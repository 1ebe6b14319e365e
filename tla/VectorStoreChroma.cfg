SPECIFICATION VSpec
CONSTANTS
    Files = {a, b, c}
    Markdown = {a, b}
    Inline = inline
    Long = a
    Size <- OneIsLong
    Backends = {"chromadb"}
    None = none
    Torn = torn
    NoRequest = norequest
    MaxRequests = 4
    MaxFaults = 0
    MaxCrashes = 0
CHECK_DEADLOCK FALSE
INVARIANT IngestedIsFound
