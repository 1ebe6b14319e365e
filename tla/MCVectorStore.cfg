SPECIFICATION VSpec
CONSTANTS
    Files = {a, b, c}
    Markdown = {a, b}
    Inline = inline
    Long = a
    Size <- OneIsLong
    Backends = {"faiss", "chromadb"}
    None = none
    Torn = torn
    NoRequest = norequest
    MaxRequests = 4
    MaxFaults = 2
    MaxCrashes = 2
CHECK_DEADLOCK FALSE
INVARIANT SearchIsSound
INVARIANT RebuildHeals
PROPERTY FirstCrashIsHarmless
PROPERTY RestartKeepsSuccess
