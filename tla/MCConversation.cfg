SPECIFICATION TalkSpec
CONSTANTS
    Questions <- Asked
    Customers <- Known
    HasLLM = TRUE
    Suggested <- Wordings
    HistoryTurns = 2
    MaxQuestions = 3
    ChatSessions = {s1, s2}
    Streams = {x1, x2}
    Calls = {c1, c2}
    NoSession = nosession
    NoStream = nostream
    NoCall = nocall
CHECK_DEADLOCK FALSE
INVARIANT TalkTypeOK
INVARIANT AnswersAreOwn
INVARIANT NamedIsAnswered
INVARIANT PronounKeepsOrder
INVARIANT ShownIsOwn
INVARIANT StreamingIsKnown
INVARIANT LockIsOfLatest
