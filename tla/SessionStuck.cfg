SPECIFICATION MSpec
CONSTANTS
    Sessions = {a, b}
    Timers = {t1, t2}
    Main = main
    NoTimer = none
    BatchThreshold = 2
    Backend = "langgraph"
    Loadable = {a}
    Absent = absent
    Torn = torn
    MaxTurns = 1
    MaxSessions = 2
    Timeout = 1
    MaxClock = 2
    MaxQueries = 2
    SlowDisk = FALSE
    MaxFailures = 0
CHECK_DEADLOCK FALSE
INVARIANT NeverStuck
