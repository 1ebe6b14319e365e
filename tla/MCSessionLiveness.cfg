SPECIFICATION MFairSpec
CONSTANTS
    Sessions = {a, b}
    Timers = {t1}
    Main = main
    NoTimer = none
    BatchThreshold = 2
    Backend = "json"
    Loadable = {a, b}
    Absent = absent
    Torn = torn
    MaxTurns = 1
    MaxSessions = 1
    Timeout = 1
    MaxClock = 2
    MaxQueries = 1
    SlowDisk = TRUE
    MaxFailures = 1
PROPERTY DirtyIsFlushed
PROPERTY TakenIsSaved
CHECK_DEADLOCK FALSE
