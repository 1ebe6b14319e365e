SPECIFICATION MSpec
CONSTANTS
    Sessions = {s1, s2, s3}
    Timers = {t1, t2}
    Main = main
    NoTimer = none
    BatchThreshold = 3
    Keys = {k1, k2, k3}
    Values = {a, b}
    MaxSize = 2
    Ttl = 2
    MaxTime = 6
    Clients = {c1, c2}
    MaxRequests = 2
    Window = 3
    MaxNow = 5
    MaxAdmitted = 4
    Users = {u1, u2}
    Sockets = {w1, w2, w3}
    Sends = {x1}
    Nobody = nobody
CHECK_DEADLOCK FALSE
INVARIANT DirtyIsScheduled
PROPERTY NoRequestLost
PROPERTY IsRecencyList
INVARIANT LimitIsExact
INVARIANT TableFollowsHandlers
INVARIANT SendReachesAll
