SPECIFICATION OWSpec
CONSTANTS
    Requests = {r1, r2}
    NoRequest = none
    Seeds <- DifferentOrders
    Targets = {"delivered", "return_requested"}
    WindowEnd = 1
    MaxClock = 2
    MaxServed = 4
CHECK_DEADLOCK FALSE
SYMMETRY RequestSymmetry
INVARIANT HistoryEndsInStatus
INVARIANT HistoryIsRooted
INVARIANT AllOrNothing
INVARIANT ChainWhenInTurn
PROPERTY SettledWhenInTurn
