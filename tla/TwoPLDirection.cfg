SPECIFICATION Spec
CONSTANTS
    x1 = x1
    x2 = x2
    x3 = x3
    x4 = x4
    x5 = x5
    INT_MAX = 7
    Key <- Keys4
    InitValue <- Init4
    Xact = {x1, x2}
    From <- CycleFrom
    To <- CycleTo
    Diff <- CycleDiff
INVARIANT BalancesAsRequested
CHECK_DEADLOCK FALSE
