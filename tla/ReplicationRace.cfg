SPECIFICATION Spec
CONSTANTS
    x1 = x1
    x2 = x2
    Xact = {x1, x2}
    Batch <- Pair
    Worker = {w1}
    NF = 2
    MaxLsn = 1
INVARIANT NotFoundMeansLoaded
CHECK_DEADLOCK FALSE
