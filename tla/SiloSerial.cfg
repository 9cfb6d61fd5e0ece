SPECIFICATION Spec
CONSTANTS
    x1 = x1
    x2 = x2
    x3 = x3
    x4 = x4
    w1 = w1
    w2 = w2
    w3 = w3
    NoXact = NoXact
    INT_MAX = 3
    VAL_SIZE = 3
    Base = 2
    Key <- Keys3
    Xact = {x1, x2, x3, x4}
    Worker = {w1, w2}
    From <- RingFrom
    To <- RingTo
    Diff <- RingDiff
    TIDS = 5
    write_val <- Digits
    Letter = 1
    Memory <- Memory3
INVARIANT TidNamesValue
PROPERTIES CommitTidLarger Serializable
CHECK_DEADLOCK FALSE
