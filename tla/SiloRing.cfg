SPECIFICATION FairSpec
CONSTANTS
    x1 = x1
    x2 = x2
    x3 = x3
    x4 = x4
    w1 = w1
    w2 = w2
    w3 = w3
    NoXact = NoXact
    INT_MAX = 3
    VAL_SIZE = 3
    Base = 2
    Key <- Keys3
    Xact = {x1, x2, x3}
    Worker = {w1, w2, w3}
    From <- RingFrom
    To <- RingTo
    Diff <- NoDiff
    TIDS = 5
    write_val <- Digits
    Letter = 1
    Memory <- Memory3
INVARIANTS TypeOK LockDiscipline
PROPERTY EventuallyCommitted
CHECK_DEADLOCK FALSE
