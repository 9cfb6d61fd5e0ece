SPECIFICATION FairSpec
CONSTANTS
    x1 = x1
    x2 = x2
    x3 = x3
    x4 = x4
    x5 = x5
    INT_MAX = 7
    Key <- Keys4
    InitValue <- Init4
    Xact = {x1, x2, x3, x4}
    From <- CycleFrom
    To <- CycleTo
    Diff <- CycleDiff
INVARIANTS TypeOK LockDiscipline NoLostUpdate MoneyConserved
PROPERTIES ImplementsBank EventuallyCommitted
CHECK_DEADLOCK FALSE
