SPECIFICATION Spec
CONSTANTS
    x1 = x1
    x2 = x2
    x3 = x3
    x4 = x4
    x5 = x5
    c1 = c1
    c2 = c2
    w1 = w1
    w2 = w2
    None = None
    INT_MAX = 7
    Key <- Keys4
    InitValue <- Init4
    Xact = {x1, x2, x3, x4, x5}
    From <- RingFrom
    To <- RingTo
    Diff <- RingDiff
    Worker = {w1}
    NF = 2
    Batch <- Batches
    MaxLsn = 5
    Client = {c1, c2}
    Command <- Singles
    WorkerOf <- InTurn
    MAX_CLI_REQ = 1
    MAX_GROUP_ENTRY = 2
INVARIANTS AppliedIsReplicated AnswersAreTrue
CHECK_DEADLOCK FALSE
