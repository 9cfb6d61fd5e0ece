SPECIFICATION FairSpec
CONSTANTS
    x1 = x1
    x2 = x2
    x3 = x3
    x4 = x4
    x5 = x5
    c1 = c1
    c2 = c2
    w1 = w1
    w2 = w2
    None = None
    INT_MAX = 7
    Key <- Keys4
    InitValue <- NoMoney
    Xact = {x1, x2, x3, x4}
    From <- RingFrom
    To <- RingTo
    Diff <- NoDiff
    Worker = {w1, w2}
    NF = 2
    Batch <- Batches
    MaxLsn = 5
    Client = {c1, c2}
    Command <- Pairs
    WorkerOf <- InTurn
    MAX_CLI_REQ = 2
    MAX_GROUP_ENTRY = 2
INVARIANTS LogOrderIsCommitOrder LocksHandedOver WorkersInStep
PROPERTY EveryCommandAnswered
CHECK_DEADLOCK FALSE
