SPECIFICATION FairSpec
CONSTANTS
    x1 = x1
    x2 = x2
    Xact = {x1, x2}
    Batch <- Pair
    Worker = {w1}
    NF = 4
    MaxLsn = 2
INVARIANTS TypeOK  FollowerLogIsPrefix VotesAreHolders OneCommitter Durable
PROPERTY StoredIsCommitted
CHECK_DEADLOCK FALSE
