SPECIFICATION FairSpec
CONSTANTS
    c1 = c1
    c2 = c2
    c3 = c3
    Missing = Missing
    None = None
    Empty = Empty
    ConfigFile <- TwoNodes
    ClientConfig <- Contacts
    Candidate = {0}
    Arg <- OneByAddress
    VotedForFile <- Emptied
    WORKER_NUM = 2
    Client = {c1, c2, c3}
INVARIANTS TypeOK SettledAtLeader BatchAfterVote SharedEvenly
PROPERTY EverybodyServed
CHECK_DEADLOCK FALSE
