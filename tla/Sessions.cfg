SPECIFICATION FairSpec
CONSTANTS
    c1 = c1
    c2 = c2
    c3 = c3
    n1 = n1
    None = None
    Client = {c1, c2, c3}
    Lines <- Files
    TX_NUM <- Counts
    MAX_CLI_REQ = 2
    Notifier = {n1}
    Killable = {c2}
INVARIANTS TypeOK MessagesReachOwner LeaderSurvives 
PROPERTY EverybodyLeaves
CHECK_DEADLOCK FALSE
