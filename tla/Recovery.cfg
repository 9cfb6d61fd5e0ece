SPECIFICATION FairSpec
CONSTANTS
    NF = 2
    MaxBoot <- Boots
    MaxCrash = 1
    MaxLsn <- Batches
INVARIANTS TypeOK PrefixPerLeader AnsweredSurvives VotesAreTrue
PROPERTY EndSpreads
CHECK_DEADLOCK FALSE
