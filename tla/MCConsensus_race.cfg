\* One instance of two blocks, one booth, no loss, one crash: how replies race.
CONSTANTS
    p = p
    v1 = v1
    v2 = v2
    v3 = v3
    v4 = v4
    Proposer = p
    Validators = {v1, v2, v3}
    Booths <- OneBooth
    Registered = {v1, v2, v3}
    NoBooth = NoBooth
    MaxBlocks = 2
    MaxCrash = 1
    ConsWaitingSec = 2
    TimelyNetwork = TRUE
    EvaluateComPossibilityFlag = FALSE
SPECIFICATION FairSpec
CONSTRAINT FirstBlockSettled
INVARIANTS
    TypeOK
    CommitBacked
    CommitHeldByVoter
    MissedOnlyByLostVote
PROPERTIES
    RefinesCommittedLog
    CommitDelivered
    LoopEnds
\* The proposer's loop ends, and with it the instance.
CHECK_DEADLOCK FALSE
