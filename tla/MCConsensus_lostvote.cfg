\* One instance, one booth, no loss.
CONSTANTS
    p = p
    v1 = v1
    v2 = v2
    v3 = v3
    v4 = v4
    Proposer = p
    Validators = {v1, v2, v3}
    Booths <- OneBooth
    Registered = {v1, v2, v3}
    NoBooth = NoBooth
    MaxBlocks = 1
    MaxCrash = 0
    ConsWaitingSec = 1
    TimelyNetwork = TRUE
    EvaluateComPossibilityFlag = FALSE
SPECIFICATION Spec
SYMMETRY OneBoothSymmetry
INVARIANT EveryInstanceCommits
\* The proposer's loop ends, and with it the instance.
CHECK_DEADLOCK FALSE
