\* One booth, no loss, no crash from outside.
CONSTANTS
    p = p
    v1 = v1
    v2 = v2
    v3 = v3
    v4 = v4
    Proposer = p
    Validators = {v1, v2, v3}
    Booths <- OneBooth
    Registered = {v1, v2, v3}
    NoBooth = NoBooth
    NoBlock = NoBlock
    MaxBlocks = 2
    MaxCrash = 0
    EvaluateComPossibilityFlag = FALSE
SPECIFICATION Spec
INVARIANT NoCircularWait
\* The proposer makes MaxBlocks blocks and then has nothing left to do.
CHECK_DEADLOCK FALSE
