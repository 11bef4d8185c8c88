\* Two booths, one block.
CONSTANTS
    p = p
    v1 = v1
    v2 = v2
    v3 = v3
    v4 = v4
    Proposer = p
    Validators = {v1, v2, v3, v4}
    Booths <- TwoBooths
    Registered = {v1, v2, v3, v4}
    NoBooth = NoBooth
    MaxBlocks = 1
    MaxCrash = 0
    ConsWaitingSec = 1
    TimelyNetwork = TRUE
    EvaluateComPossibilityFlag = FALSE
SPECIFICATION Spec
SYMMETRY TwoBoothsSymmetry
INVARIANT NewMembersScrutinize
\* The proposer's loop ends, and with it the instance.
CHECK_DEADLOCK FALSE
