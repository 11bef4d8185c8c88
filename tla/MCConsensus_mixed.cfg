\* One instance over blocks of different booths; only v4 has a connection, lossy.
CONSTANTS
    p = p
    v1 = v1
    v2 = v2
    v3 = v3
    v4 = v4
    Proposer = p
    Validators = {v1, v2, v3, v4}
    Booths <- ThreeBooths
    Registered = {v4}
    NoBooth = NoBooth
    MaxBlocks = 2
    MaxCrash = 0
    ConsWaitingSec = 1
    TimelyNetwork = FALSE
    EvaluateComPossibilityFlag = TRUE
SPECIFICATION Spec
SYMMETRY TwoBoothsSymmetry
CONSTRAINT MembershipChanges
INVARIANTS
    RangesPartition
    NewMembersVerify
\* The proposer's loop ends, and with it the instance.
CHECK_DEADLOCK FALSE
