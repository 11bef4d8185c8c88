\* A booth of five, lossy radio, two crashes from outside.
CONSTANTS
    p = p
    v1 = v1
    v2 = v2
    v3 = v3
    v4 = v4
    Proposer = p
    Validators = {v1, v2, v3, v4}
    Booths <- BoothOfFive
    Registered = {v1, v2, v3, v4}
    NoBooth = NoBooth
    NoBlock = NoBlock
    MaxBlocks = 1
    MaxCrash = 2
    EvaluateComPossibilityFlag = TRUE
SPECIFICATION Spec
SYMMETRY BoothOfFiveSymmetry
INVARIANTS
    CertificateBacked
PROPERTY RefinesOrderedLog
\* The proposer makes MaxBlocks blocks and then has nothing left to do.
CHECK_DEADLOCK FALSE
