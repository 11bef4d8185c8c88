\* The vehicle v1 leaves and v4 joins between blocks; no loss.
CONSTANTS
    p = p
    v1 = v1
    v2 = v2
    v3 = v3
    v4 = v4
    Proposer = p
    Validators = {v1, v2, v3, v4}
    Booths <- TwoBooths
    Registered = {v1, v2, v3, v4}
    NoBooth = NoBooth
    NoBlock = NoBlock
    MaxBlocks = 2
    MaxCrash = 0
    EvaluateComPossibilityFlag = FALSE
SPECIFICATION Spec
SYMMETRY TwoBoothsSymmetry
INVARIANTS
    TypeOK
    CertificateBacked
    RecoverySucceeds
    VotersNeverStall
PROPERTY RefinesOrderedLog
\* The proposer makes MaxBlocks blocks and then has nothing left to do.
CHECK_DEADLOCK FALSE
