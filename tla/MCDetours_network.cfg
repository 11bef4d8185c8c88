\* Two proposers, two moving validators, one phase that stands for all five.
CONSTANTS
    p1 = p1
    p2 = p2
    v1 = v1
    v2 = v2
    TIME = TIME
    OPB = TIME
    ProposerList <- TwoProposers
    Validators = {v1, v2}
    MainProposerId = p1
    Phases <- OnePhase
    maxTry = 2
    MaxClock = 1
    MaxSkew = 1
    Contacts <- Moves
    AllowBypassRoute = TRUE
    MaxLag = 1
SPECIFICATION DetoursFairSpec
INVARIANTS
    DetoursTypeOK
    FirstProposerComplete
    StartTimesAgree
    SharesCreditedOnce
PROPERTIES
    AllStart
    EndSpreads
    DetoursDeliver
\* Some servers wait for others for ever, and everything ends.
CHECK_DEADLOCK FALSE
