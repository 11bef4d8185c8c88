\* Booths whose indices print differently, over two runs of the proposer.
CONSTANTS
    ServerID = 0
    NumOfConn = 13
    Callers = {ordering, consensus}
    NoLookup = NoLookup
    Idle = Idle
    FailAfter = {3}
    MaxRuns = 2
    Patterns <- DistinctIds
SPECIFICATION Spec
INVARIANTS
    TypeOK
    ExactMatch
    KeysBeforeUse
PROPERTY IdsKeepTheirBooth
