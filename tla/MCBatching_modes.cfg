\* Both modes, one worker or two.
CONSTANTS
    Workers = {0, 1}
    CommandLines <- BothModes
SPECIFICATION FairSpec
INVARIANTS
    TypeOK
    MessagesConserved
    BlocksBounded
    SentInSequence
    SnapshotsMatchBroadcast
PROPERTY QueuesDrained
\* The queues are filled once, and then run dry.
CHECK_DEADLOCK FALSE
