CONSTANTS
    MaxTurn = 2
    Jobs = {j1, j2}
    NoJob = NoJob
    MaxEpoch = 3
    MaxLives = 2
SPECIFICATION FairSpec
INVARIANTS
    WithdrawnNeverSpeaks
    InferredOnce
    DiscardedIsFree
PROPERTIES
    QueueServed
CHECK_DEADLOCK FALSE
