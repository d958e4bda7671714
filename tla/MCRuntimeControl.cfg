CONSTANTS
    MaxTurn = 2
    Steers = {s1}
    Interrupts = {i1}
    QueueSize = 2
    MaxEpoch = 2
    MaxLives = 2
SPECIFICATION OneKindFairSpec
INVARIANTS
    OpenInterruptIsBounded
    AdvisoryNotBoth
PROPERTIES
    PromiseKept
    NeverResent
    InterruptSettles
CHECK_DEADLOCK FALSE
