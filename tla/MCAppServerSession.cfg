SPECIFICATION Spec
CONSTANTS
    t1 = t1
    t2 = t2
    Threads = {t1, t2}
    Refusing = {t2}
    MaxEpoch = 2
    MaxUpdates = 1
    MaxFaults = 1
CHECK_DEADLOCK FALSE
INVARIANTS
    QuietMeansSubscribed
    ConsumedWhileReady
PROPERTY
    ReadyReached
