SPECIFICATION Spec
CONSTANTS
    t1 = t1
    Threads = {t1}
    Refusing = {}
    MaxEpoch = 2
    MaxUpdates = 1
    MaxFaults = 1
CHECK_DEADLOCK FALSE
PROPERTY
    NoSilentGap
