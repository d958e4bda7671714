CONSTANTS
    Sessions = {s1, s2}
    Tokens = {t1, t2, t3}
    MaxPerSession = 1
    MaxPerDay = 2
    SlotTTL = 1
    DayLength = 3
    MaxTime = 4
SYMMETRY Symmetric
SPECIFICATION LedgerSpec
INVARIANTS
    NeverUnderCounts
    SessionCeilingHeld
    LiveHolderKeepsSlot
CHECK_DEADLOCK FALSE
