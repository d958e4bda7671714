\* Everything happens in the root directory of the repository.
CONSTANTS
    s1 = s1
    w1 = w1
    w2 = w2
    Snapshots = {x1, x2}
    Sessions = {s1}
    Writers = {w1, w2}
    SessionOf <- MCSessionOf
    Dirs = {root}
    PrunedDirs = {root}
    MaxRecords = 2
    NoSnapshot = NoSnapshot
    NoDir = NoDir
    AnyDir = AnyDir
    Sweeper = Sweeper
    Nobody = Nobody
SPECIFICATION Spec
SYMMETRY MCSymmetry
INVARIANTS JournalledIsPinned PinnedSurvives
PROPERTIES RecordedOnceOwned
CHECK_DEADLOCK FALSE
