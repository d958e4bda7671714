\* A log claimed by two processes, three inodes: a log, its replacement and one used again.
\* A repository and a copy of it, two forks of one snapshot.
SPECIFICATION MCSpec
CONSTANTS
    Logs = {l1}
    Proc = {p, q}
    Inodes = {i1, i2, i3}
    MaxGen = 2
    Repos = {a, b}
    Places = {here, there}
    Snapshots = {x}
    Forks = {f, g}
    a = a
    here = here
    f = f
    g = g
    MaxMoves = 2
SYMMETRY Symmetries
INVARIANT WorktreesRecorded
PROPERTIES UserFilesKept PurgeIsExact
CHECK_DEADLOCK FALSE
