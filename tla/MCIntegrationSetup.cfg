CONSTANTS
    None = None
    p = p
    q = q
    Proc = {p, q}
    Modes = {"managed", "portable"}
    Endpoints = {"e1"}
    Switch = FALSE
    MaxBuild = 2
    MaxBegun = 3
    MaxCrashes = 1
    MaxEdits = 1
SPECIFICATION MCSpec
SYMMETRY Symmetry
INVARIANT UserHooksKept
PROPERTIES FailureRestores ManagedReadyRuns
CHECK_DEADLOCK FALSE
