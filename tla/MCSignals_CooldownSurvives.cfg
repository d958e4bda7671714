CONSTANTS
    None = None
    Covers <- MCCovers
    Alphabet <- MCAlphabet
    FailureThreshold = 2
    ToolThreshold = 2
    ReadThreshold = 2
    ScopeThreshold = 2
    EditThreshold = 2
    ContextThreshold = 80
    DurationFactor = 300
    BaselineSamples = 2
    BaselineLimit = 2
    FrontierLimit = 2
    ScopeLimit = 2
    BlockLimit = 2
    MaxEvents = 4
    MaxCrashes = 1
SPECIFICATION MCSpec

CHECK_DEADLOCK FALSE
INVARIANT CooldownSurvives
