CONSTANTS
    Ask <- MCAsk
    Scenarios <- MCScenarios
    Levels <- MCLevels
    NoNet = "none"
    OldNet = "old"
    MaxQueued = 1
SPECIFICATION Spec
INVARIANT CrossingReported
CHECK_DEADLOCK FALSE
