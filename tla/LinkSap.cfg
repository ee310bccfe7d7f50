CONSTANTS
    Ask <- MCAsk
    Scenarios <- MCScenarios
    Levels <- MCLevels
    NoNet = "none"
    OldNet = "old"
    MaxQueued = 1
SPECIFICATION Spec
INVARIANTS
    TasksScheduled
    Watched
    ReportsRight
    ConfirmedOnce
    SuccessIsOwn
    DeathExplained
PROPERTIES
    L3AsConfirmed
    Confirmed
    CrossingNoticed
CHECK_DEADLOCK FALSE
