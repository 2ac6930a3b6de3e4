CONSTANTS
    None = None
    r1 = r1
    b1 = b1
    b2 = b2
    Recorders <- OneRecorder
    Rebuilders <- TwoRebuilders
    Events <- MCEvents
    Filters <- MCFilters
    MaxCalls = 2
    MaxRotations = 1
    MaxCrashes = 1
SPECIFICATION Spec
CHECK_DEADLOCK FALSE
INVARIANTS
    TypeOK
    RebuildRepairs
    MissingOnlyIfDropped
    QueryAgrees
