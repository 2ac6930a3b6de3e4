CONSTANTS
    None = None
    r1 = r1
    r2 = r2
    cli = cli
    Stream = "stream"
    Recorders <- OneRecorder
    Rotators <- NoProcs
    MaxEvents = 2
    MaxBytes = TRUE
    UseIndex = TRUE
    MaxSuffix = 3
    MaxCalls = 6
    MaxFaults = 2
SPECIFICATION Spec
CHECK_DEADLOCK FALSE
INVARIANTS
    IndexAgrees
    SegmentBound
    SegmentsInOrder
    DigestsLinked
