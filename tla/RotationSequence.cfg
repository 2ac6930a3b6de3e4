CONSTANTS
    None = None
    r1 = r1
    r2 = r2
    cli = cli
    Stream = "stream"
    Recorders <- OneRecorder
    Rotators <- NoProcs
    MaxEvents = 2
    MaxBytes = FALSE
    UseIndex = FALSE
    MaxSuffix = 3
    MaxCalls = 4
    MaxFaults = 0
SPECIFICATION Spec
CHECK_DEADLOCK FALSE
INVARIANTS
    SequencesIncrease
