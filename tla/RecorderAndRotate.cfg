CONSTANTS
    None = None
    r1 = r1
    r2 = r2
    cli = cli
    Stream = "stream"
    Recorders <- TwoRecorders
    Rotators <- OneRotator
    MaxEvents = None
    MaxBytes = FALSE
    UseIndex = TRUE
    MaxSuffix = 3
    MaxCalls = 2
    MaxFaults = 1
SPECIFICATION Spec
CHECK_DEADLOCK FALSE
INVARIANTS
    AckedStoredOnce
PROPERTIES
    RotatedPathsStay
