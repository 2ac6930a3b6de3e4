CONSTANTS
    None = None
    w1 = w1
    w2 = w2
    Stream = "stream"
    ChainedWriters <- NoWriters
    RecorderWriters <- TwoWriters
    UseLock = TRUE
    Fsync = FALSE
    LongLines = FALSE
    Faults <- NoFaults
    ManualUnlock = FALSE
    MaxCalls = 1
    MaxFaults = 0
SPECIFICATION Spec
CHECK_DEADLOCK FALSE
INVARIANTS
    LogVerifies
