CONSTANTS
    None = None
    w1 = w1
    w2 = w2
    c1 = c1
    Stream = "stream"
    ChainedWriters <- OneChained
    RecorderWriters <- OneRecorder
    UseLock = TRUE
    Fsync = FALSE
    LongLines = TRUE
    Faults <- CrashOrDisk
    ManualUnlock = TRUE
    MaxCalls = 2
    MaxFaults = 1
    Readers <- OneReader
    MaxReads = 2
SPECIFICATION LogSpec
CHECK_DEADLOCK FALSE
INVARIANTS
    AckedSurvive
    ReadsAreSnapshots
