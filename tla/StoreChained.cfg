CONSTANTS
    None = None
    w1 = w1
    w2 = w2
    Stream = "stream"
    ChainedWriters <- TwoWriters
    RecorderWriters <- NoWriters
    UseLock = FALSE
    Fsync = TRUE
    LongLines = TRUE
    Faults <- AllFaults
    ManualUnlock = TRUE
    MaxCalls = 2
    MaxFaults = 2
SPECIFICATION FairSpec
CHECK_DEADLOCK FALSE
INVARIANTS
    MutualExclusion
    LogVerifies
    AckedInPlace
PROPERTIES
    StaleLockFreezesLog
    TornLineFreezesLog
    EveryCallEnds
    ImplementsStream
