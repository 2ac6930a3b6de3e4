CONSTANTS
    None = None
    Missing = Missing
    Empty = Empty
    Garbage = Garbage
    p1 = p1
    p2 = p2
    k1 = k1
    k2 = k2
    Procs <- TwoProcesses
    Keys <- TwoKeys
    KeyIds <- TwoIds
    PublicKeys <- BothKnown
    AllowedIds <- OnlyRelease
    AllowedKeys <- Anybody
    Minimum = 2
    Required = TRUE
    Streams <- OneStream
    FirstLogs <- NamedOrNot
    Edits <- AllEdits
    MaxCalls = 2
    MaxEdits = 2
    MaxCrashes = 1
SPECIFICATION Spec
SYMMETRY Processes
CHECK_DEADLOCK FALSE
INVARIANTS
    SignaturesFit
    PinsTheLog
    SignaturesKept
    TrustedLog
