CONSTANTS
    Precision = 2
    None = None
    ContentKeys <- MCContentKeys
    Keys <- MCKeys
    Indices <- MCIndices
    Index <- MCIndex
    Nested <- MCNested
    Payloads <- MCPayloads
    Profiles <- MCProfiles
SPECIFICATION Spec
CHECK_DEADLOCK FALSE
INVARIANTS
    NothingNamedIsShown
    UnnamedIsKept
    ExportAgrees
    ClassifiedWithheld
PROPERTY
    PlainVerifies
