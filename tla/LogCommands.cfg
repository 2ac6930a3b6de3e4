CONSTANTS
    None = None
    p1 = p1
    p2 = p2
    CoreTypes <- MCCoreTypes
    Reserved <- MCReserved
    Statuses <- MCStatuses
    Classifications <- MCClassifications
    Documents <- MCDocuments
    Jobs <- MCJobs
    Procs <- TwoProcs
    MaxEvents = 2
    MaxExports = 2
    MaxCrashes = 1
SPECIFICATION Spec
SYMMETRY Symmetry
CHECK_DEADLOCK FALSE
INVARIANTS
    MigrationDecides
    AcceptedReadsBack
    FilesFit
PROPERTY
    NothingLostOnTheWayIn
