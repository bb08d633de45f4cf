\* The four parts of the client and the server that share no state, one moving in each behaviour.
SPECIFICATION Spec
CONSTANTS
    StaleCache = FALSE
    MaxRecordings = 2
    MaxPauses = 1
    MaxReloads = 1
    Syncs = {sync1, sync2}
    a = a
    b = b
    c = c
    MaxAtOnce = 2
    MaxEvents = 3
    DocIds = {a, b, c}
    Results <- SomeResults
    MaxChanges = 4
    MaxOverlap = 2
    MaxAsks = 3
    Batches <- TwoBatches
    Starts <- SomeStarts
    MaxCrashes = 1
INVARIANTS
    ComponentsTypeOK
    RecordingKept
    CountsBalance
    ListenersCover
    ChangeHeals
    DisposeReleases
    ResumedAsOneRun
    SchemaComplete
    CancelStopsAsking
    NothingOnlyIfCanceled
PROPERTIES
    MigrationEnds
    RequestSettles
CHECK_DEADLOCK FALSE
