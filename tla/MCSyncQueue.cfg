\* Two requests, no cancellation; calls of a request, syncs and their commits may fail, and the server
\* restarts.
SPECIFICATION SyncFairSpec
CONSTANTS
    j1 = j1
    j2 = j2
    j3 = j3
    daughter = daughter
    parentProject = parentProject
    withSource = withSource
    targetOnly = targetOnly
    NoJob = NoJob
    NoWorker = NoWorker
    NoProject = NoProject
    Jobs <- MCJobs
    Workers = {w1, w2}
    Parent <- MCParent
    Faults = {"request", "continue", "sync", "commit", "restart"}
    MaxRestarts = 1
    MaxRetries = 1
    Projects = {daughter, parentProject}
    ProjectOf <- MCProjectOf
    SourceOf <- MCSourceOf
    Requests = {withSource, targetOnly}
    TargetJob <- MCTargetJob
    SourceJob <- MCSourceJob
    Cancels = {}
    CancelProject <- MCCancelProject
INVARIANTS
    IdsMatchCount
    ShownWhilePending
    FailedRequestRunsNothing
    SourceFirst
    UncountedOnlyAbandoned
PROPERTIES
    EveryJobEnds
CHECK_DEADLOCK FALSE
