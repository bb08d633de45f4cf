\* A request that syncs the source too, and a cancellation, in any order; syncs and their commits
\* may fail.
SPECIFICATION SyncFairSpec
CONSTANTS
    j1 = j1
    j2 = j2
    j3 = j3
    daughter = daughter
    parentProject = parentProject
    withSource = withSource
    targetOnly = targetOnly
    NoJob = NoJob
    NoWorker = NoWorker
    NoProject = NoProject
    Jobs <- MCJobs
    Workers = {w1, w2}
    Parent <- MCParent
    Faults = {"sync", "commit"}
    MaxRestarts = 0
    MaxRetries = 0
    Projects = {daughter, parentProject}
    ProjectOf <- MCProjectOf
    SourceOf <- MCSourceOf
    Requests = {withSource}
    TargetJob <- MCTargetJob
    SourceJob <- MCSourceJob
    Cancels = {c1}
    CancelProject <- MCCancelProject
INVARIANTS
    SyncTypeOK
PROPERTIES
    EveryJobEnds
    CountDrains
CHECK_DEADLOCK FALSE
