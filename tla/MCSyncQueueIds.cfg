\* Two requests and nothing that fails: the first sync of a project removes the id of the other.
SPECIFICATION SyncSpec
CONSTANTS
    j1 = j1
    j2 = j2
    j3 = j3
    daughter = daughter
    parentProject = parentProject
    withSource = withSource
    targetOnly = targetOnly
    NoJob = NoJob
    NoWorker = NoWorker
    NoProject = NoProject
    Jobs <- MCJobs
    Workers = {w1, w2}
    Parent <- MCParent
    Faults = {}
    MaxRestarts = 0
    MaxRetries = 0
    Projects = {daughter, parentProject}
    ProjectOf <- MCProjectOf
    SourceOf <- MCSourceOf
    Requests = {withSource, targetOnly}
    TargetJob <- MCTargetJob
    SourceJob <- MCSourceJob
    Cancels = {}
    CancelProject <- MCCancelProject
INVARIANTS
    Cancellable
CHECK_DEADLOCK FALSE
