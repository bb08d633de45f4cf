\* Three jobs, two workers, everything but a restart inside an election.
SPECIFICATION JobSpec
CONSTANTS
    j1 = j1
    j2 = j2
    j3 = j3
    NoJob = NoJob
    NoWorker = NoWorker
    Jobs <- MCJobs
    Workers = {w1, w2}
    Parent <- MCParent
    Faults = {"restart", "lockTimeout"}
    MaxRestarts = 1
    MaxRetries = 1
    MaxEntries = 2
CONSTRAINT BoundedQueue
INVARIANTS
    JobTypeOK
    MutualExclusion
    SingleOwner
    OwnerActive
    NoneStranded
CHECK_DEADLOCK FALSE
