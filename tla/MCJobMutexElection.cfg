\* A restart between a job's election and its state change: the job's id stays in the mutex set.
SPECIFICATION JobSpec
CONSTANTS
    j1 = j1
    j2 = j2
    j3 = j3
    NoJob = NoJob
    NoWorker = NoWorker
    Jobs <- MCJobs
    Workers = {w1, w2}
    Parent <- MCParent
    Faults = {"restartInElection"}
    MaxRestarts = 1
    MaxRetries = 1
    MaxEntries = 2
CONSTRAINT BoundedQueue
INVARIANT NoFinishedOwner
CHECK_DEADLOCK FALSE
