\* One recording, one lost connection: an answer recorded off line whose upload fails.
SPECIFICATION FilesSpec
CONSTANTS
    StaleCache = FALSE
    MaxRecordings = 1
    MaxPauses = 1
    MaxReloads = 0
    Syncs = {sync1, sync2}
INVARIANT AnswerKept
CHECK_DEADLOCK FALSE
