\* Two edits a side and two faults, of every kind but a refused user, a failing backup and a stop
\* within a restore.
SPECIFICATION FairSpec
CONSTANTS
    SfEdits = {s1, s2}
    PtEdits = {p1, p2}
    Faults = {"cancel", "crash", "restore", "share", "update", "references", "commit", "metrics"}
    MaxFaults = 2
INVARIANTS
    SyncedImported
    RevisionAvailable
PROPERTIES
    NothingReverted
    ExchangeSpec
    Converges
CHECK_DEADLOCK FALSE
