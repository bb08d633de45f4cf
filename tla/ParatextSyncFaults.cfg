\* Any two faults, a refused user and failing backups included.
SPECIFICATION Spec
CONSTANTS
    SfEdits = {s1, s2}
    PtEdits = {p1, p2}
    Faults = {"cancel", "crash", "crashInRestore", "permission", "backup", "restore", "share",
              "update", "references", "commit", "metrics"}
    MaxFaults = 2
INVARIANTS
    TypeOK
    SuccessExchanges
CHECK_DEADLOCK FALSE
