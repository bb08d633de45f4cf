\* A sync refused for lack of permission, then one cancelled after its project operations.
SPECIFICATION Spec
CONSTANTS
    SfEdits = {s1}
    PtEdits = {p1}
    Faults = {"permission", "cancel"}
    MaxFaults = 2
INVARIANT SyncedImported
CHECK_DEADLOCK FALSE
