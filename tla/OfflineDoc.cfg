\* Documents in queries: two edits, one of another user, two pages and a lost connection.
SPECIFICATION FairSpec
CONSTANTS
    Edits = {e1, e2}
    OtherEdits = {o1}
    Routes = {"query"}
    Cases = {}
    MaxPages = 2
    MaxDrops = 1
INVARIANTS
    TypeOK
    AppliedOnce
    ShowsServer
PROPERTIES
    DeliverySpec
    SavedArrives
CHECK_DEADLOCK FALSE
