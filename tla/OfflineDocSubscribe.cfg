\* A document a page subscribes to, as texts are: two edits, one reopening.
SPECIFICATION Spec
CONSTANTS
    Edits = {e1, e2}
    OtherEdits = {o1}
    Routes = {"subscribe"}
    Cases = {}
    MaxPages = 2
    MaxDrops = 1
INVARIANT AppliedOnce
CHECK_DEADLOCK FALSE
