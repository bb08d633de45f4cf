---------------------------- MODULE MCSyncQueue ----------------------------
(* Instances of SyncQueue for TLC: a request that syncs a project with its source, a request that  *)
(* syncs the project alone, or both.                                                               *)
EXTENDS SyncQueue, TLC

CONSTANTS j1, j2, j3, daughter, parentProject, withSource, targetOnly

\* The jobs the requests at hand create.
MCJobs == (IF withSource \in Requests THEN {j1, j2} ELSE {}) \cup
          (IF targetOnly \in Requests THEN {j3} ELSE {})
MCParent == [j \in MCJobs |-> IF j = j2 THEN j1 ELSE NoJob]
MCProjectOf == [j \in MCJobs |-> IF j = j1 THEN parentProject ELSE daughter]
MCSourceOf == (daughter :> parentProject) @@ (parentProject :> NoProject)
MCTargetJob == [r \in Requests |-> IF r = withSource THEN j2 ELSE j3]
MCSourceJob == [r \in Requests |-> IF r = withSource THEN j1 ELSE NoJob]
MCCancelProject == [c \in Cancels |-> daughter]

=============================================================================
