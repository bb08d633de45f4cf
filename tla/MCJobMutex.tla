----------------------------- MODULE MCJobMutex -----------------------------
(* Instances of JobMutex for TLC: two independent jobs and one that continues the first. *)
EXTENDS JobMutex, TLC

CONSTANTS j1, j2, j3, MaxEntries

MCJobs == {j1, j2, j3}
MCParent == (j1 :> NoJob) @@ (j2 :> NoJob) @@ (j3 :> j1)

\* Bound: a client that enqueues a job again and again leaves at most this many queue entries.
BoundedQueue ==
    \A j \in Jobs : queue[j] + Cardinality({w \in Workers : on[w] = j}) <= MaxEntries

=============================================================================
