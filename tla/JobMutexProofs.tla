--------------------------- MODULE JobMutexProofs ---------------------------
(* Proofs about JobMutex: its type invariant, mutual exclusion of sync bodies, a single mutex       *)
(* owner, and the mutex's release, for any jobs, workers and client behaviour.                      *)
EXTENDS JobMutex, FiniteSetTheorems, TLAPS

\* The execution lock's holder is exactly the worker in a body.
LockInv == \A w \in Workers : phase[w] = "running" <=> execLock = w

\* A busy worker holds a job's entry and an idle one none.
EntryInv == \A w \in Workers : on[w] \in Jobs <=> phase[w] # "idle"

\* A job being elected is in a state from which it can be processed, is elected by one worker and,
\* once elected, owns the mutex.
ElectionInv ==
    \A w \in Workers : phase[w] \in Electing =>
        /\ phase[w] = "elected" => on[w] \in mutexSet
        /\ state[on[w]] \in {"enqueued", "processing"}
        /\ \A v \in Workers : phase[v] \in Electing /\ on[v] = on[w] => v = w

\* What a worker has read of the set stays true until it adds to it, for it reads alone.
ReadInv ==
    \A w \in Workers : phase[w] = "reading" =>
        mutexSet \subseteq {on[w]} /\ \A v \in Workers : phase[v] = "reading" => v = w

JobInv == JobTypeOK /\ LockInv /\ EntryInv /\ ElectionInv /\ ReadInv /\ SingleOwner

USE DEF JobStates, Phases, Electing, Finished

LEMMA MoveType ==
    ASSUME JobTypeOK, NEW j \in Jobs, NEW s \in JobStates, Move(j, s)
    PROVE  /\ state' \in [Jobs -> JobStates]
           /\ queue' \in [Jobs -> Nat]
           /\ mutexSet' \subseteq Jobs
BY DEF JobTypeOK, Move, Released

LEMMA InitInv == JobInit => JobInv
BY JobsAssumption, WorkersAssumption, BoundsAssumption
DEF JobInit, JobInv, JobTypeOK, LockInv, EntryInv, ElectionInv, ReadInv, SingleOwner

\* A client call or a timer moves a job no worker is electing, and no worker.
LEMMA ClientMove ==
    ASSUME JobInv, NEW j \in Jobs, NEW s \in JobStates \ {"processing"}, StateLockFree(j),
           Move(j, s), UNCHANGED <<retries, phase, on, execLock, restarts>>
    PROVE  JobInv' /\ (OwnerActive => OwnerActive')
<1> USE DEF JobInv
<1>1. JobTypeOK'
  BY MoveType DEF JobTypeOK
<1>2. LockInv' /\ EntryInv'
  BY DEF LockInv, EntryInv
<1>3. ElectionInv'
  <2> SUFFICES ASSUME NEW w \in Workers, phase[w] \in Electing
               PROVE  /\ phase[w] = "elected" => on[w] \in mutexSet'
                      /\ state'[on[w]] \in {"enqueued", "processing"}
                      /\ \A v \in Workers : phase[v] \in Electing /\ on[v] = on[w] => v = w
    BY DEF ElectionInv
  <2>1. on[w] \in Jobs /\ on[w] # j
    BY DEF EntryInv, StateLockFree
  <2>2. state'[on[w]] = state[on[w]] \/ state'[on[w]] = "enqueued"
    BY <2>1 DEF Move, JobTypeOK
  <2>3. on[w] \in mutexSet => on[w] \in mutexSet'
    BY <2>1 DEF Move
  <2> QED
    BY <2>2, <2>3 DEF ElectionInv
<1>4. SingleOwner' /\ ReadInv'
  BY DEF SingleOwner, ReadInv, Move
<1>5. OwnerActive => OwnerActive'
  BY DEF OwnerActive, StateLockFree, Move, Released, JobTypeOK
<1> QED
  BY <1>1, <1>2, <1>3, <1>4, <1>5

\* ... and so does a client call on a job in any state but the two it can be elected from.
LEMMA Unelected ==
    ASSUME JobInv, NEW j \in Jobs, state[j] \notin {"enqueued", "processing"}
    PROVE  StateLockFree(j)
BY DEF JobInv, ElectionInv, StateLockFree

LEMMA ClientStep ==
    ASSUME JobInv, ClientNext \/ \E j \in Jobs : TimerFires(j)
    PROVE  JobInv' /\ (OwnerActive => OwnerActive')
<1>1. CASE \E j \in Jobs : Schedule(j)
  BY <1>1, ClientMove, Unelected DEF Schedule
<1>2. CASE \E j \in Jobs : ContinueJobWith(j)
  BY <1>2, ClientMove, Unelected DEF ContinueJobWith
<1>3. CASE \E j \in Jobs : Enqueue(j)
  BY <1>3, ClientMove DEF Enqueue
<1>4. CASE \E j \in Jobs : Delete(j)
  BY <1>4, ClientMove DEF Delete
<1>5. CASE \E j \in Jobs : TimerFires(j)
  BY <1>5, ClientMove, Unelected DEF TimerFires
<1> QED
  BY <1>1, <1>2, <1>3, <1>4, <1>5 DEF ClientNext

LEMMA DropEntryStep ==
    ASSUME JobInv, NEW w \in Workers, NEW j \in Jobs, DropEntry(w, j)
    PROVE  JobInv' /\ (OwnerActive => OwnerActive')
BY DEF JobInv, DropEntry, JobTypeOK, LockInv, EntryInv, ElectionInv, ReadInv, SingleOwner, OwnerActive

\* A worker reads the set while no other does.
LEMMA ReadSetStep ==
    ASSUME JobInv, NEW w \in Workers, NEW j \in Jobs, ReadSet(w, j)
    PROVE  JobInv' /\ (OwnerActive => OwnerActive')
<1> USE DEF JobInv, ReadSet
<1>1. JobTypeOK'
  BY DEF JobTypeOK
<1>2. LockInv' /\ EntryInv'
  BY JobsAssumption DEF LockInv, EntryInv, JobTypeOK
<1>3. ElectionInv'
  BY DEF ElectionInv, StateLockFree, JobTypeOK
<1>4. ReadInv'
  BY DEF ReadInv, SetLockFree, JobTypeOK
<1>5. SingleOwner' /\ (OwnerActive => OwnerActive')
  BY DEF SingleOwner, OwnerActive, JobTypeOK
<1> QED
  BY <1>1, <1>2, <1>3, <1>4, <1>5

\* What it read holds when it adds the job's id, so the set has one owner.
LEMMA AddToSetStep ==
    ASSUME JobInv, NEW w \in Workers, AddToSet(w)
    PROVE  JobInv' /\ (OwnerActive => OwnerActive')
<1> USE DEF JobInv, AddToSet
<1>1. on[w] \in Jobs /\ mutexSet \subseteq {on[w]} /\ mutexSet' = {on[w]}
  BY DEF EntryInv, ReadInv
<1>2. JobTypeOK'
  BY <1>1 DEF JobTypeOK
<1>3. LockInv' /\ EntryInv'
  BY <1>1 DEF LockInv, EntryInv, JobTypeOK
<1>4. ElectionInv'
  BY <1>1 DEF ElectionInv, JobTypeOK
<1>5. ReadInv'
  BY DEF ReadInv, JobTypeOK
<1>6. SingleOwner' /\ (OwnerActive => OwnerActive')
  BY <1>1 DEF SingleOwner, OwnerActive, JobTypeOK
<1> QED
  BY <1>2, <1>3, <1>4, <1>5, <1>6

LEMMA PutOffStep ==
    ASSUME JobInv, NEW w \in Workers, NEW j \in Jobs, PutOff(w, j)
    PROVE  JobInv' /\ (OwnerActive => OwnerActive')
<1> USE DEF JobInv, PutOff
<1>1. JobTypeOK'
  BY DEF JobTypeOK
<1>2. LockInv' /\ EntryInv'
  BY DEF LockInv, EntryInv
<1>3. ElectionInv'
  BY DEF ElectionInv, StateLockFree, JobTypeOK
<1>4. SingleOwner' /\ ReadInv' /\ (OwnerActive => OwnerActive')
  BY DEF SingleOwner, ReadInv, OwnerActive, StateLockFree, JobTypeOK
<1> QED
  BY <1>1, <1>2, <1>3, <1>4

\* A redelivered job loses the mutex as it is processed again; a fresh one keeps it.
LEMMA ProcessStep ==
    ASSUME JobInv, NEW w \in Workers, Process(w)
    PROVE  JobInv' /\ (OwnerActive => OwnerActive')
<1> USE DEF JobInv, Process
<1>1. on[w] \in Jobs /\ "processing" \in JobStates
  BY DEF EntryInv
<1>2. JobTypeOK'
  BY <1>1, MoveType DEF JobTypeOK
<1>3. LockInv' /\ EntryInv'
  BY DEF LockInv, EntryInv, JobTypeOK
<1>4. ElectionInv'
  BY <1>1 DEF ElectionInv, Move, Released, JobTypeOK, SingleOwner, EntryInv
<1>5. SingleOwner' /\ ReadInv' /\ (OwnerActive => OwnerActive')
  BY <1>1 DEF SingleOwner, ReadInv, OwnerActive, Move, Released, JobTypeOK
<1> QED
  BY <1>2, <1>3, <1>4, <1>5

LEMMA BeginStep ==
    ASSUME JobInv, NEW w \in Workers, Begin(w)
    PROVE  JobInv' /\ (OwnerActive => OwnerActive')
<1> USE DEF JobInv, Begin
<1>1. JobTypeOK'
  BY DEF JobTypeOK
<1>2. LockInv' /\ EntryInv'
  BY WorkersAssumption DEF LockInv, EntryInv, JobTypeOK
<1>3. ElectionInv' /\ ReadInv' /\ SingleOwner' /\ (OwnerActive => OwnerActive')
  BY DEF ElectionInv, ReadInv, SingleOwner, OwnerActive, JobTypeOK
<1> QED
  BY <1>1, <1>2, <1>3

\* The end of a body, whatever state the job goes to.
LEMMA LeaveStep ==
    ASSUME JobInv, NEW w \in Workers, NEW s \in JobStates \ {"processing"},
           phase[w] = "running", StateLockFree(on[w]), Leave(w, s),
           retries' \in [Jobs -> 0 .. MaxRetries], UNCHANGED restarts
    PROVE  JobInv' /\ (OwnerActive => OwnerActive')
<1> USE DEF JobInv, Leave
<1>1. on[w] \in Jobs
  BY DEF EntryInv
<1>2. JobTypeOK'
  <2>1. CASE state[on[w]] = "processing"
    BY <1>1, <2>1, MoveType DEF JobTypeOK
  <2>2. CASE state[on[w]] # "processing"
    BY <2>2 DEF JobTypeOK
  <2> QED
    BY <2>1, <2>2
<1>3. LockInv' /\ EntryInv'
  BY <1>1, WorkersAssumption, JobsAssumption DEF LockInv, EntryInv, JobTypeOK
<1>4. ElectionInv'
  <2> SUFFICES ASSUME NEW v \in Workers, phase'[v] \in Electing
               PROVE  /\ phase'[v] = "elected" => on'[v] \in mutexSet'
                      /\ state'[on'[v]] \in {"enqueued", "processing"}
                      /\ \A u \in Workers : phase'[u] \in Electing /\ on'[u] = on'[v] => u = v
    BY DEF ElectionInv
  <2>1. /\ v # w /\ phase'[v] = phase[v] /\ on'[v] = on[v]
        /\ \A u \in Workers : phase'[u] \in Electing => phase'[u] = phase[u] /\ on'[u] = on[u]
    BY DEF JobTypeOK
  <2>2. on[v] \in Jobs /\ on[v] # on[w]
    BY <2>1 DEF EntryInv, StateLockFree
  <2>3. state'[on[v]] = state[on[v]] \/ state'[on[v]] = "enqueued"
    BY <2>2 DEF Move, JobTypeOK
  <2>4. on[v] \in mutexSet => on[v] \in mutexSet'
    BY <2>2 DEF Move
  <2> QED
    BY <2>1, <2>3, <2>4 DEF ElectionInv
<1>5. SingleOwner' /\ ReadInv' /\ (OwnerActive => OwnerActive')
  BY <1>1 DEF SingleOwner, ReadInv, OwnerActive, StateLockFree, Move, Released, JobTypeOK
<1> QED
  BY <1>2, <1>3, <1>4, <1>5

LEMMA EndStep ==
    ASSUME JobInv, NEW w \in Workers, Succeed(w) \/ Throw(w)
    PROVE  JobInv' /\ (OwnerActive => OwnerActive')
<1>1. CASE Succeed(w)
  BY <1>1, LeaveStep DEF Succeed, JobInv, JobTypeOK
<1>2. CASE Throw(w)
  <2>1. retries' \in [Jobs -> 0 .. MaxRetries]
    BY <1>2, BoundsAssumption DEF Throw, JobInv, JobTypeOK, EntryInv
  <2> QED
    BY <1>2, <2>1, LeaveStep DEF Throw
<1> QED
  BY <1>1, <1>2

\* A restart outside an election leaves every owner of the mutex processing.
LEMMA RestartStep ==
    ASSUME JobInv, Restart
    PROVE  JobInv' /\ ("restartInElection" \notin Faults => (OwnerActive => OwnerActive'))
<1> USE DEF JobInv, Restart
<1>1. \A j \in Jobs : Cardinality({w \in Workers : on[w] = j}) \in Nat
  BY WorkersAssumption, FS_Subset, FS_CardinalityType
<1>2. JobTypeOK'
  BY <1>1, BoundsAssumption DEF JobTypeOK
<1>3. LockInv' /\ EntryInv'
  BY WorkersAssumption, JobsAssumption DEF LockInv, EntryInv
<1>4. ElectionInv' /\ ReadInv' /\ SingleOwner'
  BY DEF ElectionInv, ReadInv, SingleOwner
<1>5. "restartInElection" \notin Faults => (OwnerActive => OwnerActive')
  BY DEF OwnerActive
<1> QED
  BY <1>2, <1>3, <1>4, <1>5

LEMMA NextInv ==
    ASSUME JobInv, [JobNext]_jobVars
    PROVE  JobInv' /\ ("restartInElection" \notin Faults => (OwnerActive => OwnerActive'))
<1>1. CASE ClientNext \/ \E j \in Jobs : TimerFires(j)
  BY <1>1, ClientStep
<1>2. ASSUME NEW w \in Workers, WorkerNext(w)
      PROVE  JobInv' /\ (OwnerActive => OwnerActive')
  BY <1>2, DropEntryStep, ReadSetStep, AddToSetStep, PutOffStep, ProcessStep, BeginStep, EndStep
  DEF WorkerNext, Deliver
<1>3. CASE Restart
  BY <1>3, RestartStep
<1>4. CASE UNCHANGED jobVars
  BY <1>4 DEF jobVars, JobInv, JobTypeOK, LockInv, EntryInv, ElectionInv, ReadInv, SingleOwner, OwnerActive
<1> QED
  BY <1>1, <1>2, <1>3, <1>4 DEF JobNext

\* The inductive invariant holds in every reachable state, with every fault (MutexAttribute, and the
\* filters and the queue of the Hangfire server).
THEOREM Invariance == JobSpec => []JobInv
<1>1. JobInit => JobInv
  BY InitInv
<1>2. JobInv /\ [JobNext]_jobVars => JobInv'
  BY NextInv
<1> QED
  BY <1>1, <1>2, PTL DEF JobSpec

\* Every reachable state is well typed: no job is retried past AutomaticRetry's limit and no
\* acknowledged entry goes negative.
THEOREM TypeCorrect == JobSpec => []JobTypeOK
<1>1. JobInv => JobTypeOK
  BY DEF JobInv
<1> QED
  BY Invariance, <1>1, PTL

\* ParatextSyncRunner.RunAsync runs one at a time over all projects, whatever is cancelled, fails
\* or restarts: the execution lock MutexAttribute inherits is what guarantees it, for a redelivered
\* job leaves the mutex set while it runs.
THEOREM OneBodyAtATime == JobSpec => []MutualExclusion
<1>1. JobInv => MutualExclusion
  BY DEF JobInv, LockInv, MutualExclusion
<1> QED
  BY Invariance, <1>1, PTL

\* No two jobs own the mutex, though any number of workers elect at once (OnStateElection): what a
\* worker read of the set under its lock still holds when it adds the job's id.
THEOREM OneOwner == JobSpec => []SingleOwner
<1>1. JobInv => SingleOwner
  BY DEF JobInv
<1> QED
  BY Invariance, <1>1, PTL

\* The mutex is freed with its owner (OnStateApplied): no sync is put off for ever by a job that is
\* over, unless the server stops inside an election.
THEOREM MutexReleased == ("restartInElection" \notin Faults) => (JobSpec => []OwnerActive)
<1> SUFFICES ASSUME "restartInElection" \notin Faults
             PROVE  JobSpec => []OwnerActive
  OBVIOUS
<1>1. JobInit => OwnerActive
  BY DEF JobInit, OwnerActive
<1>2. JobInv /\ OwnerActive /\ [JobNext]_jobVars => OwnerActive'
  BY NextInv
<1> QED
  BY Invariance, <1>1, <1>2, PTL DEF JobSpec

-----------------------------------------------------------------------------
(* Nobody is left behind: what a job waits for exists.                       *)

LEMMA NoneStrandedInit == JobInit => NoneStranded
BY DEF JobInit, NoneStranded, EnqueuedServed, ProcessingServed, ContinuationHeld

\* A job moved by a client or a timer gets its entry, and one that is over releases those that
\* continue it, each with an entry of its own.
LEMMA ClientServed ==
    ASSUME JobInv, NoneStranded, NEW j \in Jobs, NEW s \in JobStates \ {"processing"}, StateLockFree(j),
           Move(j, s), UNCHANGED <<phase, on>>,
           s = "none" => FALSE,
           s = "awaiting" => Parent[j] \in Jobs \ {j} /\ state[Parent[j]] \notin Finished \cup {"none"}
    PROVE  NoneStranded'
<1> USE DEF NoneStranded, JobInv
<1>1. /\ state \in [Jobs -> JobStates] /\ queue \in [Jobs -> Nat]
      /\ state' = [i \in Jobs |-> IF i = j THEN s
                                  ELSE IF i \in Released(j, s) THEN "enqueued" ELSE state[i]]
      /\ queue' = [i \in Jobs |-> IF (i = j /\ s = "enqueued") \/ i \in Released(j, s)
                                  THEN queue[i] + 1 ELSE queue[i]]
  BY DEF JobTypeOK, Move
<1>2. \A i \in Jobs : queue[i] \in Nat /\ queue'[i] \in Nat /\ queue'[i] >= queue[i]
  BY <1>1
<1>3. EnqueuedServed'
  <2> SUFFICES ASSUME NEW i \in Jobs, state'[i] = "enqueued"
               PROVE  queue'[i] > 0 \/ \E w \in Workers : on[w] = i /\ phase[w] \in Electing
    BY DEF EnqueuedServed
  <2>1. CASE i = j \/ i \in Released(j, s)
    BY <1>1, <1>2, <2>1 DEF Released
  <2>2. CASE i # j /\ i \notin Released(j, s)
    BY <1>1, <1>2, <2>2 DEF EnqueuedServed
  <2> QED
    BY <2>1, <2>2
<1>4. ProcessingServed'
  BY <1>1, <1>2 DEF ProcessingServed
<1>5. ContinuationHeld'
  BY <1>1, ParentAssumption DEF ContinuationHeld, Released
<1> QED
  BY <1>3, <1>4, <1>5

LEMMA ClientsServed ==
    ASSUME JobInv, NoneStranded, ClientNext \/ \E j \in Jobs : TimerFires(j)
    PROVE  NoneStranded'
<1>1. CASE \E j \in Jobs : Schedule(j)
  BY <1>1, ClientServed, Unelected DEF Schedule
<1>2. ASSUME NEW j \in Jobs, ContinueJobWith(j)
      PROVE  NoneStranded'
  <2>1. StateLockFree(j) /\ Parent[j] # j
    BY <1>2, Unelected DEF ContinueJobWith
  <2>2. CASE state[Parent[j]] \in Finished
    BY <1>2, <2>1, <2>2, ClientServed DEF ContinueJobWith
  <2>3. CASE state[Parent[j]] \notin Finished
    BY <1>2, <2>1, <2>3, ClientServed DEF ContinueJobWith
  <2> QED
    BY <2>2, <2>3
<1>3. CASE \E j \in Jobs : Enqueue(j)
  BY <1>3, ClientServed DEF Enqueue
<1>4. CASE \E j \in Jobs : Delete(j)
  BY <1>4, ClientServed DEF Delete
<1>5. CASE \E j \in Jobs : TimerFires(j)
  BY <1>5, ClientServed, Unelected DEF TimerFires
<1> QED
  BY <1>1, <1>2, <1>3, <1>4, <1>5 DEF ClientNext

\* A worker that takes an entry drops it, elects its job or puts the job off.
LEMMA DeliverServed ==
    ASSUME JobInv, NoneStranded, NEW w \in Workers, NEW j \in Jobs, Deliver(w, j)
    PROVE  NoneStranded'
<1> USE DEF NoneStranded, JobInv
<1>1. /\ state \in [Jobs -> JobStates] /\ queue \in [Jobs -> Nat] /\ queue[j] > 0
      /\ phase \in [Workers -> Phases] /\ on \in [Workers -> Jobs \cup {NoJob}]
      /\ phase[w] = "idle" /\ on[w] \notin Jobs
      /\ queue' = [queue EXCEPT ![j] = @ - 1]
  BY DEF JobTypeOK, Deliver, DropEntry, ReadSet, PutOff, EntryInv
<1>2. CASE DropEntry(w, j)
  BY <1>1, <1>2 DEF DropEntry, EnqueuedServed, ProcessingServed, ContinuationHeld
<1>3. CASE ReadSet(w, j)
  <2>1. EnqueuedServed'
    BY <1>1, <1>3 DEF ReadSet, EnqueuedServed
  <2>2. ProcessingServed'
    BY <1>1, <1>3 DEF ReadSet, ProcessingServed
  <2>3. ContinuationHeld'
    BY <1>3 DEF ReadSet, ContinuationHeld
  <2> QED
    BY <2>1, <2>2, <2>3
<1>4. CASE PutOff(w, j)
  <2>1. EnqueuedServed'
    BY <1>1, <1>4 DEF PutOff, EnqueuedServed
  <2>2. ProcessingServed'
    BY <1>1, <1>4 DEF PutOff, ProcessingServed
  <2>3. ContinuationHeld'
    BY <1>1, <1>4, ParentAssumption DEF PutOff, ContinuationHeld
  <2> QED
    BY <2>1, <2>2, <2>3
<1> QED
  BY <1>2, <1>3, <1>4 DEF Deliver

LEMMA ProcessServed ==
    ASSUME JobInv, NoneStranded, NEW w \in Workers, Process(w)
    PROVE  NoneStranded'
<1> USE DEF NoneStranded, JobInv
<1>1. /\ on[w] \in Jobs /\ phase[w] = "elected" /\ state[on[w]] \in {"enqueued", "processing"}
      /\ state \in [Jobs -> JobStates] /\ queue \in [Jobs -> Nat] /\ phase \in [Workers -> Phases]
      /\ \A v \in Workers : phase[v] \in Electing /\ on[v] = on[w] => v = w
  BY DEF Process, EntryInv, ElectionInv, JobTypeOK
<1>2. /\ state' = [state EXCEPT ![on[w]] = "processing"] /\ queue' = queue /\ on' = on
      /\ phase' = [phase EXCEPT ![w] = "performing"]
  BY <1>1 DEF Process, Move, Released
<1>3. EnqueuedServed'
  BY <1>1, <1>2 DEF EnqueuedServed
<1>4. ProcessingServed'
  BY <1>1, <1>2 DEF ProcessingServed
<1>5. ContinuationHeld'
  BY <1>1, <1>2, ParentAssumption DEF ContinuationHeld
<1> QED
  BY <1>3, <1>4, <1>5

\* A body that ends leaves its job in no worker's hands only in a state that needs none.
LEMMA LeaveServed ==
    ASSUME JobInv, NoneStranded, NEW w \in Workers, NEW s \in {"succeeded", "scheduled", "failed"},
           phase[w] = "running", Leave(w, s)
    PROVE  NoneStranded'
<1> USE DEF NoneStranded, JobInv
<1>1. /\ on[w] \in Jobs /\ state \in [Jobs -> JobStates] /\ queue \in [Jobs -> Nat]
      /\ phase \in [Workers -> Phases] /\ on \in [Workers -> Jobs \cup {NoJob}]
      /\ phase' = [phase EXCEPT ![w] = "idle"] /\ on' = [on EXCEPT ![w] = NoJob]
  BY DEF EntryInv, JobTypeOK, Leave
<1>2. CASE state[on[w]] # "processing"
  <2>1. state' = state /\ queue' = queue
    BY <1>2 DEF Leave
  <2> QED
    BY <1>1, <1>2, <2>1 DEF EnqueuedServed, ProcessingServed, ContinuationHeld
<1>3. CASE state[on[w]] = "processing"
  <2>1. /\ state' = [i \in Jobs |-> IF i = on[w] THEN s
                                    ELSE IF i \in Released(on[w], s) THEN "enqueued" ELSE state[i]]
        /\ queue' = [i \in Jobs |-> IF i \in Released(on[w], s) THEN queue[i] + 1 ELSE queue[i]]
    BY <1>3 DEF Leave, Move
  <2>2. EnqueuedServed'
    BY <1>1, <2>1 DEF EnqueuedServed, Released
  <2>3. ProcessingServed'
    BY <1>1, <2>1 DEF ProcessingServed
  <2>4. ContinuationHeld'
    BY <1>1, <2>1, ParentAssumption DEF ContinuationHeld, Released
  <2> QED
    BY <2>2, <2>3, <2>4
<1> QED
  BY <1>2, <1>3

\* What a stopped worker held is in the queue again.
LEMMA RestartServed ==
    ASSUME JobInv, NoneStranded, Restart
    PROVE  NoneStranded'
<1> USE DEF NoneStranded, JobInv
<1> DEFINE held(j) == {w \in Workers : on[w] = j}
<1>1. \A j \in Jobs : Cardinality(held(j)) \in Nat /\ (held(j) # {} => Cardinality(held(j)) > 0)
  <2> SUFFICES ASSUME NEW j \in Jobs
               PROVE  Cardinality(held(j)) \in Nat /\ (held(j) # {} => Cardinality(held(j)) > 0)
    OBVIOUS
  <2>1. IsFiniteSet(held(j))
    BY WorkersAssumption, FS_Subset
  <2>2. Cardinality(held(j)) \in Nat
    BY <2>1, FS_CardinalityType
  <2>3. Cardinality(held(j)) = 0 <=> held(j) = {}
    BY <2>1, FS_EmptySet
  <2> HIDE DEF held
  <2> QED
    BY <2>2, <2>3
<1>2. /\ queue \in [Jobs -> Nat] /\ state' = state
      /\ queue' = [j \in Jobs |-> queue[j] + Cardinality(held(j))]
  BY DEF JobTypeOK, Restart
<1>3. \A j \in Jobs : queue[j] > 0 \/ (\E w \in Workers : on[w] = j) => queue'[j] > 0
  <2> SUFFICES ASSUME NEW j \in Jobs, queue[j] > 0 \/ \E w \in Workers : on[w] = j
               PROVE  queue'[j] > 0
    OBVIOUS
  <2>1. queue[j] > 0 \/ held(j) # {}
    OBVIOUS
  <2>2. queue[j] \in Nat /\ queue'[j] = queue[j] + Cardinality(held(j))
    BY <1>2
  <2> HIDE DEF held
  <2> QED
    BY <1>1, <2>1, <2>2
<1>4. EnqueuedServed' /\ ProcessingServed'
  BY <1>2, <1>3 DEF EnqueuedServed, ProcessingServed
<1>5. ContinuationHeld'
  BY <1>2 DEF ContinuationHeld
<1> QED
  BY <1>4, <1>5

LEMMA NoneStrandedStep ==
    ASSUME JobInv, NoneStranded, [JobNext]_jobVars
    PROVE  NoneStranded'
<1>1. ASSUME NEW w \in Workers, WorkerNext(w)
      PROVE  NoneStranded'
  <2>1. CASE Begin(w) \/ AddToSet(w)
    BY <2>1 DEF Begin, AddToSet, JobInv, JobTypeOK, NoneStranded, EnqueuedServed, ProcessingServed, ContinuationHeld
  <2>2. CASE Succeed(w)
    BY <2>2, LeaveServed DEF Succeed
  <2>3. CASE Throw(w)
    BY <2>3, LeaveServed DEF Throw
  <2> QED
    BY <1>1, <2>1, <2>2, <2>3, DeliverServed, ProcessServed DEF WorkerNext
<1>2. CASE UNCHANGED jobVars
  BY <1>2 DEF jobVars, NoneStranded, EnqueuedServed, ProcessingServed, ContinuationHeld
<1> QED
  BY <1>1, <1>2, ClientsServed, RestartServed DEF JobNext

\* Whatever is cancelled, fails or restarts, a job that is enqueued, processing or a continuation is
\* never lost: what has to move it exists (the Hangfire server, as the sync jobs use it).  It is the
\* safety half of a sync's end: the queue only has to be served.
THEOREM JobsServed == JobSpec => []NoneStranded
<1>1. JobInv /\ NoneStranded /\ [JobNext]_jobVars => NoneStranded'
  BY NoneStrandedStep
<1> QED
  BY Invariance, NoneStrandedInit, <1>1, PTL DEF JobSpec

\* A job has failed only when AutomaticRetry has no attempt left.
RetriedBeforeFailed == \A j \in Jobs : state[j] = "failed" => retries[j] = MaxRetries

\* The other steps move no job to the failed state, and count no retry.
LEMMA RetriedStep ==
    ASSUME JobInv, RetriedBeforeFailed, [JobNext]_jobVars
    PROVE  RetriedBeforeFailed'
<1> USE DEF RetriedBeforeFailed
<1>1. ASSUME NEW w \in Workers, Throw(w)
      PROVE  RetriedBeforeFailed'
  <2>1. /\ on[w] \in Jobs /\ retries \in [Jobs -> 0 .. MaxRetries] /\ MaxRetries \in Nat
        /\ state \in [Jobs -> JobStates]
    BY <1>1, BoundsAssumption DEF Throw, JobInv, EntryInv, JobTypeOK
  <2>2. CASE state[on[w]] # "processing"
    BY <1>1, <2>1, <2>2 DEF Throw, Leave
  <2>3. CASE state[on[w]] = "processing"
    BY <1>1, <2>1, <2>3 DEF Throw, Leave, Move, Released
  <2> QED
    BY <2>2, <2>3
<1>2. ASSUME retries' = retries, \A j \in Jobs : state'[j] # "failed" \/ state'[j] = state[j]
      PROVE  RetriedBeforeFailed'
  BY <1>2
<1>3. CASE ClientNext \/ \E j \in Jobs : TimerFires(j)
  BY <1>2, <1>3 DEF ClientNext, Schedule, ContinueJobWith, Enqueue, Delete, TimerFires, Move
<1>4. ASSUME NEW w \in Workers, NEW j \in Jobs, Deliver(w, j)
      PROVE  RetriedBeforeFailed'
  BY <1>2, <1>4 DEF Deliver, DropEntry, ReadSet, PutOff, JobInv, JobTypeOK
<1>5. ASSUME NEW w \in Workers, AddToSet(w) \/ Process(w) \/ Begin(w) \/ Succeed(w)
      PROVE  RetriedBeforeFailed'
  BY <1>2, <1>5 DEF AddToSet, Process, Begin, Succeed, Leave, Move
<1>6. CASE Restart \/ UNCHANGED jobVars
  BY <1>2, <1>6 DEF Restart, jobVars
<1> QED
  BY <1>1, <1>3, <1>4, <1>5, <1>6 DEF JobNext, WorkerNext

\* A sync is given up only after as many attempts as AutomaticRetry allows, however often it was
\* enqueued, delivered again or put off meanwhile.
THEOREM RetriedToTheEnd == JobSpec => []RetriedBeforeFailed
<1>1. JobInit => RetriedBeforeFailed
  BY DEF JobInit, RetriedBeforeFailed
<1>2. JobInv /\ RetriedBeforeFailed /\ [JobNext]_jobVars => RetriedBeforeFailed'
  BY RetriedStep
<1> QED
  BY Invariance, <1>1, <1>2, PTL DEF JobSpec

=============================================================================
