------------------------------ MODULE JobMutex ------------------------------
(***************************************************************************)
(* The Hangfire background jobs that run IParatextSyncRunner.RunAsync and   *)
(* the [Mutex] filter on that method (MutexAttribute.cs).                   *)
(*                                                                          *)
(* Two locks protect the body of a sync.  The mutex set, kept by            *)
(* OnStateElection and OnStateApplied, sends a job away for 15 seconds when *)
(* another job owns it.  The execution lock, inherited from                 *)
(* DisableConcurrentExecutionAttribute, is held while a body runs and makes *)
(* a worker wait.  The filter names no resource, so both have one key for   *)
(* every project.                                                           *)
(*                                                                          *)
(* Hangfire itself is external: a queue that delivers an entry again when   *)
(* the server restarts before it is acknowledged, a state per job, filters  *)
(* around each state change, continuations and retries.                     *)
(***************************************************************************)
EXTENDS Naturals, FiniteSets

CONSTANTS
    Jobs,        \* the sync jobs ever created
    Workers,     \* the worker threads of the Hangfire server
    NoJob,       \* no job
    NoWorker,    \* no worker
    Parent,      \* the job each job continues, or NoJob
    Faults,      \* which happen: "restart" and "restartInElection" (the server stops),
                 \* "lockTimeout" (of the mutex)
    MaxRestarts, \* bound: server restarts
    MaxRetries   \* attempts AutomaticRetry gives a job that throws

ASSUME JobsAssumption == NoJob \notin Jobs
ASSUME WorkersAssumption == NoWorker \notin Workers /\ IsFiniteSet(Workers)
ASSUME ParentAssumption == Parent \in [Jobs -> Jobs \cup {NoJob}]
ASSUME FaultsAssumption == Faults \subseteq STRING
ASSUME BoundsAssumption == MaxRestarts \in Nat /\ MaxRetries \in Nat

VARIABLES
    state,     \* the Hangfire state of each job
    retries,   \* how often AutomaticRetry has rescheduled each job
    queue,     \* the entries of each job in the job queue no worker holds
    mutexSet,  \* the mutex's resource set in job storage
    phase,     \* what each worker is doing
    on,        \* the job whose queue entry each worker holds
    execLock,  \* the worker that holds the execution lock
    restarts   \* server restarts so far

jobVars == <<state, retries, queue, mutexSet, phase, on, execLock, restarts>>

\* "draft" is the five-minute Schedule of SyncService, "scheduled" a job put off by the mutex or by
\* a retry.
JobStates == {"none", "draft", "awaiting", "enqueued", "scheduled", "processing",
              "succeeded", "deleted", "failed"}
Phases == {"idle", "reading", "elected", "performing", "running"}
Electing == {"reading", "elected"}
Finished == {"succeeded", "deleted"}

JobTypeOK ==
    /\ state \in [Jobs -> JobStates]
    /\ retries \in [Jobs -> 0 .. MaxRetries]
    /\ queue \in [Jobs -> Nat]
    /\ mutexSet \subseteq Jobs
    /\ phase \in [Workers -> Phases]
    /\ on \in [Workers -> Jobs \cup {NoJob}]
    /\ execLock \in Workers \cup {NoWorker}
    /\ restarts \in 0 .. MaxRestarts

JobInit ==
    /\ state = [j \in Jobs |-> "none"]
    /\ retries = [j \in Jobs |-> 0]
    /\ queue = [j \in Jobs |-> 0]
    /\ mutexSet = {}
    /\ phase = [w \in Workers |-> "idle"]
    /\ on = [w \in Workers |-> NoJob]
    /\ execLock = NoWorker
    /\ restarts = 0

-----------------------------------------------------------------------------
(* State changes.                                                           *)

\* A state change of j holds j's state lock, so none other starts while a worker elects j.
StateLockFree(j) == \A w \in Workers : ~(phase[w] \in Electing /\ on[w] = j)

\* The distributed lock of the mutex set is held from an election's read of the set to its commit.
SetLockFree == \A w \in Workers : phase[w] # "reading"

\* The jobs continuing j leave the awaiting state when j finishes (OnAnyFinishedState).
Released(j, s) == IF s \in Finished
                  THEN {i \in Jobs : i # j /\ Parent[i] = j /\ state[i] = "awaiting"}
                  ELSE {}

MoveFreeingOnSuccessOnly(j, s) ==
    /\ state' = [i \in Jobs |-> IF i = j THEN s
                                ELSE IF i \in Released(j, s) THEN "enqueued"
                                ELSE state[i]]
    /\ queue' = [i \in Jobs |-> IF (i = j /\ s = "enqueued") \/ i \in Released(j, s)
                                THEN queue[i] + 1 ELSE queue[i]]
    /\ mutexSet' = IF s = "succeeded" THEN mutexSet \ {j} ELSE mutexSet

\* Job j goes to state s.  OnStateApplied frees the mutex when j leaves the processing state,
\* whichever state it goes to.  Enqueueing adds an entry to the job queue.
Move(j, s) ==
    /\ state' = [i \in Jobs |-> IF i = j THEN s
                                ELSE IF i \in Released(j, s) THEN "enqueued"
                                ELSE state[i]]
    /\ queue' = [i \in Jobs |-> IF (i = j /\ s = "enqueued") \/ i \in Released(j, s)
                                THEN queue[i] + 1 ELSE queue[i]]
    /\ mutexSet' = IF state[j] = "processing" THEN mutexSet \ {j} ELSE mutexSet

-----------------------------------------------------------------------------
(* The job client, called by SyncService.                                   *)

Schedule(j) ==
    /\ state[j] = "none" /\ Parent[j] = NoJob
    /\ Move(j, "draft")
    /\ UNCHANGED <<retries, phase, on, execLock, restarts>>

\* ContinueJobWith: the job waits for its parent, or is enqueued when that has already finished.
ContinueJobWith(j) ==
    /\ state[j] = "none" /\ Parent[j] \in Jobs
    /\ state[Parent[j]] # "none"
    /\ Move(j, IF state[Parent[j]] \in Finished THEN "enqueued" ELSE "awaiting")
    /\ UNCHANGED <<retries, phase, on, execLock, restarts>>

\* ChangeState(j, Enqueued) and Delete(j) name no expected state: they apply in every state.
Enqueue(j) ==
    /\ state[j] # "none" /\ StateLockFree(j)
    /\ Move(j, "enqueued")
    /\ UNCHANGED <<retries, phase, on, execLock, restarts>>

Delete(j) ==
    /\ state[j] # "none" /\ StateLockFree(j)
    /\ Move(j, "deleted")
    /\ UNCHANGED <<retries, phase, on, execLock, restarts>>

-----------------------------------------------------------------------------
(* The Hangfire server.                                                     *)

\* The delayed scheduler enqueues a job whose time has come: after 15 seconds, or a retry's delay, or
\* the five minutes of a draft.
TimerFires(j) ==
    /\ state[j] \in {"draft", "scheduled"}
    /\ Move(j, "enqueued")
    /\ UNCHANGED <<retries, phase, on, execLock, restarts>>

\* A worker takes a queue entry.  It drops it unless the job is enqueued or, after a restart,
\* processing.
DropEntry(w, j) ==
    /\ phase[w] = "idle" /\ queue[j] > 0 /\ StateLockFree(j)
    /\ state[j] \notin {"enqueued", "processing"}
    /\ queue' = [queue EXCEPT ![j] = @ - 1]
    /\ UNCHANGED <<state, retries, mutexSet, phase, on, execLock, restarts>>

ReadSetUnlocked(w, j) ==
    /\ phase[w] = "idle" /\ queue[j] > 0 /\ StateLockFree(j)
    /\ state[j] \in {"enqueued", "processing"}
    /\ mutexSet \subseteq {j}
    /\ queue' = [queue EXCEPT ![j] = @ - 1]
    /\ phase' = [phase EXCEPT ![w] = "reading"]
    /\ on' = [on EXCEPT ![w] = j]
    /\ UNCHANGED <<state, retries, mutexSet, execLock, restarts>>

\* OnStateElection, under the set's lock, finds the mutex free or already this job's ...
ReadSet(w, j) ==
    /\ phase[w] = "idle" /\ queue[j] > 0 /\ StateLockFree(j) /\ SetLockFree
    /\ state[j] \in {"enqueued", "processing"}
    /\ mutexSet \subseteq {j}
    /\ queue' = [queue EXCEPT ![j] = @ - 1]
    /\ phase' = [phase EXCEPT ![w] = "reading"]
    /\ on' = [on EXCEPT ![w] = j]
    /\ UNCHANGED <<state, retries, mutexSet, execLock, restarts>>

\* ... and adds the job's id in a transaction of its own, before the job's state changes.
AddToSet(w) ==
    /\ phase[w] = "reading"
    /\ mutexSet' = mutexSet \cup {on[w]}
    /\ phase' = [phase EXCEPT ![w] = "elected"]
    /\ UNCHANGED <<state, retries, queue, on, execLock, restarts>>

\* OnStateElection with the mutex another job's, or no distributed lock within a minute: the job
\* goes to the scheduled state instead, without limit of attempts (MaxAttempts is 0).
PutOff(w, j) ==
    /\ phase[w] = "idle" /\ queue[j] > 0 /\ StateLockFree(j)
    /\ state[j] \in {"enqueued", "processing"}
    /\ (mutexSet \ {j} # {} /\ SetLockFree) \/ "lockTimeout" \in Faults
    /\ state' = [state EXCEPT ![j] = "scheduled"]
    /\ queue' = [queue EXCEPT ![j] = @ - 1]
    /\ mutexSet' = IF state[j] = "processing" THEN mutexSet \ {j} ELSE mutexSet
    /\ UNCHANGED <<retries, phase, on, execLock, restarts>>

\* The elected job goes to the processing state.
Process(w) ==
    /\ phase[w] = "elected"
    /\ Move(on[w], "processing")
    /\ phase' = [phase EXCEPT ![w] = "performing"]
    /\ UNCHANGED <<retries, on, execLock, restarts>>

BeginWithoutLock(w) ==
    /\ phase[w] = "performing"
    /\ execLock' = w
    /\ phase' = [phase EXCEPT ![w] = "running"]
    /\ UNCHANGED <<state, retries, queue, mutexSet, on, restarts>>

\* OnPerforming takes the execution lock, waiting for it, and the body starts.
Begin(w) ==
    /\ phase[w] = "performing"
    /\ execLock = NoWorker
    /\ execLock' = w
    /\ phase' = [phase EXCEPT ![w] = "running"]
    /\ UNCHANGED <<state, retries, queue, mutexSet, on, restarts>>

\* The worker changes the job's state after the body only when it is still processing, and
\* acknowledges the queue entry.
Leave(w, s) ==
    /\ IF state[on[w]] = "processing"
       THEN Move(on[w], s)
       ELSE UNCHANGED <<state, queue, mutexSet>>
    /\ phase' = [phase EXCEPT ![w] = "idle"]
    /\ on' = [on EXCEPT ![w] = NoJob]
    /\ execLock' = NoWorker

Succeed(w) ==
    /\ phase[w] = "running" /\ StateLockFree(on[w])
    /\ Leave(w, "succeeded")
    /\ UNCHANGED <<retries, restarts>>

ThrowWithoutLimit(w) ==
    /\ phase[w] = "running" /\ StateLockFree(on[w])
    /\ Leave(w, "scheduled")
    /\ retries' = [retries EXCEPT ![on[w]] = @ + 1]
    /\ UNCHANGED restarts

\* The body throws: AutomaticRetry schedules another attempt until none is left.
Throw(w) ==
    /\ phase[w] = "running" /\ StateLockFree(on[w])
    /\ Leave(w, IF retries[on[w]] < MaxRetries THEN "scheduled" ELSE "failed")
    /\ retries' = [retries EXCEPT ![on[w]] =
                      IF state[on[w]] = "processing" /\ @ < MaxRetries THEN @ + 1 ELSE @]
    /\ UNCHANGED restarts

RestartLosingEntries ==
    /\ restarts < MaxRestarts
    /\ "restart" \in Faults
    /\ restarts' = restarts + 1
    /\ phase' = [w \in Workers |-> "idle"]
    /\ on' = [w \in Workers |-> NoJob]
    /\ execLock' = NoWorker
    /\ UNCHANGED <<state, retries, queue, mutexSet>>

\* The server stops with every worker: the queue entries held are delivered again, and the
\* distributed locks expire.  A stop between the commit of a job's id and the job's state change
\* leaves the id in the mutex set.
Restart ==
    /\ restarts < MaxRestarts
    /\ \/ "restartInElection" \in Faults
       \/ "restart" \in Faults /\ \A w \in Workers : phase[w] # "elected"
    /\ restarts' = restarts + 1
    /\ queue' = [j \in Jobs |-> queue[j] + Cardinality({w \in Workers : on[w] = j})]
    /\ phase' = [w \in Workers |-> "idle"]
    /\ on' = [w \in Workers |-> NoJob]
    /\ execLock' = NoWorker
    /\ UNCHANGED <<state, retries, mutexSet>>

-----------------------------------------------------------------------------
(* The open environment: any client calls, in any order.                    *)

ClientNext == \E j \in Jobs : Schedule(j) \/ ContinueJobWith(j) \/ Enqueue(j) \/ Delete(j)

Deliver(w, j) == DropEntry(w, j) \/ ReadSet(w, j) \/ PutOff(w, j)

WorkerNext(w) ==
    \/ \E j \in Jobs : Deliver(w, j)
    \/ AddToSet(w)
    \/ Process(w)
    \/ Begin(w)
    \/ Succeed(w)
    \/ Throw(w)

JobNext ==
    \/ ClientNext
    \/ \E j \in Jobs : TimerFires(j)
    \/ \E w \in Workers : WorkerNext(w)
    \/ Restart

\* The jobs as any client may use them.
JobSpec == JobInit /\ [][JobNext]_jobVars

-----------------------------------------------------------------------------
(* Properties.                                                              *)

\* RunAsync is restricted "to one instance at a time" (remarks of ParatextSyncRunner.RunAsync): no
\* two workers are in a body of it, whatever restarts, cancellations and retries happen.
MutualExclusion ==
    \A v, w \in Workers : phase[v] = "running" /\ phase[w] = "running" => v = w

\* At most one job owns the mutex, though an election reads the set and adds to it in two steps while
\* other workers elect: OnStateElection looks at the first element only, and a second owner would be
\* let through or put off for ever according to the order of their ids.
SingleOwner == \A i, j \in mutexSet : i = j

\* The mutex never outlives its owner's turn: while the set holds a job, that job is processing or
\* a worker is electing it.  Otherwise every sync of every project is put off for ever.
OwnerActive ==
    \A j \in mutexSet : \/ state[j] = "processing"
                       \/ \E w \in Workers : phase[w] = "elected" /\ on[w] = j

\* Nobody is left behind: an enqueued job has an entry in the queue or a worker electing it, a
\* processing one a worker or the entry that a restart gave back, and a continuation a parent that
\* exists and is not over.
EnqueuedServed ==
    \A j \in Jobs : state[j] = "enqueued" =>
        queue[j] > 0 \/ \E w \in Workers : on[w] = j /\ phase[w] \in Electing
ProcessingServed ==
    \A j \in Jobs : state[j] = "processing" => queue[j] > 0 \/ \E w \in Workers : on[w] = j
ContinuationHeld ==
    \A j \in Jobs : state[j] = "awaiting" =>
        Parent[j] \in Jobs /\ state[Parent[j]] \notin Finished \cup {"none"}
NoneStranded == EnqueuedServed /\ ProcessingServed /\ ContinuationHeld

\* OnStateElection's comment: the "Identifier will be removed only on failed state, or in one of
\* final states", so no finished job is left in the set.
NoFinishedOwner == \A j \in mutexSet : state[j] \notin Finished

=============================================================================
