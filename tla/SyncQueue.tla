------------------------------ MODULE SyncQueue ------------------------------
(***************************************************************************)
(* Requesting, cancelling and running syncs: SyncService composed with the  *)
(* jobs and the mutex of JobMutex, over what they keep about a project.     *)
(*                                                                          *)
(* A project doc counts the syncs queued (Sync.QueuedCount, which tells the *)
(* clients whether a sync is under way); the project's secrets list their   *)
(* job ids and sync metrics ids (what CancelSyncAsync cancels).  Requests,  *)
(* cancellations and sync bodies update the three one after another, each   *)
(* from the copies it fetched.                                              *)
(*                                                                          *)
(* The sync metrics of a job are named by the job.  What a body does to the *)
(* project's texts is ParatextSync's; here it succeeds or fails.            *)
(***************************************************************************)
EXTENDS JobMutex, Integers, Sequences

CONSTANTS
    Projects,
    NoProject,     \* no project
    ProjectOf,     \* the project each job syncs
    SourceOf,      \* the translation source of each project, or NoProject
    Requests,      \* calls of SyncService.SyncAsync
    TargetJob,     \* the job a request creates for its project
    SourceJob,     \* the job it creates for the source project, or NoJob
    Cancels,       \* calls of SyncService.CancelSyncAsync
    CancelProject  \* the project of each

\* Faults has also: "request" (an update of a request throws), "continue" (so does creating its second
\* job), "timer" (a request takes longer than five minutes), "sync" (a sync fails), "commit" (its commit
\* throws), "metrics" (the last update of its metrics throws).

ASSUME ProjectsAssumption ==
    /\ NoProject \notin Projects
    /\ ProjectOf \in [Jobs -> Projects]
    /\ SourceOf \in [Projects -> Projects \cup {NoProject}]
    /\ CancelProject \in [Cancels -> Projects]

ASSUME RequestsAssumption ==
    /\ TargetJob \in [Requests -> Jobs]
    /\ SourceJob \in [Requests -> Jobs \cup {NoJob}]
    /\ \A r \in Requests : /\ Parent[TargetJob[r]] = SourceJob[r]
                           /\ SourceJob[r] \in Jobs => Parent[SourceJob[r]] = NoJob

VARIABLES
    queuedCount, \* project doc: Sync.QueuedCount
    jobIds,      \* project secret: JobIds
    metricsIds,  \* project secret: SyncMetricsIds
    metrics,     \* the status of each job's sync metrics
    request,     \* where each SyncAsync is, and the projects whose count was set since it fetched them
    cancel,      \* where each CancelSyncAsync is, the project and the ids it is cancelling
    body         \* the local state of the sync body in each worker

queueVars == <<queuedCount, jobIds, metricsIds, metrics, request, cancel, body>>
syncVars == <<jobVars, queueVars>>

RequestSteps == {"start", "continue", "countTarget", "countSource", "recordSource", "recordTarget",
                 "promote", "done", "deleteTarget", "deleteSource", "failed", "abandoned", "lost"}
RequestEnds == {"done", "failed", "abandoned", "lost"}
CancelSteps == {"start", "read", "delete", "clear", "reset", "source", "done", "lost"}
BodySteps == {"none", "init", "load", "secret", "work", "complete", "ids", "commit", "report",
              "metrics"}
Statuses == {"none", "queued", "running", "successful", "failed", "cancelled"}

\* What a body keeps: the cached QueuedCount, whether it is stale, the ids it read from the secrets,
\* whether its cancellation token is signalled, and whether the sync has succeeded so far.
Bodies == [pc: BodySteps, count: Int, stale: BOOLEAN, ids: Seq(Jobs), mids: SUBSET Jobs,
           token: BOOLEAN, ok: BOOLEAN]
NoBody == [pc |-> "none", count |-> 0, stale |-> FALSE, ids |-> <<>>, mids |-> {},
           token |-> FALSE, ok |-> TRUE]

SyncTypeOK ==
    /\ JobTypeOK
    /\ queuedCount \in [Projects -> Int]
    /\ jobIds \in [Projects -> Seq(Jobs)]
    /\ metricsIds \in [Projects -> SUBSET Jobs]
    /\ metrics \in [Jobs -> Statuses]
    /\ request \in [Requests -> [pc: RequestSteps, stale: SUBSET Projects]]
    /\ cancel \in [Cancels -> [pc: CancelSteps, project: Projects, ids: Seq(Jobs), mids: SUBSET Jobs]]
    /\ body \in [Workers -> Bodies]

SyncInit ==
    /\ JobInit
    /\ queuedCount = [p \in Projects |-> 0]
    /\ jobIds = [p \in Projects |-> <<>>]
    /\ metricsIds = [p \in Projects |-> {}]
    /\ metrics = [j \in Jobs |-> "none"]
    /\ request = [r \in Requests |-> [pc |-> "start", stale |-> {}]]
    /\ cancel = [c \in Cancels |-> [pc |-> "start", project |-> CancelProject[c],
                                    ids |-> <<>>, mids |-> {}]]
    /\ body = [w \in Workers |-> NoBody]

-----------------------------------------------------------------------------
(* Realtime operations on QueuedCount.  A document is not subscribed: a copy *)
(* advances only when it is fetched and when its own operation is submitted. *)

\* Inc is an addition: it applies to whatever the count is now, but the server drops it when a Set of
\* the same field comes between the copy's version and it.
Inc(p, n, stale) == queuedCount' = IF stale THEN queuedCount ELSE [queuedCount EXCEPT ![p] = @ + n]

\* Set wins over any concurrent operation.
SetCount(p, n) == queuedCount' = [queuedCount EXCEPT ![p] = n]

\* The copies of p's doc that requests and bodies hold when p's count is set.
StaleRequests(p) == [r \in Requests |-> IF request[r].pc \in {"continue", "countTarget", "countSource"}
                                        THEN [request[r] EXCEPT !.stale = @ \cup {p}]
                                        ELSE request[r]]
StaleBody(b, w, p) == IF b.pc # "none" /\ ProjectOf[on[w]] = p THEN [b EXCEPT !.stale = TRUE] ELSE b

-----------------------------------------------------------------------------
(* SyncService.SyncAsync.                                                   *)

RequestTo(r, step) == request' = [request EXCEPT ![r].pc = step]
HasSource(r) == SourceJob[r] # NoJob
FirstJob(r) == IF HasSource(r) THEN SourceJob[r] ELSE TargetJob[r]

Count(r, p) == Inc(p, 1, p \in request[r].stale)

\* One update of the secrets adds the job's id and its metrics' id.
Record(j) ==
    /\ jobIds' = [jobIds EXCEPT ![ProjectOf[j]] = Append(@, j)]
    /\ metricsIds' = [metricsIds EXCEPT ![ProjectOf[j]] = @ \cup {j}]

CreateFirstEnqueued(r) ==
    /\ request[r].pc = "start"
    /\ state[FirstJob(r)] = "none"
    /\ Move(FirstJob(r), "enqueued")
    /\ metrics' = [metrics EXCEPT ![TargetJob[r]] = "queued", ![FirstJob(r)] = "queued"]
    /\ RequestTo(r, IF HasSource(r) THEN "continue" ELSE "countTarget")
    /\ UNCHANGED <<retries, phase, on, execLock, restarts, queuedCount, jobIds, metricsIds, cancel, body>>

\* The project docs have been fetched: metrics are inserted and the first job scheduled.
CreateFirst(r) ==
    /\ request[r].pc = "start"
    /\ Schedule(FirstJob(r))
    /\ metrics' = [metrics EXCEPT ![TargetJob[r]] = "queued", ![FirstJob(r)] = "queued"]
    /\ RequestTo(r, IF HasSource(r) THEN "continue" ELSE "countTarget")
    /\ UNCHANGED <<queuedCount, jobIds, metricsIds, cancel, body>>

CreateTarget(r) ==
    /\ request[r].pc = "continue"
    /\ ContinueJobWith(TargetJob[r])
    /\ RequestTo(r, "countTarget")
    /\ UNCHANGED <<queuedCount, jobIds, metricsIds, metrics, cancel, body>>

CountTarget(r) ==
    /\ request[r].pc = "countTarget"
    /\ Count(r, ProjectOf[TargetJob[r]])
    /\ RequestTo(r, IF HasSource(r) THEN "countSource" ELSE "recordTarget")
    /\ UNCHANGED <<jobVars, jobIds, metricsIds, metrics, cancel, body>>

CountSource(r) ==
    /\ request[r].pc = "countSource"
    /\ Count(r, ProjectOf[SourceJob[r]])
    /\ RequestTo(r, "recordSource")
    /\ UNCHANGED <<jobVars, jobIds, metricsIds, metrics, cancel, body>>

RecordSource(r) ==
    /\ request[r].pc = "recordSource"
    /\ Record(SourceJob[r])
    /\ RequestTo(r, "recordTarget")
    /\ UNCHANGED <<jobVars, queuedCount, metrics, cancel, body>>

RecordTarget(r) ==
    /\ request[r].pc = "recordTarget"
    /\ Record(TargetJob[r])
    /\ RequestTo(r, "promote")
    /\ UNCHANGED <<jobVars, queuedCount, metrics, cancel, body>>

PromoteTarget(r) ==
    /\ request[r].pc = "promote"
    /\ Enqueue(TargetJob[r])
    /\ request' = [request EXCEPT ![r] = [pc |-> "done", stale |-> {}]]
    /\ UNCHANGED <<queuedCount, jobIds, metricsIds, metrics, cancel, body>>

\* The draft becomes a job to run, in whatever state it is by now.
Promote(r) ==
    /\ request[r].pc = "promote"
    /\ Enqueue(FirstJob(r))
    /\ request' = [request EXCEPT ![r] = [pc |-> "done", stale |-> {}]]
    /\ UNCHANGED <<queuedCount, jobIds, metricsIds, metrics, cancel, body>>

\* An update throws: the jobs are deleted, the target's first.
RequestThrows(r) ==
    /\ "request" \in Faults
    /\ request[r].pc \in {"countTarget", "countSource", "recordSource", "recordTarget", "promote"}
    /\ request' = [request EXCEPT ![r] = [pc |-> "deleteTarget", stale |-> {}]]
    /\ UNCHANGED <<jobVars, queuedCount, jobIds, metricsIds, metrics, cancel, body>>

\* Creating the target's job throws where nothing catches: the user is told, and the source's draft
\* stays.
ContinueThrows(r) ==
    /\ "continue" \in Faults
    /\ request[r].pc = "continue"
    /\ request' = [request EXCEPT ![r] = [pc |-> "abandoned", stale |-> {}]]
    /\ UNCHANGED <<jobVars, queuedCount, jobIds, metricsIds, metrics, cancel, body>>

DeleteFirst(r) ==
    /\ request[r].pc = "deleteTarget"
    /\ Delete(FirstJob(r))
    /\ RequestTo(r, IF HasSource(r) THEN "deleteSource" ELSE "failed")
    /\ UNCHANGED <<queuedCount, jobIds, metricsIds, metrics, cancel, body>>

DeleteTarget(r) ==
    /\ request[r].pc = "deleteTarget"
    /\ Delete(TargetJob[r])
    /\ RequestTo(r, IF HasSource(r) THEN "deleteSource" ELSE "failed")
    /\ UNCHANGED <<queuedCount, jobIds, metricsIds, metrics, cancel, body>>

DeleteSource(r) ==
    /\ request[r].pc = "deleteSource"
    /\ Delete(SourceJob[r])
    /\ RequestTo(r, "failed")
    /\ UNCHANGED <<queuedCount, jobIds, metricsIds, metrics, cancel, body>>

RequestNext(r) ==
    \/ CreateFirst(r) \/ CreateTarget(r) \/ CountTarget(r) \/ CountSource(r)
    \/ RecordSource(r) \/ RecordTarget(r) \/ Promote(r)
    \/ DeleteTarget(r) \/ DeleteSource(r)

-----------------------------------------------------------------------------
(* SyncService.CancelSyncAsync, and CancelProjectDocumentSyncAsync for the   *)
(* project and then for its source.                                          *)

CancelTo(c, step) == cancel' = [cancel EXCEPT ![c].pc = step]

FetchProject(c) ==
    /\ cancel[c].pc = "start"
    /\ CancelTo(c, IF queuedCount[CancelProject[c]] > 0 THEN "read" ELSE "done")
    /\ UNCHANGED <<jobVars, queuedCount, jobIds, metricsIds, metrics, request, body>>

ReadIds(c) ==
    /\ cancel[c].pc = "read"
    /\ cancel' = [cancel EXCEPT ![c].pc = "delete", ![c].ids = jobIds[cancel[c].project],
                                ![c].mids = metricsIds[cancel[c].project]]
    /\ UNCHANGED <<jobVars, queuedCount, jobIds, metricsIds, metrics, request, body>>

DeleteJob(c) ==
    /\ cancel[c].pc = "delete" /\ cancel[c].ids # <<>>
    /\ Delete(Head(cancel[c].ids))
    /\ cancel' = [cancel EXCEPT ![c].ids = Tail(@)]
    /\ UNCHANGED <<queuedCount, jobIds, metricsIds, metrics, request, body>>

MarkCancelled(c) ==
    /\ cancel[c].pc = "delete" /\ cancel[c].ids = <<>>
    /\ metrics' = [j \in Jobs |-> IF j \in cancel[c].mids THEN "cancelled" ELSE metrics[j]]
    /\ cancel' = [cancel EXCEPT ![c].pc = "clear", ![c].mids = {}]
    /\ UNCHANGED <<jobVars, queuedCount, jobIds, metricsIds, request, body>>

ClearIds(c) ==
    /\ cancel[c].pc = "clear"
    /\ jobIds' = [jobIds EXCEPT ![cancel[c].project] = <<>>]
    /\ metricsIds' = [metricsIds EXCEPT ![cancel[c].project] = {}]
    /\ CancelTo(c, "reset")
    /\ UNCHANGED <<jobVars, queuedCount, metrics, request, body>>

LeaveCount(c) ==
    /\ cancel[c].pc = "reset"
    /\ CancelTo(c, IF cancel[c].project = CancelProject[c] /\ SourceOf[CancelProject[c]] # NoProject
                   THEN "source" ELSE "done")
    /\ UNCHANGED <<jobVars, queuedCount, jobIds, metricsIds, metrics, request, body>>

ResetCount(c) ==
    /\ cancel[c].pc = "reset"
    /\ SetCount(cancel[c].project, 0)
    /\ request' = StaleRequests(cancel[c].project)
    /\ body' = [w \in Workers |-> StaleBody(body[w], w, cancel[c].project)]
    /\ CancelTo(c, IF cancel[c].project = CancelProject[c] /\ SourceOf[CancelProject[c]] # NoProject
                   THEN "source" ELSE "done")
    /\ UNCHANGED <<jobVars, jobIds, metricsIds, metrics>>

FetchSource(c) ==
    /\ cancel[c].pc = "source"
    /\ LET source == SourceOf[CancelProject[c]]
       IN cancel' = IF queuedCount[source] > 0
                    THEN [cancel EXCEPT ![c].pc = "read", ![c].project = source]
                    ELSE [cancel EXCEPT ![c].pc = "done"]
    /\ UNCHANGED <<jobVars, queuedCount, jobIds, metricsIds, metrics, request, body>>

CancelNext(c) ==
    \/ FetchProject(c) \/ ReadIds(c) \/ DeleteJob(c) \/ MarkCancelled(c) \/ ClearIds(c)
    \/ ResetCount(c) \/ FetchSource(c)

-----------------------------------------------------------------------------
(* The body of a sync: ParatextSyncRunner.RunAsync.                         *)

Project(w) == ProjectOf[on[w]]
BodyTo(w, step) == body' = [body EXCEPT ![w].pc = step]

\* The body ends with its job succeeding, or throwing.
Return(w) ==
    /\ Succeed(w)
    /\ body' = [body EXCEPT ![w] = NoBody]
Escape(w) ==
    /\ Throw(w)
    /\ body' = [body EXCEPT ![w] = NoBody]

StartBody(w) ==
    /\ Begin(w)
    /\ body' = [body EXCEPT ![w] = [NoBody EXCEPT !.pc = "init"]]
    /\ UNCHANGED <<queuedCount, jobIds, metricsIds, metrics, request, cancel>>

\* Hangfire's watcher signals the token of a body whose job is no longer processing in its worker.
SignalToken(w) ==
    /\ body[w].pc # "none" /\ ~body[w].token
    /\ \/ state[on[w]] # "processing"
       \/ \E v \in Workers \ {w} : on[v] = on[w] /\ phase[v] \in {"performing", "running"}
    /\ body' = [body EXCEPT ![w].token = TRUE]
    /\ UNCHANGED <<jobVars, queuedCount, jobIds, metricsIds, metrics, request, cancel>>

\* InitAsync marks the metrics running.  Cancelled here, it throws, and so does CompleteSync, which
\* has no connection to roll back.
InitMetrics(w) ==
    /\ body[w].pc = "init"
    /\ IF body[w].token
       THEN Escape(w) /\ UNCHANGED metrics
       ELSE /\ metrics' = [metrics EXCEPT ![on[w]] = "running"]
            /\ BodyTo(w, "load")
            /\ UNCHANGED jobVars
    /\ UNCHANGED <<queuedCount, jobIds, metricsIds, request, cancel>>

\* It begins the transaction and fetches the project doc, the copy the run keeps.
LoadProject(w) ==
    /\ body[w].pc = "load"
    /\ body' = [body EXCEPT ![w].pc = "secret", ![w].count = queuedCount[Project(w)],
                            ![w].stale = FALSE]
    /\ UNCHANGED <<jobVars, queuedCount, jobIds, metricsIds, metrics, request, cancel>>

\* It reads the secrets, once.  Cancelled here, CompleteSync only rolls back, and returns.
LoadSecret(w) ==
    /\ body[w].pc = "secret"
    /\ IF body[w].token
       THEN Return(w)
       ELSE /\ body' = [body EXCEPT ![w].pc = "work", ![w].ids = jobIds[Project(w)],
                                    ![w].mids = metricsIds[Project(w)]]
            /\ UNCHANGED jobVars
    /\ UNCHANGED <<queuedCount, jobIds, metricsIds, metrics, request, cancel>>

\* Everything up to CompleteSync.
Work(w) ==
    /\ body[w].pc = "work"
    /\ \E ok \in IF "sync" \in Faults THEN BOOLEAN ELSE {TRUE} :
          body' = [body EXCEPT ![w].pc = "complete", ![w].ok = ok]
    /\ UNCHANGED <<jobVars, queuedCount, jobIds, metricsIds, metrics, request, cancel>>

\* CompleteSync's first query throws once the token is signalled, and throws again when RunAsync's
\* handler calls CompleteSync(false).
Complete(w) ==
    /\ body[w].pc = "complete"
    /\ IF body[w].token
       THEN Escape(w)
       ELSE BodyTo(w, "ids") /\ UNCHANGED jobVars
    /\ UNCHANGED <<queuedCount, jobIds, metricsIds, metrics, request, cancel>>

\* The list without the job's id, which is recorded once.
Without(ids, j) ==
    IF \E i \in DOMAIN ids : ids[i] = j
    THEN LET i == CHOOSE n \in DOMAIN ids : ids[n] = j
         IN SubSeq(ids, 1, i - 1) \o SubSeq(ids, i + 1, Len(ids))
    ELSE ids

RemoveRunIdsOfSuccess(w) ==
    /\ body[w].pc = "ids"
    /\ jobIds' = [jobIds EXCEPT ![Project(w)] =
                     IF ~body[w].ok \/ body[w].ids = <<>> THEN @ ELSE Without(@, Head(body[w].ids))]
    /\ metricsIds' = [metricsIds EXCEPT ![Project(w)] = @ \ {on[w]}]
    /\ BodyTo(w, "commit")
    /\ UNCHANGED <<jobVars, queuedCount, metrics, request, cancel>>

\* The first of the ids read at the start, whose ever it is, and the run's own metrics id are removed.
RemoveRunIds(w) ==
    /\ body[w].pc = "ids"
    /\ LET found == body[w].ids # <<>> \/ on[w] \in body[w].mids
       IN IF body[w].token /\ found
          THEN Escape(w) /\ UNCHANGED <<jobIds, metricsIds>>
          ELSE /\ jobIds' = [jobIds EXCEPT ![Project(w)] =
                                IF body[w].ids = <<>> THEN @ ELSE Without(@, Head(body[w].ids))]
               /\ metricsIds' = [metricsIds EXCEPT ![Project(w)] =
                                    IF on[w] \in body[w].mids THEN @ \ {on[w]} ELSE @]
               /\ BodyTo(w, "commit")
               /\ UNCHANGED jobVars
    /\ UNCHANGED <<queuedCount, metrics, request, cancel>>

\* The commit's last operation is on the project doc, and brings its copy up to date.  A failed
\* commit leads to CompleteSync(false); after a failure the transaction is rolled back.
Commit(w) ==
    /\ body[w].pc = "commit"
    /\ body' \in {[body EXCEPT ![w].pc = "report", ![w].stale = @ /\ ~body[w].ok]}
                 \cup (IF body[w].ok /\ "commit" \in Faults
                       THEN {[body EXCEPT ![w].pc = "complete", ![w].ok = FALSE]} ELSE {})
    /\ UNCHANGED <<jobVars, queuedCount, jobIds, metricsIds, metrics, request, cancel>>

ReportZero(w) ==
    /\ body[w].pc = "report"
    /\ SetCount(Project(w), 0)
    /\ BodyTo(w, "metrics")
    /\ UNCHANGED <<jobVars, jobIds, metricsIds, metrics, request, cancel>>

\* The count is decremented, or set to zero where it is not positive, going by the cached count.
Report(w) ==
    /\ body[w].pc = "report"
    /\ IF body[w].count >= 0
       THEN /\ Inc(Project(w), IF body[w].count > 0 THEN -1 ELSE 0, body[w].stale)
            /\ BodyTo(w, "metrics")
            /\ UNCHANGED request
       ELSE /\ SetCount(Project(w), 0)
            /\ request' = StaleRequests(Project(w))
            /\ body' = [v \in Workers |-> IF v = w THEN [body[w] EXCEPT !.pc = "metrics"]
                                          ELSE StaleBody(body[v], v, Project(w))]
    /\ UNCHANGED <<jobVars, jobIds, metricsIds, metrics, cancel>>

\* A cancelled or failed update of the metrics throws; CompleteSync(false) cannot roll back what is
\* over, and throws too.
SaveMetrics(w) ==
    /\ body[w].pc = "metrics"
    /\ \/ ~body[w].token /\ Return(w)
          /\ metrics' = [metrics EXCEPT ![on[w]] = IF body[w].ok THEN "successful" ELSE "failed"]
       \/ (body[w].token \/ "metrics" \in Faults) /\ Escape(w) /\ UNCHANGED metrics
    /\ UNCHANGED <<queuedCount, jobIds, metricsIds, request, cancel>>

BodyNext(w) ==
    \/ InitMetrics(w) \/ LoadProject(w) \/ LoadSecret(w) \/ Work(w) \/ Complete(w)
    \/ RemoveRunIds(w) \/ Commit(w) \/ Report(w) \/ SaveMetrics(w)

-----------------------------------------------------------------------------

\* A restart of the process, which also serves the requests: it loses them.
Stop ==
    /\ Restart
    /\ request' = [r \in Requests |-> IF request[r].pc \in {"start", "done", "failed", "abandoned"}
                                      THEN request[r] ELSE [pc |-> "lost", stale |-> {}]]
    /\ cancel' = [c \in Cancels |-> IF cancel[c].pc \in {"start", "done"}
                                    THEN cancel[c] ELSE [cancel[c] EXCEPT !.pc = "lost"]]
    /\ body' = [w \in Workers |-> NoBody]
    /\ UNCHANGED <<queuedCount, jobIds, metricsIds, metrics>>

DeliverStep(w, j) == Deliver(w, j) /\ UNCHANGED queueVars

WorkerStep(w) ==
    \/ (AddToSet(w) \/ Process(w)) /\ UNCHANGED queueVars
    \/ StartBody(w)
    \/ BodyNext(w)

\* A draft's five minutes do not run out while its request is under way, unless that is so slow.
TimerStep(j) ==
    /\ \/ state[j] = "scheduled" \/ "timer" \in Faults
       \/ \A r \in Requests : j = FirstJob(r) => request[r].pc \in RequestEnds
    /\ TimerFires(j)
    /\ UNCHANGED queueVars

SyncNext ==
    \/ \E r \in Requests : RequestNext(r) \/ RequestThrows(r) \/ ContinueThrows(r)
    \/ \E c \in Cancels : CancelNext(c)
    \/ \E j \in Jobs : TimerStep(j)
    \/ \E w \in Workers : \/ \E j \in Jobs : DeliverStep(w, j)
                          \/ WorkerStep(w)
                          \/ SignalToken(w)
    \/ Stop

SyncSpec == SyncInit /\ [][SyncNext]_syncVars

\* Calls under way and busy workers go on, the queue hands out each job's entries, timers run out
\* and watchers look; users need not call at all.
SyncFairSpec ==
    /\ SyncSpec
    /\ \A r \in Requests : WF_syncVars(request[r].pc # "start" /\ RequestNext(r))
    /\ \A c \in Cancels : WF_syncVars(cancel[c].pc # "start" /\ CancelNext(c))
    /\ \A j \in Jobs : WF_syncVars(TimerStep(j)) /\ WF_syncVars(\E w \in Workers : DeliverStep(w, j))
    /\ \A w \in Workers : WF_syncVars(WorkerStep(w)) /\ WF_syncVars(SignalToken(w))

-----------------------------------------------------------------------------
(* Properties.                                                              *)

RequestOf(j) == CHOOSE r \in Requests : j \in {SourceJob[r], TargetJob[r]}
JobsOf(p) == {j \in Jobs : ProjectOf[j] = p}
Pending == {j \in Jobs : state[j] \in {"awaiting", "enqueued", "scheduled", "processing"}}

\* No call or body is in the middle of updating what is kept about projects.
AtRest ==
    /\ \A r \in Requests : request[r].pc \in RequestEnds \cup {"start"}
    /\ \A c \in Cancels : cancel[c].pc \in {"start", "done", "lost"}
    /\ \A w \in Workers : body[w].pc = "none"

\* Nobody has cancelled, no request has failed and the server has not stopped: what these leave behind
\* is not corrected.
Uninterrupted ==
    /\ restarts = 0
    /\ \A r \in Requests : request[r].pc \notin {"deleteTarget", "deleteSource", "failed", "abandoned"}
    /\ \A c \in Cancels : cancel[c].pc = "start"

\* SFProjectSecret.JobIds: the "Count should correspond to Sync.QueuedCount", and both are the
\* number of the project's syncs that have not ended.
IdsMatchCount ==
    AtRest /\ Uninterrupted =>
        \A p \in Projects : /\ queuedCount[p] = Cardinality(JobsOf(p) \cap Pending)
                            /\ Len(jobIds[p]) = queuedCount[p]

\* A project never looks synced (QueuedCount is 0) while a requested sync of it has yet to report.
ShownWhilePending ==
    Uninterrupted =>
        \A j \in Pending :
            request[RequestOf(j)].pc = "done" /\ ~(\E w \in Workers : on[w] = j /\ body[w].pc = "metrics")
            => queuedCount[ProjectOf[j]] > 0

\* SyncAsync drafts its jobs so as not to "start the job unless the queued count and job ids have
\* been incremented appropriately": a sync runs before its request has counted and recorded it only
\* when that request will never go on, for the server stopped or creating its second job threw.
UncountedOnlyAbandoned ==
    \A w \in Workers : body[w].pc # "none" =>
        request[RequestOf(on[w])].pc \in {"done", "abandoned", "lost"}

\* "We need to sync the source first": the target's sync begins when the source's is over.
SourceFirst ==
    \A w \in Workers : body[w].pc # "none" /\ Parent[on[w]] # NoJob
                         => state[Parent[on[w]]] \in Finished

\* "Delete the jobs on error, and notify the user": a request that failed while it counted, recorded
\* or enqueued leaves no job that could ever start, though one continues the other and an end of the
\* one, a deletion included, starts the other.  (One whose second job could not be created leaves the
\* source's draft: UncountedOnlyAbandoned.)
FailedRequestRunsNothing ==
    \A r \in Requests : \A j \in {SourceJob[r], TargetJob[r]} \cap Jobs :
        /\ request[r].pc \in {"deleteTarget", "deleteSource"} =>
              state[j] \notin {"enqueued", "scheduled", "processing", "succeeded"}
        /\ request[r].pc = "failed" => state[j] = "deleted"

\* The job ids are stored "so we can cancel the job later if needed": a requested sync that has not
\* begun can be found and cancelled.
Cancellable ==
    \A j \in Pending : request[RequestOf(j)].pc = "done" /\ (\A w \in Workers : on[w] # j)
                       => \E i \in DOMAIN jobIds[ProjectOf[j]] : jobIds[ProjectOf[j]][i] = j

\* Every requested sync ends, whatever is cancelled, fails or restarts.
EveryJobEnds ==
    \A j \in Jobs : j \in Pending /\ request[RequestOf(j)].pc = "done" ~> state[j] \in Finished

\* No project is shown as syncing for ever.
CountDrains == \A p \in Projects : <>[](queuedCount[p] <= 0)

=============================================================================
