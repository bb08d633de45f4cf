--------------------------- MODULE SyncQueueProofs ---------------------------
(* Proofs about SyncQueue: its type invariant; that whatever the requests, cancellations and bodies  *)
(* do, the jobs behave as JobMutex describes them, so what JobMutexProofs proves of any client holds *)
(* of these; in which order the syncs of a request run; and what the count and the ids say of them.  *)
EXTENDS SyncQueue, JobMutexProofs, SequenceTheorems

\* Only a request with a source job goes through the steps about it.
RequestInv == \A r \in Requests :
    request[r].pc \in {"continue", "countSource", "recordSource", "deleteSource"} => HasSource(r)

\* A body in progress has its worker performing the job.
BodyInv == \A w \in Workers : body[w].pc # "none" => phase[w] = "running"

\* A cancellation goes on to the source project only when there is one.
CancelInv == \A c \in Cancels : cancel[c].pc = "source" => SourceOf[CancelProject[c]] # NoProject

SyncInv == SyncTypeOK /\ RequestInv /\ CancelInv /\ BodyInv /\ JobInv

LEMMA RequestJobs ==
    ASSUME NEW r \in Requests
    PROVE  /\ TargetJob[r] \in Jobs
           /\ FirstJob(r) \in Jobs
           /\ HasSource(r) => SourceJob[r] \in Jobs
BY RequestsAssumption DEF FirstJob, HasSource

LEMMA BodyJob ==
    ASSUME SyncInv, NEW w \in Workers, body[w].pc # "none"
    PROVE  on[w] \in Jobs /\ Project(w) \in Projects
<1>1. on[w] \in Jobs
  BY DEF SyncInv, BodyInv, JobInv, EntryInv
<1> QED
  BY <1>1, ProjectsAssumption DEF Project

-----------------------------------------------------------------------------
(* Every step is a step of the jobs or leaves them alone.                   *)

LEMMA RequestIsClient ==
    ASSUME SyncInv, NEW r \in Requests, RequestNext(r) \/ RequestThrows(r) \/ ContinueThrows(r)
    PROVE  [JobNext]_jobVars
<1>1. CASE CreateFirst(r)
  BY <1>1, RequestJobs DEF CreateFirst, JobNext, ClientNext
<1>2. CASE CreateTarget(r)
  BY <1>2, RequestJobs DEF CreateTarget, JobNext, ClientNext
<1>3. CASE Promote(r)
  BY <1>3, RequestJobs DEF Promote, JobNext, ClientNext
<1>4. CASE DeleteTarget(r)
  BY <1>4, RequestJobs DEF DeleteTarget, JobNext, ClientNext
<1>5. CASE DeleteSource(r)
  <2>1. SourceJob[r] \in Jobs
    BY <1>5, RequestJobs DEF DeleteSource, SyncInv, RequestInv
  <2> QED
    BY <1>5, <2>1 DEF DeleteSource, JobNext, ClientNext
<1>6. CASE \/ CountTarget(r) \/ CountSource(r) \/ RecordSource(r) \/ RecordTarget(r)
           \/ RequestThrows(r) \/ ContinueThrows(r)
  BY <1>6 DEF CountTarget, CountSource, RecordSource, RecordTarget, RequestThrows, ContinueThrows
<1> QED
  BY <1>1, <1>2, <1>3, <1>4, <1>5, <1>6 DEF RequestNext

LEMMA CancelIsClient ==
    ASSUME SyncInv, NEW c \in Cancels, CancelNext(c)
    PROVE  [JobNext]_jobVars
<1>1. CASE DeleteJob(c)
  <2>1. Head(cancel[c].ids) \in Jobs
    BY <1>1 DEF DeleteJob, SyncInv, SyncTypeOK
  <2> QED
    BY <1>1, <2>1 DEF DeleteJob, JobNext, ClientNext
<1>2. CASE FetchProject(c) \/ ReadIds(c) \/ MarkCancelled(c) \/ ClearIds(c) \/ ResetCount(c)
           \/ FetchSource(c)
  BY <1>2 DEF FetchProject, ReadIds, MarkCancelled, ClearIds, ResetCount, FetchSource
<1> QED
  BY <1>1, <1>2 DEF CancelNext

\* A body returns or throws for its worker.
LEMMA EndIsJob ==
    ASSUME NEW w \in Workers, Return(w) \/ Escape(w)
    PROVE  JobNext
BY DEF Return, Escape, JobNext, WorkerNext

LEMMA BodyIsJob ==
    ASSUME NEW w \in Workers, BodyNext(w)
    PROVE  [JobNext]_jobVars
<1>1. CASE InitMetrics(w)
  BY <1>1, EndIsJob DEF InitMetrics
<1>2. CASE LoadSecret(w)
  BY <1>2, EndIsJob DEF LoadSecret
<1>3. CASE Complete(w)
  BY <1>3, EndIsJob DEF Complete
<1>4. CASE RemoveRunIds(w)
  BY <1>4, EndIsJob DEF RemoveRunIds
<1>5. CASE SaveMetrics(w)
  BY <1>5, EndIsJob DEF SaveMetrics
<1>6. CASE LoadProject(w) \/ Work(w) \/ Commit(w) \/ Report(w)
  BY <1>6 DEF LoadProject, Work, Commit, Report
<1> QED
  BY <1>1, <1>2, <1>3, <1>4, <1>5, <1>6 DEF BodyNext

LEMMA StepIsJob ==
    ASSUME SyncInv, [SyncNext]_syncVars
    PROVE  [JobNext]_jobVars
<1>1. ASSUME NEW w \in Workers, NEW j \in Jobs, DeliverStep(w, j)
      PROVE  [JobNext]_jobVars
  BY <1>1 DEF DeliverStep, JobNext, WorkerNext
<1>2. ASSUME NEW w \in Workers, WorkerStep(w)
      PROVE  [JobNext]_jobVars
  BY <1>2, BodyIsJob DEF WorkerStep, StartBody, JobNext, WorkerNext
<1>3. ASSUME NEW w \in Workers, SignalToken(w)
      PROVE  [JobNext]_jobVars
  BY <1>3 DEF SignalToken
<1>4. ASSUME NEW j \in Jobs, TimerStep(j)
      PROVE  [JobNext]_jobVars
  BY <1>4 DEF TimerStep, JobNext
<1>5. CASE Stop
  BY <1>5 DEF Stop, JobNext
<1>6. CASE UNCHANGED syncVars
  BY <1>6 DEF syncVars
<1> QED
  BY <1>1, <1>2, <1>3, <1>4, <1>5, <1>6, RequestIsClient, CancelIsClient DEF SyncNext

-----------------------------------------------------------------------------
(* The type invariant.                                                      *)

\* The part of the type invariant about what SyncQueue adds to JobMutex.
QueueTypeOK ==
    /\ queuedCount \in [Projects -> Int]
    /\ jobIds \in [Projects -> Seq(Jobs)]
    /\ metricsIds \in [Projects -> SUBSET Jobs]
    /\ metrics \in [Jobs -> Statuses]
    /\ request \in [Requests -> [pc: RequestSteps, stale: SUBSET Projects]]
    /\ cancel \in [Cancels -> [pc: CancelSteps, project: Projects, ids: Seq(Jobs), mids: SUBSET Jobs]]
    /\ body \in [Workers -> Bodies]

Kept == QueueTypeOK /\ RequestInv /\ CancelInv /\ BodyInv

LEMMA InitSync == SyncInit => SyncInv
<1> SUFFICES ASSUME SyncInit PROVE SyncInv
  OBVIOUS
<1>1. JobInv
  BY InitInv DEF SyncInit
<1>2. NoBody \in Bodies
  BY DEF NoBody, Bodies, BodySteps
<1>3. SyncTypeOK
  BY <1>1, <1>2, ProjectsAssumption
  DEF SyncInit, SyncTypeOK, JobInv, RequestSteps, CancelSteps, Statuses
<1> QED
  BY <1>1, <1>3 DEF SyncInit, SyncInv, RequestInv, CancelInv, BodyInv, NoBody

RequestStates == [pc: RequestSteps, stale: SUBSET Projects]
CancelStates == [pc: CancelSteps, project: Projects, ids: Seq(Jobs), mids: SUBSET Jobs]

\* A request goes to another step, one about the source only when it has one.
LEMMA RequestToKeeps ==
    ASSUME request \in [Requests -> RequestStates], RequestInv,
           NEW r \in Requests, NEW step \in RequestSteps, RequestTo(r, step),
           step \in {"continue", "countSource", "recordSource", "deleteSource"} => HasSource(r)
    PROVE  request' \in [Requests -> RequestStates] /\ RequestInv'
<1>1. [request[r] EXCEPT !.pc = step] \in RequestStates
  BY DEF RequestStates
<1>2. [request[r] EXCEPT !.pc = step].pc = step
  BY DEF RequestStates
<1>3. request' = [request EXCEPT ![r] = [request[r] EXCEPT !.pc = step]]
  BY DEF RequestTo
<1> QED
  BY <1>1, <1>2, <1>3 DEF RequestInv, HasSource

\* ... or ends, forgetting what it had fetched.
LEMMA RequestSetKeeps ==
    ASSUME request \in [Requests -> RequestStates], RequestInv,
           NEW r \in Requests, NEW step \in {"done", "deleteTarget", "abandoned"},
           request' = [request EXCEPT ![r] = [pc |-> step, stale |-> {}]]
    PROVE  request' \in [Requests -> RequestStates] /\ RequestInv'
<1>1. [pc |-> step, stale |-> {}] \in RequestStates
  BY DEF RequestStates, RequestSteps
<1> QED
  BY <1>1 DEF RequestInv, HasSource

LEMMA RecordKeeps ==
    ASSUME QueueTypeOK, NEW j \in Jobs, Record(j)
    PROVE  jobIds' \in [Projects -> Seq(Jobs)] /\ metricsIds' \in [Projects -> SUBSET Jobs]
BY ProjectsAssumption DEF QueueTypeOK, Record

LEMMA CountKeeps ==
    ASSUME QueueTypeOK, NEW p \in Projects, NEW n \in Int, NEW stale, Inc(p, n, stale)
    PROVE  queuedCount' \in [Projects -> Int]
BY DEF QueueTypeOK, Inc

LEMMA SetCountKeeps ==
    ASSUME QueueTypeOK, NEW p \in Projects, SetCount(p, 0)
    PROVE  queuedCount' \in [Projects -> Int]
BY DEF QueueTypeOK, SetCount

LEMMA RequestKeeps ==
    ASSUME SyncInv, NEW r \in Requests, RequestNext(r) \/ RequestThrows(r) \/ ContinueThrows(r)
    PROVE  Kept'
<1>0. /\ QueueTypeOK /\ request \in [Requests -> RequestStates]
      /\ RequestInv /\ CancelInv /\ BodyInv
  BY DEF SyncInv, SyncTypeOK, QueueTypeOK, RequestStates
<1> DEFINE p == ProjectOf[TargetJob[r]]
           q == ProjectOf[SourceJob[r]]
<1>s. RequestSteps = {"start", "continue", "countTarget", "countSource", "recordSource",
                      "recordTarget", "promote", "done", "deleteTarget", "deleteSource", "failed",
                      "abandoned", "lost"}
  BY DEF RequestSteps
<1>a. ASSUME request' \in [Requests -> RequestStates], RequestInv',
             UNCHANGED <<phase, queuedCount, jobIds, metricsIds, cancel, body>>,
             metrics' \in [Jobs -> Statuses]
      PROVE  Kept'
  BY <1>0, <1>a DEF Kept, QueueTypeOK, RequestStates, CancelInv, BodyInv
<1>1. CASE CreateFirst(r)
  <2>1. request' \in [Requests -> RequestStates] /\ RequestInv'
    BY <1>0, <1>1, <1>s, RequestToKeeps DEF CreateFirst
  <2>2. metrics' \in [Jobs -> Statuses]
    BY <1>0, <1>1, RequestJobs DEF CreateFirst, QueueTypeOK, Statuses
  <2> QED
    BY <1>1, <1>a, <2>1, <2>2 DEF CreateFirst, Schedule
<1>2. CASE CreateTarget(r)
  <2>1. request' \in [Requests -> RequestStates] /\ RequestInv'
    BY <1>0, <1>2, <1>s, RequestToKeeps DEF CreateTarget
  <2> QED
    BY <1>0, <1>2, <1>a, <2>1 DEF CreateTarget, ContinueJobWith, QueueTypeOK
<1>3. CASE CountTarget(r) \/ CountSource(r)
  <2>1. request' \in [Requests -> RequestStates] /\ RequestInv'
    <3>1. CASE CountTarget(r)
      BY <1>0, <3>1, <1>s, RequestToKeeps DEF CountTarget
    <3>2. CASE CountSource(r)
      <4>1. HasSource(r) /\ RequestTo(r, "recordSource")
        BY <1>0, <3>2 DEF CountSource, RequestInv
      <4> QED
        BY <1>0, <4>1, <1>s, RequestToKeeps
    <3> QED
      BY <1>3, <3>1, <3>2
  <2>2. p \in Projects /\ (CountSource(r) => q \in Projects)
    BY <1>0, RequestJobs, ProjectsAssumption DEF CountSource, RequestInv
  <2>3. queuedCount' \in [Projects -> Int]
    BY <1>0, <1>3, <2>2, CountKeeps DEF CountTarget, CountSource, Count
  <2> QED
    BY <1>0, <1>3, <2>1, <2>3
    DEF CountTarget, CountSource, Kept, QueueTypeOK, RequestStates, CancelInv, BodyInv, jobVars
<1>4. CASE RecordSource(r) \/ RecordTarget(r)
  <2>1. request' \in [Requests -> RequestStates] /\ RequestInv'
    BY <1>0, <1>4, <1>s, RequestToKeeps DEF RecordSource, RecordTarget
  <2>2. TargetJob[r] \in Jobs /\ (RecordSource(r) => SourceJob[r] \in Jobs)
    BY <1>0, RequestJobs DEF RecordSource, RequestInv
  <2>3. jobIds' \in [Projects -> Seq(Jobs)] /\ metricsIds' \in [Projects -> SUBSET Jobs]
    BY <1>0, <1>4, <2>2, RecordKeeps DEF RecordSource, RecordTarget
  <2> QED
    BY <1>0, <1>4, <2>1, <2>3
    DEF RecordSource, RecordTarget, Kept, QueueTypeOK, RequestStates, CancelInv, BodyInv, jobVars
<1>5. CASE Promote(r) \/ RequestThrows(r) \/ ContinueThrows(r)
  <2>1. request' \in [Requests -> RequestStates] /\ RequestInv'
    <3>1. \E step \in {"done", "deleteTarget", "abandoned"} :
             request' = [request EXCEPT ![r] = [pc |-> step, stale |-> {}]]
      BY <1>5 DEF Promote, RequestThrows, ContinueThrows
    <3> QED
      BY <1>0, <3>1, RequestSetKeeps
  <2> QED
    BY <1>0, <1>5, <1>a, <2>1 DEF Promote, RequestThrows, ContinueThrows, Enqueue, QueueTypeOK, jobVars
<1>6. CASE DeleteTarget(r) \/ DeleteSource(r)
  <2>1. request' \in [Requests -> RequestStates] /\ RequestInv'
    BY <1>0, <1>6, <1>s, RequestToKeeps DEF DeleteTarget, DeleteSource
  <2> QED
    BY <1>0, <1>6, <1>a, <2>1 DEF DeleteTarget, DeleteSource, Delete, QueueTypeOK
<1> QED
  BY <1>1, <1>2, <1>3, <1>4, <1>5, <1>6 DEF RequestNext

LEMMA CancelToKeeps ==
    ASSUME cancel \in [Cancels -> CancelStates], CancelInv, NEW c \in Cancels,
           NEW step \in CancelSteps, CancelTo(c, step),
           step = "source" => SourceOf[CancelProject[c]] # NoProject
    PROVE  cancel' \in [Cancels -> CancelStates] /\ CancelInv'
<1>1. [cancel[c] EXCEPT !.pc = step] \in CancelStates
  BY DEF CancelStates
<1>2. [cancel[c] EXCEPT !.pc = step].pc = step
  BY DEF CancelStates
<1>3. cancel' = [cancel EXCEPT ![c] = [cancel[c] EXCEPT !.pc = step]]
  BY DEF CancelTo
<1> QED
  BY <1>1, <1>2, <1>3 DEF CancelInv

\* A cancellation's record is replaced by one not at the step "source".
LEMMA CancelSetKeeps ==
    ASSUME cancel \in [Cancels -> CancelStates], CancelInv, NEW c \in Cancels,
           NEW new \in CancelStates, new.pc # "source", cancel' = [cancel EXCEPT ![c] = new]
    PROVE  cancel' \in [Cancels -> CancelStates] /\ CancelInv'
BY DEF CancelInv

\* A body that a count's Set makes stale is a body still, at the same step.
LEMMA StaleKeeps ==
    ASSUME body \in [Workers -> Bodies], BodyInv, NEW p, UNCHANGED phase,
           body' = [w \in Workers |-> StaleBody(body[w], w, p)]
    PROVE  body' \in [Workers -> Bodies] /\ BodyInv'
<1>1. ASSUME NEW b \in Bodies, NEW w
      PROVE  StaleBody(b, w, p) \in Bodies /\ StaleBody(b, w, p).pc = b.pc
  BY DEF StaleBody, Bodies
<1> QED
  BY <1>1 DEF BodyInv

LEMMA StaleRequestsKeeps ==
    ASSUME request \in [Requests -> RequestStates], RequestInv, NEW p \in Projects,
           request' = StaleRequests(p)
    PROVE  request' \in [Requests -> RequestStates] /\ RequestInv'
<1>1. ASSUME NEW r \in Requests
      PROVE  /\ [request[r] EXCEPT !.stale = @ \cup {p}] \in RequestStates
             /\ [request[r] EXCEPT !.stale = @ \cup {p}].pc = request[r].pc
  BY DEF RequestStates
<1> QED
  BY <1>1 DEF StaleRequests, RequestInv, HasSource

LEMMA CancelRecordKeeps ==
    ASSUME SyncInv, NEW c \in Cancels, CancelNext(c)
    PROVE  cancel' \in [Cancels -> CancelStates] /\ CancelInv'
<1>0. QueueTypeOK /\ CancelInv /\ cancel \in [Cancels -> CancelStates]
  BY DEF SyncInv, SyncTypeOK, QueueTypeOK, CancelStates
<1>1. cancel[c] \in CancelStates /\ cancel[c].project \in Projects
  BY <1>0 DEF CancelStates
<1>s. CancelSteps = {"start", "read", "delete", "clear", "reset", "source", "done", "lost"}
  BY DEF CancelSteps
<1>2. CASE FetchProject(c)
  BY <1>0, <1>2, <1>s, CancelToKeeps DEF FetchProject
<1>3. CASE ReadIds(c)
  <2> DEFINE p == cancel[c].project
             new == [cancel[c] EXCEPT !.pc = "delete", !.ids = jobIds[p], !.mids = metricsIds[p]]
  <2>1. jobIds[p] \in Seq(Jobs) /\ metricsIds[p] \in SUBSET Jobs
    BY <1>0, <1>1 DEF QueueTypeOK
  <2>2. new \in CancelStates /\ new.pc # "source"
    BY <1>1, <2>1, <1>s DEF CancelStates
  <2>3. cancel' = [cancel EXCEPT ![c] = new]
    BY <1>3 DEF ReadIds
  <2> QED
    BY <1>0, <2>2, <2>3, CancelSetKeeps
<1>4. CASE DeleteJob(c)
  <2> DEFINE new == [cancel[c] EXCEPT !.ids = Tail(cancel[c].ids)]
  <2>1. Tail(cancel[c].ids) \in Seq(Jobs) /\ cancel[c].pc = "delete"
    BY <1>1, <1>4 DEF DeleteJob, CancelStates
  <2>2. new \in CancelStates /\ new.pc # "source"
    BY <1>1, <2>1 DEF CancelStates
  <2>3. cancel' = [cancel EXCEPT ![c] = new]
    BY <1>4 DEF DeleteJob
  <2> QED
    BY <1>0, <2>2, <2>3, CancelSetKeeps
<1>5. CASE MarkCancelled(c)
  <2> DEFINE new == [cancel[c] EXCEPT !.pc = "clear", !.mids = {}]
  <2>1. new \in CancelStates /\ new.pc # "source"
    BY <1>1, <1>s DEF CancelStates
  <2>2. cancel' = [cancel EXCEPT ![c] = new]
    BY <1>5 DEF MarkCancelled
  <2> QED
    BY <1>0, <2>1, <2>2, CancelSetKeeps
<1>6. CASE ClearIds(c)
  BY <1>0, <1>6, <1>s, CancelToKeeps DEF ClearIds
<1>7. CASE ResetCount(c)
  BY <1>0, <1>7, <1>s, CancelToKeeps DEF ResetCount
<1>8. CASE FetchSource(c)
  <2> DEFINE source == SourceOf[CancelProject[c]]
             read == [cancel[c] EXCEPT !.pc = "read", !.project = source]
             done == [cancel[c] EXCEPT !.pc = "done"]
  <2>1. source \in Projects
    BY <1>0, <1>8, ProjectsAssumption DEF FetchSource, CancelInv
  <2>2. read \in CancelStates /\ read.pc # "source" /\ done \in CancelStates /\ done.pc # "source"
    BY <1>1, <2>1, <1>s DEF CancelStates
  <2>3. cancel' = [cancel EXCEPT ![c] = read] \/ cancel' = [cancel EXCEPT ![c] = done]
    BY <1>8 DEF FetchSource
  <2> QED
    BY <1>0, <2>2, <2>3, CancelSetKeeps
<1> QED
  BY <1>2, <1>3, <1>4, <1>5, <1>6, <1>7, <1>8 DEF CancelNext

LEMMA CancelKeeps ==
    ASSUME SyncInv, NEW c \in Cancels, CancelNext(c)
    PROVE  Kept'
<1>0. /\ QueueTypeOK /\ RequestInv /\ BodyInv
      /\ request \in [Requests -> RequestStates] /\ cancel \in [Cancels -> CancelStates]
  BY DEF SyncInv, SyncTypeOK, QueueTypeOK, RequestStates, CancelStates
<1>1. cancel[c].project \in Projects /\ cancel[c].mids \subseteq Jobs
  BY <1>0 DEF CancelStates
<1>2. cancel' \in [Cancels -> CancelStates] /\ CancelInv'
  BY CancelRecordKeeps
<1> USE DEF Kept, QueueTypeOK, RequestStates, CancelStates
<1>3. CASE FetchProject(c) \/ ReadIds(c) \/ DeleteJob(c) \/ FetchSource(c)
  BY <1>0, <1>2, <1>3
  DEF FetchProject, ReadIds, DeleteJob, FetchSource, Delete, RequestInv, BodyInv, HasSource, jobVars
<1>4. CASE MarkCancelled(c)
  <2>1. metrics' \in [Jobs -> Statuses]
    BY <1>0, <1>4 DEF MarkCancelled, Statuses
  <2> QED
    BY <1>0, <1>2, <1>4, <2>1 DEF MarkCancelled, RequestInv, BodyInv, HasSource, jobVars
<1>5. CASE ClearIds(c)
  <2>1. jobIds' \in [Projects -> Seq(Jobs)] /\ metricsIds' \in [Projects -> SUBSET Jobs]
    BY <1>0, <1>5 DEF ClearIds
  <2> QED
    BY <1>0, <1>2, <1>5, <2>1 DEF ClearIds, RequestInv, BodyInv, HasSource, jobVars
<1>6. CASE ResetCount(c)
  <2> DEFINE p == cancel[c].project
  <2>1. queuedCount' \in [Projects -> Int]
    BY <1>0, <1>1, <1>6, SetCountKeeps DEF ResetCount
  <2>2. request' \in [Requests -> RequestStates] /\ RequestInv'
    BY <1>0, <1>1, <1>6, StaleRequestsKeeps DEF ResetCount
  <2>3. body' \in [Workers -> Bodies] /\ BodyInv'
    <3>1. body \in [Workers -> Bodies] /\ UNCHANGED phase
          /\ body' = [w \in Workers |-> StaleBody(body[w], w, p)]
      BY <1>0, <1>6 DEF ResetCount, jobVars
    <3> QED
      BY <1>0, <3>1, StaleKeeps
  <2> QED
    BY <1>0, <1>2, <1>6, <2>1, <2>2, <2>3 DEF ResetCount
<1> QED
  BY <1>3, <1>4, <1>5, <1>6 DEF CancelNext

\* A body goes on, its worker running.
LEMMA BodySetKeeps ==
    ASSUME body \in [Workers -> Bodies], BodyInv, NEW w \in Workers, body[w].pc # "none",
           UNCHANGED jobVars, NEW new \in Bodies, body' = [body EXCEPT ![w] = new]
    PROVE  body' \in [Workers -> Bodies] /\ BodyInv'
BY DEF BodyInv, jobVars

LEMMA BodyToKeeps ==
    ASSUME body \in [Workers -> Bodies], BodyInv, NEW w \in Workers, body[w].pc # "none",
           UNCHANGED jobVars, NEW step \in BodySteps, BodyTo(w, step)
    PROVE  body' \in [Workers -> Bodies] /\ BodyInv'
<1>1. [body[w] EXCEPT !.pc = step] \in Bodies
  BY DEF Bodies
<1>2. body' = [body EXCEPT ![w] = [body[w] EXCEPT !.pc = step]]
  BY DEF BodyTo
<1> QED
  BY <1>1, <1>2, BodySetKeeps

\* A body ends, its worker leaving.
LEMMA BodyEndKeeps ==
    ASSUME body \in [Workers -> Bodies], BodyInv, NEW w \in Workers, Return(w) \/ Escape(w)
    PROVE  body' \in [Workers -> Bodies] /\ BodyInv'
<1>1. NoBody \in Bodies /\ NoBody.pc = "none"
  BY DEF NoBody, Bodies, BodySteps
<1>2. body' = [body EXCEPT ![w] = NoBody] /\ phase' = [phase EXCEPT ![w] = "idle"]
  BY DEF Return, Escape, Succeed, Throw, Leave
<1> QED
  BY <1>1, <1>2 DEF BodyInv

LEMMA BodyRecordKeeps ==
    ASSUME SyncInv, NEW w \in Workers, BodyNext(w)
    PROVE  body' \in [Workers -> Bodies] /\ BodyInv'
<1>0. body \in [Workers -> Bodies] /\ BodyInv /\ QueueTypeOK
  BY DEF SyncInv, SyncTypeOK, QueueTypeOK
<1>s. BodySteps = {"none", "init", "load", "secret", "work", "complete", "ids", "commit", "report",
                   "metrics"}
  BY DEF BodySteps
<1>1. CASE InitMetrics(w)
  BY <1>0, <1>1, <1>s, BodyToKeeps, BodyEndKeeps DEF InitMetrics
<1>2. CASE LoadProject(w)
  <2> DEFINE count == queuedCount[Project(w)]
             new == [body[w] EXCEPT !.pc = "secret", !.count = count, !.stale = FALSE]
  <2>1. count \in Int
    BY <1>0, <1>2, BodyJob DEF LoadProject, QueueTypeOK
  <2>2. new \in Bodies
    BY <1>0, <1>s, <2>1 DEF Bodies
  <2>3. body' = [body EXCEPT ![w] = new] /\ body[w].pc # "none" /\ UNCHANGED jobVars
    BY <1>2 DEF LoadProject
  <2> QED
    BY <1>0, <2>2, <2>3, BodySetKeeps
<1>3. CASE LoadSecret(w) /\ ~body[w].token
  <2> DEFINE p == Project(w)
             new == [body[w] EXCEPT !.pc = "work", !.ids = jobIds[p], !.mids = metricsIds[p]]
  <2>1. jobIds[p] \in Seq(Jobs) /\ metricsIds[p] \in SUBSET Jobs
    BY <1>0, <1>3, BodyJob DEF LoadSecret, QueueTypeOK
  <2>2. new \in Bodies
    BY <1>0, <1>s, <2>1 DEF Bodies
  <2>3. body' = [body EXCEPT ![w] = new] /\ body[w].pc # "none" /\ UNCHANGED jobVars
    BY <1>3 DEF LoadSecret
  <2> QED
    BY <1>0, <2>2, <2>3, BodySetKeeps
<1>4. CASE LoadSecret(w) /\ body[w].token
  BY <1>0, <1>4, BodyEndKeeps DEF LoadSecret
<1>5. CASE Work(w)
  <2>1. PICK ok \in BOOLEAN : body' = [body EXCEPT ![w].pc = "complete", ![w].ok = ok]
    BY <1>5 DEF Work
  <2> DEFINE new == [body[w] EXCEPT !.pc = "complete", !.ok = ok]
  <2>2. new \in Bodies
    BY <1>0, <1>s DEF Bodies
  <2>3. body' = [body EXCEPT ![w] = new] /\ body[w].pc # "none" /\ UNCHANGED jobVars
    BY <1>5, <2>1 DEF Work
  <2> QED
    BY <1>0, <2>2, <2>3, BodySetKeeps
<1>6. CASE Complete(w)
  BY <1>0, <1>6, <1>s, BodyToKeeps, BodyEndKeeps DEF Complete
<1>7. CASE RemoveRunIds(w)
  BY <1>0, <1>7, <1>s, BodyToKeeps, BodyEndKeeps DEF RemoveRunIds
<1>8. CASE Commit(w)
  <2> DEFINE new == [body[w] EXCEPT !.pc = "report", !.stale = @ /\ ~body[w].ok]
             failed == [body[w] EXCEPT !.pc = "complete", !.ok = FALSE]
  <2>1. (body[w].stale /\ ~body[w].ok) \in BOOLEAN
    OBVIOUS
  <2>2. new \in Bodies /\ failed \in Bodies
    BY <1>0, <1>s, <2>1 DEF Bodies
  <2>3. body' = [body EXCEPT ![w] = new] \/ body' = [body EXCEPT ![w] = failed]
    BY <1>8 DEF Commit
  <2>4. body[w].pc # "none" /\ UNCHANGED jobVars
    BY <1>8 DEF Commit
  <2> QED
    BY <1>0, <2>2, <2>3, <2>4, BodySetKeeps
<1>9. CASE Report(w) /\ body[w].count >= 0
  BY <1>0, <1>9, <1>s, BodyToKeeps DEF Report
<1>10. CASE Report(w) /\ ~(body[w].count >= 0)
  <2>1. [body[w] EXCEPT !.pc = "metrics"] \in Bodies
    BY <1>0, <1>s DEF Bodies
  <2>2. ASSUME NEW b \in Bodies, NEW v, NEW p
        PROVE  StaleBody(b, v, p) \in Bodies /\ StaleBody(b, v, p).pc = b.pc
    BY DEF StaleBody, Bodies
  <2>3. body' = [v \in Workers |-> IF v = w THEN [body[w] EXCEPT !.pc = "metrics"]
                                   ELSE StaleBody(body[v], v, Project(w))]
    BY <1>10 DEF Report
  <2>4. body[w].pc # "none" /\ UNCHANGED phase
    BY <1>10 DEF Report, jobVars
  <2> QED
    BY <1>0, <2>1, <2>2, <2>3, <2>4 DEF BodyInv
<1>11. CASE SaveMetrics(w)
  BY <1>0, <1>11, BodyEndKeeps DEF SaveMetrics
<1> QED
  BY <1>1, <1>2, <1>3, <1>4, <1>5, <1>6, <1>7, <1>8, <1>9, <1>10, <1>11 DEF BodyNext

LEMMA WithoutType ==
    ASSUME NEW ids \in Seq(Jobs), NEW j
    PROVE  Without(ids, j) \in Seq(Jobs)
<1>1. CASE \E i \in DOMAIN ids : ids[i] = j
  <2> DEFINE i == CHOOSE n \in DOMAIN ids : ids[n] = j
  <2>1. i \in 1 .. Len(ids)
    BY <1>1
  <2> HIDE DEF i
  <2>2. i \in Nat /\ Len(ids) \in Nat
    BY <2>1
  <2>3. SubSeq(ids, 1, i - 1) \in Seq(Jobs) /\ SubSeq(ids, i + 1, Len(ids)) \in Seq(Jobs)
    BY <2>1, <2>2, SubSeqProperties
  <2> QED
    BY <1>1, <2>3 DEF Without, i
<1> QED
  BY <1>1 DEF Without

LEMMA BodyKeeps ==
    ASSUME SyncInv, NEW w \in Workers, BodyNext(w)
    PROVE  Kept'
<1>0. /\ QueueTypeOK /\ RequestInv /\ CancelInv
      /\ request \in [Requests -> RequestStates]
  BY DEF SyncInv, SyncTypeOK, QueueTypeOK, RequestStates
<1>1. body' \in [Workers -> Bodies] /\ BodyInv'
  BY BodyRecordKeeps
<1>2. body[w].pc # "none"
  BY DEF BodyNext, InitMetrics, LoadProject, LoadSecret, Work, Complete, RemoveRunIds, Commit, Report,
         SaveMetrics
<1>3. on[w] \in Jobs /\ Project(w) \in Projects
  BY <1>2, BodyJob
<1> USE DEF Kept, QueueTypeOK, RequestInv, CancelInv, HasSource
<1>4. CASE LoadProject(w) \/ LoadSecret(w) \/ Work(w) \/ Complete(w) \/ Commit(w)
  BY <1>0, <1>1, <1>4 DEF LoadProject, LoadSecret, Work, Complete, Commit
<1>5. CASE InitMetrics(w) \/ SaveMetrics(w)
  <2>1. CASE InitMetrics(w)
    <3>1. metrics' \in [Jobs -> Statuses]
      BY <1>0, <2>1 DEF InitMetrics, Statuses
    <3> QED
      BY <1>0, <1>1, <2>1, <3>1 DEF InitMetrics
  <2>2. CASE SaveMetrics(w)
    <3>1. metrics' \in [Jobs -> Statuses]
      BY <1>0, <2>2 DEF SaveMetrics, Statuses
    <3> QED
      BY <1>0, <1>1, <2>2, <3>1 DEF SaveMetrics
  <2> QED
    BY <1>5, <2>1, <2>2
<1>6. CASE RemoveRunIds(w)
  <2> DEFINE p == Project(w)
             j == Head(body[w].ids)
  <2>1. jobIds[p] \in Seq(Jobs) /\ Without(jobIds[p], j) \in Seq(Jobs)
    BY <1>0, <1>3, WithoutType
  <2>2. \/ UNCHANGED <<jobIds, metricsIds>>
        \/ /\ \/ jobIds' = [jobIds EXCEPT ![p] = jobIds[p]]
              \/ jobIds' = [jobIds EXCEPT ![p] = Without(jobIds[p], j)]
           /\ \/ metricsIds' = [metricsIds EXCEPT ![p] = metricsIds[p]]
              \/ metricsIds' = [metricsIds EXCEPT ![p] = metricsIds[p] \ {on[w]}]
    BY <1>6 DEF RemoveRunIds
  <2> HIDE DEF p, j
  <2>3. jobIds' \in [Projects -> Seq(Jobs)] /\ metricsIds' \in [Projects -> SUBSET Jobs]
    <3> HIDE DEF Kept, QueueTypeOK, RequestInv, CancelInv, HasSource
    <3>1. jobIds \in [Projects -> Seq(Jobs)] /\ metricsIds \in [Projects -> SUBSET Jobs]
      BY <1>0 DEF QueueTypeOK
    <3>2. jobIds' \in [Projects -> Seq(Jobs)]
      BY <3>1, <2>1, <2>2
    <3>3. metricsIds' \in [Projects -> SUBSET Jobs]
      BY <3>1, <2>2
    <3> QED
      BY <3>2, <3>3
  <2> QED
    BY <1>0, <1>1, <1>6, <2>3 DEF RemoveRunIds
<1>7. CASE Report(w)
  <2>1. queuedCount' \in [Projects -> Int]
    <3>1. CASE body[w].count >= 0
      <4>1. (IF body[w].count > 0 THEN -1 ELSE 0) \in Int
        OBVIOUS
      <4> QED
        BY <1>0, <1>3, <1>7, <3>1, <4>1, CountKeeps DEF Report
    <3>2. CASE ~(body[w].count >= 0)
      BY <1>0, <1>3, <1>7, <3>2, SetCountKeeps DEF Report
    <3> QED
      BY <3>1, <3>2
  <2>2. request' \in [Requests -> RequestStates] /\ RequestInv'
    <3>1. CASE UNCHANGED request
      BY <1>0, <3>1
    <3>2. CASE request' = StaleRequests(Project(w))
      BY <1>0, <1>3, <3>2, StaleRequestsKeeps
    <3> QED
      BY <1>7, <3>1, <3>2 DEF Report
  <2>3. UNCHANGED <<jobIds, metricsIds, metrics, cancel>>
    BY <1>7 DEF Report
  <2> QED
    BY <1>0, <1>1, <2>1, <2>2, <2>3 DEF RequestStates
<1> QED
  BY <1>4, <1>5, <1>6, <1>7 DEF BodyNext

LEMMA WorkerKeeps ==
    ASSUME SyncInv, NEW w \in Workers, WorkerStep(w)
    PROVE  Kept'
<1>0. /\ QueueTypeOK /\ RequestInv /\ CancelInv /\ BodyInv
      /\ phase \in [Workers -> Phases] /\ body \in [Workers -> Bodies]
  BY DEF SyncInv, SyncTypeOK, QueueTypeOK, JobInv, JobTypeOK
<1>1. CASE (AddToSet(w) \/ Process(w)) /\ UNCHANGED queueVars
  BY <1>0, <1>1 DEF AddToSet, Process, queueVars, Kept, QueueTypeOK, RequestInv, CancelInv, BodyInv, HasSource
<1>2. CASE StartBody(w)
  <2> DEFINE new == [NoBody EXCEPT !.pc = "init"]
  <2>1. new \in Bodies
    <3>1. NoBody \in Bodies
      BY DEF NoBody, Bodies, BodySteps
    <3> QED
      BY <3>1 DEF Bodies, BodySteps
  <2>2. body' = [body EXCEPT ![w] = new] /\ phase' = [phase EXCEPT ![w] = "running"]
    BY <1>2 DEF StartBody, Begin
  <2>3. body' \in [Workers -> Bodies] /\ BodyInv'
    <3> HIDE DEF new
    <3> QED
      BY <1>0, <2>1, <2>2 DEF BodyInv
  <2>4. UNCHANGED <<queuedCount, jobIds, metricsIds, metrics, request, cancel>>
    BY <1>2 DEF StartBody
  <2> QED
    BY <1>0, <2>3, <2>4 DEF Kept, QueueTypeOK, RequestInv, CancelInv, HasSource
<1> QED
  BY <1>1, <1>2, BodyKeeps DEF WorkerStep

LEMMA SignalKeeps ==
    ASSUME SyncInv, NEW w \in Workers, SignalToken(w)
    PROVE  Kept'
<1>0. QueueTypeOK /\ RequestInv /\ CancelInv /\ BodyInv /\ body \in [Workers -> Bodies]
  BY DEF SyncInv, SyncTypeOK, QueueTypeOK
<1> DEFINE new == [body[w] EXCEPT !.token = TRUE]
<1>1. new \in Bodies
  BY <1>0 DEF Bodies
<1>2. body' = [body EXCEPT ![w] = new] /\ body[w].pc # "none" /\ UNCHANGED jobVars
  BY <1>0 DEF SignalToken
<1>3. body' \in [Workers -> Bodies] /\ BodyInv'
  BY <1>0, <1>1, <1>2, BodySetKeeps
<1>4. UNCHANGED <<queuedCount, jobIds, metricsIds, metrics, request, cancel>>
  BY DEF SignalToken
<1> QED
  BY <1>0, <1>3, <1>4 DEF Kept, QueueTypeOK, RequestInv, CancelInv, HasSource

\* Deliveries and timers touch no running worker.
LEMMA QueueKeeps ==
    ASSUME SyncInv, UNCHANGED queueVars,
           \/ \E w \in Workers, j \in Jobs : Deliver(w, j)
           \/ \E j \in Jobs : TimerFires(j)
           \/ UNCHANGED jobVars
    PROVE  Kept'
<1>1. \A w \in Workers : phase[w] = "running" => phase'[w] = "running"
  BY DEF SyncInv, JobInv, JobTypeOK, Deliver, DropEntry, ReadSet, PutOff, TimerFires, jobVars
<1> QED
  BY <1>1 DEF SyncInv, SyncTypeOK, Kept, QueueTypeOK, queueVars, RequestInv, CancelInv, BodyInv, HasSource

LEMMA StopKeeps ==
    ASSUME SyncInv, Stop
    PROVE  Kept'
<1>0. /\ QueueTypeOK /\ RequestInv /\ CancelInv
      /\ request \in [Requests -> RequestStates] /\ cancel \in [Cancels -> CancelStates]
  BY DEF SyncInv, SyncTypeOK, QueueTypeOK, RequestStates, CancelStates
<1>1. request' \in [Requests -> RequestStates] /\ RequestInv'
  <2> DEFINE lost == [pc |-> "lost", stale |-> {}]
  <2>1. lost \in RequestStates /\ lost.pc = "lost"
    BY DEF RequestStates, RequestSteps
  <2>2. request' = [r \in Requests |-> IF request[r].pc \in {"start", "done", "failed", "abandoned"}
                                       THEN request[r] ELSE lost]
    BY DEF Stop
  <2> HIDE DEF lost
  <2> QED
    BY <1>0, <2>1, <2>2 DEF RequestInv, HasSource
<1>2. cancel' \in [Cancels -> CancelStates] /\ CancelInv'
  <2>1. ASSUME NEW c \in Cancels
        PROVE  /\ [cancel[c] EXCEPT !.pc = "lost"] \in CancelStates
               /\ [cancel[c] EXCEPT !.pc = "lost"].pc = "lost"
    BY <1>0 DEF CancelStates, CancelSteps
  <2>2. cancel' = [c \in Cancels |-> IF cancel[c].pc \in {"start", "done"}
                                     THEN cancel[c] ELSE [cancel[c] EXCEPT !.pc = "lost"]]
    BY DEF Stop
  <2> QED
    BY <1>0, <2>1, <2>2 DEF CancelInv
<1>3. body' \in [Workers -> Bodies] /\ BodyInv'
  <2>1. NoBody \in Bodies /\ NoBody.pc = "none"
    BY DEF NoBody, Bodies, BodySteps
  <2> QED
    BY <2>1 DEF Stop, BodyInv
<1>4. UNCHANGED <<queuedCount, jobIds, metricsIds, metrics>>
  BY DEF Stop
<1> QED
  BY <1>0, <1>1, <1>2, <1>3, <1>4 DEF Kept, QueueTypeOK, RequestStates, CancelStates

LEMMA StepKeeps ==
    ASSUME SyncInv, [SyncNext]_syncVars
    PROVE  SyncInv'
<1>1. JobInv'
  BY StepIsJob, NextInv DEF SyncInv
<1>2. Kept'
  <2>1. CASE \E w \in Workers, j \in Jobs : DeliverStep(w, j)
    BY <2>1, QueueKeeps DEF DeliverStep
  <2>2. CASE \E j \in Jobs : TimerStep(j)
    BY <2>2, QueueKeeps DEF TimerStep
  <2>3. CASE UNCHANGED syncVars
    BY <2>3, QueueKeeps DEF syncVars
  <2> QED
    BY <2>1, <2>2, <2>3, RequestKeeps, CancelKeeps, WorkerKeeps, SignalKeeps, StopKeeps DEF SyncNext
<1> QED
  BY <1>1, <1>2 DEF SyncInv, SyncTypeOK, Kept, QueueTypeOK, JobInv

-----------------------------------------------------------------------------

\* The inductive invariant holds whatever is requested, cancelled, fails or restarts (SyncService,
\* and ParatextSyncRunner as far as it touches the queue).
THEOREM SyncInvariance == SyncSpec => []SyncInv
<1>1. SyncInit => SyncInv
  BY InitSync
<1>2. SyncInv /\ [SyncNext]_syncVars => SyncInv'
  BY StepKeeps
<1> QED
  BY <1>1, <1>2, PTL DEF SyncSpec

\* Every reachable state is well typed: a list of job ids holds only jobs, a body's project is one.
THEOREM SyncTypeCorrect == SyncSpec => []SyncTypeOK
<1>1. SyncInv => SyncTypeOK
  BY DEF SyncInv
<1> QED
  BY SyncInvariance, <1>1, PTL

\* SyncService and ParatextSyncRunner use the jobs as their environment in JobMutex does, by the way
\* their actions are composed: what is proved of any clients there holds here.
LEMMA UsesJobs == SyncSpec => JobSpec
<1>1. SyncInit => JobInit
  BY DEF SyncInit
<1>2. SyncInv /\ [SyncNext]_syncVars => [JobNext]_jobVars
  BY StepIsJob
<1> QED
  BY SyncInvariance, <1>1, <1>2, PTL DEF SyncSpec, JobSpec

\* So no two sync bodies run at once, even while requests and cancellations of several users, the
\* delays, retries and restarts interleave (MutexAttribute on RunAsync).
THEOREM OneSyncAtATime == SyncSpec => []MutualExclusion
BY UsesJobs, OneBodyAtATime, PTL

-----------------------------------------------------------------------------
(* The order in which a request's jobs are created, recorded, started and    *)
(* deleted, whatever fails, restarts or is retried, while no sync is         *)
(* cancelled during a request.                                               *)

\* A cancellation, or a draft's delay that runs out, between the steps of a request breaks the order:
\* deleting the source's draft releases the target's job.  The draft of a request that has ended, or
\* been lost, does run out.
Uncancelled == Cancels = {} /\ "timer" \notin Faults

\* Every request creates jobs of its own (Hangfire gives each job a new id).
OwnJobs == \A r, s \in Requests :
    r # s => {TargetJob[r], SourceJob[r]} \cap {TargetJob[s], SourceJob[s]} \subseteq {NoJob}

RequestJobsOf(r) == {TargetJob[r], SourceJob[r]} \cap Jobs

\* What has become of the jobs of a request at each of its steps.
NotCreated(r) == \A j \in RequestJobsOf(r) : state[j] = "none"
SourceDrafted(r) == HasSource(r) /\ state[SourceJob[r]] = "draft" /\ state[TargetJob[r]] = "none"
Drafted(r) == state[FirstJob(r)] = "draft" /\ (HasSource(r) => state[TargetJob[r]] = "awaiting")
TargetDeleted(r) == HasSource(r) /\ state[SourceJob[r]] = "draft" /\ state[TargetJob[r]] = "deleted"
AllDeleted(r) == \A j \in RequestJobsOf(r) : state[j] = "deleted"
InOrder(r) ==
    HasSource(r) /\ state[TargetJob[r]] \notin {"none", "awaiting", "deleted"}
        => state[SourceJob[r]] \in Finished

\* Where a request does no more, and may have left jobs that run.
Over == {"done", "abandoned", "lost"}

Step(r) ==
    /\ request[r].pc = "start" => NotCreated(r)
    /\ request[r].pc = "continue" => SourceDrafted(r)
    /\ request[r].pc \in {"countTarget", "countSource", "recordSource", "recordTarget", "promote",
                          "deleteTarget"} => Drafted(r)
    /\ request[r].pc = "deleteSource" => TargetDeleted(r)
    /\ request[r].pc = "failed" => AllDeleted(r)
    /\ request[r].pc \in Over => InOrder(r)

StepInv == \A r \in Requests : Step(r)

\* A job of no request is never created.
OrphanInv == \A j \in Jobs : (\A r \in Requests : j \notin RequestJobsOf(r)) => state[j] = "none"

\* A busy worker has a job of a request that is over, the target's only after the source's has ended.
MayRun(r, j) ==
    /\ j \in RequestJobsOf(r)
    /\ request[r].pc \in Over
    /\ HasSource(r) /\ j = TargetJob[r] => state[SourceJob[r]] \in Finished

WorkInv == \A w \in Workers : phase[w] # "idle" => \E r \in Requests : MayRun(r, on[w])

OrderInv == StepInv /\ OrphanInv /\ WorkInv

USE DEF JobStates, Phases, Electing, Finished, Over

-----------------------------------------------------------------------------

LEMMA RequestFacts ==
    ASSUME NEW r \in Requests
    PROVE  /\ TargetJob[r] \in Jobs /\ TargetJob[r] # NoJob
           /\ FirstJob(r) \in RequestJobsOf(r)
           /\ HasSource(r) => /\ SourceJob[r] \in Jobs /\ SourceJob[r] # TargetJob[r]
                              /\ Parent[SourceJob[r]] = NoJob
                              /\ FirstJob(r) = SourceJob[r]
           /\ ~HasSource(r) => RequestJobsOf(r) = {TargetJob[r]} /\ FirstJob(r) = TargetJob[r]
           /\ HasSource(r) => RequestJobsOf(r) = {TargetJob[r], SourceJob[r]}
           /\ Parent[TargetJob[r]] = SourceJob[r]
BY RequestsAssumption, JobsAssumption DEF FirstJob, HasSource, RequestJobsOf

LEMMA OneRequest ==
    ASSUME OwnJobs, NEW r \in Requests, NEW s \in Requests, NEW j,
           j \in RequestJobsOf(r), j \in RequestJobsOf(s)
    PROVE  r = s
BY JobsAssumption DEF OwnJobs, RequestJobsOf

\* Only the jobs of a request that is over are ever to be run.
LEMMA LiveJob ==
    ASSUME SyncInv, OrderInv, NEW j \in Jobs, state[j] \in {"enqueued", "scheduled", "processing"}
    PROVE  \E r \in Requests : j \in RequestJobsOf(r) /\ request[r].pc \in Over
<1>1. PICK r \in Requests : j \in RequestJobsOf(r)
  BY DEF OrderInv, OrphanInv
<1>2. request[r].pc \in RequestSteps
  BY DEF SyncInv, SyncTypeOK
<1>3. j = TargetJob[r] \/ (HasSource(r) /\ j = SourceJob[r])
  BY <1>1, RequestFacts
<1>4. Step(r)
  BY DEF OrderInv, StepInv
<1>5. request[r].pc \in Over
  BY <1>1, <1>2, <1>3, <1>4, RequestFacts
  DEF Step, NotCreated, SourceDrafted, Drafted, TargetDeleted, AllDeleted, RequestSteps
<1> QED
  BY <1>1, <1>5

\* A finished job releases only the target of the request it is the source of.
LEMMA ReleasedJob ==
    ASSUME OrderInv, OwnJobs, NEW r \in Requests, NEW j \in RequestJobsOf(r), NEW s,
           NEW i \in Released(j, s)
    PROVE  HasSource(r) /\ j = SourceJob[r] /\ i = TargetJob[r] /\ s \in Finished
<1>1. i \in Jobs /\ Parent[i] = j /\ state[i] = "awaiting" /\ s \in Finished
  BY DEF Released
<1>2. PICK q \in Requests : i \in RequestJobsOf(q)
  BY <1>1 DEF OrderInv, OrphanInv
<1>3. j \in Jobs /\ j # NoJob
  BY JobsAssumption DEF RequestJobsOf
<1>4. i = TargetJob[q] /\ SourceJob[q] = j
  BY <1>1, <1>2, <1>3, RequestFacts
<1>5. j \in RequestJobsOf(q) /\ HasSource(q)
  BY <1>3, <1>4 DEF RequestJobsOf, HasSource
<1>6. q = r
  BY <1>5, OneRequest
<1> QED
  BY <1>1, <1>4, <1>5, <1>6

LEMMA MoveJob ==
    ASSUME NEW j \in Jobs, NEW s, Move(j, s)
    PROVE  /\ state'[j] = s
           /\ \A i \in Jobs \ {j} : state'[i] = IF i \in Released(j, s) THEN "enqueued" ELSE state[i]
BY DEF Move

\* A request whose jobs stay as they are keeps its place.
LEMMA StepFrame ==
    ASSUME NEW r \in Requests, Step(r), request'[r].pc = request[r].pc,
           \A j \in RequestJobsOf(r) : state'[j] = state[j]
    PROVE  Step(r)'
<1>1. \A j \in RequestJobsOf(r)' : state'[j] = state[j]
  BY DEF RequestJobsOf
<1>2. state'[TargetJob[r]] = state[TargetJob[r]] /\ state'[FirstJob(r)] = state[FirstJob(r)]
      /\ (HasSource(r) => state'[SourceJob[r]] = state[SourceJob[r]])
  BY RequestFacts
<1>3. /\ NotCreated(r) => NotCreated(r)'
      /\ AllDeleted(r) => AllDeleted(r)'
  BY DEF NotCreated, AllDeleted, RequestJobsOf
<1>4. /\ SourceDrafted(r) => SourceDrafted(r)'
      /\ Drafted(r) => Drafted(r)'
      /\ TargetDeleted(r) => TargetDeleted(r)'
      /\ InOrder(r) => InOrder(r)'
  BY <1>2 DEF SourceDrafted, Drafted, TargetDeleted, InOrder, HasSource, FirstJob
<1> QED
  BY <1>3, <1>4 DEF Step

\* Workers keep their jobs, or drop them, while what is finished or done stays so.
LEMMA WorkKeeps ==
    ASSUME WorkInv,
           \A i \in Jobs : state[i] \in Finished => state'[i] \in Finished,
           \A r \in Requests : request[r].pc \in Over => request'[r].pc \in Over,
           \A w \in Workers : phase'[w] # "idle" => phase[w] # "idle" /\ on'[w] = on[w]
    PROVE  WorkInv'
<1> SUFFICES ASSUME NEW w \in Workers, phase'[w] # "idle"
             PROVE  \E r \in Requests : MayRun(r, on[w])'
  BY DEF WorkInv
<1>1. PICK r \in Requests : MayRun(r, on[w])
  BY DEF WorkInv
<1>2. HasSource(r) => SourceJob[r] \in Jobs
  BY RequestFacts
<1> QED
  BY <1>1, <1>2 DEF MayRun, RequestJobsOf, HasSource

\* A step of a request that is not over, which touches its own jobs only.
LEMMA RequestMoves ==
    ASSUME OrderInv, OwnJobs, NEW r \in Requests, request[r].pc \notin Over, Step(r)',
           \A s \in Requests \ {r} : request'[s].pc = request[s].pc,
           \A j \in Jobs \ RequestJobsOf(r) : state'[j] = state[j],
           UNCHANGED <<phase, on>>
    PROVE  OrderInv'
<1>1. StepInv'
  <2> SUFFICES ASSUME NEW s \in Requests \ {r} PROVE Step(s)'
    BY DEF StepInv
  <2>1. \A j \in RequestJobsOf(s) : j \in Jobs /\ j \notin RequestJobsOf(r)
    BY OneRequest DEF RequestJobsOf
  <2>2. \A j \in RequestJobsOf(s) : state'[j] = state[j]
    BY <2>1
  <2>3. Step(s)
    BY DEF OrderInv, StepInv
  <2> QED
    BY <2>2, <2>3, StepFrame
<1>2. OrphanInv'
  BY DEF OrderInv, OrphanInv, RequestJobsOf
<1>3. WorkInv'
  <2> SUFFICES ASSUME NEW w \in Workers, phase'[w] # "idle"
               PROVE  \E s \in Requests : MayRun(s, on[w])'
    BY DEF WorkInv
  <2>1. PICK s \in Requests : MayRun(s, on[w])
    BY DEF OrderInv, WorkInv
  <2>2. s # r
    BY <2>1 DEF MayRun
  <2>3. HasSource(s) => SourceJob[s] \in Jobs /\ SourceJob[s] \in RequestJobsOf(s)
    BY RequestFacts
  <2>4. HasSource(s) => state'[SourceJob[s]] = state[SourceJob[s]]
    BY <2>2, <2>3, OneRequest
  <2> QED
    BY <2>1, <2>2, <2>4 DEF MayRun, RequestJobsOf, HasSource
<1> QED
  BY <1>1, <1>2, <1>3 DEF OrderInv

\* A job of a request that is over goes to another state, and may release the target's.
LEMMA LiveMove ==
    ASSUME SyncInv, OrderInv, OwnJobs, NEW r \in Requests, NEW j \in RequestJobsOf(r),
           request[r].pc \in Over, NEW s \in JobStates,
           state[j] \in {"draft", "enqueued", "scheduled", "processing"},
           s \in {"enqueued", "scheduled", "processing", "succeeded", "failed"},
           state'[j] = s,
           \A i \in Jobs \ {j} : state'[i] = IF i \in Released(j, s) THEN "enqueued" ELSE state[i],
           \A q \in Requests : request'[q].pc = request[q].pc,
           \A w \in Workers : phase'[w] # "idle" => phase[w] # "idle" /\ on'[w] = on[w]
    PROVE  OrderInv'
<1>1. j \in Jobs
  BY DEF RequestJobsOf
<1>2. \A i \in Released(j, s) : HasSource(r) /\ j = SourceJob[r] /\ i = TargetJob[r] /\ s \in Finished
  BY ReleasedJob
<1>3. \A i \in Jobs \ RequestJobsOf(r) : state'[i] = state[i]
  BY <1>1, <1>2, RequestFacts DEF RequestJobsOf
<1>4. Step(r)'
  <2>1. Step(r)
    BY DEF OrderInv, StepInv
  <2>2. InOrder(r)
    BY <2>1 DEF Step
  <2>3. InOrder(r)'
    <3> SUFFICES ASSUME HasSource(r), state'[TargetJob[r]] \notin {"none", "awaiting", "deleted"}
                 PROVE  state'[SourceJob[r]] \in Finished
      BY DEF InOrder, HasSource
    <3>1. CASE j = TargetJob[r]
      <4>1. state[SourceJob[r]] \in Finished
        BY <2>2, <3>1 DEF InOrder
      <4>2. SourceJob[r] \in Jobs \ {j} /\ SourceJob[r] \notin Released(j, s)
        BY <1>2, <3>1, RequestFacts
      <4> QED
        BY <4>1, <4>2
    <3>2. CASE j = SourceJob[r]
      <4>1. state[TargetJob[r]] \in {"none", "awaiting", "deleted"}
        BY <2>2, <3>2 DEF InOrder
      <4>2. TargetJob[r] \in Jobs \ {j}
        BY <3>2, RequestFacts
      <4>3. TargetJob[r] \in Released(j, s)
        BY <4>1, <4>2
      <4> QED
        BY <1>2, <3>2, <4>3
    <3> QED
      BY <1>1, <3>1, <3>2 DEF RequestJobsOf
  <2> QED
    BY <1>1, <2>3 DEF Step
<1>5. StepInv'
  <2> SUFFICES ASSUME NEW q \in Requests \ {r} PROVE Step(q)'
    BY <1>4 DEF StepInv
  <2>1. \A i \in RequestJobsOf(q) : i \in Jobs /\ i \notin RequestJobsOf(r)
    BY OneRequest DEF RequestJobsOf
  <2>2. Step(q)
    BY DEF OrderInv, StepInv
  <2> QED
    BY <1>3, <2>1, <2>2, StepFrame
<1>6. OrphanInv'
  <2>1. \A i \in Jobs : (\A q \in Requests : i \notin RequestJobsOf(q)) => state'[i] = "none"
    BY <1>3 DEF OrderInv, OrphanInv
  <2> QED
    BY <2>1 DEF OrphanInv, RequestJobsOf
<1>7. \A i \in Jobs : state[i] \in Finished => state'[i] \in Finished
  <2>1. \A i \in Released(j, s) : state[i] = "awaiting"
    BY DEF Released
  <2> QED
    BY <2>1
<1>8. WorkInv'
  BY <1>7, WorkKeeps DEF OrderInv
<1> QED
  BY <1>5, <1>6, <1>8 DEF OrderInv

-----------------------------------------------------------------------------
(* Every step keeps the order.                                              *)

LEMMA InitOrder == SyncInit => OrderInv
<1> SUFFICES ASSUME SyncInit PROVE OrderInv
  OBVIOUS
<1>1. \A j \in Jobs : state[j] = "none"
  BY DEF SyncInit, JobInit
<1>2. \A r \in Requests : request[r].pc = "start"
  BY DEF SyncInit
<1>3. StepInv
  BY <1>1, <1>2 DEF StepInv, Step, NotCreated, RequestJobsOf
<1>4. \A w \in Workers : phase[w] = "idle"
  BY DEF SyncInit, JobInit
<1> QED
  BY <1>1, <1>3, <1>4 DEF OrderInv, OrphanInv, WorkInv

\* Nothing happens to jobs or requests, and no worker takes a job.
LEMMA Still ==
    ASSUME OrderInv, UNCHANGED state, \A r \in Requests : request'[r].pc = request[r].pc,
           \A w \in Workers : phase'[w] # "idle" => phase[w] # "idle" /\ on'[w] = on[w]
    PROVE  OrderInv'
<1>1. StepInv'
  BY StepFrame DEF OrderInv, StepInv
<1>2. OrphanInv'
  BY DEF OrderInv, OrphanInv, RequestJobsOf
<1>3. WorkInv'
  BY WorkKeeps DEF OrderInv
<1> QED
  BY <1>1, <1>2, <1>3 DEF OrderInv

LEMMA RequestToPc ==
    ASSUME SyncInv, NEW r \in Requests, NEW step, RequestTo(r, step)
    PROVE  request'[r].pc = step /\ \A s \in Requests \ {r} : request'[s].pc = request[s].pc
BY DEF SyncInv, SyncTypeOK, RequestTo

\* A job of r moves, to a state that releases no other.
LEMMA OwnMove ==
    ASSUME OrderInv, OwnJobs, NEW r \in Requests, NEW j \in RequestJobsOf(r), NEW s, Move(j, s),
           j = SourceJob[r] /\ s \in Finished => state[TargetJob[r]] # "awaiting"
    PROVE  state'[j] = s /\ \A i \in Jobs \ {j} : state'[i] = state[i]
<1>1. Released(j, s) = {}
  <2> SUFFICES ASSUME NEW i \in Released(j, s) PROVE FALSE
    OBVIOUS
  <2>1. j = SourceJob[r] /\ i = TargetJob[r] /\ s \in Finished
    BY ReleasedJob
  <2> QED
    BY <2>1 DEF Released
<1> QED
  BY <1>1, MoveJob DEF RequestJobsOf

LEMMA RequestOrder ==
    ASSUME SyncInv, OrderInv, OwnJobs, NEW r \in Requests,
           RequestNext(r) \/ RequestThrows(r) \/ ContinueThrows(r)
    PROVE  OrderInv'
<1>0. Step(r)
  BY DEF OrderInv, StepInv
<1>1. CASE CreateFirst(r)
  <2>1. /\ request'[r].pc = IF HasSource(r) THEN "continue" ELSE "countTarget"
        /\ \A s \in Requests \ {r} : request'[s].pc = request[s].pc
    BY <1>1, RequestToPc DEF CreateFirst
  <2>2. state'[FirstJob(r)] = "draft" /\ \A i \in Jobs \ {FirstJob(r)} : state'[i] = state[i]
    BY <1>1, OwnMove, RequestFacts DEF CreateFirst, Schedule
  <2>3. NotCreated(r) /\ request[r].pc \notin Over
    BY <1>0, <1>1 DEF CreateFirst, Step
  <2>4. Step(r)'
    <3>1. CASE HasSource(r)
      <4>1. state'[SourceJob[r]] = "draft" /\ state'[TargetJob[r]] = "none"
        BY <2>2, <2>3, <3>1, RequestFacts DEF NotCreated, RequestJobsOf
      <4> QED
        BY <2>1, <3>1, <4>1 DEF Step, SourceDrafted, HasSource
    <3>2. CASE ~HasSource(r)
      BY <2>1, <2>2, <3>2 DEF Step, Drafted, HasSource, FirstJob
    <3> QED
      BY <3>1, <3>2
  <2> QED
    BY <1>1, <2>1, <2>2, <2>3, <2>4, RequestMoves, RequestFacts
    DEF CreateFirst, Schedule, RequestJobsOf
<1>2. CASE CreateTarget(r)
  <2>1. /\ request'[r].pc = "countTarget"
        /\ \A s \in Requests \ {r} : request'[s].pc = request[s].pc
    BY <1>2, RequestToPc DEF CreateTarget
  <2>2. SourceDrafted(r) /\ request[r].pc \notin Over
    BY <1>0, <1>2 DEF CreateTarget, Step
  <2>3. Parent[TargetJob[r]] = SourceJob[r] /\ HasSource(r) /\ TargetJob[r] # SourceJob[r]
        /\ TargetJob[r] \in RequestJobsOf(r) /\ SourceJob[r] \in Jobs
    BY <2>2, RequestFacts DEF SourceDrafted, RequestJobsOf
  <2>4. Move(TargetJob[r], "awaiting")
    BY <1>2, <2>2, <2>3 DEF CreateTarget, ContinueJobWith, SourceDrafted
  <2>5. state'[TargetJob[r]] = "awaiting" /\ \A i \in Jobs \ {TargetJob[r]} : state'[i] = state[i]
    BY <2>3, <2>4, OwnMove
  <2>6. state'[SourceJob[r]] = "draft"
    BY <2>2, <2>3, <2>5 DEF SourceDrafted
  <2>7. Step(r)'
    BY <2>1, <2>3, <2>5, <2>6 DEF Step, Drafted, HasSource, FirstJob
  <2> QED
    BY <1>2, <2>1, <2>2, <2>3, <2>5, <2>7, RequestMoves
    DEF CreateTarget, ContinueJobWith, RequestJobsOf
<1>3. CASE CountTarget(r) \/ CountSource(r) \/ RecordSource(r) \/ RecordTarget(r) \/ RequestThrows(r)
  <2>1. /\ request'[r].pc \in {"countSource", "recordSource", "recordTarget", "promote", "deleteTarget"}
        /\ \A s \in Requests \ {r} : request'[s].pc = request[s].pc
    <3>1. CASE RequestThrows(r)
      BY <3>1 DEF RequestThrows, SyncInv, SyncTypeOK
    <3> QED
      BY <1>3, <3>1, RequestToPc DEF CountTarget, CountSource, RecordSource, RecordTarget
  <2>2. UNCHANGED <<state, phase, on>>
    BY <1>3 DEF CountTarget, CountSource, RecordSource, RecordTarget, RequestThrows, jobVars
  <2>3. Drafted(r) /\ request[r].pc \notin Over
    BY <1>0, <1>3 DEF CountTarget, CountSource, RecordSource, RecordTarget, RequestThrows, Step
  <2>4. Step(r)'
    <3>1. Drafted(r)'
      BY <2>2, <2>3 DEF Drafted, HasSource, FirstJob
    <3> QED
      BY <2>1, <3>1 DEF Step
  <2> QED
    BY <2>1, <2>2, <2>3, <2>4, RequestMoves
<1>4. CASE Promote(r)
  <2>1. request'[r].pc = "done" /\ \A s \in Requests \ {r} : request'[s].pc = request[s].pc
    BY <1>4 DEF Promote, SyncInv, SyncTypeOK
  <2>2. Drafted(r) /\ request[r].pc \notin Over
    BY <1>0, <1>4 DEF Promote, Step
  <2>3. \A i \in Jobs \ {FirstJob(r)} : state'[i] = state[i]
    BY <1>4, OwnMove, RequestFacts DEF Promote, Enqueue
  <2>4. Step(r)'
    <3>1. HasSource(r) => state'[TargetJob[r]] = "awaiting"
      BY <2>2, <2>3, RequestFacts DEF Drafted
    <3> QED
      BY <2>1, <3>1 DEF Step, InOrder, HasSource
  <2> QED
    BY <1>4, <2>1, <2>2, <2>3, <2>4, RequestMoves, RequestFacts DEF Promote, Enqueue, RequestJobsOf
<1>5. CASE DeleteTarget(r)
  <2>1. /\ request'[r].pc = IF HasSource(r) THEN "deleteSource" ELSE "failed"
        /\ \A s \in Requests \ {r} : request'[s].pc = request[s].pc
    BY <1>5, RequestToPc DEF DeleteTarget
  <2>2. Drafted(r) /\ request[r].pc \notin Over
    BY <1>0, <1>5 DEF DeleteTarget, Step
  <2>3. TargetJob[r] \in RequestJobsOf(r) /\ TargetJob[r] # SourceJob[r]
    BY RequestFacts DEF RequestJobsOf, HasSource
  <2>4. state'[TargetJob[r]] = "deleted" /\ \A i \in Jobs \ {TargetJob[r]} : state'[i] = state[i]
    BY <1>5, <2>3, OwnMove DEF DeleteTarget, Delete
  <2>5. Step(r)'
    <3>1. CASE HasSource(r)
      <4>1. state'[SourceJob[r]] = "draft"
        BY <2>2, <2>3, <2>4, <3>1, RequestFacts DEF Drafted
      <4> QED
        BY <2>1, <2>4, <3>1, <4>1 DEF Step, TargetDeleted, HasSource
    <3>2. CASE ~HasSource(r)
      <4>1. AllDeleted(r)'
        BY <2>4, <3>2, RequestFacts DEF AllDeleted, RequestJobsOf
      <4> QED
        BY <2>1, <3>2, <4>1 DEF Step
    <3> QED
      BY <3>1, <3>2
  <2> QED
    BY <1>5, <2>1, <2>2, <2>3, <2>4, <2>5, RequestMoves DEF DeleteTarget, Delete, RequestJobsOf
<1>6. CASE DeleteSource(r)
  <2>1. request'[r].pc = "failed" /\ \A s \in Requests \ {r} : request'[s].pc = request[s].pc
    BY <1>6, RequestToPc DEF DeleteSource
  <2>2. TargetDeleted(r) /\ request[r].pc \notin Over
    BY <1>0, <1>6 DEF DeleteSource, Step
  <2>3. SourceJob[r] \in RequestJobsOf(r) /\ TargetJob[r] # SourceJob[r] /\ TargetJob[r] \in Jobs
    BY <2>2, RequestFacts DEF RequestJobsOf, TargetDeleted
  <2>4. state'[SourceJob[r]] = "deleted" /\ \A i \in Jobs \ {SourceJob[r]} : state'[i] = state[i]
    BY <1>6, <2>2, <2>3, OwnMove DEF DeleteSource, Delete, TargetDeleted
  <2>5. Step(r)'
    <3>1. state'[TargetJob[r]] = "deleted"
      BY <2>2, <2>3, <2>4 DEF TargetDeleted
    <3>2. AllDeleted(r)'
      BY <2>4, <3>1 DEF AllDeleted, RequestJobsOf
    <3> QED
      BY <2>1, <3>2 DEF Step
  <2> QED
    BY <1>6, <2>1, <2>2, <2>3, <2>4, <2>5, RequestMoves DEF DeleteSource, Delete, RequestJobsOf
<1>7. CASE ContinueThrows(r)
  <2>1. request'[r].pc = "abandoned" /\ \A s \in Requests \ {r} : request'[s].pc = request[s].pc
    BY <1>7 DEF ContinueThrows, SyncInv, SyncTypeOK
  <2>2. UNCHANGED <<state, phase, on>>
    BY <1>7 DEF ContinueThrows, jobVars
  <2>3. SourceDrafted(r) /\ request[r].pc \notin Over
    BY <1>0, <1>7 DEF ContinueThrows, Step
  <2>4. InOrder(r)'
    BY <2>2, <2>3 DEF SourceDrafted, InOrder, HasSource
  <2>5. Step(r)'
    BY <2>1, <2>4 DEF Step
  <2> QED
    BY <2>1, <2>2, <2>3, <2>5, RequestMoves
<1> QED
  BY <1>1, <1>2, <1>3, <1>4, <1>5, <1>6, <1>7 DEF RequestNext

\* A worker takes an entry, drops it or puts the job off.
LEMMA DeliverOrder ==
    ASSUME SyncInv, OrderInv, OwnJobs, NEW w \in Workers, NEW j \in Jobs, DeliverStep(w, j)
    PROVE  OrderInv'
<1>0. UNCHANGED request
  BY DEF DeliverStep, queueVars
<1>1. CASE DropEntry(w, j)
  BY <1>0, <1>1, Still DEF DropEntry
<1>2. CASE ReadSet(w, j)
  <2>1. PICK r \in Requests : j \in RequestJobsOf(r) /\ request[r].pc \in Over
    BY <1>2, LiveJob DEF ReadSet
  <2>2. InOrder(r)
    BY <2>1 DEF OrderInv, StepInv, Step
  <2>3. MayRun(r, j)
    BY <1>2, <2>1, <2>2 DEF MayRun, InOrder, ReadSet
  <2>4. UNCHANGED state
    BY <1>2 DEF ReadSet
  <2>5. on'[w] = j /\ \A v \in Workers \ {w} : on'[v] = on[v] /\ phase'[v] = phase[v]
    BY <1>2 DEF ReadSet, SyncInv, SyncTypeOK, JobTypeOK
  <2>6. WorkInv'
    <3> SUFFICES ASSUME NEW v \in Workers, phase'[v] # "idle"
                 PROVE  \E q \in Requests : MayRun(q, on[v])'
      BY DEF WorkInv
    <3>1. \E q \in Requests : MayRun(q, on'[v])
      BY <2>3, <2>5 DEF OrderInv, WorkInv
    <3> QED
      BY <1>0, <2>4, <3>1 DEF MayRun, RequestJobsOf, HasSource
  <2>7. StepInv' /\ OrphanInv'
    BY <1>0, <2>4, StepFrame DEF OrderInv, StepInv, OrphanInv, RequestJobsOf
  <2> QED
    BY <2>6, <2>7 DEF OrderInv
<1>3. CASE PutOff(w, j)
  <2>1. state'[j] = "scheduled" /\ \A i \in Jobs \ {j} : state'[i] = state[i]
    BY <1>3 DEF PutOff, SyncInv, SyncTypeOK, JobTypeOK
  <2>2. Released(j, "scheduled") = {}
    BY DEF Released
  <2>3. PICK r \in Requests : j \in RequestJobsOf(r) /\ request[r].pc \in Over
    BY <1>3, LiveJob DEF PutOff
  <2> QED
    BY <1>0, <1>3, <2>1, <2>2, <2>3, LiveMove DEF PutOff
<1> QED
  BY <1>1, <1>2, <1>3 DEF DeliverStep, Deliver

\* A worker's job goes on, or the worker leaves it.
LEMMA LeaveOrder ==
    ASSUME SyncInv, OrderInv, OwnJobs, NEW w \in Workers, Succeed(w) \/ Throw(w), UNCHANGED request
    PROVE  OrderInv'
<1>1. on[w] \in Jobs
  BY DEF Succeed, Throw, SyncInv, JobInv, EntryInv
<1>2. PICK s \in {"succeeded", "scheduled", "failed"} : Leave(w, s)
  BY DEF Succeed, Throw
<1>3. \A v \in Workers : phase'[v] # "idle" => phase[v] # "idle" /\ on'[v] = on[v]
  BY <1>2 DEF Leave, SyncInv, SyncTypeOK, JobTypeOK
<1>4. CASE state[on[w]] = "processing"
  <2>1. PICK r \in Requests : on[w] \in RequestJobsOf(r) /\ request[r].pc \in Over
    BY <1>1, <1>4, LiveJob
  <2> QED
    BY <1>1, <1>2, <1>3, <1>4, <2>1, MoveJob, LiveMove DEF Leave
<1>5. CASE state[on[w]] # "processing"
  BY <1>2, <1>3, <1>5, Still DEF Leave
<1> QED
  BY <1>4, <1>5

\* A body ends, with its job, or touches no job and completes no request.
LEMMA BodyMovesJob ==
    ASSUME SyncInv, NEW w \in Workers, BodyNext(w)
    PROVE  \/ (Succeed(w) \/ Throw(w)) /\ UNCHANGED request
           \/ UNCHANGED jobVars /\ \A r \in Requests : request'[r].pc = request[r].pc
<1>1. CASE Report(w)
  <2>1. \A r \in Requests : StaleRequests(Project(w))[r].pc = request[r].pc
    BY DEF StaleRequests, SyncInv, SyncTypeOK
  <2> QED
    BY <1>1, <2>1 DEF Report
<1>2. CASE InitMetrics(w) \/ LoadProject(w) \/ LoadSecret(w) \/ Work(w) \/ Complete(w)
  BY <1>2 DEF InitMetrics, LoadProject, LoadSecret, Work, Complete, Return, Escape
<1>3. CASE RemoveRunIds(w) \/ Commit(w) \/ SaveMetrics(w)
  BY <1>3 DEF RemoveRunIds, Commit, SaveMetrics, Return, Escape
<1> QED
  BY <1>1, <1>2, <1>3 DEF BodyNext

LEMMA WorkerOrder ==
    ASSUME SyncInv, OrderInv, OwnJobs, NEW w \in Workers, WorkerStep(w)
    PROVE  OrderInv'
<1>1. CASE Process(w) /\ UNCHANGED queueVars
  <2>1. on[w] \in Jobs /\ state[on[w]] \in {"enqueued", "processing"}
    BY <1>1 DEF Process, SyncInv, JobInv, EntryInv, ElectionInv
  <2>2. \A v \in Workers : phase'[v] # "idle" => phase[v] # "idle" /\ on'[v] = on[v]
    BY <1>1 DEF Process, SyncInv, SyncTypeOK, JobTypeOK
  <2>3. Move(on[w], "processing") /\ UNCHANGED request
    BY <1>1 DEF Process, queueVars
  <2>4. PICK r \in Requests : on[w] \in RequestJobsOf(r) /\ request[r].pc \in Over
    BY <2>1, LiveJob
  <2> QED
    BY <2>1, <2>2, <2>3, <2>4, MoveJob, LiveMove
<1>2. CASE StartBody(w)
  <2>1. \A v \in Workers : phase'[v] # "idle" => phase[v] # "idle" /\ on'[v] = on[v]
    BY <1>2 DEF StartBody, Begin, SyncInv, SyncTypeOK, JobTypeOK
  <2> QED
    BY <1>2, <2>1, Still DEF StartBody, Begin
<1>3. CASE BodyNext(w)
  <2>1. \/ (Succeed(w) \/ Throw(w)) /\ UNCHANGED request
        \/ UNCHANGED jobVars /\ \A r \in Requests : request'[r].pc = request[r].pc
    BY <1>3, BodyMovesJob
  <2>2. CASE (Succeed(w) \/ Throw(w)) /\ UNCHANGED request
    BY <2>2, LeaveOrder
  <2>3. CASE UNCHANGED jobVars /\ \A r \in Requests : request'[r].pc = request[r].pc
    BY <2>3, Still DEF jobVars
  <2> QED
    BY <2>1, <2>2, <2>3
<1>4. CASE AddToSet(w) /\ UNCHANGED queueVars
  <2>1. \A v \in Workers : phase'[v] # "idle" => phase[v] # "idle" /\ on'[v] = on[v]
    BY <1>4 DEF AddToSet, SyncInv, SyncTypeOK, JobTypeOK
  <2> QED
    BY <1>4, <2>1, Still DEF AddToSet, queueVars
<1> QED
  BY <1>1, <1>2, <1>3, <1>4 DEF WorkerStep

\* A restart loses the requests under way, wherever they are.
LEMMA StopOrder ==
    ASSUME SyncInv, OrderInv, OwnJobs, Stop
    PROVE  OrderInv'
<1>1. UNCHANGED state /\ \A w \in Workers : phase'[w] = "idle"
  BY DEF Stop, Restart
<1>2. ASSUME NEW r \in Requests PROVE Step(r)'
  <2>1. Step(r) /\ request[r].pc \in RequestSteps
    BY DEF OrderInv, StepInv, SyncInv, SyncTypeOK
  <2>2. CASE request[r].pc \in {"start", "done", "failed", "abandoned"}
    <3>1. request'[r].pc = request[r].pc
      BY <2>2 DEF Stop
    <3> QED
      BY <1>1, <2>1, <3>1, StepFrame
  <2>3. CASE request[r].pc \notin {"start", "done", "failed", "abandoned"}
    <3>1. request'[r].pc = "lost"
      BY <2>3 DEF Stop
    <3>2. InOrder(r)
      BY <2>1, <2>3 DEF Step, RequestSteps, SourceDrafted, Drafted, TargetDeleted, InOrder
    <3>3. InOrder(r)'
      BY <1>1, <3>2 DEF InOrder, HasSource
    <3> QED
      BY <3>1, <3>3 DEF Step
  <2> QED
    BY <2>2, <2>3
<1> QED
  BY <1>1, <1>2 DEF OrderInv, StepInv, OrphanInv, WorkInv, RequestJobsOf

\* A draft whose delay runs out has been left by its request.
LEMMA TimedJob ==
    ASSUME SyncInv, OrderInv, NEW j \in Jobs, state[j] = "draft",
           \A r \in Requests : j = FirstJob(r) => request[r].pc \in RequestEnds
    PROVE  \E r \in Requests : j \in RequestJobsOf(r) /\ request[r].pc \in Over
<1>1. PICK r \in Requests : j \in RequestJobsOf(r)
  BY DEF OrderInv, OrphanInv
<1>2. request[r].pc \in RequestSteps /\ Step(r)
  BY DEF SyncInv, SyncTypeOK, OrderInv, StepInv
<1>3. j = TargetJob[r] \/ (HasSource(r) /\ j = SourceJob[r])
  BY <1>1, RequestFacts
<1>4. request[r].pc \in Over \/ j = FirstJob(r)
  BY <1>1, <1>2, <1>3, RequestFacts
  DEF Step, NotCreated, SourceDrafted, Drafted, TargetDeleted, AllDeleted, RequestSteps
<1>5. request[r].pc # "failed"
  BY <1>1, <1>2 DEF Step, AllDeleted
<1> QED
  BY <1>1, <1>4, <1>5 DEF RequestEnds

LEMMA NextOrder ==
    ASSUME Uncancelled, OwnJobs, SyncInv, OrderInv, [SyncNext]_syncVars
    PROVE  OrderInv'
<1>1. ASSUME NEW j \in Jobs, TimerStep(j) PROVE OrderInv'
  <2>1. state[j] \in {"draft", "scheduled"} /\ Move(j, "enqueued") /\ UNCHANGED <<phase, on, request>>
    BY <1>1 DEF TimerStep, TimerFires, queueVars
  <2>2. PICK r \in Requests : j \in RequestJobsOf(r) /\ request[r].pc \in Over
    BY <1>1, <2>1, LiveJob, TimedJob DEF Uncancelled, TimerStep
  <2> QED
    BY <2>1, <2>2, MoveJob, LiveMove
<1>2. ASSUME NEW w \in Workers, SignalToken(w) PROVE OrderInv'
  BY <1>2, Still DEF SignalToken, jobVars
<1>3. CASE UNCHANGED syncVars
  BY <1>3, Still DEF syncVars, jobVars, queueVars
<1>4. ~ \E c \in Cancels : CancelNext(c)
  BY DEF Uncancelled
<1> QED
  BY <1>1, <1>2, <1>3, <1>4, RequestOrder, DeliverOrder, WorkerOrder, StopOrder DEF SyncNext

-----------------------------------------------------------------------------

\* The order holds whatever fails, restarts or is retried, for any requests and workers.
THEOREM OrderInvariance == Uncancelled /\ OwnJobs => (SyncSpec => []OrderInv)
<1> SUFFICES ASSUME Uncancelled, OwnJobs PROVE SyncSpec => []OrderInv
  OBVIOUS
<1>1. SyncInit => OrderInv
  BY InitOrder
<1>2. SyncInv /\ OrderInv /\ [SyncNext]_syncVars => OrderInv'
  BY NextOrder
<1> QED
  BY <1>1, <1>2, SyncInvariance, PTL DEF SyncSpec

\* A job belongs to one request.
LEMMA RequestIs ==
    ASSUME OwnJobs, NEW r \in Requests, NEW j \in RequestJobsOf(r)
    PROVE  RequestOf(j) = r
<1>1. \A q \in Requests : j \in {SourceJob[q], TargetJob[q]} <=> q = r
  BY OneRequest DEF RequestJobsOf
<1> QED
  BY <1>1 DEF RequestOf

\* A body runs for a request that has counted its syncs and recorded their ids (the draft jobs of
\* SyncService.SyncAsync), or for one that nothing can complete any more.
THEOREM RunsCounted == Uncancelled /\ OwnJobs => (SyncSpec => []UncountedOnlyAbandoned)
<1> SUFFICES ASSUME Uncancelled, OwnJobs PROVE SyncSpec => []UncountedOnlyAbandoned
  OBVIOUS
<1>1. SyncInv /\ OrderInv => UncountedOnlyAbandoned
  <2> SUFFICES ASSUME SyncInv, OrderInv PROVE UncountedOnlyAbandoned
    OBVIOUS
  <2> SUFFICES ASSUME NEW w \in Workers, body[w].pc # "none"
               PROVE  request[RequestOf(on[w])].pc \in {"done", "abandoned", "lost"}
    BY DEF UncountedOnlyAbandoned
  <2>1. phase[w] # "idle"
    BY DEF SyncInv, BodyInv
  <2>2. PICK r \in Requests : MayRun(r, on[w])
    BY <2>1 DEF OrderInv, WorkInv
  <2> QED
    BY <2>2, RequestIs DEF MayRun
<1> QED
  BY <1>1, OrderInvariance, SyncInvariance, PTL

\* The target's sync begins when the source's is over and is not run again (the continuation of
\* SyncService.SyncAsync), even when entries are delivered again or jobs retried.
THEOREM SourceIsFirst == Uncancelled /\ OwnJobs => (SyncSpec => []SourceFirst)
<1> SUFFICES ASSUME Uncancelled, OwnJobs PROVE SyncSpec => []SourceFirst
  OBVIOUS
<1>1. SyncInv /\ OrderInv => SourceFirst
  <2> SUFFICES ASSUME SyncInv, OrderInv PROVE SourceFirst
    OBVIOUS
  <2> SUFFICES ASSUME NEW w \in Workers, body[w].pc # "none", Parent[on[w]] # NoJob
               PROVE  state[Parent[on[w]]] \in Finished
    BY DEF SourceFirst
  <2>1. phase[w] # "idle"
    BY DEF SyncInv, BodyInv
  <2>2. PICK r \in Requests : MayRun(r, on[w])
    BY <2>1 DEF OrderInv, WorkInv
  <2>3. on[w] = TargetJob[r] \/ (HasSource(r) /\ on[w] = SourceJob[r])
    BY <2>2, RequestFacts DEF MayRun
  <2>4. on[w] = TargetJob[r] /\ HasSource(r) /\ Parent[on[w]] = SourceJob[r]
    BY <2>3, RequestFacts DEF HasSource
  <2> QED
    BY <2>2, <2>4 DEF MayRun
<1> QED
  BY <1>1, OrderInvariance, SyncInvariance, PTL

\* A request that fails leaves no job that could still run (the handler of SyncService.SyncAsync).
THEOREM FailureRunsNothing == Uncancelled /\ OwnJobs => (SyncSpec => []FailedRequestRunsNothing)
<1> SUFFICES ASSUME Uncancelled, OwnJobs PROVE SyncSpec => []FailedRequestRunsNothing
  OBVIOUS
<1>1. SyncInv /\ OrderInv => FailedRequestRunsNothing
  <2> SUFFICES ASSUME SyncInv, OrderInv, NEW r \in Requests,
                      NEW j \in {SourceJob[r], TargetJob[r]} \cap Jobs
               PROVE  /\ request[r].pc \in {"deleteTarget", "deleteSource"} =>
                            state[j] \notin {"enqueued", "scheduled", "processing", "succeeded"}
                      /\ request[r].pc = "failed" => state[j] = "deleted"
    BY DEF FailedRequestRunsNothing
  <2>1. /\ request[r].pc \in {"deleteTarget", "deleteSource"} => Drafted(r) \/ TargetDeleted(r)
        /\ request[r].pc = "failed" => AllDeleted(r)
    BY DEF OrderInv, StepInv, Step
  <2>2. j = TargetJob[r] \/ (HasSource(r) /\ j = SourceJob[r])
    BY JobsAssumption DEF HasSource
  <2> QED
    BY <2>1, <2>2, RequestFacts DEF Drafted, TargetDeleted, AllDeleted, RequestJobsOf
<1> QED
  BY <1>1, OrderInvariance, SyncInvariance, PTL

-----------------------------------------------------------------------------
(* No requested sync is lost, whatever fails, restarts or is retried.        *)

\* Where a job of a completed request can be.
OnItsWay == {"awaiting", "enqueued", "scheduled", "processing", "succeeded", "failed"}

Launched == \A r \in Requests : request[r].pc = "done" => \A j \in RequestJobsOf(r) : state[j] \in OnItsWay

LEMMA LaunchedStep ==
    ASSUME Uncancelled, OwnJobs, SyncInv, OrderInv, Launched, [SyncNext]_syncVars
    PROVE  Launched'
<1>1. ASSUME \A r \in Requests : request'[r].pc = "done" => request[r].pc = "done",
             \A j \in Jobs : state'[j] = state[j] \/ state'[j] \in OnItsWay
      PROVE  Launched'
  BY <1>1 DEF Launched, RequestJobsOf
<1>2. ASSUME NEW r \in Requests, RequestNext(r) \/ RequestThrows(r) \/ ContinueThrows(r)
      PROVE  Launched'
  <2>1. ASSUME NEW j \in RequestJobsOf(r), NEW s, Move(j, s), request[r].pc # "done",
               j = SourceJob[r] /\ s \in Finished => state[TargetJob[r]] # "awaiting",
               \A q \in Requests \ {r} : request'[q].pc = request[q].pc,
               request'[r].pc = "done" => s = "enqueued" /\ Drafted(r) /\ j = FirstJob(r)
        PROVE  Launched'
    <3>1. state'[j] = s /\ \A i \in Jobs \ {j} : state'[i] = state[i]
      BY <2>1, OwnMove
    <3>2. \A q \in Requests \ {r} : \A i \in RequestJobsOf(q) : i \in Jobs \ {j}
      BY OneRequest DEF RequestJobsOf
    <3>3. request'[r].pc = "done" => \A i \in RequestJobsOf(r) : state'[i] \in OnItsWay
      BY <2>1, <3>1, RequestFacts DEF Drafted, OnItsWay
    <3> QED
      BY <2>1, <3>1, <3>2, <3>3 DEF Launched, RequestJobsOf
  <2>2. Step(r)
    BY DEF OrderInv, StepInv
  <2>3. CASE CreateFirst(r)
    BY <2>1, <2>3, RequestToPc, RequestFacts DEF CreateFirst, Schedule
  <2>4. CASE CreateTarget(r)
    <3>1. SourceDrafted(r)
      BY <2>2, <2>4 DEF CreateTarget, Step
    <3>2. Move(TargetJob[r], "awaiting") /\ TargetJob[r] \in RequestJobsOf(r) /\ TargetJob[r] # SourceJob[r]
      BY <2>4, <3>1, RequestFacts DEF CreateTarget, ContinueJobWith, SourceDrafted, RequestJobsOf
    <3>3. request'[r].pc = "countTarget" /\ \A q \in Requests \ {r} : request'[q].pc = request[q].pc
      BY <2>4, RequestToPc DEF CreateTarget
    <3> QED
      BY <2>1, <2>4, <3>2, <3>3 DEF CreateTarget
  <2>5. CASE CountTarget(r) \/ CountSource(r) \/ RecordSource(r) \/ RecordTarget(r)
    <3>1. UNCHANGED state
      BY <2>5 DEF CountTarget, CountSource, RecordSource, RecordTarget, jobVars
    <3>2. request'[r].pc # "done" /\ \A q \in Requests \ {r} : request'[q].pc = request[q].pc
      BY <2>5, RequestToPc DEF CountTarget, CountSource, RecordSource, RecordTarget
    <3> QED
      BY <1>1, <3>1, <3>2
  <2>6. CASE RequestThrows(r) \/ ContinueThrows(r)
    <3>1. UNCHANGED state
      BY <2>6 DEF RequestThrows, ContinueThrows, jobVars
    <3>2. request'[r].pc # "done" /\ \A q \in Requests \ {r} : request'[q].pc = request[q].pc
      BY <2>6 DEF RequestThrows, ContinueThrows, SyncInv, SyncTypeOK
    <3> QED
      BY <1>1, <3>1, <3>2
  <2>7. CASE Promote(r)
    <3>1. Drafted(r)
      BY <2>2, <2>7 DEF Promote, Step
    <3>2. Move(FirstJob(r), "enqueued") /\ FirstJob(r) \in RequestJobsOf(r)
      BY <2>7, RequestFacts DEF Promote, Enqueue
    <3>3. \A q \in Requests \ {r} : request'[q].pc = request[q].pc
      BY <2>7 DEF Promote, SyncInv, SyncTypeOK
    <3> QED
      BY <2>1, <2>7, <3>1, <3>2, <3>3 DEF Promote
  <2>8. CASE DeleteTarget(r)
    <3>1. /\ Move(TargetJob[r], "deleted") /\ TargetJob[r] \in RequestJobsOf(r)
          /\ TargetJob[r] # SourceJob[r]
      BY <2>8, RequestFacts DEF DeleteTarget, Delete, RequestJobsOf, HasSource
    <3>2. request'[r].pc # "done" /\ \A q \in Requests \ {r} : request'[q].pc = request[q].pc
      BY <2>8, RequestToPc DEF DeleteTarget
    <3> QED
      BY <2>1, <2>8, <3>1, <3>2 DEF DeleteTarget
  <2>9. CASE DeleteSource(r)
    <3>1. TargetDeleted(r)
      BY <2>2, <2>9 DEF DeleteSource, Step
    <3>2. /\ Move(SourceJob[r], "deleted") /\ SourceJob[r] \in RequestJobsOf(r)
          /\ state[TargetJob[r]] # "awaiting"
      BY <2>9, <3>1, RequestFacts DEF DeleteSource, Delete, RequestJobsOf, TargetDeleted
    <3>3. request'[r].pc # "done" /\ \A q \in Requests \ {r} : request'[q].pc = request[q].pc
      BY <2>9, RequestToPc DEF DeleteSource
    <3> QED
      BY <2>1, <2>9, <3>2, <3>3 DEF DeleteSource
  <2> QED
    BY <1>2, <2>3, <2>4, <2>5, <2>6, <2>7, <2>8, <2>9 DEF RequestNext
<1>3. ASSUME NEW j \in Jobs, TimerStep(j)
      PROVE  Launched'
  BY <1>1, <1>3 DEF TimerStep, TimerFires, Move, queueVars, OnItsWay
<1>4. ASSUME NEW w \in Workers, NEW j \in Jobs, DeliverStep(w, j)
      PROVE  Launched'
  BY <1>1, <1>4 DEF DeliverStep, Deliver, DropEntry, ReadSet, PutOff, queueVars, OnItsWay,
                    SyncInv, JobInv, JobTypeOK
<1>5. ASSUME NEW w \in Workers, WorkerStep(w)
      PROVE  Launched'
  <2>1. CASE (AddToSet(w) \/ Process(w)) /\ UNCHANGED queueVars
    BY <1>1, <2>1 DEF AddToSet, Process, Move, queueVars, OnItsWay
  <2>2. CASE StartBody(w)
    BY <1>1, <2>2 DEF StartBody, Begin
  <2>3. CASE (Succeed(w) \/ Throw(w)) /\ UNCHANGED request
    <3>1. PICK s \in {"succeeded", "scheduled", "failed"} : Leave(w, s)
      BY <2>3 DEF Succeed, Throw
    <3>2. \A j \in Jobs : state'[j] = state[j] \/ state'[j] \in OnItsWay
      BY <3>1 DEF Leave, Move, OnItsWay
    <3> QED
      BY <1>1, <2>3, <3>2
  <2>4. CASE UNCHANGED jobVars /\ \A r \in Requests : request'[r].pc = request[r].pc
    BY <1>1, <2>4 DEF jobVars
  <2> QED
    BY <1>5, <2>1, <2>2, <2>3, <2>4, BodyMovesJob DEF WorkerStep
<1>6. ASSUME NEW w \in Workers, SignalToken(w)
      PROVE  Launched'
  BY <1>1, <1>6 DEF SignalToken, jobVars
<1>7. CASE Stop
  <2>1. UNCHANGED state /\ \A r \in Requests : request'[r].pc = "done" => request[r].pc = "done"
    BY <1>7 DEF Stop, Restart
  <2> QED
    BY <1>1, <2>1
<1>8. CASE UNCHANGED syncVars
  BY <1>1, <1>8 DEF syncVars, jobVars, queueVars
<1>9. ~ \E c \in Cancels : CancelNext(c)
  BY DEF Uncancelled
<1> QED
  BY <1>2, <1>3, <1>4, <1>5, <1>6, <1>7, <1>8, <1>9 DEF SyncNext

\* What a requested sync waits for: an entry in the queue or a worker, the mutex, or, for a target,
\* its source's sync; one that has failed has been tried as often as it may be.
InHand(r, j) ==
    /\ state[j] \in OnItsWay
    /\ state[j] = "enqueued" => queue[j] > 0 \/ \E w \in Workers : on[w] = j /\ phase[w] \in Electing
    /\ state[j] = "processing" => queue[j] > 0 \/ \E w \in Workers : on[w] = j
    /\ state[j] = "awaiting" => /\ HasSource(r) /\ j = TargetJob[r]
                                /\ state[SourceJob[r]] \in {"enqueued", "scheduled", "processing", "failed"}
    /\ state[j] = "failed" => retries[j] = MaxRetries

RequestedGoOn ==
    \A r \in Requests : request[r].pc = "done" => \A j \in RequestJobsOf(r) : InHand(r, j)

\* A sync that SyncService.SyncAsync has promised is never lost, whatever fails, restarts or is
\* retried: until it succeeds something is left to run it, and the sync of a project waits only for
\* one of its source that goes on too, or that AutomaticRetry has given up.
THEOREM NoSyncLost == Uncancelled /\ OwnJobs => (SyncSpec => []RequestedGoOn)
<1> SUFFICES ASSUME Uncancelled, OwnJobs PROVE SyncSpec => []RequestedGoOn
  OBVIOUS
<1>1. SyncInit => Launched
  BY DEF SyncInit, Launched
<1>2. SyncInv /\ OrderInv /\ Launched /\ [SyncNext]_syncVars => Launched'
  BY LaunchedStep
<1>3. Launched /\ NoneStranded /\ RetriedBeforeFailed => RequestedGoOn
  <2> SUFFICES ASSUME Launched, NoneStranded, RetriedBeforeFailed,
                      NEW r \in Requests, request[r].pc = "done", NEW j \in RequestJobsOf(r)
               PROVE  InHand(r, j)
    BY DEF RequestedGoOn
  <2>1. j \in Jobs /\ state[j] \in OnItsWay
    BY DEF Launched, RequestJobsOf
  <2>2. ASSUME state[j] = "awaiting"
        PROVE  /\ HasSource(r) /\ j = TargetJob[r]
               /\ state[SourceJob[r]] \in {"enqueued", "scheduled", "processing", "failed"}
    <3>1. Parent[j] \in Jobs /\ state[Parent[j]] \notin Finished
      BY <2>1, <2>2 DEF NoneStranded, ContinuationHeld
    <3>2. HasSource(r) /\ j = TargetJob[r] /\ Parent[j] = SourceJob[r] /\ SourceJob[r] \in RequestJobsOf(r)
      BY <3>1, RequestFacts, JobsAssumption DEF HasSource
    <3>3. state[SourceJob[r]] \in OnItsWay
      BY <3>2 DEF Launched
    <3>4. state[SourceJob[r]] # "awaiting"
      BY <3>2, RequestFacts, JobsAssumption DEF NoneStranded, ContinuationHeld, RequestJobsOf
    <3> QED
      BY <3>1, <3>2, <3>3, <3>4 DEF OnItsWay
  <2> QED
    BY <2>1, <2>2 DEF InHand, NoneStranded, EnqueuedServed, ProcessingServed, RetriedBeforeFailed
<1> QED
  BY <1>1, <1>2, <1>3, SyncInvariance, OrderInvariance, UsesJobs, JobsServed, RetriedToTheEnd, PTL
  DEF SyncSpec

-----------------------------------------------------------------------------
(* The count and the ids kept about a project, while no call is cancelled or *)
(* fails and no job runs twice.                                              *)

\* What makes the count or the ids wrong: a cancellation between two updates, a request or a body that
\* ends between two of its own, and a job that starts before its request is complete.  Syncs and
\* commits may fail, and workers may put jobs off.
Undisturbed ==
    /\ Cancels = {}
    /\ Faults \cap {"request", "continue", "metrics", "timer", "restart", "restartInElection"} = {}

\* Where a request is once it has counted, and once it has recorded, one of its jobs.
PastCount(r, j) == {"recordSource", "recordTarget", "promote", "done"}
                   \cup (IF j = TargetJob[r] THEN {"countSource"} ELSE {})
PastRecord(r, j) == {"promote", "done"} \cup (IF j = TargetJob[r] THEN {} ELSE {"recordTarget"})

Counted == {j \in Jobs : \E r \in Requests :
    j \in RequestJobsOf(r) /\ request[r].pc \in PastCount(r, j)}
Recorded == {j \in Jobs : \E r \in Requests :
    j \in RequestJobsOf(r) /\ request[r].pc \in PastRecord(r, j)}

\* The jobs whose ids their projects list.
Listed == {j \in Jobs : \E i \in DOMAIN jobIds[ProjectOf[j]] : jobIds[ProjectOf[j]][i] = j}

\* The jobs whose body has reported their end, or removed an id for it.
Reported == {j \in Jobs : \E w \in Workers : on[w] = j /\ body[w].pc = "metrics"}
HasRemoved(b) ==
    \/ b.pc \in {"commit", "report", "metrics"}
    \/ b.pc \in {"complete", "ids"} /\ Head(b.ids) \notin Listed
Removed == {j \in Jobs : \E w \in Workers : on[w] = j /\ HasRemoved(body[w])}

\* The syncs of a project its count stands for, and those its ids stand for.
Succeeded == {j \in Jobs : state[j] = "succeeded"}
CountedJobs(p) == (JobsOf(p) \cap Counted) \ (Succeeded \cup Reported)
OwedJobs(p) == (JobsOf(p) \cap Recorded) \ (Succeeded \cup Removed)

\* Requests go on to their end, with copies as new as the count.
CalmRequest(r) ==
    /\ request[r].pc \in {"start", "continue", "countTarget", "countSource", "recordSource",
                          "recordTarget", "promote", "done"}
    /\ request[r].stale = {}
    /\ request[r].pc = "done" =>
          \A j \in RequestJobsOf(r) :
              state[j] \in {"awaiting", "enqueued", "scheduled", "processing", "succeeded"}
CalmInv == \A r \in Requests : CalmRequest(r)

\* A job has one entry at most, in the queue or with a worker.
QueuedOnce == \A j \in Jobs :
    queue[j] # 0 => queue[j] = 1 /\ state[j] = "enqueued" /\ \A w \in Workers : on[w] # j
HeldOnce == \A v, w \in Workers : on[v] \in Jobs /\ on[v] = on[w] => v = w
HeldState == \A w \in Workers :
    on[w] \in Jobs => state[on[w]] = IF phase[w] \in Electing THEN "enqueued" ELSE "processing"
OnceInv == QueuedOnce /\ HeldOnce /\ HeldState

\* What a body read is still true: the first of the ids it read is the first there is until it is
\* removed, and never comes back.
CalmBody(w) ==
    LET b == body[w]
        ids == jobIds[Project(w)]
    IN /\ ~b.token /\ ~b.stale
       /\ b.pc \notin {"init", "load"} => b.count > 0
       /\ b.pc \notin {"init", "load", "secret"} =>
             /\ b.ids # <<>> /\ ProjectOf[Head(b.ids)] = Project(w)
             /\ Head(b.ids) \in Recorded
             /\ Head(b.ids) \in Listed => ids # <<>> /\ Head(ids) = Head(b.ids)
             /\ b.pc = "work" => Head(b.ids) \in Listed
             /\ b.pc \in {"commit", "report", "metrics"} => Head(b.ids) \notin Listed
BodiesInv == \A w \in Workers : body[w].pc # "none" => CalmBody(w)

\* The ids of a project are of its recorded jobs, each once.
IdsInv == \A p \in Projects :
    /\ \A i \in DOMAIN jobIds[p] : ProjectOf[jobIds[p][i]] = p /\ jobIds[p][i] \in Recorded
    /\ \A i, k \in DOMAIN jobIds[p] : jobIds[p][i] = jobIds[p][k] => i = k

CountInv == \A p \in Projects :
    IsFiniteSet(CountedJobs(p)) /\ queuedCount[p] = Cardinality(CountedJobs(p))
OwedInv == \A p \in Projects :
    IsFiniteSet(OwedJobs(p)) /\ Len(jobIds[p]) = Cardinality(OwedJobs(p))

LedgerInv == CalmInv /\ OnceInv /\ BodiesInv /\ IdsInv /\ CountInv /\ OwedInv

-----------------------------------------------------------------------------

\* One body at a time, of a job that was counted and recorded.
LEMMA Alone ==
    ASSUME SyncInv, NEW v \in Workers, NEW w \in Workers, body[v].pc # "none", body[w].pc # "none"
    PROVE  v = w
BY DEF SyncInv, BodyInv, JobInv, LockInv

LEMMA RunningJob ==
    ASSUME OwnJobs, SyncInv, OrderInv, CalmInv, OnceInv, NEW w \in Workers, body[w].pc # "none"
    PROVE  /\ on[w] \in Jobs /\ Project(w) \in Projects
           /\ phase[w] = "running" /\ state[on[w]] = "processing"
           /\ on[w] \in Counted /\ on[w] \in Recorded
<1>1. on[w] \in Jobs /\ Project(w) \in Projects
  BY BodyJob
<1>2. phase[w] = "running"
  BY DEF SyncInv, BodyInv
<1>3. state[on[w]] = "processing"
  BY <1>1, <1>2 DEF OnceInv, HeldState
<1>4. PICK r \in Requests : MayRun(r, on[w])
  BY <1>2 DEF OrderInv, WorkInv
<1>5. on[w] \in Counted /\ on[w] \in Recorded
  BY <1>1, <1>4 DEF MayRun, CalmInv, CalmRequest, Counted, Recorded, PastCount, PastRecord
<1> QED
  BY <1>1, <1>2, <1>3, <1>5

\* Counting and recording go by the requests' places alone.
LEMMA PastSame ==
    ASSUME \A r \in Requests : \A j \in RequestJobsOf(r) :
              /\ request'[r].pc \in PastCount(r, j) <=> request[r].pc \in PastCount(r, j)
              /\ request'[r].pc \in PastRecord(r, j) <=> request[r].pc \in PastRecord(r, j)
    PROVE  Counted' = Counted /\ Recorded' = Recorded
BY DEF Counted, Recorded, PastCount, PastRecord, RequestJobsOf

LEMMA CountKept ==
    ASSUME CountInv, queuedCount' = queuedCount, Counted' = Counted, Succeeded' = Succeeded,
           Reported' = Reported
    PROVE  CountInv'
<1>1. \A p \in Projects : CountedJobs(p)' = CountedJobs(p)
  BY DEF CountedJobs, JobsOf
<1> QED
  BY <1>1 DEF CountInv

LEMMA OwedKept ==
    ASSUME OwedInv, jobIds' = jobIds, Recorded' = Recorded, Succeeded' = Succeeded,
           Removed' = Removed
    PROVE  OwedInv'
<1>1. \A p \in Projects : OwedJobs(p)' = OwedJobs(p)
  BY DEF OwedJobs, JobsOf
<1> QED
  BY <1>1 DEF OwedInv

LEMMA IdsKept ==
    ASSUME IdsInv, jobIds' = jobIds, Recorded \subseteq Recorded'
    PROVE  IdsInv'
BY DEF IdsInv

LEMMA ListedKept ==
    ASSUME jobIds' = jobIds
    PROVE  Listed' = Listed
BY DEF Listed

\* A body that goes on, its job the same, is as calm as before.
LEMMA BodyKept ==
    ASSUME jobIds' = jobIds, Recorded \subseteq Recorded',
           NEW w \in Workers, CalmBody(w), body'[w] = body[w], on'[w] = on[w]
    PROVE  CalmBody(w)'
BY ListedKept DEF CalmBody, Project

\* What the bodies have done stays while they and the ids do.
LEMMA DoneKept ==
    ASSUME Listed' = Listed, UNCHANGED body, \A w \in Workers : body[w].pc # "none" => on'[w] = on[w]
    PROVE  Reported' = Reported /\ Removed' = Removed
<1>1. \A w \in Workers : HasRemoved(body[w])' <=> HasRemoved(body[w])
  BY DEF HasRemoved
<1>2. \A w \in Workers : body[w].pc = "metrics" \/ HasRemoved(body[w]) => on'[w] = on[w]
  BY DEF HasRemoved
<1> QED
  BY <1>1, <1>2 DEF Reported, Removed

\* What only moves jobs and requests, counting and recording nothing.
LEMMA OnlyJobs ==
    ASSUME SyncInv, LedgerInv, UNCHANGED <<queuedCount, jobIds, body>>,
           \A w \in Workers : body[w].pc # "none" => on'[w] = on[w],
           \A r \in Requests : \A j \in RequestJobsOf(r) :
              /\ request'[r].pc \in PastCount(r, j) <=> request[r].pc \in PastCount(r, j)
              /\ request'[r].pc \in PastRecord(r, j) <=> request[r].pc \in PastRecord(r, j),
           \A j \in Jobs : state'[j] = "succeeded" <=> state[j] = "succeeded"
    PROVE  BodiesInv' /\ IdsInv' /\ CountInv' /\ OwedInv'
<1>1. Counted' = Counted /\ Recorded' = Recorded
  BY PastSame
<1>2. Reported' = Reported /\ Removed' = Removed
  BY DoneKept, ListedKept
<1>3. Succeeded' = Succeeded
  BY DEF Succeeded
<1>4. BodiesInv'
  BY <1>1, BodyKept DEF LedgerInv, BodiesInv
<1> QED
  BY <1>1, <1>2, <1>3, <1>4, CountKept, OwedKept, IdsKept DEF LedgerInv

-----------------------------------------------------------------------------
(* Requests and jobs.                                                       *)

\* A job not yet to be run has no entry and no worker.
LEMMA Unheld ==
    ASSUME SyncInv, OnceInv, NEW j \in Jobs, state[j] \notin {"enqueued", "processing"}
    PROVE  queue[j] = 0 /\ \A w \in Workers : on[w] # j
<1>1. queue[j] = 0
  BY DEF OnceInv, QueuedOnce
<1>2. \A w \in Workers : on[w] # j
  BY DEF OnceInv, HeldState
<1> QED
  BY <1>1, <1>2

\* Such a job moves on towards the queue.
LEMMA OnceMove ==
    ASSUME SyncInv, OnceInv, NEW j \in Jobs, state[j] \notin {"enqueued", "processing"},
           NEW s \in {"draft", "awaiting", "enqueued"}, Move(j, s), UNCHANGED <<phase, on>>
    PROVE  OnceInv'
<1>1. queue[j] = 0 /\ \A w \in Workers : on[w] # j
  BY Unheld
<1>2. Released(j, s) = {}
  BY DEF Released
<1>3. state'[j] = s /\ \A i \in Jobs \ {j} : state'[i] = state[i]
  BY <1>2, MoveJob
<1>4. queue'[j] = (IF s = "enqueued" THEN 1 ELSE 0) /\ \A i \in Jobs \ {j} : queue'[i] = queue[i]
  BY <1>1, <1>2 DEF Move
<1>5. QueuedOnce'
  BY <1>1, <1>3, <1>4 DEF OnceInv, QueuedOnce
<1>6. HeldOnce' /\ HeldState'
  BY <1>1, <1>3 DEF OnceInv, HeldOnce, HeldState
<1> QED
  BY <1>5, <1>6 DEF OnceInv

\* A request's step touches its own jobs only.
LEMMA CalmMoves ==
    ASSUME OwnJobs, CalmInv, NEW r \in Requests, CalmRequest(r)',
           \A s \in Requests \ {r} : request'[s] = request[s],
           \A j \in Jobs \ RequestJobsOf(r) : state'[j] = state[j]
    PROVE  CalmInv'
<1> SUFFICES ASSUME NEW s \in Requests \ {r} PROVE CalmRequest(s)'
  BY DEF CalmInv
<1>1. \A j \in RequestJobsOf(s) : j \in Jobs /\ j \notin RequestJobsOf(r)
  BY OneRequest DEF RequestJobsOf
<1>2. CalmRequest(s)
  BY DEF CalmInv
<1> QED
  BY <1>1, <1>2 DEF CalmRequest, RequestJobsOf

LaunchedStates == {"awaiting", "enqueued", "scheduled", "processing", "succeeded"}

\* Jobs of completed requests go on to their end.
LEMMA CalmGoesOn ==
    ASSUME CalmInv, request' = request,
           \A j \in Jobs : state[j] \in LaunchedStates => state'[j] \in LaunchedStates
    PROVE  CalmInv'
BY DEF CalmInv, CalmRequest, RequestJobsOf, LaunchedStates

\* A request goes on to a step before its end.
LEMMA CalmTo ==
    ASSUME OwnJobs, SyncInv, CalmInv, NEW r \in Requests,
           NEW s \in {"continue", "countTarget", "countSource", "recordSource", "recordTarget",
                      "promote"},
           RequestTo(r, s),
           \A j \in Jobs \ RequestJobsOf(r) : state'[j] = state[j]
    PROVE  /\ CalmInv'
           /\ request'[r].pc = s
           /\ \A q \in Requests \ {r} : request'[q] = request[q]
<1>1. request'[r].pc = s /\ request'[r].stale = request[r].stale
      /\ \A q \in Requests \ {r} : request'[q] = request[q]
  BY DEF RequestTo, SyncInv, SyncTypeOK
<1>2. CalmRequest(r)'
  BY <1>1 DEF CalmInv, CalmRequest
<1> QED
  BY <1>1, <1>2, CalmMoves

\* Creating the jobs.
LEMMA CreateLedger ==
    ASSUME OwnJobs, SyncInv, OrderInv, LedgerInv, NEW r \in Requests,
           CreateFirst(r) \/ CreateTarget(r)
    PROVE  LedgerInv'
<1> DEFINE j == IF CreateFirst(r) THEN FirstJob(r) ELSE TargetJob[r]
           s == IF CreateFirst(r) THEN "draft" ELSE "awaiting"
           pc == IF CreateFirst(r) /\ HasSource(r) THEN "continue" ELSE "countTarget"
<1>0. Step(r)
  BY DEF OrderInv, StepInv
<1>1. j \in Jobs /\ j \in RequestJobsOf(r) /\ s \in {"draft", "awaiting"}
      /\ pc \in {"continue", "countTarget"}
  BY RequestFacts DEF RequestJobsOf
<1>2. /\ request[r].pc \in {"start", "continue"} /\ RequestTo(r, pc)
      /\ state[j] = "none" /\ Move(j, s)
      /\ UNCHANGED <<phase, on, queuedCount, jobIds, body>>
  <2>1. CASE CreateFirst(r)
    BY <2>1 DEF CreateFirst, Schedule
  <2>2. CASE ~CreateFirst(r)
    <3>1. CreateTarget(r) /\ SourceDrafted(r)
      BY <1>0, <2>2 DEF CreateTarget, Step
    <3>2. Parent[TargetJob[r]] = SourceJob[r]
      BY RequestFacts
    <3> QED
      BY <2>2, <3>1, <3>2 DEF CreateTarget, ContinueJobWith, SourceDrafted
  <2> QED
    BY <2>1, <2>2
<1> HIDE DEF j, s, pc
<1>3. Released(j, s) = {}
  BY <1>1 DEF Released
<1>4. state'[j] = s /\ \A i \in Jobs \ {j} : state'[i] = state[i]
  BY <1>1, <1>2, <1>3, MoveJob
<1>5. OnceInv'
  BY <1>1, <1>2, OnceMove DEF LedgerInv
<1>6. CalmInv' /\ request'[r].pc = pc /\ \A q \in Requests \ {r} : request'[q] = request[q]
  BY <1>1, <1>2, <1>4, CalmTo DEF LedgerInv
<1>7. \A q \in Requests : \A i \in RequestJobsOf(q) :
         /\ request'[q].pc \in PastCount(q, i) <=> request[q].pc \in PastCount(q, i)
         /\ request'[q].pc \in PastRecord(q, i) <=> request[q].pc \in PastRecord(q, i)
  BY <1>1, <1>2, <1>6 DEF PastCount, PastRecord
<1>8. \A i \in Jobs : state'[i] = "succeeded" <=> state[i] = "succeeded"
  BY <1>1, <1>2, <1>4
<1>9. BodiesInv' /\ IdsInv' /\ CountInv' /\ OwedInv'
  BY <1>2, <1>7, <1>8, OnlyJobs
<1> QED
  BY <1>5, <1>6, <1>9 DEF LedgerInv

\* The request is complete: its first job may run.
LEMMA PromoteLedger ==
    ASSUME OwnJobs, SyncInv, OrderInv, LedgerInv, NEW r \in Requests, Promote(r)
    PROVE  LedgerInv'
<1>1. Drafted(r)
  BY DEF OrderInv, StepInv, Step, Promote
<1>2. /\ FirstJob(r) \in Jobs /\ FirstJob(r) \in RequestJobsOf(r) /\ state[FirstJob(r)] = "draft"
      /\ Move(FirstJob(r), "enqueued") /\ UNCHANGED <<phase, on, queuedCount, jobIds, body>>
  BY <1>1, RequestFacts DEF Drafted, Promote, Enqueue, RequestJobsOf
<1>3. Released(FirstJob(r), "enqueued") = {}
  BY DEF Released
<1>4. state'[FirstJob(r)] = "enqueued" /\ \A i \in Jobs \ {FirstJob(r)} : state'[i] = state[i]
  BY <1>2, <1>3, MoveJob
<1>5. OnceInv'
  BY <1>2, OnceMove DEF LedgerInv
<1>6. /\ request[r].pc = "promote" /\ request'[r] = [pc |-> "done", stale |-> {}]
      /\ \A q \in Requests \ {r} : request'[q] = request[q]
  BY DEF Promote, SyncInv, SyncTypeOK
<1>7. CalmRequest(r)'
  <2>1. \A j \in RequestJobsOf(r) : state'[j] \in LaunchedStates
    BY <1>1, <1>4, RequestFacts DEF Drafted, LaunchedStates, RequestJobsOf
  <2> QED
    BY <1>6, <2>1 DEF CalmRequest, LaunchedStates, RequestJobsOf
<1>8. CalmInv'
  BY <1>2, <1>4, <1>6, <1>7, CalmMoves DEF LedgerInv
<1>9. \A q \in Requests : \A i \in RequestJobsOf(q) :
         /\ request'[q].pc \in PastCount(q, i) <=> request[q].pc \in PastCount(q, i)
         /\ request'[q].pc \in PastRecord(q, i) <=> request[q].pc \in PastRecord(q, i)
  BY <1>6 DEF PastCount, PastRecord
<1>10. \A i \in Jobs : state'[i] = "succeeded" <=> state[i] = "succeeded"
  BY <1>2, <1>4
<1>11. BodiesInv' /\ IdsInv' /\ CountInv' /\ OwedInv'
  BY <1>2, <1>9, <1>10, OnlyJobs
<1> QED
  BY <1>5, <1>8, <1>11 DEF LedgerInv

-----------------------------------------------------------------------------
(* Counting and recording.                                                  *)

LEMMA Adds ==
    ASSUME NEW S, NEW T, NEW x, IsFiniteSet(S), x \notin S, T = S \cup {x}
    PROVE  IsFiniteSet(T) /\ Cardinality(T) = Cardinality(S) + 1
BY FS_AddElement

LEMMA Takes ==
    ASSUME NEW S, NEW T, NEW x, IsFiniteSet(S), x \in S, T = S \ {x}
    PROVE  IsFiniteSet(T) /\ Cardinality(T) = Cardinality(S) - 1
BY FS_RemoveElement

\* A request passes the count, or the recording, of one job, or neither.
LEMMA PastMoves ==
    ASSUME OwnJobs, NEW r \in Requests, NEW j \in RequestJobsOf(r), j \in Jobs,
           \A q \in Requests \ {r} : request'[q] = request[q]
    PROVE  /\ (\A i \in RequestJobsOf(r) : request'[r].pc \in PastCount(r, i)
                                           <=> request[r].pc \in PastCount(r, i) \/ i = j)
              => Counted' = Counted \cup {j}
           /\ (\A i \in RequestJobsOf(r) : request'[r].pc \in PastRecord(r, i)
                                           <=> request[r].pc \in PastRecord(r, i) \/ i = j)
              => Recorded' = Recorded \cup {j}
           /\ (\A i \in RequestJobsOf(r) : request'[r].pc \in PastCount(r, i)
                                           <=> request[r].pc \in PastCount(r, i))
              => Counted' = Counted
           /\ (\A i \in RequestJobsOf(r) : request'[r].pc \in PastRecord(r, i)
                                           <=> request[r].pc \in PastRecord(r, i))
              => Recorded' = Recorded
<1>1. \A i : \A q \in Requests : PastCount(q, i)' = PastCount(q, i) /\ PastRecord(q, i)' = PastRecord(q, i)
  BY DEF PastCount, PastRecord
<1>2. \A q \in Requests : RequestJobsOf(q)' = RequestJobsOf(q)
  BY DEF RequestJobsOf
<1> QED
  BY <1>1, <1>2 DEF Counted, Recorded

\* A request that has not counted, or recorded, a job is the only one that could have.
LEMMA NotYet ==
    ASSUME OwnJobs, NEW r \in Requests, NEW j \in RequestJobsOf(r)
    PROVE  /\ request[r].pc \notin PastCount(r, j) => j \notin Counted
           /\ request[r].pc \notin PastRecord(r, j) => j \notin Recorded
<1>1. \A q \in Requests : j \in RequestJobsOf(q) => q = r
  BY OneRequest
<1> QED
  BY <1>1 DEF Counted, Recorded

\* The job of a request that is not complete has no worker and has not ended.
LEMMA Unstarted ==
    ASSUME SyncInv, OrderInv, OnceInv, NEW r \in Requests, NEW j \in RequestJobsOf(r),
           request[r].pc \in {"countTarget", "countSource", "recordSource", "recordTarget"}
    PROVE  /\ j \in Jobs /\ j \notin Succeeded /\ j \notin Reported /\ j \notin Removed
<1>1. Drafted(r)
  BY DEF OrderInv, StepInv, Step
<1>2. j \in Jobs /\ state[j] \in {"draft", "awaiting"}
  BY <1>1, RequestFacts DEF Drafted, RequestJobsOf
<1>3. \A w \in Workers : on[w] # j
  BY <1>2, Unheld
<1> QED
  BY <1>2, <1>3 DEF Succeeded, Reported, Removed

\* Requests' steps that only count or record leave the jobs alone.
LEMMA JobsAlone ==
    ASSUME OnceInv, UNCHANGED <<state, queue, phase, on>>
    PROVE  OnceInv'
BY DEF OnceInv, QueuedOnce, HeldOnce, HeldState

LEMMA CountOne ==
    ASSUME OwnJobs, SyncInv, OrderInv, LedgerInv, NEW r \in Requests,
           NEW j \in RequestJobsOf(r), j \in Jobs, NEW s,
           s \in {"countSource", "recordSource", "recordTarget"},
           request[r].pc \in {"countTarget", "countSource"},
           request[r].pc \notin PastCount(r, j),
           RequestTo(r, s), Count(r, ProjectOf[j]), UNCHANGED <<jobVars, jobIds, body>>,
           \A i \in RequestJobsOf(r) :
              /\ s \in PastCount(r, i) <=> request[r].pc \in PastCount(r, i) \/ i = j
              /\ s \in PastRecord(r, i) <=> request[r].pc \in PastRecord(r, i)
    PROVE  LedgerInv'
<1>2. UNCHANGED <<state, queue, phase, on>>
  BY DEF jobVars
<1>3. /\ CalmInv' /\ request'[r].pc = s /\ \A q \in Requests \ {r} : request'[q] = request[q]
  BY <1>2, CalmTo DEF LedgerInv
<1>4. Counted' = Counted \cup {j} /\ Recorded' = Recorded
  BY <1>3, PastMoves
<1>5. j \notin Counted
  BY NotYet
<1>6. j \notin Succeeded /\ j \notin Reported
  BY Unstarted DEF LedgerInv
<1>7. Succeeded' = Succeeded
  BY <1>2 DEF Succeeded
<1>8. Reported' = Reported /\ Removed' = Removed
  BY <1>2, DoneKept, ListedKept
<1>9. CountInv'
  <2>1. queuedCount' = [queuedCount EXCEPT ![ProjectOf[j]] = @ + 1]
    BY DEF Count, Inc, LedgerInv, CalmInv, CalmRequest
  <2>2. \A p \in Projects : CountedJobs(p)' = IF p = ProjectOf[j] THEN CountedJobs(p) \cup {j}
                                              ELSE CountedJobs(p)
    BY <1>4, <1>6, <1>7, <1>8 DEF CountedJobs, JobsOf
  <2>3. j \notin CountedJobs(ProjectOf[j])
    BY <1>5 DEF CountedJobs
  <2>4. queuedCount \in [Projects -> Int]
    BY DEF SyncInv, SyncTypeOK
  <2> SUFFICES ASSUME NEW p \in Projects
               PROVE  /\ IsFiniteSet(CountedJobs(p)')
                      /\ queuedCount'[p] = Cardinality(CountedJobs(p)')
    BY DEF CountInv
  <2>5. IsFiniteSet(CountedJobs(p)) /\ queuedCount[p] = Cardinality(CountedJobs(p))
    BY DEF LedgerInv, CountInv
  <2>6. CASE p = ProjectOf[j]
    <3>1. CountedJobs(p)' = CountedJobs(p) \cup {j} /\ j \notin CountedJobs(p)
      BY <2>2, <2>3, <2>6
    <3>2. IsFiniteSet(CountedJobs(p)') /\ Cardinality(CountedJobs(p)') = Cardinality(CountedJobs(p)) + 1
      BY <2>5, <3>1, Adds
    <3>3. queuedCount'[p] = queuedCount[p] + 1
      BY <2>1, <2>4, <2>6
    <3> QED
      BY <2>5, <3>2, <3>3
  <2>7. CASE p # ProjectOf[j]
    BY <2>1, <2>2, <2>4, <2>5, <2>7
  <2> QED
    BY <2>6, <2>7
<1>10. OwedInv' /\ IdsInv'
  BY <1>4, <1>7, <1>8, OwedKept, IdsKept DEF LedgerInv
<1>11. BodiesInv'
  BY <1>2, <1>4, BodyKept DEF LedgerInv, BodiesInv
<1>12. OnceInv'
  BY <1>2, JobsAlone DEF LedgerInv
<1> QED
  BY <1>3, <1>9, <1>10, <1>11, <1>12 DEF LedgerInv

LEMMA CountLedger ==
    ASSUME OwnJobs, SyncInv, OrderInv, LedgerInv, NEW r \in Requests,
           CountTarget(r) \/ CountSource(r)
    PROVE  LedgerInv'
<1>0. TargetJob[r] \in Jobs /\ TargetJob[r] \in RequestJobsOf(r)
  BY RequestFacts DEF RequestJobsOf
<1>1. CASE CountTarget(r)
  <2>1. request[r].pc = "countTarget" /\ UNCHANGED <<jobVars, jobIds, body>>
        /\ Count(r, ProjectOf[TargetJob[r]])
        /\ RequestTo(r, IF HasSource(r) THEN "countSource" ELSE "recordTarget")
    BY <1>1 DEF CountTarget
  <2>2. request[r].pc \notin PastCount(r, TargetJob[r])
    BY <2>1 DEF PastCount
  <2>3. CASE HasSource(r)
    <3>1. \A i \in RequestJobsOf(r) :
             /\ "countSource" \in PastCount(r, i)
                <=> request[r].pc \in PastCount(r, i) \/ i = TargetJob[r]
             /\ "countSource" \in PastRecord(r, i) <=> request[r].pc \in PastRecord(r, i)
      BY <2>1 DEF PastCount, PastRecord
    <3> QED
      BY <1>0, <2>1, <2>2, <2>3, <3>1, CountOne
  <2>4. CASE ~HasSource(r)
    <3>1. \A i \in RequestJobsOf(r) :
             /\ "recordTarget" \in PastCount(r, i)
                <=> request[r].pc \in PastCount(r, i) \/ i = TargetJob[r]
             /\ "recordTarget" \in PastRecord(r, i) <=> request[r].pc \in PastRecord(r, i)
      BY <2>1, <2>4, RequestFacts DEF PastCount, PastRecord
    <3> QED
      BY <1>0, <2>1, <2>2, <2>4, <3>1, CountOne
  <2> QED
    BY <2>3, <2>4
<1>2. CASE CountSource(r)
  <2>1. request[r].pc = "countSource" /\ UNCHANGED <<jobVars, jobIds, body>>
        /\ Count(r, ProjectOf[SourceJob[r]]) /\ RequestTo(r, "recordSource")
    BY <1>2 DEF CountSource
  <2>2. HasSource(r) /\ SourceJob[r] \in Jobs /\ SourceJob[r] \in RequestJobsOf(r)
        /\ SourceJob[r] # TargetJob[r] /\ RequestJobsOf(r) = {TargetJob[r], SourceJob[r]}
    <3>1. HasSource(r)
      BY <2>1 DEF SyncInv, RequestInv
    <3> QED
      BY <3>1, RequestFacts
  <2>3. request[r].pc \notin PastCount(r, SourceJob[r])
    BY <2>1, <2>2 DEF PastCount
  <2>4. \A i \in RequestJobsOf(r) :
           /\ "recordSource" \in PastCount(r, i)
              <=> request[r].pc \in PastCount(r, i) \/ i = SourceJob[r]
           /\ "recordSource" \in PastRecord(r, i) <=> request[r].pc \in PastRecord(r, i)
    BY <2>1, <2>2 DEF PastCount, PastRecord
  <2> QED
    BY <2>1, <2>2, <2>3, <2>4, CountOne
<1> QED
  BY <1>1, <1>2

LEMMA Appended ==
    ASSUME NEW ids \in Seq(Jobs), NEW j \in Jobs
    PROVE  /\ Append(ids, j) \in Seq(Jobs)
           /\ Len(Append(ids, j)) = Len(ids) + 1
           /\ DOMAIN Append(ids, j) = DOMAIN ids \cup {Len(ids) + 1}
           /\ \A i \in DOMAIN ids : Append(ids, j)[i] = ids[i]
           /\ Append(ids, j)[Len(ids) + 1] = j
           /\ Len(ids) + 1 \notin DOMAIN ids
           /\ ids # <<>> => Append(ids, j) # <<>> /\ Head(Append(ids, j)) = Head(ids)
<1>1. /\ Append(ids, j) \in Seq(Jobs) /\ Len(Append(ids, j)) = Len(ids) + 1
      /\ \A i \in 1 .. Len(ids) : Append(ids, j)[i] = ids[i]
      /\ Append(ids, j)[Len(ids) + 1] = j
  BY AppendProperties
<1>2. DOMAIN ids = 1 .. Len(ids) /\ Len(ids) \in Nat /\ DOMAIN Append(ids, j) = 1 .. (Len(ids) + 1)
  BY <1>1
<1>3. ASSUME ids # <<>> PROVE Append(ids, j) # <<>> /\ Head(Append(ids, j)) = Head(ids)
  <2>1. Len(ids) > 0
    BY <1>3
  <2>2. Append(ids, j)[1] = ids[1]
    BY <1>1, <1>2, <2>1
  <2>3. Head(ids) = ids[1]
    BY <1>3, HeadTailProperties
  <2>4. Append(ids, j) # <<>>
    BY <1>1, <1>2, EmptySeq
  <2>5. Head(Append(ids, j)) = Append(ids, j)[1]
    BY <1>1, <2>4, HeadTailProperties
  <2> QED
    BY <2>2, <2>3, <2>4, <2>5
<1> QED
  BY <1>1, <1>2, <1>3

\* A job's id is appended to the ids of its project: it was not there, and what was first stays so.
LEMMA RecordOne ==
    ASSUME OwnJobs, SyncInv, OrderInv, LedgerInv, NEW r \in Requests,
           NEW j \in RequestJobsOf(r), j \in Jobs, NEW s \in {"promote", "recordTarget"},
           request[r].pc \in {"recordSource", "recordTarget"},
           request[r].pc \notin PastRecord(r, j),
           RequestTo(r, s), Record(j), UNCHANGED <<jobVars, queuedCount, body>>,
           \A i \in RequestJobsOf(r) :
              /\ s \in PastRecord(r, i) <=> request[r].pc \in PastRecord(r, i) \/ i = j
              /\ s \in PastCount(r, i) <=> request[r].pc \in PastCount(r, i)
    PROVE  LedgerInv'
<1>2. UNCHANGED <<state, queue, phase, on>>
  BY DEF jobVars
<1>3. /\ CalmInv' /\ request'[r].pc = s /\ \A q \in Requests \ {r} : request'[q] = request[q]
  BY <1>2, CalmTo DEF LedgerInv
<1>4. Recorded' = Recorded \cup {j} /\ Counted' = Counted
  BY <1>3, PastMoves
<1>5. j \notin Recorded
  BY NotYet
<1>6. j \notin Succeeded /\ j \notin Removed
  BY Unstarted DEF LedgerInv
<1>7. ProjectOf[j] \in Projects /\ Succeeded' = Succeeded
  BY <1>2, ProjectsAssumption DEF Succeeded
<1> DEFINE ids == jobIds[ProjectOf[j]]
<1>8. /\ ids \in Seq(Jobs)
      /\ jobIds'[ProjectOf[j]] = Append(ids, j)
      /\ \A p \in Projects \ {ProjectOf[j]} : jobIds'[p] = jobIds[p]
  BY <1>7 DEF Record, SyncInv, SyncTypeOK
<1>9. jobIds[ProjectOf[j]] = ids
  OBVIOUS
<1> HIDE DEF ids
<1>10. Listed' = Listed \cup {j}
  <2>1. ASSUME NEW i \in Jobs
        PROVE  (\E n \in DOMAIN jobIds'[ProjectOf[i]] : jobIds'[ProjectOf[i]][n] = i)
               <=> (\E n \in DOMAIN jobIds[ProjectOf[i]] : jobIds[ProjectOf[i]][n] = i) \/ i = j
    <3>1. ProjectOf[i] \in Projects
      BY ProjectsAssumption
    <3>2. CASE ProjectOf[i] = ProjectOf[j]
      BY <1>8, <1>9, <3>2, Appended
    <3>3. CASE ProjectOf[i] # ProjectOf[j]
      BY <1>8, <3>1, <3>3
    <3> QED
      BY <3>2, <3>3
  <2> QED
    BY <2>1 DEF Listed
<1>11. ASSUME NEW w \in Workers, body[w].pc \in {"work", "complete", "ids", "commit", "report", "metrics"}
       PROVE  Head(body[w].ids) \in Recorded /\ Head(body[w].ids) # j
  <2>1. CalmBody(w)
    BY <1>11 DEF LedgerInv, BodiesInv
  <2> QED
    BY <1>5, <1>11, <2>1 DEF CalmBody
<1>12. \A w \in Workers : HasRemoved(body[w])' <=> HasRemoved(body[w])
  BY <1>10, <1>11 DEF HasRemoved
<1>13. Reported' = Reported /\ Removed' = Removed
  BY <1>2, <1>12 DEF Reported, Removed
<1>14. CountInv'
  BY <1>4, <1>7, <1>13, CountKept DEF LedgerInv
<1>15. OwedInv'
  <2>1. \A p \in Projects : OwedJobs(p)' = IF p = ProjectOf[j] THEN OwedJobs(p) \cup {j} ELSE OwedJobs(p)
    BY <1>4, <1>6, <1>7, <1>13 DEF OwedJobs, JobsOf
  <2>2. j \notin OwedJobs(ProjectOf[j])
    BY <1>5 DEF OwedJobs
  <2> SUFFICES ASSUME NEW p \in Projects
               PROVE  IsFiniteSet(OwedJobs(p)') /\ Len(jobIds'[p]) = Cardinality(OwedJobs(p)')
    BY DEF OwedInv
  <2>3. IsFiniteSet(OwedJobs(p)) /\ Len(jobIds[p]) = Cardinality(OwedJobs(p))
    BY DEF LedgerInv, OwedInv
  <2>4. CASE p = ProjectOf[j]
    <3>1. OwedJobs(p)' = OwedJobs(p) \cup {j} /\ j \notin OwedJobs(p)
      BY <2>1, <2>2, <2>4
    <3>2. IsFiniteSet(OwedJobs(p)') /\ Cardinality(OwedJobs(p)') = Cardinality(OwedJobs(p)) + 1
      BY <2>3, <3>1, Adds
    <3>3. Len(jobIds'[p]) = Len(jobIds[p]) + 1
      BY <1>8, <1>9, <2>4, Appended
    <3> QED
      BY <2>3, <3>2, <3>3
  <2>5. CASE p # ProjectOf[j]
    BY <1>8, <2>1, <2>3, <2>5
  <2> QED
    BY <2>4, <2>5
<1>16. IdsInv'
  <2> SUFFICES ASSUME NEW p \in Projects
               PROVE  /\ \A i \in DOMAIN jobIds'[p] : ProjectOf[jobIds'[p][i]] = p /\ jobIds'[p][i] \in Recorded'
                      /\ \A i, k \in DOMAIN jobIds'[p] : jobIds'[p][i] = jobIds'[p][k] => i = k
    BY DEF IdsInv
  <2>1. /\ \A i \in DOMAIN jobIds[p] : ProjectOf[jobIds[p][i]] = p /\ jobIds[p][i] \in Recorded
        /\ \A i, k \in DOMAIN jobIds[p] : jobIds[p][i] = jobIds[p][k] => i = k
    BY DEF LedgerInv, IdsInv
  <2>2. CASE p = ProjectOf[j]
    <3>1. jobIds'[p] = Append(ids, j) /\ jobIds[p] = ids
      BY <1>8, <1>9, <2>2
    <3>2. \A i \in DOMAIN ids : ids[i] # j
      BY <1>5, <2>1, <3>1
    <3>3. ids \in Seq(Jobs)
      BY <1>8
    <3> QED
      BY <1>4, <2>1, <2>2, <3>1, <3>2, <3>3, Appended
  <2>3. CASE p # ProjectOf[j]
    <3>1. jobIds'[p] = jobIds[p]
      BY <1>8, <2>3
    <3> QED
      BY <1>4, <2>1, <3>1
  <2> QED
    BY <2>2, <2>3
<1>17. BodiesInv'
  <2> SUFFICES ASSUME NEW w \in Workers, body[w].pc # "none" PROVE CalmBody(w)'
    BY DEF BodiesInv
  <2>1. CalmBody(w) /\ Project(w) \in Projects /\ Project(w)' = Project(w)
    BY <1>2, BodyJob DEF LedgerInv, BodiesInv, Project
  <2>2. CASE body[w].pc \in {"init", "load", "secret"}
    BY <2>1, <2>2 DEF CalmBody
  <2>3. CASE body[w].pc \notin {"init", "load", "secret"}
    <3>1. body[w].pc \in {"work", "complete", "ids", "commit", "report", "metrics"}
      BY <2>3 DEF SyncInv, SyncTypeOK, Bodies, BodySteps
    <3>2. Head(body[w].ids) \in Recorded' /\ (Head(body[w].ids) \in Listed' <=> Head(body[w].ids) \in Listed)
      BY <1>4, <1>10, <1>11, <3>1
    <3>3. jobIds[Project(w)] # <<>> => jobIds'[Project(w)] # <<>>
                                       /\ Head(jobIds'[Project(w)]) = Head(jobIds[Project(w)])
      BY <1>8, <1>9, <2>1, Appended
    <3> QED
      BY <2>1, <2>3, <3>2, <3>3 DEF CalmBody
  <2> QED
    BY <2>2, <2>3
<1>18. OnceInv'
  BY <1>2, JobsAlone DEF LedgerInv
<1> QED
  BY <1>3, <1>14, <1>15, <1>16, <1>17, <1>18 DEF LedgerInv

LEMMA RecordLedger ==
    ASSUME OwnJobs, SyncInv, OrderInv, LedgerInv, NEW r \in Requests,
           RecordTarget(r) \/ RecordSource(r)
    PROVE  LedgerInv'
<1>1. CASE RecordTarget(r)
  <2>1. request[r].pc = "recordTarget" /\ UNCHANGED <<jobVars, queuedCount, body>>
        /\ Record(TargetJob[r]) /\ RequestTo(r, "promote")
    BY <1>1 DEF RecordTarget
  <2>2. TargetJob[r] \in Jobs /\ TargetJob[r] \in RequestJobsOf(r)
    BY RequestFacts DEF RequestJobsOf
  <2>3. request[r].pc \notin PastRecord(r, TargetJob[r])
    BY <2>1 DEF PastRecord
  <2>4. \A i \in RequestJobsOf(r) :
           /\ "promote" \in PastRecord(r, i)
              <=> request[r].pc \in PastRecord(r, i) \/ i = TargetJob[r]
           /\ "promote" \in PastCount(r, i) <=> request[r].pc \in PastCount(r, i)
    BY <2>1 DEF PastCount, PastRecord
  <2> QED
    BY <2>1, <2>2, <2>3, <2>4, RecordOne
<1>2. CASE RecordSource(r)
  <2>1. request[r].pc = "recordSource" /\ UNCHANGED <<jobVars, queuedCount, body>>
        /\ Record(SourceJob[r]) /\ RequestTo(r, "recordTarget")
    BY <1>2 DEF RecordSource
  <2>2. HasSource(r) /\ SourceJob[r] \in Jobs /\ SourceJob[r] \in RequestJobsOf(r)
        /\ SourceJob[r] # TargetJob[r] /\ RequestJobsOf(r) = {TargetJob[r], SourceJob[r]}
    <3>1. HasSource(r)
      BY <2>1 DEF SyncInv, RequestInv
    <3> QED
      BY <3>1, RequestFacts
  <2>3. request[r].pc \notin PastRecord(r, SourceJob[r])
    BY <2>1 DEF PastRecord
  <2>4. \A i \in RequestJobsOf(r) :
           /\ "recordTarget" \in PastRecord(r, i)
              <=> request[r].pc \in PastRecord(r, i) \/ i = SourceJob[r]
           /\ "recordTarget" \in PastCount(r, i) <=> request[r].pc \in PastCount(r, i)
    BY <2>1, <2>2 DEF PastCount, PastRecord
  <2> QED
    BY <2>1, <2>2, <2>3, <2>4, RecordOne
<1> QED
  BY <1>1, <1>2

-----------------------------------------------------------------------------
(* Workers taking jobs.                                                     *)

LEMMA TimerLedger ==
    ASSUME Undisturbed, SyncInv, OrderInv, LedgerInv, NEW j \in Jobs, TimerStep(j)
    PROVE  LedgerInv'
<1>1. /\ state[j] = "scheduled" /\ Move(j, "enqueued")
      /\ UNCHANGED <<phase, on, request, queuedCount, jobIds, body>>
  <2>1. state[j] # "draft"
    <3> SUFFICES ASSUME state[j] = "draft" PROVE FALSE
      OBVIOUS
    <3>1. PICK r \in Requests : j \in RequestJobsOf(r) /\ request[r].pc \in Over
      BY TimedJob DEF Undisturbed, TimerStep
    <3> QED
      BY <3>1 DEF LedgerInv, CalmInv, CalmRequest
  <2> QED
    BY <2>1 DEF TimerStep, TimerFires, queueVars
<1>2. Released(j, "enqueued") = {}
  BY DEF Released
<1>3. state'[j] = "enqueued" /\ \A i \in Jobs \ {j} : state'[i] = state[i]
  BY <1>1, <1>2, MoveJob
<1>4. OnceInv'
  BY <1>1, OnceMove DEF LedgerInv
<1>5. CalmInv'
  BY <1>1, <1>3, CalmGoesOn DEF LedgerInv, LaunchedStates
<1>6. \A i \in Jobs : state'[i] = "succeeded" <=> state[i] = "succeeded"
  BY <1>1, <1>3
<1>7. BodiesInv' /\ IdsInv' /\ CountInv' /\ OwedInv'
  BY <1>1, <1>6, OnlyJobs
<1> QED
  BY <1>4, <1>5, <1>7 DEF LedgerInv

LEMMA DeliverLedger ==
    ASSUME SyncInv, OrderInv, LedgerInv, NEW w \in Workers, NEW j \in Jobs, DeliverStep(w, j)
    PROVE  LedgerInv'
<1>1. UNCHANGED <<request, queuedCount, jobIds, body>> /\ Deliver(w, j)
  BY DEF DeliverStep, queueVars
<1>2. phase[w] = "idle" /\ queue[j] > 0 /\ queue' = [queue EXCEPT ![j] = @ - 1]
  BY <1>1 DEF Deliver, DropEntry, ReadSet, PutOff
<1>3. queue[j] = 1 /\ state[j] = "enqueued" /\ \A v \in Workers : on[v] # j
  <2>1. queue[j] \in Nat
    BY DEF SyncInv, SyncTypeOK, JobTypeOK
  <2> QED
    BY <1>2, <2>1 DEF LedgerInv, OnceInv, QueuedOnce
<1>4. queue'[j] = 0 /\ \A i \in Jobs \ {j} : queue'[i] = queue[i]
  BY <1>2, <1>3 DEF SyncInv, SyncTypeOK, JobTypeOK
<1>5. on[w] = NoJob \/ on[w] \notin Jobs
  BY <1>2 DEF SyncInv, JobInv, EntryInv
<1>6. \A v \in Workers : body[v].pc # "none" => v # w
  BY <1>2 DEF SyncInv, BodyInv
<1>7. CASE ReadSet(w, j)
  <2>1. /\ UNCHANGED state /\ on'[w] = j /\ phase'[w] = "reading"
        /\ \A v \in Workers \ {w} : on'[v] = on[v] /\ phase'[v] = phase[v]
    BY <1>7 DEF ReadSet, SyncInv, SyncTypeOK, JobTypeOK
  <2>2. OnceInv'
    <3>1. QueuedOnce'
      BY <1>4, <2>1 DEF LedgerInv, OnceInv, QueuedOnce
    <3>2. HeldOnce'
      BY <1>3, <2>1 DEF LedgerInv, OnceInv, HeldOnce
    <3>3. HeldState'
      BY <1>3, <2>1 DEF LedgerInv, OnceInv, HeldState
    <3> QED
      BY <3>1, <3>2, <3>3 DEF OnceInv
  <2>3. CalmInv'
    BY <1>1, <2>1, CalmGoesOn DEF LedgerInv
  <2>4. BodiesInv' /\ IdsInv' /\ CountInv' /\ OwedInv'
    BY <1>1, <1>6, <2>1, OnlyJobs
  <2> QED
    BY <2>2, <2>3, <2>4 DEF LedgerInv
<1>8. CASE PutOff(w, j)
  <2>1. /\ state'[j] = "scheduled" /\ \A i \in Jobs \ {j} : state'[i] = state[i]
        /\ UNCHANGED <<on, phase>>
    BY <1>8 DEF PutOff, SyncInv, SyncTypeOK, JobTypeOK
  <2>2. OnceInv'
    <3>1. QueuedOnce'
      BY <1>4, <2>1 DEF LedgerInv, OnceInv, QueuedOnce
    <3>2. HeldOnce' /\ HeldState'
      BY <1>3, <2>1 DEF LedgerInv, OnceInv, HeldOnce, HeldState
    <3> QED
      BY <3>1, <3>2 DEF OnceInv
  <2>3. CalmInv'
    BY <1>1, <1>3, <2>1, CalmGoesOn DEF LedgerInv, LaunchedStates
  <2>4. \A i \in Jobs : state'[i] = "succeeded" <=> state[i] = "succeeded"
    BY <1>3, <2>1
  <2>5. BodiesInv' /\ IdsInv' /\ CountInv' /\ OwedInv'
    BY <1>1, <2>1, <2>4, OnlyJobs
  <2> QED
    BY <2>2, <2>3, <2>5 DEF LedgerInv
<1> QED
  BY <1>1, <1>3, <1>7, <1>8 DEF Deliver, DropEntry

LEMMA AddLedger ==
    ASSUME SyncInv, OrderInv, LedgerInv, NEW w \in Workers, AddToSet(w), UNCHANGED queueVars
    PROVE  LedgerInv'
<1>1. UNCHANGED <<state, queue, on, request, queuedCount, jobIds, body>>
  BY DEF AddToSet, queueVars
<1>2. \A v \in Workers : phase'[v] \in Electing <=> phase[v] \in Electing
  BY DEF AddToSet, SyncInv, SyncTypeOK, JobTypeOK
<1>3. OnceInv'
  BY <1>1, <1>2 DEF LedgerInv, OnceInv, QueuedOnce, HeldOnce, HeldState
<1>4. CalmInv'
  BY <1>1, CalmGoesOn DEF LedgerInv
<1>5. BodiesInv' /\ IdsInv' /\ CountInv' /\ OwedInv'
  BY <1>1, OnlyJobs
<1> QED
  BY <1>3, <1>4, <1>5 DEF LedgerInv

LEMMA ProcessLedger ==
    ASSUME SyncInv, OrderInv, LedgerInv, NEW w \in Workers, Process(w), UNCHANGED queueVars
    PROVE  LedgerInv'
<1>1. UNCHANGED <<request, queuedCount, jobIds, body, on>>
  BY DEF Process, queueVars
<1>2. on[w] \in Jobs /\ state[on[w]] = "enqueued" /\ queue[on[w]] = 0
  <2>1. on[w] \in Jobs /\ state[on[w]] = "enqueued"
    BY DEF Process, SyncInv, JobInv, EntryInv, LedgerInv, OnceInv, HeldState
  <2> QED
    BY <2>1 DEF LedgerInv, OnceInv, QueuedOnce
<1>3. Released(on[w], "processing") = {}
  BY DEF Released
<1>4. /\ state'[on[w]] = "processing" /\ \A i \in Jobs \ {on[w]} : state'[i] = state[i]
      /\ queue' = [i \in Jobs |-> queue[i]]
      /\ phase'[w] = "performing" /\ \A v \in Workers \ {w} : phase'[v] = phase[v]
  BY <1>2, <1>3, MoveJob DEF Process, Move, SyncInv, SyncTypeOK, JobTypeOK
<1>5. OnceInv'
  <2>1. QueuedOnce'
    BY <1>1, <1>2, <1>4 DEF LedgerInv, OnceInv, QueuedOnce
  <2>2. HeldOnce'
    BY <1>1 DEF LedgerInv, OnceInv, HeldOnce
  <2>3. HeldState'
    BY <1>1, <1>2, <1>4 DEF LedgerInv, OnceInv, HeldOnce, HeldState
  <2> QED
    BY <2>1, <2>2, <2>3 DEF OnceInv
<1>6. CalmInv'
  BY <1>1, <1>2, <1>4, CalmGoesOn DEF LedgerInv, LaunchedStates
<1>7. \A i \in Jobs : state'[i] = "succeeded" <=> state[i] = "succeeded"
  BY <1>2, <1>4
<1>8. BodiesInv' /\ IdsInv' /\ CountInv' /\ OwedInv'
  BY <1>1, <1>7, OnlyJobs
<1> QED
  BY <1>5, <1>6, <1>8 DEF LedgerInv

-----------------------------------------------------------------------------
(* Bodies.                                                                  *)

\* The one body there is says what has been reported and removed.
LEMMA DoneIs ==
    ASSUME SyncInv, NEW w \in Workers, body[w].pc # "none"
    PROVE  /\ Reported = IF body[w].pc = "metrics" THEN {on[w]} ELSE {}
           /\ Removed = IF HasRemoved(body[w]) THEN {on[w]} ELSE {}
<1>1. on[w] \in Jobs
  BY BodyJob
<1>2. \A v \in Workers : body[v].pc = "metrics" \/ HasRemoved(body[v]) => v = w
  BY Alone DEF HasRemoved
<1> QED
  BY <1>1, <1>2 DEF Reported, Removed

LEMMA NoneDone ==
    ASSUME \A w \in Workers : body[w].pc = "none"
    PROVE  Reported = {} /\ Removed = {}
BY DEF Reported, Removed, HasRemoved

\* A body goes on, having reported and removed what it had before.
LEMMA BodyGoesOn ==
    ASSUME SyncInv, LedgerInv, NEW w \in Workers, NEW b \in Bodies,
           body' = [body EXCEPT ![w] = b], CalmBody(w)',
           UNCHANGED <<state, queue, on, request, queuedCount, jobIds>>,
           \A v \in Workers : phase'[v] \in Electing <=> phase[v] \in Electing,
           b.pc = "metrics" <=> body[w].pc = "metrics",
           HasRemoved(b) <=> HasRemoved(body[w])
    PROVE  LedgerInv'
<1>1. body'[w] = b /\ \A v \in Workers \ {w} : body'[v] = body[v]
  BY DEF SyncInv, SyncTypeOK
<1>2. Counted' = Counted /\ Recorded' = Recorded /\ Listed' = Listed /\ Succeeded' = Succeeded
  BY PastSame, ListedKept DEF Succeeded
<1>3. \A v \in Workers : /\ body'[v].pc = "metrics" <=> body[v].pc = "metrics"
                         /\ HasRemoved(body[v])' <=> HasRemoved(body[v])
  BY <1>1, <1>2 DEF HasRemoved
<1>4. Reported' = Reported /\ Removed' = Removed
  BY <1>3 DEF Reported, Removed
<1>5. BodiesInv'
  <2> SUFFICES ASSUME NEW v \in Workers \ {w}, body'[v].pc # "none" PROVE CalmBody(v)'
    BY DEF BodiesInv
  <2> QED
    BY <1>1, <1>2, BodyKept DEF LedgerInv, BodiesInv
<1>6. CountInv' /\ OwedInv' /\ IdsInv'
  BY <1>2, <1>4, CountKept, OwedKept, IdsKept DEF LedgerInv
<1>7. CalmInv'
  BY CalmGoesOn DEF LedgerInv
<1>8. OnceInv'
  BY DEF LedgerInv, OnceInv, QueuedOnce, HeldOnce, HeldState
<1> QED
  BY <1>5, <1>6, <1>7, <1>8 DEF LedgerInv

LEMMA StartLedger ==
    ASSUME SyncInv, LedgerInv, NEW w \in Workers, StartBody(w)
    PROVE  LedgerInv'
<1> DEFINE b == [NoBody EXCEPT !.pc = "init"]
<1>1. b \in Bodies /\ b.pc = "init" /\ ~b.token /\ ~b.stale
  <2>1. NoBody \in Bodies /\ ~NoBody.token /\ ~NoBody.stale
    BY DEF NoBody, Bodies, BodySteps
  <2> QED
    BY <2>1 DEF Bodies, BodySteps
<1>2. body[w].pc = "none"
  BY DEF StartBody, Begin, SyncInv, BodyInv
<1>3. body' = [body EXCEPT ![w] = b] /\ body'[w] = b
  BY DEF StartBody, SyncInv, SyncTypeOK
<1> HIDE DEF b
<1>4. CalmBody(w)'
  BY <1>1, <1>3 DEF CalmBody
<1>5. \A v \in Workers : phase'[v] \in Electing <=> phase[v] \in Electing
  BY DEF StartBody, Begin, SyncInv, SyncTypeOK, JobTypeOK
<1>6. /\ b.pc = "metrics" <=> body[w].pc = "metrics"
      /\ HasRemoved(b) <=> HasRemoved(body[w])
  BY <1>1, <1>2 DEF HasRemoved
<1>7. UNCHANGED <<state, queue, on, request, queuedCount, jobIds>>
  BY DEF StartBody, Begin
<1> QED
  BY <1>1, <1>3, <1>4, <1>5, <1>6, <1>7, BodyGoesOn

\* A body's job is counted and owed its id until the body reports and removes one.
LEMMA CountPositive ==
    ASSUME OwnJobs, SyncInv, OrderInv, LedgerInv, NEW w \in Workers, body[w].pc = "load"
    PROVE  queuedCount[Project(w)] > 0
<1>1. on[w] \in Jobs /\ on[w] \in Counted /\ on[w] \notin Succeeded /\ Project(w) \in Projects
  BY RunningJob DEF LedgerInv, Succeeded
<1>2. Reported = {}
  BY DoneIs
<1>3. on[w] \in CountedJobs(Project(w))
  BY <1>1, <1>2 DEF CountedJobs, JobsOf, Project
<1>4. IsFiniteSet(CountedJobs(Project(w)))
      /\ queuedCount[Project(w)] = Cardinality(CountedJobs(Project(w)))
  BY <1>1 DEF LedgerInv, CountInv
<1>5. Cardinality(CountedJobs(Project(w))) \in Nat /\ Cardinality(CountedJobs(Project(w))) # 0
  BY <1>3, <1>4, FS_EmptySet, FS_CardinalityType
<1> QED
  BY <1>4, <1>5

LEMMA IdsThere ==
    ASSUME OwnJobs, SyncInv, OrderInv, LedgerInv, NEW w \in Workers, body[w].pc = "secret"
    PROVE  jobIds[Project(w)] # <<>>
<1>1. on[w] \in Jobs /\ on[w] \in Recorded /\ on[w] \notin Succeeded /\ Project(w) \in Projects
  BY RunningJob DEF LedgerInv, Succeeded
<1>2. Removed = {}
  BY DoneIs DEF HasRemoved
<1>3. on[w] \in OwedJobs(Project(w))
  BY <1>1, <1>2 DEF OwedJobs, JobsOf, Project
<1>4. IsFiniteSet(OwedJobs(Project(w))) /\ Len(jobIds[Project(w)]) = Cardinality(OwedJobs(Project(w)))
  BY <1>1 DEF LedgerInv, OwedInv
<1>5. Cardinality(OwedJobs(Project(w))) # 0
  BY <1>3, <1>4, FS_EmptySet
<1>6. jobIds[Project(w)] \in Seq(Jobs)
  BY <1>1 DEF SyncInv, SyncTypeOK
<1> QED
  BY <1>4, <1>5, <1>6, EmptySeq

\* Steps of a body that keep the count and the ids.
LEMMA InitLedger ==
    ASSUME SyncInv, LedgerInv, NEW w \in Workers, InitMetrics(w)
    PROVE  LedgerInv'
<1>1. body[w].pc = "init" /\ CalmBody(w) /\ ~body[w].token
  BY DEF InitMetrics, LedgerInv, BodiesInv, CalmBody
<1> DEFINE b == [body[w] EXCEPT !.pc = "load"]
<1>2. b \in Bodies /\ b.pc = "load" /\ b.token = body[w].token /\ b.stale = body[w].stale
  BY DEF SyncInv, SyncTypeOK, Bodies, BodySteps
<1>3. body' = [body EXCEPT ![w] = b] /\ body'[w] = b
      /\ UNCHANGED <<jobVars, request, queuedCount, jobIds>>
  BY <1>1 DEF InitMetrics, BodyTo, SyncInv, SyncTypeOK
<1> HIDE DEF b
<1>4. CalmBody(w)'
  BY <1>1, <1>2, <1>3 DEF CalmBody
<1>5. /\ b.pc = "metrics" <=> body[w].pc = "metrics"
      /\ HasRemoved(b) <=> HasRemoved(body[w])
  BY <1>1, <1>2 DEF HasRemoved
<1> QED
  BY <1>2, <1>3, <1>4, <1>5, BodyGoesOn DEF jobVars

LEMMA LoadProjectLedger ==
    ASSUME OwnJobs, SyncInv, OrderInv, LedgerInv, NEW w \in Workers, LoadProject(w)
    PROVE  LedgerInv'
<1>1. body[w].pc = "load" /\ CalmBody(w) /\ ~body[w].token
  BY DEF LoadProject, LedgerInv, BodiesInv, CalmBody
<1> DEFINE b == [body[w] EXCEPT !.pc = "secret", !.count = queuedCount[Project(w)], !.stale = FALSE]
<1>2. Project(w) \in Projects
  BY <1>1, BodyJob
<1>3. /\ b \in Bodies /\ b.pc = "secret" /\ ~b.token /\ ~b.stale
      /\ b.count = queuedCount[Project(w)] /\ b.count > 0
  BY <1>1, <1>2, CountPositive DEF SyncInv, SyncTypeOK, Bodies, BodySteps
<1>4. body' = [body EXCEPT ![w] = b] /\ body'[w] = b
      /\ UNCHANGED <<jobVars, request, queuedCount, jobIds>>
  BY <1>1 DEF LoadProject, SyncInv, SyncTypeOK
<1> HIDE DEF b
<1>5. CalmBody(w)'
  BY <1>3, <1>4 DEF CalmBody
<1>6. /\ b.pc = "metrics" <=> body[w].pc = "metrics"
      /\ HasRemoved(b) <=> HasRemoved(body[w])
  BY <1>1, <1>3 DEF HasRemoved
<1> QED
  BY <1>3, <1>4, <1>5, <1>6, BodyGoesOn DEF jobVars

LEMMA LoadSecretLedger ==
    ASSUME OwnJobs, SyncInv, OrderInv, LedgerInv, NEW w \in Workers, LoadSecret(w)
    PROVE  LedgerInv'
<1>1. body[w].pc = "secret" /\ CalmBody(w) /\ ~body[w].token /\ ~body[w].stale /\ body[w].count > 0
  BY DEF LoadSecret, LedgerInv, BodiesInv, CalmBody
<1> DEFINE ids == jobIds[Project(w)]
           b == [body[w] EXCEPT !.pc = "work", !.ids = ids, !.mids = metricsIds[Project(w)]]
<1>2. Project(w) \in Projects /\ ids \in Seq(Jobs) /\ metricsIds[Project(w)] \in SUBSET Jobs /\ ids # <<>>
  BY <1>1, BodyJob, IdsThere DEF SyncInv, SyncTypeOK
<1>3. Head(ids) = ids[1] /\ 1 \in DOMAIN ids /\ Head(ids) \in Jobs
  <2> HIDE DEF ids
  <2>1. Len(ids) > 0 /\ Len(ids) \in Nat /\ DOMAIN ids = 1 .. Len(ids)
    BY <1>2, EmptySeq
  <2> QED
    BY <1>2, <2>1, HeadTailProperties
<1>4. ProjectOf[Head(ids)] = Project(w) /\ Head(ids) \in Recorded
  BY <1>2, <1>3 DEF LedgerInv, IdsInv
<1>5. Head(ids) \in Listed
  BY <1>3, <1>4 DEF Listed
<1>6. /\ b \in Bodies /\ b.pc = "work" /\ ~b.token /\ ~b.stale /\ b.count > 0 /\ b.ids = ids
  BY <1>1, <1>2 DEF SyncInv, SyncTypeOK, Bodies, BodySteps
<1>7. body' = [body EXCEPT ![w] = b] /\ body'[w] = b
      /\ UNCHANGED <<jobVars, request, queuedCount, jobIds>>
  BY <1>1 DEF LoadSecret, SyncInv, SyncTypeOK
<1>8. jobIds[Project(w)] = ids /\ Project(w)' = Project(w)
  BY <1>7 DEF Project, jobVars
<1>9. Recorded' = Recorded /\ Listed' = Listed
  BY <1>7, PastSame, ListedKept
<1> HIDE DEF b, ids
<1>10. CalmBody(w)'
  BY <1>2, <1>4, <1>5, <1>6, <1>7, <1>8, <1>9 DEF CalmBody
<1>11. /\ b.pc = "metrics" <=> body[w].pc = "metrics"
       /\ HasRemoved(b) <=> HasRemoved(body[w])
  BY <1>1, <1>6 DEF HasRemoved
<1> QED
  BY <1>6, <1>7, <1>10, <1>11, BodyGoesOn DEF jobVars

LEMMA WorkLedger ==
    ASSUME SyncInv, LedgerInv, NEW w \in Workers, Work(w)
    PROVE  LedgerInv'
<1>1. body[w].pc = "work" /\ CalmBody(w)
  BY DEF Work, LedgerInv, BodiesInv
<1>2. PICK ok \in BOOLEAN : body' = [body EXCEPT ![w].pc = "complete", ![w].ok = ok]
  BY DEF Work
<1> DEFINE b == [body[w] EXCEPT !.pc = "complete", !.ok = ok]
<1>3. /\ b \in Bodies /\ b.pc = "complete" /\ b.token = body[w].token /\ b.stale = body[w].stale
      /\ b.count = body[w].count /\ b.ids = body[w].ids
  BY DEF SyncInv, SyncTypeOK, Bodies, BodySteps
<1>4. body' = [body EXCEPT ![w] = b] /\ body'[w] = b
      /\ UNCHANGED <<jobVars, request, queuedCount, jobIds>>
  BY <1>2 DEF Work, SyncInv, SyncTypeOK
<1>5. Recorded' = Recorded /\ Listed' = Listed /\ Project(w)' = Project(w)
  BY <1>4, PastSame, ListedKept DEF Project, jobVars
<1> HIDE DEF b
<1>6. CalmBody(w)'
  BY <1>1, <1>3, <1>4, <1>5 DEF CalmBody
<1>7. /\ b.pc = "metrics" <=> body[w].pc = "metrics"
      /\ HasRemoved(b) <=> HasRemoved(body[w])
  BY <1>1, <1>3 DEF HasRemoved, CalmBody
<1> QED
  BY <1>3, <1>4, <1>6, <1>7, BodyGoesOn DEF jobVars

LEMMA CompleteLedger ==
    ASSUME SyncInv, LedgerInv, NEW w \in Workers, Complete(w)
    PROVE  LedgerInv'
<1>1. body[w].pc = "complete" /\ CalmBody(w) /\ ~body[w].token
  BY DEF Complete, LedgerInv, BodiesInv, CalmBody
<1> DEFINE b == [body[w] EXCEPT !.pc = "ids"]
<1>2. /\ b \in Bodies /\ b.pc = "ids" /\ b.token = body[w].token /\ b.stale = body[w].stale
      /\ b.count = body[w].count /\ b.ids = body[w].ids
  BY DEF SyncInv, SyncTypeOK, Bodies, BodySteps
<1>3. body' = [body EXCEPT ![w] = b] /\ body'[w] = b
      /\ UNCHANGED <<jobVars, request, queuedCount, jobIds>>
  BY <1>1 DEF Complete, BodyTo, SyncInv, SyncTypeOK
<1>4. Recorded' = Recorded /\ Listed' = Listed /\ Project(w)' = Project(w)
  BY <1>3, PastSame, ListedKept DEF Project, jobVars
<1> HIDE DEF b
<1>5. CalmBody(w)'
  BY <1>1, <1>2, <1>3, <1>4 DEF CalmBody
<1>6. /\ b.pc = "metrics" <=> body[w].pc = "metrics"
      /\ HasRemoved(b) <=> HasRemoved(body[w])
  BY <1>1, <1>2 DEF HasRemoved
<1> QED
  BY <1>2, <1>3, <1>5, <1>6, BodyGoesOn DEF jobVars

\* A commit that fails leads back to the removal of an id, with the id gone.
LEMMA CommitLedger ==
    ASSUME SyncInv, LedgerInv, NEW w \in Workers, Commit(w)
    PROVE  LedgerInv'
<1>1. body[w].pc = "commit" /\ CalmBody(w) /\ ~body[w].stale /\ Head(body[w].ids) \notin Listed
  BY DEF Commit, LedgerInv, BodiesInv, CalmBody
<1>2. PICK b \in Bodies : /\ body' = [body EXCEPT ![w] = b] /\ b.pc \in {"report", "complete"}
                          /\ b.token = body[w].token /\ ~b.stale
                          /\ b.count = body[w].count /\ b.ids = body[w].ids
  <2> DEFINE c == [body[w] EXCEPT !.pc = "report", !.stale = @ /\ ~body[w].ok]
             d == [body[w] EXCEPT !.pc = "complete", !.ok = FALSE]
  <2>1. body' = [body EXCEPT ![w] = c] \/ body' = [body EXCEPT ![w] = d]
    BY DEF Commit, SyncInv, SyncTypeOK
  <2>2. /\ c \in Bodies /\ c.pc = "report" /\ c.token = body[w].token /\ ~c.stale
        /\ c.count = body[w].count /\ c.ids = body[w].ids
    BY <1>1 DEF SyncInv, SyncTypeOK, Bodies, BodySteps
  <2>3. /\ d \in Bodies /\ d.pc = "complete" /\ d.token = body[w].token /\ ~d.stale
        /\ d.count = body[w].count /\ d.ids = body[w].ids
    BY <1>1 DEF SyncInv, SyncTypeOK, Bodies, BodySteps
  <2> HIDE DEF c, d
  <2> QED
    BY <2>1, <2>2, <2>3
<1>3. body'[w] = b /\ UNCHANGED <<jobVars, request, queuedCount, jobIds>>
  BY <1>2 DEF Commit, SyncInv, SyncTypeOK
<1>4. Recorded' = Recorded /\ Listed' = Listed /\ Project(w)' = Project(w)
  BY <1>3, PastSame, ListedKept DEF Project, jobVars
<1>5. CalmBody(w)'
  BY <1>1, <1>2, <1>3, <1>4 DEF CalmBody
<1>6. /\ b.pc = "metrics" <=> body[w].pc = "metrics"
      /\ HasRemoved(b) <=> HasRemoved(body[w])
  BY <1>1, <1>2 DEF HasRemoved
<1> QED
  BY <1>2, <1>3, <1>5, <1>6, BodyGoesOn DEF jobVars

\* Removing the first of a list that has each id once.
LEMMA WithoutFirst ==
    ASSUME NEW ids \in Seq(Jobs), ids # <<>>,
           \A i, k \in DOMAIN ids : ids[i] = ids[k] => i = k
    PROVE  /\ Without(ids, Head(ids)) \in Seq(Jobs)
           /\ Len(Without(ids, Head(ids))) = Len(ids) - 1
           /\ \A i \in 1 .. (Len(ids) - 1) : Without(ids, Head(ids))[i] = ids[i + 1]
<1>1. Len(ids) \in Nat /\ Len(ids) > 0 /\ DOMAIN ids = 1 .. Len(ids) /\ Head(ids) = ids[1]
  BY EmptySeq, HeadTailProperties
<1> DEFINE n == CHOOSE n \in DOMAIN ids : ids[n] = Head(ids)
<1>2. 1 \in DOMAIN ids /\ ids[1] = Head(ids)
  BY <1>1
<1>3. n = 1
  BY <1>2
<1>4. Without(ids, Head(ids)) = SubSeq(ids, 1, n - 1) \o SubSeq(ids, n + 1, Len(ids))
  BY <1>2 DEF Without
<1> HIDE DEF n
<1>5. SubSeq(ids, 1, 0) = <<>>
  BY <1>1, SubSeqProperties, EmptySeq
<1>6. /\ SubSeq(ids, 2, Len(ids)) \in Seq(Jobs)
      /\ Len(SubSeq(ids, 2, Len(ids))) = Len(ids) - 1
      /\ \A i \in 1 .. (Len(ids) - 1) : SubSeq(ids, 2, Len(ids))[i] = ids[i + 1]
  BY <1>1, SubSeqProperties
<1>7. Without(ids, Head(ids)) = SubSeq(ids, 2, Len(ids))
  <2>1. n - 1 = 0 /\ n + 1 = 2
    BY <1>3
  <2>2. Without(ids, Head(ids)) = <<>> \o SubSeq(ids, 2, Len(ids))
    BY <1>4, <1>5, <2>1
  <2> QED
    BY <1>6, <2>2, ConcatEmptySeq
<1> QED
  BY <1>6, <1>7

LEMMA WithoutNone ==
    ASSUME NEW ids, NEW j, \A i \in DOMAIN ids : ids[i] # j
    PROVE  Without(ids, j) = ids
BY DEF Without

\* A body removes the first id there is, whose ever it is, or nothing the second time: the ids are one
\* less as its own job is no longer owed one.
LEMMA RemoveLedger ==
    ASSUME OwnJobs, SyncInv, OrderInv, LedgerInv, NEW w \in Workers, RemoveRunIds(w)
    PROVE  LedgerInv'
<1>1. body[w].pc = "ids" /\ CalmBody(w) /\ ~body[w].token /\ body[w].ids # <<>>
  BY DEF RemoveRunIds, LedgerInv, BodiesInv, CalmBody
<1> DEFINE h == Head(body[w].ids)
           p == Project(w)
           ids == jobIds[p]
           b == [body[w] EXCEPT !.pc = "commit"]
<1>2. /\ on[w] \in Jobs /\ p \in Projects /\ ids \in Seq(Jobs)
      /\ on[w] \in Recorded /\ on[w] \notin Succeeded /\ ProjectOf[on[w]] = p
  BY <1>1, RunningJob DEF LedgerInv, Succeeded, SyncInv, SyncTypeOK, Project
<1>3. /\ h \in Recorded /\ h \in Jobs /\ ProjectOf[h] = p
      /\ h \in Listed => ids # <<>> /\ Head(ids) = h
  BY <1>1 DEF CalmBody, Recorded
<1>4. /\ b \in Bodies /\ b.pc = "commit" /\ b.token = body[w].token /\ b.stale = body[w].stale
      /\ b.count = body[w].count /\ b.ids = body[w].ids
  BY DEF SyncInv, SyncTypeOK, Bodies, BodySteps
<1>5. /\ jobIds' = [jobIds EXCEPT ![p] = Without(@, h)]
      /\ body' = [body EXCEPT ![w] = b] /\ body'[w] = b
      /\ \A v \in Workers \ {w} : body'[v] = body[v]
      /\ UNCHANGED <<jobVars, request, queuedCount>>
  BY <1>1 DEF RemoveRunIds, BodyTo, SyncInv, SyncTypeOK
<1>6. /\ jobIds'[p] = Without(ids, h) /\ \A q \in Projects \ {p} : jobIds'[q] = jobIds[q]
  BY <1>2, <1>5 DEF SyncInv, SyncTypeOK
<1>7. Recorded' = Recorded /\ Counted' = Counted /\ Succeeded' = Succeeded /\ Project(w)' = p
  BY <1>5, PastSame DEF Project, jobVars, Succeeded
<1>8. b.pc # "metrics" /\ body[w].pc # "metrics"
  BY <1>1, <1>4
<1>9. CASE h \notin Listed
  <2>1. \A i \in DOMAIN ids : ids[i] # h
    BY <1>3, <1>9 DEF Listed
  <2>2. Without(ids, h) = ids
    BY <2>1, WithoutNone
  <2>3. jobIds' = jobIds
    BY <1>2, <1>5, <2>2 DEF SyncInv, SyncTypeOK
  <2>4. HasRemoved(b) /\ HasRemoved(body[w])
    BY <1>1, <1>4, <1>9 DEF HasRemoved
  <2>5. Listed' = Listed
    BY <2>3, ListedKept
  <2>6. CalmBody(w)'
    <3> HIDE DEF b, ids, p
    <3> QED
      BY <1>1, <1>3, <1>4, <1>5, <1>7, <1>9, <2>5 DEF CalmBody
  <2> HIDE DEF b
  <2> QED
    BY <1>4, <1>5, <1>8, <2>3, <2>4, <2>6, BodyGoesOn DEF jobVars
<1>10. CASE h \in Listed
  <2> DEFINE new == Without(ids, h)
  <2>1. ids # <<>> /\ Head(ids) = h
    BY <1>3, <1>10
  <2>2. /\ \A i \in DOMAIN ids : ProjectOf[ids[i]] = p /\ ids[i] \in Recorded
        /\ \A i, k \in DOMAIN ids : ids[i] = ids[k] => i = k
    BY <1>2 DEF LedgerInv, IdsInv
  <2>3. /\ new \in Seq(Jobs) /\ Len(new) = Len(ids) - 1
        /\ \A i \in 1 .. (Len(ids) - 1) : new[i] = ids[i + 1]
    BY <1>2, <2>1, <2>2, WithoutFirst
  <2>4. Len(ids) \in Nat /\ Len(ids) > 0 /\ DOMAIN ids = 1 .. Len(ids) /\ ids[1] = h
    <3> HIDE DEF ids
    <3> QED
      BY <1>2, <2>1, EmptySeq, HeadTailProperties
  <2>5. DOMAIN new = 1 .. (Len(ids) - 1)
    BY <2>3
  <2>6. jobIds'[p] = new
    BY <1>6
  <2> HIDE DEF new, ids, p, h, b
  <2>7. \A i : (\E n \in DOMAIN new : new[n] = i) <=> (\E n \in DOMAIN ids : ids[n] = i) /\ i # h
    <3>1. ASSUME NEW n \in DOMAIN new
          PROVE  n + 1 \in DOMAIN ids /\ new[n] = ids[n + 1] /\ ids[n + 1] # h
      <4>1. n \in 1 .. (Len(ids) - 1)
        BY <2>5, <3>1
      <4>2. n + 1 \in DOMAIN ids /\ 1 \in DOMAIN ids /\ n + 1 # 1
        BY <2>4, <4>1
      <4>3. new[n] = ids[n + 1]
        BY <2>3, <4>1
      <4> QED
        BY <2>2, <2>4, <4>2, <4>3
    <3>2. ASSUME NEW n \in DOMAIN ids, ids[n] # h
          PROVE  n - 1 \in DOMAIN new /\ new[n - 1] = ids[n]
      <4>1. n \in 1 .. Len(ids) /\ n # 1
        BY <2>4, <3>2
      <4>2. n - 1 \in 1 .. (Len(ids) - 1) /\ (n - 1) + 1 = n
        BY <2>4, <4>1
      <4> QED
        BY <2>3, <2>5, <4>2
    <3> QED
      BY <3>1, <3>2
  <2>8. Listed' = Listed \ {h}
    <3>1. ASSUME NEW i \in Jobs
          PROVE  (\E n \in DOMAIN jobIds'[ProjectOf[i]] : jobIds'[ProjectOf[i]][n] = i)
                 <=> (\E n \in DOMAIN jobIds[ProjectOf[i]] : jobIds[ProjectOf[i]][n] = i) /\ i # h
      <4>1. ProjectOf[i] \in Projects
        BY ProjectsAssumption
      <4>2. CASE ProjectOf[i] = p
        BY <2>6, <2>7, <4>2 DEF ids
      <4>3. CASE ProjectOf[i] # p
        BY <1>3, <1>6, <4>1, <4>3
      <4> QED
        BY <4>2, <4>3
    <3> QED
      BY <3>1 DEF Listed
  <2>9. CalmBody(w)'
    BY <1>1, <1>3, <1>4, <1>5, <1>7, <2>8 DEF CalmBody, h
  <2>10. BodiesInv'
    <3> SUFFICES ASSUME NEW v \in Workers, body'[v].pc # "none", v # w PROVE FALSE
      BY <2>9 DEF BodiesInv
    <3> QED
      BY <1>1, <1>5, Alone
  <2>11. Reported' = {} /\ Removed' = {on[w]} /\ Reported = {} /\ Removed = {}
    <3>1. Reported = {} /\ Removed = {}
      BY <1>1, <1>10, DoneIs DEF HasRemoved, h
    <3>2. \A v \in Workers \ {w} : body'[v].pc = "none"
      BY <1>1, <1>5, Alone
    <3>3. \A v \in Workers : HasRemoved(body[v])' <=> v = w
      BY <1>4, <1>5, <3>2 DEF HasRemoved
    <3>4. Removed' = {on[w]}
      BY <1>2, <1>5, <3>3 DEF Removed, jobVars
    <3>5. Reported' = {}
      BY <1>4, <1>5, <3>2 DEF Reported
    <3> QED
      BY <3>1, <3>4, <3>5
  <2>12. CountInv'
    BY <1>5, <1>7, <2>11, CountKept DEF LedgerInv
  <2>13. OwedInv'
    <3>1. \A q \in Projects : OwedJobs(q)' = IF q = p THEN OwedJobs(q) \ {on[w]} ELSE OwedJobs(q)
      BY <1>2, <1>7, <2>11 DEF OwedJobs, JobsOf
    <3>2. on[w] \in OwedJobs(p)
      BY <1>2, <2>11 DEF OwedJobs, JobsOf
    <3> SUFFICES ASSUME NEW q \in Projects
                 PROVE  IsFiniteSet(OwedJobs(q)') /\ Len(jobIds'[q]) = Cardinality(OwedJobs(q)')
      BY DEF OwedInv
    <3>3. IsFiniteSet(OwedJobs(q)) /\ Len(jobIds[q]) = Cardinality(OwedJobs(q))
      BY DEF LedgerInv, OwedInv
    <3>4. CASE q = p
      <4>1. OwedJobs(q)' = OwedJobs(q) \ {on[w]} /\ on[w] \in OwedJobs(q)
        BY <3>1, <3>2, <3>4
      <4>2. IsFiniteSet(OwedJobs(q)') /\ Cardinality(OwedJobs(q)') = Cardinality(OwedJobs(q)) - 1
        BY <3>3, <4>1, Takes
      <4>3. Len(jobIds'[q]) = Len(jobIds[q]) - 1
        BY <2>3, <2>6, <3>4 DEF ids
      <4> QED
        BY <3>3, <4>2, <4>3
    <3>5. CASE q # p
      BY <1>6, <3>1, <3>3, <3>5
    <3> QED
      BY <3>4, <3>5
  <2>14. IdsInv'
    <3> SUFFICES ASSUME NEW q \in Projects
                 PROVE  /\ \A i \in DOMAIN jobIds'[q] : ProjectOf[jobIds'[q][i]] = q /\ jobIds'[q][i] \in Recorded'
                        /\ \A i, k \in DOMAIN jobIds'[q] : jobIds'[q][i] = jobIds'[q][k] => i = k
      BY DEF IdsInv
    <3>1. CASE q = p
      <4>1. \A i \in DOMAIN new : i \in Int /\ i + 1 \in DOMAIN ids /\ new[i] = ids[i + 1]
        BY <2>3, <2>4, <2>5
      <4>2. \A i \in DOMAIN new : ProjectOf[new[i]] = p /\ new[i] \in Recorded
        BY <2>2, <4>1
      <4>3. ASSUME NEW i \in DOMAIN new, NEW k \in DOMAIN new, new[i] = new[k] PROVE i = k
        <5>1. i + 1 = k + 1
          BY <2>2, <4>1, <4>3
        <5> QED
          BY <4>1, <5>1
      <4> QED
        BY <1>7, <2>6, <3>1, <4>2, <4>3
    <3>2. CASE q # p
      <4>1. jobIds'[q] = jobIds[q]
        BY <1>6, <3>2
      <4> QED
        BY <1>7, <4>1 DEF LedgerInv, IdsInv
    <3> QED
      BY <3>1, <3>2
  <2>15. CalmInv'
    BY <1>5, CalmGoesOn DEF LedgerInv, jobVars
  <2>16. OnceInv'
    BY <1>5, JobsAlone DEF LedgerInv, jobVars
  <2> QED
    BY <2>10, <2>12, <2>13, <2>14, <2>15, <2>16 DEF LedgerInv
<1> QED
  BY <1>9, <1>10

\* A body reports the end of its job: the count is one less.
LEMMA ReportLedger ==
    ASSUME OwnJobs, SyncInv, OrderInv, LedgerInv, NEW w \in Workers, Report(w)
    PROVE  LedgerInv'
<1>1. body[w].pc = "report" /\ CalmBody(w) /\ ~body[w].stale /\ body[w].count > 0
      /\ body[w].count \in Int
  BY DEF Report, LedgerInv, BodiesInv, CalmBody, SyncInv, SyncTypeOK, Bodies
<1> DEFINE b == [body[w] EXCEPT !.pc = "metrics"]
           p == Project(w)
<1>2. /\ on[w] \in Jobs /\ p \in Projects /\ ProjectOf[on[w]] = p
      /\ on[w] \in Counted /\ on[w] \notin Succeeded
  BY <1>1, RunningJob DEF LedgerInv, Succeeded, Project
<1>3. /\ b \in Bodies /\ b.pc = "metrics" /\ b.token = body[w].token /\ b.stale = body[w].stale
      /\ b.count = body[w].count /\ b.ids = body[w].ids
  BY DEF SyncInv, SyncTypeOK, Bodies, BodySteps
<1>4. /\ queuedCount' = [queuedCount EXCEPT ![p] = @ - 1]
      /\ UNCHANGED <<jobVars, request, jobIds>> /\ BodyTo(w, "metrics")
  <2>1. body[w].count >= 0
    BY <1>1
  <2>2. /\ Inc(p, IF body[w].count > 0 THEN -1 ELSE 0, body[w].stale) /\ UNCHANGED request
        /\ BodyTo(w, "metrics") /\ UNCHANGED <<jobVars, jobIds>>
    BY <2>1 DEF Report
  <2>3. queuedCount' = [queuedCount EXCEPT ![p] = @ + -1]
    BY <1>1, <2>2 DEF Inc
  <2>4. queuedCount \in [Projects -> Int]
    BY DEF SyncInv, SyncTypeOK
  <2> HIDE DEF p
  <2>5. queuedCount[p] + -1 = queuedCount[p] - 1
    BY <1>2, <2>4
  <2> QED
    BY <2>2, <2>3, <2>5
<1>5. body'[w] = b /\ \A v \in Workers \ {w} : body'[v] = body[v]
  BY <1>4 DEF BodyTo, SyncInv, SyncTypeOK
<1>6. /\ Recorded' = Recorded /\ Counted' = Counted /\ Succeeded' = Succeeded /\ Listed' = Listed
      /\ Project(w)' = p
  BY <1>4, PastSame, ListedKept DEF Project, jobVars, Succeeded
<1> HIDE DEF b, p
<1>7. CalmBody(w)'
  BY <1>1, <1>3, <1>4, <1>5, <1>6 DEF CalmBody, p
<1>8. \A v \in Workers \ {w} : body'[v].pc = "none" /\ body[v].pc = "none"
  BY <1>1, <1>5, Alone
<1>9. BodiesInv'
  BY <1>7, <1>8 DEF BodiesInv
<1>10. Reported = {} /\ Reported' = {on[w]} /\ Removed' = Removed
  <2>1. Reported = {} /\ Removed = {on[w]}
    BY <1>1, DoneIs DEF HasRemoved
  <2>2. Reported' = {on[w]}
    BY <1>2, <1>3, <1>4, <1>5, <1>8 DEF Reported, jobVars
  <2>3. \A v \in Workers : HasRemoved(body[v])' <=> v = w
    BY <1>3, <1>5, <1>8 DEF HasRemoved
  <2>4. Removed' = {on[w]}
    BY <1>2, <1>4, <2>3 DEF Removed, jobVars
  <2> QED
    BY <2>1, <2>2, <2>4
<1>11. CountInv'
  <2>1. \A q \in Projects : CountedJobs(q)' = IF q = p THEN CountedJobs(q) \ {on[w]} ELSE CountedJobs(q)
    BY <1>2, <1>6, <1>10 DEF CountedJobs, JobsOf
  <2>2. on[w] \in CountedJobs(p)
    BY <1>2, <1>10 DEF CountedJobs, JobsOf
  <2>3. queuedCount \in [Projects -> Int]
    BY DEF SyncInv, SyncTypeOK
  <2> SUFFICES ASSUME NEW q \in Projects
               PROVE  /\ IsFiniteSet(CountedJobs(q)')
                      /\ queuedCount'[q] = Cardinality(CountedJobs(q)')
    BY DEF CountInv
  <2>4. IsFiniteSet(CountedJobs(q)) /\ queuedCount[q] = Cardinality(CountedJobs(q))
    BY DEF LedgerInv, CountInv
  <2>5. CASE q = p
    <3>1. CountedJobs(q)' = CountedJobs(q) \ {on[w]} /\ on[w] \in CountedJobs(q)
      BY <2>1, <2>2, <2>5
    <3>2. IsFiniteSet(CountedJobs(q)') /\ Cardinality(CountedJobs(q)') = Cardinality(CountedJobs(q)) - 1
      BY <2>4, <3>1, Takes
    <3>3. queuedCount'[q] = queuedCount[q] - 1
      BY <1>4, <2>3, <2>5
    <3> QED
      BY <2>4, <3>2, <3>3
  <2>6. CASE q # p
    BY <1>4, <2>1, <2>3, <2>4, <2>6
  <2> QED
    BY <2>5, <2>6
<1>12. OwedInv' /\ IdsInv'
  BY <1>4, <1>6, <1>10, OwedKept, IdsKept DEF LedgerInv
<1>13. CalmInv'
  BY <1>4, CalmGoesOn DEF LedgerInv, jobVars
<1>14. OnceInv'
  BY <1>4, JobsAlone DEF LedgerInv, jobVars
<1> QED
  BY <1>9, <1>11, <1>12, <1>13, <1>14 DEF LedgerInv

\* A body returns: its job has succeeded, after being reported and having its id removed, and may
\* release the target's.
LEMMA SaveLedger ==
    ASSUME Undisturbed, OwnJobs, SyncInv, OrderInv, LedgerInv, NEW w \in Workers, SaveMetrics(w)
    PROVE  LedgerInv'
<1>1. body[w].pc = "metrics" /\ ~body[w].token
  BY DEF SaveMetrics, LedgerInv, BodiesInv, CalmBody
<1>2. Return(w) /\ UNCHANGED <<queuedCount, jobIds, request>>
  BY <1>1 DEF SaveMetrics, Undisturbed
<1>3. on[w] \in Jobs /\ phase[w] = "running" /\ state[on[w]] = "processing"
  BY <1>1, RunningJob DEF LedgerInv
<1>4. /\ Move(on[w], "succeeded")
      /\ phase'[w] = "idle" /\ \A v \in Workers \ {w} : phase'[v] = phase[v]
      /\ on'[w] = NoJob /\ \A v \in Workers \ {w} : on'[v] = on[v]
      /\ body'[w] = NoBody /\ \A v \in Workers \ {w} : body'[v] = body[v]
  BY <1>2, <1>3 DEF Return, Succeed, Leave, SyncInv, SyncTypeOK, JobTypeOK
<1> DEFINE freed == Released(on[w], "succeeded")
<1>5. /\ state'[on[w]] = "succeeded"
      /\ \A i \in Jobs \ {on[w]} : state'[i] = IF i \in freed THEN "enqueued" ELSE state[i]
      /\ \A i \in freed : i \in Jobs /\ i # on[w] /\ state[i] = "awaiting"
      /\ \A i \in Jobs : queue'[i] = IF i \in freed THEN queue[i] + 1 ELSE queue[i]
  BY <1>3, <1>4, MoveJob DEF Released, Move
<1> HIDE DEF freed
<1>6. \A v \in Workers : body'[v].pc = "none"
  BY <1>1, <1>4, Alone DEF NoBody
<1>7. /\ Recorded' = Recorded /\ Counted' = Counted
      /\ Succeeded' = Succeeded \cup {on[w]}
  BY <1>2, <1>3, <1>5, PastSame DEF Succeeded
<1>8. Reported = {on[w]} /\ Removed = {on[w]} /\ Reported' = {} /\ Removed' = {}
  <2>1. Reported = {on[w]} /\ Removed = {on[w]}
    BY <1>1, DoneIs DEF HasRemoved
  <2>2. Reported' = {} /\ Removed' = {}
    BY <1>6 DEF Reported, Removed, HasRemoved
  <2> QED
    BY <2>1, <2>2
<1>9. CountInv'
  <2>1. \A p \in Projects : CountedJobs(p)' = CountedJobs(p)
    BY <1>7, <1>8 DEF CountedJobs, JobsOf
  <2> QED
    BY <1>2, <2>1 DEF LedgerInv, CountInv
<1>10. OwedInv'
  <2>1. \A p \in Projects : OwedJobs(p)' = OwedJobs(p)
    BY <1>7, <1>8 DEF OwedJobs, JobsOf
  <2> QED
    BY <1>2, <2>1 DEF LedgerInv, OwedInv
<1>11. IdsInv' /\ BodiesInv'
  BY <1>2, <1>6, <1>7, IdsKept DEF LedgerInv, BodiesInv
<1>12. CalmInv'
  BY <1>2, <1>3, <1>5, CalmGoesOn DEF LedgerInv, LaunchedStates
<1>13. OnceInv'
  <2>1. queue[on[w]] = 0
    BY <1>3 DEF LedgerInv, OnceInv, QueuedOnce
  <2>2. \A i \in freed : queue[i] = 0 /\ \A v \in Workers : on[v] # i
    BY <1>5, Unheld DEF LedgerInv
  <2>3. QueuedOnce'
    <3> SUFFICES ASSUME NEW i \in Jobs, queue'[i] # 0
                 PROVE  queue'[i] = 1 /\ state'[i] = "enqueued" /\ \A v \in Workers : on'[v] # i
      BY DEF QueuedOnce
    <3>1. CASE i \in freed
      BY <1>4, <1>5, <2>2, <3>1, JobsAssumption
    <3>2. CASE i \notin freed
      <4>1. queue[i] # 0 /\ queue'[i] = queue[i] /\ i # on[w]
        BY <1>5, <2>1, <3>2
      <4>2. queue[i] = 1 /\ state[i] = "enqueued" /\ \A v \in Workers : on[v] # i
        BY <4>1 DEF LedgerInv, OnceInv, QueuedOnce
      <4> QED
        BY <1>4, <1>5, <3>2, <4>1, <4>2, JobsAssumption
    <3> QED
      BY <3>1, <3>2
  <2>4. HeldOnce'
    BY <1>4, JobsAssumption DEF LedgerInv, OnceInv, HeldOnce
  <2>5. HeldState'
    <3> SUFFICES ASSUME NEW v \in Workers, on'[v] \in Jobs
                 PROVE  state'[on'[v]] = IF phase'[v] \in Electing THEN "enqueued" ELSE "processing"
      BY DEF HeldState
    <3>1. v # w /\ on'[v] = on[v] /\ phase'[v] = phase[v]
      BY <1>4, JobsAssumption
    <3>2. on[v] # on[w] /\ on[v] \notin freed
      BY <1>3, <2>2, <3>1 DEF LedgerInv, OnceInv, HeldOnce
    <3>3. state'[on[v]] = state[on[v]]
      BY <1>5, <3>1, <3>2
    <3> QED
      BY <3>1, <3>3 DEF LedgerInv, OnceInv, HeldState
  <2> QED
    BY <2>3, <2>4, <2>5 DEF OnceInv
<1> QED
  BY <1>9, <1>10, <1>11, <1>12, <1>13 DEF LedgerInv

\* No body's token is signalled: its job is processing, and in no other worker.
LEMMA NoSignal ==
    ASSUME OwnJobs, SyncInv, OrderInv, LedgerInv, NEW w \in Workers
    PROVE  ~SignalToken(w)
<1> SUFFICES ASSUME body[w].pc # "none"
             PROVE  /\ state[on[w]] = "processing"
                    /\ \A v \in Workers \ {w} : on[v] # on[w]
  BY DEF SignalToken
<1>1. on[w] \in Jobs /\ state[on[w]] = "processing"
  BY RunningJob DEF LedgerInv
<1> QED
  BY <1>1 DEF LedgerInv, OnceInv, HeldOnce

LEMMA InitialLedger ==
    ASSUME SyncInit
    PROVE  LedgerInv
<1>1. CalmInv /\ OnceInv /\ BodiesInv
  BY JobsAssumption
  DEF SyncInit, JobInit, CalmInv, CalmRequest, OnceInv, QueuedOnce, HeldOnce, HeldState, BodiesInv, NoBody
<1>2. Counted = {} /\ Recorded = {}
  BY DEF SyncInit, Counted, Recorded, PastCount, PastRecord
<1>3. \A p \in Projects : CountedJobs(p) = {} /\ OwedJobs(p) = {}
  BY <1>2 DEF CountedJobs, OwedJobs
<1>4. \A p \in Projects : queuedCount[p] = 0 /\ jobIds[p] = <<>>
  BY DEF SyncInit
<1>5. IsFiniteSet({}) /\ Cardinality({}) = 0 /\ Len(<<>>) = 0 /\ DOMAIN <<>> = {}
  BY FS_EmptySet, EmptySeq
<1>6. CountInv /\ OwedInv /\ IdsInv
  BY <1>3, <1>4, <1>5 DEF CountInv, OwedInv, IdsInv
<1> QED
  BY <1>1, <1>6 DEF LedgerInv

LEMMA NextLedger ==
    ASSUME Undisturbed, OwnJobs, SyncInv, OrderInv, LedgerInv, [SyncNext]_syncVars
    PROVE  LedgerInv'
<1>1. ~ \E c \in Cancels : CancelNext(c)
  BY DEF Undisturbed
<1>2. ~Stop
  BY DEF Undisturbed, Stop, Restart
<1>3. ASSUME NEW r \in Requests, RequestNext(r) \/ RequestThrows(r) \/ ContinueThrows(r)
      PROVE  LedgerInv'
  <2>1. /\ request[r].pc \notin {"deleteTarget", "deleteSource"}
        /\ ~RequestThrows(r) /\ ~ContinueThrows(r)
    BY DEF LedgerInv, CalmInv, CalmRequest, Undisturbed, RequestThrows, ContinueThrows
  <2>2. ~DeleteTarget(r) /\ ~DeleteSource(r)
    BY <2>1 DEF DeleteTarget, DeleteSource
  <2> QED
    BY <1>3, <2>1, <2>2, CreateLedger, CountLedger, RecordLedger, PromoteLedger DEF RequestNext
<1>4. ASSUME NEW w \in Workers, WorkerStep(w) PROVE LedgerInv'
  BY <1>4, AddLedger, ProcessLedger, StartLedger, InitLedger, LoadProjectLedger, LoadSecretLedger, WorkLedger,
     CompleteLedger, RemoveLedger, CommitLedger, ReportLedger, SaveLedger
  DEF WorkerStep, BodyNext
<1>5. CASE UNCHANGED syncVars
  <2>1. UNCHANGED <<state, queue, phase, on, queuedCount, jobIds, request, body>>
    BY <1>5 DEF syncVars, jobVars, queueVars
  <2>2. BodiesInv' /\ IdsInv' /\ CountInv' /\ OwedInv'
    BY <2>1, OnlyJobs
  <2>3. CalmInv' /\ OnceInv'
    BY <2>1, CalmGoesOn, JobsAlone DEF LedgerInv
  <2> QED
    BY <2>2, <2>3 DEF LedgerInv
<1> QED
  BY <1>1, <1>2, <1>3, <1>4, <1>5, TimerLedger, DeliverLedger, NoSignal DEF SyncNext

\* The count and the ids are exact at every step, for any requests, workers and failing syncs.
THEOREM LedgerInvariance == Undisturbed /\ OwnJobs => (SyncSpec => []LedgerInv)
<1> SUFFICES ASSUME Undisturbed, OwnJobs PROVE SyncSpec => []LedgerInv
  OBVIOUS
<1>1. SyncInit => LedgerInv
  BY InitialLedger
<1>2. SyncInv /\ OrderInv /\ LedgerInv /\ [SyncNext]_syncVars => LedgerInv'
  BY NextLedger
<1>3. Uncancelled
  BY DEF Undisturbed, Uncancelled
<1>4. SyncSpec => []OrderInv
  BY <1>3, OrderInvariance
<1> QED
  BY <1>1, <1>2, <1>4, SyncInvariance, PTL DEF SyncSpec

\* At rest the queued count, the job ids and the syncs that have not ended are as many ("Count should
\* correspond to Sync.QueuedCount", SFProjectSecret.JobIds), though each was updated on its own.
THEOREM IdsAndCountAgree == Undisturbed /\ OwnJobs => (SyncSpec => []IdsMatchCount)
<1> SUFFICES ASSUME Undisturbed, OwnJobs PROVE SyncSpec => []IdsMatchCount
  OBVIOUS
<1>1. SyncInv /\ OrderInv /\ LedgerInv => IdsMatchCount
  <2> SUFFICES ASSUME SyncInv, OrderInv, LedgerInv, AtRest, NEW p \in Projects
               PROVE  /\ queuedCount[p] = Cardinality(JobsOf(p) \cap Pending)
                      /\ Len(jobIds[p]) = queuedCount[p]
    BY DEF IdsMatchCount
  <2>1. Reported = {} /\ Removed = {}
    BY NoneDone DEF AtRest
  <2>2. \A r \in Requests : request[r].pc \in {"start", "done"} /\ CalmRequest(r) /\ Step(r)
    BY DEF AtRest, RequestEnds, LedgerInv, CalmInv, CalmRequest, OrderInv, StepInv
  <2>3. \A j \in Jobs : /\ j \in Pending <=> j \in Counted /\ j \notin Succeeded
                        /\ j \in Counted <=> j \in Recorded
    <3> SUFFICES ASSUME NEW j \in Jobs
                 PROVE  /\ j \in Pending <=> j \in Counted /\ j \notin Succeeded
                        /\ j \in Counted <=> j \in Recorded
      OBVIOUS
    <3>1. CASE \A r \in Requests : j \notin RequestJobsOf(r)
      <4>1. state[j] = "none"
        BY <3>1 DEF OrderInv, OrphanInv
      <4> QED
        BY <3>1, <4>1 DEF Counted, Recorded, Pending
    <3>2. CASE \E r \in Requests : j \in RequestJobsOf(r)
      <4>1. PICK r \in Requests : j \in RequestJobsOf(r)
        BY <3>2
      <4>2. /\ j \in Counted <=> request[r].pc \in PastCount(r, j)
            /\ j \in Recorded <=> request[r].pc \in PastRecord(r, j)
        BY <4>1, NotYet DEF Counted, Recorded
      <4>3. CASE request[r].pc = "start"
        <5>1. state[j] = "none"
          BY <2>2, <4>1, <4>3 DEF Step, NotCreated
        <5> QED
          BY <4>2, <4>3, <5>1 DEF PastCount, PastRecord, Pending
      <4>4. CASE request[r].pc = "done"
        <5>1. state[j] \in {"awaiting", "enqueued", "scheduled", "processing", "succeeded"}
          BY <2>2, <4>1, <4>4 DEF CalmRequest
        <5> QED
          BY <4>2, <4>4, <5>1 DEF PastCount, PastRecord, Pending, Succeeded
      <4> QED
        BY <2>2, <4>3, <4>4
    <3> QED
      BY <3>1, <3>2
  <2>4. CountedJobs(p) = JobsOf(p) \cap Pending /\ OwedJobs(p) = CountedJobs(p)
    BY <2>1, <2>3 DEF CountedJobs, OwedJobs, JobsOf, Pending
  <2> QED
    BY <2>4 DEF LedgerInv, CountInv, OwedInv
<1>2. Uncancelled
  BY DEF Undisturbed, Uncancelled
<1>3. SyncSpec => []OrderInv
  BY <1>2, OrderInvariance
<1> QED
  BY <1>1, <1>3, LedgerInvariance, SyncInvariance, PTL

\* A requested sync that has not reported its end is counted, whatever other syncs of its project do
\* meanwhile (Sync.QueuedCount, by which clients show that a sync is under way).
THEOREM PendingIsShown == Undisturbed /\ OwnJobs => (SyncSpec => []ShownWhilePending)
<1> SUFFICES ASSUME Undisturbed, OwnJobs PROVE SyncSpec => []ShownWhilePending
  OBVIOUS
<1>1. SyncInv /\ OrderInv /\ LedgerInv => ShownWhilePending
  <2> SUFFICES ASSUME SyncInv, OrderInv, LedgerInv, NEW j \in Pending,
                      request[RequestOf(j)].pc = "done",
                      ~(\E w \in Workers : on[w] = j /\ body[w].pc = "metrics")
               PROVE  queuedCount[ProjectOf[j]] > 0
    BY DEF ShownWhilePending
  <2>1. j \in Jobs /\ j \notin Succeeded /\ state[j] # "none" /\ ProjectOf[j] \in Projects
    BY ProjectsAssumption DEF Pending, Succeeded
  <2>2. PICK r \in Requests : j \in RequestJobsOf(r)
    BY <2>1 DEF OrderInv, OrphanInv
  <2>3. j \in Counted
    BY <2>1, <2>2, RequestIs DEF Counted, PastCount
  <2>4. j \in CountedJobs(ProjectOf[j])
    BY <2>1, <2>3 DEF CountedJobs, JobsOf, Reported
  <2>5. IsFiniteSet(CountedJobs(ProjectOf[j]))
        /\ queuedCount[ProjectOf[j]] = Cardinality(CountedJobs(ProjectOf[j]))
    BY <2>1 DEF LedgerInv, CountInv
  <2>6. Cardinality(CountedJobs(ProjectOf[j])) \in Nat /\ Cardinality(CountedJobs(ProjectOf[j])) # 0
    BY <2>4, <2>5, FS_EmptySet, FS_CardinalityType
  <2> QED
    BY <2>5, <2>6
<1>2. Uncancelled
  BY DEF Undisturbed, Uncancelled
<1>3. SyncSpec => []OrderInv
  BY <1>2, OrderInvariance
<1> QED
  BY <1>1, <1>3, LedgerInvariance, SyncInvariance, PTL
=============================================================================
