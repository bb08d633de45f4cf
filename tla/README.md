# Scripture Forge: specifications, model checking and proofs

Scripture Forge lets teams translate and check Scripture in a browser, on line and off line, and
keeps each project in step with Paratext through Paratext's send/receive server. This directory
models the parts of it where a mistake costs users their work and a unit test would hardly find it:
what may happen between two steps of a sync, between two syncs, between an edit or a recording and its
arrival at the server, between two results of a query, and between two runs of the migrator. TLC checks
the models on small instances; TLAPS checks proofs of the safety properties for all values of the
constants.

Paths below are relative to `src/` of the repository (`Services/` is
`SIL.XForge.Scripture/Services/`, `xforge-common/` is
`SIL.XForge.Scripture/ClientApp/src/xforge-common/`).

| Module | What it is |
|---|---|
| `JobMutex` | Hangfire jobs of the syncs and the `[Mutex]` filter |
| `SyncQueue` | requesting, cancelling and running syncs, composed with `JobMutex` |
| `ParatextSync` | what one project's syncs do to its texts, repository, backup and project doc |
| `EditExchange` | the abstract specification `ParatextSync` implements |
| `OfflineDoc` | a realtime document in a browser: IndexedDB, pending operations, reconnection, reload |
| `EditDelivery` | the abstract specification `OfflineDoc` implements |
| `OfflineFiles` | a recording made off line: its record in IndexedDB, its upload, the document that names it |
| `RealtimeQuery` | a live query: results that overlap, the documents it counts and listens to |
| `RetryingRequest` | a command repeated until it is answered or cancelled |
| `ProjectMigrations` | the migrations of the project documents, and the migrator that may be stopped |
| `MCJobMutex`, `MCSyncQueue`, `MCComponents` | instances for TLC |
| `JobMutexProofs`, `ParatextSyncProofs`, `SyncQueueProofs`, `OfflineDocProofs`, `OfflineFilesProofs`, `RealtimeQueryProofs`, `ProjectMigrationsProofs`, `ComponentsProofs` | theorems and proofs |

## 1. The system

A browser (Angular) holds realtime documents, which a Node process (ShareDB, `RealtimeServer/`)
stores in MongoDB with their operations. An ASP.NET server answers commands, and runs Hangfire
background jobs that synchronize projects with Paratext and drive machine translation on Serval. The
ASP.NET server edits documents through the same ShareDB process.

### Sync job mutex and background jobs (`Services/MutexAttribute.cs`, `Services/IParatextSyncRunner.cs`)
- *State*: Hangfire's job states, queue entries, continuations and retry counts; the set of the
  mutex's resource; a distributed lock held while a body runs.
- *Operations*: electing a state (take the mutex, or put the job off for 15 seconds), applying one
  (give the mutex back), performing the job under the lock.
- *Interactions*: `SyncService` creates, starts and deletes jobs; a job runs `ParatextSyncRunner`.
- *Hard*: several workers elect at once; a redelivered job has a body running already; the server
  stops between the election and the state change; a lock times out; a job is deleted at any point.
- *Correct if*: one body runs at a time, one job owns the mutex, and no owner keeps it when its
  turn is over.

### Sync requests and cancellation (`Services/SyncService.cs`, `Models/SFProjectSecret.cs`)
- *State*: `Sync.QueuedCount` in the project doc (what clients show), job ids and metrics ids in the
  project's secrets, the status of each sync's metrics.
- *Operations*: `SyncAsync` (optionally of the translation source first), `CancelSyncAsync`.
- *Interactions*: creates jobs as a draft or a continuation, promotes them at the end, deletes them
  in a cancellation; the sync body updates the same four pieces of state.
- *Hard*: each update is a step of its own, from copies fetched earlier; any may throw; a
  cancellation interleaves with a request and with a running body.
- *Correct if*: count, ids and pending jobs agree; a pending sync is shown and can be cancelled; a
  failed request runs nothing; the source goes first; every job ends and the count drains.

### Paratext sync runner (`Services/ParatextSyncRunner.cs`)
- *State*: the run's fields (the transaction, the repository's revision, the fetched texts, errors),
  the sync fields of the project doc.
- *Operations*: `RunAsync`: initialise, check out the recorded revision, write the texts, send and
  receive, update documents, complete (commit or roll back, back up or restore, report, metrics).
- *Interactions*: calls `ParatextService` and the realtime `Connection`; races users' edits.
- *Hard*: long steps in which users edit; cancellation noticed between steps; a crash anywhere; each
  step's failure leaves the repository, the server and the documents at different points.
- *Correct if*: no edit of either side is reverted, the recorded revision has been imported and is
  in the local repository, a success has exchanged everything, and later syncs converge.

### Realtime connection (`SIL.XForge/Realtime/Connection.cs`, `Json0OpBuilder.cs`)
- *State*: queued operations, excluded properties, whether a transaction is under way.
- *Operations*: begin, submit, create, delete, commit, roll back, exclude a property.
- *Hard*: operations are applied one at a time at the commit; an operation with an excluded property
  goes at once; operations on one field built from copies of different age are transformed.
- *Correct if*: nothing that depends on the transaction is visible without it.

### Paratext repositories (`Services/ParatextService.cs`, `HgWrapper.cs`)
- *State*: the local Mercurial repository, its last public revision, its backup bundle.
- *Operations*: set to a revision, put texts, send/receive (pull, merge, push), back up, restore.
- *Hard*: failures between pull and push; a backup older or newer than what the project records.

### Client realtime documents (`xforge-common/models/realtime-doc.ts`, `sharedb-realtime-remote-store.ts`)
- *State*: the ShareDB document with its pending and in-flight operations, the record in IndexedDB.
- *Operations*: subscribe, submit, create, delete, update of the offline data, loading it; the
  custom websocket that stores an operation before it is sent.
- *Hard*: pages close with writes and messages under way; messages are lost, late or repeated; the
  same operation is sent by two pages; edits made off line wait across reloads.
- *Correct if*: a stored edit arrives, once, and the page shows what the server had and what waits.

### Client realtime queries (`xforge-common/models/realtime-query.ts`, `realtime.service.ts`)
- *State*: the list of documents shown; each document's count of the queries that hold it
  (`subscribeQueryCount`, which keeps its offline data) and the listeners on it.
- *Operations*: subscribe, fetch, `onChange` (removals, moves and insertions), disposal.
- *Interactions*: results come from ShareDB's query and, after each local update of a document, from
  IndexedDB; a document counted by a query updates its offline data.
- *Hard*: `onChange` awaits documents between its insertions, and another may begin meanwhile; places
  computed before an await are used after it.
- *Correct if*: counts match what is listed, every listed document is heard, and the list is right
  again after a change that was not disturbed.

### Client files and requests (`file.service.ts`, `question-doc.ts`, `retrying-request.service.ts`)
- *State*: a record in IndexedDB for each file (to upload, to delete, or a copy), the file on the
  server, the url in a document; a request's status and cancellation.
- *Operations*: upload, delete, cache, `syncFiles` when the connection returns; invoke and cancel.
- *Hard*: several requests and writes make one operation, and the connection or the page may go after
  any of them; two runs of `syncFiles` overlap; an answer is lost though the server has acted.
- *Correct if*: no recording is lost, a local address is replaced in the end, a request settles and is
  not repeated once cancelled.

### Project migrations (`RealtimeServer/scriptureforge/services/sf-project-migrations.ts`, `common/realtime-server.ts`)
- *State*: the documents, the version recorded for the collection.
- *Operations*: `migrateIfNecessary`; 29 functions of a document.
- *Hard*: the version is recorded at the end, so a migrator that is stopped repeats early migrations on
  documents that have had late ones.
- *Correct if*: what it ends with does not depend on having been stopped, and it ends.

### Parts not modelled
- *Realtime server* (`RealtimeServer/common`): ShareDB with a table of rights looked up for each
  operation; its migrator is above.
- *Machine builds* (`MachineBackgroundService.cs`, `MachineProjectService.cs`): the state of builds is
  Serval's, outside the repository; each call is one request and one update.
- *Projects, invitations, users* (`SFProjectService.cs`, `UserService.cs`): single database updates.
- *Text and notes conversion* (`DeltaUsxMapper.cs`, `ParatextNotesMapper.cs`): conversions over
  markup, about which every property is about the markup.
- *Onboarding and training data*, *event metrics, notifications and controllers*, the *web user
  interface*, *tools, scripts and deployment*: single updates, logging, presentation, or run by hand.
  The user interface is most of the repository's TypeScript; its state is what it shows.

## 2. The modules and the code

### JobMutex
`state`, `retries` and `queue` are Hangfire's job storage; `mutexSet` is the set `mutex:<key>`;
`execLock` the lock of `DisableConcurrentExecutionAttribute`, which `MutexAttribute` inherits;
`phase` and `on` what each worker does with which entry. Neither lock's key names a project, so there
is one of each for all projects.

`ReadSet` with `AddToSet`, and `PutOff`, are the two results of `OnStateElection`. Its read of the set
and its write are two steps, between which other workers elect, clients delete and the server stops; the
lock around them is the guard `SetLockFree` of `ReadSet`. `Move` is every state change with
`OnStateApplied`: it frees the mutex only when the state left is Processing. `Begin` and `Leave` are the
body's lock. Hangfire is external and modelled as used: an entry is delivered again when the server stops
before it is acknowledged; `Delete` and `Enqueue` may hit a job in any state; a continuation is released
when its parent succeeds or is deleted (not when its retries are used up); `Restart` stops all workers. A
stop between an election and the state change is a fault of its own (`restartInElection`). A job's timer may
fire at any time, and a draft's has nothing to do with faults. Clients are unrestricted: any call on any job
at any time.

### SyncQueue
Extends `JobMutex`: `SyncAsync` and `CancelSyncAsync` become clients and the sync body what a worker
runs. Each `await` that updates something shared is a step: `CreateFirst`, `CreateTarget`,
`CountTarget`, `CountSource`, `RecordSource`, `RecordTarget`, `Promote`, `RequestThrows` with its
handler's `DeleteTarget` and `DeleteSource`, and `ContinueThrows`, which no handler catches; `FetchProject`,
`ReadIds`, `DeleteJob`, `MarkCancelled`, `ClearIds`, `ResetCount` and `FetchSource` of a cancellation;
`InitMetrics` to `SaveMetrics` of a body, with a `stale` flag where a decision is taken on a copy fetched
before someone else's update. `Inc` and `SetCount` model two operations on one number: an increment
submitted from a copy that another call has since replaced is transformed away by json0. `SignalToken` is
Hangfire's watcher that cancels the token of a deleted job. `Stop` is a restart: bodies, and calls at any
step, are gone. `TimerStep` lets a draft's five minutes run out once its request is over, lost and abandoned
ones included, and, with the fault "timer", while it is still under way.

### ParatextSync and EditExchange
A text is the set of edits it holds; a revision is named by the text it holds. Users only add edits,
so an edit that disappears was reverted by a sync. `synced`, `errorCode`, `dataInSync` and
`lastSuccessful` are the sync fields of the project doc; `repo` the local repository (revisions known
and the last public one), `backup` its bundle, `server` the send/receive server's head; `run` the
local state of the run.

`InitAsync`, `Prepare` (with `CheckOut` of the recorded revision, or of the restored repository),
`WriteBooks`, `SendReceive` (pull, three-way merge, push), `UpdateDocs` (queues differences against
the texts *fetched at the start*), `CompleteCancelled`, `CompleteSuccessful` and, after a failure,
`MoveAway` and `MoveBack` (`RestoreRepository`) or `LeaveUnrestored`, `BackupRepository`, `CommitText`,
`CommitProject`, `Report` and `SaveMetrics` are the steps of `RunAsync`, in order. Each fault is an outcome
of the step it belongs to: a refused user, a failing check-out, send/receive, update, backup, restoration or
commit; cancellation and crash happen at any step. `MoveAway` takes the repository out of its place and
`MoveBack` puts another there, the one rebuilt or, when that fails, the same: a crash between them
("crashInRestore") leaves none (`NoRepo`), and then no backup is looked for either. `CommitText` applies the
queued operations while users edit, and `CommitProject` those of the project doc. Operations on an excluded
property are applied when submitted, not at the commit, and take with them the list they are in
(`Connection.cs:431-447`).

`EditExchange` knows only three sets, the texts, the server's head and the recorded revision, and that
edits travel and are never lost. `ExchangeSpec` is `EditExchange!Spec` with the same three variables.

### OfflineDoc and EditDelivery
`page` is a page's memory: the ShareDB document (`v`, `text`, `ops`, `inflight`, `seq`, `asked`,
`streaming`) and `RealtimeDoc` (`subscribed`, `offlineV`), with the writes and messages under way.
`store` is the record in IndexedDB, `log` the server's operations, `net` the messages to it. `Edit` is
`submit`: apply, update the offline data by force, send. `Send` is the websocket adapter: number the
operation, call `updateOfflineData` (which may decide to do nothing), and send once the writes asked
for so far are done (`after`). `Record` is the record written, with the in-flight operation first and its
`src` filled in (`pendingOps`). `LoadOffline` restores the record and sends what was pending.
ShareDB is external: one operation in flight, composing of an edit into an operation that waits,
transformation (edits commute here), recognising a repeated (src, seq) on the server, sending pending
operations before subscriptions on reconnection.

`EditDelivery` knows three things: what the user sees, what the browser keeps for the server, and what the
server has applied. An edit is made in the page, kept, and delivered once, and only what is kept is
delivered; a page opened again shows all that was kept. `DeliverySpec` maps what is kept to the edits of
the record in IndexedDB that the server has not: operations, numbers, messages and acknowledgements are
not in it.

### OfflineFiles
One recording of a question (`keepOffline`: its file is also cached) or of an answer. `kept` is the
record in IndexedDB, `remote` the server's file, `audioUrl` what the document says, `saved` (a ghost)
whether the user has saved a recording and not taken it back. `tasks` has a slot for the user's save, one
for a removal, one for the cache update of `QuestionDoc`, and one for each run of `syncFiles` in `Syncs`:
more than the connection can return, so that a run always finds a slot. Each slot is a small program
counter, and every `await` of `FileService` ends a step: `Post`, `Posted`, `AnswerLost` and `StoreUpload` of
`uploadFile`, `CacheGet` to `CachePut` of `findOrUpdateCache`, `PurgeGet` to `RequestDeletion` of
`deleteFile`, `GetAll`, `FetchDoc`, `SetUrl` and `Drop` of `syncFiles`. `Reload` closes the page.

Any request may fail, on line too; the user acts whatever is under way; the connection returns and the
page closes at any moment. One guard has no counterpart in the code: without `StaleCache`, a cache update
that found no recording in the document (`Clearing`) does not overlap a save (section 3).

### RealtimeQuery
`status` is the query's life, `docs` its list, `changes` the calls of `onChange` and `localQuery` under
way, `counts`, `held` and `live` what `onInsert` and `onRemove` do to the documents. A change begins
with its removals and moves (`Remaining`, arraydiff's result) and the counts of its first run of
insertions; `Insert` is what follows the await of that run, at the place computed before it, and begins
the next. `Dispose` is `dispose` after `manageQuery`'s wait.

### RetryingRequest
`place` is the point `invoke` has reached, `sawOnline` the status it read before an await. `Serve` and
`Answer` are the server's act and the coming of its answer; `AttemptFails` loses either. `AppOnline` is
`OnlineStatusService`'s status: the browser on line and the socket not known to be closed.

### ProjectMigrations
A document is a function from the fields the migrations touch to small sets of values, and
`MigrationN` is `migrateDoc` of version N. `First` and `Settings` generate documents as they are at
each version: what the earlier migrations left, with what users may have set. `NextVersion`, `Migrate`,
`RecordVersion` are the loops of `migrateIfNecessary`; `StopMigrator` ends it anywhere. `Throws` is
where a migration dereferences what is not there.

`MCComponents` instantiates these four side by side: they share no state in the code either, and
`focus` says which one moves in a behaviour. For the files it bounds the programs of the page under way
at once (`MaxAtOnce`) and the recordings, pauses and reloads together (`MaxEvents`).

## 3. What is checked

Each passing run explores its whole state space.

| Run | Instance | Shows |
|---|---|---|
| `job_mutex` | 3 jobs, one continuing another; 2 workers; one restart, one retry; 797,000 states | one body at a time, one owner, an owner is being elected or processed, no job is stranded |
| `job_mutex_election` (violation) | the same, with a restart inside an election | a finished job stays in the mutex for ever |
| `paratext_sync` | 2 edits a side, any 2 faults but "permission", "backup" and "crashInRestore"; 219,000 states | recorded revision imported and available, nothing reverted, implements `EditExchange`, converges |
| `paratext_sync_faults` | all faults, any 2; 393,000 states | types; a successful sync exchanged everything |
| `paratext_sync_permission` (violation) | 1 edit a side | a revision recorded that was not imported |
| `sync_queue` | 2 requests (3 jobs, 2 projects), 2 workers, failing requests, syncs and commits, a restart; 109,000 states | failed requests run nothing, source first, only lost or abandoned requests run uncounted, every job ends; while nothing has failed or stopped, count, ids and jobs agree at rest and a pending sync is shown |
| `sync_queue_cancel` | 1 request with a source, 1 cancellation, 2 workers; 22,000 states | types; every job ends, the count drains |
| `sync_queue_ids` (violation) | 2 requests, nothing fails | a pending sync that can no longer be cancelled |
| `offline_doc` | 2 edits, 1 of another user, 2 pages, 1 lost connection; 81,000 states | applied once; what the page shows; implements `EditDelivery` (stored edits are kept until the server has them); stored edits arrive |
| `offline_doc_subscribe` (violation) | the same, by subscription | an edit applied twice |
| `components` | see below; 187,000 states | a question's recording is kept; a query counts and hears its documents; migrations resumed end as one run would; a request settles or is cancelled |
| `offline_files_answer` (violation) | 1 recording, 1 lost connection | an answer's recording neither on the server nor in the browser |

### Why these bounds
- *Jobs*: three, two independent and one continuation, give every pair the filter distinguishes, with a
  third waiting. Two workers are what two elections, or a body and a redelivery of its job, need.
  `MCJobMutex!BoundedQueue` stops a client that enqueues for ever at two entries a job: more entries
  than workers are delivered one after another.
- *Requests*: a request with a source and one without, on the same daughter, make a project with two
  pending syncs and one with one. A cancellation joins one request: two requests, a cancellation and one
  worker were explored once (227,000 states, no error) and take too long to repeat.
- *Syncs*: the number of syncs is unbounded; faults are two, since what goes wrong needs one fault to
  leave a state and a second to make it matter. Two edits a side let one be in flight while another
  is made.
- *Pages*: two pages suffice for an operation to be sent by one and again by the next. Three pages with
  two lost connections were explored once (447,000 states, no error).
- *Recordings*: two, one replacing the other; a lost connection and a reload put a fault before and
  after each step of an upload and of the `syncFiles` that follows. Two slots for `syncFiles`, one more
  than the connections lost. At most two programs of the page are under way at once (`MaxAtOnce`), and
  recordings, lost connections and reloads are three together (`MaxEvents`); without these two bounds the
  files alone were explored once (5.8 million states, no error), and `RecordingsKept` is proved without any.
- *Queries*: three documents and seven results give removals, moves, insertions at one place and at
  two; two changes at a time can use each other's stale places, four results let a quiet change follow.
- *Requests*: three attempts fail, one more than it takes to be cancelled between two.
- *Migrations*: two batches of one project; begun at versions 4, 13, 22, 26 and 29, before and after
  each change of shape that can be resumed; one stop, anywhere, then a run from the recorded version.

No run uses symmetry. `CHECK_DEADLOCK FALSE` is in every configuration because users may simply stop:
all jobs done, all edits made, the last page left open.

### Fairness
- `SyncFairSpec`: calls under way go on, workers work, queue entries are delivered, timers fire, and
  the watcher looks: Hangfire's own loops. Users need not call at all.
- `ParatextSync!FairSpec`: a run goes on, and someone syncs the project again (users do, and so do the
  retries). Faults and edits are bounded, and never fair.
- `OfflineDoc!FairSpec`: the browser works on, a page is opened again and connects at last, the server
  answers. Closing, losing the connection and editing are never fair.
- `MCComponents!Fairness` joins the components' own. The files have none: any
  request of theirs may fail for ever. *Request*: the loop and its timer
  run; connections come back; and, strongly, of infinitely many chances to be on line, to be served and
  to be answered one is taken, since the bound on lost attempts must not be what ends the loop.
  *Migrator*: it is run until it ends. The query has no liveness property: a result may never come.

### Where the code and its comments disagree
1. *A finished job keeps the mutex* (`MutexAttribute.cs:89`; `job_mutex_election`). The id enters the
   set in a transaction of its own. If the server stops before the state changes and the job is
   then deleted, nothing removes the id and every later sync of every project is put off.
2. *A revision recorded but not imported* (`Connection.cs:438`; `paratext_sync_permission`). Clearing
   the error code, excluded from the transaction, takes the recorded revision with it out of the
   transaction. If the sync then fails, the next one overwrites that revision with old texts.
   `RevisionAvailable` and `Converges` fail in this case too.
3. *The wrong id removed* (`ParatextSyncRunner.cs:1982`; `sync_queue_ids`). The first of the ids read at
   the start is removed, which may be another pending sync's.
4. *An operation sent without its (src, seq) stored* (`realtime-doc.ts:215`; `offline_doc_subscribe`).
   The update before sending returns early while the document is not yet subscribed, although
   operations are sent before the subscription is answered. After a reload the operation is sent
   as a new one.
5. *An answer's recording deleted* (`file.service.ts:313`; `offline_files_answer`). `syncFiles` uploads
   with the `uploadFile` of a user's save, which, when the request fails, stores the recording "until we
   go online again" (110) and returns a local address. `syncFiles` then deletes the record just stored, as
   it does for every file that is not a question's.

### Limits of what holds
- `CountDrains` is for runs without failing requests: the handler of a request that throws deletes the
  jobs but leaves the count. `EveryJobEnds` is for runs in which the last update of the metrics does not
  throw in every attempt: then the job fails for good and its continuation waits for ever.
- A request whose second job cannot be created (`ContinueThrows`) and one lost when the server stops
  leave a draft that runs five minutes later: its sync is never counted, so clients do not show it and it
  cannot be cancelled. `UncountedOnlyAbandoned` says that no other sync runs uncounted. A request
  that fails and is lost between the two deletions of its handler leaves such a draft too, so
  `FailedRequestRunsNothing` is about requests whose handler goes on.
- `UncountedOnlyAbandoned`, `SourceFirst` and `FailedRequestRunsNothing` are for requests that are not
  overtaken while under way (`Uncancelled` in *SyncQueueProofs*: no cancellation, no "timer"). A request
  slower than its draft's five minutes breaks all three; so does a
  cancellation between two updates of a request: it deletes the source's draft, which releases the
  target's job uncounted, and the request's last step then enqueues the source's job again; a request
  that fails after it finds its target's job enqueued or running. TLC shows this with "timer" added to
  `Faults`, or a cancellation to `Cancels`, in `sync_queue`.
- `IdsMatchCount` and `ShownWhilePending` are for requests and bodies that are not interrupted: in the
  run, while no request has failed and the server has not stopped (`Uninterrupted`); in the proofs,
  `Undisturbed` (no cancellation, and no "request", "continue", "metrics", "timer", "restart" or
  "restartInElection" among the faults). Syncs and commits may fail, locks may time out. What is left out
  breaks them: the handler of a failed request leaves the count, "metrics" with a retry runs a reported job
  again, and "timer", a restart or a cancellation meet an update half done.
- A failing backup is only logged, and a later restoration is assumed to be at the recorded revision
  (`ParatextSyncRunner.cs:1777`), which breaks `RevisionAvailable`; a refused user breaks finding 2's
  properties: `paratext_sync` leaves both faults out, `paratext_sync_faults` has them.
- A stop inside `RestoreRepository`, between `ParatextService.cs:2100` and 2113, leaves no local repository.
  Every later sync then throws in `SetRepoToRevision`, no backup is looked for without a repository
  (1978-1982), and what was moved away stays in `_Backups`: `RevisionAvailable` and `Converges` fail
  (TLC, with "crashInRestore" added to `Faults` in `paratext_sync`). `paratext_sync_faults` has the fault:
  none of those syncs is reported as successful.
- With `"editRestored"` in `Cases`, `ShowsServer` fails: an edit made while an operation restored from
  IndexedDB waits is composed into it, and ignored with it when the server knows its (src, seq). The
  behaviour depends on ShareDB's composing, which is external, so it is listed as a hazard.
- `RecordingKept` says that a question's recording is somewhere, not which one nor that the document names
  it. An older recording whose upload ends late replaces a newer one on the server; a page closed when the
  server's copy has replaced the record and the url is not yet set (`file.service.ts:310-311`) leaves the
  document with an address that only that page could resolve. After a removal it says nothing: the
  deletion on the server may erase a recording made after it. And a cache update that found the question
  without a recording deletes the record though a save has just stored one: `RecordingKept` fails with
  `StaleCache` true (TLC). No comment says otherwise of any of these, so they are hazards and not findings.
- Of an answer's recording nothing of the kind holds (finding 5).
- `MigrationEnds` fails for a migrator begun at versions 14 to 21 and stopped after version 26, which
  deletes the lists of books that 22 dereferences; one begun at 12 or earlier may be left with
  `lastSelectedBooks`, which 13 sets again and the current schema lacks.
  `SomeStarts` has the versions for which a stop is harmless. What is left of `lastSelectedBooks` is
  in no field the current code reads, so `ResumedAsOneRun` and `SchemaComplete` hold all the same.
- While changes of a query overlap, its list may have documents twice or misplaced; `ChangeHeals` says when
  it is right again. `DisposeReleases` is for queries that are ready and quiet when disposed of.
- A request whose answer is lost is repeated although the server has done it (`served`); whether that
  matters is up to each command. The status shown after a cancellation may be overwritten by the loop.

## 4. What is proved

The library's facts about finite sets, sequences, natural numbers and well-founded relations and the
modules' named assumptions are all the proofs rest on; the bounds are arbitrary naturals and the sets of
jobs, requests, edits, documents and faults arbitrary (workers are finitely many).

**JobMutexProofs.** `JobInv` is inductive: types; the holder of the execution lock is exactly the
worker in a body; a busy worker holds an entry; a job being elected owns the mutex, is enqueued or
processing, and is elected by one worker; one owner. `MutualExclusion` alone is not inductive: it
needs the lock's holder to be the worker that runs, which `LockInv` says. `OwnerActive` needs that a
state change by a client cannot hit the job being elected.
`SingleOwner` needs `ReadInv`: what a worker has read of the set under its lock still holds when it adds
the job's id, whoever has deleted, put off or finished a job in between. Theorems: `Invariance`,
`TypeCorrect`, `OneBodyAtATime`, `OneOwner`, and `MutexReleased`, which assumes
`"restartInElection" \notin Faults` (finding 1 is why).

Two more invariants say that no job is stranded, under every fault, which is the safety half of
`EveryJobEnds`. `NoneStranded` (`JobsServed`): an enqueued job has an entry in the queue or a worker
electing it, a processing one an entry or a worker, and a continuation has a parent that has neither
succeeded nor been deleted. It needs `JobInv`: a worker that drops an entry must be the one whose state
change, or whose loss at a restart, gave the job its next one. `RetriedBeforeFailed` (`RetriedToTheEnd`):
a job is failed only after all its retries.

**ParatextSyncProofs.** `TypeCorrect` holds under every fault. The others assume
`"permission" \notin Faults` (finding 2) and rest on an invariant that says, for each step, how the
working copy, the fetched texts, the queued additions and removals, and the cached and the recorded
revision relate to the texts and the server. It is needed because the properties speak of a sync at
rest, and what makes them true is decided many steps earlier: that nothing fetched is removed from
the merge, and that a revision is recorded only after its texts. `RecordedIsImported`,
`SuccessIsExchange`, `NoRevert` and `Implements` (every step is a step of `EditExchange` or a
stutter) follow. `RecordedIsAvailable` adds that the backup has the recorded revision whenever it may
be restored, and that the repository moved away has it while it is being restored; it assumes
`Faults \cap {"permission", "backup", "crashInRestore"} = {}` (see *Limits of what holds*).

**SyncQueueProofs.** `SyncInv` ties each request, cancellation and body to the jobs it works on. With
it, every step of `SyncQueue` is a `JobNext` step or leaves the jobs alone (the lemma `UsesJobs`:
`SyncSpec => JobSpec`), so the theorems of `JobMutexProofs` hold of the composition;
`OneSyncAtATime` states mutual exclusion for it. `SyncTypeCorrect` is its type invariant.

*Order* (the same module). `OrderInv` says, for each step of a request (a restart loses it at any), what
has become of its jobs, that a job of no request does not exist, and that a worker has only jobs of
requests that are over (completed, abandoned or lost), the target's after the source's end. The three
properties speak of bodies and failures; what makes them true is that no job leaves its draft or awaiting
state before the request is over, and that the draft of one that was lost or abandoned comes with a target
that awaits it or does not exist. Theorems: `OrderInvariance`, `RunsCounted`, `SourceIsFirst`,
`FailureRunsNothing`, for any requests with jobs of their own (`OwnJobs`), workers, faults, restarts and
retries, and `Uncancelled` (see *Limits of what holds*).

*No sync is lost* (the same module). `Launched` says that the jobs of a complete request are never back in
a draft nor deleted. With `JobsServed` and `RetriedToTheEnd`, which `UsesJobs` brings here, `NoSyncLost`
follows: a sync of a complete request has ended, is in the queue or with a worker, waits for a timer, or
is held by its source's, which is itself one of these; what holds it for good can only be a source whose
retries are used up (*Limits of what holds*).

*Count and ids* (the same module), under `OwnJobs` and `Undisturbed` (see *Limits of what holds*).
`IdsMatchCount` and `ShownWhilePending` speak of moments of rest, and each update of the count and of the
ids is made on its own, from a copy, by calls that overlap. `LedgerInv` says what both are at every step.
The count is the number of jobs counted by their request that have neither succeeded nor been reported
(`CountInv`); the ids are as many as the jobs recorded that have neither succeeded nor had an id removed
for them (`OwedInv`), which need not be their own ids (finding 3). That holds because a job has one entry
in the queue or one worker (`OnceInv`), so no job is reported twice and no token is signalled, and because
the first id a body has read stays the first until it is removed and never comes back (`BodiesInv`), so
a removal takes away one id and a repeated one takes none. A sync that fails counts as one that succeeds:
`RunAsync` reports it and returns, and its job has succeeded. Theorems: `LedgerInvariance`,
`IdsAndCountAgree`, `PendingIsShown`.

**OfflineDocProofs.** For any edits, pages and lost connections, in the case the run checks
(`Restricted`: a document in queries, no edit composed into an operation sent before; finding 4 and the
hazards say what happens otherwise). `AppliedOnce` is not inductive: what keeps the server from applying
an edit twice is that wherever an operation is known, in the queue, in the record stored, in the records
still to be stored, on the network or in the log, its number means the same edits. The proof takes the
record, the writes under way and the page's memory as a sequence of *views*, from the oldest to the
newest, and the messages as known from the view whose write they wait for (`Held`, `Sent`). `Core` says
of these sightings that a number means one operation, that an operation without a number is not yet in
one that has a number in an older or the same view, and that the log has of what is known only
operations later than the version each is based on; `ViewsInv` that each view's text is the server's at
its version and its pending edits, and that no view loses an edit of the one before it unless the server
has it, which is `SavedKept` through a close; `Backed`
that what a message carries is in the record, or in the write it waits for, until the server has it. Most
steps only map views to earlier ones in order (`BaseMapped`): a page that closes forgets the newer views, a
write done makes the second view the first. Only an edit, a number given, an operation learned and one
applied by the server say something new (`GrownBase`, `NumberNew`, `LearnBase`, `LogBase`). Theorems:
`DocInvariance`, `DocTypeCorrect`, `EditsAppliedOnce`, `SavedEditsKept`, `ServerShown`, and `DeliversEdits`:
every step of `OfflineDoc` is a step of `EditDelivery` or a stutter. A write done keeps what is shown and
not yet the server's; the server applies an operation only of what is kept, which is what `Backed` is for,
and the operations it does not recognise only once, which is `Core`; a page opened again shows the record's
text, which `ViewsInv` says has all that is kept.

**RealtimeQueryProofs.** For any documents, results and number of overlapping changes. `QueryInv` is
inductive: types; the documents a change is about to insert are a run of places of a result, hence
distinct; `Balance`, each document's count is the times it is listed and the changes that are about to
list it; listeners at least as many; nothing counted before a subscription or after a quiet disposal.
Its lemmas are about lists: splicing adds the occurrences of a document, what remains of a list has no
document more often than it had, and the recursive function that computes it exists. Induction over
lists is argued from a least counterexample (`LeastNatural`, from the library's `WFMin`), which needs no
operator parameter. `Healing`, a second invariant, is about a change that runs alone: the list lacks
exactly what it has still to insert, whatever the list was before, and each place it computed before an
await is still right after it; so after its last insertion the list is the result. Theorems: `QueryInvariance`,
`QueryTypeCorrect`, `CountsMatch`, `AllHeard`, `DisposalReleases`, `ChangesHeal`.

**OfflineFilesProofs.** For any number of recordings, lost connections, reloads and runs of `syncFiles`
that overlap, whichever requests fail. `FilesTyped` is the type invariant. `RecordingKept` is not
inductive: it must be known of every task what it has in hand. `FilesInv` says, while nothing has been
removed, that there is one of the recordings in the server's file or in a record to be uploaded once the
user has saved any, and that the document then has a url; and of each task (`TaskKept`) that one about to
replace the record with the server's copy, or to set a url, has uploaded or stored a recording before. No
task deletes a record for a question: that is where an answer differs (finding 5). Only a cache update
that found no url does, and it comes before the first save (`Clearing` in `RecordKept`), which is what
`~StaleCache` is for. Theorem: `RecordingsKept`, which assumes it (*Limits of what holds*).

**ProjectMigrationsProofs.** For any documents, batches, stops, and any version to begin from, also
those with which a migrator that was stopped may not come to its end (`MigrationEnds` is what fails then:
a migration that throws leaves the version unrecorded). Neither theorem can be proved by comparing the
document with one that went straight through, since a stop leaves documents at different versions with
settings of both kinds. So each field has a *promise*: what it will be at the last version, told from the
document at any version (`Alike` compares the promises of two documents). A migration keeps every promise
of a document that is *sound* for its version, which means that what later migrations rely on is there;
soundness for a version is soundness for all earlier ones back to the start, so a document migrated late
and then again early still promises the same. `DocsAt` gives soundness at the start, `MigrationsInv` adds
where the migrator is in its sweep over the batches. Theorems: `MigrationsTyped`, `SchemaIsComplete`,
`ResumedRunIsOneRun`.

When a migration throws, `MigrationEnds` fails. `ThrowsOnlyWhenRepeated` says when that can be, for every
version to begin from: only in a run begun again after a stop, and only from versions 14 to 21. So a
migrator that is never stopped throws nothing, and the versions `SomeStarts` may not have are those eight.
The argument is about the lists of books that version 22 dereferences: which of them there are is a
matter of the versions a document has been through (`ListsThere`), and a document has been through those
before the migrator's place in its sweep and, after a stop, possibly through later ones (`ListsInv`).

**ComponentsProofs.** `RequestInv` adds to the types that the server has acted at most once per
failed attempt and once more, that a late request is followed by the end of the loop, and that a
complete request has ended. Theorems: `RequestTypeCorrect`, `LateAskOnce`, `NothingAfterCancel`.
`ComponentsTyped` puts the type invariants of the four components of `MCComponents` together.

*Only model-checked*: liveness (`Converges`, `EveryJobEnds`, `CountDrains`, `SavedArrives`,
`MigrationEnds`, `RequestSettles`), which is beyond the proof system. For three of them
the part that is a matter of safety, that what has to arrive or end is neither lost nor left without
anyone to move it, is proved: `NoSyncLost`, `SavedEditsKept`, `ThrowsOnlyWhenRepeated`.
Also only model-checked are documents got by `subscribe` alone and edits into restored
operations (`OfflineDoc` outside `Restricted`); the violations, which need no proof.

## 5. Abstractions and what is left out

- *Texts* are sets of edits and the three-way merge is exact on them; conflicts, notes, biblical terms,
  books and permissions are not distinguished. Projects are editable, and have been synced before: a
  null recorded revision and DBL resources are left out.
- *SyncQueue* leaves out `SyncConfig.ParentJobId`, progress messages and the error code (finding 2 is
  about that, in `ParatextSync`); the metrics of a sync are named by its job.
- *Jobs run one at a time*, so `ParatextSync` has one run (`OneBodyAtATime` is its justification). A
  crash ends it and a redelivered job is another start.
- *OfflineDoc*: creation, deletion and disposal of documents, several tabs, a snapshot fetched before
  the offline data, writes that fail, and a document leaving its query are left out. Edits commute.
- *OfflineFiles*: one recording of a question that is not archived; chapter audio, training data files, the
  storage quota and downloads for playing are left out. The document's operations are applied at once, being
  `OfflineDoc`'s subject.
- *RealtimeQuery*: the number of unpaged results and the observables that only tell a page to draw are
  left out; ShareDB's query and arraydiff are external.
- *ProjectMigrations*: a book or a chapter stands for all of them; the other collections' migrations and
  the migration of operations are left out.

## 6. Not modelled

The component list in `PROJECT.json` says why each part left out is left out. What is left is of three
kinds. Most of the repository's lines are the user interface's, whose state is what it shows. The
conversions between Paratext's markup and ours are functions of markup, and a model of one would be its
transliteration. The rest, machine builds, invitations, onboarding, are single requests with single
updates, or have their state in services outside the repository.

Within the modelled components, what would come next is: a second tab and failing writes in
`OfflineDoc`; the repository restored after a stop, and recordings replaced while an upload is late, once
the code decides what should happen then; the migrations of the other collections, which have the same
migrator.
