----------------------------- MODULE ParatextSync -----------------------------
(***************************************************************************)
(* The texts of one project as ParatextSyncRunner.RunAsync moves them        *)
(* between Scripture Forge, the local Mercurial repository and the Paratext  *)
(* send/receive server, with the realtime Connection's transaction, the      *)
(* repository backup, cancellation, failing steps and crashes.               *)
(*                                                                           *)
(* Bodies run one at a time (JobMutexProofs!OneBodyAtATime), so there is one *)
(* run; a job the server redelivers after a crash, or Hangfire retries, is   *)
(* another StartSync.                                                        *)
(*                                                                           *)
(* A text is the set of edits it holds, and a revision of the repository is  *)
(* named by the text it holds.  The users of both sides only add edits, so   *)
(* an edit that disappears was reverted by a sync.                           *)
(***************************************************************************)
EXTENDS Naturals, FiniteSets

CONSTANTS
    SfEdits,  \* edits made in Scripture Forge
    PtEdits,  \* edits made in Paratext
    Faults,   \* which happen: "cancel", "crash", "crashInRestore" (within a restore), "permission",
              \* "backup", "restore", "share", "update", "references", "commit", "metrics"
    MaxFaults \* bound: faults in one behaviour

ASSUME FaultsAssumption == Faults \subseteq STRING /\ MaxFaults \in Nat

Edits == SfEdits \cup PtEdits

VARIABLES
    sf,             \* the texts in the Scripture Forge database
    synced,         \* project doc: Sync.SyncedToRepositoryVersion
    errorCode,      \* project doc: whether Sync.LastSyncErrorCode is set
    dataInSync,     \* project doc: Sync.DataInSync
    lastSuccessful, \* project doc: Sync.LastSyncSuccessful
    server,         \* the head revision on the send/receive server
    repo,           \* the local repository: the revisions it has and its last public one, or NoRepo
    backup,         \* the bundle of the local repository, or NoRepo
    run,            \* the running sync's local state
    faults          \* faults so far

docVars == <<synced, errorCode, dataInSync, lastSuccessful>>
vars == <<sf, docVars, server, repo, backup, run, faults>>

Steps == {"idle", "init", "prepare", "write", "share", "update", "complete", "restore",
          "ids", "backup", "commit", "rollback", "report", "metrics"}

Repos == [known: SUBSET SUBSET Edits, public: SUBSET Edits]
NoRepo == [known |-> {}, public |-> {}]

\* The fields the runner and its Connection keep while a sync runs: `revision' and `error' are the
\* cached project doc's; `fetched' is the fetched text docs; `work' the repository's working copy;
\* `adds', `removes' and `record' the operations queued in the transaction; `moved' the repository a
\* restore has moved away.
Runs == [pc: Steps, cancelled: BOOLEAN, ok: BOOLEAN, canRollback: BOOLEAN, inSync: BOOLEAN,
         revision: SUBSET Edits, error: BOOLEAN, fetched: SUBSET Edits, work: SUBSET Edits,
         adds: SUBSET Edits, removes: SUBSET Edits, record: BOOLEAN, inTransaction: BOOLEAN,
         moved: Repos]

Idle == [pc |-> "idle", cancelled |-> FALSE, ok |-> FALSE, canRollback |-> FALSE, inSync |-> TRUE,
         revision |-> {}, error |-> FALSE, fetched |-> {}, work |-> {},
         adds |-> {}, removes |-> {}, record |-> FALSE, inTransaction |-> FALSE,
         moved |-> NoRepo]

TypeOK ==
    /\ sf \subseteq Edits /\ server \subseteq Edits /\ synced \subseteq Edits
    /\ errorCode \in BOOLEAN /\ dataInSync \in BOOLEAN /\ lastSuccessful \in BOOLEAN
    /\ repo \in Repos /\ backup \in Repos
    /\ run \in Runs
    /\ faults \in 0 .. MaxFaults

\* A project connected and synced once, whose texts hold no edit yet; older projects have no backup.
Init ==
    /\ sf = {} /\ server = {} /\ synced = {}
    /\ errorCode = FALSE /\ dataInSync = TRUE /\ lastSuccessful = TRUE
    /\ repo = [known |-> {{}}, public |-> {}]
    /\ backup = NoRepo
    /\ run = Idle
    /\ faults = 0

Fault(f) == f \in Faults /\ faults < MaxFaults /\ faults' = faults + 1

\* The run goes on to the given step, or to CompleteSync(false).
GoTo(step) == run' = [run EXCEPT !.pc = step]
Fail == run' = [run EXCEPT !.pc = "complete", !.ok = FALSE]

-----------------------------------------------------------------------------
(* The users.                                                               *)

EditInSf(e) ==
    /\ e \notin sf
    /\ sf' = sf \cup {e}
    /\ UNCHANGED <<docVars, server, repo, backup, run, faults>>

EditInParatext(e) ==
    /\ e \notin server
    /\ server' = server \cup {e}
    /\ UNCHANGED <<sf, docVars, repo, backup, run, faults>>

\* The cancellation token is signalled at any point of the run.
Cancel ==
    /\ run.pc # "idle" /\ ~run.cancelled
    /\ Fault("cancel")
    /\ run' = [run EXCEPT !.cancelled = TRUE]
    /\ UNCHANGED <<sf, docVars, server, repo, backup>>

\* The process stops: what the run has in memory is lost, and a repository moved away stays there.
Crash ==
    /\ run.pc # "idle"
    /\ Fault(IF run.pc = "restore" THEN "crashInRestore" ELSE "crash")
    /\ run' = Idle
    /\ UNCHANGED <<sf, docVars, server, repo, backup>>

-----------------------------------------------------------------------------
(* RunAsync.                                                                *)

StartSync ==
    /\ run.pc = "idle"
    /\ GoTo("init")
    /\ UNCHANGED <<sf, docVars, server, repo, backup, faults>>

\* InitAsync begins the transaction and fetches the project doc; when it throws there is no
\* connection to roll back and the run is over.
InitAsync ==
    /\ run.pc = "init"
    /\ run' = IF run.cancelled THEN Idle
              ELSE [run EXCEPT !.pc = "prepare", !.ok = TRUE, !.inTransaction = TRUE,
                               !.revision = synced, !.error = errorCode]
    /\ UNCHANGED <<sf, docVars, server, repo, backup, faults>>

\* The user may not read the project's users: the error code is an excluded property, so it is
\* written at once.
InitForbidden ==
    /\ run.pc = "init" /\ ~run.cancelled
    /\ Fault("permission")
    /\ errorCode' = TRUE
    /\ run' = [run EXCEPT !.pc = "complete", !.ok = FALSE, !.inTransaction = TRUE,
                          !.revision = synced, !.error = TRUE]
    /\ UNCHANGED <<sf, synced, dataInSync, lastSuccessful, server, repo, backup>>

\* Without a local repository its bundle is not looked for.
HasRepo == repo.known # {}
HasBackup == HasRepo /\ backup.known # {}

\* SetRepoToRevision throws when the local repository does not have the revision.
CheckOut(canRollback) ==
    run' = IF run.revision \in repo.known
           THEN [run EXCEPT !.pc = "write", !.canRollback = canRollback, !.work = run.revision]
           ELSE [run EXCEPT !.pc = "complete", !.canRollback = canRollback, !.ok = FALSE]

\* A missing backup is made first, if it can be; then the repository is set to the synced revision.
Prepare ==
    /\ run.pc = "prepare"
    /\ \/ HasBackup /\ CheckOut(TRUE) /\ UNCHANGED <<backup, faults>>
       \/ ~HasBackup /\ HasRepo /\ backup' = repo /\ CheckOut(TRUE) /\ UNCHANGED faults
       \/ /\ ~HasBackup /\ CheckOut(FALSE) /\ UNCHANGED backup
          /\ IF HasRepo THEN Fault("backup") ELSE UNCHANGED faults
    /\ UNCHANGED <<sf, docVars, server, repo>>

\* GetAndUpdateParatextBooksAndNotes: the text docs are fetched and overwrite the working copy.
WriteBooks ==
    /\ run.pc = "write"
    /\ run' = [run EXCEPT !.fetched = sf, !.work = sf,
                          !.pc = IF run.cancelled THEN "complete" ELSE "share",
                          !.ok = ~run.cancelled]
    /\ UNCHANGED <<sf, docVars, server, repo, backup, faults>>

\* Mercurial's three-way merge of two texts with their common ancestor: what either side added
\* stays, what either removed goes.
Merge(mine, theirs, base) == (mine \cap theirs) \cup (mine \ base) \cup (theirs \ base)

Merged == Merge(run.work, server, run.revision)
PulledHeads == [known |-> repo.known \cup {server}, public |-> {server}]
Pulled == [known |-> repo.known \cup {server}, public |-> server]
Shared == [known |-> repo.known \cup {server, Merged}, public |-> Merged]

SendReceiveNoPush ==
    /\ run.pc = "share"
    /\ repo' = Shared
    /\ run' = [run EXCEPT !.work = Merged, !.pc = "update"]
    /\ UNCHANGED <<sf, docVars, server, backup, faults>>

SendReceiveNoCheckOut ==
    /\ run.pc = "share"
    /\ server' = Merged
    /\ repo' = Shared
    /\ run' = [run EXCEPT !.pc = "update"]
    /\ UNCHANGED <<sf, docVars, backup, faults>>

\* SendReceiveAsync pulls, merges and pushes.
SendReceive ==
    /\ run.pc = "share"
    /\ server' = Merged
    /\ repo' = Shared
    /\ run' = [run EXCEPT !.work = Merged,
                          !.pc = IF run.cancelled THEN "complete" ELSE "update",
                          !.ok = ~run.cancelled]
    /\ UNCHANGED <<sf, docVars, backup, faults>>

\* It throws before doing anything, having pulled, or having pushed.
SendReceiveFails ==
    /\ run.pc = "share"
    /\ Fault("share")
    /\ \/ UNCHANGED <<server, repo>>
       \/ repo' = Pulled /\ UNCHANGED server
       \/ repo' = Shared /\ server' = Merged
    /\ Fail
    /\ UNCHANGED <<sf, docVars, backup>>

UpdateCurrentTextDocs ==
    run' = [run EXCEPT !.adds = run.work \ sf, !.removes = sf \ run.work,
                       !.pc = "complete", !.ok = ~run.cancelled]

\* Queues the difference between each text doc fetched and the repository's text.
UpdateTextDocs ==
    run' = [run EXCEPT !.adds = run.work \ run.fetched, !.removes = run.fetched \ run.work,
                       !.pc = "complete", !.ok = ~run.cancelled]

\* The update of the docs, or another step up to CompleteSync, may throw.
UpdateDocsAsync ==
    \/ UpdateTextDocs /\ UNCHANGED faults
    \/ Fault("update") /\ Fail

\* What RunAsync does from the send/receive to CompleteSync.
UpdateDocs ==
    /\ run.pc = "update"
    /\ UpdateDocsAsync
    /\ UNCHANGED <<sf, docVars, server, repo, backup>>

-----------------------------------------------------------------------------
(* CompleteSync.                                                            *)

\* The first database query of CompleteSync throws once the token is signalled, and again when
\* RunAsync's handler calls CompleteSync(false): the run is over as it stands.
CompleteCancelled ==
    /\ run.pc = "complete" /\ run.cancelled
    /\ run' = Idle
    /\ UNCHANGED <<sf, docVars, server, repo, backup, faults>>

\* After success the project doc gets the new revision.  The operations are queued, unless the same
\* list clears the error code, an excluded property: then the whole list is written at once.  The
\* cached doc changes in both cases.
CompleteSuccessful ==
    /\ run.pc = "complete" /\ ~run.cancelled /\ run.ok
    /\ IF run.error
       THEN synced' = repo.public /\ errorCode' = FALSE
       ELSE UNCHANGED <<synced, errorCode>>
    /\ run' = [run EXCEPT !.pc = "ids", !.record = ~run.error, !.revision = repo.public,
                          !.error = FALSE, !.inSync = TRUE]
    /\ UNCHANGED <<sf, dataInSync, lastSuccessful, server, repo, backup, faults>>

\* After failure the repository is restored from the backup: it is moved away first ...
MoveAway ==
    /\ run.pc = "complete" /\ ~run.cancelled /\ ~run.ok
    /\ run.canRollback /\ HasBackup
    /\ repo' = NoRepo
    /\ run' = [run EXCEPT !.pc = "restore", !.moved = repo]
    /\ UNCHANGED <<sf, docVars, server, backup, faults>>

\* The data is in sync if the last public revision of the repository is the cached doc's.
InSync(r) == r.known # {} /\ r.public = run.revision

\* ... and the one rebuilt from the bundle takes its place, or, when that fails, it is moved back.
MoveBack ==
    /\ run.pc = "restore"
    /\ \/ /\ repo' = backup
          /\ run' = [run EXCEPT !.pc = "ids", !.inSync = TRUE]
          /\ UNCHANGED faults
       \/ /\ Fault("restore")
          /\ repo' = run.moved
          /\ run' = [run EXCEPT !.pc = "ids", !.inSync = InSync(run.moved)]
    /\ UNCHANGED <<sf, docVars, server, backup>>

\* Or it cannot be restored.
LeaveUnrestored ==
    /\ run.pc = "complete" /\ ~run.cancelled /\ ~run.ok
    /\ ~(run.canRollback /\ HasBackup)
    /\ run' = [run EXCEPT !.pc = "ids", !.inSync = InSync(repo)]
    /\ UNCHANGED <<sf, docVars, server, repo, backup, faults>>

\* Updating the references to the project may throw after success; then the job's id is taken out
\* of the secrets, which throws once the token is signalled, unless the secrets held no id.
RemoveIds ==
    /\ run.pc = "ids"
    /\ \/ GoTo(IF run.ok THEN "backup" ELSE "rollback") /\ UNCHANGED faults
       \/ run.cancelled /\ Fail /\ UNCHANGED faults
       \/ run.ok /\ Fault("references") /\ Fail
    /\ UNCHANGED <<sf, docVars, server, repo, backup>>

BackupOnce ==
    /\ run.pc = "backup"
    /\ backup' = IF backup = NoRepo THEN repo ELSE backup
    /\ GoTo("commit")
    /\ UNCHANGED <<sf, docVars, server, repo, faults>>

\* BackupRepository writes the new bundle, deletes the old and moves the new into its place.  Its
\* failure is only logged.
BackupRepository ==
    /\ run.pc = "backup"
    /\ \/ backup' = repo /\ UNCHANGED faults
       \/ Fault("backup") /\ backup' \in {backup, NoRepo}
    /\ GoTo("commit")
    /\ UNCHANGED <<sf, docVars, server, repo>>

\* CommitTransactionAsync submits the queued operations one after another, the project doc's last.
CommitText ==
    /\ run.pc = "commit"
    /\ \/ \E e \in run.adds : /\ sf' = sf \cup {e}
                              /\ run' = [run EXCEPT !.adds = @ \ {e}]
       \/ \E e \in run.removes : /\ sf' = sf \ {e}
                                 /\ run' = [run EXCEPT !.removes = @ \ {e}]
    /\ UNCHANGED <<docVars, server, repo, backup, faults>>

CommitProjectFirst ==
    /\ run.pc = "commit" /\ run.record
    /\ synced' = run.revision
    /\ run' = [run EXCEPT !.record = FALSE]
    /\ UNCHANGED <<sf, errorCode, dataInSync, lastSuccessful, server, repo, backup, faults>>

CommitProject ==
    /\ run.pc = "commit" /\ run.adds = {} /\ run.removes = {} /\ run.record
    /\ synced' = run.revision
    /\ run' = [run EXCEPT !.record = FALSE]
    /\ UNCHANGED <<sf, errorCode, dataInSync, lastSuccessful, server, repo, backup, faults>>

Committed ==
    /\ run.pc = "commit" /\ run.adds = {} /\ run.removes = {} /\ ~run.record
    /\ run' = [run EXCEPT !.pc = "report", !.inTransaction = FALSE]
    /\ UNCHANGED <<sf, docVars, server, repo, backup, faults>>

CommitFails ==
    /\ run.pc = "commit"
    /\ Fault("commit") /\ Fail
    /\ UNCHANGED <<sf, docVars, server, repo, backup>>

\* RollbackTransaction drops the queue, and throws when the transaction has been committed.
Rollback ==
    /\ run.pc = "rollback"
    /\ run' = IF run.inTransaction
              THEN [run EXCEPT !.pc = "report", !.adds = {}, !.removes = {}, !.record = FALSE,
                               !.inTransaction = FALSE]
              ELSE Idle
    /\ UNCHANGED <<sf, docVars, server, repo, backup, faults>>

Report ==
    /\ run.pc = "report"
    /\ dataInSync' = run.inSync
    /\ lastSuccessful' = run.ok
    /\ GoTo("metrics")
    /\ UNCHANGED <<sf, synced, errorCode, server, repo, backup, faults>>

\* The sync metrics are replaced last; a failure there calls CompleteSync(false) after all is done.
SaveMetrics ==
    /\ run.pc = "metrics"
    /\ \/ run' = Idle /\ UNCHANGED faults
       \/ ~run.cancelled /\ Fault("metrics") /\ Fail
    /\ UNCHANGED <<sf, docVars, server, repo, backup>>

-----------------------------------------------------------------------------

RunNext ==
    \/ InitAsync \/ Prepare \/ WriteBooks \/ SendReceive \/ UpdateDocs
    \/ CompleteCancelled \/ CompleteSuccessful \/ MoveAway \/ MoveBack \/ LeaveUnrestored
    \/ RemoveIds \/ BackupRepository
    \/ CommitText \/ CommitProject \/ Committed \/ Rollback \/ Report \/ SaveMetrics

FaultNext == Cancel \/ Crash \/ InitForbidden \/ SendReceiveFails \/ CommitFails

Next ==
    \/ \E e \in SfEdits : EditInSf(e)
    \/ \E e \in PtEdits : EditInParatext(e)
    \/ StartSync
    \/ RunNext
    \/ FaultNext

Spec == Init /\ [][Next]_vars

\* A running sync goes on, and someone syncs the project again and again.
FairSpec == Spec /\ WF_vars(RunNext) /\ WF_vars(StartSync)

-----------------------------------------------------------------------------
(* Properties.                                                              *)

\* The recorded revision has been imported: at rest, the texts hold every edit of it.  Otherwise the
\* next sync checks that revision out, overwrites it with texts that lack some of its edits, and so
\* reverts them in Paratext.
SyncedImported == run.pc = "idle" => synced \subseteq sf

\* No sync, whatever step of it fails, takes an edit away from Scripture Forge or from the server.
NothingReverted == [][sf \subseteq sf' /\ server \subseteq server']_<<sf, server>>

\* The next sync can check the recorded revision out: the local repository has it, restored or not.
RevisionAvailable == run.pc = "idle" => synced \in repo.known

\* What a sync reports as successful has been exchanged in full: the texts it fetched are on the
\* server, all that it received is in Scripture Forge, and the revision recorded is just that.
SuccessExchanges ==
    run.pc = "metrics" /\ run.ok =>
        /\ run.fetched \subseteq server
        /\ run.work \subseteq sf
        /\ synced = run.work

\* Once edits and faults stop, syncing brings both sides to the same text for good.
Converges == <>[](sf = server)

\* The abstract specification: edits travel and are never lost.
Exchange == INSTANCE EditExchange
    WITH sf <- sf, server <- server, synced <- synced, SfEdits <- SfEdits, PtEdits <- PtEdits
ExchangeSpec == Exchange!Spec

=============================================================================
