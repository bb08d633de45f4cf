-------------------------- MODULE ParatextSyncProofs --------------------------
(* Proofs about ParatextSync: its type invariant and, as long as no user is refused, that syncing  *)
(* implements EditExchange, reverts no edit, and records only imported revisions, whatever edits   *)
(* are made and whichever other faults happen.                                                     *)
EXTENDS ParatextSync, TLAPS

USE DEF Steps, Edits

\* Type correctness, with every fault.

LEMMA GoToType ==
    ASSUME run \in Runs, NEW step \in Steps, GoTo(step)
    PROVE  run' \in Runs
BY DEF GoTo, Runs

LEMMA FailType ==
    ASSUME run \in Runs, Fail
    PROVE  run' \in Runs
BY DEF Fail, Runs

LEMMA FaultType ==
    ASSUME TypeOK, NEW f, Fault(f)
    PROVE  faults' \in 0 .. MaxFaults
BY FaultsAssumption DEF TypeOK, Fault

LEMMA CheckOutType ==
    ASSUME TypeOK, NEW b \in BOOLEAN, CheckOut(b)
    PROVE  run' \in Runs
BY DEF TypeOK, CheckOut, Runs

LEMMA MergedType ==
    ASSUME TypeOK
    PROVE  Merged \subseteq Edits /\ Pulled \in Repos /\ Shared \in Repos
BY DEF TypeOK, Merged, Merge, Pulled, Shared, Repos, Runs

LEMMA IdleType == Idle \in Runs
BY DEF Idle, Runs, Repos, NoRepo

LEMMA TypeInit == Init => TypeOK
<1> SUFFICES ASSUME Init PROVE TypeOK
  OBVIOUS
<1>1. repo \in Repos /\ backup \in Repos
  BY DEF Init, Repos, NoRepo
<1>2. faults \in 0 .. MaxFaults
  BY FaultsAssumption DEF Init
<1> QED
  BY <1>1, <1>2, IdleType DEF Init, TypeOK

LEMMA TypeRun ==
    ASSUME TypeOK, RunNext
    PROVE  TypeOK'
<1> USE DEF TypeOK, docVars
<1>1. CASE InitAsync
  BY <1>1, IdleType DEF InitAsync, Runs
<1>2. CASE Prepare
  BY <1>2, CheckOutType, FaultType DEF Prepare
<1>3. CASE WriteBooks
  BY <1>3 DEF WriteBooks, Runs
<1>4. CASE SendReceive
  BY <1>4, MergedType DEF SendReceive, Runs
<1>5. CASE UpdateDocs
  <2>1. CASE Fault("update") /\ Fail
    BY <1>5, <2>1, FailType, FaultType DEF UpdateDocs
  <2>2. CASE UpdateTextDocs /\ UNCHANGED faults
    <3>1. (~run.cancelled) \in BOOLEAN
      OBVIOUS
    <3>2. run' \in Runs
      BY <2>2, <3>1 DEF UpdateTextDocs, Runs
    <3> QED
      BY <1>5, <2>2, <3>2 DEF UpdateDocs
  <2> QED
    BY <1>5, <2>1, <2>2 DEF UpdateDocs, UpdateDocsAsync, UpdateTextDocs
<1>6. CASE CompleteCancelled
  BY <1>6, IdleType DEF CompleteCancelled
<1>7. CASE CompleteSuccessful
  <2>1. repo.public \in SUBSET Edits /\ (~run.error) \in BOOLEAN
    BY DEF Repos
  <2>2. run' \in Runs
    BY <1>7, <2>1 DEF CompleteSuccessful, Runs
  <2>3. synced' \subseteq Edits /\ errorCode' \in BOOLEAN
    BY <1>7, <2>1 DEF CompleteSuccessful
  <2> QED
    BY <1>7, <2>2, <2>3 DEF CompleteSuccessful
<1>8. CASE MoveAway \/ MoveBack \/ LeaveUnrestored
  <2>1. NoRepo \in Repos
    BY DEF NoRepo, Repos
  <2>2. InSync(repo) \in BOOLEAN /\ InSync(run.moved) \in BOOLEAN
    BY DEF InSync
  <2>3. run' \in Runs
    <3>1. CASE MoveAway
      BY <3>1 DEF MoveAway, Runs
    <3>2. CASE MoveBack
      BY <2>2, <3>2 DEF MoveBack, Runs
    <3>3. CASE LeaveUnrestored
      BY <2>2, <3>3 DEF LeaveUnrestored, Runs
    <3> QED
      BY <1>8, <3>1, <3>2, <3>3
  <2>4. repo' \in Repos
    BY <1>8, <2>1 DEF MoveAway, MoveBack, LeaveUnrestored, Runs
  <2> QED
    BY <1>8, <2>3, <2>4, FaultType DEF MoveAway, MoveBack, LeaveUnrestored
<1>9. CASE RemoveIds
  <2>1. run' \in Runs
    BY <1>9, GoToType, FailType DEF RemoveIds
  <2> QED
    BY <1>9, <2>1, FaultType DEF RemoveIds
<1>10. CASE BackupRepository
  BY <1>10, GoToType, FaultType DEF BackupRepository, NoRepo, Repos
<1>11. CASE CommitText
  <2>1. run' \in Runs /\ sf' \subseteq Edits
    BY <1>11 DEF CommitText, Runs
  <2> QED
    BY <1>11, <2>1 DEF CommitText
<1>12. CASE CommitProject \/ Committed
  <2>1. run' \in Runs
    BY <1>12 DEF CommitProject, Committed, Runs
  <2>2. synced' \subseteq Edits
    BY <1>12 DEF CommitProject, Committed, Runs
  <2> QED
    BY <1>12, <2>1, <2>2 DEF CommitProject, Committed
<1>13. CASE Rollback
  BY <1>13, IdleType DEF Rollback, Runs
<1>14. CASE Report
  BY <1>14, GoToType DEF Report, Runs
<1>15. CASE SaveMetrics
  BY <1>15, IdleType, FailType, FaultType DEF SaveMetrics
<1> QED
  BY <1>1, <1>2, <1>3, <1>4, <1>5, <1>6, <1>7, <1>8, <1>9, <1>10, <1>11, <1>12, <1>13, <1>14, <1>15
  DEF RunNext

LEMMA TypeNext ==
    ASSUME TypeOK, [Next]_vars
    PROVE  TypeOK'
<1> USE DEF TypeOK, docVars
<1>1. CASE \E e \in SfEdits : EditInSf(e)
  BY <1>1 DEF EditInSf
<1>2. CASE \E e \in PtEdits : EditInParatext(e)
  BY <1>2 DEF EditInParatext
<1>3. CASE StartSync
  BY <1>3, GoToType DEF StartSync
<1>4. CASE RunNext
  BY <1>4, TypeRun
<1>5. CASE Cancel
  BY <1>5, FaultType DEF Cancel, Runs
<1>6. CASE Crash
  BY <1>6, FaultType, IdleType DEF Crash
<1>7. CASE InitForbidden
  <2>1. run' \in Runs
    BY <1>7 DEF InitForbidden, Runs
  <2> QED
    BY <1>7, <2>1, FaultType DEF InitForbidden
<1>8. CASE SendReceiveFails
  BY <1>8, FaultType, FailType, MergedType DEF SendReceiveFails
<1>9. CASE CommitFails
  BY <1>9, FaultType, FailType DEF CommitFails
<1>10. CASE UNCHANGED vars
  BY <1>10 DEF vars
<1> QED
  BY <1>1, <1>2, <1>3, <1>4, <1>5, <1>6, <1>7, <1>8, <1>9, <1>10 DEF Next, FaultNext

\* Every reachable state is well typed, with every fault (RunAsync and CompleteSync).
THEOREM TypeCorrect == Spec => []TypeOK
<1> QED
  BY TypeInit, TypeNext, PTL DEF Spec

-----------------------------------------------------------------------------
(* The inductive invariant when no user is refused.                         *)

\* The error code, which makes CompleteSync write the revision early, is never set.
NoError == errorCode = FALSE /\ run.error = FALSE

\* The recorded revision is imported, at all times, and shared.
RecordInv == synced \subseteq sf /\ synced \subseteq server

\* A sync works on the recorded revision until it has merged; what it writes over it holds it.
BeforeMergeInv ==
    /\ run.pc \in {"prepare", "write", "share"} => run.revision = synced
    /\ run.pc = "share" => /\ run.work = run.fetched
                          /\ run.fetched \subseteq sf
                          /\ synced \subseteq run.fetched

\* A sync that has merged and not failed: from UpdateDocs up to the end of the commit.
Merging == run.pc = "update" \/ (run.ok /\ run.pc \in {"complete", "ids", "backup", "commit"})

\* The merge holds the texts fetched and the recorded revision, and is on the server.
AfterMergeInv ==
    Merging => /\ run.fetched \subseteq sf
               /\ run.fetched \subseteq run.work
               /\ run.work \subseteq server
               /\ synced \subseteq run.work
               /\ repo.public = run.work

\* The queued operations only add, and lead to texts that hold the merge.
QueueInv ==
    run.ok /\ run.pc \in {"complete", "ids", "backup", "commit"} =>
        /\ run.removes = {}
        /\ run.adds \subseteq run.work
        /\ run.work \subseteq sf \cup run.adds

\* The merge is recorded, or about to be.
CommitInv ==
    run.ok /\ run.pc \in {"ids", "backup", "commit"} =>
        IF run.record THEN run.revision = run.work ELSE synced = run.work

\* A committed sync has exchanged all it fetched and received.
ReportInv ==
    run.ok /\ run.pc \in {"report", "metrics"} =>
        /\ run.fetched \subseteq server
        /\ run.work \subseteq sf
        /\ synced = run.work

\* Only a sync that has not failed commits, and only one that has rolls back.
PathInv == /\ run.pc \in {"backup", "commit"} => run.ok
           /\ run.pc \in {"restore", "rollback"} => ~run.ok

SyncInv == /\ TypeOK /\ NoError /\ RecordInv /\ BeforeMergeInv
           /\ AfterMergeInv /\ QueueInv /\ CommitInv /\ ReportInv /\ PathInv

\* What a step does to the exchange it implements.
ExchangeStep == [Exchange!Next]_(Exchange!vars)

Parts == /\ NoError /\ RecordInv /\ BeforeMergeInv
         /\ AfterMergeInv /\ QueueInv /\ CommitInv /\ ReportInv /\ PathInv

\* A step that changes neither the texts nor the server nor the record is no step of the exchange.
LEMMA Stutter ==
    ASSUME UNCHANGED <<sf, server, synced>>
    PROVE  ExchangeStep
BY DEF ExchangeStep, Exchange!vars

\* A run that fails, or is over, owes nothing.
LEMMA FailParts ==
    ASSUME SyncInv, Fail \/ run' = Idle, UNCHANGED <<sf, server, synced, errorCode>>
    PROVE  Parts'
<1> USE DEF SyncInv, TypeOK, Parts, NoError, RecordInv, BeforeMergeInv, AfterMergeInv, Merging, QueueInv,
            CommitInv, ReportInv, PathInv
<1>1. CASE Fail
  BY <1>1 DEF Fail, Runs
<1>2. CASE run' = Idle
  BY <1>2 DEF Idle
<1> QED
  BY <1>1, <1>2

LEMMA EditSteps ==
    ASSUME SyncInv,
           (\E e \in SfEdits : EditInSf(e)) \/ (\E e \in PtEdits : EditInParatext(e))
    PROVE  Parts' /\ ExchangeStep
<1> USE DEF SyncInv, TypeOK, docVars
<1>1. ASSUME NEW e \in SfEdits, EditInSf(e)
      PROVE  Parts' /\ ExchangeStep
  <2>1. Parts'
    BY <1>1 DEF EditInSf, Parts, NoError, RecordInv, BeforeMergeInv, AfterMergeInv, Merging, QueueInv,
                CommitInv, ReportInv, PathInv
  <2> QED
    BY <1>1, <2>1 DEF EditInSf, ExchangeStep, Exchange!Next, Exchange!EditInSf
<1>2. ASSUME NEW e \in PtEdits, EditInParatext(e)
      PROVE  Parts' /\ ExchangeStep
  <2>1. Parts'
    BY <1>2 DEF EditInParatext, Parts, NoError, RecordInv, BeforeMergeInv, AfterMergeInv, Merging,
                QueueInv, CommitInv, ReportInv, PathInv
  <2> QED
    BY <1>2, <2>1 DEF EditInParatext, ExchangeStep, Exchange!Next, Exchange!EditInParatext
<1> QED
  BY <1>1, <1>2

LEMMA OutsideSteps ==
    ASSUME SyncInv, StartSync \/ Cancel \/ Crash
    PROVE  Parts' /\ ExchangeStep
<1> USE DEF SyncInv, Parts, NoError, RecordInv, BeforeMergeInv, AfterMergeInv, Merging, QueueInv,
            CommitInv, ReportInv, PathInv
<1>1. UNCHANGED <<sf, server, synced, errorCode, repo>>
  BY DEF StartSync, Cancel, Crash, docVars
<1>2. CASE StartSync
  <2>1. run'.pc = "init" /\ run'.error = run.error
    BY <1>2 DEF StartSync, GoTo, TypeOK, Runs
  <2> QED
    BY <1>1, <2>1, Stutter
<1>3. CASE Cancel
  <2>1. /\ run'.pc = run.pc /\ run'.ok = run.ok /\ run'.revision = run.revision
        /\ run'.error = run.error /\ run'.fetched = run.fetched /\ run'.work = run.work
        /\ run'.adds = run.adds /\ run'.removes = run.removes /\ run'.record = run.record
    BY <1>3 DEF Cancel, TypeOK, Runs
  <2> QED
    BY <1>1, <2>1, Stutter
<1>4. CASE Crash
  BY <1>1, <1>4, FailParts, Stutter DEF Crash
<1> QED
  BY <1>2, <1>3, <1>4

\* Up to send/receive only the run's own state and the backup change.
LEMMA PreparationSteps ==
    ASSUME SyncInv, InitAsync \/ Prepare \/ WriteBooks
    PROVE  Parts' /\ ExchangeStep
<1> USE DEF SyncInv, Parts, NoError, RecordInv, BeforeMergeInv, AfterMergeInv, Merging, QueueInv,
            CommitInv, ReportInv, PathInv
<1>1. UNCHANGED <<sf, server, synced, errorCode, repo>>
  BY DEF InitAsync, Prepare, WriteBooks, docVars
<1>2. CASE InitAsync
  <2>1. CASE run.cancelled
    BY <1>1, <1>2, <2>1, FailParts, Stutter DEF InitAsync
  <2>2. CASE ~run.cancelled
    <3>1. run'.pc = "prepare" /\ run'.revision = synced /\ run'.error = errorCode
      BY <1>2, <2>2 DEF InitAsync, TypeOK, Runs
    <3> QED
      BY <1>1, <3>1, Stutter
  <2> QED
    BY <2>1, <2>2
<1>3. CASE Prepare
  <2>1. /\ run'.pc = "write" \/ (run'.pc = "complete" /\ ~run'.ok)
        /\ run'.revision = run.revision /\ run'.error = run.error
    BY <1>3 DEF Prepare, CheckOut, TypeOK, Runs
  <2> QED
    BY <1>1, <1>3, <2>1, Stutter DEF Prepare
<1>4. CASE WriteBooks
  <2>1. /\ run'.pc = "share" \/ (run'.pc = "complete" /\ ~run'.ok)
        /\ run'.revision = run.revision /\ run'.error = run.error
        /\ run'.fetched = sf /\ run'.work = sf
    BY <1>4 DEF WriteBooks, TypeOK, Runs
  <2> QED
    BY <1>1, <1>4, <2>1, Stutter DEF WriteBooks
<1> QED
  BY <1>2, <1>3, <1>4

\* The merge keeps what either side has, because Scripture Forge holds the recorded revision.
LEMMA MergedIsUnion ==
    ASSUME SyncInv, run.pc = "share"
    PROVE  Merged = run.fetched \cup server
BY DEF SyncInv, BeforeMergeInv, RecordInv, Merged, Merge

\* ... so send/receive only adds to the server, and only what Scripture Forge has.
LEMMA ShareSteps ==
    ASSUME SyncInv, SendReceive \/ SendReceiveFails
    PROVE  Parts' /\ ExchangeStep
<1> USE DEF SyncInv, Parts, NoError, RecordInv, BeforeMergeInv, AfterMergeInv, Merging, QueueInv,
            CommitInv, ReportInv, PathInv
<1>1. UNCHANGED <<sf, synced, errorCode>> /\ run.pc = "share"
  BY DEF SendReceive, SendReceiveFails, docVars
<1>2. server' = server \/ server' = run.fetched \cup server
  BY MergedIsUnion, <1>1 DEF SendReceive, SendReceiveFails
<1>3. ExchangeStep
  <2>1. CASE server' = server
    BY <1>1, <2>1, Stutter
  <2>2. CASE server' = run.fetched \cup server
    BY <1>1, <2>2 DEF ExchangeStep, Exchange!Next, Exchange!Share
  <2> QED
    BY <1>2, <2>1, <2>2
<1>4. CASE SendReceive
  <2>1. /\ run'.pc = "update" \/ (run'.pc = "complete" /\ ~run'.ok)
        /\ run'.error = run.error /\ run'.fetched = run.fetched /\ run'.work = Merged
    BY <1>4 DEF SendReceive, TypeOK, Runs
  <2>2. server' = Merged /\ repo'.public = Merged
    BY <1>4 DEF SendReceive, Shared
  <2> QED
    BY <1>1, <1>3, <2>1, <2>2, MergedIsUnion
<1>5. CASE SendReceiveFails
  <2>1. run'.pc = "complete" /\ ~run'.ok /\ run'.error = run.error
    BY <1>5 DEF SendReceiveFails, Fail, TypeOK, Runs
  <2> QED
    BY <1>1, <1>2, <1>3, <2>1
<1> QED
  BY <1>4, <1>5

\* UpdateDocs and CompleteSync, up to the backup, change only the run and the repository: with no
\* error code to clear, nothing is written early.
LEMMA UpdateStep ==
    ASSUME SyncInv, UpdateDocs
    PROVE  Parts' /\ ExchangeStep
<1> USE DEF SyncInv, Parts, NoError, RecordInv, BeforeMergeInv, AfterMergeInv, Merging, QueueInv,
            CommitInv, ReportInv, PathInv
<1>1. UNCHANGED <<sf, server, synced, errorCode, repo>> /\ run.pc = "update"
  BY DEF UpdateDocs, docVars
<1>2. CASE Fail
  BY <1>1, <1>2, FailParts, Stutter
<1>3. CASE UpdateTextDocs
  <2>1. /\ run'.pc = "complete" /\ run'.error = run.error
        /\ run'.fetched = run.fetched /\ run'.work = run.work
        /\ run'.adds = run.work \ run.fetched /\ run'.removes = run.fetched \ run.work
    BY <1>3 DEF UpdateTextDocs, TypeOK, Runs
  <2> QED
    BY <1>1, <2>1, Stutter
<1> QED
  BY <1>2, <1>3 DEF UpdateDocs, UpdateDocsAsync

LEMMA CompleteSteps ==
    ASSUME SyncInv,
           CompleteCancelled \/ CompleteSuccessful \/ MoveAway \/ MoveBack \/ LeaveUnrestored
    PROVE  Parts' /\ ExchangeStep
<1> USE DEF SyncInv, Parts, NoError, RecordInv, BeforeMergeInv, AfterMergeInv, Merging, QueueInv,
            CommitInv, ReportInv, PathInv
<1>1. UNCHANGED <<sf, server, synced, errorCode>>
  BY DEF CompleteCancelled, CompleteSuccessful, MoveAway, MoveBack, LeaveUnrestored, docVars
<1>2. CASE CompleteCancelled
  BY <1>1, <1>2, FailParts, Stutter DEF CompleteCancelled
<1>3. CASE CompleteSuccessful
  <2>1. run.pc = "complete" /\ run.ok /\ repo' = repo
    BY <1>3 DEF CompleteSuccessful
  <2>2. /\ run'.pc = "ids" /\ run'.ok = run.ok /\ run'.revision = repo.public
        /\ run'.error = FALSE /\ run'.record = TRUE
        /\ run'.fetched = run.fetched /\ run'.work = run.work
        /\ run'.adds = run.adds /\ run'.removes = run.removes
    BY <1>3 DEF CompleteSuccessful, TypeOK, Runs
  <2> QED
    BY <1>1, <2>1, <2>2, Stutter
<1>4. CASE MoveAway \/ MoveBack \/ LeaveUnrestored
  <2>1. run'.pc \in {"restore", "ids"} /\ ~run'.ok /\ run'.error = run.error
    BY <1>4 DEF MoveAway, MoveBack, LeaveUnrestored, TypeOK, Runs
  <2> QED
    BY <1>1, <2>1, Stutter
<1> QED
  BY <1>2, <1>3, <1>4

LEMMA IdsAndBackupSteps ==
    ASSUME SyncInv, RemoveIds \/ BackupRepository
    PROVE  Parts' /\ ExchangeStep
<1> USE DEF SyncInv, Parts, NoError, RecordInv, BeforeMergeInv, AfterMergeInv, Merging, QueueInv,
            CommitInv, ReportInv, PathInv
<1>1. UNCHANGED <<sf, server, synced, errorCode, repo>>
  BY DEF RemoveIds, BackupRepository, docVars
<1>2. CASE Fail
  BY <1>1, <1>2, FailParts, Stutter
<1>3. ASSUME NEW step \in {"backup", "rollback", "commit"}, GoTo(step),
             run.pc \in {"ids", "backup"},
             IF run.ok THEN step \in {"backup", "commit"} ELSE step = "rollback"
      PROVE  Parts' /\ ExchangeStep
  <2>1. /\ run'.pc = step /\ run'.ok = run.ok /\ run'.revision = run.revision
        /\ run'.error = run.error /\ run'.record = run.record
        /\ run'.fetched = run.fetched /\ run'.work = run.work
        /\ run'.adds = run.adds /\ run'.removes = run.removes
    BY <1>3 DEF GoTo, TypeOK, Runs
  <2> QED
    BY <1>1, <1>3, <2>1, Stutter
<1> QED
  BY <1>2, <1>3 DEF RemoveIds, BackupRepository

LEMMA CommitStep ==
    ASSUME SyncInv, CommitText \/ CommitProject \/ Committed
    PROVE  Parts' /\ ExchangeStep
<1> USE DEF SyncInv, Parts, NoError, RecordInv, BeforeMergeInv, AfterMergeInv, Merging, QueueInv,
            CommitInv, ReportInv, PathInv
<1>1. UNCHANGED <<server, errorCode, repo>> /\ run.pc = "commit"
  BY DEF CommitText, CommitProject, Committed, docVars
<1>2. CASE CommitText
  <2>1. PICK e \in run.adds : sf' = sf \cup {e} /\ run' = [run EXCEPT !.adds = @ \ {e}]
    BY <1>1, <1>2 DEF CommitText
  <2>2. /\ run'.pc = "commit" /\ run'.ok = run.ok /\ run'.revision = run.revision
        /\ run'.error = run.error /\ run'.record = run.record
        /\ run'.fetched = run.fetched /\ run'.work = run.work
        /\ run'.adds = run.adds \ {e} /\ run'.removes = run.removes
    BY <1>1, <2>1 DEF TypeOK, Runs
  <2>3. synced' = synced
    BY <1>2 DEF CommitText, docVars
  <2>4. Parts'
    BY <1>1, <2>1, <2>2, <2>3
  <2>5. e \in server
    BY <1>1
  <2>6. ExchangeStep
    BY <1>1, <2>1, <2>3, <2>5 DEF ExchangeStep, Exchange!Next, Exchange!Import
  <2> QED
    BY <2>4, <2>6
<1>3. CASE CommitProject
  <2>1. /\ run'.pc = "commit" /\ run'.ok = run.ok /\ run'.revision = run.revision
        /\ run'.error = run.error /\ run'.record = FALSE
        /\ run'.fetched = run.fetched /\ run'.work = run.work
        /\ run'.adds = run.adds /\ run'.removes = run.removes
    BY <1>1, <1>3 DEF CommitProject, TypeOK, Runs
  <2>2. /\ synced' = run.work /\ run.work \subseteq sf /\ run.work \subseteq server
        /\ synced \subseteq run.work /\ sf' = sf
    BY <1>1, <1>3 DEF CommitProject
  <2>3. Parts'
    BY <1>1, <2>1, <2>2
  <2>4. ExchangeStep
    BY <1>1, <2>2 DEF ExchangeStep, Exchange!Next, Exchange!Record
  <2> QED
    BY <2>3, <2>4
<1>4. CASE Committed
  <2>1. /\ run'.pc = "report" /\ run'.ok = run.ok /\ run'.error = run.error
        /\ run'.fetched = run.fetched /\ run'.work = run.work
    BY <1>4 DEF Committed, TypeOK, Runs
  <2>2. UNCHANGED <<sf, synced>> /\ run.adds = {} /\ ~run.record
    BY <1>4 DEF Committed, docVars
  <2> QED
    BY <1>1, <2>1, <2>2, Stutter
<1> QED
  BY <1>2, <1>3, <1>4

LEMMA EndSteps ==
    ASSUME SyncInv, CommitFails \/ Rollback \/ Report \/ SaveMetrics
    PROVE  Parts' /\ ExchangeStep
<1> USE DEF SyncInv, Parts, NoError, RecordInv, BeforeMergeInv, AfterMergeInv, Merging, QueueInv,
            CommitInv, ReportInv, PathInv
<1>1. UNCHANGED <<sf, server, synced, errorCode, repo>>
  BY DEF CommitFails, Rollback, Report, SaveMetrics, docVars
<1>2. CASE Fail \/ run' = Idle
  BY <1>1, <1>2, FailParts, Stutter
<1>3. CASE Rollback /\ run' # Idle
  <2>1. run'.pc = "report" /\ run'.ok = run.ok /\ run'.error = run.error /\ ~run.ok
    BY <1>3 DEF Rollback, TypeOK, Runs
  <2> QED
    BY <1>1, <2>1, Stutter
<1>4. CASE Report
  <2>1. /\ run.pc = "report" /\ run'.pc = "metrics" /\ run'.ok = run.ok /\ run'.error = run.error
        /\ run'.fetched = run.fetched /\ run'.work = run.work
    BY <1>4 DEF Report, GoTo, TypeOK, Runs
  <2> QED
    BY <1>1, <2>1, Stutter
<1> QED
  BY <1>2, <1>3, <1>4 DEF CommitFails, SaveMetrics

\* The initial states are the exchange's, and every step but a refusal is a step of it.
LEMMA InitSync == Init => SyncInv /\ Exchange!Init
BY TypeInit
DEF Init, SyncInv, NoError, RecordInv, BeforeMergeInv, AfterMergeInv, Merging, QueueInv, CommitInv, ReportInv,
    PathInv, Idle, Exchange!Init

LEMMA NextSync ==
    ASSUME "permission" \notin Faults, SyncInv, [Next]_vars
    PROVE  SyncInv' /\ ExchangeStep
<1>1. TypeOK'
  BY TypeNext DEF SyncInv
<1>2. Parts' /\ ExchangeStep
  <2>1. CASE RunNext
    BY <2>1, PreparationSteps, ShareSteps, UpdateStep, CompleteSteps, IdsAndBackupSteps, CommitStep,
       EndSteps
    DEF RunNext
  <2>2. CASE FaultNext
    <3>1. ~InitForbidden
      BY DEF InitForbidden, Fault
    <3> QED
      BY <2>2, <3>1, OutsideSteps, ShareSteps, EndSteps DEF FaultNext
  <2>3. CASE StartSync
    BY <2>3, OutsideSteps
  <2>4. CASE (\E e \in SfEdits : EditInSf(e)) \/ (\E e \in PtEdits : EditInParatext(e))
    BY <2>4, EditSteps
  <2>5. CASE UNCHANGED vars
    BY <2>5, Stutter
    DEF vars, docVars, SyncInv, Parts, NoError, RecordInv, BeforeMergeInv, AfterMergeInv, Merging, QueueInv,
        CommitInv, ReportInv, PathInv
  <2> QED
    BY <2>1, <2>2, <2>3, <2>4, <2>5 DEF Next
<1> QED
  BY <1>1, <1>2 DEF SyncInv, Parts

\* With every other fault, the inductive invariant holds in every reachable state.
THEOREM SyncInvariance == ("permission" \notin Faults) => (Spec => []SyncInv)
<1> SUFFICES ASSUME "permission" \notin Faults
             PROVE  Spec => []SyncInv
  OBVIOUS
<1>1. SyncInv /\ [Next]_vars => SyncInv'
  BY NextSync
<1> QED
  BY InitSync, <1>1, PTL DEF Spec

\* RunAsync records a revision as synced only once the texts hold it: whatever fails in between,
\* CommitTransactionAsync submits the project's operation last.
THEOREM RecordedIsImported == ("permission" \notin Faults) => (Spec => []SyncedImported)
<1> SUFFICES ASSUME "permission" \notin Faults
             PROVE  Spec => []SyncedImported
  OBVIOUS
<1>1. SyncInv => SyncedImported
  BY DEF SyncInv, RecordInv, SyncedImported
<1> QED
  BY SyncInvariance, <1>1, PTL

\* A sync reported as successful has shared the texts it fetched, imported what it received, and
\* recorded just that.
THEOREM SuccessIsExchange == ("permission" \notin Faults) => (Spec => []SuccessExchanges)
<1> SUFFICES ASSUME "permission" \notin Faults
             PROVE  Spec => []SuccessExchanges
  OBVIOUS
<1>1. SyncInv => SuccessExchanges
  BY DEF SyncInv, ReportInv, SuccessExchanges
<1> QED
  BY SyncInvariance, <1>1, PTL

\* The synchronization implements the exchange of edits: initial states are initial, and every step
\* of the runner, of a fault or of a user is a step of EditExchange or changes nothing there.
THEOREM Implements == ("permission" \notin Faults) => (Spec => ExchangeSpec)
<1> SUFFICES ASSUME "permission" \notin Faults
             PROVE  Spec => ExchangeSpec
  OBVIOUS
<1>1. SyncInv /\ [Next]_vars => [Exchange!Next]_(Exchange!vars)
  BY NextSync DEF ExchangeStep
<1>2. Init => Exchange!Init
  BY InitSync
<1> QED
  BY SyncInvariance, <1>1, <1>2, PTL DEF Spec, ExchangeSpec, Exchange!Spec

\* No sync takes an edit away from either side, at whichever step it fails.
THEOREM NoRevert == ("permission" \notin Faults) => (Spec => NothingReverted)
<1> SUFFICES ASSUME "permission" \notin Faults
             PROVE  Spec => NothingReverted
  OBVIOUS
<1>1. SyncInv /\ [Next]_vars => [sf \subseteq sf' /\ server \subseteq server']_<<sf, server>>
  <2> SUFFICES ASSUME SyncInv, [Next]_vars
               PROVE  sf \subseteq sf' /\ server \subseteq server'
    OBVIOUS
  <2>1. ExchangeStep
    BY NextSync
  <2> QED
    BY <2>1 DEF ExchangeStep, Exchange!Next, Exchange!vars, Exchange!EditInSf, Exchange!EditInParatext,
                Exchange!Share, Exchange!Import, Exchange!Record
<1> QED
  BY SyncInvariance, <1>1, PTL DEF Spec, NothingReverted

-----------------------------------------------------------------------------
(* The recorded revision can be checked out, when no backup fails and the    *)
(* process never stops within a restore.                                     *)

\* While a restore has moved the repository away, that one and the bundle have the revision.
AvailableInv ==
    /\ IF run.pc = "restore" THEN synced \in run.moved.known /\ backup.known # {}
       ELSE synced \in repo.known
    /\ backup.known # {} => synced \in backup.known
    /\ Merging => run.work \in repo.known
    /\ run.pc = "commit" => run.work \in backup.known

\* A step within a run that leaves the repository, its backup and the record alone, and does not
\* come to a merge or a commit anew.
LEMMA AvailableFrame ==
    ASSUME AvailableInv, UNCHANGED <<synced, repo, backup>>,
           IF run.pc = "restore" THEN run'.pc = "restore" /\ run'.moved = run.moved
           ELSE run'.pc # "restore",
           Merging' => Merging /\ run'.work = run.work,
           run'.pc = "commit" => run.pc = "commit" /\ run'.work = run.work
    PROVE  AvailableInv'
BY DEF AvailableInv

\* A run that fails, or is over, is neither committing nor restoring.
LEMMA FailEnds ==
    ASSUME TypeOK, Fail \/ run' = Idle
    PROVE  ~Merging' /\ run'.pc \notin {"commit", "restore"}
<1>1. CASE Fail
  BY <1>1 DEF Fail, TypeOK, Runs, Merging
<1>2. CASE run' = Idle
  BY <1>2 DEF Idle, Merging
<1> QED
  BY <1>1, <1>2

LEMMA AvailableRun ==
    ASSUME "backup" \notin Faults, SyncInv, AvailableInv, RunNext
    PROVE  AvailableInv'
<1> USE DEF SyncInv, Merging
<1>1. CASE InitAsync \/ WriteBooks \/ CompleteCancelled \/ Rollback \/ Report \/ SaveMetrics
  <2>1. UNCHANGED <<synced, repo, backup>> /\ run.pc # "restore"
    BY <1>1 DEF InitAsync, WriteBooks, CompleteCancelled, Rollback, Report, SaveMetrics, docVars
  <2>2. CASE Fail \/ run' = Idle
    BY <2>1, <2>2, FailEnds, AvailableFrame
  <2>3. CASE ~(Fail \/ run' = Idle)
    <3>1. CASE InitAsync
      BY <2>1, <2>3, <3>1, AvailableFrame DEF InitAsync, TypeOK, Runs
    <3>2. CASE WriteBooks
      BY <2>1, <2>3, <3>2, AvailableFrame DEF WriteBooks, TypeOK, Runs
    <3>3. CASE Rollback
      BY <2>1, <2>3, <3>3, AvailableFrame DEF Rollback, TypeOK, Runs
    <3>4. CASE Report
      BY <2>1, <2>3, <3>4, AvailableFrame DEF Report, GoTo, TypeOK, Runs
    <3> QED
      BY <1>1, <2>3, <3>1, <3>2, <3>3, <3>4 DEF CompleteCancelled, SaveMetrics
  <2> QED
    BY <2>2, <2>3
<1>2. CASE Prepare
  <2>1. UNCHANGED <<synced, repo>> /\ backup' \in {backup, repo} /\ run.pc # "restore"
    BY <1>2 DEF Prepare, docVars
  <2>2. run'.pc \in {"write", "complete"} /\ (run'.pc = "complete" => ~run'.ok)
    BY <1>2 DEF Prepare, CheckOut, TypeOK, Runs
  <2> QED
    BY <2>1, <2>2 DEF AvailableInv
<1>3. CASE SendReceive
  <2>1. /\ UNCHANGED <<synced, backup>> /\ repo.known \subseteq repo'.known
        /\ Merged \in repo'.known /\ run.pc # "restore"
    BY <1>3 DEF SendReceive, Shared, docVars
  <2>2. run'.work = Merged /\ run'.pc \notin {"commit", "restore"}
    BY <1>3 DEF SendReceive, TypeOK, Runs
  <2> QED
    BY <2>1, <2>2 DEF AvailableInv
<1>4. CASE UpdateDocs
  <2>1. UNCHANGED <<synced, repo, backup>> /\ run.pc = "update"
    BY <1>4 DEF UpdateDocs, docVars
  <2>2. run'.pc = "complete" /\ run'.work = run.work
    BY <1>4 DEF UpdateDocs, UpdateDocsAsync, UpdateTextDocs, Fail, TypeOK, Runs
  <2> QED
    BY <2>1, <2>2, AvailableFrame
<1>5. CASE CompleteSuccessful
  <2>1. UNCHANGED <<synced, repo, backup>> /\ run.pc = "complete" /\ run.ok
    BY <1>5 DEF CompleteSuccessful, NoError, docVars
  <2>2. run'.pc = "ids" /\ run'.work = run.work
    BY <1>5 DEF CompleteSuccessful, TypeOK, Runs
  <2> QED
    BY <2>1, <2>2, AvailableFrame
<1>6. CASE MoveAway \/ MoveBack \/ LeaveUnrestored
  <2>1. UNCHANGED <<synced, backup>>
    BY <1>6 DEF MoveAway, MoveBack, LeaveUnrestored, docVars
  <2>2. CASE MoveAway
    <3>1. run'.pc = "restore" /\ run'.moved = repo /\ ~run'.ok
      BY <2>2 DEF MoveAway, TypeOK, Runs
    <3> QED
      BY <2>1, <2>2, <3>1 DEF MoveAway, HasBackup, AvailableInv
  <2>3. CASE MoveBack
    <3>1. run'.pc = "ids" /\ ~run'.ok /\ (repo' = backup \/ repo' = run.moved)
      BY <2>3 DEF MoveBack, PathInv, TypeOK, Runs
    <3> QED
      BY <2>1, <2>3, <3>1 DEF MoveBack, AvailableInv
  <2>4. CASE LeaveUnrestored
    <3>1. run'.pc = "ids" /\ ~run'.ok /\ repo' = repo
      BY <2>4 DEF LeaveUnrestored, TypeOK, Runs
    <3> QED
      BY <2>1, <2>4, <3>1 DEF LeaveUnrestored, AvailableInv
  <2> QED
    BY <1>6, <2>2, <2>3, <2>4
<1>7. CASE RemoveIds
  <2>1. UNCHANGED <<synced, repo, backup>> /\ run.pc = "ids"
    BY <1>7 DEF RemoveIds, docVars
  <2>2. CASE Fail
    <3>1. run'.pc = "complete" /\ ~run'.ok
      BY <2>2 DEF Fail, TypeOK, Runs
    <3> QED
      BY <2>1, <3>1, AvailableFrame
  <2>3. CASE GoTo(IF run.ok THEN "backup" ELSE "rollback")
    <3>1. /\ run'.pc = IF run.ok THEN "backup" ELSE "rollback"
          /\ run'.work = run.work /\ run'.ok = run.ok
      BY <2>3 DEF GoTo, TypeOK, Runs
    <3> QED
      BY <2>1, <3>1, AvailableFrame
  <2> QED
    BY <1>7, <2>2, <2>3 DEF RemoveIds
<1>8. CASE BackupRepository
  <2>1. UNCHANGED <<synced, repo>> /\ run.pc = "backup" /\ backup' = repo
    BY <1>8 DEF BackupRepository, Fault, docVars
  <2>2. run'.work = run.work /\ run'.pc = "commit" /\ Merging
    BY <1>8, <2>1 DEF BackupRepository, GoTo, PathInv, TypeOK, Runs
  <2> QED
    BY <2>1, <2>2 DEF AvailableInv
<1>9. CASE CommitText
  <2>1. UNCHANGED <<synced, repo, backup>> /\ run.pc = "commit"
    BY <1>9 DEF CommitText, docVars
  <2>2. run'.pc = run.pc /\ run'.work = run.work /\ run'.ok = run.ok
    BY <1>9 DEF CommitText, TypeOK, Runs
  <2> QED
    BY <2>1, <2>2, AvailableFrame
<1>10. CASE CommitProject
  <2>1. run.pc = "commit" /\ run.ok /\ run.record
    BY <1>10 DEF CommitProject, PathInv
  <2>2. UNCHANGED <<repo, backup>> /\ synced' = run.work
    BY <1>10, <2>1 DEF CommitProject, CommitInv
  <2>3. run'.pc = run.pc /\ run'.work = run.work /\ run'.ok = run.ok
    BY <1>10 DEF CommitProject, TypeOK, Runs
  <2> QED
    BY <2>1, <2>2, <2>3 DEF AvailableInv
<1>11. CASE Committed
  <2>1. UNCHANGED <<synced, repo, backup>> /\ run.pc # "restore"
    BY <1>11 DEF Committed, docVars
  <2>2. run'.pc = "report"
    BY <1>11 DEF Committed, TypeOK, Runs
  <2> QED
    BY <2>1, <2>2, AvailableFrame
<1> QED
  BY <1>1, <1>2, <1>3, <1>4, <1>5, <1>6, <1>7, <1>8, <1>9, <1>10, <1>11 DEF RunNext

LEMMA AvailableNext ==
    ASSUME "permission" \notin Faults, Faults \cap {"backup", "crashInRestore"} = {},
           SyncInv, AvailableInv, [Next]_vars
    PROVE  AvailableInv'
<1> USE DEF SyncInv, Merging
<1>1. CASE RunNext
  BY <1>1, AvailableRun
<1>2. CASE (\E e \in SfEdits : EditInSf(e)) \/ (\E e \in PtEdits : EditInParatext(e))
           \/ UNCHANGED vars
  <2>1. UNCHANGED <<synced, repo, backup, run>>
    BY <1>2 DEF EditInSf, EditInParatext, vars, docVars
  <2> QED
    BY <2>1, AvailableFrame
<1>3. CASE StartSync \/ Crash \/ CommitFails
  <2>1. UNCHANGED <<synced, repo, backup>> /\ run.pc # "restore"
    BY <1>3 DEF StartSync, Crash, CommitFails, Fault, docVars
  <2>2. CASE StartSync
    BY <2>1, <2>2, AvailableFrame DEF StartSync, GoTo, TypeOK, Runs
  <2>3. CASE Crash \/ CommitFails
    BY <2>1, <2>3, FailEnds, AvailableFrame DEF Crash, CommitFails
  <2> QED
    BY <1>3, <2>2, <2>3
<1>4. CASE Cancel
  <2>1. UNCHANGED <<synced, repo, backup>>
    BY <1>4 DEF Cancel, docVars
  <2>2. run'.pc = run.pc /\ run'.work = run.work /\ run'.ok = run.ok /\ run'.moved = run.moved
    BY <1>4 DEF Cancel, TypeOK, Runs
  <2> QED
    BY <2>1, <2>2, AvailableFrame
<1>5. CASE SendReceiveFails
  <2>1. UNCHANGED <<synced, backup>> /\ repo.known \subseteq repo'.known /\ run.pc # "restore"
    BY <1>5 DEF SendReceiveFails, Pulled, Shared, docVars
  <2>2. run'.pc = "complete" /\ ~run'.ok
    BY <1>5 DEF SendReceiveFails, Fail, TypeOK, Runs
  <2> QED
    BY <2>1, <2>2 DEF AvailableInv
<1>6. ~InitForbidden
  BY DEF InitForbidden, Fault
<1> QED
  BY <1>1, <1>2, <1>3, <1>4, <1>5, <1>6 DEF Next, FaultNext

\* As long as backups succeed and the process does not stop within a restore, the recorded revision is
\* in the local repository, restored, left or moved back: the backup is renewed (CompleteSync) before
\* the revision is recorded (CommitTransactionAsync).
THEOREM RecordedIsAvailable ==
    Faults \cap {"permission", "backup", "crashInRestore"} = {} => (Spec => []RevisionAvailable)
<1> SUFFICES ASSUME "permission" \notin Faults, Faults \cap {"backup", "crashInRestore"} = {}
             PROVE  Spec => []RevisionAvailable
  OBVIOUS
<1>1. Init => AvailableInv
  BY DEF Init, AvailableInv, NoRepo, Merging, Idle
<1>2. SyncInv /\ AvailableInv /\ [Next]_vars => AvailableInv'
  BY AvailableNext
<1>3. AvailableInv => RevisionAvailable
  BY DEF AvailableInv, RevisionAvailable
<1> QED
  BY SyncInvariance, <1>1, <1>2, <1>3, PTL DEF Spec

=============================================================================
