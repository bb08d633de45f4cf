-------------------------- MODULE OfflineFilesProofs ---------------------------
(***************************************************************************)
(* What holds of a recording for every number of recordings, of lost          *)
(* connections, of reloads and of overlapping runs of syncFiles.             *)
(***************************************************************************)
EXTENDS OfflineFiles, FiniteSetTheorems, TLAPS

-----------------------------------------------------------------------------
(* Types                                                                     *)

LEMMA Bounded == MaxRecordings \in Nat /\ MaxPauses \in Nat /\ MaxReloads \in Nat
BY FilesAssumption, Zenon DEF FilesAssumption

LEMMA OneMore == ASSUME NEW m \in Nat, NEW n \in 0 .. m, n < m PROVE n + 1 \in 0 .. m
OBVIOUS

LEMMA TaskTypes ==
    /\ IdleTask \in Tasks /\ NoFile \in Files /\ DeletionFileData \in Files
    /\ NoUrl \in Urls /\ NoRec \in Recs
    /\ \A r \in Recs : UploadFileData(r) \in Files
    /\ \A r, q \in Recs : StorageFileData(r, q) \in Files
    /\ \A r \in Recs : Url("blob", r) \in Urls /\ Url("server", r) \in Urls
<1>1. NoRec \in Recs
  BY Bounded DEF Recs, NoRec
<1>2. NoFile \in Files /\ DeletionFileData \in Files
  BY <1>1 DEF Files, Kinds, NoFile, DeletionFileData
<1>3. NoUrl \in Urls /\ \A r \in Recs : Url("blob", r) \in Urls /\ Url("server", r) \in Urls
  BY <1>1 DEF Urls, NoUrl, Url
<1>4. /\ \A r \in Recs : UploadFileData(r) \in Files
      /\ \A r, q \in Recs : StorageFileData(r, q) \in Files
  BY <1>1 DEF Files, Kinds, NoFile, UploadFileData, StorageFileData
<1>5. IdleTask \in Tasks
  BY <1>1, <1>2, <1>3 DEF Tasks, IdleTask, Pcs
<1> QED
  BY <1>1, <1>2, <1>3, <1>4, <1>5

LEMMA GoTyped ==
    ASSUME FilesTypeOK, NEW t \in Slots, NEW pc \in Pcs, Go(t, pc)
    PROVE  tasks' \in [Slots -> Tasks]
<1>1. tasks[t] \in Tasks /\ tasks \in [Slots -> Tasks]
  BY DEF FilesTypeOK
<1>2. (IF pc = "idle" THEN IdleTask ELSE [tasks[t] EXCEPT !.pc = pc, !.file = NoFile]) \in Tasks
  BY <1>1, TaskTypes DEF Tasks
<1> QED
  BY <1>1, <1>2 DEF Go

LEMMA EndTyped ==
    ASSUME FilesTypeOK, NEW t \in Slots, End(t)
    PROVE  tasks' \in [Slots -> Tasks]
BY TaskTypes DEF FilesTypeOK, End

LEMMA FilesInitType == FilesInit => FilesTypeOK
<1> SUFFICES ASSUME FilesInit PROVE FilesTypeOK
  OBVIOUS
<1>1. NoRec = 0 /\ 0 \in 0 .. MaxPauses /\ 0 \in 0 .. MaxReloads
  BY Bounded DEF NoRec
<1> QED
  BY <1>1, TaskTypes DEF FilesInit, FilesTypeOK

LEMMA UploadingType ==
    ASSUME FilesTypeOK, NEW t \in Slots, Uploading(t)
    PROVE  FilesTypeOK'
<1> USE TaskTypes DEF FilesTypeOK
<1>1. tasks[t].rec \in Recs /\ tasks[t].url \in Urls /\ {"store", "posted", "drop"} \subseteq Pcs
  BY DEF Tasks, Pcs
<1>2. CASE CannotPost(t) \/ Post(t) \/ AnswerLost(t)
  <2>1. tasks' \in [Slots -> Tasks]
    BY <1>1, <1>2, GoTyped DEF CannotPost, Post, AnswerLost
  <2> QED
    BY <1>1, <1>2, <2>1 DEF CannotPost, Post, AnswerLost
<1>3. CASE Posted(t)
  BY <1>1, <1>3 DEF Posted, Tasks, Pcs
<1>4. CASE StoreUpload(t)
  BY <1>1, <1>4 DEF StoreUpload, Tasks, Pcs
<1>5. CASE SetUrl(t)
  <2>1. tasks' \in [Slots -> Tasks]
    BY <1>1, <1>5, GoTyped, EndTyped DEF SetUrl
  <2> QED
    BY <1>1, <1>5, <2>1 DEF SetUrl
<1> QED
  BY <1>2, <1>3, <1>4, <1>5 DEF Uploading

LEMMA CachingType ==
    ASSUME FilesTypeOK, NEW t \in Slots, Caching(t)
    PROVE  FilesTypeOK'
<1> USE TaskTypes DEF FilesTypeOK
<1>1. /\ tasks[t].url.rec \in Recs /\ tasks[t].file \in Files
      /\ AfterCache(t) \in Pcs /\ "cacheFetch" \in Pcs
  BY DEF Tasks, Urls, AfterCache, Pcs
<1>2. CASE CacheGet(t)
  <2>1. tasks' \in [Slots -> Tasks]
    BY <1>1, <1>2, GoTyped DEF CacheGet
  <2> QED
    BY <1>2, <2>1 DEF CacheGet
<1>3. CASE CacheFetch(t)
  <2>1. CASE Go(t, AfterCache(t))
    BY <1>1, <1>3, <2>1, GoTyped DEF CacheFetch
  <2>2. CASE tasks' = [tasks EXCEPT ![t].pc = "cachePut",
                                    ![t].file = StorageFileData(remote, tasks[t].url.rec)]
    BY <1>1, <1>3, <2>2 DEF CacheFetch, Tasks, Pcs
  <2> QED
    BY <1>3, <2>1, <2>2 DEF CacheFetch
<1>4. CASE CachePut(t)
  <2>1. tasks' \in [Slots -> Tasks]
    BY <1>1, <1>4, GoTyped DEF CachePut
  <2> QED
    BY <1>1, <1>4, <2>1 DEF CachePut
<1> QED
  BY <1>2, <1>3, <1>4 DEF Caching

LEMMA DeletingType ==
    ASSUME FilesTypeOK, NEW t \in Slots, Deleting(t)
    PROVE  FilesTypeOK'
<1> USE TaskTypes DEF FilesTypeOK
<1>1. AfterPurge(t) \in Pcs /\ {"purge", "erased", "idle", "drop", "check"} \subseteq Pcs
  BY DEF AfterPurge, Pcs
<1>2. tasks' \in [Slots -> Tasks]
  BY <1>1, GoTyped, EndTyped DEF Deleting, PurgeGet, Purge, Erase, Erased, EraseFails
<1> QED
  BY <1>2 DEF Deleting, PurgeGet, Purge, Erase, Erased, EraseFails

LEMMA SyncType ==
    ASSUME FilesTypeOK, NEW t \in Slots, GetAll(t) \/ FetchDoc(t) \/ Drop(t)
    PROVE  FilesTypeOK'
<1> USE TaskTypes DEF FilesTypeOK
<1>1. CASE GetAll(t)
  <2>1. kept.rec \in Recs
    BY DEF Files
  <2>2. (CASE kept.kind = "deletion" -> "erase" [] kept.kind = "upload" -> "fetch" [] OTHER -> "idle")
            \in Pcs
    BY DEF Pcs
  <2> QED
    BY <1>1, <2>1, <2>2 DEF GetAll, Tasks
<1>2. CASE FetchDoc(t) \/ Drop(t)
  <2>1. tasks' \in [Slots -> Tasks]
    <3>1. "post" \in Pcs
      BY DEF Pcs
    <3> QED
      BY <1>2, <3>1, GoTyped, EndTyped DEF FetchDoc, Drop
  <2> QED
    BY <1>2, <2>1 DEF FetchDoc, Drop
<1> QED
  BY <1>1, <1>2

LEMMA RemoveType ==
    ASSUME FilesTypeOK, CheckKept \/ RequestDeletion
    PROVE  FilesTypeOK'
<1> USE TaskTypes DEF FilesTypeOK
<1>1. "remove" \in Slots
  BY DEF Slots
<1>2. CASE CheckKept
  BY <1>1, <1>2 DEF CheckKept, Tasks, Pcs
<1>3. CASE RequestDeletion
  BY <1>1, <1>3, EndTyped DEF RequestDeletion
<1> QED
  BY <1>2, <1>3

LEMMA UserType ==
    ASSUME FilesTypeOK, SaveRecording \/ RemoveRecording \/ UpdateFileCache \/ StoreFails("save")
    PROVE  FilesTypeOK'
<1> USE TaskTypes DEF FilesTypeOK
<1>1. CASE SaveRecording
  <2>1. takes + 1 \in Recs
    BY <1>1, Bounded, OneMore, Zenon DEF SaveRecording, Recs
  <2> QED
    BY <1>1, <2>1 DEF SaveRecording, Tasks, Pcs
<1>2. CASE RemoveRecording
  BY <1>2 DEF RemoveRecording, IdleTask, Tasks, Pcs
<1>3. CASE UpdateFileCache
  <2>1. [IdleTask EXCEPT !.pc = IF audioUrl = NoUrl THEN "purgeGet" ELSE "cacheGet",
                         !.url = audioUrl] \in Tasks
    BY DEF IdleTask, Tasks, Pcs
  <2> QED
    BY <1>3, <2>1 DEF UpdateFileCache
<1>4. CASE StoreFails("save")
  BY <1>4 DEF StoreFails, End
<1> QED
  BY <1>1, <1>2, <1>3, <1>4

LEMMA ConnectionType ==
    ASSUME FilesTypeOK, GoOnline \/ GoOffline \/ Reload
    PROVE  FilesTypeOK'
<1> USE TaskTypes DEF FilesTypeOK
<1>1. ASSUME NEW ts \in [Slots -> Tasks] PROVE StartSync(ts) \in [Slots -> Tasks]
  <2>1. [IdleTask EXCEPT !.pc = "getAll"] \in Tasks
    BY DEF Tasks, IdleTask, Pcs
  <2> QED
    BY <2>1 DEF StartSync
<1>2. CASE GoOnline
  BY <1>1, <1>2 DEF GoOnline
<1>3. CASE GoOffline
  <2>1. pauses' \in 0 .. MaxPauses
    BY <1>3, Bounded, OneMore, Zenon DEF GoOffline
  <2> QED
    BY <1>3, <2>1 DEF GoOffline
<1>4. CASE Reload
  <2>1. [s \in Slots |-> IdleTask] \in [Slots -> Tasks]
    OBVIOUS
  <2>2. tasks' \in [Slots -> Tasks]
    BY <1>1, <1>4, <2>1 DEF Reload
  <2>3. reloads' \in 0 .. MaxReloads
    BY <1>4, Bounded, OneMore, Zenon DEF Reload
  <2> QED
    BY <1>4, <2>2, <2>3, Zenon DEF Reload
<1> QED
  BY <1>2, <1>3, <1>4

LEMMA FilesTypeStep == FilesTypeOK /\ [FilesNext]_filesVars => FilesTypeOK'
<1> SUFFICES ASSUME FilesTypeOK, [FilesNext]_filesVars PROVE FilesTypeOK'
  OBVIOUS
<1>1. CASE SaveRecording \/ RemoveRecording \/ UpdateFileCache \/ StoreFails("save")
  BY <1>1, UserType
<1>2. CASE GoOnline \/ GoOffline \/ Reload
  BY <1>2, ConnectionType
<1>3. ASSUME NEW t \in Slots, FileStep(t) PROVE FilesTypeOK'
  BY <1>3, UploadingType, CachingType, DeletingType, SyncType, RemoveType DEF FileStep
<1>4. CASE UNCHANGED filesVars
  BY <1>4 DEF filesVars, FilesTypeOK
<1> QED
  BY <1>1, <1>2, <1>3, <1>4 DEF FilesNext

\* FileService's records, urls and tasks stay what they are declared to be, in every case.
THEOREM FilesTyped == FilesSpec => []FilesTypeOK
<1>1. FilesInit => FilesTypeOK
  BY FilesInitType
<1>2. FilesTypeOK /\ [FilesNext]_filesVars => FilesTypeOK'
  BY FilesTypeStep
<1> QED
  BY <1>1, <1>2, PTL DEF FilesSpec

-----------------------------------------------------------------------------
(* A question that was never taken back, and no cache update overlapping a save *)
(* to end as it began.  Nothing is then erased on the server, so a recording   *)
(* that reached it stays; what waits in IndexedDB is replaced by a copy of the *)
(* server's file only when there is one.                                       *)

\* The places of an upload, from the request to the url it gives the document.
UploadPcs == {"post", "posted", "cacheGet", "cacheFetch", "cachePut", "store", "url"}

Placed(t) ==
    /\ t \in Syncs => tasks[t].pc \in {"idle", "getAll", "fetch"} \cup UploadPcs
    /\ t = "save" => tasks[t].pc \in {"idle"} \cup UploadPcs
    /\ t = "remove" => Idle(t)
    /\ t = "cache" => tasks[t].pc \in {"idle", "purgeGet", "purge", "cacheGet", "cacheFetch", "cachePut"}

\* The server has the file: its answer, or the file itself, is in hand.
Served(t) ==
    \/ At(t, "cachePut")
    \/ t # "cache" /\ tasks[t].pc \in {"posted", "cacheGet", "cacheFetch"}

\* What each program of the page has in hand is a recording, and the user's save is not over before
\* its recording is on the server or in the browser.
TaskKept(t) ==
    /\ Placed(t)
    /\ t # "cache" /\ tasks[t].pc \in UploadPcs \cup {"fetch"} => tasks[t].rec # NoRec
    /\ t # "cache" /\ tasks[t].pc \in {"cacheGet", "cacheFetch", "cachePut", "url"} => tasks[t].url # NoUrl
    /\ Served(t) => remote # NoRec
    /\ At(t, "cachePut") => tasks[t].file.kind = "storage"
    /\ t = "save" /\ At(t, "url") => HasRecording

RecordKept ==
    /\ kept.kind # "deletion"
    /\ kept.kind = "upload" => kept.rec # NoRec
    /\ saved = "saved" => HasRecording /\ audioUrl # NoUrl
    /\ Clearing => saved = "not yet" /\ Idle("save")

FilesKept == RecordKept /\ \A t \in Slots : TaskKept(t)

FilesInv == keepOffline /\ saved # "removed" => FilesKept

LEMMA SlotsApart ==
    /\ {"save", "remove", "cache"} \cup Syncs = Slots
    /\ \A t \in Syncs : t # "save" /\ t # "remove" /\ t # "cache"
BY FilesAssumption DEF FilesAssumption, Slots

\* A task comes to a place with what it has then, and the others stay where they are.
Comes(t, pc) ==
    /\ tasks'[t].pc = pc
    /\ pc # "idle" => tasks'[t].rec = tasks[t].rec /\ tasks'[t].url = tasks[t].url
    /\ \A s \in Slots \ {t} : tasks'[s] = tasks[s]

LEMMA GoComes ==
    ASSUME FilesTypeOK, NEW t \in Slots, NEW pc, Go(t, pc)
    PROVE  Comes(t, pc)
<1>1. tasks[t] \in Tasks /\ tasks \in [Slots -> Tasks]
  BY DEF FilesTypeOK
<1>2. tasks' = [tasks EXCEPT ![t] = IF pc = "idle" THEN IdleTask
                                   ELSE [tasks[t] EXCEPT !.pc = pc, !.file = NoFile]]
  BY DEF Go
<1>3. tasks'[t] = IF pc = "idle" THEN IdleTask ELSE [tasks[t] EXCEPT !.pc = pc, !.file = NoFile]
  BY <1>1, <1>2
<1>4. \A s \in Slots \ {t} : tasks'[s] = tasks[s]
  BY <1>1, <1>2
<1>5. CASE pc = "idle"
  BY <1>3, <1>4, <1>5 DEF Comes, IdleTask
<1>6. CASE pc # "idle"
  BY <1>1, <1>3, <1>4, <1>6 DEF Comes, Tasks
<1> QED
  BY <1>5, <1>6

LEMMA EndComes ==
    ASSUME FilesTypeOK, NEW t \in Slots, End(t)
    PROVE  Comes(t, "idle")
BY DEF FilesTypeOK, End, Comes, IdleTask

\* A step of one task leaves what is said of the others when no recording goes.
LEMMA OneStep ==
    ASSUME FilesKept, NEW t \in Slots, \A s \in Slots \ {t} : tasks'[s] = tasks[s],
           TaskKept(t)', RecordKept', remote # NoRec => remote' # NoRec,
           t # "save" /\ At("save", "url") => HasRecording'
    PROVE  FilesKept'
<1> SUFFICES ASSUME NEW s \in Slots \ {t} PROVE TaskKept(s)'
  BY DEF FilesKept
<1>1. TaskKept(s) /\ tasks'[s] = tasks[s]
  BY DEF FilesKept
<1> QED
  BY <1>1 DEF TaskKept, Placed, Served, At, Idle

\* A step that changes neither record, server nor document, and does not end the clearing of the
\* cache in favour of a save.
LEMMA RecordStays ==
    ASSUME RecordKept, UNCHANGED <<kept, remote, audioUrl, saved>>,
           Clearing' => Clearing, Clearing /\ Idle("save") => Idle("save")'
    PROVE  RecordKept'
BY DEF RecordKept, HasRecording

LEMMA RequestKeeps ==
    ASSUME FilesTypeOK, FilesKept, NEW t \in Syncs \cup {"save"},
           CannotPost(t) \/ AnswerLost(t)
    PROVE  FilesKept'
<1> USE SlotsApart
<1>1. t \in Slots /\ TaskKept(t) /\ RecordKept
  BY DEF FilesKept
<1>2. /\ Comes(t, "store") /\ (At(t, "post") \/ At(t, "posted"))
      /\ UNCHANGED <<kept, remote, audioUrl, saved>>
  BY <1>1, GoComes DEF CannotPost, AnswerLost
<1>3. TaskKept(t)'
  BY <1>1, <1>2 DEF Comes, TaskKept, Placed, UploadPcs, Served, At
<1>4. RecordKept'
  BY <1>1, <1>2, RecordStays DEF Comes, Clearing, At, Idle
<1>5. HasRecording' = HasRecording
  BY <1>2 DEF HasRecording
<1>6. At("save", "url") => HasRecording
  BY DEF FilesKept, TaskKept
<1> QED
  BY <1>1, <1>2, <1>3, <1>4, <1>5, <1>6, OneStep DEF Comes

LEMMA PostKeeps ==
    ASSUME FilesTypeOK, FilesKept, NEW t \in Syncs \cup {"save"}, Post(t)
    PROVE  FilesKept'
<1> USE SlotsApart
<1>1. t \in Slots /\ TaskKept(t) /\ RecordKept
  BY DEF FilesKept
<1>2. /\ Comes(t, "posted") /\ At(t, "post")
      /\ remote' = tasks[t].rec /\ UNCHANGED <<kept, audioUrl, saved>>
  BY <1>1, GoComes DEF Post
<1>3. remote' # NoRec
  BY <1>1, <1>2 DEF TaskKept, UploadPcs, At
<1>4. TaskKept(t)'
  BY <1>1, <1>2, <1>3 DEF Comes, TaskKept, Placed, UploadPcs, Served, At
<1>5. HasRecording'
  BY <1>3 DEF HasRecording
<1>6. RecordKept'
  BY <1>1, <1>2, <1>5 DEF RecordKept, Comes, Clearing, At, Idle
<1> QED
  BY <1>1, <1>2, <1>3, <1>4, <1>5, <1>6, OneStep DEF Comes

LEMMA PostedKeeps ==
    ASSUME FilesTypeOK, FilesKept, keepOffline, NEW t \in Syncs \cup {"save"}, Posted(t)
    PROVE  FilesKept'
<1> USE SlotsApart
<1>1. t \in Slots /\ TaskKept(t) /\ RecordKept
  BY DEF FilesKept
<1>2. /\ At(t, "posted")
      /\ tasks'[t].pc = "cacheGet" /\ tasks'[t].url = Url("server", tasks[t].rec)
      /\ tasks'[t].rec = tasks[t].rec
      /\ \A s \in Slots \ {t} : tasks'[s] = tasks[s]
      /\ UNCHANGED <<kept, remote, audioUrl, saved>>
  BY <1>1 DEF Posted, FilesTypeOK, Tasks
<1>3. Url("server", tasks[t].rec) # NoUrl
  BY DEF Url, NoUrl
<1>4. TaskKept(t)'
  BY <1>1, <1>2, <1>3 DEF TaskKept, Placed, UploadPcs, Served, At
<1>5. RecordKept'
  BY <1>1, <1>2, RecordStays DEF Clearing, At, Idle
<1>6. remote' # NoRec /\ HasRecording'
  BY <1>1, <1>2 DEF TaskKept, Served, HasRecording, At
<1> QED
  BY <1>1, <1>2, <1>4, <1>5, <1>6, OneStep

LEMMA StoreUploadKeeps ==
    ASSUME FilesTypeOK, FilesKept, NEW t \in Syncs \cup {"save"}, StoreUpload(t)
    PROVE  FilesKept'
<1> USE SlotsApart
<1>1. t \in Slots /\ TaskKept(t) /\ RecordKept
  BY DEF FilesKept
<1>2. /\ At(t, "store")
      /\ tasks'[t].pc = "url" /\ tasks'[t].url = Url("blob", tasks[t].rec)
      /\ tasks'[t].rec = tasks[t].rec
      /\ \A s \in Slots \ {t} : tasks'[s] = tasks[s]
      /\ kept' = UploadFileData(tasks[t].rec)
      /\ UNCHANGED <<remote, audioUrl, saved>>
  BY <1>1 DEF StoreUpload, FilesTypeOK, Tasks
<1>3. Url("blob", tasks[t].rec) # NoUrl
  BY DEF Url, NoUrl
<1>4. kept'.kind = "upload" /\ kept'.rec = tasks[t].rec /\ HasRecording'
  BY <1>2 DEF UploadFileData, NoFile, HasRecording
<1>5. TaskKept(t)'
  BY <1>1, <1>2, <1>3, <1>4 DEF TaskKept, Placed, UploadPcs, Served, At
<1>6. RecordKept'
  BY <1>1, <1>2, <1>4 DEF RecordKept, TaskKept, UploadPcs, Clearing, At, Idle
<1> QED
  BY <1>1, <1>2, <1>4, <1>5, <1>6, OneStep

LEMMA SetUrlKeeps ==
    ASSUME FilesTypeOK, FilesKept, keepOffline, saved # "removed",
           NEW t \in Syncs \cup {"save"}, SetUrl(t)
    PROVE  FilesKept'
<1> USE SlotsApart
<1>1. t \in Slots /\ TaskKept(t) /\ RecordKept
  BY DEF FilesKept
<1>2. /\ At(t, "url") /\ Comes(t, "idle")
      /\ audioUrl' = tasks[t].url
      /\ saved' = IF t = "save" /\ saved = "not yet" THEN "saved" ELSE saved
      /\ UNCHANGED <<kept, remote>>
  BY <1>1, EndComes DEF SetUrl
<1>3. audioUrl' # NoUrl /\ HasRecording' = HasRecording
  BY <1>1, <1>2 DEF TaskKept, HasRecording, At
<1>4. TaskKept(t)'
  BY <1>1, <1>2 DEF Comes, TaskKept, Placed, UploadPcs, Served, At, Idle
<1>5. saved' = "saved" => HasRecording'
  BY <1>1, <1>2, <1>3 DEF RecordKept, TaskKept, FilesTypeOK
<1>6. Clearing' => saved' = "not yet" /\ Idle("save")'
  BY <1>1, <1>2 DEF RecordKept, Comes, Clearing, At, Idle
<1>7. RecordKept'
  BY <1>1, <1>2, <1>3, <1>5, <1>6 DEF RecordKept
<1>8. At("save", "url") => HasRecording
  BY DEF FilesKept, TaskKept
<1> QED
  BY <1>1, <1>2, <1>3, <1>4, <1>7, <1>8, OneStep DEF Comes

LEMMA CachingKeeps ==
    ASSUME FilesTypeOK, FilesKept, NEW t \in Syncs \cup {"save", "cache"}, Caching(t)
    PROVE  FilesKept'
<1> USE SlotsApart
<1>1. t \in Slots /\ TaskKept(t) /\ RecordKept
  BY DEF FilesKept
<1>2. At("save", "url") => HasRecording
  BY DEF FilesKept, TaskKept
<1>3. AfterCache(t) = IF t = "cache" THEN "idle" ELSE "url"
  BY DEF AfterCache
<1>4. ASSUME tasks[t].pc \in {"cacheGet", "cacheFetch", "cachePut"}, NEW pc,
             pc \in {"cacheFetch", "cachePut", AfterCache(t)}, Comes(t, pc),
             pc = "cachePut" => remote # NoRec /\ tasks'[t].file.kind = "storage", HasRecording => HasRecording', UNCHANGED remote
      PROVE  TaskKept(t)'
  BY <1>1, <1>3, <1>4 DEF Comes, TaskKept, Placed, UploadPcs, Served, At, Idle, HasRecording
<1>5. CASE CacheGet(t)
  <2>1. PICK pc : Comes(t, pc) /\ pc \in {"cacheFetch", AfterCache(t)}
    BY <1>1, <1>5, GoComes DEF CacheGet
  <2>2. At(t, "cacheGet") /\ UNCHANGED <<kept, remote, audioUrl, saved>>
    BY <1>5 DEF CacheGet
  <2>3. HasRecording' = HasRecording
    BY <2>2 DEF HasRecording
  <2>4. RecordKept'
    BY <1>1, <1>3, <2>1, <2>2, RecordStays DEF Comes, Clearing, At, Idle
  <2>5. TaskKept(t)'
    BY <1>3, <1>4, <2>1, <2>2, <2>3 DEF At
  <2> QED
    BY <1>1, <1>2, <2>1, <2>2, <2>3, <2>4, <2>5, OneStep DEF Comes
<1>6. CASE CacheFetch(t)
  <2>1. PICK pc : /\ Comes(t, pc) /\ pc \in {"cachePut", AfterCache(t)}
                  /\ pc = "cachePut" => remote # NoRec /\ tasks'[t].file.kind = "storage"
    <3>1. CASE Go(t, AfterCache(t))
      BY <1>1, <1>3, <3>1, GoComes
    <3>2. CASE remote # NoRec /\ tasks' = [tasks EXCEPT
                 ![t].pc = "cachePut", ![t].file = StorageFileData(remote, tasks[t].url.rec)]
      <4>1. Comes(t, "cachePut") /\ tasks'[t].file.kind = "storage"
        BY <1>1, <3>2 DEF Comes, FilesTypeOK, Tasks, StorageFileData
      <4> QED
        BY <3>2, <4>1
    <3> QED
      BY <1>6, <3>1, <3>2 DEF CacheFetch
  <2>2. At(t, "cacheFetch") /\ UNCHANGED <<kept, remote, audioUrl, saved>>
    BY <1>6 DEF CacheFetch
  <2>3. HasRecording' = HasRecording
    BY <2>2 DEF HasRecording
  <2>4. RecordKept'
    BY <1>1, <1>3, <2>1, <2>2, RecordStays DEF Comes, Clearing, At, Idle
  <2>5. TaskKept(t)'
    BY <1>3, <1>4, <2>1, <2>2, <2>3 DEF At
  <2> QED
    BY <1>1, <1>2, <2>1, <2>2, <2>3, <2>4, <2>5, OneStep DEF Comes
<1>7. CASE CachePut(t)
  <2>1. Comes(t, AfterCache(t)) /\ At(t, "cachePut") /\ kept' = tasks[t].file
    BY <1>1, <1>7, GoComes DEF CachePut
  <2>2. UNCHANGED <<remote, audioUrl, saved>>
    BY <1>7 DEF CachePut
  <2>3. remote' # NoRec /\ HasRecording'
    BY <1>1, <2>1, <2>2 DEF TaskKept, Served, HasRecording
  <2>4. TaskKept(t)'
    <3>1. AfterCache(t) # "cachePut"
      BY <1>3
    <3> QED
      BY <1>4, <2>1, <2>2, <2>3, <3>1 DEF At
  <2>5. RecordKept'
    BY <1>1, <1>3, <2>1, <2>2, <2>3 DEF RecordKept, TaskKept, Comes, Clearing, At, Idle
  <2> QED
    BY <1>1, <2>1, <2>3, <2>4, <2>5, OneStep DEF Comes
<1> QED
  BY <1>5, <1>6, <1>7 DEF Caching

LEMMA DeletingKeeps ==
    ASSUME FilesTypeOK, FilesKept, NEW t \in Syncs \cup {"remove", "cache"}, Deleting(t)
    PROVE  FilesKept'
<1> USE SlotsApart
<1>1. t \in Slots /\ TaskKept(t) /\ RecordKept
  BY DEF FilesKept
<1>2. t = "cache" /\ (PurgeGet(t) \/ Purge(t))
  BY <1>1 DEF TaskKept, Placed, UploadPcs, Idle, Deleting, PurgeGet, Purge, Erase, Erased, EraseFails, At
<1>3. Clearing /\ saved = "not yet" /\ Idle("save")
  BY <1>1, <1>2 DEF PurgeGet, Purge, Clearing, RecordKept
<1>4. AfterPurge(t) = "idle"
  BY <1>2 DEF AfterPurge
<1>5. PICK pc \in {"idle", "purge"} : Comes(t, pc)
  BY <1>1, <1>2, <1>4, GoComes DEF PurgeGet, Purge
<1>6. UNCHANGED <<remote, audioUrl, saved>> /\ kept' \in {kept, NoFile}
  BY <1>2 DEF PurgeGet, Purge
<1>7. kept'.kind # "deletion" /\ (kept'.kind = "upload" => kept'.rec # NoRec)
  <2>1. NoFile.kind = "none"
    BY DEF NoFile
  <2> QED
    BY <1>1, <1>6, <2>1 DEF RecordKept
<1>8. TaskKept(t)'
  BY <1>1, <1>2, <1>5, <1>6 DEF Comes, TaskKept, Placed, Served, At, Idle
<1>9. RecordKept'
  BY <1>1, <1>2, <1>3, <1>5, <1>6, <1>7 DEF RecordKept, Comes, Clearing, At, Idle
<1> QED
  BY <1>1, <1>3, <1>5, <1>6, <1>8, <1>9, OneStep DEF Comes, Idle, At

LEMMA SyncKeeps ==
    ASSUME FilesTypeOK, FilesKept, NEW t \in Syncs, GetAll(t) \/ FetchDoc(t) \/ Drop(t)
    PROVE  FilesKept'
<1> USE SlotsApart
<1>1. t \in Slots /\ TaskKept(t) /\ RecordKept
  BY DEF FilesKept
<1>2. ~Drop(t)
  BY <1>1 DEF Drop, TaskKept, Placed, UploadPcs, At
<1>3. UNCHANGED <<kept, remote, audioUrl, saved>>
  BY <1>2 DEF GetAll, FetchDoc
<1>4. /\ \A s \in Slots \ {t} : tasks'[s] = tasks[s]
      /\ tasks'[t].pc \in {"idle", "fetch", "post"} /\ (tasks'[t].pc # "idle" => tasks'[t].rec # NoRec)
  <2>1. CASE GetAll(t)
    BY <1>1, <2>1 DEF GetAll, RecordKept, FilesTypeOK, Tasks
  <2>2. CASE FetchDoc(t)
    <3>1. Comes(t, "post") /\ At(t, "fetch")
      BY <1>1, <2>2, GoComes DEF FetchDoc
    <3> QED
      BY <1>1, <3>1 DEF Comes, TaskKept, At
  <2> QED
    BY <1>2, <2>1, <2>2
<1>5. TaskKept(t)'
  BY <1>4 DEF TaskKept, Placed, UploadPcs, Served, At, Idle
<1>6. RecordKept'
  BY <1>1, <1>3, <1>4, RecordStays DEF Clearing, At, Idle
<1>7. At("save", "url") => HasRecording'
  BY <1>3 DEF FilesKept, TaskKept, HasRecording
<1> QED
  BY <1>1, <1>3, <1>4, <1>5, <1>6, <1>7, OneStep

LEMMA SavingKeeps ==
    ASSUME FilesTypeOK, FilesKept, ~StaleCache, SaveRecording \/ StoreFails("save")
    PROVE  FilesKept'
<1> USE SlotsApart
<1>1. "save" \in Slots /\ TaskKept("save") /\ RecordKept
  BY DEF FilesKept
<1>2. UNCHANGED <<kept, remote, audioUrl, saved>>
  BY DEF SaveRecording, StoreFails
<1>3. /\ \A s \in Slots \ {"save"} : tasks'[s] = tasks[s]
      /\ tasks'["save"].pc \in {"idle", "post"}
      /\ tasks'["save"].pc = "post" => ~Clearing /\ tasks'["save"].rec # NoRec
  <2>1. CASE SaveRecording
    <3>1. takes + 1 # NoRec
      <4>1. takes \in 0 .. MaxRecordings
        BY DEF FilesTypeOK, Recs
      <4> QED
        BY <4>1, Bounded DEF NoRec
    <3>2. ~Clearing
      BY <2>1 DEF SaveRecording
    <3> QED
      BY <1>1, <2>1, <3>1, <3>2 DEF SaveRecording, FilesTypeOK, IdleTask
  <2>2. CASE StoreFails("save")
    BY <1>1, <2>2, EndComes DEF StoreFails, Comes
  <2> QED
    BY <2>1, <2>2
<1>4. TaskKept("save")'
  BY <1>3 DEF TaskKept, Placed, UploadPcs, Served, At, Idle
<1>5. RecordKept'
  BY <1>1, <1>2, <1>3, RecordStays DEF Clearing, At, Idle
<1> QED
  BY <1>1, <1>2, <1>3, <1>4, <1>5, OneStep

LEMMA UpdateFileCacheKeeps ==
    ASSUME FilesTypeOK, FilesKept, saved # "removed", ~StaleCache, UpdateFileCache
    PROVE  FilesKept'
<1> USE SlotsApart
<1>1. "cache" \in Slots /\ TaskKept("cache") /\ RecordKept
  BY DEF FilesKept
<1>2. UNCHANGED <<kept, remote, audioUrl, saved>>
  BY DEF UpdateFileCache
<1>3. /\ \A s \in Slots \ {"cache"} : tasks'[s] = tasks[s]
      /\ tasks'["cache"].pc = IF audioUrl = NoUrl THEN "purgeGet" ELSE "cacheGet"
  BY <1>1 DEF UpdateFileCache, FilesTypeOK, IdleTask
<1>4. TaskKept("cache")'
  BY <1>3 DEF TaskKept, Placed, Served, At, Idle
<1>5. audioUrl = NoUrl => saved = "not yet" /\ Idle("save")
  BY <1>1 DEF UpdateFileCache, RecordKept, FilesTypeOK
<1>6. RecordKept'
  BY <1>1, <1>2, <1>3, <1>5 DEF RecordKept, HasRecording, Clearing, At, Idle
<1>7. At("save", "url") => HasRecording'
  BY <1>2 DEF FilesKept, TaskKept, HasRecording
<1> QED
  BY <1>1, <1>2, <1>3, <1>4, <1>6, <1>7, OneStep

LEMMA ConnectionKeeps ==
    ASSUME FilesTypeOK, FilesKept, GoOnline \/ GoOffline \/ Reload
    PROVE  FilesKept'
<1> USE SlotsApart
<1>1. UNCHANGED <<kept, remote, audioUrl, saved>>
  BY DEF GoOnline, GoOffline, Reload
<1>2. ASSUME NEW ts \in [Slots -> Tasks], NEW s \in Slots, \E r \in Syncs : ts[r].pc = "idle"
      PROVE  StartSync(ts)[s] = ts[s] \/ (s \in Syncs /\ StartSync(ts)[s].pc = "getAll")
  <2> DEFINE t == CHOOSE r \in Syncs : ts[r].pc = "idle"
  <2>1. t \in Syncs
    BY <1>2
  <2>2. StartSync(ts) = [ts EXCEPT ![t] = [IdleTask EXCEPT !.pc = "getAll"]]
    BY DEF StartSync
  <2> HIDE DEF t
  <2> QED
    BY <2>1, <2>2 DEF IdleTask
<1>3. \A s \in Slots : tasks'[s] = tasks[s] \/ Idle(s)' \/ (s \in Syncs /\ At(s, "getAll")')
  <2>1. CASE GoOnline
    BY <1>2, <2>1 DEF GoOnline, FilesTypeOK, Idle, At
  <2>2. CASE GoOffline
    BY <2>2 DEF GoOffline
  <2>3. CASE Reload
    <3> DEFINE none == [s \in Slots |-> IdleTask]
    <3>1. none \in [Slots -> Tasks]
      BY TaskTypes
    <3>2. \E r \in Syncs : none[r].pc = "idle"
      <4>1. Syncs # {}
        BY FilesAssumption, FS_EmptySet DEF FilesAssumption
      <4> QED
        BY <4>1 DEF IdleTask
    <3>3. tasks' = IF onLine THEN StartSync(none) ELSE none
      BY <2>3 DEF Reload
    <3>4. \A s \in Slots : none[s].pc = "idle"
      BY DEF IdleTask
    <3> HIDE DEF none
    <3> QED
      BY <1>2, <3>1, <3>2, <3>3, <3>4 DEF Idle, At
  <2> QED
    BY <2>1, <2>2, <2>3
<1>4. HasRecording' = HasRecording
  BY <1>1 DEF HasRecording
<1>5. ASSUME NEW s \in Slots PROVE TaskKept(s)'
  <2>1. TaskKept(s)
    BY DEF FilesKept
  <2>2. CASE tasks'[s] = tasks[s]
    BY <1>1, <1>4, <2>1, <2>2 DEF TaskKept, Placed, Served, At, Idle
  <2>3. CASE Idle(s)'
    BY <2>3 DEF TaskKept, Placed, UploadPcs, Served, At, Idle
  <2>4. CASE s \in Syncs /\ At(s, "getAll")'
    BY <2>4 DEF TaskKept, Placed, UploadPcs, Served, At, Idle
  <2> QED
    BY <1>3, <2>2, <2>3, <2>4
<1>6. RecordKept'
  BY <1>1, <1>3, RecordStays DEF FilesKept, Clearing, At, Idle
<1> QED
  BY <1>5, <1>6 DEF FilesKept

LEMMA FilesStepKeeps ==
    ASSUME FilesTypeOK, FilesInv, ~StaleCache, [FilesNext]_filesVars
    PROVE  FilesInv'
<1> SUFFICES ASSUME keepOffline', saved' # "removed" PROVE FilesKept'
  BY DEF FilesInv
<1>1. keepOffline /\ saved # "removed" /\ FilesKept
  <2>1. keepOffline' = keepOffline /\ (saved = "removed" => saved' = "removed")
    BY DEF FilesNext, filesVars, SaveRecording, RemoveRecording, UpdateFileCache, StoreFails, GoOnline,
           GoOffline, Reload, FileStep, Uploading, CannotPost, Post, Posted, AnswerLost, StoreUpload,
           SetUrl, Caching, CacheGet, CacheFetch, CachePut, Deleting, PurgeGet, Purge, Erase, Erased,
           EraseFails, GetAll, FetchDoc, Drop, CheckKept, RequestDeletion
  <2> QED
    BY <2>1 DEF FilesInv
<1>2. CASE SaveRecording \/ StoreFails("save")
  BY <1>1, <1>2, SavingKeeps
<1>3. ~RemoveRecording
  BY DEF RemoveRecording
<1>4. CASE UpdateFileCache
  BY <1>1, <1>4, UpdateFileCacheKeeps
<1>5. CASE GoOnline \/ GoOffline \/ Reload
  BY <1>5, <1>1, ConnectionKeeps
<1>6. ASSUME NEW t \in Slots, FileStep(t) PROVE FilesKept'
  <2>1. CASE t \in Syncs \cup {"save"} /\ Uploading(t)
    BY <1>1, <2>1, RequestKeeps, PostKeeps, PostedKeeps, StoreUploadKeeps, SetUrlKeeps DEF Uploading
  <2>2. CASE t \in Syncs \cup {"save", "cache"} /\ Caching(t)
    BY <1>1, <2>2, CachingKeeps
  <2>3. CASE t \in Syncs \cup {"remove", "cache"} /\ Deleting(t)
    BY <1>1, <2>3, DeletingKeeps
  <2>4. CASE t \in Syncs /\ (GetAll(t) \/ FetchDoc(t) \/ Drop(t))
    BY <1>1, <2>4, SyncKeeps
  <2>5. ~CheckKept /\ ~RequestDeletion
    BY <1>1, SlotsApart DEF FilesKept, TaskKept, Placed, Idle, CheckKept, RequestDeletion, At
  <2> QED
    BY <1>6, <2>1, <2>2, <2>3, <2>4, <2>5 DEF FileStep
<1>7. CASE UNCHANGED filesVars
  BY <1>1, <1>7 DEF filesVars, FilesKept, RecordKept, TaskKept, Placed, Served, HasRecording, Clearing,
                    At, Idle
<1> QED
  BY <1>2, <1>3, <1>4, <1>5, <1>6, <1>7 DEF FilesNext

LEMMA FilesInitKept == FilesInit => FilesInv
<1> SUFFICES ASSUME FilesInit PROVE FilesKept
  BY DEF FilesInv
<1>1. /\ kept.kind = "none" /\ saved = "not yet"
      /\ \A t \in Slots : tasks[t].pc = "idle"
  BY DEF FilesInit, NoFile, IdleTask
<1> QED
  BY <1>1, SlotsApart DEF FilesKept, RecordKept, TaskKept, Placed, UploadPcs, Served, Clearing, At, Idle

\* A question that has been given a recording, and that was never taken back, has one on the server
\* or in the browser to be uploaded, whatever fails and however the runs of syncFiles, saves, cache
\* updates, lost connections and closed pages interleave; only a cache update that found the question
\* without a url does not overlap a save.
THEOREM RecordingsKept == ~StaleCache => (FilesSpec => []RecordingKept)
<1> SUFFICES ASSUME ~StaleCache PROVE FilesSpec => []RecordingKept
  OBVIOUS
<1>1. FilesInit => FilesTypeOK /\ FilesInv
  BY FilesInitType, FilesInitKept
<1>2. FilesTypeOK /\ FilesInv /\ [FilesNext]_filesVars => (FilesTypeOK /\ FilesInv)'
  BY FilesTypeStep, FilesStepKeeps
<1>3. FilesInv => RecordingKept
  BY DEF FilesInv, FilesKept, RecordKept, RecordingKept
<1> QED
  BY <1>1, <1>2, <1>3, PTL DEF FilesSpec

=============================================================================
