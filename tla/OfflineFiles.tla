----------------------------- MODULE OfflineFiles -----------------------------
(***************************************************************************)
(* One recording of a question, or of an answer, on its way to the server:   *)
(* FileService with its store in IndexedDB, and the document whose audioUrl  *)
(* names the recording.                                                      *)
(*                                                                           *)
(* The user records, replaces and removes the recording on line and off line, *)
(* whatever is under way; the page is closed and opened again; the connection *)
(* comes and goes, each return starting a syncFiles that may overlap the one  *)
(* before; any request may fail.  Every await ends a step.  The server keeps  *)
(* one file per recording's id, whatever its url says.  The document's own    *)
(* operations are OfflineDoc's subject: here they are applied at once.        *)
(* Re-uploading a recording gives it its url again.                          *)
(***************************************************************************)
EXTENDS Integers, FiniteSets

CONSTANTS
    StaleCache,    \* whether a cache update without a url overlaps a save: each ends as it began
    MaxRecordings, \* bound: recordings made, one replacing another
    MaxPauses,     \* bound: connections lost
    MaxReloads,    \* bound: pages closed and opened again
    Syncs          \* the runs of syncFiles: as many as the connection can start without a reload

ASSUME FilesAssumption ==
    /\ StaleCache \in BOOLEAN
    /\ MaxRecordings \in Nat /\ MaxPauses \in Nat /\ MaxReloads \in Nat
    /\ IsFiniteSet(Syncs) /\ Cardinality(Syncs) > MaxPauses
    /\ Syncs \cap {"save", "remove", "cache"} = {}

VARIABLES
    keepOffline, \* alwaysKeepFileOffline: the recording is a question's, not an answer's
    onLine,      \* OnlineStatusService's status
    kept,        \* the record in IndexedDB
    remote,      \* the recording in the server's file
    audioUrl,    \* the document's url
    saved,       \* whether the user has saved a recording, and whether one was ever removed
    takes,       \* recordings made so far
    tasks,       \* what the page is doing
    pauses,      \* connections lost so far
    reloads      \* pages opened again so far

filesVars == <<keepOffline, onLine, kept, remote, audioUrl, saved, takes, tasks, pauses, reloads>>

NoRec == 0
Recs == 0 .. MaxRecordings  \* in the order they are made
Urls == [at: {"nowhere", "blob", "server"}, rec: Recs]
NoUrl == [at |-> "nowhere", rec |-> NoRec]
Url(at, r) == [at |-> at, rec |-> r]

Kinds == {"none", "upload", "deletion", "storage"}
Files == [kind: Kinds, rec: Recs, of: Recs]  \* `of' is the recording onlineUrl was given for
NoFile == [kind |-> "none", rec |-> NoRec, of |-> NoRec]
UploadFileData(r) == [NoFile EXCEPT !.kind = "upload", !.rec = r]
DeletionFileData == [NoFile EXCEPT !.kind = "deletion"]
StorageFileData(r, of) == [kind |-> "storage", rec |-> r, of |-> of]

\* The user's save and removal, the document's cache update, and the overlapping runs of syncFiles.
Slots == {"save", "remove", "cache"} \cup Syncs
Pcs == {"idle", "getAll", "fetch", "post", "posted", "cacheGet", "cacheFetch", "cachePut", "store",
        "url", "drop", "purgeGet", "purge", "erase", "erased", "check", "request"}
Tasks == [pc: Pcs, file: Files, rec: Recs, url: Urls]
IdleTask == [pc |-> "idle", file |-> NoFile, rec |-> NoRec, url |-> NoUrl]

FilesTypeOK ==
    /\ keepOffline \in BOOLEAN /\ onLine \in BOOLEAN
    /\ kept \in Files /\ remote \in Recs /\ audioUrl \in Urls
    /\ saved \in {"not yet", "saved", "removed"} /\ takes \in Recs /\ tasks \in [Slots -> Tasks]
    /\ pauses \in 0 .. MaxPauses /\ reloads \in 0 .. MaxReloads

FilesInit ==
    /\ keepOffline \in BOOLEAN
    /\ onLine = FALSE
    /\ kept = NoFile /\ remote = NoRec /\ audioUrl = NoUrl /\ saved = "not yet"
    /\ takes = 0
    /\ tasks = [t \in Slots |-> IdleTask]
    /\ pauses = 0 /\ reloads = 0

Idle(t) == tasks[t].pc = "idle"
At(t, pc) == tasks[t].pc = pc
End(t) == tasks' = [tasks EXCEPT ![t] = IdleTask]
Go(t, pc) ==
    tasks' = [tasks EXCEPT ![t] = IF pc = "idle" THEN IdleTask
                                  ELSE [tasks[t] EXCEPT !.pc = pc, !.file = NoFile]]

\* The cache is being updated for a document without a url: the record is to go.
Clearing == At("cache", "purgeGet") \/ At("cache", "purge")

-----------------------------------------------------------------------------
(* The user.  A save is an upload and then the operation that sets the url.  *)

SaveRecording ==
    /\ Idle("save") /\ takes < MaxRecordings
    /\ ~Clearing \/ StaleCache
    /\ takes' = takes + 1
    /\ tasks' = [tasks EXCEPT !["save"] = [IdleTask EXCEPT !.pc = "post", !.rec = takes + 1]]
    /\ UNCHANGED <<keepOffline, onLine, kept, remote, audioUrl, saved, pauses, reloads>>

\* The operation that clears the url, and then deleteFile, which nobody waits for.
RemoveRecording ==
    /\ Idle("remove") /\ audioUrl # NoUrl
    /\ audioUrl' = NoUrl /\ saved' = "removed"
    /\ tasks' = [tasks EXCEPT !["remove"] = [IdleTask EXCEPT
           !.pc = IF onLine THEN "purgeGet" ELSE "check"]]
    /\ UNCHANGED <<keepOffline, onLine, kept, remote, takes, pauses, reloads>>

\* The url is set by an operation of the user's, or by updateFileUrl with whatever the upload
\* returned.  A recording saved on line is not needed in the page again.  An answer's document may
\* have come without the operation that made the answer: no path is found for its url.
SetUrlAndDrop(t) ==  \* seeded: every record is deleted
    /\ At(t, "url")
    /\ audioUrl' = tasks[t].url
    /\ saved' = IF t = "save" /\ saved = "not yet" THEN "saved" ELSE saved
    /\ IF t = "save" THEN End(t) ELSE Go(t, "drop")
    /\ UNCHANGED <<keepOffline, onLine, kept, remote, takes, pauses, reloads>>
SetUrl(t) ==
    /\ At(t, "url")
    /\ \/ audioUrl' = tasks[t].url
       \/ t # "save" /\ ~keepOffline /\ UNCHANGED audioUrl
    /\ saved' = IF t = "save" /\ saved = "not yet" THEN "saved" ELSE saved
    /\ IF t = "save" \/ keepOffline THEN End(t) ELSE Go(t, "drop")
    /\ UNCHANGED <<keepOffline, onLine, kept, remote, takes, pauses, reloads>>

-----------------------------------------------------------------------------
(* uploadFile, tryOnlineUploadFile, onlineUploadFile                         *)

\* Off line at once, or the request fails.
CannotPost(t) ==
    /\ At(t, "post")
    /\ Go(t, "store")
    /\ UNCHANGED <<keepOffline, onLine, kept, remote, audioUrl, saved, takes, pauses, reloads>>

Post(t) ==
    /\ At(t, "post") /\ onLine
    /\ remote' = tasks[t].rec
    /\ Go(t, "posted")
    /\ UNCHANGED <<keepOffline, onLine, kept, audioUrl, saved, takes, pauses, reloads>>

Posted(t) ==
    /\ At(t, "posted")
    /\ tasks' = [tasks EXCEPT ![t].pc = IF keepOffline THEN "cacheGet" ELSE "url",
                              ![t].url = Url("server", tasks[t].rec)]
    /\ UNCHANGED <<keepOffline, onLine, kept, remote, audioUrl, saved, takes, pauses, reloads>>

\* The answer is lost: tryOnlineUploadFile returns undefined though the server has the file.
AnswerLost(t) ==
    /\ At(t, "posted")
    /\ Go(t, "store")
    /\ UNCHANGED <<keepOffline, onLine, kept, remote, audioUrl, saved, takes, pauses, reloads>>

StoreUpload(t) ==
    /\ At(t, "store")
    /\ kept' = UploadFileData(tasks[t].rec)
    /\ tasks' = [tasks EXCEPT ![t].pc = "url", ![t].url = Url("blob", tasks[t].rec)]
    /\ UNCHANGED <<keepOffline, onLine, remote, audioUrl, saved, takes, pauses, reloads>>

\* No space: the user is told, and the save is given up.
StoreFails(t) ==
    /\ At(t, "store") /\ t = "save"
    /\ End(t)
    /\ UNCHANGED <<keepOffline, onLine, kept, remote, audioUrl, saved, takes, pauses, reloads>>

-----------------------------------------------------------------------------
(* findOrUpdateCache with a url; `of' in a record is the url it was got with *)

AfterCache(t) == IF t = "cache" THEN "idle" ELSE "url"

CacheGet(t) ==
    /\ At(t, "cacheGet")
    /\ Go(t, IF onLine /\ kept # StorageFileData(kept.rec, tasks[t].url.rec)
             THEN "cacheFetch" ELSE AfterCache(t))
    /\ UNCHANGED <<keepOffline, onLine, kept, remote, audioUrl, saved, takes, pauses, reloads>>

CacheFetch(t) ==
    /\ At(t, "cacheFetch")
    /\ \/ /\ onLine /\ remote # NoRec
          /\ tasks' = [tasks EXCEPT ![t].pc = "cachePut",
                                    ![t].file = StorageFileData(remote, tasks[t].url.rec)]
       \/ Go(t, AfterCache(t))
    /\ UNCHANGED <<keepOffline, onLine, kept, remote, audioUrl, saved, takes, pauses, reloads>>

CachePut(t) ==
    /\ At(t, "cachePut")
    /\ kept' = tasks[t].file
    /\ Go(t, AfterCache(t))
    /\ UNCHANGED <<keepOffline, onLine, remote, audioUrl, saved, takes, pauses, reloads>>

\* QuestionDoc.updateFileCache and updateAnswerFileCache, after a change of the question.
UpdateFileCache ==
    /\ Idle("cache")
    /\ audioUrl.at # "blob"  \* an address of this browser: the record is returned as it is
    /\ audioUrl = NoUrl => Idle("save") \/ StaleCache
    /\ tasks' = [tasks EXCEPT !["cache"] = [IdleTask EXCEPT
           !.pc = IF audioUrl = NoUrl THEN "purgeGet" ELSE "cacheGet", !.url = audioUrl]]
    /\ UNCHANGED <<keepOffline, onLine, kept, remote, audioUrl, saved, takes, pauses, reloads>>

-----------------------------------------------------------------------------
(* deleteFile, and findOrUpdateCache without a url                           *)

AfterPurge(t) == IF t = "remove" /\ tasks[t].url = NoUrl THEN "erase" ELSE "idle"

PurgeGet(t) ==
    /\ At(t, "purgeGet")
    /\ Go(t, IF kept.kind \in {"upload", "storage"} THEN "purge" ELSE AfterPurge(t))
    /\ UNCHANGED <<keepOffline, onLine, kept, remote, audioUrl, saved, takes, pauses, reloads>>

Purge(t) ==
    /\ At(t, "purge")
    /\ kept' = NoFile
    /\ Go(t, AfterPurge(t))
    /\ UNCHANGED <<keepOffline, onLine, remote, audioUrl, saved, takes, pauses, reloads>>

Erase(t) ==
    /\ At(t, "erase") /\ onLine
    /\ remote' = NoRec
    /\ Go(t, "erased")
    /\ UNCHANGED <<keepOffline, onLine, kept, audioUrl, saved, takes, pauses, reloads>>

Erased(t) ==
    /\ At(t, "erased")
    /\ Go(t, IF t = "remove" THEN "idle" ELSE "drop")
    /\ UNCHANGED <<keepOffline, onLine, kept, remote, audioUrl, saved, takes, pauses, reloads>>

\* The request or its answer is lost: a removal goes on as if off line, a syncFiles ends.
EraseFails(t) ==
    /\ At(t, "erase") \/ At(t, "erased")
    /\ IF t = "remove" THEN Go(t, "check") ELSE End(t)
    /\ UNCHANGED <<keepOffline, onLine, kept, remote, audioUrl, saved, takes, pauses, reloads>>

\* A record with no onlineUrl was never uploaded: it goes, and nothing is asked of the server.
\* (A request to delete has no onlineUrl either, and stays.)
CheckKept ==
    /\ At("remove", "check")
    /\ tasks' = [tasks EXCEPT
           !["remove"].pc = IF kept.kind \in {"upload", "deletion"} THEN "purgeGet" ELSE "request",
           !["remove"].url = Url("blob", NoRec)]
    /\ UNCHANGED <<keepOffline, onLine, kept, remote, audioUrl, saved, takes, pauses, reloads>>

RequestDeletion ==
    /\ At("remove", "request")
    /\ kept' = DeletionFileData
    /\ End("remove")
    /\ UNCHANGED <<keepOffline, onLine, remote, audioUrl, saved, takes, pauses, reloads>>

-----------------------------------------------------------------------------
(* syncFiles, started by each change of the status to on line                *)

GetAll(t) ==
    /\ At(t, "getAll")
    /\ tasks' = [tasks EXCEPT ![t].rec = kept.rec,
           ![t].pc = CASE kept.kind = "deletion" -> "erase"
                       [] kept.kind = "upload" -> "fetch"
                       [] OTHER -> "idle"]
    /\ UNCHANGED <<keepOffline, onLine, kept, remote, audioUrl, saved, takes, pauses, reloads>>

FetchDoc(t) ==
    /\ At(t, "fetch") /\ onLine
    /\ Go(t, "post")
    /\ UNCHANGED <<keepOffline, onLine, kept, remote, audioUrl, saved, takes, pauses, reloads>>

Drop(t) ==
    /\ At(t, "drop")
    /\ kept' = NoFile
    /\ End(t)
    /\ UNCHANGED <<keepOffline, onLine, remote, audioUrl, saved, takes, pauses, reloads>>

-----------------------------------------------------------------------------
(* The connection and the page                                               *)

StartSync(ts) ==
    [ts EXCEPT ![CHOOSE t \in Syncs : ts[t].pc = "idle"] = [IdleTask EXCEPT !.pc = "getAll"]]

GoOnline ==
    /\ ~onLine
    /\ \E t \in Syncs : Idle(t)  \* always: each pause lets one more begin
    /\ onLine' = TRUE
    /\ tasks' = StartSync(tasks)
    /\ UNCHANGED <<keepOffline, kept, remote, audioUrl, saved, takes, pauses, reloads>>

GoOffline ==
    /\ onLine /\ pauses < MaxPauses
    /\ onLine' = FALSE /\ pauses' = pauses + 1
    /\ UNCHANGED <<keepOffline, kept, remote, audioUrl, saved, takes, tasks, reloads>>

\* A page opened on line starts a syncFiles as well.
Reload ==
    /\ reloads < MaxReloads /\ reloads' = reloads + 1
    /\ tasks' = LET none == [t \in Slots |-> IdleTask] IN IF onLine THEN StartSync(none) ELSE none
    /\ UNCHANGED <<keepOffline, onLine, kept, remote, audioUrl, saved, takes, pauses>>

Uploading(t) ==
    \/ CannotPost(t) \/ Post(t) \/ Posted(t) \/ AnswerLost(t) \/ StoreUpload(t) \/ SetUrl(t)
Caching(t) == CacheGet(t) \/ CacheFetch(t) \/ CachePut(t)
Deleting(t) == PurgeGet(t) \/ Purge(t) \/ Erase(t) \/ Erased(t) \/ EraseFails(t)

FileStep(t) ==
    \/ t \in Syncs \cup {"save"} /\ Uploading(t)
    \/ t \in Syncs \cup {"save", "cache"} /\ Caching(t)
    \/ t \in Syncs \cup {"remove", "cache"} /\ Deleting(t)
    \/ t \in Syncs /\ (GetAll(t) \/ FetchDoc(t) \/ Drop(t))
    \/ t = "remove" /\ (CheckKept \/ RequestDeletion)

FilesNext ==
    \/ SaveRecording \/ RemoveRecording \/ UpdateFileCache
    \/ \E t \in Slots : FileStep(t)
    \/ StoreFails("save")
    \/ GoOnline \/ GoOffline \/ Reload

FilesSpec == FilesInit /\ [][FilesNext]_filesVars

-----------------------------------------------------------------------------

\* Of the recordings saved one is in the server's file, or in a record that syncFiles uploads.
HasRecording == remote # NoRec \/ kept.kind = "upload"

\* A question that the user has given a recording, and that was never taken back, has one on the
\* server or in this browser waiting to be sent (file.service.ts:84-85): whichever requests fail,
\* whenever the connection comes and goes, the page is closed, another recording replaces it, and
\* however many runs of syncFiles overlap.
RecordingKept == keepOffline /\ saved = "saved" => HasRecording

\* The same of an answer, as file.service.ts:84-85 and 110 say of every file.
AnswerKept == ~keepOffline /\ saved = "saved" => HasRecording
=============================================================================
