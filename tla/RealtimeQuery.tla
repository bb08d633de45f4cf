---------------------------- MODULE RealtimeQuery -----------------------------
(***************************************************************************)
(* One live query: RealtimeQuery over its ShareDB query, and what            *)
(* RealtimeService does with it.                                             *)
(*                                                                           *)
(* Results come from the server and, after every local update of a document,  *)
(* from IndexedDB.  onChange brings the list of documents to a result in      *)
(* pieces: removals and moves at once, then one run of insertions after       *)
(* another, each awaiting its documents.  Nothing keeps one change from       *)
(* starting while another awaits.  ShareDB and arraydiff are external.        *)
(***************************************************************************)
EXTENDS Integers, Sequences, FiniteSets

CONSTANTS
    DocIds,     \* documents of the collection
    Results,    \* the lists of documents that queries answer with
    MaxChanges, \* bound: results that come
    MaxOverlap  \* bound: changes under way at a time

ASSUME QueryAssumption ==
    /\ \A s \in Results : s \in Seq(DocIds) /\ \A i, j \in DOMAIN s : s[i] = s[j] => i = j
    /\ MaxChanges \in Nat /\ MaxOverlap \in Nat

VARIABLES
    status,   \* of the query, from "new" to "disposed"
    ready,    \* the server's first result has come
    docs,     \* the documents shown, in order
    changes,  \* the calls of onChange, and the local queries that will make one
    counts,   \* each document's subscribeQueryCount, this query's part of it
    held,     \* documents whose listener is in docSubscriptions
    live,     \* each document's listeners, in docSubscriptions or not
    shown,    \* ghost: the result of the last change, if it ran alone to its end
    released, \* ghost: disposed of when ready, with nothing under way
    begun     \* results that have come

queryVars == <<status, ready, docs, changes, counts, held, live, shown, released, begun>>

\* A change to the list `after'; at the places `left' of it documents are still to be inserted.
Changes == [phase: {"free", "local", "begun"}, first: BOOLEAN, after: Seq(DocIds),
            left: SUBSET Nat, alone: BOOLEAN]
Free == [phase |-> "free", first |-> FALSE, after |-> <<>>, left |-> {}, alone |-> FALSE]
Slot == 1 .. MaxOverlap

QueryTypeOK ==
    /\ status \in {"new", "subscribing", "subscribed", "fetched", "disposed"}
    /\ ready \in BOOLEAN /\ released \in BOOLEAN
    /\ docs \in Seq(DocIds)
    /\ changes \in [Slot -> Changes]
    /\ counts \in [DocIds -> Int] /\ live \in [DocIds -> Int] /\ held \subseteq DocIds
    /\ shown \in [sure: BOOLEAN, ids: Seq(DocIds)]
    /\ begun \in 0 .. MaxChanges

QueryInit ==
    /\ status = "new" /\ ready = FALSE /\ released = FALSE
    /\ docs = <<>>
    /\ changes = [c \in Slot |-> Free]
    /\ counts = [d \in DocIds |-> 0] /\ live = [d \in DocIds |-> 0] /\ held = {}
    /\ shown = [sure |-> FALSE, ids |-> <<>>]
    /\ begun = 0

ElementsOf(s) == {s[i] : i \in DOMAIN s}
Occurrences(s, d) == Cardinality({i \in DOMAIN s : s[i] = d})

-----------------------------------------------------------------------------
(* arraydiff: what remains of `before', in the order of `after', and the      *)
(* places of `after' that are new, which make runs without a gap.            *)

Remaining(before, after) ==
    LET kept[i \in 0 .. Len(after)] ==
            IF i = 0 THEN <<>>
            ELSE IF after[i] \in ElementsOf(before) THEN Append(kept[i - 1], after[i]) ELSE kept[i - 1]
    IN  kept[Len(after)]

NewPlaces(before, after) == {i \in DOMAIN after : after[i] \notin ElementsOf(before)}

RunStart(left) == CHOOSE m \in left : \A i \in left : m <= i
RunEnd(left) == CHOOSE n \in left : RunStart(left) .. n \subseteq left /\ n + 1 \notin left

\* The documents of the first run, and the places left after it.
RunIds(after, left) == IF left = {} THEN <<>> ELSE SubSeq(after, RunStart(left), RunEnd(left))
LaterRuns(left) == left \ (RunStart(left) .. RunEnd(left))

\* The documents a change has asked for, and counts and hears already.
Inserting(ch) == IF ch.phase = "begun" THEN RunIds(ch.after, ch.left) ELSE <<>>

\* splice(at, 0, ...ids) of a list, at its end if it is shorter.
SpliceFromOne(s, at, ids) ==  \* seeded: places counted from one
    LET k == IF at >= Len(s) THEN Len(s) ELSE at + 1
    IN  SubSeq(s, 1, k) \o ids \o SubSeq(s, k + 1, Len(s))
Splice(s, at, ids) ==
    LET k == IF at > Len(s) THEN Len(s) ELSE at
    IN  SubSeq(s, 1, k) \o ids \o SubSeq(s, k + 1, Len(s))

-----------------------------------------------------------------------------
(* onInsert and onRemove: counts and listeners                               *)

CountInsertedOnce(cs, ids) ==  \* seeded: a document listed already is not counted again
    [d \in DocIds |-> cs[d] + (IF d \in ElementsOf(docs) THEN 0 ELSE Occurrences(ids, d))]
CountInserted(cs, ids) == [d \in DocIds |-> cs[d] + Occurrences(ids, d)]

CountRemoved(cs, before, after) ==
    [d \in DocIds |-> cs[d] - (Occurrences(before, d) - Occurrences(Remaining(before, after), d))]

\* Documents a change takes out of the list: one listener is in the map, whatever the number.
Removed(before, after) ==
    {d \in DocIds : Occurrences(before, d) > Occurrences(Remaining(before, after), d)}

ListeningOnce(lv, ids) ==  \* seeded: a document with a listener gets no other
    [d \in DocIds |-> IF lv[d] > 0 THEN lv[d] ELSE Occurrences(ids, d)]
Listening(lv, ids) == [d \in DocIds |-> lv[d] + Occurrences(ids, d)]

-----------------------------------------------------------------------------
(* onChange                                                                  *)

\* The change in slot c, to `after': its removals and moves, and the counts and listeners of its
\* first run of insertions.
BeginChange(c, after, first) ==
    LET places == NewPlaces(docs, after)
        gone == Removed(docs, after)
        new == RunIds(after, places)
        others == {o \in Slot \ {c} : changes[o].phase = "begun"}
    IN  /\ docs' = Remaining(docs, after)
        /\ counts' = CountInserted(CountRemoved(counts, docs, after), new)
        /\ live' = Listening([d \in DocIds |-> live[d] - (IF d \in gone \cap held THEN 1 ELSE 0)], new)
        /\ held' = (held \ gone) \cup ElementsOf(new)
        /\ changes' = [o \in Slot |->
               IF o = c THEN IF places = {} THEN Free
                             ELSE [phase |-> "begun", first |-> first, after |-> after,
                                   left |-> places, alone |-> others = {}]
               ELSE [changes[o] EXCEPT !.alone = FALSE]]
        /\ shown' = IF places = {} /\ others = {} THEN [sure |-> TRUE, ids |-> after]
                    ELSE [sure |-> FALSE, ids |-> <<>>]
        /\ status' = IF first /\ places = {} THEN "subscribed" ELSE status

\* The documents of a run have loaded: they are inserted, and the next run is begun.
Insert(c) ==
    LET ch == changes[c]
        rest == LaterRuns(ch.left)
        new == RunIds(ch.after, rest)
    IN  /\ ch.phase = "begun"
        /\ docs' = Splice(docs, RunStart(ch.left) - 1, RunIds(ch.after, ch.left))
        /\ counts' = CountInserted(counts, new)
        /\ live' = Listening(live, new)
        /\ held' = held \cup ElementsOf(new)
        /\ changes' = [changes EXCEPT ![c] = IF rest = {} THEN Free ELSE [ch EXCEPT !.left = rest]]
        /\ shown' = IF rest = {} /\ ch.alone THEN [sure |-> TRUE, ids |-> ch.after]
                    ELSE [sure |-> FALSE, ids |-> <<>>]
        /\ status' = IF ch.first /\ rest = {} /\ status = "subscribing" THEN "subscribed" ELSE status
        /\ UNCHANGED <<ready, released, begun>>

-----------------------------------------------------------------------------
(* localQuery: the store's answer, and then the change                       *)

AskStore(c, after, first) ==
    /\ changes[c].phase = "free" /\ begun < MaxChanges
    /\ begun' = begun + 1
    /\ changes' = [changes EXCEPT ![c] =
           [phase |-> "local", first |-> first, after |-> after, left |-> {}, alone |-> FALSE]]
    /\ UNCHANGED <<ready, docs, counts, held, live, shown, released>>

Subscribe(c, after) ==
    /\ status = "new" /\ status' = "subscribing"
    /\ AskStore(c, after, TRUE)

\* RealtimeService.onLocalDocUpdate, for a document of the collection.
LocalUpdate(c, after) ==
    /\ status = "subscribed"
    /\ AskStore(c, after, FALSE)
    /\ UNCHANGED status

StoreAnswers(c) ==
    /\ changes[c].phase = "local"
    /\ BeginChange(c, changes[c].after, changes[c].first)
    /\ UNCHANGED <<ready, released, begun>>

-----------------------------------------------------------------------------
(* The server                                                                *)

\* The adapter's ready$, when the results and, of a page, their number have come, and after it its
\* remoteChanges$.
AdapterEmits == begun < MaxChanges /\ begun' = begun + 1 /\ ready' = TRUE

\* onReady and, on remoteChanges$, onChange.
RemoteResult(c, after) ==
    /\ status = "subscribed" /\ changes[c].phase = "free"
    /\ AdapterEmits
    /\ BeginChange(c, after, FALSE)
    /\ UNCHANGED released

\* onlineQuery: the results are shown, and nothing is subscribed to.
Fetch(after) ==
    /\ status = "new" /\ status' = "fetched"
    /\ ready' = TRUE
    /\ docs' = after
    /\ UNCHANGED <<changes, counts, held, live, shown, released, begun>>

\* The component is destroyed, and the query is ready or five seconds have passed.
DestroyDue == status \in {"subscribed", "fetched"}

DisposeKeepingDocs ==  \* seeded: the documents are not told
    /\ DestroyDue /\ status' = "disposed"
    /\ live' = [d \in DocIds |-> live[d] - (IF d \in held THEN 1 ELSE 0)]
    /\ held' = {}
    /\ released' = (ready /\ \A c \in Slot : changes[c].phase = "free")
    /\ UNCHANGED <<ready, docs, changes, counts, shown, begun>>
Dispose ==
    /\ DestroyDue /\ status' = "disposed"
    /\ counts' = IF status = "subscribed" /\ ready
                 THEN [d \in DocIds |-> counts[d] - Occurrences(docs, d)] ELSE counts
    /\ live' = [d \in DocIds |-> live[d] - (IF d \in held THEN 1 ELSE 0)]
    /\ held' = {}
    /\ released' = (ready /\ \A c \in Slot : changes[c].phase = "free")
    /\ UNCHANGED <<ready, docs, changes, shown, begun>>

QueryNext ==
    \/ \E c \in Slot, after \in Results : Subscribe(c, after) \/ LocalUpdate(c, after)
    \/ \E c \in Slot, after \in Results : RemoteResult(c, after)
    \/ \E c \in Slot : StoreAnswers(c) \/ Insert(c)
    \/ \E after \in Results : Fetch(after)
    \/ Dispose

QuerySpec == QueryInit /\ [][QueryNext]_queryVars

-----------------------------------------------------------------------------

\* A document counts this query as often as it is listed or about to be, however changes overlap:
\* the count that makes RealtimeDoc keep its offline data, and lets go of it, cannot drift.
CountsBalance ==
    status \in {"subscribing", "subscribed"} =>
        \A d \in DocIds :
            counts[d] = Occurrences(docs, d) +
                        Cardinality({c \in Slot : d \in ElementsOf(Inserting(changes[c]))})

\* As long as the query lives, no document that counts it goes unheard: overlapping changes leave
\* listeners too many (docSubscriptions keeps only the last), never too few.
ListenersCover == status # "disposed" => \A d \in DocIds : live[d] >= counts[d]

\* A change that ran alone leaves the list as its result says, whatever disorder (stale places,
\* documents twice) overlapping changes had left before it.
ChangeHeals == shown.sure /\ status # "disposed" => docs = shown.ids

\* A query disposed of when ready and quiet keeps no document subscribed, then or later.
DisposeReleases == released /\ status = "disposed" => \A d \in DocIds : counts[d] = 0
=============================================================================
