------------------------------ MODULE OfflineDoc ------------------------------
(***************************************************************************)
(* A realtime document in one browser: RealtimeDoc over its ShareDB          *)
(* document, the copy it keeps in IndexedDB, and the custom websocket that   *)
(* stores an operation before it is sent.                                    *)
(*                                                                           *)
(* The user edits on line and off line; the page closes at any moment and is *)
(* opened again, on the copy in IndexedDB; connections drop and messages are *)
(* lost or arrive late.  ShareDB and IndexedDB are external.  An operation   *)
(* is the set of edits composed into it, edits commute, and the document     *)
(* exists on the server throughout.                                          *)
(***************************************************************************)
EXTENDS Integers, Sequences, FiniteSets

CONSTANTS
    Edits,      \* edits this user makes
    OtherEdits, \* edits other users make
    Routes,     \* how pages get the document: in a "query" or by "subscribe"
    Cases,      \* "editRestored": the user edits while an operation that another page has sent
                \* waits to be sent again
    MaxPages,   \* bound: pages opened, one after another
    MaxDrops    \* bound: connections lost

ASSUME EditsAssumption == Edits \cap OtherEdits = {}
ASSUME UsesAssumption == Routes \subseteq {"query", "subscribe"} /\ Cases \subseteq {"editRestored"}
ASSUME BoundsAssumption == MaxPages \in Nat /\ MaxDrops \in Nat

VARIABLES
    log,   \* the operations the server has applied; its length is the document's version
    net,   \* the messages on their way to the server
    store, \* the document's record in IndexedDB, or NoRecord
    page,  \* the page's memory
    drops, \* connections lost so far
    made,  \* the edits made so far
    saved  \* of those, the edits that a record stored has held

vars == <<log, net, store, page, drops, made, saved>>

Unloaded == -1
Ops == [edits: SUBSET (Edits \cup OtherEdits), src: 0 .. MaxPages, seq: Nat]
Records == [v: Nat \cup {Unloaded}, text: SUBSET (Edits \cup OtherEdits), ops: Seq(Ops)]
NoRecord == [v |-> Unloaded, text |-> {}, ops |-> <<>>]
Messages == [op: Ops, v: Nat]

\* `id' is the ShareDB connection's and `seq' its next operation's; `ops' the operations the server
\* has not acknowledged, the first of them sent if `inflight'; `subscribed' is RealtimeDoc's,
\* `asked' and `streaming' whether ShareDB's subscription is wanted and answered; `puts' the writes
\* to IndexedDB under way; `sends' the messages waiting for them, `after' of them; `owed' whether
\* an event is to be followed by an update of the offline data.
Pages == [id: 0 .. MaxPages, open: BOOLEAN, loaded: BOOLEAN, online: BOOLEAN,
          subscribed: BOOLEAN, asked: BOOLEAN, streaming: BOOLEAN, v: Nat \cup {Unloaded},
          text: SUBSET (Edits \cup OtherEdits), ops: Seq(Ops), inflight: BOOLEAN, seq: Nat,
          offlineV: Nat \cup {Unloaded}, puts: Seq(Records),
          sends: Seq([op: Ops, v: Nat, after: Nat]), owed: BOOLEAN]

NewPage(id) == [id |-> id, open |-> FALSE, loaded |-> FALSE, online |-> FALSE, subscribed |-> FALSE,
                asked |-> FALSE, streaming |-> FALSE, v |-> Unloaded, text |-> {}, ops |-> <<>>,
                inflight |-> FALSE, seq |-> 1, offlineV |-> Unloaded, puts |-> <<>>,
                sends |-> <<>>, owed |-> FALSE]

TypeOK ==
    /\ log \in Seq(Ops)
    /\ net \subseteq Messages
    /\ store \in Records
    /\ page \in Pages
    /\ drops \in 0 .. MaxDrops
    /\ made \subseteq Edits /\ saved \subseteq made

\* The document is new to the browser, or has been opened in it before.
Init ==
    /\ log = <<>>
    /\ net = {}
    /\ store \in {NoRecord, [NoRecord EXCEPT !.v = 0]}
    /\ page = NewPage(0)
    /\ drops = 0
    /\ made = {} /\ saved = {}

EditsIn(ops) == UNION {ops[i].edits : i \in DOMAIN ops}

-----------------------------------------------------------------------------
(* The offline copy, and sending.                                           *)

RecordOfPending(p) ==
    [v |-> p.v, text |-> p.text, ops |-> IF p.inflight THEN Tail(p.ops) ELSE p.ops]

\* The record holds the document as the user sees it and every operation not acknowledged.
Record(p) == [v |-> p.v, text |-> p.text, ops |-> p.ops]

UpdateOfflineData(p, force) ==
    IF \/ p.v = Unloaded
       \/ ~force /\ ~p.subscribed
       \/ p.ops = <<>> /\ p.v = p.offlineV
    THEN p
    ELSE [p EXCEPT !.puts = Append(@, Record(p)), !.offlineV = p.v]

\* ShareDB numbers an operation when it first sends it, and its websocket waits for beforeSendOp,
\* an update of the offline data that is not forced.
Numbered(p) ==
    IF Head(p.ops).seq = 0
    THEN [p EXCEPT !.ops = <<[Head(@) EXCEPT !.src = p.id, !.seq = p.seq]>> \o Tail(@),
                   !.seq = @ + 1, !.inflight = TRUE]
    ELSE [p EXCEPT !.inflight = TRUE]

SendAtOnce(p) ==
    LET numbered == Numbered(p)
    IN [UpdateOfflineData(numbered, FALSE) EXCEPT
           !.sends = Append(@, [op |-> Head(numbered.ops), v |-> p.v, after |-> 0])]

Send(p) ==
    LET numbered == Numbered(p)
        updated == UpdateOfflineData(numbered, FALSE)
    IN [updated EXCEPT
           !.sends = Append(@, [op |-> Head(numbered.ops), v |-> p.v,
                                after |-> IF updated.puts = p.puts THEN 0 ELSE Len(updated.puts)])]

\* ShareDB sends one operation at a time.
Flush(p) == IF p.online /\ ~p.inflight /\ p.ops # <<>> THEN Send(p) ELSE p

-----------------------------------------------------------------------------
(* The page.                                                                *)

OpenPage ==
    /\ ~page.open /\ page.id < MaxPages
    /\ \E route \in Routes :
          page' = [NewPage(page.id + 1) EXCEPT !.open = TRUE, !.subscribed = route = "query"]
    /\ UNCHANGED <<log, net, store, drops, made, saved>>

LoadSnapshot ==
    /\ page.open /\ ~page.loaded
    /\ page' = [page EXCEPT !.v = store.v, !.text = store.text, !.offlineV = store.v,
                            !.loaded = TRUE, !.asked = TRUE]
    /\ UNCHANGED <<log, net, store, drops, made, saved>>

LoadUnsent ==
    /\ page.open /\ ~page.loaded
    /\ page' = [page EXCEPT !.v = store.v, !.text = store.text, !.offlineV = store.v,
                            !.ops = store.ops, !.loaded = TRUE, !.asked = TRUE]
    /\ UNCHANGED <<log, net, store, drops, made, saved>>

\* loadFromOfflineStore takes the record and its pending operations; a query has the offline data
\* updated; the subscription is next.
LoadOffline ==
    /\ page.open /\ ~page.loaded
    /\ LET restored == [page EXCEPT !.v = store.v, !.text = store.text, !.offlineV = store.v,
                                    !.ops = store.ops]
       IN page' = [UpdateOfflineData(Flush(restored), FALSE) EXCEPT !.loaded = TRUE, !.asked = TRUE]
    /\ UNCHANGED <<log, net, store, drops, made, saved>>

\* The connection is made, again: pending operations are sent before subscriptions are renewed.
Connect ==
    /\ page.open /\ ~page.online
    /\ page' = Flush([page EXCEPT !.online = TRUE])
    /\ UNCHANGED <<log, net, store, drops, made, saved>>

\* The server answers the subscription, with a snapshot when the page has none, which a query has
\* stored.
Subscribed ==
    /\ page.online /\ page.asked /\ ~page.streaming
    /\ page' = [page EXCEPT !.streaming = TRUE, !.subscribed = TRUE,
                            !.v = IF @ = Unloaded THEN Len(log) ELSE @,
                            !.text = IF page.v = Unloaded THEN EditsIn(log) ELSE @,
                            !.owed = @ \/ (page.v = Unloaded /\ page.subscribed)]
    /\ UNCHANGED <<log, net, store, drops, made, saved>>

\* ShareDB composes an edit into the last operation unless that is in flight or this page has sent it.
Last(p) == p.ops[Len(p.ops)]
Composable(p) == /\ p.ops # <<>> /\ ~(p.inflight /\ Len(p.ops) = 1)
                 /\ Last(p).seq = 0 \/ Last(p).src # p.id

\* submit: ShareDB composes the edit into the last operation or queues it, the offline data is
\* updated by force, and the operation is sent.
Edit(e) ==
    /\ page.open /\ page.v # Unloaded /\ e \notin made
    /\ \/ "editRestored" \in Cases
       \/ ~(Composable(page) /\ Last(page).seq # 0)
    /\ LET ops == IF Composable(page)
                  THEN [page.ops EXCEPT ![Len(page.ops)].edits = @ \cup {e}]
                  ELSE Append(page.ops, [edits |-> {e}, src |-> 0, seq |-> 0])
       IN page' = Flush(UpdateOfflineData([page EXCEPT !.ops = ops, !.text = @ \cup {e}], TRUE))
    /\ made' = made \cup {e}
    /\ UNCHANGED <<log, net, store, drops, saved>>

PutDoneUnguarded ==
    /\ page.puts # <<>>
    /\ store' = Head(page.puts)
    /\ page' = [page EXCEPT
                   !.puts = Tail(@),
                   !.sends = [i \in DOMAIN @ |-> [@[i] EXCEPT !.after = @ - 1]]]
    /\ saved' = saved \cup EditsIn(Head(page.puts).ops)
    /\ UNCHANGED <<log, net, drops, made>>

\* IndexedDB completes the writes in their order.
PutDone ==
    /\ page.puts # <<>>
    /\ store' = Head(page.puts)
    /\ LET nearer(send) == [send EXCEPT !.after = IF send.after = 0 THEN 0 ELSE send.after - 1]
       IN page' = [page EXCEPT !.puts = Tail(@),
                               !.sends = [i \in DOMAIN @ |-> nearer(@[i])]]
    /\ saved' = saved \cup EditsIn(Head(page.puts).ops)
    /\ UNCHANGED <<log, net, drops, made>>

\* A message is sent, or dropped when the socket is closed (maxEnqueuedMessages is 0).
Transmit ==
    /\ page.sends # <<>> /\ Head(page.sends).after = 0
    /\ net' = IF page.online
              THEN net \cup {[op |-> Head(page.sends).op, v |-> Head(page.sends).v]}
              ELSE net
    /\ page' = [page EXCEPT !.sends = Tail(@)]
    /\ UNCHANGED <<log, store, drops, made, saved>>

Own(op) == page.inflight /\ op.src = Head(page.ops).src /\ op.seq = Head(page.ops).seq

\* The page receives the next operation: another's, or its own as an acknowledgement, which comes
\* after those the page has missed.
Learn ==
    /\ page.online /\ page.v \in 0 .. Len(log) - 1
    /\ page.streaming \/ \E i \in DOMAIN log : Own(log[i])
    /\ LET op == log[page.v + 1]
           learned == [page EXCEPT !.v = @ + 1, !.text = @ \cup op.edits, !.owed = TRUE]
       IN page' = IF Own(op)
                  THEN Flush([learned EXCEPT !.ops = Tail(@), !.inflight = FALSE])
                  ELSE learned
    /\ UNCHANGED <<log, net, store, drops, made, saved>>

\* The update that follows what was learned, once subscribe has returned.
UpdateLearned ==
    /\ page.owed
    /\ page' = UpdateOfflineData([page EXCEPT !.owed = FALSE], FALSE)
    /\ UNCHANGED <<log, net, store, drops, made, saved>>

-----------------------------------------------------------------------------
(* The server, the network and the others.                                  *)

\* An operation the server has applied since the version it is based on is only acknowledged.
Submit(m) ==
    /\ m \in net
    /\ net' = net \ {m}
    /\ log' = IF \E i \in m.v + 1 .. Len(log) : log[i].src = m.op.src /\ log[i].seq = m.op.seq
              THEN log ELSE Append(log, m.op)
    /\ UNCHANGED <<store, page, drops, made, saved>>

OtherEdit(e) ==
    /\ e \notin EditsIn(log)
    /\ log' = Append(log, [edits |-> {e}, src |-> 0, seq |-> 0])
    /\ UNCHANGED <<net, store, page, drops, made, saved>>

\* The operation in flight goes back to the head of those pending.  What was sent may be lost.
Drop ==
    /\ page.online /\ drops < MaxDrops
    /\ page' = [page EXCEPT !.online = FALSE, !.streaming = FALSE, !.inflight = FALSE]
    /\ net' \in {net, {}}
    /\ drops' = drops + 1
    /\ UNCHANGED <<log, store, made, saved>>

\* The page closes, or the browser stops: the writes not completed and the messages not sent are
\* lost.  A page is opened again later.
Close ==
    /\ page.open /\ page.id < MaxPages
    /\ page' = NewPage(page.id)
    /\ net' \in {net, {}}
    /\ UNCHANGED <<log, store, drops, made, saved>>

PageNext ==
    \/ OpenPage \/ LoadOffline \/ Connect \/ Subscribed
    \/ PutDone \/ Transmit \/ Learn \/ UpdateLearned

Next ==
    \/ PageNext
    \/ \E e \in Edits : Edit(e)
    \/ \E m \in net : Submit(m)
    \/ \E e \in OtherEdits : OtherEdit(e)
    \/ Drop
    \/ Close

Spec == Init /\ [][Next]_vars

\* The browser works on, the user opens the page again and connects at last, and the server answers.
FairSpec ==
    /\ Spec
    /\ WF_vars(OpenPage) /\ WF_vars(LoadOffline) /\ WF_vars(Connect) /\ WF_vars(Subscribed)
    /\ WF_vars(PutDone) /\ WF_vars(Transmit) /\ WF_vars(Learn) /\ WF_vars(UpdateLearned)
    /\ WF_vars(\E m \in net : Submit(m))

-----------------------------------------------------------------------------
(* Properties.                                                              *)

\* "The op can be submitted again idempotently" (ShareDBWebsocketAdapter): however pages close and
\* messages are repeated, the server applies each edit once.
AppliedOnce ==
    \A i, j \in DOMAIN log : log[i].edits \cap log[j].edits # {} => i = j

\* An edit that was stored in IndexedDB is never lost: the record has it until the server has.
SavedKept == saved \subseteq EditsIn(log) \cup EditsIn(store.ops)

\* The abstract specification: what is kept is delivered, once, or still kept, and shown.
Delivery == INSTANCE EditDelivery
    WITH shown <- page.text, kept <- EditsIn(store.ops) \ EditsIn(log),
         log <- [i \in DOMAIN log |-> log[i].edits]
DeliverySpec == Delivery!Spec

\* What the user sees is what the server had at the page's version and the edits not acknowledged.
ShowsServer ==
    page.v # Unloaded => page.text = EditsIn(SubSeq(log, 1, page.v)) \cup EditsIn(page.ops)

\* Every edit that was stored reaches the server, whatever was lost on the way.
SavedArrives == \A e \in Edits : e \in saved ~> e \in EditsIn(log)

=============================================================================
