--------------------------- MODULE OfflineDocProofs ---------------------------
(***************************************************************************)
(* Theorems about a document edited off line, for any edits, pages and lost  *)
(* connections.                                                              *)
(***************************************************************************)
EXTENDS OfflineDoc, SequenceTheorems, TLAPS

\* The runs' case: a document in queries, and no edit composed into an operation sent before.
Restricted == Routes = {"query"} /\ Cases = {}

-----------------------------------------------------------------------------
(* What is known of operations, and where                                    *)

Apart(o1, o2) == o1.edits \cap o2.edits = {}
SameNumber(o1, o2) == o1.seq # 0 /\ o1.seq = o2.seq /\ o1.src = o2.src
Alike(o1, o2) == ~Apart(o1, o2) \/ SameNumber(o1, o2)

\* The record stored, the records to be stored after it, and the one the page would store now.
Top(p) == IF p.loaded THEN Len(p.puts) + 1 ELSE 0
View(st, p, i) == IF i = 0 THEN st ELSE IF i \in DOMAIN p.puts THEN p.puts[i] ELSE Record(p)

\* An operation with the version it is based on, and the first view from which it is known.
Sight(op, v, at) == [op |-> op, v |-> v, at |-> at]

Held(st, p) ==
    UNION {{Sight(View(st, p, i).ops[k], View(st, p, i).v, i) : k \in DOMAIN View(st, p, i).ops} :
           i \in 0 .. Top(p)}
Sent(nt, p) ==
    {Sight(m.op, m.v, 0) : m \in nt} \cup
    {Sight(p.sends[i].op, p.sends[i].v, p.sends[i].after) : i \in DOMAIN p.sends}

WithNumber(H) == {x \in H : x.op.seq # 0}
Raw(H) == {x \in H : x.op.seq = 0}

\* A number means one operation; an operation without one is not in one that has a number, as far
\* as the record it is in can know; the log has what is based on less than it.
Core(lg, H, S) ==
    LET num == WithNumber(H) \cup S
    IN  /\ \A x \in S : x.op.seq # 0
        /\ \A x, y \in num : Alike(x.op, y.op) => x.op = y.op
        /\ \A u \in Raw(H), y \in num : y.at <= u.at => Apart(u.op, y.op)
        /\ \A x \in num, j \in DOMAIN lg : Alike(x.op, lg[j]) => x.op = lg[j] /\ j > x.v
        /\ \A u \in Raw(H), j \in DOMAIN lg : Apart(u.op, lg[j])

Bounded(lg, H, S, md, p) ==
    \A x \in H \cup S :
        /\ x.at <= Top(p) /\ x.v <= Len(lg) /\ x.op.edits \subseteq md
        /\ x.op.seq # 0 => x.op.src < p.id \/ (x.op.src = p.id /\ (p.open => x.op.seq < p.seq))

LogInv(lg, md, p) ==
    /\ \A i, j \in DOMAIN lg : ~Apart(lg[i], lg[j]) => i = j
    /\ \A j \in DOMAIN lg :
           /\ lg[j].edits \subseteq md \cup OtherEdits
           /\ lg[j].seq # 0 => lg[j].src < p.id \/ (lg[j].src = p.id /\ (p.open => lg[j].seq < p.seq))

Sound(lg, R) ==
    /\ R.v = Unloaded => R.ops = <<>> /\ R.text = {}
    /\ R.v # Unloaded => /\ R.v <= Len(lg)
                         /\ R.text = EditsIn(SubSeq(lg, 1, R.v)) \cup EditsIn(R.ops)
    /\ \A k, l \in DOMAIN R.ops : k # l => Apart(R.ops[k], R.ops[l])
    /\ \A k \in DOMAIN R.ops : k # 1 => R.ops[k].seq = 0

ViewsInv(lg, st, p) ==
    /\ \A i \in 0 .. Top(p) : Sound(lg, View(st, p, i))
    /\ \A i, j \in 0 .. Top(p) :
           i <= j => EditsIn(View(st, p, i).ops) \subseteq EditsIn(lg) \cup EditsIn(View(st, p, j).ops)

PageInv(p) ==
    /\ ~p.open => p = NewPage(p.id)
    /\ ~p.loaded => /\ p.v = Unloaded /\ p.text = {} /\ p.ops = <<>> /\ p.puts = <<>> /\ p.sends = <<>>
                    /\ ~p.asked /\ ~p.streaming /\ ~p.inflight /\ ~p.owed
    /\ p.open => p.subscribed
    /\ p.inflight => p.ops # <<>> /\ Head(p.ops).seq # 0
    /\ p.seq >= 1
    /\ \A i \in DOMAIN p.sends : p.sends[i].after <= Len(p.puts)

Flying(p) == p.online /\ p.ops # <<>> => p.inflight

Base(lg, nt, st, p, md) ==
    /\ lg \in Seq(Ops) /\ nt \subseteq Messages /\ st \in Records /\ p \in Pages
    /\ md \subseteq Edits
    /\ Core(lg, Held(st, p), Sent(nt, p))
    /\ Bounded(lg, Held(st, p), Sent(nt, p), md, p)
    /\ LogInv(lg, md, p)
    /\ ViewsInv(lg, st, p)
    /\ PageInv(p)

\* What a message carries is in the record, or in the write it waits for, until the server has it.
Backed(lg, nt, st, p) ==
    \A y \in Sent(nt, p) : y.op.edits \subseteq EditsIn(lg) \cup EditsIn(View(st, p, y.at).ops)

DocInv ==
    /\ Base(log, net, store, page, made)
    /\ Flying(page)
    /\ Backed(log, net, store, page)
    /\ SavedKept
    /\ drops \in 0 .. MaxDrops /\ saved \subseteq made

-----------------------------------------------------------------------------
(* Preservation of what is known                                             *)

\* Fewer sightings, at views that g maps monotonically to those of sightings there were.
LEMMA CoreMono ==
    ASSUME NEW lg, NEW H, NEW S, NEW H2, NEW S2, NEW g \in [Nat -> Nat],
           Core(lg, H, S),
           \A i, j \in Nat : i <= j => g[i] <= g[j],
           \A x \in H \cup S : x.at \in Nat,
           \A u \in H2 : u.at \in Nat /\ Sight(u.op, u.v, g[u.at]) \in H,
           \A y \in S2 : /\ y.at \in Nat
                        /\ \E x \in WithNumber(H) \cup S :
                               x.op = y.op /\ x.v = y.v /\ x.at <= g[y.at]
    PROVE  Core(lg, H2, S2)
<1> DEFINE num == WithNumber(H) \cup S
           num2 == WithNumber(H2) \cup S2
<1>1. ASSUME NEW y \in num2
      PROVE  y.at \in Nat /\ \E x \in num : x.op = y.op /\ x.v = y.v /\ x.at <= g[y.at]
    <2>1. CASE y \in S2
        BY <2>1
    <2>2. CASE y \in WithNumber(H2)
        <3> DEFINE x == Sight(y.op, y.v, g[y.at])
        <3>1. y.at \in Nat /\ x \in H /\ y.op.seq # 0
            BY <2>2 DEF WithNumber
        <3>2. x.op = y.op /\ x.v = y.v /\ x.at = g[y.at] /\ g[y.at] \in Nat
            BY <3>1 DEF Sight
        <3> HIDE DEF x
        <3>3. x \in WithNumber(H)
            BY <3>1, <3>2 DEF WithNumber
        <3>. QED  BY <3>1, <3>2, <3>3
    <2>. QED  BY <2>1, <2>2
<1>2. ASSUME NEW u \in Raw(H2)
      PROVE  u.at \in Nat /\ \E x \in Raw(H) : x.op = u.op /\ x.v = u.v /\ x.at = g[u.at]
    <2> DEFINE x == Sight(u.op, u.v, g[u.at])
    <2>1. u.at \in Nat /\ x \in H /\ u.op.seq = 0
        BY DEF Raw
    <2>2. x.op = u.op /\ x.v = u.v /\ x.at = g[u.at]
        BY DEF Sight
    <2> HIDE DEF x
    <2>. QED  BY <2>1, <2>2 DEF Raw
<1>3. /\ \A x \in S : x.op.seq # 0
      /\ \A x, y \in num : Alike(x.op, y.op) => x.op = y.op
      /\ \A u \in Raw(H), y \in num : y.at <= u.at => Apart(u.op, y.op)
      /\ \A x \in num, j \in DOMAIN lg : Alike(x.op, lg[j]) => x.op = lg[j] /\ j > x.v
      /\ \A u \in Raw(H), j \in DOMAIN lg : Apart(u.op, lg[j])
    BY Zenon DEF Core
<1>4. \A x \in num : x.op.seq # 0 /\ x.at \in Nat
    BY <1>3 DEF WithNumber
<1> HIDE DEF num
<1>5. \A x \in S2 : x.op.seq # 0
    BY <1>1, <1>4
<1>6. ASSUME NEW x \in num2, NEW y \in num2, Alike(x.op, y.op)
      PROVE  x.op = y.op
    <2>1. PICK w \in num : w.op = x.op
        BY <1>1
    <2>2. PICK z \in num : z.op = y.op
        BY <1>1
    <2>. QED  BY <1>3, <1>6, <2>1, <2>2
<1>7. ASSUME NEW u \in Raw(H2), NEW y \in num2, y.at <= u.at
      PROVE  Apart(u.op, y.op)
    <2>1. PICK x \in Raw(H) : x.op = u.op /\ x.at = g[u.at]
        BY <1>2
    <2>2. PICK z \in num : z.op = y.op /\ z.at <= g[y.at]
        BY <1>1
    <2>3. y.at \in Nat /\ u.at \in Nat /\ g[y.at] \in Nat /\ g[u.at] \in Nat /\ z.at \in Nat
        BY <1>1, <1>2, <1>4
    <2>4. g[y.at] <= g[u.at]
        BY <1>7, <2>3
    <2>5. z.at <= x.at
        BY <2>1, <2>2, <2>3, <2>4
    <2>. QED  BY <1>3, <2>1, <2>2, <2>5
<1>8. \A x \in num2, j \in DOMAIN lg : Alike(x.op, lg[j]) => x.op = lg[j] /\ j > x.v
    BY <1>1, <1>3, Zenon
<1>9. \A u \in Raw(H2), j \in DOMAIN lg : Apart(u.op, lg[j])
    BY <1>2, <1>3, Zenon
<1> HIDE DEF num2
<1>. QED  BY <1>5, <1>6, <1>7, <1>8, <1>9, Zenon DEF Core, num2

-----------------------------------------------------------------------------
(* Views                                                                     *)

LEMMA ViewsType ==
    ASSUME NEW st \in Records, NEW p \in Pages
    PROVE  /\ Len(p.puts) \in Nat /\ Top(p) \in Nat /\ DOMAIN p.puts = 1 .. Len(p.puts)
           /\ Record(p) \in Records
           /\ \A i \in Nat : View(st, p, i) \in Records
<1>1. p.puts \in Seq(Records)
    BY DEF Pages
<1>2. Record(p) \in Records
    BY DEF Pages, Records, Record
<1>. QED  BY <1>1, <1>2 DEF Top, View

LEMMA HeldFrom ==
    ASSUME NEW st, NEW p, NEW x \in Held(st, p)
    PROVE  \E i \in 0 .. Top(p) : \E k \in DOMAIN View(st, p, i).ops :
               x = Sight(View(st, p, i).ops[k], View(st, p, i).v, i)
BY DEF Held

LEMMA HeldIn ==
    ASSUME NEW st, NEW p, NEW i \in 0 .. Top(p), NEW k \in DOMAIN View(st, p, i).ops
    PROVE  Sight(View(st, p, i).ops[k], View(st, p, i).v, i) \in Held(st, p)
BY DEF Held

LEMMA SightFields ==
    ASSUME NEW op, NEW v, NEW at
    PROVE  Sight(op, v, at).op = op /\ Sight(op, v, at).v = v /\ Sight(op, v, at).at = at
BY DEF Sight

LEMMA HeldType ==
    ASSUME NEW st \in Records, NEW p \in Pages, NEW x \in Held(st, p)
    PROVE  x.op \in Ops /\ x.v \in Nat \cup {Unloaded} /\ x.at \in 0 .. Top(p) /\ x.at \in Nat
<1>1. PICK i \in 0 .. Top(p) : \E k \in DOMAIN View(st, p, i).ops :
          x = Sight(View(st, p, i).ops[k], View(st, p, i).v, i)
    BY HeldFrom
<1>2. PICK k \in DOMAIN View(st, p, i).ops : x = Sight(View(st, p, i).ops[k], View(st, p, i).v, i)
    BY <1>1
<1>3. Top(p) \in Nat /\ i \in Nat /\ View(st, p, i) \in Records
    BY ViewsType
<1>4. View(st, p, i).ops \in Seq(Ops) /\ View(st, p, i).v \in Nat \cup {Unloaded}
    BY <1>3 DEF Records
<1>5. View(st, p, i).ops[k] \in Ops
    BY <1>4
<1>. QED  BY <1>2, <1>3, <1>4, <1>5, SightFields

LEMMA SentFrom ==
    ASSUME NEW nt, NEW p, NEW x \in Sent(nt, p)
    PROVE  \/ \E m \in nt : x = Sight(m.op, m.v, 0)
           \/ \E i \in DOMAIN p.sends : x = Sight(p.sends[i].op, p.sends[i].v, p.sends[i].after)
BY DEF Sent

LEMMA SendsType ==
    ASSUME NEW p \in Pages
    PROVE  /\ DOMAIN p.sends = 1 .. Len(p.sends) /\ Len(p.sends) \in Nat
           /\ \A i \in DOMAIN p.sends :
                  p.sends[i].op \in Ops /\ p.sends[i].v \in Nat /\ p.sends[i].after \in Nat
<1> DEFINE T == [op : Ops, v : Nat, after : Nat]
<1>1. p.sends \in Seq(T)
    BY DEF Pages
<1>2. \A t \in T : t.op \in Ops /\ t.v \in Nat /\ t.after \in Nat
    OBVIOUS
<1> HIDE DEF T
<1>3. DOMAIN p.sends = 1 .. Len(p.sends) /\ Len(p.sends) \in Nat /\ \A i \in DOMAIN p.sends : p.sends[i] \in T
    BY <1>1
<1>. QED  BY <1>2, <1>3

LEMMA SentType ==
    ASSUME NEW nt \in SUBSET Messages, NEW p \in Pages, NEW x \in Sent(nt, p)
    PROVE  x.op \in Ops /\ x.v \in Nat /\ x.at \in Nat
<1>1. CASE \E m \in nt : x = Sight(m.op, m.v, 0)
    BY <1>1, SightFields DEF Messages
<1>2. CASE \E i \in DOMAIN p.sends : x = Sight(p.sends[i].op, p.sends[i].v, p.sends[i].after)
    <2>1. PICK i \in DOMAIN p.sends : x = Sight(p.sends[i].op, p.sends[i].v, p.sends[i].after)
        BY <1>2
    <2>. QED  BY <2>1, SendsType, SightFields
<1>. QED  BY <1>1, <1>2, SentFrom

\* The views of one page and store are those of another, in their order: nothing new is known.
Mapped(st, p, st2, q, g) ==
    /\ g \in [Nat -> Nat]
    /\ \A i, j \in Nat : i <= j => g[i] <= g[j]
    /\ \A i \in 0 .. Top(q) : g[i] \in 0 .. Top(p) /\ View(st2, q, i) = View(st, p, g[i])

Fresher(p, q) ==
    \/ p.id < q.id
    \/ p.id = q.id /\ (q.open => p.open /\ p.seq <= q.seq)

LEMMA BaseMapped ==
    ASSUME NEW lg, NEW nt, NEW st, NEW p, NEW md, NEW nt2, NEW st2, NEW q, NEW g,
           Base(lg, nt, st, p, md),
           nt2 \in SUBSET Messages, st2 \in Records, q \in Pages,
           Mapped(st, p, st2, q, g),
           \A y \in Sent(nt2, q) :
               /\ y.at <= Top(q)
               /\ \E x \in WithNumber(Held(st, p)) \cup Sent(nt, p) :
                      x.op = y.op /\ x.v = y.v /\ x.at <= g[y.at],
           Fresher(p, q), PageInv(q)
    PROVE  Base(lg, nt2, st2, q, md)
<1> DEFINE H == Held(st, p)
           S == Sent(nt, p)
           H2 == Held(st2, q)
           S2 == Sent(nt2, q)
<1>1. /\ lg \in Seq(Ops) /\ nt \in SUBSET Messages /\ st \in Records /\ p \in Pages /\ md \subseteq Edits
      /\ Core(lg, H, S) /\ Bounded(lg, H, S, md, p) /\ LogInv(lg, md, p) /\ ViewsInv(lg, st, p)
    BY DEF Base
<1>2. /\ g \in [Nat -> Nat] /\ \A i, j \in Nat : i <= j => g[i] <= g[j]
      /\ \A i \in 0 .. Top(q) : g[i] \in 0 .. Top(p) /\ View(st2, q, i) = View(st, p, g[i])
    BY DEF Mapped
<1>3. \A x \in H \cup S : x.at \in Nat
    BY <1>1, HeldType, SentType
<1>4. ASSUME NEW u \in H2
      PROVE  u.at \in Nat /\ u.at <= Top(q) /\ Sight(u.op, u.v, g[u.at]) \in H
    <2>1. PICK i \in 0 .. Top(q) : \E k \in DOMAIN View(st2, q, i).ops :
              u = Sight(View(st2, q, i).ops[k], View(st2, q, i).v, i)
        BY HeldFrom
    <2>2. PICK k \in DOMAIN View(st2, q, i).ops :
              u = Sight(View(st2, q, i).ops[k], View(st2, q, i).v, i)
        BY <2>1
    <2>3. u.op = View(st2, q, i).ops[k] /\ u.v = View(st2, q, i).v /\ u.at = i
        BY <2>2, SightFields
    <2>4. g[i] \in 0 .. Top(p) /\ View(st2, q, i) = View(st, p, g[i])
        BY <1>2
    <2>5. Sight(View(st, p, g[i]).ops[k], View(st, p, g[i]).v, g[i]) \in H
        BY <2>2, <2>4, HeldIn
    <2>6. Top(q) \in Nat
        BY ViewsType
    <2>. QED  BY <2>3, <2>4, <2>5, <2>6
<1>5. \A y \in S2 : /\ y.at \in Nat /\ y.at <= Top(q)
                    /\ \E x \in WithNumber(H) \cup S : x.op = y.op /\ x.v = y.v /\ x.at <= g[y.at]
    BY SentType
<1> HIDE DEF H, S, H2, S2
<1>6. Core(lg, H2, S2)
    <2>1. \A u \in H2 : u.at \in Nat /\ Sight(u.op, u.v, g[u.at]) \in H
        BY <1>4
    <2>2. \A y \in S2 : /\ y.at \in Nat
                        /\ \E x \in WithNumber(H) \cup S :
                               x.op = y.op /\ x.v = y.v /\ x.at <= g[y.at]
        BY <1>5
    <2>3. g \in [Nat -> Nat] /\ (\A i, j \in Nat : i <= j => g[i] <= g[j]) /\ Core(lg, H, S)
        BY <1>1, <1>2
    <2>. QED  BY <1>3, <2>1, <2>2, <2>3, CoreMono, Zenon
<1>7. \A y \in H2 \cup S2 : \E x \in H \cup S : x.op = y.op /\ x.v = y.v
    <2>1. ASSUME NEW y \in H2
          PROVE  \E x \in H \cup S : x.op = y.op /\ x.v = y.v
        BY <1>4, SightFields
    <2>2. ASSUME NEW y \in S2
          PROVE  \E x \in H \cup S : x.op = y.op /\ x.v = y.v
        BY <1>5 DEF WithNumber
    <2>. QED  BY <2>1, <2>2
<1>8. ASSUME NEW op \in Ops, op.seq # 0,
             op.src < p.id \/ (op.src = p.id /\ (p.open => op.seq < p.seq))
      PROVE  op.src < q.id \/ (op.src = q.id /\ (q.open => op.seq < q.seq))
    BY <1>1, <1>8 DEF Fresher, Ops, Pages
<1>9. Bounded(lg, H2, S2, md, q)
    <2>1. SUFFICES ASSUME NEW y \in H2 \cup S2
                   PROVE  /\ y.at <= Top(q) /\ y.v <= Len(lg) /\ y.op.edits \subseteq md
                          /\ y.op.seq # 0 => y.op.src < q.id \/
                                              (y.op.src = q.id /\ (q.open => y.op.seq < q.seq))
        BY DEF Bounded
    <2>2. PICK x \in H \cup S : x.op = y.op /\ x.v = y.v
        BY <1>7
    <2>3. x.op \in Ops
        BY <1>1, HeldType, SentType DEF H, S
    <2>4. /\ x.v <= Len(lg) /\ x.op.edits \subseteq md
          /\ x.op.seq # 0 => x.op.src < p.id \/ (x.op.src = p.id /\ (p.open => x.op.seq < p.seq))
        BY <1>1 DEF Bounded
    <2>. QED  BY <1>4, <1>5, <1>8, <2>2, <2>3, <2>4
<1>10. LogInv(lg, md, q)
    <2>1. \A j \in DOMAIN lg : lg[j] \in Ops
        BY <1>1
    <2>. QED  BY <1>1, <1>8, <2>1 DEF LogInv
<1>11. ViewsInv(lg, st2, q)
    <2>1. Top(q) \in Nat
        BY ViewsType
    <2>2. \A i \in 0 .. Top(q) : Sound(lg, View(st2, q, i))
        BY <1>1, <1>2 DEF ViewsInv
    <2>3. ASSUME NEW i \in 0 .. Top(q), NEW j \in 0 .. Top(q), i <= j
          PROVE  EditsIn(View(st2, q, i).ops) \subseteq EditsIn(lg) \cup EditsIn(View(st2, q, j).ops)
        <3>1. /\ g[i] \in 0 .. Top(p) /\ g[j] \in 0 .. Top(p) /\ g[i] <= g[j]
              /\ View(st2, q, i) = View(st, p, g[i]) /\ View(st2, q, j) = View(st, p, g[j])
            BY <1>2, <2>1, <2>3
        <3>. QED  BY <1>1, <3>1 DEF ViewsInv
    <2>. QED  BY <2>2, <2>3 DEF ViewsInv
<1>. QED  BY <1>1, <1>6, <1>9, <1>10, <1>11 DEF Base, H2, S2

-----------------------------------------------------------------------------
(* Updates of the offline data                                               *)

SameDoc(p, q) ==
    /\ q.id = p.id /\ q.open = p.open /\ q.loaded = p.loaded /\ q.online = p.online
    /\ q.subscribed = p.subscribed /\ q.asked = p.asked /\ q.streaming = p.streaming
    /\ q.v = p.v /\ q.text = p.text /\ q.ops = p.ops /\ q.inflight = p.inflight
    /\ q.seq = p.seq /\ q.owed = p.owed

LEMMA UpdateFields ==
    ASSUME NEW p \in Pages, NEW force \in BOOLEAN
    PROVE  LET q == UpdateOfflineData(p, force)
           IN  /\ q \in Pages /\ SameDoc(p, q) /\ q.sends = p.sends
               /\ q.puts = p.puts \/ q.puts = Append(p.puts, Record(p))
               /\ p.subscribed /\ p.v # Unloaded /\ p.ops # <<>> => q.puts = Append(p.puts, Record(p))
<1> DEFINE q == UpdateOfflineData(p, force)
           r == [p EXCEPT !.puts = Append(@, Record(p)), !.offlineV = p.v]
<1>1. Append(p.puts, Record(p)) \in Seq(Records)
    <2>1. p.puts \in Seq(Records)
        BY DEF Pages
    <2>. QED  BY <2>1, ViewsType, AppendProperties DEF Pages, Record, Records
<1>2. r \in Pages
    BY <1>1 DEF Pages
<1>3. SameDoc(p, r) /\ r.sends = p.sends /\ r.puts = Append(p.puts, Record(p))
    BY DEF SameDoc, Pages
<1>4. SameDoc(p, p)
    BY DEF SameDoc
<1> HIDE DEF r
<1>5. CASE q = p
    <2>1. p.subscribed /\ p.v # Unloaded /\ p.ops # <<>> => q = r
        BY DEF UpdateOfflineData, r
    <2>. QED  BY <1>2, <1>3, <1>4, <1>5, <2>1 DEF q
<1>6. CASE q = r
    BY <1>2, <1>3, <1>6 DEF q
<1>7. q = p \/ q = r
    BY DEF UpdateOfflineData, r
<1>. QED  BY <1>5, <1>6, <1>7

\* Nothing is known that was not, if the page is the same but for writes of what it has.
LEMMA BaseUpdated ==
    ASSUME NEW lg, NEW nt, NEW st, NEW p, NEW md, NEW nt2 \in SUBSET nt, NEW q \in Pages,
           Base(lg, nt, st, p, md),
           q.loaded = p.loaded, q.v = p.v, q.text = p.text, q.ops = p.ops, q.sends = p.sends,
           q.puts = p.puts \/ (p.loaded /\ q.puts = Append(p.puts, Record(p))),
           Fresher(p, q), PageInv(q)
    PROVE  Base(lg, nt2, st, q, md)
<1>1. /\ nt \in SUBSET Messages /\ nt2 \in SUBSET Messages /\ st \in Records /\ p \in Pages
      /\ Bounded(lg, Held(st, p), Sent(nt, p), md, p)
    BY DEF Base
<1>2. /\ Len(p.puts) \in Nat /\ Top(p) \in Nat /\ DOMAIN p.puts = 1 .. Len(p.puts)
      /\ Record(p) \in Records /\ p.puts \in Seq(Records)
    BY <1>1, ViewsType DEF Pages
<1>3. Record(q) = Record(p)
    BY DEF Record
<1> DEFINE g == [i \in Nat |-> IF i <= Top(p) THEN i ELSE Top(p)]
<1>4. Mapped(st, p, st, q, g)
    <2>1. CASE q.puts = p.puts
        <3>1. Top(q) = Top(p)
            BY <2>1 DEF Top
        <3>2. \A i \in 0 .. Top(q) : View(st, q, i) = View(st, p, i)
            BY <1>3, <2>1 DEF View
        <3>. QED  BY <1>2, <3>1, <3>2 DEF Mapped
    <2>2. CASE p.loaded /\ q.puts = Append(p.puts, Record(p))
        <3>1. /\ Len(q.puts) = Len(p.puts) + 1 /\ DOMAIN q.puts = 1 .. (Len(p.puts) + 1)
              /\ \A i \in 1 .. Len(p.puts) : q.puts[i] = p.puts[i]
              /\ q.puts[Len(p.puts) + 1] = Record(p)
            BY <1>2, <2>2, AppendProperties
        <3>2. Top(q) = Top(p) + 1 /\ Top(p) = Len(p.puts) + 1
            BY <1>2, <2>2, <3>1 DEF Top
        <3>3. \A i \in 0 .. Top(p) : View(st, q, i) = View(st, p, i)
            BY <1>2, <3>1, <3>2 DEF View
        <3>4. View(st, q, Top(p) + 1) = View(st, p, Top(p))
            BY <1>2, <1>3, <3>1, <3>2 DEF View
        <3>5. \A i \in 0 .. Top(q) : g[i] \in 0 .. Top(p) /\ View(st, q, i) = View(st, p, g[i])
            BY <1>2, <3>2, <3>3, <3>4
        <3>6. g \in [Nat -> Nat] /\ \A i, j \in Nat : i <= j => g[i] <= g[j]
            BY <1>2, <3>2
        <3>. QED  BY <3>5, <3>6 DEF Mapped
    <2>. QED  BY <2>1, <2>2
<1>5. Top(p) <= Top(q) /\ Top(q) \in Nat
    BY <1>2, AppendProperties, ViewsType DEF Top
<1>6. ASSUME NEW y \in Sent(nt2, q)
      PROVE  /\ y.at <= Top(q)
             /\ \E x \in WithNumber(Held(st, p)) \cup Sent(nt, p) :
                    x.op = y.op /\ x.v = y.v /\ x.at <= g[y.at]
    <2>1. y \in Sent(nt, p)
        BY DEF Sent
    <2>2. y.at \in Nat /\ y.at <= Top(p)
        BY <1>1, <2>1, SentType DEF Bounded
    <2>3. g[y.at] = y.at
        BY <2>2
    <2>. QED  BY <1>2, <1>5, <2>1, <2>2, <2>3
<1> HIDE DEF g
<1>. QED  BY <1>1, <1>4, <1>6, BaseMapped, Zenon

LEMMA UpdateBase ==
    ASSUME NEW lg, NEW nt, NEW st, NEW p, NEW md, NEW force \in BOOLEAN,
           Base(lg, nt, st, p, md), p.loaded
    PROVE  Base(lg, nt, st, UpdateOfflineData(p, force), md)
<1> DEFINE q == UpdateOfflineData(p, force)
<1>1. p \in Pages /\ PageInv(p) /\ nt \in SUBSET nt
    BY DEF Base
<1>2. /\ q \in Pages /\ SameDoc(p, q) /\ q.sends = p.sends
      /\ q.puts = p.puts \/ q.puts = Append(p.puts, Record(p))
    BY <1>1, UpdateFields
<1> HIDE DEF q
<1>3. Len(p.puts) <= Len(q.puts)
    BY <1>1, <1>2, AppendProperties DEF Pages
<1>4. p.open
    BY <1>1 DEF PageInv, NewPage
<1>5. PageInv(q)
    <2>1. \A i \in DOMAIN q.sends : q.sends[i].after <= Len(q.puts)
        <3>1. \A i \in DOMAIN p.sends : p.sends[i].after <= Len(p.puts) /\ p.sends[i].after \in Nat
            BY <1>1, SendsType DEF PageInv
        <3>2. Len(p.puts) \in Nat /\ Len(q.puts) \in Nat
            BY <1>1, <1>2, ViewsType
        <3>. QED  BY <1>2, <1>3, <3>1, <3>2
    <2>. QED  BY <1>1, <1>2, <1>4, <2>1 DEF PageInv, SameDoc
<1>6. Fresher(p, q)
    BY <1>1, <1>2 DEF Fresher, SameDoc, Pages
<1>7. /\ q.loaded = p.loaded /\ q.v = p.v /\ q.text = p.text /\ q.ops = p.ops
    BY <1>2 DEF SameDoc
<1>8. q.puts = p.puts \/ (p.loaded /\ q.puts = Append(p.puts, Record(p)))
    BY <1>2
<1>. QED  BY <1>1, <1>2, <1>5, <1>6, <1>7, <1>8, BaseUpdated, Zenon DEF q

-----------------------------------------------------------------------------
(* Changes of what the page has                                              *)

LEMMA TopView ==
    ASSUME NEW st, NEW p \in Pages, NEW q \in Pages, p.loaded, q.loaded, q.puts = p.puts
    PROVE  /\ Top(q) = Top(p) /\ Top(p) \in Nat /\ Top(p) >= 1
           /\ \A i \in 0 .. Top(p) - 1 : View(st, q, i) = View(st, p, i)
           /\ View(st, p, Top(p)) = Record(p) /\ View(st, q, Top(p)) = Record(q)
<1>1. DOMAIN p.puts = 1 .. Len(p.puts) /\ Len(p.puts) \in Nat
    BY ViewsType
<1>. QED  BY <1>1 DEF Top, View

LEMMA HeldTop ==
    ASSUME NEW st, NEW p \in Pages, NEW q \in Pages, p.loaded, q.loaded, q.puts = p.puts,
           NEW x \in Held(st, q)
    PROVE  \/ x \in Held(st, p) /\ x.at < Top(p)
           \/ \E k \in DOMAIN q.ops : x = Sight(q.ops[k], q.v, Top(p))
<1>1. PICK i \in 0 .. Top(q) : \E k \in DOMAIN View(st, q, i).ops :
          x = Sight(View(st, q, i).ops[k], View(st, q, i).v, i)
    BY HeldFrom
<1>2. PICK k \in DOMAIN View(st, q, i).ops :
          x = Sight(View(st, q, i).ops[k], View(st, q, i).v, i)
    BY <1>1
<1>3. /\ Top(q) = Top(p) /\ Top(p) \in Nat
      /\ \A j \in 0 .. Top(p) - 1 : View(st, q, j) = View(st, p, j)
      /\ View(st, q, Top(p)) = Record(q)
    BY TopView
<1>4. CASE i = Top(p)
    <2>1. Record(q).ops = q.ops /\ Record(q).v = q.v
        BY DEF Record
    <2>. QED  BY <1>2, <1>3, <1>4, <2>1
<1>5. CASE i < Top(p)
    <2>1. View(st, q, i) = View(st, p, i) /\ i \in 0 .. Top(p)
        BY <1>3, <1>5
    <2>2. x \in Held(st, p)
        BY <1>2, <2>1, HeldIn
    <2>. QED  BY <1>2, <1>5, <2>2, SightFields
<1>. QED  BY <1>3, <1>4, <1>5

LEMMA HeldOwn ==
    ASSUME NEW st, NEW p \in Pages, p.loaded, NEW k \in DOMAIN p.ops
    PROVE  Sight(p.ops[k], p.v, Top(p)) \in Held(st, p)
<1>1. Top(p) \in 0 .. Top(p) /\ View(st, p, Top(p)) = Record(p)
    BY TopView
<1>2. Record(p).ops = p.ops /\ Record(p).v = p.v
    BY DEF Record
<1>. QED  BY <1>1, <1>2, HeldIn

LEMMA ViewsTop ==
    ASSUME NEW lg, NEW st, NEW p \in Pages, NEW q \in Pages, p.loaded, q.loaded, q.puts = p.puts,
           ViewsInv(lg, st, p), Sound(lg, Record(q)),
           EditsIn(p.ops) \subseteq EditsIn(lg) \cup EditsIn(q.ops)
    PROVE  ViewsInv(lg, st, q)
<1>1. /\ Top(q) = Top(p) /\ Top(p) \in Nat /\ Top(p) >= 1
      /\ \A i \in 0 .. Top(p) - 1 : View(st, q, i) = View(st, p, i)
      /\ View(st, p, Top(p)) = Record(p) /\ View(st, q, Top(p)) = Record(q)
    BY TopView
<1>2. Record(p).ops = p.ops /\ Record(q).ops = q.ops
    BY DEF Record
<1>3. \A i \in 0 .. Top(q) : Sound(lg, View(st, q, i))
    BY <1>1 DEF ViewsInv
<1>4. ASSUME NEW i \in 0 .. Top(q), NEW j \in 0 .. Top(q), i <= j
      PROVE  EditsIn(View(st, q, i).ops) \subseteq EditsIn(lg) \cup EditsIn(View(st, q, j).ops)
    <2>1. EditsIn(View(st, p, i).ops) \subseteq EditsIn(lg) \cup EditsIn(View(st, p, j).ops)
        BY <1>1, <1>4 DEF ViewsInv
    <2>2. CASE j < Top(p)
        BY <1>1, <1>4, <2>1, <2>2
    <2>3. CASE i < Top(p) /\ j = Top(p)
        BY <1>1, <1>2, <2>1, <2>3
    <2>4. CASE i = j
        BY <2>4
    <2>. QED  BY <1>1, <1>4, <2>2, <2>3, <2>4
<1>. QED  BY <1>3, <1>4 DEF ViewsInv

\* An operation of the page gets its number.
LEMMA CoreNumber ==
    ASSUME NEW lg, NEW H, NEW S, NEW H2, NEW new, NEW old \in H,
           Core(lg, H, S),
           \A x \in H2 : x \in H \/ x = new,
           \A x \in H \cup S : x.at \in Nat /\ x.at <= new.at,
           old.op.seq = 0, new.op.seq # 0, new.op.edits = old.op.edits,
           new.v = old.v, new.at = old.at,
           \A x \in H \cup S : ~SameNumber(x.op, new.op),
           \A j \in DOMAIN lg : ~SameNumber(new.op, lg[j]),
           \A u \in Raw(H2) : u.at = new.at => Apart(u.op, old.op)
    PROVE  Core(lg, H2, S)
<1> DEFINE num == WithNumber(H) \cup S
           num2 == WithNumber(H2) \cup S
<1>1. /\ \A x \in S : x.op.seq # 0
      /\ \A x, y \in num : Alike(x.op, y.op) => x.op = y.op
      /\ \A u \in Raw(H), y \in num : y.at <= u.at => Apart(u.op, y.op)
      /\ \A x \in num, j \in DOMAIN lg : Alike(x.op, lg[j]) => x.op = lg[j] /\ j > x.v
      /\ \A u \in Raw(H), j \in DOMAIN lg : Apart(u.op, lg[j])
    BY Zenon DEF Core
<1>2. old \in Raw(H)
    BY DEF Raw
<1>3. \A x \in num2 : x \in num \/ x = new
    BY DEF WithNumber
<1>4. \A u \in Raw(H2) : u \in Raw(H) /\ u.at \in Nat /\ u.at <= new.at
    BY DEF Raw
<1>5. \A x \in num : x \in H \cup S
    BY DEF WithNumber
<1>6. \A x \in num : x.at <= new.at /\ x.at \in Nat /\ ~SameNumber(x.op, new.op)
    BY <1>5
<1> HIDE DEF num, num2
<1>7. \A x \in num : Apart(x.op, new.op) /\ Apart(new.op, x.op)
    <2>1. ASSUME NEW x \in num
          PROVE  Apart(old.op, x.op)
        BY <1>1, <1>2, <1>6
    <2>. QED  BY <2>1 DEF Apart
<1>8. \A x \in num : ~Alike(x.op, new.op) /\ ~Alike(new.op, x.op)
    BY <1>6, <1>7 DEF Alike, SameNumber
<1>9. \A x, y \in num2 : Alike(x.op, y.op) => x.op = y.op
    BY <1>1, <1>3, <1>8
<1>10. ASSUME NEW u \in Raw(H2), NEW y \in num2, y.at <= u.at
       PROVE  Apart(u.op, y.op)
    <2>1. CASE y \in num
        BY <1>1, <1>4, <1>10, <2>1
    <2>2. CASE y = new
        <3>1. old.at \in Nat
            OBVIOUS
        <3>2. u.at = new.at
            BY <1>4, <1>10, <2>2, <3>1
        <3>. QED  BY <2>2, <3>2 DEF Apart
    <2>. QED  BY <1>3, <2>1, <2>2
<1>11. \A j \in DOMAIN lg : ~Alike(new.op, lg[j])
    <2>1. \A j \in DOMAIN lg : Apart(old.op, lg[j])
        BY <1>1, <1>2
    <2>. QED  BY <2>1 DEF Alike, Apart
<1>12. \A x \in num2, j \in DOMAIN lg : Alike(x.op, lg[j]) => x.op = lg[j] /\ j > x.v
    BY <1>1, <1>3, <1>11
<1>13. \A u \in Raw(H2), j \in DOMAIN lg : Apart(u.op, lg[j])
    BY <1>1, <1>4
<1>. QED  BY <1>1, <1>9, <1>10, <1>12, <1>13, Zenon DEF Core, num2

LEMMA NumberFields ==
    ASSUME NEW p \in Pages, p.ops # <<>>, Head(p.ops).seq = 0
    PROVE  LET q == Numbered(p)
               h == [p.ops[1] EXCEPT !.src = p.id, !.seq = p.seq]
           IN  /\ q \in Pages /\ h \in Ops
               /\ h.edits = p.ops[1].edits /\ h.src = p.id /\ h.seq = p.seq
               /\ Len(q.ops) = Len(p.ops) /\ DOMAIN q.ops = DOMAIN p.ops /\ DOMAIN p.ops = 1 .. Len(p.ops)
               /\ q.ops[1] = h /\ \A k \in DOMAIN p.ops : k # 1 => q.ops[k] = p.ops[k]
               /\ q.id = p.id /\ q.open = p.open /\ q.loaded = p.loaded /\ q.online = p.online
               /\ q.subscribed = p.subscribed /\ q.asked = p.asked /\ q.streaming = p.streaming
               /\ q.v = p.v /\ q.text = p.text /\ q.inflight = TRUE
               /\ q.seq = p.seq + 1 /\ q.owed = p.owed
               /\ q.puts = p.puts /\ q.sends = p.sends /\ q.offlineV = p.offlineV
<1> DEFINE h == [p.ops[1] EXCEPT !.src = p.id, !.seq = p.seq]
           ops == <<h>> \o Tail(p.ops)
           r == [p EXCEPT !.ops = ops, !.seq = p.seq + 1, !.inflight = TRUE]
<1>1. /\ p.ops \in Seq(Ops) /\ p.id \in 0 .. MaxPages /\ p.seq \in Nat /\ Head(p.ops) = p.ops[1]
      /\ p.ops[1] \in Ops /\ Len(p.ops) \in Nat /\ Len(p.ops) >= 1 /\ DOMAIN p.ops = 1 .. Len(p.ops)
    BY DEF Pages
<1>2. h \in Ops /\ h.edits = p.ops[1].edits /\ h.src = p.id /\ h.seq = p.seq
    BY <1>1 DEF Ops
<1> HIDE DEF h
<1>3. /\ Tail(p.ops) \in Seq(Ops) /\ Len(Tail(p.ops)) = Len(p.ops) - 1
      /\ \A k \in 1 .. Len(p.ops) - 1 : Tail(p.ops)[k] = p.ops[k + 1]
    BY <1>1
<1>4. <<h>> \in Seq(Ops) /\ Len(<<h>>) = 1 /\ <<h>>[1] = h
    BY <1>2
<1>5. /\ ops \in Seq(Ops) /\ Len(ops) = Len(p.ops) /\ DOMAIN ops = 1 .. Len(p.ops)
      /\ \A k \in 1 .. Len(p.ops) : ops[k] = IF k <= 1 THEN <<h>>[k] ELSE Tail(p.ops)[k - 1]
    <2> DEFINE t == Tail(p.ops)
               s == <<h>>
    <2>1. t \in Seq(Ops) /\ s \in Seq(Ops) /\ Len(s) = 1 /\ Len(t) = Len(p.ops) - 1
        BY <1>3, <1>4
    <2> HIDE DEF t, s
    <2>2. /\ s \o t \in Seq(Ops) /\ Len(s \o t) = Len(s) + Len(t)
          /\ \A k \in 1 .. Len(s) + Len(t) : (s \o t)[k] = IF k <= Len(s) THEN s[k] ELSE t[k - Len(s)]
        BY <2>1, ConcatProperties
    <2>3. /\ s \o t \in Seq(Ops) /\ Len(s \o t) = Len(p.ops) /\ DOMAIN (s \o t) = 1 .. Len(p.ops)
          /\ \A k \in 1 .. Len(p.ops) : (s \o t)[k] = IF k <= 1 THEN s[k] ELSE t[k - 1]
        BY <1>1, <2>1, <2>2
    <2>. QED  BY <2>3 DEF t, s
<1>6. ops[1] = h /\ \A k \in DOMAIN p.ops : k # 1 => ops[k] = p.ops[k]
    <2> DEFINE t == Tail(p.ops)
               s == <<h>>
    <2>1. /\ \A k \in 1 .. Len(p.ops) : ops[k] = IF k <= 1 THEN s[k] ELSE t[k - 1]
          /\ \A k \in 1 .. Len(p.ops) - 1 : t[k] = p.ops[k + 1]
          /\ s[1] = h
        BY <1>3, <1>4, <1>5
    <2> HIDE DEF ops, t, s
    <2>2. ops[1] = h
        BY <1>1, <2>1
    <2>3. ASSUME NEW k \in DOMAIN p.ops, k # 1
          PROVE  ops[k] = p.ops[k]
        <3>1. k \in 1 .. Len(p.ops) /\ k > 1 /\ k - 1 \in 1 .. Len(p.ops) - 1
            BY <1>1, <2>3
        <3>2. t[k - 1] = p.ops[(k - 1) + 1] /\ (k - 1) + 1 = k
            BY <2>1, <3>1
        <3>. QED  BY <2>1, <3>1, <3>2
    <2>. QED  BY <2>2, <2>3
<1>7. r.ops = ops
    BY DEF Pages
<1> HIDE DEF ops
<1>8. r \in Pages
    <2>1. ops \in Seq(Ops) /\ p.seq + 1 \in Nat /\ TRUE \in BOOLEAN
        BY <1>1, <1>5
    <2>. QED  BY <2>1 DEF Pages
<1>9. /\ r.id = p.id /\ r.open = p.open /\ r.loaded = p.loaded /\ r.online = p.online
      /\ r.subscribed = p.subscribed /\ r.asked = p.asked /\ r.streaming = p.streaming
      /\ r.v = p.v /\ r.text = p.text /\ r.inflight = TRUE
      /\ r.seq = p.seq + 1 /\ r.owed = p.owed
      /\ r.puts = p.puts /\ r.sends = p.sends /\ r.offlineV = p.offlineV
    BY DEF Pages
<1>10. Numbered(p) = r
    <2>1. [Head(p.ops) EXCEPT !.src = p.id, !.seq = p.seq] = h
        BY <1>1 DEF h
    <2>2. Numbered(p) = [p EXCEPT !.ops = <<[Head(@) EXCEPT !.src = p.id, !.seq = p.seq]>> \o Tail(@),
                                  !.seq = @ + 1, !.inflight = TRUE]
        BY Zenon DEF Numbered
    <2>3. Numbered(p) = [p EXCEPT !.ops = <<[Head(p.ops) EXCEPT !.src = p.id, !.seq = p.seq]>> \o Tail(p.ops),
                                  !.seq = p.seq + 1, !.inflight = TRUE]
        BY <2>2
    <2>. QED  BY <2>1, <2>3 DEF ops
<1> HIDE DEF r
<1>. QED  BY <1>1, <1>2, <1>5, <1>6, <1>7, <1>8, <1>9, <1>10 DEF h

LEMMA HeadOf ==
    ASSUME NEW lg, NEW nt, NEW st, NEW p, NEW md,
           Base(lg, nt, st, p, md), p.loaded, p.ops # <<>>
    PROVE  /\ p \in Pages /\ p.v \in Nat /\ p.v <= Len(lg) /\ Len(lg) \in Nat
           /\ Sound(lg, Record(p)) /\ p.open /\ p.subscribed
           /\ 1 \in DOMAIN p.ops /\ Head(p.ops) = p.ops[1] /\ p.ops[1] \in Ops
           /\ DOMAIN p.ops = 1 .. Len(p.ops)
           /\ Sight(p.ops[1], p.v, Top(p)) \in Held(st, p)
<1>1. p \in Pages /\ p.loaded /\ lg \in Seq(Ops) /\ ViewsInv(lg, st, p) /\ PageInv(p)
    BY DEF Base
<1>2. Top(p) \in 0 .. Top(p) /\ View(st, p, Top(p)) = Record(p)
    BY <1>1, TopView
<1>3. Sound(lg, Record(p))
    BY <1>1, <1>2 DEF ViewsInv
<1>4. Record(p).v = p.v /\ Record(p).ops = p.ops
    BY DEF Record
<1>5. p.v \in Nat /\ p.v <= Len(lg)
    BY <1>1, <1>3, <1>4 DEF Sound, Pages
<1>6. /\ p.ops \in Seq(Ops) /\ 1 \in DOMAIN p.ops /\ Head(p.ops) = p.ops[1] /\ p.ops[1] \in Ops
      /\ DOMAIN p.ops = 1 .. Len(p.ops)
    BY <1>1 DEF Pages
<1>7. p.open /\ p.subscribed
    BY <1>1 DEF PageInv, NewPage
<1>8. Sight(p.ops[1], p.v, Top(p)) \in Held(st, p)
    BY <1>1, <1>6, HeldOwn
<1>. QED  BY <1>1, <1>3, <1>5, <1>6, <1>7, <1>8

\* The edits of two queues of the same length are the same if their operations' are.
LEMMA SameEdits ==
    ASSUME NEW s, NEW t, DOMAIN s = DOMAIN t, \A k \in DOMAIN s : s[k].edits = t[k].edits
    PROVE  EditsIn(s) = EditsIn(t)
BY DEF EditsIn

LEMMA NumberNew ==
    ASSUME NEW lg, NEW nt, NEW st, NEW p, NEW md,
           Base(lg, nt, st, p, md), p.loaded, p.ops # <<>>, Head(p.ops).seq = 0
    PROVE  Base(lg, nt, st, Numbered(p), md)
<1> DEFINE q == Numbered(p)
           h == [p.ops[1] EXCEPT !.src = p.id, !.seq = p.seq]
           old == Sight(p.ops[1], p.v, Top(p))
           new == Sight(h, p.v, Top(p))
           H == Held(st, p)
           H2 == Held(st, q)
           S == Sent(nt, p)
<1>1. /\ lg \in Seq(Ops) /\ nt \in SUBSET Messages /\ st \in Records /\ p \in Pages /\ md \subseteq Edits
      /\ Core(lg, H, S) /\ Bounded(lg, H, S, md, p) /\ LogInv(lg, md, p) /\ ViewsInv(lg, st, p)
      /\ PageInv(p)
    BY DEF Base
<1>2. /\ p.v \in Nat /\ Sound(lg, Record(p)) /\ p.open
      /\ 1 \in DOMAIN p.ops /\ Head(p.ops) = p.ops[1] /\ p.ops[1] \in Ops
      /\ old \in H
    BY HeadOf
<1>3. /\ q \in Pages /\ h \in Ops
      /\ h.edits = p.ops[1].edits /\ h.src = p.id /\ h.seq = p.seq
      /\ DOMAIN q.ops = DOMAIN p.ops /\ DOMAIN p.ops = 1 .. Len(p.ops) /\ Len(q.ops) = Len(p.ops)
      /\ q.ops[1] = h /\ \A k \in DOMAIN p.ops : k # 1 => q.ops[k] = p.ops[k]
      /\ q.id = p.id /\ q.open = p.open /\ q.loaded = p.loaded /\ q.online = p.online
      /\ q.subscribed = p.subscribed /\ q.asked = p.asked /\ q.streaming = p.streaming
      /\ q.v = p.v /\ q.text = p.text /\ q.inflight = TRUE
      /\ q.seq = p.seq + 1 /\ q.owed = p.owed
      /\ q.puts = p.puts /\ q.sends = p.sends /\ q.offlineV = p.offlineV
    BY <1>1, NumberFields
<1>4. old.op = p.ops[1] /\ old.v = p.v /\ old.at = Top(p)
    BY SightFields
<1>5. new.op = h /\ new.v = p.v /\ new.at = Top(p)
    BY SightFields
<1>6. Sent(nt, q) = S
    BY <1>3 DEF Sent
<1>7. Top(p) \in Nat /\ Top(q) = Top(p)
    BY <1>1, <1>3, TopView
<1>8. Record(p).ops = p.ops /\ Record(p).v = p.v /\ Record(p).text = p.text
      /\ Record(q).ops = q.ops /\ Record(q).v = q.v /\ Record(q).text = q.text
    BY DEF Record
<1>9. \A k, l \in DOMAIN p.ops : k # l => Apart(p.ops[k], p.ops[l])
    BY <1>2, <1>8 DEF Sound
<1>10. \A k \in DOMAIN p.ops : k # 1 => p.ops[k].seq = 0
    BY <1>2, <1>8 DEF Sound
<1>11. ASSUME NEW x \in H2
       PROVE  \/ x \in H /\ x.at < Top(p)
              \/ \E k \in DOMAIN q.ops : x = Sight(q.ops[k], q.v, Top(p))
    <2>1. q \in Pages /\ q.loaded /\ q.puts = p.puts
        BY <1>3
    <2> HIDE DEF q
    <2>. QED  BY <1>1, <2>1, HeldTop
<1>12. \A x \in H \cup S : /\ x.at \in Nat /\ x.at <= Top(p) /\ x.op \in Ops
                           /\ x.v <= Len(lg) /\ x.op.edits \subseteq md
                           /\ x.op.seq # 0 => x.op.src < p.id \/ (x.op.src = p.id /\ x.op.seq < p.seq)
    BY <1>1, <1>2, HeldType, SentType DEF Bounded
<1>13. p.id \in Nat /\ p.seq \in Nat /\ p.seq >= 1
    BY <1>1 DEF Pages, PageInv
<1>14. \A k \in DOMAIN p.ops : Sight(p.ops[k], p.v, Top(p)) \in H
    BY <1>1, HeldOwn
<1> HIDE DEF q, h, old, new, H, H2, S
<1>15. \A x \in H2 : x \in H \/ x = new
    <2>1. SUFFICES ASSUME NEW x \in H2, NEW k \in DOMAIN q.ops, x = Sight(q.ops[k], q.v, Top(p))
                   PROVE  x \in H \/ x = new
        BY <1>11
    <2>2. CASE k = 1
        BY <1>3, <2>1, <2>2 DEF new
    <2>3. CASE k # 1
        BY <1>3, <1>14, <2>1, <2>3
    <2>. QED  BY <2>2, <2>3
<1>16. \A x \in H \cup S : ~SameNumber(x.op, new.op)
    <2>1. SUFFICES ASSUME NEW x \in H \cup S, SameNumber(x.op, new.op)
                   PROVE  FALSE
        OBVIOUS
    <2>2. x.op.seq # 0 /\ x.op.seq = p.seq /\ x.op.src = p.id
        BY <1>3, <1>5, <2>1 DEF SameNumber
    <2>. QED  BY <1>12, <1>13, <2>2 DEF Ops
<1>17. \A j \in DOMAIN lg : ~SameNumber(new.op, lg[j])
    <2>1. SUFFICES ASSUME NEW j \in DOMAIN lg, SameNumber(new.op, lg[j])
                   PROVE  FALSE
        OBVIOUS
    <2>2. lg[j].seq # 0 /\ lg[j].seq = p.seq /\ lg[j].src = p.id
        BY <1>3, <1>5, <2>1 DEF SameNumber
    <2>3. lg[j].src < p.id \/ (lg[j].src = p.id /\ lg[j].seq < p.seq)
        BY <1>1, <1>2, <2>2 DEF LogInv
    <2>. QED  BY <1>13, <2>2, <2>3
<1>18. ASSUME NEW u \in Raw(H2), u.at = new.at
       PROVE  Apart(u.op, old.op)
    <2>1. u \in H2 /\ u.op.seq = 0
        BY DEF Raw
    <2>2. u.at = Top(p)
        BY <1>5, <1>18
    <2>3. PICK k \in DOMAIN q.ops : u = Sight(q.ops[k], q.v, Top(p))
        BY <1>7, <1>11, <2>1, <2>2
    <2>4. u.op = q.ops[k]
        BY <2>3, SightFields
    <2>5. k # 1
        BY <1>3, <1>13, <2>1, <2>4
    <2>. QED  BY <1>2, <1>3, <1>4, <1>9, <2>4, <2>5
<1>19. Core(lg, H2, S)
    <2>1. \A x \in H \cup S : x.at \in Nat /\ x.at <= new.at
        BY <1>5, <1>12
    <2>2. /\ old.op.seq = 0 /\ new.op.seq # 0 /\ new.op.edits = old.op.edits
          /\ new.v = old.v /\ new.at = old.at
        BY <1>2, <1>3, <1>4, <1>5, <1>13
    <2>. QED  BY <1>1, <1>2, <1>15, <1>16, <1>17, <1>18, <2>1, <2>2, CoreNumber, Zenon
<1>20. Bounded(lg, H2, S, md, q)
    <2>1. SUFFICES ASSUME NEW x \in H2 \cup S
                   PROVE  /\ x.at <= Top(q) /\ x.v <= Len(lg) /\ x.op.edits \subseteq md
                          /\ x.op.seq # 0 => x.op.src < q.id \/
                                              (x.op.src = q.id /\ (q.open => x.op.seq < q.seq))
        BY DEF Bounded
    <2>2. CASE x \in H \cup S
        <3>1. x.op \in Ops
            BY <1>12, <2>2
        <3>. QED  BY <1>3, <1>7, <1>12, <1>13, <2>2, <3>1 DEF Ops
    <2>3. CASE x = new
        <3>1. old \in H \cup S
            BY <1>2
        <3>2. old.v <= Len(lg) /\ old.op.edits \subseteq md
            BY <1>12, <3>1
        <3>. QED  BY <1>3, <1>4, <1>5, <1>7, <1>13, <2>3, <3>2
    <2>. QED  BY <1>15, <2>2, <2>3
<1>21. LogInv(lg, md, q)
    <2>1. \A j \in DOMAIN lg : lg[j].seq \in Nat /\ lg[j].src \in Int
        <3>1. \A j \in DOMAIN lg : lg[j] \in Ops
            BY <1>1
        <3>. QED  BY <3>1 DEF Ops
    <2>. QED  BY <1>1, <1>2, <1>3, <1>13, <2>1 DEF LogInv
<1>22. EditsIn(q.ops) = EditsIn(p.ops)
    <2>1. \A k \in DOMAIN q.ops : q.ops[k].edits = p.ops[k].edits
        BY <1>3
    <2>. QED  BY <1>3, <2>1, SameEdits
<1>23. Sound(lg, Record(q))
    <2>1. \A k, l \in DOMAIN q.ops : k # l => Apart(q.ops[k], q.ops[l])
        <3>1. \A k \in DOMAIN q.ops : q.ops[k].edits = p.ops[k].edits
            BY <1>3
        <3>. QED  BY <1>3, <1>9, <3>1 DEF Apart
    <2>2. \A k \in DOMAIN q.ops : k # 1 => q.ops[k].seq = 0
        BY <1>3, <1>10
    <2>3. q.v # Unloaded /\ q.v <= Len(lg) /\ q.text = EditsIn(SubSeq(lg, 1, q.v)) \cup EditsIn(q.ops)
        BY <1>2, <1>3, <1>8, <1>22 DEF Sound, Unloaded
    <2>. QED  BY <1>8, <2>1, <2>2, <2>3 DEF Sound
<1>24. ViewsInv(lg, st, q)
    <2>1. EditsIn(p.ops) \subseteq EditsIn(lg) \cup EditsIn(q.ops)
        BY <1>22
    <2>. QED  BY <1>1, <1>3, <1>23, <2>1, ViewsTop
<1>25. PageInv(q)
    <2>1. q.ops # <<>> /\ Head(q.ops).seq # 0
        <3>1. q.ops \in Seq(Ops)
            BY <1>3 DEF Pages
        <3>2. q.ops # <<>> /\ Head(q.ops) = q.ops[1]
            BY <1>2, <1>3, <3>1
        <3>. QED  BY <1>3, <1>13, <3>2
    <2>. QED  BY <1>1, <1>2, <1>3, <1>13, <2>1 DEF PageInv
<1>. QED  BY <1>1, <1>3, <1>6, <1>19, <1>20, <1>21, <1>24, <1>25 DEF Base, q, H2

\* ShareDB numbers the operation it sends, or sends one numbered before.
LEMMA NumberBase ==
    ASSUME NEW lg, NEW nt, NEW st, NEW p, NEW md,
           Base(lg, nt, st, p, md), p.loaded, p.ops # <<>>
    PROVE  LET q == Numbered(p)
           IN  /\ Base(lg, nt, st, q, md)
               /\ q.loaded /\ q.ops # <<>> /\ q.inflight /\ q.v = p.v /\ q.online = p.online
               /\ q.puts = p.puts /\ q.sends = p.sends /\ Head(q.ops).seq # 0
               /\ EditsIn(q.ops) = EditsIn(p.ops)
<1> DEFINE q == Numbered(p)
<1>1. p \in Pages /\ PageInv(p) /\ nt \in SUBSET nt
    BY DEF Base
<1>2. CASE Head(p.ops).seq = 0
    <2>1. Base(lg, nt, st, q, md)
        BY <1>2, NumberNew
    <2> DEFINE h == [p.ops[1] EXCEPT !.src = p.id, !.seq = p.seq]
    <2>0. /\ q \in Pages /\ q.loaded = p.loaded /\ Len(q.ops) = Len(p.ops)
          /\ DOMAIN q.ops = DOMAIN p.ops
          /\ q.v = p.v /\ q.inflight = TRUE /\ q.online = p.online
          /\ q.puts = p.puts /\ q.sends = p.sends
          /\ h.edits = p.ops[1].edits /\ q.ops[1] = h
          /\ \A k \in DOMAIN p.ops : k # 1 => q.ops[k] = p.ops[k]
        BY <1>1, <1>2, NumberFields
    <2> HIDE DEF q, h
    <2>2. /\ q \in Pages /\ q.loaded = p.loaded /\ Len(q.ops) = Len(p.ops)
          /\ DOMAIN q.ops = DOMAIN p.ops
          /\ q.v = p.v /\ q.inflight /\ q.online = p.online /\ q.puts = p.puts /\ q.sends = p.sends
          /\ \A k \in DOMAIN p.ops : q.ops[k].edits = p.ops[k].edits
        BY <2>0
    <2>3. EditsIn(q.ops) = EditsIn(p.ops)
        BY <2>2, SameEdits
    <2>4. q.ops # <<>>
        BY <1>1, <2>2, HeadOf DEF Pages
    <2>5. PageInv(q)
        BY <2>1 DEF Base
    <2>. QED  BY <2>1, <2>2, <2>3, <2>4, <2>5 DEF PageInv, q
<1>3. CASE Head(p.ops).seq # 0
    <2>1. q = [p EXCEPT !.inflight = TRUE]
        BY <1>3 DEF Numbered
    <2> HIDE DEF q
    <2>2. /\ q \in Pages /\ q.id = p.id /\ q.open = p.open /\ q.loaded = p.loaded
          /\ q.online = p.online /\ q.subscribed = p.subscribed /\ q.asked = p.asked
          /\ q.streaming = p.streaming /\ q.v = p.v /\ q.text = p.text /\ q.ops = p.ops
          /\ q.inflight = TRUE /\ q.seq = p.seq /\ q.owed = p.owed
          /\ q.puts = p.puts /\ q.sends = p.sends
        BY <1>1, <2>1 DEF Pages
    <2>3. p.open
        BY HeadOf
    <2>4. PageInv(q)
        BY <1>1, <1>3, <2>2, <2>3 DEF PageInv
    <2>5. Fresher(p, q)
        BY <1>1, <2>2 DEF Fresher, Pages
    <2>6. Base(lg, nt, st, q, md)
        BY <1>1, <2>2, <2>4, <2>5, BaseUpdated, Zenon
    <2>. QED  BY <1>3, <2>2, <2>6 DEF q
<1>. QED  BY <1>2, <1>3

\* A message waits for the write of the record that has its operation.
LEMMA SentAfter ==
    ASSUME NEW lg, NEW nt, NEW st, NEW p, NEW md,
           Base(lg, nt, st, p, md), p.loaded, p.ops # <<>>, Head(p.ops).seq # 0,
           p.puts # <<>>, p.puts[Len(p.puts)] = Record(p)
    PROVE  Base(lg, nt, st, [p EXCEPT !.sends =
                Append(@, [op |-> Head(p.ops), v |-> p.v, after |-> Len(p.puts)])], md)
<1> DEFINE m == [op |-> Head(p.ops), v |-> p.v, after |-> Len(p.puts)]
           T == [op : Ops, v : Nat, after : Nat]
           sends == Append(p.sends, m)
           q == [p EXCEPT !.sends = sends]
           g == [i \in Nat |-> i]
<1>1. /\ nt \in SUBSET Messages /\ st \in Records /\ p \in Pages /\ PageInv(p)
      /\ Bounded(lg, Held(st, p), Sent(nt, p), md, p)
    BY DEF Base
<1>2. p.v \in Nat /\ p.open /\ Head(p.ops) = p.ops[1] /\ 1 \in DOMAIN p.ops /\ p.ops[1] \in Ops
    BY HeadOf
<1>3. Len(p.puts) \in Nat /\ Len(p.puts) \in DOMAIN p.puts /\ DOMAIN p.puts = 1 .. Len(p.puts)
    BY <1>1 DEF Pages
<1>4. m \in T /\ m.op = p.ops[1] /\ m.v = p.v /\ m.after = Len(p.puts)
    BY <1>2, <1>3
<1>5. p.sends \in Seq(T)
    BY <1>1 DEF Pages
<1> HIDE DEF m, T
<1>6. /\ sends \in Seq(T) /\ Len(sends) = Len(p.sends) + 1 /\ DOMAIN sends = 1 .. Len(p.sends) + 1
      /\ \A i \in 1 .. Len(p.sends) : sends[i] = p.sends[i]
      /\ sends[Len(p.sends) + 1] = m /\ Len(p.sends) \in Nat /\ DOMAIN p.sends = 1 .. Len(p.sends)
    BY <1>4, <1>5, AppendProperties
<1>7. \A i \in DOMAIN sends : i \in DOMAIN p.sends \/ i = Len(p.sends) + 1
    BY <1>6
<1> HIDE DEF sends
<1>8. /\ q \in Pages /\ q.id = p.id /\ q.open = p.open /\ q.loaded = p.loaded
      /\ q.online = p.online /\ q.subscribed = p.subscribed /\ q.asked = p.asked
      /\ q.streaming = p.streaming /\ q.v = p.v /\ q.text = p.text /\ q.ops = p.ops
      /\ q.inflight = p.inflight /\ q.seq = p.seq /\ q.owed = p.owed
      /\ q.puts = p.puts /\ q.sends = sends
    BY <1>1, <1>6 DEF Pages, T
<1> HIDE DEF q
<1>9. Top(q) = Top(p) /\ Top(p) = Len(p.puts) + 1
    BY <1>8 DEF Top
<1>10. \A i \in 0 .. Top(q) : View(st, q, i) = View(st, p, i)
    BY <1>8 DEF View, Record
<1>11. Mapped(st, p, st, q, g)
    BY <1>1, <1>9, <1>10, ViewsType DEF Mapped
<1>12. Sight(p.ops[1], p.v, Len(p.puts)) \in Held(st, p)
    <2>1. View(st, p, Len(p.puts)) = Record(p) /\ Len(p.puts) \in 0 .. Top(p)
        BY <1>3, <1>9 DEF View
    <2>2. Record(p).ops = p.ops /\ Record(p).v = p.v
        BY DEF Record
    <2>. QED  BY <1>2, <2>1, <2>2, HeldIn
<1>13. ASSUME NEW y \in Sent(nt, q)
       PROVE  /\ y.at <= Top(q)
              /\ \E x \in WithNumber(Held(st, p)) \cup Sent(nt, p) :
                     x.op = y.op /\ x.v = y.v /\ x.at <= g[y.at]
    <2>1. CASE y \in Sent(nt, p)
        <3>1. y.at \in Nat /\ y.at <= Top(p)
            BY <1>1, <2>1, SentType DEF Bounded
        <3>. QED  BY <1>9, <2>1, <3>1
    <2>2. CASE y = Sight(p.ops[1], p.v, Len(p.puts))
        <3>1. y \in WithNumber(Held(st, p))
            BY <1>2, <1>12, <2>2, SightFields DEF WithNumber
        <3>2. y.at = Len(p.puts)
            BY <2>2, SightFields
        <3>. QED  BY <1>3, <1>9, <3>1, <3>2
    <2>3. y \in Sent(nt, p) \/ y = Sight(p.ops[1], p.v, Len(p.puts))
        <3>1. CASE \E n \in nt : y = Sight(n.op, n.v, 0)
            BY <3>1 DEF Sent
        <3>2. CASE \E i \in DOMAIN q.sends : y = Sight(q.sends[i].op, q.sends[i].v, q.sends[i].after)
            <4>1. PICK i \in DOMAIN sends : y = Sight(sends[i].op, sends[i].v, sends[i].after)
                BY <1>8, <3>2
            <4>2. CASE i \in DOMAIN p.sends
                <5>1. sends[i] = p.sends[i]
                    BY <1>6, <4>2
                <5>. QED  BY <4>1, <4>2, <5>1 DEF Sent
            <4>3. CASE i = Len(p.sends) + 1
                BY <1>4, <1>6, <4>1, <4>3
            <4>. QED  BY <1>7, <4>2, <4>3
        <3>. QED  BY <3>1, <3>2, SentFrom
    <2>. QED  BY <2>1, <2>2, <2>3
<1>14. PageInv(q)
    <2>1. \A i \in DOMAIN q.sends : q.sends[i].after <= Len(q.puts)
        <3>1. SUFFICES ASSUME NEW i \in DOMAIN sends
                       PROVE  sends[i].after <= Len(p.puts)
            BY <1>8
        <3>2. CASE i \in DOMAIN p.sends
            BY <1>1, <1>6, <3>2 DEF PageInv
        <3>3. CASE i = Len(p.sends) + 1
            BY <1>3, <1>4, <1>6, <3>3
        <3>. QED  BY <1>7, <3>2, <3>3
    <2>. QED  BY <1>1, <1>2, <1>8, <2>1 DEF PageInv
<1>15. Fresher(p, q)
    BY <1>1, <1>8 DEF Fresher, Pages
<1> HIDE DEF g
<1>16. Base(lg, nt, st, q, md)
    BY <1>1, <1>8, <1>11, <1>13, <1>14, <1>15, BaseMapped, Zenon
<1>. QED  BY <1>16 DEF q, sends, m

LEMMA SendBase ==
    ASSUME NEW lg, NEW nt, NEW st, NEW p, NEW md,
           Base(lg, nt, st, p, md), p.loaded, p.ops # <<>>
    PROVE  Base(lg, nt, st, Send(p), md) /\ Flying(Send(p)) /\ Send(p).loaded
<1> DEFINE n == Numbered(p)
           u == UpdateOfflineData(n, FALSE)
           a == IF u.puts = p.puts THEN 0 ELSE Len(u.puts)
<1>1. /\ Base(lg, nt, st, n, md)
      /\ n.loaded /\ n.ops # <<>> /\ n.inflight /\ n.v = p.v /\ n.puts = p.puts
      /\ Head(n.ops).seq # 0
    BY NumberBase
<1>2. n \in Pages /\ n.v # Unloaded /\ n.subscribed
    <2> HIDE DEF n
    <2>. QED  BY <1>1, HeadOf DEF Unloaded
<1>3. Send(p) = [u EXCEPT !.sends = Append(@, [op |-> Head(n.ops), v |-> p.v, after |-> a])]
    BY DEF Send
<1> HIDE DEF n
<1>4. u \in Pages /\ SameDoc(n, u) /\ u.puts = Append(n.puts, Record(n))
    BY <1>1, <1>2, UpdateFields
<1>5. Base(lg, nt, st, u, md)
    BY <1>1, UpdateBase
<1> HIDE DEF u
<1>6. u.ops = n.ops /\ u.v = n.v /\ u.text = n.text /\ u.loaded = n.loaded /\ u.inflight = n.inflight
    BY <1>4 DEF SameDoc
<1>7. Record(u) = Record(n)
    BY <1>6 DEF Record
<1>8. /\ n.puts \in Seq(Records) /\ Len(n.puts) \in Nat /\ Record(n) \in Records
      /\ Len(u.puts) = Len(n.puts) + 1 /\ u.puts[Len(u.puts)] = Record(n) /\ u.puts # <<>>
    <2>1. n.puts \in Seq(Records) /\ Len(n.puts) \in Nat /\ Record(n) \in Records
        <3>1. st \in Records
            BY DEF Base
        <3>. QED  BY <1>2, <3>1, ViewsType DEF Pages
    <2>. QED  BY <1>4, <2>1, AppendProperties
<1>9. a = Len(u.puts)
    BY <1>1, <1>8
<1> HIDE DEF a
<1>10. Base(lg, nt, st, [u EXCEPT !.sends =
            Append(@, [op |-> Head(u.ops), v |-> u.v, after |-> Len(u.puts)])], md)
    BY <1>1, <1>5, <1>6, <1>7, <1>8, SentAfter
<1>11. Send(p) = [u EXCEPT !.sends =
            Append(@, [op |-> Head(u.ops), v |-> u.v, after |-> Len(u.puts)])]
    BY <1>1, <1>3, <1>6, <1>9
<1>12. Send(p).inflight = u.inflight /\ Send(p).loaded = u.loaded
    BY <1>4, <1>11 DEF Pages
<1>. QED  BY <1>1, <1>6, <1>10, <1>11, <1>12 DEF Flying

LEMMA FlushBase ==
    ASSUME NEW lg, NEW nt, NEW st, NEW p, NEW md,
           Base(lg, nt, st, p, md), p.loaded
    PROVE  Base(lg, nt, st, Flush(p), md) /\ Flying(Flush(p)) /\ Flush(p).loaded
<1>1. CASE p.online /\ ~p.inflight /\ p.ops # <<>>
    BY <1>1, SendBase DEF Flush
<1>2. CASE ~(p.online /\ ~p.inflight /\ p.ops # <<>>)
    BY <1>2 DEF Flush, Flying
<1>. QED  BY <1>1, <1>2

-----------------------------------------------------------------------------
(* Messages and what backs them                                              *)

LEMMA BackedMono ==
    ASSUME NEW lg, NEW lg2, NEW nt, NEW nt2, NEW st, NEW st2, NEW p, NEW q,
           Backed(lg, nt, st, p), EditsIn(lg) \subseteq EditsIn(lg2),
           \A y \in Sent(nt2, q) : \E x \in Sent(nt, p) :
               /\ x.op = y.op
               /\ EditsIn(View(st, p, x.at).ops) \subseteq
                      EditsIn(lg2) \cup EditsIn(View(st2, q, y.at).ops)
    PROVE  Backed(lg2, nt2, st2, q)
<1> SUFFICES ASSUME NEW y \in Sent(nt2, q)
             PROVE  y.op.edits \subseteq EditsIn(lg2) \cup EditsIn(View(st2, q, y.at).ops)
    BY DEF Backed
<1>1. PICK x \in Sent(nt, p) :
          /\ x.op = y.op
          /\ EditsIn(View(st, p, x.at).ops) \subseteq EditsIn(lg2) \cup EditsIn(View(st2, q, y.at).ops)
    OBVIOUS
<1>2. x.op.edits \subseteq EditsIn(lg) \cup EditsIn(View(st, p, x.at).ops)
    BY DEF Backed
<1>. QED  BY <1>1, <1>2

LEMMA SentAt ==
    ASSUME NEW nt, NEW p \in Pages, PageInv(p), NEW y \in Sent(nt, p)
    PROVE  y.at \in 0 .. Len(p.puts) /\ Len(p.puts) \in Nat /\ DOMAIN p.puts = 1 .. Len(p.puts)
<1>1. p.puts \in Seq(Records)
    BY DEF Pages
<1>2. Len(p.puts) \in Nat /\ DOMAIN p.puts = 1 .. Len(p.puts)
    BY <1>1
<1>3. CASE \E m \in nt : y = Sight(m.op, m.v, 0)
    BY <1>2, <1>3, SightFields
<1>4. CASE \E i \in DOMAIN p.sends : y = Sight(p.sends[i].op, p.sends[i].v, p.sends[i].after)
    <2>1. PICK i \in DOMAIN p.sends : y = Sight(p.sends[i].op, p.sends[i].v, p.sends[i].after)
        BY <1>4
    <2>2. p.sends[i].after \in Nat /\ p.sends[i].after <= Len(p.puts)
        BY SendsType DEF PageInv
    <2>. QED  BY <1>2, <2>1, <2>2, SightFields
<1>. QED  BY <1>2, <1>3, <1>4, SentFrom

\* No message is new, and what was to be written still is.
LEMMA BackedSame ==
    ASSUME NEW lg, NEW lg2, NEW nt, NEW nt2 \in SUBSET nt, NEW st, NEW p \in Pages, NEW q \in Pages,
           Backed(lg, nt, st, p), PageInv(p), EditsIn(lg) \subseteq EditsIn(lg2),
           q.sends = p.sends,
           q.puts = p.puts \/ \E R \in Records : q.puts = Append(p.puts, R)
    PROVE  Backed(lg2, nt2, st, q)
<1>1. SUFFICES ASSUME NEW y \in Sent(nt2, q)
               PROVE  y \in Sent(nt, p) /\ View(st, q, y.at) = View(st, p, y.at)
    <2>1. \A y \in Sent(nt2, q) : y \in Sent(nt, p) /\ View(st, q, y.at) = View(st, p, y.at)
        BY <1>1
    <2>. QED  BY <2>1, BackedMono
<1>2. y \in Sent(nt, p)
    BY DEF Sent
<1>3. y.at \in 0 .. Len(p.puts) /\ Len(p.puts) \in Nat /\ DOMAIN p.puts = 1 .. Len(p.puts)
    BY <1>2, SentAt
<1>4. CASE q.puts = p.puts
    BY <1>2, <1>3, <1>4 DEF View
<1>5. CASE \E R \in Records : q.puts = Append(p.puts, R)
    <2>1. PICK R \in Records : q.puts = Append(p.puts, R)
        BY <1>5
    <2>2. p.puts \in Seq(Records)
        BY DEF Pages
    <2>3. DOMAIN q.puts = 1 .. Len(p.puts) + 1 /\ \A i \in 1 .. Len(p.puts) : q.puts[i] = p.puts[i]
        BY <1>3, <2>1, <2>2, AppendProperties
    <2>. QED  BY <1>2, <1>3, <2>3 DEF View
<1>. QED  BY <1>4, <1>5

\* Only what has reached the network is left, if the page has nothing to send.
LEMMA BackedEmpty ==
    ASSUME NEW lg, NEW nt, NEW nt2 \in SUBSET nt, NEW st, NEW p, NEW q,
           Backed(lg, nt, st, p), q.sends = <<>>
    PROVE  Backed(lg, nt2, st, q)
<1>1. ASSUME NEW y \in Sent(nt2, q)
      PROVE  y \in Sent(nt, p) /\ y.at = 0
    <2>1. PICK m \in nt2 : y = Sight(m.op, m.v, 0)
        <3>1. ~ \E i \in DOMAIN q.sends : TRUE
            OBVIOUS
        <3>. QED  BY <3>1, SentFrom
    <2>. QED  BY <2>1, SightFields DEF Sent
<1>2. View(st, q, 0) = View(st, p, 0)
    BY DEF View
<1>3. ASSUME NEW y \in Sent(nt2, q)
      PROVE  y \in Sent(nt, p) /\ View(st, q, y.at) = View(st, p, y.at)
    BY <1>1, <1>2
<1>. QED  BY <1>3, BackedMono

LEMMA UpdateBacked ==
    ASSUME NEW lg, NEW nt, NEW st, NEW p \in Pages, NEW force \in BOOLEAN,
           Backed(lg, nt, st, p), PageInv(p)
    PROVE  Backed(lg, nt, st, UpdateOfflineData(p, force))
<1> DEFINE q == UpdateOfflineData(p, force)
<1>1. /\ q \in Pages /\ SameDoc(p, q) /\ q.sends = p.sends
      /\ q.puts = p.puts \/ q.puts = Append(p.puts, Record(p))
    BY UpdateFields
<1>2. Record(p) \in Records
    BY DEF Pages, Records, Record
<1> HIDE DEF q
<1>3. nt \in SUBSET nt
    OBVIOUS
<1>4. Backed(lg, nt, st, q)
    BY <1>1, <1>2, <1>3, BackedSame
<1>. QED  BY <1>4 DEF q

LEMMA NumberBacked ==
    ASSUME NEW lg, NEW nt, NEW st, NEW p \in Pages, p.ops # <<>>,
           Backed(lg, nt, st, p), PageInv(p)
    PROVE  Backed(lg, nt, st, Numbered(p))
<1> DEFINE q == Numbered(p)
<1>1. q \in Pages /\ q.puts = p.puts /\ q.sends = p.sends
    <2>1. CASE Head(p.ops).seq = 0
        BY <2>1, NumberFields
    <2>2. CASE Head(p.ops).seq # 0
        <3>1. q = [p EXCEPT !.inflight = TRUE]
            BY <2>2 DEF Numbered
        <3>. QED  BY <3>1 DEF Pages
    <2>. QED  BY <2>1, <2>2
<1> HIDE DEF q
<1>2. nt \in SUBSET nt
    OBVIOUS
<1>3. Backed(lg, nt, st, q)
    BY <1>1, <1>2, BackedSame
<1>. QED  BY <1>3 DEF q

\* A message that waits is backed by the write it waits for.
LEMMA SendBacked ==
    ASSUME NEW lg, NEW nt, NEW st, NEW p, NEW md,
           Base(lg, nt, st, p, md), p.loaded, p.ops # <<>>, Backed(lg, nt, st, p)
    PROVE  Backed(lg, nt, st, Send(p))
<1> DEFINE n == Numbered(p)
           u == UpdateOfflineData(n, FALSE)
           a == IF u.puts = p.puts THEN 0 ELSE Len(u.puts)
           m == [op |-> Head(n.ops), v |-> p.v, after |-> a]
           sends == Append(u.sends, m)
           q == [u EXCEPT !.sends = sends]
           T == [op : Ops, v : Nat, after : Nat]
<1>1. /\ Base(lg, nt, st, n, md)
      /\ n.loaded /\ n.ops # <<>> /\ n.inflight /\ n.v = p.v /\ n.puts = p.puts
    BY NumberBase
<1>2. p \in Pages /\ PageInv(p)
    BY DEF Base
<1>3. Backed(lg, nt, st, n)
    BY <1>2, NumberBacked
<1>4. Send(p) = q
    BY DEF Send
<1> HIDE DEF n
<1>5. /\ n \in Pages /\ n.v # Unloaded /\ n.v \in Nat /\ n.subscribed
      /\ 1 \in DOMAIN n.ops /\ Head(n.ops) = n.ops[1] /\ n.ops[1] \in Ops
    BY <1>1, HeadOf DEF Unloaded
<1>6. PageInv(n) /\ st \in Records
    BY <1>1 DEF Base
<1>7. u \in Pages /\ SameDoc(n, u) /\ u.puts = Append(n.puts, Record(n))
    BY <1>1, <1>5, UpdateFields
<1>8. Backed(lg, nt, st, u)
    BY <1>3, <1>5, <1>6, UpdateBacked
<1> HIDE DEF u
<1>9. /\ Len(u.puts) = Len(n.puts) + 1 /\ Len(n.puts) \in Nat /\ u.puts[Len(u.puts)] = Record(n)
      /\ Len(u.puts) \in DOMAIN u.puts
    <2>1. n.puts \in Seq(Records) /\ Record(n) \in Records
        BY <1>5, <1>6, ViewsType DEF Pages
    <2>. QED  BY <1>7, <2>1, AppendProperties
<1>10. a = Len(u.puts)
    BY <1>1, <1>9
<1>11. m \in T /\ m.op = n.ops[1] /\ m.after = Len(u.puts)
    BY <1>1, <1>5, <1>9, <1>10
<1>12. u.sends \in Seq(T)
    BY <1>7 DEF Pages
<1> HIDE DEF a, m, T
<1>13. /\ DOMAIN sends = 1 .. Len(u.sends) + 1 /\ Len(u.sends) \in Nat /\ DOMAIN u.sends = 1 .. Len(u.sends)
       /\ \A i \in 1 .. Len(u.sends) : sends[i] = u.sends[i]
       /\ sends[Len(u.sends) + 1] = m /\ sends \in Seq(T)
    BY <1>11, <1>12, AppendProperties
<1> HIDE DEF sends
<1>14. q.sends = sends /\ q.puts = u.puts
    BY <1>7 DEF Pages
<1> HIDE DEF q
<1>15. ASSUME NEW i \in Nat, i <= Len(u.puts)
       PROVE  View(st, q, i) = View(st, u, i)
    BY <1>7, <1>9, <1>14, <1>15 DEF View, Pages
<1>16. ASSUME NEW y \in Sent(nt, q)
       PROVE  y.op.edits \subseteq EditsIn(lg) \cup EditsIn(View(st, q, y.at).ops)
    <2>1. CASE y \in Sent(nt, u)
        <3>1. PageInv(u)
            <4>1. Base(lg, nt, st, u, md)
                BY <1>1, UpdateBase DEF u
            <4>. QED  BY <4>1 DEF Base
        <3>2. y.at \in Nat /\ y.at <= Len(u.puts)
            BY <1>7, <2>1, <3>1, SentAt
        <3>3. y.op.edits \subseteq EditsIn(lg) \cup EditsIn(View(st, u, y.at).ops)
            BY <1>8, <2>1 DEF Backed
        <3>. QED  BY <1>15, <3>2, <3>3
    <2>2. CASE y = Sight(m.op, m.v, m.after)
        <3>1. y.op = n.ops[1] /\ y.at = Len(u.puts)
            BY <1>11, <2>2, SightFields
        <3>2. View(st, q, Len(u.puts)) = Record(n)
            BY <1>9, <1>14 DEF View
        <3>3. Record(n).ops = n.ops
            BY DEF Record
        <3>. QED  BY <1>5, <3>1, <3>2, <3>3 DEF EditsIn
    <2>3. y \in Sent(nt, u) \/ y = Sight(m.op, m.v, m.after)
        <3>1. CASE \E t \in nt : y = Sight(t.op, t.v, 0)
            BY <3>1 DEF Sent
        <3>2. CASE \E i \in DOMAIN q.sends : y = Sight(q.sends[i].op, q.sends[i].v, q.sends[i].after)
            <4>1. PICK i \in DOMAIN sends : y = Sight(sends[i].op, sends[i].v, sends[i].after)
                BY <1>14, <3>2
            <4>2. i \in DOMAIN u.sends \/ i = Len(u.sends) + 1
                BY <1>13
            <4>. QED  BY <1>13, <4>1, <4>2 DEF Sent
        <3>. QED  BY <3>1, <3>2, SentFrom
    <2>. QED  BY <2>1, <2>2, <2>3
<1>17. Backed(lg, nt, st, q)
    BY <1>16 DEF Backed
<1>. QED  BY <1>4, <1>17

LEMMA FlushBacked ==
    ASSUME NEW lg, NEW nt, NEW st, NEW p, NEW md,
           Base(lg, nt, st, p, md), p.loaded, Backed(lg, nt, st, p)
    PROVE  Backed(lg, nt, st, Flush(p))
<1>1. CASE p.online /\ ~p.inflight /\ p.ops # <<>>
    BY <1>1, SendBacked DEF Flush
<1>2. CASE ~(p.online /\ ~p.inflight /\ p.ops # <<>>)
    BY <1>2 DEF Flush
<1>. QED  BY <1>1, <1>2

-----------------------------------------------------------------------------
(* Edits                                                                     *)

\* A new edit is in an operation of the page that has no number.
LEMMA CoreEdit ==
    ASSUME NEW lg, NEW H, NEW S, NEW H2, NEW new, NEW e,
           Core(lg, H, S),
           \A x \in H2 : x \in H \/ x = new,
           new.op.seq = 0,
           \A d \in new.op.edits :
               d = e \/ \E old \in Raw(H) : old.at = new.at /\ d \in old.op.edits,
           \A x \in H \cup S : e \notin x.op.edits,
           \A j \in DOMAIN lg : e \notin lg[j].edits
    PROVE  Core(lg, H2, S)
<1> DEFINE num == WithNumber(H) \cup S
           num2 == WithNumber(H2) \cup S
<1>1. /\ \A x \in S : x.op.seq # 0
      /\ \A x, y \in num : Alike(x.op, y.op) => x.op = y.op
      /\ \A u \in Raw(H), y \in num : y.at <= u.at => Apart(u.op, y.op)
      /\ \A x \in num, j \in DOMAIN lg : Alike(x.op, lg[j]) => x.op = lg[j] /\ j > x.v
      /\ \A u \in Raw(H), j \in DOMAIN lg : Apart(u.op, lg[j])
    BY Zenon DEF Core
<1>2. \A x \in num2 : x \in num /\ x \in H \cup S
    BY DEF WithNumber
<1>3. \A u \in Raw(H2) : u \in Raw(H) \/ u = new
    BY DEF Raw
<1> HIDE DEF num, num2
<1>4. ASSUME NEW u \in Raw(H2), NEW y \in num2, y.at <= u.at
      PROVE  Apart(u.op, y.op)
    <2>1. CASE u \in Raw(H)
        BY <1>1, <1>2, <1>4, <2>1
    <2>2. CASE u = new
        <3>1. SUFFICES ASSUME NEW d \in new.op.edits, d \in y.op.edits
                       PROVE  FALSE
            BY <2>2 DEF Apart
        <3>2. PICK old \in Raw(H) : old.at = new.at /\ d \in old.op.edits
            BY <1>2, <3>1
        <3>3. Apart(old.op, y.op)
            BY <1>1, <1>2, <1>4, <2>2, <3>2
        <3>. QED  BY <3>1, <3>2, <3>3 DEF Apart
    <2>. QED  BY <1>3, <2>1, <2>2
<1>5. ASSUME NEW u \in Raw(H2), NEW j \in DOMAIN lg
      PROVE  Apart(u.op, lg[j])
    <2>1. CASE u \in Raw(H)
        BY <1>1, <2>1
    <2>2. CASE u = new
        <3>1. SUFFICES ASSUME NEW d \in new.op.edits, d \in lg[j].edits
                       PROVE  FALSE
            BY <2>2 DEF Apart
        <3>2. PICK old \in Raw(H) : old.at = new.at /\ d \in old.op.edits
            BY <3>1
        <3>3. Apart(old.op, lg[j])
            BY <1>1, <3>2
        <3>. QED  BY <3>1, <3>2, <3>3 DEF Apart
    <2>. QED  BY <1>3, <2>1, <2>2
<1>6. \A x, y \in num2 : Alike(x.op, y.op) => x.op = y.op
    BY <1>1, <1>2
<1>7. \A x \in num2, j \in DOMAIN lg : Alike(x.op, lg[j]) => x.op = lg[j] /\ j > x.v
    BY <1>1, <1>2
<1>. QED  BY <1>1, <1>4, <1>5, <1>6, <1>7, Zenon DEF Core, num2

\* The edit is in the page's n-th operation, a new one or the last.
LEMMA GrownBase ==
    ASSUME NEW lg, NEW nt, NEW st, NEW p, NEW md, NEW q \in Pages, NEW e \in Edits \ md,
           NEW n \in DOMAIN q.ops,
           Base(lg, nt, st, p, md), p.open, p.loaded, p.v # Unloaded,
           q.id = p.id, q.open = p.open, q.loaded = p.loaded, q.online = p.online,
           q.subscribed = p.subscribed, q.asked = p.asked, q.streaming = p.streaming,
           q.v = p.v, q.inflight = p.inflight, q.seq = p.seq, q.owed = p.owed,
           q.puts = p.puts, q.sends = p.sends,
           q.text = p.text \cup {e},
           DOMAIN p.ops \subseteq DOMAIN q.ops,
           \A k \in DOMAIN q.ops : k # n => k \in DOMAIN p.ops /\ q.ops[k] = p.ops[k],
           q.ops[n].seq = 0,
           q.ops[n].edits = {e} \cup (IF n \in DOMAIN p.ops THEN p.ops[n].edits ELSE {}),
           n \in DOMAIN p.ops => p.ops[n].seq = 0,
           p.inflight => n # 1
    PROVE  Base(lg, nt, st, q, md \cup {e})
<1> DEFINE new == Sight(q.ops[n], p.v, Top(p))
           H == Held(st, p)
           H2 == Held(st, q)
           S == Sent(nt, p)
           md2 == md \cup {e}
<1>1. /\ lg \in Seq(Ops) /\ nt \in SUBSET Messages /\ st \in Records /\ p \in Pages /\ md \subseteq Edits
      /\ Core(lg, H, S) /\ Bounded(lg, H, S, md, p) /\ LogInv(lg, md, p) /\ ViewsInv(lg, st, p)
      /\ PageInv(p)
    BY DEF Base
<1>0. p \in Pages /\ q \in Pages /\ p.loaded /\ q.loaded /\ q.puts = p.puts
    BY <1>1
<1>2. Top(p) \in 0 .. Top(p) /\ View(st, p, Top(p)) = Record(p) /\ Top(p) \in Nat /\ Top(q) = Top(p)
    <2>1. /\ Top(q) = Top(p) /\ Top(p) \in Nat /\ Top(p) >= 1
          /\ View(st, p, Top(p)) = Record(p)
        BY <1>0, TopView, Zenon
    <2>. QED  BY <2>1
<1>3. Sound(lg, Record(p))
    BY <1>1, <1>2 DEF ViewsInv
<1>4. Record(p).ops = p.ops /\ Record(p).v = p.v /\ Record(p).text = p.text
      /\ Record(q).ops = q.ops /\ Record(q).v = q.v /\ Record(q).text = q.text
    BY DEF Record
<1>5. p.v <= Len(lg) /\ p.text = EditsIn(SubSeq(lg, 1, p.v)) \cup EditsIn(p.ops)
    BY <1>3, <1>4 DEF Sound
<1>6. Sent(nt, q) = S
    BY DEF Sent
<1>7. new.op = q.ops[n] /\ new.v = p.v /\ new.at = Top(p)
    BY SightFields
<1>8. \A k \in DOMAIN p.ops :
          LET x == Sight(p.ops[k], p.v, Top(p))
          IN  x \in H /\ x.op = p.ops[k] /\ x.at = Top(p)
    BY <1>1, HeldOwn, SightFields
<1>9. ASSUME NEW x \in H2
      PROVE  \/ x \in H /\ x.at < Top(p)
             \/ \E k \in DOMAIN q.ops : x = Sight(q.ops[k], q.v, Top(p))
    <2> HIDE DEF new, H, S, md2
    <2>1. x \in Held(st, q)
        OBVIOUS
    <2>2. \/ x \in Held(st, p) /\ x.at < Top(p)
          \/ \E k \in DOMAIN q.ops : x = Sight(q.ops[k], q.v, Top(p))
        BY <1>0, <2>1, HeldTop
    <2>. QED  BY <2>2 DEF H
<1>10. \A x \in H \cup S : /\ x.at \in Nat /\ x.at <= Top(p) /\ x.op \in Ops
                           /\ x.v <= Len(lg) /\ x.op.edits \subseteq md
                           /\ x.op.seq # 0 => x.op.src < p.id \/ (x.op.src = p.id /\ x.op.seq < p.seq)
    BY <1>1, HeldType, SentType DEF Bounded
<1> HIDE DEF new, H, H2, S
<1>11. \A x \in H2 : x \in H \/ x = new
    <2>1. SUFFICES ASSUME NEW x \in H2, NEW k \in DOMAIN q.ops, x = Sight(q.ops[k], q.v, Top(p))
                   PROVE  x \in H \/ x = new
        BY <1>9
    <2>2. CASE k = n
        BY <2>1, <2>2 DEF new
    <2>3. CASE k # n
        BY <1>8, <2>1, <2>3
    <2>. QED  BY <2>2, <2>3
<1>12. \A k \in DOMAIN p.ops : p.ops[k].edits \subseteq md
    BY <1>8, <1>10
<1>13. \A j \in DOMAIN lg : e \notin lg[j].edits
    BY <1>1, EditsAssumption DEF LogInv
<1>14. Core(lg, H2, S)
    <2>1. \A d \in new.op.edits :
              d = e \/ \E old \in Raw(H) : old.at = new.at /\ d \in old.op.edits
        <3>1. SUFFICES ASSUME NEW d \in q.ops[n].edits, d # e
                       PROVE  \E old \in Raw(H) : old.at = new.at /\ d \in old.op.edits
            BY <1>7
        <3>2. n \in DOMAIN p.ops /\ d \in p.ops[n].edits /\ p.ops[n].seq = 0
            BY <3>1
        <3> DEFINE old == Sight(p.ops[n], p.v, Top(p))
        <3>3. old \in H /\ old.op = p.ops[n] /\ old.at = Top(p)
            BY <1>8, <3>2
        <3> HIDE DEF old
        <3>4. old \in Raw(H)
            BY <3>2, <3>3 DEF Raw
        <3>. QED  BY <1>7, <3>2, <3>3, <3>4
    <2>2. \A x \in H \cup S : e \notin x.op.edits
        BY <1>10
    <2>3. new.op.seq = 0
        BY <1>7
    <2>. QED  BY <1>1, <1>11, <1>13, <2>1, <2>2, <2>3, CoreEdit, Zenon
<1>15. md2 \subseteq Edits /\ \A E : E \subseteq md => E \subseteq md2
    BY <1>1
<1>16. q.ops[n].edits \subseteq md2
    BY <1>12
<1> HIDE DEF md2
<1>17. Bounded(lg, H2, S, md2, q)
    <2>1. SUFFICES ASSUME NEW x \in H2 \cup S
                   PROVE  /\ x.at <= Top(q) /\ x.v <= Len(lg) /\ x.op.edits \subseteq md2
                          /\ x.op.seq # 0 => x.op.src < q.id \/
                                              (x.op.src = q.id /\ (q.open => x.op.seq < q.seq))
        BY DEF Bounded
    <2>2. CASE x \in H \cup S
        BY <1>2, <1>10, <1>15, <2>2
    <2>3. CASE x = new
        BY <1>2, <1>5, <1>7, <1>16, <2>3
    <2>. QED  BY <1>11, <2>2, <2>3
<1>18. LogInv(lg, md2, q)
    BY <1>1 DEF LogInv, md2
<1>19. EditsIn(q.ops) = EditsIn(p.ops) \cup {e}
    <2>1. EditsIn(q.ops) \subseteq EditsIn(p.ops) \cup {e}
        <3>1. SUFFICES ASSUME NEW k \in DOMAIN q.ops, NEW d \in q.ops[k].edits, d # e
                       PROVE  \E l \in DOMAIN p.ops : d \in p.ops[l].edits
            BY DEF EditsIn
        <3>2. k \in DOMAIN p.ops /\ d \in p.ops[k].edits
            BY <3>1
        <3>. QED  BY <3>2
    <2>2. ASSUME NEW k \in DOMAIN p.ops
          PROVE  k \in DOMAIN q.ops /\ p.ops[k].edits \subseteq q.ops[k].edits
        OBVIOUS
    <2>3. EditsIn(p.ops) \subseteq EditsIn(q.ops)
        BY <2>2 DEF EditsIn
    <2>4. e \in EditsIn(q.ops)
        BY DEF EditsIn
    <2>. QED  BY <2>1, <2>3, <2>4
<1>20. Sound(lg, Record(q))
    <2>1. ASSUME NEW k \in DOMAIN q.ops, NEW l \in DOMAIN q.ops, k # l
          PROVE  Apart(q.ops[k], q.ops[l])
        <3>1. \A i, j \in DOMAIN p.ops : i # j => Apart(p.ops[i], p.ops[j])
            BY <1>3, <1>4 DEF Sound
        <3>2. \A j \in DOMAIN q.ops : j # n => Apart(q.ops[n], q.ops[j]) /\ Apart(q.ops[j], q.ops[n])
            <4>1. SUFFICES ASSUME NEW j \in DOMAIN q.ops, j # n, NEW d \in q.ops[n].edits,
                                  d \in q.ops[j].edits
                           PROVE  FALSE
                BY DEF Apart
            <4>2. j \in DOMAIN p.ops /\ d \in p.ops[j].edits /\ d # e
                BY <1>12, <4>1
            <4>3. n \in DOMAIN p.ops /\ d \in p.ops[n].edits
                BY <4>1, <4>2
            <4>. QED  BY <3>1, <4>1, <4>2, <4>3 DEF Apart
        <3>. QED  BY <2>1, <3>1, <3>2
    <2>2. \A k \in DOMAIN q.ops : k # 1 => q.ops[k].seq = 0
        BY <1>3, <1>4 DEF Sound
    <2>3. q.v # Unloaded /\ q.v <= Len(lg) /\ q.text = EditsIn(SubSeq(lg, 1, q.v)) \cup EditsIn(q.ops)
        BY <1>5, <1>19
    <2>. QED  BY <1>4, <2>1, <2>2, <2>3 DEF Sound
<1>21. ViewsInv(lg, st, q)
    <2>1. EditsIn(p.ops) \subseteq EditsIn(lg) \cup EditsIn(q.ops)
        BY <1>19
    <2>. QED  BY <1>1, <1>20, <2>1, ViewsTop
<1>22. PageInv(q)
    <2>1. q.inflight => q.ops # <<>> /\ Head(q.ops).seq # 0
        <3>1. SUFFICES ASSUME p.inflight
                       PROVE  q.ops # <<>> /\ Head(q.ops).seq # 0
            OBVIOUS
        <3>2. p.ops \in Seq(Ops) /\ q.ops \in Seq(Ops) /\ p.ops # <<>> /\ Head(p.ops).seq # 0 /\ n # 1
            BY <1>1, <3>1 DEF Pages, PageInv
        <3>3. 1 \in DOMAIN p.ops /\ Head(p.ops) = p.ops[1]
            BY <3>2
        <3>4. 1 \in DOMAIN q.ops /\ q.ops[1] = p.ops[1]
            BY <3>2, <3>3
        <3>. QED  BY <3>2, <3>3, <3>4
    <2>. QED  BY <1>1, <2>1 DEF PageInv
<1>. QED  BY <1>1, <1>6, <1>14, <1>15, <1>17, <1>18, <1>21, <1>22 DEF Base, md2, H2

LEMMA EditGrows ==
    ASSUME NEW p \in Pages, NEW e \in Edits, p.inflight => p.ops # <<>>,
           Composable(p) => Last(p).seq = 0
    PROVE  LET ops == IF Composable(p)
                      THEN [p.ops EXCEPT ![Len(p.ops)].edits = @ \cup {e}]
                      ELSE Append(p.ops, [edits |-> {e}, src |-> 0, seq |-> 0])
               n == Len(ops)
           IN  /\ ops \in Seq(Ops) /\ n \in DOMAIN ops
               /\ DOMAIN p.ops \subseteq DOMAIN ops
               /\ \A k \in DOMAIN ops : k # n => k \in DOMAIN p.ops /\ ops[k] = p.ops[k]
               /\ ops[n].seq = 0
               /\ ops[n].edits = {e} \cup (IF n \in DOMAIN p.ops THEN p.ops[n].edits ELSE {})
               /\ n \in DOMAIN p.ops => p.ops[n].seq = 0
               /\ p.inflight => n # 1
<1> DEFINE N == Len(p.ops)
           raw == [edits |-> {e}, src |-> 0, seq |-> 0]
           z == [p.ops[N] EXCEPT !.edits = @ \cup {e}]
<1>1. p.ops \in Seq(Ops) /\ N \in Nat /\ DOMAIN p.ops = 1 .. N
    BY DEF Pages
<1>2. raw \in Ops /\ raw.edits = {e} /\ raw.seq = 0
    BY BoundsAssumption DEF Ops
<1> HIDE DEF raw
<1>3. CASE Composable(p)
    <2> DEFINE ops == [p.ops EXCEPT ![N] = z]
    <2>1. p.ops # <<>> /\ ~(p.inflight /\ N = 1) /\ p.ops[N].seq = 0
        BY <1>3 DEF Composable, Last
    <2>2. N \in DOMAIN p.ops /\ N >= 1 /\ p.ops[N] \in Ops
        BY <1>1, <2>1
    <2>3. z \in Ops /\ z.edits = p.ops[N].edits \cup {e} /\ z.seq = 0
        BY <2>1, <2>2 DEF Ops
    <2> HIDE DEF z
    <2>4. /\ ops \in Seq(Ops) /\ Len(ops) = N /\ DOMAIN ops = 1 .. N /\ ops[N] = z
          /\ \A k \in 1 .. N : k # N => ops[k] = p.ops[k]
        BY <1>1, <2>2, <2>3, ExceptSeq
    <2>5. [p.ops EXCEPT ![Len(p.ops)].edits = @ \cup {e}] = ops
        BY <2>2 DEF z
    <2> HIDE DEF ops, N
    <2>6. /\ ops \in Seq(Ops) /\ Len(ops) = N /\ N \in DOMAIN ops
          /\ DOMAIN p.ops \subseteq DOMAIN ops
          /\ \A k \in DOMAIN ops : k # N => k \in DOMAIN p.ops /\ ops[k] = p.ops[k]
          /\ ops[N].seq = 0
          /\ ops[N].edits = {e} \cup p.ops[N].edits /\ N \in DOMAIN p.ops /\ p.ops[N].seq = 0
          /\ p.inflight => N # 1
        BY <1>1, <2>1, <2>2, <2>3, <2>4
    <2>. QED  BY <1>3, <2>5, <2>6
<1>4. CASE ~Composable(p)
    <2> DEFINE ops == Append(p.ops, raw)
    <2>1. /\ ops \in Seq(Ops) /\ Len(ops) = N + 1 /\ DOMAIN ops = 1 .. N + 1 /\ ops[N + 1] = raw
          /\ \A k \in 1 .. N : ops[k] = p.ops[k]
        BY <1>1, <1>2, AppendProperties
    <2>2. p.inflight => N # 0
        BY <1>1
    <2> HIDE DEF ops, N
    <2>3. /\ ops \in Seq(Ops) /\ Len(ops) = N + 1 /\ N + 1 \in DOMAIN ops
          /\ DOMAIN p.ops \subseteq DOMAIN ops
          /\ \A k \in DOMAIN ops : k # N + 1 => k \in DOMAIN p.ops /\ ops[k] = p.ops[k]
          /\ ops[N + 1].seq = 0
          /\ ops[N + 1].edits = {e} /\ N + 1 \notin DOMAIN p.ops
          /\ p.inflight => N + 1 # 1
        BY <1>1, <1>2, <2>1, <2>2
    <2>. QED  BY <1>4, <2>3 DEF raw, ops
<1>. QED  BY <1>3, <1>4

LEMMA EditBase ==
    ASSUME Cases = {}, DocInv, NEW e \in Edits, Edit(e)
    PROVE  DocInv'
<1> DEFINE ops == IF Composable(page)
                  THEN [page.ops EXCEPT ![Len(page.ops)].edits = @ \cup {e}]
                  ELSE Append(page.ops, [edits |-> {e}, src |-> 0, seq |-> 0])
           q == [page EXCEPT !.ops = ops, !.text = @ \cup {e}]
           u == UpdateOfflineData(q, TRUE)
<1>1. /\ page.open /\ page.v # Unloaded /\ e \notin made
      /\ ~(Composable(page) /\ Last(page).seq # 0)
      /\ page' = Flush(u) /\ made' = made \cup {e}
      /\ log' = log /\ net' = net /\ store' = store /\ drops' = drops /\ saved' = saved
    BY DEF Edit
<1>2. Base(log, net, store, page, made) /\ page \in Pages /\ PageInv(page)
    BY DEF DocInv, Base
<1>3. page.loaded /\ (page.inflight => page.ops # <<>>)
    BY <1>1, <1>2 DEF PageInv
<1> DEFINE n == Len(ops)
<1>4. /\ ops \in Seq(Ops) /\ n \in DOMAIN ops
      /\ DOMAIN page.ops \subseteq DOMAIN ops
      /\ \A k \in DOMAIN ops : k # n => k \in DOMAIN page.ops /\ ops[k] = page.ops[k]
      /\ ops[n].seq = 0
      /\ ops[n].edits = {e} \cup (IF n \in DOMAIN page.ops THEN page.ops[n].edits ELSE {})
      /\ n \in DOMAIN page.ops => page.ops[n].seq = 0
      /\ page.inflight => n # 1
    <2>1. Composable(page) => Last(page).seq = 0
        BY <1>1
    <2>. QED  BY <1>2, <1>3, <2>1, EditGrows, Zenon
<1> HIDE DEF n
<1> HIDE DEF ops
<1>5. /\ q \in Pages /\ q.id = page.id /\ q.open = page.open /\ q.loaded = page.loaded
      /\ q.online = page.online /\ q.subscribed = page.subscribed /\ q.asked = page.asked
      /\ q.streaming = page.streaming /\ q.v = page.v /\ q.inflight = page.inflight
      /\ q.seq = page.seq /\ q.owed = page.owed /\ q.puts = page.puts /\ q.sends = page.sends
      /\ q.text = page.text \cup {e} /\ q.ops = ops
    BY <1>2, <1>4 DEF Pages
<1> HIDE DEF q
<1>6. Base(log, net, store, q, made \cup {e})
    <2>1. e \in Edits \ made /\ q.loaded = page.loaded
        BY <1>1, <1>5
    <2>2. /\ n \in DOMAIN q.ops /\ DOMAIN page.ops \subseteq DOMAIN q.ops
          /\ \A k \in DOMAIN q.ops : k # n => k \in DOMAIN page.ops /\ q.ops[k] = page.ops[k]
          /\ q.ops[n].seq = 0
          /\ q.ops[n].edits = {e} \cup (IF n \in DOMAIN page.ops THEN page.ops[n].edits ELSE {})
        BY <1>4, <1>5
    <2>. QED  BY <1>1, <1>2, <1>3, <1>4, <1>5, <2>1, <2>2, GrownBase, Zenon
<1>7. q.loaded
    BY <1>3, <1>5
<1>8. u.loaded
    BY <1>3, <1>5, UpdateFields DEF SameDoc
<1>9. Base(log, net, store, u, made \cup {e}) /\ Backed(log, net, store, u)
    <2>1. Backed(log, net, store, q) /\ PageInv(q)
        <3>1. net \in SUBSET net /\ Backed(log, net, store, page)
            BY DEF DocInv
        <3>. QED  BY <1>2, <1>5, <1>6, <3>1, BackedSame DEF Base
    <2>. QED  BY <1>5, <1>6, <1>7, <2>1, UpdateBase, UpdateBacked
<1> HIDE DEF u
<1>10. /\ Base(log, net, store, Flush(u), made \cup {e}) /\ Flying(Flush(u))
       /\ Backed(log, net, store, Flush(u))
    BY <1>8, <1>9, FlushBase, FlushBacked
<1>. QED  BY <1>1, <1>10 DEF DocInv, SavedKept

-----------------------------------------------------------------------------
(* The page's steps                                                          *)

\* A page with nothing in memory knows what the record and the network have.
LEMMA BaseEmpty ==
    ASSUME NEW lg, NEW nt, NEW st, NEW p, NEW md, NEW nt2 \in SUBSET nt, NEW q \in Pages,
           Base(lg, nt, st, p, md), ~q.loaded, q.sends = <<>>, Fresher(p, q), PageInv(q)
    PROVE  Base(lg, nt2, st, q, md)
<1> DEFINE g == [i \in Nat |-> i]
<1>1. /\ nt \in SUBSET Messages /\ nt2 \in SUBSET Messages /\ st \in Records /\ p \in Pages
    BY DEF Base
<1>2. Top(q) = 0 /\ View(st, q, 0) = st /\ View(st, p, 0) = st /\ Top(p) \in Nat
    BY <1>1, ViewsType DEF Top, View
<1>3. Mapped(st, p, st, q, g)
    BY <1>2 DEF Mapped
<1>4. ASSUME NEW y \in Sent(nt2, q)
      PROVE  /\ y.at <= Top(q)
             /\ \E x \in WithNumber(Held(st, p)) \cup Sent(nt, p) :
                    x.op = y.op /\ x.v = y.v /\ x.at <= g[y.at]
    <2>1. PICK m \in nt2 : y = Sight(m.op, m.v, 0)
        <3>1. ~ \E i \in DOMAIN q.sends : TRUE
            OBVIOUS
        <3>. QED  BY <3>1, SentFrom
    <2>2. y \in Sent(nt, p) /\ y.at = 0
        BY <2>1, SightFields DEF Sent
    <2>. QED  BY <1>2, <2>2
<1> HIDE DEF g
<1>. QED  BY <1>1, <1>3, <1>4, BaseMapped, Zenon

LEMMA NewPageType ==
    ASSUME NEW id \in 0 .. MaxPages
    PROVE  NewPage(id) \in Pages /\ PageInv(NewPage(id)) /\ NewPage(id).id = id
<1>1. <<>> \in Seq(Ops) /\ <<>> \in Seq(Records) /\ <<>> \in Seq([op: Ops, v: Nat, after: Nat])
    OBVIOUS
<1>2. NewPage(id) \in Pages
    BY <1>1 DEF NewPage, Pages
<1>3. PageInv(NewPage(id))
    BY DEF NewPage, PageInv
<1>. QED  BY <1>2, <1>3 DEF NewPage

LEMMA InvFields ==
    ASSUME DocInv
    PROVE  /\ Base(log, net, store, page, made) /\ page \in Pages /\ PageInv(page) /\ Flying(page)
           /\ Backed(log, net, store, page)
           /\ log \in Seq(Ops) /\ net \in SUBSET Messages /\ store \in Records /\ made \subseteq Edits
           /\ net \in SUBSET net
BY DEF DocInv, Base

LEMMA OpenPageStep ==
    ASSUME Restricted, DocInv, OpenPage
    PROVE  DocInv'
<1> DEFINE new == NewPage(page.id + 1)
           q == [new EXCEPT !.open = TRUE, !.subscribed = TRUE]
<1>1. /\ page.id < MaxPages /\ page' = q
      /\ log' = log /\ net' = net /\ store' = store /\ drops' = drops /\ made' = made
      /\ saved' = saved
    BY DEF OpenPage, Restricted
<1>2. /\ Base(log, net, store, page, made) /\ page \in Pages /\ net \in SUBSET net
    BY InvFields
<1>3. page.id + 1 \in 0 .. MaxPages
    BY <1>1, <1>2, BoundsAssumption DEF Pages
<1>4. new \in Pages /\ new.id = page.id + 1 /\ PageInv(new)
    BY <1>3, NewPageType
<1>5. /\ ~new.loaded /\ new.sends = <<>> /\ new.v = Unloaded /\ new.ops = <<>>
      /\ new.puts = <<>> /\ ~new.asked /\ ~new.streaming /\ ~new.inflight /\ ~new.owed
      /\ new.seq = 1 /\ ~new.online /\ new.text = {}
    BY DEF NewPage
<1> HIDE DEF new
<1>6. /\ q \in Pages /\ q.id = new.id /\ q.open /\ q.subscribed /\ q.loaded = new.loaded
      /\ q.sends = new.sends /\ q.v = new.v /\ q.ops = new.ops /\ q.puts = new.puts
      /\ q.asked = new.asked /\ q.streaming = new.streaming /\ q.inflight = new.inflight
      /\ q.owed = new.owed /\ q.seq = new.seq /\ q.online = new.online /\ q.text = new.text
    BY <1>4 DEF Pages
<1> HIDE DEF q
<1>7. PageInv(q)
    BY <1>5, <1>6 DEF PageInv
<1>8. Fresher(page, q)
    BY <1>2, <1>4, <1>6 DEF Fresher, Pages
<1>9. Base(log, net, store, q, made)
    BY <1>2, <1>5, <1>6, <1>7, <1>8, BaseEmpty
<1>10. Flying(q)
    BY <1>5, <1>6 DEF Flying
<1>11. Backed(log, net, store, q)
    BY <1>2, <1>5, <1>6, BackedEmpty, InvFields
<1>. QED  BY <1>1, <1>9, <1>10, <1>11 DEF DocInv, SavedKept

LEMMA CloseStep ==
    ASSUME DocInv, Close
    PROVE  DocInv'
<1> DEFINE q == NewPage(page.id)
<1>1. /\ page' = q /\ net' \in SUBSET net
      /\ log' = log /\ store' = store /\ drops' = drops /\ made' = made /\ saved' = saved
    BY DEF Close
<1>2. /\ Base(log, net, store, page, made) /\ page \in Pages
    BY InvFields
<1>3. page.id \in 0 .. MaxPages
    BY <1>2 DEF Pages
<1>4. q \in Pages /\ q.id = page.id /\ PageInv(q)
    BY <1>3, NewPageType
<1>5. ~q.loaded /\ q.sends = <<>> /\ ~q.open /\ ~q.online
    BY DEF NewPage
<1> HIDE DEF q
<1>6. Fresher(page, q)
    BY <1>4, <1>5 DEF Fresher
<1>7. Base(log, net', store, q, made)
    BY <1>1, <1>2, <1>4, <1>5, <1>6, BaseEmpty
<1>8. Flying(q)
    BY <1>5 DEF Flying
<1>9. Backed(log, net', store, q)
    BY <1>1, <1>5, BackedEmpty, InvFields
<1>. QED  BY <1>1, <1>7, <1>8, <1>9 DEF DocInv, SavedKept

\* The page is the same but for its connection and what it owes.
LEMMA BaseSame ==
    ASSUME NEW lg, NEW nt, NEW st, NEW p, NEW md, NEW nt2 \in SUBSET nt, NEW q \in Pages,
           Base(lg, nt, st, p, md), p.open,
           q.id = p.id, q.open = p.open, q.loaded = p.loaded, q.v = p.v, q.text = p.text,
           q.ops = p.ops, q.sends = p.sends, q.puts = p.puts, q.seq = p.seq,
           q.asked = p.asked, q.subscribed,
           q.inflight => p.inflight, q.streaming => q.loaded, q.owed => q.loaded
    PROVE  Base(lg, nt2, st, q, md)
<1>1. PageInv(p) /\ p \in Pages
    BY DEF Base
<1>2. PageInv(q)
    BY <1>1 DEF PageInv
<1>3. Fresher(p, q)
    BY <1>1 DEF Fresher, Pages
<1>. QED  BY <1>2, <1>3, BaseUpdated, Zenon

LEMMA DropStep ==
    ASSUME DocInv, Drop
    PROVE  DocInv'
<1> DEFINE q == [page EXCEPT !.online = FALSE, !.streaming = FALSE, !.inflight = FALSE]
<1>1. /\ page' = q /\ net' \in SUBSET net /\ drops < MaxDrops /\ drops' = drops + 1 /\ page.online
      /\ log' = log /\ store' = store /\ made' = made /\ saved' = saved
    BY DEF Drop
<1>2. /\ Base(log, net, store, page, made) /\ page \in Pages /\ PageInv(page)
    BY InvFields
<1>3. page.open
    BY <1>1, <1>2 DEF PageInv, NewPage
<1>4. /\ q \in Pages /\ q.id = page.id /\ q.open = page.open /\ q.loaded = page.loaded
      /\ q.v = page.v /\ q.text = page.text /\ q.ops = page.ops /\ q.sends = page.sends
      /\ q.puts = page.puts /\ q.seq = page.seq /\ q.asked = page.asked
      /\ q.subscribed = page.subscribed /\ ~q.inflight /\ ~q.streaming /\ ~q.online
      /\ q.owed = page.owed
    BY <1>2 DEF Pages
<1> HIDE DEF q
<1>5. q.subscribed /\ (q.owed => q.loaded)
    BY <1>2, <1>3, <1>4 DEF PageInv
<1>6. Base(log, net', store, q, made)
    BY <1>1, <1>2, <1>3, <1>4, <1>5, BaseSame
<1>7. Flying(q)
    BY <1>4 DEF Flying
<1>8. drops' \in 0 .. MaxDrops
    BY <1>1, BoundsAssumption DEF DocInv
<1>9. Backed(log, net', store, q)
    <2>1. EditsIn(log) \subseteq EditsIn(log)
        OBVIOUS
    <2>. QED  BY <1>1, <1>2, <1>4, <2>1, BackedSame, InvFields
<1>. QED  BY <1>1, <1>6, <1>7, <1>8, <1>9 DEF DocInv, SavedKept

LEMMA ConnectStep ==
    ASSUME DocInv, Connect
    PROVE  DocInv'
<1> DEFINE q == [page EXCEPT !.online = TRUE]
<1>1. /\ page' = Flush(q) /\ net' = net /\ drops' = drops /\ page.open
      /\ log' = log /\ store' = store /\ made' = made /\ saved' = saved
    BY DEF Connect
<1>2. /\ Base(log, net, store, page, made) /\ page \in Pages /\ PageInv(page) /\ net \in SUBSET net
    BY InvFields
<1>3. /\ q \in Pages /\ q.id = page.id /\ q.open = page.open /\ q.loaded = page.loaded
      /\ q.v = page.v /\ q.text = page.text /\ q.ops = page.ops /\ q.sends = page.sends
      /\ q.puts = page.puts /\ q.seq = page.seq /\ q.asked = page.asked
      /\ q.subscribed = page.subscribed /\ q.inflight = page.inflight /\ q.streaming = page.streaming
      /\ q.owed = page.owed
    BY <1>2 DEF Pages
<1> HIDE DEF q
<1>4. q.subscribed /\ (q.owed => q.loaded) /\ (q.streaming => q.loaded)
    BY <1>1, <1>2, <1>3 DEF PageInv
<1>5. Base(log, net, store, q, made)
    BY <1>1, <1>2, <1>3, <1>4, BaseSame
<1>6. Backed(log, net, store, q)
    BY <1>2, <1>3, BackedSame, InvFields
<1>7. /\ Base(log, net, store, Flush(q), made) /\ Flying(Flush(q))
      /\ Backed(log, net, store, Flush(q))
    <2>1. CASE page.loaded
        BY <1>3, <1>5, <1>6, <2>1, FlushBase, FlushBacked
    <2>2. CASE ~page.loaded
        <3>1. q.ops = <<>>
            BY <1>2, <1>3, <2>2 DEF PageInv
        <3>2. Flush(q) = q
            BY <3>1 DEF Flush
        <3>. QED  BY <1>5, <1>6, <3>1, <3>2 DEF Flying
    <2>. QED  BY <2>1, <2>2
<1>. QED  BY <1>1, <1>7 DEF DocInv, SavedKept

LEMMA UpdateLearnedStep ==
    ASSUME DocInv, UpdateLearned
    PROVE  DocInv'
<1> DEFINE q == [page EXCEPT !.owed = FALSE]
           u == UpdateOfflineData(q, FALSE)
<1>1. /\ page' = u /\ net' = net /\ drops' = drops /\ page.owed
      /\ log' = log /\ store' = store /\ made' = made /\ saved' = saved
    BY DEF UpdateLearned
<1>2. /\ Base(log, net, store, page, made) /\ page \in Pages /\ PageInv(page) /\ Flying(page)
      /\ net \in SUBSET net
    BY InvFields
<1>3. page.loaded /\ page.open
    BY <1>1, <1>2 DEF PageInv, NewPage
<1>4. /\ q \in Pages /\ q.id = page.id /\ q.open = page.open /\ q.loaded = page.loaded
      /\ q.v = page.v /\ q.text = page.text /\ q.ops = page.ops /\ q.sends = page.sends
      /\ q.puts = page.puts /\ q.seq = page.seq /\ q.asked = page.asked
      /\ q.subscribed = page.subscribed /\ q.inflight = page.inflight /\ q.streaming = page.streaming
      /\ ~q.owed /\ q.online = page.online
    BY <1>2 DEF Pages
<1> HIDE DEF q
<1>5. q.subscribed /\ (q.streaming => q.loaded)
    BY <1>2, <1>3, <1>4 DEF PageInv
<1>6. Base(log, net, store, q, made)
    BY <1>2, <1>3, <1>4, <1>5, BaseSame
<1>7. Base(log, net, store, u, made)
    BY <1>3, <1>4, <1>6, UpdateBase
<1>8. Flying(u)
    BY <1>2, <1>4, UpdateFields DEF Flying, SameDoc
<1>9. Backed(log, net, store, u)
    <2>1. PageInv(q)
        BY <1>6 DEF Base
    <2>2. Backed(log, net, store, q)
        BY <1>2, <1>4, BackedSame, InvFields
    <2>. QED  BY <1>4, <2>1, <2>2, UpdateBacked
<1>. QED  BY <1>1, <1>7, <1>8, <1>9 DEF DocInv, SavedKept

LEMMA TailFields ==
    ASSUME NEW T, NEW s \in Seq(T), s # <<>>
    PROVE  /\ Tail(s) \in Seq(T) /\ Len(Tail(s)) = Len(s) - 1 /\ Len(s) \in Nat /\ Len(s) >= 1
           /\ DOMAIN Tail(s) = 1 .. Len(s) - 1 /\ DOMAIN s = 1 .. Len(s)
           /\ Head(s) = s[1] /\ s[1] \in T
           /\ \A i \in 1 .. Len(s) - 1 : Tail(s)[i] = s[i + 1]
OBVIOUS

LEMMA TransmitStep ==
    ASSUME DocInv, Transmit
    PROVE  DocInv'
<1> DEFINE q == [page EXCEPT !.sends = Tail(@)]
           m == [op |-> Head(page.sends).op, v |-> Head(page.sends).v]
           T == [op : Ops, v : Nat, after : Nat]
           g == [i \in Nat |-> i]
<1>1. /\ page' = q /\ net' \subseteq net \cup {m} /\ drops' = drops
      /\ page.sends # <<>> /\ Head(page.sends).after = 0
      /\ log' = log /\ store' = store /\ made' = made /\ saved' = saved
    BY DEF Transmit
<1>2. /\ Base(log, net, store, page, made) /\ page \in Pages /\ PageInv(page) /\ Flying(page)
      /\ net \in SUBSET Messages /\ store \in Records
      /\ Bounded(log, Held(store, page), Sent(net, page), made, page)
    BY InvFields DEF Base
<1>3. page.sends \in Seq(T)
    BY <1>2 DEF Pages
<1>4. /\ Tail(page.sends) \in Seq(T) /\ DOMAIN Tail(page.sends) = 1 .. Len(page.sends) - 1
      /\ Len(page.sends) \in Nat /\ Len(page.sends) >= 1 /\ DOMAIN page.sends = 1 .. Len(page.sends)
      /\ Head(page.sends) = page.sends[1]
      /\ \A i \in 1 .. Len(page.sends) - 1 : Tail(page.sends)[i] = page.sends[i + 1]
    BY <1>1, <1>3, TailFields
<1>5. page.open /\ page.loaded
    BY <1>1, <1>2 DEF PageInv, NewPage
<1>6. m \in Messages /\ m.op = page.sends[1].op /\ m.v = page.sends[1].v
    <2>1. page.sends[1].op \in Ops /\ page.sends[1].v \in Nat
        BY <1>2, <1>4, SendsType
    <2>. QED  BY <1>4, <2>1 DEF Messages
<1>7. /\ q \in Pages /\ q.id = page.id /\ q.open = page.open /\ q.loaded = page.loaded
      /\ q.v = page.v /\ q.text = page.text /\ q.ops = page.ops /\ q.sends = Tail(page.sends)
      /\ q.puts = page.puts /\ q.seq = page.seq /\ q.asked = page.asked
      /\ q.subscribed = page.subscribed /\ q.inflight = page.inflight /\ q.streaming = page.streaming
      /\ q.owed = page.owed /\ q.online = page.online
    BY <1>2, <1>4 DEF Pages, T
<1> HIDE DEF q, m, T
<1>8. Top(q) = Top(page) /\ Top(page) \in Nat
    BY <1>2, <1>7, ViewsType DEF Top
<1>9. \A i \in 0 .. Top(q) : View(store, q, i) = View(store, page, i)
    BY <1>7 DEF View, Record
<1>10. Mapped(store, page, store, q, g)
    BY <1>8, <1>9 DEF Mapped
<1>11. Sight(m.op, m.v, 0) \in Sent(net, page)
    <2>1. Sight(page.sends[1].op, page.sends[1].v, page.sends[1].after) \in Sent(net, page)
        BY <1>4 DEF Sent
    <2>. QED  BY <1>1, <1>4, <1>6, <2>1
<1>12. ASSUME NEW y \in Sent(net', q)
       PROVE  y \in Sent(net, page)
    <2>1. CASE \E n \in net' : y = Sight(n.op, n.v, 0)
        <3>1. PICK n \in net' : y = Sight(n.op, n.v, 0)
            BY <2>1
        <3>2. CASE n \in net
            BY <3>1, <3>2 DEF Sent
        <3>3. CASE n = m
            BY <1>11, <3>1, <3>3
        <3>. QED  BY <1>1, <3>2, <3>3
    <2>2. CASE \E i \in DOMAIN q.sends : y = Sight(q.sends[i].op, q.sends[i].v, q.sends[i].after)
        <3>1. PICK i \in DOMAIN q.sends : y = Sight(q.sends[i].op, q.sends[i].v, q.sends[i].after)
            BY <2>2
        <3>2. i \in 1 .. Len(page.sends) - 1 /\ i + 1 \in DOMAIN page.sends /\ q.sends[i] = page.sends[i + 1]
            BY <1>4, <1>7, <3>1
        <3>. QED  BY <3>1, <3>2 DEF Sent
    <2>. QED  BY <2>1, <2>2, SentFrom
<1>13. ASSUME NEW y \in Sent(net', q)
       PROVE  /\ y.at <= Top(q)
              /\ \E x \in WithNumber(Held(store, page)) \cup Sent(net, page) :
                     x.op = y.op /\ x.v = y.v /\ x.at <= g[y.at]
    <2>1. y \in Sent(net, page)
        BY <1>12
    <2>2. y.at \in Nat /\ y.at <= Top(page)
        BY <1>2, <2>1, SentType DEF Bounded
    <2>. QED  BY <1>8, <2>1, <2>2
<1>14. PageInv(q)
    <2>1. \A i \in DOMAIN q.sends : q.sends[i].after <= Len(q.puts)
        <3>1. ASSUME NEW i \in DOMAIN q.sends
              PROVE  i + 1 \in DOMAIN page.sends /\ q.sends[i] = page.sends[i + 1]
            BY <1>4, <1>7
        <3>. QED  BY <1>2, <1>7, <3>1 DEF PageInv
    <2>. QED  BY <1>2, <1>5, <1>7, <2>1 DEF PageInv
<1>15. Fresher(page, q)
    BY <1>2, <1>7 DEF Fresher, Pages
<1>16. net' \in SUBSET Messages
    BY <1>1, <1>2, <1>6
<1> HIDE DEF g
<1>17. Base(log, net', store, q, made)
    BY <1>2, <1>7, <1>10, <1>13, <1>14, <1>15, <1>16, BaseMapped, Zenon
<1>18. Flying(q)
    BY <1>2, <1>7 DEF Flying
<1>19. Backed(log, net', store, q)
    <2>1. \A y \in Sent(net', q) : y \in Sent(net, page) /\ View(store, q, y.at).ops = View(store, page, y.at).ops
        BY <1>7, <1>12 DEF View, Record
    <2>. QED  BY <2>1, BackedMono, InvFields
<1>. QED  BY <1>1, <1>17, <1>18, <1>19 DEF DocInv, SavedKept

LEMMA PutDoneStep ==
    ASSUME DocInv, PutDone
    PROVE  DocInv'
<1> DEFINE sends == [i \in DOMAIN page.sends |->
                        [page.sends[i] EXCEPT !.after =
                            IF page.sends[i].after = 0 THEN 0 ELSE page.sends[i].after - 1]]
           q == [page EXCEPT !.puts = Tail(page.puts), !.sends = sends]
           T == [op : Ops, v : Nat, after : Nat]
           g == [i \in Nat |-> i + 1]
<1>1. /\ page' = q /\ net' = net /\ drops' = drops
      /\ page.puts # <<>> /\ saved' = saved \cup EditsIn(Head(page.puts).ops)
      /\ log' = log /\ store' = Head(page.puts) /\ made' = made
    BY DEF PutDone
<1>2. /\ Base(log, net, store, page, made) /\ page \in Pages /\ PageInv(page) /\ Flying(page)
      /\ net \in SUBSET Messages /\ store \in Records
      /\ Bounded(log, Held(store, page), Sent(net, page), made, page)
      /\ ViewsInv(log, store, page)
    BY InvFields DEF Base
<1>3. page.puts \in Seq(Records)
    BY <1>2 DEF Pages
<1>4. /\ Tail(page.puts) \in Seq(Records) /\ Len(Tail(page.puts)) = Len(page.puts) - 1
      /\ Len(page.puts) \in Nat /\ Len(page.puts) >= 1
      /\ DOMAIN Tail(page.puts) = 1 .. Len(page.puts) - 1 /\ DOMAIN page.puts = 1 .. Len(page.puts)
      /\ Head(page.puts) = page.puts[1] /\ page.puts[1] \in Records
      /\ \A i \in 1 .. Len(page.puts) - 1 : Tail(page.puts)[i] = page.puts[i + 1]
    BY <1>1, <1>3, TailFields
<1>5. page.open /\ page.loaded
    BY <1>1, <1>2 DEF PageInv, NewPage
<1>6. ASSUME NEW i \in DOMAIN page.sends
      PROVE  /\ sends[i] \in T /\ sends[i].op = page.sends[i].op /\ sends[i].v = page.sends[i].v
             /\ page.sends[i].after <= sends[i].after + 1
             /\ sends[i].after <= Len(page.puts) - 1 /\ sends[i].after \in Nat
    <2>1. page.sends \in Seq(T)
        BY <1>2 DEF Pages
    <2>2. page.sends[i] \in T
        <3> HIDE DEF T
        <3>. QED  BY <2>1
    <2>3. page.sends[i].after <= Len(page.puts)
        BY <1>2 DEF PageInv
    <2>. QED  BY <1>4, <2>2, <2>3
<1>7. sends \in Seq(T) /\ DOMAIN sends = DOMAIN page.sends
    <2>1. page.sends \in Seq(T)
        BY <1>2 DEF Pages
    <2>2. \A i \in DOMAIN page.sends : sends[i] \in T
        BY <1>6
    <2>3. DOMAIN page.sends = 1 .. Len(page.sends) /\ Len(page.sends) \in Nat
        BY <2>1
    <2>4. DOMAIN sends = DOMAIN page.sends
        OBVIOUS
    <2> HIDE DEF T
    <2>5. sends \in [1 .. Len(page.sends) -> T]
        BY <2>2, <2>3
    <2> HIDE DEF sends
    <2>. QED  BY <2>3, <2>4, <2>5, SeqDef
<1> HIDE DEF sends
<1>8. /\ q \in Pages /\ q.id = page.id /\ q.open = page.open /\ q.loaded = page.loaded
      /\ q.v = page.v /\ q.text = page.text /\ q.ops = page.ops /\ q.sends = sends
      /\ q.puts = Tail(page.puts) /\ q.seq = page.seq /\ q.asked = page.asked
      /\ q.subscribed = page.subscribed /\ q.inflight = page.inflight /\ q.streaming = page.streaming
      /\ q.owed = page.owed /\ q.online = page.online
    BY <1>2, <1>4, <1>7 DEF Pages
<1> HIDE DEF q, T
<1>9. Top(page) = Len(page.puts) + 1 /\ Top(q) = Len(page.puts)
    BY <1>4, <1>5, <1>8 DEF Top
<1>10. \A i \in 0 .. Top(q) : View(store', q, i) = View(store, page, i + 1)
    <2>1. Record(q) = Record(page)
        BY <1>8 DEF Record
    <2>. QED  BY <1>1, <1>4, <1>8, <1>9, <2>1 DEF View
<1>11. Mapped(store, page, store', q, g)
    BY <1>4, <1>9, <1>10 DEF Mapped
<1>12. ASSUME NEW y \in Sent(net, q)
       PROVE  /\ y.at <= Top(q)
              /\ \E x \in WithNumber(Held(store, page)) \cup Sent(net, page) :
                     x.op = y.op /\ x.v = y.v /\ x.at <= g[y.at]
    <2>1. CASE \E n \in net : y = Sight(n.op, n.v, 0)
        <3>1. y \in Sent(net, page)
            BY <2>1 DEF Sent
        <3>2. y.at = 0
            BY <2>1, SightFields
        <3>. QED  BY <1>4, <1>9, <3>1, <3>2
    <2>2. CASE \E i \in DOMAIN q.sends : y = Sight(q.sends[i].op, q.sends[i].v, q.sends[i].after)
        <3>1. PICK i \in DOMAIN sends : y = Sight(sends[i].op, sends[i].v, sends[i].after)
            BY <1>8, <2>2
        <3> DEFINE x == Sight(page.sends[i].op, page.sends[i].v, page.sends[i].after)
        <3>2. i \in DOMAIN page.sends /\ x \in Sent(net, page)
            BY <1>7 DEF Sent
        <3>3. /\ x.op = page.sends[i].op /\ x.v = page.sends[i].v /\ x.at = page.sends[i].after
              /\ y.op = sends[i].op /\ y.v = sends[i].v /\ y.at = sends[i].after
            BY <3>1, SightFields
        <3> HIDE DEF x
        <3>4. x.op = y.op /\ x.v = y.v /\ x.at <= y.at + 1 /\ y.at \in Nat /\ y.at <= Len(page.puts) - 1
            BY <1>6, <3>2, <3>3
        <3>6. g[y.at] = y.at + 1
            BY <3>4
        <3>7. x.at <= g[y.at]
            BY <3>4, <3>6
        <3>8. y.at <= Top(q)
            <4>1. Len(page.puts) \in Nat /\ Top(q) = Len(page.puts)
                BY <1>4, <1>9
            <4>. QED  BY <3>4, <4>1
        <3>. QED  BY <3>2, <3>4, <3>7, <3>8
    <2>. QED  BY <2>1, <2>2, SentFrom
<1>13. PageInv(q)
    <2>1. \A i \in DOMAIN q.sends : q.sends[i].after <= Len(q.puts)
        BY <1>4, <1>6, <1>7, <1>8
    <2>. QED  BY <1>2, <1>5, <1>8, <2>1 DEF PageInv
<1>14. Fresher(page, q)
    BY <1>2, <1>8 DEF Fresher, Pages
<1>15. store' \in Records
    BY <1>1, <1>4
<1> HIDE DEF g
<1>16. Base(log, net, store', q, made)
    BY <1>2, <1>8, <1>11, <1>12, <1>13, <1>14, <1>15, BaseMapped, Zenon
<1>17. Flying(q)
    BY <1>2, <1>8 DEF Flying
<1>18. View(store, page, 0) = store /\ View(store, page, 1) = Head(page.puts) /\ 1 \in 1 .. Top(page)
    BY <1>4, <1>9 DEF View
<1>19. EditsIn(store.ops) \subseteq EditsIn(log) \cup EditsIn(Head(page.puts).ops)
    <2>1. EditsIn(View(store, page, 0).ops) \subseteq EditsIn(log) \cup EditsIn(View(store, page, 1).ops)
        BY <1>2, <1>4, <1>9, <1>18 DEF ViewsInv
    <2>. QED  BY <1>18, <2>1
<1>20. EditsIn(Head(page.puts).ops) \subseteq made
    <2>1. SUFFICES ASSUME NEW k \in DOMAIN Head(page.puts).ops
                   PROVE  Head(page.puts).ops[k].edits \subseteq made
        BY DEF EditsIn
    <2> DEFINE x == Sight(Head(page.puts).ops[k], Head(page.puts).v, 1)
    <2>2. x \in Held(store, page)
        BY <1>9, <1>18, HeldIn
    <2>3. x.op = Head(page.puts).ops[k]
        BY SightFields
    <2> HIDE DEF x
    <2>. QED  BY <1>2, <2>2, <2>3 DEF Bounded
<1>21. SavedKept'
    BY <1>1, <1>19 DEF DocInv, SavedKept
<1>22. Backed(log, net, store', q)
    <2>1. ASSUME NEW y \in Sent(net, q)
          PROVE  \E x \in Sent(net, page) :
                     /\ x.op = y.op
                     /\ EditsIn(View(store, page, x.at).ops) \subseteq
                            EditsIn(log) \cup EditsIn(View(store', q, y.at).ops)
        <3>1. CASE \E n \in net : y = Sight(n.op, n.v, 0)
            <4>1. y \in Sent(net, page) /\ y.at = 0
                BY <3>1, SightFields DEF Sent
            <4>2. View(store', q, 0) = Head(page.puts)
                BY <1>1 DEF View
            <4>. QED  BY <1>18, <1>19, <4>1, <4>2
        <3>2. CASE \E i \in DOMAIN q.sends : y = Sight(q.sends[i].op, q.sends[i].v, q.sends[i].after)
            <4>1. PICK i \in DOMAIN sends : y = Sight(sends[i].op, sends[i].v, sends[i].after)
                BY <1>8, <3>2
            <4> DEFINE x == Sight(page.sends[i].op, page.sends[i].v, page.sends[i].after)
            <4>2. i \in DOMAIN page.sends /\ x \in Sent(net, page)
                BY <1>7 DEF Sent
            <4>3. /\ x.op = page.sends[i].op /\ x.at = page.sends[i].after /\ x.at \in Nat
                  /\ y.op = sends[i].op /\ y.at = sends[i].after
                BY <1>2, <4>1, <4>2, SendsType, SightFields
            <4> HIDE DEF x
            <4>4. /\ x.op = y.op /\ y.at \in 0 .. Top(q)
                  /\ x.at = y.at + 1 \/ (x.at = 0 /\ y.at = 0)
                <5>1. sends[i].after = IF page.sends[i].after = 0 THEN 0 ELSE page.sends[i].after - 1
                    <6>1. page.sends \in Seq(T)
                        BY <1>2 DEF Pages, T
                    <6>2. page.sends[i] \in T
                        BY <4>2, <6>1
                    <6>. QED  BY <4>2, <6>2 DEF sends, T
                <5>2. sends[i].op = page.sends[i].op /\ sends[i].after \in Nat /\ sends[i].after <= Len(page.puts) - 1
                    BY <1>6, <4>2
                <5>. QED  BY <1>4, <1>9, <4>3, <5>1, <5>2
            <4>5. View(store', q, y.at) = View(store, page, y.at + 1)
                BY <1>10, <4>4
            <4>6. View(store', q, 0) = Head(page.puts)
                BY <1>1 DEF View
            <4>. QED  BY <1>18, <1>19, <4>2, <4>4, <4>5, <4>6
        <3>. QED  BY <3>1, <3>2, SentFrom
    <2>. QED  BY <2>1, BackedMono, InvFields
<1>. QED  BY <1>1, <1>16, <1>17, <1>20, <1>21, <1>22 DEF DocInv

\* A page's queue is sent, and the record updated, whether or not it has loaded the document.
Loaded(p) == [p EXCEPT !.loaded = TRUE, !.asked = TRUE]

LEMMA LoadedFields ==
    ASSUME NEW p \in Pages
    PROVE  LET q == Loaded(p)
           IN  /\ q \in Pages /\ q.id = p.id /\ q.open = p.open /\ q.loaded = TRUE
               /\ q.online = p.online /\ q.subscribed = p.subscribed /\ q.asked = TRUE
               /\ q.streaming = p.streaming /\ q.v = p.v /\ q.text = p.text /\ q.ops = p.ops
               /\ q.inflight = p.inflight /\ q.seq = p.seq /\ q.offlineV = p.offlineV
               /\ q.puts = p.puts /\ q.sends = p.sends /\ q.owed = p.owed
BY DEF Loaded, Pages

LEMMA UpdateLoaded ==
    ASSUME NEW p \in Pages, NEW force \in BOOLEAN
    PROVE  Loaded(UpdateOfflineData(p, force)) = UpdateOfflineData(Loaded(p), force)
<1> DEFINE q == Loaded(p)
           r == Append(p.puts, Record(p))
<1>1. q.v = p.v /\ q.subscribed = p.subscribed /\ q.ops = p.ops /\ q.offlineV = p.offlineV
      /\ q.puts = p.puts /\ q.text = p.text
    BY LoadedFields
<1>2. Record(q) = Record(p)
    BY <1>1 DEF Record
<1>3. [q EXCEPT !.puts = r, !.offlineV = p.v] = Loaded([p EXCEPT !.puts = r, !.offlineV = p.v])
    BY DEF Loaded, Pages
<1>4. UpdateOfflineData(p, force) = p \/ UpdateOfflineData(p, force) = [p EXCEPT !.puts = r, !.offlineV = p.v]
    BY DEF UpdateOfflineData
<1> HIDE DEF q
<1>5. UpdateOfflineData(q, force) = IF \/ p.v = Unloaded
                                       \/ ~force /\ ~p.subscribed
                                       \/ p.ops = <<>> /\ p.v = p.offlineV
                                    THEN q
                                    ELSE [q EXCEPT !.puts = r, !.offlineV = p.v]
    BY <1>1, <1>2 DEF UpdateOfflineData
<1>6. UpdateOfflineData(p, force) = IF \/ p.v = Unloaded
                                       \/ ~force /\ ~p.subscribed
                                       \/ p.ops = <<>> /\ p.v = p.offlineV
                                    THEN p
                                    ELSE [p EXCEPT !.puts = r, !.offlineV = p.v]
    BY DEF UpdateOfflineData
<1> HIDE DEF r
<1>. QED  BY <1>3, <1>5, <1>6 DEF q

LEMMA NumberedLoaded ==
    ASSUME NEW p \in Pages, p.ops # <<>>
    PROVE  Numbered(p) \in Pages /\ Loaded(Numbered(p)) = Numbered(Loaded(p))
<1> DEFINE q == Loaded(p)
           ops == <<[Head(p.ops) EXCEPT !.src = p.id, !.seq = p.seq]>> \o Tail(p.ops)
<1>1. q.ops = p.ops /\ q.id = p.id /\ q.seq = p.seq
    BY LoadedFields
<1>2. Numbered(p) = IF Head(p.ops).seq = 0
                    THEN [p EXCEPT !.ops = ops, !.seq = p.seq + 1, !.inflight = TRUE]
                    ELSE [p EXCEPT !.inflight = TRUE]
    BY DEF Numbered
<1>3. Numbered(q) = IF Head(p.ops).seq = 0
                    THEN [q EXCEPT !.ops = ops, !.seq = p.seq + 1, !.inflight = TRUE]
                    ELSE [q EXCEPT !.inflight = TRUE]
    <2> HIDE DEF q
    <2>. QED  BY <1>1 DEF Numbered
<1> HIDE DEF ops
<1>4. Loaded([p EXCEPT !.inflight = TRUE]) = [q EXCEPT !.inflight = TRUE]
    BY DEF Loaded, Pages
<1>5. Loaded([p EXCEPT !.ops = ops, !.seq = p.seq + 1, !.inflight = TRUE]) =
          [q EXCEPT !.ops = ops, !.seq = p.seq + 1, !.inflight = TRUE]
    BY DEF Loaded, Pages
<1>6. Numbered(p) \in Pages
    <2>1. CASE Head(p.ops).seq = 0
        BY <2>1, NumberFields
    <2>2. CASE Head(p.ops).seq # 0
        BY <1>2, <2>2 DEF Pages
    <2>. QED  BY <2>1, <2>2
<1>. QED  BY <1>2, <1>3, <1>4, <1>5, <1>6

LEMMA FlushLoaded ==
    ASSUME NEW p \in Pages, p.puts = <<>>, p.sends = <<>>
    PROVE  Loaded(Flush(p)) = Flush(Loaded(p))
<1> DEFINE q == Loaded(p)
<1>1. q.online = p.online /\ q.inflight = p.inflight /\ q.ops = p.ops /\ q.puts = p.puts /\ q.v = p.v
      /\ q \in Pages
    BY LoadedFields
<1>2. CASE ~(p.online /\ ~p.inflight /\ p.ops # <<>>)
    BY <1>1, <1>2 DEF Flush
<1>3. CASE p.online /\ ~p.inflight /\ p.ops # <<>>
    <2> DEFINE n == Numbered(p)
               u == UpdateOfflineData(n, FALSE)
               n2 == Numbered(q)
               u2 == UpdateOfflineData(n2, FALSE)
    <2>1. n \in Pages /\ n2 = Loaded(n)
        BY <1>3, NumberedLoaded
    <2>2. n2.ops = n.ops
        BY <2>1, LoadedFields
    <2> HIDE DEF n, n2
    <2>3. u \in Pages /\ u2 = Loaded(u)
        BY <2>1, UpdateFields, UpdateLoaded
    <2> HIDE DEF u, u2
    <2>4. u2.puts = u.puts /\ u2.sends = u.sends
        BY <2>3, LoadedFields
    <2> DEFINE m == [op |-> Head(n.ops), v |-> p.v,
                     after |-> IF u.puts = p.puts THEN 0 ELSE Len(u.puts)]
    <2>5. Send(p) = [u EXCEPT !.sends = Append(u.sends, m)]
        BY DEF Send, n, u
    <2>6. Send(q) = [u2 EXCEPT !.sends = Append(u.sends, m)]
        BY <1>1, <2>2, <2>4 DEF Send, n2, u2
    <2> HIDE DEF m
    <2>7. Loaded([u EXCEPT !.sends = Append(u.sends, m)]) = [Loaded(u) EXCEPT !.sends = Append(u.sends, m)]
        BY <2>3 DEF Loaded, Pages
    <2>8. Flush(p) = Send(p) /\ Flush(q) = Send(q)
        BY <1>1, <1>3 DEF Flush
    <2>. QED  BY <2>3, <2>5, <2>6, <2>7, <2>8
<1>. QED  BY <1>2, <1>3

LEMMA FlushType ==
    ASSUME NEW p \in Pages, p.ops # <<>> => p.v # Unloaded
    PROVE  Flush(p) \in Pages
<1> SUFFICES ASSUME p.ops # <<>>, Flush(p) = Send(p)
             PROVE  Send(p) \in Pages
    BY DEF Flush
<1> DEFINE n == Numbered(p)
           u == UpdateOfflineData(n, FALSE)
           a == IF u.puts = p.puts THEN 0 ELSE Len(u.puts)
           m == [op |-> Head(n.ops), v |-> p.v, after |-> a]
           T == [op : Ops, v : Nat, after : Nat]
<1>1. n \in Pages
    BY NumberedLoaded
<1>2. n.ops # <<>>
    <2>1. CASE Head(p.ops).seq = 0
        <3>1. Len(n.ops) = Len(p.ops)
            BY <2>1, NumberFields
        <3>2. n.ops \in Seq(Ops) /\ p.ops \in Seq(Ops)
            BY <1>1 DEF Pages
        <3> HIDE DEF n
        <3>. QED  BY <3>1, <3>2
    <2>2. CASE Head(p.ops).seq # 0
        <3>1. n = [p EXCEPT !.inflight = TRUE]
            BY <2>2 DEF Numbered
        <3>. QED  BY <3>1 DEF Pages
    <2>. QED  BY <2>1, <2>2
<1> HIDE DEF n
<1>3. u \in Pages
    BY <1>1, UpdateFields
<1> HIDE DEF u
<1>4. p.v \in Nat
    BY DEF Pages
<1>5. Head(n.ops) \in Ops
    BY <1>1, <1>2 DEF Pages
<1>6. a \in Nat
    <2>1. u.puts \in Seq(Records)
        BY <1>3 DEF Pages
    <2>. QED  BY <2>1
<1> HIDE DEF a
<1>7. m \in T
    BY <1>4, <1>5, <1>6
<1>8. u.sends \in Seq(T)
    BY <1>3 DEF Pages
<1> HIDE DEF m, T
<1>9. Append(u.sends, m) \in Seq(T)
    BY <1>7, <1>8, AppendProperties
<1>10. [u EXCEPT !.sends = Append(u.sends, m)] \in Pages
    BY <1>3, <1>9 DEF Pages, T
<1>. QED  BY <1>10 DEF Send, n, u, a, m

\* What the record has, the page has.
LEMMA RestoreBase ==
    ASSUME NEW lg, NEW nt, NEW st, NEW p, NEW md, NEW q \in Pages,
           Base(lg, nt, st, p, md), p.open, ~p.loaded,
           q.id = p.id, q.open = p.open, q.loaded, q.asked, q.v = st.v, q.text = st.text, q.ops = st.ops,
           q.sends = p.sends, q.puts = p.puts, q.seq = p.seq, q.subscribed = p.subscribed,
           q.inflight = p.inflight
    PROVE  Base(lg, nt, st, q, md)
<1> DEFINE g == [i \in Nat |-> 0]
<1>1. /\ nt \in SUBSET Messages /\ st \in Records /\ p \in Pages /\ PageInv(p)
      /\ Bounded(lg, Held(st, p), Sent(nt, p), md, p)
    BY DEF Base
<1>2. p.puts = <<>> /\ p.sends = <<>> /\ ~p.inflight /\ p.subscribed /\ p.seq >= 1
    BY <1>1 DEF PageInv
<1>3. Top(q) = 1 /\ Top(p) = 0 /\ View(st, q, 0) = st /\ View(st, p, 0) = st
    BY <1>2 DEF Top, View
<1>4. View(st, q, 1) = st
    <2>1. Record(q) = st
        BY <1>1 DEF Record, Records
    <2>. QED  BY <1>2, <2>1 DEF View
<1>5. Mapped(st, p, st, q, g)
    <2>1. \A i \in 0 .. Top(q) : i = 0 \/ i = 1
        BY <1>3
    <2>2. \A i \in 0 .. Top(q) : g[i] \in 0 .. Top(p) /\ View(st, q, i) = View(st, p, g[i])
        BY <1>3, <1>4, <2>1
    <2>. QED  BY <1>3, <2>2 DEF Mapped
<1>6. ASSUME NEW y \in Sent(nt, q)
      PROVE  /\ y.at <= Top(q)
             /\ \E x \in WithNumber(Held(st, p)) \cup Sent(nt, p) :
                    x.op = y.op /\ x.v = y.v /\ x.at <= g[y.at]
    <2>1. PICK m \in nt : y = Sight(m.op, m.v, 0)
        <3>1. ~ \E i \in DOMAIN q.sends : TRUE
            BY <1>2
        <3>. QED  BY <3>1, SentFrom
    <2>2. y \in Sent(nt, p) /\ y.at = 0
        BY <2>1, SightFields DEF Sent
    <2>. QED  BY <1>3, <2>2
<1>7. Fresher(p, q)
    BY <1>1 DEF Fresher, Pages
<1>8. PageInv(q)
    <2>1. ~ \E i \in DOMAIN q.sends : TRUE
        BY <1>2
    <2>. QED  BY <1>2, <2>1 DEF PageInv
<1> HIDE DEF g
<1>. QED  BY <1>1, <1>5, <1>6, <1>7, <1>8, BaseMapped, Zenon

LEMMA LoadOfflineStep ==
    ASSUME DocInv, LoadOffline
    PROVE  DocInv'
<1> DEFINE r == [page EXCEPT !.v = store.v, !.text = store.text, !.offlineV = store.v,
                             !.ops = store.ops]
           f == Flush(Loaded(r))
           u == UpdateOfflineData(f, FALSE)
<1>1. /\ page.open /\ ~page.loaded
      /\ page' = Loaded(UpdateOfflineData(Flush(r), FALSE))
      /\ net' = net /\ drops' = drops
      /\ log' = log /\ store' = store /\ made' = made /\ saved' = saved
    BY DEF LoadOffline, Loaded
<1>2. /\ Base(log, net, store, page, made) /\ page \in Pages /\ PageInv(page) /\ store \in Records
    BY InvFields
<1>3. page.puts = <<>> /\ page.sends = <<>>
    BY <1>1, <1>2 DEF PageInv
<1>4. /\ r \in Pages /\ r.id = page.id /\ r.open = page.open /\ r.v = store.v
      /\ r.text = store.text /\ r.ops = store.ops /\ r.sends = page.sends /\ r.puts = page.puts
      /\ r.seq = page.seq /\ r.subscribed = page.subscribed /\ r.inflight = page.inflight
    BY <1>2 DEF Pages, Records
<1> HIDE DEF r
<1> DEFINE q == Loaded(r)
<1>5. /\ q \in Pages /\ q.id = page.id /\ q.open = page.open /\ q.loaded /\ q.asked /\ q.v = store.v
      /\ q.text = store.text /\ q.ops = store.ops /\ q.sends = page.sends /\ q.puts = page.puts
      /\ q.seq = page.seq /\ q.subscribed = page.subscribed /\ q.inflight = page.inflight
    BY <1>4, LoadedFields
<1>6. f = Loaded(Flush(r))
    BY <1>3, <1>4, FlushLoaded
<1> HIDE DEF q
<1>7. Base(log, net, store, q, made)
    BY <1>1, <1>2, <1>5, RestoreBase
<1>8. /\ Base(log, net, store, f, made) /\ Flying(f) /\ f.loaded
      /\ Backed(log, net, store, f)
    <2>1. Backed(log, net, store, q)
        <3>1. net \in SUBSET net
            OBVIOUS
        <3>. QED  BY <1>3, <1>5, <3>1, BackedEmpty, InvFields
    <2>. QED  BY <1>5, <1>7, <2>1, FlushBase, FlushBacked DEF q
<1>9. f \in Pages
    BY <1>8 DEF Base
<1>10. Flush(r) \in Pages
    <2>1. View(store, page, 0) = store /\ 0 \in 0 .. Top(page)
        BY <1>1 DEF View, Top
    <2>2. Sound(log, store)
        BY <1>2, <2>1 DEF Base, ViewsInv
    <2>3. r.ops # <<>> => r.v # Unloaded
        BY <1>4, <2>2 DEF Sound
    <2>. QED  BY <1>4, <2>3, FlushType
<1> HIDE DEF f
<1>11. page' = u
    BY <1>1, <1>6, <1>10, UpdateLoaded
<1>12. Base(log, net, store, u, made) /\ Flying(u) /\ Backed(log, net, store, u)
    <2>1. Base(log, net, store, u, made)
        BY <1>8, UpdateBase
    <2>2. Flying(u)
        BY <1>8, <1>9, UpdateFields DEF Flying, SameDoc
    <2>3. Backed(log, net, store, u)
        <3>1. PageInv(f)
            BY <1>8 DEF Base
        <3>. QED  BY <1>8, <1>9, <3>1, UpdateBacked
    <2>. QED  BY <2>1, <2>2, <2>3
<1>. QED  BY <1>1, <1>11, <1>12 DEF DocInv, SavedKept

LEMMA TopSound ==
    ASSUME NEW lg, NEW nt, NEW st, NEW p, NEW md, Base(lg, nt, st, p, md), p.loaded
    PROVE  Sound(lg, Record(p)) /\ Record(p).v = p.v /\ Record(p).ops = p.ops /\ Record(p).text = p.text
<1>1. p \in Pages /\ ViewsInv(lg, st, p)
    BY DEF Base
<1>2. Top(p) \in 0 .. Top(p) /\ View(st, p, Top(p)) = Record(p)
    BY <1>1, TopView
<1>. QED  BY <1>1, <1>2 DEF ViewsInv, Record

\* Only what the page would store has changed.
LEMMA BaseTop ==
    ASSUME NEW lg, NEW nt, NEW st, NEW p, NEW md, NEW q \in Pages,
           Base(lg, nt, st, p, md), p.loaded, q.loaded, q.puts = p.puts, q.sends = p.sends,
           Fresher(p, q), PageInv(q), Sound(lg, Record(q)),
           Core(lg, Held(st, q), Sent(nt, p)),
           \A k \in DOMAIN q.ops : q.v <= Len(lg) /\ \E l \in DOMAIN p.ops : q.ops[k] = p.ops[l],
           EditsIn(p.ops) \subseteq EditsIn(lg) \cup EditsIn(q.ops)
    PROVE  Base(lg, nt, st, q, md)
<1> DEFINE H == Held(st, p)
           H2 == Held(st, q)
           S == Sent(nt, p)
<1>1. /\ lg \in Seq(Ops) /\ nt \in SUBSET Messages /\ st \in Records /\ p \in Pages /\ md \subseteq Edits
      /\ Bounded(lg, H, S, md, p) /\ LogInv(lg, md, p) /\ ViewsInv(lg, st, p)
    BY DEF Base
<1>2. Sent(nt, q) = S
    BY DEF Sent
<1>3. Top(q) = Top(p) /\ Top(p) \in Nat
    BY <1>1, TopView, Zenon
<1>4. ASSUME NEW op \in Ops, op.seq # 0,
             op.src < p.id \/ (op.src = p.id /\ (p.open => op.seq < p.seq))
      PROVE  op.src < q.id \/ (op.src = q.id /\ (q.open => op.seq < q.seq))
    BY <1>1, <1>4 DEF Fresher, Ops, Pages
<1>5. LogInv(lg, md, q)
    <2>1. \A j \in DOMAIN lg : lg[j] \in Ops
        BY <1>1
    <2>. QED  BY <1>1, <1>4, <2>1 DEF LogInv
<1>6. \A x \in H2 \cup S : \E y \in H \cup S :
          x.op = y.op /\ x.at = y.at /\ (x.v = y.v \/ x.v <= Len(lg))
    <2>1. ASSUME NEW x \in H2
          PROVE  x \in H \/ \E y \in H : x.op = y.op /\ x.at = y.at /\ x.v <= Len(lg)
        <3>1. CASE x \in Held(st, p) /\ x.at < Top(p)
            BY <3>1
        <3>2. CASE \E k \in DOMAIN q.ops : x = Sight(q.ops[k], q.v, Top(p))
            <4>1. PICK k \in DOMAIN q.ops : x = Sight(q.ops[k], q.v, Top(p))
                BY <3>2
            <4>2. PICK l \in DOMAIN p.ops : q.ops[k] = p.ops[l]
                OBVIOUS
            <4>3. Sight(p.ops[l], p.v, Top(p)) \in H
                BY <1>1, HeldOwn
            <4>. QED  BY <4>1, <4>2, <4>3, SightFields
        <3>3. x \in Held(st, q)
            OBVIOUS
        <3>. QED  BY <1>1, <3>1, <3>2, <3>3, HeldTop
    <2>. QED  BY <2>1
<1>7. Bounded(lg, H2, S, md, q)
    <2>1. \A y \in H \cup S : y.op \in Ops
        BY <1>1, HeldType, SentType
    <2> HIDE DEF H, H2, S
    <2>2. SUFFICES ASSUME NEW x \in H2 \cup S
                   PROVE  /\ x.at <= Top(q) /\ x.v <= Len(lg) /\ x.op.edits \subseteq md
                          /\ x.op.seq # 0 => x.op.src < q.id \/
                                              (x.op.src = q.id /\ (q.open => x.op.seq < q.seq))
        BY DEF Bounded
    <2>3. PICK y \in H \cup S : x.op = y.op /\ x.at = y.at /\ (x.v = y.v \/ x.v <= Len(lg))
        BY <1>6
    <2>4. /\ y.at <= Top(p) /\ y.v <= Len(lg) /\ y.op.edits \subseteq md
          /\ y.op.seq # 0 => y.op.src < p.id \/ (y.op.src = p.id /\ (p.open => y.op.seq < p.seq))
        BY <1>1 DEF Bounded
    <2>. QED  BY <1>3, <1>4, <2>1, <2>3, <2>4
<1>8. ViewsInv(lg, st, q)
    BY <1>1, ViewsTop
<1> HIDE DEF H, H2, S
<1>. QED  BY <1>1, <1>2, <1>5, <1>7, <1>8 DEF Base, H2, S

LEMMA CoreSub ==
    ASSUME NEW lg, NEW H, NEW S, NEW H2, Core(lg, H, S), \A x \in H2 : x \in H
    PROVE  Core(lg, H2, S)
<1>1. \A x \in WithNumber(H2) \cup S : x \in WithNumber(H) \cup S
    BY DEF WithNumber
<1>2. \A x \in Raw(H2) : x \in Raw(H)
    BY DEF Raw
<1>. QED  BY <1>1, <1>2, Zenon DEF Core

LEMMA SubscribedStep ==
    ASSUME DocInv, Subscribed
    PROVE  DocInv'
<1> DEFINE v == IF page.v = Unloaded THEN Len(log) ELSE page.v
           text == IF page.v = Unloaded THEN EditsIn(log) ELSE page.text
           owed == page.owed \/ (page.v = Unloaded /\ page.subscribed)
           q == [page EXCEPT !.streaming = TRUE, !.subscribed = TRUE,
                            !.v = v, !.text = text, !.owed = owed]
<1>1. /\ page' = q /\ net' = net /\ drops' = drops /\ page.asked /\ page.online
      /\ log' = log /\ store' = store /\ made' = made /\ saved' = saved
    BY DEF Subscribed
<1>2. /\ Base(log, net, store, page, made) /\ page \in Pages /\ PageInv(page) /\ Flying(page)
      /\ net \in SUBSET net /\ log \in Seq(Ops) /\ made \subseteq Edits
      /\ LogInv(log, made, page) /\ Core(log, Held(store, page), Sent(net, page))
      /\ net \in SUBSET Messages /\ store \in Records
    BY InvFields DEF Base
<1>3. page.loaded /\ page.open
    BY <1>1, <1>2 DEF PageInv, NewPage
<1>4. EditsIn(log) \subseteq Edits \cup OtherEdits
    BY <1>2 DEF LogInv, EditsIn
<1>5. /\ v \in Nat \cup {Unloaded} /\ text \in SUBSET (Edits \cup OtherEdits) /\ owed \in BOOLEAN
      /\ page.v # Unloaded => v = page.v /\ text = page.text
      /\ page.v = Unloaded => v = Len(log) /\ text = EditsIn(log)
    BY <1>2, <1>4 DEF Pages
<1> HIDE DEF v, text, owed
<1>6. /\ q \in Pages /\ q.id = page.id /\ q.open = page.open /\ q.loaded = page.loaded
      /\ q.v = v /\ q.text = text /\ q.ops = page.ops /\ q.sends = page.sends
      /\ q.puts = page.puts /\ q.seq = page.seq /\ q.asked = page.asked
      /\ q.subscribed /\ q.inflight = page.inflight /\ q.online = page.online
    BY <1>2, <1>5 DEF Pages
<1> HIDE DEF q
<1>7. Base(log, net, store, q, made)
    <2>1. CASE page.v # Unloaded
        BY <1>2, <1>3, <1>5, <1>6, <2>1, BaseSame
    <2>2. CASE page.v = Unloaded
        <3>1. page.ops = <<>>
            BY <1>2, <1>3, <2>2, TopSound DEF Sound
        <3>2. PageInv(q)
            BY <1>2, <1>3, <1>5, <1>6 DEF PageInv
        <3>3. Fresher(page, q)
            BY <1>2, <1>5, <1>6 DEF Fresher, Pages
        <3>4. Sound(log, Record(q))
            <4>1. Record(q).v = q.v /\ Record(q).ops = q.ops /\ Record(q).text = q.text
                BY DEF Record
            <4>2. SubSeq(log, 1, Len(log)) = log /\ Len(log) \in Nat
                BY <1>2
            <4>3. DOMAIN q.ops = {} /\ EditsIn(q.ops) = {}
                BY <1>5, <1>6, <3>1 DEF EditsIn
            <4>4. q.v = Len(log) /\ q.v # Unloaded /\ q.v <= Len(log) /\ q.text = EditsIn(log)
                BY <1>5, <1>6, <2>2, <4>2 DEF Unloaded
            <4>5. q.text = EditsIn(SubSeq(log, 1, q.v)) \cup EditsIn(q.ops)
                BY <4>2, <4>3, <4>4
            <4>. QED  BY <4>1, <4>3, <4>4, <4>5 DEF Sound
        <3>5. DOMAIN q.ops = {}
            BY <1>5, <1>6, <3>1
        <3>6. Core(log, Held(store, q), Sent(net, page))
            <4>1. \A u \in Held(store, q) : u \in Held(store, page)
                BY <1>2, <1>3, <1>5, <1>6, <3>5, HeldTop
            <4>. QED  BY <1>2, <4>1, CoreSub
        <3>7. EditsIn(page.ops) = {}
            BY <3>1 DEF EditsIn
        <3>. QED  BY <1>2, <1>3, <1>5, <1>6, <3>2, <3>3, <3>4, <3>5, <3>6, <3>7, BaseTop
    <2>. QED  BY <2>1, <2>2
<1>8. Flying(q)
    BY <1>2, <1>5, <1>6 DEF Flying
<1>9. Backed(log, net, store, q)
    BY <1>2, <1>6, BackedSame, InvFields
<1>. QED  BY <1>1, <1>7, <1>8, <1>9 DEF DocInv, SavedKept

\* The page's operations are based on the next version, which is none of them.
LEMMA CoreLearn ==
    ASSUME NEW lg \in Seq(Ops), NEW H, NEW S, NEW H2, NEW v \in Nat,
           Core(lg, H, S),
           \A x \in H2 :
               \/ x \in H
               \/ \E y \in H : /\ y.op = x.op /\ y.at = x.at /\ y.v = v /\ x.v = v + 1
                               /\ x.op.seq # 0 => x.op # lg[v + 1]
    PROVE  Core(lg, H2, S)
<1> DEFINE num == WithNumber(H) \cup S
           num2 == WithNumber(H2) \cup S
<1>1. /\ \A x \in S : x.op.seq # 0
      /\ \A x, y \in num : Alike(x.op, y.op) => x.op = y.op
      /\ \A u \in Raw(H), y \in num : y.at <= u.at => Apart(u.op, y.op)
      /\ \A x \in num, j \in DOMAIN lg : Alike(x.op, lg[j]) => x.op = lg[j] /\ j > x.v
      /\ \A u \in Raw(H), j \in DOMAIN lg : Apart(u.op, lg[j])
    BY Zenon DEF Core
<1>2. ASSUME NEW x \in num2
      PROVE  \E y \in num : /\ y.op = x.op /\ y.at = x.at
                            /\ y.v = x.v \/ (y.v = v /\ x.v = v + 1 /\ x.op # lg[v + 1])
    BY DEF WithNumber
<1>3. ASSUME NEW x \in Raw(H2)
      PROVE  \E y \in Raw(H) : y.op = x.op /\ y.at = x.at
    BY DEF Raw
<1> HIDE DEF num, num2
<1>4. ASSUME NEW x \in num2, NEW y \in num2, Alike(x.op, y.op)
      PROVE  x.op = y.op
    <2>1. PICK w \in num : w.op = x.op
        BY <1>2
    <2>2. PICK z \in num : z.op = y.op
        BY <1>2
    <2>. QED  BY <1>1, <1>4, <2>1, <2>2
<1>5. ASSUME NEW u \in Raw(H2), NEW y \in num2, y.at <= u.at
      PROVE  Apart(u.op, y.op)
    <2>1. PICK w \in Raw(H) : w.op = u.op /\ w.at = u.at
        BY <1>3
    <2>2. PICK z \in num : z.op = y.op /\ z.at = y.at
        BY <1>2
    <2>. QED  BY <1>1, <1>5, <2>1, <2>2
<1>6. ASSUME NEW x \in num2, NEW j \in DOMAIN lg, Alike(x.op, lg[j])
      PROVE  x.op = lg[j] /\ j > x.v
    <2>1. PICK y \in num : /\ y.op = x.op
                           /\ y.v = x.v \/ (y.v = v /\ x.v = v + 1 /\ x.op # lg[v + 1])
        BY <1>2
    <2>2. x.op = lg[j] /\ j > y.v
        BY <1>1, <1>6, <2>1
    <2>3. j \in Nat
        OBVIOUS
    <2>. QED  BY <2>1, <2>2, <2>3
<1>7. \A u \in Raw(H2), j \in DOMAIN lg : Apart(u.op, lg[j])
    BY <1>1, <1>3
<1>. QED  BY <1>1, <1>4, <1>5, <1>6, <1>7, Zenon DEF Core, num2

LEMMA PrefixEdits ==
    ASSUME NEW lg \in Seq(Ops), NEW v \in 0 .. Len(lg) - 1
    PROVE  EditsIn(SubSeq(lg, 1, v + 1)) = EditsIn(SubSeq(lg, 1, v)) \cup lg[v + 1].edits
<1>1. v + 1 \in DOMAIN lg /\ Len(lg) \in Nat /\ v \in Int /\ v + 1 \in Int
    OBVIOUS
<1>2. /\ DOMAIN SubSeq(lg, 1, v) = 1 .. v /\ \A i \in 1 .. v : SubSeq(lg, 1, v)[i] = lg[i]
      /\ DOMAIN SubSeq(lg, 1, v + 1) = 1 .. v + 1 /\ \A i \in 1 .. v + 1 : SubSeq(lg, 1, v + 1)[i] = lg[i]
    BY <1>1
<1>. QED  BY <1>1, <1>2 DEF EditsIn

\* The page has the next operation: its first, which it sent, or another's.
LEMMA LearnBase ==
    ASSUME NEW lg, NEW nt, NEW st, NEW p, NEW md, NEW q \in Pages,
           Base(lg, nt, st, p, md), p.open, p.loaded, p.v \in 0 .. Len(lg) - 1,
           q.id = p.id, q.open = p.open, q.loaded = p.loaded, q.asked = p.asked,
           q.streaming = p.streaming, q.subscribed = p.subscribed, q.seq = p.seq,
           q.puts = p.puts, q.sends = p.sends, q.owed,
           q.v = p.v + 1, q.text = p.text \cup lg[p.v + 1].edits,
           \/ /\ q.ops = p.ops /\ q.inflight = p.inflight
              /\ \A k \in DOMAIN p.ops : p.ops[k].seq # 0 => p.ops[k] # lg[p.v + 1]
           \/ /\ p.ops # <<>> /\ q.ops = Tail(p.ops) /\ ~q.inflight
              /\ p.ops[1] = lg[p.v + 1]
    PROVE  Base(lg, nt, st, q, md)
<1> DEFINE H == Held(st, p)
           H2 == Held(st, q)
           S == Sent(nt, p)
<1>1. /\ lg \in Seq(Ops) /\ nt \in SUBSET Messages /\ st \in Records /\ p \in Pages /\ md \subseteq Edits
      /\ Core(lg, H, S) /\ PageInv(p) /\ p.ops \in Seq(Ops)
    BY DEF Base, Pages
<1>2. /\ Sound(lg, Record(p)) /\ Record(p).v = p.v /\ Record(p).ops = p.ops /\ Record(p).text = p.text
      /\ Record(q).v = q.v /\ Record(q).ops = q.ops /\ Record(q).text = q.text
    BY TopSound DEF Record
<1>3. Len(lg) \in Nat /\ p.v \in Nat /\ p.v # Unloaded /\ p.v + 1 <= Len(lg) /\ p.v + 1 \in DOMAIN lg
      /\ p.v + 1 # Unloaded
    BY <1>1 DEF Unloaded
<1>4. /\ p.text = EditsIn(SubSeq(lg, 1, p.v)) \cup EditsIn(p.ops)
      /\ \A k, l \in DOMAIN p.ops : k # l => Apart(p.ops[k], p.ops[l])
      /\ \A k \in DOMAIN p.ops : k # 1 => p.ops[k].seq = 0
    BY <1>2, <1>3 DEF Sound
<1>5. p.ops # <<>> =>
          /\ DOMAIN p.ops = 1 .. Len(p.ops) /\ Len(p.ops) \in Nat /\ Len(p.ops) >= 1
          /\ DOMAIN Tail(p.ops) = 1 .. Len(p.ops) - 1
          /\ \A k \in 1 .. Len(p.ops) - 1 : Tail(p.ops)[k] = p.ops[k + 1]
    BY <1>1, TailFields
<1>6. ASSUME NEW k \in DOMAIN q.ops
      PROVE  \E l \in DOMAIN p.ops : /\ q.ops[k] = p.ops[l]
                                     /\ q.ops[k].seq # 0 => q.ops[k] # lg[p.v + 1]
                                     /\ k # 1 => l # 1
    <2>1. CASE q.ops = p.ops /\ \A l \in DOMAIN p.ops : p.ops[l].seq # 0 => p.ops[l] # lg[p.v + 1]
        BY <2>1
    <2>2. CASE p.ops # <<>> /\ q.ops = Tail(p.ops)
        <3>1. k \in 1 .. Len(p.ops) - 1 /\ k + 1 \in DOMAIN p.ops /\ k + 1 # 1 /\ q.ops[k] = p.ops[k + 1]
            BY <1>5, <2>2
        <3>2. q.ops[k].seq = 0
            BY <1>4, <3>1
        <3>. QED  BY <3>1, <3>2
    <2>. QED  BY <2>1, <2>2
<1>7. \A k, l \in DOMAIN q.ops : k # l => Apart(q.ops[k], q.ops[l])
    <2>1. CASE q.ops = p.ops
        BY <1>4, <2>1
    <2>2. CASE p.ops # <<>> /\ q.ops = Tail(p.ops)
        <3>1. \A k \in DOMAIN q.ops : k + 1 \in DOMAIN p.ops /\ q.ops[k] = p.ops[k + 1] /\ k \in Nat
            BY <1>5, <2>2
        <3>2. \A k, l \in DOMAIN q.ops : k # l => k + 1 # l + 1
            BY <3>1
        <3>. QED  BY <1>4, <3>1, <3>2
    <2>. QED  BY <2>1, <2>2
<1>8. /\ EditsIn(p.ops) \subseteq lg[p.v + 1].edits \cup EditsIn(q.ops)
      /\ EditsIn(q.ops) \subseteq EditsIn(p.ops)
    <2>1. EditsIn(q.ops) \subseteq EditsIn(p.ops)
        BY <1>6 DEF EditsIn
    <2>2. CASE q.ops = p.ops
        BY <2>2
    <2>3. CASE p.ops # <<>> /\ q.ops = Tail(p.ops) /\ p.ops[1] = lg[p.v + 1]
        <3>1. SUFFICES ASSUME NEW k \in DOMAIN p.ops, k # 1
                       PROVE  p.ops[k].edits \subseteq EditsIn(q.ops)
            BY <2>1, <2>3 DEF EditsIn
        <3>2. k - 1 \in DOMAIN q.ops /\ q.ops[k - 1] = p.ops[(k - 1) + 1] /\ (k - 1) + 1 = k
            BY <1>5, <2>3, <3>1
        <3>. QED  BY <3>2 DEF EditsIn
    <2>. QED  BY <2>1, <2>2, <2>3
<1>9. Sound(lg, Record(q))
    <2>1. \A k \in DOMAIN q.ops : k # 1 => q.ops[k].seq = 0
        BY <1>4, <1>6
    <2>2. q.text = EditsIn(SubSeq(lg, 1, q.v)) \cup EditsIn(q.ops)
        <3>1. EditsIn(SubSeq(lg, 1, p.v + 1)) = EditsIn(SubSeq(lg, 1, p.v)) \cup lg[p.v + 1].edits
            BY <1>1, PrefixEdits
        <3>. QED  BY <1>4, <1>8, <3>1
    <2>3. q.v # Unloaded /\ q.v <= Len(lg)
        BY <1>3
    <2>. QED  BY <1>2, <1>7, <2>1, <2>2, <2>3 DEF Sound
<1>10. Core(lg, H2, S)
    <2>1. ASSUME NEW x \in H2
          PROVE  \/ x \in H
                 \/ \E y \in H : /\ y.op = x.op /\ y.at = x.at /\ y.v = p.v /\ x.v = p.v + 1
                                 /\ x.op.seq # 0 => x.op # lg[p.v + 1]
        <3>1. CASE x \in Held(st, p) /\ x.at < Top(p)
            BY <3>1
        <3>2. CASE \E k \in DOMAIN q.ops : x = Sight(q.ops[k], q.v, Top(p))
            <4>1. PICK k \in DOMAIN q.ops : x = Sight(q.ops[k], q.v, Top(p))
                BY <3>2
            <4>2. PICK l \in DOMAIN p.ops : /\ q.ops[k] = p.ops[l]
                                            /\ q.ops[k].seq # 0 => q.ops[k] # lg[p.v + 1]
                BY <1>6
            <4> DEFINE y == Sight(p.ops[l], p.v, Top(p))
            <4>3. y \in H
                BY <1>1, HeldOwn
            <4>4. /\ y.op = p.ops[l] /\ y.v = p.v /\ y.at = Top(p)
                  /\ x.op = q.ops[k] /\ x.v = q.v /\ x.at = Top(p)
                BY <4>1, SightFields
            <4> HIDE DEF y, H
            <4>. QED  BY <4>2, <4>3, <4>4
        <3>3. p \in Pages /\ q \in Pages /\ p.loaded /\ q.loaded /\ q.puts = p.puts /\ x \in Held(st, q)
            BY <1>1
        <3> HIDE DEF H, H2, S
        <3>4. \/ x \in Held(st, p) /\ x.at < Top(p)
              \/ \E k \in DOMAIN q.ops : x = Sight(q.ops[k], q.v, Top(p))
            BY <3>3, HeldTop
        <3>. QED  BY <3>1, <3>2, <3>4
    <2> HIDE DEF H, H2, S
    <2>. QED  BY <1>1, <1>3, <2>1, CoreLearn
<1>11. PageInv(q)
    <2>1. q.inflight => q.ops # <<>> /\ Head(q.ops).seq # 0
        BY <1>1 DEF PageInv
    <2>. QED  BY <1>1, <2>1 DEF PageInv
<1>12. Fresher(p, q)
    BY <1>1 DEF Fresher, Pages
<1>13. \A k \in DOMAIN q.ops : q.v <= Len(lg) /\ \E l \in DOMAIN p.ops : q.ops[k] = p.ops[l]
    BY <1>3, <1>6
<1>14. EditsIn(p.ops) \subseteq EditsIn(lg) \cup EditsIn(q.ops)
    BY <1>3, <1>8 DEF EditsIn
<1>15. q.loaded
    OBVIOUS
<1>. QED  BY <1>9, <1>10, <1>11, <1>12, <1>13, <1>14, <1>15, BaseTop, Zenon

LEMMA LearnStep ==
    ASSUME DocInv, Learn
    PROVE  DocInv'
<1> DEFINE op == log[page.v + 1]
           learned == [page EXCEPT !.v = @ + 1, !.text = @ \cup op.edits, !.owed = TRUE]
           done == [learned EXCEPT !.ops = Tail(@), !.inflight = FALSE]
<1>1. /\ page' = (IF Own(op) THEN Flush(done) ELSE learned) /\ net' = net /\ drops' = drops
      /\ page.online /\ page.v \in 0 .. Len(log) - 1
      /\ log' = log /\ store' = store /\ made' = made /\ saved' = saved
    BY DEF Learn
<1>2. /\ Base(log, net, store, page, made) /\ page \in Pages /\ PageInv(page) /\ Flying(page)
      /\ log \in Seq(Ops) /\ Core(log, Held(store, page), Sent(net, page))
    BY InvFields DEF Base
<1>3. page.loaded /\ page.open
    BY <1>1, <1>2 DEF PageInv, NewPage, Unloaded
<1>4. op \in Ops /\ op.edits \in SUBSET (Edits \cup OtherEdits) /\ page.v + 1 \in DOMAIN log
    <2>1. page.v + 1 \in DOMAIN log
        BY <1>1, <1>2
    <2>2. op \in Ops
        BY <1>2, <2>1
    <2> HIDE DEF op
    <2>. QED  BY <2>1, <2>2 DEF Ops
<1> HIDE DEF op
<1>5. /\ learned \in Pages /\ learned.id = page.id /\ learned.open = page.open
      /\ learned.loaded = page.loaded /\ learned.asked = page.asked
      /\ learned.streaming = page.streaming /\ learned.subscribed = page.subscribed
      /\ learned.seq = page.seq /\ learned.puts = page.puts /\ learned.sends = page.sends
      /\ learned.owed /\ learned.v = page.v + 1 /\ learned.text = page.text \cup op.edits
      /\ learned.ops = page.ops /\ learned.inflight = page.inflight /\ learned.online = page.online
    <2> DEFINE v == page.v + 1
               text == page.text \cup op.edits
    <2>1. v \in Nat /\ text \in SUBSET (Edits \cup OtherEdits)
        BY <1>1, <1>2, <1>4 DEF Pages
    <2>2. learned = [page EXCEPT !.v = v, !.text = text, !.owed = TRUE]
        OBVIOUS
    <2> HIDE DEF v, text, learned
    <2>3. /\ learned \in Pages /\ learned.id = page.id /\ learned.open = page.open
          /\ learned.loaded = page.loaded /\ learned.asked = page.asked
          /\ learned.streaming = page.streaming /\ learned.subscribed = page.subscribed
          /\ learned.seq = page.seq /\ learned.puts = page.puts /\ learned.sends = page.sends
          /\ learned.owed /\ learned.v = v /\ learned.text = text
          /\ learned.ops = page.ops /\ learned.inflight = page.inflight /\ learned.online = page.online
        BY <1>2, <2>1, <2>2 DEF Pages
    <2>. QED  BY <2>3 DEF v, text
<1> HIDE DEF learned
<1>6. ASSUME page.ops # <<>>
      PROVE  /\ page.inflight /\ Head(page.ops) = page.ops[1] /\ 1 \in DOMAIN page.ops
             /\ page.ops[1].seq # 0 /\ Tail(page.ops) \in Seq(Ops)
    BY <1>1, <1>2, <1>6 DEF Flying, PageInv, Pages
<1>7. ASSUME ~Own(op)
      PROVE  /\ Base(log, net, store, learned, made) /\ Flying(learned)
             /\ Backed(log, net, store, learned)
    <2>1. ASSUME NEW k \in DOMAIN page.ops, page.ops[k].seq # 0, page.ops[k] = op
          PROVE  FALSE
        <3>1. \A l \in DOMAIN page.ops : l # 1 => page.ops[l].seq = 0
            BY <1>2, <1>3, TopSound DEF Sound
        <3>2. k = 1 /\ page.ops # <<>>
            BY <2>1, <3>1
        <3>. QED  BY <1>6, <1>7, <2>1, <3>2 DEF Own
    <2>2. Base(log, net, store, learned, made)
        BY <1>1, <1>2, <1>3, <1>5, <2>1, LearnBase DEF op
    <2>3. Backed(log, net, store, learned)
        BY <1>2, <1>5, BackedSame, InvFields
    <2>. QED  BY <1>2, <1>5, <2>2, <2>3 DEF Flying
<1>8. ASSUME Own(op)
      PROVE  /\ Base(log, net, store, Flush(done), made) /\ Flying(Flush(done))
             /\ Backed(log, net, store, Flush(done))
    <2>1. page.inflight /\ page.ops # <<>>
        BY <1>2, <1>8 DEF Own, PageInv
    <2>2. op.src = page.ops[1].src /\ op.seq = page.ops[1].seq
        BY <1>6, <1>8, <2>1 DEF Own
    <2>3. /\ done \in Pages /\ done.id = page.id /\ done.open = page.open
          /\ done.loaded = page.loaded /\ done.asked = page.asked
          /\ done.streaming = page.streaming /\ done.subscribed = page.subscribed
          /\ done.seq = page.seq /\ done.puts = page.puts /\ done.sends = page.sends
          /\ done.owed /\ done.v = page.v + 1 /\ done.text = page.text \cup op.edits
          /\ done.ops = Tail(page.ops) /\ ~done.inflight
        BY <1>5, <1>6, <2>1 DEF Pages
    <2> HIDE DEF done
    <2>4. page.ops[1] = op
        <3> DEFINE x == Sight(page.ops[1], page.v, Top(page))
        <3>1. x \in Held(store, page)
            BY <1>2, <1>3, <1>6, <2>1, HeldOwn
        <3>2. x.op = page.ops[1]
            BY SightFields
        <3> HIDE DEF x
        <3>3. x \in WithNumber(Held(store, page)) \cup Sent(net, page)
            BY <1>6, <2>1, <3>1, <3>2 DEF WithNumber
        <3>4. Alike(x.op, log[page.v + 1])
            BY <1>6, <2>1, <2>2, <3>2 DEF Alike, SameNumber, op
        <3>5. \A y \in WithNumber(Held(store, page)) \cup Sent(net, page), j \in DOMAIN log :
                  Alike(y.op, log[j]) => y.op = log[j]
            BY <1>2 DEF Core
        <3>. QED  BY <1>4, <3>2, <3>3, <3>4, <3>5 DEF op
    <2>5. Base(log, net, store, done, made)
        BY <1>1, <1>2, <1>3, <2>1, <2>3, <2>4, LearnBase DEF op
    <2>6. Backed(log, net, store, done)
        BY <1>2, <2>3, BackedSame, InvFields
    <2>. QED  BY <1>3, <2>3, <2>5, <2>6, FlushBase, FlushBacked
<1>. QED  BY <1>1, <1>7, <1>8 DEF DocInv, SavedKept

-----------------------------------------------------------------------------
(* The server's steps                                                        *)

LEMMA AppendLog ==
    ASSUME NEW lg \in Seq(Ops), NEW o \in Ops
    PROVE  LET lg2 == Append(lg, o)
           IN  /\ lg2 \in Seq(Ops) /\ Len(lg) \in Nat /\ Len(lg2) = Len(lg) + 1
               /\ DOMAIN lg = 1 .. Len(lg) /\ DOMAIN lg2 = 1 .. Len(lg) + 1
               /\ \A j \in DOMAIN lg : lg2[j] = lg[j]
               /\ lg2[Len(lg) + 1] = o
               /\ EditsIn(lg2) = EditsIn(lg) \cup o.edits
               /\ \A v \in 0 .. Len(lg) : EditsIn(SubSeq(lg2, 1, v)) = EditsIn(SubSeq(lg, 1, v))
<1> DEFINE lg2 == Append(lg, o)
<1>1. /\ lg2 \in Seq(Ops) /\ Len(lg) \in Nat /\ Len(lg2) = Len(lg) + 1
      /\ DOMAIN lg = 1 .. Len(lg) /\ DOMAIN lg2 = 1 .. Len(lg) + 1
      /\ \A j \in DOMAIN lg : lg2[j] = lg[j]
      /\ lg2[Len(lg) + 1] = o
    BY AppendProperties
<1> HIDE DEF lg2
<1>2. EditsIn(lg2) = EditsIn(lg) \cup o.edits
    <2>1. \A j \in DOMAIN lg2 : j \in DOMAIN lg \/ j = Len(lg) + 1
        BY <1>1
    <2>2. \A j \in DOMAIN lg : j \in DOMAIN lg2
        BY <1>1
    <2>3. Len(lg) + 1 \in DOMAIN lg2
        BY <1>1
    <2>. QED  BY <1>1, <2>1, <2>2, <2>3 DEF EditsIn
<1>3. ASSUME NEW v \in 0 .. Len(lg)
      PROVE  EditsIn(SubSeq(lg2, 1, v)) = EditsIn(SubSeq(lg, 1, v))
    <2>1. /\ DOMAIN SubSeq(lg, 1, v) = 1 .. v /\ \A i \in 1 .. v : SubSeq(lg, 1, v)[i] = lg[i]
          /\ DOMAIN SubSeq(lg2, 1, v) = 1 .. v /\ \A i \in 1 .. v : SubSeq(lg2, 1, v)[i] = lg2[i]
        BY <1>1
    <2>2. \A i \in 1 .. v : lg2[i] = lg[i]
        BY <1>1
    <2> DEFINE s == SubSeq(lg, 1, v)
               s2 == SubSeq(lg2, 1, v)
    <2>3. DOMAIN s2 = DOMAIN s /\ \A i \in DOMAIN s2 : s2[i].edits = s[i].edits
        BY <2>1, <2>2
    <2> HIDE DEF s, s2
    <2>4. EditsIn(s2) = EditsIn(s)
        BY <2>3, SameEdits
    <2>. QED  BY <2>4 DEF s, s2
<1>. QED  BY <1>1, <1>2, <1>3 DEF lg2

\* The server applies an operation: what else is known of it is based on an earlier version.
LEMMA LogBase ==
    ASSUME NEW lg, NEW nt, NEW st, NEW p, NEW md, NEW nt2 \in SUBSET nt, NEW o \in Ops,
           Base(lg, nt, st, p, md),
           \A x \in WithNumber(Held(st, p)) \cup Sent(nt, p) : Alike(x.op, o) => x.op = o,
           \A u \in Raw(Held(st, p)) : Apart(u.op, o),
           \A i \in DOMAIN lg : Apart(lg[i], o),
           o.edits \subseteq md \cup OtherEdits,
           o.seq # 0 => o.src < p.id \/ (o.src = p.id /\ (p.open => o.seq < p.seq))
    PROVE  Base(Append(lg, o), nt2, st, p, md)
<1> DEFINE lg2 == Append(lg, o)
           H == Held(st, p)
           S == Sent(nt, p)
           S2 == Sent(nt2, p)
           L == Len(lg)
<1>1. /\ lg \in Seq(Ops) /\ nt \in SUBSET Messages /\ st \in Records /\ p \in Pages /\ md \subseteq Edits
      /\ Core(lg, H, S) /\ Bounded(lg, H, S, md, p) /\ LogInv(lg, md, p) /\ ViewsInv(lg, st, p)
      /\ PageInv(p)
    BY DEF Base
<1>2. /\ lg2 \in Seq(Ops) /\ L \in Nat /\ Len(lg2) = L + 1
      /\ DOMAIN lg = 1 .. L /\ DOMAIN lg2 = 1 .. L + 1
      /\ \A j \in DOMAIN lg : lg2[j] = lg[j]
      /\ lg2[L + 1] = o
      /\ EditsIn(lg) \subseteq EditsIn(lg2)
      /\ \A v \in 0 .. L : EditsIn(SubSeq(lg2, 1, v)) = EditsIn(SubSeq(lg, 1, v))
    BY <1>1, AppendLog
<1>3. \A j \in DOMAIN lg2 : j = L + 1 \/ (j \in DOMAIN lg /\ lg2[j] = lg[j])
    BY <1>2
<1>4. \A x \in S2 : x \in S
    BY DEF Sent
<1>5. \A x \in H \cup S : x.v \in Int /\ x.v <= L
    BY <1>1, HeldType, SentType DEF Bounded, Unloaded
<1>6. \A i \in 0 .. Top(p) : View(st, p, i) \in Records
    BY <1>1, ViewsType
<1> HIDE DEF lg2, H, S, S2, L
<1>7. Core(lg2, H, S2)
    <2> DEFINE num == WithNumber(H) \cup S
               num2 == WithNumber(H) \cup S2
    <2>1. /\ \A x \in S : x.op.seq # 0
          /\ \A x, y \in num : Alike(x.op, y.op) => x.op = y.op
          /\ \A u \in Raw(H), y \in num : y.at <= u.at => Apart(u.op, y.op)
          /\ \A x \in num, j \in DOMAIN lg : Alike(x.op, lg[j]) => x.op = lg[j] /\ j > x.v
          /\ \A u \in Raw(H), j \in DOMAIN lg : Apart(u.op, lg[j])
        BY <1>1, Zenon DEF Core
    <2>2. \A x \in num2 : x \in num /\ x \in H \cup S
        BY <1>4 DEF WithNumber
    <2>3. /\ \A x \in num : Alike(x.op, o) => x.op = o
          /\ \A u \in Raw(H) : Apart(u.op, o)
        BY DEF H, S
    <2> HIDE DEF num, num2
    <2>4. ASSUME NEW x \in num2, NEW j \in DOMAIN lg2, Alike(x.op, lg2[j])
          PROVE  x.op = lg2[j] /\ j > x.v
        <3>1. CASE j \in DOMAIN lg /\ lg2[j] = lg[j]
            BY <2>1, <2>2, <2>4, <3>1
        <3>2. CASE j = L + 1
            <4>1. x.op = o
                BY <1>2, <2>2, <2>3, <2>4, <3>2
            <4>2. x.v \in Int /\ x.v <= L
                BY <1>5, <2>2
            <4>. QED  BY <1>2, <3>2, <4>1, <4>2
        <3>. QED  BY <1>3, <3>1, <3>2
    <2>5. \A u \in Raw(H), j \in DOMAIN lg2 : Apart(u.op, lg2[j])
        BY <1>2, <1>3, <2>1, <2>3
    <2>6. /\ \A x \in S2 : x.op.seq # 0
          /\ \A x, y \in num2 : Alike(x.op, y.op) => x.op = y.op
          /\ \A u \in Raw(H), y \in num2 : y.at <= u.at => Apart(u.op, y.op)
        BY <1>4, <2>1, <2>2
    <2>. QED  BY <2>4, <2>5, <2>6, Zenon DEF Core, num2
<1>8. Bounded(lg2, H, S2, md, p)
    <2>1. SUFFICES ASSUME NEW x \in H \cup S2
                   PROVE  /\ x.at <= Top(p) /\ x.v <= Len(lg2) /\ x.op.edits \subseteq md
                          /\ x.op.seq # 0 => x.op.src < p.id \/
                                              (x.op.src = p.id /\ (p.open => x.op.seq < p.seq))
        BY DEF Bounded
    <2>2. x \in H \cup S
        BY <1>4
    <2>3. x.v <= Len(lg2)
        BY <1>2, <1>5, <2>2
    <2>. QED  BY <1>1, <2>2, <2>3 DEF Bounded
<1>9. LogInv(lg2, md, p)
    <2>1. ASSUME NEW i \in DOMAIN lg2, NEW j \in DOMAIN lg2, ~Apart(lg2[i], lg2[j])
          PROVE  i = j
        <3>1. CASE i \in DOMAIN lg /\ lg2[i] = lg[i] /\ j \in DOMAIN lg /\ lg2[j] = lg[j]
            BY <1>1, <2>1, <3>1 DEF LogInv
        <3>2. CASE i = L + 1 /\ j \in DOMAIN lg /\ lg2[j] = lg[j]
            BY <1>2, <2>1, <3>2 DEF Apart
        <3>3. CASE j = L + 1 /\ i \in DOMAIN lg /\ lg2[i] = lg[i]
            BY <1>2, <2>1, <3>3 DEF Apart
        <3>. QED  BY <1>3, <3>1, <3>2, <3>3
    <2>2. ASSUME NEW j \in DOMAIN lg2
          PROVE  /\ lg2[j].edits \subseteq md \cup OtherEdits
                 /\ lg2[j].seq # 0 =>
                        lg2[j].src < p.id \/ (lg2[j].src = p.id /\ (p.open => lg2[j].seq < p.seq))
        <3>1. CASE j \in DOMAIN lg /\ lg2[j] = lg[j]
            BY <1>1, <3>1 DEF LogInv
        <3>2. CASE j = L + 1
            BY <1>2, <3>2
        <3>. QED  BY <1>3, <3>1, <3>2
    <2>. QED  BY <2>1, <2>2 DEF LogInv
<1>10. ViewsInv(lg2, st, p)
    <2>1. ASSUME NEW i \in 0 .. Top(p)
          PROVE  Sound(lg2, View(st, p, i))
        <3> DEFINE R == View(st, p, i)
        <3>1. Sound(lg, R) /\ R.v \in Nat \cup {Unloaded}
            BY <1>1, <1>6 DEF ViewsInv, Records
        <3> HIDE DEF R
        <3>2. ASSUME R.v # Unloaded
              PROVE  R.v <= Len(lg2) /\ R.text = EditsIn(SubSeq(lg2, 1, R.v)) \cup EditsIn(R.ops)
            <4>1. R.v \in 0 .. L /\ R.text = EditsIn(SubSeq(lg, 1, R.v)) \cup EditsIn(R.ops)
                BY <1>2, <3>1, <3>2 DEF Sound, L
            <4>. QED  BY <1>2, <4>1
        <3>3. Sound(lg2, R)
            BY <3>1, <3>2 DEF Sound
        <3>. QED  BY <3>3 DEF R
    <2>. QED  BY <1>1, <1>2, <2>1 DEF ViewsInv
<1>11. nt2 \subseteq Messages
    BY <1>1
<1>. QED  BY <1>1, <1>2, <1>7, <1>8, <1>9, <1>10, <1>11 DEF Base, H, S2, lg2

LEMMA SameLog ==
    ASSUME NEW lg, NEW nt, NEW st, NEW p, NEW md, NEW nt2 \in SUBSET nt, Base(lg, nt, st, p, md)
    PROVE  Base(lg, nt2, st, p, md)
<1>1. p \in Pages /\ PageInv(p)
    BY DEF Base
<1>2. Fresher(p, p)
    BY <1>1 DEF Fresher, Pages
<1>. QED  BY <1>1, <1>2, BaseUpdated, Zenon

\* The operation of a message has no edit of the log's, unless the server finds it there.
LEMMA SubmitApart ==
    ASSUME DocInv, NEW m \in net,
           ~ \E i \in m.v + 1 .. Len(log) : log[i].src = m.op.src /\ log[i].seq = m.op.seq,
           NEW i \in DOMAIN log
    PROVE  Apart(log[i], m.op)
<1> SUFFICES ASSUME ~Apart(log[i], m.op)
             PROVE  FALSE
    OBVIOUS
<1> DEFINE y == Sight(m.op, m.v, 0)
<1>1. /\ log \in Seq(Ops) /\ net \in SUBSET Messages
      /\ Core(log, Held(store, page), Sent(net, page))
    BY InvFields DEF Base
<1>2. y \in Sent(net, page) /\ y.op = m.op /\ y.v = m.v
    BY SightFields DEF Sent
<1> HIDE DEF y
<1>3. Alike(m.op, log[i])
    BY DEF Alike, Apart
<1>4. m.op = log[i] /\ i > m.v
    BY <1>1, <1>2, <1>3 DEF Core
<1>5. i \in m.v + 1 .. Len(log)
    BY <1>1, <1>4 DEF Messages
<1>. QED  BY <1>4, <1>5

LEMMA SubmitStep ==
    ASSUME DocInv, NEW m \in net, Submit(m)
    PROVE  DocInv'
<1> DEFINE o == m.op
           known == \E i \in m.v + 1 .. Len(log) : log[i].src = o.src /\ log[i].seq = o.seq
           y == Sight(m.op, m.v, 0)
<1>1. /\ net' \in SUBSET net /\ log' = (IF known THEN log ELSE Append(log, o))
      /\ store' = store /\ page' = page /\ drops' = drops /\ made' = made /\ saved' = saved
    BY DEF Submit
<1>2. /\ Base(log, net, store, page, made) /\ page \in Pages /\ Flying(page)
      /\ log \in Seq(Ops) /\ net \in SUBSET Messages /\ store \in Records /\ made \subseteq Edits
      /\ Core(log, Held(store, page), Sent(net, page))
      /\ Bounded(log, Held(store, page), Sent(net, page), made, page)
    BY InvFields DEF Base
<1>3. o \in Ops /\ m.v \in Nat
    BY <1>2 DEF Messages
<1>4. y \in Sent(net, page) /\ y.op = o /\ y.v = m.v /\ y.at = 0
    BY SightFields DEF Sent
<1> HIDE DEF o, y
<1>5. /\ \A x \in Sent(net, page) : x.op.seq # 0
      /\ \A x \in WithNumber(Held(store, page)) \cup Sent(net, page) : Alike(x.op, o) => x.op = o
      /\ \A u \in Raw(Held(store, page)) : y.at <= u.at => Apart(u.op, o)
      /\ \A j \in DOMAIN log : Alike(o, log[j]) => o = log[j] /\ j > m.v
    BY <1>2, <1>4 DEF Core
<1>6. Base(log', net', store, page, made) /\ EditsIn(log) \subseteq EditsIn(log')
    <2>1. CASE known
        BY <1>1, <1>2, <2>1, SameLog
    <2>2. CASE ~known
        <3>1. \A u \in Raw(Held(store, page)) : Apart(u.op, o)
            <4>1. SUFFICES ASSUME NEW u \in Raw(Held(store, page))
                           PROVE  Apart(u.op, o)
                OBVIOUS
            <4>2. u.at \in Nat
                BY <1>2, HeldType DEF Raw
            <4>. QED  BY <1>4, <1>5, <4>2
        <3>2. \A i \in DOMAIN log : Apart(log[i], o)
            BY <2>2, SubmitApart DEF o
        <3>3. /\ o.edits \subseteq made \cup OtherEdits
              /\ o.seq # 0 => o.src < page.id \/ (o.src = page.id /\ (page.open => o.seq < page.seq))
            BY <1>2, <1>4 DEF Bounded
        <3>4. Base(Append(log, o), net', store, page, made)
            BY <1>1, <1>2, <1>3, <1>5, <3>1, <3>2, <3>3, LogBase, Zenon
        <3>5. EditsIn(log) \subseteq EditsIn(Append(log, o))
            BY <1>2, <1>3, AppendLog
        <3>. QED  BY <1>1, <2>2, <3>4, <3>5
    <2>. QED  BY <2>1, <2>2
<1>7. Backed(log', net', store, page)
    BY <1>1, <1>2, <1>6, BackedSame, InvFields
<1>. QED  BY <1>1, <1>2, <1>6, <1>7 DEF DocInv, SavedKept

LEMMA OtherEditStep ==
    ASSUME DocInv, NEW e \in OtherEdits, OtherEdit(e)
    PROVE  DocInv'
<1> DEFINE o == [edits |-> {e}, src |-> 0, seq |-> 0]
<1>1. /\ net' \in SUBSET net /\ log' = Append(log, o) /\ e \notin EditsIn(log)
      /\ store' = store /\ page' = page /\ drops' = drops /\ made' = made /\ saved' = saved
    BY DEF OtherEdit
<1>2. /\ Base(log, net, store, page, made) /\ page \in Pages /\ Flying(page)
      /\ log \in Seq(Ops) /\ net \in SUBSET Messages /\ store \in Records /\ made \subseteq Edits
      /\ Core(log, Held(store, page), Sent(net, page))
      /\ Bounded(log, Held(store, page), Sent(net, page), made, page)
    BY InvFields DEF Base
<1>3. o \in Ops /\ o.edits = {e} /\ o.seq = 0
    BY BoundsAssumption DEF Ops
<1> HIDE DEF o
<1>4. \A x \in Held(store, page) \cup Sent(net, page) : Apart(x.op, o)
    <2>1. SUFFICES ASSUME NEW x \in Held(store, page) \cup Sent(net, page)
                   PROVE  e \notin x.op.edits
        BY <1>3 DEF Apart
    <2>2. x.op.edits \subseteq made
        BY <1>2 DEF Bounded
    <2>. QED  BY <1>2, <2>2, EditsAssumption
<1>5. \A x \in WithNumber(Held(store, page)) \cup Sent(net, page) : Alike(x.op, o) => x.op = o
    <2>1. SUFFICES ASSUME NEW x \in WithNumber(Held(store, page)) \cup Sent(net, page)
                   PROVE  ~Alike(x.op, o)
        OBVIOUS
    <2>2. Apart(x.op, o) /\ x.op.seq # 0
        BY <1>2, <1>4 DEF Core, WithNumber
    <2>. QED  BY <1>3, <2>2 DEF Alike, SameNumber
<1>6. \A u \in Raw(Held(store, page)) : Apart(u.op, o)
    BY <1>4 DEF Raw
<1>7. \A i \in DOMAIN log : Apart(log[i], o)
    BY <1>1, <1>3 DEF Apart, EditsIn
<1>8. Base(Append(log, o), net', store, page, made)
    <2>1. o.edits \subseteq made \cup OtherEdits
        BY <1>3
    <2>2. o.seq # 0 => o.src < page.id \/ (o.src = page.id /\ (page.open => o.seq < page.seq))
        BY <1>3
    <2>. QED  BY <1>1, <1>2, <1>3, <1>5, <1>6, <1>7, <2>1, <2>2, LogBase, Zenon
<1>9. EditsIn(log) \subseteq EditsIn(Append(log, o))
    BY <1>2, <1>3, AppendLog
<1>10. Backed(Append(log, o), net', store, page)
    BY <1>1, <1>2, <1>9, BackedSame, InvFields
<1>. QED  BY <1>1, <1>2, <1>8, <1>9, <1>10 DEF DocInv, SavedKept

-----------------------------------------------------------------------------
(* The abstract specification                                                *)

DeliveryStep == [Delivery!Next]_(Delivery!vars)

\* The abstract variables, and the abstract steps in their terms.
LEMMA Delivered == Delivery!Delivered = EditsIn(log)
BY DEF Delivery!Delivered, EditsIn

LEMMA Applied ==
    ASSUME NEW lg \in Seq(Ops), NEW o \in Ops
    PROVE  LET lg2 == Append(lg, o)
           IN  [i \in DOMAIN lg2 |-> lg2[i].edits] = Append([i \in DOMAIN lg |-> lg[i].edits], o.edits)
<1> DEFINE lg2 == Append(lg, o)
           s == [i \in DOMAIN lg |-> lg[i].edits]
           s2 == [i \in DOMAIN lg2 |-> lg2[i].edits]
           E == SUBSET (Edits \cup OtherEdits)
<1>1. /\ Len(lg) \in Nat /\ DOMAIN lg = 1 .. Len(lg) /\ DOMAIN lg2 = 1 .. Len(lg) + 1
      /\ \A j \in DOMAIN lg : lg2[j] = lg[j]
      /\ lg2[Len(lg) + 1] = o
    BY AppendLog
<1>2. /\ DOMAIN s2 = 1 .. Len(lg) + 1 /\ s2[Len(lg) + 1] = o.edits
      /\ \A j \in 1 .. Len(lg) : s2[j] = lg[j].edits
    BY <1>1
<1>3. s \in Seq(E) /\ Len(s) = Len(lg) /\ \A j \in 1 .. Len(lg) : s[j] = lg[j].edits
    <2>1. ASSUME NEW j \in DOMAIN lg
          PROVE  lg[j].edits \in E
        <3>1. lg[j] \in Ops
            OBVIOUS
        <3>. QED  BY <3>1 DEF Ops
    <2>2. s \in [1 .. Len(lg) -> E]
        BY <1>1, <2>1
    <2>. QED  BY <1>1, <2>2, SeqDef, LenProperties
<1>4. o.edits \in E
    BY DEF Ops
<1> HIDE DEF E, s
<1>5. /\ DOMAIN Append(s, o.edits) = 1 .. Len(lg) + 1 /\ Append(s, o.edits)[Len(lg) + 1] = o.edits
      /\ \A j \in 1 .. Len(lg) : Append(s, o.edits)[j] = s[j]
      /\ Append(s, o.edits) = [j \in 1 .. Len(lg) + 1 |-> Append(s, o.edits)[j]]
    BY <1>1, <1>3, <1>4, AppendProperties
<1>6. \A j \in 1 .. Len(lg) + 1 : s2[j] = Append(s, o.edits)[j]
    BY <1>1, <1>2, <1>3, <1>5
<1>7. s2 = [j \in 1 .. Len(lg) + 1 |-> s2[j]]
    BY <1>1
<1> HIDE DEF s2
<1>. QED  BY <1>5, <1>6, <1>7 DEF s, s2

\* The page learns some of what the server has, or nothing.
LEMMA Told ==
    ASSUME NEW known \in SUBSET EditsIn(log),
           page'.text = page.text \cup known, store' = store, log' = log
    PROVE  DeliveryStep
BY Delivered DEF DeliveryStep, Delivery!Next, Delivery!Receive

LEMMA Untold ==
    ASSUME page'.text = page.text, store' = store, log' = log
    PROVE  DeliveryStep
BY DEF DeliveryStep, Delivery!vars

LEMMA FlushText ==
    ASSUME NEW p \in Pages
    PROVE  Flush(p).text = p.text
<1> SUFFICES ASSUME p.ops # <<>>
             PROVE  Send(p).text = p.text
    BY DEF Flush
<1> DEFINE n == Numbered(p)
           u == UpdateOfflineData(n, FALSE)
<1>1. n \in Pages /\ n.text = p.text
    <2>1. CASE Head(p.ops).seq = 0
        BY <2>1, NumberFields
    <2>2. CASE Head(p.ops).seq # 0
        <3>1. n = [p EXCEPT !.inflight = TRUE]
            BY <2>2 DEF Numbered
        <3>. QED  BY <3>1 DEF Pages
    <2>. QED  BY <2>1, <2>2
<1>2. u \in Pages /\ u.text = n.text
    <2> HIDE DEF n
    <2>. QED  BY <1>1, UpdateFields DEF SameDoc
<1>3. \A sends : [u EXCEPT !.sends = sends].text = u.text
    <2> HIDE DEF u
    <2>. QED  BY <1>2 DEF Pages
<1>4. \E sends : Send(p) = [u EXCEPT !.sends = sends]
    BY DEF Send
<1>. QED  BY <1>1, <1>2, <1>3, <1>4

LEMMA PrefixIn ==
    ASSUME NEW lg \in Seq(Ops), NEW v \in 0 .. Len(lg)
    PROVE  EditsIn(SubSeq(lg, 1, v)) \subseteq EditsIn(lg)
<1>1. /\ DOMAIN SubSeq(lg, 1, v) = 1 .. v /\ \A i \in 1 .. v : SubSeq(lg, 1, v)[i] = lg[i]
      /\ \A i \in 1 .. v : i \in DOMAIN lg
    OBVIOUS
<1>. QED  BY <1>1 DEF EditsIn

\* Steps of the page that change neither what is shown nor what is stored.
LEMMA QuietDelivery ==
    ASSUME DocInv, OpenPage \/ Connect \/ Transmit \/ UpdateLearned \/ Drop
    PROVE  DeliveryStep
<1>1. page \in Pages /\ PageInv(page)
    BY InvFields
<1>2. CASE OpenPage
    <2>1. PICK route \in Routes :
              page' = [NewPage(page.id + 1) EXCEPT !.open = TRUE, !.subscribed = route = "query"]
        BY <1>2 DEF OpenPage
    <2>2. page'.text = {}
        BY <2>1 DEF NewPage
    <2>3. ~page.open /\ log' = log /\ store' = store
        BY <1>2 DEF OpenPage
    <2>4. page.text = {}
        <3>1. page = NewPage(page.id)
            BY <1>1, <2>3 DEF PageInv
        <3>2. NewPage(page.id).text = {}
            BY DEF NewPage
        <3>. QED  BY <3>1, <3>2
    <2>. QED  BY <2>2, <2>3, <2>4, Untold
<1>3. CASE Connect
    <2> DEFINE q == [page EXCEPT !.online = TRUE]
    <2>1. page' = Flush(q) /\ log' = log /\ store' = store
        BY <1>3 DEF Connect
    <2>2. q \in Pages /\ q.text = page.text
        BY <1>1 DEF Pages
    <2> HIDE DEF q
    <2>. QED  BY <2>1, <2>2, FlushText, Untold
<1>4. CASE Transmit
    <2>1. page' = [page EXCEPT !.sends = Tail(@)] /\ log' = log /\ store' = store
        BY <1>4 DEF Transmit
    <2>. QED  BY <1>1, <2>1, Untold DEF Pages
<1>5. CASE UpdateLearned
    <2> DEFINE q == [page EXCEPT !.owed = FALSE]
    <2>1. page' = UpdateOfflineData(q, FALSE) /\ log' = log /\ store' = store
        BY <1>5 DEF UpdateLearned
    <2>2. q \in Pages /\ q.text = page.text
        BY <1>1 DEF Pages
    <2> HIDE DEF q
    <2>. QED  BY <2>1, <2>2, UpdateFields, Untold DEF SameDoc
<1>6. CASE Drop
    <2>1. /\ page' = [page EXCEPT !.online = FALSE, !.streaming = FALSE, !.inflight = FALSE]
          /\ log' = log /\ store' = store
        BY <1>6 DEF Drop
    <2>. QED  BY <1>1, <2>1, Untold DEF Pages
<1>. QED  BY <1>2, <1>3, <1>4, <1>5, <1>6

LEMMA CloseDelivery ==
    ASSUME Close
    PROVE  DeliveryStep
<1>1. page'.text = {} /\ log' = log /\ store' = store
    BY DEF Close, NewPage
<1>. QED  BY <1>1 DEF DeliveryStep, Delivery!Next, Delivery!Close

\* A record shows what the server had and what the record keeps.
LEMMA LoadOfflineDelivery ==
    ASSUME DocInv, LoadOffline
    PROVE  DeliveryStep
<1> DEFINE r == [page EXCEPT !.v = store.v, !.text = store.text, !.offlineV = store.v,
                             !.ops = store.ops]
           known == store.text \cap EditsIn(log)
<1>1. /\ ~page.loaded /\ page' = Loaded(UpdateOfflineData(Flush(r), FALSE))
      /\ log' = log /\ store' = store
    BY DEF LoadOffline, Loaded
<1>2. /\ page \in Pages /\ PageInv(page) /\ store \in Records /\ log \in Seq(Ops)
      /\ ViewsInv(log, store, page)
    BY InvFields DEF Base
<1>3. r \in Pages /\ r.text = store.text /\ r.ops = store.ops /\ r.v = store.v
    BY <1>2 DEF Pages, Records
<1>4. Sound(log, store)
    <2>1. View(store, page, 0) = store /\ 0 \in 0 .. Top(page)
        BY <1>1 DEF View, Top
    <2>. QED  BY <1>2, <2>1 DEF ViewsInv
<1> HIDE DEF r
<1>5. page'.text = store.text
    <2>1. r.ops # <<>> => r.v # Unloaded
        BY <1>3, <1>4 DEF Sound
    <2> DEFINE f == Flush(r)
               u == UpdateOfflineData(f, FALSE)
    <2>2. f \in Pages /\ f.text = r.text
        BY <1>3, <2>1, FlushType, FlushText
    <2> HIDE DEF f
    <2>3. u \in Pages /\ u.text = f.text
        BY <2>2, UpdateFields DEF SameDoc
    <2> HIDE DEF u
    <2>4. page' = Loaded(u) /\ Loaded(u).text = u.text
        BY <1>1, <2>3, LoadedFields DEF u, f
    <2>. QED  BY <1>3, <2>2, <2>3, <2>4
<1>6. store.text = (EditsIn(store.ops) \ EditsIn(log)) \cup known
    <2>1. CASE store.v = Unloaded
        BY <1>4, <2>1 DEF Sound, EditsIn
    <2>2. CASE store.v # Unloaded
        <3>1. store.v \in 0 .. Len(log) /\ store.text = EditsIn(SubSeq(log, 1, store.v)) \cup EditsIn(store.ops)
            BY <1>2, <1>4, <2>2 DEF Sound, Records
        <3>2. EditsIn(SubSeq(log, 1, store.v)) \subseteq EditsIn(log)
            BY <1>2, <3>1, PrefixIn
        <3>. QED  BY <3>1, <3>2
    <2>. QED  BY <2>1, <2>2
<1>7. page.text = {}
    BY <1>1, <1>2 DEF PageInv
<1>8. known \in SUBSET Delivery!Delivered
    BY Delivered
<1>. QED  BY <1>1, <1>5, <1>6, <1>7, <1>8 DEF DeliveryStep, Delivery!Next, Delivery!Reopen

LEMMA SubscribedDelivery ==
    ASSUME DocInv, Subscribed
    PROVE  DeliveryStep
<1>1. Base(log, net, store, page, made) /\ page \in Pages /\ PageInv(page)
    BY InvFields
<1>2. /\ page'.text = (IF page.v = Unloaded THEN EditsIn(log) ELSE page.text)
      /\ log' = log /\ store' = store /\ page.asked
    BY <1>1 DEF Subscribed, Pages
<1>3. page.v = Unloaded => page.text = {}
    <2>1. page.loaded
        BY <1>1, <1>2 DEF PageInv
    <2>. QED  BY <1>1, <2>1, TopSound DEF Sound
<1> DEFINE known == IF page.v = Unloaded THEN EditsIn(log) ELSE {}
<1>4. page'.text = page.text \cup known /\ known \in SUBSET EditsIn(log)
    BY <1>2, <1>3
<1> HIDE DEF known
<1>. QED  BY <1>2, <1>4, Told

\* What is stored, or to be stored, was made here, and what the server has here or elsewhere.
LEMMA OnlyMade ==
    ASSUME DocInv
    PROVE  /\ \A i \in 0 .. Top(page) : EditsIn(View(store, page, i).ops) \subseteq made
           /\ EditsIn(log) \subseteq made \cup OtherEdits
<1>1. LogInv(log, made, page) /\ Bounded(log, Held(store, page), Sent(net, page), made, page)
    BY InvFields DEF Base
<1>2. ASSUME NEW i \in 0 .. Top(page), NEW k \in DOMAIN View(store, page, i).ops
      PROVE  View(store, page, i).ops[k].edits \subseteq made
    BY <1>1, HeldIn, SightFields DEF Bounded
<1>. QED  BY <1>1, <1>2 DEF LogInv, EditsIn

\* The page shows what it keeps, besides what the server had.
LEMMA TextHas ==
    ASSUME DocInv, page.loaded
    PROVE  /\ EditsIn(page.ops) \subseteq page.text
           /\ page.text \subseteq EditsIn(log) \cup EditsIn(page.ops)
           /\ View(store, page, Top(page)).ops = page.ops /\ Top(page) \in 0 .. Top(page)
<1>1. Base(log, net, store, page, made) /\ page \in Pages /\ log \in Seq(Ops)
    BY InvFields
<1>2. Sound(log, Record(page)) /\ Record(page).v = page.v /\ Record(page).ops = page.ops /\ Record(page).text = page.text
    BY <1>1, TopSound
<1>3. View(store, page, Top(page)) = Record(page) /\ Top(page) \in 0 .. Top(page)
    BY <1>1, TopView
<1>4. CASE page.v = Unloaded
    BY <1>2, <1>3, <1>4 DEF Sound, EditsIn
<1>5. CASE page.v # Unloaded
    <2>1. page.v \in 0 .. Len(log) /\ page.text = EditsIn(SubSeq(log, 1, page.v)) \cup EditsIn(page.ops)
        BY <1>1, <1>2, <1>5 DEF Sound, Pages
    <2>2. EditsIn(SubSeq(log, 1, page.v)) \subseteq EditsIn(log)
        BY <1>1, <2>1, PrefixIn
    <2>. QED  BY <1>2, <1>3, <2>1, <2>2
<1>. QED  BY <1>4, <1>5

LEMMA MakeDelivery ==
    ASSUME Cases = {}, DocInv, NEW e \in Edits, Edit(e)
    PROVE  DeliveryStep
<1> DEFINE ops == IF Composable(page)
                  THEN [page.ops EXCEPT ![Len(page.ops)].edits = @ \cup {e}]
                  ELSE Append(page.ops, [edits |-> {e}, src |-> 0, seq |-> 0])
           q == [page EXCEPT !.ops = ops, !.text = @ \cup {e}]
           u == UpdateOfflineData(q, TRUE)
<1>1. /\ page.open /\ page.v # Unloaded /\ e \notin made
      /\ ~(Composable(page) /\ Last(page).seq # 0)
      /\ page' = Flush(u) /\ log' = log /\ store' = store
    BY DEF Edit
<1>2. page \in Pages /\ PageInv(page)
    BY InvFields
<1>3. page.loaded /\ (page.inflight => page.ops # <<>>)
    BY <1>1, <1>2 DEF PageInv
<1>4. ops \in Seq(Ops)
    <2>1. Composable(page) => Last(page).seq = 0
        BY <1>1
    <2>. QED  BY <1>2, <1>3, <2>1, EditGrows, Zenon
<1> HIDE DEF ops
<1>5. q \in Pages /\ q.text = page.text \cup {e}
    BY <1>2, <1>4 DEF Pages
<1> HIDE DEF q
<1>6. u \in Pages /\ u.text = q.text
    BY <1>5, UpdateFields DEF SameDoc
<1> HIDE DEF u
<1>7. page'.text = page.text \cup {e}
    BY <1>1, <1>5, <1>6, FlushText
<1>8. e \notin page.text \cup EditsIn(store.ops) \cup EditsIn(log)
    <2>1. e \notin OtherEdits
        BY EditsAssumption
    <2>2. View(store, page, 0) = store /\ 0 \in 0 .. Top(page)
        BY <1>2, <1>3, TopView DEF View
    <2>. QED  BY <1>1, <1>3, <2>1, <2>2, OnlyMade, TextHas
<1>9. e \notin page.text \cup (EditsIn(store.ops) \ EditsIn(log)) \cup Delivery!Delivered
    BY <1>8, Delivered
<1>. QED  BY <1>1, <1>7, <1>9 DEF DeliveryStep, Delivery!Next, Delivery!Make

LEMMA PutDoneDelivery ==
    ASSUME DocInv, PutDone
    PROVE  DeliveryStep
<1> DEFINE new == EditsIn(Head(page.puts).ops) \ EditsIn(log)
<1>1. page.puts # <<>> /\ store' = Head(page.puts) /\ log' = log /\ page'.text = page.text
    BY InvFields DEF PutDone, Pages
<1>2. page \in Pages /\ PageInv(page) /\ ViewsInv(log, store, page)
    BY InvFields DEF Base
<1>3. page.loaded
    BY <1>1, <1>2 DEF PageInv
<1>4. Len(page.puts) \in Nat /\ Len(page.puts) >= 1 /\ Head(page.puts) = page.puts[1] /\ 1 \in DOMAIN page.puts
    BY <1>1, <1>2 DEF Pages
<1>5. /\ Top(page) = Len(page.puts) + 1
      /\ View(store, page, 0) = store /\ View(store, page, 1) = Head(page.puts)
    BY <1>3, <1>4 DEF Top, View
<1>6. /\ EditsIn(store.ops) \subseteq EditsIn(log) \cup EditsIn(Head(page.puts).ops)
      /\ EditsIn(Head(page.puts).ops) \subseteq EditsIn(log) \cup EditsIn(page.ops)
    <2>1. 0 \in 0 .. Top(page) /\ 1 \in 0 .. Top(page) /\ Top(page) \in 0 .. Top(page) /\ 0 <= 1 /\ 1 <= Top(page)
        BY <1>4, <1>5
    <2>2. View(store, page, Top(page)).ops = page.ops
        BY <1>3, TextHas
    <2>. QED  BY <1>2, <1>5, <2>1, <2>2 DEF ViewsInv
<1>7. new \in SUBSET (page.text \ Delivery!Delivered)
    BY <1>3, <1>6, TextHas, Delivered
<1>8. EditsIn(store'.ops) \ EditsIn(log') = (EditsIn(store.ops) \ EditsIn(log)) \cup new
    BY <1>1, <1>6
<1>. QED  BY <1>1, <1>7, <1>8 DEF DeliveryStep, Delivery!Next, Delivery!Keep

LEMMA LearnDelivery ==
    ASSUME DocInv, Learn
    PROVE  DeliveryStep
<1> DEFINE op == log[page.v + 1]
           learned == [page EXCEPT !.v = @ + 1, !.text = @ \cup op.edits, !.owed = TRUE]
           done == [learned EXCEPT !.ops = Tail(@), !.inflight = FALSE]
<1>1. /\ page' = (IF Own(op) THEN Flush(done) ELSE learned) /\ page.v \in 0 .. Len(log) - 1
      /\ log' = log /\ store' = store
    BY DEF Learn
<1>2. page \in Pages /\ PageInv(page) /\ log \in Seq(Ops)
    BY InvFields
<1>3. op \in Ops /\ page.v + 1 \in DOMAIN log
    BY <1>1, <1>2
<1>4. op.edits \subseteq EditsIn(log) /\ op.edits \in SUBSET (Edits \cup OtherEdits)
    <2>1. op.edits \subseteq EditsIn(log)
        BY <1>3 DEF EditsIn
    <2> HIDE DEF op
    <2>. QED  BY <1>3, <2>1 DEF Ops
<1> HIDE DEF op
<1>5. learned \in Pages /\ learned.text = page.text \cup op.edits /\ learned.ops = page.ops
    <2> DEFINE v == page.v + 1
               text == page.text \cup op.edits
    <2>1. v \in Nat /\ text \in SUBSET (Edits \cup OtherEdits)
        BY <1>1, <1>2, <1>4 DEF Pages
    <2>2. learned = [page EXCEPT !.v = v, !.text = text, !.owed = TRUE]
        OBVIOUS
    <2> HIDE DEF v, text, learned
    <2>3. learned \in Pages /\ learned.text = text /\ learned.ops = page.ops
        BY <1>2, <2>1, <2>2 DEF Pages
    <2>. QED  BY <2>3 DEF text
<1> HIDE DEF learned
<1>6. CASE ~Own(op)
    BY <1>1, <1>4, <1>5, <1>6, Told
<1>7. CASE Own(op)
    <2>1. Tail(page.ops) \in Seq(Ops)
        BY <1>2, <1>7 DEF Own, PageInv, Pages
    <2>2. done \in Pages /\ done.text = learned.text
        BY <1>5, <2>1 DEF Pages
    <2> HIDE DEF done
    <2>. QED  BY <1>1, <1>4, <1>5, <1>7, <2>2, FlushText, Told
<1>. QED  BY <1>6, <1>7

\* The server applies what the record keeps, once.
LEMMA SubmitDelivery ==
    ASSUME DocInv, NEW m \in net, Submit(m)
    PROVE  DeliveryStep
<1> DEFINE known == \E i \in m.v + 1 .. Len(log) : log[i].src = m.op.src /\ log[i].seq = m.op.seq
           new == m.op.edits
<1>1. log' = (IF known THEN log ELSE Append(log, m.op)) /\ store' = store /\ page' = page
    BY DEF Submit
<1>2. /\ log \in Seq(Ops) /\ m \in Messages /\ Backed(log, net, store, page)
    BY InvFields
<1>3. CASE known
    BY <1>1, <1>3, Untold
<1>4. CASE ~known
    <2>1. m.op \in Ops
        BY <1>2 DEF Messages
    <2>2. new \cap EditsIn(log) = {}
        BY <1>4, SubmitApart DEF Apart, EditsIn
    <2>3. new \subseteq EditsIn(store.ops) \ EditsIn(log)
        <3> DEFINE y == Sight(m.op, m.v, 0)
        <3>1. y \in Sent(net, page) /\ y.op = m.op /\ y.at = 0
            BY SightFields DEF Sent
        <3> HIDE DEF y
        <3>2. View(store, page, 0) = store
            BY DEF View
        <3>. QED  BY <1>2, <2>2, <3>1, <3>2 DEF Backed
    <2>4. EditsIn(log') = EditsIn(log) \cup new
        BY <1>1, <1>2, <1>4, <2>1, AppendLog
    <2>5. [i \in DOMAIN log' |-> log'[i].edits] = Append([i \in DOMAIN log |-> log[i].edits], new)
        BY <1>1, <1>2, <1>4, <2>1, Applied
    <2>6. EditsIn(store'.ops) \ EditsIn(log') = (EditsIn(store.ops) \ EditsIn(log)) \ new
        BY <1>1, <2>4
    <2> HIDE DEF new
    <2>7. Delivery!Deliver(new)
        BY <1>1, <2>5, <2>6 DEF Delivery!Deliver
    <2>. QED  BY <2>3, <2>7 DEF DeliveryStep, Delivery!Next
<1>. QED  BY <1>3, <1>4

LEMMA OtherEditDelivery ==
    ASSUME DocInv, NEW e \in OtherEdits, OtherEdit(e)
    PROVE  DeliveryStep
<1> DEFINE o == [edits |-> {e}, src |-> 0, seq |-> 0]
<1>1. log' = Append(log, o) /\ e \notin EditsIn(log) /\ store' = store /\ page' = page
    BY DEF OtherEdit
<1>2. log \in Seq(Ops) /\ o \in Ops /\ o.edits = {e}
    BY InvFields, BoundsAssumption DEF Ops
<1> HIDE DEF o
<1>3. [i \in DOMAIN log' |-> log'[i].edits] = Append([i \in DOMAIN log |-> log[i].edits], {e})
    BY <1>1, <1>2, Applied
<1>4. EditsIn(store'.ops) \ EditsIn(log') = EditsIn(store.ops) \ EditsIn(log)
    <2>1. EditsIn(log') = EditsIn(log) \cup {e}
        BY <1>1, <1>2, AppendLog
    <2>2. e \notin EditsIn(store.ops)
        <3>1. made \subseteq Edits /\ page \in Pages /\ store \in Records
            BY InvFields
        <3>2. View(store, page, 0) = store /\ 0 \in 0 .. Top(page)
            BY <3>1, ViewsType DEF View
        <3>. QED  BY <3>1, <3>2, OnlyMade, EditsAssumption
    <2>. QED  BY <1>1, <2>1, <2>2
<1>5. Delivery!OtherEdit(e)
    BY <1>1, <1>3, <1>4, Delivered DEF Delivery!OtherEdit
<1>. QED  BY <1>5 DEF DeliveryStep, Delivery!Next

LEMMA NextDelivery ==
    ASSUME Restricted, DocInv, [Next]_vars
    PROVE  DeliveryStep
<1>1. CASE UNCHANGED vars
    BY <1>1, Untold DEF vars
<1>2. CASE Next
    BY <1>2, QuietDelivery, CloseDelivery, LoadOfflineDelivery, SubscribedDelivery, MakeDelivery,
       PutDoneDelivery, LearnDelivery, SubmitDelivery, OtherEditDelivery DEF Next, PageNext, Restricted
<1>. QED  BY <1>1, <1>2

LEMMA InitDelivery == Init => Delivery!Init
<1> SUFFICES ASSUME Init
             PROVE  Delivery!Init
    OBVIOUS
<1>1. /\ log = <<>> /\ page = NewPage(0)
      /\ store \in {NoRecord, [NoRecord EXCEPT !.v = 0]}
    BY DEF Init
<1>2. page.text = {} /\ store.ops = <<>>
    BY <1>1 DEF NewPage, NoRecord
<1>3. EditsIn(store.ops) = {} /\ [i \in DOMAIN log |-> log[i].edits] = <<>>
    BY <1>1, <1>2 DEF EditsIn
<1>. QED  BY <1>2, <1>3 DEF Delivery!Init

-----------------------------------------------------------------------------
(* The theorems                                                              *)

LEMMA InitInv ==
    ASSUME Init
    PROVE  DocInv
<1>1. /\ log = <<>> /\ net = {} /\ page = NewPage(0) /\ drops = 0 /\ made = {} /\ saved = {}
      /\ store \in {NoRecord, [NoRecord EXCEPT !.v = 0]}
    BY DEF Init
<1>2. page \in Pages /\ PageInv(page) /\ page.id = 0
    BY <1>1, NewPageType, BoundsAssumption
<1>3. ~page.loaded /\ page.sends = <<>> /\ ~page.online
    BY <1>1 DEF NewPage
<1>4. /\ store \in Records /\ store.ops = <<>> /\ store.text = {}
      /\ store.v = Unloaded \/ store.v = 0
    <2>1. <<>> \in Seq(Ops)
        OBVIOUS
    <2>2. NoRecord \in Records /\ NoRecord.ops = <<>> /\ NoRecord.text = {} /\ NoRecord.v = Unloaded
        BY <2>1 DEF NoRecord, Records
    <2> DEFINE r == [NoRecord EXCEPT !.v = 0]
    <2>3. r \in Records /\ r.ops = NoRecord.ops /\ r.text = NoRecord.text /\ r.v = 0
        <3> HIDE DEF NoRecord
        <3>. QED  BY <2>2 DEF Records
    <2>4. store = NoRecord \/ store = r
        BY <1>1
    <2> HIDE DEF r
    <2>. QED  BY <2>2, <2>3, <2>4
<1>5. Top(page) = 0 /\ View(store, page, 0) = store
    BY <1>3 DEF Top, View
<1>6. Held(store, page) = {}
    <2>1. \A i \in 0 .. Top(page) : DOMAIN View(store, page, i).ops = {}
        BY <1>4, <1>5
    <2>. QED  BY <2>1 DEF Held
<1>7. Sent(net, page) = {}
    BY <1>1, <1>3 DEF Sent
<1>8. Core(log, Held(store, page), Sent(net, page)) /\ Bounded(log, Held(store, page), Sent(net, page), made, page)
    BY <1>6, <1>7 DEF Core, Bounded, WithNumber, Raw
<1>9. LogInv(log, made, page)
    BY <1>1 DEF LogInv
<1>10. ViewsInv(log, store, page)
    <2>1. Sound(log, store)
        <3>1. DOMAIN store.ops = {} /\ EditsIn(store.ops) = {}
            BY <1>4 DEF EditsIn
        <3>2. EditsIn(SubSeq(log, 1, 0)) = {} /\ Len(log) = 0
            BY <1>1 DEF EditsIn
        <3>. QED  BY <1>4, <3>1, <3>2 DEF Sound
    <2>. QED  BY <1>5, <2>1 DEF ViewsInv
<1>11. Base(log, net, store, page, made)
    BY <1>1, <1>2, <1>4, <1>8, <1>9, <1>10 DEF Base
<1>12. Flying(page) /\ Backed(log, net, store, page)
    BY <1>3, <1>7 DEF Flying, Backed
<1>. QED  BY <1>1, <1>11, <1>12, BoundsAssumption DEF DocInv, SavedKept

LEMMA NextInv ==
    ASSUME Restricted, DocInv, [Next]_vars
    PROVE  DocInv'
<1> USE DEF Restricted
<1>1. CASE OpenPage
    BY <1>1, OpenPageStep
<1>2. CASE LoadOffline
    BY <1>2, LoadOfflineStep
<1>3. CASE Connect
    BY <1>3, ConnectStep
<1>4. CASE Subscribed
    BY <1>4, SubscribedStep
<1>5. CASE PutDone
    BY <1>5, PutDoneStep
<1>6. CASE Transmit
    BY <1>6, TransmitStep
<1>7. CASE Learn
    BY <1>7, LearnStep
<1>8. CASE UpdateLearned
    BY <1>8, UpdateLearnedStep
<1>9. CASE \E e \in Edits : Edit(e)
    BY <1>9, EditBase
<1>10. CASE \E m \in net : Submit(m)
    BY <1>10, SubmitStep
<1>11. CASE \E e \in OtherEdits : OtherEdit(e)
    BY <1>11, OtherEditStep
<1>12. CASE Drop
    BY <1>12, DropStep
<1>13. CASE Close
    BY <1>13, CloseStep
<1>14. CASE UNCHANGED vars
    BY <1>14 DEF vars, DocInv, SavedKept
<1>. QED
    BY <1>1, <1>2, <1>3, <1>4, <1>5, <1>6, <1>7, <1>8, <1>9, <1>10, <1>11, <1>12, <1>13, <1>14
    DEF Next, PageNext

\* What is known of operations stays true: an operation numbered once means one set of edits, in the
\* queue, in IndexedDB, on the network and on the server.
THEOREM DocInvariance == Restricted => (Spec => []DocInv)
<1> SUFFICES ASSUME Restricted
             PROVE  Spec => []DocInv
    OBVIOUS
<1>. QED  BY InitInv, NextInv, PTL DEF Spec

\* The queue, the record and the messages hold operations, with versions and numbers that make sense.
THEOREM DocTypeCorrect == Restricted => (Spec => []TypeOK)
<1> SUFFICES ASSUME Restricted
             PROVE  Spec => []TypeOK
    OBVIOUS
<1>1. DocInv => TypeOK
    BY DEF DocInv, Base, TypeOK
<1>. QED  BY DocInvariance, <1>1, PTL

\* However pages close and messages are repeated, the server applies each edit once
\* (ShareDBWebsocketAdapter: "The op can be submitted again idempotently").
THEOREM EditsAppliedOnce == Restricted => (Spec => []AppliedOnce)
<1> SUFFICES ASSUME Restricted
             PROVE  Spec => []AppliedOnce
    OBVIOUS
<1>1. DocInv => AppliedOnce
    BY DEF DocInv, Base, LogInv, Apart, AppliedOnce
<1>. QED  BY DocInvariance, <1>1, PTL

\* An edit once in IndexedDB is there until the server has it (RealtimeDoc.updateOfflineData).
THEOREM SavedEditsKept == Restricted => (Spec => []SavedKept)
<1> SUFFICES ASSUME Restricted
             PROVE  Spec => []SavedKept
    OBVIOUS
<1>1. DocInv => SavedKept
    BY DEF DocInv
<1>. QED  BY DocInvariance, <1>1, PTL

\* The page shows what the server had at its version and the edits not acknowledged, whether it was
\* loaded from IndexedDB or from the server (RealtimeDoc.loadFromOfflineStore).
THEOREM ServerShown == Restricted => (Spec => []ShowsServer)
<1> SUFFICES ASSUME Restricted
             PROVE  Spec => []ShowsServer
    OBVIOUS
<1>1. DocInv => ShowsServer
    <2> SUFFICES ASSUME DocInv, page.v # Unloaded
                 PROVE  page.text = EditsIn(SubSeq(log, 1, page.v)) \cup EditsIn(page.ops)
        BY DEF ShowsServer
    <2>1. Base(log, net, store, page, made) /\ PageInv(page)
        BY InvFields
    <2>2. page.loaded
        BY <2>1 DEF PageInv
    <2>. QED  BY <2>1, <2>2, TopSound DEF Sound
<1>. QED  BY DocInvariance, <1>1, PTL

\* The browser delivers edits as promised: initial states are initial, and every step of a page, of
\* IndexedDB, of the network or of the server is a step of EditDelivery or changes nothing there.
THEOREM DeliversEdits == Restricted => (Spec => DeliverySpec)
<1> SUFFICES ASSUME Restricted
             PROVE  Spec => DeliverySpec
    OBVIOUS
<1>1. DocInv /\ [Next]_vars => [Delivery!Next]_(Delivery!vars)
    BY NextDelivery DEF DeliveryStep
<1>. QED  BY DocInvariance, InitDelivery, <1>1, PTL DEF Spec, DeliverySpec, Delivery!Spec
=============================================================================
