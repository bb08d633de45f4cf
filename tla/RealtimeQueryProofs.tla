------------------------- MODULE RealtimeQueryProofs --------------------------
(***************************************************************************)
(* Theorems about a live query, for any documents, results and number of     *)
(* overlapping changes.                                                      *)
(*                                                                           *)
(* The lemmas about lists count how often a document occurs in one: splicing  *)
(* adds the counts, a run of insertions has each document once, and what      *)
(* remains of a list has no document more often than the list had.  Others    *)
(* follow the places of a result: a list lacks of it what is still to be       *)
(* inserted, and each run of insertions brings its part.  Those that need an   *)
(* induction argue from the least counterexample.                              *)
(***************************************************************************)
EXTENDS RealtimeQuery, FiniteSetTheorems, SequenceTheorems, WellFoundedInduction, TLAPS

-----------------------------------------------------------------------------
(* Numbers                                                                   *)

\* A set of natural numbers that is not empty has a least one.
LEMMA LeastNatural ==
    ASSUME NEW T \in SUBSET Nat, T # {}
    PROVE  \E n \in T : \A m \in T : n <= m
<1> DEFINE LT == {ss \in Nat \X Nat : ss[1] < ss[2]}
<1>1. OpToRel(<, Nat) = LT
    BY Zenon DEF OpToRel
<1>2. IsWellFoundedOn(LT, Nat)
    BY <1>1, NatLessThanWellFounded, Zenon
<1>3. \E n \in T : \A m \in T : ~(<<m, n>> \in LT)
    <2> HIDE DEF LT
    <2>. QED  BY <1>2, WFMin, Zenon
<1>4. \A m, n \in Nat : m < n => <<m, n>> \in LT
    OBVIOUS
<1> HIDE DEF LT
<1>5. PICK n \in T : \A m \in T : ~(<<m, n>> \in LT)
    BY <1>3
<1>6. \A m \in T : m \in Nat /\ n \in Nat
    OBVIOUS
<1>7. \A m \in T : ~(m < n)
    BY <1>4, <1>5, <1>6
<1>8. \A m \in T : n <= m
    BY <1>6, <1>7, SMT
<1>. QED  BY <1>8

-----------------------------------------------------------------------------
(* How often a document is in a list                                         *)

OneIf(P) == IF P THEN 1 ELSE 0
Distinct(s) == \A i, j \in DOMAIN s : s[i] = s[j] => i = j
Places(s, d) == {i \in DOMAIN s : s[i] = d}

\* The places of a document in a list are finitely many.
LEMMA OccurrencesType ==
    ASSUME NEW s \in Seq(DocIds), NEW d
    PROVE  IsFiniteSet(Places(s, d)) /\ Occurrences(s, d) \in Nat
<1>1. DOMAIN s = 1 .. Len(s) /\ Len(s) \in Nat
    OBVIOUS
<1>2. IsFiniteSet(1 .. Len(s))
    BY <1>1, FS_Interval
<1>3. Places(s, d) \subseteq 1 .. Len(s)
    BY <1>1 DEF Places
<1>4. IsFiniteSet(Places(s, d))
    BY <1>2, <1>3, FS_Subset
<1>. QED  BY <1>4, FS_CardinalityType DEF Occurrences, Places

\* A list of distinct documents has a document once or not at all.
LEMMA OccurrencesOnce ==
    ASSUME NEW s \in Seq(DocIds), Distinct(s), NEW d
    PROVE  Occurrences(s, d) = OneIf(d \in ElementsOf(s))
<1>1. CASE d \in ElementsOf(s)
    <2>1. PICK i \in DOMAIN s : s[i] = d
        BY <1>1 DEF ElementsOf
    <2>2. Places(s, d) = {i}
        BY <2>1 DEF Places, Distinct
    <2>. QED  BY <1>1, <2>2, FS_Singleton DEF Occurrences, Places, OneIf
<1>2. CASE d \notin ElementsOf(s)
    <2>1. Places(s, d) = {}
        BY <1>2 DEF Places, ElementsOf
    <2>. QED  BY <1>2, <2>1, FS_EmptySet DEF Occurrences, Places, OneIf
<1>. QED  BY <1>1, <1>2

\* A document that is in a list occurs in it.
LEMMA OccurrencesSome ==
    ASSUME NEW s \in Seq(DocIds), NEW d \in ElementsOf(s)
    PROVE  Occurrences(s, d) >= 1
<1>1. Places(s, d) # {}
    BY DEF Places, ElementsOf
<1>2. IsFiniteSet(Places(s, d)) /\ Occurrences(s, d) \in Nat
    BY OccurrencesType
<1>3. Occurrences(s, d) # 0
    BY <1>1, <1>2, FS_EmptySet DEF Occurrences, Places
<1>. QED  BY <1>2, <1>3

\* Appending one list to another adds how often they have a document.
LEMMA OccurrencesConcat ==
    ASSUME NEW s \in Seq(DocIds), NEW t \in Seq(DocIds), NEW d
    PROVE  /\ s \o t \in Seq(DocIds)
           /\ Occurrences(s \o t, d) = Occurrences(s, d) + Occurrences(t, d)
<1> DEFINE m == Len(s)
           u == s \o t
           Shifted == {i \in DOMAIN u : u[i] = d /\ i > m}
<1>1. /\ m \in Nat /\ Len(t) \in Nat /\ u \in Seq(DocIds) /\ Len(u) = m + Len(t)
      /\ DOMAIN u = 1 .. (m + Len(t)) /\ DOMAIN s = 1 .. m /\ DOMAIN t = 1 .. Len(t)
      /\ \A i \in 1 .. (m + Len(t)) : u[i] = IF i <= m THEN s[i] ELSE t[i - m]
    BY ConcatProperties
<1>2. /\ IsFiniteSet(Places(s, d)) /\ IsFiniteSet(Places(t, d)) /\ IsFiniteSet(Places(u, d))
      /\ Occurrences(s, d) \in Nat /\ Occurrences(t, d) \in Nat
    BY <1>1, OccurrencesType
<1> HIDE DEF m, u
<1>3. Places(u, d) = Places(s, d) \cup Shifted
    BY <1>1 DEF Places
<1>4. Places(s, d) \cap Shifted = {}
    BY <1>1 DEF Places
<1>5. IsFiniteSet(Shifted)
    BY <1>2, <1>3, FS_Subset
<1>6. Cardinality(Shifted) = Cardinality(Places(t, d))
    <2> DEFINE f == [i \in Places(t, d) |-> i + m]
    <2>1. f \in [Places(t, d) -> Shifted]
        BY <1>1 DEF Places
    <2>2. \A i, j \in Places(t, d) : f[i] = f[j] => i = j
        BY <1>1 DEF Places
    <2>3. \A k \in Shifted : k - m \in Places(t, d) /\ f[k - m] = k
        BY <1>1 DEF Places
    <2> HIDE DEF f
    <2>4. f \in Bijection(Places(t, d), Shifted)
        BY <2>1, <2>2, <2>3 DEF Bijection, Injection, Surjection, IsInjective
    <2>5. ExistsBijection(Places(t, d), Shifted)
        BY <2>4 DEF ExistsBijection
    <2>. QED  BY <1>2, <1>5, <2>5, FS_Bijection
<1>7. Cardinality(Places(u, d)) = Cardinality(Places(s, d)) + Cardinality(Shifted)
    <2>1. Cardinality(Places(s, d) \cap Shifted) = 0
        BY <1>4, FS_EmptySet
    <2>2. Cardinality(Places(s, d) \cup Shifted) =
              Cardinality(Places(s, d)) + Cardinality(Shifted) - Cardinality(Places(s, d) \cap Shifted)
        BY <1>2, <1>5, FS_Union
    <2>3. Cardinality(Places(s, d)) \in Nat /\ Cardinality(Shifted) \in Nat
        BY <1>2, <1>5, FS_CardinalityType
    <2>. QED  BY <1>3, <2>1, <2>2, <2>3
<1>. QED  BY <1>1, <1>6, <1>7 DEF Occurrences, Places, u

\* Splicing a list into another adds how often they have a document.
LEMMA OccurrencesSplice ==
    ASSUME NEW s \in Seq(DocIds), NEW ids \in Seq(DocIds), NEW k \in Nat, NEW d
    PROVE  /\ Splice(s, k, ids) \in Seq(DocIds)
           /\ Occurrences(Splice(s, k, ids), d) = Occurrences(s, d) + Occurrences(ids, d)
<1> DEFINE at == IF k > Len(s) THEN Len(s) ELSE k
           left == SubSeq(s, 1, at)
           right == SubSeq(s, at + 1, Len(s))
<1>1. Len(s) \in Nat /\ at \in Nat /\ at <= Len(s)
    OBVIOUS
<1>2. Splice(s, k, ids) = left \o ids \o right
    BY DEF Splice
<1> HIDE DEF at
<1>3. left \in Seq(DocIds) /\ right \in Seq(DocIds)
    BY <1>1, SubSeqProperties
<1>4. left \o right = s
    <2>1. 1 \in 1 .. (Len(s) + 1) /\ at \in (1 - 1) .. Len(s) /\ Len(s) \in at .. Len(s)
        BY <1>1
    <2>2. SubSeq(s, 1, at) \o SubSeq(s, at + 1, Len(s)) = SubSeq(s, 1, Len(s))
        BY <2>1, ConcatAdjacentSubSeq, Zenon
    <2>. QED  BY <2>2, SubSeqFull
<1> HIDE DEF left, right
<1>5. Occurrences(s, d) = Occurrences(left, d) + Occurrences(right, d)
    <2>1. Occurrences(left \o right, d) = Occurrences(left, d) + Occurrences(right, d)
        BY <1>3, OccurrencesConcat
    <2>. QED  BY <1>4, <2>1, Zenon
<1>6. /\ left \o ids \in Seq(DocIds)
      /\ Occurrences(left \o ids, d) = Occurrences(left, d) + Occurrences(ids, d)
    BY <1>3, OccurrencesConcat
<1>7. /\ left \o ids \o right \in Seq(DocIds)
      /\ Occurrences(left \o ids \o right, d) = Occurrences(left \o ids, d) + Occurrences(right, d)
    BY <1>3, <1>6, OccurrencesConcat
<1>8. /\ Occurrences(left, d) \in Nat /\ Occurrences(right, d) \in Nat
      /\ Occurrences(ids, d) \in Nat
    BY <1>3, OccurrencesType
<1>. QED  BY <1>2, <1>5, <1>6, <1>7, <1>8

-----------------------------------------------------------------------------
(* Runs of insertions                                                        *)

\* The first run of the places left begins and ends at places left, without a gap.
LEMMA FirstRun ==
    ASSUME NEW after \in Seq(DocIds), NEW left \in SUBSET (DOMAIN after), left # {}
    PROVE  /\ RunStart(left) \in left /\ RunEnd(left) \in left
           /\ RunStart(left) <= RunEnd(left)
           /\ RunStart(left) .. RunEnd(left) \subseteq left
           /\ RunEnd(left) + 1 \notin left
           /\ \A i \in left : RunStart(left) <= i
<1>1. DOMAIN after = 1 .. Len(after) /\ Len(after) \in Nat /\ left \in SUBSET Nat
    OBVIOUS
<1>2. \E m \in left : \A i \in left : m <= i
    BY <1>1, LeastNatural
<1> DEFINE start == RunStart(left)
<1>3. start \in left /\ \A i \in left : start <= i
    BY <1>2, Zenon DEF RunStart
<1> HIDE DEF start
<1> DEFINE T == {n \in Nat : n >= start /\ n + 1 \notin left}
<1>4. T \in SUBSET Nat /\ Len(after) \in T
    BY <1>1, <1>3
<1>5. PICK n \in T : \A m \in T : n <= m
    <2> HIDE DEF T
    <2>. QED  BY <1>4, LeastNatural
<1>6. \A i \in start .. n : i \in left
    <2>1. SUFFICES ASSUME NEW i \in start .. n, i \notin left
                   PROVE  FALSE
        OBVIOUS
    <2>2. i - 1 \in T
        BY <1>1, <1>3, <2>1
    <2>. QED  BY <1>1, <1>3, <1>5, <2>2
<1>7. n \in left /\ start .. n \subseteq left /\ n + 1 \notin left
    BY <1>1, <1>3, <1>5, <1>6
<1> DEFINE end == RunEnd(left)
<1>8. end \in left /\ start .. end \subseteq left /\ end + 1 \notin left
    BY <1>7, Zenon DEF RunEnd, start
<1> HIDE DEF end
<1>9. start <= end
    BY <1>3, <1>8
<1>. QED  BY <1>3, <1>8, <1>9, Zenon DEF start, end

\* A run has each of its documents once.
LEMMA RunIdsDistinct ==
    ASSUME NEW after \in Seq(DocIds), Distinct(after), NEW left \in SUBSET (DOMAIN after)
    PROVE  RunIds(after, left) \in Seq(DocIds) /\ Distinct(RunIds(after, left))
<1>1. CASE left = {}
    BY <1>1 DEF RunIds, Distinct
<1>2. CASE left # {}
    <2> DEFINE m == RunStart(left)
               n == RunEnd(left)
    <2>1. /\ m \in 1 .. Len(after) /\ n \in 1 .. Len(after) /\ m <= n /\ Len(after) \in Nat
          /\ DOMAIN after = 1 .. Len(after)
        BY <1>2, FirstRun
    <2>2. RunIds(after, left) = SubSeq(after, m, n)
        BY <1>2 DEF RunIds
    <2> HIDE DEF m, n
    <2>3. SubSeq(after, m, n) \in Seq(DocIds)
        BY <2>1, SubSeqProperties
    <2>4. Len(SubSeq(after, m, n)) = n - m + 1
        BY <2>1, SubSeqProperties
    <2>5. \A i \in 1 .. (n - m + 1) : SubSeq(after, m, n)[i] = after[m + i - 1]
        BY <2>1, SubSeqProperties
    <2>6. ASSUME NEW i \in DOMAIN SubSeq(after, m, n), NEW j \in DOMAIN SubSeq(after, m, n),
                 SubSeq(after, m, n)[i] = SubSeq(after, m, n)[j]
          PROVE  i = j
        <3>1. i \in 1 .. (n - m + 1) /\ j \in 1 .. (n - m + 1)
            BY <2>3, <2>4, <2>6, LenProperties
        <3>2. after[m + i - 1] = after[m + j - 1]
            BY <2>5, <2>6, <3>1
        <3>3. m + i - 1 \in DOMAIN after /\ m + j - 1 \in DOMAIN after
            BY <2>1, <3>1
        <3>4. m + i - 1 = m + j - 1
            BY <3>2, <3>3 DEF Distinct
        <3>. QED  BY <2>1, <3>1, <3>4
    <2>. QED  BY <2>2, <2>3, <2>6 DEF Distinct
<1>. QED  BY <1>1, <1>2

-----------------------------------------------------------------------------
(* What remains of a list                                                    *)

NextKept(f, before, after, i) ==
    IF i = 0 THEN <<>>
    ELSE IF after[i] \in ElementsOf(before) THEN Append(f[i - 1], after[i]) ELSE f[i - 1]

\* The recursive function in Remaining exists, and gives lists.
LEMMA KeptExists ==
    ASSUME NEW before, NEW after \in Seq(DocIds)
    PROVE  \E f \in [0 .. Len(after) -> Seq(DocIds)] :
               /\ f = [i \in 0 .. Len(after) |-> NextKept(f, before, after, i)]
               /\ Remaining(before, after) = f[Len(after)]
<1> DEFINE Good(n) == \E f \in [0 .. n -> Seq(DocIds)] :
                          \A i \in 0 .. n : f[i] = NextKept(f, before, after, i)
           T == {n \in 0 .. Len(after) : ~Good(n)}
<1>1. Len(after) \in Nat /\ \A i \in 1 .. Len(after) : after[i] \in DocIds
    OBVIOUS
<1>2. T = {}
    <2>1. SUFFICES ASSUME T # {} PROVE FALSE
        OBVIOUS
    <2>2. T \in SUBSET Nat
        BY <1>1
    <2>3. PICK n \in T : \A m \in T : n <= m
        <3> HIDE DEF T
        <3>. QED  BY <2>1, <2>2, LeastNatural
    <2>4. n \in 0 .. Len(after) /\ ~Good(n)
        OBVIOUS
    <2>5. CASE n = 0
        <3> DEFINE f == [i \in 0 .. 0 |-> <<>>]
        <3>1. f \in [0 .. 0 -> Seq(DocIds)]
            OBVIOUS
        <3>2. \A i \in 0 .. 0 : f[i] = NextKept(f, before, after, i)
            BY DEF NextKept
        <3> HIDE DEF f
        <3>3. Good(0)
            BY <3>1, <3>2
        <3>. QED  BY <2>4, <2>5, <3>3
    <2>6. CASE n # 0
        <3>1. n \in 1 .. Len(after) /\ n - 1 \in 0 .. Len(after) /\ n - 1 < n
            BY <1>1, <2>4, <2>6
        <3>2. n - 1 \notin T
            <4> HIDE DEF T
            <4>. QED  BY <2>3, <3>1, <1>1
        <3>3. Good(n - 1)
            BY <3>1, <3>2
        <3>4. PICK f \in [0 .. (n - 1) -> Seq(DocIds)] :
                  \A i \in 0 .. (n - 1) : f[i] = NextKept(f, before, after, i)
            BY <3>3
        <3> DEFINE g == [i \in 0 .. n |-> IF i < n THEN f[i] ELSE NextKept(f, before, after, n)]
        <3>5. NextKept(f, before, after, n) \in Seq(DocIds)
            <4>1. f[n - 1] \in Seq(DocIds) /\ after[n] \in DocIds
                BY <1>1, <3>1, <3>4
            <4>2. Append(f[n - 1], after[n]) \in Seq(DocIds)
                BY <4>1, AppendProperties
            <4>. QED  BY <2>6, <4>1, <4>2 DEF NextKept
        <3>6. g \in [0 .. n -> Seq(DocIds)]
            BY <3>1, <3>4, <3>5, <1>1
        <3>7. ASSUME NEW i \in 0 .. n
              PROVE  g[i] = NextKept(g, before, after, i)
            <4>1. CASE i = n
                <5>1. g[n] = NextKept(f, before, after, n) /\ g[n - 1] = f[n - 1]
                    BY <3>1, <1>1
                <5>. QED  BY <2>6, <4>1, <5>1 DEF NextKept
            <4>2. CASE i < n
                <5>1. g[i] = f[i] /\ f[i] = NextKept(f, before, after, i)
                    BY <3>1, <3>4, <4>2, <1>1
                <5>2. i # 0 => g[i - 1] = f[i - 1]
                    BY <3>1, <4>2, <1>1
                <5>. QED  BY <5>1, <5>2 DEF NextKept
            <4>. QED  BY <4>1, <4>2, <3>1, <1>1
        <3> HIDE DEF g
        <3>8. Good(n)
            BY <3>6, <3>7
        <3>. QED  BY <2>4, <3>8
    <2>. QED  BY <2>5, <2>6
<1>3. Good(Len(after))
    <2>1. Len(after) \in 0 .. Len(after)
        BY <1>1
    <2> HIDE DEF Good
    <2>. QED  BY <1>2, <2>1
<1>4. PICK f \in [0 .. Len(after) -> Seq(DocIds)] :
          \A i \in 0 .. Len(after) : f[i] = NextKept(f, before, after, i)
    BY <1>3
<1> DEFINE IsKept(h) == h = [i \in 0 .. Len(after) |-> NextKept(h, before, after, i)]
<1>5. IsKept(f)
    BY <1>4
<1>6. ASSUME NEW h, IsKept(h)
      PROVE  h = f
    <2> DEFINE U == {i \in 0 .. Len(after) : h[i] # f[i]}
    <2>1. U = {}
        <3>1. SUFFICES ASSUME U # {} PROVE FALSE
            OBVIOUS
        <3>2. U \in SUBSET Nat
            BY <1>1
        <3>3. PICK n \in U : \A m \in U : n <= m
            <4> HIDE DEF U
            <4>. QED  BY <3>1, <3>2, LeastNatural
        <3>4. h[n] = NextKept(h, before, after, n) /\ f[n] = NextKept(f, before, after, n)
            <4>1. h[n] = [i \in 0 .. Len(after) |-> NextKept(h, before, after, i)][n]
                BY <1>6
            <4>. QED  BY <1>4, <4>1
        <3>5. n # 0 => h[n - 1] = f[n - 1]
            <4>1. n # 0 => n - 1 \in 0 .. Len(after) /\ ~(n <= n - 1)
                BY <1>1
            <4>. QED  BY <3>3, <4>1
        <3>6. h[n] # f[n]
            BY <3>3
        <3>7. NextKept(h, before, after, n) = NextKept(f, before, after, n)
            BY <3>5, Zenon DEF NextKept
        <3>. QED  BY <3>4, <3>6, <3>7, Zenon
    <2>2. h = [i \in 0 .. Len(after) |-> h[i]]
        BY <1>6, Zenon
    <2>3. \A i \in 0 .. Len(after) : h[i] = f[i]
        BY <2>1
    <2>. QED  BY <2>2, <2>3
<1>7. Remaining(before, after) = (CHOOSE h : IsKept(h))[Len(after)]
    BY Zenon DEF Remaining, NextKept
<1>8. (CHOOSE h : IsKept(h)) = f
    <2>1. IsKept(CHOOSE h : IsKept(h))
        <3> HIDE DEF IsKept
        <3>. QED  BY <1>5, Zenon
    <2> HIDE DEF IsKept
    <2>. QED  BY <1>6, <2>1, Zenon
<1>. QED  BY <1>4, <1>5, <1>7, <1>8

\* What remains of a list has each document once, and none that the list had not.
LEMMA RemainingDistinct ==
    ASSUME NEW before, NEW after \in Seq(DocIds), Distinct(after)
    PROVE  /\ Remaining(before, after) \in Seq(DocIds)
           /\ Distinct(Remaining(before, after))
           /\ ElementsOf(Remaining(before, after)) \subseteq ElementsOf(before)
<1>1. PICK f \in [0 .. Len(after) -> Seq(DocIds)] :
          /\ f = [i \in 0 .. Len(after) |-> NextKept(f, before, after, i)]
          /\ Remaining(before, after) = f[Len(after)]
    BY KeptExists
<1>2. Len(after) \in Nat /\ DOMAIN after = 1 .. Len(after)
    OBVIOUS
<1>3. \A i \in 0 .. Len(after) : f[i] = NextKept(f, before, after, i)
    BY <1>1
<1> DEFINE From(s, n) == \A k \in DOMAIN s : /\ s[k] \in ElementsOf(before)
                                             /\ \E j \in 1 .. n : s[k] = after[j]
           T == {n \in 0 .. Len(after) : ~(Distinct(f[n]) /\ From(f[n], n))}
<1>4. T = {}
    <2>1. SUFFICES ASSUME T # {} PROVE FALSE
        OBVIOUS
    <2>2. T \in SUBSET Nat
        BY <1>2
    <2>3. PICK n \in T : \A m \in T : n <= m
        <3> HIDE DEF T
        <3>. QED  BY <2>1, <2>2, LeastNatural
    <2>4. n \in 0 .. Len(after) /\ ~(Distinct(f[n]) /\ From(f[n], n))
        OBVIOUS
    <2>5. n # 0
        <3>1. CASE n = 0
            <4>1. f[0] = <<>>
                BY <1>2, <1>3 DEF NextKept
            <4>2. Distinct(f[0]) /\ From(f[0], 0)
                BY <4>1 DEF Distinct
            <4>. QED  BY <2>4, <3>1, <4>2
        <3>. QED  BY <3>1
    <2>6. n - 1 \in 0 .. Len(after) /\ n - 1 \notin T /\ n \in 1 .. Len(after)
        <3>1. n - 1 \in 0 .. Len(after) /\ ~(n <= n - 1) /\ n \in 1 .. Len(after)
            BY <1>2, <2>4, <2>5
        <3> HIDE DEF T
        <3>. QED  BY <2>3, <3>1
    <2> DEFINE s == f[n - 1]
    <2>7. s \in Seq(DocIds) /\ Distinct(s) /\ From(s, n - 1)
        BY <1>1, <2>6
    <2>8. f[n] = IF after[n] \in ElementsOf(before) THEN Append(s, after[n]) ELSE s
        BY <1>3, <2>4, <2>5 DEF NextKept
    <2> HIDE DEF s, T
    <2>9. \A j \in 1 .. (n - 1) : j \in 1 .. n /\ j \in DOMAIN after /\ j # n
        BY <1>2, <2>6
    <2>10. CASE after[n] \notin ElementsOf(before)
        <3>1. f[n] = s
            BY <2>8, <2>10
        <3>2. From(s, n)
            BY <2>7, <2>9
        <3>. QED  BY <2>4, <2>7, <3>1, <3>2, Zenon
    <2>11. CASE after[n] \in ElementsOf(before)
        <3>1. f[n] = Append(s, after[n])
            BY <2>8, <2>11
        <3>2. after[n] \in DocIds /\ n \in DOMAIN after /\ n \in 1 .. n
            BY <1>2, <2>6
        <3> DEFINE t == Append(s, after[n])
        <3>3. /\ Len(s) \in Nat /\ DOMAIN s = 1 .. Len(s) /\ DOMAIN t = 1 .. (Len(s) + 1)
              /\ \A i \in 1 .. Len(s) : t[i] = s[i]
              /\ t[Len(s) + 1] = after[n]
            BY <2>7, <3>2, AppendProperties
        <3> HIDE DEF t
        <3>4. \A i \in 1 .. Len(s) : s[i] # after[n]
            BY <2>7, <2>9, <3>2, <3>3 DEF Distinct
        <3>5. Distinct(t)
            BY <2>7, <3>3, <3>4 DEF Distinct
        <3>6. From(t, n)
            <4>1. \A i \in 1 .. Len(s) : t[i] \in ElementsOf(before) /\ \E j \in 1 .. n : t[i] = after[j]
                BY <2>7, <2>9, <3>3
            <4>. QED  BY <2>11, <3>2, <3>3, <4>1
        <3>. QED  BY <2>4, <3>1, <3>5, <3>6, Zenon DEF t
    <2>. QED  BY <2>10, <2>11
<1>5. Distinct(f[Len(after)]) /\ From(f[Len(after)], Len(after))
    BY <1>2, <1>4
<1>. QED  BY <1>1, <1>2, <1>5 DEF ElementsOf

\* A change takes no document more often out of a list than the list has it.
LEMMA RemainingFewer ==
    ASSUME NEW before \in Seq(DocIds), NEW after \in Seq(DocIds), Distinct(after), NEW d
    PROVE  /\ Remaining(before, after) \in Seq(DocIds)
           /\ Occurrences(Remaining(before, after), d) \in Nat /\ Occurrences(before, d) \in Nat
           /\ Occurrences(Remaining(before, after), d) <= Occurrences(before, d)
<1> DEFINE rest == Remaining(before, after)
<1>1. rest \in Seq(DocIds) /\ Distinct(rest) /\ ElementsOf(rest) \subseteq ElementsOf(before)
    BY RemainingDistinct
<1> HIDE DEF rest
<1>2. Occurrences(rest, d) \in Nat /\ Occurrences(before, d) \in Nat
    BY <1>1, OccurrencesType
<1>3. Occurrences(rest, d) = OneIf(d \in ElementsOf(rest))
    BY <1>1, OccurrencesOnce
<1>4. CASE d \in ElementsOf(rest)
    <2>1. Occurrences(before, d) >= 1
        BY <1>1, <1>4, OccurrencesSome
    <2>. QED  BY <1>1, <1>2, <1>3, <1>4, <2>1 DEF OneIf, rest
<1>5. CASE d \notin ElementsOf(rest)
    BY <1>1, <1>2, <1>3, <1>5 DEF OneIf, rest
<1>. QED  BY <1>4, <1>5

-----------------------------------------------------------------------------
(* What a list lacks of a result                                             *)

\* The places left before a place, and how many they are.
Earlier(left, i) == {j \in left : j < i}
Below(left, i) == Cardinality(Earlier(left, i))

\* The list is `after' without what belongs at the places left.
Lacks(s, after, left) ==
    /\ Len(s) = Len(after) - Below(left, Len(after) + 1)
    /\ \A i \in DOMAIN after \ left :
           i - Below(left, i) \in DOMAIN s /\ s[i - Below(left, i)] = after[i]

LEMMA BelowFinite ==
    ASSUME NEW N \in Nat, NEW left \in SUBSET (1 .. N), NEW i \in Nat
    PROVE  /\ IsFiniteSet(Earlier(left, i)) /\ Below(left, i) \in Nat
           /\ left = {} => Below(left, i) = 0
<1>1. IsFiniteSet(1 .. N)
    BY FS_Interval
<1>2. Earlier(left, i) \subseteq 1 .. N
    BY DEF Earlier
<1>3. IsFiniteSet(Earlier(left, i))
    BY <1>1, <1>2, FS_Subset
<1>4. left = {} => Earlier(left, i) = {}
    BY DEF Earlier
<1>. QED  BY <1>3, <1>4, FS_CardinalityType, FS_EmptySet DEF Below

LEMMA BelowNext ==
    ASSUME NEW N \in Nat, NEW left \in SUBSET (1 .. N), NEW i \in Nat
    PROVE  Below(left, i + 1) = Below(left, i) + OneIf(i \in left)
<1>1. IsFiniteSet(Earlier(left, i)) /\ Below(left, i) \in Nat
    BY BelowFinite
<1>4. \A j \in left : j \in Nat /\ (j < i + 1 <=> j < i \/ j = i)
    OBVIOUS
<1>2. CASE i \in left
    <2>1. i \notin Earlier(left, i)
        BY DEF Earlier
    <2>2. \A j : j \in Earlier(left, i + 1) <=> j \in Earlier(left, i) \cup {i}
        BY <1>2, <1>4, Zenon DEF Earlier
    <2>3. Earlier(left, i + 1) = Earlier(left, i) \cup {i}
        BY <2>2, Zenon
    <2>. QED  BY <1>1, <1>2, <2>1, <2>3, FS_AddElement DEF Below, OneIf
<1>3. CASE i \notin left
    <2>1. Earlier(left, i + 1) = Earlier(left, i)
        BY <1>3, <1>4 DEF Earlier
    <2>. QED  BY <1>1, <1>3, <2>1 DEF Below, OneIf
<1>. QED  BY <1>2, <1>3

\* What is below a place, when the first run of insertions is made.
LEMMA BelowFirstRun ==
    ASSUME NEW after \in Seq(DocIds), NEW left \in SUBSET (DOMAIN after), left # {},
           NEW i \in 1 .. (Len(after) + 1)
    PROVE  /\ i <= RunStart(left) => Below(left, i) = 0
           /\ i <= RunEnd(left) + 1 => Below(LaterRuns(left), i) = 0
           /\ RunEnd(left) < i =>
                  /\ Below(left, i) = RunEnd(left) - RunStart(left) + 1 + Below(LaterRuns(left), i)
                  /\ Below(LaterRuns(left), i) <= i - 1 - RunEnd(left)
<1> DEFINE m == RunStart(left)
           n == RunEnd(left)
           rest == LaterRuns(left)
<1>1. Len(after) \in Nat /\ DOMAIN after = 1 .. Len(after)
    OBVIOUS
<1>2. /\ m \in left /\ n \in left /\ m <= n /\ m .. n \subseteq left /\ n + 1 \notin left
      /\ \A j \in left : m <= j
    BY FirstRun, Zenon
<1>3. m \in 1 .. Len(after) /\ n \in 1 .. Len(after)
    BY <1>1, <1>2
<1>4. rest = left \ (m .. n)
    BY DEF LaterRuns
<1> HIDE DEF m, n, rest
<1>5. /\ i \in Nat /\ m \in Nat /\ n \in Nat
      /\ rest \in SUBSET (1 .. Len(after)) /\ \A j \in rest : j \in Nat /\ n + 1 < j
    <2>1. i \in Nat /\ m \in Nat /\ n \in Nat /\ rest \in SUBSET (1 .. Len(after))
        BY <1>1, <1>3, <1>4
    <2>2. ASSUME NEW j \in rest PROVE j \in Nat /\ n + 1 < j
        <3>1. j \in left /\ j \in Nat /\ m <= j /\ j # n + 1
            BY <1>2, <1>4, <2>1
        <3>. QED  BY <1>4, <2>1, <3>1
    <2>. QED  BY <2>1, <2>2
<1>6. i <= m => Earlier(left, i) = {}
    BY <1>1, <1>2, <1>3 DEF Earlier
<1>7. i <= n + 1 => Earlier(rest, i) = {}
    <2>1. i <= n + 1 => \A j \in rest : ~(j < i)
        BY <1>5
    <2>. QED  BY <2>1, Zenon DEF Earlier
<1>8. ASSUME n < i
      PROVE  Below(left, i) = n - m + 1 + Below(rest, i) /\ Below(rest, i) <= i - 1 - n
    <2>1. IsFiniteSet(Earlier(rest, i)) /\ Below(rest, i) \in Nat
        <3>1. Len(after) \in Nat /\ i \in Nat /\ rest \in SUBSET (1 .. Len(after))
            BY <1>1, <1>5
        <3>. QED  BY <3>1, BelowFinite, Zenon
    <2>2. IsFiniteSet(m .. n) /\ Cardinality(m .. n) = n - m + 1
        BY <1>2, <1>5, FS_Interval
    <2>3. Earlier(left, i) = (m .. n) \cup Earlier(rest, i)
        <3>1. \A j \in m .. n : j \in left /\ j < i
            BY <1>2, <1>5, <1>8
        <3>2. \A j \in left : j \in rest \/ j \in m .. n
            BY <1>4
        <3>3. \A j \in rest : j \in left
            BY <1>4
        <3>4. \A j : j \in Earlier(left, i) <=> j \in (m .. n) \cup Earlier(rest, i)
            BY <3>1, <3>2, <3>3, Zenon DEF Earlier
        <3>. QED  BY <3>4, Zenon
    <2>4. (m .. n) \cap Earlier(rest, i) = {}
        BY <1>4 DEF Earlier
    <2>5. Below(left, i) = Cardinality(m .. n) + Below(rest, i) - Cardinality({})
        BY <2>1, <2>2, <2>3, <2>4, FS_Union DEF Below
    <2>6. Earlier(rest, i) \subseteq (n + 1) .. (i - 1)
        <3>1. \A j \in rest : j < i => j \in (n + 1) .. (i - 1)
            BY <1>5
        <3>. QED  BY <3>1, Zenon DEF Earlier
    <2>7. IsFiniteSet((n + 1) .. (i - 1)) /\ Cardinality((n + 1) .. (i - 1)) = i - 1 - n
        <3>1. n + 1 \in Int /\ i - 1 \in Int /\ (n + 1 > i - 1 => i - 1 - n = 0)
              /\ (i - 1) - (n + 1) + 1 = i - 1 - n
            BY <1>5, <1>8
        <3>. QED  BY <3>1, FS_Interval
    <2>8. Below(rest, i) <= i - 1 - n
        BY <2>6, <2>7, FS_Subset DEF Below
    <2>. QED  BY <1>3, <2>1, <2>2, <2>5, <2>8, FS_EmptySet
<1>9. (i <= m => Below(left, i) = 0) /\ (i <= n + 1 => Below(rest, i) = 0)
    BY <1>6, <1>7, FS_EmptySet DEF Below
<1>. QED  BY <1>8, <1>9 DEF m, n, rest

\* u is the list s with ids spliced in after its first k documents: where everything goes.
IsSplice(u, s, ids, k) ==
    /\ u \in Seq(DocIds) /\ Len(u) = Len(s) + Len(ids)
    /\ \A p \in 1 .. (Len(s) + Len(ids)) :
           u[p] = IF p <= k THEN s[p]
                  ELSE IF p <= k + Len(ids) THEN ids[p - k] ELSE s[p - Len(ids)]

LEMMA SplicePlaces ==
    ASSUME NEW s \in Seq(DocIds), NEW ids \in Seq(DocIds), NEW k \in 0 .. Len(s)
    PROVE  IsSplice(Splice(s, k, ids), s, ids, k)
<1> DEFINE front == SubSeq(s, 1, k)
           back == SubSeq(s, k + 1, Len(s))
<1>1. Len(s) \in Nat /\ Len(ids) \in Nat /\ k \in Nat /\ k <= Len(s)
    OBVIOUS
<1>2. Splice(s, k, ids) = front \o ids \o back
    <2>1. (IF k > Len(s) THEN Len(s) ELSE k) = k
        BY <1>1
    <2>. QED  BY <2>1, Zenon DEF Splice
<1>3. front \in Seq(DocIds) /\ Len(front) = k /\ \A p \in 1 .. k : front[p] = s[p]
    <2>1. 1 \in 1 .. (Len(s) + 1) /\ k \in (1 - 1) .. Len(s)
        BY <1>1
    <2>. QED  BY <1>1, <2>1, SubSeqProperties
<1>4. /\ back \in Seq(DocIds) /\ Len(back) = Len(s) - k
      /\ \A p \in 1 .. (Len(s) - k) : back[p] = s[k + p]
    <2>1. k + 1 \in 1 .. (Len(s) + 1) /\ Len(s) \in k .. Len(s)
        BY <1>1
    <2>. QED  BY <1>1, <2>1, SubSeqProperties
<1> HIDE DEF front, back
<1> DEFINE fi == front \o ids
           u == fi \o back
<1>5. /\ fi \in Seq(DocIds) /\ Len(fi) = k + Len(ids)
      /\ \A p \in 1 .. (k + Len(ids)) : fi[p] = IF p <= k THEN front[p] ELSE ids[p - k]
    BY <1>1, <1>3, ConcatProperties
<1> HIDE DEF fi
<1>6. /\ u \in Seq(DocIds) /\ Len(u) = Len(fi) + Len(back)
      /\ \A p \in 1 .. (Len(fi) + Len(back)) :
             u[p] = IF p <= Len(fi) THEN fi[p] ELSE back[p - Len(fi)]
    BY <1>4, <1>5, ConcatProperties
<1>7. u = Splice(s, k, ids)
    BY <1>2 DEF fi
<1> HIDE DEF u
<1>8. ASSUME NEW p \in 1 .. (Len(s) + Len(ids))
      PROVE  u[p] = IF p <= k THEN s[p]
                    ELSE IF p <= k + Len(ids) THEN ids[p - k] ELSE s[p - Len(ids)]
    <2>1. p \in Nat /\ p \in 1 .. (Len(fi) + Len(back))
        BY <1>1, <1>4, <1>5
    <2>2. CASE p <= k
        <3>1. p \in 1 .. k /\ p \in 1 .. (k + Len(ids)) /\ p <= Len(fi)
            BY <1>1, <1>5, <2>1, <2>2
        <3>. QED  BY <1>3, <1>5, <1>6, <2>1, <2>2, <3>1
    <2>3. CASE p > k /\ p <= k + Len(ids)
        <3>1. p \in 1 .. (k + Len(ids)) /\ p <= Len(fi) /\ ~(p <= k)
            BY <1>1, <1>5, <2>1, <2>3
        <3>. QED  BY <1>5, <1>6, <2>1, <2>3, <3>1
    <2>4. CASE p > k + Len(ids)
        <3> DEFINE q == p - Len(fi)
        <3>1. q \in 1 .. (Len(s) - k) /\ k + q = p - Len(ids) /\ ~(p <= Len(fi)) /\ ~(p <= k)
            BY <1>1, <1>5, <2>1, <2>4
        <3>2. u[p] = back[q]
            BY <1>6, <2>1, <3>1
        <3>3. back[q] = s[k + q]
            BY <1>4, <3>1, Zenon
        <3> HIDE DEF q
        <3>4. u[p] = s[p - Len(ids)]
            BY <3>1, <3>2, <3>3
        <3>. QED  BY <1>1, <2>1, <2>4, <3>1, <3>4
    <2>. QED  BY <1>1, <2>1, <2>2, <2>3, <2>4
<1>9. Len(u) = Len(s) + Len(ids)
    BY <1>1, <1>4, <1>5, <1>6
<1>. QED  BY <1>6, <1>7, <1>8, <1>9 DEF IsSplice

\* The first run inserted, the list lacks what the later runs bring.
LEMMA SpliceHeals ==
    ASSUME NEW s \in Seq(DocIds), NEW after \in Seq(DocIds), NEW left \in SUBSET (DOMAIN after),
           left # {}, Lacks(s, after, left)
    PROVE  Lacks(Splice(s, RunStart(left) - 1, RunIds(after, left)), after, LaterRuns(left))
<1> DEFINE N == Len(after)
           m == RunStart(left)
           n == RunEnd(left)
           rest == LaterRuns(left)
           ids == RunIds(after, left)
           u == Splice(s, m - 1, ids)
<1>1. N \in Nat /\ DOMAIN after = 1 .. N /\ Len(s) \in Nat /\ DOMAIN s = 1 .. Len(s)
    OBVIOUS
<1>2. m \in 1 .. N /\ n \in 1 .. N /\ m <= n
    BY <1>1, FirstRun
<1>3. ids = SubSeq(after, m, n)
    BY DEF RunIds
<1>4. rest = left \ (m .. n)
    BY DEF LaterRuns
<1>5. \A i \in 1 .. (N + 1) :
          /\ i <= m => Below(left, i) = 0
          /\ i <= n + 1 => Below(rest, i) = 0
          /\ n < i => Below(left, i) = n - m + 1 + Below(rest, i) /\ Below(rest, i) <= i - 1 - n
    BY BelowFirstRun
<1>6. \A i \in 1 .. (N + 1) : Below(left, i) \in Nat /\ Below(rest, i) \in Nat
    <2>1. rest \in SUBSET (1 .. N) /\ left \in SUBSET (1 .. N) /\ \A i \in 1 .. (N + 1) : i \in Nat
        BY <1>1, <1>4
    <2> HIDE DEF N, rest
    <2>. QED  BY <1>1, <2>1, BelowFinite
<1>7. Len(s) = N - Below(left, N + 1)
    BY DEF Lacks
<1>8. \A i \in (1 .. N) \ left : i - Below(left, i) \in 1 .. Len(s) /\ s[i - Below(left, i)] = after[i]
    BY <1>1 DEF Lacks
<1> HIDE DEF N, m, n, rest
<1>9. ids \in Seq(DocIds) /\ Len(ids) = n - m + 1 /\ \A p \in 1 .. (n - m + 1) : ids[p] = after[m + p - 1]
    <2>1. m \in 1 .. (Len(after) + 1) /\ n \in (m - 1) .. Len(after)
        BY <1>1, <1>2 DEF N
    <2>2. /\ SubSeq(after, m, n) \in Seq(DocIds) /\ Len(SubSeq(after, m, n)) = n - m + 1
          /\ \A p \in 1 .. (n - m + 1) : SubSeq(after, m, n)[p] = after[m + p - 1]
        BY <1>2, <2>1, SubSeqProperties
    <2>. QED  BY <1>3, <2>2, Zenon
<1> HIDE DEF ids
<1>10. N + 1 \in 1 .. (N + 1) /\ n < N + 1
    BY <1>1, <1>2
<1>11. m - 1 \in 0 .. Len(s)
    BY <1>1, <1>2, <1>5, <1>6, <1>7, <1>10
<1>12. /\ u \in Seq(DocIds) /\ Len(u) = Len(s) + (n - m + 1)
       /\ \A p \in 1 .. (Len(s) + (n - m + 1)) :
              u[p] = IF p <= m - 1 THEN s[p]
                     ELSE IF p <= (m - 1) + (n - m + 1) THEN ids[p - (m - 1)] ELSE s[p - (n - m + 1)]
    <2>1. IsSplice(u, s, ids, m - 1)
        BY <1>9, <1>11, SplicePlaces
    <2>2. (m - 1) + Len(ids) = (m - 1) + (n - m + 1) /\ Len(s) + Len(ids) = Len(s) + (n - m + 1)
        BY <1>9
    <2> HIDE DEF u
    <2>. QED  BY <1>9, <2>1, <2>2 DEF IsSplice
<1> HIDE DEF u
<1>13. Len(u) = N - Below(rest, N + 1)
    BY <1>1, <1>2, <1>5, <1>6, <1>7, <1>10, <1>12
<1>14. ASSUME NEW i \in (1 .. N) \ rest
       PROVE  i - Below(rest, i) \in 1 .. Len(u) /\ u[i - Below(rest, i)] = after[i]
    <2>1. i \in 1 .. (N + 1) /\ i \in Nat /\ m \in Nat /\ n \in Nat
        BY <1>1, <1>2
    <2>2. CASE i < m
        <3>1. Below(left, i) = 0 /\ Below(rest, i) = 0
            BY <1>2, <1>5, <2>1, <2>2
        <3>2. i \in (1 .. N) \ left
            BY <1>4, <2>1, <2>2
        <3>3. i \in 1 .. Len(s) /\ s[i] = after[i]
            BY <1>8, <2>1, <3>1, <3>2
        <3>4. i \in 1 .. (Len(s) + (n - m + 1)) /\ i <= m - 1
            BY <1>1, <1>2, <2>1, <2>2, <3>3
        <3>. QED  BY <1>12, <2>1, <3>1, <3>3, <3>4
    <2>3. CASE m <= i /\ i <= n
        <3>1. Below(rest, i) = 0
            BY <1>2, <1>5, <2>1, <2>3
        <3>2. i \in 1 .. (Len(s) + (n - m + 1)) /\ ~(i <= m - 1) /\ i <= (m - 1) + (n - m + 1)
            BY <1>1, <1>2, <1>11, <2>1, <2>3
        <3>3. u[i] = ids[i - (m - 1)]
            BY <1>12, <3>2
        <3>4. i - (m - 1) \in 1 .. (n - m + 1) /\ m + (i - (m - 1)) - 1 = i
            BY <1>2, <2>1, <2>3
        <3>5. ids[i - (m - 1)] = after[i]
            BY <1>9, <3>4
        <3>. QED  BY <1>12, <2>1, <3>1, <3>2, <3>3, <3>5
    <2>4. CASE n < i
        <3> DEFINE p == i - Below(rest, i)
                   q == i - Below(left, i)
        <3>1. Below(rest, i) \in Nat /\ Below(left, i) = n - m + 1 + Below(rest, i)
              /\ Below(rest, i) <= i - 1 - n
            BY <1>5, <1>6, <2>1, <2>4
        <3>2. i \in (1 .. N) \ left
            BY <1>4, <2>1, <2>4
        <3>3. q \in 1 .. Len(s) /\ s[q] = after[i]
            BY <1>8, <3>2
        <3>4. p \in Int /\ q = p - (n - m + 1) /\ p > n
            BY <2>1, <2>4, <3>1
        <3> HIDE DEF p, q
        <3>5. p \in 1 .. (Len(s) + (n - m + 1)) /\ ~(p <= m - 1) /\ ~(p <= (m - 1) + (n - m + 1))
            BY <1>1, <1>2, <2>1, <3>3, <3>4
        <3>6. u[p] = s[p - (n - m + 1)]
            BY <1>12, <3>5
        <3>7. u[p] = after[i]
            BY <3>3, <3>4, <3>6
        <3>. QED  BY <1>12, <3>5, <3>7 DEF p
    <2>. QED  BY <2>1, <2>2, <2>3, <2>4
<1>. QED  BY <1>1, <1>12, <1>13, <1>14 DEF Lacks, u, N, m, n, rest, ids

\* What remains of a list lacks what is new.
LEMMA RemainingLacks ==
    ASSUME NEW before, NEW after \in Seq(DocIds)
    PROVE  Lacks(Remaining(before, after), after, NewPlaces(before, after))
<1> DEFINE P == NewPlaces(before, after)
<1>1. PICK f \in [0 .. Len(after) -> Seq(DocIds)] :
          /\ f = [i \in 0 .. Len(after) |-> NextKept(f, before, after, i)]
          /\ Remaining(before, after) = f[Len(after)]
    BY KeptExists
<1>2. Len(after) \in Nat /\ DOMAIN after = 1 .. Len(after)
    OBVIOUS
<1>3. \A i \in 0 .. Len(after) : f[i] = NextKept(f, before, after, i)
    BY <1>1
<1>4. P \in SUBSET (1 .. Len(after)) /\ \A i \in 1 .. Len(after) : i \in P <=> after[i] \notin ElementsOf(before)
    BY <1>2 DEF NewPlaces
<1> HIDE DEF P
<1>5. \A i \in Nat : Below(P, i) \in Nat /\ Below(P, i + 1) = Below(P, i) + OneIf(i \in P)
    BY <1>2, <1>4, BelowFinite, BelowNext
<1>6. Below(P, 1) = 0
    <2>1. Earlier(P, 1) = {}
        BY <1>4 DEF Earlier
    <2>. QED  BY <2>1, FS_EmptySet DEF Below
<1> DEFINE Upto(s, n) ==
               /\ Len(s) = n - Below(P, n + 1)
               /\ \A i \in (1 .. n) \ P : i - Below(P, i) \in 1 .. Len(s) /\ s[i - Below(P, i)] = after[i]
           T == {n \in 0 .. Len(after) : ~Upto(f[n], n)}
<1>7. T = {}
    <2>1. SUFFICES ASSUME T # {} PROVE FALSE
        OBVIOUS
    <2>2. T \in SUBSET Nat
        BY <1>2
    <2>3. PICK n \in T : \A m \in T : n <= m
        <3> HIDE DEF T
        <3>. QED  BY <2>1, <2>2, LeastNatural
    <2>4. n \in 0 .. Len(after) /\ ~Upto(f[n], n)
        OBVIOUS
    <2>5. n # 0
        <3>1. CASE n = 0
            <4>1. f[0] = <<>>
                BY <1>2, <1>3 DEF NextKept
            <4>2. Upto(f[0], 0)
                BY <1>6, <4>1
            <4>. QED  BY <2>4, <3>1, <4>2
        <3>. QED  BY <3>1
    <2>6. n - 1 \in 0 .. Len(after) /\ n - 1 \notin T /\ n \in 1 .. Len(after)
        <3>1. n - 1 \in 0 .. Len(after) /\ ~(n <= n - 1) /\ n \in 1 .. Len(after)
            BY <1>2, <2>4, <2>5
        <3> HIDE DEF T
        <3>. QED  BY <2>3, <3>1
    <2> DEFINE s == f[n - 1]
    <2>7. s \in Seq(DocIds) /\ Upto(s, n - 1)
        BY <1>1, <2>6
    <2>8. f[n] = IF after[n] \in ElementsOf(before) THEN Append(s, after[n]) ELSE s
        BY <1>3, <2>4, <2>5 DEF NextKept
    <2>9. n \in Nat /\ (n - 1) + 1 = n /\ Len(s) \in Nat
        BY <2>6, <2>7
    <2>10. /\ Len(s) = n - 1 - Below(P, n)
           /\ \A i \in (1 .. (n - 1)) \ P :
                  i - Below(P, i) \in 1 .. Len(s) /\ s[i - Below(P, i)] = after[i]
        BY <2>7, <2>9
    <2>11. Below(P, n) \in Nat /\ Below(P, n + 1) = Below(P, n) + OneIf(n \in P)
        BY <1>5, <2>9
    <2>12. n \in P <=> after[n] \notin ElementsOf(before)
        BY <1>4, <2>6
    <2>13. \A i \in (1 .. n) \ P : i = n \/ i \in (1 .. (n - 1)) \ P
        BY <2>9
    <2> HIDE DEF s, T
    <2>14. CASE n \in P
        <3>1. f[n] = s
            BY <2>8, <2>12, <2>14
        <3>2. Below(P, n + 1) = Below(P, n) + 1
            BY <2>11, <2>14 DEF OneIf
        <3>3. Len(s) = n - Below(P, n + 1)
            BY <2>9, <2>10, <2>11, <3>2
        <3>4. \A i \in (1 .. n) \ P : i - Below(P, i) \in 1 .. Len(s) /\ s[i - Below(P, i)] = after[i]
            BY <2>10, <2>13, <2>14
        <3>. QED  BY <2>4, <3>1, <3>3, <3>4
    <2>15. CASE n \notin P
        <3> DEFINE t == Append(s, after[n])
        <3>1. f[n] = t /\ after[n] \in DocIds
            BY <1>2, <2>6, <2>8, <2>12, <2>15
        <3>2. /\ Len(t) = Len(s) + 1 /\ t[Len(s) + 1] = after[n]
              /\ \A p \in 1 .. Len(s) : t[p] = s[p]
            BY <2>7, <3>1, AppendProperties
        <3> HIDE DEF t
        <3>3. Below(P, n + 1) = Below(P, n)
            BY <2>11, <2>15 DEF OneIf
        <3>4. Len(t) = n - Below(P, n + 1) /\ n - Below(P, n) = Len(t)
            BY <2>9, <2>10, <2>11, <3>2, <3>3
        <3>5. ASSUME NEW i \in (1 .. n) \ P
              PROVE  i - Below(P, i) \in 1 .. Len(t) /\ t[i - Below(P, i)] = after[i]
            <4>1. CASE i = n
                BY <2>9, <3>2, <3>4, <4>1
            <4>2. CASE i # n
                <5>1. i - Below(P, i) \in 1 .. Len(s) /\ s[i - Below(P, i)] = after[i]
                    BY <2>10, <2>13, <4>2
                <5>. QED  BY <2>9, <3>2, <5>1
            <4>. QED  BY <4>1, <4>2
        <3>. QED  BY <2>4, <3>1, <3>4, <3>5
    <2>. QED  BY <2>14, <2>15
<1>8. Upto(f[Len(after)], Len(after)) /\ f[Len(after)] \in Seq(DocIds)
    <2>1. Len(after) \in 0 .. Len(after)
        BY <1>2
    <2> HIDE DEF Upto
    <2>. QED  BY <1>1, <1>7, <2>1
<1> DEFINE r == Remaining(before, after)
<1>9. Upto(r, Len(after)) /\ DOMAIN r = 1 .. Len(r)
    <2> HIDE DEF Upto
    <2>. QED  BY <1>1, <1>8
<1> HIDE DEF r
<1>. QED  BY <1>2, <1>9 DEF Lacks, P, r

\* A list that lacks nothing is the result.
LEMMA LacksNothing ==
    ASSUME NEW s \in Seq(DocIds), NEW after \in Seq(DocIds), Lacks(s, after, {})
    PROVE  s = after
<1>1. Len(after) \in Nat /\ DOMAIN after = 1 .. Len(after)
    OBVIOUS
<1>2. \A i \in Nat : Below({}, i) = 0
    BY <1>1, BelowFinite
<1>3. Len(s) = Len(after) /\ \A i \in 1 .. Len(after) : s[i] = after[i]
    BY <1>1, <1>2 DEF Lacks
<1>. QED  BY <1>1, <1>3, SeqEqual

-----------------------------------------------------------------------------
(* The changes that count a document                                         *)

Holders(chs, d) == {c \in Slot : d \in ElementsOf(Inserting(chs[c]))}

\* When one change goes on, the number of those that are inserting a document follows that one.
LEMMA HoldersFollow ==
    ASSUME NEW old, NEW new, NEW c \in Slot, NEW d,
           \A o \in Slot \ {c} : Inserting(new[o]) = Inserting(old[o])
    PROVE  /\ Cardinality(Holders(old, d)) \in Nat
           /\ Cardinality(Holders(new, d)) =
                  Cardinality(Holders(old, d)) - OneIf(d \in ElementsOf(Inserting(old[c])))
                                               + OneIf(d \in ElementsOf(Inserting(new[c])))
<1> DEFINE H == Holders(old, d)
           G == Holders(new, d)
           rest == H \ {c}
<1>1. IsFiniteSet(Slot)
    BY QueryAssumption, FS_Interval DEF Slot
<1>2. IsFiniteSet(H) /\ IsFiniteSet(G) /\ IsFiniteSet(rest)
    BY <1>1, FS_Subset DEF Holders
<1>3. Cardinality(H) \in Nat /\ Cardinality(G) \in Nat /\ Cardinality(rest) \in Nat
    BY <1>2, FS_CardinalityType
<1>4. Cardinality(H) = Cardinality(rest) + OneIf(c \in H)
    <2>1. CASE c \in H
        BY <1>2, <1>3, <2>1, FS_RemoveElement DEF OneIf
    <2>2. CASE c \notin H
        <3>1. rest = H
            BY <2>2
        <3>. QED  BY <1>3, <2>2, <3>1 DEF OneIf
    <2>. QED  BY <2>1, <2>2
<1>5. G = IF c \in G THEN rest \cup {c} ELSE rest
    BY DEF Holders
<1>6. Cardinality(G) = Cardinality(rest) + OneIf(c \in G)
    <2>1. CASE c \in G
        <3>1. c \notin rest
            OBVIOUS
        <3> HIDE DEF rest, G
        <3>. QED  BY <1>2, <1>3, <1>5, <2>1, <3>1, FS_AddElement DEF OneIf
    <2>2. CASE c \notin G
        <3> HIDE DEF rest, G
        <3>. QED  BY <1>3, <1>5, <2>2 DEF OneIf
    <2>. QED  BY <2>1, <2>2
<1>7. /\ c \in H <=> d \in ElementsOf(Inserting(old[c]))
      /\ c \in G <=> d \in ElementsOf(Inserting(new[c]))
    BY DEF Holders
<1> HIDE DEF H, G, rest
<1>8. /\ OneIf(c \in H) = OneIf(d \in ElementsOf(Inserting(old[c])))
      /\ OneIf(c \in G) = OneIf(d \in ElementsOf(Inserting(new[c])))
    BY <1>7 DEF OneIf
<1>9. OneIf(c \in H) \in Nat /\ OneIf(c \in G) \in Nat
    BY DEF OneIf
<1>. QED  BY <1>3, <1>4, <1>6, <1>8, <1>9 DEF H, G

-----------------------------------------------------------------------------
(* The inductive invariant                                                   *)

QueryKinds ==
    /\ QueryTypeOK
    /\ \A c \in Slot :
           /\ changes[c].phase # "free" => changes[c].after \in Results
           /\ changes[c].phase = "begun" =>
                  changes[c].left # {} /\ changes[c].left \in SUBSET (DOMAIN changes[c].after)
           /\ changes[c].phase # "free" /\ changes[c].first =>
                  /\ status = "subscribing"
                  /\ \A o \in Slot \ {c} : changes[o].phase = "free"

\* Before and without a subscription nothing is counted.
Unsubscribed ==
    status \in {"new", "fetched"} =>
        /\ \A c \in Slot : changes[c].phase = "free"
        /\ \A d \in DocIds : counts[d] = 0 /\ live[d] = 0
        /\ status = "new" => docs = <<>>

Balance ==
    status \in {"subscribing", "subscribed"} =>
        \A d \in DocIds : counts[d] = Occurrences(docs, d) + Cardinality(Holders(changes, d))

Release ==
    released =>
        /\ status = "disposed"
        /\ \A c \in Slot : changes[c].phase = "free"
        /\ \A d \in DocIds : counts[d] = 0

QueryInv == QueryKinds /\ Unsubscribed /\ Balance /\ ListenersCover /\ Release

LEMMA ResultsDistinct ==
    ASSUME NEW after \in Results
    PROVE  after \in Seq(DocIds) /\ Distinct(after)
BY QueryAssumption DEF Distinct

LEMMA QueryInitInv == QueryInit => QueryInv
<1> SUFFICES ASSUME QueryInit PROVE QueryInv
    OBVIOUS
<1> USE DEF QueryInit
<1>1. QueryKinds
    <2>1. Free \in Changes /\ <<>> \in Seq(DocIds) /\ 0 \in 0 .. MaxChanges
        BY QueryAssumption DEF Changes, Free
    <2>2. changes \in [Slot -> Changes] /\ \A c \in Slot : changes[c].phase = "free"
        BY <2>1 DEF Free
    <2>3. shown \in [sure : BOOLEAN, ids : Seq(DocIds)]
        BY <2>1
    <2>4. counts \in [DocIds -> Int] /\ live \in [DocIds -> Int]
        OBVIOUS
    <2>5. QueryTypeOK
        BY <2>1, <2>2, <2>3, <2>4 DEF QueryTypeOK
    <2>. QED  BY <2>2, <2>5 DEF QueryKinds
<1>2. Unsubscribed
    BY DEF Unsubscribed, Free
<1>3. Balance /\ Release
    BY DEF Balance, Release
<1>4. ListenersCover
    BY DEF ListenersCover
<1>. QED  BY <1>1, <1>2, <1>3, <1>4 DEF QueryInv

\* A change that begins: what it takes out of the list, and what it asks for.
LEMMA BeginChangeKeeps ==
    ASSUME QueryInv, NEW c \in Slot, NEW after \in Results, NEW first \in BOOLEAN,
           BeginChange(c, after, first), changes[c].phase # "begun",
           first => status = "subscribing" /\ \A o \in Slot \ {c} : changes[o].phase = "free",
           changes[c].phase = "local" \/ status = "subscribed",
           status \notin {"new", "fetched"}, ~released,
           ready' \in BOOLEAN, released' = released, begun' \in 0 .. MaxChanges
    PROVE  QueryInv'
<1> DEFINE places == NewPlaces(docs, after)
           new == RunIds(after, places)
           gone == Removed(docs, after)
           others == {o \in Slot \ {c} : changes[o].phase = "begun"}
<1>1. /\ docs' = Remaining(docs, after)
      /\ counts' = [d \in DocIds |-> CountRemoved(counts, docs, after)[d] + Occurrences(new, d)]
      /\ live' = [d \in DocIds |-> [e \in DocIds |->
             live[e] - (IF e \in gone \cap held THEN 1 ELSE 0)][d] + Occurrences(new, d)]
      /\ held' = (held \ gone) \cup ElementsOf(new)
      /\ changes' = [o \in Slot |->
             IF o = c THEN IF places = {} THEN Free
                           ELSE [phase |-> "begun", first |-> first, after |-> after,
                                 left |-> places, alone |-> others = {}]
             ELSE [changes[o] EXCEPT !.alone = FALSE]]
      /\ shown' = IF places = {} /\ others = {} THEN [sure |-> TRUE, ids |-> after]
                  ELSE [sure |-> FALSE, ids |-> <<>>]
      /\ status' = IF first /\ places = {} THEN "subscribed" ELSE status
    BY DEF BeginChange, CountInserted, Listening
<1>2. /\ QueryTypeOK /\ QueryKinds /\ Balance /\ ListenersCover
      /\ docs \in Seq(DocIds) /\ changes \in [Slot -> Changes]
      /\ counts \in [DocIds -> Int] /\ live \in [DocIds -> Int] /\ held \subseteq DocIds
    BY DEF QueryInv, QueryKinds, QueryTypeOK
<1>3. after \in Seq(DocIds) /\ Distinct(after) /\ places \in SUBSET (DOMAIN after)
    BY ResultsDistinct DEF NewPlaces
<1>4. new \in Seq(DocIds) /\ Distinct(new)
    BY <1>3, RunIdsDistinct
<1> HIDE DEF places, new, gone, others
<1>5. \A d : /\ Occurrences(new, d) = OneIf(d \in ElementsOf(new))
             /\ Occurrences(new, d) \in Nat
    BY <1>4, OccurrencesOnce DEF OneIf
<1>6. \A d : /\ docs' \in Seq(DocIds)
             /\ Occurrences(docs', d) \in Nat /\ Occurrences(docs, d) \in Nat
             /\ Occurrences(docs', d) <= Occurrences(docs, d)
    BY <1>1, <1>2, <1>3, RemainingFewer
<1>7. \A d \in DocIds : counts'[d] = counts[d] - (Occurrences(docs, d) - Occurrences(docs', d))
                                               + Occurrences(new, d)
    BY <1>1 DEF CountRemoved
<1>8. \A d \in DocIds : live'[d] = live[d] - OneIf(d \in gone \cap held) + Occurrences(new, d)
    BY <1>1 DEF OneIf
<1>9. /\ Inserting(changes[c]) = <<>> /\ Inserting(changes'[c]) = new
      /\ \A o \in Slot \ {c} : Inserting(changes'[o]) = Inserting(changes[o])
    <2>1. Inserting(changes[c]) = <<>>
        BY DEF Inserting
    <2>2. Inserting(changes'[c]) = new
        BY <1>1 DEF Inserting, Free, new, RunIds
    <2>3. ASSUME NEW o \in Slot \ {c}
          PROVE  Inserting(changes'[o]) = Inserting(changes[o])
        <3>1. changes'[o] = [changes[o] EXCEPT !.alone = FALSE] /\ changes[o] \in Changes
            BY <1>1, <1>2
        <3>2. /\ changes'[o].phase = changes[o].phase /\ changes'[o].after = changes[o].after
              /\ changes'[o].left = changes[o].left
            BY <3>1 DEF Changes
        <3>. QED  BY <3>2 DEF Inserting
    <2>. QED  BY <2>1, <2>2, <2>3
<1>10. QueryKinds'
    <2>1. docs' \in Seq(DocIds) /\ held' \subseteq DocIds
        <3>1. ElementsOf(new) \subseteq DocIds
            BY <1>4 DEF ElementsOf
        <3>. QED  BY <1>1, <1>2, <1>6, <3>1
    <2>2. counts' \in [DocIds -> Int] /\ live' \in [DocIds -> Int]
        <3>1. ASSUME NEW d \in DocIds
              PROVE  counts'[d] \in Int /\ live'[d] \in Int
            <4>1. counts[d] \in Int /\ live[d] \in Int /\ OneIf(d \in gone \cap held) \in Int
                BY <1>2 DEF OneIf
            <4>2. /\ Occurrences(new, d) \in Int /\ Occurrences(docs, d) \in Int
                  /\ Occurrences(docs', d) \in Int
                BY <1>5, <1>6
            <4>. QED  BY <1>7, <1>8, <4>1, <4>2
        <3>2. counts' = [d \in DocIds |-> counts'[d]] /\ live' = [d \in DocIds |-> live'[d]]
            BY <1>1
        <3>. QED  BY <3>1, <3>2
    <2>3. /\ Free \in Changes
          /\ [phase |-> "begun", first |-> first, after |-> after, left |-> places,
              alone |-> others = {}] \in Changes
        BY <1>3 DEF Changes, Free
    <2>4. changes' \in [Slot -> Changes]
        <3>1. \A o \in Slot : [changes[o] EXCEPT !.alone = FALSE] \in Changes
            BY <1>2 DEF Changes
        <3>. QED  BY <1>1, <2>3, <3>1
    <2>5. status' \in {"new", "subscribing", "subscribed", "fetched", "disposed"}
        BY <1>1, <1>2 DEF QueryTypeOK
    <2>6. shown' \in [sure : BOOLEAN, ids : Seq(DocIds)]
        BY <1>1, <1>3
    <2>7. QueryTypeOK'
        BY <1>2, <2>1, <2>2, <2>4, <2>5, <2>6 DEF QueryTypeOK
    <2>8. \A o \in Slot \ {c} :
              /\ changes'[o].phase = changes[o].phase /\ changes'[o].after = changes[o].after
              /\ changes'[o].left = changes[o].left /\ changes'[o].first = changes[o].first
        <3>1. \A o \in Slot \ {c} :
                  changes'[o] = [changes[o] EXCEPT !.alone = FALSE] /\ changes[o] \in Changes
            BY <1>1, <1>2
        <3>. QED  BY <3>1 DEF Changes
    <2>9. ASSUME NEW o \in Slot
          PROVE  /\ changes'[o].phase # "free" => changes'[o].after \in Results
                 /\ changes'[o].phase = "begun" =>
                        changes'[o].left # {} /\ changes'[o].left \in SUBSET (DOMAIN changes'[o].after)
                 /\ changes'[o].phase # "free" /\ changes'[o].first =>
                        /\ status' = "subscribing"
                        /\ \A p \in Slot \ {o} : changes'[p].phase = "free"
        <3>1. CASE o = c
            BY <1>1, <1>3, <2>8, <3>1 DEF Free
        <3>2. CASE o # c
            <4>1. ASSUME changes[o].phase # "free", changes[o].first
                  PROVE  FALSE
                <5>1. status = "subscribing" /\ changes[c].phase = "free"
                    BY <1>2, <3>2, <4>1 DEF QueryKinds
                <5>. QED  BY <5>1
            <4>. QED  BY <1>2, <2>8, <3>2, <4>1 DEF QueryKinds
        <3>. QED  BY <3>1, <3>2
    <2>. QED  BY <2>7, <2>9 DEF QueryKinds
<1>11. Unsubscribed' /\ Release'
    BY <1>1 DEF Unsubscribed, Release
<1>12. Balance'
    <2>1. SUFFICES ASSUME status' \in {"subscribing", "subscribed"}, NEW d \in DocIds
                   PROVE  counts'[d] = Occurrences(docs', d) + Cardinality(Holders(changes', d))
        BY DEF Balance
    <2>2. counts[d] = Occurrences(docs, d) + Cardinality(Holders(changes, d))
        <3>1. status \in {"subscribing", "subscribed"}
            BY <1>1, <2>1
        <3>. QED  BY <1>2, <3>1 DEF Balance
    <2>3. /\ Cardinality(Holders(changes, d)) \in Nat
          /\ Cardinality(Holders(changes', d)) =
                 Cardinality(Holders(changes, d)) - OneIf(d \in ElementsOf(Inserting(changes[c])))
                                                  + OneIf(d \in ElementsOf(Inserting(changes'[c])))
        <3> DEFINE chs == changes'
        <3>1. \A o \in Slot \ {c} : Inserting(chs[o]) = Inserting(changes[o])
            BY <1>9
        <3> HIDE DEF chs
        <3>2. /\ Cardinality(Holders(changes, d)) \in Nat
              /\ Cardinality(Holders(chs, d)) =
                     Cardinality(Holders(changes, d)) - OneIf(d \in ElementsOf(Inserting(changes[c])))
                                                      + OneIf(d \in ElementsOf(Inserting(chs[c])))
            BY <3>1, HoldersFollow
        <3>. QED  BY <3>2 DEF chs
    <2>4. OneIf(d \in ElementsOf(Inserting(changes[c]))) = 0
        BY <1>9 DEF ElementsOf, OneIf
    <2>5. OneIf(d \in ElementsOf(Inserting(changes'[c]))) = Occurrences(new, d)
        BY <1>5, <1>9
    <2>. QED  BY <1>2, <1>5, <1>6, <1>7, <2>2, <2>3, <2>4, <2>5
<1>13. ListenersCover'
    <2>1. SUFFICES ASSUME status' # "disposed", NEW d \in DocIds
                   PROVE  live'[d] >= counts'[d]
        BY DEF ListenersCover
    <2>2. live[d] >= counts[d]
        BY <1>1, <1>2, <2>1 DEF ListenersCover
    <2>3. OneIf(d \in gone \cap held) <= Occurrences(docs, d) - Occurrences(docs', d)
        <3>1. d \in gone => Occurrences(docs, d) > Occurrences(docs', d)
            BY <1>1 DEF gone, Removed
        <3>. QED  BY <1>6, <3>1 DEF OneIf
    <2>4. OneIf(d \in gone \cap held) \in Nat
        BY DEF OneIf
    <2>. QED  BY <1>2, <1>5, <1>6, <1>7, <1>8, <2>2, <2>3, <2>4
<1>. QED  BY <1>10, <1>11, <1>12, <1>13 DEF QueryInv

\* A query is asked of the store: what it counts and hears stays as it is.
LEMMA AskStoreKeeps ==
    ASSUME QueryInv, NEW c \in Slot, NEW after \in Results, NEW first \in BOOLEAN,
           AskStore(c, after, first),
           \/ first /\ status = "new" /\ status' = "subscribing"
           \/ ~first /\ status = "subscribed" /\ status' = "subscribed"
    PROVE  QueryInv'
<1> DEFINE asked == [phase |-> "local", first |-> first, after |-> after, left |-> {}, alone |-> FALSE]
<1>1. /\ QueryTypeOK /\ QueryKinds /\ Unsubscribed /\ Balance /\ ListenersCover /\ Release
      /\ changes \in [Slot -> Changes] /\ docs \in Seq(DocIds) /\ counts \in [DocIds -> Int]
    BY DEF QueryInv, QueryKinds, QueryTypeOK
<1>2. /\ changes[c].phase = "free" /\ begun < MaxChanges /\ begun' = begun + 1
      /\ changes' = [changes EXCEPT ![c] = asked]
      /\ ready' = ready /\ docs' = docs /\ counts' = counts /\ held' = held /\ live' = live
      /\ shown' = shown /\ released' = released
    BY Zenon DEF AskStore
<1>3. asked \in Changes
    BY ResultsDistinct DEF Changes
<1> HIDE DEF asked
<1>4. changes' \in [Slot -> Changes]
    BY <1>1, <1>2, <1>3
<1>5. QueryTypeOK'
    <2>1. begun' \in 0 .. MaxChanges
        BY <1>1, <1>2, QueryAssumption DEF QueryTypeOK
    <2>2. status' \in {"new", "subscribing", "subscribed", "fetched", "disposed"}
        OBVIOUS
    <2>. QED  BY <1>1, <1>2, <1>4, <2>1, <2>2 DEF QueryTypeOK
<1>6. changes'[c] = asked /\ \A o \in Slot \ {c} : changes'[o] = changes[o]
    BY <1>1, <1>2
<1>7. /\ asked.phase = "local" /\ asked.first = first /\ asked.after = after
    BY DEF asked
<1>8. QueryKinds'
    <2>1. ASSUME NEW o \in Slot
          PROVE  /\ changes'[o].phase # "free" => changes'[o].after \in Results
                 /\ changes'[o].phase = "begun" =>
                        changes'[o].left # {} /\ changes'[o].left \in SUBSET (DOMAIN changes'[o].after)
                 /\ changes'[o].phase # "free" /\ changes'[o].first =>
                        /\ status' = "subscribing"
                        /\ \A p \in Slot \ {o} : changes'[p].phase = "free"
        <3>1. CASE o = c
            <4>1. first => \A p \in Slot : changes[p].phase = "free"
                BY <1>1 DEF Unsubscribed
            <4>. QED  BY <1>6, <1>7, <3>1, <4>1
        <3>2. CASE o # c
            <4>1. ~(changes[o].phase # "free" /\ changes[o].first)
                BY <1>1 DEF QueryKinds, Unsubscribed
            <4>. QED  BY <1>1, <1>6, <3>2, <4>1 DEF QueryKinds
        <3>. QED  BY <3>1, <3>2
    <2>. QED  BY <1>5, <2>1 DEF QueryKinds
<1>9. Unsubscribed' /\ ListenersCover' /\ Release'
    BY <1>1, <1>2 DEF Unsubscribed, ListenersCover, Release
<1>10. \A o \in Slot : Inserting(changes'[o]) = Inserting(changes[o])
    BY <1>2, <1>6, <1>7 DEF Inserting
<1>11. \A d : Holders(changes', d) = Holders(changes, d)
    BY <1>10 DEF Holders
<1>12. Balance'
    <2>1. SUFFICES ASSUME NEW d \in DocIds
                   PROVE  counts'[d] = Occurrences(docs', d) + Cardinality(Holders(changes', d))
        BY DEF Balance
    <2>2. CASE status = "subscribed"
        BY <1>1, <1>2, <1>11, <2>2 DEF Balance
    <2>3. CASE status = "new"
        <3>1. counts[d] = 0 /\ docs = <<>> /\ \A o \in Slot : changes[o].phase = "free"
            BY <1>1, <2>3 DEF Unsubscribed
        <3>2. Holders(changes, d) = {}
            BY <3>1 DEF Holders, Inserting, ElementsOf
        <3>3. Occurrences(<<>>, d) = 0
            BY FS_EmptySet DEF Occurrences
        <3>4. Cardinality({}) = 0
            BY FS_EmptySet
        <3>5. counts'[d] = 0
            BY <1>2, <3>1
        <3>6. Occurrences(docs', d) = 0
            <4>1. docs' = <<>>
                BY <1>2, <3>1
            <4>. QED  BY <3>3, <4>1, Zenon
        <3>7. Cardinality(Holders(changes', d)) = 0
            BY <1>11, <3>2, <3>4, Zenon
        <3>. QED  BY <3>5, <3>6, <3>7
    <2>. QED  BY <2>2, <2>3
<1>. QED  BY <1>5, <1>8, <1>9, <1>12 DEF QueryInv

\* A run of insertions is inserted: its documents were counted when it began.
LEMMA InsertKeeps ==
    ASSUME QueryInv, NEW c \in Slot, Insert(c)
    PROVE  QueryInv'
<1> DEFINE ch == changes[c]
           rest == LaterRuns(ch.left)
           ids == RunIds(ch.after, ch.left)
           new == RunIds(ch.after, rest)
           k == RunStart(ch.left) - 1
           next == IF rest = {} THEN Free ELSE [ch EXCEPT !.left = rest]
           isLast == ch.first /\ rest = {} /\ status = "subscribing"
<1>1. /\ QueryTypeOK /\ QueryKinds /\ Unsubscribed /\ Balance /\ ListenersCover /\ Release
      /\ changes \in [Slot -> Changes] /\ docs \in Seq(DocIds) /\ held \subseteq DocIds
      /\ counts \in [DocIds -> Int] /\ live \in [DocIds -> Int]
    BY DEF QueryInv, QueryKinds, QueryTypeOK
<1>2. /\ ch.phase = "begun"
      /\ docs' = Splice(docs, k, ids)
      /\ counts' = [d \in DocIds |-> counts[d] + Occurrences(new, d)]
      /\ live' = [d \in DocIds |-> live[d] + Occurrences(new, d)]
      /\ held' = held \cup ElementsOf(new)
      /\ changes' = [changes EXCEPT ![c] = next]
      /\ shown' = IF rest = {} /\ ch.alone THEN [sure |-> TRUE, ids |-> ch.after]
                  ELSE [sure |-> FALSE, ids |-> <<>>]
      /\ status' = IF isLast THEN "subscribed" ELSE status
      /\ ready' = ready /\ released' = released /\ begun' = begun
    BY DEF Insert, CountInserted, Listening
<1>3. /\ ch \in Changes /\ ch.after \in Results /\ ch.left # {}
      /\ ch.left \in SUBSET (DOMAIN ch.after)
      /\ ch.after \in Seq(DocIds) /\ Distinct(ch.after)
      /\ rest \in SUBSET (DOMAIN ch.after)
    <2>1. /\ ch \in Changes /\ ch.after \in Results /\ ch.left # {}
          /\ ch.left \in SUBSET (DOMAIN ch.after)
        BY <1>1, <1>2 DEF QueryKinds
    <2>. QED  BY <2>1, ResultsDistinct DEF LaterRuns
<1>4. k \in Nat
    <2>1. RunStart(ch.left) \in DOMAIN ch.after
        BY <1>3, FirstRun, Zenon
    <2>2. DOMAIN ch.after = 1 .. Len(ch.after)
        BY <1>3
    <2>. QED  BY <2>1, <2>2
<1>5. ids \in Seq(DocIds) /\ Distinct(ids) /\ new \in Seq(DocIds) /\ Distinct(new)
    BY <1>3, RunIdsDistinct, Zenon
<1>6. Inserting(ch) = ids
    BY <1>2 DEF Inserting
<1>7. Inserting(next) = new
    <2>1. CASE rest = {}
        BY <2>1 DEF Inserting, Free, RunIds
    <2>2. CASE rest # {}
        <3>1. next.phase = "begun" /\ next.after = ch.after /\ next.left = rest
            BY <1>2, <1>3, <2>2 DEF Changes
        <3>. QED  BY <3>1 DEF Inserting
    <2>. QED  BY <2>1, <2>2
<1>8. /\ next \in Changes /\ next.after = (IF rest = {} THEN <<>> ELSE ch.after)
      /\ next.left = rest /\ next.phase = (IF rest = {} THEN "free" ELSE "begun")
      /\ next.first = (IF rest = {} THEN FALSE ELSE ch.first)
    <2>1. CASE rest = {}
        BY <2>1 DEF Changes, Free
    <2>2. CASE rest # {}
        <3>1. rest \in SUBSET Nat
            BY <1>3
        <3>. QED  BY <1>2, <1>3, <2>2, <3>1 DEF Changes
    <2>. QED  BY <2>1, <2>2
<1>9. shown' \in [sure : BOOLEAN, ids : Seq(DocIds)]
    BY <1>2, <1>3
<1>10. changes[c].phase = "begun" /\ changes[c].first = ch.first
    BY <1>2
<1>11. Inserting(changes[c]) = ids
    BY <1>6
<1> HIDE DEF ch, rest, ids, new, k, next
<1>12. changes'[c] = next /\ \A o \in Slot \ {c} : changes'[o] = changes[o]
    BY <1>1, <1>2
<1>13. \A d : /\ Occurrences(new, d) = OneIf(d \in ElementsOf(new)) /\ Occurrences(new, d) \in Nat
              /\ Occurrences(ids, d) = OneIf(d \in ElementsOf(ids)) /\ Occurrences(ids, d) \in Nat
              /\ Occurrences(docs, d) \in Nat
    BY <1>1, <1>5, OccurrencesOnce, OccurrencesType
<1>14. \A d : docs' \in Seq(DocIds) /\ Occurrences(docs', d) = Occurrences(docs, d) + Occurrences(ids, d)
    BY <1>1, <1>2, <1>4, <1>5, OccurrencesSplice
<1>15. QueryTypeOK'
    <2>1. ElementsOf(new) \subseteq DocIds
        BY <1>5 DEF ElementsOf
    <2>2. counts' \in [DocIds -> Int] /\ live' \in [DocIds -> Int]
        <3>1. ASSUME NEW d \in DocIds
              PROVE  counts[d] + Occurrences(new, d) \in Int /\ live[d] + Occurrences(new, d) \in Int
            <4>1. counts[d] \in Int /\ live[d] \in Int /\ Occurrences(new, d) \in Int
                BY <1>1, <1>13
            <4>. QED  BY <4>1
        <3>. QED  BY <1>2, <3>1
    <2>3. changes' \in [Slot -> Changes]
        BY <1>1, <1>2, <1>8
    <2>4. docs' \in Seq(DocIds)
        BY <1>14
    <2>. QED  BY <1>1, <1>2, <1>9, <2>1, <2>2, <2>3, <2>4 DEF QueryTypeOK
<1>16. QueryKinds'
    <2>1. ASSUME NEW o \in Slot
          PROVE  /\ changes'[o].phase # "free" => changes'[o].after \in Results
                 /\ changes'[o].phase = "begun" =>
                        changes'[o].left # {} /\ changes'[o].left \in SUBSET (DOMAIN changes'[o].after)
                 /\ changes'[o].phase # "free" /\ changes'[o].first =>
                        /\ status' = "subscribing"
                        /\ \A p \in Slot \ {o} : changes'[p].phase = "free"
        <3>1. CASE o = c
            <4>1. CASE rest = {}
                BY <1>8, <1>12, <3>1, <4>1
            <4>2. CASE rest # {}
                <5>1. changes'[c].after = ch.after /\ changes'[c].left = rest
                    BY <1>8, <1>12, <4>2
                <5>2. changes'[c].first => changes[c].first
                    BY <1>8, <1>10, <1>12, <4>2
                <5>3. changes[c].first =>
                          status = "subscribing" /\ \A p \in Slot \ {c} : changes[p].phase = "free"
                    BY <1>1, <1>10 DEF QueryKinds
                <5>4. status' = status
                    BY <1>2, <4>2
                <5>. QED  BY <1>3, <1>12, <3>1, <4>2, <5>1, <5>2, <5>3, <5>4
            <4>. QED  BY <4>1, <4>2
        <3>2. CASE o # c
            <4>1. ~(changes[o].phase # "free" /\ changes[o].first)
                BY <1>1, <1>10, <3>2 DEF QueryKinds
            <4>. QED  BY <1>1, <1>12, <3>2, <4>1 DEF QueryKinds
        <3>. QED  BY <3>1, <3>2
    <2>. QED  BY <1>15, <2>1 DEF QueryKinds
<1>17. Unsubscribed' /\ Release'
    BY <1>1, <1>2, <1>10 DEF Unsubscribed, Release
<1>18. Balance'
    <2>1. SUFFICES ASSUME status' \in {"subscribing", "subscribed"}, NEW d \in DocIds
                   PROVE  counts'[d] = Occurrences(docs', d) + Cardinality(Holders(changes', d))
        BY DEF Balance
    <2>2. counts[d] = Occurrences(docs, d) + Cardinality(Holders(changes, d))
        BY <1>1, <1>2, <2>1 DEF Balance
    <2>3. /\ Cardinality(Holders(changes, d)) \in Nat
          /\ Cardinality(Holders(changes', d)) = Cardinality(Holders(changes, d))
                 - OneIf(d \in ElementsOf(ids)) + OneIf(d \in ElementsOf(new))
        <3> DEFINE chs == changes'
        <3>1. \A o \in Slot \ {c} : Inserting(chs[o]) = Inserting(changes[o])
            BY <1>12
        <3>2. Inserting(chs[c]) = new
            BY <1>7, <1>12
        <3> HIDE DEF chs
        <3>3. /\ Cardinality(Holders(changes, d)) \in Nat
              /\ Cardinality(Holders(chs, d)) =
                     Cardinality(Holders(changes, d)) - OneIf(d \in ElementsOf(Inserting(changes[c])))
                                                      + OneIf(d \in ElementsOf(Inserting(chs[c])))
            BY <3>1, HoldersFollow
        <3>. QED  BY <1>11, <3>2, <3>3 DEF chs
    <2>4. counts'[d] = counts[d] + Occurrences(new, d)
        BY <1>2
    <2>5. Occurrences(docs', d) = Occurrences(docs, d) + Occurrences(ids, d)
        BY <1>14
    <2>. QED  BY <1>13, <2>2, <2>3, <2>4, <2>5
<1>19. ListenersCover'
    <2>1. SUFFICES ASSUME status' # "disposed", NEW d \in DocIds
                   PROVE  live'[d] >= counts'[d]
        BY DEF ListenersCover
    <2>2. live[d] >= counts[d] /\ live[d] \in Int /\ counts[d] \in Int /\ Occurrences(new, d) \in Int
        BY <1>1, <1>2, <1>13, <2>1 DEF ListenersCover
    <2>3. counts'[d] = counts[d] + Occurrences(new, d) /\ live'[d] = live[d] + Occurrences(new, d)
        BY <1>2
    <2>. QED  BY <2>2, <2>3
<1>. QED  BY <1>15, <1>16, <1>17, <1>18, <1>19 DEF QueryInv

\* Disposal: a subscribed query that is ready lets go of every document as often as it lists it.
LEMMA DisposeKeeps ==
    ASSUME QueryInv, Dispose
    PROVE  QueryInv'
<1>1. /\ QueryTypeOK /\ QueryKinds /\ Unsubscribed /\ Balance /\ Release
      /\ docs \in Seq(DocIds) /\ counts \in [DocIds -> Int] /\ live \in [DocIds -> Int]
    BY DEF QueryInv, QueryKinds, QueryTypeOK
<1>2. /\ status \in {"subscribed", "fetched"} /\ status' = "disposed"
      /\ counts' = IF status = "subscribed" /\ ready
                   THEN [d \in DocIds |-> counts[d] - Occurrences(docs, d)] ELSE counts
      /\ live' = [d \in DocIds |-> live[d] - (IF d \in held THEN 1 ELSE 0)]
      /\ held' = {}
      /\ released' = (ready /\ \A c \in Slot : changes[c].phase = "free")
      /\ ready' = ready /\ docs' = docs /\ changes' = changes /\ shown' = shown /\ begun' = begun
    BY DEF Dispose, DestroyDue
<1>3. QueryTypeOK'
    <2>1. \A d \in DocIds : Occurrences(docs, d) \in Nat
        BY <1>1, OccurrencesType
    <2>2. counts' \in [DocIds -> Int]
        BY <1>1, <1>2, <2>1
    <2>3. live' \in [DocIds -> Int]
        BY <1>1, <1>2
    <2>. QED  BY <1>1, <1>2, <2>2, <2>3 DEF QueryTypeOK
<1>4. QueryKinds'
    <2>1. \A c \in Slot : ~(changes[c].phase # "free" /\ changes[c].first)
        BY <1>1, <1>2 DEF QueryKinds
    <2>. QED  BY <1>1, <1>2, <1>3, <2>1 DEF QueryKinds
<1>5. Unsubscribed' /\ Balance' /\ ListenersCover'
    BY <1>2 DEF Unsubscribed, Balance, ListenersCover
<1>6. Release'
    <2>1. SUFFICES ASSUME released', NEW d \in DocIds
                   PROVE  counts'[d] = 0
        BY <1>2 DEF Release
    <2>2. ready /\ \A c \in Slot : changes[c].phase = "free"
        BY <1>2, <2>1
    <2>3. CASE status = "fetched"
        BY <1>1, <1>2, <2>3 DEF Unsubscribed
    <2>4. CASE status = "subscribed"
        <3>1. Holders(changes, d) = {}
            BY <2>2 DEF Holders, Inserting, ElementsOf
        <3>2. Cardinality(Holders(changes, d)) = 0
            BY <3>1, FS_EmptySet
        <3>3. counts[d] = Occurrences(docs, d) + Cardinality(Holders(changes, d))
            BY <1>1, <2>4 DEF Balance
        <3>4. Occurrences(docs, d) \in Nat
            BY <1>1, OccurrencesType
        <3>5. counts'[d] = counts[d] - Occurrences(docs, d)
            BY <1>2, <2>2, <2>4
        <3>. QED  BY <3>2, <3>3, <3>4, <3>5
    <2>. QED  BY <1>2, <2>3, <2>4
<1>. QED  BY <1>3, <1>4, <1>5, <1>6 DEF QueryInv

LEMMA QueryStep == QueryInv /\ [QueryNext]_queryVars => QueryInv'
<1> SUFFICES ASSUME QueryInv, [QueryNext]_queryVars PROVE QueryInv'
    OBVIOUS
<1>1. /\ QueryKinds /\ Unsubscribed /\ Release
      /\ ready \in BOOLEAN /\ begun \in 0 .. MaxChanges /\ MaxChanges \in Nat
      /\ changes \in [Slot -> Changes] /\ docs \in Seq(DocIds)
    BY QueryAssumption DEF QueryInv, QueryKinds, QueryTypeOK
<1>2. ASSUME NEW c \in Slot, NEW after \in Results, Subscribe(c, after)
      PROVE  QueryInv'
    BY <1>2, AskStoreKeeps DEF Subscribe
<1>3. ASSUME NEW c \in Slot, NEW after \in Results, LocalUpdate(c, after)
      PROVE  QueryInv'
    BY <1>3, AskStoreKeeps DEF LocalUpdate
<1>4. ASSUME NEW c \in Slot, NEW after \in Results, RemoteResult(c, after)
      PROVE  QueryInv'
    <2>1. /\ status = "subscribed" /\ changes[c].phase = "free" /\ begun < MaxChanges
          /\ begun' = begun + 1 /\ ready' = TRUE /\ BeginChange(c, after, FALSE)
          /\ released' = released
        BY <1>4 DEF RemoteResult, AdapterEmits
    <2>2. ~released
        BY <1>1, <2>1 DEF Release
    <2>3. begun' \in 0 .. MaxChanges
        BY <1>1, <2>1
    <2>. QED  BY <2>1, <2>2, <2>3, BeginChangeKeeps
<1>5. ASSUME NEW c \in Slot, StoreAnswers(c)
      PROVE  QueryInv'
    <2> DEFINE after == changes[c].after
               first == changes[c].first
    <2>1. /\ changes[c].phase = "local" /\ BeginChange(c, after, first)
          /\ ready' = ready /\ released' = released /\ begun' = begun
        BY <1>5 DEF StoreAnswers
    <2>2. after \in Results /\ first \in BOOLEAN
        BY <1>1, <2>1 DEF QueryKinds, Changes
    <2>3. first => status = "subscribing" /\ \A o \in Slot \ {c} : changes[o].phase = "free"
        BY <1>1, <2>1 DEF QueryKinds
    <2>4. status \notin {"new", "fetched"}
        BY <1>1, <2>1 DEF Unsubscribed
    <2>5. ~released
        BY <1>1, <2>1 DEF Release
    <2>6. changes[c].phase # "begun" /\ ready' \in BOOLEAN /\ begun' \in 0 .. MaxChanges
        BY <1>1, <2>1
    <2> HIDE DEF after, first
    <2>. QED  BY <2>1, <2>2, <2>3, <2>4, <2>5, <2>6, BeginChangeKeeps
<1>6. ASSUME NEW c \in Slot, Insert(c)
      PROVE  QueryInv'
    BY <1>6, InsertKeeps
<1>7. ASSUME NEW after \in Results, Fetch(after)
      PROVE  QueryInv'
    <2>1. /\ status = "new" /\ status' = "fetched" /\ ready' = TRUE /\ docs' = after
          /\ changes' = changes /\ counts' = counts /\ held' = held /\ live' = live
          /\ shown' = shown /\ released' = released /\ begun' = begun
        BY <1>7 DEF Fetch
    <2>2. after \in Seq(DocIds)
        BY ResultsDistinct
    <2>3. QueryTypeOK'
        BY <1>1, <2>1, <2>2 DEF QueryKinds, QueryTypeOK
    <2>4. \A c \in Slot : changes[c].phase = "free"
        BY <1>1, <2>1 DEF Unsubscribed
    <2>5. QueryKinds'
        BY <2>1, <2>3, <2>4 DEF QueryKinds
    <2>6. Unsubscribed' /\ Balance' /\ Release'
        BY <1>1, <2>1 DEF Unsubscribed, Balance, Release
    <2>7. ListenersCover'
        BY <2>1 DEF ListenersCover, QueryInv
    <2>. QED  BY <2>5, <2>6, <2>7 DEF QueryInv
<1>8. CASE Dispose
    BY <1>8, DisposeKeeps
<1>9. CASE UNCHANGED queryVars
    BY <1>9 DEF queryVars, QueryInv, QueryKinds, QueryTypeOK, Unsubscribed, Balance, ListenersCover,
                Release, Holders, Inserting
<1>. QED  BY <1>2, <1>3, <1>4, <1>5, <1>6, <1>7, <1>8, <1>9 DEF QueryNext

-----------------------------------------------------------------------------
(* A change that runs alone                                                   *)

\* A change that runs alone, and so far has: the list lacks what it has still to insert.  After its
\* last insertion, as long as no other change begins, the list is its result.
Healing ==
    /\ \A c \in Slot : changes[c].phase = "begun" /\ changes[c].alone =>
           /\ Lacks(docs, changes[c].after, changes[c].left)
           /\ \A o \in Slot \ {c} : changes[o].phase # "begun"
    /\ shown.sure => docs = shown.ids
    /\ status = "new" => ~shown.sure

\* A change that begins alone leaves in the list what is to remain of it, in the result's order.
LEMMA BeginHeals ==
    ASSUME QueryInv, Healing, NEW c \in Slot, NEW after \in Results, NEW first \in BOOLEAN,
           BeginChange(c, after, first), status # "new"
    PROVE  Healing'
<1> DEFINE places == NewPlaces(docs, after)
           others == {o \in Slot \ {c} : changes[o].phase = "begun"}
           begins == [phase |-> "begun", first |-> first, after |-> after,
                      left |-> places, alone |-> others = {}]
<1>1. /\ docs' = Remaining(docs, after)
      /\ changes' = [o \in Slot |-> IF o = c THEN IF places = {} THEN Free ELSE begins
                                    ELSE [changes[o] EXCEPT !.alone = FALSE]]
      /\ shown' = IF places = {} /\ others = {} THEN [sure |-> TRUE, ids |-> after]
                  ELSE [sure |-> FALSE, ids |-> <<>>]
      /\ status' = IF first /\ places = {} THEN "subscribed" ELSE status
    BY DEF BeginChange
<1>2. changes \in [Slot -> Changes] /\ after \in Seq(DocIds) /\ Distinct(after)
    BY ResultsDistinct DEF QueryInv, QueryKinds, QueryTypeOK
<1>3. Lacks(docs', after, places)
    <2>1. Lacks(Remaining(docs, after), after, NewPlaces(docs, after))
        BY <1>2, RemainingLacks
    <2>. QED  BY <1>1, <2>1, Zenon
<1>4. docs' \in Seq(DocIds)
    <2>1. Remaining(docs, after) \in Seq(DocIds)
        BY <1>2, RemainingDistinct
    <2>. QED  BY <1>1, <2>1, Zenon
<1>5. /\ begins.phase = "begun" /\ begins.after = after /\ begins.left = places
      /\ begins.alone = (others = {})
    OBVIOUS
<1>6. \A o \in Slot \ {c} : ~changes[o].phase = "begun" \/ o \in others
    OBVIOUS
<1> HIDE DEF places, others, begins
<1>7. \A o \in Slot \ {c} : changes'[o].alone = FALSE /\ changes'[o].phase = changes[o].phase
    <2>1. \A o \in Slot \ {c} :
              changes'[o] = [changes[o] EXCEPT !.alone = FALSE] /\ changes[o] \in Changes
        BY <1>1, <1>2
    <2>. QED  BY <2>1 DEF Changes
<1>8. changes'[c] = IF places = {} THEN Free ELSE begins
    BY <1>1
<1>9. ASSUME NEW o \in Slot, changes'[o].phase = "begun", changes'[o].alone
      PROVE  /\ Lacks(docs', changes'[o].after, changes'[o].left)
             /\ \A p \in Slot \ {o} : changes'[p].phase # "begun"
    <2>1. o = c
        BY <1>7, <1>9
    <2>2. places # {} /\ changes'[c] = begins
        <3>1. Free.phase # "begun"
            BY DEF Free
        <3>. QED  BY <1>8, <1>9, <2>1, <3>1
    <2>3. others = {}
        BY <1>5, <1>9, <2>1, <2>2
    <2>4. \A p \in Slot \ {c} : changes'[p].phase # "begun"
        BY <1>6, <1>7, <2>3
    <2>5. Lacks(docs', changes'[c].after, changes'[c].left)
        BY <1>3, <1>5, <2>2, Zenon
    <2>. QED  BY <2>1, <2>4, <2>5, Zenon
<1>10. shown'.sure => docs' = shown'.ids
    <2>1. CASE places = {} /\ others = {}
        <3>1. Lacks(docs', after, {})
            BY <1>3, <2>1
        <3>2. docs' = after
            BY <1>2, <1>4, <3>1, LacksNothing
        <3>. QED  BY <1>1, <2>1, <3>2
    <2>2. CASE ~(places = {} /\ others = {})
        <3>1. shown' = [sure |-> FALSE, ids |-> <<>>]
            BY <1>1, <2>2, Zenon
        <3>. QED  BY <3>1
    <2>. QED  BY <2>1, <2>2
<1>11. status' # "new"
    BY <1>1
<1>. QED  BY <1>9, <1>10, <1>11 DEF Healing

\* A run inserted brings the list of a change alone nearer to its result, and the last one to it.
LEMMA InsertHeals ==
    ASSUME QueryInv, QueryInv', Healing, NEW c \in Slot, Insert(c)
    PROVE  Healing'
<1> DEFINE ch == changes[c]
           rest == LaterRuns(ch.left)
           next == IF rest = {} THEN Free ELSE [ch EXCEPT !.left = rest]
<1>1. /\ ch.phase = "begun"
      /\ docs' = Splice(docs, RunStart(ch.left) - 1, RunIds(ch.after, ch.left))
      /\ changes' = [changes EXCEPT ![c] = next]
      /\ shown' = IF rest = {} /\ ch.alone THEN [sure |-> TRUE, ids |-> ch.after]
                  ELSE [sure |-> FALSE, ids |-> <<>>]
      /\ status' = IF ch.first /\ rest = {} /\ status = "subscribing" THEN "subscribed" ELSE status
    BY DEF Insert
<1>2. /\ changes \in [Slot -> Changes] /\ docs \in Seq(DocIds) /\ docs' \in Seq(DocIds)
      /\ ch \in Changes /\ ch.after \in Seq(DocIds) /\ ch.left # {}
      /\ ch.left \in SUBSET (DOMAIN ch.after)
    BY <1>1 DEF QueryInv, QueryKinds, QueryTypeOK, Changes
<1>3. ch.alone => Lacks(docs', ch.after, rest) /\ \A o \in Slot \ {c} : changes[o].phase # "begun"
    <2>1. SUFFICES ASSUME ch.alone
                   PROVE  /\ Lacks(docs', ch.after, rest)
                          /\ \A o \in Slot \ {c} : changes[o].phase # "begun"
        OBVIOUS
    <2>2. Lacks(docs, ch.after, ch.left) /\ \A o \in Slot \ {c} : changes[o].phase # "begun"
        BY <1>1, <2>1, Zenon DEF Healing
    <2>3. Lacks(Splice(docs, RunStart(ch.left) - 1, RunIds(ch.after, ch.left)), ch.after, rest)
        <3> HIDE DEF ch
        <3>. QED  BY <1>2, <2>2, SpliceHeals
    <2>. QED  BY <1>1, <2>2, <2>3, Zenon
<1>4. /\ rest # {} => /\ next.phase = "begun" /\ next.after = ch.after /\ next.left = rest
                      /\ next.alone = ch.alone
      /\ rest = {} => next.phase # "begun"
    BY <1>1, <1>2 DEF Changes, Free
<1>5. \A o \in Slot \ {c} : ~(changes[o].phase = "begun" /\ changes[o].alone)
    BY <1>1, Zenon DEF Healing
<1> HIDE DEF ch, rest, next
<1>6. changes'[c] = next /\ \A o \in Slot \ {c} : changes'[o] = changes[o]
    BY <1>1, <1>2
<1>7. ASSUME NEW o \in Slot, changes'[o].phase = "begun", changes'[o].alone
      PROVE  /\ Lacks(docs', changes'[o].after, changes'[o].left)
             /\ \A p \in Slot \ {o} : changes'[p].phase # "begun"
    <2>1. o = c
        BY <1>5, <1>6, <1>7
    <2>2. rest # {} /\ ch.alone
        BY <1>4, <1>6, <1>7, <2>1
    <2>3. Lacks(docs', changes'[c].after, changes'[c].left)
        BY <1>3, <1>4, <1>6, <2>2, Zenon
    <2>4. \A p \in Slot \ {c} : changes'[p].phase # "begun"
        BY <1>3, <1>6, <2>2
    <2>. QED  BY <2>1, <2>3, <2>4, Zenon
<1>8. shown'.sure => docs' = shown'.ids
    <2>1. CASE rest = {} /\ ch.alone
        <3>1. Lacks(docs', ch.after, {})
            BY <1>3, <2>1
        <3>2. docs' = ch.after
            BY <1>2, <3>1, LacksNothing
        <3>. QED  BY <1>1, <2>1, <3>2
    <2>2. CASE ~(rest = {} /\ ch.alone)
        <3>1. shown' = [sure |-> FALSE, ids |-> <<>>]
            BY <1>1, <2>2, Zenon
        <3>. QED  BY <3>1
    <2>. QED  BY <2>1, <2>2
<1>9. status' # "new"
    <2>1. status # "new"
        BY <1>1 DEF QueryInv, Unsubscribed, ch
    <2>. QED  BY <1>1, <2>1
<1>. QED  BY <1>7, <1>8, <1>9 DEF Healing

LEMMA HealInit == QueryInit => Healing
BY DEF QueryInit, Healing, Free

LEMMA HealStep == QueryInv /\ QueryInv' /\ Healing /\ [QueryNext]_queryVars => Healing'
<1> SUFFICES ASSUME QueryInv, QueryInv', Healing, [QueryNext]_queryVars PROVE Healing'
    OBVIOUS
<1>1. changes \in [Slot -> Changes] /\ QueryKinds /\ Unsubscribed
    BY DEF QueryInv, QueryKinds, QueryTypeOK
<1>2. ASSUME NEW c \in Slot, NEW after \in Results, NEW first \in BOOLEAN, AskStore(c, after, first),
             status' # "new"
      PROVE  Healing'
    <2> DEFINE asked == [phase |-> "local", first |-> first, after |-> after, left |-> {}, alone |-> FALSE]
    <2>1. changes' = [changes EXCEPT ![c] = asked] /\ docs' = docs /\ shown' = shown
        BY <1>2, Zenon DEF AskStore
    <2>2. changes'[c] = asked /\ \A o \in Slot \ {c} : changes'[o] = changes[o]
        BY <1>1, <2>1
    <2>3. asked.phase # "begun"
        OBVIOUS
    <2> HIDE DEF asked
    <2>4. \A o \in Slot : changes'[o].phase = "begun" => o # c /\ changes'[o] = changes[o]
        BY <2>2, <2>3
    <2>5. ASSUME NEW o \in Slot, changes'[o].phase = "begun", changes'[o].alone
          PROVE  /\ Lacks(docs', changes'[o].after, changes'[o].left)
                 /\ \A p \in Slot \ {o} : changes'[p].phase # "begun"
        <3>1. changes'[o] = changes[o]
            BY <2>4, <2>5
        <3>2. Lacks(docs, changes[o].after, changes[o].left) /\ \A p \in Slot \ {o} : changes[p].phase # "begun"
            BY <2>5, <3>1, Zenon DEF Healing
        <3>3. \A p \in Slot \ {o} : changes'[p].phase # "begun"
            BY <2>4, <3>2
        <3>. QED  BY <2>1, <3>1, <3>2, <3>3, Zenon
    <2>. QED  BY <1>2, <2>1, <2>5 DEF Healing
<1>3. ASSUME NEW c \in Slot, NEW after \in Results, Subscribe(c, after)
      PROVE  Healing'
    BY <1>2, <1>3 DEF Subscribe
<1>4. ASSUME NEW c \in Slot, NEW after \in Results, LocalUpdate(c, after)
      PROVE  Healing'
    BY <1>2, <1>4 DEF LocalUpdate
<1>5. ASSUME NEW c \in Slot, NEW after \in Results, RemoteResult(c, after)
      PROVE  Healing'
    BY <1>5, BeginHeals DEF RemoteResult
<1>6. ASSUME NEW c \in Slot, StoreAnswers(c)
      PROVE  Healing'
    <2>1. changes[c].phase = "local" /\ BeginChange(c, changes[c].after, changes[c].first)
        BY <1>6 DEF StoreAnswers
    <2>2. changes[c].after \in Results /\ changes[c].first \in BOOLEAN /\ status # "new"
        BY <1>1, <2>1 DEF QueryKinds, Changes, Unsubscribed
    <2>. QED  BY <2>1, <2>2, BeginHeals
<1>7. ASSUME NEW c \in Slot, Insert(c)
      PROVE  Healing'
    BY <1>7, InsertHeals
<1>8. ASSUME NEW after \in Results, Fetch(after)
      PROVE  Healing'
    <2>1. status = "new" /\ status' = "fetched" /\ changes' = changes /\ shown' = shown
        BY <1>8 DEF Fetch
    <2>2. \A c \in Slot : changes'[c].phase # "begun"
        BY <1>1, <2>1 DEF Unsubscribed
    <2>. QED  BY <2>1, <2>2 DEF Healing
<1>9. CASE Dispose
    <2>1. status' = "disposed" /\ changes' = changes /\ docs' = docs /\ shown' = shown
        BY <1>9 DEF Dispose
    <2>. QED  BY <2>1 DEF Healing
<1>10. CASE UNCHANGED queryVars
    BY <1>10 DEF queryVars, Healing
<1>. QED  BY <1>3, <1>4, <1>5, <1>6, <1>7, <1>8, <1>9, <1>10 DEF QueryNext

-----------------------------------------------------------------------------
(* The theorems                                                              *)

\* The inductive invariant of a live query.
THEOREM QueryInvariance == QuerySpec => []QueryInv
BY QueryInitInv, QueryStep, PTL DEF QuerySpec

\* Each variable keeps its type: lists of documents, changes under way, counts.
THEOREM QueryTypeCorrect == QuerySpec => []QueryTypeOK
<1>1. QueryInv => QueryTypeOK
    BY DEF QueryInv, QueryKinds
<1>. QED  BY <1>1, QueryInvariance, PTL

\* onInsert and onRemove keep each document's subscribeQueryCount at what the query lists and is
\* about to list, for any number of overlapping changes.
THEOREM CountsMatch == QuerySpec => []CountsBalance
<1>1. QueryInv => CountsBalance
    BY DEF QueryInv, Balance, Holders, CountsBalance
<1>. QED  BY <1>1, QueryInvariance, PTL

\* A document that a living query counts has listeners, as many at least.
THEOREM AllHeard == QuerySpec => []ListenersCover
<1>1. QueryInv => ListenersCover
    BY DEF QueryInv
<1>. QED  BY <1>1, QueryInvariance, PTL

\* dispose of a ready and quiet query leaves no document counted.
THEOREM DisposalReleases == QuerySpec => []DisposeReleases
<1>1. QueryInv => DisposeReleases
    BY DEF QueryInv, Release, DisposeReleases
<1>. QED  BY <1>1, QueryInvariance, PTL

\* A change that ran alone leaves the list as its result says, whatever overlapping changes had
\* made of it before: onChange mends the disorder at the next quiet change.
THEOREM ChangesHeal == QuerySpec => []ChangeHeals
<1>1. Healing => ChangeHeals
    BY DEF Healing, ChangeHeals
<1>. QED  BY <1>1, QueryInvariance, HealInit, HealStep, PTL DEF QuerySpec
=============================================================================
