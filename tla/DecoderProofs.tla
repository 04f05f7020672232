---------------------------- MODULE DecoderProofs ----------------------------
(***************************************************************************)
(* The lattice, the decoder and the analysis of one chunk, for every text  *)
(* length, candidate set, scorer and beam.  Three parts: what              *)
(* StateSlots::insert does to a key's slots and how every step of          *)
(* Viterbi::solve preserves its invariant; the invariant of one chunk's    *)
(* analysis from the first addEdge to the end of the backtrack; and that   *)
(* the result is a cheapest path wherever the beam is wide enough for the  *)
(* identities of a key, and exists exactly when a path exists.             *)
(*                                                                         *)
(* The paths of the reference appear in no invariant.  The invariant says, *)
(* edge by edge, that a relaxed edge serves every state it could extend;   *)
(* that this suffices for whole paths is an induction along one path.      *)
(***************************************************************************)
EXTENDS AnalyzeChunk, SharedLemmas, SequenceTheorems, LatticePaths

\* A function over 1..n is a sequence of length n.
LEMMA FunctionIsSeq ==
  ASSUME NEW S, NEW n \in Nat, NEW f \in [1..n -> S]
  PROVE  f \in Seq(S) /\ Len(f) = n /\ DOMAIN f = 1..n
OBVIOUS

-----------------------------------------------------------------------------
(* StateSlots *)

\* Indistinguishability to the scorer is symmetric and transitive.
LEMMA SameIdentityEquivalence ==
  ASSUME NEW a, NEW b, NEW c
  PROVE  /\ SameIdentity(a, b) => SameIdentity(b, a)
         /\ SameIdentity(a, b) /\ SameIdentity(b, c) => SameIdentity(a, c)
BY DEF SameIdentity

\* Dropping a slot keeps the others, their order and their distinctness, and
\* what is left has no twin of an edge the dropped slot was a twin of.
LEMMA WithoutRanked ==
  ASSUME NEW s \in Seq(StateEntry), Ranked(s), NEW i \in DOMAIN s
  PROVE  LET t == Without(s, i)
         IN /\ t \in Seq(StateEntry)
            /\ Len(t) = Len(s) - 1
            /\ Ranked(t)
            /\ \A j \in DOMAIN t : \E k \in DOMAIN s : k # i /\ t[j] = s[k]
            /\ \A k \in DOMAIN s : k # i => \E j \in DOMAIN t : t[j] = s[k]
<1> DEFINE t == Without(s, i)
           At(j) == IF j < i THEN j ELSE j + 1
<1>1. Len(s) \in Nat /\ DOMAIN s = 1..Len(s) /\ Len(s) - 1 \in Nat /\ i \in 1..Len(s)
  OBVIOUS
<1>2. \A j \in 1..(Len(s) - 1) : At(j) \in DOMAIN s /\ At(j) # i /\ t[j] = s[At(j)]
  BY <1>1 DEF Without
<1>3. t \in Seq(StateEntry) /\ Len(t) = Len(s) - 1 /\ DOMAIN t = 1..(Len(s) - 1)
  <2>1. \A j \in 1..(Len(s) - 1) : t[j] \in StateEntry
    BY <1>2, ElementOfSeq
  <2>2. t = [j \in 1..(Len(s) - 1) |-> t[j]]
    BY DEF Without
  <2> HIDE DEF t
  <2>3. t \in [1..(Len(s) - 1) -> StateEntry]
    BY <2>1, <2>2
  <2> QED BY <1>1, <2>3, FunctionIsSeq
<1>4. Ranked(t)
  <2> SUFFICES ASSUME NEW j \in DOMAIN t, NEW k \in DOMAIN t, j < k
               PROVE  t[j].cost <= t[k].cost /\ ~SameIdentity(t[j].edge, t[k].edge)
    BY <1>1, <1>3, ViterbiAssumption DEF Ranked
  <2>1. At(j) < At(k) /\ At(j) \in DOMAIN s /\ At(k) \in DOMAIN s
    BY <1>1, <1>2, <1>3
  <2>2. t[j] = s[At(j)] /\ t[k] = s[At(k)]
    BY <1>2, <1>3
  <2> HIDE DEF At, t
  <2> QED BY <2>1, <2>2 DEF Ranked
<1>5. ASSUME NEW k \in DOMAIN s, k # i PROVE \E j \in DOMAIN t : t[j] = s[k]
  <2>1. CASE k < i
    <3>1. k \in 1..(Len(s) - 1) /\ At(k) = k
      BY <1>1, <2>1
    <3> QED BY <1>2, <1>3, <3>1
  <2>2. CASE k > i
    <3>1. k - 1 \in 1..(Len(s) - 1) /\ At(k - 1) = k
      BY <1>1, <2>2
    <3> QED BY <1>2, <1>3, <3>1
  <2> QED BY <1>1, <1>5, <2>1, <2>2
<1> QED BY <1>2, <1>3, <1>4, <1>5

\* Sorting an entry into a slot list that has room and no twin of it keeps the
\* list ascending and distinct, and adds nothing else.
LEMMA InsertSortedRanked ==
  ASSUME NEW s \in Seq(StateEntry), Ranked(s), Len(s) < K,
         NEW e \in StateEntry,
         \A i \in DOMAIN s : ~SameIdentity(s[i].edge, e.edge)
  PROVE  LET t == InsertSorted(s, e)
         IN /\ t \in Seq(StateEntry)
            /\ Ranked(t)
            /\ \A j \in DOMAIN t : t[j] = e \/ \E k \in DOMAIN s : t[j] = s[k]
            /\ \E j \in DOMAIN t : t[j] = e
            /\ \A k \in DOMAIN s : \E j \in DOMAIN t : t[j] = s[k]
<1> DEFINE t == InsertSorted(s, e)
           Splits(n) == \A j \in DOMAIN s : s[j].cost <= e.cost <=> j <= n
           n == CHOOSE m \in 0..Len(s) : Splits(m)
<1>1. Len(s) \in Nat /\ DOMAIN s = 1..Len(s) /\ K \in Nat
  BY ViterbiAssumption
<1>2. e.cost \in Int /\ \A j \in DOMAIN s : s[j] \in StateEntry /\ s[j].cost \in Int
  <2>1. \A j \in DOMAIN s : s[j] \in StateEntry
    BY <1>1, ElementOfSeq
  <2> QED BY <2>1 DEF StateEntry
<1>3. \E m \in 0..Len(s) : Splits(m)
  <2> DEFINE Dearer == {j \in 1..(Len(s) + 1) : j = Len(s) + 1 \/ s[j].cost > e.cost}
  <2>1. PICK m \in Dearer : \A j \in Dearer : m <= j
    <3>1. Dearer \subseteq Nat /\ Len(s) + 1 \in Dearer
      BY <1>1
    <3> HIDE DEF Dearer
    <3> QED BY <3>1, LeastNatural
  <2>2. m - 1 \in 0..Len(s)
    BY <1>1
  <2>3. ASSUME NEW j \in DOMAIN s PROVE s[j].cost <= e.cost <=> j <= m - 1
    <3>1. CASE j < m
      <4>1. j \in 1..(Len(s) + 1) /\ j \notin Dearer
        BY <1>1, <2>1, <3>1
      <4> QED BY <1>1, <1>2, <3>1, <4>1
    <3>2. CASE m <= j
      <4>1. m \in DOMAIN s /\ s[m].cost > e.cost
        BY <1>1, <3>2
      <4>2. s[m].cost <= s[j].cost
        BY <1>1, <1>2, <3>2, <4>1 DEF Ranked
      <4> QED BY <1>1, <1>2, <3>2, <4>1, <4>2
    <3> QED BY <1>1, <3>1, <3>2
  <2> QED BY <2>2, <2>3
<1>4. n \in 0..Len(s) /\ Splits(n)
  <2> HIDE DEF Splits
  <2> QED BY <1>3
<1>5. t = [j \in 1..(Len(s) + 1) |->
             IF j <= n THEN s[j] ELSE IF j = n + 1 THEN e ELSE s[j - 1]]
  BY DEF InsertSorted
<1> HIDE DEF t, n
<1>6. t \in Seq(StateEntry) /\ Len(t) = Len(s) + 1 /\ DOMAIN t = 1..(Len(s) + 1)
  <2>1. t \in [1..(Len(s) + 1) -> StateEntry]
    BY <1>1, <1>2, <1>4, <1>5
  <2> QED BY <1>1, <2>1, FunctionIsSeq
<1>7. \A j \in DOMAIN t :
        \/ j <= n /\ j \in DOMAIN s /\ t[j] = s[j]
        \/ j = n + 1 /\ t[j] = e
        \/ j > n + 1 /\ j - 1 \in DOMAIN s /\ t[j] = s[j - 1]
  BY <1>1, <1>4, <1>5, <1>6
<1>8. ASSUME NEW j \in DOMAIN t, NEW k \in DOMAIN t, j < k
      PROVE  t[j].cost <= t[k].cost /\ ~SameIdentity(t[j].edge, t[k].edge)
  <2>1. j \in Int /\ k \in Int /\ n \in Int
    BY <1>1, <1>4, <1>6
  <2>2. CASE k <= n
    BY <1>7, <1>8, <2>1, <2>2 DEF Ranked
  <2>3. CASE k = n + 1
    <3>1. j \in DOMAIN s /\ t[j] = s[j] /\ t[k] = e /\ j <= n
      BY <1>7, <1>8, <2>1, <2>3
    <3> QED BY <1>4, <3>1
  <2>4. CASE k > n + 1 /\ j = n + 1
    <3>1. k - 1 \in DOMAIN s /\ t[k] = s[k - 1] /\ t[j] = e /\ ~(k - 1 <= n)
      BY <1>7, <2>1, <2>4
    <3>2. ~(s[k - 1].cost <= e.cost)
      BY <1>4, <3>1
    <3>3. ~SameIdentity(s[k - 1].edge, e.edge)
      BY <3>1
    <3> QED BY <1>2, <3>1, <3>2, <3>3, SameIdentityEquivalence
  <2>5. CASE k > n + 1 /\ j # n + 1
    <3>1. PICK i \in DOMAIN s : i < k - 1 /\ t[j] = s[i]
      BY <1>7, <1>8, <2>1, <2>5
    <3>2. k - 1 \in DOMAIN s /\ t[k] = s[k - 1]
      BY <1>7, <2>1, <2>5
    <3> QED BY <3>1, <3>2 DEF Ranked
  <2> QED BY <2>1, <2>2, <2>3, <2>4, <2>5
<1>9. Ranked(t)
  BY <1>1, <1>6, <1>8 DEF Ranked
<1>10. \A j \in DOMAIN t : t[j] = e \/ \E k \in DOMAIN s : t[j] = s[k]
  BY <1>7
<1>11. n + 1 \in DOMAIN t /\ t[n + 1] = e
  BY <1>1, <1>4, <1>5, <1>6
<1>12. ASSUME NEW k \in DOMAIN s PROVE \E j \in DOMAIN t : t[j] = s[k]
  <2>1. CASE k <= n
    <3>1. k \in DOMAIN t /\ t[k] = s[k]
      BY <1>1, <1>4, <1>5, <1>6, <2>1
    <3> QED BY <3>1
  <2>2. CASE k > n
    <3>1. k + 1 \in DOMAIN t /\ t[k + 1] = s[k]
      BY <1>1, <1>4, <1>5, <1>6, <2>2
    <3> QED BY <3>1
  <2> QED BY <1>1, <1>4, <2>1, <2>2
<1> QED BY <1>6, <1>9, <1>10, <1>11, <1>12 DEF t

\* StateSlots::insert keeps a key's list within K, ascending and distinct, and
\* the list holds afterwards nothing but the old entries and the new one.
LEMMA InsertRanked ==
  ASSUME NEW s \in Seq(StateEntry), Ranked(s), NEW e \in StateEntry
  PROVE  /\ Insert(s, e) \in Seq(StateEntry)
         /\ Ranked(Insert(s, e))
         /\ \A j \in DOMAIN Insert(s, e) :
              Insert(s, e)[j] = e \/ \E k \in DOMAIN s : Insert(s, e)[j] = s[k]
<1> DEFINE twins == {i \in DOMAIN s : SameIdentity(s[i].edge, e.edge)}
<1>1. Len(s) \in Nat /\ DOMAIN s = 1..Len(s) /\ K \in Nat \ {0} /\ Len(s) <= K
  BY ViterbiAssumption DEF Ranked
<1>2. CASE twins # {}
  <2> DEFINE i == CHOOSE i \in twins : \A j \in twins : i <= j
             t == Without(s, i)
  <2>1. i \in twins
    <3>1. twins \subseteq Nat
      BY <1>1
    <3> HIDE DEF twins
    <3> QED BY <1>2, <3>1, LeastNatural
  <2> HIDE DEF i
  <2>2. /\ t \in Seq(StateEntry)
        /\ Len(t) < K
        /\ Ranked(t)
        /\ \A j \in DOMAIN t : \E k \in DOMAIN s : k # i /\ t[j] = s[k]
    <3>1. i \in DOMAIN s
      BY <2>1
    <3>2. /\ t \in Seq(StateEntry)
          /\ Len(t) = Len(s) - 1
          /\ Ranked(t)
          /\ \A j \in DOMAIN t : \E k \in DOMAIN s : k # i /\ t[j] = s[k]
      BY <3>1, WithoutRanked, Zenon
    <3> QED BY <1>1, <3>2
  <2>3. ASSUME NEW j \in DOMAIN t PROVE ~SameIdentity(t[j].edge, e.edge)
    <3>1. PICK k \in DOMAIN s : k # i /\ t[j] = s[k]
      BY <2>2
    <3>2. ~SameIdentity(s[k].edge, s[i].edge) /\ ~SameIdentity(s[i].edge, s[k].edge)
      BY <1>1, <2>1, <3>1, SameIdentityEquivalence DEF Ranked
    <3> QED BY <2>1, <3>1, <3>2, SameIdentityEquivalence
  <2> HIDE DEF t
  <2>4. /\ InsertSorted(t, e) \in Seq(StateEntry)
        /\ Ranked(InsertSorted(t, e))
        /\ \A j \in DOMAIN InsertSorted(t, e) :
             InsertSorted(t, e)[j] = e \/ \E k \in DOMAIN t : InsertSorted(t, e)[j] = t[k]
    BY <2>2, <2>3, InsertSortedRanked
  <2>5. Insert(s, e) = IF e.cost >= s[i].cost THEN s ELSE InsertSorted(t, e)
    BY <1>2 DEF Insert, i, t
  <2> QED BY <2>2, <2>4, <2>5
<1>3. CASE twins = {} /\ Len(s) < K
  <2>1. Insert(s, e) = InsertSorted(s, e)
    BY <1>3 DEF Insert
  <2> QED BY <1>3, <2>1, InsertSortedRanked
<1>4. CASE twins = {} /\ ~(Len(s) < K)
  <2> DEFINE t == Without(s, K)
  <2>1. K \in DOMAIN s
    BY <1>1, <1>4
  <2>2. /\ t \in Seq(StateEntry)
        /\ Len(t) < K
        /\ Ranked(t)
        /\ \A j \in DOMAIN t : \E k \in DOMAIN s : k # K /\ t[j] = s[k]
    <3>1. K \in DOMAIN s
      BY <2>1
    <3>2. /\ t \in Seq(StateEntry)
          /\ Len(t) = Len(s) - 1
          /\ Ranked(t)
          /\ \A j \in DOMAIN t : \E k \in DOMAIN s : k # K /\ t[j] = s[k]
      BY <3>1, WithoutRanked, Zenon
    <3> QED BY <1>1, <3>2
  <2>3. \A j \in DOMAIN t : ~SameIdentity(t[j].edge, e.edge)
    BY <1>4, <2>2
  <2> HIDE DEF t
  <2>4. /\ InsertSorted(t, e) \in Seq(StateEntry)
        /\ Ranked(InsertSorted(t, e))
        /\ \A j \in DOMAIN InsertSorted(t, e) :
             InsertSorted(t, e)[j] = e \/ \E k \in DOMAIN t : InsertSorted(t, e)[j] = t[k]
    BY <2>2, <2>3, InsertSortedRanked
  <2>5. Insert(s, e) = IF e.cost >= s[K].cost THEN s ELSE InsertSorted(t, e)
    BY <1>4 DEF Insert, t
  <2> QED BY <2>2, <2>4, <2>5
<1> QED BY <1>2, <1>3, <1>4

\* As long as a key has room for every identity, an insert serves the new entry
\* and all old ones: each has a twin in the list that costs no more.
LEMMA InsertServes ==
  ASSUME NEW s \in Seq(StateEntry), Ranked(s), NEW e \in StateEntry,
         \/ Len(s) < K
         \/ \E i \in DOMAIN s : SameIdentity(s[i].edge, e.edge)
  PROVE  LET t == Insert(s, e)
         IN /\ \E j \in DOMAIN t : SameIdentity(t[j].edge, e.edge) /\ t[j].cost <= e.cost
            /\ \A k \in DOMAIN s : \E j \in DOMAIN t :
                 SameIdentity(t[j].edge, s[k].edge) /\ t[j].cost <= s[k].cost
<1> DEFINE twins == {i \in DOMAIN s : SameIdentity(s[i].edge, e.edge)}
           i == CHOOSE i \in twins : \A j \in twins : i <= j
           rest == Without(s, i)
<1>1. Len(s) \in Nat /\ DOMAIN s = 1..Len(s) /\ K \in Nat \ {0} /\ Len(s) <= K
  BY ViterbiAssumption DEF Ranked
<1>2. e.cost \in Int /\ \A k \in DOMAIN s : s[k].cost \in Int /\ SameIdentity(s[k].edge, s[k].edge)
  <2>1. \A k \in DOMAIN s : s[k] \in StateEntry
    BY ElementOfSeq
  <2> QED BY <2>1 DEF StateEntry, SameIdentity
<1>3. CASE twins # {}
  <2>1. i \in twins
    <3>1. twins \subseteq Nat
      BY <1>1
    <3> HIDE DEF twins
    <3> QED BY <1>3, <3>1, LeastNatural
  <2> HIDE DEF i
  <2>2. i \in DOMAIN s /\ SameIdentity(s[i].edge, e.edge) /\ SameIdentity(e.edge, s[i].edge)
    BY <2>1, SameIdentityEquivalence
  <2>3. Insert(s, e) = IF e.cost >= s[i].cost THEN s ELSE InsertSorted(rest, e)
    BY <1>3 DEF Insert, i
  <2>4. CASE e.cost >= s[i].cost
    BY <1>2, <2>2, <2>3, <2>4
  <2>5. CASE ~(e.cost >= s[i].cost)
    <3>1. /\ rest \in Seq(StateEntry)
          /\ Len(rest) = Len(s) - 1
          /\ Ranked(rest)
          /\ \A j \in DOMAIN rest : \E k \in DOMAIN s : k # i /\ rest[j] = s[k]
          /\ \A k \in DOMAIN s : k # i => \E j \in DOMAIN rest : rest[j] = s[k]
      BY <2>2, WithoutRanked, Zenon
    <3>2. ASSUME NEW j \in DOMAIN rest PROVE ~SameIdentity(rest[j].edge, e.edge)
      <4>1. PICK k \in DOMAIN s : k # i /\ rest[j] = s[k]
        BY <3>1
      <4>2. ~SameIdentity(s[k].edge, s[i].edge) /\ ~SameIdentity(s[i].edge, s[k].edge)
        BY <1>1, <2>2, <4>1, SameIdentityEquivalence DEF Ranked
      <4> QED BY <2>2, <4>1, <4>2, SameIdentityEquivalence
    <3> DEFINE t == InsertSorted(rest, e)
    <3> HIDE DEF rest
    <3>3. /\ \E j \in DOMAIN t : t[j] = e
          /\ \A k \in DOMAIN rest : \E j \in DOMAIN t : t[j] = rest[k]
      BY <1>1, <3>1, <3>2, InsertSortedRanked
    <3> HIDE DEF t
    <3>4. Insert(s, e) = t
      BY <2>3, <2>5 DEF t
    <3>5. PICK new \in DOMAIN t : t[new] = e
      BY <3>3
    <3>6. SameIdentity(t[new].edge, e.edge) /\ t[new].cost <= e.cost
      BY <1>2, <3>5 DEF SameIdentity
    <3>7. ASSUME NEW k \in DOMAIN s
          PROVE  \E j \in DOMAIN t : SameIdentity(t[j].edge, s[k].edge) /\ t[j].cost <= s[k].cost
      <4>1. CASE k = i
        <5>1. SameIdentity(t[new].edge, s[k].edge) /\ t[new].cost <= s[k].cost
          BY <1>2, <2>2, <2>5, <3>5, <4>1
        <5> QED BY <5>1
      <4>2. CASE k # i
        <5>1. PICK j \in DOMAIN t : t[j] = s[k]
          BY <3>1, <3>3, <4>2
        <5> QED BY <1>2, <5>1
      <4> QED BY <4>1, <4>2
    <3> QED BY <3>4, <3>6, <3>7
  <2> QED BY <2>4, <2>5
<1>4. CASE twins = {}
  <2> DEFINE t == InsertSorted(s, e)
  <2>1. Len(s) < K /\ \A k \in DOMAIN s : ~SameIdentity(s[k].edge, e.edge)
    BY <1>4
  <2>2. Insert(s, e) = t
    BY <1>4, <2>1 DEF Insert
  <2>3. /\ \E j \in DOMAIN t : t[j] = e
        /\ \A k \in DOMAIN s : \E j \in DOMAIN t : t[j] = s[k]
    BY <2>1, InsertSortedRanked
  <2> HIDE DEF t
  <2>4. SameIdentity(e.edge, e.edge) /\ e.cost <= e.cost
    BY <1>2 DEF SameIdentity
  <2>5. \A k \in DOMAIN s : SameIdentity(s[k].edge, s[k].edge) /\ s[k].cost <= s[k].cost
    BY <1>2
  <2> QED BY <2>2, <2>3, <2>4, <2>5
<1> QED BY <1>3, <1>4

\* A key that was entered never empties.
LEMMA InsertNotEmpty ==
  ASSUME NEW s \in Seq(StateEntry), Ranked(s), NEW e \in StateEntry
  PROVE  DOMAIN Insert(s, e) # {}
<1>1. CASE Len(s) < K \/ \E i \in DOMAIN s : SameIdentity(s[i].edge, e.edge)
  BY <1>1, InsertServes
<1>2. CASE ~(Len(s) < K) /\ ~\E i \in DOMAIN s : SameIdentity(s[i].edge, e.edge)
  <2>1. Len(s) \in Nat /\ DOMAIN s = 1..Len(s) /\ K \in Nat \ {0} /\ Len(s) = K /\ K \in DOMAIN s
    BY <1>2, ViterbiAssumption DEF Ranked
  <2> DEFINE rest == Without(s, K)
  <2>2. Insert(s, e) = IF e.cost >= s[K].cost THEN s ELSE InsertSorted(rest, e)
    BY <1>2 DEF Insert
  <2>3. /\ rest \in Seq(StateEntry)
        /\ Len(rest) = Len(s) - 1
        /\ Ranked(rest)
        /\ \A j \in DOMAIN rest : \E k \in DOMAIN s : k # K /\ rest[j] = s[k]
    BY <2>1, WithoutRanked, Zenon
  <2> HIDE DEF rest
  <2>4. Len(rest) < K /\ \A j \in DOMAIN rest : ~SameIdentity(rest[j].edge, e.edge)
    BY <1>2, <2>1, <2>3
  <2>5. \E j \in DOMAIN InsertSorted(rest, e) : InsertSorted(rest, e)[j] = e
    BY <2>3, <2>4, InsertSortedRanked
  <2> QED BY <2>1, <2>2, <2>5
<1> QED BY <1>1, <1>2

-----------------------------------------------------------------------------
(* The invariant of solve *)

\* Every entry arrived by an edge that starts at a position the forward pass
\* has reached: what it points at is settled.
StartsSettled ==
  \A p \in Pos, x \in ExtendedPOS : \A i \in DOMAIN slots[p][x] :
    slots[p][x][i].edge # BosEdgeId => allEdges[slots[p][x][i].edge].start <= pos

\* While the path is followed back it tiles the text from the cursor on, and
\* the cursor names a slot that exists.
BacktrackInv ==
  /\ phase = "forward" => path = <<>>
  /\ phase = "backtrack" => /\ Tiles(path, back.pos, TextLength)
                            /\ back.slot \in DOMAIN slots[back.pos][back.epos]
  /\ phase = "done" => IF path = <<>> THEN keys[TextLength] = <<>>
                                       ELSE Tiles(path, 0, TextLength)

SolveInv ==
  /\ SolveTypeOK
  /\ SlotsOrderedAndDistinct
  /\ BackpointersExact
  /\ StartsSettled
  /\ BacktrackInv

\* The forward pass never runs out of states: some position at or after the
\* present one is reached, and a later one as soon as an edge is relaxed.
PathRemains ==
  phase = "forward" =>
    \E q \in Pos : pos <= q /\ keys[q] # <<>> /\ (cursor > 0 => pos < q)

PathFound == phase = "done" => path # <<>>

\* A solve about to start satisfies the invariant.
LEMMA SolveInitInv ==
  ASSUME SolveInit
  PROVE  SolveInv /\ PathRemains /\ PathFound
<1> USE LatticeAssumption, ViterbiAssumption
<1> DEFINE bosEntry == [cost |-> 0, edge |-> BosEdgeId, prevEpos |-> UnknownPOS, prevSlot |-> 1]
<1>1. 0 \in Pos /\ TextLength \in Pos /\ UnknownPOS \in ExtendedPOS /\ K >= 1 /\ 0 \in Nat
  BY DEF Pos
<1>2. bosEntry \in StateEntry
  BY DEF StateEntry, BosEdgeId
<1>3. \A p \in Pos, x \in ExtendedPOS :
        slots[p][x] = IF p = 0 /\ x = UnknownPOS THEN <<bosEntry>> ELSE <<>>
  BY DEF SolveInit
<1>4. \A p \in Pos, x \in ExtendedPOS :
        /\ slots[p][x] \in Seq(StateEntry)
        /\ Len(slots[p][x]) <= 1
        /\ \A i \in DOMAIN slots[p][x] : p = 0 /\ i = 1 /\ slots[p][x][i].edge = BosEdgeId
  <2>1. bosEntry.edge = BosEdgeId
    OBVIOUS
  <2> HIDE DEF bosEntry
  <2>2. /\ <<bosEntry>> \in Seq(StateEntry) /\ Len(<<bosEntry>>) = 1
        /\ DOMAIN <<bosEntry>> = {1} /\ <<bosEntry>>[1] = bosEntry
        /\ <<>> \in Seq(StateEntry) /\ Len(<<>>) = 0 /\ DOMAIN <<>> = {}
    BY <1>2
  <2> TAKE p \in Pos, x \in ExtendedPOS
  <2>3. CASE p = 0 /\ x = UnknownPOS
    <3>1. slots[p][x] = <<bosEntry>>
      BY <1>3, <2>3
    <3> QED BY <2>1, <2>2, <2>3, <3>1
  <2>4. CASE ~(p = 0 /\ x = UnknownPOS)
    <3>1. slots[p][x] = <<>>
      BY <1>3, <2>4
    <3> QED BY <2>2, <3>1
  <2> QED BY <2>3, <2>4
<1>5. SolveTypeOK
  <2>1. slots \in [Pos -> [ExtendedPOS -> Seq(StateEntry)]]
    <3>1. /\ slots = [p \in Pos |-> slots[p]]
          /\ \A p \in Pos : slots[p] = [x \in ExtendedPOS |-> slots[p][x]]
      BY DEF SolveInit
    <3>2. \A p \in Pos : slots[p] \in [ExtendedPOS -> Seq(StateEntry)]
      BY <1>4, <3>1
    <3> QED BY <3>1, <3>2
  <2>2. keys \in [Pos -> Seq(ExtendedPOS)]
    BY <1>1 DEF SolveInit
  <2> QED BY <1>1, <2>1, <2>2 DEF SolveInit, SolveTypeOK
<1>6. SlotsOrderedAndDistinct
  <2> SUFFICES ASSUME NEW p \in Pos, NEW x \in ExtendedPOS PROVE Ranked(slots[p][x])
    BY DEF SlotsOrderedAndDistinct
  <2>1. Len(slots[p][x]) \in Nat /\ Len(slots[p][x]) <= K
    BY <1>1, <1>4
  <2>2. \A i, j \in DOMAIN slots[p][x] : ~(i < j)
    BY <1>4
  <2> QED BY <2>1, <2>2 DEF Ranked
<1>7. BackpointersExact /\ StartsSettled
  <2> SUFFICES ASSUME NEW p \in Pos, NEW x \in ExtendedPOS, NEW i \in DOMAIN slots[p][x]
               PROVE  /\ PointsBack(p, x, slots[p][x][i])
                      /\ slots[p][x][i].edge = BosEdgeId
    BY ZenonT(30) DEF BackpointersExact, StartsSettled
  <2>1. p = 0 /\ slots[p][x][i].edge = BosEdgeId
    BY <1>4
  <2> QED BY <2>1 DEF PointsBack
<1>8. BacktrackInv /\ PathFound
  BY DEF SolveInit, BacktrackInv, PathFound
<1>9. PathRemains
  BY <1>1 DEF SolveInit, PathRemains
<1> QED BY <1>5, <1>6, <1>7, <1>8, <1>9 DEF SolveInv

\* The costs the scorer adds are integers.
LEMMA StepCostType ==
  ASSUME LatticeTypeOK, SolveTypeOK,
         NEW id \in DOMAIN allEdges,
         NEW prev, prev = BosEdgeId \/ prev \in DOMAIN allEdges
  PROVE  StepCost(prev, id) \in Int
<1> USE LatticeAssumption, ViterbiAssumption
<1>1. allEdges[id] \in Edge /\ (prev # BosEdgeId => allEdges[prev] \in Edge)
  BY ElementOfSeq DEF LatticeTypeOK
<1> DEFINE e == allEdges[id]
           f == allEdges[prev]
           g == IF prev = BosEdgeId THEN UnknownPOS ELSE f.epos
<1>2. e.cost \in Int /\ e.sig \in Sig
  BY <1>1 DEF Edge
<1>3. prev # BosEdgeId => f.start \in Pos /\ f.sig \in Sig /\ f.epos \in ExtendedPOS
  BY <1>1 DEF Edge
<1>4. scorer \in Scorers
  BY DEF SolveTypeOK
<1>5. /\ prev = BosEdgeId => scorer.bos[e.sig] \in Int
      /\ prev # BosEdgeId => scorer.conn[<<f.start, f.sig, e.sig>>] \in Int
      /\ scorer.eos[<<e.sig, g>>] \in Int
  <2> HIDE DEF e, f
  <2>1. g \in ExtendedPOS
    BY <1>3
  <2> HIDE DEF g
  <2> QED BY <1>2, <1>3, <1>4, <2>1
<1> QED BY <1>2, <1>5 DEF StepCost

\* An entry of the table arrived by an edge of the lattice or by none, and what
\* it costs to go on from it is an integer.
LEMMA EntryTyped ==
  ASSUME LatticeTypeOK, SolveTypeOK, BackpointersExact,
         NEW p \in Pos, NEW x \in ExtendedPOS, NEW i \in DOMAIN slots[p][x],
         NEW id \in DOMAIN allEdges
  PROVE  LET entry == slots[p][x][i]
         IN /\ entry \in StateEntry /\ entry.cost \in Int /\ i \in Nat
            /\ entry.edge = BosEdgeId \/ entry.edge \in DOMAIN allEdges
            /\ StepCost(entry.edge, id) \in Int
<1>1. slots[p][x] \in Seq(StateEntry)
  BY DEF SolveTypeOK
<1>2. slots[p][x][i] \in StateEntry /\ i \in Nat
  BY <1>1, ElementOfSeq
<1>3. PointsBack(p, x, slots[p][x][i])
  BY DEF BackpointersExact
<1>4. slots[p][x][i].edge = BosEdgeId \/ slots[p][x][i].edge \in DOMAIN allEdges
  BY <1>3 DEF PointsBack
<1>5. StepCost(slots[p][x][i].edge, id) \in Int
  BY <1>4, StepCostType
<1> QED BY <1>2, <1>4, <1>5 DEF StateEntry

-----------------------------------------------------------------------------
(* The forward pass *)

\* Edge id is the next to be relaxed: it changes the slots of its own key at
\* its end, a later position, to the result of one insert of entry n, which
\* points back at a slot of the present position and costs no more than any
\* other slot there would make it.
Relaxes(id, n) ==
  LET e == allEdges[id] IN
  /\ e \in Edge /\ e.start = pos /\ pos < e.end
  /\ n.edge = id
  /\ n.prevSlot \in DOMAIN slots[pos][n.prevEpos]
  /\ n.cost = slots[pos][n.prevEpos][n.prevSlot].cost
              + StepCost(slots[pos][n.prevEpos][n.prevSlot].edge, id)
  /\ slots' = [slots EXCEPT ![e.end][e.epos] = Insert(@, n)]
  /\ keys' = [keys EXCEPT ![e.end] =
                 IF \E k \in DOMAIN @ : @[k] = e.epos THEN @ ELSE Append(@, e.epos)]
  /\ id = byStart[pos][cursor + 1]
  /\ \A k \in DOMAIN keys[pos] : \A i \in DOMAIN slots[pos][keys[pos][k]] :
       n.cost <= slots[pos][keys[pos][k]][i].cost
                 + StepCost(slots[pos][keys[pos][k]][i].edge, id)

LEMMA RelaxEdgeEffect ==
  ASSUME LatticeTypeOK, IndexInv, SolveTypeOK, BackpointersExact, RelaxEdge
  PROVE  \E id \in DOMAIN allEdges, n \in StateEntry : Relaxes(id, n)
<1> USE LatticeAssumption, ViterbiAssumption
<1> DEFINE id == byStart[pos][cursor + 1]
           e == allEdges[id]
           N(a) == [cost |-> Total(pos, a, id), edge |-> id,
                    prevEpos |-> keys[pos][a[1]], prevSlot |-> a[2]]
<1>1. PICK a \in Arrivals(pos) :
        /\ IsBestPredecessor(pos, id, a)
        /\ slots' = [slots EXCEPT ![e.end][e.epos] = Insert(@, N(a))]
        /\ keys' = [keys EXCEPT ![e.end] =
                      IF \E k \in DOMAIN @ : @[k] = e.epos THEN @ ELSE Append(@, e.epos)]
  BY DEF RelaxEdge, Extension, Join
<1>2. pos \in Pos /\ cursor \in Nat /\ cursor < Len(byStart[pos])
  BY DEF RelaxEdge, Extension, Join, SolveTypeOK
<1>3. cursor + 1 \in DOMAIN byStart[pos]
  <2>1. byStart[pos] \in Seq(Nat \ {0})
    BY <1>2 DEF LatticeTypeOK
  <2> QED BY <1>2, <2>1
<1>4. id \in DOMAIN allEdges /\ e.start = pos /\ e.start < e.end
  BY <1>2, <1>3 DEF IndexInv
<1>5. e \in Edge /\ id \in Nat
  BY <1>4, ElementOfSeq DEF LatticeTypeOK
<1> HIDE DEF id
<1>6. PICK k \in DOMAIN keys[pos] : \E s \in DOMAIN slots[pos][keys[pos][k]] : a = <<k, s>>
  BY DEF Arrivals
<1>7. PICK s \in DOMAIN slots[pos][keys[pos][k]] : a = <<k, s>>
  BY <1>6
<1> DEFINE x == keys[pos][k]
           src == slots[pos][x][s]
<1>8. x \in ExtendedPOS /\ \A h \in DOMAIN keys[pos] : keys[pos][h] \in ExtendedPOS
  <2>1. keys[pos] \in Seq(ExtendedPOS)
    BY <1>2 DEF SolveTypeOK
  <2> QED BY <2>1, ElementOfSeq
<1>9. /\ src \in StateEntry /\ src.cost \in Int /\ s \in Nat
      /\ StepCost(src.edge, id) \in Int
  BY <1>2, <1>4, <1>7, <1>8, EntryTyped
<1>10. Total(pos, a, id) = src.cost + StepCost(src.edge, id)
  BY <1>7 DEF Total, EntryAt
<1>11. N(a).cost = Total(pos, a, id) /\ N(a).cost \in Int
  <2> DEFINE c == src.cost
             d == StepCost(src.edge, id)
             t == Total(pos, a, id)
  <2>1. N(a).cost = t
    OBVIOUS
  <2>2. c \in Int /\ d \in Int /\ t = c + d
    BY <1>9, <1>10
  <2> HIDE DEF c, d, t, N
  <2>3. t \in Int
    BY <2>2
  <2> QED BY <2>1, <2>3 DEF t
<1>12. ASSUME NEW h \in DOMAIN keys[pos], NEW i \in DOMAIN slots[pos][keys[pos][h]]
       PROVE  N(a).cost <= slots[pos][keys[pos][h]][i].cost
                           + StepCost(slots[pos][keys[pos][h]][i].edge, id)
  <2> DEFINE other == slots[pos][keys[pos][h]][i]
             b == <<h, i>>
  <2>1. b \in Arrivals(pos)
    BY DEF Arrivals
  <2>2. Total(pos, a, id) < Total(pos, b, id) \/ Total(pos, a, id) = Total(pos, b, id)
    BY <1>1, <2>1 DEF IsBestPredecessor
  <2>3. Total(pos, b, id) = other.cost + StepCost(other.edge, id)
    BY DEF Total, EntryAt
  <2>4. other.cost \in Int /\ StepCost(other.edge, id) \in Int
    BY <1>2, <1>4, <1>8, EntryTyped
  <2> DEFINE c == other.cost
             d == StepCost(other.edge, id)
             t == Total(pos, a, id)
             u == Total(pos, b, id)
             v == N(a).cost
  <2>5. c \in Int /\ d \in Int /\ u = c + d /\ (t < u \/ t = u)
    BY <2>2, <2>3, <2>4
  <2>6. v = t /\ v \in Int
    BY <1>11
  <2> HIDE DEF b, N, c, d, t, u, v
  <2>7. v <= c + d
    BY <2>5, <2>6
  <2> QED BY <2>7 DEF c, d, v
<1>13. N(a) = [cost |-> Total(pos, a, id), edge |-> id, prevEpos |-> x, prevSlot |-> s]
  BY <1>7
<1>14. N(a) \in StateEntry
  BY <1>5, <1>8, <1>9, <1>11, <1>13 DEF StateEntry
<1>15. /\ N(a).edge = id /\ N(a).prevEpos = x /\ N(a).prevSlot = s
       /\ N(a).cost = src.cost + StepCost(src.edge, id)
  BY <1>10, <1>13
<1> DEFINE n == N(a)
<1> HIDE DEF N, n
<1>16. /\ e \in Edge /\ e.start = pos /\ pos < e.end
       /\ n.edge = id
       /\ n.prevSlot \in DOMAIN slots[pos][n.prevEpos]
       /\ n.cost = slots[pos][n.prevEpos][n.prevSlot].cost
                   + StepCost(slots[pos][n.prevEpos][n.prevSlot].edge, id)
  BY <1>4, <1>5, <1>7, <1>15 DEF n
<1>17. n \in StateEntry /\ id \in DOMAIN allEdges
  BY <1>4, <1>14 DEF n
<1>18. slots' = [slots EXCEPT ![e.end][e.epos] = Insert(@, n)]
  BY <1>1 DEF n
<1>19. /\ id = byStart[pos][cursor + 1]
       /\ \A h \in DOMAIN keys[pos] : \A i \in DOMAIN slots[pos][keys[pos][h]] :
            n.cost <= slots[pos][keys[pos][h]][i].cost
                      + StepCost(slots[pos][keys[pos][h]][i].edge, id)
  BY <1>12 DEF n, id
<1>20. keys' = [keys EXCEPT ![e.end] =
                  IF \E k_1 \in DOMAIN @ : @[k_1] = e.epos THEN @ ELSE Append(@, e.epos)]
  BY <1>1
<1> HIDE DEF n
<1>21. Relaxes(id, n)
  BY <1>16, <1>18, <1>19, <1>20 DEF Relaxes
<1> QED BY <1>17, <1>21

\* Relaxing an edge leaves every position up to the present one as it was: the
\* slots a pointer can name do not move.
LEMMA RelaxEdgeFreezes ==
  ASSUME LatticeTypeOK, IndexInv, SolveTypeOK, BackpointersExact, RelaxEdge
  PROVE  \A p \in Pos : p <= pos => slots'[p] = slots[p]
<1>1. PICK id \in DOMAIN allEdges, n \in StateEntry :
        /\ allEdges[id] \in Edge /\ pos < allEdges[id].end
        /\ slots' = [slots EXCEPT ![allEdges[id].end][allEdges[id].epos] = Insert(@, n)]
  BY RelaxEdgeEffect DEF Relaxes
<1>2. pos \in Int /\ allEdges[id].end \in Int
  BY <1>1 DEF SolveTypeOK, Edge, Pos
<1>3. slots \in [Pos -> [ExtendedPOS -> Seq(StateEntry)]]
  BY DEF SolveTypeOK
<1> QED BY <1>1, <1>2, <1>3 DEF Pos

\* Relaxing an edge keeps every part of SolveInv: the one key it changes lies
\* ahead of the position visited, so no pointer into a settled key moves.
LEMMA RelaxEdgeInv ==
  ASSUME LatticeTypeOK, IndexInv, SolveInv, RelaxEdge
  PROVE  SolveInv'
<1> USE LatticeAssumption, ViterbiAssumption DEF SolveInv
<1>1. PICK id \in DOMAIN allEdges, n \in StateEntry :
        LET e == allEdges[id] IN
        /\ e \in Edge /\ e.start = pos /\ pos < e.end
        /\ n.edge = id
        /\ n.prevSlot \in DOMAIN slots[pos][n.prevEpos]
        /\ n.cost = slots[pos][n.prevEpos][n.prevSlot].cost
                    + StepCost(slots[pos][n.prevEpos][n.prevSlot].edge, id)
        /\ slots' = [slots EXCEPT ![e.end][e.epos] = Insert(@, n)]
        /\ keys' = [keys EXCEPT ![e.end] =
                      IF \E k \in DOMAIN @ : @[k] = e.epos THEN @ ELSE Append(@, e.epos)]
  BY RelaxEdgeEffect DEF Relaxes
<1> DEFINE e == allEdges[id]
           old == slots[e.end][e.epos]
<1>2. e.end \in Pos /\ e.epos \in ExtendedPOS /\ pos \in Pos /\ e.end \in Int /\ pos \in Int
  BY <1>1 DEF Edge, Pos, SolveTypeOK
<1>3. slots \in [Pos -> [ExtendedPOS -> Seq(StateEntry)]] /\ keys \in [Pos -> Seq(ExtendedPOS)]
  BY DEF SolveTypeOK
<1>4. UNCHANGED <<scorer, phase, pos, back, path, totalCost, latticeVars>> /\ cursor' = cursor + 1
  BY DEF RelaxEdge, Extension, Join
<1>5. old \in Seq(StateEntry) /\ Ranked(old)
  BY <1>2, <1>3 DEF SlotsOrderedAndDistinct
<1>6. /\ Insert(old, n) \in Seq(StateEntry)
      /\ Ranked(Insert(old, n))
      /\ \A j \in DOMAIN Insert(old, n) :
           Insert(old, n)[j] = n \/ \E k \in DOMAIN old : Insert(old, n)[j] = old[k]
  BY <1>5, InsertRanked
<1>7. \A p \in Pos, x \in ExtendedPOS :
        slots'[p][x] = IF p = e.end /\ x = e.epos THEN Insert(old, n) ELSE slots[p][x]
  BY <1>1, <1>2, <1>3
<1>8. \A p \in Pos, x \in ExtendedPOS : \A i \in DOMAIN slots'[p][x] :
        \/ p = e.end /\ x = e.epos /\ slots'[p][x][i] = n
        \/ \E k \in DOMAIN slots[p][x] : slots'[p][x][i] = slots[p][x][k]
  BY <1>6, <1>7
<1>9. \A p \in Pos : p <= pos => slots'[p] = slots[p]
  BY RelaxEdgeFreezes
<1>10. SolveTypeOK'
  <2>1. slots' \in [Pos -> [ExtendedPOS -> Seq(StateEntry)]]
    <3>1. [slots[e.end] EXCEPT ![e.epos] = Insert(old, n)] \in [ExtendedPOS -> Seq(StateEntry)]
      BY <1>2, <1>3, <1>6
    <3> QED BY <1>1, <1>2, <1>3, <3>1
  <2>2. keys' \in [Pos -> Seq(ExtendedPOS)]
    <3>1. keys[e.end] \in Seq(ExtendedPOS) /\ Append(keys[e.end], e.epos) \in Seq(ExtendedPOS)
      BY <1>2, <1>3
    <3> QED BY <1>1, <1>2, <1>3, <3>1
  <2> QED BY <1>4, <2>1, <2>2 DEF SolveTypeOK
<1>11. SlotsOrderedAndDistinct'
  <2>1. \A p \in Pos, x \in ExtendedPOS : Ranked(slots'[p][x])
    BY <1>6, <1>7 DEF SlotsOrderedAndDistinct
  <2>2. \A s : Ranked(s) => (Len(s) <= K /\ \A i, j \in DOMAIN s : i < j =>
           s[i].cost <= s[j].cost /\ ~SameIdentity(s[i].edge, s[j].edge)')
    BY <1>4 DEF Ranked, SameIdentity, latticeVars
  <2> QED BY <2>1, <2>2 DEF SlotsOrderedAndDistinct, Ranked
<1>12. BackpointersExact' /\ StartsSettled'
  <2> SUFFICES ASSUME NEW p \in Pos, NEW x \in ExtendedPOS, NEW i \in DOMAIN slots'[p][x]
               PROVE  /\ PointsBack(p, x, slots[p][x][i])'
                      /\ slots'[p][x][i].edge # BosEdgeId =>
                           allEdges'[slots'[p][x][i].edge].start <= pos'
    BY DEF BackpointersExact, StartsSettled
  <2>1. \A prev, d : StepCost(prev, d)' = StepCost(prev, d)
    BY <1>4 DEF StepCost, ClosesSentence, latticeVars
  <2>2. allEdges' = allEdges /\ pos' = pos
    BY <1>4 DEF latticeVars
  <2>3. CASE p = e.end /\ x = e.epos /\ slots'[p][x][i] = n
    <3>1. n.edge # BosEdgeId
      BY <1>1 DEF BosEdgeId, LatticeTypeOK
    <3>2. slots'[e.start][n.prevEpos] = slots[pos][n.prevEpos]
      BY <1>1, <1>2, <1>9
    <3>3. allEdges[id].start <= pos
      BY <1>1, <1>2
    <3> QED BY <1>1, <2>1, <2>2, <2>3, <3>1, <3>2, <3>3 DEF PointsBack
  <2>4. CASE \E k \in DOMAIN slots[p][x] : slots'[p][x][i] = slots[p][x][k]
    <3>1. PICK k \in DOMAIN slots[p][x] : slots'[p][x][i] = slots[p][x][k]
      BY <2>4
    <3> DEFINE entry == slots[p][x][k]
    <3>2. PointsBack(p, x, entry)
      BY DEF BackpointersExact
    <3>3. CASE entry.edge = BosEdgeId
      BY <2>2, <3>1, <3>2, <3>3 DEF PointsBack
    <3>4. CASE entry.edge # BosEdgeId
      <4>1. allEdges[entry.edge].start <= pos
        BY <3>4 DEF StartsSettled
      <4>2. entry.edge \in DOMAIN allEdges
        BY <3>2, <3>4 DEF PointsBack
      <4>3. allEdges[entry.edge].start \in Pos
        <5>1. allEdges[entry.edge] \in Edge
          BY <4>2, ElementOfSeq DEF LatticeTypeOK
        <5> QED BY <5>1 DEF Edge
      <4>4. slots'[allEdges[entry.edge].start] = slots[allEdges[entry.edge].start]
        BY <1>9, <4>1, <4>3
      <4> QED BY <2>1, <2>2, <3>1, <3>2, <3>4, <4>1, <4>4 DEF PointsBack
    <3> QED BY <3>3, <3>4
  <2> QED BY <1>8, <2>3, <2>4
<1>13. BacktrackInv'
  BY <1>4 DEF BacktrackInv, RelaxEdge, Extension, Join
<1> QED BY <1>10, <1>11, <1>12, <1>13

\* The properties of the table read nothing but the table, the lattice and the
\* scorer.
LEMMA TableUntouched ==
  ASSUME SlotsOrderedAndDistinct, BackpointersExact, UNCHANGED <<scorer, slots, allEdges>>
  PROVE  SlotsOrderedAndDistinct' /\ BackpointersExact'
<1>1. \A s : Ranked(s) => (Len(s) <= K /\ \A i, j \in DOMAIN s : i < j =>
         s[i].cost <= s[j].cost /\ ~SameIdentity(s[i].edge, s[j].edge)')
  BY DEF Ranked, SameIdentity
<1>2. \A prev, d : StepCost(prev, d)' = StepCost(prev, d)
  BY DEF StepCost, ClosesSentence
<1>3. SlotsOrderedAndDistinct'
  BY <1>1 DEF SlotsOrderedAndDistinct, Ranked
<1>4. BackpointersExact'
  <2> SUFFICES ASSUME NEW p \in Pos, NEW x \in ExtendedPOS, NEW i \in DOMAIN slots'[p][x]
               PROVE  PointsBack(p, x, slots[p][x][i])'
    BY DEF BackpointersExact
  <2>1. PointsBack(p, x, slots[p][x][i])
    BY DEF BackpointersExact
  <2> QED BY <1>2, <2>1 DEF PointsBack
<1> QED BY <1>3, <1>4

\* Moving on to the next position touches no table.
LEMMA NextPositionInv ==
  ASSUME LatticeTypeOK, SolveInv, NextPosition
  PROVE  SolveInv'
<1> USE LatticeAssumption
<1>1. /\ UNCHANGED <<scorer, phase, keys, slots, back, path, totalCost>>
      /\ UNCHANGED <<allEdges, byStart, byEnd>>
      /\ pos' = pos + 1 /\ cursor' = 0 /\ pos < TextLength /\ phase = "forward"
  BY DEF NextPosition, latticeVars
<1>2. pos' \in Pos /\ pos \in Int /\ cursor' \in Nat
  BY <1>1 DEF SolveInv, SolveTypeOK, Pos
<1>3. SolveTypeOK'
  BY <1>1, <1>2 DEF SolveInv, SolveTypeOK
<1>4. SlotsOrderedAndDistinct' /\ BackpointersExact'
  BY <1>1, TableUntouched DEF SolveInv
<1>5. StartsSettled'
  <2> SUFFICES ASSUME NEW p \in Pos, NEW x \in ExtendedPOS, NEW i \in DOMAIN slots[p][x],
                      slots[p][x][i].edge # BosEdgeId
               PROVE  allEdges[slots[p][x][i].edge].start <= pos + 1
    BY <1>1 DEF StartsSettled
  <2> DEFINE start == allEdges[slots[p][x][i].edge].start
  <2>1. start <= pos
    BY DEF SolveInv, StartsSettled
  <2>2. start \in Int
    <3>1. slots[p][x][i].edge \in DOMAIN allEdges
      BY DEF SolveInv, BackpointersExact, PointsBack
    <3>2. allEdges[slots[p][x][i].edge] \in Edge
      BY <3>1, ElementOfSeq DEF LatticeTypeOK
    <3> QED BY <3>2 DEF Edge, Pos
  <2> QED BY <1>2, <2>1, <2>2
<1>6. BacktrackInv'
  BY <1>1 DEF SolveInv, BacktrackInv
<1> QED BY <1>3, <1>4, <1>5, <1>6 DEF SolveInv

-----------------------------------------------------------------------------
(* The result *)

\* An edge that ends where a tiling begins extends it to the left.
LEMMA TilesExtend ==
  ASSUME LatticeTypeOK, IndexInv,
         NEW p \in Seq(Nat), NEW to, NEW id \in DOMAIN allEdges,
         Tiles(p, allEdges[id].end, to)
  PROVE  /\ Tiles(<<id>> \o p, allEdges[id].start, to)
         /\ <<id>> \o p \in Seq(Nat)
         /\ <<id>> \o p # <<>>
<1> DEFINE q == <<id>> \o p
<1>1. id \in Nat
  BY DEF LatticeTypeOK
<1>2. /\ q \in Seq(Nat) /\ Len(q) = Len(p) + 1 /\ Len(p) \in Nat
      /\ q[1] = id
      /\ \A i \in 1..Len(p) : q[i + 1] = p[i]
      /\ DOMAIN q = 1..(Len(p) + 1) /\ DOMAIN p = 1..Len(p)
  BY <1>1
<1> HIDE DEF q
<1>3. \A i \in DOMAIN q : i = 1 \/ (i - 1 \in DOMAIN p /\ q[i] = p[i - 1])
  <2> TAKE i \in DOMAIN q
  <2>1. i = 1 \/ i - 1 \in 1..Len(p)
    BY <1>2
  <2>2. i - 1 \in 1..Len(p) => q[(i - 1) + 1] = p[i - 1]
    BY <1>2
  <2> QED BY <1>2, <2>1, <2>2
<1>4. \A i \in DOMAIN q : q[i] \in DOMAIN allEdges
  BY <1>2, <1>3 DEF Tiles
<1>5. q # <<>>
  BY <1>2
<1>6. allEdges[q[1]].start = allEdges[id].start /\ allEdges[q[Len(q)]].end = to
  <2>1. CASE p = <<>>
    BY <1>2, <2>1 DEF Tiles
  <2>2. CASE p # <<>>
    <3>1. Len(p) \in 1..Len(p) /\ q[Len(q)] = p[Len(p)]
      BY <1>2, <2>2
    <3> QED BY <1>2, <2>2, <3>1 DEF Tiles
  <2> QED BY <2>1, <2>2
<1>7. ASSUME NEW i \in 1..(Len(q) - 1)
      PROVE  allEdges[q[i]].end = allEdges[q[i + 1]].start
  <2>1. i \in 1..Len(p) /\ q[i + 1] = p[i] /\ p # <<>>
    BY <1>2
  <2>2. CASE i = 1
    BY <1>2, <2>1, <2>2 DEF Tiles
  <2>3. CASE i # 1
    <3>1. i - 1 \in 1..(Len(p) - 1) /\ q[i] = p[i - 1] /\ (i - 1) + 1 = i
      BY <1>2, <1>3, <2>1, <2>3
    <3>2. allEdges[p[i - 1]].end = allEdges[p[(i - 1) + 1]].start
      BY <3>1 DEF Tiles
    <3> QED BY <2>1, <3>1, <3>2
  <2> QED BY <2>2, <2>3
<1> QED BY <1>2, <1>4, <1>5, <1>6, <1>7 DEF Tiles, q

\* The backtrack starts at a slot of the final position.
LEMMA PickFinalInv ==
  ASSUME SolveInv, PickFinal
  PROVE  SolveInv' /\ phase' = "backtrack"
<1> USE LatticeAssumption
<1>1. PICK a \in Arrivals(TextLength) :
        /\ back' = [pos |-> TextLength, epos |-> keys[TextLength][a[1]], slot |-> a[2]]
        /\ totalCost' = EntryAt(TextLength, a).cost
  BY DEF PickFinal
<1>2. /\ UNCHANGED <<scorer, keys, slots, pos, cursor, path>>
      /\ UNCHANGED <<allEdges, byStart, byEnd>>
      /\ phase = "forward" /\ phase' = "backtrack"
  BY DEF PickFinal, latticeVars
<1>3. PICK k \in DOMAIN keys[TextLength] :
        \E s \in DOMAIN slots[TextLength][keys[TextLength][k]] : a = <<k, s>>
  BY DEF Arrivals
<1>4. PICK s \in DOMAIN slots[TextLength][keys[TextLength][k]] : a = <<k, s>>
  BY <1>3
<1> DEFINE x == keys[TextLength][k]
<1>5. TextLength \in Pos /\ x \in ExtendedPOS
  <2>1. TextLength \in Pos
    BY DEF Pos
  <2>2. keys[TextLength] \in Seq(ExtendedPOS)
    BY <2>1 DEF SolveInv, SolveTypeOK
  <2> QED BY <2>1, <2>2, ElementOfSeq
<1>6. slots[TextLength][x] \in Seq(StateEntry)
  BY <1>5 DEF SolveInv, SolveTypeOK
<1>7. slots[TextLength][x][s] \in StateEntry /\ s \in Nat
  BY <1>6, ElementOfSeq
<1>8. back' = [pos |-> TextLength, epos |-> x, slot |-> s]
  BY <1>1, <1>4
<1>9. totalCost' \in Int
  BY <1>1, <1>4, <1>7 DEF EntryAt, StateEntry
<1>10. SolveTypeOK'
  BY <1>2, <1>5, <1>7, <1>8, <1>9 DEF SolveInv, SolveTypeOK
<1>11. SlotsOrderedAndDistinct' /\ BackpointersExact'
  BY <1>2, TableUntouched DEF SolveInv
<1>12. StartsSettled'
  BY <1>2 DEF SolveInv, StartsSettled
<1>13. BacktrackInv'
  <2>1. path' = <<>>
    BY <1>2 DEF SolveInv, BacktrackInv
  <2>2. Tiles(path, back.pos, TextLength)'
    BY <1>8, <2>1 DEF Tiles
  <2> QED BY <1>2, <1>4, <1>8, <2>2 DEF BacktrackInv
<1> QED BY <1>2, <1>10, <1>11, <1>12, <1>13 DEF SolveInv

\* Ending without a path keeps SolveInv.
LEMMA NoPathInv ==
  ASSUME SolveInv, NoPath
  PROVE  SolveInv'
<1>1. /\ UNCHANGED <<scorer, keys, slots, pos, cursor, back, path, totalCost>>
      /\ UNCHANGED <<allEdges, byStart, byEnd>>
      /\ phase = "forward" /\ phase' = "done" /\ keys[TextLength] = <<>>
  BY DEF NoPath, latticeVars
<1>2. SolveTypeOK'
  BY <1>1 DEF SolveInv, SolveTypeOK
<1>3. SlotsOrderedAndDistinct' /\ BackpointersExact'
  BY <1>1, TableUntouched DEF SolveInv
<1>4. StartsSettled' /\ BacktrackInv'
  BY <1>1 DEF SolveInv, StartsSettled, BacktrackInv
<1> QED BY <1>2, <1>3, <1>4 DEF SolveInv

\* One step of the backtrack: it stops at the start of the text only, having
\* tiled all of it, and otherwise moves to a slot that exists.
LEMMA BacktrackStepInv ==
  ASSUME LatticeTypeOK, IndexInv, SolveInv, BacktrackStep
  PROVE  SolveInv' /\ PathFound'
<1> USE LatticeAssumption
<1> DEFINE entry == BackSlots[back.slot]
<1>1. /\ UNCHANGED <<scorer, keys, slots, pos, cursor, totalCost>>
      /\ UNCHANGED <<allEdges, byStart, byEnd>>
      /\ phase = "backtrack"
  BY DEF BacktrackStep, Predecessor, latticeVars
<1>2. /\ back \in [pos: Pos, epos: ExtendedPOS, slot: Nat]
      /\ path \in Seq(Nat)
      /\ back.pos \in Pos /\ back.epos \in ExtendedPOS
  BY DEF SolveInv, SolveTypeOK
<1>3. /\ Tiles(path, back.pos, TextLength)
      /\ back.slot \in DOMAIN BackSlots
  BY <1>1 DEF SolveInv, BacktrackInv, BackSlots
<1>4. BackSlots \in Seq(StateEntry)
  BY <1>2 DEF SolveInv, SolveTypeOK, BackSlots
<1>5. entry \in StateEntry /\ back.slot <= Len(BackSlots)
  BY <1>3, <1>4, ElementOfSeq
<1>6. PointsBack(back.pos, back.epos, entry)
  BY <1>2, <1>3 DEF SolveInv, BackpointersExact, BackSlots
<1>7. SlotsOrderedAndDistinct' /\ BackpointersExact' /\ StartsSettled'
  BY <1>1, TableUntouched DEF SolveInv, StartsSettled
<1>8. CASE back.pos = 0 \/ BacktrackBreaks
  <2>1. phase' = "done" /\ UNCHANGED <<back, path>>
    BY <1>8 DEF BacktrackStep, Predecessor
  <2>2. back.pos = 0
    <3>1. CASE back.pos = 0
      BY <3>1
    <3>2. CASE BacktrackBreaks
      <4>1. entry.edge = BosEdgeId
        BY <1>5, <3>2, <1>2, <1>4 DEF BacktrackBreaks
      <4> QED BY <1>6, <4>1 DEF PointsBack
    <3> QED BY <1>8, <3>1, <3>2
  <2>3. path # <<>>
    BY <1>3, <2>2 DEF Tiles
  <2>4. BacktrackInv' /\ PathFound'
    <3>1. Tiles(path, 0, TextLength)'
      BY <1>1, <1>3, <2>1, <2>2 DEF Tiles
    <3> QED BY <2>1, <2>3, <3>1 DEF BacktrackInv, PathFound
  <2>5. SolveTypeOK'
    BY <1>1, <2>1 DEF SolveInv, SolveTypeOK
  <2> QED BY <1>7, <2>4, <2>5 DEF SolveInv
<1>9. CASE ~(back.pos = 0 \/ BacktrackBreaks)
  <2> DEFINE e == allEdges[entry.edge]
  <2>1. /\ path' = <<entry.edge>> \o path
        /\ back' = [pos |-> e.start, epos |-> entry.prevEpos, slot |-> entry.prevSlot]
        /\ phase' = "backtrack"
    BY <1>1, <1>9 DEF BacktrackStep, Predecessor
  <2>2. entry.edge # BosEdgeId
    BY <1>9 DEF BacktrackBreaks
  <2>3. /\ entry.edge \in DOMAIN allEdges /\ e.end = back.pos
        /\ entry.prevSlot \in DOMAIN slots[e.start][entry.prevEpos]
    BY <1>6, <2>2 DEF PointsBack
  <2>4. e.start \in Pos
    <3>1. e \in Edge
      BY <2>3, ElementOfSeq DEF LatticeTypeOK
    <3> QED BY <3>1 DEF Edge
  <2>5. Tiles(path', e.start, TextLength) /\ path' \in Seq(Nat) /\ path' # <<>>
    BY <1>2, <1>3, <2>1, <2>3, TilesExtend
  <2>6. SolveTypeOK'
    <3>1. back' \in [pos: Pos, epos: ExtendedPOS, slot: Nat]
      BY <1>5, <2>1, <2>4 DEF StateEntry
    <3> QED BY <1>1, <2>1, <2>5, <3>1 DEF SolveInv, SolveTypeOK
  <2>7. BacktrackInv' /\ PathFound'
    <3>1. /\ Tiles(path, back.pos, TextLength)'
          /\ (back.slot \in DOMAIN slots[back.pos][back.epos])'
      BY <1>1, <2>1, <2>3, <2>5 DEF Tiles
    <3> QED BY <2>1, <3>1 DEF BacktrackInv, PathFound
  <2> QED BY <1>7, <2>6, <2>7 DEF SolveInv
<1> QED BY <1>8, <1>9

\* Every step of solve over a well-formed lattice preserves the invariant.
THEOREM SolveInvStep ==
  ASSUME LatticeTypeOK, IndexInv, SolveInv, SolveNext
  PROVE  SolveInv'
BY RelaxEdgeInv, NextPositionInv, PickFinalInv, NoPathInv, BacktrackStepInv DEF SolveNext

-----------------------------------------------------------------------------
(* Chunk analysis *)

\* A non-empty bounded set of naturals has a maximum.
LEMMA MaxExists ==
  ASSUME NEW S, S \subseteq Nat, S # {}, NEW n \in Nat, \A x \in S : x <= n
  PROVE  Max(S) \in S /\ \A x \in S : x <= Max(S)
<1> DEFINE T == {n - x : x \in S}
<1>1. T \subseteq Nat /\ T # {}
  <2>1. \A x \in S : n - x \in Nat
    OBVIOUS
  <2> QED BY <2>1
<1>2. PICK m \in T : \A y \in T : m <= y
  <2> HIDE DEF T
  <2> QED BY <1>1, LeastNatural
<1>3. PICK x \in S : m = n - x
  BY <1>2
<1>4. ASSUME NEW y \in S PROVE x >= y
  <2>1. n - x <= n - y
    BY <1>2, <1>3
  <2>2. x \in Int /\ y \in Int
    OBVIOUS
  <2> QED BY <2>1, <2>2
<1>5. Max(S) \in S /\ \A y \in S : Max(S) >= y
  BY <1>3, <1>4, Zenon DEF Max
<1>6. \A y \in S : Max(S) \in Nat /\ y \in Nat
  BY <1>5
<1> QED BY <1>5, <1>6

-----------------------------------------------------------------------------
(* The lattice *)

\* g is index f with id entered at one position: nothing is forgotten, and
\* nothing but id is new.
Indexed(f, at, id, g) ==
  /\ g \in [Pos -> Seq(Nat \ {0})]
  /\ \A p \in Pos : \A k \in DOMAIN f[p] : k \in DOMAIN g[p] /\ g[p][k] = f[p][k]
  /\ \A p \in Pos : \A k \in DOMAIN g[p] :
       \/ k \in DOMAIN f[p] /\ g[p][k] = f[p][k]
       \/ p = at /\ g[p][k] = id
  /\ \E k \in DOMAIN g[at] : g[at][k] = id
  /\ \A p \in Pos : f[p] # <<>> => g[p] # <<>>
  /\ g[at] # <<>>

\* Appending to one index of a family of sequences leaves every old entry in
\* its place.
LEMMA IndexAppend ==
  ASSUME NEW f \in [Pos -> Seq(Nat \ {0})], NEW at \in Pos, NEW id \in Nat \ {0}
  PROVE  Indexed(f, at, id, [f EXCEPT ![at] = Append(f[at], id)])
<1> DEFINE s == f[at]
           t == Append(s, id)
           g == [f EXCEPT ![at] = Append(f[at], id)]
<1>1. /\ s \in Seq(Nat \ {0}) /\ t \in Seq(Nat \ {0}) /\ t # <<>>
      /\ Len(s) \in Nat /\ DOMAIN s = 1..Len(s) /\ DOMAIN t = 1..(Len(s) + 1)
      /\ \A k \in 1..Len(s) : t[k] = s[k]
      /\ t[Len(s) + 1] = id
  <2> DEFINE Ids == Nat \ {0}
  <2>1. s \in Seq(Ids) /\ id \in Ids
    OBVIOUS
  <2> HIDE DEF s, Ids
  <2>2. /\ t \in Seq(Ids) /\ t # <<>>
        /\ Len(t) = Len(s) + 1
        /\ \A k \in 1..Len(s) : t[k] = s[k]
        /\ t[Len(s) + 1] = id
    BY <2>1, AppendProperties
  <2>3. Len(s) \in Nat /\ DOMAIN s = 1..Len(s) /\ DOMAIN t = 1..Len(t)
    BY <2>1, <2>2
  <2> QED BY <2>1, <2>2, <2>3 DEF Ids
<1>2. \A p \in Pos : g[p] = IF p = at THEN t ELSE f[p]
  OBVIOUS
<1>3. g \in [Pos -> Seq(Nat \ {0})]
  BY <1>1
<1> HIDE DEF s, t, g
<1>4. \A k \in DOMAIN t : (k \in DOMAIN s /\ t[k] = s[k]) \/ k = Len(s) + 1
  BY <1>1
<1>5. \A k \in DOMAIN s : k \in DOMAIN t /\ t[k] = s[k]
  BY <1>1
<1>6. Len(s) + 1 \in DOMAIN t
  BY <1>1
<1>7. \A p \in Pos : \A k \in DOMAIN g[p] :
        \/ k \in DOMAIN f[p] /\ g[p][k] = f[p][k]
        \/ p = at /\ g[p][k] = id
  BY <1>1, <1>2, <1>4 DEF s
<1>8. \A p \in Pos : \A k \in DOMAIN f[p] : k \in DOMAIN g[p] /\ g[p][k] = f[p][k]
  BY <1>2, <1>5 DEF s
<1>9. Indexed(f, at, id, g)
  BY <1>1, <1>2, <1>3, <1>6, <1>7, <1>8 DEF Indexed
<1> QED BY <1>9 DEF g

\* addEdge keeps the edges and both indices consistent, forgets nothing, and
\* indexes an accepted edge at its start.
LEMMA AddEdgeInv ==
  ASSUME LatticeTypeOK, IndexInv, NEW e \in Edge, AddEdge(e)
  PROVE  /\ LatticeTypeOK'
         /\ IndexInv'
         /\ Len(allEdges) <= Len(allEdges')
         /\ \A i \in DOMAIN allEdges : i \in DOMAIN allEdges' /\ allEdges'[i] = allEdges[i]
         /\ \A p \in Pos : byStart[p] # <<>> => byStart'[p] # <<>>
         /\ AcceptsEdge(e) => byStart'[e.start] # <<>>
<1> USE LatticeAssumption
<1>1. CASE ~AcceptsEdge(e)
  BY <1>1 DEF AddEdge, latticeVars, LatticeTypeOK, IndexInv
<1>2. CASE AcceptsEdge(e)
  <2> DEFINE id == Len(allEdges) + 1
  <2>1. /\ allEdges' = Append(allEdges, e)
        /\ byStart' = [byStart EXCEPT ![e.start] = Append(@, id)]
        /\ byEnd' = [byEnd EXCEPT ![e.end] = Append(@, id)]
    BY <1>2 DEF AddEdge
  <2>2. e.start \in Pos /\ e.end \in Pos /\ e.start < e.end
    BY <1>2 DEF Edge, AcceptsEdge
  <2>3. /\ allEdges' \in Seq(Edge) /\ Len(allEdges') = id /\ id \in Nat \ {0}
        /\ id = Len(allEdges) + 1 /\ Len(allEdges) \in Nat
        /\ DOMAIN allEdges = 1..Len(allEdges) /\ DOMAIN allEdges' = 1..id
        /\ allEdges'[id] = e
        /\ \A i \in DOMAIN allEdges : i # id /\ allEdges'[i] = allEdges[i]
    BY <2>1, AppendProperties DEF LatticeTypeOK
  <2> HIDE DEF id
  <2>4. byStart \in [Pos -> Seq(Nat \ {0})] /\ byEnd \in [Pos -> Seq(Nat \ {0})]
    BY DEF LatticeTypeOK
  <2>5. Indexed(byStart, e.start, id, byStart')
    <3>1. byStart \in [Pos -> Seq(Nat \ {0})] /\ e.start \in Pos /\ id \in Nat \ {0}
      BY <2>2, <2>3, <2>4
    <3>2. byStart' = [byStart EXCEPT ![e.start] = Append(byStart[e.start], id)]
      BY <2>1
    <3> QED BY <3>1, <3>2, IndexAppend
  <2>6. Indexed(byEnd, e.end, id, byEnd')
    <3>1. byEnd \in [Pos -> Seq(Nat \ {0})] /\ e.end \in Pos /\ id \in Nat \ {0}
      BY <2>2, <2>3, <2>4
    <3>2. byEnd' = [byEnd EXCEPT ![e.end] = Append(byEnd[e.end], id)]
      BY <2>1
    <3> QED BY <3>1, <3>2, IndexAppend
  <2>7. LatticeTypeOK'
    BY <2>3, <2>5, <2>6 DEF LatticeTypeOK, Indexed
  <2>8. ASSUME NEW i \in DOMAIN allEdges'
        PROVE  /\ allEdges'[i].start < allEdges'[i].end
               /\ \E k \in DOMAIN byStart'[allEdges'[i].start] : byStart'[allEdges'[i].start][k] = i
               /\ \E k \in DOMAIN byEnd'[allEdges'[i].end] : byEnd'[allEdges'[i].end][k] = i
    <3>1. CASE i = id
      BY <2>2, <2>3, <2>5, <2>6, <3>1 DEF Indexed
    <3>2. CASE i # id
      <4>1. i \in DOMAIN allEdges /\ allEdges'[i] = allEdges[i]
        BY <2>3, <3>2
      <4>2. allEdges[i].start \in Pos /\ allEdges[i].end \in Pos
        <5>1. allEdges[i] \in Edge
          BY <4>1, ElementOfSeq DEF LatticeTypeOK
        <5> QED BY <5>1 DEF Edge
      <4>3. /\ allEdges[i].start < allEdges[i].end
            /\ \E k \in DOMAIN byStart[allEdges[i].start] : byStart[allEdges[i].start][k] = i
            /\ \E k \in DOMAIN byEnd[allEdges[i].end] : byEnd[allEdges[i].end][k] = i
        BY <4>1 DEF IndexInv
      <4> QED BY <2>5, <2>6, <4>1, <4>2, <4>3 DEF Indexed
    <3> QED BY <3>1, <3>2
  <2>9. ASSUME NEW p \in Pos
        PROVE  /\ \A k \in DOMAIN byStart'[p] :
                    byStart'[p][k] \in DOMAIN allEdges' /\ allEdges'[byStart'[p][k]].start = p
               /\ \A k \in DOMAIN byEnd'[p] :
                    byEnd'[p][k] \in DOMAIN allEdges' /\ allEdges'[byEnd'[p][k]].end = p
    <3>1. id \in DOMAIN allEdges' /\ \A i \in DOMAIN allEdges : i \in DOMAIN allEdges'
      BY <2>3
    <3>2. /\ \A k \in DOMAIN byStart[p] :
               byStart[p][k] \in DOMAIN allEdges /\ allEdges[byStart[p][k]].start = p
          /\ \A k \in DOMAIN byEnd[p] :
               byEnd[p][k] \in DOMAIN allEdges /\ allEdges[byEnd[p][k]].end = p
      BY DEF IndexInv
    <3>3. ASSUME NEW k \in DOMAIN byStart'[p]
          PROVE  byStart'[p][k] \in DOMAIN allEdges' /\ allEdges'[byStart'[p][k]].start = p
      <4>1. CASE k \in DOMAIN byStart[p] /\ byStart'[p][k] = byStart[p][k]
        BY <2>3, <3>1, <3>2, <4>1
      <4>2. CASE p = e.start /\ byStart'[p][k] = id
        BY <2>3, <3>1, <4>2
      <4> QED BY <2>5, <4>1, <4>2 DEF Indexed
    <3>4. ASSUME NEW k \in DOMAIN byEnd'[p]
          PROVE  byEnd'[p][k] \in DOMAIN allEdges' /\ allEdges'[byEnd'[p][k]].end = p
      <4>1. CASE k \in DOMAIN byEnd[p] /\ byEnd'[p][k] = byEnd[p][k]
        BY <2>3, <3>1, <3>2, <4>1
      <4>2. CASE p = e.end /\ byEnd'[p][k] = id
        BY <2>3, <3>1, <4>2
      <4> QED BY <2>6, <4>1, <4>2 DEF Indexed
    <3> QED BY <3>3, <3>4
  <2>10. IndexInv'
    BY <2>8, <2>9 DEF IndexInv
  <2>11. Len(allEdges) <= Len(allEdges')
    BY <2>3 DEF LatticeTypeOK
  <2> QED BY <2>3, <2>5, <2>7, <2>10, <2>11 DEF Indexed
<1> QED BY <1>1, <1>2

-----------------------------------------------------------------------------
(* The invariant *)

LatticeInv == LatticeTypeOK /\ IndexInv

\* solve has not begun while the lattice is being built.
Unstarted == stage # "built" => SolveInit

\* Unless the ids ran out, the fallback loop leaves no bare position behind.
FallbackProgress ==
  stage = "fallback" /\ Len(allEdges) < MaxEdges =>
    \A p \in Pos : p < genPos => byStart[p] # <<>>

\* Unless a position is bare, the forward pass has somewhere to go.
SolveProgress ==
  stage = "built" /\ (\A p \in 0..(TextLength - 1) : byStart[p] # <<>>) => PathRemains /\ PathFound

ChunkInv ==
  /\ LatticeInv
  /\ TokenizerTypeOK
  /\ SolveInv
  /\ Unstarted
  /\ FallbackProgress
  /\ EveryPositionHasEdge
  /\ SolveProgress

\* An empty lattice and a fresh table satisfy the invariant.
LEMMA InitInv == Init => ChunkInv
<1> USE LatticeAssumption, TokenizerAssumption
<1> SUFFICES ASSUME Init PROVE ChunkInv
  OBVIOUS
<1>1. allEdges = <<>> /\ byStart = [p \in Pos |-> <<>>] /\ byEnd = [p \in Pos |-> <<>>]
  BY DEF Init, LatticeInit
<1>2. LatticeInv
  <2>1. LatticeTypeOK
    BY <1>1 DEF LatticeTypeOK
  <2>2. IndexInv
    BY <1>1 DEF IndexInv
  <2> QED BY <2>1, <2>2 DEF LatticeInv
<1>3. TokenizerTypeOK /\ stage = "generate"
  BY DEF Init, TokenizerInit, TokenizerTypeOK, Pos
<1>4. SolveInv /\ SolveInit
  BY SolveInitInv DEF Init
<1> QED BY <1>2, <1>3, <1>4 DEF ChunkInv, Unstarted, FallbackProgress,
                              EveryPositionHasEdge, SolveProgress

\* The clamp rewrites costs only: spans, keys and identities stay.
LEMMA ClampKeepsSpans ==
  ASSUME LatticeTypeOK, ClampBonuses
  PROVE  /\ allEdges' \in Seq(Edge) /\ Len(allEdges') = Len(allEdges)
         /\ DOMAIN allEdges' = DOMAIN allEdges
         /\ \A i \in DOMAIN allEdges :
              /\ allEdges[i] \in Edge
              /\ allEdges'[i] = IF Clamped(allEdges[i])
                               THEN [allEdges[i] EXCEPT !.cost = CategoryCost[allEdges[i].epos],
                                                        !.custom = TRUE]
                               ELSE allEdges[i]
              /\ allEdges'[i].start = allEdges[i].start /\ allEdges'[i].end = allEdges[i].end
              /\ allEdges'[i].epos = allEdges[i].epos /\ allEdges'[i].sig = allEdges[i].sig
              /\ allEdges'[i].user = allEdges[i].user
<1> USE TokenizerAssumption
<1> DEFINE New(e) == IF Clamped(e) THEN [e EXCEPT !.cost = CategoryCost[e.epos], !.custom = TRUE]
                                   ELSE e
<1>1. \A i \in DOMAIN allEdges : allEdges[i] \in Edge
  BY ElementOfSeq DEF LatticeTypeOK
<1>2. Len(allEdges) \in Nat /\ DOMAIN allEdges = 1..Len(allEdges)
  BY DEF LatticeTypeOK
<1>3. \A e \in Edge :
        /\ New(e) \in Edge /\ New(e).start = e.start /\ New(e).end = e.end
        /\ New(e).epos = e.epos /\ New(e).sig = e.sig /\ New(e).user = e.user
  BY DEF Edge
<1>4. allEdges' = [i \in DOMAIN allEdges |-> New(allEdges[i])]
  BY DEF ClampBonuses
<1>5. \A i \in DOMAIN allEdges : allEdges'[i] = New(allEdges[i])
  BY <1>4
<1> HIDE DEF New
<1>6. allEdges' \in [1..Len(allEdges) -> Edge]
  BY <1>1, <1>2, <1>3, <1>4
<1>7. allEdges' \in Seq(Edge) /\ Len(allEdges') = Len(allEdges)
      /\ DOMAIN allEdges' = DOMAIN allEdges
  BY <1>2, <1>6, FunctionIsSeq
<1> QED BY <1>1, <1>3, <1>5, <1>7 DEF New

\* The clamp changes costs and flags only, so the lattice stays well formed.
LEMMA ClampLatticeInv ==
  ASSUME LatticeInv, ClampBonuses
  PROVE  LatticeInv'
<1>1. LatticeTypeOK /\ IndexInv /\ UNCHANGED <<byStart, byEnd>>
  BY DEF LatticeInv, ClampBonuses
<1>2. /\ allEdges' \in Seq(Edge) /\ DOMAIN allEdges' = DOMAIN allEdges
      /\ \A i \in DOMAIN allEdges :
           allEdges'[i].start = allEdges[i].start /\ allEdges'[i].end = allEdges[i].end
  BY <1>1, ClampKeepsSpans
<1>3. LatticeTypeOK'
  BY <1>1, <1>2 DEF LatticeTypeOK
<1>4. IndexInv'
  BY <1>1, <1>2 DEF IndexInv
<1> QED BY <1>3, <1>4 DEF LatticeInv

\* Every step of buildLattice preserves the invariant.
LEMMA BuildInv ==
  ASSUME ChunkInv, Build
  PROVE  ChunkInv'
<1> USE LatticeAssumption, TokenizerAssumption
<1>1. /\ stage # "built" /\ SolveInit /\ UNCHANGED solveVars
      /\ LatticeTypeOK /\ IndexInv /\ TokenizerTypeOK
  BY DEF ChunkInv, Build, Unstarted, LatticeInv
<1>2. genPos \in Pos /\ genPos \in Int /\ added \in Nat
  BY <1>1 DEF TokenizerTypeOK, Pos
<1>3. SolveInit' /\ SolveInv' /\ PathRemains' /\ PathFound'
  <2>1. SolveInit'
    BY <1>1 DEF SolveInit, solveVars
  <2>2. (SolveInit => SolveInv /\ PathRemains /\ PathFound)'
    BY SolveInitInv, PTL
  <2> QED BY <2>1, <2>2
<1>4. Unstarted'
  BY <1>3 DEF Unstarted
<1>5. CASE GenerateCandidate
  <2>1. PICK c \in Offered : AddEdge(c)
    BY <1>5 DEF GenerateCandidate
  <2>2. c \in Edge
    BY DEF Offered
  <2>3. LatticeInv'
    BY <1>1, <2>1, <2>2, AddEdgeInv DEF LatticeInv
  <2>4. stage' = "generate" /\ genPos' = genPos /\ added' \in 0..MaxCandidates /\ mode' = mode
    BY <1>1, <1>2, <1>5 DEF GenerateCandidate, TokenizerTypeOK
  <2>5. TokenizerTypeOK'
    BY <1>1, <2>4 DEF TokenizerTypeOK
  <2> QED BY <1>3, <1>4, <2>3, <2>4, <2>5
          DEF ChunkInv, FallbackProgress, EveryPositionHasEdge, SolveProgress
<1>6. CASE NextGeneratePosition \/ BeginFallback
  <2>1. UNCHANGED <<allEdges, byStart, byEnd, mode>> /\ stage' # "built"
    BY <1>6 DEF NextGeneratePosition, BeginFallback, latticeVars
  <2>2. LatticeInv'
    BY <1>1, <2>1 DEF LatticeInv, LatticeTypeOK, IndexInv
  <2>3. TokenizerTypeOK'
    BY <1>1, <1>2, <1>6 DEF NextGeneratePosition, BeginFallback, TokenizerTypeOK, Pos
  <2>4. FallbackProgress'
    BY <1>6 DEF NextGeneratePosition, BeginFallback, FallbackProgress, Pos
  <2> QED BY <1>3, <1>4, <2>1, <2>2, <2>3, <2>4 DEF ChunkInv, EveryPositionHasEdge, SolveProgress
<1>7. CASE Fallback
  <2> DEFINE e == FallbackEdge(genPos)
  <2>1. /\ stage = "fallback" /\ stage' = "fallback" /\ genPos < TextLength
        /\ genPos' = genPos + 1 /\ UNCHANGED <<mode, added>>
    BY <1>7 DEF Fallback
  <2>2. e \in Edge /\ e.start = genPos /\ e.start < e.end /\ e.end <= TextLength
    BY <1>2, <2>1 DEF FallbackEdge, Edge, Pos
  <2>3. TokenizerTypeOK'
    BY <1>1, <1>2, <2>1 DEF TokenizerTypeOK, Pos
  <2>4. CASE byStart[genPos] = <<>>
    <3> HIDE DEF e
    <3>1. AddEdge(e)
      BY <1>7, <2>4 DEF Fallback, e
    <3>2. /\ LatticeTypeOK' /\ IndexInv'
          /\ Len(allEdges) <= Len(allEdges')
          /\ \A p \in Pos : byStart[p] # <<>> => byStart'[p] # <<>>
          /\ AcceptsEdge(e) => byStart'[e.start] # <<>>
      BY <1>1, <2>2, <3>1, AddEdgeInv
    <3>3. Len(allEdges) \in Nat /\ Len(allEdges') \in Nat
      BY <1>1, <3>2 DEF LatticeTypeOK
    <3>4. FallbackProgress'
      <4> SUFFICES ASSUME Len(allEdges') < MaxEdges, NEW p \in Pos, p < genPos + 1
                   PROVE  byStart'[p] # <<>>
        BY <2>1 DEF FallbackProgress
      <4>1. Len(allEdges) < MaxEdges
        BY <3>2, <3>3
      <4>2. CASE p = genPos
        BY <2>2, <3>2, <4>1, <4>2 DEF AcceptsEdge
      <4>3. CASE p < genPos
        BY <2>1, <3>2, <4>1, <4>3 DEF ChunkInv, FallbackProgress
      <4> QED BY <1>2, <4>2, <4>3 DEF Pos
    <3> QED BY <1>3, <1>4, <2>1, <2>3, <3>2, <3>4
            DEF ChunkInv, LatticeInv, EveryPositionHasEdge, SolveProgress
  <2>5. CASE byStart[genPos] # <<>>
    <3>1. UNCHANGED <<allEdges, byStart, byEnd>>
      BY <1>7, <2>5 DEF Fallback, latticeVars
    <3>2. LatticeInv'
      BY <1>1, <3>1 DEF LatticeInv, LatticeTypeOK, IndexInv
    <3>3. FallbackProgress'
      BY <1>2, <2>1, <2>5, <3>1 DEF ChunkInv, FallbackProgress, Pos
    <3> QED BY <1>3, <1>4, <2>1, <2>3, <3>2, <3>3 DEF ChunkInv, EveryPositionHasEdge, SolveProgress
  <2> QED BY <2>4, <2>5
<1>8. CASE ClampBonuses
  <2>1. /\ stage = "fallback" /\ stage' = "built" /\ genPos = TextLength
        /\ UNCHANGED <<mode, genPos, added, byStart, byEnd>>
    BY <1>8 DEF ClampBonuses
  <2>2. LatticeInv'
    BY <1>1, <1>8, ClampLatticeInv DEF LatticeInv
  <2>3. Len(allEdges') = Len(allEdges)
    BY <1>1, <1>8, ClampKeepsSpans
  <2>4. EveryPositionHasEdge'
    <3> SUFFICES ASSUME Len(allEdges) < MaxEdges, NEW p \in 0..(TextLength - 1)
                 PROVE  byStart[p] # <<>>
      BY <2>1, <2>3 DEF EveryPositionHasEdge
    <3>1. p \in Pos /\ p < genPos
      BY <2>1 DEF Pos
    <3> QED BY <2>1, <3>1 DEF ChunkInv, FallbackProgress
  <2>5. TokenizerTypeOK'
    BY <1>1, <2>1 DEF TokenizerTypeOK
  <2> QED BY <1>3, <1>4, <2>1, <2>2, <2>4, <2>5 DEF ChunkInv, FallbackProgress, SolveProgress
<1> QED BY <1>5, <1>6, <1>7, <1>8 DEF Build, BuildNext

\* While every position has an edge, each step of solve leaves somewhere to go.
LEMMA SolveProgressStep ==
  ASSUME LatticeInv, SolveInv, PathRemains, PathFound, SolveNext,
         \A p \in 0..(TextLength - 1) : byStart[p] # <<>>
  PROVE  PathRemains' /\ PathFound'
<1> USE LatticeAssumption
<1>1. LatticeTypeOK /\ IndexInv /\ SolveTypeOK /\ pos \in Pos /\ pos \in Int /\ cursor \in Nat
      /\ BackpointersExact
  BY SMTT(30) DEF LatticeInv, SolveInv, SolveTypeOK, Pos
<1>2. CASE RelaxEdge
  <2>1. PICK id \in DOMAIN allEdges, n \in StateEntry :
          LET e == allEdges[id] IN
          /\ e \in Edge /\ pos < e.end
          /\ keys' = [keys EXCEPT ![e.end] =
                        IF \E k \in DOMAIN @ : @[k] = e.epos THEN @ ELSE Append(@, e.epos)]
    BY <1>1, <1>2, RelaxEdgeEffect DEF Relaxes
  <2> DEFINE e == allEdges[id]
  <2>2. e.end \in Pos /\ e.epos \in ExtendedPOS
    BY <2>1 DEF Edge
  <2>3. keys[e.end] \in Seq(ExtendedPOS) /\ keys \in [Pos -> Seq(ExtendedPOS)]
    BY <1>1, <2>2 DEF SolveTypeOK
  <2>4. keys'[e.end] # <<>>
    <3>1. keys'[e.end] = IF \E k \in DOMAIN keys[e.end] : keys[e.end][k] = e.epos
                         THEN keys[e.end] ELSE Append(keys[e.end], e.epos)
      BY <2>1, <2>2, <2>3
    <3>2. Append(keys[e.end], e.epos) # <<>>
      BY <2>2, <2>3, AppendProperties
    <3>3. (\E k \in DOMAIN keys[e.end] : TRUE) => keys[e.end] # <<>>
      BY <2>3
    <3> QED BY <3>1, <3>2, <3>3
  <2>5. phase' = "forward" /\ pos' = pos
    BY <1>2 DEF RelaxEdge, Extension, Join
  <2>6. pos <= e.end
    BY <1>1, <2>1, <2>2 DEF Pos
  <2> QED BY <2>1, <2>2, <2>4, <2>5, <2>6 DEF PathRemains, PathFound
<1>3. CASE NextPosition
  <2>1. /\ UNCHANGED <<keys, phase>> /\ phase = "forward"
        /\ pos < TextLength /\ pos' = pos + 1 /\ cursor' = 0
        /\ keys[pos] = <<>> \/ cursor = Len(byStart[pos])
    BY <1>3 DEF NextPosition
  <2>2. PICK q \in Pos : pos <= q /\ keys[q] # <<>> /\ (cursor > 0 => pos < q)
    BY <2>1 DEF PathRemains
  <2>3. pos < q
    <3>1. CASE keys[pos] = <<>>
      <4>1. q # pos
        BY <2>2, <3>1
      <4> QED BY <1>1, <2>2, <4>1 DEF Pos
    <3>2. CASE cursor = Len(byStart[pos])
      <4>1. byStart[pos] # <<>> /\ byStart[pos] \in Seq(Nat \ {0})
        BY <1>1, <2>1 DEF Pos, LatticeTypeOK
      <4>2. Len(byStart[pos]) > 0
        BY <4>1
      <4> QED BY <2>2, <3>2, <4>2
    <3> QED BY <2>1, <3>1, <3>2
  <2>4. pos' <= q
    BY <1>1, <2>1, <2>3 DEF Pos
  <2> QED BY <2>1, <2>2, <2>4 DEF PathRemains, PathFound
<1>4. CASE PickFinal
  BY <1>4 DEF PickFinal, PathRemains, PathFound
<1>5. CASE NoPath
  <2>1. phase = "forward" /\ pos = TextLength /\ keys[TextLength] = <<>>
    BY <1>5 DEF NoPath
  <2>2. PICK q \in Pos : pos <= q /\ keys[q] # <<>>
    BY <2>1 DEF PathRemains
  <2>3. q = TextLength
    BY <2>1, <2>2 DEF Pos
  <2> QED BY <2>1, <2>2, <2>3
<1>6. CASE BacktrackStep
  <2>1. PathFound'
    BY <1>1, <1>6, BacktrackStepInv
  <2>2. phase' # "forward"
    BY <1>6 DEF BacktrackStep, Predecessor
  <2> QED BY <2>1, <2>2 DEF PathRemains
<1> QED BY <1>2, <1>3, <1>4, <1>5, <1>6 DEF SolveNext

\* A step of the decoder keeps the invariant.
LEMMA SolveStepInv ==
  ASSUME ChunkInv, Solve
  PROVE  ChunkInv'
<1>1. /\ stage = "built" /\ UNCHANGED <<mode, stage, genPos, added, allEdges, byStart, byEnd>>
      /\ SolveNext
  BY DEF Solve, genVars, SolveNext, RelaxEdge, NextPosition, PickFinal, NoPath,
         BacktrackStep, latticeVars
<1>2. LatticeTypeOK /\ IndexInv /\ SolveInv
  BY DEF ChunkInv, LatticeInv
<1>3. SolveInv'
  BY <1>1, <1>2, SolveInvStep
<1>4. LatticeInv' /\ TokenizerTypeOK' /\ EveryPositionHasEdge'
  BY <1>1 DEF ChunkInv, LatticeInv, LatticeTypeOK, IndexInv, TokenizerTypeOK, EveryPositionHasEdge
<1>5. SolveProgress'
  <2> SUFFICES ASSUME \A p \in 0..(TextLength - 1) : byStart[p] # <<>>
               PROVE  PathRemains' /\ PathFound'
    BY <1>1 DEF SolveProgress
  <2>1. PathRemains /\ PathFound
    BY <1>1 DEF ChunkInv, SolveProgress
  <2> QED BY <1>1, <2>1, SolveProgressStep DEF ChunkInv
<1> QED BY <1>1, <1>3, <1>4, <1>5 DEF ChunkInv, Unstarted, FallbackProgress

\* So does a step that changes nothing.
LEMMA StutterInv == ChunkInv /\ UNCHANGED vars => ChunkInv'
<1> SUFFICES ASSUME ChunkInv, UNCHANGED vars PROVE ChunkInv'
  OBVIOUS
<1>1. UNCHANGED <<mode, stage, genPos, added, allEdges, byStart, byEnd>>
      /\ UNCHANGED <<scorer, phase, keys, slots, pos, cursor, back, path, totalCost>>
  BY DEF vars, genVars, latticeVars, solveVars
<1>2. LatticeInv' /\ TokenizerTypeOK' /\ EveryPositionHasEdge' /\ FallbackProgress'
  BY <1>1 DEF ChunkInv, LatticeInv, LatticeTypeOK, IndexInv, TokenizerTypeOK,
              EveryPositionHasEdge, FallbackProgress
<1>3. SlotsOrderedAndDistinct' /\ BackpointersExact'
  BY <1>1, TableUntouched DEF ChunkInv, SolveInv
<1>4. SolveTypeOK' /\ StartsSettled' /\ BacktrackInv'
  BY <1>1 DEF ChunkInv, SolveInv, SolveTypeOK, StartsSettled, BacktrackInv, Tiles
<1>5. Unstarted' /\ SolveProgress'
  BY <1>1 DEF ChunkInv, Unstarted, SolveInit, SolveProgress, PathRemains, PathFound
<1> QED BY <1>2, <1>3, <1>4, <1>5 DEF ChunkInv, SolveInv

\* The invariant of the whole analysis.
THEOREM ChunkInvariant == Spec => []ChunkInv
<1>1. Init => ChunkInv
  BY InitInv
<1>2. ChunkInv /\ [Next]_vars => ChunkInv'
  BY BuildInv, SolveStepInv, StutterInv DEF Next
<1> QED BY <1>1, <1>2, PTL DEF Spec

-----------------------------------------------------------------------------
(* The theorems *)

\* All variables keep their types; in particular no cost is ever read of an
\* edge that does not exist.
THEOREM TypeCorrect == Spec => []TypeOK
<1>1. ChunkInv => TypeOK
  BY DEF ChunkInv, LatticeInv, SolveInv, TypeOK
<1> QED BY <1>1, ChunkInvariant, PTL

\* The position indices always agree with the edges.
THEOREM IndexCorrect == Spec => []IndexInv
<1>1. ChunkInv => IndexInv
  BY DEF ChunkInv, LatticeInv
<1> QED BY <1>1, ChunkInvariant, PTL

\* Every key's slots stay at most K, in ascending cost and scorer-distinct.
THEOREM SlotsCorrect == Spec => []SlotsOrderedAndDistinct
<1>1. ChunkInv => SlotsOrderedAndDistinct
  BY DEF ChunkInv, SolveInv
<1> QED BY <1>1, ChunkInvariant, PTL

\* Every stored pointer names the very path its cost was computed from.
THEOREM BackpointersCorrect == Spec => []BackpointersExact
<1>1. ChunkInv => BackpointersExact
  BY DEF ChunkInv, SolveInv
<1> QED BY <1>1, ChunkInvariant, PTL

\* The fallback leaves no position of the text without an edge.
THEOREM FallbackCorrect == Spec => []EveryPositionHasEdge
<1>1. ChunkInv => EveryPositionHasEdge
  BY DEF ChunkInv
<1> QED BY <1>1, ChunkInvariant, PTL

\* Every chunk gets a path that covers its text exactly once, or none at all if
\* the ids ran out and left a position bare.
THEOREM ChunkCovered == Spec => []ChunkFullyAnalyzed
<1>1. ChunkInv => ChunkFullyAnalyzed
  <2> SUFFICES ASSUME ChunkInv, phase = "done"
               PROVE  IF path = <<>>
                        THEN /\ Len(allEdges) >= MaxEdges
                             /\ \E p \in 0..(TextLength - 1) : byStart[p] = <<>>
                        ELSE Tiles(path, 0, TextLength)
    BY DEF ChunkFullyAnalyzed
  <2>1. stage = "built"
    BY DEF ChunkInv, Unstarted, SolveInit
  <2>2. CASE path = <<>>
    <3>1. PICK p \in 0..(TextLength - 1) : byStart[p] = <<>>
      BY <2>1, <2>2 DEF ChunkInv, SolveProgress, PathFound
    <3>2. ~(Len(allEdges) < MaxEdges)
      BY <2>1, <3>1 DEF ChunkInv, EveryPositionHasEdge
    <3>3. Len(allEdges) \in Nat /\ MaxEdges \in Nat
      BY LatticeAssumption DEF ChunkInv, LatticeInv, LatticeTypeOK
    <3> QED BY <2>2, <3>1, <3>2, <3>3
  <2>3. CASE path # <<>>
    BY <2>3 DEF ChunkInv, SolveInv, BacktrackInv
  <2> QED BY <2>2, <2>3
<1> QED BY <1>1, ChunkInvariant, PTL

\* A position the forward pass has reached keeps its slots for good, so no
\* insert moves a slot that a back pointer names.
THEOREM SettledSlotsFrozen == Spec => SettledPositionsFrozen
<1>1. ChunkInv /\ [Next]_vars => [\A p \in Pos : p <= pos => slots'[p] = slots[p]]_<<slots, pos>>
  <2> SUFFICES ASSUME ChunkInv, [Next]_vars
               PROVE  \/ \A p \in Pos : p <= pos => slots'[p] = slots[p]
                      \/ UNCHANGED <<slots, pos>>
    OBVIOUS
  <2>1. CASE Build \/ UNCHANGED vars
    BY <2>1 DEF Build, vars, solveVars
  <2>2. CASE Solve /\ RelaxEdge
    BY <2>2, RelaxEdgeFreezes DEF ChunkInv, LatticeInv, SolveInv
  <2>3. CASE Solve /\ ~RelaxEdge
    BY <2>3 DEF Solve, SolveNext, NextPosition, PickFinal, NoPath, BacktrackStep
  <2> QED BY <2>1, <2>2, <2>3 DEF Next
<1> QED BY <1>1, ChunkInvariant, PTL DEF Spec, SettledPositionsFrozen

-----------------------------------------------------------------------------
(* The clamp of heuristic bonuses *)

\* The prefix maximum is attained by a user edge that starts at or before p, and
\* no such edge reaches further.
LEMMA FurthestCoveringEndMax ==
  ASSUME LatticeTypeOK, NEW p
  PROVE  LET reach == FurthestCoveringEnd(p)
             Covers(i) == i \in DOMAIN allEdges /\ allEdges[i].user /\ allEdges[i].start <= p
         IN /\ reach \in Nat
            /\ reach = 0 \/ \E i \in DOMAIN allEdges : Covers(i) /\ allEdges[i].end = reach
            /\ \A i \in DOMAIN allEdges : Covers(i) => allEdges[i].end <= reach
<1> USE LatticeAssumption
<1> DEFINE C == {j \in DOMAIN allEdges : allEdges[j].user /\ allEdges[j].start <= p}
           S == {0} \cup {allEdges[i].end : i \in C}
<1>1. \A i \in DOMAIN allEdges : allEdges[i].end \in Pos
  <2>1. \A i \in DOMAIN allEdges : allEdges[i] \in Edge
    BY ElementOfSeq DEF LatticeTypeOK
  <2> QED BY <2>1 DEF Edge
<1>2. S \subseteq Nat /\ S # {} /\ TextLength \in Nat /\ \A x \in S : x <= TextLength
  BY <1>1 DEF Pos
<1>3. FurthestCoveringEnd(p) = Max(S)
  BY DEF FurthestCoveringEnd
<1>4. Max(S) \in S /\ \A x \in S : x <= Max(S)
  <2> HIDE DEF S
  <2> QED BY <1>2, MaxExists
<1>5. Max(S) \in Nat
  BY <1>2, <1>4
<1> QED BY <1>3, <1>4, <1>5

\* Clamping takes every bonus off inside a user span.
LEMMA ClampEstablishes ==
  ASSUME LatticeInv, ClampBonuses
  PROVE  NoShapeBonusInsideUserSpan'
<1> USE TokenizerAssumption
<1>1. LatticeTypeOK
  BY DEF LatticeInv
<1>2. /\ DOMAIN allEdges' = DOMAIN allEdges
      /\ \A i \in DOMAIN allEdges :
           /\ allEdges[i] \in Edge
           /\ allEdges'[i] = IF Clamped(allEdges[i])
                            THEN [allEdges[i] EXCEPT !.cost = CategoryCost[allEdges[i].epos],
                                                     !.custom = TRUE]
                            ELSE allEdges[i]
           /\ allEdges'[i].start = allEdges[i].start /\ allEdges'[i].end = allEdges[i].end
           /\ allEdges'[i].epos = allEdges[i].epos /\ allEdges'[i].sig = allEdges[i].sig
           /\ allEdges'[i].user = allEdges[i].user
  BY <1>1, ClampKeepsSpans
<1> SUFFICES ASSUME NEW i \in DOMAIN allEdges, NEW j \in DOMAIN allEdges,
                    allEdges[i].user, allEdges[i].start <= allEdges[j].start,
                    allEdges[j].end <= allEdges[i].end, allEdges[j].sig \in ShapeSig \ DictSig
             PROVE  allEdges'[j].cost >= CategoryCost[allEdges[j].epos]
  BY <1>2 DEF NoShapeBonusInsideUserSpan
<1> DEFINE u == allEdges[i]
           e == allEdges[j]
<1>3. /\ e \in Edge /\ e.cost \in Int /\ CategoryCost[e.epos] \in Int
      /\ u.end \in Int /\ e.end \in Int
  <2>1. u \in Edge /\ e \in Edge
    BY <1>2
  <2> HIDE DEF u, e
  <2> QED BY <2>1 DEF Edge, Pos
<1>4. FurthestCoveringEnd(e.start) \in Nat /\ u.end <= FurthestCoveringEnd(e.start)
  BY <1>1, FurthestCoveringEndMax
<1>5. CASE e.cost < CategoryCost[e.epos]
  <2>1. Clamped(e)
    BY <1>3, <1>4, <1>5 DEF Clamped, HasUserSpan
  <2>2. allEdges'[j].cost = CategoryCost[e.epos]
    <3>1. allEdges'[j] = [e EXCEPT !.cost = CategoryCost[e.epos], !.custom = TRUE]
      BY <1>2, <2>1
    <3> QED BY <1>3, <3>1 DEF Edge
  <2> QED BY <1>3, <2>2
<1>6. CASE ~(e.cost < CategoryCost[e.epos])
  <2>1. ~Clamped(e)
    BY <1>6 DEF Clamped
  <2>2. allEdges'[j] = e
    BY <1>2, <2>1
  <2> QED BY <1>3, <1>6, <2>2
<1> QED BY <1>5, <1>6

\* Once built, no shape-derived candidate inside a registered user word costs
\* less than its category.
THEOREM UserSpansProtected == Spec => []NoShapeBonusInsideUserSpan
<1>1. Init => NoShapeBonusInsideUserSpan
  BY DEF Init, TokenizerInit, NoShapeBonusInsideUserSpan
<1>2. ChunkInv /\ NoShapeBonusInsideUserSpan /\ [Next]_vars => NoShapeBonusInsideUserSpan'
  <2> SUFFICES ASSUME ChunkInv, NoShapeBonusInsideUserSpan, [Next]_vars
               PROVE  NoShapeBonusInsideUserSpan'
    OBVIOUS
  <2>1. CASE Build /\ ClampBonuses
    BY <2>1, ClampEstablishes DEF ChunkInv
  <2>2. CASE Build /\ ~ClampBonuses
    <3>1. stage' # "built"
      BY <2>2 DEF Build, BuildNext, GenerateCandidate, NextGeneratePosition, BeginFallback, Fallback
    <3> QED BY <3>1 DEF NoShapeBonusInsideUserSpan
  <2>3. CASE Solve \/ UNCHANGED vars
    <3>1. UNCHANGED <<stage, allEdges>>
      BY <2>3 DEF Solve, vars, genVars, latticeVars, SolveNext, RelaxEdge, NextPosition,
                  PickFinal, NoPath, BacktrackStep
    <3> QED BY <3>1 DEF NoShapeBonusInsideUserSpan
  <2> QED BY <2>1, <2>2, <2>3 DEF Next
<1> QED BY <1>1, <1>2, ChunkInvariant, PTL DEF Spec

\* The clamp touches only shape-derived edges that lie inside one user span, and
\* only upwards; nothing else ever changes an edge.
THEOREM ClampIsMinimal == Spec => ClampOnlyDropsShapeBonus
<1> USE TokenizerAssumption
<1> DEFINE Kept(i) ==
       \/ allEdges'[i] = allEdges[i]
       \/ /\ allEdges'[i].cost > allEdges[i].cost
          /\ allEdges[i].sig \in ShapeSig \ DictSig
          /\ \E k \in DOMAIN allEdges :
               /\ allEdges[k].user
               /\ allEdges[k].start <= allEdges[i].start
               /\ allEdges[i].end <= allEdges[k].end
<1>1. ChunkInv /\ [Next]_vars => [\A i \in DOMAIN allEdges : Kept(i)]_allEdges
  <2> SUFFICES ASSUME ChunkInv, Next, NEW i \in DOMAIN allEdges, allEdges' # allEdges
               PROVE  Kept(i)
    BY DEF vars, latticeVars
  <2>1. LatticeTypeOK /\ IndexInv
    BY DEF ChunkInv, LatticeInv
  <2>2. CASE Build /\ ClampBonuses
    <3> DEFINE e == allEdges[i]
    <3>1. e \in Edge /\ allEdges'[i] = IF Clamped(e)
                        THEN [e EXCEPT !.cost = CategoryCost[e.epos], !.custom = TRUE] ELSE e
      BY <2>1, <2>2, ClampKeepsSpans
    <3>2. CASE Clamped(e)
      <4>1. allEdges'[i].cost = CategoryCost[e.epos] /\ e.cost \in Int
             /\ CategoryCost[e.epos] \in Int /\ e.start \in Nat /\ e.end \in Nat
        BY <3>1, <3>2 DEF Edge, Pos
      <4>2. /\ e.cost < CategoryCost[e.epos] /\ e.sig \in ShapeSig \ DictSig
            /\ FurthestCoveringEnd(e.start) >= e.end
        BY <3>2 DEF Clamped
      <4>3. e.start < e.end
        BY <2>1 DEF IndexInv
      <4>4. FurthestCoveringEnd(e.start) \in Nat /\ FurthestCoveringEnd(e.start) # 0
        BY <2>1, <4>1, <4>2, <4>3, FurthestCoveringEndMax
      <4>5. PICK k \in DOMAIN allEdges : /\ allEdges[k].user /\ allEdges[k].start <= e.start
                                         /\ allEdges[k].end = FurthestCoveringEnd(e.start)
        BY <2>1, <4>4, FurthestCoveringEndMax
      <4> QED BY <4>1, <4>2, <4>4, <4>5
    <3>3. CASE ~Clamped(e)
      BY <3>1, <3>3
    <3> QED BY <3>2, <3>3
  <2>3. CASE Build /\ GenerateCandidate
    <3>1. PICK c \in Offered : AddEdge(c)
      BY <2>3 DEF GenerateCandidate
    <3>2. c \in Edge
      BY DEF Offered
    <3> QED BY <2>1, <3>1, <3>2, AddEdgeInv
  <2>4. CASE Build /\ Fallback
    <3>1. AddEdge(FallbackEdge(genPos)) /\ genPos < TextLength
      BY <2>4 DEF Fallback, latticeVars
    <3>2. FallbackEdge(genPos) \in Edge
      BY <3>1, LatticeAssumption DEF ChunkInv, TokenizerTypeOK, FallbackEdge, Edge, Pos
    <3> QED BY <2>1, <3>1, <3>2, AddEdgeInv
  <2>5. CASE Solve \/ (Build /\ (NextGeneratePosition \/ BeginFallback))
    BY <2>5 DEF Solve, latticeVars, SolveNext, RelaxEdge, NextPosition, PickFinal, NoPath,
                BacktrackStep, NextGeneratePosition, BeginFallback
  <2> QED BY <2>2, <2>3, <2>4, <2>5 DEF Next, Build, BuildNext
<1> QED BY <1>1, ChunkInvariant, PTL DEF Spec, ClampOnlyDropsShapeBonus

-----------------------------------------------------------------------------
(* Optimality *)

(* Running costs *)

\* The edge before the n-th of q, where prev comes before the first.
Before(prev, q, n) == IF n = 1 THEN prev ELSE q[n - 1]

\* c accumulates the cost of q's first m edges, from cost base after edge prev.
Accumulates(c, prev, base, q, m) ==
  /\ c \in [0..m -> Int]
  /\ c[0] = base
  /\ \A n \in 1..m : c[n] = c[n - 1] + StepCost(Before(prev, q, n), q[n])

\* A sequence of edges has an accumulated cost.
LEMMA CostsExist ==
  ASSUME LatticeTypeOK, SolveTypeOK, NEW q \in Seq(DOMAIN allEdges)
  PROVE  \E c : Accumulates(c, BosEdgeId, 0, q, Len(q))
<1> DEFINE S == {m \in Nat : m <= Len(q) => \E c : Accumulates(c, BosEdgeId, 0, q, m)}
<1>1. Len(q) \in Nat /\ \A n \in 1..Len(q) : q[n] \in DOMAIN allEdges
  OBVIOUS
<1>2. 0 \in S
  <2>1. Accumulates([n \in 0..0 |-> 0], BosEdgeId, 0, q, 0)
    BY DEF Accumulates
  <2> QED BY <2>1
<1>3. ASSUME NEW m \in S PROVE m + 1 \in S
  <2> SUFFICES ASSUME m + 1 <= Len(q) PROVE \E c : Accumulates(c, BosEdgeId, 0, q, m + 1)
    OBVIOUS
  <2>1. m \in Nat /\ m <= Len(q) /\ m + 1 \in 1..Len(q)
    BY <1>1
  <2>2. PICK c : Accumulates(c, BosEdgeId, 0, q, m)
    BY <2>1
  <2> DEFINE step == StepCost(Before(BosEdgeId, q, m + 1), q[m + 1])
             d == [n \in 0..(m + 1) |-> IF n = m + 1 THEN c[m] + step ELSE c[n]]
  <2>3. step \in Int
    <3>1. Before(BosEdgeId, q, m + 1) = BosEdgeId \/ Before(BosEdgeId, q, m + 1) \in DOMAIN allEdges
      <4>1. m = 0 \/ m \in 1..Len(q)
        BY <2>1
      <4> QED BY <1>1, <2>1, <4>1 DEF Before
    <3> QED BY <1>1, <2>1, <3>1, StepCostType
  <2> HIDE DEF step
  <2>4. c \in [0..m -> Int] /\ c[0] = 0
        /\ \A n \in 1..m : c[n] = c[n - 1] + StepCost(Before(BosEdgeId, q, n), q[n])
    BY <2>2 DEF Accumulates
  <2>5. d \in [0..(m + 1) -> Int]
    BY <2>1, <2>3, <2>4
  <2>6. d[0] = 0
    BY <2>1, <2>4
  <2>7. ASSUME NEW n \in 1..(m + 1)
        PROVE  d[n] = d[n - 1] + StepCost(Before(BosEdgeId, q, n), q[n])
    <3>1. CASE n = m + 1
      BY <2>1, <3>1 DEF step
    <3>2. CASE n # m + 1
      <4>1. n \in 1..m /\ n - 1 \in 0..(m + 1) /\ n - 1 # m + 1 /\ n \in 0..(m + 1)
        BY <2>1, <3>2
      <4>2. d[n] = c[n] /\ d[n - 1] = c[n - 1]
        BY <3>2, <4>1
      <4> HIDE DEF d
      <4> QED BY <2>4, <4>1, <4>2
    <3> QED BY <3>1, <3>2
  <2> HIDE DEF d
  <2> QED BY <2>5, <2>6, <2>7 DEF Accumulates
<1>4. S = Nat
  <2> HIDE DEF S
  <2>1. S \in SUBSET Nat
    BY DEF S
  <2> QED BY <1>2, <1>3, <2>1, Induction
<1> QED BY <1>1, <1>4

\* PathCost is where they end: the recursion it is defined by has one solution.
LEMMA PathCostAccumulates ==
  ASSUME NEW q, Len(q) \in Nat, NEW c, Accumulates(c, BosEdgeId, 0, q, Len(q))
  PROVE  PathCost(q) = c[Len(q)]
<1> DEFINE N == Len(q)
           Step(n) == StepCost(IF n = 1 THEN BosEdgeId ELSE q[n - 1], q[n])
           Solves(f) == f = [n \in 0..N |-> IF n = 0 THEN 0 ELSE f[n - 1] + Step(n)]
           f == CHOOSE g : Solves(g)
<1>1. /\ c \in [0..N -> Int] /\ c[0] = 0
      /\ \A n \in 1..N : c[n] = c[n - 1] + Step(n)
  BY DEF Accumulates, Before
<1> HIDE DEF Step
<1>2. Solves(c)
  <2>1. \A n \in 0..N : c[n] = IF n = 0 THEN 0 ELSE c[n - 1] + Step(n)
    BY <1>1
  <2>2. c = [n \in 0..N |-> c[n]]
    BY <1>1
  <2> QED BY <2>1, <2>2
<1>3. Solves(f)
  <2> HIDE DEF Solves
  <2> QED BY <1>2
<1>4. PathCost(q) = f[N]
  BY DEF PathCost, Step
<1> HIDE DEF f
<1> DEFINE S == {n \in Nat : n <= N => f[n] = c[n]}
<1>5. \A n \in 0..N : f[n] = IF n = 0 THEN 0 ELSE f[n - 1] + Step(n)
  BY <1>3
<1> HIDE DEF Solves
<1>6. 0 \in S
  BY <1>1, <1>5
<1>7. ASSUME NEW n \in S PROVE n + 1 \in S
  <2> SUFFICES ASSUME n + 1 <= N PROVE f[n + 1] = c[n + 1]
    OBVIOUS
  <2>1. n \in Nat /\ n <= N /\ n + 1 \in 0..N /\ n + 1 \in 1..N /\ (n + 1) - 1 = n /\ n + 1 # 0
    OBVIOUS
  <2>2. f[n] = c[n]
    BY <2>1
  <2>3. f[n + 1] = f[n] + Step(n + 1)
    BY <1>5, <2>1
  <2>4. c[n + 1] = c[n] + Step(n + 1)
    BY <1>1, <2>1
  <2> QED BY <2>2, <2>3, <2>4
<1>8. S = Nat
  <2> HIDE DEF S
  <2>1. S \in SUBSET Nat
    BY DEF S
  <2> QED BY <1>6, <1>7, <2>1, Induction
<1> QED BY <1>4, <1>8

-----------------------------------------------------------------------------
(* The invariant *)

\* A state at the start of the text is the one solve begins with.
RootOnly ==
  /\ 1 \in DOMAIN slots[0][UnknownPOS]
  /\ \A x \in ExtendedPOS : \A i \in DOMAIN slots[0][x] :
       slots[0][x][i].edge = BosEdgeId /\ slots[0][x][i].cost = 0

\* Every slot is under one of the keys the loops visit.
KeysCover ==
  \A p \in Pos, x \in ExtendedPOS :
    DOMAIN slots[p][x] # {} => \E k \in DOMAIN keys[p] : keys[p][k] = x

\* The pass has relaxed edge id.
Relaxed(id) ==
  LET p == allEdges[id].start
  IN p < pos \/ (p = pos /\ \E k \in DOMAIN byStart[p] : k <= cursor /\ byStart[p][k] = id)

\* The slots of the key that edge id arrives at, and that one of them is as good
\* for every later step as arriving by id at the given cost.
Target(id) == slots[allEdges[id].end][allEdges[id].epos]

Served(id, cost) ==
  \E j \in DOMAIN Target(id) : SameIdentity(Target(id)[j].edge, id) /\ Target(id)[j].cost <= cost

\* A relaxed edge serves every state it could extend.
RelaxedServe ==
  \A id \in DOMAIN allEdges, x \in ExtendedPOS : Relaxed(id) =>
    \A i \in DOMAIN slots[allEdges[id].start][x] :
      LET entry == slots[allEdges[id].start][x][i]
      IN /\ DOMAIN Target(id) # {}
         /\ BeamSuffices => Served(id, entry.cost + StepCost(entry.edge, id))

\* After the forward pass the total is the least of the final states.
FinalLeast ==
  phase # "forward" =>
    /\ pos = TextLength
    /\ \A x \in ExtendedPOS : \A i \in DOMAIN slots[TextLength][x] :
         totalCost <= slots[TextLength][x][i].cost

\* The steps along q add up to total, from cost base after edge prev.
AddsUp(prev, base, q, total) ==
  \E c : Accumulates(c, prev, base, q, Len(q)) /\ c[Len(q)] = total

\* Going on along the path from the state the backtrack has come to adds up to
\* the total.
Traced ==
  /\ phase = "backtrack" =>
       LET entry == slots[back.pos][back.epos][back.slot]
       IN AddsUp(entry.edge, entry.cost, path, totalCost)
  /\ phase = "done" /\ path # <<>> => AddsUp(BosEdgeId, 0, path, totalCost)

OptInv == RootOnly /\ KeysCover /\ RelaxedServe /\ FinalLeast /\ Traced

\* Before the first step nothing is relaxed.
LEMMA OptStart == SolveInit /\ LatticeTypeOK => OptInv
<1> SUFFICES ASSUME SolveInit, LatticeTypeOK PROVE OptInv
  OBVIOUS
<1> USE LatticeAssumption
<1> DEFINE bosEntry == [cost |-> 0, edge |-> BosEdgeId, prevEpos |-> UnknownPOS, prevSlot |-> 1]
<1>1. 0 \in Pos
  BY DEF Pos
<1>2. \A p \in Pos, x \in ExtendedPOS :
        /\ slots[p][x] = IF p = 0 /\ x = UnknownPOS THEN <<bosEntry>> ELSE <<>>
        /\ keys[p] = IF p = 0 THEN <<UnknownPOS>> ELSE <<>>
  BY DEF SolveInit
<1>3. bosEntry.edge = BosEdgeId /\ bosEntry.cost = 0
  OBVIOUS
<1> HIDE DEF bosEntry
<1>4. DOMAIN <<bosEntry>> = {1} /\ <<bosEntry>>[1] = bosEntry /\ DOMAIN <<>> = {}
  OBVIOUS
<1>5. RootOnly
  BY <1>1, <1>2, <1>3, <1>4 DEF RootOnly
<1>6. KeysCover
  <2>1. 1 \in DOMAIN <<UnknownPOS>> /\ <<UnknownPOS>>[1] = UnknownPOS
    OBVIOUS
  <2> QED BY <1>2, <1>4, <2>1 DEF KeysCover
<1>7. RelaxedServe
  <2> SUFFICES ASSUME NEW id \in DOMAIN allEdges PROVE ~Relaxed(id)
    BY DEF RelaxedServe
  <2>1. allEdges[id] \in Edge
    BY ElementOfSeq DEF LatticeTypeOK
  <2>2. allEdges[id].start \in 0..TextLength
    BY <2>1 DEF Edge, Pos
  <2>3. pos = 0 /\ cursor = 0
    BY DEF SolveInit
  <2>4. \A k \in DOMAIN byStart[0] : k \in Nat /\ k >= 1
    <3>1. byStart[0] \in Seq(Nat \ {0})
      BY <1>1 DEF LatticeTypeOK
    <3> QED BY <3>1
  <2>5. ~(allEdges[id].start < 0) /\ \A k \in DOMAIN byStart[0] : ~(k <= 0)
    BY <2>2, <2>4
  <2> QED BY <2>3, <2>5, Zenon DEF Relaxed
<1>8. FinalLeast /\ Traced
  BY DEF SolveInit, FinalLeast, Traced
<1> QED BY <1>5, <1>6, <1>7, <1>8 DEF OptInv

\* A step that leaves the table alone keeps what is said of it, if the edges it
\* counts as relaxed could extend nothing.
LEMMA TableKept ==
  ASSUME RootOnly, KeysCover, RelaxedServe,
         UNCHANGED <<scorer, keys, slots, allEdges>>,
         \A id \in DOMAIN allEdges : Relaxed(id)' =>
           \/ Relaxed(id)
           \/ \A x \in ExtendedPOS : DOMAIN slots[allEdges[id].start][x] = {}
  PROVE  RootOnly' /\ KeysCover' /\ RelaxedServe'
<1>1. RootOnly' /\ KeysCover'
  BY DEF RootOnly, KeysCover
<1>2. BeamSuffices' = BeamSuffices
  BY DEF BeamSuffices, Identities
<1>3. \A id, cost : Served(id, cost)' = Served(id, cost) /\ Target(id)' = Target(id)
  BY DEF Served, Target, SameIdentity
<1>4. \A prev, id : StepCost(prev, id)' = StepCost(prev, id)
  BY DEF StepCost, ClosesSentence
<1>5. RelaxedServe'
  <2> SUFFICES ASSUME NEW id \in DOMAIN allEdges, NEW x \in ExtendedPOS, Relaxed(id)',
                      NEW i \in DOMAIN slots[allEdges[id].start][x]
               PROVE  LET entry == slots[allEdges[id].start][x][i]
                      IN /\ DOMAIN Target(id) # {}
                         /\ BeamSuffices => Served(id, entry.cost + StepCost(entry.edge, id))
    BY <1>2, <1>3, <1>4 DEF RelaxedServe
  <2>1. Relaxed(id)
    OBVIOUS
  <2> QED BY <2>1 DEF RelaxedServe
<1> QED BY <1>1, <1>5

-----------------------------------------------------------------------------
(* Relaxing an edge *)

\* A key that has room for every identity either has a slot left or already
\* holds a twin of the edge that arrives.
LEMMA RoomForAll ==
  ASSUME LatticeTypeOK, IndexInv, SolveTypeOK, SlotsOrderedAndDistinct, BackpointersExact,
         BeamSuffices, NEW id \in DOMAIN allEdges
  PROVE  Len(Target(id)) < K \/ \E i \in DOMAIN Target(id) : SameIdentity(Target(id)[i].edge, id)
<1> SUFFICES ASSUME ~(Len(Target(id)) < K),
                    \A i \in DOMAIN Target(id) : ~SameIdentity(Target(id)[i].edge, id)
             PROVE  FALSE
  OBVIOUS
<1> USE LatticeAssumption, ViterbiAssumption
<1> DEFINE p == allEdges[id].end
           x == allEdges[id].epos
           s == Target(id)
           T == Identities(p, x)
           I == {j \in DOMAIN allEdges : allEdges[j].end = p /\ allEdges[j].epos = x}
           Seen(j) == <<allEdges[j].start, allEdges[j].sig>>
           f == [j \in 1..(K + 1) |-> IF j = K + 1 THEN Seen(id) ELSE Seen(s[j].edge)]
<1>1. p \in Pos /\ x \in ExtendedPOS /\ p # 0
  <2>1. allEdges[id] \in Edge
    BY ElementOfSeq DEF LatticeTypeOK
  <2>2. allEdges[id].start \in Pos /\ p \in Pos /\ x \in ExtendedPOS
    BY <2>1 DEF Edge
  <2>3. allEdges[id].start < p
    BY DEF IndexInv
  <2> QED BY <2>2, <2>3 DEF Pos
<1>2. s \in Seq(StateEntry) /\ Ranked(s) /\ s = slots[p][x]
  <2>1. slots[p][x] \in Seq(StateEntry) /\ Ranked(slots[p][x])
    BY <1>1, SMTT(30) DEF SolveTypeOK, SlotsOrderedAndDistinct
  <2> QED BY <2>1 DEF Target
<1>3. Len(s) = K /\ DOMAIN s = 1..K /\ K \in Nat
  BY <1>2 DEF Ranked
<1>4. \A j \in 1..K : s[j].edge \in I /\ s[j].edge # BosEdgeId
  <2> TAKE j \in 1..K
  <2>1. PointsBack(p, x, s[j])
    BY <1>1, <1>2, <1>3 DEF BackpointersExact
  <2> QED BY <1>1, <2>1 DEF PointsBack
<1>5. id \in I /\ id # BosEdgeId
  BY DEF BosEdgeId, LatticeTypeOK
<1>6. T = {Seen(j) : j \in I}
  BY DEF Identities
<1>7. IsFiniteSet(T)
  <2>1. IsFiniteSet(I)
    <3>1. IsFiniteSet(1..Len(allEdges)) /\ DOMAIN allEdges = 1..Len(allEdges)
      BY FS_Interval DEF LatticeTypeOK
    <3>2. I \in SUBSET (1..Len(allEdges))
      BY <3>1
    <3> HIDE DEF I
    <3> QED BY <3>1, <3>2, FS_Subset
  <2> DEFINE g == [j \in I |-> Seen(j)]
  <2>2. g \in Surjection(I, T)
    <3> HIDE DEF I, Seen, T
    <3>1. g \in [I -> T] /\ \A t \in T : \E j \in I : g[j] = t
      BY <1>6
    <3> QED BY <3>1 DEF Surjection
  <2> HIDE DEF g, I, T
  <2> QED BY <2>1, <2>2, FS_Surjection
<1>8. f \in [1..(K + 1) -> T]
  <2> HIDE DEF I, Seen, T, s
  <2>1. \A j \in 1..(K + 1) : j = K + 1 \/ j \in 1..K
    BY <1>3
  <2> QED BY <1>4, <1>5, <1>6, <2>1
<1>9. Cardinality(T) <= K
  BY <1>1 DEF BeamSuffices
<1>10. /\ IsFiniteSet(1..(K + 1)) /\ Cardinality(1..(K + 1)) = K + 1
       /\ Cardinality(T) \in Nat
  <2>1. 1 \in Int /\ K + 1 \in Int /\ ~(1 > K + 1) /\ (K + 1) - 1 + 1 = K + 1
    BY <1>3
  <2>2. IsFiniteSet(1..(K + 1)) /\ Cardinality(1..(K + 1)) = K + 1
    BY <2>1, FS_Interval
  <2>3. Cardinality(T) \in Nat
    BY <1>7, FS_CardinalityType
  <2> QED BY <2>2, <2>3
<1>11. PICK j, k \in 1..(K + 1) : j # k /\ f[j] = f[k]
  <2>1. Cardinality(T) < Cardinality(1..(K + 1))
    BY <1>3, <1>9, <1>10
  <2> HIDE DEF f, T
  <2> QED BY <1>7, <1>8, <1>10, <2>1, FS_PigeonHole
<1>12. ASSUME NEW m \in 1..K, NEW n \in 1..(K + 1), m < n, f[m] = f[n] PROVE FALSE
  <2>1. m # K + 1 /\ f[m] = Seen(s[m].edge)
    BY <1>3
  <2>2. CASE n = K + 1
    <3>1. Seen(s[m].edge) = Seen(id)
      BY <1>12, <2>1, <2>2
    <3>2. SameIdentity(s[m].edge, id)
      BY <1>4, <1>5, <3>1 DEF SameIdentity
    <3> QED BY <1>3, <3>2
  <2>3. CASE n # K + 1
    <3>1. n \in 1..K /\ Seen(s[m].edge) = Seen(s[n].edge)
      <4>1. n \in 1..K
        BY <1>3, <1>12, <2>3, SMTT(30)
      <4>2. f[n] = Seen(s[n].edge)
        <5> HIDE DEF s, Seen
        <5> QED BY <1>12, <2>3
      <4> HIDE DEF f, s, Seen
      <4> QED BY <1>12, <2>1, <4>1, <4>2
    <3>2. SameIdentity(s[m].edge, s[n].edge)
      BY <1>4, <3>1 DEF SameIdentity
    <3> QED BY <1>2, <1>3, <1>12, <3>1, <3>2 DEF Ranked
  <2> QED BY <2>2, <2>3
<1> HIDE DEF f
<1>13. j < k \/ k < j
  BY <1>3, <1>11
<1>14. (j < k => j \in 1..K) /\ (k < j => k \in 1..K)
  BY <1>3
<1> QED BY <1>11, <1>12, <1>13, <1>14

\* A relaxed edge joins its key by its best extension, and what the key served
\* before it still serves.
LEMMA RelaxEdgeOpt ==
  ASSUME LatticeTypeOK, IndexInv, SolveInv, RootOnly, KeysCover, RelaxedServe, RelaxEdge
  PROVE  RootOnly' /\ KeysCover' /\ RelaxedServe'
<1> USE LatticeAssumption, ViterbiAssumption
<1>1. /\ UNCHANGED <<scorer, phase, pos, back, path, totalCost>>
      /\ UNCHANGED <<allEdges, byStart, byEnd>>
      /\ cursor' = cursor + 1 /\ cursor < Len(byStart[pos])
  BY DEF RelaxEdge, latticeVars
<1>2. SolveTypeOK /\ BackpointersExact /\ SlotsOrderedAndDistinct
  BY DEF SolveInv
<1>3. PICK new \in DOMAIN allEdges, n \in StateEntry : Relaxes(new, n)
  BY <1>2, RelaxEdgeEffect
<1> DEFINE e == allEdges[new]
           old == slots[e.end][e.epos]
<1>4. /\ e \in Edge /\ e.start = pos /\ pos < e.end /\ n.edge = new
      /\ slots' = [slots EXCEPT ![e.end][e.epos] = Insert(old, n)]
      /\ keys' = [keys EXCEPT ![e.end] =
                    IF \E k \in DOMAIN @ : @[k] = e.epos THEN @ ELSE Append(@, e.epos)]
      /\ new = byStart[pos][cursor + 1]
      /\ \A k \in DOMAIN keys[pos] : \A i \in DOMAIN slots[pos][keys[pos][k]] :
           n.cost <= slots[pos][keys[pos][k]][i].cost
                     + StepCost(slots[pos][keys[pos][k]][i].edge, new)
  BY <1>3 DEF Relaxes
<1>5. /\ pos \in Pos /\ e.end \in Pos /\ e.epos \in ExtendedPOS /\ 0 \in Pos
      /\ pos \in Int /\ e.end \in Int /\ cursor \in Nat
  <2>1. pos \in Pos /\ cursor \in Nat
    BY <1>2 DEF SolveTypeOK
  <2>2. e.end \in Pos /\ e.epos \in ExtendedPOS
    BY <1>4 DEF Edge
  <2>3. Pos \subseteq Int /\ 0 \in Pos
    BY DEF Pos
  <2> HIDE DEF e
  <2> QED BY <2>1, <2>2, <2>3
<1>6. slots \in [Pos -> [ExtendedPOS -> Seq(StateEntry)]] /\ keys \in [Pos -> Seq(ExtendedPOS)]
  BY <1>2 DEF SolveTypeOK
<1>7. old \in Seq(StateEntry) /\ Ranked(old)
  BY <1>2, <1>5, <1>6 DEF SlotsOrderedAndDistinct
<1>8. DOMAIN Insert(old, n) # {}
  BY <1>7, InsertNotEmpty
<1>9. \A p \in Pos, x \in ExtendedPOS :
        slots'[p][x] = IF p = e.end /\ x = e.epos THEN Insert(old, n) ELSE slots[p][x]
  BY <1>4, <1>5, <1>6
<1>10. \A p \in Pos : p <= pos => slots'[p] = slots[p]
  BY <1>2, RelaxEdgeFreezes
<1>11. RootOnly'
  BY <1>5, <1>10 DEF RootOnly, Pos
<1>12. KeysCover'
  <2> SUFFICES ASSUME NEW p \in Pos, NEW x \in ExtendedPOS, DOMAIN slots'[p][x] # {}
               PROVE  \E k \in DOMAIN keys'[p] : keys'[p][k] = x
    BY DEF KeysCover
  <2> DEFINE ks == keys[e.end]
  <2>1. ks \in Seq(ExtendedPOS) /\ Len(ks) \in Nat /\ DOMAIN ks = 1..Len(ks)
    <3>1. ks \in Seq(ExtendedPOS)
      BY <1>5, <1>6
    <3> HIDE DEF ks
    <3> QED BY <3>1
  <2>2. \A q \in Pos : keys'[q] = IF q # e.end THEN keys[q]
                                  ELSE IF \E k \in DOMAIN ks : ks[k] = e.epos THEN ks
                                  ELSE Append(ks, e.epos)
    BY <1>4, <1>5, <1>6
  <2>3. /\ \A k \in DOMAIN ks : k \in DOMAIN Append(ks, e.epos) /\ Append(ks, e.epos)[k] = ks[k]
        /\ Len(ks) + 1 \in DOMAIN Append(ks, e.epos)
        /\ Append(ks, e.epos)[Len(ks) + 1] = e.epos
    BY <1>5, <2>1, AppendProperties
  <2>4. CASE p = e.end /\ x = e.epos
    <3> HIDE DEF ks, e
    <3> QED BY <2>2, <2>3, <2>4
  <2>5. CASE ~(p = e.end /\ x = e.epos)
    <3>1. DOMAIN slots[p][x] # {}
      BY <1>9, <2>5
    <3>2. PICK k \in DOMAIN keys[p] : keys[p][k] = x
      BY <3>1 DEF KeysCover
    <3>3. k \in DOMAIN keys'[p] /\ keys'[p][k] = x
      BY <2>2, <2>3, <3>2
    <3> QED BY <3>3
  <2> QED BY <2>4, <2>5
<1>13. BeamSuffices' = BeamSuffices
  BY <1>1 DEF BeamSuffices, Identities
<1>14. \A prev, id : StepCost(prev, id)' = StepCost(prev, id)
  BY <1>1 DEF StepCost, ClosesSentence
<1>15. \A i, j : SameIdentity(i, j)' = SameIdentity(i, j)
  BY <1>1 DEF SameIdentity
<1> DEFINE New(id) == slots'[allEdges[id].end][allEdges[id].epos]
           NowServed(id, cost) ==
             \E j \in DOMAIN New(id) : SameIdentity(New(id)[j].edge, id) /\ New(id)[j].cost <= cost
           NowServes(id, x) ==
             \A i \in DOMAIN slots'[allEdges[id].start][x] :
               LET entry == slots'[allEdges[id].start][x][i]
               IN /\ DOMAIN New(id) # {}
                  /\ BeamSuffices => NowServed(id, entry.cost + StepCost(entry.edge, id))
<1>16. (\A id \in DOMAIN allEdges, x \in ExtendedPOS : Relaxed(id)' => NowServes(id, x))
         => RelaxedServe'
  BY <1>1, <1>13, <1>14, <1>15, ZenonT(30) DEF RelaxedServe, Served, Target
<1>17. BeamSuffices =>
         /\ \E j \in DOMAIN Insert(old, n) :
              SameIdentity(Insert(old, n)[j].edge, new) /\ Insert(old, n)[j].cost <= n.cost
         /\ \A k \in DOMAIN old : \E j \in DOMAIN Insert(old, n) :
              SameIdentity(Insert(old, n)[j].edge, old[k].edge) /\ Insert(old, n)[j].cost <= old[k].cost
  <2> SUFFICES ASSUME BeamSuffices
               PROVE  /\ \E j \in DOMAIN Insert(old, n) :
                           SameIdentity(Insert(old, n)[j].edge, new) /\ Insert(old, n)[j].cost <= n.cost
                      /\ \A k \in DOMAIN old : \E j \in DOMAIN Insert(old, n) :
                           /\ SameIdentity(Insert(old, n)[j].edge, old[k].edge)
                           /\ Insert(old, n)[j].cost <= old[k].cost
    OBVIOUS
  <2>1. Len(old) < K \/ \E i \in DOMAIN old : SameIdentity(old[i].edge, new)
    BY <1>2, RoomForAll DEF Target
  <2> HIDE DEF old
  <2> QED BY <1>4, <1>7, <2>1, InsertServes
<1>18. \A j \in DOMAIN Insert(old, n) : Insert(old, n)[j].cost \in Int
  <2>1. Insert(old, n) \in Seq(StateEntry)
    BY <1>7, InsertRanked
  <2>2. \A j \in DOMAIN Insert(old, n) : Insert(old, n)[j] \in StateEntry
    BY <2>1, ElementOfSeq
  <2> QED BY <2>2 DEF StateEntry
<1>19. ASSUME NEW id \in DOMAIN allEdges, NEW x \in ExtendedPOS, Relaxed(id)'
       PROVE  NowServes(id, x)
  <2> DEFINE start == allEdges[id].start
             Cost(i) == slots[start][x][i].cost + StepCost(slots[start][x][i].edge, id)
  <2>1. allEdges[id] \in Edge
    BY ElementOfSeq DEF LatticeTypeOK
  <2>2. start \in Pos /\ start <= pos /\ allEdges[id].end \in Pos /\ allEdges[id].epos \in ExtendedPOS
    <3>1. start \in Pos /\ start \in Int /\ allEdges[id].end \in Pos /\ allEdges[id].epos \in ExtendedPOS
      BY <2>1 DEF Edge, Pos
    <3>2. start < pos \/ start = pos
      BY <1>1, <1>19 DEF Relaxed
    <3> QED BY <1>5, <3>1, <3>2
  <2>3. slots'[start][x] = slots[start][x]
    BY <1>10, <2>2
  <2>4. New(id) = IF allEdges[id].end = e.end /\ allEdges[id].epos = e.epos
                  THEN Insert(old, n) ELSE Target(id)
    BY <1>9, <2>2 DEF Target
  <2>5. Target(id) \in Seq(StateEntry)
    BY <1>6, <2>2 DEF Target
  <2> SUFFICES ASSUME NEW i \in DOMAIN slots[start][x]
               PROVE  DOMAIN New(id) # {} /\ (BeamSuffices => NowServed(id, Cost(i)))
    BY <2>3
  <2>6. Cost(i) \in Int
    BY <1>2, <2>2, EntryTyped
  <2> HIDE DEF New, NowServed, Cost
  <2>7. CASE Relaxed(id)
    <3>1. DOMAIN Target(id) # {} /\ (BeamSuffices => Served(id, Cost(i)))
      BY <2>7 DEF RelaxedServe, Cost
    <3>2. ASSUME BeamSuffices PROVE NowServed(id, Cost(i))
      <4>1. PICK j \in DOMAIN Target(id) :
              SameIdentity(Target(id)[j].edge, id) /\ Target(id)[j].cost <= Cost(i)
        BY <3>1, <3>2 DEF Served
      <4>2. CASE allEdges[id].end = e.end /\ allEdges[id].epos = e.epos
        <5>1. Target(id) = old /\ New(id) = Insert(old, n)
          BY <2>4, <4>2 DEF Target
        <5>2. PICK k \in DOMAIN Insert(old, n) :
                SameIdentity(Insert(old, n)[k].edge, old[j].edge) /\ Insert(old, n)[k].cost <= old[j].cost
          BY <1>17, <3>2, <4>1, <5>1
        <5>3. SameIdentity(Insert(old, n)[k].edge, id)
          BY <4>1, <5>1, <5>2, SameIdentityEquivalence
        <5>4. Target(id)[j].cost \in Int
          <6>1. Target(id)[j] \in StateEntry
            BY <2>5, <4>1, ElementOfSeq
          <6> QED BY <6>1 DEF StateEntry
        <5>5. Insert(old, n)[k].cost <= Cost(i)
          <6> HIDE DEF old
          <6> QED BY <1>18, <2>6, <4>1, <5>1, <5>2, <5>4
        <5> QED BY <5>1, <5>2, <5>3, <5>5 DEF NowServed
      <4>3. CASE ~(allEdges[id].end = e.end /\ allEdges[id].epos = e.epos)
        BY <2>4, <4>1, <4>3 DEF NowServed
      <4> QED BY <4>2, <4>3
    <3> QED BY <1>8, <2>4, <3>1, <3>2
  <2>8. CASE ~Relaxed(id)
    <3>1. id = new /\ start = pos
      <4>1. start = pos /\ \E k \in DOMAIN byStart[pos] : k <= cursor' /\ byStart[pos][k] = id
        <5>1. start < pos \/ (start = pos /\ \E k \in DOMAIN byStart[start] :
                                k <= cursor' /\ byStart[start][k] = id)
          BY <1>1, <1>19 DEF Relaxed
        <5> QED BY <2>8, <5>1 DEF Relaxed
      <4>2. PICK k \in DOMAIN byStart[pos] : k <= cursor + 1 /\ byStart[pos][k] = id
        BY <1>1, <4>1
      <4>3. ~(k <= cursor)
        BY <2>8, <4>1, <4>2 DEF Relaxed
      <4>4. k \in Nat
        <5>1. byStart[pos] \in Seq(Nat \ {0})
          BY <1>5 DEF LatticeTypeOK
        <5> QED BY <5>1
      <4>5. k = cursor + 1
        BY <1>5, <4>2, <4>3, <4>4
      <4> QED BY <1>4, <4>1, <4>2, <4>5
    <3>2. New(id) = Insert(old, n)
      BY <2>4, <3>1
    <3>3. n.cost <= Cost(i)
      <4>1. PICK k \in DOMAIN keys[pos] : keys[pos][k] = x
        BY <1>5, <3>1 DEF KeysCover
      <4> QED BY <1>4, <3>1, <4>1 DEF Cost
    <3>4. ASSUME BeamSuffices PROVE NowServed(id, Cost(i))
      <4>1. PICK j \in DOMAIN Insert(old, n) :
              SameIdentity(Insert(old, n)[j].edge, new) /\ Insert(old, n)[j].cost <= n.cost
        BY <1>17, <3>4
      <4>2. n.cost \in Int
        BY DEF StateEntry
      <4>3. Insert(old, n)[j].cost <= Cost(i)
        BY <1>18, <2>6, <3>3, <4>1, <4>2
      <4> QED BY <3>1, <3>2, <4>1, <4>3 DEF NowServed
    <3> QED BY <1>8, <3>2, <3>4
  <2> QED BY <2>7, <2>8
<1> HIDE DEF NowServes
<1> QED BY <1>11, <1>12, <1>16, <1>19

\* Relaxing an edge is a step of the forward pass.
LEMMA RelaxEdgeStep ==
  ASSUME LatticeTypeOK, IndexInv, SolveInv, OptInv, RelaxEdge
  PROVE  OptInv'
<1>1. RootOnly' /\ KeysCover' /\ RelaxedServe'
  BY RelaxEdgeOpt DEF OptInv
<1>2. phase' = "forward"
  BY DEF RelaxEdge
<1> QED BY <1>1, <1>2 DEF OptInv, FinalLeast, Traced

-----------------------------------------------------------------------------
(* The other steps *)

\* Moving on: what starts here is relaxed, or no state is here to extend.
LEMMA NextPositionStep ==
  ASSUME LatticeTypeOK, IndexInv, SolveInv, OptInv, NextPosition
  PROVE  OptInv'
<1> USE LatticeAssumption
<1>1. /\ UNCHANGED <<scorer, keys, slots, allEdges, byStart>>
      /\ phase' = "forward" /\ pos' = pos + 1 /\ cursor' = 0
      /\ keys[pos] = <<>> \/ cursor = Len(byStart[pos])
      /\ pos \in Pos /\ pos \in Nat
  BY DEF NextPosition, latticeVars, SolveInv, SolveTypeOK, Pos
<1>2. ASSUME NEW id \in DOMAIN allEdges, Relaxed(id)'
      PROVE  \/ Relaxed(id)
             \/ \A x \in ExtendedPOS : DOMAIN slots[allEdges[id].start][x] = {}
  <2> DEFINE p == allEdges[id].start
  <2>1. p \in Pos /\ p \in Nat
    <3>1. allEdges[id] \in Edge
      BY ElementOfSeq DEF LatticeTypeOK
    <3> QED BY <3>1 DEF Edge, Pos
  <2>2. \A q \in Pos : byStart[q] \in Seq(Nat \ {0}) /\ \A k \in DOMAIN byStart[q] : k > 0 /\ k <= Len(byStart[q])
    BY DEF LatticeTypeOK
  <2>3. p <= pos
    <3>1. \/ p < pos + 1
          \/ p = pos + 1 /\ \E k \in DOMAIN byStart[p] : k <= 0
      BY <1>1, <1>2 DEF Relaxed
    <3>2. \A k \in DOMAIN byStart[p] : k \in Nat /\ ~(k <= 0)
      <4>1. byStart[p] \in Seq(Nat \ {0})
        BY <2>1, <2>2
      <4> QED BY <4>1
    <3> QED BY <1>1, <2>1, <3>1, <3>2
  <2>4. CASE p < pos
    BY <2>4 DEF Relaxed
  <2>5. CASE p = pos /\ keys[pos] = <<>>
    <3>1. DOMAIN keys[p] = {}
      BY <2>5
    <3> QED BY <2>1, <3>1 DEF OptInv, KeysCover
  <2>6. CASE p = pos /\ cursor = Len(byStart[pos])
    <3>1. PICK k \in DOMAIN byStart[p] : byStart[p][k] = id
      BY DEF IndexInv
    <3>2. k <= cursor
      BY <2>1, <2>2, <2>6
    <3> QED BY <2>6, <3>1, <3>2 DEF Relaxed
  <2> QED BY <1>1, <2>1, <2>3, <2>4, <2>5, <2>6
<1>3. RootOnly' /\ KeysCover' /\ RelaxedServe'
  BY <1>1, <1>2, TableKept DEF OptInv
<1> QED BY <1>1, <1>3 DEF OptInv, FinalLeast, Traced

\* The cost of a path is a matter of the lattice and the scorer.
LEMMA AddsUpKept ==
  ASSUME UNCHANGED <<scorer, allEdges>>
  PROVE  \A prev, base, q, total : AddsUp(prev, base, q, total)' <=> AddsUp(prev, base, q, total)
<1>1. \A prev, id : StepCost(prev, id)' = StepCost(prev, id)
  BY DEF StepCost, ClosesSentence
<1> QED BY <1>1 DEF AddsUp, Accumulates, Before

\* After the forward pass nothing but the result changes.
LEMMA ResultKeepsTable ==
  ASSUME OptInv, UNCHANGED <<scorer, keys, slots, pos, cursor, allEdges, byStart>>
  PROVE  RootOnly' /\ KeysCover' /\ RelaxedServe'
<1>1. \A id \in DOMAIN allEdges : Relaxed(id)' => Relaxed(id)
  BY DEF Relaxed
<1> QED BY <1>1, TableKept DEF OptInv

\* The scan of the final position takes the cheapest of all its slots.
LEMMA PickFinalStep ==
  ASSUME SolveInv, OptInv, PickFinal
  PROVE  OptInv'
<1> USE LatticeAssumption, ViterbiAssumption
<1>1. /\ UNCHANGED <<scorer, keys, slots, pos, cursor, path, allEdges, byStart>>
      /\ phase = "forward" /\ phase' = "backtrack" /\ pos = TextLength
  BY DEF PickFinal, latticeVars
<1>2. PICK a \in Arrivals(TextLength) :
        /\ IsBestFinal(a)
        /\ back' = [pos |-> TextLength, epos |-> keys[TextLength][a[1]], slot |-> a[2]]
        /\ totalCost' = EntryAt(TextLength, a).cost
  BY DEF PickFinal
<1>3. TextLength \in Pos
  BY DEF Pos
<1>4. \A x \in ExtendedPOS : \A i \in DOMAIN slots[TextLength][x] : slots[TextLength][x][i].cost \in Int
  <2> TAKE x \in ExtendedPOS
  <2>1. slots[TextLength][x] \in Seq(StateEntry)
    BY <1>3 DEF SolveInv, SolveTypeOK
  <2> TAKE i \in DOMAIN slots[TextLength][x]
  <2>2. slots[TextLength][x][i] \in StateEntry
    BY <2>1, ElementOfSeq
  <2> QED BY <2>2 DEF StateEntry
<1>5. PICK k \in DOMAIN keys[TextLength] :
        \E s \in DOMAIN slots[TextLength][keys[TextLength][k]] : a = <<k, s>>
  BY DEF Arrivals
<1>6. PICK s \in DOMAIN slots[TextLength][keys[TextLength][k]] : a = <<k, s>>
  BY <1>5
<1> DEFINE entry == slots[TextLength][keys[TextLength][k]][s]
<1>7. EntryAt(TextLength, a) = entry /\ totalCost' = entry.cost
  BY <1>2, <1>6 DEF EntryAt
<1>8. totalCost' \in Int
  <2>1. keys[TextLength] \in Seq(ExtendedPOS)
    BY <1>3 DEF SolveInv, SolveTypeOK
  <2>2. keys[TextLength][k] \in ExtendedPOS
    BY <2>1, ElementOfSeq
  <2> QED BY <1>4, <1>7, <2>2
<1>9. RootOnly' /\ KeysCover' /\ RelaxedServe'
  BY <1>1, ResultKeepsTable
<1>10. FinalLeast'
  <2> SUFFICES ASSUME NEW x \in ExtendedPOS, NEW i \in DOMAIN slots[TextLength][x]
               PROVE  totalCost' <= slots[TextLength][x][i].cost
    BY <1>1 DEF FinalLeast
  <2>1. PICK h \in DOMAIN keys[TextLength] : keys[TextLength][h] = x
    BY <1>3 DEF OptInv, KeysCover
  <2> DEFINE b == <<h, i>>
  <2>2. b \in Arrivals(TextLength) /\ EntryAt(TextLength, b) = slots[TextLength][x][i]
    BY <2>1 DEF Arrivals, EntryAt
  <2> HIDE DEF b
  <2>3. \/ totalCost' < slots[TextLength][x][i].cost
        \/ totalCost' = slots[TextLength][x][i].cost
    BY <1>2, <2>2 DEF IsBestFinal
  <2> QED BY <1>4, <1>8, <2>3
<1>11. Traced'
  <2>1. path' = <<>> /\ path = <<>>
    BY <1>1 DEF SolveInv, BacktrackInv
  <2>2. back'.pos = TextLength /\ back'.epos = keys[TextLength][k] /\ back'.slot = s
    BY <1>2, <1>6
  <2>3. slots'[back'.pos][back'.epos][back'.slot] = entry
    BY <1>1, <2>2
  <2>4. AddsUp(entry.edge, entry.cost, <<>>, entry.cost)
    <3> DEFINE c == [n \in 0..0 |-> entry.cost]
    <3>1. entry.cost \in Int
      BY <1>7, <1>8
    <3> HIDE DEF entry
    <3>2. Accumulates(c, entry.edge, entry.cost, <<>>, Len(<<>>)) /\ c[Len(<<>>)] = entry.cost
      BY <3>1 DEF Accumulates
    <3> HIDE DEF c
    <3> QED BY <3>2 DEF AddsUp
  <2>5. \A prev, base, q, total : AddsUp(prev, base, q, total)' <=> AddsUp(prev, base, q, total)
    BY <1>1, AddsUpKept
  <2> HIDE DEF entry
  <2> QED BY <1>1, <1>7, <2>1, <2>3, <2>4, <2>5 DEF Traced
<1> QED BY <1>9, <1>10, <1>11 DEF OptInv

\* Ending without a path: no state is at the end of the text.
LEMMA NoPathStep ==
  ASSUME SolveInv, OptInv, NoPath
  PROVE  OptInv'
<1> USE LatticeAssumption
<1>1. /\ UNCHANGED <<scorer, keys, slots, pos, cursor, path, totalCost, allEdges, byStart>>
      /\ phase = "forward" /\ phase' = "done" /\ pos = TextLength /\ keys[TextLength] = <<>>
  BY DEF NoPath, latticeVars
<1>2. RootOnly' /\ KeysCover' /\ RelaxedServe'
  BY <1>1, ResultKeepsTable
<1>3. \A x \in ExtendedPOS : DOMAIN slots[TextLength][x] = {}
  <2>1. TextLength \in Pos /\ DOMAIN keys[TextLength] = {}
    BY <1>1 DEF Pos
  <2> QED BY <2>1 DEF OptInv, KeysCover
<1>4. FinalLeast'
  BY <1>1, <1>3 DEF FinalLeast
<1>5. Traced'
  BY <1>1 DEF SolveInv, BacktrackInv, Traced
<1> QED BY <1>2, <1>4, <1>5 DEF OptInv

\* One edge more in front of a path: the sum starts one step earlier.
LEMMA AddsUpExtend ==
  ASSUME NEW q \in Seq(Nat), NEW id \in Nat, NEW prev, NEW base \in Int, NEW total,
         AddsUp(id, base + StepCost(prev, id), q, total)
  PROVE  AddsUp(prev, base, <<id>> \o q, total)
<1> DEFINE r == <<id>> \o q
           N == Len(q)
<1>1. /\ N \in Nat /\ Len(r) = N + 1 /\ r[1] = id
      /\ \A n \in 2..(N + 1) : r[n] = q[n - 1]
  OBVIOUS
<1>2. PICK c : Accumulates(c, id, base + StepCost(prev, id), q, N) /\ c[N] = total
  BY DEF AddsUp
<1>3. /\ c \in [0..N -> Int] /\ c[0] = base + StepCost(prev, id)
      /\ \A n \in 1..N : c[n] = c[n - 1] + StepCost(Before(id, q, n), q[n])
  BY <1>2 DEF Accumulates
<1> HIDE DEF r, N
<1> DEFINE d == [n \in 0..(N + 1) |-> IF n = 0 THEN base ELSE c[n - 1]]
<1>4. d \in [0..(N + 1) -> Int] /\ d[0] = base
  BY <1>1, <1>3
<1>5. ASSUME NEW n \in 1..(N + 1)
      PROVE  d[n] = d[n - 1] + StepCost(Before(prev, r, n), r[n])
  <2>1. CASE n = 1
    <3>1. d[1] = c[0] /\ d[0] = base
      BY <1>1
    <3> HIDE DEF d
    <3> QED BY <1>1, <1>3, <2>1, <3>1 DEF Before
  <2>2. CASE n # 1
    <3>1. /\ n \in Int /\ n \in 2..(N + 1) /\ n - 1 \in 1..N /\ n # 0 /\ n - 1 # 0
          /\ n \in 0..(N + 1) /\ n - 1 \in 0..(N + 1)
      BY <1>1, <2>2
    <3>2. d[n] = c[n - 1] /\ d[n - 1] = c[(n - 1) - 1]
      BY <3>1
    <3>3. r[n] = q[n - 1] /\ Before(prev, r, n) = Before(id, q, n - 1)
      <4>1. CASE n = 2
        BY <1>1, <3>1, <4>1 DEF Before
      <4>2. CASE n # 2
        <5>1. n - 1 # 1 /\ n - 1 \in 2..(N + 1)
          BY <3>1, <4>2
        <5>2. r[n - 1] = q[(n - 1) - 1] /\ r[n] = q[n - 1]
          BY <1>1, <3>1, <5>1
        <5> QED BY <2>2, <5>1, <5>2 DEF Before
      <4> QED BY <4>1, <4>2
    <3> HIDE DEF d
    <3> QED BY <1>3, <3>1, <3>2, <3>3
  <2> QED BY <2>1, <2>2
<1>6. d[N + 1] = total
  <2>1. N + 1 \in 0..(N + 1) /\ N + 1 # 0 /\ (N + 1) - 1 = N
    BY <1>1
  <2> QED BY <1>2, <2>1
<1> HIDE DEF d
<1>7. Accumulates(d, prev, base, r, Len(r)) /\ d[Len(r)] = total
  BY <1>1, <1>4, <1>5, <1>6 DEF Accumulates
<1>8. AddsUp(prev, base, r, total)
  BY <1>7 DEF AddsUp
<1> QED BY <1>8 DEF r

\* Following a pointer moves one step's cost from the entry to the path; at the
\* start of the text nothing is left to move.
LEMMA BacktrackStepOpt ==
  ASSUME LatticeTypeOK, SolveInv, OptInv, BacktrackStep
  PROVE  OptInv'
<1> USE LatticeAssumption
<1>1. /\ UNCHANGED <<scorer, keys, slots, pos, cursor, totalCost, allEdges, byStart>>
      /\ phase = "backtrack"
  BY DEF BacktrackStep, latticeVars
<1>2. RootOnly' /\ KeysCover' /\ RelaxedServe'
  BY <1>1, ResultKeepsTable
<1>3. FinalLeast'
  <2>1. FinalLeast
    BY DEF OptInv
  <2> QED BY <1>1, <2>1 DEF FinalLeast
<1> DEFINE entry == BackSlots[back.slot]
<1>4. back.pos \in Pos /\ back.epos \in ExtendedPOS /\ path \in Seq(Nat) /\ back.slot \in Nat
  BY DEF SolveInv, SolveTypeOK
<1>5. back.slot \in DOMAIN BackSlots /\ BackSlots \in Seq(StateEntry)
  BY <1>1, <1>4 DEF SolveInv, BacktrackInv, BackSlots, SolveTypeOK
<1>6. PointsBack(back.pos, back.epos, entry)
  BY <1>4, <1>5 DEF SolveInv, BackpointersExact, BackSlots
<1>7. AddsUp(entry.edge, entry.cost, path, totalCost)
  BY <1>1 DEF OptInv, Traced, BackSlots
<1>8. \A prev, base, q, total : AddsUp(prev, base, q, total)' <=> AddsUp(prev, base, q, total)
  BY <1>1, AddsUpKept
<1>9. CASE back.pos = 0 \/ BacktrackBreaks
  <2>1. phase' = "done" /\ path' = path
    BY <1>9 DEF BacktrackStep
  <2>2. back.pos = 0
    <3>1. ~(back.slot > Len(BackSlots))
      BY <1>4, <1>5
    <3> QED BY <1>6, <1>9, <3>1 DEF BacktrackBreaks, PointsBack
  <2>3. entry.edge = BosEdgeId /\ entry.cost = 0
    BY <1>4, <1>5, <2>2 DEF OptInv, RootOnly, BackSlots
  <2> HIDE DEF entry
  <2>4. AddsUp(BosEdgeId, 0, path, totalCost)
    BY <1>7, <2>3
  <2> QED BY <1>1, <1>2, <1>3, <1>8, <2>1, <2>4 DEF OptInv, Traced
<1>10. CASE ~(back.pos = 0 \/ BacktrackBreaks)
  <2>1. /\ path' = <<entry.edge>> \o path
        /\ back' = [pos |-> allEdges[entry.edge].start, epos |-> entry.prevEpos, slot |-> entry.prevSlot]
        /\ phase' = "backtrack"
    BY <1>1, <1>10 DEF BacktrackStep, Predecessor
  <2> DEFINE from == allEdges[entry.edge].start
             before == slots[from][entry.prevEpos][entry.prevSlot]
  <2>2. /\ entry.edge \in DOMAIN allEdges
        /\ entry.prevSlot \in DOMAIN slots[from][entry.prevEpos]
        /\ entry.cost = before.cost + StepCost(before.edge, entry.edge)
    BY <1>6, <1>10 DEF PointsBack, BacktrackBreaks
  <2>3. entry.edge \in Nat /\ entry.prevEpos \in ExtendedPOS
    <3>1. entry \in StateEntry
      BY <1>5, ElementOfSeq
    <3> QED BY <3>1 DEF StateEntry
  <2>4. before.cost \in Int
    <3>1. \A i \in DOMAIN allEdges : allEdges[i] \in Edge
      BY ElementOfSeq DEF LatticeTypeOK
    <3>2. from \in Pos
      <4> HIDE DEF entry
      <4> QED BY <2>2, <3>1 DEF Edge
    <3>3. slots[from][entry.prevEpos] \in Seq(StateEntry)
      <4> HIDE DEF entry, from
      <4> QED BY <2>3, <3>2 DEF SolveInv, SolveTypeOK
    <3>4. \A s \in Seq(StateEntry) : \A i \in DOMAIN s : s[i] \in StateEntry
      BY ElementOfSeq
    <3>5. before \in StateEntry
      <4> HIDE DEF entry, from
      <4> QED BY <2>2, <3>3, <3>4
    <3> QED BY <3>5 DEF StateEntry
  <2>5. slots'[back'.pos][back'.epos][back'.slot] = before
    BY <1>1, <2>1
  <2> HIDE DEF entry, before
  <2>6. AddsUp(before.edge, before.cost, <<entry.edge>> \o path, totalCost)
    BY <1>4, <1>7, <2>2, <2>3, <2>4, AddsUpExtend
  <2>7. Traced'
    BY <1>1, <1>8, <2>1, <2>5, <2>6 DEF Traced
  <2> QED BY <1>2, <1>3, <2>7 DEF OptInv
<1> QED BY <1>9, <1>10

\* A step that changes neither lattice nor decoder changes nothing here.
LEMMA StutterOpt ==
  ASSUME SolveInv, OptInv, UNCHANGED <<latticeVars, solveVars>>
  PROVE  OptInv'
<1>1. /\ UNCHANGED <<scorer, phase, keys, slots, pos, cursor, back, path, totalCost>>
      /\ UNCHANGED <<allEdges, byStart>>
  BY DEF latticeVars, solveVars
<1>2. RootOnly' /\ KeysCover' /\ RelaxedServe'
  BY <1>1, ResultKeepsTable
<1>3. FinalLeast'
  <2>1. FinalLeast
    BY DEF OptInv
  <2> QED BY <1>1, <2>1 DEF FinalLeast
<1>4. Traced'
  <2>1. Traced
    BY DEF OptInv
  <2>2. \A prev, base, q, total : AddsUp(prev, base, q, total)' <=> AddsUp(prev, base, q, total)
    BY <1>1, AddsUpKept
  <2> QED BY <1>1, <2>1, <2>2 DEF Traced
<1> QED BY <1>2, <1>3, <1>4 DEF OptInv

\* Every step of an analysis keeps the decoder optimal so far: the lattice
\* changes only while the decoder has not begun.
THEOREM OptInvariant == Spec => []OptInv
<1>1. SolveInit /\ LatticeTypeOK => OptInv
  BY OptStart
<1>2. Init => SolveInit
  BY DEF Init
<1>3. ChunkInv => LatticeTypeOK
  BY DEF ChunkInv, LatticeInv
<1>4. /\ ChunkInv /\ ChunkInv' /\ OptInv /\ [Next]_vars
      /\ (SolveInit /\ LatticeTypeOK => OptInv)' /\ (ChunkInv => LatticeTypeOK)'
      => OptInv'
  <2> SUFFICES ASSUME ChunkInv, ChunkInv', OptInv, [Next]_vars,
                      (SolveInit /\ LatticeTypeOK => OptInv)', (ChunkInv => LatticeTypeOK)'
               PROVE  OptInv'
    OBVIOUS
  <2>1. LatticeTypeOK /\ IndexInv /\ SolveInv
    BY DEF ChunkInv, LatticeInv
  <2>2. CASE Build
    <3>1. SolveInit'
      <4>1. SolveInit
        BY <2>2 DEF Build, ChunkInv, Unstarted
      <4> QED BY <2>2, <4>1 DEF Build, SolveInit, solveVars
    <3> QED BY <3>1
  <2>3. CASE Solve
    <3>1. CASE RelaxEdge
      BY <2>1, <3>1, RelaxEdgeStep
    <3>2. CASE NextPosition
      BY <2>1, <3>2, NextPositionStep
    <3>3. CASE PickFinal
      BY <2>1, <3>3, PickFinalStep
    <3>4. CASE NoPath
      BY <2>1, <3>4, NoPathStep
    <3>5. CASE BacktrackStep
      BY <2>1, <3>5, BacktrackStepOpt
    <3> QED BY <2>3, <3>1, <3>2, <3>3, <3>4, <3>5 DEF Solve, SolveNext
  <2>4. CASE UNCHANGED vars
    BY <2>1, <2>4, StutterOpt DEF vars
  <2> QED BY <2>2, <2>3, <2>4 DEF Next
<1>5. Init => ChunkInv
  BY InitInv
<1> QED BY <1>1, <1>2, <1>3, <1>4, <1>5, ChunkInvariant, PTL DEF Spec

-----------------------------------------------------------------------------
(* From edges to paths *)

\* A path of the reference has an edge, and its costs can be accumulated.
LEMMA PathShape ==
  ASSUME NEW q \in AllPaths
  PROVE  /\ q \in Seq(DOMAIN allEdges) /\ q # <<>> /\ Tiles(q, 0, TextLength)
         /\ Len(q) \in Nat /\ 1 <= Len(q) /\ \A n \in 1..Len(q) : q[n] \in DOMAIN allEdges
<1> USE LatticeAssumption
<1>1. q \in SeqOf(DOMAIN allEdges, TextLength) /\ Tiles(q, 0, TextLength)
  BY DEF AllPaths, PathsTo
<1>2. PICK m \in 0..TextLength : q \in [1..m -> DOMAIN allEdges]
  BY <1>1 DEF SeqOf
<1>3. q \in Seq(DOMAIN allEdges)
  <2>1. m \in Nat
    OBVIOUS
  <2> QED BY <1>2, <2>1
<1>4. q # <<>>
  BY <1>1 DEF Tiles
<1>5. Len(q) \in Nat /\ Len(q) # 0 /\ \A n \in 1..Len(q) : q[n] \in DOMAIN allEdges
  BY <1>3, <1>4
<1> QED BY <1>1, <1>3, <1>4, <1>5

\* At the last position every edge has been relaxed.
LEMMA EveryEdgeRelaxed ==
  ASSUME LatticeTypeOK, IndexInv, pos = TextLength, NEW id \in DOMAIN allEdges
  PROVE  /\ Relaxed(id)
         /\ allEdges[id].start \in Pos /\ allEdges[id].end \in Pos
         /\ allEdges[id].epos \in ExtendedPOS
<1>1. allEdges[id] \in Edge
  BY ElementOfSeq DEF LatticeTypeOK
<1>2. allEdges[id].start \in Pos /\ allEdges[id].end \in Pos /\ allEdges[id].epos \in ExtendedPOS
  BY <1>1 DEF Edge
<1>3. allEdges[id].start < allEdges[id].end
  BY DEF IndexInv
<1>4. allEdges[id].start < pos
  BY <1>2, <1>3, LatticeAssumption DEF Pos
<1> QED BY <1>2, <1>4 DEF Relaxed

\* A slot that stands in for an edge is extended at the same cost.
LEMMA StandInStep ==
  ASSUME LatticeTypeOK, IndexInv, SolveInv, pos = TextLength,
         NEW id \in DOMAIN allEdges, NEW next \in DOMAIN allEdges,
         NEW j \in DOMAIN Target(id), SameIdentity(Target(id)[j].edge, id)
  PROVE  StepCost(Target(id)[j].edge, next) = StepCost(id, next)
<1>1. allEdges[id].end \in Pos /\ allEdges[id].epos \in ExtendedPOS
  BY EveryEdgeRelaxed
<1>2. PointsBack(allEdges[id].end, allEdges[id].epos, Target(id)[j])
  BY <1>1 DEF SolveInv, BackpointersExact, Target
<1> DEFINE e == Target(id)[j].edge
<1>3. e # BosEdgeId /\ id # BosEdgeId
  <2>1. id # BosEdgeId
    BY DEF LatticeTypeOK, BosEdgeId
  <2> QED BY <2>1 DEF SameIdentity
<1>4. allEdges[e].start = allEdges[id].start /\ allEdges[e].sig = allEdges[id].sig
  BY DEF SameIdentity
<1>5. allEdges[e].epos = allEdges[id].epos
  BY <1>2, <1>3 DEF PointsBack
<1> HIDE DEF e
<1>6. StepCost(e, next) = StepCost(id, next)
  BY <1>3, <1>4, <1>5 DEF StepCost
<1> QED BY <1>6 DEF e

\* What serves a cost serves a higher one.
LEMMA ServedHigher ==
  ASSUME LatticeTypeOK, IndexInv, SolveInv, pos = TextLength, NEW id \in DOMAIN allEdges,
         NEW low \in Int, NEW high \in Int, low <= high, Served(id, low)
  PROVE  Served(id, high)
<1>1. PICK j \in DOMAIN Target(id) : SameIdentity(Target(id)[j].edge, id) /\ Target(id)[j].cost <= low
  BY DEF Served
<1>2. allEdges[id].end \in Pos /\ allEdges[id].epos \in ExtendedPOS
  BY EveryEdgeRelaxed
<1>3. Target(id)[j].cost \in Int
  BY <1>2, EntryTyped DEF SolveInv, Target
<1>4. Target(id)[j].cost <= high
  BY <1>1, <1>3
<1> QED BY <1>1, <1>4 DEF Served

\* Along any path of the lattice the table holds, at the end of each edge, a
\* state under that edge's key; with room for all identities, one as good as
\* the path so far.
LEMMA ServedAlong ==
  ASSUME LatticeTypeOK, IndexInv, SolveInv, OptInv, pos = TextLength, NEW q \in AllPaths,
         NEW c, Accumulates(c, BosEdgeId, 0, q, Len(q))
  PROVE  \A n \in 1..Len(q) : DOMAIN Target(q[n]) # {} /\ (BeamSuffices => Served(q[n], c[n]))
<1> DEFINE Good(n) == DOMAIN Target(q[n]) # {} /\ (BeamSuffices => Served(q[n], c[n]))
           S == {m \in Nat : m + 1 <= Len(q) => Good(m + 1)}
<1>1. /\ Len(q) \in Nat /\ 1 <= Len(q) /\ \A n \in 1..Len(q) : q[n] \in DOMAIN allEdges
      /\ q # <<>> /\ Tiles(q, 0, TextLength)
  BY PathShape
<1>2. /\ c \in [0..Len(q) -> Int] /\ c[0] = 0
      /\ \A n \in 1..Len(q) : c[n] = c[n - 1] + StepCost(Before(BosEdgeId, q, n), q[n])
  BY DEF Accumulates
<1>3. 0 \in S
  <2>1. 1 \in 1..Len(q) /\ 1 - 1 = 0 /\ 0 + 1 = 1
    BY <1>1
  <2>2. q[1] \in DOMAIN allEdges /\ allEdges[q[1]].start = 0
    BY <1>1, <2>1 DEF Tiles
  <2>3. Relaxed(q[1])
    BY <2>2, EveryEdgeRelaxed
  <2>4. 0 \in Pos /\ UnknownPOS \in ExtendedPOS
    BY LatticeAssumption DEF Pos
  <2>5. /\ 1 \in DOMAIN slots[0][UnknownPOS]
        /\ slots[0][UnknownPOS][1].edge = BosEdgeId /\ slots[0][UnknownPOS][1].cost = 0
    BY <2>4 DEF OptInv, RootOnly
  <2>6. /\ DOMAIN Target(q[1]) # {}
        /\ BeamSuffices => Served(q[1], 0 + StepCost(BosEdgeId, q[1]))
    BY <2>2, <2>3, <2>4, <2>5 DEF OptInv, RelaxedServe
  <2>7. c[1] = 0 + StepCost(BosEdgeId, q[1])
    BY <1>2, <2>1 DEF Before
  <2>8. Good(1)
    BY <2>6, <2>7
  <2> HIDE DEF Good
  <2> QED BY <2>1, <2>8
<1>4. ASSUME NEW m \in S PROVE m + 1 \in S
  <2> DEFINE n == m + 1
  <2> SUFFICES ASSUME n + 1 <= Len(q) PROVE Good(n + 1)
    OBVIOUS
  <2>1. m \in Nat /\ n <= Len(q) /\ n \in 1..(Len(q) - 1) /\ n \in 1..Len(q) /\ n + 1 \in 1..Len(q)
        /\ (n + 1) - 1 = n /\ n + 1 # 1 /\ n \in 0..Len(q) /\ n + 1 \in 0..Len(q)
    BY <1>1
  <2>2. Good(n)
    <3> HIDE DEF Good
    <3> QED BY <2>1
  <2> HIDE DEF n, S
  <2> DEFINE id == q[n]
             next == q[n + 1]
  <2>3. id \in DOMAIN allEdges /\ next \in DOMAIN allEdges
    BY <1>1, <2>1
  <2>4. allEdges[id].end = allEdges[next].start
    BY <1>1, <2>1 DEF Tiles
  <2>5. Relaxed(next) /\ allEdges[id].end \in Pos /\ allEdges[id].epos \in ExtendedPOS
    BY <2>3, EveryEdgeRelaxed
  <2>6. \A j \in DOMAIN Target(id) :
          /\ DOMAIN Target(next) # {}
          /\ BeamSuffices =>
               Served(next, Target(id)[j].cost + StepCost(Target(id)[j].edge, next))
    <3>1. Target(id) = slots[allEdges[next].start][allEdges[id].epos]
      BY <2>4 DEF Target
    <3> HIDE DEF id, next
    <3> QED BY <2>3, <2>5, <3>1 DEF OptInv, RelaxedServe
  <2>7. DOMAIN Target(next) # {}
    BY <2>2, <2>6
  <2>8. ASSUME BeamSuffices PROVE Served(next, c[n + 1])
    <3>1. PICK j \in DOMAIN Target(id) : SameIdentity(Target(id)[j].edge, id) /\ Target(id)[j].cost <= c[n]
      BY <2>2, <2>8 DEF Served
    <3>2. StepCost(Target(id)[j].edge, next) = StepCost(id, next)
      <4> HIDE DEF id, next
      <4> QED BY <2>3, <3>1, StandInStep
    <3>3. Target(id)[j].cost \in Int
      <4> HIDE DEF id, next
      <4> QED BY <2>5, <2>3, EntryTyped DEF SolveInv, Target
    <3>4. StepCost(id, next) \in Int
      <4> HIDE DEF id, next
      <4> QED BY <2>3, StepCostType DEF SolveInv
    <3>5. c[n + 1] = c[n] + StepCost(id, next) /\ c[n] \in Int
      BY <1>2, <2>1 DEF Before
    <3>6. Served(next, Target(id)[j].cost + StepCost(id, next))
      <4> HIDE DEF id, next
      <4> QED BY <2>6, <2>8, <3>1, <3>2
    <3> DEFINE low == Target(id)[j].cost + StepCost(id, next)
    <3>7. low \in Int /\ c[n + 1] \in Int /\ low <= c[n + 1]
      <4> HIDE DEF id, next
      <4> QED BY <3>1, <3>3, <3>4, <3>5
    <3> HIDE DEF id, next
    <3> QED BY <2>3, <3>6, <3>7, ServedHigher
  <2> QED BY <2>7, <2>8
<1>5. S = Nat
  <2> HIDE DEF S
  <2>1. S \in SUBSET Nat
    BY DEF S
  <2> QED BY <1>3, <1>4, <2>1, Induction
<1>6. \A n \in 1..Len(q) : n - 1 \in Nat /\ (n - 1) + 1 = n /\ n <= Len(q)
  BY <1>1
<1> HIDE DEF Good
<1>7. \A m \in Nat : m + 1 <= Len(q) => Good(m + 1)
  BY <1>5
<1> HIDE DEF S
<1>8. \A n \in 1..Len(q) : Good(n)
  <2> TAKE n \in 1..Len(q)
  <2> QED BY <1>6, <1>7
<1> QED BY <1>8 DEF Good

\* Every edge leads forward, so whatever tiles the text is short enough for the
\* reference.
LEMMA TilesShort ==
  ASSUME LatticeTypeOK, IndexInv, NEW q \in Seq(Nat), q # <<>>, Tiles(q, 0, TextLength)
  PROVE  q \in AllPaths
<1> USE LatticeAssumption
<1> DEFINE End(n) == allEdges[q[n]].end
           S == {m \in Nat : m + 1 <= Len(q) => m + 1 <= End(m + 1)}
<1>1. /\ Len(q) \in Nat /\ Len(q) # 0 /\ 1 <= Len(q) /\ DOMAIN q = 1..Len(q)
      /\ q = [i \in 1..Len(q) |-> q[i]]
  OBVIOUS
<1>2. \A n \in 1..Len(q) : q[n] \in DOMAIN allEdges
  BY <1>1 DEF Tiles
<1>3. \A i \in DOMAIN allEdges : /\ allEdges[i].start \in Nat /\ allEdges[i].end \in Nat
                                 /\ allEdges[i].start < allEdges[i].end
  <2>1. \A i \in DOMAIN allEdges : allEdges[i] \in Edge
    BY ElementOfSeq DEF LatticeTypeOK
  <2> QED BY <2>1 DEF Edge, Pos, IndexInv
<1>4. /\ allEdges[q[1]].start = 0 /\ End(Len(q)) = TextLength
      /\ \A n \in 1..(Len(q) - 1) : End(n) = allEdges[q[n + 1]].start
  BY DEF Tiles
<1>5. \A n \in 1..Len(q) : /\ allEdges[q[n]].start \in Nat /\ End(n) \in Nat
                           /\ allEdges[q[n]].start < End(n)
  BY <1>2, <1>3
<1>6. 0 \in S
  <2>1. 1 \in 1..Len(q) /\ 0 + 1 = 1
    BY <1>1
  <2>2. 0 < End(1) /\ End(1) \in Nat
    BY <1>4, <1>5, <2>1
  <2> HIDE DEF End
  <2> QED BY <2>1, <2>2
<1>7. ASSUME NEW m \in S PROVE m + 1 \in S
  <2> SUFFICES ASSUME (m + 1) + 1 <= Len(q) PROVE (m + 1) + 1 <= End((m + 1) + 1)
    OBVIOUS
  <2>1. m \in Nat /\ m + 1 \in 1..(Len(q) - 1) /\ m + 1 \in 1..Len(q) /\ (m + 1) + 1 \in 1..Len(q)
    BY <1>1
  <2>2. m + 1 <= End(m + 1)
    BY <2>1
  <2>3. End(m + 1) = allEdges[q[(m + 1) + 1]].start
    BY <1>4, <2>1
  <2>4. End(m + 1) < End((m + 1) + 1) /\ End(m + 1) \in Nat /\ End((m + 1) + 1) \in Nat
    BY <1>5, <2>1, <2>3
  <2> HIDE DEF End, S
  <2> QED BY <2>1, <2>2, <2>4
<1>8. S = Nat
  <2> HIDE DEF S
  <2>1. S \in SUBSET Nat
    BY DEF S
  <2> QED BY <1>6, <1>7, <2>1, Induction
<1>9. Len(q) <= TextLength
  <2>1. Len(q) - 1 \in Nat /\ (Len(q) - 1) + 1 = Len(q)
    BY <1>1
  <2>2. Len(q) - 1 \in S
    BY <1>8, <2>1
  <2>3. Len(q) <= End(Len(q))
    BY <1>1, <2>1, <2>2
  <2> QED BY <1>4, <2>3
<1>10. q \in [1..Len(q) -> DOMAIN allEdges]
  BY <1>1, <1>2
<1>11. Len(q) \in 0..TextLength
  BY <1>1, <1>9
<1>12. q \in SeqOf(DOMAIN allEdges, TextLength)
  BY <1>10, <1>11 DEF SeqOf
<1> QED BY <1>12 DEF AllPaths, PathsTo

\* Any path of the reference leaves states at the end of the text, the cheapest
\* of which costs no more than the path if there is room for all identities.
LEMMA PathArrives ==
  ASSUME LatticeTypeOK, IndexInv, SolveInv, OptInv, phase # "forward", NEW q \in AllPaths
  PROVE  keys[TextLength] # <<>> /\ (BeamSuffices => totalCost <= PathCost(q))
<1> USE LatticeAssumption
<1>1. /\ pos = TextLength
      /\ \A x \in ExtendedPOS : \A i \in DOMAIN slots[TextLength][x] :
           totalCost <= slots[TextLength][x][i].cost
  BY DEF OptInv, FinalLeast
<1>2. /\ q \in Seq(DOMAIN allEdges) /\ q # <<>> /\ Tiles(q, 0, TextLength)
      /\ Len(q) \in Nat /\ 1 <= Len(q) /\ \A n \in 1..Len(q) : q[n] \in DOMAIN allEdges
  BY PathShape
<1>3. PICK c : Accumulates(c, BosEdgeId, 0, q, Len(q))
  BY <1>2, CostsExist DEF SolveInv
<1>4. PathCost(q) = c[Len(q)] /\ c[Len(q)] \in Int
  <2>1. c[Len(q)] \in Int
    BY <1>2, <1>3 DEF Accumulates
  <2> QED BY <1>2, <1>3, <2>1, PathCostAccumulates
<1> DEFINE last == q[Len(q)]
<1>5. DOMAIN Target(last) # {} /\ (BeamSuffices => Served(last, c[Len(q)]))
  <2>1. Len(q) \in 1..Len(q)
    BY <1>2
  <2> QED BY <1>1, <1>3, <2>1, ServedAlong
<1>6. last \in DOMAIN allEdges /\ allEdges[last].end = TextLength
  BY <1>2 DEF Tiles
<1>7. allEdges[last].epos \in ExtendedPOS /\ TextLength \in Pos
  <2>1. allEdges[last].epos \in ExtendedPOS
    BY <1>1, <1>6, EveryEdgeRelaxed
  <2> QED BY <2>1 DEF Pos
<1> HIDE DEF last
<1>8. Target(last) = slots[TextLength][allEdges[last].epos]
  BY <1>6 DEF Target
<1>9. keys[TextLength] # <<>>
  <2>1. \E k \in DOMAIN keys[TextLength] : keys[TextLength][k] = allEdges[last].epos
    BY <1>5, <1>7, <1>8 DEF OptInv, KeysCover
  <2> QED BY <2>1
<1>10. ASSUME BeamSuffices PROVE totalCost <= PathCost(q)
  <2>1. PICK j \in DOMAIN Target(last) : Target(last)[j].cost <= c[Len(q)]
    BY <1>5, <1>10 DEF Served
  <2>2. totalCost <= Target(last)[j].cost
    BY <1>1, <1>7, <1>8, <2>1
  <2>3. Target(last)[j].cost \in Int /\ totalCost \in Int
    <3>1. Target(last)[j].cost \in Int
      BY <1>6, <1>7, <1>8, EntryTyped DEF SolveInv
    <3> QED BY <3>1 DEF SolveInv, SolveTypeOK
  <2> HIDE DEF Target
  <2> QED BY <1>4, <2>1, <2>2, <2>3
<1> QED BY <1>9, <1>10

\* Whenever each key has room for the arrivals the scorer can tell apart, no
\* path of the lattice is cheaper than the result, although every edge joins
\* its end with a single predecessor and twins are merged.
THEOREM ResultOptimal == Spec => []OptimalWithinBeam
<1>1. ChunkInv /\ OptInv => OptimalWithinBeam
  <2> SUFFICES ASSUME ChunkInv, OptInv, phase = "done", BeamSuffices, NEW q \in AllPaths
               PROVE  totalCost <= PathCost(q)
    BY DEF OptimalWithinBeam
  <2>1. LatticeTypeOK /\ IndexInv /\ SolveInv
    BY DEF ChunkInv, LatticeInv
  <2>2. phase # "forward"
    OBVIOUS
  <2> QED BY <2>1, <2>2, PathArrives
<1> QED BY <1>1, ChunkInvariant, OptInvariant, PTL

\* Whatever the width of the beam: the result is empty exactly when no path
\* spans the text, and otherwise covers the text and costs what is reported,
\* although the cost is summed forwards and the path rebuilt backwards.
THEOREM ResultExact == Spec => []ResultIsAPath
<1>1. ChunkInv /\ OptInv => ResultIsAPath
  <2> SUFFICES ASSUME ChunkInv, OptInv, phase = "done"
               PROVE  IF AllPaths = {} THEN path = <<>>
                      ELSE path # <<>> /\ Tiles(path, 0, TextLength) /\ totalCost = PathCost(path)
    BY DEF ResultIsAPath
  <2>1. LatticeTypeOK /\ IndexInv /\ SolveInv /\ phase # "forward"
    BY DEF ChunkInv, LatticeInv
  <2>2. path \in Seq(Nat) /\ IF path = <<>> THEN keys[TextLength] = <<>> ELSE Tiles(path, 0, TextLength)
    BY <2>1 DEF SolveInv, SolveTypeOK, BacktrackInv
  <2>3. CASE path = <<>>
    <3>1. \A q \in AllPaths : keys[TextLength] # <<>>
      BY <2>1, PathArrives
    <3>2. AllPaths = {}
      BY <2>2, <2>3, <3>1
    <3> QED BY <2>3, <3>2
  <2>4. CASE path # <<>>
    <3>1. path \in AllPaths
      BY <2>1, <2>2, <2>4, TilesShort
    <3>2. PICK c : Accumulates(c, BosEdgeId, 0, path, Len(path)) /\ c[Len(path)] = totalCost
      BY <2>4 DEF OptInv, Traced, AddsUp
    <3>3. PathCost(path) = totalCost
      <4>1. Len(path) \in Nat
        BY <2>2
      <4> QED BY <3>2, <4>1, PathCostAccumulates
    <3> QED BY <2>2, <2>4, <3>1, <3>3
  <2> QED BY <2>3, <2>4
<1> QED BY <1>1, ChunkInvariant, OptInvariant, PTL
=============================================================================
