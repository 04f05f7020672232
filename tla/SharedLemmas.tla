---------------------------- MODULE SharedLemmas ----------------------------
(***************************************************************************)
(* Facts the components' proofs share.                                     *)
(*                                                                         *)
(* Induction over the naturals in first-order form: for a set of numbers   *)
(* instead of for a predicate, so that a proof may cite it as a fact.  It  *)
(* rests on the pigeonhole principle: if the set missed a number, adding   *)
(* one would map its elements below that number into the positive ones.    *)
(* From it, that a recursion over an interval has a solution; and, by      *)
(* counting predecessors, what the operators of Listing list.              *)
(***************************************************************************)
EXTENDS Integers, FiniteSets, FiniteSetTheorems, TLAPS, Listing

LEMMA Induction ==
  ASSUME NEW P \in SUBSET Nat, 0 \in P, \A n \in P : n + 1 \in P
  PROVE  P = Nat
<1> SUFFICES ASSUME NEW m \in Nat, m \notin P PROVE FALSE
  OBVIOUS
<1> DEFINE A == P \cap (0..m)
           succ == [n \in A |-> n + 1]
<1>1. IsFiniteSet(A)
  <2>1. IsFiniteSet(0..m)
    BY FS_Interval
  <2>2. A \in SUBSET (0..m)
    OBVIOUS
  <2> HIDE DEF A
  <2> QED BY <2>1, <2>2, FS_Subset
<1>2. 0 \in A
  OBVIOUS
<1>3. succ \in [A -> A \ {0}]
  OBVIOUS
<1>4. \A x, y \in A : succ[x] = succ[y] => x = y
  OBVIOUS
<1> HIDE DEF A, succ
<1>5. IsFiniteSet(A \ {0}) /\ Cardinality(A \ {0}) = Cardinality(A) - 1
  BY <1>1, <1>2, FS_RemoveElement
<1>6. Cardinality(A) \in Nat
  BY <1>1, FS_CardinalityType
<1>7. Cardinality(A \ {0}) < Cardinality(A)
  BY <1>5, <1>6
<1> QED BY <1>1, <1>3, <1>4, <1>5, <1>7, FS_PigeonHole

\* Every non-empty set of naturals has a least member: otherwise its lower
\* bounds would be closed under adding one.
LEMMA LeastNatural ==
  ASSUME NEW T, T \subseteq Nat, T # {}
  PROVE  \E m \in T : \A x \in T : m <= x
<1> SUFFICES ASSUME \A m \in T : \E x \in T : x < m PROVE FALSE
  OBVIOUS
<1> DEFINE Below == {n \in Nat : \A x \in T : n <= x}
<1>1. 0 \in Below
  OBVIOUS
<1>2. ASSUME NEW n \in Below PROVE n + 1 \in Below
  OBVIOUS
<1>3. Below = Nat
  BY <1>1, <1>2, Induction
<1>4. PICK m \in T : TRUE
  OBVIOUS
<1> QED BY <1>3, <1>4

\* A nonempty set of naturals up to n has a least element and a greatest one.
LEMMA Extremes ==
  ASSUME NEW n \in Nat, NEW S, S \subseteq 0..n, S # {}
  PROVE  /\ \E x \in S : \A y \in S : x =< y
         /\ \E x \in S : \A y \in S : x >= y
<1>0. S \subseteq Nat
  OBVIOUS
<1>1. \E x \in S : \A y \in S : x =< y
  BY <1>0, LeastNatural
<1>2. \E x \in S : \A y \in S : x >= y
  <2> DEFINE T == {n - x : x \in S}
  <2>1. T \subseteq Nat /\ T # {}
    <3>1. \A x \in S : n - x \in Nat
      OBVIOUS
    <3> QED BY <3>1
  <2>2. PICK m \in T : \A y \in T : m <= y
    <3> HIDE DEF T
    <3> QED BY <2>1, LeastNatural
  <2>3. PICK x \in S : m = n - x
    OBVIOUS
  <2>4. \A y \in S : n - x <= n - y
    BY <2>2, <2>3
  <2> QED BY <2>4
<1> QED BY <1>1, <1>2

\* Induction over an interval.
LEMMA IntervalInduction ==
  ASSUME NEW N \in Nat, NEW P, 0 \in P, \A n \in 1..N : n - 1 \in P => n \in P
  PROVE  \A n \in 0..N : n \in P
<1> DEFINE Q == {n \in Nat : n <= N => n \in P}
<1>1. 0 \in Q
  OBVIOUS
<1>2. ASSUME NEW n \in Q PROVE n + 1 \in Q
  <2> SUFFICES ASSUME n + 1 <= N PROVE n + 1 \in P
    OBVIOUS
  <2>1. n \in Nat /\ n \in P /\ n + 1 \in 1..N /\ (n + 1) - 1 = n
    OBVIOUS
  <2> QED BY <2>1
<1>3. Q = Nat
  <2>1. Q \in SUBSET Nat
    OBVIOUS
  <2> HIDE DEF Q
  <2> QED BY <1>1, <1>2, <2>1, Induction
<1>4. \A n \in 0..N : n \in Nat /\ n <= N
  OBVIOUS
<1> QED BY <1>3, <1>4

\* f goes from base by the steps of g.
Iterates(f, T, N, base, g) ==
  f \in [0..N -> T] /\ f[0] = base /\ \A n \in 1..N : f[n] = g[n][f[n - 1]]

\* A recursion that steps through an interval has a solution.
LEMMA IterationExists ==
  ASSUME NEW T, NEW N \in Nat, NEW base \in T, NEW g \in [1..N -> [T -> T]]
  PROVE  \E f : Iterates(f, T, N, base, g)
<1> DEFINE Upto(n, f) == f \in [0..n -> T] /\ f[0] = base /\ \A m \in 1..n : f[m] = g[m][f[m - 1]]
           P == {n \in Nat : n <= N => \E f : Upto(n, f)}
<1>1. 0 \in P
  <2>1. Upto(0, [m \in 0..0 |-> base])
    OBVIOUS
  <2> QED BY <2>1
<1>2. ASSUME NEW n \in P PROVE n + 1 \in P
  <2> SUFFICES ASSUME n + 1 <= N PROVE \E f : Upto(n + 1, f)
    OBVIOUS
  <2>1. n \in Nat /\ n + 1 \in 1..N
    OBVIOUS
  <2>2. PICK f : Upto(n, f)
    BY <2>1
  <2> DEFINE next == g[n + 1][f[n]]
             h == [m \in 0..(n + 1) |-> IF m = n + 1 THEN next ELSE f[m]]
  <2>3. next \in T
    BY <2>1, <2>2
  <2> HIDE DEF next
  <2>4. h \in [0..(n + 1) -> T] /\ h[0] = base
    BY <2>1, <2>2, <2>3
  <2>5. ASSUME NEW m \in 1..(n + 1) PROVE h[m] = g[m][h[m - 1]]
    <3>1. CASE m = n + 1
      <4>1. h[m] = next /\ h[m - 1] = f[n]
        BY <2>1, <3>1
      <4> QED BY <3>1, <4>1 DEF next
    <3>2. CASE m # n + 1
      <4>1. m \in 1..n /\ m - 1 \in 0..(n + 1) /\ m - 1 # n + 1 /\ m \in 0..(n + 1)
        BY <2>1, <3>2
      <4>2. h[m] = f[m] /\ h[m - 1] = f[m - 1]
        BY <3>2, <4>1
      <4> HIDE DEF h
      <4> QED BY <2>2, <4>1, <4>2
    <3> QED BY <3>1, <3>2
  <2> HIDE DEF h
  <2> QED BY <2>4, <2>5
<1>3. P = Nat
  <2> HIDE DEF Upto
  <2>1. P \in SUBSET Nat
    OBVIOUS
  <2> HIDE DEF P
  <2> QED BY <1>1, <1>2, <2>1, Induction
<1>4. PICK f : Upto(N, f)
  BY <1>3
<1> QED BY <1>4 DEF Iterates

-----------------------------------------------------------------------------
(* Listing *)

\* before puts the members of S in a row.
Orders(S, before) ==
  /\ \A x \in S : <<x, x>> \notin before
  /\ \A x, y \in S : x # y => <<x, y>> \in before \/ <<y, x>> \in before
  /\ \A x, y, z \in S : <<x, y>> \in before /\ <<y, z>> \in before => <<x, z>> \in before

\* Listed lists every member of a finite set once, in the order given: a
\* member's place is the number of those before it.
LEMMA ListedInOrder ==
  ASSUME NEW S, IsFiniteSet(S), NEW before, Orders(S, before)
  PROVE  LET L == Listed(S, before)
         IN  /\ Cardinality(S) \in Nat
             /\ L \in [1..Cardinality(S) -> S]
             /\ \A x \in S : \E n \in 1..Cardinality(S) : L[n] = x
             /\ \A m, n \in 1..Cardinality(S) : m < n => <<L[m], L[n]>> \in before
<1> DEFINE N == Cardinality(S)
           Below(x) == {y \in S : <<y, x>> \in before}
           rank == [x \in S |-> Cardinality(Below(x))]
           L == Listed(S, before)
<1>1. N \in Nat
  BY FS_CardinalityType
<1>2. ASSUME NEW x \in S
      PROVE  IsFiniteSet(Below(x)) /\ Cardinality(Below(x)) \in 0..(N - 1)
  <2>1. Below(x) \in SUBSET (S \ {x})
    BY DEF Orders
  <2>2. IsFiniteSet(S \ {x}) /\ Cardinality(S \ {x}) = N - 1
    BY FS_RemoveElement
  <2> HIDE DEF Below, N
  <2>3. IsFiniteSet(Below(x)) /\ Cardinality(Below(x)) <= N - 1
    BY <2>1, <2>2, FS_Subset
  <2> QED BY <1>1, <2>3, FS_CardinalityType
<1>3. ASSUME NEW x \in S, NEW y \in S, <<x, y>> \in before
      PROVE  rank[x] < rank[y]
  <2>1. Below(x) \cup {x} \in SUBSET Below(y)
    BY <1>3 DEF Orders
  <2>2. x \notin Below(x)
    BY DEF Orders
  <2> HIDE DEF Below, N
  <2>3. Cardinality(Below(x) \cup {x}) = Cardinality(Below(x)) + 1
    BY <1>2, <2>2, FS_AddElement
  <2>4. Cardinality(Below(x) \cup {x}) <= Cardinality(Below(y))
    BY <1>2, <2>1, FS_Subset
  <2> QED BY <1>1, <1>2, <2>3, <2>4
<1>4. rank \in Injection(S, 0..(N - 1))
  <2>1. rank \in [S -> 0..(N - 1)]
    <3> HIDE DEF Below, N
    <3> QED BY <1>2
  <2>2. \A x, y \in S : x # y => rank[x] # rank[y]
    <3> SUFFICES ASSUME NEW x \in S, NEW y \in S, x # y PROVE rank[x] # rank[y]
      OBVIOUS
    <3> HIDE DEF rank
    <3>1. rank[x] \in Int /\ rank[y] \in Int
      BY <1>1, <2>1
    <3>2. rank[x] < rank[y] \/ rank[y] < rank[x]
      BY <1>3 DEF Orders
    <3> QED BY <3>1, <3>2
  <2> HIDE DEF rank
  <2> QED BY <2>1, <2>2 DEF Injection, IsInjective
<1>5. rank \in Surjection(S, 0..(N - 1))
  <2>1. IsFiniteSet(0..(N - 1)) /\ Cardinality(0..(N - 1)) = N
    <3> DEFINE m == N - 1
    <3>1. 0 \in Int /\ m \in Int /\ N = IF 0 > m THEN 0 ELSE m - 0 + 1
      BY <1>1
    <3> HIDE DEF m
    <3>2. IsFiniteSet(0..m) /\ Cardinality(0..m) = IF 0 > m THEN 0 ELSE m - 0 + 1
      BY <3>1, FS_Interval
    <3> QED BY <3>1, <3>2 DEF m
  <2> HIDE DEF rank
  <2> QED BY <1>4, <2>1, FS_Injection
<1>6. ASSUME NEW n \in 1..N
      PROVE  L[n] \in S /\ rank[L[n]] = n - 1
  <2>1. n - 1 \in 0..(N - 1)
    BY <1>1
  <2>2. \E x \in S : rank[x] = n - 1
    BY <1>5, <2>1 DEF Surjection
  <2>3. L[n] = CHOOSE x \in S : Cardinality(Below(x)) = n - 1
    BY DEF Listed
  <2>4. \E x \in S : Cardinality(Below(x)) = n - 1
    BY <2>2
  <2> HIDE DEF L, Below
  <2> QED BY <2>3, <2>4
<1>7. L \in [1..N -> S]
  BY <1>6 DEF Listed
<1>8. ASSUME NEW x \in S PROVE \E n \in 1..N : L[n] = x
  <2> DEFINE n == rank[x] + 1
  <2>1. rank \in [S -> 0..(N - 1)]
    BY <1>4 DEF Injection
  <2> HIDE DEF rank
  <2>2. n \in 1..N /\ n - 1 = rank[x]
    BY <1>1, <2>1
  <2> HIDE DEF n
  <2>3. L[n] \in S /\ rank[L[n]] = rank[x]
    BY <1>6, <2>2
  <2> HIDE DEF L
  <2>4. L[n] = x
    BY <1>4, <2>3 DEF Injection, IsInjective
  <2> QED BY <2>2, <2>4
<1>9. ASSUME NEW m \in 1..N, NEW n \in 1..N, m < n PROVE <<L[m], L[n]>> \in before
  <2>1. L[m] \in S /\ L[n] \in S /\ rank[L[m]] = m - 1 /\ rank[L[n]] = n - 1
    BY <1>6
  <2> HIDE DEF L, rank
  <2>2. L[m] # L[n] /\ ~(rank[L[n]] < rank[L[m]])
    BY <1>1, <1>9, <2>1
  <2> QED BY <1>3, <2>1, <2>2 DEF Orders
<1> HIDE DEF L, N
<1> QED BY <1>1, <1>7, <1>8, <1>9 DEF L, N

\* A finite set of integers is listed from the least up.
LEMMA AscendingLists ==
  ASSUME NEW S \in SUBSET Int, IsFiniteSet(S)
  PROVE  LET L == Ascending(S)
         IN  /\ L \in Seq(S) /\ Len(L) = Cardinality(S) /\ DOMAIN L = 1..Cardinality(S)
             /\ Cardinality(S) \in Nat
             /\ \A x \in S : \E n \in DOMAIN L : L[n] = x
             /\ \A m, n \in DOMAIN L : m < n => L[m] < L[n]
<1> DEFINE before == {p \in S \X S : p[1] < p[2]}
           L == Listed(S, before)
<1>1. \A x, y \in S : <<x, y>> \in before <=> x < y
  OBVIOUS
<1> HIDE DEF before
<1>2. Orders(S, before)
  BY <1>1 DEF Orders
<1>3. /\ Cardinality(S) \in Nat
      /\ L \in [1..Cardinality(S) -> S]
      /\ \A x \in S : \E n \in 1..Cardinality(S) : L[n] = x
      /\ \A m, n \in 1..Cardinality(S) : m < n => <<L[m], L[n]>> \in before
  BY <1>2, ListedInOrder
<1> HIDE DEF L
<1>4. L \in Seq(S) /\ Len(L) = Cardinality(S) /\ DOMAIN L = 1..Cardinality(S)
  BY <1>3
<1>5. \A m, n \in DOMAIN L : m < n => L[m] < L[n]
  BY <1>1, <1>3, <1>4
<1>6. Ascending(S) = L
  BY DEF Ascending, L, before
<1> QED BY <1>3, <1>4, <1>5, <1>6

\* Pick keeps members of the sequence, those at the positions given.
LEMMA PickKeeps ==
  ASSUME NEW T, NEW s \in Seq(T), NEW P \in SUBSET (DOMAIN s)
  PROVE  /\ Pick(s, P) \in Seq(T) /\ Len(Pick(s, P)) = Cardinality(P)
         /\ Cardinality(P) \in Nat
         /\ \A n \in DOMAIN Pick(s, P) : \E i \in P : Pick(s, P)[n] = s[i]
         /\ \A i \in P : \E n \in DOMAIN Pick(s, P) : Pick(s, P)[n] = s[i]
<1> DEFINE L == Ascending(P)
           picked == [n \in DOMAIN L |-> s[L[n]]]
<1>1. Len(s) \in Nat /\ DOMAIN s = 1..Len(s) /\ \A i \in DOMAIN s : s[i] \in T
  OBVIOUS
<1>2. P \in SUBSET Int /\ IsFiniteSet(P)
  <2>1. IsFiniteSet(1..Len(s)) /\ P \in SUBSET (1..Len(s))
    BY <1>1, FS_Interval
  <2> QED BY <1>1, <2>1, FS_Subset
<1>3. /\ L \in Seq(P) /\ Len(L) = Cardinality(P) /\ DOMAIN L = 1..Cardinality(P)
      /\ Cardinality(P) \in Nat /\ \A x \in P : \E n \in DOMAIN L : L[n] = x
  BY <1>2, AscendingLists
<1> HIDE DEF L
<1>4. \A n \in DOMAIN L : L[n] \in P
  <2>1. L \in [1..Len(L) -> P]
    BY <1>3
  <2> QED BY <2>1
<1>5. picked \in Seq(T) /\ Len(picked) = Cardinality(P) /\ DOMAIN picked = DOMAIN L
  <2>1. picked \in [1..Cardinality(P) -> T]
    BY <1>1, <1>3, <1>4
  <2>2. \A f \in [1..Cardinality(P) -> T] : f \in Seq(T) /\ Len(f) = Cardinality(P)
    BY <1>3, SMTT(30)
  <2> QED BY <1>3, <2>1, <2>2
<1>6. \A n \in DOMAIN picked : \E i \in P : picked[n] = s[i]
  BY <1>4
<1>7. \A i \in P : \E n \in DOMAIN picked : picked[n] = s[i]
  BY <1>3
<1> HIDE DEF picked
<1>8. Pick(s, P) = picked
  BY DEF Pick, L, picked
<1> QED BY <1>3, <1>5, <1>6, <1>7, <1>8

\* From a sequence without repetitions it picks one.
LEMMA PickOnce ==
  ASSUME NEW T, NEW s \in Seq(T), NEW P \in SUBSET (DOMAIN s), \A i, j \in DOMAIN s : s[i] = s[j] => i = j
  PROVE  \A m, n \in DOMAIN Pick(s, P) : Pick(s, P)[m] = Pick(s, P)[n] => m = n
<1> DEFINE L == Ascending(P)
           picked == [n \in DOMAIN L |-> s[L[n]]]
<1>1. Len(s) \in Nat /\ DOMAIN s = 1..Len(s)
  OBVIOUS
<1>2. P \in SUBSET Int /\ IsFiniteSet(P)
  <2>1. IsFiniteSet(1..Len(s)) /\ P \in SUBSET (1..Len(s))
    BY <1>1, FS_Interval
  <2> QED BY <1>1, <2>1, FS_Subset
<1>3. /\ L \in Seq(P) /\ DOMAIN L = 1..Cardinality(P) /\ Cardinality(P) \in Nat
      /\ \A m, n \in DOMAIN L : m < n => L[m] < L[n]
  BY <1>2, AscendingLists
<1> HIDE DEF L
<1>4. ASSUME NEW m \in DOMAIN L, NEW n \in DOMAIN L, picked[m] = picked[n] PROVE m = n
  <2>1. L[m] \in P /\ L[n] \in P /\ L[m] \in Int /\ L[n] \in Int /\ m \in Int /\ n \in Int
    BY <1>2, <1>3
  <2>2. L[m] = L[n]
    BY <1>4, <2>1
  <2> QED BY <1>3, <2>1, <2>2
<1> HIDE DEF picked
<1>5. Pick(s, P) = picked /\ DOMAIN picked = DOMAIN L
  BY DEF Pick, L, picked
<1> QED BY <1>4, <1>5
=============================================================================
