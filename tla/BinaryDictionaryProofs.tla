----------------------- MODULE BinaryDictionaryProofs -----------------------
(***************************************************************************)
(* The binary dictionary for every table of surfaces, every query and      *)
(* every size of byte, block and payload: what the double array of a file  *)
(* answers is what the file's own list of surfaces says, and a load        *)
(* replaces every answer at once or none.                                  *)
(*                                                                         *)
(* The trie is described by two functions on the beginnings of keys, the   *)
(* cell a beginning has and the base its children lie at.  The build keeps *)
(* them for the beginnings it has reached; a lookup follows them.          *)
(***************************************************************************)
EXTENDS BinaryDictionary, SharedLemmas, SequenceTheorems

-----------------------------------------------------------------------------
(* Least and greatest numbers *)

LEMMA MaxOfFinite ==
  ASSUME NEW S \in SUBSET Int, IsFiniteSet(S), S # {}
  PROVE  Max(S) \in S /\ \A x \in S : x <= Max(S)
<1> DEFINE N == Cardinality(S)
           L == Ascending(S)
<1>1. /\ L \in Seq(S) /\ Len(L) = N /\ DOMAIN L = 1..N /\ N \in Nat
      /\ \A x \in S : \E n \in DOMAIN L : L[n] = x
      /\ \A m, n \in DOMAIN L : m < n => L[m] < L[n]
  <2> HIDE DEF L
  <2> QED BY AscendingLists DEF L
<1> HIDE DEF L, N
<1>2. N \in 1..N /\ L[N] \in S
  <2>1. PICK x \in S : TRUE
    OBVIOUS
  <2>2. PICK n \in 1..N : L[n] = x
    BY <1>1
  <2>3. N \in 1..N
    BY <1>1
  <2> QED BY <1>1, <2>3, ElementOfSeq
<1>3. ASSUME NEW x \in S PROVE L[N] >= x
  <2>1. PICK n \in 1..N : L[n] = x
    BY <1>1
  <2>2. n = N \/ n < N
    BY <1>1
  <2>3. L[N] \in Int /\ L[n] \in Int
    BY <1>1, <1>2, ElementOfSeq
  <2>4. n < N => L[n] < L[N]
    BY <1>1, <1>2
  <2> QED BY <2>1, <2>2, <2>3, <2>4
<1>4. Max(S) \in S /\ \A y \in S : Max(S) >= y
  BY <1>2, <1>3 DEF Max
<1> QED BY <1>4

LEMMA MinOfNaturals ==
  ASSUME NEW S \in SUBSET Nat, S # {}
  PROVE  Min(S) \in S /\ \A x \in S : Min(S) <= x
BY LeastNatural DEF Min

LEMMA MaxOfTwo ==
  ASSUME NEW a \in Int, NEW b \in Int
  PROVE  Max({a, b}) = IF a < b THEN b ELSE a
<1>1. IsFiniteSet({a, b})
  <2>1. IsFiniteSet({a} \cup {b})
    BY FS_Singleton, FS_AddElement
  <2> QED BY <2>1
<1>2. Max({a, b}) \in {a, b} /\ \A x \in {a, b} : x <= Max({a, b})
  BY <1>1, MaxOfFinite
<1> QED BY <1>2

\* A set of bytes is finite, and so is the set of cells its members lie at.
LEMMA BytesFinite ==
  ASSUME NEW C \in SUBSET Bytes, NEW b
  PROVE  /\ IsFiniteSet(C)
         /\ IsFiniteSet({BitXor(b, c) : c \in C})
<1> USE DoubleArrayAssumption
<1>1. IsFiniteSet(C)
  <2>1. IsFiniteSet(Bytes)
    BY FS_Interval DEF Bytes
  <2> QED BY <2>1, FS_Subset
<1> DEFINE T == {BitXor(b, c) : c \in C}
           f == [c \in C |-> BitXor(b, c)]
<1>2. f \in Surjection(C, T)
  BY DEF Surjection
<1> HIDE DEF f, T
<1>3. IsFiniteSet(T)
  BY <1>1, <1>2, FS_Surjection
<1> QED BY <1>1, <1>3 DEF T

-----------------------------------------------------------------------------
(* The order of keys *)

\* a and b agree up to n, where a ends or has the smaller byte.
FirstDifference(a, b, n) ==
  /\ n \in Nat \ {0} /\ n <= Len(a) + 1 /\ n <= Len(b)
  /\ \A m \in 1..(n - 1) : a[m] = b[m]
  /\ n <= Len(a) => a[n] < b[n]

\* IsPrefix, position by position.
LEMMA PrefixPointwise ==
  ASSUME NEW S, NEW p \in Seq(S), NEW k \in Seq(S)
  PROVE  IsPrefix(p, k) <=> Len(p) <= Len(k) /\ \A m \in 1..Len(p) : p[m] = k[m]
<1>1. Len(p) \in Nat /\ Len(k) \in Nat
  OBVIOUS
<1>2. SubSeq(p, 1, Len(p)) = p
  BY SubSeqFull
<1>3. ASSUME Len(p) <= Len(k)
      PROVE  SubSeq(k, 1, Len(p)) \in Seq(S) /\ Len(SubSeq(k, 1, Len(p))) = Len(p)
             /\ \A m \in 1..Len(p) : SubSeq(k, 1, Len(p))[m] = k[m]
  BY <1>1, <1>3
<1>4. ASSUME Len(p) <= Len(k), \A m \in 1..Len(p) : p[m] = k[m]
      PROVE  p = SubSeq(k, 1, Len(p))
  BY <1>3, <1>4, SeqEqual
<1> QED BY <1>2, <1>3, <1>4 DEF IsPrefix

LEMMA BeforeDiffers ==
  ASSUME NEW a \in Seq(Int), NEW b \in Seq(Int), Before(a, b)
  PROVE  \E n \in Nat : FirstDifference(a, b, n)
<1>1. Len(a) \in Nat /\ Len(b) \in Nat
  OBVIOUS
<1>2. CASE IsStrictPrefix(a, b)
  <2>1. Len(a) <= Len(b) /\ (\A m \in 1..Len(a) : a[m] = b[m]) /\ a # b
    BY <1>2, PrefixPointwise DEF IsStrictPrefix
  <2>2. Len(a) # Len(b)
    BY <1>1, <2>1, SeqEqual
  <2>3. FirstDifference(a, b, Len(a) + 1)
    BY <1>1, <2>1, <2>2 DEF FirstDifference
  <2> QED BY <1>1, <2>3
<1>3. ASSUME NEW n \in 1..Len(a), n <= Len(b), SubSeq(a, 1, n - 1) = SubSeq(b, 1, n - 1), a[n] < b[n]
      PROVE  FirstDifference(a, b, n)
  <2>1. \A m \in 1..(n - 1) : SubSeq(a, 1, n - 1)[m] = a[m] /\ SubSeq(b, 1, n - 1)[m] = b[m]
    BY <1>1, <1>3
  <2> QED BY <1>1, <1>3, <2>1 DEF FirstDifference
<1>4. \A n \in 1..Len(a) : n \in Nat
  BY <1>1
<1> QED BY <1>2, <1>3, <1>4 DEF Before

LEMMA DifferenceTransitive ==
  ASSUME NEW a \in Seq(Int), NEW b \in Seq(Int), NEW c \in Seq(Int),
         NEW m \in Nat, FirstDifference(a, b, m), NEW n \in Nat, FirstDifference(b, c, n)
  PROVE  \E k \in Nat : FirstDifference(a, c, k)
<1>1. /\ Len(a) \in Nat /\ Len(b) \in Nat /\ Len(c) \in Nat
      /\ \A i \in 1..Len(a) : a[i] \in Int
      /\ \A i \in 1..Len(b) : b[i] \in Int
      /\ \A i \in 1..Len(c) : c[i] \in Int
  OBVIOUS
<1>2. /\ m >= 1 /\ m <= Len(a) + 1 /\ m <= Len(b)
      /\ \A i \in 1..(m - 1) : a[i] = b[i]
      /\ m <= Len(a) => a[m] < b[m]
      /\ n >= 1 /\ n <= Len(b) + 1 /\ n <= Len(c)
      /\ \A i \in 1..(n - 1) : b[i] = c[i]
      /\ n <= Len(b) => b[n] < c[n]
  BY DEF FirstDifference
<1>3. CASE m < n
  <2>1. m \in 1..(n - 1) /\ \A i \in 1..(m - 1) : i \in 1..(n - 1)
    BY <1>2, <1>3
  <2>2. \A i \in 1..(m - 1) : a[i] = c[i]
    BY <1>2, <2>1
  <2>3. m <= Len(a) => a[m] < c[m]
    BY <1>2, <2>1
  <2>4. FirstDifference(a, c, m)
    BY <1>1, <1>2, <1>3, <2>2, <2>3, SMTT(30) DEF FirstDifference
  <2> QED BY <2>4
<1>4. CASE m = n
  <2>1. \A i \in 1..(m - 1) : a[i] = c[i]
    BY <1>2, <1>4
  <2>2. ASSUME m <= Len(a) PROVE m <= Len(b) /\ a[m] < b[m] /\ b[m] < c[m]
    BY <1>2, <1>4, <2>2
  <2>6. ASSUME m <= Len(a) PROVE a[m] \in Int /\ b[m] \in Int /\ c[m] \in Int
    BY <1>1, <1>2, <1>4, <2>2, <2>6
  <2>3. m <= Len(a) => a[m] < c[m]
    BY <2>2, <2>6
  <2>4. m \in Nat \ {0} /\ m <= Len(a) + 1 /\ m <= Len(c)
    BY <1>1, <1>2, <1>4
  <2>5. FirstDifference(a, c, m)
    BY <2>1, <2>3, <2>4 DEF FirstDifference
  <2> QED BY <2>5
<1>5. CASE n < m
  <2>1. n \in 1..(m - 1) /\ (\A i \in 1..(n - 1) : i \in 1..(m - 1)) /\ n <= Len(b) /\ n <= Len(a) + 1
    <3>1. m <= Len(b) /\ m <= Len(a) + 1 /\ n >= 1
      BY <1>2
    <3>2. n <= Len(b) /\ n <= Len(a) + 1
      BY <1>1, <1>5, <3>1
    <3> QED BY <1>5, <3>1, <3>2
  <2>2. \A i \in 1..(n - 1) : a[i] = c[i]
    <3> TAKE i \in 1..(n - 1)
    <3>1. a[i] = b[i]
      BY <1>2, <2>1
    <3>2. b[i] = c[i]
      BY <1>2
    <3> QED BY <3>1, <3>2
  <2>3. a[n] = b[n] /\ b[n] < c[n]
    BY <1>2, <2>1
  <2>4. FirstDifference(a, c, n)
    BY <1>2, <2>1, <2>2, <2>3 DEF FirstDifference
  <2> QED BY <2>4
<1> QED BY <1>3, <1>4, <1>5

\* A transitive relation between neighbours relates all positions in order.
LEMMA NeighboursSuffice ==
  ASSUME NEW N \in Nat, NEW R,
         \A h \in 1..N, g \in 1..N : g = h + 1 => <<h, g>> \in R,
         \A h \in 1..N, f \in 1..N, g \in 1..N :
           <<h, f>> \in R /\ <<f, g>> \in R => <<h, g>> \in R
  PROVE  \A h \in 1..N, g \in 1..N : h < g => <<h, g>> \in R
<1> DEFINE P == {d \in Nat : \A h \in 1..N, g \in 1..N : g = h + d + 1 => <<h, g>> \in R}
<1>1. 0 \in P
  OBVIOUS
<1>2. ASSUME NEW d \in P PROVE d + 1 \in P
  <2>1. d \in Nat /\ d + 1 \in Nat
    OBVIOUS
  <2> SUFFICES ASSUME NEW h \in 1..N, NEW g \in 1..N, g = h + (d + 1) + 1
               PROVE  <<h, g>> \in R
    BY <2>1
  <2>2. g - 1 \in 1..N /\ g - 1 = h + d + 1 /\ g = (g - 1) + 1
    BY <2>1
  <2>3. <<h, g - 1>> \in R /\ <<g - 1, g>> \in R
    BY <2>2
  <2> QED BY <2>2, <2>3
<1>3. P = Nat
  <2>1. P \in SUBSET Nat
    OBVIOUS
  <2> HIDE DEF P
  <2> QED BY <1>1, <1>2, <2>1, Induction
<1>4. ASSUME NEW h \in 1..N, NEW g \in 1..N, h < g PROVE <<h, g>> \in R
  <2>1. g - h - 1 \in Nat /\ g = h + (g - h - 1) + 1
    BY <1>4
  <2>2. (g - h - 1) \in P
    BY <1>3, <2>1
  <2> QED BY <2>1, <2>2
<1> QED BY <1>4

\* Keys that build accepts are all different.
LEMMA AscendingKeysDiffer ==
  ASSUME NEW ks \in Seq(Seq(Int)), \A i \in DOMAIN ks : i > 1 => Before(ks[i - 1], ks[i]),
         NEW i \in DOMAIN ks, NEW j \in DOMAIN ks, i # j
  PROVE  ks[i] # ks[j]
<1>1. Len(ks) \in Nat /\ DOMAIN ks = 1..Len(ks) /\ \A h \in DOMAIN ks : ks[h] \in Seq(Int)
  OBVIOUS
<1> DEFINE Differ(h, g) == \E n \in Nat : FirstDifference(ks[h], ks[g], n)
           R == {p \in (1..Len(ks)) \X (1..Len(ks)) : Differ(p[1], p[2])}
<1>2. \A h \in DOMAIN ks, g \in DOMAIN ks : g = h + 1 => Differ(h, g)
  <2> TAKE h \in DOMAIN ks, g \in DOMAIN ks
  <2> HAVE g = h + 1
  <2>1. g > 1 /\ g - 1 = h
    BY <1>1
  <2>2. Before(ks[h], ks[g])
    BY <2>1
  <2> QED BY <1>1, <2>2, BeforeDiffers
<1>3. ASSUME NEW h \in DOMAIN ks, NEW f \in DOMAIN ks, NEW g \in DOMAIN ks,
             Differ(h, f), Differ(f, g)
      PROVE  Differ(h, g)
  <2>1. ks[h] \in Seq(Int) /\ ks[f] \in Seq(Int) /\ ks[g] \in Seq(Int)
    BY <1>1
  <2> QED BY <1>3, <2>1, DifferenceTransitive, Zenon
<1>4. \A h \in 1..Len(ks), g \in 1..Len(ks) : <<h, g>> \in R <=> Differ(h, g)
  <2> HIDE DEF Differ
  <2> QED BY DEF R
<1> HIDE DEF Differ, R
<1>5. \A h \in 1..Len(ks), g \in 1..Len(ks) : h < g => <<h, g>> \in R
  <2>1. \A h \in 1..Len(ks), g \in 1..Len(ks) : g = h + 1 => <<h, g>> \in R
    BY <1>1, <1>2, <1>4, Zenon
  <2>2. \A h \in 1..Len(ks), f \in 1..Len(ks), g \in 1..Len(ks) :
          <<h, f>> \in R /\ <<f, g>> \in R => <<h, g>> \in R
    BY <1>1, <1>3, <1>4, Zenon
  <2> QED BY <1>1, <2>1, <2>2, NeighboursSuffice, Zenon
<1>6. ASSUME NEW g \in DOMAIN ks, NEW h \in DOMAIN ks, g < h PROVE ks[g] # ks[h]
  <2>1. PICK n \in Nat : FirstDifference(ks[g], ks[h], n)
    BY <1>1, <1>4, <1>5, <1>6, Zenon DEF Differ
  <2> SUFFICES ASSUME ks[g] = ks[h] PROVE FALSE
    OBVIOUS
  <2>2. n >= 1 /\ n <= Len(ks[g]) /\ ks[g][n] < ks[g][n] /\ ks[g] \in Seq(Int)
    BY <1>1, <2>1 DEF FirstDifference
  <2> DEFINE k == ks[g]
  <2> HIDE DEF k
  <2>3. k \in Seq(Int) /\ n \in 1..Len(k) /\ k[n] < k[n]
    BY <2>2 DEF k
  <2>4. k[n] \in Int
    BY <2>3, ElementOfSeq
  <2> QED BY <2>3, <2>4
<1>7. i < j \/ j < i
  BY <1>1
<1> QED BY <1>6, <1>7

-----------------------------------------------------------------------------
(* Beginnings of keys *)

\* KeysUnder and Children, of any keys.
Under(ks, p) == {i \in DOMAIN ks : IsPrefix(p, ks[i])}

Labels(ks, p) == {IF ks[i] = p THEN 0 ELSE ks[i][Len(p) + 1] : i \in Under(ks, p)}

Beginnings(ks) == {p \in Seq(Bytes) : Under(ks, p) # {}}

\* The keys build accepts, apart from their order.
Shaped(ks) ==
  /\ ks \in Seq(Seq(Bytes))
  /\ \A i \in DOMAIN ks : ks[i] # <<>> /\ \A n \in DOMAIN ks[i] : ks[i][n] # 0
  /\ \A i, j \in DOMAIN ks : i # j => ks[i] # ks[j]

LEMMA BuildableShaped ==
  ASSUME NEW ks \in Seq(Seq(Bytes)), NEW vs, Buildable(ks, vs)
  PROVE  Shaped(ks)
<1>1. ks \in Seq(Seq(Int))
  <2>1. Bytes \subseteq Int
    BY DEF Bytes
  <2>2. Seq(Bytes) \subseteq Seq(Int)
    BY <2>1, SeqMonotonic
  <2> QED BY <2>2, SeqMonotonic
<1>2. \A i \in DOMAIN ks : i > 1 => Before(ks[i - 1], ks[i])
  BY DEF Buildable
<1>3. \A i, j \in DOMAIN ks : i # j => ks[i] # ks[j]
  BY <1>1, <1>2, AscendingKeysDiffer
<1> QED BY <1>3 DEF Shaped, Buildable

\* One label more is one more step into a key.
LEMMA AppendPrefix ==
  ASSUME NEW S, NEW p \in Seq(S), NEW c \in S, NEW k \in Seq(S)
  PROVE  IsPrefix(Append(p, c), k) <=>
           IsPrefix(p, k) /\ Len(p) < Len(k) /\ k[Len(p) + 1] = c
<1> DEFINE q == Append(p, c)
<1>1. /\ Len(p) \in Nat /\ Len(k) \in Nat /\ q \in Seq(S) /\ Len(q) = Len(p) + 1
      /\ q[Len(p) + 1] = c /\ \A m \in 1..Len(p) : q[m] = p[m]
  OBVIOUS
<1> HIDE DEF q
<1>2. /\ IsPrefix(q, k) <=> Len(q) <= Len(k) /\ \A m \in 1..Len(q) : q[m] = k[m]
      /\ IsPrefix(p, k) <=> Len(p) <= Len(k) /\ \A m \in 1..Len(p) : p[m] = k[m]
  BY <1>1, PrefixPointwise
<1>3. ASSUME IsPrefix(q, k) PROVE IsPrefix(p, k) /\ Len(p) < Len(k) /\ k[Len(p) + 1] = c
  <2>1. \A m \in 1..Len(p) : m \in 1..Len(q)
    BY <1>1
  <2>2. Len(p) + 1 \in 1..Len(q)
    BY <1>1
  <2> QED BY <1>1, <1>2, <1>3, <2>1, <2>2
<1>4. ASSUME IsPrefix(p, k), Len(p) < Len(k), k[Len(p) + 1] = c PROVE IsPrefix(q, k)
  <2>1. \A m \in 1..Len(q) : m \in 1..Len(p) \/ m = Len(p) + 1
    BY <1>1
  <2>2. \A m \in 1..Len(q) : q[m] = k[m]
    BY <1>1, <1>2, <1>4, <2>1
  <2> QED BY <1>1, <1>2, <1>4, <2>2
<1> QED BY <1>3, <1>4 DEF q

\* What the labels of a node say of the keys below it.
LEMMA LabelsOfNode ==
  ASSUME NEW ks, Shaped(ks), NEW p \in Seq(Bytes)
  PROVE  /\ Labels(ks, p) \subseteq Bytes
         /\ Under(ks, p) # {} => Labels(ks, p) # {}
         /\ 0 \in Labels(ks, p) <=> \E i \in DOMAIN ks : ks[i] = p
         /\ \A c \in Bytes :
              /\ Append(p, c) \in Seq(Bytes)
              /\ Under(ks, Append(p, c)) # {} <=> c \in Labels(ks, p) \ {0}
<1> USE DoubleArrayAssumption
<1>1. /\ \A i \in DOMAIN ks : ks[i] \in Seq(Bytes) /\ Len(ks[i]) \in Nat
      /\ \A i \in DOMAIN ks : \A n \in 1..Len(ks[i]) : ks[i][n] \in Bytes \ {0}
  <2>1. \A i \in DOMAIN ks : ks[i] \in Seq(Bytes)
    BY DEF Shaped
  <2>2. \A i \in DOMAIN ks : DOMAIN ks[i] = 1..Len(ks[i]) /\ Len(ks[i]) \in Nat
    BY <2>1
  <2> QED BY <2>1, <2>2, ElementOfSeq DEF Shaped
<1>2. Len(p) \in Nat
  OBVIOUS
<1>3. ASSUME NEW i \in Under(ks, p), ks[i] # p
      PROVE  Len(p) + 1 \in 1..Len(ks[i])
  <2>1. i \in DOMAIN ks /\ Len(p) <= Len(ks[i]) /\ \A m \in 1..Len(p) : p[m] = ks[i][m]
    BY <1>1, PrefixPointwise DEF Under
  <2>2. Len(p) # Len(ks[i])
    BY <1>1, <1>3, <2>1, SeqEqual
  <2> QED BY <1>1, <1>2, <2>1, <2>2
<1>4. ASSUME NEW i \in Under(ks, p), ks[i] # p
      PROVE  ks[i][Len(p) + 1] \in Bytes \ {0}
  <2>1. i \in DOMAIN ks
    BY DEF Under
  <2> QED BY <1>1, <1>3, <1>4, <2>1
<1>5. 0 \in Bytes
  BY DEF Bytes
<1>6. Labels(ks, p) \subseteq Bytes
  BY <1>4, <1>5 DEF Labels
<1>7. Under(ks, p) # {} => Labels(ks, p) # {}
  <2>1. ASSUME NEW i \in Under(ks, p) PROVE Labels(ks, p) # {}
    <3>1. (IF ks[i] = p THEN 0 ELSE ks[i][Len(p) + 1]) \in Labels(ks, p)
      BY Zenon DEF Labels
    <3> QED BY <3>1, Zenon
  <2> QED BY <2>1, Zenon
<1>8. \A i \in DOMAIN ks : ks[i] = p => i \in Under(ks, p)
  <2> SUFFICES ASSUME NEW i \in DOMAIN ks, ks[i] = p PROVE IsPrefix(p, p)
    BY DEF Under
  <2> QED BY <1>2, PrefixPointwise
<1>9. 0 \in Labels(ks, p) <=> \E i \in DOMAIN ks : ks[i] = p
  <2>1. ASSUME 0 \in Labels(ks, p) PROVE \E i \in DOMAIN ks : ks[i] = p
    <3>1. PICK i \in Under(ks, p) : 0 = IF ks[i] = p THEN 0 ELSE ks[i][Len(p) + 1]
      BY <2>1 DEF Labels
    <3> QED BY <1>4, <3>1 DEF Under
  <2>2. ASSUME NEW i \in DOMAIN ks, ks[i] = p PROVE 0 \in Labels(ks, p)
    BY <1>8, <2>2 DEF Labels
  <2> QED BY <2>1, <2>2
<1>10. ASSUME NEW c \in Bytes
       PROVE  /\ Append(p, c) \in Seq(Bytes)
              /\ Under(ks, Append(p, c)) # {} <=> c \in Labels(ks, p) \ {0}
  <2>1. Append(p, c) \in Seq(Bytes)
    OBVIOUS
  <2>2. ASSUME NEW i \in Under(ks, Append(p, c)) PROVE c \in Labels(ks, p) \ {0}
    <3>1. i \in DOMAIN ks /\ IsPrefix(Append(p, c), ks[i])
      BY DEF Under
    <3>2. IsPrefix(p, ks[i]) /\ Len(p) < Len(ks[i]) /\ ks[i][Len(p) + 1] = c
      BY <1>1, <3>1, AppendPrefix
    <3>3. ks[i] # p
      BY <1>2, <3>2
    <3>4. i \in Under(ks, p)
      BY <3>1, <3>2 DEF Under
    <3>5. c # 0
      BY <1>4, <3>2, <3>3, <3>4
    <3> QED BY <3>2, <3>3, <3>4, <3>5 DEF Labels
  <2>3. ASSUME c \in Labels(ks, p) \ {0} PROVE Under(ks, Append(p, c)) # {}
    <3>1. PICK i \in Under(ks, p) : c = IF ks[i] = p THEN 0 ELSE ks[i][Len(p) + 1]
      BY <2>3 DEF Labels
    <3>2. ks[i] # p /\ c = ks[i][Len(p) + 1]
      BY <2>3, <3>1
    <3>3. i \in DOMAIN ks /\ IsPrefix(p, ks[i]) /\ Len(p) < Len(ks[i])
      BY <1>1, <1>2, <1>3, <3>2 DEF Under
    <3>4. IsPrefix(Append(p, c), ks[i])
      BY <1>1, <3>2, <3>3, AppendPrefix
    <3> QED BY <3>3, <3>4 DEF Under
  <2> QED BY <2>1, <2>2, <2>3
<1> QED BY <1>6, <1>7, <1>9, <1>10

\* The root is on the way to every key, and a shorter beginning is one too.
LEMMA BeginningsClosed ==
  ASSUME NEW ks, Shaped(ks)
  PROVE  /\ ks # <<>> => <<>> \in Beginnings(ks)
         /\ \A p \in Seq(Bytes), c \in Bytes :
              Append(p, c) \in Beginnings(ks) <=> p \in Beginnings(ks) /\ c \in Labels(ks, p) \ {0}
         /\ \A i \in DOMAIN ks : ks[i] \in Beginnings(ks)
<1>1. /\ ks \in Seq(Seq(Bytes)) /\ \A i \in DOMAIN ks : ks[i] \in Seq(Bytes) /\ Len(ks[i]) \in Nat
  BY DEF Shaped
<1>2. ASSUME ks # <<>> PROVE <<>> \in Beginnings(ks)
  <2>1. 1 \in DOMAIN ks
    BY <1>1, <1>2
  <2>2. <<>> \in Seq(Bytes) /\ Len(<<>>) = 0
    OBVIOUS
  <2>3. Len(<<>>) <= Len(ks[1]) /\ 1..Len(<<>>) = {}
    BY <1>1, <2>1, <2>2
  <2>4. IsPrefix(<<>>, ks[1])
    BY <1>1, <2>1, <2>2, <2>3, PrefixPointwise
  <2> QED BY <2>1, <2>2, <2>4 DEF Beginnings, Under
<1>3. ASSUME NEW p \in Seq(Bytes), NEW c \in Bytes
      PROVE  Append(p, c) \in Beginnings(ks) <=> p \in Beginnings(ks) /\ c \in Labels(ks, p) \ {0}
  <2>1. Append(p, c) \in Seq(Bytes) /\ (Under(ks, Append(p, c)) # {} <=> c \in Labels(ks, p) \ {0})
    BY LabelsOfNode
  <2>2. c \in Labels(ks, p) => Under(ks, p) # {}
    BY DEF Labels
  <2> QED BY <2>1, <2>2 DEF Beginnings
<1>4. ASSUME NEW i \in DOMAIN ks PROVE ks[i] \in Beginnings(ks)
  <2>1. IsPrefix(ks[i], ks[i])
    BY <1>1, PrefixPointwise
  <2> QED BY <1>1, <2>1 DEF Beginnings, Under
<1> QED BY <1>2, <1>3, <1>4

-----------------------------------------------------------------------------
(* Lookup in a trie that encodes the keys *)

\* The cell of a beginning: the root's, or its last byte's below its parent.
CellOf(base, q) == IF q = <<>> THEN 0 ELSE BitXor(base[Front(q)], Last(q))

\* What that cell holds: nothing but the label until the node has a base.
UnitOfNode(ks, base, q) ==
  [label |-> IF q = <<>> THEN 0 ELSE Last(q),
   payload |-> IF q \in DOMAIN base THEN base[q] ELSE 0,
   hasLeaf |-> q \in DOMAIN base /\ 0 \in Labels(ks, q)]

Units == [label : Bytes, payload : 0..PayloadMask, hasLeaf : BOOLEAN]

\* u is a trie of the keys: every beginning of a key has a base of its own,
\* its cell, and at the end of a key the value; no other cell has a label.
Encodes(u, ks, vs, base) ==
  /\ base \in [Beginnings(ks) -> 0..PayloadMask]
  /\ \A p, q \in Beginnings(ks) : base[p] = base[q] => p = q
  /\ \A q \in Beginnings(ks) :
       CellOf(base, q) \in DOMAIN u /\ u[CellOf(base, q)] = UnitOfNode(ks, base, q)
  /\ \A i \in DOMAIN ks : base[ks[i]] \in DOMAIN u /\ u[base[ks[i]]] = UnitOfValue(vs[i])
  /\ \A x \in DOMAIN u : u[x].label # 0 =>
       \E p \in Beginnings(ks) : \E c \in Labels(ks, p) \ {0} :
         x = BitXor(base[p], c) /\ u[x].label = c
  /\ DOMAIN u \subseteq Nat /\ \A x \in DOMAIN u : u[x] \in Units

\* Keys and values as build accepts them.
Paired(ks, vs) ==
  Shaped(ks) /\ ks # <<>> /\ vs \in Seq(0..PayloadMask) /\ Len(vs) = Len(ks)

LEMMA AppendCell ==
  ASSUME NEW p \in Seq(Bytes), NEW c \in Bytes, NEW base
  PROVE  /\ Append(p, c) \in Seq(Bytes) /\ Append(p, c) # <<>>
         /\ Front(Append(p, c)) = p /\ Last(Append(p, c)) = c
         /\ CellOf(base, Append(p, c)) = BitXor(base[p], c)
<1>1. /\ Append(p, c) \in Seq(Bytes) /\ Append(p, c) # <<>>
      /\ Len(Append(p, c)) = Len(p) + 1 /\ Append(p, c)[Len(p) + 1] = c /\ Len(p) \in Nat
      /\ \A n \in 1..Len(p) : Append(p, c)[n] = p[n]
  OBVIOUS
<1>2. Last(Append(p, c)) = c
  BY <1>1 DEF Last
<1>3. Front(Append(p, c)) = p
  BY <1>1 DEF Front
<1> QED BY <1>1, <1>2, <1>3 DEF CellOf

LEMMA NodesHold ==
  ASSUME NEW u, NEW ks, NEW vs, NEW base, Encodes(u, ks, vs, base), NEW q \in Beginnings(ks)
  PROVE  LET n == u[CellOf(base, q)]
         IN  /\ CellOf(base, q) \in DOMAIN u
             /\ n.label = IF q = <<>> THEN 0 ELSE Last(q)
             /\ n.payload = base[q] /\ base[q] \in 0..PayloadMask
             /\ n.hasLeaf = (0 \in Labels(ks, q))
<1>1. base \in [Beginnings(ks) -> 0..PayloadMask]
  BY DEF Encodes
<1>2. q \in DOMAIN base /\ base[q] \in 0..PayloadMask
  BY <1>1
<1>3. CellOf(base, q) \in DOMAIN u /\ u[CellOf(base, q)] = UnitOfNode(ks, base, q)
  BY DEF Encodes
<1>4. /\ UnitOfNode(ks, base, q).label = IF q = <<>> THEN 0 ELSE Last(q)
      /\ UnitOfNode(ks, base, q).payload = IF q \in DOMAIN base THEN base[q] ELSE 0
      /\ UnitOfNode(ks, base, q).hasLeaf = (q \in DOMAIN base /\ 0 \in Labels(ks, q))
  BY DEF UnitOfNode
<1>5. (q \in DOMAIN base /\ 0 \in Labels(ks, q)) = (0 \in Labels(ks, q))
  BY <1>2
<1> QED BY <1>2, <1>3, <1>4, <1>5

\* A step of a lookup goes to the node of the longer beginning, or nowhere: a
\* cell with that label under the same base would be the same node's child.
LEMMA TransitionFollows ==
  ASSUME NEW u, NEW ks, NEW vs, NEW base, Paired(ks, vs), Encodes(u, ks, vs, base),
         NEW p \in Beginnings(ks), NEW c \in Bytes
  PROVE  Transition(u, CellOf(base, p), c) =
           IF Append(p, c) \in Beginnings(ks) THEN CellOf(base, Append(p, c)) ELSE NoNode
<1> DEFINE child == BitXor(base[p], c)
<1>1. /\ u[CellOf(base, p)].payload = base[p] /\ base[p] \in 0..PayloadMask
      /\ p \in Seq(Bytes)
  BY NodesHold DEF Beginnings
<1>2. Append(p, c) \in Beginnings(ks) <=> c \in Labels(ks, p) \ {0}
  BY <1>1, BeginningsClosed DEF Paired
<1>3. /\ CellOf(base, Append(p, c)) = child
      /\ Append(p, c) # <<>> /\ Last(Append(p, c)) = c
  BY <1>1, AppendCell
<1>4. Transition(u, CellOf(base, p), c) =
        IF c # 0 /\ child \in DOMAIN u /\ u[child].label = c THEN child ELSE NoNode
  BY <1>1 DEF Transition
<1>5. CASE c \in Labels(ks, p) \ {0}
  <2> DEFINE q == Append(p, c)
  <2>1. q \in Beginnings(ks) /\ CellOf(base, q) = child /\ q # <<>> /\ Last(q) = c
    BY <1>2, <1>3, <1>5
  <2> HIDE DEF q, child
  <2>2. child \in DOMAIN u /\ u[child].label = c
    BY <2>1, NodesHold
  <2> QED BY <1>4, <1>5, <2>1, <2>2 DEF q
<1>6. ASSUME c \notin Labels(ks, p), c # 0, child \in DOMAIN u, u[child].label = c
      PROVE  FALSE
  <2>1. PICK q \in Beginnings(ks) : \E d \in Labels(ks, q) \ {0} :
               child = BitXor(base[q], d) /\ u[child].label = d
    BY <1>6 DEF Encodes
  <2>2. child = BitXor(base[q], c) /\ c \in Labels(ks, q) /\ base[q] \in 0..PayloadMask
    BY <1>6, <2>1 DEF Encodes
  <2>3. base[q] = BitXor(BitXor(base[q], c), c) /\ base[p] = BitXor(BitXor(base[p], c), c)
    BY <1>1, <2>2, DoubleArrayAssumption
  <2>4. base[q] = base[p]
    BY <2>1, <2>2, <2>3
  <2>5. q = p
    BY <2>4 DEF Encodes
  <2> QED BY <1>6, <2>1, <2>2, <2>5
<1>7. CASE c \notin Labels(ks, p) \ {0}
  <2>1. Transition(u, CellOf(base, p), c) = NoNode
    BY <1>4, <1>6, <1>7
  <2> QED BY <1>2, <1>7, <2>1
<1> QED BY <1>5, <1>7

\* value undoes setValue, also where the value carries into the leaf bit.
LEMMA ValueKept ==
  ASSUME NEW v \in 0..PayloadMask
  PROVE  ValueOf(UnitOfValue(v)) = v /\ UnitOfValue(v) \in Units /\ UnitOfValue(v) # EmptyUnit
<1> USE DoubleArrayAssumption
<1>1. 0 \in Bytes
  BY DEF Bytes
<1>2. ASSUME NEW w \in 0..PayloadMask, NEW carry \in BOOLEAN
      PROVE  \A r : r = [label |-> 0, payload |-> w, hasLeaf |-> carry] =>
               /\ r \in Units /\ (w # 0 => r # EmptyUnit) /\ (carry => r # EmptyUnit)
               /\ carry => ValueOf(r) = w + PayloadMask
               /\ ~carry => ValueOf(r) = w - 1
  <2> DEFINE r == [label |-> 0, payload |-> w, hasLeaf |-> carry]
  <2>1. r \in Units
    BY <1>1 DEF Units
  <2>2. r.payload = w /\ r.hasLeaf = carry
    OBVIOUS
  <2>3. EmptyUnit.payload = 0 /\ EmptyUnit.hasLeaf = FALSE
    BY DEF EmptyUnit
  <2> HIDE DEF r
  <2>4. (w # 0 => r # EmptyUnit) /\ (carry => r # EmptyUnit)
    BY <2>2, <2>3
  <2>5. (carry => ValueOf(r) = w + PayloadMask) /\ (~carry => ValueOf(r) = w - 1)
    <3>1. ValueOf(r) = r.payload + (IF r.hasLeaf THEN PayloadMask + 1 ELSE 0) - 1
      BY DEF ValueOf
    <3>2. CASE carry
      BY <2>2, <3>1, <3>2
    <3>3. CASE ~carry
      BY <2>2, <3>1, <3>3
    <3> QED BY <3>2, <3>3
  <2>6. r = [label |-> 0, payload |-> w, hasLeaf |-> carry]
    BY DEF r
  <2> QED BY <2>1, <2>4, <2>5, <2>6, Zenon
<1>3. CASE v < PayloadMask
  <2>1. (v + 1) % (PayloadMask + 1) = v + 1 /\ (v + 1 > PayloadMask) = FALSE
    BY <1>3
  <2>2. UnitOfValue(v) = [label |-> 0, payload |-> v + 1, hasLeaf |-> FALSE]
    BY <2>1 DEF UnitOfValue
  <2> DEFINE w == v + 1
  <2>3. w \in 0..PayloadMask /\ w # 0 /\ w - 1 = v /\ FALSE \in BOOLEAN /\ ~FALSE
    BY <1>3
  <2>4. UnitOfValue(v) = [label |-> 0, payload |-> w, hasLeaf |-> FALSE]
    BY <2>2
  <2> HIDE DEF w
  <2>5. /\ UnitOfValue(v) \in Units /\ UnitOfValue(v) # EmptyUnit
        /\ ValueOf(UnitOfValue(v)) = w - 1
    BY <1>2, <2>3, <2>4, Zenon
  <2> QED BY <2>3, <2>5
<1>4. CASE v = PayloadMask
  <2>1. (v + 1) % (PayloadMask + 1) = 0 /\ (v + 1 > PayloadMask) = TRUE
    BY <1>4
  <2>2. UnitOfValue(v) = [label |-> 0, payload |-> 0, hasLeaf |-> TRUE]
    BY <2>1 DEF UnitOfValue
  <2>3. 0 \in 0..PayloadMask /\ 0 + PayloadMask = v
    BY <1>4
  <2>4. /\ UnitOfValue(v) \in Units /\ UnitOfValue(v) # EmptyUnit
        /\ ValueOf(UnitOfValue(v)) = 0 + PayloadMask
    BY <1>2, <2>2, <2>3, Zenon
  <2> QED BY <2>3, <2>4
<1> QED BY <1>3, <1>4

\* The leaf of a beginning that is a key has the key's value, another none.
LEMMA LeafOfNode ==
  ASSUME NEW u, NEW ks, NEW vs, NEW base, Paired(ks, vs), Encodes(u, ks, vs, base),
         NEW p \in Beginnings(ks)
  PROVE  /\ \A i \in DOMAIN ks : ks[i] = p => Leaf(u, CellOf(base, p)) = vs[i]
         /\ (\A i \in DOMAIN ks : ks[i] # p) => Leaf(u, CellOf(base, p)) = Absent
<1>1. p \in Seq(Bytes)
  BY DEF Beginnings
<1>2. /\ u[CellOf(base, p)].payload = base[p]
      /\ u[CellOf(base, p)].hasLeaf = (0 \in Labels(ks, p))
  BY NodesHold
<1>3. 0 \in Labels(ks, p) <=> \E i \in DOMAIN ks : ks[i] = p
  BY <1>1, LabelsOfNode DEF Paired
<1>4. ASSUME NEW i \in DOMAIN ks, ks[i] = p PROVE Leaf(u, CellOf(base, p)) = vs[i]
  <2>1. base[p] \in DOMAIN u /\ u[base[p]] = UnitOfValue(vs[i])
    BY <1>4 DEF Encodes
  <2>2. vs[i] \in 0..PayloadMask
    <3>1. DOMAIN ks = 1..Len(ks) /\ ks \in Seq(Seq(Bytes))
      BY DEF Paired, Shaped
    <3>2. i \in 1..Len(vs) /\ vs \in Seq(0..PayloadMask)
      BY <3>1 DEF Paired
    <3> QED BY <3>2, ElementOfSeq
  <2>3. ValueOf(u[base[p]]) = vs[i]
    BY <2>1, <2>2, ValueKept
  <2> QED BY <1>2, <1>3, <1>4, <2>1, <2>3 DEF Leaf
<1>5. ASSUME \A i \in DOMAIN ks : ks[i] # p PROVE Leaf(u, CellOf(base, p)) = Absent
  BY <1>2, <1>3, <1>5 DEF Leaf
<1> QED BY <1>4, <1>5

\* The walk over a text goes on from each node by a transition.
LEMMA WalkSteps ==
  ASSUME NEW u, 0 \in DOMAIN u, NEW text \in Seq(Bytes)
  PROVE  /\ Walk(u, text)[0] = 0
         /\ \A n \in 1..Len(text) :
              Walk(u, text)[n] = IF Walk(u, text)[n - 1] = NoNode THEN NoNode
                                 ELSE Transition(u, Walk(u, text)[n - 1], text[n])
<1> DEFINE N == Len(text)
           T == DOMAIN u \cup {NoNode}
           Step(n, from) == IF from = NoNode THEN NoNode ELSE Transition(u, from, text[n])
           g == [n \in 1..N |-> [from \in T |-> Step(n, from)]]
           Solves(f) == f = [n \in 0..N |-> IF n = 0 THEN 0 ELSE Step(n, f[n - 1])]
           node == CHOOSE f : Solves(f)
<1>1. N \in Nat /\ 0 \in T
  OBVIOUS
<1>2. \A n \in 1..N, from \in T : Step(n, from) \in T
  BY DEF Transition
<1>3. Walk(u, text) = [n \in 0..N |-> node[n]]
  BY DEF Walk
<1> HIDE DEF N, T, Step
<1>4. g \in [1..N -> [T -> T]]
  BY <1>2
<1>5. \A n \in 1..N, from \in T : g[n][from] = Step(n, from)
  OBVIOUS
<1> HIDE DEF g
<1>6. PICK f : f \in [0..N -> T] /\ f[0] = 0 /\ \A n \in 1..N : f[n] = g[n][f[n - 1]]
  <2>1. \E f : Iterates(f, T, N, 0, g)
    BY <1>1, <1>4, IterationExists
  <2> QED BY <2>1 DEF Iterates
<1>7. Solves(f)
  <2>1. ASSUME NEW n \in 0..N PROVE f[n] = IF n = 0 THEN 0 ELSE Step(n, f[n - 1])
    <3>1. CASE n = 0
      BY <1>6, <3>1
    <3>2. CASE n # 0
      <4>1. n \in 1..N /\ n - 1 \in 0..N
        BY <1>1, <3>2
      <4>2. f[n - 1] \in T
        BY <1>6, <4>1
      <4> QED BY <1>5, <1>6, <3>2, <4>1, <4>2
    <3> QED BY <3>1, <3>2
  <2>2. f = [n \in 0..N |-> f[n]]
    BY <1>6
  <2> QED BY <2>1, <2>2
<1>8. Solves(node)
  <2> HIDE DEF Solves
  <2> QED BY <1>7
<1> HIDE DEF node
<1>9. \A n \in 0..N : node[n] = IF n = 0 THEN 0 ELSE Step(n, node[n - 1])
  BY <1>8
<1>10. \A n \in 0..N : Walk(u, text)[n] = node[n]
  BY <1>3
<1>11. 0 \in 0..N /\ \A n \in 1..N : n \in 0..N /\ n - 1 \in 0..N /\ n # 0
  BY <1>1
<1>12. \A n \in 1..N : Walk(u, text)[n] = Step(n, Walk(u, text)[n - 1])
  BY <1>9, <1>10, <1>11
<1> QED BY <1>9, <1>10, <1>11, <1>12 DEF N, Step

\* It follows the beginnings of the keys and ends where no key goes on.
LEMMA WalkFollows ==
  ASSUME NEW u, NEW ks, NEW vs, NEW base, Paired(ks, vs), Encodes(u, ks, vs, base),
         NEW text \in Seq(Bytes), NEW n \in 0..Len(text)
  PROVE  /\ SubSeq(text, 1, n) \in Seq(Bytes)
         /\ Walk(u, text)[n] = IF SubSeq(text, 1, n) \in Beginnings(ks)
                               THEN CellOf(base, SubSeq(text, 1, n)) ELSE NoNode
<1> DEFINE N == Len(text)
           To(m) == SubSeq(text, 1, m)
           W == Walk(u, text)
           S == {m \in Nat : m <= N => W[m] = IF To(m) \in Beginnings(ks)
                                              THEN CellOf(base, To(m)) ELSE NoNode}
<1>1. N \in Nat /\ \A m \in 0..N : To(m) \in Seq(Bytes)
  OBVIOUS
<1>2. <<>> \in Beginnings(ks) /\ CellOf(base, <<>>) = 0
  BY BeginningsClosed DEF Paired, CellOf
<1>3. 0 \in DOMAIN u
  BY <1>2, NodesHold
<1>4. /\ W[0] = 0
      /\ \A m \in 1..N : W[m] = IF W[m - 1] = NoNode THEN NoNode
                                ELSE Transition(u, W[m - 1], text[m])
  BY <1>3, WalkSteps
<1>5. To(0) = <<>>
  OBVIOUS
<1>6. \A p \in Beginnings(ks) : CellOf(base, p) # NoNode
  <2> TAKE p \in Beginnings(ks)
  <2>1. CellOf(base, p) \in Nat
    BY NodesHold DEF Encodes
  <2> QED BY <2>1 DEF NoNode
<1> HIDE DEF W
<1>7. 0 \in S
  BY <1>2, <1>4, <1>5
<1>8. ASSUME NEW m \in S PROVE m + 1 \in S
  <2> SUFFICES ASSUME m + 1 <= N
               PROVE  W[m + 1] = IF To(m + 1) \in Beginnings(ks)
                                 THEN CellOf(base, To(m + 1)) ELSE NoNode
    OBVIOUS
  <2>1. m \in Nat /\ m + 1 \in 1..N /\ (m + 1) - 1 = m /\ m \in 0..N /\ m <= N
    BY <1>1
  <2>2. W[m] = IF To(m) \in Beginnings(ks) THEN CellOf(base, To(m)) ELSE NoNode
    BY <2>1
  <2> DEFINE c == text[m + 1]
             p == To(m)
  <2>3. c \in Bytes
    BY <2>1, ElementOfSeq
  <2>4. To(m + 1) = Append(p, c) /\ p \in Seq(Bytes)
    <3>1. p \in Seq(Bytes)
      BY <1>1, <2>1
    <3>2. To(m + 1) = Append(p, c)
      BY <2>1, SubSeqRecursiveSecond
    <3> QED BY <3>1, <3>2
  <2>5. W[m + 1] = IF W[m] = NoNode THEN NoNode ELSE Transition(u, W[m], c)
    BY <1>4, <2>1
  <2> HIDE DEF c, p, To
  <2>6. CASE To(m) \in Beginnings(ks)
    <3>1. p \in Beginnings(ks)
      BY <2>6 DEF p
    <3>2. Transition(u, CellOf(base, p), c) =
            IF Append(p, c) \in Beginnings(ks) THEN CellOf(base, Append(p, c)) ELSE NoNode
      BY <2>3, <3>1, TransitionFollows
    <3>3. W[m] = CellOf(base, p) /\ W[m] # NoNode
      BY <1>6, <2>2, <2>6 DEF p
    <3> QED BY <2>4, <2>5, <3>2, <3>3
  <2>7. CASE To(m) \notin Beginnings(ks)
    <3>1. Append(p, c) \notin Beginnings(ks)
      BY <2>3, <2>4, <2>7, BeginningsClosed DEF Paired, p
    <3> QED BY <2>2, <2>4, <2>5, <2>7, <3>1
  <2> QED BY <2>6, <2>7
<1>9. S = Nat
  <2>1. S \in SUBSET Nat
    OBVIOUS
  <2> HIDE DEF S
  <2> QED BY <1>7, <1>8, <2>1, Induction
<1>10. n \in Nat /\ n <= N
  BY <1>1
<1>11. n \in S
  BY <1>9, <1>10
<1> QED BY <1>1, <1>10, <1>11 DEF W

\* The value of the beginning of a text at its node: the key's, or none.
LEMMA ValueAtNode ==
  ASSUME NEW u, NEW ks, NEW vs, NEW base, Paired(ks, vs), Encodes(u, ks, vs, base),
         NEW text \in Seq(Bytes), NEW n \in 0..Len(text)
  PROVE  LET q == SubSeq(text, 1, n)
             node == Walk(u, text)[n]
             found == IF node = NoNode THEN Absent ELSE Leaf(u, node)
         IN  /\ \A i \in DOMAIN ks : ks[i] = q => found = vs[i]
             /\ (\A i \in DOMAIN ks : ks[i] # q) => found = Absent
             /\ \A i \in DOMAIN ks : vs[i] \in 0..PayloadMask
             /\ u # EmptyTrie
<1> DEFINE q == SubSeq(text, 1, n)
           node == Walk(u, text)[n]
           found == IF node = NoNode THEN Absent ELSE Leaf(u, node)
<1>1. q \in Seq(Bytes) /\ node = IF q \in Beginnings(ks) THEN CellOf(base, q) ELSE NoNode
  BY WalkFollows
<1> HIDE DEF q, node
<1>2. \A i \in DOMAIN ks : ks[i] \in Beginnings(ks)
  BY BeginningsClosed DEF Paired
<1>3. ASSUME q \in Beginnings(ks) PROVE node = CellOf(base, q) /\ node # NoNode
  <2>1. CellOf(base, q) \in Nat
    BY <1>3, NodesHold DEF Encodes
  <2> QED BY <1>1, <1>3, <2>1 DEF NoNode
<1>4. \A i \in DOMAIN ks : ks[i] = q => found = vs[i]
  <2> TAKE i \in DOMAIN ks
  <2> HAVE ks[i] = q
  <2>1. q \in Beginnings(ks)
    BY <1>2
  <2> QED BY <1>3, <2>1, LeafOfNode
<1>5. ASSUME \A i \in DOMAIN ks : ks[i] # q PROVE found = Absent
  <2>1. CASE q \in Beginnings(ks)
    BY <1>3, <1>5, <2>1, LeafOfNode
  <2>2. CASE q \notin Beginnings(ks)
    BY <1>1, <2>2
  <2> QED BY <2>1, <2>2
<1>6. \A i \in DOMAIN ks : vs[i] \in 0..PayloadMask
  <2> TAKE i \in DOMAIN ks
  <2>1. DOMAIN ks = 1..Len(ks)
    BY DEF Paired, Shaped
  <2>2. i \in 1..Len(vs) /\ vs \in Seq(0..PayloadMask)
    BY <2>1 DEF Paired
  <2> QED BY <2>2, ElementOfSeq
<1>7. u # EmptyTrie
  <2>1. <<>> \in Beginnings(ks) /\ CellOf(base, <<>>) = 0
    BY BeginningsClosed DEF Paired, CellOf
  <2>2. 0 \in DOMAIN u
    BY <2>1, NodesHold
  <2>3. DOMAIN EmptyTrie = 1..0
    BY DEF EmptyTrie
  <2> QED BY <2>2, <2>3
<1> QED BY <1>4, <1>5, <1>6, <1>7 DEF q, node

\* exactMatch answers with the value of the key, or with none.
LEMMA ExactMatchFinds ==
  ASSUME NEW u, NEW ks, NEW vs, NEW base, Paired(ks, vs), Encodes(u, ks, vs, base),
         NEW q \in Seq(Bytes)
  PROVE  /\ \A i \in DOMAIN ks : ks[i] = q => ExactMatch(u, q) = vs[i]
         /\ (\A i \in DOMAIN ks : ks[i] # q) => ExactMatch(u, q) = Absent
<1>1. Len(q) \in 0..Len(q) /\ SubSeq(q, 1, Len(q)) = q
  BY SubSeqFull
<1> DEFINE node == Walk(u, q)[Len(q)]
           found == IF node = NoNode THEN Absent ELSE Leaf(u, node)
<1>2. /\ \A i \in DOMAIN ks : ks[i] = q => found = vs[i]
      /\ (\A i \in DOMAIN ks : ks[i] # q) => found = Absent
      /\ u # EmptyTrie
  BY <1>1, ValueAtNode
<1>3. ExactMatch(u, q) = found
  BY <1>2 DEF ExactMatch
<1> HIDE DEF found
<1> QED BY <1>2, <1>3

\* commonPrefixSearch answers with the keys that begin the text, all of them.
LEMMA PrefixSearchFinds ==
  ASSUME NEW u, NEW ks, NEW vs, NEW base, Paired(ks, vs), Encodes(u, ks, vs, base),
         NEW text \in Seq(Bytes)
  PROVE  LET R == CommonPrefixSearch(u, text)
         IN  /\ \A k \in DOMAIN R : \E i \in DOMAIN ks :
                  /\ R[k].length \in 1..Len(text) /\ SubSeq(text, 1, R[k].length) = ks[i]
                  /\ R[k].value = vs[i]
             /\ \A n \in 1..Len(text), i \in DOMAIN ks :
                  SubSeq(text, 1, n) = ks[i] =>
                    \E k \in DOMAIN R : R[k].length = n /\ R[k].value = vs[i]
<1> DEFINE N == Len(text)
           To(n) == SubSeq(text, 1, n)
           W == Walk(u, text)
           hits == {n \in 0..N : W[n] # NoNode /\ Leaf(u, W[n]) # Absent}
           found == Ascending(hits)
           R == CommonPrefixSearch(u, text)
<1>1. N \in Nat
  OBVIOUS
<1>2. ASSUME NEW n \in 0..N, NEW i \in DOMAIN ks, ks[i] = To(n)
      PROVE  W[n] # NoNode /\ Leaf(u, W[n]) = vs[i] /\ vs[i] # Absent
  <2>1. /\ (IF W[n] = NoNode THEN Absent ELSE Leaf(u, W[n])) = vs[i]
        /\ vs[i] \in 0..PayloadMask
    BY <1>2, ValueAtNode
  <2>2. vs[i] # Absent
    BY <2>1 DEF Absent
  <2> HIDE DEF W
  <2> QED BY <2>1, <2>2
<1>3. ASSUME NEW n \in 0..N, W[n] # NoNode, Leaf(u, W[n]) # Absent
      PROVE  \E i \in DOMAIN ks : ks[i] = To(n)
  <2>1. (\A i \in DOMAIN ks : ks[i] # To(n)) =>
          (IF W[n] = NoNode THEN Absent ELSE Leaf(u, W[n])) = Absent
    BY ValueAtNode
  <2> HIDE DEF W, To
  <2> QED BY <1>3, <2>1
<1>4. u # EmptyTrie
  <2>1. 0 \in 0..Len(text)
    BY <1>1
  <2> QED BY <2>1, ValueAtNode
<1>5. /\ found \in Seq(hits)
      /\ \A n \in hits : \E k \in DOMAIN found : found[k] = n
  <2>1. hits \in SUBSET Int /\ IsFiniteSet(hits)
    <3>1. IsFiniteSet(0..N) /\ hits \in SUBSET (0..N)
      BY <1>1, FS_Interval
    <3> HIDE DEF hits
    <3>2. IsFiniteSet(hits)
      BY <3>1, FS_Subset
    <3> QED BY <1>1, <3>1, <3>2
  <2> HIDE DEF hits
  <2> QED BY <2>1, AscendingLists
<1>6. ASSUME text # <<>>
      PROVE  R = [k \in DOMAIN found |-> [value |-> Leaf(u, W[found[k]]), length |-> found[k]]]
  BY <1>4, <1>6 DEF CommonPrefixSearch
<1>7. text = <<>> => R = <<>> /\ N = 0
  BY DEF CommonPrefixSearch
<1>8. \A k \in DOMAIN found : found[k] \in hits
  <2> HIDE DEF hits, found
  <2> QED BY <1>5, ElementOfSeq
<1>9. \A i \in DOMAIN ks : ks[i] # To(0)
  <2>1. To(0) = <<>>
    OBVIOUS
  <2> QED BY <2>1 DEF Paired, Shaped
<1>10. hits \subseteq 1..N /\ \A n \in hits : \E i \in DOMAIN ks : ks[i] = To(n) /\ Leaf(u, W[n]) = vs[i]
  <2> SUFFICES ASSUME NEW n \in hits
               PROVE  n \in 1..N /\ \E i \in DOMAIN ks : ks[i] = To(n) /\ Leaf(u, W[n]) = vs[i]
    OBVIOUS
  <2>1. n \in 0..N /\ W[n] # NoNode /\ Leaf(u, W[n]) # Absent
    OBVIOUS
  <2> HIDE DEF W, To, hits
  <2>2. PICK i \in DOMAIN ks : ks[i] = To(n)
    BY <1>3, <2>1
  <2>3. n # 0
    BY <1>9, <2>2
  <2> QED BY <1>1, <1>2, <2>1, <2>2, <2>3
<1>11. ASSUME NEW k \in DOMAIN R
       PROVE  \E i \in DOMAIN ks :
                /\ R[k].length \in 1..N /\ To(R[k].length) = ks[i] /\ R[k].value = vs[i]
  <2>1. text # <<>>
    <3>1. DOMAIN <<>> = {}
      OBVIOUS
    <3> HIDE DEF R
    <3> QED BY <1>7, <3>1
  <2>2. k \in DOMAIN found /\ R[k].length = found[k] /\ R[k].value = Leaf(u, W[found[k]])
    <3> HIDE DEF found, W, R
    <3> QED BY <1>6, <2>1
  <2>3. found[k] \in hits
    BY <1>8, <2>2
  <2> HIDE DEF found, W, R, hits, To
  <2> QED BY <1>10, <2>2, <2>3
<1>12. ASSUME NEW n \in 1..N, NEW i \in DOMAIN ks, To(n) = ks[i]
       PROVE  \E k \in DOMAIN R : R[k].length = n /\ R[k].value = vs[i]
  <2>1. text # <<>>
    BY <1>1, <1>7
  <2>2. n \in 0..N /\ W[n] # NoNode /\ Leaf(u, W[n]) = vs[i] /\ vs[i] # Absent
    <3>1. n \in 0..N
      BY <1>1
    <3> HIDE DEF W, To
    <3> QED BY <1>2, <1>12, <3>1
  <2>3. n \in hits
    BY <2>2
  <2> HIDE DEF found, W, R, hits, To
  <2>4. PICK k \in DOMAIN found : found[k] = n
    BY <1>5, <2>3
  <2>5. k \in DOMAIN R /\ R[k].length = n /\ R[k].value = Leaf(u, W[n])
    BY <1>6, <2>1, <2>4
  <2> QED BY <2>2, <2>5
<1> HIDE DEF R
<1> QED BY <1>11, <1>12 DEF R

-----------------------------------------------------------------------------
(* Tables of surfaces *)

\* The keys load makes of a table: a surface for each run.
KeysOf(table) ==
  LET starts == RunStarts(table) IN [k \in DOMAIN starts |-> table[starts[k] + 1]]

\* Every entry belongs to the run of one key, which begins at or before it.
LEMMA RunFacts ==
  ASSUME NEW table \in Seq(Seq(Bytes)), table # <<>>
  PROVE  LET ks == KeysOf(table)
             starts == RunStarts(table)
         IN  /\ starts \in Seq(Nat) /\ ks \in Seq(Seq(Bytes))
             /\ Len(ks) = Len(starts) /\ DOMAIN ks = DOMAIN starts /\ ks # <<>>
             /\ \A k \in DOMAIN ks :
                  starts[k] \in Nat /\ starts[k] + 1 \in DOMAIN table /\ ks[k] = table[starts[k] + 1]
             /\ \A j \in DOMAIN table : \E k \in DOMAIN ks :
                  /\ ks[k] = table[j]
                  /\ starts[k] + 1 <= j /\ \A m \in (starts[k] + 1)..j : table[m] = table[j]
<1> DEFINE N == Len(table)
           F == FirstOfRun(table)
           first == Ascending(F)
           starts == RunStarts(table)
           ks == KeysOf(table)
<1>1. N \in Nat \ {0} /\ DOMAIN table = 1..N /\ \A j \in 1..N : table[j] \in Seq(Bytes)
  OBVIOUS
<1>2. F \subseteq 1..N /\ \A j \in 1..N : j \in F <=> j = 1 \/ table[j] # table[j - 1]
  BY <1>1 DEF FirstOfRun
<1> HIDE DEF F, N
<1>3. F \in SUBSET Int /\ IsFiniteSet(F)
  <2>1. IsFiniteSet(1..N) /\ 1..N \subseteq Int
    BY <1>1, FS_Interval
  <2> QED BY <1>2, <2>1, FS_Subset
<1>4. /\ first \in Seq(F) /\ Len(first) = Cardinality(F) /\ DOMAIN first = 1..Cardinality(F)
      /\ Cardinality(F) \in Nat
      /\ \A x \in F : \E n \in DOMAIN first : first[n] = x
  BY <1>3, AscendingLists
<1>5. starts = [k \in DOMAIN first |-> first[k] - 1]
  BY DEF RunStarts, F
<1>6. ks = [k \in DOMAIN starts |-> table[starts[k] + 1]]
  BY DEF KeysOf
<1> HIDE DEF first, starts, ks
<1>7. \A k \in DOMAIN first : first[k] \in F
  BY <1>4, ElementOfSeq
<1>8. ASSUME NEW k \in DOMAIN first
      PROVE  /\ starts[k] \in Nat /\ starts[k] + 1 = first[k] /\ first[k] \in 1..N
             /\ ks[k] = table[first[k]] /\ ks[k] \in Seq(Bytes)
  <2>1. first[k] \in 1..N
    BY <1>2, <1>7
  <2>2. starts[k] = first[k] - 1
    BY <1>5
  <2>3. starts[k] + 1 = first[k] /\ starts[k] \in Nat
    BY <1>1, <2>1, <2>2
  <2>4. k \in DOMAIN starts
    BY <1>5
  <2> QED BY <1>1, <1>6, <2>1, <2>3, <2>4
<1>9. DOMAIN starts = DOMAIN first /\ DOMAIN ks = DOMAIN first
  BY <1>5, <1>6
<1>10. starts \in Seq(Nat) /\ ks \in Seq(Seq(Bytes)) /\ Len(ks) = Len(starts)
  <2> DEFINE n == Cardinality(F)
             B == Seq(Bytes)
  <2>1. n \in Nat /\ starts \in [1..n -> Nat] /\ ks \in [1..n -> B]
    BY <1>4, <1>5, <1>6, <1>8
  <2> HIDE DEF n, B
  <2>2. starts \in Seq(Nat) /\ Len(starts) = n
    BY <2>1
  <2>3. ks \in Seq(B) /\ Len(ks) = n
    BY <2>1
  <2> QED BY <2>2, <2>3 DEF B
<1> DEFINE Run(j) == \E k \in DOMAIN first :
                       first[k] <= j /\ \A m \in first[k]..j : table[m] = table[j]
           P == {j \in Nat : j + 1 <= N => Run(j + 1)}
<1>11. ASSUME NEW j \in F PROVE Run(j)
  <2>1. PICK k \in DOMAIN first : first[k] = j
    BY <1>4
  <2>2. j \in Int
    BY <1>3
  <2> QED BY <2>1, <2>2
<1>12. 0 \in P
  <2>1. 1 \in F
    BY <1>1, <1>2
  <2>2. Run(1)
    BY <1>11, <2>1
  <2> HIDE DEF Run
  <2> QED BY <2>2
<1>13. ASSUME NEW i \in P PROVE i + 1 \in P
  <2> DEFINE j == i + 1
  <2>1. i \in Nat /\ i + 1 = j /\ j \in Nat /\ j \in Int /\ (j <= N => Run(j))
    OBVIOUS
  <2> SUFFICES ASSUME j + 1 <= N PROVE Run(j + 1)
    BY <2>1
  <2>2. j \in 1..N /\ j + 1 \in 1..N /\ (j + 1) - 1 = j /\ j + 1 # 1
    BY <1>1, <2>1
  <2> HIDE DEF j
  <2>3. CASE j + 1 \in F
    <3> HIDE DEF Run
    <3> QED BY <1>11, <2>3
  <2>4. CASE j + 1 \notin F
    <3>1. table[j + 1] = table[j]
      BY <1>2, <2>2, <2>4
    <3>2. PICK k \in DOMAIN first : first[k] <= j /\ \A m \in first[k]..j : table[m] = table[j]
      BY <2>1, <2>2
    <3>3. first[k] \in Int
      BY <1>8
    <3>4. \A m \in first[k]..(j + 1) : m \in first[k]..j \/ m = j + 1
      BY <2>1, <3>3
    <3>5. \A m \in first[k]..(j + 1) : table[m] = table[j + 1]
      BY <3>1, <3>2, <3>4
    <3>6. first[k] <= j + 1
      BY <2>1, <3>2, <3>3
    <3> QED BY <3>5, <3>6
  <2> QED BY <2>3, <2>4
<1>14. P = Nat
  <2> HIDE DEF Run
  <2>1. P \in SUBSET Nat
    OBVIOUS
  <2> HIDE DEF P
  <2> QED BY <1>12, <1>13, <2>1, Induction
<1>15. ASSUME NEW j \in 1..N PROVE Run(j)
  <2>1. j - 1 \in Nat /\ (j - 1) + 1 = j /\ j <= N
    BY <1>1
  <2> DEFINE i == j - 1
  <2> HIDE DEF Run, i
  <2>2. i \in P /\ i + 1 = j
    BY <1>14, <2>1 DEF i
  <2> QED BY <2>1, <2>2
<1>16. ks # <<>>
  <2>1. Run(1) /\ DOMAIN <<>> = {}
    BY <1>1, <1>15
  <2> QED BY <1>9, <2>1
<1>17. \A j \in DOMAIN table : \E k \in DOMAIN ks :
         /\ ks[k] = table[j]
         /\ starts[k] + 1 <= j /\ \A m \in (starts[k] + 1)..j : table[m] = table[j]
  <2> TAKE j \in DOMAIN table
  <2>1. PICK k \in DOMAIN first : first[k] <= j /\ \A m \in first[k]..j : table[m] = table[j]
    BY <1>1, <1>15
  <2>2. k \in DOMAIN ks /\ starts[k] + 1 = first[k] /\ ks[k] = table[first[k]] /\ first[k] \in Int
    BY <1>8, <1>9
  <2>3. first[k] \in first[k]..j
    BY <1>1, <2>1, <2>2
  <2> QED BY <2>1, <2>2, <2>3
<1>18. \A k \in DOMAIN ks : starts[k] \in Nat /\ starts[k] + 1 \in DOMAIN table /\ ks[k] = table[starts[k] + 1]
  BY <1>1, <1>8, <1>9
<1> QED BY <1>9, <1>10, <1>16, <1>17, <1>18 DEF starts, ks

\* What build accepts of a table is keys and values as the lookups need them.
LEMMA TablePaired ==
  ASSUME NEW table \in Seq(Seq(Bytes)), table # <<>>,
         Buildable(KeysOf(table), RunStarts(table))
  PROVE  Paired(KeysOf(table), RunStarts(table))
<1> DEFINE ks == KeysOf(table)
           vs == RunStarts(table)
<1>1. vs \in Seq(Nat) /\ ks \in Seq(Seq(Bytes)) /\ Len(ks) = Len(vs) /\ ks # <<>>
  BY RunFacts
<1>2. Buildable(ks, vs)
  OBVIOUS
<1> HIDE DEF ks, vs
<1>3. Shaped(ks)
  BY <1>1, <1>2, BuildableShaped
<1>4. vs \in Seq(0..PayloadMask)
  <2>1. \A i \in 1..Len(vs) : vs[i] \in Nat /\ vs[i] <= PayloadMask
    <3>1. DOMAIN vs = 1..Len(vs) /\ \A i \in 1..Len(vs) : vs[i] \in Nat
      BY <1>1
    <3>2. \A i \in DOMAIN vs : vs[i] <= PayloadMask
      BY <1>2 DEF Buildable
    <3> QED BY <3>1, <3>2
  <2>2. \A i \in 1..Len(vs) : vs[i] \in 0..PayloadMask
    BY <2>1, DoubleArrayAssumption
  <2> DEFINE n == Len(vs)
             V == 0..PayloadMask
  <2>3. n \in Nat /\ vs = [i \in 1..n |-> vs[i]] /\ \A i \in 1..n : vs[i] \in V
    BY <1>1, <2>2
  <2> HIDE DEF n, V
  <2>4. vs \in [1..n -> V]
    BY <2>3
  <2>5. vs \in Seq(V)
    BY <2>3, <2>4
  <2> QED BY <2>5 DEF V
<1>5. Paired(ks, vs)
  BY <1>1, <1>3, <1>4 DEF Paired
<1> QED BY <1>5 DEF ks, vs

\* RunFrom, LookupExact and Lookup in any dictionary.
RunIn(es, value) ==
  IF value \notin 0..(Len(es) - 1) THEN {}
  ELSE {i \in value..(Len(es) - 1) : \A j \in value..i : es[j + 1] = es[value + 1]}

ExactIn(u, es, q) == {i \in RunIn(es, ExactMatch(u, q)) : es[ExactMatch(u, q) + 1] = q}

PrefixIn(u, es, text) ==
  LET found == CommonPrefixSearch(u, text)
  IN UNION {{<<i, found[k].length>> : i \in RunIn(es, found[k].value)} : k \in DOMAIN found}

\* u is a trie of the surfaces of a table.
Serves(u, table) ==
  /\ Buildable(KeysOf(table), RunStarts(table))
  /\ \E base : Encodes(u, KeysOf(table), RunStarts(table), base)

\* The run of a key holds all entries with its surface: another run of the same
\* surface would be the same key.
LEMMA RunIsSurface ==
  ASSUME NEW es \in Seq(Seq(Bytes)), es # <<>>, Shaped(KeysOf(es)), NEW k \in DOMAIN KeysOf(es)
  PROVE  /\ RunIn(es, RunStarts(es)[k]) = Index!EntriesOf(es, KeysOf(es)[k])
         /\ RunStarts(es)[k] + 1 \in DOMAIN es /\ es[RunStarts(es)[k] + 1] = KeysOf(es)[k]
<1> DEFINE ks == KeysOf(es)
           starts == RunStarts(es)
           v == starts[k]
           q == ks[k]
           N == Len(es)
<1>1. N \in Nat \ {0} /\ DOMAIN es = 1..N
  OBVIOUS
<1>2. /\ \A i \in DOMAIN ks :
           starts[i] \in Nat /\ starts[i] + 1 \in DOMAIN es /\ ks[i] = es[starts[i] + 1]
      /\ \A j \in DOMAIN es : \E i \in DOMAIN ks :
           ks[i] = es[j] /\ starts[i] + 1 <= j /\ \A m \in (starts[i] + 1)..j : es[m] = es[j]
  BY RunFacts
<1>3. \A i, j \in DOMAIN ks : i # j => ks[i] # ks[j]
  BY DEF Shaped
<1>5. k \in DOMAIN ks
  OBVIOUS
<1> HIDE DEF ks, starts, N
<1>6. v \in Nat /\ v + 1 \in 1..N /\ es[v + 1] = q /\ v \in 0..(N - 1)
  BY <1>1, <1>2, <1>5
<1>7. RunIn(es, v) = {i \in v..(N - 1) : \A j \in v..i : es[j + 1] = q}
  BY <1>6 DEF RunIn, N
<1>8. Index!EntriesOf(es, q) = {i - 1 : i \in {j \in 1..N : es[j] = q}}
  BY <1>1 DEF Index!EntriesOf
<1> HIDE DEF v, q
<1>9. ASSUME NEW i \in RunIn(es, v) PROVE i \in Index!EntriesOf(es, q)
  <2>1. i \in v..(N - 1) /\ \A j \in v..i : es[j + 1] = q
    BY <1>7
  <2>2. i \in v..i /\ i + 1 \in 1..N /\ (i + 1) - 1 = i
    BY <1>1, <1>6, <2>1
  <2>3. es[i + 1] = q
    BY <2>1, <2>2
  <2> QED BY <1>8, <2>2, <2>3
<1>10. ASSUME NEW i \in Index!EntriesOf(es, q) PROVE i \in RunIn(es, v)
  <2>1. PICK j \in 1..N : es[j] = q /\ i = j - 1
    BY <1>8
  <2>2. PICK h \in DOMAIN ks :
          ks[h] = es[j] /\ starts[h] + 1 <= j /\ \A m \in (starts[h] + 1)..j : es[m] = es[j]
    BY <1>1, <1>2, <2>1
  <2>6. h = k
    BY <1>3, <1>5, <2>1, <2>2 DEF q
  <2>7. v + 1 <= j /\ \A m \in (v + 1)..j : es[m] = q
    BY <2>1, <2>2, <2>6 DEF v
  <2>8. i \in v..(N - 1) /\ \A m \in v..i : m + 1 \in (v + 1)..j
    BY <1>1, <1>6, <2>1, <2>7
  <2> QED BY <1>7, <2>7, <2>8
<1>11. RunIn(es, v) = Index!EntriesOf(es, q)
  BY <1>9, <1>10
<1>12. v + 1 \in DOMAIN es /\ es[v + 1] = q
  BY <1>1, <1>6
<1> QED BY <1>11, <1>12 DEF v, q, ks, starts

\* An exact lookup finds the entries of the surface, all of them and no others.
LEMMA ExactAnswers ==
  ASSUME NEW u, NEW es \in Seq(Seq(Bytes)), NEW q \in Seq(Bytes),
         es = <<>> => u = EmptyTrie, es # <<>> => Serves(u, es)
  PROVE  ExactIn(u, es, q) = Index!EntriesOf(es, q)
<1>1. CASE es = <<>>
  <2>1. ExactMatch(u, q) = Absent
    BY <1>1 DEF ExactMatch
  <2>2. RunIn(es, Absent) = {}
    BY <1>1 DEF RunIn, Absent
  <2>3. Index!EntriesOf(es, q) = {}
    BY <1>1 DEF Index!EntriesOf
  <2> QED BY <2>1, <2>2, <2>3 DEF ExactIn
<1>2. CASE es # <<>>
  <2> DEFINE ks == KeysOf(es)
             vs == RunStarts(es)
  <2>1. PICK base : Encodes(u, ks, vs, base)
    BY <1>2 DEF Serves
  <2>2. Paired(ks, vs)
    BY <1>2, TablePaired DEF Serves
  <2>3. /\ \A i \in DOMAIN ks : ks[i] = q => ExactMatch(u, q) = vs[i]
        /\ (\A i \in DOMAIN ks : ks[i] # q) => ExactMatch(u, q) = Absent
    <3> HIDE DEF ks, vs
    <3> QED BY <2>1, <2>2, ExactMatchFinds
  <2>4. \A j \in DOMAIN es : \E i \in DOMAIN ks : ks[i] = es[j]
    BY <1>2, RunFacts
  <2>5. \A i \in DOMAIN ks : /\ RunIn(es, vs[i]) = Index!EntriesOf(es, ks[i])
                             /\ es[vs[i] + 1] = ks[i]
    BY <1>2, <2>2, RunIsSurface DEF Paired
  <2> HIDE DEF ks, vs
  <2>6. CASE \E i \in DOMAIN ks : ks[i] = q
    <3>1. PICK i \in DOMAIN ks : ks[i] = q
      BY <2>6
    <3>2. ExactMatch(u, q) = vs[i]
      BY <2>3, <3>1
    <3>3. RunIn(es, ExactMatch(u, q)) = Index!EntriesOf(es, q) /\ es[ExactMatch(u, q) + 1] = q
      BY <2>5, <3>1, <3>2
    <3> QED BY <3>3 DEF ExactIn
  <2>7. CASE \A i \in DOMAIN ks : ks[i] # q
    <3>1. RunIn(es, ExactMatch(u, q)) = {}
      <4>1. ExactMatch(u, q) = Absent /\ Len(es) \in Nat
        BY <2>3, <2>7
      <4>2. Absent \notin 0..(Len(es) - 1)
        BY <4>1 DEF Absent
      <4> QED BY <4>1, <4>2 DEF RunIn
    <3>2. ASSUME NEW j \in DOMAIN es PROVE es[j] # q
      BY <2>4, <2>7
    <3>3. Index!EntriesOf(es, q) = {}
      BY <3>2 DEF Index!EntriesOf
    <3> QED BY <3>1, <3>3 DEF ExactIn
  <2> QED BY <2>6, <2>7
<1> QED BY <1>1, <1>2

\* A prefix search finds the entries of the surfaces that begin the text.
LEMMA PrefixAnswers ==
  ASSUME NEW u, NEW es \in Seq(Seq(Bytes)), NEW text \in Seq(Bytes),
         es = <<>> => u = EmptyTrie, es # <<>> => Serves(u, es)
  PROVE  PrefixIn(u, es, text) =
           UNION {{<<i, n>> : i \in Index!EntriesOf(es, SubSeq(text, 1, n))} : n \in 1..Len(text)}
<1> DEFINE To(n) == SubSeq(text, 1, n)
           Of(n) == {<<i, n>> : i \in Index!EntriesOf(es, To(n))}
           R == CommonPrefixSearch(u, text)
           From(k) == {<<i, R[k].length>> : i \in RunIn(es, R[k].value)}
<1>1. PrefixIn(u, es, text) = UNION {From(k) : k \in DOMAIN R}
  BY DEF PrefixIn
<1>2. CASE es = <<>>
  <2>1. R = <<>> /\ DOMAIN <<>> = {}
    BY <1>2 DEF CommonPrefixSearch
  <2>2. \A n \in 1..Len(text) : Index!EntriesOf(es, To(n)) = {}
    BY <1>2 DEF Index!EntriesOf
  <2> QED BY <1>1, <2>1, <2>2
<1>3. CASE es # <<>>
  <2> DEFINE ks == KeysOf(es)
             vs == RunStarts(es)
  <2>1. PICK base : Encodes(u, ks, vs, base)
    BY <1>3 DEF Serves
  <2>2. Paired(ks, vs)
    BY <1>3, TablePaired DEF Serves
  <2>3. /\ \A k \in DOMAIN R : \E i \in DOMAIN ks :
             R[k].length \in 1..Len(text) /\ To(R[k].length) = ks[i] /\ R[k].value = vs[i]
        /\ \A n \in 1..Len(text), i \in DOMAIN ks :
             To(n) = ks[i] => \E k \in DOMAIN R : R[k].length = n /\ R[k].value = vs[i]
    <3> HIDE DEF ks, vs
    <3> QED BY <2>1, <2>2, PrefixSearchFinds
  <2>4. \A j \in DOMAIN es : \E i \in DOMAIN ks : ks[i] = es[j]
    BY <1>3, RunFacts
  <2>5. \A i \in DOMAIN ks : RunIn(es, vs[i]) = Index!EntriesOf(es, ks[i])
    BY <1>3, <2>2, RunIsSurface DEF Paired
  <2> HIDE DEF ks, vs, R, To
  <2>6. ASSUME NEW k \in DOMAIN R PROVE R[k].length \in 1..Len(text) /\ From(k) = Of(R[k].length)
    <3>1. PICK i \in DOMAIN ks :
            R[k].length \in 1..Len(text) /\ To(R[k].length) = ks[i] /\ R[k].value = vs[i]
      BY <2>3
    <3>2. RunIn(es, R[k].value) = Index!EntriesOf(es, To(R[k].length))
      BY <2>5, <3>1
    <3> QED BY <3>1, <3>2
  <2>7. ASSUME NEW n \in 1..Len(text), Of(n) # {}
        PROVE  \E k \in DOMAIN R : From(k) = Of(n)
    <3>1. PICK j \in DOMAIN es : es[j] = To(n)
      BY <2>7 DEF Index!EntriesOf
    <3>2. PICK i \in DOMAIN ks : ks[i] = es[j]
      BY <2>4
    <3>5. ks[i] = To(n)
      BY <3>1, <3>2
    <3>6. PICK k \in DOMAIN R : R[k].length = n /\ R[k].value = vs[i]
      BY <2>3, <3>5
    <3> QED BY <2>6, <3>6
  <2> HIDE DEF From, Of
  <2>8. UNION {From(k) : k \in DOMAIN R} = UNION {Of(n) : n \in 1..Len(text)}
    BY <2>6, <2>7
  <2> QED BY <1>1, <2>8 DEF Of, To
<1> QED BY <1>2, <1>3

-----------------------------------------------------------------------------
(* The build *)

\* The beginnings that have a cell when those in D have a base.
Reached(ks, D) == {q \in Beginnings(ks) : q = <<>> \/ Front(q) \in D}

\* The cells taken by the root and by the children of the nodes with a base.
Slots(ks, base) ==
  {0} \cup UNION {{BitXor(base[p], c) : c \in Labels(ks, p)} : p \in DOMAIN base}

LEMMA ReachedFacts ==
  ASSUME NEW ks, Shaped(ks), ks # <<>>, NEW D \in SUBSET Beginnings(ks)
  PROVE  /\ <<>> \in Reached(ks, D)
         /\ \A p \in D : \A c \in Labels(ks, p) \ {0} : Append(p, c) \in Reached(ks, D)
         /\ \A q \in Reached(ks, D) : q # <<>> =>
              \E p \in D : \E c \in Labels(ks, p) \ {0} : q = Append(p, c)
         /\ Reached(ks, D) \subseteq Beginnings(ks)
<1>1. <<>> \in Reached(ks, D)
  BY BeginningsClosed DEF Reached
<1>2. ASSUME NEW p \in D, NEW c \in Labels(ks, p) \ {0} PROVE Append(p, c) \in Reached(ks, D)
  <2>1. p \in Seq(Bytes) /\ p \in Beginnings(ks)
    BY DEF Beginnings
  <2>2. c \in Bytes
    BY <2>1, LabelsOfNode
  <2>3. Append(p, c) \in Beginnings(ks) /\ Front(Append(p, c)) = p
    BY <2>1, <2>2, BeginningsClosed, AppendCell
  <2> QED BY <2>3 DEF Reached
<1>3. ASSUME NEW q \in Reached(ks, D), q # <<>>
      PROVE  \E p \in D : \E c \in Labels(ks, p) \ {0} : q = Append(p, c)
  <2>1. q \in Seq(Bytes) /\ q \in Beginnings(ks) /\ Front(q) \in D
    BY <1>3 DEF Reached, Beginnings
  <2>2. PICK p \in Seq(Bytes), c \in Bytes : q = Append(p, c)
    BY <1>3, <2>1, SequenceEmptyOrAppend
  <2>3. Front(q) = p
    BY <2>2, AppendCell
  <2>4. c \in Labels(ks, p) \ {0}
    BY <2>1, <2>2, BeginningsClosed
  <2> QED BY <2>1, <2>2, <2>3, <2>4
<1> QED BY <1>1, <1>2, <1>3 DEF Reached

\* A node with a base more has its children more.
LEMMA ReachedOneMore ==
  ASSUME NEW ks, Shaped(ks), ks # <<>>, NEW D \in SUBSET Beginnings(ks), NEW p \in Beginnings(ks)
  PROVE  /\ Reached(ks, D \cup {p}) =
              Reached(ks, D) \cup {Append(p, c) : c \in Labels(ks, p) \ {0}}
         /\ p \notin D => \A c \in Labels(ks, p) \ {0} :
              Append(p, c) \notin Reached(ks, D) /\ Append(p, c) # p
<1> DEFINE New == {Append(p, c) : c \in Labels(ks, p) \ {0}}
<1>1. D \cup {p} \in SUBSET Beginnings(ks) /\ p \in Seq(Bytes)
  BY DEF Beginnings
<1>2. \A c \in Labels(ks, p) \ {0} :
        /\ Append(p, c) \in Reached(ks, D \cup {p})
        /\ Append(p, c) # <<>> /\ Front(Append(p, c)) = p /\ c \in Bytes
  <2> TAKE c \in Labels(ks, p) \ {0}
  <2>1. c \in Bytes
    BY <1>1, LabelsOfNode
  <2> QED BY <1>1, <2>1, ReachedFacts, AppendCell
<1>3. Reached(ks, D) \subseteq Reached(ks, D \cup {p})
  BY DEF Reached
<1>4. ASSUME NEW q \in Reached(ks, D \cup {p}), q \notin Reached(ks, D)
      PROVE  \E c \in Labels(ks, p) \ {0} : q = Append(p, c)
  <2>1. q # <<>> /\ Front(q) = p
    BY <1>4 DEF Reached
  <2>2. PICK r \in D \cup {p} : \E c \in Labels(ks, r) \ {0} : q = Append(r, c)
    BY <1>1, <2>1, ReachedFacts
  <2>3. PICK c \in Labels(ks, r) \ {0} : q = Append(r, c)
    BY <2>2
  <2>4. r \in Seq(Bytes)
    BY DEF Beginnings
  <2>5. c \in Bytes
    BY <2>4, LabelsOfNode
  <2>6. r = p
    BY <2>1, <2>3, <2>4, <2>5, AppendCell
  <2> QED BY <2>3, <2>6
<1>5. ASSUME p \notin D, NEW c \in Labels(ks, p) \ {0}
      PROVE  Append(p, c) \notin Reached(ks, D) /\ Append(p, c) # p
  <2>1. Append(p, c) \notin Reached(ks, D)
    BY <1>2, <1>5 DEF Reached
  <2>2. Len(Append(p, c)) = Len(p) + 1 /\ Len(p) \in Nat
    BY <1>1, <1>2
  <2>3. Append(p, c) # p
    <3> SUFFICES ASSUME Append(p, c) = p PROVE FALSE
      OBVIOUS
    <3>1. Len(p) = Len(p) + 1
      BY <2>2
    <3> QED BY <2>2, <3>1
  <2> QED BY <2>1, <2>3
<1>6. New \subseteq Reached(ks, D \cup {p})
  BY <1>2
<1>7. Reached(ks, D \cup {p}) \subseteq Reached(ks, D) \cup New
  BY <1>4
<1>8. Reached(ks, D \cup {p}) = Reached(ks, D) \cup New
  <2> HIDE DEF New
  <2> QED BY <1>3, <1>6, <1>7
<1> QED BY <1>5, <1>8

\* Every beginning that is reached has its cell among those taken.
LEMMA CellTaken ==
  ASSUME NEW ks, Shaped(ks), ks # <<>>, NEW base, DOMAIN base \subseteq Beginnings(ks),
         NEW q \in Reached(ks, DOMAIN base)
  PROVE  CellOf(base, q) \in Slots(ks, base)
<1>1. CASE q = <<>>
  BY <1>1 DEF CellOf, Slots
<1>2. CASE q # <<>>
  <2>1. PICK p \in DOMAIN base : \E c \in Labels(ks, p) \ {0} : q = Append(p, c)
    BY <1>2, ReachedFacts
  <2>2. PICK c \in Labels(ks, p) \ {0} : q = Append(p, c)
    BY <2>1
  <2>3. p \in Seq(Bytes)
    BY DEF Beginnings
  <2>4. c \in Bytes
    BY <2>3, LabelsOfNode
  <2>5. CellOf(base, q) = BitXor(base[p], c)
    BY <2>2, <2>3, <2>4, AppendCell
  <2> QED BY <2>5 DEF Slots
<1> QED BY <1>1, <1>2

BuildTypes ==
  /\ Paired(keys, values)
  /\ \E n \in Nat : DOMAIN cells = 0..(n - 1) /\ n >= BlockSize /\ nextCheckPos <= n
  /\ \A x \in DOMAIN cells : cells[x] \in Units
  /\ used \subseteq DOMAIN cells
  /\ nextCheckPos \in 0..(PayloadMask + 1)
  /\ calls \in Seq([prefix : Seq(Bytes), at : Nat])

\* No two nodes share a base, which the search for one beyond the last ensures,
\* nor any two children a cell.
BasesApart(base) ==
  /\ base \in [DOMAIN base -> 0..PayloadMask]
  /\ \A p \in DOMAIN base : base[p] < nextCheckPos
  /\ \A p, q \in DOMAIN base : base[p] = base[q] => p = q
  /\ \A p, q \in DOMAIN base :
       \A c \in Labels(keys, p), d \in Labels(keys, q) :
         /\ BitXor(base[p], c) # 0
         /\ BitXor(base[p], c) = BitXor(base[q], d) => p = q

\* The array holds what is placed so far, and nothing else.
CellsHold(base) ==
  /\ used = Slots(keys, base)
  /\ \A q \in Reached(keys, DOMAIN base) : cells[CellOf(base, q)] = UnitOfNode(keys, base, q)
  /\ \A i \in DOMAIN keys :
       keys[i] \in DOMAIN base => cells[base[keys[i]]] = UnitOfValue(values[i])
  /\ \A x \in DOMAIN cells \ used : cells[x] = EmptyUnit

\* The calls still to come are for the nodes without a base, one for each.
CallsToCome(base) ==
  /\ \A i \in DOMAIN calls :
       /\ calls[i].prefix \in Reached(keys, DOMAIN base) \ DOMAIN base
       /\ calls[i].at = CellOf(base, calls[i].prefix)
  /\ \A q \in Reached(keys, DOMAIN base) \ DOMAIN base :
       \E i \in DOMAIN calls : calls[i].prefix = q
  /\ \A i, j \in DOMAIN calls : calls[i].prefix = calls[j].prefix => i = j

Grown(base) ==
  /\ DOMAIN base \subseteq Reached(keys, DOMAIN base)
  /\ BasesApart(base) /\ CellsHold(base) /\ CallsToCome(base)

LEMMA ChildrenAreLabels == \A p : Children(p) = Labels(keys, p)
BY DEF Children, KeysUnder, Labels, Under

\* XOR with a byte leads to a natural number, to another one for another byte.
LEMMA XorBytes ==
  ASSUME NEW b \in 0..PayloadMask, NEW c \in Bytes
  PROVE  /\ BitXor(b, c) \in Nat /\ BitXor(BitXor(b, c), c) = b /\ BitXor(b, 0) = b
         /\ \A d \in Bytes : BitXor(b, c) = BitXor(b, d) => c = d
BY DoubleArrayAssumption

\* The array covers every base the search may try, so what it settles on is free.
LEMMA FindBaseFree ==
  ASSUME BuildTypes, NEW C \in SUBSET Bytes, C # {}, FindBase(C) <= PayloadMask
  PROVE  /\ FindBase(C) \in 0..PayloadMask
         /\ FindBase(C) >= nextCheckPos
         /\ \A c \in C : BitXor(FindBase(C), c) \in Nat \ used
<1> DEFINE from == Max({nextCheckPos, Min(C)})
           size == Cardinality(DOMAIN cells)
           found == {b \in from..(size + BlockSize - 1) : \A c \in C : Free(BitXor(b, c))}
           base == FindBase(C)
<1>1. base = IF found # {} THEN Min(found) ELSE size
  BY DEF FindBase
<1>2. PICK n \in Nat : DOMAIN cells = 0..(n - 1) /\ n >= BlockSize /\ nextCheckPos <= n
  BY DEF BuildTypes
<1>3. size = n
  BY <1>2, FS_Interval
<1>4. Min(C) \in C /\ Min(C) \in 0..(BlockSize - 1)
  <2>1. C \in SUBSET Nat
    BY DEF Bytes
  <2>2. Min(C) \in C
    BY <2>1, MinOfNaturals
  <2> QED BY <2>2 DEF Bytes
<1>5. nextCheckPos \in Nat /\ BlockSize \in Nat \ {0} /\ PayloadMask \in Nat
  BY DoubleArrayAssumption DEF BuildTypes
<1>6. from \in Nat /\ from >= nextCheckPos /\ from <= n
  <2>1. nextCheckPos \in Int /\ Min(C) \in Int
    BY <1>4, <1>5
  <2>2. from = IF nextCheckPos < Min(C) THEN Min(C) ELSE nextCheckPos
    BY <2>1, MaxOfTwo
  <2> QED BY <1>2, <1>4, <1>5, <2>2
<1> HIDE DEF from, size
<1>7. found \in SUBSET Nat
  BY <1>3, <1>5, <1>6
<1> HIDE DEF base
<1>8. base <= PayloadMask
  BY DEF base
<1>9. found # {}
  <2> SUFFICES ASSUME found = {} PROVE FALSE
    OBVIOUS
  <2>1. n \in 0..PayloadMask
    BY <1>1, <1>3, <1>5, <1>8
  <2>2. PICK b \in n..(n + BlockSize - 1) : \A c \in Bytes : BitXor(b, c) \in Nat /\ BitXor(b, c) >= n
    BY <2>1, DoubleArrayAssumption
  <2>3. \A c \in C : Free(BitXor(b, c))
    <3> TAKE c \in C
    <3>1. BitXor(b, c) \in Nat /\ BitXor(b, c) >= n
      BY <2>2
    <3>2. BitXor(b, c) \notin DOMAIN cells
      BY <1>2, <3>1
    <3> QED BY <3>2 DEF Free
  <2>4. b \in from..(size + BlockSize - 1)
    BY <1>2, <1>3, <1>5, <1>6, <2>2
  <2> QED BY <2>3, <2>4
<1>10. base \in found
  BY <1>1, <1>7, <1>9, MinOfNaturals
<1>11. base \in Nat /\ base >= from /\ \A c \in C : Free(BitXor(base, c))
  BY <1>6, <1>7, <1>10
<1>12. base \in 0..PayloadMask /\ base >= nextCheckPos
  BY <1>5, <1>6, <1>8, <1>11
<1>13. \A c \in C : BitXor(base, c) \in Nat \ used
  <2> TAKE c \in C
  <2>1. BitXor(base, c) \in Nat
    BY <1>12, XorBytes
  <2>2. BitXor(base, c) \notin used
    BY <1>11 DEF Free, BuildTypes
  <2> QED BY <2>1, <2>2
<1> QED BY <1>12, <1>13 DEF base

\* What a call writes: the base of its node, the labels of the children, the
\* value of a key that ends there; the array grows over all of them.
Written(new, call, C, b) ==
  LET At(c) == BitXor(b, c)
  IN  /\ \E n \in Nat : DOMAIN new = 0..(n - 1) /\ n >= BlockSize /\ b + 1 <= n
      /\ DOMAIN cells \subseteq DOMAIN new
      /\ \A c \in C : At(c) \in DOMAIN new
      /\ new[call.at] = [cells[call.at] EXCEPT !.payload = b, !.hasLeaf = @ \/ 0 \in C]
      /\ 0 \in C => new[b] = UnitOfValue(values[CHOOSE i \in DOMAIN keys : keys[i] = call.prefix])
      /\ \A c \in C \ {0} : new[At(c)] = [EmptyUnit EXCEPT !.label = c]
      /\ \A x \in DOMAIN cells : x # call.at /\ (\A c \in C : x # At(c)) => new[x] = cells[x]
      /\ \A x \in DOMAIN new \ DOMAIN cells : (\A c \in C : x # At(c)) => new[x] = EmptyUnit

LEMMA PlacedCells ==
  ASSUME BuildTypes, NEW call, call.at \in used,
         NEW C \in SUBSET Bytes, NEW b \in 0..PayloadMask,
         \A c \in C : BitXor(b, c) \in Nat \ used,
         \A x \in DOMAIN cells \ used : cells[x] = EmptyUnit
  PROVE  Written(Placed(call, C, b), call, C, b)
<1> DEFINE At(c) == BitXor(b, c)
           Old(x) == IF x \in DOMAIN cells THEN cells[x] ELSE EmptyUnit
           Ends == {b} \cup {At(c) : c \in C}
           top == Max(Ends)
           size == Cardinality(DOMAIN cells)
           m == SizeFor(top)
           new == Placed(call, C, b)
           Content(x) ==
             IF x = call.at
             THEN [Old(x) EXCEPT !.payload = b, !.hasLeaf = @ \/ 0 \in C]
             ELSE IF 0 \in C /\ x = At(0)
             THEN UnitOfValue(values[CHOOSE i \in DOMAIN keys : keys[i] = call.prefix])
             ELSE IF \E c \in C : x = At(c)
             THEN [Old(x) EXCEPT !.label = CHOOSE c \in C : x = At(c)]
             ELSE Old(x)
<1>1. new = [x \in 0..(m - 1) |-> Content(x)]
  BY DEF Placed
<1>2. PICK n \in Nat : DOMAIN cells = 0..(n - 1) /\ n >= BlockSize /\ nextCheckPos <= n
  BY DEF BuildTypes
<1>3. size = n
  BY <1>2, FS_Interval
<1>4. /\ b \in Nat /\ BlockSize \in Nat \ {0}
      /\ \A c \in C : At(c) \in Nat /\ At(c) \notin used
      /\ \A c, d \in C : At(c) = At(d) => c = d
      /\ At(0) = b
  <2>1. b \in Nat /\ BlockSize \in Nat \ {0}
    BY DoubleArrayAssumption
  <2>2. \A c, d \in C : At(c) = At(d) => c = d
    BY XorBytes
  <2>3. At(0) = b
    <3>1. 0 \in Bytes
      BY <2>1 DEF Bytes
    <3> QED BY <3>1, XorBytes
  <2> QED BY <2>1, <2>2, <2>3
<1> HIDE DEF At
<1>5. top \in Nat /\ \A x \in Ends : x <= top
  <2>1. Ends \in SUBSET Nat
    BY <1>4
  <2>2. IsFiniteSet(Ends)
    <3>1. IsFiniteSet({At(c) : c \in C})
      BY BytesFinite DEF At
    <3>2. IsFiniteSet({At(c) : c \in C} \cup {b})
      BY <3>1, FS_AddElement
    <3> QED BY <3>2
  <2>3. b \in Ends
    OBVIOUS
  <2>4. Ends \in SUBSET Int /\ Ends # {}
    BY <2>1, <2>3
  <2> HIDE DEF Ends
  <2>5. Max(Ends) \in Ends /\ \A x \in Ends : x <= Max(Ends)
    BY <2>2, <2>4, MaxOfFinite
  <2> QED BY <2>1, <2>5
<1> HIDE DEF top
<1>6. m \in Nat /\ m > top /\ m >= n
  <2>1. m = IF top >= n THEN Max({top + BlockSize, 2 * n}) ELSE n
    BY <1>3 DEF SizeFor
  <2>2. top + BlockSize \in Int /\ 2 * n \in Int
    BY <1>2, <1>4, <1>5
  <2>3. Max({top + BlockSize, 2 * n}) = IF top + BlockSize < 2 * n THEN 2 * n ELSE top + BlockSize
    BY <2>2, MaxOfTwo
  <2> HIDE DEF m
  <2> QED BY <1>2, <1>4, <1>5, <2>1, <2>3
<1> HIDE DEF m
<1>7. b <= top /\ \A c \in C : At(c) <= top
  BY <1>5
<1>8. /\ b + 1 <= m /\ m >= BlockSize /\ DOMAIN new = 0..(m - 1)
      /\ DOMAIN cells \subseteq DOMAIN new
      /\ b \in DOMAIN new
      /\ \A c \in C : At(c) \in DOMAIN new
  <2>1. DOMAIN new = 0..(m - 1)
    BY <1>1
  <2>2. b + 1 <= m /\ m >= BlockSize
    BY <1>2, <1>4, <1>5, <1>6, <1>7
  <2>3. DOMAIN cells \subseteq 0..(m - 1)
    BY <1>2, <1>6
  <2>4. \A c \in C : At(c) \in 0..(m - 1)
    BY <1>4, <1>5, <1>6, <1>7
  <2>5. b \in 0..(m - 1)
    BY <1>4, <1>6, <2>2
  <2> QED BY <2>1, <2>2, <2>3, <2>4, <2>5
<1>9. \A x \in DOMAIN new : new[x] = Content(x)
  BY <1>1
<1>10. call.at \in DOMAIN cells /\ \A c \in C : At(c) # call.at
  BY <1>4 DEF BuildTypes
<1>11. \A x : x \notin used => Old(x) = EmptyUnit
  OBVIOUS
<1> HIDE DEF new
<1>12. new[call.at] = [cells[call.at] EXCEPT !.payload = b, !.hasLeaf = @ \/ 0 \in C]
  <2>1. Old(call.at) = cells[call.at] /\ call.at \in DOMAIN new
    BY <1>8, <1>10
  <2> HIDE DEF Old
  <2> QED BY <1>9, <2>1, ZenonT(30)
<1>13. ASSUME 0 \in C
       PROVE  new[b] = UnitOfValue(values[CHOOSE i \in DOMAIN keys : keys[i] = call.prefix])
  <2>1. b # call.at
    BY <1>4, <1>10, <1>13
  <2>2. Content(b) = UnitOfValue(values[CHOOSE i \in DOMAIN keys : keys[i] = call.prefix])
    BY <1>4, <1>13, <2>1
  <2> QED BY <1>8, <1>9, <2>2
<1>14. ASSUME NEW c \in C \ {0} PROVE new[At(c)] = [EmptyUnit EXCEPT !.label = c]
  <2>1. At(c) # call.at /\ At(c) \in DOMAIN new
    BY <1>8, <1>10
  <2>2. ~(0 \in C /\ At(c) = At(0))
    BY <1>4
  <2>3. Old(At(c)) = EmptyUnit
    BY <1>4, <1>11
  <2>4. (CHOOSE d \in C : At(c) = At(d)) = c
    BY <1>4
  <2>5. Content(At(c)) = [Old(At(c)) EXCEPT !.label = CHOOSE d \in C : At(c) = At(d)]
    <3> HIDE DEF Old
    <3> QED BY <2>1, <2>2
  <2> HIDE DEF Old, Content
  <2> QED BY <1>9, <2>1, <2>3, <2>4, <2>5
<1>15. ASSUME NEW x \in DOMAIN cells, x # call.at, \A c \in C : x # At(c)
       PROVE  new[x] = cells[x]
  <2>1. Content(x) = Old(x)
    BY <1>15
  <2>2. x \in DOMAIN new /\ Old(x) = cells[x]
    BY <1>8
  <2> HIDE DEF Content, Old
  <2> QED BY <1>9, <2>1, <2>2
<1>16. ASSUME NEW x \in DOMAIN new \ DOMAIN cells, \A c \in C : x # At(c)
       PROVE  new[x] = EmptyUnit
  <2>1. Content(x) = Old(x) /\ Old(x) = EmptyUnit
    BY <1>10, <1>16
  <2> HIDE DEF Content, Old
  <2> QED BY <1>9, <2>1
<1>17. \E k \in Nat : DOMAIN new = 0..(k - 1) /\ k >= BlockSize /\ b + 1 <= k
  BY <1>6, <1>8
<1> QED BY <1>8, <1>12, <1>13, <1>14, <1>15, <1>16, <1>17 DEF new, At, Written

BuildInv == BuildTypes /\ \E base : Grown(base)

\* The build begins with the root to place and its cell taken.
LEMMA BuildBegins ==
  ASSUME NEW ks, NEW vs, Paired(ks, vs), BeginBuild(ks, vs)
  PROVE  BuildInv'
<1> DEFINE base == [p \in {} |-> 0]
           n == InitialSize
<1>1. /\ keys' = ks /\ values' = vs /\ cells' = [x \in 0..(n - 1) |-> EmptyUnit]
      /\ used' = {0} /\ nextCheckPos' = 0
      /\ calls' = <<[prefix |-> <<>>, at |-> 0]>>
  BY DEF BeginBuild
<1>2. n \in Nat /\ n >= BlockSize /\ BlockSize \in Nat \ {0} /\ PayloadMask \in Nat
  BY DoubleArrayAssumption
<1>3. 0 \in Bytes /\ EmptyUnit \in Units /\ 0 \in 0..(n - 1)
  <2>1. 0 \in Bytes /\ 0 \in 0..PayloadMask
    BY <1>2 DEF Bytes
  <2>2. 0 \in 0..(n - 1)
    BY <1>2
  <2> QED BY <2>1, <2>2 DEF EmptyUnit, Units
<1>4. /\ DOMAIN base = {} /\ Reached(ks, {}) = {<<>>} /\ Slots(ks, base) = {0}
      /\ CellOf(base, <<>>) = 0
  <2>1. DOMAIN base = {}
    OBVIOUS
  <2> HIDE DEF base
  <2>2. Reached(ks, {}) = {<<>>}
    BY ReachedFacts DEF Paired
  <2> QED BY <2>1, <2>2 DEF Slots, CellOf
<1> HIDE DEF n
<1>5. /\ DOMAIN cells' = 0..(n - 1) /\ \A x \in DOMAIN cells' : cells'[x] = EmptyUnit
  BY <1>1
<1>6. /\ calls' \in Seq([prefix : Seq(Bytes), at : Nat])
      /\ DOMAIN calls' = {1} /\ calls'[1].prefix = <<>> /\ calls'[1].at = 0
  <2> DEFINE one == [prefix |-> <<>>, at |-> 0]
             T == [prefix : Seq(Bytes), at : Nat]
  <2>1. one \in T /\ one.prefix = <<>> /\ one.at = 0
    OBVIOUS
  <2> HIDE DEF one, T
  <2>2. calls' = <<one>>
    BY <1>1 DEF one
  <2>3. <<one>> \in Seq(T) /\ DOMAIN <<one>> = {1} /\ <<one>>[1] = one
    BY <2>1
  <2> QED BY <2>1, <2>2, <2>3 DEF T
<1>7. BuildTypes'
  <2>1. Paired(ks, vs)'
    BY DEF Paired
  <2>2. \E k \in Nat : DOMAIN cells' = 0..(k - 1) /\ k >= BlockSize /\ nextCheckPos' <= k
    BY <1>1, <1>2, <1>5
  <2>3. used' \subseteq DOMAIN cells' /\ nextCheckPos' \in 0..(PayloadMask + 1)
    BY <1>1, <1>2, <1>3, <1>5
  <2> QED BY <1>1, <1>3, <1>5, <1>6, <2>1, <2>2, <2>3 DEF BuildTypes
<1> HIDE DEF base
<1>8. BasesApart(base)'
  <2>1. base \in [DOMAIN base -> 0..PayloadMask]
    BY <1>4 DEF base
  <2> QED BY <1>4, <2>1 DEF BasesApart
<1>9. CellsHold(base)'
  <2>1. UnitOfNode(ks, base, <<>>) = EmptyUnit
    <3>1. (<<>> \in DOMAIN base /\ 0 \in Labels(ks, <<>>)) = FALSE
      BY <1>4
    <3> QED BY <1>4, <3>1 DEF UnitOfNode, EmptyUnit
  <2>2. cells'[0] = EmptyUnit
    BY <1>3, <1>5
  <2>3. \A q \in Reached(ks, DOMAIN base) : cells'[CellOf(base, q)] = UnitOfNode(ks, base, q)
    BY <1>4, <2>1, <2>2
  <2> QED BY <1>1, <1>4, <1>5, <2>3 DEF CellsHold
<1>10. CallsToCome(base)'
  BY <1>1, <1>4, <1>6 DEF CallsToCome
<1>11. Grown(base)'
  BY <1>1, <1>4, <1>8, <1>9, <1>10 DEF Grown
<1> QED BY <1>7, <1>11 DEF BuildInv

\* Nodes have cells of their own, and no value lies in one.
LEMMA CellsApart ==
  ASSUME BuildTypes, NEW base, DOMAIN base \subseteq Beginnings(keys), BasesApart(base)
  PROVE  /\ \A q, r \in Reached(keys, DOMAIN base) : CellOf(base, q) = CellOf(base, r) => q = r
         /\ \A i \in DOMAIN keys : keys[i] \in DOMAIN base =>
              /\ base[keys[i]] \in Slots(keys, base)
              /\ \A q \in Reached(keys, DOMAIN base) : base[keys[i]] # CellOf(base, q)
<1> DEFINE D == DOMAIN base
           R == Reached(keys, D)
<1>1. Shaped(keys) /\ keys # <<>>
  BY DEF BuildTypes, Paired
<1>2. \A p \in D : p \in Seq(Bytes) /\ Labels(keys, p) \subseteq Bytes /\ base[p] \in 0..PayloadMask
  <2> TAKE p \in D
  <2>1. p \in Seq(Bytes)
    BY DEF Beginnings
  <2>2. base[p] \in 0..PayloadMask
    BY DEF BasesApart
  <2> QED BY <1>1, <2>1, <2>2, LabelsOfNode
<1>3. ASSUME NEW q \in R
      PROVE  \/ q = <<>> /\ CellOf(base, q) = 0
             \/ \E p \in D : \E c \in Labels(keys, p) \ {0} :
                  q = Append(p, c) /\ CellOf(base, q) = BitXor(base[p], c)
  <2>1. CASE q = <<>>
    BY <2>1 DEF CellOf
  <2>2. CASE q # <<>>
    <3>1. PICK p \in D : \E c \in Labels(keys, p) \ {0} : q = Append(p, c)
      BY <1>1, <2>2, ReachedFacts
    <3> QED BY <1>2, <3>1, AppendCell
  <2> QED BY <2>1, <2>2
<1>4. ASSUME NEW q \in R, NEW r \in R, CellOf(base, q) = CellOf(base, r) PROVE q = r
  <2>1. CASE q = <<>> \/ r = <<>>
    BY <1>3, <1>4, <2>1 DEF BasesApart
  <2>2. CASE q # <<>> /\ r # <<>>
    <3>1. PICK p \in D : \E c \in Labels(keys, p) \ {0} :
            q = Append(p, c) /\ CellOf(base, q) = BitXor(base[p], c)
      BY <1>3, <2>2
    <3>2. PICK c \in Labels(keys, p) \ {0} : q = Append(p, c) /\ CellOf(base, q) = BitXor(base[p], c)
      BY <3>1
    <3>3. PICK s \in D : \E d \in Labels(keys, s) \ {0} :
            r = Append(s, d) /\ CellOf(base, r) = BitXor(base[s], d)
      BY <1>3, <2>2
    <3>4. PICK d \in Labels(keys, s) \ {0} : r = Append(s, d) /\ CellOf(base, r) = BitXor(base[s], d)
      BY <3>3
    <3>5. p = s
      BY <1>4, <3>2, <3>4 DEF BasesApart
    <3>6. c = d
      <4>1. c \in Bytes /\ d \in Bytes /\ base[p] \in 0..PayloadMask
        BY <1>2, <3>5
      <4>2. BitXor(base[p], c) = BitXor(base[p], d)
        BY <1>4, <3>2, <3>4, <3>5
      <4> QED BY <4>1, <4>2, XorBytes
    <3> QED BY <3>2, <3>4, <3>5, <3>6
  <2> QED BY <2>1, <2>2
<1>5. ASSUME NEW i \in DOMAIN keys, keys[i] \in D
      PROVE  /\ base[keys[i]] \in Slots(keys, base)
             /\ \A q \in R : base[keys[i]] # CellOf(base, q)
  <2> DEFINE k == keys[i]
  <2>1. 0 \in Labels(keys, k) /\ 0 \in Bytes
    BY <1>1, <1>2, <1>5, LabelsOfNode
  <2> HIDE DEF k
  <2>2. k \in D /\ BitXor(base[k], 0) = base[k]
    BY <1>2, <1>5, <2>1, XorBytes DEF k
  <2>3. base[k] \in Slots(keys, base)
    BY <2>1, <2>2 DEF Slots
  <2>4. ASSUME NEW q \in R, base[k] = CellOf(base, q) PROVE FALSE
    <3>1. CASE CellOf(base, q) = 0
      BY <2>1, <2>2, <2>4, <3>1 DEF BasesApart
    <3>2. ASSUME NEW p \in D, NEW c \in Labels(keys, p) \ {0}, CellOf(base, q) = BitXor(base[p], c)
          PROVE  FALSE
      <4>1. p = k
        BY <2>1, <2>2, <2>4, <3>2 DEF BasesApart
      <4>2. c \in Bytes /\ base[k] \in 0..PayloadMask /\ BitXor(base[k], c) = BitXor(base[k], 0)
        BY <1>2, <2>2, <2>4, <3>2, <4>1
      <4>3. c = 0
        BY <2>1, <4>2, XorBytes
      <4> QED BY <4>3
    <3> QED BY <1>3, <3>1, <3>2
  <2> QED BY <2>3, <2>4 DEF k
<1> QED BY <1>4, <1>5

\* Writing the label of an empty unit.
LEMMA LabelSet ==
  ASSUME NEW c
  PROVE  [EmptyUnit EXCEPT !.label = c] = [label |-> c, payload |-> 0, hasLeaf |-> FALSE]
<1> DEFINE r == [EmptyUnit EXCEPT !.label = c]
<1>1. r \in [label : {c}, payload : {0}, hasLeaf : {FALSE}]
  BY DEF EmptyUnit
<1> HIDE DEF r
<1>2. r = [label |-> c, payload |-> 0, hasLeaf |-> FALSE]
  BY <1>1
<1> QED BY <1>2 DEF r

\* Writing the base and the leaf bit of a unit that has neither.
LEMMA BaseSet ==
  ASSUME NEW l, NEW w, NEW leaf \in BOOLEAN,
         NEW u, u = [label |-> l, payload |-> 0, hasLeaf |-> FALSE]
  PROVE  [u EXCEPT !.payload = w, !.hasLeaf = @ \/ leaf]
           = [label |-> l, payload |-> w, hasLeaf |-> leaf]
<1>1. (u.hasLeaf \/ leaf) = leaf
  OBVIOUS
<1> DEFINE v == [u EXCEPT !.payload = w, !.hasLeaf = u.hasLeaf \/ leaf]
<1>2. v \in [label : {l}, payload : {w}, hasLeaf : {leaf}]
  <2>1. v = [u EXCEPT !.payload = w, !.hasLeaf = leaf]
    BY <1>1
  <2> HIDE DEF v
  <2> QED BY <2>1
<1> HIDE DEF v
<1>3. v = [label |-> l, payload |-> w, hasLeaf |-> leaf]
  BY <1>2
<1> QED BY <1>3 DEF v

\* A call gives its node a base beyond all others, so its children lie in cells
\* that were free, and leaves a call for each child that goes on.
LEMMA PlaceKeeps ==
  ASSUME BuildInv, PlaceNode
  PROVE  BuildInv'
<1>1. PICK base : Grown(base)
  BY DEF BuildInv
<1> DEFINE D == DOMAIN base
           R == Reached(keys, D)
           call == Head(calls)
           p == call.prefix
           C == Labels(keys, p)
           b == FindBase(C)
           At(c) == BitXor(b, c)
           new == Placed(call, C, b)
           inner == Ascending(C \ {0})
           added == [i \in DOMAIN inner |-> [prefix |-> Append(p, inner[i]), at |-> At(inner[i])]]
           D2 == D \cup {p}
<1>2. /\ calls # <<>> /\ b <= PayloadMask
      /\ cells' = new /\ used' = used \cup {At(c) : c \in C}
      /\ nextCheckPos' = b + 1
      /\ calls' = added \o Tail(calls)
      /\ keys' = keys /\ values' = values
  BY ChildrenAreLabels, ZenonT(30) DEF PlaceNode
<1>3. /\ Shaped(keys) /\ keys # <<>> /\ Paired(keys, values)
      /\ BuildTypes
      /\ D \subseteq R /\ D \subseteq Beginnings(keys) /\ R \subseteq Beginnings(keys)
      /\ BasesApart(base) /\ CellsHold(base) /\ CallsToCome(base)
  BY <1>1 DEF Grown, BuildInv, BuildTypes, Paired, Reached
<1> DEFINE Calls == [prefix : Seq(Bytes), at : Nat]
<1>4. /\ calls \in Seq(Calls) /\ Len(calls) \in Nat \ {0} /\ call = calls[1] /\ call \in Calls
      /\ 1 \in DOMAIN calls /\ DOMAIN calls = 1..Len(calls)
  <2>1. calls \in Seq(Calls)
    BY <1>3 DEF BuildTypes
  <2> HIDE DEF Calls
  <2>2. calls # <<>>
    BY <1>2
  <2>3. Len(calls) \in Nat \ {0} /\ DOMAIN calls = 1..Len(calls)
    BY <2>1, <2>2
  <2>4. 1 \in DOMAIN calls /\ call = calls[1]
    BY <2>1, <2>2, <2>3
  <2>5. calls[1] \in Calls
    BY <2>1, <2>4, ElementOfSeq
  <2> QED BY <2>1, <2>3, <2>4, <2>5
<1>5. p \in R /\ p \notin D /\ call.at = CellOf(base, p) /\ p \in Seq(Bytes) /\ p \in Beginnings(keys)
  BY <1>3, <1>4 DEF CallsToCome, Beginnings
<1> HIDE DEF call, R, D
<1>6. C \in SUBSET Bytes /\ C # {} /\ IsFiniteSet(C)
  <2>1. C \subseteq Bytes /\ C # {}
    BY <1>3, <1>5, LabelsOfNode DEF Beginnings
  <2> QED BY <2>1, BytesFinite
<1>7. b \in 0..PayloadMask /\ b >= nextCheckPos /\ \A c \in C : At(c) \in Nat /\ At(c) \notin used
  BY <1>2, <1>3, <1>6, FindBaseFree
<1> HIDE DEF p, C, b
<1>8. \A c, d \in C : At(c) = At(d) => c = d
  <2> TAKE c, d \in C
  <2>1. c \in Bytes /\ d \in Bytes
    BY <1>6
  <2> QED BY <1>7, <2>1, XorBytes
<1>9. 0 \in C => At(0) = b
  BY <1>6, <1>7, XorBytes
<1>10. /\ 0 \in used
       /\ \A q \in D : \A d \in Labels(keys, q) : BitXor(base[q], d) \in used
       /\ \A q \in R : CellOf(base, q) \in used
       /\ used = Slots(keys, base)
  <2>1. used = Slots(keys, base)
    BY <1>3 DEF CellsHold
  <2>2. \A q \in R : CellOf(base, q) \in used
    BY <1>3, <2>1, CellTaken DEF R, D
  <2> QED BY <2>1, <2>2 DEF Slots, D
<1>11. /\ \A q \in R : CellOf(base, q) = call.at => q = p
       /\ \A i \in DOMAIN keys : keys[i] \in D => base[keys[i]] \in used /\ base[keys[i]] # call.at
  BY <1>3, <1>5, <1>10, CellsApart DEF R, D
<1>12. call.at \in used
  BY <1>5, <1>10
<1>13. /\ \E n \in Nat : DOMAIN new = 0..(n - 1) /\ n >= BlockSize /\ b + 1 <= n
       /\ DOMAIN cells \subseteq DOMAIN new
       /\ \A c \in C : At(c) \in DOMAIN new
       /\ new[call.at] = [cells[call.at] EXCEPT !.payload = b, !.hasLeaf = @ \/ 0 \in C]
       /\ 0 \in C => new[b] = UnitOfValue(values[CHOOSE i \in DOMAIN keys : keys[i] = p])
       /\ \A c \in C \ {0} : new[At(c)] = [EmptyUnit EXCEPT !.label = c]
       /\ \A x \in DOMAIN cells : x # call.at /\ (\A c \in C : x # At(c)) => new[x] = cells[x]
       /\ \A x \in DOMAIN new \ DOMAIN cells : (\A c \in C : x # At(c)) => new[x] = EmptyUnit
  <2>1. \A x \in DOMAIN cells \ used : cells[x] = EmptyUnit
    BY <1>3 DEF CellsHold
  <2>2. \A c \in C : BitXor(b, c) \in Nat \ used
    BY <1>7
  <2>3. Written(Placed(call, C, b), call, C, b)
    BY <1>3, <1>6, <1>7, <1>12, <2>1, <2>2, PlacedCells
  <2> HIDE DEF new
  <2>4. Written(new, call, C, b)
    BY <2>3 DEF new
  <2> QED BY <2>4 DEF Written, p
<1> HIDE DEF new
<1>14. used \subseteq DOMAIN cells /\ \A x \in DOMAIN cells : cells[x] \in Units
  BY <1>3 DEF BuildTypes
<1>15. \A x \in used : x # call.at => new[x] = cells[x]
  BY <1>7, <1>13, <1>14
<1> HIDE DEF call, R, D
<1>0. PICK base2 : base2 = [q \in D2 |-> IF q = p THEN b ELSE base[q]]
  OBVIOUS
<1>16. /\ D2 \subseteq Beginnings(keys) /\ DOMAIN base2 = D2
       /\ base2[p] = b /\ \A q \in D : base2[q] = base[q] /\ q # p
       /\ Reached(keys, D2) = R \cup {Append(p, c) : c \in C \ {0}}
       /\ \A c \in C \ {0} : Append(p, c) \notin R /\ Append(p, c) # p /\ Append(p, c) \notin D2
  <2>1. DOMAIN base2 = D2 /\ base2[p] = b /\ \A q \in D : base2[q] = base[q] /\ q # p
    BY <1>0, <1>5
  <2>2. D2 \subseteq Beginnings(keys)
    BY <1>3, <1>5
  <2>3. Reached(keys, D2) = R \cup {Append(p, c) : c \in C \ {0}}
    BY <1>3, <1>5, ReachedOneMore DEF R, C
  <2>4. \A c \in C \ {0} : Append(p, c) \notin R /\ Append(p, c) # p
    BY <1>3, <1>5, ReachedOneMore DEF R, C
  <2> QED BY <1>3, <2>1, <2>2, <2>3, <2>4
<1>17. /\ \A q \in R : CellOf(base2, q) = CellOf(base, q)
       /\ \A c \in C \ {0} : /\ CellOf(base2, Append(p, c)) = At(c)
                             /\ Append(p, c) # <<>> /\ Last(Append(p, c)) = c
  <2>1. \A q \in R : q # <<>> => Front(q) \in D
    BY DEF R, Reached
  <2>2. \A q \in R : CellOf(base2, q) = CellOf(base, q)
    BY <1>16, <2>1 DEF CellOf
  <2>3. ASSUME NEW c \in C \ {0}
        PROVE  /\ CellOf(base2, Append(p, c)) = At(c)
               /\ Append(p, c) # <<>> /\ Last(Append(p, c)) = c
    BY <1>5, <1>6, <1>16, AppendCell
  <2> QED BY <2>2, <2>3
<1>18. BasesApart(base2)'
  <2>1. base2 \in [D2 -> 0..PayloadMask]
    <3>1. \A q \in D : base[q] \in 0..PayloadMask
      BY <1>3 DEF BasesApart, D
    <3> QED BY <1>0, <1>7, <3>1
  <2>2. /\ \A q \in D : base[q] \in Int /\ base[q] < b /\ base[q] < nextCheckPos
        /\ b \in Int
    <3>1. \A q \in D : base[q] \in 0..PayloadMask /\ base[q] < nextCheckPos
      BY <1>3 DEF BasesApart, D
    <3>2. nextCheckPos \in Int /\ b \in Int /\ b >= nextCheckPos
      BY <1>3, <1>7, DoubleArrayAssumption DEF BuildTypes
    <3>3. \A q \in D : base[q] \in Int
      BY <3>1
    <3> QED BY <3>1, <3>2, <3>3
  <2>3. \A q \in D2 : base2[q] < b + 1
    <3>1. \A q \in D : base[q] < b + 1
      BY <2>2
    <3> QED BY <1>16, <2>2, <3>1
  <2>4. \A q, r \in D2 : base2[q] = base2[r] => q = r
    <3>1. \A q, r \in D : base[q] = base[r] => q = r
      BY <1>3 DEF BasesApart, D
    <3>2. \A q \in D : base[q] # b
      BY <2>2
    <3> QED BY <1>16, <3>1, <3>2
  <2>5. ASSUME NEW q \in D2, NEW r \in D2, NEW c \in Labels(keys, q), NEW d \in Labels(keys, r)
        PROVE  /\ BitXor(base2[q], c) # 0
               /\ BitXor(base2[q], c) = BitXor(base2[r], d) => q = r
    <3>1. CASE q \in D /\ r \in D
      BY <1>3, <1>16, <3>1 DEF BasesApart, D
    <3>2. CASE q = p /\ r \in D
      <4>1. BitXor(base2[q], c) = At(c) /\ c \in C /\ BitXor(base2[r], d) \in used
        BY <1>10, <1>16, <3>2 DEF C
      <4> QED BY <1>7, <1>10, <4>1
    <3>3. CASE q \in D /\ r = p
      <4>1. BitXor(base2[r], d) = At(d) /\ d \in C /\ BitXor(base2[q], c) \in used
        BY <1>10, <1>16, <3>3 DEF C
      <4>2. BitXor(base2[q], c) # 0
        BY <1>3, <1>16, <3>3 DEF BasesApart, D
      <4> QED BY <1>7, <4>1, <4>2
    <3>4. CASE q = p /\ r = p
      <4>1. BitXor(base2[q], c) = At(c) /\ c \in C
        BY <1>16, <3>4 DEF C
      <4> QED BY <1>7, <1>10, <3>4, <4>1
    <3> QED BY <3>1, <3>2, <3>3, <3>4
  <2> HIDE DEF D2
  <2> QED BY <1>2, <1>16, <2>1, <2>3, <2>4, <2>5 DEF BasesApart
<1>19. CellsHold(base2)'
  <2>1. used' = Slots(keys, base2)
    <3> DEFINE Below(bs, q) == {BitXor(bs[q], c) : c \in Labels(keys, q)}
    <3>1. Below(base2, p) = {At(c) : c \in C} /\ \A q \in D : Below(base2, q) = Below(base, q)
      BY <1>16 DEF C
    <3>2. /\ Slots(keys, base2) = {0} \cup UNION {Below(base2, q) : q \in D2}
          /\ Slots(keys, base) = {0} \cup UNION {Below(base, q) : q \in D}
      BY <1>16 DEF Slots, D
    <3> HIDE DEF Below, At
    <3>3. Slots(keys, base2) = Slots(keys, base) \cup {At(c) : c \in C}
      BY <3>1, <3>2
    <3> QED BY <1>2, <1>10, <3>3
  <2>2. ASSUME NEW q \in Reached(keys, D2)
        PROVE  new[CellOf(base2, q)] = UnitOfNode(keys, base2, q)
    <3>1. CASE q = p
      <4>1. cells[call.at] = UnitOfNode(keys, base, p)
        BY <1>3, <1>5 DEF CellsHold, R, D
      <4>2. (p \in DOMAIN base /\ 0 \in Labels(keys, p)) = FALSE
        BY <1>5 DEF D
      <4>3. cells[call.at] = [label |-> IF p = <<>> THEN 0 ELSE Last(p), payload |-> 0, hasLeaf |-> FALSE]
        BY <1>5, <4>1, <4>2 DEF UnitOfNode, D
      <4>4. (p \in D2 /\ 0 \in Labels(keys, p)) = (0 \in C) /\ (FALSE \/ 0 \in C) = (0 \in C)
        BY DEF C
      <4>5. UnitOfNode(keys, base2, p) =
              [label |-> IF p = <<>> THEN 0 ELSE Last(p), payload |-> b, hasLeaf |-> 0 \in C]
        BY <1>16, <4>4 DEF UnitOfNode
      <4>6. new[call.at] = [label |-> IF p = <<>> THEN 0 ELSE Last(p), payload |-> b, hasLeaf |-> 0 \in C]
        <5> DEFINE u == cells[call.at]
                   l == IF p = <<>> THEN 0 ELSE Last(p)
                   leaf == 0 \in C
        <5>1. leaf \in BOOLEAN /\ u = [label |-> l, payload |-> 0, hasLeaf |-> FALSE]
          BY <4>3
        <5>2. new[call.at] = [u EXCEPT !.payload = b, !.hasLeaf = @ \/ leaf]
          BY <1>13
        <5> HIDE DEF u, l, leaf
        <5>3. new[call.at] = [label |-> l, payload |-> b, hasLeaf |-> leaf]
          BY <5>1, <5>2, BaseSet, Zenon
        <5> QED BY <5>3 DEF l, leaf
      <4> QED BY <1>5, <1>17, <3>1, <4>5, <4>6
    <3>2. CASE q \in R /\ q # p
      <4>1. new[CellOf(base, q)] = cells[CellOf(base, q)]
        BY <1>10, <1>11, <1>15, <3>2
      <4>2. cells[CellOf(base, q)] = UnitOfNode(keys, base, q)
        BY <1>3, <3>2 DEF CellsHold, R, D
      <4>3. UnitOfNode(keys, base2, q) = UnitOfNode(keys, base, q)
        <5>1. /\ q \in DOMAIN base2 <=> q \in DOMAIN base
              /\ (IF q \in DOMAIN base2 THEN base2[q] ELSE 0) = (IF q \in DOMAIN base THEN base[q] ELSE 0)
          BY <1>16, <3>2 DEF D
        <5>2. (q \in DOMAIN base2 /\ 0 \in Labels(keys, q)) = (q \in DOMAIN base /\ 0 \in Labels(keys, q))
          BY <5>1
        <5> QED BY <5>1, <5>2 DEF UnitOfNode
      <4> QED BY <1>17, <3>2, <4>1, <4>2, <4>3
    <3>3. ASSUME NEW c \in C \ {0}, q = Append(p, c)
          PROVE  new[CellOf(base2, q)] = UnitOfNode(keys, base2, q)
      <4>1. (q \in DOMAIN base2 /\ 0 \in Labels(keys, q)) = FALSE
        BY <1>16, <3>3
      <4>2. UnitOfNode(keys, base2, q) = [label |-> c, payload |-> 0, hasLeaf |-> FALSE]
        BY <1>16, <1>17, <3>3, <4>1 DEF UnitOfNode
      <4>3. [EmptyUnit EXCEPT !.label = c] = [label |-> c, payload |-> 0, hasLeaf |-> FALSE]
        BY LabelSet
      <4> QED BY <1>13, <1>17, <3>3, <4>2, <4>3
    <3> QED BY <1>16, <3>1, <3>2, <3>3
  <2>3. ASSUME NEW i \in DOMAIN keys, keys[i] \in D2
        PROVE  new[base2[keys[i]]] = UnitOfValue(values[i])
    <3>1. CASE keys[i] = p
      <4>1. 0 \in C
        BY <1>3, <1>5, <3>1, LabelsOfNode DEF C
      <4>2. (CHOOSE j \in DOMAIN keys : keys[j] = p) = i
        BY <1>3, <3>1 DEF Shaped
      <4> QED BY <1>13, <1>16, <3>1, <4>1, <4>2
    <3>2. CASE keys[i] \in D
      <4>1. new[base[keys[i]]] = cells[base[keys[i]]]
        BY <1>11, <1>15, <3>2
      <4>2. cells[base[keys[i]]] = UnitOfValue(values[i])
        BY <1>3, <3>2 DEF CellsHold, D
      <4> QED BY <1>16, <3>2, <4>1, <4>2
    <3> QED BY <2>3, <3>1, <3>2
  <2>4. ASSUME NEW x \in DOMAIN new \ used' PROVE new[x] = EmptyUnit
    <3>1. x \notin used /\ (\A c \in C : x # At(c)) /\ x # call.at
      BY <1>2, <1>12
    <3>2. CASE x \in DOMAIN cells
      <4>1. cells[x] = EmptyUnit
        BY <1>3, <3>1, <3>2 DEF CellsHold
      <4> QED BY <1>13, <3>1, <3>2, <4>1
    <3>3. CASE x \notin DOMAIN cells
      BY <1>13, <3>1, <3>3
    <3> QED BY <3>2, <3>3
  <2> HIDE DEF D2
  <2> QED BY <1>2, <1>16, <2>1, <2>2, <2>3, <2>4 DEF CellsHold
<1> DEFINE n1 == Cardinality(C \ {0})
           n2 == Len(calls)
<1>20. /\ n1 \in Nat /\ n2 \in Nat \ {0} /\ DOMAIN inner = 1..n1
       /\ \A i \in 1..n1 : inner[i] \in C \ {0}
       /\ \A c \in C \ {0} : \E i \in 1..n1 : inner[i] = c
       /\ \A i, j \in 1..n1 : inner[i] = inner[j] => i = j
  <2>1. C \ {0} \in SUBSET Int /\ IsFiniteSet(C \ {0})
    <3>1. C \ {0} \subseteq C /\ IsFiniteSet(C \ {0})
      BY <1>6, FS_Subset
    <3> QED BY <1>6, <3>1 DEF Bytes
  <2> DEFINE S == C \ {0}
  <2> HIDE DEF S
  <2>2. LET L == Ascending(S)
        IN  /\ L \in Seq(S) /\ Len(L) = Cardinality(S) /\ DOMAIN L = 1..Cardinality(S)
            /\ Cardinality(S) \in Nat
            /\ \A x \in S : \E n \in DOMAIN L : L[n] = x
            /\ \A m, n \in DOMAIN L : m < n => L[m] < L[n]
    BY <2>1, AscendingLists DEF S
  <2> HIDE DEF inner
  <2>3. /\ inner \in Seq(S) /\ Len(inner) = n1 /\ DOMAIN inner = 1..n1
        /\ n1 \in Nat
        /\ \A x \in S : \E n \in DOMAIN inner : inner[n] = x
        /\ \A m, n \in DOMAIN inner : m < n => inner[m] < inner[n]
    BY <2>2 DEF inner, S
  <2> HIDE DEF n1
  <2>4. \A i \in 1..n1 : inner[i] \in S /\ inner[i] \in Int
    BY <2>1, <2>3, ElementOfSeq DEF S
  <2>5. ASSUME NEW i \in 1..n1, NEW j \in 1..n1, inner[i] = inner[j] PROVE i = j
    <3>1. ~(inner[i] < inner[j]) /\ ~(inner[j] < inner[i])
      BY <2>4, <2>5
    <3>2. ~(i < j) /\ ~(j < i)
      BY <2>3, <3>1
    <3> QED BY <2>3, <3>2
  <2> QED BY <1>4, <2>3, <2>4, <2>5 DEF S
<1> HIDE DEF inner, n1, Calls
<1>21. /\ added \in Seq(Calls) /\ Len(added) = n1 /\ DOMAIN added = 1..n1
       /\ \A i \in 1..n1 : added[i].prefix = Append(p, inner[i]) /\ added[i].at = At(inner[i])
  <2>1. \A i \in 1..n1 : /\ added[i] = [prefix |-> Append(p, inner[i]), at |-> At(inner[i])]
                         /\ Append(p, inner[i]) \in Seq(Bytes) /\ At(inner[i]) \in Nat
    BY <1>5, <1>6, <1>7, <1>20
  <2> HIDE DEF At, added
  <2>2. \A i \in 1..n1 : added[i] \in Calls /\ added[i].prefix = Append(p, inner[i]) /\ added[i].at = At(inner[i])
    <3> TAKE i \in 1..n1
    <3> DEFINE x == Append(p, inner[i])
               y == At(inner[i])
    <3>1. added[i] = [prefix |-> x, at |-> y] /\ x \in Seq(Bytes) /\ y \in Nat
      BY <2>1
    <3> HIDE DEF x, y
    <3>2. added[i] \in Calls /\ added[i].prefix = x /\ added[i].at = y
      BY <3>1 DEF Calls
    <3> QED BY <3>2 DEF x, y
  <2>3. DOMAIN added = 1..n1 /\ added = [i \in 1..n1 |-> added[i]]
    BY <1>20 DEF added
  <2>4. added \in [1..n1 -> Calls]
    BY <2>2, <2>3
  <2> QED BY <1>20, <2>2, <2>3, <2>4
<1> HIDE DEF added
<1>22. /\ calls' \in Seq(Calls) /\ DOMAIN calls' = 1..(n1 + n2 - 1)
       /\ \A i \in 1..n1 : calls'[i] = added[i]
       /\ \A i \in (n1 + 1)..(n1 + n2 - 1) : calls'[i] = calls[i - n1 + 1]
  <2>1. /\ Tail(calls) \in Seq(Calls) /\ Len(Tail(calls)) = n2 - 1
        /\ \A i \in 1..(n2 - 1) : Tail(calls)[i] = calls[i + 1]
    BY <1>2, <1>4, HeadTailProperties
  <2> DEFINE rest == Tail(calls)
  <2> HIDE DEF rest, n2
  <2>2. /\ rest \in Seq(Calls) /\ Len(rest) = n2 - 1 /\ calls' = added \o rest
        /\ \A i \in 1..(n2 - 1) : rest[i] = calls[i + 1]
    BY <1>2, <2>1 DEF rest
  <2>3. /\ added \o rest \in Seq(Calls) /\ Len(added \o rest) = n1 + (n2 - 1)
        /\ \A i \in 1..(n1 + (n2 - 1)) :
             (added \o rest)[i] = IF i <= n1 THEN added[i] ELSE rest[i - n1]
    <3>1. /\ added \o rest \in Seq(Calls) /\ Len(added \o rest) = Len(added) + Len(rest)
          /\ \A i \in 1..(Len(added) + Len(rest)) :
               (added \o rest)[i] = IF i <= Len(added) THEN added[i] ELSE rest[i - Len(added)]
      BY <1>21, <2>2, ConcatProperties
    <3>2. Len(added) = n1 /\ Len(rest) = n2 - 1
      BY <1>21, <2>2
    <3> QED BY <3>1, <3>2
  <2>4. n1 + (n2 - 1) = n1 + n2 - 1 /\ n1 + n2 - 1 \in Nat
    BY <1>20 DEF n2
  <2>5. DOMAIN calls' = 1..(n1 + n2 - 1)
    BY <2>2, <2>3, <2>4
  <2>6. ASSUME NEW i \in 1..n1 PROVE calls'[i] = added[i]
    <3>1. i \in 1..(n1 + (n2 - 1)) /\ i <= n1
      BY <1>20 DEF n2
    <3> QED BY <2>2, <2>3, <3>1
  <2>7. ASSUME NEW i \in (n1 + 1)..(n1 + n2 - 1) PROVE calls'[i] = calls[i - n1 + 1]
    <3>1. i \in 1..(n1 + (n2 - 1)) /\ ~(i <= n1) /\ i - n1 \in 1..(n2 - 1)
      BY <1>20 DEF n2
    <3> QED BY <2>2, <2>3, <3>1
  <2> QED BY <2>2, <2>3, <2>5, <2>6, <2>7
<1>23. \A i \in (n1 + 1)..(n1 + n2 - 1) :
         /\ i - n1 + 1 \in DOMAIN calls /\ calls[i - n1 + 1].prefix \in R \ D
         /\ calls[i - n1 + 1].prefix # p
         /\ calls[i - n1 + 1].at = CellOf(base, calls[i - n1 + 1].prefix)
  <2> TAKE i \in (n1 + 1)..(n1 + n2 - 1)
  <2> DEFINE j == i - n1 + 1
  <2>1. j \in 1..n2 /\ j # 1
    BY <1>20
  <2> HIDE DEF j
  <2>2. j \in DOMAIN calls /\ calls[j].prefix # calls[1].prefix
    BY <1>3, <1>4, <2>1 DEF CallsToCome
  <2>3. calls[j].prefix \in R \ D /\ calls[j].at = CellOf(base, calls[j].prefix)
    BY <1>3, <2>2 DEF CallsToCome, R, D
  <2> QED BY <1>4, <2>2, <2>3 DEF j, p
<1>24. \A i \in 1..n1 :
         \E c \in C \ {0} : /\ c = inner[i] /\ calls'[i].prefix = Append(p, c) /\ calls'[i].at = At(c)
                          /\ CellOf(base2, Append(p, c)) = At(c)
                          /\ Append(p, c) \in Reached(keys, D2) \ D2
                          /\ Append(p, c) \notin R /\ Last(Append(p, c)) = c
  <2> TAKE i \in 1..n1
  <2>1. calls'[i].prefix = Append(p, inner[i]) /\ calls'[i].at = At(inner[i]) /\ inner[i] \in C \ {0}
    BY <1>20, <1>21, <1>22
  <2> HIDE DEF At, D2
  <2> QED BY <1>16, <1>17, <2>1
<1>25. CallsToCome(base2)'
  <2>1. ASSUME NEW i \in DOMAIN calls'
        PROVE  /\ calls'[i].prefix \in Reached(keys, D2) \ D2
               /\ calls'[i].at = CellOf(base2, calls'[i].prefix)
    <3>1. CASE i \in 1..n1
      BY <1>24, <3>1
    <3>2. CASE i \in (n1 + 1)..(n1 + n2 - 1)
      BY <1>16, <1>17, <1>22, <1>23, <3>2, ZenonT(30)
    <3>3. i \in 1..n1 \/ i \in (n1 + 1)..(n1 + n2 - 1)
      BY <1>20, <1>22
    <3> QED BY <3>1, <3>2, <3>3
  <2>2. ASSUME NEW q \in Reached(keys, D2) \ D2
        PROVE  \E i \in DOMAIN calls' : calls'[i].prefix = q
    <3>1. CASE q \in R
      <4>1. q \in R \ D /\ q # p
        BY <2>2, <3>1
      <4>2. PICK j \in DOMAIN calls : calls[j].prefix = q
        BY <1>3, <4>1 DEF CallsToCome, R, D
      <4>3. j # 1 /\ j \in 1..n2
        BY <1>4, <4>1, <4>2 DEF p
      <4> DEFINE i == j + n1 - 1
      <4>4. i \in (n1 + 1)..(n1 + n2 - 1) /\ i - n1 + 1 = j /\ i \in 1..(n1 + n2 - 1)
        BY <1>20, <4>3
      <4> HIDE DEF i, n2
      <4> QED BY <1>22, <4>2, <4>4
    <3>2. CASE q \notin R
      <4>1. PICK c \in C \ {0} : q = Append(p, c)
        BY <1>16, <2>2, <3>2
      <4>2. PICK i \in 1..n1 : inner[i] = c
        BY <1>20, <4>1
      <4>3. i \in 1..(n1 + n2 - 1)
        BY <1>20, <4>2
      <4> QED BY <1>21, <1>22, <4>1, <4>2, <4>3
    <3> QED BY <3>1, <3>2
  <2>3. ASSUME NEW i \in DOMAIN calls', NEW j \in DOMAIN calls', calls'[i].prefix = calls'[j].prefix
        PROVE  i = j
    <3>1. /\ i \in 1..n1 \/ i \in (n1 + 1)..(n1 + n2 - 1)
          /\ j \in 1..n1 \/ j \in (n1 + 1)..(n1 + n2 - 1)
      BY <1>20, <1>22
    <3>2. ASSUME NEW g \in 1..n1
          PROVE  /\ calls'[g].prefix = Append(p, inner[g]) /\ inner[g] \in C \ {0}
                 /\ calls'[g].prefix \notin R /\ Last(calls'[g].prefix) = inner[g]
      BY <1>24
    <3>3. ASSUME NEW g \in (n1 + 1)..(n1 + n2 - 1) PROVE calls'[g].prefix \in R
      BY <1>22, <1>23
    <3>4. CASE i \in 1..n1 /\ j \in 1..n1
      BY <1>20, <2>3, <3>2, <3>4
    <3>5. CASE i \in (n1 + 1)..(n1 + n2 - 1) /\ j \in (n1 + 1)..(n1 + n2 - 1)
      <4>1. calls[i - n1 + 1].prefix = calls[j - n1 + 1].prefix
        BY <1>22, <2>3, <3>5
      <4>2. i - n1 + 1 = j - n1 + 1
        BY <1>3, <1>23, <3>5, <4>1 DEF CallsToCome
      <4> QED BY <1>20, <3>5, <4>2
    <3> QED BY <2>3, <3>1, <3>2, <3>3, <3>4, <3>5
  <2> HIDE DEF D2
  <2> QED BY <1>2, <1>16, <2>1, <2>2, <2>3 DEF CallsToCome
<1>26. BuildTypes'
  <2>1. Paired(keys, values)'
    BY <1>2, <1>3 DEF Paired
  <2>2. \E n \in Nat : DOMAIN cells' = 0..(n - 1) /\ n >= BlockSize /\ nextCheckPos' <= n
    BY <1>2, <1>13
  <2>3. ASSUME NEW x \in DOMAIN new PROVE new[x] \in Units
    <3>1. CASE x = call.at
      <4>1. cells[call.at] \in Units
        BY <1>12, <1>14
      <4>2. [cells[call.at] EXCEPT !.payload = b, !.hasLeaf = @ \/ 0 \in C] \in Units
        BY <1>7, <4>1 DEF Units
      <4> QED BY <1>13, <3>1, <4>2
    <3>2. EmptyUnit \in Units /\ \A c \in C : [EmptyUnit EXCEPT !.label = c] \in Units
      <4>1. 0 \in 0..PayloadMask /\ 0 \in Bytes
        BY DoubleArrayAssumption DEF Bytes
      <4> QED BY <1>6, <4>1 DEF EmptyUnit, Units
    <3>3. CASE x # call.at /\ \A c \in C : x # At(c)
      <4>1. CASE x \in DOMAIN cells
        BY <1>13, <1>14, <3>3, <4>1
      <4>2. CASE x \notin DOMAIN cells
        BY <1>13, <3>2, <3>3, <4>2
      <4> QED BY <4>1, <4>2
    <3>4. ASSUME NEW c \in C, x = At(c) PROVE new[x] \in Units
      <4>1. CASE c = 0
        <5>1. PICK i \in DOMAIN keys : keys[i] = p
          BY <1>3, <1>5, <3>4, <4>1, LabelsOfNode DEF C
        <5>2. (CHOOSE j \in DOMAIN keys : keys[j] = p) = i
          BY <1>3, <5>1 DEF Shaped
        <5>3. values[i] \in 0..PayloadMask
          <6>1. DOMAIN keys = 1..Len(keys)
            BY <1>3 DEF Shaped
          <6>2. i \in 1..Len(values) /\ values \in Seq(0..PayloadMask)
            BY <1>3, <6>1 DEF Paired
          <6> QED BY <6>2, ElementOfSeq
        <5>4. new[x] = UnitOfValue(values[i])
          BY <1>9, <1>13, <3>4, <4>1, <5>2
        <5> QED BY <5>3, <5>4, ValueKept
      <4>2. CASE c # 0
        BY <1>13, <3>2, <3>4, <4>2, ZenonT(30)
      <4> QED BY <4>1, <4>2
    <3> QED BY <3>1, <3>3, <3>4
  <2>4. used' \subseteq DOMAIN cells'
    BY <1>2, <1>13, <1>14
  <2>5. nextCheckPos' \in 0..(PayloadMask + 1)
    BY <1>2, <1>7, DoubleArrayAssumption
  <2> QED BY <1>2, <1>22, <2>1, <2>2, <2>3, <2>4, <2>5 DEF BuildTypes, Calls
<1>27. D2 \subseteq Reached(keys, D2)
  BY <1>3, <1>5, <1>16
<1>28. Grown(base2)'
  <2> HIDE DEF D2
  <2> QED BY <1>2, <1>16, <1>18, <1>19, <1>25, <1>27 DEF Grown
<1> QED BY <1>26, <1>28 DEF BuildInv

\* When no call is left every beginning of a key has its base, so the array,
\* cut behind its last unit in use, encodes the keys.
LEMMA BuildEnds ==
  ASSUME BuildInv, FinishBuild
  PROVE  \E base : Encodes(units', keys, values, base)
<1>1. PICK base : Grown(base)
  BY DEF BuildInv
<1>2. /\ Paired(keys, values) /\ Shaped(keys) /\ keys # <<>> /\ BuildTypes
      /\ DOMAIN base \subseteq Reached(keys, DOMAIN base)
      /\ DOMAIN base \subseteq Beginnings(keys)
      /\ BasesApart(base) /\ CellsHold(base) /\ CallsToCome(base)
  BY <1>1 DEF BuildInv, BuildTypes, Grown, Paired, Reached
<1> DEFINE B == Beginnings(keys)
<1>3. Reached(keys, DOMAIN base) \subseteq DOMAIN base
  <2>1. \A i \in DOMAIN calls : FALSE
    BY DEF FinishBuild
  <2> QED BY <1>2, <2>1 DEF CallsToCome
<1>4. DOMAIN base = B
  <2> DEFINE P == {n \in Nat : \A q \in B : Len(q) = n => q \in DOMAIN base}
  <2>1. 0 \in P
    <3> SUFFICES ASSUME NEW q \in B, Len(q) = 0 PROVE q \in DOMAIN base
      OBVIOUS
    <3>1. q = <<>>
      BY DEF Beginnings
    <3> QED BY <1>3, <3>1 DEF Reached
  <2>2. ASSUME NEW n \in P PROVE n + 1 \in P
    <3> SUFFICES ASSUME NEW q \in B, Len(q) = n + 1 PROVE q \in DOMAIN base
      OBVIOUS
    <3>1. q \in Seq(Bytes) /\ q # <<>> /\ n \in Nat
      BY DEF Beginnings
    <3>2. Front(q) \in Seq(Bytes) /\ Len(Front(q)) = n /\ Last(q) \in Bytes /\ q = Append(Front(q), Last(q))
      BY <3>1 DEF Front, Last
    <3>3. Front(q) \in B
      <4> DEFINE f == Front(q)
                 l == Last(q)
      <4>1. f \in Seq(Bytes) /\ l \in Bytes /\ Append(f, l) \in Beginnings(keys)
        BY <3>2
      <4> HIDE DEF f, l
      <4>2. f \in Beginnings(keys)
        BY <1>2, <4>1, BeginningsClosed
      <4> QED BY <4>2 DEF f
    <3>4. Front(q) \in DOMAIN base
      BY <3>2, <3>3
    <3> QED BY <1>3, <3>4 DEF Reached
  <2>3. P = Nat
    <3>1. P \in SUBSET Nat
      OBVIOUS
    <3> HIDE DEF P
    <3> QED BY <2>1, <2>2, <3>1, Induction
  <2>4. \A q \in B : Len(q) \in Nat
    BY DEF Beginnings
  <2> QED BY <1>2, <2>3, <2>4
<1>5. Reached(keys, DOMAIN base) = B
  BY <1>2, <1>3, <1>4 DEF Reached
<1>6. base \in [B -> 0..PayloadMask] /\ \A p, q \in B : base[p] = base[q] => p = q
  BY <1>2, <1>4 DEF BasesApart
<1>7. /\ \A q \in B : cells[CellOf(base, q)] = UnitOfNode(keys, base, q)
      /\ \A i \in DOMAIN keys : keys[i] \in B /\ cells[base[keys[i]]] = UnitOfValue(values[i])
      /\ \A x \in DOMAIN cells \ used : cells[x] = EmptyUnit
  <2>1. \A i \in DOMAIN keys : keys[i] \in B
    BY <1>2, BeginningsClosed
  <2> QED BY <1>2, <1>4, <1>5, <2>1 DEF CellsHold
<1>8. PICK n \in Nat : DOMAIN cells = 0..(n - 1)
  BY <1>2 DEF BuildTypes
<1>9. /\ \A q \in B : CellOf(base, q) \in DOMAIN cells
      /\ \A i \in DOMAIN keys : base[keys[i]] \in DOMAIN cells
  <2>1. used = Slots(keys, base) /\ used \subseteq DOMAIN cells
    BY <1>2 DEF CellsHold, BuildTypes
  <2>2. \A q \in B : CellOf(base, q) \in used
    BY <1>2, <1>5, <2>1, CellTaken
  <2>3. \A i \in DOMAIN keys : base[keys[i]] \in used
    BY <1>2, <1>4, <1>7, <2>1, CellsApart
  <2> QED BY <2>1, <2>2, <2>3
<1>10. ASSUME NEW q \in B, q # <<>>
       PROVE  /\ Front(q) \in B /\ Last(q) \in Labels(keys, Front(q)) \ {0} /\ Last(q) # 0
              /\ cells[CellOf(base, q)].label = Last(q)
  <2>1. PICK p \in B : \E c \in Labels(keys, p) \ {0} : q = Append(p, c)
    BY <1>2, <1>4, <1>5, <1>10, ReachedFacts
  <2>2. PICK c \in Labels(keys, p) \ {0} : q = Append(p, c)
    BY <2>1
  <2>3. p \in Seq(Bytes) /\ c \in Bytes
    BY <1>2, <2>1, LabelsOfNode DEF Beginnings
  <2>4. Front(q) = p /\ Last(q) = c
    BY <2>2, <2>3, AppendCell
  <2>5. cells[CellOf(base, q)].label = Last(q)
    <3>1. UnitOfNode(keys, base, q).label = Last(q)
      BY <1>10 DEF UnitOfNode
    <3> QED BY <1>7, <3>1
  <2> QED BY <2>2, <2>4, <2>5
<1>11. \A i \in DOMAIN keys : values[i] \in 0..PayloadMask
  <2>1. DOMAIN keys = 1..Len(values) /\ values \in Seq(0..PayloadMask)
    BY <1>2 DEF Paired, Shaped
  <2> QED BY <2>1, ElementOfSeq
<1> DEFINE S == {x \in DOMAIN cells : cells[x] # EmptyUnit}
           u == [x \in 0..Max(S) |-> cells[x]]
<1>12. /\ Max(S) \in S /\ \A x \in S : x <= Max(S)
       /\ Max(S) \in 0..(n - 1)
  <2>1. S \in SUBSET Int /\ S \subseteq 0..(n - 1) /\ IsFiniteSet(S)
    <3>1. S \subseteq 0..(n - 1) /\ IsFiniteSet(0..(n - 1))
      BY <1>8, FS_Interval
    <3> QED BY <3>1, FS_Subset
  <2>2. S # {}
    <3>1. 1 \in DOMAIN keys
      BY <1>2 DEF Shaped
    <3>2. base[keys[1]] \in S
      BY <1>7, <1>9, <1>11, <3>1, ValueKept
    <3> QED BY <3>2
  <2> HIDE DEF S
  <2> QED BY <2>1, <2>2, MaxOfFinite
<1>13. units' = u
  BY DEF FinishBuild
<1>14. /\ DOMAIN u = 0..Max(S) /\ DOMAIN u \subseteq DOMAIN cells
       /\ \A x \in DOMAIN u : u[x] = cells[x]
       /\ S \subseteq DOMAIN u /\ 0 \in DOMAIN u
  <2>1. S \subseteq Nat
    BY <1>8
  <2> HIDE DEF S
  <2> QED BY <1>8, <1>12, <2>1
<1> HIDE DEF u, S
<1>15. \A q \in B : CellOf(base, q) \in DOMAIN u /\ u[CellOf(base, q)] = UnitOfNode(keys, base, q)
  <2> TAKE q \in B
  <2>1. CellOf(base, q) \in DOMAIN u
    <3>1. CASE q = <<>>
      BY <1>14, <3>1 DEF CellOf
    <3>2. CASE q # <<>>
      <4>1. CellOf(base, q) \in S
        BY <1>9, <1>10, <3>2 DEF S, EmptyUnit
      <4> QED BY <1>14, <4>1
    <3> QED BY <3>1, <3>2
  <2> QED BY <1>7, <1>14, <2>1
<1>16. \A i \in DOMAIN keys : base[keys[i]] \in DOMAIN u /\ u[base[keys[i]]] = UnitOfValue(values[i])
  <2> TAKE i \in DOMAIN keys
  <2>1. base[keys[i]] \in S
    BY <1>7, <1>9, <1>11, ValueKept DEF S
  <2> QED BY <1>7, <1>14, <2>1
<1>17. ASSUME NEW x \in DOMAIN u, u[x].label # 0
       PROVE  \E p \in B : \E c \in Labels(keys, p) \ {0} : x = BitXor(base[p], c) /\ u[x].label = c
  <2>1. x \in DOMAIN cells /\ cells[x].label # 0
    BY <1>14, <1>17
  <2>2. x \in Slots(keys, base)
    <3>1. x \in used
      BY <1>7, <2>1 DEF EmptyUnit
    <3> QED BY <1>2, <3>1 DEF CellsHold
  <2>3. x # 0
    <3>1. cells[0].label = 0
      <4>1. <<>> \in B
        BY <1>2, BeginningsClosed
      <4>2. CellOf(base, <<>>) = 0
        BY DEF CellOf
      <4>3. UnitOfNode(keys, base, <<>>).label = 0
        BY DEF UnitOfNode
      <4> QED BY <1>7, <4>1, <4>2, <4>3
    <3> QED BY <2>1, <3>1
  <2>4. PICK p \in B : \E c \in Labels(keys, p) : x = BitXor(base[p], c)
    BY <1>4, <2>2, <2>3 DEF Slots
  <2>5. PICK c \in Labels(keys, p) : x = BitXor(base[p], c)
    BY <2>4
  <2>6. p \in Seq(Bytes) /\ c \in Bytes /\ base[p] \in 0..PayloadMask
    BY <1>2, <1>6, LabelsOfNode DEF Beginnings
  <2>7. c # 0
    <3> SUFFICES ASSUME c = 0 PROVE FALSE
      OBVIOUS
    <3>1. PICK i \in DOMAIN keys : keys[i] = p
      BY <1>2, <2>6, LabelsOfNode
    <3>2. x = base[p]
      BY <2>5, <2>6, XorBytes
    <3>3. cells[x].label = 0
      <4>1. UnitOfValue(values[i]).label = 0
        BY DEF UnitOfValue
      <4> QED BY <1>7, <3>1, <3>2, <4>1
    <3> QED BY <2>1, <3>3
  <2>8. Append(p, c) \in B /\ Append(p, c) # <<>> /\ Last(Append(p, c)) = c
        /\ CellOf(base, Append(p, c)) = x
    BY <1>2, <2>5, <2>6, <2>7, AppendCell, BeginningsClosed
  <2>9. cells[x].label = c
    BY <1>10, <2>8
  <2>10. u[x].label = c
    BY <1>14, <2>9
  <2> QED BY <2>5, <2>7, <2>10
<1>18. DOMAIN u \subseteq Nat /\ \A x \in DOMAIN u : u[x] \in Units
  BY <1>2, <1>8, <1>14 DEF BuildTypes
<1>19. Encodes(u, keys, values, base)
  BY <1>6, <1>15, <1>16, <1>17, <1>18 DEF Encodes
<1> QED BY <1>13, <1>19

-----------------------------------------------------------------------------
(* Loading *)

\* A build in progress is at the table being loaded; a finished one serves it;
\* and whatever has been published since answers for its entries.
DictInv ==
  /\ pending \in Tables \cup {<<>>}
  /\ entries \in Tables \cup {<<>>}
  /\ outcome \in {"none", "loaded", "refused"}
  /\ keys = <<>> => calls = <<>> /\ cells = EmptyTrie /\ used = {} /\ nextCheckPos = 0
  /\ keys # <<>> =>
       /\ pending # <<>> /\ Buildable(keys, values) /\ BuildInv
       /\ keys = KeysOf(pending) /\ values = RunStarts(pending)
  /\ keys = <<>> /\ pending # <<>> => Serves(units, pending)
  /\ entries = <<>> => trie = EmptyTrie
  /\ entries # <<>> => Serves(trie, entries)

\* The invariant of the build depends on its own variables only.
LEMMA BuildInvKept ==
  ASSUME BuildInv, UNCHANGED buildVars
  PROVE  BuildInv'
<1>1. /\ keys' = keys /\ values' = values /\ cells' = cells /\ used' = used
      /\ nextCheckPos' = nextCheckPos /\ calls' = calls
  BY DEF buildVars
<1>2. BuildTypes'
  BY <1>1 DEF BuildInv, BuildTypes
<1>3. PICK base : Grown(base)
  BY DEF BuildInv
<1>4. BasesApart(base)'
  BY <1>1, <1>3 DEF Grown, BasesApart
<1>5. CellsHold(base)'
  BY <1>1, <1>3 DEF Grown, CellsHold
<1>6. CallsToCome(base)'
  BY <1>1, <1>3 DEF Grown, CallsToCome
<1>7. Grown(base)'
  BY <1>1, <1>3, <1>4, <1>5, <1>6 DEF Grown
<1> QED BY <1>2, <1>7 DEF BuildInv

\* A load of a table the trie accepts begins a build over its surfaces.
LEMMA LoadKeeps ==
  ASSUME DictInv, Load
  PROVE  DictInv'
<1>1. PICK table \in Tables : pending' = table /\ BeginBuild(KeysOf(table), RunStarts(table))
  BY DEF Load, KeysOf
<1>2. table \in Seq(Seq(Bytes)) /\ table # <<>>
  BY BinaryDictionaryAssumption
<1>3. Buildable(KeysOf(table), RunStarts(table)) /\ keys' = KeysOf(table) /\ values' = RunStarts(table)
      /\ keys' # <<>>
  BY <1>1 DEF BeginBuild
<1>4. BuildInv'
  BY <1>1, <1>2, <1>3, TablePaired, BuildBegins
<1>5. UNCHANGED <<trie, entries, outcome>> /\ pending' # <<>>
  BY <1>1, <1>2 DEF Load
<1> QED BY <1>1, <1>3, <1>4, <1>5 DEF DictInv

\* A step of the build stays at its table; its last one leaves a trie that
\* serves it.
LEMMA BuildKeeps ==
  ASSUME DictInv, Build
  PROVE  DictInv'
<1>1. /\ pending' = pending /\ trie' = trie /\ entries' = entries /\ outcome' = outcome
      /\ pending # <<>> /\ keys # <<>>
  BY DEF Build, dictVars
<1>2. /\ Buildable(keys, values) /\ BuildInv
      /\ keys = KeysOf(pending) /\ values = RunStarts(pending)
  BY <1>1 DEF DictInv
<1>3. CASE PlaceNode
  <2>1. keys' = keys /\ values' = values
    BY <1>3 DEF PlaceNode
  <2>2. BuildInv'
    BY <1>2, <1>3, PlaceKeeps
  <2> QED BY <1>1, <1>2, <2>1, <2>2 DEF DictInv
<1>4. CASE FinishBuild
  <2>1. keys' = <<>> /\ calls' = <<>> /\ cells' = EmptyTrie /\ used' = {} /\ nextCheckPos' = 0
    BY <1>4 DEF FinishBuild, EndBuild
  <2>2. \E base : Encodes(units', keys, values, base)
    BY <1>2, <1>4, BuildEnds
  <2>3. Serves(units', pending)
    BY <1>2, <2>2 DEF Serves
  <2>4. Serves(units, pending)'
    BY <1>1, <2>3
  <2> QED BY <1>1, <2>1, <2>4 DEF DictInv
<1> QED BY <1>3, <1>4 DEF Build

\* No step of a load leaves the invariant.
LEMMA DictInvStep ==
  ASSUME DictInv, [Next]_vars
  PROVE  DictInv'
<1>1. CASE Load
  BY <1>1, LoadKeeps
<1>2. CASE RefuseTable
  <2>1. UNCHANGED <<buildVars, units, pending, trie, entries>> /\ outcome' = "refused"
    BY <1>2 DEF RefuseTable
  <2>2. BuildInv => BuildInv'
    BY <2>1, BuildInvKept
  <2> QED BY <2>1, <2>2 DEF DictInv, buildVars
<1>3. CASE Build
  BY <1>3, BuildKeeps
<1>4. CASE RefuseTrie
  BY <1>4 DEF DictInv, RefuseTrie, FailBuild, EndBuild
<1>5. CASE RefuseRecords
  BY <1>5 DEF DictInv, RefuseRecords, buildVars
<1>6. CASE Publish
  BY <1>6 DEF DictInv, Publish, buildVars
<1>7. CASE UNCHANGED vars
  <2>1. UNCHANGED buildVars /\ UNCHANGED <<units, pending, trie, entries, outcome>>
    BY <1>7 DEF vars, dictVars
  <2>2. BuildInv => BuildInv'
    BY <2>1, BuildInvKept
  <2> QED BY <2>1, <2>2 DEF DictInv, buildVars
<1> QED BY <1>1, <1>2, <1>3, <1>4, <1>5, <1>6, <1>7 DEF Next

\* The invariant holds from the start on.
LEMMA DictInvHolds == Spec => []DictInv
<1>1. Init => DictInv
  BY DEF Init, BuildInit, DictInv
<1>2. DictInv /\ [Next]_vars => DictInv'
  BY DictInvStep
<1> QED BY <1>1, <1>2, PTL DEF Spec

\* What is published is a well-formed array for entries of one table, or
\* nothing; a build never marks a position it has no cell for.
LEMMA TypesFollow ==
  ASSUME DictInv
  PROVE  TypeOK
<1>1. /\ pending \in Tables \cup {<<>>} /\ entries \in Tables \cup {<<>>}
      /\ outcome \in {"none", "loaded", "refused"}
  BY DEF DictInv
<1>2. used \subseteq DOMAIN cells /\ nextCheckPos \in 0..(PayloadMask + 1)
  <2>1. CASE keys = <<>>
    BY <2>1, DoubleArrayAssumption DEF DictInv
  <2>2. CASE keys # <<>>
    BY <2>2 DEF DictInv, BuildInv, BuildTypes
  <2> QED BY <2>1, <2>2
<1>3. DOMAIN trie \subseteq Nat /\ \A p \in DOMAIN trie : trie[p] \in Units
  <2>1. CASE entries = <<>>
    BY <2>1 DEF DictInv, EmptyTrie
  <2>2. CASE entries # <<>>
    BY <2>2 DEF DictInv, Serves, Encodes
  <2> QED BY <2>1, <2>2
<1>4. ASSUME NEW p \in DOMAIN trie
      PROVE  /\ trie[p].label \in Bytes /\ trie[p].payload \in 0..PayloadMask
             /\ trie[p].hasLeaf \in BOOLEAN
  BY <1>3 DEF Units
<1> QED BY <1>1, <1>2, <1>3, <1>4 DEF TypeOK

\* In every state of the program the array in use is well formed, and a load
\* in progress has a cell for every position it has given away.
THEOREM TypesHold == Spec => []TypeOK
<1>1. DictInv => TypeOK
  BY TypesFollow
<1> QED BY <1>1, DictInvHolds, PTL

\* What a lookup finds, in the terms of the published table.
LEMMA LookupsAnswer ==
  ASSUME DictInv
  PROVE  /\ \A q \in Seq(Bytes) : LookupExact(q) = Index!EntriesOf(entries, q)
         /\ \A text \in Seq(Bytes) :
              Lookup(text) =
                UNION {{<<i, n>> : i \in Index!EntriesOf(entries, SubSeq(text, 1, n))} :
                         n \in 1..Len(text)}
<1>1. entries \in Seq(Seq(Bytes)) /\ (entries = <<>> => trie = EmptyTrie)
      /\ (entries # <<>> => Serves(trie, entries))
  <2>1. entries \in Tables \cup {<<>>} /\ (entries = <<>> => trie = EmptyTrie)
        /\ (entries # <<>> => Serves(trie, entries))
    BY DEF DictInv
  <2>2. <<>> \in Seq(Seq(Bytes)) /\ Tables \subseteq Seq(Seq(Bytes))
    BY BinaryDictionaryAssumption
  <2> QED BY <2>1, <2>2
<1>2. \A value : RunFrom(value) = RunIn(entries, value)
  BY DEF RunFrom, RunIn
<1>3. ASSUME NEW q \in Seq(Bytes) PROVE LookupExact(q) = Index!EntriesOf(entries, q)
  <2>1. LookupExact(q) = ExactIn(trie, entries, q)
    BY <1>2 DEF LookupExact, ExactIn
  <2> QED BY <1>1, <2>1, ExactAnswers
<1>4. ASSUME NEW text \in Seq(Bytes)
      PROVE  Lookup(text) =
               UNION {{<<i, n>> : i \in Index!EntriesOf(entries, SubSeq(text, 1, n))} :
                        n \in 1..Len(text)}
  <2>1. Lookup(text) = PrefixIn(trie, entries, text)
    BY <1>2 DEF Lookup, PrefixIn
  <2> QED BY <1>1, <2>1, PrefixAnswers
<1> QED BY <1>3, <1>4

\* Prefix search finds, for every text, exactly the entries that exact match
\* finds for its prefixes, whatever dictionary was built and published.
THEOREM PrefixSearchHolds == Spec => []PrefixSearchExact
<1>1. ASSUME DictInv PROVE PrefixSearchExact
  <2> SUFFICES ASSUME NEW text \in Queries
               PROVE  Lookup(text) =
                        UNION {{<<i, n>> : i \in LookupExact(SubSeq(text, 1, n))} : n \in 1..Len(text)}
    BY DEF PrefixSearchExact
  <2>1. text \in Seq(Bytes)
    BY BinaryDictionaryAssumption
  <2>2. \A n \in 1..Len(text) : SubSeq(text, 1, n) \in Seq(Bytes)
    BY <2>1
  <2>3. \A n \in 1..Len(text) :
          LookupExact(SubSeq(text, 1, n)) = Index!EntriesOf(entries, SubSeq(text, 1, n))
    BY <1>1, <2>2, LookupsAnswer
  <2>4. Lookup(text) =
          UNION {{<<i, n>> : i \in Index!EntriesOf(entries, SubSeq(text, 1, n))} : n \in 1..Len(text)}
    BY <1>1, <2>1, LookupsAnswer
  <2> QED BY <2>3, <2>4
<1> QED BY <1>1, DictInvHolds, PTL

\* Loading and looking up implement the abstract index: every step of a load
\* is a step of the index or invisible to it.
LEMMA StepsLikeIndex ==
  ASSUME DictInv, DictInv', [Next]_vars
  PROVE  [Index!Next]_(Index!vars)
<1> DEFINE answers == [q \in Queries |-> LookupExact(q)]
<1>1. UNCHANGED <<trie, entries>> => answers' = answers
  BY DEF LookupExact, RunFrom
<1>2. CASE Load
  <2>1. Index!Start
    BY <1>1, <1>2 DEF Load, Index!Start
  <2> QED BY <2>1 DEF Index!Next
<1>3. CASE RefuseTable
  <2>1. Index!Refuse
    BY <1>1, <1>3 DEF RefuseTable, Index!Refuse
  <2> QED BY <2>1 DEF Index!Next
<1>4. CASE Build
  BY <1>1, <1>4 DEF Build, dictVars, Index!vars
<1>5. CASE RefuseTrie
  <2>1. Index!Refuse
    BY <1>1, <1>5 DEF RefuseTrie, Index!Refuse
  <2> QED BY <2>1 DEF Index!Next
<1>6. CASE RefuseRecords
  <2>1. Index!Refuse
    BY <1>1, <1>6 DEF RefuseRecords, Index!Refuse
  <2> QED BY <2>1 DEF Index!Next
<1>7. CASE Publish
  <2>1. ASSUME NEW q \in Queries PROVE LookupExact(q)' = Index!EntriesOf(pending, q)
    <3>1. q \in Seq(Bytes) /\ entries' = pending
      BY <1>7, BinaryDictionaryAssumption DEF Publish
    <3>2. /\ pending \in Seq(Seq(Bytes)) /\ (pending = <<>> => trie' = EmptyTrie)
          /\ (pending # <<>> => Serves(trie', pending))
      <4>1. pending \in Tables /\ pending # <<>> /\ pending \in Seq(Seq(Bytes))
        BY <1>7, BinaryDictionaryAssumption DEF DictInv, Publish
      <4>2. Serves(trie, entries)'
        BY <3>1, <4>1 DEF DictInv
      <4> QED BY <3>1, <4>1, <4>2
    <3>3. ExactIn(trie', pending, q) = Index!EntriesOf(pending, q)
      BY <3>1, <3>2, ExactAnswers
    <3>4. LookupExact(q)' = ExactIn(trie', pending, q)
      BY <3>1 DEF LookupExact, RunFrom, ExactIn, RunIn
    <3> QED BY <3>3, <3>4
  <2>2. answers' = [q \in Queries |-> Index!EntriesOf(pending, q)]
    BY <2>1
  <2>3. Index!Succeed
    BY <1>7, <2>2 DEF Publish, Index!Succeed
  <2> QED BY <2>3 DEF Index!Next
<1>8. CASE UNCHANGED vars
  BY <1>1, <1>8 DEF vars, dictVars, Index!vars
<1> QED BY <1>2, <1>3, <1>4, <1>5, <1>6, <1>7, <1>8 DEF Next

\* Every dictionary, at every point of every load, answers as the abstract
\* index does: a load that fails changes no answer, one that succeeds changes
\* all of them at once, and a surface finds all its entries and no others.
THEOREM IndexImplemented == Spec => AnswersLikeIndex
<1>1. Init => Index!Init
  <2> SUFFICES ASSUME Init PROVE Index!Init
    OBVIOUS
  <2>1. entries = <<>> /\ trie = EmptyTrie /\ pending = <<>> /\ outcome = "none"
    BY DEF Init
  <2>2. ASSUME NEW q \in Queries PROVE LookupExact(q) = {}
    <3>1. RunFrom(ExactMatch(trie, q)) = {}
      BY <2>1 DEF RunFrom
    <3> QED BY <3>1 DEF LookupExact
  <2> QED BY <2>1, <2>2 DEF Index!Init
<1>2. DictInv /\ DictInv' /\ [Next]_vars => [Index!Next]_(Index!vars)
  BY StepsLikeIndex
<1> QED BY <1>1, <1>2, DictInvHolds, PTL DEF Spec, AnswersLikeIndex, Index!Spec
=============================================================================
