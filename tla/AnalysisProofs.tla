--------------------------- MODULE AnalysisProofs ---------------------------
(***************************************************************************)
(* Three parts of the analysis of a text, for any text, vocabulary, limits *)
(* and whatever the matchers match.                                        *)
(*                                                                         *)
(* The inflection cache: both generations stay within bounds, an insert    *)
(* never meets an older node, and a node outlives the first rollover after *)
(* it was inserted.                                                        *)
(*                                                                         *)
(* The postprocessor: whatever the passes merge and rewrite, every         *)
(* character that is kept is in exactly one morpheme, a morpheme that was  *)
(* not merged has the lemma its own piece of the lattice gave it, and the  *)
(* tags generated are the first ones the filter lets through.              *)
(*                                                                         *)
(* Text analysis: nothing is lost, offsets are exact, cuts fall between    *)
(* characters and analyzeChunk is never given more than the limit.         *)
(***************************************************************************)
EXTENDS InflectionCache, Analyzer, Postprocessor, SharedLemmas, SequenceTheorems, FiniteSetTheorems

-----------------------------------------------------------------------------

(***************************************************************************)
(* The inflection cache                                                    *)
(***************************************************************************)

\* What a call has still to analyse is part of its own remainders, so the
\* surfaces of nested calls get strictly shorter; and caches are finite.
CallsShrink == \A i \in DOMAIN calls : calls[i].rest \subseteq Remainders[calls[i].surface]

CacheInv ==
  /\ CacheTypeOK
  /\ IsFiniteSet(cache) /\ IsFiniteSet(previous)
  /\ GenerationsBounded
  /\ CallsShrink
  /\ PendingNotCached
  /\ NodesSurviveOneRollover

\* rollCacheIfFull leaves room for one entry, keeps nothing twice, brings back
\* nothing that was gone, and ages every reference it may invalidate.
LEMMA RollProperties ==
  ASSUME CacheInv
  PROVE  /\ ActiveAfterRoll \subseteq cache /\ PreviousAfterRoll \subseteq cache \cup previous
         /\ IsFiniteSet(ActiveAfterRoll) /\ IsFiniteSet(PreviousAfterRoll)
         /\ Cardinality(ActiveAfterRoll) < MaxCacheEntries
         /\ Cardinality(PreviousAfterRoll) <= MaxCacheEntries
         /\ ActiveAfterRoll \cap PreviousAfterRoll = {}
         /\ HeldAfterRoll \subseteq Reference
         /\ \A r \in HeldAfterRoll : r.age <= 1 =>
              \/ r.age = 0 /\ r.surface \in ActiveAfterRoll
              \/ r.age = 1 /\ r.surface \in PreviousAfterRoll
<1> USE DEF CacheInv
<1>1. /\ cache \cap previous = {}
      /\ Cardinality(cache) <= MaxCacheEntries /\ Cardinality(previous) <= MaxCacheEntries
      /\ IsFiniteSet(cache) /\ IsFiniteSet(previous)
      /\ held \subseteq Reference
      /\ \A r \in held : r.age <= 1 => Alive(r)
  BY DEF GenerationsBounded, CacheTypeOK, NodesSurviveOneRollover
<1>2. /\ Cardinality(cache) \in Nat /\ Cardinality({}) = 0 /\ IsFiniteSet({})
      /\ MaxCacheEntries \in Nat /\ 0 < MaxCacheEntries
  <2>1. MaxCacheEntries \in Nat \ {0}
    BY InflectionAssumption
  <2> QED BY <1>1, <2>1, FS_CardinalityType, FS_EmptySet
<1>3. CASE Full
  <2>1. /\ ActiveAfterRoll = {} /\ PreviousAfterRoll = cache
        /\ HeldAfterRoll = {[r EXCEPT !.age = Older(@), !.since = Older(@)] : r \in held}
    BY <1>3 DEF ActiveAfterRoll, PreviousAfterRoll, HeldAfterRoll
  <2>2. ASSUME NEW q \in HeldAfterRoll
        PROVE  q \in Reference /\ (q.age <= 1 => q.age = 1 /\ q.surface \in cache)
    <3>1. PICK r \in held : q = [r EXCEPT !.age = Older(@), !.since = Older(@)]
      BY <2>1
    <3>2. r \in Reference /\ r.age \in 0..2 /\ r.since \in 0..2
      BY <1>1 DEF Reference
    <3>3. q.age = Older(r.age) /\ q.surface = r.surface /\ q \in Reference
      <4>1. Older(r.age) \in 0..2 /\ Older(r.since) \in 0..2
        BY <3>2 DEF Older
      <4>2. r = [surface |-> r.surface, age |-> r.age, since |-> r.since] /\ r.surface \in Surfaces
        BY <3>2 DEF Reference
      <4>3. q = [surface |-> r.surface, age |-> Older(r.age), since |-> Older(r.since)]
        BY <3>1, <4>2
      <4> QED BY <4>1, <4>2, <4>3 DEF Reference
    <3>4. q.age <= 1 => q.age = 1 /\ r.age = 0
      BY <3>2, <3>3 DEF Older
    <3>5. r.age = 0 => r.surface \in cache
      BY <1>1 DEF Alive
    <3> QED BY <3>3, <3>4, <3>5
  <2>3. HeldAfterRoll \subseteq Reference
    BY <2>2
  <2>4. Cardinality(ActiveAfterRoll) < MaxCacheEntries
    BY <1>2, <2>1
  <2>5. \A r \in HeldAfterRoll : r.age <= 1 => r.age = 1 /\ r.surface \in PreviousAfterRoll
    BY <2>1, <2>2
  <2>6. /\ ActiveAfterRoll \subseteq cache /\ PreviousAfterRoll \subseteq cache \cup previous
        /\ IsFiniteSet(ActiveAfterRoll) /\ IsFiniteSet(PreviousAfterRoll)
        /\ Cardinality(PreviousAfterRoll) <= MaxCacheEntries
        /\ ActiveAfterRoll \cap PreviousAfterRoll = {}
    BY <1>1, <1>2, <2>1
  <2> QED BY <2>3, <2>4, <2>5, <2>6
<1>4. CASE ~Full
  <2>1. ActiveAfterRoll = cache /\ PreviousAfterRoll = previous /\ HeldAfterRoll = held
    BY <1>4 DEF ActiveAfterRoll, PreviousAfterRoll, HeldAfterRoll
  <2>2. Cardinality(cache) < MaxCacheEntries
    BY <1>2, <1>4 DEF Full
  <2> QED BY <1>1, <2>1, <2>2 DEF Alive
<1> QED BY <1>3, <1>4

\* A hit takes a reference to the node where it is, live in either generation.
LEMMA AnalyzeHitInv ==
  ASSUME CacheInv, AnalyzeHit
  PROVE  CacheInv'
<1>1. PICK s \in Surfaces :
        Cached(s) /\ held' = held \cup {[surface |-> s, age |-> AgeOf(s), since |-> 0]}
  BY DEF AnalyzeHit
<1>2. UNCHANGED <<cache, previous, calls>>
  BY DEF AnalyzeHit
<1>3. \A r \in held' : r \in Reference /\ (r.age <= 1 => Alive(r))
  BY <1>1 DEF CacheInv, CacheTypeOK, NodesSurviveOneRollover, Alive, AgeOf, Cached, Reference
<1>4. CacheTypeOK' /\ NodesSurviveOneRollover'
  BY <1>2, <1>3 DEF CacheInv, CacheTypeOK, NodesSurviveOneRollover, Alive
<1> QED BY <1>2, <1>4 DEF CacheInv, GenerationsBounded, CallsShrink, PendingNotCached, Cached

\* A miss starts an outermost call, whose surface is cached nowhere.
LEMMA AnalyzeMissInv ==
  ASSUME CacheInv, AnalyzeMiss
  PROVE  CacheInv'
<1> USE InflectionAssumption
<1>1. PICK s \in Surfaces :
        ~Cached(s) /\ calls' = <<[surface |-> s, rest |-> Remainders[s]]>>
  BY DEF AnalyzeMiss
<1>2. UNCHANGED <<cache, previous, held>>
  BY DEF AnalyzeMiss
<1> DEFINE call == [surface |-> s, rest |-> Remainders[s]]
<1>3. call \in Call /\ call.surface = s /\ call.rest = Remainders[s]
  BY DEF Call
<1> HIDE DEF call
<1>4. calls' = <<call>> /\ calls' \in Seq(Call) /\ DOMAIN calls' = {1} /\ calls'[1] = call
  BY <1>1, <1>3 DEF call
<1>5. CallsShrink' /\ PendingNotCached'
  BY <1>1, <1>2, <1>3, <1>4 DEF CallsShrink, PendingNotCached, Cached
<1> QED BY <1>2, <1>4, <1>5 DEF CacheInv, CacheTypeOK, GenerationsBounded, NodesSurviveOneRollover, Alive

\* A nested call is on a strictly shorter surface that is not cached.
LEMMA RecurseInv ==
  ASSUME CacheInv, Recurse
  PROVE  CacheInv'
<1> USE InflectionAssumption
<1> DEFINE n == Len(calls)
           outer(r) == [calls EXCEPT ![n].rest = @ \ {r}]
           inner(r) == [surface |-> r, rest |-> Remainders[r]]
<1>1. PICK r \in calls[n].rest :
        calls' = IF Cached(r) THEN outer(r) ELSE Append(outer(r), inner(r))
  BY DEF Recurse
<1>2. UNCHANGED <<cache, previous, held>> /\ calls # <<>>
  BY DEF Recurse
<1>3. calls \in Seq(Call) /\ n \in Nat /\ n \in DOMAIN calls /\ DOMAIN calls = 1..n
      /\ \A i \in DOMAIN calls : calls[i] \in Call
  <2>1. calls \in Seq(Call)
    BY DEF CacheInv, CacheTypeOK
  <2> QED BY <1>2, <2>1, ElementOfSeq
<1>4. /\ \A i \in DOMAIN calls : calls[i].rest \subseteq Remainders[calls[i].surface]
      /\ \A i \in DOMAIN calls : ~Cached(calls[i].surface)
      /\ \A i, j \in DOMAIN calls : i < j => Size[calls[j].surface] < Size[calls[i].surface]
  BY DEF CacheInv, CallsShrink, PendingNotCached
<1>5. r \in Surfaces /\ r \in Remainders[calls[n].surface] /\ calls[n].surface \in Surfaces
      /\ Size[r] < Size[calls[n].surface]
  BY <1>3, <1>4 DEF Call
<1> DEFINE o == outer(r)
<1>6. /\ o \in Seq(Call) /\ Len(o) = n /\ DOMAIN o = 1..n
      /\ \A i \in 1..n : o[i].surface = calls[i].surface /\ o[i].rest \subseteq calls[i].rest
  <2>1. [calls[n] EXCEPT !.rest = @ \ {r}] \in Call
    BY <1>3 DEF Call
  <2>2. o \in [1..n -> Call]
    BY <1>3, <2>1
  <2>3. o \in Seq(Call) /\ Len(o) = n /\ DOMAIN o = 1..n
    BY <1>3, <2>2
  <2>4. ASSUME NEW i \in 1..n
        PROVE  o[i].surface = calls[i].surface /\ o[i].rest \subseteq calls[i].rest
    BY <1>3 DEF Call
  <2> QED BY <2>3, <2>4
<1>7. inner(r) \in Call /\ inner(r).surface = r /\ inner(r).rest = Remainders[r]
  BY <1>5 DEF Call
<1> DEFINE c == inner(r)
<1> HIDE DEF o, c
<1>8. /\ calls' \in Seq(Call)
      /\ \A i \in DOMAIN calls' : i \in Nat /\
           \/ i \in 1..n /\ calls'[i] = o[i]
           \/ i = n + 1 /\ calls'[i] = c /\ ~Cached(r)
  <2>1. CASE Cached(r)
    BY <1>1, <1>3, <1>6, <2>1 DEF o
  <2>2. CASE ~Cached(r)
    <3>1. calls' = Append(o, c)
      BY <1>1, <2>2 DEF o, c
    <3>2. c \in Call
      BY <1>7 DEF c
    <3>3. /\ calls' \in Seq(Call) /\ Len(calls') = n + 1
          /\ \A i \in 1..n : calls'[i] = o[i]
          /\ calls'[n + 1] = c
      BY <1>6, <3>1, <3>2, AppendProperties
    <3>4. DOMAIN calls' = 1..(n + 1)
      BY <3>3
    <3> QED BY <1>3, <2>2, <3>3, <3>4
  <2> QED BY <2>1, <2>2
<1>9. c.surface = r /\ c.rest = Remainders[r]
  BY <1>7 DEF c
<1>10. CallsShrink'
  BY <1>3, <1>4, <1>6, <1>8, <1>9 DEF CallsShrink
<1>11. ASSUME NEW i \in DOMAIN calls'
       PROVE  ~Cached(calls'[i].surface)
  BY <1>3, <1>4, <1>6, <1>8, <1>9
<1>12. ASSUME NEW i \in DOMAIN calls', NEW j \in DOMAIN calls', i < j
       PROVE  Size[calls'[j].surface] < Size[calls'[i].surface]
  <2>1. i \in 1..n /\ calls'[i].surface = calls[i].surface
    BY <1>3, <1>6, <1>8, <1>12
  <2>2. CASE j \in 1..n /\ calls'[j] = o[j]
    BY <1>3, <1>4, <1>6, <1>12, <2>1, <2>2
  <2>3. CASE j = n + 1 /\ calls'[j] = c
    <3>1. i = n \/ Size[calls[n].surface] < Size[calls[i].surface]
      BY <1>3, <1>4, <2>1
    <3>2. calls[i].surface \in Surfaces
      BY <1>3, <2>1 DEF Call
    <3> QED BY <1>5, <1>9, <2>1, <2>3, <3>1, <3>2
  <2> QED BY <1>8, <2>2, <2>3
<1>13. PendingNotCached'
  BY <1>2, <1>11, <1>12 DEF PendingNotCached, Cached
<1> QED BY <1>2, <1>8, <1>10, <1>13
        DEF CacheInv, CacheTypeOK, GenerationsBounded, NodesSurviveOneRollover, Alive

\* The end of a call: after the roll there is room for the new node, no
\* generation holds its surface, and no call still open is on that surface.
LEMMA StoreInv ==
  ASSUME CacheInv, Store
  PROVE  CacheInv'
<1> USE InflectionAssumption
<1> DEFINE n == Len(calls)
           s == calls[n].surface
           new == [surface |-> s, age |-> 0, since |-> 0]
<1>1. /\ calls # <<>>
      /\ cache' = ActiveAfterRoll \cup {s} /\ previous' = PreviousAfterRoll
      /\ held' = HeldAfterRoll \cup (IF n = 1 THEN {new} ELSE {})
      /\ calls' = SubSeq(calls, 1, n - 1)
  BY DEF Store
<1>2. calls \in Seq(Call) /\ n \in Nat /\ n \in DOMAIN calls /\ DOMAIN calls = 1..n
      /\ n - 1 \in Nat /\ s \in Surfaces
  <2>1. calls \in Seq(Call)
    BY DEF CacheInv, CacheTypeOK
  <2>2. n \in DOMAIN calls /\ n \in Nat /\ DOMAIN calls = 1..n /\ n - 1 \in Nat
    BY <1>1, <2>1
  <2>3. calls[n] \in Call
    BY <2>1, <2>2, ElementOfSeq
  <2> QED BY <2>1, <2>2, <2>3 DEF Call
<1>3. calls' \in Seq(Call) /\ DOMAIN calls' = 1..(n - 1) /\ \A i \in 1..(n - 1) : calls'[i] = calls[i]
  BY <1>1, <1>2
<1>4. ~Cached(s) /\ \A i \in 1..(n - 1) : ~Cached(calls[i].surface) /\ calls[i].surface # s
  <2>1. \A i \in DOMAIN calls : ~Cached(calls[i].surface) /\
          \A j \in DOMAIN calls : i < j => Size[calls[j].surface] < Size[calls[i].surface]
    BY DEF CacheInv, PendingNotCached
  <2>2. \A i \in 1..(n - 1) : Size[s] < Size[calls[i].surface] /\ i \in DOMAIN calls
    BY <1>2, <2>1
  <2>3. Size[s] \in Nat
    BY <1>2
  <2>4. ~(Size[s] < Size[s])
    BY <2>3
  <2>5. \A i \in 1..(n - 1) : calls[i].surface # s
    BY <2>2, <2>4
  <2> QED BY <1>2, <2>1, <2>2, <2>5
<1>5. /\ ActiveAfterRoll \subseteq cache /\ PreviousAfterRoll \subseteq cache \cup previous
      /\ IsFiniteSet(ActiveAfterRoll) /\ IsFiniteSet(PreviousAfterRoll)
      /\ Cardinality(ActiveAfterRoll) < MaxCacheEntries
      /\ Cardinality(PreviousAfterRoll) <= MaxCacheEntries
      /\ ActiveAfterRoll \cap PreviousAfterRoll = {}
      /\ HeldAfterRoll \subseteq Reference
      /\ \A r \in HeldAfterRoll : r.age <= 1 =>
           \/ r.age = 0 /\ r.surface \in ActiveAfterRoll
           \/ r.age = 1 /\ r.surface \in PreviousAfterRoll
  BY RollProperties
<1>6. s \notin ActiveAfterRoll /\ s \notin PreviousAfterRoll
  BY <1>4, <1>5 DEF Cached
<1>7. IsFiniteSet(cache') /\ Cardinality(cache') <= MaxCacheEntries
  <2>1. IsFiniteSet(cache') /\ Cardinality(cache') = Cardinality(ActiveAfterRoll) + 1
    BY <1>1, <1>5, <1>6, FS_AddElement
  <2>2. Cardinality(ActiveAfterRoll) \in Nat
    BY <1>5, FS_CardinalityType
  <2> QED BY <1>5, <2>1, <2>2
<1>8. GenerationsBounded' /\ IsFiniteSet(previous')
  BY <1>1, <1>5, <1>6, <1>7 DEF GenerationsBounded
<1>9. cache' \cup previous' \subseteq cache \cup previous \cup {s}
  BY <1>1, <1>5
<1>10. PendingNotCached'
  BY <1>2, <1>3, <1>4, <1>9 DEF CacheInv, PendingNotCached, Cached
<1>11. CallsShrink'
  BY <1>2, <1>3 DEF CacheInv, CallsShrink
<1>12. new \in Reference /\ new.age = 0 /\ new.surface = s
  BY <1>2 DEF Reference
<1>13. CacheTypeOK' /\ NodesSurviveOneRollover'
  <2> HIDE DEF new
  <2>1. held' \subseteq Reference
    BY <1>1, <1>5, <1>12
  <2>2. \A r \in held' : r.age <= 1 => \/ r.age = 0 /\ r.surface \in cache'
                                       \/ r.age = 1 /\ r.surface \in previous'
    BY <1>1, <1>5, <1>12
  <2> QED BY <1>1, <1>2, <1>3, <1>5, <2>1, <2>2
          DEF CacheInv, CacheTypeOK, NodesSurviveOneRollover, Alive
<1> QED BY <1>7, <1>8, <1>10, <1>11, <1>13 DEF CacheInv

\* Dropping a reference changes no node.
LEMMA ReleaseInv ==
  ASSUME CacheInv, Release
  PROVE  CacheInv'
<1>1. UNCHANGED <<cache, previous, calls>> /\ held' \subseteq held
  BY DEF Release
<1> QED BY <1>1 DEF CacheInv, CacheTypeOK, GenerationsBounded, CallsShrink, PendingNotCached, Cached,
                    NodesSurviveOneRollover, Alive

\* A roll between chunks, when no reference is held.
LEMMA RollCacheInv ==
  ASSUME CacheInv, RollCache
  PROVE  CacheInv'
<1>1. /\ cache' = ActiveAfterRoll /\ previous' = PreviousAfterRoll
      /\ calls = <<>> /\ held = {} /\ UNCHANGED <<calls, held>>
  BY DEF RollCache
<1>2. /\ ActiveAfterRoll \subseteq cache /\ PreviousAfterRoll \subseteq cache \cup previous
      /\ IsFiniteSet(ActiveAfterRoll) /\ IsFiniteSet(PreviousAfterRoll)
      /\ Cardinality(ActiveAfterRoll) < MaxCacheEntries
      /\ Cardinality(PreviousAfterRoll) <= MaxCacheEntries
      /\ ActiveAfterRoll \cap PreviousAfterRoll = {}
  BY RollProperties
<1>3. Cardinality(ActiveAfterRoll) \in Nat
  BY <1>2, FS_CardinalityType
<1>4. GenerationsBounded'
  BY <1>1, <1>2, <1>3, InflectionAssumption DEF GenerationsBounded
<1>5. CacheTypeOK' /\ CallsShrink' /\ PendingNotCached' /\ NodesSurviveOneRollover'
  BY <1>1, <1>2 DEF CacheInv, CacheTypeOK, CallsShrink, PendingNotCached, NodesSurviveOneRollover
<1> QED BY <1>1, <1>2, <1>4, <1>5 DEF CacheInv

\* Every reachable state of the cache satisfies CacheInv.
THEOREM CacheInvariant == CacheSpec => []CacheInv
<1>1. CacheInit => CacheInv
  BY FS_EmptySet, InflectionAssumption
     DEF CacheInit, CacheInv, CacheTypeOK, GenerationsBounded, CallsShrink, PendingNotCached,
         NodesSurviveOneRollover
<1>2. CacheInv /\ [CacheNext]_cacheVars => CacheInv'
  <2> SUFFICES ASSUME CacheInv, [CacheNext]_cacheVars PROVE CacheInv'
    OBVIOUS
  <2>1. CASE UNCHANGED cacheVars
    BY <2>1 DEF cacheVars, CacheInv, CacheTypeOK, GenerationsBounded, CallsShrink, PendingNotCached,
                Cached, NodesSurviveOneRollover, Alive
  <2>2. CASE CacheNext
    BY <2>2, AnalyzeHitInv, AnalyzeMissInv, RecurseInv, StoreInv, ReleaseInv, RollCacheInv
       DEF CacheNext
  <2> QED BY <2>1, <2>2
<1> QED BY <1>1, <1>2, PTL DEF CacheSpec

\* Both generations stay within kMaxCacheEntries and share no surface.
THEOREM CacheBounded == CacheSpec => []GenerationsBounded
<1>1. CacheInv => GenerationsBounded
  BY DEF CacheInv
<1> QED BY <1>1, CacheInvariant, PTL

\* No call ever inserts a surface that is already cached.
THEOREM InsertsAreFresh == CacheSpec => []PendingNotCached
<1>1. CacheInv => PendingNotCached
  BY DEF CacheInv
<1> QED BY <1>1, CacheInvariant, PTL

\* Every node outlives the first rollover after its insertion.
THEOREM NodesOutliveRollover == CacheSpec => []NodesSurviveOneRollover
<1>1. CacheInv => NodesSurviveOneRollover
  BY DEF CacheInv
<1> QED BY <1>1, CacheInvariant, PTL

-----------------------------------------------------------------------------

(***************************************************************************)
(* The postprocessor                                                       *)
(***************************************************************************)

\* The morphemes of ms at the positions in S, and the characters in a set M.
At(ms, S) == {ms[i] : i \in S}

All(ms) == At(ms, DOMAIN ms)

Chars(M) == UNION {m.start + 1..m.end : m \in M}

Syms(M) == {m \in M : IsSymbol(m)}

PlainSyms(M) == {m \in M : IsSymbol(m) /\ m.word # "mark"}

\* O has the characters of M; its symbols were symbols, and those that are no
\* prolonged mark still are.
Keeps(M, O) ==
  /\ Chars(O) = Chars(M)
  /\ Chars(Syms(O)) \subseteq Chars(Syms(M))
  /\ Chars(PlainSyms(M)) \subseteq Chars(PlainSyms(O))

\* The strings of the vocabulary and those the passes write.
Wording ==
  STRING \cup {"compound", "noun", "adjective", "auxiliary", "negative", "suffix", "adverb", "particle",
               "de", "mo", "copula", "topic"}

Record == [start : Nat, end : Nat, chars : Seq(Nat), word : Wording, pos : Wording,
           role : Wording, formal : BOOLEAN, lemma : Nat]

\* What a morpheme is like in every pass over the lattice's morphemes src.
Good(src) ==
  {m \in Record :
     /\ m.start < m.end
     /\ m.chars = CharsBetween(m.start, m.end)
     /\ IsSymbol(m) => m.role = "symbol" /\ ~m.formal
     /\ m.word = "demo" => m.end = m.start + 2
     /\ m.lemma # Computed => /\ m.lemma \in DOMAIN src
                              /\ src[m.lemma].start = m.start /\ src[m.lemma].end = m.end}

InOrder(ms) == \A i, j \in DOMAIN ms : i < j => ms[i].end <= ms[j].start

Carried(src, ms, out) == out \in Seq(Good(src)) /\ InOrder(out) /\ Keeps(All(ms), All(out))

\* A piece that begins at i does no harm.
PieceOK(src, ms, i, p) ==
  /\ p.next \in i + 1..Len(ms) + 1
  /\ p.out \in Seq(Good(src)) /\ InOrder(p.out)
  /\ \A k \in DOMAIN p.out : ms[i].start <= p.out[k].start /\ p.out[k].end <= ms[p.next - 1].end
  /\ Keeps(At(ms, i..p.next - 1), All(p.out))

\* What is kept of two sets of morphemes apart is kept of both together.
LEMMA KeepsUnion ==
  ASSUME NEW M1, NEW M2, NEW O1, NEW O2, Keeps(M1, O1), Keeps(M2, O2)
  PROVE  Keeps(M1 \cup M2, O1 \cup O2)
<1>1. \A A, B : /\ Chars(A \cup B) = Chars(A) \cup Chars(B)
                /\ Syms(A \cup B) = Syms(A) \cup Syms(B)
                /\ PlainSyms(A \cup B) = PlainSyms(A) \cup PlainSyms(B)
  BY DEF Chars, Syms, PlainSyms
<1>2. Chars(O1 \cup O2) = Chars(M1 \cup M2)
  <2>1. /\ Chars(O1 \cup O2) = Chars(O1) \cup Chars(O2)
        /\ Chars(M1 \cup M2) = Chars(M1) \cup Chars(M2)
    BY <1>1
  <2> QED BY <2>1 DEF Keeps
<1>3. Chars(Syms(O1 \cup O2)) \subseteq Chars(Syms(M1 \cup M2))
  <2>1. /\ Chars(Syms(O1 \cup O2)) = Chars(Syms(O1)) \cup Chars(Syms(O2))
        /\ Chars(Syms(M1 \cup M2)) = Chars(Syms(M1)) \cup Chars(Syms(M2))
    BY <1>1
  <2> QED BY <2>1 DEF Keeps
<1>4. Chars(PlainSyms(M1 \cup M2)) \subseteq Chars(PlainSyms(O1 \cup O2))
  <2>1. /\ Chars(PlainSyms(O1 \cup O2)) = Chars(PlainSyms(O1)) \cup Chars(PlainSyms(O2))
        /\ Chars(PlainSyms(M1 \cup M2)) = Chars(PlainSyms(M1)) \cup Chars(PlainSyms(M2))
    BY <1>1
  <2> QED BY <2>1 DEF Keeps
<1> QED BY <1>2, <1>3, <1>4 DEF Keeps

LEMMA KeepsSelf == ASSUME NEW M PROVE Keeps(M, M)
  BY DEF Keeps

\* Two passes after each other keep what each of them keeps.
LEMMA KeepsChain ==
  ASSUME NEW M, NEW N, NEW O, Keeps(M, N), Keeps(N, O) PROVE Keeps(M, O)
  BY DEF Keeps

\* Putting one row behind the other.
LEMMA InARow ==
  ASSUME NEW T, NEW s \in Seq(T), NEW t \in Seq(T), InOrder(s), InOrder(t),
         \A i \in DOMAIN s, j \in DOMAIN t : s[i].end <= t[j].start
  PROVE  s \o t \in Seq(T) /\ InOrder(s \o t) /\ All(s \o t) = All(s) \cup All(t)
<1> DEFINE r == s \o t
<1>1. /\ r \in Seq(T) /\ Len(r) = Len(s) + Len(t)
      /\ \A i \in 1..Len(s) + Len(t) : r[i] = IF i <= Len(s) THEN s[i] ELSE t[i - Len(s)]
  BY ConcatProperties
<1>2. /\ Len(s) \in Nat /\ Len(t) \in Nat /\ DOMAIN s = 1..Len(s) /\ DOMAIN t = 1..Len(t)
      /\ DOMAIN r = 1..Len(s) + Len(t)
  BY <1>1
<1> HIDE DEF r
<1>3. \A i \in DOMAIN r : \/ i \in DOMAIN s /\ r[i] = s[i]
                          \/ i \notin DOMAIN s /\ i - Len(s) \in DOMAIN t /\ r[i] = t[i - Len(s)]
  BY <1>1, <1>2
<1>4. ASSUME NEW i \in DOMAIN r, NEW j \in DOMAIN r, i < j
      PROVE  r[i].end <= r[j].start
  <2>1. CASE i \in DOMAIN s /\ j \in DOMAIN s
    BY <1>3, <1>4, <2>1 DEF InOrder
  <2>2. CASE i \in DOMAIN s /\ j \notin DOMAIN s
    BY <1>3, <2>2
  <2>3. CASE i \notin DOMAIN s
    <3>1. j \notin DOMAIN s /\ i - Len(s) < j - Len(s)
      BY <1>2, <1>4, <2>3
    <3> QED BY <1>3, <2>3, <3>1 DEF InOrder
  <2> QED BY <2>1, <2>2, <2>3
<1>5. All(r) \subseteq All(s) \cup All(t)
  BY <1>3 DEF All, At
<1>6. ASSUME NEW x \in All(s) PROVE x \in All(r)
  <2>1. PICK i \in DOMAIN s : x = s[i]
    BY DEF All, At
  <2>2. i \in DOMAIN r /\ r[i] = s[i]
    BY <1>1, <1>2
  <2> QED BY <2>1, <2>2 DEF All, At
<1>7. ASSUME NEW x \in All(t) PROVE x \in All(r)
  <2>1. PICK i \in DOMAIN t : x = t[i]
    BY DEF All, At
  <2>2. i + Len(s) \in DOMAIN r /\ ~(i + Len(s) <= Len(s)) /\ i + Len(s) - Len(s) = i
    BY <1>2
  <2>3. r[i + Len(s)] = t[i]
    BY <1>1, <1>2, <2>2
  <2> QED BY <2>1, <2>2, <2>3 DEF All, At
<1> QED BY <1>1, <1>4, <1>5, <1>6, <1>7 DEF r, InOrder

\* f[i] is what a pass puts out from i on, for the positions from b.
Tails(f, pieces, N, b) ==
  /\ f = [i \in b..N + 1 |-> f[i]]
  /\ \A i \in b..N + 1 : f[i] = IF i > N THEN <<>> ELSE pieces[i].out \o f[pieces[i].next]

\* A pass by pieces of which each leads further ends: its recursion has a solution.
LEMMA SweepRecursion ==
  ASSUME NEW pieces, NEW N \in Nat, \A i \in 1..N : pieces[i].next \in i + 1..N + 1
  PROVE  \E f : Tails(f, pieces, N, 1)
<1> DEFINE P == {d \in Nat : d <= N => \E f : Tails(f, pieces, N, N + 1 - d)}
<1>2. 0 \in P
  <2> DEFINE f == [i \in (N + 1)..(N + 1) |-> <<>>]
  <2>1. \A i \in N + 1..N + 1 : f[i] = <<>> /\ i > N
    OBVIOUS
  <2>2. f = [i \in N + 1..N + 1 |-> f[i]]
    OBVIOUS
  <2> HIDE DEF f
  <2>3. Tails(f, pieces, N, N + 1)
    BY <2>1, <2>2 DEF Tails
  <2>4. N + 1 - 0 = N + 1
    OBVIOUS
  <2> QED BY <2>3, <2>4
<1>3. ASSUME NEW d \in P PROVE d + 1 \in P
  <2> SUFFICES ASSUME d + 1 <= N PROVE \E f : Tails(f, pieces, N, N + 1 - (d + 1))
    OBVIOUS
  <2>0. d \in Nat /\ d <= N /\ (d <= N => \E f : Tails(f, pieces, N, N + 1 - d))
    OBVIOUS
  <2>1. N - d \in 1..N /\ N + 1 - (d + 1) = N - d /\ N + 1 - d = N - d + 1
    BY <2>0
  <2> DEFINE b == N - d
  <2>2. PICK f : Tails(f, pieces, N, b + 1)
    BY <2>0, <2>1
  <2> DEFINE g == [i \in b..N + 1 |-> IF i = b THEN pieces[b].out \o f[pieces[b].next] ELSE f[i]]
  <2>3. b \in 1..N /\ pieces[b].next \in b + 1..N + 1
    BY <2>1
  <2> HIDE DEF b
  <2>4. \A i \in b + 1..N + 1 : f[i] = IF i > N THEN <<>> ELSE pieces[i].out \o f[pieces[i].next]
    BY <2>2 DEF Tails
  <2>5. g[b] = pieces[b].out \o f[pieces[b].next]
    <3>1. b \in b..N + 1
      BY <2>3
    <3> QED BY <3>1
  <2>55. ASSUME NEW i \in b + 1..N + 1 PROVE g[i] = f[i] /\ i \in b..N + 1
    <3>1. i \in b..N + 1 /\ i # b
      BY <2>3
    <3> QED BY <3>1
  <2>6. g = [i \in b..N + 1 |-> g[i]]
    OBVIOUS
  <2> HIDE DEF g
  <2>7. ASSUME NEW i \in b..N + 1
        PROVE  g[i] = IF i > N THEN <<>> ELSE pieces[i].out \o g[pieces[i].next]
    <3>1. CASE i = b
      <4>1. g[pieces[b].next] = f[pieces[b].next] /\ ~(b > N)
        BY <2>3, <2>55
      <4> QED BY <2>5, <3>1, <4>1
    <3>2. CASE i # b
      <4>1. i \in b + 1..N + 1
        BY <2>3, <3>2
      <4>2. CASE i > N
        BY <2>4, <2>55, <4>1, <4>2
      <4>3. CASE ~(i > N)
        <5>1. i \in 1..N /\ pieces[i].next \in b + 1..N + 1
          BY <2>3, <4>1, <4>3
        <5> QED BY <2>4, <2>55, <4>1, <4>3, <5>1
      <4> QED BY <4>2, <4>3
    <3> QED BY <3>1, <3>2
  <2>8. Tails(g, pieces, N, b)
    BY <2>6, <2>7 DEF Tails
  <2> QED BY <2>1, <2>8 DEF b
<1>4. P = Nat
  <2>1. P \in SUBSET Nat
    OBVIOUS
  <2> HIDE DEF P
  <2> QED BY <1>2, <1>3, <2>1, Induction
<1>5. N + 1 - N = 1
  OBVIOUS
<1>6. N \in P => \E f : Tails(f, pieces, N, N + 1 - N)
  OBVIOUS
<1> HIDE DEF P
<1> QED BY <1>4, <1>5, <1>6

\* A pass whose pieces all do no harm carries the text on.
LEMMA SweepCarries ==
  ASSUME NEW src, NEW ms \in Seq(Good(src)), InOrder(ms),
         NEW pieces, Len(pieces) = Len(ms),
         \A i \in DOMAIN ms : PieceOK(src, ms, i, pieces[i])
  PROVE  Carried(src, ms, Sweep(pieces))
<1> DEFINE N == Len(ms)
           rec == CHOOSE from : from = [i \in 1..Len(pieces) + 1 |->
                     IF i > Len(pieces) THEN <<>> ELSE pieces[i].out \o from[pieces[i].next]]
<1>1. N \in Nat /\ DOMAIN ms = 1..N /\ \A i \in 1..N : ms[i] \in Good(src)
  OBVIOUS
<1>2. \A i \in 1..N : pieces[i].next \in i + 1..N + 1
  BY <1>1 DEF PieceOK
<1>3. rec = [i \in 1..N + 1 |-> IF i > N THEN <<>> ELSE pieces[i].out \o rec[pieces[i].next]]
  <2> HIDE DEF N
  <2>1. PICK f : Tails(f, pieces, N, 1)
    BY <1>1, <1>2, SweepRecursion
  <2>2. f = [i \in 1..N + 1 |-> IF i > N THEN <<>> ELSE pieces[i].out \o f[pieces[i].next]]
    BY <2>1 DEF Tails
  <2> QED BY <2>2 DEF N
<1>4. Sweep(pieces) = rec[1]
  BY DEF Sweep
<1> HIDE DEF rec, N
<1>5. rec[N + 1] = <<>> /\ \A i \in 1..N : rec[i] = pieces[i].out \o rec[pieces[i].next]
  <2>1. \A i \in 1..N + 1 : rec[i] = IF i > N THEN <<>> ELSE pieces[i].out \o rec[pieces[i].next]
    BY <1>3
  <2>2. N + 1 \in 1..N + 1 /\ N + 1 > N /\ \A i \in 1..N : i \in 1..N + 1 /\ ~(i > N)
    BY <1>1
  <2> QED BY <2>1, <2>2
<1> DEFINE OK(i) == /\ rec[i] \in Seq(Good(src)) /\ InOrder(rec[i])
                    /\ Keeps(At(ms, i..N), All(rec[i]))
                    /\ i <= N => \A k \in DOMAIN rec[i] : ms[i].start <= rec[i][k].start
           P == {d \in Nat : \A i \in 1..N + 1 : N + 1 - d <= i => OK(i)}
<1>6. OK(N + 1)
  <2>1. N + 1..N = {} /\ ~(N + 1 <= N)
    BY <1>1
  <2>2. At(ms, N + 1..N) = {} /\ All(<<>>) = {} /\ InOrder(<<>>) /\ <<>> \in Seq(Good(src))
    BY <2>1 DEF At, All, InOrder
  <2> QED BY <1>5, <2>1, <2>2, KeepsSelf
<1>7. ASSUME NEW b \in 1..N, \A i \in b + 1..N + 1 : OK(i)
      PROVE  OK(b)
  <2> DEFINE p == pieces[b]
             n == pieces[b].next
  <2>1. /\ n \in b + 1..N + 1
        /\ p.out \in Seq(Good(src)) /\ InOrder(p.out)
        /\ \A k \in DOMAIN p.out : ms[b].start <= p.out[k].start /\ p.out[k].end <= ms[n - 1].end
        /\ Keeps(At(ms, b..n - 1), All(p.out))
    BY <1>1 DEF PieceOK, N
  <2>2. OK(n)
    BY <1>7, <2>1
  <2>3. rec[b] = p.out \o rec[n]
    BY <1>5
  <2> HIDE DEF p, n
  <2>4. /\ b \in 1..N /\ n - 1 \in 1..N /\ b <= n - 1
        /\ n <= N => n \in 1..N /\ n - 1 < n /\ b < n
        /\ b..N = (b..n - 1) \cup (n..N)
    BY <1>1, <2>1
  <2>5. n <= N => ms[n - 1].end <= ms[n].start /\ ms[b].end <= ms[n].start
    BY <1>1, <2>4 DEF InOrder
  <2>6. /\ \A m \in Good(src) : m.start \in Nat /\ m.end \in Nat /\ m.start < m.end
        /\ \A k \in DOMAIN p.out : p.out[k] \in Good(src)
        /\ \A k \in DOMAIN rec[n] : rec[n][k] \in Good(src)
    <3>1. \A s \in Seq(Good(src)) : \A k \in DOMAIN s : s[k] \in Good(src)
      OBVIOUS
    <3> QED BY <2>1, <2>2, <3>1 DEF Good, Record
  <2>7. n > N => rec[n] = <<>>
    BY <1>1, <1>5, <2>1, SMTT(60)
  <2>8. \A i \in DOMAIN p.out, j \in DOMAIN rec[n] : p.out[i].end <= rec[n][j].start
    <3>1. SUFFICES ASSUME NEW i \in DOMAIN p.out, NEW j \in DOMAIN rec[n]
                   PROVE  p.out[i].end <= rec[n][j].start
      OBVIOUS
    <3>2. n <= N
      BY <1>1, <2>1, <2>7
    <3>3. p.out[i].end <= ms[n - 1].end /\ ms[n - 1].end <= ms[n].start /\ ms[n].start <= rec[n][j].start
      BY <2>1, <2>2, <2>5, <3>2
    <3> QED BY <1>1, <2>4, <2>6, <3>2, <3>3
  <2>9. rec[b] \in Seq(Good(src)) /\ InOrder(rec[b]) /\ All(rec[b]) = All(p.out) \cup All(rec[n])
    <3>1. rec[n] \in Seq(Good(src)) /\ InOrder(rec[n])
      BY <2>2
    <3> HIDE DEF OK
    <3>2. p.out \in Seq(Good(src)) /\ InOrder(p.out)
      BY <2>1
    <3>3. /\ p.out \o rec[n] \in Seq(Good(src)) /\ InOrder(p.out \o rec[n])
          /\ All(p.out \o rec[n]) = All(p.out) \cup All(rec[n])
      BY <2>8, <3>1, <3>2, InARow
    <3> QED BY <2>3, <3>3
  <2>10. Keeps(At(ms, b..N), All(rec[b]))
    <3>1. At(ms, b..N) = At(ms, b..n - 1) \cup At(ms, n..N)
      BY <2>4 DEF At
    <3> QED BY <2>1, <2>2, <2>9, <3>1, KeepsUnion
  <2>11. ASSUME NEW k \in DOMAIN rec[b] PROVE ms[b].start <= rec[b][k].start
    <3>1. rec[b][k] \in All(rec[b])
      BY DEF All, At
    <3>2. CASE rec[b][k] \in All(p.out)
      BY <2>1, <3>2 DEF All, At
    <3>3. CASE rec[b][k] \in All(rec[n])
      <4>1. PICK j \in DOMAIN rec[n] : rec[b][k] = rec[n][j]
        BY <3>3 DEF All, At
      <4>2. n <= N
        BY <1>1, <2>1, <2>7, <4>1
      <4>3. ms[b].start < ms[b].end /\ ms[b].end <= ms[n].start /\ ms[n].start <= rec[n][j].start
        BY <1>1, <2>2, <2>4, <2>5, <2>6, <4>2
      <4> QED BY <1>1, <2>4, <2>6, <4>1, <4>2, <4>3
    <3> QED BY <2>9, <3>1, <3>2, <3>3
  <2> QED BY <2>9, <2>10, <2>11
<1> HIDE DEF OK
<1>8. 0 \in P
  <2>1. \A i \in 1..N + 1 : N + 1 - 0 <= i => i = N + 1
    BY <1>1
  <2> QED BY <1>6, <2>1
<1>9. ASSUME NEW d \in P PROVE d + 1 \in P
  <2>1. d \in Nat /\ \A i \in 1..N + 1 : N + 1 - d <= i => OK(i)
    OBVIOUS
  <2>2. ASSUME NEW i \in 1..N + 1, N + 1 - (d + 1) <= i PROVE OK(i)
    <3>1. CASE N + 1 - d <= i
      BY <2>1, <3>1
    <3>2. CASE ~(N + 1 - d <= i)
      <4>1. i \in 1..N /\ \A j \in i + 1..N + 1 : j \in 1..N + 1 /\ N + 1 - d <= j
        BY <1>1, <2>1, <2>2, <3>2
      <4>2. \A j \in i + 1..N + 1 : OK(j)
        BY <2>1, <4>1
      <4> QED BY <1>7, <4>1, <4>2
    <3> QED BY <3>1, <3>2
  <2>3. d + 1 \in Nat
    BY <2>1
  <2> QED BY <2>2, <2>3
<1>10. P = Nat
  <2>1. P \in SUBSET Nat
    OBVIOUS
  <2> HIDE DEF P
  <2> QED BY <1>8, <1>9, <2>1, Induction
<1>11. OK(1)
  <2>1. N + 1 \in P /\ 1 \in 1..N + 1 /\ N + 1 - (N + 1) <= 1
    BY <1>1, <1>10
  <2> QED BY <2>1
<1>12. At(ms, 1..N) = All(ms)
  BY <1>1 DEF All
<1> QED BY <1>4, <1>11, <1>12 DEF OK, Carried

\* The fields of a morpheme.
LEMMA GoodFields ==
  ASSUME NEW src, NEW m \in Good(src)
  PROVE  /\ m.start \in Nat /\ m.end \in Nat /\ m.start < m.end
         /\ m.word \in Wording /\ m.pos \in Wording /\ m.role \in Wording
         /\ m.formal \in BOOLEAN /\ m.lemma \in Nat
         /\ m.chars = CharsBetween(m.start, m.end)
         /\ m = [start |-> m.start, end |-> m.end, chars |-> m.chars, word |-> m.word, pos |-> m.pos,
                 role |-> m.role, formal |-> m.formal, lemma |-> m.lemma]
BY DEF Good, Record

\* The stretch between two offsets is as long as they are apart.
LEMMA CharsBetweenType ==
  ASSUME NEW from \in Nat, NEW to \in Nat, from <= to
  PROVE  CharsBetween(from, to) \in Seq(Nat) /\ Len(CharsBetween(from, to)) = to - from
<1>1. to - from \in Nat
  OBVIOUS
<1>2. \A j \in 1..to - from : from + j \in Nat
  OBVIOUS
<1> QED BY <1>1, <1>2 DEF CharsBetween

\* Two adjoining stretches make one.
LEMMA CharsAppend ==
  ASSUME NEW a \in Nat, NEW b \in Nat, NEW c \in Nat, a <= b, b <= c
  PROVE  CharsBetween(a, b) \o CharsBetween(b, c) = CharsBetween(a, c)
<1> DEFINE s == CharsBetween(a, b)
           t == CharsBetween(b, c)
           u == CharsBetween(a, c)
<1>1. /\ s \in Seq(Nat) /\ Len(s) = b - a /\ t \in Seq(Nat) /\ Len(t) = c - b
      /\ u \in Seq(Nat) /\ Len(u) = c - a
  <2>1. a <= c
    OBVIOUS
  <2> QED BY <2>1, CharsBetweenType
<1>2. /\ \A j \in 1..b - a : s[j] = a + j
      /\ \A j \in 1..c - b : t[j] = b + j
      /\ \A j \in 1..c - a : u[j] = a + j
  BY DEF CharsBetween
<1> HIDE DEF s, t, u
<1>3. /\ s \o t \in Seq(Nat) /\ Len(s \o t) = Len(s) + Len(t)
      /\ \A j \in 1..Len(s) + Len(t) : (s \o t)[j] = IF j <= Len(s) THEN s[j] ELSE t[j - Len(s)]
  BY <1>1, ConcatProperties
<1>4. Len(s \o t) = Len(u) /\ Len(u) = c - a
  BY <1>1, <1>3
<1>5. ASSUME NEW j \in 1..Len(u) PROVE (s \o t)[j] = u[j]
  <2>1. j \in 1..c - a /\ j \in 1..Len(s) + Len(t)
    BY <1>1
  <2>2. CASE j <= b - a
    BY <1>1, <1>2, <1>3, <2>1, <2>2
  <2>3. CASE ~(j <= b - a)
    <3>1. j - (b - a) \in 1..c - b
      BY <2>1, <2>3
    <3>2. t[j - (b - a)] = b + (j - (b - a))
      BY <1>2, <3>1
    <3>3. (s \o t)[j] = t[j - (b - a)] /\ u[j] = a + j
      BY <1>1, <1>2, <1>3, <2>1, <2>3
    <3> QED BY <2>1, <3>2, <3>3
  <2> QED BY <2>2, <2>3
<1>6. s \o t = u
  BY <1>1, <1>3, <1>4, <1>5, SeqEqual
<1> QED BY <1>6 DEF s, t, u

\* Morphemes are equal when their fields are.
LEMMA SameFields ==
  ASSUME NEW m \in Record, NEW n \in Record,
         m.start = n.start, m.end = n.end, m.chars = n.chars, m.word = n.word, m.pos = n.pos,
         m.role = n.role, m.formal = n.formal, m.lemma = n.lemma
  PROVE  m = n
BY DEF Record

\* mergeInto field by field.
LEMMA MergeIntoFields ==
  ASSUME NEW m \in Record, NEW tail \in Record
  PROVE  LET x == MergeInto(m, tail)
         IN  /\ x \in Record
             /\ x.start = m.start /\ x.end = tail.end /\ x.chars = m.chars \o tail.chars
             /\ x.word = "compound" /\ x.pos = m.pos /\ x.role = m.role /\ x.formal = m.formal
             /\ x.lemma = m.lemma
<1>1. m.chars \in Seq(Nat) /\ tail.chars \in Seq(Nat) /\ tail.end \in Nat
  BY DEF Record
<1> DEFINE w == "compound"
           chars == m.chars \o tail.chars
           x == [m EXCEPT !.chars = chars, !.end = tail.end, !.word = w]
<1>2. chars \in Seq(Nat) /\ w \in Wording
  BY <1>1, ConcatProperties DEF Wording
<1>3. MergeInto(m, tail) = x
  BY DEF MergeInto, Record
<1> HIDE DEF w, chars
<1>4. x \in Record
  BY <1>1, <1>2 DEF Record
<1>5. /\ x.start = m.start /\ x.end = tail.end /\ x.chars = chars
      /\ x.word = w /\ x.pos = m.pos /\ x.role = m.role /\ x.formal = m.formal
      /\ x.lemma = m.lemma
  BY DEF Record
<1> HIDE DEF x
<1> QED BY <1>3, <1>4, <1>5 DEF w, chars

Adjoin(ms, i, j) == \A k \in i..j - 1 : ms[k].end = ms[k + 1].start

\* Neighbours are merged into one that has their characters.
LEMMA MergedIs ==
  ASSUME NEW src, NEW ms \in Seq(Good(src)), NEW i \in DOMAIN ms, NEW j \in DOMAIN ms, i < j,
         Adjoin(ms, i, j)
  PROVE  Merged(ms, i, j) =
           [start |-> ms[i].start, end |-> ms[j].end, chars |-> CharsBetween(ms[i].start, ms[j].end),
            word |-> "compound", pos |-> ms[i].pos, role |-> ms[i].role, formal |-> ms[i].formal,
            lemma |-> ms[i].lemma]
<1> DEFINE is(k) == [start |-> ms[i].start, end |-> ms[k].end,
                     chars |-> CharsBetween(ms[i].start, ms[k].end),
                     word |-> IF k = i THEN ms[i].word ELSE "compound", pos |-> ms[i].pos,
                     role |-> ms[i].role, formal |-> ms[i].formal, lemma |-> ms[i].lemma]
           f == [k \in i..j |-> is(k)]
           rec == CHOOSE merged :
                    merged = [k \in i..j |-> IF k = i THEN ms[i] ELSE MergeInto(merged[k - 1], ms[k])]
<1>1. /\ i \in Nat /\ j \in Nat /\ \A k \in i..j : ms[k] \in Good(src)
      /\ \A k \in i..j : ms[k].start \in Nat /\ ms[k].end \in Nat /\ ms[k].start < ms[k].end
  <2>1. i \in Nat /\ j \in Nat /\ \A k \in i..j : ms[k] \in Good(src)
    OBVIOUS
  <2> QED BY <2>1, GoodFields
<1>2. \A k \in i..j : ms[i].start <= ms[k].start
  <2> DEFINE P == {d \in Nat : i + d <= j => ms[i].start <= ms[i + d].start}
  <2>1. 0 \in P
    BY <1>1
  <2>2. ASSUME NEW d \in P PROVE d + 1 \in P
    <3> SUFFICES ASSUME i + (d + 1) <= j PROVE ms[i].start <= ms[i + (d + 1)].start
      OBVIOUS
    <3>1. /\ i + d \in i..j - 1 /\ i + d \in i..j /\ i + d + 1 = i + (d + 1)
          /\ i + (d + 1) \in i..j /\ i + d <= j /\ i \in i..j
      BY <1>1
    <3>2. ms[i + d].end = ms[i + (d + 1)].start
      BY <3>1 DEF Adjoin
    <3>3. ms[i].start <= ms[i + d].start
      BY <3>1
    <3>4. /\ ms[i].start \in Nat /\ ms[i + d].start \in Nat /\ ms[i + d].end \in Nat
          /\ ms[i + d].start < ms[i + d].end
      BY <1>1, <3>1
    <3> QED BY <3>2, <3>3, <3>4
  <2>3. P = Nat
    <3>1. P \in SUBSET Nat
      OBVIOUS
    <3> HIDE DEF P
    <3> QED BY <2>1, <2>2, <3>1, Induction
  <2>4. ASSUME NEW k \in i..j PROVE ms[i].start <= ms[k].start
    <3>1. k - i \in P /\ i + (k - i) = k
      BY <1>1, <2>3
    <3> QED BY <3>1
  <2> QED BY <2>4
<1>3. is(i) = ms[i]
  BY <1>1, GoodFields
<1>4. ASSUME NEW k \in i + 1..j PROVE is(k) = MergeInto(is(k - 1), ms[k])
  <2>1. /\ k \in i..j /\ k - 1 \in i..j /\ k - 1 \in i..j - 1 /\ k # i /\ k - 1 + 1 = k /\ i \in i..j
    BY <1>1
  <2>2. ms[k - 1].end = ms[k].start
    BY <2>1 DEF Adjoin
  <2>3. ms[k].chars = CharsBetween(ms[k].start, ms[k].end)
    BY <1>1, <2>1, GoodFields
  <2>4. CharsBetween(ms[i].start, ms[k - 1].end) \o ms[k].chars = CharsBetween(ms[i].start, ms[k].end)
    <3>1. ms[i].start <= ms[k].start /\ ms[k].start <= ms[k].end
      BY <1>1, <1>2, <2>1
    <3>2. ms[i].start \in Nat /\ ms[k].start \in Nat /\ ms[k].end \in Nat
      BY <1>1, <2>1
    <3>3. CharsBetween(ms[i].start, ms[k].start) \o CharsBetween(ms[k].start, ms[k].end)
            = CharsBetween(ms[i].start, ms[k].end)
      BY <3>1, <3>2, CharsAppend
    <3> QED BY <2>2, <2>3, <3>3
  <2>5. is(k - 1) \in Record /\ ms[k] \in Record /\ is(k) \in Record
    <3>1. /\ ms[i].start \in Nat /\ ms[k - 1].end \in Nat /\ ms[k].end \in Nat
          /\ ms[i].start <= ms[k - 1].end /\ ms[i].start <= ms[k].end
      <4>1. \A l \in i..j : ms[i].start \in Nat /\ ms[l].end \in Nat /\ ms[i].start <= ms[l].end
        <5>1. i \in i..j
          BY <2>1
        <5> QED BY <1>1, <1>2, <5>1
      <4> QED BY <2>1, <4>1
    <3>2. /\ CharsBetween(ms[i].start, ms[k - 1].end) \in Seq(Nat)
          /\ CharsBetween(ms[i].start, ms[k].end) \in Seq(Nat)
      BY <3>1, CharsBetweenType
    <3>3. /\ ms[i].word \in Wording /\ ms[i].pos \in Wording /\ ms[i].role \in Wording
          /\ ms[i].formal \in BOOLEAN /\ ms[i].lemma \in Nat
      BY GoodFields
    <3>4. ms[k] \in Record
      BY <1>1, <2>1 DEF Good
    <3> DEFINE w == "compound"
    <3>5. w \in Wording
      BY DEF Wording
    <3> HIDE DEF w
    <3>6. (IF k - 1 = i THEN ms[i].word ELSE w) \in Wording /\ (IF k = i THEN ms[i].word ELSE w) \in Wording
      BY <3>3, <3>5
    <3>7. is(k - 1) = [start |-> ms[i].start, end |-> ms[k - 1].end,
                     chars |-> CharsBetween(ms[i].start, ms[k - 1].end),
                     word |-> IF k - 1 = i THEN ms[i].word ELSE w, pos |-> ms[i].pos,
                     role |-> ms[i].role, formal |-> ms[i].formal, lemma |-> ms[i].lemma]
      BY DEF w
    <3>8. is(k) = [start |-> ms[i].start, end |-> ms[k].end,
                     chars |-> CharsBetween(ms[i].start, ms[k].end),
                     word |-> IF k = i THEN ms[i].word ELSE w, pos |-> ms[i].pos,
                     role |-> ms[i].role, formal |-> ms[i].formal, lemma |-> ms[i].lemma]
      BY DEF w
    <3> HIDE DEF is
    <3>9. is(k - 1) \in Record
      BY <3>1, <3>2, <3>3, <3>6, <3>7, SMTT(120) DEF Record
    <3>10. is(k) \in Record
      BY <3>1, <3>2, <3>3, <3>6, <3>8, SMTT(120) DEF Record
    <3> QED BY <3>4, <3>9, <3>10
  <2>6. /\ is(k - 1).start = ms[i].start /\ is(k - 1).chars = CharsBetween(ms[i].start, ms[k - 1].end)
        /\ is(k - 1).pos = ms[i].pos /\ is(k - 1).role = ms[i].role /\ is(k - 1).formal = ms[i].formal
        /\ is(k - 1).lemma = ms[i].lemma
        /\ is(k).start = ms[i].start /\ is(k).end = ms[k].end
        /\ is(k).chars = CharsBetween(ms[i].start, ms[k].end) /\ is(k).word = "compound"
        /\ is(k).pos = ms[i].pos /\ is(k).role = ms[i].role /\ is(k).formal = ms[i].formal
        /\ is(k).lemma = ms[i].lemma
    BY <2>1
  <2> DEFINE x == MergeInto(is(k - 1), ms[k])
  <2> HIDE DEF is
  <2>7. /\ x \in Record
        /\ x.start = is(k - 1).start /\ x.end = ms[k].end /\ x.chars = is(k - 1).chars \o ms[k].chars
        /\ x.word = "compound" /\ x.pos = is(k - 1).pos /\ x.role = is(k - 1).role
        /\ x.formal = is(k - 1).formal /\ x.lemma = is(k - 1).lemma
    BY <2>5, MergeIntoFields
  <2> HIDE DEF x
  <2>8. x = is(k)
    <3>1. x.chars = is(k).chars
      <4>1. x.chars = is(k - 1).chars \o ms[k].chars
        BY <2>7
      <4>2. is(k - 1).chars = CharsBetween(ms[i].start, ms[k - 1].end)
        BY <2>6
      <4> QED BY <2>4, <2>6, <4>1, <4>2
    <3>2. /\ x.start = is(k).start /\ x.end = is(k).end /\ x.word = is(k).word /\ x.pos = is(k).pos
          /\ x.role = is(k).role /\ x.formal = is(k).formal /\ x.lemma = is(k).lemma
      BY <2>6, <2>7
    <3>3. x \in Record /\ is(k) \in Record
      BY <2>5, <2>7
    <3> HIDE DEF is
    <3> QED BY <3>1, <3>2, <3>3, SameFields
  <2> QED BY <2>8 DEF x
<1>5. f = [k \in i..j |-> IF k = i THEN ms[i] ELSE MergeInto(f[k - 1], ms[k])]
  <2>1. ASSUME NEW k \in i..j PROVE is(k) = IF k = i THEN ms[i] ELSE MergeInto(f[k - 1], ms[k])
    <3>1. CASE k = i
      BY <1>3, <3>1
    <3>2. CASE k # i
      <4>1. k \in i + 1..j /\ k - 1 \in i..j
        BY <1>1, <3>2
      <4>2. f[k - 1] = is(k - 1)
        BY <4>1
      <4> HIDE DEF f, is
      <4> QED BY <1>4, <3>2, <4>1, <4>2
    <3> QED BY <3>1, <3>2
  <2> HIDE DEF is
  <2> QED BY <2>1
<1> HIDE DEF f
<1>6. rec = [k \in i..j |-> IF k = i THEN ms[i] ELSE MergeInto(rec[k - 1], ms[k])]
  BY <1>5
<1>7. Merged(ms, i, j) = rec[j]
  BY DEF Merged
<1> HIDE DEF rec, is
<1>8. rec[j] = is(j)
  <2> DEFINE P == {d \in Nat : i + d <= j => rec[i + d] = is(i + d)}
  <2>1. 0 \in P
    <3>1. i + 0 = i /\ i \in i..j
      BY <1>1
    <3> QED BY <1>3, <1>6, <3>1
  <2>2. ASSUME NEW d \in P PROVE d + 1 \in P
    <3> SUFFICES ASSUME i + (d + 1) <= j PROVE rec[i + (d + 1)] = is(i + (d + 1))
      OBVIOUS
    <3>1. /\ i + d <= j /\ i + (d + 1) \in i + 1..j /\ i + (d + 1) \in i..j
          /\ i + (d + 1) # i /\ i + (d + 1) - 1 = i + d
      BY <1>1
    <3>2. rec[i + d] = is(i + d)
      BY <3>1
    <3>3. rec[i + (d + 1)] = MergeInto(rec[i + d], ms[i + (d + 1)])
      BY <1>6, <3>1, SMTT(60)
    <3> QED BY <1>4, <3>1, <3>2, <3>3, SMTT(60)
  <2>3. P = Nat
    <3>1. P \in SUBSET Nat
      OBVIOUS
    <3> HIDE DEF P
    <3> QED BY <2>1, <2>2, <3>1, Induction
  <2>4. j - i \in P /\ i + (j - i) = j
    BY <1>1, <2>3
  <2> QED BY <2>4
<1>9. j # i
  BY <1>1
<1> QED BY <1>7, <1>8, <1>9 DEF is

\* No character of the stretch from i to j is in none of the morphemes.
NoGap(ms, i, j) == \A c \in ms[i].start + 1..ms[j].end : \E k \in DOMAIN ms : c \in ms[k].start + 1..ms[k].end

\* A run of morphemes without a gap has all characters from its first to its last.
LEMMA CharsOfRun ==
  ASSUME NEW src, NEW ms \in Seq(Good(src)), InOrder(ms), NEW i \in DOMAIN ms, NEW j \in DOMAIN ms,
         i <= j, NoGap(ms, i, j)
  PROVE  Chars(At(ms, i..j)) = ms[i].start + 1..ms[j].end
<1>1. /\ i \in Nat /\ j \in Nat /\ DOMAIN ms \subseteq Nat /\ i..j \subseteq DOMAIN ms
      /\ \A k \in DOMAIN ms : ms[k].start \in Nat /\ ms[k].end \in Nat /\ ms[k].start < ms[k].end
  <2>1. /\ i \in Nat /\ j \in Nat /\ DOMAIN ms \subseteq Nat /\ i..j \subseteq DOMAIN ms
        /\ \A k \in DOMAIN ms : ms[k] \in Good(src)
    OBVIOUS
  <2> QED BY <2>1, GoodFields
<1>2. ASSUME NEW k \in i..j PROVE ms[i].start <= ms[k].start /\ ms[k].end <= ms[j].end
  <2>1. k \in DOMAIN ms /\ (i < k \/ i = k) /\ (k < j \/ k = j)
    BY <1>1
  <2>2. (i < k => ms[i].end <= ms[k].start) /\ (k < j => ms[k].end <= ms[j].start)
    BY <2>1 DEF InOrder
  <2> QED BY <1>1, <2>1, <2>2
<1>3. ASSUME NEW c \in ms[i].start + 1..ms[j].end
      PROVE  \E k \in i..j : c \in ms[k].start + 1..ms[k].end
  <2>1. PICK k \in DOMAIN ms : c \in ms[k].start + 1..ms[k].end
    BY DEF NoGap
  <2>2. ~(k < i) /\ ~(j < k)
    <3>1. (k < i => ms[k].end <= ms[i].start) /\ (j < k => ms[j].end <= ms[k].start)
      BY DEF InOrder
    <3> QED BY <1>1, <2>1, <3>1
  <2>3. k \in i..j
    BY <1>1, <2>2
  <2> QED BY <2>1, <2>3
<1>4. ASSUME NEW k \in i..j, NEW c \in ms[k].start + 1..ms[k].end
      PROVE  c \in ms[i].start + 1..ms[j].end
  <2>1. k \in DOMAIN ms
    BY <1>1
  <2> QED BY <1>1, <1>2, <2>1, SMTT(60)
<1> QED BY <1>3, <1>4 DEF Chars, At

\* A whole text has no gaps.
LEMMA WholeText ==
  ASSUME NEW src, NEW ms \in Seq(Good(src)), InOrder(ms), NEW n \in Nat, Chars(All(ms)) = 1..n
  PROVE  /\ \A i \in Inner(ms) : ms[i].end = ms[i + 1].start
         /\ \A i, j \in DOMAIN ms : NoGap(ms, i, j)
<1>1. /\ DOMAIN ms \subseteq Nat
      /\ \A k \in DOMAIN ms : ms[k].start \in Nat /\ ms[k].end \in Nat /\ ms[k].start < ms[k].end
  <2>1. DOMAIN ms \subseteq Nat /\ \A k \in DOMAIN ms : ms[k] \in Good(src)
    OBVIOUS
  <2> QED BY <2>1, GoodFields
<1>2. \A c \in 1..n : \E k \in DOMAIN ms : c \in ms[k].start + 1..ms[k].end
  BY DEF Chars, All, At
<1>3. ASSUME NEW k \in DOMAIN ms PROVE ms[k].end <= n
  <2>1. ms[k].end \in ms[k].start + 1..ms[k].end
    BY <1>1
  <2>2. ms[k].end \in Chars(All(ms))
    BY <2>1 DEF Chars, All, At
  <2> QED BY <2>2
<1>4. ASSUME NEW i \in DOMAIN ms, NEW j \in DOMAIN ms PROVE NoGap(ms, i, j)
  <2>1. \A c \in ms[i].start + 1..ms[j].end : c \in 1..n
    BY <1>1, <1>3
  <2> QED BY <1>2, <2>1 DEF NoGap
<1>5. ASSUME NEW i \in Inner(ms) PROVE ms[i].end = ms[i + 1].start
  <2>1. i \in DOMAIN ms /\ i + 1 \in DOMAIN ms /\ i < i + 1 /\ i \in Nat
    BY DEF Inner
  <2>2. ms[i].end <= ms[i + 1].start
    BY <2>1 DEF InOrder
  <2>3. SUFFICES ASSUME ms[i].end < ms[i + 1].start PROVE FALSE
    BY <1>1, <2>1, <2>2
  <2>4. ms[i].end + 1 \in 1..n
    BY <1>1, <1>3, <2>1, <2>3
  <2>5. PICK k \in DOMAIN ms : ms[i].end + 1 \in ms[k].start + 1..ms[k].end
    BY <1>2, <2>4
  <2>6. k < i \/ k = i \/ k = i + 1 \/ i + 1 < k
    BY <1>1, <2>1
  <2>7. (k < i => ms[k].end <= ms[i].start) /\ (i + 1 < k => ms[i + 1].end <= ms[k].start)
    BY <2>1 DEF InOrder
  <2>8. /\ ms[i].start \in Nat /\ ms[i].end \in Nat /\ ms[i].start < ms[i].end
        /\ ms[k].start \in Nat /\ ms[k].end \in Nat
        /\ ms[i + 1].start \in Nat /\ ms[i + 1].end \in Nat /\ ms[i + 1].start < ms[i + 1].end
    BY <1>1, <2>1
  <2>9. ms[k].start <= ms[i].end /\ ms[i].end + 1 <= ms[k].end
    BY <2>5, <2>8, SMTT(60)
  <2>10. CASE k < i
    BY <2>7, <2>8, <2>9, <2>10, SMTT(60)
  <2>11. CASE k = i
    BY <2>8, <2>9, <2>11
  <2>12. CASE k = i + 1
    BY <2>3, <2>8, <2>9, <2>12
  <2>13. CASE i + 1 < k
    BY <2>3, <2>7, <2>8, <2>9, <2>13, SMTT(60)
  <2> QED BY <2>6, <2>10, <2>11, <2>12, <2>13
<1> QED BY <1>4, <1>5

-----------------------------------------------------------------------------
(* Pieces *)

\* Keeping a morpheme does no harm.
LEMMA KeptPiece ==
  ASSUME NEW src, NEW ms \in Seq(Good(src)), NEW i \in DOMAIN ms
  PROVE  PieceOK(src, ms, i, Kept(ms, i))
<1>1. ms[i] \in Good(src) /\ i \in 1..Len(ms) /\ Len(ms) \in Nat
  OBVIOUS
<1>2. /\ <<ms[i]>> \in Seq(Good(src)) /\ DOMAIN <<ms[i]>> = {1} /\ <<ms[i]>>[1] = ms[i]
  BY <1>1
<1>3. InOrder(<<ms[i]>>) /\ All(<<ms[i]>>) = {ms[i]}
  BY <1>2 DEF InOrder, All, At
<1>4. i + 1 - 1 = i /\ i..i = {i} /\ At(ms, {i}) = {ms[i]} /\ i + 1 \in i + 1..Len(ms) + 1
  BY <1>1 DEF At
<1>5. ms[i].start <= ms[i].start /\ ms[i].end <= ms[i].end
  BY <1>1, GoodFields
<1>6. Keeps(At(ms, i..i + 1 - 1), All(<<ms[i]>>))
  BY <1>3, <1>4, KeepsSelf
<1> QED BY <1>2, <1>3, <1>4, <1>5, <1>6 DEF PieceOK, Kept

\* One morpheme in the place of those from i to j, none of them a plain symbol.
LEMMA MadePiece ==
  ASSUME NEW src, NEW ms \in Seq(Good(src)), InOrder(ms), NEW i \in DOMAIN ms, NEW j \in DOMAIN ms,
         i <= j, NoGap(ms, i, j),
         NEW x \in Good(src), x.start = ms[i].start, x.end = ms[j].end, ~IsSymbol(x),
         \A k \in i..j : IsSymbol(ms[k]) => ms[k].word = "mark"
  PROVE  PieceOK(src, ms, i, [next |-> j + 1, out |-> <<x>>])
<1>1. i \in 1..Len(ms) /\ j \in 1..Len(ms) /\ Len(ms) \in Nat
  OBVIOUS
<1>2. <<x>> \in Seq(Good(src)) /\ DOMAIN <<x>> = {1} /\ <<x>>[1] = x
  OBVIOUS
<1>3. InOrder(<<x>>) /\ All(<<x>>) = {x}
  BY <1>2 DEF InOrder, All, At
<1>4. j + 1 - 1 = j /\ j + 1 \in i + 1..Len(ms) + 1
  BY <1>1
<1>5. x.start <= x.start /\ x.end <= x.end
  BY GoodFields
<1>6. Chars({x}) = Chars(At(ms, i..j))
  <2>1. Chars({x}) = x.start + 1..x.end
    BY DEF Chars
  <2> QED BY <2>1, CharsOfRun
<1>7. Syms({x}) = {} /\ PlainSyms(At(ms, i..j)) = {} /\ Chars({}) = {}
  BY DEF Syms, PlainSyms, At, Chars
<1>8. Keeps(At(ms, i..j), All(<<x>>))
  BY <1>3, <1>6, <1>7 DEF Keeps
<1> QED BY <1>2, <1>3, <1>4, <1>5, <1>8 DEF PieceOK

\* x is m with other grammar and a computed lemma.
Retagged(x, m, p, r) ==
  /\ x \in Record
  /\ x.start = m.start /\ x.end = m.end /\ x.chars = m.chars /\ x.word = m.word
  /\ x.pos = p /\ x.role = r /\ x.formal = m.formal /\ x.lemma = Computed

\* The ways in which the passes rewrite the grammar of what they merged.
LEMMA Regrammar ==
  ASSUME NEW m \in Record, NEW p \in Wording, NEW r \in Wording
  PROVE  /\ Retagged([Lemma(m) EXCEPT !.pos = p, !.role = r], m, p, r)
         /\ Retagged([Lemma(m) EXCEPT !.pos = p], m, p, m.role)
         /\ Retagged([Lemma(m) EXCEPT !.role = r], m, m.pos, r)
         /\ Retagged(Lemma(m), m, m.pos, m.role)
<1>1. Retagged(Lemma(m), m, m.pos, m.role)
  BY DEF Retagged, Lemma, Record, Computed
<1> DEFINE l == Lemma(m)
<1>2. l \in Record
  BY <1>1 DEF Retagged
<1> HIDE DEF l
<1>3. /\ Retagged([l EXCEPT !.pos = p, !.role = r], l, p, r) \/ l.lemma # Computed
  BY <1>2 DEF Retagged, Record
<1>4. Retagged([l EXCEPT !.pos = p], l, p, l.role) \/ l.lemma # Computed
  BY <1>2 DEF Retagged, Record
<1>5. Retagged([l EXCEPT !.role = r], l, l.pos, r) \/ l.lemma # Computed
  BY <1>2 DEF Retagged, Record
<1> QED BY <1>1, <1>3, <1>4, <1>5 DEF Retagged, l

\* Merging the morphemes from i to j, which adjoin, does no harm unless
\* a symbol other than a prolonged mark were among them.
LEMMA JoinedPiece ==
  ASSUME NEW src, NEW ms \in Seq(Good(src)), InOrder(ms), NEW i \in DOMAIN ms, NEW j \in DOMAIN ms,
         i < j, NoGap(ms, i, j), Adjoin(ms, i, j),
         NEW x, NEW p, NEW r, Retagged(x, Merged(ms, i, j), p, r), p # "symbol",
         \A k \in i..j : IsSymbol(ms[k]) => ms[k].word = "mark"
  PROVE  PieceOK(src, ms, i, [next |-> j + 1, out |-> <<x>>])
<1> DEFINE M == Merged(ms, i, j)
<1>1. /\ M.start = ms[i].start /\ M.end = ms[j].end /\ M.word = "compound"
      /\ M.chars = CharsBetween(ms[i].start, ms[j].end)
  BY MergedIs
<1> HIDE DEF M
<1>2. ms[i] \in Good(src) /\ ms[j] \in Good(src) /\ i <= j
  OBVIOUS
<1>3. /\ ms[i].start \in Nat /\ ms[i].end \in Nat /\ ms[i].start < ms[i].end
      /\ ms[j].start \in Nat /\ ms[j].end \in Nat /\ ms[j].start < ms[j].end
  BY <1>2, GoodFields
<1>4. ms[i].end <= ms[j].start
  BY DEF InOrder
<1>5. ms[i].start < ms[j].end
  BY <1>3, <1>4
<1>6. /\ x \in Record /\ x.start = ms[i].start /\ x.end = ms[j].end /\ x.word = "compound"
      /\ x.chars = CharsBetween(ms[i].start, ms[j].end) /\ x.pos = p /\ x.lemma = Computed
  BY <1>1 DEF Retagged, M
<1>7. ~IsSymbol(x) /\ x.word # "demo"
  BY <1>6 DEF IsSymbol
<1>8. x \in Good(src)
  BY <1>5, <1>6, <1>7 DEF Good
<1> QED BY <1>2, <1>6, <1>7, <1>8, MadePiece

\* Neighbours that adjoin are a run without a gap.
LEMMA PairGap ==
  ASSUME NEW src, NEW ms \in Seq(Good(src)), NEW i \in Inner(ms), ms[i].end = ms[i + 1].start
  PROVE  /\ i \in DOMAIN ms /\ i + 1 \in DOMAIN ms /\ i < i + 1 /\ i + 1 + 1 = i + 2 /\ i..i + 1 = {i, i + 1}
         /\ NoGap(ms, i, i + 1) /\ Adjoin(ms, i, i + 1)
<1>1. /\ i \in DOMAIN ms /\ i + 1 \in DOMAIN ms /\ i < i + 1 /\ i + 1 + 1 = i + 2 /\ i..i + 1 = {i, i + 1}
      /\ i..i + 1 - 1 = {i}
  BY DEF Inner
<1>2. /\ ms[i].start \in Nat /\ ms[i].end \in Nat
      /\ ms[i + 1].start \in Nat /\ ms[i + 1].end \in Nat
  BY <1>1, GoodFields
<1>3. \A c \in ms[i].start + 1..ms[i + 1].end :
        c \in ms[i].start + 1..ms[i].end \/ c \in ms[i + 1].start + 1..ms[i + 1].end
  BY <1>2
<1> QED BY <1>1, <1>3 DEF NoGap, Adjoin

\* Pairs become one each.
LEMMA JoinPairsCarries ==
  ASSUME NEW src, NEW ms \in Seq(Good(src)), InOrder(ms), NEW made, DOMAIN made \subseteq Inner(ms),
         \A i \in DOMAIN made :
           /\ ms[i].end = ms[i + 1].start
           /\ \E p, r : p # "symbol" /\ Retagged(made[i], Merged(ms, i, i + 1), p, r)
           /\ IsSymbol(ms[i]) => ms[i].word = "mark"
           /\ IsSymbol(ms[i + 1]) => ms[i + 1].word = "mark"
  PROVE  Carried(src, ms, JoinPairs(ms, made))
<1> DEFINE pieces == [i \in DOMAIN ms |-> IF i \in DOMAIN made THEN [next |-> i + 2, out |-> <<made[i]>>]
                                          ELSE Kept(ms, i)]
<1>1. Len(ms) \in Nat /\ DOMAIN ms = 1..Len(ms)
  OBVIOUS
<1>2. Len(pieces) = Len(ms)
  BY <1>1
<1>3. ASSUME NEW i \in DOMAIN ms PROVE PieceOK(src, ms, i, pieces[i])
  <2>1. CASE i \in DOMAIN made
    <3>1. i \in Inner(ms) /\ ms[i].end = ms[i + 1].start
      BY <2>1
    <3>2. /\ i + 1 \in DOMAIN ms /\ i < i + 1 /\ i + 1 + 1 = i + 2 /\ i..i + 1 = {i, i + 1}
          /\ NoGap(ms, i, i + 1) /\ Adjoin(ms, i, i + 1)
      BY <3>1, PairGap
    <3>3. PICK p, r : p # "symbol" /\ Retagged(made[i], Merged(ms, i, i + 1), p, r)
      BY <2>1
    <3>4. \A k \in i..i + 1 : IsSymbol(ms[k]) => ms[k].word = "mark"
      BY <2>1, <3>2
    <3>5. PieceOK(src, ms, i, [next |-> i + 1 + 1, out |-> <<made[i]>>])
      BY <3>2, <3>3, <3>4, JoinedPiece
    <3>6. pieces[i] = [next |-> i + 1 + 1, out |-> <<made[i]>>]
      BY <2>1, <3>2
    <3> HIDE DEF pieces
    <3> QED BY <3>5, <3>6
  <2>2. CASE i \notin DOMAIN made
    <3>1. pieces[i] = Kept(ms, i)
      BY <2>2
    <3> HIDE DEF pieces
    <3> QED BY <3>1, KeptPiece
  <2> QED BY <2>1, <2>2
<1>4. JoinPairs(ms, made) = Sweep(pieces)
  BY DEF JoinPairs
<1> HIDE DEF pieces
<1> QED BY <1>2, <1>3, <1>4, SweepCarries

\* The run that starts at i ends at the first position not in S.
LEMMA RunEndIs ==
  ASSUME NEW ms, Len(ms) \in Nat, NEW S, S \subseteq 1..Len(ms), NEW i \in 1..Len(ms) + 1
  PROVE  LET j == RunEnd(ms, S, i)
         IN  j \in i..Len(ms) + 1 /\ j \notin S /\ i..(j - 1) \subseteq S
<1> DEFINE T == {k \in i..Len(ms) + 1 : k \notin S}
<1>1. Len(ms) + 1 \in T
  OBVIOUS
<1>2. T \subseteq Nat
  OBVIOUS
<1>3. PICK j \in T : \A k \in T : j <= k
  <2> HIDE DEF T
  <2> QED BY <1>1, <1>2, LeastNatural
<1>4. i..(j - 1) \subseteq S
  <2>1. SUFFICES ASSUME NEW k \in i..(j - 1), k \notin S PROVE FALSE
    OBVIOUS
  <2>2. k \in T
    BY <1>2, <2>1
  <2> QED BY <1>2, <1>3, <2>1, <2>2
<1>5. \E j0 \in i..Len(ms) + 1 : j0 \notin S /\ i..(j0 - 1) \subseteq S
  BY <1>4
<1> QED BY <1>5 DEF RunEnd

-----------------------------------------------------------------------------
(* The passes *)

\* ms are the morphemes of a text of n characters.
Covers(src, ms, n) == ms \in Seq(Good(src)) /\ InOrder(ms) /\ n \in Nat /\ Chars(All(ms)) = 1..n

\* In a text without gaps neighbours adjoin.
LEMMA TextPairs ==
  ASSUME NEW src, NEW ms, NEW n, Covers(src, ms, n)
  PROVE  /\ ms \in Seq(Good(src)) /\ InOrder(ms)
         /\ Len(ms) \in Nat /\ DOMAIN ms = 1..Len(ms) /\ \A i \in DOMAIN ms : ms[i] \in Good(src)
         /\ \A i \in Inner(ms) : i \in DOMAIN ms /\ i + 1 \in DOMAIN ms /\ ms[i].end = ms[i + 1].start
         /\ \A i, j \in DOMAIN ms : NoGap(ms, i, j) /\ Adjoin(ms, i, j)
<1>1. ms \in Seq(Good(src)) /\ InOrder(ms) /\ n \in Nat /\ Chars(All(ms)) = 1..n
  BY DEF Covers
<1>2. /\ Len(ms) \in Nat /\ DOMAIN ms = 1..Len(ms) /\ \A i \in DOMAIN ms : ms[i] \in Good(src)
  BY <1>1
<1>3. /\ \A i \in Inner(ms) : ms[i].end = ms[i + 1].start
      /\ \A i, j \in DOMAIN ms : NoGap(ms, i, j)
  BY <1>1, WholeText
<1>4. \A i \in Inner(ms) : i \in DOMAIN ms /\ i + 1 \in DOMAIN ms
  BY <1>2 DEF Inner
<1>5. \A i, j \in DOMAIN ms : \A k \in i..j - 1 : k \in Inner(ms)
  BY <1>2 DEF Inner
<1> QED BY <1>1, <1>2, <1>3, <1>4, <1>5 DEF Adjoin

\* A pass over a text yields a text, and passes compose.
LEMMA CarriedText ==
  ASSUME NEW src, NEW ms, NEW n, Covers(src, ms, n), NEW a, Carried(src, ms, a)
  PROVE  Covers(src, a, n) /\ \A b : Carried(src, a, b) => Carried(src, ms, b)
BY KeepsChain DEF Covers, Carried, Keeps

\* A formal noun, or anything with a role, is no symbol.
LEMMA NotSymbol ==
  ASSUME NEW src, NEW m \in Good(src), m.formal \/ m.role # "symbol"
  PROVE  ~IsSymbol(m)
BY DEF Good

\* Rewriting the grammar of a morpheme that is no symbol leaves it good.
LEMMA RetaggedGood ==
  ASSUME NEW src, NEW m \in Good(src), NEW x, NEW p, NEW r, Retagged(x, m, p, r), p # "symbol"
  PROVE  x \in Good(src) /\ x.start = m.start /\ x.end = m.end /\ ~IsSymbol(x)
BY DEF Good, Retagged, IsSymbol

\* Merging keeps the grammar of the first morpheme.
LEMMA MergedRecord ==
  ASSUME NEW src, NEW ms \in Seq(Good(src)), InOrder(ms), NEW i \in DOMAIN ms, NEW j \in DOMAIN ms,
         i < j, Adjoin(ms, i, j)
  PROVE  LET M == Merged(ms, i, j) IN
         M \in Record /\ M.pos = ms[i].pos /\ M.role = ms[i].role /\ M.pos \in Wording /\ M.role \in Wording
<1> DEFINE M == Merged(ms, i, j)
           chars == CharsBetween(ms[i].start, ms[j].end)
           word == "compound"
<1>1. M = [start |-> ms[i].start, end |-> ms[j].end, chars |-> chars,
           word |-> word, pos |-> ms[i].pos, role |-> ms[i].role, formal |-> ms[i].formal,
           lemma |-> ms[i].lemma]
  BY MergedIs
<1>2. ms[i] \in Good(src) /\ ms[j] \in Good(src) /\ i <= j
  OBVIOUS
<1>3. /\ ms[i].start \in Nat /\ ms[i].end \in Nat /\ ms[i].start < ms[i].end
      /\ ms[j].start \in Nat /\ ms[j].end \in Nat /\ ms[j].start < ms[j].end
      /\ ms[i].pos \in Wording /\ ms[i].role \in Wording /\ ms[i].formal \in BOOLEAN
      /\ ms[i].lemma \in Nat
  BY <1>2, GoodFields
<1>4. ms[i].end <= ms[j].start
  BY DEF InOrder
<1>5. ms[i].start <= ms[j].end
  BY <1>3, <1>4
<1>6. chars \in Seq(Nat)
  BY <1>3, <1>5, CharsBetweenType
<1>7. word \in Wording
  BY DEF Wording
<1> HIDE DEF chars, word, M
<1>8. M \in Record
  BY <1>1, <1>3, <1>6, <1>7 DEF Record
<1> QED BY <1>1, <1>3, <1>8 DEF M

\* Two morphemes in the place of those from i to j.
LEMMA TwoPiece ==
  ASSUME NEW src, NEW ms \in Seq(Good(src)), InOrder(ms), NEW i \in DOMAIN ms, NEW j \in DOMAIN ms,
         i <= j, NoGap(ms, i, j),
         NEW x \in Good(src), NEW y \in Good(src), x.start = ms[i].start, x.end = y.start, y.end = ms[j].end,
         ~IsSymbol(x), ~IsSymbol(y),
         \A k \in i..j : ~IsSymbol(ms[k])
  PROVE  PieceOK(src, ms, i, [next |-> j + 1, out |-> <<x, y>>])
<1>1. i \in 1..Len(ms) /\ j \in 1..Len(ms) /\ Len(ms) \in Nat
  OBVIOUS
<1>2. <<x, y>> \in Seq(Good(src)) /\ DOMAIN <<x, y>> = {1, 2} /\ <<x, y>>[1] = x /\ <<x, y>>[2] = y
  OBVIOUS
<1>3. /\ x.start \in Nat /\ x.end \in Nat /\ x.start < x.end
      /\ y.start \in Nat /\ y.end \in Nat /\ y.start < y.end
  BY GoodFields
<1>4. InOrder(<<x, y>>) /\ All(<<x, y>>) = {x, y}
  <2>1. InOrder(<<x, y>>)
    BY <1>2, <1>3 DEF InOrder
  <2>2. All(<<x, y>>) = {x, y}
    BY <1>2 DEF All, At
  <2> QED BY <2>1, <2>2
<1>5. j + 1 - 1 = j /\ j + 1 \in i + 1..Len(ms) + 1
  BY <1>1
<1>6. Chars({x, y}) = Chars(At(ms, i..j))
  <2>1. Chars({x, y}) = (x.start + 1..x.end) \cup (y.start + 1..y.end)
    BY DEF Chars
  <2>2. Chars({x, y}) = x.start + 1..y.end
    <3>1. \A c : c \in x.start + 1..y.end <=> c \in x.start + 1..x.end \/ c \in y.start + 1..y.end
      BY <1>3
    <3> QED BY <2>1, <3>1
  <2> QED BY <2>2, CharsOfRun
<1>7. Syms({x, y}) = {} /\ PlainSyms(At(ms, i..j)) = {} /\ Chars({}) = {}
  BY DEF Syms, PlainSyms, At, Chars
<1>8. Keeps(At(ms, i..j), All(<<x, y>>))
  BY <1>4, <1>6, <1>7 DEF Keeps
<1>9. \A k \in DOMAIN <<x, y>> : ms[i].start <= <<x, y>>[k].start /\ <<x, y>>[k].end <= ms[j].end
  BY <1>2, <1>3
<1> QED BY <1>2, <1>4, <1>5, <1>8, <1>9 DEF PieceOK

\* A quantity of morphemes that are no symbols does no harm.
LEMMA QuantityPiece ==
  ASSUME NEW src, NEW ms, NEW n, Covers(src, ms, n), NEW i \in DOMAIN ms, NEW j \in i + 1..Len(ms) + 1,
         \A k \in i..j - 1 : ~IsSymbol(ms[k])
  PROVE  PieceOK(src, ms, i, Quantity(ms, i, j))
<1>1. /\ ms \in Seq(Good(src)) /\ InOrder(ms)
      /\ Len(ms) \in Nat /\ DOMAIN ms = 1..Len(ms)
      /\ \A k, l \in DOMAIN ms : NoGap(ms, k, l) /\ Adjoin(ms, k, l)
  BY TextPairs
<1>2. CASE j = i + 1
  <2>1. Quantity(ms, i, j) = Kept(ms, i)
    BY <1>2 DEF Quantity
  <2> QED BY <1>1, <2>1, KeptPiece
<1>3. CASE j # i + 1
  <2>1. j - 1 \in DOMAIN ms /\ i < j - 1 /\ j - 1 + 1 = j
    BY <1>1, <1>3
  <2> DEFINE M == Merged(ms, i, j - 1)
             x == [Lemma(M) EXCEPT !.pos = "noun"]
  <2>2. M \in Record /\ M.role \in Wording
    BY <1>1, <2>1, MergedRecord
  <2> HIDE DEF M
  <2>3. Retagged(x, M, "noun", M.role)
    <3>1. "noun" \in Wording
      BY DEF Wording
    <3> QED BY <2>2, <3>1, Regrammar
  <2>4. Quantity(ms, i, j) = [next |-> j, out |-> <<x>>]
    BY <1>3 DEF Quantity, M
  <2> HIDE DEF x
  <2>5. PieceOK(src, ms, i, [next |-> j - 1 + 1, out |-> <<x>>])
    BY <1>1, <2>1, <2>3, JoinedPiece DEF M
  <2> QED BY <2>1, <2>4, <2>5
<1> QED BY <1>2, <1>3

\* Each pass carries the text on; mergeNumericExpressions first.
LEMMA NumericCarries ==
  ASSUME NEW src, NEW ms, NEW n, Covers(src, ms, n)
  PROVE  Carried(src, ms, MergeNumericExpressions(ms))
<1> DEFINE pieces == [i \in DOMAIN ms |-> NumericPiece(ms, i)]
<1>1. /\ ms \in Seq(Good(src)) /\ InOrder(ms)
      /\ Len(ms) \in Nat /\ DOMAIN ms = 1..Len(ms) /\ \A i \in DOMAIN ms : ms[i] \in Good(src)
      /\ \A i \in Inner(ms) : i \in DOMAIN ms /\ i + 1 \in DOMAIN ms /\ ms[i].end = ms[i + 1].start
      /\ \A k, l \in DOMAIN ms : NoGap(ms, k, l) /\ Adjoin(ms, k, l)
  BY TextPairs
<1>2. Len(pieces) = Len(ms)
  BY <1>1
<1>3. ASSUME NEW i \in DOMAIN ms PROVE PieceOK(src, ms, i, NumericPiece(ms, i))
  <2>0. i \in Nat /\ 1 <= i /\ i <= Len(ms)
    BY <1>1
  <2>1. CASE IsOrdinal(ms, i)
    <3>1. i < Len(ms) /\ ~IsSymbol(ms[i]) /\ ~IsSymbol(ms[i + 1])
      BY <2>1 DEF IsOrdinal, IsNoun, IsNumericExpression, IsSymbol
    <3>2. CASE OrdinalEnd(ms, i) = i + 3
      <4>1. i + 2 <= Len(ms) /\ ~IsSymbol(ms[i + 2])
        BY <2>0, <3>2 DEF OrdinalEnd, IsNoun, IsSymbol
      <4>2. i + 3 \in i + 1..Len(ms) + 1 /\ i..i + 3 - 1 = {i, i + 1, i + 2}
        BY <1>1, <2>0, <4>1
      <4>3. PieceOK(src, ms, i, Quantity(ms, i, i + 3))
        BY <3>1, <4>1, <4>2, QuantityPiece, SMTT(60)
      <4> QED BY <2>1, <3>2, <4>3 DEF NumericPiece
    <3>3. CASE OrdinalEnd(ms, i) # i + 3
      <4>1. OrdinalEnd(ms, i) = i + 2
        BY <3>3 DEF OrdinalEnd
      <4>2. i + 2 \in i + 1..Len(ms) + 1 /\ i..i + 2 - 1 = {i, i + 1}
        BY <1>1, <2>0, <3>1
      <4>3. PieceOK(src, ms, i, Quantity(ms, i, i + 2))
        BY <3>1, <4>2, QuantityPiece
      <4> QED BY <2>1, <4>1, <4>3 DEF NumericPiece
    <3> QED BY <3>2, <3>3
  <2>2. CASE ~IsOrdinal(ms, i) /\ IsLarge(ms, i)
    <3> DEFINE S == {k \in DOMAIN ms : IsLarge(ms, k)}
               j == RunEnd(ms, S, i)
    <3>1. S \subseteq 1..Len(ms) /\ i \in S /\ i \in 1..Len(ms) + 1
      BY <1>1, <2>0, <2>2
    <3>2. \A k \in S : ~IsSymbol(ms[k])
      BY DEF IsLarge, IsNumericExpression, IsNoun, IsSymbol
    <3> HIDE DEF S
    <3>3. j \in i..Len(ms) + 1 /\ j \notin S /\ i..(j - 1) \subseteq S
      BY <1>1, <3>1, RunEndIs
    <3>4. LargeEnd(ms, i) = IF j <= Len(ms) /\ IsNumericExpression(ms[j]) THEN j + 1 ELSE j
      BY DEF LargeEnd, S
    <3> HIDE DEF j
    <3>5. j # i /\ j \in i + 1..Len(ms) + 1
      BY <1>1, <2>0, <3>1, <3>3
    <3>6. \A k \in i..j - 1 : ~IsSymbol(ms[k])
      BY <3>2, <3>3
    <3>7. CASE j <= Len(ms) /\ IsNumericExpression(ms[j])
      <4> DEFINE e == j + 1
      <4>1. e \in i + 1..Len(ms) + 1 /\ \A k \in i..e - 1 : k \in i..j - 1 \/ k = j
        BY <1>1, <2>0, <3>5, <3>7
      <4>2. LargeEnd(ms, i) = e
        BY <3>4, <3>7
      <4> HIDE DEF e
      <4>3. ~IsSymbol(ms[j])
        BY <3>7 DEF IsNumericExpression, IsNoun, IsSymbol
      <4>4. \A k \in i..e - 1 : ~IsSymbol(ms[k])
        BY <3>6, <4>1, <4>3
      <4>5. PieceOK(src, ms, i, Quantity(ms, i, e))
        BY <4>1, <4>4, QuantityPiece
      <4> QED BY <2>2, <4>2, <4>5 DEF NumericPiece
    <3>8. CASE ~(j <= Len(ms) /\ IsNumericExpression(ms[j]))
      <4>1. PieceOK(src, ms, i, Quantity(ms, i, j))
        BY <3>5, <3>6, QuantityPiece
      <4> QED BY <2>2, <3>4, <3>8, <4>1 DEF NumericPiece
    <3> QED BY <3>7, <3>8
  <2>3. CASE ~IsOrdinal(ms, i) /\ ~IsLarge(ms, i) /\ IsGroupedCount(ms, i)
    <3> DEFINE y == [Lemma(ms[i + 1]) EXCEPT !.pos = "suffix", !.role = "suffix"]
    <3>1. i < Len(ms) /\ ~IsSymbol(ms[i]) /\ ~IsSymbol(ms[i + 1])
      BY <2>3 DEF IsGroupedCount, IsNumericExpression, IsNoun, IsSymbol
    <3>2. i \in Inner(ms) /\ i + 1 \in DOMAIN ms /\ i <= i + 1 /\ i..i + 1 = {i, i + 1} /\ i + 1 + 1 = i + 2
      BY <1>1, <2>0, <3>1 DEF Inner
    <3>3. ms[i] \in Good(src) /\ ms[i + 1] \in Good(src) /\ ms[i].end = ms[i + 1].start
      BY <1>1, <3>2
    <3>4. Retagged(y, ms[i + 1], "suffix", "suffix")
      <4>1. ms[i + 1] \in Record
        BY <3>3 DEF Good
      <4>2. "suffix" \in Wording
        BY DEF Wording
      <4> QED BY <4>1, <4>2, Regrammar
    <3>5. NumericPiece(ms, i) = [next |-> i + 1 + 1, out |-> <<ms[i], y>>]
      BY <2>3, <3>2 DEF NumericPiece, GroupedCount
    <3> HIDE DEF y
    <3>6. y \in Good(src) /\ y.start = ms[i + 1].start /\ y.end = ms[i + 1].end /\ ~IsSymbol(y)
      BY <3>3, <3>4, RetaggedGood
    <3>7. \A k \in i..i + 1 : ~IsSymbol(ms[k])
      BY <3>1, <3>2
    <3>8. PieceOK(src, ms, i, [next |-> i + 1 + 1, out |-> <<ms[i], y>>])
      BY <1>1, <3>1, <3>2, <3>3, <3>6, <3>7, TwoPiece
    <3> QED BY <3>5, <3>8
  <2>4. CASE /\ ~IsOrdinal(ms, i) /\ ~IsLarge(ms, i) /\ ~IsGroupedCount(ms, i)
             /\ IsQuantity(ms, i) \/ IsIndefinite(ms, i)
    <3>1. i < Len(ms) /\ ~IsSymbol(ms[i]) /\ ~IsSymbol(ms[i + 1])
      BY <2>4 DEF IsQuantity, IsIndefinite, IsNumericExpression, IsNoun, IsSymbol
    <3>2. i + 2 \in i + 1..Len(ms) + 1 /\ i..i + 2 - 1 = {i, i + 1}
      BY <1>1, <2>0, <3>1
    <3>3. PieceOK(src, ms, i, Quantity(ms, i, i + 2))
      BY <3>1, <3>2, QuantityPiece
    <3> QED BY <2>4, <3>3 DEF NumericPiece
  <2>5. CASE /\ ~IsOrdinal(ms, i) /\ ~IsLarge(ms, i) /\ ~IsGroupedCount(ms, i)
             /\ ~(IsQuantity(ms, i) \/ IsIndefinite(ms, i))
    BY <1>1, <2>5, KeptPiece DEF NumericPiece
  <2> QED BY <2>1, <2>2, <2>3, <2>4, <2>5
<1>4. \A i \in DOMAIN ms : PieceOK(src, ms, i, pieces[i])
  BY <1>3
<1>5. MergeNumericExpressions(ms) = Sweep(pieces)
  BY DEF MergeNumericExpressions
<1> HIDE DEF pieces
<1> QED BY <1>1, <1>2, <1>4, <1>5, SweepCarries

LEMMA FormalNegativeCarries ==
  ASSUME NEW src, NEW ms, NEW n, Covers(src, ms, n)
  PROVE  Carried(src, ms, MergeSplitFormalNounNegativeRenyokei(ms))
<1> DEFINE S == {i \in Inner(ms) : /\ CopularPair(ms, i, "ku", "auxiliary")
                                  /\ i > 1 /\ ms[i - 1].word = "koto" /\ ms[i - 1].formal}
           made == [i \in S |-> [Lemma(Merged(ms, i, i + 1)) EXCEPT !.pos = "adjective", !.role = "negative"]]
<1>1. /\ ms \in Seq(Good(src)) /\ InOrder(ms)
      /\ \A i \in DOMAIN ms : ms[i] \in Good(src)
      /\ \A i \in Inner(ms) : i \in DOMAIN ms /\ i + 1 \in DOMAIN ms /\ ms[i].end = ms[i + 1].start
      /\ \A i, j \in DOMAIN ms : NoGap(ms, i, j) /\ Adjoin(ms, i, j)
  BY TextPairs
<1>2. \A i \in S : i \in Inner(ms) /\ i < i + 1
  BY DEF Inner
<1>3. MergeSplitFormalNounNegativeRenyokei(ms) = JoinPairs(ms, made)
  BY DEF MergeSplitFormalNounNegativeRenyokei
<1>4. ASSUME NEW i \in S
      PROVE  /\ \E p, r : p # "symbol" /\ Retagged(made[i], Merged(ms, i, i + 1), p, r)
             /\ ~IsSymbol(ms[i]) /\ ~IsSymbol(ms[i + 1])
  <2> DEFINE M == Merged(ms, i, i + 1)
             x == [Lemma(M) EXCEPT !.pos = "adjective", !.role = "negative"]
  <2>1. i \in Inner(ms) /\ i \in DOMAIN ms /\ i + 1 \in DOMAIN ms /\ i < i + 1
    BY <1>1, <1>2
  <2>2. M \in Record /\ M.pos = ms[i].pos /\ M.role = ms[i].role /\ M.pos \in Wording /\ M.role \in Wording
    BY <1>1, <2>1, MergedRecord
  <2>3. made[i] = x
    BY DEF M
  <2>4. ms[i] \in Good(src) /\ ms[i + 1] \in Good(src)
    BY <1>1, <2>1
  <2>5. ~IsSymbol(ms[i]) /\ ~IsSymbol(ms[i + 1])
    BY <2>4, NotSymbol DEF CopularPair
  <2> HIDE DEF M, made, S
  <2>6. \E p, r : p # "symbol" /\ Retagged(x, M, p, r)
    <3>1. "adjective" \in Wording /\ "negative" \in Wording
      BY DEF Wording
    <3>2. Retagged(x, M, "adjective", "negative")
      BY <2>2, <3>1, Regrammar
    <3> QED BY <3>2
  <2> QED BY <2>3, <2>5, <2>6 DEF M
<1> HIDE DEF S
<1>5. DOMAIN made = S
  OBVIOUS
<1> HIDE DEF made
<1>6. Carried(src, ms, JoinPairs(ms, made))
  <2>1. DOMAIN made \subseteq Inner(ms)
    BY <1>2, <1>5
  <2>2. \A i \in DOMAIN made :
           /\ ms[i].end = ms[i + 1].start
           /\ \E p, r : p # "symbol" /\ Retagged(made[i], Merged(ms, i, i + 1), p, r)
           /\ IsSymbol(ms[i]) => ms[i].word = "mark"
           /\ IsSymbol(ms[i + 1]) => ms[i + 1].word = "mark"
    BY <1>1, <1>2, <1>4, <1>5
  <2> QED BY <1>1, <2>1, <2>2, JoinPairsCarries
<1> QED BY <1>3, <1>6


LEMMA CopularNegativeCarries ==
  ASSUME NEW src, NEW ms, NEW n, Covers(src, ms, n)
  PROVE  Carried(src, ms, MergeSplitCopularNegative(ms))
<1> DEFINE S == {j \in Inner(ms) : CopularPair(ms, j, "i", "aspect")}
           made == [i \in S |-> [Lemma(Merged(ms, i, i + 1)) EXCEPT
                                !.pos = IF i = 1 \/ ms[i - 1].pos \in {"noun", "particle"} THEN "adjective" ELSE "auxiliary", !.role = "negative"]]
<1>1. /\ ms \in Seq(Good(src)) /\ InOrder(ms)
      /\ \A i \in DOMAIN ms : ms[i] \in Good(src)
      /\ \A i \in Inner(ms) : i \in DOMAIN ms /\ i + 1 \in DOMAIN ms /\ ms[i].end = ms[i + 1].start
      /\ \A i, j \in DOMAIN ms : NoGap(ms, i, j) /\ Adjoin(ms, i, j)
  BY TextPairs
<1>2. \A i \in S : i \in Inner(ms) /\ i < i + 1
  BY DEF Inner
<1>3. MergeSplitCopularNegative(ms) = JoinPairs(ms, made)
  BY DEF MergeSplitCopularNegative
<1>4. ASSUME NEW i \in S
      PROVE  /\ \E p, r : p # "symbol" /\ Retagged(made[i], Merged(ms, i, i + 1), p, r)
             /\ ~IsSymbol(ms[i]) /\ ~IsSymbol(ms[i + 1])
  <2> DEFINE M == Merged(ms, i, i + 1)
             x == [Lemma(M) EXCEPT !.pos = IF i = 1 \/ ms[i - 1].pos \in {"noun", "particle"}
                                              THEN "adjective" ELSE "auxiliary", !.role = "negative"]
  <2>1. i \in Inner(ms) /\ i \in DOMAIN ms /\ i + 1 \in DOMAIN ms /\ i < i + 1
    BY <1>1, <1>2
  <2>2. M \in Record /\ M.pos = ms[i].pos /\ M.role = ms[i].role /\ M.pos \in Wording /\ M.role \in Wording
    BY <1>1, <2>1, MergedRecord
  <2>3. made[i] = x
    BY DEF M
  <2>4. ms[i] \in Good(src) /\ ms[i + 1] \in Good(src)
    BY <1>1, <2>1
  <2>5. ~IsSymbol(ms[i]) /\ ~IsSymbol(ms[i + 1])
    BY <2>4, NotSymbol DEF CopularPair
  <2> HIDE DEF M, made, S
  <2> DEFINE q == IF i = 1 \/ ms[i - 1].pos \in {"noun", "particle"} THEN "adjective" ELSE "auxiliary"
  <2>6. \E p, r : p # "symbol" /\ Retagged(x, M, p, r)
    <3>1. q \in Wording /\ "negative" \in Wording /\ q # "symbol"
      BY DEF Wording
    <3> HIDE DEF q
    <3>2. Retagged([Lemma(M) EXCEPT !.pos = q, !.role = "negative"], M, q, "negative")
      BY <2>2, <3>1, Regrammar
    <3>3. Retagged(x, M, q, "negative")
      BY <3>2 DEF q
    <3> QED BY <3>1, <3>3
  <2> QED BY <2>3, <2>5, <2>6 DEF M
<1> HIDE DEF S
<1>5. DOMAIN made = S
  OBVIOUS
<1> HIDE DEF made
<1>6. Carried(src, ms, JoinPairs(ms, made))
  <2>1. DOMAIN made \subseteq Inner(ms)
    BY <1>2, <1>5
  <2>2. \A i \in DOMAIN made :
           /\ ms[i].end = ms[i + 1].start
           /\ \E p, r : p # "symbol" /\ Retagged(made[i], Merged(ms, i, i + 1), p, r)
           /\ IsSymbol(ms[i]) => ms[i].word = "mark"
           /\ IsSymbol(ms[i + 1]) => ms[i + 1].word = "mark"
    BY <1>1, <1>2, <1>4, <1>5
  <2> QED BY <1>1, <2>1, <2>2, JoinPairsCarries
<1> QED BY <1>3, <1>6


LEMMA VerbMonoCarries ==
  ASSUME NEW src, NEW ms, NEW n, Covers(src, ms, n)
  PROVE  Carried(src, ms, MergeVerbRenyokeiMono(ms))
<1> DEFINE S == {i \in Inner(ms) : /\ ms[i].pos = "verb" /\ ms[i].role = "renyokei" /\ ms[i].word # "hiragana"
                                  /\ ms[i + 1].word = "mono" /\ ms[i + 1].formal}
           made == [i \in S |-> [Lemma(Merged(ms, i, i + 1)) EXCEPT !.pos = "noun", !.role = "noun"]]
<1>1. /\ ms \in Seq(Good(src)) /\ InOrder(ms)
      /\ \A i \in DOMAIN ms : ms[i] \in Good(src)
      /\ \A i \in Inner(ms) : i \in DOMAIN ms /\ i + 1 \in DOMAIN ms /\ ms[i].end = ms[i + 1].start
      /\ \A i, j \in DOMAIN ms : NoGap(ms, i, j) /\ Adjoin(ms, i, j)
  BY TextPairs
<1>2. \A i \in S : i \in Inner(ms) /\ i < i + 1
  BY DEF Inner
<1>3. MergeVerbRenyokeiMono(ms) = JoinPairs(ms, made)
  BY DEF MergeVerbRenyokeiMono
<1>4. ASSUME NEW i \in S
      PROVE  /\ \E p, r : p # "symbol" /\ Retagged(made[i], Merged(ms, i, i + 1), p, r)
             /\ ~IsSymbol(ms[i]) /\ ~IsSymbol(ms[i + 1])
  <2> DEFINE M == Merged(ms, i, i + 1)
             x == [Lemma(M) EXCEPT !.pos = "noun", !.role = "noun"]
  <2>1. i \in Inner(ms) /\ i \in DOMAIN ms /\ i + 1 \in DOMAIN ms /\ i < i + 1
    BY <1>1, <1>2
  <2>2. M \in Record /\ M.pos = ms[i].pos /\ M.role = ms[i].role /\ M.pos \in Wording /\ M.role \in Wording
    BY <1>1, <2>1, MergedRecord
  <2>3. made[i] = x
    BY DEF M
  <2>4. ms[i] \in Good(src) /\ ms[i + 1] \in Good(src)
    BY <1>1, <2>1
  <2>5. ~IsSymbol(ms[i]) /\ ~IsSymbol(ms[i + 1])
    BY <2>4, NotSymbol DEF IsSymbol
  <2> HIDE DEF M, made, S
  <2>6. \E p, r : p # "symbol" /\ Retagged(x, M, p, r)
    <3>1. "noun" \in Wording /\ "noun" \in Wording
      BY DEF Wording
    <3>2. Retagged(x, M, "noun", "noun")
      BY <2>2, <3>1, Regrammar
    <3> QED BY <3>2
  <2> QED BY <2>3, <2>5, <2>6 DEF M
<1> HIDE DEF S
<1>5. DOMAIN made = S
  OBVIOUS
<1> HIDE DEF made
<1>6. Carried(src, ms, JoinPairs(ms, made))
  <2>1. DOMAIN made \subseteq Inner(ms)
    BY <1>2, <1>5
  <2>2. \A i \in DOMAIN made :
           /\ ms[i].end = ms[i + 1].start
           /\ \E p, r : p # "symbol" /\ Retagged(made[i], Merged(ms, i, i + 1), p, r)
           /\ IsSymbol(ms[i]) => ms[i].word = "mark"
           /\ IsSymbol(ms[i + 1]) => ms[i + 1].word = "mark"
    BY <1>1, <1>2, <1>4, <1>5
  <2> QED BY <1>1, <2>1, <2>2, JoinPairsCarries
<1> QED BY <1>3, <1>6


LEMMA TemporalCarries ==
  ASSUME NEW src, NEW ms, NEW n, Covers(src, ms, n)
  PROVE  Carried(src, ms, MergeNounTemporalFormal(ms))
<1> DEFINE S == {i \in Inner(ms) : /\ IsNoun(ms[i]) /\ ~ms[i].formal
                                  /\ IsNoun(ms[i + 1]) /\ ms[i + 1].formal /\ ms[i + 1].word = "tochu"}
           made == [i \in S |-> [Lemma(Merged(ms, i, i + 1)) EXCEPT !.role = "noun"]]
<1>1. /\ ms \in Seq(Good(src)) /\ InOrder(ms)
      /\ \A i \in DOMAIN ms : ms[i] \in Good(src)
      /\ \A i \in Inner(ms) : i \in DOMAIN ms /\ i + 1 \in DOMAIN ms /\ ms[i].end = ms[i + 1].start
      /\ \A i, j \in DOMAIN ms : NoGap(ms, i, j) /\ Adjoin(ms, i, j)
  BY TextPairs
<1>2. \A i \in S : i \in Inner(ms) /\ i < i + 1
  BY DEF Inner
<1>3. MergeNounTemporalFormal(ms) = JoinPairs(ms, made)
  BY DEF MergeNounTemporalFormal
<1>4. ASSUME NEW i \in S
      PROVE  /\ \E p, r : p # "symbol" /\ Retagged(made[i], Merged(ms, i, i + 1), p, r)
             /\ ~IsSymbol(ms[i]) /\ ~IsSymbol(ms[i + 1])
  <2> DEFINE M == Merged(ms, i, i + 1)
             x == [Lemma(M) EXCEPT !.role = "noun"]
  <2>1. i \in Inner(ms) /\ i \in DOMAIN ms /\ i + 1 \in DOMAIN ms /\ i < i + 1
    BY <1>1, <1>2
  <2>2. M \in Record /\ M.pos = ms[i].pos /\ M.role = ms[i].role /\ M.pos \in Wording /\ M.role \in Wording
    BY <1>1, <2>1, MergedRecord
  <2>3. made[i] = x
    BY DEF M
  <2>4. ms[i] \in Good(src) /\ ms[i + 1] \in Good(src)
    BY <1>1, <2>1
  <2>5. ~IsSymbol(ms[i]) /\ ~IsSymbol(ms[i + 1])
    BY <2>4, NotSymbol DEF IsNoun, IsSymbol
  <2> HIDE DEF M, made, S
  <2>6. \E p, r : p # "symbol" /\ Retagged(x, M, p, r)
    <3>1. "noun" \in Wording
      BY DEF Wording
    <3>2. Retagged(x, M, M.pos, "noun")
      BY <2>2, <3>1, Regrammar
    <3>3. M.pos # "symbol"
      BY <2>2, <2>5 DEF IsSymbol
    <3> QED BY <3>2, <3>3
  <2> QED BY <2>3, <2>5, <2>6 DEF M
<1> HIDE DEF S
<1>5. DOMAIN made = S
  OBVIOUS
<1> HIDE DEF made
<1>6. Carried(src, ms, JoinPairs(ms, made))
  <2>1. DOMAIN made \subseteq Inner(ms)
    BY <1>2, <1>5
  <2>2. \A i \in DOMAIN made :
           /\ ms[i].end = ms[i + 1].start
           /\ \E p, r : p # "symbol" /\ Retagged(made[i], Merged(ms, i, i + 1), p, r)
           /\ IsSymbol(ms[i]) => ms[i].word = "mark"
           /\ IsSymbol(ms[i + 1]) => ms[i + 1].word = "mark"
    BY <1>1, <1>2, <1>4, <1>5
  <2> QED BY <1>1, <2>1, <2>2, JoinPairsCarries
<1> QED BY <1>3, <1>6


LEMMA AdverbsCarry ==
  ASSUME NEW src, NEW ms, NEW n, Covers(src, ms, n)
  PROVE  Carried(src, ms, MergeLexicalizedAdverbs(ms))
<1> DEFINE S == {j \in Inner(ms) : IsAdverb(ms, j)}
           made == [i \in S |-> [Lemma(Merged(ms, i, i + 1)) EXCEPT !.pos = "adverb", !.role = "adverb"]]
<1>1. /\ ms \in Seq(Good(src)) /\ InOrder(ms)
      /\ \A i \in DOMAIN ms : ms[i] \in Good(src)
      /\ \A i \in Inner(ms) : i \in DOMAIN ms /\ i + 1 \in DOMAIN ms /\ ms[i].end = ms[i + 1].start
      /\ \A i, j \in DOMAIN ms : NoGap(ms, i, j) /\ Adjoin(ms, i, j)
  BY TextPairs
<1>2. \A i \in S : i \in Inner(ms) /\ i < i + 1
  BY DEF Inner
<1>3. MergeLexicalizedAdverbs(ms) = JoinPairs(ms, made)
  BY DEF MergeLexicalizedAdverbs
<1>4. ASSUME NEW i \in S
      PROVE  /\ \E p, r : p # "symbol" /\ Retagged(made[i], Merged(ms, i, i + 1), p, r)
             /\ ~IsSymbol(ms[i]) /\ ~IsSymbol(ms[i + 1])
  <2> DEFINE M == Merged(ms, i, i + 1)
             x == [Lemma(M) EXCEPT !.pos = "adverb", !.role = "adverb"]
  <2>1. i \in Inner(ms) /\ i \in DOMAIN ms /\ i + 1 \in DOMAIN ms /\ i < i + 1
    BY <1>1, <1>2
  <2>2. M \in Record /\ M.pos = ms[i].pos /\ M.role = ms[i].role /\ M.pos \in Wording /\ M.role \in Wording
    BY <1>1, <2>1, MergedRecord
  <2>3. made[i] = x
    BY DEF M
  <2>4. ms[i] \in Good(src) /\ ms[i + 1] \in Good(src)
    BY <1>1, <2>1
  <2>5. ~IsSymbol(ms[i]) /\ ~IsSymbol(ms[i + 1])
    BY <2>4, NotSymbol DEF IsAdverb, IsSymbol
  <2> HIDE DEF M, made, S
  <2>6. \E p, r : p # "symbol" /\ Retagged(x, M, p, r)
    <3>1. "adverb" \in Wording /\ "adverb" \in Wording
      BY DEF Wording
    <3>2. Retagged(x, M, "adverb", "adverb")
      BY <2>2, <3>1, Regrammar
    <3> QED BY <3>2
  <2> QED BY <2>3, <2>5, <2>6 DEF M
<1> HIDE DEF S
<1>5. DOMAIN made = S
  OBVIOUS
<1> HIDE DEF made
<1>6. Carried(src, ms, JoinPairs(ms, made))
  <2>1. DOMAIN made \subseteq Inner(ms)
    BY <1>2, <1>5
  <2>2. \A i \in DOMAIN made :
           /\ ms[i].end = ms[i + 1].start
           /\ \E p, r : p # "symbol" /\ Retagged(made[i], Merged(ms, i, i + 1), p, r)
           /\ IsSymbol(ms[i]) => ms[i].word = "mark"
           /\ IsSymbol(ms[i + 1]) => ms[i + 1].word = "mark"
    BY <1>1, <1>2, <1>4, <1>5
  <2> QED BY <1>1, <2>1, <2>2, JoinPairsCarries
<1> QED BY <1>3, <1>6


\* demo comes apart into two adjoining halves of one character each.
LEMMA DemoHalvesAre ==
  ASSUME NEW src, NEW m \in Good(src), m.word = "demo"
  PROVE  \E x, y \in Good(src) :
           /\ DemoHalves(m) = <<x, y>>
           /\ x.start = m.start /\ x.end = y.start /\ y.end = m.end
           /\ ~IsSymbol(x) /\ ~IsSymbol(y)
<1> DEFINE middle == m.start + 1
           l == Lemma(m)
           c1 == <<m.chars[1]>>
           c2 == <<m.chars[2]>>
           w1 == "de"
           w2 == "mo"
           p1 == "auxiliary"
           p2 == "particle"
           r1 == "copula"
           r2 == "topic"
           x == [l EXCEPT !.end = middle, !.chars = c1, !.word = w1, !.pos = p1, !.role = r1]
           y == [l EXCEPT !.start = middle, !.chars = c2, !.word = w2, !.pos = p2, !.role = r2]
<1>1. /\ m.start \in Nat /\ m.end = m.start + 2 /\ m.chars = CharsBetween(m.start, m.end) /\ m \in Record
  BY GoodFields DEF Good
<1>2. l \in Record /\ l.start = m.start /\ l.end = m.end /\ l.chars = m.chars /\ l.lemma = Computed
  BY <1>1 DEF Lemma, Record, Computed
<1>3. DemoHalves(m) = <<x, y>>
  BY <1>2 DEF DemoHalves
<1>4. m.chars[1] = m.start + 1 /\ m.chars[2] = m.start + 2
  BY <1>1 DEF CharsBetween
<1>5. c1 = CharsBetween(m.start, middle) /\ c2 = CharsBetween(middle, m.end)
  <2>1. /\ middle - m.start = 1 /\ m.end - middle = 1
    BY <1>1
  <2>2. CharsBetween(m.start, middle) = [j \in 1..1 |-> m.start + j]
    BY <2>1 DEF CharsBetween
  <2>3. CharsBetween(middle, m.end) = [j \in 1..1 |-> middle + j]
    BY <2>1 DEF CharsBetween
  <2>4. c1 \in Seq(Nat) /\ c2 \in Seq(Nat) /\ Len(c1) = 1 /\ Len(c2) = 1
        /\ c1[1] = m.start + 1 /\ c2[1] = m.start + 2
    BY <1>1, <1>4
  <2> DEFINE d1 == CharsBetween(m.start, middle)
             d2 == CharsBetween(middle, m.end)
  <2>5. d1 \in Seq(Nat) /\ d2 \in Seq(Nat) /\ Len(d1) = 1 /\ Len(d2) = 1
    <3>1. middle \in Nat /\ m.start <= middle /\ m.end \in Nat /\ middle <= m.end
      BY <1>1
    <3> HIDE DEF middle
    <3> QED BY <1>1, <2>1, <3>1, CharsBetweenType
  <2>6. d1[1] = m.start + 1 /\ d2[1] = m.start + 2
    BY <1>1, <2>2, <2>3
  <2> HIDE DEF c1, c2, d1, d2, middle
  <2>7. c1 = d1
    BY <2>4, <2>5, <2>6, SeqEqual
  <2>8. c2 = d2
    BY <2>4, <2>5, <2>6, SeqEqual
  <2> QED BY <2>7, <2>8 DEF d1, d2
<1>6. /\ middle \in Nat /\ c1 \in Seq(Nat) /\ c2 \in Seq(Nat)
      /\ w1 \in Wording /\ w2 \in Wording /\ p1 \in Wording /\ p2 \in Wording /\ r1 \in Wording /\ r2 \in Wording
  BY <1>1, <1>4 DEF Wording
<1>7. /\ w1 # "demo" /\ w2 # "demo" /\ p1 # "symbol" /\ p2 # "symbol"
      /\ m.start < middle /\ middle < m.end
  BY <1>1
<1> HIDE DEF middle, l, c1, c2, w1, w2, p1, p2, r1, r2
<1>8. x \in Record /\ x.start = l.start /\ x.end = middle /\ x.chars = c1 /\ x.word = w1 /\ x.pos = p1
      /\ x.lemma = l.lemma
  BY <1>2, <1>6 DEF Record
<1>9. y \in Record /\ y.start = middle /\ y.end = l.end /\ y.chars = c2 /\ y.word = w2 /\ y.pos = p2
      /\ y.lemma = l.lemma
  BY <1>2, <1>6 DEF Record
<1> HIDE DEF x, y
<1>10. x \in Good(src) /\ y \in Good(src) /\ ~IsSymbol(x) /\ ~IsSymbol(y)
  BY <1>1, <1>2, <1>5, <1>7, <1>8, <1>9 DEF Good, IsSymbol
<1> QED BY <1>2, <1>3, <1>8, <1>9, <1>10

LEMMA DemoCarries ==
  ASSUME NEW src, NEW ms, NEW n, Covers(src, ms, n)
  PROVE  Carried(src, ms, SplitFormalNounCopularDemo(ms))
<1> DEFINE pieces == [i \in DOMAIN ms |-> IF IsCopularDemo(ms, i) THEN [next |-> i + 1, out |-> DemoHalves(ms[i])]
                                          ELSE Kept(ms, i)]
<1>1. /\ ms \in Seq(Good(src)) /\ InOrder(ms)
      /\ Len(ms) \in Nat /\ DOMAIN ms = 1..Len(ms) /\ \A i \in DOMAIN ms : ms[i] \in Good(src)
      /\ \A i, j \in DOMAIN ms : NoGap(ms, i, j) /\ Adjoin(ms, i, j)
  BY TextPairs
<1>2. Len(pieces) = Len(ms)
  BY <1>1
<1>3. ASSUME NEW i \in DOMAIN ms PROVE PieceOK(src, ms, i, pieces[i])
  <2>1. CASE IsCopularDemo(ms, i)
    <3>1. ms[i] \in Good(src) /\ ms[i].word = "demo" /\ ms[i].role # "symbol"
      BY <1>1, <2>1 DEF IsCopularDemo
    <3>2. ~IsSymbol(ms[i]) /\ i <= i /\ \A k \in i..i : k = i
      BY <1>1, <3>1, NotSymbol
    <3>3. PICK x \in Good(src), y \in Good(src) :
             /\ DemoHalves(ms[i]) = <<x, y>>
             /\ x.start = ms[i].start /\ x.end = y.start /\ y.end = ms[i].end
             /\ ~IsSymbol(x) /\ ~IsSymbol(y)
      BY <3>1, DemoHalvesAre
    <3>4. PieceOK(src, ms, i, [next |-> i + 1, out |-> <<x, y>>])
      BY <1>1, <3>2, <3>3, TwoPiece
    <3> QED BY <2>1, <3>3, <3>4
  <2>2. CASE ~IsCopularDemo(ms, i)
    BY <1>1, <2>2, KeptPiece
  <2> QED BY <2>1, <2>2
<1>4. SplitFormalNounCopularDemo(ms) = Sweep(pieces)
  BY DEF SplitFormalNounCopularDemo
<1> HIDE DEF pieces
<1> QED BY <1>1, <1>2, <1>3, <1>4, SweepCarries

LEMMA CompoundPiece ==
  ASSUME NEW src, NEW ms, NEW n, Covers(src, ms, n), NEW i \in DOMAIN ms, NEW j \in i + 1..Len(ms) + 1,
         ~IsSymbol(ms[i]), \A k \in i + 1..j - 1 : IsSymbol(ms[k]) => ms[k].word = "mark"
  PROVE  PieceOK(src, ms, i, Compound(ms, i, j))
<1>1. /\ ms \in Seq(Good(src)) /\ InOrder(ms)
      /\ Len(ms) \in Nat /\ DOMAIN ms = 1..Len(ms)
      /\ \A k, l \in DOMAIN ms : NoGap(ms, k, l) /\ Adjoin(ms, k, l)
  BY TextPairs
<1>2. CASE j = i + 1
  <2>1. Compound(ms, i, j) = Kept(ms, i)
    BY <1>2 DEF Compound
  <2> QED BY <1>1, <2>1, KeptPiece
<1>3. CASE j # i + 1
  <2>1. j - 1 \in DOMAIN ms /\ i < j - 1 /\ j - 1 + 1 = j
    BY <1>1, <1>3
  <2> DEFINE M == Merged(ms, i, j - 1)
             x == Lemma(M)
  <2>2. M \in Record /\ M.pos = ms[i].pos /\ M.pos \in Wording /\ M.role \in Wording
    BY <1>1, <2>1, MergedRecord
  <2> HIDE DEF M
  <2>3. Retagged(x, M, M.pos, M.role) /\ M.pos # "symbol"
    BY <2>2, Regrammar DEF IsSymbol
  <2>4. Compound(ms, i, j) = [next |-> j, out |-> <<x>>]
    BY <1>3 DEF Compound, M
  <2> HIDE DEF x
  <2>5. \A k \in i..j - 1 : IsSymbol(ms[k]) => ms[k].word = "mark"
    <3>1. \A k \in i..j - 1 : k = i \/ k \in i + 1..j - 1
      BY <1>1
    <3> QED BY <3>1
  <2>6. PieceOK(src, ms, i, [next |-> j - 1 + 1, out |-> <<x>>])
    BY <1>1, <2>1, <2>3, <2>5, JoinedPiece DEF M
  <2> QED BY <2>1, <2>4, <2>6
<1> QED BY <1>2, <1>3

LEMMA CompoundsCarry ==
  ASSUME NEW src, NEW ms, NEW n, Covers(src, ms, n)
  PROVE  Carried(src, ms, MergeNounCompounds(ms))
<1> DEFINE plain == {i \in DOMAIN ms : IsNoun(ms[i]) /\ ~ms[i].formal}
           pieces == [i \in DOMAIN ms |-> IF i \in plain THEN Compound(ms, i, RunEnd(ms, plain, i)) ELSE Kept(ms, i)]
<1>1. /\ ms \in Seq(Good(src)) /\ InOrder(ms)
      /\ Len(ms) \in Nat /\ DOMAIN ms = 1..Len(ms) /\ \A i \in DOMAIN ms : ms[i] \in Good(src)
  BY TextPairs
<1>2. Len(pieces) = Len(ms)
  BY <1>1
<1>3. MergeNounCompounds(ms) = Sweep(pieces)
  BY DEF MergeNounCompounds
<1>4. plain \subseteq 1..Len(ms) /\ \A k \in plain : ~IsSymbol(ms[k])
  BY <1>1 DEF IsNoun, IsSymbol
<1> HIDE DEF plain
<1>5. ASSUME NEW i \in DOMAIN ms PROVE PieceOK(src, ms, i, pieces[i])
  <2>1. CASE i \in plain
    <3> DEFINE j == RunEnd(ms, plain, i)
    <3>1. i \in 1..Len(ms) + 1
      BY <1>1
    <3>2. j \in i..Len(ms) + 1 /\ j \notin plain /\ i..(j - 1) \subseteq plain
      BY <1>1, <1>4, <3>1, RunEndIs
    <3>3. pieces[i] = Compound(ms, i, j)
      BY <2>1
    <3> HIDE DEF j, pieces
    <3>4. j # i /\ j \in i + 1..Len(ms) + 1 /\ i + 1..j - 1 \subseteq i..j - 1
      BY <1>1, <2>1, <3>2
    <3>5. PieceOK(src, ms, i, Compound(ms, i, j))
      BY <1>4, <2>1, <3>2, <3>4, CompoundPiece
    <3> QED BY <3>3, <3>5
  <2>2. CASE i \notin plain
    BY <1>1, <2>2, KeptPiece
  <2> QED BY <2>1, <2>2
<1> HIDE DEF pieces
<1> QED BY <1>1, <1>2, <1>3, <1>5, SweepCarries

LEMMA MarksCarry ==
  ASSUME NEW src, NEW ms, NEW n, Covers(src, ms, n)
  PROVE  Carried(src, ms, MergeProlongedSoundMark(ms))
<1> DEFINE marks == {i \in DOMAIN ms : ms[i].word = "mark"}
           pieces == [i \in DOMAIN ms |-> IF IsSymbol(ms[i]) THEN Kept(ms, i)
                                          ELSE Compound(ms, i, RunEnd(ms, marks, i + 1))]
<1>1. /\ ms \in Seq(Good(src)) /\ InOrder(ms)
      /\ Len(ms) \in Nat /\ DOMAIN ms = 1..Len(ms) /\ \A i \in DOMAIN ms : ms[i] \in Good(src)
  BY TextPairs
<1>2. Len(pieces) = Len(ms)
  BY <1>1
<1>3. MergeProlongedSoundMark(ms) = Sweep(pieces)
  BY DEF MergeProlongedSoundMark
<1>4. marks \subseteq 1..Len(ms) /\ \A k \in marks : ms[k].word = "mark"
  BY <1>1
<1> HIDE DEF marks
<1>5. ASSUME NEW i \in DOMAIN ms PROVE PieceOK(src, ms, i, pieces[i])
  <2>1. CASE ~IsSymbol(ms[i])
    <3> DEFINE j == RunEnd(ms, marks, i + 1)
    <3>1. i + 1 \in 1..Len(ms) + 1
      BY <1>1
    <3>2. j \in i + 1..Len(ms) + 1 /\ i + 1..(j - 1) \subseteq marks
      BY <1>1, <1>4, <3>1, RunEndIs
    <3>3. pieces[i] = Compound(ms, i, j)
      BY <2>1
    <3> HIDE DEF j, pieces
    <3>4. PieceOK(src, ms, i, Compound(ms, i, j))
      BY <1>4, <2>1, <3>2, CompoundPiece
    <3> QED BY <3>3, <3>4
  <2>2. CASE IsSymbol(ms[i])
    BY <1>1, <2>2, KeptPiece
  <2> QED BY <2>1, <2>2
<1> HIDE DEF pieces
<1> QED BY <1>1, <1>2, <1>3, <1>5, SweepCarries

-----------------------------------------------------------------------------
(* Symbols set aside and put back *)

\* What is picked from a row is in order.
LEMMA PickInOrder ==
  ASSUME NEW T, NEW ms \in Seq(T), InOrder(ms), NEW P \in SUBSET (DOMAIN ms)
  PROVE  Pick(ms, P) \in Seq(T) /\ InOrder(Pick(ms, P)) /\ All(Pick(ms, P)) = At(ms, P)
<1> DEFINE s == Pick(ms, P)
           L == Ascending(P)
<1>1. /\ s \in Seq(T)
      /\ \A n \in DOMAIN s : \E i \in P : s[n] = ms[i]
      /\ \A i \in P : \E n \in DOMAIN s : s[n] = ms[i]
  BY PickKeeps
<1>2. P \in SUBSET Int /\ IsFiniteSet(P)
  <2>1. Len(ms) \in Nat /\ IsFiniteSet(1..Len(ms)) /\ P \in SUBSET (1..Len(ms))
    BY FS_Interval
  <2> QED BY <2>1, FS_Subset
<1>3. L \in Seq(P) /\ \A m, n \in DOMAIN L : m < n => L[m] < L[n]
  BY <1>2, AscendingLists
<1>4. s = [n \in DOMAIN L |-> ms[L[n]]]
  BY DEF Pick
<1> HIDE DEF L
<1>5. \A n \in DOMAIN L : L[n] \in DOMAIN ms
  BY <1>3
<1>6. InOrder(s)
  BY <1>3, <1>4, <1>5 DEF InOrder
<1> HIDE DEF s
<1>7. All(s) = At(ms, P)
  BY <1>1 DEF All, At
<1> QED BY <1>1, <1>6, <1>7 DEF s

\* A row grows by a morpheme behind its last one.
LEMMA AppendRow ==
  ASSUME NEW T, NEW s \in Seq(T), NEW x \in T, InOrder(s), \A i \in DOMAIN s : s[i].end <= x.start
  PROVE  /\ Append(s, x) \in Seq(T) /\ InOrder(Append(s, x)) /\ All(Append(s, x)) = All(s) \cup {x}
<1> DEFINE r == Append(s, x)
<1>1. /\ Len(s) \in Nat /\ DOMAIN s = 1..Len(s)
      /\ r \in Seq(T) /\ DOMAIN r = 1..Len(s) + 1
      /\ \A i \in 1..Len(s) : r[i] = s[i]
      /\ r[Len(s) + 1] = x
  OBVIOUS
<1> HIDE DEF r
<1>2. InOrder(r)
  <2>1. SUFFICES ASSUME NEW i \in DOMAIN r, NEW j \in DOMAIN r, i < j PROVE r[i].end <= r[j].start
    BY DEF InOrder
  <2>2. i \in 1..Len(s) /\ (j \in 1..Len(s) \/ j = Len(s) + 1)
    BY <1>1, <2>1
  <2> QED BY <1>1, <2>1, <2>2 DEF InOrder
<1>3. All(r) = All(s) \cup {x}
  <2>1. \A i \in DOMAIN r : i \in DOMAIN s \/ i = Len(s) + 1
    BY <1>1
  <2>2. \A i \in DOMAIN s : i \in DOMAIN r
    BY <1>1
  <2>3. Len(s) + 1 \in DOMAIN r
    BY <1>1
  <2> QED BY <1>1, <2>1, <2>2, <2>3 DEF All, At
<1> QED BY <1>1, <1>2, <1>3 DEF r

LEMMA VerbPairsCarry ==
  ASSUME NEW src, NEW ms \in Seq(Good(src)), InOrder(ms), \A i \in DOMAIN ms : ~IsSymbol(ms[i])
  PROVE  Carried(src, ms, MergeVerbPairs(ms))
<1> DEFINE S == {j \in Inner(ms) : JoinsVerb(ms[j], ms[j + 1])}
           made == [i \in S |-> [Lemma(Merged(ms, i, i + 1)) EXCEPT !.role = ms[i + 1].role]]
<1>1. MergeVerbPairs(ms) = JoinPairs(ms, made)
  BY DEF MergeVerbPairs
<1>2. ASSUME NEW i \in S
      PROVE  /\ i \in Inner(ms) /\ i \in DOMAIN ms /\ i + 1 \in DOMAIN ms /\ i < i + 1
             /\ ms[i].end = ms[i + 1].start /\ ms[i].pos = "verb"
             /\ Adjoin(ms, i, i + 1)
  <2>1. i \in Inner(ms) /\ ms[i].end = ms[i + 1].start /\ ms[i].pos = "verb"
    BY DEF JoinsVerb, IsVerbPair
  <2> QED BY <2>1, PairGap
<1>3. ASSUME NEW i \in S
      PROVE  \E p, r : p # "symbol" /\ Retagged(made[i], Merged(ms, i, i + 1), p, r)
  <2> DEFINE M == Merged(ms, i, i + 1)
             r == ms[i + 1].role
  <2>1. M \in Record /\ M.pos = "verb"
    BY <1>2, MergedRecord
  <2>2. ms[i + 1] \in Good(src) /\ r \in Wording
    BY <1>2, GoodFields
  <2>3. made[i] = [Lemma(M) EXCEPT !.role = r]
    OBVIOUS
  <2> HIDE DEF M, r, made, S
  <2>4. Retagged([Lemma(M) EXCEPT !.role = r], M, M.pos, r)
    BY <2>1, <2>2, Regrammar
  <2> QED BY <2>1, <2>3, <2>4 DEF M
<1>4. DOMAIN made = S
  OBVIOUS
<1> HIDE DEF S, made
<1>5. DOMAIN made \subseteq Inner(ms)
  BY <1>2, <1>4
<1>6. Carried(src, ms, JoinPairs(ms, made))
  BY <1>2, <1>3, <1>4, <1>5, JoinPairsCarries
<1> QED BY <1>1, <1>6

\* Where merging back has come after n steps.
Back(src, A, B, s, n) ==
  /\ s \in [semantic : 1..Len(A) + 1, symbol : 1..Len(B) + 1, out : Seq(Good(src))]
  /\ s.semantic + s.symbol = n + 2
  /\ InOrder(s.out) /\ All(s.out) = At(A, 1..s.semantic - 1) \cup At(B, 1..s.symbol - 1)
  /\ \A k \in DOMAIN s.out : /\ \A a \in s.semantic..Len(A) : s.out[k].end <= A[a].start
                             /\ \A b \in s.symbol..Len(B) : s.out[k].end <= B[b].start

\* One step of merging back takes the next morpheme of either row, in order.
LEMMA BackStep ==
  ASSUME NEW src, NEW A \in Seq(Good(src)), NEW B \in Seq(Good(src)), InOrder(A), InOrder(B),
         \A x \in All(A), y \in All(B) : x.end <= y.start \/ y.end <= x.start,
         NEW n \in Nat, n < Len(A) + Len(B), NEW s, Back(src, A, B, s, n)
  PROVE  Back(src, A, B, MergeBackStep(A, B, s), n + 1)
<1>1. /\ Len(A) \in Nat /\ Len(B) \in Nat /\ DOMAIN A = 1..Len(A) /\ DOMAIN B = 1..Len(B)
      /\ \A a \in DOMAIN A : A[a] \in Good(src)
      /\ \A b \in DOMAIN B : B[b] \in Good(src)
  OBVIOUS
<1> DEFINE i == s.semantic
           j == s.symbol
           out == s.out
<1>2. /\ i \in 1..Len(A) + 1 /\ j \in 1..Len(B) + 1 /\ out \in Seq(Good(src)) /\ i + j = n + 2
      /\ InOrder(out) /\ All(out) = At(A, 1..i - 1) \cup At(B, 1..j - 1)
      /\ \A k \in DOMAIN out : \A a \in i..Len(A) : out[k].end <= A[a].start
      /\ \A k \in DOMAIN out : \A b \in j..Len(B) : out[k].end <= B[b].start
  BY DEF Back
<1>3. \A a \in DOMAIN A, b \in DOMAIN B :
        /\ A[a].end <= B[b].start \/ B[b].end <= A[a].start
        /\ SemanticFirst(A[a], B[b]) <=> A[a].end <= B[b].start
  <2> SUFFICES ASSUME NEW a \in DOMAIN A, NEW b \in DOMAIN B
               PROVE  /\ A[a].end <= B[b].start \/ B[b].end <= A[a].start
                      /\ SemanticFirst(A[a], B[b]) <=> A[a].end <= B[b].start
    OBVIOUS
  <2>1. A[a] \in All(A) /\ B[b] \in All(B)
    BY DEF All, At
  <2>2. A[a].end <= B[b].start \/ B[b].end <= A[a].start
    BY <2>1
  <2>3. /\ A[a].start \in Nat /\ A[a].end \in Nat /\ A[a].start < A[a].end
        /\ B[b].start \in Nat /\ B[b].end \in Nat /\ B[b].start < B[b].end
    BY <1>1, GoodFields
  <2> QED BY <2>2, <2>3 DEF SemanticFirst
<1>4. \A m \in Good(src) : m.start \in Nat /\ m.end \in Nat /\ m.start < m.end
  BY GoodFields
<1>5. CASE i <= Len(A) /\ (j > Len(B) \/ SemanticFirst(A[i], B[j]))
  <2> DEFINE t == [s EXCEPT !.semantic = @ + 1, !.out = Append(@, A[i])]
  <2>1. MergeBackStep(A, B, s) = t
    BY <1>5 DEF MergeBackStep
  <2>2. i \in DOMAIN A /\ A[i] \in Good(src) /\ (j \in DOMAIN B \/ j > Len(B))
    BY <1>1, <1>2, <1>5
  <2>3. \A k \in DOMAIN out : out[k].end <= A[i].start
    <3>1. i \in i..Len(A)
      BY <1>1, <2>2
    <3> HIDE DEF i, j, out
    <3> QED BY <1>2, <3>1
  <2>4. Append(out, A[i]) \in Seq(Good(src)) /\ InOrder(Append(out, A[i])) /\ All(Append(out, A[i])) = All(out) \cup {A[i]}
    <3> DEFINE x == A[i]
    <3>1. /\ out \in Seq(Good(src)) /\ InOrder(out) /\ x \in Good(src)
          /\ \A k \in DOMAIN out : out[k].end <= x.start
      BY <1>2, <2>2, <2>3
    <3> HIDE DEF i, j, out, x
    <3>2. Append(out, x) \in Seq(Good(src)) /\ InOrder(Append(out, x)) /\ All(Append(out, x)) = All(out) \cup {x}
      BY <3>1, AppendRow
    <3> QED BY <3>2 DEF x
  <2> DEFINE o == Append(out, A[i])
             e == i + 1
  <2>5. e \in 1..Len(A) + 1
    BY <1>2, <1>5
  <2>6. t = [s EXCEPT !.semantic = e, !.out = o]
    BY DEF Back
  <2> HIDE DEF t
  <2>7. /\ \A a \in e..Len(A) : a \in DOMAIN A /\ a \in i..Len(A) /\ A[i].end <= A[a].start
        /\ \A b \in j..Len(B) : A[i].end <= B[b].start
    <3>1. \A a \in e..Len(A) : a \in DOMAIN A /\ a \in i..Len(A) /\ i < a
      BY <1>1, <1>2
    <3>2. ASSUME NEW b \in j..Len(B) PROVE A[i].end <= B[b].start
      <4>1. j \in DOMAIN B /\ b \in DOMAIN B /\ (j < b \/ j = b)
        BY <1>1, <1>2, <3>2
      <4>2. A[i].end <= B[j].start
        BY <1>2, <1>3, <1>5, <2>2, <4>1, SMTT(60)
      <4>3. j < b => B[j].end <= B[b].start
        BY <4>1 DEF InOrder
      <4>4. B[j] \in Good(src) /\ B[b] \in Good(src)
        BY <1>1, <4>1
      <4> QED BY <1>4, <2>2, <4>1, <4>2, <4>3, <4>4, SMTT(60)
    <3> QED BY <2>2, <3>1, <3>2 DEF InOrder
  <2>8. e + j = n + 1 + 2
    <3>1. i \in Nat /\ j \in Nat /\ i + j = n + 2
      BY <1>1, <1>2
    <3> HIDE DEF i, j
    <3> QED BY <3>1
  <2>9. At(A, 1..e - 1) = At(A, 1..i - 1) \cup {A[i]}
    <3>1. 1..e - 1 = (1..i - 1) \cup {i}
      BY <1>2
    <3> QED BY <3>1 DEF At
  <2> HIDE DEF o, e
  <2>10. \A k \in DOMAIN o : \/ o[k] = A[i]
                             \/ \E l \in DOMAIN out : o[k] = out[l]
    <3>1. \A k \in DOMAIN o : o[k] \in All(out) \/ o[k] = A[i]
      BY <2>4 DEF All, At, o
    <3> QED BY <3>1 DEF All, At
  <2>11. \A k \in DOMAIN o : /\ \A a \in e..Len(A) : o[k].end <= A[a].start
                             /\ \A b \in j..Len(B) : o[k].end <= B[b].start
    BY <1>2, <2>7, <2>10
  <2>12. /\ t \in [semantic : 1..Len(A) + 1, symbol : 1..Len(B) + 1, out : Seq(Good(src))]
         /\ t.semantic = e /\ t.symbol = j /\ t.out = o
    BY <2>4, <2>5, <2>6 DEF Back, o
  <2>13. InOrder(o) /\ All(o) = At(A, 1..e - 1) \cup At(B, 1..j - 1)
    BY <1>2, <2>4, <2>9 DEF o
  <2> HIDE DEF i, j, out
  <2> QED BY <2>1, <2>8, <2>11, <2>12, <2>13 DEF Back
<1>6. CASE ~(i <= Len(A) /\ (j > Len(B) \/ SemanticFirst(A[i], B[j])))
  <2> DEFINE t == [s EXCEPT !.symbol = @ + 1, !.out = Append(@, B[j])]
  <2>1. MergeBackStep(A, B, s) = t
    BY <1>6 DEF MergeBackStep
  <2>2. j \in DOMAIN B /\ B[j] \in Good(src) /\ (i \in DOMAIN A \/ i > Len(A))
    BY <1>1, <1>2, <1>6
  <2>3. \A k \in DOMAIN out : out[k].end <= B[j].start
    <3>1. j \in j..Len(B)
      BY <1>1, <2>2
    <3> HIDE DEF i, j, out
    <3> QED BY <1>2, <3>1
  <2>4. Append(out, B[j]) \in Seq(Good(src)) /\ InOrder(Append(out, B[j])) /\ All(Append(out, B[j])) = All(out) \cup {B[j]}
    <3> DEFINE x == B[j]
    <3>1. /\ out \in Seq(Good(src)) /\ InOrder(out) /\ x \in Good(src)
          /\ \A k \in DOMAIN out : out[k].end <= x.start
      BY <1>2, <2>2, <2>3
    <3> HIDE DEF i, j, out, x
    <3>2. Append(out, x) \in Seq(Good(src)) /\ InOrder(Append(out, x)) /\ All(Append(out, x)) = All(out) \cup {x}
      BY <3>1, AppendRow
    <3> QED BY <3>2 DEF x
  <2> DEFINE o == Append(out, B[j])
             e == j + 1
  <2>5. e \in 1..Len(B) + 1
    BY <1>1, <1>2, <2>2
  <2>6. t = [s EXCEPT !.symbol = e, !.out = o]
    BY DEF Back
  <2> HIDE DEF t
  <2>7. /\ \A b \in e..Len(B) : b \in DOMAIN B /\ b \in j..Len(B) /\ B[j].end <= B[b].start
        /\ \A a \in i..Len(A) : B[j].end <= A[a].start
    <3>1. \A b \in e..Len(B) : b \in DOMAIN B /\ b \in j..Len(B) /\ j < b
      BY <1>1, <1>2
    <3>2. ASSUME NEW a \in i..Len(A) PROVE B[j].end <= A[a].start
      <4>1. i \in DOMAIN A /\ a \in DOMAIN A /\ (i < a \/ i = a)
        BY <1>1, <1>2, <3>2
      <4>2. B[j].end <= A[i].start
        <5>1. ~SemanticFirst(A[i], B[j])
          BY <1>1, <1>6, <2>2, <4>1
        <5> QED BY <1>3, <2>2, <4>1, <5>1
      <4>3. i < a => A[i].end <= A[a].start
        BY <4>1 DEF InOrder
      <4>4. A[i] \in Good(src) /\ A[a] \in Good(src)
        BY <1>1, <4>1
      <4> QED BY <1>4, <2>2, <4>1, <4>2, <4>3, <4>4, SMTT(60)
    <3> QED BY <2>2, <3>1, <3>2 DEF InOrder
  <2>8. i + e = n + 1 + 2
    <3>1. i \in Nat /\ j \in Nat /\ i + j = n + 2
      BY <1>1, <1>2
    <3> HIDE DEF i, j
    <3> QED BY <3>1
  <2>9. At(B, 1..e - 1) = At(B, 1..j - 1) \cup {B[j]}
    <3>1. 1..e - 1 = (1..j - 1) \cup {j}
      BY <1>2
    <3> QED BY <3>1 DEF At
  <2> HIDE DEF o, e
  <2>10. \A k \in DOMAIN o : \/ o[k] = B[j]
                             \/ \E l \in DOMAIN out : o[k] = out[l]
    <3>1. \A k \in DOMAIN o : o[k] \in All(out) \/ o[k] = B[j]
      BY <2>4 DEF All, At, o
    <3> QED BY <3>1 DEF All, At
  <2>11. \A k \in DOMAIN o : /\ \A a \in i..Len(A) : o[k].end <= A[a].start
                             /\ \A b \in e..Len(B) : o[k].end <= B[b].start
    BY <1>2, <2>7, <2>10
  <2>12. /\ t \in [semantic : 1..Len(A) + 1, symbol : 1..Len(B) + 1, out : Seq(Good(src))]
         /\ t.semantic = i /\ t.symbol = e /\ t.out = o
    BY <2>4, <2>5, <2>6 DEF Back, o
  <2>13. InOrder(o) /\ All(o) = At(A, 1..i - 1) \cup At(B, 1..e - 1)
    BY <1>2, <2>4, <2>9 DEF o
  <2> HIDE DEF i, j, out
  <2> QED BY <2>1, <2>8, <2>11, <2>12, <2>13 DEF Back
<1> QED BY <1>5, <1>6

\* Merging back two rows that do not overlap gives exactly their morphemes, in order.
LEMMA MergeBackIs ==
  ASSUME NEW src, NEW A \in Seq(Good(src)), NEW B \in Seq(Good(src)), InOrder(A), InOrder(B),
         \A x \in All(A), y \in All(B) : x.end <= y.start \/ y.end <= x.start
  PROVE  /\ MergeBack(A, B) \in Seq(Good(src)) /\ InOrder(MergeBack(A, B))
         /\ All(MergeBack(A, B)) = All(A) \cup All(B)
<1> DEFINE all == Len(A) + Len(B)
           base == [semantic |-> 1, symbol |-> 1, out |-> <<>>]
           Upto(n, f) == f = [m \in 0..n |-> IF m = 0 THEN base ELSE MergeBackStep(A, B, f[m - 1])]
           P == {n \in Nat : \E f : Upto(n, f)}
           rec == CHOOSE after : after = [m \in 0..all |-> IF m = 0 THEN base ELSE MergeBackStep(A, B, after[m - 1])]
<1>1. /\ Len(A) \in Nat /\ Len(B) \in Nat /\ all \in Nat /\ DOMAIN A = 1..Len(A) /\ DOMAIN B = 1..Len(B)
  OBVIOUS
<1>2. 0 \in P
  <2>1. Upto(0, [m \in 0..0 |-> base])
    OBVIOUS
  <2> QED BY <2>1
<1>3. ASSUME NEW n \in P PROVE n + 1 \in P
  <2>1. n \in Nat
    OBVIOUS
  <2>2. PICK f : Upto(n, f)
    OBVIOUS
  <2> DEFINE next == MergeBackStep(A, B, f[n])
             h == [m \in 0..n + 1 |-> IF m = n + 1 THEN next ELSE f[m]]
  <2>3. \A m \in 0..n : f[m] = IF m = 0 THEN base ELSE MergeBackStep(A, B, f[m - 1])
    BY <2>2
  <2> HIDE DEF base
  <2>4. ASSUME NEW m \in 0..n + 1
        PROVE  (IF m = n + 1 THEN next ELSE f[m]) = IF m = 0 THEN base ELSE MergeBackStep(A, B, h[m - 1])
    <3>1. CASE m = n + 1
      <4>1. h[m - 1] = f[n] /\ m # 0
        BY <2>1, <3>1
      <4> HIDE DEF h
      <4> QED BY <3>1, <4>1
    <3>2. CASE m # n + 1
      <4>1. m \in 0..n /\ (m # 0 => h[m - 1] = f[m - 1])
        BY <2>1, <3>2
      <4> HIDE DEF h, next
      <4> QED BY <2>3, <3>2, <4>1
    <3> QED BY <3>1, <3>2
  <2>5. h = [m \in 0..n + 1 |-> IF m = 0 THEN base ELSE MergeBackStep(A, B, h[m - 1])]
    <3> HIDE DEF next
    <3> QED BY <2>4
  <2> HIDE DEF h
  <2>6. Upto(n + 1, h)
    BY <2>5
  <2> HIDE DEF Upto
  <2>7. n + 1 \in Nat
    BY <2>1
  <2> QED BY <2>6, <2>7
<1>4. P = Nat
  <2>1. P \in SUBSET Nat
    OBVIOUS
  <2> HIDE DEF P
  <2> QED BY <1>2, <1>3, <2>1, Induction
<1>5. rec = [m \in 0..all |-> IF m = 0 THEN base ELSE MergeBackStep(A, B, rec[m - 1])]
  <2>1. \E f : Upto(all, f)
    <3> HIDE DEF Upto, all
    <3> QED BY <1>1, <1>4
  <2> HIDE DEF base, all
  <2> QED BY <2>1
<1>6. MergeBack(A, B) = rec[all].out
  BY DEF MergeBack
<1> HIDE DEF rec
<1> DEFINE Q == {n \in Nat : n <= all => Back(src, A, B, rec[n], n)}
<1>7. 0 \in Q
  <2>1. rec[0] = base
    BY <1>1, <1>5
  <2>2. base \in [semantic : 1..Len(A) + 1, symbol : 1..Len(B) + 1, out : Seq(Good(src))]
    BY <1>1
  <2>3. base.semantic = 1 /\ base.symbol = 1 /\ base.out = <<>>
    OBVIOUS
  <2> HIDE DEF base
  <2>4. 1..1 - 1 = {} /\ DOMAIN <<>> = {} /\ InOrder(<<>>) /\ All(<<>>) = {} /\ At(A, {}) = {} /\ At(B, {}) = {}
    BY DEF InOrder, All, At
  <2>5. Back(src, A, B, base, 0)
    BY <2>2, <2>3, <2>4 DEF Back
  <2> QED BY <2>1, <2>5
<1>8. ASSUME NEW n \in Q PROVE n + 1 \in Q
  <2> SUFFICES ASSUME n + 1 <= all PROVE Back(src, A, B, rec[n + 1], n + 1)
    OBVIOUS
  <2>1. n \in Nat /\ n < all /\ n + 1 \in 0..all /\ n + 1 # 0 /\ n + 1 - 1 = n /\ n <= all
    BY <1>1
  <2>2. Back(src, A, B, rec[n], n)
    BY <2>1
  <2>3. rec[n + 1] = MergeBackStep(A, B, rec[n])
    BY <1>5, <2>1
  <2>4. Back(src, A, B, MergeBackStep(A, B, rec[n]), n + 1)
    BY <2>1, <2>2, BackStep
  <2> QED BY <2>3, <2>4
<1>9. Q = Nat
  <2>1. Q \in SUBSET Nat
    OBVIOUS
  <2> HIDE DEF Q
  <2> QED BY <1>7, <1>8, <2>1, Induction
<1>10. Back(src, A, B, rec[all], all)
  <2>1. all \in Q => Back(src, A, B, rec[all], all)
    BY <1>1
  <2> HIDE DEF Q
  <2> QED BY <1>1, <1>9, <2>1
<1> DEFINE s == rec[all]
<1>11. /\ s.semantic \in 1..Len(A) + 1 /\ s.symbol \in 1..Len(B) + 1 /\ s.semantic + s.symbol = all + 2
       /\ s.out \in Seq(Good(src)) /\ InOrder(s.out)
       /\ All(s.out) = At(A, 1..s.semantic - 1) \cup At(B, 1..s.symbol - 1)
  BY <1>10 DEF Back
<1> HIDE DEF s
<1>12. s.semantic - 1 = Len(A) /\ s.symbol - 1 = Len(B)
  BY <1>1, <1>11, SMTT(60)
<1>13. All(s.out) = All(A) \cup All(B)
  BY <1>1, <1>11, <1>12 DEF All
<1> QED BY <1>6, <1>11, <1>13 DEF s

LEMMA FinalCarries ==
  ASSUME NEW src, NEW ms, NEW n, Covers(src, ms, n)
  PROVE  Carried(src, ms, ResolveSemanticRolesPreservingSymbols(ms))
<1> DEFINE plain == Pick(ms, DOMAIN ms \ Symbols(ms))
           A == MergeVerbPairs(plain)
           B == Pick(ms, Symbols(ms))
<1>1. /\ ms \in Seq(Good(src)) /\ InOrder(ms) /\ \A i \in DOMAIN ms : ms[i] \in Good(src)
      /\ DOMAIN ms = 1..Len(ms) /\ Len(ms) \in Nat
  BY TextPairs
<1>2. Symbols(ms) \in SUBSET (DOMAIN ms) /\ DOMAIN ms \ Symbols(ms) \in SUBSET (DOMAIN ms)
  BY DEF Symbols
<1>3. plain \in Seq(Good(src)) /\ InOrder(plain) /\ All(plain) = At(ms, DOMAIN ms \ Symbols(ms))
  BY <1>1, <1>2, PickInOrder
<1>4. B \in Seq(Good(src)) /\ InOrder(B) /\ All(B) = At(ms, Symbols(ms))
  BY <1>1, <1>2, PickInOrder
<1>5. ResolveSemanticRolesPreservingSymbols(ms) = MergeBack(A, B)
  BY DEF ResolveSemanticRolesPreservingSymbols
<1> HIDE DEF plain, B
<1>6. \A i \in DOMAIN plain : ~IsSymbol(plain[i])
  <2>1. \A i \in DOMAIN plain : plain[i] \in At(ms, DOMAIN ms \ Symbols(ms))
    BY <1>3 DEF All, At
  <2> QED BY <2>1 DEF At, Symbols
<1>7. Carried(src, plain, A)
  BY <1>3, <1>6, VerbPairsCarry
<1> HIDE DEF A
<1>8. A \in Seq(Good(src)) /\ InOrder(A) /\ Keeps(All(plain), All(A))
  BY <1>7 DEF Carried
<1>9. ASSUME NEW x \in All(A), NEW y \in All(B) PROVE x.end <= y.start \/ y.end <= x.start
  <2>1. x \in Good(src) /\ y \in Good(src)
    <3>1. \A s \in Seq(Good(src)) : \A k \in DOMAIN s : s[k] \in Good(src)
      OBVIOUS
    <3> QED BY <1>4, <1>8, <3>1 DEF All, At
  <2>2. x.start \in Nat /\ x.end \in Nat /\ x.start < x.end /\ y.start \in Nat /\ y.end \in Nat /\ y.start < y.end
    BY <2>1, GoodFields
  <2>3. SUFFICES ASSUME y.start < x.end, x.start < y.end PROVE FALSE
    BY <2>2
  <2>4. PICK c \in Nat : c \in x.start + 1..x.end /\ c \in y.start + 1..y.end
    <3>1. CASE x.start <= y.start
      <4>1. y.start + 1 \in x.start + 1..x.end /\ y.start + 1 \in y.start + 1..y.end /\ y.start + 1 \in Nat
        BY <2>2, <2>3, <3>1
      <4> QED BY <4>1
    <3>2. CASE ~(x.start <= y.start)
      <4>1. x.start + 1 \in x.start + 1..x.end /\ x.start + 1 \in y.start + 1..y.end /\ x.start + 1 \in Nat
        BY <2>2, <2>3, <3>2
      <4> QED BY <4>1
    <3> QED BY <3>1, <3>2
  <2>5. c \in Chars(All(plain))
    <3>1. c \in Chars(All(A))
      BY <2>4 DEF Chars
    <3> QED BY <1>8, <3>1 DEF Keeps
  <2>6. PICK i \in DOMAIN ms \ Symbols(ms) : c \in ms[i].start + 1..ms[i].end
    BY <1>3, <2>5 DEF Chars, At
  <2>7. PICK j \in Symbols(ms) : y = ms[j]
    BY <1>4 DEF At
  <2>8. i \in DOMAIN ms /\ j \in DOMAIN ms /\ i # j /\ c \in ms[j].start + 1..ms[j].end
    BY <1>2, <2>4, <2>6, <2>7
  <2>9. /\ ms[i].start \in Nat /\ ms[i].end \in Nat /\ ms[j].start \in Nat /\ ms[j].end \in Nat
        /\ (i < j => ms[i].end <= ms[j].start) /\ (j < i => ms[j].end <= ms[i].start)
        /\ (i < j \/ j < i)
    <3>1. ms[i] \in Good(src) /\ ms[j] \in Good(src) /\ (i < j \/ j < i)
      BY <1>1, <2>8
    <3>2. (i < j => ms[i].end <= ms[j].start) /\ (j < i => ms[j].end <= ms[i].start)
      BY <1>1, <2>8 DEF InOrder
    <3> QED BY <3>1, <3>2, GoodFields
  <2> QED BY <2>4, <2>6, <2>8, <2>9
<1>10. /\ MergeBack(A, B) \in Seq(Good(src)) /\ InOrder(MergeBack(A, B))
       /\ All(MergeBack(A, B)) = All(A) \cup All(B)
  BY <1>4, <1>8, <1>9, MergeBackIs
<1>11. Keeps(All(ms), All(A) \cup All(B))
  <2>1. All(ms) = All(plain) \cup All(B)
    BY <1>2, <1>3, <1>4 DEF All, At
  <2>2. Keeps(All(B), All(B))
    BY KeepsSelf
  <2> QED BY <1>8, <2>1, <2>2, KeepsUnion
<1> QED BY <1>5, <1>10, <1>11 DEF Carried

-----------------------------------------------------------------------------
(* The invariant *)

\* A pass that changes no offset and makes nothing a symbol carries the text on.
LEMMA SameShape ==
  ASSUME NEW src, NEW ms \in Seq(Good(src)), InOrder(ms), NEW out \in Seq(Good(src)), Len(out) = Len(ms),
         \A i \in DOMAIN ms : /\ out[i].start = ms[i].start /\ out[i].end = ms[i].end
                              /\ IsSymbol(out[i]) <=> IsSymbol(ms[i])
                              /\ IsSymbol(ms[i]) => out[i].word = ms[i].word
  PROVE  Carried(src, ms, out)
<1>1. DOMAIN out = DOMAIN ms
  OBVIOUS
<1>2. InOrder(out)
  BY <1>1 DEF InOrder
<1>3. Chars(All(out)) = Chars(All(ms))
  BY <1>1 DEF Chars, All, At
<1>4. Chars(Syms(All(out))) \subseteq Chars(Syms(All(ms)))
  <2>1. SUFFICES ASSUME NEW c \in Chars(Syms(All(out))) PROVE c \in Chars(Syms(All(ms)))
    OBVIOUS
  <2>2. PICK i \in DOMAIN ms : IsSymbol(out[i]) /\ c \in out[i].start + 1..out[i].end
    BY <1>1 DEF Chars, All, At, Syms
  <2>3. ms[i] \in Syms(All(ms)) /\ c \in ms[i].start + 1..ms[i].end
    BY <2>2 DEF All, At, Syms
  <2> QED BY <2>3 DEF Chars
<1>5. Chars(PlainSyms(All(ms))) \subseteq Chars(PlainSyms(All(out)))
  <2>1. SUFFICES ASSUME NEW c \in Chars(PlainSyms(All(ms))) PROVE c \in Chars(PlainSyms(All(out)))
    OBVIOUS
  <2>2. PICK i \in DOMAIN ms : IsSymbol(ms[i]) /\ ms[i].word # "mark" /\ c \in ms[i].start + 1..ms[i].end
    BY DEF Chars, All, At, PlainSyms
  <2>3. out[i] \in PlainSyms(All(out)) /\ c \in out[i].start + 1..out[i].end
    BY <1>1, <2>2 DEF All, At, PlainSyms
  <2> QED BY <2>3 DEF Chars
<1>6. Keeps(All(ms), All(out))
  BY <1>3, <1>4, <1>5 DEF Keeps
<1>7. out \in Seq(Good(src))
  OBVIOUS
<1> QED BY <1>2, <1>6, <1>7 DEF Carried

\* The lattice's morphemes are of a text, each with its number for a lemma.
LEMMA LatticeText ==
  ASSUME PostprocessorAssumption, NEW input \in Inputs
  PROVE  LET src == LatticeMorphemes(input)
         IN  (\E n : Covers(src, src, n)) /\ \A s \in DOMAIN src : src[s].lemma = s
<1> DEFINE N == Len(input)
           rec == CHOOSE end : end = [i \in 0..N |-> IF i = 0 THEN 0 ELSE end[i - 1] + input[i].size]
           src == LatticeMorphemes(input)
           step == [k \in 1..N |-> [t \in Nat |-> t + input[k].size]]
<1>1. /\ N \in Nat /\ DOMAIN input = 1..N /\ \A i \in 1..N : input[i] \in Reading
      /\ \A i \in 1..N : /\ input[i].pos = "symbol" => input[i].role = "symbol" /\ ~input[i].formal
                         /\ input[i].word = "demo" => input[i].size = 2
  <2>1. input \in Seq(Reading)
    BY DEF PostprocessorAssumption
  <2>2. N \in Nat /\ DOMAIN input = 1..N /\ \A i \in 1..N : input[i] \in Reading
    BY <2>1
  <2> QED BY <2>2 DEF PostprocessorAssumption
<1>2. \A i \in 1..N : /\ input[i].size \in 1..2 /\ input[i].word \in Wording /\ input[i].pos \in Wording
                      /\ input[i].role \in Wording /\ input[i].formal \in BOOLEAN
  BY <1>1 DEF Reading, Wording
<1> HIDE DEF N
<1>3. step \in [1..N -> [Nat -> Nat]]
  BY <1>2
<1>4. rec = [i \in 0..N |-> IF i = 0 THEN 0 ELSE rec[i - 1] + input[i].size]
  <2> HIDE DEF step
  <2>1. PICK f : Iterates(f, Nat, N, 0, step)
    BY <1>1, <1>3, IterationExists
  <2>2. ASSUME NEW i \in 0..N PROVE f[i] = IF i = 0 THEN 0 ELSE f[i - 1] + input[i].size
    <3>1. CASE i = 0
      BY <2>1, <3>1 DEF Iterates
    <3>2. CASE i # 0
      <4>1. i \in 1..N /\ i - 1 \in 0..N
        BY <1>1, <3>2
      <4>2. f[i] = step[i][f[i - 1]] /\ f[i - 1] \in Nat
        BY <2>1, <4>1 DEF Iterates
      <4> QED BY <3>2, <4>1, <4>2 DEF step
    <3> QED BY <3>1, <3>2
  <2>3. f = [i \in 0..N |-> IF i = 0 THEN 0 ELSE f[i - 1] + input[i].size]
    BY <2>1, <2>2 DEF Iterates
  <2> QED BY <2>3
<1>5. src = [i \in DOMAIN input |->
        [start |-> rec[i - 1], end |-> rec[i], chars |-> CharsBetween(rec[i - 1], rec[i]),
         word |-> input[i].word, pos |-> input[i].pos, role |-> input[i].role,
         formal |-> input[i].formal, lemma |-> i]]
  BY DEF LatticeMorphemes, N
<1> HIDE DEF rec, src, step
<1>6. rec[0] = 0 /\ \A i \in 1..N : rec[i] = rec[i - 1] + input[i].size
  <2>1. 0 \in 0..N /\ \A i \in 1..N : i \in 0..N /\ i # 0
    BY <1>1
  <2>2. \A i \in 0..N : rec[i] = IF i = 0 THEN 0 ELSE rec[i - 1] + input[i].size
    BY <1>4
  <2> QED BY <2>1, <2>2
<1>7. \A i \in 0..N : rec[i] \in Nat
  <2> DEFINE P == {d \in Nat : d <= N => rec[d] \in Nat}
  <2>1. 0 \in P
    BY <1>6
  <2>2. ASSUME NEW d \in P PROVE d + 1 \in P
    <3> SUFFICES ASSUME d + 1 <= N PROVE rec[d + 1] \in Nat
      OBVIOUS
    <3>1. d \in Nat /\ d + 1 \in 1..N /\ d + 1 - 1 = d /\ rec[d] \in Nat
      BY <1>1
    <3>2. rec[d + 1] = rec[d] + input[d + 1].size /\ input[d + 1].size \in 1..2
      BY <1>2, <1>6, <3>1
    <3> QED BY <3>1, <3>2
  <2>3. P = Nat
    <3>1. P \in SUBSET Nat
      OBVIOUS
    <3> HIDE DEF P
    <3> QED BY <2>1, <2>2, <3>1, Induction
  <2> QED BY <1>1, <2>3
<1>8. \A i \in 1..N : i - 1 \in 0..N /\ rec[i - 1] \in Nat /\ rec[i] \in Nat /\ rec[i - 1] < rec[i]
  <2> SUFFICES ASSUME NEW i \in 1..N
               PROVE  i - 1 \in 0..N /\ rec[i - 1] \in Nat /\ rec[i] \in Nat /\ rec[i - 1] < rec[i]
    OBVIOUS
  <2>1. i - 1 \in 0..N /\ i \in 0..N
    BY <1>1
  <2>2. rec[i - 1] \in Nat /\ rec[i] \in Nat
    BY <1>7, <2>1
  <2> QED BY <1>2, <1>6, <2>1, <2>2, SMTT(60)
<1>9. \A i, j \in 0..N : i <= j => rec[i] <= rec[j]
  <2> DEFINE P == {d \in Nat : \A i \in 0..N : i + d <= N => rec[i] <= rec[i + d]}
  <2>1. 0 \in P
    BY <1>1, <1>7
  <2>2. ASSUME NEW d \in P PROVE d + 1 \in P
    <3>1. ASSUME NEW i \in 0..N, i + (d + 1) <= N PROVE rec[i] <= rec[i + (d + 1)]
      <4>1. d \in Nat /\ i + d <= N /\ i + (d + 1) \in 1..N /\ i + (d + 1) - 1 = i + d
        BY <1>1, <3>1
      <4>2. rec[i] <= rec[i + d]
        BY <4>1
      <4>3. rec[i + d] < rec[i + (d + 1)] /\ rec[i + d] \in Nat /\ rec[i + (d + 1)] \in Nat
        BY <1>8, <4>1
      <4> QED BY <1>7, <4>2, <4>3
    <3> QED BY <3>1
  <2>3. P = Nat
    <3>1. P \in SUBSET Nat
      OBVIOUS
    <3> HIDE DEF P
    <3> QED BY <2>1, <2>2, <3>1, Induction
  <2>4. ASSUME NEW i \in 0..N, NEW j \in 0..N, i <= j PROVE rec[i] <= rec[j]
    <3> DEFINE d == j - i
    <3>1. d \in Nat /\ i + d = j /\ i + d <= N
      BY <1>1, <2>4
    <3> HIDE DEF d
    <3>2. d \in P => (i + d <= N => rec[i] <= rec[i + d])
      OBVIOUS
    <3> HIDE DEF P
    <3> QED BY <2>3, <3>1, <3>2
  <2> QED BY <2>4
<1>10. ASSUME NEW i \in 1..N
       PROVE  /\ src[i] \in Good(src) /\ src[i].start = rec[i - 1] /\ src[i].end = rec[i] /\ src[i].lemma = i
  <2> DEFINE chars == CharsBetween(rec[i - 1], rec[i])
  <2>1. rec[i - 1] \in Nat /\ rec[i] \in Nat /\ rec[i - 1] < rec[i] /\ rec[i - 1] <= rec[i]
    BY <1>8
  <2>2. chars \in Seq(Nat)
    BY <2>1, CharsBetweenType
  <2>3. /\ src[i] = [start |-> rec[i - 1], end |-> rec[i], chars |-> chars,
         word |-> input[i].word, pos |-> input[i].pos, role |-> input[i].role,
         formal |-> input[i].formal, lemma |-> i]
        /\ i \in DOMAIN src
    BY <1>1, <1>5
  <2>4. i \in Nat
    BY <1>1
  <2>5. /\ src[i].start = rec[i - 1] /\ src[i].end = rec[i] /\ src[i].lemma = i /\ src[i].chars = chars
        /\ src[i].word = input[i].word /\ src[i].pos = input[i].pos /\ src[i].role = input[i].role
        /\ src[i].formal = input[i].formal
    BY <2>3
  <2>6. src[i].word = "demo" => rec[i] = rec[i - 1] + 2
    BY <1>1, <1>6, <2>5
  <2>7. src[i] \in Record
    <3> HIDE DEF chars
    <3> QED BY <1>2, <2>1, <2>2, <2>3, <2>4 DEF Record
  <2>8. IsSymbol(src[i]) => src[i].role = "symbol" /\ ~src[i].formal
    BY <1>1, <2>5 DEF IsSymbol
  <2> QED BY <2>1, <2>3, <2>5, <2>6, <2>7, <2>8 DEF Good
<1>11. DOMAIN src = 1..N /\ src \in Seq(Good(src))
  <2>1. src = [i \in 1..N |-> src[i]]
    BY <1>1, <1>5
  <2>2. \A f : f = [i \in 1..N |-> f[i]] /\ (\A i \in 1..N : f[i] \in Good(src)) => f \in Seq(Good(src))
    BY <1>1
  <2> QED BY <1>10, <2>1, <2>2
<1>12. InOrder(src)
  <2>1. ASSUME NEW i \in 1..N, NEW j \in 1..N, i < j PROVE src[i].end <= src[j].start
    <3>1. i \in 0..N /\ j - 1 \in 0..N /\ i <= j - 1
      BY <1>1, <2>1
    <3> QED BY <1>9, <1>10, <3>1
  <2> QED BY <1>11, <2>1 DEF InOrder
<1>13. Chars(All(src)) = 1..rec[N]
  <2>1. ASSUME NEW c \in Chars(All(src)) PROVE c \in 1..rec[N]
    <3>1. PICK i \in 1..N : c \in rec[i - 1] + 1..rec[i]
      BY <1>10, <1>11 DEF Chars, All, At
    <3>2. rec[i] <= rec[N] /\ rec[i - 1] \in Nat /\ rec[i] \in Nat /\ rec[N] \in Nat
      <4>1. i \in 0..N /\ N \in 0..N /\ i <= N
        BY <1>1
      <4> QED BY <1>7, <1>8, <1>9, <4>1
    <3> QED BY <3>1, <3>2
  <2>2. ASSUME NEW c \in 1..rec[N] PROVE c \in Chars(All(src))
    <3> DEFINE T == {i \in 0..N : c <= rec[i]}
    <3>1. T \subseteq Nat /\ N \in T
      BY <1>1, <1>7
    <3>2. PICK i \in T : \A x \in T : i <= x
      <4> HIDE DEF T
      <4> QED BY <3>1, LeastNatural
    <3>3. i \in 0..N /\ c <= rec[i]
      OBVIOUS
    <3>4. rec[N] \in Nat
      BY <1>1, <1>7
    <3>5. i # 0
      BY <1>6, <3>3, <3>4
    <3>6. i \in 1..N /\ i - 1 \notin T /\ i - 1 \in 0..N
      BY <1>1, <3>1, <3>2, <3>3, <3>5
    <3>7. ~(c <= rec[i - 1]) /\ rec[i - 1] \in Nat /\ rec[i] \in Nat
      BY <1>7, <3>3, <3>6
    <3>8. c \in src[i].start + 1..src[i].end
      BY <1>10, <3>3, <3>4, <3>6, <3>7
    <3> QED BY <1>11, <3>6, <3>8 DEF Chars, All, At
  <2> QED BY <2>1, <2>2
<1>14. rec[N] \in Nat
  BY <1>1, <1>7
<1> QED BY <1>10, <1>11, <1>12, <1>13, <1>14 DEF Covers, src

\* Symbols are gone and nothing else, but for marks that are part of a word.
Cleared(src, ms) ==
  /\ Chars(All(ms)) \subseteq Chars(All(src))
  /\ Chars(All(src)) \ Chars(All(ms)) \subseteq Chars(Syms(All(src)))
  /\ Chars(PlainSyms(All(src))) \cap Chars(All(ms)) = {}

\* The inductive invariant: the lattice tiles a text and numbers its lemmas,
\* the morphemes at hand are good and in order, and they have the characters of
\* the lattice, or after the filter those of what is no symbol.
PostInv ==
  /\ options \in Options
  /\ \E n : Covers(source, source, n)
  /\ \A s \in DOMAIN source : source[s].lemma = s
  /\ morphemes \in Seq(Good(source)) /\ InOrder(morphemes)
  /\ IF pass = "done" /\ options.removeSymbols THEN Cleared(source, morphemes)
     ELSE Keeps(All(source), All(morphemes))
  /\ LatticeLemmaKept

\* The lattice itself satisfies it.
LEMMA PostInvInit == ASSUME PostprocessorAssumption, PostInit PROVE PostInv
<1>1. PICK input \in Inputs : source = LatticeMorphemes(input)
  BY DEF PostInit
<1>2. (\E n : Covers(source, source, n)) /\ \A s \in DOMAIN source : source[s].lemma = s
  BY <1>1, LatticeText
<1>3. options \in Options /\ morphemes = source /\ pass # "done"
  BY DEF PostInit
<1>4. Keeps(All(source), All(morphemes))
  BY <1>3, KeepsSelf
<1> QED BY <1>2, <1>3, <1>4 DEF PostInv, Covers, LatticeLemmaKept

LEMMA OptionTypes ==
  ASSUME PostprocessorAssumption, NEW o \in Options
  PROVE  o.lemmatize \in BOOLEAN /\ o.mergeNounCompounds \in BOOLEAN /\ o.removeSymbols \in BOOLEAN
BY DEF PostprocessorAssumption

\* A pass that carries the text on keeps the invariant.
LEMMA PassKeeps ==
  ASSUME PostInv, NEW out, Carried(source, morphemes, out), pass # "done",
         morphemes' = out, pass' # "done", UNCHANGED <<options, source>>
  PROVE  PostInv'
<1>1. Keeps(All(source), All(morphemes))
  BY DEF PostInv
<1>2. Keeps(All(source), All(out))
  BY <1>1, KeepsChain DEF Carried
<1>3. out \in Seq(Good(source)) /\ InOrder(out)
  BY DEF Carried
<1>4. LatticeLemmaKept'
  BY DEF LatticeLemmaKept
<1>5. /\ options \in Options /\ (\E n : Covers(source, source, n)) /\ \A s \in DOMAIN source : source[s].lemma = s
  BY DEF PostInv
<1> HIDE DEF PostInv
<1>6. (IF pass = "done" /\ options.removeSymbols THEN Cleared(source, morphemes)
       ELSE Keeps(All(source), All(morphemes)))'
  BY <1>2
<1>7. (\E n : Covers(source, source, n))' /\ (\A s \in DOMAIN source : source[s].lemma = s)'
  BY <1>5
<1>8. (morphemes \in Seq(Good(source)) /\ InOrder(morphemes))'
  BY <1>3
<1> QED BY <1>4, <1>5, <1>6, <1>7, <1>8 DEF PostInv

\* The text at hand before the end.
LEMMA AtHand ==
  ASSUME PostInv, pass # "done"
  PROVE  \E n : Covers(source, morphemes, n)
<1>1. PICK n : Covers(source, source, n)
  BY DEF PostInv
<1>2. Carried(source, source, morphemes)
  BY DEF PostInv, Carried
<1> QED BY <1>1, <1>2, CarriedText

\* Restoring a lemma gives back the one of the same span and touches nothing else.
LEMMA RestoredIs ==
  ASSUME NEW m, m \in Good(source), \A s \in DOMAIN source : source[s].lemma = s, DOMAIN source \subseteq Nat
  PROVE  LET x == RestoreLemma(m)
             same == {s \in DOMAIN source : source[s].start = m.start /\ source[s].end = m.end}
         IN  /\ x \in Good(source) /\ x.start = m.start /\ x.end = m.end /\ x.pos = m.pos /\ x.word = m.word
             /\ IF same = {} THEN x.lemma = Computed ELSE x.lemma \in same
<1> DEFINE same == {s \in DOMAIN source : source[s].start = m.start /\ source[s].end = m.end}
<1>1. SourceOf(m) = same
  BY DEF SourceOf
<1>2. m \in Record /\ (m.lemma # Computed => m.lemma \in same)
  BY DEF Good
<1>3. CASE same = {}
  <2>1. RestoreLemma(m) = m
    BY <1>1, <1>3 DEF RestoreLemma
  <2> QED BY <1>2, <1>3, <2>1
<1>4. CASE same # {}
  <2> DEFINE first == CHOOSE s \in same : \A t \in same : s <= t
  <2>1. same \subseteq Nat
    OBVIOUS
  <2>2. first \in same
    <3>1. \E s \in same : \A t \in same : s <= t
      <4> HIDE DEF same
      <4> QED BY <1>4, <2>1, LeastNatural
    <3> HIDE DEF same
    <3> QED BY <3>1
  <2>3. RestoreLemma(m) = [m EXCEPT !.lemma = source[first].lemma]
    <3> HIDE DEF same
    <3> QED BY <1>1, <1>4 DEF RestoreLemma
  <2> HIDE DEF first
  <2>4. first \in DOMAIN source /\ source[first].lemma = first /\ first \in Nat
        /\ source[first].start = m.start /\ source[first].end = m.end
    BY <2>2
  <2> DEFINE x == [m EXCEPT !.lemma = first]
  <2>5. RestoreLemma(m) = x
    BY <2>3, <2>4
  <2>6. /\ x \in Record /\ x.start = m.start /\ x.end = m.end /\ x.pos = m.pos /\ x.word = m.word
        /\ x.chars = m.chars /\ x.role = m.role /\ x.formal = m.formal /\ x.lemma = first
    BY <1>2, <2>4 DEF Record
  <2> HIDE DEF x
  <2>7. x \in Good(source)
    BY <2>4, <2>6 DEF Good, IsSymbol
  <2> QED BY <1>4, <2>2, <2>5, <2>6, <2>7
<1> QED BY <1>3, <1>4

\* Each step keeps the invariant.
LEMMA RetagKeeps == ASSUME PostprocessorAssumption, PostInv, Retag PROVE PostInv'
<1>1. PICK i \in DOMAIN morphemes, r \in Roles :
        /\ ~IsSymbol(morphemes[i])
        /\ morphemes' = [morphemes EXCEPT ![i] = [Lemma(@) EXCEPT !.pos = r.pos, !.role = r.role]]
  BY DEF Retag
<1>2. pass # "done" /\ pass' # "done" /\ UNCHANGED <<options, source>>
  BY DEF Retag
<1>3. morphemes \in Seq(Good(source)) /\ InOrder(morphemes) /\ morphemes[i] \in Good(source)
  BY DEF PostInv
<1> DEFINE x == [Lemma(morphemes[i]) EXCEPT !.pos = r.pos, !.role = r.role]
           out == [morphemes EXCEPT ![i] = x]
<1>4. r.pos \in Wording /\ r.role \in Wording /\ r.pos # "symbol"
  BY DEF PostprocessorAssumption, Wording
<1>5. Retagged(x, morphemes[i], r.pos, r.role)
  <2>1. morphemes[i] \in Record
    BY <1>3 DEF Good
  <2> QED BY <1>4, <2>1, Regrammar
<1>6. morphemes' = out
  BY <1>1
<1> HIDE DEF x
<1>7. x \in Good(source) /\ x.start = morphemes[i].start /\ x.end = morphemes[i].end /\ ~IsSymbol(x)
  BY <1>3, <1>4, <1>5, RetaggedGood
<1>8. out \in Seq(Good(source)) /\ Len(out) = Len(morphemes)
  BY <1>3, <1>7
<1>9. \A k \in DOMAIN morphemes : out[k] = IF k = i THEN x ELSE morphemes[k]
  BY <1>3
<1> HIDE DEF out
<1>10. Carried(source, morphemes, out)
  BY <1>1, <1>3, <1>7, <1>8, <1>9, SameShape
<1> QED BY <1>2, <1>6, <1>10, PassKeeps

LEMMA FilterKeeps == ASSUME PostprocessorAssumption, PostInv, FilterAndRestore PROVE PostInv'
<1> DEFINE ms == morphemes
           kept == FilterMorphemes(ms)
           out == RestoreLemmas(kept)
<1>1. pass = "filter" /\ morphemes' = out /\ pass' = "done" /\ UNCHANGED <<options, source>>
  BY DEF FilterAndRestore, Pass
<1>2. PICK n : Covers(source, ms, n)
  BY <1>1, AtHand
<1>3. /\ ms \in Seq(Good(source)) /\ InOrder(ms) /\ \A i \in DOMAIN ms : ms[i] \in Good(source)
  BY <1>2, TextPairs
<1>4. /\ options \in Options /\ (\E k : Covers(source, source, k)) /\ \A s \in DOMAIN source : source[s].lemma = s
      /\ Keeps(All(source), All(ms)) /\ DOMAIN source \subseteq Nat
  <2>1. /\ options \in Options /\ (\E k : Covers(source, source, k)) /\ \A s \in DOMAIN source : source[s].lemma = s
        /\ Keeps(All(source), All(ms))
    BY <1>1 DEF PostInv
  <2>2. DOMAIN source \subseteq Nat
    BY <2>1 DEF Covers
  <2> QED BY <2>1, <2>2
<1>5. options.lemmatize \in BOOLEAN /\ options.removeSymbols \in BOOLEAN
  BY <1>4, OptionTypes
<1> HIDE DEF ms
<1>6. /\ kept \in Seq(Good(source)) /\ InOrder(kept)
      /\ IF options.removeSymbols THEN Cleared(source, kept) ELSE Keeps(All(source), All(kept))
  <2>1. CASE ~options.removeSymbols
    BY <1>3, <1>4, <2>1 DEF FilterMorphemes
  <2>2. CASE options.removeSymbols
    <3>1. kept = Pick(ms, DOMAIN ms \ Symbols(ms))
      BY <2>2 DEF FilterMorphemes
    <3>2. kept \in Seq(Good(source)) /\ InOrder(kept) /\ All(kept) = At(ms, DOMAIN ms \ Symbols(ms))
      BY <1>3, <3>1, PickInOrder
    <3> HIDE DEF kept
    <3>3. Chars(All(ms)) = Chars(All(kept)) \cup Chars(Syms(All(ms)))
      <4>1. \A m : m \in All(ms) <=> m \in All(kept) \/ m \in Syms(All(ms))
        BY <3>2 DEF All, At, Syms, Symbols
      <4> QED BY <4>1 DEF Chars
    <3>4. Chars(All(kept)) \cap Chars(Syms(All(ms))) = {}
      <4>1. SUFFICES ASSUME NEW i \in DOMAIN ms, NEW j \in DOMAIN ms, ~IsSymbol(ms[i]), IsSymbol(ms[j]),
                            NEW c \in ms[i].start + 1..ms[i].end, c \in ms[j].start + 1..ms[j].end
                     PROVE  FALSE
        <5>1. \A m \in All(kept) : \E i \in DOMAIN ms : m = ms[i] /\ ~IsSymbol(ms[i])
          BY <3>2 DEF At, Symbols
        <5>2. \A m \in Syms(All(ms)) : \E j \in DOMAIN ms : m = ms[j] /\ IsSymbol(ms[j])
          BY DEF At, All, Syms
        <5> QED BY <5>1, <5>2 DEF Chars
      <4>2. i < j \/ j < i
        BY <1>3, <4>1
      <4>3. (i < j => ms[i].end <= ms[j].start) /\ (j < i => ms[j].end <= ms[i].start)
        BY <1>3 DEF InOrder
      <4>4. ms[i].start \in Nat /\ ms[i].end \in Nat /\ ms[j].start \in Nat /\ ms[j].end \in Nat
        BY <1>3, GoodFields
      <4> QED BY <4>1, <4>2, <4>3, <4>4
    <3>5. Chars(PlainSyms(All(ms))) \subseteq Chars(Syms(All(ms)))
      BY DEF Chars, PlainSyms, Syms
    <3>6. Cleared(source, kept)
      BY <1>4, <3>3, <3>4, <3>5 DEF Cleared, Keeps
    <3> QED BY <2>2, <3>2, <3>6
  <2> QED BY <1>5, <2>1, <2>2
<1> HIDE DEF kept
<1>7. /\ Carried(source, kept, out)
      /\ ~options.lemmatize =>
           \A i \in DOMAIN out :
             LET same == {s \in DOMAIN source : source[s].start = out[i].start /\ source[s].end = out[i].end}
             IN IF same = {} THEN out[i].lemma = Computed ELSE out[i].lemma \in same
  <2>1. CASE options.lemmatize
    <3>1. out = kept
      BY <2>1 DEF RestoreLemmas
    <3> QED BY <1>6, <2>1, <3>1, KeepsSelf DEF Carried
  <2>2. CASE ~options.lemmatize
    <3>1. out = [i \in DOMAIN kept |-> RestoreLemma(kept[i])]
      BY <2>2 DEF RestoreLemmas
    <3>2. \A i \in DOMAIN kept : kept[i] \in Good(source)
      BY <1>6
    <3>3. ASSUME NEW i \in DOMAIN kept
          PROVE  /\ out[i] \in Good(source) /\ out[i].start = kept[i].start /\ out[i].end = kept[i].end
                 /\ out[i].pos = kept[i].pos /\ out[i].word = kept[i].word
                 /\ LET same == {s \in DOMAIN source : source[s].start = out[i].start /\ source[s].end = out[i].end}
                    IN IF same = {} THEN out[i].lemma = Computed ELSE out[i].lemma \in same
      <4> DEFINE x == RestoreLemma(kept[i])
      <4>1. out[i] = x
        BY <3>1
      <4>2. kept[i] \in Good(source)
        BY <3>2
      <4>3. /\ x \in Good(source) /\ x.start = kept[i].start /\ x.end = kept[i].end
            /\ x.pos = kept[i].pos /\ x.word = kept[i].word
            /\ LET same == {s \in DOMAIN source : source[s].start = kept[i].start /\ source[s].end = kept[i].end}
               IN IF same = {} THEN x.lemma = Computed ELSE x.lemma \in same
        BY <1>4, <4>2, RestoredIs
      <4> HIDE DEF x, out
      <4> QED BY <4>1, <4>3
    <3>4. Len(kept) \in Nat /\ DOMAIN kept = 1..Len(kept)
      BY <1>6
    <3>5. DOMAIN out = DOMAIN kept /\ Len(out) = Len(kept)
      BY <3>1, <3>4
    <3>6. out \in Seq(Good(source))
      <4>1. out = [i \in 1..Len(kept) |-> out[i]]
        BY <3>1, <3>4
      <4> HIDE DEF out
      <4>2. \A i \in 1..Len(kept) : out[i] \in Good(source)
        BY <3>3, <3>4
      <4> QED BY <3>4, <4>1, <4>2
    <3> HIDE DEF out
    <3>7. Carried(source, kept, out)
      <4>1. \A i \in DOMAIN kept :
              /\ out[i].start = kept[i].start /\ out[i].end = kept[i].end
              /\ IsSymbol(out[i]) <=> IsSymbol(kept[i])
              /\ IsSymbol(kept[i]) => out[i].word = kept[i].word
        BY <3>3 DEF IsSymbol
      <4>2. kept \in Seq(Good(source)) /\ InOrder(kept) /\ Len(out) = Len(kept)
        BY <1>6, <3>5
      <4> HIDE DEF kept
      <4> QED BY <3>6, <4>1, <4>2, SameShape
    <3> QED BY <3>3, <3>5, <3>7
  <2> QED BY <1>5, <2>1, <2>2
<1> HIDE DEF out
<1>8. IF options.removeSymbols THEN Cleared(source, out) ELSE Keeps(All(source), All(out))
  <2>1. Chars(All(out)) = Chars(All(kept)) /\ Keeps(All(kept), All(out))
    BY <1>7 DEF Carried, Keeps
  <2>2. CASE options.removeSymbols
    BY <1>6, <2>1, <2>2 DEF Cleared
  <2>3. CASE ~options.removeSymbols
    BY <1>6, <2>1, <2>3, KeepsChain
  <2> QED BY <1>5, <2>2, <2>3
<1>9. out \in Seq(Good(source)) /\ InOrder(out)
  BY <1>7 DEF Carried
<1>10. LatticeLemmaKept'
  BY <1>1, <1>7 DEF LatticeLemmaKept
<1>11. (\E k : Covers(source, source, k))' /\ (\A s \in DOMAIN source : source[s].lemma = s)'
  BY <1>1, <1>4
<1>12. (morphemes \in Seq(Good(source)) /\ InOrder(morphemes))'
  BY <1>1, <1>9
<1>13. (IF pass = "done" /\ options.removeSymbols THEN Cleared(source, morphemes)
        ELSE Keeps(All(source), All(morphemes)))'
  BY <1>1, <1>8
<1> QED BY <1>1, <1>4, <1>10, <1>11, <1>12, <1>13 DEF PostInv

LEMMA PassesKeep ==
  ASSUME PostInv, PostprocessorAssumption,
         \/ Numeric \/ PrePrefixRoles \/ VerbMono \/ Temporal \/ Adverbs \/ Compounds \/ Marks \/ FinalRoles
  PROVE  PostInv'
<1>1. pass # "done" /\ pass' # "done" /\ UNCHANGED <<options, source>>
  BY DEF Numeric, PrePrefixRoles, VerbMono, Temporal, Adverbs, Compounds, Marks, FinalRoles, Pass
<1>2. PICK n : Covers(source, morphemes, n)
  BY <1>1, AtHand
<1>3. ASSUME Numeric PROVE Carried(source, morphemes, morphemes')
  BY <1>2, <1>3, NumericCarries DEF Numeric, Pass
<1>4. ASSUME PrePrefixRoles PROVE Carried(source, morphemes, morphemes')
  <2> DEFINE a == MergeSplitCopularNegative(morphemes)
             b == MergeSplitFormalNounNegativeRenyokei(a)
             c == SplitFormalNounCopularDemo(b)
  <2>1. morphemes' = c
    BY <1>4 DEF PrePrefixRoles, Pass
  <2>2. Carried(source, morphemes, a)
    BY <1>2, CopularNegativeCarries
  <2> HIDE DEF a
  <2>3. Covers(source, a, n) /\ \A x : Carried(source, a, x) => Carried(source, morphemes, x)
    BY <1>2, <2>2, CarriedText
  <2>4. Carried(source, a, b)
    BY <2>3, FormalNegativeCarries
  <2> HIDE DEF b
  <2>5. Covers(source, b, n) /\ \A x : Carried(source, b, x) => Carried(source, a, x)
    BY <2>3, <2>4, CarriedText
  <2>6. Carried(source, b, c)
    BY <2>5, DemoCarries
  <2> QED BY <2>1, <2>3, <2>5, <2>6
<1>5. ASSUME VerbMono PROVE Carried(source, morphemes, morphemes')
  BY <1>2, <1>5, VerbMonoCarries DEF VerbMono, Pass
<1>6. ASSUME Temporal PROVE Carried(source, morphemes, morphemes')
  BY <1>2, <1>6, TemporalCarries DEF Temporal, Pass
<1>7. ASSUME Adverbs PROVE Carried(source, morphemes, morphemes')
  BY <1>2, <1>7, AdverbsCarry DEF Adverbs, Pass
<1>8. ASSUME Compounds PROVE Carried(source, morphemes, morphemes')
  <2>1. Carried(source, morphemes, MergeNounCompounds(morphemes))
    BY <1>2, CompoundsCarry
  <2>2. Carried(source, morphemes, morphemes)
    BY <1>2, KeepsSelf DEF Covers, Carried
  <2> QED BY <1>8, <2>1, <2>2 DEF Compounds, Pass
<1>9. ASSUME Marks PROVE Carried(source, morphemes, morphemes')
  BY <1>2, <1>9, MarksCarry DEF Marks, Pass
<1>10. ASSUME FinalRoles PROVE Carried(source, morphemes, morphemes')
  BY <1>2, <1>10, FinalCarries DEF FinalRoles, Pass
<1>11. Carried(source, morphemes, morphemes')
  BY <1>3, <1>4, <1>5, <1>6, <1>7, <1>8, <1>9, <1>10
<1> QED BY <1>1, <1>11, PassKeeps

LEMMA PostInvNext == ASSUME PostprocessorAssumption, PostInv, [PostNext]_postVars PROVE PostInv'
<1>1. CASE Retag
  BY <1>1, RetagKeeps
<1>2. CASE \/ Numeric \/ PrePrefixRoles \/ VerbMono \/ Temporal \/ Adverbs \/ Compounds \/ Marks \/ FinalRoles
  BY <1>2, PassesKeep
<1>3. CASE FilterAndRestore
  BY <1>3, FilterKeeps
<1>4. CASE UNCHANGED postVars
  BY <1>4 DEF PostInv, LatticeLemmaKept, postVars
<1> QED BY <1>1, <1>2, <1>3, <1>4 DEF PostNext

\* Every reachable state of the chain of passes satisfies PostInv.
THEOREM PostInvariant == PostSpec => []PostInv
<1>1. PostInit => PostInv
  BY PostInvInit, PostprocessorAssumption
<1>2. PostInv /\ [PostNext]_postVars => PostInv'
  BY PostInvNext, PostprocessorAssumption
<1> QED BY <1>1, <1>2, PTL DEF PostSpec

\* Without lemmatization, a morpheme that has the span of one of the lattice
\* keeps its lemma, through every merge, split and role change of process().
THEOREM LatticeLemmaIsKept == PostSpec => []LatticeLemmaKept
<1>1. PostInv => LatticeLemmaKept
  BY DEF PostInv
<1> QED BY <1>1, PostInvariant, PTL

\* The characters of a row are those of the set of its morphemes.
LEMMA CharsOf ==
  ASSUME NEW ms
  PROVE  /\ CharsAt(ms, DOMAIN ms) = Chars(All(ms))
         /\ CharsAt(ms, Symbols(ms)) = Chars(Syms(All(ms)))
         /\ CharsAt(ms, Symbols(ms) \ {i \in DOMAIN ms : ms[i].word = "mark"}) = Chars(PlainSyms(All(ms)))
<1>1. \A S : CharsAt(ms, S) = Chars(At(ms, S))
  BY DEF CharsAt, Chars, At
<1>2. At(ms, Symbols(ms)) = Syms(All(ms))
  BY DEF At, All, Syms, Symbols
<1>3. At(ms, Symbols(ms) \ {i \in DOMAIN ms : ms[i].word = "mark"}) = PlainSyms(All(ms))
  BY DEF At, All, PlainSyms, Symbols
<1> QED BY <1>1, <1>2, <1>3 DEF All

LEMMA InvTextKept == ASSUME PostprocessorAssumption, PostInv PROVE TextKept
<1> DEFINE missing == CharsAt(source, DOMAIN source) \ CharsAt(morphemes, DOMAIN morphemes)
           marks == {i \in DOMAIN source : source[i].word = "mark"}
<1>1. \A i \in DOMAIN morphemes : morphemes[i].chars = CharsBetween(morphemes[i].start, morphemes[i].end)
  <2>1. \A i \in DOMAIN morphemes : morphemes[i] \in Good(source)
    BY DEF PostInv
  <2> QED BY <2>1, GoodFields
<1>2. \A i, j \in DOMAIN morphemes : i < j => morphemes[i].end <= morphemes[j].start
  BY DEF PostInv, InOrder
<1>3. /\ missing = Chars(All(source)) \ Chars(All(morphemes))
      /\ CharsAt(morphemes, DOMAIN morphemes) = Chars(All(morphemes))
      /\ CharsAt(source, DOMAIN source) = Chars(All(source))
      /\ CharsAt(source, Symbols(source)) = Chars(Syms(All(source)))
      /\ CharsAt(source, Symbols(source) \ marks) = Chars(PlainSyms(All(source)))
  BY CharsOf
<1>4. Chars(PlainSyms(All(source))) \subseteq Chars(All(source))
  BY DEF Chars, PlainSyms
<1>5. IF pass = "done" /\ options.removeSymbols THEN Cleared(source, morphemes)
      ELSE Keeps(All(source), All(morphemes))
  BY DEF PostInv
<1>6. CharsAt(morphemes, DOMAIN morphemes) \subseteq CharsAt(source, DOMAIN source)
  BY <1>3, <1>5 DEF Cleared, Keeps
<1>7. IF pass = "done" /\ options.removeSymbols
        THEN /\ missing \subseteq CharsAt(source, Symbols(source))
             /\ CharsAt(source, Symbols(source) \ marks) \subseteq missing
        ELSE missing = {}
  <2> HIDE DEF missing, marks
  <2>1. CASE pass = "done" /\ options.removeSymbols
    BY <1>3, <1>4, <1>5, <2>1 DEF Cleared
  <2>2. CASE ~(pass = "done" /\ options.removeSymbols)
    BY <1>3, <1>5, <2>2 DEF Keeps
  <2> QED BY <2>1, <2>2
<1> QED BY <1>1, <1>2, <1>6, <1>7 DEF TextKept

\* No pass of process() loses, doubles or reorders a character, and only the
\* filter removes symbols, all of them and nothing else.
THEOREM TextIsKept == PostSpec => []TextKept
<1>1. PostInv => TextKept
  BY InvTextKept, PostprocessorAssumption
<1> QED BY <1>1, PostInvariant, PTL

-----------------------------------------------------------------------------
(* Tags *)

\* There is one way to list a set from the least up.
LEMMA OneAscent ==
  ASSUME NEW N \in Nat, NEW S \in SUBSET Int, NEW f \in [1..N -> S], NEW g \in [1..N -> S],
         \A x \in S : \E n \in 1..N : f[n] = x, \A x \in S : \E n \in 1..N : g[n] = x,
         \A m, n \in 1..N : m < n => f[m] < f[n], \A m, n \in 1..N : m < n => g[m] < g[n]
  PROVE  f = g
<1> DEFINE T == {n \in 1..N : f[n] # g[n]}
<1>1. SUFFICES ASSUME T # {} PROVE FALSE
  OBVIOUS
<1>2. PICK k \in T : \A n \in T : k <= n
  <2>1. T \subseteq Nat
    OBVIOUS
  <2> HIDE DEF T
  <2> QED BY <1>1, <2>1, LeastNatural
<1>3. k \in 1..N /\ f[k] # g[k] /\ f[k] \in Int /\ g[k] \in Int
  OBVIOUS
<1>4. \A n \in 1..N : n < k => f[n] = g[n]
  BY <1>2
<1>5. CASE f[k] < g[k]
  <2>1. PICK n \in 1..N : g[n] = f[k]
    BY <1>3
  <2>2. CASE n < k
    <3>1. f[n] = f[k] /\ f[n] < f[k] /\ f[n] \in Int
      BY <1>3, <1>4, <2>1, <2>2
    <3> QED BY <1>3, <3>1
  <2>3. CASE n = k
    BY <1>3, <2>1, <2>3
  <2>4. CASE k < n
    <3>1. g[k] < g[n]
      BY <1>3, <2>4
    <3> QED BY <1>3, <1>5, <2>1, <3>1
  <2> QED BY <1>3, <2>2, <2>3, <2>4
<1>6. CASE g[k] < f[k]
  <2>1. PICK n \in 1..N : f[n] = g[k]
    BY <1>3
  <2>2. CASE n < k
    <3>1. g[n] = g[k] /\ g[n] < g[k] /\ g[n] \in Int
      BY <1>3, <1>4, <2>1, <2>2
    <3> QED BY <1>3, <3>1
  <2>3. CASE n = k
    BY <1>3, <2>1, <2>3
  <2>4. CASE k < n
    <3>1. f[k] < f[n]
      BY <1>3, <2>4
    <3> QED BY <1>3, <1>6, <2>1, <3>1
  <2> QED BY <1>3, <2>2, <2>3, <2>4
<1> QED BY <1>3, <1>5, <1>6

\* One position more, behind the others.
LEMMA PickOneMore ==
  ASSUME NEW T, NEW s \in Seq(T), NEW P \in SUBSET (DOMAIN s), NEW k \in DOMAIN s, \A i \in P : i < k
  PROVE  Pick(s, P \cup {k}) = Append(Pick(s, P), s[k])
<1> DEFINE Q == P \cup {k}
           L == Ascending(P)
           M == Ascending(Q)
           N == Cardinality(P)
           A == [n \in 1..N + 1 |-> IF n = N + 1 THEN k ELSE L[n]]
<1>1. Len(s) \in Nat /\ DOMAIN s = 1..Len(s)
  OBVIOUS
<1>2. P \in SUBSET Int /\ IsFiniteSet(P) /\ k \notin P /\ Q \in SUBSET Int /\ k \in Int /\ Q \in SUBSET (DOMAIN s)
  <2>1. IsFiniteSet(1..Len(s)) /\ P \in SUBSET (1..Len(s))
    BY <1>1, FS_Interval
  <2> QED BY <1>1, <2>1, FS_Subset
<1>3. IsFiniteSet(Q) /\ Cardinality(Q) = N + 1
  BY <1>2, FS_AddElement
<1>4. /\ L \in Seq(P) /\ DOMAIN L = 1..N /\ N \in Nat
      /\ \A x \in P : \E n \in DOMAIN L : L[n] = x
      /\ \A m, n \in DOMAIN L : m < n => L[m] < L[n]
  BY <1>2, AscendingLists
<1>5. /\ M \in Seq(Q) /\ DOMAIN M = 1..N + 1
      /\ \A x \in Q : \E n \in DOMAIN M : M[n] = x
      /\ \A m, n \in DOMAIN M : m < n => M[m] < M[n]
  <2> HIDE DEF Q, N
  <2> QED BY <1>2, <1>3, AscendingLists
<1>6. Pick(s, P) = [n \in DOMAIN L |-> s[L[n]]] /\ Pick(s, Q) = [n \in DOMAIN M |-> s[M[n]]]
  BY DEF Pick
<1> HIDE DEF L, M, N
<1>7. \A n \in 1..N : L[n] \in P /\ L[n] \in Int /\ L[n] < k
  BY <1>2, <1>4
<1>8. A \in [1..N + 1 -> Q]
  BY <1>4, <1>7
<1>9. \A x \in Q : \E n \in 1..N + 1 : A[n] = x
  <2>1. A[N + 1] = k /\ N + 1 \in 1..N + 1
    BY <1>4
  <2>2. ASSUME NEW x \in P PROVE \E n \in 1..N + 1 : A[n] = x
    <3>1. PICK n \in 1..N : L[n] = x
      BY <1>4
    <3>2. n \in 1..N + 1 /\ n # N + 1
      BY <1>4, <3>1
    <3> QED BY <3>1, <3>2
  <2> QED BY <2>1, <2>2
<1>10. \A m, n \in 1..N + 1 : m < n => A[m] < A[n]
  <2> SUFFICES ASSUME NEW m \in 1..N + 1, NEW n \in 1..N + 1, m < n PROVE A[m] < A[n]
    OBVIOUS
  <2>1. m \in 1..N /\ A[m] = L[m]
    BY <1>4
  <2>2. CASE n = N + 1
    BY <1>7, <2>1, <2>2
  <2>3. CASE n # N + 1
    <3>1. n \in 1..N /\ A[n] = L[n]
      BY <1>4, <2>3
    <3> HIDE DEF A
    <3> QED BY <1>4, <2>1, <3>1
  <2> QED BY <2>2, <2>3
<1>11. M \in [1..N + 1 -> Q]
  BY <1>4, <1>5
<1> HIDE DEF A
<1>12. M = A
  <2>1. N + 1 \in Nat
    BY <1>4
  <2>2. /\ \A x \in Q : \E n \in 1..N + 1 : M[n] = x
        /\ \A m, n \in 1..N + 1 : m < n => M[m] < M[n]
        /\ Q \in SUBSET Int
    BY <1>2, <1>5
  <2> HIDE DEF Q
  <2> QED BY <1>8, <1>9, <1>10, <1>11, <2>1, <2>2, OneAscent
<1>13. \A n \in 1..N + 1 : A[n] = IF n = N + 1 THEN k ELSE L[n]
  BY DEF A
<1> DEFINE p == Pick(s, P)
           q == Pick(s, Q)
<1>14. p \in Seq(T) /\ Len(p) = N /\ q \in Seq(T) /\ Len(q) = N + 1
  <2>1. p \in Seq(T) /\ Len(p) = Cardinality(P) /\ q \in Seq(T) /\ Len(q) = Cardinality(Q)
    <3> HIDE DEF Q
    <3> QED BY <1>2, PickKeeps
  <2> QED BY <1>3, <2>1 DEF N
<1>15. /\ \A n \in 1..N : p[n] = s[L[n]]
       /\ \A n \in 1..N + 1 : q[n] = s[M[n]]
  BY <1>4, <1>5, <1>6
<1> HIDE DEF p, q, Q
<1>16. s[k] \in T
  OBVIOUS
<1> DEFINE a == Append(p, s[k])
<1>17. /\ a \in Seq(T) /\ Len(a) = N + 1
       /\ \A n \in 1..N + 1 : a[n] = IF n = N + 1 THEN s[k] ELSE p[n]
  BY <1>14, <1>16, <1>4
<1> HIDE DEF a
<1>18. \A n \in 1..N + 1 : q[n] = a[n]
  <2> SUFFICES ASSUME NEW n \in 1..N + 1 PROVE q[n] = a[n]
    OBVIOUS
  <2>1. CASE n = N + 1
    BY <1>12, <1>13, <1>15, <1>17, <2>1
  <2>2. CASE n # N + 1
    <3>1. n \in 1..N
      BY <1>4, <2>2
    <3> QED BY <1>12, <1>13, <1>15, <1>17, <2>2, <3>1
  <2> QED BY <2>1, <2>2
<1>19. q = a
  BY <1>4, <1>14, <1>17, <1>18, SeqEqual
<1> QED BY <1>19 DEF p, q, a, Q

\* The first m of a row, if there is a limit.
Cut(w, m) == IF m = 0 \/ Len(w) <= m THEN w ELSE SubSeq(w, 1, m)

\* A full row of tags stays as it is; any other takes one more.
LEMMA CutKeeps ==
  ASSUME NEW T, NEW w \in Seq(T), NEW x \in T, NEW m \in Nat
  PROVE  /\ Cut(w, m) \in Seq(T)
         /\ m > 0 /\ Len(Cut(w, m)) >= m => Cut(Append(w, x), m) = Cut(w, m)
         /\ ~(m > 0 /\ Len(Cut(w, m)) >= m) => Cut(w, m) = w /\ Cut(Append(w, x), m) = Append(w, x)
<1> DEFINE a == Append(w, x)
           N == Len(w)
<1>1. /\ N \in Nat /\ a \in Seq(T) /\ Len(a) = N + 1
      /\ \A n \in 1..N : a[n] = w[n]
  OBVIOUS
<1> HIDE DEF a
<1>2. ASSUME NEW v \in Seq(T), m <= Len(v)
      PROVE  /\ SubSeq(v, 1, m) \in Seq(T) /\ Len(SubSeq(v, 1, m)) = m
             /\ \A n \in 1..m : SubSeq(v, 1, m)[n] = v[n]
  <2>1. Len(v) \in Nat /\ DOMAIN v = 1..Len(v) /\ \A n \in 1..m : n \in 1..Len(v) /\ v[n] \in T
    BY <1>2
  <2>2. /\ SubSeq(v, 1, m) \in Seq(T)
        /\ Len(SubSeq(v, 1, m)) = IF 1 <= m THEN m - 1 + 1 ELSE 0
        /\ \A n \in 1..m - 1 + 1 : SubSeq(v, 1, m)[n] = v[1 + n - 1]
    BY <2>1, SubSeqProperties
  <2>3. m - 1 + 1 = m /\ \A n \in 1..m : 1 + n - 1 = n
    OBVIOUS
  <2>4. Len(SubSeq(v, 1, m)) = m
    BY <2>2, <2>3
  <2>5. \A n \in 1..m : SubSeq(v, 1, m)[n] = v[n]
    BY <2>2, <2>3
  <2> QED BY <2>2, <2>4, <2>5
<1>3. Cut(w, m) \in Seq(T)
  BY <1>1, <1>2 DEF Cut
<1>4. CASE m > 0 /\ Len(Cut(w, m)) >= m
  <2>1. m <= N
    BY <1>1, <1>4 DEF Cut
  <2>2. Cut(a, m) = SubSeq(a, 1, m)
    BY <1>1, <1>4, <2>1 DEF Cut
  <2>3. /\ SubSeq(a, 1, m) \in Seq(T) /\ Len(SubSeq(a, 1, m)) = m
        /\ \A n \in 1..m : SubSeq(a, 1, m)[n] = w[n]
    <3>1. m <= Len(a) /\ \A n \in 1..m : n \in 1..N
      BY <1>1, <2>1
    <3> QED BY <1>1, <1>2, <3>1
  <2>4. /\ Cut(w, m) \in Seq(T) /\ Len(Cut(w, m)) = m
        /\ \A n \in 1..m : Cut(w, m)[n] = w[n]
    <3>1. CASE N = m
      BY <1>1, <3>1 DEF Cut
    <3>2. CASE N # m
      <4>1. Cut(w, m) = SubSeq(w, 1, m)
        BY <1>1, <1>4, <2>1, <3>2 DEF Cut
      <4> QED BY <1>2, <2>1, <4>1
    <3> QED BY <3>1, <3>2
  <2> DEFINE c == Cut(w, m)
             d == SubSeq(a, 1, m)
  <2> HIDE DEF c, d
  <2>5. c = d
    BY <2>3, <2>4, SeqEqual DEF c, d
  <2> QED BY <1>3, <1>4, <2>2, <2>5 DEF a, c, d
<1>5. CASE ~(m > 0 /\ Len(Cut(w, m)) >= m)
  <2>1. m = 0 \/ N < m
    <3>1. CASE m > 0 /\ m < N
      <4>1. Cut(w, m) = SubSeq(w, 1, m) /\ m <= N
        BY <1>1, <3>1 DEF Cut
      <4>2. Len(Cut(w, m)) = m
        BY <1>2, <4>1
      <4> QED BY <1>5, <3>1, <4>2
    <3>2. CASE m > 0 /\ m = N
      <4>1. Cut(w, m) = w
        BY <1>1, <3>2 DEF Cut
      <4> QED BY <1>1, <1>5, <3>2, <4>1
    <3>3. CASE ~(m > 0 /\ m <= N)
      BY <1>1, <3>3
    <3> QED BY <1>1, <3>1, <3>2, <3>3
  <2> QED BY <1>1, <1>3, <1>5, <2>1 DEF Cut, a
<1> QED BY <1>4, <1>5

\* generate goes by the morphemes in turn.
LEMMA GenerateIs ==
  ASSUME NEW ms, Len(ms) \in Nat, DOMAIN ms = 1..Len(ms), NEW o
  PROVE  \E tags : /\ tags[0] = <<>> /\ Generate(ms, o) = tags[Len(ms)]
                   /\ \A n \in 1..Len(ms) :
                        tags[n] = IF TagsFull(tags[n - 1], o) THEN tags[n - 1] ELSE AddTag(tags[n - 1], ms[n], o)
<1> DEFINE N == Len(ms)
           S == {TagString(ms[i], o) : i \in DOMAIN ms}
           T == Seq(S)
           step == [n \in 1..N |-> [t \in T |-> IF TagsFull(t, o) THEN t ELSE AddTag(t, ms[n], o)]]
           rec == CHOOSE tags : tags = [n \in 0..N |-> IF n = 0 THEN <<>>
                    ELSE IF TagsFull(tags[n - 1], o) THEN tags[n - 1] ELSE AddTag(tags[n - 1], ms[n], o)]
<1>1. step \in [1..N -> [T -> T]]
  <2>1. \A n \in 1..N, t \in T : AddTag(t, ms[n], o) \in T
    <3> SUFFICES ASSUME NEW n \in 1..N, NEW t \in T PROVE AddTag(t, ms[n], o) \in T
      OBVIOUS
    <3>1. TagString(ms[n], o) \in S
      OBVIOUS
    <3> HIDE DEF S
    <3>2. Append(t, TagString(ms[n], o)) \in T
      BY <3>1
    <3> QED BY <3>2 DEF AddTag
  <2> HIDE DEF T, N
  <2> QED BY <2>1
<1>2. <<>> \in T
  OBVIOUS
<1>3. PICK f : Iterates(f, T, N, <<>>, step)
  <2> HIDE DEF T, step
  <2> QED BY <1>1, <1>2, IterationExists
<1>4. f = [n \in 0..N |-> IF n = 0 THEN <<>>
              ELSE IF TagsFull(f[n - 1], o) THEN f[n - 1] ELSE AddTag(f[n - 1], ms[n], o)]
  <2>1. ASSUME NEW n \in 0..N
        PROVE  f[n] = IF n = 0 THEN <<>>
                      ELSE IF TagsFull(f[n - 1], o) THEN f[n - 1] ELSE AddTag(f[n - 1], ms[n], o)
    <3> HIDE DEF T
    <3>1. CASE n = 0
      BY <1>3, <3>1 DEF Iterates
    <3>2. CASE n # 0
      <4>1. n \in 1..N /\ n - 1 \in 0..N
        BY <3>2
      <4>2. f[n] = step[n][f[n - 1]] /\ f[n - 1] \in T
        BY <1>3, <4>1 DEF Iterates
      <4> QED BY <3>2, <4>1, <4>2
    <3> QED BY <3>1, <3>2
  <2> HIDE DEF T, step, N
  <2> QED BY <1>3, <2>1 DEF Iterates
<1>5. rec = [n \in 0..N |-> IF n = 0 THEN <<>>
              ELSE IF TagsFull(rec[n - 1], o) THEN rec[n - 1] ELSE AddTag(rec[n - 1], ms[n], o)]
  <2> HIDE DEF N
  <2> QED BY <1>4
<1>6. Generate(ms, o) = rec[N]
  BY DEF Generate
<1> HIDE DEF rec
<1>7. rec[0] = <<>>
  BY <1>5
<1>8. \A n \in 1..N : rec[n] = IF TagsFull(rec[n - 1], o) THEN rec[n - 1] ELSE AddTag(rec[n - 1], ms[n], o)
  <2>1. \A n \in 1..N : n \in 0..N /\ n # 0
    OBVIOUS
  <2> HIDE DEF N
  <2> QED BY <1>5, <2>1
<1> QED BY <1>6, <1>7, <1>8

\* generate takes the first strings of those wanted.
LEMMA GenerateTakesTheFirst ==
  ASSUME NEW T, NEW ms \in Seq(T), NEW o, o.maxTags \in Nat
  PROVE  LET strings == [i \in DOMAIN ms |-> TagString(ms[i], o)]
             candidates == {i \in DOMAIN ms : Taggable(ms[i], o)}
             first == {i \in candidates : o.removeDuplicates =>
                                            \A j \in candidates : j < i => strings[j] # strings[i]}
         IN  Generate(ms, o) = Cut(Pick(strings, first), o.maxTags)
<1> DEFINE strings == [i \in DOMAIN ms |-> TagString(ms[i], o)]
           candidates == {i \in DOMAIN ms : Taggable(ms[i], o)}
           first == {i \in candidates : o.removeDuplicates =>
                                            \A j \in candidates : j < i => strings[j] # strings[i]}
           N == Len(ms)
           S == {strings[i] : i \in DOMAIN ms}
           upto(n) == {i \in first : i <= n}
           W(n) == Pick(strings, upto(n))
           m == o.maxTags
<1>1. N \in Nat /\ DOMAIN ms = 1..N
  OBVIOUS
<1>2. strings \in Seq(S) /\ DOMAIN strings = 1..N
  <2>1. strings = [i \in 1..N |-> strings[i]] /\ \A i \in 1..N : strings[i] \in S
    BY <1>1
  <2>2. \A f : f = [i \in 1..N |-> f[i]] /\ (\A i \in 1..N : f[i] \in S) => f \in Seq(S) /\ DOMAIN f = 1..N
    <3> HIDE DEF S, strings, N
    <3> QED BY <1>1
  <2> HIDE DEF S, strings, N
  <2> QED BY <2>1, <2>2
<1>3. PICK tags : /\ tags[0] = <<>> /\ Generate(ms, o) = tags[N]
                  /\ \A n \in 1..N :
                       tags[n] = IF TagsFull(tags[n - 1], o) THEN tags[n - 1] ELSE AddTag(tags[n - 1], ms[n], o)
  BY <1>1, GenerateIs
<1>4. \A i \in 1..N : strings[i] = TagString(ms[i], o)
  BY <1>1
<1>5. candidates = {i \in 1..N : Taggable(ms[i], o)}
  BY <1>1
<1> HIDE DEF strings, candidates, N
<1>6. first \subseteq candidates /\ candidates \subseteq 1..N
  BY <1>5
<1>7. \A i \in candidates : i \in first <=> (o.removeDuplicates => \A j \in candidates : j < i => strings[j] # strings[i])
  OBVIOUS
<1> HIDE DEF first, S
<1> DEFINE P == {n \in Nat : n <= N => tags[n] = Cut(W(n), m)}
<1>8. \A n \in 0..N : upto(n) \in SUBSET (DOMAIN strings) /\ W(n) \in Seq(S)
  <2> SUFFICES ASSUME NEW n \in 0..N PROVE upto(n) \in SUBSET (DOMAIN strings) /\ W(n) \in Seq(S)
    OBVIOUS
  <2>1. upto(n) \in SUBSET (DOMAIN strings)
    BY <1>2, <1>6
  <2> HIDE DEF upto
  <2> QED BY <1>2, <2>1, PickKeeps
<1>9. 0 \in P
  <2>1. upto(0) = {}
    <3>1. \A i \in first : ~(i <= 0)
      BY <1>1, <1>6
    <3> QED BY <3>1
  <2>2. 0 \in 0..N
    BY <1>1
  <2>3. W(0) \in Seq(S) /\ Len(W(0)) = 0
    <3>1. {} \in SUBSET (DOMAIN strings)
      OBVIOUS
    <3>2. Pick(strings, {}) \in Seq(S) /\ Len(Pick(strings, {})) = Cardinality({})
      BY <1>2, <3>1, PickKeeps
    <3>3. Cardinality({}) = 0
      BY FS_EmptySet
    <3> HIDE DEF upto
    <3> QED BY <2>1, <3>2, <3>3
  <2> HIDE DEF W
  <2>4. W(0) = <<>>
    BY <2>3
  <2>5. Cut(W(0), m) = <<>>
    BY <2>3, <2>4 DEF Cut
  <2> QED BY <1>3, <2>5
<1>10. ASSUME NEW n \in P PROVE n + 1 \in P
  <2> SUFFICES ASSUME n + 1 <= N PROVE tags[n + 1] = Cut(W(n + 1), m)
    OBVIOUS
  <2> DEFINE k == n + 1
             x == TagString(ms[k], o)
             w == W(n)
  <2>1. n \in Nat /\ n <= N /\ k \in 1..N /\ n \in 0..N /\ k - 1 = n /\ tags[n] = Cut(w, m)
    BY <1>1
  <2>2. tags[k] = IF TagsFull(Cut(w, m), o) THEN Cut(w, m) ELSE AddTag(Cut(w, m), ms[k], o)
    BY <1>3, <2>1
  <2>3. w \in Seq(S)
    BY <1>8, <2>1
  <2>4. upto(k) = IF k \in first THEN upto(n) \cup {k} ELSE upto(n)
    <3>1. \A i \in first : i <= k <=> i <= n \/ i = k
      BY <1>6, <2>1
    <3>2. k <= k
      BY <2>1
    <3> QED BY <3>1, <3>2
  <2>5. W(k) = IF k \in first THEN Append(w, x) ELSE w
    <3>1. upto(n) \in SUBSET (DOMAIN strings) /\ k \in DOMAIN strings /\ strings[k] = x
      BY <1>2, <1>4, <1>8, <2>1
    <3>2. \A i \in upto(n) : i < k
      BY <1>6, <2>1
    <3> DEFINE u == upto(n)
    <3>3. W(k) = Pick(strings, IF k \in first THEN u \cup {k} ELSE u) /\ w = Pick(strings, u)
      BY <2>4
    <3> HIDE DEF u, w, W
    <3>4. Pick(strings, u \cup {k}) = Append(Pick(strings, u), strings[k])
      BY <1>2, <3>1, <3>2, PickOneMore DEF u
    <3> HIDE DEF x
    <3> QED BY <3>1, <3>3, <3>4
  <2>6. x \in S
    BY <1>1, <1>4, <2>1 DEF S
  <2>7. o.removeDuplicates =>
          ((\E i \in DOMAIN w : w[i] = x) <=> \E j \in candidates : j < k /\ strings[j] = x)
    <3> SUFFICES ASSUME o.removeDuplicates
                 PROVE  (\E i \in DOMAIN w : w[i] = x) <=> \E j \in candidates : j < k /\ strings[j] = x
      OBVIOUS
    <3>1. /\ \A i \in DOMAIN w : \E j \in upto(n) : w[i] = strings[j]
          /\ \A j \in upto(n) : \E i \in DOMAIN w : w[i] = strings[j]
      <4>1. upto(n) \in SUBSET (DOMAIN strings)
        BY <1>8, <2>1
      <4> DEFINE u == upto(n)
                 p == Pick(strings, u)
      <4>2. w = p
        OBVIOUS
      <4> HIDE DEF upto, w, W
      <4>3. /\ \A i \in DOMAIN p : \E j \in u : p[i] = strings[j]
            /\ \A j \in u : \E i \in DOMAIN p : p[i] = strings[j]
        <5>1. u \in SUBSET (DOMAIN strings)
          BY <4>1
        <5> HIDE DEF u
        <5> QED BY <1>2, <5>1, PickKeeps
      <4> HIDE DEF u, p
      <4> QED BY <4>2, <4>3 DEF u
    <3> HIDE DEF w, W, x
    <3>2. ASSUME NEW i \in DOMAIN w, w[i] = x PROVE \E j \in candidates : j < k /\ strings[j] = x
      <4>1. PICK j \in upto(n) : w[i] = strings[j]
        BY <3>1
      <4>2. j \in candidates /\ j < k
        BY <1>6, <2>1, <4>1, SMTT(60)
      <4> QED BY <3>2, <4>1, <4>2
    <3>3. ASSUME NEW j \in candidates, j < k, strings[j] = x PROVE \E i \in DOMAIN w : w[i] = x
      <4> DEFINE A == {l \in candidates : strings[l] = x}
      <4>1. A \subseteq Nat /\ A # {}
        <5>1. j \in A /\ A \subseteq candidates
          BY <3>3
        <5> HIDE DEF A
        <5>2. \A z \in 1..N : z \in Nat
          BY <1>1
        <5> QED BY <1>6, <5>1, <5>2
      <4>2. PICK l \in A : \A z \in A : l <= z
        <5> HIDE DEF A
        <5> QED BY <4>1, LeastNatural
      <4>3. l \in candidates /\ strings[l] = x /\ l <= j
        BY <3>3, <4>2
      <4>4. \A z \in candidates : z < l => strings[z] # strings[l]
        <5>1. SUFFICES ASSUME NEW z \in candidates, z < l, strings[z] = strings[l] PROVE FALSE
          OBVIOUS
        <5>2. z \in A /\ l <= z /\ l \in Nat /\ z \in Nat
          BY <1>6, <4>2, <4>3, <5>1
        <5> QED BY <5>1, <5>2
      <4>5. l \in first
        BY <1>7, <4>3, <4>4
      <4>6. l \in upto(n)
        BY <1>6, <2>1, <3>3, <4>3, <4>5
      <4> QED BY <3>1, <4>3, <4>6
    <3> QED BY <3>2, <3>3
  <2>8. k \in first <=> Taggable(ms[k], o) /\ ~(o.removeDuplicates /\ \E i \in DOMAIN w : w[i] = x)
    <3>1. k \in candidates <=> Taggable(ms[k], o)
      BY <1>5, <2>1
    <3>2. strings[k] = x
      BY <1>4, <2>1
    <3> HIDE DEF w, x
    <3> QED BY <1>6, <1>7, <2>7, <3>1, <3>2
  <2>9. m \in Nat
    OBVIOUS
  <2> HIDE DEF w, W
  <2>10. AddTag(w, ms[k], o) = IF k \in first THEN Append(w, x) ELSE w
    BY <2>8 DEF AddTag
  <2> HIDE DEF x, k
  <2>11. CASE TagsFull(Cut(w, m), o)
    <3>1. m > 0 /\ Len(Cut(w, m)) >= m
      BY <2>11 DEF TagsFull
    <3>2. Cut(Append(w, x), m) = Cut(w, m)
      BY <2>3, <2>6, <2>9, <3>1, CutKeeps
    <3>3. tags[k] = Cut(W(k), m)
      BY <2>2, <2>5, <2>11, <3>2
    <3> QED BY <3>3 DEF k
  <2>12. CASE ~TagsFull(Cut(w, m), o)
    <3>1. ~(m > 0 /\ Len(Cut(w, m)) >= m)
      BY <2>12 DEF TagsFull
    <3>2. Cut(w, m) = w /\ Cut(Append(w, x), m) = Append(w, x)
      BY <2>3, <2>6, <2>9, <3>1, CutKeeps
    <3>3. tags[k] = Cut(W(k), m)
      BY <2>2, <2>5, <2>10, <2>12, <3>2
    <3> QED BY <3>3 DEF k
  <2> QED BY <2>11, <2>12
<1>11. P = Nat
  <2>1. P \in SUBSET Nat
    OBVIOUS
  <2> HIDE DEF P
  <2> QED BY <1>9, <1>10, <2>1, Induction
<1>12. tags[N] = Cut(W(N), m)
  <2>1. N \in P => tags[N] = Cut(W(N), m)
    BY <1>1
  <2> HIDE DEF P, W
  <2> QED BY <1>1, <1>11, <2>1
<1>13. upto(N) = first
  <2>1. \A i \in first : i <= N
    BY <1>1, <1>6
  <2> QED BY <2>1
<1>14. Generate(ms, o) = Cut(Pick(strings, first), o.maxTags)
  BY <1>3, <1>12, <1>13
<1> QED BY <1>14 DEF strings, candidates, first

\* The tags generated from the result are, in order, the first ones that are
\* included, each string once when duplicates are removed, up to the limit.
THEOREM TheTagsAreTheFirst == PostSpec => []TagsAreTheFirst
<1>1. ASSUME PostInv, PostprocessorAssumption PROVE TagsAreTheFirst
  <2>1. morphemes \in Seq(Good(source))
    BY <1>1 DEF PostInv
  <2>2. \A o \in TagOptions : o.maxTags \in Nat
    BY <1>1 DEF PostprocessorAssumption
  <2> QED BY <2>1, <2>2, GenerateTakesTheFirst DEF TagsAreTheFirst, Cut
<1> QED BY <1>1, PostInvariant, PostprocessorAssumption, PTL

-----------------------------------------------------------------------------
(***************************************************************************)
(* Text analysis                                                           *)
(***************************************************************************)

(* Least and greatest elements of bounded sets of naturals.                *)

\* Min and Max of FiniteSetsExt are the elements they are named for.
LEMMA LeastOf ==
  ASSUME NEW n \in Nat, NEW S, S \subseteq 0..n, S # {}
  PROVE  Min(S) \in S /\ \A y \in S : Min(S) =< y
BY Extremes DEF Min

LEMMA GreatestOf ==
  ASSUME NEW n \in Nat, NEW S, S \subseteq 0..n, S # {}
  PROVE  Max(S) \in S /\ \A y \in S : Max(S) >= y
BY Extremes DEF Max

-----------------------------------------------------------------------------
(* The operators of the model.                                             *)

\* Where characters start and where the text ends.
Cuts == text.leads \cup {text.size}

\* What the assumption on texts says of the one at hand.
LEMMA TextFacts ==
  ASSUME text \in Texts
  PROVE  /\ text.size \in Nat /\ MaxChunkBytes \in Nat /\ MaxChunkBytes > 0
         /\ text.leads \subseteq 0..(text.size - 1) /\ Cuts \subseteq 0..text.size
         /\ IsFiniteSet(text.leads)
         /\ text.size > 0 => 0 \in text.leads
         /\ text.boundary \subseteq text.leads
         /\ \A l \in text.leads : \E m \in Cuts : l < m /\ m <= l + MaxChunkBytes
<1>1. text \in Text
  BY AnalyzerAssumption
<1>2. text.size \in Nat /\ text.leads \subseteq 0..(text.size - 1)
  BY <1>1, AnalyzerAssumption DEF Text
<1>3. IsFiniteSet(text.leads)
  <2>1. text.size - 1 \in Int /\ text.leads \in SUBSET (0..(text.size - 1))
    BY <1>2
  <2>2. IsFiniteSet(0..(text.size - 1))
    BY <2>1, FS_Interval
  <2> QED BY <2>1, <2>2, FS_Subset
<1>4. \A l \in text.leads : \E m \in Cuts : l < m /\ m <= l + MaxChunkBytes
  BY AnalyzerAssumption DEF Cuts
<1>5. (text.size > 0 => 0 \in text.leads) /\ text.boundary \subseteq text.leads
  BY AnalyzerAssumption
<1>6. MaxChunkBytes \in Nat /\ MaxChunkBytes > 0
  BY AnalyzerAssumption
<1>7. Cuts \subseteq 0..text.size
  BY <1>2 DEF Cuts
<1> QED BY <1>2, <1>3, <1>4, <1>5, <1>6, <1>7

\* A cut is an offset of the text: its end, or the start of a character.
LEMMA CutFacts ==
  ASSUME text \in Texts, NEW c \in Cuts
  PROVE  c \in Nat /\ c <= text.size /\ (c # text.size => c \in text.leads /\ c < text.size)
BY TextFacts DEF Cuts

\* A character ends at the next cut.
LEMMA CharEndFacts ==
  ASSUME text \in Texts, NEW p \in text.leads
  PROVE  /\ CharEnd(p) \in Cuts /\ p < CharEnd(p)
         /\ \A c \in Cuts : p < c => CharEnd(p) =< c
<1> DEFINE S == {l \in text.leads : l > p} \cup {text.size}
<1>1. S \subseteq 0..text.size /\ S # {} /\ text.size \in Nat /\ p \in 0..(text.size - 1)
  BY TextFacts DEF Cuts
<1>2. Min(S) \in S /\ \A y \in S : Min(S) =< y
  <2> HIDE DEF S
  <2> QED BY <1>1, LeastOf
<1> QED BY <1>1, <1>2 DEF CharEnd, Cuts

\* findUtf8Boundary goes back to the last start of a character.
LEMMA Utf8BoundaryFacts ==
  ASSUME text \in Texts, text.size > 0, NEW p \in Nat
  PROVE  /\ Utf8Boundary(p) \in text.leads /\ Utf8Boundary(p) =< p
         /\ \A l \in text.leads : l =< p => l =< Utf8Boundary(p)
<1> DEFINE S == {l \in text.leads : l <= p}
<1>1. S \subseteq 0..text.size /\ 0 \in S /\ text.size \in Nat
  BY TextFacts
<1>2. Max(S) \in S /\ \A y \in S : Max(S) >= y
  <2> HIDE DEF S
  <2> QED BY <1>1, GreatestOf
<1> QED BY <1>1, <1>2 DEF Utf8Boundary

\* Characters are counted additively.
LEMMA CountFacts ==
  ASSUME text \in Texts, NEW a \in Nat, NEW b \in Nat, NEW c \in Nat, a <= b, b <= c
  PROVE  /\ CountChars(a, b) \in Nat
         /\ CountChars(a, a) = 0
         /\ CountChars(a, b) + CountChars(b, c) = CountChars(a, c)
<1> DEFINE In(x, y) == {l \in text.leads : x <= l /\ l < y}
<1>1. IsFiniteSet(text.leads) /\ text.leads \subseteq Nat
  BY TextFacts
<1>2. IsFiniteSet(In(a, b)) /\ IsFiniteSet(In(b, c))
  BY <1>1, FS_Subset, In(a, b) \in SUBSET text.leads, In(b, c) \in SUBSET text.leads
<1>3. In(a, c) = In(a, b) \cup In(b, c) /\ In(a, b) \cap In(b, c) = {} /\ In(a, a) = {}
  BY <1>1
<1>4. Cardinality(In(a, b)) \in Nat /\ Cardinality(In(b, c)) \in Nat /\ Cardinality({}) = 0
  BY <1>2, FS_CardinalityType, FS_EmptySet
<1>5. Cardinality(In(a, c)) = Cardinality(In(a, b)) + Cardinality(In(b, c))
  <2> HIDE DEF In
  <2>1. Cardinality(In(a, b) \cup In(b, c)) = Cardinality(In(a, b)) + Cardinality(In(b, c)) - Cardinality({})
    BY <1>2, <1>3, FS_Union
  <2> QED BY <1>3, <1>4, <2>1
<1> QED BY <1>3, <1>4, <1>5 DEF CountChars

\* A view is cut at a character boundary, behind where it starts; where no
\* boundary character is in the way, within the limit.
LEMMA ChunkEndFacts ==
  ASSUME text \in Texts, NEW p \in text.leads, NEW end \in Cuts, p < end
  PROVE  /\ ChunkEnd(p, end) \in Cuts /\ p < ChunkEnd(p, end) /\ ChunkEnd(p, end) =< end
         /\ (\A b \in text.boundary : ~(p <= b /\ b < end)) => ChunkEnd(p, end) - p <= MaxChunkBytes
<1> DEFINE scanEnd == Min({p + MaxChunkBytes, end})
           inside == {x \in text.boundary : p <= x /\ x < scanEnd}
           breaks == {CharEnd(b) : b \in inside}
<1>1. /\ p \in Nat /\ end \in Nat /\ MaxChunkBytes \in Nat /\ MaxChunkBytes > 0
      /\ text.size \in Nat /\ p < text.size /\ end <= text.size /\ text.size > 0
      /\ text.boundary \subseteq text.leads
      /\ \A l \in text.leads : \E m \in Cuts : l < m /\ m <= l + MaxChunkBytes
      /\ Cuts \subseteq 0..text.size
  BY TextFacts DEF Cuts
<1>2. scanEnd \in {p + MaxChunkBytes, end} /\ scanEnd <= p + MaxChunkBytes /\ scanEnd <= end
  <2> DEFINE S == {p + MaxChunkBytes, end}
  <2>1. S \subseteq 0..(p + MaxChunkBytes + end) /\ S # {} /\ p + MaxChunkBytes + end \in Nat
    BY <1>1
  <2>2. Min(S) \in S /\ \A y \in S : Min(S) =< y
    <3> HIDE DEF S
    <3> QED BY <2>1, LeastOf
  <2> QED BY <2>2
<1> HIDE DEF scanEnd
<1>3. scanEnd \in Nat /\ \A b \in inside : b \in text.leads /\ b \in Nat /\ p <= b /\ b < end
  <2>1. scanEnd \in Nat
    BY <1>1, <1>2
  <2> QED BY <1>1, <1>2, <2>1 DEF Cuts
<1>4. CASE scanEnd >= end
  BY <1>1, <1>2, <1>4 DEF ChunkEnd, scanEnd
<1>5. CASE ~(scanEnd >= end) /\ breaks # {}
  <2>1. ChunkEnd(p, end) = Max(breaks)
    BY <1>5 DEF ChunkEnd, scanEnd
  <2>2. \A b \in inside : CharEnd(b) \in Cuts /\ b < CharEnd(b) /\ CharEnd(b) =< end
    BY <1>3, CharEndFacts
  <2>3. breaks \subseteq 0..text.size
    BY <1>1, <2>2
  <2>4. Max(breaks) \in breaks
    <3> HIDE DEF breaks
    <3> QED BY <1>1, <1>5, <2>3, GreatestOf
  <2>5. PICK b \in inside : Max(breaks) = CharEnd(b)
    BY <2>4
  <2>6. b \in text.boundary /\ b \in Nat /\ p <= b /\ b < end
    BY <1>3
  <2>7. CharEnd(b) \in Cuts /\ b < CharEnd(b) /\ CharEnd(b) =< end
    BY <2>2
  <2>8. CharEnd(b) \in 0..text.size
    BY <1>1, <2>7
  <2> QED BY <1>1, <2>1, <2>5, <2>6, <2>7, <2>8
<1>6. CASE ~(scanEnd >= end) /\ breaks = {}
  <2>1. scanEnd = p + MaxChunkBytes /\ scanEnd \in Nat /\ scanEnd < end
    BY <1>1, <1>2, <1>6
  <2>2. PICK m \in Cuts : p < m /\ m <= p + MaxChunkBytes
    BY <1>1
  <2>3. m \in text.leads
    BY <1>1, <2>1, <2>2 DEF Cuts
  <2>4. /\ Utf8Boundary(scanEnd) \in text.leads /\ Utf8Boundary(scanEnd) =< scanEnd
        /\ m =< Utf8Boundary(scanEnd)
    BY <1>1, <2>1, <2>2, <2>3, Utf8BoundaryFacts
  <2>5. Utf8Boundary(scanEnd) \in Nat /\ ~(Utf8Boundary(scanEnd) <= p)
    BY <1>1, <2>2, <2>4 DEF Cuts
  <2>6. ChunkEnd(p, end) = Utf8Boundary(scanEnd)
    BY <1>6, <2>5 DEF ChunkEnd, scanEnd
  <2> QED BY <1>1, <2>1, <2>4, <2>5, <2>6 DEF Cuts
<1> QED BY <1>4, <1>5, <1>6

-----------------------------------------------------------------------------
(* The inductive invariant.                                                *)

\* A list of the pretokenizer: from lo to hi, in order, cut between characters.
Placed(s, lo, hi) ==
  /\ \A i \in DOMAIN s : s[i].from \in text.leads /\ s[i].to \in Cuts
                        /\ lo <= s[i].from /\ s[i].from < s[i].to /\ s[i].to <= hi
  /\ \A i, j \in DOMAIN s : i < j => s[i].to <= s[j].from

\* A token or a span starts at p.
Starts(t, s, p) == (\E i \in DOMAIN t : t[i].from = p) \/ (\E k \in DOMAIN s : s[k].from = p)

\* Tokens and spans together tile the bytes from lo to hi: where one ends, and
\* at lo, the next one starts.  Spans hold no boundary character.
Tiled(t, s, lo, hi) ==
  /\ Placed(t, lo, hi) /\ Placed(s, lo, hi)
  /\ \A i \in DOMAIN t, k \in DOMAIN s : t[i].to <= s[k].from \/ s[k].to <= t[i].from
  /\ lo = hi \/ Starts(t, s, lo)
  /\ \A i \in DOMAIN t : t[i].to = hi \/ Starts(t, s, t[i].to)
  /\ \A k \in DOMAIN s : s[k].to = hi \/ Starts(t, s, s[k].to)
  /\ \A k \in DOMAIN s, b \in text.boundary : ~(s[k].from <= b /\ b < s[k].to)

\* How far morphemes reach.
Reached(r) == IF r = <<>> THEN 0 ELSE r[Len(r)].to

Morphemes == [from: Nat, to: Nat, start: Nat, end: Nat]

\* What is said of the result, in every stage.
GoodResult(r) ==
  /\ \A i \in DOMAIN r : /\ r[i].from = (IF i = 1 THEN 0 ELSE r[i - 1].to)
                         /\ r[i].from \in text.leads /\ r[i].from < r[i].to
                         /\ r[i].start = CountChars(0, r[i].from)
                         /\ r[i].end = CountChars(0, r[i].to)
  /\ Reached(r) \in Cuts

\* The merge has taken what ends by p; what it has still to take starts at q or
\* later (tokens), at p or later (spans).
Taken(p, q) ==
  /\ \A i \in DOMAIN tokens : IF i < tokenIdx THEN tokens[i].to <= p ELSE q <= tokens[i].from
  /\ \A k \in DOMAIN spans : IF k < spanIdx THEN spans[k].to <= p ELSE p <= spans[k].from

Outside ==
  stage \in {"chunk", "done"} => Reached(result) = pos /\ (stage = "done" => pos = text.size)

InPiece ==
  stage \in {"pretoken", "merge", "span"} =>
    piece.from = pos /\ pos \in text.leads /\ piece.to \in Cuts /\ pos < piece.to

Pretokenizing ==
  stage = "pretoken" =>
    /\ Reached(result) = pos
    /\ scan \in Cuts /\ spanStart \in Cuts
    /\ pos <= spanStart /\ spanStart <= scan /\ scan <= piece.to
    /\ \A b \in text.boundary : ~(spanStart <= b /\ b < scan)
    /\ Tiled(tokens, spans, pos, spanStart)

Merging ==
  stage \in {"merge", "span"} =>
    /\ Tiled(tokens, spans, pos, piece.to)
    /\ pos <= currentByte /\ currentByte <= Reached(result)
    /\ currentChar = CountChars(pos, currentByte)

BetweenItems ==
  stage = "merge" =>
    /\ Taken(Reached(result), Reached(result))
    /\ Reached(result) = piece.to \/ Starts(tokens, spans, Reached(result))

InSpan ==
  stage = "span" =>
    /\ spanIdx \in DOMAIN spans
    /\ Reached(result) = spanPos
    /\ spans[spanIdx].from <= spanPos /\ spanPos <= spans[spanIdx].to
    /\ spanCharPos = CountChars(0, spanPos)
    /\ Taken(spans[spanIdx].from, spans[spanIdx].to)

AnalysisInv ==
  /\ text \in Texts /\ TypeOK
  /\ pos \in Cuts /\ charPos = CountChars(0, pos)
  /\ GoodResult(result)
  /\ Outside /\ InPiece /\ Pretokenizing /\ Merging /\ BetweenItems /\ InSpan

-----------------------------------------------------------------------------
(* How the tiling grows.                                                   *)

\* What Append gives.
LEMMA AppendFacts ==
  ASSUME NEW S, NEW s \in Seq(S), NEW x \in S
  PROVE  /\ Append(s, x) \in Seq(S) /\ Len(s) \in Nat /\ Len(Append(s, x)) = Len(s) + 1
         /\ DOMAIN Append(s, x) = 1..(Len(s) + 1) /\ DOMAIN s = 1..Len(s)
         /\ Append(s, x)[Len(s) + 1] = x
         /\ \A i \in 1..Len(s) : Append(s, x)[i] = s[i] /\ s[i] \in S
OBVIOUS

\* The same for lists of spans, as the tiling is shown with it.
LEMMA AppendSpan ==
  ASSUME NEW s \in Seq(Span), NEW x \in Span
  PROVE  /\ Append(s, x) \in Seq(Span) /\ Len(s) + 1 \in Nat
         /\ DOMAIN Append(s, x) = DOMAIN s \cup {Len(s) + 1} /\ Len(s) + 1 \notin DOMAIN s
         /\ Append(s, x)[Len(s) + 1] = x
         /\ \A i \in DOMAIN s : Append(s, x)[i] = s[i]
         /\ \A i \in DOMAIN Append(s, x), j \in DOMAIN Append(s, x) : i < j => i \in DOMAIN s
<1>1. /\ Append(s, x) \in Seq(Span) /\ Len(s) \in Nat
      /\ DOMAIN Append(s, x) = 1..(Len(s) + 1) /\ DOMAIN s = 1..Len(s)
      /\ Append(s, x)[Len(s) + 1] = x
      /\ \A i \in 1..Len(s) : Append(s, x)[i] = s[i]
  BY AppendFacts
<1>2. 1..(Len(s) + 1) = 1..Len(s) \cup {Len(s) + 1} /\ Len(s) + 1 \notin 1..Len(s)
  BY <1>1
<1>3. \A i \in 1..(Len(s) + 1), j \in 1..(Len(s) + 1) : i < j => i \in 1..Len(s)
  BY <1>1
<1> QED BY <1>1, <1>2, <1>3

\* An item of a list of spans is a span.
LEMMA SpanFields ==
  ASSUME NEW s \in Seq(Span), NEW i \in DOMAIN s
  PROVE  s[i] \in Span /\ s[i].from \in Nat /\ s[i].to \in Nat
<1>1. s[i] \in Span
  <2> HIDE DEF Span
  <2> QED OBVIOUS
<1> QED BY <1>1 DEF Span

\* An item behind all others keeps a list in order.
LEMMA PlacedGrows ==
  ASSUME text \in Texts, NEW s \in Seq(Span), NEW lo \in Nat, NEW hi \in text.leads, NEW m \in Cuts,
         lo <= hi, hi < m, Placed(s, lo, hi)
  PROVE  /\ Append(s, Bytes(hi, m)) \in Seq(Span)
         /\ Placed(Append(s, Bytes(hi, m)), lo, m)
<1> DEFINE x == Bytes(hi, m)
           r == Append(s, x)
<1>1. hi \in Nat /\ m \in Nat /\ x \in Span /\ x.from = hi /\ x.to = m
  BY TextFacts DEF Cuts, Bytes, Span
<1>2. /\ r \in Seq(Span) /\ DOMAIN r = DOMAIN s \cup {Len(s) + 1} /\ Len(s) + 1 \notin DOMAIN s
      /\ r[Len(s) + 1] = x
      /\ \A i \in DOMAIN s : r[i] = s[i]
      /\ \A i \in DOMAIN s : s[i].from \in Nat /\ s[i].to \in Nat
      /\ \A i, j \in DOMAIN r : i < j => i \in DOMAIN s
  <2> HIDE DEF x
  <2> QED BY <1>1, AppendSpan, SpanFields
<1>3. \A i \in DOMAIN r : r[i].from \in text.leads /\ r[i].to \in Cuts
                         /\ lo <= r[i].from /\ r[i].from < r[i].to /\ r[i].to <= m
  <2> HIDE DEF r, x
  <2> QED BY <1>1, <1>2 DEF Placed
<1>4. ASSUME NEW i \in DOMAIN r, NEW j \in DOMAIN r, i < j PROVE r[i].to <= r[j].from
  <2> HIDE DEF r, x
  <2>1. i \in DOMAIN s
    BY <1>2, <1>4
  <2> QED BY <1>1, <1>2, <1>4, <2>1 DEF Placed
<1> QED BY <1>2, <1>3, <1>4 DEF Placed

\* What was passed over becomes a span.
LEMMA SpanTiles ==
  ASSUME text \in Texts, NEW t \in Seq(Span), NEW s \in Seq(Span),
         NEW lo \in Nat, NEW hi \in text.leads, NEW m \in Cuts,
         lo <= hi, hi < m, Tiled(t, s, lo, hi), \A b \in text.boundary : ~(hi <= b /\ b < m)
  PROVE  /\ Append(s, Bytes(hi, m)) \in Seq(Span)
         /\ Tiled(t, Append(s, Bytes(hi, m)), lo, m)
<1> DEFINE x == Bytes(hi, m)
           r == Append(s, x)
           n == Len(s) + 1
<1>1. hi \in Nat /\ m \in Nat /\ x.from = hi /\ x.to = m
  BY TextFacts DEF Cuts, Bytes
<1>2. /\ DOMAIN r = DOMAIN s \cup {n} /\ r[n] = x
      /\ \A k \in DOMAIN s : r[k] = s[k] /\ s[k].from \in Nat /\ s[k].to \in Nat
      /\ \A i \in DOMAIN t : t[i].from \in Nat /\ t[i].to \in Nat
  <2>1. x \in Span
    BY <1>1 DEF Bytes, Span
  <2> HIDE DEF x
  <2> QED BY <2>1, AppendSpan, SpanFields
<1>3. Placed(r, lo, m) /\ r \in Seq(Span)
  BY PlacedGrows DEF Tiled
<1> HIDE DEF x, r, n
<1>4. Placed(t, lo, m)
  BY <1>1, <1>2 DEF Tiled, Placed
<1>5. \A i \in DOMAIN t, k \in DOMAIN r : t[i].to <= r[k].from \/ r[k].to <= t[i].from
  BY <1>1, <1>2 DEF Tiled, Placed
<1>6. Starts(t, r, hi) /\ \A p : Starts(t, s, p) => Starts(t, r, p)
  BY <1>1, <1>2 DEF Starts
<1>7. \A k \in DOMAIN r, b \in text.boundary : ~(r[k].from <= b /\ b < r[k].to)
  BY <1>1, <1>2 DEF Tiled
<1>8. /\ lo = m \/ Starts(t, r, lo)
      /\ \A i \in DOMAIN t : t[i].to = m \/ Starts(t, r, t[i].to)
      /\ \A k \in DOMAIN r : r[k].to = m \/ Starts(t, r, r[k].to)
  <2>1. lo = m \/ Starts(t, r, lo)
    BY <1>6 DEF Tiled
  <2>2. ASSUME NEW i \in DOMAIN t PROVE t[i].to = m \/ Starts(t, r, t[i].to)
    BY <1>6 DEF Tiled
  <2>3. ASSUME NEW k \in DOMAIN r PROVE r[k].to = m \/ Starts(t, r, r[k].to)
    <3>1. CASE k \in DOMAIN s
      BY <1>2, <1>6, <3>1 DEF Tiled
    <3>2. CASE k = n
      BY <1>1, <1>2, <3>2
    <3> QED BY <1>2, <3>1, <3>2
  <2> QED BY <2>1, <2>2, <2>3
<1>9. Tiled(t, r, lo, m)
  BY <1>3, <1>4, <1>5, <1>7, <1>8 DEF Tiled
<1> QED BY <1>3, <1>9 DEF r, x

\* A token follows.
LEMMA TokenTiles ==
  ASSUME text \in Texts, NEW t \in Seq(Span), NEW s \in Seq(Span),
         NEW lo \in Nat, NEW hi \in text.leads, NEW m \in Cuts,
         lo <= hi, hi < m, Tiled(t, s, lo, hi)
  PROVE  /\ Append(t, Bytes(hi, m)) \in Seq(Span)
         /\ Tiled(Append(t, Bytes(hi, m)), s, lo, m)
<1> DEFINE x == Bytes(hi, m)
           r == Append(t, x)
           n == Len(t) + 1
<1>1. hi \in Nat /\ m \in Nat /\ x.from = hi /\ x.to = m
  BY TextFacts DEF Cuts, Bytes
<1>2. /\ DOMAIN r = DOMAIN t \cup {n} /\ r[n] = x
      /\ \A i \in DOMAIN t : r[i] = t[i] /\ t[i].from \in Nat /\ t[i].to \in Nat
      /\ \A k \in DOMAIN s : s[k].from \in Nat /\ s[k].to \in Nat
  <2>1. x \in Span
    BY <1>1 DEF Bytes, Span
  <2> HIDE DEF x
  <2> QED BY <2>1, AppendSpan, SpanFields
<1>3. Placed(r, lo, m) /\ r \in Seq(Span)
  BY PlacedGrows DEF Tiled
<1> HIDE DEF x, r, n
<1>4. Placed(s, lo, m)
  BY <1>1, <1>2 DEF Tiled, Placed
<1>5. \A i \in DOMAIN r, k \in DOMAIN s : r[i].to <= s[k].from \/ s[k].to <= r[i].from
  BY <1>1, <1>2 DEF Tiled, Placed
<1>6. Starts(r, s, hi) /\ \A p : Starts(t, s, p) => Starts(r, s, p)
  BY <1>1, <1>2 DEF Starts
<1>7. /\ lo = m \/ Starts(r, s, lo)
      /\ \A i \in DOMAIN r : r[i].to = m \/ Starts(r, s, r[i].to)
      /\ \A k \in DOMAIN s : s[k].to = m \/ Starts(r, s, s[k].to)
  <2>1. lo = m \/ Starts(r, s, lo)
    BY <1>6 DEF Tiled
  <2>2. ASSUME NEW k \in DOMAIN s PROVE s[k].to = m \/ Starts(r, s, s[k].to)
    BY <1>6 DEF Tiled
  <2>3. ASSUME NEW i \in DOMAIN r PROVE r[i].to = m \/ Starts(r, s, r[i].to)
    <3>1. CASE i \in DOMAIN t
      BY <1>2, <1>6, <3>1 DEF Tiled
    <3>2. CASE i = n
      BY <1>1, <1>2, <3>2
    <3> QED BY <1>2, <3>1, <3>2
  <2> QED BY <2>1, <2>2, <2>3
<1>8. Tiled(r, s, lo, m)
  BY <1>3, <1>4, <1>5, <1>7 DEF Tiled
<1> QED BY <1>3, <1>8 DEF r, x

\* A morpheme that starts where the others end and is counted from the start
\* of the text keeps the result good.
LEMMA ResultGrows ==
  ASSUME text \in Texts, NEW r \in Seq(Morphemes), NEW from \in text.leads, NEW to \in Cuts,
         NEW start, NEW end, GoodResult(r), from = Reached(r), from < to,
         start = CountChars(0, from), end = CountChars(0, to)
  PROVE  LET q == Append(r, Morpheme(from, to, start, end))
         IN  q \in Seq(Morphemes) /\ GoodResult(q) /\ Reached(q) = to
<1> DEFINE x == Morpheme(from, to, start, end)
           q == Append(r, x)
<1>1. from \in Nat /\ to \in Nat
  BY TextFacts DEF Cuts
<1>2. start \in Nat /\ end \in Nat
  BY <1>1, CountFacts
<1>3. x \in Morphemes /\ x.from = from /\ x.to = to /\ x.start = start /\ x.end = end
  BY <1>1, <1>2 DEF Morpheme, Morphemes
<1>4. /\ q \in Seq(Morphemes) /\ Len(q) = Len(r) + 1 /\ Len(r) \in Nat
      /\ DOMAIN q = 1..(Len(r) + 1) /\ DOMAIN r = 1..Len(r)
      /\ q # <<>> /\ q[Len(q)] = x /\ \A i \in DOMAIN r : q[i] = r[i]
  <2> HIDE DEF x
  <2>1. x \in Morphemes
    BY <1>3
  <2> HIDE DEF Morphemes
  <2> QED BY <2>1
<1>5. Len(r) = 0 <=> r = <<>>
  OBVIOUS
<1> HIDE DEF x, q
<1>6. Reached(q) = to
  BY <1>3, <1>4 DEF Reached
<1>7. ASSUME NEW i \in DOMAIN q
      PROVE  /\ q[i].from = (IF i = 1 THEN 0 ELSE q[i - 1].to)
             /\ q[i].from \in text.leads /\ q[i].from < q[i].to
             /\ q[i].start = CountChars(0, q[i].from)
             /\ q[i].end = CountChars(0, q[i].to)
  <2>1. CASE i \in DOMAIN r
    <3>1. q[i] = r[i] /\ (i # 1 => q[i - 1] = r[i - 1])
      BY <1>4, <2>1
    <3> QED BY <2>1, <3>1 DEF GoodResult
  <2>2. CASE i = Len(r) + 1
    <3>1. q[i] = x /\ (i # 1 => q[i - 1] = r[Len(r)])
      BY <1>4, <2>2
    <3>2. x.from = (IF i = 1 THEN 0 ELSE q[i - 1].to)
      BY <1>3, <1>4, <1>5, <2>2, <3>1 DEF Reached
    <3> QED BY <1>3, <3>1, <3>2
  <2> QED BY <1>4, <2>1, <2>2
<1>8. GoodResult(q)
  BY <1>6, <1>7 DEF GoodResult
<1> QED BY <1>4, <1>6, <1>8 DEF q, x

\* What is said of a text does not change while the text does not.
LEMMA Frame ==
  ASSUME text' = text
  PROVE  /\ Cuts' = Cuts
         /\ \A a, b : CountChars(a, b)' = CountChars(a, b)
         /\ \A t, s, lo, hi : Tiled(t, s, lo, hi)' <=> Tiled(t, s, lo, hi)
         /\ \A r : GoodResult(r)' <=> GoodResult(r)
BY DEF Cuts, CountChars, Tiled, Placed, Starts, GoodResult, Reached

-----------------------------------------------------------------------------
(* Each action keeps the invariant.                                        *)

LEMMA InitEstablishes == Init => AnalysisInv
<1> SUFFICES ASSUME Init PROVE AnalysisInv
  OBVIOUS
<1> USE DEF Init
<1>1. text \in Texts /\ text \in Text
  BY AnalyzerAssumption
<1>2. text.size \in Nat /\ 0 \in Cuts /\ CountChars(0, 0) = 0
  <2>1. text.size \in Nat /\ (text.size > 0 => 0 \in text.leads)
    BY <1>1, TextFacts
  <2>2. CountChars(0, 0) = 0
    BY <1>1, CountFacts
  <2> QED BY <2>1, <2>2 DEF Cuts
<1>3. piece \in Span
  BY DEF Bytes, Span
<1>4. TypeOK
  <2>1. tokens \in Seq(Span) /\ spans \in Seq(Span)
    <3> HIDE DEF Span
    <3> QED OBVIOUS
  <2>2. result \in Seq(Morphemes)
    <3> HIDE DEF Morphemes
    <3> QED OBVIOUS
  <2>3. {charPos, currentByte, currentChar, spanPos, spanCharPos} \subseteq Nat
    OBVIOUS
  <2> HIDE DEF Init
  <2>4. /\ stage = "chunk" /\ pos = 0 /\ scan = 0 /\ spanStart = 0 /\ previousWasDigit = FALSE
        /\ tokenIdx = 1 /\ spanIdx = 1
    BY DEF Init
  <2>5. pos \in 0..text.size
    BY <1>2, <2>4
  <2>6. result \in Seq([from: Nat, to: Nat, start: Nat, end: Nat])
    BY <2>2 DEF Morphemes
  <2>7. stage \in {"chunk", "pretoken", "merge", "span", "done"}
    BY <2>4
  <2>8. scan \in Nat /\ spanStart \in Nat /\ tokenIdx \in Nat \ {0} /\ spanIdx \in Nat \ {0}
    BY <2>4, SMT
  <2>9. previousWasDigit \in BOOLEAN
    BY <2>4, Zenon
  <2> QED BY <1>1, <1>3, <2>1, <2>3, <2>5, <2>6, <2>7, <2>8, <2>9, Zenon DEF TypeOK
<1>5. Reached(result) = 0 /\ GoodResult(result)
  BY <1>2 DEF Reached, GoodResult
<1> QED
  BY <1>1, <1>2, <1>4, <1>5 DEF AnalysisInv, Outside, InPiece, Pretokenizing, Merging, BetweenItems, InSpan

LEMMA NextPieceKeeps ==
  ASSUME AnalysisInv, NextPiece
  PROVE  AnalysisInv'
<1> USE DEF NextPiece
<1>1. text \in Texts /\ text' = text /\ TypeOK
  BY DEF AnalysisInv
<1>2. /\ text.size \in Nat /\ Cuts \subseteq 0..text.size /\ text.size \in Cuts
      /\ pos \in text.leads /\ pos \in Nat
  BY <1>1, TextFacts DEF AnalysisInv, Cuts
<1>3. /\ ChunkEnd(pos, text.size) \in Cuts /\ pos < ChunkEnd(pos, text.size)
      /\ ChunkEnd(pos, text.size) \in Nat
  <2>1. ChunkEnd(pos, text.size) \in Cuts /\ pos < ChunkEnd(pos, text.size)
    <3>1. pos < text.size
      OBVIOUS
    <3> HIDE DEF NextPiece
    <3> QED BY <1>1, <1>2, <3>1, ChunkEndFacts
  <2> QED BY <1>1, <2>1, CutFacts
<1>4. piece' \in Span /\ piece'.from = pos /\ piece'.to = ChunkEnd(pos, text.size)
  BY <1>2, <1>3 DEF Bytes, Span
<1>5. TypeOK'
  <2>1. tokens' \in Seq(Span) /\ spans' \in Seq(Span)
    <3> HIDE DEF Span
    <3> QED OBVIOUS
  <2>2. UNCHANGED <<text, pos, charPos, tokenIdx, spanIdx, currentByte, currentChar, spanPos, spanCharPos, result>>
    BY DEF mergeVars, spanVars
  <2>3. stage' = "pretoken" /\ scan' \in Nat /\ spanStart' \in Nat /\ previousWasDigit' \in BOOLEAN
    BY <1>2
  <2> HIDE DEF NextPiece, Span
  <2> QED BY <1>1, <1>2, <1>4, <2>1, <2>2, <2>3 DEF TypeOK
<1>6. Tiled(<<>>, <<>>, pos, pos)
  BY DEF Tiled, Placed
<1>7. InPiece'
  BY <1>2, <1>3, <1>4, Frame DEF InPiece
<1>8. Pretokenizing'
  <2>1. Reached(result) = pos /\ pos \in Cuts
    BY DEF AnalysisInv, Outside
  <2>2. Reached(result)' = Reached(result)
    BY DEF Reached
  <2>3. Tiled(tokens, spans, pos, spanStart)'
    BY <1>6, Frame
  <2>4. \A b \in text.boundary : ~(pos <= b /\ b < pos)
    BY <1>1, <1>2, TextFacts
  <2>5. pos <= pos /\ pos <= piece'.to /\ pos \in Cuts' /\ Reached(result)' = pos
    BY <1>2, <1>3, <1>4, <2>1, <2>2, Frame
  <2> QED BY <2>3, <2>4, <2>5 DEF Pretokenizing
<1>9. pos' \in Cuts' /\ charPos' = CountChars(0, pos)' /\ GoodResult(result)'
  BY Frame DEF AnalysisInv
<1> QED
  BY <1>1, <1>5, <1>7, <1>8, <1>9 DEF AnalysisInv, Outside, Merging, BetweenItems, InSpan

-----------------------------------------------------------------------------
(* The pretokenizer.                                                       *)

\* What the invariant says while the pretokenizer scans.
LEMMA PretokenFacts ==
  ASSUME AnalysisInv, stage = "pretoken"
  PROVE  /\ text \in Texts /\ TypeOK /\ text.size \in Nat /\ Cuts \subseteq 0..text.size
         /\ pos \in Nat /\ scan \in Nat /\ spanStart \in Nat /\ piece.to \in Nat
         /\ scan \in Cuts /\ spanStart \in Cuts /\ piece.to \in Cuts
         /\ pos <= spanStart /\ spanStart <= scan /\ scan <= piece.to
         /\ scan < piece.to => scan \in text.leads
         /\ tokens \in Seq(Span) /\ spans \in Seq(Span)
         /\ pos \in text.leads /\ pos < piece.to /\ piece.from = pos /\ piece \in Span
<1>1. text \in Texts /\ TypeOK
  BY DEF AnalysisInv
<1>2. text.size \in Nat /\ Cuts \subseteq 0..text.size
  BY <1>1, TextFacts
<1>3. /\ scan \in Cuts /\ spanStart \in Cuts /\ piece.to \in Cuts
      /\ pos <= spanStart /\ spanStart <= scan /\ scan <= piece.to
      /\ pos \in text.leads /\ pos < piece.to /\ piece.from = pos
  BY DEF AnalysisInv, Pretokenizing, InPiece
<1>4. scan < piece.to => scan \in text.leads
  BY <1>2, <1>3 DEF Cuts
<1>5. /\ pos \in Nat /\ scan \in Nat /\ spanStart \in Nat /\ piece.to \in Nat
      /\ tokens \in Seq(Span) /\ spans \in Seq(Span) /\ piece \in Span
  <2>1. piece \in Span /\ scan \in Nat /\ spanStart \in Nat /\ tokens \in Seq(Span) /\ spans \in Seq(Span)
    BY <1>1 DEF TypeOK
  <2>2. piece.to \in Nat
    BY <1>1, <1>3, CutFacts
  <2>3. pos \in Nat
    BY <1>1, <1>3, TextFacts DEF Cuts
  <2> QED BY <2>1, <2>2, <2>3
<1> QED BY <1>1, <1>2, <1>3, <1>4, <1>5

\* With what was passed over, tokens and spans tile the piece up to the scan.
LEMMA SpansBeforeTiles ==
  ASSUME AnalysisInv, stage = "pretoken"
  PROVE  SpansBefore(scan) \in Seq(Span) /\ Tiled(tokens, SpansBefore(scan), pos, scan)
<1>1. /\ Tiled(tokens, spans, pos, spanStart)
      /\ \A b \in text.boundary : ~(spanStart <= b /\ b < scan)
  BY DEF AnalysisInv, Pretokenizing
<1>2. CASE scan > spanStart
  <2>1. spanStart \in text.leads
    BY <1>2, PretokenFacts DEF Cuts
  <2>2. /\ Append(spans, Bytes(spanStart, scan)) \in Seq(Span)
        /\ Tiled(tokens, Append(spans, Bytes(spanStart, scan)), pos, scan)
    BY <1>1, <1>2, <2>1, PretokenFacts, SpanTiles
  <2> QED BY <1>2, <2>2 DEF SpansBefore
<1>3. CASE ~(scan > spanStart)
  <2>1. scan = spanStart
    BY <1>3, PretokenFacts
  <2> QED BY <1>1, <1>3, <2>1, PretokenFacts DEF SpansBefore
<1> QED BY <1>2, <1>3

\* Taking a token that ends at a character boundary within the piece.
LEMMA TakeTokenKeeps ==
  ASSUME AnalysisInv, stage = "pretoken", scan < piece.to,
         NEW end \in Cuts, scan < end, end <= piece.to, TakeToken(end),
         UNCHANGED <<text, stage, pos, charPos, piece, mergeVars, spanVars, result>>
  PROVE  AnalysisInv'
<1> USE DEF TakeToken
<1>1. end \in Nat
  BY PretokenFacts
<1>2. /\ tokens' \in Seq(Span) /\ spans' \in Seq(Span)
      /\ Tiled(tokens', spans', pos, end)
  BY PretokenFacts, SpansBeforeTiles, TokenTiles
<1>3. TypeOK'
  BY <1>1, <1>2, PretokenFacts DEF TypeOK, mergeVars, spanVars
<1>4. InPiece'
  BY PretokenFacts, Frame DEF InPiece
<1>5. Pretokenizing'
  <2>1. Reached(result)' = pos
    BY DEF AnalysisInv, Pretokenizing, Reached
  <2>2. Tiled(tokens, spans, pos, spanStart)'
    BY <1>2, Frame
  <2>3. \A b \in text.boundary : ~(end <= b /\ b < end)
    <3>1. \A b \in text.boundary : b \in Nat
      BY PretokenFacts, TextFacts
    <3> HIDE DEF TakeToken
    <3> QED BY <1>1, <3>1
  <2> QED BY <1>1, <2>1, <2>2, <2>3, PretokenFacts, Frame DEF Pretokenizing
<1>6. pos' \in Cuts' /\ charPos' = CountChars(0, pos)' /\ GoodResult(result)'
  BY Frame DEF AnalysisInv
<1>7. text' \in Texts
  BY PretokenFacts
<1> QED
  BY <1>3, <1>4, <1>5, <1>6, <1>7 DEF AnalysisInv, Outside, Merging, BetweenItems, InSpan

LEMMA MatchTokenKeeps ==
  ASSUME AnalysisInv, MatchToken
  PROVE  AnalysisInv'
<1>1. PICK end \in text.leads \cup {piece.to} : scan < end /\ end <= piece.to /\ TakeToken(end)
  BY DEF MatchToken
<1>2. end \in Cuts
  BY PretokenFacts DEF MatchToken, Cuts
<1> QED BY <1>1, <1>2, TakeTokenKeeps DEF MatchToken

LEMMA NoMatchKeeps ==
  ASSUME AnalysisInv, NoMatch
  PROVE  AnalysisInv'
<1>1. stage = "pretoken" /\ scan < piece.to
  BY DEF NoMatch
<1>2. CharEnd(scan) \in Cuts /\ CharEnd(scan) \in Nat /\ scan < CharEnd(scan) /\ CharEnd(scan) <= piece.to
      /\ \A c \in Cuts : scan < c => CharEnd(scan) <= c
  BY <1>1, PretokenFacts, CharEndFacts
<1>3. CASE scan \in text.boundary
  BY <1>1, <1>2, <1>3, TakeTokenKeeps DEF NoMatch
<1>4. CASE scan \notin text.boundary
  <2>1. /\ scan' = CharEnd(scan) /\ previousWasDigit' \in BOOLEAN
        /\ UNCHANGED <<spanStart, tokens, spans>>
        /\ UNCHANGED <<text, stage, pos, charPos, piece, mergeVars, spanVars, result>>
    BY <1>4 DEF NoMatch
  <2>2. TypeOK'
    BY <1>2, <2>1, PretokenFacts, <1>1 DEF TypeOK, mergeVars, spanVars
  <2>3. InPiece'
    BY <1>1, <2>1, PretokenFacts, Frame DEF InPiece
  <2>4. \A b \in text.boundary : ~(spanStart <= b /\ b < CharEnd(scan))
    <3> SUFFICES ASSUME NEW b \in text.boundary, spanStart <= b, b < CharEnd(scan) PROVE FALSE
      OBVIOUS
    <3>1. b \in Cuts /\ b \in Nat
      BY <1>1, PretokenFacts, TextFacts DEF Cuts
    <3>2. ~(b < scan) /\ ~(scan < b)
      BY <1>1, <1>2, <3>1 DEF AnalysisInv, Pretokenizing
    <3> QED BY <1>1, <1>4, <3>1, <3>2, PretokenFacts
  <2>5. Pretokenizing'
    <3>1. Reached(result)' = pos
      BY <1>1, <2>1 DEF AnalysisInv, Pretokenizing, Reached
    <3>2. Tiled(tokens, spans, pos, spanStart)'
      BY <1>1, <2>1, Frame DEF AnalysisInv, Pretokenizing
    <3> QED BY <1>1, <1>2, <2>1, <2>4, <3>1, <3>2, PretokenFacts, Frame DEF Pretokenizing
  <2>6. pos' \in Cuts' /\ charPos' = CountChars(0, pos)' /\ GoodResult(result)' /\ text' \in Texts
    BY <2>1, Frame DEF AnalysisInv
  <2> QED
    BY <1>1, <2>1, <2>2, <2>3, <2>5, <2>6 DEF AnalysisInv, Outside, Merging, BetweenItems, InSpan
<1> QED BY <1>3, <1>4

LEMMA EndPretokensKeeps ==
  ASSUME AnalysisInv, EndPretokens
  PROVE  AnalysisInv'
<1> USE DEF EndPretokens
<1>1. spans' \in Seq(Span) /\ Tiled(tokens, spans', pos, piece.to)
  BY SpansBeforeTiles
<1>2. TypeOK'
  BY <1>1, PretokenFacts DEF TypeOK, spanVars
<1>3. InPiece'
  BY PretokenFacts, Frame DEF InPiece
<1>4. Reached(result) = pos /\ Reached(result)' = pos
  BY DEF AnalysisInv, Pretokenizing, Reached
<1>5. CountChars(pos, pos) = 0
  BY PretokenFacts, CountFacts
<1>6. Merging'
  <2>1. Tiled(tokens, spans, pos, piece.to)'
    BY <1>1, Frame
  <2>2. currentChar' = CountChars(pos, currentByte)'
    BY <1>5, PretokenFacts, Frame
  <2> QED BY <1>4, <2>1, <2>2, PretokenFacts DEF Merging
<1>7. BetweenItems'
  <2>1. \A i \in DOMAIN tokens : i \in Nat /\ i > 0 /\ pos <= tokens[i].from
    BY <1>1, PretokenFacts DEF Tiled, Placed
  <2>2. \A k \in DOMAIN spans' : k \in Nat /\ k > 0 /\ pos <= spans'[k].from
    BY <1>1 DEF Tiled, Placed
  <2>3. Taken(Reached(result), Reached(result))'
    BY <1>4, <2>1, <2>2 DEF Taken
  <2>4. Starts(tokens, spans, Reached(result))'
    BY <1>1, <1>4, PretokenFacts DEF Tiled, Starts
  <2> QED BY <2>3, <2>4 DEF BetweenItems
<1>8. pos' \in Cuts' /\ charPos' = CountChars(0, pos)' /\ GoodResult(result)' /\ text' \in Texts
  BY Frame DEF AnalysisInv
<1> QED
  BY <1>2, <1>3, <1>6, <1>7, <1>8 DEF AnalysisInv, Outside, Pretokenizing, InSpan

-----------------------------------------------------------------------------
(* The merge.                                                              *)

\* What the invariant says during the merge.
LEMMA MergeFacts ==
  ASSUME AnalysisInv, stage \in {"merge", "span"}
  PROVE  /\ text \in Texts /\ TypeOK /\ pos \in Nat /\ piece.to \in Cuts /\ piece.to \in Nat
         /\ pos < piece.to /\ piece.from = pos /\ pos \in text.leads /\ pos \in Cuts
         /\ Placed(tokens, pos, piece.to) /\ Placed(spans, pos, piece.to)
         /\ tokens \in Seq(Span) /\ spans \in Seq(Span) /\ result \in Seq(Morphemes)
         /\ tokenIdx \in Nat /\ tokenIdx > 0 /\ spanIdx \in Nat /\ spanIdx > 0
         /\ DOMAIN tokens = 1..Len(tokens) /\ Len(tokens) \in Nat
         /\ DOMAIN spans = 1..Len(spans) /\ Len(spans) \in Nat
         /\ \A i \in DOMAIN tokens : tokens[i].from \in Nat /\ tokens[i].to \in Nat
         /\ \A k \in DOMAIN spans : spans[k].from \in Nat /\ spans[k].to \in Nat
         /\ Reached(result) \in Nat /\ Reached(result) \in Cuts
         /\ currentByte \in Nat /\ pos <= currentByte /\ currentByte <= Reached(result)
         /\ currentChar = CountChars(pos, currentByte) /\ charPos = CountChars(0, pos)
         /\ GoodResult(result)
<1>1. /\ text \in Texts /\ TypeOK /\ pos \in Cuts /\ GoodResult(result) /\ Reached(result) \in Cuts
      /\ charPos = CountChars(0, pos)
  BY DEF AnalysisInv, GoodResult
<1>2. piece.to \in Cuts /\ pos < piece.to /\ piece.from = pos /\ pos \in text.leads
  BY DEF AnalysisInv, InPiece
<1>3. /\ Placed(tokens, pos, piece.to) /\ Placed(spans, pos, piece.to)
      /\ pos <= currentByte /\ currentByte <= Reached(result)
      /\ currentChar = CountChars(pos, currentByte)
  BY DEF AnalysisInv, Merging, Tiled
<1>4. /\ tokens \in Seq(Span) /\ spans \in Seq(Span) /\ result \in Seq(Morphemes)
      /\ tokenIdx \in Nat /\ tokenIdx > 0 /\ spanIdx \in Nat /\ spanIdx > 0 /\ currentByte \in Nat
  BY <1>1 DEF TypeOK, Morphemes
<1>5. pos \in Nat /\ piece.to \in Nat /\ Reached(result) \in Nat
  BY <1>1, <1>2, CutFacts
<1>6. /\ \A i \in DOMAIN tokens : tokens[i].from \in Nat /\ tokens[i].to \in Nat
      /\ \A k \in DOMAIN spans : spans[k].from \in Nat /\ spans[k].to \in Nat
  BY <1>4, SpanFields
<1>7. /\ DOMAIN tokens = 1..Len(tokens) /\ Len(tokens) \in Nat
      /\ DOMAIN spans = 1..Len(spans) /\ Len(spans) \in Nat
  BY <1>4
<1> QED BY <1>1, <1>2, <1>3, <1>4, <1>5, <1>6, <1>7

\* The next token, when it is its turn, starts where the morphemes end.
LEMMA NextTokenStarts ==
  ASSUME AnalysisInv, stage = "merge", tokenIdx <= Len(tokens), TokenNext
  PROVE  tokenIdx \in DOMAIN tokens /\ tokens[tokenIdx].from = Reached(result)
<1> DEFINE r == Reached(result)
<1>1. tokenIdx \in DOMAIN tokens
  BY MergeFacts
<1>2. /\ \A i \in DOMAIN tokens : IF i < tokenIdx THEN tokens[i].to <= r ELSE r <= tokens[i].from
      /\ \A k \in DOMAIN spans : IF k < spanIdx THEN spans[k].to <= r ELSE r <= spans[k].from
      /\ r = piece.to \/ Starts(tokens, spans, r)
  BY DEF AnalysisInv, BetweenItems, Taken
<1>3. r \in Nat
  BY MergeFacts
<1>4. \A i \in DOMAIN tokens : tokens[i].from < tokens[i].to /\ tokens[i].to <= piece.to
  BY MergeFacts DEF Placed
<1>5. \A k \in DOMAIN spans : spans[k].from < spans[k].to
  BY MergeFacts DEF Placed
<1> HIDE DEF r
<1>6. r <= tokens[tokenIdx].from
  BY <1>1, <1>2, MergeFacts
<1>7. r # piece.to
  <2>1. tokens[tokenIdx].from \in Nat /\ tokens[tokenIdx].to \in Nat /\ piece.to \in Nat
    BY <1>1, MergeFacts
  <2>2. tokens[tokenIdx].from < tokens[tokenIdx].to /\ tokens[tokenIdx].to <= piece.to
    BY <1>1, <1>4
  <2> QED BY <1>3, <1>6, <2>1, <2>2
<1>8. CASE \E i \in DOMAIN tokens : tokens[i].from = r
  <2>1. PICK i \in DOMAIN tokens : tokens[i].from = r
    BY <1>8
  <2>2. ~(i < tokenIdx)
    <3>1. tokens[i].from \in Nat /\ tokens[i].to \in Nat
      BY <2>1, MergeFacts
    <3>2. i < tokenIdx => tokens[i].to <= r
      BY <1>2, <2>1
    <3>3. tokens[i].from < tokens[i].to
      BY <1>4, <2>1
    <3> QED BY <2>1, <3>1, <3>2, <3>3
  <2>3. ~(tokenIdx < i)
    <3>1. tokenIdx < i => tokens[tokenIdx].to <= tokens[i].from
      BY <1>1, <2>1, MergeFacts DEF Placed
    <3> QED BY <1>1, <1>3, <1>4, <1>6, <2>1, <3>1, MergeFacts
  <2>4. i = tokenIdx
    BY <2>1, <2>2, <2>3, MergeFacts
  <2> QED BY <1>1, <2>1, <2>4 DEF r
<1>9. CASE \E k \in DOMAIN spans : spans[k].from = r
  <2>1. PICK k \in DOMAIN spans : spans[k].from = r
    BY <1>9
  <2>2. ~(k < spanIdx)
    <3>1. spans[k].from \in Nat /\ spans[k].to \in Nat
      BY <2>1, MergeFacts
    <3>2. k < spanIdx => spans[k].to <= r
      BY <1>2, <2>1
    <3>3. spans[k].from < spans[k].to
      BY <1>5, <2>1
    <3> QED BY <2>1, <3>1, <3>2, <3>3
  <2>3. spanIdx \in DOMAIN spans
    BY <2>1, <2>2, MergeFacts
  <2>4. spans[spanIdx].from <= spans[k].from
    <3>1. spanIdx < k => spans[spanIdx].to <= spans[k].from
      BY <2>1, <2>3, MergeFacts DEF Placed
    <3> QED BY <1>5, <2>1, <2>2, <2>3, <3>1, MergeFacts
  <2>5. tokens[tokenIdx].from < spans[spanIdx].from
    BY <2>3, MergeFacts DEF TokenNext
  <2> QED BY <1>1, <1>3, <1>6, <2>1, <2>3, <2>4, <2>5, MergeFacts
<1> QED BY <1>2, <1>7, <1>8, <1>9 DEF Starts

\* So does the next span.
LEMMA NextSpanStarts ==
  ASSUME AnalysisInv, stage = "merge", spanIdx <= Len(spans), ~TokenNext
  PROVE  spanIdx \in DOMAIN spans /\ spans[spanIdx].from = Reached(result)
<1> DEFINE r == Reached(result)
<1>1. spanIdx \in DOMAIN spans
  BY MergeFacts
<1>2. /\ \A i \in DOMAIN tokens : IF i < tokenIdx THEN tokens[i].to <= r ELSE r <= tokens[i].from
      /\ \A k \in DOMAIN spans : IF k < spanIdx THEN spans[k].to <= r ELSE r <= spans[k].from
      /\ r = piece.to \/ Starts(tokens, spans, r)
  BY DEF AnalysisInv, BetweenItems, Taken
<1>3. r \in Nat
  BY MergeFacts
<1>4. \A k \in DOMAIN spans : spans[k].from < spans[k].to /\ spans[k].to <= piece.to
  BY MergeFacts DEF Placed
<1>5. \A i \in DOMAIN tokens : tokens[i].from < tokens[i].to
  BY MergeFacts DEF Placed
<1> HIDE DEF r
<1>6. r <= spans[spanIdx].from
  BY <1>1, <1>2, MergeFacts
<1>7. r # piece.to
  <2>1. spans[spanIdx].from \in Nat /\ spans[spanIdx].to \in Nat /\ piece.to \in Nat
    BY <1>1, MergeFacts
  <2>2. spans[spanIdx].from < spans[spanIdx].to /\ spans[spanIdx].to <= piece.to
    BY <1>1, <1>4
  <2> QED BY <1>3, <1>6, <2>1, <2>2
<1>8. CASE \E k \in DOMAIN spans : spans[k].from = r
  <2>1. PICK k \in DOMAIN spans : spans[k].from = r
    BY <1>8
  <2>2. ~(k < spanIdx)
    <3>1. spans[k].from \in Nat /\ spans[k].to \in Nat
      BY <2>1, MergeFacts
    <3>2. k < spanIdx => spans[k].to <= r
      BY <1>2, <2>1
    <3>3. spans[k].from < spans[k].to
      BY <1>4, <2>1
    <3> QED BY <2>1, <3>1, <3>2, <3>3
  <2>3. ~(spanIdx < k)
    <3>1. spanIdx < k => spans[spanIdx].to <= spans[k].from
      BY <1>1, <2>1, MergeFacts DEF Placed
    <3> QED BY <1>1, <1>3, <1>4, <1>6, <2>1, <3>1, MergeFacts
  <2>4. k = spanIdx
    BY <2>1, <2>2, <2>3, MergeFacts
  <2> QED BY <1>1, <2>1, <2>4 DEF r
<1>9. CASE \E i \in DOMAIN tokens : tokens[i].from = r
  <2>1. PICK i \in DOMAIN tokens : tokens[i].from = r
    BY <1>9
  <2>2. ~(i < tokenIdx)
    <3>1. tokens[i].from \in Nat /\ tokens[i].to \in Nat
      BY <2>1, MergeFacts
    <3>2. i < tokenIdx => tokens[i].to <= r
      BY <1>2, <2>1
    <3>3. tokens[i].from < tokens[i].to
      BY <1>5, <2>1
    <3> QED BY <2>1, <3>1, <3>2, <3>3
  <2>3. tokenIdx \in DOMAIN tokens
    BY <2>1, <2>2, MergeFacts
  <2>4. tokens[tokenIdx].from <= tokens[i].from
    <3>1. tokenIdx < i => tokens[tokenIdx].to <= tokens[i].from
      BY <2>1, <2>3, MergeFacts DEF Placed
    <3> QED BY <1>5, <2>1, <2>2, <2>3, <3>1, MergeFacts
  <2>5. ~(tokens[tokenIdx].from < spans[spanIdx].from)
    BY <2>3, MergeFacts DEF TokenNext
  <2> QED BY <1>1, <1>3, <1>6, <2>1, <2>3, <2>4, <2>5, MergeFacts DEF r
<1> QED BY <1>2, <1>7, <1>8, <1>9 DEF Starts

\* Counting on to an item keeps the two counters in step.
LEMMA CountToFacts ==
  ASSUME AnalysisInv, stage \in {"merge", "span"}, CountTo(Reached(result))
  PROVE  /\ currentByte' = Reached(result) /\ currentChar' \in Nat
         /\ currentChar' = CountChars(pos, Reached(result))
         /\ charPos + currentChar' = CountChars(0, Reached(result))
<1>1. currentChar' = CountChars(pos, currentByte) + CountChars(currentByte, Reached(result))
  BY MergeFacts DEF CountTo
<1>2. CountChars(pos, currentByte) + CountChars(currentByte, Reached(result)) = CountChars(pos, Reached(result))
  BY MergeFacts, CountFacts
<1>3. pos <= Reached(result) /\ 0 <= pos /\ pos \in Nat /\ Reached(result) \in Nat /\ text \in Texts
  BY MergeFacts
<1>4. /\ CountChars(0, pos) + CountChars(pos, Reached(result)) = CountChars(0, Reached(result))
      /\ CountChars(pos, Reached(result)) \in Nat
  <2> DEFINE here == Reached(result)
  <2>1. pos \in Nat /\ here \in Nat /\ 0 <= pos /\ pos <= here /\ here <= here /\ text \in Texts
    BY <1>3
  <2> HIDE DEF here
  <2>2. CountChars(0, pos) + CountChars(pos, here) = CountChars(0, here)
    BY <2>1, CountFacts
  <2>3. CountChars(pos, here) \in Nat
    BY <2>1, CountFacts
  <2> QED BY <2>2, <2>3 DEF here
<1> QED BY <1>1, <1>2, <1>4, MergeFacts DEF CountTo

LEMMA MergeTokenKeeps ==
  ASSUME AnalysisInv, MergeToken
  PROVE  AnalysisInv'
<1> DEFINE tok == tokens[tokenIdx]
           r == Reached(result)
<1>1. /\ stage = "merge" /\ tokenIdx \in DOMAIN tokens /\ tok.from = r /\ CountTo(r)
  BY NextTokenStarts DEF MergeToken
<1>2. /\ tokenIdx' = tokenIdx + 1
      /\ UNCHANGED <<text, stage, pos, charPos, piece, pretokenVars, spanIdx, spanVars>>
      /\ result' = Append(result, Morpheme(r, tok.to, charPos + currentChar',
                                           charPos + currentChar' + CountChars(r, tok.to)))
  BY <1>1 DEF MergeToken
<1>3. /\ r \in text.leads /\ r \in Nat /\ tok.to \in Cuts /\ tok.to \in Nat /\ r < tok.to
      /\ pos <= r /\ tok.to <= piece.to
  BY <1>1, MergeFacts DEF Placed
<1>4. /\ currentByte' = r /\ currentChar' \in Nat /\ currentChar' = CountChars(pos, r)
      /\ charPos + currentChar' = CountChars(0, r)
  BY <1>1, CountToFacts
<1>5. CountChars(0, r) + CountChars(r, tok.to) = CountChars(0, tok.to)
  <2>1. 0 <= r /\ r <= tok.to
    BY <1>3
  <2>2. text \in Texts
    BY DEF AnalysisInv
  <2> HIDE DEF r, tok
  <2> QED BY <1>3, <2>1, <2>2, CountFacts
<1> HIDE DEF r, tok
<1>6. result' \in Seq(Morphemes) /\ GoodResult(result') /\ Reached(result') = tok.to
  <2>1. result' = Append(result, Morpheme(r, tok.to, CountChars(0, r), CountChars(0, tok.to)))
    BY <1>2, <1>4, <1>5
  <2> QED BY <1>1, <1>3, <2>1, MergeFacts, ResultGrows DEF r
<1>7. TypeOK'
  <2>1. result' \in Seq([from: Nat, to: Nat, start: Nat, end: Nat])
    BY <1>6 DEF Morphemes
  <2>2. {charPos', currentByte', currentChar', spanPos', spanCharPos'} \subseteq Nat
    BY <1>1, <1>2, <1>3, <1>4, MergeFacts DEF TypeOK, spanVars
  <2>3. tokenIdx' \in Nat \ {0} /\ spanIdx' \in Nat \ {0}
    BY <1>1, <1>2, MergeFacts
  <2>4. TypeOK
    BY DEF AnalysisInv
  <2> QED BY <1>2, <2>1, <2>2, <2>3, <2>4 DEF TypeOK, pretokenVars
<1>8. InPiece'
  BY <1>1, <1>2, Frame DEF AnalysisInv, InPiece
<1>9. Reached(result)' = tok.to
  BY <1>6 DEF Reached
<1>10. Merging'
  <2>1. Tiled(tokens, spans, pos, piece.to)'
    BY <1>1, <1>2, Frame DEF AnalysisInv, Merging, pretokenVars
  <2>2. currentChar' = CountChars(pos, currentByte)'
    BY <1>2, <1>4, Frame
  <2> QED BY <1>2, <1>3, <1>4, <1>9, <2>1, <2>2 DEF Merging
<1>11. BetweenItems'
  <2>1. /\ \A i \in DOMAIN tokens : IF i < tokenIdx THEN tokens[i].to <= r ELSE r <= tokens[i].from
        /\ \A k \in DOMAIN spans : IF k < spanIdx THEN spans[k].to <= r ELSE r <= spans[k].from
    BY <1>1 DEF AnalysisInv, BetweenItems, Taken, r
  <2>2. Tiled(tokens, spans, pos, piece.to)
    BY <1>1 DEF AnalysisInv, Merging
  <2>3. ASSUME NEW i \in DOMAIN tokens
        PROVE  IF i < tokenIdx + 1 THEN tokens[i].to <= tok.to ELSE tok.to <= tokens[i].from
    <3>1. /\ i < tokenIdx => tokens[i].to <= r
          /\ tokenIdx < i => tok.to <= tokens[i].from
      BY <1>1, <2>1, <2>2, <2>3 DEF Tiled, Placed, tok
    <3>2. i \in Nat /\ tokenIdx \in Nat /\ tokens[i].to \in Nat
      BY <1>1, <2>3, MergeFacts
    <3>3. CASE i = tokenIdx
      BY <1>3, <3>2, <3>3 DEF tok
    <3> QED BY <1>3, <3>1, <3>2, <3>3
  <2>4. ASSUME NEW k \in DOMAIN spans
        PROVE  IF k < spanIdx THEN spans[k].to <= tok.to ELSE tok.to <= spans[k].from
    <3>1. tok.to <= spans[k].from \/ spans[k].to <= r
      BY <1>1, <2>2, <2>4 DEF Tiled, tok
    <3>2. spans[k].from \in Nat /\ spans[k].to \in Nat /\ spans[k].from < spans[k].to
      BY <1>1, <2>2, <2>4, MergeFacts DEF Tiled, Placed
    <3> QED BY <1>3, <2>1, <2>4, <3>1, <3>2
  <2>5. tok.to = piece.to \/ Starts(tokens, spans, tok.to)
    BY <1>1, <2>2 DEF Tiled, tok
  <2>6. UNCHANGED <<text, stage, piece, tokens, spans, spanIdx>>
    BY <1>2 DEF pretokenVars
  <2>7. Taken(Reached(result), Reached(result))'
    BY <1>2, <1>9, <2>3, <2>4, <2>6 DEF Taken
  <2>8. (Reached(result) = piece.to \/ Starts(tokens, spans, Reached(result)))'
    BY <1>9, <2>5, <2>6 DEF Starts
  <2> QED BY <2>7, <2>8 DEF BetweenItems
<1>12. pos' \in Cuts' /\ charPos' = CountChars(0, pos)' /\ GoodResult(result)' /\ text' \in Texts
  BY <1>2, <1>6, Frame DEF AnalysisInv
<1> QED
  BY <1>1, <1>2, <1>7, <1>8, <1>10, <1>11, <1>12 DEF AnalysisInv, Outside, Pretokenizing, InSpan

LEMMA MergeSpanKeeps ==
  ASSUME AnalysisInv, MergeSpan
  PROVE  AnalysisInv'
<1> DEFINE sp == spans[spanIdx]
           r == Reached(result)
<1>1. stage = "merge" /\ spanIdx \in DOMAIN spans /\ sp.from = r /\ CountTo(r)
  BY NextSpanStarts DEF MergeSpan
<1>2. /\ spanPos' = r /\ spanCharPos' = charPos + currentChar' /\ stage' = "span"
      /\ UNCHANGED <<text, pos, charPos, piece, pretokenVars, tokenIdx, spanIdx, result>>
  BY <1>1 DEF MergeSpan
<1>3. /\ r \in text.leads /\ r \in Nat /\ sp.to \in Cuts /\ sp.to \in Nat /\ r < sp.to
      /\ pos <= r /\ sp.to <= piece.to
  BY <1>1, MergeFacts DEF Placed
<1>4. /\ currentByte' = r /\ currentChar' \in Nat /\ currentChar' = CountChars(pos, r)
      /\ charPos + currentChar' = CountChars(0, r)
  BY <1>1, CountToFacts
<1>5. CountChars(0, r) \in Nat
  BY <1>3, CountFacts, MergeFacts, <1>1
<1> HIDE DEF r, sp
<1>6. TypeOK'
  <2>1. {charPos', currentByte', currentChar', spanPos', spanCharPos'} \subseteq Nat
    <3>1. charPos \in Nat
      BY DEF AnalysisInv, TypeOK
    <3> QED BY <1>2, <1>3, <1>4, <1>5, <3>1
  <2>2. TypeOK
    BY DEF AnalysisInv
  <2> QED BY <1>2, <2>1, <2>2 DEF TypeOK, pretokenVars
<1>7. InPiece'
  BY <1>1, <1>2, Frame DEF AnalysisInv, InPiece
<1>8. Reached(result)' = r
  BY <1>2 DEF Reached, r
<1>9. Merging'
  <2>1. Tiled(tokens, spans, pos, piece.to)'
    BY <1>1, <1>2, Frame DEF AnalysisInv, Merging, pretokenVars
  <2>2. currentChar' = CountChars(pos, currentByte)'
    BY <1>2, <1>4, Frame
  <2> QED BY <1>2, <1>3, <1>4, <1>8, <2>1, <2>2 DEF Merging
<1>10. InSpan'
  <2>1. /\ \A i \in DOMAIN tokens : IF i < tokenIdx THEN tokens[i].to <= r ELSE r <= tokens[i].from
        /\ \A k \in DOMAIN spans : IF k < spanIdx THEN spans[k].to <= r ELSE r <= spans[k].from
    BY <1>1 DEF AnalysisInv, BetweenItems, Taken, r
  <2>2. Tiled(tokens, spans, pos, piece.to)
    BY <1>1 DEF AnalysisInv, Merging
  <2>3. ASSUME NEW i \in DOMAIN tokens
        PROVE  IF i < tokenIdx THEN tokens[i].to <= sp.from ELSE sp.to <= tokens[i].from
    <3>1. tokens[i].to <= r \/ sp.to <= tokens[i].from
      BY <1>1, <2>2, <2>3 DEF Tiled, sp
    <3>2. tokens[i].from \in Nat /\ tokens[i].to \in Nat /\ tokens[i].from < tokens[i].to
      BY <1>1, <2>2, <2>3, MergeFacts DEF Tiled, Placed
    <3> QED BY <1>1, <1>3, <2>1, <2>3, <3>1, <3>2
  <2>4. \A k \in DOMAIN spans : IF k < spanIdx THEN spans[k].to <= sp.from ELSE sp.from <= spans[k].from
    BY <1>1, <2>1
  <2>5. UNCHANGED <<text, tokens, spans, tokenIdx, spanIdx>>
    BY <1>2 DEF pretokenVars
  <2>6. Taken(spans[spanIdx].from, spans[spanIdx].to)'
    BY <2>3, <2>4, <2>5 DEF Taken, sp
  <2>7. spanCharPos' = CountChars(0, spanPos)'
    BY <1>2, <1>4, Frame
  <2>8. /\ spanIdx' \in DOMAIN spans' /\ spans'[spanIdx'].from <= spanPos'
        /\ spanPos' <= spans'[spanIdx'].to
    BY <1>1, <1>2, <1>3, <2>5 DEF sp
  <2> QED BY <1>2, <1>8, <2>6, <2>7, <2>8 DEF InSpan
<1>11. pos' \in Cuts' /\ charPos' = CountChars(0, pos)' /\ GoodResult(result)' /\ text' \in Texts
  BY <1>2, Frame DEF AnalysisInv
<1> QED
  BY <1>2, <1>6, <1>7, <1>9, <1>10, <1>11 DEF AnalysisInv, Outside, Pretokenizing, BetweenItems

-----------------------------------------------------------------------------
(* Within a span, and behind it.                                           *)

\* The part that AnalyzePart hands over.
LEMMA PartFacts ==
  ASSUME AnalysisInv, AnalyzePart
  PROVE  LET to == ChunkEnd(spanPos, spans[spanIdx].to)
         IN /\ spanPos \in text.leads /\ spanPos \in Nat /\ Reached(result) = spanPos
            /\ to \in Cuts /\ to \in Nat /\ spanPos < to /\ to <= spans[spanIdx].to
            /\ to - spanPos <= MaxChunkBytes
            /\ spanCharPos = CountChars(0, spanPos) /\ CountChars(0, to) \in Nat
            /\ spanCharPos + CountChars(spanPos, to) = CountChars(0, to)
<1> DEFINE to == ChunkEnd(spanPos, spans[spanIdx].to)
<1>1. /\ stage = "span" /\ spanPos < spans[spanIdx].to
  BY DEF AnalyzePart
<1>2. /\ spanIdx \in DOMAIN spans /\ Reached(result) = spanPos
      /\ spans[spanIdx].from <= spanPos /\ spanCharPos = CountChars(0, spanPos)
  BY <1>1 DEF AnalysisInv, InSpan
<1>3. /\ spans[spanIdx].to \in Cuts /\ spans[spanIdx].from \in Nat
      /\ \A b \in text.boundary : ~(spans[spanIdx].from <= b /\ b < spans[spanIdx].to)
  BY <1>1, <1>2, MergeFacts DEF AnalysisInv, Merging, Tiled, Placed
<1>4. text \in Texts /\ spanPos \in Cuts
  BY <1>1, <1>2, MergeFacts
<1>5. spanPos \in text.leads /\ spanPos \in Nat
  BY <1>1, <1>3, <1>4, CutFacts
<1>6. \A b \in text.boundary : ~(spanPos <= b /\ b < spans[spanIdx].to)
  <2>1. \A b \in text.boundary : b \in Nat
    BY <1>4, TextFacts
  <2> QED BY <1>2, <1>3, <1>5, <2>1
<1>7. to \in Cuts /\ spanPos < to /\ to <= spans[spanIdx].to /\ to - spanPos <= MaxChunkBytes
  BY <1>1, <1>3, <1>4, <1>5, <1>6, ChunkEndFacts
<1> HIDE DEF to
<1>8. to \in Nat
  BY <1>4, <1>7, CutFacts
<1>9. 0 <= spanPos /\ spanPos <= to
  BY <1>5, <1>7, <1>8
<1>10. CountChars(0, spanPos) + CountChars(spanPos, to) = CountChars(0, to)
  BY <1>4, <1>5, <1>8, <1>9, CountFacts
<1>11. CountChars(0, to) \in Nat
  BY <1>4, <1>8, CountFacts
<1> QED BY <1>2, <1>5, <1>7, <1>8, <1>10, <1>11 DEF to

LEMMA AnalyzePartKeeps ==
  ASSUME AnalysisInv, AnalyzePart
  PROVE  AnalysisInv'
<1> DEFINE to == ChunkEnd(spanPos, spans[spanIdx].to)
<1>1. /\ spanPos \in text.leads /\ spanPos \in Nat /\ Reached(result) = spanPos
      /\ to \in Cuts /\ to \in Nat /\ spanPos < to /\ to <= spans[spanIdx].to
      /\ spanCharPos = CountChars(0, spanPos) /\ CountChars(0, to) \in Nat
      /\ spanCharPos + CountChars(spanPos, to) = CountChars(0, to)
  BY PartFacts
<1>2. /\ stage = "span" /\ spanPos' = to /\ spanCharPos' = CountChars(0, to)
      /\ result' = Append(result, Morpheme(spanPos, to, CountChars(0, spanPos), CountChars(0, to)))
      /\ UNCHANGED <<text, stage, pos, charPos, piece, pretokenVars, mergeVars>>
  BY <1>1 DEF AnalyzePart
<1>3. spanIdx \in DOMAIN spans /\ spans[spanIdx].from <= spanPos /\ spans[spanIdx].from \in Nat
  BY <1>2, MergeFacts DEF AnalysisInv, InSpan
<1> HIDE DEF to
<1>4. result' \in Seq(Morphemes) /\ GoodResult(result') /\ Reached(result') = to
  BY <1>1, <1>2, MergeFacts, ResultGrows
<1>5. Reached(result)' = to
  BY <1>4 DEF Reached
<1>6. TypeOK'
  <2>1. result' \in Seq([from: Nat, to: Nat, start: Nat, end: Nat])
    BY <1>4 DEF Morphemes
  <2>2. TypeOK
    BY DEF AnalysisInv
  <2>3. {charPos', currentByte', currentChar', spanPos', spanCharPos'} \subseteq Nat
    BY <1>1, <1>2, <2>2 DEF TypeOK, mergeVars
  <2> QED BY <1>2, <2>1, <2>2, <2>3 DEF TypeOK, pretokenVars, mergeVars
<1>7. InPiece'
  BY <1>2, Frame DEF AnalysisInv, InPiece
<1>8. Merging'
  <2>1. Tiled(tokens, spans, pos, piece.to)'
    BY <1>2, Frame DEF AnalysisInv, Merging, pretokenVars
  <2>2. currentChar' = CountChars(pos, currentByte)'
    BY <1>2, Frame DEF AnalysisInv, Merging, mergeVars
  <2>3. pos <= currentByte /\ currentByte <= spanPos /\ currentByte \in Nat
    BY <1>1, <1>2, MergeFacts
  <2>4. pos' <= currentByte' /\ currentByte' <= to
    BY <1>1, <1>2, <2>3 DEF mergeVars
  <2> QED BY <1>5, <2>1, <2>2, <2>4 DEF Merging
<1>9. InSpan'
  <2>1. UNCHANGED <<text, tokens, spans, tokenIdx, spanIdx>>
    BY <1>2 DEF pretokenVars, mergeVars
  <2>2. Taken(spans[spanIdx].from, spans[spanIdx].to)'
    BY <1>2, <2>1 DEF AnalysisInv, InSpan, Taken
  <2>3. spanCharPos' = CountChars(0, spanPos)'
    BY <1>2, Frame
  <2>4. spans[spanIdx].from <= to
    BY <1>1, <1>3
  <2> QED BY <1>1, <1>2, <1>3, <1>5, <2>1, <2>2, <2>3, <2>4 DEF InSpan
<1>10. pos' \in Cuts' /\ charPos' = CountChars(0, pos)' /\ GoodResult(result)' /\ text' \in Texts
  BY <1>2, <1>4, Frame DEF AnalysisInv
<1> QED
  BY <1>2, <1>6, <1>7, <1>8, <1>9, <1>10 DEF AnalysisInv, Outside, Pretokenizing, BetweenItems

LEMMA EndSpanKeeps ==
  ASSUME AnalysisInv, EndSpan
  PROVE  AnalysisInv'
<1> DEFINE sp == spans[spanIdx]
<1>1. /\ stage = "span" /\ spanPos = sp.to /\ spanIdx' = spanIdx + 1 /\ stage' = "merge"
      /\ UNCHANGED <<text, pos, charPos, piece, pretokenVars, tokenIdx, currentByte, currentChar,
                     spanVars, result>>
  BY DEF EndSpan
<1>2. /\ spanIdx \in DOMAIN spans /\ Reached(result) = sp.to
      /\ Taken(sp.from, sp.to)
  BY <1>1 DEF AnalysisInv, InSpan
<1>3. sp.from \in Nat /\ sp.to \in Nat /\ sp.from < sp.to
  BY <1>1, <1>2, MergeFacts DEF Placed
<1>4. Reached(result)' = sp.to
  BY <1>1, <1>2 DEF Reached
<1> HIDE DEF sp
<1>5. TypeOK'
  <2>1. spanIdx' \in Nat \ {0}
    BY <1>1, MergeFacts
  <2>2. TypeOK
    BY DEF AnalysisInv
  <2> QED BY <1>1, <2>1, <2>2 DEF TypeOK, pretokenVars, spanVars
<1>6. InPiece'
  BY <1>1, Frame DEF AnalysisInv, InPiece
<1>7. Merging'
  <2>1. Tiled(tokens, spans, pos, piece.to)'
    BY <1>1, Frame DEF AnalysisInv, Merging, pretokenVars
  <2>2. currentChar' = CountChars(pos, currentByte)'
    BY <1>1, Frame DEF AnalysisInv, Merging
  <2>3. pos <= currentByte /\ currentByte <= sp.to
    BY <1>1, <1>2 DEF AnalysisInv, Merging
  <2> QED BY <1>1, <1>4, <2>1, <2>2, <2>3 DEF Merging
<1>8. BetweenItems'
  <2>1. Tiled(tokens, spans, pos, piece.to)
    BY <1>1 DEF AnalysisInv, Merging
  <2>2. \A i \in DOMAIN tokens : IF i < tokenIdx THEN tokens[i].to <= sp.to ELSE sp.to <= tokens[i].from
    BY <1>1, <1>2, <1>3, MergeFacts DEF Taken
  <2>3. ASSUME NEW k \in DOMAIN spans
        PROVE  IF k < spanIdx + 1 THEN spans[k].to <= sp.to ELSE sp.to <= spans[k].from
    <3>1. /\ k < spanIdx => spans[k].to <= sp.from
          /\ spanIdx < k => sp.to <= spans[k].from
      BY <1>2, <2>1, <2>3 DEF Taken, Tiled, Placed, sp
    <3>2. k \in Nat /\ spanIdx \in Nat /\ spans[k].to \in Nat
      BY <1>1, <2>3, MergeFacts
    <3>3. CASE k = spanIdx
      BY <1>3, <3>2, <3>3 DEF sp
    <3> QED BY <1>3, <3>1, <3>2, <3>3
  <2>4. sp.to = piece.to \/ Starts(tokens, spans, sp.to)
    BY <1>2, <2>1 DEF Tiled, sp
  <2>5. UNCHANGED <<text, piece, tokens, spans, tokenIdx>>
    BY <1>1 DEF pretokenVars
  <2>6. Taken(Reached(result), Reached(result))'
    BY <1>1, <1>4, <2>2, <2>3, <2>5 DEF Taken
  <2>7. (Reached(result) = piece.to \/ Starts(tokens, spans, Reached(result)))'
    BY <1>4, <2>4, <2>5 DEF Starts
  <2> QED BY <2>6, <2>7 DEF BetweenItems
<1>9. pos' \in Cuts' /\ charPos' = CountChars(0, pos)' /\ GoodResult(result)' /\ text' \in Texts
  BY <1>1, Frame DEF AnalysisInv
<1> QED
  BY <1>1, <1>5, <1>6, <1>7, <1>8, <1>9 DEF AnalysisInv, Outside, Pretokenizing, InSpan

LEMMA EndPieceKeeps ==
  ASSUME AnalysisInv, EndPiece
  PROVE  AnalysisInv'
<1>1. /\ stage = "merge" /\ tokenIdx > Len(tokens) /\ spanIdx > Len(spans)
      /\ charPos' = charPos + CountChars(pos, piece.to) /\ pos' = piece.to /\ stage' = "chunk"
      /\ UNCHANGED <<text, piece, pretokenVars, mergeVars, spanVars, result>>
  BY DEF EndPiece
<1>2. Reached(result) = piece.to
  <2> DEFINE r == Reached(result)
  <2>1. /\ Taken(r, r) /\ (r = piece.to \/ Starts(tokens, spans, r))
    BY <1>1 DEF AnalysisInv, BetweenItems
  <2>2. \A i \in DOMAIN tokens : tokens[i].to <= r /\ tokens[i].from < tokens[i].to
    BY <1>1, <2>1, MergeFacts DEF Taken, Placed
  <2>3. \A k \in DOMAIN spans : spans[k].to <= r /\ spans[k].from < spans[k].to
    BY <1>1, <2>1, MergeFacts DEF Taken, Placed
  <2>4. /\ r \in Nat
        /\ \A i \in DOMAIN tokens : tokens[i].from \in Nat /\ tokens[i].to \in Nat
        /\ \A k \in DOMAIN spans : spans[k].from \in Nat /\ spans[k].to \in Nat
    BY <1>1, MergeFacts
  <2> HIDE DEF r
  <2>5. ~Starts(tokens, spans, r)
    <3>1. \A i \in DOMAIN tokens : tokens[i].from # r
      BY <2>2, <2>4
    <3>2. \A k \in DOMAIN spans : spans[k].from # r
      BY <2>3, <2>4
    <3> QED BY <3>1, <3>2 DEF Starts
  <2> QED BY <2>1, <2>5 DEF r
<1>3. charPos' = CountChars(0, piece.to) /\ charPos' \in Nat
  <2>1. /\ text \in Texts /\ pos \in Nat /\ piece.to \in Nat
        /\ 0 <= pos /\ pos <= piece.to /\ 0 <= piece.to
    BY <1>1, MergeFacts
  <2>2. CountChars(0, pos) + CountChars(pos, piece.to) = CountChars(0, piece.to)
    BY <2>1, CountFacts
  <2>3. CountChars(0, piece.to) \in Nat
    <3>1. piece.to <= piece.to
      BY <2>1
    <3> QED BY <2>1, <3>1, CountFacts
  <2> QED BY <1>1, <2>2, <2>3, MergeFacts
<1>4. piece.to \in Cuts /\ piece.to \in 0..text.size
  BY <1>1, MergeFacts, CutFacts, TextFacts
<1>5. TypeOK'
  <2>1. TypeOK
    BY DEF AnalysisInv
  <2>2. {charPos', currentByte', currentChar', spanPos', spanCharPos'} \subseteq Nat
    BY <1>1, <1>3, <2>1 DEF TypeOK, mergeVars, spanVars
  <2> QED BY <1>1, <1>4, <2>1, <2>2 DEF TypeOK, pretokenVars, mergeVars
<1>6. Outside'
  BY <1>1, <1>2 DEF Outside, Reached
<1>7. pos' \in Cuts' /\ charPos' = CountChars(0, pos)' /\ GoodResult(result)' /\ text' \in Texts
  BY <1>1, <1>3, <1>4, Frame DEF AnalysisInv
<1> QED
  BY <1>1, <1>5, <1>6, <1>7 DEF AnalysisInv, InPiece, Pretokenizing, Merging, BetweenItems, InSpan

LEMMA FinishKeeps ==
  ASSUME AnalysisInv, Finish
  PROVE  AnalysisInv'
<1>1. /\ stage = "chunk" /\ pos = text.size /\ stage' = "done"
      /\ UNCHANGED <<text, pos, charPos, piece, pretokenVars, mergeVars, spanVars, result>>
  BY DEF Finish
<1>2. TypeOK'
  BY <1>1 DEF AnalysisInv, TypeOK, pretokenVars, mergeVars, spanVars
<1>3. Outside'
  BY <1>1 DEF AnalysisInv, Outside, Reached
<1>4. pos' \in Cuts' /\ charPos' = CountChars(0, pos)' /\ GoodResult(result)' /\ text' \in Texts
  BY <1>1, Frame DEF AnalysisInv
<1> QED
  BY <1>1, <1>2, <1>3, <1>4 DEF AnalysisInv, InPiece, Pretokenizing, Merging, BetweenItems, InSpan

LEMMA StutterKeeps ==
  ASSUME AnalysisInv, UNCHANGED vars
  PROVE  AnalysisInv'
<1> USE DEF vars, pretokenVars, mergeVars, spanVars
<1>1. TypeOK'
  BY DEF AnalysisInv, TypeOK
<1>2. pos' \in Cuts' /\ charPos' = CountChars(0, pos)' /\ GoodResult(result)' /\ text' \in Texts
  BY Frame DEF AnalysisInv
<1>3. Outside' /\ InPiece'
  BY Frame DEF AnalysisInv, Outside, InPiece, Reached
<1>4. Pretokenizing' /\ Merging'
  BY Frame DEF AnalysisInv, Pretokenizing, Merging, Reached
<1>5. BetweenItems' /\ InSpan'
  BY Frame DEF AnalysisInv, BetweenItems, InSpan, Taken, Starts, Reached
<1> QED BY <1>1, <1>2, <1>3, <1>4, <1>5 DEF AnalysisInv

-----------------------------------------------------------------------------
(* The theorems.                                                           *)

\* In every state of the analysis, what is taken and what is still to be taken
\* tile the text, and the four counters agree with it.
THEOREM AnalysisInvariant == Spec => []AnalysisInv
<1>1. ASSUME AnalysisInv, Next PROVE AnalysisInv'
  BY <1>1, NextPieceKeeps, MatchTokenKeeps, NoMatchKeeps, EndPretokensKeeps, MergeTokenKeeps,
     MergeSpanKeeps, AnalyzePartKeeps, EndSpanKeeps, EndPieceKeeps, FinishKeeps DEF Next
<1>2. AnalysisInv /\ [Next]_vars => AnalysisInv'
  BY <1>1, StutterKeeps
<1> QED BY <1>2, InitEstablishes, PTL DEF Spec

\* No chunking, pretokenizer or merge drops, repeats or reorders text
\* (analyzer.cpp, pretokenizer.cpp), whatever the matchers match.
THEOREM NothingIsLost == Spec => []NothingLost
<1>1. AnalysisInv => NothingLost
  <2> SUFFICES ASSUME AnalysisInv PROVE NothingLost
    OBVIOUS
  <2>1. \A i \in DOMAIN result : result[i].from = IF i = 1 THEN 0 ELSE result[i - 1].to
    BY DEF AnalysisInv, GoodResult
  <2>2. ASSUME stage = "done", text.size > 0
        PROVE  result # <<>> /\ result[Len(result)].to = text.size
    <3>1. Reached(result) = text.size
      BY <2>2 DEF AnalysisInv, Outside
    <3>2. text.size \in Nat
      BY TextFacts DEF AnalysisInv
    <3> QED BY <2>2, <3>1, <3>2 DEF Reached
  <2> QED BY <2>1, <2>2 DEF NothingLost
<1> QED BY <1>1, AnalysisInvariant, PTL

\* The character offsets of every morpheme count the characters of the whole
\* text before it, although piece, merge and span count from zeros of their own
\* (countChars in analyzer.cpp).
THEOREM OffsetsAreExact == Spec => []OffsetsExact
<1>1. AnalysisInv => OffsetsExact
  BY DEF AnalysisInv, GoodResult, OffsetsExact
<1> QED BY <1>1, AnalysisInvariant, PTL

\* Every surface starts at a character and is not empty (findUtf8Boundary and
\* decodeUtf8 in chunkBySentenceBoundary).
THEOREM CutsFallBetween == Spec => []CutsBetweenCharacters
<1>1. AnalysisInv => CutsBetweenCharacters
  BY DEF AnalysisInv, GoodResult, CutsBetweenCharacters
<1> QED BY <1>1, AnalysisInvariant, PTL

\* analyzeChunk is never given more than kMaxChunkBytes: a span holds no
\* boundary character, so that its cuts never go behind one.
THEOREM PartsLimited == Spec => PartsWithinLimit
<1> DEFINE Part == result'[Len(result')].to - result'[Len(result')].from <= MaxChunkBytes
<1>1. ASSUME AnalysisInv, [Next]_vars, stage = "span", result' # result PROVE Part
  <2>1. AnalyzePart
    BY <1>1 DEF Next, vars, NextPiece, MatchToken, NoMatch, EndPretokens, MergeToken, MergeSpan,
       EndSpan, EndPiece, Finish
  <2> DEFINE to == ChunkEnd(spanPos, spans[spanIdx].to)
             x == Morpheme(spanPos, to, spanCharPos, spanCharPos + CountChars(spanPos, to))
  <2>2. result' = Append(result, x)
    BY <2>1 DEF AnalyzePart
  <2>3. to - spanPos <= MaxChunkBytes /\ x.from = spanPos /\ x.to = to
    BY <1>1, <2>1, PartFacts DEF Morpheme
  <2>4. x \in Morphemes
    <3>1. spanCharPos \in Nat
      BY <1>1 DEF AnalysisInv, TypeOK
    <3> QED BY <1>1, <2>1, <3>1, PartFacts DEF Morpheme, Morphemes
  <2> HIDE DEF x, to
  <2>5. Len(result') = Len(result) + 1 /\ result'[Len(result) + 1] = x
    BY <1>1, <2>2, <2>4, MergeFacts, AppendFacts
  <2> QED BY <2>3, <2>5
<1>2. AnalysisInv /\ [Next]_vars => [stage = "span" /\ result' # result => Part]_vars
  BY <1>1 DEF vars
<1> QED BY <1>2, AnalysisInvariant, PTL DEF Spec, PartsWithinLimit
=============================================================================
