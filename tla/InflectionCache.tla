--------------------------- MODULE InflectionCache ---------------------------
(***************************************************************************)
(* grammar::Inflection::analyze and its two cache generations              *)
(* (src/src/grammar/inflection.{h,cpp}).  analyze returns a reference into *)
(* a cache node; the candidate generators of one chunk keep such           *)
(* references while they analyse other surfaces, and analyze itself calls  *)
(* analyze for what is left of a surface after an explanatory suffix.      *)
(*                                                                         *)
(* A result is a function of its surface, so a cache is the set of its     *)
(* keys.  A node is named by its surface and by how many rollovers ago it  *)
(* was inserted: a surface that is dropped and analysed again gets a new   *)
(* node.  Counts of rollovers stop at 2, by when the node is gone.         *)
(***************************************************************************)
EXTENDS Integers, Sequences, FiniteSets

CONSTANTS
  Surfaces,         \* the surfaces analysed
  MaxCacheEntries,  \* kMaxCacheEntries, per generation
  Remainders,       \* what analyze(s) analyses on the way: s without a suffix
  Size,             \* surface.size()
  MaxHeld           \* bound on the references generators hold at a time

ASSUME InflectionAssumption ==
  /\ MaxCacheEntries \in Nat \ {0}
  /\ MaxHeld \in Nat
  /\ Size \in [Surfaces -> Nat]
  /\ Remainders \in [Surfaces -> SUBSET Surfaces]
  /\ \A s \in Surfaces : IsFiniteSet(Remainders[s])
  /\ \A s \in Surfaces : \A r \in Remainders[s] : Size[r] < Size[s]

VARIABLES
  cache,     \* cache_
  previous,  \* previous_
  calls,     \* the analyze calls in progress, the innermost last
  held       \* the references the generators hold

cacheVars == <<cache, previous, calls, held>>

Call == [surface: Surfaces, rest: SUBSET Surfaces]

\* A reference: its node (surface, rollovers since it was inserted), and the
\* rollovers since analyze returned it.
Reference == [surface: Surfaces, age: 0..2, since: 0..2]

CacheInit ==
  /\ cache = {}
  /\ previous = {}
  /\ calls = <<>>
  /\ held = {}

Cached(s) == s \in cache \cup previous

\* Where a hit or an insert is found: 0 rollovers ago, or one.
AgeOf(s) == IF s \in cache THEN 0 ELSE 1

Older(n) == IF n < 2 THEN n + 1 ELSE 2

-----------------------------------------------------------------------------

\* Mutant: the roll clears both generations.
PreviousCleared == IF Cardinality(cache) >= MaxCacheEntries THEN {} ELSE previous

\* rollCacheIfFull.
Full == Cardinality(cache) >= MaxCacheEntries
ActiveAfterRoll == IF Full THEN {} ELSE cache
PreviousAfterRoll == IF Full THEN cache ELSE previous

HeldAfterRoll ==
  IF Full THEN {[r EXCEPT !.age = Older(@), !.since = Older(@)] : r \in held} ELSE held

\* A generator analyses a surface one of the generations holds: the reference
\* is to the node where it is found, which is not moved.
AnalyzeHit ==
  /\ calls = <<>>
  /\ Cardinality(held) < MaxHeld
  /\ \E s \in Surfaces :
       /\ Cached(s)
       /\ held' = held \cup {[surface |-> s, age |-> AgeOf(s), since |-> 0]}
  /\ UNCHANGED <<cache, previous, calls>>

\* A generator analyses a new surface.
AnalyzeMiss ==
  /\ calls = <<>>
  /\ Cardinality(held) < MaxHeld
  /\ \E s \in Surfaces :
       /\ ~Cached(s)
       /\ calls' = <<[surface |-> s, rest |-> Remainders[s]]>>
  /\ UNCHANGED <<cache, previous, held>>

\* Mutant: the nested call does not look its surface up.
RecurseUnchecked ==
  /\ calls # <<>>
  /\ \E r \in calls[Len(calls)].rest :
       calls' = Append([calls EXCEPT ![Len(calls)].rest = @ \ {r}],
                       [surface |-> r, rest |-> Remainders[r]])
  /\ UNCHANGED <<cache, previous, held>>

\* The innermost call analyses one of its remainders (the code's order among
\* them is immaterial here).  The result is copied at once, so a hit leaves no
\* reference behind.
Recurse ==
  /\ calls # <<>>
  /\ \E r \in calls[Len(calls)].rest :
       LET outer == [calls EXCEPT ![Len(calls)].rest = @ \ {r}]
       IN calls' = IF Cached(r) THEN outer
                   ELSE Append(outer, [surface |-> r, rest |-> Remainders[r]])
  /\ UNCHANGED <<cache, previous, held>>

\* The innermost call is done: roll if full, insert, return.
Store ==
  /\ calls # <<>>
  /\ LET call == calls[Len(calls)]
     IN /\ call.rest = {}
        /\ cache' = ActiveAfterRoll \cup {call.surface}
        /\ previous' = PreviousAfterRoll
        /\ held' = HeldAfterRoll \cup
                     (IF Len(calls) = 1
                      THEN {[surface |-> call.surface, age |-> 0, since |-> 0]} ELSE {})
  /\ calls' = SubSeq(calls, 1, Len(calls) - 1)

\* A generator is through with a reference.
Release ==
  /\ calls = <<>>
  /\ \E r \in held : held' = held \ {r}
  /\ UNCHANGED <<cache, previous, calls>>

\* rollCache, called where a chunk begins: no reference is held there.
RollCache ==
  /\ calls = <<>>
  /\ held = {}
  /\ cache' = ActiveAfterRoll
  /\ previous' = PreviousAfterRoll
  /\ UNCHANGED <<calls, held>>

CacheNext == AnalyzeHit \/ AnalyzeMiss \/ Recurse \/ Store \/ Release \/ RollCache

\* A call of analyze runs to its end; nothing forces a generator to make one.
CacheSpec == CacheInit /\ [][CacheNext]_cacheVars /\ WF_cacheVars(Recurse) /\ WF_cacheVars(Store)

-----------------------------------------------------------------------------
CacheTypeOK ==
  /\ cache \subseteq Surfaces
  /\ previous \subseteq Surfaces
  /\ calls \in Seq(Call)
  /\ held \subseteq Reference

\* The memory the two generations keep is bounded, although nested calls insert
\* between an outer call's lookup and its own insert, and no surface is kept
\* twice.
GenerationsBounded ==
  /\ Cardinality(cache) <= MaxCacheEntries
  /\ Cardinality(previous) <= MaxCacheEntries
  /\ cache \cap previous = {}

\* What a call is about to insert is in neither generation, whatever its nested
\* calls inserted or rolled meanwhile: the emplace at its end cannot fail and
\* hand out an older node.
PendingNotCached ==
  \A i \in DOMAIN calls :
    /\ ~Cached(calls[i].surface)
    /\ \A j \in DOMAIN calls : i < j => Size[calls[j].surface] < Size[calls[i].surface]

\* The node a reference names still exists.
Alive(r) == \/ r.age = 0 /\ r.surface \in cache
            \/ r.age = 1 /\ r.surface \in previous

\* A node outlives the first rollover after it was inserted; so does every
\* reference to it that analyze returned before that rollover.
NodesSurviveOneRollover == \A r \in held : r.age <= 1 => Alive(r)

\* Header, inflection.h:57-60: the reference survives later inserts and one
\* cache-generation rollover, its generation being discarded by a second
\* subsequent rollover only.
ReferencesSurviveOneRollover == \A r \in held : r.since <= 1 => Alive(r)

=============================================================================
