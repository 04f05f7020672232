------------------------------- MODULE Viterbi -------------------------------
(***************************************************************************)
(* core::Viterbi::solve (src/src/core/viterbi.h): the forward pass over    *)
(* states keyed by (position, ExtendedPOS), each key keeping the K         *)
(* cheapest paths with distinct scoring identities, the choice of the      *)
(* final state, and the backtrack through (key, slot) pointers.            *)
(*                                                                         *)
(* One step relaxes one edge, so the properties see every intermediate     *)
(* table.  Costs are integers; TransitionCost is the 0.001 tie-break in    *)
(* the same unit.  A cost never reaches FLT_MAX, the code's "no path"      *)
(* sentinel: an absent entry stands for it.  The scorer is a template      *)
(* parameter of solve, drawn from Scorers when the pass starts.  Its word  *)
(* cost is the edge's own; its other costs read an edge through its start  *)
(* and sig (make sig tell apart whatever a rule tells apart), and the EOS  *)
(* cost reads the predecessor's key.                                       *)
(***************************************************************************)
EXTENDS Lattice

CONSTANTS
  K,               \* kStatesPerKey
  TransitionCost,  \* kTransitionCost
  Scorers          \* the scorers considered

ASSUME ViterbiAssumption ==
  /\ K \in Nat \ {0}
  /\ TransitionCost \in Int
  /\ \A s \in Scorers :
       /\ s.bos \in [Sig -> Int]
       /\ s.eos \in [Sig \X ExtendedPOS -> Int]
       /\ s.conn \in [Pos \X Sig \X Sig -> Int]

VARIABLES
  scorer,       \* the Scorer argument
  phase,        \* which loop of solve runs
  keys,         \* states_by_pos[p].keys: the ExtendedPOS keys in creation order
  slots,        \* states_by_pos[p].keys[..].slots.entries[0 .. count)
  pos,          \* position of the forward pass
  cursor,       \* how many of edgeIdsAt(pos) have been relaxed
  back,         \* backtrack cursor: position, key and slot
  path,         \* result.path, already in reading order
  totalCost     \* result.total_cost

solveVars == <<scorer, phase, keys, slots, pos, cursor, back, path, totalCost>>

BosEdgeId == 0   \* kBosEdgeId, no real edge's id

StateEntry == [cost: Int, edge: Nat, prevEpos: ExtendedPOS, prevSlot: Nat]

-----------------------------------------------------------------------------
(* StateSlots *)

\* Mutant: identities compared without what the rules read besides the start.
SameIdentityAnySig(a, b) ==
  a = b \/ (a # BosEdgeId /\ b # BosEdgeId /\ allEdges[a].start = allEdges[b].start)

\* The fields of hasSameScoringIdentity; the end and the ExtendedPOS are the
\* key's own.
SameIdentity(a, b) ==
  \/ a = b
  \/ /\ a # BosEdgeId /\ b # BosEdgeId
     /\ allEdges[a].start = allEdges[b].start
     /\ allEdges[a].sig = allEdges[b].sig

\* entries[0 .. count) without the i-th.
Without(s, i) == [j \in 1..(Len(s) - 1) |-> IF j < i THEN s[j] ELSE s[j + 1]]

\* Mutant: the new entry goes behind all others.
InsertLast(s, e) == Append(s, e)

\* Shift the dearer entries up one slot and put e behind the last entry that
\* is not dearer: in an ascending s, the n-th.
InsertSorted(s, e) ==
  LET n == CHOOSE n \in 0..Len(s) : \A j \in DOMAIN s : s[j].cost <= e.cost <=> j <= n
  IN [j \in 1..(Len(s) + 1) |->
        IF j <= n THEN s[j] ELSE IF j = n + 1 THEN e ELSE s[j - 1]]

\* StateSlots::insert.  A candidate indistinguishable from an entry replaces it
\* only if cheaper; another one joins the key, and a full key drops its dearest.
Insert(s, e) ==
  LET twins == {i \in DOMAIN s : SameIdentity(s[i].edge, e.edge)}
  IN IF twins # {}
     THEN LET i == CHOOSE i \in twins : \A j \in twins : i <= j
          IN IF e.cost >= s[i].cost THEN s ELSE InsertSorted(Without(s, i), e)
     ELSE IF Len(s) < K
     THEN InsertSorted(s, e)
     ELSE IF e.cost >= s[K].cost THEN s ELSE InsertSorted(Without(s, K), e)

-----------------------------------------------------------------------------
(* The forward pass *)

\* The retained states at p in the order the loops visit them, as pairs of a
\* key's rank and a slot.
Arrivals(p) ==
  UNION {{<<k, s>> : s \in DOMAIN slots[p][keys[p][k]]} : k \in DOMAIN keys[p]}

EntryAt(p, a) == slots[p][keys[p][a[1]]][a[2]]

VisitedNoLater(a, b) == a[1] < b[1] \/ (a[1] = b[1] /\ a[2] <= b[2])

ClosesSentence(e) == e.end = TextLength

\* What extending a path by edge id costs.  It depends on the path only through
\* the edge prev the path arrived with.
StepCost(prev, id) ==
  LET e == allEdges[id]
  IN e.cost + TransitionCost
     + (IF prev = BosEdgeId THEN scorer.bos[e.sig]
        ELSE scorer.conn[<<allEdges[prev].start, allEdges[prev].sig, e.sig>>])
     + (IF ClosesSentence(e)
        THEN scorer.eos[<<e.sig, IF prev = BosEdgeId THEN UnknownPOS ELSE allEdges[prev].epos>>]
        ELSE 0)

Total(p, a, id) == EntryAt(p, a).cost + StepCost(EntryAt(p, a).edge, id)

\* The predecessor the strict "total < best_total" scan keeps: a cheapest one,
\* and the first visited among those.
IsBestPredecessor(p, id, a) ==
  /\ a \in Arrivals(p)
  /\ \A b \in Arrivals(p) :
       \/ Total(p, a, id) < Total(p, b, id)
       \/ Total(p, a, id) = Total(p, b, id) /\ VisitedNoLater(a, b)

SolveInit ==
  /\ scorer \in Scorers
  /\ phase = "forward"
  /\ keys = [p \in Pos |-> IF p = 0 THEN <<UnknownPOS>> ELSE <<>>]
  /\ slots = [p \in Pos |-> [x \in ExtendedPOS |->
                IF p = 0 /\ x = UnknownPOS
                THEN <<[cost |-> 0, edge |-> BosEdgeId, prevEpos |-> UnknownPOS, prevSlot |-> 1]>>
                ELSE <<>>]]
  /\ pos = 0
  /\ cursor = 0
  /\ back = [pos |-> 0, epos |-> UnknownPOS, slot |-> 1]
  /\ path = <<>>
  /\ totalCost = 0

\* Mutant: the slot is lost, the key alone is pointed at.
ExtensionOfKey(p, a, id) ==
  [cost |-> Total(p, a, id), edge |-> id, prevEpos |-> keys[p][a[1]], prevSlot |-> 1]

\* The path that arrives at a, extended by edge id.
Extension(p, a, id) ==
  [cost |-> Total(p, a, id), edge |-> id, prevEpos |-> keys[p][a[1]], prevSlot |-> a[2]]

\* PositionStates::getOrCreate creates a key on first use; the entry competes there.
Join(p, x, entry) ==
  /\ slots' = [slots EXCEPT ![p][x] = Insert(@, entry)]
  /\ keys' = [keys EXCEPT ![p] = IF \E k \in DOMAIN @ : @[k] = x THEN @ ELSE Append(@, x)]

\* One iteration of the loop over edgeIdsAt(pos): the edge joins its end
\* position under its own key, with its cheapest predecessor only.
RelaxEdge ==
  /\ phase = "forward"
  /\ pos < TextLength
  /\ keys[pos] # <<>>
  /\ cursor < Len(byStart[pos])
  /\ LET id == byStart[pos][cursor + 1]
         e == allEdges[id]
     IN \E a \in Arrivals(pos) :
          /\ IsBestPredecessor(pos, id, a)
          /\ Join(e.end, e.epos, Extension(pos, a, id))
  /\ cursor' = cursor + 1
  /\ UNCHANGED <<scorer, phase, pos, back, path, totalCost, latticeVars>>

\* Every edge here is relaxed, or no path reaches this position.
NextPosition ==
  /\ phase = "forward"
  /\ pos < TextLength
  /\ keys[pos] = <<>> \/ cursor = Len(byStart[pos])
  /\ pos' = pos + 1
  /\ cursor' = 0
  /\ UNCHANGED <<scorer, phase, keys, slots, back, path, totalCost, latticeVars>>

-----------------------------------------------------------------------------
(* The result *)

IsBestFinal(a) ==
  /\ a \in Arrivals(TextLength)
  /\ \A b \in Arrivals(TextLength) :
       \/ EntryAt(TextLength, a).cost < EntryAt(TextLength, b).cost
       \/ EntryAt(TextLength, a).cost = EntryAt(TextLength, b).cost /\ VisitedNoLater(a, b)

\* The scan of the final position: the cheapest state starts the backtrack.
PickFinal ==
  /\ phase = "forward"
  /\ pos = TextLength
  /\ \E a \in Arrivals(TextLength) :
       /\ IsBestFinal(a)
       /\ back' = [pos |-> TextLength, epos |-> keys[TextLength][a[1]], slot |-> a[2]]
       /\ totalCost' = EntryAt(TextLength, a).cost
  /\ phase' = "backtrack"
  /\ UNCHANGED <<scorer, keys, slots, pos, cursor, path, latticeVars>>

\* No state at the final position: the result is the empty path.
NoPath ==
  /\ phase = "forward"
  /\ pos = TextLength
  /\ keys[TextLength] = <<>>
  /\ phase' = "done"
  /\ UNCHANGED <<scorer, keys, slots, pos, cursor, back, path, totalCost, latticeVars>>

\* The two breaks of the backtrack loop: a pointer that names no slot, or BOS.
BackSlots == slots[back.pos][back.epos]
BacktrackBreaks == back.slot > Len(BackSlots) \/ BackSlots[back.slot].edge = BosEdgeId

\* Mutant: takes the cheapest predecessor of the key.
CheapestPredecessor(entry) ==
  [pos |-> allEdges[entry.edge].start, epos |-> entry.prevEpos, slot |-> 1]

\* Where an entry's back-pointer leads.
Predecessor(entry) ==
  [pos |-> allEdges[entry.edge].start, epos |-> entry.prevEpos, slot |-> entry.prevSlot]

\* One iteration of the backtrack loop.
BacktrackStep ==
  /\ phase = "backtrack"
  /\ IF back.pos = 0 \/ BacktrackBreaks
     THEN /\ phase' = "done"
          /\ UNCHANGED <<back, path>>
     ELSE LET entry == BackSlots[back.slot]
          IN /\ path' = <<entry.edge>> \o path
             /\ back' = Predecessor(entry)
             /\ UNCHANGED phase
  /\ UNCHANGED <<scorer, keys, slots, pos, cursor, totalCost, latticeVars>>

SolveNext == RelaxEdge \/ NextPosition \/ PickFinal \/ NoPath \/ BacktrackStep

-----------------------------------------------------------------------------
(* Properties *)

SolveTypeOK ==
  /\ scorer \in Scorers
  /\ phase \in {"forward", "backtrack", "done"}
  /\ keys \in [Pos -> Seq(ExtendedPOS)]
  /\ slots \in [Pos -> [ExtendedPOS -> Seq(StateEntry)]]
  /\ pos \in Pos
  /\ cursor \in Nat
  /\ back \in [pos: Pos, epos: ExtendedPOS, slot: Nat]
  /\ path \in Seq(Nat)
  /\ totalCost \in Int

\* Each key holds at most K entries, in ascending cost, no two of which the
\* scorer can tell apart: the invariant StateSlots::insert documents.
Ranked(s) ==
  /\ Len(s) <= K
  /\ \A i, j \in DOMAIN s : i < j =>
       s[i].cost <= s[j].cost /\ ~SameIdentity(s[i].edge, s[j].edge)

SlotsOrderedAndDistinct == \A p \in Pos, x \in ExtendedPOS : Ranked(slots[p][x])

\* The pointer an entry stores names a slot that exists at the position its
\* edge starts from, and the entry's cost is that slot's present cost plus one
\* step.  Slots shift while a key fills, so this is what makes the pointers
\* (and the reported total) right: no slot shifts once it is pointed at.
PointsBack(p, x, entry) ==
  IF entry.edge = BosEdgeId
  THEN p = 0
  ELSE LET e == allEdges[entry.edge]
           prev == slots[e.start][entry.prevEpos]
       IN /\ entry.edge \in DOMAIN allEdges
          /\ e.end = p
          /\ e.epos = x
          /\ entry.prevSlot \in DOMAIN prev
          /\ entry.cost = prev[entry.prevSlot].cost + StepCost(prev[entry.prevSlot].edge, entry.edge)

BackpointersExact ==
  \A p \in Pos, x \in ExtendedPOS : \A i \in DOMAIN slots[p][x] :
    PointsBack(p, x, slots[p][x][i])

\* What a finished position holds never changes again.
SettledPositionsFrozen ==
  [][\A p \in Pos : p <= pos => slots'[p] = slots[p]]_<<slots, pos>>

\* Whether the edges of p lie end to end from position from to position to.
Tiles(p, from, to) ==
  /\ \A i \in DOMAIN p : p[i] \in DOMAIN allEdges
  /\ p # <<>> => allEdges[p[1]].start = from /\ allEdges[p[Len(p)]].end = to
  /\ p = <<>> => from = to
  /\ \A i \in 1..(Len(p) - 1) : allEdges[p[i]].end = allEdges[p[i + 1]].start

=============================================================================
