----------------------------- MODULE LatticePaths -----------------------------
(***************************************************************************)
(* The reference the decoder is compared with: the paths of the lattice,   *)
(* what each costs under the scorer, and what a result should be.          *)
(***************************************************************************)
EXTENDS Viterbi, SequencesExt

\* All paths from the start of the text to p.  Every edge leads forward, so
\* none has more edges than the text has codepoints.
PathsTo(p) == {q \in SeqOf(DOMAIN allEdges, TextLength) : Tiles(q, 0, p)}

AllPaths == PathsTo(TextLength)

\* The cost of a path, edge by edge.
PathCost(q) ==
  LET cost[n \in 0..Len(q)] ==
        IF n = 0 THEN 0
        ELSE cost[n - 1] + StepCost(IF n = 1 THEN BosEdgeId ELSE q[n - 1], q[n])
  IN cost[Len(q)]

\* What the scorer can distinguish among the arrivals at (position, key).
Identities(p, x) ==
  {<<allEdges[i].start, allEdges[i].sig>> :
     i \in {j \in DOMAIN allEdges : allEdges[j].end = p /\ allEdges[j].epos = x}}

BeamSuffices == \A p \in Pos, x \in ExtendedPOS : Cardinality(Identities(p, x)) <= K

-----------------------------------------------------------------------------
\* While no key sees more than K distinguishable arrivals the result is a
\* cheapest path of the whole lattice, although each edge joins its end with a
\* single predecessor and twins are merged.
OptimalWithinBeam ==
  phase = "done" /\ path # <<>> /\ BeamSuffices =>
    \A q \in AllPaths : totalCost <= PathCost(q)

\* A result is empty exactly when no path spans the text; any other covers it
\* end to end, and the reported cost is the cost of the reported path, although
\* the one is accumulated forwards and the other rebuilt backwards from
\* pointers.
ResultIsAPath ==
  phase = "done" =>
    IF AllPaths = {} THEN path = <<>>
    ELSE path # <<>> /\ Tiles(path, 0, TextLength) /\ totalCost = PathCost(path)
=============================================================================
