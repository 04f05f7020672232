-------------------------- MODULE ViterbiOptimality --------------------------
(***************************************************************************)
(* The decoder on lattices that are given whole, as the sequences of edges *)
(* addEdge was called with, so that its results can be compared with the   *)
(* reference of LatticePaths.                                              *)
(***************************************************************************)
EXTENDS LatticePaths

CONSTANT Lattices   \* the sequences of edges solved

IdsAt(edges, P(_)) == SelectSeq([i \in DOMAIN edges |-> i], P)

\* The lattice after the addEdge calls of one member of Lattices, and a solve
\* about to start.
OptInit ==
  /\ allEdges \in Lattices
  /\ byStart = [p \in Pos |-> LET At(i) == allEdges[i].start = p IN IdsAt(allEdges, At)]
  /\ byEnd = [p \in Pos |-> LET At(i) == allEdges[i].end = p IN IdsAt(allEdges, At)]
  /\ SolveInit

OptVars == <<latticeVars, solveVars>>

OptSpec == OptInit /\ [][SolveNext]_OptVars /\ WF_OptVars(SolveNext)
=============================================================================
