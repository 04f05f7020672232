------------------------------- MODULE Lattice -------------------------------
(***************************************************************************)
(* core::Lattice: the append-only graph of morpheme candidates that one    *)
(* chunk of text is decoded over (src/src/core/lattice.{h,cpp}).           *)
(*                                                                         *)
(* An edge keeps what the later passes branch on: its span, its ExtendedPOS*)
(* key, its cost, and the user-dictionary and custom-cost flags.           *)
(* Everything else a scoring rule can tell two edges apart by (surface,    *)
(* lemma, part of speech, origin, conjugation type, the dictionary, formal *)
(* noun and lemma-verified flags) is one value of Sig.  The key is the one *)
(* addEdge settles on, which may detect it from the other fields.  Edge    *)
(* ids are the positions of allEdges, from 1: the code counts them from 0. *)
(***************************************************************************)
EXTENDS Integers, Sequences, FiniteSets

CONSTANTS
  TextLength,   \* number of codepoints of the chunk
  MaxEdges,     \* kMaxEdges: ids are uint32_t
  ExtendedPOS,  \* the ExtendedPOS values
  UnknownPOS,   \* ExtendedPOS::Unknown
  Sig           \* what scoring sees of an edge besides its span and key

ASSUME LatticeAssumption ==
  /\ TextLength \in Nat \ {0}
  /\ MaxEdges \in Nat
  /\ UnknownPOS \in ExtendedPOS

VARIABLES
  allEdges,     \* all_edges_
  byStart,      \* edge_indices_by_start_
  byEnd         \* edge_indices_by_end_

latticeVars == <<allEdges, byStart, byEnd>>

Pos == 0..TextLength

Edge == [start: Pos, end: Pos, epos: ExtendedPOS, sig: Sig, cost: Int,
         user: BOOLEAN, custom: BOOLEAN]

\* A freshly constructed Lattice(text_length): no edge, one empty index per
\* position.
LatticeInit ==
  /\ allEdges = <<>>
  /\ byStart = [p \in Pos |-> <<>>]
  /\ byEnd = [p \in Pos |-> <<>>]

\* addEdge's early return: the span must be non-empty and inside the text and
\* an id must be left.  (The enum checks beside it cannot fail for a member of
\* ExtendedPOS.)
AcceptsEdge(e) == e.start < e.end /\ e.end <= TextLength /\ Len(allEdges) < MaxEdges

\* addEdge: store the edge and enter its id in both position indices; a
\* rejected edge changes nothing.
AddEdge(e) ==
  IF AcceptsEdge(e)
  THEN LET id == Len(allEdges) + 1
       IN /\ allEdges' = Append(allEdges, e)
          /\ byStart' = [byStart EXCEPT ![e.start] = Append(@, id)]
          /\ byEnd' = [byEnd EXCEPT ![e.end] = Append(@, id)]
  ELSE UNCHANGED latticeVars

-----------------------------------------------------------------------------
LatticeTypeOK ==
  /\ allEdges \in Seq(Edge)
  /\ byStart \in [Pos -> Seq(Nat \ {0})]
  /\ byEnd \in [Pos -> Seq(Nat \ {0})]

\* Both indices hold exactly the ids whose edge starts (ends) there, and every
\* edge has a non-empty span inside the text: what edgeIdsAt,
\* edgeIdsEndingAt and every loop over them take for granted.
IndexInv ==
  /\ \A id \in DOMAIN allEdges :
       /\ allEdges[id].start < allEdges[id].end
       /\ \E k \in DOMAIN byStart[allEdges[id].start] : byStart[allEdges[id].start][k] = id
       /\ \E k \in DOMAIN byEnd[allEdges[id].end] : byEnd[allEdges[id].end][k] = id
  /\ \A p \in Pos : \A k \in DOMAIN byStart[p] :
       byStart[p][k] \in DOMAIN allEdges /\ allEdges[byStart[p][k]].start = p
  /\ \A p \in Pos : \A k \in DOMAIN byEnd[p] :
       byEnd[p][k] \in DOMAIN allEdges /\ allEdges[byEnd[p][k]].end = p
=============================================================================
