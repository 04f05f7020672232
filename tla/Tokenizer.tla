------------------------------ MODULE Tokenizer ------------------------------
(***************************************************************************)
(* analysis::Tokenizer::buildLattice (src/src/analysis/tokenizer.cpp): the *)
(* candidate generators visited position by position, the single-character *)
(* fallback for positions that got no edge, and the pass that takes the    *)
(* bonus off shape-derived candidates inside a user-dictionary span.       *)
(*                                                                         *)
(* The generators are linguistic rules over the text and the dictionaries. *)
(* What the passes after them rely on is only which edges they may add, so *)
(* a generator here adds any candidate of its group, or none, and at most  *)
(* MaxCandidates of them while a position is visited.  Several generators  *)
(* add edges that start after the visited position, so a candidate's start *)
(* is any position from it on; a join generator may also reach back to an  *)
(* earlier host.                                                           *)
(***************************************************************************)
EXTENDS Lattice, FiniteSetsExt

CONSTANTS
  Candidates,      \* what the generators that run in every mode may add
  JoinCandidates,  \* what the generators that Split mode skips may add
  MaxCandidates,   \* bound on the edges added while one position is visited
  DictSig,         \* identities that carry EdgeFlags::FromDictionary
  ShapeSig,        \* identities whose origin isShapeDerivedOrigin accepts
  CategoryCost,    \* getCategoryCost
  FallbackPOS,     \* posToExtendedPos(PartOfSpeech::Other), the fallback edge's key
  FallbackSig,     \* identity of the fallback edge
  FallbackCost,    \* kFallbackCandidateCost
  Modes            \* core::AnalysisMode values analysed

ASSUME TokenizerAssumption ==
  /\ Candidates \subseteq Edge
  /\ JoinCandidates \subseteq Edge
  /\ DictSig \subseteq Sig
  /\ ShapeSig \subseteq Sig
  /\ CategoryCost \in [ExtendedPOS -> Int]
  /\ FallbackPOS \in ExtendedPOS
  /\ FallbackSig \in Sig
  /\ FallbackCost \in Int
  /\ MaxCandidates \in Nat
  /\ Modes \subseteq {"normal", "search", "split"}

VARIABLES
  mode,       \* mode_
  stage,      \* which loop of buildLattice runs
  genPos,     \* position of that loop
  added       \* candidates added while genPos is visited

genVars == <<mode, stage, genPos, added>>

TokenizerInit ==
  /\ mode \in Modes
  /\ stage = "generate"
  /\ genPos = 0
  /\ added = 0

Offered == Candidates \cup (IF mode = "split" THEN {} ELSE JoinCandidates)

\* One addEdge call of some generator at the visited position.
GenerateCandidate ==
  /\ stage = "generate"
  /\ genPos < TextLength
  /\ added < MaxCandidates
  /\ \E c \in Offered :
       /\ c.start >= genPos \/ c \in JoinCandidates
       /\ AddEdge(c)
  /\ added' = added + 1
  /\ UNCHANGED <<mode, stage, genPos>>

\* The generators are through with this position.
NextGeneratePosition ==
  /\ stage = "generate"
  /\ genPos < TextLength
  /\ genPos' = genPos + 1
  /\ added' = 0
  /\ UNCHANGED <<mode, stage, latticeVars>>

\* Mutant: a fallback edge one character too long.
FallbackEdgeLong(p) ==
  [start |-> p, end |-> p + 2, epos |-> FallbackPOS, sig |-> FallbackSig,
   cost |-> FallbackCost, user |-> FALSE, custom |-> FALSE]

FallbackEdge(p) ==
  [start |-> p, end |-> p + 1, epos |-> FallbackPOS, sig |-> FallbackSig,
   cost |-> FallbackCost, user |-> FALSE, custom |-> FALSE]

\* Mutant: the fallback loop starts at the second position.
BeginFallbackLate ==
  /\ stage = "generate"
  /\ genPos = TextLength
  /\ stage' = "fallback"
  /\ genPos' = 1
  /\ UNCHANGED <<mode, added, latticeVars>>

BeginFallback ==
  /\ stage = "generate"
  /\ genPos = TextLength
  /\ stage' = "fallback"
  /\ genPos' = 0
  /\ UNCHANGED <<mode, added, latticeVars>>

\* One iteration of the fallback loop: a position no generator started an edge
\* from gets a single-character edge.
Fallback ==
  /\ stage = "fallback"
  /\ genPos < TextLength
  /\ IF byStart[genPos] = <<>> THEN AddEdge(FallbackEdge(genPos)) ELSE UNCHANGED latticeVars
  /\ genPos' = genPos + 1
  /\ UNCHANGED <<mode, stage, added>>

\* Mutant: without the running maximum, a span is seen at its own start only.
FurthestEndAtStart(p) ==
  Max({0} \cup {allEdges[i].end : i \in {j \in DOMAIN allEdges :
                                           allEdges[j].user /\ allEdges[j].start = p}})

\* The prefix maximum of furthest_end_at_start: how far a user-dictionary span
\* that starts at or before p reaches, 0 without one.
FurthestCoveringEnd(p) ==
  Max({0} \cup {allEdges[i].end : i \in {j \in DOMAIN allEdges :
                                           allEdges[j].user /\ allEdges[j].start <= p}})

HasUserSpan == \E i \in DOMAIN allEdges : allEdges[i].user

\* Mutant: containment in the user span is not asked for.
ClampedAnywhere(e) ==
  /\ HasUserSpan
  /\ e.sig \in ShapeSig \ DictSig
  /\ e.cost < CategoryCost[e.epos]

\* The edges whose bonus is dropped.
Clamped(e) ==
  /\ HasUserSpan
  /\ e.sig \in ShapeSig \ DictSig
  /\ FurthestCoveringEnd(e.start) >= e.end
  /\ e.cost < CategoryCost[e.epos]

\* clampHeuristicBonusesInUserDictSpans: setEdgeCost on each of them.
ClampBonuses ==
  /\ stage = "fallback"
  /\ genPos = TextLength
  /\ allEdges' = [i \in DOMAIN allEdges |->
       IF Clamped(allEdges[i])
       THEN [allEdges[i] EXCEPT !.cost = CategoryCost[allEdges[i].epos], !.custom = TRUE]
       ELSE allEdges[i]]
  /\ stage' = "built"
  /\ UNCHANGED <<mode, genPos, added, byStart, byEnd>>

BuildNext ==
  \/ GenerateCandidate
  \/ NextGeneratePosition
  \/ BeginFallback
  \/ Fallback
  \/ ClampBonuses

-----------------------------------------------------------------------------
TokenizerTypeOK ==
  /\ mode \in {"normal", "search", "split"}
  /\ stage \in {"generate", "fallback", "built"}
  /\ genPos \in Pos
  /\ added \in 0..MaxCandidates

\* Once built, every position has an edge that starts there, unless the id
\* space ran out: the promise of the fallback loop, on which the existence of a
\* path rests.  A generator or the clamp could break it for a position the loop
\* has passed.
EveryPositionHasEdge ==
  stage = "built" /\ Len(allEdges) < MaxEdges =>
    \A p \in 0..(TextLength - 1) : byStart[p] # <<>>

\* A registered user word is not undercut by the shape bonus of a candidate
\* lying inside it: within the span of every user-dictionary edge no
\* shape-derived candidate costs less than its category.  The code decides
\* containment by a prefix maximum over span ends; this states it span by span.
NoShapeBonusInsideUserSpan ==
  stage = "built" =>
    \A i, j \in DOMAIN allEdges :
      LET u == allEdges[i] e == allEdges[j]
      IN u.user /\ u.start <= e.start /\ e.end <= u.end /\ e.sig \in ShapeSig \ DictSig
           => e.cost >= CategoryCost[e.epos]

\* The clamp never raises the price of anything else: an edge outside every
\* user span, or attested by a dictionary, leaves buildLattice with the cost
\* its generator gave it, and no edge becomes cheaper.
ClampOnlyDropsShapeBonus ==
  [][\A i \in DOMAIN allEdges :
       \/ allEdges'[i] = allEdges[i]
       \/ /\ allEdges'[i].cost > allEdges[i].cost
          /\ allEdges[i].sig \in ShapeSig \ DictSig
          /\ \E k \in DOMAIN allEdges :
               /\ allEdges[k].user
               /\ allEdges[k].start <= allEdges[i].start
               /\ allEdges[i].end <= allEdges[k].end]_allEdges
=============================================================================
