---------------------------- MODULE AnalyzeChunk ----------------------------
(***************************************************************************)
(* Analyzer::analyzeChunk (src/src/analysis/analyzer.cpp): the tokenizer   *)
(* builds the lattice of a chunk, Viterbi solves it, and the path becomes  *)
(* the chunk's morphemes.                                                  *)
(***************************************************************************)
EXTENDS Tokenizer, Viterbi

vars == <<latticeVars, genVars, solveVars>>

Init == LatticeInit /\ TokenizerInit /\ SolveInit

Build == stage # "built" /\ BuildNext /\ UNCHANGED solveVars

Solve == stage = "built" /\ SolveNext /\ UNCHANGED genVars

Next == Build \/ Solve

\* analyzeChunk is one synchronous call: it runs to its end once started.
Spec == Init /\ [][Next]_vars /\ WF_vars(Next)

-----------------------------------------------------------------------------
TypeOK == LatticeTypeOK /\ TokenizerTypeOK /\ SolveTypeOK

\* Every chunk yields a path, and the path covers its text exactly: no
\* codepoint is dropped and none is analysed twice, whichever candidates the
\* generators produced and however the scorer prices them.  Edges that addEdge
\* drops for want of an id never cost a part of the text: the chunk is lost as a
\* whole, and only if the fallback edge of some position was among them.
ChunkFullyAnalyzed ==
  phase = "done" =>
    IF path = <<>>
      THEN Len(allEdges) >= MaxEdges /\ \E p \in 0..(TextLength - 1) : byStart[p] = <<>>
      ELSE Tiles(path, 0, TextLength)

=============================================================================
