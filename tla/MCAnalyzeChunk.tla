--------------------------- MODULE MCAnalyzeChunk ---------------------------
(* TLC instance of AnalyzeChunk: three codepoints, generators that may leave *)
(* any position bare, a user word over two codepoints. *)
EXTENDS AnalyzeChunk

CONSTANTS A, B, word, shape, other

E(from, to, x, g, c, usr) ==
  [start |-> from, end |-> to, epos |-> x, sig |-> g, cost |-> c,
   user |-> usr, custom |-> FALSE]

MCCandidates ==
  {E(0, 2, B, word, 1, TRUE),      \* the user word
   E(1, 2, A, shape, -4, FALSE),   \* a shape-derived run inside it
   E(1, 3, B, shape, -4, FALSE),   \* one that reaches past it
   E(0, 1, A, other, 0, FALSE)}
MCJoinCandidates == {E(0, 3, B, other, 6, FALSE)}

MCCategoryCost == [x \in ExtendedPOS |-> 2]

MCScorers ==
  {[bos |-> [g \in Sig |-> IF g = word THEN 3 ELSE 0],
    eos |-> [ge \in Sig \X ExtendedPOS |-> IF ge[1] = shape THEN 1 ELSE 0],
    conn |-> [x \in Pos \X Sig \X Sig |-> IF x = <<0, other, shape>> THEN -3 ELSE 0]]}
=============================================================================
