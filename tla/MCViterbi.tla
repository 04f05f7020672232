------------------------------ MODULE MCViterbi ------------------------------
(* TLC instance of ViterbiOptimality: three codepoints, a beam of two. *)
EXTENDS ViterbiOptimality

CONSTANTS A, B, s, t, u

E(from, to, x, g, c) ==
  [start |-> from, end |-> to, epos |-> x, sig |-> g, cost |-> c,
   user |-> FALSE, custom |-> FALSE]

\* Three readings of the first codepoint, two spans into the second one that
\* differ in their start only, and a tail; or the same with no tail; or edges
\* that lead past a position no path reaches.
MCLattices ==
  LET Heads == {<<E(0, 1, x1, s, c1), E(0, 1, x2, g2, 2), E(0, 1, B, g3, 1)>> :
                  x1, x2 \in {A, B}, g2 \in {s, t}, g3 \in {t, u}, c1 \in {1, 2}}
      Middles == {<<E(0, 2, A, g1, c1), E(1, 2, x2, g2, 0)>> :
                    x2 \in {A, B}, g1, g2 \in {s, t}, c1 \in {0, 3}}
      Tails == {<<>>, <<E(2, 3, A, s, 0)>>, <<E(1, 3, B, t, 4), E(2, 3, A, u, 0)>>}
      Gaps == {<<E(0, 2, A, g1, 1), E(1, 3, B, t, 0), E(2, 3, x, g2, 2)>> :
                 x \in {A, B}, g1, g2 \in {s, t}}
  IN {h \o m \o e : h \in Heads, m \in Middles, e \in Tails} \cup Gaps

\* No rule, or one that rewards one predecessor (by start and identity) before
\* one follower, with or without sentence-boundary costs.
Scorer(triple, boundary) ==
  [bos |-> [g \in Sig |-> IF boundary /\ g = t THEN 3 ELSE 0],
   eos |-> [ge \in Sig \X ExtendedPOS |-> IF boundary /\ ge = <<u, A>> THEN 3 ELSE 0],
   conn |-> [x \in Pos \X Sig \X Sig |-> IF x = triple THEN -5 ELSE 0]]

MCScorers ==
  {Scorer(<<0, t, s>>, FALSE), Scorer(<<0, u, s>>, TRUE), Scorer(<<1, t, u>>, FALSE),
   Scorer(<<1, s, s>>, TRUE)}
=============================================================================
