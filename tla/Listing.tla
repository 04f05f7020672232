------------------------------- MODULE Listing -------------------------------
(***************************************************************************)
(* Lists the members of a finite set in an order, and picks members of a   *)
(* sequence by their positions: what a loop that visits a set in order, or *)
(* skips some members of a vector, leaves behind.                          *)
(***************************************************************************)
EXTENDS Integers, Sequences, FiniteSets

\* The members of S, each after all that stand before it; before is a set of
\* pairs that orders S.
Listed(S, before) ==
  [n \in 1..Cardinality(S) |->
     CHOOSE x \in S : Cardinality({y \in S : <<y, x>> \in before}) = n - 1]

\* The numbers in S, the least first.
Ascending(S) == Listed(S, {p \in S \X S : p[1] < p[2]})

\* The members of s at some of its positions, in their order.
Pick(s, positions) ==
  LET at == Ascending(positions) IN [n \in DOMAIN at |-> s[at[n]]]
=============================================================================
