------------------------- MODULE MCBinaryDictionary -------------------------
(* TLC instance of BinaryDictionary: bytes below 4, every table over a few *)
(* surfaces that share prefixes, and tables no trie takes. *)
EXTENDS BinaryDictionary, Bitwise

XorTable == [a \in 0..63, b \in 0..3 |-> a ^^ b]

MCXor(a, b) == XorTable[a, b]

Surfaces == <<<<1>>, <<1, 2>>, <<1, 2, 3>>, <<1, 3>>, <<2, 2>>, <<2, 3>>, <<3, 1>>, <<3, 3>>>>

Sorted(S) == LET In(s) == s \in S IN SelectSeq(Surfaces, In)

Sizes == {1, 2, Len(Surfaces) - 1, Len(Surfaces)}

MCTables ==
  {Sorted(S) : S \in {T \in SUBSET ToSet(Surfaces) : Cardinality(T) \in Sizes}}
    \cup {<<<<1>>, <<1>>, <<3, 1>>, <<3, 3>>, <<3, 3>>>>,       \* homographs
          [i \in 1..13 |-> IF i < 13 THEN <<1>> ELSE <<2>>],   \* the largest index
          [i \in 1..14 |-> IF i < 14 THEN <<1>> ELSE <<2>>],   \* one too large
          <<<<2>>, <<1>>>>, <<<<1>>, <<2>>, <<1>>>>, <<<<1, 0>>>>}

MCQueries ==
  UNION {[1..n -> 1..3] : n \in 0..2}
    \cup {<<0>>, <<1, 0>>, <<1, 2, 3>>, <<1, 2, 2>>, <<1, 2, 3, 1>>, <<3, 1, 2>>}
=============================================================================
