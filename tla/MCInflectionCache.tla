-------------------------- MODULE MCInflectionCache --------------------------
(* TLC instance of InflectionCache: generations of two entries, and a surface *)
(* that analyses two shorter ones, one of which analyses a third. *)
EXTENDS InflectionCache

CONSTANTS verb, verbNoda, verbNodamono, noun, name

MCSurfaces == {verb, verbNoda, verbNodamono, noun, name}

MCSize == [s \in Surfaces |-> CASE s = verbNodamono -> 3 [] s = verbNoda -> 2 [] OTHER -> 1]

MCRemainders ==
  [s \in Surfaces |-> CASE s = verbNodamono -> {verbNoda, verb}
                        [] s = verbNoda -> {verb}
                        [] OTHER -> {}]
=============================================================================
