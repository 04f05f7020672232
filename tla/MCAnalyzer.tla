----------------------------- MODULE MCAnalyzer -----------------------------
(* TLC instance of Analyzer: every text of at most MaxChars characters, each *)
(* plain, a digit or a boundary, of one byte or of three. *)
EXTENDS Analyzer

CONSTANT MaxChars

Kinds == {[width |-> 1, boundary |-> FALSE, digit |-> TRUE],
          [width |-> 1, boundary |-> TRUE, digit |-> FALSE],
          [width |-> 3, boundary |-> FALSE, digit |-> FALSE],
          [width |-> 3, boundary |-> TRUE, digit |-> FALSE]}

OfChars(c) ==
  LET starts[i \in 0..Len(c)] == IF i = 0 THEN 0 ELSE starts[i - 1] + c[i].width
      LeadsOf(S) == {starts[i - 1] : i \in S}
  IN [size |-> starts[Len(c)], leads |-> LeadsOf(DOMAIN c),
      boundary |-> LeadsOf({i \in DOMAIN c : c[i].boundary}),
      digits |-> LeadsOf({i \in DOMAIN c : c[i].digit})]

MCTexts == UNION {{OfChars(c) : c \in [1..n -> Kinds]} : n \in 0..MaxChars}
=============================================================================
