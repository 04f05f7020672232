--------------------------- MODULE MCPostprocessor ---------------------------
(***************************************************************************)
(* Every sequence of up to four readings of one of five vocabularies,     *)
(* each of which brings the words of some passes together with a symbol;   *)
(* one role change anywhere.                                               *)
(***************************************************************************)
EXTENDS Postprocessor

Word(word, pos, role) == [size |-> 1, word |-> word, pos |-> pos, role |-> role, formal |-> FALSE]
Formal(word) == [size |-> 1, word |-> word, pos |-> "noun", role |-> "formal", formal |-> TRUE]

Noun(word) == Word(word, "noun", "noun")
Symbol == Word("symbol", "symbol", "symbol")
Mark == Noun("mark")
SymbolMark == Word("mark", "symbol", "symbol")

Vocabularies == {
  {Noun("ordinal"), Noun("number"), Noun("large"), Noun("grouped"), Noun("counter"), Noun("turn"), Symbol},
  {Noun("some"), Word("counter", "suffix", "suffix"), Noun("number"), Noun("span"), Mark, SymbolMark, Symbol},
  {Formal("koto"), Word("no", "particle", "no"), Word("na", "auxiliary", "copula"),
   Word("i", "auxiliary", "aspect"), Word("ku", "auxiliary", "auxiliary"),
   [Word("demo", "particle", "adverbial") EXCEPT !.size = 2], Word("aru", "verb", "renyokei"), Symbol},
  {Word("verb", "verb", "renyokei"), Word("hiragana", "verb", "renyokei"), Word("tatan", "verb", "onbin"),
   Formal("mono"), Formal("tochu"), Noun("noun"), Symbol},
  {Word("chan", "suffix", "suffix"), Word("to", "particle", "particle"), Word("keshi", "verb", "renyokei"),
   Word("te", "particle", "particle"), Noun("noun"), Mark, Symbol} }

MCInputs == UNION {[1..n -> v] : n \in 1..4, v \in Vocabularies}

MCOptions == {
  [lemmatize |-> FALSE, mergeNounCompounds |-> TRUE, removeSymbols |-> TRUE],
  [lemmatize |-> TRUE, mergeNounCompounds |-> FALSE, removeSymbols |-> FALSE] }

MCTagOptions == {
  [useLemma |-> FALSE, removeDuplicates |-> TRUE, minLength |-> 2, maxTags |-> 0],
  [useLemma |-> TRUE, removeDuplicates |-> TRUE, minLength |-> 1, maxTags |-> 3],
  [useLemma |-> FALSE, removeDuplicates |-> FALSE, minLength |-> 2, maxTags |-> 1] }

MCRoles == {[pos |-> "verb", role |-> "renyokei"], [pos |-> "noun", role |-> "noun"]}
=============================================================================
