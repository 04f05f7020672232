-------------------------- MODULE MCDictionaryTools --------------------------
(* Instances of DictionaryTools: four files, five words, two calls at once. *)
EXTENDS DictionaryTools, TLC

MCCoreFiles == <<"nouns", "verbs">>
MCUserFiles == <<"names", "places">>
MCWords == {"a", "b", "c", "d", "s"}

\* VERB has no conjugation type, GODAN stands for a complete verb, ADJ for an
\* adjective without its type that dict_bulk_add does not notice.
MCKinds == {"NOUN", "PROPER_NOUN", "VERB", "GODAN", "ADJ"}
MCCanonical == [k \in MCKinds |->
  CASE k = "PROPER_NOUN" -> "NOUN" [] k = "GODAN" -> "VERB" [] OTHER -> k]
MCCoreFile == [k \in MCKinds |-> IF k \in {"VERB", "GODAN"} THEN "verbs" ELSE "nouns"]
MCIncomplete == {"VERB", "ADJ"}
MCNoticed == {"VERB"}
MCRank == [e \in MCWords \X MCKinds |->
  10 * (CHOOSE i \in 1..5 : <<"NOUN", "PROPER_NOUN", "VERB", "GODAN", "ADJ">>[i] = e[2])
  + (CHOOSE i \in 1..5 : <<"s", "d", "c", "b", "a">>[i] = e[1])]

Off(w, k) == [word |-> w, kind |-> k, off |-> TRUE]

MCWorlds ==
  {[f \in Files |->
      CASE f = "nouns" -> <<Entry("a", "NOUN"), Off("d", "NOUN"), Entry("s", "NOUN")>>
        [] f = "verbs" -> <<Entry("b", "GODAN")>>
        [] f = "names" -> <<Off("d", "NOUN"), Entry("c", "PROPER_NOUN")>>
        [] f = "places" -> Absent],
   [f \in Files |->
      CASE f = "nouns" -> <<Entry("a", "NOUN"), Entry("a", "PROPER_NOUN"), Entry("c", "NOUN")>>
        [] f = "verbs" -> Absent
        [] f = "names" -> <<Entry("c", "NOUN"), Entry("b", "NOUN"), Entry("b", "NOUN")>>
        [] f = "places" -> <<Entry("a", "GODAN")>>]}

TaskSymmetry == Permutations(Tasks)

Ask(tool, words, kind, user) ==
  [tool |-> tool, word |-> IF words = <<>> THEN "" ELSE Head(words), words |-> words,
   kind |-> kind, user |-> user, to |-> "", force |-> FALSE]

MCRequests ==
  { Ask("dict_add", <<"d">>, "NOUN", ""),
    Ask("dict_add", <<"d">>, "VERB", ""),
    Ask("dict_add", <<"d">>, "PROPER_NOUN", "names"),
    [Ask("dict_add", <<"s">>, "GODAN", "") EXCEPT !.force = TRUE],
    Ask("dict_bulk_add", <<"d", "s", "d", "c">>, "NOUN", "places"),
    Ask("dict_bulk_add", <<"d", "c">>, "ADJ", ""),
    Ask("dict_remove", <<"a">>, "", ""),
    Ask("dict_remove", <<"c">>, "NOUN", "names"),
    Ask("dict_disable", <<"a">>, "NOUN", ""),
    Ask("dict_enable", <<"d">>, "", ""),
    Ask("dict_enable", <<"d">>, "NOUN", "names"),
    [Ask("dict_bulk_move", <<"c">>, "", "names") EXCEPT !.to = "places"],
    [Ask("dict_bulk_move", <<>>, "", "names") EXCEPT !.to = "places"],
    Ask("dict_remove_matching", <<"a", "b">>, "", ""),
    Ask("dict_validate", <<>>, "", ""),
    Ask("dict_sort", <<>>, "", "nouns"),
    Ask("dict_sort", <<>>, "", "names") }
=============================================================================
