------------------------ MODULE MCDictionarySession ------------------------
(* TLC instance of DictionarySession: texts put together from lines of      *)
(* every layout, with the quotes, comments and bad rows that matter, and    *)
(* editing sessions on a few of them.                                      *)
EXTENDS DictionarySession

MCEndings ==
  [Ichidan |-> <<[ending |-> <<"ru">>, epos |-> "VerbShuushikei"],
                 [ending |-> <<>>, epos |-> "VerbRenyokei"]>>,
   GodanRa |-> <<[ending |-> <<"ru">>, epos |-> "VerbShuushikei"],
                 [ending |-> <<"re">>, epos |-> "VerbKateikei"],
                 [ending |-> <<"re", "ru">>, epos |-> "VerbShuushikei"]>>,
   IAdjective |-> <<[ending |-> <<"i">>, epos |-> "AdjBasic"],
                    [ending |-> <<"ku">>, epos |-> "AdjRenyokei"]>>]

Cells(fields, delimiter) ==
  FlattenSeq([n \in DOMAIN fields |-> IF n = 1 THEN fields[n] ELSE <<delimiter>> \o fields[n]]) \o <<Newline>>

Tsv(fields) == Cells(fields, Tab)

Csv(fields) == Cells(fields, Comma)

Noun == <<"NOUN">>

\* Rows whose forms collide: "k re" is a noun, a form of two verbs, and the
\* renyokei of one; "k re ru" is a verb and a form of another.
Verbal ==
  {Tsv(<<<<"k", "ru">>, <<"VERB">>, <<"GODAN_RA">>>>),
   Tsv(<<<<"k", "re", "ru">>, <<"VERB">>, <<"ICHIDAN">>>>),
   Tsv(<<<<"k", "re">>, Noun>>)}

Adjectival ==
  {Tsv(<<<<"i", "i">>, <<"ADJ">>, <<"I_ADJ">>>>),
   Tsv(<<<<"yo", "i">>, <<"ADJ">>, <<"I_ADJ">>>>)}

Odd ==
  {Tsv(<<<<"k">>, Noun, <<"m">>, <<>>>>),                              \* a lemma in the third field
   Tsv(<<<<"k">>, Noun, <<>>, <<"m">>, <<>>>>),                        \* padded
   Tsv(<<<<"k">>, Noun, <<"m">>, <<"m">>>>),                           \* ambiguous
   Tsv(<<<<"k">>, <<"VERB">>, <<"r">>, <<Number>>, <<"NONE">>, <<"m">>>>),  \* legacy
   Tsv(<<<<BadByte>>, Noun>>),
   Tsv(<<<<BadByte>>, Noun, <<>>, <<Number>>>>),                       \* legacy, so not checked
   Tsv(<<<<"k">>, <<"PARTICLE">>>>),
   Tsv(<<<<"k">>, <<"ICHIDAN">>>>),                                    \* no part of speech
   Tsv(<<<<"k", Space, "k", "k">>, Noun>>),                            \* long
   Tsv(<<<<"k", "ru">>, <<"VERB">>, <<"I_ADJ">>>>),                    \* does not fit
   Tsv(<<<<"k", "ru">>, <<"VERB">>>>)}                                 \* no conjugation

Quoted ==
  {Csv(<<<<Quote, "k", Newline, "m", Quote>>, Noun, <<Number>>>>),
   Csv(<<<<Quote, "k", Quote, Quote, Comma, Quote, Space>>, Noun, <<Number>>, <<"m">>>>),
   Csv(<<<<Quote, "k", Quote, "m">>, Noun>>),
   Csv(<<<<Space, Quote, "k">>, Noun>>),                               \* not closed
   Csv(<<<<"k", Quote>>, Noun>>)}

Bare == {<<"k", Newline>>, <<Newline>>, <<Space, Hash, Quote, "k", Newline>>}

Lines == Verbal \cup Adjectival \cup Odd \cup Quoted \cup Bare

Joined(S, n) == {FlattenSeq(f) : f \in [1..n -> S]}

\* Without its last newline too.
Short == Joined(Lines, 1) \cup {Front(t) : t \in Joined(Lines, 1)} \cup Joined(Lines, 2)

Long == {t \o u : t \in Joined(Verbal \cup Adjectival, 2), u \in Verbal \cup Adjectival}

\* Every short text of two rows and the marks the scanner tells apart.
Pieces ==
  {<<"k", Tab, "NOUN">>, <<"k", Comma, "NOUN">>, <<"k">>, <<Tab>>, <<Comma>>, <<Quote>>, <<Newline>>,
   <<Hash>>, <<Space>>}

Jumbled == UNION {Joined(Pieces, n) : n \in 0..4}

MCTexts == {<<>>} \cup {<<t>> : t \in Short \cup Long \cup Jumbled}

MCEditedTexts ==
  {<<>>,
   <<Tsv(<<<<"k", "ru">>, <<"VERB">>, <<"GODAN_RA">>>>) \o Tsv(<<<<"k", "re">>, Noun>>)>>,
   <<Tsv(<<<<"k">>, <<"VERB">>, <<"r">>, <<Number>>, <<"NONE">>, <<"m">>>>)>>,
   <<Csv(<<<<Space, Quote, "k">>, Noun>>)>>}

MCTyped ==
  {[surface |-> <<"k", "ru">>, word |-> "VERB", conj |-> "Ichidan"],
   [surface |-> <<"k", "ru">>, word |-> "VERB", conj |-> "None"],
   [surface |-> <<Quote, "k">>, word |-> "NOUN", conj |-> "None"],
   [surface |-> <<Hash>>, word |-> "NOUN", conj |-> "None"]}

MCImportTexts ==
  {Tsv(<<<<"k", "re">>, Noun>>) \o Tsv(<<<<"k", "ru">>, <<"VERB">>, <<"ICHIDAN">>>>)}

MCLayer1 == {<<<<"k", "re">>, "Noun">>}
=============================================================================
