---------------------------- MODULE Postprocessor ----------------------------
(***************************************************************************)
(* Postprocessor::process (src/src/postprocess/postprocessor.cpp) and the  *)
(* tag generator after it (postprocess/tag_generator.cpp): a chain of      *)
(* passes over the morphemes of a text, some of which merge or split them  *)
(* and some of which only change their roles.                              *)
(*                                                                         *)
(* A morpheme's surface is the sequence of the source characters in it,    *)
(* which mergeInto extends apart from the character offsets.  Of the       *)
(* wording the passes see a class (word).  The linguistic rules that       *)
(* assign roles (the lemmatizer and the three stages of resolvers) appear  *)
(* as the change of some morpheme's role and lemma, at most MaxRetags in   *)
(* one run, and as their merges and splits in full.                        *)
(***************************************************************************)
EXTENDS Listing

CONSTANTS
  Inputs,       \* the sequences of lattice readings tried
  Options,      \* [lemmatize, mergeNounCompounds, removeSymbols]
  TagOptions,   \* [useLemma, removeDuplicates, minLength, maxTags]
  Roles,        \* what a resolver makes of a morpheme: [pos, role]
  MaxRetags

\* A reading: the characters it has, its wording and its grammar.
Reading == [size : 1..2, word : STRING, pos : STRING, role : STRING, formal : BOOLEAN]

\* Whatever is entered as a symbol has the symbols' role; demo is two characters.
ASSUME PostprocessorAssumption ==
  /\ Inputs \subseteq Seq(Reading)
  /\ \A input \in Inputs : \A i \in DOMAIN input :
       /\ input[i].pos = "symbol" => input[i].role = "symbol" /\ ~input[i].formal
       /\ input[i].word = "demo" => input[i].size = 2
  /\ Options \subseteq [lemmatize : BOOLEAN, mergeNounCompounds : BOOLEAN, removeSymbols : BOOLEAN]
  /\ TagOptions \subseteq [useLemma : BOOLEAN, removeDuplicates : BOOLEAN, minLength : Nat, maxTags : Nat]
  /\ Roles \subseteq [pos : STRING \ {"symbol"}, role : STRING]
  /\ MaxRetags \in Nat

VARIABLES
  options,
  source,       \* the lattice's morphemes
  morphemes,    \* the vector at hand
  pass,         \* the next pass
  retags        \* role changes so far

postVars == <<options, source, morphemes, pass, retags>>

\* The lemma a pass computes; the lattice's lemma is the morpheme's number.
Computed == 0

\* The characters between two offsets.
CharsBetween(from, to) == [j \in 1..(to - from) |-> from + j]

\* The lattice's morphemes tile the text.
LatticeMorphemes(input) ==
  LET end[i \in 0..Len(input)] == IF i = 0 THEN 0 ELSE end[i - 1] + input[i].size
  IN [i \in DOMAIN input |->
        [start |-> end[i - 1], end |-> end[i], chars |-> CharsBetween(end[i - 1], end[i]),
         word |-> input[i].word, pos |-> input[i].pos, role |-> input[i].role,
         formal |-> input[i].formal, lemma |-> i]]

PostInit ==
  /\ options \in Options
  /\ \E input \in Inputs : source = LatticeMorphemes(input)
  /\ morphemes = source
  /\ pass = "prefix"
  /\ retags = 0

(***************************************************************************)
(* Merging.                                                                *)
(***************************************************************************)
IsNoun(m) == m.pos = "noun"

IsSymbol(m) == m.pos = "symbol"

Lemma(m) == [m EXCEPT !.lemma = Computed]

\* mergeInto: the head keeps its grammar.
MergeInto(head, tail) ==
  [head EXCEPT !.chars = @ \o tail.chars, !.end = tail.end, !.word = "compound"]

\* The morphemes from i up to j, merged into the first of them.
Merged(ms, i, j) ==
  LET merged[k \in i..j] == IF k = i THEN ms[i] ELSE MergeInto(merged[k - 1], ms[k])
  IN merged[j]

\* A pass goes from left to right by pieces: the one that begins at i puts
\* something out, and the next one begins behind it.
Sweep(pieces) ==
  LET from[i \in 1..Len(pieces) + 1] ==
        IF i > Len(pieces) THEN <<>> ELSE pieces[i].out \o from[pieces[i].next]
  IN from[1]

Kept(ms, i) == [next |-> i + 1, out |-> <<ms[i]>>]

\* The first position from i on that is not in S.
RunEnd(ms, S, i) == CHOOSE j \in i..Len(ms) + 1 : j \notin S /\ i..(j - 1) \subseteq S

\* Two neighbours become one at each position of made, which gives it.
JoinPairs(ms, made) ==
  Sweep([i \in DOMAIN ms |-> IF i \in DOMAIN made THEN [next |-> i + 2, out |-> <<made[i]>>] ELSE Kept(ms, i)])

\* The positions before the last one.
Inner(ms) == 1..Len(ms) - 1

(***************************************************************************)
(* mergeNumericExpressions.                                                *)
(***************************************************************************)
IsNumericExpression(m) == IsNoun(m) /\ m.word \in {"number", "grouped", "large"}
EndsWithDigit(m) == m.word \in {"number", "grouped"}
EndsWithContinuableUnit(m) == m.word = "large"
LooksLikeUnit(m) == m.word \in {"counter", "turn"}
IsQuantitySuffix(m) == m.word \in {"turn", "span"}

IsOrdinal(ms, i) ==
  i < Len(ms) /\ IsNoun(ms[i]) /\ ms[i].word = "ordinal" /\ IsNumericExpression(ms[i + 1])

OrdinalEnd(ms, i) ==
  IF i + 2 <= Len(ms) /\ IsNoun(ms[i + 2]) /\ ms[i + 2].word = "turn" THEN i + 3 ELSE i + 2

IsLarge(ms, i) == IsNumericExpression(ms[i]) /\ EndsWithContinuableUnit(ms[i])

\* A large number takes the numbers after it up to the first that is not large.
LargeEnd(ms, i) ==
  LET j == RunEnd(ms, {k \in DOMAIN ms : IsLarge(ms, k)}, i)
  IN IF j <= Len(ms) /\ IsNumericExpression(ms[j]) THEN j + 1 ELSE j

IsGroupedCount(ms, i) ==
  /\ i < Len(ms)
  /\ IsNumericExpression(ms[i]) /\ ms[i].word = "grouped"
  /\ IsNoun(ms[i + 1]) /\ LooksLikeUnit(ms[i + 1])

IsQuantity(ms, i) ==
  /\ i < Len(ms)
  /\ IsNumericExpression(ms[i]) /\ IsNoun(ms[i + 1])
  /\ \/ EndsWithDigit(ms[i]) /\ ms[i].word # "grouped" /\ LooksLikeUnit(ms[i + 1])
     \/ IsQuantitySuffix(ms[i + 1])

IsIndefinite(ms, i) ==
  /\ i < Len(ms)
  /\ ms[i].word = "some" /\ ms[i].pos \in {"noun", "pronoun"} /\ ms[i + 1].pos = "suffix"

Quantity(ms, i, j) ==
  IF j = i + 1 THEN Kept(ms, i)
  ELSE [next |-> j, out |-> <<[Lemma(Merged(ms, i, j - 1)) EXCEPT !.pos = "noun"]>>]

\* A grouped number and its counter are taken together but stay two.
GroupedCount(ms, i) ==
  [next |-> i + 2,
   out |-> <<ms[i], [Lemma(ms[i + 1]) EXCEPT !.pos = "suffix", !.role = "suffix"]>>]

\* The patterns in the order the code tries them.
NumericPiece(ms, i) ==
  IF IsOrdinal(ms, i) THEN Quantity(ms, i, OrdinalEnd(ms, i))
  ELSE IF IsLarge(ms, i) THEN Quantity(ms, i, LargeEnd(ms, i))
  ELSE IF IsGroupedCount(ms, i) THEN GroupedCount(ms, i)
  ELSE IF IsQuantity(ms, i) \/ IsIndefinite(ms, i) THEN Quantity(ms, i, i + 2)
  ELSE Kept(ms, i)

MergeNumericExpressions(ms) == Sweep([i \in DOMAIN ms |-> NumericPiece(ms, i)])

(***************************************************************************)
(* The other merges, in the order of process().                            *)
(***************************************************************************)
CopularPair(ms, i, word, role) ==
  /\ ms[i].word = "na" /\ ms[i].role = "copula"
  /\ ms[i + 1].word = word /\ ms[i + 1].role = role
  /\ ms[i].end = ms[i + 1].start

\* mergeSplitCopularNegative: na + i is the negative nai.
MergeSplitCopularNegative(ms) ==
  LET Adjectival(i) == i = 1 \/ ms[i - 1].pos \in {"noun", "particle"}
      Nai(i) == [Lemma(Merged(ms, i, i + 1)) EXCEPT
                   !.pos = IF Adjectival(i) THEN "adjective" ELSE "auxiliary", !.role = "negative"]
  IN JoinPairs(ms, [i \in {j \in Inner(ms) : CopularPair(ms, j, "i", "aspect")} |-> Nai(i)])

\* mergeSplitFormalNounNegativeRenyokei: na + ku after koto.
MergeSplitFormalNounNegativeRenyokei(ms) ==
  LET pairs == {i \in Inner(ms) : /\ CopularPair(ms, i, "ku", "auxiliary")
                                  /\ i > 1 /\ ms[i - 1].word = "koto" /\ ms[i - 1].formal}
      Naku(i) == [Lemma(Merged(ms, i, i + 1)) EXCEPT !.pos = "adjective", !.role = "negative"]
  IN JoinPairs(ms, [i \in pairs |-> Naku(i)])

DemoHalves(demo) ==
  LET middle == demo.start + 1 IN
  <<[Lemma(demo) EXCEPT !.end = middle, !.chars = <<@[1]>>, !.word = "de",
                        !.pos = "auxiliary", !.role = "copula"],
    [Lemma(demo) EXCEPT !.start = middle, !.chars = <<@[2]>>, !.word = "mo",
                        !.pos = "particle", !.role = "topic"]>>

\* splitFormalNounCopularDemo: demo between a formal noun and a supporting verb.
IsCopularDemo(ms, i) ==
  /\ 1 < i /\ i < Len(ms)
  /\ ms[i].word = "demo" /\ ms[i].role = "adverbial"
  /\ ms[i - 1].formal \/ ms[i - 1].role = "no"
  /\ ms[i + 1].word = "aru"
  /\ ms[i - 1].end = ms[i].start /\ ms[i].end = ms[i + 1].start

SplitFormalNounCopularDemo(ms) ==
  Sweep([i \in DOMAIN ms |->
           IF IsCopularDemo(ms, i) THEN [next |-> i + 1, out |-> DemoHalves(ms[i])] ELSE Kept(ms, i)])

MergeVerbRenyokeiMono(ms) ==
  LET IsCompound(verb, mono) ==
        /\ verb.pos = "verb" /\ verb.role = "renyokei" /\ verb.word # "hiragana"
        /\ mono.word = "mono" /\ mono.formal
  IN JoinPairs(ms, [i \in {j \in Inner(ms) : IsCompound(ms[j], ms[j + 1])} |->
                      [Lemma(Merged(ms, i, i + 1)) EXCEPT !.pos = "noun", !.role = "noun"]])

MergeNounTemporalFormal(ms) ==
  LET IsBoundTemporal(noun, tochu) ==
        /\ IsNoun(noun) /\ ~noun.formal
        /\ IsNoun(tochu) /\ tochu.formal /\ tochu.word = "tochu"
  IN JoinPairs(ms, [i \in {j \in Inner(ms) : IsBoundTemporal(ms[j], ms[j + 1])} |->
                      [Lemma(Merged(ms, i, i + 1)) EXCEPT !.role = "noun"]])

\* keshi + te; chan + to unless a noun has just been put out.  (What precedes
\* chan is a noun after this pass exactly when it was one before.)
IsAdverb(ms, i) ==
  /\ ms[i + 1].pos = "particle"
  /\ \/ ms[i].pos = "verb" /\ ms[i].word = "keshi" /\ ms[i + 1].word = "te"
     \/ /\ ms[i].word = "chan" /\ ms[i].pos = "suffix" /\ ms[i + 1].word = "to"
        /\ i = 1 \/ ~IsNoun(ms[i - 1])

MergeLexicalizedAdverbs(ms) ==
  JoinPairs(ms, [i \in {j \in Inner(ms) : IsAdverb(ms, j)} |->
                   [Lemma(Merged(ms, i, i + 1)) EXCEPT !.pos = "adverb", !.role = "adverb"]])

\* What stands from i up to before j becomes one.
Compound(ms, i, j) ==
  IF j = i + 1 THEN Kept(ms, i) ELSE [next |-> j, out |-> <<Lemma(Merged(ms, i, j - 1))>>]

MergeNounCompounds(ms) ==
  LET plain == {i \in DOMAIN ms : IsNoun(ms[i]) /\ ~ms[i].formal} IN
  Sweep([i \in DOMAIN ms |-> IF i \in plain THEN Compound(ms, i, RunEnd(ms, plain, i)) ELSE Kept(ms, i)])

MergeProlongedSoundMark(ms) ==
  LET marks == {i \in DOMAIN ms : ms[i].word = "mark"} IN
  Sweep([i \in DOMAIN ms |->
           IF IsSymbol(ms[i]) THEN Kept(ms, i) ELSE Compound(ms, i, RunEnd(ms, marks, i + 1))])

(***************************************************************************)
(* The last resolvers see no symbols; these are put back by their offsets. *)
(***************************************************************************)
IsVerbPair(v1, v2) ==
  /\ v1.pos = "verb" /\ v1.role = "renyokei"
  /\ v2.pos = "verb" /\ v2.role = "onbin" /\ v2.word = "tatan"

\* Mutant: neighbours are taken for adjacent.
JoinsVerbNeighbours(v1, v2) == IsVerbPair(v1, v2)

JoinsVerb(v1, v2) == IsVerbPair(v1, v2) /\ v1.end = v2.start

\* The merged verb is in the form of its second part, so it takes no third.
MergeVerbPairs(ms) ==
  JoinPairs(ms, [i \in {j \in Inner(ms) : JoinsVerb(ms[j], ms[j + 1])} |->
                   [Lemma(Merged(ms, i, i + 1)) EXCEPT !.role = ms[i + 1].role]])

\* Whether the next semantic morpheme goes before the next symbol: it ends
\* before it, or they overlap and it starts no later.
SemanticFirst(semantic, symbol) ==
  semantic.end <= symbol.start \/ (symbol.end > semantic.start /\ semantic.start <= symbol.start)

\* One more of either list is put out.
MergeBackStep(semantics, symbols, s) ==
  IF /\ s.semantic <= Len(semantics)
     /\ s.symbol > Len(symbols) \/ SemanticFirst(semantics[s.semantic], symbols[s.symbol])
    THEN [s EXCEPT !.semantic = @ + 1, !.out = Append(@, semantics[s.semantic])]
    ELSE [s EXCEPT !.symbol = @ + 1, !.out = Append(@, symbols[s.symbol])]

MergeBack(semantics, symbols) ==
  LET all == Len(semantics) + Len(symbols)
      after[n \in 0..all] ==
        IF n = 0 THEN [semantic |-> 1, symbol |-> 1, out |-> <<>>]
        ELSE MergeBackStep(semantics, symbols, after[n - 1])
  IN after[all].out

Symbols(ms) == {i \in DOMAIN ms : IsSymbol(ms[i])}

ResolveSemanticRolesPreservingSymbols(ms) ==
  MergeBack(MergeVerbPairs(Pick(ms, DOMAIN ms \ Symbols(ms))), Pick(ms, Symbols(ms)))

FilterMorphemes(ms) == IF options.removeSymbols THEN Pick(ms, DOMAIN ms \ Symbols(ms)) ELSE ms

\* Mutant: the lemma is looked up by where the morpheme starts.
SourceOfByStart(m) == {s \in DOMAIN source : source[s].start = m.start}

\* The lattice's morphemes of a morpheme's span.
SourceOf(m) == {s \in DOMAIN source : source[s].start = m.start /\ source[s].end = m.end}

\* A morpheme that still has the span of one of the lattice's gets its lemma back.
RestoreLemma(m) ==
  IF SourceOf(m) = {} THEN m
  ELSE LET first == CHOOSE s \in SourceOf(m) : \A t \in SourceOf(m) : s <= t
       IN [m EXCEPT !.lemma = source[first].lemma]

RestoreLemmas(ms) == IF options.lemmatize THEN ms ELSE [i \in DOMAIN ms |-> RestoreLemma(ms[i])]

(***************************************************************************)
(* The chain.                                                              *)
(***************************************************************************)
Pass(name, next, ms) ==
  /\ pass = name
  /\ morphemes' = ms
  /\ pass' = next
  /\ UNCHANGED <<options, source, retags>>

\* convertPrefixVerbToNoun, lemmatizeAll and the resolvers' rules: none of them
\* touches a surface, an offset or a symbol.
Retag ==
  /\ pass \in {"prefix", "preroles", "verbmono", "final", "filter"}
  /\ retags < MaxRetags
  /\ \E i \in DOMAIN morphemes, r \in Roles :
       /\ ~IsSymbol(morphemes[i])
       /\ morphemes' = [morphemes EXCEPT ![i] = [Lemma(@) EXCEPT !.pos = r.pos, !.role = r.role]]
  /\ retags' = retags + 1
  /\ UNCHANGED <<options, source, pass>>

Numeric == Pass("prefix", "preroles", MergeNumericExpressions(morphemes))

PrePrefixRoles ==
  Pass("preroles", "verbmono",
       SplitFormalNounCopularDemo(
         MergeSplitFormalNounNegativeRenyokei(MergeSplitCopularNegative(morphemes))))

VerbMono == Pass("verbmono", "temporal", MergeVerbRenyokeiMono(morphemes))
Temporal == Pass("temporal", "adverbs", MergeNounTemporalFormal(morphemes))
Adverbs == Pass("adverbs", "compounds", MergeLexicalizedAdverbs(morphemes))
Compounds ==
  Pass("compounds", "marks", IF options.mergeNounCompounds THEN MergeNounCompounds(morphemes) ELSE morphemes)
Marks == Pass("marks", "final", MergeProlongedSoundMark(morphemes))
FinalRoles == Pass("final", "filter", ResolveSemanticRolesPreservingSymbols(morphemes))
FilterAndRestore == Pass("filter", "done", RestoreLemmas(FilterMorphemes(morphemes)))

PostNext ==
  \/ Retag
  \/ Numeric \/ PrePrefixRoles \/ VerbMono \/ Temporal \/ Adverbs \/ Compounds \/ Marks
  \/ FinalRoles \/ FilterAndRestore

PostSpec == PostInit /\ [][PostNext]_postVars

(***************************************************************************)
(* TagGenerator::generate.                                                 *)
(***************************************************************************)
\* shouldInclude with its exclusions as the defaults set them and no filter.
ShouldInclude(m) ==
  m.pos \in {"noun", "pronoun", "verb", "adjective", "adverb"} /\ ~m.formal

\* The text at some of its places, letter by letter; equal words are spelled alike.
Spelled(chars) ==
  LET At(p) == CHOOSE s \in DOMAIN source : source[s].start < p /\ p <= source[s].end
  IN [k \in DOMAIN chars |-> <<source[At(chars[k])].word, chars[k] - source[At(chars[k])].start>>]

\* A verb's lemma is a string of its own, any other word's is the word.
LemmaSpelled(s) ==
  IF source[s].pos = "verb" THEN <<<<source[s].word, 0>>>> ELSE Spelled(source[s].chars)

\* A tag's string; the lemma that a pass computed is the morpheme's characters.
TagString(m, o) ==
  IF o.useLemma /\ m.lemma # Computed THEN LemmaSpelled(m.lemma) ELSE Spelled(m.chars)

TagsFull(tags, o) == o.maxTags > 0 /\ Len(tags) >= o.maxTags

Taggable(m, o) == ShouldInclude(m) /\ Len(TagString(m, o)) >= o.minLength

\* Mutant: only the tag before is compared.
AddTagUnlessLast(tags, m, o) ==
  LET tag == TagString(m, o) IN
  IF \/ ~Taggable(m, o)
     \/ o.removeDuplicates /\ tags # <<>> /\ tags[Len(tags)] = tag
    THEN tags ELSE Append(tags, tag)

AddTag(tags, m, o) ==
  LET tag == TagString(m, o) IN
  IF \/ ~Taggable(m, o)
     \/ o.removeDuplicates /\ \E n \in DOMAIN tags : tags[n] = tag
    THEN tags ELSE Append(tags, tag)

Generate(ms, o) ==
  LET tags[n \in 0..Len(ms)] ==
        IF n = 0 THEN <<>>
        ELSE IF TagsFull(tags[n - 1], o) THEN tags[n - 1] ELSE AddTag(tags[n - 1], ms[n], o)
  IN tags[Len(ms)]

(***************************************************************************)
(* Properties.                                                             *)
(***************************************************************************)
\* The characters that some morphemes of ms are made of.
CharsAt(ms, S) == UNION {ms[i].start + 1..ms[i].end : i \in S}

\* Whatever was merged, split, retagged or set aside and put back, every
\* surface consists of exactly the characters between its offsets, the
\* morphemes follow one another, and no character is missing, unless symbols
\* were to be removed: then all of them are gone at the end and nothing else,
\* but for a prolonged sound mark, which may have become part of a word.
TextKept ==
  LET missing == CharsAt(source, DOMAIN source) \ CharsAt(morphemes, DOMAIN morphemes)
      marks == {i \in DOMAIN source : source[i].word = "mark"}
  IN /\ \A i \in DOMAIN morphemes : morphemes[i].chars = CharsBetween(morphemes[i].start, morphemes[i].end)
     /\ \A i, j \in DOMAIN morphemes : i < j => morphemes[i].end <= morphemes[j].start
     /\ CharsAt(morphemes, DOMAIN morphemes) \subseteq CharsAt(source, DOMAIN source)
     /\ IF pass = "done" /\ options.removeSymbols
          THEN /\ missing \subseteq CharsAt(source, Symbols(source))
               /\ CharsAt(source, Symbols(source) \ marks) \subseteq missing
          ELSE missing = {}

\* Without lemmatization a morpheme whose span the lattice had keeps the
\* lattice's lemma, and every other has the lemma of the pass that made it.
LatticeLemmaKept ==
  pass = "done" /\ ~options.lemmatize =>
    \A i \in DOMAIN morphemes :
      LET spans == {s \in DOMAIN source : /\ source[s].start = morphemes[i].start
                                          /\ source[s].end = morphemes[i].end}
      IN IF spans = {} THEN morphemes[i].lemma = Computed ELSE morphemes[i].lemma \in spans

\* The tags are the strings of the morphemes included, of those that are equal
\* the first, as far as the limit goes: duplicates and short tags passed over on
\* the way count for nothing.
TagsAreTheFirst ==
  pass = "done" => \A o \in TagOptions :
    LET strings == [i \in DOMAIN morphemes |-> TagString(morphemes[i], o)]
        candidates == {i \in DOMAIN morphemes : Taggable(morphemes[i], o)}
        first == {i \in candidates : o.removeDuplicates =>
                                       \A j \in candidates : j < i => strings[j] # strings[i]}
        wanted == Pick(strings, first)
    IN Generate(morphemes, o) =
         IF o.maxTags = 0 \/ Len(wanted) <= o.maxTags THEN wanted ELSE SubSeq(wanted, 1, o.maxTags)

=============================================================================
