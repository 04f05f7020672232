------------------------ MODULE DictionaryExpansion ------------------------
(***************************************************************************)
(* Source rows become dictionary entries: a row whose conjugation fits its *)
(* surface is expanded into its inflected forms, and forms that collide    *)
(* are merged as the caller's options say.  The library keeps every        *)
(* homograph; the compiler keeps one entry for a surface and part of       *)
(* speech, and lets a row's own surface win over a form generated from     *)
(* another row.                                                            *)
(*                                                                         *)
(* Endings gives the inflected endings of a conjugation class after its   *)
(* stem, the first of them the ending of the base form.  Kuru and the      *)
(* bound derivational suffix verbs, whose lists are special, are left out. *)
(***************************************************************************)
EXTENDS SourceParser, Listing

CONSTANT
  Endings   \* [conjugation class -> sequence of [ending, epos]]

ASSUME SuffixesAssumption ==
  /\ DOMAIN Endings = {"Ichidan", "GodanRa", "IAdjective"}
  /\ \A c \in DOMAIN Endings :
       /\ Endings[c] \in Seq([ending : Seq(STRING), epos : STRING]) \ {<<>>}
       /\ Len(Endings[c][1].ending) = 1
  /\ Endings["IAdjective"][1].ending = <<"i">>

VerbClasses == {"Ichidan", "GodanRa"}

EndsWith(surface, ending) == IsSuffix(ending, surface)

Stem(surface) == SubSeq(surface, 1, Len(surface) - 1)

BaseEnding(class) == Endings[class][1].ending

\* dictionaryConjugationTypeIssue found nothing wrong.
ConjugationFits(row) ==
  CASE row.conj \in VerbClasses -> row.pos = "Verb" /\ EndsWith(row.surface, BaseEnding(row.conj))
    [] row.conj = "IAdjective" -> row.pos = "Adjective"
    [] OTHER -> TRUE

NeedsExpansion(row) ==
  /\ ConjugationFits(row)
  /\ \/ row.pos = "Verb" /\ row.conj \in VerbClasses
     \/ row.pos = "Adjective" /\ row.conj = "IAdjective"

ExtendedPos(row) ==
  CASE row.conj \in {"Interjection", "ProperFamily"} -> row.conj
    [] row.proper /\ row.conj \notin {"Interjection", "ProperFamily"} -> "NounProper"
    [] OTHER -> row.pos

MakeBaseEntry(row) ==
  [surface |-> row.surface, pos |-> row.pos, epos |-> ExtendedPos(row),
   lemma |-> IF row.lemma = <<>> THEN row.surface ELSE row.lemma]

\* The sibling spelled yoi of an adjective spelled ii.
YoiVariant(surface) ==
  IF EndsWith(surface, <<"i", "i">>)
    THEN SubSeq(surface, 1, Len(surface) - 2) \o <<"yo", "i">>
    ELSE <<>>

Inflected(row, class) ==
  LET base == MakeBaseEntry(row)
  IN [n \in DOMAIN Endings[class] |->
        [base EXCEPT !.surface = Stem(row.surface) \o Endings[class][n].ending,
                     !.epos = Endings[class][n].epos]]

\* An adjective not spelled with i, or with a yoi sibling among the rows,
\* keeps its surface only.
Forms(row, adjectives) ==
  CASE ~NeedsExpansion(row) -> <<MakeBaseEntry(row)>>
    [] NeedsExpansion(row) /\ row.pos = "Verb" -> Inflected(row, row.conj)
    [] OTHER ->
         IF ~EndsWith(row.surface, <<"i">>) \/ YoiVariant(row.surface) \in adjectives
           THEN <<[MakeBaseEntry(row) EXCEPT !.epos = Endings["IAdjective"][1].epos]>>
           ELSE Inflected(row, "IAdjective")

-----------------------------------------------------------------------------
(* Collisions.  bySurface and bySurfacePos are the two indexes of the code: *)
(* what has been kept under a key, the length of its lemma, and whether it  *)
(* is some row's own surface.                                              *)

ExpansionStart ==
  [entries |-> <<>>, identities |-> {}, bySurface |-> <<>>, bySurfacePos |-> <<>>, skipped |-> 0]

\* A map as a function: f with x mapped to v.
Put(f, x, v) == [y \in DOMAIN f \cup {x} |-> IF y = x THEN v ELSE f[y]]

Without(f, x) == [y \in DOMAIN f \ {x} |-> f[y]]

SeenAs(entry, index, explicit) ==
  [index |-> index, lemmaLength |-> Len(entry.lemma), pos |-> entry.pos, explicit |-> explicit]

Key(entry) == <<entry.surface, entry.pos>>

\* Mutant: the form kept last is replaced.
ReplaceLast(r, index, entry) ==
  [r EXCEPT !.entries[Len(r.entries)] = entry,
            !.identities = (@ \ {r.entries[index]}) \cup {entry},
            !.skipped = @ + 1]

\* entry takes the place of the one kept at an index.
Replace(r, index, entry) ==
  [r EXCEPT !.entries[index] = entry,
            !.identities = (@ \ {r.entries[index]}) \cup {entry},
            !.skipped = @ + 1]

Skip(r) == [r EXCEPT !.skipped = @ + 1]

\* A generated form meets its surface: the longer lemma of the same part of
\* speech stays, but a row's own surface is never replaced.
MeetGenerated(r, entry) ==
  LET seen == r.bySurface[entry.surface]
      longer == SeenAs(entry, seen.index, FALSE)
  IN IF ~seen.explicit /\ entry.pos = seen.pos /\ Len(entry.lemma) > seen.lemmaLength
       THEN [Replace(r, seen.index, entry) EXCEPT
               !.bySurface[entry.surface] = longer,
               !.bySurfacePos[Key(entry)] = longer]
       ELSE Skip(r)

\* Mutant: the form that came first stays.
MeetExplicitTooLate(r, entry) == Skip(r)

\* A row's own surface meets a generated form and takes its place.
MeetExplicit(r, entry) ==
  LET seen == r.bySurface[entry.surface]
      own == SeenAs(entry, seen.index, TRUE)
  IN [Replace(r, seen.index, entry) EXCEPT
        !.bySurface[entry.surface] = own,
        !.bySurfacePos = Put(Without(@, Key(r.entries[seen.index])), Key(entry), own)]

Push(r, entry, explicit) ==
  LET seen == SeenAs(entry, Len(r.entries) + 1, explicit)
  IN [r EXCEPT
        !.entries = Append(@, entry),
        !.identities = @ \cup {entry},
        !.bySurface = IF entry.surface \in DOMAIN @ THEN @ ELSE Put(@, entry.surface, seen)]

\* Two rows' own surfaces of one part of speech: the longer lemma stays.
MeetSamePos(r, entry) ==
  LET seen == r.bySurfacePos[Key(entry)]
  IN IF Len(entry.lemma) > seen.lemmaLength
       THEN [Skip(r) EXCEPT !.entries[seen.index] = entry,
                            !.identities = @ \cup {entry},
                            !.bySurfacePos[Key(entry)].lemmaLength = Len(entry.lemma)]
       ELSE [Skip(r) EXCEPT !.identities = @ \cup {entry}]

\* Mutant: a generated form is merged with forms of its own part of speech only.
KeepOnePerPos(r, entry, explicit) ==
  LET met == entry.surface \in DOMAIN r.bySurface /\ (explicit \/ r.bySurface[entry.surface].pos = entry.pos)
      overOwn == met /\ r.bySurface[entry.surface].explicit
  IN CASE met /\ ~explicit -> MeetGenerated(r, entry)
       [] met /\ explicit /\ ~overOwn -> MeetExplicit(r, entry)
       [] OTHER ->
            IF entry \in r.identities
              THEN Skip(r)
              ELSE [Push(r, entry, explicit) EXCEPT
                      !.bySurfacePos = Put(@, Key(entry), SeenAs(entry, Len(r.entries) + 1, explicit))]

\* The compiler's options.
KeepOne(r, entry, explicit) ==
  LET met == entry.surface \in DOMAIN r.bySurface
      overOwn == met /\ r.bySurface[entry.surface].explicit
  IN CASE met /\ ~explicit -> MeetGenerated(r, entry)
       [] met /\ explicit /\ ~overOwn -> MeetExplicit(r, entry)
       [] OTHER ->
            CASE entry \in r.identities -> Skip(r)
              [] entry \notin r.identities /\ Key(entry) \in DOMAIN r.bySurfacePos -> MeetSamePos(r, entry)
              [] OTHER -> [Push(r, entry, explicit) EXCEPT
                             !.bySurfacePos = Put(@, Key(entry), SeenAs(entry, Len(r.entries) + 1, explicit))]

\* Mutant: homographs of one part of speech are dropped.
KeepFirst(r, entry, explicit) ==
  IF \E e \in r.identities : Key(e) = Key(entry) THEN Skip(r) ELSE Push(r, entry, explicit)

\* The library's options.
KeepAll(r, entry, explicit) ==
  IF entry \in r.identities THEN Skip(r) ELSE Push(r, entry, explicit)

AppendSource(r, row, adjectives, compiling) ==
  LET AppendForm(s, form) ==
        LET explicit == form.surface = row.surface
        IN IF compiling THEN KeepOne(s, form, explicit) ELSE KeepAll(s, form, explicit)
      forms == Forms(row, adjectives)
      after[n \in 0..Len(forms)] == IF n = 0 THEN r ELSE AppendForm(after[n - 1], forms[n])
  IN after[Len(forms)]

Adjectives(rows) ==
  {rows[i].surface : i \in {j \in DOMAIN rows : rows[j].pos = "Adjective" /\ rows[j].conj = "IAdjective"}}

\* Rows that do not inflect come first.
ExpandDictionarySourceEntries(rows, compiling) ==
  LET inflecting == {i \in DOMAIN rows : NeedsExpansion(rows[i])}
      ordered == Pick(rows, DOMAIN rows \ inflecting) \o Pick(rows, inflecting)
      after[n \in 0..Len(ordered)] ==
        IF n = 0 THEN ExpansionStart
        ELSE AppendSource(after[n - 1], ordered[n], Adjectives(rows), compiling)
  IN after[Len(ordered)]

\* Every form of every row.
AllForms(rows) == UNION {ToSet(Forms(rows[i], Adjectives(rows))) : i \in DOMAIN rows}
=============================================================================
