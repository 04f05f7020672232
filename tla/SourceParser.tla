---------------------------- MODULE SourceParser ----------------------------
(***************************************************************************)
(* Dictionary source text: how the parser cuts a text into records and a   *)
(* record into fields, what an entry of each layout means, and how the     *)
(* editor writes entries back.                                             *)
(*                                                                         *)
(* A text is a sequence of tokens: the characters the scanner tells apart, *)
(* and words, each a run of other characters.  "\r" behaves like Space.    *)
(* Words that name a part of speech or a conjugation are given by PosOf    *)
(* and ConjOf; BadByte is a byte that is not UTF-8, Number a digit run.    *)
(* The byte order mark, the line numbers and the messages are left out.    *)
(***************************************************************************)
EXTENDS Integers, Sequences, SequencesExt

Quote == "quote"
Tab == "tab"
Comma == "comma"
Space == "space"
Newline == "newline"
Hash == "hash"
Number == "0.5"
BadByte == "badbyte"

Whitespace == {Space, Tab, Newline}

PosOf ==
  [NOUN |-> "Noun", PROPN |-> "Noun", VERB |-> "Verb", ADJ |-> "Adjective",
   PARTICLE |-> "Particle", INTJ |-> "Interjection"]

ConjOf ==
  [NONE |-> "None", ICHIDAN |-> "Ichidan", GODAN_RA |-> "GodanRa", I_ADJ |-> "IAdjective",
   FAMILY |-> "ProperFamily", INTJ |-> "Interjection"]

IsPos(field) == Len(field) = 1 /\ field[1] \in DOMAIN PosOf

IsConj(field) == Len(field) = 1 /\ field[1] \in DOMAIN ConjOf

IsNumericField(field) == field # <<>> /\ ToSet(field) = {Number}

ValidUtf8(field) == BadByte \notin ToSet(field)

Trim(text) ==
  LET kept == {i \in DOMAIN text : text[i] \notin Whitespace}
  IN IF kept = {} THEN <<>> ELSE SubSeq(text, Min(kept), Max(kept))

-----------------------------------------------------------------------------
(* A record is cut into fields. *)

\* A doubled quote inside quotes: the second of the two is skipped.
Escapes(text, i) == i < Len(text) /\ text[i + 1] = Quote

Pushed(s) == [s EXCEPT !.fields = Append(@, Trim(s.field)), !.field = <<>>, !.closed = FALSE, !.nonspace = FALSE]

FieldQuote(s, escaped) ==
  CASE s.quoted /\ escaped -> [s EXCEPT !.field = Append(@, Quote), !.skip = TRUE, !.nonspace = TRUE]
    [] s.quoted /\ ~escaped -> [s EXCEPT !.quoted = FALSE, !.closed = TRUE]
    [] ~s.quoted /\ s.nonspace -> [s EXCEPT !.field = Append(@, Quote)]
    [] OTHER -> [s EXCEPT !.field = <<>>, !.quoted = TRUE, !.nonspace = TRUE]

FieldStep(record, delimiter, s, i) ==
  LET c == record[i]
  IN CASE s.failed -> s
       [] s.skip -> [s EXCEPT !.skip = FALSE]
       [] c = Quote -> FieldQuote(s, Escapes(record, i))
       [] c = delimiter /\ ~s.quoted -> Pushed(s)
       [] s.closed -> IF c \in {Space, Tab} THEN s ELSE [s EXCEPT !.failed = TRUE]
       [] OTHER -> [s EXCEPT !.field = Append(@, c), !.nonspace = @ \/ c \notin Whitespace]

FieldsStart ==
  [fields |-> <<>>, field |-> <<>>, quoted |-> FALSE, closed |-> FALSE, nonspace |-> FALSE,
   skip |-> FALSE, failed |-> FALSE]

\* after[i] is the state behind the token at i.
ParseDelimitedRecord(record, delimiter) ==
  LET after[i \in 0..Len(record)] ==
        IF i = 0 THEN FieldsStart ELSE FieldStep(record, delimiter, after[i - 1], i)
      end == after[Len(record)]
  IN IF end.failed \/ end.quoted
       THEN [ok |-> FALSE, fields |-> <<>>]
       ELSE [ok |-> TRUE, fields |-> Pushed(end).fields]

\* Opening and closing quotes, as the record scanner and the delimiter
\* detection see them; delimiters are the characters that start a new field.
QuoteStep(s, c, escaped, delimiters) ==
  CASE s.skip -> [s EXCEPT !.skip = FALSE]
    [] c = Quote /\ s.quoted -> IF escaped THEN [s EXCEPT !.skip = TRUE] ELSE [s EXCEPT !.quoted = FALSE]
    [] c = Quote /\ ~s.quoted -> [s EXCEPT !.quoted = ~s.nonspace]
    [] c # Quote /\ ~s.quoted /\ c \in delimiters -> [s EXCEPT !.nonspace = FALSE]
    [] c # Quote /\ ~s.quoted /\ c \notin delimiters \cup {Space, Newline} -> [s EXCEPT !.nonspace = TRUE]
    [] OTHER -> s

DetectDelimiter(record) ==
  LET Step(s, i) ==
        IF s.tab THEN s
        ELSE [QuoteStep(s, record[i], Escapes(record, i), {Comma}) EXCEPT
                !.tab = record[i] = Tab /\ ~s.quoted /\ ~s.skip]
      after[i \in 0..Len(record)] ==
        IF i = 0 THEN [quoted |-> FALSE, nonspace |-> FALSE, skip |-> FALSE, tab |-> FALSE]
        ELSE Step(after[i - 1], i)
  IN IF after[Len(record)].tab THEN Tab ELSE Comma

-----------------------------------------------------------------------------
(* Fields become an entry. *)

Rejected == [ok |-> FALSE]

Accepted(entry) == [ok |-> TRUE, entry |-> entry]

\* Field n, empty if the record has fewer.
Field(fields, n) == IF n <= Len(fields) THEN fields[n] ELSE <<>>

AllEmptyFrom(fields, n) == \A i \in n..Len(fields) : fields[i] = <<>>

BaseEntry(fields) ==
  LET pos == PosOf[fields[2][1]]
  IN [surface |-> fields[1], pos |-> pos, lemma |-> <<>>,
      conj |-> IF pos = "Interjection" THEN "Interjection" ELSE "None",
      proper |-> fields[2] = <<"PROPN">>, legacy |-> FALSE, padded |-> FALSE]

\* surface, POS, reading, cost[, conj_type, lemma]: not checked for UTF-8.
LegacyTsv(fields) ==
  LET entry == [BaseEntry(fields) EXCEPT !.legacy = TRUE, !.lemma = Field(fields, 6)]
      conj == Field(fields, 5)
  IN IF (conj # <<>> /\ ~IsConj(conj)) \/ ~AllEmptyFrom(fields, 7)
       THEN Rejected
       ELSE Accepted(IF conj = <<>> THEN entry ELSE [entry EXCEPT !.conj = ConjOf[conj[1]]])

\* surface, POS, conj_type[, lemma]; a third field that is no marker and no
\* number is a lemma.
CurrentTsv(fields) ==
  LET third == Field(fields, 3)
      fourth == Field(fields, 4)
      bare == third # <<>> /\ ~IsConj(third) /\ ~IsNumericField(third)
      entry == [BaseEntry(fields) EXCEPT
                  !.padded = Len(fields) > 4,
                  !.conj = IF IsConj(third) THEN ConjOf[third[1]] ELSE @,
                  !.lemma = IF bare THEN third ELSE fourth]
  IN IF ~AllEmptyFrom(fields, 5) \/ (bare /\ fourth # <<>>) THEN Rejected ELSE Accepted(entry)

\* surface, POS, cost, lemma.
LegacyCsv(fields) == Accepted([BaseEntry(fields) EXCEPT !.lemma = Field(fields, 4)])

\* The check of the two current layouts.
CheckedUtf8(converted) ==
  IF converted.ok /\ ~(ValidUtf8(converted.entry.surface) /\ ValidUtf8(converted.entry.lemma))
    THEN Rejected
    ELSE converted

ConvertFields(fields, delimiter) ==
  CASE Len(fields) < 2 \/ Field(fields, 1) = <<>> \/ ~IsPos(Field(fields, 2)) -> Rejected
    [] OTHER ->
         IF delimiter # Tab THEN CheckedUtf8(LegacyCsv(fields))
         ELSE IF IsNumericField(Field(fields, 4)) THEN LegacyTsv(fields)
         ELSE CheckedUtf8(CurrentTsv(fields))

\* The warnings one entry adds, in their order.
EntryWarnings(entry) ==
  (IF entry.legacy THEN <<"legacy layout">> ELSE <<>>)
    \o (IF entry.padded THEN <<"padding">> ELSE <<>>)
    \o (IF entry.pos = "Particle" THEN <<"closed class">> ELSE <<>>)

-----------------------------------------------------------------------------
(* A text is cut into records. *)

ScanStart ==
  [quoted |-> FALSE, nonspace |-> FALSE, skip |-> FALSE, from |-> 1,
   delimiter |-> "none", entries |-> <<>>, warnings |-> <<>>, failed |-> FALSE]

\* Mutant: the new record starts in the middle of a field.
NextRecordMidField(s, end) == [s EXCEPT !.from = end + 1]

\* The record that ends before position end has been cut off.
NextRecord(s, end) == [s EXCEPT !.from = end + 1, !.nonspace = FALSE]

\* The first entry settles the delimiter.
EnterEntry(s, converted, delimiter, end) ==
  IF ~converted.ok
    THEN [s EXCEPT !.failed = TRUE]
    ELSE NextRecord([s EXCEPT !.delimiter = delimiter,
                              !.entries = Append(@, converted.entry),
                              !.warnings = @ \o EntryWarnings(converted.entry)], end)

\* A record that is skipped does not reset nonspace.
DataRecord(s, parsed, delimiter, end, lenient) ==
  CASE ~parsed.ok -> [s EXCEPT !.failed = TRUE]
    [] parsed.ok /\ lenient /\ Len(parsed.fields) < 2 ->
         [s EXCEPT !.from = end + 1, !.warnings = Append(@, "skipped record")]
    [] OTHER -> EnterEntry(s, ConvertFields(parsed.fields, delimiter), delimiter, end)

EndRecord(content, end, lenient, s) ==
  LET record == SubSeq(content, s.from, end - 1)
      trimmed == Trim(record)
      delimiter == IF s.delimiter = "none" THEN DetectDelimiter(record) ELSE s.delimiter
  IN IF trimmed = <<>> \/ trimmed[1] = Hash
       THEN NextRecord(s, end)
       ELSE DataRecord(s, ParseDelimitedRecord(record, delimiter), delimiter, end, lenient)

ScanStep(content, lenient, s, i) ==
  LET scanned == QuoteStep(s, content[i], Escapes(content, i), {Tab, Comma})
  IN CASE s.failed -> s
       [] ~s.failed /\ content[i] = Newline /\ ~scanned.quoted -> EndRecord(content, i, lenient, scanned)
       [] OTHER -> scanned

\* The end of the text ends its last record.
LastRecord(content, lenient, s) ==
  IF s.failed \/ s.from = Len(content) + 1 THEN s ELSE EndRecord(content, Len(content) + 1, lenient, s)

ParseResult(s) ==
  IF s.failed \/ s.quoted
    THEN [ok |-> FALSE, entries |-> <<>>, warnings |-> <<>>]
    ELSE [ok |-> TRUE, entries |-> s.entries, warnings |-> s.warnings]

\* lenient: the runtime option skip_single_field_records.
ParseDictionarySource(content, lenient) ==
  LET after[i \in 0..Len(content)] ==
        IF i = 0 THEN ScanStart ELSE ScanStep(content, lenient, after[i - 1], i)
  IN ParseResult(LastRecord(content, lenient, after[Len(content)]))

-----------------------------------------------------------------------------
(* The editor writes entries as current TSV. *)

PosString ==
  [Noun |-> "NOUN", Verb |-> "VERB", Adjective |-> "ADJ", Particle |-> "PARTICLE", Interjection |-> "INTJ"]

ConjString ==
  [None |-> <<>>, Ichidan |-> <<"ICHIDAN">>, GodanRa |-> <<"GODAN_RA">>, IAdjective |-> <<"I_ADJ">>,
   ProperFamily |-> <<"FAMILY">>, Interjection |-> <<>>]

TsvRow(entry) ==
  entry.surface \o <<Tab, PosString[entry.pos]>>
    \o (IF entry.conj # "None" \/ entry.lemma # <<>> THEN <<Tab>> \o ConjString[entry.conj] ELSE <<>>)
    \o (IF entry.lemma # <<>> THEN <<Tab>> \o entry.lemma ELSE <<>>)
    \o <<Newline>>

TsvRows(entries) ==
  LET upto[n \in 0..Len(entries)] == IF n = 0 THEN <<>> ELSE upto[n - 1] \o TsvRow(entries[n])
  IN upto[Len(entries)]

TsvHeader == <<Hash, "suzume", Newline, Hash, "surface", Tab, "pos", Tab, "conj_type", Tab, "lemma", Newline, Newline>>

\* The fields the writer refuses.
TsvWriteFieldIssue(field) ==
  field # <<>> /\ (field[1] = Hash \/ {Tab, Newline} \cap ToSet(field) # {})

Writable(entries) ==
  \A i \in DOMAIN entries : ~TsvWriteFieldIssue(entries[i].surface) /\ ~TsvWriteFieldIssue(entries[i].lemma)

\* What of an entry a file holds.
Stored(entry) ==
  [surface |-> entry.surface, pos |-> entry.pos, conj |-> entry.conj,
   lemma |-> entry.lemma, proper |-> entry.proper]
=============================================================================
