----------------------- MODULE DictionarySessionProofs -----------------------
(***************************************************************************)
(* The tools on a dictionary source, for any texts, endings and bounds.    *)
(***************************************************************************)
EXTENDS DictionarySession, SharedLemmas, SequenceTheorems

-----------------------------------------------------------------------------
(* What the parser returns is typed. *)

Token ==
  STRING \cup {Quote, Tab, Newline, Hash, "suzume", "surface", "pos", "conj_type", "lemma",
               "NOUN", "VERB", "ADJ", "PARTICLE", "INTJ", "ICHIDAN", "GODAN_RA", "I_ADJ", "FAMILY"}

Pos == {"Noun", "Verb", "Adjective", "Particle", "Interjection"}

Conj == {"None", "Ichidan", "GodanRa", "IAdjective", "ProperFamily", "Interjection"}

Row ==
  [surface : Seq(Token), pos : Pos, lemma : Seq(Token), conj : Conj,
   proper : BOOLEAN, legacy : BOOLEAN, padded : BOOLEAN]

\* The tables of names.
LEMMA Tables ==
  /\ \A n \in DOMAIN PosOf : PosOf[n] \in Pos
  /\ \A n \in DOMAIN ConjOf : ConjOf[n] \in Conj
  /\ \A p \in Pos : PosString[p] \in Token
  /\ \A c \in Conj : ConjString[c] \in Seq(Token)
<1>1. \A n \in DOMAIN PosOf : PosOf[n] \in Pos
  BY DEF PosOf, Pos
<1>2. \A n \in DOMAIN ConjOf : ConjOf[n] \in Conj
  BY DEF ConjOf, Conj
<1>3. \A p \in Pos : PosString[p] \in Token
  BY DEF PosString, Pos, Token
<1>4. \A c \in Conj : ConjString[c] \in Seq(Token)
  <2>1. <<>> \in Seq(Token) /\ \A t \in Token : <<t>> \in Seq(Token)
    OBVIOUS
  <2>2. "ICHIDAN" \in Token /\ "GODAN_RA" \in Token /\ "I_ADJ" \in Token /\ "FAMILY" \in Token
    BY DEF Token
  <2>3. /\ ConjString["None"] = <<>> /\ ConjString["Interjection"] = <<>>
        /\ ConjString["Ichidan"] = <<"ICHIDAN">> /\ ConjString["GodanRa"] = <<"GODAN_RA">>
        /\ ConjString["IAdjective"] = <<"I_ADJ">> /\ ConjString["ProperFamily"] = <<"FAMILY">>
    BY DEF ConjString
  <2> QED BY <2>1, <2>2, <2>3 DEF Conj
<1> QED BY <1>1, <1>2, <1>3, <1>4

\* Trimming takes a part of the text.
LEMMA Trimmed ==
  ASSUME NEW text \in Seq(Token)
  PROVE  Trim(text) \in Seq(Token)
<1> DEFINE kept == {i \in DOMAIN text : text[i] \notin Whitespace}
<1>1. Len(text) \in Nat /\ DOMAIN text = 1..Len(text)
  OBVIOUS
<1>2. CASE kept = {}
  <2>1. Trim(text) = <<>>
    BY <1>2 DEF Trim
  <2> QED BY <2>1
<1>3. CASE kept # {}
  <2>1. kept \subseteq 0..Len(text) /\ kept \subseteq 1..Len(text)
    BY <1>1
  <2>2. Trim(text) = SubSeq(text, Min(kept), Max(kept))
    BY <1>3 DEF Trim
  <2> HIDE DEF kept
  <2>3. (\E x \in kept : \A y \in kept : x =< y) /\ (\E x \in kept : \A y \in kept : x >= y)
    BY <1>1, <1>3, <2>1, Extremes
  <2>4. Min(kept) \in kept /\ Max(kept) \in kept
    BY <2>3 DEF Min, Max
  <2>5. Min(kept) \in 1..Len(text) /\ Max(kept) \in 1..Len(text)
    BY <2>1, <2>4
  <2>6. \A m, n \in 1..Len(text) : SubSeq(text, m, n) \in Seq(Token)
    BY <1>1
  <2> QED BY <2>2, <2>5, <2>6
<1> QED BY <1>2, <1>3

\* Where the field parser stands.
FieldState ==
  [fields : Seq(Seq(Token)), field : Seq(Token), quoted : BOOLEAN, closed : BOOLEAN,
   nonspace : BOOLEAN, skip : BOOLEAN, failed : BOOLEAN]

LEMMA PushedTyped ==
  ASSUME NEW s \in FieldState
  PROVE  Pushed(s) \in FieldState
<1>1. Trim(s.field) \in Seq(Token)
  BY Trimmed DEF FieldState
<1>2. Append(s.fields, Trim(s.field)) \in Seq(Seq(Token)) /\ <<>> \in Seq(Token)
  BY <1>1 DEF FieldState
<1> QED BY <1>2 DEF Pushed, FieldState

\* A token of a record keeps the field parser's state typed.
LEMMA FieldStepTyped ==
  ASSUME NEW record \in Seq(Token), NEW delimiter, NEW s \in FieldState, NEW i \in DOMAIN record
  PROVE  FieldStep(record, delimiter, s, i) \in FieldState
<1> DEFINE c == record[i]
<1>1. c \in Token /\ Quote \in Token
  BY DEF Token
<1>2. /\ Append(s.field, c) \in Seq(Token) /\ Append(s.field, Quote) \in Seq(Token) /\ <<>> \in Seq(Token)
  BY <1>1 DEF FieldState
<1>3. ASSUME NEW escaped \in BOOLEAN PROVE FieldQuote(s, escaped) \in FieldState
  BY <1>2 DEF FieldQuote, FieldState
<1>4. Escapes(record, i) \in BOOLEAN
  BY DEF Escapes
<1>5. FieldQuote(s, Escapes(record, i)) \in FieldState
  BY <1>3, <1>4
<1>6. [s EXCEPT !.skip = FALSE] \in FieldState /\ [s EXCEPT !.failed = TRUE] \in FieldState
  BY DEF FieldState
<1>7. [s EXCEPT !.field = Append(@, c), !.nonspace = @ \/ c \notin Whitespace] \in FieldState
  <2>1. (s.nonspace \/ c \notin Whitespace) \in BOOLEAN
    BY DEF FieldState
  <2> HIDE DEF c
  <2> QED BY <1>2, <2>1 DEF FieldState
<1> QED BY <1>5, <1>6, <1>7, PushedTyped DEF FieldStep

\* The states of the field parser, as the recursion defines them.
FieldsAfter(record, delimiter) ==
  CHOOSE after : after = [i \in 0..Len(record) |-> IF i = 0 THEN FieldsStart
                                                  ELSE FieldStep(record, delimiter, after[i - 1], i)]

LEMMA FieldsAfterTyped ==
  ASSUME NEW record \in Seq(Token), NEW delimiter
  PROVE  \A i \in 0..Len(record) : FieldsAfter(record, delimiter)[i] \in FieldState
<1> DEFINE N == Len(record)
           T == FieldState
           g == [i \in 1..N |-> [s \in T |-> FieldStep(record, delimiter, s, i)]]
           Solves(f) == f = [i \in 0..N |-> IF i = 0 THEN FieldsStart ELSE FieldStep(record, delimiter, f[i - 1], i)]
           rec == FieldsAfter(record, delimiter)
<1>1. N \in Nat /\ DOMAIN record = 1..N
  OBVIOUS
<1>2. FieldsStart \in T
  BY DEF FieldsStart, FieldState
<1>3. \A i \in 1..N, s \in T : FieldStep(record, delimiter, s, i) \in T
  BY <1>1, FieldStepTyped
<1>4. rec = CHOOSE f : Solves(f)
  BY DEF FieldsAfter
<1> HIDE DEF N, T, rec
<1>5. g \in [1..N -> [T -> T]]
  BY <1>3
<1>6. \A i \in 1..N, s \in T : g[i][s] = FieldStep(record, delimiter, s, i)
  OBVIOUS
<1> HIDE DEF g
<1>7. PICK f : Iterates(f, T, N, FieldsStart, g)
  BY <1>1, <1>2, <1>5, IterationExists
<1>8. Solves(f)
  <2>1. /\ f = [i \in 0..N |-> f[i]] /\ f[0] = FieldsStart
        /\ \A i \in 1..N : f[i] = g[i][f[i - 1]] /\ f[i - 1] \in T
    BY <1>1, <1>7 DEF Iterates
  <2>2. \A i \in 1..N : f[i] = FieldStep(record, delimiter, f[i - 1], i)
    BY <1>6, <2>1
  <2>3. \A i \in 0..N : i # 0 => i \in 1..N
    BY <1>1
  <2>4. \A i \in 0..N : f[i] = IF i = 0 THEN FieldsStart ELSE FieldStep(record, delimiter, f[i - 1], i)
    BY <2>1, <2>2, <2>3
  <2> QED BY <2>1, <2>4
<1>9. Solves(rec)
  BY <1>4, <1>8
<1> DEFINE P == {i \in 0..N : rec[i] \in T}
<1>10. 0 \in P
  BY <1>1, <1>2, <1>9
<1>11. ASSUME NEW n \in 1..N, n - 1 \in P PROVE n \in P
  <2>1. n \in 0..N /\ n # 0 /\ rec[n - 1] \in T
    BY <1>1, <1>11
  <2>2. rec[n] = FieldStep(record, delimiter, rec[n - 1], n)
    BY <1>9, <2>1
  <2> QED BY <1>3, <2>1, <2>2
<1>12. \A n \in 0..N : n \in P
  <2> HIDE DEF P
  <2> QED BY <1>1, <1>10, <1>11, IntervalInduction
<1> QED BY <1>12 DEF N, T, rec

\* A record is cut into texts.
LEMMA FieldsTyped ==
  ASSUME NEW record \in Seq(Token), NEW delimiter
  PROVE  LET parsed == ParseDelimitedRecord(record, delimiter)
         IN parsed.ok \in BOOLEAN /\ parsed.fields \in Seq(Seq(Token))
<1> DEFINE end == FieldsAfter(record, delimiter)[Len(record)]
<1>1. end \in FieldState
  BY FieldsAfterTyped
<1>2. Pushed(end) \in FieldState
  BY <1>1, PushedTyped
<1>3. ParseDelimitedRecord(record, delimiter) =
        IF end.failed \/ end.quoted
          THEN [ok |-> FALSE, fields |-> <<>>]
          ELSE [ok |-> TRUE, fields |-> Pushed(end).fields]
  BY DEF ParseDelimitedRecord, FieldsAfter
<1>4. Pushed(end).fields \in Seq(Seq(Token)) /\ <<>> \in Seq(Seq(Token))
  BY <1>2 DEF FieldState
<1> HIDE DEF end
<1> QED BY <1>3, <1>4

\* A record that is accepted becomes a row.
LEMMA ConvertTyped ==
  ASSUME NEW fields \in Seq(Seq(Token)), NEW delimiter
  PROVE  LET converted == ConvertFields(fields, delimiter)
         IN converted.ok \in BOOLEAN /\ (converted.ok => converted.entry \in Row)
<1> DEFINE Fine(converted) ==
             converted.ok = FALSE \/ (converted.ok = TRUE /\ converted.entry \in Row)
           Usable == Len(fields) >= 2 /\ Field(fields, 1) # <<>> /\ IsPos(Field(fields, 2))
           base == BaseEntry(fields)
<1>1. \A n \in Nat \ {0} : Field(fields, n) \in Seq(Token)
  BY DEF Field
<1>2. ASSUME Usable PROVE base \in Row
  <2>1. fields[1] \in Seq(Token) /\ fields[2] \in Seq(Token) /\ fields[2][1] \in DOMAIN PosOf
    BY <1>2 DEF Field, IsPos
  <2>2. PosOf[fields[2][1]] \in Pos
    BY <2>1, Tables
  <2>3. (IF PosOf[fields[2][1]] = "Interjection" THEN "Interjection" ELSE "None") \in Conj
    BY DEF Conj
  <2>4. (fields[2] = <<"PROPN">>) \in BOOLEAN /\ <<>> \in Seq(Token)
    OBVIOUS
  <2> QED BY <2>1, <2>2, <2>3, <2>4 DEF BaseEntry, Row
<1>3. Fine(Rejected)
  BY DEF Rejected
<1>4. ASSUME NEW entry \in Row PROVE Fine(Accepted(entry))
  BY DEF Accepted
<1>5. ASSUME NEW field \in Seq(Token), IsConj(field) PROVE ConjOf[field[1]] \in Conj
  BY <1>5, Tables DEF IsConj
<1> HIDE DEF Fine, base
<1>6. ASSUME Usable PROVE Fine(LegacyTsv(fields))
  <2> DEFINE entry == [base EXCEPT !.legacy = TRUE, !.lemma = Field(fields, 6)]
             conj == Field(fields, 5)
  <2>1. base \in Row /\ conj \in Seq(Token)
    BY <1>1, <1>2, <1>6
  <2>2. entry \in Row
    <3>1. Field(fields, 6) \in Seq(Token)
      BY <1>1
    <3> QED BY <2>1, <3>1 DEF Row
  <2>3. ASSUME IsConj(conj) PROVE [entry EXCEPT !.conj = ConjOf[conj[1]]] \in Row
    <3>1. ConjOf[conj[1]] \in Conj
      BY <1>5, <2>1, <2>3
    <3> HIDE DEF entry, conj
    <3> QED BY <2>2, <3>1 DEF Row
  <2>4. LegacyTsv(fields) =
          IF (conj # <<>> /\ ~IsConj(conj)) \/ ~AllEmptyFrom(fields, 7)
            THEN Rejected
            ELSE Accepted(IF conj = <<>> THEN entry ELSE [entry EXCEPT !.conj = ConjOf[conj[1]]])
    BY DEF LegacyTsv, base
  <2> HIDE DEF entry, conj
  <2> QED BY <1>3, <1>4, <2>2, <2>3, <2>4
<1>7. ASSUME Usable PROVE Fine(CurrentTsv(fields))
  <2> DEFINE third == Field(fields, 3)
             fourth == Field(fields, 4)
             bare == third # <<>> /\ ~IsConj(third) /\ ~IsNumericField(third)
             conj == IF IsConj(third) THEN ConjOf[third[1]] ELSE base.conj
             lemma == IF bare THEN third ELSE fourth
             entry == [base EXCEPT !.padded = Len(fields) > 4, !.conj = conj, !.lemma = lemma]
  <2>1. base \in Row /\ third \in Seq(Token) /\ fourth \in Seq(Token)
    BY <1>1, <1>2, <1>7
  <2>2. conj \in Conj
    BY <1>5, <2>1 DEF Row
  <2>3. (Len(fields) > 4) \in BOOLEAN
    OBVIOUS
  <2>4. CurrentTsv(fields) =
          IF ~AllEmptyFrom(fields, 5) \/ (bare /\ fourth # <<>>) THEN Rejected ELSE Accepted(entry)
    BY DEF CurrentTsv, base
  <2>5. lemma \in Seq(Token)
    BY <2>1
  <2> HIDE DEF third, fourth, bare, conj, lemma
  <2>6. entry \in Row
    BY <2>1, <2>2, <2>3, <2>5 DEF Row
  <2> HIDE DEF entry
  <2> QED BY <1>3, <1>4, <2>4, <2>6
<1>8. ASSUME Usable PROVE Fine(LegacyCsv(fields))
  <2>1. base \in Row /\ Field(fields, 4) \in Seq(Token)
    BY <1>1, <1>2, <1>8
  <2>2. [base EXCEPT !.lemma = Field(fields, 4)] \in Row
    BY <2>1 DEF Row
  <2>3. LegacyCsv(fields) = Accepted([base EXCEPT !.lemma = Field(fields, 4)])
    BY DEF LegacyCsv, base
  <2> QED BY <1>4, <2>2, <2>3
<1>9. ASSUME NEW converted, Fine(converted) PROVE Fine(CheckedUtf8(converted))
  BY <1>3, <1>9 DEF CheckedUtf8
<1>10. CASE ~Usable
  <2>1. ConvertFields(fields, delimiter) = Rejected
    BY <1>10 DEF ConvertFields
  <2> QED BY <1>3, <2>1 DEF Fine
<1>11. CASE Usable
  <2>1. ~(Len(fields) < 2 \/ Field(fields, 1) = <<>> \/ ~IsPos(Field(fields, 2)))
    BY <1>11
  <2>2. ConvertFields(fields, delimiter) =
          IF delimiter # Tab THEN CheckedUtf8(LegacyCsv(fields))
          ELSE IF IsNumericField(Field(fields, 4)) THEN LegacyTsv(fields)
          ELSE CheckedUtf8(CurrentTsv(fields))
    BY <2>1 DEF ConvertFields
  <2>3. Fine(ConvertFields(fields, delimiter))
    BY <1>6, <1>7, <1>8, <1>9, <1>11, <2>2
  <2> QED BY <2>3 DEF Fine
<1> QED BY <1>10, <1>11

Warning == {"legacy layout", "padding", "closed class", "skipped record"}

\* Where the record scanner stands.
ScanState ==
  [quoted : BOOLEAN, nonspace : BOOLEAN, skip : BOOLEAN, from : Nat \ {0},
   delimiter : {"none", Tab, Comma}, entries : Seq(Row), warnings : Seq(Warning), failed : BOOLEAN]

LEMMA QuoteStepTyped ==
  ASSUME NEW s \in ScanState, NEW c, NEW escaped \in BOOLEAN, NEW delimiters
  PROVE  QuoteStep(s, c, escaped, delimiters) \in ScanState
<1>1. /\ [s EXCEPT !.skip = FALSE] \in ScanState /\ [s EXCEPT !.skip = TRUE] \in ScanState
      /\ [s EXCEPT !.quoted = FALSE] \in ScanState
      /\ [s EXCEPT !.nonspace = FALSE] \in ScanState /\ [s EXCEPT !.nonspace = TRUE] \in ScanState
  BY DEF ScanState
<1>2. [s EXCEPT !.quoted = ~s.nonspace] \in ScanState
  BY DEF ScanState
<1> QED BY <1>1, <1>2 DEF QuoteStep

\* What the end of a record does to the scanner.
LEMMA EndRecordTyped ==
  ASSUME NEW content \in Seq(Token), NEW end \in 1..Len(content) + 1, NEW lenient \in BOOLEAN,
         NEW s \in ScanState
  PROVE  EndRecord(content, end, lenient, s) \in ScanState
<1> DEFINE record == SubSeq(content, s.from, end - 1)
           trimmed == Trim(record)
           delimiter == IF s.delimiter = "none" THEN DetectDelimiter(record) ELSE s.delimiter
           parsed == ParseDelimitedRecord(record, delimiter)
           converted == ConvertFields(parsed.fields, delimiter)
<1>1. end + 1 \in Nat \ {0} /\ end \in Nat /\ Len(content) \in Nat
  OBVIOUS
<1>2. ASSUME NEW r \in ScanState PROVE NextRecord(r, end) \in ScanState
  BY <1>1 DEF NextRecord, ScanState
<1>3. record \in Seq(Token)
  <2>1. s.from \in Nat \ {0} /\ end - 1 \in 0..Len(content)
    BY <1>1 DEF ScanState
  <2>2. \A m \in Nat \ {0}, n \in 0..Len(content) : SubSeq(content, m, n) \in Seq(Token)
    OBVIOUS
  <2> QED BY <2>1, <2>2
<1>4. delimiter \in {"none", Tab, Comma}
  <2>1. \A r : DetectDelimiter(r) \in {"none", Tab, Comma}
    BY DEF DetectDelimiter
  <2> QED BY <2>1 DEF ScanState
<1> HIDE DEF record, delimiter
<1>5. parsed.ok \in BOOLEAN /\ parsed.fields \in Seq(Seq(Token))
  BY <1>3, FieldsTyped
<1> HIDE DEF parsed
<1>6. converted.ok \in BOOLEAN /\ (converted.ok => converted.entry \in Row)
  BY <1>5, ConvertTyped
<1> HIDE DEF converted
<1>7. EnterEntry(s, converted, delimiter, end) \in ScanState
  <2>1. CASE ~converted.ok
    <3>1. [s EXCEPT !.failed = TRUE] \in ScanState
      BY DEF ScanState
    <3> QED BY <2>1, <3>1 DEF EnterEntry
  <2>2. CASE converted.ok
    <3> DEFINE entry == converted.entry
    <3>1. EntryWarnings(entry) \in Seq(Warning)
      <4>1. \A w \in Warning : <<w>> \in Seq(Warning)
        OBVIOUS
      <4>2. <<>> \in Seq(Warning) /\ \A v, w \in Seq(Warning) : v \o w \in Seq(Warning)
        OBVIOUS
      <4>3. "legacy layout" \in Warning /\ "padding" \in Warning /\ "closed class" \in Warning
        BY DEF Warning
      <4>4. /\ (IF entry.legacy THEN <<"legacy layout">> ELSE <<>>) \in Seq(Warning)
            /\ (IF entry.padded THEN <<"padding">> ELSE <<>>) \in Seq(Warning)
            /\ (IF entry.pos = "Particle" THEN <<"closed class">> ELSE <<>>) \in Seq(Warning)
        BY <4>1, <4>2, <4>3
      <4> HIDE DEF entry
      <4> QED BY <4>2, <4>4 DEF EntryWarnings
    <3>2. s.warnings \o EntryWarnings(entry) \in Seq(Warning) /\ Append(s.entries, entry) \in Seq(Row)
      <4>1. entry \in Row /\ s.warnings \in Seq(Warning) /\ s.entries \in Seq(Row)
        BY <1>6, <2>2 DEF ScanState
      <4> HIDE DEF entry
      <4> QED BY <3>1, <4>1
    <3> HIDE DEF entry
    <3>3. [s EXCEPT !.delimiter = delimiter, !.entries = Append(s.entries, entry),
                    !.warnings = s.warnings \o EntryWarnings(entry)] \in ScanState
      BY <1>4, <3>2 DEF ScanState
    <3>4. NextRecord([s EXCEPT !.delimiter = delimiter, !.entries = Append(s.entries, entry),
                    !.warnings = s.warnings \o EntryWarnings(entry)], end) \in ScanState
      BY <1>2, <3>3
    <3> QED BY <2>2, <3>4 DEF EnterEntry, entry
  <2> QED BY <2>1, <2>2
<1>8. DataRecord(s, parsed, delimiter, end, lenient) \in ScanState
  <2>1. [s EXCEPT !.failed = TRUE] \in ScanState
    BY DEF ScanState
  <2>2. [s EXCEPT !.from = end + 1, !.warnings = Append(s.warnings, "skipped record")] \in ScanState
    <3>1. Append(s.warnings, "skipped record") \in Seq(Warning)
      <4>1. "skipped record" \in Warning /\ s.warnings \in Seq(Warning)
        BY DEF ScanState, Warning
      <4>2. \A v \in Seq(Warning), w \in Warning : Append(v, w) \in Seq(Warning)
        OBVIOUS
      <4> QED BY <4>1, <4>2
    <3> QED BY <1>1, <3>1 DEF ScanState
  <2>3. EnterEntry(s, ConvertFields(parsed.fields, delimiter), delimiter, end) \in ScanState
    BY <1>7 DEF converted
  <2> QED BY <1>5, <2>1, <2>2, <2>3 DEF DataRecord
<1>9. EndRecord(content, end, lenient, s) =
        IF trimmed = <<>> \/ trimmed[1] = Hash
          THEN NextRecord(s, end)
          ELSE DataRecord(s, parsed, delimiter, end, lenient)
  BY DEF EndRecord, record, delimiter, parsed
<1> QED BY <1>2, <1>8, <1>9

\* A token of the text keeps the scanner's state typed.
LEMMA ScanStepTyped ==
  ASSUME NEW content \in Seq(Token), NEW lenient \in BOOLEAN, NEW s \in ScanState, NEW i \in DOMAIN content
  PROVE  ScanStep(content, lenient, s, i) \in ScanState
<1> DEFINE scanned == QuoteStep(s, content[i], Escapes(content, i), {Tab, Comma})
<1>1. Escapes(content, i) \in BOOLEAN
  BY DEF Escapes
<1>2. scanned \in ScanState
  BY <1>1, QuoteStepTyped
<1> HIDE DEF scanned
<1>3. EndRecord(content, i, lenient, scanned) \in ScanState
  <2>1. i \in 1..Len(content) + 1
    OBVIOUS
  <2> QED BY <1>2, <2>1, EndRecordTyped
<1>4. ScanStep(content, lenient, s, i) =
        CASE s.failed -> s
          [] ~s.failed /\ content[i] = Newline /\ ~scanned.quoted -> EndRecord(content, i, lenient, scanned)
          [] OTHER -> scanned
  BY DEF ScanStep, scanned
<1>5. s.failed \in BOOLEAN
  BY DEF ScanState
<1> QED BY <1>2, <1>3, <1>4, <1>5

\* The states of the record scanner, as the recursion defines them.
ScanAfter(content, lenient) ==
  CHOOSE after : after = [i \in 0..Len(content) |-> IF i = 0 THEN ScanStart
                                                   ELSE ScanStep(content, lenient, after[i - 1], i)]

LEMMA ScanAfterIs ==
  ASSUME NEW content \in Seq(Token), NEW lenient \in BOOLEAN
  PROVE  /\ ScanAfter(content, lenient)[0] = ScanStart
         /\ \A i \in 0..Len(content) : ScanAfter(content, lenient)[i] \in ScanState
<1> DEFINE N == Len(content)
           T == ScanState
           g == [i \in 1..N |-> [s \in T |-> ScanStep(content, lenient, s, i)]]
           Solves(f) == f = [i \in 0..N |-> IF i = 0 THEN ScanStart ELSE ScanStep(content, lenient, f[i - 1], i)]
           rec == ScanAfter(content, lenient)
<1>1. N \in Nat /\ DOMAIN content = 1..N
  OBVIOUS
<1>2. ScanStart \in T
  BY DEF ScanStart, ScanState
<1>3. \A i \in 1..N, s \in T : ScanStep(content, lenient, s, i) \in T
  BY <1>1, ScanStepTyped
<1>4. rec = CHOOSE f : Solves(f)
  BY DEF ScanAfter
<1> HIDE DEF N, T, rec
<1>5. g \in [1..N -> [T -> T]]
  BY <1>3
<1>6. \A i \in 1..N, s \in T : g[i][s] = ScanStep(content, lenient, s, i)
  OBVIOUS
<1> HIDE DEF g
<1>7. PICK f : Iterates(f, T, N, ScanStart, g)
  BY <1>1, <1>2, <1>5, IterationExists
<1>8. Solves(f)
  <2>1. /\ f = [i \in 0..N |-> f[i]] /\ f[0] = ScanStart
        /\ \A i \in 1..N : f[i] = g[i][f[i - 1]] /\ f[i - 1] \in T
    BY <1>1, <1>7 DEF Iterates
  <2>2. \A i \in 1..N : f[i] = ScanStep(content, lenient, f[i - 1], i)
    BY <1>6, <2>1
  <2>3. \A i \in 0..N : i # 0 => i \in 1..N
    BY <1>1
  <2>4. \A i \in 0..N : f[i] = IF i = 0 THEN ScanStart ELSE ScanStep(content, lenient, f[i - 1], i)
    BY <2>1, <2>2, <2>3
  <2> QED BY <2>1, <2>4
<1>9. Solves(rec)
  BY <1>4, <1>8
<1> DEFINE P == {i \in 0..N : rec[i] \in T}
<1>10. 0 \in P /\ rec[0] = ScanStart
  BY <1>1, <1>2, <1>9
<1>11. ASSUME NEW n \in 1..N, n - 1 \in P PROVE n \in P
  <2>1. n \in 0..N /\ n # 0 /\ rec[n - 1] \in T
    BY <1>1, <1>11
  <2>2. rec[n] = ScanStep(content, lenient, rec[n - 1], n)
    BY <1>9, <2>1
  <2> QED BY <1>3, <2>1, <2>2
<1>12. \A n \in 0..N : n \in P
  <2>1. 0 \in P
    BY <1>10
  <2> HIDE DEF P
  <2> QED BY <1>1, <1>11, <2>1, IntervalInduction
<1> QED BY <1>10, <1>12 DEF N, T, rec

\* A text is parsed into rows; the empty text has none.
LEMMA ParsedTyped ==
  ASSUME NEW content \in Seq(Token), NEW lenient \in BOOLEAN
  PROVE  LET parsed == ParseDictionarySource(content, lenient)
         IN /\ parsed.ok \in BOOLEAN /\ parsed.entries \in Seq(Row)
            /\ content = <<>> => parsed.entries = <<>>
<1> DEFINE last == ScanAfter(content, lenient)[Len(content)]
           end == LastRecord(content, lenient, last)
<1>1. Len(content) \in Nat /\ last \in ScanState
  BY ScanAfterIs
<1>2. content = <<>> => last = ScanStart /\ Len(content) = 0
  BY ScanAfterIs
<1>3. ParseDictionarySource(content, lenient) = ParseResult(end)
  BY DEF ParseDictionarySource, ScanAfter
<1> HIDE DEF last
<1>4. end \in ScanState
  <2>1. Len(content) + 1 \in 1..Len(content) + 1
    BY <1>1
  <2>2. EndRecord(content, Len(content) + 1, lenient, last) \in ScanState
    BY <1>1, <2>1, EndRecordTyped
  <2> QED BY <1>1, <2>2 DEF LastRecord
<1>5. content = <<>> => end.entries = <<>>
  BY <1>2 DEF LastRecord, ScanStart
<1> HIDE DEF end
<1> QED BY <1>3, <1>4, <1>5 DEF ParseResult, ScanState

\* The states of the writer, as the recursion defines them.
RowsAfter(rows) ==
  CHOOSE upto : upto = [n \in 0..Len(rows) |-> IF n = 0 THEN <<>> ELSE upto[n - 1] \o TsvRow(rows[n])]

\* What the editor writes is a text; of no entries, the empty text.
LEMMA WrittenTyped ==
  ASSUME NEW rows \in Seq(Row)
  PROVE  /\ TsvRows(rows) \in Seq(Token) /\ TsvText(rows) \in Seq(Token)
         /\ rows = <<>> => TsvRows(rows) = <<>>
<1> DEFINE N == Len(rows)
           T == Seq(Token)
           g == [n \in 1..N |-> [t \in T |-> t \o TsvRow(rows[n])]]
           Solves(f) == f = [n \in 0..N |-> IF n = 0 THEN <<>> ELSE f[n - 1] \o TsvRow(rows[n])]
           rec == RowsAfter(rows)
<1>1. N \in Nat /\ DOMAIN rows = 1..N /\ <<>> \in T
  OBVIOUS
<1>2. Tab \in Token /\ Newline \in Token /\ \A t \in Token : <<t>> \in Seq(Token)
  BY DEF Token
<1>3. ASSUME NEW row \in Row PROVE TsvRow(row) \in Seq(Token)
  <2> DEFINE conj == IF row.conj # "None" \/ row.lemma # <<>> THEN <<Tab>> \o ConjString[row.conj] ELSE <<>>
             lemma == IF row.lemma # <<>> THEN <<Tab>> \o row.lemma ELSE <<>>
             pos == <<Tab, PosString[row.pos]>>
  <2>1. \A v, w \in Seq(Token) : v \o w \in Seq(Token)
    OBVIOUS
  <2>2. row.surface \in Seq(Token) /\ row.lemma \in Seq(Token) /\ row.pos \in Pos /\ row.conj \in Conj
    BY DEF Row
  <2>3. conj \in Seq(Token)
    <3>1. ConjString[row.conj] \in Seq(Token) /\ <<Tab>> \in Seq(Token)
      BY <1>2, <2>2, Tables
    <3> QED BY <2>1, <3>1
  <2>4. lemma \in Seq(Token)
    BY <1>2, <2>1, <2>2
  <2>5. pos \in Seq(Token)
    <3>1. PosString[row.pos] \in Token
      BY <2>2, Tables
    <3>2. \A t, u \in Token : <<t, u>> \in Seq(Token)
      OBVIOUS
    <3> QED BY <1>2, <3>1, <3>2
  <2>6. TsvRow(row) = row.surface \o pos \o conj \o lemma \o <<Newline>>
    BY DEF TsvRow
  <2> HIDE DEF pos, conj, lemma
  <2>7. <<Newline>> \in Seq(Token)
    BY <1>2
  <2>8. row.surface \o pos \in Seq(Token)
    BY <2>1, <2>2, <2>5
  <2>9. (row.surface \o pos) \o conj \in Seq(Token)
    BY <2>1, <2>3, <2>8
  <2>10. ((row.surface \o pos) \o conj) \o lemma \in Seq(Token)
    BY <2>1, <2>4, <2>9
  <2> QED BY <2>1, <2>6, <2>7, <2>10
<1>4. \A n \in 1..N, t \in T : t \o TsvRow(rows[n]) \in T
  <2>1. \A n \in 1..N : TsvRow(rows[n]) \in T
    BY <1>1, <1>3
  <2>2. \A t, u \in T : t \o u \in T
    OBVIOUS
  <2> QED BY <2>1, <2>2
<1>5. rec = CHOOSE f : Solves(f)
  BY DEF RowsAfter
<1>6. TsvRows(rows) = rec[N]
  BY DEF TsvRows, RowsAfter
<1>7. TsvHeader \in Seq(Token)
  <2>1. /\ Hash \in Token /\ "suzume" \in Token /\ Newline \in Token /\ "surface" \in Token /\ Tab \in Token
        /\ "pos" \in Token /\ "conj_type" \in Token /\ "lemma" \in Token
    BY DEF Token
  <2> QED BY <2>1 DEF TsvHeader
<1>8. rows = <<>> => N = 0
  OBVIOUS
<1> HIDE DEF N, T, rec
<1>9. g \in [1..N -> [T -> T]]
  BY <1>4
<1>10. \A n \in 1..N, t \in T : g[n][t] = t \o TsvRow(rows[n])
  OBVIOUS
<1> HIDE DEF g
<1>11. PICK f : Iterates(f, T, N, <<>>, g)
  BY <1>1, <1>9, IterationExists
<1>12. Solves(f)
  <2>1. /\ f = [n \in 0..N |-> f[n]] /\ f[0] = <<>>
        /\ \A n \in 1..N : f[n] = g[n][f[n - 1]] /\ f[n - 1] \in T
    BY <1>1, <1>11 DEF Iterates
  <2>2. \A n \in 1..N : f[n] = f[n - 1] \o TsvRow(rows[n])
    BY <1>10, <2>1
  <2>3. \A n \in 0..N : n # 0 => n \in 1..N
    BY <1>1
  <2>4. \A n \in 0..N : f[n] = IF n = 0 THEN <<>> ELSE f[n - 1] \o TsvRow(rows[n])
    BY <2>1, <2>2, <2>3
  <2> QED BY <2>1, <2>4
<1>13. Solves(rec)
  BY <1>5, <1>12
<1> DEFINE P == {n \in 0..N : rec[n] \in T}
<1>14. 0 \in P /\ rec[0] = <<>>
  BY <1>1, <1>13
<1>15. ASSUME NEW n \in 1..N, n - 1 \in P PROVE n \in P
  <2>1. n \in 0..N /\ n # 0 /\ rec[n - 1] \in T
    BY <1>1, <1>15
  <2>2. rec[n] = rec[n - 1] \o TsvRow(rows[n])
    BY <1>13, <2>1
  <2> QED BY <1>4, <2>1, <2>2
<1>16. \A n \in 0..N : n \in P
  <2>1. 0 \in P
    BY <1>14
  <2> HIDE DEF P
  <2> QED BY <1>1, <1>15, <2>1, IntervalInduction
<1>17. rec[N] \in Seq(Token)
  BY <1>1, <1>16 DEF T
<1>18. TsvHeader \o rec[N] \in Seq(Token)
  BY <1>7, <1>17
<1> QED BY <1>6, <1>8, <1>14, <1>17, <1>18 DEF TsvText

-----------------------------------------------------------------------------
(* The forms of a row *)

Epos == STRING \cup Pos \cup Conj \cup {"NounProper"}

Entry == [surface : Seq(Token), pos : Pos, epos : Epos, lemma : Seq(Token)]

\* A surface that ends with one token is its stem and this token.
LEMMA StemAndEnding ==
  ASSUME NEW surface \in Seq(Token), NEW ending \in Seq(Token), Len(ending) = 1, EndsWith(surface, ending)
  PROVE  Stem(surface) \o ending = surface
<1> DEFINE N == Len(surface)
<1>1. IsPrefix(Reverse(ending), Reverse(surface))
  BY DEF EndsWith, IsSuffix
<1>2. Len(ending) = 1 /\ N \in Nat /\ ending[1] \in Token
  OBVIOUS
<1>3. Len(Reverse(ending)) = 1 /\ Reverse(ending)[1] = ending[1] /\ Len(Reverse(surface)) = N
  BY <1>2 DEF Reverse
<1>4. N >= 1 /\ Reverse(surface)[1] = ending[1]
  BY <1>1, <1>2, <1>3 DEF IsPrefix
<1>5. Reverse(surface)[1] = surface[N]
  BY <1>2, <1>4 DEF Reverse
<1>6. Stem(surface) = SubSeq(surface, 1, N - 1)
  BY DEF Stem
<1>7. /\ SubSeq(surface, 1, N - 1) \in Seq(Token) /\ Len(SubSeq(surface, 1, N - 1)) = N - 1
      /\ \A i \in 1..N - 1 : SubSeq(surface, 1, N - 1)[i] = surface[i]
  BY <1>2, <1>4
<1> HIDE DEF N
<1> DEFINE stem == SubSeq(surface, 1, N - 1)
           whole == stem \o ending
<1>8. whole \in Seq(Token) /\ Len(whole) = N /\ \A i \in 1..N : whole[i] = surface[i]
  <2>1. stem \in Seq(Token) /\ Len(stem) = N - 1 /\ \A i \in 1..N - 1 : stem[i] = surface[i]
    BY <1>7
  <2> HIDE DEF stem
  <2>2. whole \in Seq(Token) /\ Len(whole) = N
    <3>1. whole \in Seq(Token) /\ Len(whole) = Len(stem) + Len(ending)
      BY <2>1, ConcatProperties
    <3> HIDE DEF whole
    <3> QED BY <1>2, <1>4, <2>1, <3>1
  <2>3. ASSUME NEW i \in 1..N - 1 PROVE whole[i] = surface[i]
    BY <1>2, <1>4, <2>1
  <2>4. whole[N] = ending[1]
    <3>1. N \in 1..Len(stem) + Len(ending) /\ ~(N <= Len(stem)) /\ N - Len(stem) = 1
      BY <1>2, <1>4, <2>1
    <3> QED BY <2>1, <3>1, ConcatProperties
  <2>5. \A i \in 1..N : i \in 1..N - 1 \/ i = N
    BY <1>2, <1>4
  <2> QED BY <1>4, <1>5, <2>2, <2>3, <2>4, <2>5
<1> HIDE DEF whole, stem
<1>9. surface \in Seq(Token) /\ Len(surface) = N /\ Len(whole) = Len(surface) /\ DOMAIN surface = 1..N
  BY <1>8 DEF N
<1>10. whole = surface
  BY <1>8, <1>9, SeqEqual
<1> QED BY <1>6, <1>10 DEF whole, stem

\* The endings of a conjugation class.
LEMMA EndingsTyped ==
  ASSUME NEW class \in {"Ichidan", "GodanRa", "IAdjective"}
  PROVE  /\ Endings[class] \in Seq([ending : Seq(Token), epos : Epos])
         /\ 1 \in DOMAIN Endings[class]
         /\ \A n \in DOMAIN Endings[class] :
              Endings[class][n].ending \in Seq(Token) /\ Endings[class][n].epos \in Epos
         /\ BaseEnding(class) = Endings[class][1].ending
         /\ Len(BaseEnding(class)) = 1
<1>1. /\ Endings[class] \in Seq([ending : Seq(STRING), epos : STRING]) \ {<<>>}
      /\ Len(Endings[class][1].ending) = 1
  BY SuffixesAssumption
<1>2. STRING \subseteq Token /\ STRING \subseteq Epos
  BY DEF Token, Epos
<1>3. [ending : Seq(STRING), epos : STRING] \subseteq [ending : Seq(Token), epos : Epos]
  <2>1. \A S, T : S \subseteq T => Seq(S) \subseteq Seq(T)
    OBVIOUS
  <2>2. Seq(STRING) \subseteq Seq(Token)
    BY <1>2, <2>1
  <2> QED BY <1>2, <2>2
<1>4. \A S, T : S \subseteq T => Seq(S) \subseteq Seq(T)
  OBVIOUS
<1>5. Endings[class] \in Seq([ending : Seq(Token), epos : Epos])
  BY <1>1, <1>3, <1>4
<1>6. 1 \in DOMAIN Endings[class]
  BY <1>1
<1>7. \A n \in DOMAIN Endings[class] :
        Endings[class][n].ending \in Seq(Token) /\ Endings[class][n].epos \in Epos
  <2>1. \A n \in DOMAIN Endings[class] : Endings[class][n] \in [ending : Seq(Token), epos : Epos]
    <3>1. \A R : \A t \in Seq(R) : \A n \in DOMAIN t : t[n] \in R
      OBVIOUS
    <3> QED BY <1>5, <3>1
  <2> QED BY <2>1
<1> QED BY <1>1, <1>5, <1>6, <1>7 DEF BaseEnding

\* An entry made from a row as it is written.
LEMMA BaseEntryTyped ==
  ASSUME NEW row \in Row
  PROVE  MakeBaseEntry(row) \in Entry /\ MakeBaseEntry(row).surface = row.surface /\ MakeBaseEntry(row).pos = row.pos
<1>1. row.surface \in Seq(Token) /\ row.pos \in Pos /\ row.lemma \in Seq(Token) /\ row.conj \in Conj
  BY DEF Row
<1>2. ExtendedPos(row) \in Epos
  BY <1>1 DEF ExtendedPos, Epos
<1> QED BY <1>1, <1>2 DEF MakeBaseEntry, Entry

\* What a row is inflected into.
LEMMA InflectedTyped ==
  ASSUME NEW row \in Row, NEW class \in {"Ichidan", "GodanRa", "IAdjective"}, EndsWith(row.surface, BaseEnding(class))
  PROVE  LET forms == Inflected(row, class)
         IN  /\ forms \in Seq(Entry)
             /\ \A n \in DOMAIN forms : forms[n].pos = row.pos
             /\ \E n \in DOMAIN forms : forms[n].surface = row.surface
<1> DEFINE forms == Inflected(row, class)
           endings == Endings[class]
           base == MakeBaseEntry(row)
           form(n) == [base EXCEPT !.surface = Stem(row.surface) \o endings[n].ending,
                                   !.epos = endings[n].epos]
<1>1. /\ endings \in Seq([ending : Seq(Token), epos : Epos]) /\ 1 \in DOMAIN endings
      /\ \A n \in DOMAIN endings : endings[n].ending \in Seq(Token) /\ endings[n].epos \in Epos
      /\ BaseEnding(class) = endings[1].ending /\ Len(BaseEnding(class)) = 1
  BY EndingsTyped
<1>2. forms = [n \in DOMAIN endings |-> form(n)]
  BY DEF Inflected
<1>3. base \in Entry /\ base.pos = row.pos /\ row.surface \in Seq(Token)
  BY BaseEntryTyped DEF Row
<1>4. Stem(row.surface) \o endings[1].ending = row.surface
  <2>1. endings[1].ending \in Seq(Token)
    BY <1>1
  <2> HIDE DEF endings
  <2> QED BY <1>1, <1>3, <2>1, StemAndEnding
<1>5. Stem(row.surface) \in Seq(Token)
  <2>1. ASSUME NEW t \in Seq(Token) PROVE SubSeq(t, 1, Len(t) - 1) \in Seq(Token)
    OBVIOUS
  <2> QED BY <1>3, <2>1 DEF Stem
<1>6. DOMAIN endings = 1..Len(endings) /\ Len(endings) \in Nat
  BY <1>1
<1> HIDE DEF forms, endings, base
<1>7. ASSUME NEW n \in DOMAIN endings
      PROVE  form(n) \in Entry /\ form(n).pos = row.pos /\ form(n).surface = Stem(row.surface) \o endings[n].ending
  <2>1. endings[n].ending \in Seq(Token) /\ endings[n].epos \in Epos
    BY <1>1
  <2>2. Stem(row.surface) \o endings[n].ending \in Seq(Token)
    BY <1>5, <2>1
  <2> QED BY <1>3, <2>1, <2>2 DEF Entry
<1>8. forms \in Seq(Entry) /\ DOMAIN forms = DOMAIN endings /\ \A n \in DOMAIN endings : forms[n] = form(n)
  <2> HIDE DEF form
  <2>1. \A n \in DOMAIN endings : form(n) \in Entry
    BY <1>7
  <2>2. forms \in [1..Len(endings) -> Entry]
    BY <1>2, <1>6, <2>1
  <2> QED BY <1>2, <1>6, <2>2
<1> HIDE DEF form
<1>9. forms[1].surface = row.surface
  BY <1>1, <1>4, <1>7, <1>8
<1> QED BY <1>1, <1>7, <1>8, <1>9 DEF forms

\* Whatever a row becomes, one of its forms has its own surface, and all have
\* its part of speech.
LEMMA FormsTyped ==
  ASSUME NEW row \in Row, NEW adjectives
  PROVE  LET forms == Forms(row, adjectives)
         IN  /\ forms \in Seq(Entry)
             /\ \A n \in DOMAIN forms : forms[n].pos = row.pos
             /\ \E n \in DOMAIN forms : forms[n].surface = row.surface
<1> DEFINE forms == Forms(row, adjectives)
           base == MakeBaseEntry(row)
<1>1. base \in Entry /\ base.surface = row.surface /\ base.pos = row.pos
  BY BaseEntryTyped
<1>2. ASSUME NEW e \in Entry, e.surface = row.surface, e.pos = row.pos, forms = <<e>>
      PROVE  /\ forms \in Seq(Entry) /\ \A n \in DOMAIN forms : forms[n].pos = row.pos
             /\ \E n \in DOMAIN forms : forms[n].surface = row.surface
  <2>1. forms \in Seq(Entry) /\ DOMAIN forms = {1} /\ forms[1] = e
    BY <1>2
  <2> QED BY <1>2, <2>1
<1>3. CASE ~NeedsExpansion(row)
  <2>1. forms = <<base>>
    BY <1>3 DEF Forms
  <2> QED BY <1>1, <1>2, <2>1
<1>4. CASE NeedsExpansion(row) /\ row.pos = "Verb"
  <2>1. row.conj \in {"Ichidan", "GodanRa"} /\ EndsWith(row.surface, BaseEnding(row.conj))
    BY <1>4 DEF NeedsExpansion, ConjugationFits, VerbClasses
  <2>2. forms = Inflected(row, row.conj)
    BY <1>4 DEF Forms
  <2>3. row.conj \in {"Ichidan", "GodanRa", "IAdjective"}
    BY <2>1
  <2> QED BY <2>1, <2>2, <2>3, InflectedTyped
<1>5. CASE NeedsExpansion(row) /\ row.pos # "Verb"
  <2> DEFINE other == [base EXCEPT !.epos = Endings["IAdjective"][1].epos]
             Kept == ~EndsWith(row.surface, <<"i">>) \/ YoiVariant(row.surface) \in adjectives
  <2>1. forms = IF Kept THEN <<other>> ELSE Inflected(row, "IAdjective")
    BY <1>5 DEF Forms
  <2>2. CASE Kept
    <3>1. Endings["IAdjective"][1].epos \in Epos
      BY EndingsTyped
    <3>2. other \in Entry /\ other.surface = row.surface /\ other.pos = row.pos
      <4> HIDE DEF base
      <4> QED BY <1>1, <3>1 DEF Entry
    <3>3. forms = <<other>>
      BY <2>1, <2>2
    <3> HIDE DEF other
    <3> QED BY <1>2, <3>2, <3>3 DEF forms
  <2>3. CASE ~Kept
    <3>1. BaseEnding("IAdjective") = <<"i">>
      <4>1. Endings["IAdjective"][1].ending = <<"i">>
        BY SuffixesAssumption
      <4> QED BY <4>1 DEF BaseEnding
    <3>2. EndsWith(row.surface, BaseEnding("IAdjective")) /\ forms = Inflected(row, "IAdjective")
      BY <2>1, <2>3, <3>1
    <3> QED BY <3>2, InflectedTyped
  <2> QED BY <2>2, <2>3
<1> QED BY <1>3, <1>4, <1>5

-----------------------------------------------------------------------------
(* Merging forms *)

Seen == [index : Nat, lemmaLength : Nat, pos : Pos, explicit : BOOLEAN]

\* The maps from some of K to what was seen.
Maps(K) == UNION {[D -> Seen] : D \in SUBSET K}

Keys == Seq(Token) \X Pos

Expansion ==
  [entries : Seq(Entry), identities : SUBSET Entry, bySurface : Maps(Seq(Token)),
   bySurfacePos : Maps(Keys), skipped : Nat]

LEMMA MapIs ==
  ASSUME NEW K, NEW f
  PROVE  /\ f \in Maps(K) => /\ DOMAIN f \subseteq K /\ f = [x \in DOMAIN f |-> f[x]]
                             /\ \A x \in DOMAIN f : f[x] \in Seen
         /\ \A D \in SUBSET K : f \in [D -> Seen] => f \in Maps(K)
BY DEF Maps

\* Putting, changing and dropping an element of a map.
LEMMA MapSteps ==
  ASSUME NEW K, NEW f \in Maps(K), NEW x \in K, NEW v \in Seen
  PROVE  /\ Put(f, x, v) \in Maps(K) /\ Without(f, x) \in Maps(K)
         /\ [f EXCEPT ![x] = v] \in Maps(K) /\ DOMAIN [f EXCEPT ![x] = v] = DOMAIN f
         /\ \A y \in DOMAIN f : [f EXCEPT ![x] = v][y] = IF y = x THEN v ELSE f[y]
<1>1. DOMAIN f \subseteq K /\ f = [y \in DOMAIN f |-> f[y]] /\ \A y \in DOMAIN f : f[y] \in Seen
  BY MapIs
<1>2. Put(f, x, v) \in [DOMAIN f \cup {x} -> Seen]
  BY <1>1 DEF Put
<1>3. Without(f, x) \in [DOMAIN f \ {x} -> Seen]
  BY <1>1 DEF Without
<1>4. /\ [f EXCEPT ![x] = v] \in [DOMAIN f -> Seen]
      /\ \A y \in DOMAIN f : [f EXCEPT ![x] = v][y] = IF y = x THEN v ELSE f[y]
  BY <1>1
<1>5. DOMAIN f \cup {x} \in SUBSET K /\ DOMAIN f \ {x} \in SUBSET K /\ DOMAIN f \in SUBSET K
  BY <1>1
<1>6. \A g : \A D \in SUBSET K : g \in [D -> Seen] => g \in Maps(K)
  BY MapIs
<1>7. Put(f, x, v) \in Maps(K) /\ Without(f, x) \in Maps(K) /\ [f EXCEPT ![x] = v] \in Maps(K)
  BY <1>2, <1>3, <1>4, <1>5, <1>6
<1> QED BY <1>4, <1>7

LEMMA SeenAsTyped ==
  ASSUME NEW entry \in Entry, NEW index \in Nat, NEW explicit \in BOOLEAN
  PROVE  LET seen == SeenAs(entry, index, explicit)
         IN seen \in Seen /\ seen.index = index /\ seen.pos = entry.pos /\ seen.explicit = explicit
BY DEF SeenAs, Seen, Entry

\* The keys a row has claimed for its own surface.
OwnKeys(r) == {k \in DOMAIN r.bySurfacePos : k[1] \in DOMAIN r.bySurface /\ r.bySurface[k[1]].explicit}

\* The two indexes describe the entries kept so far, own being the forms with
\* the surface of their own row: a surface that no row claims has one entry,
\* the entries of a surface that a row claims are forms of such rows, a key
\* has one entry, and an identity is an entry or was merged into one.
Indexed(r, own) ==
  /\ r \in Expansion
  /\ \A x \in DOMAIN r.bySurface :
       /\ r.bySurface[x].index \in DOMAIN r.entries
       /\ Key(r.entries[r.bySurface[x].index]) = <<x, r.bySurface[x].pos>>
  /\ \A i \in DOMAIN r.entries : r.entries[i].surface \in DOMAIN r.bySurface
  /\ \A i \in DOMAIN r.entries :
       LET seen == r.bySurface[r.entries[i].surface]
       IN IF seen.explicit THEN r.entries[i] \in own ELSE i = seen.index
  /\ \A k \in DOMAIN r.bySurfacePos :
       r.bySurfacePos[k].index \in DOMAIN r.entries /\ Key(r.entries[r.bySurfacePos[k].index]) = k
  /\ \A i \in DOMAIN r.entries :
       Key(r.entries[i]) \in DOMAIN r.bySurfacePos /\ r.bySurfacePos[Key(r.entries[i])].index = i
  /\ \A e \in r.identities :
       /\ e.surface \in DOMAIN r.bySurface
       /\ IF r.bySurface[e.surface].explicit
            THEN Key(e) \in DOMAIN r.bySurfacePos
            ELSE e = r.entries[r.bySurface[e.surface].index]

\* What meeting one more form does: its surface is found afterwards, and the
\* key of a row's own form is claimed for good.
Meets(r, s, entry, explicit, own) ==
  /\ Indexed(s, own)
  /\ DOMAIN s.bySurface = DOMAIN r.bySurface \cup {entry.surface}
  /\ OwnKeys(r) \subseteq OwnKeys(s)
  /\ explicit => Key(entry) \in OwnKeys(s)

LEMMA ExpansionFields ==
  ASSUME NEW r \in Expansion
  PROVE  /\ r.entries \in Seq(Entry) /\ r.identities \in SUBSET Entry /\ r.bySurface \in Maps(Seq(Token))
         /\ r.bySurfacePos \in Maps(Keys) /\ r.skipped \in Nat
         /\ Len(r.entries) \in Nat /\ DOMAIN r.entries = 1..Len(r.entries)
         /\ \A i \in DOMAIN r.entries : r.entries[i] \in Entry
         /\ Skip(r) \in Expansion /\ Skip(r).entries = r.entries /\ Skip(r).identities = r.identities
         /\ Skip(r).bySurface = r.bySurface /\ Skip(r).bySurfacePos = r.bySurfacePos
<1>1. /\ r.entries \in Seq(Entry) /\ r.identities \in SUBSET Entry /\ r.bySurface \in Maps(Seq(Token))
      /\ r.bySurfacePos \in Maps(Keys) /\ r.skipped \in Nat
  BY DEF Expansion
<1>2. \A t \in Seq(Entry) : Len(t) \in Nat /\ DOMAIN t = 1..Len(t) /\ \A i \in DOMAIN t : t[i] \in Entry
  OBVIOUS
<1>3. /\ Skip(r) \in Expansion /\ Skip(r).entries = r.entries /\ Skip(r).identities = r.identities
      /\ Skip(r).bySurface = r.bySurface /\ Skip(r).bySurfacePos = r.bySurfacePos
  BY DEF Expansion, Skip
<1> QED BY <1>1, <1>2, <1>3

LEMMA KeyOf ==
  ASSUME NEW entry \in Entry
  PROVE  /\ Key(entry) \in Keys /\ Key(entry)[1] = entry.surface /\ Key(entry)[2] = entry.pos
         /\ Key(entry) = <<entry.surface, entry.pos>> /\ entry.surface \in Seq(Token) /\ entry.pos \in Pos
BY DEF Key, Keys, Entry

LEMMA SkipMeets ==
  ASSUME NEW own, NEW r, Indexed(r, own), NEW entry \in Entry, entry.surface \in DOMAIN r.bySurface,
         NEW explicit \in BOOLEAN, explicit => Key(entry) \in OwnKeys(r)
  PROVE  Meets(r, Skip(r), entry, explicit, own)
<1> DEFINE s == Skip(r)
<1>1. r \in Expansion
  BY DEF Indexed
<1>2. /\ s \in Expansion /\ s.entries = r.entries /\ s.identities = r.identities
      /\ s.bySurface = r.bySurface /\ s.bySurfacePos = r.bySurfacePos
  BY <1>1, ExpansionFields
<1> HIDE DEF s
<1>3. OwnKeys(s) = OwnKeys(r)
  BY <1>2 DEF OwnKeys
<1>4. Indexed(s, own)
  BY <1>2 DEF Indexed
<1> QED BY <1>2, <1>3, <1>4 DEF Meets, s

\* What replacing an entry leaves.
LEMMA ReplaceFields ==
  ASSUME NEW r \in Expansion, NEW i \in DOMAIN r.entries, NEW entry \in Entry
  PROVE  LET t == Replace(r, i, entry)
         IN  /\ t \in Expansion /\ t.entries = [r.entries EXCEPT ![i] = entry]
             /\ t.identities = (r.identities \ {r.entries[i]}) \cup {entry}
             /\ t.bySurface = r.bySurface /\ t.bySurfacePos = r.bySurfacePos
             /\ DOMAIN t.entries = DOMAIN r.entries /\ t.entries[i] = entry
             /\ \A j \in DOMAIN r.entries : j # i => t.entries[j] = r.entries[j]
<1> DEFINE es == [r.entries EXCEPT ![i] = entry]
           ids == (r.identities \ {r.entries[i]}) \cup {entry}
<1>1. /\ r.entries \in Seq(Entry) /\ r.identities \in SUBSET Entry /\ r.skipped + 1 \in Nat
      /\ DOMAIN r.entries = 1..Len(r.entries)
  BY ExpansionFields
<1>2. es \in Seq(Entry) /\ ids \in SUBSET Entry
  BY <1>1, ExceptSeq
<1>3. DOMAIN es = DOMAIN r.entries /\ es[i] = entry /\ \A j \in DOMAIN r.entries : j # i => es[j] = r.entries[j]
  BY <1>1
<1>4. Replace(r, i, entry) = [r EXCEPT !.entries = es, !.identities = ids, !.skipped = r.skipped + 1]
  BY DEF Replace, Expansion
<1> HIDE DEF es, ids
<1>5. LET t == [r EXCEPT !.entries = es, !.identities = ids, !.skipped = r.skipped + 1]
      IN  /\ t \in Expansion /\ t.entries = es /\ t.identities = ids
          /\ t.bySurface = r.bySurface /\ t.bySurfacePos = r.bySurfacePos
  BY <1>1, <1>2 DEF Expansion
<1> QED BY <1>3, <1>4, <1>5 DEF es, ids

\* A form takes the place of an entry of its own key that no row claims.
LEMMA MeetGeneratedMeets ==
  ASSUME NEW own, NEW r, Indexed(r, own), NEW entry \in Entry, entry.surface \in DOMAIN r.bySurface
  PROVE  Meets(r, MeetGenerated(r, entry), entry, FALSE, own)
<1> DEFINE seen == r.bySurface[entry.surface]
           longer == SeenAs(entry, seen.index, FALSE)
           s == [Replace(r, seen.index, entry) EXCEPT
                   !.bySurface[entry.surface] = longer, !.bySurfacePos[Key(entry)] = longer]
           Longer == ~seen.explicit /\ entry.pos = seen.pos /\ Len(entry.lemma) > seen.lemmaLength
<1>1. CASE ~Longer
  <2>1. MeetGenerated(r, entry) = Skip(r)
    BY <1>1 DEF MeetGenerated
  <2> QED BY <2>1, SkipMeets
<1>2. CASE Longer
  <2> DEFINE i == seen.index
             x == entry.surface
             k == Key(entry)
             es == [r.entries EXCEPT ![i] = entry]
             ids == (r.identities \ {r.entries[i]}) \cup {entry}
             bs == [r.bySurface EXCEPT ![x] = longer]
             bsp == [r.bySurfacePos EXCEPT ![k] = longer]
  <2>0. MeetGenerated(r, entry) = s
    BY <1>2 DEF MeetGenerated
  <2>1. r \in Expansion /\ i \in DOMAIN r.entries /\ Key(r.entries[i]) = <<x, seen.pos>>
    BY DEF Indexed
  <2>2. /\ r.entries \in Seq(Entry) /\ r.identities \in SUBSET Entry /\ r.bySurface \in Maps(Seq(Token))
        /\ r.bySurfacePos \in Maps(Keys) /\ r.skipped \in Nat
        /\ Len(r.entries) \in Nat /\ DOMAIN r.entries = 1..Len(r.entries)
        /\ \A j \in DOMAIN r.entries : r.entries[j] \in Entry
    BY <2>1, ExpansionFields
  <2>3. x \in Seq(Token) /\ k \in Keys /\ k = <<x, entry.pos>> /\ k[1] = x
    BY KeyOf
  <2>4. longer \in Seen /\ longer.index = i /\ longer.pos = entry.pos /\ longer.explicit = FALSE
    <3>1. i \in Nat
      BY <2>1, <2>2
    <3> HIDE DEF seen
    <3> QED BY <3>1, SeenAsTyped
  <2>5. s \in Expansion /\ s.entries = es /\ s.identities = ids /\ s.bySurface = bs /\ s.bySurfacePos = bsp
    <3> DEFINE t == Replace(r, i, entry)
    <3>1. /\ t \in Expansion /\ t.entries = es /\ t.identities = ids
          /\ t.bySurface = r.bySurface /\ t.bySurfacePos = r.bySurfacePos
      <4> HIDE DEF i
      <4> QED BY <2>1, ReplaceFields
    <3>2. s = [t EXCEPT !.bySurface[x] = longer, !.bySurfacePos[k] = longer]
      OBVIOUS
    <3> HIDE DEF longer, x, k, i, t, s
    <3>3. bs \in Maps(Seq(Token)) /\ bsp \in Maps(Keys)
      BY <2>2, <2>3, <2>4, MapSteps
    <3>4. s = [t EXCEPT !.bySurface = bs, !.bySurfacePos = bsp]
      BY <3>1, <3>2 DEF Expansion
    <3> HIDE DEF es, ids, bs, bsp
    <3>5. /\ s \in Expansion /\ s.entries = t.entries /\ s.identities = t.identities
          /\ s.bySurface = bs /\ s.bySurfacePos = bsp
      BY <3>1, <3>3, <3>4 DEF Expansion
    <3> QED BY <3>1, <3>5
  <2>6. DOMAIN es = DOMAIN r.entries /\ es[i] = entry /\ \A j \in DOMAIN es : j # i => es[j] = r.entries[j]
    BY <2>1, <2>2
  <2>7. /\ DOMAIN bs = DOMAIN r.bySurface /\ bs[x] = longer
        /\ \A y \in DOMAIN bs : y # x => bs[y] = r.bySurface[y]
    BY <2>2, <2>3, <2>4, MapSteps
  <2>8. /\ DOMAIN bsp = DOMAIN r.bySurfacePos
        /\ \A y \in DOMAIN bsp : bsp[y] = IF y = k THEN longer ELSE r.bySurfacePos[y]
    BY <2>2, <2>3, <2>4, MapSteps
  <2>9. seen.pos = entry.pos /\ seen.explicit = FALSE /\ Key(r.entries[i]) = k
    <3>1. seen \in Seen
      BY <2>2, MapIs
    <3> QED BY <1>2, <2>1, <2>3, <3>1 DEF Seen
  <2>10. \A j \in DOMAIN r.entries : Key(r.entries[j]) = <<r.entries[j].surface, r.entries[j].pos>>
    BY DEF Key
  <2>11. r.entries[i].surface = x
    <3>1. <<r.entries[i].surface, r.entries[i].pos>> = <<x, seen.pos>>
      BY <2>1 DEF Key
    <3> HIDE DEF seen, i, x
    <3> QED BY <3>1
  <2> HIDE DEF s, longer, es, bs, bsp, i, x, k
  <2>12. \A j \in DOMAIN es : Key(es[j]) = Key(r.entries[j]) /\ es[j].surface = r.entries[j].surface
    BY <2>6, <2>9, <2>11 DEF x, k
  <2>13. Indexed(s, own)
    <3>1. ASSUME NEW y \in DOMAIN bs
          PROVE  bs[y].index \in DOMAIN es /\ Key(es[bs[y].index]) = <<y, bs[y].pos>>
      <4>1. CASE y = x
        BY <2>1, <2>3, <2>4, <2>6, <2>7, <4>1 DEF k
      <4>2. CASE y # x
        <5>1. r.bySurface[y].index \in DOMAIN r.entries /\ Key(r.entries[r.bySurface[y].index]) = <<y, r.bySurface[y].pos>>
          BY <2>7, <3>1 DEF Indexed
        <5> QED BY <2>6, <2>7, <2>12, <4>2, <5>1
      <4> QED BY <4>1, <4>2
    <3>2. ASSUME NEW j \in DOMAIN es PROVE es[j].surface \in DOMAIN bs
      BY <2>6, <2>7, <2>12 DEF Indexed
    <3>3. ASSUME NEW j \in DOMAIN es
          PROVE  IF bs[es[j].surface].explicit THEN es[j] \in own ELSE j = bs[es[j].surface].index
      <4>1. IF r.bySurface[r.entries[j].surface].explicit THEN r.entries[j] \in own
            ELSE j = r.bySurface[r.entries[j].surface].index
        BY <2>6 DEF Indexed
      <4>2. CASE es[j].surface = x
        BY <2>4, <2>7, <2>9, <2>12, <4>1, <4>2 DEF i, x
      <4>3. CASE es[j].surface # x
        BY <2>6, <2>7, <2>11, <2>12, <3>2, <4>1, <4>3
      <4> QED BY <4>2, <4>3
    <3>4. ASSUME NEW y \in DOMAIN bsp PROVE bsp[y].index \in DOMAIN es /\ Key(es[bsp[y].index]) = y
      <4>1. CASE y = k
        BY <2>1, <2>4, <2>6, <2>8, <4>1 DEF k
      <4>2. CASE y # k
        <5>1. /\ r.bySurfacePos[y].index \in DOMAIN r.entries
              /\ Key(r.entries[r.bySurfacePos[y].index]) = y
          BY <2>8, <3>4 DEF Indexed
        <5>2. bsp[y] = r.bySurfacePos[y]
          BY <2>8, <3>4, <4>2
        <5> QED BY <2>6, <2>12, <5>1, <5>2
      <4> QED BY <4>1, <4>2
    <3>5. ASSUME NEW j \in DOMAIN es PROVE Key(es[j]) \in DOMAIN bsp /\ bsp[Key(es[j])].index = j
      <4>1. Key(r.entries[j]) \in DOMAIN r.bySurfacePos /\ r.bySurfacePos[Key(r.entries[j])].index = j
        BY <2>6 DEF Indexed
      <4>2. r.bySurfacePos[Key(r.entries[i])].index = i
        BY <2>1 DEF Indexed
      <4> QED BY <2>4, <2>8, <2>9, <2>12, <4>1, <4>2
    <3>6. ASSUME NEW e \in ids
          PROVE  /\ e.surface \in DOMAIN bs
                 /\ IF bs[e.surface].explicit THEN Key(e) \in DOMAIN bsp ELSE e = es[bs[e.surface].index]
      <4>1. CASE e = entry
        BY <2>4, <2>6, <2>7, <4>1 DEF x
      <4>2. CASE e # entry
        <5>1. e \in r.identities /\ e # r.entries[i]
          BY <4>2
        <5>2. /\ e.surface \in DOMAIN r.bySurface
              /\ IF r.bySurface[e.surface].explicit THEN Key(e) \in DOMAIN r.bySurfacePos
                 ELSE e = r.entries[r.bySurface[e.surface].index]
          BY <5>1 DEF Indexed
        <5>3. e.surface # x
          BY <2>9, <5>1, <5>2 DEF i, x
        <5>4. bs[e.surface] = r.bySurface[e.surface] /\ e.surface \in DOMAIN bs
          BY <2>7, <5>2, <5>3
        <5>5. CASE r.bySurface[e.surface].explicit
          <6>1. Key(e) \in DOMAIN bsp
            BY <2>8, <5>2, <5>5
          <6> QED BY <5>4, <5>5, <6>1
        <5>6. CASE ~r.bySurface[e.surface].explicit
          <6>1. e = r.entries[r.bySurface[e.surface].index] /\ r.bySurface[e.surface].index # i
            BY <5>1, <5>2, <5>6
          <6>2. r.bySurface[e.surface].index \in DOMAIN r.entries
            BY <5>2 DEF Indexed
          <6>3. e = es[bs[e.surface].index]
            BY <2>6, <5>4, <6>1, <6>2
          <6> QED BY <5>4, <5>6, <6>3
        <5> QED BY <5>5, <5>6
      <4> QED BY <4>1, <4>2
    <3> QED BY <2>5, <3>1, <3>2, <3>3, <3>4, <3>5, <3>6 DEF Indexed
  <2>14. OwnKeys(r) \subseteq OwnKeys(s)
    BY <2>5, <2>7, <2>8, <2>9 DEF OwnKeys, x
  <2>15. DOMAIN s.bySurface = DOMAIN r.bySurface \cup {entry.surface}
    BY <2>5, <2>7
  <2> QED BY <2>0, <2>13, <2>14, <2>15 DEF Meets
<1> QED BY <1>1, <1>2

\* A row's own surface takes the place of the one entry a surface has that no
\* row has claimed.
LEMMA MeetExplicitMeets ==
  ASSUME NEW own, NEW r, Indexed(r, own), NEW entry \in Entry, entry \in own,
         entry.surface \in DOMAIN r.bySurface, ~r.bySurface[entry.surface].explicit
  PROVE  Meets(r, MeetExplicit(r, entry), entry, TRUE, own)
<1> DEFINE seen == r.bySurface[entry.surface]
           i == seen.index
           x == entry.surface
           k == Key(entry)
           old == Key(r.entries[i])
           mine == SeenAs(entry, i, TRUE)
           t == Replace(r, i, entry)
           s == [t EXCEPT !.bySurface[x] = mine, !.bySurfacePos = Put(Without(@, old), k, mine)]
           es == [r.entries EXCEPT ![i] = entry]
           ids == (r.identities \ {r.entries[i]}) \cup {entry}
           bs == [r.bySurface EXCEPT ![x] = mine]
           less == Without(r.bySurfacePos, old)
           bsp == Put(less, k, mine)
<1>0. MeetExplicit(r, entry) = s
  BY DEF MeetExplicit
<1>1. r \in Expansion /\ i \in DOMAIN r.entries /\ old = <<x, seen.pos>>
  BY DEF Indexed
<1>2. /\ r.bySurface \in Maps(Seq(Token)) /\ r.bySurfacePos \in Maps(Keys)
      /\ Len(r.entries) \in Nat /\ DOMAIN r.entries = 1..Len(r.entries)
      /\ \A j \in DOMAIN r.entries : r.entries[j] \in Entry
  BY <1>1, ExpansionFields
<1>3. x \in Seq(Token) /\ k \in Keys /\ k = <<x, entry.pos>> /\ k[1] = x
  BY KeyOf
<1>4. /\ \A j \in DOMAIN r.entries : Key(r.entries[j]) = <<r.entries[j].surface, r.entries[j].pos>>
      /\ \A j \in DOMAIN r.entries : Key(r.entries[j])[1] = r.entries[j].surface
      /\ \A e : Key(e)[1] = e.surface
  BY DEF Key
<1>5. r.entries[i].surface = x /\ old[1] = x /\ old \in Keys
  <2> DEFINE e == r.entries[i]
  <2>1. e \in Entry /\ Key(e) = <<x, seen.pos>> /\ Key(e)[1] = e.surface
    BY <1>1, <1>2, <1>4
  <2> HIDE DEF e
  <2>2. Key(e) \in Keys
    BY <2>1, KeyOf
  <2> QED BY <2>1, <2>2 DEF e
<1>6. mine \in Seen /\ mine.index = i /\ mine.pos = entry.pos /\ mine.explicit = TRUE
  <2>1. i \in Nat
    BY <1>1, <1>2
  <2> HIDE DEF i
  <2> QED BY <2>1, SeenAsTyped
<1>7. /\ t \in Expansion /\ t.entries = es /\ t.identities = ids
      /\ t.bySurface = r.bySurface /\ t.bySurfacePos = r.bySurfacePos
      /\ DOMAIN es = DOMAIN r.entries /\ es[i] = entry
      /\ \A j \in DOMAIN r.entries : j # i => es[j] = r.entries[j]
  <2> HIDE DEF i
  <2> QED BY <1>1, ReplaceFields
<1>8. \A e \in ids : e = entry \/ (e \in r.identities /\ e # r.entries[i])
  OBVIOUS
<1>9. s = [t EXCEPT !.bySurface[x] = mine, !.bySurfacePos = Put(Without(@, old), k, mine)]
  OBVIOUS
<1>10. seen.explicit = FALSE
  <2>1. seen \in Seen
    BY <1>2, MapIs
  <2> QED BY <2>1 DEF Seen
<1> HIDE DEF mine, k, old, t, s, es, ids
<1>11. /\ bs \in Maps(Seq(Token)) /\ DOMAIN bs = DOMAIN r.bySurface /\ bs[x] = mine
       /\ \A y \in DOMAIN bs : y # x => bs[y] = r.bySurface[y]
  BY <1>2, <1>3, <1>6, MapSteps
<1>12. /\ less \in Maps(Keys) /\ DOMAIN less = DOMAIN r.bySurfacePos \ {old}
       /\ \A y \in DOMAIN less : less[y] = r.bySurfacePos[y]
  <2> DEFINE p == r.bySurfacePos
  <2>1. p \in Maps(Keys)
    BY <1>2
  <2> HIDE DEF p
  <2>2. Without(p, old) \in Maps(Keys)
    BY <1>5, <1>6, <2>1, MapSteps
  <2>3. DOMAIN Without(p, old) = DOMAIN p \ {old} /\ \A y \in DOMAIN p \ {old} : Without(p, old)[y] = p[y]
    BY DEF Without
  <2> QED BY <2>2, <2>3 DEF p
<1> HIDE DEF less, bs
<1>13. /\ bsp \in Maps(Keys) /\ DOMAIN bsp = (DOMAIN r.bySurfacePos \ {old}) \cup {k} /\ bsp[k] = mine
       /\ \A y \in DOMAIN less : y # k => bsp[y] = r.bySurfacePos[y]
  <2>1. bsp \in Maps(Keys)
    BY <1>3, <1>6, <1>12, MapSteps
  <2>2. /\ DOMAIN bsp = DOMAIN less \cup {k} /\ bsp[k] = mine
        /\ \A y \in DOMAIN less : y # k => bsp[y] = less[y]
    BY DEF Put
  <2> HIDE DEF bsp
  <2> QED BY <1>12, <2>1, <2>2
<1>14. s \in Expansion /\ s.entries = es /\ s.identities = ids /\ s.bySurface = bs /\ s.bySurfacePos = bsp
  <2>1. s = [t EXCEPT !.bySurface = bs, !.bySurfacePos = bsp]
    BY <1>7, <1>9 DEF bs, less, Expansion
  <2> HIDE DEF bsp
  <2>2. /\ s \in Expansion /\ s.entries = t.entries /\ s.identities = t.identities
        /\ s.bySurface = bs /\ s.bySurfacePos = bsp
    BY <1>7, <1>11, <1>13, <2>1 DEF Expansion
  <2> QED BY <1>7, <2>2
<1> HIDE DEF bsp
<1>15. \A j \in DOMAIN r.entries : j # i => r.entries[j].surface # x
  BY <1>10 DEF Indexed
<1> HIDE DEF i, seen
<1>16. Indexed(s, own)
  <2>1. ASSUME NEW y \in DOMAIN bs
        PROVE  bs[y].index \in DOMAIN es /\ Key(es[bs[y].index]) = <<y, bs[y].pos>>
    <3>1. CASE y = x
      BY <1>1, <1>3, <1>6, <1>7, <1>11, <3>1 DEF k
    <3>2. CASE y # x
      <4> DEFINE j == r.bySurface[y].index
      <4>1. j \in DOMAIN r.entries /\ Key(r.entries[j]) = <<y, r.bySurface[y].pos>>
        BY <1>11, <2>1 DEF Indexed
      <4>2. r.entries[j].surface = y
        BY <1>4, <4>1
      <4>3. j # i
        BY <1>5, <3>2, <4>2
      <4> QED BY <1>7, <1>11, <3>2, <4>1, <4>3
    <3> QED BY <3>1, <3>2
  <2>2. ASSUME NEW j \in DOMAIN es PROVE es[j].surface \in DOMAIN bs
    <3>1. r.entries[j].surface \in DOMAIN r.bySurface
      BY <1>7 DEF Indexed
    <3> QED BY <1>5, <1>7, <1>11, <3>1 DEF x
  <2>3. ASSUME NEW j \in DOMAIN es
        PROVE  IF bs[es[j].surface].explicit THEN es[j] \in own ELSE j = bs[es[j].surface].index
    <3>1. CASE j = i
      BY <1>6, <1>7, <1>11, <3>1 DEF x
    <3>2. CASE j # i
      <4>1. es[j] = r.entries[j] /\ r.entries[j].surface # x
        BY <1>7, <1>15, <3>2
      <4>2. bs[es[j].surface] = r.bySurface[r.entries[j].surface]
        BY <1>11, <2>2, <4>1
      <4>3. IF r.bySurface[r.entries[j].surface].explicit THEN r.entries[j] \in own
            ELSE j = r.bySurface[r.entries[j].surface].index
        BY <1>7 DEF Indexed
      <4> QED BY <4>1, <4>2, <4>3
    <3> QED BY <3>1, <3>2
  <2>4. ASSUME NEW y \in DOMAIN bsp PROVE bsp[y].index \in DOMAIN es /\ Key(es[bsp[y].index]) = y
    <3>1. CASE y = k
      BY <1>1, <1>6, <1>7, <1>13, <3>1 DEF k
    <3>2. CASE y # k
      <4>1. y \in DOMAIN r.bySurfacePos /\ y # old /\ bsp[y] = r.bySurfacePos[y]
        BY <1>12, <1>13, <3>2
      <4>2. r.bySurfacePos[y].index \in DOMAIN r.entries /\ Key(r.entries[r.bySurfacePos[y].index]) = y
        BY <4>1 DEF Indexed
      <4>3. r.bySurfacePos[y].index # i
        BY <4>1, <4>2 DEF old
      <4> QED BY <1>7, <4>1, <4>2, <4>3
    <3> QED BY <3>1, <3>2
  <2>5. ASSUME NEW j \in DOMAIN es PROVE Key(es[j]) \in DOMAIN bsp /\ bsp[Key(es[j])].index = j
    <3>1. CASE j = i
      BY <1>6, <1>7, <1>13, <3>1 DEF k
    <3>2. CASE j # i
      <4>1. es[j] = r.entries[j] /\ r.entries[j].surface # x
        BY <1>7, <1>15, <3>2
      <4>2. Key(r.entries[j]) \in DOMAIN r.bySurfacePos /\ r.bySurfacePos[Key(r.entries[j])].index = j
        BY <1>7 DEF Indexed
      <4>3. Key(r.entries[j]) # k /\ Key(r.entries[j]) # old
        BY <1>3, <1>4, <1>5, <1>7, <4>1
      <4> QED BY <1>12, <1>13, <4>1, <4>2, <4>3
    <3> QED BY <3>1, <3>2
  <2>6. ASSUME NEW e \in ids
        PROVE  /\ e.surface \in DOMAIN bs
               /\ IF bs[e.surface].explicit THEN Key(e) \in DOMAIN bsp ELSE e = es[bs[e.surface].index]
    <3>1. CASE e = entry
      BY <1>6, <1>11, <1>13, <3>1 DEF x, k
    <3>2. CASE e # entry
      <4>1. e \in r.identities /\ e # r.entries[i]
        BY <1>8, <3>2
      <4>2. /\ e.surface \in DOMAIN r.bySurface
            /\ IF r.bySurface[e.surface].explicit THEN Key(e) \in DOMAIN r.bySurfacePos
               ELSE e = r.entries[r.bySurface[e.surface].index]
        BY <4>1 DEF Indexed
      <4>3. e.surface # x
        BY <1>10, <4>1, <4>2 DEF i, x, seen
      <4>4. bs[e.surface] = r.bySurface[e.surface] /\ e.surface \in DOMAIN bs
        BY <1>11, <4>2, <4>3
      <4>5. CASE r.bySurface[e.surface].explicit
        <5>1. Key(e) # old
          BY <1>4, <1>5, <4>3
        <5> QED BY <1>13, <4>2, <4>4, <4>5, <5>1
      <4>6. CASE ~r.bySurface[e.surface].explicit
        <5>1. r.bySurface[e.surface].index \in DOMAIN r.entries
          BY <4>2 DEF Indexed
        <5>2. r.bySurface[e.surface].index # i
          BY <1>5, <4>2, <4>3, <4>6
        <5> QED BY <1>7, <4>2, <4>4, <4>6, <5>1, <5>2
      <4> QED BY <4>5, <4>6
    <3> QED BY <3>1, <3>2
  <2> QED BY <1>14, <2>1, <2>2, <2>3, <2>4, <2>5, <2>6 DEF Indexed
<1>17. ASSUME NEW y \in OwnKeys(r) PROVE y \in OwnKeys(s)
  <2>1. y \in DOMAIN r.bySurfacePos /\ y[1] \in DOMAIN r.bySurface /\ r.bySurface[y[1]].explicit
    BY <1>17 DEF OwnKeys
  <2>2. y[1] # x
    BY <1>10, <2>1 DEF seen, x
  <2>3. y # old
    BY <1>5, <2>2
  <2>4. y \in DOMAIN bsp /\ y[1] \in DOMAIN bs /\ bs[y[1]].explicit
    BY <1>11, <1>13, <2>1, <2>2, <2>3
  <2> QED BY <1>14, <2>4 DEF OwnKeys
<1>18. k \in OwnKeys(s)
  BY <1>3, <1>6, <1>11, <1>13, <1>14 DEF OwnKeys, x
<1>19. DOMAIN s.bySurface = DOMAIN r.bySurface \cup {entry.surface}
  BY <1>11, <1>14
<1> QED BY <1>0, <1>16, <1>17, <1>18, <1>19 DEF Meets, k

\* A second row's form of a claimed key: one of the two stays.
LEMMA MeetSamePosMeets ==
  ASSUME NEW own, NEW r, Indexed(r, own), NEW entry \in Entry, entry \in own,
         entry.surface \in DOMAIN r.bySurface, r.bySurface[entry.surface].explicit,
         Key(entry) \in DOMAIN r.bySurfacePos
  PROVE  Meets(r, MeetSamePos(r, entry), entry, TRUE, own)
<1> DEFINE x == entry.surface
           k == Key(entry)
           seen == r.bySurfacePos[k]
           i == seen.index
           Longer == Len(entry.lemma) > seen.lemmaLength
           longer == [seen EXCEPT !.lemmaLength = Len(entry.lemma)]
           s == MeetSamePos(r, entry)
           skip == Skip(r)
           es == [r.entries EXCEPT ![i] = entry]
           ids == r.identities \cup {entry}
           bsp == [r.bySurfacePos EXCEPT ![k] = longer]
<1>1. r \in Expansion /\ i \in DOMAIN r.entries /\ Key(r.entries[i]) = k
  BY DEF Indexed
<1>2. /\ r.entries \in Seq(Entry) /\ r.identities \in SUBSET Entry
      /\ r.bySurface \in Maps(Seq(Token)) /\ r.bySurfacePos \in Maps(Keys)
      /\ Len(r.entries) \in Nat /\ DOMAIN r.entries = 1..Len(r.entries)
      /\ \A j \in DOMAIN r.entries : r.entries[j] \in Entry
  BY <1>1, ExpansionFields
<1>3. k \in Keys /\ k = <<x, entry.pos>> /\ k[1] = x
  BY KeyOf
<1>4. \A e : Key(e)[1] = e.surface
  BY DEF Key
<1>5. /\ skip \in Expansion /\ skip.entries = r.entries /\ skip.identities = r.identities
      /\ skip.bySurface = r.bySurface /\ skip.bySurfacePos = r.bySurfacePos
  BY <1>1, ExpansionFields
<1>6. r.entries[i].surface = x
  BY <1>1, <1>3, <1>4
<1>7. ids \in SUBSET Entry
  BY <1>2
<1>8. s = IF Longer THEN [skip EXCEPT !.entries[i] = entry, !.identities = @ \cup {entry},
                                      !.bySurfacePos[k].lemmaLength = Len(entry.lemma)]
          ELSE [skip EXCEPT !.identities = @ \cup {entry}]
  BY DEF MeetSamePos
<1>9. seen \in Seen
  BY <1>2, MapIs
<1>10. longer \in Seen /\ longer.index = i
  <2>1. Len(entry.lemma) \in Nat
    BY DEF Entry
  <2> HIDE DEF seen
  <2> QED BY <1>9, <2>1 DEF Seen
<1> HIDE DEF s, skip, longer
<1>11. /\ es \in Seq(Entry) /\ DOMAIN es = DOMAIN r.entries /\ es[i] = entry
       /\ \A j \in DOMAIN r.entries : j # i => es[j] = r.entries[j]
  <2> HIDE DEF i
  <2>1. es \in Seq(Entry)
    BY <1>1, <1>2, ExceptSeq
  <2> QED BY <1>1, <1>2, <2>1
<1>12. /\ bsp \in Maps(Keys) /\ DOMAIN bsp = DOMAIN r.bySurfacePos
       /\ \A y \in DOMAIN bsp : bsp[y].index = r.bySurfacePos[y].index
  <2>1. /\ bsp \in Maps(Keys) /\ DOMAIN bsp = DOMAIN r.bySurfacePos
        /\ \A y \in DOMAIN r.bySurfacePos : bsp[y] = IF y = k THEN longer ELSE r.bySurfacePos[y]
    <3> HIDE DEF k
    <3> QED BY <1>2, <1>3, <1>10, MapSteps
  <2> HIDE DEF bsp
  <2> QED BY <1>10, <2>1
<1>13. /\ s \in Expansion /\ s.identities = ids /\ s.bySurface = r.bySurface
       /\ DOMAIN s.entries = DOMAIN r.entries /\ s.entries[i] \in {entry, r.entries[i]}
       /\ \A j \in DOMAIN r.entries : j # i => s.entries[j] = r.entries[j]
       /\ DOMAIN s.bySurfacePos = DOMAIN r.bySurfacePos
       /\ \A y \in DOMAIN r.bySurfacePos : s.bySurfacePos[y].index = r.bySurfacePos[y].index
  <2>1. CASE Longer
    <3>1. s = [skip EXCEPT !.entries = es, !.identities = ids, !.bySurfacePos = bsp]
      BY <1>5, <1>8, <2>1 DEF longer, Expansion
    <3> HIDE DEF es, ids, bsp
    <3>2. /\ s \in Expansion /\ s.entries = es /\ s.identities = ids /\ s.bySurface = skip.bySurface
          /\ s.bySurfacePos = bsp
      BY <1>5, <1>7, <1>11, <1>12, <3>1 DEF Expansion
    <3> QED BY <1>5, <1>11, <1>12, <3>2
  <2>2. CASE ~Longer
    <3>1. s = [skip EXCEPT !.identities = ids]
      BY <1>5, <1>8, <2>2
    <3> HIDE DEF ids
    <3>2. /\ s \in Expansion /\ s.entries = skip.entries /\ s.identities = ids /\ s.bySurface = skip.bySurface
          /\ s.bySurfacePos = skip.bySurfacePos
      BY <1>5, <1>7, <3>1 DEF Expansion
    <3> QED BY <1>5, <3>2
  <2> QED BY <2>1, <2>2
<1> HIDE DEF es, bsp, k, i, seen, x
<1>14. \A j \in DOMAIN r.entries : Key(s.entries[j]) = Key(r.entries[j]) /\ s.entries[j].surface = r.entries[j].surface
  BY <1>1, <1>6, <1>13 DEF k, x
<1>15. Indexed(s, own)
  <2>1. ASSUME NEW y \in DOMAIN s.bySurface
        PROVE  /\ s.bySurface[y].index \in DOMAIN s.entries
               /\ Key(s.entries[s.bySurface[y].index]) = <<y, s.bySurface[y].pos>>
    <3>1. r.bySurface[y].index \in DOMAIN r.entries /\ Key(r.entries[r.bySurface[y].index]) = <<y, r.bySurface[y].pos>>
      BY <1>13, <2>1 DEF Indexed
    <3> QED BY <1>13, <1>14, <3>1
  <2>2. ASSUME NEW j \in DOMAIN s.entries PROVE s.entries[j].surface \in DOMAIN s.bySurface
    BY <1>13, <1>14 DEF Indexed
  <2>3. ASSUME NEW j \in DOMAIN s.entries
        PROVE  IF s.bySurface[s.entries[j].surface].explicit THEN s.entries[j] \in own
               ELSE j = s.bySurface[s.entries[j].surface].index
    <3>1. IF r.bySurface[r.entries[j].surface].explicit THEN r.entries[j] \in own
          ELSE j = r.bySurface[r.entries[j].surface].index
      BY <1>13 DEF Indexed
    <3>2. CASE j = i
      BY <1>6, <1>13, <1>14, <3>1, <3>2 DEF x
    <3>3. CASE j # i
      BY <1>13, <1>14, <3>1, <3>3
    <3> QED BY <3>2, <3>3
  <2>4. ASSUME NEW y \in DOMAIN s.bySurfacePos
        PROVE  s.bySurfacePos[y].index \in DOMAIN s.entries /\ Key(s.entries[s.bySurfacePos[y].index]) = y
    <3>1. y \in DOMAIN r.bySurfacePos
      BY <1>13, <2>4
    <3>2. r.bySurfacePos[y].index \in DOMAIN r.entries /\ Key(r.entries[r.bySurfacePos[y].index]) = y
      BY <3>1 DEF Indexed
    <3> QED BY <1>13, <1>14, <3>1, <3>2
  <2>5. ASSUME NEW j \in DOMAIN s.entries
        PROVE  Key(s.entries[j]) \in DOMAIN s.bySurfacePos /\ s.bySurfacePos[Key(s.entries[j])].index = j
    <3>1. j \in DOMAIN r.entries
      BY <1>13, <2>5
    <3>2. Key(r.entries[j]) \in DOMAIN r.bySurfacePos /\ r.bySurfacePos[Key(r.entries[j])].index = j
      BY <3>1 DEF Indexed
    <3> QED BY <1>13, <1>14, <3>1, <3>2
  <2>6. ASSUME NEW e \in s.identities
        PROVE  /\ e.surface \in DOMAIN s.bySurface
               /\ IF s.bySurface[e.surface].explicit THEN Key(e) \in DOMAIN s.bySurfacePos
                  ELSE e = s.entries[s.bySurface[e.surface].index]
    <3>1. CASE e = entry
      BY <1>13, <3>1
    <3>2. CASE e # entry
      <4>1. /\ e.surface \in DOMAIN r.bySurface
            /\ IF r.bySurface[e.surface].explicit THEN Key(e) \in DOMAIN r.bySurfacePos
               ELSE e = r.entries[r.bySurface[e.surface].index]
        BY <1>13, <2>6, <3>2 DEF Indexed
      <4>2. CASE r.bySurface[e.surface].explicit
        BY <1>13, <4>1, <4>2
      <4>3. CASE ~r.bySurface[e.surface].explicit
        <5>1. r.bySurface[e.surface].index \in DOMAIN r.entries /\ e = r.entries[r.bySurface[e.surface].index]
          BY <4>1, <4>3 DEF Indexed
        <5>2. r.bySurface[e.surface].index # i
          BY <1>6, <4>3, <5>1 DEF x
        <5> QED BY <1>13, <4>1, <4>3, <5>1, <5>2
      <4> QED BY <4>2, <4>3
    <3> QED BY <3>1, <3>2
  <2> QED BY <1>13, <2>1, <2>2, <2>3, <2>4, <2>5, <2>6 DEF Indexed
<1>16. OwnKeys(s) = OwnKeys(r)
  BY <1>13 DEF OwnKeys
<1>17. k \in OwnKeys(r)
  BY <1>3 DEF OwnKeys, k, x
<1> QED BY <1>13, <1>15, <1>16, <1>17 DEF Meets, k, s

\* The last branch of KeepOne.
Recorded(r, entry, explicit) ==
  [Push(r, entry, explicit) EXCEPT
     !.bySurfacePos = Put(@, Key(entry), SeenAs(entry, Len(r.entries) + 1, explicit))]

\* A form whose key is new is added, unless it is a generated one that meets
\* its surface.
LEMMA PushMeets ==
  ASSUME NEW own, NEW r, Indexed(r, own), NEW entry \in Entry, NEW explicit \in BOOLEAN, explicit => entry \in own,
         Key(entry) \notin DOMAIN r.bySurfacePos,
         entry.surface \in DOMAIN r.bySurface => explicit /\ r.bySurface[entry.surface].explicit
  PROVE  Meets(r, Recorded(r, entry, explicit), entry, explicit, own)
<1> DEFINE x == entry.surface
           k == Key(entry)
           N == Len(r.entries)
           seen == SeenAs(entry, N + 1, explicit)
           t == Push(r, entry, explicit)
           s == Recorded(r, entry, explicit)
           es == Append(r.entries, entry)
           ids == r.identities \cup {entry}
           bs == IF x \in DOMAIN r.bySurface THEN r.bySurface ELSE Put(r.bySurface, x, seen)
           bsp == Put(r.bySurfacePos, k, seen)
<1>1. r \in Expansion
  BY DEF Indexed
<1>2. /\ r.entries \in Seq(Entry) /\ r.identities \in SUBSET Entry
      /\ r.bySurface \in Maps(Seq(Token)) /\ r.bySurfacePos \in Maps(Keys)
      /\ N \in Nat /\ DOMAIN r.entries = 1..N
  BY <1>1, ExpansionFields
<1>3. x \in Seq(Token) /\ k \in Keys /\ k = <<x, entry.pos>> /\ k[1] = x
  BY KeyOf
<1>4. \A e : Key(e)[1] = e.surface
  BY DEF Key
<1>5. seen \in Seen /\ seen.index = N + 1 /\ seen.pos = entry.pos /\ seen.explicit = explicit
  <2>1. N + 1 \in Nat
    BY <1>2
  <2> HIDE DEF N
  <2> QED BY <2>1, SeenAsTyped
<1>6. t = [r EXCEPT !.entries = es, !.identities = ids, !.bySurface = bs]
  BY DEF Push
<1>7. s = [t EXCEPT !.bySurfacePos = Put(t.bySurfacePos, k, seen)]
  BY DEF Recorded
<1> HIDE DEF seen, s, t
<1>8. bs \in Maps(Seq(Token)) /\ bsp \in Maps(Keys)
  <2>1. Put(r.bySurface, x, seen) \in Maps(Seq(Token))
    BY <1>2, <1>3, <1>5, MapSteps
  <2> HIDE DEF x, k
  <2> QED BY <1>2, <1>3, <1>5, <2>1, MapSteps
<1>9. /\ DOMAIN bs = DOMAIN r.bySurface \cup {x}
      /\ \A y \in DOMAIN r.bySurface : bs[y] = r.bySurface[y]
      /\ x \notin DOMAIN r.bySurface => bs[x] = seen
  BY DEF Put
<1>10. DOMAIN bsp = DOMAIN r.bySurfacePos \cup {k} /\ bsp[k] = seen /\ \A y \in DOMAIN r.bySurfacePos : bsp[y] = r.bySurfacePos[y]
  BY DEF Put
<1>11. /\ es \in Seq(Entry) /\ DOMAIN es = 1..N + 1 /\ es[N + 1] = entry
       /\ \A j \in 1..N : es[j] = r.entries[j] /\ j \in 1..N + 1 /\ j # N + 1
       /\ \A j \in 1..N + 1 : j \in 1..N \/ j = N + 1
  BY <1>2
<1>12. ids \in SUBSET Entry
  BY <1>2
<1> HIDE DEF es, ids, bs
<1>13. s \in Expansion /\ s.entries = es /\ s.identities = ids /\ s.bySurface = bs /\ s.bySurfacePos = bsp
  <2>1. /\ t \in Expansion /\ t.entries = es /\ t.identities = ids /\ t.bySurface = bs
        /\ t.bySurfacePos = r.bySurfacePos
    BY <1>1, <1>6, <1>8, <1>11, <1>12 DEF Expansion
  <2>2. s = [t EXCEPT !.bySurfacePos = bsp]
    BY <1>7, <2>1
  <2> HIDE DEF bsp
  <2>3. /\ s \in Expansion /\ s.entries = t.entries /\ s.identities = t.identities /\ s.bySurface = t.bySurface
        /\ s.bySurfacePos = bsp
    BY <1>8, <2>1, <2>2 DEF Expansion
  <2> QED BY <2>1, <2>3
<1> HIDE DEF bsp, N, x, k
<1>14. x \in DOMAIN r.bySurface => explicit /\ bs[x].explicit
  BY <1>9 DEF x
<1>15. k \notin DOMAIN r.bySurfacePos
  BY DEF k
<1>16. Indexed(s, own)
  <2>1. ASSUME NEW y \in DOMAIN bs
        PROVE  bs[y].index \in DOMAIN es /\ Key(es[bs[y].index]) = <<y, bs[y].pos>>
    <3>1. CASE y \in DOMAIN r.bySurface
      <4>1. r.bySurface[y].index \in DOMAIN r.entries /\ Key(r.entries[r.bySurface[y].index]) = <<y, r.bySurface[y].pos>>
        BY <3>1 DEF Indexed
      <4> QED BY <1>2, <1>9, <1>11, <3>1, <4>1
    <3>2. CASE y \notin DOMAIN r.bySurface
      <4>1. y = x /\ bs[y] = seen
        BY <1>9, <3>2
      <4>2. N + 1 \in DOMAIN es
        BY <1>2, <1>11
      <4> QED BY <1>3, <1>5, <1>11, <4>1, <4>2 DEF k
    <3> QED BY <3>1, <3>2
  <2>2. ASSUME NEW j \in DOMAIN es PROVE es[j].surface \in DOMAIN bs
    <3>1. CASE j = N + 1
      BY <1>9, <1>11, <3>1 DEF x
    <3>2. CASE j # N + 1
      <4>1. j \in DOMAIN r.entries /\ es[j] = r.entries[j]
        BY <1>2, <1>11, <3>2
      <4>2. r.entries[j].surface \in DOMAIN r.bySurface
        BY <4>1 DEF Indexed
      <4> QED BY <1>9, <4>1, <4>2
    <3> QED BY <3>1, <3>2
  <2>3. ASSUME NEW j \in DOMAIN es
        PROVE  IF bs[es[j].surface].explicit THEN es[j] \in own ELSE j = bs[es[j].surface].index
    <3>1. CASE j = N + 1
      BY <1>5, <1>9, <1>11, <1>14, <3>1 DEF x
    <3>2. CASE j # N + 1
      <4>1. j \in DOMAIN r.entries /\ es[j] = r.entries[j]
        BY <1>2, <1>11, <3>2
      <4>2. /\ r.entries[j].surface \in DOMAIN r.bySurface
            /\ IF r.bySurface[r.entries[j].surface].explicit THEN r.entries[j] \in own
               ELSE j = r.bySurface[r.entries[j].surface].index
        BY <4>1 DEF Indexed
      <4> QED BY <1>9, <4>1, <4>2
    <3> QED BY <3>1, <3>2
  <2>4. ASSUME NEW y \in DOMAIN bsp PROVE bsp[y].index \in DOMAIN es /\ Key(es[bsp[y].index]) = y
    <3>1. CASE y = k
      <4>1. N + 1 \in DOMAIN es
        BY <1>2, <1>11
      <4> QED BY <1>5, <1>10, <1>11, <3>1, <4>1 DEF k
    <3>2. CASE y # k
      <4>1. y \in DOMAIN r.bySurfacePos
        BY <1>10, <3>2
      <4>2. r.bySurfacePos[y].index \in DOMAIN r.entries /\ Key(r.entries[r.bySurfacePos[y].index]) = y
        BY <4>1 DEF Indexed
      <4> QED BY <1>2, <1>10, <1>11, <4>1, <4>2
    <3> QED BY <3>1, <3>2
  <2>5. ASSUME NEW j \in DOMAIN es PROVE Key(es[j]) \in DOMAIN bsp /\ bsp[Key(es[j])].index = j
    <3>1. CASE j = N + 1
      BY <1>5, <1>10, <1>11, <3>1 DEF k
    <3>2. CASE j # N + 1
      <4>1. j \in DOMAIN r.entries /\ es[j] = r.entries[j]
        BY <1>2, <1>11, <3>2
      <4>2. Key(r.entries[j]) \in DOMAIN r.bySurfacePos /\ r.bySurfacePos[Key(r.entries[j])].index = j
        BY <4>1 DEF Indexed
      <4> QED BY <1>10, <4>1, <4>2
    <3> QED BY <3>1, <3>2
  <2>6. ASSUME NEW e \in ids
        PROVE  /\ e.surface \in DOMAIN bs
               /\ IF bs[e.surface].explicit THEN Key(e) \in DOMAIN bsp ELSE e = es[bs[e.surface].index]
    <3>1. CASE e = entry
      BY <1>5, <1>9, <1>10, <1>11, <1>14, <3>1 DEF x, k
    <3>2. CASE e # entry
      <4>1. /\ e.surface \in DOMAIN r.bySurface
            /\ IF r.bySurface[e.surface].explicit THEN Key(e) \in DOMAIN r.bySurfacePos
               ELSE e = r.entries[r.bySurface[e.surface].index]
        BY <2>6, <3>2 DEF Indexed, ids
      <4>2. r.bySurface[e.surface].index \in DOMAIN r.entries
        BY <4>1 DEF Indexed
      <4> QED BY <1>2, <1>9, <1>10, <1>11, <4>1, <4>2
    <3> QED BY <3>1, <3>2
  <2> QED BY <1>13, <2>1, <2>2, <2>3, <2>4, <2>5, <2>6 DEF Indexed
<1>17. OwnKeys(r) \subseteq OwnKeys(s)
  BY <1>9, <1>10, <1>13 DEF OwnKeys
<1>18. explicit => k \in OwnKeys(s)
  <2>1. explicit => bs[x].explicit
    BY <1>5, <1>9, <1>14
  <2> QED BY <1>3, <1>9, <1>10, <1>13, <2>1 DEF OwnKeys
<1>19. DOMAIN s.bySurface = DOMAIN r.bySurface \cup {entry.surface}
  BY <1>9, <1>13 DEF x
<1> QED BY <1>16, <1>17, <1>18, <1>19 DEF Meets, k, s

\* One more form of a row, under the compiler's options.
LEMMA KeepOneMeets ==
  ASSUME NEW own, NEW r, Indexed(r, own), NEW entry \in Entry, NEW explicit \in BOOLEAN, explicit => entry \in own
  PROVE  Meets(r, KeepOne(r, entry, explicit), entry, explicit, own)
<1> DEFINE x == entry.surface
           met == x \in DOMAIN r.bySurface
           overOwn == met /\ r.bySurface[x].explicit
           s == KeepOne(r, entry, explicit)
<1>1. CASE met /\ ~explicit
  <2>1. s = MeetGenerated(r, entry)
    BY <1>1 DEF KeepOne
  <2>2. Meets(r, s, entry, FALSE, own)
    BY <1>1, <2>1, MeetGeneratedMeets
  <2> QED BY <1>1, <2>2
<1>2. CASE met /\ explicit /\ ~overOwn
  <2>1. s = MeetExplicit(r, entry)
    BY <1>2 DEF KeepOne
  <2>2. Meets(r, s, entry, TRUE, own)
    BY <1>2, <2>1, MeetExplicitMeets
  <2> QED BY <1>2, <2>2
<1>3. CASE ~(met /\ ~explicit) /\ ~(met /\ explicit /\ ~overOwn)
  <2>1. Key(entry)[1] = x /\ \A e : Key(e)[1] = e.surface
    BY DEF Key
  <2>2. CASE entry \in r.identities
    <3>1. s = Skip(r)
      BY <1>3, <2>2 DEF KeepOne
    <3>2. met
      BY <2>2 DEF Indexed
    <3>3. explicit /\ overOwn
      BY <1>3, <3>2
    <3>4. Key(entry) \in DOMAIN r.bySurfacePos
      BY <2>2, <3>3 DEF Indexed
    <3>5. Key(entry) \in OwnKeys(r)
      BY <2>1, <3>3, <3>4 DEF OwnKeys
    <3> QED BY <3>1, <3>2, <3>5, SkipMeets
  <2>3. CASE entry \notin r.identities /\ Key(entry) \in DOMAIN r.bySurfacePos
    <3>1. s = MeetSamePos(r, entry)
      BY <1>3, <2>3 DEF KeepOne
    <3>2. met
      <4> DEFINE i == r.bySurfacePos[Key(entry)].index
      <4>1. i \in DOMAIN r.entries /\ Key(r.entries[i]) = Key(entry)
        BY <2>3 DEF Indexed
      <4>2. r.entries[i].surface = x
        BY <2>1, <4>1
      <4> QED BY <4>1, <4>2 DEF Indexed
    <3>3. explicit /\ overOwn
      BY <1>3, <3>2
    <3>4. Meets(r, s, entry, TRUE, own)
      BY <2>3, <3>1, <3>3, MeetSamePosMeets
    <3> QED BY <3>3, <3>4
  <2>4. CASE entry \notin r.identities /\ Key(entry) \notin DOMAIN r.bySurfacePos
    <3>1. s = Recorded(r, entry, explicit)
      BY <1>3, <2>4 DEF KeepOne, Recorded
    <3>2. met => explicit /\ r.bySurface[x].explicit
      BY <1>3
    <3> QED BY <2>4, <3>1, <3>2, PushMeets
  <2> QED BY <2>2, <2>3, <2>4
<1> QED BY <1>1, <1>2, <1>3

\* Under the library's options, an entry is an identity, and each is kept once.
KeptOnce(r) == r \in Expansion /\ r.identities = ToSet(r.entries) /\ IsInjective(r.entries)

\* One more form of a row, under the library's options.
LEMMA KeepAllOnce ==
  ASSUME NEW r, KeptOnce(r), NEW entry \in Entry, NEW explicit \in BOOLEAN
  PROVE  KeptOnce(KeepAll(r, entry, explicit)) /\ ToSet(KeepAll(r, entry, explicit).entries) = ToSet(r.entries) \cup {entry}
<1> DEFINE s == KeepAll(r, entry, explicit)
           N == Len(r.entries)
           es == Append(r.entries, entry)
           ids == r.identities \cup {entry}
           seen == SeenAs(entry, N + 1, explicit)
           bs == IF entry.surface \in DOMAIN r.bySurface THEN r.bySurface ELSE Put(r.bySurface, entry.surface, seen)
<1>1. r \in Expansion
  BY DEF KeptOnce
<1>2. /\ r.entries \in Seq(Entry) /\ r.identities \in SUBSET Entry /\ r.bySurface \in Maps(Seq(Token))
      /\ N \in Nat /\ DOMAIN r.entries = 1..N
      /\ Skip(r) \in Expansion /\ Skip(r).entries = r.entries /\ Skip(r).identities = r.identities
  BY <1>1, ExpansionFields
<1>3. ToSet(r.entries) = r.identities /\ \A i, j \in 1..N : r.entries[i] = r.entries[j] => i = j
  BY <1>2 DEF KeptOnce, IsInjective
<1>4. ToSet(r.entries) = {r.entries[i] : i \in 1..N}
  BY <1>2 DEF ToSet
<1>5. CASE entry \in r.identities
  <2>1. s = Skip(r)
    BY <1>5 DEF KeepAll
  <2> HIDE DEF s
  <2>2. KeptOnce(s)
    BY <1>2, <2>1 DEF KeptOnce
  <2> QED BY <1>2, <1>3, <1>5, <2>1, <2>2 DEF s
<1>6. CASE entry \notin r.identities
  <2>1. s = [r EXCEPT !.entries = es, !.identities = ids, !.bySurface = bs]
    BY <1>6 DEF KeepAll, Push
  <2>2. bs \in Maps(Seq(Token))
    <3>1. entry.surface \in Seq(Token) /\ seen \in Seen
      <4>1. N + 1 \in Nat
        BY <1>2
      <4> HIDE DEF N
      <4> QED BY <4>1, KeyOf, SeenAsTyped
    <3> HIDE DEF seen
    <3>2. Put(r.bySurface, entry.surface, seen) \in Maps(Seq(Token))
      BY <1>2, <3>1, MapSteps
    <3> QED BY <1>2, <3>2
  <2>3. /\ es \in Seq(Entry) /\ DOMAIN es = 1..N + 1 /\ es[N + 1] = entry
        /\ \A j \in 1..N : es[j] = r.entries[j] /\ j \in 1..N + 1 /\ j # N + 1
        /\ \A j \in 1..N + 1 : j \in 1..N \/ j = N + 1
        /\ N + 1 \in 1..N + 1
    BY <1>2
  <2>4. ids \in SUBSET Entry
    BY <1>2
  <2> HIDE DEF s, es, bs, ids
  <2>5. s \in Expansion /\ s.entries = es /\ s.identities = ids
    BY <1>1, <2>1, <2>2, <2>3, <2>4 DEF Expansion
  <2>6. ToSet(es) = {es[i] : i \in 1..N + 1}
    BY <2>3 DEF ToSet
  <2>7. ToSet(es) = ToSet(r.entries) \cup {entry}
    <3>1. ASSUME NEW e \in ToSet(es) PROVE e \in ToSet(r.entries) \cup {entry}
      <4>1. PICK i \in 1..N + 1 : e = es[i]
        BY <2>6, <3>1
      <4> QED BY <1>4, <2>3, <4>1
    <3>2. ASSUME NEW e \in ToSet(r.entries) PROVE e \in ToSet(es)
      <4>1. PICK i \in 1..N : e = r.entries[i]
        BY <1>4, <3>2
      <4> QED BY <2>3, <2>6, <4>1
    <3>3. entry \in ToSet(es)
      BY <2>3, <2>6
    <3> QED BY <3>1, <3>2, <3>3
  <2>8. \A i, j \in 1..N + 1 : es[i] = es[j] => i = j
    <3>1. \A j \in 1..N : es[j] # entry
      BY <1>3, <1>4, <1>6, <2>3
    <3> QED BY <1>3, <2>3, <3>1
  <2>9. KeptOnce(s)
    BY <1>3, <2>3, <2>5, <2>7, <2>8 DEF KeptOnce, IsInjective, ids
  <2> QED BY <2>5, <2>7, <2>9 DEF s
<1> QED BY <1>5, <1>6

-----------------------------------------------------------------------------
(* The recursions over the forms of a row and over the rows *)

MeetForm(s, form, row, compiling) ==
  IF compiling THEN KeepOne(s, form, form.surface = row.surface) ELSE KeepAll(s, form, form.surface = row.surface)

\* The states of the recursion over the forms of a row.
FormsAfter(r, row, adjectives, compiling) ==
  CHOOSE after : after = [n \in 0..Len(Forms(row, adjectives)) |->
                            IF n = 0 THEN r
                            ELSE MeetForm(after[n - 1], Forms(row, adjectives)[n], row, compiling)]

\* No form of the row leaves T.
StaysIn(T, row, adjectives, compiling) ==
  \A n \in 1..Len(Forms(row, adjectives)), s \in T : MeetForm(s, Forms(row, adjectives)[n], row, compiling) \in T

\* It goes from form to form, and within T.
FormsRecur(T, r, row, adjectives, compiling) ==
  LET forms == Forms(row, adjectives)
      after == FormsAfter(r, row, adjectives, compiling)
  IN  /\ after[0] = r
      /\ \A n \in 1..Len(forms) : after[n] = MeetForm(after[n - 1], forms[n], row, compiling)
      /\ \A n \in 0..Len(forms) : after[n] \in T
      /\ AppendSource(r, row, adjectives, compiling) = after[Len(forms)]

\* It has a solution, within any set of states that a form does not leave.
LEMMA FormsAfterIs ==
  ASSUME NEW row, NEW adjectives, NEW compiling, NEW T, NEW r \in T, Len(Forms(row, adjectives)) \in Nat,
         StaysIn(T, row, adjectives, compiling)
  PROVE  FormsRecur(T, r, row, adjectives, compiling)
<1> DEFINE forms == Forms(row, adjectives)
           N == Len(forms)
           g == [n \in 1..N |-> [s \in T |-> MeetForm(s, forms[n], row, compiling)]]
           Solves(f) == f = [n \in 0..N |-> IF n = 0 THEN r ELSE MeetForm(f[n - 1], forms[n], row, compiling)]
           rec == FormsAfter(r, row, adjectives, compiling)
<1>1. rec = CHOOSE f : Solves(f)
  BY DEF FormsAfter
<1>2. AppendSource(r, row, adjectives, compiling) = rec[N]
  BY DEF AppendSource, FormsAfter, MeetForm
<1>3. N \in Nat /\ \A n \in 1..N, s \in T : MeetForm(s, forms[n], row, compiling) \in T
  BY DEF StaysIn
<1> HIDE DEF forms, N, rec
<1>4. g \in [1..N -> [T -> T]]
  BY <1>3
<1>5. \A n \in 1..N, s \in T : g[n][s] = MeetForm(s, forms[n], row, compiling)
  OBVIOUS
<1> HIDE DEF g
<1>6. PICK f : Iterates(f, T, N, r, g)
  BY <1>3, <1>4, IterationExists
<1>7. Solves(f)
  <2>1. /\ f = [n \in 0..N |-> f[n]] /\ f[0] = r
        /\ \A n \in 1..N : f[n] = g[n][f[n - 1]] /\ f[n - 1] \in T
    BY <1>3, <1>6 DEF Iterates
  <2>2. \A n \in 1..N : f[n] = MeetForm(f[n - 1], forms[n], row, compiling)
    BY <1>5, <2>1
  <2>3. \A n \in 0..N : n # 0 => n \in 1..N
    BY <1>3
  <2>4. \A n \in 0..N : f[n] = IF n = 0 THEN r ELSE MeetForm(f[n - 1], forms[n], row, compiling)
    BY <2>1, <2>2, <2>3
  <2> QED BY <2>1, <2>4
<1>8. Solves(rec)
  BY <1>1, <1>7
<1>9. rec[0] = r
  BY <1>3, <1>8
<1>10. ASSUME NEW n \in 1..N PROVE rec[n] = MeetForm(rec[n - 1], forms[n], row, compiling)
  <2>1. n \in 0..N /\ n # 0
    BY <1>3
  <2> QED BY <1>8, <2>1
<1> DEFINE P == {n \in 0..N : rec[n] \in T}
<1>11. 0 \in P
  BY <1>3, <1>9
<1>12. ASSUME NEW n \in 1..N, n - 1 \in P PROVE n \in P
  <2>1. n \in 0..N /\ rec[n - 1] \in T
    BY <1>3, <1>12
  <2> QED BY <1>3, <1>10, <2>1
<1>13. \A n \in 0..N : n \in P
  <2> HIDE DEF P
  <2> QED BY <1>3, <1>11, <1>12, IntervalInduction
<1> QED BY <1>2, <1>9, <1>10, <1>13 DEF FormsRecur, N, forms, rec

\* The rows in the order in which they are expanded.
Ordered(rows) ==
  LET inflecting == {i \in DOMAIN rows : NeedsExpansion(rows[i])}
  IN Pick(rows, DOMAIN rows \ inflecting) \o Pick(rows, inflecting)

\* It has the same rows.
LEMMA OrderedIs ==
  ASSUME NEW rows \in Seq(Row)
  PROVE  /\ Ordered(rows) \in Seq(Row) /\ Len(Ordered(rows)) \in Nat
         /\ \A n \in 1..Len(Ordered(rows)) : \E i \in DOMAIN rows : Ordered(rows)[n] = rows[i]
         /\ \A i \in DOMAIN rows : \E n \in 1..Len(Ordered(rows)) : Ordered(rows)[n] = rows[i]
<1> DEFINE inflecting == {i \in DOMAIN rows : NeedsExpansion(rows[i])}
           others == DOMAIN rows \ inflecting
           a == Pick(rows, others)
           b == Pick(rows, inflecting)
<1>1. others \in SUBSET DOMAIN rows /\ inflecting \in SUBSET DOMAIN rows /\ DOMAIN rows \subseteq others \cup inflecting
  OBVIOUS
<1>2. Ordered(rows) = a \o b
  BY DEF Ordered
<1> HIDE DEF inflecting, others
<1>3. /\ a \in Seq(Row) /\ \A n \in DOMAIN a : \E i \in others : a[n] = rows[i]
      /\ \A i \in others : \E n \in DOMAIN a : a[n] = rows[i]
  BY <1>1, PickKeeps
<1>4. /\ b \in Seq(Row) /\ \A n \in DOMAIN b : \E i \in inflecting : b[n] = rows[i]
      /\ \A i \in inflecting : \E n \in DOMAIN b : b[n] = rows[i]
  BY <1>1, PickKeeps
<1> HIDE DEF a, b
<1>5. /\ Len(a) \in Nat /\ Len(b) \in Nat /\ DOMAIN a = 1..Len(a) /\ DOMAIN b = 1..Len(b)
  BY <1>3, <1>4
<1>6. /\ a \o b \in Seq(Row) /\ Len(a \o b) = Len(a) + Len(b)
      /\ \A n \in 1..Len(a) + Len(b) : (a \o b)[n] = IF n <= Len(a) THEN a[n] ELSE b[n - Len(a)]
  BY <1>3, <1>4, ConcatProperties
<1>7. ASSUME NEW n \in 1..Len(a) + Len(b) PROVE \E i \in DOMAIN rows : (a \o b)[n] = rows[i]
  <2>1. CASE n <= Len(a)
    <3>1. n \in DOMAIN a
      BY <1>5, <2>1
    <3> QED BY <1>1, <1>3, <1>6, <2>1, <3>1
  <2>2. CASE ~(n <= Len(a))
    <3>1. n - Len(a) \in DOMAIN b
      BY <1>5, <2>2
    <3> QED BY <1>1, <1>4, <1>6, <2>2, <3>1
  <2> QED BY <2>1, <2>2
<1>8. ASSUME NEW i \in DOMAIN rows PROVE \E n \in 1..Len(a) + Len(b) : (a \o b)[n] = rows[i]
  <2>1. CASE i \in others
    <3>1. PICK n \in DOMAIN a : a[n] = rows[i]
      BY <1>3, <2>1
    <3>2. n \in 1..Len(a) + Len(b) /\ n <= Len(a)
      BY <1>5
    <3> QED BY <1>6, <3>1, <3>2
  <2>2. CASE i \in inflecting
    <3>1. PICK n \in DOMAIN b : b[n] = rows[i]
      BY <1>4, <2>2
    <3>2. n + Len(a) \in 1..Len(a) + Len(b) /\ ~(n + Len(a) <= Len(a)) /\ (n + Len(a)) - Len(a) = n
      BY <1>5
    <3> QED BY <1>6, <3>1, <3>2
  <2> QED BY <1>1, <2>1, <2>2
<1> HIDE DEF a, b
<1> DEFINE both == a \o b
<1>9. both \in Seq(Row) /\ Len(both) = Len(a) + Len(b)
  BY <1>6
<1>10. Len(both) \in Nat /\ 1..Len(both) = 1..Len(a) + Len(b)
  BY <1>5, <1>9
<1>11. \A n \in 1..Len(both) : \E i \in DOMAIN rows : both[n] = rows[i]
  BY <1>7, <1>10
<1>12. \A i \in DOMAIN rows : \E n \in 1..Len(both) : both[n] = rows[i]
  BY <1>8, <1>10
<1>13. Ordered(rows) = both
  BY <1>2
<1> HIDE DEF both
<1> QED BY <1>9, <1>10, <1>11, <1>12, <1>13

\* The states of the recursion over the rows.
SourcesAfter(rows, compiling) ==
  CHOOSE after : after = [n \in 0..Len(Ordered(rows)) |->
                            IF n = 0 THEN ExpansionStart
                            ELSE AppendSource(after[n - 1], Ordered(rows)[n], Adjectives(rows), compiling)]

\* It has a solution, within any set of states that a row does not leave.
LEMMA SourcesAfterIs ==
  ASSUME NEW rows \in Seq(Row), NEW compiling, NEW T, ExpansionStart \in T,
         \A n \in 1..Len(Ordered(rows)), s \in T : AppendSource(s, Ordered(rows)[n], Adjectives(rows), compiling) \in T
  PROVE  LET ordered == Ordered(rows)
             after == SourcesAfter(rows, compiling)
         IN  /\ after[0] = ExpansionStart
             /\ \A n \in 1..Len(ordered) : after[n] = AppendSource(after[n - 1], ordered[n], Adjectives(rows), compiling)
             /\ \A n \in 0..Len(ordered) : after[n] \in T
             /\ ExpandDictionarySourceEntries(rows, compiling) = after[Len(ordered)]
<1> DEFINE ordered == Ordered(rows)
           N == Len(ordered)
           adjectives == Adjectives(rows)
           g == [n \in 1..N |-> [s \in T |-> AppendSource(s, ordered[n], adjectives, compiling)]]
           Solves(f) == f = [n \in 0..N |-> IF n = 0 THEN ExpansionStart
                                            ELSE AppendSource(f[n - 1], ordered[n], adjectives, compiling)]
           rec == SourcesAfter(rows, compiling)
<1>1. rec = CHOOSE f : Solves(f)
  BY DEF SourcesAfter
<1>2. ExpandDictionarySourceEntries(rows, compiling) = rec[N]
  BY DEF ExpandDictionarySourceEntries, SourcesAfter, Ordered
<1>3. N \in Nat /\ \A n \in 1..N, s \in T : AppendSource(s, ordered[n], adjectives, compiling) \in T
  BY OrderedIs
<1> HIDE DEF ordered, N, rec, adjectives
<1>4. g \in [1..N -> [T -> T]]
  BY <1>3
<1>5. \A n \in 1..N, s \in T : g[n][s] = AppendSource(s, ordered[n], adjectives, compiling)
  OBVIOUS
<1> HIDE DEF g
<1>6. PICK f : Iterates(f, T, N, ExpansionStart, g)
  BY <1>3, <1>4, IterationExists
<1>7. Solves(f)
  <2>1. /\ f = [n \in 0..N |-> f[n]] /\ f[0] = ExpansionStart
        /\ \A n \in 1..N : f[n] = g[n][f[n - 1]] /\ f[n - 1] \in T
    BY <1>3, <1>6 DEF Iterates
  <2>2. \A n \in 1..N : f[n] = AppendSource(f[n - 1], ordered[n], adjectives, compiling)
    BY <1>5, <2>1
  <2>3. \A n \in 0..N : n # 0 => n \in 1..N
    BY <1>3
  <2>4. \A n \in 0..N : f[n] = IF n = 0 THEN ExpansionStart ELSE AppendSource(f[n - 1], ordered[n], adjectives, compiling)
    BY <2>1, <2>2, <2>3
  <2> QED BY <2>1, <2>4
<1>8. Solves(rec)
  BY <1>1, <1>7
<1>9. rec[0] = ExpansionStart
  BY <1>3, <1>8
<1>10. ASSUME NEW n \in 1..N PROVE rec[n] = AppendSource(rec[n - 1], ordered[n], adjectives, compiling)
  <2>1. n \in 0..N /\ n # 0
    BY <1>3
  <2> QED BY <1>8, <2>1
<1> DEFINE P == {n \in 0..N : rec[n] \in T}
<1>11. 0 \in P
  BY <1>3, <1>9
<1>12. ASSUME NEW n \in 1..N, n - 1 \in P PROVE n \in P
  <2>1. n \in 0..N /\ rec[n - 1] \in T
    BY <1>3, <1>12
  <2> QED BY <1>3, <1>10, <2>1
<1>13. \A n \in 0..N : n \in P
  <2> HIDE DEF P
  <2> QED BY <1>3, <1>11, <1>12, IntervalInduction
<1> QED BY <1>2, <1>9, <1>10, <1>13 DEF N, ordered, rec, adjectives

-----------------------------------------------------------------------------
(* What the compiler's and the library's options make of the rows *)

LEMMA StartIs ==
  ASSUME NEW own
  PROVE  Indexed(ExpansionStart, own) /\ KeptOnce(ExpansionStart) /\ DOMAIN ExpansionStart.bySurface = {}
<1>1. <<>> \in Seq(Entry) /\ DOMAIN <<>> = {} /\ \A S : <<>> \in [{} -> S]
  OBVIOUS
<1>2. \A K : <<>> \in Maps(K)
  BY <1>1, MapIs
<1>3. /\ ExpansionStart.entries = <<>> /\ ExpansionStart.identities = {} /\ ExpansionStart.bySurface = <<>>
      /\ ExpansionStart.bySurfacePos = <<>> /\ ExpansionStart.skipped = 0
  BY DEF ExpansionStart
<1>4. ExpansionStart \in Expansion
  BY <1>1, <1>2 DEF ExpansionStart, Expansion
<1> HIDE DEF ExpansionStart
<1>5. ToSet(<<>>) = {}
  BY <1>1 DEF ToSet
<1> QED BY <1>1, <1>3, <1>4, <1>5 DEF Indexed, KeptOnce, IsInjective

\* The surfaces of a set of forms.
Surfaces(forms) == {f.surface : f \in forms}

\* s answers for these surfaces besides those of r.
Answers(r, s, surfaces) == DOMAIN s.bySurface = DOMAIN r.bySurface \cup surfaces

\* The forms of a row that have its surface.
OwnOf(row, adjectives) == {f \in ToSet(Forms(row, adjectives)) : f.surface = row.surface}

\* A row is expanded by the compiler.
LEMMA SourceMeets ==
  ASSUME NEW own, NEW r, Indexed(r, own), NEW row \in Row, NEW adjectives,
         OwnOf(row, adjectives) \subseteq own
  PROVE  LET s == AppendSource(r, row, adjectives, TRUE)
         IN  /\ Indexed(s, own) /\ OwnKeys(r) \subseteq OwnKeys(s) /\ Key(row) \in OwnKeys(s)
             /\ Answers(r, s, Surfaces(ToSet(Forms(row, adjectives))))
<1> DEFINE forms == Forms(row, adjectives)
           N == Len(forms)
           T == {s \in Expansion : Indexed(s, own)}
           rec == FormsAfter(r, row, adjectives, TRUE)
<1>1. /\ forms \in Seq(Entry) /\ \A n \in DOMAIN forms : forms[n].pos = row.pos
      /\ \E n \in DOMAIN forms : forms[n].surface = row.surface
  BY FormsTyped
<1>2. N \in Nat /\ DOMAIN forms = 1..N /\ \A n \in 1..N : forms[n] \in Entry
  <2> HIDE DEF forms
  <2>1. \A t \in Seq(Entry) : Len(t) \in Nat /\ DOMAIN t = 1..Len(t) /\ \A n \in 1..Len(t) : t[n] \in Entry
    OBVIOUS
  <2> QED BY <1>1, <2>1
<1>3. ToSet(forms) = {forms[n] : n \in 1..N}
  BY <1>2 DEF ToSet
<1>4. \A n \in 1..N : forms[n].surface = row.surface => forms[n] \in own
  BY <1>3 DEF OwnOf
<1>5. \A s : Indexed(s, own) <=> s \in T
  BY DEF Indexed
<1> HIDE DEF T
<1>6. ASSUME NEW n \in 1..N, NEW s \in T
      PROVE  Meets(s, MeetForm(s, forms[n], row, TRUE), forms[n], forms[n].surface = row.surface, own)
  <2>1. (forms[n].surface = row.surface) \in BOOLEAN /\ forms[n] \in Entry /\ Indexed(s, own)
    BY <1>2, <1>5
  <2>2. Meets(s, KeepOne(s, forms[n], forms[n].surface = row.surface), forms[n], forms[n].surface = row.surface, own)
    BY <1>4, <2>1, KeepOneMeets
  <2> QED BY <2>2 DEF MeetForm
<1>7. \A n \in 1..N, s \in T : MeetForm(s, forms[n], row, TRUE) \in T
  BY <1>5, <1>6 DEF Meets
<1>8. /\ rec[0] = r /\ \A n \in 1..N : rec[n] = MeetForm(rec[n - 1], forms[n], row, TRUE)
      /\ \A n \in 0..N : rec[n] \in T
      /\ AppendSource(r, row, adjectives, TRUE) = rec[N]
  <2>1. r \in T
    BY <1>5
  <2>2. Len(Forms(row, adjectives)) \in Nat
    BY <1>2
  <2>3. StaysIn(T, row, adjectives, TRUE)
    BY <1>7 DEF StaysIn
  <2>4. FormsRecur(T, r, row, adjectives, TRUE)
    BY <2>1, <2>2, <2>3, FormsAfterIs
  <2> QED BY <2>4 DEF FormsRecur
<1> HIDE DEF rec, forms, N
<1> DEFINE P == {n \in 0..N : /\ DOMAIN rec[n].bySurface = DOMAIN r.bySurface \cup {forms[m].surface : m \in 1..n}
                              /\ OwnKeys(r) \subseteq OwnKeys(rec[n])
                              /\ \A m \in 1..n : forms[m].surface = row.surface => Key(forms[m]) \in OwnKeys(rec[n])}
<1>9. 0 \in P
  BY <1>2, <1>8
<1>10. ASSUME NEW n \in 1..N, n - 1 \in P PROVE n \in P
  <2>1. n \in 0..N /\ n - 1 \in 0..N /\ rec[n - 1] \in T /\ \A m \in 1..n : m \in 1..n - 1 \/ m = n
    BY <1>2, <1>8
  <2>2. Meets(rec[n - 1], rec[n], forms[n], forms[n].surface = row.surface, own)
    BY <1>6, <1>8, <2>1
  <2>3. /\ DOMAIN rec[n].bySurface = DOMAIN rec[n - 1].bySurface \cup {forms[n].surface}
        /\ OwnKeys(rec[n - 1]) \subseteq OwnKeys(rec[n])
        /\ forms[n].surface = row.surface => Key(forms[n]) \in OwnKeys(rec[n])
    BY <2>2 DEF Meets
  <2>4. /\ DOMAIN rec[n - 1].bySurface = DOMAIN r.bySurface \cup {forms[m].surface : m \in 1..n - 1}
        /\ OwnKeys(r) \subseteq OwnKeys(rec[n - 1])
        /\ \A m \in 1..n - 1 : forms[m].surface = row.surface => Key(forms[m]) \in OwnKeys(rec[n - 1])
    BY <1>10
  <2>5. {forms[m].surface : m \in 1..n} = {forms[m].surface : m \in 1..n - 1} \cup {forms[n].surface}
    <3>1. \A m \in 1..n - 1 : m \in 1..n
      BY <1>2
    <3>2. n \in 1..n
      BY <1>2
    <3> QED BY <2>1, <3>1, <3>2
  <2> QED BY <2>1, <2>3, <2>4, <2>5
<1>11. \A n \in 0..N : n \in P
  <2> HIDE DEF P
  <2> QED BY <1>2, <1>9, <1>10, IntervalInduction
<1>12. N \in P
  BY <1>2, <1>11
<1>13. Answers(r, rec[N], Surfaces(ToSet(forms)))
  BY <1>3, <1>12 DEF Answers, Surfaces
<1>14. Key(row) \in OwnKeys(rec[N])
  <2>1. PICK n \in 1..N : forms[n].surface = row.surface /\ forms[n].pos = row.pos
    BY <1>1, <1>2 DEF forms
  <2>2. Key(forms[n]) = Key(row)
    BY <2>1 DEF Key
  <2> QED BY <1>12, <2>1, <2>2
<1>15. Indexed(rec[N], own)
  BY <1>2, <1>5, <1>8
<1> QED BY <1>8, <1>12, <1>13, <1>14, <1>15 DEF forms

\* The forms with the surface of their row.
OwnForms(rows) == UNION {OwnOf(rows[i], Adjectives(rows)) : i \in DOMAIN rows}

\* The compiler keeps every surface, and claims every row's key.
LEMMA CompilerExpands ==
  ASSUME NEW rows \in Seq(Row)
  PROVE  LET r == ExpandDictionarySourceEntries(rows, TRUE)
         IN  /\ Indexed(r, OwnForms(rows))
             /\ DOMAIN r.bySurface = Surfaces(AllForms(rows))
             /\ \A i \in DOMAIN rows : Key(rows[i]) \in OwnKeys(r)
<1> DEFINE ordered == Ordered(rows)
           N == Len(ordered)
           adjectives == Adjectives(rows)
           own == OwnForms(rows)
           T == {s \in Expansion : Indexed(s, own)}
           rec == SourcesAfter(rows, TRUE)
           Of(row) == Surfaces(ToSet(Forms(row, adjectives)))
<1>1. /\ ordered \in Seq(Row) /\ N \in Nat
      /\ \A n \in 1..N : \E i \in DOMAIN rows : ordered[n] = rows[i]
      /\ \A i \in DOMAIN rows : \E n \in 1..N : ordered[n] = rows[i]
  BY OrderedIs
<1>2. \A n \in 1..N : ordered[n] \in Row
  <2> HIDE DEF ordered
  <2> QED BY <1>1
<1>3. ASSUME NEW n \in 1..N PROVE OwnOf(ordered[n], adjectives) \subseteq own
  <2>1. PICK i \in DOMAIN rows : ordered[n] = rows[i]
    BY <1>1
  <2> QED BY <2>1 DEF OwnForms
<1>4. \A s : Indexed(s, own) <=> s \in T
  BY DEF Indexed
<1> HIDE DEF T, own, ordered, N, adjectives
<1>5. ASSUME NEW n \in 1..N, NEW s \in T
      PROVE  LET after == AppendSource(s, ordered[n], adjectives, TRUE)
             IN  /\ after \in T /\ OwnKeys(s) \subseteq OwnKeys(after) /\ Key(ordered[n]) \in OwnKeys(after)
                 /\ Answers(s, after, Of(ordered[n]))
  <2> DEFINE row == ordered[n]
             after == AppendSource(s, row, adjectives, TRUE)
  <2>1. Indexed(s, own) /\ row \in Row
    BY <1>2, <1>4
  <2>2. OwnOf(row, adjectives) \subseteq own
    BY <1>3
  <2> HIDE DEF row
  <2>3. /\ Indexed(after, own) /\ OwnKeys(s) \subseteq OwnKeys(after) /\ Key(row) \in OwnKeys(after)
        /\ Answers(s, after, Surfaces(ToSet(Forms(row, adjectives))))
    BY <2>1, <2>2, SourceMeets
  <2> HIDE DEF after
  <2>4. after \in T
    BY <1>4, <2>3
  <2> QED BY <2>3, <2>4 DEF after, row
<1>6. /\ rec[0] = ExpansionStart /\ \A n \in 1..N : rec[n] = AppendSource(rec[n - 1], ordered[n], adjectives, TRUE)
      /\ \A n \in 0..N : rec[n] \in T
      /\ ExpandDictionarySourceEntries(rows, TRUE) = rec[N]
  <2>1. ExpansionStart \in T
    BY <1>4, StartIs
  <2>2. \A n \in 1..N, s \in T : AppendSource(s, ordered[n], adjectives, TRUE) \in T
    BY <1>5
  <2> HIDE DEF rec
  <2>3. \A n \in 1..Len(Ordered(rows)), s \in T : AppendSource(s, Ordered(rows)[n], Adjectives(rows), TRUE) \in T
    BY <2>2 DEF N, ordered, adjectives
  <2> QED BY <2>1, <2>3, SourcesAfterIs DEF rec, N, ordered, adjectives
<1> HIDE DEF rec, Of
<1> DEFINE P == {n \in 0..N : /\ DOMAIN rec[n].bySurface = UNION {Of(ordered[m]) : m \in 1..n}
                              /\ \A m \in 1..n : Key(ordered[m]) \in OwnKeys(rec[n])}
<1>7. 0 \in P
  <2>1. 1..0 = {}
    OBVIOUS
  <2> QED BY <1>1, <1>6, <2>1, StartIs
<1>8. ASSUME NEW n \in 1..N, n - 1 \in P PROVE n \in P
  <2>1. n \in 0..N /\ n - 1 \in 0..N /\ rec[n - 1] \in T /\ \A m \in 1..n : m \in 1..n - 1 \/ m = n
    BY <1>1, <1>6
  <2>2. /\ OwnKeys(rec[n - 1]) \subseteq OwnKeys(rec[n]) /\ Key(ordered[n]) \in OwnKeys(rec[n])
        /\ Answers(rec[n - 1], rec[n], Of(ordered[n]))
    BY <1>5, <1>6, <2>1
  <2>3. /\ DOMAIN rec[n - 1].bySurface = UNION {Of(ordered[m]) : m \in 1..n - 1}
        /\ \A m \in 1..n - 1 : Key(ordered[m]) \in OwnKeys(rec[n - 1])
    BY <1>8
  <2>4. UNION {Of(ordered[m]) : m \in 1..n} = (UNION {Of(ordered[m]) : m \in 1..n - 1}) \cup Of(ordered[n])
    <3>1. \A m \in 1..n - 1 : m \in 1..n
      BY <1>1
    <3>2. n \in 1..n
      BY <1>1
    <3> QED BY <2>1, <3>1, <3>2
  <2> QED BY <2>1, <2>2, <2>3, <2>4 DEF Answers
<1>9. \A n \in 0..N : n \in P
  <2> HIDE DEF P
  <2> QED BY <1>1, <1>7, <1>8, IntervalInduction
<1>10. N \in P
  <2> HIDE DEF P
  <2> QED BY <1>1, <1>9
<1>11. Indexed(rec[N], own)
  BY <1>1, <1>4, <1>6
<1>12. UNION {Of(ordered[m]) : m \in 1..N} = Surfaces(AllForms(rows))
  <2>1. AllForms(rows) = UNION {ToSet(Forms(rows[i], adjectives)) : i \in DOMAIN rows}
    BY DEF AllForms, adjectives
  <2>2. ASSUME NEW x \in UNION {Of(ordered[m]) : m \in 1..N} PROVE x \in Surfaces(AllForms(rows))
    <3>1. PICK m \in 1..N : x \in Of(ordered[m])
      BY <2>2
    <3>2. PICK i \in DOMAIN rows : ordered[m] = rows[i]
      BY <1>1
    <3>3. PICK f \in ToSet(Forms(rows[i], adjectives)) : x = f.surface
      BY <3>1, <3>2 DEF Of, Surfaces
    <3>4. f \in AllForms(rows)
      BY <2>1
    <3> QED BY <3>3, <3>4 DEF Surfaces
  <2>3. ASSUME NEW x \in Surfaces(AllForms(rows)) PROVE x \in UNION {Of(ordered[m]) : m \in 1..N}
    <3>1. PICK f \in AllForms(rows) : x = f.surface
      BY <2>3 DEF Surfaces
    <3>2. PICK i \in DOMAIN rows : f \in ToSet(Forms(rows[i], adjectives))
      BY <2>1
    <3>3. PICK m \in 1..N : ordered[m] = rows[i]
      BY <1>1
    <3>4. x \in Of(ordered[m])
      BY <3>1, <3>2, <3>3 DEF Of, Surfaces
    <3> QED BY <3>4
  <2> QED BY <2>2, <2>3
<1>13. ASSUME NEW i \in DOMAIN rows PROVE Key(rows[i]) \in OwnKeys(rec[N])
  <2>1. PICK n \in 1..N : ordered[n] = rows[i]
    BY <1>1
  <2> QED BY <1>10, <2>1
<1> QED BY <1>6, <1>10, <1>11, <1>12, <1>13 DEF own

\* s holds these forms besides those of r.
Gains(r, s, forms) == ToSet(s.entries) = ToSet(r.entries) \cup forms

\* A row is expanded by the library.
LEMMA SourceKept ==
  ASSUME NEW r, KeptOnce(r), NEW row \in Row, NEW adjectives
  PROVE  LET s == AppendSource(r, row, adjectives, FALSE)
         IN  KeptOnce(s) /\ Gains(r, s, ToSet(Forms(row, adjectives)))
<1> DEFINE forms == Forms(row, adjectives)
           N == Len(forms)
           T == {s \in Expansion : KeptOnce(s)}
           rec == FormsAfter(r, row, adjectives, FALSE)
<1>1. forms \in Seq(Entry)
  BY FormsTyped
<1>2. N \in Nat /\ DOMAIN forms = 1..N /\ \A n \in 1..N : forms[n] \in Entry
  <2> HIDE DEF forms
  <2>1. \A t \in Seq(Entry) : Len(t) \in Nat /\ DOMAIN t = 1..Len(t) /\ \A n \in 1..Len(t) : t[n] \in Entry
    OBVIOUS
  <2> QED BY <1>1, <2>1
<1>3. ToSet(forms) = {forms[n] : n \in 1..N}
  BY <1>2 DEF ToSet
<1>4. \A s : KeptOnce(s) <=> s \in T
  BY DEF KeptOnce
<1> HIDE DEF T
<1>5. ASSUME NEW n \in 1..N, NEW s \in T
      PROVE  MeetForm(s, forms[n], row, FALSE) \in T /\ Gains(s, MeetForm(s, forms[n], row, FALSE), {forms[n]})
  <2> DEFINE explicit == forms[n].surface = row.surface
             after == KeepAll(s, forms[n], explicit)
  <2>1. explicit \in BOOLEAN /\ forms[n] \in Entry /\ KeptOnce(s)
    BY <1>2, <1>4
  <2>2. KeptOnce(after) /\ ToSet(after.entries) = ToSet(s.entries) \cup {forms[n]}
    <3> HIDE DEF explicit
    <3> QED BY <2>1, KeepAllOnce
  <2>3. MeetForm(s, forms[n], row, FALSE) = after
    BY DEF MeetForm
  <2> HIDE DEF after
  <2> QED BY <1>4, <2>2, <2>3 DEF Gains
<1>6. /\ rec[0] = r /\ \A n \in 1..N : rec[n] = MeetForm(rec[n - 1], forms[n], row, FALSE)
      /\ \A n \in 0..N : rec[n] \in T
      /\ AppendSource(r, row, adjectives, FALSE) = rec[N]
  <2>1. r \in T
    BY <1>4
  <2>2. Len(Forms(row, adjectives)) \in Nat
    BY <1>2
  <2>3. StaysIn(T, row, adjectives, FALSE)
    BY <1>5 DEF StaysIn
  <2>4. FormsRecur(T, r, row, adjectives, FALSE)
    BY <2>1, <2>2, <2>3, FormsAfterIs
  <2> QED BY <2>4 DEF FormsRecur
<1> HIDE DEF rec, forms, N
<1> DEFINE P == {n \in 0..N : ToSet(rec[n].entries) = ToSet(r.entries) \cup {forms[m] : m \in 1..n}}
<1>7. 0 \in P
  BY <1>2, <1>6
<1>8. ASSUME NEW n \in 1..N, n - 1 \in P PROVE n \in P
  <2>1. n \in 0..N /\ n - 1 \in 0..N /\ rec[n - 1] \in T /\ \A m \in 1..n : m \in 1..n - 1 \/ m = n
    BY <1>2, <1>6
  <2>2. ToSet(rec[n].entries) = ToSet(rec[n - 1].entries) \cup {forms[n]}
    BY <1>5, <1>6, <2>1 DEF Gains
  <2>3. ToSet(rec[n - 1].entries) = ToSet(r.entries) \cup {forms[m] : m \in 1..n - 1}
    BY <1>8
  <2>4. {forms[m] : m \in 1..n} = {forms[m] : m \in 1..n - 1} \cup {forms[n]}
    <3>1. (\A m \in 1..n - 1 : m \in 1..n) /\ n \in 1..n
      BY <1>2
    <3> QED BY <2>1, <3>1
  <2> QED BY <2>1, <2>2, <2>3, <2>4
<1>9. \A n \in 0..N : n \in P
  <2> HIDE DEF P
  <2> QED BY <1>2, <1>7, <1>8, IntervalInduction
<1>10. N \in P
  <2> HIDE DEF P
  <2> QED BY <1>2, <1>9
<1>11. KeptOnce(rec[N]) /\ Gains(r, rec[N], ToSet(forms))
  BY <1>2, <1>3, <1>4, <1>6, <1>10 DEF Gains
<1> QED BY <1>6, <1>11 DEF forms

\* The library keeps every form once.
LEMMA LibraryExpands ==
  ASSUME NEW rows \in Seq(Row)
  PROVE  LET r == ExpandDictionarySourceEntries(rows, FALSE)
         IN KeptOnce(r) /\ ToSet(r.entries) = AllForms(rows)
<1> DEFINE ordered == Ordered(rows)
           N == Len(ordered)
           adjectives == Adjectives(rows)
           T == {s \in Expansion : KeptOnce(s)}
           rec == SourcesAfter(rows, FALSE)
           Of(row) == ToSet(Forms(row, adjectives))
<1>1. /\ ordered \in Seq(Row) /\ N \in Nat
      /\ \A n \in 1..N : \E i \in DOMAIN rows : ordered[n] = rows[i]
      /\ \A i \in DOMAIN rows : \E n \in 1..N : ordered[n] = rows[i]
  BY OrderedIs
<1>2. \A n \in 1..N : ordered[n] \in Row
  <2> HIDE DEF ordered
  <2> QED BY <1>1
<1>3. \A s : KeptOnce(s) <=> s \in T
  BY DEF KeptOnce
<1> HIDE DEF T, ordered, N, adjectives
<1>4. ASSUME NEW n \in 1..N, NEW s \in T
      PROVE  LET after == AppendSource(s, ordered[n], adjectives, FALSE) IN after \in T /\ Gains(s, after, Of(ordered[n]))
  <2> DEFINE row == ordered[n]
             after == AppendSource(s, row, adjectives, FALSE)
  <2>1. KeptOnce(s) /\ row \in Row
    BY <1>2, <1>3
  <2> HIDE DEF row
  <2>2. KeptOnce(after) /\ Gains(s, after, ToSet(Forms(row, adjectives)))
    BY <2>1, SourceKept
  <2> HIDE DEF after
  <2>3. after \in T
    BY <1>3, <2>2
  <2> QED BY <2>2, <2>3 DEF after, row
<1>5. /\ rec[0] = ExpansionStart /\ \A n \in 1..N : rec[n] = AppendSource(rec[n - 1], ordered[n], adjectives, FALSE)
      /\ \A n \in 0..N : rec[n] \in T
      /\ ExpandDictionarySourceEntries(rows, FALSE) = rec[N]
  <2>1. ExpansionStart \in T
    BY <1>3, StartIs
  <2>2. \A n \in 1..N, s \in T : AppendSource(s, ordered[n], adjectives, FALSE) \in T
    BY <1>4
  <2> HIDE DEF rec
  <2>3. \A n \in 1..Len(Ordered(rows)), s \in T : AppendSource(s, Ordered(rows)[n], Adjectives(rows), FALSE) \in T
    BY <2>2 DEF N, ordered, adjectives
  <2> QED BY <2>1, <2>3, SourcesAfterIs DEF rec, N, ordered, adjectives
<1> HIDE DEF rec, Of
<1> DEFINE P == {n \in 0..N : ToSet(rec[n].entries) = UNION {Of(ordered[m]) : m \in 1..n}}
<1>6. 0 \in P
  <2>1. 1..0 = {} /\ DOMAIN <<>> = {}
    OBVIOUS
  <2>2. ToSet(rec[0].entries) = {}
    BY <1>5, <2>1 DEF ExpansionStart, ToSet
  <2> QED BY <1>1, <2>1, <2>2
<1>7. ASSUME NEW n \in 1..N, n - 1 \in P PROVE n \in P
  <2>1. n \in 0..N /\ n - 1 \in 0..N /\ rec[n - 1] \in T /\ \A m \in 1..n : m \in 1..n - 1 \/ m = n
    BY <1>1, <1>5
  <2>2. Gains(rec[n - 1], rec[n], Of(ordered[n]))
    BY <1>4, <1>5, <2>1
  <2>3. ToSet(rec[n - 1].entries) = UNION {Of(ordered[m]) : m \in 1..n - 1}
    BY <1>7
  <2>4. UNION {Of(ordered[m]) : m \in 1..n} = (UNION {Of(ordered[m]) : m \in 1..n - 1}) \cup Of(ordered[n])
    <3>1. (\A m \in 1..n - 1 : m \in 1..n) /\ n \in 1..n
      BY <1>1
    <3> QED BY <2>1, <3>1
  <2> QED BY <2>1, <2>2, <2>3, <2>4 DEF Gains
<1>8. \A n \in 0..N : n \in P
  <2> HIDE DEF P
  <2> QED BY <1>1, <1>6, <1>7, IntervalInduction
<1>9. N \in P
  <2> HIDE DEF P
  <2> QED BY <1>1, <1>8
<1>10. KeptOnce(rec[N])
  BY <1>1, <1>3, <1>5
<1>11. UNION {Of(ordered[m]) : m \in 1..N} = AllForms(rows)
  <2>1. AllForms(rows) = UNION {Of(rows[i]) : i \in DOMAIN rows}
    BY DEF AllForms, adjectives, Of
  <2>2. ASSUME NEW f \in UNION {Of(ordered[m]) : m \in 1..N} PROVE f \in AllForms(rows)
    <3>1. PICK m \in 1..N : f \in Of(ordered[m])
      BY <2>2
    <3>2. PICK i \in DOMAIN rows : ordered[m] = rows[i]
      BY <1>1
    <3> QED BY <2>1, <3>1, <3>2
  <2>3. ASSUME NEW f \in AllForms(rows) PROVE f \in UNION {Of(ordered[m]) : m \in 1..N}
    <3>1. PICK i \in DOMAIN rows : f \in Of(rows[i])
      BY <2>1, <2>3
    <3>2. PICK m \in 1..N : ordered[m] = rows[i]
      BY <1>1
    <3> QED BY <3>1, <3>2
  <2> QED BY <2>2, <2>3
<1> QED BY <1>5, <1>9, <1>10, <1>11

-----------------------------------------------------------------------------
(* What a compiled and a loaded source are *)

\* The properties of a compiled source, for one of them.
GoodOutput(out) ==
  /\ \A i, j \in DOMAIN out.entries :
       i # j /\ out.entries[i].surface = out.entries[j].surface =>
         /\ out.entries[i].pos # out.entries[j].pos
         /\ \E n \in DOMAIN out.rows : Key(out.rows[n]) = Key(out.entries[i])
  /\ {out.entries[i].surface : i \in DOMAIN out.entries} = {f.surface : f \in AllForms(out.rows)}
  /\ \A n \in DOMAIN out.rows :
       \E f \in ToSet(out.entries) \cap ToSet(Forms(out.rows[n], Adjectives(out.rows))) :
         f.surface = out.rows[n].surface

\* A form of a row that has its surface has its key.
LEMMA OwnFormKey ==
  ASSUME NEW rows \in Seq(Row), NEW f \in OwnForms(rows)
  PROVE  \E n \in DOMAIN rows : Key(f) = Key(rows[n]) /\ f \in OwnOf(rows[n], Adjectives(rows))
<1>1. PICK n \in DOMAIN rows : f \in OwnOf(rows[n], Adjectives(rows))
  BY DEF OwnForms
<1> DEFINE row == rows[n]
           forms == Forms(row, Adjectives(rows))
<1>2. row \in Row
  OBVIOUS
<1>3. f \in ToSet(forms) /\ f.surface = row.surface
  BY <1>1 DEF OwnOf
<1> HIDE DEF row
<1>4. \A k \in DOMAIN forms : forms[k].pos = row.pos
  BY <1>2, FormsTyped
<1>5. f.pos = row.pos
  <2> HIDE DEF forms
  <2> QED BY <1>3, <1>4 DEF ToSet
<1>6. Key(f) = Key(row)
  BY <1>3, <1>5 DEF Key
<1> QED BY <1>1, <1>6 DEF row

\* Of rows with distinct keys, what the compiler's indexes say is what is
\* promised of its output.
LEMMA IndexedIsGood ==
  ASSUME NEW rows \in Seq(Row), Validated(rows)
  PROVE  GoodOutput([rows |-> rows, entries |-> ExpandDictionarySourceEntries(rows, TRUE).entries])
<1> DEFINE r == ExpandDictionarySourceEntries(rows, TRUE)
           own == OwnForms(rows)
           out == [rows |-> rows, entries |-> r.entries]
<1>1. /\ Indexed(r, own) /\ DOMAIN r.bySurface = Surfaces(AllForms(rows))
      /\ \A i \in DOMAIN rows : Key(rows[i]) \in OwnKeys(r)
  BY CompilerExpands
<1>2. \A i, j \in DOMAIN rows : i # j => Key(rows[i]) # Key(rows[j])
  BY DEF Validated
<1>3. \A e, f : Key(e) = Key(f) <=> e.surface = f.surface /\ e.pos = f.pos
  BY DEF Key
<1> HIDE DEF r
<1>4. \A f \in own : \E n \in DOMAIN rows : Key(f) = Key(rows[n]) /\ f \in OwnOf(rows[n], Adjectives(rows))
  BY OwnFormKey
<1> HIDE DEF own
<1>5. ASSUME NEW i \in DOMAIN r.entries, NEW j \in DOMAIN r.entries, i # j, r.entries[i].surface = r.entries[j].surface
      PROVE  r.entries[i].pos # r.entries[j].pos /\ \E n \in DOMAIN rows : Key(rows[n]) = Key(r.entries[i])
  <2>1. Key(r.entries[i]) # Key(r.entries[j])
    <3>1. /\ r.bySurfacePos[Key(r.entries[i])].index = i
          /\ r.bySurfacePos[Key(r.entries[j])].index = j
      BY <1>1, <1>5 DEF Indexed
    <3> QED BY <1>5, <3>1
  <2>2. r.entries[i] \in own
    BY <1>1, <1>5 DEF Indexed
  <2> QED BY <1>3, <1>4, <1>5, <2>1, <2>2
<1>6. {r.entries[i].surface : i \in DOMAIN r.entries} = {f.surface : f \in AllForms(rows)}
  <2>1. {f.surface : f \in AllForms(rows)} = DOMAIN r.bySurface
    BY <1>1 DEF Surfaces
  <2>2. \A i \in DOMAIN r.entries : r.entries[i].surface \in DOMAIN r.bySurface
    BY <1>1 DEF Indexed
  <2>3. ASSUME NEW x \in DOMAIN r.bySurface PROVE \E i \in DOMAIN r.entries : x = r.entries[i].surface
    <3> DEFINE i == r.bySurface[x].index
    <3>1. i \in DOMAIN r.entries /\ Key(r.entries[i]) = <<x, r.bySurface[x].pos>>
      BY <1>1 DEF Indexed
    <3> QED BY <3>1 DEF Key
  <2> QED BY <2>1, <2>2, <2>3
<1>7. ASSUME NEW n \in DOMAIN rows
      PROVE  \E f \in ToSet(r.entries) \cap ToSet(Forms(rows[n], Adjectives(rows))) : f.surface = rows[n].surface
  <2> DEFINE k == Key(rows[n])
             i == r.bySurfacePos[k].index
             f == r.entries[i]
  <2>1. k \in DOMAIN r.bySurfacePos /\ r.bySurface[k[1]].explicit
    BY <1>1 DEF OwnKeys
  <2>2. i \in DOMAIN r.entries /\ Key(f) = k
    BY <1>1, <2>1 DEF Indexed
  <2>3. f.surface = k[1]
    BY <2>2 DEF Key
  <2>4. f \in own
    BY <1>1, <2>1, <2>2, <2>3 DEF Indexed
  <2>5. PICK m \in DOMAIN rows : Key(f) = Key(rows[m]) /\ f \in OwnOf(rows[m], Adjectives(rows))
    BY <1>4, <2>4
  <2>6. m = n
    BY <1>2, <2>2, <2>5
  <2>7. f \in ToSet(r.entries)
    BY <2>2 DEF ToSet
  <2> HIDE DEF f
  <2> QED BY <2>5, <2>6, <2>7 DEF OwnOf
<1>8. out.rows = rows /\ out.entries = r.entries
  OBVIOUS
<1> HIDE DEF out
<1>9. GoodOutput(out)
  <2>1. \A i, j \in DOMAIN out.entries :
          i # j /\ out.entries[i].surface = out.entries[j].surface =>
            /\ out.entries[i].pos # out.entries[j].pos
            /\ \E n \in DOMAIN out.rows : Key(out.rows[n]) = Key(out.entries[i])
    BY <1>5, <1>8
  <2>2. {out.entries[i].surface : i \in DOMAIN out.entries} = {f.surface : f \in AllForms(out.rows)}
    BY <1>6, <1>8
  <2>3. \A n \in DOMAIN out.rows :
          \E f \in ToSet(out.entries) \cap ToSet(Forms(out.rows[n], Adjectives(out.rows))) :
            f.surface = out.rows[n].surface
    BY <1>7, <1>8
  <2> QED BY <2>1, <2>2, <2>3 DEF GoodOutput
<1> QED BY <1>9 DEF out, r

LEMMA CompiledIsGood ==
  ASSUME NEW content \in Seq(Token), NEW out \in ToSet(CompileSource(content))
  PROVE  GoodOutput(out)
<1> DEFINE parsed == ParseDictionarySource(content, FALSE)
           rows == parsed.entries
           compiled1 == [rows |-> rows, entries |-> ExpandDictionarySourceEntries(rows, TRUE).entries]
<1>1. parsed.entries \in Seq(Row)
  BY ParsedTyped
<1>2. \/ CompileSource(content) = <<>>
      \/ Validated(rows) /\ CompileSource(content) = <<compiled1>>
  BY DEF CompileSource, Compiled
<1> HIDE DEF compiled1
<1>3. ToSet(<<>>) = {} /\ \A e : ToSet(<<e>>) = {e}
  BY DEF ToSet
<1>4. Validated(rows) /\ out = compiled1
  BY <1>2, <1>3
<1> HIDE DEF parsed
<1>5. GoodOutput(compiled1)
  BY <1>1, <1>4, IndexedIsGood DEF compiled1
<1> QED BY <1>4, <1>5

\* What the library keeps of a source.
LEMMA LoadedKeepsEveryForm ==
  ASSUME NEW content \in Seq(Token), NEW in \in ToSet(LoadSource(content))
  PROVE  /\ in.rows = ParseDictionarySource(content, TRUE).entries
         /\ ToSet(in.entries) = {f \in AllForms(in.rows) : Loadable(f)}
         /\ IsInjective(in.entries)
<1> DEFINE parsed == ParseDictionarySource(content, TRUE)
           rows == parsed.entries
           r == ExpandDictionarySourceEntries(rows, FALSE)
           expanded == r.entries
           kept == {i \in DOMAIN expanded : Loadable(expanded[i])}
           installed == Pick(expanded, kept)
           loaded == [rows |-> rows, entries |-> installed]
<1>1. rows \in Seq(Row)
  BY ParsedTyped
<1>2. LoadSource(content) = <<>> \/ LoadSource(content) = <<loaded>>
  BY DEF LoadSource, Installed
<1> HIDE DEF loaded
<1>3. ToSet(<<>>) = {} /\ \A e : ToSet(<<e>>) = {e}
  BY DEF ToSet
<1>4. in = loaded
  BY <1>2, <1>3
<1> HIDE DEF parsed
<1>5. KeptOnce(r) /\ ToSet(expanded) = AllForms(rows)
  BY <1>1, LibraryExpands
<1> HIDE DEF r
<1>6. expanded \in Seq(Entry) /\ \A i, j \in DOMAIN expanded : expanded[i] = expanded[j] => i = j
  BY <1>5, ExpansionFields DEF KeptOnce, IsInjective
<1> HIDE DEF expanded
<1>7. kept \in SUBSET DOMAIN expanded
  OBVIOUS
<1>8. /\ \A n \in DOMAIN installed : \E i \in kept : installed[n] = expanded[i]
      /\ \A i \in kept : \E n \in DOMAIN installed : installed[n] = expanded[i]
  <2> HIDE DEF kept
  <2> QED BY <1>6, <1>7, PickKeeps
<1>9. \A m, n \in DOMAIN installed : installed[m] = installed[n] => m = n
  <2> HIDE DEF kept
  <2> QED BY <1>6, <1>7, PickOnce
<1> HIDE DEF installed
<1>10. ToSet(installed) = {f \in AllForms(rows) : Loadable(f)}
  <2>1. ToSet(expanded) = {expanded[i] : i \in DOMAIN expanded} /\ ToSet(installed) = {installed[n] : n \in DOMAIN installed}
    BY DEF ToSet
  <2>2. ASSUME NEW f \in ToSet(installed) PROVE f \in AllForms(rows) /\ Loadable(f)
    BY <1>5, <1>8, <2>1
  <2>3. ASSUME NEW f \in AllForms(rows), Loadable(f) PROVE f \in ToSet(installed)
    <3>1. PICK i \in DOMAIN expanded : f = expanded[i]
      BY <1>5, <2>1
    <3>2. i \in kept
      BY <2>3, <3>1
    <3> QED BY <1>8, <2>1, <3>1, <3>2
  <2> QED BY <2>2, <2>3
<1>11. IsInjective(installed)
  BY <1>9 DEF IsInjective
<1>12. loaded.rows = rows /\ loaded.entries = installed
  BY DEF loaded
<1> QED BY <1>4, <1>10, <1>11, <1>12 DEF parsed

-----------------------------------------------------------------------------
(* The session *)

OptionalText == {<<>>} \cup {<<t>> : t \in Seq(Token)}

\* What the flags promise needs no more than that the entries are rows; what
\* was compiled or loaded is what a text gave.
SessionInv ==
  /\ disk \in OptionalText
  /\ entries \in Seq(Row)
  /\ compiled \in {<<>>} \cup {CompileSource(t) : t \in Seq(Token)}
  /\ library \in {<<>>} \cup {LoadSource(t) : t \in Seq(Token)}
  /\ FlagsTellTheTruth

\* The analyzer that the entries ask for.
Wanted(rows) ==
  {f \in AllForms(ParseDictionarySource(TsvRows(rows), TRUE).entries) : Loadable(f)}

LEMMA WordsAreTexts == Seq(STRING) \subseteq Seq(Token)
<1>1. STRING \subseteq Token
  BY DEF Token
<1>2. \A S, T : S \subseteq T => Seq(S) \subseteq Seq(T)
  OBVIOUS
<1> QED BY <1>1, <1>2

LEMMA TypedCommands ==
  ASSUME NEW c \in Typed
  PROVE  NewEntry(c.surface, c.word, c.conj) \in Row /\ c.conj \in Conj
<1>1. c.surface \in Seq(STRING) /\ PosOf[c.word] \in Pos /\ c.conj \in Conj
  BY SessionAssumption, Tables
<1>2. c.surface \in Seq(Token)
  BY <1>1, WordsAreTexts
<1>3. <<>> \in Seq(Token)
  OBVIOUS
<1> QED BY <1>1, <1>2, <1>3 DEF NewEntry, Row

\* The analyzer that a command uses is the one the entries ask for.
LEMMA RebuiltIsWanted ==
  ASSUME entries \in Seq(Row), Rebuilt # <<>>, dirty \/ ToSet(analyzer) = Wanted(entries)
  PROVE  ToSet(Rebuilt[1]) = Wanted(entries)
<1> DEFINE text == TsvRows(entries)
           loaded == LoadSource(text)
<1>1. text \in Seq(Token) /\ (entries = <<>> => text = <<>>)
  BY WrittenTyped
<1> HIDE DEF text
<1>2. CASE dirty /\ entries # <<>>
  <2>1. loaded # <<>> /\ Rebuilt[1] = loaded[1].entries
    BY <1>2 DEF Rebuilt, text
  <2>2. loaded[1] \in ToSet(loaded)
    <3>1. \/ loaded = <<>> \/ \E e : loaded = <<e>>
      BY DEF LoadSource, Installed
    <3> HIDE DEF loaded
    <3>2. \A e : <<e>>[1] \in ToSet(<<e>>)
      BY DEF ToSet
    <3> QED BY <2>1, <3>1, <3>2
  <2> DEFINE in == loaded[1]
  <2>3. in.rows = ParseDictionarySource(text, TRUE).entries /\ ToSet(in.entries) = {f \in AllForms(in.rows) : Loadable(f)}
    BY <1>1, <2>2, LoadedKeepsEveryForm
  <2> HIDE DEF in
  <2>4. ToSet(in.entries) = Wanted(entries)
    BY <2>3 DEF Wanted, text
  <2> QED BY <2>1, <2>4 DEF in
<1>3. CASE dirty /\ entries = <<>>
  <2>1. Rebuilt[1] = <<>>
    BY <1>3 DEF Rebuilt
  <2>2. ParseDictionarySource(text, TRUE).entries = <<>>
    BY <1>1, <1>3, ParsedTyped
  <2>3. DOMAIN <<>> = {}
    OBVIOUS
  <2>4. ToSet(<<>>) = {} /\ AllForms(<<>>) = {}
    BY <2>3 DEF ToSet, AllForms
  <2>5. Wanted(entries) = {}
    BY <2>2, <2>4 DEF Wanted, text
  <2> QED BY <2>1, <2>4, <2>5
<1>4. CASE ~dirty
  <2>1. Rebuilt[1] = analyzer
    BY <1>4 DEF Rebuilt
  <2> QED BY <1>4, <2>1
<1> QED BY <1>2, <1>3, <1>4

\* The states of an import, as the recursion defines them.
ImportedAfter(rows, skipping) ==
  CHOOSE after : after = [n \in 0..Len(rows) |->
                            IF n = 0 THEN entries
                            ELSE IF Has(after[n - 1], rows[n].surface, rows[n].pos)
                                      \/ (skipping /\ Key(rows[n]) \in Layer1)
                                   THEN after[n - 1]
                                   ELSE Append(after[n - 1], rows[n])]

LEMMA ImportedTyped ==
  ASSUME entries \in Seq(Row), NEW rows \in Seq(Row), NEW skipping \in BOOLEAN
  PROVE  Imported(rows, skipping) \in Seq(Row)
<1> DEFINE N == Len(rows)
           T == Seq(Row)
           Kept(s, n) == Has(s, rows[n].surface, rows[n].pos) \/ (skipping /\ Key(rows[n]) \in Layer1)
           Step(s, n) == IF Kept(s, n) THEN s ELSE Append(s, rows[n])
           g == [n \in 1..N |-> [s \in T |-> Step(s, n)]]
           Solves(f) == f = [n \in 0..N |-> IF n = 0 THEN entries ELSE Step(f[n - 1], n)]
           rec == ImportedAfter(rows, skipping)
<1>1. N \in Nat /\ \A n \in 1..N : rows[n] \in Row
  OBVIOUS
<1>2. rec = CHOOSE f : Solves(f)
  BY DEF ImportedAfter
<1>3. Imported(rows, skipping) = rec[N]
  BY DEF Imported, ImportedAfter
<1>4. \A n \in 1..N, s \in T : Step(s, n) \in T
  <2> HIDE DEF Kept
  <2>1. \A s \in Seq(Row), e \in Row : Append(s, e) \in Seq(Row)
    OBVIOUS
  <2> QED BY <1>1, <2>1
<1>5. entries \in T
  OBVIOUS
<1> HIDE DEF N, T, rec, Step
<1>6. g \in [1..N -> [T -> T]]
  BY <1>4
<1>7. \A n \in 1..N, s \in T : g[n][s] = Step(s, n)
  OBVIOUS
<1> HIDE DEF g
<1>8. PICK f : Iterates(f, T, N, entries, g)
  BY <1>1, <1>5, <1>6, IterationExists
<1>9. Solves(f)
  <2>1. /\ f = [n \in 0..N |-> f[n]] /\ f[0] = entries
        /\ \A n \in 1..N : f[n] = g[n][f[n - 1]] /\ f[n - 1] \in T
    BY <1>1, <1>8 DEF Iterates
  <2>2. \A n \in 1..N : f[n] = Step(f[n - 1], n)
    BY <1>7, <2>1
  <2>3. \A n \in 0..N : n # 0 => n \in 1..N
    BY <1>1
  <2>4. \A n \in 0..N : f[n] = IF n = 0 THEN entries ELSE Step(f[n - 1], n)
    BY <2>1, <2>2, <2>3
  <2> QED BY <2>1, <2>4
<1>10. Solves(rec)
  BY <1>2, <1>9
<1> DEFINE P == {n \in 0..N : rec[n] \in T}
<1>11. 0 \in P
  BY <1>1, <1>5, <1>10
<1>12. ASSUME NEW n \in 1..N, n - 1 \in P PROVE n \in P
  <2>1. n \in 0..N /\ n # 0 /\ rec[n - 1] \in T
    BY <1>1, <1>12
  <2>2. rec[n] = Step(rec[n - 1], n)
    BY <1>10, <2>1
  <2> QED BY <1>4, <2>1, <2>2
<1>13. \A n \in 0..N : n \in P
  <2> HIDE DEF P
  <2> QED BY <1>1, <1>11, <1>12, IntervalInduction
<1>14. rec[N] \in T
  BY <1>1, <1>13
<1> QED BY <1>3, <1>14 DEF T

\* A text from a file is a text.
LEMMA DiskText ==
  ASSUME disk \in OptionalText, disk # <<>>
  PROVE  disk[1] \in Seq(Token)
<1>1. PICK t \in Seq(Token) : disk = <<t>>
  BY DEF OptionalText
<1> QED BY <1>1

LEMMA InitInv == Init => SessionInv
<1> SUFFICES ASSUME Init PROVE SessionInv
  OBVIOUS
<1>1. disk \in OptionalText
  <2>1. disk \in Texts
    BY DEF Init
  <2>2. disk \in Seq(Seq(STRING)) /\ Len(disk) <= 1
    BY <2>1, SessionAssumption
  <2>3. disk = <<>> \/ \E t \in Seq(STRING) : disk = <<t>>
    <3> DEFINE T == Seq(STRING)
    <3>1. disk \in Seq(T) /\ Len(disk) <= 1
      BY <2>2
    <3> HIDE DEF T
    <3>2. Len(disk) \in Nat /\ DOMAIN disk = 1..Len(disk)
      BY <3>1
    <3>3. CASE Len(disk) = 0
      BY <3>1, <3>3
    <3>4. CASE Len(disk) = 1
      <4> DEFINE t == disk[1]
                 one == <<t>>
      <4>1. t \in T
        BY <3>1, <3>4
      <4> HIDE DEF t
      <4>2. one \in Seq(T) /\ Len(one) = 1 /\ one[1] = t
        BY <4>1
      <4> HIDE DEF one
      <4>3. \A i \in 1..Len(disk) : disk[i] = one[i]
        BY <3>4, <4>2 DEF t
      <4>4. disk = one
        BY <3>1, <3>4, <4>2, <4>3, SeqEqual
      <4> QED BY <4>1, <4>4 DEF one, T
    <3> QED BY <3>1, <3>2, <3>3, <3>4 DEF T
  <2> QED BY <2>3, WordsAreTexts DEF OptionalText
<1>2. /\ entries = <<>> /\ session = "closed" /\ compiled = <<>> /\ library = <<>>
  BY DEF Init
<1>3. entries \in Seq(Row)
  BY <1>2
<1> QED BY <1>1, <1>2, <1>3 DEF SessionInv, FlagsTellTheTruth

\* The part of the invariant about what became of the file.
OutputsInv ==
  /\ disk \in OptionalText
  /\ compiled \in {<<>>} \cup {CompileSource(t) : t \in Seq(Token)}
  /\ library \in {<<>>} \cup {LoadSource(t) : t \in Seq(Token)}

\* The part of the invariant about the session.
EditorInv == entries \in Seq(Row) /\ FlagsTellTheTruth

LEMMA Flags ==
  FlagsTellTheTruth <=>
    (session = "open" /\ ~halfway => (~modified => entries = stored) /\ (~dirty => ToSet(analyzer) = Wanted(entries)))
BY DEF FlagsTellTheTruth, Wanted

LEMMA FlagsNext ==
  FlagsTellTheTruth' <=>
    (session' = "open" /\ ~halfway' =>
       (~modified' => entries' = stored') /\ (~dirty' => ToSet(analyzer') = Wanted(entries')))
BY DEF FlagsTellTheTruth, Wanted

\* A session that closes.
LEMMA CloseEditor ==
  ASSUME NEW status, Close(status)
  PROVE  EditorInv'
<1>1. entries' = <<>> /\ session' = "closed"
  BY DEF Close
<1>2. entries' \in Seq(Row)
  BY <1>1
<1> QED BY <1>1, <1>2, FlagsNext DEF EditorInv

LEMMA StartInv ==
  ASSUME SessionInv, Start
  PROVE  OutputsInv' /\ EditorInv'
<1>1. OutputsInv'
  BY DEF Start, SessionInv, OutputsInv
<1>2. ASSUME NEW rows \in Seq(Row), Open(rows) PROVE EditorInv'
  BY <1>2, FlagsNext DEF Open, EditorInv
<1>3. CASE disk = <<>>
  <2>1. Open(<<>>) /\ <<>> \in Seq(Row)
    BY <1>3 DEF Start
  <2> QED BY <1>1, <1>2, <2>1
<1>4. CASE disk # <<>>
  <2> DEFINE parsed == ParseDictionarySource(disk[1], FALSE)
  <2>1. parsed.entries \in Seq(Row)
    BY <1>4, DiskText, ParsedTyped DEF SessionInv
  <2>2. Open(parsed.entries) \/ UNCHANGED editor
    BY <1>4 DEF Start
  <2> HIDE DEF parsed
  <2>3. CASE UNCHANGED editor
    BY <1>1, <2>3, FlagsNext, Flags DEF SessionInv, EditorInv, editor
  <2> QED BY <1>1, <1>2, <2>1, <2>2, <2>3
<1> QED BY <1>1, <1>3, <1>4

LEMMA AddInv ==
  ASSUME SessionInv, NEW c \in Typed, AddCommand(c.surface, c.word, c.conj)
  PROVE  OutputsInv' /\ EditorInv'
<1> DEFINE e == NewEntry(c.surface, c.word, c.conj)
<1>1. OutputsInv'
  BY DEF AddCommand, SessionInv, OutputsInv
<1>2. e \in Row
  BY TypedCommands
<1>3. /\ UNCHANGED <<session, stored, halfway>> /\ session = "open" /\ analyzer' = Rebuilt[1] /\ Rebuilt # <<>>
      /\ \/ Changed(Append(entries, e))
         \/ dirty' = FALSE /\ UNCHANGED <<entries, modified>>
  BY DEF AddCommand
<1>4. entries \in Seq(Row)
  BY DEF SessionInv
<1> HIDE DEF e
<1>5. CASE Changed(Append(entries, e))
  <2>1. entries' = Append(entries, e) /\ modified' = TRUE /\ dirty' = TRUE
    BY <1>5 DEF Changed
  <2>2. entries' \in Seq(Row)
    BY <1>2, <1>4, <2>1
  <2> QED BY <1>1, <2>1, <2>2, FlagsNext DEF EditorInv
<1>6. CASE dirty' = FALSE /\ UNCHANGED <<entries, modified>>
  <2>1. ~halfway => dirty \/ ToSet(analyzer) = Wanted(entries)
    BY <1>3, Flags DEF SessionInv
  <2>2. ~halfway => ToSet(Rebuilt[1]) = Wanted(entries)
    BY <1>3, <1>4, <2>1, RebuiltIsWanted
  <2>3. ~halfway => (~modified => entries = stored)
    BY <1>3, Flags DEF SessionInv
  <2> QED BY <1>1, <1>3, <1>4, <1>6, <2>2, <2>3, FlagsNext DEF EditorInv
<1> QED BY <1>3, <1>5, <1>6

LEMMA RemoveInv ==
  ASSUME SessionInv, NEW surface, NEW words, RemoveCommand(surface, words)
  PROVE  OutputsInv' /\ EditorInv'
<1> DEFINE removed == {i \in DOMAIN entries :
                         entries[i].surface = surface /\ (words = {} \/ entries[i].pos \in {PosOf[w] : w \in words})}
           kept == DOMAIN entries \ removed
<1>1. OutputsInv'
  BY DEF RemoveCommand, SessionInv, OutputsInv
<1>2. Changed(Pick(entries, kept))
  BY DEF RemoveCommand
<1>3. kept \in SUBSET DOMAIN entries /\ entries \in Seq(Row)
  BY DEF SessionInv
<1> HIDE DEF kept
<1>4. Pick(entries, kept) \in Seq(Row)
  BY <1>3, PickKeeps
<1> QED BY <1>1, <1>2, <1>4, FlagsNext DEF EditorInv, Changed

LEMMA UpdateInv ==
  ASSUME SessionInv, NEW c \in Typed, NEW conjs \in {{}, {c.conj}}, UpdateCommand(c.surface, c.word, conjs)
  PROVE  OutputsInv' /\ EditorInv'
<1>1. OutputsInv'
  BY DEF UpdateCommand, SessionInv, OutputsInv
<1>2. PICK found \in DOMAIN entries :
        LET updated == [entries EXCEPT ![found].conj = IF conjs = {} THEN @ ELSE CHOOSE d \in conjs : TRUE]
        IN IF NeedsConjugation(PosOf[c.word], updated[found].conj)
             THEN /\ entries' = updated
                  /\ halfway' = (halfway \/ updated # entries)
                  /\ UNCHANGED <<modified, dirty>>
             ELSE Changed(updated) /\ UNCHANGED halfway
  BY DEF UpdateCommand
<1> DEFINE conj == IF conjs = {} THEN entries[found].conj ELSE CHOOSE d \in conjs : TRUE
           row == [entries[found] EXCEPT !.conj = conj]
           updated == [entries EXCEPT ![found] = row]
<1>3. /\ \/ entries' = updated /\ halfway' = (halfway \/ updated # entries) /\ UNCHANGED <<modified, dirty>>
         \/ Changed(updated) /\ UNCHANGED halfway
      /\ UNCHANGED <<session, analyzer, stored>>
  BY <1>2 DEF UpdateCommand
<1>4. entries \in Seq(Row) /\ entries[found] \in Row
  <2>1. \A t \in Seq(Row) : \A i \in DOMAIN t : t[i] \in Row
    OBVIOUS
  <2> QED BY <2>1 DEF SessionInv
<1>5. conj \in Conj
  <2>1. entries[found].conj \in Conj
    BY <1>4 DEF Row
  <2>2. c.conj \in Conj
    BY TypedCommands
  <2>3. conjs # {} => (CHOOSE d \in conjs : TRUE) \in conjs /\ conjs = {c.conj}
    OBVIOUS
  <2> QED BY <2>1, <2>2, <2>3
<1> HIDE DEF conj
<1>6. row \in Row
  BY <1>4, <1>5 DEF Row
<1> HIDE DEF row
<1>7. updated \in Seq(Row)
  BY <1>4, <1>6, ExceptSeq
<1> HIDE DEF updated
<1>8. CASE Changed(updated) /\ UNCHANGED halfway
  BY <1>1, <1>7, <1>8, FlagsNext DEF EditorInv, Changed
<1>9. CASE entries' = updated /\ halfway' = (halfway \/ updated # entries) /\ UNCHANGED <<modified, dirty>>
  <2>1. ~halfway' => updated = entries /\ ~halfway
    BY <1>9
  <2> QED BY <1>1, <1>3, <1>7, <1>9, <2>1, Flags, FlagsNext DEF EditorInv, SessionInv
<1> QED BY <1>3, <1>8, <1>9

LEMMA ImportInv ==
  ASSUME SessionInv, NEW text \in ImportTexts, NEW skipping \in BOOLEAN, ImportCommand(text, skipping)
  PROVE  OutputsInv' /\ EditorInv'
<1> DEFINE parsed == ParseDictionarySource(text, FALSE)
           rows == Imported(parsed.entries, skipping)
<1>1. OutputsInv'
  BY DEF ImportCommand, SessionInv, OutputsInv
<1>2. text \in Seq(Token)
  BY SessionAssumption, WordsAreTexts
<1>3. parsed.entries \in Seq(Row)
  BY <1>2, ParsedTyped
<1>4. Changed(rows)
  BY DEF ImportCommand
<1> HIDE DEF parsed
<1>5. rows \in Seq(Row)
  BY <1>3, ImportedTyped DEF SessionInv
<1> QED BY <1>1, <1>4, <1>5, FlagsNext DEF EditorInv, Changed

LEMMA AnalyzeInv ==
  ASSUME SessionInv, Analyze
  PROVE  OutputsInv' /\ EditorInv'
<1>1. OutputsInv'
  BY DEF Analyze, SessionInv, OutputsInv
<1>2. /\ UNCHANGED <<session, entries, stored, modified, halfway>> /\ session = "open"
      /\ analyzer' = Rebuilt[1] /\ Rebuilt # <<>> /\ entries \in Seq(Row)
  BY DEF Analyze, SessionInv
<1>3. ~halfway => (~modified => entries = stored) /\ (dirty \/ ToSet(analyzer) = Wanted(entries))
  BY <1>2, Flags DEF SessionInv
<1>4. ~halfway => ToSet(Rebuilt[1]) = Wanted(entries)
  BY <1>2, <1>3, RebuiltIsWanted
<1> QED BY <1>1, <1>2, <1>3, <1>4, FlagsNext DEF EditorInv

\* What a save leaves on disk.
LEMMA SavedDisk ==
  ASSUME SessionInv, WriteFile
  PROVE  disk' \in OptionalText
<1>1. disk' = <<TsvText(entries)>> /\ entries \in Seq(Row)
  BY DEF WriteFile, SessionInv
<1>2. TsvText(entries) \in Seq(Token)
  BY <1>1, WrittenTyped
<1> QED BY <1>1, <1>2 DEF OptionalText

LEMMA SaveInv ==
  ASSUME SessionInv, SaveCommand
  PROVE  OutputsInv' /\ EditorInv'
<1>1. OutputsInv'
  BY SavedDisk DEF SaveCommand, Save, SessionInv, OutputsInv
<1> QED BY <1>1, Flags, FlagsNext DEF SaveCommand, Save, SessionInv, EditorInv

LEMMA CompileInv ==
  ASSUME SessionInv, CompileCommand
  PROVE  OutputsInv' /\ EditorInv'
<1>1. disk' \in OptionalText
  BY SavedDisk DEF CompileCommand, Save, SessionInv
<1>2. compiled' \in {<<>>} \cup {CompileSource(t) : t \in Seq(Token)}
  <2>1. disk' # <<>> => disk'[1] \in Seq(Token)
    <3>1. disk' = <<>> \/ \E t \in Seq(Token) : disk' = <<t>>
      BY <1>1 DEF OptionalText
    <3> QED BY <3>1
  <2>2. compiled' \in {IF disk' = <<>> THEN <<>> ELSE CompileSource(disk'[1]), IF modified THEN <<>> ELSE compiled}
    BY DEF CompileCommand
  <2> QED BY <2>1, <2>2 DEF SessionInv
<1>3. OutputsInv'
  BY <1>1, <1>2 DEF CompileCommand, SessionInv, OutputsInv
<1>4. /\ UNCHANGED <<session, entries, dirty, analyzer, halfway>>
      /\ (modified' = FALSE /\ stored' = entries) \/ UNCHANGED <<modified, stored>>
  BY DEF CompileCommand, Save
<1> QED BY <1>3, <1>4, Flags, FlagsNext DEF SessionInv, EditorInv

\* Every step keeps the invariant.
LEMMA NextInv == SessionInv /\ [Next]_vars => SessionInv'
<1> SUFFICES ASSUME SessionInv, [Next]_vars PROVE OutputsInv' /\ EditorInv'
  BY DEF SessionInv, OutputsInv, EditorInv
<1>1. CASE Start
  BY <1>1, StartInv
<1>2. CASE \E c \in Typed : AddCommand(c.surface, c.word, c.conj)
  BY <1>2, AddInv
<1>3. CASE \E c \in Typed, given \in BOOLEAN : UpdateCommand(c.surface, c.word, IF given THEN {c.conj} ELSE {})
  <2>1. PICK c \in Typed, given \in BOOLEAN : UpdateCommand(c.surface, c.word, IF given THEN {c.conj} ELSE {})
    BY <1>3
  <2> DEFINE conjs == IF given THEN {c.conj} ELSE {}
  <2>2. conjs \in {{}, {c.conj}} /\ UpdateCommand(c.surface, c.word, conjs)
    BY <2>1
  <2> HIDE DEF conjs
  <2> QED BY <2>2, UpdateInv
<1>4. CASE \E c \in Typed, given \in BOOLEAN : RemoveCommand(c.surface, IF given THEN {c.word} ELSE {})
  BY <1>4, RemoveInv
<1>5. CASE \E t \in ImportTexts, skipping \in BOOLEAN : ImportCommand(t, skipping)
  BY <1>5, ImportInv
<1>6. CASE Analyze
  BY <1>6, AnalyzeInv
<1>7. CASE SaveCommand
  BY <1>7, SaveInv
<1>8. CASE CompileCommand
  BY <1>8, CompileInv
<1>9. CASE Quit \/ EndOfInput \/ Crash
  <2>1. EditorInv'
    BY <1>9, CloseEditor DEF Quit, EndOfInput, Crash
  <2>2. disk' \in OptionalText
    BY <1>9, SavedDisk DEF Quit, EndOfInput, Crash, SessionInv
  <2>3. UNCHANGED <<compiled, library>>
    BY <1>9 DEF Quit, EndOfInput, Crash, Close
  <2> QED BY <2>1, <2>2, <2>3 DEF SessionInv, OutputsInv
<1>10. CASE CompileFile
  <2>1. compiled' = CompileSource(disk[1]) /\ disk[1] \in Seq(Token)
    BY <1>10, DiskText DEF CompileFile, SessionInv
  <2>2. UNCHANGED <<disk, library, editor>>
    BY <1>10 DEF CompileFile
  <2>3. EditorInv'
    BY <2>2, Flags, FlagsNext DEF SessionInv, EditorInv, editor
  <2> QED BY <2>1, <2>2, <2>3 DEF SessionInv, OutputsInv
<1>11. CASE LoadFile
  <2>1. library' = LoadSource(disk[1]) /\ disk[1] \in Seq(Token)
    BY <1>11, DiskText DEF LoadFile, SessionInv
  <2>2. UNCHANGED <<disk, compiled, editor>>
    BY <1>11 DEF LoadFile
  <2>3. EditorInv'
    BY <2>2, Flags, FlagsNext DEF SessionInv, EditorInv, editor
  <2> QED BY <2>1, <2>2, <2>3 DEF SessionInv, OutputsInv
<1>12. CASE UNCHANGED vars
  BY <1>12, Flags, FlagsNext DEF SessionInv, OutputsInv, EditorInv, vars, editor
<1> QED BY <1>1, <1>2, <1>3, <1>4, <1>5, <1>6, <1>7, <1>8, <1>9, <1>10, <1>11, <1>12 DEF Next

\* A session's entries are rows, its flags tell the truth, and what was
\* compiled or loaded is what some text gives.
THEOREM SessionInvariant == Spec => []SessionInv
<1>1. Init => SessionInv
  BY InitInv
<1>2. SessionInv /\ [Next]_vars => SessionInv'
  BY NextInv
<1> QED BY <1>1, <1>2, PTL DEF Spec

\* Every compiled source is a good one.
LEMMA OutputsAreGood == SessionInv => \A out \in Outputs : GoodOutput(out)
<1> SUFFICES ASSUME SessionInv, NEW out \in Outputs PROVE GoodOutput(out)
  OBVIOUS
<1>1. ToSet(<<>>) = {}
  BY DEF ToSet
<1>2. out \in ToSet(compiled)
  BY DEF Outputs
<1>3. PICK t \in Seq(Token) : compiled = CompileSource(t)
  BY <1>1, <1>2 DEF SessionInv
<1> QED BY <1>2, <1>3, CompiledIsGood

\* The compiler leaves one entry for a surface and part of speech, and several
\* readings only where rows asked for them, whatever the source says
\* (KeepOne: appendDictionarySourceEntry with the compiler's options).
THEOREM OneReading == Spec => []OneReadingPerSurface
<1>1. SessionInv => OneReadingPerSurface
  BY OutputsAreGood DEF OneReadingPerSurface, GoodOutput
<1> QED BY <1>1, SessionInvariant, PTL

\* Merging homographs never loses a surface, and invents none.
THEOREM SurfacesAnswer == Spec => []EverySurfaceAnswers
<1>1. SessionInv => EverySurfaceAnswers
  BY OutputsAreGood DEF EverySurfaceAnswers, GoodOutput
<1> QED BY <1>1, SessionInvariant, PTL

\* A row's own surface keeps the row's own reading, in whatever order the rows
\* are expanded.
THEOREM OwnReadingWins == Spec => []OwnSurfaceWins
<1>1. SessionInv => OwnSurfaceWins
  BY OutputsAreGood DEF OwnSurfaceWins, GoodOutput
<1> QED BY <1>1, SessionInvariant, PTL

\* The library keeps every form that can be looked up, once.
THEOREM LibraryIsComplete == Spec => []LibraryKeepsEveryForm
<1>1. SessionInv => LibraryKeepsEveryForm
  <2> SUFFICES ASSUME SessionInv, NEW in \in ToSet(library)
               PROVE  ToSet(in.entries) = {f \in AllForms(in.rows) : Loadable(f)} /\ IsInjective(in.entries)
    BY DEF LibraryKeepsEveryForm
  <2>1. ToSet(<<>>) = {}
    BY DEF ToSet
  <2>2. PICK t \in Seq(Token) : library = LoadSource(t)
    BY <2>1 DEF SessionInv
  <2> QED BY <2>2, LoadedKeepsEveryForm
<1> QED BY <1>1, SessionInvariant, PTL

\* The session's flags tell the truth: entries that are not modified are the
\* stored ones, and an analyzer that is not dirty was built from these entries.
THEOREM FlagsAreTrue == Spec => []FlagsTellTheTruth
<1>1. SessionInv => FlagsTellTheTruth
  BY DEF SessionInv
<1> QED BY <1>1, SessionInvariant, PTL

\* A session that ends with exit code 0 has saved its changes, unless a user
\* at a terminal said to discard them: no other step closes a session so.
THEOREM ChangesAreSaved == Spec => NothingLostSilently
<1> DEFINE Saved == session = "open" /\ session' = "closed" /\ exit' = "ok" /\ modified =>
                      terminal \/ (disk' # <<>> /\ disk'[1] = TsvText(entries))
<1>1. [Next]_vars => [Saved]_vars
  <2> SUFFICES ASSUME Next, session = "open", session' = "closed", exit' = "ok", modified
               PROVE  terminal \/ (disk' # <<>> /\ disk'[1] = TsvText(entries))
    OBVIOUS
  <2>1. WriteFile => disk' # <<>> /\ disk'[1] = TsvText(entries)
    BY DEF WriteFile
  <2>2. CASE Quit
    BY <2>1, <2>2 DEF Quit
  <2>3. CASE EndOfInput
    BY <2>1, <2>3 DEF EndOfInput, Close
  <2>4. CASE Crash
    BY <2>4 DEF Crash, Close
  <2>5. Quit \/ EndOfInput \/ Crash
    BY DEF Next, Start, AddCommand, UpdateCommand, RemoveCommand, ImportCommand, Analyze, SaveCommand,
           CompileCommand, CompileFile, LoadFile
  <2> QED BY <2>2, <2>3, <2>4, <2>5
<1> QED BY <1>1, PTL DEF Spec, NothingLostSilently
=============================================================================
