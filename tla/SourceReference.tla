-------------------------- MODULE SourceReference --------------------------
(***************************************************************************)
(* The dictionary source format as its documentation puts it: a comment is *)
(* a line, every other record ends at the first newline outside the quotes *)
(* of its own fields, and the delimiter of the first record with two       *)
(* fields is the delimiter of the text.                                    *)
(***************************************************************************)
EXTENDS SourceParser

RecordStart ==
  [fields |-> <<>>, field |-> <<>>, quoted |-> FALSE, closed |-> FALSE, nonspace |-> FALSE,
   skip |-> FALSE, failed |-> FALSE, kind |-> "blank", from |-> 1, records |-> <<>>]

Fresh(content, end, s) ==
  [RecordStart EXCEPT
     !.from = end + 1,
     !.records = IF s.kind = "data" THEN Append(s.records, SubSeq(content, s.from, end - 1)) ELSE s.records]

DataRecords(content, delimiter) ==
  LET Step(s, i) ==
        LET c == content[i]
        IN CASE c = Newline /\ (s.kind = "comment" \/ ~s.quoted) -> Fresh(content, i, s)
             [] c # Newline /\ s.kind = "comment" -> s
             [] c = Hash /\ s.kind = "blank" -> [s EXCEPT !.kind = "comment"]
             [] OTHER -> [FieldStep(content, delimiter, s, i) EXCEPT
                            !.kind = IF c \in Whitespace THEN @ ELSE "data"]
      after[i \in 0..Len(content)] == IF i = 0 THEN RecordStart ELSE Step(after[i - 1], i)
  IN Fresh(content, Len(content) + 1, after[Len(content)]).records

FirstWithTwoFields(content, delimiter) ==
  LET Two(record) == Len(ParseDelimitedRecord(record, DetectDelimiter(record)).fields) >= 2
      found == SelectSeq(DataRecords(content, delimiter), Two)
  IN IF found = <<>> THEN <<>> ELSE found[1]

Delimiter(content) ==
  IF DetectDelimiter(FirstWithTwoFields(content, Tab)) = Tab THEN Tab ELSE Comma

\* The entry of one record, or none if the record may be skipped.
Meaning(parsed, delimiter, lenient) ==
  CASE ~parsed.ok -> Rejected
    [] parsed.ok /\ lenient /\ Len(parsed.fields) < 2 -> [ok |-> TRUE, entry |-> <<>>]
    [] OTHER -> ConvertFields(parsed.fields, delimiter)

Meanings(records, delimiter, lenient) ==
  [i \in DOMAIN records |-> Meaning(ParseDelimitedRecord(records[i], delimiter), delimiter, lenient)]

Collected(meanings) ==
  LET HasEntry(m) == m.entry # <<>>
      kept == SelectSeq(meanings, HasEntry)
  IN IF \E i \in DOMAIN meanings : ~meanings[i].ok
       THEN [ok |-> FALSE, entries |-> <<>>]
       ELSE [ok |-> TRUE, entries |-> [i \in DOMAIN kept |-> kept[i].entry]]

Documented(content, lenient) ==
  LET delimiter == Delimiter(content)
  IN Collected(Meanings(DataRecords(content, delimiter), delimiter, lenient))

SameOutcome(parsed, documented) ==
  [ok |-> parsed.ok, entries |-> parsed.entries] = documented

AsDocumented(content, lenient) ==
  SameOutcome(ParseDictionarySource(content, lenient), Documented(content, lenient))

\* Position i lies in a line whose first mark is a hash.
InComment(content, i) ==
  \E h \in 1..i : /\ content[h] = Hash
                  /\ Newline \notin {content[k] : k \in h..i}
                  /\ \A k \in 1..h - 1 : content[k] \notin Whitespace => \E n \in k..h : content[n] = Newline

\* A quote where the record scanner sees a field begin and the record has none:
\* behind a separator in a comment, or behind the one the text does not use.
StrayQuote(content) ==
  \E j \in DOMAIN content : \E i \in 1..j - 1 :
    /\ content[j] = Quote
    /\ \A k \in i + 1..j - 1 : content[k] = Space
    /\ \/ content[i] = Quote /\ i + 1 < j
       \/ /\ content[i] \in {Tab, Comma}
          /\ \/ content[i] # Delimiter(content)
             \/ FirstWithTwoFields(content, Tab) = <<>>
             \/ InComment(content, i)
=============================================================================
