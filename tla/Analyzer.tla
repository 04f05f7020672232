------------------------------- MODULE Analyzer -------------------------------
(***************************************************************************)
(* Analyzer::analyzeWithNormalizedText (src/src/analysis/analyzer.cpp)     *)
(* over a normalized text: it is cut into pieces at sentence boundaries,   *)
(* the pretokenizer (src/src/pretokenizer/pretokenizer.cpp) takes the      *)
(* confirmed tokens out of each piece, what is left between them is cut    *)
(* again where it is too long, each part is analysed by analyzeChunk, and  *)
(* tokens and parts are merged under character offsets kept by counting.   *)
(*                                                                         *)
(* Of the text the control sees the bytes at which characters start and    *)
(* which of these start a boundary character or a digit.  Byte offsets are *)
(* those of the whole text (the code's are relative to the view at hand);  *)
(* character offsets are computed as the code computes them.  The matchers *)
(* for URLs, dates, quantities etc. match any run of characters, or none.  *)
(* analyzeChunk (module AnalyzeChunk) tiles its part: its morphemes stand  *)
(* here as one.                                                            *)
(***************************************************************************)
EXTENDS Integers, Sequences, FiniteSets, FiniteSetsExt

CONSTANTS
  Texts,          \* the normalized texts analysed
  MaxChunkBytes   \* kMaxChunkBytes

VARIABLES
  text,           \* the text: its size, and where characters of each kind start
  stage,          \* which loop runs
  pos, charPos,   \* outer chunkBySentenceBoundary: next byte, characters before it
  piece,          \* the view analyzeWithPretokenizer works on
  scan, spanStart, previousWasDigit,    \* PreTokenizer::process
  tokens, spans,                        \* its result
  tokenIdx, spanIdx,                    \* merge: items taken
  currentByte, currentChar,             \* merge: how far characters are counted
  spanPos, spanCharPos,                 \* analyzeSpan: next byte, its character
  result          \* the morphemes: bytes of the surface, character offsets

pretokenVars == <<scan, spanStart, previousWasDigit, tokens, spans>>
mergeVars == <<tokenIdx, spanIdx, currentByte, currentChar>>
spanVars == <<spanPos, spanCharPos>>
vars == <<text, stage, pos, charPos, piece, pretokenVars, mergeVars, spanVars, result>>

Text == [size: Nat, leads: SUBSET Nat, boundary: SUBSET Nat, digits: SUBSET Nat]

ASSUME AnalyzerAssumption ==
  /\ MaxChunkBytes \in Nat \ {0}
  /\ Texts \subseteq Text
  /\ \A t \in Texts :
       /\ t.leads \subseteq 0..(t.size - 1) /\ (t.size > 0 => 0 \in t.leads)
       /\ t.boundary \subseteq t.leads /\ t.digits \subseteq t.leads \ t.boundary
       /\ \A l \in t.leads : \E m \in t.leads \cup {t.size} : l < m /\ m <= l + MaxChunkBytes

-----------------------------------------------------------------------------
\* countChars: the bytes from a to b that are no UTF-8 continuation bytes.
CountChars(a, b) == Cardinality({l \in text.leads : a <= l /\ l < b})

\* Where decodeUtf8 stops for the character at p.
CharEnd(p) == Min({l \in text.leads : l > p} \cup {text.size})

\* Mutant: the limit itself, inside a character or not.
Utf8BoundaryIgnored(p) == p

\* findUtf8Boundary.
Utf8Boundary(p) == Max({l \in text.leads : l <= p})

\* The chunk that chunkBySentenceBoundary cuts at p off a view ending at end:
\* through the last boundary character that starts within MaxChunkBytes, or
\* else to a character boundary.
ChunkEnd(p, end) ==
  LET scanEnd == Min({p + MaxChunkBytes, end})
      breaks == {CharEnd(b) : b \in {x \in text.boundary : p <= x /\ x < scanEnd}}
  IN IF scanEnd >= end THEN end
     ELSE IF breaks # {} THEN Max(breaks)
     ELSE IF Utf8Boundary(scanEnd) <= p THEN scanEnd ELSE Utf8Boundary(scanEnd)

Bytes(from, to) == [from |-> from, to |-> to]

Init ==
  /\ text \in Texts
  /\ stage = "chunk"
  /\ pos = 0 /\ charPos = 0
  /\ piece = Bytes(0, 0)
  /\ scan = 0 /\ spanStart = 0 /\ previousWasDigit = FALSE
  /\ tokens = <<>> /\ spans = <<>>
  /\ tokenIdx = 1 /\ spanIdx = 1 /\ currentByte = 0 /\ currentChar = 0
  /\ spanPos = 0 /\ spanCharPos = 0
  /\ result = <<>>

\* The next piece goes to analyzeWithPretokenizer.  (A text that is not longer
\* than MaxChunkBytes is one piece.)
NextPiece ==
  /\ stage = "chunk"
  /\ pos < text.size
  /\ piece' = Bytes(pos, ChunkEnd(pos, text.size))
  /\ scan' = pos /\ spanStart' = pos /\ previousWasDigit' = FALSE
  /\ tokens' = <<>> /\ spans' = <<>>
  /\ stage' = "pretoken"
  /\ UNCHANGED <<text, pos, charPos, mergeVars, spanVars, result>>

-----------------------------------------------------------------------------
(* PreTokenizer::process *)

\* Mutant: a span of one byte is not kept.
SpansBeforeLong(p) ==
  IF p > spanStart + 1 THEN Append(spans, Bytes(spanStart, p)) ELSE spans

\* What was passed over since the last token becomes a span.
SpansBefore(p) == IF p > spanStart THEN Append(spans, Bytes(spanStart, p)) ELSE spans

TakeToken(end) ==
  /\ spans' = SpansBefore(scan)
  /\ tokens' = Append(tokens, Bytes(scan, end))
  /\ scan' = end
  /\ spanStart' = end
  /\ previousWasDigit' = FALSE

\* One of the matchers matches here.
MatchToken ==
  /\ stage = "pretoken"
  /\ scan < piece.to
  /\ ~(previousWasDigit /\ scan \in text.digits)
  /\ \E end \in text.leads \cup {piece.to} : scan < end /\ end <= piece.to /\ TakeToken(end)
  /\ UNCHANGED <<text, stage, pos, charPos, piece, mergeVars, spanVars, result>>

\* Mutant: a boundary character is passed over too.
NoMatchNoBoundary ==
  /\ stage = "pretoken"
  /\ scan < piece.to
  /\ scan' = CharEnd(scan)
  /\ previousWasDigit' = (scan \in text.digits)
  /\ UNCHANGED <<text, stage, pos, charPos, piece, spanStart, tokens, spans, mergeVars,
                 spanVars, result>>

\* None does: a boundary character is a token of its own, any other is passed
\* over.
NoMatch ==
  /\ stage = "pretoken"
  /\ scan < piece.to
  /\ IF scan \in text.boundary
     THEN TakeToken(CharEnd(scan))
     ELSE /\ scan' = CharEnd(scan)
          /\ previousWasDigit' = (scan \in text.digits)
          /\ UNCHANGED <<spanStart, tokens, spans>>
  /\ UNCHANGED <<text, stage, pos, charPos, piece, mergeVars, spanVars, result>>

\* The piece is scanned and its merge begins.  (Without a token the code skips
\* the merge: it would take the one span, the whole piece.)
EndPretokens ==
  /\ stage = "pretoken"
  /\ scan = piece.to
  /\ spans' = SpansBefore(scan)
  /\ tokenIdx' = 1 /\ spanIdx' = 1
  /\ currentByte' = piece.from /\ currentChar' = 0
  /\ stage' = "merge"
  /\ UNCHANGED <<text, pos, charPos, piece, scan, spanStart, previousWasDigit, tokens,
                 spanVars, result>>

-----------------------------------------------------------------------------
(* The merge *)

\* Whether the next item in source order is a token.
TokenNext ==
  \/ spanIdx > Len(spans)
  \/ /\ spanIdx <= Len(spans) /\ tokenIdx <= Len(tokens)
     /\ tokens[tokenIdx].from < spans[spanIdx].from

Morpheme(from, to, start, end) == [from |-> from, to |-> to, start |-> start, end |-> end]

\* Mutant: the byte counted to is not remembered.
CountToForgetful(p) ==
  UNCHANGED currentByte /\ currentChar' = currentChar + CountChars(currentByte, p)

\* Count the characters up to an item that starts at p.
CountTo(p) == currentByte' = p /\ currentChar' = currentChar + CountChars(currentByte, p)

MergeToken ==
  /\ stage = "merge"
  /\ tokenIdx <= Len(tokens)
  /\ TokenNext
  /\ LET tok == tokens[tokenIdx]
     IN /\ CountTo(tok.from)
        /\ result' = Append(result,
             Morpheme(tok.from, tok.to, charPos + currentChar',
                      charPos + currentChar' + CountChars(tok.from, tok.to)))
  /\ tokenIdx' = tokenIdx + 1
  /\ UNCHANGED <<text, stage, pos, charPos, piece, pretokenVars, spanIdx, spanVars>>

\* The next item is a span: analyzeSpan is called.
MergeSpan ==
  /\ stage = "merge"
  /\ spanIdx <= Len(spans)
  /\ ~TokenNext
  /\ CountTo(spans[spanIdx].from)
  /\ spanPos' = spans[spanIdx].from
  /\ spanCharPos' = charPos + currentChar'
  /\ stage' = "span"
  /\ UNCHANGED <<text, pos, charPos, piece, pretokenVars, tokenIdx, spanIdx, result>>

\* The next part of the span goes to analyzeChunk.  (A span that is not longer
\* than MaxChunkBytes is one part.)
AnalyzePart ==
  /\ stage = "span"
  /\ spanPos < spans[spanIdx].to
  /\ LET to == ChunkEnd(spanPos, spans[spanIdx].to)
         end == spanCharPos + CountChars(spanPos, to)
     IN /\ result' = Append(result, Morpheme(spanPos, to, spanCharPos, end))
        /\ spanPos' = to
        /\ spanCharPos' = end
  /\ UNCHANGED <<text, stage, pos, charPos, piece, pretokenVars, mergeVars>>

EndSpan ==
  /\ stage = "span"
  /\ spanPos = spans[spanIdx].to
  /\ spanIdx' = spanIdx + 1
  /\ stage' = "merge"
  /\ UNCHANGED <<text, pos, charPos, piece, pretokenVars, tokenIdx, currentByte, currentChar,
                 spanVars, result>>

\* The piece is through.
EndPiece ==
  /\ stage = "merge"
  /\ tokenIdx > Len(tokens) /\ spanIdx > Len(spans)
  /\ charPos' = charPos + CountChars(pos, piece.to)
  /\ pos' = piece.to
  /\ stage' = "chunk"
  /\ UNCHANGED <<text, piece, pretokenVars, mergeVars, spanVars, result>>

Finish ==
  /\ stage = "chunk"
  /\ pos = text.size
  /\ stage' = "done"
  /\ UNCHANGED <<text, pos, charPos, piece, pretokenVars, mergeVars, spanVars, result>>

Next ==
  \/ NextPiece \/ MatchToken \/ NoMatch \/ EndPretokens
  \/ MergeToken \/ MergeSpan \/ AnalyzePart \/ EndSpan \/ EndPiece \/ Finish

\* One synchronous call, which runs to its end.
Spec == Init /\ [][Next]_vars /\ WF_vars(Next)

-----------------------------------------------------------------------------
Span == [from: Nat, to: Nat]

TypeOK ==
  /\ text \in Text
  /\ stage \in {"chunk", "pretoken", "merge", "span", "done"}
  /\ pos \in 0..text.size
  /\ piece \in Span
  /\ scan \in Nat /\ spanStart \in Nat /\ previousWasDigit \in BOOLEAN
  /\ tokens \in Seq(Span) /\ spans \in Seq(Span)
  /\ tokenIdx \in Nat \ {0} /\ spanIdx \in Nat \ {0}
  /\ {charPos, currentByte, currentChar, spanPos, spanCharPos} \subseteq Nat
  /\ result \in Seq([from: Nat, to: Nat, start: Nat, end: Nat])

\* The morphemes follow one another without gap or overlap from the first byte
\* on, and reach the last: two nested chunkings, the pretokenizer and the merge
\* of its two lists neither drop nor repeat nor reorder text.
NothingLost ==
  /\ \A i \in DOMAIN result : result[i].from = IF i = 1 THEN 0 ELSE result[i - 1].to
  /\ stage = "done" /\ text.size > 0 => result # <<>> /\ result[Len(result)].to = text.size

\* Every character offset is the number of characters before that byte of the
\* whole text, though four nested counters each start from their own zero.
OffsetsExact ==
  \A i \in DOMAIN result :
    /\ result[i].start = CountChars(0, result[i].from)
    /\ result[i].end = CountChars(0, result[i].to)

\* No cut falls inside a character: analyzeChunk decodes what it is given.
CutsBetweenCharacters ==
  \A i \in DOMAIN result : result[i].from \in text.leads /\ result[i].from < result[i].to

\* What analyzeChunk is given never exceeds the limit, although a piece may.
PartsWithinLimit ==
  [][stage = "span" /\ result' # result =>
       result'[Len(result')].to - result'[Len(result')].from <= MaxChunkBytes]_vars

=============================================================================
