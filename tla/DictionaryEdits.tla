--------------------------- MODULE DictionaryEdits ---------------------------
(***************************************************************************)
(* What each dictionary tool of the MCP server wants to write              *)
(* (src/scripts/mcp/src/suzume_mcp/tools/_dict_tools_*.py), as a function  *)
(* of the source files it reads and of its arguments.                      *)
(*                                                                         *)
(* A source file is Absent or a sequence of lines; a line is a word, its   *)
(* kind (the POS and conjugation type as they are spelled) and whether it  *)
(* is disabled.  Comments and blank lines are left out.  A dry run changes *)
(* nothing and is no request.                                              *)
(***************************************************************************)
EXTENDS Listing, SequencesExt

CONSTANTS
  CoreFiles, UserFiles,   \* sequences, in the order the tools list them
  Absent,
  Words, Kinds,
  Canonical,              \* _canonical_pos: kind -> POS
  CoreFile,               \* POS_TO_FILE: kind -> core file
  ProperNoun,             \* the kind PROPER_NOUN, never checked for splits
  Unconjugated,           \* the kinds dict_validate takes for no conjugated form
  Incomplete,             \* kinds the compiler refuses (no conjugation type)
  NoticedInBulk,          \* those of them that dict_bulk_add refuses
  Split, Conjugated,      \* words MeCab splits; splits into stem and auxiliary
  Rank                    \* the position of a word and kind in a sorted file

Files == ToSet(CoreFiles) \cup ToSet(UserFiles)
Lines == [word : Words, kind : Kinds, off : BOOLEAN]
Trees == [Files -> Seq(Lines) \cup {Absent}]
Edits == [file : Files, lines : Seq(Lines)]

ASSUME EditsAssumption ==
  /\ Absent \notin Seq(Lines) /\ "" \notin Files
  /\ CoreFiles \in Seq(ToSet(CoreFiles)) /\ UserFiles \in Seq(ToSet(UserFiles))
  /\ IsInjective(CoreFiles) /\ IsInjective(UserFiles)
  /\ ToSet(CoreFiles) \cap ToSet(UserFiles) = {}
  /\ DOMAIN Canonical = Kinds /\ CoreFile \in [Kinds -> ToSet(CoreFiles)]
  /\ Rank \in [Words \X Kinds -> Int]
  /\ NoticedInBulk \subseteq Incomplete /\ Incomplete \subseteq Kinds
  /\ Conjugated \subseteq Split

Text(s, f) == IF s[f] = Absent THEN <<>> ELSE s[f]
Active(s, f) == {i \in DOMAIN Text(s, f) : ~Text(s, f)[i].off}
Entry(w, k) == [word |-> w, kind |-> k, off |-> FALSE]

\* The entries of some files, by file and line (_load_entries_from_files).
Places(s, files) == UNION {{<<f, i>> : i \in Active(s, f)} : f \in files}
LineAt(s, p) == Text(s, p[1])[p[2]]

SamePos(k, l) == Canonical[k] = Canonical[l]
Same(l, m) == l.word = m.word /\ SamePos(l.kind, m.kind)

Has(s, w, k) == \E p \in Places(s, Files) : Same(LineAt(s, p), Entry(w, k))

\* What a call does next: nothing, with an answer, or a sequence of writes.
Refuse == [verdict |-> "refused", edits |-> <<>>]
NothingToDo == [verdict |-> "ok", edits |-> <<>>]
Write(edits) == [verdict |-> "write", edits |-> edits]
Edit(f, lines) == [file |-> f, lines |-> lines]

Without(s, f, gone) == Pick(Text(s, f), DOMAIN Text(s, f) \ gone)

Target(r) == IF r.user = "" THEN CoreFile[r.kind] ELSE r.user
Scope(r) == IF r.user = "" THEN CoreFiles ELSE <<r.user>>

\* A word MeCab splits is not taken, unless that is forced or a name.
Unwanted(w, r) == w \in Split /\ ~r.force /\ r.kind # ProperNoun

\* Whether a line is what the call asks for; without a kind any will do.
Asked(l, r) == l.word = r.word /\ (r.kind = "" \/ SamePos(l.kind, r.kind))

\* dict_add
AddEntry(s, r) ==
  IF Has(s, r.word, r.kind) \/ Unwanted(r.word, r)
  THEN {Refuse}
  ELSE {Write(<<Edit(Target(r), Append(Text(s, Target(r)), Entry(r.word, r.kind)))>>)}

Entries(words, k) == [i \in DOMAIN words |-> Entry(words[i], k)]

\* Mutant: the batch is only checked against the files.
FreshInFiles(s, r) ==
  Entries(Pick(r.words, {n \in DOMAIN r.words :
                           ~Has(s, r.words[n], r.kind) /\ ~Unwanted(r.words[n], r)}), r.kind)

\* dict_bulk_add: words already there, met before in the batch, or split are
\* skipped.
Fresh(s, r) ==
  Entries(Pick(r.words, {n \in DOMAIN r.words :
                           /\ ~Has(s, r.words[n], r.kind) /\ ~Unwanted(r.words[n], r)
                           /\ \A m \in 1..n - 1 : r.words[m] # r.words[n]}), r.kind)

BulkAdd(s, r) ==
  IF r.kind \in NoticedInBulk THEN {Refuse}
  ELSE IF Fresh(s, r) = <<>> THEN {NothingToDo}
  ELSE {Write(<<Edit(Target(r), Text(s, Target(r)) \o Fresh(s, r))>>)}

\* dict_remove: the selected entry must be the only candidate.
RemoveEntry(s, r) ==
  LET candidates == {p \in Places(s, ToSet(Scope(r))) : Asked(LineAt(s, p), r)}
  IN  IF \A p \in candidates : candidates # {p} THEN {Refuse}
      ELSE {Write(<<Edit(p[1], Without(s, p[1], {p[2]}))>>) : p \in candidates}

\* dict_disable and dict_enable (_select_toggle_entry).
Toggle(s, r) ==
  LET off == r.tool = "dict_enable"
      matches == UNION {{<<f, i>> : i \in {j \in DOMAIN Text(s, f) :
                                             Text(s, f)[j].off = off /\ Asked(Text(s, f)[j], r)}} :
                          f \in ToSet(Scope(r))}
  IN  IF \A p \in matches : matches # {p} THEN {Refuse}
      ELSE {Write(<<Edit(p[1], [Text(s, p[1]) EXCEPT ![p[2]].off = ~off])>>) : p \in matches}

\* dict_bulk_move, between two user files; r.words = <<>> moves everything.
Move(s, r) ==
  LET moved == {i \in Active(s, r.user) :
                  r.words = <<>> \/ Text(s, r.user)[i].word \in ToSet(r.words)}
  IN  IF s[r.user] = Absent \/ r.user = r.to THEN {Refuse}
      ELSE IF moved = {} THEN {NothingToDo}
      ELSE {Write(<<Edit(r.user, Without(s, r.user, moved)),
                    Edit(r.to, Text(s, r.to) \o Pick(Text(s, r.user), moved))>>)}

\* The writes that take some entries out of their files, file by file.
Strike(s, gone, order) ==
  [n \in DOMAIN order |->
     Edit(order[n], Without(s, order[n],
                            {i \in DOMAIN Text(s, order[n]) : <<order[n], i>> \in gone}))]

\* dict_remove_matching; r.words are the words the pattern matches.
RemoveMatching(s, r) ==
  LET hits == {p \in Places(s, ToSet(Scope(r))) : LineAt(s, p).word \in ToSet(r.words)}
      touched == Pick(Scope(r), {n \in DOMAIN Scope(r) : \E p \in hits : p[1] = Scope(r)[n]})
  IN  IF hits = {} THEN {NothingToDo} ELSE {Write(Strike(s, hits, touched))}

\* Whether place p is read before place q of the core files.
Precedes(p, q) ==
  \E m, n \in DOMAIN CoreFiles :
    /\ CoreFiles[m] = p[1] /\ CoreFiles[n] = q[1]
    /\ m < n \/ (m = n /\ p[2] < q[2])

\* dict_validate(fix=True): conjugated forms and all but the first of several
\* entries of one word and POS go, from the core files, a set's order; words
\* that user files have too are an issue that nothing is written for.
Validate(s) ==
  LET core == Places(s, ToSet(CoreFiles))
      wrong == {p \in core :
                  \/ LineAt(s, p).word \in Conjugated /\ LineAt(s, p).kind \notin Unconjugated
                  \/ \E q \in core : Precedes(q, p) /\ Same(LineAt(s, q), LineAt(s, p))}
      shared == \E p \in core, q \in Places(s, ToSet(UserFiles)) :
                  Same(LineAt(s, p), LineAt(s, q))
  IN  IF wrong = {} /\ ~shared THEN {NothingToDo}
      ELSE {Write(Strike(s, wrong, order)) : order \in SetToSeqs({p[1] : p \in wrong})}

\* dict_sort: disabled lines at the top stay, the entries are sorted, equal
\* ones once, and the other disabled lines follow.
Sort(s, r) ==
  LET text == Text(s, r.user)
      rank(i) == Rank[<<text[i].word, text[i].kind>>]
      header == {i \in DOMAIN text : \A h \in 1..i : text[h].off}
      first == {i \in Active(s, r.user) : \A h \in 1..i - 1 : text[h] # text[i]}
      sorted == Listed(first, {p \in first \X first :
                                 \/ rank(p[1]) < rank(p[2])
                                 \/ rank(p[1]) = rank(p[2]) /\ p[1] < p[2]})
  IN  IF first = {} THEN {Refuse}
      ELSE {Write(<<Edit(r.user, Pick(text, header) \o [n \in DOMAIN sorted |-> text[sorted[n]]]
                                 \o Without(s, r.user, Active(s, r.user) \cup header))>>)}

\* The arguments a tool does not turn away at once.
Askable ==
  {r \in [tool : {"dict_add", "dict_bulk_add", "dict_remove", "dict_disable", "dict_enable",
                  "dict_bulk_move", "dict_remove_matching", "dict_validate", "dict_sort"},
          word : Words \cup {""}, words : Seq(Words), kind : Kinds \cup {""},
          user : Files \cup {""}, to : Files \cup {""}, force : BOOLEAN] :
     /\ r.tool = "dict_add" => r.word \in Words
     /\ r.tool \in {"dict_add", "dict_bulk_add"} => r.kind \in Kinds
     /\ r.tool = "dict_bulk_move" => {r.user, r.to} \subseteq ToSet(UserFiles)
     /\ IF r.tool = "dict_sort" THEN r.user \in Files ELSE r.user \in ToSet(UserFiles) \cup {""}}

Plans(s, r) ==
  CASE r.tool = "dict_add" -> AddEntry(s, r)
    [] r.tool = "dict_bulk_add" -> BulkAdd(s, r)
    [] r.tool = "dict_remove" -> RemoveEntry(s, r)
    [] r.tool \in {"dict_disable", "dict_enable"} -> Toggle(s, r)
    [] r.tool = "dict_bulk_move" -> Move(s, r)
    [] r.tool = "dict_remove_matching" -> RemoveMatching(s, r)
    [] r.tool = "dict_validate" -> Validate(s)
    [] r.tool = "dict_sort" -> Sort(s, r)

\* The dictionary the call recompiles.
DictionaryOf(r) ==
  IF r.tool = "dict_validate" \/ r.user = "" \/ r.user \in ToSet(CoreFiles)
  THEN "core" ELSE "user"

Sources(d) == IF d = "core" THEN CoreFiles ELSE UserFiles

\* What the compiler takes from a file.
Compiled(s, f) == {<<Text(s, f)[i].word, Text(s, f)[i].kind>> : i \in Active(s, f)}
=============================================================================
