------------------------- MODULE DictionarySession -------------------------
(***************************************************************************)
(* The tools that work on one dictionary source file: the interactive      *)
(* editor, the compiler and the library's loader.                          *)
(*                                                                         *)
(* An optional value is a sequence of at most one element: disk is <<>>    *)
(* while there is no file.  A file is written under a temporary name that  *)
(* nobody reads and renamed, so a failed or interrupted write leaves the   *)
(* old one.  Commands that change nothing (list, search, find, stats,      *)
(* layer, validate, help, and every command that only prints an error)     *)
(* are stutters.  What was compiled and loaded is forgotten when a session *)
(* opens or saves (a bound of the model: nothing reads it afterwards).     *)
(***************************************************************************)
EXTENDS DictionaryExpansion, SourceReference, FiniteSets

CONSTANTS
  Texts,         \* what the file may hold at first, each optional
  EditedTexts,   \* those of them a session is opened on
  Typed,         \* what is typed in commands: [surface, word, conj]
  ImportTexts,   \* the files imported
  Layer1,        \* <<surface, pos>> of built-in entries
  MaxEntries,    \* entries of a session (a bound of the model)
  MaxSurface     \* kMaxUserDictionarySurfaceBytes, in tokens

\* Texts and surfaces are sequences of tokens, what is typed are words.
ASSUME SessionAssumption ==
  /\ \A t \in Texts : t \in Seq(Seq(STRING)) /\ Len(t) <= 1
  /\ ImportTexts \subseteq Seq(STRING)
  /\ \A c \in Typed :
       c.surface \in Seq(STRING) /\ c.word \in DOMAIN PosOf /\ \E w \in DOMAIN ConjOf : c.conj = ConjOf[w]

VARIABLES
  disk,       \* the source file
  session,    \* "closed" or "open"
  terminal,   \* is the session's input a terminal
  entries,    \* entries_
  modified,   \* modified_
  dirty,      \* analyzer_dirty_
  analyzer,   \* the user layer of analyzer_
  exit,       \* how the last session ended
  compiled,   \* the .dic written from the file: the rows and what they became
  library,    \* the file as the library loaded it: the rows and what they became
  stored,     \* the entries at the last load or save (history)
  halfway     \* an update was refused after it had changed its entry (history)

editor == <<session, terminal, entries, modified, dirty, analyzer, stored, halfway>>
vars == <<disk, exit, compiled, library, editor>>

-----------------------------------------------------------------------------
(* Loading and compiling. *)

Loadable(entry) ==
  entry.surface # <<>> /\ Len(entry.surface) <= MaxSurface
    /\ ValidUtf8(entry.surface) /\ ValidUtf8(entry.lemma)

\* The entries that a user dictionary accepts, if any.
Installed(parsed) ==
  LET expanded == ExpandDictionarySourceEntries(parsed.entries, FALSE).entries
      installed == Pick(expanded, {i \in DOMAIN expanded : Loadable(expanded[i])})
  IN IF parsed.ok /\ installed # <<>>
       THEN <<[rows |-> parsed.entries, entries |-> installed]>>
       ELSE <<>>

\* loadSourceDictionaryFromMemory
LoadSource(text) == Installed(ParseDictionarySource(text, TRUE))

NeedsConjugation(pos, conj) == pos \in {"Verb", "Adjective"} /\ conj = "None"

\* TsvParser::validate finds no issue.
Validated(rows) ==
  /\ \A i, j \in DOMAIN rows : i # j => Key(rows[i]) # Key(rows[j])
  /\ \A i \in DOMAIN rows :
       ~rows[i].padded /\ ~NeedsConjugation(rows[i].pos, rows[i].conj) /\ ConjugationFits(rows[i])

\* The rows without an issue, and what becomes of them.
Compiled(parsed) ==
  LET output == ExpandDictionarySourceEntries(parsed.entries, TRUE).entries
  IN IF parsed.ok /\ parsed.entries # <<>> /\ Validated(parsed.entries)
          /\ \A entry \in ToSet(output) : Loadable(entry)
       THEN <<[rows |-> parsed.entries, entries |-> output]>>
       ELSE <<>>

\* DictCompiler::compile, up to the write.
CompileSource(text) == Compiled(ParseDictionarySource(text, FALSE))

TsvText(rows) == TsvHeader \o TsvRows(rows)

-----------------------------------------------------------------------------
Init ==
  /\ disk \in Texts
  /\ session = "closed"
  /\ terminal = FALSE
  /\ entries = <<>>
  /\ modified = FALSE
  /\ dirty = TRUE
  /\ analyzer = <<>>
  /\ exit = "none"
  /\ compiled = <<>>
  /\ library = <<>>
  /\ stored = <<>>
  /\ halfway = FALSE

Open(rows) ==
  /\ session' = "open"
  /\ terminal' \in BOOLEAN
  /\ entries' = rows
  /\ stored' = rows
  /\ modified' = FALSE
  /\ dirty' = TRUE
  /\ analyzer' = <<>>
  /\ halfway' = FALSE
  /\ exit' = "none"

Start ==
  /\ session = "closed"
  /\ disk \in EditedTexts
  /\ IF disk = <<>>
       THEN Open(<<>>)
       ELSE LET parsed == ParseDictionarySource(disk[1], FALSE)
            IN IF parsed.ok /\ Len(parsed.entries) <= MaxEntries
                 THEN Open(parsed.entries)
                 ELSE ~parsed.ok /\ exit' = "error" /\ UNCHANGED editor
  /\ compiled' = <<>>
  /\ library' = <<>>
  /\ UNCHANGED disk

\* writeTsvFile succeeded; it may fail at any file operation.
WriteFile == Writable(entries) /\ disk' = <<TsvText(entries)>>

Save ==
  /\ WriteFile
  /\ modified' = FALSE
  /\ stored' = entries

Close(status) ==
  /\ session' = "closed"
  /\ exit' = status
  /\ terminal' = FALSE
  /\ entries' = <<>>
  /\ modified' = FALSE
  /\ dirty' = TRUE
  /\ analyzer' = <<>>
  /\ stored' = <<>>
  /\ halfway' = FALSE
  /\ UNCHANGED <<compiled, library>>

\* The analyzer a command uses: rebuilt first if the entries have changed.
Rebuilt ==
  IF dirty /\ entries # <<>>
    THEN LET loaded == LoadSource(TsvRows(entries))
         IN IF loaded = <<>> THEN <<>> ELSE <<loaded[1].entries>>
    ELSE IF dirty THEN <<<<>>>> ELSE <<analyzer>>

\* Mutant: the analyzer is not marked stale.
ChangedUnnoticed(rows) ==
  /\ entries' = rows
  /\ modified' = TRUE
  /\ UNCHANGED dirty

Changed(rows) ==
  /\ entries' = rows
  /\ modified' = TRUE
  /\ dirty' = TRUE

NewEntry(surface, word, conj) ==
  [surface |-> surface, pos |-> PosOf[word], conj |-> conj, lemma |-> <<>>,
   proper |-> FALSE, legacy |-> FALSE, padded |-> FALSE]

Has(rows, surface, pos) == \E i \in DOMAIN rows : Key(rows[i]) = <<surface, pos>>

\* The word is analyzed first; on a terminal the user may skip a word that
\* is found redundant.
AddCommand(surface, word, conj) ==
  /\ session = "open"
  /\ Len(entries) < MaxEntries
  /\ ~TsvWriteFieldIssue(surface)
  /\ ~NeedsConjugation(PosOf[word], conj)
  /\ ~Has(entries, surface, PosOf[word])
  /\ Rebuilt # <<>>
  /\ analyzer' = Rebuilt[1]
  /\ \/ Changed(Append(entries, NewEntry(surface, word, conj)))
     \/ /\ terminal
        /\ dirty' = FALSE
        /\ UNCHANGED <<entries, modified>>
  /\ UNCHANGED <<disk, session, terminal, exit, compiled, library, stored, halfway>>

\* words: no part of speech typed, or one.
RemoveCommand(surface, words) ==
  LET removed == {i \in DOMAIN entries :
                    entries[i].surface = surface /\ (words = {} \/ entries[i].pos \in {PosOf[w] : w \in words})}
  IN /\ session = "open"
     /\ removed # {}
     /\ Changed(Pick(entries, DOMAIN entries \ removed))
     /\ UNCHANGED <<disk, session, terminal, analyzer, exit, compiled, library, stored, halfway>>

\* conjs: no conjugation type typed, or one, which is assigned before it is
\* known to be acceptable.
UpdateCommand(surface, word, conjs) ==
  /\ session = "open"
  /\ \E found \in DOMAIN entries :
       /\ Key(entries[found]) = <<surface, PosOf[word]>>
       /\ \A i \in 1..found - 1 : Key(entries[i]) # Key(entries[found])
       /\ LET updated == [entries EXCEPT ![found].conj = IF conjs = {} THEN @ ELSE CHOOSE c \in conjs : TRUE]
          IN IF NeedsConjugation(PosOf[word], updated[found].conj)
               THEN /\ entries' = updated
                    /\ halfway' = (halfway \/ updated # entries)
                    /\ UNCHANGED <<modified, dirty>>
               ELSE Changed(updated) /\ UNCHANGED halfway
  /\ UNCHANGED <<disk, session, terminal, analyzer, exit, compiled, library, stored>>

\* Entries the session has are skipped; with the option, built-in ones too.
Imported(rows, skipping) ==
  LET Add1(kept, e) ==
        IF Has(kept, e.surface, e.pos) \/ (skipping /\ Key(e) \in Layer1) THEN kept ELSE Append(kept, e)
      after[n \in 0..Len(rows)] == IF n = 0 THEN entries ELSE Add1(after[n - 1], rows[n])
  IN after[Len(rows)]

ImportCommand(text, skipping) ==
  LET parsed == ParseDictionarySource(text, FALSE)
      rows == Imported(parsed.entries, skipping)
  IN /\ session = "open"
     /\ parsed.ok
     /\ rows # entries
     /\ Len(rows) <= MaxEntries
     /\ Changed(rows)
     /\ UNCHANGED <<disk, session, terminal, analyzer, exit, compiled, library, stored, halfway>>

Analyze ==
  /\ session = "open"
  /\ Rebuilt # <<>>
  /\ analyzer' = Rebuilt[1]
  /\ dirty' = FALSE
  /\ UNCHANGED <<disk, session, terminal, entries, modified, exit, compiled, library, stored, halfway>>

SaveCommand ==
  /\ session = "open"
  /\ Save
  /\ compiled' = <<>>
  /\ UNCHANGED <<session, terminal, entries, dirty, analyzer, exit, library, halfway>>

\* A modified session is saved first, whatever becomes of the compilation.
CompileCommand ==
  /\ session = "open"
  /\ IF modified THEN Save ELSE UNCHANGED <<disk, modified, stored>>
  /\ LET output == IF disk' = <<>> THEN <<>> ELSE CompileSource(disk'[1])
     IN compiled' \in {output, IF modified THEN <<>> ELSE compiled}
  /\ UNCHANGED <<session, terminal, entries, dirty, analyzer, exit, library, halfway>>

\* Mutant: nobody is asked, so the changes are dropped.
QuitDropping ==
  /\ session = "open"
  /\ Close("ok")
  /\ UNCHANGED disk

\* Without a terminal the changes are saved, and a failed save keeps the
\* session; on a terminal the user may discard them.
Quit ==
  /\ session = "open"
  /\ IF modified /\ ~terminal THEN WriteFile ELSE UNCHANGED disk
  /\ Close("ok")

EndOfInput ==
  /\ session = "open"
  /\ \/ modified /\ WriteFile /\ Close("ok")
     \/ modified /\ UNCHANGED disk /\ Close("error")
     \/ ~modified /\ UNCHANGED disk /\ Close("ok")

Crash ==
  /\ session = "open"
  /\ Close("crash")
  /\ UNCHANGED disk

\* The compiler of the command line, on the file as it is.
CompileFile ==
  /\ session = "closed"
  /\ disk # <<>>
  /\ CompileSource(disk[1]) # <<>>
  /\ compiled' = CompileSource(disk[1])
  /\ UNCHANGED <<disk, exit, library, editor>>

\* The library loads the file as a user dictionary.
LoadFile ==
  /\ session = "closed"
  /\ disk # <<>>
  /\ LoadSource(disk[1]) # <<>>
  /\ library' = LoadSource(disk[1])
  /\ UNCHANGED <<disk, exit, compiled, editor>>

Next ==
  \/ Start
  \/ \E c \in Typed : AddCommand(c.surface, c.word, c.conj)
  \/ \E c \in Typed, given \in BOOLEAN : UpdateCommand(c.surface, c.word, IF given THEN {c.conj} ELSE {})
  \/ \E c \in Typed, given \in BOOLEAN : RemoveCommand(c.surface, IF given THEN {c.word} ELSE {})
  \/ \E t \in ImportTexts, skipping \in BOOLEAN : ImportCommand(t, skipping)
  \/ Analyze
  \/ SaveCommand
  \/ CompileCommand
  \/ Quit
  \/ EndOfInput
  \/ Crash
  \/ CompileFile
  \/ LoadFile

Spec == Init /\ [][Next]_vars

-----------------------------------------------------------------------------
(* Properties. *)

Outputs == ToSet(compiled)

\* The compiler's merging of homographs (dictionary_expansion.cpp, the
\* compiler's options) leaves one entry for a surface and part of speech, and
\* readings of several parts of speech only where rows asked for them.
OneReadingPerSurface ==
  \A out \in Outputs : \A i, j \in DOMAIN out.entries :
    i # j /\ out.entries[i].surface = out.entries[j].surface =>
      /\ out.entries[i].pos # out.entries[j].pos
      /\ \E n \in DOMAIN out.rows : Key(out.rows[n]) = Key(out.entries[i])

\* Merging never loses a surface: whatever form of a row the library would
\* find, the compiled dictionary finds under some reading, and no more.
EverySurfaceAnswers ==
  \A out \in Outputs :
    {out.entries[i].surface : i \in DOMAIN out.entries} = {f.surface : f \in AllForms(out.rows)}

\* A row's own surface keeps the row's own reading, in whatever order the
\* rows stand and whatever forms of other rows meet it.
OwnSurfaceWins ==
  \A out \in Outputs : \A n \in DOMAIN out.rows :
    \E f \in ToSet(out.entries) \cap ToSet(Forms(out.rows[n], Adjectives(out.rows))) :
      f.surface = out.rows[n].surface

\* The library keeps every form once: all of them that can be looked up.
LibraryKeepsEveryForm ==
  \A in \in ToSet(library) :
    /\ ToSet(in.entries) = {f \in AllForms(in.rows) : Loadable(f)}
    /\ IsInjective(in.entries)

\* The strict parser cuts a text into the records the format describes,
\* quoted newlines and doubled quotes included, and rejects the same texts.
\* Where a stray quote stands the format does not hold: see the README.
SourceAsDocumented ==
  \A n \in DOMAIN disk : StrayQuote(disk[n]) \/ AsDocumented(disk[n], FALSE)

\* The two flags of a session tell the truth, unless an update was refused
\* halfway: unmodified entries are the stored ones, and an analyzer that is
\* not dirty was built from exactly these entries.
FlagsTellTheTruth ==
  session = "open" /\ ~halfway =>
    /\ ~modified => entries = stored
    /\ ~dirty =>
         ToSet(analyzer) = {f \in AllForms(ParseDictionarySource(TsvRows(entries), TRUE).entries) : Loadable(f)}

\* A session that ends with exit code 0 has saved its changes, unless a user
\* at a terminal said to discard them.
NothingLostSilently ==
  [][session = "open" /\ session' = "closed" /\ exit' = "ok" /\ modified =>
       terminal \/ (disk' # <<>> /\ disk'[1] = TsvText(entries))]_vars

\* What the comment on hasUnsavedChanges says: a session without unsaved
\* changes is the file.  (Not so: see the README.)
NoUnsavedChangesMeansStored ==
  session = "open" /\ ~modified =>
    IF disk = <<>>
      THEN entries = <<>>
      ELSE LET parsed == ParseDictionarySource(disk[1], FALSE)
           IN parsed.ok /\ [i \in DOMAIN parsed.entries |-> Stored(parsed.entries[i])]
                             = [i \in DOMAIN entries |-> Stored(entries[i])]
=============================================================================
