--------------------------- MODULE SuzumeInstance ---------------------------
(***************************************************************************)
(* One suzume::Suzume instance (src/src/suzume.cpp) with the parts that    *)
(* hold state between calls: the options, the analyzer with its tokenizer  *)
(* and dictionary layers (analysis/analyzer.cpp, dictionary/dictionary.cpp)*)
(* and the postprocessor's options.  An operation that touches several     *)
(* parts is split where another thread, or an allocation failure, would    *)
(* find it half done.                                                      *)
(*                                                                         *)
(* A dictionary is the set of words it answers.  A source text or a binary *)
(* of the caller is a name whose words Content gives; it is refused when   *)
(* there are none.                                                         *)
(***************************************************************************)
EXTENDS Naturals, Sequences, FiniteSetsExt

CONSTANTS
  Words,      \* surfaces looked up
  BuiltIn,    \* the words of the hardcoded layer
  CoreWords,  \* the words of core.dic
  UserWords,  \* the words of the bundled user.dic
  Sources,    \* the source texts callers load
  Binaries,   \* the binary dictionaries callers load
  Content,    \* the words each of those makes available
  Warned      \* the source texts whose parse also warns

ASSUME InstanceAssumption ==
  /\ BuiltIn \subseteq Words /\ CoreWords \subseteq Words /\ UserWords \subseteq Words
  /\ Content \in [Sources \cup Binaries -> SUBSET Words]
  /\ Warned \subseteq Sources

VARIABLES
  mode,             \* options.mode, what mode() answers
  merge,            \* options.merge_compounds
  analyzerMode,     \* the analyzer's own copy of the mode
  tokenizerMode,    \* the mode its tokenizer was built with
  mergeNouns,       \* the postprocessor's merge_noun_compounds
  coreBinary,       \* layer 2
  bundled,          \* layer 3: the automatically loaded user dictionary
  binaries,         \* layer 4: the caller's binary dictionaries
  sources,          \* layer 5: the caller's source dictionaries
  warnings,         \* diagnostics of the construction
  runtimeWarnings   \* diagnostics of the caller's loads

modes == <<mode, merge, analyzerMode, tokenizerMode, mergeNouns>>
layers == <<coreBinary, bundled, binaries, sources>>
instance == <<modes, layers, warnings, runtimeWarnings>>

Modes == {"normal", "search", "split"}

\* postprocessOptionsFor: search merges noun compounds, split never does.
PostprocessOptionsFor(m) == m # "split" /\ (merge \/ m = "search")

(***************************************************************************)
(* The constructor loads what it finds; a file that is missing or broken   *)
(* costs a warning, never the instance.  "skipped" stands for the option.  *)
(***************************************************************************)
FileState == {"loaded", "unavailable", "skipped"}

Noted(name, found) == IF found = "unavailable" THEN <<name>> ELSE <<>>

Construct(core, user) ==
  /\ analyzerMode = mode
  /\ tokenizerMode = mode
  /\ mergeNouns = PostprocessOptionsFor(mode)
  /\ coreBinary = IF core = "loaded" THEN CoreWords ELSE {}
  /\ bundled = IF user = "loaded" THEN <<UserWords>> ELSE <<>>
  /\ binaries = <<>>
  /\ sources = <<>>
  /\ warnings = Noted("core.dic", core) \o Noted("user.dic", user)
  /\ runtimeWarnings = <<>>

(***************************************************************************)
(* DictionaryManager: the five layers in the order of lookupInto.          *)
(***************************************************************************)
InOrder == <<BuiltIn, coreBinary>> \o bundled \o binaries \o sources

\* The candidates lookupInto offers for w: the places that hold it, in order.
LookupInto(w) == {i \in DOMAIN InOrder : w \in InOrder[i]}

\* lookupExact: the first place that holds w, 0 for the null pointer.
LookupExact(w) == IF LookupInto(w) = {} THEN 0 ELSE Min(LookupInto(w))

\* How many places belong to the program itself and not to the caller.
Shipped == 2 + Len(bundled)

(***************************************************************************)
(* setMode: options, then the analyzer, which returns at once when its own *)
(* copy is equal and rebuilds its tokenizer otherwise; then, in a second   *)
(* step, the postprocessor.  The rebuild allocates, so it may fail.        *)
(***************************************************************************)
\* Mutant: the early return of the analyzer skips the postprocessor as well.
SetPostprocessorIfStale(m) ==
  /\ mergeNouns' = IF tokenizerMode = m THEN mergeNouns ELSE PostprocessOptionsFor(m)
  /\ UNCHANGED <<mode, merge, analyzerMode, tokenizerMode, layers, warnings, runtimeWarnings>>

SetAnalyzerMode(m) ==
  /\ mode' = m
  /\ analyzerMode' = m
  /\ tokenizerMode' = IF analyzerMode = m THEN tokenizerMode ELSE m
  /\ UNCHANGED <<merge, mergeNouns, layers, warnings, runtimeWarnings>>

SetAnalyzerModeStarved(m) ==
  /\ analyzerMode # m
  /\ mode' = m
  /\ analyzerMode' = m
  /\ UNCHANGED <<merge, tokenizerMode, mergeNouns, layers, warnings, runtimeWarnings>>

SetPostprocessor(m) ==
  /\ mergeNouns' = PostprocessOptionsFor(m)
  /\ UNCHANGED <<mode, merge, analyzerMode, tokenizerMode, layers, warnings, runtimeWarnings>>

(***************************************************************************)
(* loadUserDictionaryFromMemoryResult: a source that was accepted is added *)
(* to the manager first, then the tokenizer is rebuilt and the warnings of *)
(* the parse are appended.                                                 *)
(***************************************************************************)
Accepted(d) == Content[d] # {}

AddSource(d) ==
  /\ sources' = Append(sources, Content[d])
  /\ UNCHANGED <<modes, coreBinary, bundled, binaries, warnings, runtimeWarnings>>

RebuildAfterSource(d) ==
  /\ tokenizerMode' = analyzerMode
  /\ runtimeWarnings' = IF d \in Warned THEN Append(runtimeWarnings, d) ELSE runtimeWarnings
  /\ UNCHANGED <<mode, merge, analyzerMode, mergeNouns, layers, warnings>>

\* loadBinaryDictionaryResult: the manager's list only, no rebuild.
AddBinary(d) ==
  /\ binaries' = Append(binaries, Content[d])
  /\ UNCHANGED <<modes, coreBinary, bundled, sources, warnings, runtimeWarnings>>

\* Mutant: the clear takes the automatically loaded dictionary along.
ClearEveryUserDictionary ==
  /\ bundled' = <<>>
  /\ binaries' = <<>>
  /\ sources' = <<>>
  /\ runtimeWarnings' = <<>>
  /\ UNCHANGED <<modes, coreBinary, warnings>>

ClearUserDictionaries ==
  /\ binaries' = <<>>
  /\ sources' = <<>>
  /\ runtimeWarnings' = <<>>
  /\ UNCHANGED <<modes, coreBinary, bundled, warnings>>

\* dictionaryWarnings: both lists, as one view.
DictionaryWarnings == warnings \o runtimeWarnings

=============================================================================
