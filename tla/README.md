# Suzume: formal verification

TLA+ models, TLC runs and TLAPS proofs for suzume, a Japanese tokenizer
(C++17 core, C ABI, Python and WebAssembly bindings, command line, development
tools). The paths below are those of the repository, under `src/`.

## 1. The system

A text goes through these parts, each one synchronous call of the next:

```
 Python (threads) ── WASM (async calls) ── command line ── MCP tools (async tasks, files)
          │                 │                    │
       C API (suzume_c.cpp) ── Suzume (suzume.cpp): options, analyzer, postprocessor, warnings
                                     │
              Analyzer.analyzeWithNormalizedText (analysis/analyzer.cpp)
   normalize → cut at sentence boundaries → PreTokenizer → merge → analyzeSpan → analyzeChunk
                                     │
        Tokenizer.buildLattice ── candidate generators ── Inflection.analyze (cached)
                │                        │
             Lattice          DictionaryManager ── five layers: CoreDictionary, BinaryDictionary
                │                                  (DoubleArray), UserDictionary (source files)
        Viterbi.solve (K best per state) ── Scorer
                │
        Postprocessor ── TagGenerator
```

| Component | State it keeps | Operations | What makes it correct | Modelled |
|---|---|---|---|---|
| Lattice (`src/core/lattice`) | edges, ids by start and by end | `addEdge`, `setEdgeCost` | both indices agree with the edges | yes |
| Viterbi (`src/core/viterbi.h`) | K entries per (position, ExtendedPOS), back-pointers | `solve` | pointers and costs exact, path tiles the text, cheapest within the beam | yes |
| Tokenizer (`src/analysis/tokenizer.cpp`) | the lattice under construction | generate, fallback, clamp | no bare position, user words protected | partly: the generators are one choice |
| Analyzer (`src/analysis/analyzer.cpp`) | cut positions, character counters | cut, merge, analyse | no text lost, offsets exact, limits kept | partly: normalization |
| PreTokenizer (`src/pretokenizer`) | scan position, digit flag | `process` | tokens and spans partition the piece | partly: the matchers are one choice |
| Inflection (`src/grammar/inflection`) | two cache generations | `analyze`, `rollCache` | bounded, references valid while used | partly: the matching is a table |
| DoubleArray (`src/dictionary/double_array`) | the unit array | `build`, lookups | finds exactly its keys | yes |
| BinaryDictionary (`src/dictionary/binary_dict`) | trie and entries | `loadFromMemory`, lookups | a load replaces everything or nothing | partly: reader; not the byte codec |
| Source parser (`src/dictionary/source_parser.cpp`, `tools/cli/tsv_parser.cpp`) | scan position, quoting | parse, write | reads what the format says | yes |
| Expansion (`src/grammar/dictionary_expansion.cpp`) | entries by surface | expand, merge homographs | a surface answers once and with its own reading | partly: endings are a table |
| DictionaryManager, UserDictionary | five lookup layers | load, clear, lookup | failed loads change nothing, the bundled layers stay | partly |
| Suzume instance (`src/suzume.cpp`) | options, analyzer, postprocessor, warnings | construct, `setMode`, load, clear | its parts agree on the mode | partly |
| Postprocessor, tag generator (`src/postprocess`) | the morpheme list | `process`, `generate` | the text and the lattice's lemmas survive the rewriting | partly |
| C API (`src/suzume_c.cpp`) | handles, thread-local error | one function per operation | results freed once, an error belongs to its call | partly |
| Python binding (`bindings/python`) | handle, re-entrant lock | methods, `close`, `__del__` | no native call on a destroyed instance | partly |
| WASM binding (`bindings/wasm/js/index.ts`) | module promises, handles | `create`, `destroy`, finalizer | one runtime per key, memory given back once | partly |
| Interactive editor, compiler (`tools/cli`) | file, entries, flags | edit, save, compile, load | a save loses nothing, the flags tell the truth | partly |
| MCP dictionary tools (`scripts/mcp`) | source files, compiled dictionary | edit, recompile, roll back | sources and dictionary agree | partly |
| Binary writer, built-in dictionary, candidate generators, scorer rules, grammar tables | | | | no (section 6) |

What is hard here: in the core (single-threaded) it is state with a history:
K-best lists whose slots shift under stored pointers, a cache that recurses
into itself and hands out references, offsets kept by four nested counters, an
array grown while its cells are tested, a rewriting pipeline whose passes feed
one another, loads that fail after half of their work. Around the core it is
concurrency: threads and finalizers on one native handle, promises shared by
calls that may fail, tools that edit, compile and roll back the same files.
PROJECT.json lists each such hazard at its line with the properties that cover
it, or why none does.

## 2. Modules

| Module | Models | How its state and actions correspond |
|---|---|---|
| `Lattice` | `core::Lattice` | `allEdges`, `byStart`, `byEnd` are `all_edges_` and its two index vectors (ids from 1 instead of 0); `AddEdge` is `addEdge` with its early return |
| `Viterbi` | `Viterbi::solve` | `keys` and `slots` are `states_by_pos`; one action per loop iteration: `RelaxEdge`, `NextPosition`, `PickFinal` / `NoPath`, `BacktrackStep`; `Insert` is `StateSlots::insert` |
| `LatticePaths` | the reference for it | all paths of a lattice, their costs, and the two properties that compare the decoder with them |
| `ViterbiOptimality` | | starts the decoder on each lattice of a given set |
| `Tokenizer` | `buildLattice` | `GenerateCandidate` per edge a generator adds, `NextGeneratePosition`, `BeginFallback`, `Fallback`, `ClampBonuses` |
| `AnalyzeChunk` | `analyzeChunk` | Lattice, Tokenizer and Viterbi composed over one set of variables |
| `Analyzer` | `analyzeWithNormalizedText`, `PreTokenizer::process` | one action per iteration of each loop: `NextPiece`/`EndPiece`, `MatchToken`/`NoMatch`/`EndPretokens`, `MergeToken`/`MergeSpan`, `AnalyzePart`/`EndSpan` |
| `InflectionCache` | `Inflection::analyze`, `rollCache` | `cache`, `previous` by their keys, `calls` the recursion stack, `held` the references generators keep |
| `Listing` | | lists a finite set in an order, and picks members of a sequence: what the loops over labels, runs and lines leave behind |
| `DoubleArray` | `DoubleArray` | `cells`, `used`, `nextCheckPos`, `calls` are `BuildState` and the recursion of `buildRecursive`; `PlaceNode` is one call of it; lookups are operators over a finished array |
| `BinaryDictionary` | `loadFromMemory`, `dictionary_lookup.cpp` | composes `DoubleArray`; `Load`, `Build`, three refusals, `Publish` |
| `SurfaceIndex` | what a loaded dictionary promises | the abstract specification `BinaryDictionary` refines (`AnswersLikeIndex`) |
| `SourceParser` | `source_parser.cpp`, `tsv_parser.cpp` | functions over sequences of tokens (character class, delimiter, quote, line end): records, delimiter, fields, three layouts, strict and lenient parse, and the editor's writer |
| `SourceReference` | the documented format | says declaratively which records a text holds; `SourceAsDocumented` compares |
| `DictionaryExpansion` | `expandDictionarySourceEntries` | `Forms` expands a row; `KeepOnePerPos`, `KeepOne`, `KeepFirst`, `KeepAll` are the branches of the homograph merging |
| `DictionarySession` | the interactive editor, the compiler, the library's load | `disk`, `entries`, `modified`, `dirty`, `analyzer` are the session's members; one action per command, `Quit`, `EndOfInput`, `Crash`; `CompileFile` and `LoadFile` read the same disk |
| `SuzumeInstance` | `suzume.cpp`, `dictionary.cpp` | the modes of its three parts, the five layers, the warnings; one operator per entry point, with the failures each can meet |
| `PythonBinding` | `suzume/__init__.py` over the C API | extends `SuzumeInstance`; every thread has `pc`, `op`, `arg` and its own last error; one action per step between two points where the interpreter may switch threads: `Enter` or `Reenter` the lock, `RequireHandle`, the native halves (`Tokenize`, `Postprocess`, `SetMode`/`FinishSetMode`, ...), `ReadResult`, `FreeResult`, `Leave` |
| `WasmBinding` | `index.ts` | per call the state of its promise, what it awaits, the handle and its registration; `modulePromises` is the module-level map; one action per turn of the event loop |
| `Postprocessor` | `Postprocessor::process`, `TagGenerator::generate` | `source` is what the lattice gave, `morphemes` the vector at hand, `pass` the next stage; one action per pass, as in `process`, each pass a sweep of pieces over the vector (`Sweep`) |
| `DictionaryEdits` | what each MCP tool writes | pure: `Plans(s, r)` gives the edits of request r on sources s, or its refusal |
| `DictionaryTools` | `_dict_tools_common.py` and the compile | per task `pc`, snapshot, edits, files still to restore; `WriteFile`, `WriteFails`, `StartCompiler`, `Glob`, `ReadSource`, `Publish`, `CompileFailed`, `Restore`, `RestoreFails`, `Answer`, `Cancel` |

`DecoderProofs` (decoder, chunk), `AnalysisProofs` (text analysis, inflection
cache, postprocessor), `DictionarySessionProofs` (parser, expansion, editor),
`BinaryDictionaryProofs`, `PythonBindingProofs`, `WasmBindingProofs` and
`DictionaryToolsProofs` hold the theorems, `SharedLemmas` what several of them
rest on; modules `MC...` give TLC its instances. Operators whose comment begins with "Mutant" are not part of
a model: each is a plausible bug of the definition that follows it, kept to
show that a property would notice it.

### What the models leave out of the data

* An edge keeps its span, key, cost, its user and custom flags and one value
  `sig` for everything else a scoring rule can tell edges apart by. Costs are
  integers: the models speak of exact addition, not of `float` rounding.
* The scorer is any function of the edges it is given. `StateSlots` merges
  arrivals by nine fields; the model's rules read the predecessor through its
  start and `sig`, which is the same assumption the code makes.
* Generators may offer any of the candidates that start at the position, in any
  order, or none. The clamp and the fallback must work for all of these.
* In `Analyzer` a text is its size and the bytes at which characters,
  boundaries and digits start. The pretokenizer's matchers take any run of
  characters, or none; they are assumed to end at a character boundary behind
  their start. `analyzeChunk` is one morpheme there, because `AnalyzeChunk`
  shows (and `ChunkCovered` proves) that it tiles its part.
* A surface in `DoubleArray` is a sequence of bytes; byte 0 marks a key's end,
  as in the code. `BlockSize`, `InitialSize` and `PayloadMask` (256, 1024 and
  2^23 - 1 in the code) are parameters, so that TLC reaches the growth of the
  array, the largest value that still fits, and the base that does not.
* A source file is a sequence of tokens by class (word, delimiter, space, quote,
  comment mark, line end); a row keeps surface, part of speech and conjugation.
  The endings of a conjugation are a constant.
* A dictionary layer is the set of words it answers for. A native call that
  may run out of memory is split at the point where it throws, so that what was
  done before stays done.
* The postprocessor sees of a morpheme the source characters its surface is made
  of, its offsets, its role and the class of its wording that the passes test;
  the rules that only assign roles are the change of some role. In a tag equal
  words are spelled alike wherever they stand; a verb's lemma is a string of its
  own, that of any other word is the word.
* A dictionary line of the MCP tools is a word, a kind and whether it is
  commented out. The event loop is external: any task may run where another
  awaits, and a call may be cancelled there.

## 3. Runs

| Run | Bounds | What it shows |
|---|---|---|
| `viterbi` | 3 positions, 2 keys, beam 2, 3 identities, lattices of 5 to 7 edges, 4 scorers (83 thousand states) | the decoder against the enumeration of all paths |
| `analyze_chunk` | 3 positions, 5 edge ids, 2 candidates per position (12 thousand) | fallback, clamp and decoder under arbitrary generators; ids run out in some behaviours, with and without a position left bare |
| `inflection_cache` | 5 surfaces, recursion depth 3, 2 entries per generation, 2 held references | freshness and reference life under recursion |
| `inflection_references` | same | the header's promise, violated |
| `analyzer` | all texts of at most 4 characters of 1 or 3 bytes, limit 4 bytes (25 thousand) | nothing lost, exact offsets, limits, across two levels of cutting |
| `binary_dictionary` | bytes below 4, tables over 8 surfaces that share prefixes, homographs, unsorted and too large ones, payload of 12 | loads over one another against the abstract index |
| `dictionary_session` | texts of at most 3 records in every layout, every text of at most 4 of 9 short pieces (two rows, separators, quote, hash, line end), sessions on 4 of them, 4 entries to type, 3 entries, surfaces of 3 (20 thousand) | parse, edit, save, compile, load and crash against the documented format |
| `unsaved_changes` | same | the meaning of "unsaved changes", violated |
| `shared_instance` | 2 threads, 3 calls, 2 builds, 4 words, 2 source and 2 binary files of which one each is refused (162 thousand) | every method, `close` and the collector on one shared object, memory failures included |
| `wasm_binding` | 3 calls of 4 kinds, 2 keys (154 thousand) | shared runtimes, failures, destroy and the finalizer, interleaved |
| `postprocess` | lists of at most 4 morphemes from 5 vocabularies, 2 options, 3 tag options, 1 retag (2.4 million) | what all passes together keep of the text, and the tags |
| `dictionary_tools` | 4 files, 5 words, 5 kinds, 2 source trees, 17 requests over 9 tools, 2 tasks, 2 calls (679 thousand, tasks symmetric) | concurrent edits, compiles, failures, rollbacks and cancellations |

Why these bounds are enough to be telling:

* a beam of two with three distinguishable arrivals is the least that makes
  entries move, merge, evict and be evicted; three positions give an edge over
  one, two and three characters and an interior position whose slots are
  pointed at from two later ones;
* four-byte parts over three-byte characters make every kind of cut happen (at
  a boundary, before a straddling character, behind a straddling boundary) and
  cut one span more than once;
* generations of two entries are filled and rolled from inside a nested call;
  a payload of twelve is reached by both values and bases;
* three records hold two homographs and a third row between or behind them; an
  edit, a failed edit and a save fit into one session with a crash anywhere;
* two threads and three calls suffice for a call, a `close` and the collector
  to overlap, with an error pending in each thread;
* three WASM calls are a creator, a waiter and one that comes after the failure;
* five ids leave room for a user word, a shape-derived edge inside it and the
  fallback edges, and give out elsewhere before a position has its own, so that
  the decoder meets lattices that do not connect;
* four morphemes are enough for one merge and a neighbour on either side of it, and for one pass's
  result to be the next one's operand;
* two tools at work interleave at each await: read, write, compile, roll back.

Each property has a mutant of the code that TLC finds it broken by, in the same
instance. `MaxEdges`, `MaxCandidates`, `MaxHeld`, `MaxChars`, `MaxEntries`,
`MaxSurface`, `MaxCalls`, `Builds` and `MaxRetags` are bounds of the instances;
`MaxEdges` is also the code's own limit on ids.

Deadlock is checked where the modelled component serves calls for ever
(`inflection_cache`, `binary_dictionary`). The others end: one call, one
session, a bounded number of requests.

**Fairness.** The core is entered by a synchronous call, which the caller's
thread runs to its end: weak fairness on the steps of a call in progress
(`Step(t)` of every thread in `PythonBinding`, the loops of `AnalyzeChunk`,
`Analyzer`, `BinaryDictionary`, `InflectionCache`), none on making a call. The calls
of a behaviour are bounded, so a thread that waits for the lock gets it once the
others have left. In `WasmBinding` each call's continuation runs and
each import or instantiation settles, one way or the other; nothing obliges
the garbage collector or the caller. `DictionarySession`, `Postprocessor` and
`DictionaryTools` assume none: their properties are safety.

## 4. Proofs

TLAPS checks, for all values of the constants that satisfy the modules' named
assumptions (`LatticeAssumption`, `ViterbiAssumption`, `TokenizerAssumption`,
`InflectionAssumption`, `AnalyzerAssumption`, `InstanceAssumption`,
`BindingAssumption`, `WasmAssumption`, `DoubleArrayAssumption`,
`BinaryDictionaryAssumption`, `EditsAssumption`, `ToolsAssumption`,
`PostprocessorAssumption`, `SuffixesAssumption`, `SessionAssumption`; TLC
evaluates each on its instance):

* **Decoder and chunk** (`DecoderProofs`): any text
  length, beam, scorer and candidates. None of the properties is inductive
  alone. That a back-pointer's slot exists and its cost is right rests on slots
  that no longer shift, which rests on edges leading strictly forwards and on
  the pass being position-ordered; that the path tiles the text rests on the
  pointers; that there is a path at all rests on every position having an edge,
  hence on how far generation and fallback have come. `SolveInv` gathers the
  decoder's part (typing, index consistency, ranked slots, exact pointers, only
  settled positions pointed at, the partial path tiling what lies behind the
  cursor) and `SolveInvStep` shows each action keeps it; `ChunkInv` adds the
  tokenizer's progress. When ids run out the argument runs backwards: without a
  path some position is bare (`SolveProgress`), and the fallback leaves one so
  only for want of an id. From `ChunkInvariant` follow `TypeCorrect`,
  `IndexCorrect`, `SlotsCorrect`, `BackpointersCorrect`, `FallbackCorrect`,
  `ChunkCovered`, the two action properties `SettledSlotsFrozen` and
  `ClampIsMinimal`, and `UserSpansProtected`. The lemmas before them say what
  `Insert`, `Without` and `InsertSorted` return.
* **Optimality** (`DecoderProofs`): any text length, candidates, scorer and
  beam. No invariant mentions a path of the reference. `OptInv` says edge by edge
  that a relaxed edge *serves* every state it could extend: the key it arrives at
  holds an entry the scorer cannot tell from it, at no higher cost. A key with
  room for every identity drops none of them (`RoomForAll`, by the pigeonhole
  principle), and an insert that merges twins keeps the cheaper
  (`InsertServes`). An induction along one path (`ServedAlong`) carries the claim
  from edges to whole paths, and `PathCostAccumulates` shows the recursion that
  defines a path's cost to have one solution. `ResultOptimal` is
  `OptimalWithinBeam` for every lattice a chunk can give rise to. `ResultExact`
  (`ResultIsAPath`) needs no room: keys are never emptied, so a result exists
  exactly when a path does, and following the pointers back adds up to the
  reported total.
* **Text analysis** (`AnalysisProofs`): any text, any limit, whatever the
  matchers match. `AnalysisInv` says that what is taken and what is outstanding
  tile the piece (tokens and spans both), that a span holds no boundary
  character it should have been cut at, and that the counters of piece, span
  and part agree with the text. `NothingIsLost`, `OffsetsAreExact`,
  `CutsFallBetween` and `PartsLimited` follow. The strengthening is needed
  because each counter is restarted from another one: an offset is right only
  as long as all the levels above it are.
* **Inflection cache** (`AnalysisProofs`): any surfaces, remainders and
  generation size. `CacheInv` relates the generations, the stack of calls (ever
  shorter surfaces, none of them cached) and the held references (a node's age
  says in which generation it lives). It gives `CacheBounded`, `InsertsAreFresh`
  and `NodesOutliveRollover`.
* **Postprocessor and tags** (`AnalysisProofs`): any sequence of readings, any
  options, any number of role changes. `PostInv` says that the lattice's
  morphemes tile the text, that those at hand are in order, each a run of whole
  lattice morphemes with their characters and their span (`Good`), and that
  together they have the characters of the lattice, or behind the filter those
  of all that is no symbol. `SweepCarries` shows once, for every pass, that
  replacing pieces by pieces with the same characters keeps all this; what is left
  per pass is that its pieces are such pieces. Setting symbols aside and
  putting them back (`MergeBack`) is a merge of two ordered lists that do not
  overlap, shown by counting the steps. A lemma restored at the end is that of a
  lattice morpheme with the very same span. `TextIsKept`,
  `LatticeLemmaIsKept` and `TheTagsAreTheFirst` follow.
* **Python binding** (`PythonBindingProofs`): any number of threads and calls.
  `BindingInv` says who holds the lock and how often, that past the handle check
  only the lock's owner can destroy the instance, which error is whose, and
  which part of a mode change is still to come. It gives `HandleSafe`,
  `OneInstanceSeen`, `ErrorsOwn` and `ModesAgree`. `WordsKept` needs what the
  layers and the pending arguments can be besides, and that the first layer with
  a word stays the first when another is appended.
* **WASM binding** (`WasmBindingProofs`): any number of calls and keys.
  `WasmInv` ties the promise map to the promises (what it serves is fulfilled
  or will be taken out by its creator; what is of use is in it) and the handle
  to its registration. It gives `RuntimeShared`, `InstanceOwned` and
  `FailuresForgotten`.
* **Dictionary** (`BinaryDictionaryProofs`): any surface tables and queries, any
  sizes of byte, block and payload, and any `BitXor` that is undone by doing it
  again and leads upwards from some base of every block
  (`DoubleArrayAssumption`; 256 and XOR satisfy it). The array is described
  by one function, the base of each beginning of a key; a beginning's cell is
  its parent's base XOR its last byte. `Grown` says what one call of the build
  leaves behind: the bases given out are distinct and below the next position
  searched, the cells taken are exactly their children's, each holds its label
  and base or value, and the calls still to come are exactly the beginnings
  reached that have no base. `PlaceKeeps` shows it inductive: it needs that a
  base found is beyond all others, that growing the array moves nothing, and that
  no two children anywhere share a cell. With no call left all beginnings have
  bases (`BuildEnds`), and the array `Encodes` the keys, which is all a lookup
  needs (`WalkFollows`, `ExactMatchFinds`, `PrefixSearchFinds`). `DictInv` adds
  the load around it: what is pending is what is built, what is published serves
  its own entries. `IndexImplemented` is the refinement of `SurfaceIndex`, step
  by step; `PrefixSearchHolds` and `TypesHold` follow from the same invariant.
* **Parser, expansion and editor** (`DictionarySessionProofs`): any source texts,
  typed words, imports and ending tables. The parser's three automata and the
  passes over rows and forms are recursive functions over an interval; that each
  has a solution, and stays within any set its step does not leave, is a lemma
  per recursion (`ScanAfterIs`, `FormsAfterIs`, `SourcesAfterIs`), which is all the proof needs
  to know of the text: it yields typed rows or a refusal (`ParsedTyped`).
  `Indexed` is the invariant of the homograph merging. Its two indexes, by surface and
  by surface and part of speech, point to entries with that key; an entry
  whose surface no row has claimed is the only one of its surface; where a row
  has claimed it, all entries are rows' own readings; and the identities met are still
  answered for. Each of the five ways a form can meet the table keeps it (the
  lemmas ending in `Meets`), the surfaces grow by exactly that form's, and the
  keys rows have claimed (`OwnKeys`) never shrink, although an entry may be
  replaced in place, taken over, or made longer. From this, whatever the order of
  the rows: `OneReading`, `SurfacesAnswer`, `OwnReadingWins`. For the library's
  options the table is the set of identities kept once each
  (`LibraryIsComplete`). `SessionInv` adds the editor: files and entries are
  typed, what is compiled or loaded came from some text by the two expansions, and
  the flags tell the truth. `FlagsAreTrue` and `ChangesAreSaved`
  (`NothingLostSilently`) follow.
* **MCP tools** (`DictionaryToolsProofs`): any number of calls at once, any
  sources, words, kinds and requests. Its first part is about what the nine tools
  plan: whole files of lines, each file once, all of the dictionary that will be
  compiled (`PlansFit`), and one tree after it whichever way the plan is
  chosen. `ToolsInv` then says how far each call is. While it writes, the tree
  is the one it read with its writes made, because nobody else holds the loop.
  While its compiler runs, each file others have left alone is as it was
  written, and the compiler has it so or has not come to it yet: this is
  what makes "ok" true of the compiled dictionary although it was read file by
  file between other calls' writes. While it rolls back, the files it has come to
  are restored, taken over by others, or noted. `AnswersAreTrue` and `NoEditLost`
  (`EditsKept`) follow; the latter is part of the invariant, since a call's plan is
  right for the ideal tree only if that is the tree it has read.
  `OnlyRestoredTwice` (`DuplicatesOnlyRestored`) needs to know also that what is
  being written was planned for the tree that was read (`Planned`). It then
  goes through the tools: each places the active lines of a rewritten file at
  different active lines of the tree it had (`FileEmbedded`, `Sorted`, `Moved`),
  or appends lines that nothing active equals (`AppendedApart`).
* **Shared** (`SharedLemmas`): that a set of naturals with 0 and closed
  under successor is all of them, and that an inhabited set has a least member,
  stated about sets instead of predicates, so that it can be cited as a fact.
  It is derived from the pigeonhole principle of the library: were a number
  missing, a bijection would squeeze an interval into a shorter one. From it,
  that a recursion over an interval has a solution (`IterationExists`), which
  is how walks and path costs, defined by recursive functions, are reasoned
  about; and what `Listing` lists, by counting predecessors.

`TypeCorrect`, `IndexCorrect`, `SettledSlotsFrozen` and `CacheBounded` state
facts that no run lists, as they follow from the invariants.

Model-checked only:

* liveness (`CallsReturn`, `DroppedGivesAllBack`, `CallsAnswered`), which the
  prover does not handle under fairness;
* `SourceAsDocumented`: that the parser finds the records the format describes
  is what two recursions compute from every text, an induction over data. The proofs
  above use of the parser only that its rows are typed, and of the compiler that
  it refuses rows with one key (`Validated`).

## 5. Findings

1. `inflection_references`: a reference got from the older cache generation
   does not survive a rollover, against `src/grammar/inflection.h:57-60`. The
   weaker `NodesSurviveOneRollover`, which counts rollovers from the insertion,
   holds and is proved.
2. `unsaved_changes`: `update` in the interactive editor changes the entry
   before it refuses the change (`tools/cli/interactive_commands.cpp:213`), so
   `hasUnsavedChanges` (`interactive.h:77`) is false with changed entries.
   `FlagsTellTheTruth` states what holds apart from that.

What the models also show and no run lists as a violation, because it is a
comment's wording, needs a rare caller, or is promised nowhere:

* a piece may exceed `kMaxChunkBytes` by up to two bytes, against the comment
  at `src/analysis/analyzer.cpp:15`, where a boundary character straddles the
  limit; `PartsWithinLimit` says what `analyzeChunk` is given;
* a lenient parse that skips a record does not reset `field_has_non_space`
  (`src/dictionary/source_parser.cpp:349`), so that a quote in the next
  record's first field may not open it; the legacy layout skips the check for
  valid UTF-8 (`:224`);
* the record scanner (`src/dictionary/source_parser.cpp:306-321`) takes a tab
  and a comma for a separator in every text, in comments too, and does not note a
  quoted field that has ended, while `parseDelimitedRecord` knows only the real
  delimiter. Behind such a place a quote opens a field for the scanner alone: a
  comment `# foo, "bar` swallows the rows behind it up to the next quote, a TSV
  row that ends in `,"` is joined with the lines that follow, and `"" "` goes on
  into the next line. The header promises comments and RFC 4180 quoting
  (`source_parser.h:56-58`), a test literal quotes in unquoted fields
  (`tests/dictionary/source_parser_test.cpp:98`). `SourceAsDocumented` excepts
  exactly the texts with such a quote (`StrayQuote`) and holds for all others
  of the instance;
* proper nouns lose their mark when the editor saves them, and a surface that
  begins with a quote is not read back (`tools/cli/tsv_parser.cpp:18-26,
  152-168`);
* a mode change that runs out of memory leaves tokenizer and postprocessor in
  the old mode, while `mode()` reports the new one: the analyzer stores the mode
  before it allocates (`src/analysis/analyzer.cpp:134-135`), and its exception
  skips `postprocessor.setOptions` (`src/suzume.cpp:310-313`). From there the two
  recover apart. Loading a source dictionary rebuilds the tokenizer, and the
  postprocessor stays behind. Setting the same mode again returns success and
  sets the postprocessor, while the analyzer returns early and the tokenizer
  stays behind. A single call brings both back only if it changes to a different
  mode and completes. In `PartsAgreeOnMode` the variable `behind` names the parts
  that such a change has left behind and that nothing has brought up to date
  since; all others agree with `mode()`;
* successful C calls do not clear the last error (`src/suzume_c.cpp:653`),
  while `index.ts:695` says the message is empty then;
* a precompiled WebAssembly module that cannot be instantiated leaves a promise
  that never settles (`index.ts:56`), so every later `create` with it waits for
  ever; `CallsAnswered` excepts exactly these calls;
* a Python `pos_filter` iterable that closes the object it is passed to frees
  the instance behind the handle check (`__init__.py:432`);
* MCP tools: task A writes a line the compiler refuses, B writes on top of it
  while A waits, A rolls back (B's edit is gone), B's compile fails too and B
  restores its snapshot with A's bad line in it. Both were told that the changes
  were rolled back (`_dict_tools_common.py:335`), and no later compile
  succeeds. B may as well be answered "ok" with its edit undone, two compiles
  that end out of order leave the older dictionary, and a cancelled call leaves
  sources that nobody compiled (`:316-323`). `UndisturbedFilesAtomic`
  and `EditsKept` say what holds as long as no other call wrote the file, and of
  what was written. `EditsKept` rests on the tools not giving up the event loop
  between reading a file and writing it (their MeCab calls are synchronous).

## 6. Not modelled, and why

* The candidate generators, the scorer's rules, the conjugation tables, the
  normalizer and the built-in dictionary (more than 45,000 of the lines of the
  implementation, without state) are tables and pure functions of their input
  whose correctness is linguistic: the repository tests them by example. The
  models quantify over whatever they may return, and the proofs hold for all of
  it. That is why the share of the lines that the models stand for is small: the
  state of this program is in the small part.
* The binary dictionary's byte codec and writer: front coding, palettes,
  relative references, and the temporary file it renames
  (`src/dictionary/binary_dict.cpp:781`), on which two writers would collide.
  The trie and the failure points of the reader are modelled.
* The parts marked "partly" above leave out what section 2 names as data; of the
  C API the size queries and labels, of the WASM binding the memory of a single
  synchronous call, of the command line its output and options, of the MCP tools
  those that only read.
* `float` rounding, a path cost that reaches `FLT_MAX`, and texts beyond 4 GiB,
  where offsets are cut to 32 bits (`src/suzume_c.cpp:311`).

## 7. What is left of the plan

`DictionaryWriter`: `writeToFile` with two writers and a crash; the codec's
encoder and reader against each other over bounded tables. Every safety
property of the runs but `SourceAsDocumented` is a theorem.
