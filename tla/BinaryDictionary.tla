-------------------------- MODULE BinaryDictionary --------------------------
(***************************************************************************)
(* dictionary::BinaryDictionary (src/src/dictionary/binary_dict.cpp) and   *)
(* the lookups it shares with CoreDictionary (dictionary_lookup.cpp): the  *)
(* surfaces of a file are grouped into keys, a trie of their own is built  *)
(* for them, the records are decoded, and trie and entries are published   *)
(* together.                                                               *)
(*                                                                         *)
(* Of an entry the surface is kept: its grammar and its lemma do not enter *)
(* lookup.  Whether the header, palette, record and lemma tables are valid *)
(* is left open: decoding them succeeds or fails.                          *)
(***************************************************************************)
EXTENDS DoubleArray

CONSTANTS
  Tables,    \* the surface tables of the files loaded
  Queries    \* the surfaces and texts looked up

VARIABLES
  pending,   \* the surfaces decoded by the load in progress, <<>> if none
  trie,      \* trie_
  entries,   \* entries_, by surface
  outcome    \* what the last load returned

dictVars == <<pending, trie, entries, outcome>>
vars == <<buildVars, units, dictVars>>

ASSUME BinaryDictionaryAssumption ==
  /\ Tables \subseteq Seq(Seq(Bytes)) /\ <<>> \notin Tables
  /\ Queries \subseteq Seq(Bytes)

\* Where a surface differs from the one before it.
FirstOfRun(table) == {i \in DOMAIN table : i = 1 \/ table[i] # table[i - 1]}

\* trie_values: the index, counted from 0, of the first entry of each run.
RunStarts(table) ==
  LET first == Ascending(FirstOfRun(table)) IN [k \in DOMAIN first |-> first[k] - 1]

Init ==
  /\ BuildInit
  /\ pending = <<>>
  /\ trie = EmptyTrie
  /\ entries = <<>>
  /\ outcome = "none"

\* loadFromMemory, up to the build: the surfaces are decoded and their runs
\* become the keys.
Load ==
  /\ pending = <<>>
  /\ \E table \in Tables :
       LET starts == RunStarts(table)
       IN /\ pending' = table
          /\ BeginBuild([k \in DOMAIN starts |-> table[starts[k] + 1]], starts)
  /\ UNCHANGED <<trie, entries, outcome>>

\* The surfaces are in no order the trie accepts, or too many: it is refused.
RefuseTable ==
  /\ pending = <<>>
  /\ \E table \in Tables :
       LET starts == RunStarts(table)
       IN ~Buildable([k \in DOMAIN starts |-> table[starts[k] + 1]], starts)
  /\ outcome' = "refused"
  /\ UNCHANGED <<buildVars, units, pending, trie, entries>>

Build ==
  /\ pending # <<>> /\ keys # <<>>
  /\ PlaceNode \/ FinishBuild
  /\ UNCHANGED dictVars

\* The trie could not be built: nothing of the load remains.
RefuseTrie ==
  /\ FailBuild
  /\ pending' = <<>>
  /\ outcome' = "refused"
  /\ UNCHANGED <<trie, entries>>

\* A table behind the surfaces is invalid.
RefuseRecords ==
  /\ pending # <<>> /\ keys = <<>>
  /\ pending' = <<>>
  /\ units' = EmptyTrie
  /\ outcome' = "refused"
  /\ UNCHANGED <<buildVars, trie, entries>>

\* Mutant: the entries stay those of the dictionary loaded before.
PublishTrieOnly ==
  /\ pending # <<>> /\ keys = <<>>
  /\ trie' = units
  /\ pending' = <<>>
  /\ units' = EmptyTrie
  /\ outcome' = "loaded"
  /\ UNCHANGED <<buildVars, entries>>

\* The two moves at the end of loadFromMemory.
Publish ==
  /\ pending # <<>> /\ keys = <<>>
  /\ trie' = units
  /\ entries' = pending
  /\ pending' = <<>>
  /\ units' = EmptyTrie
  /\ outcome' = "loaded"
  /\ UNCHANGED buildVars

Next == Load \/ RefuseTable \/ Build \/ RefuseTrie \/ RefuseRecords \/ Publish

\* A load is one synchronous call: once begun it runs to its end.
Spec ==
  Init /\ [][Next]_vars /\ WF_vars(Build \/ RefuseTrie \/ RefuseRecords \/ Publish)

-----------------------------------------------------------------------------
\* The run of entries that share the surface of the one a trie value names.
RunFrom(value) ==
  IF value \notin 0..(Len(entries) - 1) THEN {}
  ELSE {i \in value..(Len(entries) - 1) :
          \A j \in value..i : entries[j + 1] = entries[value + 1]}

\* lookupExactByTrie, for any part of speech: the entries of the run it scans.
LookupExact(q) ==
  {i \in RunFrom(ExactMatch(trie, q)) : entries[ExactMatch(trie, q) + 1] = q}

\* lookupByTrie: the entries whose surface begins the text, with its length.
Lookup(text) ==
  LET found == CommonPrefixSearch(trie, text)
  IN UNION {{<<i, found[k].length>> : i \in RunFrom(found[k].value)} : k \in DOMAIN found}

-----------------------------------------------------------------------------
TypeOK ==
  /\ pending \in Tables \cup {<<>>}
  /\ entries \in Tables \cup {<<>>}
  /\ outcome \in {"none", "loaded", "refused"}
  /\ DOMAIN trie \subseteq Nat
  /\ \A p \in DOMAIN trie :
       /\ trie[p].label \in Bytes
       /\ trie[p].payload \in 0..PayloadMask
       /\ trie[p].hasLeaf \in BOOLEAN
  /\ used \subseteq DOMAIN cells
  /\ nextCheckPos \in 0..(PayloadMask + 1)

\* Prefix search and exact match agree: a text finds the entries of exactly
\* those of its prefixes that are surfaces, also where the text runs on past
\* a surface, into another key or into a byte no key has.
PrefixSearchExact ==
  pending = <<>> =>
    \A text \in Queries :
      Lookup(text) =
        UNION {{<<i, n>> : i \in LookupExact(SubSeq(text, 1, n))} : n \in 1..Len(text)}

\* Lookups answer as the abstract index does, at every step of every load: all
\* entries of a surface and none of another one, and a load that fails, at
\* whatever point, leaves every answer as it was.
Index == INSTANCE SurfaceIndex WITH
  loading <- pending,
  answers <- [q \in Queries |-> LookupExact(q)]

AnswersLikeIndex == Index!Spec

=============================================================================
