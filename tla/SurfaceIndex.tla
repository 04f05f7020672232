---------------------------- MODULE SurfaceIndex ----------------------------
(***************************************************************************)
(* What a loaded dictionary promises its readers, with no trie in it: a    *)
(* surface finds its own entries, all of them and no others; a load        *)
(* replaces every answer at once or changes none.                          *)
(***************************************************************************)
EXTENDS Integers, Sequences

CONSTANTS
  Queries,   \* the surfaces asked for
  Tables     \* the entry tables loaded: the surface of each entry

VARIABLES
  loading,   \* the table being loaded, <<>> if none
  answers,   \* the ids of the entries found for each query
  outcome    \* what the last load returned

vars == <<loading, answers, outcome>>

\* All entries of a table that have surface q.  Ids count from 0.
EntriesOf(table, q) == {i - 1 : i \in {j \in DOMAIN table : table[j] = q}}

Init ==
  /\ loading = <<>>
  /\ answers = [q \in Queries |-> {}]
  /\ outcome = "none"

Start ==
  /\ loading = <<>>
  /\ loading' \in Tables
  /\ UNCHANGED <<answers, outcome>>

Succeed ==
  /\ loading # <<>>
  /\ answers' = [q \in Queries |-> EntriesOf(loading, q)]
  /\ loading' = <<>>
  /\ outcome' = "loaded"

\* A load fails, at once or later on.
Refuse ==
  /\ loading' = <<>>
  /\ outcome' = "refused"
  /\ UNCHANGED answers

Next == Start \/ Succeed \/ Refuse

Spec == Init /\ [][Next]_vars
=============================================================================
