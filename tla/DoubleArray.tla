----------------------------- MODULE DoubleArray -----------------------------
(***************************************************************************)
(* dictionary::DoubleArray (src/src/dictionary/double_array.{h,cpp}): the  *)
(* trie that maps a surface to the index of its first entry.  The child of *)
(* a node under a byte lies at the node's base XOR that byte; a unit keeps *)
(* the byte it is entered by, but not its parent, so a base must belong to *)
(* one node only.                                                          *)
(*                                                                         *)
(* One step is one call of buildRecursive.  Its range of the sorted keys   *)
(* is the set of keys that extend the prefix it stands for.  The packed    *)
(* word of a unit is a record of its three bit fields: an inner node's     *)
(* payload is its base, a terminal's is its value + 1, which may carry     *)
(* into the leaf bit.  Bytes are small numbers, 0 the terminal label.      *)
(***************************************************************************)
EXTENDS Listing, SequencesExt

CONSTANTS
  BitXor(_, _),     \* ^ on size_t
  InitialSize,   \* kInitialSize
  BlockSize,     \* kBlockSize: bytes are below it
  PayloadMask    \* Unit::kPayloadMask

Bytes == 0..(BlockSize - 1)

\* What a power of two above the bytes makes true of XOR: it is undone by
\* doing it again, and among BlockSize numbers in a row one is a multiple of
\* BlockSize, from which XOR with a byte only leads upwards.
ASSUME DoubleArrayAssumption ==
  /\ BlockSize \in Nat \ {0}
  /\ InitialSize \in Nat /\ InitialSize >= BlockSize
  /\ PayloadMask \in Nat \ {0}
  /\ \A b \in 0..PayloadMask, c \in Bytes :
       /\ BitXor(b, c) \in Nat /\ BitXor(BitXor(b, c), c) = b /\ BitXor(b, 0) = b
       /\ \A d \in Bytes : BitXor(b, c) = BitXor(b, d) => c = d
  /\ \A n \in 0..PayloadMask : \E b \in n..(n + BlockSize - 1) :
       \A c \in Bytes : BitXor(b, c) \in Nat /\ BitXor(b, c) >= n

VARIABLES
  keys, values,   \* the arguments of build
  cells,          \* state.units
  used,           \* the positions state.used marks
  nextCheckPos,   \* state.next_check_pos
  calls,          \* the calls of buildRecursive still to come, the next first
  units           \* units_, once built

buildVars == <<keys, values, cells, used, nextCheckPos, calls>>

EmptyTrie == <<>>

EmptyUnit == [label |-> 0, payload |-> 0, hasLeaf |-> FALSE]

\* setValue: value + 1 in bits 8 to 31, of which bit 31 is the leaf bit.
UnitOfValue(v) ==
  [label |-> 0, payload |-> (v + 1) % (PayloadMask + 1), hasLeaf |-> v + 1 > PayloadMask]

\* value().
ValueOf(u) == u.payload + (IF u.hasLeaf THEN PayloadMask + 1 ELSE 0) - 1

-----------------------------------------------------------------------------
(* build *)

\* Whether byte string a sorts before b.
Before(a, b) ==
  \/ IsStrictPrefix(a, b)
  \/ \E n \in 1..Len(a) :
       /\ n <= Len(b)
       /\ SubSeq(a, 1, n - 1) = SubSeq(b, 1, n - 1)
       /\ a[n] < b[n]

\* What build accepts: values that fit, and keys that are strictly ascending,
\* not empty, and without a terminal label inside.
Buildable(ks, vs) ==
  /\ Len(ks) = Len(vs)
  /\ \A i \in DOMAIN vs : vs[i] <= PayloadMask
  /\ \A i \in DOMAIN ks : ks[i] # <<>> /\ (\A n \in DOMAIN ks[i] : ks[i][n] # 0)
  /\ \A i \in DOMAIN ks : i > 1 => Before(ks[i - 1], ks[i])

\* The keys of a call's range, by their index.
KeysUnder(prefix) == {i \in DOMAIN keys : IsPrefix(prefix, keys[i])}

\* The labels of a node's children, 0 for a key that ends here.
Children(prefix) ==
  {IF keys[i] = prefix THEN 0 ELSE keys[i][Len(prefix) + 1] : i \in KeysUnder(prefix)}

Free(p) == p \notin DOMAIN cells \/ p \notin used

\* findBase: the first base from nextCheckPos on whose cells for all children
\* are free.
FindBase(children) ==
  LET from == Max({nextCheckPos, Min(children)})
      found == {b \in from..(Cardinality(DOMAIN cells) + BlockSize - 1) :
                  \A c \in children : Free(BitXor(b, c))}
  IN IF found # {} THEN Min(found) ELSE Cardinality(DOMAIN cells)

BuildInit ==
  /\ keys = <<>> /\ values = <<>>
  /\ cells = EmptyTrie
  /\ used = {}
  /\ nextCheckPos = 0
  /\ calls = <<>>
  /\ units = EmptyTrie

\* build is called on a new trie with keys it accepts.
BeginBuild(ks, vs) ==
  /\ Buildable(ks, vs)
  /\ ks # <<>>
  /\ keys' = ks /\ values' = vs
  /\ cells' = [p \in 0..(InitialSize - 1) |-> EmptyUnit]
  /\ used' = {0}
  /\ nextCheckPos' = 0
  /\ calls' = <<[prefix |-> <<>>, at |-> 0]>>
  /\ units' = EmptyTrie

\* The call is over, one way or the other, and its BuildState gone.
EndBuild ==
  /\ keys' = <<>> /\ values' = <<>>
  /\ cells' = EmptyTrie
  /\ used' = {}
  /\ nextCheckPos' = 0
  /\ calls' = <<>>

\* The size of the array once position p is in it.
SizeFor(p) ==
  LET size == Cardinality(DOMAIN cells)
  IN IF p >= size THEN Max({p + BlockSize, 2 * size}) ELSE size

\* The array once the node of a call has its base, its children their labels
\* and a key that ends there its value.
Placed(call, children, base) ==
  LET At(c) == BitXor(base, c)
      Old(p) == IF p \in DOMAIN cells THEN cells[p] ELSE EmptyUnit
  IN [p \in 0..(SizeFor(Max({base} \cup {At(c) : c \in children})) - 1) |->
        IF p = call.at
        THEN [Old(p) EXCEPT !.payload = base, !.hasLeaf = @ \/ 0 \in children]
        ELSE IF 0 \in children /\ p = At(0)
        THEN UnitOfValue(values[CHOOSE i \in DOMAIN keys : keys[i] = call.prefix])
        ELSE IF \E c \in children : p = At(c)
        THEN [Old(p) EXCEPT !.label = CHOOSE c \in children : p = At(c)]
        ELSE Old(p)]

\* One call of buildRecursive, up to its recursive calls.
PlaceNode ==
  /\ calls # <<>>
  /\ \E call \in {Head(calls)} :
     \E children \in {Children(call.prefix)} :
     \E base \in {FindBase(children)} :
     LET inner == Ascending(children \ {0})
         Recursive(c) == [prefix |-> Append(call.prefix, c), at |-> BitXor(base, c)]
     IN /\ base <= PayloadMask
        /\ cells' = Placed(call, children, base)
        /\ used' = used \cup {BitXor(base, c) : c \in children}
        /\ nextCheckPos' = base + 1
        /\ calls' = [i \in DOMAIN inner |-> Recursive(inner[i])] \o Tail(calls)
  /\ UNCHANGED <<keys, values, units>>

\* The base does not fit: every call returns at once and build fails.
FailBuild ==
  /\ calls # <<>>
  /\ FindBase(Children(Head(calls).prefix)) > PayloadMask
  /\ EndBuild
  /\ UNCHANGED units

\* All nodes are placed: units_ becomes the array up to its last unit that is
\* not zero.
FinishBuild ==
  /\ keys # <<>> /\ calls = <<>>
  /\ units' = [p \in 0..Max({q \in DOMAIN cells : cells[q] # EmptyUnit}) |-> cells[p]]
  /\ EndBuild

-----------------------------------------------------------------------------
(* Lookup *)

NoNode == -1
Absent == -1

\* Mutant: the label of the unit is not compared.
TransitionUnlabelled(trie, node, c) ==
  LET child == BitXor(trie[node].payload, c)
  IN IF c # 0 /\ child \in DOMAIN trie THEN child ELSE NoNode

\* transition.
Transition(trie, node, c) ==
  LET child == BitXor(trie[node].payload, c)
  IN IF c # 0 /\ child \in DOMAIN trie /\ trie[child].label = c THEN child ELSE NoNode

\* tryLeaf: the value of the key that ends at a node.
Leaf(trie, node) ==
  LET leaf == trie[node].payload
  IN IF trie[node].hasLeaf /\ leaf \in DOMAIN trie THEN ValueOf(trie[leaf]) ELSE Absent

\* The node each beginning of a text leads to from the root.
Walk(trie, text) ==
  LET node[n \in 0..Len(text)] ==
        IF n = 0 THEN 0
        ELSE LET from == node[n - 1]
             IN IF from = NoNode THEN NoNode ELSE Transition(trie, from, text[n])
  IN [n \in 0..Len(text) |-> node[n]]

\* exactMatch.
ExactMatch(trie, key) ==
  LET node == Walk(trie, key)[Len(key)]
  IN IF trie = EmptyTrie \/ node = NoNode THEN Absent ELSE Leaf(trie, node)

\* commonPrefixSearch without a limit on the results: the keys that begin the
\* text, shortest first.
CommonPrefixSearch(trie, text) ==
  LET nodes == Walk(trie, text)
      found == Ascending({n \in 0..Len(text) :
                            nodes[n] # NoNode /\ Leaf(trie, nodes[n]) # Absent})
  IN IF trie = EmptyTrie \/ text = <<>> THEN <<>>
     ELSE [k \in DOMAIN found |-> [value |-> Leaf(trie, nodes[found[k]]), length |-> found[k]]]
=============================================================================
