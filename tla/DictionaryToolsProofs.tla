------------------------ MODULE DictionaryToolsProofs ------------------------
(***************************************************************************)
(* What is proved of the dictionary tools: their types, that what a call   *)
(* answers is true of the files it wrote and nobody else did, that calls   *)
(* which run at once lose no edit, and that they bring no duplicates.      *)
(*                                                                         *)
(* The first part is about DictionaryEdits alone: what a tool decides to   *)
(* write are whole files of the dictionary it will compile, each once, and *)
(* whichever way the decision falls the tree after it is the same.         *)
(***************************************************************************)
EXTENDS DictionaryTools, SharedLemmas, SequenceTheorems

\* A decision that the rest of a call can carry out.
PlanFits(p, r) ==
  /\ p.verdict \in {"refused", "ok", "write"} /\ p.edits \in Seq(Edits)
  /\ p.verdict # "write" => p.edits = <<>>
  /\ \A i, j \in DOMAIN p.edits : p.edits[i].file = p.edits[j].file => i = j
  /\ \A i \in DOMAIN p.edits : p.edits[i].file \in SourceSet(DictionaryOf(r))

\* The lines of a file that is there, or none.
LEMMA TextTyped ==
  ASSUME NEW s \in Trees, NEW f \in Files
  PROVE  /\ Text(s, f) \in Seq(Lines)
         /\ Len(Text(s, f)) \in Nat /\ DOMAIN Text(s, f) = 1..Len(Text(s, f))
         /\ \A i \in DOMAIN Text(s, f) : Text(s, f)[i] \in Lines
<1>1. Text(s, f) \in Seq(Lines)
  <2>1. s[f] \in Seq(Lines) \cup {Absent}
    BY DEF Trees
  <2>2. <<>> \in Seq(Lines)
    OBVIOUS
  <2> QED BY <2>1, <2>2 DEF Text
<1> DEFINE text == Text(s, f)
<1> HIDE DEF text
<1>2. text \in Seq(Lines) => Len(text) \in Nat /\ DOMAIN text = 1..Len(text)
                             /\ \A i \in DOMAIN text : text[i] \in Lines
  OBVIOUS
<1> QED BY <1>1, <1>2 DEF text

\* What is left when some lines go is lines.
LEMMA WithoutTyped ==
  ASSUME NEW s \in Trees, NEW f \in Files, NEW gone
  PROVE  Without(s, f, gone) \in Seq(Lines)
<1>1. Text(s, f) \in Seq(Lines)
  BY TextTyped
<1>2. DOMAIN Text(s, f) \ gone \in SUBSET (DOMAIN Text(s, f))
  OBVIOUS
<1>3. Pick(Text(s, f), DOMAIN Text(s, f) \ gone) \in Seq(Lines)
  BY <1>1, <1>2, PickKeeps, Zenon
<1> QED BY <1>3 DEF Without

\* Picking from a sequence without repetitions repeats nothing.
LEMMA PickInjective ==
  ASSUME NEW T, NEW s \in Seq(T), IsInjective(s), NEW P \in SUBSET (DOMAIN s)
  PROVE  IsInjective(Pick(s, P))
<1> DEFINE L == Ascending(P)
           picked == [n \in DOMAIN L |-> s[L[n]]]
<1>1. P \in SUBSET Int /\ IsFiniteSet(P)
  <2>1. Len(s) \in Nat /\ DOMAIN s = 1..Len(s)
    OBVIOUS
  <2>2. IsFiniteSet(1..Len(s)) /\ P \in SUBSET (1..Len(s))
    BY <2>1, FS_Interval
  <2> QED BY <2>2, FS_Subset
<1>2. /\ L \in Seq(P) /\ DOMAIN L = 1..Cardinality(P) /\ Cardinality(P) \in Nat
      /\ \A m, n \in DOMAIN L : m < n => L[m] < L[n]
  BY <1>1, AscendingLists
<1> HIDE DEF L
<1>3. \A n \in DOMAIN L : L[n] \in P /\ L[n] \in Int
  BY <1>1, <1>2
<1>4. \A m, n \in DOMAIN L : m # n => L[m] # L[n]
  <2> SUFFICES ASSUME NEW m \in DOMAIN L, NEW n \in DOMAIN L, m # n PROVE L[m] # L[n]
    OBVIOUS
  <2>1. m < n \/ n < m
    BY <1>2
  <2>2. L[m] < L[n] \/ L[n] < L[m]
    BY <1>2, <2>1
  <2> QED BY <1>3, <2>2
<1>5. IsInjective(picked)
  <2>1. \A m, n \in DOMAIN L : picked[m] = picked[n] => L[m] = L[n]
    BY <1>3 DEF IsInjective
  <2>2. DOMAIN picked = DOMAIN L
    OBVIOUS
  <2> HIDE DEF picked
  <2> QED BY <1>4, <2>1, <2>2 DEF IsInjective
<1> QED BY <1>5 DEF Pick, L, picked

\* A sequence has finitely many elements.
LEMMA ToSetFinite ==
  ASSUME NEW T, NEW s \in Seq(T)
  PROVE  IsFiniteSet(ToSet(s))
<1>1. Len(s) \in Nat /\ DOMAIN s = 1..Len(s) /\ s \in [1..Len(s) -> T]
  OBVIOUS
<1>2. \A n \in 1..Len(s) : s[n] \in ToSet(s)
  BY <1>1 DEF ToSet
<1>3. \A x \in ToSet(s) : \E n \in 1..Len(s) : s[n] = x
  BY <1>1 DEF ToSet
<1>4. s \in Surjection(1..Len(s), ToSet(s))
  BY <1>1, <1>2, <1>3 DEF Surjection
<1>5. IsFiniteSet(1..Len(s))
  BY <1>1, FS_Interval
<1> QED BY <1>4, <1>5, FS_Surjection

\* One write of a whole file fits.
LEMMA OneEditFits ==
  ASSUME NEW r, NEW f \in Files, f \in SourceSet(DictionaryOf(r)), NEW lines \in Seq(Lines)
  PROVE  PlanFits(Write(<<Edit(f, lines)>>), r)
<1> DEFINE e == Edit(f, lines)
<1>1. e \in Edits /\ e.file = f
  BY DEF Edits, Edit
<1> HIDE DEF e
<1> DEFINE es == <<e>>
<1>2. es \in Seq(Edits) /\ DOMAIN es = {1} /\ es[1] = e
  BY <1>1
<1>3. Write(es).verdict = "write" /\ Write(es).edits = es
  BY DEF Write
<1> HIDE DEF es
<1>4. PlanFits(Write(es), r)
  BY <1>1, <1>2, <1>3 DEF PlanFits
<1> QED BY <1>4 DEF es, e

\* So do the writes that strike entries out of different files.
LEMMA StrikeFits ==
  ASSUME NEW s \in Trees, NEW gone, NEW r,
         NEW order \in Seq(Files), IsInjective(order),
         \A n \in DOMAIN order : order[n] \in SourceSet(DictionaryOf(r))
  PROVE  /\ PlanFits(Write(Strike(s, gone, order)), r)
         /\ DOMAIN Strike(s, gone, order) = DOMAIN order
         /\ \A n \in DOMAIN order : Strike(s, gone, order)[n] =
              Edit(order[n], Without(s, order[n],
                     {i \in DOMAIN Text(s, order[n]) : <<order[n], i>> \in gone}))
<1> DEFINE lines(n) == Without(s, order[n], {i \in DOMAIN Text(s, order[n]) : <<order[n], i>> \in gone})
           es == Strike(s, gone, order)
<1>1. Len(order) \in Nat /\ DOMAIN order = 1..Len(order) /\ \A n \in DOMAIN order : order[n] \in Files
  OBVIOUS
<1>2. \A n \in DOMAIN order : lines(n) \in Seq(Lines)
  BY <1>1, WithoutTyped
<1>3. DOMAIN es = DOMAIN order /\ \A n \in DOMAIN order : es[n] = Edit(order[n], lines(n))
  BY DEF Strike
<1>4. \A n \in DOMAIN order : es[n] \in Edits /\ es[n].file = order[n]
  <2> HIDE DEF lines, es
  <2> QED BY <1>1, <1>2, <1>3 DEF Edit, Edits
<1>5. es \in Seq(Edits)
  <2>1. es = [n \in 1..Len(order) |-> es[n]]
    BY <1>1 DEF Strike
  <2> HIDE DEF es
  <2>2. es \in [1..Len(order) -> Edits]
    BY <1>1, <1>4, <2>1
  <2> QED BY <1>1, <2>2
<1>6. PlanFits(Write(es), r)
  <2> HIDE DEF es, lines
  <2>1. Write(es).verdict = "write" /\ Write(es).edits = es
    BY DEF Write
  <2>2. \A i, j \in DOMAIN es : es[i].file = es[j].file => i = j
    BY <1>3, <1>4 DEF IsInjective
  <2>3. \A i \in DOMAIN es : es[i].file \in SourceSet(DictionaryOf(r))
    BY <1>3, <1>4
  <2> QED BY <1>5, <2>1, <2>2, <2>3 DEF PlanFits
<1> QED BY <1>3, <1>6 DEF lines, es

\* Nor is there anything to go wrong when nothing is written.
LEMMA NothingFits ==
  ASSUME NEW r PROVE PlanFits(Refuse, r) /\ PlanFits(NothingToDo, r)
<1>1. <<>> \in Seq(Edits) /\ DOMAIN <<>> = {}
  OBVIOUS
<1> QED BY <1>1 DEF PlanFits, Refuse, NothingToDo

\* The entries a batch adds are lines.
LEMMA FreshTyped ==
  ASSUME NEW s, NEW r, r.words \in Seq(Words), \A w \in Words : Entry(w, r.kind) \in Lines
  PROVE  Fresh(s, r) \in Seq(Lines)
<1> DEFINE P == {n \in DOMAIN r.words :
                   /\ ~Has(s, r.words[n], r.kind) /\ ~Unwanted(r.words[n], r)
                   /\ \A m \in 1..n - 1 : r.words[m] # r.words[n]}
           picked == Pick(r.words, P)
<1>1. P \in SUBSET (DOMAIN r.words)
  OBVIOUS
<1> HIDE DEF P
<1>2. picked \in Seq(Words)
  BY <1>1, PickKeeps
<1> HIDE DEF picked
<1>3. Entries(picked, r.kind) \in Seq(Lines)
  <2>1. Len(picked) \in Nat /\ DOMAIN picked = 1..Len(picked) /\ \A n \in DOMAIN picked : picked[n] \in Words
    BY <1>2
  <2>2. Entries(picked, r.kind) \in [1..Len(picked) -> Lines]
    BY <2>1 DEF Entries
  <2> QED BY <2>1, <2>2
<1> QED BY <1>3 DEF Fresh, picked, P

\* The files the tools write to belong to the dictionary they compile.
LEMMA FilesOfDictionaries ==
  /\ CoreFiles \in Seq(Files) /\ UserFiles \in Seq(Files)
  /\ ToSet(CoreFiles) \subseteq Files /\ ToSet(UserFiles) \subseteq Files
  /\ \A n \in DOMAIN CoreFiles : CoreFiles[n] \in ToSet(CoreFiles)
  /\ \A r : r.tool = "dict_validate" \/ r.user = "" \/ r.user \in ToSet(CoreFiles) =>
       DictionaryOf(r) = "core" /\ SourceSet(DictionaryOf(r)) = ToSet(CoreFiles)
  /\ \A r : r.tool # "dict_validate" /\ r.user \in ToSet(UserFiles) =>
       DictionaryOf(r) = "user" /\ SourceSet(DictionaryOf(r)) = ToSet(UserFiles)
<1>1. ToSet(CoreFiles) \subseteq Files /\ ToSet(UserFiles) \subseteq Files
  BY DEF Files
<1>2. /\ CoreFiles \in Seq(ToSet(CoreFiles)) /\ UserFiles \in Seq(ToSet(UserFiles))
      /\ ToSet(CoreFiles) \cap ToSet(UserFiles) = {} /\ "" \notin Files
  BY EditsAssumption
<1>3. CoreFiles \in Seq(Files) /\ UserFiles \in Seq(Files)
  <2> DEFINE C == ToSet(CoreFiles)
             U == ToSet(UserFiles)
  <2>1. CoreFiles \in Seq(C) /\ UserFiles \in Seq(U) /\ C \subseteq Files /\ U \subseteq Files
    BY <1>1, <1>2
  <2> HIDE DEF C, U
  <2> QED BY <2>1
<1>4. \A n \in DOMAIN CoreFiles : CoreFiles[n] \in ToSet(CoreFiles)
  BY DEF ToSet
<1>5. \A r : r.user \in ToSet(UserFiles) => r.user # "" /\ r.user \notin ToSet(CoreFiles)
  BY <1>1, <1>2
<1>6. \A r : r.tool = "dict_validate" \/ r.user = "" \/ r.user \in ToSet(CoreFiles) =>
        DictionaryOf(r) = "core" /\ SourceSet(DictionaryOf(r)) = ToSet(CoreFiles)
  BY DEF DictionaryOf, SourceSet, Sources
<1>7. \A r : r.tool # "dict_validate" /\ r.user \in ToSet(UserFiles) =>
        DictionaryOf(r) = "user" /\ SourceSet(DictionaryOf(r)) = ToSet(UserFiles)
  BY <1>5 DEF DictionaryOf, SourceSet, Sources
<1> QED BY <1>1, <1>3, <1>4, <1>6, <1>7

\* A sequence of one element.
LEMMA OneElement ==
  ASSUME NEW S, NEW x \in S
  PROVE  /\ <<x>> \in Seq(S) /\ IsInjective(<<x>>) /\ DOMAIN <<x>> = {1}
         /\ <<x>>[1] = x /\ ToSet(<<x>>) = {x}
<1> DEFINE q == <<x>>
<1>1. q \in Seq(S) /\ DOMAIN q = {1} /\ q[1] = x
  OBVIOUS
<1> HIDE DEF q
<1>2. ToSet(q) = {x} /\ IsInjective(q)
  BY <1>1 DEF ToSet, IsInjective
<1> QED BY <1>1, <1>2 DEF q

\* Where a request that names a user file or none looks for entries.
LEMMA ScopeOfRequest ==
  ASSUME NEW r, r.tool # "dict_validate", r.user \in ToSet(UserFiles) \cup {""}
  PROVE  /\ Scope(r) \in Seq(Files) /\ IsInjective(Scope(r))
         /\ \A n \in DOMAIN Scope(r) : Scope(r)[n] \in SourceSet(DictionaryOf(r))
         /\ ToSet(Scope(r)) \subseteq Files
         /\ ToSet(Scope(r)) \subseteq SourceSet(DictionaryOf(r))
<1>1. CASE r.user = ""
  <2>1. Scope(r) = CoreFiles /\ SourceSet(DictionaryOf(r)) = ToSet(CoreFiles)
    BY <1>1, FilesOfDictionaries DEF Scope
  <2> QED BY <2>1, EditsAssumption, FilesOfDictionaries
<1>2. CASE r.user # ""
  <2>1. r.user \in ToSet(UserFiles) /\ r.user \in Files
        /\ SourceSet(DictionaryOf(r)) = ToSet(UserFiles)
    BY <1>2, FilesOfDictionaries
  <2>2. Scope(r) = <<r.user>>
    BY <1>2 DEF Scope
  <2> DEFINE u == r.user
  <2>3. u \in Files => /\ <<u>> \in Seq(Files) /\ IsInjective(<<u>>) /\ DOMAIN <<u>> = {1}
                       /\ <<u>>[1] = u /\ ToSet(<<u>>) = {u}
    BY OneElement, Zenon
  <2> HIDE DEF u
  <2>4. u \in ToSet(UserFiles) /\ u \in Files /\ Scope(r) = <<u>>
    BY <2>1, <2>2 DEF u
  <2> QED BY <2>1, <2>3, <2>4
<1> QED BY <1>1, <1>2

\* The tools that add write one file: the one the request is for.
LEMMA AddersFit ==
  ASSUME NEW s \in Trees, NEW r \in Askable, r.tool \in {"dict_add", "dict_bulk_add"},
         NEW p \in Plans(s, r)
  PROVE  PlanFits(p, r)
<1>1. /\ r.kind \in Kinds /\ r.user \in ToSet(UserFiles) \cup {""} /\ r.words \in Seq(Words)
      /\ r.tool = "dict_add" => r.word \in Words
  BY DEF Askable
<1>2. Target(r) \in Files /\ Target(r) \in SourceSet(DictionaryOf(r))
  <2>1. CASE r.user = ""
    <3>1. CoreFile[r.kind] \in ToSet(CoreFiles)
      BY <1>1, EditsAssumption
    <3> QED BY <2>1, <3>1, FilesOfDictionaries DEF Target
  <2>2. CASE r.user # ""
    BY <1>1, <2>2, FilesOfDictionaries DEF Target
  <2> QED BY <2>1, <2>2
<1>3. Text(s, Target(r)) \in Seq(Lines)
  BY <1>2, TextTyped
<1>4. \A w \in Words : Entry(w, r.kind) \in Lines
  BY <1>1 DEF Entry, Lines
<1>5. CASE r.tool = "dict_add"
  <2>1. p \in AddEntry(s, r)
    BY <1>5 DEF Plans
  <2>2. CASE p = Refuse
    BY <2>2, NothingFits
  <2>3. CASE p # Refuse
    <3> DEFINE lines == Append(Text(s, Target(r)), Entry(r.word, r.kind))
    <3>1. p = Write(<<Edit(Target(r), lines)>>)
      BY <2>1, <2>3 DEF AddEntry
    <3>2. lines \in Seq(Lines)
      <4> DEFINE e == Entry(r.word, r.kind)
                 text == Text(s, Target(r))
      <4>1. e \in Lines /\ text \in Seq(Lines)
        BY <1>1, <1>3, <1>4, <1>5
      <4> HIDE DEF e, text
      <4>2. Append(text, e) \in Seq(Lines)
        BY <4>1
      <4> QED BY <4>2 DEF e, text
    <3> HIDE DEF lines
    <3> QED BY <1>2, <3>1, <3>2, OneEditFits
  <2> QED BY <2>2, <2>3
<1>6. CASE r.tool = "dict_bulk_add"
  <2>1. p \in BulkAdd(s, r)
    BY <1>6 DEF Plans
  <2>2. CASE p = Refuse \/ p = NothingToDo
    BY <2>2, NothingFits
  <2>3. CASE p # Refuse /\ p # NothingToDo
    <3> DEFINE lines == Text(s, Target(r)) \o Fresh(s, r)
    <3>1. p = Write(<<Edit(Target(r), lines)>>)
      BY <2>1, <2>3 DEF BulkAdd
    <3>2. Fresh(s, r) \in Seq(Lines)
      BY <1>1, <1>4, FreshTyped
    <3>3. lines \in Seq(Lines)
      BY <1>3, <3>2, ConcatProperties
    <3> HIDE DEF lines
    <3> QED BY <1>2, <3>1, <3>3, OneEditFits
  <2> QED BY <2>2, <2>3
<1> QED BY <1>5, <1>6

\* The tools that look for one entry write the file that has it.
LEMMA SelectorsFit ==
  ASSUME NEW s \in Trees, NEW r \in Askable,
         r.tool \in {"dict_remove", "dict_disable", "dict_enable"},
         NEW p \in Plans(s, r)
  PROVE  PlanFits(p, r)
<1>1. r.user \in ToSet(UserFiles) \cup {""} /\ r.tool # "dict_validate"
  BY DEF Askable
<1>2. ToSet(Scope(r)) \subseteq Files /\ ToSet(Scope(r)) \subseteq SourceSet(DictionaryOf(r))
  BY <1>1, ScopeOfRequest
<1>3. CASE p = Refuse
  BY <1>3, NothingFits
<1>4. CASE p # Refuse /\ r.tool = "dict_remove"
  <2> DEFINE candidates == {c \in Places(s, ToSet(Scope(r))) : Asked(LineAt(s, c), r)}
  <2>1. p \in RemoveEntry(s, r)
    BY <1>4 DEF Plans
  <2>2. PICK c \in candidates : p = Write(<<Edit(c[1], Without(s, c[1], {c[2]}))>>)
    BY <1>4, <2>1 DEF RemoveEntry
  <2>3. c[1] \in ToSet(Scope(r))
    BY DEF Places
  <2>4. Without(s, c[1], {c[2]}) \in Seq(Lines)
    BY <1>2, <2>3, WithoutTyped
  <2> QED BY <1>2, <2>2, <2>3, <2>4, OneEditFits
<1>5. CASE p # Refuse /\ r.tool \in {"dict_disable", "dict_enable"}
  <2> DEFINE off == r.tool = "dict_enable"
             hits(f) == {j \in DOMAIN Text(s, f) : Text(s, f)[j].off = off /\ Asked(Text(s, f)[j], r)}
             matches == UNION {{<<f, i>> : i \in hits(f)} : f \in ToSet(Scope(r))}
  <2>1. p \in Toggle(s, r)
    BY <1>5 DEF Plans
  <2>2. PICK c \in matches : p = Write(<<Edit(c[1], [Text(s, c[1]) EXCEPT ![c[2]].off = ~off])>>)
    BY <1>5, <2>1 DEF Toggle
  <2>3. c[1] \in ToSet(Scope(r)) /\ c[2] \in DOMAIN Text(s, c[1])
    OBVIOUS
  <2> DEFINE f == c[1]
             i == c[2]
             text == Text(s, f)
             lines == [text EXCEPT ![i].off = ~off]
  <2>4. f \in Files /\ f \in SourceSet(DictionaryOf(r)) /\ i \in DOMAIN text
    BY <1>2, <2>3
  <2>5. text \in Seq(Lines)
    BY <2>4, TextTyped
  <2>6. lines \in Seq(Lines)
    <3> DEFINE l == text[i]
               b == ~off
               new == [l EXCEPT !.off = b]
    <3>1. b \in BOOLEAN
      OBVIOUS
    <3> HIDE DEF text, b, i
    <3>2. l \in Lines
      BY <2>4, <2>5
    <3> HIDE DEF l
    <3>3. new \in Lines
      BY <3>1, <3>2 DEF Lines
    <3> HIDE DEF new
    <3>4. [text EXCEPT ![i] = new] \in Seq(Lines)
      BY <2>4, <2>5, <3>3
    <3>5. lines = [text EXCEPT ![i] = new]
      BY DEF new, l, b
    <3> QED BY <3>4, <3>5
  <2>7. p = Write(<<Edit(f, lines)>>)
    BY <2>2
  <2> HIDE DEF f, lines
  <2> QED BY <2>4, <2>6, <2>7, OneEditFits
<1> QED BY <1>3, <1>4, <1>5

\* dict_bulk_move writes two different user files.
LEMMA MoveFits ==
  ASSUME NEW s \in Trees, NEW r \in Askable, r.tool = "dict_bulk_move",
         NEW p \in Plans(s, r)
  PROVE  PlanFits(p, r)
<1>1. r.user \in ToSet(UserFiles) /\ r.to \in ToSet(UserFiles) /\ r.tool # "dict_validate"
  BY DEF Askable
<1>2. /\ r.user \in Files /\ r.to \in Files
      /\ r.user \in SourceSet(DictionaryOf(r)) /\ r.to \in SourceSet(DictionaryOf(r))
  BY <1>1, FilesOfDictionaries
<1> DEFINE moved == {i \in Active(s, r.user) :
                       r.words = <<>> \/ Text(s, r.user)[i].word \in ToSet(r.words)}
           e1 == Edit(r.user, Without(s, r.user, moved))
           e2 == Edit(r.to, Text(s, r.to) \o Pick(Text(s, r.user), moved))
<1>3. p \in Move(s, r)
  BY DEF Plans
<1>4. CASE p = Refuse \/ p = NothingToDo
  BY <1>4, NothingFits
<1>5. CASE p # Refuse /\ p # NothingToDo
  <2>1. p = Write(<<e1, e2>>) /\ r.user # r.to
    BY <1>3, <1>5 DEF Move
  <2>2. e1 \in Edits /\ e1.file = r.user
    <3>1. Without(s, r.user, moved) \in Seq(Lines)
      BY <1>2, WithoutTyped
    <3> QED BY <1>2, <3>1 DEF Edit, Edits
  <2>3. e2 \in Edits /\ e2.file = r.to
    <3>1. Text(s, r.to) \in Seq(Lines) /\ Text(s, r.user) \in Seq(Lines)
      BY <1>2, TextTyped
    <3>2. moved \in SUBSET (DOMAIN Text(s, r.user))
      BY DEF Active
    <3> HIDE DEF moved
    <3>3. Pick(Text(s, r.user), moved) \in Seq(Lines)
      BY <3>1, <3>2, PickKeeps
    <3>4. Text(s, r.to) \o Pick(Text(s, r.user), moved) \in Seq(Lines)
      BY <3>1, <3>3, ConcatProperties
    <3> QED BY <1>2, <3>4 DEF Edit, Edits
  <2> HIDE DEF e1, e2
  <2> DEFINE es == <<e1, e2>>
  <2>4. es \in Seq(Edits) /\ DOMAIN es = {1, 2} /\ es[1] = e1 /\ es[2] = e2
    BY <2>2, <2>3
  <2> HIDE DEF es
  <2>5. p.verdict = "write" /\ p.edits = es
    BY <2>1 DEF Write, es
  <2> QED BY <1>2, <2>1, <2>2, <2>3, <2>4, <2>5, SMTT(30) DEF PlanFits
<1> QED BY <1>4, <1>5

\* dict_remove_matching writes the files of its scope that have a match.
LEMMA RemoveMatchingFits ==
  ASSUME NEW s \in Trees, NEW r \in Askable, r.tool = "dict_remove_matching",
         NEW p \in Plans(s, r)
  PROVE  PlanFits(p, r)
<1>1. r.user \in ToSet(UserFiles) \cup {""} /\ r.tool # "dict_validate"
  BY DEF Askable
<1> DEFINE hits == {h \in Places(s, ToSet(Scope(r))) : LineAt(s, h).word \in ToSet(r.words)}
           P == {n \in DOMAIN Scope(r) : \E h \in hits : h[1] = Scope(r)[n]}
           touched == Pick(Scope(r), P)
<1>2. p \in RemoveMatching(s, r)
  BY DEF Plans
<1>3. CASE p = NothingToDo
  BY <1>3, NothingFits
<1>4. CASE p # NothingToDo
  <2>1. p = Write(Strike(s, hits, touched))
    BY <1>2, <1>4 DEF RemoveMatching
  <2>2. P \in SUBSET (DOMAIN Scope(r))
    OBVIOUS
  <2> HIDE DEF P, hits
  <2>3. touched \in Seq(Files) /\ IsInjective(touched)
    BY <1>1, <2>2, ScopeOfRequest, PickKeeps, PickInjective
  <2>4. \A n \in DOMAIN touched : touched[n] \in SourceSet(DictionaryOf(r))
    <3>1. \A n \in DOMAIN touched : \E i \in P : touched[n] = Scope(r)[i]
      <4>1. Scope(r) \in Seq(Files)
        BY <1>1, ScopeOfRequest
      <4> QED BY <2>2, <4>1, PickKeeps, Zenon
    <3> QED BY <1>1, <2>2, <3>1, ScopeOfRequest
  <2> HIDE DEF touched
  <2> QED BY <2>1, <2>3, <2>4, StrikeFits
<1> QED BY <1>3, <1>4

\* dict_sort writes the file it is asked to sort.
LEMMA SortFits ==
  ASSUME NEW s \in Trees, NEW r \in Askable, r.tool = "dict_sort",
         NEW p \in Plans(s, r)
  PROVE  PlanFits(p, r)
<1> DEFINE text == Text(s, r.user)
           rank(i) == Rank[<<text[i].word, text[i].kind>>]
           header == {i \in DOMAIN text : \A h \in 1..i : text[h].off}
           first == {i \in Active(s, r.user) : \A h \in 1..i - 1 : text[h] # text[i]}
           before == {q \in first \X first :
                        \/ rank(q[1]) < rank(q[2])
                        \/ rank(q[1]) = rank(q[2]) /\ q[1] < q[2]}
           sorted == Listed(first, before)
           body == [n \in DOMAIN sorted |-> text[sorted[n]]]
           rest == Without(s, r.user, Active(s, r.user) \cup header)
<1>1. r.user \in Files /\ r.user \in SourceSet(DictionaryOf(r)) /\ r.tool # "dict_validate"
  <2>1. r.user \in Files
    BY DEF Askable
  <2>2. r.user \in ToSet(CoreFiles) \/ r.user \in ToSet(UserFiles)
    BY <2>1 DEF Files
  <2> QED BY <2>1, <2>2, FilesOfDictionaries
<1>2. p \in Sort(s, r)
  BY DEF Plans
<1>3. CASE p = Refuse
  BY <1>3, NothingFits
<1>4. CASE p # Refuse
  <2>1. p = Write(<<Edit(r.user, Pick(text, header) \o body \o rest)>>)
    BY <1>2, <1>4 DEF Sort
  <2>2. /\ text \in Seq(Lines) /\ Len(text) \in Nat /\ DOMAIN text = 1..Len(text)
        /\ \A i \in DOMAIN text : text[i] \in Lines
    BY <1>1, TextTyped
  <2>3. header \in SUBSET (DOMAIN text)
    OBVIOUS
  <2>4. first \in SUBSET (DOMAIN text)
    BY DEF Active
  <2>5. rest \in Seq(Lines)
    BY <1>1, WithoutTyped
  <2> HIDE DEF header, text, rest
  <2>6. Pick(text, header) \in Seq(Lines)
    BY <2>2, <2>3, PickKeeps
  <2>7. \A i \in first : rank(i) \in Int /\ i \in Int
    <3> TAKE i \in first
    <3> HIDE DEF first
    <3>1. i \in DOMAIN text /\ text[i] \in Lines
      BY <2>2, <2>4
    <3>2. <<text[i].word, text[i].kind>> \in Words \X Kinds
      BY <3>1 DEF Lines
    <3> DEFINE e == <<text[i].word, text[i].kind>>
    <3> HIDE DEF e
    <3>3. Rank[e] \in Int
      BY <3>2, EditsAssumption DEF e
    <3> QED BY <2>2, <3>1, <3>3 DEF e
  <2>8. IsFiniteSet(first)
    <3> HIDE DEF first
    <3>1. IsFiniteSet(1..Len(text))
      BY <2>2, FS_Interval
    <3> QED BY <2>2, <2>4, <3>1, FS_Subset
  <2> HIDE DEF rank, first
  <2>9. \A i, j \in first :
          <<i, j>> \in before <=> rank(i) < rank(j) \/ (rank(i) = rank(j) /\ i < j)
    OBVIOUS
  <2> HIDE DEF before
  <2>10. Orders(first, before)
    BY <2>7, <2>9 DEF Orders
  <2>11. Cardinality(first) \in Nat /\ sorted \in [1..Cardinality(first) -> first]
    BY <2>8, <2>10, ListedInOrder
  <2> HIDE DEF sorted
  <2>12. body \in Seq(Lines)
    <3>1. body \in [1..Cardinality(first) -> Lines]
      BY <2>2, <2>4, <2>11
    <3> HIDE DEF body
    <3> QED BY <2>11, <3>1
  <2> HIDE DEF body
  <2>13. Pick(text, header) \o body \o rest \in Seq(Lines)
    <3>1. Pick(text, header) \o body \in Seq(Lines)
      BY <2>6, <2>12, ConcatProperties
    <3> QED BY <2>5, <3>1, ConcatProperties
  <2> QED BY <1>1, <2>1, <2>13, OneEditFits
<1> QED BY <1>3, <1>4

\* dict_validate writes core files, every one with a wrong entry, in any order.
LEMMA ValidateFits ==
  ASSUME NEW s \in Trees, NEW r \in Askable, r.tool = "dict_validate",
         NEW p \in Plans(s, r)
  PROVE  /\ PlanFits(p, r)
         /\ \A q \in Plans(s, r) : Done(p.edits, s) = Done(q.edits, s)
<1> DEFINE core == Places(s, ToSet(CoreFiles))
           wrong == {c \in core :
                       \/ LineAt(s, c).word \in Conjugated /\ LineAt(s, c).kind \notin Unconjugated
                       \/ \E q \in core : Precedes(q, c) /\ Same(LineAt(s, q), LineAt(s, c))}
           S == {c[1] : c \in wrong}
           lines(f) == Without(s, f, {i \in DOMAIN Text(s, f) : <<f, i>> \in wrong})
           Outcome(f) == IF f \in S THEN lines(f) ELSE s[f]
<1>1. S \subseteq ToSet(CoreFiles)
  BY DEF Places
<1>2. \A q \in Plans(s, r) :
        \/ Plans(s, r) = {NothingToDo}
        \/ \E order \in SetToSeqs(S) : q = Write(Strike(s, wrong, order))
  BY DEF Plans, Validate
<1>3. IsFiniteSet(S) /\ Cardinality(S) \in Nat
  <2>4. IsFiniteSet(ToSet(CoreFiles))
    BY FilesOfDictionaries, ToSetFinite
  <2> HIDE DEF S
  <2> QED BY <1>1, <2>4, FS_Subset, FS_CardinalityType
<1> HIDE DEF S
<1>4. ASSUME NEW order \in SetToSeqs(S)
      PROVE  /\ PlanFits(Write(Strike(s, wrong, order)), r)
             /\ Done(Write(Strike(s, wrong, order)).edits, s) = [f \in Files |-> Outcome(f)]
  <2>1. order \in [1..Cardinality(S) -> S] /\ IsInjective(order) /\ DOMAIN order = 1..Cardinality(S)
    BY DEF SetToSeqs, IsInjective
  <2>2. IsFiniteSet(1..Cardinality(S)) /\ Cardinality(1..Cardinality(S)) = Cardinality(S)
    BY <1>3, FS_Interval
  <2>3. order \in Surjection(1..Cardinality(S), S)
    BY <1>3, <2>1, <2>2, FS_Injection DEF Injection
  <2>4. \A f \in S : \E n \in DOMAIN order : order[n] = f
    BY <2>1, <2>3 DEF Surjection
  <2>5. order \in Seq(Files) /\ \A n \in DOMAIN order : order[n] \in SourceSet(DictionaryOf(r))
    <3>1. S \subseteq Files /\ S \subseteq SourceSet(DictionaryOf(r))
      BY <1>1, FilesOfDictionaries
    <3>2. order \in [1..Cardinality(S) -> Files]
      BY <2>1, <3>1
    <3> QED BY <1>3, <2>1, <3>1, <3>2
  <2> DEFINE es == Strike(s, wrong, order)
  <2>6. /\ PlanFits(Write(es), r) /\ DOMAIN es = DOMAIN order
        /\ \A n \in DOMAIN order : es[n] = Edit(order[n], lines(order[n]))
    <3> HIDE DEF wrong
    <3>1. /\ PlanFits(Write(Strike(s, wrong, order)), r)
          /\ DOMAIN Strike(s, wrong, order) = DOMAIN order
          /\ \A n \in DOMAIN order : Strike(s, wrong, order)[n] =
               Edit(order[n], Without(s, order[n],
                      {i \in DOMAIN Text(s, order[n]) : <<order[n], i>> \in wrong}))
      BY <2>1, <2>5, StrikeFits, ZenonT(60)
    <3> QED BY <3>1, Zenon
  <2> HIDE DEF es, lines
  <2>7. \A n \in DOMAIN order : es[n].file = order[n] /\ es[n].lines = lines(order[n])
    BY <2>6 DEF Edit
  <2>8. Write(es).edits = es
    BY DEF Write
  <2>9. Done(es, s) = [f \in Files |-> Outcome(f)]
    <3> SUFFICES ASSUME NEW f \in Files
                 PROVE  (IF \E i \in DOMAIN es : es[i].file = f
                         THEN es[CHOOSE i \in DOMAIN es : es[i].file = f].lines
                         ELSE s[f]) = Outcome(f)
      BY DEF Done
    <3>1. CASE f \in S
      <4>1. \E i \in DOMAIN es : es[i].file = f
        BY <2>4, <2>6, <2>7, <3>1
      <4> DEFINE i == CHOOSE i \in DOMAIN es : es[i].file = f
      <4>2. i \in DOMAIN es /\ es[i].file = f
        BY <4>1
      <4> HIDE DEF i
      <4>3. es[i].lines = lines(f)
        BY <2>6, <2>7, <4>2
      <4> QED BY <3>1, <4>1, <4>3 DEF i
    <3>2. CASE f \notin S
      <4>1. ~ \E i \in DOMAIN es : es[i].file = f
        BY <2>1, <2>6, <2>7, <3>2
      <4> QED BY <3>2, <4>1
    <3> QED BY <3>1, <3>2
  <2> HIDE DEF Outcome
  <2> QED BY <2>6, <2>8, <2>9 DEF es
<1> HIDE DEF wrong, Outcome
<1>5. CASE Plans(s, r) = {NothingToDo}
  BY <1>5, NothingFits
<1>6. CASE Plans(s, r) # {NothingToDo}
  <2>1. \A q \in Plans(s, r) : PlanFits(q, r) /\ Done(q.edits, s) = [f \in Files |-> Outcome(f)]
    BY <1>2, <1>4, <1>6
  <2> QED BY <2>1
<1> QED BY <1>5, <1>6

\* Whatever a call decides can be carried out, and which of several ways the
\* tool takes makes no difference to the tree after it.
LEMMA PlansFit ==
  ASSUME NEW s \in Trees, NEW r \in Askable, NEW p \in Plans(s, r)
  PROVE  /\ PlanFits(p, r)
         /\ \A q \in Plans(s, r) : Done(p.edits, s) = Done(q.edits, s)
<1>1. r.tool \in {"dict_add", "dict_bulk_add", "dict_remove", "dict_disable", "dict_enable",
                  "dict_bulk_move", "dict_remove_matching", "dict_validate", "dict_sort"}
  BY DEF Askable
<1>2. CASE r.tool = "dict_validate"
  BY <1>2, ValidateFits, Zenon
<1>3. CASE r.tool # "dict_validate"
  <2>1. PlanFits(p, r)
    BY <1>1, <1>3, AddersFit, SelectorsFit, MoveFits, RemoveMatchingFits, SortFits
  <2>2. ASSUME NEW q \in Plans(s, r) PROVE p = q
    <3>1. CASE r.tool = "dict_add"
      BY <2>2, <3>1 DEF Plans, AddEntry
    <3>2. CASE r.tool = "dict_bulk_add"
      BY <2>2, <3>2 DEF Plans, BulkAdd
    <3>3. CASE r.tool = "dict_remove"
      BY <2>2, <3>3 DEF Plans, RemoveEntry
    <3>4. CASE r.tool \in {"dict_disable", "dict_enable"}
      <4> DEFINE off == r.tool = "dict_enable"
                 matches == UNION {{<<f, i>> : i \in {j \in DOMAIN Text(s, f) :
                              Text(s, f)[j].off = off /\ Asked(Text(s, f)[j], r)}} :
                              f \in ToSet(Scope(r))}
                 W(c) == Write(<<Edit(c[1], [Text(s, c[1]) EXCEPT ![c[2]].off = ~off])>>)
      <4>1. Plans(s, r) = Toggle(s, r)
        BY <3>4 DEF Plans
      <4>2. Toggle(s, r) = IF \A c \in matches : matches # {c} THEN {Refuse}
                           ELSE {W(c) : c \in matches}
        BY Zenon DEF Toggle
      <4> HIDE DEF matches, W
      <4> QED BY <2>2, <4>1, <4>2
    <3>5. CASE r.tool = "dict_bulk_move"
      BY <2>2, <3>5 DEF Plans, Move
    <3>6. CASE r.tool = "dict_remove_matching"
      BY <2>2, <3>6 DEF Plans, RemoveMatching
    <3>7. CASE r.tool = "dict_sort"
      <4>1. Plans(s, r) = Sort(s, r)
        BY <3>7 DEF Plans
      <4>2. \E e : Sort(s, r) = {Refuse} \/ Sort(s, r) = {Write(e)}
        BY Zenon DEF Sort
      <4> QED BY <2>2, <4>1, <4>2
    <3> QED BY <1>1, <1>3, <3>1, <3>2, <3>3, <3>4, <3>5, <3>6, <3>7
  <2> QED BY <2>1, <2>2
<1> QED BY <1>2, <1>3

\* The tree after some writes of whole files is a tree.
LEMMA DoneTyped ==
  ASSUME NEW s \in Trees, NEW es \in Seq(Edits)
  PROVE  /\ Done(es, s) \in Trees
         /\ es = <<>> => Done(es, s) = s
<1>1. \A i \in DOMAIN es : es[i].file \in Files /\ es[i].lines \in Seq(Lines)
  <2>1. \A i \in DOMAIN es : es[i] \in Edits
    OBVIOUS
  <2> QED BY <2>1 DEF Edits
<1>2. ASSUME NEW f \in Files
      PROVE  (IF \E i \in DOMAIN es : es[i].file = f
              THEN es[CHOOSE i \in DOMAIN es : es[i].file = f].lines
              ELSE s[f]) \in Seq(Lines) \cup {Absent}
  <2>1. s[f] \in Seq(Lines) \cup {Absent}
    BY DEF Trees
  <2>2. CASE \E i \in DOMAIN es : es[i].file = f
    <3> DEFINE i == CHOOSE i \in DOMAIN es : es[i].file = f
    <3>1. i \in DOMAIN es
      BY <2>2
    <3> HIDE DEF i
    <3>2. es[i].lines \in Seq(Lines)
      BY <1>1, <3>1
    <3> QED BY <2>2, <3>2 DEF i
  <2> QED BY <2>1, <2>2
<1>3. Done(es, s) \in Trees
  BY <1>2 DEF Done, Trees
<1>4. es = <<>> => Done(es, s) = s
  <2>1. es = <<>> => DOMAIN es = {}
    OBVIOUS
  <2>2. s = [f \in Files |-> s[f]]
    BY DEF Trees
  <2> QED BY <2>1, <2>2 DEF Done
<1> QED BY <1>3, <1>4

\* It has what was written, and where nothing was written what it had.
LEMMA DoneAt ==
  ASSUME NEW s, NEW es \in Seq(Edits),
         \A i, j \in DOMAIN es : es[i].file = es[j].file => i = j
  PROVE  /\ \A i \in DOMAIN es : Done(es, s)[es[i].file] = es[i].lines
         /\ \A f \in Files : (\A i \in DOMAIN es : es[i].file # f) => Done(es, s)[f] = s[f]
<1>1. \A i \in DOMAIN es : es[i].file \in Files
  <2>1. \A i \in DOMAIN es : es[i] \in Edits
    OBVIOUS
  <2> QED BY <2>1 DEF Edits
<1>2. ASSUME NEW i \in DOMAIN es PROVE Done(es, s)[es[i].file] = es[i].lines
  <2> DEFINE f == es[i].file
             j == CHOOSE j \in DOMAIN es : es[j].file = f
  <2>1. j \in DOMAIN es /\ es[j].file = f
    OBVIOUS
  <2>2. j = i
    BY <2>1
  <2>3. f \in Files /\ \E k \in DOMAIN es : es[k].file = f
    BY <1>1
  <2>4. Done(es, s)[f] = es[j].lines
    BY <2>3 DEF Done
  <2> QED BY <2>2, <2>4
<1>3. \A f \in Files : (\A i \in DOMAIN es : es[i].file # f) => Done(es, s)[f] = s[f]
  BY DEF Done
<1> QED BY <1>2, <1>3

\* What the compiler takes from a file depends on that file alone.
LEMMA CompiledTyped ==
  ASSUME NEW s \in Trees, NEW f \in Files
  PROVE  /\ Compiled(s, f) \in SUBSET (Words \X Kinds)
         /\ \A u : u[f] = s[f] => Compiled(u, f) = Compiled(s, f)
<1>1. \A i \in Active(s, f) : Text(s, f)[i] \in Lines
  BY TextTyped DEF Active
<1>2. \A i \in Active(s, f) : Text(s, f)[i].word \in Words /\ Text(s, f)[i].kind \in Kinds
  BY <1>1 DEF Lines
<1>3. Compiled(s, f) \in SUBSET (Words \X Kinds)
  BY <1>2 DEF Compiled
<1>4. ASSUME NEW u, u[f] = s[f] PROVE Compiled(u, f) = Compiled(s, f)
  <2>1. Text(u, f) = Text(s, f)
    BY <1>4 DEF Text
  <2>2. Active(u, f) = Active(s, f)
    BY <2>1 DEF Active
  <2> QED BY <2>1, <2>2 DEF Compiled
<1> QED BY <1>3, <1>4

\* The next write of a call is one of its writes.
LEMMA HeadOfEdits ==
  ASSUME NEW es \in Seq(Edits), es # <<>>
  PROVE  /\ Head(es) = es[1] /\ Head(es).file \in Files /\ Head(es).lines \in Seq(Lines)
         /\ Tail(es) \in Seq(Edits) /\ Len(Tail(es)) = Len(es) - 1
         /\ \A j \in DOMAIN Tail(es) : j + 1 \in DOMAIN es /\ Tail(es)[j] = es[j + 1]
         /\ Len(es) \in Nat /\ Len(es) >= 1 /\ 1 \in DOMAIN es
<1>1. Head(es) \in Edits /\ Head(es) = es[1]
  OBVIOUS
<1>2. Head(es).file \in Files /\ Head(es).lines \in Seq(Lines)
  BY <1>1 DEF Edits
<1>3. /\ Tail(es) \in Seq(Edits) /\ Len(Tail(es)) = Len(es) - 1
      /\ Len(es) \in Nat /\ Len(es) >= 1 /\ 1 \in DOMAIN es
  OBVIOUS
<1>4. \A j \in DOMAIN Tail(es) : j + 1 \in DOMAIN es /\ Tail(es)[j] = es[j + 1]
  OBVIOUS
<1> QED BY <1>1, <1>2, <1>3, <1>4

\* The variables keep their types.
LEMMA TypeStep ==
  TypeOK /\ [Next]_vars => TypeOK'
<1> SUFFICES ASSUME TypeOK, [Next]_vars PROVE TypeOK'
  OBVIOUS
<1> DEFINE Readings == [Files -> SUBSET (Words \X Kinds)]
<1>1. /\ sources \in Trees /\ ideal \in Trees /\ snapshot \in [Tasks -> Trees]
      /\ edits \in [Tasks -> Seq(Edits)] /\ todo \in [Tasks -> Seq(Edits)]
      /\ request \in [Tasks -> Requests] /\ dic \in [Dictionaries -> Readings]
      /\ got \in [Tasks -> Readings] /\ toRead \in [Tasks -> Seq(Files)]
      /\ disturbed \in [Tasks -> SUBSET Files] /\ unrestored \in [Tasks -> SUBSET Files]
      /\ undone \in BOOLEAN /\ calls \in 0..MaxCalls /\ loop \in Tasks \cup {Nobody}
  BY DEF TypeOK
<1>2. ASSUME NEW t \in Tasks, NEW f \in Files, NEW c \in Seq(Lines) \cup {Absent}, Store(t, f, c)
      PROVE  sources' \in Trees /\ disturbed' \in [Tasks -> SUBSET Files]
  <2>1. sources' \in Trees
    BY <1>1, <1>2 DEF Store, Trees
  <2>2. disturbed' \in [Tasks -> SUBSET Files]
    BY <1>1, <1>2 DEF Store
  <2> QED BY <2>1, <2>2
<1>3. ASSUME NEW t \in Tasks, RollBack(t) PROVE TypeOK'
  BY <1>3 DEF TypeOK, RollBack, Goto, compiler
<1>4. ASSUME NEW t \in Tasks, NEW r \in Requests, Call(t, r) PROVE TypeOK'
  <2>1. r \in Askable
    BY ToolsAssumption
  <2>2. PICK p \in Plans(sources, r) :
          /\ edits' = [edits EXCEPT ![t] = p.edits]
          /\ todo' = [todo EXCEPT ![t] = p.edits]
          /\ pc' = [pc EXCEPT ![t] = IF p.verdict = "write" THEN "write" ELSE "answer"]
          /\ answer' = [answer EXCEPT ![t] = p.verdict]
    BY <1>4 DEF Call, Decide, Goto
  <2>3. p.edits \in Seq(Edits) /\ p.verdict \in {"refused", "ok", "write"}
    BY <1>1, <2>1, PlansFit DEF PlanFits
  <2>4. PICK q \in Plans(ideal, r) : ideal' = Done(q.edits, ideal)
    BY <1>4 DEF Call, Decide
  <2>5. ideal' \in Trees
    BY <1>1, <2>1, <2>4, PlansFit, DoneTyped DEF PlanFits
  <2>6. calls' \in 0..MaxCalls
    BY <1>1, <1>4, ToolsAssumption DEF Call, Decide
  <2>7. /\ edits' \in [Tasks -> Seq(Edits)] /\ todo' \in [Tasks -> Seq(Edits)]
        /\ pc' \in [Tasks -> {"idle", "write", "wait", "rollback", "answer"}]
        /\ answer' \in [Tasks -> {"none", "write", "ok", "refused", "rolled_back"}]
    BY <1>1, <2>2, <2>3 DEF TypeOK
  <2> QED BY <1>4, <2>5, <2>6, <2>7 DEF TypeOK, Call, Decide, compiler
<1>5. ASSUME NEW t \in Tasks, WriteFile(t) PROVE TypeOK'
  <2>1. /\ Head(todo[t]).file \in Files /\ Head(todo[t]).lines \in Seq(Lines)
        /\ Tail(todo[t]) \in Seq(Edits)
    BY <1>1, <1>5, HeadOfEdits DEF WriteFile
  <2>2. sources' \in Trees /\ disturbed' \in [Tasks -> SUBSET Files]
    BY <1>2, <1>5, <2>1 DEF WriteFile
  <2>3. todo' \in [Tasks -> Seq(Edits)]
    BY <1>1, <1>5, <2>1 DEF WriteFile
  <2> QED BY <1>5, <2>2, <2>3 DEF TypeOK, WriteFile, call, compiler
<1>6. ASSUME NEW t \in Tasks, StartCompiler(t) PROVE TypeOK'
  BY <1>6 DEF TypeOK, StartCompiler, Goto, history
<1>7. ASSUME NEW t \in Tasks, Publish(t) PROVE TypeOK'
  <2>1. TargetDic(t) \in Dictionaries
    BY DEF TargetDic, DictionaryOf, Dictionaries
  <2>2. dic' \in [Dictionaries -> Readings]
    <3> HIDE DEF Readings
    <3> QED BY <1>1, <1>7, <2>1 DEF Publish
  <2> QED BY <1>7, <2>2 DEF TypeOK, Publish, Goto, compiler, history
<1>8. ASSUME NEW t \in Tasks, Restore(t) PROVE TypeOK'
  <2>1. /\ Head(todo[t]).file \in Files /\ Tail(todo[t]) \in Seq(Edits)
    BY <1>1, <1>8, HeadOfEdits DEF Restore
  <2>2. snapshot[t][Head(todo[t]).file] \in Seq(Lines) \cup {Absent}
    BY <1>1, <2>1 DEF Trees
  <2>3. sources' \in Trees /\ disturbed' \in [Tasks -> SUBSET Files]
    BY <1>2, <1>8, <2>1, <2>2 DEF Restore
  <2>4. todo' \in [Tasks -> Seq(Edits)]
    BY <1>1, <1>8, <2>1 DEF Restore
  <2> QED BY <1>8, <2>3, <2>4 DEF TypeOK, Restore, call, compiler
<1>9. ASSUME NEW t \in Tasks, RestoreFails(t) PROVE TypeOK'
  <2>1. /\ Head(todo[t]).file \in Files /\ Tail(todo[t]) \in Seq(Edits)
    BY <1>1, <1>9, HeadOfEdits DEF RestoreFails
  <2>2. unrestored' \in [Tasks -> SUBSET Files] /\ todo' \in [Tasks -> Seq(Edits)]
    BY <1>1, <1>9, <2>1 DEF RestoreFails
  <2> QED BY <1>9, <2>2 DEF TypeOK, RestoreFails, call, compiler, history
<1>10. ASSUME NEW t \in Tasks, RolledBack(t) PROVE TypeOK'
  BY <1>10 DEF TypeOK, RolledBack, Goto, compiler, history
<1>11. ASSUME NEW t \in Tasks, Answer(t) PROVE TypeOK'
  BY <1>11 DEF TypeOK, Answer, Goto, compiler, history
<1>12. ASSUME NEW t \in Tasks, Glob(t) PROVE TypeOK'
  <2> DEFINE all == Sources(TargetDic(t))
             P == {n \in DOMAIN all : sources[all[n]] # Absent}
  <2>1. all \in Seq(Files)
    BY FilesOfDictionaries DEF Sources
  <2>2. P \in SUBSET (DOMAIN all)
    OBVIOUS
  <2>3. toRead' = [toRead EXCEPT ![t] = Pick(all, P)]
    BY <1>12 DEF Glob
  <2> HIDE DEF P, all
  <2>4. Pick(all, P) \in Seq(Files)
    BY <2>1, <2>2, PickKeeps
  <2>5. toRead' \in [Tasks -> Seq(Files)]
    BY <1>1, <2>3, <2>4
  <2>6. got' \in [Tasks -> Readings]
    BY <1>1, <1>12 DEF Glob, Nothing
  <2> QED BY <1>12, <2>5, <2>6 DEF TypeOK, Glob, call, history
<1>13. ASSUME NEW t \in Tasks, ReadSource(t) PROVE TypeOK'
  <2> DEFINE f == Head(toRead[t])
  <2>1. f \in Files /\ Tail(toRead[t]) \in Seq(Files)
    BY <1>1, <1>13 DEF ReadSource
  <2>2. Compiled(sources, f) \in SUBSET (Words \X Kinds)
    BY <1>1, <2>1, CompiledTyped
  <2>3. toRead' \in [Tasks -> Seq(Files)]
    BY <1>1, <1>13, <2>1 DEF ReadSource
  <2>4. got' = got \/ got' = [got EXCEPT ![t] = [@ EXCEPT ![f] = Compiled(sources, f)]]
    BY <1>13 DEF ReadSource
  <2> HIDE DEF f
  <2>5. got' \in [Tasks -> Readings]
    <3>1. [got[t] EXCEPT ![f] = Compiled(sources, f)] \in Readings
      BY <1>1, <2>1, <2>2
    <3> HIDE DEF Readings
    <3> QED BY <1>1, <2>4, <3>1
  <2>6. compiled' \in [Tasks -> {"started", "running", "ok", "failed"}]
    <3>1. compiled' = compiled \/ compiled' = [compiled EXCEPT ![t] = "failed"]
      BY <1>13 DEF ReadSource
    <3>2. compiled \in [Tasks -> {"started", "running", "ok", "failed"}]
      BY DEF TypeOK
    <3> QED BY <3>1, <3>2
  <2> QED BY <1>13, <2>3, <2>5, <2>6 DEF TypeOK, ReadSource, call, history
<1>14. ASSUME NEW t \in Tasks, CompilerExits(t) PROVE TypeOK'
  BY <1>14 DEF TypeOK, CompilerExits, call, history
<1>15. ASSUME NEW t \in Tasks, Cancel(t) PROVE TypeOK'
  BY <1>15 DEF TypeOK, Cancel, Goto
<1>16. ASSUME UNCHANGED vars PROVE TypeOK'
  BY <1>16 DEF TypeOK, vars, call, compiler, history
<1> HIDE DEF Readings
<1> QED BY <1>3, <1>4, <1>5, <1>6, <1>7, <1>8, <1>9, <1>10, <1>11, <1>12, <1>13, <1>14, <1>15, <1>16
        DEF Next, Step, Process, WriteFails, CompilerMissing, CompileFailed

-----------------------------------------------------------------------------
\* How many of its writes a call has made, or undone.
Made(t) == Len(edits[t]) - Len(todo[t])

\* What a call has still to do are the last of its writes.
Behind(t) ==
  /\ Len(todo[t]) <= Len(edits[t])
  /\ \A j \in DOMAIN todo[t] : todo[t][j] = edits[t][Made(t) + j]

\* A call writes each of its files once, and they are sources of the
\* dictionary it compiles.
WholePlan(t) ==
  /\ \A i, j \in DOMAIN edits[t] : edits[t][i].file = edits[t][j].file => i = j
  /\ \A i \in DOMAIN edits[t] : edits[t][i].file \in SourceSet(TargetDic(t))

\* While it writes nobody else does: the tree is the one it has read, with the
\* writes it has made.
Writing(t) ==
  /\ Behind(t)
  /\ \A i \in 1..Made(t) : sources[edits[t][i].file] = edits[t][i].lines
  /\ \A f \in Files : (\A i \in 1..Made(t) : edits[t][i].file # f) => sources[f] = snapshot[t][f]
  /\ ~undone => ideal = Done(edits[t], snapshot[t])

\* While its compiler runs, a file nobody else has written is as it was
\* written, and the compiler has that or will read it.
Waiting(t) ==
  /\ compiled[t] = "ok" => toRead[t] = <<>>
  /\ \A f \in Own(t) \ disturbed[t] :
       /\ sources[f] = Done(edits[t], snapshot[t])[f]
       /\ compiled[t] \in {"running", "ok"} =>
            f \in ToSet(toRead[t]) \/ got[t][f] = Compiled(sources, f)

\* While it rolls back, the files it has come to are restored, or others have
\* written them, or they are noted.
Undoing(t) ==
  /\ undone /\ answer[t] = "rolled_back"
  /\ Behind(t)
  /\ \A i \in 1..Made(t) :
       \/ edits[t][i].file \in disturbed[t] \cup unrestored[t]
       \/ sources[edits[t][i].file] = snapshot[t][edits[t][i].file]

\* What it answers is true, and the tree is the one that all edits give.
Answering(t) ==
  /\ \A f \in Own(t) \ disturbed[t] :
       /\ answer[t] = "ok" =>
            /\ sources[f] = Done(edits[t], snapshot[t])[f]
            /\ dic[TargetDic(t)][f] = Compiled(sources, f)
       /\ answer[t] = "rolled_back" /\ f \notin unrestored[t] => sources[f] = snapshot[t][f]
  /\ ~undone => sources = ideal

TaskInv(t) ==
  /\ pc[t] \in {"write", "rollback", "answer"} <=> loop = t
  /\ compiled[t] \in {"started", "running"} => pc[t] = "wait"
  /\ WholePlan(t)
  /\ pc[t] = "write" => Writing(t)
  /\ pc[t] = "wait" => Waiting(t)
  /\ pc[t] = "rollback" => Undoing(t)
  /\ pc[t] = "answer" => Answering(t)

ToolsInv ==
  /\ TypeOK
  /\ \A t \in Tasks : TaskInv(t)
  /\ EditsKept

\* What is still to do after one of the writes of a call.
LEMMA Advance ==
  ASSUME NEW es \in Seq(Edits), NEW td \in Seq(Edits), td # <<>>, Len(td) <= Len(es),
         \A j \in DOMAIN td : td[j] = es[(Len(es) - Len(td)) + j]
  PROVE  LET k == Len(es) - Len(td)
         IN  /\ k \in Nat /\ k + 1 \in DOMAIN es /\ Head(td) = es[k + 1]
             /\ Len(Tail(td)) <= Len(es) /\ Len(es) - Len(Tail(td)) = k + 1
             /\ \A j \in DOMAIN Tail(td) : Tail(td)[j] = es[(k + 1) + j]
             /\ \A i \in 1..k + 1 : i \in DOMAIN es /\ (i # k + 1 => i \in 1..k)
<1> DEFINE m == Len(td)
           n == Len(es)
           k == n - m
           rest == Tail(td)
<1>1. /\ m \in Nat /\ m >= 1 /\ n \in Nat /\ DOMAIN es = 1..n /\ DOMAIN td = 1..m
      /\ Head(td) = td[1] /\ Len(rest) = m - 1 /\ DOMAIN rest = 1..m - 1
      /\ \A j \in DOMAIN rest : j + 1 \in DOMAIN td /\ rest[j] = td[j + 1]
  BY HeadOfEdits
<1>2. m <= n /\ \A j \in DOMAIN td : td[j] = es[k + j]
  OBVIOUS
<1> HIDE DEF m, n, rest
<1>3. k \in Nat /\ k + 1 \in 1..n /\ n - (m - 1) = k + 1 /\ m - 1 <= n
  BY <1>1, <1>2
<1>4. \A j \in DOMAIN rest : rest[j] = es[(k + 1) + j]
  <2> TAKE j \in DOMAIN rest
  <2>1. k + (j + 1) = (k + 1) + j
    BY <1>1, <1>3
  <2> QED BY <1>1, <1>2, <2>1
<1>5. \A i \in 1..k + 1 : i \in 1..n /\ (i # k + 1 => i \in 1..k)
  BY <1>1, <1>3
<1>6. 1 \in DOMAIN td
  BY <1>1
<1> QED BY <1>1, <1>2, <1>3, <1>4, <1>5, <1>6 DEF m, n, rest

\* A task that a step leaves alone.
Kept(u) ==
  /\ pc'[u] = pc[u] /\ request'[u] = request[u] /\ edits'[u] = edits[u] /\ todo'[u] = todo[u]
  /\ snapshot'[u] = snapshot[u] /\ unrestored'[u] = unrestored[u] /\ answer'[u] = answer[u]
  /\ toRead'[u] = toRead[u] /\ got'[u] = got[u] /\ compiled'[u] = compiled[u]

\* A step that leaves a call and the tree alone keeps the call's part of the
\* invariant,
LEMMA StillTree ==
  ASSUME NEW u \in Tasks, TaskInv(u), Kept(u), loop' = u <=> loop = u,
         sources' = sources, dic' = dic, ideal' = ideal, undone' = undone,
         disturbed'[u] = disturbed[u]
  PROVE  TaskInv(u)'
<1>1. WholePlan(u)' <=> WholePlan(u)
  BY DEF Kept, WholePlan, TargetDic
<1>2. Behind(u)' <=> Behind(u)
  BY DEF Kept, Behind, Made
<1>3. Writing(u)' <=> Writing(u)
  BY <1>2 DEF Kept, Writing, Made
<1>4. ASSUME Waiting(u) PROVE Waiting(u)'
  <2>1. Own(u)' = Own(u) /\ disturbed'[u] = disturbed[u]
    BY DEF Kept, Own
  <2>2. compiled'[u] = "ok" => toRead'[u] = <<>>
    BY <1>4 DEF Kept, Waiting
  <2>3. ASSUME NEW f \in Own(u) \ disturbed'[u]
        PROVE  /\ sources'[f] = Done(edits[u], snapshot[u])[f]
               /\ compiled[u] \in {"running", "ok"} =>
                    f \in ToSet(toRead[u]) \/ got[u][f] = Compiled(sources', f)
    <3>1. f \in Own(u) \ disturbed[u]
      OBVIOUS
    <3>2. sources[f] = Done(edits[u], snapshot[u])[f]
      BY <1>4, <3>1 DEF Waiting
    <3>3. compiled[u] \in {"running", "ok"} =>
            f \in ToSet(toRead[u]) \/ got[u][f] = Compiled(sources, f)
      BY <1>4, <3>1 DEF Waiting
    <3> QED BY <3>2, <3>3
  <2> QED BY <2>1, <2>2, <2>3 DEF Waiting, Kept
<1>5. ASSUME Undoing(u) PROVE Undoing(u)'
  <2>1. Made(u)' = Made(u)
    BY DEF Made, Kept
  <2>2. undone' /\ answer'[u] = "rolled_back" /\ Behind(u)'
    BY <1>2, <1>5, Zenon DEF Undoing, Kept
  <2>3. ASSUME NEW i \in 1..Made(u)
        PROVE  \/ edits[u][i].file \in disturbed[u] \cup unrestored[u]
               \/ sources[edits[u][i].file] = snapshot[u][edits[u][i].file]
    BY <1>5 DEF Undoing
  <2> QED BY <2>1, <2>2, <2>3 DEF Undoing, Kept
<1>6. Answering(u)' <=> Answering(u)
  BY DEF Kept, Answering, Own, TargetDic
<1> QED BY <1>1, <1>3, <1>4, <1>5, <1>6 DEF TaskInv, Kept

\* and so does a step of the call that holds the loop, for one that does not,
\* when it notes the files it writes.
LEMMA OtherHoldsLoop ==
  ASSUME TypeOK, NEW u \in Tasks, TaskInv(u), Kept(u), loop # u, loop' # u,
         disturbed[u] \subseteq disturbed'[u],
         \A f \in Files : sources'[f] = sources[f] \/ f \in disturbed'[u]
  PROVE  TaskInv(u)'
<1>1. pc[u] \in {"idle", "wait"}
  BY DEF TypeOK, TaskInv
<1>2. WholePlan(u)'
  BY DEF Kept, WholePlan, TargetDic, TaskInv
<1>3. ASSUME pc[u] = "wait" PROVE Waiting(u)'
  <2>1. Waiting(u)
    BY <1>3 DEF TaskInv
  <2>2. Own(u)' = Own(u)
    BY DEF Own, Kept
  <2>3. compiled'[u] = "ok" => toRead'[u] = <<>>
    BY <2>1 DEF Kept, Waiting
  <2>4. ASSUME NEW f \in Own(u) \ disturbed'[u]
        PROVE  /\ sources'[f] = Done(edits[u], snapshot[u])[f]
               /\ compiled[u] \in {"running", "ok"} =>
                    f \in ToSet(toRead[u]) \/ got[u][f] = Compiled(sources', f)
    <3>1. f \in Files
      <4>1. PICK i \in DOMAIN edits[u] : f = edits[u][i].file
        BY DEF Own
      <4>2. edits[u] \in Seq(Edits)
        BY DEF TypeOK
      <4>3. edits[u][i] \in Edits
        BY <4>1, <4>2
      <4> QED BY <4>1, <4>3 DEF Edits
    <3>2. sources'[f] = sources[f] /\ f \in Own(u) \ disturbed[u]
      BY <3>1
    <3>3. Compiled(sources', f) = Compiled(sources, f)
      BY <3>1, <3>2, CompiledTyped DEF TypeOK
    <3> QED BY <2>1, <3>2, <3>3 DEF Waiting
  <2> QED BY <2>2, <2>3, <2>4 DEF Waiting, Kept
<1> QED BY <1>1, <1>2, <1>3 DEF TaskInv, Kept

\* A call decides: what it will write is a whole plan, and the tree that all
\* edits give is the one its writes will make.
LEMMA CallKeeps ==
  ASSUME ToolsInv, TypeOK', NEW t \in Tasks, NEW r \in Requests, Call(t, r)
  PROVE  ToolsInv'
<1>1. /\ TypeOK /\ TaskInv(t) /\ pc[t] = "idle" /\ loop = Nobody /\ t # Nobody /\ r \in Askable
      /\ sources \in Trees /\ ideal \in Trees
  BY ToolsAssumption DEF ToolsInv, Call, Decide, TypeOK
<1>2. PICK p \in Plans(sources, r) :
        /\ edits' = [edits EXCEPT ![t] = p.edits]
        /\ todo' = [todo EXCEPT ![t] = p.edits]
        /\ pc' = [pc EXCEPT ![t] = IF p.verdict = "write" THEN "write" ELSE "answer"]
        /\ answer' = [answer EXCEPT ![t] = p.verdict]
  BY DEF Call, Decide, Goto
<1>3. PICK q \in Plans(ideal, r) : ideal' = Done(q.edits, ideal)
  BY DEF Call, Decide
<1>4. /\ loop' = t /\ request' = [request EXCEPT ![t] = r]
      /\ snapshot' = [snapshot EXCEPT ![t] = sources]
      /\ unrestored' = [unrestored EXCEPT ![t] = {}] /\ disturbed' = [disturbed EXCEPT ![t] = {}]
      /\ sources' = sources /\ dic' = dic /\ undone' = undone
      /\ toRead' = toRead /\ got' = got /\ compiled' = compiled
  BY DEF Call, Decide, compiler
<1>5. /\ p.edits \in Seq(Edits) /\ (p.verdict # "write" => p.edits = <<>>)
      /\ \A i, j \in DOMAIN p.edits : p.edits[i].file = p.edits[j].file => i = j
      /\ \A i \in DOMAIN p.edits : p.edits[i].file \in SourceSet(DictionaryOf(r))
  BY <1>1, PlansFit DEF PlanFits
<1>6. ~undone => sources = ideal /\ ideal' = Done(p.edits, sources)
  <2> SUFFICES ASSUME ~undone PROVE sources = ideal /\ ideal' = Done(p.edits, sources)
    OBVIOUS
  <2>1. sources = ideal
    BY <1>1 DEF ToolsInv, EditsKept
  <2>2. q \in Plans(sources, r) /\ ideal' = Done(q.edits, sources)
    BY <1>3, <2>1
  <2>3. Done(p.edits, sources) = Done(q.edits, sources)
    BY <1>1, <2>2, PlansFit, Zenon
  <2> QED BY <2>1, <2>2, <2>3
<1>7. /\ edits'[t] = p.edits /\ todo'[t] = p.edits /\ request'[t] = r /\ snapshot'[t] = sources
      /\ answer'[t] = p.verdict /\ disturbed'[t] = {}
      /\ pc'[t] = IF p.verdict = "write" THEN "write" ELSE "answer"
  BY <1>1, <1>2, <1>4 DEF TypeOK
<1>8. TaskInv(t)'
  <2>1. pc'[t] \in {"write", "answer"} /\ loop' = t
    BY <1>4, <1>7
  <2>2. compiled'[t] \notin {"started", "running"}
    BY <1>1, <1>4 DEF TaskInv
  <2>3. WholePlan(t)'
    BY <1>5, <1>7 DEF WholePlan, TargetDic
  <2>4. ASSUME pc'[t] = "write" PROVE Writing(t)'
    <3>1. Len(p.edits) \in Nat /\ DOMAIN p.edits = 1..Len(p.edits)
      BY <1>5
    <3>2. Made(t)' = 0
      BY <1>7, <3>1 DEF Made
    <3>3. Behind(t)'
      BY <1>7, <3>1, <3>2 DEF Behind
    <3>4. ~undone' => ideal' = Done(edits'[t], snapshot'[t])
      BY <1>4, <1>6, <1>7
    <3>5. 1..Made(t)' = {}
      BY <3>2
    <3>6. sources' = snapshot'[t]
      BY <1>4, <1>7
    <3> QED BY <3>3, <3>4, <3>5, <3>6 DEF Writing
  <2>5. ASSUME pc'[t] = "answer" PROVE Answering(t)'
    <3>1. p.edits = <<>>
      BY <1>5, <1>7, <2>5
    <3>2. Own(t)' = {}
      BY <1>7, <3>1 DEF Own
    <3>3. ~undone' => sources' = ideal'
      BY <1>1, <1>4, <1>5, <1>6, <3>1, DoneTyped
    <3> QED BY <3>2, <3>3 DEF Answering
  <2> QED BY <2>1, <2>2, <2>3, <2>4, <2>5 DEF TaskInv
<1>9. ASSUME NEW u \in Tasks, u # t PROVE TaskInv(u)'
  <2>1. Kept(u)
    BY <1>1, <1>2, <1>4, <1>9 DEF Kept, TypeOK
  <2>2. disturbed'[u] = disturbed[u] /\ TaskInv(u) /\ loop # u /\ loop' # u
    BY <1>1, <1>4, <1>9, ToolsAssumption DEF ToolsInv, TypeOK
  <2> QED BY <1>1, <1>4, <2>1, <2>2, OtherHoldsLoop
<1>10. EditsKept'
  BY <1>1, <1>4 DEF EditsKept
<1> QED BY <1>8, <1>9, <1>10 DEF ToolsInv

\* What the holder of the loop does to a file, the others see as a disturbance.
LEMMA StoreDisturbs ==
  ASSUME ToolsInv, NEW t \in Tasks, NEW f \in Files, NEW c, Store(t, f, c),
         loop = t, loop' = t,
         \A u \in Tasks : u # t => Kept(u)
  PROVE  /\ \A u \in Tasks : u # t => TaskInv(u)'
         /\ sources'[f] = c /\ \A g \in Files : g # f => sources'[g] = sources[g]
         /\ disturbed'[t] = disturbed[t]
<1>1. TypeOK
  BY DEF ToolsInv
<1>2. sources'[f] = c /\ \A g \in Files : g # f => sources'[g] = sources[g]
  BY <1>1 DEF Store, TypeOK, Trees
<1>3. \A u \in Tasks : disturbed'[u] = IF u = t THEN disturbed[u] ELSE disturbed[u] \cup {f}
  BY DEF Store
<1>4. ASSUME NEW u \in Tasks, u # t PROVE TaskInv(u)'
  <2>1. TaskInv(u) /\ Kept(u) /\ loop # u /\ loop' # u
    BY <1>4 DEF ToolsInv
  <2>2. disturbed[u] \subseteq disturbed'[u] /\ f \in disturbed'[u]
    BY <1>3, <1>4
  <2>3. \A g \in Files : sources'[g] = sources[g] \/ g \in disturbed'[u]
    BY <1>2, <2>2
  <2> QED BY <1>1, <2>1, <2>2, <2>3, OtherHoldsLoop
<1> QED BY <1>2, <1>3, <1>4

\* The state of the call that takes the next of its writes.
LEMMA NextWrite ==
  ASSUME TypeOK, NEW t \in Tasks, todo[t] # <<>>, Behind(t), WholePlan(t),
         edits'[t] = edits[t], todo'[t] = Tail(todo[t])
  PROVE  /\ Made(t) \in Nat /\ Made(t) + 1 \in DOMAIN edits[t]
         /\ Head(todo[t]) = edits[t][Made(t) + 1]
         /\ edits[t][Made(t) + 1].file \in Files
         /\ Made(t)' = Made(t) + 1 /\ Behind(t)'
         /\ \A i \in 1..Made(t) + 1 :
              /\ i \in DOMAIN edits[t] /\ edits[t][i].file \in Files
              /\ i # Made(t) + 1 =>
                   i \in 1..Made(t) /\ edits[t][i].file # edits[t][Made(t) + 1].file
<1>1. edits[t] \in Seq(Edits) /\ todo[t] \in Seq(Edits)
  BY DEF TypeOK
<1> DEFINE es == edits[t]
           td == todo[t]
           k == Len(es) - Len(td)
<1>2. /\ k \in Nat /\ k + 1 \in DOMAIN es /\ Head(td) = es[k + 1]
      /\ Len(Tail(td)) <= Len(es) /\ Len(es) - Len(Tail(td)) = k + 1
      /\ \A j \in DOMAIN Tail(td) : Tail(td)[j] = es[(k + 1) + j]
      /\ \A i \in 1..k + 1 : i \in DOMAIN es /\ (i # k + 1 => i \in 1..k)
  BY <1>1, Advance, Zenon DEF Behind, Made
<1>3. Made(t) = k /\ Made(t)' = k + 1
  BY <1>2 DEF Made
<1>4. Behind(t)'
  BY <1>2, <1>3 DEF Behind
<1>5. \A i \in DOMAIN es : es[i].file \in Files
  <2>1. \A i \in DOMAIN es : es[i] \in Edits
    BY <1>1
  <2> QED BY <2>1 DEF Edits
<1>6. \A i, j \in DOMAIN es : es[i].file = es[j].file => i = j
  BY DEF WholePlan
<1> HIDE DEF es, td, k
<1>7. \A i \in 1..k + 1 :
        /\ i \in DOMAIN es /\ es[i].file \in Files
        /\ i # k + 1 => i \in 1..k /\ es[i].file # es[k + 1].file
  BY <1>2, <1>5, <1>6
<1> QED BY <1>2, <1>3, <1>4, <1>5, <1>7 DEF es, td

\* The writes it has made are in the files, and no file has changed otherwise.
LEMMA WriteFileKeeps ==
  ASSUME ToolsInv, TypeOK', NEW t \in Tasks, WriteFile(t)
  PROVE  ToolsInv'
<1>1. /\ TypeOK /\ TaskInv(t) /\ pc[t] = "write" /\ loop = t /\ todo[t] # <<>> /\ t # Nobody
      /\ Store(t, Head(todo[t]).file, Head(todo[t]).lines)
      /\ todo' = [todo EXCEPT ![t] = Tail(@)]
  BY ToolsAssumption DEF ToolsInv, WriteFile
<1>2. /\ dic' = dic /\ loop' = loop /\ pc' = pc /\ request' = request /\ edits' = edits
      /\ snapshot' = snapshot /\ answer' = answer /\ unrestored' = unrestored
      /\ toRead' = toRead /\ got' = got /\ compiled' = compiled
      /\ ideal' = ideal /\ undone' = undone
  BY DEF WriteFile, call, compiler
<1>3. Writing(t) /\ Behind(t) /\ WholePlan(t)
  BY <1>1 DEF TaskInv, Writing
<1> DEFINE k == Made(t)
           f == edits[t][k + 1].file
<1>4. /\ k \in Nat /\ k + 1 \in DOMAIN edits[t] /\ Head(todo[t]) = edits[t][k + 1] /\ f \in Files
      /\ Made(t)' = k + 1 /\ Behind(t)'
      /\ \A i \in 1..k + 1 : /\ i \in DOMAIN edits[t] /\ edits[t][i].file \in Files
                             /\ i # k + 1 => i \in 1..k /\ edits[t][i].file # f
  <2>1. todo'[t] = Tail(todo[t]) /\ edits'[t] = edits[t]
    BY <1>1, <1>2 DEF TypeOK
  <2> QED BY <1>1, <1>3, <2>1, NextWrite
<1>5. \A u \in Tasks : u # t => Kept(u)
  BY <1>1, <1>2 DEF Kept, TypeOK
<1>6. /\ \A u \in Tasks : u # t => TaskInv(u)'
      /\ sources'[f] = edits[t][k + 1].lines
      /\ \A g \in Files : g # f => sources'[g] = sources[g]
  BY <1>1, <1>2, <1>4, <1>5, StoreDisturbs
<1>7. Writing(t)'
  <2>1. \A i \in 1..k : sources[edits[t][i].file] = edits[t][i].lines
    BY <1>3 DEF Writing
  <2>2. \A g \in Files : (\A i \in 1..k : edits[t][i].file # g) => sources[g] = snapshot[t][g]
    BY <1>3 DEF Writing
  <2>3. ~undone => ideal = Done(edits[t], snapshot[t])
    BY <1>3 DEF Writing
  <2> HIDE DEF k
  <2>4. ASSUME NEW i \in 1..k + 1 PROVE sources'[edits[t][i].file] = edits[t][i].lines
    <3>1. CASE i = k + 1
      BY <1>6, <3>1
    <3>2. CASE i # k + 1
      <4>1. i \in 1..k /\ edits[t][i].file # f /\ edits[t][i].file \in Files
        BY <1>4, <3>2
      <4> QED BY <1>6, <2>1, <4>1
    <3> QED BY <3>1, <3>2
  <2>5. ASSUME NEW g \in Files, \A i \in 1..k + 1 : edits[t][i].file # g
        PROVE  sources'[g] = snapshot[t][g]
    <3>1. k + 1 \in 1..k + 1 /\ \A i \in 1..k : i \in 1..k + 1
      BY <1>4
    <3>2. g # f /\ \A i \in 1..k : edits[t][i].file # g
      BY <2>5, <3>1
    <3> QED BY <1>6, <2>2, <3>2
  <2> QED BY <1>2, <1>4, <2>3, <2>4, <2>5 DEF Writing
<1>8. TaskInv(t)'
  <2>1. WholePlan(t)'
    BY <1>2, <1>3 DEF WholePlan, TargetDic
  <2> QED BY <1>1, <1>2, <1>7, <2>1 DEF TaskInv
<1>9. EditsKept'
  BY <1>1, <1>2 DEF EditsKept
<1> QED BY <1>6, <1>8, <1>9 DEF ToolsInv

\* A rollback begins with nothing undone yet.
LEMMA RollBackKeeps ==
  ASSUME ToolsInv, TypeOK', NEW t \in Tasks, RollBack(t), loop \in {t, Nobody},
         compiled[t] \notin {"started", "running"}
  PROVE  ToolsInv'
<1>1. /\ TypeOK /\ TaskInv(t) /\ t # Nobody
      /\ pc' = [pc EXCEPT ![t] = "rollback"] /\ todo' = [todo EXCEPT ![t] = edits[t]]
      /\ answer' = [answer EXCEPT ![t] = "rolled_back"] /\ loop' = t /\ undone' = TRUE
      /\ sources' = sources /\ dic' = dic /\ request' = request /\ edits' = edits
      /\ snapshot' = snapshot /\ unrestored' = unrestored /\ disturbed' = disturbed
      /\ toRead' = toRead /\ got' = got /\ compiled' = compiled /\ ideal' = ideal
  BY ToolsAssumption DEF ToolsInv, RollBack, Goto, compiler
<1>2. /\ pc'[t] = "rollback" /\ todo'[t] = edits[t] /\ answer'[t] = "rolled_back"
      /\ edits'[t] = edits[t] /\ edits[t] \in Seq(Edits)
  BY <1>1 DEF TypeOK
<1>3. Undoing(t)'
  <2>1. Len(edits[t]) \in Nat /\ DOMAIN edits[t] = 1..Len(edits[t])
    BY <1>2
  <2>2. Made(t)' = 0
    BY <1>2, <2>1 DEF Made
  <2>3. Behind(t)'
    BY <1>2, <2>1, <2>2 DEF Behind
  <2>4. 1..Made(t)' = {}
    BY <2>2
  <2> QED BY <1>1, <1>2, <2>3, <2>4 DEF Undoing
<1>4. TaskInv(t)'
  <2>1. WholePlan(t)'
    BY <1>1 DEF TaskInv, WholePlan, TargetDic
  <2> QED BY <1>1, <1>2, <1>3, <2>1 DEF TaskInv
<1>5. ASSUME NEW u \in Tasks, u # t PROVE TaskInv(u)'
  <2>1. Kept(u)
    BY <1>1, <1>5 DEF Kept, TypeOK
  <2>2. disturbed'[u] = disturbed[u] /\ TaskInv(u) /\ loop # u /\ loop' # u
    BY <1>1, <1>5, ToolsAssumption DEF ToolsInv
  <2> QED BY <1>1, <2>1, <2>2, OtherHoldsLoop
<1>6. EditsKept'
  BY <1>1 DEF EditsKept
<1> QED BY <1>4, <1>5, <1>6 DEF ToolsInv

\* When all writes are made, the tree has them all.
LEMMA AllWritten ==
  ASSUME TypeOK, NEW t \in Tasks, Writing(t), WholePlan(t), todo[t] = <<>>
  PROVE  sources = Done(edits[t], snapshot[t])
<1>1. edits[t] \in Seq(Edits) /\ snapshot[t] \in Trees /\ sources \in Trees
  BY DEF TypeOK
<1>2. Made(t) = Len(edits[t]) /\ DOMAIN edits[t] = 1..Made(t)
  BY <1>1 DEF Made
<1>3. \A i, j \in DOMAIN edits[t] : edits[t][i].file = edits[t][j].file => i = j
  BY DEF WholePlan
<1> DEFINE es == edits[t]
           s == snapshot[t]
<1> HIDE DEF es, s
<1>4. /\ \A i \in DOMAIN es : sources[es[i].file] = es[i].lines
      /\ \A f \in Files : (\A i \in DOMAIN es : es[i].file # f) => sources[f] = s[f]
  BY <1>2 DEF Writing, es, s
<1>5. es \in Seq(Edits) /\ s \in Trees /\ \A i, j \in DOMAIN es : es[i].file = es[j].file => i = j
  BY <1>1, <1>3 DEF es, s
<1>6. /\ \A i \in DOMAIN es : Done(es, s)[es[i].file] = es[i].lines
      /\ \A f \in Files : (\A i \in DOMAIN es : es[i].file # f) => Done(es, s)[f] = s[f]
  BY <1>5, DoneAt
<1>7. \A f \in Files : sources[f] = Done(es, s)[f]
  BY <1>4, <1>6
<1>8. Done(es, s) \in Trees
  BY <1>5, DoneTyped
<1> HIDE DEF EditsKept
<1>9. sources = Done(es, s)
  BY <1>1, <1>7, <1>8 DEF Trees
<1> QED BY <1>9 DEF es, s

\* The files a call writes are files, and after its writes they are there.
LEMMA OwnFiles ==
  ASSUME TypeOK, NEW t \in Tasks, WholePlan(t), NEW f \in Own(t)
  PROVE  /\ f \in Files /\ f \in SourceSet(TargetDic(t))
         /\ Done(edits[t], snapshot[t])[f] # Absent
<1> DEFINE es == edits[t]
<1>1. es \in Seq(Edits)
  BY DEF TypeOK
<1>2. PICK i \in DOMAIN es : f = es[i].file
  BY DEF Own
<1>3. \A j, k \in DOMAIN es : es[j].file = es[k].file => j = k
  BY DEF WholePlan
<1>4. f \in SourceSet(TargetDic(t))
  BY <1>2 DEF WholePlan
<1> HIDE DEF es
<1>5. es[i].file \in Files /\ es[i].lines \in Seq(Lines)
  <2>1. es[i] \in Edits
    BY <1>1, <1>2
  <2> QED BY <2>1 DEF Edits
<1>6. Done(es, snapshot[t])[es[i].file] = es[i].lines
  BY <1>1, <1>2, <1>3, DoneAt
<1> QED BY <1>2, <1>4, <1>5, <1>6, EditsAssumption DEF es

\* The compiler starts when all writes are made: the loop is free again and the
\* tree is the one all edits give.
LEMMA StartCompilerKeeps ==
  ASSUME ToolsInv, TypeOK', NEW t \in Tasks, StartCompiler(t)
  PROVE  ToolsInv'
<1>1. /\ TypeOK /\ TaskInv(t) /\ t # Nobody /\ pc[t] = "write" /\ loop = t /\ todo[t] = <<>>
      /\ pc' = [pc EXCEPT ![t] = "wait"] /\ compiled' = [compiled EXCEPT ![t] = "started"]
      /\ loop' = Nobody
      /\ sources' = sources /\ dic' = dic /\ request' = request /\ edits' = edits
      /\ snapshot' = snapshot /\ answer' = answer /\ todo' = todo /\ unrestored' = unrestored
      /\ toRead' = toRead /\ got' = got
      /\ disturbed' = disturbed /\ ideal' = ideal /\ undone' = undone
  BY ToolsAssumption DEF ToolsInv, StartCompiler, Goto, history
<1>2. Writing(t) /\ WholePlan(t)
  BY <1>1 DEF TaskInv
<1>3. sources = Done(edits[t], snapshot[t])
  BY <1>1, <1>2, AllWritten
<1>4. pc'[t] = "wait" /\ compiled'[t] = "started"
  BY <1>1 DEF TypeOK
<1>5. Waiting(t)'
  BY <1>1, <1>3, <1>4 DEF Waiting
<1>6. TaskInv(t)'
  <2>1. WholePlan(t)'
    BY <1>1, <1>2 DEF WholePlan, TargetDic
  <2> QED BY <1>1, <1>4, <1>5, <2>1 DEF TaskInv
<1>7. ASSUME NEW u \in Tasks, u # t PROVE TaskInv(u)'
  <2>1. Kept(u)
    BY <1>1, <1>7 DEF Kept, TypeOK
  <2>2. disturbed'[u] = disturbed[u] /\ TaskInv(u) /\ loop # u /\ loop' # u
    BY <1>1, <1>7, ToolsAssumption DEF ToolsInv
  <2> QED BY <1>1, <2>1, <2>2, OtherHoldsLoop
<1>8. EditsKept'
  <2>1. ~undone => ideal = Done(edits[t], snapshot[t])
    BY <1>2 DEF Writing
  <2> QED BY <1>1, <1>3, <2>1 DEF EditsKept
<1> QED BY <1>6, <1>7, <1>8 DEF ToolsInv

\* One file more is restored, or is noted.
LEMMA RestoreKeeps ==
  ASSUME ToolsInv, TypeOK', NEW t \in Tasks, Restore(t)
  PROVE  ToolsInv'
<1>1. /\ TypeOK /\ TaskInv(t) /\ pc[t] = "rollback" /\ loop = t /\ todo[t] # <<>> /\ t # Nobody
      /\ Store(t, Head(todo[t]).file, snapshot[t][Head(todo[t]).file])
      /\ todo' = [todo EXCEPT ![t] = Tail(@)]
  BY ToolsAssumption DEF ToolsInv, Restore
<1>2. /\ dic' = dic /\ loop' = loop /\ pc' = pc /\ request' = request /\ edits' = edits
      /\ snapshot' = snapshot /\ answer' = answer /\ unrestored' = unrestored
      /\ toRead' = toRead /\ got' = got /\ compiled' = compiled
      /\ ideal' = ideal /\ undone' = undone
  BY DEF Restore, call, compiler
<1>3. Undoing(t) /\ Behind(t) /\ WholePlan(t)
  BY <1>1 DEF TaskInv, Undoing
<1> DEFINE k == Made(t)
           f == edits[t][k + 1].file
<1>4. /\ k \in Nat /\ k + 1 \in DOMAIN edits[t] /\ Head(todo[t]) = edits[t][k + 1] /\ f \in Files
      /\ Made(t)' = k + 1 /\ Behind(t)'
      /\ \A i \in 1..k + 1 : /\ i \in DOMAIN edits[t] /\ edits[t][i].file \in Files
                             /\ i # k + 1 => i \in 1..k /\ edits[t][i].file # f
  <2>1. todo'[t] = Tail(todo[t]) /\ edits'[t] = edits[t]
    BY <1>1, <1>2 DEF TypeOK
  <2> QED BY <1>1, <1>3, <2>1, NextWrite
<1>5. \A u \in Tasks : u # t => Kept(u)
  BY <1>1, <1>2 DEF Kept, TypeOK
<1>6. /\ \A u \in Tasks : u # t => TaskInv(u)'
      /\ sources'[f] = snapshot[t][f]
      /\ \A g \in Files : g # f => sources'[g] = sources[g]
      /\ disturbed'[t] = disturbed[t]
  BY <1>1, <1>2, <1>4, <1>5, StoreDisturbs
<1>7. Undoing(t)'
  <2>1. \A i \in 1..k : \/ edits[t][i].file \in disturbed[t] \cup unrestored[t]
                        \/ sources[edits[t][i].file] = snapshot[t][edits[t][i].file]
    BY <1>3 DEF Undoing
  <2>2. undone /\ answer[t] = "rolled_back"
    BY <1>3 DEF Undoing
  <2> HIDE DEF k
  <2>3. ASSUME NEW i \in 1..k + 1
        PROVE  \/ edits[t][i].file \in disturbed[t] \cup unrestored[t]
               \/ sources'[edits[t][i].file] = snapshot[t][edits[t][i].file]
    <3>1. CASE i = k + 1
      BY <1>6, <3>1
    <3>2. CASE i # k + 1
      <4>1. i \in 1..k /\ edits[t][i].file # f /\ edits[t][i].file \in Files
        BY <1>4, <3>2
      <4> QED BY <1>6, <2>1, <4>1
    <3> QED BY <3>1, <3>2
  <2> QED BY <1>2, <1>4, <1>6, <2>2, <2>3 DEF Undoing
<1>8. TaskInv(t)'
  <2>1. WholePlan(t)'
    BY <1>2, <1>3 DEF WholePlan, TargetDic
  <2> QED BY <1>1, <1>2, <1>7, <2>1 DEF TaskInv
<1>9. EditsKept'
  BY <1>1, <1>2 DEF EditsKept
<1> QED BY <1>6, <1>8, <1>9 DEF ToolsInv

\* A file that cannot be restored is noted.
LEMMA RestoreFailsKeeps ==
  ASSUME ToolsInv, TypeOK', NEW t \in Tasks, RestoreFails(t)
  PROVE  ToolsInv'
<1>1. /\ TypeOK /\ TaskInv(t) /\ pc[t] = "rollback" /\ loop = t /\ todo[t] # <<>> /\ t # Nobody
      /\ unrestored' = [unrestored EXCEPT ![t] = @ \cup {Head(todo[t]).file}]
      /\ todo' = [todo EXCEPT ![t] = Tail(@)]
  BY ToolsAssumption DEF ToolsInv, RestoreFails
<1>2. /\ dic' = dic /\ loop' = loop /\ pc' = pc /\ request' = request /\ edits' = edits
      /\ snapshot' = snapshot /\ answer' = answer /\ sources' = sources
      /\ toRead' = toRead /\ got' = got /\ compiled' = compiled
      /\ ideal' = ideal /\ undone' = undone /\ disturbed' = disturbed
  BY DEF RestoreFails, call, compiler, history
<1>3. Undoing(t) /\ Behind(t) /\ WholePlan(t)
  BY <1>1 DEF TaskInv, Undoing
<1> DEFINE k == Made(t)
           f == edits[t][k + 1].file
<1>4. /\ k \in Nat /\ k + 1 \in DOMAIN edits[t] /\ Head(todo[t]) = edits[t][k + 1] /\ f \in Files
      /\ Made(t)' = k + 1 /\ Behind(t)'
      /\ \A i \in 1..k + 1 : /\ i \in DOMAIN edits[t] /\ edits[t][i].file \in Files
                             /\ i # k + 1 => i \in 1..k /\ edits[t][i].file # f
  <2>1. todo'[t] = Tail(todo[t]) /\ edits'[t] = edits[t]
    BY <1>1, <1>2 DEF TypeOK
  <2> QED BY <1>1, <1>3, <2>1, NextWrite
<1>5. unrestored'[t] = unrestored[t] \cup {f}
  BY <1>1, <1>4 DEF TypeOK
<1>6. Undoing(t)'
  <2>1. \A i \in 1..k : \/ edits[t][i].file \in disturbed[t] \cup unrestored[t]
                        \/ sources[edits[t][i].file] = snapshot[t][edits[t][i].file]
    BY <1>3 DEF Undoing
  <2>2. undone /\ answer[t] = "rolled_back"
    BY <1>3 DEF Undoing
  <2> HIDE DEF k
  <2>3. ASSUME NEW i \in 1..k + 1
        PROVE  \/ edits[t][i].file \in disturbed[t] \cup unrestored'[t]
               \/ sources[edits[t][i].file] = snapshot[t][edits[t][i].file]
    BY <1>4, <1>5, <2>1
  <2> QED BY <1>2, <1>4, <2>2, <2>3 DEF Undoing
<1>7. TaskInv(t)'
  <2>1. WholePlan(t)'
    BY <1>2, <1>3 DEF WholePlan, TargetDic
  <2> QED BY <1>1, <1>2, <1>6, <2>1 DEF TaskInv
<1>8. ASSUME NEW u \in Tasks, u # t PROVE TaskInv(u)'
  <2>1. Kept(u)
    BY <1>1, <1>2, <1>8 DEF Kept, TypeOK
  <2>2. TaskInv(u)
    BY DEF ToolsInv
  <2> QED BY <1>2, <2>1, <2>2, StillTree
<1>9. EditsKept'
  BY <1>1, <1>2 DEF EditsKept
<1> QED BY <1>7, <1>8, <1>9 DEF ToolsInv

\* The rollback is over: every file of the call has been come to.
LEMMA RolledBackKeeps ==
  ASSUME ToolsInv, TypeOK', NEW t \in Tasks, RolledBack(t)
  PROVE  ToolsInv'
<1>1. /\ TypeOK /\ TaskInv(t) /\ pc[t] = "rollback" /\ loop = t /\ todo[t] = <<>> /\ t # Nobody
      /\ pc' = [pc EXCEPT ![t] = "answer"]
      /\ dic' = dic /\ loop' = loop /\ request' = request /\ edits' = edits /\ todo' = todo
      /\ snapshot' = snapshot /\ answer' = answer /\ sources' = sources
      /\ toRead' = toRead /\ got' = got /\ compiled' = compiled /\ unrestored' = unrestored
      /\ ideal' = ideal /\ undone' = undone /\ disturbed' = disturbed
  BY ToolsAssumption DEF ToolsInv, RolledBack, Goto, compiler, history
<1>2. Undoing(t) /\ WholePlan(t)
  BY <1>1 DEF TaskInv
<1>3. DOMAIN edits[t] = 1..Made(t)
  BY <1>1 DEF TypeOK, Made
<1>4. Answering(t)'
  <2>1. undone /\ answer[t] = "rolled_back"
    BY <1>2 DEF Undoing
  <2>2. ASSUME NEW f \in Own(t) \ disturbed[t], f \notin unrestored[t]
        PROVE  sources[f] = snapshot[t][f]
    BY <1>2, <1>3, <2>2 DEF Undoing, Own
  <2>3. Own(t)' = Own(t)
    BY <1>1 DEF Own
  <2> QED BY <1>1, <2>1, <2>2, <2>3 DEF Answering
<1>5. TaskInv(t)'
  <2>1. WholePlan(t)'
    BY <1>1, <1>2 DEF WholePlan, TargetDic
  <2>2. pc'[t] = "answer"
    BY <1>1 DEF TypeOK
  <2> QED BY <1>1, <1>4, <2>1, <2>2 DEF TaskInv
<1>6. ASSUME NEW u \in Tasks, u # t PROVE TaskInv(u)'
  <2>1. Kept(u)
    BY <1>1, <1>6 DEF Kept, TypeOK
  <2>2. TaskInv(u)
    BY DEF ToolsInv
  <2> QED BY <1>1, <2>1, <2>2, StillTree
<1>7. EditsKept'
  BY <1>1 DEF EditsKept
<1> QED BY <1>5, <1>6, <1>7 DEF ToolsInv

\* A call that has answered gives the loop back with the tree all edits give.
LEMMA AnswerKeeps ==
  ASSUME ToolsInv, TypeOK', NEW t \in Tasks, Answer(t)
  PROVE  ToolsInv'
<1>1. /\ TypeOK /\ TaskInv(t) /\ pc[t] = "answer" /\ loop = t /\ t # Nobody
      /\ pc' = [pc EXCEPT ![t] = "idle"] /\ answer' = [answer EXCEPT ![t] = "none"]
      /\ loop' = Nobody
      /\ dic' = dic /\ request' = request /\ edits' = edits /\ todo' = todo
      /\ snapshot' = snapshot /\ sources' = sources
      /\ toRead' = toRead /\ got' = got /\ compiled' = compiled /\ unrestored' = unrestored
      /\ ideal' = ideal /\ undone' = undone /\ disturbed' = disturbed
  BY ToolsAssumption DEF ToolsInv, Answer, Goto, compiler, history
<1>2. Answering(t) /\ WholePlan(t)
  BY <1>1 DEF TaskInv
<1>3. TaskInv(t)'
  <2>1. WholePlan(t)'
    BY <1>1, <1>2 DEF WholePlan, TargetDic
  <2>2. pc'[t] = "idle"
    BY <1>1 DEF TypeOK
  <2> QED BY <1>1, <2>1, <2>2 DEF TaskInv
<1>4. ASSUME NEW u \in Tasks, u # t PROVE TaskInv(u)'
  <2>1. Kept(u)
    BY <1>1, <1>4 DEF Kept, TypeOK
  <2>2. disturbed'[u] = disturbed[u] /\ TaskInv(u) /\ loop # u /\ loop' # u
    BY <1>1, <1>4, ToolsAssumption DEF ToolsInv
  <2> QED BY <1>1, <2>1, <2>2, OtherHoldsLoop
<1>5. EditsKept'
  BY <1>1, <1>2 DEF EditsKept, Answering
<1> QED BY <1>3, <1>4, <1>5 DEF ToolsInv

\* The dictionary gets what the compiler has read.
LEMMA PublishKeeps ==
  ASSUME ToolsInv, TypeOK', NEW t \in Tasks, Publish(t)
  PROVE  ToolsInv'
<1>1. /\ TypeOK /\ TaskInv(t) /\ pc[t] = "wait" /\ loop = Nobody /\ t # Nobody
      /\ compiled[t] = "ok"
      /\ dic' = [dic EXCEPT ![TargetDic(t)] = got[t]]
      /\ pc' = [pc EXCEPT ![t] = "answer"] /\ answer' = [answer EXCEPT ![t] = "ok"]
      /\ loop' = t
      /\ request' = request /\ edits' = edits /\ todo' = todo
      /\ snapshot' = snapshot /\ sources' = sources
      /\ toRead' = toRead /\ got' = got /\ compiled' = compiled /\ unrestored' = unrestored
      /\ ideal' = ideal /\ undone' = undone /\ disturbed' = disturbed
  BY ToolsAssumption DEF ToolsInv, Publish, Goto, compiler, history
<1>2. Waiting(t) /\ WholePlan(t)
  BY <1>1 DEF TaskInv
<1>3. pc'[t] = "answer" /\ answer'[t] = "ok" /\ dic'[TargetDic(t)] = got[t]
  <2>1. TargetDic(t) \in Dictionaries
    BY DEF TargetDic, DictionaryOf, Dictionaries
  <2> QED BY <1>1, <2>1 DEF TypeOK
<1>4. Answering(t)'
  <2>1. toRead[t] = <<>> /\ ToSet(toRead[t]) = {}
    <3>1. toRead[t] = <<>>
      BY <1>1, <1>2 DEF Waiting
    <3>2. ToSet(<<>>) = {}
      BY DEF ToSet
    <3> QED BY <3>1, <3>2
  <2>2. \A f \in Own(t) \ disturbed[t] :
          sources[f] = Done(edits[t], snapshot[t])[f] /\ got[t][f] = Compiled(sources, f)
    BY <1>1, <1>2, <2>1 DEF Waiting
  <2>3. Own(t)' = Own(t) /\ TargetDic(t)' = TargetDic(t)
    BY <1>1 DEF Own, TargetDic
  <2>4. ~undone => sources = ideal
    BY <1>1 DEF ToolsInv, EditsKept
  <2> QED BY <1>1, <1>3, <2>2, <2>3, <2>4 DEF Answering
<1>5. TaskInv(t)'
  <2>1. WholePlan(t)'
    BY <1>1, <1>2 DEF WholePlan, TargetDic
  <2> QED BY <1>1, <1>3, <1>4, <2>1 DEF TaskInv
<1>6. ASSUME NEW u \in Tasks, u # t PROVE TaskInv(u)'
  <2>1. Kept(u)
    BY <1>1, <1>6 DEF Kept, TypeOK
  <2>2. disturbed'[u] = disturbed[u] /\ TaskInv(u) /\ loop # u /\ loop' # u
    BY <1>1, <1>6, ToolsAssumption DEF ToolsInv
  <2> QED BY <1>1, <2>1, <2>2, OtherHoldsLoop
<1>7. EditsKept'
  BY <1>1 DEF EditsKept
<1> QED BY <1>5, <1>6, <1>7 DEF ToolsInv

\* What a step of a compiler keeps, but for the call it works for.
LEMMA ProcessLeaves ==
  ASSUME ToolsInv, NEW t \in Tasks, compiled[t] \in {"started", "running"}, Process(t)
  PROVE  /\ pc[t] = "wait" /\ loop # t /\ Waiting(t) /\ WholePlan(t) /\ TypeOK
         /\ dic' = dic /\ loop' = loop /\ pc' = pc /\ request' = request /\ edits' = edits
         /\ todo' = todo /\ snapshot' = snapshot /\ sources' = sources /\ answer' = answer
         /\ unrestored' = unrestored /\ ideal' = ideal /\ undone' = undone
         /\ disturbed' = disturbed
         /\ \A u \in Tasks : u # t => TaskInv(u)'
         /\ EditsKept' /\ WholePlan(t)'
         /\ Waiting(t)' => TaskInv(t)'
<1>1. TypeOK /\ TaskInv(t) /\ EditsKept
  BY DEF ToolsInv
<1>2. pc[t] = "wait" /\ loop # t /\ Waiting(t) /\ WholePlan(t)
  BY <1>1 DEF TaskInv
<1>3. /\ dic' = dic /\ loop' = loop /\ pc' = pc /\ request' = request /\ edits' = edits
      /\ todo' = todo /\ snapshot' = snapshot /\ sources' = sources /\ answer' = answer
      /\ unrestored' = unrestored /\ ideal' = ideal /\ undone' = undone
      /\ disturbed' = disturbed
  BY DEF Process, Glob, ReadSource, CompilerExits, call, history
<1>4. \A u \in Tasks : u # t =>
        toRead'[u] = toRead[u] /\ got'[u] = got[u] /\ compiled'[u] = compiled[u]
  BY <1>1 DEF Process, Glob, ReadSource, CompilerExits, TypeOK
<1>5. ASSUME NEW u \in Tasks, u # t PROVE TaskInv(u)'
  <2>1. Kept(u)
    BY <1>3, <1>4, <1>5 DEF Kept
  <2>2. TaskInv(u)
    BY DEF ToolsInv
  <2> QED BY <1>3, <2>1, <2>2, StillTree
<1>6. EditsKept' /\ WholePlan(t)'
  BY <1>1, <1>2, <1>3 DEF EditsKept, WholePlan, TargetDic
<1>7. Waiting(t)' => TaskInv(t)'
  BY <1>2, <1>3, <1>6 DEF TaskInv
<1> QED BY <1>1, <1>2, <1>3, <1>5, <1>6, <1>7

\* A compiler that starts finds every file that is there.
LEMMA GlobKeeps ==
  ASSUME ToolsInv, TypeOK', NEW t \in Tasks, Glob(t)
  PROVE  ToolsInv'
<1>1. compiled[t] \in {"started", "running"} /\ Process(t)
  BY DEF Glob, Process
<1>2. /\ Waiting(t) /\ WholePlan(t) /\ TypeOK /\ \A u \in Tasks : u # t => TaskInv(u)'
      /\ EditsKept' /\ (Waiting(t)' => TaskInv(t)')
      /\ edits' = edits /\ snapshot' = snapshot /\ sources' = sources /\ disturbed' = disturbed
  BY <1>1, ProcessLeaves
<1> DEFINE all == Sources(TargetDic(t))
           P == {n \in DOMAIN all : sources[all[n]] # Absent}
<1>3. toRead'[t] = Pick(all, P) /\ compiled'[t] = "running"
  BY <1>2 DEF Glob, TypeOK
<1>4. all \in Seq(Files) /\ P \in SUBSET (DOMAIN all)
  BY FilesOfDictionaries DEF Sources
<1>5. ASSUME NEW f \in Own(t) \ disturbed[t] PROVE f \in ToSet(toRead'[t])
  <2>1. sources[f] = Done(edits[t], snapshot[t])[f]
    BY <1>2 DEF Waiting
  <2>2. f \in SourceSet(TargetDic(t)) /\ sources[f] # Absent
    BY <1>2, <2>1, OwnFiles
  <2>3. PICK n \in DOMAIN all : all[n] = f
    BY <2>2 DEF SourceSet, ToSet
  <2>4. n \in P
    BY <2>2, <2>3
  <2> HIDE DEF P, all
  <2>5. PICK m \in DOMAIN Pick(all, P) : Pick(all, P)[m] = all[n]
    BY <1>4, <2>4, PickKeeps
  <2> QED BY <1>3, <2>3, <2>5 DEF ToSet
<1>6. Waiting(t)'
  <2>1. Own(t)' = Own(t)
    BY <1>2 DEF Own
  <2>2. \A f \in Own(t) \ disturbed[t] : sources[f] = Done(edits[t], snapshot[t])[f]
    BY <1>2 DEF Waiting
  <2> HIDE DEF P, all
  <2> QED BY <1>2, <1>3, <1>5, <2>1, <2>2 DEF Waiting
<1>7. \A u \in Tasks : TaskInv(u)'
  BY <1>2, <1>6
<1> QED BY <1>2, <1>7 DEF ToolsInv

\* What it reads is what the file has at that moment.
LEMMA ReadSourceKeeps ==
  ASSUME ToolsInv, TypeOK', NEW t \in Tasks, ReadSource(t)
  PROVE  ToolsInv'
<1>1. compiled[t] \in {"started", "running"} /\ Process(t)
  BY DEF ReadSource, Process
<1>2. /\ Waiting(t) /\ WholePlan(t) /\ TypeOK /\ \A u \in Tasks : u # t => TaskInv(u)'
      /\ EditsKept' /\ (Waiting(t)' => TaskInv(t)')
      /\ edits' = edits /\ snapshot' = snapshot /\ sources' = sources /\ disturbed' = disturbed
  BY <1>1, ProcessLeaves
<1> DEFINE q == toRead[t]
           g == Head(q)
<1>3. /\ compiled[t] = "running" /\ q # <<>> /\ q \in Seq(Files)
      /\ toRead'[t] = Tail(q)
  <2>1. toRead \in [Tasks -> Seq(Files)]
    BY <1>2 DEF TypeOK
  <2>2. compiled[t] = "running" /\ q # <<>> /\ toRead' = [toRead EXCEPT ![t] = Tail(toRead[t])]
    BY <1>2 DEF ReadSource
  <2> QED BY <2>1, <2>2
<1>4. \A f \in ToSet(q) : f = g \/ f \in ToSet(Tail(q))
  <2> HIDE DEF q
  <2>1. /\ Len(q) \in Nat /\ DOMAIN q = 1..Len(q) /\ Head(q) = q[1]
        /\ \A n \in 2..Len(q) : n - 1 \in DOMAIN Tail(q) /\ Tail(q)[n - 1] = q[n]
    BY <1>3
  <2>2. \A n \in DOMAIN q : n = 1 \/ n \in 2..Len(q)
    BY <2>1
  <2>3. ASSUME NEW f \in ToSet(q) PROVE f = Head(q) \/ f \in ToSet(Tail(q))
    <3>1. PICK n \in DOMAIN q : f = q[n]
      BY <2>3 DEF ToSet
    <3>2. CASE n = 1
      BY <2>1, <3>1, <3>2
    <3>3. CASE n \in 2..Len(q)
      <4>1. n - 1 \in DOMAIN Tail(q) /\ Tail(q)[n - 1] = f
        BY <2>1, <3>1, <3>3
      <4> QED BY <4>1 DEF ToSet
    <3> QED BY <2>2, <3>2, <3>3
  <2> QED BY <2>3 DEF q
<1>5. CASE sources[g] = Absent
  <2>1. compiled'[t] = "failed"
    BY <1>2, <1>5 DEF ReadSource, TypeOK
  <2>2. Own(t)' = Own(t)
    BY <1>2 DEF Own
  <2>3. \A f \in Own(t) \ disturbed[t] : sources[f] = Done(edits[t], snapshot[t])[f]
    BY <1>2 DEF Waiting
  <2>4. Waiting(t)'
    BY <1>2, <2>1, <2>2, <2>3 DEF Waiting
  <2> QED BY <1>2, <2>4 DEF ToolsInv
<1>6. CASE sources[g] # Absent
  <2>1. /\ got' = [got EXCEPT ![t] = [@ EXCEPT ![g] = Compiled(sources, g)]]
        /\ compiled' = compiled
    BY <1>6 DEF ReadSource
  <2>2. g \in Files
    <3> HIDE DEF q
    <3> QED BY <1>3
  <2> HIDE DEF g
  <2>3. got'[t][g] = Compiled(sources, g) /\ \A f \in Files : f # g => got'[t][f] = got[t][f]
    BY <1>2, <2>1, <2>2 DEF TypeOK
  <2>4. ASSUME NEW f \in Own(t) \ disturbed[t]
        PROVE  /\ sources[f] = Done(edits[t], snapshot[t])[f]
               /\ f \in ToSet(toRead'[t]) \/ got'[t][f] = Compiled(sources, f)
    <3>1. f \in Files
      BY <1>2, OwnFiles
    <3>2. sources[f] = Done(edits[t], snapshot[t])[f]
      BY <1>2 DEF Waiting
    <3>3. f \in ToSet(q) \/ got[t][f] = Compiled(sources, f)
      BY <1>2, <1>3 DEF Waiting
    <3> HIDE DEF q
    <3> QED BY <1>3, <1>4, <2>3, <3>1, <3>2, <3>3
  <2>5. Own(t)' = Own(t)
    BY <1>2 DEF Own
  <2>6. Waiting(t)'
    BY <1>2, <1>3, <2>1, <2>4, <2>5 DEF Waiting
  <2> QED BY <1>2, <2>6 DEF ToolsInv
<1> QED BY <1>5, <1>6

\* A compiler that succeeds has read every file it found.
LEMMA CompilerExitsKeeps ==
  ASSUME ToolsInv, TypeOK', NEW t \in Tasks, CompilerExits(t)
  PROVE  ToolsInv'
<1>1. compiled[t] \in {"started", "running"} /\ Process(t)
  BY DEF CompilerExits, Process
<1>2. /\ Waiting(t) /\ WholePlan(t) /\ TypeOK /\ \A u \in Tasks : u # t => TaskInv(u)'
      /\ EditsKept' /\ (Waiting(t)' => TaskInv(t)')
      /\ edits' = edits /\ snapshot' = snapshot /\ sources' = sources /\ disturbed' = disturbed
  BY <1>1, ProcessLeaves
<1>3. compiled[t] = "running" /\ toRead[t] = <<>> /\ toRead' = toRead /\ got' = got
  BY DEF CompilerExits
<1>4. ASSUME NEW f \in Own(t) \ disturbed[t]
      PROVE  /\ sources[f] = Done(edits[t], snapshot[t])[f]
             /\ f \in ToSet(toRead[t]) \/ got[t][f] = Compiled(sources, f)
  BY <1>2, <1>3 DEF Waiting
<1>5. Waiting(t)'
  <2>1. Own(t)' = Own(t)
    BY <1>2 DEF Own
  <2> QED BY <1>2, <1>3, <1>4, <2>1 DEF Waiting
<1> QED BY <1>2, <1>5 DEF ToolsInv

\* A call that is cancelled leaves the loop and answers nothing.
LEMMA CancelKeeps ==
  ASSUME ToolsInv, TypeOK', NEW t \in Tasks, Cancel(t)
  PROVE  ToolsInv'
<1>1. /\ TypeOK /\ TaskInv(t) /\ pc[t] = "wait" /\ loop = Nobody /\ t # Nobody
      /\ pc' = [pc EXCEPT ![t] = "idle"] /\ compiled' = [compiled EXCEPT ![t] = "failed"]
      /\ answer' = [answer EXCEPT ![t] = "none"] /\ undone' = TRUE /\ loop' = loop
      /\ dic' = dic /\ request' = request /\ edits' = edits /\ todo' = todo
      /\ snapshot' = snapshot /\ sources' = sources
      /\ toRead' = toRead /\ got' = got /\ unrestored' = unrestored
      /\ ideal' = ideal /\ disturbed' = disturbed
  BY ToolsAssumption DEF ToolsInv, Cancel, Goto
<1>2. TaskInv(t)'
  <2>1. WholePlan(t)'
    BY <1>1 DEF WholePlan, TargetDic, TaskInv
  <2>2. pc'[t] = "idle" /\ compiled'[t] = "failed"
    BY <1>1 DEF TypeOK
  <2> QED BY <1>1, <2>1, <2>2 DEF TaskInv
<1>3. ASSUME NEW u \in Tasks, u # t PROVE TaskInv(u)'
  <2>1. Kept(u)
    BY <1>1, <1>3 DEF Kept, TypeOK
  <2>2. disturbed'[u] = disturbed[u] /\ TaskInv(u) /\ loop # u /\ loop' # u
    BY <1>1, <1>3, ToolsAssumption DEF ToolsInv
  <2> QED BY <1>1, <2>1, <2>2, OtherHoldsLoop
<1>4. EditsKept'
  BY <1>1 DEF EditsKept
<1> QED BY <1>2, <1>3, <1>4 DEF ToolsInv

\* Every step keeps the invariant.
LEMMA ToolsInvStep ==
  ToolsInv /\ [Next]_vars => ToolsInv'
<1> SUFFICES ASSUME ToolsInv, [Next]_vars PROVE ToolsInv'
  OBVIOUS
<1>1. TypeOK' /\ TypeOK
  BY TypeStep DEF ToolsInv
<1>2. ASSUME NEW t \in Tasks, NEW r \in Requests, Call(t, r) PROVE ToolsInv'
  BY <1>1, <1>2, CallKeeps
<1>3. ASSUME NEW t \in Tasks, Step(t) PROVE ToolsInv'
  <2>1. CASE WriteFile(t)
    BY <1>1, <2>1, WriteFileKeeps
  <2>2. CASE WriteFails(t) \/ CompilerMissing(t)
    <3>1. RollBack(t) /\ pc[t] = "write" /\ loop = t
      BY <2>2 DEF WriteFails, CompilerMissing
    <3>2. compiled[t] \notin {"started", "running"}
      BY <3>1 DEF ToolsInv, TaskInv
    <3> QED BY <1>1, <3>1, <3>2, RollBackKeeps
  <2>3. CASE StartCompiler(t)
    BY <1>1, <2>3, StartCompilerKeeps
  <2>4. CASE Publish(t)
    BY <1>1, <2>4, PublishKeeps
  <2>5. CASE CompileFailed(t)
    <3>1. RollBack(t) /\ loop = Nobody /\ compiled[t] \notin {"started", "running"}
      BY <2>5 DEF CompileFailed
    <3> QED BY <1>1, <3>1, RollBackKeeps
  <2>6. CASE Restore(t)
    BY <1>1, <2>6, RestoreKeeps
  <2>7. CASE RestoreFails(t)
    BY <1>1, <2>7, RestoreFailsKeeps
  <2>8. CASE RolledBack(t)
    BY <1>1, <2>8, RolledBackKeeps
  <2>9. CASE Answer(t)
    BY <1>1, <2>9, AnswerKeeps
  <2> QED BY <1>3, <2>1, <2>2, <2>3, <2>4, <2>5, <2>6, <2>7, <2>8, <2>9 DEF Step
<1>4. ASSUME NEW t \in Tasks, Process(t) PROVE ToolsInv'
  BY <1>1, <1>4, GlobKeeps, ReadSourceKeeps, CompilerExitsKeeps DEF Process
<1>5. ASSUME NEW t \in Tasks, Cancel(t) PROVE ToolsInv'
  BY <1>1, <1>5, CancelKeeps
<1>6. ASSUME UNCHANGED vars PROVE ToolsInv'
  <2>1. /\ sources' = sources /\ dic' = dic /\ loop' = loop /\ ideal' = ideal /\ undone' = undone
        /\ disturbed' = disturbed /\ \A u \in Tasks : Kept(u)
    BY <1>6 DEF vars, call, compiler, history, Kept
  <2>2. ASSUME NEW u \in Tasks PROVE TaskInv(u)'
    <3>1. TaskInv(u)
      BY DEF ToolsInv
    <3> QED BY <2>1, <3>1, StillTree
  <2>3. EditsKept'
    BY <2>1 DEF ToolsInv, EditsKept
  <2> QED BY <1>1, <2>2, <2>3 DEF ToolsInv
<1> QED BY <1>2, <1>3, <1>4, <1>5, <1>6 DEF Next

\* It holds before the first call.
LEMMA ToolsInvInit ==
  Init => ToolsInv
<1> SUFFICES ASSUME Init PROVE ToolsInv
  OBVIOUS
<1> DEFINE Readings == [Files -> SUBSET (Words \X Kinds)]
<1>1. sources \in Trees
  BY ToolsAssumption DEF Init
<1>2. TypeOK
  <2>1. dic \in [Dictionaries -> Readings]
    <3>1. \A d \in Dictionaries : CompiledTree(sources, d) \in Readings
      BY <1>1, CompiledTyped DEF CompiledTree
    <3> HIDE DEF Readings
    <3> QED BY <3>1 DEF Init
  <2>2. got \in [Tasks -> Readings]
    BY DEF Init, Nothing
  <2>3. request \in [Tasks -> Requests]
    BY ToolsAssumption DEF Init
  <2>4. /\ edits \in [Tasks -> Seq(Edits)] /\ todo \in [Tasks -> Seq(Edits)]
        /\ toRead \in [Tasks -> Seq(Files)]
    BY DEF Init
  <2>5. 0 \in 0..MaxCalls
    BY ToolsAssumption
  <2> QED BY <1>1, <2>1, <2>2, <2>3, <2>4, <2>5 DEF Init, TypeOK
<1>3. ASSUME NEW t \in Tasks PROVE TaskInv(t)
  <2>1. pc[t] = "idle" /\ loop # t /\ compiled[t] = "failed" /\ edits[t] = <<>>
    BY ToolsAssumption DEF Init
  <2> QED BY <2>1 DEF TaskInv, WholePlan
<1>4. EditsKept
  BY DEF Init, EditsKept
<1> QED BY <1>2, <1>3, <1>4 DEF ToolsInv

\* The invariant of the concurrent calls, in every state.
THEOREM ToolsInvHolds ==
  Spec => []ToolsInv
<1>1. Init => ToolsInv
  BY ToolsInvInit
<1>2. ToolsInv /\ [Next]_vars => ToolsInv'
  BY ToolsInvStep
<1> QED BY <1>1, <1>2, PTL DEF Spec

\* The trees stay trees, whatever the calls, the compilers and the failures do
\* (_write_files_and_recompile).
THEOREM ToolsTyped ==
  Spec => []TypeOK
<1>1. ToolsInv => TypeOK
  BY DEF ToolsInv
<1> QED BY <1>1, ToolsInvHolds, PTL

\* What a call answers is true of the files it wrote and nobody else has
\* written since (_write_files_and_recompile).
THEOREM AnswersAreTrue ==
  Spec => []UndisturbedFilesAtomic
<1>1. ToolsInv => UndisturbedFilesAtomic
  BY DEF ToolsInv, TaskInv, Answering, UndisturbedFilesAtomic
<1> QED BY <1>1, ToolsInvHolds, PTL

\* Concurrent calls lose no edit: no tool waits between its read and its last
\* write.
THEOREM NoEditLost ==
  Spec => []EditsKept
<1>1. ToolsInv => EditsKept
  BY DEF ToolsInv
<1> QED BY <1>1, ToolsInvHolds, PTL

-----------------------------------------------------------------------------
(* Duplicates *)

\* Where a tree has active lines.
LEMMA PlacesOf ==
  ASSUME NEW u
  PROVE  /\ \A f, i : <<f, i>> \in Places(u, Files) <=> f \in Files /\ i \in Active(u, f)
         /\ \A p \in Places(u, Files) :
              p = <<p[1], p[2]>> /\ p[1] \in Files /\ p[2] \in Active(u, p[1])
  BY DEF Places

\* A word and POS are there twice when two places have them.
LEMMA TwoPlaces ==
  ASSUME NEW u, NEW x
  PROVE  x \in Twice(u) <=>
           \E o, q \in Places(u, Files) :
             /\ o # q /\ Same(LineAt(u, o), LineAt(u, q))
             /\ x = <<LineAt(u, q).word, Canonical[LineAt(u, q).kind]>>
  BY DEF Twice

\* Lines that all come from different lines of another tree bring no word and
\* POS twice that are not there twice.
LEMMA Embedded ==
  ASSUME NEW u, NEW s, NEW phi,
         \A p \in Places(u, Files) :
           phi[p] \in Places(s, Files) /\ Same(LineAt(u, p), LineAt(s, phi[p])),
         \A p, q \in Places(u, Files) : phi[p] = phi[q] => p = q
  PROVE  Twice(u) \subseteq Twice(s)
<1> SUFFICES ASSUME NEW x \in Twice(u) PROVE x \in Twice(s)
  OBVIOUS
<1>1. PICK o \in Places(u, Files), q \in Places(u, Files) :
        /\ o # q /\ Same(LineAt(u, o), LineAt(u, q))
        /\ x = <<LineAt(u, q).word, Canonical[LineAt(u, q).kind]>>
  BY TwoPlaces
<1>2. /\ phi[o] \in Places(s, Files) /\ phi[q] \in Places(s, Files) /\ phi[o] # phi[q]
      /\ Same(LineAt(u, o), LineAt(s, phi[o])) /\ Same(LineAt(u, q), LineAt(s, phi[q]))
  BY <1>1
<1> DEFINE a == LineAt(u, o)
           b == LineAt(u, q)
           c == LineAt(s, phi[o])
           d == LineAt(s, phi[q])
<1>3. Same(a, b) /\ Same(a, c) /\ Same(b, d) /\ x = <<b.word, Canonical[b.kind]>>
  BY <1>1, <1>2
<1> HIDE DEF a, b, c, d
<1>4. Same(c, d) /\ x = <<d.word, Canonical[d.kind]>>
  BY <1>3 DEF Same, SamePos
<1> QED BY <1>2, <1>4, TwoPlaces DEF c, d

\* The tree v is u with one file replaced.
Replaces(v, u, f, new) ==
  v[f] = new /\ \A g \in Files : g # f => v[g] = u[g]

\* What the tree holds then.
LEMMA Replaced ==
  ASSUME NEW u \in Trees, NEW f \in Files, NEW new \in Seq(Lines),
         NEW v, Replaces(v, u, f, new)
  PROVE  /\ Text(v, f) = new
         /\ \A g \in Files : g # f => Text(v, g) = Text(u, g) /\ Active(v, g) = Active(u, g)
         /\ Active(v, f) = {i \in DOMAIN new : ~new[i].off}
<1>1. v[f] = new /\ \A g \in Files : g # f => v[g] = u[g]
  BY DEF Replaces
<1>2. Text(v, f) = new
  BY <1>1, EditsAssumption DEF Text
<1>3. \A g \in Files : g # f => Text(v, g) = Text(u, g)
  BY <1>1 DEF Text
<1> QED BY <1>1, <1>2, <1>3 DEF Active

\* The active lines of a file, by phi, all come from different active lines of
\* the old one.
ComeFrom(new, phi, u, f) ==
  /\ \A i \in DOMAIN new : ~new[i].off =>
       phi[i] \in Active(u, f) /\ Same(new[i], Text(u, f)[phi[i]])
  /\ \A i, j \in DOMAIN new : ~new[i].off /\ ~new[j].off /\ phi[i] = phi[j] => i = j

\* Then there are no new duplicates.
LEMMA FileEmbedded ==
  ASSUME NEW u \in Trees, NEW f \in Files, NEW new \in Seq(Lines),
         NEW v, Replaces(v, u, f, new),
         NEW phi, ComeFrom(new, phi, u, f)
  PROVE  Twice(v) \subseteq Twice(u)
<1> DEFINE Phi == [p \in Places(v, Files) |-> IF p[1] = f THEN <<f, phi[p[2]]>> ELSE p]
<1>0. /\ \A i \in DOMAIN new : ~new[i].off =>
           phi[i] \in Active(u, f) /\ Same(new[i], Text(u, f)[phi[i]])
      /\ \A i, j \in DOMAIN new : ~new[i].off /\ ~new[j].off /\ phi[i] = phi[j] => i = j
  BY DEF ComeFrom
<1>1. /\ Text(v, f) = new
      /\ \A g \in Files : g # f => Text(v, g) = Text(u, g) /\ Active(v, g) = Active(u, g)
      /\ Active(v, f) = {i \in DOMAIN new : ~new[i].off}
  BY Replaced
<1>2. ASSUME NEW p \in Places(v, Files)
      PROVE  Phi[p] \in Places(u, Files) /\ Same(LineAt(v, p), LineAt(u, Phi[p]))
  <2>1. p = <<p[1], p[2]>> /\ p[1] \in Files /\ p[2] \in Active(v, p[1])
    BY PlacesOf
  <2>2. CASE p[1] = f
    <3>1. Phi[p] = <<f, phi[p[2]]>>
      BY <2>2
    <3>2. p[2] \in DOMAIN new /\ ~new[p[2]].off
      BY <1>1, <2>1, <2>2
    <3>3. phi[p[2]] \in Active(u, f) /\ Same(new[p[2]], Text(u, f)[phi[p[2]]])
      BY <1>0, <3>2
    <3> HIDE DEF Phi
    <3>4. LineAt(v, p) = new[p[2]] /\ LineAt(u, Phi[p]) = Text(u, f)[phi[p[2]]]
      BY <1>1, <2>2, <3>1 DEF LineAt
    <3> QED BY <3>1, <3>3, <3>4, PlacesOf
  <2>3. CASE p[1] # f
    <3>1. Phi[p] = p /\ Active(v, p[1]) = Active(u, p[1]) /\ Text(v, p[1]) = Text(u, p[1])
      BY <1>1, <2>1, <2>3
    <3> HIDE DEF Phi
    <3>2. p \in Places(u, Files)
      BY <2>1, <3>1, PlacesOf
    <3> QED BY <3>1, <3>2 DEF LineAt, Same, SamePos
  <2> QED BY <2>2, <2>3
<1>3. ASSUME NEW p \in Places(v, Files), NEW q \in Places(v, Files), Phi[p] = Phi[q]
      PROVE  p = q
  <2>1. /\ p = <<p[1], p[2]>> /\ p[1] \in Files /\ p[2] \in Active(v, p[1])
        /\ q = <<q[1], q[2]>> /\ q[1] \in Files /\ q[2] \in Active(v, q[1])
    BY PlacesOf
  <2>2. CASE p[1] = f /\ q[1] = f
    <3>1. phi[p[2]] = phi[q[2]]
      BY <1>3, <2>2
    <3>2. p[2] \in DOMAIN new /\ ~new[p[2]].off /\ q[2] \in DOMAIN new /\ ~new[q[2]].off
      BY <1>1, <2>1, <2>2
    <3>3. p[2] = q[2]
      BY <1>0, <3>1, <3>2
    <3> QED BY <2>1, <2>2, <3>3
  <2>3. CASE p[1] # f /\ q[1] # f
    BY <1>3, <2>3
  <2>4. CASE p[1] # f /\ q[1] = f
    BY <1>3, <2>4
  <2>5. CASE p[1] = f /\ q[1] # f
    BY <1>3, <2>5
  <2> QED BY <2>2, <2>3, <2>4, <2>5
<1> HIDE DEF Phi
<1> QED BY <1>2, <1>3, Embedded, Zenon

\* Lines that nothing active is the same as, not even each other, bring no
\* duplicates either.
LEMMA AppendedApart ==
  ASSUME NEW u \in Trees, NEW f \in Files, NEW extra \in Seq(Lines),
         NEW v, Replaces(v, u, f, Text(u, f) \o extra),
         \A n \in DOMAIN extra : \A p \in Places(u, Files) : ~Same(LineAt(u, p), extra[n]),
         \A m, n \in DOMAIN extra : m # n => ~Same(extra[m], extra[n])
  PROVE  Twice(v) \subseteq Twice(u)
<1> DEFINE old == Text(u, f)
           new == old \o extra
           k == Len(old)
           Late(p) == p[1] = f /\ p[2] > k
<1>1. /\ old \in Seq(Lines) /\ k \in Nat /\ DOMAIN old = 1..k
      /\ Len(extra) \in Nat /\ DOMAIN extra = 1..Len(extra)
  BY TextTyped
<1>2. /\ new \in Seq(Lines) /\ DOMAIN new = 1..(k + Len(extra))
      /\ \A i \in 1..k : new[i] = old[i]
      /\ \A i \in DOMAIN new : i > k => i - k \in DOMAIN extra /\ new[i] = extra[i - k]
  <2>1. old \in Seq(Lines) /\ extra \in Seq(Lines)
    BY <1>1
  <2> HIDE DEF old
  <2>2. new \in Seq(Lines) /\ Len(new) = k + Len(extra)
        /\ \A i \in 1..Len(new) : new[i] = IF i <= k THEN old[i] ELSE extra[i - k]
    BY <2>1, ConcatProperties
  <2>3. DOMAIN new = 1..Len(new)
    BY <2>2
  <2> HIDE DEF new, k
  <2>4. DOMAIN new = 1..(k + Len(extra)) /\ \A i \in 1..k : i \in 1..Len(new) /\ i <= k
    BY <1>1, <2>2, <2>3
  <2>5. \A i \in DOMAIN new : i > k => i - k \in DOMAIN extra /\ ~(i <= k)
    BY <1>1, <2>4
  <2> QED BY <2>2, <2>3, <2>4, <2>5
<1>3. /\ Text(v, f) = new
      /\ \A g \in Files : g # f => Text(v, g) = Text(u, g) /\ Active(v, g) = Active(u, g)
      /\ Active(v, f) = {i \in DOMAIN new : ~new[i].off}
  <2> DEFINE whole == new
  <2>1. whole \in Seq(Lines) /\ Replaces(v, u, f, whole)
    BY <1>2
  <2> HIDE DEF new, whole
  <2>2. /\ Text(v, f) = whole
        /\ \A g \in Files : g # f => Text(v, g) = Text(u, g) /\ Active(v, g) = Active(u, g)
        /\ Active(v, f) = {i \in DOMAIN whole : ~whole[i].off}
    BY <2>1, Replaced
  <2> QED BY <2>2 DEF whole
<1> HIDE DEF old, new, k
<1>4. ASSUME NEW p \in Places(v, Files), ~Late(p)
      PROVE  p \in Places(u, Files) /\ LineAt(u, p) = LineAt(v, p)
  <2>1. p = <<p[1], p[2]>> /\ p[1] \in Files /\ p[2] \in Active(v, p[1])
    BY PlacesOf
  <2>2. CASE p[1] # f
    <3>1. Active(v, p[1]) = Active(u, p[1]) /\ Text(v, p[1]) = Text(u, p[1])
      BY <1>3, <2>1, <2>2
    <3>2. p \in Places(u, Files)
      BY <2>1, <3>1, PlacesOf
    <3> QED BY <3>1, <3>2 DEF LineAt
  <2>3. CASE p[1] = f
    <3>0. p[2] \in Active(v, f) /\ ~(p[2] > k)
      BY <1>4, <2>1, <2>3 DEF Late
    <3>1. p[2] \in 1..k /\ ~new[p[2]].off
      BY <1>1, <1>2, <1>3, <3>0
    <3>2. new[p[2]] = old[p[2]]
      BY <1>2, <3>1
    <3>3. p[2] \in Active(u, f)
      BY <1>1, <3>1, <3>2 DEF Active, old
    <3>4. p \in Places(u, Files)
      BY <2>1, <2>3, <3>3, PlacesOf
    <3> QED BY <1>3, <2>3, <3>2, <3>4 DEF LineAt, old
  <2> QED BY <2>2, <2>3
<1>5. ASSUME NEW p \in Places(v, Files), Late(p)
      PROVE  p[2] - k \in DOMAIN extra /\ LineAt(v, p) = extra[p[2] - k]
             /\ p = <<f, p[2]>> /\ p[2] \in Int
  <2>1. p = <<p[1], p[2]>> /\ p[2] \in Active(v, p[1])
    BY PlacesOf
  <2>2. p[1] = f /\ p[2] > k /\ p[2] \in DOMAIN new
    BY <1>3, <1>5, <2>1
  <2> QED BY <1>1, <1>2, <1>3, <2>1, <2>2 DEF LineAt
<1>6. ASSUME NEW o \in Places(v, Files), NEW q \in Places(v, Files), o # q,
             Same(LineAt(v, o), LineAt(v, q))
      PROVE  ~Late(o) /\ ~Late(q)
  <2>1. Same(LineAt(v, q), LineAt(v, o))
    BY <1>6 DEF Same, SamePos
  <2>2. CASE Late(o) /\ Late(q)
    <3>1. o[2] # q[2]
      BY <1>5, <1>6, <2>2
    <3> HIDE DEF Late
    <3>2. \A a, b \in Int : a # b => a - k # b - k
      BY <1>1
    <3>3. o[2] \in Int /\ q[2] \in Int
      BY <1>5, <2>2
    <3>4. o[2] - k # q[2] - k
      BY <3>1, <3>2, <3>3
    <3> QED BY <1>5, <1>6, <2>2, <3>4
  <2>3. CASE Late(o) /\ ~Late(q)
    <3> HIDE DEF Late
    <3> QED BY <1>4, <1>5, <2>1, <2>3
  <2>4. CASE ~Late(o) /\ Late(q)
    <3> HIDE DEF Late
    <3> QED BY <1>4, <1>5, <1>6, <2>4
  <2> HIDE DEF Late
  <2> QED BY <2>2, <2>3, <2>4
<1> HIDE DEF Late
<1> SUFFICES ASSUME NEW x \in Twice(v) PROVE x \in Twice(u)
  OBVIOUS
<1>7. PICK o \in Places(v, Files), q \in Places(v, Files) :
        /\ o # q /\ Same(LineAt(v, o), LineAt(v, q))
        /\ x = <<LineAt(v, q).word, Canonical[LineAt(v, q).kind]>>
  BY TwoPlaces
<1>8. /\ o \in Places(u, Files) /\ LineAt(u, o) = LineAt(v, o)
      /\ q \in Places(u, Files) /\ LineAt(u, q) = LineAt(v, q)
  BY <1>4, <1>6, <1>7
<1> QED BY <1>7, <1>8, TwoPlaces

\* Where the members of a picked sequence come from.
LEMMA PickFrom ==
  ASSUME NEW T, NEW s \in Seq(T), NEW P \in SUBSET (DOMAIN s)
  PROVE  \E at : \A n \in DOMAIN Pick(s, P) :
           /\ at[n] \in P /\ Pick(s, P)[n] = s[at[n]]
           /\ \A m \in DOMAIN Pick(s, P) : at[m] = at[n] => m = n
<1> DEFINE L == Ascending(P)
<1>1. P \in SUBSET Int /\ IsFiniteSet(P)
  <2>1. Len(s) \in Nat /\ DOMAIN s = 1..Len(s)
    OBVIOUS
  <2>2. IsFiniteSet(1..Len(s)) /\ P \in SUBSET (1..Len(s))
    BY <2>1, FS_Interval
  <2> QED BY <2>2, FS_Subset
<1>2. /\ L \in Seq(P) /\ DOMAIN L = 1..Cardinality(P) /\ Cardinality(P) \in Nat
      /\ \A m, n \in DOMAIN L : m < n => L[m] < L[n]
  BY <1>1, AscendingLists
<1>3. Pick(s, P) = [n \in DOMAIN L |-> s[L[n]]]
  BY DEF Pick
<1> HIDE DEF L
<1>4. \A n \in DOMAIN L : L[n] \in P /\ L[n] \in Int
  BY <1>1, <1>2
<1>5. ASSUME NEW m \in DOMAIN L, NEW n \in DOMAIN L, L[m] = L[n] PROVE m = n
  <2>1. ~(L[m] < L[n]) /\ ~(L[n] < L[m])
    BY <1>4, <1>5
  <2>2. ~(m < n) /\ ~(n < m)
    BY <1>2, <2>1
  <2> QED BY <1>2, <2>2
<1>6. DOMAIN Pick(s, P) = DOMAIN L /\ \A n \in DOMAIN L : Pick(s, P)[n] = s[L[n]]
  BY <1>3
<1> QED BY <1>4, <1>5, <1>6

\* Taking lines out of a file brings no duplicates.
LEMMA Sifted ==
  ASSUME NEW u \in Trees, NEW f \in Files, NEW gone,
         NEW v, Replaces(v, u, f, Without(u, f, gone))
  PROVE  Twice(v) \subseteq Twice(u)
<1> DEFINE text == Text(u, f)
           P == DOMAIN text \ gone
           new == Without(u, f, gone)
<1>1. text \in Seq(Lines) /\ P \in SUBSET (DOMAIN text) /\ new \in Seq(Lines) /\ new = Pick(text, P)
  BY TextTyped, WithoutTyped DEF Without
<1> HIDE DEF text, P, new
<1>2. PICK at : \A n \in DOMAIN new :
        /\ at[n] \in P /\ new[n] = text[at[n]]
        /\ \A m \in DOMAIN new : at[m] = at[n] => m = n
  BY <1>1, PickFrom
<1>3. \A n \in DOMAIN new : ~new[n].off => at[n] \in Active(u, f) /\ Same(new[n], Text(u, f)[at[n]])
  BY <1>1, <1>2 DEF Active, Same, SamePos, text
<1>4. \A i, j \in DOMAIN new : ~new[i].off /\ ~new[j].off /\ at[i] = at[j] => i = j
  BY <1>2
<1>5. Replaces(v, u, f, new)
  BY DEF new
<1>6. ComeFrom(new, at, u, f)
  BY <1>3, <1>4 DEF ComeFrom
<1> QED BY <1>1, <1>5, <1>6, FileEmbedded

\* Nor does disabling one of them.
LEMMA SwitchedOff ==
  ASSUME NEW u \in Trees, NEW f \in Files, NEW new \in Seq(Lines), NEW v, Replaces(v, u, f, new),
         DOMAIN new = DOMAIN Text(u, f),
         \A n \in DOMAIN new : new[n].off \/ new[n] = Text(u, f)[n]
  PROVE  Twice(v) \subseteq Twice(u)
<1> DEFINE same == [n \in DOMAIN new |-> n]
<1>1. \A n \in DOMAIN new : ~new[n].off => same[n] \in Active(u, f) /\ Same(new[n], Text(u, f)[same[n]])
  <2> SUFFICES ASSUME NEW n \in DOMAIN new, ~new[n].off
               PROVE  same[n] \in Active(u, f) /\ Same(new[n], Text(u, f)[same[n]])
    OBVIOUS
  <2>1. new[n] = Text(u, f)[n] /\ n \in DOMAIN Text(u, f) /\ same[n] = n
    OBVIOUS
  <2> HIDE DEF same
  <2> QED BY <2>1 DEF Active, Same, SamePos
<1>2. \A m, n \in DOMAIN new : ~new[m].off /\ ~new[n].off /\ same[m] = same[n] => m = n
  OBVIOUS
<1> HIDE DEF same
<1>3. ComeFrom(new, same, u, f)
  BY <1>1, <1>2 DEF ComeFrom
<1> QED BY <1>3, FileEmbedded

\* The tools that add look first, in all files and in the batch.
LEMMA AddersApart ==
  ASSUME NEW s \in Trees, NEW r \in Askable, NEW f \in Files, NEW v
  PROVE  /\ r.tool = "dict_add" /\ ~Has(s, r.word, r.kind)
            /\ Replaces(v, s, f, Append(Text(s, f), Entry(r.word, r.kind))) =>
              Twice(v) \subseteq Twice(s)
         /\ r.tool = "dict_bulk_add" /\ Replaces(v, s, f, Text(s, f) \o Fresh(s, r)) =>
              Twice(v) \subseteq Twice(s)
<1>1. /\ r.words \in Seq(Words)
      /\ r.tool \in {"dict_add", "dict_bulk_add"} => r.kind \in Kinds
      /\ r.tool = "dict_add" => r.word \in Words
  BY DEF Askable
<1>2. ASSUME NEW w, NEW p \in Places(s, Files), ~Has(s, w, r.kind)
      PROVE  ~Same(LineAt(s, p), Entry(w, r.kind))
  BY <1>2 DEF Has
<1>3. ASSUME r.tool = "dict_add", ~Has(s, r.word, r.kind),
             Replaces(v, s, f, Append(Text(s, f), Entry(r.word, r.kind)))
      PROVE  Twice(v) \subseteq Twice(s)
  <2> DEFINE e == Entry(r.word, r.kind)
             text == Text(s, f)
             extra == <<e>>
  <2>1. e \in Lines /\ text \in Seq(Lines)
    BY <1>1, <1>3, TextTyped DEF Entry, Lines
  <2>2. \A p \in Places(s, Files) : ~Same(LineAt(s, p), e)
    BY <1>2, <1>3
  <2> HIDE DEF e
  <2>3. extra \in Seq(Lines) /\ DOMAIN extra = {1} /\ extra[1] = e
    BY <2>1
  <2>4. Append(text, e) = text \o extra
    <3> HIDE DEF text
    <3> QED BY <2>1
  <2>5. Replaces(v, s, f, text \o extra)
    BY <1>3, <2>4 DEF e
  <2> HIDE DEF extra
  <2>6. \A n \in DOMAIN extra : \A p \in Places(s, Files) : ~Same(LineAt(s, p), extra[n])
    BY <2>2, <2>3
  <2>7. \A m, n \in DOMAIN extra : m # n => ~Same(extra[m], extra[n])
    BY <2>3
  <2> QED BY <2>3, <2>5, <2>6, <2>7, AppendedApart, Zenon
<1>4. ASSUME r.tool = "dict_bulk_add", Replaces(v, s, f, Text(s, f) \o Fresh(s, r))
      PROVE  Twice(v) \subseteq Twice(s)
  <2> DEFINE words == r.words
             P == {n \in DOMAIN words :
                     /\ ~Has(s, words[n], r.kind) /\ ~Unwanted(words[n], r)
                     /\ \A m \in 1..n - 1 : words[m] # words[n]}
             picked == Pick(words, P)
             extra == Fresh(s, r)
  <2>1. /\ words \in Seq(Words) /\ P \in SUBSET (DOMAIN words) /\ DOMAIN words = 1..Len(words)
        /\ Len(words) \in Nat
    BY <1>1
  <2>2. extra \in Seq(Lines)
    <3>1. \A w \in Words : Entry(w, r.kind) \in Lines
      BY <1>1, <1>4 DEF Entry, Lines
    <3> QED BY <1>1, <3>1, FreshTyped
  <2>3. extra = Entries(picked, r.kind)
    BY DEF Fresh
  <2>4. \A n \in P : n \in DOMAIN words /\ ~Has(s, words[n], r.kind)
                     /\ \A m \in 1..n - 1 : words[m] # words[n]
    OBVIOUS
  <2> HIDE DEF words, P
  <2>5. PICK at : \A n \in DOMAIN picked :
          /\ at[n] \in P /\ picked[n] = words[at[n]]
          /\ \A m \in DOMAIN picked : at[m] = at[n] => m = n
    BY <2>1, PickFrom
  <2>6. DOMAIN extra = DOMAIN picked /\ \A n \in DOMAIN extra : extra[n] = Entry(picked[n], r.kind)
    BY <2>3 DEF Entries
  <2> HIDE DEF extra, picked
  <2>7. \A n \in DOMAIN extra : \A p \in Places(s, Files) : ~Same(LineAt(s, p), extra[n])
    BY <1>2, <2>4, <2>5, <2>6
  <2>8. \A m, n \in P : m # n => words[m] # words[n]
    <3> SUFFICES ASSUME NEW m \in P, NEW n \in P, m # n PROVE words[m] # words[n]
      OBVIOUS
    <3>1. m \in 1..Len(words) /\ n \in 1..Len(words)
      BY <2>1
    <3>2. m \in 1..n - 1 \/ n \in 1..m - 1
      BY <2>1, <3>1
    <3> QED BY <2>4, <3>2
  <2>9. \A m, n \in DOMAIN extra : m # n => ~Same(extra[m], extra[n])
    <3> SUFFICES ASSUME NEW m \in DOMAIN extra, NEW n \in DOMAIN extra, m # n
                 PROVE  ~Same(extra[m], extra[n])
      OBVIOUS
    <3>1. at[m] # at[n] /\ at[m] \in P /\ at[n] \in P
      BY <2>5, <2>6
    <3>2. picked[m] # picked[n]
      BY <2>5, <2>6, <2>8, <3>1
    <3>3. extra[m].word = picked[m] /\ extra[n].word = picked[n]
      BY <2>6 DEF Entry
    <3> QED BY <3>2, <3>3 DEF Same
  <2>10. Replaces(v, s, f, Text(s, f) \o extra)
    BY <1>4 DEF extra
  <2> QED BY <2>2, <2>7, <2>9, <2>10, AppendedApart, Zenon
<1> QED BY <1>3, <1>4

\* The lines of body are those at different active places of a file.
Chosen(body, at, s, f) ==
  /\ \A n \in DOMAIN body : at[n] \in Active(s, f) /\ body[n] = Text(s, f)[at[n]]
  /\ \A m, n \in DOMAIN body : at[m] = at[n] => m = n

\* No line is active.
AllOff(q) == \A n \in DOMAIN q : q[n].off

\* Lines one after the other.
LEMMA Joined ==
  ASSUME NEW a \in Seq(Lines), NEW b \in Seq(Lines)
  PROVE  /\ a \o b \in Seq(Lines) /\ Len(a \o b) = Len(a) + Len(b)
         /\ \A n \in 1..Len(a \o b) :
              (a \o b)[n] = IF n <= Len(a) THEN a[n] ELSE b[n - Len(a)]
  BY ConcatProperties

\* Sorting puts every entry in one place only.
LEMMA Sorted ==
  ASSUME NEW s \in Trees, NEW f \in Files,
         NEW head \in Seq(Lines), AllOff(head), NEW rest \in Seq(Lines), AllOff(rest),
         NEW body \in Seq(Lines), NEW at, Chosen(body, at, s, f),
         NEW v, Replaces(v, s, f, head \o body \o rest)
  PROVE  Twice(v) \subseteq Twice(s)
<1> DEFINE k == Len(head)
           N == Len(body)
           front == head \o body
           new == front \o rest
           phi == [n \in DOMAIN new |-> at[n - k]]
<1>1. /\ k \in Nat /\ DOMAIN head = 1..k /\ N \in Nat /\ DOMAIN body = 1..N
      /\ Len(rest) \in Nat /\ DOMAIN rest = 1..Len(rest)
  OBVIOUS
<1>2. /\ front \in Seq(Lines) /\ Len(front) = k + N
      /\ \A n \in 1..Len(front) : front[n] = IF n <= k THEN head[n] ELSE body[n - k]
  <2>1. /\ front \in Seq(Lines) /\ Len(front) = Len(head) + Len(body)
        /\ \A n \in 1..Len(front) :
             front[n] = IF n <= Len(head) THEN head[n] ELSE body[n - Len(head)]
    BY ConcatProperties
  <2> HIDE DEF front
  <2> QED BY <1>1, <2>1
<1> HIDE DEF front
<1>3. /\ new \in Seq(Lines) /\ Len(new) = k + N + Len(rest)
      /\ \A n \in 1..Len(new) : new[n] = IF n <= k + N THEN front[n] ELSE rest[n - (k + N)]
  <2>1. /\ new \in Seq(Lines) /\ Len(new) = Len(front) + Len(rest)
        /\ \A n \in 1..Len(new) :
             new[n] = IF n <= Len(front) THEN front[n] ELSE rest[n - Len(front)]
    BY <1>2, Joined
  <2> HIDE DEF new
  <2> QED BY <1>2, <2>1
<1>4. Replaces(v, s, f, new)
  BY DEF front
<1> HIDE DEF k, N
<1>5. DOMAIN new = 1..(k + N + Len(rest))
  BY <1>3
<1> HIDE DEF new
<1>6. ASSUME NEW n \in DOMAIN new, ~new[n].off
      PROVE  n - k \in 1..N /\ new[n] = body[n - k] /\ n \in Int
  <2>1. n \in 1..(k + N + Len(rest)) /\ n \in Int
    BY <1>1, <1>5
  <2>2. CASE n > k + N
    <3>1. n - (k + N) \in DOMAIN rest /\ ~(n <= k + N) /\ n \in 1..Len(new)
      BY <1>1, <1>3, <2>1, <2>2
    <3>2. new[n] = rest[n - (k + N)]
      BY <1>3, <3>1
    <3> QED BY <1>6, <3>1, <3>2 DEF AllOff
  <2>3. CASE n <= k
    <3>1. n \in DOMAIN head /\ n <= k + N /\ n \in 1..Len(new) /\ n \in 1..Len(front)
      BY <1>1, <1>2, <1>3, <2>1, <2>3
    <3>2. new[n] = head[n]
      BY <1>2, <1>3, <2>3, <3>1
    <3> QED BY <1>6, <3>1, <3>2 DEF AllOff
  <2>4. CASE n > k /\ n <= k + N
    <3>1. n - k \in 1..N /\ ~(n <= k) /\ n \in 1..Len(new) /\ n \in 1..Len(front)
      BY <1>1, <1>2, <1>3, <2>1, <2>4
    <3>2. new[n] = body[n - k]
      BY <1>2, <1>3, <2>4, <3>1
    <3> QED BY <2>1, <3>1, <3>2
  <2> QED BY <1>1, <2>1, <2>2, <2>3, <2>4
<1>7. \A n \in DOMAIN new : phi[n] = at[n - k]
  OBVIOUS
<1> HIDE DEF phi
<1>8. \A n \in DOMAIN new : ~new[n].off => phi[n] \in Active(s, f) /\ Same(new[n], Text(s, f)[phi[n]])
  <2> SUFFICES ASSUME NEW n \in DOMAIN new, ~new[n].off
               PROVE  phi[n] \in Active(s, f) /\ Same(new[n], Text(s, f)[phi[n]])
    OBVIOUS
  <2> DEFINE m == n - k
  <2>1. m \in 1..N /\ new[n] = body[m] /\ phi[n] = at[m]
    BY <1>6, <1>7
  <2> HIDE DEF m
  <2>2. phi[n] \in Active(s, f) /\ new[n] = Text(s, f)[phi[n]]
    BY <1>1, <2>1 DEF Chosen
  <2> QED BY <2>2 DEF Same, SamePos
<1>9. \A m, n \in DOMAIN new : ~new[m].off /\ ~new[n].off /\ phi[m] = phi[n] => m = n
  <2> SUFFICES ASSUME NEW m \in DOMAIN new, NEW n \in DOMAIN new, ~new[m].off, ~new[n].off,
                      phi[m] = phi[n]
               PROVE  m = n
    OBVIOUS
  <2>1. m - k \in 1..N /\ n - k \in 1..N /\ m \in Int /\ n \in Int /\ at[m - k] = at[n - k]
    BY <1>6, <1>7
  <2>2. m - k = n - k
    BY <1>1, <2>1 DEF Chosen
  <2> QED BY <1>1, <2>1, <2>2
<1>10. ComeFrom(new, phi, s, f)
  BY <1>8, <1>9 DEF ComeFrom
<1> QED BY <1>3, <1>4, <1>10, FileEmbedded

\* dict_sort drops only lines that repeat another one.
LEMMA SortApart ==
  ASSUME NEW s \in Trees, NEW r \in Askable, r.tool = "dict_sort",
         NEW p \in Plans(s, r), NEW k \in DOMAIN p.edits,
         NEW v, Replaces(v, s, p.edits[k].file, p.edits[k].lines)
  PROVE  Twice(v) \subseteq Twice(s)
<1> DEFINE text == Text(s, r.user)
           rank(i) == Rank[<<text[i].word, text[i].kind>>]
           header == {i \in DOMAIN text : \A h \in 1..i : text[h].off}
           first == {i \in Active(s, r.user) : \A h \in 1..i - 1 : text[h] # text[i]}
           before == {q \in first \X first :
                        \/ rank(q[1]) < rank(q[2])
                        \/ rank(q[1]) = rank(q[2]) /\ q[1] < q[2]}
           sorted == Listed(first, before)
           body == [n \in DOMAIN sorted |-> text[sorted[n]]]
           gone == Active(s, r.user) \cup header
           head == Pick(text, header)
           rest == Without(s, r.user, gone)
<1>1. r.user \in Files
  BY DEF Askable
<1>2. p \in Sort(s, r)
  BY DEF Plans
<1>3. p = Write(<<Edit(r.user, head \o body \o rest)>>)
  <2>1. p # Refuse
    BY DEF Refuse
  <2> QED BY <1>2, <2>1 DEF Sort
<1>4. p.edits[k].file = r.user /\ p.edits[k].lines = head \o body \o rest
  <2> DEFINE new == head \o body \o rest
  <2>1. p.edits = <<Edit(r.user, new)>>
    BY <1>3 DEF Write
  <2> HIDE DEF new
  <2>2. k = 1 /\ p.edits[k] = Edit(r.user, new)
    BY <2>1
  <2>3. p.edits[k].file = r.user /\ p.edits[k].lines = new
    BY <2>2 DEF Edit
  <2> QED BY <2>3 DEF new
<1>5. /\ text \in Seq(Lines) /\ Len(text) \in Nat /\ DOMAIN text = 1..Len(text)
      /\ \A i \in DOMAIN text : text[i] \in Lines
  BY <1>1, TextTyped
<1>6. header \in SUBSET (DOMAIN text) /\ \A i \in header : text[i].off
  <2>1. \A i \in header : i \in 1..i
    BY <1>5
  <2> QED BY <2>1
<1>7. first \in SUBSET Active(s, r.user) /\ first \in SUBSET (DOMAIN text)
  BY DEF Active
<1>8. rest \in Seq(Lines) /\ \A n \in DOMAIN rest : rest[n].off
  <2> DEFINE P == DOMAIN text \ gone
  <2>1. rest \in Seq(Lines) /\ rest = Pick(text, P)
    BY <1>1, WithoutTyped DEF Without
  <2>2. P \in SUBSET (DOMAIN text) /\ \A i \in P : text[i].off
    BY DEF Active
  <2> HIDE DEF rest, P, text
  <2>3. \A n \in DOMAIN rest : \E i \in P : rest[n] = text[i]
    BY <1>5, <2>1, <2>2, PickKeeps
  <2> QED BY <2>1, <2>2, <2>3
<1> HIDE DEF header, text, rest
<1>9. head \in Seq(Lines) /\ \A n \in DOMAIN head : head[n].off
  <2>1. head \in Seq(Lines) /\ \A n \in DOMAIN head : \E i \in header : head[n] = text[i]
    BY <1>5, <1>6, PickKeeps
  <2> QED BY <1>6, <2>1
<1>10. \A i \in first : rank(i) \in Int /\ i \in Int
  <2> TAKE i \in first
  <2> HIDE DEF first
  <2>1. i \in DOMAIN text /\ text[i] \in Lines
    BY <1>5, <1>7
  <2>2. <<text[i].word, text[i].kind>> \in Words \X Kinds
    BY <2>1 DEF Lines
  <2> DEFINE e == <<text[i].word, text[i].kind>>
  <2> HIDE DEF e
  <2>3. Rank[e] \in Int
    BY <2>2, EditsAssumption DEF e
  <2> QED BY <1>5, <2>1, <2>3 DEF e
<1> HIDE DEF head
<1>11. IsFiniteSet(first)
  <2> HIDE DEF first
  <2>1. IsFiniteSet(1..Len(text))
    BY <1>5, FS_Interval
  <2> QED BY <1>5, <1>7, <2>1, FS_Subset
<1> HIDE DEF rank, first
<1>12. \A i, j \in first :
         <<i, j>> \in before <=> rank(i) < rank(j) \/ (rank(i) = rank(j) /\ i < j)
  OBVIOUS
<1> HIDE DEF before
<1>13. Orders(first, before)
  BY <1>10, <1>12 DEF Orders
<1> DEFINE N == Cardinality(first)
<1>14. /\ N \in Nat /\ sorted \in [1..N -> first]
       /\ \A m, n \in 1..N : m < n => <<sorted[m], sorted[n]>> \in before
  BY <1>11, <1>13, ListedInOrder
<1> HIDE DEF sorted, N
<1>15. \A m, n \in 1..N : sorted[m] = sorted[n] => m = n
  <2> SUFFICES ASSUME NEW m \in 1..N, NEW n \in 1..N, sorted[m] = sorted[n], m < n PROVE FALSE
    BY <1>14
  <2>1. <<sorted[m], sorted[m]>> \in before /\ sorted[m] \in first
    BY <1>14
  <2> DEFINE x == sorted[m]
  <2> HIDE DEF x
  <2>2. x \in first /\ (rank(x) < rank(x) \/ x < x)
    BY <1>12, <2>1 DEF x
  <2> QED BY <1>10, <2>2
<1>16. /\ DOMAIN body = 1..N /\ \A n \in 1..N : body[n] = Text(s, r.user)[sorted[n]]
       /\ body \in Seq(Lines)
  <2>1. DOMAIN body = 1..N /\ \A n \in 1..N : body[n] = text[sorted[n]]
    BY <1>14
  <2>2. body \in [1..N -> Lines]
    BY <1>5, <1>7, <1>14
  <2> HIDE DEF body
  <2> QED BY <1>14, <2>1, <2>2 DEF text
<1>18. Chosen(body, sorted, s, r.user)
  BY <1>7, <1>14, <1>15, <1>16 DEF Chosen
<1> HIDE DEF body
<1>17. Replaces(v, s, r.user, head \o body \o rest)
  BY <1>4
<1>19. AllOff(head) /\ AllOff(rest)
  BY <1>8, <1>9 DEF AllOff
<1> QED BY <1>1, <1>8, <1>9, <1>16, <1>17, <1>18, <1>19, Sorted

\* A move puts every line it takes out of one file into another one, once.
LEMMA Moved ==
  ASSUME NEW s \in Trees, NEW f \in Files, NEW g \in Files, f # g,
         NEW moved \in SUBSET Active(s, f), NEW v,
         Text(v, f) = Without(s, f, moved),
         Text(v, g) = Text(s, g) \o Pick(Text(s, f), moved),
         \A h \in Files : h # f /\ h # g => Text(v, h) = Text(s, h)
  PROVE  Twice(v) \subseteq Twice(s)
<1> DEFINE text == Text(s, f)
           old == Text(s, g)
           k == Len(old)
           P == DOMAIN text \ moved
           left == Without(s, f, moved)
           gone == Pick(text, moved)
           new == old \o gone
<1>1. /\ text \in Seq(Lines) /\ old \in Seq(Lines) /\ left \in Seq(Lines)
      /\ P \in SUBSET (DOMAIN text) /\ moved \in SUBSET (DOMAIN text) /\ left = Pick(text, P)
      /\ \A i \in moved : i \in Active(s, f)
  BY TextTyped, WithoutTyped DEF Without, Active
<1>2. Text(v, f) = left /\ Text(v, g) = new
  OBVIOUS
<1>3. P \cap moved = {}
  OBVIOUS
<1> HIDE DEF text, P, left
<1>4. PICK kept : \A n \in DOMAIN left :
        /\ kept[n] \in P /\ left[n] = text[kept[n]]
        /\ \A m \in DOMAIN left : kept[m] = kept[n] => m = n
  <2>1. PICK at : \A n \in DOMAIN Pick(text, P) :
          /\ at[n] \in P /\ Pick(text, P)[n] = text[at[n]]
          /\ \A m \in DOMAIN Pick(text, P) : at[m] = at[n] => m = n
    BY <1>1, PickFrom
  <2> QED BY <1>1, <2>1, Zenon
<1>5. PICK taken : \A n \in DOMAIN gone :
        /\ taken[n] \in moved /\ gone[n] = text[taken[n]]
        /\ \A m \in DOMAIN gone : taken[m] = taken[n] => m = n
  BY <1>1, PickFrom
<1>6. gone \in Seq(Lines)
  BY <1>1, PickKeeps
<1> HIDE DEF gone, old
<1>7. /\ k \in Nat /\ DOMAIN old = 1..k
      /\ \A n \in DOMAIN new : n \in Int /\ n >= 1
      /\ \A n \in DOMAIN new : n <= k => n \in 1..k /\ new[n] = old[n]
      /\ \A n \in DOMAIN new : n > k => n - k \in DOMAIN gone /\ new[n] = gone[n - k]
  <2>1. /\ new \in Seq(Lines) /\ Len(new) = k + Len(gone)
        /\ \A n \in 1..Len(new) : new[n] = IF n <= k THEN old[n] ELSE gone[n - k]
    BY <1>1, <1>6, Joined
  <2>2. /\ k \in Nat /\ Len(gone) \in Nat /\ DOMAIN gone = 1..Len(gone) /\ DOMAIN old = 1..k
        /\ DOMAIN new = 1..Len(new)
    BY <1>1, <1>6, <2>1
  <2> HIDE DEF new, k
  <2>3. \A n \in DOMAIN new : n \in 1..(k + Len(gone)) /\ n \in Int /\ n >= 1
    BY <2>1, <2>2
  <2>4. \A n \in DOMAIN new : n <= k => n \in 1..k /\ new[n] = old[n]
    BY <2>1, <2>2, <2>3
  <2>5. \A n \in DOMAIN new : n > k => n - k \in DOMAIN gone /\ ~(n <= k)
    BY <2>1, <2>2, <2>3
  <2> QED BY <2>1, <2>2, <2>3, <2>4, <2>5
<1> HIDE DEF new, k
<1> DEFINE Left(p) == p[1] = f
           Gone(p) == p[1] = g /\ p[2] > k
           Phi == [p \in Places(v, Files) |-> IF Left(p) THEN <<f, kept[p[2]]>>
                                              ELSE IF Gone(p) THEN <<f, taken[p[2] - k]>> ELSE p]
<1>8. ASSUME NEW p \in Places(v, Files), Left(p)
      PROVE  /\ p = <<f, p[2]>> /\ p[2] \in DOMAIN left /\ kept[p[2]] \in P
             /\ Phi[p] = <<f, kept[p[2]]>> /\ Phi[p] \in Places(s, Files)
             /\ Same(LineAt(v, p), LineAt(s, Phi[p]))
  <2>1. p = <<p[1], p[2]>> /\ p[1] = f /\ p[2] \in Active(v, f)
    BY <1>8, PlacesOf
  <2>2. p[2] \in DOMAIN left /\ ~left[p[2]].off
    BY <1>2, <2>1 DEF Active
  <2>3. Phi[p] = <<f, kept[p[2]]>>
    BY <1>8
  <2> HIDE DEF Phi
  <2>4. kept[p[2]] \in P /\ left[p[2]] = text[kept[p[2]]]
    BY <1>4, <2>2
  <2>5. kept[p[2]] \in Active(s, f)
    BY <1>1, <2>2, <2>4 DEF Active, text
  <2>6. LineAt(v, p) = left[p[2]] /\ LineAt(s, Phi[p]) = text[kept[p[2]]]
    BY <1>2, <2>1, <2>3 DEF LineAt, text
  <2> QED BY <2>1, <2>2, <2>3, <2>4, <2>5, <2>6, PlacesOf DEF Same, SamePos
<1>9. ASSUME NEW p \in Places(v, Files), Gone(p)
      PROVE  /\ p = <<g, p[2]>> /\ p[2] \in Int /\ p[2] - k \in DOMAIN gone
             /\ taken[p[2] - k] \in moved
             /\ Phi[p] = <<f, taken[p[2] - k]>> /\ Phi[p] \in Places(s, Files)
             /\ Same(LineAt(v, p), LineAt(s, Phi[p]))
  <2>1. p = <<p[1], p[2]>> /\ p[1] = g /\ p[2] > k /\ p[2] \in Active(v, g)
    BY <1>9, PlacesOf
  <2>2. p[2] \in DOMAIN new
    BY <1>2, <2>1 DEF Active
  <2>3. Phi[p] = <<f, taken[p[2] - k]>>
    BY <1>9
  <2> HIDE DEF Phi
  <2> DEFINE n == p[2] - k
  <2>4. n \in DOMAIN gone /\ new[p[2]] = gone[n] /\ p[2] \in Int
    BY <1>7, <2>1, <2>2
  <2>5. Phi[p] = <<f, taken[n]>>
    BY <2>3
  <2> HIDE DEF n
  <2>6. taken[n] \in moved /\ gone[n] = text[taken[n]]
    BY <1>5, <2>4
  <2>7. LineAt(v, p) = new[p[2]] /\ LineAt(s, Phi[p]) = text[taken[n]]
    BY <1>2, <2>1, <2>5 DEF LineAt, text
  <2>8. Phi[p] \in Places(s, Files)
    BY <1>1, <2>5, <2>6, PlacesOf
  <2>9. Same(LineAt(v, p), LineAt(s, Phi[p]))
    BY <2>4, <2>6, <2>7 DEF Same, SamePos
  <2> QED BY <2>1, <2>4, <2>5, <2>6, <2>8, <2>9 DEF n
<1>10. ASSUME NEW p \in Places(v, Files), ~Left(p), ~Gone(p)
       PROVE  /\ Phi[p] = p /\ p \in Places(s, Files) /\ p = <<p[1], p[2]>>
              /\ Same(LineAt(v, p), LineAt(s, Phi[p]))
  <2>1. p = <<p[1], p[2]>> /\ p[1] \in Files /\ p[1] # f /\ p[2] \in Active(v, p[1])
    BY <1>10, PlacesOf
  <2>2. Phi[p] = p
    BY <1>10
  <2> HIDE DEF Phi
  <2>3. p[2] \in Active(s, p[1]) /\ Text(v, p[1])[p[2]] = Text(s, p[1])[p[2]]
    <3>1. CASE p[1] = g
      <4>1. p[2] \in DOMAIN new /\ ~new[p[2]].off /\ ~(p[2] > k)
        BY <1>2, <1>10, <2>1, <3>1 DEF Active
      <4>2. p[2] \in 1..k /\ new[p[2]] = old[p[2]]
        BY <1>7, <4>1
      <4> QED BY <1>2, <1>7, <3>1, <4>1, <4>2 DEF Active, old
    <3>2. CASE p[1] # g
      BY <2>1, <3>2 DEF Active
    <3> QED BY <3>1, <3>2
  <2> QED BY <2>1, <2>2, <2>3, PlacesOf DEF LineAt, Same, SamePos
<1> HIDE DEF Phi
<1>11. \A p \in Places(v, Files) :
         Phi[p] \in Places(s, Files) /\ Same(LineAt(v, p), LineAt(s, Phi[p]))
  BY <1>8, <1>9, <1>10
<1>12. ASSUME NEW p \in Places(v, Files), NEW q \in Places(v, Files), Phi[p] = Phi[q], ~Left(p), Left(q)
       PROVE  FALSE
  <2>1. Phi[q] = <<f, kept[q[2]]>> /\ kept[q[2]] \in P
    BY <1>8, <1>12
  <2>2. CASE Gone(p)
    <3>1. Phi[p] = <<f, taken[p[2] - k]>> /\ taken[p[2] - k] \in moved
      BY <1>9, <2>2
    <3>2. taken[p[2] - k] = kept[q[2]]
      BY <1>12, <2>1, <3>1
    <3> QED BY <1>3, <2>1, <3>1, <3>2
  <2>3. CASE ~Gone(p)
    <3>1. Phi[p] = p
      BY <1>10, <1>12, <2>3
    <3>2. p[1] = f
      BY <1>12, <2>1, <3>1
    <3> QED BY <1>12, <3>2
  <2> QED BY <2>2, <2>3
<1>13. ASSUME NEW p \in Places(v, Files), NEW q \in Places(v, Files), Phi[p] = Phi[q],
              ~Left(p), ~Left(q), ~Gone(p), Gone(q)
       PROVE  FALSE
  <2>1. Phi[q] = <<f, taken[q[2] - k]>> /\ Phi[p] = p
    BY <1>9, <1>10, <1>13
  <2>2. p[1] = f
    BY <1>13, <2>1
  <2> QED BY <1>13, <2>2
<1>14. ASSUME NEW p \in Places(v, Files), NEW q \in Places(v, Files), Phi[p] = Phi[q]
       PROVE  p = q
  <2>1. CASE Left(p) /\ Left(q)
    <3>1. kept[p[2]] = kept[q[2]] /\ p[2] \in DOMAIN left /\ q[2] \in DOMAIN left
          /\ p = <<f, p[2]>> /\ q = <<f, q[2]>>
      BY <1>8, <1>14, <2>1
    <3> QED BY <1>4, <3>1
  <2>2. CASE ~Left(p) /\ ~Left(q) /\ Gone(p) /\ Gone(q)
    <3>1. /\ taken[p[2] - k] = taken[q[2] - k]
          /\ p[2] - k \in DOMAIN gone /\ q[2] - k \in DOMAIN gone
          /\ p[2] \in Int /\ q[2] \in Int /\ p = <<g, p[2]>> /\ q = <<g, q[2]>>
      BY <1>9, <1>14, <2>2
    <3>2. p[2] - k = q[2] - k
      BY <1>5, <3>1
    <3>3. \A a, b \in Int : a - k = b - k => a = b
      BY <1>7
    <3>4. p[2] = q[2]
      BY <3>1, <3>2, <3>3
    <3> QED BY <3>1, <3>4
  <2>3. CASE ~Left(p) /\ ~Left(q) /\ ~Gone(p) /\ ~Gone(q)
    BY <1>10, <1>14, <2>3
  <2> HIDE DEF Left, Gone
  <2> QED BY <1>12, <1>13, <1>14, <2>1, <2>2, <2>3
<1> QED BY <1>11, <1>14, Embedded, Zenon

\* The tree u has the first k writes of a plan for s.
Partly(u, es, k, s) ==
  /\ \A i \in 1..k : u[es[i].file] = es[i].lines
  /\ \A f \in Files : (\A i \in 1..k : es[i].file # f) => u[f] = s[f]

\* The file a plan writes next is the one the plan was made for.
LEMMA NextUntouched ==
  ASSUME NEW s \in Trees, NEW r, NEW p, PlanFits(p, r), NEW k \in Nat, k + 1 \in DOMAIN p.edits,
         NEW u \in Trees, Partly(u, p.edits, k, s)
  PROVE  /\ p.edits[k + 1].file \in Files
         /\ u[p.edits[k + 1].file] = s[p.edits[k + 1].file]
         /\ Text(u, p.edits[k + 1].file) = Text(s, p.edits[k + 1].file)
         /\ k = 0 => u = s
<1> DEFINE es == p.edits
           f == es[k + 1].file
<1>1. /\ es \in Seq(Edits) /\ \A i, j \in DOMAIN es : es[i].file = es[j].file => i = j
  BY DEF PlanFits
<1>2. k + 1 \in DOMAIN es /\ Partly(u, es, k, s)
  OBVIOUS
<1> HIDE DEF es
<1>3. es[k + 1] \in Edits /\ \A i \in 1..k : i \in DOMAIN es /\ i # k + 1
  <2>1. DOMAIN es = 1..Len(es) /\ Len(es) \in Nat
    BY <1>1
  <2> QED BY <1>1, <1>2, <2>1
<1>4. f \in Files
  BY <1>3 DEF Edits
<1>5. \A i \in 1..k : es[i].file # f
  BY <1>1, <1>2, <1>3
<1>6. u[f] = s[f]
  BY <1>2, <1>4, <1>5 DEF Partly
<1>7. k = 0 => u = s
  <2> SUFFICES ASSUME k = 0 PROVE u = s
    OBVIOUS
  <2>1. \A i : i \notin 1..k
    OBVIOUS
  <2>2. \A g \in Files : u[g] = s[g]
    BY <1>2, <2>1 DEF Partly
  <2> QED BY <2>2 DEF Trees
<1> QED BY <1>4, <1>6, <1>7 DEF Text, es

\* Striking entries out brings no duplicates, file by file.
LEMMA StrikeApart ==
  ASSUME NEW s \in Trees, NEW gone, NEW order, NEW k \in Nat, k + 1 \in DOMAIN order,
         NEW u \in Trees, NEW v,
         LET e == Strike(s, gone, order)[k + 1]
         IN  e.file \in Files /\ Text(u, e.file) = Text(s, e.file) /\ Replaces(v, u, e.file, e.lines)
  PROVE  Twice(v) \subseteq Twice(u)
<1> DEFINE f == order[k + 1]
           P == {i \in DOMAIN Text(s, f) : <<f, i>> \in gone}
<1>1. Strike(s, gone, order)[k + 1] = Edit(f, Without(s, f, P))
  BY DEF Strike
<1> HIDE DEF P, f
<1>2. f \in Files /\ Text(u, f) = Text(s, f) /\ Replaces(v, u, f, Without(s, f, P))
  BY <1>1 DEF Edit
<1>3. Without(s, f, P) = Without(u, f, P)
  BY <1>2 DEF Without
<1>4. Replaces(v, u, f, Without(u, f, P))
  BY <1>2, <1>3
<1> QED BY <1>2, <1>4, Sifted

\* A single write.
LEMMA OneWrite ==
  ASSUME NEW f, NEW lines, NEW p, p = Write(<<Edit(f, lines)>>),
         NEW k \in Nat, k + 1 \in DOMAIN p.edits
  PROVE  k = 0 /\ p.edits[k + 1].file = f /\ p.edits[k + 1].lines = lines
<1>1. p.edits = <<Edit(f, lines)>>
  BY DEF Write
<1>2. k = 0 /\ p.edits[k + 1] = Edit(f, lines)
  BY <1>1
<1> QED BY <1>2 DEF Edit

\* No write of any tool but dict_enable gives the sources a word and POS twice
\* that they did not have twice, nor had when the tool decided.
LEMMA WritesApart ==
  ASSUME NEW s \in Trees, NEW r \in Askable, r.tool # "dict_enable", NEW p \in Plans(s, r),
         NEW k \in Nat, k + 1 \in DOMAIN p.edits,
         NEW u \in Trees, Partly(u, p.edits, k, s),
         NEW v, Replaces(v, u, p.edits[k + 1].file, p.edits[k + 1].lines)
  PROVE  Twice(v) \subseteq Twice(u) \cup Twice(s)
<1> DEFINE e == p.edits[k + 1]
           f == e.file
<1>1. /\ PlanFits(p, r) /\ p # Refuse /\ p # NothingToDo
  BY PlansFit DEF Refuse, NothingToDo
<1>2. f \in Files /\ u[f] = s[f] /\ Text(u, f) = Text(s, f) /\ (k = 0 => u = s)
  BY <1>1, NextUntouched
<1>3. Replaces(v, u, f, e.lines)
  OBVIOUS
<1> HIDE DEF e
<1>4. CASE r.tool = "dict_add"
  <2> DEFINE lines == Append(Text(s, Target(r)), Entry(r.word, r.kind))
  <2>1. p \in AddEntry(s, r)
    BY <1>4 DEF Plans
  <2>2. p = Write(<<Edit(Target(r), lines)>>) /\ ~Has(s, r.word, r.kind)
    BY <1>1, <2>1 DEF AddEntry
  <2> HIDE DEF lines
  <2>3. k = 0 /\ f = Target(r) /\ e.lines = lines
    BY <2>2, OneWrite DEF e
  <2>4. Replaces(v, s, f, Append(Text(s, f), Entry(r.word, r.kind)))
    BY <1>2, <1>3, <2>3 DEF lines
  <2> QED BY <1>2, <1>4, <2>2, <2>4, AddersApart
<1>5. CASE r.tool = "dict_bulk_add"
  <2> DEFINE lines == Text(s, Target(r)) \o Fresh(s, r)
  <2>1. p \in BulkAdd(s, r)
    BY <1>5 DEF Plans
  <2>2. p = Write(<<Edit(Target(r), lines)>>)
    BY <1>1, <2>1 DEF BulkAdd
  <2> HIDE DEF lines
  <2>3. k = 0 /\ f = Target(r) /\ e.lines = lines
    BY <2>2, OneWrite DEF e
  <2>4. Replaces(v, s, f, Text(s, f) \o Fresh(s, r))
    BY <1>2, <1>3, <2>3 DEF lines
  <2> QED BY <1>2, <1>5, <2>4, AddersApart
<1>6. CASE r.tool = "dict_remove"
  <2>1. p \in RemoveEntry(s, r)
    BY <1>6 DEF Plans
  <2>2. PICK c : p = Write(<<Edit(c[1], Without(s, c[1], {c[2]}))>>)
    BY <1>1, <2>1 DEF RemoveEntry
  <2> DEFINE lines == Without(s, c[1], {c[2]})
  <2>3. p = Write(<<Edit(c[1], lines)>>)
    BY <2>2
  <2> HIDE DEF lines
  <2>4. k = 0 /\ f = c[1] /\ e.lines = lines
    BY <2>3, OneWrite DEF e
  <2>5. Replaces(v, s, f, Without(s, f, {c[2]}))
    BY <1>2, <1>3, <2>4 DEF lines
  <2> QED BY <1>2, <2>5, Sifted
<1>7. CASE r.tool = "dict_disable"
  <2>1. p \in Toggle(s, r) /\ (r.tool = "dict_enable") = FALSE
    BY <1>7 DEF Plans
  <2>2. PICK c : p = Write(<<Edit(c[1], [Text(s, c[1]) EXCEPT ![c[2]].off = TRUE])>>)
    BY <1>1, <2>1 DEF Toggle
  <2> DEFINE text == Text(s, c[1])
             i == c[2]
             l == [text[i] EXCEPT !.off = TRUE]
             lines == [text EXCEPT ![i] = l]
  <2>3. p = Write(<<Edit(c[1], lines)>>)
    BY <2>2
  <2> HIDE DEF lines
  <2>4. k = 0 /\ f = c[1] /\ e.lines = lines
    BY <2>3, OneWrite DEF e
  <2>5. text \in Seq(Lines) /\ text = Text(s, f) /\ Replaces(v, s, f, lines)
    BY <1>2, <1>3, <2>4, TextTyped
  <2> HIDE DEF text
  <2>6. lines \in Seq(Lines)
    <3>1. \A j \in DOMAIN p.edits : p.edits[j] \in Edits
      BY <1>1 DEF PlanFits
    <3>2. e \in Edits
      BY <3>1 DEF e
    <3> QED BY <2>4, <3>2 DEF Edits
  <2>7. DOMAIN lines = DOMAIN text /\ \A n \in DOMAIN lines : lines[n].off \/ lines[n] = text[n]
    <3>1. l.off = TRUE \/ i \notin DOMAIN text
      <4>1. i \in DOMAIN text => text[i] \in Lines
        BY <2>5
      <4> DEFINE m == text[i]
      <4> HIDE DEF m
      <4>2. m \in Lines => [m EXCEPT !.off = TRUE].off = TRUE
        BY DEF Lines
      <4> QED BY <4>1, <4>2 DEF m
    <3> HIDE DEF l, i
    <3>2. DOMAIN lines = DOMAIN text
          /\ \A n \in DOMAIN lines : lines[n] = IF n = i THEN l ELSE text[n]
      BY DEF lines
    <3> QED BY <3>1, <3>2
  <2> QED BY <1>2, <2>5, <2>6, <2>7, SwitchedOff
<1>8. CASE r.tool = "dict_sort"
  <2>1. p \in Sort(s, r)
    BY <1>8 DEF Plans
  <2>2. \E g, lines : p = Write(<<Edit(g, lines)>>)
    BY <1>1, <2>1, Zenon DEF Sort
  <2> PICK g, lines : p = Write(<<Edit(g, lines)>>)
    BY <2>2
  <2>3. k = 0
    BY OneWrite
  <2>4. Replaces(v, s, e.file, e.lines)
    BY <1>2, <1>3, <2>3
  <2> QED BY <1>8, <2>3, <2>4, SortApart DEF e
<1>9. CASE r.tool \in {"dict_remove_matching", "dict_validate"}
  <2>1. PICK gone, order : p = Write(Strike(s, gone, order))
    <3>1. CASE r.tool = "dict_remove_matching"
      <4>1. p \in RemoveMatching(s, r)
        BY <3>1 DEF Plans
      <4> QED BY <1>1, <4>1, Zenon DEF RemoveMatching
    <3>2. CASE r.tool = "dict_validate"
      <4>1. p \in Validate(s)
        BY <3>2 DEF Plans
      <4> QED BY <1>1, <4>1, Zenon DEF Validate
    <3> QED BY <1>9, <3>1, <3>2
  <2>2. p.edits = Strike(s, gone, order) /\ DOMAIN Strike(s, gone, order) = DOMAIN order
    BY <2>1 DEF Write, Strike
  <2>3. e = Strike(s, gone, order)[k + 1] /\ k + 1 \in DOMAIN order
    BY <2>2 DEF e
  <2>4. Twice(v) \subseteq Twice(u)
    BY <1>2, <1>3, <2>3, StrikeApart
  <2> QED BY <2>4
<1>10. CASE r.tool = "dict_bulk_move"
  <2> DEFINE moved == {i \in Active(s, r.user) :
                         r.words = <<>> \/ Text(s, r.user)[i].word \in ToSet(r.words)}
             less == Without(s, r.user, moved)
             more == Text(s, r.to) \o Pick(Text(s, r.user), moved)
  <2>1. p \in Move(s, r)
    BY <1>10 DEF Plans
  <2>2. p = Write(<<Edit(r.user, less), Edit(r.to, more)>>) /\ r.user # r.to
    BY <1>1, <2>1 DEF Move
  <2>3. moved \in SUBSET Active(s, r.user)
    OBVIOUS
  <2>4. r.user \in Files /\ r.to \in Files
    BY <1>10, FilesOfDictionaries DEF Askable
  <2> HIDE DEF moved, less, more
  <2>5. /\ k = 0 \/ k = 1
        /\ p.edits[1].file = r.user /\ p.edits[1].lines = less
        /\ p.edits[2].file = r.to /\ p.edits[2].lines = more
    <3>1. p.edits = <<Edit(r.user, less), Edit(r.to, more)>>
      BY <2>2 DEF Write
    <3>2. DOMAIN p.edits = {1, 2} /\ p.edits[1] = Edit(r.user, less) /\ p.edits[2] = Edit(r.to, more)
      BY <3>1
    <3> QED BY <3>2 DEF Edit
  <2>6. CASE k = 0
    <3>1. f = r.user /\ e.lines = less
      BY <2>5, <2>6 DEF e
    <3>2. Replaces(v, s, f, Without(s, f, moved))
      BY <1>2, <1>3, <2>6, <3>1 DEF less
    <3> QED BY <1>2, <3>2, Sifted
  <2>7. CASE k = 1
    <3>1. f = r.to /\ e.lines = more
      BY <2>5, <2>7 DEF e
    <3>2. u[r.user] = less /\ \A g \in Files : g # r.user => u[g] = s[g]
      <4>1. 1 \in 1..k /\ \A i \in 1..k : i = 1
        BY <2>7
      <4> QED BY <2>5, <4>1 DEF Partly
    <3>3. less \in Seq(Lines) /\ more \in Seq(Lines)
      <4>1. \A i \in DOMAIN p.edits : p.edits[i].lines \in Seq(Lines)
        <5>1. \A i \in DOMAIN p.edits : p.edits[i] \in Edits
          BY <1>1 DEF PlanFits
        <5> QED BY <5>1 DEF Edits
      <4>2. DOMAIN p.edits = {1, 2}
        BY <2>2 DEF Write
      <4> QED BY <2>5, <4>1, <4>2
    <3>4. v[r.user] = less /\ v[r.to] = more
          /\ \A g \in Files : g # r.user /\ g # r.to => v[g] = s[g]
      BY <1>3, <2>2, <2>4, <3>1, <3>2 DEF Replaces
    <3>5. Text(v, r.user) = less /\ Text(v, r.to) = more
          /\ \A g \in Files : g # r.user /\ g # r.to => Text(v, g) = Text(s, g)
      BY <3>3, <3>4, EditsAssumption DEF Text
    <3> QED BY <2>2, <2>3, <2>4, <3>5, Moved DEF less, more
  <2> QED BY <2>5, <2>6, <2>7
<1>11. r.tool \in {"dict_add", "dict_bulk_add", "dict_remove", "dict_disable",
                   "dict_bulk_move", "dict_remove_matching", "dict_validate", "dict_sort"}
  BY DEF Askable
<1> QED BY <1>4, <1>5, <1>6, <1>7, <1>8, <1>9, <1>10, <1>11

\* What a call is writing is a plan it made for the tree it has read.
Planned ==
  \A t \in Tasks : pc[t] = "write" => \E p \in Plans(snapshot[t], request[t]) : edits[t] = p.edits

\* No step of a call makes it write anything else.
LEMMA PlannedStep ==
  TypeOK /\ Planned /\ [Next]_vars => Planned'
<1> SUFFICES ASSUME TypeOK, Planned, [Next]_vars PROVE Planned'
  OBVIOUS
<1>1. ASSUME NEW t \in Tasks, NEW r \in Requests, Call(t, r) PROVE Planned'
  <2>1. PICK p \in Plans(sources, r) : edits' = [edits EXCEPT ![t] = p.edits]
    BY <1>1 DEF Call, Decide
  <2>2. /\ request' = [request EXCEPT ![t] = r] /\ snapshot' = [snapshot EXCEPT ![t] = sources]
        /\ \E where : pc' = [pc EXCEPT ![t] = where]
    BY <1>1 DEF Call, Decide, Goto
  <2>3. edits'[t] = p.edits /\ request'[t] = r /\ snapshot'[t] = sources
    BY <2>1, <2>2 DEF TypeOK
  <2>4. \A u \in Tasks : u # t => /\ pc'[u] = pc[u] /\ edits'[u] = edits[u]
                                  /\ request'[u] = request[u] /\ snapshot'[u] = snapshot[u]
    BY <2>1, <2>2 DEF TypeOK
  <2>5. ASSUME NEW u \in Tasks, pc'[u] = "write"
        PROVE  \E q \in Plans(snapshot'[u], request'[u]) : edits'[u] = q.edits
    <3>1. CASE u = t
      BY <2>3, <3>1
    <3>2. CASE u # t
      <4>1. pc[u] = "write" /\ edits'[u] = edits[u]
            /\ request'[u] = request[u] /\ snapshot'[u] = snapshot[u]
        BY <2>4, <2>5, <3>2
      <4>2. \E q \in Plans(snapshot[u], request[u]) : edits[u] = q.edits
        BY <4>1 DEF Planned
      <4> QED BY <4>1, <4>2
    <3> QED BY <3>1, <3>2
  <2> QED BY <2>5 DEF Planned
<1>2. ASSUME edits' = edits, request' = request, snapshot' = snapshot,
             \A u \in Tasks : pc'[u] = "write" => pc[u] = "write"
      PROVE  Planned'
  BY <1>2 DEF Planned
<1>3. ASSUME NEW t \in Tasks, NEW where, Goto(t, where), where # "write"
      PROVE  \A u \in Tasks : pc'[u] = "write" => pc[u] = "write"
  BY <1>3 DEF Goto, TypeOK
<1>4. ASSUME NEW t \in Tasks, Step(t) \/ Process(t) \/ Cancel(t) PROVE Planned'
  <2>1. edits' = edits /\ request' = request /\ snapshot' = snapshot
    BY <1>4 DEF Step, Process, Cancel, WriteFile, WriteFails, CompilerMissing, RollBack, StartCompiler,
                Publish, CompileFailed, Restore, RestoreFails, RolledBack, Answer, Glob, ReadSource,
                CompilerExits, call
  <2>2. pc' = pc \/ \E where \in {"wait", "idle", "rollback", "answer"} : Goto(t, where)
    BY <1>4 DEF Step, Process, Cancel, WriteFile, WriteFails, CompilerMissing, RollBack, StartCompiler,
                Publish, CompileFailed, Restore, RestoreFails, RolledBack, Answer, Glob, ReadSource,
                CompilerExits, call
  <2>3. \A u \in Tasks : pc'[u] = "write" => pc[u] = "write"
    BY <1>3, <2>2
  <2> QED BY <1>2, <2>1, <2>3
<1>5. ASSUME UNCHANGED vars PROVE Planned'
  BY <1>2, <1>5 DEF vars, call
<1> QED BY <1>1, <1>4, <1>5 DEF Next

\* The step that writes a file, of a call that has written some already.
LEMMA WriteApart ==
  ASSUME ToolsInv, Planned, NEW t \in Tasks, WriteFile(t), request[t].tool # "dict_enable"
  PROVE  Twice(sources') \subseteq Twice(sources) \cup Twice(snapshot[t])
<1>1. /\ TypeOK /\ TaskInv(t) /\ pc[t] = "write" /\ todo[t] # <<>>
      /\ Store(t, Head(todo[t]).file, Head(todo[t]).lines)
      /\ todo' = [todo EXCEPT ![t] = Tail(@)] /\ edits' = edits
  BY DEF ToolsInv, WriteFile, call
<1>2. Writing(t) /\ Behind(t) /\ WholePlan(t)
  BY <1>1 DEF TaskInv, Writing
<1>3. PICK p \in Plans(snapshot[t], request[t]) : edits[t] = p.edits
  BY <1>1 DEF Planned
<1>4. snapshot[t] \in Trees /\ request[t] \in Askable /\ sources \in Trees
  BY <1>1, ToolsAssumption DEF TypeOK
<1>5. /\ Made(t) \in Nat /\ Made(t) + 1 \in DOMAIN edits[t]
      /\ Head(todo[t]) = edits[t][Made(t) + 1] /\ edits[t][Made(t) + 1].file \in Files
  <2>1. todo'[t] = Tail(todo[t]) /\ edits'[t] = edits[t]
    BY <1>1 DEF TypeOK
  <2> QED BY <1>1, <1>2, <2>1, NextWrite
<1> PICK k : k = Made(t)
  OBVIOUS
<1> PICK s : s = snapshot[t]
  OBVIOUS
<1> PICK u : u = sources
  OBVIOUS
<1> PICK v : v = sources'
  OBVIOUS
<1>6. Partly(u, p.edits, k, s)
  BY <1>2, <1>3 DEF Writing, Partly
<1>7. Replaces(v, u, p.edits[k + 1].file, p.edits[k + 1].lines)
  BY <1>1, <1>3, <1>4, <1>5 DEF Store, Replaces, Trees
<1>8. Twice(v) \subseteq Twice(u) \cup Twice(s)
  <2>1. /\ s \in Trees /\ u \in Trees /\ request[t] \in Askable /\ p \in Plans(s, request[t])
        /\ k \in Nat /\ k + 1 \in DOMAIN p.edits
    BY <1>3, <1>4, <1>5
  <2> QED BY <1>6, <1>7, <2>1, WritesApart
<1> QED BY <1>8

\* The duplicate checks hold across concurrent calls: only a rollback and
\* dict_enable put a second active entry of a word and POS into the sources
\* (dict_add, dict_bulk_add and the tools that rewrite files).
THEOREM OnlyRestoredTwice ==
  Spec => DuplicatesOnlyRestored
<1>1. Init => Planned
  BY DEF Init, Planned
<1>2. ToolsInv => TypeOK
  BY DEF ToolsInv
<1>3. ASSUME ToolsInv, Planned, [Next]_vars
      PROVE  [\A t \in Tasks :
                loop = t /\ pc[t] # "rollback" /\ request[t].tool # "dict_enable" =>
                  Twice(sources') \subseteq Twice(sources) \cup Twice(snapshot[t])]_sources
  <2> SUFFICES ASSUME sources' # sources, NEW t \in Tasks, loop = t, pc[t] # "rollback",
                      request[t].tool # "dict_enable"
               PROVE  Twice(sources') \subseteq Twice(sources) \cup Twice(snapshot[t])
    BY Zenon
  <2>1. PICK u \in Tasks : WriteFile(u) \/ Restore(u)
    BY <1>3 DEF Next, Call, Decide, Step, Process, Cancel, WriteFails, CompilerMissing, RollBack,
                StartCompiler, Publish, CompileFailed, RestoreFails, RolledBack, Answer, Glob,
                ReadSource, CompilerExits, vars
  <2>2. WriteFile(t)
    BY <2>1 DEF WriteFile, Restore
  <2> QED BY <1>3, <2>2, WriteApart
<1> QED BY <1>1, <1>2, <1>3, PlannedStep, ToolsInvHolds, PTL DEF Spec, DuplicatesOnlyRestored
=============================================================================
