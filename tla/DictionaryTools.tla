--------------------------- MODULE DictionaryTools ---------------------------
(***************************************************************************)
(* Concurrent dictionary tools of the MCP server                           *)
(* (_dict_tools_common.py, _write_files_and_recompile and its callers).    *)
(* Every call is a task of one event loop: it reads, decides and writes    *)
(* while it holds the loop, waits for `suzume-cli dict compile` without    *)
(* it, and publishes or rolls back while it holds it again.  The compiler  *)
(* is a process of its own that reads the sources file by file at any      *)
(* time.  Nothing serializes the calls.                                    *)
(*                                                                         *)
(* pc[t]: write, wait, rollback, answer; idle before a call and after it.  *)
(***************************************************************************)
EXTENDS DictionaryEdits

CONSTANTS
  Tasks,
  Nobody,
  Requests,
  Worlds,         \* the source trees a behaviour starts from
  MaxCalls        \* bound on the calls of one behaviour

Dictionaries == {"core", "user"}

ASSUME ToolsAssumption ==
  /\ Nobody \notin Tasks
  /\ Requests \subseteq Askable /\ Requests # {}
  /\ Worlds \subseteq Trees
  /\ MaxCalls \in Nat

VARIABLES
  sources,        \* the files under data/core and data/user
  dic,            \* core.dic and user.dic: what each has from which file
  loop,           \* the task that runs on the event loop
  pc, request,    \* where a call is; what was asked
  edits,          \* the writes it decided on (updates)
  todo,           \* the writes it has still to do or to undo
  snapshot,       \* sources as they were when it decided
  unrestored,     \* files its rollback could not write
  toRead,         \* files its compiler has still to read
  got,            \* what its compiler has read
  compiled,       \* its compiler: started, running, ok, failed
  answer,
  disturbed,      \* history: files others wrote since it decided
  ideal,          \* history: the tree if every edit were applied at once
  undone,         \* history: a call did not end with all of its edits made
  calls

call == <<pc, request, edits, snapshot, answer>>
compiler == <<toRead, got, compiled>>
history == <<disturbed, ideal, undone>>
vars == <<sources, dic, loop, call, todo, unrestored, compiler, history, calls>>

SourceSet(d) == ToSet(Sources(d))
Nothing == [f \in Files |-> {}]
CompiledTree(s, d) == [f \in Files |-> IF f \in SourceSet(d) THEN Compiled(s, f) ELSE {}]

Init ==
  /\ sources \in Worlds
  /\ dic = [d \in Dictionaries |-> CompiledTree(sources, d)]
  /\ loop = Nobody
  /\ pc = [t \in Tasks |-> "idle"]
  /\ request = [t \in Tasks |-> CHOOSE r \in Requests : TRUE]
  /\ edits = [t \in Tasks |-> <<>>]
  /\ todo = [t \in Tasks |-> <<>>]
  /\ snapshot = [t \in Tasks |-> sources]
  /\ unrestored = [t \in Tasks |-> {}]
  /\ toRead = [t \in Tasks |-> <<>>]
  /\ got = [t \in Tasks |-> Nothing]
  /\ compiled = [t \in Tasks |-> "failed"]
  /\ answer = [t \in Tasks |-> "none"]
  /\ disturbed = [t \in Tasks |-> {}]
  /\ ideal = sources
  /\ undone = FALSE
  /\ calls = 0

\* The dictionary a call recompiles.
TargetDic(t) == DictionaryOf(request[t])

Goto(t, where) == pc' = [pc EXCEPT ![t] = where]

\* A tree after some writes.
Done(es, s) ==
  [f \in Files |-> IF \E i \in DOMAIN es : es[i].file = f
                   THEN es[CHOOSE i \in DOMAIN es : es[i].file = f].lines
                   ELSE s[f]]

\* A call that has read the tree s checks, decides what to write and takes its
\* snapshots, without giving up the loop.
Decide(t, r, s) ==
  /\ pc[t] = "idle" /\ loop = Nobody /\ calls < MaxCalls
  /\ \E p \in Plans(s, r) :
       /\ edits' = [edits EXCEPT ![t] = p.edits]
       /\ todo' = [todo EXCEPT ![t] = p.edits]
       /\ Goto(t, IF p.verdict = "write" THEN "write" ELSE "answer")
       /\ answer' = [answer EXCEPT ![t] = p.verdict]
  /\ \E p \in Plans(ideal, r) : ideal' = Done(p.edits, ideal)
  /\ loop' = t
  /\ request' = [request EXCEPT ![t] = r]
  /\ snapshot' = [snapshot EXCEPT ![t] = sources]
  /\ unrestored' = [unrestored EXCEPT ![t] = {}]
  /\ disturbed' = [disturbed EXCEPT ![t] = {}]
  /\ calls' = calls + 1
  /\ UNCHANGED <<sources, dic, compiler, undone>>

\* Mutant: the entries are those the task has read for its previous call.
CallFromCache(t, r) == Decide(t, r, snapshot[t])

\* A tool is called: it reads the sources themselves.
Call(t, r) == Decide(t, r, sources)

\* A file gets new content and the other calls lose sight of it.
Store(t, f, content) ==
  /\ sources' = [sources EXCEPT ![f] = content]
  /\ disturbed' = [u \in Tasks |-> IF u = t THEN disturbed[u] ELSE disturbed[u] \cup {f}]

WriteFile(t) ==
  /\ pc[t] = "write" /\ loop = t /\ todo[t] # <<>>
  /\ Store(t, Head(todo[t]).file, Head(todo[t]).lines)
  /\ todo' = [todo EXCEPT ![t] = Tail(@)]
  /\ UNCHANGED <<dic, loop, call, unrestored, compiler, ideal, undone, calls>>

\* Any exception of a write or of the recompilation, and any status other than
\* "ok", lead to the rollback of every file that has a snapshot.
RollBack(t) ==
  /\ Goto(t, "rollback")
  /\ todo' = [todo EXCEPT ![t] = edits[t]]
  /\ answer' = [answer EXCEPT ![t] = "rolled_back"]
  /\ loop' = t
  /\ undone' = TRUE
  /\ UNCHANGED <<sources, dic, request, edits, snapshot, unrestored, compiler,
                 disturbed, ideal, calls>>

WriteFails(t) == pc[t] = "write" /\ loop = t /\ todo[t] # <<>> /\ RollBack(t)

\* The command-line tool is missing or cannot be started.
CompilerMissing(t) == pc[t] = "write" /\ loop = t /\ todo[t] = <<>> /\ RollBack(t)

StartCompiler(t) ==
  /\ pc[t] = "write" /\ loop = t /\ todo[t] = <<>>
  /\ Goto(t, "wait")
  /\ compiled' = [compiled EXCEPT ![t] = "started"]
  /\ loop' = Nobody
  /\ UNCHANGED <<sources, dic, request, edits, snapshot, answer, todo, unrestored,
                 toRead, got, history, calls>>

\* The compiler process expands the pattern once,
Glob(t) ==
  /\ compiled[t] = "started"
  /\ LET all == Sources(TargetDic(t))
     IN toRead' = [toRead EXCEPT ![t] = Pick(all, {n \in DOMAIN all : sources[all[n]] # Absent})]
  /\ got' = [got EXCEPT ![t] = Nothing]
  /\ compiled' = [compiled EXCEPT ![t] = "running"]
  /\ UNCHANGED <<sources, dic, loop, call, todo, unrestored, history, calls>>

\* then reads one file after the other; each is whole, because a file is only
\* ever replaced,
ReadSource(t) ==
  /\ compiled[t] = "running" /\ toRead[t] # <<>>
  /\ LET f == Head(toRead[t])
     IN  IF sources[f] = Absent
         THEN /\ compiled' = [compiled EXCEPT ![t] = "failed"]
              /\ UNCHANGED got
         ELSE /\ got' = [got EXCEPT ![t] = [@ EXCEPT ![f] = Compiled(sources, f)]]
              /\ UNCHANGED compiled
  /\ toRead' = [toRead EXCEPT ![t] = Tail(@)]
  /\ UNCHANGED <<sources, dic, loop, call, todo, unrestored, history, calls>>

\* and compiles them into the temporary output, unless a line is refused or
\* there is none.  It may also fail for reasons of its own.
Read(t) == UNION {got[t][f] : f \in Files}

CompilerExits(t) ==
  /\ compiled[t] = "running" /\ toRead[t] = <<>>
  /\ \E how \in {"ok", "failed"} :
       /\ how = "ok" => Read(t) # {} /\ \A e \in Read(t) : e[2] \notin Incomplete
       /\ compiled' = [compiled EXCEPT ![t] = how]
  /\ UNCHANGED <<sources, dic, loop, call, todo, unrestored, toRead, got, history, calls>>

\* Back on the loop: the output replaces the dictionary.
Publish(t) ==
  /\ pc[t] = "wait" /\ loop = Nobody /\ compiled[t] = "ok"
  /\ dic' = [dic EXCEPT ![TargetDic(t)] = got[t]]
  /\ loop' = t
  /\ Goto(t, "answer")
  /\ answer' = [answer EXCEPT ![t] = "ok"]
  /\ UNCHANGED <<sources, request, edits, snapshot, todo, unrestored, compiler, history, calls>>

\* The compiler has failed, or the output cannot replace the dictionary.
CompileFailed(t) ==
  /\ pc[t] = "wait" /\ loop = Nobody /\ compiled[t] \in {"ok", "failed"}
  /\ RollBack(t)

Restore(t) ==
  /\ pc[t] = "rollback" /\ loop = t /\ todo[t] # <<>>
  /\ LET f == Head(todo[t]).file IN Store(t, f, snapshot[t][f])
  /\ todo' = [todo EXCEPT ![t] = Tail(@)]
  /\ UNCHANGED <<dic, loop, call, unrestored, compiler, ideal, undone, calls>>

\* Mutant: the first failure ends the rollback.
RestoreGivesUp(t) ==
  /\ pc[t] = "rollback" /\ loop = t /\ todo[t] # <<>>
  /\ unrestored' = [unrestored EXCEPT ![t] = @ \cup {Head(todo[t]).file}]
  /\ todo' = [todo EXCEPT ![t] = <<>>]
  /\ UNCHANGED <<sources, dic, loop, call, compiler, history, calls>>

\* A file that cannot be restored is noted and the rollback goes on.
RestoreFails(t) ==
  /\ pc[t] = "rollback" /\ loop = t /\ todo[t] # <<>>
  /\ unrestored' = [unrestored EXCEPT ![t] = @ \cup {Head(todo[t]).file}]
  /\ todo' = [todo EXCEPT ![t] = Tail(@)]
  /\ UNCHANGED <<sources, dic, loop, call, compiler, history, calls>>

RolledBack(t) ==
  /\ pc[t] = "rollback" /\ loop = t /\ todo[t] = <<>>
  /\ Goto(t, "answer")
  /\ UNCHANGED <<sources, dic, loop, request, edits, snapshot, answer, todo, unrestored,
                 compiler, history, calls>>

Answer(t) ==
  /\ pc[t] = "answer" /\ loop = t
  /\ Goto(t, "idle")
  /\ answer' = [answer EXCEPT ![t] = "none"]
  /\ loop' = Nobody
  /\ UNCHANGED <<sources, dic, request, edits, snapshot, todo, unrestored, compiler,
                 history, calls>>

\* The server cancels the task while it waits.  A cancellation is no Exception:
\* the temporary output goes and with it whatever the compiler, which
\* is left to itself, may still make; the sources stay as they were written.
Cancel(t) ==
  /\ pc[t] = "wait" /\ loop = Nobody
  /\ Goto(t, "idle")
  /\ compiled' = [compiled EXCEPT ![t] = "failed"]
  /\ answer' = [answer EXCEPT ![t] = "none"]
  /\ undone' = TRUE
  /\ UNCHANGED <<sources, dic, loop, request, edits, snapshot, todo, unrestored, toRead, got,
                 disturbed, ideal, calls>>

Step(t) ==
  \/ WriteFile(t) \/ WriteFails(t) \/ CompilerMissing(t) \/ StartCompiler(t)
  \/ Publish(t) \/ CompileFailed(t)
  \/ Restore(t) \/ RestoreFails(t) \/ RolledBack(t) \/ Answer(t)

Process(t) == Glob(t) \/ ReadSource(t) \/ CompilerExits(t)

Next ==
  \E t \in Tasks : (\E r \in Requests : Call(t, r)) \/ Step(t) \/ Process(t) \/ Cancel(t)

Spec == Init /\ [][Next]_vars
-----------------------------------------------------------------------------
TypeOK ==
  /\ sources \in Trees /\ ideal \in Trees
  /\ dic \in [Dictionaries -> [Files -> SUBSET (Words \X Kinds)]]
  /\ got \in [Tasks -> [Files -> SUBSET (Words \X Kinds)]]
  /\ loop \in Tasks \cup {Nobody}
  /\ pc \in [Tasks -> {"idle", "write", "wait", "rollback", "answer"}]
  /\ request \in [Tasks -> Requests]
  /\ edits \in [Tasks -> Seq(Edits)] /\ todo \in [Tasks -> Seq(Edits)]
  /\ snapshot \in [Tasks -> Trees]
  /\ toRead \in [Tasks -> Seq(Files)]
  /\ compiled \in [Tasks -> {"started", "running", "ok", "failed"}]
  /\ answer \in [Tasks -> {"none", "write", "ok", "refused", "rolled_back"}]
  /\ disturbed \in [Tasks -> SUBSET Files] /\ unrestored \in [Tasks -> SUBSET Files]
  /\ undone \in BOOLEAN /\ calls \in 0..MaxCalls

Own(t) == {edits[t][i].file : i \in DOMAIN edits[t]}

\* What a call answers is true of every file it meant to write and no other
\* call has written since: "ok" means that the edit is in the file and that the
\* compiled dictionary has that file as it is; rolled back means that the file
\* is as the call found it, unless the answer names it as not restored
\* (_write_files_and_recompile), however the other calls and the compilers
\* interleave.
UndisturbedFilesAtomic ==
  \A t \in Tasks : pc[t] = "answer" =>
    \A f \in Own(t) \ disturbed[t] :
      /\ answer[t] = "ok" =>
           /\ sources[f] = Done(edits[t], snapshot[t])[f]
           /\ dic[TargetDic(t)][f] = Compiled(sources, f)
      /\ answer[t] = "rolled_back" /\ f \notin unrestored[t] => sources[f] = snapshot[t][f]

\* Concurrent calls lose no update: until a call fails or is cancelled, the
\* sources are those that the edits give one after the other, because no tool
\* waits between its read and its last write.
EditsKept == loop = Nobody /\ ~undone => sources = ideal

Twice(s) ==
  {<<LineAt(s, p).word, Canonical[LineAt(s, p).kind]>> : p \in
     {q \in Places(s, Files) :
        \E o \in Places(s, Files) : o # q /\ Same(LineAt(s, o), LineAt(s, q))}}

\* The duplicate checks hold across calls, files and dictionaries: the sources
\* get a second active entry of a word and POS only when a rollback puts one
\* back or dict_enable, which does not look, enables one.
DuplicatesOnlyRestored ==
  [][\A t \in Tasks :
       loop = t /\ pc[t] # "rollback" /\ request[t].tool # "dict_enable" =>
         Twice(sources') \subseteq Twice(sources) \cup Twice(snapshot[t])]_sources
=============================================================================
