---------------------------- MODULE PythonBinding ----------------------------
(***************************************************************************)
(* A suzume.Suzume object of the Python binding                            *)
(* (src/bindings/python/src/suzume/__init__.py) shared by threads, over    *)
(* the C API (src/src/suzume_c.cpp) and one native instance.  ctypes       *)
(* releases the interpreter lock during a native call, so only the         *)
(* object's own re-entrant lock keeps two calls apart.                     *)
(*                                                                         *)
(* pc[t] is where thread t is in the method it has called:                 *)
(*   enter, reenter  waiting in the wrapper of @_locked                    *)
(*   check           in _require_handle                                    *)
(*   native, second  in the C function, before its first / second half     *)
(*   read, free      with a native result in hand                          *)
(*   error           between the failed C call and _native_error           *)
(*   close, forget   in close, before suzume_destroy / before the reset    *)
(*   leave           in the wrapper's exit                                 *)
(***************************************************************************)
EXTENDS SuzumeInstance

CONSTANTS
  Threads,
  Nobody,         \* the lock's owner while it is free
  Builds,         \* the constructions tried: [mode, merge, core, user]
  MaxCalls        \* bound on the calls of one behaviour

ASSUME BindingAssumption ==
  /\ Nobody \notin Threads
  /\ Builds \subseteq [mode : Modes, merge : BOOLEAN, core : FileState, user : FileState]
  /\ MaxCalls \in Nat

VARIABLES
  pc, op, arg,
  owner, depth,   \* self._lock
  handle,         \* self._handle is not None
  alive,          \* the native instance exists
  results,        \* threads whose native result is not yet freed
  lastError,      \* the C API's thread-local last_error
  failure,        \* what made the thread's native call fail
  seen,           \* what the thread read in the first half of its call
  behind,         \* the parts that a refused mode change has left behind
  dropped,        \* the program has dropped its last reference
  calls

thread == <<pc, op, arg, failure, seen>>
lockVars == <<owner, depth>>
object == <<handle, alive, results, dropped, behind, calls>>
vars == <<instance, thread, lockVars, object, lastError>>

Ops == {"analyze", "tags", "mode", "set_mode", "load_user_dict", "load_binary_dict",
        "clear", "warnings", "close", "create"}

Arguments(o) ==
  CASE o = "set_mode" -> Modes
    [] o = "load_user_dict" -> Sources
    [] o = "load_binary_dict" -> Binaries
    [] OTHER -> {o}

\* What a tokenization and the postprocessing after it depend on.
View == <<tokenizerMode, mergeNouns, layers>>

Init ==
  /\ \E b \in Builds : mode = b.mode /\ merge = b.merge /\ Construct(b.core, b.user)
  /\ pc = [t \in Threads |-> "idle"]
  /\ op = [t \in Threads |-> "none"]
  /\ arg = [t \in Threads |-> "none"]
  /\ owner = Nobody /\ depth = 0
  /\ handle = TRUE /\ alive = TRUE
  /\ results = {}
  /\ lastError = [t \in Threads |-> "none"]
  /\ failure = [t \in Threads |-> "none"]
  /\ seen = [t \in Threads |-> <<>>]
  /\ behind = {} /\ dropped = FALSE
  /\ calls = 0

Goto(t, where) == pc' = [pc EXCEPT ![t] = where]

Return(t) ==
  /\ Goto(t, "idle")
  /\ op' = [op EXCEPT ![t] = "none"]
  /\ arg' = [arg EXCEPT ![t] = "none"]
  /\ failure' = [failure EXCEPT ![t] = "none"]
  /\ seen' = [seen EXCEPT ![t] = <<>>]

(***************************************************************************)
(* Calls.  "create" stands for another object whose construction fails     *)
(* (refused scorer options): it takes no lock of this object, and its      *)
(* __del__ finds no handle.                                                *)
(***************************************************************************)
Begin(t, o, a) ==
  /\ op' = [op EXCEPT ![t] = o]
  /\ arg' = [arg EXCEPT ![t] = a]
  /\ calls' = calls + 1
  /\ Goto(t, IF o = "create" THEN "native" ELSE "enter")
  /\ UNCHANGED <<instance, failure, seen, lockVars, handle, alive, results, behind, lastError>>

Call(t, o) ==
  /\ pc[t] = "idle"
  /\ calls < MaxCalls
  /\ o # "create" => ~dropped
  /\ \E a \in Arguments(o) : Begin(t, o, a)
  /\ UNCHANGED dropped

\* The last reference goes away when no method runs; the interpreter calls
\* __del__, which is close, on the thread that dropped it.
Finalize(t) ==
  /\ ~dropped
  /\ \A u \in Threads : pc[u] = "idle" \/ op[u] = "create"
  /\ pc[t] = "idle"
  /\ dropped' = TRUE
  /\ op' = [op EXCEPT ![t] = "close"]
  /\ Goto(t, "enter")
  /\ UNCHANGED <<instance, arg, failure, seen, lockVars, handle, alive, results, behind, calls, lastError>>

(***************************************************************************)
(* The re-entrant lock: analyze calls analyze_with_normalized_text, which  *)
(* takes it a second time.                                                 *)
(***************************************************************************)
\* Mutant: a lock per method instead of one per object.
GrantedPerMethod(t) == \A u \in Threads \ {t} : owner = u => op[u] # op[t]

Granted(t) == owner \in {Nobody, t}

\* Mutant: a plain lock instead of a re-entrant one.
ReenterPlain(t) ==
  /\ pc[t] = "reenter"
  /\ owner = Nobody
  /\ depth' = depth + 1
  /\ Goto(t, "check")
  /\ UNCHANGED <<instance, op, arg, failure, seen, owner, object, lastError>>

Enter(t) ==
  /\ pc[t] = "enter"
  /\ Granted(t)
  /\ owner' = t
  /\ depth' = depth + 1
  /\ Goto(t, CASE op[t] = "analyze" -> "reenter" [] op[t] = "close" -> "close" [] OTHER -> "check")
  /\ UNCHANGED <<instance, op, arg, failure, seen, object, lastError>>

Reenter(t) ==
  /\ pc[t] = "reenter"
  /\ Granted(t)
  /\ depth' = depth + 1
  /\ Goto(t, "check")
  /\ UNCHANGED <<instance, op, arg, failure, seen, owner, object, lastError>>

Leave(t) ==
  /\ pc[t] = "leave"
  /\ depth' = depth - 1
  /\ IF depth = 1
       THEN owner' = Nobody /\ Return(t)
       ELSE UNCHANGED <<owner, thread>>
  /\ UNCHANGED <<instance, object, lastError>>

RequireHandle(t) ==
  /\ pc[t] = "check"
  /\ Goto(t, IF handle THEN "native" ELSE "leave")
  /\ UNCHANGED <<instance, op, arg, failure, seen, lockVars, object, lastError>>

(***************************************************************************)
(* The C functions.  Every one but the warnings clears last_error first;   *)
(* a failure leaves its description there and returns null or zero.        *)
(***************************************************************************)
\* Mutant: one last_error for the whole process.
ErrorShared(t, e) == [u \in Threads |-> e]

Error(t, e) == [lastError EXCEPT ![t] = e]

Native(t, where, names) == pc[t] = where /\ op[t] \in names

Fail(t, e) ==
  /\ lastError' = Error(t, e)
  /\ failure' = [failure EXCEPT ![t] = e]
  /\ Goto(t, "error")

Proceed(t, where) ==
  /\ lastError' = Error(t, "none")
  /\ Goto(t, where)
  /\ UNCHANGED failure

\* suzume_analyze_n, suzume_generate_tags_with_options_n: tokenize, ...
Tokenize(t) ==
  /\ Native(t, "native", {"analyze", "tags"})
  /\ \/ Proceed(t, "second") /\ seen' = [seen EXCEPT ![t] = View]
     \/ Fail(t, "out of memory") /\ UNCHANGED seen
  /\ UNCHANGED <<instance, op, arg, lockVars, object>>

\* ... then postprocess and copy the outcome into one allocation.
Postprocess(t) ==
  /\ Native(t, "second", {"analyze", "tags"})
  /\ \/ /\ results' = results \cup {t}
        /\ Goto(t, "read")
        /\ UNCHANGED <<lastError, failure>>
     \/ /\ Fail(t, "out of memory")
        /\ UNCHANGED results
  /\ UNCHANGED <<instance, op, arg, seen, lockVars, handle, alive, dropped, behind, calls>>

SetMode(t) ==
  /\ Native(t, "native", {"set_mode"})
  /\ \/ /\ Proceed(t, "second")
        /\ SetAnalyzerMode(arg[t])
        /\ behind' = IF analyzerMode = arg[t] THEN behind ELSE behind \ {"tokenizer"}
     \/ /\ Fail(t, "out of memory")
        /\ SetAnalyzerModeStarved(arg[t])
        /\ behind' = {"tokenizer", "postprocessor"}
  /\ UNCHANGED <<op, arg, seen, lockVars, handle, alive, results, dropped, calls>>

FinishSetMode(t) ==
  /\ Native(t, "second", {"set_mode"})
  /\ SetPostprocessor(arg[t])
  /\ behind' = behind \ {"postprocessor"}
  /\ Goto(t, "leave")
  /\ UNCHANGED <<op, arg, failure, seen, lockVars, handle, alive, results, dropped, calls, lastError>>

GetMode(t) ==
  /\ Native(t, "native", {"mode"})
  /\ Proceed(t, "leave")
  /\ UNCHANGED <<instance, op, arg, seen, lockVars, object>>

LoadUserDict(t) ==
  /\ Native(t, "native", {"load_user_dict"})
  /\ IF Accepted(arg[t])
       THEN Proceed(t, "second") /\ AddSource(arg[t])
       ELSE Fail(t, "parse error") /\ UNCHANGED instance
  /\ UNCHANGED <<op, arg, seen, lockVars, object>>

\* The dictionary is in the list by now, even if the rebuild is refused memory.
FinishLoadUserDict(t) ==
  /\ Native(t, "second", {"load_user_dict"})
  /\ \/ /\ RebuildAfterSource(arg[t])
        /\ behind' = behind \ {"tokenizer"}
        /\ Goto(t, "leave")
        /\ UNCHANGED <<lastError, failure>>
     \/ /\ Fail(t, "out of memory")
        /\ UNCHANGED <<instance, behind>>
  /\ UNCHANGED <<op, arg, seen, lockVars, handle, alive, results, dropped, calls>>

LoadBinaryDict(t) ==
  /\ Native(t, "native", {"load_binary_dict"})
  /\ IF Accepted(arg[t])
       THEN Proceed(t, "leave") /\ AddBinary(arg[t])
       ELSE Fail(t, "load failed") /\ UNCHANGED instance
  /\ UNCHANGED <<op, arg, seen, lockVars, object>>

Clear(t) ==
  /\ Native(t, "native", {"clear"})
  /\ Proceed(t, "leave")
  /\ ClearUserDictionaries
  /\ UNCHANGED <<op, arg, seen, lockVars, object>>

\* dictionary_warnings asks for the count, then for each message in turn.
CountWarnings(t) ==
  /\ Native(t, "native", {"warnings"})
  /\ seen' = [seen EXCEPT ![t] = DictionaryWarnings]
  /\ Goto(t, "second")
  /\ UNCHANGED <<instance, op, arg, failure, lockVars, object, lastError>>

ReadWarnings(t) ==
  /\ Native(t, "second", {"warnings"})
  /\ Goto(t, "leave")
  /\ UNCHANGED <<instance, op, arg, failure, seen, lockVars, object, lastError>>

Create(t) ==
  /\ Native(t, "native", {"create"})
  /\ Fail(t, "invalid options")
  /\ UNCHANGED <<instance, op, arg, seen, lockVars, object>>

(***************************************************************************)
(* Back in Python.                                                         *)
(***************************************************************************)
\* Whether the conversion succeeds or raises, the finally clause follows.
ReadResult(t) ==
  /\ pc[t] = "read"
  /\ Goto(t, "free")
  /\ UNCHANGED <<instance, op, arg, failure, seen, lockVars, object, lastError>>

FreeResult(t) ==
  /\ pc[t] = "free"
  /\ results' = results \ {t}
  /\ Goto(t, "leave")
  /\ UNCHANGED <<instance, op, arg, failure, seen, lockVars, handle, alive, dropped, behind, calls, lastError>>

\* _native_error reads the message and the code, and the method raises.
RaiseNativeError(t) ==
  /\ pc[t] = "error"
  /\ IF op[t] = "create" THEN Return(t)
     ELSE Goto(t, "leave") /\ UNCHANGED <<op, arg, failure, seen>>
  /\ UNCHANGED <<instance, lockVars, object, lastError>>

\* Mutant: close forgets the handle before it can pass it on.
DestroyForgotten(t) ==
  /\ pc[t] = "close"
  /\ handle' = FALSE
  /\ Goto(t, "leave")
  /\ UNCHANGED <<instance, op, arg, failure, seen, lockVars, alive, results, dropped, behind, calls, lastError>>

Destroy(t) ==
  /\ pc[t] = "close"
  /\ IF handle
       THEN alive' = FALSE /\ Goto(t, "forget")
       ELSE UNCHANGED alive /\ Goto(t, "leave")
  /\ UNCHANGED <<instance, op, arg, failure, seen, lockVars, handle, results, dropped, behind, calls, lastError>>

\* Mutant: close leaves the stale handle behind.
ForgetNothing(t) ==
  /\ pc[t] = "forget"
  /\ Goto(t, "leave")
  /\ UNCHANGED <<instance, op, arg, failure, seen, lockVars, object, lastError>>

Forget(t) ==
  /\ pc[t] = "forget"
  /\ handle' = FALSE
  /\ Goto(t, "leave")
  /\ UNCHANGED <<instance, op, arg, failure, seen, lockVars, alive, results, dropped, behind, calls, lastError>>

\* A step of a method in progress.
Step(t) ==
  \/ Enter(t) \/ Reenter(t) \/ Leave(t) \/ RequireHandle(t)
  \/ Tokenize(t) \/ Postprocess(t) \/ ReadResult(t) \/ FreeResult(t)
  \/ SetMode(t) \/ FinishSetMode(t) \/ GetMode(t)
  \/ LoadUserDict(t) \/ FinishLoadUserDict(t) \/ LoadBinaryDict(t) \/ Clear(t)
  \/ CountWarnings(t) \/ ReadWarnings(t)
  \/ Create(t) \/ RaiseNativeError(t)
  \/ Destroy(t) \/ Forget(t)

Next == \E t \in Threads : Step(t) \/ Finalize(t) \/ \E o \in Ops : Call(t, o)

\* A thread runs its method to the end; the lock is handed to a waiter at the
\* latest when the finitely many calls before it have returned.
Spec == Init /\ [][Next]_vars /\ \A t \in Threads : WF_vars(Step(t))

(***************************************************************************)
(* Properties.                                                             *)
(***************************************************************************)
Inside(t) == pc[t] \in {"native", "second"} /\ op[t] # "create"

\* No C function runs on a handle that suzume_destroy has been given, and none
\* is destroyed twice: close and __del__ against calls of other threads.
HandleOutlivesCalls ==
  \A t \in Threads : (Inside(t) \/ (pc[t] = "close" /\ handle)) => alive

\* Between the two halves of a call the instance stands still: one analysis
\* is tokenized and postprocessed under the same mode and dictionaries, and
\* the warnings are as many as were counted.
CallsSeeOneInstance ==
  \A t \in Threads :
    /\ Native(t, "second", {"analyze", "tags"}) => seen[t] = View
    /\ Native(t, "second", {"warnings"}) => seen[t] = DictionaryWarnings

\* The message a method raises with is that of its own native call, although
\* other calls fail or succeed on other threads before it is read.
ErrorIsOwn == \A t \in Threads : pc[t] = "error" => lastError[t] = failure[t]

\* Outside a mode change the analyzer, its tokenizer and the postprocessor are
\* at the mode that mode() reports, but for the parts behind it: a change that
\* is refused memory leaves both behind.  Whatever builds the tokenizer anew
\* brings that up to date and nothing else; the postprocessor stays behind until
\* a mode change runs to its end, and one to the same mode does no more than that.
PartsAgreeOnMode ==
  /\ analyzerMode = mode
  /\ "tokenizer" \in behind \/ tokenizerMode = mode
  /\ \/ "postprocessor" \in behind
     \/ mergeNouns = PostprocessOptionsFor(mode)
     \/ \E t \in Threads : Native(t, "second", {"set_mode"})

\* A word once found is found until the caller clears, whatever loads fail or
\* succeed; the program's own dictionaries answer first and for ever.
OnlyClearForgets ==
  [][\A w \in Words :
       /\ LookupExact(w) # 0 => LookupExact(w)' # 0 \/ \E t \in Threads : Clear(t)
       /\ LookupExact(w) \in 1..Shipped => LookupExact(w)' = LookupExact(w)
    ]_<<layers>>

\* Every call comes back: no thread waits for ever on the lock, its own hold
\* on it included.
CallsReturn == \A t \in Threads : pc[t] # "idle" ~> pc[t] = "idle"

\* An object nobody refers to any more gives its native instance back, and every
\* native result its methods were given.
DroppedGivesAllBack == dropped ~> (~alive /\ results = {})

=============================================================================
