----------------------------- MODULE WasmBinding -----------------------------
(***************************************************************************)
(* The WebAssembly binding (src/bindings/wasm/js/index.ts): concurrent     *)
(* calls of Suzume.create and version() share a runtime per key through a  *)
(* map of promises, and every analyzer object owns one native handle that  *)
(* either destroy() or the finalization registry gives back.               *)
(*                                                                         *)
(* JavaScript runs one task at a time: an action is the code between two   *)
(* awaits, and what interleaves is the order of the continuations.  The    *)
(* Emscripten factory is external: it fulfils or rejects its promise.      *)
(*                                                                         *)
(* pc[c]: idle, import (awaits the glue code), await (awaits a runtime),   *)
(* build (has one), held (the caller refers to the object), unreachable,   *)
(* collected, returned (version), failed.                                  *)
(***************************************************************************)
EXTENDS Naturals, FiniteSets

CONSTANTS
  Calls,        \* calls of create and version, each issued once
  Keys,         \* keys of modulePromises: a path, or
  Precompiled,  \* the one key of every precompiled module
  Requests,     \* the calls tried: [key, fresh, what]
  None

ASSUME WasmAssumption ==
  /\ None \notin Calls \cup Keys
  /\ Precompiled \in Keys
  /\ Requests \subseteq [key : Keys, fresh : BOOLEAN, what : {"create", "version"}]

VARIABLES
  pc, key, fresh, what,
  awaited,         \* the call whose promise c awaits
  promise,         \* state of the factory's promise that call c obtained
  modulePromises,
  handle,          \* this.handle is not zero
  cleanupRef,      \* cleanupRef.handle is not zero
  registered,      \* objects the registry watches
  destroyed        \* how often suzume_destroy was given c's handle

call == <<pc, key, fresh, what, awaited>>
runtimes == <<promise, modulePromises>>
objects == <<handle, cleanupRef, registered, destroyed>>
vars == <<call, runtimes, objects>>

Init ==
  /\ pc = [c \in Calls |-> "idle"]
  /\ key = [c \in Calls |-> None]
  /\ fresh = [c \in Calls |-> FALSE]
  /\ what = [c \in Calls |-> "none"]
  /\ awaited = [c \in Calls |-> None]
  /\ promise = [c \in Calls |-> "none"]
  /\ modulePromises = [k \in Keys |-> None]
  /\ handle = [c \in Calls |-> FALSE]
  /\ cleanupRef = [c \in Calls |-> FALSE]
  /\ registered = {}
  /\ destroyed = [c \in Calls |-> 0]

Goto(c, where) == pc' = [pc EXCEPT ![c] = where]

(***************************************************************************)
(* instantiateModule.                                                      *)
(***************************************************************************)
Issue(c, request) ==
  /\ pc[c] = "idle"
  /\ key' = [key EXCEPT ![c] = request.key]
  /\ fresh' = [fresh EXCEPT ![c] = request.fresh]
  /\ what' = [what EXCEPT ![c] = request.what]
  /\ Goto(c, "import")
  /\ UNCHANGED <<awaited, runtimes, objects>>

ImportFails(c) ==
  /\ pc[c] = "import"
  /\ Goto(c, "failed")
  /\ UNCHANGED <<key, fresh, what, awaited, runtimes, objects>>

Await(c, p) ==
  /\ awaited' = [awaited EXCEPT ![c] = p]
  /\ Goto(c, "await")
  /\ UNCHANGED <<key, fresh, what, objects>>

Instantiate(c) == promise' = [promise EXCEPT ![c] = "pending"]

InstantiateFresh(c) ==
  /\ pc[c] = "import" /\ fresh[c]
  /\ Await(c, c)
  /\ Instantiate(c)
  /\ UNCHANGED modulePromises

UseCached(c) ==
  /\ pc[c] = "import" /\ ~fresh[c]
  /\ modulePromises[key[c]] # None
  /\ Await(c, modulePromises[key[c]])
  /\ UNCHANGED runtimes

\* Mutant: the promise enters the map only after it was awaited.
InstantiateUnshared(c) ==
  /\ pc[c] = "import" /\ ~fresh[c]
  /\ modulePromises[key[c]] = None
  /\ Await(c, c)
  /\ Instantiate(c)
  /\ UNCHANGED modulePromises

InstantiateShared(c) ==
  /\ pc[c] = "import" /\ ~fresh[c]
  /\ modulePromises[key[c]] = None
  /\ Await(c, c)
  /\ Instantiate(c)
  /\ modulePromises' = [modulePromises EXCEPT ![key[c]] = c]

\* Mutant: every factory is given the hook without a rejection handler.
SettleAbandoning(p, outcome) ==
  /\ promise[p] = "pending"
  /\ promise' = [promise EXCEPT ![p] = outcome]
  /\ UNCHANGED <<call, modulePromises, objects>>

\* The factory is done.  The hook of instantiateWasmFrom has no rejection
\* handler: when a precompiled module cannot be instantiated, the factory's
\* promise is left pending for good.
Settle(p, outcome) ==
  /\ promise[p] = "pending"
  /\ outcome = "abandoned" => key[p] = Precompiled
  /\ promise' = [promise EXCEPT ![p] = outcome]
  /\ UNCHANGED <<call, modulePromises, objects>>

Fulfilled(c) ==
  /\ pc[c] = "await"
  /\ promise[awaited[c]] = "fulfilled"
  /\ Goto(c, "build")
  /\ UNCHANGED <<key, fresh, what, awaited, runtimes, objects>>

\* Mutant: a rejected promise stays in the map.
ForgetRejectedNever(c) == modulePromises

\* Only the call that put the promise into the map takes it out again.
ForgetRejected(c) ==
  IF awaited[c] = c /\ ~fresh[c] THEN [modulePromises EXCEPT ![key[c]] = None] ELSE modulePromises

\* The creator awaits the promise itself, the others one derived from it, so
\* the creator's continuation runs first.
Rejected(c) ==
  /\ pc[c] = "await"
  /\ promise[awaited[c]] = "rejected"
  /\ awaited[c] # c => pc[awaited[c]] # "await"
  /\ modulePromises' = ForgetRejected(c)
  /\ Goto(c, "failed")
  /\ UNCHANGED <<key, fresh, what, awaited, promise, objects>>

(***************************************************************************)
(* The object.                                                             *)
(***************************************************************************)
ReturnVersion(c) ==
  /\ pc[c] = "build" /\ what[c] = "version"
  /\ Goto(c, "returned")
  /\ UNCHANGED <<key, fresh, what, awaited, runtimes, objects>>

\* An unknown mode, or suzume_create's null.
BuildFails(c) ==
  /\ pc[c] = "build" /\ what[c] = "create"
  /\ Goto(c, "failed")
  /\ UNCHANGED <<key, fresh, what, awaited, runtimes, objects>>

Build(c) ==
  /\ pc[c] = "build" /\ what[c] = "create"
  /\ handle' = [handle EXCEPT ![c] = TRUE]
  /\ cleanupRef' = [cleanupRef EXCEPT ![c] = TRUE]
  /\ registered' = registered \cup {c}
  /\ Goto(c, "held")
  /\ UNCHANGED <<key, fresh, what, awaited, runtimes, destroyed>>

SuzumeDestroy(c) == destroyed' = [destroyed EXCEPT ![c] = @ + 1]

\* Mutant: destroy leaves the registry and its record as they are.
DestroyHandleOnly(c) ==
  /\ pc[c] = "held" /\ handle[c]
  /\ SuzumeDestroy(c)
  /\ handle' = [handle EXCEPT ![c] = FALSE]
  /\ UNCHANGED <<call, runtimes, cleanupRef, registered>>

\* A second destroy(), like every other method after the first, finds a zero handle.
Destroy(c) ==
  /\ pc[c] = "held" /\ handle[c]
  /\ registered' = registered \ {c}
  /\ SuzumeDestroy(c)
  /\ handle' = [handle EXCEPT ![c] = FALSE]
  /\ cleanupRef' = [cleanupRef EXCEPT ![c] = FALSE]
  /\ UNCHANGED <<call, runtimes>>

Drop(c) ==
  /\ pc[c] = "held"
  /\ Goto(c, "unreachable")
  /\ UNCHANGED <<key, fresh, what, awaited, runtimes, objects>>

\* The collector takes the object, and the registry calls back if it watches it.
Collect(c) ==
  /\ pc[c] = "unreachable"
  /\ Goto(c, "collected")
  /\ IF c \in registered /\ cleanupRef[c]
       THEN SuzumeDestroy(c) /\ cleanupRef' = [cleanupRef EXCEPT ![c] = FALSE]
       ELSE UNCHANGED <<destroyed, cleanupRef>>
  /\ registered' = registered \ {c}
  /\ UNCHANGED <<key, fresh, what, awaited, runtimes, handle>>

Continue(c) ==
  \/ ImportFails(c) \/ InstantiateFresh(c) \/ UseCached(c) \/ InstantiateShared(c)
  \/ Fulfilled(c) \/ Rejected(c)
  \/ ReturnVersion(c) \/ BuildFails(c) \/ Build(c)

Settles(c) == \E outcome \in {"fulfilled", "rejected", "abandoned"} : Settle(c, outcome)

Next ==
  \E c \in Calls :
    \/ \E request \in Requests : Issue(c, request)
    \/ Continue(c) \/ Settles(c)
    \/ Destroy(c) \/ Drop(c) \/ Collect(c)

\* The event loop runs every continuation that is ready, and the factory comes
\* to an end.  Nothing obliges the collector to run.
Spec == Init /\ [][Next]_vars /\ \A c \in Calls : WF_vars(Continue(c)) /\ WF_vars(Settles(c))

(***************************************************************************)
(* Properties.                                                             *)
(***************************************************************************)
Usable(c) == promise[c] \in {"pending", "fulfilled"}

\* Calls that did not ask for a runtime of their own share one per key, those
\* issued while the first is still being instantiated included.
OneSharedRuntime ==
  \A c, d \in Calls :
    (Usable(c) /\ Usable(d) /\ ~fresh[c] /\ ~fresh[d] /\ key[c] = key[d]) => c = d

\* A native instance is given back at most once, is alive as long as the
\* object would use it, and while it is alive the object or the registry
\* still knows its handle: neither destroy() and then the collector frees it
\* twice, nor does an object that was only dropped leak it.
OwnedExactlyOnce ==
  \A c \in Calls :
    LET built == pc[c] \in {"held", "unreachable", "collected"} IN
    /\ destroyed[c] <= 1
    /\ handle[c] /\ pc[c] # "collected" => destroyed[c] = 0
    /\ built /\ destroyed[c] = 0 => pc[c] # "collected" /\ c \in registered /\ cleanupRef[c]

\* A failure is not handed to calls made after it was reported: a caller that
\* was told of the failure and tries again gets a new attempt.
FailureNotServedAgain ==
  [][\A c \in Calls :
       LET p == modulePromises[key[c]] IN
       UseCached(c) => ~(promise[p] = "rejected" /\ pc[p] = "failed")]_vars

\* Every call is answered, except that those which await a precompiled module
\* that could not be instantiated wait for ever, the ones issued later included.
CallsAnswered ==
  \A c \in Calls :
    pc[c] = "import" ~> \/ pc[c] \notin {"import", "await", "build"}
                        \/ /\ key[c] = Precompiled
                           /\ pc[c] = "await" /\ promise[awaited[c]] = "abandoned"

=============================================================================
