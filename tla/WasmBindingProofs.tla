-------------------------- MODULE WasmBindingProofs --------------------------
(***************************************************************************)
(* The WebAssembly binding for any number of calls and keys: calls share   *)
(* one runtime per key, a reported failure is served to nobody again, and  *)
(* a native instance is owned until it is freed exactly once.              *)
(***************************************************************************)
EXTENDS WasmBinding, TLAPS

TypeOK ==
  /\ pc \in [Calls -> {"idle", "import", "await", "build", "held", "unreachable",
                       "collected", "returned", "failed"}]
  /\ key \in [Calls -> Keys \cup {None}]
  /\ fresh \in [Calls -> BOOLEAN]
  /\ awaited \in [Calls -> Calls \cup {None}]
  /\ promise \in [Calls -> {"none", "pending", "fulfilled", "rejected", "abandoned"}]
  /\ modulePromises \in [Keys -> Calls \cup {None}]
  /\ handle \in [Calls -> BOOLEAN]
  /\ cleanupRef \in [Calls -> BOOLEAN]
  /\ registered \subseteq Calls
  /\ destroyed \in [Calls -> Nat]

\* A promise in the map is fulfilled or its creator will take it out.
MapSound ==
  \A k \in Keys :
    LET p == modulePromises[k]
    IN p # None =>
         /\ key[p] = k /\ ~fresh[p] /\ promise[p] # "none"
         /\ (pc[p] = "await" /\ awaited[p] = p) \/ promise[p] = "fulfilled"

\* A shared promise that is of use, or still awaited by its creator, is in the map.
MapComplete ==
  \A c \in Calls :
    /\ pc[c] \in {"idle", "import"} => promise[c] = "none"
    /\ pc[c] # "idle" => key[c] \in Keys
    /\ pc[c] = "await" => awaited[c] \in Calls
    /\ Usable(c) /\ ~fresh[c] => modulePromises[key[c]] = c
    /\ pc[c] = "await" /\ awaited[c] = c /\ ~fresh[c] => modulePromises[key[c]] = c

\* The object's handle, its record and its registration go together until
\* the instance is freed.
ObjectsOwned ==
  \A c \in Calls :
    /\ pc[c] \in {"held", "unreachable"} =>
         /\ handle[c] <=> cleanupRef[c]
         /\ handle[c] <=> c \in registered
         /\ destroyed[c] = IF handle[c] THEN 0 ELSE 1
    /\ pc[c] = "collected" => ~cleanupRef[c] /\ c \notin registered /\ destroyed[c] = 1
    /\ pc[c] \notin {"held", "unreachable", "collected"} =>
         ~handle[c] /\ ~cleanupRef[c] /\ c \notin registered /\ destroyed[c] = 0

WasmInv == TypeOK /\ MapSound /\ MapComplete /\ ObjectsOwned

LEMMA InitInv == Init => WasmInv
<1> SUFFICES ASSUME Init PROVE WasmInv
  OBVIOUS
<1>1. TypeOK
  BY DEF Init, TypeOK
<1>2. MapSound /\ MapComplete
  BY DEF Init, MapSound, MapComplete, Usable
<1>3. ObjectsOwned
  BY DEF Init, ObjectsOwned
<1> QED BY <1>1, <1>2, <1>3 DEF WasmInv

\* The actions of one call.
Act(c) ==
  \/ \E request \in Requests : Issue(c, request)
  \/ ImportFails(c) \/ InstantiateFresh(c) \/ UseCached(c) \/ InstantiateShared(c)
  \/ Fulfilled(c) \/ Rejected(c) \/ ReturnVersion(c) \/ BuildFails(c) \/ Build(c)
  \/ \E outcome \in {"fulfilled", "rejected", "abandoned"} : Settle(c, outcome)
  \/ Destroy(c) \/ Drop(c) \/ Collect(c)

\* Every step is one action of one call.
LEMMA Actions == Next => \E c \in Calls : Act(c)
BY DEF Next, Continue, Settles, Act

LEMMA TypeStep ==
  ASSUME TypeOK, MapComplete, [Next]_vars
  PROVE  TypeOK'
<1> USE DEF TypeOK
<1>1. CASE UNCHANGED vars
  BY <1>1 DEF vars, call, runtimes, objects
<1>2. CASE Next
  <2>1. PICK c \in Calls : Act(c)
    BY <1>2, Actions
  <2>2. pc[c] # "idle" => key[c] \in Keys
    BY DEF MapComplete
  <2>3. ASSUME NEW request \in Requests, Issue(c, request) PROVE TypeOK'
    <3>1. request.key \in Keys /\ request.fresh \in BOOLEAN
      BY WasmAssumption
    <3> QED BY <2>3, <3>1 DEF Issue, Goto, runtimes, objects
  <2>4. CASE ImportFails(c)
    BY <2>4 DEF ImportFails, Goto, runtimes, objects
  <2>5. CASE InstantiateFresh(c)
    BY <2>5 DEF InstantiateFresh, Await, Instantiate, Goto, objects
  <2>6. CASE UseCached(c)
    <3>1. modulePromises[key[c]] \in Calls \cup {None}
      BY <2>2, <2>6 DEF UseCached
    <3> QED BY <2>6, <3>1 DEF UseCached, Await, Goto, runtimes, objects
  <2>7. CASE InstantiateShared(c)
    BY <2>7 DEF InstantiateShared, Await, Instantiate, Goto, objects
  <2>8. CASE Fulfilled(c)
    BY <2>8 DEF Fulfilled, Goto, runtimes, objects
  <2>9. CASE Rejected(c)
    BY <2>9 DEF Rejected, ForgetRejected, Goto, objects
  <2>10. CASE ReturnVersion(c) \/ BuildFails(c)
    BY <2>10 DEF ReturnVersion, BuildFails, Goto, runtimes, objects
  <2>11. CASE Build(c)
    BY <2>11 DEF Build, Goto, runtimes
  <2>12. ASSUME NEW outcome \in {"fulfilled", "rejected", "abandoned"}, Settle(c, outcome) PROVE TypeOK'
    BY <2>12 DEF Settle, call, objects
  <2>13. CASE Destroy(c)
    BY <2>13 DEF Destroy, SuzumeDestroy, call, runtimes
  <2>14. CASE Drop(c)
    BY <2>14 DEF Drop, Goto, runtimes, objects
  <2>15. CASE Collect(c)
    <3>1. /\ destroyed' \in {destroyed, [destroyed EXCEPT ![c] = @ + 1]}
          /\ cleanupRef' \in {cleanupRef, [cleanupRef EXCEPT ![c] = FALSE]}
      BY <2>15 DEF Collect, SuzumeDestroy
    <3>2. [destroyed EXCEPT ![c] = @ + 1] \in [Calls -> Nat]
      OBVIOUS
    <3> QED BY <2>15, <3>1, <3>2 DEF Collect, Goto, runtimes
  <2> QED BY <2>1, <2>3, <2>4, <2>5, <2>6, <2>7, <2>8, <2>9, <2>10, <2>11, <2>12, <2>13, <2>14, <2>15 DEF Act
<1> QED BY <1>1, <1>2

\* The two halves of the map's invariant.  Only an action of a call that
\* creates, awaits or settles a promise can disturb them.
LEMMA MapStep ==
  ASSUME TypeOK, MapSound, MapComplete, [Next]_vars
  PROVE  MapSound' /\ MapComplete'
<1> USE DEF TypeOK, MapSound, MapComplete, Usable
<1>1. CASE UNCHANGED vars
  BY <1>1 DEF vars, call, runtimes, objects
<1>2. CASE Next
  <2>1. PICK c \in Calls : Act(c)
    BY <1>2, Actions
  <2>2. None \notin Calls
    BY WasmAssumption
  <2>3. ASSUME NEW request \in Requests, Issue(c, request) PROVE MapSound' /\ MapComplete'
    <3>1. request.key \in Keys
      BY WasmAssumption
    <3> QED BY <2>2, <2>3, <3>1 DEF Issue, Goto, runtimes, objects
  <2>4. CASE ImportFails(c)
    BY <2>2, <2>4 DEF ImportFails, Goto, runtimes, objects
  <2>5. CASE InstantiateFresh(c)
    BY <2>2, <2>5 DEF InstantiateFresh, Await, Instantiate, Goto, objects
  <2>6. CASE UseCached(c)
    BY <2>2, <2>6 DEF UseCached, Await, Goto, runtimes, objects
  <2>7. CASE InstantiateShared(c)
    BY <2>2, <2>7 DEF InstantiateShared, Await, Instantiate, Goto, objects
  <2>8. CASE Fulfilled(c)
    BY <2>2, <2>8 DEF Fulfilled, Goto, runtimes, objects
  <2>9. CASE Rejected(c)
    BY <2>2, <2>9 DEF Rejected, ForgetRejected, Goto, objects
  <2>10. CASE ReturnVersion(c) \/ BuildFails(c) \/ Build(c)
    BY <2>2, <2>10 DEF ReturnVersion, BuildFails, Build, Goto, runtimes, objects
  <2>11. ASSUME NEW outcome \in {"fulfilled", "rejected", "abandoned"}, Settle(c, outcome)
         PROVE  MapSound' /\ MapComplete'
    BY <2>2, <2>11 DEF Settle, call, objects
  <2>12. CASE Destroy(c) \/ Drop(c) \/ Collect(c)
    BY <2>2, <2>12 DEF Destroy, Drop, Collect, Goto, call, runtimes, objects
  <2> QED BY <2>1, <2>3, <2>4, <2>5, <2>6, <2>7, <2>8, <2>9, <2>10, <2>11, <2>12 DEF Act
<1> QED BY <1>1, <1>2

LEMMA ObjectsStep ==
  ASSUME TypeOK, ObjectsOwned, [Next]_vars
  PROVE  ObjectsOwned'
<1> USE DEF TypeOK, ObjectsOwned
<1>1. CASE UNCHANGED vars
  BY <1>1 DEF vars, call, runtimes, objects
<1>2. CASE Next
  <2>1. PICK c \in Calls : Act(c)
    BY <1>2, Actions
  <2>2. CASE \E request \in Requests : Issue(c, request)
    BY <2>2 DEF Issue, Goto, objects
  <2>3. CASE ImportFails(c) \/ InstantiateFresh(c) \/ UseCached(c) \/ InstantiateShared(c)
    BY <2>3 DEF ImportFails, InstantiateFresh, UseCached, InstantiateShared, Await, Goto, objects
  <2>4. CASE Fulfilled(c) \/ Rejected(c) \/ ReturnVersion(c) \/ BuildFails(c)
    BY <2>4 DEF Fulfilled, Rejected, ReturnVersion, BuildFails, Goto, objects
  <2>5. CASE Build(c)
    BY <2>5 DEF Build, Goto
  <2>6. CASE \E outcome \in {"fulfilled", "rejected", "abandoned"} : Settle(c, outcome)
    BY <2>6 DEF Settle, call, objects
  <2>7. CASE Destroy(c)
    BY <2>7 DEF Destroy, SuzumeDestroy, call
  <2>8. CASE Drop(c)
    BY <2>8 DEF Drop, Goto, objects
  <2>9. CASE Collect(c)
    BY <2>9 DEF Collect, SuzumeDestroy, Goto
  <2> QED BY <2>1, <2>2, <2>3, <2>4, <2>5, <2>6, <2>7, <2>8, <2>9 DEF Act
<1> QED BY <1>1, <1>2

\* The inductive invariant of runtimes and objects.
THEOREM WasmInvariant == Spec => []WasmInv
<1>1. WasmInv /\ [Next]_vars => WasmInv'
  BY TypeStep, MapStep, ObjectsStep DEF WasmInv
<1> QED BY InitInv, <1>1, PTL DEF Spec

\* Two calls with one key that want no runtime of their own never hold two
\* (instantiateModule of bindings/wasm/js/index.ts).
THEOREM RuntimeShared == Spec => []OneSharedRuntime
<1>1. WasmInv => OneSharedRuntime
  BY DEF WasmInv, MapComplete, OneSharedRuntime
<1> QED BY <1>1, WasmInvariant, PTL

\* destroy() and the finalization registry free each native instance exactly
\* once, and never while the object would still use it.
THEOREM InstanceOwned == Spec => []OwnedExactlyOnce
<1>1. WasmInv => OwnedExactlyOnce
  BY DEF WasmInv, TypeOK, ObjectsOwned, OwnedExactlyOnce
<1> QED BY <1>1, WasmInvariant, PTL

\* A failure that was reported to its first caller is handed to no later call.
THEOREM FailuresForgotten == Spec => FailureNotServedAgain
<1> DEFINE Served == \A c \in Calls :
             LET p == modulePromises[key[c]] IN
             UseCached(c) => ~(promise[p] = "rejected" /\ pc[p] = "failed")
<1>1. WasmInv => Served
  BY DEF WasmInv, MapSound, MapComplete, UseCached
<1>2. WasmInv => [Served]_vars
  BY <1>1
<1> QED BY <1>2, WasmInvariant, PTL DEF FailureNotServedAgain
=============================================================================
