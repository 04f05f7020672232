------------------------- MODULE PythonBindingProofs -------------------------
(***************************************************************************)
(* The shared Python object for any number of threads and calls: the lock  *)
(* keeps the two halves of a native call together, no native call meets a  *)
(* destroyed instance, an error message belongs to its own call, and no    *)
(* load costs a word.                                                      *)
(***************************************************************************)
EXTENDS PythonBinding, SharedLemmas

\* Thread t is past the lock's acquisition and before its release.
Holds(t) == pc[t] \notin {"idle", "enter"} /\ op[t] # "create"

Types ==
  /\ pc = [t \in Threads |-> pc[t]]
  /\ arg = [t \in Threads |-> arg[t]]
  /\ op = [t \in Threads |-> op[t]]
  /\ seen = [t \in Threads |-> seen[t]]
  /\ failure = [t \in Threads |-> failure[t]]
  /\ lastError = [t \in Threads |-> lastError[t]]
  /\ handle \in BOOLEAN /\ alive \in BOOLEAN

\* The call that takes no lock is in its native function or behind it.
CreateOutside ==
  \A t \in Threads :
    /\ op[t] = "create" => pc[t] \in {"native", "error"}
    /\ pc[t] \in {"idle", "enter"} => op[t] # "create"

\* The lock's owner is the one thread inside a method.
LockHeld == \A t \in Threads : Holds(t) <=> owner = t

\* The handle is stale only between suzume_destroy and its reset, and a
\* method goes on to the native call only with a handle.
HandleFresh ==
  /\ handle => alive \/ \E t \in Threads : pc[t] = "forget"
  /\ \A t \in Threads : Inside(t) => handle

\* Between its two halves a mode change has stored its mode.
ModeStored == \A t \in Threads : Native(t, "second", {"set_mode"}) => mode = arg[t]

BindingInv ==
  Types /\ CreateOutside /\ LockHeld /\ HandleFresh /\ ModeStored
    /\ CallsSeeOneInstance /\ ErrorIsOwn /\ PartsAgreeOnMode

\* The actions that start a method, those that hold the lock or take it, the
\* first halves of native calls, the second ones, and the rest.
Begins(t) == Finalize(t) \/ \E o \in Ops : Call(t, o)
Locks(t) == Enter(t) \/ Reenter(t) \/ Leave(t)
FirstHalf(t) ==
  \/ Tokenize(t) \/ SetMode(t) \/ GetMode(t) \/ LoadUserDict(t) \/ LoadBinaryDict(t)
  \/ Clear(t) \/ CountWarnings(t) \/ Create(t)
SecondHalf(t) == Postprocess(t) \/ FinishSetMode(t) \/ FinishLoadUserDict(t) \/ ReadWarnings(t)
InPython(t) ==
  RequireHandle(t) \/ ReadResult(t) \/ FreeResult(t) \/ RaiseNativeError(t) \/ Destroy(t) \/ Forget(t)

LEMMA Actions ==
  Next => \E t \in Threads : Begins(t) \/ Locks(t) \/ FirstHalf(t) \/ SecondHalf(t) \/ InPython(t)
BY DEF Next, Step, Begins, Locks, FirstHalf, SecondHalf, InPython

LEMMA InitInv == Init => BindingInv
<1> SUFFICES ASSUME Init PROVE BindingInv
  OBVIOUS
<1>1. Types /\ CreateOutside
  BY DEF Init, Types, CreateOutside
<1>2. LockHeld /\ HandleFresh /\ ModeStored
  BY BindingAssumption DEF Init, LockHeld, Holds, HandleFresh, Inside, ModeStored, Native
<1>3. CallsSeeOneInstance /\ ErrorIsOwn
  BY DEF Init, CallsSeeOneInstance, Native, ErrorIsOwn
<1>4. PartsAgreeOnMode
  BY DEF Init, Construct, PartsAgreeOnMode
<1> QED BY <1>1, <1>2, <1>3, <1>4 DEF BindingInv

LEMMA TypesStep ==
  ASSUME Types, [Next]_vars
  PROVE  Types'
<1> USE DEF Types, Goto
<1>1. CASE UNCHANGED vars
  BY <1>1 DEF vars, thread, object
<1>2. CASE Next
  <2>1. PICK t \in Threads : Begins(t) \/ Locks(t) \/ FirstHalf(t) \/ SecondHalf(t) \/ InPython(t)
    BY <1>2, Actions
  <2>2. CASE Begins(t)
    BY <2>2 DEF Begins, Finalize, Call, Begin
  <2>3. CASE Locks(t)
    BY <2>3 DEF Locks, Enter, Reenter, Leave, Return, thread, object
  <2>4. CASE FirstHalf(t)
    BY <2>4 DEF FirstHalf, Tokenize, SetMode, GetMode, LoadUserDict, LoadBinaryDict, Clear,
                CountWarnings, Create, Proceed, Fail, Error, object
  <2>5. CASE SecondHalf(t)
    BY <2>5 DEF SecondHalf, Postprocess, FinishSetMode, FinishLoadUserDict, ReadWarnings,
                Fail, Error, object
  <2>6. CASE InPython(t)
    BY <2>6 DEF InPython, RequireHandle, ReadResult, FreeResult, RaiseNativeError, Destroy, Forget,
                Return, object
  <2> QED BY <2>1, <2>2, <2>3, <2>4, <2>5, <2>6
<1> QED BY <1>1, <1>2

\* Only the wrapper of @_locked moves the lock.
LEMMA LockStep ==
  ASSUME Types, CreateOutside, LockHeld, [Next]_vars
  PROVE  CreateOutside' /\ LockHeld'
<1> USE DEF Types, CreateOutside, LockHeld, Holds, Goto
<1>0. Nobody \notin Threads
  BY BindingAssumption
<1>1. CASE UNCHANGED vars
  BY <1>1 DEF vars, thread, lockVars
<1>2. CASE Next
  <2>1. PICK t \in Threads : Begins(t) \/ Locks(t) \/ FirstHalf(t) \/ SecondHalf(t) \/ InPython(t)
    BY <1>2, Actions
  <2>2. CASE Begins(t)
    BY <2>2 DEF Begins, Finalize, Call, Begin, lockVars
  <2>3. CASE Enter(t)
    BY <1>0, <2>3 DEF Enter, Granted
  <2>4. CASE Reenter(t)
    BY <1>0, <2>4 DEF Reenter
  <2>5. CASE Leave(t)
    BY <1>0, <2>5 DEF Leave, Return, thread
  <2>6. CASE FirstHalf(t)
    <3>1. CASE Tokenize(t) \/ SetMode(t) \/ GetMode(t)
      BY <3>1 DEF Tokenize, SetMode, GetMode, Native, Proceed, Fail, lockVars
    <3>2. CASE LoadUserDict(t) \/ LoadBinaryDict(t) \/ Clear(t) \/ CountWarnings(t)
      BY <3>2 DEF LoadUserDict, LoadBinaryDict, Clear, CountWarnings, Native, Proceed, Fail, lockVars
    <3>3. CASE Create(t)
      BY <3>3 DEF Create, Native, Fail, lockVars
    <3> QED BY <2>6, <3>1, <3>2, <3>3 DEF FirstHalf
  <2>7. CASE SecondHalf(t)
    BY <2>7 DEF SecondHalf, Postprocess, FinishSetMode, FinishLoadUserDict, ReadWarnings,
                Native, Fail, lockVars
  <2>8. CASE InPython(t)
    BY <2>8 DEF InPython, RequireHandle, ReadResult, FreeResult, RaiseNativeError, Destroy, Forget,
                Return, lockVars
  <2> QED BY <2>1, <2>2, <2>3, <2>4, <2>5, <2>6, <2>7, <2>8 DEF Locks
<1> QED BY <1>1, <1>2

\* The thread that destroys the instance is the lock's owner, so nobody else
\* is past the check of the handle.
LEMMA HandleStep ==
  ASSUME Types, CreateOutside, LockHeld, HandleFresh, [Next]_vars
  PROVE  HandleFresh'
<1> USE DEF Types, CreateOutside, LockHeld, Holds, HandleFresh, Inside, Goto
<1>1. CASE UNCHANGED vars
  BY <1>1 DEF vars, thread, object
<1>2. CASE Next
  <2>1. PICK t \in Threads : Begins(t) \/ Locks(t) \/ FirstHalf(t) \/ SecondHalf(t) \/ InPython(t)
    BY <1>2, Actions
  <2>2. CASE Begins(t)
    BY <2>2 DEF Begins, Finalize, Call, Begin
  <2>3. CASE Enter(t)
    BY <2>3 DEF Enter, object
  <2>4. CASE Reenter(t) \/ Leave(t)
    BY <2>4 DEF Reenter, Leave, Return, thread, object
  <2>5. CASE FirstHalf(t)
    <3>1. CASE Tokenize(t) \/ SetMode(t) \/ GetMode(t)
      BY <3>1 DEF Tokenize, SetMode, GetMode, Native, Proceed, Fail, object
    <3>2. CASE LoadUserDict(t) \/ LoadBinaryDict(t) \/ Clear(t) \/ CountWarnings(t)
      BY <3>2 DEF LoadUserDict, LoadBinaryDict, Clear, CountWarnings, Native, Proceed, Fail, object
    <3>3. CASE Create(t)
      BY <3>3 DEF Create, Native, Fail, object
    <3> QED BY <2>5, <3>1, <3>2, <3>3 DEF FirstHalf
  <2>6. CASE SecondHalf(t)
    BY <2>6 DEF SecondHalf, Postprocess, FinishSetMode, FinishLoadUserDict, ReadWarnings,
                Native, Fail, object
  <2>7. CASE RequireHandle(t) \/ ReadResult(t) \/ FreeResult(t) \/ RaiseNativeError(t)
    BY <2>7 DEF RequireHandle, ReadResult, FreeResult, RaiseNativeError, Return, object
  <2>8. CASE Destroy(t)
    BY <2>8 DEF Destroy
  <2>9. CASE Forget(t)
    BY <2>9 DEF Forget
  <2> QED BY <2>1, <2>2, <2>3, <2>4, <2>5, <2>6, <2>7, <2>8, <2>9 DEF Locks, InPython
<1> QED BY <1>1, <1>2

\* A failure writes its message into the slot of its own thread alone.
LEMMA ErrorStep ==
  ASSUME Types, ErrorIsOwn, [Next]_vars
  PROVE  ErrorIsOwn'
<1> USE DEF Types, ErrorIsOwn, Goto
<1>1. CASE UNCHANGED vars
  BY <1>1 DEF vars, thread
<1>2. CASE Next
  <2>1. PICK t \in Threads : Begins(t) \/ Locks(t) \/ FirstHalf(t) \/ SecondHalf(t) \/ InPython(t)
    BY <1>2, Actions
  <2>2. CASE Begins(t)
    BY <2>2 DEF Begins, Finalize, Call, Begin
  <2>3. CASE Enter(t)
    BY <2>3 DEF Enter
  <2>4. CASE Reenter(t) \/ Leave(t)
    BY <2>4 DEF Reenter, Leave, Return, thread
  <2>5. CASE FirstHalf(t)
    BY <2>5, ZenonT(30) DEF FirstHalf, Tokenize, SetMode, GetMode, LoadUserDict, LoadBinaryDict, Clear,
                CountWarnings, Create, Proceed, Fail, Error
  <2>6. CASE SecondHalf(t)
    BY <2>6 DEF SecondHalf, Postprocess, FinishSetMode, FinishLoadUserDict, ReadWarnings, Fail, Error
  <2>7. CASE InPython(t)
    BY <2>7 DEF InPython, RequireHandle, ReadResult, FreeResult, RaiseNativeError, Destroy, Forget, Return
  <2> QED BY <2>1, <2>2, <2>3, <2>4, <2>5, <2>6, <2>7 DEF Locks
<1> QED BY <1>1, <1>2

\* What a call reads in its first half is what it finds in the second: only
\* the lock's owner changes the instance, and in one step at a time.
LEMMA ViewStep ==
  ASSUME Types, CreateOutside, LockHeld, CallsSeeOneInstance, [Next]_vars
  PROVE  CallsSeeOneInstance'
<1> USE DEF Types, CallsSeeOneInstance, Native, Goto
<1> DEFINE Same == UNCHANGED <<View, DictionaryWarnings>>
<1>1. UNCHANGED instance => Same
  BY DEF instance, modes, layers, View, DictionaryWarnings
<1>2. CASE UNCHANGED vars
  BY <1>1, <1>2 DEF vars, thread
<1>3. CASE Next
  <2>1. PICK t \in Threads : Begins(t) \/ Locks(t) \/ FirstHalf(t) \/ SecondHalf(t) \/ InPython(t)
    BY <1>3, Actions
  <2>2. ASSUME NEW u \in Threads, u # t, Holds(t) PROVE ~(pc[u] = "second" /\ op[u] # "create")
    BY <2>2 DEF LockHeld, Holds
  <2>3. CASE Begins(t)
    BY <1>1, <2>3 DEF Begins, Finalize, Call, Begin
  <2>4. CASE Locks(t)
    BY <1>1, <2>4 DEF Locks, Enter, Reenter, Leave, Return, thread
  <2>5. CASE Tokenize(t)
    BY <1>1, <2>5, ZenonT(30) DEF Tokenize, Proceed, Fail
  <2>6. CASE SetMode(t) \/ LoadUserDict(t) \/ LoadBinaryDict(t) \/ Clear(t)
    <3>1. Holds(t) /\ op[t] \notin {"analyze", "tags", "warnings"}
      BY <2>6 DEF Holds, SetMode, LoadUserDict, LoadBinaryDict, Clear
    <3>2. op' = op /\ seen' = seen /\ \A u \in Threads : u # t => pc'[u] = pc[u]
      BY <2>6 DEF SetMode, LoadUserDict, LoadBinaryDict, Clear, Proceed, Fail
    <3> QED BY <2>2, <3>1, <3>2
  <2>7. CASE GetMode(t) \/ CountWarnings(t) \/ Create(t)
    BY <1>1, <2>7, ZenonT(30) DEF GetMode, CountWarnings, Create, Proceed, Fail
  <2>8. CASE Postprocess(t) \/ ReadWarnings(t)
    BY <1>1, <2>8 DEF Postprocess, ReadWarnings, Fail
  <2>9. CASE FinishSetMode(t) \/ FinishLoadUserDict(t)
    <3>1. Holds(t) /\ op[t] \notin {"analyze", "tags", "warnings"}
      BY <2>9 DEF Holds, FinishSetMode, FinishLoadUserDict
    <3>2. op' = op /\ seen' = seen /\ \A u \in Threads : u # t => pc'[u] = pc[u]
      BY <2>9 DEF FinishSetMode, FinishLoadUserDict, Fail
    <3> QED BY <2>2, <3>1, <3>2
  <2>10. CASE InPython(t)
    BY <1>1, <2>10 DEF InPython, RequireHandle, ReadResult, FreeResult, RaiseNativeError, Destroy, Forget,
                       Return
  <2> QED BY <2>1, <2>3, <2>4, <2>5, <2>6, <2>7, <2>8, <2>9, <2>10 DEF FirstHalf, SecondHalf
<1> QED BY <1>2, <1>3

\* A mode change that is interrupted between its halves is the only one, so
\* the second half sets the postprocessor for the mode the first has stored.
LEMMA ModeStep ==
  ASSUME Types, CreateOutside, LockHeld, ModeStored, PartsAgreeOnMode, [Next]_vars
  PROVE  ModeStored' /\ PartsAgreeOnMode'
<1> USE DEF Types, ModeStored, Native, Goto
<1> DEFINE Same == UNCHANGED <<mode, merge, analyzerMode, tokenizerMode, mergeNouns>>
           Halves(u) == Native(u, "second", {"set_mode"})
<1>1. UNCHANGED instance => Same
  BY DEF instance, modes
<1>2. ASSUME Same, UNCHANGED behind,
             \A u \in Threads : Halves(u) <=> Halves(u)', \A u \in Threads : Halves(u) => arg'[u] = arg[u]
      PROVE  ModeStored' /\ PartsAgreeOnMode'
  BY <1>2 DEF PartsAgreeOnMode, PostprocessOptionsFor
<1>3. CASE UNCHANGED vars
  BY <1>1, <1>2, <1>3 DEF vars, thread, object
<1>4. CASE Next
  <2>1. PICK t \in Threads : Begins(t) \/ Locks(t) \/ FirstHalf(t) \/ SecondHalf(t) \/ InPython(t)
    BY <1>4, Actions
  <2>2. CASE Begins(t)
    BY <1>1, <1>2, <2>2 DEF Begins, Finalize, Call, Begin
  <2>3. CASE Locks(t)
    BY <1>1, <1>2, <2>3 DEF Locks, Enter, Reenter, Leave, Return, thread, object
  <2>4. CASE Tokenize(t) \/ GetMode(t) \/ CountWarnings(t) \/ Create(t)
    BY <1>1, <1>2, <2>4 DEF Tokenize, GetMode, CountWarnings, Create, Proceed, Fail, object
  <2>5. CASE SetMode(t)
    <3>1. \A u \in Threads \ {t} : ~Halves(u)
      BY <2>5 DEF SetMode, LockHeld, Holds
    <3>2. CASE /\ Proceed(t, "second")
               /\ SetAnalyzerMode(arg[t])
               /\ behind' = IF analyzerMode = arg[t] THEN behind ELSE behind \ {"tokenizer"}
      BY <2>5, <3>1, <3>2 DEF SetMode, Proceed, SetAnalyzerMode, PartsAgreeOnMode
    <3>3. CASE /\ Fail(t, "out of memory")
               /\ SetAnalyzerModeStarved(arg[t])
               /\ behind' = {"tokenizer", "postprocessor"}
      BY <2>5, <3>1, <3>3 DEF SetMode, Fail, SetAnalyzerModeStarved, PartsAgreeOnMode
    <3> QED BY <2>5, <3>2, <3>3 DEF SetMode
  <2>6. CASE LoadUserDict(t) \/ LoadBinaryDict(t) \/ Clear(t)
    BY <1>1, <1>2, <2>6 DEF LoadUserDict, LoadBinaryDict, Clear, Proceed, Fail, object,
                            AddSource, AddBinary, ClearUserDictionaries, modes
  <2>7. CASE Postprocess(t) \/ ReadWarnings(t)
    BY <1>1, <1>2, <2>7 DEF Postprocess, ReadWarnings, Fail, object
  <2>8. CASE FinishSetMode(t)
    <3>1. \A u \in Threads \ {t} : ~Halves(u)
      BY <2>8 DEF FinishSetMode, LockHeld, Holds
    <3>2. mode = arg[t]
      BY <2>8 DEF FinishSetMode
    <3> QED BY <2>8, <3>1, <3>2 DEF FinishSetMode, SetPostprocessor, PartsAgreeOnMode, PostprocessOptionsFor, object
  <2>9. CASE FinishLoadUserDict(t)
    <3>1. \A u \in Threads : Halves(u) <=> Halves(u)'
      BY <2>9 DEF FinishLoadUserDict, Fail
    <3>2. UNCHANGED <<arg, mode, merge, mergeNouns>>
      BY <2>9 DEF FinishLoadUserDict, Fail, RebuildAfterSource, instance, modes
    <3>3. CASE UNCHANGED <<instance, behind>>
      BY <1>1, <1>2, <3>1, <3>2, <3>3
    <3>4. CASE RebuildAfterSource(arg[t]) /\ behind' = behind \ {"tokenizer"}
      <4>1. analyzerMode' = mode /\ tokenizerMode' = mode
        BY <3>4 DEF RebuildAfterSource, PartsAgreeOnMode
      <4>2. "postprocessor" \in behind <=> "postprocessor" \in behind'
        BY <3>4
      <4> QED BY <3>1, <3>2, <4>1, <4>2 DEF PartsAgreeOnMode, PostprocessOptionsFor
    <3> QED BY <2>9, <3>3, <3>4 DEF FinishLoadUserDict
  <2>10. CASE InPython(t)
    BY <1>1, <1>2, <2>10 DEF InPython, RequireHandle, ReadResult, FreeResult, RaiseNativeError, Destroy,
                             Forget, Return, object
  <2> QED BY <2>1, <2>2, <2>3, <2>4, <2>5, <2>6, <2>7, <2>8, <2>9, <2>10 DEF FirstHalf, SecondHalf
<1> QED BY <1>3, <1>4

\* The inductive invariant of the shared object.
THEOREM BindingInvariant == Spec => []BindingInv
<1>1. BindingInv /\ [Next]_vars => BindingInv'
  BY TypesStep, LockStep, HandleStep, ErrorStep, ViewStep, ModeStep DEF BindingInv
<1> QED BY InitInv, <1>1, PTL DEF Spec

\* No C function runs on an instance that suzume_destroy was given, however
\* many threads call, close and drop the object.
THEOREM HandleSafe == Spec => []HandleOutlivesCalls
<1>1. BindingInv => HandleOutlivesCalls
  <2> SUFFICES ASSUME BindingInv, NEW t \in Threads, Inside(t) \/ (pc[t] = "close" /\ handle)
               PROVE  alive
    BY DEF HandleOutlivesCalls
  <2>1. handle /\ Holds(t)
    BY DEF BindingInv, CreateOutside, HandleFresh, Inside, Holds
  <2>2. ASSUME NEW u \in Threads, pc[u] = "forget" PROVE u = t
    BY <2>1, <2>2 DEF BindingInv, CreateOutside, LockHeld, Holds
  <2> QED BY <2>1, <2>2 DEF BindingInv, HandleFresh, Inside
<1> QED BY <1>1, BindingInvariant, PTL

\* The two halves of a native call meet one mode and one set of dictionaries.
THEOREM OneInstanceSeen == Spec => []CallsSeeOneInstance
<1>1. BindingInv => CallsSeeOneInstance
  BY DEF BindingInv
<1> QED BY <1>1, BindingInvariant, PTL

\* A method raises with the message of its own native call.
THEOREM ErrorsOwn == Spec => []ErrorIsOwn
<1>1. BindingInv => ErrorIsOwn
  BY DEF BindingInv
<1> QED BY <1>1, BindingInvariant, PTL

\* Analyzer, tokenizer and postprocessor follow the mode that mode() reports.
THEOREM ModesAgree == Spec => []PartsAgreeOnMode
<1>1. BindingInv => PartsAgreeOnMode
  BY DEF BindingInv
<1> QED BY <1>1, BindingInvariant, PTL

-----------------------------------------------------------------------------
\* The layers are dictionaries, in sequences.
LayersTyped ==
  /\ coreBinary \subseteq Words
  /\ bundled \in Seq(SUBSET Words) /\ binaries \in Seq(SUBSET Words) /\ sources \in Seq(SUBSET Words)

\* A word that is somewhere has a first place.
LEMMA FirstPlace ==
  ASSUME NEW S \in SUBSET Nat, S # {}
  PROVE  Min(S) \in S /\ \A y \in S : Min(S) =< y
BY LeastNatural DEF Min

\* Some dictionary of the list holds w.
Has(list, w) == \E i \in DOMAIN list : w \in list[i]

LEMMA Joined ==
  ASSUME NEW S, NEW a \in Seq(S), NEW b \in Seq(S), NEW w
  PROVE  /\ a \o b \in Seq(S)
         /\ Len(a \o b) = Len(a) + Len(b)
         /\ \A i \in 1..Len(a) : (a \o b)[i] = a[i]
         /\ Has(a \o b, w) <=> Has(a, w) \/ Has(b, w)
<1>1. /\ a \o b \in Seq(S)
      /\ Len(a \o b) = Len(a) + Len(b)
      /\ \A i \in 1..Len(a) : (a \o b)[i] = a[i]
      /\ \A i \in 1..Len(b) : (a \o b)[Len(a) + i] = b[i]
  OBVIOUS
<1>2. \A i \in 1..(Len(a) + Len(b)) : i \in 1..Len(a) \/ i - Len(a) \in 1..Len(b)
  OBVIOUS
<1>3. \A i \in 1..Len(b) : Len(a) + i \in 1..(Len(a) + Len(b))
  OBVIOUS
<1>4. DOMAIN a = 1..Len(a) /\ DOMAIN b = 1..Len(b) /\ DOMAIN (a \o b) = 1..Len(a \o b)
  BY <1>1
<1>5. ASSUME Has(a \o b, w) PROVE Has(a, w) \/ Has(b, w)
  <2>1. PICK i \in 1..(Len(a) + Len(b)) : w \in (a \o b)[i]
    BY <1>1, <1>4, <1>5 DEF Has
  <2>2. CASE i \in 1..Len(a)
    BY <1>1, <1>4, <2>1, <2>2 DEF Has
  <2>3. CASE i - Len(a) \in 1..Len(b)
    <3>1. (a \o b)[Len(a) + (i - Len(a))] = b[i - Len(a)] /\ Len(a) + (i - Len(a)) = i
      BY <1>1, <2>3
    <3> QED BY <1>4, <2>1, <2>3, <3>1 DEF Has
  <2> QED BY <1>2, <2>2, <2>3
<1>6. ASSUME Has(a, w) PROVE Has(a \o b, w)
  BY <1>1, <1>4, <1>6 DEF Has
<1>7. ASSUME Has(b, w) PROVE Has(a \o b, w)
  BY <1>1, <1>3, <1>4, <1>7 DEF Has
<1> QED BY <1>1, <1>5, <1>6, <1>7

\* What LookupInto and LookupExact are of any list of dictionaries.
PlacesIn(list, w) == {i \in DOMAIN list : w \in list[i]}
FirstIn(list, w) == IF PlacesIn(list, w) = {} THEN 0 ELSE Min(PlacesIn(list, w))

LEMMA FirstAnswers ==
  ASSUME NEW S, NEW list \in Seq(S), NEW w
  PROVE  /\ PlacesIn(list, w) # {} <=> Has(list, w)
         /\ Has(list, w) => /\ FirstIn(list, w) \in PlacesIn(list, w)
                            /\ \A j \in PlacesIn(list, w) : FirstIn(list, w) =< j
         /\ ~Has(list, w) => FirstIn(list, w) = 0
         /\ PlacesIn(list, w) \in SUBSET (Nat \ {0})
<1>1. PlacesIn(list, w) \in SUBSET (Nat \ {0})
  BY DEF PlacesIn
<1>2. PlacesIn(list, w) # {} <=> Has(list, w)
  BY DEF PlacesIn, Has
<1> QED BY <1>1, <1>2, FirstPlace DEF FirstIn

\* Lists that begin alike: a word found in the common part is found in the same
\* place of both, and one found later is found if any later part holds it.
LEMMA AnswersKept ==
  ASSUME NEW S, NEW own \in Seq(S), NEW b \in Seq(S), NEW c \in Seq(S),
         NEW bb \in Seq(S), NEW cc \in Seq(S), NEW w
  PROVE  /\ FirstIn(own \o b \o c, w) \in 1..Len(own)
              => FirstIn(own \o bb \o cc, w) = FirstIn(own \o b \o c, w)
         /\ (Has(b, w) => Has(bb, w)) /\ (Has(c, w) => Has(cc, w)) /\ FirstIn(own \o b \o c, w) # 0
              => FirstIn(own \o bb \o cc, w) # 0
<1> DEFINE old == own \o b \o c
           new == own \o bb \o cc
<1>1. /\ own \o b \in Seq(S) /\ Len(own \o b) = Len(own) + Len(b)
      /\ \A i \in 1..Len(own) : (own \o b)[i] = own[i]
      /\ Has(own \o b, w) <=> Has(own, w) \/ Has(b, w)
  BY Joined
<1>2. /\ own \o bb \in Seq(S) /\ Len(own \o bb) = Len(own) + Len(bb)
      /\ \A i \in 1..Len(own) : (own \o bb)[i] = own[i]
      /\ Has(own \o bb, w) <=> Has(own, w) \/ Has(bb, w)
  BY Joined
<1>3. /\ old \in Seq(S) /\ Len(old) = Len(own \o b) + Len(c)
      /\ \A i \in 1..Len(own \o b) : old[i] = (own \o b)[i]
      /\ Has(old, w) <=> Has(own \o b, w) \/ Has(c, w)
  <2> DEFINE front == own \o b
  <2>1. front \in Seq(S)
    BY <1>1
  <2> HIDE DEF front
  <2>2. /\ front \o c \in Seq(S) /\ Len(front \o c) = Len(front) + Len(c)
        /\ \A i \in 1..Len(front) : (front \o c)[i] = front[i]
        /\ Has(front \o c, w) <=> Has(front, w) \/ Has(c, w)
    BY <2>1, Joined
  <2> QED BY <2>2 DEF front
<1>4. /\ new \in Seq(S) /\ Len(new) = Len(own \o bb) + Len(cc)
      /\ \A i \in 1..Len(own \o bb) : new[i] = (own \o bb)[i]
      /\ Has(new, w) <=> Has(own \o bb, w) \/ Has(cc, w)
  <2> DEFINE front == own \o bb
  <2>1. front \in Seq(S)
    BY <1>2
  <2> HIDE DEF front
  <2>2. /\ front \o cc \in Seq(S) /\ Len(front \o cc) = Len(front) + Len(cc)
        /\ \A i \in 1..Len(front) : (front \o cc)[i] = front[i]
        /\ Has(front \o cc, w) <=> Has(front, w) \/ Has(cc, w)
    BY <2>1, Joined
  <2> QED BY <2>2 DEF front
<1>5. Len(own) \in Nat /\ Len(b) \in Nat /\ Len(c) \in Nat /\ Len(bb) \in Nat /\ Len(cc) \in Nat
  OBVIOUS
<1> HIDE DEF old, new
<1>6. DOMAIN old = 1..Len(old) /\ DOMAIN new = 1..Len(new)
  BY <1>3, <1>4
<1>7. \A i \in 1..Len(own) : i \in DOMAIN old /\ i \in DOMAIN new /\ old[i] = new[i]
  <2>1. \A i \in 1..Len(own) : i \in 1..Len(own \o b) /\ i \in 1..Len(old)
    BY <1>1, <1>3, <1>5
  <2>2. \A i \in 1..Len(own) : i \in 1..Len(own \o bb) /\ i \in 1..Len(new)
    BY <1>2, <1>4, <1>5
  <2> QED BY <1>1, <1>2, <1>3, <1>4, <1>6, <2>1, <2>2
<1>8. \A i \in 1..Len(own) : i \in PlacesIn(old, w) <=> i \in PlacesIn(new, w)
  BY <1>7 DEF PlacesIn
<1>9. /\ PlacesIn(old, w) # {} <=> Has(old, w)
      /\ Has(old, w) => FirstIn(old, w) \in PlacesIn(old, w) /\ \A j \in PlacesIn(old, w) : FirstIn(old, w) =< j
      /\ ~Has(old, w) => FirstIn(old, w) = 0
      /\ PlacesIn(old, w) \in SUBSET (Nat \ {0})
  BY <1>3, FirstAnswers
<1>10. /\ PlacesIn(new, w) # {} <=> Has(new, w)
       /\ Has(new, w) => FirstIn(new, w) \in PlacesIn(new, w) /\ \A j \in PlacesIn(new, w) : FirstIn(new, w) =< j
       /\ ~Has(new, w) => FirstIn(new, w) = 0
       /\ PlacesIn(new, w) \in SUBSET (Nat \ {0})
  BY <1>4, FirstAnswers
<1>11. ASSUME FirstIn(old, w) \in 1..Len(own) PROVE FirstIn(new, w) = FirstIn(old, w)
  <2>1. Has(old, w) /\ FirstIn(old, w) \in PlacesIn(new, w) /\ Has(new, w)
    BY <1>5, <1>8, <1>9, <1>10, <1>11
  <2>2. FirstIn(new, w) =< FirstIn(old, w) /\ FirstIn(new, w) \in 1..Len(own)
    BY <1>5, <1>10, <1>11, <2>1
  <2>3. FirstIn(old, w) =< FirstIn(new, w)
    BY <1>8, <1>9, <1>10, <2>1, <2>2
  <2> QED BY <1>5, <1>11, <2>2, <2>3
<1>12. (Has(b, w) => Has(bb, w)) /\ (Has(c, w) => Has(cc, w)) /\ Has(old, w) => Has(new, w)
  BY <1>1, <1>2, <1>3, <1>4
<1>13. FirstIn(old, w) # 0 <=> Has(old, w)
  BY <1>9
<1>14. FirstIn(new, w) # 0 <=> Has(new, w)
  BY <1>10
<1> QED BY <1>11, <1>12, <1>13, <1>14 DEF old, new

\* The words of a list are still there when another dictionary is appended.
LEMMA HasAppend ==
  ASSUME NEW S, NEW s \in Seq(S), NEW e \in S, NEW w, Has(s, w)
  PROVE  Append(s, e) \in Seq(S) /\ Has(Append(s, e), w)
BY DEF Has

\* What a load is called with.
LoadArguments ==
  \A t \in Threads : /\ op[t] = "load_user_dict" => arg[t] \in Sources
                     /\ op[t] = "load_binary_dict" => arg[t] \in Binaries

LEMMA ArgumentsStep ==
  ASSUME Types, LoadArguments, [Next]_vars
  PROVE  LoadArguments'
<1> USE DEF Types, LoadArguments
<1>1. CASE UNCHANGED vars
  BY <1>1 DEF vars, thread
<1>2. CASE Next
  <2>1. PICK t \in Threads : Begins(t) \/ Locks(t) \/ FirstHalf(t) \/ SecondHalf(t) \/ InPython(t)
    BY <1>2, Actions
  <2>2. CASE Begins(t)
    BY <2>2 DEF Begins, Finalize, Call, Begin, Arguments
  <2>3. CASE Locks(t)
    BY <2>3 DEF Locks, Enter, Reenter, Leave, Return, thread
  <2>4. CASE FirstHalf(t)
    BY <2>4 DEF FirstHalf, Tokenize, SetMode, GetMode, LoadUserDict, LoadBinaryDict, Clear,
                CountWarnings, Create
  <2>5. CASE SecondHalf(t)
    BY <2>5 DEF SecondHalf, Postprocess, FinishSetMode, FinishLoadUserDict, ReadWarnings
  <2>6. CASE InPython(t)
    BY <2>6 DEF InPython, RequireHandle, ReadResult, FreeResult, RaiseNativeError, Destroy, Forget, Return
  <2> QED BY <2>1, <2>2, <2>3, <2>4, <2>5, <2>6
<1> QED BY <1>1, <1>2

\* The caller's dictionaries stay in the list, and the program's own as they
\* are, in every step but a clear.
LEMMA LayersStep ==
  ASSUME LayersTyped, LoadArguments, [Next]_vars
  PROVE  /\ LayersTyped'
         /\ UNCHANGED <<coreBinary, bundled>>
         /\ \/ \E t \in Threads : Clear(t)
            \/ \A w \in Words : (Has(binaries, w) => Has(binaries', w)) /\ (Has(sources, w) => Has(sources', w))
<1> DEFINE Goal == /\ LayersTyped'
                   /\ UNCHANGED <<coreBinary, bundled>>
                   /\ \/ \E t \in Threads : Clear(t)
                      \/ \A w \in Words : (Has(binaries, w) => Has(binaries', w)) /\ (Has(sources, w) => Has(sources', w))
<1> SUFFICES Goal
  OBVIOUS
<1>1. UNCHANGED layers => Goal
  BY DEF layers, LayersTyped
<1>2. UNCHANGED instance => Goal
  BY <1>1 DEF instance
<1>3. \A d \in Sources \cup Binaries : Content[d] \in SUBSET Words
  BY InstanceAssumption
<1> HIDE DEF Goal
<1>4. CASE UNCHANGED vars
  BY <1>2, <1>4 DEF vars
<1>5. CASE Next
  <2>1. PICK t \in Threads : Begins(t) \/ Locks(t) \/ FirstHalf(t) \/ SecondHalf(t) \/ InPython(t)
    BY <1>5, Actions
  <2>2. CASE Begins(t)
    BY <1>2, <2>2 DEF Begins, Finalize, Call, Begin
  <2>3. CASE Locks(t)
    BY <1>2, <2>3 DEF Locks, Enter, Reenter, Leave
  <2>4. CASE Tokenize(t) \/ GetMode(t) \/ CountWarnings(t) \/ Create(t)
    BY <1>2, <2>4 DEF Tokenize, GetMode, CountWarnings, Create
  <2>5. CASE SetMode(t)
    BY <1>1, <2>5 DEF SetMode, SetAnalyzerMode, SetAnalyzerModeStarved
  <2>6. CASE LoadUserDict(t)
    <3>1. CASE UNCHANGED instance
      BY <1>2, <3>1
    <3>2. CASE AddSource(arg[t])
      <4>1. Content[arg[t]] \in SUBSET Words
        BY <1>3, <2>6 DEF LoadUserDict, Native, LoadArguments
      <4>2. sources' = Append(sources, Content[arg[t]]) /\ sources \in Seq(SUBSET Words)
        BY <3>2 DEF AddSource, LayersTyped
      <4>3. sources' \in Seq(SUBSET Words)
        BY <4>1, <4>2
      <4>4. \A w \in Words : Has(sources, w) => Has(sources', w)
        BY <4>1, <4>2, HasAppend
      <4> QED BY <3>2, <4>3, <4>4 DEF AddSource, LayersTyped, Goal
    <3> QED BY <2>6, <3>1, <3>2 DEF LoadUserDict
  <2>7. CASE LoadBinaryDict(t)
    <3>1. CASE UNCHANGED instance
      BY <1>2, <3>1
    <3>2. CASE AddBinary(arg[t])
      <4>1. Content[arg[t]] \in SUBSET Words
        BY <1>3, <2>7 DEF LoadBinaryDict, Native, LoadArguments
      <4>2. binaries' = Append(binaries, Content[arg[t]]) /\ binaries \in Seq(SUBSET Words)
        BY <3>2 DEF AddBinary, LayersTyped
      <4>3. binaries' \in Seq(SUBSET Words)
        BY <4>1, <4>2
      <4>4. \A w \in Words : Has(binaries, w) => Has(binaries', w)
        BY <4>1, <4>2, HasAppend
      <4> QED BY <3>2, <4>3, <4>4 DEF AddBinary, LayersTyped, Goal
    <3> QED BY <2>7, <3>1, <3>2 DEF LoadBinaryDict
  <2>8. CASE Clear(t)
    BY <2>8 DEF Clear, ClearUserDictionaries, LayersTyped, Goal
  <2>9. CASE SecondHalf(t)
    BY <1>1, <1>2, <2>9 DEF SecondHalf, Postprocess, FinishSetMode, SetPostprocessor, FinishLoadUserDict,
                            RebuildAfterSource, ReadWarnings
  <2>10. CASE InPython(t)
    BY <1>2, <2>10 DEF InPython, RequireHandle, ReadResult, FreeResult, RaiseNativeError, Destroy, Forget
  <2> QED BY <2>1, <2>2, <2>3, <2>4, <2>5, <2>6, <2>7, <2>8, <2>9, <2>10 DEF FirstHalf
<1> QED BY <1>4, <1>5

\* A word once found is found until the caller clears; what the program's own
\* dictionaries answer they answer for ever.
THEOREM WordsKept == Spec => OnlyClearForgets
<1>1. Init => LayersTyped /\ LoadArguments
  <2> SUFFICES ASSUME Init PROVE LayersTyped /\ LoadArguments
    OBVIOUS
  <2>1. PICK b \in Builds : Construct(b.core, b.user)
    BY DEF Init
  <2>2. binaries = <<>> /\ sources = <<>> /\ coreBinary \in {CoreWords, {}}
    BY <2>1 DEF Construct
  <2>3. bundled = <<UserWords>> \/ bundled = <<>>
    BY <2>1 DEF Construct
  <2>4. LayersTyped
    <3>1. CoreWords \in SUBSET Words /\ UserWords \in SUBSET Words
      BY InstanceAssumption
    <3>2. <<>> \in Seq(SUBSET Words) /\ <<UserWords>> \in Seq(SUBSET Words)
      BY <3>1
    <3>3. coreBinary \subseteq Words
      BY <2>2, <3>1
    <3> QED BY <2>2, <2>3, <3>2, <3>3 DEF LayersTyped
  <2>5. LoadArguments
    BY DEF Init, LoadArguments
  <2> QED BY <2>4, <2>5
<1>2. BindingInv /\ LayersTyped /\ LoadArguments /\ [Next]_vars => (LayersTyped /\ LoadArguments)'
  BY LayersStep, ArgumentsStep DEF BindingInv
<1>3. LayersTyped /\ LoadArguments /\ LayersTyped' /\ [Next]_vars =>
        [\A w \in Words :
           /\ LookupExact(w) # 0 => LookupExact(w)' # 0 \/ \E t \in Threads : Clear(t)
           /\ LookupExact(w) \in 1..Shipped => LookupExact(w)' = LookupExact(w)]_<<layers>>
  <2> SUFFICES ASSUME LayersTyped, LoadArguments, LayersTyped', [Next]_vars, NEW w \in Words
               PROVE  /\ LookupExact(w) # 0 => LookupExact(w)' # 0 \/ \E t \in Threads : Clear(t)
                      /\ LookupExact(w) \in 1..Shipped => LookupExact(w)' = LookupExact(w)
    OBVIOUS
  <2> DEFINE own == <<BuiltIn, coreBinary>> \o bundled
  <2>1. own \in Seq(SUBSET Words) /\ Len(own) = Shipped
    BY InstanceAssumption DEF LayersTyped, Shipped
  <2>2. /\ UNCHANGED <<coreBinary, bundled>>
        /\ \/ \E t \in Threads : Clear(t)
           \/ (Has(binaries, w) => Has(binaries', w)) /\ (Has(sources, w) => Has(sources', w))
    BY LayersStep
  <2>3. LookupExact(w) = FirstIn(own \o binaries \o sources, w)
    BY DEF LookupExact, LookupInto, InOrder, FirstIn, PlacesIn
  <2>4. LookupExact(w)' = FirstIn(own \o binaries' \o sources', w)
    BY <2>2 DEF LookupExact, LookupInto, InOrder, FirstIn, PlacesIn
  <2>5. /\ binaries \in Seq(SUBSET Words) /\ sources \in Seq(SUBSET Words)
        /\ binaries' \in Seq(SUBSET Words) /\ sources' \in Seq(SUBSET Words)
    BY DEF LayersTyped
  <2> HIDE DEF own
  <2> QED BY <2>1, <2>2, <2>3, <2>4, <2>5, AnswersKept
<1> QED BY BindingInvariant, <1>1, <1>2, <1>3, PTL DEF Spec, OnlyClearForgets
=============================================================================
