CONSTANTS
  Requests <- MCRequests
  Calls = {c1, c2, c3}
  Keys = {"path", "precompiled"}
  Precompiled = "precompiled"
  None = none
SPECIFICATION Spec
INVARIANTS
  OneSharedRuntime
  OwnedExactlyOnce
PROPERTIES
  FailureNotServedAgain
  CallsAnswered
CHECK_DEADLOCK FALSE
