CONSTANTS
  Words <- MCWords
  BuiltIn <- MCBuiltIn
  CoreWords <- MCCoreWords
  UserWords <- MCUserWords
  Sources <- MCSources
  Binaries <- MCBinaries
  Content <- MCContent
  Warned <- MCWarned
  Builds <- MCBuilds
  Threads = {t1, t2}
  Nobody = nobody
  MaxCalls = 3
SPECIFICATION Spec
INVARIANTS
  HandleOutlivesCalls
  CallsSeeOneInstance
  ErrorIsOwn
  PartsAgreeOnMode
PROPERTIES
  OnlyClearForgets
  CallsReturn
  DroppedGivesAllBack
CHECK_DEADLOCK FALSE
