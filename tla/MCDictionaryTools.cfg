SPECIFICATION Spec
CONSTANTS
  CoreFiles <- MCCoreFiles
  UserFiles <- MCUserFiles
  Absent = Absent
  Words <- MCWords
  Kinds <- MCKinds
  Canonical <- MCCanonical
  CoreFile <- MCCoreFile
  ProperNoun = "PROPER_NOUN"
  Unconjugated = {"PROPER_NOUN"}
  Incomplete <- MCIncomplete
  NoticedInBulk <- MCNoticed
  Split = {"s"}
  Conjugated = {"s"}
  Rank <- MCRank
  Tasks = {t1, t2}
  Nobody = Nobody
  Requests <- MCRequests
  Worlds <- MCWorlds
  MaxCalls = 2
SYMMETRY TaskSymmetry
INVARIANTS
  UndisturbedFilesAtomic
  EditsKept
PROPERTY
  DuplicatesOnlyRestored
CHECK_DEADLOCK FALSE
