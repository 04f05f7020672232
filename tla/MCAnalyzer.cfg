CONSTANTS
  MaxChunkBytes = 4
  MaxChars = 4
  Texts <- MCTexts
SPECIFICATION Spec
INVARIANTS
  NothingLost
  OffsetsExact
  CutsBetweenCharacters
PROPERTIES
  PartsWithinLimit
CHECK_DEADLOCK FALSE
