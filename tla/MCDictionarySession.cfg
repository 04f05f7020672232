CONSTANTS
  Endings <- MCEndings
  Texts <- MCTexts
  EditedTexts <- MCEditedTexts
  Typed <- MCTyped
  ImportTexts <- MCImportTexts
  Layer1 <- MCLayer1
  MaxEntries = 3
  MaxSurface = 3
SPECIFICATION Spec
INVARIANTS
  OneReadingPerSurface
  EverySurfaceAnswers
  OwnSurfaceWins
  LibraryKeepsEveryForm
  SourceAsDocumented
  FlagsTellTheTruth
PROPERTIES
  NothingLostSilently
CHECK_DEADLOCK FALSE
