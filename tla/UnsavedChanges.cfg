CONSTANTS
  Endings <- MCEndings
  Texts <- MCTexts
  EditedTexts <- MCEditedTexts
  Typed <- MCTyped
  ImportTexts <- MCImportTexts
  Layer1 <- MCLayer1
  MaxEntries = 3
  MaxSurface = 3
SPECIFICATION Spec
INVARIANT NoUnsavedChangesMeansStored
CHECK_DEADLOCK FALSE
