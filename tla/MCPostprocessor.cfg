CONSTANTS
  Inputs <- MCInputs
  Options <- MCOptions
  TagOptions <- MCTagOptions
  Roles <- MCRoles
  MaxRetags = 1
SPECIFICATION PostSpec
INVARIANTS
  TextKept
  LatticeLemmaKept
  TagsAreTheFirst
CHECK_DEADLOCK FALSE
