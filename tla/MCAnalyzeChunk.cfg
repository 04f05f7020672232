CONSTANTS
  A = A
  B = B
  word = word
  shape = shape
  other = other
  TextLength = 3
  MaxEdges = 5
  ExtendedPOS = {A, B}
  UnknownPOS = A
  Sig = {word, shape, other}
  K = 2
  TransitionCost = 1
  Scorers <- MCScorers
  Candidates <- MCCandidates
  JoinCandidates <- MCJoinCandidates
  MaxCandidates = 2
  DictSig = {word}
  ShapeSig = {shape}
  CategoryCost <- MCCategoryCost
  FallbackPOS = B
  FallbackSig = other
  FallbackCost = 5
  Modes = {"normal", "split"}
SPECIFICATION Spec
INVARIANTS
  EveryPositionHasEdge
  NoShapeBonusInsideUserSpan
  ChunkFullyAnalyzed
PROPERTIES
  ClampOnlyDropsShapeBonus
CHECK_DEADLOCK FALSE
