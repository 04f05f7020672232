CONSTANTS
  BitXor <- MCXor
  InitialSize = 4
  BlockSize = 4
  PayloadMask = 12
  Tables <- MCTables
  Queries <- MCQueries
SPECIFICATION Spec
INVARIANTS
  PrefixSearchExact
PROPERTIES
  AnswersLikeIndex
