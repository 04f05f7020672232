\* One chunk of three codepoints; A is ExtendedPOS::Unknown as well.
CONSTANTS
  A = A
  B = B
  s = s
  t = t
  u = u
  TextLength = 3
  MaxEdges = 20
  ExtendedPOS = {A, B}
  UnknownPOS = A
  Sig = {s, t, u}
  K = 2
  TransitionCost = 1
  Scorers <- MCScorers
  Lattices <- MCLattices
SPECIFICATION OptSpec
INVARIANTS
  SlotsOrderedAndDistinct
  BackpointersExact
  ResultIsAPath
  OptimalWithinBeam
CHECK_DEADLOCK FALSE
