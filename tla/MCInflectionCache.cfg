CONSTANTS
  verb = verb
  verbNoda = verbNoda
  verbNodamono = verbNodamono
  noun = noun
  name = name
  Surfaces <- MCSurfaces
  MaxCacheEntries = 2
  Remainders <- MCRemainders
  Size <- MCSize
  MaxHeld = 2
SPECIFICATION CacheSpec
INVARIANTS
  PendingNotCached
  NodesSurviveOneRollover
