SPECIFICATION Spec
CONSTANTS
  KeySize = 1
  BlockSize = 64
  SizeOf <- MCSizes
  Scenarios <- MCScenarios
INVARIANTS
  TreeWellFormed
  Durable
  Dictionary
  CacheCoherent
  WriteOnceHarmless
