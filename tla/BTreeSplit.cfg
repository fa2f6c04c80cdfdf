SPECIFICATION Spec
CONSTANTS
  KeySize = 1
  BlockSize = 64
  SizeOf <- MCSizes
  Scenarios <- MCSplit
INVARIANTS
  EveryKeyFound
