\* Six keys; arrays of 2, 4 and 8 chains stand for 8, 16, ... of the code.
SPECIFICATION MCSpec
CONSTANTS
  Keys <- MCKeys
  Hash <- MCHash
  Values = {1, 2}
  MaxCount = 2
  Sizes = {2, 4, 8}
  POOL_SIZE = 2
  DOUBLE_FROM = 4
  CLEAR_FROM = 4
INVARIANTS
  BucketInv
  ValuesOwned
PROPERTIES
  ImplementsContainer
