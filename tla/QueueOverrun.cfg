\* A plain queue: the push behind the last slot.
SPECIFICATION Spec
CONSTANTS
  Elements = {1, 2}
  Circulars = {0}
  NITEMS = 3
  POOL_SIZE = 1
  MaxItems = 7
INVARIANT FullTailGetsNode
