\* Nodes of three slots, capacities below, at and above a node.
SPECIFICATION Spec
CONSTANTS
  Elements = {1, 2}
  Circulars = {0, 1, 2, 5}
  NITEMS = 3
  POOL_SIZE = 1
  MaxItems = 7
INVARIANT NodesKept
PROPERTIES
  UndefinedNeedsPop
  ImplementsBoundedFifo
