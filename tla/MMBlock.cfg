\* Three handles on blocks of up to two bytes; uint32_t scaled to 2^3.
SPECIFICATION Spec
CONSTANTS
  Handles = {h1, h2, h3}
  Addrs = {a1, a2, a3}
  Bytes = {0, 1}
  ZERO = 0
  MaxSize = 2
  UINT = 8
  NULL = NULL
SYMMETRY Symmetry
INVARIANTS
  RefCounts
PROPERTIES
  ImplementsPrivateBlocks
