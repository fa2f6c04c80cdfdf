\* A write past the end of a shared block.
SPECIFICATION Spec
CONSTANTS
  Handles = {h1, h2, h3}
  Addrs = {a1, a2, a3}
  Bytes = {0, 1}
  ZERO = 0
  MaxSize = 2
  UINT = 8
  NULL = NULL
INVARIANT
  DetachInBounds
