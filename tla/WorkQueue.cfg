\* Two clients next to two workers.
SPECIFICATION Spec
CONSTANTS
  NCORE = 2
  Clients = {main, helper}
  Owner = main
  Units = {u1, u2}
  Tasks = {t1, t2}
  WORKUNIT_POOL_SIZE = 1
  NULL = NULL
SYMMETRY Symmetry
INVARIANTS
  ListShape
  UnitOwnership
  FifoExactlyOnce
  CleanRelease
  LateStarts
  OneExecutor
  NoUseAfterFree
  WaitDrains
