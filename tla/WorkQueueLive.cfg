\* Liveness and refinement: two workers, one client, two tasks.
SPECIFICATION FairSpec
CONSTANTS
  NCORE = 2
  Clients = {main}
  Owner = main
  Units = {u1, u2}
  Tasks = {t1, t2}
  WORKUNIT_POOL_SIZE = 1
  NULL = NULL
PROPERTIES
  AcceptedRuns
  WaitReturns
  ReleaseReturns
  ImplementsTaskQueue
