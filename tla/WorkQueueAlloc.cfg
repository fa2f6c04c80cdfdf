\* A failed pthread_create, as the comment of workqueue_alloc states it.
SPECIFICATION Spec
CONSTANTS
  NCORE = 2
  Clients = {main}
  Owner = main
  Units = {u1, u2}
  Tasks = {t1, t2}
  WORKUNIT_POOL_SIZE = 1
  NULL = NULL
INVARIANT
  AllocSurvivesFailure
