------------------------------ MODULE WorkQueue ------------------------------
(***************************************************************************)
(* The work queue of workqueue/workqueue.c: a linked list of work units    *)
(* and a stack of spare units (the pool), shared under one mutex by the    *)
(* worker threads that workqueue_alloc creates and by the threads that     *)
(* call workqueue_additem and workqueue_wait.                              *)
(*                                                                         *)
(* One action is one step of one thread between two points where another   *)
(* thread can observe it: taking the mutex, the reads and writes under it, *)
(* giving it back, and the unlocked accesses to queue->state.  A task that *)
(* a worker runs may itself call workqueue_additem.                        *)
(*                                                                         *)
(* The client contract is the one the test program keeps: one thread, the  *)
(* Owner, allocates and releases the queue; the other clients use it only  *)
(* between the two.                                                        *)
(***************************************************************************)
EXTENDS Integers, Sequences, FiniteSets

CONSTANTS
  NCORE,               \* queue->ncore: number of worker threads
  Clients,             \* threads of the program that call the API
  Owner,               \* the client that allocates and releases the queue
  Units,               \* addresses malloc() can return for a workunit_t
  Tasks,               \* (func, args) pairs; each is offered at most once
  WORKUNIT_POOL_SIZE,  \* the limit __workunit_pool_free compares with
  NULL

Workers == 0 .. (NCORE - 1)
Threads == Workers \cup Clients

ASSUME WorkQueueAssumption ==
  /\ NCORE \in Nat \ {0}
  /\ WORKUNIT_POOL_SIZE \in Nat \ {0}
  /\ Owner \in Clients
  /\ Workers \cap Clients = {}
  /\ NULL \notin Units \cup Threads \cup Tasks

VARIABLES
  pc,        \* program counter of each thread
  lock,      \* queue->lock: the holder, or NULL
  state,     \* queue->state
  core,      \* threads still to create (alloc) or to join (rollback, release)
  first,     \* queue->units.first
  last,      \* queue->units.last
  pool,      \* queue->units.pool
  free,      \* queue->units.free
  next,      \* unit->next
  args,      \* unit->func and unit->args
  heap,      \* the work units that are allocated
  mm,        \* local mmunit of fetch, local unit of additem
  arg,       \* the task a thread passes to additem
  unit       \* the worker's stack copy of the unit it fetched

(* History variables: they record what happened and guide no step. *)
VARIABLES
  accepted,  \* tasks in the order they were linked
  linked,    \* the unit that carried each accepted task
  fetched,   \* tasks in the order they were copied out
  dropped,   \* number of accepted tasks release threw away
  pooled,    \* the units of the pool, bottom first
  result,    \* what additem returned for each task
  done,      \* tasks whose function has returned
  mark,      \* number of accepted tasks when a client called wait
  closedAt   \* number of fetched tasks when release closed the queue

ctl   == <<state, core>>
list  == <<first, last, pool, free, next, args, heap>>
local == <<mm, arg, unit>>
hist  == <<accepted, linked, fetched, dropped, pooled>>
book  == <<result, done, mark, closedAt>>
vars  == <<pc, lock, ctl, list, local, hist, book>>

AddPcs    == {"add_check", "add_lock", "add_alloc", "add_link", "add_unlock"}
WaitPcs   == {"wait_lock", "wait_read", "wait_again", "wait_done"}
ClientPcs == {"idle"} \cup AddPcs \cup WaitPcs
OwnerPcs  == ClientPcs \cup {"start", "create", "rollback", "join", "drain",
               "drain_pool", "free_queue", "end", "failed", "crashed"}
WorkerPcs == AddPcs \cup {"none", "loop", "fetch_lock", "fetch_first",
               "fetch_unlink", "fetch_unlock", "run", "exit"}

(* The program counters at which a thread holds queue->lock. *)
LockedPcs == {"add_alloc", "add_link", "add_unlock", "wait_read", "wait_again",
              "wait_done", "fetch_first", "fetch_unlink", "fetch_unlock"}

Goto(t, label)  == pc' = [pc EXCEPT ![t] = label]
Step(t, from, to) == pc[t] = from /\ Goto(t, to)

(* Mutant: a lock that does not exclude. *)
AcquireHeld(t) == lock' = t

(* pthread_mutex_lock *)
Acquire(t) == lock = NULL /\ lock' = t

(* The memory of the queue is allocated. *)
Live == pc[Owner] \notin {"start", "end", "failed"}

Init ==
  /\ pc = [t \in Threads |-> IF t = Owner THEN "start"
                             ELSE IF t \in Clients THEN "idle" ELSE "none"]
  /\ lock = NULL
  /\ state = "ACTIVE" /\ core = 0
  /\ first = NULL /\ last = NULL /\ pool = NULL /\ free = 0
  /\ next = [u \in Units |-> NULL]
  /\ args = [u \in Units |-> NULL]
  /\ heap = {}
  /\ mm   = [t \in Threads |-> NULL]
  /\ arg  = [t \in Threads |-> NULL]
  /\ unit = [w \in Workers |-> NULL]
  /\ accepted = <<>> /\ linked = <<>> /\ fetched = <<>> /\ dropped = 0
  /\ pooled = <<>>
  /\ result = [x \in Tasks |-> "unset"]
  /\ done = {}
  /\ mark = [c \in Clients |-> 0]
  /\ closedAt = 0

-----------------------------------------------------------------------------
(* workqueue_alloc *)

(* malloc() fails: NULL is returned and there is no queue. *)
AllocFails ==
  /\ Step(Owner, "start", "failed")
  /\ UNCHANGED <<lock, ctl, list, local, hist, book>>

(* The queue is allocated and its fields initialised. *)
AllocQueue ==
  /\ Step(Owner, "start", "create")
  /\ first' = NULL /\ last' = NULL /\ pool' = NULL /\ free' = 0
  /\ lock' = NULL
  /\ state' = "ACTIVE"
  /\ core' = NCORE
  /\ UNCHANGED <<next, args, heap, local, hist, book>>

(* while (ncore--) *)
ToCreate == core > 0

(* pthread_create(...): the new thread runs at once. *)
CreateWorker ==
  /\ pc[Owner] = "create" /\ ToCreate
  /\ core' = core - 1
  /\ Goto(core - 1, "loop")
  /\ UNCHANGED <<lock, state, list, local, hist, book>>

(* All the threads exist: the queue is returned to the caller. *)
AllocReturns ==
  /\ core = 0
  /\ Step(Owner, "create", "idle")
  /\ UNCHANGED <<lock, ctl, list, local, hist, book>>

(* pthread_create() fails: close the queue and join the threads from the   *)
(* index of the failure on.                                                *)
CreateFails ==
  /\ ToCreate
  /\ Step(Owner, "create", "rollback")
  /\ core' = core - 1
  /\ state' = "CLOSED"
  /\ UNCHANGED <<lock, list, local, hist, book>>

(* The first index joined is the one whose pthread_create failed: its      *)
(* pthread_t holds no thread, and pthread_join on it is undefined.  It may *)
(* report an error at once or stop the process.                            *)
RollbackJoinsNoThread ==
  /\ pc[Owner] = "rollback" /\ core < NCORE
  /\ pc[core] = "none"
  /\ \/ core' = core + 1 /\ UNCHANGED pc
     \/ Goto(Owner, "crashed") /\ UNCHANGED core
  /\ UNCHANGED <<lock, state, list, local, hist, book>>

RollbackJoins ==
  /\ pc[Owner] = "rollback" /\ core < NCORE
  /\ pc[core] = "exit"
  /\ core' = core + 1
  /\ UNCHANGED <<pc, lock, state, list, local, hist, book>>

RollbackFrees ==
  /\ core = NCORE
  /\ Step(Owner, "rollback", "failed")
  /\ UNCHANGED <<lock, ctl, list, local, hist, book>>

-----------------------------------------------------------------------------
(* workqueue_additem, called by a client or by a running task *)

(* The client contract: the queue is used between alloc and release only.  *)
MayCall(t) ==
  \/ t \in Workers /\ pc[t] = "run"
  \/ t \in Clients /\ pc[t] = "idle" /\ pc[Owner] \in ClientPcs

(* Where additem returns to. *)
Caller(t) == IF t \in Workers THEN "run" ELSE "idle"

Additem(t, x) ==
  /\ MayCall(t)
  /\ result[x] = "unset"
  /\ result' = [result EXCEPT ![x] = "called"]
  /\ arg' = [arg EXCEPT ![t] = x]
  /\ Goto(t, "add_check")
  /\ UNCHANGED <<lock, ctl, list, mm, unit, hist, done, mark, closedAt>>

(* queue->state is read without the lock. *)
AddCheck(t) ==
  /\ \/ /\ state = "ACTIVE"
        /\ Step(t, "add_check", "add_lock")
        /\ UNCHANGED result
     \/ /\ state # "ACTIVE"
        /\ Step(t, "add_check", Caller(t))
        /\ result' = [result EXCEPT ![arg[t]] = "closed"]
  /\ UNCHANGED <<lock, ctl, list, local, hist, done, mark, closedAt>>

AddLock(t) ==
  /\ Step(t, "add_lock", "add_alloc")
  /\ Acquire(t)
  /\ UNCHANGED <<ctl, list, local, hist, book>>

(* __workunit_pool_alloc: the top of the pool, or malloc(), which may fail *)
PoolTake(t) ==
  /\ pool # NULL
  /\ mm' = [mm EXCEPT ![t] = pool]
  /\ pool' = next[pool]
  /\ next' = [next EXCEPT ![pool] = NULL]
  /\ pooled' = SubSeq(pooled, 1, Len(pooled) - 1)
  /\ UNCHANGED heap

Malloc(t, u) ==
  /\ pool = NULL
  /\ u \notin heap
  /\ mm' = [mm EXCEPT ![t] = u]
  /\ next' = [next EXCEPT ![u] = NULL]
  /\ heap' = heap \cup {u}
  /\ UNCHANGED <<pool, pooled>>

MallocFails(t) ==
  /\ pool = NULL
  /\ mm' = [mm EXCEPT ![t] = NULL]
  /\ UNCHANGED <<pool, next, heap, pooled>>

PoolAlloc(t) ==
  PoolTake(t) \/ (\E u \in Units : Malloc(t, u)) \/ MallocFails(t)

AddAlloc(t) ==
  /\ PoolAlloc(t)
  /\ Step(t, "add_alloc", IF mm'[t] # NULL THEN "add_link" ELSE "add_unlock")
  /\ UNCHANGED <<lock, ctl, first, last, free, args, arg, unit, accepted,
                 linked, fetched, dropped, book>>

(* Mutant: last is moved only when the list was empty. *)
LinkKeepsLast(u) ==
  IF first = NULL
  THEN first' = u /\ last' = u /\ UNCHANGED next
  ELSE next' = [next EXCEPT ![last] = u] /\ UNCHANGED <<first, last>>

(* The link at the end of the list. *)
Link(u) ==
  /\ IF first = NULL
     THEN first' = u /\ UNCHANGED next
     ELSE next' = [next EXCEPT ![last] = u] /\ UNCHANGED first
  /\ last' = u

AddLink(t) ==
  /\ Step(t, "add_link", "add_unlock")
  /\ args' = [args EXCEPT ![mm[t]] = arg[t]]
  /\ Link(mm[t])
  /\ linked' = Append(linked, mm[t])
  /\ accepted' = Append(accepted, arg[t])
  /\ UNCHANGED <<lock, ctl, pool, free, heap, local, fetched, dropped, pooled,
                 book>>

(* return(unit == NULL) *)
AddUnlock(t) ==
  /\ Step(t, "add_unlock", Caller(t))
  /\ lock' = NULL
  /\ result' = [result EXCEPT ![arg[t]] =
                  IF mm[t] # NULL THEN "added" ELSE "nomem"]
  /\ UNCHANGED <<ctl, list, local, hist, done, mark, closedAt>>

-----------------------------------------------------------------------------
(* __workqueue_loop and __workqueue_fetch *)

(* Mutant: the state is not looked at. *)
KeepLoopingMutant == TRUE

(* while (queue->state != CLOSED), read without the lock *)
KeepLooping == state # "CLOSED"

Loop(w) ==
  /\ Step(w, "loop", IF KeepLooping THEN "fetch_lock" ELSE "exit")
  /\ UNCHANGED <<lock, ctl, list, local, hist, book>>

FetchLock(w) ==
  /\ Step(w, "fetch_lock", "fetch_first")
  /\ Acquire(w)
  /\ UNCHANGED <<ctl, list, local, hist, book>>

FetchFirst(w) ==
  /\ mm' = [mm EXCEPT ![w] = first]
  /\ Step(w, "fetch_first",
          IF first # NULL THEN "fetch_unlink" ELSE "fetch_unlock")
  /\ UNCHANGED <<lock, ctl, list, arg, unit, hist, book>>

(* Mutant: the unit is freed and still put into the pool. *)
PoolFreeTwice(u) ==
  /\ next' = [next EXCEPT ![u] = pool]
  /\ pool' = u
  /\ pooled' = Append(pooled, u)
  /\ heap' = heap \ {u}
  /\ UNCHANGED free

(* __workunit_pool_free: units.free is compared and never counted *)
PoolFree(u) ==
  IF free = WORKUNIT_POOL_SIZE
  THEN heap' = heap \ {u} /\ UNCHANGED <<pool, next, free, pooled>>
  ELSE /\ next' = [next EXCEPT ![u] = pool]
       /\ pool' = u
       /\ pooled' = Append(pooled, u)
       /\ UNCHANGED <<heap, free>>

(* Mutant: the task of the newest unit is copied. *)
CopyNewest(u) == args[last]

(* unit->func = mmunit->func; unit->args = mmunit->args *)
Copy(u) == args[u]

FetchUnlink(w) ==
  /\ Step(w, "fetch_unlink", "fetch_unlock")
  /\ first' = next[mm[w]]
  /\ last' = IF last = mm[w] THEN NULL ELSE last
  /\ unit' = [unit EXCEPT ![w] = Copy(mm[w])]
  /\ fetched' = Append(fetched, Copy(mm[w]))
  /\ PoolFree(mm[w])
  /\ UNCHANGED <<lock, ctl, args, mm, arg, accepted, linked, dropped, book>>

(* Mutant: a worker that finds no unit returns. *)
AfterFetchEnds(w) == IF mm[w] # NULL THEN "run" ELSE "exit"

(* The unit's function starts when a unit was fetched; else usleep(15).    *)
AfterFetch(w) == IF mm[w] # NULL THEN "run" ELSE "loop"

FetchUnlock(w) ==
  /\ Step(w, "fetch_unlock", AfterFetch(w))
  /\ lock' = NULL
  /\ UNCHANGED <<ctl, list, local, hist, book>>

(* unit.func(unit.args) returns. *)
TaskReturns(w) ==
  /\ Step(w, "run", "loop")
  /\ done' = done \cup {unit[w]}
  /\ UNCHANGED <<lock, ctl, list, local, hist, result, mark, closedAt>>

-----------------------------------------------------------------------------
(* workqueue_wait *)

Wait(c) ==
  /\ MayCall(c)
  /\ Goto(c, "wait_lock")
  /\ mark' = [mark EXCEPT ![c] = Len(accepted)]
  /\ UNCHANGED <<lock, ctl, list, local, hist, result, done, closedAt>>

WaitLock(c) ==
  /\ Step(c, "wait_lock", "wait_read")
  /\ Acquire(c)
  /\ UNCHANGED <<ctl, list, local, hist, book>>

(* Mutant: the test is inverted. *)
WaitTestInverted == first = NULL

(* wait = (queue->units.first != NULL) *)
WaitTest == first # NULL

WaitRead(c) ==
  /\ Step(c, "wait_read", IF WaitTest THEN "wait_again" ELSE "wait_done")
  /\ UNCHANGED <<lock, ctl, list, local, hist, book>>

WaitUnlock(c) ==
  /\ Step(c, "wait_again", "wait_lock") \/ Step(c, "wait_done", "idle")
  /\ lock' = NULL
  /\ UNCHANGED <<ctl, list, local, hist, book>>

-----------------------------------------------------------------------------
(* workqueue_release *)

(* queue->state is written without the lock. *)
ReleaseCloses ==
  /\ \A c \in Clients : pc[c] = "idle"
  /\ Goto(Owner, "join")
  /\ state' = "CLOSED"
  /\ core' = NCORE
  /\ closedAt' = Len(fetched)
  /\ UNCHANGED <<lock, list, local, hist, result, done, mark>>

(* Mutant: release does not wait for the thread. *)
JoinableMutant(w) == TRUE

(* pthread_join returns when the thread has returned. *)
Joinable(w) == pc[w] = "exit"

(* while (queue->ncore--) pthread_join(...) *)
ReleaseJoins ==
  /\ pc[Owner] = "join" /\ core > 0
  /\ Joinable(core - 1)
  /\ core' = core - 1
  /\ UNCHANGED <<pc, lock, state, list, local, hist, book>>

(* The decrement that ends the loop wraps queue->ncore; nothing reads it.  *)
ReleaseJoined ==
  /\ core = 0
  /\ Step(Owner, "join", "drain")
  /\ UNCHANGED <<lock, ctl, list, local, hist, book>>

(* Units nobody fetched are freed. *)
Drain ==
  /\ pc[Owner] = "drain"
  /\ \/ /\ first # NULL
        /\ first' = next[first]
        /\ heap' = heap \ {first}
        /\ dropped' = dropped + 1
        /\ UNCHANGED pc
     \/ /\ first = NULL
        /\ Goto(Owner, "drain_pool")
        /\ UNCHANGED <<first, heap, dropped>>
  /\ UNCHANGED <<lock, ctl, last, pool, free, next, args, local, accepted,
                 linked, fetched, pooled, book>>

(* Mutant: only the first unit of the pool is freed. *)
PoolRestMutant == NULL

(* unitq->pool = unit->next *)
PoolRest == next[pool]

DrainPool ==
  /\ pc[Owner] = "drain_pool"
  /\ \/ /\ pool # NULL
        /\ pool' = PoolRest
        /\ heap' = heap \ {pool}
        /\ pooled' = SubSeq(pooled, 1, Len(pooled) - 1)
        /\ UNCHANGED pc
     \/ /\ pool = NULL
        /\ Goto(Owner, "free_queue")
        /\ UNCHANGED <<pool, heap, pooled>>
  /\ UNCHANGED <<lock, ctl, first, last, free, next, args, local, accepted,
                 linked, fetched, dropped, book>>

FreeQueue ==
  /\ Step(Owner, "free_queue", "end")
  /\ UNCHANGED <<lock, ctl, list, local, hist, book>>

-----------------------------------------------------------------------------
AllocNext ==
  \/ AllocFails \/ AllocQueue \/ CreateWorker \/ AllocReturns
  \/ CreateFails \/ RollbackJoinsNoThread \/ RollbackJoins \/ RollbackFrees

AddSteps(t) == AddCheck(t) \/ AddAlloc(t) \/ AddLink(t) \/ AddUnlock(t)

FetchSteps(w) ==
  Loop(w) \/ FetchFirst(w) \/ FetchUnlink(w) \/ FetchUnlock(w) \/ TaskReturns(w)

ReleaseSteps ==
  ReleaseJoins \/ ReleaseJoined \/ Drain \/ DrainPool \/ FreeQueue

(* The program has ended, or undefined behaviour has stopped it. *)
Halted == pc[Owner] \in {"end", "failed", "crashed"} /\ UNCHANGED vars

Next ==
  \/ /\ pc[Owner] # "crashed"
     /\ \/ AllocNext \/ ReleaseCloses \/ ReleaseSteps
        \/ \E t \in Threads : \/ \E x \in Tasks : Additem(t, x)
                              \/ AddLock(t) \/ AddSteps(t)
        \/ \E w \in Workers : FetchLock(w) \/ FetchSteps(w)
        \/ \E c \in Clients : Wait(c) \/ WaitLock(c) \/ WaitRead(c)
                              \/ WaitUnlock(c)
  \/ Halted

Spec == Init /\ [][Next]_vars

(***************************************************************************)
(* Fairness.  A thread that can take a step inside a call takes it; tasks  *)
(* return; nobody is obliged to call additem, wait or release.  The mutex  *)
(* is strongly fair: every loop that takes it again (the workers' and      *)
(* workqueue_wait's) sleeps with the mutex free before it does, so a       *)
(* blocked thread is not overtaken for ever.                               *)
(***************************************************************************)
Running(A) == pc[Owner] # "crashed" /\ A

Fairness ==
  /\ WF_vars(Running(AllocNext \/ ReleaseSteps))
  /\ \A t \in Threads :
       SF_vars(Running(AddLock(t))) /\ WF_vars(Running(AddSteps(t)))
  /\ \A w \in Workers :
       SF_vars(Running(FetchLock(w))) /\ WF_vars(Running(FetchSteps(w)))
  /\ \A c \in Clients :
       /\ SF_vars(Running(WaitLock(c)))
       /\ WF_vars(Running(WaitRead(c) \/ WaitUnlock(c)))

FairSpec == Spec /\ Fairness
=============================================================================
