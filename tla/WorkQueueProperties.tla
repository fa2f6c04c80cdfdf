------------------------- MODULE WorkQueueProperties -------------------------
(* What is claimed of WorkQueue: invariants, liveness, and the refinement  *)
(* of the abstract TaskQueue.                                              *)
EXTENDS WorkQueue, Functions

(* Each thread is at a statement of its own program. *)
PcOK ==
  /\ pc \in [Threads -> OwnerPcs \cup WorkerPcs]
  /\ pc[Owner] \in OwnerPcs
  /\ \A c \in Clients \ {Owner} : pc[c] \in ClientPcs
  /\ \A w \in Workers : pc[w] \in WorkerPcs

(* Every variable has the type its declaration in workqueue.c gives it. *)
TypeOK ==
  /\ PcOK
  /\ lock \in Threads \cup {NULL}
  /\ state \in {"ACTIVE", "CLOSED"}
  /\ core \in 0 .. NCORE
  /\ {first, last, pool} \subseteq Units \cup {NULL}
  /\ free = 0
  /\ next \in [Units -> Units \cup {NULL}]
  /\ args \in [Units -> Tasks \cup {NULL}]
  /\ heap \in SUBSET Units
  /\ mm \in [Threads -> Units \cup {NULL}]
  /\ arg \in [Threads -> Tasks \cup {NULL}]
  /\ unit \in [Workers -> Tasks \cup {NULL}]
  /\ accepted \in Seq(Tasks)
  /\ linked \in Seq(Units)
  /\ fetched \in Seq(Tasks)
  /\ dropped \in Nat
  /\ pooled \in Seq(Units)
  /\ result \in [Tasks -> {"unset", "called", "added", "nomem", "closed"}]
  /\ done \in SUBSET Tasks
  /\ mark \in [Clients -> Nat]
  /\ closedAt \in Nat

(* queue->lock excludes: a thread is between lock and unlock exactly when  *)
(* it is the holder.                                                       *)
MutualExclusion == \A t \in Threads : (pc[t] \in LockedPcs) <=> (lock = t)

(* The accepted tasks that have left the list: fetched, then dropped. *)
Gone == Len(fetched) + dropped
Queued == Gone + 1 .. Len(accepted)

(* The pointers first, last and next describe exactly the accepted tasks   *)
(* that were neither fetched nor dropped, in the order they were added;    *)
(* last dangles only once release has begun to drop units.                 *)
ListShape ==
  /\ Len(linked) = Len(accepted)
  /\ Gone <= Len(accepted)
  /\ first = IF Gone < Len(accepted) THEN linked[Gone + 1] ELSE NULL
  /\ dropped = 0 =>
       last = IF Gone < Len(accepted) THEN linked[Len(accepted)] ELSE NULL
  /\ \A i \in Queued :
       /\ args[linked[i]] = accepted[i]
       /\ next[linked[i]] = IF i < Len(accepted) THEN linked[i + 1] ELSE NULL

(* The pool is a stack linked by next. *)
PoolShape ==
  /\ pool = IF Len(pooled) = 0 THEN NULL ELSE pooled[Len(pooled)]
  /\ \A i \in 1 .. Len(pooled) :
       next[pooled[i]] = IF i > 1 THEN pooled[i - 1] ELSE NULL

(* Every allocated unit is in exactly one place (the list, the pool, or    *)
(* the hands of an additem between alloc and link) and only there once; no *)
(* unit that was given back to free() is reachable.                        *)
UnitOwnership ==
  /\ \A i, j \in Queued : linked[i] = linked[j] => i = j
  /\ \A i, j \in 1 .. Len(pooled) : pooled[i] = pooled[j] => i = j
  /\ \A i \in Queued, j \in 1 .. Len(pooled) : linked[i] # pooled[j]
  /\ \A t \in Threads : pc[t] = "add_link" =>
       /\ \A i \in Queued : linked[i] # mm[t]
       /\ \A j \in 1 .. Len(pooled) : pooled[j] # mm[t]
       /\ mm[t] \in heap
  /\ \A i \in Queued : linked[i] \in heap
  /\ \A j \in 1 .. Len(pooled) : pooled[j] \in heap
  /\ \A u \in heap : \/ \E i \in Queued : linked[i] = u
                     \/ \E j \in 1 .. Len(pooled) : pooled[j] = u
                     \/ \E t \in Threads : pc[t] = "add_link" /\ mm[t] = u

(* Tasks are taken from the queue in the order additem accepted them, none *)
(* twice, and additem's return value says which were accepted.             *)
FifoExactlyOnce ==
  /\ Len(fetched) <= Len(accepted)
  /\ \A i \in 1 .. Len(fetched) : fetched[i] = accepted[i]
  /\ \A i, j \in 1 .. Len(accepted) : accepted[i] = accepted[j] => i = j
  /\ \A x \in Tasks :
       /\ result[x] = "added" => x \in Range(accepted)
       /\ result[x] \in {"nomem", "closed"} => x \notin Range(accepted)

(* The worker has a fetched task whose function has not returned. *)
Busy(w) ==
  \/ pc[w] \in {"run"} \cup AddPcs
  \/ pc[w] = "fetch_unlock" /\ mm[w] # NULL

(* A fetched task is with exactly one worker until its function returns,   *)
(* and is not executed again.                                              *)
OneExecutor ==
  \A x \in Range(fetched) :
    \/ x \in done /\ \A w \in Workers : Busy(w) => unit[w] # x
    \/ /\ x \notin done
       /\ \E w \in Workers :
            /\ Busy(w) /\ unit[w] = x
            /\ \A v \in Workers : Busy(v) /\ unit[v] = x => v = w

(* No thread touches the queue before alloc set it up or after release, or *)
(* a failed alloc, freed it.                                               *)
NoUseAfterFree ==
  /\ \A w \in Workers : pc[w] \notin {"none", "exit"} => Live
  /\ \A c \in Clients : pc[c] \in AddPcs \cup WaitPcs => Live

(* When the queue was released, or could not be allocated, no unit is      *)
(* leaked, every task that was started has finished, and every other       *)
(* accepted task was discarded - also one whose additem raced with release.*)
CleanRelease ==
  pc[Owner] \in {"end", "failed"} =>
    /\ heap = {}
    /\ done = Range(fetched)
    /\ Gone = Len(accepted)

(* The workers between the state check of their loop and the unlink. *)
Early == {w \in Workers : pc[w] \in {"fetch_lock", "fetch_first", "fetch_unlink"}}

(* After release has set CLOSED a worker starts at most one further task,  *)
(* and only if its check of the state was passed before: the tasks started *)
(* since, and the workers that may still start one, are at most NCORE.     *)
LateStarts ==
  state = "CLOSED" => Len(fetched) + Cardinality(Early) <= closedAt + NCORE

(* wait returns only after every task accepted before the call was taken   *)
(* from the queue, whatever other threads add meanwhile.                   *)
WaitDrains == \A c \in Clients : pc[c] = "wait_done" => Gone >= mark[c]

(* The comment of workqueue_alloc: "Returns NULL if something fails". *)
AllocSurvivesFailure == pc[Owner] # "crashed"

-----------------------------------------------------------------------------
(* An accepted task is executed unless the queue is released first. *)
AcceptedRuns ==
  \A x \in Tasks : x \in Range(accepted) ~> (x \in done \/ state = "CLOSED")

(* workqueue_wait returns: a finite number of tasks is added. *)
WaitReturns == \A c \in Clients : pc[c] \in WaitPcs ~> pc[c] = "idle"

(* workqueue_release returns, however the workers are interleaved. *)
ReleaseReturns == pc[Owner] = "join" ~> pc[Owner] = "end"

-----------------------------------------------------------------------------
(* The strengthening that makes the invariants inductive. *)

(* The task a thread passes to additem has no other offerer and becomes    *)
(* accepted exactly at the link step.                                      *)
OfferInv ==
  /\ \A t \in Threads :
       /\ pc[t] \in AddPcs => arg[t] \in Tasks /\ result[arg[t]] = "called"
       /\ pc[t] \in AddPcs \ {"add_unlock"} => arg[t] \notin Range(accepted)
       /\ pc[t] = "add_unlock" => (mm[t] # NULL <=> arg[t] \in Range(accepted))
  /\ \A s, t \in Threads :
       pc[s] \in AddPcs /\ pc[t] \in AddPcs /\ arg[s] = arg[t] => s = t
  /\ \A x \in Tasks : result[x] = "unset" => x \notin Range(accepted)

(* A unit that is not linked yet points nowhere, and the unit a worker is  *)
(* about to unlink is still the first of the list.                         *)
HandInv ==
  \A t \in Threads :
    /\ pc[t] = "add_link" => mm[t] # NULL /\ next[mm[t]] = NULL
    /\ pc[t] = "fetch_unlink" => mm[t] = first /\ first # NULL

(* A busy worker executes a fetched task that has not returned. *)
BusyInv ==
  /\ \A w \in Workers : Busy(w) => unit[w] \in Range(fetched) \ done
  /\ done \subseteq Range(fetched)

Before == {"start", "create", "rollback", "failed", "crashed"}
After  == {"drain", "drain_pool", "free_queue", "end"}

(* Where the other threads can be in each phase of the owner's program. *)
PhaseInv ==
  /\ pc[Owner] \in {"start", "create"} \cup ClientPcs => state = "ACTIVE"
  /\ pc[Owner] = "start" => \A w \in Workers : pc[w] = "none"
  /\ pc[Owner] = "create" => \A w \in 0 .. core - 1 : pc[w] = "none"
  /\ pc[Owner] = "rollback" =>
       \A w \in 0 .. core - 1 : pc[w] \in {"none", "exit"}
  /\ pc[Owner] = "failed" => \A w \in Workers : pc[w] \in {"none", "exit"}
  /\ pc[Owner] = "join" => \A w \in core .. NCORE - 1 : pc[w] = "exit"
  /\ pc[Owner] \in After => \A w \in Workers : pc[w] = "exit"
  /\ \A c \in Clients \ {Owner} : pc[c] # "idle" => pc[Owner] \in ClientPcs
  /\ pc[Owner] \in Before =>
       /\ accepted = <<>> /\ heap = {}
       /\ \A w \in Workers : pc[w] # "fetch_unlink" /\ ~Busy(w)
  /\ pc[Owner] \notin After => dropped = 0
  /\ pc[Owner] \in After \ {"drain"} => first = NULL
  /\ pc[Owner] \in {"free_queue", "end"} => pool = NULL

(* The strengthening for WaitDrains: what wait waits for was accepted. *)
WaitInv == WaitDrains /\ \A c \in Clients : mark[c] <= Len(accepted)

IInv ==
  /\ TypeOK /\ MutualExclusion /\ ListShape /\ PoolShape /\ UnitOwnership
  /\ FifoExactlyOnce /\ OfferInv /\ HandInv /\ BusyInv /\ OneExecutor /\ PhaseInv

-----------------------------------------------------------------------------
Abstract == INSTANCE TaskQueue WITH
  phase <- IF pc[Owner] \in {"drain", "drain_pool", "free_queue", "end"}
           THEN "closed"
           ELSE IF pc[Owner] = "join" THEN "closing" ELSE "open",
  pending <- SubSeq(accepted, Gone + 1, Len(accepted)),
  executing <- Range(fetched) \ done,
  finished <- done,
  discarded <- {accepted[i] : i \in Len(fetched) + 1 .. Gone}

(* The threads, the mutex and the unit list implement the abstract queue:  *)
(* every interleaving looks like one of its histories.                     *)
ImplementsTaskQueue == Abstract!TQSpec
=============================================================================
