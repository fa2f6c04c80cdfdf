--------------------------- MODULE WorkQueueProofs ---------------------------
(* Machine-checked proofs of the safety invariants of WorkQueue for any    *)
(* number of workers, clients, units and tasks.                            *)
EXTENDS WorkQueueProperties, SequenceTheorems, FiniteSetTheorems, TLAPS

(* Appending a task or a unit to a history keeps what was there. *)
LEMMA AppendFacts ==
  ASSUME NEW S, NEW s \in Seq(S), NEW e \in S
  PROVE  /\ Append(s, e) \in Seq(S)
         /\ Len(Append(s, e)) = Len(s) + 1
         /\ \A i \in 1 .. Len(s) : Append(s, e)[i] = s[i]
         /\ Append(s, e)[Len(s) + 1] = e
         /\ Range(Append(s, e)) = Range(s) \cup {e}
<1>1. /\ Append(s, e) \in Seq(S)
      /\ Len(Append(s, e)) = Len(s) + 1
      /\ \A i \in 1 .. Len(s) : Append(s, e)[i] = s[i]
      /\ Append(s, e)[Len(s) + 1] = e
  OBVIOUS
<1>2. DOMAIN Append(s, e) = 1 .. Len(s) + 1 /\ DOMAIN s = 1 .. Len(s)
  OBVIOUS
<1>3. Len(s) \in Nat
  OBVIOUS
<1>4. Range(Append(s, e)) = Range(s) \cup {e}
  BY <1>1, <1>2, <1>3 DEF Range
<1> QED
  BY <1>1, <1>4

(* Popping the pool keeps the units below the top. *)
LEMMA FrontFacts ==
  ASSUME NEW S, NEW s \in Seq(S), Len(s) > 0
  PROVE  /\ SubSeq(s, 1, Len(s) - 1) \in Seq(S)
         /\ Len(SubSeq(s, 1, Len(s) - 1)) = Len(s) - 1
         /\ \A i \in 1 .. Len(s) - 1 : SubSeq(s, 1, Len(s) - 1)[i] = s[i]
<1> DEFINE n == Len(s) - 1
<1>1. n \in Nat /\ \A i \in 1 .. n : s[i] \in S
  OBVIOUS
<1> HIDE DEF n
<1>2. /\ SubSeq(s, 1, n) \in Seq(S)
      /\ Len(SubSeq(s, 1, n)) = IF 1 <= n THEN n - 1 + 1 ELSE 0
      /\ \A i \in 1 .. n - 1 + 1 : SubSeq(s, 1, n)[i] = s[1 + i - 1]
  BY <1>1, SubSeqProperties
<1>3. Len(SubSeq(s, 1, n)) = n /\ \A i \in 1 .. n : SubSeq(s, 1, n)[i] = s[i]
  BY <1>1, <1>2
<1> QED
  BY <1>2, <1>3 DEF n

(* Membership in a history, by position. *)
LEMMA RangeFacts ==
  ASSUME NEW S, NEW s \in Seq(S)
  PROVE  /\ \A x : x \in Range(s) <=> \E i \in 1 .. Len(s) : s[i] = x
         /\ Range(s) \subseteq S
         /\ Len(s) \in Nat
  BY DEF Range

(* The worker and client thread ids are disjoint. *)
LEMMA ThreadFacts ==
  /\ Owner \in Threads /\ Owner \notin Workers
  /\ Workers \subseteq Threads /\ Clients \subseteq Threads
  /\ \A w \in Workers : w \in Int /\ 0 <= w /\ w < NCORE
  /\ \A t \in Threads : t # NULL
  /\ NULL \notin Units /\ NULL \notin Tasks
  /\ NCORE \in Nat
  BY WorkQueueAssumption DEF Threads, Workers

(* A step of a thread to a statement of its own program keeps PcOK. *)
LEMMA GotoPcs ==
  ASSUME PcOK, NEW t \in Threads, NEW l, Goto(t, l),
         \/ t \in Workers /\ l \in WorkerPcs
         \/ t = Owner /\ l \in OwnerPcs
         \/ t \in Clients /\ l \in ClientPcs
  PROVE  PcOK' /\ pc'[t] = l /\ \A s \in Threads \ {t} : pc'[s] = pc[s]
<1>1. pc' = [pc EXCEPT ![t] = l] /\ pc \in [Threads -> OwnerPcs \cup WorkerPcs]
  BY DEF Goto, PcOK
<1>2. ClientPcs \subseteq OwnerPcs
  BY DEF OwnerPcs
<1>3. l \in OwnerPcs \cup WorkerPcs
  BY <1>2
<1>4. pc' \in [Threads -> OwnerPcs \cup WorkerPcs]
  BY <1>1, <1>3
<1>5. pc'[t] = l /\ \A s \in Threads \ {t} : pc'[s] = pc[s]
  BY <1>1
<1>6. Workers \cap Clients = {} /\ Owner \in Clients
  BY WorkQueueAssumption
<1>7. pc'[Owner] \in OwnerPcs
  BY <1>5, <1>2, <1>6, ThreadFacts DEF PcOK
<1>8. \A c \in Clients \ {Owner} : pc'[c] \in ClientPcs
  BY <1>5, <1>6, ThreadFacts DEF PcOK
<1>9. \A w \in Workers : pc'[w] \in WorkerPcs
  BY <1>5, <1>6, ThreadFacts DEF PcOK
<1> QED
  BY <1>4, <1>5, <1>7, <1>8, <1>9 DEF PcOK

(* Every step leaves every thread at a statement of its own program. *)
LEMMA PcStep == TypeOK /\ [Next]_vars => PcOK'
<1> SUFFICES ASSUME TypeOK, [Next]_vars PROVE PcOK'
  OBVIOUS
<1>a. PcOK /\ core \in 0 .. NCORE
  BY DEF TypeOK
<1>b. Owner \in Clients /\ Workers \cap Clients = {}
  BY WorkQueueAssumption
<1> USE <1>a, <1>b, GotoPcs DEF Step, Threads,
     OwnerPcs, WorkerPcs, ClientPcs, AddPcs, WaitPcs, Caller
<1>1. ASSUME AllocFails PROVE PcOK'
  BY <1>1 DEF AllocFails
<1>2. ASSUME AllocQueue PROVE PcOK'
  BY <1>2 DEF AllocQueue
<1>3. ASSUME CreateWorker PROVE PcOK'
  <2>1. core - 1 \in Workers
    BY <1>3, ThreadFacts DEF CreateWorker, ToCreate, Workers
  <2>2. core - 1 \in Threads /\ "loop" \in WorkerPcs /\ Goto(core - 1, "loop")
    BY <1>3, <2>1 DEF CreateWorker
  <2> QED
    BY <2>1, <2>2
<1>4. ASSUME AllocReturns PROVE PcOK'
  BY <1>4 DEF AllocReturns
<1>5. ASSUME CreateFails PROVE PcOK'
  BY <1>5 DEF CreateFails
<1>6. ASSUME RollbackJoinsNoThread PROVE PcOK'
  BY <1>6 DEF RollbackJoinsNoThread, PcOK
<1>7. ASSUME RollbackJoins PROVE PcOK'
  BY <1>7 DEF RollbackJoins, PcOK
<1>8. ASSUME RollbackFrees PROVE PcOK'
  BY <1>8 DEF RollbackFrees
<1>9. ASSUME ReleaseCloses PROVE PcOK'
  BY <1>9 DEF ReleaseCloses
<1>10. ASSUME ReleaseJoins PROVE PcOK'
  BY <1>10 DEF ReleaseJoins, PcOK
<1>11. ASSUME ReleaseJoined PROVE PcOK'
  BY <1>11 DEF ReleaseJoined
<1>12. ASSUME Drain PROVE PcOK'
  BY <1>12 DEF Drain, PcOK
<1>13. ASSUME DrainPool PROVE PcOK'
  BY <1>13 DEF DrainPool, PcOK
<1>14. ASSUME FreeQueue PROVE PcOK'
  BY <1>14 DEF FreeQueue
<1>15. ASSUME NEW t \in Threads, NEW x \in Tasks, Additem(t, x)
      PROVE  PcOK'
  BY <1>15 DEF Additem
<1>16. ASSUME NEW t \in Threads, AddLock(t) PROVE PcOK'
  BY <1>16 DEF AddLock
<1>17. ASSUME NEW t \in Threads, AddCheck(t) PROVE PcOK'
  BY <1>17 DEF AddCheck
<1>18. ASSUME NEW t \in Threads, AddAlloc(t) PROVE PcOK'
  BY <1>18 DEF AddAlloc
<1>19. ASSUME NEW t \in Threads, AddLink(t) PROVE PcOK'
  BY <1>19 DEF AddLink
<1>20. ASSUME NEW t \in Threads, AddUnlock(t) PROVE PcOK'
  BY <1>20 DEF AddUnlock
<1>21. ASSUME NEW w \in Workers, FetchLock(w) PROVE PcOK'
  BY <1>21 DEF FetchLock
<1>22. ASSUME NEW w \in Workers, Loop(w) PROVE PcOK'
  BY <1>22 DEF Loop, KeepLooping
<1>23. ASSUME NEW w \in Workers, FetchFirst(w) PROVE PcOK'
  BY <1>23 DEF FetchFirst
<1>24. ASSUME NEW w \in Workers, FetchUnlink(w) PROVE PcOK'
  BY <1>24 DEF FetchUnlink
<1>25. ASSUME NEW w \in Workers, FetchUnlock(w) PROVE PcOK'
  BY <1>25 DEF FetchUnlock, AfterFetch
<1>26. ASSUME NEW w \in Workers, TaskReturns(w) PROVE PcOK'
  BY <1>26 DEF TaskReturns
<1>27. ASSUME NEW c \in Clients, Wait(c) PROVE PcOK'
  BY <1>27 DEF Wait
<1>28. ASSUME NEW c \in Clients, WaitLock(c) PROVE PcOK'
  BY <1>28 DEF WaitLock
<1>29. ASSUME NEW c \in Clients, WaitRead(c) PROVE PcOK'
  BY <1>29 DEF WaitRead, WaitTest
<1>30. ASSUME NEW c \in Clients, WaitUnlock(c) PROVE PcOK'
  BY <1>30 DEF WaitUnlock
<1>31. CASE UNCHANGED vars
  BY <1>31 DEF vars, PcOK
<1> QED
  BY <1>1, <1>2, <1>3, <1>4, <1>5, <1>6, <1>7, <1>8, <1>9, <1>10, <1>11,
     <1>12, <1>13, <1>14, <1>15, <1>16, <1>17, <1>18, <1>19, <1>20, <1>21,
     <1>22, <1>23, <1>24, <1>25, <1>26, <1>27, <1>28, <1>29, <1>30, <1>31
     DEF Next, AllocNext, ReleaseSteps, AddSteps, FetchSteps, Halted

(* A worker about to unlink finds an accepted task in its unit. *)
LEMMA FirstUnit ==
  ASSUME TypeOK, ListShape, HandInv, NEW w \in Workers, pc[w] = "fetch_unlink"
  PROVE  /\ Gone < Len(accepted) /\ Gone + 1 \in Queued
         /\ mm[w] = linked[Gone + 1] /\ mm[w] = first /\ mm[w] \in Units
         /\ args[mm[w]] = accepted[Gone + 1] /\ args[mm[w]] \in Tasks
<1>1. mm[w] = first /\ first # NULL
  BY ThreadFacts DEF HandInv
<1>2. Len(accepted) \in Nat /\ Gone \in Nat
  BY RangeFacts DEF TypeOK, Gone
<1>3. Gone < Len(accepted) /\ first = linked[Gone + 1]
  BY <1>1, <1>2 DEF ListShape
<1>4. Gone + 1 \in Queued /\ Gone + 1 \in 1 .. Len(accepted)
  BY <1>2, <1>3 DEF Queued
<1>5. linked[Gone + 1] \in Units /\ accepted[Gone + 1] \in Tasks
  BY <1>4 DEF TypeOK, ListShape
<1> QED
  BY <1>1, <1>3, <1>4, <1>5 DEF ListShape

(* A pool that is not empty can be popped. *)
LEMMA PoolPop ==
  ASSUME TypeOK, PoolShape, pool # NULL
  PROVE  /\ Len(pooled) > 0 /\ Len(pooled) \in Nat
         /\ pool = pooled[Len(pooled)]
         /\ SubSeq(pooled, 1, Len(pooled) - 1) \in Seq(Units)
<1>1. Len(pooled) \in Nat /\ Len(pooled) # 0 /\ pool = pooled[Len(pooled)]
  BY RangeFacts DEF TypeOK, PoolShape
<1>2. pooled \in Seq(Units) /\ Len(pooled) > 0
  BY <1>1 DEF TypeOK
<1> QED
  BY <1>1, <1>2, FrontFacts

(* Every step keeps the types of the data. *)
LEMMA TypeStep == IInv /\ [Next]_vars => TypeOK'
<1> SUFFICES ASSUME IInv, [Next]_vars PROVE TypeOK'
  OBVIOUS
<1>a. TypeOK /\ PcOK'
  BY PcStep DEF IInv
<1> USE <1>a DEF TypeOK, ctl, list, local, hist, book
<1>1. ASSUME AllocFails PROVE TypeOK'
  BY <1>1 DEF AllocFails
<1>2. ASSUME AllocQueue PROVE TypeOK'
  BY <1>2, ThreadFacts DEF AllocQueue, ToCreate
<1>3. ASSUME CreateWorker PROVE TypeOK'
  BY <1>3, ThreadFacts DEF CreateWorker, ToCreate
<1>4. ASSUME AllocReturns PROVE TypeOK'
  BY <1>4 DEF AllocReturns
<1>5. ASSUME CreateFails PROVE TypeOK'
  BY <1>5, ThreadFacts DEF CreateFails, ToCreate
<1>6. ASSUME RollbackJoinsNoThread PROVE TypeOK'
  BY <1>6, ThreadFacts DEF RollbackJoinsNoThread, ToCreate
<1>7. ASSUME RollbackJoins PROVE TypeOK'
  BY <1>7, ThreadFacts DEF RollbackJoins, ToCreate
<1>8. ASSUME RollbackFrees PROVE TypeOK'
  BY <1>8 DEF RollbackFrees
<1>9. ASSUME ReleaseCloses PROVE TypeOK'
  BY <1>9, ThreadFacts, RangeFacts DEF ReleaseCloses, ToCreate
<1>10. ASSUME ReleaseJoins PROVE TypeOK'
  BY <1>10, ThreadFacts DEF ReleaseJoins, ToCreate
<1>11. ASSUME ReleaseJoined PROVE TypeOK'
  BY <1>11 DEF ReleaseJoined
<1>12. ASSUME Drain PROVE TypeOK'
  BY <1>12 DEF Drain
<1>13. ASSUME DrainPool PROVE TypeOK'
  <2>1. pooled' \in Seq(Units)
    BY <1>13, PoolPop DEF IInv, DrainPool
  <2> QED
    BY <1>13, <2>1 DEF DrainPool, PoolRest
<1>14. ASSUME FreeQueue PROVE TypeOK'
  BY <1>14 DEF FreeQueue
<1>15. ASSUME NEW t \in Threads, NEW x \in Tasks, Additem(t, x)
      PROVE  TypeOK'
  BY <1>15 DEF Additem
<1>16. ASSUME NEW t \in Threads, AddLock(t) PROVE TypeOK'
  BY <1>16, ThreadFacts DEF AddLock, Acquire
<1>17. ASSUME NEW t \in Threads, AddCheck(t) PROVE TypeOK'
  BY <1>17 DEF AddCheck
<1>18. ASSUME NEW t \in Threads, AddAlloc(t) PROVE TypeOK'
  <2>1. /\ pool' \in Units \cup {NULL}
        /\ next' \in [Units -> Units \cup {NULL}]
        /\ heap' \in SUBSET Units
        /\ mm' \in [Threads -> Units \cup {NULL}]
    <3>1. CASE PoolTake(t)
      BY <3>1 DEF PoolTake
    <3>2. ASSUME NEW u \in Units, Malloc(t, u)
          PROVE  /\ pool' \in Units \cup {NULL}
                 /\ next' \in [Units -> Units \cup {NULL}]
                 /\ heap' \in SUBSET Units
                 /\ mm' \in [Threads -> Units \cup {NULL}]
      BY <3>2 DEF Malloc
    <3>3. CASE MallocFails(t)
      BY <3>3 DEF MallocFails
    <3> QED
      BY <1>18, <3>1, <3>2, <3>3 DEF AddAlloc, PoolAlloc
  <2>2. pooled' \in Seq(Units)
    BY <1>18, PoolPop
       DEF IInv, AddAlloc, PoolAlloc, PoolTake, Malloc, MallocFails
  <2> QED
    BY <1>18, <2>1, <2>2 DEF AddAlloc
<1>19. ASSUME NEW t \in Threads, AddLink(t) PROVE TypeOK'
  <2>1. mm[t] \in Units /\ arg[t] \in Tasks
    BY <1>19 DEF IInv, OfferInv, HandInv, AddLink, Step, AddPcs
  <2>2. linked' \in Seq(Units) /\ accepted' \in Seq(Tasks)
    BY <1>19, <2>1, AppendFacts DEF AddLink
  <2>3. args' \in [Units -> Tasks \cup {NULL}]
    BY <1>19, <2>1 DEF AddLink
  <2>4. /\ next' \in [Units -> Units \cup {NULL}]
        /\ {first', last'} \subseteq Units \cup {NULL}
    BY <1>19, <2>1 DEF AddLink, Link
  <2> QED
    BY <1>19, <2>2, <2>3, <2>4 DEF AddLink
<1>20. ASSUME NEW t \in Threads, AddUnlock(t) PROVE TypeOK'
  BY <1>20 DEF AddUnlock
<1>21. ASSUME NEW w \in Workers, FetchLock(w) PROVE TypeOK'
  BY <1>21, ThreadFacts DEF FetchLock, Acquire
<1>22. ASSUME NEW w \in Workers, Loop(w) PROVE TypeOK'
  BY <1>22 DEF Loop
<1>23. ASSUME NEW w \in Workers, FetchFirst(w) PROVE TypeOK'
  BY <1>23 DEF FetchFirst
<1>24. ASSUME NEW w \in Workers, FetchUnlink(w) PROVE TypeOK'
  <2>1. mm[w] \in Units /\ args[mm[w]] \in Tasks
    BY <1>24, FirstUnit DEF IInv, FetchUnlink, Step
  <2>2. /\ pool' \in Units \cup {NULL}
        /\ next' \in [Units -> Units \cup {NULL}]
        /\ heap' \in SUBSET Units
        /\ free' = 0
    BY <1>24, <2>1 DEF FetchUnlink, PoolFree
  <2>3. pooled' \in Seq(Units)
    <3>1. Append(pooled, mm[w]) \in Seq(Units)
      BY <2>1, AppendFacts
    <3> QED
      BY <1>24, <3>1 DEF FetchUnlink, PoolFree
  <2>4. fetched' \in Seq(Tasks)
    BY <1>24, <2>1, AppendFacts DEF FetchUnlink, Copy
  <2>5. unit' \in [Workers -> Tasks \cup {NULL}]
    BY <1>24, <2>1 DEF FetchUnlink, Copy
  <2>6. {first', last'} \subseteq Units \cup {NULL}
    BY <1>24, <2>1 DEF FetchUnlink
  <2> QED
    BY <1>24, <2>2, <2>3, <2>4, <2>5, <2>6 DEF FetchUnlink
<1>25. ASSUME NEW w \in Workers, FetchUnlock(w) PROVE TypeOK'
  BY <1>25 DEF FetchUnlock
<1>26. ASSUME NEW w \in Workers, TaskReturns(w) PROVE TypeOK'
  <2>1. unit[w] \in Tasks
    BY <1>26, RangeFacts DEF IInv, BusyInv, Busy, TaskReturns, Step
  <2> QED
    BY <1>26, <2>1 DEF TaskReturns
<1>27. ASSUME NEW c \in Clients, Wait(c) PROVE TypeOK'
  BY <1>27, RangeFacts DEF Wait
<1>28. ASSUME NEW c \in Clients, WaitLock(c) PROVE TypeOK'
  BY <1>28, ThreadFacts DEF WaitLock, Acquire
<1>29. ASSUME NEW c \in Clients, WaitRead(c) PROVE TypeOK'
  BY <1>29 DEF WaitRead
<1>30. ASSUME NEW c \in Clients, WaitUnlock(c) PROVE TypeOK'
  BY <1>30 DEF WaitUnlock
<1>31. CASE UNCHANGED vars
  BY <1>31 DEF vars
<1> QED
  BY <1>1, <1>2, <1>3, <1>4, <1>5, <1>6, <1>7, <1>8, <1>9, <1>10, <1>11,
     <1>12, <1>13, <1>14, <1>15, <1>16, <1>17, <1>18, <1>19, <1>20, <1>21,
     <1>22, <1>23, <1>24, <1>25, <1>26, <1>27, <1>28, <1>29, <1>30, <1>31
     DEF Next, AllocNext, ReleaseSteps, AddSteps, FetchSteps, Halted

(* Before the queue exists no thread is in a call. *)
LEMMA StartUnlocked ==
  ASSUME TypeOK, MutualExclusion, PhaseInv, pc[Owner] = "start"
  PROVE  lock = NULL
<1>1. \A w \in Workers : pc[w] = "none"
  BY DEF PhaseInv
<1>2. \A c \in Clients \ {Owner} : pc[c] = "idle"
  BY DEF PhaseInv, ClientPcs, AddPcs, WaitPcs
<1>3. \A t \in Threads : pc[t] \notin LockedPcs
  BY <1>1, <1>2 DEF Threads, LockedPcs
<1> QED
  BY <1>3 DEF TypeOK, MutualExclusion

(* A thread enters the critical section only by taking the free lock. *)
LEMMA MutexStep == IInv /\ [Next]_vars => MutualExclusion'
<1> SUFFICES ASSUME IInv, [Next]_vars PROVE MutualExclusion'
  OBVIOUS
<1>a. /\ MutualExclusion /\ core \in 0 .. NCORE
      /\ pc \in [Threads -> OwnerPcs \cup WorkerPcs]
  BY DEF IInv, TypeOK, PcOK
<1>b. Owner \in Threads /\ \A t \in Threads : t # NULL
  BY ThreadFacts
<1> USE <1>a, <1>b DEF MutualExclusion, LockedPcs, Step, Goto, Acquire, ctl, list,
     local, hist, book
<1>1. ASSUME AllocFails PROVE MutualExclusion'
  BY <1>1 DEF AllocFails
<1>2. ASSUME AllocQueue PROVE MutualExclusion'
  <2>1. lock = NULL
    BY <1>2, StartUnlocked DEF IInv, AllocQueue, Step
  <2> QED
    BY <1>2, <2>1 DEF AllocQueue
<1>3. ASSUME CreateWorker PROVE MutualExclusion'
  <2>1. core - 1 \in Workers /\ pc[core - 1] = "none"
    BY <1>3, ThreadFacts
       DEF CreateWorker, ToCreate, Workers, IInv, PhaseInv
  <2>2. core - 1 \in Threads
    BY <2>1, ThreadFacts
  <2> QED
    BY <1>3, <2>1, <2>2 DEF CreateWorker
<1>4. ASSUME AllocReturns PROVE MutualExclusion'
  BY <1>4 DEF AllocReturns
<1>5. ASSUME CreateFails PROVE MutualExclusion'
  BY <1>5 DEF CreateFails
<1>6. ASSUME RollbackJoinsNoThread PROVE MutualExclusion'
  BY <1>6 DEF RollbackJoinsNoThread
<1>7. ASSUME RollbackJoins PROVE MutualExclusion'
  BY <1>7 DEF RollbackJoins
<1>8. ASSUME RollbackFrees PROVE MutualExclusion'
  BY <1>8 DEF RollbackFrees
<1>9. ASSUME ReleaseCloses PROVE MutualExclusion'
  BY <1>9, WorkQueueAssumption DEF ReleaseCloses
<1>10. ASSUME ReleaseJoins PROVE MutualExclusion'
  BY <1>10 DEF ReleaseJoins
<1>11. ASSUME ReleaseJoined PROVE MutualExclusion'
  BY <1>11 DEF ReleaseJoined
<1>12. ASSUME Drain PROVE MutualExclusion'
  BY <1>12 DEF Drain
<1>13. ASSUME DrainPool PROVE MutualExclusion'
  BY <1>13 DEF DrainPool
<1>14. ASSUME FreeQueue PROVE MutualExclusion'
  BY <1>14 DEF FreeQueue
<1>15. ASSUME NEW t \in Threads, NEW x \in Tasks, Additem(t, x)
      PROVE  MutualExclusion'
  BY <1>15 DEF Additem, MayCall, Caller
<1>16. ASSUME NEW t \in Threads, AddLock(t) PROVE MutualExclusion'
  BY <1>16 DEF AddLock
<1>17. ASSUME NEW t \in Threads, AddCheck(t) PROVE MutualExclusion'
  BY <1>17 DEF AddCheck, MayCall, Caller
<1>18. ASSUME NEW t \in Threads, AddAlloc(t) PROVE MutualExclusion'
  BY <1>18 DEF AddAlloc
<1>19. ASSUME NEW t \in Threads, AddLink(t) PROVE MutualExclusion'
  BY <1>19 DEF AddLink
<1>20. ASSUME NEW t \in Threads, AddUnlock(t) PROVE MutualExclusion'
  BY <1>20 DEF AddUnlock, MayCall, Caller
<1>21. ASSUME NEW w \in Workers, FetchLock(w) PROVE MutualExclusion'
  BY <1>21, ThreadFacts DEF FetchLock
<1>22. ASSUME NEW w \in Workers, Loop(w) PROVE MutualExclusion'
  BY <1>22, ThreadFacts DEF Loop, KeepLooping
<1>23. ASSUME NEW w \in Workers, FetchFirst(w) PROVE MutualExclusion'
  BY <1>23, ThreadFacts DEF FetchFirst
<1>24. ASSUME NEW w \in Workers, FetchUnlink(w) PROVE MutualExclusion'
  BY <1>24, ThreadFacts DEF FetchUnlink
<1>25. ASSUME NEW w \in Workers, FetchUnlock(w) PROVE MutualExclusion'
  BY <1>25, ThreadFacts DEF FetchUnlock, AfterFetch
<1>26. ASSUME NEW w \in Workers, TaskReturns(w) PROVE MutualExclusion'
  BY <1>26, ThreadFacts DEF TaskReturns
<1>27. ASSUME NEW c \in Clients, Wait(c) PROVE MutualExclusion'
  BY <1>27, ThreadFacts DEF Wait, MayCall, Caller
<1>28. ASSUME NEW c \in Clients, WaitLock(c) PROVE MutualExclusion'
  BY <1>28, ThreadFacts DEF WaitLock
<1>29. ASSUME NEW c \in Clients, WaitRead(c) PROVE MutualExclusion'
  BY <1>29, ThreadFacts DEF WaitRead, WaitTest
<1>30. ASSUME NEW c \in Clients, WaitUnlock(c) PROVE MutualExclusion'
  BY <1>30, ThreadFacts DEF WaitUnlock
<1>31. CASE UNCHANGED vars
  BY <1>31 DEF vars
<1> QED
  BY <1>1, <1>2, <1>3, <1>4, <1>5, <1>6, <1>7, <1>8, <1>9, <1>10, <1>11,
     <1>12, <1>13, <1>14, <1>15, <1>16, <1>17, <1>18, <1>19, <1>20, <1>21,
     <1>22, <1>23, <1>24, <1>25, <1>26, <1>27, <1>28, <1>29, <1>30, <1>31
     DEF Next, AllocNext, ReleaseSteps, AddSteps, FetchSteps, Halted

(* The steps that touch the list or the pool; every other step leaves both *)
(* and the histories of both alone.                                        *)
LEMMA ListFrame ==
  ASSUME [Next]_vars
  PROVE  \/ UNCHANGED <<list, hist>>
         \/ AllocQueue \/ Drain \/ DrainPool
         \/ \E t \in Threads : AddAlloc(t) \/ AddLink(t)
         \/ \E w \in Workers : FetchUnlink(w)
<1>1. CASE AllocNext
  BY <1>1 DEF AllocNext, AllocFails, AllocQueue, CreateWorker, AllocReturns,
     CreateFails, RollbackJoinsNoThread, RollbackJoins, RollbackFrees
<1>2. CASE ReleaseCloses \/ ReleaseSteps
  BY <1>2 DEF ReleaseCloses, ReleaseSteps, ReleaseJoins, ReleaseJoined, FreeQueue
<1>3. ASSUME NEW t \in Threads,
             (\E x \in Tasks : Additem(t, x)) \/ AddLock(t) \/ AddSteps(t)
      PROVE  UNCHANGED <<list, hist>> \/ AddAlloc(t) \/ AddLink(t)
  BY <1>3 DEF Additem, AddLock, AddSteps, AddCheck, AddUnlock
<1>4. ASSUME NEW w \in Workers, FetchLock(w) \/ FetchSteps(w)
      PROVE  UNCHANGED <<list, hist>> \/ FetchUnlink(w)
  BY <1>4 DEF FetchLock, FetchSteps, Loop, FetchFirst, FetchUnlock, TaskReturns
<1>5. ASSUME NEW c \in Clients,
             Wait(c) \/ WaitLock(c) \/ WaitRead(c) \/ WaitUnlock(c)
      PROVE  UNCHANGED <<list, hist>>
  BY <1>5 DEF Wait, WaitLock, WaitRead, WaitUnlock
<1>6. CASE UNCHANGED vars
  BY <1>6 DEF vars
<1> QED
  BY <1>1, <1>2, <1>3, <1>4, <1>5, <1>6 DEF Next, Halted

(* While a thread is inside a call the owner has not begun to drain. *)
LEMMA NothingDropped ==
  ASSUME TypeOK, PhaseInv, NEW t \in Threads,
         pc[t] \in {"add_alloc", "add_link", "fetch_unlink"}
  PROVE  dropped = 0 /\ pc[Owner] \notin After
<1>1. CASE t \in Workers
  BY <1>1 DEF PhaseInv
<1>2. CASE t \in Clients \ {Owner}
  BY <1>2 DEF PhaseInv, After, ClientPcs, AddPcs, WaitPcs
<1>3. CASE t = Owner
  BY <1>3 DEF PhaseInv, After
<1> QED
  BY <1>1, <1>2, <1>3 DEF Threads

(* The lengths and positions of the histories are numbers. *)
LEMMA Positions ==
  ASSUME TypeOK
  PROVE  /\ Len(accepted) \in Nat /\ Len(fetched) \in Nat /\ Len(linked) \in Nat
         /\ Len(pooled) \in Nat /\ Gone \in Nat /\ dropped \in Nat
         /\ \A i \in Queued : i \in Nat /\ Gone < i /\ i <= Len(accepted)
  BY RangeFacts DEF TypeOK, Gone, Queued

(* The list stays linked in the order of acceptance. *)
LEMMA ListStep == IInv /\ [Next]_vars => ListShape'
<1> SUFFICES ASSUME IInv, [Next]_vars PROVE ListShape'
  OBVIOUS
<1>a. /\ TypeOK /\ TypeOK' /\ ListShape /\ PoolShape /\ UnitOwnership
      /\ PhaseInv /\ OfferInv /\ HandInv
  BY TypeStep DEF IInv
<1>b. /\ Len(accepted) \in Nat /\ Len(fetched) \in Nat /\ dropped \in Nat
      /\ Len(linked) = Len(accepted) /\ Len(fetched) + dropped <= Len(accepted)
  BY <1>a, Positions DEF ListShape, Gone
<1>1. CASE UNCHANGED <<list, hist>>
  BY <1>1, <1>a DEF ListShape, Gone, Queued, list, hist
<1>2. CASE AllocQueue
  <2>1. Len(accepted) = 0
    BY <1>2, <1>a DEF AllocQueue, Step, PhaseInv, Before
  <2> QED
    BY <1>2, <1>a, <1>b, <2>1 DEF AllocQueue, ListShape, Gone, Queued, hist
<1>3. CASE DrainPool
  BY <1>3, <1>a DEF DrainPool, ListShape, Gone, Queued
<1>4. CASE Drain
  <2>1. CASE first = NULL
    BY <1>4, <2>1, <1>a DEF Drain, ListShape, Gone, Queued
  <2>2. CASE first # NULL
    <3>1. /\ first' = next[first] /\ dropped' = dropped + 1
          /\ UNCHANGED <<next, args, accepted, linked, fetched>>
      BY <1>4, <2>2 DEF Drain
    <3>2. Gone < Len(accepted) /\ first = linked[Gone + 1]
      BY <2>2, <1>a, <1>b DEF ListShape, Gone
    <3>3. Gone + 1 \in Queued /\ Gone' = Gone + 1 /\ Gone \in Nat
      BY <3>1, <3>2, <1>b DEF Gone, Queued
    <3>4. Queued' \subseteq Queued
      BY <3>1, <3>3, <1>b DEF Queued
    <3>5. first' = IF Gone' < Len(accepted) THEN linked[Gone' + 1] ELSE NULL
      BY <3>1, <3>2, <3>3, <1>a DEF ListShape
    <3> QED
      BY <3>1, <3>2, <3>3, <3>4, <3>5, <1>a, <1>b DEF ListShape
  <2> QED
    BY <2>1, <2>2
<1>5. ASSUME NEW t \in Threads, AddAlloc(t) PROVE ListShape'
  <2>1. UNCHANGED <<first, last, args, accepted, linked, fetched, dropped>>
    BY <1>5 DEF AddAlloc
  <2>2. \A i \in Queued : next'[linked[i]] = next[linked[i]]
    <3>1. CASE PoolTake(t)
      <4>1. Len(pooled) \in 1 .. Len(pooled) /\ pool = pooled[Len(pooled)]
        BY <3>1, <1>a, PoolPop DEF PoolTake
      <4>2. \A i \in Queued : linked[i] # pool
        BY <4>1, <1>a DEF UnitOwnership
      <4> QED
        BY <3>1, <4>2, <1>a DEF PoolTake, TypeOK
    <3>2. ASSUME NEW u \in Units, Malloc(t, u)
          PROVE  \A i \in Queued : next'[linked[i]] = next[linked[i]]
      <4>1. \A i \in Queued : linked[i] # u
        BY <3>2, <1>a DEF UnitOwnership, Malloc
      <4> QED
        BY <3>2, <4>1, <1>a DEF Malloc, TypeOK
    <3>3. CASE MallocFails(t)
      BY <3>3 DEF MallocFails
    <3> QED
      BY <1>5, <3>1, <3>2, <3>3 DEF AddAlloc, PoolAlloc
  <2> QED
    BY <2>1, <2>2, <1>a DEF ListShape, Gone, Queued
<1>6. ASSUME NEW t \in Threads, AddLink(t) PROVE ListShape'
  <2> DEFINE u == mm[t]
             n == Len(accepted)
  <2>1. pc[t] = "add_link"
    BY <1>6 DEF AddLink, Step
  <2>2. u \in Units /\ arg[t] \in Tasks /\ dropped = 0 /\ u # NULL
    BY <2>1, <1>a, NothingDropped, ThreadFacts
       DEF OfferInv, HandInv, AddPcs, TypeOK
  <2>3. \A i \in Queued : linked[i] # u
    BY <2>1, <1>a DEF UnitOwnership
  <2>4. /\ args' = [args EXCEPT ![u] = arg[t]]
        /\ Link(u) /\ UNCHANGED <<fetched, dropped>>
        /\ linked' = Append(linked, u) /\ accepted' = Append(accepted, arg[t])
    BY <1>6 DEF AddLink
  <2>5. /\ Len(accepted') = n + 1 /\ Len(linked') = n + 1
        /\ \A i \in 1 .. n : linked'[i] = linked[i] /\ accepted'[i] = accepted[i]
        /\ linked'[n + 1] = u /\ accepted'[n + 1] = arg[t]
    BY <2>2, <2>4, <1>a, <1>b, AppendFacts DEF TypeOK
  <2>6. /\ Gone' = Gone /\ Gone \in Nat /\ Gone <= n /\ n \in Nat
        /\ Queued \subseteq 1 .. n
        /\ \A i \in Queued' : i = n + 1 \/ i \in Queued
    BY <2>4, <2>5, <1>b DEF Gone, Queued
  <2>a. /\ \A i \in Queued : linked[i] \in Units /\ i \in 1 .. n
        /\ first = NULL => Gone = n
        /\ Gone < n => first = linked[Gone + 1]
    <3>1. \A i \in Queued : linked[i] \in Units /\ i \in 1 .. n
      BY <2>6, <1>a, <1>b DEF TypeOK
    <3>2. Gone < n => Gone + 1 \in Queued
      BY <2>6 DEF Queued
    <3>3. Gone < n => first = linked[Gone + 1]
      BY <1>a DEF ListShape
    <3> QED
      BY <3>1, <3>2, <3>3, <2>6, ThreadFacts
  <2>7. \A i \in Queued' : args'[linked'[i]] = accepted'[i]
    <3>1. args'[u] = arg[t]
      BY <2>2, <2>4, <1>a DEF TypeOK
    <3>2. \A i \in Queued : args'[linked[i]] = accepted[i]
      BY <2>3, <2>4, <2>a, <1>a DEF TypeOK, ListShape
    <3> QED
      BY <3>1, <3>2, <2>5, <2>6, <2>a
  <2>8. last' = u /\ first' = linked'[Gone + 1]
    <3>1. CASE first = NULL
      BY <3>1, <2>4, <2>5, <2>a DEF Link
    <3>2. CASE first # NULL
      <4>1. Gone < n /\ Gone + 1 \in 1 .. n
        BY <3>2, <2>6, <1>a DEF ListShape
      <4> QED
        BY <3>2, <4>1, <2>4, <2>5, <2>a DEF Link
    <3> QED
      BY <3>1, <3>2
  <2>9. next[u] = NULL
    BY <2>1, <1>a DEF HandInv
  <2>10. \A i \in Queued' :
           next'[linked'[i]] = IF i < n + 1 THEN linked'[i + 1] ELSE NULL
    <3>1. CASE first = NULL
      <4>1. Gone = n /\ next' = next
        BY <3>1, <2>4, <2>a DEF Link
      <4>2. \A i \in Queued' : i = n + 1
        BY <4>1, <2>6 DEF Queued
      <4> QED
        BY <4>1, <4>2, <2>5, <2>9
    <3>2. CASE first # NULL
      <4>1. Gone < n /\ last = linked[n] /\ n \in Queued
        BY <3>2, <2>2, <2>6, <1>a, <1>b DEF ListShape, Queued
      <4>2. next' = [next EXCEPT ![linked[n]] = u]
        BY <3>2, <4>1, <2>4 DEF Link
      <4>3. linked[n] \in Units /\ next \in [Units -> Units \cup {NULL}]
        BY <4>1, <2>6, <1>a, <1>b DEF TypeOK
      <4>4. next'[linked[n]] = u
        BY <4>2, <4>3
      <4>5. next'[u] = NULL
        BY <4>1, <4>2, <4>3, <2>2, <2>3, <2>9
      <4>6. ASSUME NEW i \in Queued, i # n
            PROVE  next'[linked[i]] = linked[i + 1] /\ i \in 1 .. n - 1
        <5>1. linked[i] # linked[n] /\ i \in 1 .. n - 1
          BY <4>1, <4>6, <2>6, <1>a DEF UnitOwnership
        <5>2. linked[i] \in Units
          BY <5>1, <2>6, <1>a, <1>b, SMTT(30) DEF TypeOK
        <5>3. next[linked[i]] = linked[i + 1]
          BY <5>1, <2>6, <1>a DEF ListShape
        <5> QED
          BY <5>1, <5>2, <5>3, <4>2, <4>3
      <4>7. ASSUME NEW i \in Queued'
            PROVE  next'[linked'[i]] = IF i < n + 1 THEN linked'[i + 1] ELSE NULL
        <5>1. CASE i = n + 1
          BY <5>1, <4>5, <2>5, <2>6
        <5>2. CASE i = n
          BY <5>2, <4>1, <4>4, <2>5, <2>6
        <5>3. CASE i \in Queued /\ i # n
          BY <5>3, <4>6, <2>5, <2>6
        <5> QED
          BY <5>1, <5>2, <5>3, <2>6
      <4> QED
        BY <4>7
    <3> QED
      BY <3>1, <3>2
  <2>11. Gone' < Len(accepted')
    BY <2>5, <2>6
  <2>12. /\ first' = IF Gone' < Len(accepted') THEN linked'[Gone' + 1] ELSE NULL
         /\ last' = IF Gone' < Len(accepted') THEN linked'[Len(accepted')] ELSE NULL
    BY <2>5, <2>6, <2>8, <2>11
  <2>13. \A i \in Queued' : next'[linked'[i]] =
           IF i < Len(accepted') THEN linked'[i + 1] ELSE NULL
    BY <2>5, <2>10
  <2> QED
    BY <2>5, <2>6, <2>7, <2>11, <2>12, <2>13 DEF ListShape
<1>7. ASSUME NEW w \in Workers, FetchUnlink(w) PROVE ListShape'
  <2> DEFINE u == mm[w]
             n == Len(accepted)
  <2>1. pc[w] = "fetch_unlink" /\ w \in Threads
    BY <1>7, ThreadFacts DEF FetchUnlink, Step
  <2>2. /\ Gone < n /\ Gone + 1 \in Queued /\ u = linked[Gone + 1]
        /\ u \in Units /\ args[u] \in Tasks /\ dropped = 0
    BY <2>1, <1>a, FirstUnit, NothingDropped
  <2>3. /\ first' = next[u] /\ last' = IF last = u THEN NULL ELSE last
        /\ fetched' = Append(fetched, args[u])
        /\ UNCHANGED <<args, accepted, linked, dropped>>
    BY <1>7 DEF FetchUnlink, Copy
  <2>4. Gone' = Gone + 1 /\ Gone \in Nat /\ n \in Nat
    BY <2>2, <2>3, <1>a, <1>b, AppendFacts DEF Gone, TypeOK
  <2>5. Queued' \subseteq Queued \ {Gone + 1}
    BY <2>3, <2>4 DEF Queued
  <2>6. \A i \in Queued' : linked[i] # u
    BY <2>2, <2>5, <1>a DEF UnitOwnership
  <2>7. \A i \in Queued' : next'[linked[i]] = next[linked[i]]
    <3>1. \A i \in Queued' : linked[i] \in Units
      BY <2>5, <1>a, <1>b, Positions, SMTT(30) DEF TypeOK
    <3>2. next' = next \/ next' = [next EXCEPT ![u] = pool]
      BY <1>7 DEF FetchUnlink, PoolFree
    <3> QED
      BY <3>1, <3>2, <2>2, <2>6, <1>a DEF TypeOK
  <2>8. first' = IF Gone' < n THEN linked[Gone' + 1] ELSE NULL
    BY <2>2, <2>3, <2>4, <1>a DEF ListShape
  <2>9. last' = IF Gone' < n THEN linked[n] ELSE NULL
    <3>1. last = linked[n]
      BY <2>2, <1>a DEF ListShape
    <3>2. n \in Queued
      BY <2>2, <2>4 DEF Queued
    <3>3. last = u <=> n = Gone + 1
      BY <3>1, <3>2, <2>2, <1>a DEF UnitOwnership
    <3> QED
      BY <3>1, <3>3, <2>2, <2>3, <2>4
  <2> QED
    BY <2>2, <2>3, <2>4, <2>5, <2>7, <2>8, <2>9, <1>a, <1>b DEF ListShape
<1> QED
  BY <1>1, <1>2, <1>3, <1>4, <1>5, <1>6, <1>7, ListFrame

(* Only the alloc and link steps change which unit a thread has in hand. *)
LEMMA HandFrame ==
  ASSUME IInv, [Next]_vars
  PROVE  \/ \A t \in Threads : /\ pc'[t] = "add_link" <=> pc[t] = "add_link"
                               /\ pc[t] = "add_link" => mm'[t] = mm[t]
         \/ \E t \in Threads : AddAlloc(t) \/ AddLink(t)
<1> DEFINE Same == \A t \in Threads : /\ pc'[t] = "add_link" <=> pc[t] = "add_link"
                                      /\ pc[t] = "add_link" => mm'[t] = mm[t]
<1>a. /\ core \in 0 .. NCORE
      /\ pc \in [Threads -> OwnerPcs \cup WorkerPcs]
      /\ mm \in [Threads -> Units \cup {NULL}]
  BY DEF IInv, TypeOK, PcOK
<1>b. Owner \in Threads /\ Workers \subseteq Threads /\ Clients \subseteq Threads
  BY ThreadFacts
<1> USE <1>a, <1>b DEF Step, Goto, ctl, list, local, hist, book
<1>1. ASSUME AllocFails PROVE Same
  BY <1>1 DEF AllocFails
<1>2. ASSUME AllocQueue PROVE Same
  BY <1>2 DEF AllocQueue
<1>3. ASSUME CreateWorker PROVE Same
  <2>1. core - 1 \in Threads /\ pc[core - 1] = "none"
    BY <1>3, ThreadFacts
       DEF CreateWorker, ToCreate, Workers, IInv, PhaseInv
  <2> QED
    BY <1>3, <2>1 DEF CreateWorker
<1>4. ASSUME AllocReturns PROVE Same
  BY <1>4 DEF AllocReturns
<1>5. ASSUME CreateFails PROVE Same
  BY <1>5 DEF CreateFails
<1>6. ASSUME RollbackJoinsNoThread PROVE Same
  BY <1>6 DEF RollbackJoinsNoThread
<1>7. ASSUME RollbackJoins PROVE Same
  BY <1>7 DEF RollbackJoins
<1>8. ASSUME RollbackFrees PROVE Same
  BY <1>8 DEF RollbackFrees
<1>9. ASSUME ReleaseCloses PROVE Same
  BY <1>9, WorkQueueAssumption DEF ReleaseCloses
<1>10. ASSUME ReleaseJoins PROVE Same
  BY <1>10 DEF ReleaseJoins
<1>11. ASSUME ReleaseJoined PROVE Same
  BY <1>11 DEF ReleaseJoined
<1>12. ASSUME Drain PROVE Same
  BY <1>12 DEF Drain
<1>13. ASSUME DrainPool PROVE Same
  BY <1>13 DEF DrainPool
<1>14. ASSUME FreeQueue PROVE Same
  BY <1>14 DEF FreeQueue
<1>15. ASSUME NEW t \in Threads, NEW x \in Tasks, Additem(t, x)
      PROVE  Same
  BY <1>15 DEF Additem, MayCall, Caller
<1>16. ASSUME NEW t \in Threads, AddLock(t) PROVE Same
  BY <1>16 DEF AddLock
<1>17. ASSUME NEW t \in Threads, AddCheck(t) PROVE Same
  BY <1>17 DEF AddCheck, MayCall, Caller
<1>18. ASSUME NEW t \in Threads, AddUnlock(t) PROVE Same
  BY <1>18 DEF AddUnlock, MayCall, Caller
<1>19. ASSUME NEW w \in Workers, FetchLock(w) PROVE Same
  BY <1>19 DEF FetchLock
<1>20. ASSUME NEW w \in Workers, Loop(w) PROVE Same
  BY <1>20 DEF Loop, KeepLooping
<1>21. ASSUME NEW w \in Workers, FetchFirst(w) PROVE Same
  BY <1>21 DEF FetchFirst
<1>22. ASSUME NEW w \in Workers, FetchUnlink(w) PROVE Same
  BY <1>22 DEF FetchUnlink
<1>23. ASSUME NEW w \in Workers, FetchUnlock(w) PROVE Same
  BY <1>23 DEF FetchUnlock, AfterFetch
<1>24. ASSUME NEW w \in Workers, TaskReturns(w) PROVE Same
  BY <1>24 DEF TaskReturns
<1>25. ASSUME NEW c \in Clients, Wait(c) PROVE Same
  BY <1>25 DEF Wait, MayCall, Caller
<1>26. ASSUME NEW c \in Clients, WaitLock(c) PROVE Same
  BY <1>26 DEF WaitLock
<1>27. ASSUME NEW c \in Clients, WaitRead(c) PROVE Same
  BY <1>27 DEF WaitRead, WaitTest
<1>28. ASSUME NEW c \in Clients, WaitUnlock(c) PROVE Same
  BY <1>28 DEF WaitUnlock
<1>29. CASE UNCHANGED vars
  BY <1>29 DEF vars
<1> QED
  BY <1>1, <1>2, <1>3, <1>4, <1>5, <1>6, <1>7, <1>8, <1>9, <1>10, <1>11,
     <1>12, <1>13, <1>14, <1>15, <1>16, <1>17, <1>18, <1>19, <1>20, <1>21,
     <1>22, <1>23, <1>24, <1>25, <1>26, <1>27, <1>28, <1>29
     DEF Next, AllocNext, ReleaseSteps, AddSteps, FetchSteps, Halted

(* Taking the top unit off the pool leaves a stack. *)
LEMMA PoppedShape ==
  ASSUME TypeOK, PoolShape, UnitOwnership, Len(pooled) > 0,
         pooled' = SubSeq(pooled, 1, Len(pooled) - 1),
         pool' = next[pool],
         next' = next \/ next' = [next EXCEPT ![pool] = NULL]
  PROVE  PoolShape'
<1> DEFINE n == Len(pooled)
<1>1. n \in Nat /\ n > 0 /\ pooled \in Seq(Units) /\ pool = pooled[n]
  BY Positions DEF TypeOK, PoolShape
<1>2. /\ Len(pooled') = n - 1
      /\ \A i \in 1 .. n - 1 : pooled'[i] = pooled[i]
  BY <1>1, FrontFacts
<1>3. \A i \in 1 .. n - 1 : pooled[i] # pool /\ pooled[i] \in Units
  BY <1>1 DEF UnitOwnership
<1>4. \A i \in 1 .. n - 1 : next'[pooled[i]] = next[pooled[i]]
  BY <1>1, <1>3 DEF TypeOK
<1>5. next[pool] = IF n > 1 THEN pooled[n - 1] ELSE NULL
  BY <1>1 DEF PoolShape
<1>6. pool' = IF Len(pooled') = 0 THEN NULL ELSE pooled'[Len(pooled')]
  BY <1>1, <1>2, <1>5
<1>7. ASSUME NEW i \in 1 .. n - 1
      PROVE  next'[pooled'[i]] = IF i > 1 THEN pooled'[i - 1] ELSE NULL
  BY <1>1, <1>2, <1>4 DEF PoolShape
<1> QED
  BY <1>2, <1>6, <1>7 DEF PoolShape

(* The pool stays a stack. *)
LEMMA PoolStep == IInv /\ [Next]_vars => PoolShape'
<1> SUFFICES ASSUME IInv, [Next]_vars PROVE PoolShape'
  OBVIOUS
<1>a. /\ TypeOK /\ TypeOK' /\ ListShape /\ PoolShape /\ UnitOwnership
      /\ PhaseInv /\ OfferInv /\ HandInv
  BY TypeStep DEF IInv
<1> DEFINE n == Len(pooled)
<1>b. n \in Nat /\ \A i \in 1 .. n : pooled[i] \in Units
  BY <1>a, Positions DEF TypeOK
<1>1. CASE UNCHANGED <<list, hist>>
  BY <1>1, <1>a DEF PoolShape, list, hist
<1>2. CASE AllocQueue
  <2>1. heap = {}
    BY <1>2, <1>a DEF AllocQueue, Step, PhaseInv, Before
  <2>2. n = 0
    BY <2>1, <1>a, <1>b DEF UnitOwnership
  <2> QED
    BY <1>2, <2>2 DEF AllocQueue, PoolShape, hist
<1>3. CASE DrainPool
  <2>1. CASE pool = NULL
    BY <1>3, <2>1, <1>a DEF DrainPool, PoolShape
  <2>2. CASE pool # NULL
    <3>1. n > 0 /\ pool = pooled[n]
      BY <2>2, <1>a, PoolPop
    <3>2. pooled' = SubSeq(pooled, 1, n - 1) /\ pool' = next[pool] /\ next' = next
      BY <1>3, <2>2 DEF DrainPool, PoolRest
    <3> QED
      BY <3>1, <3>2, <1>a, <1>b, PoppedShape
  <2> QED
    BY <2>1, <2>2
<1>4. CASE Drain
  BY <1>4, <1>a DEF Drain, PoolShape
<1>5. ASSUME NEW t \in Threads, AddAlloc(t) PROVE PoolShape'
  <2>1. CASE PoolTake(t)
    <3>1. n > 0 /\ pool = pooled[n]
      BY <2>1, <1>a, PoolPop DEF PoolTake
    <3>2. /\ pooled' = SubSeq(pooled, 1, n - 1) /\ pool' = next[pool]
          /\ next' = [next EXCEPT ![pool] = NULL]
      BY <2>1 DEF PoolTake
    <3> QED
      BY <3>1, <3>2, <1>a, <1>b, PoppedShape
  <2>2. ASSUME NEW u \in Units, Malloc(t, u) PROVE PoolShape'
    <3>1. n = 0
      BY <2>2, <1>a, <1>b, ThreadFacts DEF Malloc, PoolShape
    <3> QED
      BY <3>1, <2>2, <1>a DEF Malloc, PoolShape
  <2>3. CASE MallocFails(t)
    BY <2>3, <1>a DEF MallocFails, PoolShape
  <2> QED
    BY <1>5, <2>1, <2>2, <2>3 DEF AddAlloc, PoolAlloc
<1>6. ASSUME NEW t \in Threads, AddLink(t) PROVE PoolShape'
  <2>1. pooled' = pooled /\ pool' = pool /\ pc[t] = "add_link" /\ Link(mm[t])
    BY <1>6 DEF AddLink, Step
  <2>2. \A i \in 1 .. n : next'[pooled[i]] = next[pooled[i]]
    <3>1. CASE first = NULL
      BY <3>1, <2>1 DEF Link
    <3>2. CASE first # NULL
      <4>1. dropped = 0
        BY <2>1, <1>a, NothingDropped
      <4>2. Len(accepted) \in Queued /\ last = linked[Len(accepted)]
        BY <3>2, <4>1, <1>a, Positions DEF ListShape, Queued
      <4>3. \A i \in 1 .. n : pooled[i] # last
        BY <4>2, <1>a DEF UnitOwnership
      <4> QED
        BY <3>2, <4>3, <2>1, <1>a, <1>b DEF Link, TypeOK
    <3> QED
      BY <3>1, <3>2
  <2> QED
    BY <2>1, <2>2, <1>a DEF PoolShape
<1>7. ASSUME NEW w \in Workers, FetchUnlink(w) PROVE PoolShape'
  <2> DEFINE u == mm[w]
  <2>1. pc[w] = "fetch_unlink" /\ PoolFree(u)
    BY <1>7 DEF FetchUnlink, Step
  <2>2. Gone + 1 \in Queued /\ u = linked[Gone + 1] /\ u \in Units
    BY <2>1, <1>a, FirstUnit
  <2>3. \A i \in 1 .. n : pooled[i] # u
    BY <2>2, <1>a DEF UnitOwnership
  <2>4. free = 0 /\ free # WORKUNIT_POOL_SIZE
    BY <1>a, WorkQueueAssumption DEF TypeOK
  <2>5. /\ next' = [next EXCEPT ![u] = pool] /\ pool' = u
        /\ pooled' = Append(pooled, u)
    BY <2>1, <2>4 DEF PoolFree
  <2>6. /\ Len(pooled') = n + 1 /\ pooled'[n + 1] = u
        /\ \A i \in 1 .. n : pooled'[i] = pooled[i]
    BY <2>2, <2>5, <1>a, AppendFacts DEF TypeOK
  <2>7. /\ next'[u] = pool
        /\ \A i \in 1 .. n : next'[pooled[i]] = next[pooled[i]]
    BY <2>2, <2>3, <2>5, <1>a, <1>b DEF TypeOK
  <2>8. pool = IF n = 0 THEN NULL ELSE pooled[n]
    BY <1>a DEF PoolShape
  <2>9. ASSUME NEW i \in 1 .. n + 1
        PROVE  next'[pooled'[i]] = IF i > 1 THEN pooled'[i - 1] ELSE NULL
    <3>1. CASE i = n + 1
      BY <3>1, <2>6, <2>7, <2>8, <1>b
    <3>2. CASE i \in 1 .. n
      BY <3>2, <2>6, <2>7, <1>a, <1>b DEF PoolShape
    <3> QED
      BY <3>1, <3>2, <1>b
  <2> QED
    BY <2>5, <2>6, <2>9, <1>b DEF PoolShape
<1> QED
  BY <1>1, <1>2, <1>3, <1>4, <1>5, <1>6, <1>7, ListFrame

(* At most one thread has a unit in hand. *)
LEMMA OneHand ==
  ASSUME MutualExclusion, NEW s \in Threads, NEW t \in Threads,
         pc[s] \in LockedPcs, pc[t] \in LockedPcs
  PROVE  s = t
  BY DEF MutualExclusion

(* Every unit stays in exactly one place. *)
LEMMA OwnershipStep == IInv /\ [Next]_vars => UnitOwnership'
<1> SUFFICES ASSUME IInv, [Next]_vars PROVE UnitOwnership'
  OBVIOUS
<1>a. /\ TypeOK /\ TypeOK' /\ ListShape /\ PoolShape /\ UnitOwnership
      /\ PhaseInv /\ OfferInv /\ HandInv /\ MutualExclusion
  BY TypeStep DEF IInv
<1> DEFINE n == Len(pooled)
           Same == \A t \in Threads : /\ pc'[t] = "add_link" <=> pc[t] = "add_link"
                                      /\ pc[t] = "add_link" => mm'[t] = mm[t]
<1>b. /\ n \in Nat /\ \A i \in 1 .. n : pooled[i] \in Units
      /\ pc \in [Threads -> OwnerPcs \cup WorkerPcs]
      /\ mm \in [Threads -> Units \cup {NULL}]
  BY <1>a, Positions, SMTT(30) DEF TypeOK, PcOK
<1>c. /\ Len(accepted) \in Nat /\ Len(fetched) \in Nat /\ dropped \in Nat
      /\ Len(linked) = Len(accepted) /\ Gone <= Len(accepted) /\ Gone \in Nat
  BY <1>a, Positions DEF ListShape
<1>d. Same \/ \E t \in Threads : AddAlloc(t) \/ AddLink(t)
  BY HandFrame
<1>1. CASE UNCHANGED <<list, hist>> /\ Same
  BY <1>1, <1>a DEF UnitOwnership, Gone, Queued, list, hist
<1>2. CASE AllocQueue /\ Same
  BY <1>2, <1>a, SMTT(30) DEF AllocQueue, UnitOwnership, Gone, Queued, hist
<1>3. CASE DrainPool /\ Same
  <2>1. CASE pool = NULL
    BY <1>3, <2>1, <1>a DEF DrainPool, UnitOwnership, Gone, Queued
  <2>2. CASE pool # NULL
    <3>1. n > 0 /\ pool = pooled[n]
      BY <2>2, <1>a, PoolPop
    <3>2. pooled' = SubSeq(pooled, 1, n - 1) /\ heap' = heap \ {pool}
      BY <1>3, <2>2 DEF DrainPool
    <3>3. Len(pooled') = n - 1 /\ \A i \in 1 .. n - 1 : pooled'[i] = pooled[i]
      BY <3>1, <3>2, <1>a, <1>b, FrontFacts DEF TypeOK
    <3>4. Queued' = Queued /\ linked' = linked
      BY <1>3 DEF DrainPool, Gone, Queued
    <3>5. \A i \in 1 .. n - 1 : pooled[i] # pool
      BY <3>1, <1>a, <1>b DEF UnitOwnership
    <3>6. \A i \in Queued : linked[i] # pool
      BY <3>1, <1>a, <1>b DEF UnitOwnership
    <3>7. \A t \in Threads : pc[t] = "add_link" => mm[t] # pool
      BY <3>1, <1>a, <1>b DEF UnitOwnership
    <3>8. \A u \in heap' : \/ \E i \in Queued : linked[i] = u
                           \/ \E j \in 1 .. n - 1 : pooled[j] = u
                           \/ \E t \in Threads : pc[t] = "add_link" /\ mm[t] = u
      BY <3>1, <3>2, <1>a, <1>b DEF UnitOwnership
    <3> QED
      BY <1>3, <3>2, <3>3, <3>4, <3>5, <3>6, <3>7, <3>8, <1>a, <1>b, SMTT(30)
         DEF UnitOwnership
  <2> QED
    BY <2>1, <2>2
<1>4. CASE Drain /\ Same
  <2>1. CASE first = NULL
    BY <1>4, <2>1, <1>a DEF Drain, UnitOwnership, Gone, Queued
  <2>2. CASE first # NULL
    <3>1. /\ heap' = heap \ {first} /\ dropped' = dropped + 1
          /\ UNCHANGED <<linked, accepted, fetched, pooled>>
      BY <1>4, <2>2 DEF Drain
    <3>2. Gone < Len(accepted) /\ first = linked[Gone + 1] /\ Gone + 1 \in Queued
      BY <2>2, <1>a, <1>c DEF ListShape, Queued
    <3>3. Queued' = Queued \ {Gone + 1}
      BY <3>1, <3>2, <1>c DEF Queued, Gone
    <3>4. \A i \in Queued' : linked[i] # first
      BY <3>2, <3>3, <1>a DEF UnitOwnership
    <3>5. \A j \in 1 .. n : pooled[j] # first
      BY <3>2, <1>a DEF UnitOwnership
    <3>6. \A t \in Threads : pc[t] = "add_link" => mm[t] # first
      BY <3>2, <1>a DEF UnitOwnership
    <3>7. \A u \in heap' : \/ \E i \in Queued' : linked[i] = u
                           \/ \E j \in 1 .. n : pooled[j] = u
                           \/ \E t \in Threads : pc[t] = "add_link" /\ mm[t] = u
      BY <3>1, <3>2, <3>3, <1>a DEF UnitOwnership
    <3> QED
      BY <1>4, <3>1, <3>3, <3>4, <3>5, <3>6, <3>7, <1>a DEF UnitOwnership
  <2> QED
    BY <2>1, <2>2
<1>5. ASSUME NEW t \in Threads, AddAlloc(t) PROVE UnitOwnership'
  <2>1. /\ pc[t] = "add_alloc" /\ Queued' = Queued /\ linked' = linked
        /\ \A s \in Threads \ {t} : pc'[s] = pc[s] /\ mm'[s] = mm[s]
        /\ pc'[t] = "add_link" <=> mm'[t] # NULL
    BY <1>5, <1>b
       DEF AddAlloc, PoolAlloc, PoolTake, Malloc, MallocFails, Step, Goto, Gone, Queued
  <2>2. \A s \in Threads : pc[s] # "add_link"
    BY <2>1, <1>a, OneHand DEF LockedPcs
  <2>3. \A s \in Threads \ {t} : pc'[s] # "add_link"
    BY <2>1, <2>2
  <2>4. CASE PoolTake(t)
    <3>1. n > 0 /\ pool = pooled[n]
      BY <2>4, <1>a, PoolPop DEF PoolTake
    <3>2. pooled' = SubSeq(pooled, 1, n - 1) /\ heap' = heap /\ mm'[t] = pool
      BY <2>4, <1>b DEF PoolTake
    <3>3. Len(pooled') = n - 1 /\ \A i \in 1 .. n - 1 : pooled'[i] = pooled[i]
      BY <3>1, <3>2, <1>a, <1>b, FrontFacts DEF TypeOK
    <3>4. \A i \in 1 .. n - 1 : pooled[i] # pool
      BY <3>1, <1>a, <1>b DEF UnitOwnership
    <3>5. (\A i \in Queued : linked[i] # pool) /\ pool \in heap /\ pool # NULL
      BY <2>4, <3>1, <1>a, <1>b DEF UnitOwnership, PoolTake
    <3>6. \A u \in heap : \/ \E i \in Queued : linked[i] = u
                          \/ \E j \in 1 .. n - 1 : pooled[j] = u
                          \/ u = pool
      BY <2>2, <3>1, <1>a, <1>b DEF UnitOwnership
    <3>7. pc'[t] = "add_link"
      BY <2>1, <3>2, <3>5
    <3> QED
      BY <2>1, <2>3, <3>2, <3>3, <3>4, <3>5, <3>6, <3>7, <1>a, <1>b, SMTT(30) DEF UnitOwnership
  <2>5. ASSUME NEW u \in Units, Malloc(t, u) PROVE UnitOwnership'
    <3>1. /\ u \notin heap /\ heap' = heap \cup {u} /\ mm'[t] = u /\ u # NULL
          /\ pooled' = pooled
      BY <2>5, <1>b, ThreadFacts DEF Malloc
    <3>2. pc'[t] = "add_link"
      BY <2>1, <3>1
    <3> QED
      BY <2>1, <2>2, <2>3, <3>1, <3>2, <1>a DEF UnitOwnership
  <2>6. CASE MallocFails(t)
    <3>1. mm'[t] = NULL /\ heap' = heap /\ pooled' = pooled
      BY <2>6, <1>b DEF MallocFails
    <3>2. pc'[t] # "add_link"
      BY <2>1, <3>1
    <3> QED
      BY <2>1, <2>2, <2>3, <3>1, <3>2, <1>a DEF UnitOwnership
  <2> QED
    BY <1>5, <2>4, <2>5, <2>6 DEF AddAlloc, PoolAlloc
<1>6. ASSUME NEW t \in Threads, AddLink(t) PROVE UnitOwnership'
  <2> DEFINE u == mm[t]
             m == Len(accepted)
  <2>1. /\ pc[t] = "add_link" /\ heap' = heap /\ pooled' = pooled /\ mm' = mm
        /\ pc'[t] = "add_unlock" /\ \A s \in Threads \ {t} : pc'[s] = pc[s]
        /\ UNCHANGED <<fetched, dropped>>
        /\ linked' = Append(linked, u) /\ accepted' = Append(accepted, arg[t])
    BY <1>6, <1>b DEF AddLink, Step, Goto, local
  <2>2. \A s \in Threads : pc[s] = "add_link" => s = t
    BY <2>1, <1>a, OneHand DEF LockedPcs
  <2>3. \A s \in Threads : pc'[s] # "add_link"
    BY <2>1, <2>2
  <2>4. u \in Units /\ arg[t] \in Tasks
    BY <2>1, <1>a, <1>b DEF OfferInv, HandInv, AddPcs
  <2>5. /\ Len(accepted') = m + 1 /\ linked'[m + 1] = u
        /\ \A i \in 1 .. m : linked'[i] = linked[i]
    BY <2>1, <2>4, <1>a, <1>c, AppendFacts DEF TypeOK
  <2>6. Gone' = Gone /\ Queued' = Queued \cup {m + 1} /\ Queued \subseteq 1 .. m
    BY <2>1, <2>5, <1>c DEF Gone, Queued
  <2>7. /\ \A i \in Queued : linked'[i] = linked[i] /\ linked[i] # u
        /\ \A j \in 1 .. n : pooled[j] # u
        /\ u \in heap
    BY <2>1, <2>5, <2>6, <1>a DEF UnitOwnership
  <2>8. \A i, j \in Queued' : linked'[i] = linked'[j] => i = j
    BY <2>5, <2>6, <2>7, <1>a DEF UnitOwnership
  <2>9. \A i \in Queued' : linked'[i] \in heap
                           /\ \A j \in 1 .. n : linked'[i] # pooled[j]
    BY <2>5, <2>6, <2>7, <1>a DEF UnitOwnership
  <2>10. \A v \in heap : \/ \E i \in Queued' : linked'[i] = v
                         \/ \E j \in 1 .. n : pooled[j] = v
    BY <2>2, <2>5, <2>6, <2>7, <1>a DEF UnitOwnership
  <2>11. /\ \A i, j \in 1 .. n : pooled[i] = pooled[j] => i = j
         /\ \A j \in 1 .. n : pooled[j] \in heap
    BY <1>a DEF UnitOwnership
  <2>12. Len(pooled') = n /\ pooled' = pooled /\ heap' = heap
    BY <2>1
  <2> HIDE DEF u, n
  <2> QED
    BY <2>3, <2>8, <2>9, <2>10, <2>11, <2>12 DEF UnitOwnership
<1>7. ASSUME NEW w \in Workers, FetchUnlink(w) PROVE UnitOwnership'
  <2> DEFINE u == mm[w]
  <2>1. /\ pc[w] = "fetch_unlink" /\ PoolFree(u) /\ w \in Threads
        /\ UNCHANGED <<mm, linked, accepted, dropped>>
        /\ \A s \in Threads \ {w} : pc'[s] = pc[s]
        /\ pc'[w] = "fetch_unlock" /\ fetched' = Append(fetched, args[u])
    BY <1>7, <1>b, ThreadFacts DEF FetchUnlink, Step, Goto, Copy
  <2>2. /\ Gone + 1 \in Queued /\ u = linked[Gone + 1] /\ u \in Units
        /\ args[u] \in Tasks
    BY <2>1, <1>a, FirstUnit
  <2>3. \A s \in Threads : pc[s] # "add_link"
    BY <2>1, <1>a, OneHand DEF LockedPcs
  <2>4. \A s \in Threads : pc'[s] # "add_link"
    BY <2>1, <2>3
  <2>5. free = 0 /\ free # WORKUNIT_POOL_SIZE
    BY <1>a, WorkQueueAssumption DEF TypeOK
  <2>6. pooled' = Append(pooled, u) /\ heap' = heap
    BY <2>1, <2>5 DEF PoolFree
  <2>7. /\ Len(pooled') = n + 1 /\ pooled'[n + 1] = u
        /\ \A i \in 1 .. n : pooled'[i] = pooled[i]
    BY <2>2, <2>6, <1>a, AppendFacts DEF TypeOK
  <2>8. Gone' = Gone + 1
    BY <2>1, <2>2, <1>a, <1>c, AppendFacts DEF Gone, TypeOK
  <2>9. Queued' = Queued \ {Gone + 1}
    BY <2>1, <2>2, <2>8, <1>c DEF Queued
  <2>10. /\ \A i \in Queued' : linked[i] # u
         /\ \A j \in 1 .. n : pooled[j] # u
         /\ u \in heap
    BY <2>2, <2>9, <1>a DEF UnitOwnership
  <2>11. \A i, j \in 1 .. n + 1 : pooled'[i] = pooled'[j] => i = j
    BY <2>7, <2>10, <1>a, <1>b DEF UnitOwnership
  <2>12. \A i \in Queued', j \in 1 .. n + 1 : linked[i] # pooled'[j]
    BY <2>7, <2>9, <2>10, <1>a, <1>b DEF UnitOwnership
  <2>13. \A j \in 1 .. n + 1 : pooled'[j] \in heap
    BY <2>7, <2>10, <1>a, <1>b DEF UnitOwnership
  <2>14. \A v \in heap : \/ \E i \in Queued' : linked[i] = v
                         \/ \E j \in 1 .. n + 1 : pooled'[j] = v
    <3> SUFFICES ASSUME NEW v \in heap
                 PROVE  \/ \E i \in Queued' : linked[i] = v
                        \/ \E j \in 1 .. n + 1 : pooled'[j] = v
      OBVIOUS
    <3>1. CASE v = u
      BY <3>1, <2>7, <1>b
    <3>2. CASE v # u
      <4>1. (\E i \in Queued : linked[i] = v) \/ (\E j \in 1 .. n : pooled[j] = v)
        BY <2>3, <1>a DEF UnitOwnership
      <4> QED
        BY <4>1, <3>2, <2>2, <2>7, <2>9, <1>b
    <3> QED
      BY <3>1, <3>2
  <2>15. /\ \A i, j \in Queued' : linked[i] = linked[j] => i = j
         /\ \A i \in Queued' : linked[i] \in heap
    BY <2>9, <1>a DEF UnitOwnership
  <2>16. Len(pooled') = n + 1 /\ linked' = linked /\ heap' = heap
    BY <2>1, <2>6, <2>7
  <2> HIDE DEF u, n
  <2> QED
    BY <2>4, <2>11, <2>12, <2>13, <2>14, <2>15, <2>16 DEF UnitOwnership
<1> QED
  <2>1. \/ UNCHANGED <<list, hist>> \/ AllocQueue \/ Drain \/ DrainPool
        \/ \E w \in Workers : FetchUnlink(w)
        \/ \E t \in Threads : AddAlloc(t) \/ AddLink(t)
    BY ListFrame
  <2> HIDE DEF Same
  <2> QED
    BY <2>1, <1>d, <1>1, <1>2, <1>3, <1>4, <1>5, <1>6, <1>7

(* The steps that change what was offered, accepted, fetched or returned. *)
LEMMA OfferFrame ==
  ASSUME [Next]_vars
  PROVE  \/ UNCHANGED <<accepted, fetched, result>>
         \/ \E t \in Threads : \/ \E x \in Tasks : Additem(t, x)
                               \/ AddCheck(t) \/ AddLink(t) \/ AddUnlock(t)
         \/ \E w \in Workers : FetchUnlink(w)
<1> USE DEF hist, book
<1>1. CASE AllocNext
  BY <1>1 DEF AllocNext, AllocFails, AllocQueue, CreateWorker, AllocReturns,
     CreateFails, RollbackJoinsNoThread, RollbackJoins, RollbackFrees
<1>2. CASE ReleaseCloses \/ ReleaseSteps
  BY <1>2 DEF ReleaseCloses, ReleaseSteps, ReleaseJoins, ReleaseJoined, Drain,
     DrainPool, FreeQueue
<1>3. ASSUME NEW t \in Threads,
             (\E x \in Tasks : Additem(t, x)) \/ AddLock(t) \/ AddSteps(t)
      PROVE  \/ UNCHANGED <<accepted, fetched, result>>
             \/ \E x \in Tasks : Additem(t, x)
             \/ AddCheck(t) \/ AddLink(t) \/ AddUnlock(t)
  BY <1>3 DEF AddLock, AddSteps, AddAlloc
<1>4. ASSUME NEW w \in Workers, FetchLock(w) \/ FetchSteps(w)
      PROVE  UNCHANGED <<accepted, fetched, result>> \/ FetchUnlink(w)
  BY <1>4 DEF FetchLock, FetchSteps, Loop, FetchFirst, FetchUnlock, TaskReturns
<1>5. ASSUME NEW c \in Clients,
             Wait(c) \/ WaitLock(c) \/ WaitRead(c) \/ WaitUnlock(c)
      PROVE  UNCHANGED <<accepted, fetched, result>>
  BY <1>5 DEF Wait, WaitLock, WaitRead, WaitUnlock
<1>6. CASE UNCHANGED vars
  BY <1>6 DEF vars
<1> QED
  BY <1>1, <1>2, <1>3, <1>4, <1>5, <1>6 DEF Next, Halted

(* The link step accepts a task that was not accepted before. *)
LEMMA LinkFacts ==
  ASSUME TypeOK, OfferInv, NEW t \in Threads, AddLink(t)
  PROVE  /\ arg[t] \in Tasks /\ result[arg[t]] = "called"
         /\ arg[t] \notin Range(accepted)
         /\ Range(accepted') = Range(accepted) \cup {arg[t]}
         /\ Len(accepted') = Len(accepted) + 1 /\ Len(accepted) \in Nat
         /\ accepted'[Len(accepted) + 1] = arg[t]
         /\ \A i \in 1 .. Len(accepted) : accepted'[i] = accepted[i]
<1>1. /\ arg[t] \in Tasks /\ result[arg[t]] = "called"
      /\ arg[t] \notin Range(accepted)
  BY DEF AddLink, Step, OfferInv, AddPcs
<1>2. accepted' = Append(accepted, arg[t]) /\ accepted \in Seq(Tasks)
  BY DEF AddLink, TypeOK
<1> QED
  BY <1>1, <1>2, AppendFacts, RangeFacts

(* The unlink step fetches the oldest accepted task not fetched yet. *)
LEMMA UnlinkFacts ==
  ASSUME TypeOK, ListShape, HandInv, PhaseInv, NEW w \in Workers, FetchUnlink(w)
  PROVE  /\ Len(fetched) \in Nat /\ Len(fetched) < Len(accepted)
         /\ unit' = [unit EXCEPT ![w] = accepted[Len(fetched) + 1]]
         /\ Range(fetched') = Range(fetched) \cup {accepted[Len(fetched) + 1]}
         /\ Len(fetched') = Len(fetched) + 1
         /\ fetched'[Len(fetched) + 1] = accepted[Len(fetched) + 1]
         /\ \A i \in 1 .. Len(fetched) : fetched'[i] = fetched[i]
<1>1. pc[w] = "fetch_unlink" /\ w \in Threads
  BY ThreadFacts DEF FetchUnlink, Step
<1>2. dropped = 0
  BY <1>1, NothingDropped
<1>3. Gone = Len(fetched) /\ Len(fetched) \in Nat
  BY <1>2, Positions DEF Gone
<1>4. /\ Len(fetched) < Len(accepted) /\ args[mm[w]] = accepted[Len(fetched) + 1]
      /\ args[mm[w]] \in Tasks
  BY <1>1, <1>3, FirstUnit
<1>5. /\ fetched' = Append(fetched, args[mm[w]]) /\ fetched \in Seq(Tasks)
      /\ unit' = [unit EXCEPT ![w] = args[mm[w]]]
  BY DEF FetchUnlink, Copy, TypeOK
<1> QED
  BY <1>3, <1>4, <1>5, AppendFacts

(* Tasks leave the queue in the order they entered it, once each. *)
LEMMA FifoStep == IInv /\ [Next]_vars => FifoExactlyOnce'
<1> SUFFICES ASSUME IInv, [Next]_vars PROVE FifoExactlyOnce'
  OBVIOUS
<1>a. /\ TypeOK /\ ListShape /\ HandInv /\ PhaseInv /\ OfferInv /\ FifoExactlyOnce
  BY DEF IInv
<1>b. /\ Len(accepted) \in Nat /\ Len(fetched) \in Nat
      /\ \A x : x \in Range(accepted) <=> \E i \in 1 .. Len(accepted) : accepted[i] = x
      /\ result \in [Tasks -> {"unset", "called", "added", "nomem", "closed"}]
  BY <1>a, Positions, RangeFacts DEF TypeOK
<1>1. CASE UNCHANGED <<accepted, fetched, result>>
  BY <1>1, <1>a DEF FifoExactlyOnce
<1>2. ASSUME NEW t \in Threads, NEW x \in Tasks, Additem(t, x)
      PROVE  FifoExactlyOnce'
  BY <1>2, <1>a, <1>b DEF FifoExactlyOnce, Additem, hist
<1>3. ASSUME NEW t \in Threads, AddCheck(t) PROVE FifoExactlyOnce'
  <2>1. arg[t] \in Tasks /\ arg[t] \notin Range(accepted)
    BY <1>3, <1>a DEF AddCheck, Step, OfferInv, AddPcs
  <2>2. /\ result' = result \/ result' = [result EXCEPT ![arg[t]] = "closed"]
        /\ UNCHANGED <<accepted, fetched>>
    BY <1>3 DEF AddCheck, hist
  <2> QED
    BY <2>1, <2>2, <1>a, <1>b DEF FifoExactlyOnce
<1>4. ASSUME NEW t \in Threads, AddUnlock(t) PROVE FifoExactlyOnce'
  <2>1. arg[t] \in Tasks /\ (mm[t] # NULL <=> arg[t] \in Range(accepted))
    BY <1>4, <1>a DEF AddUnlock, Step, OfferInv, AddPcs
  <2>2. /\ result' = [result EXCEPT ![arg[t]] =
                        IF mm[t] # NULL THEN "added" ELSE "nomem"]
        /\ UNCHANGED <<accepted, fetched>>
    BY <1>4 DEF AddUnlock, hist
  <2> QED
    BY <2>1, <2>2, <1>a, <1>b DEF FifoExactlyOnce
<1>5. ASSUME NEW t \in Threads, AddLink(t) PROVE FifoExactlyOnce'
  <2>1. UNCHANGED <<fetched, result>>
    BY <1>5 DEF AddLink, book
  <2>2. \A i, j \in 1 .. Len(accepted') : accepted'[i] = accepted'[j] => i = j
    BY <1>5, <1>a, <1>b, LinkFacts DEF FifoExactlyOnce
  <2>3. /\ Len(fetched') <= Len(accepted')
        /\ \A i \in 1 .. Len(fetched') : fetched'[i] = accepted'[i]
    BY <1>5, <2>1, <1>a, <1>b, LinkFacts DEF FifoExactlyOnce
  <2>4. \A x \in Tasks :
          /\ result'[x] = "added" => x \in Range(accepted')
          /\ result'[x] \in {"nomem", "closed"} => x \notin Range(accepted')
    BY <1>5, <2>1, <1>a, LinkFacts DEF FifoExactlyOnce
  <2> QED
    BY <2>2, <2>3, <2>4 DEF FifoExactlyOnce
<1>6. ASSUME NEW w \in Workers, FetchUnlink(w) PROVE FifoExactlyOnce'
  <2>1. UNCHANGED <<accepted, result>>
    BY <1>6 DEF FetchUnlink, book
  <2> QED
    BY <1>6, <2>1, <1>a, <1>b, UnlinkFacts DEF FifoExactlyOnce
<1> QED
  BY <1>1, <1>2, <1>3, <1>4, <1>5, <1>6, OfferFrame

(* A step outside additem leaves every thread inside additem alone. *)
LEMMA AddFrame ==
  ASSUME IInv, [Next]_vars
  PROVE  \/ /\ UNCHANGED <<arg, result, accepted>>
            /\ \A t \in Threads : pc'[t] \in AddPcs => /\ pc'[t] = pc[t]
                                                       /\ mm'[t] = mm[t]
         \/ \E t \in Threads : \/ \E x \in Tasks : Additem(t, x)
                               \/ AddLock(t) \/ AddSteps(t)
<1> DEFINE Same == /\ UNCHANGED <<arg, result, accepted>>
                   /\ \A t \in Threads : pc'[t] \in AddPcs => /\ pc'[t] = pc[t]
                                                              /\ mm'[t] = mm[t]
<1>a. /\ core \in 0 .. NCORE
      /\ pc \in [Threads -> OwnerPcs \cup WorkerPcs]
      /\ mm \in [Threads -> Units \cup {NULL}]
  BY DEF IInv, TypeOK, PcOK
<1>b. Owner \in Threads /\ Workers \subseteq Threads /\ Clients \subseteq Threads
  BY ThreadFacts
<1> USE <1>a, <1>b DEF Step, Goto, ctl, list, local, hist, book, AddPcs
<1>1. ASSUME AllocFails PROVE Same
  BY <1>1 DEF AllocFails
<1>2. ASSUME AllocQueue PROVE Same
  BY <1>2 DEF AllocQueue
<1>3. ASSUME CreateWorker PROVE Same
  <2>1. core - 1 \in Threads
    BY <1>3, ThreadFacts DEF CreateWorker, ToCreate, Workers
  <2> QED
    BY <1>3, <2>1 DEF CreateWorker
<1>4. ASSUME AllocReturns PROVE Same
  BY <1>4 DEF AllocReturns
<1>5. ASSUME CreateFails PROVE Same
  BY <1>5 DEF CreateFails
<1>6. ASSUME RollbackJoinsNoThread PROVE Same
  BY <1>6 DEF RollbackJoinsNoThread
<1>7. ASSUME RollbackJoins PROVE Same
  BY <1>7 DEF RollbackJoins
<1>8. ASSUME RollbackFrees PROVE Same
  BY <1>8 DEF RollbackFrees
<1>9. ASSUME ReleaseCloses PROVE Same
  BY <1>9 DEF ReleaseCloses
<1>10. ASSUME ReleaseJoins PROVE Same
  BY <1>10 DEF ReleaseJoins
<1>11. ASSUME ReleaseJoined PROVE Same
  BY <1>11 DEF ReleaseJoined
<1>12. ASSUME Drain PROVE Same
  BY <1>12 DEF Drain
<1>13. ASSUME DrainPool PROVE Same
  BY <1>13 DEF DrainPool
<1>14. ASSUME FreeQueue PROVE Same
  BY <1>14 DEF FreeQueue
<1>15. ASSUME NEW w \in Workers, FetchLock(w) PROVE Same
  BY <1>15 DEF FetchLock
<1>16. ASSUME NEW w \in Workers, Loop(w) PROVE Same
  BY <1>16 DEF Loop, KeepLooping
<1>17. ASSUME NEW w \in Workers, FetchFirst(w) PROVE Same
  BY <1>17 DEF FetchFirst
<1>18. ASSUME NEW w \in Workers, FetchUnlink(w) PROVE Same
  BY <1>18 DEF FetchUnlink
<1>19. ASSUME NEW w \in Workers, FetchUnlock(w) PROVE Same
  BY <1>19 DEF FetchUnlock, AfterFetch
<1>20. ASSUME NEW w \in Workers, TaskReturns(w) PROVE Same
  BY <1>20 DEF TaskReturns
<1>21. ASSUME NEW c \in Clients, Wait(c) PROVE Same
  BY <1>21 DEF Wait, MayCall
<1>22. ASSUME NEW c \in Clients, WaitLock(c) PROVE Same
  BY <1>22 DEF WaitLock
<1>23. ASSUME NEW c \in Clients, WaitRead(c) PROVE Same
  BY <1>23 DEF WaitRead, WaitTest
<1>24. ASSUME NEW c \in Clients, WaitUnlock(c) PROVE Same
  BY <1>24 DEF WaitUnlock
<1>25. CASE UNCHANGED vars
  BY <1>25 DEF vars
<1> QED
  BY <1>1, <1>2, <1>3, <1>4, <1>5, <1>6, <1>7, <1>8, <1>9, <1>10, <1>11,
     <1>12, <1>13, <1>14, <1>15, <1>16, <1>17, <1>18, <1>19, <1>20, <1>21,
     <1>22, <1>23, <1>24, <1>25
     DEF Next, AllocNext, ReleaseSteps, FetchSteps, Halted

(* Offers stay exclusive and are settled once. *)
LEMMA OfferStep == IInv /\ [Next]_vars => OfferInv'
<1> SUFFICES ASSUME IInv, [Next]_vars PROVE OfferInv'
  OBVIOUS
<1>a. /\ TypeOK /\ OfferInv /\ HandInv
      /\ pc \in [Threads -> OwnerPcs \cup WorkerPcs]
      /\ mm \in [Threads -> Units \cup {NULL}]
      /\ arg \in [Threads -> Tasks \cup {NULL}]
      /\ result \in [Tasks -> {"unset", "called", "added", "nomem", "closed"}]
  BY DEF IInv, TypeOK, PcOK
<1>1. CASE /\ UNCHANGED <<arg, result, accepted>>
           /\ \A t \in Threads : pc'[t] \in AddPcs => /\ pc'[t] = pc[t]
                                                      /\ mm'[t] = mm[t]
  BY <1>1, <1>a DEF OfferInv, AddPcs
<1>2. ASSUME NEW t \in Threads, NEW x \in Tasks, Additem(t, x)
      PROVE  OfferInv'
  <2>1. /\ pc'[t] = "add_check" /\ arg'[t] = x /\ result'[x] = "called"
        /\ \A s \in Threads \ {t} : pc'[s] = pc[s] /\ arg'[s] = arg[s]
        /\ \A y \in Tasks \ {x} : result'[y] = result[y]
        /\ UNCHANGED <<accepted, mm>>
    BY <1>2, <1>a DEF Additem, Goto, hist
  <2>2. result[x] = "unset" /\ x \notin Range(accepted)
    BY <1>2, <1>a DEF Additem, OfferInv
  <2>3. \A s \in Threads : pc[s] \in AddPcs => arg[s] # x
    BY <2>2, <1>a DEF OfferInv
  <2> QED
    BY <2>1, <2>2, <2>3, <1>a DEF OfferInv, AddPcs
<1>3. ASSUME NEW t \in Threads, AddCheck(t) PROVE OfferInv'
  <2>1. /\ pc[t] = "add_check" /\ \A s \in Threads \ {t} : pc'[s] = pc[s]
        /\ UNCHANGED <<accepted, mm, arg>>
    BY <1>3, <1>a DEF AddCheck, Step, Goto, hist, local
  <2>2. CASE pc'[t] = "add_lock" /\ result' = result
    BY <2>1, <2>2, <1>a DEF OfferInv, AddPcs
  <2>3. CASE /\ pc'[t] \in {"run", "idle"}
             /\ result' = [result EXCEPT ![arg[t]] = "closed"]
    <3>1. arg[t] \in Tasks
      BY <2>1, <1>a DEF OfferInv, AddPcs
    <3>2. \A s \in Threads \ {t} : pc[s] \in AddPcs => arg[s] # arg[t]
      BY <2>1, <1>a DEF OfferInv, AddPcs
    <3> QED
      BY <2>1, <2>3, <3>1, <3>2, <1>a DEF OfferInv, AddPcs
  <2> QED
    BY <1>3, <2>2, <2>3, <1>a DEF AddCheck, Step, Goto, Caller
<1>4. ASSUME NEW t \in Threads, AddLock(t) PROVE OfferInv'
  BY <1>4, <1>a DEF AddLock, Step, Goto, OfferInv, AddPcs, local, hist, book
<1>5. ASSUME NEW t \in Threads, AddAlloc(t) PROVE OfferInv'
  <2>1. /\ pc[t] = "add_alloc" /\ UNCHANGED <<accepted, arg, result>>
        /\ \A s \in Threads \ {t} : pc'[s] = pc[s] /\ mm'[s] = mm[s]
        /\ pc'[t] = IF mm'[t] # NULL THEN "add_link" ELSE "add_unlock"
    BY <1>5, <1>a DEF AddAlloc, PoolAlloc, PoolTake, Malloc, MallocFails, Step,
       Goto, book
  <2> QED
    BY <2>1, <1>a DEF OfferInv, AddPcs
<1>6. ASSUME NEW t \in Threads, AddLink(t) PROVE OfferInv'
  <2>1. /\ pc[t] = "add_link" /\ pc'[t] = "add_unlock"
        /\ \A s \in Threads \ {t} : pc'[s] = pc[s]
        /\ UNCHANGED <<mm, arg, result>>
    BY <1>6, <1>a DEF AddLink, Step, Goto, local, book
  <2>2. /\ Range(accepted') = Range(accepted) \cup {arg[t]}
        /\ arg[t] \in Tasks /\ result[arg[t]] = "called"
    BY <1>6, <1>a, LinkFacts
  <2>3. mm[t] # NULL
    BY <2>1, <1>a DEF HandInv
  <2> QED
    BY <2>1, <2>2, <2>3, <1>a DEF OfferInv, AddPcs
<1>7. ASSUME NEW t \in Threads, AddUnlock(t) PROVE OfferInv'
  <2>1. /\ pc[t] = "add_unlock" /\ pc'[t] \in {"run", "idle"}
        /\ \A s \in Threads \ {t} : pc'[s] = pc[s]
        /\ UNCHANGED <<accepted, mm, arg>>
        /\ result' = [result EXCEPT ![arg[t]] =
                        IF mm[t] # NULL THEN "added" ELSE "nomem"]
    BY <1>7, <1>a DEF AddUnlock, Step, Goto, Caller, hist, local
  <2>2. arg[t] \in Tasks
    BY <2>1, <1>a DEF OfferInv, AddPcs
  <2>3. \A s \in Threads \ {t} : pc[s] \in AddPcs => arg[s] # arg[t]
    BY <2>1, <1>a DEF OfferInv, AddPcs
  <2> QED
    BY <2>1, <2>2, <2>3, <1>a DEF OfferInv, AddPcs
<1> QED
  BY <1>1, <1>2, <1>3, <1>4, <1>5, <1>6, <1>7, AddFrame DEF AddSteps

(* Only fetch's read of the first unit makes a worker about to unlink. *)
LEMMA FetchFrame ==
  ASSUME IInv, [Next]_vars
  PROVE  \/ \A t \in Threads : pc'[t] = "fetch_unlink" =>
                                 pc[t] = "fetch_unlink" /\ mm'[t] = mm[t]
         \/ \E w \in Workers : FetchFirst(w)
<1> DEFINE Same == \A t \in Threads : pc'[t] = "fetch_unlink" =>
                                        pc[t] = "fetch_unlink" /\ mm'[t] = mm[t]
<1>a. /\ core \in 0 .. NCORE
      /\ pc \in [Threads -> OwnerPcs \cup WorkerPcs]
      /\ mm \in [Threads -> Units \cup {NULL}]
  BY DEF IInv, TypeOK, PcOK
<1>b. Owner \in Threads /\ Workers \subseteq Threads /\ Clients \subseteq Threads
  BY ThreadFacts
<1> USE <1>a, <1>b DEF Step, Goto, ctl, list, local, hist, book
<1>1. ASSUME AllocFails PROVE Same
  BY <1>1 DEF AllocFails
<1>2. ASSUME AllocQueue PROVE Same
  BY <1>2 DEF AllocQueue
<1>3. ASSUME CreateWorker PROVE Same
  <2>1. core - 1 \in Threads
    BY <1>3, ThreadFacts DEF CreateWorker, ToCreate, Workers
  <2> QED
    BY <1>3, <2>1 DEF CreateWorker
<1>4. ASSUME AllocReturns PROVE Same
  BY <1>4 DEF AllocReturns
<1>5. ASSUME CreateFails PROVE Same
  BY <1>5 DEF CreateFails
<1>6. ASSUME RollbackJoinsNoThread PROVE Same
  BY <1>6 DEF RollbackJoinsNoThread
<1>7. ASSUME RollbackJoins PROVE Same
  BY <1>7 DEF RollbackJoins
<1>8. ASSUME RollbackFrees PROVE Same
  BY <1>8 DEF RollbackFrees
<1>9. ASSUME ReleaseCloses PROVE Same
  BY <1>9 DEF ReleaseCloses
<1>10. ASSUME ReleaseJoins PROVE Same
  BY <1>10 DEF ReleaseJoins
<1>11. ASSUME ReleaseJoined PROVE Same
  BY <1>11 DEF ReleaseJoined
<1>12. ASSUME Drain PROVE Same
  BY <1>12 DEF Drain
<1>13. ASSUME DrainPool PROVE Same
  BY <1>13 DEF DrainPool
<1>14. ASSUME FreeQueue PROVE Same
  BY <1>14 DEF FreeQueue
<1>15. ASSUME NEW t \in Threads, NEW x \in Tasks, Additem(t, x)
      PROVE  Same
  BY <1>15 DEF Additem
<1>16. ASSUME NEW t \in Threads, AddLock(t) PROVE Same
  BY <1>16 DEF AddLock
<1>17. ASSUME NEW t \in Threads, AddCheck(t) PROVE Same
  BY <1>17 DEF AddCheck, Caller
<1>18. ASSUME NEW t \in Threads, AddAlloc(t) PROVE Same
  BY <1>18 DEF AddAlloc, PoolAlloc, PoolTake,
     Malloc, MallocFails
<1>19. ASSUME NEW t \in Threads, AddLink(t) PROVE Same
  BY <1>19 DEF AddLink
<1>20. ASSUME NEW t \in Threads, AddUnlock(t) PROVE Same
  BY <1>20 DEF AddUnlock, Caller
<1>21. ASSUME NEW w \in Workers, FetchLock(w) PROVE Same
  BY <1>21 DEF FetchLock
<1>22. ASSUME NEW w \in Workers, Loop(w) PROVE Same
  BY <1>22 DEF Loop, KeepLooping
<1>23. ASSUME NEW w \in Workers, FetchUnlink(w) PROVE Same
  BY <1>23 DEF FetchUnlink
<1>24. ASSUME NEW w \in Workers, FetchUnlock(w) PROVE Same
  BY <1>24 DEF FetchUnlock, AfterFetch
<1>25. ASSUME NEW w \in Workers, TaskReturns(w) PROVE Same
  BY <1>25 DEF TaskReturns
<1>26. ASSUME NEW c \in Clients, Wait(c) PROVE Same
  BY <1>26 DEF Wait
<1>27. ASSUME NEW c \in Clients, WaitLock(c) PROVE Same
  BY <1>27 DEF WaitLock
<1>28. ASSUME NEW c \in Clients, WaitRead(c) PROVE Same
  BY <1>28 DEF WaitRead, WaitTest
<1>29. ASSUME NEW c \in Clients, WaitUnlock(c) PROVE Same
  BY <1>29 DEF WaitUnlock
<1>30. CASE UNCHANGED vars
  BY <1>30 DEF vars
<1> QED
  BY <1>1, <1>2, <1>3, <1>4, <1>5, <1>6, <1>7, <1>8, <1>9, <1>10, <1>11,
     <1>12, <1>13, <1>14, <1>15, <1>16, <1>17, <1>18, <1>19, <1>20, <1>21,
     <1>22, <1>23, <1>24, <1>25, <1>26, <1>27, <1>28, <1>29, <1>30
     DEF Next, AllocNext, ReleaseSteps, AddSteps, FetchSteps, Halted

(* What a thread holds inside the critical section stays as it found it. *)
LEMMA HandStep == IInv /\ [Next]_vars => HandInv'
<1> SUFFICES ASSUME IInv, [Next]_vars PROVE HandInv'
  OBVIOUS
<1>a. /\ TypeOK /\ HandInv /\ MutualExclusion /\ MutualExclusion' /\ PhaseInv
      /\ pc \in [Threads -> OwnerPcs \cup WorkerPcs]
      /\ mm \in [Threads -> Units \cup {NULL}]
      /\ next \in [Units -> Units \cup {NULL}] /\ pool \in Units \cup {NULL}
  BY MutexStep DEF IInv, TypeOK, PcOK
<1>b. Owner \in Threads /\ Workers \subseteq Threads
  BY ThreadFacts
<1>1. CASE UNCHANGED <<list, hist>>
  <2>1. UNCHANGED <<first, next>>
    BY <1>1 DEF list
  <2>2. \A t \in Threads : pc'[t] = "add_link" => mm'[t] # NULL /\ next'[mm'[t]] = NULL
    <3>1. CASE \A t \in Threads : /\ pc'[t] = "add_link" <=> pc[t] = "add_link"
                                  /\ pc[t] = "add_link" => mm'[t] = mm[t]
      BY <3>1, <2>1, <1>a DEF HandInv
    <3>2. ASSUME NEW t \in Threads, AddLink(t)
          PROVE  \A s \in Threads : pc'[s] = "add_link" => mm'[s] # NULL /\ next'[mm'[s]] = NULL
      BY <3>2, <2>1, <1>a DEF AddLink, Step, Goto, HandInv, local
    <3>3. ASSUME NEW t \in Threads, AddAlloc(t)
          PROVE  \A s \in Threads : pc'[s] = "add_link" => mm'[s] # NULL /\ next'[mm'[s]] = NULL
      <4>1. \A s \in Threads \ {t} : pc[s] # "add_link" /\ pc'[s] = pc[s]
        BY <3>3, <1>a, OneHand DEF AddAlloc, Step, Goto, LockedPcs
      <4>2. pc'[t] = "add_link" => mm'[t] # NULL
        BY <3>3, <1>a DEF AddAlloc, Step, Goto
      <4>3. mm'[t] # NULL => next'[mm'[t]] = NULL
        BY <3>3, <1>a DEF AddAlloc, PoolAlloc, PoolTake, Malloc, MallocFails
      <4> QED
        BY <4>1, <4>2, <4>3
    <3> QED
      BY <3>1, <3>2, <3>3, HandFrame
  <2>3. \A t \in Threads : pc'[t] = "fetch_unlink" => mm'[t] = first' /\ first' # NULL
    <3>1. CASE \A t \in Threads : pc'[t] = "fetch_unlink" =>
                                    pc[t] = "fetch_unlink" /\ mm'[t] = mm[t]
      BY <3>1, <2>1, <1>a DEF HandInv
    <3>2. ASSUME NEW w \in Workers, FetchFirst(w)
          PROVE  \A t \in Threads : pc'[t] = "fetch_unlink" => mm'[t] = first' /\ first' # NULL
      BY <3>2, <2>1, <1>a, <1>b DEF FetchFirst, Step, Goto, HandInv
    <3> QED
      BY <3>1, <3>2, FetchFrame
  <2> QED
    BY <2>2, <2>3 DEF HandInv
<1>2. CASE AllocQueue
  <2>1. \A t \in Threads : pc'[t] \notin LockedPcs
    BY <1>2, <1>a, ThreadFacts DEF AllocQueue, MutualExclusion
  <2> QED
    BY <2>1 DEF HandInv, LockedPcs
<1>3. CASE Drain \/ DrainPool
  <2>1. pc[Owner] \in After
    BY <1>3 DEF Drain, DrainPool, After
  <2>2. \A t \in Threads : pc[t] \notin {"add_link", "fetch_unlink"}
    BY <2>1, <1>a, NothingDropped
  <2>3. pc' = pc \/ Goto(Owner, "drain_pool") \/ Goto(Owner, "free_queue")
    BY <1>3 DEF Drain, DrainPool
  <2>4. \A t \in Threads : pc'[t] \notin {"add_link", "fetch_unlink"}
    BY <2>2, <2>3, <1>a, <1>b DEF Goto
  <2> QED
    BY <2>4 DEF HandInv
<1>4. ASSUME NEW t \in Threads, AddAlloc(t) PROVE HandInv'
  <2>1. \A s \in Threads \ {t} : pc[s] \notin LockedPcs /\ pc'[s] = pc[s]
    BY <1>4, <1>a, OneHand DEF AddAlloc, Step, Goto, LockedPcs
  <2>2. pc'[t] = IF mm'[t] # NULL THEN "add_link" ELSE "add_unlock"
    BY <1>4, <1>a DEF AddAlloc, Step, Goto
  <2>3. mm'[t] # NULL => next'[mm'[t]] = NULL
    BY <1>4, <1>a DEF AddAlloc, PoolAlloc, PoolTake, Malloc, MallocFails
  <2> QED
    BY <2>1, <2>2, <2>3 DEF HandInv, LockedPcs
<1>5. ASSUME NEW t \in Threads, AddLink(t) PROVE HandInv'
  <2>1. \A s \in Threads \ {t} : pc[s] \notin LockedPcs /\ pc'[s] = pc[s]
    BY <1>5, <1>a, OneHand DEF AddLink, Step, Goto, LockedPcs
  <2>2. pc'[t] = "add_unlock"
    BY <1>5, <1>a DEF AddLink, Step, Goto
  <2> QED
    BY <2>1, <2>2 DEF HandInv, LockedPcs
<1>6. ASSUME NEW w \in Workers, FetchUnlink(w) PROVE HandInv'
  <2>1. \A s \in Threads \ {w} : pc[s] \notin LockedPcs /\ pc'[s] = pc[s]
    BY <1>6, <1>a, <1>b, OneHand DEF FetchUnlink, Step, Goto, LockedPcs
  <2>2. pc'[w] = "fetch_unlock"
    BY <1>6, <1>a, <1>b DEF FetchUnlink, Step, Goto
  <2> QED
    BY <2>1, <2>2 DEF HandInv, LockedPcs
<1> QED
  BY <1>1, <1>2, <1>3, <1>4, <1>5, <1>6, ListFrame

(* Only the unlink step and the return of a task change who is busy. *)
LEMMA BusyFrame ==
  ASSUME IInv, [Next]_vars
  PROVE  \/ /\ UNCHANGED <<fetched, done, unit>>
            /\ \A v \in Workers : Busy(v)' <=> Busy(v)
         \/ \E w \in Workers : FetchUnlink(w) \/ TaskReturns(w)
<1> DEFINE Same == /\ UNCHANGED <<fetched, done, unit>>
                   /\ \A v \in Workers : Busy(v)' <=> Busy(v)
<1>a. /\ core \in 0 .. NCORE
      /\ pc \in [Threads -> OwnerPcs \cup WorkerPcs]
      /\ mm \in [Threads -> Units \cup {NULL}]
  BY DEF IInv, TypeOK, PcOK
<1>b. /\ Owner \in Threads /\ Workers \subseteq Threads /\ Clients \subseteq Threads
      /\ Owner \notin Workers
  BY ThreadFacts
<1>c. \A c \in Clients : c \notin Workers
  BY WorkQueueAssumption
<1> USE <1>a, <1>b DEF Step, Goto, ctl, list, local, hist, book, Busy, AddPcs
<1>1. ASSUME AllocFails PROVE Same
  BY <1>1 DEF AllocFails
<1>2. ASSUME AllocQueue PROVE Same
  BY <1>2 DEF AllocQueue
<1>3. ASSUME CreateWorker PROVE Same
  <2>1. core - 1 \in Threads /\ pc[core - 1] = "none"
    BY <1>3, ThreadFacts
       DEF CreateWorker, ToCreate, Workers, IInv, PhaseInv
  <2> QED
    BY <1>3, <2>1 DEF CreateWorker
<1>4. ASSUME AllocReturns PROVE Same
  BY <1>4 DEF AllocReturns
<1>5. ASSUME CreateFails PROVE Same
  BY <1>5 DEF CreateFails
<1>6. ASSUME RollbackJoinsNoThread PROVE Same
  BY <1>6 DEF RollbackJoinsNoThread
<1>7. ASSUME RollbackJoins PROVE Same
  BY <1>7 DEF RollbackJoins
<1>8. ASSUME RollbackFrees PROVE Same
  BY <1>8 DEF RollbackFrees
<1>9. ASSUME ReleaseCloses PROVE Same
  BY <1>9 DEF ReleaseCloses
<1>10. ASSUME ReleaseJoins PROVE Same
  BY <1>10 DEF ReleaseJoins
<1>11. ASSUME ReleaseJoined PROVE Same
  BY <1>11 DEF ReleaseJoined
<1>12. ASSUME Drain PROVE Same
  BY <1>12 DEF Drain
<1>13. ASSUME DrainPool PROVE Same
  BY <1>13 DEF DrainPool
<1>14. ASSUME FreeQueue PROVE Same
  BY <1>14 DEF FreeQueue
<1>15. ASSUME NEW t \in Threads, NEW x \in Tasks, Additem(t, x)
      PROVE  Same
  BY <1>15, <1>c DEF Additem, MayCall
<1>16. ASSUME NEW t \in Threads, AddLock(t) PROVE Same
  BY <1>16 DEF AddLock
<1>17. ASSUME NEW t \in Threads, AddCheck(t) PROVE Same
  BY <1>17 DEF AddCheck, Caller
<1>18. ASSUME NEW t \in Threads, AddAlloc(t) PROVE Same
  <2>1. /\ pc[t] = "add_alloc" /\ pc'[t] \in {"add_link", "add_unlock"}
        /\ \A v \in Threads \ {t} : pc'[v] = pc[v] /\ mm'[v] = mm[v]
        /\ UNCHANGED <<fetched, done, unit>>
    BY <1>18 DEF AddAlloc, PoolAlloc, PoolTake, Malloc, MallocFails
  <2> QED
    BY <2>1
<1>19. ASSUME NEW t \in Threads, AddLink(t) PROVE Same
  BY <1>19 DEF AddLink
<1>20. ASSUME NEW t \in Threads, AddUnlock(t) PROVE Same
  BY <1>20 DEF AddUnlock, Caller
<1>21. ASSUME NEW w \in Workers, FetchLock(w) PROVE Same
  BY <1>21 DEF FetchLock
<1>22. ASSUME NEW w \in Workers, Loop(w) PROVE Same
  BY <1>22 DEF Loop, KeepLooping
<1>23. ASSUME NEW w \in Workers, FetchFirst(w) PROVE Same
  BY <1>23 DEF FetchFirst
<1>24. ASSUME NEW w \in Workers, FetchUnlock(w) PROVE Same
  BY <1>24 DEF FetchUnlock, AfterFetch
<1>25. ASSUME NEW c \in Clients, Wait(c) PROVE Same
  BY <1>25, <1>c DEF Wait, MayCall
<1>26. ASSUME NEW c \in Clients, WaitLock(c) PROVE Same
  BY <1>26, <1>c DEF WaitLock
<1>27. ASSUME NEW c \in Clients, WaitRead(c) PROVE Same
  BY <1>27, <1>c DEF WaitRead, WaitTest
<1>28. ASSUME NEW c \in Clients, WaitUnlock(c) PROVE Same
  BY <1>28, <1>c DEF WaitUnlock
<1>29. CASE UNCHANGED vars
  BY <1>29 DEF vars
<1> QED
  BY <1>1, <1>2, <1>3, <1>4, <1>5, <1>6, <1>7, <1>8, <1>9, <1>10, <1>11,
     <1>12, <1>13, <1>14, <1>15, <1>16, <1>17, <1>18, <1>19, <1>20, <1>21,
     <1>22, <1>23, <1>24, <1>25, <1>26, <1>27, <1>28, <1>29
     DEF Next, AllocNext, ReleaseSteps, AddSteps, FetchSteps, Halted

(* The task that the unlink step hands out was not fetched before. *)
LEMMA FreshTask ==
  ASSUME IInv, NEW w \in Workers, FetchUnlink(w)
  PROVE  accepted[Len(fetched) + 1] \notin Range(fetched)
<1>1. Len(fetched) \in Nat /\ Len(fetched) < Len(accepted) /\ Len(accepted) \in Nat
  BY UnlinkFacts, Positions DEF IInv
<1>2. \A x : x \in Range(fetched) <=> \E i \in 1 .. Len(fetched) : fetched[i] = x
  BY RangeFacts DEF IInv, TypeOK
<1>3. /\ \A i \in 1 .. Len(fetched) : fetched[i] = accepted[i]
      /\ \A i, j \in 1 .. Len(accepted) : accepted[i] = accepted[j] => i = j
  BY DEF IInv, FifoExactlyOnce
<1> QED
  BY <1>1, <1>2, <1>3

(* A busy worker keeps its task until the task returns. *)
LEMMA BusyStep == IInv /\ [Next]_vars => BusyInv' /\ OneExecutor'
<1> SUFFICES ASSUME IInv, [Next]_vars PROVE BusyInv' /\ OneExecutor'
  OBVIOUS
<1>a. /\ TypeOK /\ HandInv /\ ListShape /\ PhaseInv /\ BusyInv /\ OneExecutor
      /\ pc \in [Threads -> OwnerPcs \cup WorkerPcs]
      /\ mm \in [Threads -> Units \cup {NULL}]
      /\ unit \in [Workers -> Tasks \cup {NULL}]
  BY DEF IInv, TypeOK, PcOK
<1>b. Workers \subseteq Threads
  BY ThreadFacts
<1>1. CASE /\ UNCHANGED <<fetched, done, unit>>
           /\ \A v \in Workers : Busy(v)' <=> Busy(v)
  BY <1>1, <1>a DEF BusyInv, OneExecutor
<1>2. ASSUME NEW w \in Workers, FetchUnlink(w) PROVE BusyInv' /\ OneExecutor'
  <2> DEFINE x == accepted[Len(fetched) + 1]
  <2>1. /\ Range(fetched') = Range(fetched) \cup {x} /\ done' = done
        /\ unit'[w] = x /\ \A v \in Workers \ {w} : unit'[v] = unit[v]
    BY <1>2, <1>a, UnlinkFacts DEF FetchUnlink, book
  <2>2. x \notin Range(fetched)
    BY <1>2, FreshTask
  <2>3. mm[w] # NULL /\ pc[w] = "fetch_unlink"
    BY <1>2, <1>a, <1>b DEF HandInv, FetchUnlink, Step
  <2>4. /\ ~Busy(w) /\ Busy(w)'
        /\ \A v \in Workers \ {w} : Busy(v)' <=> Busy(v)
    BY <1>2, <2>3, <1>a, <1>b DEF FetchUnlink, Step, Goto, Busy, AddPcs
  <2> HIDE DEF x
  <2>5. BusyInv'
    BY <2>1, <2>2, <2>4, <1>a DEF BusyInv
  <2>6. OneExecutor'
    BY <2>1, <2>2, <2>4, <1>a DEF BusyInv, OneExecutor
  <2> QED
    BY <2>5, <2>6
<1>3. ASSUME NEW w \in Workers, TaskReturns(w) PROVE BusyInv' /\ OneExecutor'
  <2>1. done' = done \cup {unit[w]} /\ UNCHANGED <<fetched, unit>>
    BY <1>3 DEF TaskReturns, hist, local
  <2>2. /\ Busy(w) /\ ~Busy(w)'
        /\ \A v \in Workers \ {w} : Busy(v)' <=> Busy(v)
    BY <1>3, <1>a, <1>b DEF TaskReturns, Step, Goto, Busy, AddPcs, local
  <2>3. unit[w] \in Range(fetched) \ done
    BY <2>2, <1>a DEF BusyInv
  <2>4. \A v \in Workers \ {w} : Busy(v) => unit[v] # unit[w]
    BY <2>2, <2>3, <1>a DEF OneExecutor
  <2>5. BusyInv'
    BY <2>1, <2>2, <2>3, <2>4, <1>a DEF BusyInv
  <2>6. OneExecutor'
    BY <2>1, <2>2, <2>3, <2>4, <1>a DEF OneExecutor
  <2> QED
    BY <2>5, <2>6
<1> QED
  BY <1>1, <1>2, <1>3, BusyFrame

(* While the owner allocates or drains, nobody is inside the list. *)
LEMMA QuietPhases ==
  ASSUME IInv, NEW t \in Threads,
         pc[t] \in {"add_alloc", "add_link", "fetch_unlink"}
  PROVE  pc[Owner] \notin Before \cup After
<1>1. pc[Owner] \notin After
  BY NothingDropped DEF IInv
<1>2. PhaseInv
  BY DEF IInv
<1>3. ASSUME t \in Workers PROVE pc[Owner] \notin Before
  BY <1>2, <1>3 DEF PhaseInv, Busy, AddPcs
<1>4. ASSUME t \in Clients \ {Owner} PROVE pc[Owner] \notin Before
  BY <1>2, <1>4 DEF PhaseInv, Before, ClientPcs, AddPcs, WaitPcs
<1>5. ASSUME t = Owner PROVE pc[Owner] \notin Before
  BY <1>5 DEF Before
<1> QED
  BY <1>1, <1>3, <1>4, <1>5 DEF Threads

(* The phase of the owner bounds where the other threads are. *)
LEMMA PhaseStep == IInv /\ [Next]_vars => PhaseInv'
<1> SUFFICES ASSUME IInv, [Next]_vars PROVE PhaseInv'
  OBVIOUS
<1>a. /\ PhaseInv /\ core \in 0 .. NCORE /\ NCORE \in Nat
      /\ pc \in [Threads -> OwnerPcs \cup WorkerPcs]
  BY ThreadFacts DEF IInv, TypeOK, PcOK
<1>b. /\ Owner \in Threads /\ Workers \subseteq Threads /\ Clients \subseteq Threads
      /\ Owner \notin Workers /\ Owner \in Clients
      /\ \A c \in Clients : c \notin Workers
  BY ThreadFacts, WorkQueueAssumption
<1>c. pc[Owner] \in Before => first = NULL
  BY <1>a, Positions DEF IInv, PhaseInv, ListShape
<1> USE <1>a, <1>b DEF PhaseInv, Before, After, Step, Goto, Workers, ctl, list,
     local, hist, book, Busy, ClientPcs, AddPcs, WaitPcs
<1>1. ASSUME AllocFails PROVE PhaseInv'
  BY <1>1 DEF AllocFails
<1>2. ASSUME AllocQueue PROVE PhaseInv'
  BY <1>2 DEF AllocQueue
<1>3. ASSUME CreateWorker PROVE PhaseInv'
  BY <1>3 DEF CreateWorker, ToCreate
<1>4. ASSUME AllocReturns PROVE PhaseInv'
  BY <1>4 DEF AllocReturns
<1>5. ASSUME CreateFails PROVE PhaseInv'
  BY <1>5 DEF CreateFails, ToCreate
<1>6. ASSUME RollbackJoinsNoThread PROVE PhaseInv'
  BY <1>6 DEF RollbackJoinsNoThread
<1>7. ASSUME RollbackJoins PROVE PhaseInv'
  BY <1>7 DEF RollbackJoins
<1>8. ASSUME RollbackFrees PROVE PhaseInv'
  BY <1>8 DEF RollbackFrees
<1>9. ASSUME ReleaseCloses PROVE PhaseInv'
  BY <1>9 DEF ReleaseCloses
<1>10. ASSUME ReleaseJoins PROVE PhaseInv'
  BY <1>10 DEF ReleaseJoins, Joinable
<1>11. ASSUME ReleaseJoined PROVE PhaseInv'
  BY <1>11 DEF ReleaseJoined
<1>12. ASSUME Drain PROVE PhaseInv'
  BY <1>12 DEF Drain
<1>13. ASSUME DrainPool PROVE PhaseInv'
  BY <1>13 DEF DrainPool
<1>14. ASSUME FreeQueue PROVE PhaseInv'
  BY <1>14 DEF FreeQueue
<1>15. ASSUME NEW t \in Threads, NEW x \in Tasks, Additem(t, x)
      PROVE  PhaseInv'
  BY <1>15 DEF Additem, MayCall
<1>16. ASSUME NEW t \in Threads, AddLock(t) PROVE PhaseInv'
  BY <1>16 DEF AddLock
<1>17. ASSUME NEW t \in Threads, AddCheck(t) PROVE PhaseInv'
  BY <1>17 DEF AddCheck, Caller
<1>18. ASSUME NEW t \in Threads, AddAlloc(t) PROVE PhaseInv'
  <2>1. pc[t] = "add_alloc" /\ pc[Owner] \notin Before \cup After
    BY <1>18, QuietPhases DEF AddAlloc
  <2>2. /\ pc'[t] \in {"add_link", "add_unlock"}
        /\ \A s \in Threads \ {t} : pc'[s] = pc[s]
        /\ UNCHANGED <<state, core, dropped>>
    BY <1>18 DEF AddAlloc
  <2> QED
    BY <2>1, <2>2
<1>19. ASSUME NEW t \in Threads, AddLink(t) PROVE PhaseInv'
  <2>1. pc[t] = "add_link" /\ pc[Owner] \notin Before \cup After
    BY <1>19, QuietPhases DEF AddLink
  <2>2. /\ pc'[t] = "add_unlock"
        /\ \A s \in Threads \ {t} : pc'[s] = pc[s]
        /\ UNCHANGED <<state, core, dropped>>
    BY <1>19 DEF AddLink
  <2> QED
    BY <2>1, <2>2
<1>20. ASSUME NEW t \in Threads, AddUnlock(t) PROVE PhaseInv'
  BY <1>20 DEF AddUnlock, Caller
<1>21. ASSUME NEW w \in Workers, FetchLock(w) PROVE PhaseInv'
  BY <1>21 DEF FetchLock
<1>22. ASSUME NEW w \in Workers, Loop(w) PROVE PhaseInv'
  BY <1>22 DEF Loop, KeepLooping
<1>23. ASSUME NEW w \in Workers, FetchFirst(w) PROVE PhaseInv'
  BY <1>23, <1>c DEF FetchFirst
<1>24. ASSUME NEW w \in Workers, FetchUnlink(w) PROVE PhaseInv'
  <2>1. pc[w] = "fetch_unlink" /\ pc[Owner] \notin Before \cup After
    BY <1>24, QuietPhases DEF FetchUnlink
  <2>2. /\ pc'[w] = "fetch_unlock"
        /\ \A s \in Threads \ {w} : pc'[s] = pc[s]
        /\ UNCHANGED <<state, core, dropped>>
    BY <1>24 DEF FetchUnlink
  <2> QED
    BY <2>1, <2>2
<1>25. ASSUME NEW w \in Workers, FetchUnlock(w) PROVE PhaseInv'
  BY <1>25 DEF FetchUnlock, AfterFetch
<1>26. ASSUME NEW w \in Workers, TaskReturns(w) PROVE PhaseInv'
  BY <1>26 DEF TaskReturns
<1>27. ASSUME NEW c \in Clients, Wait(c) PROVE PhaseInv'
  BY <1>27 DEF Wait, MayCall
<1>28. ASSUME NEW c \in Clients, WaitLock(c) PROVE PhaseInv'
  BY <1>28 DEF WaitLock
<1>29. ASSUME NEW c \in Clients, WaitRead(c) PROVE PhaseInv'
  BY <1>29 DEF WaitRead, WaitTest
<1>30. ASSUME NEW c \in Clients, WaitUnlock(c) PROVE PhaseInv'
  BY <1>30 DEF WaitUnlock
<1>31. CASE UNCHANGED vars
  BY <1>31 DEF vars
<1> QED
  BY <1>1, <1>2, <1>3, <1>4, <1>5, <1>6, <1>7, <1>8, <1>9, <1>10, <1>11,
     <1>12, <1>13, <1>14, <1>15, <1>16, <1>17, <1>18, <1>19, <1>20, <1>21,
     <1>22, <1>23, <1>24, <1>25, <1>26, <1>27, <1>28, <1>29, <1>30, <1>31
     DEF Next, AllocNext, ReleaseSteps, AddSteps, FetchSteps, Halted

(* Before workqueue_alloc there is nothing in the queue. *)
LEMMA InitIInv == Init => IInv
<1> SUFFICES ASSUME Init PROVE IInv
  OBVIOUS
<1>a. /\ Owner \in Threads /\ Owner \notin Workers /\ Owner \in Clients
      /\ Workers \subseteq Threads /\ Clients \subseteq Threads
      /\ NCORE \in Nat /\ \A t \in Threads : t # NULL
      /\ \A c \in Clients : c \notin Workers
  BY ThreadFacts, WorkQueueAssumption
<1>1. /\ pc[Owner] = "start" /\ \A w \in Workers : pc[w] = "none"
      /\ \A c \in Clients \ {Owner} : pc[c] = "idle"
      /\ \A t \in Threads : pc[t] \in {"start", "idle", "none"}
      /\ pc \in [Threads -> OwnerPcs \cup WorkerPcs]
  BY <1>a DEF Init, OwnerPcs, WorkerPcs, ClientPcs
<1>2. /\ accepted = <<>> /\ linked = <<>> /\ fetched = <<>> /\ pooled = <<>>
      /\ dropped = 0 /\ Len(<<>>) = 0 /\ heap = {} /\ done = {}
      /\ first = NULL /\ last = NULL /\ pool = NULL /\ lock = NULL
      /\ state = "ACTIVE" /\ Range(<<>>) = {}
  BY DEF Init, Range
<1>3. TypeOK
  <2>1. PcOK
    BY <1>1 DEF PcOK, OwnerPcs, WorkerPcs, ClientPcs
  <2> QED
    BY <2>1, <1>a DEF Init, TypeOK
<1>4. Gone = 0 /\ Queued = {}
  BY <1>2 DEF Gone, Queued
<1>5. MutualExclusion /\ HandInv
  BY <1>1, <1>2, <1>a DEF MutualExclusion, HandInv, LockedPcs
<1>6. ListShape /\ PoolShape
  BY <1>2, <1>4 DEF ListShape, PoolShape
<1>7. UnitOwnership
  BY <1>1, <1>2, <1>4 DEF UnitOwnership
<1>8. FifoExactlyOnce /\ OneExecutor
  BY <1>2 DEF FifoExactlyOnce, OneExecutor, Init
<1>9. OfferInv
  BY <1>1, <1>2 DEF OfferInv, AddPcs
<1>10. \A w \in Workers : ~Busy(w)
  BY <1>1 DEF Busy, AddPcs
<1>11. BusyInv
  BY <1>2, <1>10 DEF BusyInv
<1>12. PhaseInv
  BY <1>1, <1>2, <1>10, <1>a DEF PhaseInv, Before, After, ClientPcs, AddPcs, WaitPcs
<1> QED
  BY <1>3, <1>5, <1>6, <1>7, <1>8, <1>9, <1>11, <1>12 DEF IInv

(* Every step of every thread keeps the inductive invariant. *)
LEMMA StepIInv == IInv /\ [Next]_vars => IInv'
  BY TypeStep, MutexStep, ListStep, PoolStep, OwnershipStep, FifoStep, OfferStep,
     HandStep, BusyStep, PhaseStep DEF IInv

(* The inductive invariant holds in every reachable state. *)
THEOREM Invariance == Spec => []IInv
  BY InitIInv, StepIInv, PTL DEF Spec

(* Every variable of the queue keeps its declared type, the units' pointers *)
(* included: first, last and next are units or NULL.                        *)
THEOREM TypeCorrect == Spec => []TypeOK
<1>1. IInv => TypeOK
  BY DEF IInv
<1> QED
  BY <1>1, Invariance, PTL

(* first, last and next always describe exactly the accepted tasks that     *)
(* were neither fetched nor dropped, in the order additem linked them.      *)
THEOREM ListCorrect == Spec => []ListShape
<1>1. IInv => ListShape
  BY DEF IInv
<1> QED
  BY <1>1, Invariance, PTL

(* No unit is in the list and the pool at once, none is leaked, and none    *)
(* that was freed is reachable, for any number of threads.                  *)
THEOREM OwnershipCorrect == Spec => []UnitOwnership
<1>1. IInv => UnitOwnership
  BY DEF IInv
<1> QED
  BY <1>1, Invariance, PTL

(* Tasks are fetched in the order they were accepted, each at most once,    *)
(* and the value additem returned tells whether the task was accepted.      *)
THEOREM FifoCorrect == Spec => []FifoExactlyOnce
<1>1. IInv => FifoExactlyOnce
  BY DEF IInv
<1> QED
  BY <1>1, Invariance, PTL

(* A fetched task has exactly one executor until its function returns, and  *)
(* none afterwards.                                                         *)
THEOREM ExecutorCorrect == Spec => []OneExecutor
<1>1. IInv => OneExecutor
  BY DEF IInv
<1> QED
  BY <1>1, Invariance, PTL

(* No worker and no client is inside a call of the queue while its memory   *)
(* is not allocated.                                                        *)
THEOREM LifetimeCorrect == Spec => []NoUseAfterFree
<1>1. IInv => NoUseAfterFree
  <2> SUFFICES ASSUME IInv PROVE NoUseAfterFree
    OBVIOUS
  <2>1. PhaseInv
    BY DEF IInv
  <2>2. \A w \in Workers : pc[w] \notin {"none", "exit"} => Live
    BY <2>1 DEF PhaseInv, After, Live
  <2>3. \A c \in Clients : pc[c] \in AddPcs \cup WaitPcs => Live
    BY <2>1 DEF PhaseInv, ClientPcs, AddPcs, WaitPcs, Live
  <2> QED
    BY <2>2, <2>3 DEF NoUseAfterFree
<1> QED
  BY <1>1, Invariance, PTL

(* When release has returned, or alloc has failed, every unit was freed,    *)
(* every started task has finished and every other accepted task was        *)
(* discarded.                                                               *)
THEOREM ReleaseCorrect == Spec => []CleanRelease
<1>1. IInv => CleanRelease
  <2> SUFFICES ASSUME IInv, pc[Owner] \in {"end", "failed"}
               PROVE  heap = {} /\ done = Range(fetched) /\ Gone = Len(accepted)
    BY DEF CleanRelease
  <2>a. /\ TypeOK /\ ListShape /\ PoolShape /\ UnitOwnership /\ PhaseInv
        /\ BusyInv /\ OneExecutor
    BY DEF IInv
  <2>b. NULL \notin Units
    BY ThreadFacts
  <2>1. \A w \in Workers : pc[w] \in {"none", "exit"}
    BY <2>a DEF PhaseInv, After
  <2>2. \A w \in Workers : ~Busy(w)
    BY <2>1 DEF Busy, AddPcs
  <2>3. done = Range(fetched)
    BY <2>2, <2>a DEF BusyInv, OneExecutor
  <2>4. CASE pc[Owner] = "failed"
    <3>1. accepted = <<>> /\ heap = {}
      BY <2>4, <2>a DEF PhaseInv, Before
    <3>2. Gone = Len(accepted)
      BY <3>1, <2>a, Positions DEF ListShape
    <3> QED
      BY <2>3, <3>1, <3>2
  <2>5. CASE pc[Owner] = "end"
    <3>1. first = NULL /\ pool = NULL
      BY <2>5, <2>a DEF PhaseInv, After
    <3>2. Len(linked) = Len(accepted) /\ Gone <= Len(accepted) /\ Gone \in Nat
          /\ Len(accepted) \in Nat /\ linked \in Seq(Units)
      BY <2>a, Positions DEF ListShape, TypeOK
    <3>3. Gone = Len(accepted)
      <4>1. ASSUME Gone < Len(accepted) PROVE FALSE
        <5>1. linked[Gone + 1] \in Units
          BY <4>1, <3>2
        <5> QED
          BY <4>1, <5>1, <3>1, <2>a, <2>b DEF ListShape
      <4> QED
        BY <4>1, <3>2
    <3>4. Len(pooled) = 0
      <4>1. pooled \in Seq(Units) /\ Len(pooled) \in Nat
        BY <2>a, Positions DEF TypeOK
      <4>2. ASSUME Len(pooled) # 0 PROVE FALSE
        <5>1. pooled[Len(pooled)] \in Units
          BY <4>1, <4>2
        <5> QED
          BY <4>2, <5>1, <3>1, <2>a, <2>b DEF PoolShape
      <4> QED
        BY <4>2
    <3>5. \A t \in Threads : pc[t] # "add_link"
      BY <2>5, <2>a, NothingDropped DEF After
    <3>6. Queued = {} /\ 1 .. Len(pooled) = {}
      BY <3>2, <3>3, <3>4 DEF Queued
    <3>7. heap = {}
      BY <3>5, <3>6, <2>a DEF UnitOwnership
    <3> QED
      BY <2>3, <3>3, <3>7
  <2> QED
    BY <2>4, <2>5
<1> QED
  BY <1>1, Invariance, PTL

(* Accepted tasks stay accepted and tasks that left the list stay gone. *)
LEMMA Progress ==
  ASSUME IInv, [Next]_vars
  PROVE  /\ Gone \in Nat /\ Gone' \in Nat /\ Gone <= Gone'
         /\ Len(accepted) \in Nat /\ Len(accepted') \in Nat
         /\ Len(accepted) <= Len(accepted')
<1>a. TypeOK /\ TypeOK'
  BY TypeStep DEF IInv
<1>b. /\ Len(accepted) \in Nat /\ Len(fetched) \in Nat /\ dropped \in Nat
      /\ Gone \in Nat
  BY <1>a, Positions
<1>1. CASE UNCHANGED <<list, hist>> \/ AllocQueue
  BY <1>1, <1>b DEF hist, AllocQueue, Gone
<1>2. CASE Drain \/ DrainPool
  BY <1>2, <1>b DEF Drain, DrainPool, Gone
<1>3. ASSUME NEW t \in Threads, AddAlloc(t)
      PROVE  UNCHANGED <<accepted, fetched, dropped>>
  BY <1>3 DEF AddAlloc
<1>4. ASSUME NEW t \in Threads, AddLink(t)
      PROVE  Len(accepted') = Len(accepted) + 1 /\ UNCHANGED <<fetched, dropped>>
  BY <1>4, LinkFacts DEF IInv, AddLink
<1>5. ASSUME NEW w \in Workers, FetchUnlink(w)
      PROVE  Len(fetched') = Len(fetched) + 1 /\ UNCHANGED <<accepted, dropped>>
  BY <1>5, UnlinkFacts DEF IInv, FetchUnlink
<1> QED
  BY <1>b, <1>1, <1>2, <1>3, <1>4, <1>5, ListFrame DEF Gone

(* Only wait's own steps set its mark or let it return. *)
LEMMA WaitFrame ==
  ASSUME IInv, [Next]_vars
  PROVE  \/ /\ UNCHANGED mark
            /\ \A c \in Clients : pc'[c] = "wait_done" => pc[c] = "wait_done"
         \/ \E c \in Clients : Wait(c) \/ WaitRead(c)
<1> DEFINE Same == /\ UNCHANGED mark
                   /\ \A c \in Clients : pc'[c] = "wait_done" => pc[c] = "wait_done"
<1>a. core \in 0 .. NCORE /\ pc \in [Threads -> OwnerPcs \cup WorkerPcs]
  BY DEF IInv, TypeOK, PcOK
<1>b. Owner \in Threads /\ Workers \subseteq Threads /\ Clients \subseteq Threads
  BY ThreadFacts
<1> USE <1>a, <1>b DEF Step, Goto, book
<1>1. ASSUME AllocFails PROVE Same
  BY <1>1 DEF AllocFails
<1>2. ASSUME AllocQueue PROVE Same
  BY <1>2 DEF AllocQueue
<1>3. ASSUME CreateWorker PROVE Same
  <2>1. core - 1 \in Threads
    BY <1>3, ThreadFacts DEF CreateWorker, ToCreate, Workers
  <2> QED
    BY <1>3, <2>1 DEF CreateWorker
<1>4. ASSUME AllocReturns PROVE Same
  BY <1>4 DEF AllocReturns
<1>5. ASSUME CreateFails PROVE Same
  BY <1>5 DEF CreateFails
<1>6. ASSUME RollbackJoinsNoThread PROVE Same
  BY <1>6 DEF RollbackJoinsNoThread
<1>7. ASSUME RollbackJoins PROVE Same
  BY <1>7 DEF RollbackJoins
<1>8. ASSUME RollbackFrees PROVE Same
  BY <1>8 DEF RollbackFrees
<1>9. ASSUME ReleaseCloses PROVE Same
  BY <1>9 DEF ReleaseCloses
<1>10. ASSUME ReleaseJoins PROVE Same
  BY <1>10 DEF ReleaseJoins
<1>11. ASSUME ReleaseJoined PROVE Same
  BY <1>11 DEF ReleaseJoined
<1>12. ASSUME Drain PROVE Same
  BY <1>12 DEF Drain
<1>13. ASSUME DrainPool PROVE Same
  BY <1>13 DEF DrainPool
<1>14. ASSUME FreeQueue PROVE Same
  BY <1>14 DEF FreeQueue
<1>15. ASSUME NEW t \in Threads, NEW x \in Tasks, Additem(t, x)
      PROVE  Same
  BY <1>15 DEF Additem
<1>16. ASSUME NEW t \in Threads, AddLock(t) PROVE Same
  BY <1>16 DEF AddLock
<1>17. ASSUME NEW t \in Threads, AddCheck(t) PROVE Same
  BY <1>17 DEF AddCheck, Caller
<1>18. ASSUME NEW t \in Threads, AddAlloc(t) PROVE Same
  BY <1>18 DEF AddAlloc
<1>19. ASSUME NEW t \in Threads, AddLink(t) PROVE Same
  BY <1>19 DEF AddLink
<1>20. ASSUME NEW t \in Threads, AddUnlock(t) PROVE Same
  BY <1>20 DEF AddUnlock, Caller
<1>21. ASSUME NEW w \in Workers, FetchLock(w) PROVE Same
  BY <1>21 DEF FetchLock
<1>22. ASSUME NEW w \in Workers, Loop(w) PROVE Same
  BY <1>22 DEF Loop, KeepLooping
<1>23. ASSUME NEW w \in Workers, FetchFirst(w) PROVE Same
  BY <1>23 DEF FetchFirst
<1>24. ASSUME NEW w \in Workers, FetchUnlink(w) PROVE Same
  BY <1>24 DEF FetchUnlink
<1>25. ASSUME NEW w \in Workers, FetchUnlock(w) PROVE Same
  BY <1>25 DEF FetchUnlock, AfterFetch
<1>26. ASSUME NEW w \in Workers, TaskReturns(w) PROVE Same
  BY <1>26 DEF TaskReturns
<1>27. ASSUME NEW c \in Clients, WaitLock(c) PROVE Same
  BY <1>27 DEF WaitLock
<1>28. ASSUME NEW c \in Clients, WaitUnlock(c) PROVE Same
  BY <1>28 DEF WaitUnlock
<1>29. CASE UNCHANGED vars
  BY <1>29 DEF vars
<1> QED
  BY <1>1, <1>2, <1>3, <1>4, <1>5, <1>6, <1>7, <1>8, <1>9, <1>10, <1>11,
     <1>12, <1>13, <1>14, <1>15, <1>16, <1>17, <1>18, <1>19, <1>20, <1>21,
     <1>22, <1>23, <1>24, <1>25, <1>26, <1>27, <1>28, <1>29
     DEF Next, AllocNext, ReleaseSteps, AddSteps, FetchSteps, Halted

(* wait returns only once the list was seen empty under the lock. *)
LEMMA WaitStep == IInv /\ WaitInv /\ [Next]_vars => WaitInv'
<1> SUFFICES ASSUME IInv, WaitInv, [Next]_vars PROVE WaitInv'
  OBVIOUS
<1>a. /\ mark \in [Clients -> Nat] /\ Clients \subseteq Threads
      /\ pc \in [Threads -> OwnerPcs \cup WorkerPcs]
  BY ThreadFacts DEF IInv, TypeOK, PcOK
<1>b. \A c \in Clients : /\ mark[c] \in Nat /\ mark[c] <= Len(accepted)
                         /\ pc[c] = "wait_done" => Gone >= mark[c]
  BY <1>a DEF WaitInv, WaitDrains
<1>1. CASE /\ UNCHANGED mark
           /\ \A c \in Clients : pc'[c] = "wait_done" => pc[c] = "wait_done"
  BY <1>1, <1>b, Progress DEF WaitInv, WaitDrains
<1>2. ASSUME NEW c \in Clients, Wait(c) PROVE WaitInv'
  <2>1. /\ mark'[c] = Len(accepted) /\ pc'[c] = "wait_lock"
        /\ \A d \in Clients \ {c} : mark'[d] = mark[d] /\ pc'[d] = pc[d]
    BY <1>2, <1>a DEF Wait, Goto
  <2> QED
    BY <2>1, <1>b, Progress DEF WaitInv, WaitDrains
<1>3. ASSUME NEW c \in Clients, WaitRead(c) PROVE WaitInv'
  <2>1. /\ mark' = mark /\ pc'[c] = IF first # NULL THEN "wait_again" ELSE "wait_done"
        /\ \A d \in Clients \ {c} : pc'[d] = pc[d]
    BY <1>3, <1>a DEF WaitRead, WaitTest, Step, Goto, book
  <2>2. first = NULL => Gone >= Len(accepted)
    <3>1. ASSUME Gone < Len(accepted) PROVE first # NULL
      <4>1. linked \in Seq(Units) /\ Len(linked) = Len(accepted) /\ Gone \in Nat
        BY Positions DEF IInv, TypeOK, ListShape
      <4>2. linked[Gone + 1] \in Units
        BY <3>1, <4>1
      <4> QED
        BY <3>1, <4>2, ThreadFacts DEF IInv, ListShape
    <3> QED
      BY <3>1, Progress
  <2> QED
    BY <2>1, <2>2, <1>b, Progress DEF WaitInv, WaitDrains
<1> QED
  BY <1>1, <1>2, <1>3, WaitFrame

(* workqueue_wait returns only after every task accepted before the call    *)
(* was taken from the queue, whatever other threads add or fetch meanwhile. *)
THEOREM WaitCorrect == Spec => []WaitDrains
<1>1. Init => WaitInv
  <2> SUFFICES ASSUME Init PROVE WaitInv
    OBVIOUS
  <2>1. /\ mark = [c \in Clients |-> 0] /\ Len(accepted) = 0
        /\ \A c \in Clients : pc[c] # "wait_done"
    BY ThreadFacts DEF Init
  <2> QED
    BY <2>1 DEF WaitInv, WaitDrains
<1>2. WaitInv => WaitDrains
  BY DEF WaitInv
<1> QED
  BY <1>1, <1>2, WaitStep, Invariance, PTL DEF Spec

-----------------------------------------------------------------------------
(* The bound on the tasks that are started after release closed the queue. *)

LEMMA EarlyFinite ==
  ASSUME NEW E, E \subseteq Workers
  PROVE  IsFiniteSet(E) /\ Cardinality(E) \in Nat /\ Cardinality(E) <= NCORE
<1>1. IsFiniteSet(Workers) /\ Cardinality(Workers) = NCORE
  <2>1. 0 \in Int /\ NCORE - 1 \in Int
    BY ThreadFacts
  <2>2. IsFiniteSet(0 .. (NCORE - 1))
        /\ Cardinality(0 .. (NCORE - 1)) = IF 0 > NCORE - 1 THEN 0 ELSE (NCORE - 1) - 0 + 1
    BY <2>1, FS_Interval
  <2> QED
    BY <2>2, WorkQueueAssumption DEF Workers
<1> QED
  BY <1>1, FS_Subset, FS_CardinalityType

(* Once the queue is closed no worker passes the state check any more. *)
LEMMA LateFrame ==
  ASSUME IInv, [Next]_vars
  PROVE  \/ /\ UNCHANGED <<fetched, closedAt>>
            /\ state' = "CLOSED" => state = "CLOSED" /\ Early' \subseteq Early
         \/ CreateFails \/ ReleaseCloses
         \/ \E w \in Workers : FetchUnlink(w)
<1> DEFINE Same == /\ UNCHANGED <<fetched, closedAt>>
                   /\ state' = "CLOSED" => state = "CLOSED" /\ Early' \subseteq Early
<1>a. core \in 0 .. NCORE /\ pc \in [Threads -> OwnerPcs \cup WorkerPcs]
  BY DEF IInv, TypeOK, PcOK
<1>b. /\ Owner \in Threads /\ Owner \notin Workers
      /\ Workers \subseteq Threads /\ Clients \subseteq Threads
  BY ThreadFacts
<1> USE <1>a, <1>b DEF Step, Goto, book, hist, ctl, Early
<1>1. ASSUME AllocFails PROVE Same
  BY <1>1 DEF AllocFails
<1>2. ASSUME AllocQueue PROVE Same
  BY <1>2 DEF AllocQueue
<1>3. ASSUME CreateWorker PROVE Same
  <2>1. core - 1 \in Workers
    BY <1>3, ThreadFacts DEF CreateWorker, ToCreate, Workers
  <2> QED
    BY <1>3, <2>1 DEF CreateWorker
<1>4. ASSUME AllocReturns PROVE Same
  BY <1>4 DEF AllocReturns
<1>5. ASSUME RollbackJoinsNoThread PROVE Same
  BY <1>5 DEF RollbackJoinsNoThread
<1>6. ASSUME RollbackJoins PROVE Same
  BY <1>6 DEF RollbackJoins
<1>7. ASSUME RollbackFrees PROVE Same
  BY <1>7 DEF RollbackFrees
<1>8. ASSUME ReleaseJoins PROVE Same
  BY <1>8 DEF ReleaseJoins
<1>9. ASSUME ReleaseJoined PROVE Same
  BY <1>9 DEF ReleaseJoined
<1>10. ASSUME Drain PROVE Same
  BY <1>10 DEF Drain
<1>11. ASSUME DrainPool PROVE Same
  BY <1>11 DEF DrainPool
<1>12. ASSUME FreeQueue PROVE Same
  BY <1>12 DEF FreeQueue
<1>13. ASSUME NEW t \in Threads, NEW x \in Tasks, Additem(t, x) PROVE Same
  BY <1>13 DEF Additem, MayCall
<1>14. ASSUME NEW t \in Threads, AddLock(t) PROVE Same
  BY <1>14 DEF AddLock
<1>15. ASSUME NEW t \in Threads, AddCheck(t) PROVE Same
  BY <1>15 DEF AddCheck, Caller
<1>16. ASSUME NEW t \in Threads, AddAlloc(t) PROVE Same
  BY <1>16 DEF AddAlloc
<1>17. ASSUME NEW t \in Threads, AddLink(t) PROVE Same
  BY <1>17 DEF AddLink
<1>18. ASSUME NEW t \in Threads, AddUnlock(t) PROVE Same
  BY <1>18 DEF AddUnlock, Caller
<1>19. ASSUME NEW w \in Workers, FetchLock(w) PROVE Same
  BY <1>19 DEF FetchLock
<1>20. ASSUME NEW w \in Workers, Loop(w) PROVE Same
  BY <1>20 DEF Loop, KeepLooping
<1>21. ASSUME NEW w \in Workers, FetchFirst(w) PROVE Same
  BY <1>21 DEF FetchFirst
<1>22. ASSUME NEW w \in Workers, FetchUnlock(w) PROVE Same
  BY <1>22 DEF FetchUnlock, AfterFetch
<1>23. ASSUME NEW w \in Workers, TaskReturns(w) PROVE Same
  BY <1>23 DEF TaskReturns
<1>24. ASSUME NEW c \in Clients, Wait(c) PROVE Same
  BY <1>24 DEF Wait, MayCall
<1>25. ASSUME NEW c \in Clients, WaitLock(c) PROVE Same
  BY <1>25 DEF WaitLock
<1>26. ASSUME NEW c \in Clients, WaitRead(c) PROVE Same
  BY <1>26 DEF WaitRead, WaitTest
<1>27. ASSUME NEW c \in Clients, WaitUnlock(c) PROVE Same
  BY <1>27 DEF WaitUnlock
<1>28. CASE UNCHANGED vars
  BY <1>28 DEF vars
<1> QED
  BY <1>1, <1>2, <1>3, <1>4, <1>5, <1>6, <1>7, <1>8, <1>9, <1>10,
     <1>11, <1>12, <1>13, <1>14, <1>15, <1>16, <1>17, <1>18, <1>19,
     <1>20, <1>21, <1>22, <1>23, <1>24, <1>25, <1>26, <1>27, <1>28
     DEF Next, AllocNext, ReleaseSteps, AddSteps, FetchSteps, Halted

LEMMA LateStep == IInv /\ LateStarts /\ [Next]_vars => LateStarts'
<1> SUFFICES ASSUME IInv, LateStarts, [Next]_vars, state' = "CLOSED"
             PROVE  Len(fetched') + Cardinality(Early') <= closedAt' + NCORE
  BY DEF LateStarts
<1>a. TypeOK /\ TypeOK' /\ Len(fetched) \in Nat /\ closedAt \in Nat /\ NCORE \in Nat
  BY TypeStep, Positions, ThreadFacts DEF IInv, TypeOK
<1>b. Early \subseteq Workers /\ Early' \subseteq Workers
  BY DEF Early
<1>c. /\ IsFiniteSet(Early) /\ Cardinality(Early) \in Nat /\ Cardinality(Early) <= NCORE
      /\ IsFiniteSet(Early') /\ Cardinality(Early') \in Nat /\ Cardinality(Early') <= NCORE
  BY <1>b, EarlyFinite
<1>1. CASE /\ UNCHANGED <<fetched, closedAt>>
           /\ state = "CLOSED" /\ Early' \subseteq Early
  <2>1. Cardinality(Early') <= Cardinality(Early)
    BY <1>1, <1>c, FS_Subset
  <2> QED
    BY <1>1, <1>a, <1>c, <2>1 DEF LateStarts
<1>2. CASE CreateFails
  \* no task has been fetched yet
  <2>1. accepted = <<>> /\ Len(fetched) <= Len(accepted) /\ Len(accepted) = 0
    BY <1>2 DEF CreateFails, Step, IInv, PhaseInv, Before, FifoExactlyOnce
  <2>2. Len(fetched') = 0 /\ closedAt' = closedAt
    BY <1>2, <1>a, <2>1 DEF CreateFails, hist, book
  <2> QED
    BY <1>a, <1>c, <2>2
<1>3. CASE ReleaseCloses
  <2>1. closedAt' = Len(fetched) /\ fetched' = fetched
    BY <1>3 DEF ReleaseCloses, hist
  <2> QED
    BY <1>a, <1>c, <2>1
<1>4. ASSUME NEW w \in Workers, FetchUnlink(w)
      PROVE  Len(fetched') + Cardinality(Early') <= closedAt' + NCORE
  <2>1. /\ Len(fetched') = Len(fetched) + 1 /\ closedAt' = closedAt
        /\ state = "CLOSED"
    BY <1>4, UnlinkFacts DEF IInv, FetchUnlink, book, ctl
  <2>2. Early' = Early \ {w} /\ w \in Early
    <3>1. /\ pc[w] = "fetch_unlink" /\ pc' = [pc EXCEPT ![w] = "fetch_unlock"]
          /\ pc \in [Threads -> OwnerPcs \cup WorkerPcs] /\ Workers \subseteq Threads
      BY <1>4, ThreadFacts DEF FetchUnlink, Step, Goto, IInv, TypeOK, PcOK
    <3> QED
      BY <3>1 DEF Early
  <2>3. Cardinality(Early') = Cardinality(Early) - 1
    BY <1>c, <2>2, FS_RemoveElement
  <2> QED
    BY <1>a, <1>c, <2>1, <2>3 DEF LateStarts
<1> QED
  BY <1>1, <1>2, <1>3, <1>4, LateFrame

(* After workqueue_release has closed the queue each worker starts at most  *)
(* one further task, for any number of workers.                             *)
THEOREM LateStartsCorrect == Spec => []LateStarts
<1>1. Init => LateStarts
  BY DEF Init, LateStarts
<1> QED
  BY <1>1, LateStep, Invariance, PTL DEF Spec

(* So at most as many tasks as there are workers are started after that.    *)
COROLLARY LateStartsBounded ==
  Spec => [](state = "CLOSED" => Len(fetched) - closedAt <= NCORE)
<1>1. IInv /\ LateStarts => (state = "CLOSED" => Len(fetched) - closedAt <= NCORE)
  <2> SUFFICES ASSUME IInv, LateStarts, state = "CLOSED"
               PROVE  Len(fetched) - closedAt <= NCORE
    OBVIOUS
  <2>1. Len(fetched) \in Nat /\ closedAt \in Nat /\ NCORE \in Nat
    BY Positions, ThreadFacts DEF IInv, TypeOK
  <2>2. Cardinality(Early) \in Nat
    BY EarlyFinite DEF Early
  <2> QED
    BY <2>1, <2>2 DEF LateStarts
<1> QED
  BY <1>1, LateStartsCorrect, Invariance, PTL


-----------------------------------------------------------------------------
(* The refinement of TaskQueue. *)

(* What is left of a history behind position k. *)
LEMMA SuffixFacts ==
  ASSUME NEW S, NEW s \in Seq(S), NEW k \in Nat, k <= Len(s)
  PROVE  /\ SubSeq(s, k + 1, Len(s)) \in Seq(S)
         /\ Len(SubSeq(s, k + 1, Len(s))) = Len(s) - k
         /\ \A i \in 1 .. Len(s) - k : SubSeq(s, k + 1, Len(s))[i] = s[k + i]
<1>1. Len(s) \in Nat /\ \A i \in k + 1 .. Len(s) : s[i] \in S
  OBVIOUS
<1>2. /\ SubSeq(s, k + 1, Len(s)) \in Seq(S)
      /\ Len(SubSeq(s, k + 1, Len(s))) = IF k + 1 <= Len(s) THEN Len(s) - (k + 1) + 1 ELSE 0
      /\ \A i \in 1 .. Len(s) - (k + 1) + 1 : SubSeq(s, k + 1, Len(s))[i] = s[(k + 1) + i - 1]
  BY <1>1, SubSeqProperties
<1> QED
  BY <1>1, <1>2

LEMMA SuffixAppend ==
  ASSUME NEW S, NEW s \in Seq(S), NEW k \in Nat, k <= Len(s), NEW e \in S
  PROVE  SubSeq(Append(s, e), k + 1, Len(Append(s, e)))
           = Append(SubSeq(s, k + 1, Len(s)), e)
<1>1. PICK r : r = Append(s, e)
  OBVIOUS
<1>2. /\ r \in Seq(S) /\ Len(s) \in Nat /\ Len(r) = Len(s) + 1 /\ r[Len(s) + 1] = e
      /\ \A i \in 1 .. Len(s) : r[i] = s[i]
  BY <1>1
<1>3. PICK p, q : p = SubSeq(s, k + 1, Len(s)) /\ q = SubSeq(r, k + 1, Len(r))
  OBVIOUS
<1>4. p \in Seq(S) /\ Len(p) = Len(s) - k /\ \A i \in 1 .. Len(s) - k : p[i] = s[k + i]
  BY <1>3, SuffixFacts
<1>5. /\ q \in Seq(S) /\ Len(q) = Len(s) + 1 - k
      /\ \A i \in 1 .. Len(s) + 1 - k : q[i] = r[k + i]
  BY <1>2, <1>3, SuffixFacts
<1>6. PICK z : z = Append(p, e)
  OBVIOUS
<1>7. /\ z \in Seq(S) /\ Len(z) = Len(p) + 1 /\ z[Len(p) + 1] = e
      /\ \A i \in 1 .. Len(p) : z[i] = p[i]
  BY <1>4, <1>6
<1>8. Len(z) = Len(q) /\ \A i \in 1 .. Len(q) : z[i] = q[i]
  <2>1. Len(z) = Len(q) /\ Len(p) + 1 = Len(q) /\ k + Len(q) = Len(s) + 1
    BY <1>2, <1>4, <1>5, <1>7
  <2>2. ASSUME NEW i \in 1 .. Len(p) PROVE z[i] = q[i]
    <3>1. k + i \in 1 .. Len(s) /\ i \in 1 .. Len(s) - k /\ i \in 1 .. Len(s) + 1 - k
      BY <1>2, <1>4
    <3> QED
      BY <3>1, <1>2, <1>4, <1>5, <1>7, Zenon
  <2>3. z[Len(q)] = q[Len(q)]
    <3>1. Len(q) \in 1 .. Len(s) + 1 - k
      BY <1>2, <1>5
    <3>2. q[Len(q)] = r[k + Len(q)]
      BY <3>1, <1>5, Zenon
    <3>3. z[Len(q)] = e
      BY <2>1, <1>7, Zenon
    <3> QED
      BY <3>2, <3>3, <2>1, <1>2, Zenon
  <2>4. \A i \in 1 .. Len(q) : i \in 1 .. Len(p) \/ i = Len(q)
    BY <2>1, <1>4
  <2> QED
    BY <2>1, <2>2, <2>3, <2>4, Zenon
<1>9. z = q
  BY <1>5, <1>7, <1>8, SeqEqual
<1> QED
  BY <1>1, <1>3, <1>6, <1>9

LEMMA SuffixTail ==
  ASSUME NEW S, NEW s \in Seq(S), NEW k \in Nat, k < Len(s)
  PROVE  /\ SubSeq(s, k + 1, Len(s)) # <<>>
         /\ Head(SubSeq(s, k + 1, Len(s))) = s[k + 1]
         /\ Tail(SubSeq(s, k + 1, Len(s))) = SubSeq(s, k + 2, Len(s))
<1>1. PICK p, q : p = SubSeq(s, k + 1, Len(s)) /\ q = SubSeq(s, (k + 1) + 1, Len(s))
  OBVIOUS
<1>2. /\ p \in Seq(S) /\ Len(p) = Len(s) - k /\ Len(s) \in Nat
      /\ \A i \in 1 .. Len(s) - k : p[i] = s[k + i]
  BY <1>1, SuffixFacts
<1>3. /\ q \in Seq(S) /\ Len(q) = Len(s) - (k + 1)
      /\ \A i \in 1 .. Len(s) - (k + 1) : q[i] = s[(k + 1) + i]
  BY <1>1, <1>2, SuffixFacts
<1>4. p # <<>> /\ Head(p) = s[k + 1]
  BY <1>2
<1>5. /\ Tail(p) \in Seq(S) /\ Len(Tail(p)) = Len(p) - 1
      /\ \A i \in 1 .. Len(p) - 1 : Tail(p)[i] = p[i + 1]
  BY <1>2, <1>4, HeadTailProperties
<1>6. \A i \in 1 .. Len(q) : Tail(p)[i] = q[i]
  BY <1>2, <1>3, <1>5
<1>7. Tail(p) = q
  BY <1>2, <1>3, <1>5, <1>6, SeqEqual
<1>8. (k + 1) + 1 = k + 2
  OBVIOUS
<1> QED
  BY <1>1, <1>4, <1>7, <1>8

(* The values the refinement mapping gives to the variables of TaskQueue. *)
AbsPhase == IF pc[Owner] \in {"drain", "drain_pool", "free_queue", "end"}
            THEN "closed"
            ELSE IF pc[Owner] = "join" THEN "closing" ELSE "open"
AbsPending   == SubSeq(accepted, Gone + 1, Len(accepted))
AbsExecuting == Range(fetched) \ done
AbsDiscarded == {accepted[i] : i \in Len(fetched) + 1 .. Gone}

(* The steps TaskQueue can see. *)
LEMMA VisibleSteps ==
  ASSUME IInv, [Next]_vars
  PROVE  \/ UNCHANGED <<accepted, fetched, dropped, done>> /\ AbsPhase' = AbsPhase
         \/ ReleaseCloses \/ ReleaseJoined \/ Drain
         \/ \E t \in Threads : AddLink(t)
         \/ \E w \in Workers : FetchUnlink(w) \/ TaskReturns(w)
<1> DEFINE Same == UNCHANGED <<accepted, fetched, dropped, done>> /\ AbsPhase' = AbsPhase
<1>a. core \in 0 .. NCORE /\ pc \in [Threads -> OwnerPcs \cup WorkerPcs]
  BY DEF IInv, TypeOK, PcOK
<1>b. /\ Owner \in Threads /\ Owner \notin Workers
      /\ Workers \subseteq Threads /\ Clients \subseteq Threads
  BY ThreadFacts
<1> USE <1>a, <1>b DEF Step, Goto, book, hist, AbsPhase
<1>1. ASSUME AllocFails PROVE Same
  BY <1>1 DEF AllocFails
<1>2. ASSUME AllocQueue PROVE Same
  BY <1>2 DEF AllocQueue
<1>3. ASSUME CreateWorker PROVE Same
  <2>1. core - 1 \in Workers
    BY <1>3, ThreadFacts DEF CreateWorker, ToCreate, Workers
  <2> QED
    BY <1>3, <2>1 DEF CreateWorker
<1>4. ASSUME AllocReturns PROVE Same
  BY <1>4 DEF AllocReturns
<1>5. ASSUME CreateFails PROVE Same
  BY <1>5 DEF CreateFails
<1>6. ASSUME RollbackJoinsNoThread PROVE Same
  BY <1>6 DEF RollbackJoinsNoThread
<1>7. ASSUME RollbackJoins PROVE Same
  BY <1>7 DEF RollbackJoins
<1>8. ASSUME RollbackFrees PROVE Same
  BY <1>8 DEF RollbackFrees
<1>9. ASSUME ReleaseJoins PROVE Same
  BY <1>9 DEF ReleaseJoins
<1>10. ASSUME DrainPool PROVE Same
  BY <1>10 DEF DrainPool
<1>11. ASSUME FreeQueue PROVE Same
  BY <1>11 DEF FreeQueue
<1>12. ASSUME NEW t \in Threads, NEW x \in Tasks, Additem(t, x) PROVE Same
  BY <1>12 DEF Additem, MayCall, ClientPcs, AddPcs, WaitPcs
<1>13. ASSUME NEW t \in Threads, AddLock(t) PROVE Same
  BY <1>13 DEF AddLock
<1>14. ASSUME NEW t \in Threads, AddCheck(t) PROVE Same
  BY <1>14 DEF AddCheck, Caller
<1>15. ASSUME NEW t \in Threads, AddAlloc(t) PROVE Same
  BY <1>15 DEF AddAlloc
<1>16. ASSUME NEW t \in Threads, AddUnlock(t) PROVE Same
  BY <1>16 DEF AddUnlock, Caller
<1>17. ASSUME NEW w \in Workers, FetchLock(w) PROVE Same
  BY <1>17 DEF FetchLock
<1>18. ASSUME NEW w \in Workers, Loop(w) PROVE Same
  BY <1>18 DEF Loop, KeepLooping
<1>19. ASSUME NEW w \in Workers, FetchFirst(w) PROVE Same
  BY <1>19 DEF FetchFirst
<1>20. ASSUME NEW w \in Workers, FetchUnlock(w) PROVE Same
  BY <1>20 DEF FetchUnlock, AfterFetch
<1>21. ASSUME NEW c \in Clients, Wait(c) PROVE Same
  BY <1>21 DEF Wait, MayCall, ClientPcs, AddPcs, WaitPcs
<1>22. ASSUME NEW c \in Clients, WaitLock(c) PROVE Same
  BY <1>22 DEF WaitLock
<1>23. ASSUME NEW c \in Clients, WaitRead(c) PROVE Same
  BY <1>23 DEF WaitRead, WaitTest
<1>24. ASSUME NEW c \in Clients, WaitUnlock(c) PROVE Same
  BY <1>24 DEF WaitUnlock
<1>25. CASE UNCHANGED vars
  BY <1>25 DEF vars
<1> QED
  BY <1>1, <1>2, <1>3, <1>4, <1>5, <1>6, <1>7, <1>8, <1>9, <1>10,
     <1>11, <1>12, <1>13, <1>14, <1>15, <1>16, <1>17, <1>18, <1>19,
     <1>20, <1>21, <1>22, <1>23, <1>24, <1>25
     DEF Next, AllocNext, ReleaseSteps, AddSteps, FetchSteps, Halted


(* Linking a unit is TaskQueue's Accept: the task is new, and nothing has   *)
(* been discarded yet.                                                     *)
LEMMA LinkAccepts ==
  ASSUME IInv, NEW t \in Threads, AddLink(t)
  PROVE  arg[t] \in Tasks /\ Abstract!Accept(arg[t])
<1>a. /\ TypeOK /\ ListShape /\ PhaseInv /\ OfferInv /\ BusyInv /\ FifoExactlyOnce
      /\ pc \in [Threads -> OwnerPcs \cup WorkerPcs]
  BY DEF IInv, TypeOK, PcOK
<1>b. pc[t] = "add_link" /\ pc' = [pc EXCEPT ![t] = "add_unlock"]
  BY DEF AddLink, Step, Goto
<1>c. dropped = 0 /\ pc[Owner] \notin After \cup Before
  BY <1>a, <1>b, NothingDropped, QuietPhases
<1>d. accepted' = Append(accepted, arg[t]) /\ UNCHANGED <<fetched, dropped, done>>
  BY DEF AddLink, book
<1>e. arg[t] \in Tasks /\ arg[t] \notin Range(accepted) /\ accepted \in Seq(Tasks)
  BY <1>a, LinkFacts DEF TypeOK
<1>f. /\ Gone = Len(fetched) /\ Gone \in Nat /\ Gone <= Len(accepted)
      /\ Len(accepted) \in Nat
  BY <1>a, <1>c, Positions DEF Gone, ListShape
<1>1. AbsPhase # "closed" /\ AbsPhase' = AbsPhase
  <2>1. pc[Owner] # "join" \/ t # Owner
    BY <1>b
  <2> QED
    BY <1>a, <1>b, <1>c DEF AbsPhase, After
<1>2. arg[t] \notin AbsExecuting \cup done
  <2>1. Range(fetched) \subseteq Range(accepted)
    BY <1>a, RangeFacts DEF FifoExactlyOnce, TypeOK
  <2> QED
    BY <2>1, <1>a, <1>e DEF AbsExecuting, BusyInv
<1>3. AbsDiscarded = {} /\ AbsDiscarded' = {}
  BY <1>c, <1>d, <1>f DEF AbsDiscarded, Gone
<1>4. \A i \in DOMAIN AbsPending : AbsPending[i] # arg[t]
  <2>1. PICK p : p = AbsPending
    OBVIOUS
  <2>2. /\ p \in Seq(Tasks) /\ Len(p) = Len(accepted) - Gone
        /\ \A i \in 1 .. Len(accepted) - Gone : p[i] = accepted[Gone + i]
    BY <2>1, <1>e, <1>f, SuffixFacts DEF AbsPending
  <2>3. \A i \in 1 .. Len(accepted) : accepted[i] # arg[t]
    BY <1>e, RangeFacts
  <2>4. DOMAIN p = 1 .. Len(accepted) - Gone
    BY <2>2
  <2> QED
    BY <2>1, <2>2, <2>3, <2>4, <1>f
<1>5. AbsPending' = Append(AbsPending, arg[t])
  <2>1. Gone' = Gone
    BY <1>d DEF Gone
  <2> QED
    BY <2>1, <1>d, <1>e, <1>f, SuffixAppend DEF AbsPending
<1>6. AbsExecuting' = AbsExecuting /\ done' = done
  BY <1>d DEF AbsExecuting
<1> QED
  BY <1>e, <1>1, <1>2, <1>3, <1>4, <1>5, <1>6
  DEF Abstract!Accept, AbsPhase, AbsPending, AbsExecuting, AbsDiscarded

(* Unlinking the first unit is TaskQueue's Start. *)
LEMMA UnlinkStarts ==
  ASSUME IInv, NEW w \in Workers, FetchUnlink(w)
  PROVE  Abstract!Start
<1>a. /\ TypeOK /\ ListShape /\ PhaseInv /\ HandInv /\ BusyInv
      /\ pc \in [Threads -> OwnerPcs \cup WorkerPcs] /\ accepted \in Seq(Tasks)
  BY DEF IInv, TypeOK, PcOK
<1>b. pc[w] = "fetch_unlink" /\ pc' = [pc EXCEPT ![w] = "fetch_unlock"]
  BY DEF FetchUnlink, Step, Goto
<1>c. dropped = 0 /\ pc[Owner] \notin After /\ w # Owner /\ w \in Threads
  BY <1>a, <1>b, NothingDropped, ThreadFacts
<1>d. UNCHANGED <<accepted, dropped, done>>
  BY DEF FetchUnlink, book
<1>e. /\ Gone = Len(fetched) /\ Gone \in Nat /\ Len(accepted) \in Nat
      /\ Gone < Len(accepted) /\ Gone' = Gone + 1
      /\ Range(fetched') = Range(fetched) \cup {accepted[Gone + 1]}
      /\ Len(fetched') = Gone + 1
  BY <1>a, <1>c, <1>d, Positions, UnlinkFacts DEF Gone
<1>f. accepted[Gone + 1] \notin Range(fetched)
  BY <1>e, FreshTask
<1>1. AbsPhase # "closed" /\ AbsPhase' = AbsPhase
  BY <1>a, <1>b, <1>c DEF AbsPhase, After
<1>2. /\ AbsPending # <<>> /\ Head(AbsPending) = accepted[Gone + 1]
      /\ Tail(AbsPending) = AbsPending'
  <2>1. Gone' + 1 = Gone + 2 /\ accepted' = accepted
    BY <1>d, <1>e
  <2> QED
    BY <2>1, <1>a, <1>e, SuffixTail DEF AbsPending
<1>3. AbsExecuting' = AbsExecuting \cup {accepted[Gone + 1]} /\ done' = done
  BY <1>a, <1>d, <1>e, <1>f DEF AbsExecuting, BusyInv
<1>4. AbsDiscarded' = AbsDiscarded
  <2>1. Len(fetched) + 1 .. Gone = {} /\ Len(fetched') + 1 .. Gone' = {}
    BY <1>e
  <2> QED
    BY <2>1 DEF AbsDiscarded
<1> QED
  BY <1>1, <1>2, <1>3, <1>4
  DEF Abstract!Start, AbsPhase, AbsPending, AbsExecuting, AbsDiscarded

(* The return of a task is TaskQueue's Finish. *)
LEMMA ReturnFinishes ==
  ASSUME IInv, NEW w \in Workers, TaskReturns(w)
  PROVE  unit[w] \in Tasks /\ Abstract!Finish(unit[w])
<1>a. BusyInv /\ pc \in [Threads -> OwnerPcs \cup WorkerPcs] /\ fetched \in Seq(Tasks)
  BY DEF IInv, TypeOK, PcOK
<1>b. pc[w] = "run" /\ pc' = [pc EXCEPT ![w] = "loop"] /\ w # Owner
  BY ThreadFacts DEF TaskReturns, Step, Goto
<1>c. done' = done \cup {unit[w]} /\ UNCHANGED <<accepted, fetched, dropped>>
  BY DEF TaskReturns, hist
<1>1. unit[w] \in Range(fetched) \ done
  BY <1>a, <1>b DEF BusyInv, Busy
<1>2. unit[w] \in Tasks
  BY <1>1, <1>a, RangeFacts
<1>3. unit[w] \in AbsExecuting /\ AbsExecuting' = AbsExecuting \ {unit[w]}
  BY <1>1, <1>c DEF AbsExecuting
<1>4. AbsPhase' = AbsPhase
  BY <1>a, <1>b, ThreadFacts DEF AbsPhase
<1>5. AbsPending' = AbsPending /\ AbsDiscarded' = AbsDiscarded
  BY <1>c DEF AbsPending, AbsDiscarded, Gone
<1> QED
  BY <1>2, <1>3, <1>4, <1>5, <1>c
  DEF Abstract!Finish, AbsPhase, AbsPending, AbsExecuting, AbsDiscarded

(* Setting CLOSED is TaskQueue's Close. *)
LEMMA ReleaseIsClose ==
  ASSUME IInv, ReleaseCloses
  PROVE  Abstract!Close
<1>a. pc \in [Threads -> OwnerPcs \cup WorkerPcs] /\ Owner \in Threads
  BY ThreadFacts DEF IInv, TypeOK, PcOK
<1>b. pc[Owner] = "idle" /\ pc' = [pc EXCEPT ![Owner] = "join"]
  BY WorkQueueAssumption DEF ReleaseCloses, Goto
<1>c. UNCHANGED <<accepted, fetched, dropped, done>>
  BY DEF ReleaseCloses, hist
<1>1. AbsPhase = "open" /\ AbsPhase' = "closing"
  BY <1>a, <1>b DEF AbsPhase
<1>2. UNCHANGED <<AbsPending, AbsExecuting, done, AbsDiscarded>>
  BY <1>c DEF AbsPending, AbsExecuting, AbsDiscarded, Gone
<1> QED
  BY <1>1, <1>2
  DEF Abstract!Close, AbsPhase, AbsPending, AbsExecuting, AbsDiscarded

(* The last join is TaskQueue's Stop: no task is executing any more. *)
LEMMA JoinIsStop ==
  ASSUME IInv, ReleaseJoined
  PROVE  Abstract!Stop
<1>a. /\ pc \in [Threads -> OwnerPcs \cup WorkerPcs] /\ Owner \in Threads
      /\ OneExecutor /\ PhaseInv
  BY ThreadFacts DEF IInv, TypeOK, PcOK
<1>b. core = 0 /\ pc[Owner] = "join" /\ pc' = [pc EXCEPT ![Owner] = "drain"]
  BY DEF ReleaseJoined, Step, Goto
<1>c. UNCHANGED <<accepted, fetched, dropped, done>>
  BY DEF ReleaseJoined, hist, book
<1>1. AbsPhase = "closing" /\ AbsPhase' = "closed"
  BY <1>a, <1>b DEF AbsPhase
<1>2. UNCHANGED <<AbsPending, AbsExecuting, done, AbsDiscarded>>
  BY <1>c DEF AbsPending, AbsExecuting, AbsDiscarded, Gone
<1>3. \A w \in Workers : ~Busy(w)
  BY <1>a, <1>b DEF PhaseInv, Workers, Busy, AddPcs
<1>4. AbsExecuting = {}
  BY <1>3, <1>a DEF AbsExecuting, OneExecutor
<1> QED
  BY <1>1, <1>2, <1>4
  DEF Abstract!Stop, AbsPhase, AbsPending, AbsExecuting, AbsDiscarded

(* Freeing a unit of the list is TaskQueue's Discard; the end of the loop   *)
(* is not visible.                                                         *)
LEMMA DrainDiscards ==
  ASSUME IInv, Drain
  PROVE  \/ Abstract!Discard
         \/ UNCHANGED <<AbsPhase, AbsPending, AbsExecuting, done, AbsDiscarded>>
<1>a. /\ pc \in [Threads -> OwnerPcs \cup WorkerPcs] /\ Owner \in Threads
      /\ ListShape /\ TypeOK /\ accepted \in Seq(Tasks)
  BY ThreadFacts DEF IInv, TypeOK, PcOK
<1>b. pc[Owner] = "drain" /\ UNCHANGED <<accepted, fetched, done>>
  BY DEF Drain, book
<1>c. /\ Gone = Len(fetched) + dropped /\ Gone \in Nat /\ Len(fetched) \in Nat
      /\ dropped \in Nat /\ Len(accepted) \in Nat
  BY <1>a, Positions DEF Gone
<1>1. CASE first # NULL
  <2>1. pc' = pc /\ dropped' = dropped + 1 /\ Gone' = Gone + 1
    BY <1>1, <1>b, <1>c DEF Drain, Gone
  <2>2. Gone < Len(accepted)
    BY <1>1, <1>a DEF ListShape
  <2>3. AbsPhase = "closed" /\ AbsPhase' = "closed"
    BY <1>b, <2>1 DEF AbsPhase
  <2>4. /\ AbsPending # <<>> /\ Head(AbsPending) = accepted[Gone + 1]
        /\ Tail(AbsPending) = AbsPending'
    <3>1. Gone' + 1 = Gone + 2 /\ accepted' = accepted
      BY <1>b, <1>c, <2>1
    <3> QED
      BY <3>1, <1>a, <1>c, <2>2, SuffixTail DEF AbsPending
  <2>5. AbsDiscarded' = AbsDiscarded \cup {accepted[Gone + 1]}
    <3>1. Len(fetched) + 1 .. Gone + 1 = (Len(fetched) + 1 .. Gone) \cup {Gone + 1}
      BY <1>c
    <3>2. AbsDiscarded' = {accepted[i] : i \in Len(fetched) + 1 .. Gone + 1}
      BY <1>b, <2>1 DEF AbsDiscarded
    <3> QED
      BY <3>1, <3>2 DEF AbsDiscarded
  <2>6. AbsExecuting' = AbsExecuting
    BY <1>b DEF AbsExecuting
  <2> QED
    BY <1>b, <2>3, <2>4, <2>5, <2>6
    DEF Abstract!Discard, AbsPhase, AbsPending, AbsExecuting, AbsDiscarded
<1>2. CASE first = NULL
  <2>1. pc' = [pc EXCEPT ![Owner] = "drain_pool"] /\ dropped' = dropped
    BY <1>2 DEF Drain, Goto
  <2>2. AbsPhase' = AbsPhase
    BY <1>a, <1>b, <2>1 DEF AbsPhase
  <2> QED
    BY <1>b, <2>1, <2>2 DEF AbsPending, AbsExecuting, AbsDiscarded, Gone
<1> QED
  BY <1>1, <1>2

(* Every step of the threads is a step of TaskQueue or invisible to it. *)
LEMMA StepsOfTaskQueue ==
  ASSUME IInv, [Next]_vars
  PROVE  \/ Abstract!TQNext
         \/ UNCHANGED <<AbsPhase, AbsPending, AbsExecuting, done, AbsDiscarded>>
<1> USE DEF Abstract!TQNext
<1>1. CASE UNCHANGED <<accepted, fetched, dropped, done>> /\ AbsPhase' = AbsPhase
  BY <1>1 DEF AbsPending, AbsExecuting, AbsDiscarded, Gone
<1>2. CASE ReleaseCloses
  BY <1>2, ReleaseIsClose
<1>3. CASE ReleaseJoined
  BY <1>3, JoinIsStop
<1>4. CASE Drain
  BY <1>4, DrainDiscards
<1>5. ASSUME NEW t \in Threads, AddLink(t) PROVE Abstract!TQNext
  BY <1>5, LinkAccepts
<1>6. ASSUME NEW w \in Workers, FetchUnlink(w) PROVE Abstract!TQNext
  BY <1>6, UnlinkStarts
<1>7. ASSUME NEW w \in Workers, TaskReturns(w) PROVE Abstract!TQNext
  BY <1>7, ReturnFinishes
<1> QED
  BY <1>1, <1>2, <1>3, <1>4, <1>5, <1>6, <1>7, VisibleSteps

(* The threads, the mutex, the unit list and the pool implement the queue   *)
(* of tasks that workqueue.c promises, for any number of workers, clients,  *)
(* units and tasks: tasks start in the order of acceptance, run at most     *)
(* once, and release discards exactly the ones that never started.          *)
THEOREM ImplementsAbstractQueue == Spec => ImplementsTaskQueue
<1>1. Init => Abstract!TQInit
  <2> SUFFICES ASSUME Init PROVE Abstract!TQInit
    OBVIOUS
  <2>1. pc[Owner] = "start"
    BY ThreadFacts DEF Init
  <2>2. accepted = <<>> /\ fetched = <<>> /\ dropped = 0 /\ done = {}
    BY DEF Init
  <2>3. AbsPhase = "open"
    BY <2>1 DEF AbsPhase
  <2>4. Gone = 0 /\ Len(accepted) = 0 /\ Len(fetched) = 0
    BY <2>2 DEF Gone
  <2>5. AbsPending = <<>>
    BY <2>2, <2>4 DEF AbsPending
  <2>6. AbsExecuting = {}
    BY <2>2 DEF AbsExecuting, Range
  <2>7. AbsDiscarded = {}
    BY <2>4 DEF AbsDiscarded
  <2> QED
    BY <2>2, <2>3, <2>5, <2>6, <2>7
    DEF Abstract!TQInit, AbsPhase, AbsPending, AbsExecuting, AbsDiscarded
<1>2. IInv /\ [Next]_vars => [Abstract!TQNext]_(Abstract!tqVars)
  BY StepsOfTaskQueue
  DEF Abstract!tqVars, AbsPhase, AbsPending, AbsExecuting, AbsDiscarded
<1> QED
  BY <1>1, <1>2, Invariance, PTL DEF Spec, ImplementsTaskQueue, Abstract!TQSpec
=============================================================================
