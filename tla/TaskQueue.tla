------------------------------ MODULE TaskQueue ------------------------------
(***************************************************************************)
(* What the work queue promises its clients, without threads, locks or     *)
(* memory: tasks are started in the order they were accepted, each is      *)
(* executed at most once, and releasing the queue waits for the tasks that *)
(* are executing and discards those that have not started.                 *)
(***************************************************************************)
EXTENDS Sequences

CONSTANTS Tasks

VARIABLES
  phase,      \* "open", "closing" (release has begun), "closed"
  pending,    \* accepted tasks, in order
  executing,  \* tasks a worker is executing
  finished,   \* tasks that have returned
  discarded   \* tasks thrown away by release

tqVars == <<phase, pending, executing, finished, discarded>>

TQInit ==
  /\ phase = "open"
  /\ pending = <<>>
  /\ executing = {} /\ finished = {} /\ discarded = {}

(* A task that has passed the state check may be accepted while the queue  *)
(* is closing.                                                             *)
Accept(x) ==
  /\ phase # "closed"
  /\ x \notin executing \cup finished \cup discarded
  /\ \A i \in DOMAIN pending : pending[i] # x
  /\ pending' = Append(pending, x)
  /\ UNCHANGED <<phase, executing, finished, discarded>>

Start ==
  /\ phase # "closed"
  /\ pending # <<>>
  /\ executing' = executing \cup {Head(pending)}
  /\ pending' = Tail(pending)
  /\ UNCHANGED <<phase, finished, discarded>>

Finish(x) ==
  /\ x \in executing
  /\ executing' = executing \ {x}
  /\ finished' = finished \cup {x}
  /\ UNCHANGED <<phase, pending, discarded>>

Close ==
  /\ phase = "open"
  /\ phase' = "closing"
  /\ UNCHANGED <<pending, executing, finished, discarded>>

(* Every worker has returned. *)
Stop ==
  /\ phase = "closing"
  /\ executing = {}
  /\ phase' = "closed"
  /\ UNCHANGED <<pending, executing, finished, discarded>>

Discard ==
  /\ phase = "closed"
  /\ pending # <<>>
  /\ pending' = Tail(pending)
  /\ discarded' = discarded \cup {Head(pending)}
  /\ UNCHANGED <<phase, executing, finished>>

TQNext ==
  \/ \E x \in Tasks : Accept(x) \/ Finish(x)
  \/ Start \/ Close \/ Stop \/ Discard

TQSpec == TQInit /\ [][TQNext]_tqVars
=============================================================================
