-------------------------------- MODULE Queue --------------------------------
(***************************************************************************)
(* The FIFO and circular queue of queue/queue.c: a list of nodes with a    *)
(* fixed number of item slots, filled at the tail, emptied at the head,    *)
(* and a pool of spare nodes.  Calls are sequential: a call is one step.   *)
(*                                                                         *)
(* data holds the items stored in a node since it was taken; the first     *)
(* offset of them have been popped, so node->used is the number of the     *)
(* others.  The tail is the last node of the list; when the list is empty  *)
(* queue->tail points to a node that was given back.                       *)
(*                                                                         *)
(* Two pushes are undefined behaviour: phase "overrun" is a store behind   *)
(* the last slot, over node->offset and node->used, and phase "dangling" a *)
(* store through the tail of an empty list, into a node that is in the     *)
(* pool or freed.  Nothing is said of a queue after them.                  *)
(***************************************************************************)
EXTENDS Integers, Sequences, SequencesExt

CONSTANTS
  Elements,
  Circulars,     \* the values of the parameter circular; 0 for queue_alloc
  NITEMS,        \* __QUEUE_NITEMS
  POOL_SIZE,     \* __QUEUE_POOL_SIZE
  MaxItems       \* bound: items in the queue

ASSUME QueueAssumption ==
  NITEMS \in Nat \ {0} /\ POOL_SIZE \in Nat /\ Circulars \subseteq Nat

VARIABLES
  phase,      \* "open" from alloc to free
  circular,   \* queue->circular
  q,          \* the list, queue->pool, queue->nitems; nodes allocated
  ret         \* what the last call returned and the items it freed

vars == <<phase, circular, q, ret>>

Empty == [list |-> <<>>, pool |-> 0, nitems |-> 0, nodes |-> 0]
Node(offset, data) == [offset |-> offset, data |-> data]
Used(n)      == Len(n.data) - n.offset
TailNode(r)  == r.list[Len(r.list)]
Returns(value, freed) == ret' = [value |-> value, freed |-> freed]

Init ==
  /\ phase = "none" /\ circular = 0
  /\ q = Empty
  /\ ret = [value |-> 0, freed |-> <<>>]

(* queue_circular_alloc, and queue_alloc with c = 0 *)
queue_circular_alloc(c) ==
  /\ phase = "none"
  /\ phase' = "open" /\ circular' = c /\ q' = Empty
  /\ Returns(0, <<>>)

-----------------------------------------------------------------------------
(* __queue_node_alloc, when it does not fail *)
NodeTaken(r) ==
  IF r.pool > 0 THEN [r EXCEPT !.pool = @ - 1] ELSE [r EXCEPT !.nodes = @ + 1]

(* __queue_node_free *)
NodeGiven(r) ==
  IF r.pool < POOL_SIZE THEN [r EXCEPT !.pool = @ + 1] ELSE [r EXCEPT !.nodes = @ - 1]

(* The item queue_pop takes, *)
Oldest(r) == LET h == Head(r.list) IN h.data[h.offset + 1]

(* Mutant: a node without items stays in the list. *)
PoppedMutant(r) == [r EXCEPT !.list[1].offset = @ + 1, !.nitems = @ - 1]

(* and the queue it leaves: a node without items goes. *)
Popped(r) ==
  LET s == [r EXCEPT !.list[1].offset = @ + 1, !.nitems = @ - 1]
  IN IF Used(Head(s.list)) = 0
     THEN [NodeGiven(s) EXCEPT !.list = Tail(@)]
     ELSE s

queue_pop ==
  /\ phase = "open" /\ q.nitems > 0
  /\ q' = Popped(q)
  /\ Returns(Oldest(q), <<>>)
  /\ UNCHANGED <<phase, circular>>

queue_pop_empty ==
  /\ phase = "open" /\ q.nitems = 0
  /\ Returns(0, <<>>)
  /\ UNCHANGED <<phase, circular, q>>

-----------------------------------------------------------------------------
(* queue_push *)

(* Mutant: the queue is full one item too late. *)
FullMutant == q.list # <<>> /\ q.nitems > circular /\ circular > 0

(* A full circular queue gives up its oldest item first. *)
Full == q.list # <<>> /\ q.nitems = circular /\ q.nitems > 0
Pushed  == IF Full THEN Popped(q) ELSE q
Dropped == IF Full THEN <<Oldest(q)>> ELSE <<>>

(* Mutant: the tail is never full. *)
TailFullLate(r) == Used(TailNode(r)) > NITEMS

(* node->used == __QUEUE_NITEMS.  Then node->offset is 0 (NodeShape), so   *)
(* the branch that moves the items back to slot 0 is never taken.          *)
TailFull(r) == Used(TailNode(r)) = NITEMS

(* There is no node yet, or the last one holds NITEMS items. *)
NeedsNode(r) == r.list = <<>> \/ TailFull(r)

(* Popping the only item has given back the tail. *)
Dangles(r) == Full /\ r.list = <<>>

(* items[offset + used] is behind the last slot. *)
Overruns(r) == ~NeedsNode(r) /\ Len(TailNode(r).data) = NITEMS

WithNode(r) == [NodeTaken(r) EXCEPT !.list = Append(@, Node(0, <<>>))]
Stored(r, e) ==
  [r EXCEPT !.list[Len(r.list)].data = Append(@, e), !.nitems = @ + 1]

PushStores(e) ==
  /\ phase = "open" /\ q.nitems < MaxItems
  /\ ~Dangles(Pushed) /\ ~Overruns(Pushed)
  /\ q' = Stored(IF NeedsNode(Pushed) THEN WithNode(Pushed) ELSE Pushed, e)
  /\ Returns(0, Dropped)
  /\ UNCHANGED <<phase, circular>>

(* There is no memory for the first node, *)
PushNoHead ==
  /\ phase = "open" /\ q.list = <<>> /\ q.pool = 0
  /\ Returns(-1, <<>>)
  /\ UNCHANGED <<phase, circular, q>>

(* or for a new tail: a circular queue has lost its oldest item by then. *)
PushNoTail ==
  /\ phase = "open" /\ q.list # <<>>
  /\ ~Dangles(Pushed) /\ TailFull(Pushed) /\ Pushed.pool = 0
  /\ q' = Pushed
  /\ Returns(-2, Dropped)
  /\ UNCHANGED <<phase, circular>>

PushUndefined ==
  /\ phase = "open"
  /\ \/ Dangles(Pushed) /\ phase' = "dangling"
     \/ ~Dangles(Pushed) /\ Overruns(Pushed) /\ phase' = "overrun"
  /\ UNCHANGED <<circular, q, ret>>

-----------------------------------------------------------------------------
(* The items __queue_node_free passes to item_free: the first node->used   *)
(* slots, wherever the items begin.                                        *)
FreedOf(n) == SubSeq(n.data, 1, Used(n))

(* queue_free: the nodes go through the pool and are freed with it. *)
queue_free ==
  /\ phase = "open"
  /\ phase' = "none"
  /\ q' = [Empty EXCEPT !.nodes = q.nodes - (Len(q.list) + q.pool)]
  /\ Returns(0, FlattenSeq([i \in 1 .. Len(q.list) |-> FreedOf(q.list[i])]))
  /\ UNCHANGED circular

Next ==
  \/ \E c \in Circulars : queue_circular_alloc(c)
  \/ \E e \in Elements : PushStores(e)
  \/ PushNoHead \/ PushNoTail \/ PushUndefined
  \/ queue_pop \/ queue_pop_empty \/ queue_free
  \/ phase \in {"overrun", "dangling"} /\ UNCHANGED vars

Spec == Init /\ [][Next]_vars
=============================================================================
