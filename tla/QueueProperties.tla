--------------------------- MODULE QueueProperties ---------------------------
(* What is claimed of Queue. *)
EXTENDS Queue

(* The items in a node, and in a list of nodes. *)
Items(n) == SubSeq(n.data, n.offset + 1, Len(n.data))
ContentOf(list) == FlattenSeq([i \in 1 .. Len(list) |-> Items(list[i])])

Content == ContentOf(q.list)

(* queue_pop and queue_push rely on the shape of the list: every node has  *)
(* an item, no item is behind the last slot, only the head was popped      *)
(* from, only the tail has free slots, and nitems counts the items.        *)
Shape(list) ==
  /\ \A i \in 1 .. Len(list) : Used(list[i]) > 0 /\ Len(list[i].data) <= NITEMS
  /\ \A i \in 2 .. Len(list) : list[i].offset = 0
  /\ \A i \in 1 .. Len(list) - 1 : Len(list[i].data) = NITEMS

NodeShape == Shape(q.list) /\ q.nitems = Len(Content)

(* Every node is in the list or in the pool, none outlives queue_free, and *)
(* the pool stays within its limit.                                        *)
NoNodeLost == q.nodes = Len(q.list) + q.pool /\ q.pool <= POOL_SIZE

(* queue.c: the list has its shape and no node is lost. *)
NodesKept == NodeShape /\ NoNodeLost

(* A push that is undefined: it runs over a node only if that is head and  *)
(* tail at once and has been popped from, by the client or by this push,   *)
(* and it writes through a dangling tail only if the capacity is one.  A   *)
(* queue of two nodes, or one that nobody pops from, is safe.              *)
UndefinedPush ==
  /\ phase' = "overrun" => Len(q.list) = 1 /\ (q.list[1].offset > 0 \/ Full)
  /\ phase' = "dangling" => circular = 1

(* queue.c: no other push is undefined. *)
UndefinedNeedsPop == [][UndefinedPush]_vars

Bounded == INSTANCE BoundedFifo WITH
  Capacities <- Circulars, capacity <- circular, content <- Content, answer <- ret

(* queue.c: up to an undefined push the nodes implement a FIFO with the given       *)
(* capacity.                                                               *)
ImplementsBoundedFifo == Bounded!FSpec

(* queue.c:174, "Tail Node is full, we need another one": a tail without a *)
(* free slot gets a successor and is never written to.                     *)
FullTailGetsNode == phase # "overrun"
-----------------------------------------------------------------------------
(* The inductive invariant: what is claimed, with the types it is about,   *)
(* and that a queue that is not allocated has no nodes.                    *)
Nodes == {n \in [offset : Nat, data : Seq(Elements)] : n.offset <= Len(n.data)}
Queues == [list : Seq(Nodes), pool : Nat, nitems : Nat, nodes : Nat]

TypeOK ==
  /\ phase \in {"none", "open", "overrun", "dangling"}
  /\ circular \in Circulars \cup {0}
  /\ q \in Queues

QueueInv == TypeOK /\ NodesKept /\ (phase = "none" => q.list = <<>>)
=============================================================================
