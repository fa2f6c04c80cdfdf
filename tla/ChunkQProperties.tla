-------------------------- MODULE ChunkQProperties ---------------------------
(* What is claimed of ChunkQ. *)
EXTENDS ChunkQ

(* The bytes in a list of chunks. *)
ContentOf(cs) == FlattenSeq([i \in 1 .. Len(cs) |-> Window(cs[i])])

(* Only the first chunk has been read from, only the last one has room,    *)
(* and a chunk without bytes is alone: chunkq_peek and chunkq_indexof take *)
(* node->data of the later chunks for their first byte.                    *)
Shape(cs) ==
  /\ \A i \in 2 .. Len(cs) : cs[i].offset = 0
  /\ \A i \in 1 .. Len(cs) - 1 : Room(cs[i]) = 0
  /\ \A i \in 1 .. Len(cs) : NodeSize(cs[i]) = 0 => Len(cs) = 1

(* chunkq->size is the number of bytes in all of them. *)
ChunkShape == Shape(chunks) /\ size = Len(Content)

(* Until the queue is freed every node is in the list or in the pool. *)
NoNodeLost == phase = "open" => nodes = Len(chunks) + pool

(* chunkq_peek sees the bytes that reads would return, wherever the chunks *)
(* are cut.                                                                *)
PeekAgrees ==
  phase = "open" =>
    \A offset \in 0 .. MaxSize, n \in 0 .. MaxSize :
      Peek(offset, n) = SubSeq(Content, offset + 1, Least(offset + n, Len(Content)))

(* chunkq.c: every node is in the list or in the pool until chunkq_free,   *)
(* only the first chunk was read from and only the last has room, so that  *)
(* chunkq_peek, which skips node->offset in its first chunk only, sees the *)
(* bytes that reads would return.                                          *)
ChunksKept == ChunkShape /\ NoNodeLost /\ PeekAgrees

Fifo == INSTANCE ByteFifo WITH content <- Content, answer <- ret

(* chunkq.c: the chunks implement a byte FIFO, with partial appends and    *)
(* reads across chunks.                                                    *)
ImplementsByteFifo == Fifo!FifoSpec
-----------------------------------------------------------------------------
(* The inductive invariant: what is claimed, with the types it is about;   *)
(* a chunk that has lost all its bytes is not kept for more, and a queue   *)
(* that is not allocated has no nodes.                                     *)
ChunkNodes ==
  {c \in [offset : Nat, data : Seq(Bytes)] : c.offset <= Len(c.data) /\ Len(c.data) <= CHUNK}

TypeOK ==
  /\ phase \in {"none", "open", "freed"}
  /\ chunks \in Seq(ChunkNodes)
  /\ pool \in Nat /\ nodes \in Int

NothingSpent(cs) == \A i \in 1 .. Len(cs) : NodeSize(cs[i]) = 0 => cs[i].data = <<>>

ChunkQInv ==
  /\ TypeOK /\ ChunkShape /\ NothingSpent(chunks) /\ NoNodeLost
  /\ phase # "open" => chunks = <<>>
  /\ phase = "none" => nodes = 0
=============================================================================
