------------------------------- MODULE ChunkQ --------------------------------
(***************************************************************************)
(* The chunk queue of chunkq/chunkq.c: bytes in a list of chunks of a      *)
(* fixed size, appended at the tail and read from the head, with a pool of *)
(* spare chunks.  Calls are sequential, so a call is one step; its inner   *)
(* loops over chunks are the operators below.                              *)
(*                                                                         *)
(* node->data holds, from its start, the bytes written since the chunk was *)
(* taken; the first node->offset of them have been read.                   *)
(***************************************************************************)
EXTENDS Integers, Sequences, FiniteSets, SequencesExt

CONSTANTS
  Bytes,
  CHUNK,         \* chunkq->chunk
  CHUNK_POOL,    \* __CHUNK_POOL
  UINT,          \* 2^32 in the code: psize is a uint32_t
  MaxSize,       \* bound: bytes in the queue
  MaxBuf         \* bound: bytes of one call

(* chunkq_alloc is given a chunk size; a byte has some value. *)
ASSUME ChunkQAssumption == CHUNK \in Nat \ {0} /\ Bytes # {} /\ MaxBuf \in Nat

VARIABLES
  phase,    \* "open" from alloc to free, else "none"
  chunks,   \* the nodes from head to tail
  pool,     \* number of nodes linked from chunkq->pool
  psize,    \* chunkq->psize
  size,     \* chunkq->size
  nodes,    \* nodes allocated and not freed
  ret       \* bytes asked for, value returned and bytes copied out, last call

vars == <<phase, chunks, pool, psize, size, nodes, ret>>

Node(offset, data) == [offset |-> offset, data |-> data]
NodeSize(c)  == Len(c.data) - c.offset
Window(c)    == SubSeq(c.data, c.offset + 1, Len(c.data))
Room(c)      == CHUNK - Len(c.data)
Least(a, b)  == IF a < b THEN a ELSE b

(* Bytes in the first i chunks. *)
BytesUpTo(i) == Len(FlattenSeq([j \in 1 .. i |-> Window(chunks[j])]))

Returns(asked, value, buf) ==
  ret' = [asked |-> asked, value |-> value, buf |-> buf]

Init ==
  /\ phase = "none" /\ chunks = <<>>
  /\ pool = 0 /\ psize = 0 /\ size = 0 /\ nodes = 0
  /\ ret = [asked |-> 0, value |-> 0, buf |-> <<>>]

(* chunkq_alloc *)
Alloc ==
  /\ phase = "none"
  /\ phase' = "open"
  /\ chunks' = <<>> /\ pool' = 0 /\ psize' = 0 /\ size' = 0
  /\ Returns(0, 0, <<>>)
  /\ UNCHANGED nodes

-----------------------------------------------------------------------------
(* __chunkn_alloc, called k times with success *)
TakeNodes(k) ==
  LET reused == Least(k, pool)
  IN /\ pool' = pool - reused
     /\ psize' = (psize - reused) % UINT
     /\ nodes' = nodes + (k - reused)

(* __chunkn_free, called for k nodes: psize decides and is not changed *)
GiveNodes(k) ==
  IF psize > CHUNK_POOL
  THEN nodes' = nodes - k /\ UNCHANGED pool
  ELSE pool' = pool + k /\ UNCHANGED nodes

(* A chunk after memcpy() of as much of buf as fits behind its bytes. *)
Filled(c, buf) == Node(c.offset, c.data \o SubSeq(buf, 1, Least(Room(c), Len(buf))))

(* The chunks of append: the tail is filled, then k new chunks are. *)
Appended(cs, buf, k) ==
  LET tail == cs[Len(cs)]
      rest == SubSeq(buf, Room(tail) + 1, Len(buf))
  IN Append(Front(cs), Filled(tail, buf)) \o
     [i \in 1 .. k |->
        Node(0, SubSeq(rest, (i - 1) * CHUNK + 1, Least(i * CHUNK, Len(rest))))]

(* Mutant: one more chunk than needed when the bytes end with a chunk. *)
NewChunksMutant(cs, n) ==
  LET room == Room(cs[Len(cs)])
  IN IF n <= room THEN 0 ELSE (n - room + CHUNK) \div CHUNK

(* The new chunks n bytes need behind the tail. *)
NewChunks(cs, n) ==
  LET room == Room(cs[Len(cs)])
  IN IF n <= room THEN 0 ELSE (n - room + CHUNK - 1) \div CHUNK

(* if (tail == NULL): an empty chunk is put into an empty queue *)
WithTail == IF chunks = <<>> THEN <<Node(0, <<>>)>> ELSE chunks
TailNodes == IF chunks = <<>> THEN 1 ELSE 0

(* chunkq_append writes all the bytes, *)
AppendAll(buf) ==
  LET k == NewChunks(WithTail, Len(buf))
  IN /\ phase = "open"
     /\ size + Len(buf) <= MaxSize
     /\ chunks' = Appended(WithTail, buf, k)
     /\ TakeNodes(TailNodes + k)
     /\ size' = size + Len(buf)
     /\ Returns(Len(buf), Len(buf), <<>>)
     /\ UNCHANGED phase

(* or runs out of memory behind k new chunks, *)
AppendSome(buf, k) ==
  LET wr == Room(WithTail[Len(WithTail)]) + k * CHUNK
  IN /\ phase = "open"
     /\ k < NewChunks(WithTail, Len(buf))
     /\ TailNodes + k >= pool
     /\ size + wr <= MaxSize
     /\ chunks' = Appended(WithTail, SubSeq(buf, 1, wr), k)
     /\ TakeNodes(TailNodes + k)
     /\ size' = size + wr
     /\ Returns(Len(buf), wr, <<>>)
     /\ UNCHANGED phase

(* or finds none for the first chunk. *)
AppendNone ==
  /\ phase = "open" /\ chunks = <<>> /\ pool = 0
  /\ Returns(0, -1, <<>>)
  /\ UNCHANGED <<phase, chunks, pool, psize, size, nodes>>

-----------------------------------------------------------------------------
(* The bytes in the queue. *)
Content == FlattenSeq([i \in 1 .. Len(chunks) |-> Window(chunks[i])])

(* chunkq_read *)

(* The chunks whose bytes n bytes exhaust. *)
Drained(n) == {i \in 1 .. Len(chunks) : BytesUpTo(i) <= n}

(* The chunks that stay when k are drained and n bytes are read; the first *)
(* of them is read in part.                                                *)
Remaining(k, n) ==
  [i \in 1 .. Len(chunks) - k |->
     LET c == chunks[k + i]
     IN IF i = 1 THEN [c EXCEPT !.offset = @ + (n - BytesUpTo(k))] ELSE c]

(* Mutant: the bytes are copied from node->data, without node->offset. *)
CopiedMutant(n) ==
  SubSeq(FlattenSeq([i \in 1 .. Len(chunks) |-> chunks[i].data]), 1, n)

(* memcpy(p, node->data + node->offset, bksize), chunk after chunk *)
Copied(n) == SubSeq(Content, 1, n)

Read(n) ==
  LET rd == Least(n, Len(Content))
      k  == IF n = 0 THEN 0 ELSE Cardinality(Drained(rd))
  IN /\ phase = "open" /\ chunks # <<>>
     /\ Returns(n, rd, Copied(rd))
     /\ chunks' = Remaining(k, rd)
     /\ size' = size - rd
     /\ GiveNodes(k)
     /\ UNCHANGED <<phase, psize>>

ReadEmpty ==
  /\ phase = "open" /\ chunks = <<>>
  /\ Returns(0, -1, <<>>)
  /\ UNCHANGED <<phase, chunks, pool, psize, size, nodes>>

-----------------------------------------------------------------------------
(* __chunkn_at_offset: the chunk that holds the byte at offset, or 0 *)
AtOffset(offset) ==
  SelectInSeq([i \in 1 .. Len(chunks) |-> BytesUpTo(i)], LAMBDA n : n > offset)

(* Mutant: the bytes already read are not skipped. *)
FirstPartMutant(i, offset) ==
  SubSeq(chunks[i].data, offset - BytesUpTo(i - 1) + 1, NodeSize(chunks[i]))

(* The bytes of that chunk from offset on. *)
FirstPart(i, offset) ==
  SubSeq(Window(chunks[i]), offset - BytesUpTo(i - 1) + 1, NodeSize(chunks[i]))

(* The later chunks are read from node->data on, not from node->offset. *)
Later(c) == c.data

(* chunkq_peek of n bytes at offset: the bytes it copies *)
Peek(offset, n) ==
  LET i     == AtOffset(offset)
      later == [j \in 1 .. Len(chunks) - i |->
                  SubSeq(Later(chunks[i + j]), 1, NodeSize(chunks[i + j]))]
      all   == FirstPart(i, offset) \o FlattenSeq(later)
  IN IF i = 0 THEN <<>> ELSE SubSeq(all, 1, Least(n, Len(all)))

-----------------------------------------------------------------------------
(* chunkq_clear *)
Clear ==
  /\ phase = "open"
  /\ chunks' = <<>> /\ size' = 0
  /\ GiveNodes(Len(chunks))
  /\ Returns(0, 0, <<>>)
  /\ UNCHANGED <<phase, psize>>

(* chunkq_free: clear, then the nodes of the pool are given back, which    *)
(* puts them into the pool again unless psize is above the limit; then the *)
(* pool is forgotten.                                                      *)
Free ==
  /\ phase = "open"
  /\ phase' = "freed"
  /\ chunks' = <<>> /\ size' = 0 /\ pool' = 0 /\ psize' = 0
  /\ nodes' = IF psize > CHUNK_POOL THEN nodes - Len(chunks) - pool ELSE nodes
  /\ Returns(0, 0, <<>>)

Buffers == UNION {[1 .. n -> Bytes] : n \in 0 .. MaxBuf}

Next ==
  \/ Alloc \/ AppendNone \/ ReadEmpty \/ Clear \/ Free
  \/ \E buf \in Buffers : \/ AppendAll(buf)
                          \/ \E k \in 0 .. MaxBuf : AppendSome(buf, k)
  \/ \E n \in 0 .. MaxBuf : Read(n)
  \/ phase = "freed" /\ UNCHANGED vars

Spec == Init /\ [][Next]_vars
=============================================================================
