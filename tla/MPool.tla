-------------------------------- MODULE MPool --------------------------------
(***************************************************************************)
(* The memory pool of mpool/mpool.c: chunks that follow each other in one  *)
(* block of memory, each with a header of its size and a used bit.         *)
(*                                                                         *)
(* chunks are the headers in the order in which walking from mpool->mem    *)
(* meets them; at is the address of the block behind a header.  Four steps *)
(* leave memory in a state where that walk is no longer defined, and       *)
(* nothing is said of the pool after them: phase "wrapped", the header of  *)
(* the rest of a split gets a negative size and lies over the next one;    *)
(* "beyond", what follows the last chunk was taken for a free one;         *)
(* "overrun", memcpy() with the used bit in its size.                      *)
(***************************************************************************)
EXTENDS Integers, Sequences, SequencesExt

CONSTANTS
  HEADER,    \* sizeof(mchunk_t)
  POOL,      \* size of the memory
  Sizes,     \* sizes clients ask for
  UINT       \* 2^32 in the code: mpool->free is a uint32_t

VARIABLES
  phase,
  chunks,    \* the chunks in the order of their addresses
  free,      \* mpool->free
  held,      \* address -> size asked for, of the blocks clients hold
  grown      \* a block was extended over the whole of its neighbour

vars == <<phase, chunks, free, held, grown>>

Chunk(at, size, used) == [at |-> at, size |-> size, used |-> used]

IndexOf(a) == CHOOSE i \in 1 .. Len(chunks) : chunks[i].at = a

(* mpool_init *)
Init ==
  /\ phase = "open"
  /\ chunks = <<Chunk(HEADER, POOL - HEADER, FALSE)>>
  /\ free = POOL - HEADER
  /\ held = <<>> /\ grown = FALSE

-----------------------------------------------------------------------------
(* Chunks i and i + 1 become one, used or free like chunk i. *)
Merged(cs, i) ==
  SubSeq(cs, 1, i - 1)
    \o <<Chunk(cs[i].at, cs[i].size + cs[i + 1].size + HEADER, cs[i].used)>>
    \o SubSeq(cs, i + 2, Len(cs))

(* Chunk i becomes a used one of n bytes and, behind it, a free one. *)
Split(cs, i, n) ==
  SubSeq(cs, 1, i - 1)
    \o <<Chunk(cs[i].at, n, TRUE),
         Chunk(cs[i].at + n + HEADER, cs[i].size - n - HEADER, FALSE)>>
    \o SubSeq(cs, i + 1, Len(cs))

(* A round of the loops of mpool_alloc at chunk i: used chunks are passed  *)
(* by, and free neighbours are merged while the chunk is too small, also   *)
(* when nothing is found in the end.                                       *)
Passed(s, n) ==
  LET i == s.at
      cs == s.cs
  IN IF i > Len(cs) \/ (~cs[i].used /\ cs[i].size >= n) THEN s
     ELSE IF cs[i].used \/ i = Len(cs) THEN [s EXCEPT !.at = i + 1]
     ELSE IF cs[i + 1].used THEN [s EXCEPT !.at = i + 2]
     ELSE [s EXCEPT !.cs = Merged(cs, i)]

(* The chunks when mpool_alloc has found one for n bytes, at index at, or  *)
(* come to their end; every round leaves one chunk less to look at.        *)
Found(n) ==
  LET scan[k \in 0 .. Len(chunks)] ==
        IF k = 0 THEN [cs |-> chunks, at |-> 1] ELSE Passed(scan[k - 1], n)
  IN scan[Len(chunks)]
Finds(n) == Found(n).at <= Len(Found(n).cs)
Rest(n)  == Found(n).cs[Found(n).at].size - n
Wraps(n) == Finds(n) /\ Rest(n) \in 1 .. HEADER - 1

(* mpool->free after the merges *)
FreeAfter(n) == free + HEADER * (Len(chunks) - Len(Found(n).cs))

Hold(a, n) == held' = [b \in DOMAIN held \cup {a} |-> IF b = a THEN n ELSE held[b]]
Drop(a)    == held' = [b \in DOMAIN held \ {a} |-> held[b]]

(* mpool_alloc, and mpool_realloc without a block, find a chunk, *)
AllocFinds(n) ==
  LET r == Found(n)
  IN /\ phase = "open" /\ Finds(n) /\ ~Wraps(n)
     /\ chunks' = IF Rest(n) = 0 THEN [r.cs EXCEPT ![r.at].used = TRUE]
                  ELSE Split(r.cs, r.at, n)
     /\ free' = (FreeAfter(n) - n - (IF Rest(n) = 0 THEN 0 ELSE HEADER)) % UINT
     /\ Hold(r.cs[r.at].at, n)
     /\ UNCHANGED <<phase, grown>>

(* or a chunk whose rest is smaller than a header, *)
AllocWraps(n) ==
  /\ phase = "open" /\ Wraps(n)
  /\ phase' = "wrapped"
  /\ UNCHANGED <<chunks, free, held, grown>>

(* or none; so does mpool_realloc when it has to move the block. *)
AllocFails(n) ==
  /\ phase = "open" /\ ~Finds(n)
  /\ chunks' = Found(n).cs /\ free' = FreeAfter(n) % UINT
  /\ UNCHANGED <<phase, held, grown>>

-----------------------------------------------------------------------------
IsLast(i) == i = Len(chunks)
Freed(i)  == [chunks EXCEPT ![i].used = FALSE]

(* Mutant: the header of the chunk merged in is lost. *)
FreeMutant(a) ==
  LET i == IndexOf(a)
      merges == ~IsLast(i) /\ ~chunks[i + 1].used
  IN /\ phase = "open"
     /\ chunks' = IF merges
                  THEN [Merged(Freed(i), i) EXCEPT ![i].size = @ - HEADER]
                  ELSE Freed(i)
     /\ free' = (free + chunks[i].size + (IF merges THEN HEADER ELSE 0)) % UINT
     /\ Drop(a)
     /\ UNCHANGED <<phase, grown>>

(* mpool_free, and mpool_realloc to size 0: the chunk is merged with a     *)
(* free successor.  Behind the last chunk it reads foreign memory, which   *)
(* may look used                                                           *)
Free(a) ==
  LET i == IndexOf(a)
      merges == ~IsLast(i) /\ ~chunks[i + 1].used
  IN /\ phase = "open"
     /\ chunks' = IF merges THEN Merged(Freed(i), i) ELSE Freed(i)
     /\ free' = (free + chunks[i].size + (IF merges THEN HEADER ELSE 0)) % UINT
     /\ Drop(a)
     /\ UNCHANGED <<phase, grown>>

(* or free. *)
FreeBeyond(a) ==
  /\ phase = "open" /\ IsLast(IndexOf(a))
  /\ phase' = "beyond"
  /\ UNCHANGED <<chunks, free, held, grown>>

-----------------------------------------------------------------------------
(* mpool_realloc of block a, which is in chunk i, to n > 0 bytes *)

(* A block that gets a little smaller stays as it is, *)
ShrinkKeeps(a, n) ==
  LET diff == chunks[IndexOf(a)].size - n
  IN /\ phase = "open" /\ diff > 0 /\ diff <= 2 * HEADER
     /\ Hold(a, n)
     /\ UNCHANGED <<phase, chunks, free, grown>>

(* one that gets smaller gives up the rest. *)
ShrinkSplits(a, n) ==
  LET i == IndexOf(a)
      diff == chunks[i].size - n
  IN /\ phase = "open" /\ diff > 2 * HEADER
     /\ chunks' = Split(chunks, i, n)
     /\ free' = (free + diff - HEADER) % UINT
     /\ Hold(a, n)
     /\ UNCHANGED <<phase, grown>>

(* The next chunk is free and diff_size < ochunk->size + sizeof(mchunk_t). *)
NeighbourServes(i, n) ==
  /\ n >= chunks[i].size
  /\ ~IsLast(i) /\ ~chunks[i + 1].used
  /\ n - chunks[i].size < chunks[i + 1].size + HEADER

(* It grows over the next chunk, and the rest becomes a free chunk unless  *)
(* it is small.  Then free loses diff_size and a header, whatever the rest *)
(* is.                                                                     *)
Grow(a, n) ==
  LET i == IndexOf(a)
      both == Merged(chunks, i)
      rest == both[i].size - n
      diff == n - chunks[i].size
  IN /\ phase = "open" /\ NeighbourServes(i, n)
     /\ chunks' = IF rest <= 2 * HEADER THEN both ELSE Split(both, i, n)
     /\ free' = (free - diff - (IF rest <= 2 * HEADER THEN HEADER ELSE 0)) % UINT
     /\ grown' = (grown \/ rest <= 2 * HEADER)
     /\ Hold(a, n)
     /\ UNCHANGED phase

(* Behind the last chunk lies what looks like a free one, large enough; or *)
(* another chunk is found and the block is copied into it.                 *)
ReallocUndefined(a, n) ==
  LET i == IndexOf(a)
  IN /\ phase = "open" /\ n >= chunks[i].size
     /\ \/ IsLast(i) /\ phase' = "beyond"
        \/ ~NeighbourServes(i, n) /\ Wraps(n) /\ phase' = "wrapped"
        \/ /\ ~NeighbourServes(i, n) /\ ~Wraps(n) /\ Finds(n)
           /\ phase' = "overrun"
     /\ UNCHANGED <<chunks, free, held, grown>>

ReallocFails(a, n) ==
  /\ n >= chunks[IndexOf(a)].size /\ ~NeighbourServes(IndexOf(a), n)
  /\ AllocFails(n)

Next ==
  \/ \E n \in Sizes : AllocFinds(n) \/ AllocWraps(n) \/ AllocFails(n)
  \/ \E a \in DOMAIN held :
       \/ Free(a) \/ FreeBeyond(a)
       \/ \E n \in Sizes : \/ ShrinkKeeps(a, n) \/ ShrinkSplits(a, n) \/ Grow(a, n)
                           \/ ReallocUndefined(a, n) \/ ReallocFails(a, n)
  \/ phase # "open" /\ UNCHANGED vars

Spec == Init /\ [][Next]_vars
-----------------------------------------------------------------------------
(* The chunks fill the pool without gap or overlap, and the used ones are  *)
(* exactly the blocks clients hold, each at least as large as asked for:   *)
(* splitting, merging and growing in place never cost a block its bytes.   *)
End(c) == c.at + c.size
Tiled ==
  /\ chunks # <<>> /\ chunks[1].at = HEADER /\ End(chunks[Len(chunks)]) = POOL
  /\ \A i \in 1 .. Len(chunks) - 1 : chunks[i + 1].at = End(chunks[i]) + HEADER
BlocksKept ==
  /\ Tiled
  /\ \A i \in 1 .. Len(chunks) :
       IF chunks[i].used
       THEN chunks[i].at \in DOMAIN held /\ held[chunks[i].at] <= chunks[i].size
       ELSE chunks[i].at \notin DOMAIN held
  /\ \A a \in DOMAIN held : \E i \in 1 .. Len(chunks) : chunks[i].at = a

(* mpool_alloc fails only if no run of adjacent free chunks is as large as *)
(* asked for, however the chunks were cut by earlier calls.                *)
AllocFindsRun ==
  \A n \in Sizes :
    ~Finds(n) <=>
      \A i, j \in 1 .. Len(chunks) :
        i <= j /\ (\A k \in i .. j : ~chunks[k].used) => End(chunks[j]) - chunks[i].at < n

(* mpool->free is the number of free bytes until a block has grown over    *)
(* the whole of its neighbour.                                             *)
FreeBytes(cs) ==
  LET sum[i \in 0 .. Len(cs)] ==
        IF i = 0 THEN 0 ELSE sum[i - 1] + (IF cs[i].used THEN 0 ELSE cs[i].size)
  IN sum[Len(cs)]
FreeCounted == grown \/ free = FreeBytes(chunks)
=============================================================================
