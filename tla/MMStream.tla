------------------------------- MODULE MMStream -------------------------------
(***************************************************************************)
(* The memory stream of mmstream/mmstream.c: a sparse array of bytes in    *)
(* blocks, EXT blocks to an extent, with the extents in a list.  (The      *)
(* bitmap is not compiled in.)                                             *)
(*                                                                         *)
(* mem is the memory of the extents, one after the other as they are       *)
(* linked; a byte of a block that is not allocated is HOLE.  The k-th      *)
(* extent is where the list leads to from head; __mmextent_at may take     *)
(* another one for it.                                                     *)
(*                                                                         *)
(* harm "null" is an access through an extent that is NULL, harm "freed"   *)
(* one to an extent that truncate has just freed.  Nothing is said of a    *)
(* stream after them.                                                      *)
(***************************************************************************)
EXTENDS Integers, Sequences, FiniteSets

CONSTANTS
  BLK,         \* __FLOW_BLK_SIZE
  EXT,         \* __FLOW_EXTENT_SIZE
  Offsets,     \* offsets of the calls
  Lengths,     \* sizes of the calls
  Bytes,       \* a write repeats one of these
  MaxExtents   \* bound

VARIABLES
  mem,         \* byte, or HOLE, at every offset of the extents
  harm,
  written,     \* offset -> byte a client has written and not truncated
  misled       \* a write or a truncation was led to another extent

vars == <<mem, harm, written, misled>>

HOLE == -1
SPAN == BLK * EXT
Extents(m) == Cardinality(DOMAIN m) \div SPAN     \* flow->extent

(* mmstream_alloc *)
Init == mem = <<>> /\ harm = "ok" /\ written = <<>> /\ misled = FALSE

-----------------------------------------------------------------------------
(* m with n extents, if it has less *)
WithExtents(m, n) ==
  IF n <= Extents(m) THEN m
  ELSE [p \in 0 .. n * SPAN - 1 |-> IF p \in DOMAIN m THEN m[p] ELSE HOLE]

(* The extents __mmextent_resize makes sure of, for size. *)
Needed(size) == 1 + (((size + BLK - 1) \div BLK) \div EXT)

(* __mmextent_at: an index near the end is counted back from the tail, one *)
(* extent too far, and so is the one behind the end.  NULL is -1, and -2   *)
(* if the walk goes through NULL.                                          *)
ExtentAt(m, index) ==
  LET n == Extents(m)
      delta == n - index
  IN IF index = 0 THEN (IF n = 0 THEN -1 ELSE 0)
     ELSE IF index = n - 1 THEN index
     ELSE IF delta >= 0 /\ delta < n \div 2 THEN n - 1 - delta
     ELSE IF index < n THEN index
     ELSE IF index = n THEN -1 ELSE -2

(* __mmlocation_compute: where in mem an offset is looked for *)
Located(m, offset) ==
  LET e == ExtentAt(m, offset \div SPAN)
  IN IF e < 0 THEN e ELSE e * SPAN + (offset % SPAN)

Misled(m, offset) == Located(m, offset) \notin {offset, -1, -2}

BlockOf(p) == p \div BLK

-----------------------------------------------------------------------------
(* mmstream_read: up to size bytes, as far as there are blocks *)
ReadOf(m, p, size) ==
  LET ps == p .. p + size - 1
      stop == {q \in ps : q \notin DOMAIN m \/ m[q] = HOLE}
      n == IF stop = {} THEN size ELSE (CHOOSE q \in stop : \A r \in stop : q <= r) - p
  IN [i \in 1 .. n |-> m[p + i - 1]]

(* Behind the last extent there is no extent to look into. *)
ReadNowhere(offset) ==
  /\ harm = "ok" /\ Located(mem, offset) < 0
  /\ harm' = "null"
  /\ UNCHANGED <<mem, written, misled>>

-----------------------------------------------------------------------------
(* memcpy() of n bytes b to p, in blocks that are allocated when needed *)
Copied(m, p, n, b) ==
  [q \in DOMAIN m |->
     IF q \in p .. p + n - 1 THEN b
     ELSE IF BlockOf(q) \in BlockOf(p) .. BlockOf(p + n - 1) /\ m[q] = HOLE THEN 0
     ELSE m[q]]

Wrote(offset, n, b) ==
  written' = [o \in DOMAIN written \cup (offset .. offset + n - 1) |->
                IF o \in offset .. offset + n - 1 THEN b ELSE written[o]]

(* The byte counts after each block of a write of size bytes, and the      *)
(* count before the last of n bytes' blocks.                               *)
Steps(offset, size) == {n \in 1 .. size : n = size \/ (offset + n) % BLK = 0}
Before(offset, n) ==
  LET q == BlockOf(offset + n - 1) * BLK - offset IN IF q < 0 THEN 0 ELSE q

(* mmstream_write of size bytes b; it ends after n of them when they are   *)
(* all or when there is no memory, for the extents that __mmextent_resize  *)
(* makes sure of after every block or for the next block.                  *)
Write(offset, size, b) ==
  LET m == WithExtents(mem, Needed(offset))
  IN /\ harm = "ok" /\ Needed(offset + size) <= MaxExtents
     /\ \E n \in Steps(offset, size) : \E done \in {n, Before(offset, n)} :
          /\ mem' = Copied(WithExtents(m, Needed(offset + done)), Located(m, offset), n, b)
          /\ Wrote(offset, n, b)
     /\ misled' = (misled \/ Misled(m, offset))
     /\ UNCHANGED harm

(* No extent can be had for the first byte, or not all that lie before it, *)
(* or no block.                                                            *)
WriteFails(offset) ==
  /\ harm = "ok" /\ Needed(offset) <= MaxExtents
  /\ \E n \in Extents(mem) .. Needed(offset) : mem' = WithExtents(mem, n)
  /\ UNCHANGED <<harm, written, misled>>

-----------------------------------------------------------------------------
Emptied == mem' = <<>> /\ written' = <<>> /\ misled' = FALSE

(* mmstream_clear, and mmstream_free *)
mmstream_clear == harm = "ok" /\ Emptied /\ UNCHANGED harm

(* Mutant: the rest of the block alone is cleared. *)
ZeroedMutant(p) ==
  [q \in DOMAIN mem |-> IF q >= p /\ BlockOf(q) = BlockOf(p) /\ mem[q] # HOLE THEN 0 ELSE mem[q]]

(* The rest of the extent of p is set to zero, block after block. *)
Zeroed(p) == [q \in DOMAIN mem |-> IF q >= p /\ mem[q] # HOLE THEN 0 ELSE mem[q]]

(* mmstream_truncate of size bytes: inside of the last extent the rest is  *)
(* cleared, and a stream without extents stays as it is;                   *)
Truncate(size) ==
  LET p == Located(mem, size)
  IN /\ harm = "ok"
     /\ \/ p = -1 /\ size % SPAN = 0 /\ UNCHANGED mem
        \/ /\ p >= 0 /\ size % SPAN > 0 /\ p \div SPAN = Extents(mem) - 1
           /\ mem' = Zeroed(p)
     /\ written' = [o \in DOMAIN written \cap (0 .. size - 1) |-> written[o]]
     /\ misled' = (misled \/ Misled(mem, size))
     /\ UNCHANGED harm

(* before it extents are freed and the first of them is used after that,   *)
(* and behind it there is none.                                            *)
TruncateUndefined(size) ==
  LET p == Located(mem, size)
  IN /\ harm = "ok"
     /\ \/ p >= 0 /\ (size % SPAN = 0 \/ p \div SPAN < Extents(mem) - 1) /\ harm' = "freed"
        \/ p < 0 /\ (size % SPAN > 0 \/ p = -2) /\ harm' = "null"
     /\ Emptied

Next ==
  \/ \E offset \in Offsets :
       \/ ReadNowhere(offset) \/ WriteFails(offset)
       \/ Truncate(offset) \/ TruncateUndefined(offset)
       \/ \E n \in Lengths, b \in Bytes : Write(offset, n, b)
  \/ mmstream_clear
  \/ harm # "ok" /\ UNCHANGED vars

Spec == Init /\ [][Next]_vars
-----------------------------------------------------------------------------
Byte(o) == IF o \in DOMAIN written THEN written[o] ELSE 0

(* As long as no call was led to the wrong extent, a read returns what was *)
(* written at its offset and zero where nothing was, across blocks and     *)
(* extents, after short writes and after truncations; it stops only where  *)
(* nothing is written, and finds an extent wherever something is.          *)
ReadsBack ==
  harm = "ok" /\ ~misled =>
    \A offset \in Offsets, n \in Lengths :
      LET p == Located(mem, offset)
          data == ReadOf(mem, p, n)
      IN /\ offset \in DOMAIN written => p >= 0
         /\ p = offset =>
              /\ \A i \in 1 .. Len(data) : data[i] = Byte(offset + i - 1)
              /\ Len(data) < n => offset + Len(data) \notin DOMAIN written

(* Calls are led to the wrong extent only for the index behind the last of *)
(* at least two extents, or in the last half of a list of six or more,     *)
(* where data may well have been written before.                           *)
MisledOnlyFarOut ==
  \A offset \in Offsets :
    Misled(mem, offset) =>
      \/ Extents(mem) >= 2 /\ offset \div SPAN = Extents(mem)
      \/ Extents(mem) >= 6 /\ offset \div SPAN >= Extents(mem) \div 2
=============================================================================
