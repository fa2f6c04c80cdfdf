------------------------------- MODULE MMBlock -------------------------------
(***************************************************************************)
(* The copy-on-write blocks of mmblock/mmblock.c.  A handle (mmblock_t)    *)
(* points to a reference-counted inner block (mmiblock_t); mmblock_copy    *)
(* shares the inner block and mmblock_write detaches a shared one first.   *)
(*                                                                         *)
(* The client contract is the one the test program keeps: a handle is      *)
(* allocated or copied into while it is not in use, and used until it is   *)
(* freed.  A handle counts as in use when the call that set it up did not  *)
(* return NULL.                                                            *)
(***************************************************************************)
EXTENDS Integers, Sequences, FiniteSets

CONSTANTS
  Handles,   \* mmblock_t variables of the client
  Addrs,     \* addresses the allocator can return for an mmiblock_t
  Bytes,     \* values of a byte
  ZERO,      \* the byte memset() writes
  MaxSize,   \* bound: largest size a client asks for
  UINT,      \* 2^32 in the code: uint32_t arithmetic is modulo UINT
  NULL

ASSUME MMBlockAssumption ==
  /\ MaxSize \in Nat
  /\ UINT \in Nat /\ UINT > MaxSize
  /\ ZERO \in Bytes
  /\ NULL \notin Addrs
  /\ IsFiniteSet(Handles)

VARIABLES
  d,       \* block->d of each handle
  open,    \* the handles in use
  heap,    \* the inner blocks that are allocated
  data,    \* d->data (its length is d->size)
  ref,     \* d->ref
  ret,     \* what the last call returned, and the bytes it read
  status   \* "ok", or the undefined behaviour the last call ran into

vars == <<d, open, heap, data, ref, ret, status>>

uint32(n) == n % UINT
EFAULT == -14
ENOMEM == -12
Returns(value) == ret' = [value |-> value, buf |-> <<>>]
Contents == UNION {[1 .. n -> Bytes] : n \in 0 .. MaxSize}

ASSUME NullAssumption == NULL \notin Contents

Init ==
  /\ d = [h \in Handles |-> NULL]
  /\ open = {}
  /\ heap = {}
  /\ data = [a \in Addrs |-> <<>>]
  /\ ref = [a \in Addrs |-> 0]
  /\ ret = [value |-> 0, buf |-> <<>>]
  /\ status = "ok"

-----------------------------------------------------------------------------
(* mmblock_alloc and mmblock_zalloc *)

(* __mmiblock_alloc succeeded: malloc leaves the bytes undefined. *)
NewBlock(h, a, bytes) ==
  /\ a \notin heap
  /\ heap' = heap \cup {a}
  /\ data' = [data EXCEPT ![a] = bytes]
  /\ ref' = [ref EXCEPT ![a] = 1]
  /\ d' = [d EXCEPT ![h] = a]
  /\ open' = open \cup {h}
  /\ Returns(1)
  /\ UNCHANGED status

Alloc(h) ==
  /\ h \notin open
  /\ \E a \in Addrs, bytes \in Contents : NewBlock(h, a, bytes)

Zalloc(h) ==
  /\ h \notin open
  /\ \E a \in Addrs, n \in 0 .. MaxSize : NewBlock(h, a, [i \in 1 .. n |-> ZERO])

AllocFails(h) ==
  /\ h \notin open
  /\ d' = [d EXCEPT ![h] = NULL]
  /\ Returns(0)
  /\ UNCHANGED <<open, heap, data, ref, status>>

(* mmblock_zalloc returns the block also when mmblock_alloc failed. *)
ZallocFails(h) ==
  /\ h \notin open
  /\ d' = [d EXCEPT ![h] = NULL]
  /\ open' = open \cup {h}
  /\ Returns(1)
  /\ UNCHANGED <<heap, data, ref, status>>

(* Any use of such a handle reads through NULL. *)
UseOfNull(h) ==
  /\ h \in open /\ d[h] = NULL
  /\ status' = "null"
  /\ UNCHANGED <<d, open, heap, data, ref, ret>>

-----------------------------------------------------------------------------
Usable(h) == h \in open /\ d[h] # NULL

(* if ((--(d->ref)) == 0) __mmblock_free(block, d) *)
Unref(a) ==
  /\ ref' = [ref EXCEPT ![a] = @ - 1]
  /\ heap' = IF ref[a] = 1 THEN heap \ {a} ELSE heap
  /\ data' = IF ref[a] = 1 THEN [data EXCEPT ![a] = <<>>] ELSE data

Free(h) ==
  /\ Usable(h)
  /\ Unref(d[h])
  /\ open' = open \ {h}
  /\ Returns(0)
  /\ UNCHANGED <<d, status>>

(* Mutant: the copy takes no reference. *)
CopyRefMutant(a) == UNCHANGED ref

(* ++(__MMIBLOCK(src)->ref) *)
CopyRef(a) == ref' = [ref EXCEPT ![a] = @ + 1]

Copy(dest, src) ==
  /\ Usable(src) /\ dest \notin open
  /\ CopyRef(d[src])
  /\ d' = [d EXCEPT ![dest] = d[src]]
  /\ open' = open \cup {dest}
  /\ Returns(0)
  /\ UNCHANGED <<heap, data, status>>

(* wn = d->size - offset; wn = (wn < n) ? wn : n *)
Clip(size, offset, n) == IF size - offset < n THEN size - offset ELSE n

Read(h, offset, n) ==
  /\ Usable(h)
  /\ LET b == data[d[h]] IN
     \/ offset > Len(b) /\ Returns(EFAULT)
     \/ /\ offset <= Len(b)
        /\ LET rn == Clip(Len(b), offset, n) IN
           ret' = [value |-> rn, buf |-> SubSeq(b, offset + 1, offset + rn)]
  /\ UNCHANGED <<d, open, heap, data, ref, status>>

-----------------------------------------------------------------------------
(* mmblock_write *)

(* memcpy(data + offset, buf, wn) *)
Overwrite(b, offset, buf) ==
  [i \in DOMAIN b \cup (offset + 1 .. offset + Len(buf)) |->
     IF i > offset /\ i <= offset + Len(buf) THEN buf[i - offset] ELSE b[i]]

(* The two early returns: an offset past the end, nothing to write. *)
WriteNothing(h, offset, n) ==
  /\ Usable(h)
  /\ LET size == Len(data[d[h]]) IN
     \/ offset > size /\ Returns(EFAULT)
     \/ offset <= size /\ Clip(size, offset, n) = 0 /\ Returns(0)
  /\ UNCHANGED <<d, open, heap, data, ref, status>>

(* A write of at least one byte. *)
Writes(h, offset, n) ==
  /\ Usable(h)
  /\ offset <= Len(data[d[h]])
  /\ Clip(Len(data[d[h]]), offset, n) > 0

(* Mutant: a block shared by two handles is taken for private. *)
SharedMutant(h) == ref[d[h]] > 2

(* if (d->ref != 1) *)
Shared(h) == ref[d[h]] # 1

WriteInPlace(h, offset, n) ==
  /\ Writes(h, offset, n)
  /\ ~Shared(h)
  /\ \E buf \in [1 .. Clip(Len(data[d[h]]), offset, n) -> Bytes] :
       /\ data' = [data EXCEPT ![d[h]] = Overwrite(@, offset, buf)]
       /\ Returns(Len(buf))
  /\ UNCHANGED <<d, open, heap, ref, status>>

(* __mmiblock_detach: the new block gets the bytes before offset and those *)
(* from ne on; it is the client's bytes that fill the gap.  The reference  *)
(* given back is never the last one.                                       *)
DetachEnd(offset, n) == uint32(offset + n)
DetachTail(size, ne) == uint32(size - ne)

(* x holds what malloc() left in the new block. *)
Detached(b, offset, ne, x) ==
  [i \in 1 .. Len(b) |-> IF i <= offset \/ i > ne THEN b[i] ELSE x[i]]

WriteDetaches(h, offset, n) ==
  /\ Writes(h, offset, n)
  /\ Shared(h)
  /\ LET old == data[d[h]]
         ne  == DetachEnd(offset, n)
     IN /\ ne + DetachTail(Len(old), ne) <= Len(old)
        /\ \E a \in Addrs \ heap, x \in [1 .. Len(old) -> Bytes],
              buf \in [1 .. Clip(Len(old), offset, n) -> Bytes] :
             /\ data' = [data EXCEPT
                           ![a] = Overwrite(Detached(old, offset, ne, x), offset, buf)]
             /\ ref' = [ref EXCEPT ![a] = 1, ![d[h]] = @ - 1]
             /\ heap' = heap \cup {a}
             /\ d' = [d EXCEPT ![h] = a]
             /\ Returns(Len(buf))
  /\ UNCHANGED <<open, status>>

WriteFails(h, offset, n) ==
  /\ Writes(h, offset, n)
  /\ Shared(h)
  /\ Returns(ENOMEM)
  /\ UNCHANGED <<d, open, heap, data, ref, status>>

(* The second memcpy of __mmiblock_detach starts at offset + n although    *)
(* only the first bytes of n fit: its length wraps and it leaves both      *)
(* blocks.                                                                 *)
WriteRunsWild(h, offset, n) ==
  /\ Writes(h, offset, n)
  /\ Shared(h)
  /\ LET size == Len(data[d[h]])
         ne   == DetachEnd(offset, n)
     IN ne + DetachTail(size, ne) > size
  /\ Addrs \ heap # {}
  /\ status' = "wild"
  /\ UNCHANGED <<d, open, heap, data, ref, ret>>

-----------------------------------------------------------------------------
Uints == 0 .. UINT - 1

(* The process stops at undefined behaviour. *)
Next ==
  \/ /\ status = "ok"
     /\ \E h \in Handles :
          \/ Alloc(h) \/ Zalloc(h) \/ AllocFails(h) \/ ZallocFails(h)
          \/ UseOfNull(h) \/ Free(h)
          \/ \E src \in Handles : Copy(h, src)
          \/ \E offset \in 0 .. MaxSize + 1, n \in Uints :
               \/ Read(h, offset, n) \/ WriteNothing(h, offset, n)
               \/ WriteInPlace(h, offset, n) \/ WriteDetaches(h, offset, n)
               \/ WriteFails(h, offset, n) \/ WriteRunsWild(h, offset, n)
  \/ status # "ok" /\ UNCHANGED vars

Spec == Init /\ [][Next]_vars
=============================================================================
