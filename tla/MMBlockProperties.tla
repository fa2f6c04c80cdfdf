-------------------------- MODULE MMBlockProperties --------------------------
(* What is claimed of MMBlock. *)
EXTENDS MMBlock

(* Handles point to inner blocks or nowhere, and no block grows past the   *)
(* size it was allocated with.                                             *)
TypeOK ==
  /\ d \in [Handles -> Addrs \cup {NULL}]
  /\ open \in SUBSET Handles
  /\ heap \in SUBSET Addrs
  /\ data \in [Addrs -> Contents]
  /\ ref \in [Addrs -> Nat]
  /\ status \in {"ok", "null", "wild"}

(* The handles of H that point to a, and those in use that do. *)
UsersIn(H, ptr, a) == {h \in H : ptr[h] = a}
Users(a) == UsersIn(open, d, a)

(* The reference count of an inner block is the number of handles in use   *)
(* that point to it; it is allocated exactly while there is one, so no     *)
(* handle dangles and no block leaks.                                      *)
RefCounts ==
  /\ \A a \in heap : ref[a] = Cardinality(Users(a)) /\ Users(a) # {}
  /\ \A h \in open : d[h] \in heap \cup {NULL}

(* The types and the counts carry each other through every step. *)
IInv == TypeOK /\ RefCounts

(* mmblock_write cuts a write to the size of the block, and the comment of *)
(* __mmiblock_detach says it copies up to data_size: memcpy stays inside   *)
(* the two blocks.                                                         *)
DetachInBounds == status # "wild"

Abstract == INSTANCE PrivateBlocks WITH
  bytes <- [h \in Handles |->
              IF h \in open /\ d[h] # NULL THEN data[d[h]] ELSE NULL],
  answer <- ret

(* Sharing is invisible: through the handles, copy-on-write blocks cannot  *)
(* be told from private ones.                                              *)
ImplementsPrivateBlocks == Abstract!PBSpec
=============================================================================
