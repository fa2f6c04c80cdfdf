---------------------------- MODULE PrivateBlocks ----------------------------
(***************************************************************************)
(* What mmblock promises its clients: every handle in use has bytes of its *)
(* own.  A copy is a real copy, and a write is seen through the written    *)
(* handle and no other.                                                    *)
(***************************************************************************)
EXTENDS Integers, Sequences

CONSTANTS Handles, Contents, NULL

VARIABLES
  bytes,   \* the bytes of each handle; NULL when it is not in use
  answer   \* what the last call returned, and the bytes it read

pbVars == <<bytes, answer>>

Value(n) == [value |-> n, buf |-> <<>>]

PBInit == bytes = [h \in Handles |-> NULL] /\ answer = Value(0)

Obtain(h, b) ==
  /\ bytes[h] = NULL
  /\ bytes' = [bytes EXCEPT ![h] = b]
  /\ answer' \in {Value(0), Value(1)}

Obtains(h) == \E b \in Contents : Obtain(h, b)

(* A call that changes no byte: it failed, or had nothing to do. *)
Refuse == (\E n \in -14 .. 1 : answer' = Value(n)) /\ UNCHANGED bytes

Drop(h) ==
  /\ bytes[h] # NULL
  /\ bytes' = [bytes EXCEPT ![h] = NULL]
  /\ answer' = Value(0)

Duplicate(dest, src) ==
  /\ bytes[src] # NULL
  /\ Obtain(dest, bytes[src])

(* A read returns a run of the handle's own bytes. *)
Look(h) ==
  /\ bytes[h] # NULL
  /\ \E offset \in 0 .. Len(bytes[h]) : \E n \in 0 .. Len(bytes[h]) - offset :
       answer' = [value |-> n, buf |-> SubSeq(bytes[h], offset + 1, offset + n)]
  /\ UNCHANGED bytes

(* A write replaces one run of bytes and keeps the length. *)
Modify(h) ==
  /\ bytes[h] # NULL
  /\ \E lo \in 1 .. Len(bytes[h]), hi \in 1 .. Len(bytes[h]),
        b \in {c \in Contents : Len(c) = Len(bytes[h])} :
       /\ lo <= hi
       /\ \A i \in 1 .. Len(b) : (i < lo \/ i > hi) => b[i] = bytes[h][i]
       /\ bytes' = [bytes EXCEPT ![h] = b]
       /\ answer' = Value(hi - lo + 1)

PBNext ==
  \/ Refuse
  \/ \E h \in Handles :
       \/ Obtains(h) \/ Drop(h) \/ Look(h) \/ Modify(h)
       \/ \E src \in Handles : Duplicate(h, src)

PBSpec == PBInit /\ [][PBNext]_pbVars
=============================================================================
