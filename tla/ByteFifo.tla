------------------------------ MODULE ByteFifo -------------------------------
(* What a chunk queue promises: bytes come out in the order they went in.  *)
EXTENDS Integers, Sequences

CONSTANT Buffers   \* byte strings of one call

VARIABLES content, answer

Says(asked, value, buf) ==
  answer' = [asked |-> asked, value |-> value, buf |-> buf]

FifoInit == content = <<>> /\ answer = [asked |-> 0, value |-> 0, buf |-> <<>>]

(* The first n bytes of buf are appended, all of them unless memory is     *)
(* short; the caller learns n.                                             *)
Put(buf) ==
  \E n \in 0 .. Len(buf) :
    /\ content' = content \o SubSeq(buf, 1, n)
    /\ Says(Len(buf), n, <<>>)

(* As many bytes as there are, up to n. *)
Get(n) ==
  LET k == IF n < Len(content) THEN n ELSE Len(content)
  IN /\ content' = SubSeq(content, k + 1, Len(content))
     /\ Says(n, k, SubSeq(content, 1, k))

Fail == content = <<>> /\ Says(0, -1, <<>>) /\ UNCHANGED content

Reset == content' = <<>> /\ Says(0, 0, <<>>)

FifoNext ==
  \/ Reset \/ Fail
  \/ \E buf \in Buffers : Put(buf)
  \/ \E buf \in Buffers : Get(Len(buf))

FifoSpec == FifoInit /\ [][FifoNext]_<<content, answer>>
=============================================================================
