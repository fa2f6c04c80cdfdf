------------------------------ MODULE Multiset -------------------------------
(* What a bag promises: a number of occurrences for every key, changed one *)
(* at a time.  A call that fails changes nothing.                          *)
EXTENDS Integers

CONSTANTS Keys

VARIABLES count, answer

Answers(call, n) == answer' = [call |-> call, value |-> n]

None == [k \in Keys |-> 0]

MSInit == count = None /\ answer = [call |-> "free", value |-> 0]

AddOne(k) == count' = [count EXCEPT ![k] = @ + 1] /\ Answers("insert", 0)

TakeOne(k) ==
  /\ count[k] > 0
  /\ count' = [count EXCEPT ![k] = @ - 1]
  /\ Answers("remove", 0)

(* No memory for a new key, or no such key. *)
AddFails  == (\E k \in Keys : count[k] = 0)
             /\ (Answers("insert", -1) \/ Answers("insert", -2))
TakeFails == (\E k \in Keys : count[k] = 0) /\ Answers("remove", -1)

Empty == count' = None /\ (Answers("clear", 0) \/ Answers("free", 0))

Open == count = None /\ (Answers("alloc", 0) \/ Answers("alloc", -1))

MSNext ==
  \/ Empty
  \/ (Open \/ AddFails \/ TakeFails) /\ UNCHANGED count
  \/ \E k \in Keys : AddOne(k) \/ TakeOne(k)

MSSpec == MSInit /\ [][MSNext]_<<count, answer>>
=============================================================================
