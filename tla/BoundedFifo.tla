----------------------------- MODULE BoundedFifo -----------------------------
(***************************************************************************)
(* What queue.h promises: a FIFO and, with a capacity, a circular queue    *)
(* that gives up its oldest item for a new one.                            *)
(***************************************************************************)
EXTENDS Integers, Sequences

CONSTANTS Elements, Capacities

VARIABLES capacity, content, answer

fifoVars == <<capacity, content, answer>>

Answers(value, freed) == answer' = [value |-> value, freed |-> freed]

AtCapacity == capacity > 0 /\ Len(content) = capacity
Kept    == IF AtCapacity THEN Tail(content) ELSE content
GivenUp == IF AtCapacity THEN <<Head(content)>> ELSE <<>>

FInit == capacity = 0 /\ content = <<>> /\ answer = [value |-> 0, freed |-> <<>>]

Open ==
  /\ content = <<>>
  /\ capacity' \in Capacities /\ content' = <<>> /\ Answers(0, <<>>)

Push(e) == content' = Append(Kept, e) /\ Answers(0, GivenUp) /\ UNCHANGED capacity

(* Only the first item of all fails without loss. *)
PushFails ==
  /\ \/ content = <<>> /\ content' = content /\ Answers(-1, <<>>)
     \/ content' = Kept /\ Answers(-2, GivenUp)
  /\ UNCHANGED capacity

Pop ==
  /\ IF content = <<>> THEN content' = <<>> /\ Answers(0, <<>>)
     ELSE content' = Tail(content) /\ Answers(Head(content), <<>>)
  /\ UNCHANGED capacity

(* As many items are freed as there are, not always the same ones. *)
Close ==
  /\ content' = <<>>
  /\ answer'.value = 0 /\ Len(answer'.freed) = Len(content)
  /\ UNCHANGED capacity

FNext == Open \/ (\E e \in Elements : Push(e)) \/ PushFails \/ Pop \/ Close

FSpec == FInit /\ [][FNext]_fifoVars
=============================================================================
