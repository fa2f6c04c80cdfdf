--------------------------------- MODULE Map ---------------------------------
(* What a hash table promises: a map from keys to values.  A call that     *)
(* fails leaves the map alone.                                             *)
EXTENDS Integers

CONSTANTS Keys, Values

VARIABLES map, answer

Answers(call, n) == answer' = [call |-> call, value |-> n]

MapInit == map = <<>> /\ answer = [call |-> "free", value |-> 0]

Put(k, v) ==
  /\ map' = [j \in DOMAIN map \cup {k} |-> IF j = k THEN v ELSE map[j]]
  /\ Answers("insert", 0)

Delete(k) ==
  /\ k \in DOMAIN map
  /\ map' = [j \in DOMAIN map \ {k} |-> map[j]]
  /\ Answers("remove", 0)

(* No memory for the key, or no such key. *)
PutFails    == DOMAIN map # Keys
               /\ (Answers("insert", -1) \/ Answers("insert", -2))
DeleteFails == DOMAIN map # Keys /\ Answers("remove", -1)

Reset == map' = <<>> /\ (Answers("clear", 0) \/ Answers("free", 0))

Open == map = <<>> /\ (Answers("alloc", 0) \/ Answers("alloc", -1))

MapNext ==
  \/ Reset
  \/ (Open \/ PutFails \/ DeleteFails) /\ UNCHANGED map
  \/ \E k \in Keys : Delete(k) \/ \E v \in Values : Put(k, v)

MapSpec == MapInit /\ [][MapNext]_<<map, answer>>
=============================================================================
