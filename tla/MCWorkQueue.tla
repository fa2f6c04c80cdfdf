----------------------------- MODULE MCWorkQueue -----------------------------
(* Model-checking instances of WorkQueue. *)
EXTENDS WorkQueueProperties, TLC

(* Unit addresses and tasks are interchangeable. *)
Symmetry == Permutations(Units) \cup Permutations(Tasks)
=============================================================================
