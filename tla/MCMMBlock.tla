------------------------------ MODULE MCMMBlock ------------------------------
(* Model-checking instances of MMBlock. *)
EXTENDS MMBlockProperties, TLC

(* Handles and addresses are interchangeable. *)
Symmetry == Permutations(Handles) \cup Permutations(Addrs)
=============================================================================
