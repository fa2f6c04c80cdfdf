------------------------------- MODULE MCBTree -------------------------------
(* Blocks of 64 bytes hold two children, two values of 15 bytes or three   *)
(* of 7; the values 2 and 3 have the same size.  In memory: two sizes with *)
(* all the faults, and five keys for a tree of three levels.  On the disk: *)
(* caches of 2, 1 and 0 blocks and replaced values, two edits of a tree of *)
(* three levels, and trees that are only read.                             *)
EXTENDS BTreeProperties

MCSizes == <<7, 15, 15>>

Scenario(n, load, values, e, s, cache, faults) ==
  [keys |-> n, load |-> load, values |-> values, edits |-> e, syncs |-> s,
   cache |-> cache, faults |-> faults]

MCScenarios ==
  {Scenario(4, 0, {1, 2}, Plenty, 0, 0, TRUE), Scenario(5, 0, {2}, Plenty, 0, 0, FALSE),
   Scenario(3, 3, {2, 3}, 3, 3, 2, FALSE), Scenario(4, 4, {2, 3}, 3, 2, 1, FALSE),
   Scenario(5, 5, {2, 3}, 2, 2, 2, FALSE), Scenario(3, 3, {2}, 2, 1, 0, FALSE),
   Scenario(6, 6, {2}, 0, 2, 3, FALSE), Scenario(5, 5, {2}, 0, 2, 1, FALSE)}

MCSplit == {Scenario(3, 0, {2}, Plenty, 0, 0, FALSE)}
=============================================================================
