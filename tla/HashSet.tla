------------------------------- MODULE HashSet -------------------------------
(* set/set.c: the buckets of HashBuckets, a node carrying only its key.    *)
EXTENDS HashBuckets

NOTHING == 0

(* A hit in set_insert: the key is in, nothing is done. *)
set_insert_again(k) ==
  /\ phase = "live" /\ Found(k) # {}
  /\ Returns("insert", 0)
  /\ UNCHANGED <<phase, bucket, size, used, pool, pool_size, nodes>>

set_insert(k) ==
  \/ set_insert_again(k)
  \/ InsertLinks(k, NOTHING) \/ InsertNoArray(k) \/ InsertNoNode(k)

set_remove(k) == RemoveNode(k) \/ RemoveMisses(k)
set_clear == Clear
set_free  == Free
set_alloc == Alloc \/ AllocFails

SetNext ==
  \/ set_alloc \/ set_clear \/ set_free
  \/ \E k \in Keys : set_insert(k) \/ set_remove(k)

SetSpec == BucketInit /\ [][SetNext]_bucketVars

(* What the calls that change nothing return. *)
set_contains(k) == Found(k) # {}
set_size        == used
set_foreach     == KeysOf(bucket)

-----------------------------------------------------------------------------
(* The set as a map without values. *)
AsKeyMap == [k \in KeysOf(bucket) |-> NOTHING]
=============================================================================
