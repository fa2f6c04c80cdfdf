------------------------------- MODULE HashBag -------------------------------
(* bag/bag.c: the buckets of HashBuckets, a node carrying the number of    *)
(* occurrences of its key.                                                 *)
EXTENDS HashBuckets

CONSTANT MaxCount   \* bound: a client adds no key more often

CountOf(k) == {e.value : e \in Found(k)}

(* A hit in bag_insert: node->count++ *)
bag_insert_again(k) ==
  /\ phase = "live"
  /\ \E n \in CountOf(k) : n < MaxCount /\ Rewrite("insert", k, n + 1)

bag_insert(k) ==
  \/ bag_insert_again(k)
  \/ InsertLinks(k, 1) \/ InsertNoArray(k) \/ InsertNoNode(k)

(* if (p->count == 0), after p->count-- *)
LastOne(n) == n - 1 = 0

bag_remove_one(k) ==
  /\ phase = "live"
  /\ \E n \in CountOf(k) : \/ ~LastOne(n) /\ Rewrite("remove", k, n - 1)
                           \/ LastOne(n) /\ RemoveNode(k)

bag_remove(k) == bag_remove_one(k) \/ RemoveMisses(k)

bag_clear == Clear
bag_free  == Free
bag_alloc == Alloc \/ AllocFails

BagNext ==
  \/ bag_alloc \/ bag_clear \/ bag_free
  \/ \E k \in Keys : bag_insert(k) \/ bag_remove(k)

BagSpec == BucketInit /\ [][BagNext]_bucketVars

(* What the calls that change nothing return. *)
bag_contains(k) == IF Found(k) = {} THEN {0} ELSE CountOf(k)
bag_size        == used
bag_foreach     == {<<e.key, e.value>> : e \in Entries(bucket)}

-----------------------------------------------------------------------------
Occurrences(k) == {e \in Entries(bucket) : e.key = k}

(* The multiset the bag stands for. *)
AsMultiset == [k \in Keys |-> IF Occurrences(k) = {} THEN 0
                              ELSE (CHOOSE e \in Occurrences(k) : TRUE).value]
=============================================================================
