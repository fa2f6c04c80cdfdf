-------------------------------- MODULE MCHash --------------------------------
(***************************************************************************)
(* The three hash containers on one instance of the buckets: a behaviour   *)
(* is one of a hash table, of a bag or of a set.                           *)
(***************************************************************************)
EXTENDS HashTable, HashBag, HashSet

VARIABLE kind

MCKeys == 1 .. 6

(* 1, 3 and 5 share a chain of an array of two, 1 and 5 also in one of four. *)
MCHash == [k \in MCKeys |-> k]

MCInit == kind \in {"table", "bag", "set"} /\ HTInit

MCNext ==
  /\ \/ kind = "table" /\ HTNext
     \/ kind = "bag" /\ BagNext /\ UNCHANGED owned
     \/ kind = "set" /\ SetNext /\ UNCHANGED owned
  /\ UNCHANGED kind

MCSpec == MCInit /\ [][MCNext]_<<htVars, kind>>

-----------------------------------------------------------------------------
(* A hash table owns exactly the values it stores; bags and sets have none. *)
ValuesOwned == kind = "table" => OwnsWhatItStores

(* What is seen of a container of kind c, and of one that is never used. *)
Seen(c, now, never) == IF kind = c THEN now ELSE never
AnswerOf(c) == Seen(c, ret, [call |-> "free", value |-> 0])

TableMap == INSTANCE Map WITH
  map <- Seen("table", AsMap, <<>>), answer <- AnswerOf("table")

BagMultiset == INSTANCE Multiset WITH
  count <- Seen("bag", AsMultiset, [k \in Keys |-> 0]), answer <- AnswerOf("bag")

SetMap == INSTANCE Map WITH
  Values <- {NOTHING},
  map <- Seen("set", AsKeyMap, <<>>), answer <- AnswerOf("set")

(* A hash table implements a map: growing, shrinking, pooling and failing  *)
(* allocations cannot be seen in it.                                       *)
ImplementsMap == TableMap!MapSpec

(* A bag implements a multiset: bag_insert adds one occurrence of a key    *)
(* and bag_remove takes one away.                                          *)
ImplementsMultiset == BagMultiset!MSSpec

(* A set implements a map without values: one key comes or goes with every *)
(* call that answers 0.                                                    *)
ImplementsKeySet == SetMap!MapSpec

(* Each of the three containers implements what it promises. *)
ImplementsContainer == ImplementsMap /\ ImplementsMultiset /\ ImplementsKeySet
=============================================================================
