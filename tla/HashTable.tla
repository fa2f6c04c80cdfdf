------------------------------ MODULE HashTable ------------------------------
(***************************************************************************)
(* hashtable/hashtable.c.  A value is an object the client made for one    *)
(* key and hands over with insert; the table owns it until it calls        *)
(* value_free_func on it.  The client contract: an object is inserted      *)
(* while the table does not own it, or again under the key it is stored    *)
(* for.                                                                    *)
(***************************************************************************)
EXTENDS HashBuckets

CONSTANT Values   \* the objects a client can make for each key

VARIABLE owned    \* <<key, value>>: handed over and not freed by the table

htVars == <<bucketVars, owned>>

Stored == {<<e.key, e.value>> : e \in Entries(bucket)}
MayHandOver(k, v) == <<k, v>> \notin owned \/ <<k, v>> \in Stored

HTInit == BucketInit /\ owned = {}

(* Mutant: the old value is freed also when it is the new one. *)
FreedByReplaceMutant(k, v) == {<<k, e.value>> : e \in Found(k)}

(* if (node->value != value) value_free_func(node->value) *)
FreedByReplace(k, v) == {<<k, e.value>> : e \in {f \in Found(k) : f.value # v}}

InsertReplacesValue(k, v) ==
  /\ Rewrite("insert", k, v)
  /\ owned' = (owned \cup {<<k, v>>}) \ FreedByReplace(k, v)

InsertAdds(k, v) ==
  /\ InsertLinks(k, v)
  /\ owned' = owned \cup {<<k, v>>}

InsertFails(k) == (InsertNoArray(k) \/ InsertNoNode(k)) /\ UNCHANGED owned

(* hashtable_insert *)
Insert(k, v) ==
  /\ MayHandOver(k, v)
  /\ InsertReplacesValue(k, v) \/ InsertAdds(k, v) \/ InsertFails(k)

(* hashtable_remove *)
RemoveKey(k) ==
  \/ RemoveNode(k) /\ owned' = owned \ {<<k, e.value>> : e \in Found(k)}
  \/ RemoveMisses(k) /\ UNCHANGED owned

(* __hashnode_free is called for every node. *)
ClearTable == Clear /\ owned' = owned \ Stored
FreeTable  == Free /\ owned' = owned \ Stored

HTNext ==
  \/ (Alloc \/ AllocFails) /\ UNCHANGED owned
  \/ ClearTable \/ FreeTable
  \/ \E k \in Keys : RemoveKey(k) \/ \E v \in Values : Insert(k, v)

HTSpec == HTInit /\ [][HTNext]_htVars

-----------------------------------------------------------------------------
(* The calls that change nothing, as what they return. *)

hashtable_contains(k) == Found(k) # {}
hashtable_lookup(k)   == {e.value : e \in Found(k)}
hashtable_size        == used
hashtable_foreach     == Stored   \* the pairs func is called with

-----------------------------------------------------------------------------
(* The table owns exactly the values it stores: a value that was replaced, *)
(* removed or cleared has been freed once, and one that can still be       *)
(* looked up has not.                                                      *)
OwnsWhatItStores == owned = Stored

(* The map the table stands for. *)
AsMap == [k \in KeysOf(bucket) |-> (CHOOSE e \in Entries(bucket) : e.key = k).value]
=============================================================================
