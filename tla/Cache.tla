-------------------------------- MODULE Cache --------------------------------
(***************************************************************************)
(* The LRU/MRU cache of cache/cache.c: nodes in a hash table and, at the   *)
(* same time, in a list from the last one inserted (head) to the first     *)
(* (tail); retained nodes are moved to a list of their own.                *)
(*                                                                         *)
(* A pointer is the number of a node, 0 is NULL; a freed node keeps its    *)
(* number.  harm says which undefined access has happened: "junk" reads a  *)
(* table that was never cleared, "null" goes through NULL, "stale" through *)
(* a freed node, and "twice" frees a node again.  Nothing is said of a     *)
(* cache after it.  The table has one chain for each value of the hash     *)
(* function, since __nbucket_roundup gives at least as many as needed.     *)
(***************************************************************************)
EXTENDS Integers, Sequences, FiniteSets

CONSTANTS
  Keys,
  Hash,         \* key -> chain
  Capacities,   \* the parameter size of cache_alloc
  Dirty,        \* whether the allocator may return memory that is not zero
  MaxNodes,     \* bound: nodes ever allocated
  MaxRetain,    \* bound: retains of a node less its releases
  SIZE          \* 2^64 in the code: node->retain is a size_t

VARIABLE c      \* cache_t and its memory

NULL == 0

Node(key, next) ==
  [key |-> key, next |-> next, prev |-> NULL, hash |-> NULL, retain |-> 0, freed |-> FALSE]

Empty(type, size, frees, harm) ==
  [type |-> type, size |-> size, frees |-> frees, harm |-> harm,
   head |-> NULL, tail |-> NULL, retained |-> NULL, used |-> 0,
   table |-> [h \in {Hash[k] : k \in Keys} |-> NULL], nodes |-> <<>>]

Unused == Empty("none", 0, FALSE, "ok")
Init == c = Unused

(* cache_alloc: frees says whether there is a free_func. *)
cache_alloc(type, size, frees) ==
  /\ c.type = "none"
  /\ c' \in {Empty(type, size, frees, harm) : harm \in IF Dirty THEN {"ok", "junk"} ELSE {"ok"}}

-----------------------------------------------------------------------------
Harmed(r, harm) == [r EXCEPT !.harm = harm]

(* What an access to node n does before it counts. *)
Reach(r, n) ==
  IF r.harm # "ok" THEN r
  ELSE IF n = NULL THEN Harmed(r, "null")
  ELSE IF r.nodes[n].freed THEN Harmed(r, "stale") ELSE r

(* node->field = m *)
SetNext(r, n, m) ==
  LET s == Reach(r, n) IN IF s.harm = "ok" THEN [s EXCEPT !.nodes[n].next = m] ELSE s
SetPrev(r, n, m) ==
  LET s == Reach(r, n) IN IF s.harm = "ok" THEN [s EXCEPT !.nodes[n].prev = m] ELSE s

(* if (n != NULL) n->field = m *)
MaySetNext(r, n, m) == IF n = NULL THEN r ELSE SetNext(r, n, m)
MaySetPrev(r, n, m) == IF n = NULL THEN r ELSE SetPrev(r, n, m)

(* __cache_node_free: free_func reads node->data first; free(NULL) is      *)
(* allowed.                                                                *)
NodeFree(r, n) ==
  IF r.harm # "ok" THEN r
  ELSE IF n = NULL THEN IF r.frees THEN Harmed(r, "null") ELSE r
  ELSE IF r.nodes[n].freed THEN Harmed(r, "twice")
  ELSE [r EXCEPT !.nodes[n].freed = TRUE]

(* __cache_ht_lookup: the node of key k, NULL, or -1 if the chain leads    *)
(* through a freed node.                                                   *)
Lookup(r, k) ==
  LET walk[n \in 0 .. Len(r.nodes)] ==
        IF n = NULL THEN NULL
        ELSE IF r.nodes[n].freed THEN -1
        ELSE IF r.nodes[n].key = k THEN n
        ELSE walk[r.nodes[n].hash]
  IN walk[r.table[Hash[k]]]

(* The last node of the chain of h, NULL if it is empty. *)
ChainEnd(r, h) ==
  LET walk[n \in 0 .. Len(r.nodes)] ==
        IF n = NULL \/ r.nodes[n].hash = NULL THEN n ELSE walk[r.nodes[n].hash]
  IN walk[r.table[h]]

(* __cache_ht_insert, of a key that is not there: the node goes to the end *)
(* of the chain.                                                           *)
HtInsert(r, k) ==
  LET n == Len(r.nodes) + 1
      e == ChainEnd(r, Hash[k])
      s == [r EXCEPT !.nodes = Append(@, Node(k, NULL)), !.used = @ + 1]
  IN IF e = NULL THEN [s EXCEPT !.table[Hash[k]] = n] ELSE [s EXCEPT !.nodes[e].hash = n]

(* __cache_node_purge: __cache_ht_remove gets the address of a local, so   *)
(* the chain keeps the node it frees, and the local is left with the next  *)
(* node of the chain, which is freed as well.                              *)
Purge(r) ==
  LET n == IF r.type = "MRU" THEN r.head ELSE r.tail
      s == Reach(r, n)
      o == IF r.type = "MRU" THEN s.nodes[n].next ELSE s.nodes[n].prev
      t == IF r.type = "MRU" THEN SetPrev([s EXCEPT !.head = o], o, NULL)
           ELSE SetNext([s EXCEPT !.tail = o], o, NULL)
      u == NodeFree(t, n)
  IN IF s.harm # "ok" THEN s
     ELSE NodeFree([u EXCEPT !.used = @ - 1], s.nodes[n].hash)

(* Mutant: the tail is the last node inserted. *)
LinkFirstMutant(r, n) ==
  LET s == [MaySetPrev(r, r.head, n) EXCEPT !.nodes[n].next = r.head, !.nodes[n].prev = NULL]
  IN [s EXCEPT !.head = n, !.tail = n]

(* The node becomes the head of the list, in cache_insert *)
LinkFirst(r, n) ==
  LET s == [MaySetPrev(r, r.head, n) EXCEPT !.nodes[n].next = r.head, !.nodes[n].prev = NULL]
  IN [s EXCEPT !.head = n, !.tail = IF @ = NULL THEN n ELSE @]

(* and in cache_release, where the old head does not learn of it. *)
LinkAgain(r, n) ==
  [r EXCEPT !.nodes[n].next = r.head, !.nodes[n].prev = NULL, !.head = n,
            !.tail = IF @ = NULL THEN n ELSE @]

(* Mutant: the ends of the list are not checked for. *)
UnlinkMutant(r, n) ==
  SetPrev(SetNext(r, r.nodes[n].prev, r.nodes[n].next), r.nodes[n].next, r.nodes[n].prev)

(* The neighbours of a node are linked to each other; head, tail and       *)
(* retained stay as they are.                                              *)
Unlink(r, n) ==
  MaySetPrev(MaySetNext(r, r.nodes[n].prev, r.nodes[n].next),
             r.nodes[n].next, r.nodes[n].prev)

-----------------------------------------------------------------------------
Usable == c.type # "none" /\ c.harm = "ok"

(* The call leaves cache r, of which only the harm counts if there is one. *)
Leaves(r) == c' = IF r.harm = "ok" THEN r ELSE Empty(r.type, r.size, r.frees, r.harm)

(* cache_insert: a full cache is purged first, even for a key it holds or  *)
(* when there is no memory for a node.                                     *)
cache_insert(k) ==
  LET r == IF c.used = c.size THEN Purge(c) ELSE c
      n == Len(r.nodes) + 1
  IN /\ Usable /\ Len(c.nodes) < MaxNodes
     /\ IF r.harm # "ok" THEN Leaves(r)
        ELSE IF Lookup(r, k) = -1 THEN Leaves(Harmed(r, "stale"))
        ELSE IF Lookup(r, k) # NULL THEN Leaves(r)
        ELSE Leaves(r) \/ Leaves(LinkFirst(HtInsert(r, k), n))

(* cache_remove: the node is freed by __cache_ht_remove and again. *)
cache_remove(k) ==
  LET n == Lookup(c, k)
      s == Unlink(c, n)
  IN /\ Usable
     /\ Leaves(IF n = -1 THEN Harmed(c, "stale")
               ELSE IF n = NULL \/ c.nodes[n].retain > 0 THEN c
               ELSE NodeFree(NodeFree(s, n), n))

(* cache_contains *)
cache_contains(k) ==
  /\ Usable
  /\ Leaves(IF Lookup(c, k) = -1 THEN Harmed(c, "stale") ELSE c)

(* cache_retain *)
cache_retain(k) ==
  LET n == Lookup(c, k)
      s == [Unlink(c, n) EXCEPT !.nodes[n].prev = NULL, !.nodes[n].next = c.retained,
                                !.nodes[n].retain = 1, !.retained = n]
  IN /\ Usable /\ (n > 0 => c.nodes[n].retain \in 0 .. MaxRetain - 1 \cup {SIZE - 1})
     /\ Leaves(IF n = -1 THEN Harmed(c, "stale")
               ELSE IF n = NULL THEN c
               ELSE IF c.nodes[n].retain > 0
               THEN [c EXCEPT !.nodes[n].retain = (@ + 1) % SIZE] ELSE s)

(* cache_release: retained is not updated, and a release without a retain  *)
(* wraps the counter.                                                      *)
cache_release(k) ==
  LET n == Lookup(c, k)
      s == [c EXCEPT !.nodes[n].retain = (@ - 1) % SIZE]
  IN /\ Usable /\ (n > 0 => c.nodes[n].retain <= MaxRetain)
     /\ Leaves(IF n = -1 THEN Harmed(c, "stale")
               ELSE IF n = NULL THEN c
               ELSE IF s.nodes[n].retain > 0 THEN s
               ELSE LinkAgain(Unlink(s, n), n))

(* cache_clear, when nothing was ever retained; the chains keep the nodes. *)
Cleared(r) ==
  LET walk[n \in 0 .. Len(r.nodes)] ==
        IF n = NULL THEN {} ELSE {n} \cup walk[r.nodes[n].next]
      gone == walk[r.head]
  IN IF \E n \in gone : r.nodes[n].freed THEN Harmed(r, "stale")
     ELSE [r EXCEPT !.head = NULL, !.tail = NULL, !.used = @ - Cardinality(gone),
                    !.nodes = [n \in 1 .. Len(@) |->
                                 IF n \in gone THEN [r.nodes[n] EXCEPT !.freed = TRUE]
                                 ELSE r.nodes[n]]]

cache_clear == Usable /\ Leaves(IF c.retained = NULL THEN Cleared(c) ELSE c)

(* cache_free: the table goes too. *)
cache_free ==
  /\ Usable /\ c.retained = NULL
  /\ IF Cleared(c).harm = "ok" THEN c' = Unused ELSE Leaves(Cleared(c))

Next ==
  \/ \E type \in {"LRU", "MRU"}, size \in Capacities, frees \in BOOLEAN :
       cache_alloc(type, size, frees)
  \/ \E k \in Keys : \/ cache_insert(k) \/ cache_remove(k) \/ cache_contains(k)
                     \/ cache_retain(k) \/ cache_release(k)
  \/ cache_clear \/ cache_free
  \/ c.harm # "ok" /\ UNCHANGED c

Spec == Init /\ [][Next]_c
-----------------------------------------------------------------------------
Nodes == 1 .. Len(c.nodes)
Untouched == c.harm = "ok" /\ \A n \in Nodes : ~c.nodes[n].freed

(* Until a node is freed by a purge, a removal or cache_clear, the chains  *)
(* lead to every node: a key is found if and only if it was inserted, and  *)
(* no key has two nodes.                                                   *)
LookupComplete ==
  Untouched =>
    /\ \A n \in Nodes : Lookup(c, c.nodes[n].key) = n
    /\ \A k \in Keys : Lookup(c, k) # NULL => c.nodes[Lookup(c, k)].key = k
    /\ c.used = Len(c.nodes)

(* Until then, and until something is retained, the list leads from the    *)
(* newest node to the oldest, and back: the LRU purge takes the oldest.    *)
ListIsByAge ==
  Untouched /\ c.retained = NULL =>
    /\ c.head = Len(c.nodes) /\ c.tail = (IF c.nodes = <<>> THEN NULL ELSE 1)
    /\ \A n \in Nodes : /\ c.nodes[n].next = n - 1
                        /\ c.nodes[n].prev = (n + 1) % (Len(c.nodes) + 1)

(* What leads to an undefined access, as long as no node was freed: a      *)
(* removal of a key that is there and not retained, which always frees its *)
(* node twice, and an insert into a full cache, whose purge may go through *)
(* NULL and leaves freed nodes in the chains.  No other call does, however *)
(* keys were retained and released before, and in whatever order: not even *)
(* with the list behind head and tail no longer being that of the nodes.   *)
DoubleFree == \E k \in Keys : /\ Lookup(c, k) > 0 /\ c.nodes[Lookup(c, k)].retain = 0
                            /\ cache_remove(k)
FullInsert == c.used = c.size /\ \E k \in Keys : cache_insert(k)
HarmNeedsFree ==
  c.type # "none" /\ Untouched =>
    /\ c'.harm # "ok" => DoubleFree \/ FullInsert
    /\ DoubleFree => c'.harm = "twice"
=============================================================================
