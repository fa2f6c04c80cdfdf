------------------------------ MODULE BTreeCache ------------------------------
(***************************************************************************)
(* The block cache of btree/btree.c: blocks of clean nodes nobody uses, by *)
(* block number.  The entries are a ring in order of use, lru with the     *)
(* head first, and the chains of a hash table.  An entry without a block   *)
(* (NoBlock) is free for reuse.                                            *)
(***************************************************************************)
EXTENDS BTreeNode

CacheHash(c, nr) == nr % c.size

(* __btcache_add_node: a new entry becomes the head. *)
CacheAddNode(c) ==
  [c EXCEPT !.lru = <<Len(@) + 1>> \o @,
            !.entry = Append(@, [nr |-> 0, block |-> NoBlock])]

(* __btcache_open; nothing is kept in a cache of size 0. *)
CacheOpen(size) ==
  LET c == [size |-> size, lru |-> <<>>, entry |-> <<>>,
            table |-> [i \in 0 .. size - 1 |-> <<>>]]
  IN IF size = 0 THEN c ELSE CacheAddNode(c)

(* Mutant: an entry stays in the chain of its old block. *)
CacheUnhashMutant(c, id) == c

(* __btcache_unhash: with the first entry of a chain go all the others. *)
CacheUnhash(c, id) ==
  LET i == CacheHash(c, c.entry[id].nr)
  IN IF c.table[i] # <<>> /\ Head(c.table[i]) = id
     THEN [c EXCEPT !.table[i] = <<>>]
     ELSE [c EXCEPT !.table[i] = Remove(@, id)]

(* __btcache_eject: the entry is free and the next to be reused. *)
CacheEject(c, id) ==
  [CacheUnhash(c, id) EXCEPT !.lru = Append(Remove(@, id), id),
                             !.entry[id].block = NoBlock]

(* __btcache_add: a free or the least used entry takes the block, unless   *)
(* the cache may still grow.                                               *)
CacheRoom(c) ==
  LET tail == Last(c.lru)
  IN IF c.entry[Head(c.lru)].block # NoBlock /\ Len(c.lru) < c.size THEN CacheAddNode(c)
     ELSE [IF c.entry[tail].block = NoBlock THEN c ELSE CacheUnhash(c, tail)
           EXCEPT !.lru = <<tail>> \o Front(@)]

CacheFill(c, nr, block) ==
  [c EXCEPT !.entry[Head(c.lru)] = [nr |-> nr, block |-> block],
            !.table[CacheHash(c, nr)] = <<Head(c.lru)>> \o @]

CacheAdd(c, nr, block) == CacheFill(CacheRoom(c), nr, block)

(* __btcache_lookup: the block found leaves the cache; 0 when it is not.   *)
CacheFind(c, nr) ==
  LET chain == IF c.size = 0 THEN <<>> ELSE c.table[CacheHash(c, nr)]
      hit == SelectInSeq(chain, LAMBDA id : c.entry[id].nr = nr)
  IN IF hit = 0 THEN 0 ELSE chain[hit]
=============================================================================
