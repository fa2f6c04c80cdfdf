----------------------------- MODULE BTreeSearch -----------------------------
(***************************************************************************)
(* The B-tree of btree/btree.c: twigs and leaves in memory, the disk they  *)
(* are synced to, and the cache of clean blocks between them.  This module *)
(* has the tree and how its nodes are fetched and searched; BTreeUpdate    *)
(* changes the tree and BTree writes it and makes calls of it all.         *)
(*                                                                         *)
(* The whole tree is one record:                                           *)
(*   node    the nodes in memory, by address; root, 0 for NULL             *)
(*   height  the level of the next root: sb_height                         *)
(*   rootptr, nodes, nitems, stored   the rest of the super block          *)
(*   cache   see BTreeCache                                                *)
(*   disk    blocks by number; number 0 stands for the super block         *)
(*   log     the disk writes of the call, oldest first                     *)
(*   mem     how many more nodes the call can allocate                     *)
(*   harm    what has gone wrong for good; nothing is said of a tree with  *)
(*           a harm, and the harmed tree takes no further call:            *)
(*    "gap"       a key put behind the last one of the left half of a      *)
(*                split, above the separator of that half                  *)
(*    "replace"   a value replaced by one of another size                  *)
(*    "junk"      a new key whose place.size happens to hold its size      *)
(*    "rollback"  no memory after the tree had been changed                *)
(*    "miscount"  no memory after the items or nodes had been counted      *)
(*    "rootless"  an insert into a tree whose root is only on the disk     *)
(*    "detached"  a clean node that was given a new parent, whose pointer  *)
(*                in the tree is not that of its block                     *)
(*    "unread"    a level taken for missing because a twig of it could not *)
(*                be read                                                  *)
(*    "wild"      the last key of a node without items, compared or copied *)
(*    "overfull"  a twig with more than fanout children                    *)
(*    "rootwaste" the child of a root without children                     *)
(*    "abort"     an assertion, or a NULL node; a changed node among those *)
(*                that sync or close frees is one                          *)
(*                                                                         *)
(* The key comparison is that of btree_create: the separators are whole    *)
(* keys.                                                                   *)
(***************************************************************************)
EXTENDS BTreeCache

Plenty == 99

(* btree_create; a tree that is not open has the disk only. *)
Created(disk, size) ==
  [node |-> <<>>, root |-> 0, height |-> LEAF_NODE_LEVEL, rootptr |-> NoPointer,
   nodes |-> 0, nitems |-> 0, stored |-> 0, cache |-> CacheOpen(size),
   disk |-> disk, log |-> <<>>, mem |-> Plenty, harm |-> {}]

Harmed(s)     == s.harm # {}
Harm(s, what) == [s EXCEPT !.harm = @ \cup {what}]
Set(s, id, n) == [s EXCEPT !.node[id] = n]
Drop(s, id)   == [s EXCEPT !.node = [i \in DOMAIN @ \ {id} |-> @[i]]]
At(s, id)     == [s |-> s, id |-> id]
Put(s, n) ==
  LET id == CHOOSE i \in 1 .. Cardinality(DOMAIN s.node) + 1 :
              /\ i \notin DOMAIN s.node
              /\ \A j \in 1 .. i - 1 : j \in DOMAIN s.node
  IN At([s EXCEPT !.node = [i \in DOMAIN @ \cup {id} |-> IF i = id THEN n ELSE @[i]]], id)

-----------------------------------------------------------------------------
(* Nodes in memory. *)

(* __btnode_alloc; NULL without memory. *)
Alloc(s, level) ==
  IF s.mem = 0 THEN At(s, 0)
  ELSE Put([s EXCEPT !.mem = @ - 1, !.nodes = @ + 1], NewNode(NewBlock(level)))

(* __btnode_release: the block of a clean node nobody uses goes to the     *)
(* cache, under the number the node knows.                                 *)
Release(s, id) ==
  LET n == [s.node[id] EXCEPT !.refs = @ - 1]
  IN IF s.node[id].refs <= 0 THEN Harm(s, "abort")
     ELSE IF n.refs > 0 \/ n.dirty \/ s.cache.size = 0 THEN Set(s, id, n)
     ELSE [Set(s, id, [n EXCEPT !.block = NoBlock])
           EXCEPT !.cache = CacheAdd(@, n.blocknr, n.block)]

(* __btnode_read: from the cache, which leaves number and flags alone, or  *)
(* from the disk, which fails when the checksum of the pointer does not    *)
(* match; hit is the entry of the block in the cache.                      *)
ReadBlock(s, id, ptr, hit) ==
  LET n == [s.node[id] EXCEPT !.blocknr = ptr.nr, !.dirty = FALSE,
                              !.update = FALSE, !.ondisk = FALSE]
  IN IF hit # 0
     THEN At([Set(s, id, [s.node[id] EXCEPT !.block = s.cache.entry[hit].block])
              EXCEPT !.cache = CacheEject(@, hit)], id)
     ELSE IF ptr.nr = 0 \/ ptr.nr \notin DOMAIN s.disk \/ s.disk[ptr.nr] # ptr.crc
     THEN At(Set(s, id, n), 0)
     ELSE At(Set(s, id, [n EXCEPT !.block = s.disk[ptr.nr]]), id)

Read(s, id, ptr) ==
  IF s.node[id].block # NoBlock THEN At(s, id)
  ELSE ReadBlock(s, id, ptr, CacheFind(s.cache, ptr.nr))

(* __btnode_fetch: a node that could not be read is freed again. *)
KeepRead(r, id) == IF r.id = 0 THEN At(Drop(r.s, id), 0) ELSE r
ReadNew(p, ptr) == KeepRead(Read(p.s, p.id, ptr), p.id)
Fetch(s, ptr)   == ReadNew(Put(s, NewNode(NoBlock)), ptr)

(* A node that is in memory is read again when its block is not. *)
Reread(s, id, ptr) == Read([s EXCEPT !.node[id].refs = @ + 1], id, ptr)

(* __btnode_fetch_twig *)
LinkKid(f, id, index) == At([f.s EXCEPT !.node[id].kids[index] = f.id], f.id)
FetchTwig(s, id, index) ==
  LET kid == s.node[id].kids[index]
      ptr == s.node[id].block.items[index + 1].ptr
  IN IF kid # 0 THEN Reread(s, kid, ptr) ELSE LinkKid(Fetch(s, ptr), id, index)

(* __btree_fetch_root *)
LinkRoot(f) == At([f.s EXCEPT !.root = f.id], f.id)
FetchRoot(s) ==
  IF s.root # 0 THEN Reread(s, s.root, s.rootptr) ELSE LinkRoot(Fetch(s, s.rootptr))

(* __twig_search and __leaf_search: the place of the key, whose size is    *)
(* set only when the key is found.                                         *)
PlaceSize(n, at, size) ==
  [index |-> at.index, found |-> at.found,
   size |-> IF ~at.found THEN size
            ELSE IF IsLeaf(n) THEN n.block.items[at.index + 1].size
            ELSE NODE_POINTER_SIZE]

Search(n, key, size) == PlaceSize(n, IndexSearch(n, key), size)

(* __btree_lookup_level from a node down: the node of that level, 0 for    *)
(* NULL, and the place of the key in the node last searched.               *)
Place(s, id, at) ==
  [s |-> s, id |-> id, index |-> at.index, found |-> at.found, size |-> at.size]

RECURSIVE Descend(_, _, _, _, _)
DescendTo(kid, id, key, level, at) ==
  IF kid.id = 0 THEN Place(Release(kid.s, id), 0, at)
  ELSE Descend(Release(kid.s, id), kid.id, key, level, at.size)

DescendFrom(s, id, key, level, at) ==
  LET n == s.node[id]
  IN IF key = Wild /\ Items(n) > 0 THEN Place(Harm(s, "wild"), 0, at)
     ELSE IF n.block.level = level THEN Place(s, id, at)
     ELSE IF IsLeaf(n) THEN Place(Release(s, id), 0, at)
     ELSE IF Items(n) = 0 THEN Place(Harm(s, "rootwaste"), 0, at)
     ELSE DescendTo(FetchTwig(s, id, IF at.index >= Items(n) THEN Items(n) - 1 ELSE at.index),
                    id, key, level, at)

Descend(s, id, key, level, size) ==
  DescendFrom(s, id, key, level, Search(s.node[id], key, size))

(* __btree_lookup_level; junk is what place.size holds before. *)
LookupFrom(root, key, level, junk) ==
  IF root.id = 0 THEN Place(root.s, 0, [index |-> 0, found |-> FALSE, size |-> junk])
  ELSE Descend(root.s, root.id, key, level, junk)

LookupLevel(s, key, level, junk) == LookupFrom(FetchRoot(s), key, level, junk)

(* The twig of a level; NULL is meant to say that there is no such level. *)
NoLevel(p, level) ==
  IF p.id = 0 /\ level < p.s.height /\ ~Harmed(p.s)
  THEN [p EXCEPT !.s = Harm(@, "unread")] ELSE p

TwigOf(s, key, level) == NoLevel(LookupLevel(s, key, level, 0), level)

-----------------------------------------------------------------------------
(* Separators: the key of a child in its twig is the last key below it. *)

(* __btree_twigs_update, for the twigs above the level *)
RECURSIVE TwigsUpdate(_, _, _, _)
TwigUpdate(p, level, old, new) ==
  LET n == [p.s.node[p.id] EXCEPT !.update = TRUE]
      m == IF p.found THEN TwigReplace(n, p.index, new, n.block.items[p.index + 1].ptr)
           ELSE n
  IN IF Harmed(p.s) \/ p.id = 0 THEN p.s
     ELSE IF p.found /\ new = Wild THEN Harm(p.s, "wild")
     ELSE TwigsUpdate(Release(Set(p.s, p.id, m), p.id), level, old, new)

TwigsUpdate(s, level, old, new) ==
  TwigUpdate(TwigOf(s, old, level + 1), level + 1, old, new)

(* __btree_twigs_insert_update, before the key is put at the index *)
TwigsInsertUpdate(s, id, index, key) ==
  LET n == s.node[id]
  IN TwigsUpdate(s, n.block.level, LastKey(n),
                 IF index = Items(n) THEN key ELSE LastKey(n))

(* Mutant: the twigs keep the key that goes. *)
TwigsRemoveUpdateMutant(s, id, index) ==
  LET n == s.node[id] IN TwigsUpdate(s, n.block.level, LastKey(n), LastKey(n))

(* __btree_twigs_remove_update, before the item at the index goes *)
TwigsRemoveUpdate(s, id, index) ==
  LET n == s.node[id]
  IN TwigsUpdate(s, n.block.level, LastKey(n),
                 IF index = Items(n) - 1 THEN LastPrevKey(n) ELSE LastKey(n))
=============================================================================
