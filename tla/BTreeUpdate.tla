----------------------------- MODULE BTreeUpdate -----------------------------
(* Insert and remove of btree/btree.c, with the splits and removals of     *)
(* nodes they lead to.  An operator takes the tree and answers with it.    *)
EXTENDS BTreeSearch

CONSTANT SizeOf   \* the values 1, 2, ... and their sizes

Ret(s, n) == [s |-> s, ret |-> n]

(* __leaf_insert and __leaf_remove, with the counters of the super block *)
PutItem(s, id, index, key, value) ==
  [Set(s, id, LeafInsert(s.node[id], index, key, value, SizeOf[value]))
   EXCEPT !.nitems = @ + 1, !.stored = @ + SizeOf[value]]

TakeItem(s, id, index) ==
  [Set(s, id, LeafRemove(s.node[id], index))
   EXCEPT !.nitems = @ - 1, !.stored = @ - s.node[id].block.items[index + 1].size]

(* A child is put into a twig: __twig_insert and the pointer in memory. *)
AddKidAt(s, id, index, key, kid) ==
  IF Items(s.node[id]) >= Fanout THEN Harm(s, "overfull")
  ELSE Set(s, id, [TwigInsert(s.node[id], index, key, NoPointer) EXCEPT !.kids[index] = kid])

AddKid(s, id, key, kid) == AddKidAt(s, id, IndexSearch(s.node[id], key).index, key, kid)

(* __btree_grow: a new root above the old one. *)
SetRoot(s, id) == At([s EXCEPT !.root = id, !.height = @ + 1], id)

GrowAbove(old, new) ==
  IF old.id = 0 THEN At(Harm(old.s, "abort"), 0)
  ELSE IF ~old.s.node[old.id].dirty THEN At(Harm(old.s, "detached"), 0)
  ELSE SetRoot(Release(AddKid(old.s, new, LastKey(old.s.node[old.id]), old.id), old.id), new)

GrowTo(new) ==
  IF new.id = 0 THEN new
  ELSE IF new.s.height = LEAF_NODE_LEVEL THEN SetRoot(new.s, new.id)
  ELSE GrowAbove(FetchRoot(new.s), new.id)

Grow(s) == GrowTo(Alloc(s, s.height))

-----------------------------------------------------------------------------
(* __btree_insert_node: a new node is made known to the twig above it.     *)
(* Each operator of such a group takes the call of the C function up from  *)
(* the answer of the one before.                                           *)
RECURSIVE InsertNode(_, _)

(* A full twig is split, the twigs above learn the last key of the left    *)
(* half, one half takes the node, and the right one is put into the tree;  *)
(* when that fails the halves are merged again.                            *)
TwigRollback(s, twig, right) ==
  Ret(Harm(Drop(Release(Set(s, twig, TwigMerge(s.node[twig], s.node[right])), twig), right),
           "rollback"), 3)

TwigHalvesIn(up, twig, right, target, at) ==
  IF Harmed(up.s) THEN up
  ELSE IF up.ret # 0
  THEN TwigRollback(Set(up.s, target, TwigRemove(up.s.node[target], at)), twig, right)
  ELSE Ret(Release(Release(up.s, right), twig), 0)

TwigHalfFilled(s, twig, right, target, at) ==
  IF Harmed(s) THEN Ret(s, 0)
  ELSE TwigHalvesIn(InsertNode(s, right), twig, right, target, at)

TwigHalfInsert(s, twig, right, target, id, key) ==
  LET at == IndexSearch(s.node[target], key).index
  IN IF Harmed(s) THEN Ret(s, 0)
     ELSE TwigHalfFilled(AddKid(TwigsInsertUpdate(s, target, at, key), target, key, id),
                         twig, right, target, at)

TwigHalves(s, twig, right, halves, id, key) ==
  TwigHalfInsert(TwigsUpdate(Set(Set(s, twig, halves.left), right, halves.right),
                             halves.left.block.level,
                             LastKey(halves.right), LastKey(halves.left)),
                 twig, right, IF key < Key(halves.right, 0) THEN twig ELSE right, id, key)

TwigSplitWith(new, twig, id, key) ==
  IF new.id = 0 THEN Ret(Release(new.s, twig), 2)
  ELSE TwigHalves(new.s, twig, new.id,
                  TwigSplit(new.s.node[twig], new.s.node[new.id]), id, key)

TwigSplitInsert(s, twig, id, key) ==
  TwigSplitWith(Alloc(s, s.node[twig].block.level), twig, id, key)

(* Behind the last key of a full twig the node gets a twig of its own. *)
TwigAppended(up, new, twig) ==
  IF Harmed(up.s) THEN up
  ELSE IF up.ret # 0 THEN Ret(Harm(Drop(Release(up.s, twig), new), "miscount"), 5)
  ELSE Ret(Release(Release(up.s, new), twig), 0)

TwigAppendWith(new, twig, id, key) ==
  IF new.id = 0 THEN Ret(Release(new.s, twig), 4)
  ELSE TwigAppended(InsertNode(AddKid(new.s, new.id, key, id), new.id), new.id, twig)

TwigAppend(s, twig, id, key) ==
  TwigAppendWith(Alloc(s, s.node[twig].block.level), twig, id, key)

(* Without a twig above, the root grows. *)
InsertInRoot(root, id, key) ==
  IF root.id = 0 THEN Ret(root.s, 1)
  ELSE Ret(Release(AddKid(root.s, root.id, key, id), root.id), 0)

InsertInTwig(p, id, key) ==
  LET twig == p.s.node[p.id]
  IN IF Harmed(p.s) THEN Ret(p.s, 0)
     ELSE IF p.id = 0 THEN InsertInRoot(Grow(p.s), id, key)
     ELSE IF twig.block.free >= TwigNeeded
     THEN Ret(Release(AddKid(TwigsInsertUpdate(p.s, p.id, IndexSearch(twig, key).index, key),
                             p.id, key, id), p.id), 0)
     ELSE IF p.index < Items(twig) THEN TwigSplitInsert(p.s, p.id, id, key)
     ELSE TwigAppend(p.s, p.id, id, key)

InsertNode(s, id) ==
  LET n == s.node[id]
  IN InsertInTwig(TwigOf(s, LastKey(n), n.block.level + 1), id, LastKey(n))

(* __btree_leaf_split_insert: the right half is put into the tree, then    *)
(* one half takes the item.  The twigs are told that no key is added at    *)
(* the end (index 0), also when one is.  A half without room leads to a    *)
(* leaf of its own, whose last key is asked for while it has none.         *)
LeafInner(new, right, key) ==
  IF new.id = 0 THEN Ret(Release(new.s, right), 3)
  ELSE Ret(TwigsInsertUpdate(new.s, new.id, 0, key), 0)

LeafHalfInsert(s, right, target, key, value) ==
  LET n == s.node[target]
      at == IndexSearch(n, key).index
  IN IF n.block.free < ItemNeeded(SizeOf[value])
     THEN LeafInner(Alloc(s, LEAF_NODE_LEVEL), right, key)
     ELSE Ret([Release(PutItem(TwigsInsertUpdate(s, target, 0, key),
                               target, at, key, value), right)
               EXCEPT !.harm = @ \cup IF at = Items(n) THEN {"gap"} ELSE {}], 0)

LeafHalfIn(in, left, right, target, key, value) ==
  LET half == in.s.node[right]
  IN IF Harmed(in.s) THEN in
     ELSE IF in.ret # 0
     THEN Ret(Harm(Drop([Set(in.s, left, LeafMerge(in.s.node[left], half))
                         EXCEPT !.nitems = @ + Items(half)], right), "rollback"), 2)
     ELSE LeafHalfInsert(in.s, right, target, key, value)

LeafHalvesKnown(s, left, right, target, key, value) ==
  IF Harmed(s) THEN Ret(s, 0)
  ELSE LeafHalfIn(InsertNode(s, right), left, right, target, key, value)

LeafHalves(s, left, right, halves, key, value) ==
  LeafHalvesKnown(TwigsUpdate(Set(Set(s, left, halves.left), right, halves.right),
                              LEAF_NODE_LEVEL, LastKey(halves.right), LastKey(halves.left)),
                  left, right, IF key < Key(halves.right, 0) THEN left ELSE right, key, value)

LeafSplitWith(new, left, key, value) ==
  IF new.id = 0 THEN Ret(new.s, 1)
  ELSE LeafHalves(new.s, left, new.id,
                  LeafSplit(new.s.node[left], new.s.node[new.id]), key, value)

LeafSplitInsert(s, left, key, value) ==
  LeafSplitWith(Alloc(s, LEAF_NODE_LEVEL), left, key, value)

(* The key behind the last one of a full leaf gets a leaf of its own. *)
LeafAppended(in, new) ==
  IF Harmed(in.s) THEN in
  ELSE IF in.ret # 0 THEN Ret(Harm(Drop(in.s, new), "miscount"), 4)
  ELSE Ret(Release(in.s, new), 0)

LeafAppendWith(new, key, value) ==
  IF new.id = 0 THEN Ret(new.s, 3)
  ELSE LeafAppended(InsertNode(PutItem(new.s, new.id, 0, key, value), new.id), new.id)

LeafAppend(s, key, value) == LeafAppendWith(Alloc(s, LEAF_NODE_LEVEL), key, value)

(* btree_insert into the leaf of the key *)
LeafItem(s, p, key, value) ==
  IF Harmed(s) THEN Ret(s, 0) ELSE Ret(PutItem(s, p.id, p.index, key, value), 0)

Replaced(r, found) == IF found THEN Ret(Harm(r.s, "replace"), 0) ELSE r

LeafWithKey(p, key, value) ==
  LET s == p.s
      n == s.node[p.id]
      size == SizeOf[value]
      free == n.block.free + IF p.found THEN ItemNeeded(p.size) ELSE 0
  IN IF p.size = size
     THEN IF p.found
          THEN Ret(Set(s, p.id, LeafInlineReplace(n, p.index, value, size)), 0)
          ELSE Ret(Harm(s, "junk"), 0)
     ELSE IF free >= ItemNeeded(size)
     THEN IF p.found
          THEN Ret(Harm(Set(s, p.id, LeafReplace(n, p.index, value, size)), "replace"), 0)
          ELSE LeafItem(TwigsInsertUpdate(s, p.id, p.index, key), p, key, value)
     ELSE IF p.found \/ p.index < Items(n)
     THEN Replaced(LeafSplitInsert(IF p.found THEN TakeItem(s, p.id, p.index) ELSE s,
                                   p.id, key, value), p.found)
     ELSE LeafAppend(s, key, value)

(* btree_insert: a tree without a root in memory counts as empty. *)
FirstItem(root, key, value) ==
  IF root.id = 0 THEN Ret(root.s, 1)
  ELSE Ret(Release(PutItem(root.s, root.id, 0, key, value), root.id), 0)

Inserted(r, p) ==
  IF Harmed(r.s) THEN r
  ELSE Ret(Release(r.s, p.id),
           IF r.ret # 0 /\ p.index < Items(p.s.node[p.id]) THEN 2 ELSE r.ret)

InsertPlaced(p, key, value) ==
  IF Harmed(p.s) THEN Ret(p.s, 0)
  ELSE IF p.id = 0 THEN Ret(Harm(p.s, "abort"), 0)
  ELSE Inserted(LeafWithKey(p, key, value), p)

BtInsert(s, key, value, junk) ==
  IF s.root # 0 THEN InsertPlaced(LookupLevel(s, key, LEAF_NODE_LEVEL, junk), key, value)
  ELSE IF s.height > LEAF_NODE_LEVEL THEN Ret(Harm(s, "rootless"), 0)
  ELSE FirstItem(Grow(s), key, value)

-----------------------------------------------------------------------------
(* An item and its child leave a twig. *)
TwigWithout(s, id, index) ==
  IF Harmed(s) THEN s ELSE Set(s, id, TwigRemove(s.node[id], index))

RemoveFromTwig(s, id, index) == TwigWithout(TwigsRemoveUpdate(s, id, index), id, index)

(* __btree_remove_node: a node whose last item goes is removed, and with   *)
(* it the twigs it was the only child of; 0 when it is the root.           *)
RECURSIVE RemoveNode(_, _)
NodeRemoved(up, twig, id) ==
  LET t == Drop(IF IsLeaf(up.s.node[id]) THEN TakeItem(up.s, id, 0) ELSE up.s, id)
  IN IF Harmed(up.s) THEN up
     ELSE Ret(IF up.ret = 0 THEN Release([t EXCEPT !.nodes = @ - 1], twig)
              ELSE [t EXCEPT !.nodes = @ - 1], 1)

RemoveBelow(p, id) ==
  IF Harmed(p.s) THEN Ret(p.s, 1)
  ELSE IF p.id = 0
  THEN Ret(IF IsLeaf(p.s.node[id]) THEN p.s ELSE RemoveFromTwig(p.s, id, p.index), 0)
  ELSE NodeRemoved(IF Items(p.s.node[p.id]) = 1 THEN RemoveNode(p.s, p.id)
                   ELSE Ret(RemoveFromTwig(p.s, p.id, p.index), 0), p.id, id)

RemoveNode(s, id) ==
  LET n == s.node[id] IN RemoveBelow(TwigOf(s, LastKey(n), n.block.level + 1), id)

(* A root with a single child gives way to the child. *)
ShrinkTo(kid, root) ==
  IF kid.id = 0 THEN Harm(kid.s, "abort")
  ELSE IF ~kid.s.node[kid.id].dirty THEN Harm(kid.s, "detached")
  ELSE Release([Drop(kid.s, root) EXCEPT
                  !.root = kid.id, !.height = @ - 1, !.nodes = @ - 1], kid.id)

ShrinkRoot(root) ==
  IF Items(root.s.node[root.id]) # 1 THEN Release(root.s, root.id)
  ELSE ShrinkTo(FetchTwig(root.s, root.id, 0), root.id)

Shrink(s) == ShrinkRoot(FetchRoot(s))

(* btree_remove *)
LeafRemoved(r) ==
  IF Harmed(r.s) THEN Ret(r.s, 0)
  ELSE IF r.ret = 0 THEN Ret(Harm(r.s, "abort"), 0)
  ELSE Ret(Shrink(r.s), 0)

ItemRemoved(s, p) ==
  IF Harmed(s) THEN Ret(s, 0) ELSE Ret(Release(TakeItem(s, p.id, p.index), p.id), 0)

RemovePlaced(p) ==
  LET last == Items(p.s.node[p.id]) = 1
  IN IF Harmed(p.s) THEN Ret(p.s, 0)
     ELSE IF p.id = 0 THEN Ret(p.s, 1)
     ELSE IF ~p.found THEN Ret(Release(p.s, p.id), 2)
     ELSE IF last /\ p.s.nodes > 1 THEN LeafRemoved(RemoveNode(p.s, p.id))
     ELSE ItemRemoved(IF last THEN p.s ELSE TwigsRemoveUpdate(p.s, p.id, p.index), p)

BtRemove(s, key) == RemovePlaced(LookupLevel(s, key, LEAF_NODE_LEVEL, 0))

(* The value btree_lookup copies to the buffer, 0 when it copies none, and *)
(* the tree it leaves.                                                     *)
LookupPlaced(p) ==
  IF Harmed(p.s) \/ p.id = 0 THEN Ret(p.s, 0)
  ELSE Ret(Release(p.s, p.id), IF p.found THEN Body(p.s.node[p.id], p.index) ELSE 0)

BtLookup(s, key) == LookupPlaced(LookupLevel(s, key, LEAF_NODE_LEVEL, 0))
=============================================================================
