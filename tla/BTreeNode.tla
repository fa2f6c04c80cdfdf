------------------------------ MODULE BTreeNode ------------------------------
(***************************************************************************)
(* The nodes of btree/btree.c: what each function on a twig (an internal   *)
(* node) or on a leaf makes of the node.                                   *)
(*                                                                         *)
(* The block of a node is what is written to the disk: level, free space,  *)
(* items and, in a leaf, the bytes of the bodies, which lie behind the     *)
(* item table from the end of the block downwards.  A twig item has the    *)
(* key and the disk pointer of a child, a leaf item the key, the offset    *)
(* and the size of its body.  A byte of a body is the value it is part of, *)
(* 0 before it is written.  The node in memory adds the children that are  *)
(* in memory (kids), the flags, the reference count and the block number.  *)
(*                                                                         *)
(* Indexes count from 0, as in the code.  Keys are positive numbers; the   *)
(* last key of a node without items is an address far outside of it, Wild. *)
(***************************************************************************)
EXTENDS Integers, Sequences, SequencesExt

CONSTANTS
  KeySize,     \* sb_key_size, also sb_prefix_size
  BlockSize    \* sb_block_size

Huge == 65536  \* bound: a free space that has wrapped below 0
Wild == 0

NODE_HEAD_SIZE    == 16
ITEM_HEAD_SIZE    == 8
NODE_POINTER_SIZE == 16
LEAF_NODE_LEVEL   == 1

NodeSpace  == BlockSize - NODE_HEAD_SIZE
ItemSize   == KeySize + ITEM_HEAD_SIZE
TwigNeeded == KeySize + NODE_POINTER_SIZE
Fanout     == NodeSpace \div TwigNeeded
ItemNeeded(size) == ItemSize + size

NoBlock   == [level |-> 0, free |-> 0, items |-> <<>>, data |-> <<>>]   \* NULL
NoPointer == [nr |-> 0, crc |-> NoBlock]                                \* {0, 0, 0}

IsLeaf(n) == n.block.level = LEAF_NODE_LEVEL
Items(n)  == Len(n.block.items)
Key(n, index) == n.block.items[index + 1].key
LastKey(n) == IF Items(n) = 0 THEN Wild ELSE Key(n, Items(n) - 1)
LastPrevKey(n) == IF Items(n) < 2 THEN Wild ELSE Key(n, Items(n) - 2)

(* The header of a new block: __btnode_alloc. *)
NewBlock(level) ==
  [level |-> level, free |-> NodeSpace, items |-> <<>>,
   data |-> IF level = LEAF_NODE_LEVEL
            THEN [o \in NODE_HEAD_SIZE .. BlockSize - 1 |-> 0] ELSE <<>>]

(* __btnode_internal_alloc, __btnode_leaf_alloc; a leaf never uses kids. *)
NewNode(block) ==
  [block |-> block, kids |-> [i \in 0 .. Fanout - 1 |-> 0], blocknr |-> 0,
   dirty |-> FALSE, update |-> FALSE, ondisk |-> FALSE, refs |-> 1]

(* nh_free -= __twig_needed: a wrapped free space, just below 2^32, is as  *)
(* good as endless.                                                        *)
FreeLess(free) ==
  IF free = Huge \/ free < TwigNeeded THEN Huge ELSE free - TwigNeeded

Dirty(n, block) == [n EXCEPT !.block = block, !.dirty = TRUE]

(* The index of the key, or of the first larger one: __index_search. *)
IndexSearch(n, key) ==
  LET probe[low \in 0 .. Items(n), high \in -1 .. Items(n) - 1] ==
        LET i == (low + high) \div 2
        IN IF low > high THEN [index |-> low, found |-> FALSE]
           ELSE IF Key(n, i) = key THEN [index |-> i, found |-> TRUE]
           ELSE IF Key(n, i) < key THEN probe[i + 1, high] ELSE probe[low, i - 1]
  IN probe[0, Items(n) - 1]

-----------------------------------------------------------------------------
(* Twigs.  The callers set the new kid; one item too many overwrites the   *)
(* pointers, see Overfull in BTree.                                        *)
TwigReplace(n, index, key, pointer) ==
  Dirty(n, [n.block EXCEPT !.items[index + 1] = [key |-> key, ptr |-> pointer]])

TwigInlineReplace(n, index, pointer) ==
  Dirty(n, [n.block EXCEPT !.items[index + 1].ptr = pointer])

(* Mutant: the children in memory are not moved along. *)
TwigInsertMutant(n, index, key, pointer) ==
  Dirty(n, [n.block EXCEPT
    !.items = InsertAt(@, index + 1, [key |-> key, ptr |-> pointer]),
    !.free = FreeLess(@)])

TwigInsert(n, index, key, pointer) ==
  [Dirty(n, [n.block EXCEPT
     !.items = InsertAt(@, index + 1, [key |-> key, ptr |-> pointer]),
     !.free = FreeLess(@)])
   EXCEPT !.kids = [i \in DOMAIN @ |->
                      IF index < i /\ i <= Items(n) THEN @[i - 1] ELSE @[i]]]

(* Removing takes from the free space, too. *)
TwigRemove(n, index) ==
  [Dirty(n, [n.block EXCEPT !.items = RemoveAt(@, index + 1),
                            !.free = FreeLess(@)])
   EXCEPT !.kids = [i \in DOMAIN @ |-> IF i = Items(n) - 1 THEN 0
                                       ELSE IF i >= index /\ i < Items(n) THEN @[i + 1]
                                       ELSE @[i]]]

(* Both halves of a twig that is split into itself and a new right one. *)
TwigSplit(left, right) ==
  LET lk == Items(left) \div 2
      rk == Items(left) - lk
      half(n, items) == Dirty(n, [n.block EXCEPT
                          !.items = items, !.free = NodeSpace - Len(items) * TwigNeeded])
  IN [left  |-> [half(left, SubSeq(left.block.items, 1, lk)) EXCEPT
                   !.kids = [i \in DOMAIN @ |-> IF i < lk THEN @[i] ELSE 0]],
      right |-> [half(right, SubSeq(left.block.items, lk + 1, lk + rk)) EXCEPT
                   !.kids = [i \in DOMAIN @ |-> IF i < rk THEN left.kids[lk + i] ELSE 0]]]

(* The rollback of a split: the children in memory stay behind. *)
TwigMerge(left, right) ==
  FoldLeft(LAMBDA n, item : TwigInsert(n, Items(n), item.key, item.ptr),
           left, right.block.items)

-----------------------------------------------------------------------------
(* Leaves: bytes are copied and moved as memcpy and memmove do. *)
Store(data, offset, size, value) ==
  [o \in DOMAIN data |-> IF offset <= o /\ o < offset + size THEN value ELSE data[o]]

Move(from, to, dst, src, size) ==
  [o \in DOMAIN to |->
     IF dst <= o /\ o < dst + size /\ o - dst + src \in DOMAIN from
     THEN from[o - dst + src] ELSE to[o]]

LeafBodySize(n, from, to) ==
  FoldLeft(LAMBDA sum, item : sum + item.size, 0, SubSeq(n.block.items, from + 1, to))

LeafMoveOffsets(items, from, to, diff) ==
  [i \in DOMAIN items |-> IF from < i /\ i <= to THEN [items[i] EXCEPT !.off = @ + diff]
                          ELSE items[i]]

(* The value of a body: 0 when its bytes are not all of one value. *)
Body(n, index) ==
  LET item == n.block.items[index + 1]
      bytes == {n.block.data[o] : o \in item.off .. item.off + item.size - 1}
  IN IF Cardinality(bytes) = 1 THEN CHOOSE v \in bytes : TRUE ELSE 0

(* The node without what is left of earlier bodies. *)
Scrubbed(n) ==
  IF n.block = NoBlock \/ ~IsLeaf(n) THEN n
  ELSE LET used(o) == \E item \in ToSet(n.block.items) :
                        item.off <= o /\ o < item.off + item.size
       IN [n EXCEPT !.block.data = [o \in DOMAIN @ |-> IF used(o) THEN @[o] ELSE 0]]

(* The value is never written, nor its size, and the free space grows with *)
(* the value: see "replace" in BTree.                                      *)
LeafReplace(n, index, value, size) ==
  LET old == n.block.items[index + 1]
      diff == size - old.size
  IN Dirty(n, [n.block EXCEPT
       !.free = @ + diff,
       !.data = Move(@, @, old.off + old.size, old.off + size,
                     LeafBodySize(n, index, Items(n) - 1)),
       !.items = LeafMoveOffsets(@, index, Items(n), diff)])

LeafInlineReplace(n, index, value, size) ==
  Dirty(n, [n.block EXCEPT !.data = Store(@, n.block.items[index + 1].off, size, value)])

(* The bodies of the items behind the new one make room below them. *)
LeafInsert(n, index, key, value, size) ==
  LET last == n.block.items[Items(n)].off
      bodies == LeafBodySize(n, index, Items(n))
      inner == index < Items(n)
      offset == IF inner THEN last - size + bodies
                ELSE n.block.free - size + NODE_HEAD_SIZE + Items(n) * ItemSize
  IN Dirty(n, [n.block EXCEPT
       !.items = InsertAt(LeafMoveOffsets(@, index, Items(n), -size), index + 1,
                          [key |-> key, off |-> offset, size |-> size]),
       !.data = Store(IF inner THEN Move(@, @, last - size, last, bodies) ELSE @,
                      offset, size, value),
       !.free = @ - ItemNeeded(size)])

LeafRemove(n, index) ==
  LET size == n.block.items[index + 1].size
      last == n.block.items[Items(n)].off
      inner == index + 1 < Items(n)
  IN Dirty(n, [n.block EXCEPT
       !.items = RemoveAt(IF inner THEN LeafMoveOffsets(@, index, Items(n), size) ELSE @,
                          index + 1),
       !.data = IF inner THEN Move(@, @, last + size, last,
                                   LeafBodySize(n, index + 1, Items(n)))
                ELSE @,
       !.free = @ + ItemNeeded(size)])

(* The right half of the items goes to an empty right leaf. *)
LeafSplit(left, right) ==
  LET lk == Items(left) \div 2
      rk == Items(left) - lk
      moved == LeafBodySize(left, lk, Items(left))
      taken == moved + rk * ItemSize
  IN [left |-> Dirty(left, [left.block EXCEPT
                 !.items = SubSeq(@, 1, lk), !.free = @ + taken]),
      right |-> Dirty(right, [right.block EXCEPT
                 !.items = LeafMoveOffsets(SubSeq(left.block.items, lk + 1, lk + rk),
                                           0, rk, LeafBodySize(left, 0, lk)),
                 !.data = Move(left.block.data, @, BlockSize - moved,
                               left.block.items[Items(left)].off, moved),
                 !.free = @ - taken])]

(* The rollback of a split. *)
LeafMerge(left, right) ==
  FoldLeft(LAMBDA n, i : LeafInsert(n, Items(n), Key(right, i), Body(right, i),
                                    right.block.items[i + 1].size),
           left, [i \in 1 .. Items(right) |-> i - 1])
=============================================================================
