--------------------------- MODULE BTreeProperties ---------------------------
(* What the B-tree promises as long as nothing has done it harm (see       *)
(* BTreeSearch), and what it is used for although harm is near.            *)
EXTENDS BTree

Sound == ~Harmed(bt)
InMemory == {id \in DOMAIN bt.node : bt.node[id].block # NoBlock}

(* What a lookup answers: nothing for a key that is lost. *)
Answer(value) == IF value = Lost THEN None ELSE value

(* The nodes between two calls: every node is given back, the keys are in  *)
(* order, a twig has at most fanout children, and in a leaf the bodies lie *)
(* one below the other from the end of the block without a gap, and        *)
(* nh_free is exactly what they and the item table leave.                  *)
NodesWellFormed ==
  Sound => \A id \in InMemory :
    LET n == bt.node[id]
        items == n.block.items
    IN /\ n.refs = 0
       /\ \A i \in 1 .. Len(items) - 1 : items[i].key < items[i + 1].key
       /\ IF IsLeaf(n)
          THEN /\ n.block.free = NodeSpace - Len(items) * ItemSize
                                           - LeafBodySize(n, 0, Len(items))
               /\ n.block.free >= 0
               /\ \A i \in DOMAIN items :
                    items[i].off = BlockSize - LeafBodySize(n, 0, i)
          ELSE Len(items) <= Fanout

(* A child in memory is one level below its twig and its separator is its  *)
(* last key, which is what sends every lookup to the only leaf the key can *)
(* be in: splits, appends and removals have told all the twigs above.      *)
SeparatorsAreLastKeys ==
  Sound => \A id \in InMemory :
    LET n == bt.node[id]
    IN IsLeaf(n) \/ \A i \in 0 .. Items(n) - 1 :
         LET kid == n.kids[i]
         IN kid \in InMemory =>
              /\ bt.node[kid].block.level = n.block.level - 1
              /\ Key(n, i) = LastKey(bt.node[kid])

(* btree_lookup finds every key with the value last inserted and no other, *)
(* wherever the blocks are: in memory, in the cache or on the disk; and in *)
(* a tree that a crash has torn still every key that was not lost.         *)
Dictionary ==
  Sound /\ phase = "open" => \A k \in DOMAIN content : BtLookup(bt, k).ret = Answer(content[k])

(* The disk alone, opened, has what the last complete sync wrote.  While   *)
(* another is under way, a key is found with that value if no block that   *)
(* leads to it was overwritten, and is lost, never wrong, if one was.      *)
DiskHolds ==
  Sound /\ bt.disk[0] # NoSuper =>
    \A k \in DOMAIN saved : BtLookup(Opened(bt.disk, 0), k).ret = Answer(saved[k])

(* What a sync has answered for is on the disk.  Where sync answers 1, for *)
(* nothing to write, and it is not, it is in a dirty node that is still in *)
(* memory and that sync has not come to: the value was replaced by one of  *)
(* its size, which no twig is told of, or a twig of the third level or     *)
(* above has been told and has left the cache since, and with it the flag. *)
Untold(old, new) == old > 0 /\ new > 0 /\ SizeOf[old] = SizeOf[new]
Forgets == sc.cache > 0 /\ bt.disk[0].height > LEAF_NODE_LEVEL + 2

SyncedIsSaved ==
  Sound => \A k \in DOMAIN saved :
    \/ acked[k] = saved[k] \/ saved[k] = Lost
    \/ /\ Untold(saved[k], acked[k]) \/ Forgets
       /\ \E id \in InMemory : bt.node[id].dirty

(* What is on the disk is exactly known, through crashes in any write. *)
Durable == DiskHolds /\ SyncedIsSaved

(* A block that can be found in the cache is that of the disk: no changed  *)
(* block is left there and no entry is found under the number of another.  *)
(* (A block that was read through the cache comes back under number 0,     *)
(* which no pointer of a sound tree asks for.)                             *)
CacheCoherent ==
  Sound => \A i \in DOMAIN bt.cache.table : \A id \in ToSet(bt.cache.table[i]) :
    LET e == bt.cache.entry[id] IN e.nr # 0 => e.block = bt.disk[e.nr]

(* sb_nitems and sb_node_count are those of the tree, through all splits,  *)
(* removals and failed allocations that leave it sound; the nodes can be   *)
(* counted while all of them are in memory.                                *)
Counted ==
  Sound /\ phase = "open" =>
    /\ bt.nitems = Cardinality({k \in DOMAIN content : content[k] # None})
    /\ sc.syncs = 0 => bt.nodes = Cardinality(DOMAIN bt.node)

(* The tree in memory between two calls: its nodes, its separators and its *)
(* counters are right.                                                     *)
TreeWellFormed == NodesWellFormed /\ SeparatorsAreLastKeys /\ Counted

(* The use the tree is fit for: keys inserted in ascending order, written  *)
(* once and only read from then on do it no harm, whatever is opened,      *)
(* closed or lost in a crash, as long as there is a cache.                 *)
WriteOnceHarmless == sc.edits = 0 /\ sc.cache > 0 => Sound

(* Every key inserted is found: what __test_lookup of btree/main.c expects *)
(* of any tree, the keys inserted in any order.                            *)
EveryKeyFound ==
  phase = "open" => \A k \in DOMAIN content : BtLookup([bt EXCEPT !.harm = {}], k).ret = content[k]
=============================================================================
