-------------------------------- MODULE BTree --------------------------------
(***************************************************************************)
(* The calls of btree/btree.c on one tree and its disk.  Calls are         *)
(* sequential: a call is one step, except that the process may die between *)
(* two disk writes of a sync.                                              *)
(*                                                                         *)
(* A checksum is the block itself: two blocks never collide.  The driver   *)
(* writes a block without a number where nothing was written yet, as the   *)
(* one of btree/main.c does, and its erase does nothing.  Reading a node   *)
(* from the disk does not run out of memory.                               *)
(***************************************************************************)
EXTENDS BTreeUpdate

CONSTANTS
  Scenarios    \* what is tried: [keys, load, values, edits, syncs, cache, faults]

VARIABLES
  bt,
  phase,    \* "open" from create or open to close, else "closed"
  content,  \* history: for each key the value last inserted, None or Lost
  saved,    \* history: what of it the disk has
  acked,    \* history: content as of the last sync that did not fail
  edits,    \* how many more inserts and removes are tried, and
  syncs,    \* how many more syncs; see Less
  sc        \* the scenario: the keys are 1 .. keys, the first load of them are
            \* inserted before the first step, which may be out of memory (faults)

vars == <<bt, phase, content, saved, acked, edits, syncs, sc>>

None == 0
Lost == -1   \* on the disk, but a block that leads there was overwritten

SuperBlock(s) ==
  [height |-> s.height, rootptr |-> s.rootptr, nodes |-> s.nodes,
   nitems |-> s.nitems, stored |-> s.stored]

(* A disk without a super block: the magic number is wrong. *)
NoSuper == [height |-> 0, rootptr |-> NoPointer, nodes |-> 0, nitems |-> 0, stored |-> 0]

(* The nodes in memory below a node, from left to right. *)
RECURSIVE Preorder(_, _)
Preorder(s, id) ==
  FoldLeft(LAMBDA ids, i : ids \o IF s.node[id].kids[i - 1] = 0 THEN <<>>
                                  ELSE Preorder(s, s.node[id].kids[i - 1]),
           <<id>>, [i \in 1 .. Fanout |-> i])

(* After a call the log is forgotten, and so are the bytes outside the     *)
(* bodies, which are never read again.  The address of a node is its place *)
(* in the tree.                                                            *)
Renamed(s, ids) ==
  LET new(id) == IF id = 0 THEN 0 ELSE SelectInSeq(ids, LAMBDA i : i = id)
      moved(n) == [n EXCEPT !.kids = [i \in DOMAIN @ |-> new(@[i])]]
  IN [s EXCEPT !.mem = Plenty, !.log = <<>>, !.root = new(@),
               !.node = [i \in DOMAIN ids |-> Scrubbed(moved(s.node[ids[i]]))]]

Done(s) ==
  IF Harmed(s) THEN s ELSE Renamed(s, IF s.root = 0 THEN <<>> ELSE Preorder(s, s.root))

(* A call starts with memory for m nodes. *)
Start(m) == [bt EXCEPT !.mem = m]

Loaded(n, v, size) ==
  FoldLeft(LAMBDA s, k : Done(BtInsert(s, k, v, 0).s),
           Created(0 :> NoSuper, size), [k \in 1 .. n |-> k])

Init ==
  /\ sc \in Scenarios
  /\ bt = Loaded(sc.load, Min(sc.values), sc.cache)
  /\ phase = "open"
  /\ content = [k \in 1 .. sc.keys |-> IF k <= sc.load THEN Min(sc.values) ELSE None]
  /\ saved = [k \in 1 .. sc.keys |-> None] /\ acked = saved
  /\ edits = sc.edits /\ syncs = sc.syncs

Call == phase = "open" /\ ~Harmed(bt)

(* The bounds: Plenty of calls are not counted. *)
Less(n) == IF n = Plenty THEN n ELSE n - 1
Edit == Call /\ edits > 0 /\ edits' = Less(edits)

-----------------------------------------------------------------------------
(* btree_insert, with memory for m nodes and the junk left in place.size *)
Insert(k, v, m, junk) ==
  /\ Edit
  /\ \E r \in {BtInsert(Start(m), k, v, junk)} :
       /\ bt' = Done(r.s)
       /\ content' = IF r.ret = 0 THEN [content EXCEPT ![k] = v] ELSE content
  /\ UNCHANGED <<phase, saved, acked, syncs, sc>>

(* The faults: too little memory, and a size that an earlier call left. *)
Faults(v) ==
  IF sc.faults THEN {<<m, 0>> : m \in 0 .. 2} \cup {<<Plenty, SizeOf[v]>>} ELSE {}

Remove_(k) ==
  /\ Edit
  /\ \E r \in {BtRemove(bt, k)} :
       /\ bt' = Done(r.s)
       /\ content' = IF r.ret = 0 THEN [content EXCEPT ![k] = None] ELSE content
  /\ UNCHANGED <<phase, saved, acked, syncs, sc>>

Lookup(k) ==
  /\ Call
  /\ bt' = Done(BtLookup(bt, k).s)
  /\ UNCHANGED <<phase, content, saved, acked, edits, syncs, sc>>

-----------------------------------------------------------------------------
(* Sync *)

(* btdisk->write: the number the data is written under *)
Written(s, nr, data) ==
  LET at == IF nr = 0 THEN Max(DOMAIN s.disk) + 1 ELSE nr
  IN [s EXCEPT !.disk = (at :> data) @@ @, !.log = Append(@, [nr |-> at, data |-> data])]

(* Mutant: a node that is written stays dirty. *)
WriteNodeMutant(s, id) ==
  LET n == s.node[id]
      t == Written(s, n.blocknr, n.block)
      nr == Last(t.log).nr
  IN [s |-> Set(t, id, [n EXCEPT !.ondisk = TRUE, !.blocknr = nr]),
      err |-> 0, ptr |-> [nr |-> nr, crc |-> n.block]]

(* The node itself is written last; a twig by then has the pointers of its *)
(* children.                                                               *)
WriteNode(s, id) ==
  LET n == s.node[id]
      t == Written(s, n.blocknr, n.block)
      nr == Last(t.log).nr
  IN [s |-> Set(t, id, [n EXCEPT !.ondisk = TRUE, !.dirty = FALSE, !.blocknr = nr]),
      err |-> 0, ptr |-> [nr |-> nr, crc |-> n.block]]

NotWritten(s, err) == [s |-> s, err |-> err, ptr |-> NoPointer]

(* __btree_sync, and its loop over the children from the i-th on *)
RECURSIVE SyncNode(_, _)
RECURSIVE SyncKids(_, _, _)

(* A child that was written gives its twig a new pointer. *)
KidPointer(s, id, i, w) ==
  IF w.err > 0 THEN s ELSE Set(s, id, TwigInlineReplace(s.node[id], i, w.ptr))

KidSynced(w, kid, id, i) ==
  IF Harmed(w.s) THEN w
  ELSE IF w.err < 0 THEN NotWritten(Release(w.s, kid), w.err)
  ELSE SyncKids(KidPointer(Release(w.s, kid), id, i, w), id, i + 1)

SyncKid(kid, id, i) ==
  IF kid.id = 0 THEN NotWritten(kid.s, -1)
  ELSE KidSynced(SyncNode(kid.s, kid.id), kid.id, id, i)

SyncKids(s, id, i) ==
  IF i = Items(s.node[id]) THEN NotWritten(s, 0) ELSE SyncKid(FetchTwig(s, id, i), id, i)

KidsSynced(k, id) ==
  IF Harmed(k.s) \/ k.err < 0 THEN k
  ELSE IF ~k.s.node[id].dirty THEN NotWritten(k.s, 2)
  ELSE WriteNode(k.s, id)

SyncNode(s, id) ==
  LET n == s.node[id]
  IN IF n.refs # 1 THEN NotWritten(Harm(s, "abort"), -1)
     ELSE IF ~IsLeaf(n) /\ ~n.update /\ ~n.dirty THEN NotWritten(s, 1)
     ELSE KidsSynced(IF IsLeaf(n) THEN NotWritten(s, 0) ELSE SyncKids(s, id, 0), id)

(* __btree_mem_nodes_release: every block must be in the cache by now. *)
MemNodesRelease(s) ==
  IF \E id \in DOMAIN s.node : s.node[id].refs # 0 \/ s.node[id].block # NoBlock
  THEN Harm(s, "abort") ELSE [s EXCEPT !.node = <<>>, !.root = 0]

(* Mutant: the super block is written before the nodes. *)
WriteSuperMutant(s) ==
  [s EXCEPT !.disk = (0 :> SuperBlock(s)) @@ @,
            !.log = <<[nr |-> 0, data |-> SuperBlock(s)]>> \o @]

(* btree_sync *)
WriteSuper(s) ==
  [s EXCEPT !.disk = (0 :> SuperBlock(s)) @@ @,
            !.log = Append(@, [nr |-> 0, data |-> SuperBlock(s)])]

SyncSuper(s, w) ==
  IF w.err < 0 THEN Ret(s, -1)
  ELSE IF w.err > 0 THEN Ret(s, 1)
  ELSE Ret(MemNodesRelease(WriteSuper([s EXCEPT !.rootptr = w.ptr])), 0)

RootSynced(w, root) ==
  IF Harmed(w.s) THEN Ret(w.s, 0) ELSE SyncSuper(Release(w.s, root), w)

SyncRoot(root) ==
  IF root.id = 0 THEN Ret(Harm(root.s, "abort"), 0)
  ELSE RootSynced(SyncNode(root.s, root.id), root.id)

BtSync(s) == IF s.root = 0 THEN Ret(s, 0) ELSE SyncRoot(FetchRoot(s))

(* The tree that btree_open makes of a disk *)
Opened(disk, size) ==
  LET b == disk[0]
  IN [Created(disk, size) EXCEPT
        !.height = b.height, !.rootptr = b.rootptr,
        !.nodes = b.nodes, !.nitems = b.nitems, !.stored = b.stored]

(* The blocks that lead from the super block to a key. *)
Trail(k) == {n.blocknr : n \in Range(BtLookup(Opened(bt.disk, 0), k).s.node)}

(* A node that was read from the disk is written over its old block, which *)
(* the pointers of the tree on the disk then do not fit any longer: until  *)
(* the super block is written the keys that it leads to are lost.          *)
Kept(disk) ==
  [k \in DOMAIN saved |->
     IF saved[k] = None \/ \A nr \in Trail(k) : disk[nr] = bt.disk[nr]
     THEN saved[k] ELSE Lost]

SyncAnswer(r) ==
  /\ saved' = IF r.ret = 0 THEN content ELSE Kept(r.s.disk)
  /\ acked' = IF r.ret < 0 THEN acked ELSE content

Synced == Call /\ syncs > 0 /\ syncs' = Less(syncs)

Sync ==
  /\ Synced
  /\ \E r \in {BtSync(bt)} : bt' = Done(r.s) /\ SyncAnswer(r)
  /\ UNCHANGED <<phase, content, edits, sc>>

(* btree_close *)
Close ==
  /\ Synced
  /\ \E r \in {BtSync(bt)} :
     \E t \in {IF r.s.root = 0 THEN r.s ELSE MemNodesRelease(r.s)} :
        /\ SyncAnswer(r)
        /\ IF r.ret < 0 \/ Harmed(r.s) \/ Harmed(t)
           THEN bt' = Done(IF r.ret < 0 THEN r.s ELSE t) /\ UNCHANGED phase
           ELSE bt' = Created(t.disk, 0) /\ phase' = "closed"
  /\ UNCHANGED <<content, edits, sc>>

(* btree_open; without a super block the magic number is wrong. *)
Open ==
  /\ phase = "closed" /\ bt.disk[0] # NoSuper
  /\ bt' = Opened(bt.disk, sc.cache)
  /\ phase' = "open"
  /\ UNCHANGED <<content, saved, acked, edits, syncs, sc>>

OpenFails == phase = "closed" /\ bt.disk[0] = NoSuper /\ UNCHANGED vars

-----------------------------------------------------------------------------
(* The process dies: between two calls, *)
Restarted(disk) ==
  /\ bt' = Created(disk, 0) /\ phase' = "closed"
  /\ saved' = Kept(disk) /\ content' = saved' /\ acked' = saved'

Crash ==
  /\ Call /\ sc.syncs > 0
  /\ Restarted(bt.disk)
  /\ UNCHANGED <<edits, syncs, sc>>

(* or in a sync, after n of its writes. *)
CrashInSync(n) ==
  /\ Synced
  /\ \E r \in {BtSync(bt)} :
        /\ ~Harmed(r.s) /\ n < Len(r.s.log)
        /\ Restarted(FoldLeft(LAMBDA d, w : (w.nr :> w.data) @@ d,
                              bt.disk, SubSeq(r.s.log, 1, n)))
  /\ UNCHANGED <<edits, sc>>

Stuck == Harmed(bt) /\ UNCHANGED vars

Next ==
  \/ \E k \in 1 .. sc.keys :
       \/ Remove_(k) \/ Lookup(k)
       \/ \E v \in sc.values : \E f \in {<<Plenty, 0>>} \cup Faults(v) :
            Insert(k, v, f[1], f[2])
  \/ Sync \/ Close \/ Open \/ OpenFails \/ Crash \/ \E n \in 1 .. Cardinality(DOMAIN bt.node) : CrashInSync(n)
  \/ Stuck

Spec == Init /\ [][Next]_vars
=============================================================================
