----------------------------- MODULE HashBuckets -----------------------------
(***************************************************************************)
(* The bucket array and the node pool that hashtable/hashtable.c,          *)
(* bag/bag.c and set/set.c have in common; the three files differ only in  *)
(* what a node carries next to its key, here the field value (the value of *)
(* a hash table, the count of a bag, nothing for a set).                   *)
(*                                                                         *)
(* A chain is the set of its nodes: the code never orders a chain, and a   *)
(* lookup compares keys until it meets the one it looks for.  The pool is  *)
(* the number of nodes linked from table->pool.  Every call is one step:   *)
(* the containers are sequential.                                          *)
(***************************************************************************)
EXTENDS Integers, FiniteSets

CONSTANTS
  Keys,
  Hash,         \* hash_func
  Sizes,        \* bucket counts: 8 and the powers of two above it
  POOL_SIZE,    \* __HASHTABLE_POOL_SIZE
  DOUBLE_FROM,  \* 64: from here on the array is doubled
  CLEAR_FROM    \* 1024: above it clear gives memory back

ASSUME HashAssumption ==
  /\ IsFiniteSet(Keys)
  /\ Hash \in [Keys -> Nat]
  /\ Sizes \subseteq Nat \ {0}
  /\ POOL_SIZE \in Nat

VARIABLES
  phase,      \* "live" between alloc and free, else "none"
  bucket,     \* table->bucket
  size,       \* table->size
  used,       \* table->used
  pool,       \* length of the list table->pool
  pool_size,  \* table->pool_size
  nodes,      \* nodes allocated and not freed
  ret         \* the last call and what it returned

bucketVars == <<phase, bucket, size, used, pool, pool_size, nodes, ret>>

Returns(call, n) == ret' = [call |-> call, value |-> n]
Node(k, v)  == [key |-> k, value |-> v]
Entries(b)  == UNION {b[i] : i \in DOMAIN b}
KeysOf(b)   == {e.key : e \in Entries(b)}

(* hash & (size - 1), size being a power of two *)
Index(k, n) == Hash[k] % n

(* __hashnode_lookup: the nodes of the chain whose key compares equal *)
Found(k) == {e \in bucket[Index(k, size)] : e.key = k}

(* __nbucket_roundup: p is the bucket count for a request of n *)
RoundsUpTo(n, p) == p \in Sizes /\ p >= n /\ \A q \in Sizes : q >= n => p <= q

(* *node = p and *node = p->next at the position lookup returned *)
Linked(b, i, e)   == [b EXCEPT ![i] = @ \cup {e}]
Unlinked(b, i, e) == [b EXCEPT ![i] = @ \ {e}]

EmptyBuckets(n) == [i \in 0 .. n - 1 |-> {}]

(* One round of the loop in __hashtable_resize that moves the nodes of the *)
(* array b to one of n chains.  The chain at hand is left with the nodes   *)
(* from p on: next is read, then p becomes the last node of the chain      *)
(* where its key is looked up.  At the end of a chain the one before it is *)
(* taken.                                                                  *)
First(rest) == CHOOSE p \in rest : TRUE

(* Mutant: next is read after p has been linked and its link cut. *)
RelinkMutant(w, b, n) ==
  IF w.rest # {} THEN
    LET p == First(w.rest)
    IN [w EXCEPT !.rest = {}, !.new = Linked(@, Index(p.key, n), p)]
  ELSE IF w.left > 0 THEN [w EXCEPT !.rest = b[w.left - 1], !.left = @ - 1]
  ELSE w

Relink(w, b, n) ==
  IF w.rest # {} THEN
    LET p == First(w.rest)
    IN [w EXCEPT !.rest = @ \ {p}, !.new = Linked(@, Index(p.key, n), p)]
  ELSE IF w.left > 0 THEN [w EXCEPT !.rest = b[w.left - 1], !.left = @ - 1]
  ELSE w

(* The array of n chains that the rounds over the array b, of table->size  *)
(* chains, end with.                                                       *)
Rehash(b, n) ==
  LET rounds == size + Cardinality(Entries(b))
      walk[i \in 0 .. rounds] ==
        IF i = 0 THEN [left |-> size, rest |-> {}, new |-> EmptyBuckets(n)]
        ELSE Relink(walk[i - 1], b, n)
  IN walk[rounds].new

BucketInit ==
  /\ phase = "none"
  /\ bucket = <<>> /\ size = 0 /\ used = 0
  /\ pool = 0 /\ pool_size = 0 /\ nodes = 0
  /\ ret = [call |-> "free", value |-> 0]

(* hashtable_alloc for a request that rounds up to p; any p can be asked for *)
Alloc ==
  /\ phase = "none"
  /\ \E p \in Sizes : bucket' = EmptyBuckets(p) /\ size' = p
  /\ phase' = "live"
  /\ used' = 0 /\ pool' = 0 /\ pool_size' = 0
  /\ Returns("alloc", 0)
  /\ UNCHANGED nodes

AllocFails ==
  /\ phase = "none"
  /\ Returns("alloc", -1)
  /\ UNCHANGED <<phase, bucket, size, used, pool, pool_size, nodes>>

-----------------------------------------------------------------------------
(* A miss in insert: grow the array if it is crowded, then link a node.    *)

Crowded == used > size + (size \div 8)
Grown   == size + (IF size < DOUBLE_FROM THEN size \div 2 ELSE size)

(* __hashnode_alloc: from the pool, or from the allocator *)
NodeAlloc ==
  IF pool > 0
  THEN pool' = pool - 1 /\ pool_size' = pool_size - 1 /\ UNCHANGED nodes
  ELSE nodes' = nodes + 1 /\ UNCHANGED <<pool, pool_size>>

(* The array in which the node is linked, and its size. *)
LinkSize(n)  == n \in Sizes /\ IF Crowded THEN RoundsUpTo(Grown, n) ELSE n = size
LinkArray(n) == IF Crowded THEN Rehash(bucket, n) ELSE bucket

(* Mutant: the position found before the array has grown is used. *)
LinkIndexMutant(k, n) == Index(k, size)

(* node = __hashnode_lookup(table, key), again after a resize *)
LinkIndex(k, n) == Index(k, n)

InsertLinks(k, v) ==
  /\ phase = "live" /\ Found(k) = {}
  /\ \E n \in Sizes :
       /\ LinkSize(n)
       /\ bucket' = Linked(LinkArray(n), LinkIndex(k, n), Node(k, v))
       /\ size' = n
  /\ NodeAlloc
  /\ used' = used + 1
  /\ Returns("insert", 0)
  /\ UNCHANGED phase

(* The array cannot be allocated: nothing changes. *)
InsertNoArray(k) ==
  /\ phase = "live" /\ Found(k) = {}
  /\ Crowded
  /\ Returns("insert", -1)
  /\ UNCHANGED <<phase, bucket, size, used, pool, pool_size, nodes>>

(* The node cannot be allocated: the array may have grown. *)
InsertNoNode(k) ==
  /\ phase = "live" /\ Found(k) = {}
  /\ pool = 0
  /\ \E n \in Sizes : LinkSize(n) /\ bucket' = LinkArray(n) /\ size' = n
  /\ Returns("insert", -2)
  /\ UNCHANGED <<phase, used, pool, pool_size, nodes>>

(* A hit: what the node carries is replaced. *)
Rewrite(call, k, v) ==
  /\ phase = "live"
  /\ \E e \in Found(k) :
       bucket' = Linked(Unlinked(bucket, Index(k, size), e),
                        Index(k, size), Node(k, v))
  /\ Returns(call, 0)
  /\ UNCHANGED <<phase, size, used, pool, pool_size, nodes>>

-----------------------------------------------------------------------------
(* remove and clear *)

(* __hashnode_free, called for n nodes: the pool is filled up to its limit *)
(* and the other nodes are freed                                           *)
NodesFree(n) ==
  LET kept == IF pool_size + n <= POOL_SIZE THEN n
              ELSE IF pool_size < POOL_SIZE THEN POOL_SIZE - pool_size ELSE 0
  IN /\ pool' = pool + kept
     /\ pool_size' = pool_size + kept
     /\ nodes' = nodes - (n - kept)

(* The last step of remove and clear: the array b is resized to a request  *)
(* of n when the test holds.  A failing allocation leaves it as it is, and *)
(* nobody looks at the result.                                             *)
MayResize(test, b, n) ==
  \/ bucket' = b /\ size' = size
  \/ /\ test
     /\ \E p \in Sizes :
          RoundsUpTo(n, p) /\ bucket' = Rehash(b, p) /\ size' = p

Sparse(count) == count < (size \div 2) - (size \div 4)

RemoveNode(k) ==
  /\ phase = "live"
  /\ \E e \in Found(k) :
       MayResize(Sparse(used - 1), Unlinked(bucket, Index(k, size), e), size \div 2)
  /\ NodesFree(1)
  /\ used' = used - 1
  /\ Returns("remove", 0)
  /\ UNCHANGED phase

RemoveMisses(k) ==
  /\ phase = "live" /\ Found(k) = {}
  /\ Returns("remove", -1)
  /\ UNCHANGED <<phase, bucket, size, used, pool, pool_size, nodes>>

Clear ==
  /\ phase = "live"
  /\ MayResize(size > CLEAR_FROM, EmptyBuckets(size), size \div 8)
  /\ NodesFree(Cardinality(Entries(bucket)))
  /\ used' = 0
  /\ Returns("clear", 0)
  /\ UNCHANGED phase

(* The nodes of the pool, which free walks after it has cleared the table. *)
Pooled == pool

(* hashtable_free: clear, then the nodes of the pool, then the array.  The *)
(* fields keep their old contents, which mean nothing any more.            *)
Free ==
  /\ phase = "live"
  /\ phase' = "none"
  /\ bucket' = <<>> /\ size' = 0 /\ used' = 0
  /\ pool' = 0 /\ pool_size' = 0
  /\ nodes' = nodes - (Cardinality(Entries(bucket)) + Pooled)
  /\ Returns("free", 0)

-----------------------------------------------------------------------------
(* What is claimed of the buckets of the three containers. *)

(* The array has size chains of nodes, a counter never goes below 0, and   *)
(* the pool keeps to its limit.                                            *)
TypeOK ==
  /\ phase \in {"none", "live"}
  /\ size \in Nat /\ (phase = "live" => size \in Sizes)
  /\ DOMAIN bucket = 0 .. size - 1
  /\ IsFiniteSet(Entries(bucket))
  /\ \A e \in Entries(bucket) : e.key \in Keys /\ e = Node(e.key, e.value)
  /\ used \in Nat /\ nodes \in Nat
  /\ pool \in 0 .. POOL_SIZE /\ pool_size = pool
  /\ ret.value \in {0, -1, -2}

(* Every node is in the chain in which lookup searches its key, however    *)
(* often insert, remove and clear have moved the nodes to another array,   *)
(* and no key has two nodes.                                               *)
Findable ==
  /\ \A i \in DOMAIN bucket : \A e \in bucket[i] : i = Index(e.key, size)
  /\ \A e, f \in Entries(bucket) : e.key = f.key => e = f

(* used, which decides when to grow and to shrink and is what              *)
(* hashtable_size returns, is the number of nodes in the chains.           *)
Counted == used = Cardinality(Entries(bucket))

(* Every allocated node is in a chain or in the pool, and none is left     *)
(* over when the container has been freed.                                 *)
NoNodeLost == nodes = used + pool /\ (phase = "none" => nodes = 0)

(* The parts carry each other: lookup tells insert that a key is new only  *)
(* if nodes are findable, and only then do the counters count.             *)
BucketInv == TypeOK /\ Findable /\ Counted /\ NoNodeLost
=============================================================================
