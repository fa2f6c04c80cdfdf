# A verification project for Carthage

Carthage is a collection of small, self-contained C components (`src/README`):
containers, memory utilities, a worker queue, streams, sockets with a poller,
and a B-tree.  This directory holds TLA+ models of those components, TLC
configurations that check them on small instances, and TLAPS proofs.

Contents: [inventory](#inventory), [modules](#modules), [runs](#runs),
[fairness](#fairness), [proofs](#proofs), [findings](#findings),
[not modelled](#not-modelled), [plan](#plan).

## Inventory

Every component lives in a directory of its own and is used through its header.
Only the work queue has threads; only the poller, the sockets, the streams and
the B-tree talk to the operating system.  Components do not call each other,
with two exceptions: `sockpoll.c` sits on `iopoll.c` and `socket.c`, and the
containers take an optional allocator (`mmallocator_t`) that may be the memory
pool.

| component | state | operations | hard behaviours | what makes it correct |
|---|---|---|---|---|
| work queue (`workqueue/`) | list of units, stack of spare units, mutex, `state`, threads | alloc, additem, wait, release, worker loop, fetch | `state` is read and written without the mutex; release races with additem and fetch; `pthread_create` and `malloc` may fail; polling loops | FIFO, at most once, one executor, nothing leaked, nothing used after free, wait and release return |
| COW block (`mmblock/`) | handles, inner blocks with reference count | alloc, zalloc, copy, free, read, write | copies of copies; failing allocation inside a write; `uint32_t` arithmetic | reference counts exact; sharing invisible |
| hash table, bag, set (`hashtable/`, `bag/`, `set/`) | buckets, chains, node pool, counters | insert, remove, clear, lookup, foreach, free | resize relinks chains in place; a resize in the middle of an insert fails | implements a map (bag, set); no node lost or leaked |
| chunk queue (`chunkq/`) | list of chunks with offset and size, node pool | append, read, peek, indexof, clear, free | data spans chunks; pool counter | implements a byte FIFO; indexof agrees with a reference search |
| memory pool (`mpool/`) | chunk headers inside one block of memory, `free` | init, alloc, free, realloc | split, merge, header arithmetic, the chunk behind the last one | chunks tile the pool, used ones are the blocks held, alloc fails only when it must |
| queue (`queue/`) | nodes of 64 items with offset and used, node pool | push, pop, alloc, circular_alloc, free | circular mode, node at its limit | implements a FIFO (bounded in circular mode) |
| memory stream (`mmstream/`) | a list of extents of blocks | read, write, truncate, clear | block and extent boundaries, partial failure, walking the list from either end | a read returns what was written |
| cache (`cache/`) | hash chains, list by age, retained items | insert, remove, contains, retain, release, clear | two indexes on the same nodes, purge of a full cache | both indexes agree, no node is used after it is freed |
| B-tree (`btree/`) | twigs and leaves in memory, block cache, disk, super block | create, open, insert, remove, lookup, sync, close | splits, separator updates, reference counts, no memory in the middle of a split, crash during a sync | a dictionary in memory; on the disk what was last synced |
| poller (`socket/iopoll.c`, `sockpoll.c`) | registered descriptors, the events of a round, readiness in the kernel | add, remove, loop, accept, close | edge-triggered readiness, close inside a callback, reuse of descriptor numbers | watches what is open, nobody waits for ever, stops when told |
| sockets (`socket/socket.c`) | descriptors, paths | connect, bind, accept, send and receive a descriptor | every system call may fail | a failed call leaves nothing behind |
| stream (`stream/`) | a descriptor and its offset | reads and writes of integers, seek | short reads and writes | integers come back, buffers are not overrun |
| string buffer (`string/`) | a block and a size | set, append, prepend, insert, remove, replace, truncate, trim, squeeze, reserve | block full to the last byte, arguments inside the buffer, no memory | holds the string the calls describe, ended by a zero byte |
| bit array, bloom filter, sort and merge, wide integers, memory and string utilities | little or none | pure functions | word boundaries | agree with a reference definition |

The client contracts used below come from the test programs: one thread allocates
and releases a work queue, the others use it in between; a block handle is set up
while it is not in use and used until it is freed.

`PROJECT.json` lists the hazards of this code by source line and names the
properties that cover each of them.

## Modules

| module | what it is |
|---|---|
| `WorkQueue` | the work queue, one action per step another thread can observe |
| `TaskQueue` | what the work queue promises: a FIFO of tasks, each run at most once |
| `WorkQueueProperties` | invariants, action properties, liveness, the refinement to `TaskQueue`, the inductive invariant |
| `WorkQueueProofs` | the theorems about `WorkQueue` |
| `MCWorkQueue` | symmetry sets for TLC |
| `MMBlock` | the copy-on-write blocks, one action per call and outcome |
| `PrivateBlocks` | what the blocks promise: every handle has bytes of its own |
| `MMBlockProperties`, `MMBlockProofs`, `MCMMBlock` | as above |
| `HashBuckets` | the bucket array and node pool that the hash table, the bag and the set have in common, and their invariants |
| `HashTable`, `HashBag`, `HashSet` | the three containers on top of it |
| `Map`, `Multiset` | what they promise |
| `HashProofs` | the theorems about the three containers |
| `MCHash` | the three containers on one instance, and the refinements to `Map` and `Multiset` |
| `ChunkQ`, `ChunkSearch` | the chunk queue, and the search of `chunkq_indexof` |
| `ByteFifo`, `ChunkQProperties` | what the chunk queue promises; its properties |
| `Queue` | the plain and the circular queue |
| `BoundedFifo`, `QueueProperties`, `QueueProofs` | what the queue promises; its properties; the theorems about it |
| `SequenceFacts` | lemmas about sequences that the proofs need: what `FlattenSeq` computes, and that a loop written as a function on `0 .. n` exists |
| `MPool`, `Cache`, `MMStream`, `Sockets`, `Stream`, `StrBuf` | one component each, with what is claimed of it |
| `MCLibrary` | the sequential components but the queue, with their constants (valued in `Library.cfg`) and the assumptions on them; a behaviour is one of a single component |
| `MemoryProofs` | the theorems about the chunk queue, its search and the memory pool |
| `LibraryProofs` | the theorems about the stream, the cache, the sockets, the memory stream and the string buffer |
| `BTreeNode` | what each function on a twig or a leaf makes of the node |
| `BTreeCache` | the cache of clean blocks |
| `BTreeSearch` | the tree, fetching and releasing nodes, searching, separators |
| `BTreeUpdate` | insert and remove with splits, growth and shrinking |
| `BTree` | the calls, sync, close, open and the crash |
| `BTreeProperties`, `MCBTree` | what is claimed of the tree; the instances |
| `Poller`, `PollerProperties`, `PollerProofs` | the event loop with its three backends; what is claimed of it; the theorems about it |

A definition whose name ends in `Mutant`, or whose comment begins with "Mutant",
is a deliberately wrong variant of the definition that follows it.  It is used by
no specification: it is there to show that a property would notice the mistake.

### WorkQueue and `workqueue/workqueue.c`

Every field of `workqueue_t` and `workunit_t` is a variable of the same name
(`units.first` is `first`, and so on).  A thread is a program counter in `pc`;
its labels are the points between which other threads can see a difference:

| code | actions |
|---|---|
| `workqueue_alloc` | `AllocFails`, `AllocQueue`, `CreateWorker`, `AllocReturns`, `CreateFails`, `RollbackJoinsNoThread`, `RollbackJoins`, `RollbackFrees` |
| `workqueue_additem` | `Additem` (the call), `AddCheck` (unlocked read of `state`), `AddLock`, `AddAlloc` (`__workunit_pool_alloc`), `AddLink`, `AddUnlock` |
| `__workqueue_loop`, `__workqueue_fetch` | `Loop` (unlocked read of `state`), `FetchLock`, `FetchFirst`, `FetchUnlink` (with `__workunit_pool_free`), `FetchUnlock`, `TaskReturns` |
| `workqueue_wait` | `Wait`, `WaitLock`, `WaitRead`, `WaitUnlock` |
| `workqueue_release` | `ReleaseCloses` (unlocked write of `state`), `ReleaseJoins`, `ReleaseJoined`, `Drain`, `DrainPool`, `FreeQueue` |

A running task may itself call `workqueue_additem`.  A task is an opaque
`(func, args)` pair, offered at most once, so that order and multiplicity can be
stated.  `malloc` and `pthread_create` fail nondeterministically.  Joining the
`pthread_t` of a thread that was never created is undefined; it either returns an
error or ends the process (`"crashed"`).

History variables (`accepted`, `linked`, `fetched`, `dropped`, `pooled`,
`result`, `done`, `mark`, `closedAt`) record what happened and guard no step,
with one exception: `result` bounds the calls of additem to one per task.

### MMBlock and `mmblock/mmblock.c`

A handle is a `mmblock_t`, an address an `mmiblock_t`; `d`, `data` and `ref` are
the fields of the code and `Len(data[a])` is `size`.  The library is sequential,
so a call is one step: `Alloc`, `Zalloc`, `AllocFails`, `ZallocFails`, `Free`,
`Copy`, `Read`, and for `mmblock_write` its outcomes `WriteNothing`,
`WriteInPlace`, `WriteDetaches`, `WriteFails`, `WriteRunsWild`.  `uint32_t`
arithmetic is modulo the constant `UINT`.  Memory that `malloc` returns has
arbitrary bytes.  `status` records undefined behaviour: `"null"` (a handle that
`mmblock_zalloc` returned although its allocation failed is used) and `"wild"`
(the detach copies outside the blocks).

### HashBuckets and `hashtable.c`, `bag.c`, `set.c`

The three files repeat the same bucket code with different names; `HashBuckets`
models it once from `hashtable.c`, and a node carries a value, a count or
nothing.  A chain is the set of its nodes, because only equality of keys matters
to a lookup; a call is one step, because the containers are sequential.  The loop
of `__hashtable_resize` is followed node by node (`Rehash`): a round is `Relink`,
which takes the first node of the old chain it is at and links it where its key
belongs, or goes on to the chain before it, starting with the last; `RehashMovesAll` says what the rounds come to.  `insert`
has four outcomes (`Rewrite` for a key that is there, `InsertLinks`,
`InsertNoArray` when the larger array cannot be allocated, `InsertNoNode` when
the array has grown but the node cannot be allocated), `remove` and `clear` end
with `MayResize`, whose failure nobody looks at.  The bucket counts are the set
`Sizes`, and `RoundsUpTo` is `__nbucket_roundup` on it.

`HashTable` adds who owns a value: `owned` holds the pairs handed over with
`hashtable_insert` and not yet passed to `value_free_func`.  Clients do not hand
over a value the table owns, unless it is the one stored under the same key, for
which the code has a test (`hashtable.c:227`).  The ownership of keys is not
modelled: on a hit the table keeps its old key and the new one stays with the
caller.

### ChunkQ and `chunkq/chunkq.c`

`chunks` is the list from head to tail; `data` of a node holds the bytes written
since it was taken and `offset` counts the ones already read, so that
`node->size` is the difference.  The loops over chunks are sequence operators:
`Appended` for `chunkq_append`, `Drained` and `Remaining` for `chunkq_read`,
`AtOffset` for `__chunkn_at_offset`.  `append` has three outcomes: all bytes, some
of them (`AppendSome`, memory runs out behind some chunks), or -1.  `psize` is a
counter modulo `UINT`, which wraps in the run: the code decrements it for every
reused node and never increments it.

`ChunkSearch` follows `__chunkn_search_step` round by round: `OuterRound` and
`InnerRound` are its two nested loops, `Searched` runs them over one chunk and
`IndexOf` over the chunks.  The search is not a correct substring search:
after a failed partial match it neither goes back ("aab" is not found in "aaab")
nor subtracts what it already counted, and a partial match at the end of a chunk
goes on in the next one even if that chunk does not hold the next byte.
`IndexOfFirstTry` states what is left: a needle that occurs where its first byte
first occurs is found there, in however many chunks it lies.

### Queue and `queue/queue.c`

`q` is the `queue_t` (list, pool, `nitems`) with the number of allocated nodes.
A push first makes room in a full circular queue (`Pushed`, `Dropped`), then
finds or allocates a node, then stores; its outcomes are `PushStores`,
`PushNoHead` (-1), `PushNoTail` (-2) and `PushUndefined`.  The last stands for the
two pushes that write outside the queue; the model stops there (`phase`
"overrun", "dangling").  The branch "Lazy move back to offet 0"
(`queue.c:169-172`) needs `used == 64` with `offset > 0`, which `NodeShape` rules
out, so it has no action.

### MPool and `mpool/mpool.c`

`chunks` is what walking the headers from `mpool->mem` gives, each with the address
of its block (`at`), a number.  `alloc` merges free neighbours while it searches
(`Passed`, a round of its loops, and `Found`), also when it finds nothing in the
end.  Three things leave memory in a state in which the walk
is no longer defined, and the model stops there (`phase`): "wrapped" (the rest of
a split is smaller than a header, `mpool.c:108`), "beyond" (the memory behind the
last chunk is taken for a free chunk, `mpool.c:138`) and "overrun" (`mpool_realloc`
moves a block with a `memcpy` whose length still has the used bit, line 195, so
every move is undefined).

### Cache and `cache/cache.c`

A node is in a hash chain and in the list at the same time; a freed node keeps its
number, so that an access to it can be told.  The first undefined access sets
`harm` and ends the behaviour: "twice" is `cache_remove`, which frees a node that
`__cache_ht_remove` has already freed (line 262); "stale" comes after a purge,
which gives `__cache_ht_remove` the address of a local (line 168) and so leaves
the freed node in its chain; "junk" is a table that was not cleared; "null" is a
purge that passes NULL to the node's free function, or that meets a list which
retaining has emptied.  `HarmNeedsFree` says which calls get there as long as no
node was freed: a removal of a key that is there and not retained always does, an
insert into a full cache may, and no other call ever does.  A cache in which a node
was freed is one of which nothing is claimed.

### MMStream and `mmstream/mmstream.c`

`mem` is the memory of the extents in list order; a byte of a block that is not
allocated is `HOLE`.  `ExtentAt` counts as `__mmextent_at` does: from the tail it
goes one extent too far (line 209), and an index one behind the last extent is
answered with an extent and not with NULL.  `misled` records that a write went
there; `ReadsBack` is claimed until then.  A truncation before the last extent
uses an extent it has freed (`TruncateUndefined`).

### Sockets and `socket/socket.c`, Stream and `stream/stream.c`

A socket call is a sequence of system calls, one step each, every one of which may
fail; it tries the addresses of `getaddrinfo` in turn.  `bind` always gets the
first address (line 89) while the one reported is the current, hence the condition
in `ReportsAddress`.  A stream transfer is a loop of `read` or `write` calls; after
a short one it asks for all `n` bytes again (`stream.c:264`), which overruns the
buffer if the kernel has them.  `RegularFileIsSafe` says that it cannot happen with
a regular file; on a pipe it does (`Overrun`).

### StrBuf and `string/strbuf.c`

`blob` is the block, a cell nobody wrote is "junk", and `text` the string a client
asks for.  The block is sized for the characters alone, so that the zero byte of a
string that fills it lies behind it: harm "past".  `strbuf_mmsqueeze` of an empty
string calls `realloc(blob, 0)` (line 84), which may give an empty block but may
also free the block and return NULL; the function then returns -1 and `blob` goes on
pointing to the freed block: harm "dangling" (`Squeeze`).  `strbuf_replace` removes
as many characters as it inserts, not as many as it was told to (line 263), and
loses them when there is no memory for the insertion: where that gives another
string than the one asked for, the harm is "other" (`Replace`).  `HoldsText` holds
until a harm, and `HarmNeedsFullBlock` says which strings get there: a zero byte
behind the block takes a string that fills its block, or a block that was squeezed
(`squeezed`), and a dangling one an empty string.

### The B-tree and `btree/btree.c`

The tree is one record `bt`: nodes in memory by address, the super block, the
cache and the disk.  An operator takes the tree and returns it, in the order of the
statements of the C function it is named for (`LeafInsert`, `TwigsRemoveUpdate`,
`LeafSplitInsert`, `SyncNode`, ...).  A long function is a chain of operators, each
of which takes the answer of the call before it (`TwigSplitInsert`,
`TwigSplitWith`, `TwigHalves`, ...) and returns early where the function does; a
chain of LETs would say the same, but TLC expands every use of a LET in its
statistics, which made them larger than the state space.  A leaf has its item table, the offsets and
the bytes of the bodies; the free space is counted in bytes with the header sizes
of the code, so that a split happens where it does in the code.  A call is one step
(the library is sequential), except that a process may die after any disk write of
a sync.  A checksum is the block itself.

The code has many ways to leave a tree that no longer means anything; its comment
at line 2183 says "ALL THE TWIG UPDATES ARE WRONG".  They are modelled as far as
the call in which they happen: it puts a name into `harm` (the list is at the head
of `BTreeSearch`), and a harmed tree takes no further call.  The properties say
what holds until then; `WriteOnceHarmless` names the use that never gets there:
keys inserted in ascending order, synced once and then only read, with a cache.
The harms a client meets first:

- "gap": a split with the new key behind the last one of the left half (the
  finding `btree_split`);
- "replace": a value replaced by one of another size;
- "junk": `place.size` is compared although the search left it uninitialised
  (line 2065);
- "rootless": an insert after a sync, which has set `btree->root` to NULL
  (line 2036);
- "rollback", "miscount", "unread": no memory in the middle of an update, or a twig
  that could not be read and is taken for a missing level (line 1551);
- "detached": the root is replaced by a clean child whose block number is not in
  the super block (line 2167).

What the disk has is followed key by key.  `content` is what was inserted, `saved`
what the disk alone would give, `acked` the content as of the last sync that did not
fail.  A sync writes a node that was read from the disk over its old block (lines
1796 and 1288, and `__btdisk_write` of `main.c`).  The pointer to it in the old tree
has the checksum of the old block, so until the super block is written the keys
below it cannot be read: `Kept` makes them `Lost`.  A key whose blocks were left
alone (`Trail`) keeps its value, and `Durable` says that exactly this is what the
disk has, after a crash in any write too.  The header of `btree.c` (lines 2-4)
speaks of copy-on-write; a tree that is synced for the first time has it, a tree that
was read from the disk does not.

A sync may also answer 1, nothing to write, with a changed leaf in memory, and no
harm is needed for it: a value replaced by one of its own size sets the leaf dirty
but tells no twig (line 2067), and in a tree of three or more levels a clean twig
that was told (its update flag) forgets it when its block leaves the cache and is
read again (line 1290).  `SyncedIsSaved` says that these two are the only ways: in all
others a sync that does not fail leaves on the disk what was inserted before it.
A close after such a sync aborts on the dirty node.

### Poller and `socket/iopoll.c`, `socket/sockpoll.c`

The peers and the kernel are outside: connecting, sending and hanging up happen at
any time.  `SelectReturns`, `EpollReturns` and `KqueueReturns` take the events of a
round into `todo`; `Accept`, `ReadSome`, `ReadFails`, `WriteOnly` handle one event,
and each of them ends with the call of `write_f` if the event asks for it
(`Writes`), also when `read_f` has just closed the descriptor.  For epoll `edges`
holds what is reported once.  The handlers are those of `socket/tcp-server.c`.

`iopoll_add` fails when `kevent` or `epoll_ctl` does (`iopoll.c:177` and `282`), and
`sockpoll.c` looks at its result neither when it accepts (line 44) nor when it
registers the server: the descriptor stays open and is watched by nobody
(`Refused`, `unwatched`); if it is the server's, the loop serves no one.  With select
nothing is refused, but `FD_SET` is called for any descriptor (`iopoll.c:74`): one of
`FD_SETSIZE` or more is written behind the set (`Overruns`), and the behaviour ends
in phase "overrun".

What the model shows besides its properties: kqueue combines its filters with `|`,
so that an event has the bits of both and `write_f` is called even if it is NULL
(phase "crashed"); `write_f` is called for the descriptor that `read_f` has closed
for the same event, which `NoStaleEvents` bounds to that event; with epoll a
connection that comes while another waits is left without a report, and a hang-up
whose edge was used up by the bytes before it is never noticed.

## Runs

| run | instance | shows |
|---|---|---|
| `workqueue` | 2 workers, 2 clients, 2 tasks, 2 unit addresses, pool size 1 | the list pointers describe exactly the pending tasks in order (`ListShape`); a unit is in one place (`UnitOwnership`); tasks are fetched in order, once, and additem's result is truthful (`FifoExactlyOnce`); after release nothing is leaked and no task is left half done (`CleanRelease`); after release closed the queue a worker starts at most one more task, and only if its check of the state came first (`LateStarts`); one executor per fetched task (`OneExecutor`); nobody is inside the queue while it is not allocated (`NoUseAfterFree`); wait returns only when everything accepted before the call has been fetched (`WaitDrains`) |
| `workqueue_live` | 2 workers, the owner, 2 tasks, with fairness | accepted tasks run unless the queue is released (`AcceptedRuns`); wait and release return (`WaitReturns`, `ReleaseReturns`); the threads implement `TaskQueue` |
| `workqueue_alloc` (violation) | 2 workers | the rollback of `workqueue_alloc` joins a thread that does not exist |
| `mmblock` | 3 handles, 3 addresses, blocks of up to 2 bytes, 2 byte values, `uint32_t` scaled to 2^3 | reference counts are exact (`RefCounts`) and the blocks implement `PrivateBlocks` |
| `mmblock_detach` (violation) | same | a write past the end of a shared block copies outside the blocks |
| `hash` | 6 keys with collisions, 2 values per key or up to 2 occurrences, arrays of 2, 4 and 8 chains, pool of 2; each behaviour is one of a table, a bag or a set | every node is found under its key, `used` counts the nodes and none is lost between chains, pool and free (`BucketInv`); every value has the right owner (`ValuesOwned`); the table implements `Map`, the bag `Multiset`, the set `Map` without values (`ImplementsContainer`) |
| `queue` | nodes of 3 slots, up to 7 items, capacities 0 (none), 1, 2 and 5, pool of 1 | the list has the shape push and pop rely on and no node is lost (`NodesKept`); a push is undefined only after a pop from a lone node, or with capacity 1 (`UndefinedNeedsPop`); up to that the queue implements `BoundedFifo` (`ImplementsBoundedFifo`) |
| `queue_overrun` (violation) | same, capacity 0 | a push stores behind the last slot of a node |
| `library` | `MCLibrary` with the constants of `Library.cfg`, seven components | see below |
| `btree` | `MCBTree`: blocks of 64 bytes, eight scenarios, values of two sizes and two values of the same size | in memory nodes, separators and counters are right (`TreeWellFormed`), lookups find what was inserted (`Dictionary`), the disk alone has of every key exactly what the last sync wrote, or has lost it where a torn sync has overwritten a block that leads to it, and a sync that answers leaves nothing unwritten but in the two ways named (`Durable`), the cache never has an old block under a number (`CacheCoherent`); all of it until a harm, and `WriteOnceHarmless` says which use meets none |
| `btree_split` (violation) | 3 keys of 15 bytes | a key that was inserted is not found |
| `poller` | 2 peers, one or two events per epoll or kqueue call (`EventLimits`), sets of select with room for one or both connections (`SetSizes`), 2 bytes of input, 1 failure of accept or of `iopoll_add` (`MaxFaults`), all backends with and without `write_f` and timeout | the descriptors watched are the open ones but for those that were refused (`WatchesWhatIsOpen`); no event of a round is left for a descriptor that the round has closed, be its number in use again or not (`NoStaleEvents`); with select every connection is accepted and every hang-up closed (`SelectServes`); with epoll the oldest connection is, as long as its report is not used up (`OldestAccepted`); clearing `*is_looping` ends the loop (`StopEndsLoop`) |

The `library` run:

| component | instance | properties |
|---|---|---|
| chunk queue | chunks of 2 bytes, up to 5 bytes queued, calls of up to 3, pool limit 1, `uint32_t` scaled to 2^3 | while the queue is open only the first chunk is read from, only the last has room, no node is lost and peek sees what reads would return (`ChunksKept`); indexof finds what begins where its first byte first occurs (`IndexOfFirstTry`); the chunks implement `ByteFifo` (`ImplementsByteFifo`) |
| memory pool | 15 bytes, headers of 2, requests of 1, 3, 4 and 9 | chunks tile the pool and used ones are the blocks held, alloc fails only when no run of free chunks is enough, `free` counts (`PoolKept`) |
| cache | 3 keys of which 2 collide, capacities 2 and 4, LRU and MRU, up to 3 nodes, 1 retain per node | chains and list agree until a node is freed (`IndexesAgree`); which calls are the first to be undefined (`HarmNeedsFree`) |
| memory stream | extents of 2 blocks of 2 bytes, offsets 0, 9 and 17, up to 6 extents | `ReadsBack` |
| sockets | 2 addresses, 1 path, 2 descriptors, 1 message on its way | `NoLeak`, with what is reported |
| stream | bytes of two bits, integers of 2 and 8 bytes, signed or not, 2 writes | `IntsComeBack`, and no overrun of a regular file |
| string buffer | 2 characters, one of them blank, blocks of 3, strings of up to 5 | `HoldsText`, with what is behind the string and which strings lead to an access outside the block |

Bounds.  Two workers and one or two clients give every pair of code paths that
can meet: worker/worker, worker/client, client/client and owner/everybody.  Two
tasks make a list with a first and a last unit, and pool size 1 puts the pool at
its limit after one fetch; the safety properties are proved for any number of
threads, tasks and units.  Three handles allow a copy of
a copy with one handle left to write through; three addresses let every handle be
detached.  Blocks of two bytes have a byte before and a byte after a one-byte
write.  `UINT = 8` exceeds the sizes, as 2^32 does, and lets `offset + n` wrap.
Six keys in arrays from 2 chains on grow twice and shrink twice with chains of
several nodes; the code starts at 8 chains, and the proofs hold for any sizes.
Five bytes in chunks of two lie in up to four chunks,
with the first read in part and the last partly filled; the proofs hold for chunks
and nodes of any size.  Seven items in nodes of
three need three nodes, so that there is a middle one; the capacities lie below
and above the size of a node.  In the pool a rest of one byte is smaller than a
header, and nine bytes need a merge.  Offset 17 lies in the fifth extent, so that
six extents make `__mmextent_at` walk from both ends.  A block of 64 bytes has
room for two children, two values of 15 bytes or three of 7: three keys split a
leaf and five make a tree of three levels.  The scenarios of `MCBTree` divide the
work: in memory two sizes with all allocation failures, and five keys without; on
the disk caches of 2, 1 and 0 blocks with up to three syncs and values replaced by
others of the same size, so that an old value can be told from a new one; two edits
of a tree of three levels; and trees of three levels that are only read, with caches
of 3 blocks and of 1.  Three nodes exceed a cache of capacity two, so that it is
purged, and leave one of four with room, where every harm must come from a removal.
Two peers let one wait while the other is accepted, and their
descriptor numbers are reused; one event per call leaves others for the next, and
two let one event of a round close what the other is about.
Tasks, units, handles and addresses are interchangeable and are permuted by
`SYMMETRY` in the safety runs only.

## Fairness

`FairSpec` assumes that a thread inside a call keeps being scheduled (weak
fairness of its steps), and that a function run by a worker returns.  Nobody has
to call additem, wait or release.  Acquiring the mutex is strongly fair: a
pthread mutex alone promises nothing of the kind, but the loops that take it
repeatedly (`__workqueue_loop` at line 162 and `workqueue_wait` at line 260)
sleep with the mutex free in between, so a blocked thread meets a free mutex
again and again and the others do not overtake it for ever.

In `Poller` the thread that calls `iopoll_loop` keeps running: the wait returns
when it has something to report, an event that was reported is handled, and a
round that is finished ends (weak fairness of `Wait`, `Handle` and `RoundEnds`).
Peers, timeouts and signals owe nothing.

## Proofs

`WorkQueueProofs` proves, for any number of workers, clients, units and tasks and
any pool size:

| theorem | property |
|---|---|
| `Invariance` | the inductive invariant `IInv` |
| `TypeCorrect` | `TypeOK` |
| `ListCorrect` | `ListShape` |
| `OwnershipCorrect` | `UnitOwnership` |
| `FifoCorrect` | `FifoExactlyOnce` |
| `ExecutorCorrect` | `OneExecutor` |
| `LifetimeCorrect` | `NoUseAfterFree` |
| `ReleaseCorrect` | `CleanRelease` |
| `WaitCorrect` | `WaitDrains` |
| `LateStartsCorrect` | `LateStarts` |
| `ImplementsAbstractQueue` | `ImplementsTaskQueue`, the refinement to `TaskQueue` |

The only assumption is `WorkQueueAssumption`: at least one worker, a pool size of
at least one, the owner is a client, thread names are distinct and `NULL` is none
of the values.  `IInv` is a conjunction of named parts, each needed by the next:

- `MutualExclusion`: a thread at a locked label holds the mutex, hence only one
  thread is there.  Every other part relies on it for the steps under the lock.
- `ListShape` and `PoolShape`: the list from `first` is the suffix of `linked`
  after the fetched and dropped units, `last` is its end, and the pool is the
  stack `pooled`.  Pointers alone cannot be proved about; the history gives every
  pointer a position in a sequence.
- `UnitOwnership`: list, pool and the unit a thread holds between allocation and
  link are disjoint and make up the heap.  Without it a write through one
  pointer could change the other structure.
- `FifoExactlyOnce`, `OfferInv`, `HandInv`: tasks in `accepted` are distinct,
  `fetched` is a prefix, a task is passed to additem by at most one thread, and
  `result` says where it is.
- `BusyInv`, `OneExecutor`: which worker executes which fetched task.
- `PhaseInv`: which workers exist, run or have ended in each phase of alloc,
  rollback and release.  It carries the shutdown argument: once `join` has seen
  every worker exit, nobody but the owner can move.

`WaitCorrect` uses a second inductive invariant, `WaitInv`, relative to `IInv`:
between the reading of an empty list and the return of wait every task marked at
the call has been fetched, and fetched and dropped counts only grow.

`LateStarts` is inductive next to `IInv`: the tasks started after the close,
together with the workers that read `state` before it and have not fetched yet
(`Early`), are at most as many as the workers.  A late start moves a worker out
of `Early`, so the sum does not grow; the lemmas count that set.

`ImplementsAbstractQueue` is the step simulation under `IInv`: linking a unit is
`Accept`, taking one out of the list `Start`, the return of the task `Finish`, the
store to `state` in release `Close`, the last join `Stop`, dropping a unit
`Discard`; every other step of any thread leaves the mapped variables alone.

`MMBlockProofs` proves `RefCountsCorrect` for any finite set of
handles, any addresses, bytes, sizes and modulus (`MMBlockAssumption`).  The
invariant is `TypeOK /\ RefCounts`; the work is in the lemmas that count handles:
a step that adds a handle to, or removes it from, the users of a block changes
the cardinality by exactly the one that the code adds to or subtracts from
`ref`.  On top of it `SharingIsInvisible` proves the refinement to
`PrivateBlocks`: a write goes to a block whose count is one, hence to a block that
no other handle reads (`View`).  It needs `NullAssumption`, that `NULL` is no
address.  `HandlesKeepSize` is an action property that follows from both: a handle
that stays in use points to an allocated block after every step, and the block has
the size it had, though a write may have moved the handle to another one.

`HashProofs` proves the inductive invariant `BucketInv` for the three containers
(`HashTableCorrect`, `BagCorrect`, `SetCorrect`), for any finite set of keys, any
hash function, any set of positive array sizes, any thresholds and any pool limit
(`HashAssumption`).  `BucketInv` is `TypeOK /\ Findable /\ Counted /\ NoNodeLost`:
that a lookup misses means that no node has the key only when nodes are findable,
and only then does linking a new node change the number of entries by one; that
in turn keeps `used` and the nodes in step.  The lemmas say what linking,
unlinking and rehashing do to the set of entries, its cardinality and the place
of every node.  That the loop of the resize rehashes is `RehashMovesAll`: in every
round a node goes from the old array to its chain in the new one or an empty chain is
passed, so that what is left to do (`Togo`) gets less by one, and when nothing is left
every node has arrived (`Moved`).  `TableFindable` and `SetLosesNoNode` state the parts;
`OwnershipOfValues` proves `OwnsWhatItStores`, which `ValuesOwned` checks for the
table, on top of `BucketInv`.

The refinements are proved under `ContainerInv`, which adds to `BucketInv` that a
table owns what it stores and that a node of a bag counts at least one occurrence
(`BagCounts`): `TableImplementsMap`, `BagImplementsMultiset`, `SetImplementsKeySet`
and, together, `ContainersImplement`, the property of the `hash` run.
`TableOwnsItsValues` is `ValuesOwned` of the same run.

`PollerProofs` proves `WatchingCorrect` (`WatchesWhatIsOpen`) and `NoStaleCorrect`
(`NoStaleEvents`) for the three backends, any finite set of peers
(`PollerAssumption`), any event limits and sizes of the set of select, and any number
of failures.  The inductive invariant `PollerInv` adds which peers hold a
descriptor (`OpenPeers`), that no two hold the same (`FdsDistinct`), that the
peers in the backlog have none (`BacklogWaits`) and that a round has one event for
each of some descriptors that are watched (`RoundIsFresh`): an event that closes its
descriptor is the only one of the round about it, and a connection accepted later in
the round may take the number but has no event in it.  That a new descriptor is
the least free one makes `fdmax` grow by at most one; the lemma `NewFdFacts` gets
this from the pigeonhole principle for finite sets.

`QueueProofs` proves, for nodes and pools of every size, any capacity and any
elements, `NodesAreKept` (`NodesKept`), `UndefinedPushes` (`UndefinedNeedsPop`) and
`QueueImplementsFifo` (`ImplementsBoundedFifo`).  The assumption `QueueAssumption`
says that a node has at least one slot and that sizes and capacities are numbers.
The invariant `QueueInv` is what is claimed, with its types.  The argument is
about `ContentOf`, the items of a list of nodes in a row: a pop takes its first
item, whether the node goes or stays (`PopFacts`), and a store adds one behind its
last (`StoreFacts`).  `ContentOf` is a `FlattenSeq`, a recursive function;
`SequenceFacts` shows that it exists and is unique, by a least counterexample, and
derives from that what appending a sequence, taking off the first one and
replacing sequences by others of the same lengths does to it.

`MemoryProofs` proves `ChunksAreKept` (`ChunksKept`) and `ChunksImplementFifo`
(`ImplementsByteFifo`) for any bytes, chunks of every size of at least one byte, any
pool limit and any width of the pool's counter (`ChunkQAssumption`).  The invariant
`ChunkQInv` is the shape and the count of the nodes with their types, and adds that
a closed queue has no chunks and that a chunk without unread bytes has nothing
written in it either (`NothingSpent`): an append that goes on in such a chunk would
otherwise break the shape.  That peek agrees follows from it.  The argument is about
`ContentOf`, the unread bytes of the chunks in a row.  An append fills the last
chunk and cuts the rest into pieces, whose concatenation is the rest
(`FlattenPieces`); an append that runs out of memory stores the bytes that the
chunks it got can take (`PartialFacts`).  A read drains a prefix of the chunks
(`DrainedFacts`) and what it leaves is the content behind the bytes it took
(`ReadFacts`); a peek splits the content at the same place (`PeekFacts`).

The same module proves `SearchFindsFirstTry` (`IndexOfFirstTry`) for needles over
any bytes and chunks of any size, next to `ChunkQInv`.  `FirstTry` says where the
first byte of the needle first occurs, in terms of the whole content.  After every
chunk the search has found the needle there, is still looking for its first byte,
or has seen a part of it that reaches to the end of the chunk (`Between`: `Matched`,
`Seeking`, `Matching`); within a chunk the same holds of the bytes passed so far,
and what is left of the chunk is a piece of the content (`Inside`, `Piece`).  The
two facts about loops are used throughout: a loop written as a function on `0 .. n`
exists (`StepsExist`), and what holds at its start and is kept by every round holds
after each (`CountUp`).  A claim without the restriction to the first try would be
false: there the search does not go back.

`PoolIsKept` (`PoolKept`) is proved for a pool of any size with headers of any size,
and any sizes asked for (`PoolAssumption`: sizes are positive and the pool has room
for a header and is no larger than the `uint32_t` it is counted in, `POOL_UINT`).
`PoolInv` says that
the headers follow each other without a gap up to the end (`Tiles`), that the used
ones are the blocks held (`Blocks`), and that `mpool->free` is the sum of the free
sizes until a block has grown over its neighbour.  The part of the claim about
`alloc` is about its loops: `Looks` is their invariant.  A merge keeps the tiling and
adds a header to `free`; no run of free chunks that is large enough gets lost by it
(`Large`) or has been passed by (`Early`); and in every round either a chunk is
passed or one vanishes, so that after as many rounds as there were chunks the loops
have stopped.

`LibraryProofs` proves the properties of the other components of the `library` run.
Its theorems, like `PoolIsKept`, are about `LibrarySpec`, the specification that the
run checks; `LibraryInv` and `MemoryInv` say that the invariant of a component holds
in the behaviours of that component.

- `StreamIntsComeBack` (`IntsComeBack`), for bytes of any base of at least 2 and
  integers of any widths (`StreamAssumption`): `StreamInv` says that where the log has
  an integer the data has its bytes (`Logged`), that a transfer under way has moved a
  prefix of them (`Transfer`), and that in a regular file a short call is the last
  one (`RegularFileIsSafe`).  The arithmetic is that the digits of a number, weighted
  with the powers of the base, sum up to it, also for negative ones modulo the
  range.
- `CacheIndexesAgree` (`IndexesAgree`) and `CacheHarmNeedsFree` (`HarmNeedsFree`), for
  any keys, any hash function, any capacities and caches of any number of nodes; the
  second says of the first undefined access which call it is, until a node is freed.
  `CacheInv` has two cases.  Until a node is freed (`Indexed`), every chain goes
  through the nodes with its hash, the newest first (`Chained`), no two nodes have one
  key, and as long as nothing was retained the list goes through all nodes by age
  (`ByAge`).  Afterwards the cache is `Spoilt`, of which nothing more is said: its
  next calls may use the node.  `CacheAssumption` keeps the retain
  counters below the value the code marks its own nodes with, as `MaxRetain` does in
  the model.
- `NothingLeaks` (`NoLeak`), for any addresses, paths and descriptors: `SocketInv` says
  which descriptor and which path the call under way owns at each of its stages
  (`CallOwns`); what is neither the call's nor the client's does not exist
  (`NothingLeft`).  The address reported is true for connections, and for a bound
  socket if the first address worked; for a later one the code reports another than
  it has bound (`socket.c:89`), and nothing is claimed.
- `MMStreamReadsBack` (`ReadsBack`), for blocks and extents of any size
  (`FlowAssumption`): the memory is that of whole extents (`Covers`), and until a write
  was misled it has what the clients wrote and otherwise zeros or holes (`Mirrors`).
  Walking the list from either end gives the extent that the offset lies in, but for
  the extent one too far that the code takes (`ExtentAt`): `MisledOnlyFarOut` is that
  this happens only for the index behind the last of two or more extents and in the
  second half of six or more.
- `StringBufferHoldsText` (`HoldsText`), for any characters and any alignment
  (`StrBufAssumption`): `StrBufInv` says that the block begins with the string that the
  calls ask for, that `size` is its length, that the cell behind it is a zero byte or
  was never written, and that a block is a multiple of the alignment unless it was
  squeezed.

Only model-checked: the liveness properties (`AcceptedRuns`, `WaitReturns`,
`ReleaseReturns` of the work queue, `SelectServes`, `OldestAccepted`, `StopEndsLoop`
of the poller), which are beyond the prover, and the five properties of the B-tree
(`TreeWellFormed`, `Durable`, `Dictionary`, `CacheCoherent`, `WriteOnceHarmless`): its
operators descend the tree recursively, which keeps their modules out of the
prover's reach.  Every other invariant and action property of a passing run, and
every refinement, is a theorem.

## Findings

- `workqueue_alloc`: after a failed `pthread_create` the rollback starts to join
  at the index whose thread was not created.
- `mmblock_detach`: `mmblock_write` clips the number of bytes it writes but passes
  the unclipped one to `__mmiblock_detach`, whose tail length then wraps.
- `queue_overrun`: `queue_push` tests `used == 64` but stores at `offset + used`; 64
  pushes, one pop and one push write `items[64]`, over `offset` and `used`.  A
  circular queue with a capacity of 2 to 64 gets there by pushes alone.
- `btree_split`: when a leaf is split and the new key becomes the last one of the
  left half, `__btree_twigs_insert_update` is called with index 0 (`btree.c:1686`)
  and leaves the separator below the key: three inserts, and one of the keys is not
  found, which `__test_lookup` of `btree/main.c` reports as "Lookup Failed".
- `__workunit_pool_free` compares `units.free` with `WORKUNIT_POOL_SIZE`, but nothing
  ever changes `units.free`: the pool keeps every unit until release, though the
  comment at `workqueue.c:110` says that a "full" pool frees.  `PoolFree` models it;
  it is a hazard without a property.
- With capacity 1 the pop inside `queue_push` gives back the only node, and the push
  stores through `queue->tail`, which still points to it (`Dangles`).  It is a
  hazard; `UndefinedNeedsPop` shows that no other capacity gets there.
- `queue_free` passes `items[0 .. used - 1]` of every node to `item_free`, also when
  the items begin at `offset`.  No document says which items it frees, so it is a
  hazard and not a run; `FreedOf` models it and `BoundedFifo` leaves it open.
- `chunkq_free` hands the nodes of the pool to `__chunkn_free`, which puts them
  back into the pool unless `psize` has wrapped, and then forgets the pool.  No
  document says that free releases them; `Free` models it, and `ChunksKept` is
  claimed for an open queue only.
- A crash in the middle of a sync may lose keys that an earlier sync had written,
  because nodes that were read from the disk are overwritten in place (`Kept`), and a
  sync may answer that there is nothing to write while there is (`SyncedIsSaved`).  The
  comment at `btree.c:2-4` ("copy-on-write", "when a leaf change parent nodes must be
  rewritten") says otherwise.  `Durable` states what does hold, exactly.
- `mmblock_zalloc` returns the block also when the allocation failed.  No
  document says otherwise, so it is a hazard and not a run: the model has it as
  `ZallocFails` and `UseOfNull`.

- The undefined calls of the memory pool, the cache, the memory stream, the streams,
  the string buffer, the poller and the B-tree are described with their modules
  above.  No document promises anything about them, so they are hazards and not
  runs.

## Not modelled

- Bit array, bloom filter, memory and string utilities: single functions on words
  or caller-supplied arrays, without state a sequence of calls could spoil.
- Sort and merge, wide integers: pure algorithms, left for a later step.
- Parts of modelled components: the shortened separators of `btree_create_prefix`
  and the printing of nodes; `iopoll_free` and descriptors that a client registers
  by itself; the text form of addresses; flush and close of a stream.
- The test and example programs are read for the client contracts.
- User-supplied allocators are the default one.

## Plan

Done: the work queue, the copy-on-write block, the hash containers, the two queues,
the memory pool, the cache, the memory stream, the sockets, the streams, the string
buffer, the B-tree and the poller; proofs for all of them but the B-tree.  Then, in
this order:

1. Sort, merge and wide integers as operators against reference definitions.
2. Shortened separators in the B-tree.
3. The B-tree's recursion as functions on its levels, and with it proofs about it.
