------------------------------ MODULE MCLibrary -------------------------------
(***************************************************************************)
(* The sequential parts of the library, but the queue, on small instances. *)
(* They share no state, so a behaviour is one of a single part: the chunk  *)
(* queue has the variables of its module, and v1 to v7 are those of any    *)
(* other part, in the order of its module.                                 *)
(***************************************************************************)
EXTENDS ChunkSearch

CONSTANTS
  HEADER, POOL, POOL_UINT, Sizes,                         \* mpool
  Keys, Hash, Capacities, Dirty, MaxNodes, MaxRetain, SIZE,    \* cache
  BLK, EXT, Offsets, Lengths, MaxExtents,                 \* mmstream
  Addresses, Paths, Fds, MaxWire,                         \* sockets
  BASE, Widths, MaxWrites,                                \* stream
  Chars, BLANK, ALIGN                                     \* strbuf

(* What the proofs need of them *)
ASSUME StrBufAssumption == BLANK \in Chars /\ ALIGN \in Nat \ {0} /\ MaxSize \in Nat
ASSUME StreamAssumption == BASE \in Nat /\ BASE >= 2 /\ Widths # {} /\ Widths \subseteq Nat \ {0}
ASSUME CacheAssumption  == SIZE \in Nat /\ MaxRetain \in Nat /\ MaxRetain < SIZE - 1
ASSUME PoolAssumption ==
  /\ HEADER \in Nat \ {0} /\ POOL \in Nat /\ POOL_UINT \in Nat /\ Sizes \subseteq Nat \ {0}
  /\ HEADER <= POOL /\ POOL <= POOL_UINT
ASSUME FlowAssumption ==
  /\ BLK \in Nat \ {0} /\ EXT \in Nat \ {0}
  /\ Offsets \subseteq Nat /\ Lengths \subseteq Nat /\ -1 \notin Bytes

VARIABLES part, v1, v2, v3, v4, v5, v6, v7

others == <<v1, v2, v3, v4, v5, v6, v7>>

(* Keys 1 and 3 share a chain. *)
KeyHash == <<1, 0, 1>>

Pool == INSTANCE MPool WITH
  UINT <- POOL_UINT, phase <- v1, chunks <- v2, free <- v3, held <- v4, grown <- v5

LRU == INSTANCE Cache WITH c <- v1

Flow == INSTANCE MMStream WITH mem <- v1, harm <- v2, written <- v3, misled <- v4

Socket == INSTANCE Sockets WITH
  open <- v1, held <- v2, files <- v3, call <- v4, wire <- v5, given <- v6

IO == INSTANCE Stream WITH
  regular <- v1, data <- v2, pos <- v3, log <- v4, io <- v5, harm <- v6, writes <- v7

Str == INSTANCE StrBuf WITH
  blob <- v1, size <- v2, harm <- v3, text <- v4, squeezed <- v5

LibraryInit ==
  /\ Init
  /\ \/ part = "stream" /\ IO!Init
     \/ /\ v7 = 0
        /\ \/ part = "socket" /\ Socket!Init
           \/ /\ v6 = 0
              /\ \/ part = "mpool" /\ Pool!Init
                 \/ part = "strbuf" /\ Str!Init
                 \/ /\ v5 = 0
                    /\ \/ part = "mmstream" /\ Flow!Init
                       \/ /\ v2 = 0 /\ v3 = 0 /\ v4 = 0
                          /\ \/ part = "cache" /\ LRU!Init
                             \/ part = "chunkq" /\ v1 = 0

LibraryNext ==
  /\ \/ part = "chunkq" /\ Next /\ UNCHANGED others
     \/ /\ UNCHANGED vars
        /\ \/ part = "stream" /\ IO!Next
           \/ part = "socket" /\ Socket!Next /\ UNCHANGED v7
           \/ part = "mpool" /\ Pool!Next /\ UNCHANGED <<v6, v7>>
           \/ part = "mmstream" /\ Flow!Next /\ UNCHANGED <<v5, v6, v7>>
           \/ part = "strbuf" /\ Str!Next /\ UNCHANGED <<v6, v7>>
           \/ part = "cache" /\ LRU!Next /\ UNCHANGED <<v2, v3, v4, v5, v6, v7>>
  /\ UNCHANGED part

LibrarySpec == LibraryInit /\ [][LibraryNext]_<<vars, part, others>>

-----------------------------------------------------------------------------
(* mpool.c: the used chunks are the blocks clients hold, without gap or    *)
(* overlap; mpool_alloc fails only if no run of free chunks is enough; and *)
(* mpool->free counts the free bytes until a block grows over the whole of *)
(* its neighbour.                                                          *)
PoolKept == part = "mpool" => Pool!BlocksKept /\ Pool!AllocFindsRun /\ Pool!FreeCounted

(* cache.c: until a node is freed, exactly the keys inserted are found,    *)
(* and the list leads from the newest node to the oldest and back.         *)
IndexesAgree == part = "cache" => LRU!LookupComplete /\ LRU!ListIsByAge

(* cache.c: as long as no node was freed, an undefined access needs a      *)
(* removal, which always frees twice, or an insert into a full cache;      *)
(* nothing a client retains and releases leads to one.                     *)
HarmNeedsFree == [][part = "cache" => LRU!HarmNeedsFree]_others

(* mmstream.c: a read returns what was written, until a write or a         *)
(* truncation is led to another extent; __mmextent_at does that only for   *)
(* the index behind the last of two extents or more, and for the last half *)
(* of six or more.                                                         *)
ReadsBack == part = "mmstream" => Flow!ReadsBack /\ Flow!MisledOnlyFarOut

(* socket.c: a call that fails leaves no descriptor and no path behind,    *)
(* and one that works reports the address its socket has, for bind() if    *)
(* the first candidate works.                                              *)
NoLeak == part = "socket" => Socket!NoLeak

(* stream.c: every integer written comes back, and the loops never overrun *)
(* a buffer when the descriptor is a regular file.                         *)
IntsComeBack == part = "stream" => IO!IntsComeBack /\ IO!RegularFileIsSafe

(* strbuf.c: the first size cells are the string, it never runs on into    *)
(* what is left of a longer one, and an access falls behind the block only *)
(* for a string that fills it.                                             *)
HoldsText == part = "strbuf" => Str!HoldsText /\ Str!NoOldTail /\ Str!HarmNeedsFullBlock
=============================================================================
