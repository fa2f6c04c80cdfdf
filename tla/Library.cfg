\* The sequential parts of the library.
SPECIFICATION LibrarySpec
CONSTANTS
  \* chunk queue: chunks of two bytes, up to five bytes, calls of up to three
  Bytes = {1, 2}
  CHUNK = 2
  CHUNK_POOL = 1
  UINT = 8
  MaxSize = 5
  MaxBuf = 3
  \* memory pool: headers of two bytes, so that a rest may be smaller than one
  HEADER = 2
  POOL = 15
  POOL_UINT = 16
  Sizes = {1, 3, 4, 9}
  \* cache: a capacity that three nodes exceed, and one they do not fill
  Keys = {1, 2, 3}
  Hash <- KeyHash
  Capacities = {2, 4}
  Dirty = TRUE
  MaxNodes = 3
  MaxRetain = 1
  SIZE = 64
  \* memory stream: extents of two blocks of two bytes; offset 17 needs six
  BLK = 2
  EXT = 2
  Offsets = {0, 9, 17}
  Lengths = {4}
  MaxExtents = 6
  \* sockets: two addresses to choose from, a path, two descriptors
  Addresses = {"a1", "a2"}
  Paths = {"path"}
  Fds = {1, 2}
  MaxWire = 1
  \* stream: bytes of two bits, two integers
  BASE = 4
  Widths = {2, 8}
  MaxWrites = 2
  \* string buffer: blocks of three characters, strings of up to MaxSize
  Chars = {"a", " "}
  BLANK = " "
  ALIGN = 3
INVARIANTS
  ChunksKept
  IndexOfFirstTry
  PoolKept
  IndexesAgree
  ReadsBack
  NoLeak
  IntsComeBack
  HoldsText
PROPERTIES
  ImplementsByteFifo
  HarmNeedsFree
