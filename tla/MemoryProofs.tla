--------------------------- MODULE MemoryProofs -----------------------------
(***************************************************************************)
(* Machine-checked proofs about the chunk queue, its search and the memory *)
(* pool, for every value of their constants: an inductive invariant for    *)
(* each, from which what ChunkQProperties, ChunkSearch and MCLibrary say   *)
(* of it follows.                                                          *)
(***************************************************************************)
EXTENDS MCLibrary, SequenceFacts, FiniteSetTheorems

-----------------------------------------------------------------------------
(* chunkq.c *)

Windows(cs) == [i \in 1 .. Len(cs) |-> Window(cs[i])]

-----------------------------------------------------------------------------
(* What a chunk and a list of chunks hold. *)

LEMMA NodeFacts ==
  ASSUME CHUNK \in Nat \ {0}, NEW c \in ChunkNodes
  PROVE  /\ c.offset \in Nat /\ c.data \in Seq(Bytes) /\ Len(c.data) \in Nat
         /\ c.offset <= Len(c.data) /\ Len(c.data) <= CHUNK
         /\ NodeSize(c) \in Nat /\ Room(c) \in Nat
         /\ Window(c) \in Seq(Bytes) /\ Len(Window(c)) = NodeSize(c)
<1>1. /\ c.offset \in Nat /\ c.data \in Seq(Bytes) /\ Len(c.data) \in Nat
      /\ c.offset <= Len(c.data) /\ Len(c.data) <= CHUNK
  BY DEF ChunkNodes
<1>2. NodeSize(c) \in Nat /\ Room(c) \in Nat
  BY <1>1 DEF NodeSize, Room
<1>3. Window(c) \in Seq(Bytes) /\ Len(Window(c)) = NodeSize(c)
  BY <1>1, SuffixFacts DEF Window, NodeSize
<1> QED
  BY <1>1, <1>2, <1>3, Zenon

LEMMA WindowsFacts ==
  ASSUME CHUNK \in Nat \ {0}, NEW cs \in Seq(ChunkNodes)
  PROVE  /\ Windows(cs) \in Seq(Seq(Bytes)) /\ Len(Windows(cs)) = Len(cs)
         /\ \A i \in 1 .. Len(cs) : Windows(cs)[i] = Window(cs[i])
         /\ ContentOf(cs) = FlattenSeq(Windows(cs)) /\ ContentOf(cs) \in Seq(Bytes)
<1>1. Len(cs) \in Nat /\ \A i \in 1 .. Len(cs) : cs[i] \in ChunkNodes
  OBVIOUS
<1>2. \A i \in 1 .. Len(cs) : Window(cs[i]) \in Seq(Bytes)
  BY <1>1, NodeFacts
<1>3. Windows(cs) \in [1 .. Len(cs) -> Seq(Bytes)]
  BY <1>2 DEF Windows
<1>4. Windows(cs) \in Seq(Seq(Bytes)) /\ Len(Windows(cs)) = Len(cs)
  BY <1>1, <1>3
<1>5. \A i \in 1 .. Len(cs) : Windows(cs)[i] = Window(cs[i])
  BY DEF Windows
<1>6. ContentOf(cs) = FlattenSeq(Windows(cs))
  BY DEF ContentOf, Windows
<1> QED
  BY <1>4, <1>5, <1>6, FlattenType

LEMMA ContentOfNone ==
  ASSUME CHUNK \in Nat \ {0}
  PROVE  ContentOf(<<>>) = <<>>
<1>1. <<>> \in Seq(ChunkNodes) /\ Len(<<>>) = 0
  OBVIOUS
<1>2. Windows(<<>>) \in Seq(Seq(Bytes)) /\ Len(Windows(<<>>)) = 0
  BY <1>1, WindowsFacts
<1>3. Windows(<<>>) = <<>>
  BY <1>2
<1> QED
  BY <1>1, <1>2, <1>3, WindowsFacts, FlattenType

LEMMA ContentOfConcat ==
  ASSUME CHUNK \in Nat \ {0}, NEW a \in Seq(ChunkNodes), NEW b \in Seq(ChunkNodes)
  PROVE  a \o b \in Seq(ChunkNodes) /\ ContentOf(a \o b) = ContentOf(a) \o ContentOf(b)
<1>1. PICK r \in Seq(ChunkNodes) :
         /\ r = a \o b /\ Len(r) = Len(a) + Len(b)
         /\ \A i \in 1 .. Len(a) + Len(b) : r[i] = IF i <= Len(a) THEN a[i] ELSE b[i - Len(a)]
  <2>1. /\ a \o b \in Seq(ChunkNodes) /\ Len(a \o b) = Len(a) + Len(b)
        /\ \A i \in 1 .. Len(a) + Len(b) :
             (a \o b)[i] = IF i <= Len(a) THEN a[i] ELSE b[i - Len(a)]
    BY ConcatProperties
  <2> QED
    BY <2>1, Zenon
<1>2. PICK u \in Seq(Seq(Bytes)), v \in Seq(Seq(Bytes)), w \in Seq(Seq(Bytes)) :
         /\ u = Windows(a) /\ v = Windows(b) /\ w = Windows(r)
         /\ Len(u) = Len(a) /\ Len(v) = Len(b) /\ Len(w) = Len(r)
         /\ \A i \in 1 .. Len(a) : u[i] = Window(a[i])
         /\ \A i \in 1 .. Len(b) : v[i] = Window(b[i])
         /\ \A i \in 1 .. Len(r) : w[i] = Window(r[i])
  <2>1. \A s \in Seq(ChunkNodes) : /\ Windows(s) \in Seq(Seq(Bytes)) /\ Len(Windows(s)) = Len(s)
                                   /\ \A i \in 1 .. Len(s) : Windows(s)[i] = Window(s[i])
    BY WindowsFacts
  <2> QED
    BY <2>1, <1>1, ZenonT(40)
<1>3. PICK z \in Seq(Seq(Bytes)) :
         /\ z = u \o v /\ Len(z) = Len(u) + Len(v)
         /\ \A i \in 1 .. Len(u) + Len(v) : z[i] = IF i <= Len(u) THEN u[i] ELSE v[i - Len(u)]
  <2>1. /\ u \o v \in Seq(Seq(Bytes)) /\ Len(u \o v) = Len(u) + Len(v)
        /\ \A i \in 1 .. Len(u) + Len(v) :
             (u \o v)[i] = IF i <= Len(u) THEN u[i] ELSE v[i - Len(u)]
    BY ConcatProperties
  <2> QED
    BY <2>1, Zenon
<1>4. Len(w) = Len(z) /\ Len(a) \in Nat /\ Len(b) \in Nat /\ Len(w) = Len(a) + Len(b)
  BY <1>1, <1>2, <1>3
<1>5. ASSUME NEW i \in 1 .. Len(w) PROVE w[i] = z[i]
  <2>1. i \in 1 .. Len(a) + Len(b) /\ i \in 1 .. Len(r)
    BY <1>1, <1>4
  <2>2. CASE i <= Len(a)
    <3>1. i \in 1 .. Len(a)
      BY <2>1, <2>2
    <3>2. r[i] = a[i]
      BY <2>1, <2>2, <1>1, Zenon
    <3>3. z[i] = u[i]
      BY <2>1, <2>2, <1>2, <1>3, Zenon
    <3> QED
      BY <2>1, <3>1, <3>2, <3>3, <1>2, Zenon
  <2>3. CASE ~(i <= Len(a))
    <3>1. i - Len(a) \in 1 .. Len(b)
      BY <2>1, <2>3, <1>4
    <3>2. r[i] = b[i - Len(a)]
      BY <2>1, <2>3, <1>1, Zenon
    <3>3. z[i] = v[i - Len(a)]
      BY <2>1, <2>3, <1>2, <1>3, Zenon
    <3> QED
      BY <2>1, <3>1, <3>2, <3>3, <1>2, Zenon
  <2> QED
    BY <2>2, <2>3, Zenon
<1>6. w = z
  BY <1>4, <1>5, SeqEqual
<1>7. FlattenSeq(z) = FlattenSeq(u) \o FlattenSeq(v)
  BY <1>3, FlattenConcat
<1>8. \A s \in Seq(ChunkNodes) : ContentOf(s) = FlattenSeq(Windows(s))
  BY WindowsFacts
<1> QED
  BY <1>1, <1>2, <1>6, <1>7, <1>8, Zenon

LEMMA ContentOfOne ==
  ASSUME CHUNK \in Nat \ {0}, NEW c \in ChunkNodes
  PROVE  <<c>> \in Seq(ChunkNodes) /\ ContentOf(<<c>>) = Window(c)
<1>1. <<c>> \in Seq(ChunkNodes) /\ Len(<<c>>) = 1 /\ <<c>>[1] = c
  OBVIOUS
<1>2. PICK w \in Seq(Bytes) : w = Window(c)
  BY NodeFacts
<1>3. PICK u : u = Windows(<<c>>)
  OBVIOUS
<1>4. u \in Seq(Seq(Bytes)) /\ Len(u) = 1 /\ u[1] = w /\ ContentOf(<<c>>) = FlattenSeq(u)
  <2>1. 1 \in 1 .. 1
    OBVIOUS
  <2> QED
    BY <1>1, <1>2, <1>3, <2>1, WindowsFacts
<1>5. FlattenSeq(u) = w
  <2>1. PICK f \in [1 .. Len(u) -> Seq(Bytes)] : Rows(u, Len(u), f) /\ FlattenSeq(u) = f[Len(u)]
    <3>1. Len(u) > 0
      BY <1>4
    <3> QED
      BY <1>4, <3>1, FlattenRows
  <2> QED
    BY <1>4, <2>1 DEF Rows
<1> QED
  BY <1>1, <1>2, <1>4, <1>5, Zenon

-----------------------------------------------------------------------------
(* Cutting n bytes into chunks. *)

LEMMA Division ==
  ASSUME NEW C \in Nat \ {0}, NEW m \in Nat \ {0}
  PROVE  /\ (m + C - 1) \div C \in Nat \ {0}
         /\ ((m + C - 1) \div C - 1) * C < m /\ m <= ((m + C - 1) \div C) * C
  OBVIOUS

LEMMA DivisionExact ==
  ASSUME NEW C \in Nat \ {0}, NEW j \in Nat
  PROVE  (j * C + C - 1) \div C = j
  OBVIOUS

LEMMA TimesMonotone ==
  ASSUME NEW C \in Nat, NEW i \in Nat, NEW j \in Nat, i <= j
  PROVE  i * C \in Nat /\ i * C <= j * C /\ (i + 1) * C = i * C + C
  OBVIOUS

(* Where the chunk i of k chunks for L bytes begins and ends. *)
CutAt(C, L, k, i) ==
  /\ (i - 1) * C \in Nat /\ Least(i * C, L) \in Nat
  /\ (i - 1) * C < Least(i * C, L) /\ Least(i * C, L) <= L
  /\ Least(i * C, L) - (i - 1) * C <= C
  /\ (i < k => Least(i * C, L) = i * C /\ Least(i * C, L) - (i - 1) * C = C)
  /\ (i = k => Least(i * C, L) = L)
  /\ Least((i - 1) * C, L) = (i - 1) * C

LEMMA CutFacts ==
  ASSUME NEW C \in Nat \ {0}, NEW L \in Nat, NEW k \in Nat \ {0},
         (k - 1) * C < L, L <= k * C, NEW i \in 1 .. k
  PROVE  CutAt(C, L, k, i)
<1>1. i - 1 \in Nat /\ k - 1 \in Nat /\ i - 1 <= k - 1 /\ (i - 1) + 1 = i /\ i \in Nat
  OBVIOUS
<1>2. PICK x \in Nat : x = (i - 1) * C /\ x <= (k - 1) * C /\ i * C = x + C
  <2>1. (i - 1) * C \in Nat /\ (i - 1) * C <= (k - 1) * C /\ ((i - 1) + 1) * C = (i - 1) * C + C
    BY <1>1, TimesMonotone
  <2> QED
    BY <2>1, <1>1, Zenon
<1>3. PICK y \in Nat : y = (k - 1) * C
  BY <1>1, TimesMonotone
<1>4. i < k => x + C <= y
  <2> SUFFICES ASSUME i < k PROVE x + C <= y
    OBVIOUS
  <2>1. i <= k - 1
    BY <1>1
  <2>2. i * C <= (k - 1) * C
    BY <2>1, <1>1, TimesMonotone
  <2> QED
    BY <2>2, <1>2, <1>3, Zenon
<1>5. x <= y /\ y < L /\ (i = k => L <= x + C)
  BY <1>2, <1>3, Zenon
<1>6. /\ Least(x + C, L) \in Nat /\ x < Least(x + C, L) /\ Least(x + C, L) <= L
      /\ Least(x + C, L) - x <= C
      /\ (i < k => Least(x + C, L) = x + C /\ Least(x + C, L) - x = C)
      /\ (i = k => Least(x + C, L) = L)
      /\ Least(x, L) = x
  BY <1>4, <1>5 DEF Least
<1> QED
  BY <1>2, <1>6, Zenon DEF CutAt

(* The new chunks of append. *)
Cut(rest, k) ==
  [i \in 1 .. k |-> Node(0, SubSeq(rest, (i - 1) * CHUNK + 1, Least(i * CHUNK, Len(rest))))]

LEMMA NewNode ==
  ASSUME CHUNK \in Nat \ {0}, NEW r \in Seq(Bytes), NEW a \in Nat, NEW b \in Nat,
         a < b, b <= Len(r), b - a <= CHUNK
  PROVE  LET c == Node(0, SubSeq(r, a + 1, b))
         IN /\ c \in ChunkNodes /\ c.offset = 0 /\ NodeSize(c) # 0
            /\ (b - a = CHUNK => Room(c) = 0)
            /\ Window(c) = SubSeq(r, a + 1, b)
<1>1. a <= b
  OBVIOUS
<1>2. SubSeq(r, a + 1, b) \in Seq(Bytes) /\ Len(SubSeq(r, a + 1, b)) = b - a
  BY <1>1, CutInTwo
<1>3. PICK u \in Seq(Bytes) : u = SubSeq(r, a + 1, b) /\ Len(u) = b - a
  BY <1>2, Zenon
<1>4. PICK c : c = Node(0, u) /\ c.offset = 0 /\ c.data = u
  <2>1. Node(0, u).offset = 0 /\ Node(0, u).data = u
    BY DEF Node
  <2> QED
    BY <2>1, Zenon
<1>5. c \in ChunkNodes
  BY <1>3, <1>4 DEF ChunkNodes, Node
<1>6. NodeSize(c) # 0 /\ (b - a = CHUNK => Room(c) = 0)
  BY <1>3, <1>4 DEF NodeSize, Room
<1>7. Window(c) = u
  <2>1. SubSeq(u, 1, Len(u)) = u
    BY SubSeqFull
  <2>2. 0 + 1 = 1
    OBVIOUS
  <2> QED
    BY <1>4, <2>1, <2>2, Zenon DEF Window
<1> QED
  BY <1>3, <1>4, <1>5, <1>6, <1>7, Zenon

LEMMA CutIntoChunks ==
  ASSUME CHUNK \in Nat \ {0}, NEW r \in Seq(Bytes), NEW k \in Nat \ {0},
         (k - 1) * CHUNK < Len(r), Len(r) <= k * CHUNK
  PROVE  /\ Cut(r, k) \in Seq(ChunkNodes) /\ Len(Cut(r, k)) = k
         /\ \A i \in 1 .. k : /\ Cut(r, k)[i].offset = 0 /\ NodeSize(Cut(r, k)[i]) # 0
                              /\ i < k => Room(Cut(r, k)[i]) = 0
         /\ ContentOf(Cut(r, k)) = r
<1>1. PICK L \in Nat : L = Len(r)
  OBVIOUS
<1> DEFINE lo(i) == (i - 1) * CHUNK
<1> DEFINE hi(i) == Least(i * CHUNK, L)
<1>2. ASSUME NEW i \in 1 .. k
      PROVE  /\ lo(i) \in Nat /\ hi(i) \in Nat /\ lo(i) < hi(i) /\ hi(i) <= L
             /\ hi(i) - lo(i) <= CHUNK
             /\ (i < k => hi(i) - lo(i) = CHUNK) /\ (i = k => hi(i) = L)
             /\ Least((i - 1) * CHUNK, L) = lo(i)
  <2>1. (k - 1) * CHUNK < L /\ L <= k * CHUNK
    BY <1>1, Zenon
  <2>2. CutAt(CHUNK, L, k, i)
    BY <2>1, CutFacts
  <2> QED
    BY <2>2, Zenon DEF CutAt
<1>3. PICK c : c = Cut(r, k)
  OBVIOUS
<1>4. \A i \in 1 .. k : c[i] = Node(0, SubSeq(r, lo(i) + 1, hi(i)))
  BY <1>1, <1>3 DEF Cut
<1> HIDE DEF lo, hi
<1>5. ASSUME NEW i \in 1 .. k
      PROVE  /\ c[i] \in ChunkNodes /\ c[i].offset = 0 /\ NodeSize(c[i]) # 0
             /\ (i < k => Room(c[i]) = 0)
             /\ Window(c[i]) = SubSeq(r, lo(i) + 1, hi(i))
  <2>1. PICK a \in Nat, b \in Nat : /\ a = lo(i) /\ b = hi(i) /\ a < b /\ b <= Len(r)
                                    /\ b - a <= CHUNK /\ (i < k => b - a = CHUNK)
    BY <1>1, <1>2, Zenon
  <2>2. LET d == Node(0, SubSeq(r, a + 1, b))
        IN /\ d \in ChunkNodes /\ d.offset = 0 /\ NodeSize(d) # 0
           /\ (b - a = CHUNK => Room(d) = 0)
           /\ Window(d) = SubSeq(r, a + 1, b)
    BY <2>1, NewNode, SMTT(30)
  <2>3. c[i] = Node(0, SubSeq(r, a + 1, b))
    BY <2>1, <1>4, Zenon
  <2> QED
    BY <2>1, <2>2, <2>3, Zenon
<1>6. c \in Seq(ChunkNodes) /\ Len(c) = k
  <2>1. c \in [1 .. k -> ChunkNodes]
    BY <1>3, <1>5 DEF Cut
  <2>2. k \in Nat
    OBVIOUS
  <2> QED
    BY <2>1, <2>2
<1>7. PICK cut : cut = [i \in 0 .. k |-> Least(i * CHUNK, L)]
  OBVIOUS
<1>8. \A i \in 1 .. k : cut[i - 1] = lo(i) /\ cut[i] = hi(i)
  <2> SUFFICES ASSUME NEW i \in 1 .. k PROVE cut[i - 1] = lo(i) /\ cut[i] = hi(i)
    OBVIOUS
  <2>1. i - 1 \in 0 .. k /\ i \in 0 .. k
    OBVIOUS
  <2>2. cut[i - 1] = Least((i - 1) * CHUNK, L) /\ cut[i] = Least(i * CHUNK, L)
    BY <2>1, <1>7, Zenon
  <2> QED
    BY <2>2, <1>2, Zenon DEF lo, hi
<1>9. /\ cut \in [0 .. k -> Nat] /\ cut[0] = 0 /\ cut[k] = Len(r)
      /\ \A i \in 1 .. k : cut[i - 1] <= cut[i] /\ cut[i] <= Len(r)
  <2>1. k \in 1 .. k /\ 0 \in 0 .. k /\ 0 * CHUNK = 0 /\ \A i \in 0 .. k : i = 0 \/ i \in 1 .. k
    OBVIOUS
  <2>2. Least(0, L) = 0
    BY <1>1 DEF Least
  <2>3. cut[0] = 0
    BY <2>1, <2>2, <1>7, Zenon
  <2>4. \A i \in 0 .. k : cut[i] \in Nat
    BY <2>1, <2>3, <1>2, <1>8
  <2>5. cut \in [0 .. k -> Nat]
    BY <2>4, <1>7
  <2>6. \A i \in 1 .. k : cut[i - 1] <= cut[i] /\ cut[i] <= Len(r)
    BY <1>1, <1>2, <1>8
  <2> QED
    BY <2>1, <2>3, <2>5, <2>6, <1>1, <1>2, <1>8, Zenon
<1>10. FlattenSeq([i \in 1 .. k |-> SubSeq(r, cut[i - 1] + 1, cut[i])]) = r
  BY <1>9, FlattenPieces
<1>11. [i \in 1 .. Len(c) |-> Window(c[i])] = [i \in 1 .. k |-> SubSeq(r, cut[i - 1] + 1, cut[i])]
  BY <1>5, <1>6, <1>8
<1>12. ContentOf(c) = r
  BY <1>10, <1>11, Zenon DEF ContentOf
<1> QED
  BY <1>3, <1>5, <1>6, <1>12, Zenon

(* A list of chunks is its front and its tail. *)
LEMMA SplitLast ==
  ASSUME NEW cs \in Seq(ChunkNodes), cs # <<>>
  PROVE  /\ Front(cs) \in Seq(ChunkNodes) /\ cs[Len(cs)] \in ChunkNodes
         /\ Len(cs) \in Nat \ {0} /\ Len(Front(cs)) = Len(cs) - 1
         /\ \A i \in 1 .. Len(cs) - 1 : Front(cs)[i] = cs[i]
         /\ cs = Front(cs) \o <<cs[Len(cs)]>>
<1>1. Len(cs) \in Nat \ {0} /\ cs[Len(cs)] \in ChunkNodes
  OBVIOUS
<1>2. PICK n \in Nat : n = Len(cs) - 1 /\ n <= Len(cs) /\ n + 1 = Len(cs)
  BY <1>1, SMTT(30)
<1>3. SubSeq(cs, 1, n) \in Seq(ChunkNodes) /\ Len(SubSeq(cs, 1, n)) = n
      /\ \A i \in 1 .. n : SubSeq(cs, 1, n)[i] = cs[i]
  <2>1. n <= Len(cs)
    BY <1>2
  <2> QED
    BY <2>1, PrefixFacts
<1>4. PICK f \in Seq(ChunkNodes) : f = Front(cs) /\ Len(f) = n /\ \A i \in 1 .. n : f[i] = cs[i]
  BY <1>2, <1>3, Zenon DEF Front
<1>5. PICK t \in ChunkNodes : t = cs[Len(cs)]
  BY <1>1, Zenon
<1>6. cs = f \o <<t>>
  <2>1. f \o <<t>> \in Seq(ChunkNodes) /\ Len(f \o <<t>>) = n + 1
        /\ \A i \in 1 .. n + 1 : (f \o <<t>>)[i] = IF i <= n THEN f[i] ELSE t
    BY <1>4
  <2>2. PICK x \in Seq(ChunkNodes) : x = f \o <<t>> /\ Len(x) = n + 1 /\ \A i \in 1 .. n + 1 : x[i] = IF i <= n THEN f[i] ELSE t
    BY <2>1, Zenon
  <2>3. ASSUME NEW i \in 1 .. n + 1 PROVE x[i] = cs[i]
    <3>1. CASE i <= n
      BY <3>1, <2>2, <1>4
    <3>2. CASE ~(i <= n)
      BY <3>2, <2>2, <1>5, <1>2
    <3> QED
      BY <3>1, <3>2, Zenon
  <2> QED
    BY <2>2, <2>3, <1>2, SeqEqual
<1> QED
  BY <1>1, <1>2, <1>4, <1>5, <1>6, Zenon

-----------------------------------------------------------------------------
(* What chunkq_append does to the list. *)

LEMMA FilledFacts ==
  ASSUME CHUNK \in Nat \ {0}, NEW c \in ChunkNodes, NEW buf \in Seq(Bytes),
         NEW m, m = Least(Room(c), Len(buf))
  PROVE  /\ m \in Nat /\ m <= Len(buf) /\ m <= Room(c) /\ (m = Room(c) \/ m = Len(buf))
         /\ Filled(c, buf) \in ChunkNodes /\ Filled(c, buf).offset = c.offset
         /\ Filled(c, buf).data = c.data \o SubSeq(buf, 1, m)
         /\ NodeSize(Filled(c, buf)) = NodeSize(c) + m
         /\ Room(Filled(c, buf)) = Room(c) - m
         /\ Window(Filled(c, buf)) = Window(c) \o SubSeq(buf, 1, m)
<1>1. /\ c.offset \in Nat /\ c.data \in Seq(Bytes) /\ Len(c.data) \in Nat
      /\ c.offset <= Len(c.data) /\ Len(c.data) <= CHUNK
      /\ NodeSize(c) \in Nat /\ Room(c) \in Nat
  BY NodeFacts
<1>2. m \in Nat /\ m <= Len(buf) /\ m <= Room(c) /\ (m = Room(c) \/ m = Len(buf))
  <2>1. Len(buf) \in Nat
    OBVIOUS
  <2> QED
    BY <1>1, <2>1 DEF Least
<1>3. PICK p \in Seq(Bytes) : p = SubSeq(buf, 1, m) /\ Len(p) = m
  <2>1. SubSeq(buf, 1, m) \in Seq(Bytes) /\ Len(SubSeq(buf, 1, m)) = m
    BY <1>2, PrefixFacts
  <2> QED
    BY <2>1, Zenon
<1>4. PICK d \in Seq(Bytes) : d = c.data /\ Len(d) = Len(c.data)
  BY <1>1, Zenon
<1>5. PICK e \in Seq(Bytes) : e = d \o p /\ Len(e) = Len(d) + m
  <2>1. d \o p \in Seq(Bytes) /\ Len(d \o p) = Len(d) + Len(p)
    BY ConcatProperties
  <2> QED
    BY <2>1, <1>3, Zenon
<1>6. PICK x : x = Filled(c, buf) /\ x = Node(c.offset, e) /\ x.offset = c.offset /\ x.data = e
  <2>1. Node(c.offset, e).offset = c.offset /\ Node(c.offset, e).data = e
    BY DEF Node
  <2> QED
    BY <2>1, <1>3, <1>4, <1>5, Zenon DEF Filled
<1>7. /\ Len(e) \in Nat /\ Len(e) = Len(c.data) + m
      /\ c.offset <= Len(e) /\ Len(e) <= CHUNK
  <2>1. Len(e) = Len(c.data) + m
    BY <1>4, <1>5, Zenon
  <2>2. m <= CHUNK - Len(c.data)
    BY <1>2 DEF Room
  <2> QED
    BY <1>1, <1>2, <2>1, <2>2, SMTT(30)
<1>8. x \in ChunkNodes
  BY <1>1, <1>6, <1>7 DEF ChunkNodes, Node
<1>9. NodeSize(x) = NodeSize(c) + m /\ Room(x) = Room(c) - m
  <2>1. Len(x.data) = Len(c.data) + m
    BY <1>6, <1>7, Zenon
  <2>2. PICK y \in Nat, o \in Nat : y = Len(c.data) /\ o = c.offset
    BY <1>1, Zenon
  <2>3. /\ NodeSize(x) = (y + m) - o /\ Room(x) = CHUNK - (y + m)
        /\ NodeSize(c) = y - o /\ Room(c) = CHUNK - y
    BY <2>1, <2>2, <1>6, Zenon DEF NodeSize, Room
  <2>4. (y + m) - o = (y - o) + m /\ CHUNK - (y + m) = (CHUNK - y) - m
    BY <1>2
  <2> QED
    BY <2>3, <2>4, Zenon
<1>10. Window(x) = Window(c) \o p
  <2>1. PICK o \in Nat : o = c.offset /\ o <= Len(d)
    BY <1>1, <1>4, Zenon
  <2>2. SubSeq(d \o p, o + 1, Len(d \o p)) = SubSeq(d, o + 1, Len(d)) \o p
    BY <2>1, RestOfConcat
  <2> QED
    BY <2>1, <2>2, <1>4, <1>5, <1>6, Zenon DEF Window
<1> QED
  BY <1>2, <1>3, <1>4, <1>5, <1>6, <1>8, <1>9, <1>10, Zenon

(* The n chunks of f, then x, then those of l. *)
InARow(r, f, n, x, l) ==
  /\ r \in Seq(ChunkNodes) /\ Len(r) = n + 1 + Len(l)
  /\ \A i \in 1 .. n : r[i] = f[i]
  /\ r[n + 1] = x
  /\ \A i \in 1 .. Len(l) : r[n + 1 + i] = l[i]

LEMMA LongerList ==
  ASSUME CHUNK \in Nat \ {0}, NEW f \in Seq(ChunkNodes), NEW x \in ChunkNodes,
         NEW l \in Seq(ChunkNodes), NEW n \in Nat, n = Len(f)
  PROVE  InARow(Append(f, x) \o l, f, n, x, l)
<1>1. PICK a \in Seq(ChunkNodes) : /\ a = Append(f, x) /\ Len(a) = n + 1 /\ a[n + 1] = x
                                   /\ \A i \in 1 .. n : a[i] = f[i]
  <2>1. Append(f, x) \in Seq(ChunkNodes) /\ Len(Append(f, x)) = n + 1 /\ Append(f, x)[n + 1] = x
        /\ \A i \in 1 .. n : Append(f, x)[i] = f[i]
    OBVIOUS
  <2> QED
    BY <2>1, Zenon
<1>2. PICK r \in Seq(ChunkNodes) :
         /\ r = a \o l /\ Len(r) = Len(a) + Len(l)
         /\ \A i \in 1 .. Len(a) + Len(l) : r[i] = IF i <= Len(a) THEN a[i] ELSE l[i - Len(a)]
  <2>1. /\ a \o l \in Seq(ChunkNodes) /\ Len(a \o l) = Len(a) + Len(l)
        /\ \A i \in 1 .. Len(a) + Len(l) : (a \o l)[i] = IF i <= Len(a) THEN a[i] ELSE l[i - Len(a)]
    BY ConcatProperties
  <2> QED
    BY <2>1, Zenon
<1>3. Len(l) \in Nat
  OBVIOUS
<1>4. \A i \in 1 .. n + 1 : r[i] = a[i]
  BY <1>1, <1>2, <1>3
<1>5. \A i \in 1 .. n : r[i] = f[i]
  BY <1>1, <1>4
<1>6. r[n + 1] = x
  BY <1>1, <1>4
<1>7. ASSUME NEW i \in 1 .. Len(l) PROVE r[n + 1 + i] = l[i]
  <2>1. PICK j : j = n + 1 + i
    OBVIOUS
  <2>2. j \in 1 .. Len(a) + Len(l) /\ ~(j <= Len(a)) /\ j - Len(a) = i
    BY <2>1, <1>1, <1>3
  <2> QED
    BY <2>1, <2>2, <1>2, Zenon
<1>8. Len(r) = n + 1 + Len(l)
  BY <1>1, <1>2
<1> QED
  BY <1>1, <1>2, <1>5, <1>6, <1>7, <1>8, Zenon DEF InARow

(* The last chunk t of the n + 1 chunks of cs has become x, and the k      *)
(* chunks of l are behind it.                                              *)
Grown(cs, n, x, l, k) ==
  /\ x.offset = cs[n + 1].offset
  /\ NodeSize(x) = 0 => NodeSize(cs[n + 1]) = 0 /\ x.data = <<>> /\ k = 0
  /\ k # 0 => Room(x) = 0
  /\ \A i \in 1 .. k : /\ l[i].offset = 0 /\ NodeSize(l[i]) # 0
                       /\ i < k => Room(l[i]) = 0

LEMMA LongerShape ==
  ASSUME CHUNK \in Nat \ {0}, NEW cs \in Seq(ChunkNodes), NEW n \in Nat, n + 1 = Len(cs),
         Shape(cs), NothingSpent(cs),
         NEW x \in ChunkNodes, NEW l \in Seq(ChunkNodes), NEW k \in Nat, k = Len(l), NEW r,
         InARow(r, cs, n, x, l), Grown(cs, n, x, l, k)
  PROVE  Shape(r) /\ NothingSpent(r)
<1>0. /\ \A i \in 2 .. n + 1 : cs[i].offset = 0
      /\ \A i \in 1 .. n : Room(cs[i]) = 0
      /\ \A i \in 1 .. n + 1 : NodeSize(cs[i]) = 0 => n = 0 /\ cs[i].data = <<>>
  <2>2. (n + 1) - 1 = n /\ (n + 1 = 1 => n = 0)
    OBVIOUS
  <2>1. Len(cs) - 1 = n /\ (Len(cs) = 1 => n = 0)
    BY <2>2, Zenon
  <2> QED
    BY <2>1, Zenon DEF Shape, NothingSpent
<1>6. /\ r \in Seq(ChunkNodes) /\ Len(r) = n + 1 + k
      /\ \A i \in 1 .. n : r[i] = cs[i]
      /\ r[n + 1] = x
      /\ x.offset = cs[n + 1].offset
      /\ NodeSize(x) = 0 => NodeSize(cs[n + 1]) = 0 /\ x.data = <<>> /\ k = 0
      /\ k # 0 => Room(x) = 0
      /\ \A i \in 1 .. k : /\ r[n + 1 + i].offset = 0 /\ NodeSize(r[n + 1 + i]) # 0
                           /\ i < k => Room(r[n + 1 + i]) = 0
  <2>1. \A i \in 1 .. k : r[n + 1 + i] = l[i]
    BY Zenon DEF InARow
  <2> QED
    BY <2>1, ZenonT(40) DEF InARow, Grown
<1> USE <1>6
<1>1. ASSUME NEW i \in 1 .. n + 1 + k
      PROVE  \/ i \in 1 .. n
             \/ i = n + 1
             \/ \E j \in 1 .. k : i = n + 1 + j /\ j = i - (n + 1)
  <2>1. i > n + 1 => i - (n + 1) \in 1 .. k /\ i = n + 1 + (i - (n + 1))
    OBVIOUS
  <2>2. i \in 1 .. n \/ i = n + 1 \/ i > n + 1
    OBVIOUS
  <2> QED
    BY <2>1, <2>2, Zenon
<1>2. ASSUME NEW i \in 2 .. n + 1 + k PROVE r[i].offset = 0
  <2>1. i \in 1 .. n + 1 + k
    OBVIOUS
  <2>2. CASE i \in 1 .. n
    BY <2>2, <1>0
  <2>3. CASE i = n + 1
    BY <2>3, <1>0
  <2>4. CASE \E j \in 1 .. k : i = n + 1 + j /\ j = i - (n + 1)
    BY <2>4
  <2> QED
    BY <2>1, <2>2, <2>3, <2>4, <1>1, Zenon
<1>3. ASSUME NEW i \in 1 .. n + k PROVE Room(r[i]) = 0
  <2>1. i \in 1 .. n + 1 + k
    OBVIOUS
  <2>2. CASE i \in 1 .. n
    BY <2>2, <1>0, Zenon
  <2>3. CASE i = n + 1
    <3>1. k # 0
      BY <2>3
    <3> QED
      BY <2>3, <3>1, Zenon
  <2>4. CASE \E j \in 1 .. k : i = n + 1 + j /\ j = i - (n + 1)
    <3>1. PICK j \in 1 .. k : i = n + 1 + j
      BY <2>4, Zenon
    <3>2. j < k
      BY <3>1
    <3> QED
      BY <3>1, <3>2, Zenon
  <2> QED
    BY <2>1, <2>2, <2>3, <2>4, <1>1, Zenon
<1>4. ASSUME NEW i \in 1 .. n + 1 + k, NodeSize(r[i]) = 0
      PROVE  n + 1 + k = 1 /\ r[i].data = <<>>
  <2>2. CASE i \in 1 .. n
    <3>1. i \in 1 .. n + 1 /\ n # 0
      BY <2>2
    <3> QED
      BY <2>2, <3>1, <1>0, <1>4, Zenon
  <2>3. CASE i = n + 1
    <3>1. NodeSize(cs[n + 1]) = 0 /\ x.data = <<>> /\ k = 0
      BY <2>3, <1>4, Zenon
    <3>2. n + 1 \in 1 .. n + 1
      OBVIOUS
    <3>3. n = 0
      BY <3>1, <3>2, <1>0, Zenon
    <3>4. n + 1 + k = 1
      BY <3>1, <3>3
    <3> QED
      BY <2>3, <3>1, <3>4, Zenon
  <2>4. CASE \E j \in 1 .. k : i = n + 1 + j /\ j = i - (n + 1)
    BY <2>4, <1>4, Zenon
  <2> QED
    BY <2>2, <2>3, <2>4, <1>1, Zenon
<1>5. Len(r) - 1 = n + k
  OBVIOUS
<1> QED
  BY <1>2, <1>3, <1>4, <1>5, Zenon DEF Shape, NothingSpent

LEMMA NewChunksFacts ==
  ASSUME CHUNK \in Nat \ {0}, NEW cs \in Seq(ChunkNodes), cs # <<>>, NEW n \in Nat,
         NEW room \in Nat, room = Room(cs[Len(cs)]), NEW k, k = NewChunks(cs, n)
  PROVE  /\ k \in Nat /\ (n <= room <=> k = 0)
         /\ (n > room => (k - 1) * CHUNK < n - room /\ n - room <= k * CHUNK)
<1>1. CASE n <= room
  BY <1>1 DEF NewChunks
<1>2. CASE ~(n <= room)
  <2>1. PICK m \in Nat \ {0} : m = n - room
    BY <1>2
  <2>2. k = (m + CHUNK - 1) \div CHUNK
    BY <1>2, <2>1, Zenon DEF NewChunks
  <2>3. k \in Nat \ {0} /\ (k - 1) * CHUNK < m /\ m <= k * CHUNK
    BY <2>2, Division
  <2> QED
    BY <1>2, <2>1, <2>3
<1> QED
  BY <1>1, <1>2, Zenon

(* When the chunks of append are as many as the bytes need, the list keeps *)
(* its shape and has the bytes behind those it had.                        *)
LEMMA AppendedFacts ==
  ASSUME CHUNK \in Nat \ {0}, NEW cs \in Seq(ChunkNodes), cs # <<>>,
         Shape(cs), NothingSpent(cs), NEW buf \in Seq(Bytes),
         NEW k, k = NewChunks(cs, Len(buf))
  PROVE  /\ k \in Nat
         /\ Appended(cs, buf, k) \in Seq(ChunkNodes)
         /\ Len(Appended(cs, buf, k)) = Len(cs) + k
         /\ Shape(Appended(cs, buf, k)) /\ NothingSpent(Appended(cs, buf, k))
         /\ ContentOf(Appended(cs, buf, k)) = ContentOf(cs) \o buf
<1>0. \A w, y, z \in Seq(Bytes) : w \o (y \o z) = (w \o y) \o z
  BY ConcatThree, SMTT(30)
<1>1. PICK n \in Nat, f \in Seq(ChunkNodes), t \in ChunkNodes :
         /\ n + 1 = Len(cs) /\ n = Len(f) /\ f = Front(cs) /\ t = cs[Len(cs)]
         /\ \A i \in 1 .. n : f[i] = cs[i]
         /\ cs = f \o <<t>>
  <2>1. /\ Front(cs) \in Seq(ChunkNodes) /\ cs[Len(cs)] \in ChunkNodes
        /\ Len(cs) \in Nat \ {0} /\ Len(Front(cs)) = Len(cs) - 1
        /\ \A i \in 1 .. Len(cs) - 1 : Front(cs)[i] = cs[i]
        /\ cs = Front(cs) \o <<cs[Len(cs)]>>
    BY SplitLast
  <2>2. Len(cs) - 1 \in Nat /\ (Len(cs) - 1) + 1 = Len(cs)
    BY <2>1
  <2> QED
    BY <2>1, <2>2, Zenon
<1>2. PICK room \in Nat, L \in Nat : room = Room(t) /\ L = Len(buf)
  BY NodeFacts
<1>3. /\ k \in Nat /\ (L <= room <=> k = 0)
      /\ (L > room => (k - 1) * CHUNK < L - room /\ L - room <= k * CHUNK)
  <2>1. room = Room(cs[Len(cs)]) /\ k = NewChunks(cs, L)
    BY <1>1, <1>2, Zenon
  <2> QED
    BY <2>1, NewChunksFacts
<1>4. PICK m \in Nat, x \in ChunkNodes :
         /\ m = Least(room, L) /\ x = Filled(t, buf) /\ m <= L /\ m <= room
         /\ x.offset = t.offset /\ x.data = t.data \o SubSeq(buf, 1, m)
         /\ NodeSize(x) = NodeSize(t) + m /\ Room(x) = room - m
         /\ Window(x) = Window(t) \o SubSeq(buf, 1, m)
  <2>1. PICK m : m = Least(Room(t), Len(buf))
    OBVIOUS
  <2>2. /\ m \in Nat /\ m <= Len(buf) /\ m <= Room(t)
        /\ Filled(t, buf) \in ChunkNodes /\ Filled(t, buf).offset = t.offset
        /\ Filled(t, buf).data = t.data \o SubSeq(buf, 1, m)
        /\ NodeSize(Filled(t, buf)) = NodeSize(t) + m
        /\ Room(Filled(t, buf)) = Room(t) - m
        /\ Window(Filled(t, buf)) = Window(t) \o SubSeq(buf, 1, m)
    BY <2>1, FilledFacts
  <2> QED
    BY <2>1, <2>2, <1>2, Zenon
<1>5. (k = 0 => m = L) /\ (k # 0 => m = room /\ room < L)
  BY <1>2, <1>3, <1>4 DEF Least
<1>6. PICK rest \in Seq(Bytes), p \in Seq(Bytes) :
         /\ rest = SubSeq(buf, m + 1, L) /\ p = SubSeq(buf, 1, m)
         /\ Len(rest) = L - m /\ buf = p \o rest
  <2>1. m <= L /\ L <= Len(buf)
    BY <1>2, <1>4
  <2>2. /\ SubSeq(buf, 1, m) \in Seq(Bytes)
        /\ SubSeq(buf, m + 1, L) \in Seq(Bytes) /\ Len(SubSeq(buf, m + 1, L)) = L - m
        /\ SubSeq(buf, 1, L) = SubSeq(buf, 1, m) \o SubSeq(buf, m + 1, L)
    BY <2>1, CutInTwo
  <2>3. SubSeq(buf, 1, L) = buf
    BY <1>2, SubSeqFull
  <2> QED
    BY <2>2, <2>3, Zenon
<1>7. PICK l \in Seq(ChunkNodes) :
         /\ l = Cut(SubSeq(buf, room + 1, L), k) /\ Len(l) = k
         /\ \A i \in 1 .. k : /\ l[i].offset = 0 /\ NodeSize(l[i]) # 0
                              /\ i < k => Room(l[i]) = 0
         /\ ContentOf(l) = rest
  <2>1. CASE k = 0
    <3>1. PICK q : q = SubSeq(buf, room + 1, L)
      OBVIOUS
    <3>2. Cut(q, 0) = <<>>
      BY DEF Cut
    <3>3. rest = <<>>
      BY <2>1, <1>5, <1>6
    <3>4. \A i \in 1 .. 0 : FALSE
      OBVIOUS
    <3>5. <<>> \in Seq(ChunkNodes) /\ Len(<<>>) = 0 /\ ContentOf(<<>>) = <<>>
      BY ContentOfNone
    <3> QED
      BY <2>1, <3>1, <3>2, <3>3, <3>4, <3>5, Zenon
  <2>2. CASE k # 0
    <3>1. m = room /\ room < L
      BY <2>2, <1>5, Zenon
    <3>2. k \in Nat \ {0} /\ (k - 1) * CHUNK < Len(rest) /\ Len(rest) <= k * CHUNK
      <4>1. (k - 1) * CHUNK < L - room /\ L - room <= k * CHUNK
        BY <3>1, <1>3
      <4> QED
        BY <2>2, <3>1, <4>1, <1>3, <1>6, Zenon
    <3>3. /\ Cut(rest, k) \in Seq(ChunkNodes) /\ Len(Cut(rest, k)) = k
          /\ \A i \in 1 .. k : /\ Cut(rest, k)[i].offset = 0 /\ NodeSize(Cut(rest, k)[i]) # 0
                               /\ i < k => Room(Cut(rest, k)[i]) = 0
          /\ ContentOf(Cut(rest, k)) = rest
      BY <3>2, CutIntoChunks
    <3>4. rest = SubSeq(buf, room + 1, L)
      BY <3>1, <1>6, Zenon
    <3> QED
      BY <3>3, <3>4, Zenon
  <2> QED
    BY <2>1, <2>2, Zenon
<1>8. PICK r : /\ r = Appended(cs, buf, k) /\ r = Append(f, x) \o l
               /\ r \in Seq(ChunkNodes) /\ Len(r) = n + 1 + k /\ InARow(r, cs, n, x, l)
  <2>1. Appended(cs, buf, k) = Append(f, x) \o l
    BY <1>1, <1>2, <1>4, <1>7, Zenon DEF Appended, Cut
  <2>2. PICK r : r = Append(f, x) \o l
    OBVIOUS
  <2>3. InARow(r, f, n, x, l)
    <3>1. n = Len(f)
      BY <1>1, Zenon
    <3> QED
      BY <2>2, <3>1, LongerList
  <2>4. InARow(r, cs, n, x, l)
    BY <2>3, <1>1, Zenon DEF InARow
  <2>5. r \in Seq(ChunkNodes) /\ Len(r) = n + 1 + k
    BY <2>3, <1>7, Zenon DEF InARow
  <2> QED
    BY <2>1, <2>2, <2>4, <2>5, Zenon
<1>9. Shape(r) /\ NothingSpent(r)
  <2>1. NodeSize(x) = 0 => NodeSize(t) = 0 /\ x.data = <<>> /\ k = 0
    <3> SUFFICES ASSUME NodeSize(x) = 0 PROVE NodeSize(t) = 0 /\ x.data = <<>> /\ k = 0
      OBVIOUS
    <3>1. NodeSize(t) \in Nat
      BY NodeFacts
    <3>2. NodeSize(t) = 0 /\ m = 0
      BY <3>1, <1>4
    <3>3. t.data = <<>>
      <4>1. Len(cs) \in 1 .. Len(cs)
        BY <1>1
      <4> QED
        BY <4>1, <3>2, <1>1, Zenon DEF NothingSpent
    <3>4. room = CHUNK
      BY <3>3, <1>2 DEF Room
    <3>5. L = 0 /\ k = 0
      BY <3>2, <3>4, <1>3, <1>5
    <3>6. SubSeq(buf, 1, 0) = <<>>
      OBVIOUS
    <3>7. x.data = <<>> \o <<>>
      BY <3>2, <3>3, <3>6, <1>4, Zenon
    <3>8. <<>> \o <<>> = <<>>
      OBVIOUS
    <3> QED
      BY <3>2, <3>5, <3>7, <3>8, Zenon
  <2>2. k # 0 => Room(x) = 0
    BY <1>4, <1>5
  <2>3. t = cs[n + 1] /\ n + 1 = Len(cs) /\ k = Len(l) /\ k \in Nat
    BY <1>1, <1>3, <1>7, Zenon
  <2>4. Grown(cs, n, x, l, k)
    BY <2>1, <2>2, <2>3, <1>4, <1>7, Zenon DEF Grown
  <2> QED
    BY <2>3, <2>4, <1>8, LongerShape
<1>10. ContentOf(r) = ContentOf(cs) \o buf
  <2>1. PICK cf \in Seq(Bytes), wt \in Seq(Bytes) : cf = ContentOf(f) /\ wt = Window(t)
    BY WindowsFacts, NodeFacts
  <2>2. ContentOf(cs) = cf \o wt
    <3>1. <<t>> \in Seq(ChunkNodes) /\ ContentOf(<<t>>) = wt
      BY <2>1, ContentOfOne
    <3>2. PICK u \in Seq(ChunkNodes) : u = <<t>>
      BY <3>1, Zenon
    <3>3. ContentOf(f \o u) = ContentOf(f) \o ContentOf(u)
      BY ContentOfConcat
    <3> QED
      BY <3>1, <3>2, <3>3, <2>1, <1>1, Zenon
  <2>3. PICK a \in Seq(ChunkNodes) : a = Append(f, x) /\ ContentOf(a) = cf \o (wt \o p)
    <3>1. <<x>> \in Seq(ChunkNodes) /\ ContentOf(<<x>>) = Window(x)
      BY ContentOfOne
    <3>2. PICK u \in Seq(ChunkNodes) : u = <<x>>
      BY <3>1, Zenon
    <3>3. f \o u \in Seq(ChunkNodes) /\ ContentOf(f \o u) = ContentOf(f) \o ContentOf(u)
      BY ContentOfConcat
    <3>4. Append(f, x) = f \o <<x>>
      OBVIOUS
    <3>5. ContentOf(u) = wt \o p
      BY <3>1, <3>2, <2>1, <1>4, <1>6, Zenon
    <3> QED
      BY <3>2, <3>3, <3>4, <3>5, <2>1, Zenon
  <2>4. ContentOf(r) = (cf \o (wt \o p)) \o rest
    <3>1. ContentOf(a \o l) = ContentOf(a) \o ContentOf(l)
      BY ContentOfConcat
    <3> QED
      BY <3>1, <2>3, <1>7, <1>8, Zenon
  <2>5. PICK v \in Seq(Bytes) : v = cf \o wt
    BY ConcatProperties
  <2>6. cf \o (wt \o p) = v \o p
    <3>1. cf \o (wt \o p) = (cf \o wt) \o p
      BY <1>0, SMTT(30)
    <3> QED
      BY <3>1, <2>5, Zenon
  <2>7. (v \o p) \o rest = v \o (p \o rest)
    BY <1>0, SMTT(30)
  <2> QED
    BY <2>2, <2>4, <2>5, <2>6, <2>7, <1>6, Zenon
<1>11. Len(r) = Len(cs) + k
  BY <1>1, <1>8, Zenon
<1> QED
  BY <1>3, <1>8, <1>9, <1>10, <1>11, Zenon

(* When memory is short behind j new chunks, they are what the bytes that  *)
(* were written need.                                                      *)
LEMMA PartialFacts ==
  ASSUME CHUNK \in Nat \ {0}, NEW cs \in Seq(ChunkNodes), cs # <<>>, NEW n \in Nat,
         NEW j \in Nat, j < NewChunks(cs, n), NEW wr, wr = Room(cs[Len(cs)]) + j * CHUNK
  PROVE  wr \in Nat /\ wr <= n /\ NewChunks(cs, wr) = j
<1>1. PICK room \in Nat : room = Room(cs[Len(cs)])
  <2>1. cs[Len(cs)] \in ChunkNodes
    BY SplitLast
  <2>2. Room(cs[Len(cs)]) \in Nat
    BY <2>1, NodeFacts
  <2> QED
    BY <2>2, Zenon
<1>2. PICK k : k = NewChunks(cs, n)
  OBVIOUS
<1>3. /\ k \in Nat /\ (n <= room <=> k = 0)
      /\ (n > room => (k - 1) * CHUNK < n - room /\ n - room <= k * CHUNK)
  BY <1>1, <1>2, NewChunksFacts, ZenonT(30)
<1>4. k - 1 \in Nat /\ j <= k - 1 /\ n > room
  BY <1>2, <1>3
<1>5. PICK x \in Nat : x = j * CHUNK /\ x <= (k - 1) * CHUNK
  <2>1. j * CHUNK \in Nat /\ j * CHUNK <= (k - 1) * CHUNK
    BY <1>4, TimesMonotone
  <2> QED
    BY <2>1, Zenon
<1>6. PICK y \in Nat : y = (k - 1) * CHUNK
  BY <1>4, TimesMonotone
<1>7. x <= y /\ y < n - room /\ wr = room + x
  BY <1>1, <1>3, <1>4, <1>5, <1>6, Zenon
<1>8. wr \in Nat /\ wr <= n /\ wr - room = x
  BY <1>7
<1>9. NewChunks(cs, wr) = j
  <2>1. CASE j = 0
    <3>1. x = 0
      BY <2>1, <1>5
    <3>2. wr <= room
      BY <3>1, <1>7
    <3> QED
      BY <2>1, <3>2, <1>1, Zenon DEF NewChunks
  <2>2. CASE j # 0
    <3>1. 1 * CHUNK <= j * CHUNK
      <4>1. 1 <= j
        BY <2>2
      <4> QED
        BY <4>1, TimesMonotone
    <3>4. 1 * CHUNK = CHUNK
      OBVIOUS
    <3>5. CHUNK <= x
      BY <3>1, <3>4, <1>5, Zenon
    <3>2. ~(wr <= room)
      BY <3>5, <1>7
    <3>3. NewChunks(cs, wr) = (x + CHUNK - 1) \div CHUNK
      BY <3>2, <1>1, <1>8, Zenon DEF NewChunks
    <3> QED
      BY <3>3, <1>5, DivisionExact
  <2> QED
    BY <2>1, <2>2, Zenon
<1> QED
  BY <1>8, <1>9, Zenon

-----------------------------------------------------------------------------
(* What chunkq_read takes from the list. *)

(* A set of the numbers up to n that has every number below one it has     *)
LEMMA DownClosed ==
  ASSUME NEW n \in Nat, NEW D, D \subseteq 1 .. n, \A i \in D : \A j \in 1 .. i : j \in D
  PROVE  \E k \in 0 .. n : D = 1 .. k /\ Cardinality(D) = k
<1>1. \A k \in 0 .. n : Cardinality(1 .. k) = k
  <2> SUFFICES ASSUME NEW k \in 0 .. n PROVE Cardinality(1 .. k) = k
    OBVIOUS
  <2>1. 1 \in Int /\ k \in Int
    OBVIOUS
  <2>2. Cardinality(1 .. k) = IF 1 > k THEN 0 ELSE k - 1 + 1
    BY <2>1, FS_Interval
  <2> QED
    BY <2>2
<1>2. CASE D = 1 .. n
  <2>1. n \in 0 .. n
    OBVIOUS
  <2> QED
    BY <1>1, <1>2, <2>1, Zenon
<1>3. CASE D # 1 .. n
  <2> DEFINE B == (1 .. n) \ D
  <2>0. 1 .. n \subseteq Nat
    OBVIOUS
  <2>1. B # {} /\ B \subseteq Nat
    BY <1>3, <2>0, Zenon
  <2>2. PICK b \in B : \A y \in B : b <= y
    <3> HIDE DEF B
    <3> QED
      BY <2>1, LeastNumber
  <2>3. b \in 1 .. n /\ b \notin D
    OBVIOUS
  <2>4. PICK k \in 0 .. n : b = k + 1
    <3>1. b - 1 \in 0 .. n /\ b = (b - 1) + 1
      BY <2>3
    <3> QED
      BY <3>1, Zenon
  <2>5. D = 1 .. k
    <3>1. ASSUME NEW i \in D PROVE i \in 1 .. k
      <4>1. i \in 1 .. n
        OBVIOUS
      <4>2. ~(b <= i)
        <5> SUFFICES ASSUME b <= i PROVE FALSE
          OBVIOUS
        <5>1. b \in 1 .. i
          BY <2>3, <4>1
        <5> QED
          BY <5>1, <2>3, Zenon
      <4> QED
        BY <2>3, <2>4, <4>1, <4>2
    <3>2. ASSUME NEW i \in 1 .. k PROVE i \in D
      <4>1. i \in 1 .. n /\ ~(b <= i)
        BY <2>4
      <4>2. i \notin B
        <5> HIDE DEF B
        <5> QED
          BY <2>2, <4>1, Zenon
      <4> QED
        BY <4>1, <4>2
    <3> QED
      BY <3>1, <3>2
  <2> QED
    BY <1>1, <2>5, Zenon
<1> QED
  BY <1>2, <1>3, Zenon

LEMMA BytesFacts ==
  ASSUME CHUNK \in Nat \ {0}, chunks \in Seq(ChunkNodes), NEW i \in Nat, i <= Len(chunks)
  PROVE  /\ SubSeq(chunks, 1, i) \in Seq(ChunkNodes)
         /\ BytesUpTo(i) = Len(ContentOf(SubSeq(chunks, 1, i))) /\ BytesUpTo(i) \in Nat
<1>1. PICK u \in Seq(ChunkNodes) :
         u = SubSeq(chunks, 1, i) /\ Len(u) = i /\ \A j \in 1 .. i : u[j] = chunks[j]
  <2>1. /\ SubSeq(chunks, 1, i) \in Seq(ChunkNodes) /\ Len(SubSeq(chunks, 1, i)) = i
        /\ \A j \in 1 .. i : SubSeq(chunks, 1, i)[j] = chunks[j]
    BY PrefixFacts
  <2> QED
    BY <2>1, Zenon
<1>2. [j \in 1 .. Len(u) |-> Window(u[j])] = [j \in 1 .. i |-> Window(chunks[j])]
  BY <1>1, Zenon
<1>3. BytesUpTo(i) = Len(ContentOf(u))
  BY <1>2, Zenon DEF BytesUpTo, ContentOf
<1>4. ContentOf(u) \in Seq(Bytes)
  BY WindowsFacts
<1>5. Len(ContentOf(u)) \in Nat
  BY <1>4
<1> QED
  BY <1>1, <1>3, <1>5, Zenon

LEMMA NoBytes ==
  BytesUpTo(0) = 0
<1>1. [j \in 1 .. 0 |-> Window(chunks[j])] = <<>>
  OBVIOUS
<1>2. <<>> \in Seq(Seq(Bytes))
  OBVIOUS
<1>3. FlattenSeq(<<>>) = <<>>
  BY <1>2, FlattenType
<1>4. Len(<<>>) = 0
  OBVIOUS
<1> QED
  BY <1>1, <1>3, <1>4, Zenon DEF BytesUpTo

LEMMA BytesGrow ==
  ASSUME CHUNK \in Nat \ {0}, chunks \in Seq(ChunkNodes),
         NEW i \in Nat, NEW j \in Nat, i <= j, j <= Len(chunks)
  PROVE  BytesUpTo(i) <= BytesUpTo(j)
<1>1. i <= Len(chunks)
  <2>1. Len(chunks) \in Nat
    OBVIOUS
  <2> QED
    BY <2>1
<1>2. PICK u \in Seq(ChunkNodes), v \in Seq(ChunkNodes), w \in Seq(ChunkNodes) :
         /\ u = SubSeq(chunks, 1, i) /\ v = SubSeq(chunks, 1, j) /\ v = u \o w
  <2>1. /\ SubSeq(chunks, 1, i) \in Seq(ChunkNodes) /\ SubSeq(chunks, 1, j) \in Seq(ChunkNodes)
    BY <1>1, BytesFacts
  <2>2. /\ SubSeq(chunks, i + 1, j) \in Seq(ChunkNodes)
        /\ SubSeq(chunks, 1, j) = SubSeq(chunks, 1, i) \o SubSeq(chunks, i + 1, j)
    BY CutInTwo
  <2> QED
    BY <2>1, <2>2, Zenon
<1>3. BytesUpTo(i) = Len(ContentOf(u)) /\ BytesUpTo(j) = Len(ContentOf(v))
  BY <1>1, <1>2, BytesFacts
<1>4. ContentOf(v) = ContentOf(u) \o ContentOf(w)
  <2>1. ContentOf(u \o w) = ContentOf(u) \o ContentOf(w)
    BY ContentOfConcat
  <2> QED
    BY <2>1, <1>2, Zenon
<1>5. PICK a \in Seq(Bytes), b \in Seq(Bytes) : a = ContentOf(u) /\ b = ContentOf(w)
  BY WindowsFacts
<1>6. Len(a \o b) = Len(a) + Len(b) /\ Len(a) \in Nat /\ Len(b) \in Nat
  OBVIOUS
<1>7. BytesUpTo(j) = Len(a) + Len(b) /\ BytesUpTo(i) = Len(a)
  BY <1>3, <1>4, <1>5, <1>6, Zenon
<1> QED
  BY <1>6, <1>7

LEMMA BytesStep ==
  ASSUME CHUNK \in Nat \ {0}, chunks \in Seq(ChunkNodes), NEW i \in Nat, i + 1 <= Len(chunks)
  PROVE  BytesUpTo(i + 1) = BytesUpTo(i) + NodeSize(chunks[i + 1])
<1>1. /\ i <= Len(chunks) /\ i <= i + 1 /\ i + 1 \in Nat /\ i + 1 \in 1 .. Len(chunks)
      /\ chunks[i + 1] \in ChunkNodes
  <2>1. Len(chunks) \in Nat /\ \A j \in 1 .. Len(chunks) : chunks[j] \in ChunkNodes
    OBVIOUS
  <2> QED
    BY <2>1
<1>2. PICK u \in Seq(ChunkNodes), v \in Seq(ChunkNodes), c \in ChunkNodes, w \in Seq(ChunkNodes) :
         /\ u = SubSeq(chunks, 1, i) /\ v = SubSeq(chunks, 1, i + 1) /\ c = chunks[i + 1]
         /\ w = <<c>> /\ v = u \o w
  <2>1. SubSeq(chunks, 1, i) \in Seq(ChunkNodes) /\ SubSeq(chunks, 1, i + 1) \in Seq(ChunkNodes)
    BY <1>1, BytesFacts
  <2>2. SubSeq(chunks, 1, i + 1) = SubSeq(chunks, 1, i) \o SubSeq(chunks, i + 1, i + 1)
    <3>1. PICK j \in Nat : j = i + 1 /\ i <= j /\ j <= Len(chunks)
      BY <1>1, Zenon
    <3>2. SubSeq(chunks, 1, j) = SubSeq(chunks, 1, i) \o SubSeq(chunks, i + 1, j)
      <4>1. i <= j /\ j <= Len(chunks)
        BY <3>1, Zenon
      <4> QED
        BY <4>1, CutInTwo
    <3> QED
      BY <3>1, <3>2, Zenon
  <2>3. SubSeq(chunks, i + 1, i + 1) = <<chunks[i + 1]>>
    <3>1. PICK m \in 1 .. Len(chunks) : m = i + 1
      BY <1>1, Zenon
    <3>2. SubSeq(chunks, m, m) = <<chunks[m]>>
      BY PieceOfOne
    <3> QED
      BY <3>1, <3>2, Zenon
  <2>4. <<chunks[i + 1]>> \in Seq(ChunkNodes)
    BY <1>1
  <2> QED
    BY <1>1, <2>1, <2>2, <2>3, <2>4, Zenon
<1>3. BytesUpTo(i) = Len(ContentOf(u)) /\ BytesUpTo(i + 1) = Len(ContentOf(v))
  BY <1>1, <1>2, BytesFacts
<1>4. ContentOf(v) = ContentOf(u) \o ContentOf(w)
  <2>1. ContentOf(u \o w) = ContentOf(u) \o ContentOf(w)
    BY ContentOfConcat
  <2> QED
    BY <2>1, <1>2, Zenon
<1>5. ContentOf(w) = Window(c) /\ Window(c) \in Seq(Bytes) /\ Len(Window(c)) = NodeSize(c)
  BY <1>2, ContentOfOne, NodeFacts
<1>6. PICK a \in Seq(Bytes), b \in Seq(Bytes) : a = ContentOf(u) /\ b = Window(c)
  BY <1>5, WindowsFacts
<1>7. Len(a \o b) = Len(a) + Len(b)
  OBVIOUS
<1> QED
  BY <1>2, <1>3, <1>4, <1>5, <1>6, <1>7, Zenon

(* A chunk of which d bytes more, and not all, have been read. *)
Advanced(c, d) == [c EXCEPT !.offset = @ + d]

LEMMA AdvancedFacts ==
  ASSUME CHUNK \in Nat \ {0}, NEW c \in ChunkNodes, NEW d \in Nat, d < NodeSize(c)
  PROVE  /\ Advanced(c, d) \in ChunkNodes /\ NodeSize(Advanced(c, d)) # 0
         /\ Room(Advanced(c, d)) = Room(c)
         /\ Window(Advanced(c, d)) = SubSeq(Window(c), d + 1, Len(Window(c)))
<1>1. PICK o \in Nat, t \in Seq(Bytes), L \in Nat :
         /\ o = c.offset /\ t = c.data /\ L = Len(t) /\ o <= L /\ L <= CHUNK
  <2>1. /\ c.offset \in Nat /\ c.data \in Seq(Bytes) /\ Len(c.data) \in Nat
        /\ c.offset <= Len(c.data) /\ Len(c.data) <= CHUNK
    BY NodeFacts
  <2> QED
    BY <2>1, Zenon
<1>2. c = [offset |-> o, data |-> t]
  BY <1>1 DEF ChunkNodes
<1>3. o + d \in Nat /\ o + d <= L /\ L - (o + d) # 0
  <2>1. d < L - o
    BY <1>1, Zenon DEF NodeSize
  <2> QED
    BY <1>1, <2>1
<1>4. PICK x : x = Advanced(c, d) /\ x = [offset |-> o + d, data |-> t] /\ x.offset = o + d /\ x.data = t
  <2>1. [c EXCEPT !.offset = @ + d] = [offset |-> o + d, data |-> t]
    BY <1>2
  <2>2. [offset |-> o + d, data |-> t].offset = o + d /\ [offset |-> o + d, data |-> t].data = t
    OBVIOUS
  <2> QED
    BY <2>1, <2>2, Zenon DEF Advanced
<1>5. x \in ChunkNodes
  <2>1. x \in [offset : Nat, data : Seq(Bytes)]
    BY <1>3, <1>4
  <2>2. x.offset <= Len(x.data) /\ Len(x.data) <= CHUNK
    BY <1>1, <1>3, <1>4, Zenon
  <2> QED
    BY <2>1, <2>2, Zenon DEF ChunkNodes
<1>6. NodeSize(x) # 0 /\ Room(x) = Room(c)
  BY <1>1, <1>3, <1>4, Zenon DEF NodeSize, Room
<1>7. Window(x) = SubSeq(Window(c), d + 1, Len(Window(c)))
  <2>1. o <= L /\ L <= Len(t)
    BY <1>1
  <2>2. /\ SubSeq(t, 1, o) \in Seq(Bytes) /\ Len(SubSeq(t, 1, o)) = o
        /\ SubSeq(t, o + 1, L) \in Seq(Bytes) /\ Len(SubSeq(t, o + 1, L)) = L - o
        /\ SubSeq(t, 1, L) = SubSeq(t, 1, o) \o SubSeq(t, o + 1, L)
    BY <2>1, CutInTwo
  <2>3. SubSeq(t, 1, L) = t
    BY <1>1, SubSeqFull
  <2>4. PICK p \in Seq(Bytes), w \in Seq(Bytes) :
           p = SubSeq(t, 1, o) /\ w = SubSeq(t, o + 1, L) /\ t = p \o w /\ Len(p) = o /\ Len(w) = L - o
    BY <2>2, <2>3, Zenon
  <2>5. d <= Len(w)
    <3>1. d <= L - o
      BY <1>1, <1>3
    <3> QED
      BY <3>1, <2>4, Zenon
  <2>6. SubSeq(p \o w, Len(p) + d + 1, Len(p \o w)) = SubSeq(w, d + 1, Len(w))
    BY <2>5, RestPastFirst
  <2>7. Window(x) = SubSeq(t, o + d + 1, Len(t)) /\ Window(c) = w
    BY <2>4, <1>1, <1>4, Zenon DEF Window
  <2> QED
    BY <2>4, <2>6, <2>7, Zenon
<1> QED
  BY <1>4, <1>5, <1>6, <1>7, Zenon

(* The drained chunks are the first ones. *)
LEMMA DrainedFacts ==
  ASSUME CHUNK \in Nat \ {0}, chunks \in Seq(ChunkNodes), NEW rd \in Nat,
         NEW k, k = Cardinality(Drained(rd))
  PROVE  /\ k \in Nat /\ k <= Len(chunks) /\ BytesUpTo(k) <= rd
         /\ (k < Len(chunks) => rd < BytesUpTo(k + 1))
<1>1. PICK n \in Nat : n = Len(chunks)
  OBVIOUS
<1>2. \A i \in Nat : i <= n => BytesUpTo(i) \in Nat
  BY <1>1, BytesFacts
<1>3. \A i, j \in Nat : i <= j /\ j <= n => BytesUpTo(i) <= BytesUpTo(j)
  BY <1>1, BytesGrow
<1>4. PICK D : D = Drained(rd)
  OBVIOUS
<1>5. \A i : i \in D <=> i \in 1 .. n /\ BytesUpTo(i) <= rd
  BY <1>1, <1>4, Zenon DEF Drained
<1>6. D \subseteq 1 .. n
  BY <1>5, Zenon
<1>7. \A i \in D : \A j \in 1 .. i : j \in D
  <2> SUFFICES ASSUME NEW i \in D, NEW j \in 1 .. i PROVE j \in D
    OBVIOUS
  <2>1. i \in 1 .. n /\ BytesUpTo(i) <= rd
    BY <1>5, Zenon
  <2>2. j \in 1 .. n /\ j \in Nat /\ i \in Nat /\ j <= i /\ i <= n /\ j <= n
    BY <2>1
  <2>3. BytesUpTo(j) <= BytesUpTo(i) /\ BytesUpTo(j) \in Nat /\ BytesUpTo(i) \in Nat
    BY <2>2, <1>2, <1>3, Zenon
  <2>4. BytesUpTo(j) <= rd
    BY <2>1, <2>3
  <2> QED
    BY <2>2, <2>4, <1>5, Zenon
<1>8. D = 1 .. k /\ k \in 0 .. n
  <2>1. \E h \in 0 .. n : D = 1 .. h /\ Cardinality(D) = h
    BY <1>6, <1>7, DownClosed
  <2> QED
    BY <2>1, <1>4, Zenon
<1>9. k \in Nat /\ k <= n
  BY <1>8
<1>10. BytesUpTo(k) <= rd
  <2>1. CASE k = 0
    <3>1. BytesUpTo(0) = 0
      BY NoBytes
    <3> QED
      BY <2>1, <3>1
  <2>2. CASE k # 0
    <3>1. k \in 1 .. k
      BY <2>2, <1>9
    <3> QED
      BY <3>1, <1>5, <1>8, Zenon
  <2> QED
    BY <2>1, <2>2, Zenon
<1>11. ASSUME k < n PROVE rd < BytesUpTo(k + 1)
  <2>1. k + 1 \in 1 .. n /\ k + 1 \notin 1 .. k /\ k + 1 \in Nat /\ k + 1 <= n
    BY <1>9, <1>11
  <2>2. ~(BytesUpTo(k + 1) <= rd) /\ BytesUpTo(k + 1) \in Nat
    BY <2>1, <1>2, <1>5, <1>8, Zenon
  <2> QED
    BY <2>2
<1> QED
  BY <1>1, <1>9, <1>10, <1>11, Zenon

(* What a read of rd bytes that drains k chunks leaves. *)
LeftOver(cs, k, rd) ==
  /\ cs \in Seq(ChunkNodes) /\ Len(cs) = Len(chunks) - k
  /\ Shape(cs) /\ NothingSpent(cs)
  /\ ContentOf(cs) = SubSeq(Content, rd + 1, Len(Content))

LEMMA ContentIs ==
  ASSUME CHUNK \in Nat \ {0}, chunks \in Seq(ChunkNodes)
  PROVE  Content = ContentOf(chunks) /\ Content \in Seq(Bytes) /\ Len(Content) = BytesUpTo(Len(chunks))
<1>1. Content = ContentOf(chunks)
  BY Zenon DEF Content, ContentOf
<1>2. ContentOf(chunks) \in Seq(Bytes)
  BY WindowsFacts
<1>3. Len(Content) = BytesUpTo(Len(chunks))
  BY Zenon DEF Content, BytesUpTo
<1> QED
  BY <1>1, <1>2, <1>3, Zenon

LEMMA ReadAll ==
  ASSUME CHUNK \in Nat \ {0}, chunks \in Seq(ChunkNodes), NEW rd \in Nat, rd = Len(Content)
  PROVE  LeftOver(Remaining(Len(chunks), rd), Len(chunks), rd)
<1>1. PICK n \in Nat : n = Len(chunks)
  OBVIOUS
<1>2. Remaining(n, rd) = <<>>
  <2>1. n - n = 0 /\ 1 .. 0 = {}
    OBVIOUS
  <2>2. Remaining(n, rd) = [i \in {} |-> LET c == chunks[n + i] IN IF i = 1 THEN [c EXCEPT !.offset = @ + (rd - BytesUpTo(n))] ELSE c]
    BY <1>1, <2>1, Zenon DEF Remaining
  <2> QED
    BY <2>2
<1>3. <<>> \in Seq(ChunkNodes) /\ Len(<<>>) = 0 /\ n - n = 0
  OBVIOUS
<1>4. Shape(<<>>) /\ NothingSpent(<<>>)
  BY DEF Shape, NothingSpent
<1>5. SubSeq(Content, rd + 1, Len(Content)) = <<>>
  <2>1. Content \in Seq(Bytes)
    BY ContentIs
  <2>2. PICK x \in Seq(Bytes) : x = Content
    BY <2>1, Zenon
  <2>3. rd <= Len(x)
    BY <2>2
  <2>4. /\ SubSeq(x, rd + 1, Len(x)) \in Seq(Bytes)
        /\ Len(SubSeq(x, rd + 1, Len(x))) = Len(x) - rd
    BY <2>3, SuffixFacts
  <2>5. Len(x) - rd = 0
    BY <2>2
  <2>6. PICK y \in Seq(Bytes) : y = SubSeq(x, rd + 1, Len(x)) /\ Len(y) = 0
    BY <2>4, <2>5, Zenon
  <2>7. y = <<>>
    BY <2>6
  <2> QED
    BY <2>2, <2>6, <2>7, Zenon
<1>6. ContentOf(<<>>) = <<>>
  BY ContentOfNone
<1> QED
  BY <1>1, <1>2, <1>3, <1>4, <1>5, <1>6, Zenon DEF LeftOver

LEMMA ReadPart ==
  ASSUME CHUNK \in Nat \ {0}, chunks \in Seq(ChunkNodes), Shape(chunks),
         NEW k \in Nat, k < Len(chunks), NEW rd \in Nat,
         BytesUpTo(k) <= rd, rd < BytesUpTo(k + 1)
  PROVE  LeftOver(Remaining(k, rd), k, rd)
<1>0. \A u, v, w \in Seq(Bytes) : u \o (v \o w) = (u \o v) \o w
  BY ConcatThree, SMTT(30)
<1>1. PICK n \in Nat, j \in Nat : n = Len(chunks) /\ j = k + 1 /\ k <= n /\ j <= n /\ k <= j /\ j \in 1 .. n
  <2>1. Len(chunks) \in Nat
    OBVIOUS
  <2>2. k + 1 \in Nat /\ k <= Len(chunks) /\ k + 1 <= Len(chunks) /\ k <= k + 1 /\ k + 1 \in 1 .. Len(chunks)
    BY <2>1
  <2> QED
    BY <2>1, <2>2, Zenon
<1>2. PICK c \in ChunkNodes : c = chunks[j]
  <2>1. \A i \in 1 .. Len(chunks) : chunks[i] \in ChunkNodes
    OBVIOUS
  <2> QED
    BY <2>1, <1>1, Zenon
<1>3. PICK e \in Nat, d \in Nat : e = BytesUpTo(k) /\ d = rd - e /\ rd = e + d /\ d < NodeSize(c)
  <2>1. BytesUpTo(k) \in Nat
    BY <1>1, BytesFacts
  <2>2. BytesUpTo(k + 1) = BytesUpTo(k) + NodeSize(chunks[k + 1])
    BY <1>1, BytesStep
  <2>3. NodeSize(c) \in Nat
    BY NodeFacts
  <2>4. PICK e \in Nat, m \in Nat : e = BytesUpTo(k) /\ m = NodeSize(c) /\ e <= rd /\ rd < e + m
    BY <2>1, <2>2, <2>3, <1>1, <1>2, Zenon
  <2>5. rd - e \in Nat /\ rd = e + (rd - e) /\ rd - e < m
    BY <2>4
  <2> QED
    BY <2>4, <2>5, Zenon
<1>4. PICK x \in ChunkNodes : /\ x = Advanced(c, d) /\ NodeSize(x) # 0 /\ Room(x) = Room(c)
                              /\ Window(x) = SubSeq(Window(c), d + 1, Len(Window(c)))
  <2>1. /\ Advanced(c, d) \in ChunkNodes /\ NodeSize(Advanced(c, d)) # 0
        /\ Room(Advanced(c, d)) = Room(c)
        /\ Window(Advanced(c, d)) = SubSeq(Window(c), d + 1, Len(Window(c)))
    BY <1>3, AdvancedFacts
  <2> QED
    BY <2>1, Zenon
<1>5. PICK r : r = Remaining(k, rd)
  OBVIOUS
<1>6. PICK m \in Nat : m = n - j /\ n - k = m + 1 /\ Len(chunks) - k = m + 1
  <2>1. n - j \in Nat /\ n - k = (n - j) + 1
    BY <1>1
  <2> QED
    BY <2>1, <1>1, Zenon
<1>7. r[1] = x /\ \A i \in 1 .. m : r[i + 1] = chunks[j + i]
  <2>1. r = [i \in 1 .. m + 1 |-> LET a == chunks[k + i]
                                  IN IF i = 1 THEN [a EXCEPT !.offset = @ + (rd - BytesUpTo(k))] ELSE a]
    BY <1>5, <1>6, Zenon DEF Remaining
  <2>2. 1 \in 1 .. m + 1
    OBVIOUS
  <2>3. r[1] = [c EXCEPT !.offset = @ + d]
    <3>1. r[1] = [chunks[k + 1] EXCEPT !.offset = @ + (rd - BytesUpTo(k))]
      BY <2>1, <2>2
    <3> QED
      BY <3>1, <1>1, <1>2, <1>3
  <2>4. ASSUME NEW i \in 1 .. m PROVE r[i + 1] = chunks[j + i]
    <3>1. i + 1 \in 1 .. m + 1 /\ i + 1 # 1 /\ k + (i + 1) = j + i
      BY <1>1
    <3>2. r[i + 1] = chunks[k + (i + 1)]
      BY <3>1, <2>1, Zenon
    <3> QED
      BY <3>1, <3>2, Zenon
  <2> QED
    BY <2>3, <2>4, <1>4, Zenon DEF Advanced
<1>8. \A i \in 1 .. m : j + i \in 2 .. n /\ j + i \in 1 .. n /\ (i < m => j + i \in 1 .. n - 1)
  BY <1>1, <1>6
<1>9. r \in Seq(ChunkNodes) /\ Len(r) = m + 1
  <2>1. \A i \in 1 .. m + 1 : i = 1 \/ (i - 1 \in 1 .. m /\ i = (i - 1) + 1)
    OBVIOUS
  <2>2. \A i \in 1 .. n : chunks[i] \in ChunkNodes
    BY <1>1
  <2>3. \A i \in 1 .. m + 1 : r[i] \in ChunkNodes
    BY <2>1, <2>2, <1>7, <1>8, ZenonT(40)
  <2>4. PICK g : r = [i \in 1 .. m + 1 |-> g[i]]
    <3>1. r = [i \in 1 .. m + 1 |-> r[i]]
      BY <1>5, <1>6, Zenon DEF Remaining
    <3> QED
      BY <3>1, Zenon
  <2>5. r \in [1 .. m + 1 -> ChunkNodes] /\ m + 1 \in Nat
    BY <2>3, <2>4
  <2> QED
    BY <2>5
<1>10. Shape(r) /\ NothingSpent(r)
  <2>0. /\ \A i \in 2 .. n : chunks[i].offset = 0
        /\ \A i \in 1 .. n - 1 : Room(chunks[i]) = 0
        /\ \A i \in 1 .. n : NodeSize(chunks[i]) = 0 => n = 1
    BY <1>1, Zenon DEF Shape
  <2>1. \A i \in 1 .. m : r[i + 1].offset = 0
    BY <2>0, <1>7, <1>8, Zenon
  <2>2. \A i \in 1 .. m + 1 : NodeSize(r[i]) # 0
    <3> SUFFICES ASSUME NEW i \in 1 .. m + 1 PROVE NodeSize(r[i]) # 0
      OBVIOUS
    <3>1. CASE i = 1
      BY <3>1, <1>4, <1>7, Zenon
    <3>2. CASE i # 1
      <4>1. PICK h \in 1 .. m : i = h + 1
        <5>1. i - 1 \in 1 .. m /\ i = (i - 1) + 1
          BY <3>2
        <5> QED
          BY <5>1, Zenon
      <4>2. r[i] = chunks[j + h] /\ j + h \in 1 .. n /\ j + h \in 2 .. n
        BY <4>1, <1>7, <1>8, Zenon
      <4>3. n # 1
        BY <4>2
      <4> QED
        BY <4>2, <4>3, <2>0, Zenon
    <3> QED
      BY <3>1, <3>2, Zenon
  <2>3. \A i \in 1 .. m : Room(r[i]) = 0
    <3> SUFFICES ASSUME NEW i \in 1 .. m PROVE Room(r[i]) = 0
      OBVIOUS
    <3>1. CASE i = 1
      <4>1. j \in 1 .. n - 1
        BY <3>1, <1>1, <1>6
      <4> QED
        BY <3>1, <4>1, <2>0, <1>2, <1>4, <1>7, Zenon
    <3>2. CASE i # 1
      <4>1. PICK h \in 1 .. m : i = h + 1 /\ h < m
        <5>1. i - 1 \in 1 .. m /\ i = (i - 1) + 1 /\ i - 1 < m
          BY <3>2
        <5> QED
          BY <5>1, Zenon
      <4>2. r[i] = chunks[j + h] /\ j + h \in 1 .. n - 1
        BY <4>1, <1>7, <1>8, Zenon
      <4> QED
        BY <4>2, <2>0, Zenon
    <3> QED
      BY <3>1, <3>2, Zenon
  <2>4. (m + 1) - 1 = m /\ \A i \in 2 .. m + 1 : i - 1 \in 1 .. m /\ i = (i - 1) + 1
    OBVIOUS
  <2>5. \A i \in 2 .. m + 1 : r[i].offset = 0
    BY <2>1, <2>4, Zenon
  <2> QED
    BY <2>2, <2>3, <2>4, <2>5, <1>9, Zenon DEF Shape, NothingSpent
<1>11. PICK t \in Seq(ChunkNodes), u \in Seq(ChunkNodes), v \in Seq(ChunkNodes) :
          /\ t = SubSeq(chunks, j + 1, n) /\ u = SubSeq(chunks, 1, k) /\ v = SubSeq(chunks, 1, j)
          /\ chunks = v \o t /\ v = u \o <<c>>
          /\ Len(t) = m /\ \A i \in 1 .. m : t[i] = chunks[j + i]
  <2>1. /\ SubSeq(chunks, j + 1, n) \in Seq(ChunkNodes) /\ SubSeq(chunks, 1, j) \in Seq(ChunkNodes)
        /\ SubSeq(chunks, 1, n) = SubSeq(chunks, 1, j) \o SubSeq(chunks, j + 1, n)
    <3>1. j <= n /\ n <= Len(chunks)
      BY <1>1
    <3> QED
      BY <3>1, CutInTwo
  <2>2. SubSeq(chunks, 1, n) = chunks
    BY <1>1, SubSeqFull
  <2>3. /\ SubSeq(chunks, 1, k) \in Seq(ChunkNodes)
        /\ SubSeq(chunks, 1, j) = SubSeq(chunks, 1, k) \o SubSeq(chunks, k + 1, j)
    <3>1. k <= j /\ j <= Len(chunks)
      BY <1>1
    <3> QED
      BY <3>1, CutInTwo
  <2>4. SubSeq(chunks, k + 1, j) = <<c>>
    <3>1. j \in 1 .. Len(chunks)
      BY <1>1, Zenon
    <3>2. SubSeq(chunks, j, j) = <<chunks[j]>>
      BY <3>1, PieceOfOne
    <3> QED
      BY <3>2, <1>1, <1>2, Zenon
  <2>5. /\ Len(SubSeq(chunks, j + 1, Len(chunks))) = Len(chunks) - j
        /\ \A i \in 1 .. Len(chunks) - j : SubSeq(chunks, j + 1, Len(chunks))[i] = chunks[j + i]
    <3>1. j <= Len(chunks)
      BY <1>1, Zenon
    <3> QED
      BY <3>1, SuffixFacts
  <2>6. PICK t \in Seq(ChunkNodes), u \in Seq(ChunkNodes), v \in Seq(ChunkNodes) :
           t = SubSeq(chunks, j + 1, n) /\ u = SubSeq(chunks, 1, k) /\ v = SubSeq(chunks, 1, j)
    BY <2>1, <2>3, Zenon
  <2>7. Len(t) = m /\ \A i \in 1 .. m : t[i] = chunks[j + i]
    <3>1. Len(chunks) - j = m /\ t = SubSeq(chunks, j + 1, Len(chunks))
      BY <2>6, <1>1, <1>6, Zenon
    <3> QED
      BY <3>1, <2>5, Zenon
  <2>8. chunks = v \o t /\ v = u \o <<c>>
    BY <2>1, <2>2, <2>3, <2>4, <2>6, Zenon
  <2> QED
    BY <2>6, <2>7, <2>8, Zenon
<1>12. PICK h \in Seq(ChunkNodes) : h = <<x>> /\ r = h \o t
  <2>1. <<x>> \in Seq(ChunkNodes)
    BY ContentOfOne
  <2>2. PICK h \in Seq(ChunkNodes) : h = <<x>> /\ Len(h) = 1 /\ h[1] = x
    <3>1. Len(<<x>>) = 1 /\ <<x>>[1] = x
      OBVIOUS
    <3> QED
      BY <2>1, <3>1, Zenon
  <2>3. PICK z \in Seq(ChunkNodes) :
           /\ z = h \o t /\ Len(z) = 1 + m
           /\ \A i \in 1 .. 1 + m : z[i] = IF i <= 1 THEN h[i] ELSE t[i - 1]
    <3>1. /\ h \o t \in Seq(ChunkNodes) /\ Len(h \o t) = Len(h) + Len(t)
          /\ \A i \in 1 .. Len(h) + Len(t) : (h \o t)[i] = IF i <= Len(h) THEN h[i] ELSE t[i - Len(h)]
      BY ConcatProperties
    <3> QED
      BY <2>2, <3>1, <1>11, ZenonT(30)
  <2>4. ASSUME NEW i \in 1 .. m + 1 PROVE z[i] = r[i]
    <3>0. i \in 1 .. 1 + m
      OBVIOUS
    <3>1. CASE i = 1
      <4>1. 1 <= 1
        OBVIOUS
      <4> QED
        BY <3>0, <3>1, <4>1, <2>2, <2>3, <1>7, Zenon
    <3>2. CASE i # 1
      <4>1. PICK g \in 1 .. m : g = i - 1 /\ i = g + 1 /\ ~(i <= 1)
        <5>1. i - 1 \in 1 .. m /\ i = (i - 1) + 1 /\ ~(i <= 1)
          BY <3>2
        <5> QED
          BY <5>1, Zenon
      <4>2. z[i] = t[g]
        BY <3>0, <4>1, <2>3, Zenon
      <4> QED
        BY <4>1, <4>2, <1>7, <1>11, Zenon
    <3> QED
      BY <3>1, <3>2, Zenon
  <2>5. Len(z) = Len(r) /\ \A i \in 1 .. Len(r) : z[i] = r[i]
    <3>1. 1 + m = m + 1
      OBVIOUS
    <3> QED
      BY <3>1, <2>3, <2>4, <1>9, Zenon
  <2>6. z = r
    BY <2>5, <1>9, SeqEqual
  <2> QED
    BY <2>2, <2>3, <2>6, Zenon
<1>13. PICK ca \in Seq(Bytes), cw \in Seq(Bytes), ct \in Seq(Bytes) :
          /\ ca = ContentOf(u) /\ cw = Window(c) /\ ct = ContentOf(t)
          /\ Len(ca) = e /\ Len(cw) = NodeSize(c)
  <2>1. ContentOf(u) \in Seq(Bytes) /\ ContentOf(t) \in Seq(Bytes)
    BY WindowsFacts
  <2>2. Window(c) \in Seq(Bytes) /\ Len(Window(c)) = NodeSize(c)
    BY NodeFacts
  <2>3. BytesUpTo(k) = Len(ContentOf(u))
    BY <1>1, <1>11, BytesFacts
  <2> QED
    BY <2>1, <2>2, <2>3, <1>3, Zenon
<1>14. PICK b \in Seq(Bytes) : b = cw \o ct /\ Len(b) = Len(cw) + Len(ct)
  <2>1. cw \o ct \in Seq(Bytes) /\ Len(cw \o ct) = Len(cw) + Len(ct)
    BY ConcatProperties
  <2> QED
    BY <2>1, Zenon
<1>15. Content = ca \o b
  <2>1. PICK g \in Seq(ChunkNodes) : g = <<c>> /\ ContentOf(g) = cw
    <3>1. <<c>> \in Seq(ChunkNodes) /\ ContentOf(<<c>>) = Window(c)
      BY ContentOfOne
    <3> QED
      BY <3>1, <1>13, Zenon
  <2>2. ContentOf(u \o g) = ContentOf(u) \o ContentOf(g)
    BY ContentOfConcat
  <2>3. ContentOf(v \o t) = ContentOf(v) \o ContentOf(t)
    BY ContentOfConcat
  <2>4. Content = (ca \o cw) \o ct
    BY <2>1, <2>2, <2>3, <1>11, <1>13, Zenon DEF Content, ContentOf
  <2>5. ca \o (cw \o ct) = (ca \o cw) \o ct
    BY <1>0
  <2> QED
    BY <2>4, <2>5, <1>14, Zenon
<1>16. SubSeq(ca \o b, Len(ca) + d + 1, Len(ca \o b)) = SubSeq(b, d + 1, Len(b))
  <2>1. d <= Len(b)
    <3>1. Len(cw) \in Nat /\ Len(ct) \in Nat /\ d < Len(cw)
      BY <1>3, <1>13
    <3> QED
      BY <3>1, <1>14
  <2> QED
    BY <2>1, RestPastFirst
<1>17. SubSeq(cw \o ct, d + 1, Len(cw \o ct)) = SubSeq(cw, d + 1, Len(cw)) \o ct
  <2>1. d <= Len(cw)
    <3>1. Len(cw) \in Nat /\ d < Len(cw)
      BY <1>3, <1>13
    <3> QED
      BY <3>1
  <2> QED
    BY <2>1, RestOfConcat, ZenonT(30)
<1>18. ContentOf(r) = SubSeq(Content, rd + 1, Len(Content))
  <2>1. ContentOf(h \o t) = ContentOf(h) \o ContentOf(t)
    BY ContentOfConcat
  <2>2. ContentOf(h) = Window(x)
    BY <1>12, ContentOfOne
  <2>3. ContentOf(r) = SubSeq(cw, d + 1, Len(cw)) \o ct
    BY <2>1, <2>2, <1>4, <1>12, <1>13, Zenon
  <2>4. Len(ca) + d + 1 = rd + 1
    BY <1>3, <1>13, Zenon
  <2> QED
    BY <2>3, <2>4, <1>14, <1>15, <1>16, <1>17, Zenon
<1> QED
  BY <1>5, <1>6, <1>9, <1>10, <1>18, Zenon DEF LeftOver

(* A read of nothing leaves the list alone, *)
LEMMA ReadNothing ==
  ASSUME CHUNK \in Nat \ {0}, chunks \in Seq(ChunkNodes), chunks # <<>>
  PROVE  Remaining(0, 0) = chunks
<1>1. PICK n \in Nat, c \in ChunkNodes : n = Len(chunks) /\ c = chunks[1] /\ 1 \in 1 .. n
  <2>1. Len(chunks) \in Nat /\ chunks[1] \in ChunkNodes /\ 1 \in 1 .. Len(chunks)
    OBVIOUS
  <2> QED
    BY <2>1, Zenon
<1>2. BytesUpTo(0) = 0
  BY NoBytes
<1>3. [c EXCEPT !.offset = @ + (0 - 0)] = c
  <2>1. c.offset \in Nat
    BY NodeFacts
  <2>2. c.offset + (0 - 0) = c.offset
    BY <2>1
  <2>3. [c EXCEPT !.offset = @ + (0 - 0)] = [c EXCEPT !.offset = c.offset]
    BY <2>2
  <2>4. c \in [offset : Nat, data : Seq(Bytes)]
    BY DEF ChunkNodes
  <2>5. [c EXCEPT !.offset = c.offset] = c
    BY <2>4
  <2> QED
    BY <2>3, <2>5, Zenon
<1>4. PICK r : r = Remaining(0, 0)
  OBVIOUS
<1>5. r = [i \in 1 .. n |-> chunks[i]]
  <2>1. Len(chunks) - 0 = n /\ \A i \in 1 .. n : 0 + i = i
    BY <1>1
  <2>2. r = [i \in 1 .. n |-> LET a == chunks[0 + i]
                              IN IF i = 1 THEN [a EXCEPT !.offset = @ + (0 - BytesUpTo(0))] ELSE a]
    BY <1>4, <2>1, Zenon DEF Remaining
  <2>3. ASSUME NEW i \in 1 .. n PROVE r[i] = chunks[i]
    <3>1. CASE i = 1
      BY <3>1, <2>1, <2>2, <1>1, <1>2, <1>3
    <3>2. CASE i # 1
      BY <3>2, <2>1, <2>2
    <3> QED
      BY <3>1, <3>2, Zenon
  <2>4. r = [i \in 1 .. n |-> r[i]]
    BY <2>2
  <2> QED
    BY <2>3, <2>4, Zenon
<1>6. chunks = [i \in 1 .. n |-> chunks[i]]
  <2>1. DOMAIN chunks = 1 .. Len(chunks) /\ chunks = [i \in DOMAIN chunks |-> chunks[i]]
    OBVIOUS
  <2> QED
    BY <2>1, <1>1, Zenon
<1> QED
  BY <1>4, <1>5, <1>6, Zenon

(* and every read leaves the bytes it did not return. *)
LEMMA ReadFacts ==
  ASSUME CHUNK \in Nat \ {0}, chunks \in Seq(ChunkNodes), chunks # <<>>,
         Shape(chunks), NothingSpent(chunks), NEW n \in Nat,
         NEW rd, rd = Least(n, Len(Content)),
         NEW k, k = IF n = 0 THEN 0 ELSE Cardinality(Drained(rd))
  PROVE  /\ rd \in Nat /\ rd <= Len(Content) /\ k \in Nat
         /\ LeftOver(Remaining(k, rd), k, rd)
<1>1. PICK L \in Nat : L = Len(Content) /\ L = BytesUpTo(Len(chunks))
  <2>1. Content \in Seq(Bytes) /\ Len(Content) = BytesUpTo(Len(chunks))
    BY ContentIs
  <2>2. Len(Content) \in Nat
    BY <2>1
  <2> QED
    BY <2>1, <2>2, Zenon
<1>2. rd = Least(n, L)
  BY <1>1, Zenon
<1>3. rd \in Nat /\ rd <= L /\ (n = 0 => rd = 0)
  BY <1>2 DEF Least
<1>4. CASE n = 0
  <2>1. k = 0 /\ rd = 0 /\ Remaining(0, 0) = chunks
    BY <1>3, <1>4, ReadNothing
  <2>2. Content = ContentOf(chunks) /\ Content \in Seq(Bytes)
    BY ContentIs
  <2>3. SubSeq(Content, 0 + 1, Len(Content)) = Content
    <3>1. SubSeq(Content, 1, Len(Content)) = Content
      BY <2>2, SubSeqFull
    <3>2. 0 + 1 = 1
      OBVIOUS
    <3> QED
      BY <3>1, <3>2, Zenon
  <2>4. Len(chunks) = Len(chunks) - 0 /\ 0 \in Nat
    OBVIOUS
  <2>5. LeftOver(chunks, 0, 0)
    BY <2>2, <2>3, <2>4, Zenon DEF LeftOver
  <2> QED
    BY <2>1, <2>4, <2>5, <1>1, <1>3, Zenon
<1>5. CASE n # 0
  <2>1. k = Cardinality(Drained(rd))
    BY <1>5, Zenon
  <2>2. /\ k \in Nat /\ k <= Len(chunks) /\ BytesUpTo(k) <= rd
        /\ (k < Len(chunks) => rd < BytesUpTo(k + 1))
    BY <2>1, <1>3, DrainedFacts
  <2>3. LeftOver(Remaining(k, rd), k, rd)
    <3>1. CASE k = Len(chunks)
      <4>1. L <= rd
        BY <3>1, <2>2, <1>1, Zenon
      <4>2. rd = L
        BY <4>1, <1>3
      <4>3. rd = Len(Content)
        BY <4>2, <1>1, Zenon
      <4>4. LeftOver(Remaining(Len(chunks), rd), Len(chunks), rd)
        BY <4>3, <1>3, ReadAll
      <4> QED
        BY <3>1, <4>4, Zenon
    <3>2. CASE k # Len(chunks)
      <4>1. k < Len(chunks)
        <5>1. Len(chunks) \in Nat
          OBVIOUS
        <5> QED
          BY <5>1, <3>2, <2>2
      <4>2. rd < BytesUpTo(k + 1)
        BY <4>1, <2>2, Zenon
      <4> QED
        BY <4>1, <4>2, <2>2, <1>3, ReadPart
    <3> QED
      BY <3>1, <3>2, Zenon
  <2> QED
    BY <2>2, <2>3, <1>1, <1>3, Zenon
<1> QED
  BY <1>4, <1>5, Zenon

-----------------------------------------------------------------------------
(* The nodes in the list and in the pool. *)

LEMMA TakenNodes ==
  ASSUME pool \in Nat, nodes \in Int, NEW l \in Nat, nodes = l + pool,
         NEW k \in Nat, TakeNodes(k)
  PROVE  pool' \in Nat /\ nodes' \in Int /\ nodes' = (l + k) + pool'
<1>1. PICK reused \in Nat : reused = Least(k, pool) /\ reused <= k /\ reused <= pool
  <2>1. Least(k, pool) \in Nat /\ Least(k, pool) <= k /\ Least(k, pool) <= pool
    BY DEF Least
  <2> QED
    BY <2>1, Zenon
<1>2. pool' = pool - reused /\ nodes' = nodes + (k - reused)
  BY <1>1, Zenon DEF TakeNodes
<1> QED
  BY <1>1, <1>2

LEMMA GivenNodes ==
  ASSUME pool \in Nat, nodes \in Int, NEW l \in Nat, nodes = l + pool,
         NEW k \in Nat, GiveNodes(k)
  PROVE  pool' \in Nat /\ nodes' \in Int /\ nodes' = (l - k) + pool'
<1>1. CASE psize > CHUNK_POOL
  <2>1. nodes' = nodes - k /\ pool' = pool
    BY <1>1, Zenon DEF GiveNodes
  <2> QED
    BY <2>1
<1>2. CASE ~(psize > CHUNK_POOL)
  <2>1. pool' = pool + k /\ nodes' = nodes
    BY <1>2, Zenon DEF GiveNodes
  <2> QED
    BY <2>1
<1> QED
  BY <1>1, <1>2, Zenon

LEMMA WithTailFacts ==
  ASSUME CHUNK \in Nat \ {0}, chunks \in Seq(ChunkNodes), Shape(chunks), NothingSpent(chunks)
  PROVE  /\ WithTail \in Seq(ChunkNodes) /\ WithTail # <<>>
         /\ Shape(WithTail) /\ NothingSpent(WithTail)
         /\ ContentOf(WithTail) = Content
         /\ TailNodes \in Nat /\ Len(WithTail) = Len(chunks) + TailNodes
<1>1. CASE chunks = <<>>
  <2>1. PICK c : c = Node(0, <<>>) /\ c.offset = 0 /\ c.data = <<>>
    <3>1. Node(0, <<>>).offset = 0 /\ Node(0, <<>>).data = <<>>
      BY DEF Node
    <3> QED
      BY <3>1, Zenon
  <2>2. c \in ChunkNodes
    <3>1. c \in [offset : Nat, data : Seq(Bytes)]
      BY <2>1 DEF Node
    <3>2. Len(<<>>) = 0 /\ 0 <= 0 /\ 0 <= CHUNK
      OBVIOUS
    <3> QED
      BY <2>1, <3>1, <3>2, Zenon DEF ChunkNodes
  <2>3. PICK w : w = WithTail /\ w = <<c>>
    BY <1>1, <2>1, Zenon DEF WithTail
  <2>4. w \in Seq(ChunkNodes) /\ w # <<>> /\ Len(w) = 1 /\ w[1] = c
    BY <2>2, <2>3
  <2>5. Shape(w) /\ NothingSpent(w)
    BY <2>1, <2>4 DEF Shape, NothingSpent
  <2>6. ContentOf(w) = Window(c) /\ Window(c) = <<>>
    <3>1. ContentOf(w) = Window(c)
      BY <2>2, <2>3, ContentOfOne
    <3>2. SubSeq(<<>>, 0 + 1, 0) = <<>> /\ Len(<<>>) = 0
      OBVIOUS
    <3> QED
      BY <2>1, <3>1, <3>2, Zenon DEF Window
  <2>7. Content = <<>>
    BY <1>1, ContentIs, ContentOfNone, Zenon
  <2>8. TailNodes = 1 /\ Len(chunks) = 0
    BY <1>1 DEF TailNodes
  <2>9. 1 \in Nat /\ 0 + 1 = 1
    OBVIOUS
  <2> QED
    BY <2>3, <2>4, <2>5, <2>6, <2>7, <2>8, <2>9, Zenon
<1>2. CASE chunks # <<>>
  <2>1. WithTail = chunks /\ TailNodes = 0
    BY <1>2, Zenon DEF WithTail, TailNodes
  <2>2. 0 \in Nat /\ Len(chunks) + 0 = Len(chunks)
    OBVIOUS
  <2> QED
    BY <1>2, <2>1, <2>2, ContentIs, Zenon
<1> QED
  BY <1>1, <1>2, Zenon

-----------------------------------------------------------------------------
(* Init and every action keep the invariant. *)

LEMMA BufferFacts ==
  ASSUME MaxBuf \in Nat, NEW buf \in Buffers
  PROVE  buf \in Seq(Bytes) /\ Len(buf) \in 0 .. MaxBuf
<1>1. PICK n \in 0 .. MaxBuf : buf \in [1 .. n -> Bytes]
  BY Zenon DEF Buffers
<1> QED
  BY <1>1

(* The bytes b are behind the others, in as many chunks as they need. *)
Wrote(b, k) ==
  /\ phase = "open" /\ phase' = phase
  /\ chunks' = Appended(WithTail, b, k)
  /\ TakeNodes(TailNodes + k)
  /\ size' = size + Len(b)

LEMMA WroteFacts ==
  ASSUME CHUNK \in Nat \ {0}, ChunkQInv, NEW b \in Seq(Bytes),
         NEW k, k = NewChunks(WithTail, Len(b)), Wrote(b, k)
  PROVE  ChunkQInv' /\ Content' = Content \o b
<1>1. /\ chunks \in Seq(ChunkNodes) /\ Shape(chunks) /\ NothingSpent(chunks)
      /\ pool \in Nat /\ nodes \in Int /\ nodes = Len(chunks) + pool /\ size = Len(Content)
  BY Zenon DEF ChunkQInv, TypeOK, ChunkShape, NoNodeLost, Wrote
<1>2. PICK w \in Seq(ChunkNodes), t \in Nat :
         /\ w = WithTail /\ t = TailNodes /\ w # <<>> /\ Shape(w) /\ NothingSpent(w)
         /\ ContentOf(w) = Content /\ Len(w) = Len(chunks) + t
  <2>1. /\ WithTail \in Seq(ChunkNodes) /\ WithTail # <<>>
        /\ Shape(WithTail) /\ NothingSpent(WithTail)
        /\ ContentOf(WithTail) = Content
        /\ TailNodes \in Nat /\ Len(WithTail) = Len(chunks) + TailNodes
    BY <1>1, WithTailFacts
  <2> QED
    BY <2>1, Zenon
<1>3. /\ k \in Nat
      /\ chunks' \in Seq(ChunkNodes) /\ Len(chunks') = Len(w) + k
      /\ Shape(chunks') /\ NothingSpent(chunks')
      /\ ContentOf(chunks') = Content \o b
  <2>1. k = NewChunks(w, Len(b))
    BY <1>2, Zenon
  <2>2. /\ k \in Nat
        /\ Appended(w, b, k) \in Seq(ChunkNodes)
        /\ Len(Appended(w, b, k)) = Len(w) + k
        /\ Shape(Appended(w, b, k)) /\ NothingSpent(Appended(w, b, k))
        /\ ContentOf(Appended(w, b, k)) = ContentOf(w) \o b
    BY <2>1, <1>2, AppendedFacts
  <2> QED
    BY <2>2, <1>2, Zenon DEF Wrote
<1>4. Content' = Content \o b
  BY <1>3, Zenon DEF Content, ContentOf
<1>5. size' = Len(Content')
  <2>1. PICK x \in Seq(Bytes) : x = Content
    BY <1>1, ContentIs
  <2>2. Len(x \o b) = Len(x) + Len(b)
    OBVIOUS
  <2> QED
    BY <2>1, <2>2, <1>1, <1>4, Zenon DEF Wrote
<1>6. pool' \in Nat /\ nodes' \in Int /\ nodes' = Len(chunks') + pool'
  <2>1. PICK l \in Nat : l = Len(chunks) /\ nodes = l + pool
    <3>1. Len(chunks) \in Nat
      BY <1>1
    <3> QED
      BY <3>1, <1>1, Zenon
  <2>2. PICK h \in Nat : h = t + k /\ TakeNodes(h)
    <3>1. t + k \in Nat
      BY <1>3
    <3> QED
      BY <3>1, <1>2, Zenon DEF Wrote
  <2>3. pool' \in Nat /\ nodes' \in Int /\ nodes' = (l + h) + pool'
    BY <2>1, <2>2, <1>1, TakenNodes
  <2>4. Len(chunks') = l + h
    <3>1. (l + t) + k = l + (t + k)
      BY <1>3
    <3> QED
      BY <3>1, <2>1, <2>2, <1>2, <1>3, Zenon
  <2> QED
    BY <2>3, <2>4, Zenon
<1>7. phase' = "open" /\ "open" # "none"
  BY DEF Wrote
<1> QED
  BY <1>3, <1>4, <1>5, <1>6, <1>7, Zenon DEF ChunkQInv, TypeOK, ChunkShape, NoNodeLost

LEMMA AppendAllStep ==
  ASSUME CHUNK \in Nat \ {0}, MaxBuf \in Nat, ChunkQInv, NEW buf \in Buffers, AppendAll(buf)
  PROVE  ChunkQInv' /\ Content' = Content \o buf
<1>1. buf \in Seq(Bytes)
  BY BufferFacts
<1>2. PICK k : k = NewChunks(WithTail, Len(buf))
  OBVIOUS
<1>3. Wrote(buf, k)
  BY <1>2, Zenon DEF AppendAll, Wrote
<1> QED
  BY <1>1, <1>2, <1>3, WroteFacts

LEMMA AppendSomeStep ==
  ASSUME CHUNK \in Nat \ {0}, MaxBuf \in Nat, ChunkQInv,
         NEW buf \in Buffers, NEW k \in 0 .. MaxBuf, AppendSome(buf, k)
  PROVE  /\ ChunkQInv'
         /\ \E n \in 0 .. Len(buf) : /\ Content' = Content \o SubSeq(buf, 1, n)
                                     /\ ret' = [asked |-> Len(buf), value |-> n, buf |-> <<>>]
<1>1. buf \in Seq(Bytes) /\ k \in Nat
  BY BufferFacts
<1>2. chunks \in Seq(ChunkNodes) /\ Shape(chunks) /\ NothingSpent(chunks)
  BY Zenon DEF ChunkQInv, TypeOK, ChunkShape
<1>3. PICK w \in Seq(ChunkNodes) : w = WithTail /\ w # <<>>
  BY <1>2, WithTailFacts
<1>4. PICK L \in Nat : L = Len(buf)
  BY <1>1
<1>5. PICK wr : wr = Room(w[Len(w)]) + k * CHUNK
  OBVIOUS
<1>6. wr \in Nat /\ wr <= L /\ NewChunks(w, wr) = k
  <2>1. k < NewChunks(w, L)
    BY <1>3, <1>4, Zenon DEF AppendSome
  <2> QED
    BY <2>1, <1>1, <1>3, <1>5, PartialFacts
<1>7. PICK b \in Seq(Bytes) : b = SubSeq(buf, 1, wr) /\ Len(b) = wr
  <2>1. wr <= Len(buf)
    BY <1>4, <1>6, Zenon
  <2>2. SubSeq(buf, 1, wr) \in Seq(Bytes) /\ Len(SubSeq(buf, 1, wr)) = wr
    BY <2>1, <1>1, <1>6, PrefixFacts
  <2> QED
    BY <2>2, Zenon
<1>8. wr = Room(WithTail[Len(WithTail)]) + k * CHUNK
  BY <1>3, <1>5, Zenon
<1>9. Wrote(b, k)
  BY <1>7, <1>8, Zenon DEF AppendSome, Wrote
<1>10. k = NewChunks(WithTail, Len(b))
  BY <1>3, <1>6, <1>7, Zenon
<1>11. ChunkQInv' /\ Content' = Content \o b
  BY <1>9, <1>10, WroteFacts
<1>12. ret' = [asked |-> Len(buf), value |-> wr, buf |-> <<>>]
  BY <1>8, Zenon DEF AppendSome, Returns
<1>13. wr \in 0 .. Len(buf)
  BY <1>4, <1>6
<1> QED
  BY <1>7, <1>11, <1>12, <1>13, Zenon

LEMMA ReadStep ==
  ASSUME CHUNK \in Nat \ {0}, ChunkQInv, NEW n \in Nat, Read(n)
  PROVE  /\ ChunkQInv'
         /\ \E rd : /\ rd = Least(n, Len(Content))
                    /\ Content' = SubSeq(Content, rd + 1, Len(Content))
                    /\ ret' = [asked |-> n, value |-> rd, buf |-> SubSeq(Content, 1, rd)]
<1>1. /\ chunks \in Seq(ChunkNodes) /\ Shape(chunks) /\ NothingSpent(chunks) /\ chunks # <<>>
      /\ pool \in Nat /\ nodes \in Int /\ nodes = Len(chunks) + pool /\ size = Len(Content)
      /\ phase = "open"
  BY Zenon DEF ChunkQInv, TypeOK, ChunkShape, NoNodeLost, Read
<1>2. PICK rd : rd = Least(n, Len(Content))
  OBVIOUS
<1>3. PICK k : k = IF n = 0 THEN 0 ELSE Cardinality(Drained(rd))
  OBVIOUS
<1>4. /\ rd \in Nat /\ rd <= Len(Content) /\ k \in Nat
      /\ LeftOver(Remaining(k, rd), k, rd)
  BY <1>1, <1>2, <1>3, ReadFacts
<1>5. /\ phase' = phase /\ chunks' = Remaining(k, rd) /\ size' = size - rd /\ GiveNodes(k)
      /\ ret' = [asked |-> n, value |-> rd, buf |-> SubSeq(Content, 1, rd)]
  BY <1>2, <1>3, Zenon DEF Read, Returns, Copied
<1>6. /\ chunks' \in Seq(ChunkNodes) /\ Len(chunks') = Len(chunks) - k
      /\ Shape(chunks') /\ NothingSpent(chunks')
      /\ ContentOf(chunks') = SubSeq(Content, rd + 1, Len(Content))
  BY <1>4, <1>5, Zenon DEF LeftOver
<1>7. Content' = SubSeq(Content, rd + 1, Len(Content))
  BY <1>6, Zenon DEF Content, ContentOf
<1>8. size' = Len(Content')
  <2>1. PICK x \in Seq(Bytes) : x = Content
    BY <1>1, ContentIs
  <2>2. rd <= Len(x)
    BY <2>1, <1>4, Zenon
  <2>3. Len(SubSeq(x, rd + 1, Len(x))) = Len(x) - rd
    BY <2>2, <1>4, SuffixFacts
  <2> QED
    BY <2>1, <2>3, <1>1, <1>5, <1>7, Zenon
<1>9. pool' \in Nat /\ nodes' \in Int /\ nodes' = Len(chunks') + pool'
  <2>1. PICK l \in Nat : l = Len(chunks) /\ nodes = l + pool
    <3>1. Len(chunks) \in Nat
      BY <1>1
    <3> QED
      BY <3>1, <1>1, Zenon
  <2>2. pool' \in Nat /\ nodes' \in Int /\ nodes' = (l - k) + pool'
    BY <2>1, <1>1, <1>4, <1>5, GivenNodes
  <2> QED
    BY <2>1, <2>2, <1>6, Zenon
<1>10. phase' = "open" /\ "open" # "none"
  BY <1>1, <1>5
<1>11. ChunkQInv'
  BY <1>6, <1>8, <1>9, <1>10, Zenon DEF ChunkQInv, TypeOK, ChunkShape, NoNodeLost
<1> QED
  BY <1>2, <1>5, <1>7, <1>11, Zenon

LEMMA InitInv == Init => ChunkQInv
<1> SUFFICES ASSUME Init PROVE ChunkQInv
  OBVIOUS
<1>1. chunks = <<>> /\ phase = "none" /\ pool = 0 /\ size = 0 /\ nodes = 0
  BY Zenon DEF Init
<1>2. chunks \in Seq(ChunkNodes) /\ Len(chunks) = 0
  BY <1>1
<1>3. Shape(chunks) /\ NothingSpent(chunks)
  BY <1>2 DEF Shape, NothingSpent
<1>4. Content = <<>>
  BY <1>1, <1>2, ContentIs, ContentOfNone, ChunkQAssumption, Zenon
<1>5. 0 \in Nat /\ 0 \in Int /\ Len(<<>>) = 0 /\ "none" # "open"
  OBVIOUS
<1> QED
  BY <1>1, <1>2, <1>3, <1>4, <1>5, Zenon DEF ChunkQInv, TypeOK, ChunkShape, NoNodeLost

(* The list is emptied. *)
LEMMA EmptyFacts ==
  ASSUME CHUNK \in Nat \ {0}, chunks' = <<>>
  PROVE  /\ chunks' \in Seq(ChunkNodes) /\ Len(chunks') = 0
         /\ Shape(chunks') /\ NothingSpent(chunks') /\ Content' = <<>> /\ Len(Content') = 0
<1>1. chunks' \in Seq(ChunkNodes) /\ Len(chunks') = 0
  OBVIOUS
<1>2. Shape(chunks') /\ NothingSpent(chunks')
  BY <1>1 DEF Shape, NothingSpent
<1>3. Content' = <<>>
  <2>1. ContentOf(chunks') = <<>>
    BY ContentOfNone, Zenon
  <2> QED
    BY <2>1, Zenon DEF Content, ContentOf
<1>4. Len(<<>>) = 0
  OBVIOUS
<1> QED
  BY <1>1, <1>2, <1>3, <1>4, Zenon

LEMMA AllocStep ==
  ASSUME ChunkQInv, Alloc
  PROVE  ChunkQInv' /\ Fifo!Reset
<1>1. phase' = "open" /\ chunks' = <<>> /\ pool' = 0 /\ size' = 0 /\ nodes' = 0
  BY Zenon DEF Alloc, ChunkQInv
<1>2. /\ chunks' \in Seq(ChunkNodes) /\ Len(chunks') = 0
      /\ Shape(chunks') /\ NothingSpent(chunks') /\ Content' = <<>> /\ Len(Content') = 0
  BY <1>1, EmptyFacts, ChunkQAssumption, Zenon
<1>3. 0 \in Nat /\ 0 \in Int /\ 0 + 0 = 0 /\ "open" # "none"
  OBVIOUS
<1>4. ChunkQInv'
  BY <1>1, <1>2, <1>3, Zenon DEF ChunkQInv, TypeOK, ChunkShape, NoNodeLost
<1>5. Fifo!Reset
  BY <1>2, Zenon DEF Alloc, Returns, Fifo!Reset, Fifo!Says
<1> QED
  BY <1>4, <1>5, Zenon

LEMMA ClearStep ==
  ASSUME ChunkQInv, Clear
  PROVE  ChunkQInv' /\ Fifo!Reset
<1>1. phase = "open" /\ phase' = phase /\ chunks' = <<>> /\ size' = 0 /\ GiveNodes(Len(chunks))
  BY Zenon DEF Clear
<1>2. /\ chunks' \in Seq(ChunkNodes) /\ Len(chunks') = 0
      /\ Shape(chunks') /\ NothingSpent(chunks') /\ Content' = <<>> /\ Len(Content') = 0
  BY <1>1, EmptyFacts, ChunkQAssumption, Zenon
<1>3. chunks \in Seq(ChunkNodes) /\ pool \in Nat /\ nodes \in Int /\ nodes = Len(chunks) + pool
  BY <1>1, Zenon DEF ChunkQInv, TypeOK, NoNodeLost
<1>4. PICK l \in Nat : l = Len(chunks) /\ nodes = l + pool /\ GiveNodes(l)
  <2>1. Len(chunks) \in Nat
    BY <1>3
  <2> QED
    BY <2>1, <1>1, <1>3, Zenon
<1>5. pool' \in Nat /\ nodes' \in Int /\ nodes' = (l - l) + pool'
  BY <1>3, <1>4, GivenNodes
<1>6. l - l = 0 /\ "open" # "none"
  OBVIOUS
<1>7. ChunkQInv'
  BY <1>1, <1>2, <1>5, <1>6, Zenon DEF ChunkQInv, TypeOK, ChunkShape, NoNodeLost
<1>8. Fifo!Reset
  BY <1>2, Zenon DEF Clear, Returns, Fifo!Reset, Fifo!Says
<1> QED
  BY <1>7, <1>8, Zenon

LEMMA FreeStep ==
  ASSUME ChunkQInv, Free
  PROVE  ChunkQInv' /\ Fifo!Reset
<1>1. phase' = "freed" /\ chunks' = <<>> /\ size' = 0 /\ pool' = 0
  BY Zenon DEF Free
<1>2. /\ chunks' \in Seq(ChunkNodes) /\ Len(chunks') = 0
      /\ Shape(chunks') /\ NothingSpent(chunks') /\ Content' = <<>> /\ Len(Content') = 0
  BY <1>1, EmptyFacts, ChunkQAssumption, Zenon
<1>3. nodes' \in Int
  <2>1. nodes \in Int /\ pool \in Nat /\ chunks \in Seq(ChunkNodes)
    BY Zenon DEF ChunkQInv, TypeOK
  <2>2. nodes - Len(chunks) - pool \in Int
    BY <2>1
  <2> QED
    BY <2>1, <2>2, Zenon DEF Free
<1>4. 0 \in Nat /\ "freed" # "none" /\ "freed" # "open"
  OBVIOUS
<1>5. ChunkQInv'
  BY <1>1, <1>2, <1>3, <1>4, Zenon DEF ChunkQInv, TypeOK, ChunkShape, NoNodeLost
<1>6. Fifo!Reset
  BY <1>2, Zenon DEF Free, Returns, Fifo!Reset, Fifo!Says
<1> QED
  BY <1>5, <1>6, Zenon

(* A call that changes the answer only. *)
LEMMA KeepStep ==
  ASSUME ChunkQInv, UNCHANGED <<phase, chunks, pool, size, nodes>>
  PROVE  ChunkQInv' /\ Content' = Content
<1>1. Content' = Content
  BY DEF Content
<1> QED
  BY <1>1 DEF ChunkQInv, TypeOK, ChunkShape, NoNodeLost

(* An append or a read that finds no chunk fails. *)
LEMMA FailStep ==
  ASSUME ChunkQInv, AppendNone \/ ReadEmpty
  PROVE  ChunkQInv' /\ Fifo!Fail
<1>1. /\ UNCHANGED <<phase, chunks, pool, size, nodes>> /\ chunks = <<>>
      /\ ret' = [asked |-> 0, value |-> -1, buf |-> <<>>]
  BY DEF AppendNone, ReadEmpty, Returns
<1>2. ChunkQInv' /\ Content' = Content
  BY <1>1, KeepStep
<1>3. Content = <<>>
  <2>1. chunks \in Seq(ChunkNodes)
    BY Zenon DEF ChunkQInv, TypeOK
  <2> QED
    BY <1>1, <2>1, ContentIs, ContentOfNone, ChunkQAssumption, Zenon
<1> QED
  BY <1>1, <1>2, <1>3, Zenon DEF Fifo!Fail, Fifo!Says

(* Every step keeps the invariant and is a step of a byte FIFO. *)
LEMMA NextStep ==
  ASSUME ChunkQInv, [Next]_vars
  PROVE  ChunkQInv' /\ [Fifo!FifoNext]_<<Content, ret>>
<1>0. CHUNK \in Nat \ {0} /\ MaxBuf \in Nat
  BY ChunkQAssumption, Zenon
<1>1. CASE Alloc
  BY <1>1, AllocStep, Zenon DEF Fifo!FifoNext
<1>2. CASE AppendNone \/ ReadEmpty
  BY <1>2, FailStep, Zenon DEF Fifo!FifoNext
<1>3. CASE Clear
  BY <1>3, ClearStep, Zenon DEF Fifo!FifoNext
<1>4. CASE Free
  BY <1>4, FreeStep, Zenon DEF Fifo!FifoNext
<1>5. ASSUME NEW buf \in Buffers, AppendAll(buf) PROVE ChunkQInv' /\ Fifo!FifoNext
  <2>1. ChunkQInv' /\ Content' = Content \o buf
    BY <1>0, <1>5, AppendAllStep
  <2>2. SubSeq(buf, 1, Len(buf)) = buf /\ Len(buf) \in 0 .. Len(buf)
    <3>1. buf \in Seq(Bytes)
      BY <1>0, BufferFacts
    <3> QED
      BY <3>1, SubSeqFull
  <2>3. ret' = [asked |-> Len(buf), value |-> Len(buf), buf |-> <<>>]
    BY <1>5, Zenon DEF AppendAll, Returns
  <2>4. Fifo!Put(buf)
    BY <2>1, <2>2, <2>3, Zenon DEF Fifo!Put, Fifo!Says
  <2> QED
    BY <2>1, <2>4, Zenon DEF Fifo!FifoNext
<1>6. ASSUME NEW buf \in Buffers, NEW k \in 0 .. MaxBuf, AppendSome(buf, k)
      PROVE  ChunkQInv' /\ Fifo!FifoNext
  <2>1. /\ ChunkQInv'
        /\ \E n \in 0 .. Len(buf) : /\ Content' = Content \o SubSeq(buf, 1, n)
                                    /\ ret' = [asked |-> Len(buf), value |-> n, buf |-> <<>>]
    BY <1>0, <1>6, AppendSomeStep
  <2>2. Fifo!Put(buf)
    BY <2>1, Zenon DEF Fifo!Put, Fifo!Says
  <2> QED
    BY <2>1, <2>2, Zenon DEF Fifo!FifoNext
<1>7. ASSUME NEW n \in 0 .. MaxBuf, Read(n) PROVE ChunkQInv' /\ Fifo!FifoNext
  <2>0. n \in Nat
    OBVIOUS
  <2>1. /\ ChunkQInv'
        /\ \E rd : /\ rd = Least(n, Len(Content))
                   /\ Content' = SubSeq(Content, rd + 1, Len(Content))
                   /\ ret' = [asked |-> n, value |-> rd, buf |-> SubSeq(Content, 1, rd)]
    BY <1>0, <1>7, <2>0, ReadStep
  <2>2. Fifo!Get(n)
    BY <2>1, Zenon DEF Fifo!Get, Fifo!Says, Least
  <2>3. PICK b \in Buffers : Len(b) = n
    <3>1. PICK x \in Bytes : TRUE
      BY ChunkQAssumption
    <3>2. PICK b : b = [i \in 1 .. n |-> x]
      OBVIOUS
    <3>3. b \in [1 .. n -> Bytes] /\ Len(b) = n
      BY <3>2, <2>0
    <3> QED
      BY <3>3, Zenon DEF Buffers
  <2> QED
    BY <2>1, <2>2, <2>3, Zenon DEF Fifo!FifoNext
<1>8. CASE UNCHANGED vars
  BY <1>8, KeepStep DEF vars
<1> QED
  BY <1>1, <1>2, <1>3, <1>4, <1>5, <1>6, <1>7, <1>8, Zenon DEF Next

-----------------------------------------------------------------------------
(* What chunkq_peek copies. *)

(* __chunkn_at_offset finds the chunk that holds the byte. *)
LEMMA AtOffsetFacts ==
  ASSUME CHUNK \in Nat \ {0}, chunks \in Seq(ChunkNodes), NEW o \in Nat,
         NEW i, i = AtOffset(o)
  PROVE  \/ i = 0 /\ Len(Content) <= o
         \/ \E k \in Nat : /\ i = k + 1 /\ k < Len(chunks)
                           /\ BytesUpTo(k) <= o /\ o < BytesUpTo(k + 1)
<1>1. PICK n \in Nat : n = Len(chunks)
  OBVIOUS
<1>2. \A j \in Nat : j <= n => BytesUpTo(j) \in Nat
  BY <1>1, BytesFacts
<1>3. Len(Content) = BytesUpTo(n)
  BY <1>1, ContentIs
<1>4. BytesUpTo(0) = 0
  BY NoBytes
<1>5. PICK f : f = [j \in 1 .. n |-> BytesUpTo(j)] /\ Len(f) = n /\ \A j \in 1 .. n : f[j] = BytesUpTo(j)
  <2>1. PICK f : f = [j \in 1 .. n |-> BytesUpTo(j)]
    OBVIOUS
  <2>2. Len(f) = n /\ \A j \in 1 .. n : f[j] = BytesUpTo(j)
    BY <2>1
  <2> QED
    BY <2>1, <2>2, Zenon
<1>6. PICK I : I = {j \in 1 .. Len(f) : f[j] > o}
  OBVIOUS
<1>7. i = IF I # {} THEN Min(I) ELSE 0
  BY <1>1, <1>5, <1>6, Zenon DEF AtOffset, SelectInSeq
<1>8. \A j : j \in I <=> j \in 1 .. n /\ BytesUpTo(j) > o
  BY <1>5, <1>6, Zenon
<1>9. CASE I = {}
  <2>1. i = 0
    BY <1>7, <1>9, Zenon
  <2>2. CASE n = 0
    BY <2>1, <2>2, <1>3, <1>4
  <2>3. CASE n # 0
    <3>1. n \in 1 .. n /\ n <= n
      BY <2>3
    <3>2. ~(BytesUpTo(n) > o) /\ BytesUpTo(n) \in Nat
      BY <3>1, <1>2, <1>8, <1>9, Zenon
    <3>3. BytesUpTo(n) <= o
      BY <3>2
    <3> QED
      BY <2>1, <3>3, <1>3, Zenon
  <2> QED
    BY <2>2, <2>3, Zenon
<1>10. CASE I # {}
  <2>1. I \subseteq Nat
    <3>1. 1 .. n \subseteq Nat
      OBVIOUS
    <3> QED
      BY <3>1, <1>8, Zenon
  <2>2. \E x \in I : \A y \in I : x <= y
    BY <1>10, <2>1, LeastNumber
  <2>3. i \in I /\ \A y \in I : i <= y
    BY <2>2, <1>7, <1>10, Zenon DEF Min
  <2>4. i \in 1 .. n /\ BytesUpTo(i) > o
    BY <2>3, <1>8, Zenon
  <2>5. PICK k \in Nat : i = k + 1 /\ k < n /\ k <= n
    <3>1. i - 1 \in Nat /\ i = (i - 1) + 1 /\ i - 1 < n /\ i - 1 <= n
      BY <2>4
    <3> QED
      BY <3>1, Zenon
  <2>6. BytesUpTo(k) <= o
    <3>1. CASE k = 0
      BY <3>1, <1>4
    <3>2. CASE k # 0
      <4>1. k \in 1 .. n /\ ~(i <= k)
        BY <3>2, <2>5
      <4>2. ~(BytesUpTo(k) > o) /\ BytesUpTo(k) \in Nat
        BY <4>1, <2>3, <2>5, <1>2, <1>8, Zenon
      <4> QED
        BY <4>2
    <3> QED
      BY <3>1, <3>2, Zenon
  <2>7. o < BytesUpTo(k + 1)
    <3>1. BytesUpTo(i) \in Nat
      <4>1. i \in Nat /\ i <= n
        BY <2>4
      <4> QED
        BY <4>1, <1>2, Zenon
    <3>2. o < BytesUpTo(i)
      BY <3>1, <2>4
    <3> QED
      BY <3>2, <2>5, Zenon
  <2> QED
    BY <2>5, <2>6, <2>7, <1>1, Zenon
<1> QED
  BY <1>9, <1>10, Zenon

(* From that chunk on it sees the rest of the bytes. *)
SeenFrom(i, o) ==
  FirstPart(i, o) \o
    FlattenSeq([j \in 1 .. Len(chunks) - i |->
                  SubSeq(Later(chunks[i + j]), 1, NodeSize(chunks[i + j]))])

LEMMA SeenFacts ==
  ASSUME CHUNK \in Nat \ {0}, chunks \in Seq(ChunkNodes), Shape(chunks),
         NEW k \in Nat, k < Len(chunks), NEW o \in Nat,
         BytesUpTo(k) <= o, o < BytesUpTo(k + 1)
  PROVE  SeenFrom(k + 1, o) = SubSeq(Content, o + 1, Len(Content))
<1>1. PICK n \in Nat, j \in Nat, m \in Nat :
         /\ n = Len(chunks) /\ j = k + 1 /\ j \in 1 .. n /\ k <= n /\ j <= n
         /\ m = n - j /\ n - k = m + 1
  <2>1. PICK n \in Nat : n = Len(chunks) /\ k < n
    OBVIOUS
  <2>2. k + 1 \in Nat /\ k + 1 \in 1 .. n /\ k <= n /\ k + 1 <= n /\ n - (k + 1) \in Nat /\ n - k = (n - (k + 1)) + 1
    BY <2>1
  <2> QED
    BY <2>1, <2>2, Zenon
<1>2. \A i \in 1 .. n : chunks[i] \in ChunkNodes
  BY <1>1
<1>3. PICK c \in ChunkNodes : c = chunks[j]
  BY <1>1, <1>2, Zenon
<1>4. PICK e \in Nat, d \in Nat : e = BytesUpTo(k) /\ d = o - e /\ d < NodeSize(c)
  <2>1. BytesUpTo(k) \in Nat
    BY <1>1, BytesFacts
  <2>2. BytesUpTo(k + 1) = BytesUpTo(k) + NodeSize(chunks[k + 1])
    BY <1>1, BytesStep
  <2>3. NodeSize(c) \in Nat
    BY NodeFacts
  <2>4. PICK e \in Nat, h \in Nat : e = BytesUpTo(k) /\ h = NodeSize(c) /\ e <= o /\ o < e + h
    BY <2>1, <2>2, <2>3, <1>1, <1>3, Zenon
  <2>5. o - e \in Nat /\ o - e < h
    BY <2>4
  <2> QED
    BY <2>4, <2>5, Zenon
<1>5. PICK r : r = Remaining(k, o) /\ LeftOver(r, k, o)
  BY ReadPart
<1>6. /\ r \in Seq(ChunkNodes) /\ Len(r) = m + 1
      /\ ContentOf(r) = SubSeq(Content, o + 1, Len(Content))
  BY <1>1, <1>5, Zenon DEF LeftOver
<1>7. r[1] = Advanced(c, d) /\ \A i \in 1 .. m : r[i + 1] = chunks[j + i]
  <2>1. r = [i \in 1 .. m + 1 |-> LET a == chunks[k + i]
                                  IN IF i = 1 THEN [a EXCEPT !.offset = @ + (o - BytesUpTo(k))] ELSE a]
    BY <1>1, <1>5, Zenon DEF Remaining
  <2>2. 1 \in 1 .. m + 1
    OBVIOUS
  <2>3. r[1] = [c EXCEPT !.offset = @ + d]
    <3>1. r[1] = [chunks[k + 1] EXCEPT !.offset = @ + (o - BytesUpTo(k))]
      BY <2>1, <2>2
    <3> QED
      BY <3>1, <1>1, <1>3, <1>4
  <2>4. ASSUME NEW i \in 1 .. m PROVE r[i + 1] = chunks[j + i]
    <3>1. i + 1 \in 1 .. m + 1 /\ i + 1 # 1 /\ k + (i + 1) = j + i
      BY <1>1
    <3>2. r[i + 1] = chunks[k + (i + 1)]
      BY <3>1, <2>1, Zenon
    <3> QED
      BY <3>1, <3>2, Zenon
  <2> QED
    BY <2>3, <2>4, Zenon DEF Advanced
<1>8. PICK w \in Seq(Seq(Bytes)) : /\ Len(w) = m + 1 /\ ContentOf(r) = FlattenSeq(w)
                                   /\ \A i \in 1 .. m + 1 : w[i] = Window(r[i])
  <2>1. /\ Windows(r) \in Seq(Seq(Bytes)) /\ Len(Windows(r)) = Len(r)
        /\ \A i \in 1 .. Len(r) : Windows(r)[i] = Window(r[i])
        /\ ContentOf(r) = FlattenSeq(Windows(r))
    BY <1>6, WindowsFacts
  <2> QED
    BY <2>1, <1>6, Zenon
<1>9. w[1] = FirstPart(j, o)
  <2>1. Window(Advanced(c, d)) = SubSeq(Window(c), d + 1, Len(Window(c)))
    BY <1>4, AdvancedFacts
  <2>2. Len(Window(c)) = NodeSize(c)
    BY NodeFacts
  <2>3. 1 \in 1 .. m + 1 /\ j - 1 = k
    BY <1>1
  <2> QED
    BY <2>1, <2>2, <2>3, <1>3, <1>4, <1>7, <1>8, Zenon DEF FirstPart
<1>10. PICK l : l = [i \in 1 .. m |-> SubSeq(Later(chunks[j + i]), 1, NodeSize(chunks[j + i]))]
  OBVIOUS
<1>11. ASSUME NEW i \in 1 .. m PROVE l[i] = w[i + 1]
  <2>1. j + i \in 1 .. n /\ j + i \in 2 .. n /\ i + 1 \in 1 .. m + 1
    BY <1>1
  <2>2. PICK a \in ChunkNodes : a = chunks[j + i] /\ a.offset = 0
    BY <2>1, <1>1, <1>2, Zenon DEF Shape
  <2>3. l[i] = SubSeq(a.data, 1, NodeSize(a))
    BY <2>2, <1>10, Zenon DEF Later
  <2>4. w[i + 1] = Window(a)
    BY <2>1, <2>2, <1>7, <1>8, Zenon
  <2>5. 0 + 1 = 1 /\ NodeSize(a) = Len(a.data)
    <3>1. Len(a.data) \in Nat
      BY NodeFacts
    <3>2. Len(a.data) - 0 = Len(a.data)
      BY <3>1
    <3>3. 0 + 1 = 1
      OBVIOUS
    <3> QED
      BY <3>2, <3>3, <2>2, Zenon DEF NodeSize
  <2> QED
    BY <2>2, <2>3, <2>4, <2>5, Zenon DEF Window
<1>12. w # <<>> /\ Head(w) = w[1] /\ Tail(w) \in Seq(Seq(Bytes)) /\ Len(Tail(w)) = m
       /\ \A i \in 1 .. m : Tail(w)[i] = w[i + 1]
  BY <1>8
<1>13. Tail(w) = l
  <2>1. Tail(w) = [i \in 1 .. m |-> Tail(w)[i]]
    <3>1. PICK t \in Seq(Seq(Bytes)) : t = Tail(w) /\ Len(t) = m
      BY <1>12, Zenon
    <3>2. t = [i \in 1 .. m |-> t[i]]
      <4>1. DOMAIN t = 1 .. Len(t) /\ t = [i \in DOMAIN t |-> t[i]]
        OBVIOUS
      <4> QED
        BY <3>1, <4>1, Zenon
    <3> QED
      BY <3>1, <3>2, Zenon
  <2>2. \A i \in 1 .. m : Tail(w)[i] = l[i]
    BY <1>11, <1>12, Zenon
  <2>3. l = [i \in 1 .. m |-> l[i]]
    BY <1>10, Zenon
  <2> QED
    BY <2>1, <2>2, <2>3, Zenon
<1>14. FlattenSeq(w) = Head(w) \o FlattenSeq(Tail(w))
  BY <1>12, FlattenFirst
<1>15. SeenFrom(j, o) = FirstPart(j, o) \o FlattenSeq(l)
  BY <1>1, <1>10, Zenon DEF SeenFrom
<1> QED
  BY <1>1, <1>6, <1>8, <1>9, <1>12, <1>13, <1>14, <1>15, Zenon

LEMMA PeekFacts ==
  ASSUME CHUNK \in Nat \ {0}, chunks \in Seq(ChunkNodes), Shape(chunks),
         NEW o \in Nat, NEW n \in Nat
  PROVE  Peek(o, n) = SubSeq(Content, o + 1, Least(o + n, Len(Content)))
<1>1. PICK x \in Seq(Bytes), L \in Nat : x = Content /\ L = Len(x)
  <2>1. Content \in Seq(Bytes)
    BY ContentIs
  <2>2. Len(Content) \in Nat
    BY <2>1
  <2> QED
    BY <2>1, <2>2, Zenon
<1>2. PICK i : i = AtOffset(o)
  OBVIOUS
<1>3. Peek(o, n) = IF i = 0 THEN <<>> ELSE SubSeq(SeenFrom(i, o), 1, Least(n, Len(SeenFrom(i, o))))
  BY <1>2, Zenon DEF Peek, SeenFrom
<1>4. CASE i = 0 /\ Len(Content) <= o
  <2>1. PICK h \in Int : h = Least(o + n, L) /\ h < o + 1
    <3>1. L <= o
      BY <1>1, <1>4, Zenon
    <3>2. Least(o + n, L) \in Int /\ Least(o + n, L) < o + 1
      BY <3>1 DEF Least
    <3> QED
      BY <3>2, Zenon
  <2>2. PICK a \in Int : a = o + 1
    OBVIOUS
  <2>3. h < a
    BY <2>1, <2>2, Zenon
  <2>4. SubSeq(x, a, h) = <<>>
    BY <2>3, SubSeqEmpty
  <2> QED
    BY <2>1, <2>2, <2>4, <1>1, <1>3, <1>4, Zenon
<1>5. CASE \E k \in Nat : /\ i = k + 1 /\ k < Len(chunks)
                          /\ BytesUpTo(k) <= o /\ o < BytesUpTo(k + 1)
  <2>1. PICK k \in Nat : i = k + 1 /\ k < Len(chunks) /\ BytesUpTo(k) <= o /\ o < BytesUpTo(k + 1)
    BY <1>5, Zenon
  <2>2. SeenFrom(k + 1, o) = SubSeq(Content, o + 1, Len(Content))
    BY <2>1, SeenFacts
  <2>3. o <= L
    <3>1. PICK l \in Nat, j \in Nat : l = Len(chunks) /\ j = k + 1 /\ j <= l
      <4>1. Len(chunks) \in Nat /\ k + 1 \in Nat /\ k + 1 <= Len(chunks)
        BY <2>1
      <4> QED
        BY <4>1, Zenon
    <3>2. BytesUpTo(j) \in Nat /\ BytesUpTo(j) <= BytesUpTo(l)
      <4>1. j <= l /\ j <= Len(chunks) /\ l <= Len(chunks)
        BY <3>1
      <4> QED
        BY <4>1, BytesFacts, BytesGrow
    <3>3. BytesUpTo(l) = L /\ o < BytesUpTo(j)
      BY <3>1, <2>1, <1>1, ContentIs, Zenon
    <3> QED
      BY <3>2, <3>3
  <2>4. PICK s \in Seq(Bytes) : s = SubSeq(x, o + 1, Len(x)) /\ Len(s) = L - o
    <3>1. o <= Len(x)
      BY <2>3, <1>1, Zenon
    <3>2. SubSeq(x, o + 1, Len(x)) \in Seq(Bytes) /\ Len(SubSeq(x, o + 1, Len(x))) = Len(x) - o
      BY <3>1, SuffixFacts
    <3> QED
      BY <3>2, <1>1, Zenon
  <2>5. PICK m \in Nat : m = Least(n, L - o) /\ o + m <= L /\ o + m = Least(o + n, L)
    <3>1. Least(n, L - o) \in Nat /\ o + Least(n, L - o) <= L /\ o + Least(n, L - o) = Least(o + n, L)
      BY <2>3 DEF Least
    <3> QED
      BY <3>1, Zenon
  <2>6. SubSeq(SubSeq(x, o + 1, Len(x)), 1, m) = SubSeq(x, o + 1, o + m)
    <3>1. o <= Len(x) /\ o + m <= Len(x)
      BY <2>3, <2>5, <1>1, Zenon
    <3> QED
      BY <3>1, FirstOfRest
  <2>7. i # 0 /\ SeenFrom(i, o) = s
    <3>1. i # 0
      BY <2>1
    <3> QED
      BY <3>1, <2>1, <2>2, <2>4, <1>1, Zenon
  <2> QED
    BY <2>4, <2>5, <2>6, <2>7, <1>1, <1>3, Zenon
<1>6. \/ i = 0 /\ Len(Content) <= o
      \/ \E k \in Nat : /\ i = k + 1 /\ k < Len(chunks)
                        /\ BytesUpTo(k) <= o /\ o < BytesUpTo(k + 1)
  BY <1>2, AtOffsetFacts
<1> QED
  BY <1>4, <1>5, <1>6, Zenon

-----------------------------------------------------------------------------
(* Only the first chunk has been read from, only the last has room, a      *)
(* chunk without bytes is alone, chunkq->size counts the bytes, no node is *)
(* lost, and chunkq_peek sees what reads would return, whatever appends    *)
(* run out of memory and wherever reads stop: __chunkn_alloc,              *)
(* __chunkn_free, chunkq_append, chunkq_read and chunkq_clear together.    *)
THEOREM ChunksAreKept ==
  Spec => []ChunksKept
<1>1. Init => ChunkQInv
  BY InitInv
<1>2. ChunkQInv /\ [Next]_vars => ChunkQInv'
  BY NextStep
<1>3. ChunkQInv => ChunksKept
  <2> SUFFICES ASSUME ChunkQInv PROVE ChunksKept
    OBVIOUS
  <2>1. chunks \in Seq(ChunkNodes) /\ Shape(chunks)
    BY Zenon DEF ChunkQInv, TypeOK, ChunkShape
  <2>2. ASSUME NEW offset \in 0 .. MaxSize, NEW n \in 0 .. MaxSize
        PROVE  Peek(offset, n) = SubSeq(Content, offset + 1, Least(offset + n, Len(Content)))
    <3>1. offset \in Nat /\ n \in Nat
      OBVIOUS
    <3> QED
      BY <2>1, <3>1, PeekFacts, ChunkQAssumption
  <2> QED
    BY <2>2, Zenon DEF ChunkQInv, ChunksKept, PeekAgrees
<1> QED
  BY <1>1, <1>2, <1>3, PTL DEF Spec

(* The chunk queue implements the byte FIFO: an append puts the bytes it   *)
(* says it wrote behind the others, and a read takes the first ones off,   *)
(* wherever the chunks are cut.                                            *)
THEOREM ChunksImplementFifo ==
  Spec => ImplementsByteFifo
<1>1. Init => ChunkQInv
  BY InitInv
<1>2. ChunkQInv /\ [Next]_vars => ChunkQInv'
  BY NextStep
<1>3. Init => Fifo!FifoInit
  <2> SUFFICES ASSUME Init PROVE Fifo!FifoInit
    OBVIOUS
  <2>1. chunks = <<>> /\ <<>> \in Seq(ChunkNodes)
    BY DEF Init
  <2>2. Content = <<>>
    BY <2>1, ContentIs, ContentOfNone, ChunkQAssumption, Zenon
  <2> QED
    BY <2>2, Zenon DEF Init, Fifo!FifoInit
<1>4. ChunkQInv /\ [Next]_vars => [Fifo!FifoNext]_<<Content, ret>>
  BY NextStep
<1> QED
  BY <1>1, <1>2, <1>3, <1>4, PTL DEF Spec, ImplementsByteFifo, Fifo!FifoSpec
-----------------------------------------------------------------------------
(* chunkq_indexof *)

(* A search between two rounds *)
SearchStates ==
  [found : BOOLEAN, offset : Int, rd : Int, state : {0, 1}, pos : Nat, data : Seq(Bytes),
   index : Int, loop : {"none", "outer", "inner"}]

(* memchr finds the first place of a byte. *)
LEMMA MemChrFacts ==
  ASSUME NEW data \in Seq(Bytes), NEW b, NEW p, p = MemChr(data, b)
  PROVE  /\ p \in 0 .. Len(data)
         /\ p = 0 => \A q \in 1 .. Len(data) : data[q] # b
         /\ p # 0 => data[p] = b /\ \A q \in 1 .. Len(data) : data[q] = b => p <= q
<1>1. PICK I : I = {j \in 1 .. Len(data) : data[j] = b}
  OBVIOUS
<1>2. p = IF I # {} THEN Min(I) ELSE 0
  BY <1>1, Zenon DEF MemChr, SelectInSeq
<1>3. CASE I = {}
  BY <1>1, <1>2, <1>3
<1>4. CASE I # {}
  <2>1. I \subseteq Nat
    BY <1>1
  <2>2. \E x \in I : \A y \in I : x <= y
    BY <1>4, <2>1, LeastNumber
  <2>3. p \in I /\ \A y \in I : p <= y
    BY <1>2, <1>4, <2>2, Zenon DEF Min
  <2>4. p \in 1 .. Len(data) /\ data[p] = b
    BY <1>1, <2>3
  <2>5. \A q \in 1 .. Len(data) : data[q] = b => p <= q
    BY <1>1, <2>3, Zenon
  <2> QED
    BY <2>4, <2>5
<1> QED
  BY <1>3, <1>4

(* The fields of a search after changes of them *)
LEMMA SearchFields ==
  ASSUME NEW s \in SearchStates
  PROVE  /\ s.found \in BOOLEAN /\ s.offset \in Int /\ s.rd \in Int /\ s.state \in {0, 1}
         /\ s.pos \in Nat /\ s.data \in Seq(Bytes) /\ s.index \in Int
         /\ Len(s.data) \in Nat
  BY DEF SearchStates

LEMMA HitFacts ==
  ASSUME NEW s \in SearchStates
  PROVE  /\ Hit(s) \in SearchStates /\ Hit(s).found /\ Hit(s).offset = s.offset
         /\ Hit(s).loop = "none"
  BY DEF Hit, SearchStates

LEMMA SkipFacts ==
  ASSUME NEW s \in SearchStates, NEW n \in Nat
  PROVE  /\ Skip(s, n) \in SearchStates
         /\ Skip(s, n).data = SubSeq(s.data, n + 1, Len(s.data))
         /\ Skip(s, n).found = s.found /\ Skip(s, n).offset = s.offset /\ Skip(s, n).rd = s.rd
         /\ Skip(s, n).state = s.state /\ Skip(s, n).pos = s.pos /\ Skip(s, n).index = s.index
         /\ Skip(s, n).loop = s.loop
<1>1. PICK d \in Seq(Bytes) : d = SubSeq(s.data, n + 1, Len(s.data))
  <2>1. SubSeq(s.data, n + 1, Len(s.data)) \in Seq(Bytes)
    <3>1. s.data \in Seq(Bytes)
      BY SearchFields
    <3>2. \A i \in n + 1 .. Len(s.data) : s.data[i] \in Bytes
      BY <3>1
    <3> QED
      BY <3>1, <3>2
  <2> QED
    BY <2>1
<1>2. Skip(s, n) = [s EXCEPT !.data = d]
  BY <1>1 DEF Skip
<1> QED
  BY <1>1, <1>2 DEF SearchStates

LEMMA RestartFacts ==
  ASSUME NEW s \in SearchStates
  PROVE  Restart(s) \in SearchStates
  BY DEF Restart, SearchStates

(* A round of the outer loop *)
LEMMA OuterFacts ==
  ASSUME NEW s \in SearchStates, NEW needle, NEW p, p = MemChr(s.data, needle[s.pos]),
         NEW r, r = OuterRound(needle, s)
  PROVE  /\ r \in SearchStates
         /\ p = 0 => /\ r.loop = "none" /\ r.found = s.found /\ r.state = s.state
                     /\ r.pos = s.pos /\ r.offset = s.offset
                     /\ s.index < 0 => r.rd = s.rd + Len(s.data)
         /\ p # 0 /\ ~(p > 1 /\ s.state = 1) =>
              /\ r.offset = IF s.state = 0 THEN s.rd + p - 1 ELSE s.offset
              /\ s.pos = Len(needle) => r.loop = "none" /\ r.found
              /\ s.pos # Len(needle) =>
                   /\ r.loop = "inner" /\ r.found = s.found /\ r.state = 1
                   /\ r.pos = s.pos + 1 /\ r.data = SubSeq(s.data, p + 1, Len(s.data))
<1>1. p \in 0 .. Len(s.data) /\ Len(s.data) \in Nat
  BY MemChrFacts, SearchFields
<1>2. p \in Nat /\ p \in Int
  BY <1>1
<1> DEFINE t == [s EXCEPT !.rd = @ + p, !.index = p]
           u == IF t.state = 0 THEN [t EXCEPT !.offset = MatchAt(t), !.state = 1] ELSE t
           v == [u EXCEPT !.pos = @ + 1, !.loop = "inner"]
           m == [s EXCEPT !.rd = IF s.index < 0 THEN @ + Len(s.data) ELSE @, !.loop = "none"]
           w == [Restart(s) EXCEPT !.index = p]
<1>3. r = IF p = 0 THEN m ELSE IF p > 1 /\ s.state = 1 THEN w
          ELSE IF s.pos = Len(needle) THEN Hit(u) ELSE Skip(v, p)
  BY DEF OuterRound
<1>4. /\ t \in SearchStates /\ t.rd = s.rd + p /\ t.state = s.state /\ t.offset = s.offset
      /\ t.found = s.found /\ t.pos = s.pos /\ t.data = s.data
  <2>1. PICK x \in Int : x = s.rd + p
    BY <1>2, SearchFields
  <2>2. t = [s EXCEPT !.rd = x, !.index = p]
    BY <2>1
  <2> HIDE DEF t
  <2> QED
    BY <1>2, <2>1, <2>2 DEF SearchStates
<1>5. /\ u \in SearchStates /\ u.offset = IF s.state = 0 THEN s.rd + p - 1 ELSE s.offset
      /\ u.state = 1 /\ u.found = s.found /\ u.pos = s.pos /\ u.data = s.data
  <2>1. PICK x \in Int : x = t.rd - 1 /\ x = s.rd + p - 1
    <3>1. t.rd - 1 \in Int /\ t.rd - 1 = s.rd + p - 1
      BY <1>2, <1>4, SearchFields
    <3> QED
      BY <3>1
  <2>2. u = IF t.state = 0 THEN [t EXCEPT !.offset = x, !.state = 1] ELSE t
    BY <2>1 DEF MatchAt
  <2> HIDE DEF t, u
  <2>3. CASE s.state = 0
    <3>1. u = [t EXCEPT !.offset = x, !.state = 1]
      BY <1>4, <2>2, <2>3
    <3>2. /\ u \in SearchStates /\ u.offset = x /\ u.state = 1 /\ u.found = t.found
          /\ u.pos = t.pos /\ u.data = t.data
      BY <1>4, <3>1 DEF SearchStates
    <3> QED
      BY <1>4, <2>1, <2>3, <3>2
  <2>4. CASE s.state # 0
    <3>1. u = t
      BY <1>4, <2>2, <2>4
    <3>2. s.state = 1
      BY <2>4, SearchFields
    <3> QED
      BY <1>4, <2>4, <3>1, <3>2
  <2> QED
    BY <2>3, <2>4
<1>6. /\ v \in SearchStates /\ v.offset = u.offset /\ v.state = 1 /\ v.found = s.found
      /\ v.pos = s.pos + 1 /\ v.data = s.data /\ v.loop = "inner"
  <2>1. PICK x \in Nat : x = u.pos + 1
    BY <1>5, SearchFields
  <2>2. v = [u EXCEPT !.pos = x, !.loop = "inner"]
    BY <2>1
  <2> HIDE DEF u, v
  <2>3. /\ v \in SearchStates /\ v.offset = u.offset /\ v.state = u.state /\ v.found = u.found
        /\ v.pos = x /\ v.data = u.data /\ v.loop = "inner"
    BY <1>5, <2>2 DEF SearchStates
  <2> QED
    BY <1>5, <2>1, <2>3
<1>7. /\ m \in SearchStates /\ m.loop = "none" /\ m.found = s.found /\ m.state = s.state
      /\ m.pos = s.pos /\ m.offset = s.offset
      /\ s.index < 0 => m.rd = s.rd + Len(s.data)
  <2>1. PICK x \in Int : x = IF s.index < 0 THEN s.rd + Len(s.data) ELSE s.rd
    BY SearchFields
  <2>2. m = [s EXCEPT !.rd = x, !.loop = "none"]
    BY <2>1
  <2> HIDE DEF m
  <2> QED
    BY <2>1, <2>2 DEF SearchStates
<1>8. w \in SearchStates
  <2>1. Restart(s) \in SearchStates
    BY RestartFacts
  <2> QED
    BY <1>2, <2>1 DEF SearchStates
<1> HIDE DEF u, v, m, w
<1>9. CASE p = 0
  BY <1>3, <1>7, <1>9
<1>10. CASE p # 0 /\ p > 1 /\ s.state = 1
  BY <1>3, <1>8, <1>10
<1>11. CASE p # 0 /\ ~(p > 1 /\ s.state = 1) /\ s.pos = Len(needle)
  BY <1>3, <1>5, <1>11, HitFacts
<1>12. CASE p # 0 /\ ~(p > 1 /\ s.state = 1) /\ s.pos # Len(needle)
  <2>1. r = Skip(v, p)
    BY <1>3, <1>12, Zenon
  <2>2. /\ Skip(v, p) \in SearchStates
        /\ Skip(v, p).data = SubSeq(v.data, p + 1, Len(v.data))
        /\ Skip(v, p).found = v.found /\ Skip(v, p).offset = v.offset
        /\ Skip(v, p).state = v.state /\ Skip(v, p).pos = v.pos /\ Skip(v, p).loop = v.loop
    BY <1>2, <1>6, SkipFacts
  <2>3. /\ r \in SearchStates /\ r.offset = IF s.state = 0 THEN s.rd + p - 1 ELSE s.offset
        /\ r.loop = "inner" /\ r.found = s.found /\ r.state = 1
        /\ r.pos = s.pos + 1 /\ r.data = SubSeq(s.data, p + 1, Len(s.data))
    BY <1>5, <1>6, <2>1, <2>2, Zenon
  <2> QED
    BY <1>12, <2>3, Zenon
<1> QED
  BY <1>9, <1>10, <1>11, <1>12

(* and of the inner loop *)
LEMMA InnerFacts ==
  ASSUME NEW s \in SearchStates, NEW needle, NEW r, r = InnerRound(needle, s)
  PROVE  /\ r \in SearchStates
         /\ s.data = <<>> => /\ r.loop = "none" /\ r.found = s.found /\ r.state = s.state
                             /\ r.pos = s.pos /\ r.offset = s.offset
         /\ s.data # <<>> /\ s.data[1] = needle[s.pos] =>
              /\ r.offset = s.offset
              /\ s.pos = Len(needle) => r.loop = "none" /\ r.found
              /\ s.pos # Len(needle) =>
                   /\ r.loop = s.loop /\ r.found = s.found /\ r.state = s.state
                   /\ r.pos = s.pos + 1 /\ r.data = SubSeq(s.data, 2, Len(s.data))
<1> DEFINE t == [s EXCEPT !.rd = @ + 1]
           v == [t EXCEPT !.pos = @ + 1]
           m == [s EXCEPT !.loop = "none"]
           w == [Restart(t) EXCEPT !.loop = "outer"]
<1>1. r = IF s.data = <<>> THEN m ELSE IF s.data[1] # needle[s.pos] THEN w
          ELSE IF s.pos = Len(needle) THEN Hit(t) ELSE Skip(v, 1)
  BY DEF InnerRound
<1>2. /\ t \in SearchStates /\ t.offset = s.offset /\ t.state = s.state /\ t.found = s.found
      /\ t.pos = s.pos /\ t.data = s.data /\ t.loop = s.loop
  <2>1. s.rd + 1 \in Int
    BY SearchFields
  <2> QED
    BY <2>1 DEF SearchStates
<1>3. /\ v \in SearchStates /\ v.offset = s.offset /\ v.state = s.state /\ v.found = s.found
      /\ v.pos = s.pos + 1 /\ v.data = s.data /\ v.loop = s.loop
  <2>1. t.pos + 1 \in Nat
    BY <1>2, SearchFields
  <2> HIDE DEF t
  <2> QED
    BY <1>2, <2>1 DEF SearchStates
<1>4. /\ m \in SearchStates /\ m.loop = "none" /\ m.found = s.found /\ m.state = s.state
      /\ m.pos = s.pos /\ m.offset = s.offset
  BY DEF SearchStates
<1>5. w \in SearchStates
  <2>1. Restart(t) \in SearchStates
    BY <1>2, RestartFacts
  <2> HIDE DEF t
  <2> QED
    BY <2>1 DEF SearchStates
<1> HIDE DEF t, v, m, w
<1>6. CASE s.data = <<>>
  BY <1>1, <1>4, <1>6
<1>7. CASE s.data # <<>> /\ s.data[1] # needle[s.pos]
  BY <1>1, <1>5, <1>7
<1>8. CASE s.data # <<>> /\ s.data[1] = needle[s.pos] /\ s.pos = Len(needle)
  BY <1>1, <1>2, <1>8, HitFacts
<1>9. CASE s.data # <<>> /\ s.data[1] = needle[s.pos] /\ s.pos # Len(needle)
  <2>1. r = Skip(v, 1)
    BY <1>1, <1>9, Zenon
  <2>2. /\ Skip(v, 1) \in SearchStates
        /\ Skip(v, 1).data = SubSeq(v.data, 2, Len(v.data))
        /\ Skip(v, 1).found = v.found /\ Skip(v, 1).offset = v.offset
        /\ Skip(v, 1).state = v.state /\ Skip(v, 1).pos = v.pos /\ Skip(v, 1).loop = v.loop
    <3>1. PICK n \in Nat : n = 1 /\ n + 1 = 2
      OBVIOUS
    <3>2. /\ Skip(v, n) \in SearchStates
          /\ Skip(v, n).data = SubSeq(v.data, n + 1, Len(v.data))
          /\ Skip(v, n).found = v.found /\ Skip(v, n).offset = v.offset
          /\ Skip(v, n).state = v.state /\ Skip(v, n).pos = v.pos /\ Skip(v, n).loop = v.loop
      BY <1>3, SkipFacts
    <3> QED
      BY <3>1, <3>2, Zenon
  <2>3. /\ r \in SearchStates /\ r.offset = s.offset
        /\ r.loop = s.loop /\ r.found = s.found /\ r.state = s.state
        /\ r.pos = s.pos + 1 /\ r.data = SubSeq(s.data, 2, Len(s.data))
    BY <1>3, <2>1, <2>2, Zenon
  <2> QED
    BY <1>9, <2>3, Zenon
<1> QED
  BY <1>6, <1>7, <1>8, <1>9
-----------------------------------------------------------------------------
(* The bytes D have the first byte of w, from o on, at p, and w is there;  *)
(* or they do not have it, and p is behind them.                           *)
FirstTry(D, o, w, p) ==
  /\ p \in o + 1 .. Len(D) + 1
  /\ \A q \in o + 1 .. Len(D) : q < p => D[q] # w[1]
  /\ p <= Len(D) => /\ p + Len(w) <= Len(D) + 1
                    /\ \A j \in 1 .. Len(w), q \in 1 .. Len(D) : q + 1 = p + j => D[q] = w[j]

(* The search s has seen the first a bytes: it has found w, has not yet    *)
(* seen its first byte, or has seen a part of it.                          *)
Seeking(s, a, p) == ~s.found /\ s.state = 0 /\ s.pos = 1 /\ s.rd = a /\ a < p
Matching(s, a, D, w, p) ==
  /\ ~s.found /\ s.state = 1 /\ s.offset = p - 1
  /\ p <= Len(D) /\ p <= a /\ s.pos = (a - p) + 2 /\ a + 1 < p + Len(w)
Matched(s, D, p) == s.found /\ p <= Len(D) /\ s.offset = p - 1
Between(s, a, D, w, p) == Matched(s, D, p) \/ Seeking(s, a, p) \/ Matching(s, a, D, w, p)

(* d are the bytes of D behind the first a, up to e. *)
Piece(d, D, a, e) ==
  /\ d \in Seq(Bytes) /\ Len(d) = e - a
  /\ \A i \in 1 .. Len(d), q \in 1 .. Len(D) : q = a + i => d[i] = D[q]

LEMMA PieceIs ==
  ASSUME NEW D \in Seq(Bytes), NEW a \in Nat, NEW e \in Nat, a <= e, e <= Len(D)
  PROVE  Piece(SubSeq(D, a + 1, e), D, a, e)
<1>1. SubSeq(D, a + 1, e) \in Seq(Bytes) /\ Len(SubSeq(D, a + 1, e)) = e - a
  BY CutInTwo
<1>2. \A i \in 1 .. e - a : SubSeq(D, a + 1, e)[i] = D[a + i]
  OBVIOUS
<1> QED
  BY <1>1, <1>2 DEF Piece

(* A piece without its first n bytes *)
LEMMA PieceBehind ==
  ASSUME NEW D \in Seq(Bytes), NEW a \in Nat, NEW e \in Nat, a <= e, e <= Len(D),
         NEW d, Piece(d, D, a, e), NEW n \in Nat, n <= e - a
  PROVE  Piece(SubSeq(d, n + 1, Len(d)), D, a + n, e)
<1>1. d \in Seq(Bytes) /\ Len(d) = e - a /\ n <= Len(d)
  BY DEF Piece
<1>2. PICK c : c = SubSeq(d, n + 1, Len(d))
  OBVIOUS
<1>3. c \in Seq(Bytes) /\ Len(c) = Len(d) - n /\ \A i \in 1 .. Len(d) - n : c[i] = d[n + i]
  BY <1>1, <1>2, SuffixFacts
<1>4. Len(c) = e - (a + n)
  BY <1>1, <1>3
<1>5. ASSUME NEW i \in 1 .. Len(c), NEW q \in 1 .. Len(D), q = (a + n) + i PROVE c[i] = D[q]
  <2>1. PICK j \in 1 .. Len(d) : j = n + i /\ q = a + j
    <3>1. n + i \in 1 .. Len(d) /\ q = a + (n + i)
      BY <1>1, <1>3, <1>5
    <3> QED
      BY <3>1
  <2>2. c[i] = d[j]
    BY <1>3, <2>1
  <2>3. d[j] = D[q]
    BY <2>1 DEF Piece
  <2> QED
    BY <2>2, <2>3
<1>6. Piece(c, D, a + n, e)
  BY <1>3, <1>4, <1>5 DEF Piece
<1> QED
  BY <1>2, <1>6

(* Inside a chunk with the bytes behind the first a, up to e, after k      *)
(* rounds                                                                  *)
Starts(s, a, e, D, w, p) ==
  /\ s.loop = "outer" /\ s.index < 0 /\ Piece(s.data, D, a, e)
  /\ Seeking(s, a, p) \/ Matching(s, a, D, w, p)
Compares(s, b, e, D, w, p) ==
  s.loop = "inner" /\ Matching(s, b, D, w, p) /\ Piece(s.data, D, b, e)
Inside(s, k, a, e, D, w, p) ==
  \/ s.loop = "none" /\ Between(s, e, D, w, p)
  \/ k = 0 /\ Starts(s, a, e, D, w, p)
  \/ \E b \in Nat : a + k <= b /\ b <= e /\ Compares(s, b, e, D, w, p)

(* The outer loop looks for the first byte *)
LEMMA OuterSeeks ==
  ASSUME NEW D \in Seq(Bytes), NEW o \in Nat, NEW w \in Seq(Bytes), Len(w) > 0, NEW p, FirstTry(D, o, w, p),
         NEW a \in Nat, NEW e \in Nat, o <= a, a < e, e <= Len(D),
         NEW s \in SearchStates, Starts(s, a, e, D, w, p), Seeking(s, a, p),
         NEW r, r = OuterRound(w, s)
  PROVE  r \in SearchStates /\ Inside(r, 1, a, e, D, w, p)
<1>1. PICK q : q = MemChr(s.data, w[s.pos])
  OBVIOUS
<1>2. PICK d : d = s.data
  OBVIOUS
<1>3. Piece(d, D, a, e) /\ d \in Seq(Bytes) /\ Len(d) = e - a /\ s.pos = 1 /\ s.rd = a /\ s.state = 0
  BY <1>2 DEF Starts, Seeking, Piece
<1>4. p \in Nat /\ o < p /\ p <= Len(D) + 1 /\ a < p /\ Len(D) \in Nat /\ Len(w) \in Nat
  BY DEF FirstTry, Seeking
<1>5. /\ q \in 0 .. Len(d)
      /\ q = 0 => \A i \in 1 .. Len(d) : d[i] # w[1]
      /\ q # 0 => d[q] = w[1] /\ \A i \in 1 .. Len(d) : d[i] = w[1] => q <= i
  BY <1>1, <1>2, <1>3, MemChrFacts, SMTT(30)
<1>6. ASSUME p <= e PROVE p - a \in 1 .. Len(d) /\ d[p - a] = w[1]
  <2>1. PICK i \in 1 .. Len(d) : i = p - a /\ p = a + i /\ p \in 1 .. Len(D)
    <3>1. p - a \in 1 .. Len(d) /\ p = a + (p - a) /\ p \in 1 .. Len(D)
      BY <1>3, <1>4, <1>6
    <3> QED
      BY <3>1
  <2>2. d[i] = D[p]
    BY <1>3, <2>1 DEF Piece
  <2>3. D[p] = w[1]
    <3>1. 1 \in 1 .. Len(w) /\ p + 1 = p + 1 /\ p <= Len(D)
      BY <1>4, <2>1
    <3> QED
      BY <2>1, <3>1 DEF FirstTry
  <2> QED
    BY <2>1, <2>2, <2>3
<1>7. /\ r \in SearchStates
      /\ q = 0 => /\ r.loop = "none" /\ r.found = s.found /\ r.state = s.state
                  /\ r.pos = s.pos /\ r.offset = s.offset /\ r.rd = s.rd + Len(s.data)
      /\ q # 0 => /\ r.offset = s.rd + q - 1
                  /\ s.pos = Len(w) => r.loop = "none" /\ r.found
                  /\ s.pos # Len(w) =>
                       /\ r.loop = "inner" /\ r.found = s.found /\ r.state = 1
                       /\ r.pos = s.pos + 1 /\ r.data = SubSeq(s.data, q + 1, Len(s.data))
  <2>1. s.index < 0 /\ s.state = 0 /\ ~(q > 1 /\ s.state = 1)
    BY <1>3 DEF Starts
  <2>2. /\ r \in SearchStates
        /\ q = 0 => /\ r.loop = "none" /\ r.found = s.found /\ r.state = s.state
                    /\ r.pos = s.pos /\ r.offset = s.offset
                    /\ s.index < 0 => r.rd = s.rd + Len(s.data)
        /\ q # 0 /\ ~(q > 1 /\ s.state = 1) =>
             /\ r.offset = IF s.state = 0 THEN s.rd + q - 1 ELSE s.offset
             /\ s.pos = Len(w) => r.loop = "none" /\ r.found
             /\ s.pos # Len(w) =>
                  /\ r.loop = "inner" /\ r.found = s.found /\ r.state = 1
                  /\ r.pos = s.pos + 1 /\ r.data = SubSeq(s.data, q + 1, Len(s.data))
    BY <1>1, OuterFacts
  <2>3. r.rd = s.rd + Len(s.data) \/ q # 0
    BY <2>1, <2>2, Zenon
  <2> QED
    BY <2>1, <2>2, <2>3, Zenon
<1>8. CASE q = 0
  <2>1. ~(p <= e)
    BY <1>5, <1>6, <1>8
  <2>2. e < p
    BY <1>4, <2>1
  <2>3. r.rd = e
    BY <1>2, <1>3, <1>7, <1>8
  <2>4. Seeking(r, e, p) /\ r.loop = "none"
    BY <1>7, <1>8, <2>2, <2>3 DEF Seeking
  <2> QED
    BY <1>7, <2>4 DEF Inside, Between
<1>9. CASE q # 0
  <2>1. q \in 1 .. Len(d) /\ a + q \in o + 1 .. Len(D) /\ a + q \in 1 .. Len(D)
    BY <1>3, <1>5, <1>9
  <2>2. d[q] = D[a + q]
    BY <1>3, <2>1 DEF Piece
  <2>3. ~(a + q < p)
    BY <1>5, <1>9, <2>1, <2>2 DEF FirstTry
  <2>4. p <= e
    BY <1>3, <1>4, <2>1, <2>3
  <2>5. q <= p - a
    BY <1>5, <1>6, <1>9, <2>4
  <2>6. p = a + q
    BY <1>4, <2>1, <2>3, <2>5
  <2>7. p <= Len(D) /\ r.offset = p - 1
    <3>1. r.offset = a + q - 1 /\ q \in Nat
      BY <1>3, <1>7, <1>9, <2>1
    <3>2. a + q - 1 = p - 1 /\ p <= Len(D)
      BY <1>4, <2>4, <2>6, <3>1
    <3> QED
      BY <3>1, <3>2
  <2>8. CASE s.pos = Len(w)
    <3>1. Matched(r, D, p) /\ r.loop = "none"
      BY <1>7, <1>9, <2>7, <2>8 DEF Matched
    <3> QED
      BY <1>7, <3>1 DEF Inside, Between
  <2>9. CASE s.pos # Len(w)
    <3>1. Matching(r, p, D, w, p)
      <4>1. r.pos = (p - p) + 2 /\ p + 1 < p + Len(w) /\ p <= p
        <5>1. r.pos = 2 /\ Len(w) # 1
          BY <1>3, <1>7, <1>9, <2>9
        <5>2. PICK L \in Nat : L = Len(w)
          BY <1>4
        <5>3. p - p = 0 /\ p <= p /\ p + 1 < p + L
          BY <1>4, <5>1, <5>2
        <5> QED
          BY <5>1, <5>2, <5>3
      <4>2. ~r.found /\ r.state = 1
        BY <1>7, <1>9, <2>9 DEF Seeking
      <4> QED
        BY <2>7, <4>1, <4>2 DEF Matching
    <3>2. Piece(r.data, D, p, e)
      <4>1. q \in Nat /\ q <= e - a /\ a <= e
        BY <1>3, <2>1
      <4>2. Piece(SubSeq(d, q + 1, Len(d)), D, a + q, e)
        BY <1>3, <4>1, PieceBehind
      <4> QED
        BY <1>2, <1>7, <1>9, <2>6, <2>9, <4>2
    <3>3. Compares(r, p, e, D, w, p)
      BY <1>7, <1>9, <2>9, <3>1, <3>2 DEF Compares
    <3>4. a + 1 <= p
      BY <1>4
    <3> QED
      BY <1>4, <1>7, <2>4, <3>3, <3>4 DEF Inside
  <2> QED
    BY <2>8, <2>9
<1> QED
  BY <1>8, <1>9
(* Behind a part of the match, the next byte is the next of it. *)
LEMMA NextByte ==
  ASSUME NEW D \in Seq(Bytes), NEW o \in Nat, NEW w \in Seq(Bytes), NEW p, FirstTry(D, o, w, p),
         NEW a \in Nat, NEW e \in Nat, a < e, e <= Len(D),
         NEW s \in SearchStates, Matching(s, a, D, w, p), Piece(s.data, D, a, e)
  PROVE  /\ s.data \in Seq(Bytes) /\ Len(s.data) = e - a /\ 1 \in 1 .. Len(s.data)
         /\ s.data[1] = w[s.pos] /\ s.pos \in Nat /\ s.pos = (a - p) + 2
         /\ s.pos # Len(w) => (a + 1) + 1 < p + Len(w)
<1>1. PICK d : d = s.data
  OBVIOUS
<1>2. PICK c \in Nat : c = s.pos
  BY SearchFields
<1>3. PICK L \in Nat : L = Len(w)
  OBVIOUS
<1>4. PICK M \in Nat : M = Len(D)
  OBVIOUS
<1>5. PICK P \in Nat : P = p
  BY DEF FirstTry
<1>6. P <= M /\ P <= a /\ c = (a - P) + 2 /\ a + 1 < P + L
  BY <1>2, <1>3, <1>4, <1>5, Zenon DEF Matching
<1>7. d \in Seq(Bytes) /\ Len(d) = e - a
  BY <1>1, Zenon DEF Piece
<1>8. c \in 1 .. L /\ a + 1 \in 1 .. M /\ (a + 1) + 1 = P + c /\ 1 <= e - a /\ e - a \in Nat
  BY <1>4, <1>6
<1>9. 1 \in 1 .. Len(d)
  BY <1>7, <1>8
<1>10. d[1] = D[a + 1]
  BY <1>1, <1>4, <1>8, <1>9 DEF Piece
<1>11. D[a + 1] = w[c]
  <2>1. p <= Len(D) /\ c \in 1 .. Len(w) /\ a + 1 \in 1 .. Len(D) /\ (a + 1) + 1 = p + c
    BY <1>3, <1>4, <1>5, <1>6, <1>8
  <2> QED
    BY <2>1 DEF FirstTry
<1>12. c # L => (a + 1) + 1 < P + L
  BY <1>6, <1>8
<1> QED
  BY <1>1, <1>2, <1>3, <1>5, <1>6, <1>7, <1>9, <1>10, <1>11, <1>12

(* The outer loop goes on with a match that was begun in another chunk. *)
LEMMA OuterMatches ==
  ASSUME NEW D \in Seq(Bytes), NEW o \in Nat, NEW w \in Seq(Bytes), NEW p, FirstTry(D, o, w, p),
         NEW a \in Nat, NEW e \in Nat, a < e, e <= Len(D),
         NEW s \in SearchStates, Starts(s, a, e, D, w, p), Matching(s, a, D, w, p),
         NEW r, r = OuterRound(w, s)
  PROVE  r \in SearchStates /\ Inside(r, 1, a, e, D, w, p)
<1>1. PICK q : q = MemChr(s.data, w[s.pos])
  OBVIOUS
<1>2. Piece(s.data, D, a, e)
  BY DEF Starts
<1>3. /\ s.data \in Seq(Bytes) /\ Len(s.data) = e - a /\ 1 \in 1 .. Len(s.data)
      /\ s.data[1] = w[s.pos] /\ s.pos \in Nat /\ s.pos = (a - p) + 2
      /\ s.pos # Len(w) => (a + 1) + 1 < p + Len(w)
  BY <1>2, NextByte
<1>4. q = 1
  <2>1. /\ q \in 0 .. Len(s.data)
        /\ q = 0 => \A i \in 1 .. Len(s.data) : s.data[i] # w[s.pos]
        /\ q # 0 => \A i \in 1 .. Len(s.data) : s.data[i] = w[s.pos] => q <= i
    BY <1>1, <1>3, MemChrFacts
  <2> QED
    BY <1>3, <2>1
<1>5. /\ r \in SearchStates /\ r.offset = s.offset
      /\ s.pos = Len(w) => r.loop = "none" /\ r.found
      /\ s.pos # Len(w) =>
           /\ r.loop = "inner" /\ r.found = s.found /\ r.state = 1
           /\ r.pos = s.pos + 1 /\ r.data = SubSeq(s.data, 1 + 1, Len(s.data))
  <2>1. s.state = 1 /\ s.state # 0 /\ ~(q > 1 /\ s.state = 1) /\ q # 0
    BY <1>4 DEF Matching
  <2>2. /\ r \in SearchStates
        /\ q # 0 /\ ~(q > 1 /\ s.state = 1) =>
             /\ r.offset = IF s.state = 0 THEN s.rd + q - 1 ELSE s.offset
             /\ s.pos = Len(w) => r.loop = "none" /\ r.found
             /\ s.pos # Len(w) =>
                  /\ r.loop = "inner" /\ r.found = s.found /\ r.state = 1
                  /\ r.pos = s.pos + 1 /\ r.data = SubSeq(s.data, q + 1, Len(s.data))
    BY <1>1, OuterFacts
  <2> QED
    BY <1>4, <2>1, <2>2, Zenon
<1>6. ~s.found /\ s.offset = p - 1 /\ p <= Len(D) /\ p <= a
  BY DEF Matching
<1>7. p \in Nat
  BY DEF FirstTry
<1>8. CASE s.pos = Len(w)
  <2>1. Matched(r, D, p) /\ r.loop = "none"
    BY <1>5, <1>6, <1>8 DEF Matched
  <2> QED
    BY <1>5, <2>1 DEF Inside, Between
<1>9. CASE s.pos # Len(w)
  <2>1. PICK b \in Nat : b = a + 1 /\ b <= e
    <3>1. a + 1 \in Nat /\ a + 1 <= e
      OBVIOUS
    <3> QED
      BY <3>1
  <2>2. r.pos = (b - p) + 2 /\ p <= b /\ b + 1 < p + Len(w)
    BY <1>3, <1>5, <1>6, <1>7, <1>9, <2>1
  <2>3. Matching(r, b, D, w, p)
    BY <1>5, <1>6, <1>9, <2>2 DEF Matching
  <2>4. Piece(r.data, D, b, e)
    <3>1. 1 \in Nat /\ 1 <= e - a /\ a <= e
      OBVIOUS
    <3>2. Piece(SubSeq(s.data, 1 + 1, Len(s.data)), D, a + 1, e)
      BY <1>2, <3>1, PieceBehind
    <3> QED
      BY <1>5, <1>9, <2>1, <3>2, Zenon
  <2>5. Compares(r, b, e, D, w, p)
    BY <1>5, <1>9, <2>3, <2>4 DEF Compares
  <2> QED
    BY <1>5, <2>1, <2>5 DEF Inside
<1> QED
  BY <1>8, <1>9

(* The inner loop compares the next byte, if the chunk has one more. *)
LEMMA InnerKeeps ==
  ASSUME NEW D \in Seq(Bytes), NEW o \in Nat, NEW w \in Seq(Bytes), NEW p, FirstTry(D, o, w, p),
         NEW a \in Nat, NEW e \in Nat, a <= e, e <= Len(D),
         NEW s \in SearchStates, Compares(s, a, e, D, w, p),
         NEW r, r = InnerRound(w, s)
  PROVE  /\ r \in SearchStates
         /\ \/ r.loop = "none" /\ Between(r, e, D, w, p)
            \/ a + 1 <= e /\ Compares(r, a + 1, e, D, w, p)
<1>1. Matching(s, a, D, w, p) /\ Piece(s.data, D, a, e) /\ s.loop = "inner"
  BY DEF Compares
<1>2. ~s.found /\ s.state = 1 /\ s.offset = p - 1 /\ p <= Len(D) /\ p <= a
  BY <1>1 DEF Matching
<1>3. p \in Nat
  BY DEF FirstTry
<1>4. /\ r \in SearchStates
      /\ s.data = <<>> => /\ r.loop = "none" /\ r.found = s.found /\ r.state = s.state
                          /\ r.pos = s.pos /\ r.offset = s.offset
      /\ s.data # <<>> /\ s.data[1] = w[s.pos] =>
           /\ r.offset = s.offset
           /\ s.pos = Len(w) => r.loop = "none" /\ r.found
           /\ s.pos # Len(w) =>
                /\ r.loop = s.loop /\ r.found = s.found /\ r.state = s.state
                /\ r.pos = s.pos + 1 /\ r.data = SubSeq(s.data, 2, Len(s.data))
  BY InnerFacts
<1>5. CASE a = e
  <2>1. s.data = <<>>
    <3>1. s.data \in Seq(Bytes) /\ Len(s.data) = 0
      BY <1>1, <1>5 DEF Piece
    <3> QED
      BY <3>1
  <2>2. Matching(r, e, D, w, p)
    BY <1>1, <1>4, <1>5, <2>1, Zenon DEF Matching
  <2> QED
    BY <1>4, <2>1, <2>2 DEF Between
<1>6. CASE a < e
  <2>1. /\ s.data \in Seq(Bytes) /\ Len(s.data) = e - a /\ 1 \in 1 .. Len(s.data)
        /\ s.data[1] = w[s.pos] /\ s.pos \in Nat /\ s.pos = (a - p) + 2
        /\ s.pos # Len(w) => (a + 1) + 1 < p + Len(w)
    BY <1>1, <1>6, NextByte
  <2>2. s.data # <<>>
    BY <2>1
  <2>3. CASE s.pos = Len(w)
    <3>1. Matched(r, D, p) /\ r.loop = "none"
      BY <1>2, <1>4, <2>1, <2>2, <2>3 DEF Matched
    <3> QED
      BY <1>4, <3>1 DEF Between
  <2>4. CASE s.pos # Len(w)
    <3>1. /\ r.loop = "inner" /\ r.found = s.found /\ r.state = 1 /\ r.offset = p - 1
          /\ r.pos = s.pos + 1 /\ r.data = SubSeq(s.data, 2, Len(s.data))
      BY <1>1, <1>2, <1>4, <2>1, <2>2, <2>4, Zenon
    <3>2. PICK b \in Nat : b = a + 1 /\ b <= e
      <4>1. a + 1 \in Nat /\ a + 1 <= e
        BY <1>6
      <4> QED
        BY <4>1
    <3>3. r.pos = (b - p) + 2 /\ p <= b /\ b + 1 < p + Len(w)
      BY <1>2, <1>3, <2>1, <2>4, <3>1, <3>2
    <3>4. Matching(r, b, D, w, p)
      BY <1>2, <3>1, <3>3 DEF Matching
    <3>5. Piece(r.data, D, b, e)
      <4>1. PICK n \in Nat : n = 1 /\ n <= e - a /\ n + 1 = 2
        <5>1. 1 <= e - a /\ 1 + 1 = 2 /\ 1 \in Nat
          BY <1>6
        <5> QED
          BY <5>1
      <4>2. Piece(SubSeq(s.data, n + 1, Len(s.data)), D, a + n, e)
        BY <1>1, <4>1, PieceBehind
      <4> QED
        BY <3>1, <3>2, <4>1, <4>2, Zenon
    <3>6. Compares(r, b, e, D, w, p)
      BY <3>1, <3>4, <3>5 DEF Compares
    <3> QED
      BY <1>4, <3>2, <3>6
  <2> QED
    BY <2>3, <2>4
<1> QED
  BY <1>5, <1>6
(* A round of either loop *)
LEMMA RoundType ==
  ASSUME NEW s \in SearchStates, NEW w
  PROVE  Round(w, s) \in SearchStates
<1>1. OuterRound(w, s) \in SearchStates
  <2>1. PICK q, r : q = MemChr(s.data, w[s.pos]) /\ r = OuterRound(w, s)
    OBVIOUS
  <2>2. r \in SearchStates
    BY <2>1, OuterFacts
  <2> QED
    BY <2>1, <2>2
<1>2. InnerRound(w, s) \in SearchStates
  <2>1. PICK r : r = InnerRound(w, s)
    OBVIOUS
  <2>2. r \in SearchStates
    BY <2>1, InnerFacts
  <2> QED
    BY <2>1, <2>2
<1> QED
  BY <1>1, <1>2, Zenon DEF Round

LEMMA RoundKeeps ==
  ASSUME NEW D \in Seq(Bytes), NEW o \in Nat, NEW w \in Seq(Bytes), Len(w) > 0, NEW p, FirstTry(D, o, w, p),
         NEW a \in Nat, NEW e \in Nat, o <= a, a < e, e <= Len(D),
         NEW s \in SearchStates, NEW k \in Nat, NEW l \in Nat, l = k + 1,
         Inside(s, k, a, e, D, w, p)
  PROVE  Inside(Round(w, s), l, a, e, D, w, p)
<1>1. PICK r : r = Round(w, s)
  OBVIOUS
<1>2. CASE s.loop = "none" /\ Between(s, e, D, w, p)
  <2>1. r = s
    BY <1>1, <1>2 DEF Round
  <2> QED
    BY <1>1, <1>2, <2>1, Zenon DEF Inside
<1>3. CASE k = 0 /\ Starts(s, a, e, D, w, p)
  <2>1. r = OuterRound(w, s)
    BY <1>1, <1>3 DEF Round, Starts
  <2>2. CASE Seeking(s, a, p)
    <3>1. Inside(r, 1, a, e, D, w, p)
      BY <1>3, <2>1, <2>2, OuterSeeks
    <3> QED
      BY <1>1, <1>3, <3>1
  <2>3. CASE Matching(s, a, D, w, p)
    <3>1. Inside(r, 1, a, e, D, w, p)
      BY <1>3, <2>1, <2>3, OuterMatches
    <3> QED
      BY <1>1, <1>3, <3>1
  <2> QED
    BY <1>3, <2>2, <2>3 DEF Starts
<1>4. CASE \E b \in Nat : a + k <= b /\ b <= e /\ Compares(s, b, e, D, w, p)
  <2>1. PICK b \in Nat : a + k <= b /\ b <= e /\ Compares(s, b, e, D, w, p)
    BY <1>4
  <2>2. r = InnerRound(w, s)
    BY <1>1, <2>1 DEF Round, Compares
  <2>3. \/ r.loop = "none" /\ Between(r, e, D, w, p)
        \/ b + 1 <= e /\ Compares(r, b + 1, e, D, w, p)
    BY <2>1, <2>2, InnerKeeps
  <2>4. CASE r.loop = "none" /\ Between(r, e, D, w, p)
    BY <1>1, <2>4, Zenon DEF Inside
  <2>5. CASE b + 1 <= e /\ Compares(r, b + 1, e, D, w, p)
    <3>1. PICK c \in Nat : c = b + 1 /\ a + l <= c
      <4>1. b + 1 \in Nat /\ a + l <= b + 1
        BY <2>1
      <4> QED
        BY <4>1
    <3> QED
      BY <1>1, <2>5, <3>1 DEF Inside
  <2> QED
    BY <2>3, <2>4, <2>5
<1> QED
  BY <1>2, <1>3, <1>4 DEF Inside

(* What holds of 0, and of k + 1 when it does of k < L, holds of L. *)
LEMMA CountUp ==
  ASSUME NEW L \in Nat, NEW G, 0 \in G, \A k \in Nat : k < L /\ k \in G => k + 1 \in G
  PROVE  L \in G
<1> DEFINE B == {k \in 0 .. L : k \notin G}
<1>1. SUFFICES ASSUME L \notin G PROVE FALSE
  OBVIOUS
<1>2. L \in B /\ B \in SUBSET Nat
  BY <1>1
<1>3. PICK k \in B : \A y \in B : k <= y
  <2> HIDE DEF B
  <2> QED
    BY <1>2, LeastNumber
<1>4. PICK m \in 0 .. L : m < L /\ m < k /\ k = m + 1
  <2>1. k \in 0 .. L /\ k # 0
    BY <1>3
  <2>2. k - 1 \in 0 .. L /\ k - 1 < L /\ k - 1 < k /\ k = (k - 1) + 1
    BY <2>1
  <2> QED
    BY <2>2
<1>5. m \in G
  BY <1>3, <1>4
<1> QED
  BY <1>3, <1>4, <1>5

(* The rounds of __chunkn_search_step with a chunk *)
Entered(s, data) == [s EXCEPT !.data = data, !.index = -1, !.loop = "outer"]
Rounds(g, L, s, data, w) ==
  \A k \in 0 .. L : g[k] = IF k = 0 THEN Entered(s, data) ELSE Round(w, g[k - 1])

LEMMA EnteredFacts ==
  ASSUME NEW s \in SearchStates, NEW data \in Seq(Bytes), NEW x, x = Entered(s, data)
  PROVE  /\ x \in SearchStates /\ x.loop = "outer" /\ x.index = -1 /\ x.data = data
         /\ x.found = s.found /\ x.state = s.state /\ x.pos = s.pos
         /\ x.offset = s.offset /\ x.rd = s.rd
<1>1. -1 \in Int
  OBVIOUS
<1> QED
  BY <1>1 DEF SearchStates, Entered

LEMMA SearchedRounds ==
  ASSUME NEW s \in SearchStates, NEW data \in Seq(Bytes), NEW w,
         NEW L \in Nat, L = 3 * Len(data) + 2
  PROVE  \E g : Rounds(g, L, s, data, w) /\ Searched(w, s, data) = g[L]
<1>1. PICK first \in SearchStates : first = Entered(s, data)
  <2>1. PICK x : x = Entered(s, data)
    OBVIOUS
  <2>2. x \in SearchStates
    BY <2>1, EnteredFacts
  <2> QED
    BY <2>1, <2>2
<1>2. PICK F : F = [q \in SearchStates \X Nat |-> Round(w, q[1])]
  OBVIOUS
<1>3. F \in [SearchStates \X Nat -> SearchStates]
  BY <1>2, RoundType
<1>4. PICK f \in [0 .. L -> SearchStates] : Steps(f, L, first, F)
  BY <1>3, StepsExist
<1> DEFINE G(g) == [k \in 0 .. 3 * Len(data) + 2 |->
                      IF k = 0 THEN [s EXCEPT !.data = data, !.index = -1, !.loop = "outer"]
                      ELSE Round(w, g[k - 1])]
<1>5. f = G(f)
  <2>1. f[0] = first
    BY <1>4 DEF Steps
  <2>2. ASSUME NEW k \in 1 .. L PROVE f[k] = Round(w, f[k - 1])
    <3>1. PICK m \in 0 .. L - 1 : m = k - 1 /\ m + 1 = k
      <4>1. k - 1 \in 0 .. L - 1 /\ (k - 1) + 1 = k
        OBVIOUS
      <4> QED
        BY <4>1
    <3>2. f[m + 1] = F[<<f[m], m>>]
      BY <1>4 DEF Steps
    <3>3. f[m] \in SearchStates /\ m \in Nat
      OBVIOUS
    <3>4. F[<<f[m], m>>] = Round(w, f[m])
      BY <1>2, <3>3
    <3> QED
      BY <3>1, <3>2, <3>4
  <2>3. \A k \in 0 .. L : f[k] = IF k = 0 THEN first ELSE Round(w, f[k - 1])
    BY <2>1, <2>2
  <2>4. f = [k \in 0 .. L |-> IF k = 0 THEN first ELSE Round(w, f[k - 1])]
    BY <2>3
  <2> QED
    BY <1>1, <2>4, Zenon DEF Entered
<1>6. PICK g : g = CHOOSE x : x = G(x)
  OBVIOUS
<1>7. g = G(g)
  BY <1>5, <1>6
<1>8. Searched(w, s, data) = g[L]
  BY <1>6 DEF Searched
<1>9. \A k \in 0 .. L : g[k] = IF k = 0 THEN Entered(s, data) ELSE Round(w, g[k - 1])
  BY <1>7 DEF Entered
<1> HIDE DEF G
<1> QED
  BY <1>8, <1>9 DEF Rounds

LEMMA SearchedType ==
  ASSUME NEW s \in SearchStates, NEW data \in Seq(Bytes), NEW w
  PROVE  Searched(w, s, data) \in SearchStates
<1>1. PICK L \in Nat : L = 3 * Len(data) + 2
  OBVIOUS
<1>2. PICK g : Rounds(g, L, s, data, w) /\ Searched(w, s, data) = g[L]
  BY <1>1, SearchedRounds
<1> DEFINE H == {k \in Nat : g[k] \in SearchStates}
<1>3. 0 \in H
  <2>1. PICK x : x = Entered(s, data)
    OBVIOUS
  <2>2. x \in SearchStates
    BY <2>1, EnteredFacts
  <2>3. g[0] = x
    BY <1>2, <2>1 DEF Rounds
  <2> QED
    BY <2>2, <2>3
<1>4. \A k \in Nat : k < L /\ k \in H => k + 1 \in H
  <2>1. SUFFICES ASSUME NEW k \in Nat, k < L, k \in H PROVE k + 1 \in H
    OBVIOUS
  <2>2. PICK j \in 0 .. L : j = k + 1 /\ j # 0 /\ j - 1 = k
    BY <2>1
  <2>3. g[j] = Round(w, g[k])
    BY <1>2, <2>2 DEF Rounds
  <2>4. g[k] \in SearchStates
    BY <2>1
  <2>5. Round(w, g[k]) \in SearchStates
    BY <2>4, RoundType
  <2> QED
    BY <2>2, <2>3, <2>5
<1>5. L \in H
  <2> HIDE DEF H
  <2> QED
    BY <1>3, <1>4, CountUp
<1> QED
  BY <1>2, <1>5

(* __chunkn_search_step with a chunk: the search goes on. *)
LEMMA SearchedFacts ==
  ASSUME NEW D \in Seq(Bytes), NEW o \in Nat, NEW w \in Seq(Bytes), Len(w) > 0, NEW p, FirstTry(D, o, w, p),
         NEW a \in Nat, NEW e \in Nat, o <= a, a < e, e <= Len(D),
         NEW s \in SearchStates, Seeking(s, a, p) \/ Matching(s, a, D, w, p),
         NEW data \in Seq(Bytes), Piece(data, D, a, e)
  PROVE  Between(Searched(w, s, data), e, D, w, p)
<1>1. data \in Seq(Bytes) /\ Len(data) = e - a
  BY DEF Piece
<1>2. PICK L \in Nat : L = 3 * Len(data) + 2 /\ L = 3 * (e - a) + 2 /\ L # 0
  <2>1. 3 * (e - a) + 2 \in Nat /\ 3 * (e - a) + 2 # 0
    OBVIOUS
  <2> QED
    BY <1>1, <2>1
<1>3. PICK g : Rounds(g, L, s, data, w) /\ Searched(w, s, data) = g[L]
  <2>1. L \in Nat /\ L = 3 * Len(data) + 2
    BY <1>2
  <2>2. \E g : Rounds(g, L, s, data, w) /\ Searched(w, s, data) = g[L]
    BY <2>1, SearchedRounds
  <2> QED
    BY <2>2
<1> DEFINE H == {k \in Nat : g[k] \in SearchStates /\ Inside(g[k], k, a, e, D, w, p)}
<1>4. 0 \in H
  <2>1. PICK x : x = Entered(s, data)
    OBVIOUS
  <2>2. /\ x \in SearchStates /\ x.loop = "outer" /\ x.index = -1 /\ x.data = data
        /\ x.found = s.found /\ x.state = s.state /\ x.pos = s.pos
        /\ x.offset = s.offset /\ x.rd = s.rd
    BY <1>1, <2>1, EnteredFacts
  <2>3. Seeking(x, a, p) \/ Matching(x, a, D, w, p)
    BY <2>2, Zenon DEF Seeking, Matching
  <2>4. x.index < 0
    BY <2>2
  <2>5. Starts(x, a, e, D, w, p)
    BY <2>2, <2>3, <2>4, Zenon DEF Starts
  <2>6. Inside(x, 0, a, e, D, w, p)
    BY <2>5 DEF Inside
  <2>7. g[0] = x
    BY <1>3, <2>1 DEF Rounds
  <2> QED
    BY <2>2, <2>6, <2>7
<1>5. \A k \in Nat : k < L /\ k \in H => k + 1 \in H
  <2>1. SUFFICES ASSUME NEW k \in Nat, k < L, k \in H PROVE k + 1 \in H
    OBVIOUS
  <2>2. PICK j \in Nat : j = k + 1 /\ j \in 0 .. L /\ j # 0 /\ j - 1 = k
    BY <2>1
  <2>3. g[j] = Round(w, g[k])
    BY <1>3, <2>2 DEF Rounds
  <2>4. PICK t \in SearchStates : t = g[k] /\ Inside(t, k, a, e, D, w, p)
    BY <2>1
  <2>5. Round(w, t) \in SearchStates
    BY RoundType
  <2>6. Inside(Round(w, t), j, a, e, D, w, p)
    BY <2>2, <2>4, RoundKeeps
  <2> QED
    BY <2>2, <2>3, <2>4, <2>5, <2>6
<1>6. L \in H
  <2> HIDE DEF H
  <2> QED
    BY <1>4, <1>5, CountUp
<1>7. ~\E b \in Nat : a + L <= b /\ b <= e /\ Compares(g[L], b, e, D, w, p)
  <2>1. ~\E b \in Nat : a + L <= b /\ b <= e
    BY <1>2
  <2> QED
    BY <2>1
<1>8. Inside(g[L], L, a, e, D, w, p)
  BY <1>6
<1>9. Between(g[L], e, D, w, p)
  BY <1>2, <1>7, <1>8, Zenon DEF Inside
<1> QED
  BY <1>3, <1>9-----------------------------------------------------------------------------
(* The bytes of a chunk are those of the queue behind the ones of the      *)
(* chunks before it.                                                       *)
LEMMA InTheMiddle ==
  ASSUME NEW A \in Seq(Bytes), NEW B \in Seq(Bytes), NEW C \in Seq(Bytes),
         NEW D, D = (A \o B) \o C, NEW a, a = Len(A), NEW e, e = Len(A) + Len(B)
  PROVE  Piece(B, D, a, e) /\ a \in Nat /\ e \in Nat /\ D \in Seq(Bytes) /\ e <= Len(D)
<1>1. PICK AB \in Seq(Bytes) : /\ AB = A \o B /\ Len(AB) = Len(A) + Len(B)
                               /\ \A i \in 1 .. Len(A) + Len(B) :
                                    AB[i] = IF i <= Len(A) THEN A[i] ELSE B[i - Len(A)]
  <2>1. /\ A \o B \in Seq(Bytes) /\ Len(A \o B) = Len(A) + Len(B)
        /\ \A i \in 1 .. Len(A) + Len(B) :
             (A \o B)[i] = IF i <= Len(A) THEN A[i] ELSE B[i - Len(A)]
    BY ConcatFacts
  <2> QED
    BY <2>1, Zenon
<1>2. PICK X \in Seq(Bytes) : /\ X = AB \o C /\ Len(X) = Len(AB) + Len(C)
                              /\ \A i \in 1 .. Len(AB) + Len(C) :
                                   X[i] = IF i <= Len(AB) THEN AB[i] ELSE C[i - Len(AB)]
  <2>1. /\ AB \o C \in Seq(Bytes) /\ Len(AB \o C) = Len(AB) + Len(C)
        /\ \A i \in 1 .. Len(AB) + Len(C) :
             (AB \o C)[i] = IF i <= Len(AB) THEN AB[i] ELSE C[i - Len(AB)]
    BY ConcatFacts
  <2> QED
    BY <2>1, Zenon
<1>3. X = D
  BY <1>1, <1>2, Zenon
<1>4. PICK k \in Nat, l \in Nat, m \in Nat :
        k = Len(A) /\ l = Len(B) /\ m = Len(C) /\ a = k /\ e = k + l /\ Len(AB) = k + l /\ Len(X) = k + l + m
  BY <1>1, <1>2
<1>5. ASSUME NEW i \in 1 .. l, NEW q \in Nat, q = k + i PROVE B[i] = X[q]
  <2>1. q \in 1 .. k + l /\ q \in 1 .. (k + l) + m /\ ~(q <= k) /\ q - k = i /\ q <= k + l
    BY <1>5
  <2>2. X[q] = AB[q]
    BY <1>2, <1>4, <2>1
  <2>3. AB[q] = B[i]
    BY <1>1, <1>4, <2>1
  <2> QED
    BY <2>2, <2>3
<1>6. Piece(B, X, a, e)
  <2>1. Len(B) = e - a
    BY <1>4
  <2>2. ASSUME NEW i \in 1 .. Len(B), NEW q \in 1 .. Len(X), q = a + i PROVE B[i] = X[q]
    <3>1. i \in 1 .. l /\ q \in Nat /\ q = k + i
      BY <1>4, <2>2
    <3> QED
      BY <1>5, <3>1
  <2> QED
    BY <2>1, <2>2 DEF Piece
<1> QED
  BY <1>3, <1>4, <1>6

LEMMA WindowPiece ==
  ASSUME CHUNK \in Nat \ {0}, chunks \in Seq(ChunkNodes), NEW i \in Nat, i + 1 <= Len(chunks)
  PROVE  /\ Piece(Window(chunks[i + 1]), Content, BytesUpTo(i), BytesUpTo(i + 1))
         /\ BytesUpTo(i) \in Nat /\ BytesUpTo(i + 1) \in Nat
         /\ BytesUpTo(i + 1) <= Len(Content)
<1>1. PICK n \in Nat, j \in Nat : n = Len(chunks) /\ j = i + 1 /\ i <= j /\ j <= n /\ j \in 1 .. n /\ i <= n
  <2>1. Len(chunks) \in Nat /\ i + 1 \in Nat /\ i <= i + 1 /\ i + 1 \in 1 .. Len(chunks) /\ i <= Len(chunks)
    OBVIOUS
  <2> QED
    BY <2>1
<1>2. PICK c \in ChunkNodes : c = chunks[j]
  <2>1. chunks[j] \in ChunkNodes
    BY <1>1
  <2> QED
    BY <2>1
<1>3. PICK u \in Seq(ChunkNodes), v \in Seq(ChunkNodes), x \in Seq(ChunkNodes), z \in Seq(ChunkNodes) :
        /\ u = SubSeq(chunks, 1, i) /\ v = SubSeq(chunks, 1, j) /\ v = u \o x /\ x = <<c>>
        /\ chunks = v \o z
  <2>1. /\ SubSeq(chunks, 1, i) \in Seq(ChunkNodes) /\ SubSeq(chunks, i + 1, j) \in Seq(ChunkNodes)
        /\ SubSeq(chunks, 1, j) = SubSeq(chunks, 1, i) \o SubSeq(chunks, i + 1, j)
    BY <1>1, CutInTwo
  <2>2. /\ SubSeq(chunks, 1, j) \in Seq(ChunkNodes) /\ SubSeq(chunks, j + 1, n) \in Seq(ChunkNodes)
        /\ SubSeq(chunks, 1, n) = SubSeq(chunks, 1, j) \o SubSeq(chunks, j + 1, n)
    <3>1. n <= Len(chunks) /\ j <= n
      BY <1>1
    <3> QED
      BY <3>1, CutInTwo
  <2>3. SubSeq(chunks, 1, n) = chunks
    BY <1>1
  <2>4. SubSeq(chunks, j, j) = <<chunks[j]>>
    BY <1>1, PieceOfOne
  <2> QED
    BY <1>1, <1>2, <2>1, <2>2, <2>3, <2>4, ZenonT(40)
<1>4. BytesUpTo(i) = Len(ContentOf(u)) /\ BytesUpTo(j) = Len(ContentOf(v))
  BY <1>1, <1>3, BytesFacts
<1>5. PICK A \in Seq(Bytes), B \in Seq(Bytes), C \in Seq(Bytes) :
        A = ContentOf(u) /\ B = Window(c) /\ C = ContentOf(z) /\ ContentOf(x) = B
  <2>1. ContentOf(x) = Window(c) /\ Window(c) \in Seq(Bytes)
    BY <1>3, ContentOfOne, NodeFacts
  <2>2. ContentOf(u) \in Seq(Bytes) /\ ContentOf(z) \in Seq(Bytes)
    BY WindowsFacts
  <2> QED
    BY <2>1, <2>2
<1>6. ContentOf(v) = A \o B /\ Content = (A \o B) \o C
  <2>1. ContentOf(u \o x) = ContentOf(u) \o ContentOf(x)
    BY ContentOfConcat
  <2>2. ContentOf(v \o z) = ContentOf(v) \o ContentOf(z)
    BY ContentOfConcat
  <2>3. Content = ContentOf(chunks)
    BY ContentIs
  <2> QED
    BY <1>3, <1>5, <2>1, <2>2, <2>3, Zenon
<1>7. Len(A \o B) = Len(A) + Len(B)
  OBVIOUS
<1>8. BytesUpTo(i) = Len(A) /\ BytesUpTo(j) = Len(A) + Len(B)
  BY <1>4, <1>5, <1>6, <1>7, Zenon
<1>9. PICK D, a, e : D = Content /\ a = BytesUpTo(i) /\ e = BytesUpTo(j)
  OBVIOUS
<1>10. D = (A \o B) \o C /\ a = Len(A) /\ e = Len(A) + Len(B)
  BY <1>6, <1>8, <1>9, Zenon
<1>11. Piece(B, D, a, e) /\ a \in Nat /\ e \in Nat /\ e <= Len(D)
  BY <1>10, InTheMiddle
<1> QED
  BY <1>1, <1>2, <1>5, <1>9, <1>11, Zenon

(* The bytes of the first chunk from offset on, *)
LEMMA FirstPiece ==
  ASSUME CHUNK \in Nat \ {0}, chunks \in Seq(ChunkNodes), NEW k \in Nat, k + 1 <= Len(chunks),
         NEW o \in Nat, BytesUpTo(k) <= o, o < BytesUpTo(k + 1)
  PROVE  Piece(FirstPart(k + 1, o), Content, o, BytesUpTo(k + 1))
<1>1. PICK c \in ChunkNodes : c = chunks[k + 1]
  <2>1. k + 1 \in 1 .. Len(chunks)
    OBVIOUS
  <2>2. chunks[k + 1] \in ChunkNodes
    BY <2>1
  <2> QED
    BY <2>2
<1>2. PICK d, D \in Seq(Bytes), a \in Nat, e \in Nat :
        /\ d = Window(c) /\ D = Content /\ a = BytesUpTo(k) /\ e = BytesUpTo(k + 1)
        /\ Piece(d, D, a, e) /\ e <= Len(D)
  <2>1. Content \in Seq(Bytes)
    BY ContentIs
  <2>2. /\ Piece(Window(chunks[k + 1]), Content, BytesUpTo(k), BytesUpTo(k + 1))
        /\ BytesUpTo(k) \in Nat /\ BytesUpTo(k + 1) \in Nat /\ BytesUpTo(k + 1) <= Len(Content)
    BY WindowPiece
  <2>3. Window(c) \in Seq(Bytes)
    BY NodeFacts
  <2> QED
    BY <1>1, <2>1, <2>2, <2>3, Zenon
<1>3. PICK n \in Nat : n = o - a /\ n <= e - a /\ a + n = o /\ a <= e
  <2>1. a <= o /\ o < e
    BY <1>2
  <2>2. o - a \in Nat /\ o - a <= e - a /\ a + (o - a) = o /\ a <= e
    BY <2>1
  <2> QED
    BY <2>2
<1>4. Piece(SubSeq(d, n + 1, Len(d)), D, a + n, e)
  BY <1>2, <1>3, PieceBehind
<1>5. Len(d) = NodeSize(c)
  BY <1>2, NodeFacts
<1>6. FirstPart(k + 1, o) = SubSeq(d, n + 1, Len(d))
  <2>1. (k + 1) - 1 = k
    OBVIOUS
  <2> QED
    BY <1>1, <1>2, <1>3, <1>5, <2>1 DEF FirstPart
<1> QED
  BY <1>2, <1>3, <1>4, <1>6, Zenon

(* and those of a later one, which nothing was read from. *)
LEMMA LaterPiece ==
  ASSUME CHUNK \in Nat \ {0}, chunks \in Seq(ChunkNodes), Shape(chunks),
         NEW k \in Nat \ {0}, k + 1 <= Len(chunks)
  PROVE  /\ Piece(SubSeq(Later(chunks[k + 1]), 1, NodeSize(chunks[k + 1])),
                  Content, BytesUpTo(k), BytesUpTo(k + 1))
         /\ BytesUpTo(k) < BytesUpTo(k + 1)
<1>1. PICK c \in ChunkNodes : c = chunks[k + 1] /\ c.offset = 0 /\ NodeSize(c) # 0
  <2>1. k + 1 \in 1 .. Len(chunks) /\ k + 1 \in 2 .. Len(chunks) /\ Len(chunks) # 1
    <3>1. PICK n \in Nat : n = Len(chunks) /\ k + 1 <= n
      OBVIOUS
    <3>2. k + 1 \in 1 .. n /\ k + 1 \in 2 .. n /\ n # 1
      BY <3>1
    <3> QED
      BY <3>1, <3>2
  <2>2. chunks[k + 1] \in ChunkNodes
    BY <2>1
  <2>3. chunks[k + 1].offset = 0 /\ NodeSize(chunks[k + 1]) # 0
    BY <2>1, Zenon DEF Shape
  <2> QED
    BY <2>2, <2>3
<1>2. SubSeq(Later(c), 1, NodeSize(c)) = Window(c)
  <2>1. Len(c.data) \in Nat
    BY NodeFacts
  <2>2. NodeSize(c) = Len(c.data) /\ 0 + 1 = 1
    BY <1>1, <2>1 DEF NodeSize
  <2> QED
    BY <1>1, <2>2, Zenon DEF Later, Window
<1>3. BytesUpTo(k + 1) = BytesUpTo(k) + NodeSize(c) /\ NodeSize(c) \in Nat
  BY <1>1, BytesStep, NodeFacts
<1>4. Piece(Window(chunks[k + 1]), Content, BytesUpTo(k), BytesUpTo(k + 1)) /\ BytesUpTo(k) \in Nat
  BY WindowPiece
<1>5. BytesUpTo(k) < BytesUpTo(k + 1)
  BY <1>1, <1>3, <1>4
<1> QED
  BY <1>1, <1>2, <1>4, <1>5, Zenon
(* chunkq_indexof goes from chunk to chunk until it has found the needle.  *)
FromChunk(j) == SubSeq(Later(chunks[j]), 1, NodeSize(chunks[j]))
StartAt(o) ==
  [found |-> FALSE, offset |-> 0, rd |-> o, state |-> 0, pos |-> 1,
   data |-> <<>>, index |-> -1, loop |-> "none"]
ToChunk(s, j, w) == IF s.found THEN s ELSE Searched(w, s, FromChunk(j))
Walk(g, i, o, w) ==
  \A j \in i .. Len(chunks) :
    g[j] = IF j = i THEN Searched(w, StartAt(o), FirstPart(i, o)) ELSE ToChunk(g[j - 1], j, w)

LEMMA StartFacts ==
  ASSUME NEW o \in Nat
  PROVE  /\ StartAt(o) \in SearchStates /\ ~StartAt(o).found /\ StartAt(o).state = 0
         /\ StartAt(o).pos = 1 /\ StartAt(o).rd = o
<1>1. <<>> \in Seq(Bytes)
  OBVIOUS
<1> QED
  BY <1>1 DEF StartAt, SearchStates

LEMMA ToChunkType ==
  ASSUME CHUNK \in Nat \ {0}, chunks \in Seq(ChunkNodes), Shape(chunks),
         NEW k \in Nat \ {0}, k + 1 <= Len(chunks), NEW s \in SearchStates, NEW w
  PROVE  ToChunk(s, k + 1, w) \in SearchStates
<1>1. FromChunk(k + 1) \in Seq(Bytes)
  BY LaterPiece DEF Piece, FromChunk
<1>2. Searched(w, s, FromChunk(k + 1)) \in SearchStates
  BY <1>1, SearchedType
<1> QED
  BY <1>2, Zenon DEF ToChunk

LEMMA WalkOf ==
  ASSUME CHUNK \in Nat \ {0}, chunks \in Seq(ChunkNodes), Shape(chunks),
         NEW k \in Nat, k + 1 <= Len(chunks), NEW o \in Nat,
         BytesUpTo(k) <= o, o < BytesUpTo(k + 1), k + 1 = AtOffset(o), NEW w
  PROVE  \E g : /\ Walk(g, k + 1, o, w)
                /\ IndexOf(o, w) = IF g[Len(chunks)].found THEN g[Len(chunks)].offset ELSE -1
<1>1. PICK n \in Nat, i \in Nat, m \in Nat :
        /\ n = Len(chunks) /\ i = k + 1 /\ i <= n /\ m = n - i /\ i # 0 /\ i = AtOffset(o)
  <2>1. PICK n \in Nat : n = Len(chunks) /\ k + 1 <= n
    OBVIOUS
  <2>2. k + 1 \in Nat /\ n - (k + 1) \in Nat /\ k + 1 # 0
    BY <2>1
  <2> QED
    BY <2>1, <2>2
<1>2. PICK first \in SearchStates : first = Searched(w, StartAt(o), FirstPart(i, o))
  <2>1. FirstPart(k + 1, o) \in Seq(Bytes)
    BY FirstPiece DEF Piece
  <2>2. StartAt(o) \in SearchStates
    BY StartFacts
  <2>3. Searched(w, StartAt(o), FirstPart(k + 1, o)) \in SearchStates
    BY <2>1, <2>2, SearchedType
  <2> QED
    BY <1>1, <2>3
<1>3. PICK F : F = [q \in SearchStates \X Nat |->
                      IF q[2] < m THEN ToChunk(q[1], (i + q[2]) + 1, w) ELSE q[1]]
  OBVIOUS
<1>4. F \in [SearchStates \X Nat -> SearchStates]
  <2>1. ASSUME NEW s \in SearchStates, NEW j \in Nat, j < m
        PROVE  ToChunk(s, (i + j) + 1, w) \in SearchStates
    <3>1. PICK l \in Nat \ {0} : l = i + j /\ l + 1 <= Len(chunks)
      <4>1. i + j \in Nat \ {0} /\ (i + j) + 1 <= n
        BY <1>1, <2>1
      <4> QED
        BY <1>1, <4>1
    <3> QED
      BY <3>1, ToChunkType
  <2> QED
    BY <1>3, <2>1
<1>5. PICK f \in [0 .. m -> SearchStates] : Steps(f, m, first, F)
  BY <1>2, <1>4, StepsExist
<1> DEFINE G(g) == [j \in AtOffset(o) .. Len(chunks) |->
                      IF j = AtOffset(o) THEN Searched(w, StartAt(o), FirstPart(AtOffset(o), o))
                      ELSE IF g[j - 1].found THEN g[j - 1]
                      ELSE Searched(w, g[j - 1], SubSeq(Later(chunks[j]), 1, NodeSize(chunks[j])))]
<1>6. PICK e : e = [j \in i .. n |-> f[j - i]]
  OBVIOUS
<1>7. ASSUME NEW j \in i .. n
      PROVE  e[j] = IF j = i THEN first ELSE ToChunk(e[j - 1], j, w)
  <2>1. CASE j = i
    <3>1. j - i = 0
      BY <1>1, <2>1
    <3>2. f[0] = first
      BY <1>5 DEF Steps
    <3> QED
      BY <1>6, <2>1, <3>1, <3>2
  <2>2. CASE j # i
    <3>1. PICK t \in 0 .. m - 1 : t + 1 = j - i /\ t = (j - 1) - i /\ (i + t) + 1 = j /\ t < m
      <4>1. (j - i) - 1 \in 0 .. m - 1 /\ ((j - i) - 1) + 1 = j - i /\ (j - i) - 1 = (j - 1) - i
            /\ (i + ((j - i) - 1)) + 1 = j /\ (j - i) - 1 < m
        BY <1>1, <2>2
      <4> QED
        BY <4>1
    <3>2. f[t + 1] = F[<<f[t], t>>]
      BY <1>5 DEF Steps
    <3>3. f[t] \in SearchStates /\ t \in Nat
      OBVIOUS
    <3>4. F[<<f[t], t>>] = ToChunk(f[t], j, w)
      BY <1>3, <3>1, <3>3
    <3>5. j - 1 \in i .. n
      BY <1>1, <2>2
    <3>6. e[j] = f[t + 1] /\ e[j - 1] = f[t]
      BY <1>6, <3>1, <3>5
    <3> QED
      BY <2>2, <3>2, <3>4, <3>6
  <2> QED
    BY <2>1, <2>2
<1>8. e = G(e)
  <2>1. e = [j \in i .. n |-> IF j = i THEN first ELSE ToChunk(e[j - 1], j, w)]
    <3>1. e = [j \in i .. n |-> e[j]]
      BY <1>6
    <3> QED
      BY <1>7, <3>1
  <2> QED
    BY <1>1, <1>2, <2>1, Zenon DEF ToChunk, FromChunk
<1>9. PICK g : g = CHOOSE x : x = G(x)
  OBVIOUS
<1>10. g = G(g)
  BY <1>8, <1>9
<1>11. IndexOf(o, w) = IF g[Len(chunks)].found THEN g[Len(chunks)].offset ELSE -1
  <2>1. IndexOf(o, w) = IF AtOffset(o) = 0 \/ ~g[Len(chunks)].found THEN -1
                        ELSE g[Len(chunks)].offset
    BY <1>9, SMT DEF IndexOf, StartAt
  <2> QED
    BY <1>1, <2>1, Zenon
<1>12. Walk(g, i, o, w)
  BY <1>1, <1>10, Zenon DEF Walk, ToChunk, FromChunk
<1> HIDE DEF G
<1> QED
  BY <1>1, <1>11, <1>12
(* The place where the needle first may be is what chunkq_indexof returns. *)
LEMMA IndexIs ==
  ASSUME CHUNK \in Nat \ {0}, chunks \in Seq(ChunkNodes), Shape(chunks),
         NEW o \in Nat, NEW w \in Seq(Bytes), Len(w) > 0, NEW p, FirstTry(Content, o, w, p),
         NEW k \in Nat, k + 1 <= Len(chunks),
         BytesUpTo(k) <= o, o < BytesUpTo(k + 1), k + 1 = AtOffset(o)
  PROVE  IndexOf(o, w) = IF p <= Len(Content) THEN p - 1 ELSE -1
<1>1. PICK n \in Nat, i \in Nat, m \in Nat : n = Len(chunks) /\ i = k + 1 /\ m = n - i /\ i <= n
  <2>1. PICK n \in Nat : n = Len(chunks) /\ k + 1 <= n
    OBVIOUS
  <2>2. k + 1 \in Nat /\ n - (k + 1) \in Nat
    BY <2>1
  <2> QED
    BY <2>1, <2>2
<1>2. PICK D \in Seq(Bytes), M \in Nat : D = Content /\ M = Len(D) /\ M = BytesUpTo(n)
  <2>1. Content \in Seq(Bytes) /\ Len(Content) = BytesUpTo(Len(chunks))
    BY ContentIs
  <2>2. Len(Content) \in Nat
    BY <2>1
  <2> QED
    BY <1>1, <2>1, <2>2
<1>3. FirstTry(D, o, w, p) /\ p \in Nat /\ o < p /\ p <= M + 1 /\ Len(w) \in Nat
  <2>1. FirstTry(D, o, w, p)
    BY <1>2
  <2>2. p \in o + 1 .. Len(D) + 1
    BY <2>1 DEF FirstTry
  <2> QED
    BY <1>2, <2>1, <2>2
<1>4. PICK g : /\ Walk(g, i, o, w)
               /\ IndexOf(o, w) = IF g[n].found THEN g[n].offset ELSE -1
  <2>1. \E g : /\ Walk(g, k + 1, o, w)
               /\ IndexOf(o, w) = IF g[Len(chunks)].found THEN g[Len(chunks)].offset ELSE -1
    BY WalkOf
  <2> QED
    BY <1>1, <2>1
<1>5. ASSUME NEW j \in Nat, i <= j, j <= n
      PROVE  BytesUpTo(j) \in Nat /\ o < BytesUpTo(j) /\ BytesUpTo(j) <= M
  <2>1. BytesUpTo(j) \in Nat
    BY <1>1, <1>5, BytesFacts
  <2>2. BytesUpTo(i) <= BytesUpTo(j) /\ BytesUpTo(j) <= BytesUpTo(n)
    <3>1. i <= j /\ j <= Len(chunks) /\ j <= n /\ n <= Len(chunks)
      BY <1>1, <1>5
    <3> QED
      BY <3>1, BytesGrow
  <2>3. BytesUpTo(i) \in Nat /\ o < BytesUpTo(i)
    <3>1. i <= Len(chunks)
      BY <1>1
    <3> QED
      BY <1>1, <3>1, BytesFacts
  <2> QED
    BY <1>2, <2>1, <2>2, <2>3
<1> DEFINE Good(j) == g[j] \in SearchStates /\ Between(g[j], BytesUpTo(j), D, w, p)
           H == {t \in Nat : Good(i + t)}
<1>6. Good(i)
  <2>1. PICK s \in SearchStates : s = StartAt(o) /\ Seeking(s, o, p)
    BY <1>3, StartFacts DEF Seeking
  <2>2. PICK e \in Nat, data \in Seq(Bytes) :
          e = BytesUpTo(i) /\ data = FirstPart(i, o) /\ Piece(data, D, o, e) /\ o < e /\ e <= Len(D)
    <3>1. Piece(FirstPart(k + 1, o), Content, o, BytesUpTo(k + 1))
      BY FirstPiece
    <3>2. FirstPart(k + 1, o) \in Seq(Bytes)
      BY <3>1 DEF Piece
    <3>3. BytesUpTo(i) \in Nat /\ o < BytesUpTo(i) /\ BytesUpTo(i) <= M
      BY <1>1, <1>5
    <3> QED
      BY <1>1, <1>2, <3>1, <3>2, <3>3, Zenon
  <2>3. g[i] = Searched(w, s, data)
    <3>1. i \in i .. Len(chunks)
      BY <1>1
    <3> QED
      BY <1>4, <2>1, <2>2, <3>1 DEF Walk
  <2>4. Searched(w, s, data) \in SearchStates
    BY SearchedType
  <2>5. Between(Searched(w, s, data), e, D, w, p)
    <3>1. o <= o
      OBVIOUS
    <3> QED
      BY <1>3, <2>1, <2>2, <3>1, SearchedFacts
  <2> QED
    BY <2>2, <2>3, <2>4, <2>5
<1>7. ASSUME NEW l \in Nat \ {0}, NEW j \in Nat, j = l + 1, i <= l, j <= n, Good(l) PROVE Good(j)
  <2>1. j \in i .. Len(chunks) /\ j # i /\ j - 1 = l /\ l <= n
    BY <1>1, <1>7
  <2>2. PICK s \in SearchStates : s = g[l] /\ Between(s, BytesUpTo(l), D, w, p)
    BY <1>7
  <2> HIDE DEF Good
  <2>3. g[j] = ToChunk(s, j, w)
    BY <1>4, <2>1, <2>2 DEF Walk
  <2>4. PICK a \in Nat, e \in Nat :
          /\ a = BytesUpTo(l) /\ e = BytesUpTo(j) /\ o <= a /\ e <= Len(D)
          /\ Piece(FromChunk(j), D, a, e) /\ a < e
    <3>1. BytesUpTo(l) \in Nat /\ o < BytesUpTo(l)
      BY <1>5, <1>7, <2>1
    <3>2. BytesUpTo(j) \in Nat /\ BytesUpTo(j) <= M
      BY <1>1, <1>5, <1>7
    <3>3. /\ Piece(SubSeq(Later(chunks[l + 1]), 1, NodeSize(chunks[l + 1])),
                   Content, BytesUpTo(l), BytesUpTo(l + 1))
          /\ BytesUpTo(l) < BytesUpTo(l + 1)
      <4>1. l + 1 <= Len(chunks)
        BY <1>1, <1>7
      <4> QED
        BY <4>1, LaterPiece
    <3>4. o <= BytesUpTo(l)
      BY <3>1
    <3> QED
      BY <1>2, <1>7, <3>1, <3>2, <3>3, <3>4, Zenon DEF FromChunk
  <2>5. CASE s.found
    <3>1. Matched(s, D, p)
      BY <2>2, <2>5 DEF Between, Seeking, Matching
    <3>2. g[j] = s
      BY <2>3, <2>5 DEF ToChunk
    <3> QED
      BY <3>1, <3>2 DEF Good, Between
  <2>6. CASE ~s.found
    <3>1. Seeking(s, a, p) \/ Matching(s, a, D, w, p)
      BY <2>2, <2>4, <2>6 DEF Between, Matched
    <3>2. g[j] = Searched(w, s, FromChunk(j))
      BY <2>3, <2>6 DEF ToChunk
    <3>3. PICK data \in Seq(Bytes) : data = FromChunk(j) /\ Piece(data, D, a, e)
      BY <2>4 DEF Piece
    <3>4. Searched(w, s, data) \in SearchStates
      BY SearchedType
    <3>5. Between(Searched(w, s, data), e, D, w, p)
      BY <1>3, <2>4, <3>1, <3>3, SearchedFacts
    <3> QED
      BY <2>4, <3>2, <3>3, <3>4, <3>5 DEF Good
  <2> QED
    BY <2>5, <2>6
<1>8. Good(n)
  <2>1. 0 \in H
    <3>1. i + 0 = i
      BY <1>1
    <3> HIDE DEF Good
    <3> QED
      BY <1>6, <3>1
  <2>2. \A t \in Nat : t < m /\ t \in H => t + 1 \in H
    <3>1. SUFFICES ASSUME NEW t \in Nat, t < m, t \in H PROVE t + 1 \in H
      OBVIOUS
    <3>2. PICK l \in Nat \ {0}, j \in Nat : l = i + t /\ j = l + 1 /\ j = i + (t + 1) /\ i <= l /\ j <= n
      <4>1. /\ i + t \in Nat \ {0} /\ i + (t + 1) \in Nat /\ i + (t + 1) = (i + t) + 1
            /\ i <= i + t /\ i + (t + 1) <= n
        BY <1>1, <3>1
      <4> QED
        BY <4>1
    <3> HIDE DEF Good
    <3>3. Good(l)
      BY <3>1, <3>2
    <3>4. Good(j)
      BY <1>7, <3>2, <3>3
    <3> QED
      BY <3>2, <3>4
  <2>3. m \in H
    <3> HIDE DEF H
    <3> QED
      BY <2>1, <2>2, CountUp
  <2>4. i + m = n
    BY <1>1
  <2> HIDE DEF Good
  <2> QED
    BY <2>3, <2>4
<1>9. PICK s : s = g[n] /\ s \in SearchStates /\ Between(s, M, D, w, p)
  BY <1>2, <1>8
<1>10. CASE Matched(s, D, p)
  BY <1>2, <1>4, <1>9, <1>10 DEF Matched
<1>11. CASE Seeking(s, M, p)
  <2>1. ~(p <= M)
    BY <1>3, <1>11 DEF Seeking
  <2> QED
    BY <1>2, <1>4, <1>9, <1>11, <2>1 DEF Seeking
<1>12. ~Matching(s, M, D, w, p)
  <2>1. SUFFICES ASSUME Matching(s, M, D, w, p) PROVE FALSE
    OBVIOUS
  <2>2. p <= Len(D) /\ M + 1 < p + Len(w)
    BY <2>1 DEF Matching
  <2>3. p + Len(w) <= Len(D) + 1
    BY <1>3, <2>2 DEF FirstTry
  <2> QED
    BY <1>2, <1>3, <2>2, <2>3
<1> QED
  BY <1>9, <1>10, <1>11, <1>12 DEF Between
(* Behind all the bytes nothing is found. *)
LEMMA IndexPast ==
  ASSUME NEW o, AtOffset(o) = 0, NEW w
  PROVE  IndexOf(o, w) = -1
  BY SMT DEF IndexOf

LEMMA IndexFacts ==
  ASSUME CHUNK \in Nat \ {0}, chunks \in Seq(ChunkNodes), Shape(chunks),
         NEW o \in Nat, NEW w \in Seq(Bytes), Len(w) > 0, NEW p, FirstTry(Content, o, w, p)
  PROVE  IndexOf(o, w) = IF p <= Len(Content) THEN p - 1 ELSE -1
<1>1. PICK i : i = AtOffset(o)
  OBVIOUS
<1>2. \/ i = 0 /\ Len(Content) <= o
      \/ \E k \in Nat : /\ i = k + 1 /\ k < Len(chunks)
                        /\ BytesUpTo(k) <= o /\ o < BytesUpTo(k + 1)
  BY <1>1, AtOffsetFacts
<1>3. CASE i = 0 /\ Len(Content) <= o
  <2>1. Len(Content) \in Nat
    <3>1. Content \in Seq(Bytes)
      BY ContentIs
    <3> QED
      BY <3>1
  <2>2. p \in o + 1 .. Len(Content) + 1
    BY DEF FirstTry
  <2>3. ~(p <= Len(Content))
    BY <1>3, <2>1, <2>2
  <2> QED
    BY <1>1, <1>3, <2>3, IndexPast
<1>4. CASE \E k \in Nat : /\ i = k + 1 /\ k < Len(chunks)
                          /\ BytesUpTo(k) <= o /\ o < BytesUpTo(k + 1)
  <2>1. PICK k \in Nat : /\ i = k + 1 /\ k < Len(chunks)
                         /\ BytesUpTo(k) <= o /\ o < BytesUpTo(k + 1)
    BY <1>4
  <2>2. k + 1 <= Len(chunks) /\ k + 1 = AtOffset(o)
    BY <1>1, <2>1
  <2> QED
    BY <2>1, <2>2, IndexIs
<1> QED
  BY <1>2, <1>3, <1>4

(* The first place of a byte behind offset *)
LEMMA FirstPlaceFacts ==
  ASSUME NEW D \in Seq(Bytes), D = Content, NEW o \in Nat, NEW b, NEW p, p = FirstPlace(o, b)
  PROVE  /\ p \in 0 .. Len(D)
         /\ p = 0 => \A q \in o + 1 .. Len(D) : D[q] # b
         /\ p # 0 => p > o /\ D[p] = b /\ \A q \in o + 1 .. Len(D) : D[q] = b => p <= q
<1>1. PICK f : f = [i \in 1 .. Len(D) |-> <<i, D[i]>>] /\ Len(f) = Len(D)
               /\ \A i \in 1 .. Len(D) : f[i] = <<i, D[i]>>
  <2>1. PICK f : f = [i \in 1 .. Len(D) |-> <<i, D[i]>>]
    OBVIOUS
  <2>2. Len(f) = Len(D) /\ \A i \in 1 .. Len(D) : f[i] = <<i, D[i]>>
    BY <2>1
  <2> QED
    BY <2>1, <2>2, Zenon
<1>2. PICK I : I = {i \in 1 .. Len(f) : f[i][1] > o /\ f[i][2] = b}
  OBVIOUS
<1>3. p = IF I # {} THEN Min(I) ELSE 0
  BY <1>1, <1>2, Zenon DEF FirstPlace, SelectInSeq
<1>4. \A i : i \in I <=> i \in 1 .. Len(D) /\ i > o /\ D[i] = b
  BY <1>1, <1>2
<1>5. CASE I = {}
  <2>1. ASSUME NEW q \in o + 1 .. Len(D) PROVE D[q] # b
    <3>1. q \in 1 .. Len(D) /\ q > o
      OBVIOUS
    <3> QED
      BY <1>4, <1>5, <3>1
  <2> QED
    BY <1>3, <1>5, <2>1
<1>6. CASE I # {}
  <2>1. I \subseteq Nat
    BY <1>4
  <2>2. \E x \in I : \A y \in I : x <= y
    BY <1>6, <2>1, LeastNumber
  <2>3. p \in I /\ \A y \in I : p <= y
    BY <1>3, <1>6, <2>2, Zenon DEF Min
  <2>4. p \in 1 .. Len(D) /\ p > o /\ D[p] = b
    BY <1>4, <2>3
  <2>5. ASSUME NEW q \in o + 1 .. Len(D), D[q] = b PROVE p <= q
    <3>1. q \in 1 .. Len(D) /\ q > o
      OBVIOUS
    <3> QED
      BY <1>4, <2>3, <2>5, <3>1
  <2> QED
    BY <2>4, <2>5
<1> QED
  BY <1>5, <1>6

(* The bytes from p on are w. *)
LEMMA NeedleThere ==
  ASSUME NEW D \in Seq(Bytes), NEW w \in Seq(Bytes), Len(w) > 0, NEW p \in 1 .. Len(D),
         SubSeq(D, p, Least(p + Len(w) - 1, Len(D))) = w
  PROVE  /\ p + Len(w) <= Len(D) + 1
         /\ \A j \in 1 .. Len(w), q \in 1 .. Len(D) : q + 1 = p + j => D[q] = w[j]
<1>1. PICK L \in Nat, M \in Nat : L = Len(w) /\ M = Len(D) /\ L > 0
  OBVIOUS
<1>2. PICK e \in Nat : e = Least(p + Len(w) - 1, Len(D)) /\ e <= M /\ p <= e /\ e <= p + L - 1
                       /\ (e = M \/ e = p + L - 1)
  <2>1. PICK x \in Nat : x = p + Len(w) - 1 /\ p <= x
    <3>1. p + L - 1 \in Nat /\ p <= p + L - 1
      BY <1>1
    <3> QED
      BY <1>1, <3>1
  <2>2. PICK e : e = Least(x, M)
    OBVIOUS
  <2>3. e \in Nat /\ e <= M /\ p <= e /\ e <= x /\ (e = M \/ e = x)
    BY <1>1, <2>1, <2>2 DEF Least
  <2> QED
    BY <1>1, <2>1, <2>2, <2>3
<1>3. /\ Len(w) = e - p + 1
      /\ \A j \in 1 .. e - p + 1 : w[j] = D[p + j - 1]
  <2>1. p \in Int /\ e \in Int /\ \A i \in p .. e : D[i] \in Bytes
    BY <1>1, <1>2
  <2>2. /\ Len(SubSeq(D, p, e)) = IF p <= e THEN e - p + 1 ELSE 0
        /\ \A j \in 1 .. e - p + 1 : SubSeq(D, p, e)[j] = D[p + j - 1]
    BY <2>1, SubSeqProperties
  <2> QED
    BY <1>2, <2>2
<1>4. L = e - p + 1
  BY <1>1, <1>3
<1>5. p + L <= M + 1
  BY <1>2, <1>4
<1>6. ASSUME NEW j \in 1 .. Len(w), NEW q \in 1 .. Len(D), q + 1 = p + j PROVE D[q] = w[j]
  <2>1. j \in 1 .. e - p + 1 /\ p + j - 1 = q
    BY <1>1, <1>3, <1>6
  <2> QED
    BY <1>3, <2>1
<1> QED
  BY <1>1, <1>5, <1>6

(* When the needle occurs where its first byte first occurs, that place is *)
(* found in whichever chunks it lies, and without that byte nothing is: in *)
(* every state of the queue, for every size of its chunks.                 *)
THEOREM SearchFindsFirstTry ==
  Spec => []IndexOfFirstTry
<1>1. Init => ChunkQInv
  BY InitInv
<1>2. ChunkQInv /\ [Next]_vars => ChunkQInv'
  BY NextStep
<1>3. ChunkQInv => IndexOfFirstTry
  <2> SUFFICES ASSUME ChunkQInv PROVE IndexOfFirstTry
    OBVIOUS
  <2>1. CHUNK \in Nat \ {0} /\ chunks \in Seq(ChunkNodes) /\ Shape(chunks)
    BY ChunkQAssumption, Zenon DEF ChunkQInv, TypeOK, ChunkShape
  <2>2. PICK D \in Seq(Bytes), M \in Nat : D = Content /\ M = Len(D)
    <3>1. Content \in Seq(Bytes)
      BY <2>1, ContentIs
    <3> QED
      BY <3>1
  <2>3. ASSUME NEW o \in 0 .. MaxSize, NEW w \in Needles, NEW p, p = FirstPlace(o, w[1])
        PROVE  /\ p = 0 => IndexOf(o, w) = -1
               /\ /\ p > 0
                  /\ SubSeq(Content, p, Least(p + Len(w) - 1, Len(Content))) = w
                  => IndexOf(o, w) = p - 1
    <3>1. o \in Nat /\ w \in Seq(Bytes) /\ Len(w) > 0
      <4>1. PICK n \in 1 .. 3 : w \in [1 .. n -> Bytes]
        BY Zenon DEF Needles
      <4>2. w \in Seq(Bytes) /\ Len(w) = n
        BY <4>1
      <4>3. o \in Nat
        OBVIOUS
      <4> QED
        BY <4>2, <4>3
    <3>2. /\ p \in 0 .. M
          /\ p = 0 => \A q \in o + 1 .. M : D[q] # w[1]
          /\ p # 0 => p > o /\ D[p] = w[1] /\ \A q \in o + 1 .. M : D[q] = w[1] => p <= q
      BY <2>2, <2>3, <3>1, FirstPlaceFacts
    <3>3. CASE p = 0 /\ M <= o
      <4>1. PICK i : i = AtOffset(o)
        OBVIOUS
      <4>2. \/ i = 0 /\ Len(Content) <= o
            \/ \E k \in Nat : /\ i = k + 1 /\ k < Len(chunks)
                              /\ BytesUpTo(k) <= o /\ o < BytesUpTo(k + 1)
        BY <2>1, <3>1, <4>1, AtOffsetFacts
      <4>3. i = 0
        <5>1. SUFFICES ASSUME NEW k \in Nat, k < Len(chunks), o < BytesUpTo(k + 1) PROVE FALSE
          BY <4>2
        <5>2. BytesUpTo(k + 1) \in Nat /\ BytesUpTo(k + 1) <= Len(Content)
          <6>1. k + 1 <= Len(chunks)
            BY <2>1, <5>1
          <6> QED
            BY <2>1, <6>1, WindowPiece
        <5> QED
          BY <2>2, <3>1, <3>3, <5>1, <5>2
      <4>4. IndexOf(o, w) = -1
        BY <4>1, <4>3, IndexPast, Zenon
      <4>5. ~(p > 0)
        BY <3>3
      <4> QED
        BY <4>4, <4>5
    <3>4. CASE p = 0 /\ ~(M <= o)
      <4>1. PICK r \in Nat : r = M + 1 /\ ~(r <= M) /\ r \in o + 1 .. M + 1
        <5>1. M + 1 \in Nat /\ ~(M + 1 <= M) /\ M + 1 \in o + 1 .. M + 1
          BY <3>1, <3>4
        <5> QED
          BY <5>1
      <4>2. FirstTry(Content, o, w, r)
        BY <2>2, <3>2, <3>4, <4>1, Zenon DEF FirstTry
      <4>3. IndexOf(o, w) = IF r <= Len(Content) THEN r - 1 ELSE -1
        BY <2>1, <3>1, <4>2, IndexFacts
      <4> QED
        BY <2>2, <3>4, <4>1, <4>3
    <3>5. CASE p > 0 /\ SubSeq(Content, p, Least(p + Len(w) - 1, Len(Content))) = w
      <4>1. p \in 1 .. Len(D) /\ p \in o + 1 .. M + 1 /\ p # 0
        BY <2>2, <3>1, <3>2, <3>5
      <4>2. /\ p + Len(w) <= Len(D) + 1
            /\ \A j \in 1 .. Len(w), q \in 1 .. Len(D) : q + 1 = p + j => D[q] = w[j]
        BY <2>2, <3>1, <3>5, <4>1, NeedleThere
      <4>3. ASSUME NEW q \in o + 1 .. M, q < p PROVE D[q] # w[1]
        <5>1. ~(p <= q)
          BY <4>1, <4>3, <3>1
        <5> QED
          BY <3>2, <4>1, <5>1
      <4>4. FirstTry(D, o, w, p)
        BY <2>2, <4>1, <4>2, <4>3, Zenon DEF FirstTry
      <4>5. IndexOf(o, w) = IF p <= Len(Content) THEN p - 1 ELSE -1
        BY <2>1, <2>2, <3>1, <4>4, IndexFacts
      <4>6. p <= Len(Content) /\ p # 0
        BY <2>2, <4>1
      <4> QED
        BY <4>5, <4>6, Zenon
    <3> QED
      BY <3>2, <3>3, <3>4, <3>5
  <2> QED
    BY <2>3, Zenon DEF IndexOfFirstTry
<1> QED
  BY <1>1, <1>2, <1>3, PTL DEF Spec

-----------------------------------------------------------------------------
(* mpool.c *)

ChunkType == [at : Nat, size : Nat, used : BOOLEAN]

(* The chunks cs fill the pool, *)
Tiles(cs) ==
  /\ cs # <<>> /\ cs[1].at = HEADER /\ Pool!End(cs[Len(cs)]) = POOL
  /\ \A i, j \in 1 .. Len(cs) : j = i + 1 => cs[j].at = Pool!End(cs[i]) + HEADER

(* and the used ones are the blocks h that clients hold. *)
BlockOf(chunk, h) ==
  IF chunk.used THEN chunk.at \in DOMAIN h /\ h[chunk.at] <= chunk.size
  ELSE chunk.at \notin DOMAIN h
Blocks(cs, h) ==
  /\ \A i \in 1 .. Len(cs) : BlockOf(cs[i], h)
  /\ \A a \in DOMAIN h : h[a] \in Nat /\ \E i \in 1 .. Len(cs) : cs[i].at = a

Kept(cs, h) == cs \in Seq(ChunkType) /\ Tiles(cs) /\ Blocks(cs, h)

LEMMA PoolTypes ==
  ASSUME NEW chunk \in ChunkType
  PROVE  /\ chunk.at \in Nat /\ chunk.size \in Nat
         /\ Pool!End(chunk) \in Nat /\ Pool!End(chunk) = chunk.at + chunk.size
         /\ chunk.at <= Pool!End(chunk)
  BY DEF ChunkType, Pool!End

LEMMA PoolAscends ==
  ASSUME NEW cs \in Seq(ChunkType), Tiles(cs),
         NEW i \in 1 .. Len(cs), NEW j \in 1 .. Len(cs), i < j
  PROVE  Pool!End(cs[i]) + HEADER <= cs[j].at
<1> DEFINE B == {k \in 1 .. Len(cs) : i < k /\ ~(Pool!End(cs[i]) + HEADER <= cs[k].at)}
<1>1. SUFFICES ASSUME B # {} PROVE FALSE
  OBVIOUS
<1>2. PICK k \in B : \A y \in B : k <= y
  <2>1. B \in SUBSET Nat
    OBVIOUS
  <2> HIDE DEF B
  <2> QED
    BY <1>1, <2>1, LeastNumber
<1>3. PICK m \in 1 .. Len(cs) : k = m + 1 /\ i <= m
  <2>1. k - 1 \in 1 .. Len(cs) /\ k = (k - 1) + 1 /\ i <= k - 1
    BY <1>2
  <2> QED
    BY <2>1
<1>4. cs[k].at = Pool!End(cs[m]) + HEADER
  BY <1>2, <1>3 DEF Tiles
<1>5. /\ Pool!End(cs[i]) \in Nat /\ Pool!End(cs[m]) \in Nat /\ cs[m].at \in Nat
      /\ cs[m].at <= Pool!End(cs[m]) /\ HEADER \in Nat
  <2>1. cs[i] \in ChunkType /\ cs[m] \in ChunkType
    OBVIOUS
  <2>2. \A chunk \in ChunkType : Pool!End(chunk) \in Nat /\ chunk.at \in Nat /\ chunk.at <= Pool!End(chunk)
    BY PoolTypes
  <2> QED
    BY <2>1, <2>2, PoolAssumption
<1>6. CASE i = m
  BY <1>2, <1>4, <1>5, <1>6
<1>7. CASE i < m
  <2>1. m \notin B
    BY <1>2, <1>3
  <2>2. Pool!End(cs[i]) + HEADER <= cs[m].at
    BY <1>7, <2>1
  <2> QED
    BY <1>2, <1>4, <1>5, <2>2
<1> QED
  BY <1>3, <1>6, <1>7

(* An address is that of one chunk. *)
LEMMA PoolDistinct ==
  ASSUME NEW cs \in Seq(ChunkType), Tiles(cs),
         NEW i \in 1 .. Len(cs), NEW j \in 1 .. Len(cs), cs[i].at = cs[j].at
  PROVE  i = j
<1>1. cs[i] \in ChunkType /\ cs[j] \in ChunkType /\ HEADER \in Nat \ {0}
  BY PoolAssumption
<1>2. ~(i < j)
  <2>1. SUFFICES ASSUME i < j PROVE FALSE
    OBVIOUS
  <2>2. Pool!End(cs[i]) + HEADER <= cs[j].at
    BY <2>1, PoolAscends
  <2> QED
    BY <1>1, <2>2 DEF Pool!End, ChunkType
<1>3. ~(j < i)
  <2>1. SUFFICES ASSUME j < i PROVE FALSE
    OBVIOUS
  <2>2. Pool!End(cs[j]) + HEADER <= cs[i].at
    BY <2>1, PoolAscends
  <2> QED
    BY <1>1, <2>2 DEF Pool!End, ChunkType
<1> QED
  BY <1>2, <1>3

(* The chunks of the pool lie in it. *)
LEMMA PoolLast ==
  ASSUME NEW cs \in Seq(ChunkType), Tiles(cs), NEW i \in 1 .. Len(cs)
  PROVE  Pool!End(cs[i]) <= POOL
<1>1. Len(cs) \in 1 .. Len(cs)
  OBVIOUS
<1>2. CASE i = Len(cs)
  BY <1>2, PoolAssumption DEF Tiles
<1>3. CASE i # Len(cs)
  <2>1. Pool!End(cs[i]) + HEADER <= cs[Len(cs)].at
    BY <1>1, <1>3, PoolAscends
  <2>2. cs[i] \in ChunkType /\ cs[Len(cs)] \in ChunkType
    BY <1>1
  <2> QED
    BY <2>1, <2>2, PoolAssumption DEF Tiles, Pool!End, ChunkType
<1> QED
  BY <1>2, <1>3

-----------------------------------------------------------------------------
(* ms are the chunks cs with chunk i and the next one, n, merged. *)
IsMerged(ms, cs, i, n) ==
  /\ ms \in Seq(ChunkType) /\ Len(cs) = Len(ms) + 1 /\ n = i + 1
  /\ i \in 1 .. Len(ms) /\ n \in 1 .. Len(cs)
  /\ \A j \in 1 .. Len(ms), k \in 1 .. Len(cs) :
       (j < i /\ k = j) \/ (j > i /\ k = j + 1) => ms[j] = cs[k]
  /\ ms[i].at = cs[i].at /\ ms[i].used = cs[i].used
  /\ ms[i].size = cs[i].size + cs[n].size + HEADER

LEMMA PoolMerged ==
  ASSUME NEW cs \in Seq(ChunkType), NEW i \in 1 .. Len(cs), i + 1 <= Len(cs)
  PROVE  IsMerged(Pool!Merged(cs, i), cs, i, i + 1)
<1>1. PICK n \in 1 .. Len(cs) : n = i + 1
  OBVIOUS
<1>2. PICK b \in Nat, L \in Nat : b = i - 1 /\ b <= Len(cs) /\ L = Len(cs)
  <2>1. i - 1 \in Nat /\ i - 1 <= Len(cs) /\ Len(cs) \in Nat
    OBVIOUS
  <2> QED
    BY <2>1
<1>3. PICK f : f = SubSeq(cs, 1, b)
  OBVIOUS
<1>4. f \in Seq(ChunkType) /\ Len(f) = b /\ \A j \in 1 .. b : f[j] = cs[j]
  BY <1>2, <1>3, PrefixFacts
<1>5. PICK r : r = SubSeq(cs, n + 1, L)
  OBVIOUS
<1>6. r \in Seq(ChunkType) /\ Len(r) = L - n /\ \A j \in 1 .. L - n : r[j] = cs[n + j]
  BY <1>1, <1>2, <1>5, SuffixFacts
<1>7. PICK e \in ChunkType : e = Pool!Chunk(cs[i].at, cs[i].size + cs[n].size + HEADER, cs[i].used)
  <2>0. cs[i] \in ChunkType /\ cs[n] \in ChunkType
    OBVIOUS
  <2>1. cs[i].used \in BOOLEAN
    BY <2>0 DEF ChunkType
  <2>3. cs[i].at \in Nat /\ cs[i].size + cs[n].size + HEADER \in Nat
    <3>1. cs[i].at \in Nat
      BY <2>0 DEF ChunkType
    <3>2. cs[i].size \in Nat /\ cs[n].size \in Nat
      BY <2>0 DEF ChunkType
    <3> QED
      BY <3>1, <3>2, PoolAssumption, SMTT(30)
  <2>2. Pool!Chunk(cs[i].at, cs[i].size + cs[n].size + HEADER, cs[i].used) \in ChunkType
    BY <2>1, <2>3 DEF Pool!Chunk, ChunkType
  <2> QED
    BY <2>2
<1>8. PICK ms : ms = f \o <<e>> \o r
  OBVIOUS
<1>9. ms = Pool!Merged(cs, i)
  <2>1. i + 2 = n + 1
    BY <1>1
  <2> QED
    BY <1>1, <1>2, <1>3, <1>5, <1>7, <1>8, <2>1 DEF Pool!Merged
<1>10. PICK g : g = f \o <<e>>
  OBVIOUS
<1>11. <<e>> \in Seq(ChunkType) /\ Len(<<e>>) = 1 /\ <<e>>[1] = e
  OBVIOUS
<1>12. /\ g \in Seq(ChunkType) /\ Len(g) = i
       /\ \A j \in 1 .. i : g[j] = IF j <= b THEN f[j] ELSE <<e>>[j - b]
  BY <1>2, <1>4, <1>10, <1>11, ConcatFacts
<1>13. g[i] = e /\ \A j \in 1 .. b : g[j] = cs[j]
  BY <1>2, <1>4, <1>11, <1>12, SMTT(30)
<1>14. /\ ms \in Seq(ChunkType) /\ Len(ms) = i + (L - n)
       /\ \A j \in 1 .. Len(ms) : ms[j] = IF j <= i THEN g[j] ELSE r[j - i]
  <2>1. ms = g \o r
    BY <1>8, <1>10
  <2>2. Len(g) + Len(r) = i + (L - n)
    BY <1>1, <1>2, <1>6, <1>12
  <2>3. g \in Seq(ChunkType) /\ r \in Seq(ChunkType)
    BY <1>6, <1>12
  <2>4. /\ g \o r \in Seq(ChunkType) /\ Len(g \o r) = Len(g) + Len(r)
        /\ \A j \in 1 .. Len(g) + Len(r) :
             (g \o r)[j] = IF j <= Len(g) THEN g[j] ELSE r[j - Len(g)]
    BY <2>3, ConcatFacts
  <2> QED
    BY <1>12, <2>1, <2>2, <2>4
<1>15. Len(cs) = Len(ms) + 1 /\ i \in 1 .. Len(ms)
  BY <1>1, <1>2, <1>14
<1>16. ms[i] = e
  BY <1>13, <1>14, <1>15
<1>17. ASSUME NEW j \in 1 .. Len(ms), NEW k \in 1 .. Len(cs), j < i, k = j
       PROVE  ms[j] = cs[k]
  BY <1>2, <1>13, <1>14, <1>17
<1>18. ASSUME NEW j \in 1 .. Len(ms), NEW k \in 1 .. Len(cs), j > i, k = j + 1
       PROVE  ms[j] = cs[k]
  <2>1. PICK q \in 1 .. L - n : q = j - i /\ n + q = k
    BY <1>1, <1>2, <1>14, <1>18
  <2>2. ms[j] = r[q]
    BY <1>14, <1>18, <2>1, SMTT(30)
  <2> QED
    BY <1>6, <2>1, <2>2
<1>19. /\ e.at = cs[i].at /\ e.used = cs[i].used
       /\ e.size = cs[i].size + cs[n].size + HEADER
  BY <1>7 DEF Pool!Chunk
<1>20. IsMerged(ms, cs, i, n)
  BY <1>1, <1>14, <1>15, <1>16, <1>17, <1>18, <1>19 DEF IsMerged
<1> QED
  BY <1>1, <1>9, <1>20

LEMMA PoolMergedChunks ==
  ASSUME NEW cs \in Seq(ChunkType), NEW ms, NEW i, NEW n, IsMerged(ms, cs, i, n), Tiles(cs)
  PROVE  /\ Tiles(ms) /\ Pool!End(ms[i]) = Pool!End(cs[n]) /\ ms # <<>>
         /\ \A j \in 1 .. Len(ms) : \E k \in 1 .. Len(cs) :
              /\ (j <= i /\ k = j) \/ (j > i /\ k = j + 1)
              /\ ms[j].at = cs[k].at /\ ms[j].used = cs[k].used
              /\ cs[k].size <= ms[j].size
              /\ j # i => ms[j] = cs[k]
<1> HIDE DEF Tiles
<1>1. /\ ms \in Seq(ChunkType) /\ Len(cs) = Len(ms) + 1 /\ n = i + 1
      /\ i \in 1 .. Len(ms) /\ n \in 1 .. Len(cs) /\ i \in 1 .. Len(cs)
      /\ Len(ms) \in Nat /\ Len(cs) \in Nat
  BY DEF IsMerged
<1>2. ms[i] \in ChunkType /\ cs[i] \in ChunkType /\ cs[n] \in ChunkType
  BY <1>1
<1>3. /\ ms[i].at = cs[i].at /\ ms[i].used = cs[i].used
      /\ ms[i].size = cs[i].size + cs[n].size + HEADER
  BY DEF IsMerged
<1>4. cs[n].at = Pool!End(cs[i]) + HEADER
  BY <1>1 DEF Tiles
<1>5. Pool!End(ms[i]) = Pool!End(cs[n])
  <2>1. /\ cs[i].at \in Nat /\ cs[i].size \in Nat /\ cs[n].size \in Nat /\ HEADER \in Nat
    BY <1>2, PoolTypes, PoolAssumption
  <2> QED
    BY <1>3, <1>4, <2>1 DEF Pool!End
<1>6. ASSUME NEW j \in 1 .. Len(ms)
      PROVE  \E k \in 1 .. Len(cs) :
               /\ (j <= i /\ k = j) \/ (j > i /\ k = j + 1)
               /\ ms[j].at = cs[k].at /\ ms[j].used = cs[k].used
               /\ cs[k].size <= ms[j].size
               /\ j # i => ms[j] = cs[k]
  <2>1. CASE j = i
    <3>1. cs[i].size <= ms[i].size
      <4>1. cs[i].size \in Nat /\ cs[n].size \in Nat /\ HEADER \in Nat
        BY <1>2, PoolTypes, PoolAssumption
      <4> QED
        BY <1>3, <4>1
    <3> QED
      BY <1>1, <1>3, <2>1, <3>1
  <2>2. CASE j # i
    <3>1. PICK k \in 1 .. Len(cs) : (j < i /\ k = j) \/ (j > i /\ k = j + 1)
      <4>1. j \in 1 .. Len(cs) /\ j + 1 \in 1 .. Len(cs)
        BY <1>1
      <4>2. CASE j < i
        BY <4>1, <4>2
      <4>3. CASE j > i
        BY <4>1, <4>3
      <4> QED
        BY <1>1, <2>2, <4>2, <4>3
    <3>2. ms[j] = cs[k]
      BY <3>1 DEF IsMerged
    <3>3. cs[k].size <= ms[j].size
      <4>1. cs[k] \in ChunkType
        OBVIOUS
      <4>2. cs[k].size \in Nat
        BY <4>1, PoolTypes
      <4> QED
        BY <3>2, <4>2
    <3>4. (j <= i /\ k = j) \/ (j > i /\ k = j + 1)
      BY <1>1, <3>1
    <3> QED
      BY <3>2, <3>3, <3>4
  <2> QED
    BY <2>1, <2>2
<1>7. ms # <<>> /\ ms[1].at = HEADER
  <2>1. ms # <<>>
    BY <1>1
  <2>2. 1 \in 1 .. Len(ms) /\ cs[1].at = HEADER
    BY <1>1 DEF Tiles
  <2>3. PICK k \in 1 .. Len(cs) : /\ (1 <= i /\ k = 1) \/ (1 > i /\ k = 1 + 1)
                                  /\ ms[1].at = cs[k].at
    BY <1>6, <2>2
  <2> QED
    BY <1>1, <2>1, <2>2, <2>3
<1>8. Pool!End(ms[Len(ms)]) = POOL
  <2>1. Len(ms) \in 1 .. Len(ms) /\ Pool!End(cs[Len(cs)]) = POOL
    BY <1>1 DEF Tiles
  <2>2. CASE i = Len(ms)
    BY <1>1, <1>5, <2>1, <2>2
  <2>3. CASE i # Len(ms)
    <3>1. PICK k \in 1 .. Len(cs) : /\ (Len(ms) <= i /\ k = Len(ms)) \/ (Len(ms) > i /\ k = Len(ms) + 1)
                                    /\ Len(ms) # i => ms[Len(ms)] = cs[k]
      BY <1>6, <2>1
    <3>2. k = Len(cs) /\ ms[Len(ms)] = cs[k]
      BY <1>1, <2>3, <3>1
    <3> QED
      BY <2>1, <3>2
  <2> QED
    BY <2>2, <2>3
<1>9. ASSUME NEW j \in 1 .. Len(ms), NEW m \in 1 .. Len(ms), m = j + 1
      PROVE  ms[m].at = Pool!End(ms[j]) + HEADER
  <2>1. PICK a \in 1 .. Len(cs) : /\ (m <= i /\ a = m) \/ (m > i /\ a = m + 1)
                                  /\ ms[m].at = cs[a].at
    BY <1>6
  <2>2. PICK b \in 1 .. Len(cs) : a = b + 1 /\ Pool!End(ms[j]) = Pool!End(cs[b])
    <3>1. CASE j = i
      BY <1>1, <1>5, <1>9, <2>1, <3>1
    <3>2. CASE j # i
      <4>1. PICK b \in 1 .. Len(cs) : /\ (j <= i /\ b = j) \/ (j > i /\ b = j + 1)
                                      /\ ms[j] = cs[b]
        BY <1>6, <3>2
      <4>2. a = b + 1
        BY <1>1, <1>9, <2>1, <3>2, <4>1
      <4> QED
        BY <4>1, <4>2
    <3> QED
      BY <3>1, <3>2
  <2> QED
    BY <2>1, <2>2 DEF Tiles
<1>10. Tiles(ms)
  BY <1>7, <1>8, <1>9 DEF Tiles
<1> QED
  BY <1>5, <1>6, <1>7, <1>10

LEMMA PoolMergedKept ==
  ASSUME NEW cs, NEW h, Kept(cs, h), NEW ms, NEW i, NEW n, IsMerged(ms, cs, i, n), ~cs[n].used
  PROVE  Kept(ms, h)
<1>1. cs \in Seq(ChunkType) /\ Tiles(cs) /\ Blocks(cs, h)
  BY DEF Kept
<1>2. /\ ms \in Seq(ChunkType) /\ Len(cs) = Len(ms) + 1 /\ n = i + 1
      /\ i \in 1 .. Len(ms) /\ n \in 1 .. Len(cs) /\ Len(ms) \in Nat
      /\ ms[i].at = cs[i].at
  BY <1>1 DEF IsMerged
<1>3. Tiles(ms)
  BY <1>1, PoolMergedChunks
<1>4. ASSUME NEW j \in 1 .. Len(ms) PROVE BlockOf(ms[j], h)
  <2>1. PICK k \in 1 .. Len(cs) : /\ ms[j].at = cs[k].at /\ ms[j].used = cs[k].used
                                  /\ cs[k].size <= ms[j].size
    BY <1>1, PoolMergedChunks
  <2>2. BlockOf(cs[k], h)
    BY <1>1 DEF Blocks
  <2>3. cs[k].size \in Nat /\ ms[j].size \in Nat
    <3>1. cs[k] \in ChunkType /\ ms[j] \in ChunkType
      BY <1>1, <1>2
    <3> QED
      BY <3>1, PoolTypes
  <2>4. \A a \in DOMAIN h : h[a] \in Nat
    BY <1>1 DEF Blocks
  <2>5. CASE cs[k].used
    <3>1. cs[k].at \in DOMAIN h /\ h[cs[k].at] <= cs[k].size
      BY <2>2, <2>5 DEF BlockOf
    <3>2. h[cs[k].at] \in Nat
      BY <2>4, <3>1
    <3>3. h[cs[k].at] <= ms[j].size
      BY <2>1, <2>3, <3>1, <3>2
    <3> QED
      BY <2>1, <2>5, <3>1, <3>3 DEF BlockOf
  <2>6. CASE ~cs[k].used
    BY <2>1, <2>2, <2>6 DEF BlockOf
  <2> QED
    BY <2>5, <2>6
<1>5. ASSUME NEW a \in DOMAIN h
      PROVE  h[a] \in Nat /\ \E j \in 1 .. Len(ms) : ms[j].at = a
  <2>6. h[a] \in Nat
    BY <1>1 DEF Blocks
  <2>1. PICK k \in 1 .. Len(cs) : cs[k].at = a
    BY <1>1 DEF Blocks
  <2>2. k # n
    <3>1. BlockOf(cs[n], h)
      BY <1>1, <1>2 DEF Blocks
    <3> QED
      BY <2>1, <3>1 DEF BlockOf
  <2>3. CASE k = i
    BY <1>2, <2>1, <2>3, <2>6
  <2>4. CASE k < i
    <3>1. k \in 1 .. Len(ms)
      BY <1>2, <2>4
    <3>2. ms[k] = cs[k]
      BY <2>4, <3>1 DEF IsMerged
    <3> QED
      BY <2>1, <2>6, <3>1, <3>2
  <2>5. CASE k > n
    <3>1. PICK j \in 1 .. Len(ms) : j > i /\ k = j + 1
      <4>1. k - 1 \in 1 .. Len(ms) /\ k - 1 > i /\ k = (k - 1) + 1
        BY <1>2, <2>5
      <4> QED
        BY <4>1
    <3>2. ms[j] = cs[k]
      BY <3>1 DEF IsMerged
    <3> QED
      BY <2>1, <2>6, <3>1, <3>2
  <2> QED
    BY <1>2, <2>2, <2>3, <2>4, <2>5, <2>6
<1> QED
  BY <1>2, <1>3, <1>4, <1>5 DEF Kept, Blocks

(* Chunks a to b of cs are free. *)
Run(cs, a, b) == a <= b /\ \A k \in a .. b : ~cs[k].used

(* Merging two free chunks leaves the runs of free chunks as they are. *)
LEMMA PoolMergedRun ==
  ASSUME NEW cs \in Seq(ChunkType), Tiles(cs), NEW ms, NEW i, NEW n, IsMerged(ms, cs, i, n),
         ~cs[i].used, ~cs[n].used,
         NEW a \in 1 .. Len(ms), NEW b \in 1 .. Len(ms), Run(ms, a, b)
  PROVE  \E c, d \in 1 .. Len(cs) : /\ Run(cs, c, d) /\ (a <= i => c = a)
                                    /\ cs[c].at = ms[a].at /\ Pool!End(cs[d]) = Pool!End(ms[b])
<1>1. /\ ms \in Seq(ChunkType) /\ Len(cs) = Len(ms) + 1 /\ n = i + 1
      /\ i \in 1 .. Len(ms) /\ n \in 1 .. Len(cs) /\ Len(ms) \in Nat
      /\ ms[i].at = cs[i].at
  BY DEF IsMerged
<1>2. PICK c \in 1 .. Len(cs) : /\ (a <= i /\ c = a) \/ (a > i /\ c = a + 1)
                                /\ ms[a].at = cs[c].at
  BY PoolMergedChunks
<1>3. PICK d \in 1 .. Len(cs) : /\ (b < i /\ d = b) \/ (b >= i /\ d = b + 1)
                                /\ Pool!End(ms[b]) = Pool!End(cs[d])
  <2>1. CASE b = i
    <3>1. Pool!End(ms[i]) = Pool!End(cs[n])
      BY PoolMergedChunks
    <3> QED
      BY <1>1, <2>1, <3>1
  <2>2. CASE b # i
    <3>1. PICK d \in 1 .. Len(cs) : /\ (b <= i /\ d = b) \/ (b > i /\ d = b + 1)
                                    /\ b # i => ms[b] = cs[d]
      BY PoolMergedChunks
    <3> QED
      BY <1>1, <2>2, <3>1
  <2> QED
    BY <2>1, <2>2
<1>4. c <= d
  BY <1>1, <1>2, <1>3 DEF Run
<1>5. ASSUME NEW k \in c .. d PROVE ~cs[k].used
  <2>1. CASE k = i \/ k = n
    BY <2>1
  <2>2. CASE k < i
    <3>1. k \in 1 .. Len(ms) /\ k \in 1 .. Len(cs) /\ k \in a .. b
      BY <1>1, <1>2, <1>3, <2>2
    <3>2. ms[k] = cs[k]
      BY <2>2, <3>1 DEF IsMerged
    <3> QED
      BY <3>1, <3>2 DEF Run
  <2>3. CASE k > n
    <3>1. PICK j \in 1 .. Len(ms) : j > i /\ k = j + 1 /\ j \in a .. b /\ k \in 1 .. Len(cs)
      <4>1. /\ k - 1 \in 1 .. Len(ms) /\ k - 1 > i /\ k = (k - 1) + 1
            /\ k - 1 \in a .. b /\ k \in 1 .. Len(cs)
        BY <1>1, <1>2, <1>3, <2>3
      <4> QED
        BY <4>1
    <3>2. ms[j] = cs[k]
      BY <3>1 DEF IsMerged
    <3> QED
      BY <3>1, <3>2 DEF Run
  <2> QED
    BY <1>1, <2>1, <2>2, <2>3
<1>6. Run(cs, c, d)
  BY <1>4, <1>5 DEF Run
<1>7. a <= i => c = a
  BY <1>1, <1>2
<1> QED
  BY <1>2, <1>3, <1>6, <1>7

LEMMA PoolRunMerged ==
  ASSUME NEW cs \in Seq(ChunkType), Tiles(cs), NEW ms, NEW i, NEW n, IsMerged(ms, cs, i, n),
         ~cs[i].used, ~cs[n].used,
         NEW c \in 1 .. Len(cs), NEW d \in 1 .. Len(cs), Run(cs, c, d)
  PROVE  \E a, b \in 1 .. Len(ms) : /\ Run(ms, a, b)
                                    /\ ms[a].at <= cs[c].at /\ Pool!End(cs[d]) <= Pool!End(ms[b])
<1>1. /\ ms \in Seq(ChunkType) /\ Len(cs) = Len(ms) + 1 /\ n = i + 1
      /\ i \in 1 .. Len(ms) /\ n \in 1 .. Len(cs) /\ i \in 1 .. Len(cs) /\ Len(ms) \in Nat
      /\ ms[i].at = cs[i].at /\ ms[i].used = cs[i].used
  BY DEF IsMerged
<1>2. Pool!End(ms[i]) = Pool!End(cs[n])
  BY PoolMergedChunks
<1>3. /\ cs[i].at <= cs[n].at /\ Pool!End(cs[i]) <= Pool!End(cs[n])
  <2>1. Pool!End(cs[i]) + HEADER <= cs[n].at
    BY <1>1, PoolAscends
  <2>2. cs[i] \in ChunkType /\ cs[n] \in ChunkType
    BY <1>1
  <2>3. /\ Pool!End(cs[i]) \in Nat /\ cs[i].at \in Nat /\ cs[i].at <= Pool!End(cs[i])
        /\ Pool!End(cs[n]) \in Nat /\ cs[n].at \in Nat /\ cs[n].at <= Pool!End(cs[n])
        /\ HEADER \in Nat
    <3>1. \A chunk \in ChunkType : Pool!End(chunk) \in Nat /\ chunk.at \in Nat /\ chunk.at <= Pool!End(chunk)
      BY PoolTypes
    <3> QED
      BY <2>2, <3>1, PoolAssumption
  <2> QED
    BY <2>1, <2>3
<1>4. /\ \A j \in 1 .. Len(cs) : cs[j].at \in Nat /\ Pool!End(cs[j]) \in Nat
      /\ i \in Nat /\ c \in Nat /\ d \in Nat
  <2>1. \A j \in 1 .. Len(cs) : cs[j] \in ChunkType
    OBVIOUS
  <2> QED
    BY <1>1, <2>1, PoolTypes
<1>5. PICK a \in 1 .. Len(ms) : /\ (c <= i /\ a = c) \/ (c > i /\ c = a + 1)
                                /\ ms[a].at <= cs[c].at
  <2>1. CASE c < i
    <3>1. c \in 1 .. Len(ms)
      BY <1>1, <2>1
    <3>2. ms[c] = cs[c]
      BY <2>1, <3>1 DEF IsMerged
    <3>3. ms[c].at <= cs[c].at
      BY <1>4, <3>2
    <3> QED
      BY <1>4, <2>1, <3>1, <3>3
  <2>2. CASE c = i
    BY <1>1, <1>4, <2>2
  <2>3. CASE c = n
    BY <1>1, <1>3, <2>3
  <2>4. CASE c > n
    <3>1. PICK j \in 1 .. Len(ms) : j > i /\ c = j + 1
      <4>1. c - 1 \in 1 .. Len(ms) /\ c - 1 > i /\ c = (c - 1) + 1
        BY <1>1, <2>4
      <4> QED
        BY <4>1
    <3>2. ms[j] = cs[c]
      BY <3>1 DEF IsMerged
    <3>3. ms[j].at <= cs[c].at
      BY <1>4, <3>2
    <3> QED
      BY <1>1, <2>4, <3>1, <3>3
  <2> QED
    BY <1>1, <2>1, <2>2, <2>3, <2>4
<1>6. PICK b \in 1 .. Len(ms) : /\ (d <= i /\ b = d) \/ (d > i /\ d = b + 1)
                                /\ Pool!End(cs[d]) <= Pool!End(ms[b])
  <2>1. CASE d < i
    <3>1. d \in 1 .. Len(ms)
      BY <1>1, <2>1
    <3>2. ms[d] = cs[d]
      BY <2>1, <3>1 DEF IsMerged
    <3>3. Pool!End(cs[d]) <= Pool!End(ms[d])
      BY <1>4, <3>2
    <3> QED
      BY <1>4, <2>1, <3>1, <3>3
  <2>2. CASE d = i
    BY <1>1, <1>2, <1>3, <1>4, <2>2
  <2>3. CASE d = n
    BY <1>1, <1>2, <1>4, <2>3
  <2>4. CASE d > n
    <3>1. PICK j \in 1 .. Len(ms) : j > i /\ d = j + 1
      <4>1. d - 1 \in 1 .. Len(ms) /\ d - 1 > i /\ d = (d - 1) + 1
        BY <1>1, <2>4
      <4> QED
        BY <4>1
    <3>2. ms[j] = cs[d]
      BY <3>1 DEF IsMerged
    <3>3. Pool!End(cs[d]) <= Pool!End(ms[j])
      BY <1>4, <3>2
    <3> QED
      BY <1>1, <2>4, <3>1, <3>3
  <2> QED
    BY <1>1, <2>1, <2>2, <2>3, <2>4
<1>7. a <= b
  BY <1>1, <1>5, <1>6 DEF Run
<1>8. ASSUME NEW k \in a .. b PROVE ~ms[k].used
  <2>1. k \in 1 .. Len(ms)
    BY <1>1
  <2>2. CASE k = i
    BY <1>1, <2>2
  <2>3. CASE k < i
    <3>1. k \in 1 .. Len(cs) /\ k \in c .. d
      BY <1>1, <1>5, <1>6, <2>1, <2>3
    <3>2. ms[k] = cs[k]
      BY <2>1, <2>3, <3>1 DEF IsMerged
    <3> QED
      BY <3>1, <3>2 DEF Run
  <2>4. CASE k > i
    <3>1. PICK q \in 1 .. Len(cs) : q = k + 1 /\ q \in c .. d
      BY <1>1, <1>5, <1>6, <2>1, <2>4
    <3>2. ms[k] = cs[q]
      BY <2>1, <2>4, <3>1 DEF IsMerged
    <3> QED
      BY <3>1, <3>2 DEF Run
  <2> QED
    BY <1>1, <2>1, <2>2, <2>3, <2>4
<1>9. Run(ms, a, b)
  BY <1>7, <1>8 DEF Run
<1> QED
  BY <1>5, <1>6, <1>9

-----------------------------------------------------------------------------
(* us are the chunks cs with chunk i marked as used or free. *)
IsMarked(us, cs, i, u) ==
  /\ us \in Seq(ChunkType) /\ Len(us) = Len(cs) /\ i \in 1 .. Len(cs) /\ u \in BOOLEAN
  /\ \A j \in 1 .. Len(cs) : j # i => us[j] = cs[j]
  /\ us[i].at = cs[i].at /\ us[i].size = cs[i].size /\ us[i].used = u

(* ss are the chunks cs with the rest behind x bytes of chunk i cut off, n. *)
IsSplit(ss, cs, i, n, x) ==
  /\ ss \in Seq(ChunkType) /\ Len(ss) = Len(cs) + 1 /\ n = i + 1
  /\ i \in 1 .. Len(cs) /\ x \in Nat /\ x + HEADER <= cs[i].size
  /\ \A j \in 1 .. Len(ss), k \in 1 .. Len(cs) :
       (j < i /\ j = k) \/ (j > n /\ j = k + 1) => ss[j] = cs[k]
  /\ ss[i].at = cs[i].at /\ ss[i].size = x /\ ss[i].used
  /\ ss[n].at = cs[i].at + x + HEADER /\ ss[n].size = cs[i].size - x - HEADER
  /\ ~ss[n].used

HeldOf(h, a, x) == [b \in DOMAIN h \cup {a} |-> IF b = a THEN x ELSE h[b]]
LetGo(h, a) == [b \in DOMAIN h \ {a} |-> h[b]]

LEMMA PoolMarked ==
  ASSUME NEW cs \in Seq(ChunkType), NEW i \in 1 .. Len(cs), NEW u \in BOOLEAN
  PROVE  IsMarked([cs EXCEPT ![i].used = u], cs, i, u)
<1>1. PICK e \in ChunkType : e = [cs[i] EXCEPT !.used = u]
  <2>1. cs[i] \in ChunkType
    OBVIOUS
  <2>2. [cs[i] EXCEPT !.used = u] \in ChunkType
    BY <2>1, Zenon DEF ChunkType
  <2> QED
    BY <2>2
<1>2. e.at = cs[i].at /\ e.size = cs[i].size /\ e.used = u
  <2>1. cs[i] \in ChunkType
    OBVIOUS
  <2> QED
    BY <1>1, <2>1 DEF ChunkType
<1>3. PICK us : us = [cs EXCEPT ![i] = e]
  OBVIOUS
<1>4. us \in Seq(ChunkType) /\ Len(us) = Len(cs) /\ \A j \in 1 .. Len(cs) : us[j] = IF j = i THEN e ELSE cs[j]
  BY <1>3, ExceptSeq
<1>5. us = [cs EXCEPT ![i].used = u]
  BY <1>1, <1>3
<1>6. IsMarked(us, cs, i, u)
  BY <1>2, <1>4 DEF IsMarked
<1> QED
  BY <1>5, <1>6

LEMMA PoolMarkedTiles ==
  ASSUME NEW cs \in Seq(ChunkType), Tiles(cs), NEW us, NEW i, NEW u, IsMarked(us, cs, i, u)
  PROVE  Tiles(us) /\ \A j \in 1 .. Len(cs) : /\ us[j].at = cs[j].at /\ us[j].size = cs[j].size
                                              /\ Pool!End(us[j]) = Pool!End(cs[j])
<1>1. Len(us) = Len(cs) /\ Len(cs) \in Nat /\ Len(cs) \in 1 .. Len(cs) /\ 1 \in 1 .. Len(cs)
  BY DEF IsMarked
<1>2. \A j \in 1 .. Len(cs) : us[j].at = cs[j].at /\ us[j].size = cs[j].size
  BY DEF IsMarked
<1>3. \A j \in 1 .. Len(cs) : Pool!End(us[j]) = Pool!End(cs[j])
  BY <1>2 DEF Pool!End
<1>4. us # <<>>
  BY <1>1 DEF IsMarked
<1>5. Tiles(us)
  BY <1>1, <1>2, <1>3, <1>4 DEF Tiles
<1> QED
  BY <1>2, <1>3, <1>5

(* A block that is not the one at a is as before. *)
LEMMA PoolOther ==
  ASSUME NEW h, NEW a, NEW chunk \in ChunkType, BlockOf(chunk, h), chunk.at # a
  PROVE  BlockOf(chunk, LetGo(h, a)) /\ \A x : BlockOf(chunk, HeldOf(h, a, x))
<1>1. BlockOf(chunk, LetGo(h, a))
  BY DEF BlockOf, LetGo
<1>2. ASSUME NEW x PROVE BlockOf(chunk, HeldOf(h, a, x))
  BY DEF BlockOf, HeldOf
<1> QED
  BY <1>1, <1>2

LEMMA PoolMarkedKept ==
  ASSUME NEW cs, NEW h, Kept(cs, h), NEW us, NEW i
  PROVE  /\ IsMarked(us, cs, i, FALSE) => Kept(us, LetGo(h, cs[i].at))
         /\ \A x \in Nat : x <= cs[i].size /\ IsMarked(us, cs, i, TRUE)
                             => Kept(us, HeldOf(h, cs[i].at, x))
<1>1. cs \in Seq(ChunkType) /\ Tiles(cs) /\ Blocks(cs, h)
  BY DEF Kept
<1>2. ASSUME NEW u, IsMarked(us, cs, i, u), NEW g, g \in {LetGo(h, cs[i].at)} \cup {HeldOf(h, cs[i].at, x) : x \in Nat},
             BlockOf(us[i], g)
      PROVE  Kept(us, g)
  <2>1. PICK a : a = cs[i].at
    OBVIOUS
  <2>2. Tiles(us) /\ us \in Seq(ChunkType) /\ Len(us) = Len(cs) /\ i \in 1 .. Len(cs)
    BY <1>1, <1>2, PoolMarkedTiles DEF IsMarked
  <2>3. ASSUME NEW j \in 1 .. Len(us) PROVE BlockOf(us[j], g)
    <3>1. CASE j = i
      BY <1>2, <3>1
    <3>2. CASE j # i
      <4>1. us[j] = cs[j] /\ j \in 1 .. Len(cs)
        BY <1>2, <2>2, <3>2 DEF IsMarked
      <4>2. cs[j].at # a
        BY <1>1, <2>1, <2>2, <3>2, <4>1, PoolDistinct
      <4>3. BlockOf(cs[j], h) /\ cs[j] \in ChunkType
        BY <1>1, <4>1 DEF Blocks
      <4>4. BlockOf(cs[j], LetGo(h, a)) /\ \A x : BlockOf(cs[j], HeldOf(h, a, x))
        BY <4>2, <4>3, PoolOther
      <4> QED
        BY <1>2, <2>1, <4>1, <4>4
    <3> QED
      BY <3>1, <3>2
  <2>4. ASSUME NEW b \in DOMAIN g PROVE g[b] \in Nat /\ \E j \in 1 .. Len(us) : us[j].at = b
    <3>1. \A c \in DOMAIN h : h[c] \in Nat /\ \E j \in 1 .. Len(cs) : cs[j].at = c
      BY <1>1 DEF Blocks
    <3>2. g[b] \in Nat /\ b \in DOMAIN h \cup {a}
      <4>1. CASE g = LetGo(h, a)
        BY <2>4, <3>1, <4>1 DEF LetGo
      <4>2. ASSUME NEW x \in Nat, g = HeldOf(h, a, x) PROVE g[b] \in Nat /\ b \in DOMAIN h \cup {a}
        BY <2>4, <3>1, <4>2 DEF HeldOf
      <4> QED
        BY <1>2, <2>1, <4>1, <4>2
    <3>3. \A j \in 1 .. Len(cs) : us[j].at = cs[j].at
      BY <1>1, <1>2, PoolMarkedTiles
    <3>4. \E j \in 1 .. Len(cs) : cs[j].at = b
      BY <2>1, <2>2, <3>1, <3>2
    <3> QED
      BY <2>2, <3>2, <3>3, <3>4
  <2> QED
    BY <2>2, <2>3, <2>4 DEF Kept, Blocks
<1>3. ASSUME IsMarked(us, cs, i, FALSE) PROVE Kept(us, LetGo(h, cs[i].at))
  <2>1. BlockOf(us[i], LetGo(h, cs[i].at))
    BY <1>3 DEF BlockOf, LetGo, IsMarked
  <2> QED
    BY <1>2, <1>3, <2>1
<1>4. ASSUME NEW x \in Nat, x <= cs[i].size, IsMarked(us, cs, i, TRUE)
      PROVE  Kept(us, HeldOf(h, cs[i].at, x))
  <2>1. BlockOf(us[i], HeldOf(h, cs[i].at, x))
    BY <1>4 DEF BlockOf, HeldOf, IsMarked
  <2> QED
    BY <1>2, <1>4, <2>1
<1> QED
  BY <1>3, <1>4

LEMMA PoolSplit ==
  ASSUME NEW cs \in Seq(ChunkType), NEW i \in 1 .. Len(cs), NEW x \in Nat, x + HEADER <= cs[i].size
  PROVE  IsSplit(Pool!Split(cs, i, x), cs, i, i + 1, x)
<1>1. PICK n \in Nat : n = i + 1
  OBVIOUS
<1>2. PICK b \in Nat, L \in Nat : b = i - 1 /\ b <= Len(cs) /\ L = Len(cs)
  <2>1. i - 1 \in Nat /\ i - 1 <= Len(cs) /\ Len(cs) \in Nat
    OBVIOUS
  <2> QED
    BY <2>1
<1>3. PICK f : f = SubSeq(cs, 1, b)
  OBVIOUS
<1>4. f \in Seq(ChunkType) /\ Len(f) = b /\ \A j \in 1 .. b : f[j] = cs[j]
  BY <1>2, <1>3, PrefixFacts
<1>5. PICK r : r = SubSeq(cs, i + 1, L)
  OBVIOUS
<1>6. r \in Seq(ChunkType) /\ Len(r) = L - i /\ \A j \in 1 .. L - i : r[j] = cs[i + j]
  BY <1>1, <1>2, <1>5, SuffixFacts
<1>7. PICK d \in ChunkType, e \in ChunkType :
        /\ d = Pool!Chunk(cs[i].at, x, TRUE)
        /\ e = Pool!Chunk(cs[i].at + x + HEADER, cs[i].size - x - HEADER, FALSE)
  <2>0. cs[i] \in ChunkType
    OBVIOUS
  <2>1. /\ cs[i].at \in Nat /\ cs[i].at + x + HEADER \in Nat /\ cs[i].size - x - HEADER \in Nat
    <3>1. cs[i].at \in Nat /\ cs[i].size \in Nat /\ HEADER \in Nat
      BY <2>0, PoolTypes, PoolAssumption
    <3> QED
      BY <3>1
  <2>2. Pool!Chunk(cs[i].at, x, TRUE) \in ChunkType
    BY <2>1 DEF Pool!Chunk, ChunkType
  <2>3. Pool!Chunk(cs[i].at + x + HEADER, cs[i].size - x - HEADER, FALSE) \in ChunkType
    BY <2>1 DEF Pool!Chunk, ChunkType
  <2> QED
    BY <2>2, <2>3
<1>8. PICK ss : ss = f \o <<d, e>> \o r
  OBVIOUS
<1>9. ss = Pool!Split(cs, i, x)
  BY <1>2, <1>3, <1>5, <1>7, <1>8 DEF Pool!Split
<1>10. PICK g : g = f \o <<d, e>>
  OBVIOUS
<1>11. PICK p \in Seq(ChunkType) : p = <<d, e>> /\ Len(p) = 2 /\ p[1] = d /\ p[2] = e
  <2>1. <<d, e>> \in Seq(ChunkType)
    OBVIOUS
  <2>2. Len(<<d, e>>) = 2 /\ <<d, e>>[1] = d /\ <<d, e>>[2] = e
    OBVIOUS
  <2> QED
    BY <2>1, <2>2
<1>12. /\ g \in Seq(ChunkType) /\ Len(g) = n
       /\ \A j \in 1 .. n : g[j] = IF j <= b THEN f[j] ELSE p[j - b]
  <2>1. /\ f \o p \in Seq(ChunkType) /\ Len(f \o p) = Len(f) + Len(p)
        /\ \A j \in 1 .. Len(f) + Len(p) :
             (f \o p)[j] = IF j <= Len(f) THEN f[j] ELSE p[j - Len(f)]
    BY <1>4, ConcatFacts
  <2>2. Len(f) + Len(p) = n /\ Len(f) = b
    BY <1>1, <1>2, <1>4, <1>11
  <2> QED
    BY <1>10, <1>11, <2>1, <2>2
<1>13. g[i] = d /\ g[n] = e /\ \A j \in 1 .. b : g[j] = cs[j]
  BY <1>1, <1>2, <1>4, <1>11, <1>12
<1>14. /\ ss \in Seq(ChunkType) /\ Len(ss) = n + (L - i)
       /\ \A j \in 1 .. Len(ss) : ss[j] = IF j <= n THEN g[j] ELSE r[j - n]
  <2>1. ss = g \o r
    BY <1>8, <1>10
  <2>2. Len(g) + Len(r) = n + (L - i)
    BY <1>1, <1>2, <1>6, <1>12
  <2>3. g \in Seq(ChunkType) /\ r \in Seq(ChunkType)
    BY <1>6, <1>12
  <2>4. /\ g \o r \in Seq(ChunkType) /\ Len(g \o r) = Len(g) + Len(r)
        /\ \A j \in 1 .. Len(g) + Len(r) :
             (g \o r)[j] = IF j <= Len(g) THEN g[j] ELSE r[j - Len(g)]
    BY <2>3, ConcatFacts
  <2> QED
    BY <1>12, <2>1, <2>2, <2>4
<1>15. Len(ss) = Len(cs) + 1 /\ i \in 1 .. Len(ss) /\ n \in 1 .. Len(ss)
  BY <1>1, <1>2, <1>14
<1>16. ss[i] = d /\ ss[n] = e
  BY <1>1, <1>13, <1>14, <1>15
<1>17. ASSUME NEW j \in 1 .. Len(ss), NEW k \in 1 .. Len(cs), j < i, j = k
       PROVE  ss[j] = cs[k]
  BY <1>1, <1>2, <1>13, <1>14, <1>17
<1>18. ASSUME NEW j \in 1 .. Len(ss), NEW k \in 1 .. Len(cs), j > n, j = k + 1
       PROVE  ss[j] = cs[k]
  <2>1. PICK q \in 1 .. L - i : q = j - n /\ i + q = k
    BY <1>1, <1>2, <1>14, <1>18
  <2>2. ss[j] = r[q]
    BY <1>14, <1>18, <2>1
  <2> QED
    BY <1>6, <2>1, <2>2
<1>19. /\ d.at = cs[i].at /\ d.size = x /\ d.used
       /\ e.at = cs[i].at + x + HEADER /\ e.size = cs[i].size - x - HEADER /\ ~e.used
  BY <1>7 DEF Pool!Chunk
<1>20. IsSplit(ss, cs, i, n, x)
  BY <1>1, <1>14, <1>15, <1>16, <1>17, <1>18, <1>19 DEF IsSplit
<1> QED
  BY <1>1, <1>9, <1>20

LEMMA PoolSplitTiles ==
  ASSUME NEW cs \in Seq(ChunkType), Tiles(cs), NEW ss, NEW i, NEW n, NEW x, IsSplit(ss, cs, i, n, x)
  PROVE  Tiles(ss)
<1>1. /\ ss \in Seq(ChunkType) /\ Len(ss) = Len(cs) + 1 /\ n = i + 1 /\ i \in 1 .. Len(cs)
      /\ x \in Nat /\ Len(cs) \in Nat /\ n \in 1 .. Len(ss) /\ i \in 1 .. Len(ss)
      /\ ss[i].at = cs[i].at /\ ss[i].size = x
      /\ ss[n].at = cs[i].at + x + HEADER /\ ss[n].size = cs[i].size - x - HEADER
  BY DEF IsSplit
<1>2. HEADER \in Nat /\ cs[i].at \in Nat /\ cs[i].size \in Nat
  <2>1. cs[i] \in ChunkType
    BY <1>1
  <2> QED
    BY <2>1, PoolTypes, PoolAssumption
<1>3. Pool!End(ss[n]) = Pool!End(cs[i]) /\ ss[n].at = Pool!End(ss[i]) + HEADER
  <2>1. PICK a \in Nat, z \in Nat, y \in Nat, h \in Nat :
          a = cs[i].at /\ z = cs[i].size /\ y = x /\ h = HEADER
    BY <1>1, <1>2
  <2>2. ss[n].at = a + y + h /\ ss[n].size = z - y - h /\ ss[i].at = a /\ ss[i].size = y
    BY <1>1, <2>1, Zenon
  <2>3. Pool!End(ss[n]) = (a + y + h) + (z - y - h) /\ Pool!End(cs[i]) = a + z /\ Pool!End(ss[i]) = a + y
    BY <2>1, <2>2, Zenon DEF Pool!End
  <2>4. (a + y + h) + (z - y - h) = a + z /\ (a + y) + h = a + y + h
    OBVIOUS
  <2> QED
    BY <2>1, <2>2, <2>3, <2>4, Zenon
<1>4. ASSUME NEW j \in 1 .. Len(ss), j # i, j # n
      PROVE  \E k \in 1 .. Len(cs) : ((j < i /\ j = k) \/ (j > n /\ j = k + 1)) /\ ss[j] = cs[k]
  <2>1. CASE j < i
    <3>1. j \in 1 .. Len(cs)
      BY <1>1, <2>1
    <3>2. ss[j] = cs[j]
      BY <2>1, <3>1 DEF IsSplit
    <3> QED
      BY <2>1, <3>1, <3>2
  <2>2. CASE j > n
    <3>1. PICK k \in 1 .. Len(cs) : j = k + 1
      <4>1. j - 1 \in 1 .. Len(cs) /\ j = (j - 1) + 1
        BY <1>1, <2>2
      <4> QED
        BY <4>1
    <3>2. ss[j] = cs[k]
      BY <2>2, <3>1 DEF IsSplit
    <3> QED
      BY <2>2, <3>1, <3>2
  <2> QED
    BY <1>1, <1>4, <2>1, <2>2
<1>5. ss # <<>> /\ ss[1].at = HEADER
  <2>1. ss # <<>> /\ 1 \in 1 .. Len(ss) /\ cs[1].at = HEADER
    BY <1>1 DEF Tiles
  <2>2. CASE i = 1
    BY <1>1, <2>1, <2>2
  <2>3. CASE i # 1
    <3>1. PICK k \in 1 .. Len(cs) : ((1 < i /\ 1 = k) \/ (1 > n /\ 1 = k + 1)) /\ ss[1] = cs[k]
      BY <1>1, <1>4, <2>1, <2>3
    <3> QED
      BY <1>1, <2>1, <3>1
  <2> QED
    BY <2>2, <2>3
<1>6. Pool!End(ss[Len(ss)]) = POOL
  <2>1. Len(ss) \in 1 .. Len(ss) /\ Pool!End(cs[Len(cs)]) = POOL
    BY <1>1 DEF Tiles
  <2>2. CASE n = Len(ss)
    <3>1. i = Len(cs)
      BY <1>1, <2>2
    <3> QED
      BY <1>3, <2>1, <2>2, <3>1
  <2>3. CASE n # Len(ss)
    <3>1. PICK l \in 1 .. Len(ss) : l = Len(ss) /\ l > n /\ l # i
      BY <1>1, <2>1, <2>3
    <3>2. PICK k \in 1 .. Len(cs) : ((l < i /\ l = k) \/ (l > n /\ l = k + 1)) /\ ss[l] = cs[k]
      BY <1>1, <1>4, <3>1
    <3>3. k = Len(cs)
      BY <1>1, <3>1, <3>2
    <3> QED
      BY <2>1, <3>1, <3>2, <3>3
  <2> QED
    BY <2>2, <2>3
<1>7. ASSUME NEW j \in 1 .. Len(ss), NEW m \in 1 .. Len(ss), m = j + 1
      PROVE  ss[m].at = Pool!End(ss[j]) + HEADER
  <2>1. CASE j = i
    BY <1>1, <1>3, <1>7, <2>1
  <2>2. CASE j # i
    <3>1. PICK b \in 1 .. Len(cs) : /\ Pool!End(ss[j]) = Pool!End(cs[b])
                                    /\ (j < i /\ j = b) \/ (j >= n /\ j = b + 1)
      <4>1. CASE j = n
        BY <1>1, <1>3, <4>1
      <4>2. CASE j # n
        <5>1. PICK b \in 1 .. Len(cs) : ((j < i /\ j = b) \/ (j > n /\ j = b + 1)) /\ ss[j] = cs[b]
          BY <1>4, <2>2, <4>2
        <5> QED
          BY <1>1, <5>1
      <4> QED
        BY <4>1, <4>2
    <3>2. PICK a \in 1 .. Len(cs) : /\ ss[m].at = cs[a].at
                                    /\ (m <= i /\ m = a) \/ (m > n /\ m = a + 1)
      <4>1. CASE m = i
        BY <1>1, <4>1
      <4>2. CASE m # i
        <5>1. m # n
          BY <1>1, <1>7, <2>2
        <5>2. PICK a \in 1 .. Len(cs) : ((m < i /\ m = a) \/ (m > n /\ m = a + 1)) /\ ss[m] = cs[a]
          BY <1>4, <4>2, <5>1
        <5>3. (m <= i /\ m = a) \/ (m > n /\ m = a + 1)
          BY <1>1, <5>2
        <5> QED
          BY <5>2, <5>3
      <4> QED
        BY <4>1, <4>2
    <3>3. a = b + 1
      BY <1>1, <1>7, <2>2, <3>1, <3>2
    <3> QED
      BY <3>1, <3>2, <3>3 DEF Tiles
  <2> QED
    BY <2>1, <2>2
<1> QED
  BY <1>5, <1>6, <1>7 DEF Tiles

LEMMA PoolSplitKept ==
  ASSUME NEW cs, NEW h, Kept(cs, h), NEW ss, NEW i, NEW n, NEW x, IsSplit(ss, cs, i, n, x)
  PROVE  Kept(ss, HeldOf(h, cs[i].at, x))
<1>1. cs \in Seq(ChunkType) /\ Tiles(cs) /\ Blocks(cs, h)
  BY DEF Kept
<1>2. /\ ss \in Seq(ChunkType) /\ Len(ss) = Len(cs) + 1 /\ n = i + 1 /\ i \in 1 .. Len(cs)
      /\ x \in Nat /\ Len(cs) \in Nat /\ n \in 1 .. Len(ss) /\ i \in 1 .. Len(ss)
      /\ ss[i].at = cs[i].at /\ ss[i].size = x /\ ss[i].used /\ ~ss[n].used
      /\ ss[n].at = cs[i].at + x + HEADER /\ x + HEADER <= cs[i].size
  BY <1>1 DEF IsSplit
<1>3. PICK a \in Nat : a = cs[i].at
  <2>1. cs[i] \in ChunkType
    BY <1>1, <1>2
  <2> QED
    BY <2>1, PoolTypes
<1>4. PICK g : g = HeldOf(h, a, x)
  OBVIOUS
<1>5. /\ DOMAIN g = DOMAIN h \cup {a}
      /\ \A b \in DOMAIN g : g[b] = IF b = a THEN x ELSE h[b]
  BY <1>4 DEF HeldOf
<1>6. Tiles(ss)
  BY <1>1, PoolSplitTiles
<1>7. \A b \in DOMAIN h : h[b] \in Nat /\ \E j \in 1 .. Len(cs) : cs[j].at = b
  BY <1>1 DEF Blocks
<1>8. ss[n].at \notin DOMAIN g
  <2>1. SUFFICES ASSUME ss[n].at \in DOMAIN g PROVE FALSE
    OBVIOUS
  <2>2. /\ a + x + HEADER \in Nat /\ a < a + x + HEADER /\ HEADER \in Nat
        /\ cs[i].size \in Nat /\ Pool!End(cs[i]) = a + cs[i].size
    <3>1. cs[i] \in ChunkType
      BY <1>1, <1>2
    <3>2. HEADER \in Nat /\ HEADER > 0 /\ x \in Nat
      BY <1>2, PoolAssumption
    <3>3. cs[i].size \in Nat /\ Pool!End(cs[i]) = a + cs[i].size
      BY <1>3, <3>1, PoolTypes
    <3> QED
      BY <3>2, <3>3
  <2>3. PICK k \in 1 .. Len(cs) : cs[k].at = a + x + HEADER
    <3>1. a + x + HEADER \in DOMAIN h
      BY <1>2, <1>3, <1>5, <2>1, <2>2
    <3> QED
      BY <1>7, <3>1
  <2>4. cs[k] \in ChunkType
    BY <1>1
  <2>5. cs[k].at \in Nat /\ Pool!End(cs[k]) \in Nat /\ cs[k].at <= Pool!End(cs[k])
    BY <2>4, PoolTypes
  <2>6. CASE k = i
    BY <1>3, <2>2, <2>3, <2>6
  <2>7. CASE k < i
    <3>1. Pool!End(cs[k]) + HEADER <= a
      BY <1>1, <1>2, <1>3, <2>7, PoolAscends
    <3> QED
      BY <2>2, <2>3, <2>5, <3>1
  <2>8. CASE k > i
    <3>1. Pool!End(cs[i]) + HEADER <= cs[k].at
      BY <1>1, <1>2, <2>8, PoolAscends
    <3>2. HEADER > 0
      BY PoolAssumption
    <3> QED
      BY <1>2, <2>2, <2>3, <3>1, <3>2
  <2> QED
    BY <1>2, <2>6, <2>7, <2>8
<1>9. ASSUME NEW j \in 1 .. Len(ss) PROVE BlockOf(ss[j], g)
  <2>1. CASE j = i
    <3>1. ss[i].at = a /\ a \in DOMAIN g /\ g[a] = x
      BY <1>2, <1>3, <1>5
    <3>2. g[ss[i].at] <= ss[i].size
      BY <1>2, <3>1
    <3> QED
      BY <1>2, <2>1, <3>1, <3>2 DEF BlockOf
  <2>2. CASE j = n
    BY <1>2, <1>8, <2>2 DEF BlockOf
  <2>3. ASSUME NEW k \in 1 .. Len(cs), k # i, ss[j] = cs[k]
        PROVE  BlockOf(ss[j], g)
    <3>1. cs[k].at # a
      BY <1>1, <1>2, <1>3, <2>3, PoolDistinct
    <3>2. BlockOf(cs[k], h) /\ cs[k] \in ChunkType
      BY <1>1 DEF Blocks
    <3> QED
      BY <1>4, <2>3, <3>1, <3>2, PoolOther
  <2>4. CASE j < i
    <3>1. j \in 1 .. Len(cs) /\ j # i
      BY <1>2, <2>4
    <3>2. ss[j] = cs[j]
      BY <2>4, <3>1 DEF IsSplit
    <3> QED
      BY <2>3, <3>1, <3>2
  <2>5. CASE j > n
    <3>1. PICK k \in 1 .. Len(cs) : j = k + 1 /\ k # i
      <4>1. j - 1 \in 1 .. Len(cs) /\ j = (j - 1) + 1 /\ j - 1 # i
        BY <1>2, <2>5
      <4> QED
        BY <4>1
    <3>2. ss[j] = cs[k]
      BY <2>5, <3>1 DEF IsSplit
    <3> QED
      BY <2>3, <3>1, <3>2
  <2> QED
    BY <1>2, <2>1, <2>2, <2>4, <2>5
<1>10. ASSUME NEW b \in DOMAIN g PROVE g[b] \in Nat /\ \E j \in 1 .. Len(ss) : ss[j].at = b
  <2>1. CASE b = a
    BY <1>2, <1>3, <1>5, <2>1
  <2>2. CASE b # a
    <3>1. PICK k \in 1 .. Len(cs) : cs[k].at = b /\ h[b] \in Nat
      BY <1>5, <1>7, <2>2
    <3>2. k # i
      BY <1>3, <2>2, <3>1
    <3>3. PICK j \in 1 .. Len(ss) : (j < i /\ j = k) \/ (j > n /\ j = k + 1)
      <4>1. k \in 1 .. Len(ss) /\ k + 1 \in 1 .. Len(ss)
        BY <1>2
      <4>2. CASE k < i
        BY <4>1, <4>2
      <4>3. CASE k > i
        BY <1>2, <4>1, <4>3
      <4> QED
        BY <1>2, <3>2, <4>2, <4>3
    <3>4. ss[j] = cs[k]
      BY <3>3 DEF IsSplit
    <3>5. g[b] = h[b]
      BY <1>5, <2>2
    <3> QED
      BY <3>1, <3>4, <3>5
  <2> QED
    BY <2>1, <2>2
<1>11. Blocks(ss, g)
  BY <1>9, <1>10 DEF Blocks
<1> QED
  BY <1>2, <1>3, <1>4, <1>6, <1>11 DEF Kept

-----------------------------------------------------------------------------
(* The number of free bytes of a chunk, and of the first chunks *)
FreeOf(chunk) == IF chunk.used THEN 0 ELSE chunk.size

Sums(f, cs) ==
  /\ f[0] = 0
  /\ \A i \in 1 .. Len(cs) : f[i] = f[i - 1] + FreeOf(cs[i])

Adding(cs) ==
  [p \in Nat \X Nat |-> p[1] + (IF p[2] + 1 \in 1 .. Len(cs) THEN FreeOf(cs[p[2] + 1]) ELSE 0)]

LEMMA PoolFreeOf ==
  ASSUME NEW chunk \in ChunkType
  PROVE  FreeOf(chunk) \in Nat /\ FreeOf(chunk) <= chunk.size
<1>1. chunk.size \in Nat
  BY PoolTypes
<1> QED
  BY <1>1 DEF FreeOf

LEMMA PoolSumsExist ==
  ASSUME NEW cs \in Seq(ChunkType)
  PROVE  \E f \in [0 .. Len(cs) -> Nat] : Sums(f, cs) /\ Pool!FreeBytes(cs) = f[Len(cs)]
<1>1. PICK L \in Nat : L = Len(cs)
  OBVIOUS
<1>2. \A i \in 1 .. L : FreeOf(cs[i]) \in Nat
  <2>1. \A i \in 1 .. L : cs[i] \in ChunkType
    BY <1>1
  <2> QED
    BY <2>1, PoolFreeOf
<1>3. PICK F : F = Adding(cs)
  OBVIOUS
<1>4. F \in [Nat \X Nat -> Nat]
  <2>1. ASSUME NEW p \in Nat \X Nat
        PROVE  p[1] + (IF p[2] + 1 \in 1 .. Len(cs) THEN FreeOf(cs[p[2] + 1]) ELSE 0) \in Nat
    BY <1>1, <1>2
  <2> QED
    BY <1>3, <2>1 DEF Adding
<1>5. PICK f \in [0 .. L -> Nat] : Steps(f, L, 0, F)
  BY <1>4, StepsExist
<1>6. ASSUME NEW i \in 1 .. L PROVE f[i] = f[i - 1] + FreeOf(cs[i])
  <2>1. PICK m \in 0 .. L - 1 : m = i - 1 /\ m + 1 = i
    <3>1. i - 1 \in 0 .. L - 1 /\ (i - 1) + 1 = i
      OBVIOUS
    <3> QED
      BY <3>1
  <2>2. f[m + 1] = F[<<f[m], m>>]
    BY <1>5 DEF Steps
  <2>3. f[m] \in Nat /\ m \in Nat
    OBVIOUS
  <2>4. F[<<f[m], m>>] = f[m] + (IF m + 1 \in 1 .. Len(cs) THEN FreeOf(cs[m + 1]) ELSE 0)
    BY <1>3, <2>3 DEF Adding
  <2> QED
    BY <1>1, <2>1, <2>2, <2>4
<1>7. Sums(f, cs)
  BY <1>1, <1>5, <1>6 DEF Sums, Steps
<1> DEFINE G(s) == [i \in 0 .. Len(cs) |->
                      IF i = 0 THEN 0 ELSE s[i - 1] + (IF cs[i].used THEN 0 ELSE cs[i].size)]
<1>8. f = G(f)
  <2>1. \A i \in 0 .. L : f[i] = IF i = 0 THEN 0
                                 ELSE f[i - 1] + (IF cs[i].used THEN 0 ELSE cs[i].size)
    BY <1>1, <1>7 DEF Sums, FreeOf
  <2> QED
    BY <1>1, <2>1
<1>9. PICK s : s = CHOOSE x : x = G(x)
  OBVIOUS
<1>10. s = G(s)
  BY <1>8, <1>9
<1>11. Pool!FreeBytes(cs) = s[Len(cs)]
  BY <1>9 DEF Pool!FreeBytes
<1>12. \A i \in 0 .. L : s[i] = IF i = 0 THEN 0
                                ELSE s[i - 1] + (IF cs[i].used THEN 0 ELSE cs[i].size)
  BY <1>1, <1>10
<1> HIDE DEF G
<1> DEFINE B == {i \in 0 .. L : s[i] # f[i]}
<1>13. B = {}
  <2>1. SUFFICES ASSUME B # {} PROVE FALSE
    OBVIOUS
  <2>2. PICK k \in B : \A y \in B : k <= y
    <3>1. B \in SUBSET Nat
      OBVIOUS
    <3> HIDE DEF B
    <3> QED
      BY <2>1, <3>1, LeastNumber
  <2>3. k # 0
    BY <1>7, <1>12, <2>2 DEF Sums
  <2>4. PICK m \in 0 .. L : m = k - 1 /\ m < k
    <3>1. k - 1 \in 0 .. L /\ k - 1 < k
      BY <2>2, <2>3
    <3> QED
      BY <3>1
  <2>5. s[m] = f[m]
    BY <2>2, <2>4
  <2>6. k \in 1 .. L
    BY <2>2, <2>3
  <2>7. s[k] = s[m] + FreeOf(cs[k])
    BY <1>12, <2>4, <2>6 DEF FreeOf
  <2>8. f[k] = f[m] + FreeOf(cs[k])
    BY <1>6, <2>4, <2>6
  <2> QED
    BY <2>2, <2>5, <2>7, <2>8
<1>14. s[L] = f[L]
  <2>1. L \in 0 .. L
    OBVIOUS
  <2> QED
    BY <1>13, <2>1
<1> QED
  BY <1>1, <1>7, <1>11, <1>14

(* m chunks in a row, behind the first p of cs and the first q of ds, have *)
(* the same free bytes, *)
SameFree(cs, ds, p, q, m) ==
  /\ p + m <= Len(cs) /\ q + m <= Len(ds)
  /\ \A j \in 1 .. m : FreeOf(cs[p + j]) = FreeOf(ds[q + j])

(* and so add as much. *)
Shifted(f, g, p, q, m) == f[p + m] + g[q] = g[q + m] + f[p]

LEMMA PoolShift ==
  ASSUME NEW cs \in Seq(ChunkType), NEW ds \in Seq(ChunkType),
         NEW f \in [0 .. Len(cs) -> Nat], Sums(f, cs), NEW g \in [0 .. Len(ds) -> Nat], Sums(g, ds),
         NEW p \in Nat, NEW q \in Nat, NEW m \in Nat, SameFree(cs, ds, p, q, m)
  PROVE  Shifted(f, g, p, q, m)
<1> DEFINE B == {k \in 0 .. m : ~Shifted(f, g, p, q, k)}
<1>1. SUFFICES ASSUME B # {} PROVE FALSE
  OBVIOUS
<1>2. PICK k \in B : \A y \in B : k <= y
  <2>1. B \in SUBSET Nat
    OBVIOUS
  <2> HIDE DEF B
  <2> QED
    BY <1>1, <2>1, LeastNumber
<1>0. p + m <= Len(cs) /\ q + m <= Len(ds)
  BY DEF SameFree
<1>a. PICK c \in Nat, d \in Nat : c = f[p] /\ d = g[q]
  <2>1. p \in 0 .. Len(cs) /\ q \in 0 .. Len(ds)
    BY <1>0
  <2>2. f[p] \in Nat /\ g[q] \in Nat
    BY <2>1
  <2> QED
    BY <2>2
<1>3. k # 0
  <2>1. SUFFICES ASSUME k = 0 PROVE FALSE
    OBVIOUS
  <2>2. p + k = p /\ q + k = q
    BY <2>1
  <2>3. Shifted(f, g, p, q, k)
    BY <1>a, <2>2 DEF Shifted
  <2> QED
    BY <1>2, <2>3
<1>4. PICK l \in 0 .. m : k = l + 1
  <2>1. k - 1 \in 0 .. m /\ k = (k - 1) + 1
    BY <1>2, <1>3
  <2> QED
    BY <2>1
<1>5. l \notin B
  BY <1>2, <1>4
<1>6. f[p + l] + d = g[q + l] + c
  BY <1>a, <1>5 DEF Shifted
<1>7. PICK x \in 1 .. Len(cs), y \in 1 .. Len(ds), u \in 0 .. Len(cs), v \in 0 .. Len(ds) :
        /\ x = p + k /\ y = q + k /\ x - 1 = u /\ y - 1 = v /\ u = p + l /\ v = q + l
  <2>1. /\ p + k \in 1 .. Len(cs) /\ q + k \in 1 .. Len(ds)
        /\ p + l \in 0 .. Len(cs) /\ q + l \in 0 .. Len(ds)
        /\ (p + k) - 1 = p + l /\ (q + k) - 1 = q + l
    BY <1>0, <1>2, <1>4
  <2> QED
    BY <2>1
<1>8. f[x] = f[u] + FreeOf(cs[x]) /\ g[y] = g[v] + FreeOf(ds[y])
  BY <1>7 DEF Sums
<1>9. FreeOf(cs[x]) = FreeOf(ds[y])
  <2>1. k \in 1 .. m
    BY <1>2, <1>3
  <2> QED
    BY <1>7, <2>1 DEF SameFree
<1>10. FreeOf(cs[x]) \in Nat /\ f[u] \in Nat /\ g[v] \in Nat
  <2>1. cs[x] \in ChunkType
    OBVIOUS
  <2> QED
    BY <2>1, PoolFreeOf
<1>11. f[x] + d = g[y] + c
  <2>1. f[u] + d = g[v] + c
    BY <1>6, <1>7
  <2>2. PICK e \in Nat, n \in Nat, o \in Nat : e = FreeOf(cs[x]) /\ n = f[u] /\ o = g[v]
    BY <1>10
  <2>3. f[x] = n + e /\ g[y] = o + e /\ n + d = o + c
    BY <1>8, <1>9, <2>1, <2>2
  <2>4. (n + e) + d = (o + e) + c
    BY <2>3
  <2> QED
    BY <2>3, <2>4
<1> QED
  BY <1>a, <1>2, <1>7, <1>11 DEF Shifted

(* The free bytes of p chunks, one or two, behind the first b *)
Middle(cs, b, p) == FreeOf(cs[b + 1]) + (IF p = 2 THEN FreeOf(cs[b + 2]) ELSE 0)

LEMMA PoolMiddle ==
  ASSUME NEW cs \in Seq(ChunkType), NEW f \in [0 .. Len(cs) -> Nat], Sums(f, cs),
         NEW b \in Nat, NEW p \in 1 .. 2, b + p <= Len(cs)
  PROVE  /\ f[b] \in Nat /\ f[b + p] \in Nat /\ Middle(cs, b, p) \in Nat
         /\ f[b + p] = f[b] + Middle(cs, b, p)
<1>1. PICK x \in 1 .. Len(cs) : x = b + 1 /\ x - 1 = b
  <2>1. b + 1 \in 1 .. Len(cs) /\ (b + 1) - 1 = b
    OBVIOUS
  <2> QED
    BY <2>1
<1>2. f[x] = f[b] + FreeOf(cs[x])
  BY <1>1 DEF Sums
<1>3. f[b] \in Nat /\ f[x] \in Nat
  <2>1. b \in 0 .. Len(cs) /\ x \in 0 .. Len(cs)
    OBVIOUS
  <2> QED
    BY <2>1
<1>4. FreeOf(cs[x]) \in Nat
  <2>1. cs[x] \in ChunkType
    OBVIOUS
  <2> QED
    BY <2>1, PoolFreeOf
<1>5. CASE p = 1
  BY <1>1, <1>2, <1>3, <1>4, <1>5 DEF Middle
<1>6. CASE p = 2
  <2>1. PICK y \in 1 .. Len(cs) : y = b + 2 /\ y - 1 = x
    <3>1. b + 2 \in 1 .. Len(cs) /\ (b + 2) - 1 = b + 1
      BY <1>6
    <3> QED
      BY <1>1, <3>1
  <2>2. f[y] = f[x] + FreeOf(cs[y])
    BY <2>1 DEF Sums
  <2>3. f[y] \in Nat
    <3>1. y \in 0 .. Len(cs)
      OBVIOUS
    <3> QED
      BY <3>1
  <2>4. FreeOf(cs[y]) \in Nat
    <3>1. cs[y] \in ChunkType
      OBVIOUS
    <3> QED
      BY <3>1, PoolFreeOf
  <2>5. Middle(cs, b, p) = FreeOf(cs[x]) + FreeOf(cs[y])
    BY <1>1, <1>6, <2>1 DEF Middle
  <2> QED
    BY <1>2, <1>3, <1>4, <1>6, <2>1, <2>2, <2>3, <2>4, <2>5
<1> QED
  BY <1>5, <1>6

(* Pools that differ in one or two chunks differ by their free bytes. *)
LEMMA PoolSplice ==
  ASSUME NEW cs \in Seq(ChunkType), NEW ds \in Seq(ChunkType), NEW b \in Nat, NEW r \in Nat,
         NEW p \in 1 .. 2, NEW q \in 1 .. 2, Len(cs) = b + p + r, Len(ds) = b + q + r,
         SameFree(cs, ds, 0, 0, b), SameFree(cs, ds, b + p, b + q, r)
  PROVE  /\ Pool!FreeBytes(cs) \in Nat /\ Pool!FreeBytes(ds) \in Nat
         /\ Middle(cs, b, p) \in Nat /\ Middle(ds, b, q) \in Nat
         /\ Pool!FreeBytes(cs) + Middle(ds, b, q) = Pool!FreeBytes(ds) + Middle(cs, b, p)
<1>1. PICK f \in [0 .. Len(cs) -> Nat] : Sums(f, cs) /\ Pool!FreeBytes(cs) = f[Len(cs)]
  BY PoolSumsExist
<1>2. PICK g \in [0 .. Len(ds) -> Nat] : Sums(g, ds) /\ Pool!FreeBytes(ds) = g[Len(ds)]
  BY PoolSumsExist
<1>3. PICK k \in Nat, l \in Nat : k = b + p /\ l = b + q
  <2>1. b + p \in Nat /\ b + q \in Nat
    OBVIOUS
  <2> QED
    BY <2>1
<1>4. f[b] = g[b]
  <2>1. Shifted(f, g, 0, 0, b)
    BY <1>1, <1>2, PoolShift
  <2>2. f[0] = 0 /\ g[0] = 0 /\ 0 + b = b
    BY <1>1, <1>2 DEF Sums
  <2>3. f[b] \in Nat /\ g[b] \in Nat
    <3>1. b \in 0 .. Len(cs) /\ b \in 0 .. Len(ds)
      BY SMTT(30)
    <3> QED
      BY <3>1
  <2>4. f[b] + 0 = g[b] + 0
    BY <2>1, <2>2 DEF Shifted
  <2> QED
    BY <2>3, <2>4, SMTT(30)
<1>5. /\ f[b] \in Nat /\ f[k] \in Nat /\ Middle(cs, b, p) \in Nat
      /\ f[k] = f[b] + Middle(cs, b, p)
  <2>1. b + p <= Len(cs)
    OBVIOUS
  <2> QED
    BY <1>1, <1>3, <2>1, PoolMiddle
<1>6. /\ g[b] \in Nat /\ g[l] \in Nat /\ Middle(ds, b, q) \in Nat
      /\ g[l] = g[b] + Middle(ds, b, q)
  <2>1. b + q <= Len(ds)
    OBVIOUS
  <2> QED
    BY <1>2, <1>3, <2>1, PoolMiddle
<1>7. Shifted(f, g, k, l, r)
  BY <1>1, <1>2, <1>3, PoolShift
<1>8. k + r = Len(cs) /\ l + r = Len(ds)
  BY <1>3
<1>9. f[Len(cs)] \in Nat /\ g[Len(ds)] \in Nat
  <2>1. Len(cs) \in 0 .. Len(cs) /\ Len(ds) \in 0 .. Len(ds)
    OBVIOUS
  <2> QED
    BY <2>1
<1>10. f[Len(cs)] + g[l] = g[Len(ds)] + f[k]
  BY <1>7, <1>8 DEF Shifted
<1> QED
  <2>1. PICK x \in Nat, y \in Nat, z \in Nat, c \in Nat, d \in Nat :
          /\ x = f[Len(cs)] /\ y = g[Len(ds)] /\ z = f[b]
          /\ c = Middle(cs, b, p) /\ d = Middle(ds, b, q)
    BY <1>5, <1>6, <1>9
  <2>2. x + (z + d) = y + (z + c)
    BY <1>4, <1>5, <1>6, <1>10, <2>1
  <2>3. x + d = y + c
    BY <2>2
  <2> QED
    BY <1>1, <1>2, <2>1, <2>3

LEMMA PoolMarkedFree ==
  ASSUME NEW cs \in Seq(ChunkType), NEW us, NEW i, NEW u, IsMarked(us, cs, i, u)
  PROVE  /\ Pool!FreeBytes(us) \in Nat /\ Pool!FreeBytes(cs) \in Nat
         /\ Pool!FreeBytes(us) + FreeOf(cs[i]) = Pool!FreeBytes(cs) + FreeOf(us[i])
<1>1. us \in Seq(ChunkType) /\ Len(us) = Len(cs) /\ i \in 1 .. Len(cs) /\ Len(cs) \in Nat
  BY DEF IsMarked
<1>2. PICK b \in Nat, r \in Nat : b + 1 = i /\ Len(cs) = b + 1 + r
  <2>1. i - 1 \in Nat /\ Len(cs) - i \in Nat /\ (i - 1) + 1 = i /\ Len(cs) = (i - 1) + 1 + (Len(cs) - i)
    BY <1>1
  <2> QED
    BY <2>1
<1>3. \A j \in 1 .. Len(cs) : j # i => FreeOf(cs[j]) = FreeOf(us[j])
  BY DEF IsMarked
<1>4. SameFree(cs, us, 0, 0, b)
  <2>1. \A j \in 1 .. b : j \in 1 .. Len(cs) /\ j # i /\ 0 + j = j
    BY <1>1, <1>2
  <2>2. 0 + b <= Len(cs) /\ 0 + b <= Len(us)
    BY <1>1, <1>2
  <2> QED
    BY <1>3, <2>1, <2>2 DEF SameFree
<1>5. SameFree(cs, us, b + 1, b + 1, r)
  <2>1. \A j \in 1 .. r : (b + 1) + j \in 1 .. Len(cs) /\ (b + 1) + j # i
    BY <1>1, <1>2
  <2>2. (b + 1) + r <= Len(cs) /\ (b + 1) + r <= Len(us)
    BY <1>1, <1>2
  <2> QED
    BY <1>3, <2>1, <2>2 DEF SameFree
<1>6. 1 \in 1 .. 2 /\ Len(us) = b + 1 + r
  BY <1>1, <1>2
<1>7. /\ Pool!FreeBytes(cs) \in Nat /\ Pool!FreeBytes(us) \in Nat
      /\ Middle(cs, b, 1) \in Nat /\ Middle(us, b, 1) \in Nat
      /\ Pool!FreeBytes(cs) + Middle(us, b, 1) = Pool!FreeBytes(us) + Middle(cs, b, 1)
  BY <1>1, <1>2, <1>4, <1>5, <1>6, PoolSplice
<1>8. /\ FreeOf(cs[i]) \in Nat /\ FreeOf(us[i]) \in Nat
      /\ Middle(cs, b, 1) = FreeOf(cs[i]) /\ Middle(us, b, 1) = FreeOf(us[i])
  <2>1. cs[i] \in ChunkType /\ us[i] \in ChunkType
    BY <1>1
  <2>2. FreeOf(cs[i]) \in Nat /\ FreeOf(us[i]) \in Nat
    BY <2>1, PoolFreeOf
  <2> QED
    BY <1>2, <2>2 DEF Middle
<1> QED
  BY <1>7, <1>8

LEMMA PoolMergedFree ==
  ASSUME NEW cs \in Seq(ChunkType), NEW ms, NEW i, NEW n, IsMerged(ms, cs, i, n)
  PROVE  /\ Pool!FreeBytes(ms) \in Nat /\ Pool!FreeBytes(cs) \in Nat
         /\ Pool!FreeBytes(ms) + (FreeOf(cs[i]) + FreeOf(cs[n])) = Pool!FreeBytes(cs) + FreeOf(ms[i])
<1>1. /\ ms \in Seq(ChunkType) /\ Len(cs) = Len(ms) + 1 /\ n = i + 1
      /\ i \in 1 .. Len(ms) /\ n \in 1 .. Len(cs) /\ i \in 1 .. Len(cs) /\ Len(ms) \in Nat
  BY DEF IsMerged
<1>2. PICK b \in Nat, r \in Nat : b + 1 = i /\ b + 2 = n /\ Len(cs) = b + 2 + r /\ Len(ms) = b + 1 + r
  <2>1. /\ i - 1 \in Nat /\ Len(ms) - i \in Nat /\ (i - 1) + 1 = i /\ (i - 1) + 2 = n
        /\ Len(cs) = (i - 1) + 2 + (Len(ms) - i) /\ Len(ms) = (i - 1) + 1 + (Len(ms) - i)
    BY <1>1
  <2> QED
    BY <2>1
<1>3. ASSUME NEW j \in 1 .. b PROVE FreeOf(cs[j]) = FreeOf(ms[j])
  <2>1. j \in 1 .. Len(cs) /\ j \in 1 .. Len(ms) /\ j < i
    BY <1>1, <1>2
  <2>2. ms[j] = cs[j]
    BY <2>1 DEF IsMerged
  <2> QED
    BY <2>2
<1>4. ASSUME NEW j \in 1 .. r PROVE FreeOf(cs[(b + 2) + j]) = FreeOf(ms[(b + 1) + j])
  <2>1. PICK k \in 1 .. Len(cs), l \in 1 .. Len(ms) :
          k = (b + 2) + j /\ l = (b + 1) + j /\ l > i /\ k = l + 1
    <3>1. /\ (b + 2) + j \in 1 .. Len(cs) /\ (b + 1) + j \in 1 .. Len(ms)
          /\ (b + 1) + j > i /\ (b + 2) + j = ((b + 1) + j) + 1
      BY <1>1, <1>2
    <3> QED
      BY <3>1
  <2>2. ms[l] = cs[k]
    BY <2>1 DEF IsMerged
  <2> QED
    BY <2>1, <2>2
<1>5. 1 \in 1 .. 2 /\ 2 \in 1 .. 2
  OBVIOUS
<1>a. SameFree(cs, ms, 0, 0, b)
  <2>1. 0 + b <= Len(cs) /\ 0 + b <= Len(ms) /\ \A j \in 1 .. b : 0 + j = j
    BY <1>2
  <2> QED
    BY <1>3, <2>1 DEF SameFree
<1>b. SameFree(cs, ms, b + 2, b + 1, r)
  <2>1. (b + 2) + r <= Len(cs) /\ (b + 1) + r <= Len(ms)
    BY <1>2
  <2> QED
    BY <1>4, <2>1 DEF SameFree
<1>6. /\ Pool!FreeBytes(cs) \in Nat /\ Pool!FreeBytes(ms) \in Nat
      /\ Middle(cs, b, 2) \in Nat /\ Middle(ms, b, 1) \in Nat
      /\ Pool!FreeBytes(cs) + Middle(ms, b, 1) = Pool!FreeBytes(ms) + Middle(cs, b, 2)
  BY <1>1, <1>2, <1>a, <1>b, <1>5, PoolSplice
<1>7. Middle(cs, b, 2) = FreeOf(cs[i]) + FreeOf(cs[n]) /\ Middle(ms, b, 1) = FreeOf(ms[i])
  <2>1. cs[i] \in ChunkType /\ cs[n] \in ChunkType /\ ms[i] \in ChunkType
    BY <1>1
  <2>2. FreeOf(cs[i]) \in Nat /\ FreeOf(cs[n]) \in Nat /\ FreeOf(ms[i]) \in Nat
    BY <2>1, PoolFreeOf
  <2> QED
    BY <1>2, <2>2 DEF Middle
<1> QED
  BY <1>6, <1>7

LEMMA PoolSplitFree ==
  ASSUME NEW cs \in Seq(ChunkType), NEW ss, NEW i, NEW n, NEW x, IsSplit(ss, cs, i, n, x)
  PROVE  /\ Pool!FreeBytes(ss) \in Nat /\ Pool!FreeBytes(cs) \in Nat
         /\ Pool!FreeBytes(ss) + FreeOf(cs[i]) = Pool!FreeBytes(cs) + (cs[i].size - x - HEADER)
<1>1. /\ ss \in Seq(ChunkType) /\ Len(ss) = Len(cs) + 1 /\ n = i + 1 /\ i \in 1 .. Len(cs)
      /\ Len(cs) \in Nat /\ n \in 1 .. Len(ss) /\ i \in 1 .. Len(ss)
  BY DEF IsSplit
<1>2. PICK b \in Nat, r \in Nat : b + 1 = i /\ b + 2 = n /\ Len(ss) = b + 2 + r /\ Len(cs) = b + 1 + r
  <2>1. /\ i - 1 \in Nat /\ Len(cs) - i \in Nat /\ (i - 1) + 1 = i /\ (i - 1) + 2 = n
        /\ Len(ss) = (i - 1) + 2 + (Len(cs) - i) /\ Len(cs) = (i - 1) + 1 + (Len(cs) - i)
    BY <1>1
  <2> QED
    BY <2>1
<1>3. ASSUME NEW j \in 1 .. b PROVE FreeOf(cs[j]) = FreeOf(ss[j])
  <2>1. j \in 1 .. Len(cs) /\ j \in 1 .. Len(ss) /\ j < i
    BY <1>1, <1>2
  <2>2. ss[j] = cs[j]
    BY <2>1 DEF IsSplit
  <2> QED
    BY <2>2
<1>4. ASSUME NEW j \in 1 .. r PROVE FreeOf(cs[(b + 1) + j]) = FreeOf(ss[(b + 2) + j])
  <2>1. PICK k \in 1 .. Len(cs), l \in 1 .. Len(ss) :
          k = (b + 1) + j /\ l = (b + 2) + j /\ l > n /\ l = k + 1
    <3>1. /\ (b + 1) + j \in 1 .. Len(cs) /\ (b + 2) + j \in 1 .. Len(ss)
          /\ (b + 2) + j > n /\ (b + 2) + j = ((b + 1) + j) + 1
      BY <1>1, <1>2
    <3> QED
      BY <3>1
  <2>2. ss[l] = cs[k]
    BY <2>1 DEF IsSplit
  <2> QED
    BY <2>1, <2>2
<1>5. 1 \in 1 .. 2 /\ 2 \in 1 .. 2
  OBVIOUS
<1>a. SameFree(cs, ss, 0, 0, b)
  <2>1. 0 + b <= Len(cs) /\ 0 + b <= Len(ss) /\ \A j \in 1 .. b : 0 + j = j
    BY <1>2
  <2> QED
    BY <1>3, <2>1 DEF SameFree
<1>b. SameFree(cs, ss, b + 1, b + 2, r)
  <2>1. (b + 1) + r <= Len(cs) /\ (b + 2) + r <= Len(ss)
    BY <1>2
  <2> QED
    BY <1>4, <2>1 DEF SameFree
<1>6. /\ Pool!FreeBytes(cs) \in Nat /\ Pool!FreeBytes(ss) \in Nat
      /\ Middle(cs, b, 1) \in Nat /\ Middle(ss, b, 2) \in Nat
      /\ Pool!FreeBytes(cs) + Middle(ss, b, 2) = Pool!FreeBytes(ss) + Middle(cs, b, 1)
  BY <1>1, <1>2, <1>a, <1>b, <1>5, PoolSplice
<1>7. Middle(cs, b, 1) = FreeOf(cs[i]) /\ Middle(ss, b, 2) = cs[i].size - x - HEADER
  <2>1. FreeOf(ss[i]) = 0 /\ FreeOf(ss[n]) = cs[i].size - x - HEADER
    BY DEF IsSplit, FreeOf
  <2>2. FreeOf(cs[i]) \in Nat /\ FreeOf(ss[n]) \in Nat
    <3>1. cs[i] \in ChunkType /\ ss[n] \in ChunkType
      BY <1>1
    <3> QED
      BY <3>1, PoolFreeOf
  <2>3. Middle(cs, b, 1) = FreeOf(cs[i])
    BY <1>2, <2>2 DEF Middle
  <2>4. Middle(ss, b, 2) = FreeOf(ss[n])
    BY <1>2, <2>1, <2>2 DEF Middle
  <2> QED
    BY <2>1, <2>3, <2>4
<1> QED
  BY <1>6, <1>7
(* The free bytes fit in the pool. *)
LEMMA PoolFreeFits ==
  ASSUME NEW cs \in Seq(ChunkType), Tiles(cs)
  PROVE  Pool!FreeBytes(cs) \in Nat /\ Pool!FreeBytes(cs) + HEADER <= POOL
<1>1. PICK f \in [0 .. Len(cs) -> Nat] : Sums(f, cs) /\ Pool!FreeBytes(cs) = f[Len(cs)]
  BY PoolSumsExist
<1> DEFINE B == {k \in 1 .. Len(cs) : ~(f[k] + HEADER <= Pool!End(cs[k]))}
<1>2. B = {}
  <2>1. SUFFICES ASSUME B # {} PROVE FALSE
    OBVIOUS
  <2>2. PICK k \in B : \A y \in B : k <= y
    <3>1. B \in SUBSET Nat
      OBVIOUS
    <3> HIDE DEF B
    <3> QED
      BY <2>1, <3>1, LeastNumber
  <2>3. PICK m \in 0 .. Len(cs) : m = k - 1 /\ k = m + 1
    <3>1. k - 1 \in 0 .. Len(cs) /\ k = (k - 1) + 1
      BY <2>2
    <3> QED
      BY <3>1
  <2>4. f[k] = f[m] + FreeOf(cs[k])
    BY <1>1, <2>3 DEF Sums
  <2>5. /\ f[m] \in Nat /\ FreeOf(cs[k]) \in Nat /\ FreeOf(cs[k]) <= cs[k].size
        /\ cs[k].at \in Nat /\ cs[k].size \in Nat /\ Pool!End(cs[k]) = cs[k].at + cs[k].size
    <3>1. cs[k] \in ChunkType
      BY <2>2
    <3>2. f[m] \in Nat
      OBVIOUS
    <3> QED
      BY <3>1, <3>2, PoolFreeOf, PoolTypes
  <2>6. f[m] + HEADER <= cs[k].at
    <3>1. CASE m = 0
      <4>1. f[0] = 0 /\ cs[1].at = HEADER
        BY <1>1 DEF Sums, Tiles
      <4> QED
        BY <2>3, <3>1, <4>1, PoolAssumption
    <3>2. CASE m # 0
      <4>1. m \in 1 .. Len(cs) /\ m \notin B
        BY <2>2, <2>3, <3>2
      <4>2. f[m] + HEADER <= Pool!End(cs[m])
        BY <4>1
      <4>3. cs[k].at = Pool!End(cs[m]) + HEADER
        BY <2>2, <2>3, <4>1 DEF Tiles
      <4>4. Pool!End(cs[m]) \in Nat
        <5>1. cs[m] \in ChunkType
          BY <4>1
        <5> QED
          BY <5>1, PoolTypes
      <4> QED
        BY <2>5, <4>2, <4>3, <4>4, PoolAssumption
    <3> QED
      BY <3>1, <3>2
  <2>7. f[k] + HEADER <= Pool!End(cs[k])
    BY <2>4, <2>5, <2>6, PoolAssumption
  <2> QED
    BY <2>2, <2>7
<1>3. Len(cs) \in 1 .. Len(cs) /\ Len(cs) \in 0 .. Len(cs)
  BY DEF Tiles
<1>4. f[Len(cs)] + HEADER <= Pool!End(cs[Len(cs)]) /\ f[Len(cs)] \in Nat
  BY <1>2, <1>3
<1> QED
  BY <1>1, <1>4 DEF Tiles

-----------------------------------------------------------------------------
(* There is a run of n bytes, and none that begins before chunk i. *)
Large(cs, n) == \E a, b \in 1 .. Len(cs) : Run(cs, a, b) /\ n <= Pool!End(cs[b]) - cs[a].at
Early(cs, i, n) ==
  \A a, b \in 1 .. Len(cs) : a < i /\ Run(cs, a, b) => ~(n <= Pool!End(cs[b]) - cs[a].at)

(* The search of mpool_alloc ends at chunk i. *)
Stops(cs, i, n) == i > Len(cs) \/ (~cs[i].used /\ cs[i].size >= n)

LEMMA PoolMergedLarge ==
  ASSUME NEW cs \in Seq(ChunkType), Tiles(cs), NEW ms, NEW i, NEW m, IsMerged(ms, cs, i, m),
         ~cs[i].used, ~cs[m].used, NEW n \in Nat
  PROVE  Large(ms, n) <=> Large(cs, n)
<1>0. ms \in Seq(ChunkType)
  BY DEF IsMerged
<1>1. ASSUME Large(ms, n) PROVE Large(cs, n)
  <2>1. PICK a \in 1 .. Len(ms), b \in 1 .. Len(ms) : Run(ms, a, b) /\ n <= Pool!End(ms[b]) - ms[a].at
    BY <1>1 DEF Large
  <2>2. PICK c \in 1 .. Len(cs), d \in 1 .. Len(cs) :
          Run(cs, c, d) /\ cs[c].at = ms[a].at /\ Pool!End(cs[d]) = Pool!End(ms[b])
    BY <2>1, PoolMergedRun
  <2> QED
    BY <2>1, <2>2 DEF Large
<1>2. ASSUME Large(cs, n) PROVE Large(ms, n)
  <2>1. PICK c \in 1 .. Len(cs), d \in 1 .. Len(cs) : Run(cs, c, d) /\ n <= Pool!End(cs[d]) - cs[c].at
    BY <1>2 DEF Large
  <2>2. PICK a \in 1 .. Len(ms), b \in 1 .. Len(ms) :
          Run(ms, a, b) /\ ms[a].at <= cs[c].at /\ Pool!End(cs[d]) <= Pool!End(ms[b])
    BY <2>1, PoolRunMerged
  <2>3. /\ ms[a].at \in Nat /\ Pool!End(ms[b]) \in Nat /\ cs[c].at \in Nat /\ Pool!End(cs[d]) \in Nat
    <3>1. ms[a] \in ChunkType /\ ms[b] \in ChunkType /\ cs[c] \in ChunkType /\ cs[d] \in ChunkType
      BY <1>0
    <3> QED
      BY <3>1, PoolTypes
  <2>4. n <= Pool!End(ms[b]) - ms[a].at
    BY <2>1, <2>2, <2>3, SMTT(30)
  <2> QED
    BY <2>2, <2>4 DEF Large
<1> QED
  BY <1>1, <1>2

LEMMA PoolMergedEarly ==
  ASSUME NEW cs \in Seq(ChunkType), Tiles(cs), NEW ms, NEW i, NEW m, IsMerged(ms, cs, i, m),
         ~cs[i].used, ~cs[m].used, NEW n \in Nat, Early(cs, i, n)
  PROVE  Early(ms, i, n)
<1> SUFFICES ASSUME NEW a \in 1 .. Len(ms), NEW b \in 1 .. Len(ms), a < i, Run(ms, a, b)
             PROVE  ~(n <= Pool!End(ms[b]) - ms[a].at)
  BY DEF Early
<1>1. PICK c \in 1 .. Len(cs), d \in 1 .. Len(cs) :
        /\ Run(cs, c, d) /\ (a <= i => c = a)
        /\ cs[c].at = ms[a].at /\ Pool!End(cs[d]) = Pool!End(ms[b])
  BY PoolMergedRun
<1>2. c < i
  <2>1. i \in Nat
    BY DEF IsMerged
  <2> QED
    BY <1>1, <2>1
<1> QED
  BY <1>1, <1>2 DEF Early

(* No run of n bytes begins at a chunk that is passed by. *)
LEMMA PoolEarlier ==
  ASSUME NEW cs \in Seq(ChunkType), NEW i \in 1 .. Len(cs), NEW n \in Nat, Early(cs, i, n),
         cs[i].used \/ cs[i].size < n
  PROVE  /\ cs[i].used \/ i = Len(cs) => Early(cs, i + 1, n)
         /\ \A j \in 1 .. Len(cs) : j = i + 1 /\ cs[j].used => Early(cs, i + 2, n)
<1>1. ASSUME NEW a \in 1 .. Len(cs), NEW b \in 1 .. Len(cs), a < i + 1, Run(cs, a, b), n <= Pool!End(cs[b]) - cs[a].at
      PROVE  a = i /\ ~cs[i].used /\ b # i
  <2>1. ~(a < i)
    BY <1>1 DEF Early
  <2>2. a = i
    BY <1>1, <2>1
  <2>3. ~cs[i].used
    <3>1. i \in a .. b
      BY <1>1, <2>2 DEF Run
    <3> QED
      BY <1>1, <3>1 DEF Run
  <2>4. b # i
    <3>1. cs[i] \in ChunkType
      OBVIOUS
    <3>2. cs[i].size \in Nat /\ cs[i].at \in Nat /\ Pool!End(cs[i]) = cs[i].at + cs[i].size
      BY <3>1, PoolTypes
    <3>3. cs[i].size < n
      BY <2>3
    <3> QED
      BY <1>1, <2>2, <3>2, <3>3
  <2> QED
    BY <2>2, <2>3, <2>4
<1>2. ASSUME cs[i].used \/ i = Len(cs) PROVE Early(cs, i + 1, n)
  <2> SUFFICES ASSUME NEW a \in 1 .. Len(cs), NEW b \in 1 .. Len(cs), a < i + 1, Run(cs, a, b),
                      n <= Pool!End(cs[b]) - cs[a].at
               PROVE  FALSE
    BY DEF Early
  <2>1. a = i /\ ~cs[i].used /\ b # i
    BY <1>1
  <2>2. a <= b
    BY DEF Run
  <2> QED
    BY <1>2, <2>1, <2>2
<1>3. ASSUME NEW j \in 1 .. Len(cs), j = i + 1, cs[j].used PROVE Early(cs, i + 2, n)
  <2> SUFFICES ASSUME NEW a \in 1 .. Len(cs), NEW b \in 1 .. Len(cs), a < i + 2, Run(cs, a, b),
                      n <= Pool!End(cs[b]) - cs[a].at
               PROVE  FALSE
    BY DEF Early
  <2>1. ~(j \in a .. b)
    BY <1>3 DEF Run
  <2>2. a <= b
    BY DEF Run
  <2>3. a # j
    BY <2>1, <2>2
  <2>4. a < i + 1
    BY <1>3, <2>3
  <2>5. a = i /\ b # i
    BY <1>1, <2>4
  <2> QED
    BY <1>3, <2>1, <2>2, <2>5
<1> QED
  BY <1>2, <1>3
(* After k rounds the search of mpool_alloc has the chunks ds of the pool  *)
(* cs and is at chunk i.                                                   *)
Looks(ds, i, cs, h, n, k) ==
  /\ Kept(ds, h) /\ i \in Nat \ {0} /\ Len(ds) <= Len(cs)
  /\ Pool!FreeBytes(ds) = Pool!FreeBytes(cs) + HEADER * (Len(cs) - Len(ds))
  /\ Large(ds, n) <=> Large(cs, n)
  /\ Early(ds, i, n)
  /\ Stops(ds, i, n) \/ (Len(ds) + k) + 1 <= Len(cs) + i

LEMMA PoolTimes ==
  ASSUME NEW x \in Nat, NEW y \in Nat
  PROVE  x * y \in Nat /\ x * (y + 1) = x * y + x
  OBVIOUS

LEMMA PoolLooksOn ==
  ASSUME NEW cs \in Seq(ChunkType), NEW h, NEW n \in Nat, NEW k \in Nat, NEW ds, NEW i,
         Looks(ds, i, cs, h, n, k), ~Stops(ds, i, n)
  PROVE  /\ i \in 1 .. Len(ds) /\ Len(ds) \in Nat
         /\ ds[i].used \/ i = Len(ds) => Looks(ds, i + 1, cs, h, n, k + 1)
         /\ i + 1 <= Len(ds) /\ ds[i + 1].used => Looks(ds, i + 2, cs, h, n, k + 1)
<1>1. ds \in Seq(ChunkType) /\ i \in Nat \ {0}
  BY DEF Looks, Kept
<1>2. i \in 1 .. Len(ds) /\ Len(ds) \in Nat
  BY <1>1 DEF Stops
<1>3. ds[i].used \/ ds[i].size < n
  <2>1. ds[i] \in ChunkType
    BY <1>1, <1>2
  <2>2. ds[i].size \in Nat
    BY <2>1, PoolTypes
  <2> QED
    BY <2>2 DEF Stops
<1>4. Len(ds) + k + 1 <= Len(cs) + i /\ Len(cs) \in Nat
  BY DEF Looks
<1>5. Early(ds, i, n)
  BY DEF Looks
<1>6. /\ ds[i].used \/ i = Len(ds) => Early(ds, i + 1, n)
      /\ \A j \in 1 .. Len(ds) : j = i + 1 /\ ds[j].used => Early(ds, i + 2, n)
  BY <1>1, <1>2, <1>3, <1>5, PoolEarlier
<1>7. ASSUME ds[i].used \/ i = Len(ds) PROVE Looks(ds, i + 1, cs, h, n, k + 1)
  <2>1. Early(ds, i + 1, n)
    BY <1>6, <1>7
  <2>2. i + 1 \in Nat \ {0} /\ (Len(ds) + (k + 1)) + 1 <= Len(cs) + (i + 1)
    BY <1>2, <1>4
  <2> QED
    BY <2>1, <2>2 DEF Looks
<1>8. ASSUME i + 1 <= Len(ds), ds[i + 1].used PROVE Looks(ds, i + 2, cs, h, n, k + 1)
  <2>1. Early(ds, i + 2, n)
    <3>1. i + 1 \in 1 .. Len(ds)
      BY <1>2, <1>8
    <3> QED
      BY <1>6, <1>8, <3>1
  <2>2. i + 2 \in Nat \ {0} /\ (Len(ds) + (k + 1)) + 1 <= Len(cs) + (i + 2)
    BY <1>2, <1>4
  <2> QED
    BY <2>1, <2>2 DEF Looks
<1> QED
  BY <1>2, <1>7, <1>8

LEMMA PoolLooksMerged ==
  ASSUME NEW cs \in Seq(ChunkType), NEW h, NEW n \in Nat, NEW k \in Nat, NEW ds, NEW i, NEW ms, NEW m,
         Looks(ds, i, cs, h, n, k), ~Stops(ds, i, n), IsMerged(ms, ds, i, m),
         ~ds[i].used, ~ds[m].used
  PROVE  Looks(ms, i, cs, h, n, k + 1)
<1>1. /\ ds \in Seq(ChunkType) /\ Tiles(ds) /\ Kept(ds, h) /\ ms \in Seq(ChunkType)
      /\ Len(ds) = Len(ms) + 1 /\ i \in 1 .. Len(ms)
  BY DEF Looks, Kept, IsMerged
<1>2. Kept(ms, h)
  BY <1>1, PoolMergedKept
<1>3. Large(ms, n) <=> Large(cs, n)
  <2>1. Large(ms, n) <=> Large(ds, n)
    BY <1>1, PoolMergedLarge
  <2> QED
    BY <2>1 DEF Looks
<1>4. Early(ms, i, n)
  <2>1. Early(ds, i, n)
    BY DEF Looks
  <2> QED
    BY <1>1, <2>1, PoolMergedEarly
<1>5. Pool!FreeBytes(ms) = Pool!FreeBytes(cs) + HEADER * (Len(cs) - Len(ms))
  <2>1. /\ Pool!FreeBytes(ms) \in Nat /\ Pool!FreeBytes(ds) \in Nat
        /\ Pool!FreeBytes(ms) + (FreeOf(ds[i]) + FreeOf(ds[m])) = Pool!FreeBytes(ds) + FreeOf(ms[i])
    BY <1>1, PoolMergedFree
  <2>2. /\ FreeOf(ds[i]) = ds[i].size /\ FreeOf(ds[m]) = ds[m].size
        /\ FreeOf(ms[i]) = ds[i].size + ds[m].size + HEADER
    BY DEF FreeOf, IsMerged
  <2>3. ds[i].size \in Nat /\ ds[m].size \in Nat /\ HEADER \in Nat
    <3>1. ds[i] \in ChunkType /\ ds[m] \in ChunkType
      BY <1>1 DEF IsMerged
    <3> QED
      BY <3>1, PoolTypes, PoolAssumption
  <2>4. Pool!FreeBytes(ms) = Pool!FreeBytes(ds) + HEADER
    <3>1. PICK x \in Nat, y \in Nat, a \in Nat, b \in Nat, c \in Nat :
            /\ x = Pool!FreeBytes(ms) /\ y = Pool!FreeBytes(ds)
            /\ a = ds[i].size /\ b = ds[m].size /\ c = HEADER
      BY <2>1, <2>3
    <3>2. x + (a + b) = y + (a + b + c)
      BY <2>1, <2>2, <3>1
    <3>3. x = y + c
      BY <3>2
    <3> QED
      BY <3>1, <3>3
  <2>5. Pool!FreeBytes(ds) = Pool!FreeBytes(cs) + HEADER * (Len(cs) - Len(ds)) /\ Len(ds) <= Len(cs)
    BY DEF Looks
  <2>6. PICK x \in Nat : x = Len(cs) - Len(ds) /\ x + 1 = Len(cs) - Len(ms)
    <3>1. Len(cs) - Len(ds) \in Nat /\ (Len(cs) - Len(ds)) + 1 = Len(cs) - Len(ms)
      BY <1>1, <2>5
    <3> QED
      BY <3>1
  <2>7. HEADER * x \in Nat /\ HEADER * (x + 1) = HEADER * x + HEADER
    BY <2>3, PoolTimes
  <2>8. PICK y \in Nat : y = HEADER * x
    BY <2>7
  <2>9. Pool!FreeBytes(cs) \in Nat
    <3>1. PICK f \in [0 .. Len(cs) -> Nat] : Pool!FreeBytes(cs) = f[Len(cs)]
      BY PoolSumsExist
    <3>2. Len(cs) \in 0 .. Len(cs)
      OBVIOUS
    <3> QED
      BY <3>1, <3>2
  <2>10. Pool!FreeBytes(ds) = Pool!FreeBytes(cs) + y
    BY <2>5, <2>6, <2>8
  <2>11. Pool!FreeBytes(ms) = Pool!FreeBytes(cs) + (y + HEADER)
    BY <2>1, <2>3, <2>4, <2>9, <2>10
  <2> QED
    BY <2>6, <2>7, <2>8, <2>11
<1>6. /\ i \in Nat \ {0} /\ Len(ms) <= Len(cs) /\ (Len(ms) + (k + 1)) + 1 <= Len(cs) + i
  <2>1. Len(ds) + k + 1 <= Len(cs) + i /\ Len(ds) <= Len(cs)
    BY DEF Looks
  <2> QED
    BY <1>1, <2>1
<1> QED
  BY <1>2, <1>3, <1>4, <1>5, <1>6 DEF Looks

PoolSearch == [cs : Seq(ChunkType), at : Nat \ {0}]

(* A round of the search *)
LEMMA PoolPassedType ==
  ASSUME NEW s \in PoolSearch, NEW n
  PROVE  /\ Pool!Passed(s, n) \in PoolSearch
         /\ Stops(s.cs, s.at, n) => Pool!Passed(s, n) = s
         /\ ~Stops(s.cs, s.at, n) /\ (s.cs[s.at].used \/ s.at = Len(s.cs))
              => Pool!Passed(s, n).cs = s.cs /\ Pool!Passed(s, n).at = s.at + 1
         /\ ~Stops(s.cs, s.at, n) /\ ~(s.cs[s.at].used \/ s.at = Len(s.cs)) /\ s.cs[s.at + 1].used
              => Pool!Passed(s, n).cs = s.cs /\ Pool!Passed(s, n).at = s.at + 2
         /\ ~Stops(s.cs, s.at, n) /\ ~(s.cs[s.at].used \/ s.at = Len(s.cs)) /\ ~s.cs[s.at + 1].used
              => Pool!Passed(s, n).cs = Pool!Merged(s.cs, s.at) /\ Pool!Passed(s, n).at = s.at
<1>1. s.cs \in Seq(ChunkType) /\ s.at \in Nat \ {0}
  BY DEF PoolSearch
<1>2. s.at + 1 \in Nat \ {0} /\ s.at + 2 \in Nat \ {0}
  BY <1>1
<1>3. \A i \in Nat \ {0} : [s EXCEPT !.at = i] \in PoolSearch /\ [s EXCEPT !.at = i].cs = s.cs
                           /\ [s EXCEPT !.at = i].at = i
  BY DEF PoolSearch
<1>4. \A ms \in Seq(ChunkType) : [s EXCEPT !.cs = ms] \in PoolSearch /\ [s EXCEPT !.cs = ms].cs = ms
                                 /\ [s EXCEPT !.cs = ms].at = s.at
  BY DEF PoolSearch
<1>5. CASE Stops(s.cs, s.at, n)
  BY <1>5 DEF Pool!Passed, Stops
<1>6. CASE ~Stops(s.cs, s.at, n) /\ (s.cs[s.at].used \/ s.at = Len(s.cs))
  <2>1. Pool!Passed(s, n) = [s EXCEPT !.at = s.at + 1]
    BY <1>6 DEF Pool!Passed, Stops
  <2> QED
    BY <1>2, <1>3, <1>6, <2>1, Zenon
<1>7. CASE /\ ~Stops(s.cs, s.at, n) /\ ~(s.cs[s.at].used \/ s.at = Len(s.cs))
           /\ s.cs[s.at + 1].used
  <2>1. Pool!Passed(s, n) = [s EXCEPT !.at = s.at + 2]
    BY <1>7 DEF Pool!Passed, Stops
  <2> QED
    BY <1>2, <1>3, <1>7, <2>1, Zenon
<1>8. CASE /\ ~Stops(s.cs, s.at, n) /\ ~(s.cs[s.at].used \/ s.at = Len(s.cs))
           /\ ~s.cs[s.at + 1].used
  <2>1. Pool!Passed(s, n) = [s EXCEPT !.cs = Pool!Merged(s.cs, s.at)]
    BY <1>8 DEF Pool!Passed, Stops
  <2>2. s.at \in 1 .. Len(s.cs) /\ s.at + 1 <= Len(s.cs)
    BY <1>1, <1>8 DEF Stops
  <2>3. IsMerged(Pool!Merged(s.cs, s.at), s.cs, s.at, s.at + 1)
    BY <1>1, <2>2, PoolMerged
  <2>4. Pool!Merged(s.cs, s.at) \in Seq(ChunkType)
    BY <2>3 DEF IsMerged
  <2> QED
    BY <1>4, <1>8, <2>1, <2>4, Zenon
<1> QED
  BY <1>5, <1>6, <1>7, <1>8

LEMMA PoolPassed ==
  ASSUME NEW cs \in Seq(ChunkType), NEW h, NEW n \in Nat, NEW k \in Nat, NEW s \in PoolSearch,
         Looks(s.cs, s.at, cs, h, n, k)
  PROVE  Looks(Pool!Passed(s, n).cs, Pool!Passed(s, n).at, cs, h, n, k + 1)
<1>1. PICK ds, i, es, j : ds = s.cs /\ i = s.at /\ es = Pool!Passed(s, n).cs /\ j = Pool!Passed(s, n).at
  OBVIOUS
<1>2. /\ Stops(ds, i, n) => Pool!Passed(s, n) = s
      /\ ~Stops(ds, i, n) /\ (ds[i].used \/ i = Len(ds)) => es = ds /\ j = i + 1
      /\ ~Stops(ds, i, n) /\ ~(ds[i].used \/ i = Len(ds)) /\ ds[i + 1].used => es = ds /\ j = i + 2
      /\ ~Stops(ds, i, n) /\ ~(ds[i].used \/ i = Len(ds)) /\ ~ds[i + 1].used
           => es = Pool!Merged(ds, i) /\ j = i
  BY <1>1, PoolPassedType
<1>3. ds \in Seq(ChunkType) /\ i \in Nat \ {0} /\ Looks(ds, i, cs, h, n, k)
  BY <1>1 DEF PoolSearch
<1>4. Looks(es, j, cs, h, n, k + 1)
  <2>1. CASE Stops(ds, i, n)
    <3>1. es = ds /\ j = i
      BY <1>1, <1>2, <2>1
    <3>2. Looks(ds, i, cs, h, n, k + 1)
      BY <1>3, <2>1 DEF Looks
    <3> QED
      BY <3>1, <3>2
  <2>2. CASE ~Stops(ds, i, n)
    <3>1. /\ i \in 1 .. Len(ds) /\ Len(ds) \in Nat
          /\ ds[i].used \/ i = Len(ds) => Looks(ds, i + 1, cs, h, n, k + 1)
          /\ i + 1 <= Len(ds) /\ ds[i + 1].used => Looks(ds, i + 2, cs, h, n, k + 1)
      BY <1>3, <2>2, PoolLooksOn
    <3>2. CASE ds[i].used \/ i = Len(ds)
      BY <1>2, <2>2, <3>1, <3>2
    <3>3. CASE ~(ds[i].used \/ i = Len(ds)) /\ ds[i + 1].used
      <4>1. i + 1 <= Len(ds)
        BY <3>1, <3>3
      <4> QED
        BY <1>2, <2>2, <3>1, <3>3, <4>1
    <3>4. CASE ~(ds[i].used \/ i = Len(ds)) /\ ~ds[i + 1].used
      <4>1. i + 1 <= Len(ds)
        BY <3>1, <3>4
      <4>2. IsMerged(Pool!Merged(ds, i), ds, i, i + 1)
        BY <1>3, <3>1, <4>1, PoolMerged
      <4>3. PICK m : m = i + 1
        OBVIOUS
      <4>4. IsMerged(es, ds, i, m) /\ ~ds[i].used /\ ~ds[m].used /\ j = i
        BY <1>2, <2>2, <3>4, <4>2, <4>3
      <4> QED
        BY <1>3, <2>2, <4>4, PoolLooksMerged
    <3> QED
      BY <3>2, <3>3, <3>4
  <2> QED
    BY <2>1, <2>2
<1> QED
  BY <1>1, <1>4
(* What the search ends with *)
LEMMA PoolFound ==
  ASSUME Kept(v2, v4), NEW n \in Nat
  PROVE  /\ Pool!Found(n) \in PoolSearch
         /\ Looks(Pool!Found(n).cs, Pool!Found(n).at, v2, v4, n, Len(v2))
<1>1. v2 \in Seq(ChunkType)
  BY DEF Kept
<1>2. PICK L \in Nat : L = Len(v2)
  BY <1>1
<1>3. PICK first \in PoolSearch : first = [cs |-> v2, at |-> 1]
  <2>1. [cs |-> v2, at |-> 1] \in PoolSearch
    BY <1>1 DEF PoolSearch
  <2> QED
    BY <2>1
<1>4. Looks(first.cs, first.at, v2, v4, n, 0)
  <2>1. Early(v2, 1, n)
    BY DEF Early
  <2>2. Pool!FreeBytes(v2) \in Nat
    BY <1>1, PoolFreeFits DEF Kept
  <2>3. HEADER * (Len(v2) - Len(v2)) = 0
    <3>1. Len(v2) - Len(v2) = 0
      BY <1>2
    <3>2. HEADER * 0 = 0
      BY PoolAssumption
    <3> QED
      BY <3>1, <3>2
  <2>4. Pool!FreeBytes(v2) = Pool!FreeBytes(v2) + HEADER * (Len(v2) - Len(v2))
    BY <2>2, <2>3
  <2>5. 1 \in Nat \ {0} /\ Len(v2) <= Len(v2) /\ (Len(v2) + 0) + 1 <= Len(v2) + 1
    BY <1>2
  <2>6. first.cs = v2 /\ first.at = 1
    BY <1>3
  <2> QED
    BY <2>1, <2>4, <2>5, <2>6 DEF Looks
<1>5. PICK F : F = [p \in PoolSearch \X Nat |-> Pool!Passed(p[1], n)]
  OBVIOUS
<1>6. F \in [PoolSearch \X Nat -> PoolSearch]
  BY <1>5, PoolPassedType
<1>7. PICK f \in [0 .. L -> PoolSearch] : Steps(f, L, first, F)
  BY <1>6, StepsExist
<1> DEFINE G(s) == [k \in 0 .. Len(v2) |->
                      IF k = 0 THEN [cs |-> v2, at |-> 1] ELSE Pool!Passed(s[k - 1], n)]
<1>8. f = G(f)
  <2>1. f[0] = [cs |-> v2, at |-> 1]
    BY <1>3, <1>7 DEF Steps
  <2>2. ASSUME NEW k \in 1 .. L PROVE f[k] = Pool!Passed(f[k - 1], n)
    <3>1. PICK m \in 0 .. L - 1 : m = k - 1 /\ m + 1 = k
      <4>1. k - 1 \in 0 .. L - 1 /\ (k - 1) + 1 = k
        OBVIOUS
      <4> QED
        BY <4>1
    <3>2. f[m + 1] = F[<<f[m], m>>]
      BY <1>7 DEF Steps
    <3>3. f[m] \in PoolSearch /\ m \in Nat
      OBVIOUS
    <3>4. F[<<f[m], m>>] = Pool!Passed(f[m], n)
      BY <1>5, <3>3
    <3> QED
      BY <3>1, <3>2, <3>4
  <2>3. \A k \in 0 .. L : f[k] = IF k = 0 THEN [cs |-> v2, at |-> 1] ELSE Pool!Passed(f[k - 1], n)
    BY <2>1, <2>2
  <2> QED
    BY <1>2, <2>3
<1>9. PICK s : s = CHOOSE x : x = G(x)
  OBVIOUS
<1>10. s = G(s)
  BY <1>8, <1>9
<1>11. Pool!Found(n) = s[Len(v2)]
  BY <1>9 DEF Pool!Found
<1>12. \A k \in 0 .. L : s[k] = IF k = 0 THEN first ELSE Pool!Passed(s[k - 1], n)
  BY <1>2, <1>3, <1>10
<1> HIDE DEF G
<1> DEFINE Good(k) == s[k] \in PoolSearch /\ Looks(s[k].cs, s[k].at, v2, v4, n, k)
<1> DEFINE B == {k \in 0 .. L : ~Good(k)}
<1>13. B = {}
  <2>1. SUFFICES ASSUME B # {} PROVE FALSE
    OBVIOUS
  <2>2. PICK k \in B : \A y \in B : k <= y
    <3>1. B \in SUBSET Nat
      OBVIOUS
    <3> HIDE DEF B
    <3> QED
      BY <2>1, <3>1, LeastNumber
  <2>3. k # 0
    <3>1. s[0] = first
      BY <1>12
    <3>2. Good(0)
      BY <1>4, <3>1
    <3> HIDE DEF Good
    <3> QED
      BY <2>2, <3>2
  <2>4. PICK m \in 0 .. L : m = k - 1 /\ m < k /\ k = m + 1
    <3>1. k - 1 \in 0 .. L /\ k - 1 < k /\ k = (k - 1) + 1
      BY <2>2, <2>3
    <3> QED
      BY <3>1
  <2>5. Good(m)
    <3> HIDE DEF Good
    <3> QED
      BY <2>2, <2>4
  <2>6. s[k] = Pool!Passed(s[m], n)
    BY <1>12, <2>2, <2>3, <2>4
  <2>7. PICK r \in PoolSearch : r = s[m] /\ Looks(r.cs, r.at, v2, v4, n, m)
    BY <2>5
  <2>8. Pool!Passed(r, n) \in PoolSearch
    BY PoolPassedType
  <2>9. Looks(Pool!Passed(r, n).cs, Pool!Passed(r, n).at, v2, v4, n, m + 1)
    <3>1. m \in Nat /\ Looks(r.cs, r.at, v2, v4, n, m)
      BY <2>7
    <3> QED
      BY <1>1, <3>1, PoolPassed, Zenon
  <2>10. Good(k)
    BY <2>4, <2>6, <2>7, <2>8, <2>9
  <2> HIDE DEF Good
  <2> QED
    BY <2>2, <2>10
<1>14. Good(L)
  <2>1. L \in 0 .. L
    OBVIOUS
  <2> HIDE DEF Good
  <2> QED
    BY <1>13, <2>1
<1> QED
  BY <1>2, <1>11, <1>14

(* The search finds a chunk if and only if there is a run of free chunks   *)
(* that is large enough.                                                   *)
LEMMA PoolFindsRun ==
  ASSUME Kept(v2, v4), NEW n \in Nat
  PROVE  /\ Pool!Finds(n) <=> Large(v2, n)
         /\ Pool!Finds(n) => /\ Pool!Found(n).at \in 1 .. Len(Pool!Found(n).cs)
                             /\ ~Pool!Found(n).cs[Pool!Found(n).at].used
                             /\ n <= Pool!Found(n).cs[Pool!Found(n).at].size
<1>1. PICK ds, i : ds = Pool!Found(n).cs /\ i = Pool!Found(n).at
  OBVIOUS
<1>2. Looks(ds, i, v2, v4, n, Len(v2))
  BY <1>1, PoolFound
<1>3. ds \in Seq(ChunkType) /\ i \in Nat \ {0} /\ Len(v2) \in Nat /\ Len(ds) \in Nat
  <2>1. ds \in Seq(ChunkType) /\ i \in Nat \ {0} /\ v2 \in Seq(ChunkType)
    BY <1>2 DEF Looks, Kept
  <2> QED
    BY <2>1
<1>4. Stops(ds, i, n)
  <2>1. Stops(ds, i, n) \/ (Len(ds) + Len(v2)) + 1 <= Len(v2) + i
    BY <1>2 DEF Looks
  <2>2. (Len(ds) + Len(v2)) + 1 <= Len(v2) + i => i > Len(ds)
    BY <1>3
  <2> QED
    BY <2>1, <2>2 DEF Stops
<1>5. Pool!Finds(n) <=> i <= Len(ds)
  BY <1>1 DEF Pool!Finds
<1>6. CASE i <= Len(ds)
  <2>1. ~ds[i].used /\ n <= ds[i].size /\ i \in 1 .. Len(ds)
    <3>1. i \in 1 .. Len(ds) /\ ~(i > Len(ds))
      BY <1>3, <1>6
    <3>2. ds[i] \in ChunkType
      BY <1>3, <3>1
    <3>3. ds[i].size \in Nat
      BY <3>2, PoolTypes
    <3>4. ~ds[i].used /\ ds[i].size >= n
      BY <1>4, <3>1 DEF Stops
    <3> QED
      BY <3>1, <3>3, <3>4
  <2>2. Run(ds, i, i)
    <3>1. \A k \in i .. i : k = i
      BY <1>3
    <3> QED
      BY <1>3, <2>1, <3>1 DEF Run
  <2>3. n <= Pool!End(ds[i]) - ds[i].at
    <3>1. ds[i] \in ChunkType
      BY <1>3, <2>1
    <3>2. ds[i].size \in Nat /\ ds[i].at \in Nat /\ Pool!End(ds[i]) = ds[i].at + ds[i].size
      BY <3>1, PoolTypes
    <3> QED
      BY <2>1, <3>2
  <2>4. Large(ds, n)
    BY <2>1, <2>2, <2>3 DEF Large
  <2>5. Large(v2, n)
    BY <1>2, <2>4 DEF Looks
  <2> QED
    BY <1>1, <1>5, <1>6, <2>1, <2>5
<1>7. CASE ~(i <= Len(ds))
  <2>1. ~Large(ds, n)
    <3>1. SUFFICES ASSUME NEW a \in 1 .. Len(ds), NEW b \in 1 .. Len(ds), Run(ds, a, b)
                   PROVE  ~(n <= Pool!End(ds[b]) - ds[a].at)
      BY DEF Large
    <3>2. a < i
      BY <1>3, <1>7
    <3>3. Early(ds, i, n)
      BY <1>2 DEF Looks
    <3> QED
      BY <3>1, <3>2, <3>3 DEF Early
  <2>2. ~Large(v2, n)
    BY <1>2, <2>1 DEF Looks
  <2> QED
    BY <1>5, <1>7, <2>2
<1> QED
  BY <1>6, <1>7
-----------------------------------------------------------------------------
(* The invariant: the chunks fill the pool and are the blocks of clients,  *)
(* and mpool->free is right until a block grew over its neighbour.         *)
PoolInv == Kept(v2, v4) /\ Pool!FreeCounted

LEMMA PoolMod ==
  ASSUME NEW x \in Nat, x + HEADER <= POOL
  PROVE  x % POOL_UINT = x
<1>1. x \in Nat /\ POOL_UINT \in Nat /\ POOL_UINT > 0 /\ x < POOL_UINT
  BY PoolAssumption
<1>2. \A u \in Nat : x < u => x % u = x
  OBVIOUS
<1> QED
  BY <1>1, <1>2

(* What is left to free after a step that leaves the chunks ds *)
LEMMA PoolCounts ==
  ASSUME NEW ds, NEW h, Kept(ds, h), NEW x, x = Pool!FreeBytes(ds)
  PROVE  x % POOL_UINT = Pool!FreeBytes(ds)
<1>1. Pool!FreeBytes(ds) \in Nat /\ Pool!FreeBytes(ds) + HEADER <= POOL
  BY PoolFreeFits DEF Kept
<1> QED
  BY <1>1, PoolMod

LEMMA PoolMergedFrees ==
  ASSUME NEW cs \in Seq(ChunkType), NEW ms, NEW i, NEW m, IsMerged(ms, cs, i, m), ~cs[m].used
  PROVE  /\ Pool!FreeBytes(ms) \in Nat /\ Pool!FreeBytes(cs) \in Nat /\ cs[m].size \in Nat
         /\ ~cs[i].used => Pool!FreeBytes(ms) = Pool!FreeBytes(cs) + HEADER
         /\ cs[i].used => Pool!FreeBytes(ms) + cs[m].size = Pool!FreeBytes(cs)
<1>1. /\ Pool!FreeBytes(ms) \in Nat /\ Pool!FreeBytes(cs) \in Nat
      /\ Pool!FreeBytes(ms) + (FreeOf(cs[i]) + FreeOf(cs[m])) = Pool!FreeBytes(cs) + FreeOf(ms[i])
  BY PoolMergedFree
<1>2. cs[i].size \in Nat /\ cs[m].size \in Nat /\ HEADER \in Nat
  <2>1. cs[i] \in ChunkType /\ cs[m] \in ChunkType
    BY DEF IsMerged
  <2> QED
    BY <2>1, PoolTypes, PoolAssumption
<1>3. PICK x \in Nat, y \in Nat, a \in Nat, b \in Nat, c \in Nat :
        x = Pool!FreeBytes(ms) /\ y = Pool!FreeBytes(cs) /\ a = cs[i].size /\ b = cs[m].size /\ c = HEADER
  BY <1>1, <1>2
<1>4. FreeOf(cs[m]) = b
  BY <1>3 DEF FreeOf
<1>5. ASSUME ~cs[i].used PROVE x = y + c
  <2>1. FreeOf(cs[i]) = a /\ FreeOf(ms[i]) = a + b + c
    BY <1>3, <1>5 DEF FreeOf, IsMerged
  <2>2. x + (a + b) = y + (a + b + c)
    BY <1>1, <1>3, <1>4, <2>1
  <2> QED
    BY <2>2
<1>6. ASSUME cs[i].used PROVE x + b = y
  <2>1. FreeOf(cs[i]) = 0 /\ FreeOf(ms[i]) = 0
    BY <1>6 DEF FreeOf, IsMerged
  <2>2. x + (0 + b) = y + 0
    BY <1>1, <1>3, <1>4, <2>1
  <2> QED
    BY <2>2
<1> QED
  BY <1>1, <1>2, <1>3, <1>5, <1>6

LEMMA PoolMarkedFrees ==
  ASSUME NEW cs \in Seq(ChunkType), NEW us, NEW i, NEW u, IsMarked(us, cs, i, u)
  PROVE  /\ Pool!FreeBytes(us) \in Nat /\ Pool!FreeBytes(cs) \in Nat /\ cs[i].size \in Nat
         /\ ~cs[i].used /\ u => Pool!FreeBytes(us) + cs[i].size = Pool!FreeBytes(cs)
         /\ cs[i].used /\ ~u => Pool!FreeBytes(us) = Pool!FreeBytes(cs) + cs[i].size
<1>1. /\ Pool!FreeBytes(us) \in Nat /\ Pool!FreeBytes(cs) \in Nat
      /\ Pool!FreeBytes(us) + FreeOf(cs[i]) = Pool!FreeBytes(cs) + FreeOf(us[i])
  BY PoolMarkedFree
<1>2. cs[i].size \in Nat
  <2>1. cs[i] \in ChunkType
    BY DEF IsMarked
  <2> QED
    BY <2>1, PoolTypes
<1>3. ASSUME ~cs[i].used, u PROVE Pool!FreeBytes(us) + cs[i].size = Pool!FreeBytes(cs)
  <2>1. FreeOf(cs[i]) = cs[i].size /\ FreeOf(us[i]) = 0
    BY <1>3 DEF FreeOf, IsMarked
  <2> QED
    BY <1>1, <1>2, <2>1
<1>4. ASSUME cs[i].used, ~u PROVE Pool!FreeBytes(us) = Pool!FreeBytes(cs) + cs[i].size
  <2>1. FreeOf(cs[i]) = 0 /\ FreeOf(us[i]) = cs[i].size
    BY <1>4 DEF FreeOf, IsMarked
  <2> QED
    BY <1>1, <1>2, <2>1
<1> QED
  BY <1>1, <1>2, <1>3, <1>4

(* FreeAfter is the number of free bytes after the search. *)
LEMMA PoolFreeAfter ==
  ASSUME PoolInv, NEW n \in Nat
  PROVE  /\ Kept(Pool!Found(n).cs, v4) /\ Pool!FreeBytes(Pool!Found(n).cs) \in Nat
         /\ ~v5 => Pool!FreeAfter(n) = Pool!FreeBytes(Pool!Found(n).cs)
<1>1. Kept(v2, v4)
  BY DEF PoolInv
<1>2. Looks(Pool!Found(n).cs, Pool!Found(n).at, v2, v4, n, Len(v2))
  BY <1>1, PoolFound
<1>3. Kept(Pool!Found(n).cs, v4)
  BY <1>2 DEF Looks
<1>4. Pool!FreeBytes(Pool!Found(n).cs) \in Nat
  BY <1>3, PoolFreeFits DEF Kept
<1>5. ~v5 => v3 = Pool!FreeBytes(v2)
  BY DEF PoolInv, Pool!FreeCounted
<1>6. Pool!FreeBytes(Pool!Found(n).cs) = Pool!FreeBytes(v2) + HEADER * (Len(v2) - Len(Pool!Found(n).cs))
  BY <1>2 DEF Looks
<1> QED
  BY <1>3, <1>4, <1>5, <1>6 DEF Pool!FreeAfter

(* mpool_alloc *)
LEMMA PoolAllocFindsKeeps ==
  ASSUME PoolInv, NEW n \in Nat, Pool!AllocFinds(n)
  PROVE  PoolInv'
<1>1. PICK ds, i : ds = Pool!Found(n).cs /\ i = Pool!Found(n).at
  OBVIOUS
<1>2. Kept(ds, v4) /\ Pool!FreeBytes(ds) \in Nat /\ (~v5 => Pool!FreeAfter(n) = Pool!FreeBytes(ds))
  BY <1>1, PoolFreeAfter
<1>3. i \in 1 .. Len(ds) /\ ~ds[i].used /\ n <= ds[i].size
  BY <1>1, PoolFindsRun DEF PoolInv, Pool!AllocFinds
<1>4. ds \in Seq(ChunkType) /\ ds[i].size \in Nat /\ HEADER \in Nat \ {0}
  <2>1. ds \in Seq(ChunkType)
    BY <1>2 DEF Kept
  <2>2. ds[i] \in ChunkType
    BY <1>3, <2>1
  <2> QED
    BY <2>1, <2>2, PoolTypes, PoolAssumption
<1>5. v4' = HeldOf(v4, ds[i].at, n) /\ v5' = v5
  BY <1>1 DEF Pool!AllocFinds, Pool!Hold, HeldOf
<1>6. Pool!Rest(n) = ds[i].size - n
  BY <1>1 DEF Pool!Rest
<1>7. CASE Pool!Rest(n) = 0
  <2>1. PICK us : us = [ds EXCEPT ![i].used = TRUE]
    OBVIOUS
  <2>2. IsMarked(us, ds, i, TRUE)
    BY <1>3, <1>4, <2>1, PoolMarked
  <2>3. v2' = us /\ v3' = (Pool!FreeAfter(n) - n - 0) % POOL_UINT
    BY <1>1, <1>7, <2>1 DEF Pool!AllocFinds
  <2>4. Kept(us, HeldOf(v4, ds[i].at, n))
    BY <1>2, <1>3, <2>2, PoolMarkedKept
  <2>5. Pool!FreeBytes(us) \in Nat /\ Pool!FreeBytes(us) + ds[i].size = Pool!FreeBytes(ds)
    BY <1>3, <1>4, <2>2, PoolMarkedFrees
  <2>6. ASSUME ~v5 PROVE v3' = Pool!FreeBytes(us)
    <3>1. Pool!FreeAfter(n) - n - 0 = Pool!FreeBytes(us)
      <4>1. Pool!FreeAfter(n) = Pool!FreeBytes(us) + n
        BY <1>2, <1>4, <1>6, <1>7, <2>5, <2>6
      <4> QED
        BY <2>5, <4>1
    <3> QED
      BY <2>3, <2>4, <3>1, PoolCounts
  <2> QED
    BY <1>5, <2>3, <2>4, <2>6 DEF PoolInv, Pool!FreeCounted
<1>8. CASE Pool!Rest(n) # 0
  <2>1. n + HEADER <= ds[i].size
    <3>1. ~(Pool!Rest(n) \in 1 .. HEADER - 1)
      BY DEF Pool!AllocFinds, Pool!Wraps
    <3> QED
      BY <1>3, <1>4, <1>6, <1>8, <3>1
  <2>2. PICK ss : ss = Pool!Split(ds, i, n)
    OBVIOUS
  <2>3. PICK m : m = i + 1
    OBVIOUS
  <2>4. IsSplit(ss, ds, i, m, n)
    BY <1>3, <1>4, <2>1, <2>2, <2>3, PoolSplit
  <2>5. v2' = ss /\ v3' = (Pool!FreeAfter(n) - n - HEADER) % POOL_UINT
    BY <1>1, <1>8, <2>2 DEF Pool!AllocFinds
  <2>6. Kept(ss, HeldOf(v4, ds[i].at, n))
    BY <1>2, <2>4, PoolSplitKept
  <2>7. /\ Pool!FreeBytes(ss) \in Nat
        /\ Pool!FreeBytes(ss) + FreeOf(ds[i]) = Pool!FreeBytes(ds) + (ds[i].size - n - HEADER)
    BY <1>4, <2>4, PoolSplitFree
  <2>8. ASSUME ~v5 PROVE v3' = Pool!FreeBytes(ss)
    <3>1. Pool!FreeAfter(n) - n - HEADER = Pool!FreeBytes(ss)
      <4>1. FreeOf(ds[i]) = ds[i].size
        BY <1>3 DEF FreeOf
      <4>2. PICK x \in Nat, y \in Nat, a \in Nat, c \in Nat :
              x = Pool!FreeBytes(ss) /\ y = Pool!FreeBytes(ds) /\ a = ds[i].size /\ c = HEADER
        BY <1>2, <1>4, <2>7
      <4>3. x + a = y + (a - n - c)
        BY <2>7, <4>1, <4>2
      <4>4. y - n - c = x
        BY <4>3
      <4> QED
        BY <1>2, <2>8, <4>2, <4>4
    <3> QED
      BY <2>5, <2>6, <3>1, PoolCounts
  <2> QED
    BY <1>5, <2>5, <2>6, <2>8 DEF PoolInv, Pool!FreeCounted
<1> QED
  BY <1>7, <1>8

LEMMA PoolAllocFailsKeeps ==
  ASSUME PoolInv, NEW n \in Nat, Pool!AllocFails(n)
  PROVE  PoolInv'
<1>1. PICK ds : ds = Pool!Found(n).cs
  OBVIOUS
<1>2. Kept(ds, v4) /\ (~v5 => Pool!FreeAfter(n) = Pool!FreeBytes(ds))
  BY <1>1, PoolFreeAfter
<1>3. v2' = ds /\ v3' = Pool!FreeAfter(n) % POOL_UINT /\ v4' = v4 /\ v5' = v5
  BY <1>1 DEF Pool!AllocFails
<1>4. ~v5 => v3' = Pool!FreeBytes(ds)
  BY <1>2, <1>3, PoolCounts
<1> QED
  BY <1>2, <1>3, <1>4 DEF PoolInv, Pool!FreeCounted

(* The chunk of a block *)
LEMMA PoolIndexOf ==
  ASSUME PoolInv, NEW a \in DOMAIN v4
  PROVE  /\ Pool!IndexOf(a) \in 1 .. Len(v2) /\ v2[Pool!IndexOf(a)].at = a
         /\ v2[Pool!IndexOf(a)].used /\ v4[a] <= v2[Pool!IndexOf(a)].size
<1>1. Blocks(v2, v4)
  BY DEF PoolInv, Kept
<1>2. \E i \in 1 .. Len(v2) : v2[i].at = a
  BY <1>1 DEF Blocks
<1>3. Pool!IndexOf(a) \in 1 .. Len(v2) /\ v2[Pool!IndexOf(a)].at = a
  BY <1>2 DEF Pool!IndexOf
<1>4. BlockOf(v2[Pool!IndexOf(a)], v4)
  BY <1>1, <1>3 DEF Blocks
<1> QED
  BY <1>3, <1>4 DEF BlockOf

(* mpool_free *)
LEMMA PoolFreeKeeps ==
  ASSUME PoolInv, NEW a \in DOMAIN v4, Pool!Free(a)
  PROVE  PoolInv'
<1>1. PICK i : i = Pool!IndexOf(a)
  OBVIOUS
<1>2. /\ i \in 1 .. Len(v2) /\ v2[i].at = a /\ v2[i].used /\ Kept(v2, v4)
      /\ v2 \in Seq(ChunkType)
  BY <1>1, PoolIndexOf DEF PoolInv, Kept
<1>3. PICK us : us = Pool!Freed(i)
  OBVIOUS
<1>4. IsMarked(us, v2, i, FALSE)
  BY <1>2, <1>3, PoolMarked DEF Pool!Freed
<1>5. Kept(us, LetGo(v4, a)) /\ us \in Seq(ChunkType)
  BY <1>2, <1>4, PoolMarkedKept DEF Kept
<1>6. /\ Pool!FreeBytes(us) \in Nat /\ Pool!FreeBytes(v2) \in Nat /\ v2[i].size \in Nat
      /\ Pool!FreeBytes(us) = Pool!FreeBytes(v2) + v2[i].size
  BY <1>2, <1>4, PoolMarkedFrees
<1>7. v4' = LetGo(v4, a) /\ v5' = v5
  BY DEF Pool!Free, Pool!Drop, LetGo
<1>8. ~v5 => v3 = Pool!FreeBytes(v2)
  BY DEF PoolInv, Pool!FreeCounted
<1>9. CASE ~Pool!IsLast(i) /\ ~v2[i + 1].used
  <2>1. PICK m : m = i + 1
    OBVIOUS
  <2>2. i + 1 <= Len(v2) /\ m \in 1 .. Len(v2) /\ m # i
    BY <1>2, <1>9, <2>1 DEF Pool!IsLast
  <2>3. Len(us) = Len(v2) /\ ~us[m].used /\ ~us[i].used
    <3>1. us[m] = v2[m]
      BY <1>4, <2>2 DEF IsMarked
    <3> QED
      BY <1>4, <1>9, <2>1, <3>1 DEF IsMarked
  <2>4. PICK ms : ms = Pool!Merged(us, i)
    OBVIOUS
  <2>5. IsMerged(ms, us, i, m)
    BY <1>2, <1>5, <2>1, <2>2, <2>3, <2>4, PoolMerged
  <2>6. Kept(ms, LetGo(v4, a))
    BY <1>5, <2>3, <2>5, PoolMergedKept
  <2>7. Pool!FreeBytes(ms) = Pool!FreeBytes(us) + HEADER
    BY <1>5, <2>3, <2>5, PoolMergedFrees
  <2>8. v2' = ms /\ v3' = (v3 + v2[i].size + HEADER) % POOL_UINT
    BY <1>1, <1>3, <1>9, <2>4 DEF Pool!Free
  <2>9. ~v5 => v3' = Pool!FreeBytes(ms)
    BY <1>6, <1>8, <2>6, <2>7, <2>8, PoolCounts
  <2> QED
    BY <1>7, <2>6, <2>8, <2>9 DEF PoolInv, Pool!FreeCounted
<1>10. CASE ~(~Pool!IsLast(i) /\ ~v2[i + 1].used)
  <2>1. v2' = us /\ v3' = (v3 + v2[i].size + 0) % POOL_UINT
    BY <1>1, <1>3, <1>10 DEF Pool!Free
  <2>2. Pool!FreeBytes(us) = Pool!FreeBytes(v2) + v2[i].size + 0
    BY <1>6
  <2>3. ~v5 => v3' = Pool!FreeBytes(us)
    BY <1>5, <1>8, <2>1, <2>2, PoolCounts
  <2> QED
    BY <1>5, <1>7, <2>1, <2>3 DEF PoolInv, Pool!FreeCounted
<1> QED
  BY <1>9, <1>10
(* mpool_realloc of a block to fewer bytes *)
LEMMA PoolShrinkKeepsKeeps ==
  ASSUME PoolInv, NEW a \in DOMAIN v4, NEW n \in Nat, Pool!ShrinkKeeps(a, n)
  PROVE  PoolInv'
<1>1. PICK i : i = Pool!IndexOf(a)
  OBVIOUS
<1>2. /\ i \in 1 .. Len(v2) /\ v2[i].at = a /\ v2[i].used /\ Kept(v2, v4)
      /\ v2 \in Seq(ChunkType)
  BY <1>1, PoolIndexOf DEF PoolInv, Kept
<1>3. n <= v2[i].size
  <2>1. v2[i] \in ChunkType
    BY <1>2
  <2>2. v2[i].size \in Nat
    BY <2>1, PoolTypes
  <2>3. v2[i].size - n > 0
    BY <1>1 DEF Pool!ShrinkKeeps
  <2> QED
    BY <2>2, <2>3
<1>4. IsMarked(v2, v2, i, TRUE)
  BY <1>2 DEF IsMarked
<1>5. Kept(v2, HeldOf(v4, a, n))
  BY <1>2, <1>3, <1>4, PoolMarkedKept
<1>6. v4' = HeldOf(v4, a, n) /\ UNCHANGED <<v2, v3, v5>>
  BY DEF Pool!ShrinkKeeps, Pool!Hold, HeldOf
<1> QED
  BY <1>5, <1>6 DEF PoolInv, Pool!FreeCounted

LEMMA PoolShrinkSplitsKeeps ==
  ASSUME PoolInv, NEW a \in DOMAIN v4, NEW n \in Nat, Pool!ShrinkSplits(a, n)
  PROVE  PoolInv'
<1>1. PICK i : i = Pool!IndexOf(a)
  OBVIOUS
<1>2. /\ i \in 1 .. Len(v2) /\ v2[i].at = a /\ v2[i].used /\ Kept(v2, v4)
      /\ v2 \in Seq(ChunkType)
  BY <1>1, PoolIndexOf DEF PoolInv, Kept
<1>3. v2[i].size \in Nat /\ HEADER \in Nat
  <2>1. v2[i] \in ChunkType
    BY <1>2
  <2> QED
    BY <2>1, PoolTypes, PoolAssumption
<1>4. n + HEADER <= v2[i].size
  <2>1. v2[i].size - n > 2 * HEADER
    BY <1>1 DEF Pool!ShrinkSplits
  <2> QED
    BY <1>3, <2>1
<1>5. PICK m, ss : m = i + 1 /\ ss = Pool!Split(v2, i, n)
  OBVIOUS
<1>6. IsSplit(ss, v2, i, m, n)
  BY <1>2, <1>4, <1>5, PoolSplit
<1>7. Kept(ss, HeldOf(v4, a, n))
  BY <1>2, <1>6, PoolSplitKept
<1>8. /\ v2' = ss /\ v3' = (v3 + (v2[i].size - n) - HEADER) % POOL_UINT
      /\ v4' = HeldOf(v4, a, n) /\ v5' = v5
  BY <1>1, <1>5 DEF Pool!ShrinkSplits, Pool!Hold, HeldOf
<1>9. /\ Pool!FreeBytes(ss) \in Nat /\ Pool!FreeBytes(v2) \in Nat
      /\ Pool!FreeBytes(ss) + FreeOf(v2[i]) = Pool!FreeBytes(v2) + (v2[i].size - n - HEADER)
  BY <1>2, <1>6, PoolSplitFree
<1>10. FreeOf(v2[i]) = 0
  BY <1>2 DEF FreeOf
<1>11. Pool!FreeBytes(v2) + (v2[i].size - n) - HEADER = Pool!FreeBytes(ss)
  BY <1>3, <1>9, <1>10
<1>12. ~v5 => v3 = Pool!FreeBytes(v2)
  BY DEF PoolInv, Pool!FreeCounted
<1>13. ~v5 => v3' = Pool!FreeBytes(ss)
  BY <1>7, <1>8, <1>11, <1>12, PoolCounts
<1> QED
  BY <1>7, <1>8, <1>13 DEF PoolInv, Pool!FreeCounted

(* mpool_realloc of a block over the next chunk *)
LEMMA PoolGrowKeeps ==
  ASSUME PoolInv, NEW a \in DOMAIN v4, NEW n \in Nat, Pool!Grow(a, n)
  PROVE  PoolInv'
<1>1. PICK i, m : i = Pool!IndexOf(a) /\ m = i + 1
  OBVIOUS
<1>2. /\ i \in 1 .. Len(v2) /\ v2[i].at = a /\ v2[i].used /\ Kept(v2, v4)
      /\ v2 \in Seq(ChunkType)
  BY <1>1, PoolIndexOf DEF PoolInv, Kept
<1>3. /\ n >= v2[i].size /\ ~Pool!IsLast(i) /\ ~v2[m].used
      /\ n - v2[i].size < v2[m].size + HEADER
  BY <1>1 DEF Pool!Grow, Pool!NeighbourServes
<1>4. m \in 1 .. Len(v2) /\ i + 1 <= Len(v2)
  BY <1>1, <1>2, <1>3 DEF Pool!IsLast
<1>5. v2[i].size \in Nat /\ v2[m].size \in Nat /\ HEADER \in Nat
  <2>1. v2[i] \in ChunkType /\ v2[m] \in ChunkType
    BY <1>2, <1>4
  <2> QED
    BY <2>1, PoolTypes, PoolAssumption
<1>6. PICK both : both = Pool!Merged(v2, i)
  OBVIOUS
<1>7. IsMerged(both, v2, i, m)
  BY <1>1, <1>2, <1>4, <1>6, PoolMerged
<1>8. /\ both \in Seq(ChunkType) /\ i \in 1 .. Len(both) /\ both[i].at = a /\ both[i].used
      /\ both[i].size = v2[i].size + v2[m].size + HEADER
  BY <1>2, <1>7 DEF IsMerged
<1>9. Kept(both, v4)
  BY <1>2, <1>3, <1>7, PoolMergedKept
<1>10. v4' = HeldOf(v4, a, n)
  BY DEF Pool!Grow, Pool!Hold, HeldOf
<1>11. CASE both[i].size - n <= 2 * HEADER
  <2>1. n <= both[i].size
    BY <1>3, <1>5, <1>8, SMTT(30)
  <2>2. IsMarked(both, both, i, TRUE)
    BY <1>8 DEF IsMarked
  <2>3. Kept(both, HeldOf(v4, a, n))
    BY <1>8, <1>9, <2>1, <2>2, PoolMarkedKept
  <2>4. v2' = both /\ v5'
    BY <1>1, <1>6, <1>11 DEF Pool!Grow
  <2> QED
    BY <1>10, <2>3, <2>4 DEF PoolInv, Pool!FreeCounted
<1>12. CASE ~(both[i].size - n <= 2 * HEADER)
  <2>1. n + HEADER <= both[i].size
    BY <1>5, <1>8, <1>12
  <2>2. PICK ss : ss = Pool!Split(both, i, n)
    OBVIOUS
  <2>3. PICK j : j = i + 1
    OBVIOUS
  <2>4. IsSplit(ss, both, i, j, n)
    BY <1>8, <2>1, <2>2, <2>3, PoolSplit
  <2>5. Kept(ss, HeldOf(v4, a, n))
    BY <1>8, <1>9, <2>4, PoolSplitKept
  <2>6. /\ v2' = ss /\ v3' = (v3 - (n - v2[i].size) - 0) % POOL_UINT
        /\ v5 => v5'
    <3>1. v2' = IF both[i].size - n <= 2 * HEADER THEN both ELSE Pool!Split(both, i, n)
      BY <1>1, <1>6 DEF Pool!Grow
    <3>2. v3' = (v3 - (n - v2[i].size)
                        - (IF both[i].size - n <= 2 * HEADER THEN HEADER ELSE 0)) % POOL_UINT
      BY <1>1, <1>6 DEF Pool!Grow
    <3>3. v5' = (v5 \/ both[i].size - n <= 2 * HEADER)
      BY <1>1, <1>6 DEF Pool!Grow
    <3> QED
      BY <1>12, <2>2, <3>1, <3>2, <3>3
  <2>7. /\ Pool!FreeBytes(ss) \in Nat /\ Pool!FreeBytes(both) \in Nat
        /\ Pool!FreeBytes(ss) + FreeOf(both[i]) = Pool!FreeBytes(both) + (both[i].size - n - HEADER)
    BY <1>8, <2>4, PoolSplitFree
  <2>8. FreeOf(both[i]) = 0
    BY <1>8 DEF FreeOf
  <2>9. Pool!FreeBytes(v2) \in Nat /\ Pool!FreeBytes(both) + v2[m].size = Pool!FreeBytes(v2)
    BY <1>2, <1>3, <1>7, PoolMergedFrees
  <2>10. Pool!FreeBytes(v2) - (n - v2[i].size) - 0 = Pool!FreeBytes(ss)
    <3>1. PICK x \in Nat, y \in Nat, z \in Nat, s \in Nat, t \in Nat, c \in Nat :
            /\ x = Pool!FreeBytes(ss) /\ y = Pool!FreeBytes(both) /\ z = Pool!FreeBytes(v2)
            /\ s = v2[i].size /\ t = v2[m].size /\ c = HEADER
      BY <1>5, <2>7, <2>9
    <3>2. x + 0 = y + ((s + t + c) - n - c)
      BY <1>8, <2>7, <2>8, <3>1
    <3>3. y + t = z
      BY <2>9, <3>1
    <3>4. z - (n - s) - 0 = x
      BY <3>2, <3>3
    <3> QED
      BY <3>1, <3>4
  <2>11. ~v5 => v3 = Pool!FreeBytes(v2)
    BY DEF PoolInv, Pool!FreeCounted
  <2>12. ~v5 => v3' = Pool!FreeBytes(ss)
    BY <2>5, <2>6, <2>10, <2>11, PoolCounts
  <2> QED
    BY <1>10, <2>5, <2>6, <2>12 DEF PoolInv, Pool!FreeCounted
<1> QED
  BY <1>11, <1>12

LEMMA PoolInitHolds == Pool!Init => PoolInv
<1> SUFFICES ASSUME Pool!Init PROVE PoolInv
  OBVIOUS
<1>1. PICK e : e = Pool!Chunk(HEADER, POOL - HEADER, FALSE)
  OBVIOUS
<1>2. e \in ChunkType /\ e.at = HEADER /\ e.size = POOL - HEADER /\ ~e.used
  <2>1. HEADER \in Nat /\ POOL - HEADER \in Nat /\ FALSE \in BOOLEAN
    BY PoolAssumption
  <2>2. e = [at |-> HEADER, size |-> POOL - HEADER, used |-> FALSE]
    BY <1>1 DEF Pool!Chunk
  <2> QED
    BY <2>1, <2>2 DEF ChunkType
<1>3. PICK cs \in Seq(ChunkType) : cs = <<e>>
  <2>1. <<e>> \in Seq(ChunkType)
    BY <1>2
  <2> QED
    BY <2>1
<1>4. Len(cs) = 1 /\ cs[1] = e /\ cs # <<>>
  BY <1>3
<1>5. Tiles(cs)
  <2>1. Pool!End(e) = POOL
    BY <1>2, PoolAssumption DEF Pool!End
  <2>2. \A i, j \in 1 .. Len(cs) : j # i + 1
    BY <1>4
  <2> QED
    BY <1>2, <1>4, <2>1, <2>2 DEF Tiles
<1>6. v2 = cs /\ v4 = <<>> /\ v3 = POOL - HEADER
  BY <1>1, <1>3 DEF Pool!Init
<1>7. Blocks(cs, v4)
  <2>1. DOMAIN v4 = {}
    BY <1>6
  <2>2. \A i \in 1 .. Len(cs) : cs[i] = e
    BY <1>4
  <2> QED
    BY <1>2, <2>1, <2>2 DEF Blocks, BlockOf
<1>8. Pool!FreeBytes(cs) = POOL - HEADER
  <2>1. PICK f \in [0 .. Len(cs) -> Nat] : Sums(f, cs) /\ Pool!FreeBytes(cs) = f[Len(cs)]
    BY PoolSumsExist
  <2>2. f[1] = f[1 - 1] + FreeOf(cs[1]) /\ f[0] = 0
    BY <1>4, <2>1 DEF Sums
  <2>3. FreeOf(cs[1]) = POOL - HEADER
    BY <1>2, <1>4 DEF FreeOf
  <2> QED
    BY <1>4, <2>1, <2>2, <2>3, PoolAssumption
<1> QED
  BY <1>5, <1>6, <1>7, <1>8 DEF PoolInv, Pool!FreeCounted, Kept

LEMMA PoolNextKeeps ==
  ASSUME PoolInv, Pool!Next
  PROVE  PoolInv'
<1>1. \A n \in Sizes : n \in Nat
  BY PoolAssumption
<1>2. CASE \E n \in Sizes : Pool!AllocFinds(n)
  BY <1>1, <1>2, PoolAllocFindsKeeps
<1>3. CASE \E n \in Sizes : Pool!AllocFails(n)
  BY <1>1, <1>3, PoolAllocFailsKeeps
<1>4. CASE \E a \in DOMAIN v4 : Pool!Free(a)
  BY <1>4, PoolFreeKeeps
<1>5. CASE \E a \in DOMAIN v4, n \in Sizes : Pool!ShrinkKeeps(a, n)
  BY <1>1, <1>5, PoolShrinkKeepsKeeps
<1>6. CASE \E a \in DOMAIN v4, n \in Sizes : Pool!ShrinkSplits(a, n)
  BY <1>1, <1>6, PoolShrinkSplitsKeeps
<1>7. CASE \E a \in DOMAIN v4, n \in Sizes : Pool!Grow(a, n)
  BY <1>1, <1>7, PoolGrowKeeps
<1>8. CASE \E a \in DOMAIN v4, n \in Sizes : Pool!ReallocFails(a, n)
  BY <1>1, <1>8, PoolAllocFailsKeeps DEF Pool!ReallocFails
<1>9. CASE UNCHANGED <<v2, v3, v4, v5>>
  BY <1>9 DEF PoolInv, Pool!FreeCounted
<1>10. (\E n \in Sizes : Pool!AllocWraps(n)) => UNCHANGED <<v2, v3, v4, v5>>
  BY DEF Pool!AllocWraps
<1>11. (\E a \in DOMAIN v4 : Pool!FreeBeyond(a)) => UNCHANGED <<v2, v3, v4, v5>>
  BY DEF Pool!FreeBeyond
<1>12. (\E a \in DOMAIN v4, n \in Sizes : Pool!ReallocUndefined(a, n))
         => UNCHANGED <<v2, v3, v4, v5>>
  BY DEF Pool!ReallocUndefined
<1>13. UNCHANGED Pool!vars => UNCHANGED <<v2, v3, v4, v5>>
  BY DEF Pool!vars
<1> QED
  BY <1>2, <1>3, <1>4, <1>5, <1>6, <1>7, <1>8, <1>9, <1>10, <1>11, <1>12, <1>13, Zenon DEF Pool!Next

(* What the invariant says *)
LEMMA PoolInvHolds ==
  ASSUME PoolInv
  PROVE  Pool!BlocksKept /\ Pool!AllocFindsRun /\ Pool!FreeCounted
<1>1. Kept(v2, v4) /\ v2 \in Seq(ChunkType) /\ Tiles(v2) /\ Blocks(v2, v4)
  BY DEF PoolInv, Kept
<1>2. Pool!Tiled
  <2>1. ASSUME NEW i \in 1 .. Len(v2) - 1 PROVE v2[i + 1].at = Pool!End(v2[i]) + HEADER
    <3>1. i \in 1 .. Len(v2) /\ i + 1 \in 1 .. Len(v2)
      BY <1>1
    <3> QED
      BY <1>1, <3>1 DEF Tiles
  <2> QED
    BY <1>1, <2>1 DEF Tiles, Pool!Tiled
<1>3. Pool!BlocksKept
  BY <1>1, <1>2 DEF Blocks, BlockOf, Pool!BlocksKept
<1>4. ASSUME NEW n \in Sizes
      PROVE  ~Pool!Finds(n) <=>
               \A i, j \in 1 .. Len(v2) :
                 i <= j /\ (\A k \in i .. j : ~v2[k].used) => Pool!End(v2[j]) - v2[i].at < n
  <2>1. n \in Nat
    BY PoolAssumption
  <2>2. Pool!Finds(n) <=> Large(v2, n)
    BY <1>1, <2>1, PoolFindsRun
  <2>3. ASSUME NEW i \in 1 .. Len(v2), NEW j \in 1 .. Len(v2)
        PROVE  Pool!End(v2[j]) - v2[i].at < n <=> ~(n <= Pool!End(v2[j]) - v2[i].at)
    <3>1. v2[i] \in ChunkType /\ v2[j] \in ChunkType
      BY <1>1
    <3>2. v2[i].at \in Nat /\ Pool!End(v2[j]) \in Nat
      BY <3>1, PoolTypes
    <3> QED
      BY <2>1, <3>2
  <2> QED
    BY <2>2, <2>3 DEF Large, Run
<1>5. Pool!AllocFindsRun
  BY <1>4 DEF Pool!AllocFindsRun
<1> QED
  BY <1>3, <1>5 DEF PoolInv

-----------------------------------------------------------------------------
(* The library, when it is a pool *)

MemoryInv == part = "mpool" => PoolInv

LEMMA MemoryInitHolds == LibraryInit => MemoryInv
  BY PoolInitHolds DEF LibraryInit, MemoryInv

LEMMA MemoryNextKeeps ==
  MemoryInv /\ [LibraryNext]_<<vars, part, others>> => MemoryInv'
<1> SUFFICES ASSUME MemoryInv, [LibraryNext]_<<vars, part, others>> PROVE MemoryInv'
  OBVIOUS
<1>1. CASE UNCHANGED <<part, others>>
  <2>1. UNCHANGED <<part, v1, v2, v3, v4, v5>>
    BY <1>1 DEF others
  <2> QED
    BY <2>1 DEF MemoryInv, PoolInv, Pool!FreeCounted
<1>2. CASE LibraryNext /\ part = "mpool"
  BY <1>2, PoolNextKeeps DEF LibraryNext, MemoryInv
<1> QED
  BY <1>1, <1>2 DEF LibraryNext, MemoryInv

(* The chunks of a pool are the blocks of its clients without gap or       *)
(* overlap, an allocation fails only if no run of free chunks is enough,   *)
(* and the free bytes are counted right until a block grows over the whole *)
(* of its neighbour, for any pool and header size and any sizes.           *)
THEOREM PoolIsKept == LibrarySpec => []PoolKept
<1>1. MemoryInv => PoolKept
  BY PoolInvHolds DEF MemoryInv, PoolKept
<1> QED
  BY <1>1, MemoryInitHolds, MemoryNextKeeps, PTL DEF LibrarySpec
=============================================================================
