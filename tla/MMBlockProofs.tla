---------------------------- MODULE MMBlockProofs ----------------------------
(* Machine-checked proofs about MMBlock, for any number of handles and     *)
(* blocks of any size.                                                     *)
EXTENDS MMBlockProperties, FiniteSetTheorems, TLAPS

(* The bytes of a block, by position. *)
LEMMA ContentsFacts ==
  ASSUME NEW b \in Contents
  PROVE  /\ Len(b) \in 0 .. MaxSize /\ DOMAIN b = 1 .. Len(b)
         /\ b \in [1 .. Len(b) -> Bytes]
<1>1. PICK n \in 0 .. MaxSize : b \in [1 .. n -> Bytes]
  BY DEF Contents
<1>2. n \in Nat
  BY <1>1, MMBlockAssumption
<1>3. b \in Seq(Bytes) /\ Len(b) = n
  BY <1>1, <1>2
<1> QED
  BY <1>1, <1>2, <1>3

(* A function on 1 .. n is the contents of a block of size n. *)
LEMMA ContentsIntro ==
  ASSUME NEW n \in 0 .. MaxSize, NEW b \in [1 .. n -> Bytes]
  PROVE  b \in Contents
  BY DEF Contents

(* A write that was cut to the block keeps the size of the block. *)
LEMMA OverwriteContents ==
  ASSUME NEW b \in Contents, NEW offset \in Nat, NEW n \in Nat, offset <= Len(b),
         NEW buf \in [1 .. Clip(Len(b), offset, n) -> Bytes]
  PROVE  Overwrite(b, offset, buf) \in Contents
<1> DEFINE k == Clip(Len(b), offset, n)
<1>1. /\ Len(b) \in 0 .. MaxSize /\ DOMAIN b = 1 .. Len(b)
      /\ b \in [1 .. Len(b) -> Bytes] /\ Len(b) \in Nat
  BY ContentsFacts, MMBlockAssumption
<1>2. k \in Nat /\ offset + k <= Len(b)
  BY <1>1 DEF Clip
<1> HIDE DEF k
<1>3. buf \in [1 .. k -> Bytes]
  BY DEF k
<1>4. Len(buf) = k
  BY <1>2, <1>3
<1>5. DOMAIN b \cup (offset + 1 .. offset + Len(buf)) = 1 .. Len(b)
  BY <1>1, <1>2, <1>4
<1>6. \A i \in 1 .. Len(b) :
        (IF i > offset /\ i <= offset + Len(buf) THEN buf[i - offset] ELSE b[i]) \in Bytes
  <2> SUFFICES ASSUME NEW i \in 1 .. Len(b), i > offset, i <= offset + Len(buf)
               PROVE  buf[i - offset] \in Bytes
    BY <1>1
  <2>1. i - offset \in 1 .. k
    BY <1>1, <1>2, <1>4
  <2> QED
    BY <2>1, <1>3
<1>7. Overwrite(b, offset, buf) \in [1 .. Len(b) -> Bytes]
  BY <1>5, <1>6 DEF Overwrite
<1> QED
  BY <1>1, <1>7, ContentsIntro

(* Detaching copies a block to one of the same size. *)
LEMMA DetachedContents ==
  ASSUME NEW b \in Contents, NEW offset \in Nat, NEW ne \in Nat,
         NEW x \in [1 .. Len(b) -> Bytes]
  PROVE  /\ Detached(b, offset, ne, x) \in Contents
         /\ Len(Detached(b, offset, ne, x)) = Len(b)
<1>1. /\ Len(b) \in 0 .. MaxSize /\ b \in [1 .. Len(b) -> Bytes] /\ Len(b) \in Nat
  BY ContentsFacts, MMBlockAssumption
<1>2. Detached(b, offset, ne, x) \in [1 .. Len(b) -> Bytes]
  BY <1>1 DEF Detached
<1> HIDE DEF Detached
<1> QED
  BY <1>1, <1>2, ContentsIntro

(* The users of a block are finitely many. *)
LEMMA UsersFinite ==
  ASSUME open \in SUBSET Handles, NEW a
  PROVE  IsFiniteSet(UsersIn(open, d, a)) /\ Cardinality(UsersIn(open, d, a)) \in Nat
<1>1. UsersIn(open, d, a) \subseteq Handles
  BY DEF UsersIn
<1>2. IsFiniteSet(Handles)
  BY MMBlockAssumption
<1>3. IsFiniteSet(UsersIn(open, d, a))
  BY <1>1, <1>2, FS_Subset
<1> QED
  BY <1>3, FS_CardinalityType

(* Before the first call nothing is allocated. *)
LEMMA InitIInv == Init => IInv
<1> SUFFICES ASSUME Init PROVE IInv
  OBVIOUS
<1>1. <<>> \in Contents
  <2>1. 0 \in 0 .. MaxSize /\ <<>> \in [1 .. 0 -> Bytes]
    BY MMBlockAssumption
  <2> QED
    BY <2>1, ContentsIntro
<1> QED
  BY <1>1 DEF Init, IInv, TypeOK, RefCounts, Users

(* A fresh block has the handle it was allocated for as its only user. *)
LEMMA FreshBlock ==
  ASSUME IInv, NEW h \in Handles, NEW a \in Addrs \ heap,
         d' = [d EXCEPT ![h] = a], open' = open \cup {h}
  PROVE  /\ UsersIn(open', d', a) = {h}
         /\ \A b \in heap : UsersIn(open', d', b) = UsersIn(open, d, b) \ {h}
         /\ \A b \in heap : h \notin UsersIn(open, d, b) =>
                             UsersIn(open', d', b) = UsersIn(open, d, b)
         /\ \A g \in open' \ {h} : d'[g] = d[g] /\ g \in open
         /\ d'[h] = a
<1>1. /\ d \in [Handles -> Addrs \cup {NULL}] /\ open \in SUBSET Handles
      /\ \A g \in open : d[g] \in heap \cup {NULL}
      /\ NULL \notin Addrs /\ heap \subseteq Addrs
  BY MMBlockAssumption DEF IInv, TypeOK, RefCounts, Users
<1>2. \A b \in heap : UsersIn(open', d', b) = UsersIn(open, d, b) \ {h}
  BY <1>1 DEF UsersIn
<1>3. \A b \in heap : h \notin UsersIn(open, d, b) =>
                      UsersIn(open, d, b) \ {h} = UsersIn(open, d, b)
  OBVIOUS
<1>4. UsersIn(open', d', a) = {h}
  BY <1>1 DEF UsersIn
<1> QED
  BY <1>1, <1>2, <1>3, <1>4

(* A block that was just allocated has one reference and one user. *)
LEMMA NewBlockStep ==
  ASSUME IInv, NEW h \in Handles \ open, NEW a \in Addrs, NEW bytes \in Contents,
         NewBlock(h, a, bytes)
  PROVE  IInv'
<1>1. TypeOK'
  BY DEF IInv, TypeOK, NewBlock
<1>2. /\ a \notin heap /\ heap' = heap \cup {a} /\ d' = [d EXCEPT ![h] = a]
      /\ open' = open \cup {h} /\ ref' = [ref EXCEPT ![a] = 1]
      /\ ref \in [Addrs -> Nat] /\ heap \subseteq Addrs
  BY DEF IInv, TypeOK, NewBlock
<1>3. /\ UsersIn(open', d', a) = {h}
      /\ \A b \in heap : h \notin UsersIn(open, d, b) =>
                          UsersIn(open', d', b) = UsersIn(open, d, b)
      /\ \A g \in open' \ {h} : d'[g] = d[g] /\ g \in open
      /\ d'[h] = a
  BY <1>2, FreshBlock
<1>4. \A b : h \notin UsersIn(open, d, b)
  BY DEF UsersIn
<1>5. \A b \in heap : UsersIn(open', d', b) = UsersIn(open, d, b) /\ ref'[b] = ref[b]
  BY <1>2, <1>3, <1>4
<1>6. Cardinality({h}) = 1
  BY FS_Singleton
<1>7. \A b \in heap' : ref'[b] = Cardinality(UsersIn(open', d', b)) /\ UsersIn(open', d', b) # {}
  <2>1. ref'[a] = Cardinality(UsersIn(open', d', a)) /\ UsersIn(open', d', a) # {}
    BY <1>2, <1>3, <1>6
  <2>2. \A b \in heap : ref'[b] = Cardinality(UsersIn(open', d', b)) /\ UsersIn(open', d', b) # {}
    BY <1>5 DEF IInv, RefCounts, Users
  <2> QED
    BY <1>2, <2>1, <2>2
<1>8. \A g \in open' : d'[g] \in heap' \cup {NULL}
  BY <1>2, <1>3 DEF IInv, RefCounts, Users
<1> QED
  BY <1>1, <1>7, <1>8 DEF IInv, RefCounts, Users

(* A handle in use points to an allocated block and is one of its users. *)
LEMMA UsableFacts ==
  ASSUME IInv, NEW h \in Handles, Usable(h)
  PROVE  /\ d[h] \in heap /\ d[h] \in Addrs /\ h \in UsersIn(open, d, d[h])
         /\ ref[d[h]] = Cardinality(UsersIn(open, d, d[h])) /\ ref[d[h]] \in Nat \ {0}
         /\ data[d[h]] \in Contents
<1>1. d[h] \in heap /\ d[h] \in Addrs /\ h \in UsersIn(open, d, d[h])
  BY DEF IInv, TypeOK, RefCounts, Usable, UsersIn, Users
<1>2. IsFiniteSet(UsersIn(open, d, d[h])) /\ Cardinality(UsersIn(open, d, d[h])) \in Nat
  BY UsersFinite DEF IInv, TypeOK
<1>3. Cardinality(UsersIn(open, d, d[h])) # 0
  BY <1>1, <1>2, FS_EmptySet
<1> QED
  BY <1>1, <1>2, <1>3 DEF IInv, TypeOK, RefCounts, Users

(* Freeing a handle removes one user and one reference, and the block with *)
(* the last.                                                               *)
LEMMA FreeStep ==
  ASSUME IInv, NEW h \in Handles, Free(h)
  PROVE  IInv'
<1>a. PICK a \in Addrs : a = d[h]
  BY UsableFacts DEF Free
<1>1. /\ a \in heap /\ a \in Addrs /\ h \in UsersIn(open, d, a)
      /\ ref[a] = Cardinality(UsersIn(open, d, a)) /\ ref[a] \in Nat \ {0}
  BY <1>a, UsableFacts DEF Free
<1>2. /\ open' = open \ {h} /\ d' = d /\ ref' = [ref EXCEPT ![a] = @ - 1]
      /\ heap' = IF ref[a] = 1 THEN heap \ {a} ELSE heap
      /\ ref \in [Addrs -> Nat] /\ heap \subseteq Addrs
  BY <1>a DEF IInv, TypeOK, Free, Unref
<1>3. TypeOK'
  <2>1. <<>> \in Contents
    <3>1. 0 \in 0 .. MaxSize /\ <<>> \in [1 .. 0 -> Bytes]
      BY MMBlockAssumption
    <3> QED
      BY <3>1, ContentsIntro
  <2>2. data' \in [Addrs -> Contents]
    BY <2>1, <1>1, <1>a DEF IInv, TypeOK, Free, Unref
  <2>3. ref' \in [Addrs -> Nat]
    BY <1>1, <1>2
  <2> QED
    BY <2>2, <2>3, <1>2 DEF IInv, TypeOK, Free
<1>4. \A b : UsersIn(open', d', b) = UsersIn(open, d, b) \ {h}
  BY <1>2 DEF UsersIn
<1>5. \A b \in heap : b # a => UsersIn(open', d', b) = UsersIn(open, d, b) /\ ref'[b] = ref[b]
  BY <1>a, <1>2, <1>4 DEF UsersIn
<1>6. /\ IsFiniteSet(UsersIn(open, d, a)) /\ Cardinality(UsersIn(open, d, a)) \in Nat
      /\ Cardinality(UsersIn(open, d, a) \ {h}) = Cardinality(UsersIn(open, d, a)) - 1
  BY <1>1, UsersFinite, FS_RemoveElement DEF IInv, TypeOK
<1>7. ref[a] # 1 => ref'[a] = Cardinality(UsersIn(open', d', a)) /\ UsersIn(open', d', a) # {}
  <2>1. ref'[a] = Cardinality(UsersIn(open', d', a))
    BY <1>1, <1>2, <1>4, <1>6
  <2>2. ref[a] # 1 => Cardinality(UsersIn(open', d', a)) # 0
    BY <1>1, <1>2, <2>1
  <2> QED
    BY <2>1, <2>2, FS_EmptySet
<1>8. \A b \in heap' : ref'[b] = Cardinality(UsersIn(open', d', b)) /\ UsersIn(open', d', b) # {}
  BY <1>2, <1>5, <1>7 DEF IInv, RefCounts, Users
<1>9. \A g \in open' : d'[g] \in heap' \cup {NULL}
  <2>1. ref[a] = 1 => UsersIn(open', d', a) = {}
    <3>1. IsFiniteSet(UsersIn(open, d, a) \ {h}) /\ (ref[a] = 1 => Cardinality(UsersIn(open, d, a) \ {h}) = 0)
      BY <1>1, <1>6, FS_RemoveElement
    <3> QED
      BY <3>1, <1>4, FS_EmptySet
  <2>2. ref[a] = 1 => \A g \in open' : d'[g] # a
    BY <2>1 DEF UsersIn
  <2> QED
    BY <1>2, <2>2 DEF IInv, RefCounts, Users
<1> QED
  BY <1>3, <1>8, <1>9 DEF IInv, RefCounts, Users

(* A copy adds one user and one reference. *)
LEMMA CopyStep ==
  ASSUME IInv, NEW dest \in Handles, NEW src \in Handles, Copy(dest, src)
  PROVE  IInv'
<1>a. PICK a \in Addrs : a = d[src]
  BY UsableFacts DEF Copy
<1>1. /\ a \in heap /\ a \in Addrs
      /\ ref[a] = Cardinality(UsersIn(open, d, a)) /\ ref[a] \in Nat
  BY <1>a, UsableFacts DEF Copy
<1>2. /\ open' = open \cup {dest} /\ d' = [d EXCEPT ![dest] = a]
      /\ ref' = [ref EXCEPT ![a] = @ + 1] /\ heap' = heap /\ dest \notin open
      /\ ref \in [Addrs -> Nat] /\ d \in [Handles -> Addrs \cup {NULL}]
      /\ open \subseteq Handles /\ heap \subseteq Addrs
  BY <1>a DEF IInv, TypeOK, Copy, CopyRef
<1>3. TypeOK'
  BY <1>1, <1>2 DEF IInv, TypeOK, Copy
<1>4. UsersIn(open', d', a) = UsersIn(open, d, a) \cup {dest} /\ dest \notin UsersIn(open, d, a)
  BY <1>2 DEF UsersIn
<1>5. \A b \in heap : b # a => UsersIn(open', d', b) = UsersIn(open, d, b) /\ ref'[b] = ref[b]
  BY <1>2 DEF UsersIn
<1>6. ref'[a] = Cardinality(UsersIn(open', d', a)) /\ UsersIn(open', d', a) # {}
  <2>1. Cardinality(UsersIn(open, d, a) \cup {dest}) = Cardinality(UsersIn(open, d, a)) + 1
    BY <1>4, UsersFinite, FS_AddElement DEF IInv, TypeOK
  <2> QED
    BY <1>1, <1>2, <1>4, <2>1
<1>7. \A g \in open' : d'[g] \in heap' \cup {NULL}
  BY <1>1, <1>2 DEF IInv, RefCounts, Users
<1> QED
  BY <1>2, <1>3, <1>5, <1>6, <1>7 DEF IInv, RefCounts, Users

(* A detached write leaves the shared block to its other users. *)
LEMMA DetachStep ==
  ASSUME IInv, NEW h \in Handles, NEW offset \in Nat, NEW n \in Nat,
         WriteDetaches(h, offset, n)
  PROVE  IInv'
<1>a. PICK o \in Addrs : o = d[h]
  BY UsableFacts DEF WriteDetaches, Writes
<1>1. /\ o \in heap /\ o \in Addrs /\ h \in UsersIn(open, d, o) /\ h \in open
      /\ ref[o] = Cardinality(UsersIn(open, d, o)) /\ ref[o] \in Nat \ {0}
      /\ data[o] \in Contents /\ offset <= Len(data[o]) /\ ref[o] # 1
  BY <1>a, UsableFacts DEF WriteDetaches, Writes, Shared, Usable
<1>2. PICK a \in Addrs \ heap, x \in [1 .. Len(data[o]) -> Bytes],
           buf \in [1 .. Clip(Len(data[o]), offset, n) -> Bytes] :
        /\ data' = [data EXCEPT ![a] = Overwrite(
                      Detached(data[o], offset, DetachEnd(offset, n), x), offset, buf)]
        /\ ref' = [ref EXCEPT ![a] = 1, ![o] = @ - 1]
        /\ heap' = heap \cup {a}
        /\ d' = [d EXCEPT ![h] = a]
  BY <1>a DEF WriteDetaches
<1>3. open' = open /\ open = open \cup {h} /\ UNCHANGED status
  BY <1>1 DEF WriteDetaches
<1>4. ref \in [Addrs -> Nat] /\ heap \subseteq Addrs
  BY DEF IInv, TypeOK
<1>5. /\ ref'[a] = 1 /\ ref'[o] = ref[o] - 1
      /\ \A b \in heap \ {o} : ref'[b] = ref[b]
      /\ ref' \in [Addrs -> Nat]
  <2>1. ref[o] - 1 \in Nat /\ 1 \in Nat /\ a # o /\ a \in Addrs /\ o \in Addrs
    BY <1>1, <1>2
  <2>2. ref' = [[ref EXCEPT ![a] = 1] EXCEPT ![o] = ref[o] - 1]
    BY <1>2, <1>4, <2>1
  <2> QED
    BY <1>4, <2>1, <2>2
<1>6. data' \in [Addrs -> Contents]
  <2> DEFINE ne == DetachEnd(offset, n)
             y == Detached(data[o], offset, ne, x)
  <2>1. ne \in Nat
    BY MMBlockAssumption DEF DetachEnd, uint32
  <2> HIDE DEF ne
  <2>2. y \in Contents /\ Len(y) = Len(data[o])
    BY <1>1, <2>1, DetachedContents
  <2> HIDE DEF y
  <2>3. Overwrite(y, offset, buf) \in Contents
    BY <1>1, <2>2, OverwriteContents
  <2> QED
    BY <1>2, <2>3 DEF IInv, TypeOK, y, ne
<1>7. TypeOK'
  BY <1>2, <1>3, <1>5, <1>6 DEF IInv, TypeOK
<1>8. /\ UsersIn(open', d', a) = {h}
      /\ \A b \in heap : UsersIn(open', d', b) = UsersIn(open, d, b) \ {h}
      /\ \A b \in heap : h \notin UsersIn(open, d, b) =>
                          UsersIn(open', d', b) = UsersIn(open, d, b)
      /\ \A g \in open' \ {h} : d'[g] = d[g] /\ g \in open
      /\ d'[h] = a
  BY <1>2, <1>3, FreshBlock
<1>9. ref'[a] = Cardinality(UsersIn(open', d', a)) /\ UsersIn(open', d', a) # {}
  BY <1>5, <1>8, FS_Singleton
<1>10. \A b \in heap \ {o} : ref'[b] = Cardinality(UsersIn(open', d', b)) /\ UsersIn(open', d', b) # {}
  <2>1. \A b \in heap \ {o} : h \notin UsersIn(open, d, b)
    BY <1>a DEF UsersIn
  <2>2. \A b \in heap \ {o} : UsersIn(open', d', b) = UsersIn(open, d, b)
    BY <1>8, <2>1
  <2> QED
    BY <1>5, <2>2 DEF IInv, RefCounts, Users
<1>11. ref'[o] = Cardinality(UsersIn(open', d', o)) /\ UsersIn(open', d', o) # {}
  <2>0. IsFiniteSet(UsersIn(open, d, o)) /\ h \in UsersIn(open, d, o)
    BY <1>1, UsersFinite DEF IInv, TypeOK
  <2>1. Cardinality(UsersIn(open, d, o) \ {h}) = Cardinality(UsersIn(open, d, o)) - 1
    BY <2>0, FS_RemoveElement
  <2>2. ref'[o] = Cardinality(UsersIn(open', d', o)) /\ Cardinality(UsersIn(open', d', o)) # 0
    <3>1. UsersIn(open', d', o) = UsersIn(open, d, o) \ {h}
      BY <1>1, <1>8
    <3>2. ref'[o] = ref[o] - 1 /\ ref[o] = Cardinality(UsersIn(open, d, o))
          /\ ref[o] \in Nat /\ ref[o] # 0 /\ ref[o] # 1
      BY <1>1, <1>5
    <3> QED
      BY <3>1, <3>2, <2>1
  <2> QED
    BY <2>2, FS_EmptySet
<1>12. \A g \in open' : d'[g] \in heap' \cup {NULL}
  BY <1>2, <1>8 DEF IInv, RefCounts, Users
<1> QED
  BY <1>2, <1>7, <1>9, <1>10, <1>11, <1>12 DEF IInv, RefCounts, Users

(* Every call keeps the types and the counts. *)
LEMMA StepIInv == IInv /\ [Next]_vars => IInv'
<1> SUFFICES ASSUME IInv, [Next]_vars PROVE IInv'
  OBVIOUS
<1>1. ASSUME NEW h \in Handles, Alloc(h) PROVE IInv'
  BY <1>1, NewBlockStep DEF Alloc
<1>2. ASSUME NEW h \in Handles, Zalloc(h) PROVE IInv'
  <2>1. \A n \in 0 .. MaxSize : [i \in 1 .. n |-> ZERO] \in Contents
    <3> SUFFICES ASSUME NEW n \in 0 .. MaxSize
                 PROVE  [i \in 1 .. n |-> ZERO] \in Contents
      OBVIOUS
    <3>1. [i \in 1 .. n |-> ZERO] \in [1 .. n -> Bytes]
      BY MMBlockAssumption
    <3> QED
      BY <3>1, ContentsIntro
  <2> QED
    BY <1>2, <2>1, NewBlockStep DEF Zalloc
<1>3. ASSUME NEW h \in Handles, AllocFails(h) \/ ZallocFails(h) PROVE IInv'
  <2>1. /\ h \notin open /\ d' = [d EXCEPT ![h] = NULL] /\ UNCHANGED <<heap, data, ref, status>>
        /\ open' = open \/ open' = open \cup {h}
    BY <1>3 DEF AllocFails, ZallocFails
  <2>2. /\ d \in [Handles -> Addrs \cup {NULL}] /\ open \in SUBSET Handles
        /\ heap \subseteq Addrs /\ NULL \notin Addrs
    BY MMBlockAssumption DEF IInv, TypeOK
  <2>3. \A b \in heap : UsersIn(open', d', b) = UsersIn(open, d, b)
    BY <2>1, <2>2 DEF UsersIn
  <2>4. \A g \in open' : d'[g] \in heap' \cup {NULL}
    BY <2>1, <2>2 DEF IInv, RefCounts, Users
  <2>5. TypeOK'
    BY <2>1, <2>2 DEF IInv, TypeOK
  <2> QED
    BY <2>1, <2>3, <2>4, <2>5 DEF IInv, RefCounts, Users
<1>4. ASSUME NEW h \in Handles, UseOfNull(h) PROVE IInv'
  BY <1>4 DEF UseOfNull, IInv, TypeOK, RefCounts, Users
<1>5. ASSUME NEW h \in Handles, Free(h) PROVE IInv'
  BY <1>5, FreeStep
<1>6. ASSUME NEW h \in Handles, NEW src \in Handles, Copy(h, src) PROVE IInv'
  BY <1>6, CopyStep
<1>7. ASSUME NEW h \in Handles, NEW offset \in 0 .. MaxSize + 1, NEW n \in Uints,
             Read(h, offset, n) \/ WriteNothing(h, offset, n) \/ WriteFails(h, offset, n)
      PROVE  IInv'
  <2>1. UNCHANGED <<d, open, heap, data, ref, status>>
    BY <1>7 DEF Read, WriteNothing, WriteFails
  <2> QED
    BY <2>1 DEF IInv, TypeOK, RefCounts, Users
<1>8. ASSUME NEW h \in Handles, NEW offset \in 0 .. MaxSize + 1, NEW n \in Uints
      PROVE  offset \in Nat /\ n \in Nat
  BY MMBlockAssumption DEF Uints
<1>9. ASSUME NEW h \in Handles, NEW offset \in 0 .. MaxSize + 1, NEW n \in Uints,
             WriteInPlace(h, offset, n)
      PROVE  IInv'
  <2>1. data[d[h]] \in Contents /\ offset <= Len(data[d[h]]) /\ d[h] \in Addrs
    BY <1>9, UsableFacts DEF WriteInPlace, Writes
  <2>2. PICK buf \in [1 .. Clip(Len(data[d[h]]), offset, n) -> Bytes] :
          data' = [data EXCEPT ![d[h]] = Overwrite(@, offset, buf)]
    BY <1>9 DEF WriteInPlace
  <2>3. Overwrite(data[d[h]], offset, buf) \in Contents
    BY <2>1, <1>8, OverwriteContents
  <2>4. data' \in [Addrs -> Contents]
    BY <2>1, <2>2, <2>3 DEF IInv, TypeOK
  <2>5. UNCHANGED <<d, open, heap, ref, status>>
    BY <1>9 DEF WriteInPlace
  <2> QED
    BY <2>4, <2>5 DEF IInv, TypeOK, RefCounts, Users
<1>10. ASSUME NEW h \in Handles, NEW offset \in 0 .. MaxSize + 1, NEW n \in Uints,
              WriteDetaches(h, offset, n)
       PROVE  IInv'
  BY <1>8, <1>10, DetachStep
<1>11. ASSUME NEW h \in Handles, NEW offset \in 0 .. MaxSize + 1, NEW n \in Uints,
              WriteRunsWild(h, offset, n)
       PROVE  IInv'
  BY <1>11 DEF WriteRunsWild, IInv, TypeOK, RefCounts, Users
<1>12. CASE UNCHANGED vars
  BY <1>12 DEF vars, IInv, TypeOK, RefCounts, Users
<1> QED
  BY <1>1, <1>2, <1>3, <1>4, <1>5, <1>6, <1>7, <1>9, <1>10, <1>11, <1>12 DEF Next

(* For any number of handles: the reference count of an inner block is the *)
(* number of handles that use it, and it is allocated exactly while there  *)
(* is one.                                                                 *)
THEOREM RefCountsCorrect == Spec => []RefCounts
<1>1. IInv => RefCounts
  BY DEF IInv
<1> QED
  BY <1>1, InitIInv, StepIInv, PTL DEF Spec

-----------------------------------------------------------------------------
(* Through the handles, the blocks are private ones. *)

View == [h \in Handles |-> IF h \in open /\ d[h] # NULL THEN data[d[h]] ELSE NULL]

LEMMA ViewAt ==
  ASSUME IInv, NEW h \in Handles
  PROVE  /\ Usable(h) => View[h] = data[d[h]] /\ View[h] \in Contents /\ View[h] # NULL
         /\ ~Usable(h) => View[h] = NULL
<1>1. Usable(h) => data[d[h]] \in Contents
  BY UsableFacts
<1> QED
  BY <1>1, NullAssumption DEF View, Usable

(* A call for one handle changes what is seen through that handle only, if *)
(* the other handles keep their blocks and these their bytes.              *)
LEMMA OthersKeepBytes ==
  ASSUME NEW h \in Handles,
         \A g \in Handles \ {h} :
           /\ g \in open' <=> g \in open
           /\ d'[g] = d[g]
           /\ Usable(g) => data'[d[g]] = data[d[g]]
  PROVE  View' = [View EXCEPT ![h] = View'[h]]
<1>1. \A g \in Handles \ {h} : View'[g] = View[g]
  BY DEF View, Usable
<1>2. View = [g \in Handles |-> View[g]] /\ View' = [g \in Handles |-> View'[g]]
  BY DEF View
<1> QED
  BY <1>1, <1>2

(* The only user of a block with one reference. *)
LEMMA SoleUser ==
  ASSUME IInv, NEW h \in Handles, Usable(h), ref[d[h]] = 1,
         NEW g \in Handles \ {h}, Usable(g)
  PROVE  d[g] # d[h]
<1>1. /\ h \in UsersIn(open, d, d[h])
      /\ Cardinality(UsersIn(open, d, d[h])) = 1
      /\ IsFiniteSet(UsersIn(open, d, d[h]))
  BY UsableFacts, UsersFinite DEF IInv, TypeOK
<1>2. PICK x : UsersIn(open, d, d[h]) = {x}
  BY <1>1, FS_Singleton
<1> QED
  BY <1>1, <1>2 DEF UsersIn, Usable

LEMMA NewBlockObtains ==
  ASSUME IInv, NEW h \in Handles \ open, NEW a \in Addrs, NEW bytes \in Contents,
         NewBlock(h, a, bytes)
  PROVE  Abstract!PBNext
<1>1. View[h] = NULL
  BY ViewAt DEF Usable
<1>2. /\ d \in [Handles -> Addrs \cup {NULL}] /\ data \in [Addrs -> Contents]
      /\ \A g \in open : d[g] \in heap \cup {NULL}
      /\ a \notin heap /\ a # NULL
      /\ data' = [data EXCEPT ![a] = bytes] /\ d' = [d EXCEPT ![h] = a]
      /\ open' = open \cup {h}
  BY MMBlockAssumption DEF IInv, TypeOK, RefCounts, NewBlock
<1>3. View' = [View EXCEPT ![h] = View'[h]]
  BY <1>2, OthersKeepBytes DEF Usable
<1>4. View'[h] = bytes
  BY <1>2 DEF View
<1>5. ret' = [value |-> 1, buf |-> <<>>]
  BY DEF NewBlock, Returns
<1>6. Abstract!Obtain(h, bytes)
  BY <1>1, <1>3, <1>4, <1>5 DEF Abstract!Obtain, Abstract!Value, View
<1> QED
  BY <1>6 DEF Abstract!PBNext, Abstract!Obtains

LEMMA FreeDrops ==
  ASSUME IInv, NEW h \in Handles, Free(h)
  PROVE  Abstract!PBNext
<1>1. Usable(h) /\ View[h] # NULL
  BY ViewAt DEF Free
<1>2. /\ d' = d /\ open' = open \ {h} /\ ret' = [value |-> 0, buf |-> <<>>]
      /\ data' = IF ref[d[h]] = 1 THEN [data EXCEPT ![d[h]] = <<>>] ELSE data
      /\ data \in [Addrs -> Contents]
  BY DEF Free, Unref, Returns, IInv, TypeOK
<1>3. \A g \in Handles \ {h} : Usable(g) => data'[d[g]] = data[d[g]]
  <2> SUFFICES ASSUME NEW g \in Handles \ {h}, Usable(g) PROVE data'[d[g]] = data[d[g]]
    OBVIOUS
  <2>1. ref[d[h]] = 1 => d[g] # d[h]
    BY <1>1, SoleUser
  <2>2. d[g] \in Addrs
    BY UsableFacts
  <2> QED
    BY <1>2, <2>1, <2>2
<1>4. View' = [View EXCEPT ![h] = View'[h]]
  BY <1>2, <1>3, OthersKeepBytes
<1>5. View'[h] = NULL
  BY <1>2 DEF View
<1>6. Abstract!Drop(h)
  BY <1>1, <1>2, <1>4, <1>5 DEF Abstract!Drop, Abstract!Value, View
<1> QED
  BY <1>6 DEF Abstract!PBNext

LEMMA CopyDuplicates ==
  ASSUME IInv, NEW dest \in Handles, NEW src \in Handles, Copy(dest, src)
  PROVE  Abstract!PBNext
<1>1. /\ Usable(src) /\ dest \notin open /\ d' = [d EXCEPT ![dest] = d[src]]
      /\ open' = open \cup {dest} /\ data' = data /\ ret' = [value |-> 0, buf |-> <<>>]
      /\ d \in [Handles -> Addrs \cup {NULL}]
  BY DEF Copy, Returns, IInv, TypeOK
<1>2. View[src] # NULL /\ View[src] = data[d[src]] /\ View[dest] = NULL /\ d[src] # NULL
  BY <1>1, ViewAt DEF Usable
<1>3. View' = [View EXCEPT ![dest] = View'[dest]]
  BY <1>1, OthersKeepBytes
<1>4. View'[dest] = View[src]
  BY <1>1, <1>2 DEF View
<1>5. Abstract!Duplicate(dest, src)
  BY <1>1, <1>2, <1>3, <1>4 DEF Abstract!Duplicate, Abstract!Obtain, Abstract!Value, View
<1> QED
  BY <1>5 DEF Abstract!PBNext

(* A call that leaves what is seen alone and returns a number. *)
LEMMA QuietRefuses ==
  ASSUME View' = View, NEW n \in -14 .. 1, ret' = [value |-> n, buf |-> <<>>]
  PROVE  Abstract!PBNext
<1>1. Abstract!Refuse
  BY DEF Abstract!Refuse, Abstract!Value, View
<1> QED
  BY <1>1 DEF Abstract!PBNext

LEMMA ReadLooks ==
  ASSUME IInv, NEW h \in Handles, NEW offset \in Nat, NEW n \in Nat, Read(h, offset, n)
  PROVE  Abstract!PBNext
<1>1. Usable(h) /\ View[h] = data[d[h]] /\ View[h] # NULL /\ View[h] \in Contents
  BY ViewAt DEF Read
<1>2. View' = View
  BY DEF Read, View
<1>3. CASE ret' = [value |-> EFAULT, buf |-> <<>>]
  BY <1>2, <1>3, QuietRefuses DEF EFAULT
<1>4. CASE /\ offset <= Len(View[h])
           /\ ret' = [value |-> Clip(Len(View[h]), offset, n),
                      buf |-> SubSeq(View[h], offset + 1,
                                     offset + Clip(Len(View[h]), offset, n))]
  <2>1. Len(View[h]) \in Nat
    BY <1>1, ContentsFacts, MMBlockAssumption
  <2>2. PICK m : m = Clip(Len(View[h]), offset, n)
    OBVIOUS
  <2>3. m \in 0 .. Len(View[h]) - offset /\ offset \in 0 .. Len(View[h])
    BY <1>4, <2>1, <2>2 DEF Clip
  <2>4. ret' = [value |-> m, buf |-> SubSeq(View[h], offset + 1, offset + m)]
    BY <1>4, <2>2
  <2>5. Abstract!Look(h)
    BY <1>1, <1>2, <2>3, <2>4 DEF Abstract!Look, View
  <2> QED
    BY <2>5 DEF Abstract!PBNext
<1> QED
  BY <1>1, <1>3, <1>4 DEF Read, Returns

(* A write is cut to what fits in the block. *)
LEMMA ClipRange ==
  ASSUME NEW size \in Nat, NEW offset \in Nat, NEW n \in Nat, offset <= size
  PROVE  Clip(size, offset, n) \in Nat /\ offset + Clip(size, offset, n) <= size
  BY DEF Clip

(* The bytes of a block of which a run was overwritten. *)
LEMMA OverwriteFacts ==
  ASSUME NEW b \in Contents, NEW offset \in Nat, NEW n \in Nat, offset <= Len(b),
         NEW buf \in [1 .. Clip(Len(b), offset, n) -> Bytes]
  PROVE  /\ Len(buf) = Clip(Len(b), offset, n)
         /\ Overwrite(b, offset, buf) \in Contents
         /\ Len(Overwrite(b, offset, buf)) = Len(b)
         /\ \A i \in 1 .. Len(b) : i <= offset \/ i > offset + Len(buf) =>
              Overwrite(b, offset, buf)[i] = b[i]
<1>1. /\ Len(b) \in 0 .. MaxSize /\ DOMAIN b = 1 .. Len(b)
      /\ b \in [1 .. Len(b) -> Bytes] /\ Len(b) \in Nat
  BY ContentsFacts, MMBlockAssumption
<1>2. PICK k : k = Clip(Len(b), offset, n)
  OBVIOUS
<1>3. k \in Nat /\ offset + k <= Len(b)
  BY <1>1, <1>2, ClipRange
<1>4. buf \in [1 .. k -> Bytes] /\ Len(buf) = k
  BY <1>2, <1>3
<1>5. DOMAIN b \cup (offset + 1 .. offset + Len(buf)) = 1 .. Len(b)
  BY <1>1, <1>3, <1>4
<1>6. PICK c : c = Overwrite(b, offset, buf)
  OBVIOUS
<1>7. c = [i \in 1 .. Len(b) |->
             IF i > offset /\ i <= offset + Len(buf) THEN buf[i - offset] ELSE b[i]]
  BY <1>5, <1>6 DEF Overwrite
<1>8. c \in Contents /\ DOMAIN c = 1 .. Len(b)
  BY <1>6, <1>7, OverwriteContents
<1>9. Len(c) = Len(b)
  BY <1>1, <1>8, ContentsFacts
<1>10. \A i \in 1 .. Len(b) : i <= offset \/ i > offset + Len(buf) => c[i] = b[i]
  BY <1>1, <1>3, <1>4, <1>7
<1> QED
  BY <1>2, <1>4, <1>6, <1>8, <1>9, <1>10

(* New bytes for one handle that differ from the old ones in the written   *)
(* run only are a write to a private block.                                *)
LEMMA RunModifies ==
  ASSUME IInv, NEW h \in Handles, NEW offset \in Nat, NEW k \in Nat \ {0}, Usable(h),
         offset + k <= Len(View[h]),
         View' = [View EXCEPT ![h] = View'[h]],
         View'[h] \in Contents, Len(View'[h]) = Len(View[h]),
         \A i \in 1 .. Len(View[h]) : i <= offset \/ i > offset + k =>
           View'[h][i] = View[h][i],
         ret' = [value |-> k, buf |-> <<>>]
  PROVE  Abstract!PBNext
<1>1. View[h] # NULL /\ Len(View[h]) \in Nat
  BY ViewAt, ContentsFacts, MMBlockAssumption
<1>2. PICK lo, hi : lo = offset + 1 /\ hi = offset + k
  OBVIOUS
<1>3. /\ lo \in 1 .. Len(View[h]) /\ hi \in 1 .. Len(View[h]) /\ lo <= hi
      /\ hi - lo + 1 = k
  BY <1>1, <1>2
<1>4. PICK b : b = View'[h]
  OBVIOUS
<1>5. b \in {c \in Contents : Len(c) = Len(View[h])} /\ View' = [View EXCEPT ![h] = b]
  BY <1>4
<1>6. \A i \in 1 .. Len(b) : (i < lo \/ i > hi) => b[i] = View[h][i]
  BY <1>1, <1>2, <1>4
<1>7. Abstract!Modify(h)
  BY <1>1, <1>3, <1>5, <1>6 DEF Abstract!Modify, Abstract!Value, View
<1> QED
  BY <1>7 DEF Abstract!PBNext

LEMMA WriteInPlaceModifies ==
  ASSUME IInv, NEW h \in Handles, NEW offset \in Nat, NEW n \in Nat,
         WriteInPlace(h, offset, n)
  PROVE  Abstract!PBNext
<1>1. /\ Usable(h) /\ offset <= Len(data[d[h]]) /\ ref[d[h]] = 1
      /\ Clip(Len(data[d[h]]), offset, n) > 0
  BY DEF WriteInPlace, Writes, Shared
<1>2. PICK o \in Addrs : o = d[h] /\ data[o] \in Contents /\ View[h] = data[o]
  BY <1>1, UsableFacts, ViewAt
<1>3. PICK buf \in [1 .. Clip(Len(data[o]), offset, n) -> Bytes] :
        /\ data' = [data EXCEPT ![o] = Overwrite(data[o], offset, buf)]
        /\ ret' = [value |-> Len(buf), buf |-> <<>>]
  BY <1>2 DEF WriteInPlace, Returns
<1>4. d' = d /\ open' = open /\ data \in [Addrs -> Contents]
  BY DEF WriteInPlace, IInv, TypeOK
<1>5. PICK c : c = Overwrite(data[o], offset, buf)
  OBVIOUS
<1>6. /\ Len(buf) = Clip(Len(data[o]), offset, n)
      /\ c \in Contents /\ Len(c) = Len(data[o])
      /\ \A i \in 1 .. Len(data[o]) : i <= offset \/ i > offset + Len(buf) => c[i] = data[o][i]
  BY <1>1, <1>2, <1>5, OverwriteFacts
<1>7. View'[h] = c
  BY <1>1, <1>2, <1>3, <1>4, <1>5 DEF View, Usable
<1>8. \A g \in Handles \ {h} : Usable(g) => data'[d[g]] = data[d[g]]
  <2> SUFFICES ASSUME NEW g \in Handles \ {h}, Usable(g) PROVE data'[d[g]] = data[d[g]]
    OBVIOUS
  <2>1. d[g] # o /\ d[g] \in Addrs
    BY <1>1, <1>2, SoleUser, UsableFacts
  <2> QED
    BY <1>3, <1>4, <2>1
<1>9. View' = [View EXCEPT ![h] = View'[h]]
  BY <1>4, <1>8, OthersKeepBytes
<1>10. Len(buf) \in Nat \ {0} /\ offset + Len(buf) <= Len(View[h])
  <2>1. Len(data[o]) \in Nat
    BY <1>2, ContentsFacts, MMBlockAssumption
  <2> QED
    BY <1>1, <1>2, <1>6, <2>1 DEF Clip
<1> QED
  BY <1>1, <1>2, <1>3, <1>6, <1>7, <1>9, <1>10, RunModifies

LEMMA WriteDetachesModifies ==
  ASSUME IInv, NEW h \in Handles, NEW offset \in Nat, NEW n \in Nat,
         WriteDetaches(h, offset, n)
  PROVE  Abstract!PBNext
<1>1. /\ Usable(h) /\ offset <= Len(data[d[h]])
      /\ Clip(Len(data[d[h]]), offset, n) > 0
  BY DEF WriteDetaches, Writes
<1>2. PICK old : old = data[d[h]] /\ old \in Contents /\ View[h] = old
  BY <1>1, UsableFacts, ViewAt
<1>3. PICK ne : ne = DetachEnd(offset, n)
  OBVIOUS
<1>4. PICK a \in Addrs \ heap, x \in [1 .. Len(old) -> Bytes],
           buf \in [1 .. Clip(Len(old), offset, n) -> Bytes] :
        /\ data' = [data EXCEPT ![a] = Overwrite(Detached(old, offset, ne, x), offset, buf)]
        /\ d' = [d EXCEPT ![h] = a]
        /\ ret' = [value |-> Len(buf), buf |-> <<>>]
  BY <1>2, <1>3 DEF WriteDetaches, Returns
<1>5. /\ d \in [Handles -> Addrs \cup {NULL}] /\ data \in [Addrs -> Contents]
      /\ open' = open /\ a # NULL /\ \A g \in open : d[g] \in heap \cup {NULL}
  BY MMBlockAssumption DEF WriteDetaches, IInv, TypeOK, RefCounts
<1>6. Len(old) \in 0 .. MaxSize /\ Len(old) \in Nat /\ ne \in Nat
  BY <1>2, <1>3, ContentsFacts, MMBlockAssumption DEF DetachEnd, uint32
<1>7. PICK y : y = Detached(old, offset, ne, x)
  OBVIOUS
<1>8. y \in Contents /\ Len(y) = Len(old)
  BY <1>2, <1>6, <1>7, DetachedContents
<1>9. \A i \in 1 .. Len(old) : i <= offset \/ i > ne => y[i] = old[i]
  BY <1>7 DEF Detached
<1>10. PICK c : c = Overwrite(y, offset, buf)
  OBVIOUS
<1>11. /\ Len(buf) = Clip(Len(old), offset, n)
       /\ c \in Contents /\ Len(c) = Len(old)
       /\ \A i \in 1 .. Len(old) : i <= offset \/ i > offset + Len(buf) => c[i] = y[i]
  BY <1>1, <1>2, <1>8, <1>10, OverwriteFacts
<1>12. Len(buf) \in Nat \ {0} /\ offset + Len(buf) <= Len(old)
  BY <1>1, <1>2, <1>6, <1>11 DEF Clip
<1>13. \A i \in 1 .. Len(old) : i > offset + Len(buf) => i > ne
  \* bytes behind the written run exist only if the write was not cut, and
  \* then offset + n does not wrap
  <2> SUFFICES ASSUME NEW i \in 1 .. Len(old), i > offset + Len(buf) PROVE i > ne
    OBVIOUS
  <2>1. Len(buf) = n /\ offset + n < UINT
    BY <1>6, <1>11, <1>12, MMBlockAssumption DEF Clip
  <2>2. ne = offset + n
    BY <1>3, <2>1, MMBlockAssumption DEF DetachEnd, uint32
  <2> QED
    BY <2>1, <2>2
<1>14. \A i \in 1 .. Len(old) : i <= offset \/ i > offset + Len(buf) => c[i] = old[i]
  BY <1>9, <1>11, <1>13
<1>15. View'[h] = c
  BY <1>1, <1>4, <1>5, <1>7, <1>10 DEF View, Usable
<1>16. View' = [View EXCEPT ![h] = View'[h]]
  BY <1>4, <1>5, OthersKeepBytes DEF Usable
<1> QED
  BY <1>1, <1>2, <1>4, <1>11, <1>12, <1>14, <1>15, <1>16, RunModifies

(* Every call is one of a private block, or a stutter. *)
LEMMA StepsOfPrivateBlocks ==
  ASSUME IInv, [Next]_vars
  PROVE  [Abstract!PBNext]_<<View, ret>>
<1>1. ASSUME NEW h \in Handles, Alloc(h) PROVE Abstract!PBNext
  BY <1>1, NewBlockObtains DEF Alloc
<1>2. ASSUME NEW h \in Handles, Zalloc(h) PROVE Abstract!PBNext
  <2>1. PICK a \in Addrs, n \in 0 .. MaxSize : NewBlock(h, a, [i \in 1 .. n |-> ZERO])
    BY <1>2 DEF Zalloc
  <2>2. [i \in 1 .. n |-> ZERO] \in [1 .. n -> Bytes]
    BY MMBlockAssumption
  <2>3. [i \in 1 .. n |-> ZERO] \in Contents
    BY <2>2, ContentsIntro
  <2> QED
    BY <1>2, <2>1, <2>3, NewBlockObtains DEF Zalloc
<1>3. ASSUME NEW h \in Handles, AllocFails(h) \/ ZallocFails(h) PROVE Abstract!PBNext
  <2>1. /\ h \notin open /\ d' = [d EXCEPT ![h] = NULL] /\ data' = data
        /\ open' = open \/ open' = open \cup {h}
        /\ d \in [Handles -> Addrs \cup {NULL}]
    BY <1>3 DEF AllocFails, ZallocFails, IInv, TypeOK
  <2>2. View' = View
    BY <2>1 DEF View
  <2>3. \/ ret' = [value |-> 0, buf |-> <<>>]
        \/ ret' = [value |-> 1, buf |-> <<>>]
    BY <1>3 DEF AllocFails, ZallocFails, Returns
  <2> QED
    BY <2>2, <2>3, QuietRefuses
<1>4. ASSUME NEW h \in Handles, UseOfNull(h) PROVE UNCHANGED <<View, ret>>
  BY <1>4 DEF UseOfNull, View
<1>5. ASSUME NEW h \in Handles, Free(h) PROVE Abstract!PBNext
  BY <1>5, FreeDrops
<1>6. ASSUME NEW h \in Handles, NEW src \in Handles, Copy(h, src) PROVE Abstract!PBNext
  BY <1>6, CopyDuplicates
<1>7. ASSUME NEW offset \in 0 .. MaxSize + 1, NEW n \in Uints
      PROVE  offset \in Nat /\ n \in Nat
  BY MMBlockAssumption DEF Uints
<1>8. ASSUME NEW h \in Handles, NEW offset \in 0 .. MaxSize + 1, NEW n \in Uints,
             Read(h, offset, n)
      PROVE  Abstract!PBNext
  BY <1>7, <1>8, ReadLooks
<1>9. ASSUME NEW h \in Handles, NEW offset \in 0 .. MaxSize + 1, NEW n \in Uints,
             WriteNothing(h, offset, n) \/ WriteFails(h, offset, n)
      PROVE  Abstract!PBNext
  <2>1. View' = View
    BY <1>9 DEF WriteNothing, WriteFails, View
  <2>2. \/ ret' = [value |-> 0, buf |-> <<>>]
        \/ ret' = [value |-> -12, buf |-> <<>>]
        \/ ret' = [value |-> -14, buf |-> <<>>]
    BY <1>9 DEF WriteNothing, WriteFails, Returns, EFAULT, ENOMEM
  <2> QED
    BY <2>1, <2>2, QuietRefuses
<1>10. ASSUME NEW h \in Handles, NEW offset \in 0 .. MaxSize + 1, NEW n \in Uints,
              WriteInPlace(h, offset, n)
       PROVE  Abstract!PBNext
  BY <1>7, <1>10, WriteInPlaceModifies
<1>11. ASSUME NEW h \in Handles, NEW offset \in 0 .. MaxSize + 1, NEW n \in Uints,
              WriteDetaches(h, offset, n)
       PROVE  Abstract!PBNext
  BY <1>7, <1>11, WriteDetachesModifies
<1>12. ASSUME NEW h \in Handles, NEW offset \in 0 .. MaxSize + 1, NEW n \in Uints,
              WriteRunsWild(h, offset, n)
       PROVE  UNCHANGED <<View, ret>>
  BY <1>12 DEF WriteRunsWild, View
<1>13. CASE UNCHANGED vars
  BY <1>13 DEF vars, View
<1> QED
  BY <1>1, <1>2, <1>3, <1>4, <1>5, <1>6, <1>8, <1>9, <1>10, <1>11, <1>12, <1>13 DEF Next

(* As long as a handle is in use, it points to a block that is allocated   *)
(* and has the size the handle was given, however often a write gives it   *)
(* another block and whatever the other handles do.                        *)
KeepsSize(h) ==
  Usable(h) /\ Usable(h)' =>
    d'[h] \in heap' /\ Len(data'[d'[h]]) = Len(data[d[h]])

LEMMA StepKeepsSize ==
  ASSUME IInv, [Next]_vars, NEW h \in Handles
  PROVE  KeepsSize(h)
<1>1. SUFFICES ASSUME Usable(h), Usable(h)'
               PROVE  d'[h] \in heap' /\ Len(data'[d'[h]]) = Len(data[d[h]])
  BY DEF KeepsSize
<1>2. IInv'
  BY StepIInv
<1>3. d'[h] \in heap'
  BY <1>1, <1>2 DEF IInv, RefCounts, Usable
<1>4. View[h] = data[d[h]] /\ View'[h] = data'[d'[h]]
  BY <1>1 DEF View, Usable
<1>5. View[h] # NULL
  BY <1>1, ViewAt
<1>6. data'[d'[h]] # NULL
  BY <1>1, <1>2, UsableFacts, NullAssumption DEF Usable, IInv, TypeOK, RefCounts
<1>7. View \in [Handles -> Contents \cup {NULL}]
  <2>1. ASSUME NEW g \in Handles PROVE View[g] \in Contents \cup {NULL}
    BY ViewAt
  <2>2. View = [g \in Handles |-> View[g]]
    BY DEF View
  <2> QED
    BY <2>1, <2>2
<1>8. Len(View'[h]) = Len(View[h])
  <2>1. CASE UNCHANGED <<View, ret>> \/ Abstract!Refuse
    BY <2>1 DEF Abstract!Refuse, View
  <2>2. ASSUME NEW g \in Handles, Abstract!Obtains(g) \/ (\E src \in Handles : Abstract!Duplicate(g, src))
        PROVE  Len(View'[h]) = Len(View[h])
    <3>1. View[g] = NULL /\ \E b : View' = [View EXCEPT ![g] = b]
      BY <2>2 DEF Abstract!Obtains, Abstract!Duplicate, Abstract!Obtain, View
    <3> QED
      BY <1>5, <1>7, <3>1
  <2>3. ASSUME NEW g \in Handles, Abstract!Drop(g) PROVE Len(View'[h]) = Len(View[h])
    <3>1. View' = [View EXCEPT ![g] = NULL]
      BY <2>3 DEF Abstract!Drop, View
    <3> QED
      BY <1>4, <1>6, <1>7, <3>1
  <2>4. ASSUME NEW g \in Handles, Abstract!Look(g) PROVE Len(View'[h]) = Len(View[h])
    BY <2>4 DEF Abstract!Look, View
  <2>5. ASSUME NEW g \in Handles, Abstract!Modify(g) PROVE Len(View'[h]) = Len(View[h])
    <3>1. PICK b \in Contents : Len(b) = Len(View[g]) /\ View' = [View EXCEPT ![g] = b]
      BY <2>5 DEF Abstract!Modify, View
    <3> QED
      BY <1>7, <3>1
  <2>6. [Abstract!PBNext]_<<View, ret>>
    BY StepsOfPrivateBlocks
  <2> QED
    BY <2>1, <2>2, <2>3, <2>4, <2>5, <2>6 DEF Abstract!PBNext
<1> QED
  BY <1>3, <1>4, <1>8

(* For any number of handles, a handle in use never dangles and never      *)
(* changes its size.                                                       *)
THEOREM HandlesKeepSize == Spec => [][\A h \in Handles : KeepsSize(h)]_vars
<1>1. IInv /\ [Next]_vars => [\A h \in Handles : KeepsSize(h)]_vars
  BY StepKeepsSize
<1> QED
  BY <1>1, InitIInv, StepIInv, PTL DEF Spec

(* mmblock.c implements private blocks: for any number of handles and      *)
(* blocks of any size, no write is ever seen through another handle, and   *)
(* every read returns the handle's own bytes.                              *)
THEOREM SharingIsInvisible == Spec => ImplementsPrivateBlocks
<1>1. Init => Abstract!PBInit
  BY DEF Init, Abstract!PBInit, Abstract!Value
<1>2. IInv /\ [Next]_vars => [Abstract!PBNext]_(Abstract!pbVars)
  BY StepsOfPrivateBlocks DEF Abstract!pbVars, View
<1> QED
  BY <1>1, <1>2, InitIInv, StepIInv, PTL DEF Spec, ImplementsPrivateBlocks, Abstract!PBSpec
=============================================================================
