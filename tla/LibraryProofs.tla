--------------------------- MODULE LibraryProofs ----------------------------
(***************************************************************************)
(* Machine-checked proofs about the stream, the cache, the sockets, the    *)
(* memory stream and the string buffer of the library, for every value of  *)
(* their constants: an inductive invariant for each, and from it what      *)
(* MCLibrary says of it.                                                   *)
(***************************************************************************)
EXTENDS MCLibrary, SequenceFacts, FiniteSetTheorems

-----------------------------------------------------------------------------
(* strbuf.c *)

Cell == Chars \cup {Str!NUL, Str!JUNK}

(* Block b begins with the string t. *)
BeginsWith(b, t) ==
  /\ b \in Seq(Cell) /\ t \in Seq(Chars) /\ Len(t) <= Len(b)
  /\ \A i \in 1 .. Len(t) : b[i] = t[i]

(* Blocks have the size they were asked for, unless they were squeezed. *)
StrBufInv ==
  /\ v3 = "ok" => /\ BeginsWith(v1, v4) /\ v2 = Len(v4)
                  /\ Str!NoOldTail
                  /\ v5 \/ Str!IsBlockSize(Len(v1))
  /\ Str!HarmNeedsFullBlock

(* A block for the next call: the one at hand, or one from realloc() *)
Sized(b) == Len(b) = Len(v1) \/ Str!IsBlockSize(Len(b))

LEMMA StrStutters ==
  ASSUME StrBufInv, UNCHANGED Str!vars PROVE StrBufInv'
  BY DEF StrBufInv, Str!vars, Str!NoOldTail, Str!HarmNeedsFullBlock

LEMMA StrOther ==
  ASSUME v3' \in {"other", "stale"} PROVE StrBufInv'
  BY DEF StrBufInv, Str!HarmNeedsFullBlock

LEMMA StrPutFacts ==
  ASSUME NEW b \in Seq(Cell), NEW p \in Nat, NEW s \in Seq(Cell)
  PROVE  /\ Str!Put(b, p, s) \in Seq(Cell) /\ Len(Str!Put(b, p, s)) = Len(b)
         /\ \A i \in 1 .. Len(b) :
              Str!Put(b, p, s)[i] = IF i > p /\ i <= p + Len(s) THEN s[i - p] ELSE b[i]
<1>1. Len(b) \in Nat /\ Len(s) \in Nat
  OBVIOUS
<1>2. ASSUME NEW i \in 1 .. Len(b)
      PROVE  /\ i - p \in 1 .. Len(s) <=> i > p /\ i <= p + Len(s)
             /\ (IF i > p /\ i <= p + Len(s) THEN s[i - p] ELSE b[i]) \in Cell
  BY <1>1
<1>3. Str!Put(b, p, s) = [i \in 1 .. Len(b) |-> IF i > p /\ i <= p + Len(s) THEN s[i - p] ELSE b[i]]
  BY <1>2 DEF Str!Put
<1> QED
  BY <1>1, <1>2, <1>3

LEMMA StrCellsFacts ==
  ASSUME NEW S, NEW b \in Seq(S), NEW p \in Nat, NEW n \in Nat, p + n <= Len(b)
  PROVE  /\ Str!Cells(b, p, n) \in Seq(S) /\ Len(Str!Cells(b, p, n)) = n
         /\ \A i \in 1 .. n : Str!Cells(b, p, n)[i] = b[p + i]
<1>1. \A i \in p + 1 .. p + n : b[i] \in S
  OBVIOUS
<1> DEFINE m == p + 1
<1> DEFINE k == p + n
<1>2. /\ SubSeq(b, m, k) \in Seq(S)
      /\ Len(SubSeq(b, m, k)) = IF m <= k THEN k - m + 1 ELSE 0
      /\ \A i \in 1 .. k - m + 1 : SubSeq(b, m, k)[i] = b[m + i - 1]
  <2>1. m \in Int /\ k \in Int /\ \A i \in m .. k : b[i] \in S
    BY <1>1
  <2> HIDE DEF m, k
  <2> QED
    BY <2>1, SubSeqProperties
<1>3. k - m + 1 = n /\ (m <= k \/ n = 0) /\ \A i \in Int : m + i - 1 = p + i
  OBVIOUS
<1>4. PICK t : t = SubSeq(b, m, k)
  OBVIOUS
<1>5. t \in Seq(S) /\ Len(t) = n
  BY <1>2, <1>3, <1>4
<1>6. ASSUME NEW i \in 1 .. n PROVE t[i] = b[p + i]
  <2>1. i \in 1 .. k - m + 1 /\ m + i - 1 = p + i
    OBVIOUS
  <2>2. t[i] = b[m + i - 1]
    <3> HIDE DEF m, k
    <3> QED BY <2>1, <1>2, <1>4
  <2> QED
    BY <2>1, <2>2
<1> QED
  BY <1>4, <1>5, <1>6 DEF Str!Cells

LEMMA StrRoundUpFacts ==
  ASSUME NEW n \in Nat
  PROVE  Str!RoundUp(n) \in Nat /\ Str!RoundUp(n) >= n
<1>1. PICK q : q = (n + ALIGN - 1) \div ALIGN
  OBVIOUS
<1>2. q \in Nat /\ n + ALIGN - 1 < (q + 1) * ALIGN
  BY <1>1, StrBufAssumption
<1>3. (q + 1) * ALIGN = q * ALIGN + ALIGN /\ q * ALIGN \in Nat
  BY <1>2, StrBufAssumption
<1> QED
  BY <1>1, <1>2, <1>3, StrBufAssumption DEF Str!RoundUp

LEMMA StrResizedFacts ==
  ASSUME NEW b \in Seq(Cell), NEW n \in Nat
  PROVE  /\ Str!Resized(b, n) \in Seq(Cell) /\ Len(Str!Resized(b, n)) = n
         /\ \A i \in 1 .. n : Str!Resized(b, n)[i] = IF i <= Len(b) THEN b[i] ELSE Str!JUNK
<1>1. ASSUME NEW i \in 1 .. n PROVE (IF i <= Len(b) THEN b[i] ELSE Str!JUNK) \in Cell
  BY DEF Cell
<1> QED
  BY <1>1 DEF Str!Resized

LEMMA StrRoomFacts ==
  ASSUME NEW b \in Seq(Cell), NEW n \in Nat
  PROVE  /\ Str!Room(b, n) \in Seq(Cell) /\ Len(Str!Room(b, n)) >= n /\ Len(Str!Room(b, n)) >= Len(b)
         /\ \A i \in 1 .. Len(Str!Room(b, n)) : Str!Room(b, n)[i] = IF i <= Len(b) THEN b[i] ELSE Str!JUNK
<1>1. CASE n > Len(b)
  <2>1. Str!Room(b, n) = Str!Resized(b, Str!RoundUp(n))
    BY <1>1 DEF Str!Room
  <2>2. PICK k \in Nat : k = Str!RoundUp(n) /\ k >= n
    BY StrRoundUpFacts
  <2>3. /\ Str!Room(b, n) \in Seq(Cell) /\ Len(Str!Room(b, n)) = k
        /\ \A i \in 1 .. k : Str!Room(b, n)[i] = IF i <= Len(b) THEN b[i] ELSE Str!JUNK
    BY <2>1, <2>2, StrResizedFacts
  <2> QED
    BY <1>1, <2>2, <2>3
<1>2. CASE ~(n > Len(b))
  <2>1. Str!Room(b, n) = b
    BY <1>2 DEF Str!Room
  <2> QED
    BY <1>2, <2>1
<1> QED
  BY <1>1, <1>2

LEMMA StrRoomSized ==
  ASSUME NEW b \in Seq(Cell), NEW n \in Nat, Sized(b)
  PROVE  Sized(Str!Room(b, n))
<1>1. CASE n > Len(b)
  <2>1. Str!Room(b, n) = Str!Resized(b, Str!RoundUp(n))
    BY <1>1 DEF Str!Room
  <2>2. PICK k \in Nat : k = Str!RoundUp(n)
    BY StrRoundUpFacts
  <2>3. Len(Str!Room(b, n)) = k
    BY <2>1, <2>2, StrResizedFacts
  <2>4. PICK q : q = (n + ALIGN - 1) \div ALIGN
    OBVIOUS
  <2>5. q \in Nat /\ k = q * ALIGN
    BY <2>2, <2>4, StrBufAssumption DEF Str!RoundUp
  <2>6. q <= k
    BY <2>5, StrBufAssumption
  <2>7. Str!IsBlockSize(k)
    BY <2>2, <2>5, <2>6 DEF Str!IsBlockSize
  <2> QED
    BY <2>3, <2>7 DEF Sized
<1>2. CASE ~(n > Len(b))
  BY <1>2 DEF Str!Room
<1> QED
  BY <1>1, <1>2

LEMMA StrPutSized ==
  ASSUME NEW b \in Seq(Cell), Sized(b), NEW p, NEW s
  PROVE  Sized(Str!Put(b, p, s)) /\ Len(Str!Put(b, p, s)) = Len(b)
<1>1. PICK n \in Nat : n = Len(b)
  OBVIOUS
<1>2. Len(Str!Put(b, p, s)) = n
  BY <1>1 DEF Str!Put
<1> QED
  BY <1>1, <1>2 DEF Sized

(* A call that ends the string of block b meant to be text'. *)
LEMMA StrEndsFacts ==
  ASSUME StrBufInv, v3 = "ok", NEW b \in Seq(Cell), NEW n \in Nat, Str!Ends(b, n),
         Sized(b), BeginsWith(b, v4'), Len(v4') = n
  PROVE  StrBufInv'
<1>0. /\ v3' = IF n >= Len(b) THEN "past" ELSE "ok"
      /\ IF n < Len(b) THEN v1' = Str!Put(b, n, <<Str!NUL>>) /\ v2' = n ELSE UNCHANGED <<v1, v2>>
      /\ v5' = (v5 /\ Len(b) = Len(v1))
  BY DEF Str!Ends, Str!EndsAs
<1>a. v5' \/ Str!IsBlockSize(Len(b))
  BY <1>0 DEF Sized, StrBufInv
<1>1. CASE v3' # "ok"
  <2>1. n = Len(b) /\ v3' = "past"
    BY <1>0, <1>1 DEF BeginsWith
  <2>2. v5' \/ Str!IsBlockSize(Len(v4'))
    BY <1>a, <2>1
  <2> QED
    BY <2>1, <2>2 DEF StrBufInv, Str!HarmNeedsFullBlock
<1>2. CASE v3' = "ok"
  <2>1. n < Len(b) /\ v1' = Str!Put(b, n, <<Str!NUL>>) /\ v2' = n
    BY <1>0, <1>2
  <2>2. <<Str!NUL>> \in Seq(Cell) /\ Len(<<Str!NUL>>) = 1 /\ <<Str!NUL>>[1] = Str!NUL
    BY DEF Cell
  <2>3. /\ v1' \in Seq(Cell) /\ Len(v1') = Len(b)
        /\ \A i \in 1 .. Len(b) : v1'[i] = IF i > n /\ i <= n + 1 THEN <<Str!NUL>>[i - n] ELSE b[i]
    BY <2>1, <2>2, StrPutFacts
  <2>4. v1'[n + 1] = Str!NUL /\ \A i \in 1 .. n : v1'[i] = b[i]
    <3>1. PICK e : e = <<Str!NUL>>[1] /\ e = Str!NUL
      BY <2>2
    <3>2. PICK w : w = v1'
      OBVIOUS
    <3>3. Len(b) \in Nat /\ n + 1 \in 1 .. Len(b) /\ (n + 1) - n = 1
      BY <2>1
    <3>4. w[n + 1] = e
      BY <2>3, <3>1, <3>2, <3>3
    <3>5. \A i \in 1 .. n : w[i] = b[i]
      BY <2>3, <3>2, <3>3
    <3> QED
      BY <3>1, <3>2, <3>4, <3>5
  <2>5. BeginsWith(v1', v4')
    BY <2>1, <2>3, <2>4 DEF BeginsWith
  <2>6. Str!NoOldTail'
    BY <2>1, <2>4 DEF Str!NoOldTail
  <2>7. v5' \/ Str!IsBlockSize(Len(v1'))
    BY <1>a, <2>3
  <2> QED
    BY <1>2, <2>1, <2>5, <2>6, <2>7 DEF StrBufInv, BeginsWith, Str!HarmNeedsFullBlock
<1> QED
  BY <1>1, <1>2

(* Two strings in a row. *)
LEMMA StrConcatFacts ==
  ASSUME NEW S, NEW s \in Seq(S), NEW t \in Seq(S)
  PROVE  /\ s \o t \in Seq(S) /\ Len(s \o t) = Len(s) + Len(t)
         /\ \A i \in 1 .. Len(s) + Len(t) :
              (s \o t)[i] = IF i <= Len(s) THEN s[i] ELSE t[i - Len(s)]
  OBVIOUS

(* s put behind t in a block that begins with t. *)
LEMMA StrBehindFacts ==
  ASSUME NEW b, NEW t, BeginsWith(b, t), NEW s \in Seq(Chars), Len(t) + Len(s) <= Len(b)
  PROVE  BeginsWith(Str!Put(b, Len(t), s), t \o s)
<1>1. b \in Seq(Cell) /\ t \in Seq(Chars) /\ s \in Seq(Cell)
  BY DEF BeginsWith, Cell
<1>2. Len(t) \in Nat /\ Len(s) \in Nat /\ Len(b) \in Nat
  BY <1>1
<1>3. PICK r : r = t \o s
  OBVIOUS
<1>4. /\ r \in Seq(Chars) /\ Len(r) = Len(t) + Len(s)
      /\ \A i \in 1 .. Len(t) + Len(s) : r[i] = IF i <= Len(t) THEN t[i] ELSE s[i - Len(t)]
  BY <1>1, <1>3, StrConcatFacts
<1>5. PICK c : c = Str!Put(b, Len(t), s)
  OBVIOUS
<1>6. /\ c \in Seq(Cell) /\ Len(c) = Len(b)
      /\ \A i \in 1 .. Len(b) : c[i] = IF i > Len(t) /\ i <= Len(t) + Len(s) THEN s[i - Len(t)] ELSE b[i]
  BY <1>1, <1>2, <1>5, StrPutFacts
<1>7. \A i \in 1 .. Len(t) : b[i] = t[i]
  BY DEF BeginsWith
<1>8. ASSUME NEW i \in 1 .. Len(r) PROVE c[i] = r[i]
  BY <1>2, <1>4, <1>6, <1>7
<1>9. BeginsWith(c, r)
  BY <1>2, <1>4, <1>6, <1>8 DEF BeginsWith
<1> QED
  BY <1>3, <1>5, <1>9

LEMMA StrRoomBegins ==
  ASSUME NEW b, NEW t, BeginsWith(b, t), NEW n \in Nat
  PROVE  BeginsWith(Str!Room(b, n), t) /\ Len(Str!Room(b, n)) >= n /\ Len(Str!Room(b, n)) >= Len(b)
<1>1. /\ b \in Seq(Cell) /\ t \in Seq(Chars) /\ Len(t) <= Len(b)
      /\ \A i \in 1 .. Len(t) : b[i] = t[i]
  BY DEF BeginsWith
<1>2. Len(b) \in Nat /\ Len(t) \in Nat
  BY <1>1
<1>3. PICK r : r = Str!Room(b, n)
  OBVIOUS
<1>4. /\ r \in Seq(Cell) /\ Len(r) >= n /\ Len(r) >= Len(b)
      /\ \A i \in 1 .. Len(r) : r[i] = IF i <= Len(b) THEN b[i] ELSE Str!JUNK
  BY <1>1, <1>3, StrRoomFacts
<1>5. BeginsWith(r, t)
  BY <1>1, <1>2, <1>4 DEF BeginsWith
<1> QED
  BY <1>3, <1>4, <1>5

(* The initial part of a string. *)
LEMMA StrPrefixBegins ==
  ASSUME NEW b, NEW t, BeginsWith(b, t), NEW n \in Nat, n <= Len(t)
  PROVE  BeginsWith(b, SubSeq(t, 1, n)) /\ Len(SubSeq(t, 1, n)) = n
<1>1. t \in Seq(Chars) /\ \A i \in 1 .. Len(t) : b[i] = t[i]
  BY DEF BeginsWith
<1>2. PICK r : r = SubSeq(t, 1, n)
  OBVIOUS
<1>3. r \in Seq(Chars) /\ Len(r) = n /\ \A i \in 1 .. n : r[i] = t[i]
  BY <1>1, <1>2, PrefixFacts
<1>4. BeginsWith(b, r)
  BY <1>1, <1>3 DEF BeginsWith
<1> QED
  BY <1>2, <1>3, <1>4

(* r is s, of length a, and t, of length l, in a row. *)
InRow(r, s, t, a, l) ==
  /\ Len(r) = a + l
  /\ \A i \in 1 .. a : r[i] = s[i]
  /\ \A i \in 1 .. l : r[a + i] = t[i]

(* k is the part of s of length n behind p. *)
IsPart(k, s, p, n) == Len(k) = n /\ \A i \in 1 .. n : k[i] = s[p + i]

(* c is b, of length l, with s, of length m, at p. *)
IsPut(c, b, p, s, m, l) ==
  /\ Len(c) = l
  /\ \A i \in 1 .. p : c[i] = b[i]
  /\ \A i \in 1 .. m : c[p + i] = s[i]
  /\ \A i \in 1 .. l : i > p + m => c[i] = b[i]

LEMMA StrRowFacts ==
  ASSUME NEW S, NEW s \in Seq(S), NEW t \in Seq(S)
  PROVE  s \o t \in Seq(S) /\ InRow(s \o t, s, t, Len(s), Len(t))
<1>0. Len(s) \in Nat /\ Len(t) \in Nat
  OBVIOUS
<1>a. PICK r : r = s \o t
  OBVIOUS
<1>1. PICK a \in Nat, l \in Nat : a = Len(s) /\ l = Len(t)
  BY <1>0
<1>2. /\ r \in Seq(S) /\ Len(r) = a + l
      /\ \A i \in 1 .. a + l : r[i] = IF i <= a THEN s[i] ELSE t[i - a]
  BY <1>a, <1>1
<1>3. ASSUME NEW i \in 1 .. l PROVE r[a + i] = t[i]
  <2>1. a + i \in 1 .. a + l /\ ~(a + i <= a) /\ (a + i) - a = i
    OBVIOUS
  <2>2. r[a + i] = t[(a + i) - a]
    BY <2>1, <1>2
  <2> QED
    BY <2>1, <2>2
<1>4. InRow(r, s, t, a, l)
  BY <1>2, <1>3 DEF InRow
<1> QED
  BY <1>a, <1>1, <1>2, <1>4

LEMMA StrPartFacts ==
  ASSUME NEW S, NEW s \in Seq(S), NEW p \in Nat, p <= Len(s)
  PROVE  /\ SubSeq(s, 1, p) \in Seq(S) /\ IsPart(SubSeq(s, 1, p), s, 0, p)
         /\ SubSeq(s, p + 1, Len(s)) \in Seq(S)
         /\ IsPart(SubSeq(s, p + 1, Len(s)), s, p, Len(s) - p)
  BY PrefixFacts, SuffixFacts DEF IsPart

LEMMA StrCellsPart ==
  ASSUME NEW S, NEW b \in Seq(S), NEW p \in Nat, NEW n \in Nat, p + n <= Len(b)
  PROVE  Str!Cells(b, p, n) \in Seq(S) /\ IsPart(Str!Cells(b, p, n), b, p, n)
  BY StrCellsFacts DEF IsPart

LEMMA StrPutAt ==
  ASSUME NEW b \in Seq(Cell), NEW p \in Nat, NEW s \in Seq(Cell), p + Len(s) <= Len(b)
  PROVE  Str!Put(b, p, s) \in Seq(Cell) /\ IsPut(Str!Put(b, p, s), b, p, s, Len(s), Len(b))
<1>0. Len(s) \in Nat /\ Len(b) \in Nat
  OBVIOUS
<1>a. PICK c : c = Str!Put(b, p, s)
  OBVIOUS
<1>1. PICK m \in Nat, l \in Nat : m = Len(s) /\ l = Len(b)
  BY <1>0
<1>2. /\ c \in Seq(Cell) /\ Len(c) = l
      /\ \A i \in 1 .. l : c[i] = IF i > p /\ i <= p + m THEN s[i - p] ELSE b[i]
  BY <1>a, <1>1, StrPutFacts
<1>3. ASSUME NEW i \in 1 .. m PROVE c[p + i] = s[i]
  <2>1. p + i \in 1 .. l /\ p + i > p /\ p + i <= p + m /\ (p + i) - p = i
    BY <1>1
  <2> QED
    BY <2>1, <1>2
<1>4. ASSUME NEW i \in 1 .. p PROVE c[i] = b[i]
  <2>1. i \in 1 .. l /\ ~(i > p)
    BY <1>1
  <2> QED
    BY <1>2, <2>1
<1>5. ASSUME NEW i \in 1 .. l, i > p + m PROVE c[i] = b[i]
  BY <1>2, <1>5
<1>6. IsPut(c, b, p, s, m, l)
  BY <1>2, <1>3, <1>4, <1>5 DEF IsPut
<1> QED
  BY <1>a, <1>1, <1>2, <1>6

(* The string t with s put in behind its first a characters. *)
Spliced(t, a, s) == SubSeq(t, 1, a) \o s \o SubSeq(t, a + 1, Len(t))

(* The tail is moved by the length of s and s is copied into the gap. *)
LEMMA StrInsertedFacts ==
  ASSUME NEW b, NEW t, BeginsWith(b, t), NEW s \in Seq(Chars), NEW a \in Nat,
         a <= Len(t), Len(t) + Len(s) <= Len(b)
  PROVE  /\ BeginsWith(Str!Inserted(b, Len(t), a, s), Spliced(t, a, s))
         /\ Len(Spliced(t, a, s)) = Len(t) + Len(s)
<1>1. /\ b \in Seq(Cell) /\ t \in Seq(Chars) /\ s \in Seq(Cell)
      /\ \A i \in 1 .. Len(t) : b[i] = t[i]
  BY DEF BeginsWith, Cell
<1>0. Len(t) \in Nat /\ Len(s) \in Nat /\ Len(b) \in Nat
  BY <1>1
<1>a. PICK n \in Nat : n = Len(t)
  BY <1>0
<1>b. PICK m \in Nat : m = Len(s)
  BY <1>0
<1>c. PICK z \in Nat : z = Len(b)
  BY <1>0
<1>d. PICK l \in Nat : l = n - a
  <2>1. n - a \in Nat
    BY <1>a
  <2> QED
    BY <2>1
<1>2. /\ n = Len(t) /\ m = Len(s) /\ z = Len(b)
      /\ a + l = n /\ n + m <= z /\ n - a = l
  BY <1>a, <1>b, <1>c, <1>d
<1>3. PICK h, u : h = SubSeq(t, 1, a) /\ u = SubSeq(t, a + 1, Len(t))
  OBVIOUS
<1>4. h \in Seq(Chars) /\ u \in Seq(Chars) /\ IsPart(h, t, 0, a) /\ IsPart(u, t, a, l)
  BY <1>1, <1>2, <1>3, StrPartFacts
<1>5. PICK x, r : x = h \o s /\ r = x \o u
  OBVIOUS
<1>6. x \in Seq(Chars) /\ InRow(x, h, s, a, m)
  BY <1>2, <1>4, <1>5, StrRowFacts DEF IsPart
<1>7. r \in Seq(Chars) /\ InRow(r, x, u, a + m, l)
  <2>1. Len(x) = a + m /\ Len(u) = l
    BY <1>4, <1>6 DEF IsPart, InRow
  <2>2. r \in Seq(Chars) /\ InRow(r, x, u, Len(x), Len(u))
    BY <1>4, <1>5, <1>6, StrRowFacts
  <2> QED
    BY <2>1, <2>2
<1>8. PICK k : k = Str!Cells(b, a, n - a)
  OBVIOUS
<1>9. k \in Seq(Cell) /\ IsPart(k, b, a, l)
  <2>1. k = Str!Cells(b, a, l) /\ a + l <= Len(b)
    BY <1>2, <1>8
  <2> QED
    BY <1>1, <1>2, <2>1, StrCellsPart
<1>10. PICK c, d : c = Str!Put(b, a + m, k) /\ d = Str!Put(c, a, s)
  OBVIOUS
<1>11. c \in Seq(Cell) /\ IsPut(c, b, a + m, k, l, z)
  <2>1. a + m \in Nat /\ Len(k) = l /\ (a + m) + l <= z
    BY <1>2, <1>9 DEF IsPart
  <2> QED
    BY <1>1, <1>2, <1>9, <1>10, <2>1, StrPutAt
<1>12. d \in Seq(Cell) /\ IsPut(d, c, a, s, m, z)
  <2>1. Len(c) = z /\ a + m <= z
    BY <1>2, <1>11 DEF IsPut
  <2> QED
    BY <1>1, <1>2, <1>10, <1>11, <2>1, StrPutAt
<1>13. ASSUME NEW i \in 1 .. a + m + l PROVE d[i] = r[i]
  <2>1. CASE i <= a
    <3>1. i \in 1 .. a /\ i \in 1 .. n /\ i \in 1 .. a + m /\ 0 + i = i
      BY <2>1, <1>2
    <3>2. d[i] = c[i] /\ c[i] = b[i]
      BY <3>1, <1>11, <1>12 DEF IsPut
    <3>3. r[i] = x[i] /\ x[i] = h[i]
      BY <3>1, <1>6, <1>7 DEF InRow
    <3>4. h[i] = t[0 + i]
      BY <3>1, <1>4 DEF IsPart
    <3> QED
      BY <3>1, <3>2, <3>3, <3>4, <1>1, <1>2
  <2>2. CASE i > a /\ i <= a + m
    <3>1. PICK j \in 1 .. m : i = a + j
      <4>1. i - a \in 1 .. m /\ i = a + (i - a)
        BY <2>2
      <4> QED
        BY <4>1
    <3>2. d[i] = s[j]
      BY <3>1, <1>12 DEF IsPut
    <3>3. r[i] = x[i]
      BY <2>2, <1>7 DEF InRow
    <3>4. x[i] = s[j]
      BY <3>1, <1>6 DEF InRow
    <3> QED
      BY <3>2, <3>3, <3>4
  <2>3. CASE i > a + m
    <3>1. PICK j \in 1 .. l : i = (a + m) + j
      <4>1. i - (a + m) \in 1 .. l /\ i = (a + m) + (i - (a + m))
        BY <2>3
      <4> QED
        BY <4>1
    <3>2. r[i] = u[j]
      BY <3>1, <1>7 DEF InRow
    <3>3. u[j] = t[a + j] /\ k[j] = b[a + j]
      BY <3>1, <1>4, <1>9 DEF IsPart
    <3>4. i \in 1 .. z /\ a + j \in 1 .. n
      BY <3>1, <1>2
    <3>5. d[i] = c[i]
      BY <3>4, <2>3, <1>12 DEF IsPut
    <3>6. c[i] = k[j]
      BY <3>1, <1>11 DEF IsPut
    <3> QED
      BY <3>2, <3>3, <3>4, <3>5, <3>6, <1>1, <1>2
  <2> QED
    BY <2>1, <2>2, <2>3
<1>14. Len(r) = a + m + l /\ Len(d) = z /\ a + m + l = n + m
  <2>1. Len(r) = a + m + l
    BY <1>7 DEF InRow
  <2>2. Len(d) = z
    BY <1>12 DEF IsPut
  <2> QED
    BY <2>1, <2>2, <1>2
<1>15. BeginsWith(d, r)
  BY <1>2, <1>7, <1>12, <1>13, <1>14 DEF BeginsWith
<1>16. d = Str!Inserted(b, Len(t), a, s)
  BY <1>2, <1>8, <1>10 DEF Str!Inserted
<1>17. r = Spliced(t, a, s)
  BY <1>3, <1>5 DEF Spliced
<1> QED
  BY <1>2, <1>14, <1>15, <1>16, <1>17

LEMMA StrInsertedSized ==
  ASSUME NEW b, NEW t, BeginsWith(b, t), NEW s \in Seq(Chars), NEW a \in Nat,
         a <= Len(t), Sized(b)
  PROVE  Sized(Str!Inserted(b, Len(t), a, s))
<1>1. PICK n \in Nat : n = Len(b)
  BY DEF BeginsWith
<1>2. PICK k : k = Str!Cells(b, a, Len(t) - a)
  OBVIOUS
<1>3. PICK c, d : c = Str!Put(b, a + Len(s), k) /\ d = Str!Put(c, a, s)
  OBVIOUS
<1>4. Len(c) = n
  BY <1>1, <1>3 DEF Str!Put
<1>5. Len(d) = n
  BY <1>3, <1>4 DEF Str!Put
<1>6. d = Str!Inserted(b, Len(t), a, s)
  BY <1>2, <1>3 DEF Str!Inserted
<1> QED
  BY <1>1, <1>5, <1>6 DEF Sized

LEMMA StrWholeFacts ==
  ASSUME NEW S, NEW t \in Seq(S)
  PROVE  /\ SubSeq(t, 1, Len(t)) = t /\ SubSeq(t, 1, 0) = <<>>
         /\ <<>> \o t = t /\ t \o <<>> = t /\ Len(<<>>) = 0
         /\ \A i, j \in Int : i > j => SubSeq(t, i, j) = <<>>
  OBVIOUS

LEMMA StrEmptyBegins ==
  ASSUME NEW b \in Seq(Cell)
  PROVE  BeginsWith(b, <<>>)
  BY DEF BeginsWith

(* What the first cells hold is what the string says. *)
LEMMA StrCellsAreText ==
  ASSUME NEW b, NEW t, BeginsWith(b, t), NEW p \in Nat, NEW n \in Nat, p + n = Len(t)
  PROVE  Str!Cells(b, p, n) = SubSeq(t, p + 1, Len(t))
<1>1. b \in Seq(Cell) /\ t \in Seq(Chars) /\ Len(t) \in Nat /\ p + n <= Len(b)
  BY DEF BeginsWith
<1>2. PICK k, u : k = Str!Cells(b, p, n) /\ u = SubSeq(t, p + 1, Len(t))
  OBVIOUS
<1>3. k \in Seq(Cell) /\ IsPart(k, b, p, n)
  BY <1>1, <1>2, StrCellsPart
<1>4. u \in Seq(Chars) /\ IsPart(u, t, p, n)
  <2>1. p <= Len(t) /\ Len(t) - p = n
    BY <1>1
  <2> QED
    BY <1>1, <1>2, <2>1, StrPartFacts
<1>5. u \in Seq(Cell)
  BY <1>4 DEF Cell
<1>6. ASSUME NEW i \in 1 .. n PROVE k[i] = u[i]
  <2>1. k[i] = b[p + i] /\ u[i] = t[p + i]
    BY <1>3, <1>4 DEF IsPart
  <2>2. p + i \in 1 .. Len(t)
    BY <1>1
  <2> QED
    BY <2>1, <2>2 DEF BeginsWith
<1>7. k = u
  BY <1>3, <1>4, <1>5, <1>6, SeqEqual DEF IsPart
<1> QED
  BY <1>2, <1>7

(* strbuf_insert *)
LEMMA StrInsertStep ==
  ASSUME StrBufInv, v3 = "ok", NEW b, NEW t, BeginsWith(b, t), Sized(b), NEW index \in Nat,
         NEW s \in Seq(Chars), NEW n, n = Len(t), Str!InsertInto(b, n, index, s, "ok"),
         v4' = Str!With(t, index, s)
  PROVE  StrBufInv'
<1>1. b \in Seq(Cell) /\ t \in Seq(Chars) /\ n \in Nat /\ Len(s) \in Nat
  BY DEF BeginsWith
<1>a. PICK m \in Nat : m = Len(s)
  BY <1>1
<1>2. PICK gap \in Nat : gap = IF index > n THEN index - n ELSE 0
  <2>1. (IF index > n THEN index - n ELSE 0) \in Nat
    BY <1>1
  <2> QED
    BY <2>1
<1>3. PICK fill : fill = [i \in 1 .. gap |-> BLANK] /\ fill = Str!Fill(n, index)
  BY <1>2 DEF Str!Fill
<1>4. fill \in Seq(Chars) /\ Len(fill) = gap
  BY <1>3, StrBufAssumption
<1>5. PICK end \in Nat : end = n + m + gap
  <2>1. n + m + gap \in Nat
    BY <1>1
  <2> QED
    BY <2>1
<1>6. PICK r : r = Str!Room(b, end)
  OBVIOUS
<1>7. BeginsWith(r, t) /\ Len(r) >= end /\ r \in Seq(Cell) /\ Sized(r)
  <2>1. Sized(r)
    BY <1>1, <1>6, StrRoomSized
  <2>2. BeginsWith(r, t) /\ Len(r) >= end
    BY <1>1, <1>6, StrRoomBegins
  <2> QED
    BY <2>1, <2>2 DEF BeginsWith
<1>b. fill # <<>> <=> gap > 0
  <2>1. fill = <<>> <=> Len(fill) = 0
    BY <1>4, EmptySeq
  <2>2. gap = 0 <=> ~(gap > 0)
    OBVIOUS
  <2> QED
    BY <1>4, <2>1, <2>2, Zenon
<1>8. /\ Str!Ends(IF gap > 0 THEN Str!Put(Str!Put(r, n, fill), index, s) ELSE Str!Inserted(r, n, index, s), end)
      /\ v4' = SubSeq(t, 1, Str!Least(index, n)) \o fill \o s \o SubSeq(t, index + 1, Len(t))
  <2>1. n + Len(s) + Len(fill) = end
    BY <1>a, <1>4, <1>5
  <2>2. Str!EndsAs(IF fill # <<>> THEN Str!Put(Str!Put(r, n, fill), index, s)
                   ELSE Str!Inserted(r, n, index, s), end, "ok")
    BY <1>3, <1>6, <2>1 DEF Str!InsertInto
  <2>3. v4' = SubSeq(t, 1, Str!Least(index, n)) \o fill \o s \o SubSeq(t, index + 1, Len(t))
    BY <1>3 DEF Str!With
  <2> QED
    BY <1>b, <2>2, <2>3 DEF Str!Ends
<1>9. CASE gap > 0
  <2>1. index = n + gap /\ index > n /\ Str!Least(index, n) = n
    BY <1>1, <1>2, <1>9 DEF Str!Least
  <2>2. v4' = (t \o fill) \o s
    <3>1. index + 1 > Len(t) /\ index + 1 \in Int /\ Len(t) \in Int
      BY <1>1, <2>1
    <3>2. SubSeq(t, index + 1, Len(t)) = <<>> /\ SubSeq(t, 1, Len(t)) = t
      BY <1>1, <3>1, StrWholeFacts
    <3>3. t \o fill \o s \in Seq(Chars)
      BY <1>1, <1>4
    <3>4. (t \o fill \o s) \o <<>> = t \o fill \o s
      BY <3>3, StrWholeFacts
    <3> QED
      BY <1>8, <2>1, <3>2, <3>4
  <2>3. PICK c, u : c = Str!Put(r, n, fill) /\ u = t \o fill
    OBVIOUS
  <2>4. BeginsWith(c, u) /\ Len(u) = index /\ Len(c) = Len(r) /\ u \in Seq(Chars)
    <3>1. Len(t) + Len(fill) <= Len(r)
      BY <1>1, <1>4, <1>5, <1>7, <1>a
    <3>2. BeginsWith(c, u)
      BY <1>4, <1>7, <2>3, <3>1, StrBehindFacts
    <3>3. Len(c) = Len(r)
      <4>1. fill \in Seq(Cell)
        BY <1>4 DEF Cell
      <4> QED
        BY <1>1, <1>7, <2>3, <4>1, StrPutFacts
    <3>4. u \in Seq(Chars) /\ Len(u) = n + gap
      <4>1. u \in Seq(Chars) /\ InRow(u, t, fill, Len(t), Len(fill))
        BY <1>1, <1>4, <2>3, StrRowFacts
      <4> QED
        BY <4>1, <1>4 DEF InRow
    <3> QED
      BY <2>1, <3>2, <3>3, <3>4
  <2>5. PICK d, v : d = Str!Put(c, index, s) /\ v = u \o s
    OBVIOUS
  <2>6. BeginsWith(d, v) /\ Len(v) = end
    <3>1. Len(u) + Len(s) <= Len(c)
      BY <1>a, <1>1, <1>5, <1>7, <2>1, <2>4
    <3>2. BeginsWith(d, v)
      BY <2>4, <2>5, <3>1, StrBehindFacts
    <3>3. InRow(v, u, s, Len(u), Len(s))
      BY <2>4, <2>5, StrRowFacts
    <3>4. Len(v) = index + m
      BY <3>3, <2>4, <1>a DEF InRow
    <3> QED
      BY <1>1, <1>5, <2>1, <3>2, <3>4
  <2>7. Str!Ends(d, end) /\ v4' = v
    BY <1>8, <1>9, <2>2, <2>3, <2>5
  <2>8. d \in Seq(Cell) /\ c \in Seq(Cell)
    BY <2>4, <2>6 DEF BeginsWith
  <2>9. Sized(d)
    BY <1>7, <2>3, <2>5, <2>8, StrPutSized
  <2> QED
    BY <2>6, <2>7, <2>8, <2>9, StrEndsFacts
<1>10. CASE ~(gap > 0)
  <2>1. index <= n /\ gap = 0
    BY <1>1, <1>2, <1>10
  <2>9. end = n + m /\ Str!Least(index, n) = index
    BY <1>1, <1>5, <2>1 DEF Str!Least
  <2>2. v4' = SubSeq(t, 1, index) \o s \o SubSeq(t, index + 1, Len(t))
    <3>1. fill = <<>>
      BY <1>4, <2>1
    <3>2. SubSeq(t, 1, index) \in Seq(Chars)
      BY <1>1, <2>1, PrefixFacts
    <3>3. SubSeq(t, 1, index) \o <<>> = SubSeq(t, 1, index)
      BY <3>2, StrWholeFacts
    <3> QED
      BY <1>8, <2>9, <3>1, <3>3
  <2>3. PICK d : d = Str!Inserted(r, n, index, s)
    OBVIOUS
  <2>4. BeginsWith(d, v4') /\ Len(v4') = end
    <3>1. index <= Len(t) /\ Len(t) + Len(s) <= Len(r) /\ Len(t) + Len(s) = end
      BY <1>a, <1>1, <1>7, <2>1, <2>9
    <3>2. /\ BeginsWith(Str!Inserted(r, Len(t), index, s), Spliced(t, index, s))
          /\ Len(Spliced(t, index, s)) = Len(t) + Len(s)
      BY <1>7, <3>1, StrInsertedFacts
    <3>3. v4' = Spliced(t, index, s)
      BY <2>2 DEF Spliced
    <3> QED
      BY <2>3, <3>1, <3>2, <3>3
  <2>5. Str!Ends(d, end) /\ d \in Seq(Cell)
    BY <1>8, <1>10, <2>3, <2>4 DEF BeginsWith
  <2>6. Sized(d)
    BY <1>7, <2>1, <2>3, StrInsertedSized
  <2> QED
    BY <2>4, <2>5, <2>6, StrEndsFacts
<1> QED
  BY <1>9, <1>10

LEMMA StrStringsFacts == \A s \in Str!Strings : s \in Seq(Chars)
<1> SUFFICES ASSUME NEW s \in Str!Strings PROVE s \in Seq(Chars)
  OBVIOUS
<1>1. PICK n \in 0 .. 2 : s \in [1 .. n -> Chars]
  BY DEF Str!Strings
<1>2. n \in Nat
  OBVIOUS
<1> QED
  BY <1>1, <1>2

LEMMA StrInvFacts ==
  ASSUME StrBufInv, Str!Usable
  PROVE  /\ v3 = "ok" /\ BeginsWith(v1, v4) /\ v2 = Len(v4) /\ Str!NoOldTail
         /\ v1 \in Seq(Cell) /\ v4 \in Seq(Chars) /\ v2 \in Nat
         /\ v2 <= Len(v1) /\ Str!Content = v4
<1>1. /\ v3 = "ok" /\ BeginsWith(v1, v4) /\ v2 = Len(v4) /\ Str!NoOldTail
      /\ v1 \in Seq(Cell) /\ v4 \in Seq(Chars) /\ v2 \in Nat /\ v2 <= Len(v1)
  BY DEF StrBufInv, Str!Usable, BeginsWith
<1>2. Str!Cells(v1, 0, v2) = SubSeq(v4, 0 + 1, Len(v4))
  BY <1>1, StrCellsAreText
<1>3. SubSeq(v4, 0 + 1, Len(v4)) = v4
  BY <1>1, StrWholeFacts
<1> QED
  BY <1>1, <1>2, <1>3 DEF Str!Content

(* s put at the start of a block *)
LEMMA StrAtStart ==
  ASSUME NEW b \in Seq(Cell), NEW s \in Seq(Chars), Len(s) <= Len(b)
  PROVE  BeginsWith(Str!Put(b, 0, s), s)
<1>1. PICK t : t = <<>>
  OBVIOUS
<1>2. BeginsWith(b, t) /\ Len(t) = 0 /\ t \o s = s
  BY <1>1, StrEmptyBegins, StrWholeFacts
<1>3. Len(t) + Len(s) <= Len(b)
  BY <1>2
<1>4. BeginsWith(Str!Put(b, Len(t), s), t \o s)
  BY <1>2, <1>3, StrBehindFacts
<1> QED
  BY <1>2, <1>4

LEMMA StrSetStep ==
  ASSUME StrBufInv, NEW s \in Str!Strings, Str!Set(s)
  PROVE  StrBufInv'
<1>1. s \in Seq(Chars) /\ Len(s) \in Nat
  BY StrStringsFacts
<1>2. v3 = "ok" /\ v1 \in Seq(Cell)
  BY StrInvFacts DEF Str!Set
<1>3. CASE Str!Fails
  BY <1>3, StrStutters DEF Str!Fails
<1>4. CASE Str!Ends(Str!Put(Str!Room(v1, Len(s)), 0, s), Len(s)) /\ v4' = s
  <2>1. PICK r : r = Str!Room(v1, Len(s))
    OBVIOUS
  <2>2. r \in Seq(Cell) /\ Len(r) >= Len(s)
    BY <1>1, <1>2, <2>1, StrRoomFacts
  <2>3. PICK c : c = Str!Put(r, 0, s)
    OBVIOUS
  <2>4. BeginsWith(c, s)
    BY <1>1, <2>2, <2>3, StrAtStart
  <2>5. Str!Ends(c, Len(s)) /\ c \in Seq(Cell)
    BY <1>4, <2>1, <2>3, <2>4 DEF BeginsWith
  <2>6. Sized(c)
    <3>1. Sized(v1)
      BY DEF Sized
    <3>2. Sized(r)
      BY <1>1, <1>2, <2>1, <3>1, StrRoomSized
    <3> QED
      BY <2>2, <2>3, <3>2, StrPutSized
  <2> QED
    BY <1>1, <1>2, <1>4, <2>4, <2>5, <2>6, StrEndsFacts
<1> QED
  BY <1>3, <1>4 DEF Str!Set

LEMMA StrAppendStep ==
  ASSUME StrBufInv, NEW s \in Str!Strings, Str!AppendStr(s)
  PROVE  StrBufInv'
<1>1. s \in Seq(Chars) /\ Len(s) \in Nat
  BY StrStringsFacts
<1>2. /\ v3 = "ok" /\ BeginsWith(v1, v4) /\ v4 \in Seq(Chars) /\ v2 = Len(v4)
      /\ v2 \in Nat
  BY StrInvFacts DEF Str!AppendStr
<1>3. CASE Str!Fails
  BY <1>3, StrStutters DEF Str!Fails
<1>4. CASE Str!Ends(Str!Put(Str!Room(v1, v2 + Len(s)), v2, s), v2 + Len(s)) /\ v4' = v4 \o s
  <2>1. PICK n \in Nat : n = v2 + Len(s)
    <3>1. v2 + Len(s) \in Nat
      BY <1>1, <1>2
    <3> QED
      BY <3>1
  <2>2. PICK r : r = Str!Room(v1, n)
    OBVIOUS
  <2>3. BeginsWith(r, v4) /\ Len(r) >= n
    BY <1>2, <2>2, StrRoomBegins
  <2>4. PICK c : c = Str!Put(r, Len(v4), s)
    OBVIOUS
  <2>5. PICK v : v = v4 \o s
    OBVIOUS
  <2>6. BeginsWith(c, v)
    <3>1. Len(v4) + Len(s) <= Len(r)
      BY <1>2, <2>1, <2>3
    <3> QED
      BY <1>1, <2>3, <2>4, <2>5, <3>1, StrBehindFacts
  <2>7. Len(v) = n
    <3>1. InRow(v, v4, s, Len(v4), Len(s))
      BY <1>1, <1>2, <2>5, StrRowFacts
    <3> QED
      BY <1>2, <2>1, <3>1 DEF InRow
  <2>8. Str!Ends(c, n) /\ v4' = v /\ c \in Seq(Cell)
    BY <1>2, <1>4, <2>1, <2>2, <2>4, <2>5, <2>6 DEF BeginsWith
  <2>9. Sized(c)
    <3>1. Sized(v1) /\ v1 \in Seq(Cell) /\ r \in Seq(Cell)
      BY <1>2, <2>3 DEF Sized, BeginsWith
    <3>2. Sized(r)
      BY <2>2, <3>1, StrRoomSized
    <3> QED
      BY <2>4, <3>1, <3>2, StrPutSized
  <2> QED
    BY <1>2, <2>1, <2>6, <2>7, <2>8, <2>9, StrEndsFacts
<1> QED
  BY <1>3, <1>4 DEF Str!AppendStr

LEMMA StrInsertOrFail ==
  ASSUME StrBufInv, NEW s \in Str!Strings, NEW index \in Nat, Str!Insert(index, s)
  PROVE  StrBufInv'
<1>1. s \in Seq(Chars)
  BY StrStringsFacts
<1>2. v3 = "ok" /\ BeginsWith(v1, v4) /\ v2 = Len(v4)
  BY StrInvFacts DEF Str!Insert
<1>3. CASE Str!Fails
  BY <1>3, StrStutters DEF Str!Fails
<1>4. CASE Str!InsertInto(v1, v2, index, s, "ok") /\ v4' = Str!With(v4, index, s)
  <2>1. Sized(v1)
    BY DEF Sized
  <2> QED
    BY <1>1, <1>2, <1>4, <2>1, StrInsertStep
<1> QED
  BY <1>3, <1>4 DEF Str!Insert

LEMMA StrPrependStep ==
  ASSUME StrBufInv, NEW n, Str!PrependSelf(n)
  PROVE  StrBufInv'
<1>1. /\ v3 = "ok" /\ BeginsWith(v1, v4) /\ v4 \in Seq(Chars) /\ v2 = Len(v4)
      /\ v2 \in Nat /\ v1 \in Seq(Cell)
  BY StrInvFacts DEF Str!PrependSelf
<1>2. n \in Nat /\ n <= v2
  BY <1>1 DEF Str!PrependSelf
<1>3. CASE Str!NoMemory(v2 + n)
  BY <1>3, StrOther DEF Str!PrependSelf
<1>4. CASE ~Str!NoMemory(v2 + n)
  <2>1. /\ Str!Ends(Str!Inserted(v1, v2, 0, Str!Cells(v1, 0, n)), v2 + n)
        /\ v4' = SubSeq(v4, 1, n) \o v4
    BY <1>4 DEF Str!PrependSelf
  <2>2. PICK h : h = SubSeq(v4, 1, n)
    OBVIOUS
  <2>3. h \in Seq(Chars) /\ Len(h) = n /\ BeginsWith(v1, h)
    BY <1>1, <1>2, <2>2, PrefixFacts, StrPrefixBegins
  <2>4. Str!Cells(v1, 0, n) = h
    <3>1. Str!Cells(v1, 0, n) = SubSeq(h, 0 + 1, Len(h))
      <4>1. 0 \in Nat /\ 0 + n = Len(h)
        BY <1>2, <2>3
      <4> QED
        BY <1>2, <2>3, <4>1, StrCellsAreText
    <3> QED
      BY <2>3, <3>1, StrWholeFacts
  <2>5. Len(v4) + Len(h) <= Len(v1) /\ Len(v4) + Len(h) = v2 + n
    BY <1>1, <1>2, <1>4, <2>3 DEF Str!NoMemory
  <2>6. PICK w : w = Spliced(v4, 0, h)
    OBVIOUS
  <2>7. w = h \o v4
    BY <1>1, <2>3, <2>6, StrWholeFacts DEF Spliced
  <2>8. PICK d : d = Str!Inserted(v1, v2, 0, h)
    OBVIOUS
  <2>9. BeginsWith(d, w) /\ Len(w) = v2 + n
    <3>1. /\ BeginsWith(Str!Inserted(v1, Len(v4), 0, h), w)
          /\ Len(w) = Len(v4) + Len(h)
      <4>1. 0 \in Nat /\ 0 <= Len(v4)
        BY <1>1
      <4> QED
        BY <1>1, <2>3, <2>5, <2>6, <4>1, StrInsertedFacts, Zenon
    <3> QED
      BY <1>1, <2>5, <2>8, <3>1
  <2>10. Str!Ends(d, v2 + n) /\ v4' = w
    BY <2>1, <2>2, <2>4, <2>7, <2>8
  <2>11. d \in Seq(Cell) /\ v2 + n \in Nat
    BY <1>1, <1>2, <2>9 DEF BeginsWith
  <2>12. Sized(d)
    <3>1. Sized(v1) /\ 0 \in Nat /\ 0 <= Len(v4)
      BY <1>1 DEF Sized
    <3>2. Sized(Str!Inserted(v1, Len(v4), 0, h))
      BY <1>1, <2>3, <3>1, StrInsertedSized
    <3> QED
      BY <1>1, <2>8, <3>2
  <2> QED
    BY <1>1, <2>9, <2>10, <2>11, <2>12, StrEndsFacts
<1> QED
  BY <1>3, <1>4
LEMMA StrTruncateStep ==
  ASSUME StrBufInv, NEW n \in Nat, Str!Truncate(n)
  PROVE  StrBufInv'
<1>1. v3 = "ok" /\ BeginsWith(v1, v4) /\ v2 = Len(v4) /\ v2 \in Nat /\ v1 \in Seq(Cell)
  BY StrInvFacts DEF Str!Truncate
<1>2. n <= Len(v4) /\ Str!Ends(v1, n) /\ v4' = SubSeq(v4, 1, n)
  BY <1>1 DEF Str!Truncate
<1>3. BeginsWith(v1, v4') /\ Len(v4') = n /\ Sized(v1)
  BY <1>1, <1>2, StrPrefixBegins DEF Sized
<1> QED
  BY <1>1, <1>2, <1>3, StrEndsFacts

(* The block after strbuf_remove begins with what is left of the string. *)
LEMMA StrRemovedFacts ==
  ASSUME StrBufInv, Str!Usable, NEW index \in Nat, NEW n \in Nat, index < v2
  PROVE  /\ BeginsWith(Str!Removed(index, n).b, Str!Without(v4, index, n))
         /\ Len(Str!Without(v4, index, n)) = Str!Removed(index, n).n
         /\ Str!Without(v4, index, n) \in Seq(Chars) /\ Str!Removed(index, n).b \in Seq(Cell)
         /\ Str!Removed(index, n).n \in Nat /\ Len(Str!Removed(index, n).b) = Len(v1)
<1>1. /\ v3 = "ok" /\ BeginsWith(v1, v4) /\ v4 \in Seq(Chars) /\ v2 = Len(v4)
      /\ v2 \in Nat /\ v1 \in Seq(Cell) /\ v2 <= Len(v1) /\ Len(v1) \in Nat
  BY StrInvFacts
<1>2. PICK h, u : h = SubSeq(v4, 1, index) /\ u = SubSeq(v4, index + n + 1, Len(v4))
  OBVIOUS
<1>3. h \in Seq(Chars) /\ Len(h) = index /\ BeginsWith(v1, h)
  <2>1. index \in Nat /\ index <= Len(v4) /\ v4 \in Seq(Chars) /\ BeginsWith(v1, v4)
    BY <1>1
  <2>2. h \in Seq(Chars) /\ Len(h) = index
    BY <1>2, <2>1, PrefixFacts
  <2>3. BeginsWith(v1, h)
    BY <1>2, <2>1, StrPrefixBegins
  <2> QED
    BY <2>2, <2>3
<1>4. PICK v : v = Str!Without(v4, index, n)
  OBVIOUS
<1>5. v = h \o u
  BY <1>2, <1>4 DEF Str!Without
<1>6. CASE index + n >= v2
  <2>1. index + n + 1 > Len(v4) /\ index + n + 1 \in Int /\ Len(v4) \in Int
    BY <1>1, <1>6
  <2>2. u = <<>>
    BY <1>1, <1>2, <2>1, StrWholeFacts
  <2>3. v = h
    BY <1>3, <1>5, <2>2, StrWholeFacts
  <2>4. Str!Removed(index, n).b = v1 /\ Str!Removed(index, n).n = index
    BY <1>6 DEF Str!Removed
  <2> QED
    BY <1>1, <1>3, <1>4, <2>3, <2>4
<1>7. CASE ~(index + n >= v2)
  <2>1. PICK p, q \in Nat : p = index + n
    <3>1. index + n \in Nat
      OBVIOUS
    <3> QED
      BY <3>1
  <2>2. PICK l \in Nat : l = v2 - index - n
    <3>1. v2 - index - n \in Nat
      BY <1>1, <1>7
    <3> QED
      BY <3>1
  <2>3. p \in Nat /\ p + l = Len(v4) /\ p <= Len(v4)
    BY <1>1, <1>7, <2>1, <2>2
  <2>4. u = SubSeq(v4, p + 1, Len(v4))
    BY <1>2, <2>1
  <2>5. Str!Cells(v1, index + n, v2 - index - n) = u
    <3>1. Str!Cells(v1, p, l) = u
      BY <1>1, <2>3, <2>4, StrCellsAreText
    <3> QED
      BY <2>1, <2>2, <3>1
  <2>6. u \in Seq(Chars) /\ Len(u) = l
    <3>1. IsPart(u, v4, p, Len(v4) - p) /\ u \in Seq(Chars)
      BY <1>1, <2>3, <2>4, StrPartFacts
    <3>2. Len(v4) - p = l
      BY <1>1, <2>3
    <3> QED
      BY <3>1, <3>2 DEF IsPart
  <2>7. PICK d : d = Str!Put(v1, index, u)
    OBVIOUS
  <2>8. BeginsWith(d, v)
    <3>1. Len(h) + Len(u) <= Len(v1)
      BY <1>1, <1>3, <2>2, <2>6
    <3>2. BeginsWith(Str!Put(v1, Len(h), u), h \o u)
      BY <1>3, <2>6, <3>1, StrBehindFacts
    <3> QED
      BY <1>3, <1>5, <2>7, <3>2
  <2>9. v \in Seq(Chars) /\ Len(v) = v2 - n /\ v2 - n \in Nat
    <3>1. v \in Seq(Chars) /\ InRow(v, h, u, Len(h), Len(u))
      BY <1>3, <1>5, <2>6, StrRowFacts
    <3>2. Len(v) = index + l
      BY <1>3, <2>6, <3>1 DEF InRow
    <3> QED
      BY <1>1, <2>2, <3>1, <3>2
  <2>10. d \in Seq(Cell) /\ Len(d) = Len(v1)
    <3>1. u \in Seq(Cell)
      BY <2>6 DEF Cell
    <3> QED
      BY <1>1, <2>7, <3>1, StrPutFacts
  <2>11. Str!Removed(index, n).b = d /\ Str!Removed(index, n).n = v2 - n
    BY <1>7, <2>5, <2>7 DEF Str!Removed
  <2> QED
    BY <1>4, <2>8, <2>9, <2>10, <2>11
<1> QED
  BY <1>6, <1>7

LEMMA StrRemoveStep ==
  ASSUME StrBufInv, NEW index \in Nat, NEW n \in Nat, Str!RemoveChars(index, n)
  PROVE  StrBufInv'
<1>1. Str!Usable /\ index < v2 /\ v3 = "ok"
  BY DEF Str!RemoveChars, Str!Usable
<1>2. PICK r : r = Str!Removed(index, n)
  OBVIOUS
<1>3. Str!Ends(r.b, r.n) /\ v4' = Str!Without(v4, index, n)
  BY <1>2 DEF Str!RemoveChars
<1>4. BeginsWith(r.b, v4') /\ Len(v4') = r.n /\ r.b \in Seq(Cell) /\ r.n \in Nat /\ Sized(r.b)
  BY <1>1, <1>2, <1>3, StrRemovedFacts DEF Sized
<1> QED
  BY <1>1, <1>3, <1>4, StrEndsFacts

LEMMA StrReplaceInPlaceStep ==
  ASSUME StrBufInv, NEW index \in Nat, NEW s \in Str!Strings, Str!ReplaceInPlace(index, s)
  PROVE  StrBufInv'
<1>1. /\ v3 = "ok" /\ BeginsWith(v1, v4) /\ v4 \in Seq(Chars) /\ v2 = Len(v4)
      /\ v2 \in Nat /\ v1 \in Seq(Cell) /\ v2 <= Len(v1) /\ Str!NoOldTail
  BY StrInvFacts DEF Str!ReplaceInPlace
<1>2. s \in Seq(Chars) /\ s \in Seq(Cell)
  BY StrStringsFacts DEF Cell
<1>3. PICK m \in Nat : m = Len(s)
  BY <1>2
<1>4. PICK z \in Nat : z = Len(v1)
  BY <1>1
<1>5. PICK p \in Nat : p = index + m
  OBVIOUS
<1>6. p <= v2 /\ v1' = Str!Put(v1, index, s) /\ v2' = v2 /\ v3' = v3 /\ v5' = v5
  BY <1>3, <1>5 DEF Str!ReplaceInPlace
<1>7. PICK l \in Nat : p + l = v2
  <2>1. v2 - p \in Nat /\ p + (v2 - p) = v2
    BY <1>1, <1>6
  <2> QED
    BY <2>1
<1>8. PICK h, u : h = SubSeq(v4, 1, index) /\ u = SubSeq(v4, p + 1, Len(v4))
  OBVIOUS
<1>9. /\ h \in Seq(Chars) /\ IsPart(h, v4, 0, index)
      /\ u \in Seq(Chars) /\ IsPart(u, v4, p, l)
  <2>1. p <= Len(v4) /\ index <= Len(v4) /\ Len(v4) - p = l
    BY <1>1, <1>5, <1>6, <1>7
  <2> QED
    BY <1>1, <1>8, <2>1, StrPartFacts
<1>10. PICK x, r : x = h \o s /\ r = x \o u
  OBVIOUS
<1>11. x \in Seq(Chars) /\ InRow(x, h, s, index, m)
  BY <1>2, <1>3, <1>9, <1>10, StrRowFacts DEF IsPart
<1>12. r \in Seq(Chars) /\ InRow(r, x, u, p, l)
  <2>1. Len(x) = p /\ Len(u) = l
    BY <1>5, <1>9, <1>11 DEF IsPart, InRow
  <2>2. r \in Seq(Chars) /\ InRow(r, x, u, Len(x), Len(u))
    BY <1>9, <1>10, <1>11, StrRowFacts
  <2> QED
    BY <2>1, <2>2
<1>13. v4' = r
  BY <1>3, <1>5, <1>8, <1>10 DEF Str!ReplaceInPlace
<1>14. PICK d : d = Str!Put(v1, index, s)
  OBVIOUS
<1>15. d \in Seq(Cell) /\ IsPut(d, v1, index, s, m, z)
  <2>1. index + Len(s) <= Len(v1)
    BY <1>1, <1>3, <1>5, <1>6
  <2> QED
    BY <1>1, <1>2, <1>3, <1>4, <1>14, <2>1, StrPutAt
<1>16. ASSUME NEW i \in 1 .. v2 PROVE d[i] = r[i]
  <2>1. CASE i <= index
    <3>1. i \in 1 .. index /\ i \in 1 .. p /\ 0 + i = i
      BY <2>1, <1>1, <1>5
    <3>2. d[i] = v1[i]
      BY <3>1, <1>15 DEF IsPut
    <3>3. r[i] = x[i] /\ x[i] = h[i]
      BY <3>1, <1>11, <1>12 DEF InRow
    <3>4. h[i] = v4[0 + i]
      BY <3>1, <1>9 DEF IsPart
    <3>5. v1[i] = v4[i]
      BY <1>1 DEF BeginsWith
    <3> QED
      BY <3>1, <3>2, <3>3, <3>4, <3>5
  <2>2. CASE i > index /\ i <= p
    <3>1. PICK j \in 1 .. m : i = index + j
      <4>1. i - index \in 1 .. m /\ i = index + (i - index)
        BY <1>1, <2>2, <1>5
      <4> QED
        BY <4>1
    <3>2. d[i] = s[j]
      BY <3>1, <1>15 DEF IsPut
    <3>3. r[i] = x[i]
      <4>1. i \in 1 .. p
        BY <1>1, <2>2
      <4> QED
        BY <4>1, <1>12 DEF InRow
    <3>4. x[i] = s[j]
      BY <3>1, <1>11 DEF InRow
    <3> QED
      BY <3>2, <3>3, <3>4
  <2>3. CASE i > p
    <3>1. PICK j \in 1 .. l : i = p + j
      <4>1. i - p \in 1 .. l /\ i = p + (i - p)
        BY <1>1, <2>3, <1>7
      <4> QED
        BY <4>1
    <3>2. r[i] = u[j]
      BY <3>1, <1>12 DEF InRow
    <3>3. u[j] = v4[p + j]
      BY <3>1, <1>9 DEF IsPart
    <3>4. i \in 1 .. z /\ i > index + m
      BY <1>1, <1>4, <1>5, <2>3
    <3>5. d[i] = v1[i]
      BY <3>4, <1>15 DEF IsPut
    <3>6. v1[i] = v4[i]
      BY <1>1 DEF BeginsWith
    <3> QED
      BY <3>1, <3>2, <3>3, <3>5, <3>6
  <2> QED
    BY <1>1, <2>1, <2>2, <2>3
<1>17. Len(r) = v2 /\ Len(d) = z
  BY <1>7, <1>12, <1>15 DEF InRow, IsPut
<1>18. BeginsWith(d, r)
  BY <1>1, <1>4, <1>12, <1>15, <1>16, <1>17 DEF BeginsWith
<1>19. v2 < z => d[v2 + 1] = v1[v2 + 1]
  <2>1. v2 < z => v2 + 1 \in 1 .. z /\ v2 + 1 > index + m
    BY <1>1, <1>5, <1>6
  <2> QED
    BY <2>1, <1>15 DEF IsPut
<1>20. Str!NoOldTail'
  BY <1>1, <1>4, <1>6, <1>14, <1>17, <1>19 DEF Str!NoOldTail
<1> QED
  BY <1>1, <1>4, <1>6, <1>13, <1>14, <1>17, <1>18, <1>20 DEF StrBufInv, Str!HarmNeedsFullBlock

LEMMA StrPutEnd ==
  ASSUME NEW b, NEW t, BeginsWith(b, t)
  PROVE  BeginsWith(Str!Put(b, Len(t), <<Str!NUL>>), t)
<1>1. b \in Seq(Cell) /\ t \in Seq(Chars) /\ Len(t) \in Nat /\ Len(b) \in Nat
  BY DEF BeginsWith
<1>2. <<Str!NUL>> \in Seq(Cell)
  BY DEF Cell
<1>3. PICK c : c = Str!Put(b, Len(t), <<Str!NUL>>)
  OBVIOUS
<1>4. /\ c \in Seq(Cell) /\ Len(c) = Len(b)
      /\ \A i \in 1 .. Len(b) :
           c[i] = IF i > Len(t) /\ i <= Len(t) + Len(<<Str!NUL>>) THEN <<Str!NUL>>[i - Len(t)] ELSE b[i]
  BY <1>1, <1>2, <1>3, StrPutFacts
<1>5. \A i \in 1 .. Len(t) : c[i] = b[i]
  BY <1>1, <1>4 DEF BeginsWith
<1>6. BeginsWith(c, t)
  BY <1>1, <1>4, <1>5 DEF BeginsWith
<1> QED
  BY <1>3, <1>6

LEMMA StrReplaceStep ==
  ASSUME StrBufInv, NEW index \in Nat, NEW old, NEW s \in Str!Strings, Str!Replace(index, old, s)
  PROVE  StrBufInv'
<1>1. /\ Str!Usable /\ v3 = "ok" /\ BeginsWith(v1, v4) /\ v4 \in Seq(Chars)
      /\ v2 = Len(v4) /\ v2 \in Nat /\ v1 \in Seq(Cell)
  BY StrInvFacts DEF Str!Replace
<1>2. s \in Seq(Chars) /\ Len(s) \in Nat
  BY StrStringsFacts
<1>3. PICK removes : removes = (index < v2 /\ s # <<>>)
  OBVIOUS
<1>4. PICK r : r = IF removes THEN Str!Removed(index, Len(s)) ELSE [b |-> v1, n |-> v2]
  OBVIOUS
<1>5. PICK t, asked : /\ t = IF removes THEN Str!Without(v4, index, Len(s)) ELSE v4
                     /\ asked = IF index < v2 THEN Str!Without(v4, index, old) ELSE v4
  OBVIOUS
<1>6. BeginsWith(r.b, t) /\ Len(t) = r.n /\ r.b \in Seq(Cell) /\ r.n \in Nat /\ Sized(r.b)
  <2>1. CASE removes
    BY <1>1, <1>2, <1>3, <1>4, <1>5, <2>1, StrRemovedFacts DEF Sized
  <2>2. CASE ~removes
    <3>1. r.b = v1 /\ r.n = v2 /\ t = v4
      BY <1>4, <1>5, <2>2
    <3> QED
      BY <1>1, <3>1 DEF Sized
  <2> QED
    BY <2>1, <2>2
<1>7. \/ /\ IF removes THEN Str!EndsAs(r.b, r.n, "other") ELSE UNCHANGED <<v1, v2, v3, v5>>
         /\ UNCHANGED v4
      \/ /\ Str!InsertInto(IF removes THEN Str!Put(r.b, r.n, <<Str!NUL>>) ELSE r.b, r.n, index, s,
                           IF t = asked THEN "ok" ELSE "other")
         /\ v4' = Str!With(asked, index, s)
  BY <1>3, <1>4, <1>5 DEF Str!Replace
<1>8. CASE /\ IF removes THEN Str!EndsAs(r.b, r.n, "other") ELSE UNCHANGED <<v1, v2, v3, v5>>
           /\ UNCHANGED v4
  <2>1. CASE removes
    BY <1>8, <2>1, StrOther DEF Str!EndsAs
  <2>2. CASE ~removes
    BY <1>8, <2>2, StrStutters DEF Str!vars
  <2> QED
    BY <2>1, <2>2
<1>9. ASSUME NEW h, h = IF t = asked THEN "ok" ELSE "other",
             Str!InsertInto(IF removes THEN Str!Put(r.b, r.n, <<Str!NUL>>) ELSE r.b, r.n, index, s, h),
             v4' = Str!With(asked, index, s)
      PROVE  StrBufInv'
  <2>1. PICK b : b = IF removes THEN Str!Put(r.b, r.n, <<Str!NUL>>) ELSE r.b
    OBVIOUS
  <2>2. BeginsWith(b, t) /\ Sized(b)
    <3>1. BeginsWith(Str!Put(r.b, r.n, <<Str!NUL>>), t)
      BY <1>6, StrPutEnd
    <3>2. Sized(Str!Put(r.b, r.n, <<Str!NUL>>))
      BY <1>6, StrPutSized
    <3> QED
      BY <1>6, <2>1, <3>1, <3>2
  <2>3. Str!InsertInto(b, r.n, index, s, h)
    BY <1>9, <2>1
  <2>4. CASE t = asked
    BY <1>1, <1>2, <1>6, <1>9, <2>2, <2>3, <2>4, StrInsertStep
  <2>5. CASE t # asked
    <3>1. h = "other"
      BY <1>9, <2>5
    <3> QED
      BY <2>3, <3>1, StrOther DEF Str!InsertInto, Str!EndsAs
  <2> QED
    BY <2>4, <2>5
<1> QED
  BY <1>7, <1>8, <1>9

LEMMA StrBlanksFacts ==
  ASSUME NEW s \in Seq(Chars)
  PROVE  Str!Blanks(s) \in Nat /\ Str!Blanks(s) <= Len(s)
<1> DEFINE I == {i \in 1 .. Len(s) : s[i] # BLANK}
<1>1. Str!Blanks(s) = LET i == IF I # {} THEN Str!Min(I) ELSE 0 IN IF i = 0 THEN Len(s) ELSE i - 1
  BY DEF Str!Blanks, Str!SelectInSeq
<1>2. CASE I = {}
  BY <1>1, <1>2
<1>3. CASE I # {}
  <2>1. I \in SUBSET Nat
    OBVIOUS
  <2>2. PICK m \in I : \A y \in I : m <= y
    <3> HIDE DEF I
    <3> QED
      BY <1>3, <2>1, LeastNumber
  <2>3. Str!Min(I) \in I
    BY <2>2 DEF Str!Min
  <2> QED
    BY <1>1, <1>3, <2>3
<1> QED
  BY <1>2, <1>3

LEMMA StrLTrimStep ==
  ASSUME StrBufInv, Str!LTrim
  PROVE  StrBufInv'
<1>1. /\ v3 = "ok" /\ BeginsWith(v1, v4) /\ v4 \in Seq(Chars) /\ v2 = Len(v4)
      /\ v2 \in Nat /\ v1 \in Seq(Cell) /\ v2 <= Len(v1) /\ Str!Content = v4 /\ Str!NoOldTail
  BY StrInvFacts DEF Str!LTrim
<1>2. PICK start \in Nat : start = Str!Blanks(v4) /\ start <= Len(v4)
  BY <1>1, StrBlanksFacts
<1>3. IF start = Len(v1) THEN v3' = "past" /\ UNCHANGED <<v1, v2, v4, v5>>
      ELSE /\ v4' = SubSeq(v4, start + 1, Len(v4))
           /\ IF start = 0 THEN UNCHANGED <<v1, v2, v3, v5>>
              ELSE Str!Ends(Str!Put(v1, 0, Str!Cells(v1, start, v2 - start)), v2 - start)
  BY <1>1, <1>2 DEF Str!LTrim
<1>4. CASE start = Len(v1)
  <2>1. Len(v4) = Len(v1)
    BY <1>1, <1>2, <1>4
  <2> QED
    BY <1>1, <1>3, <1>4, <2>1 DEF StrBufInv, Str!HarmNeedsFullBlock
<1>5. CASE start # Len(v1) /\ start = 0
  <2>1. v4' = v4
    BY <1>1, <1>3, <1>5, StrWholeFacts
  <2> QED
    BY <1>3, <1>5, <2>1, StrStutters DEF Str!vars
<1>6. CASE start # Len(v1) /\ start # 0
  <2>1. PICK l \in Nat : l = v2 - start
    <3>1. v2 - start \in Nat
      BY <1>1, <1>2
    <3> QED
      BY <3>1
  <2>2. start + l = Len(v4) /\ start <= Len(v4) /\ Len(v4) - start = l
    BY <1>1, <1>2, <2>1
  <2>3. PICK u : u = SubSeq(v4, start + 1, Len(v4))
    OBVIOUS
  <2>4. Str!Cells(v1, start, l) = u
    BY <1>1, <2>2, <2>3, StrCellsAreText
  <2>5. u \in Seq(Chars) /\ Len(u) = l
    BY <1>1, <2>2, <2>3, StrPartFacts DEF IsPart
  <2>6. PICK d : d = Str!Put(v1, 0, u)
    OBVIOUS
  <2>7. BeginsWith(d, u) /\ d \in Seq(Cell)
    <3>1. BeginsWith(d, u)
      BY <1>1, <2>2, <2>5, <2>6, StrAtStart
    <3> QED
      BY <3>1 DEF BeginsWith
  <2>8. Str!Ends(d, l) /\ v4' = u
    BY <1>3, <1>6, <2>1, <2>3, <2>4, <2>6
  <2>9. Sized(d)
    BY <1>1, <2>6, StrPutSized DEF Sized
  <2> QED
    BY <1>1, <2>5, <2>7, <2>8, <2>9, StrEndsFacts
<1> QED
  BY <1>4, <1>5, <1>6

LEMMA StrRTrimStep ==
  ASSUME StrBufInv, Str!RTrim
  PROVE  StrBufInv'
<1>1. /\ v3 = "ok" /\ BeginsWith(v1, v4) /\ v4 \in Seq(Chars) /\ v2 = Len(v4)
      /\ v2 \in Nat /\ v1 \in Seq(Cell) /\ Str!Content = v4
  BY StrInvFacts DEF Str!RTrim
<1>2. PICK r : r = Str!Reverse(v4)
  OBVIOUS
<1>3. r \in Seq(Chars) /\ Len(r) = Len(v4)
  BY <1>1, <1>2 DEF Str!Reverse
<1>4. PICK n \in Nat : n = Str!Blanks(r) /\ n <= Len(v4)
  BY <1>3, StrBlanksFacts
<1>5. PICK l \in Nat : l = v2 - n /\ l <= Len(v4)
  <2>1. v2 - n \in Nat /\ v2 - n <= Len(v4)
    BY <1>1, <1>4
  <2> QED
    BY <2>1
<1>6. Str!Ends(v1, l) /\ v4' = SubSeq(v4, 1, l)
  BY <1>1, <1>2, <1>4, <1>5 DEF Str!RTrim
<1>7. BeginsWith(v1, v4') /\ Len(v4') = l /\ Sized(v1)
  BY <1>1, <1>5, <1>6, StrPrefixBegins DEF Sized
<1> QED
  BY <1>1, <1>6, <1>7, StrEndsFacts

LEMMA StrClearStep ==
  ASSUME StrBufInv, Str!Clear
  PROVE  StrBufInv'
<1>1. v3 = "ok" /\ v1 \in Seq(Cell)
  BY StrInvFacts DEF Str!Clear
<1>2. Str!Ends(v1, 0) /\ v4' = <<>> /\ 0 \in Nat
  BY DEF Str!Clear
<1>3. BeginsWith(v1, v4') /\ Len(v4') = 0 /\ Sized(v1)
  BY <1>1, <1>2, StrEmptyBegins DEF Sized
<1> QED
  BY <1>1, <1>2, <1>3, StrEndsFacts

LEMMA StrSqueezeStep ==
  ASSUME StrBufInv, Str!Squeeze
  PROVE  StrBufInv'
<1>1. /\ v3 = "ok" /\ BeginsWith(v1, v4) /\ v4 \in Seq(Chars) /\ v2 = Len(v4)
      /\ v2 \in Nat /\ v1 \in Seq(Cell) /\ v2 <= Len(v1) /\ Len(v1) \in Nat
  BY StrInvFacts DEF Str!Squeeze
<1>2. CASE UNCHANGED <<v2, v3, v4>> /\ v1' = Str!Resized(v1, v2) /\ v5' = TRUE
  <2>1. /\ v1' \in Seq(Cell) /\ Len(v1') = v2
        /\ \A i \in 1 .. v2 : v1'[i] = IF i <= Len(v1) THEN v1[i] ELSE Str!JUNK
    BY <1>1, <1>2, StrResizedFacts
  <2>2. \A i \in 1 .. v2 : v1'[i] = v1[i]
    BY <1>1, <2>1
  <2>3. BeginsWith(v1', v4)
    BY <1>1, <2>1, <2>2 DEF BeginsWith
  <2>4. Str!NoOldTail'
    BY <1>1, <1>2, <2>1 DEF Str!NoOldTail
  <2> QED
    BY <1>1, <1>2, <2>3, <2>4 DEF StrBufInv, Str!HarmNeedsFullBlock
<1>3. CASE v2 = 0 /\ v3' = "dangling" /\ UNCHANGED v4
  <2>1. v4 \in Seq(Chars) /\ Len(v4) = 0
    BY <1>1, <1>3
  <2>2. v4 = <<>>
    BY <2>1, EmptySeq
  <2> QED
    BY <1>3, <2>2 DEF StrBufInv, Str!HarmNeedsFullBlock
<1> QED
  BY <1>2, <1>3 DEF Str!Squeeze

LEMMA StrReserveStep ==
  ASSUME StrBufInv, NEW n \in Nat, Str!Reserve(n)
  PROVE  StrBufInv'
<1>1. /\ v3 = "ok" /\ BeginsWith(v1, v4) /\ v2 = Len(v4)
      /\ v2 \in Nat /\ v1 \in Seq(Cell) /\ Len(v1) \in Nat /\ Str!NoOldTail
  BY StrInvFacts DEF Str!Reserve
<1>2. UNCHANGED <<v2, v3, v4>> /\ v1' = Str!Room(v1, n) /\ n > Len(v1)
  BY DEF Str!Reserve
<1>3. BeginsWith(v1', v4)
  BY <1>1, <1>2, StrRoomBegins
<1>4. /\ v1' \in Seq(Cell)
      /\ \A i \in 1 .. Len(v1') : v1'[i] = IF i <= Len(v1) THEN v1[i] ELSE Str!JUNK
  BY <1>1, <1>2, StrRoomFacts
<1>5. v2 < Len(v1') => v1'[v2 + 1] \in {Str!NUL, Str!JUNK}
  <2>1. SUFFICES ASSUME v2 < Len(v1') PROVE v1'[v2 + 1] \in {Str!NUL, Str!JUNK}
    OBVIOUS
  <2>2. v2 + 1 \in 1 .. Len(v1') /\ (v2 + 1 <= Len(v1) => v2 < Len(v1))
    BY <1>1, <1>4, <2>1
  <2> QED
    BY <1>1, <1>4, <2>2 DEF Str!NoOldTail
<1>6. Str!NoOldTail'
  BY <1>2, <1>5 DEF Str!NoOldTail
<1>7. Str!IsBlockSize(Len(v1'))
  <2>1. Sized(v1)
    BY DEF Sized
  <2>2. Sized(Str!Room(v1, n)) /\ Len(Str!Room(v1, n)) >= n
    BY <1>1, <2>1, StrRoomSized, StrRoomFacts
  <2>3. Len(Str!Room(v1, n)) \in Nat
    BY <1>2, <1>4
  <2>4. Len(Str!Room(v1, n)) # Len(v1)
    BY <1>1, <1>2, <2>2, <2>3
  <2> QED
    BY <1>2, <2>2, <2>4 DEF Sized
<1> QED
  BY <1>1, <1>2, <1>3, <1>6, <1>7 DEF StrBufInv, Str!HarmNeedsFullBlock

LEMMA StrNoCells == Str!IsBlockSize(0)
<1>1. 0 \in 0 .. 0 /\ 0 = 0 * ALIGN
  BY StrBufAssumption
<1> QED
  BY <1>1 DEF Str!IsBlockSize

LEMMA StrReleaseStep ==
  ASSUME StrBufInv, Str!Release
  PROVE  StrBufInv'
<1>1. v1' = <<>> /\ v2' = 0 /\ v4' = <<>>
  BY DEF Str!Release, Str!NULL
<1>2. v1' \in Seq(Cell) /\ Len(v1') = 0 /\ Len(v4') = 0
  BY <1>1
<1>3. BeginsWith(v1', v4')
  BY <1>1, <1>2, StrEmptyBegins
<1>4. v3' = "ok"
  BY DEF Str!Release, Str!Usable
<1> QED
  BY <1>1, <1>2, <1>3, <1>4, StrNoCells DEF StrBufInv, Str!NoOldTail, Str!HarmNeedsFullBlock

LEMMA StrInitHolds ==
  ASSUME Str!Init
  PROVE  StrBufInv
<1>1. v1 = <<>> /\ v2 = 0 /\ v4 = <<>>
  BY DEF Str!Init, Str!NULL
<1>2. v1 \in Seq(Cell) /\ Len(v1) = 0 /\ Len(v4) = 0
  BY <1>1
<1>3. BeginsWith(v1, v4)
  BY <1>1, <1>2, StrEmptyBegins
<1>4. v3 = "ok"
  BY DEF Str!Init
<1> QED
  BY <1>1, <1>2, <1>3, <1>4, StrNoCells DEF StrBufInv, Str!NoOldTail, Str!HarmNeedsFullBlock

LEMMA StrNextKeeps ==
  ASSUME StrBufInv, Str!Next
  PROVE  StrBufInv'
<1>0. 0 .. MaxSize \in SUBSET Nat
  BY StrBufAssumption
<1>1. ASSUME NEW s \in Str!Strings, Str!Set(s) PROVE StrBufInv'
  BY <1>1, StrSetStep
<1>2. ASSUME NEW s \in Str!Strings, Str!AppendStr(s) PROVE StrBufInv'
  BY <1>2, StrAppendStep
<1>3. ASSUME NEW s \in Str!Strings, NEW index \in Nat, Str!Insert(index, s) PROVE StrBufInv'
  BY <1>3, StrInsertOrFail
<1>4. ASSUME NEW s \in Str!Strings, NEW index \in Nat, Str!ReplaceInPlace(index, s) PROVE StrBufInv'
  BY <1>4, StrReplaceInPlaceStep
<1>5. ASSUME NEW s \in Str!Strings, NEW index \in Nat, NEW old, Str!Replace(index, old, s) PROVE StrBufInv'
  BY <1>5, StrReplaceStep
<1>6. ASSUME NEW n \in Nat, Str!PrependSelf(n) PROVE StrBufInv'
  BY <1>6, StrPrependStep
<1>7. ASSUME NEW n \in Nat, Str!Truncate(n) PROVE StrBufInv'
  BY <1>7, StrTruncateStep
<1>8. ASSUME NEW n \in Nat, Str!Reserve(n) PROVE StrBufInv'
  BY <1>8, StrReserveStep
<1>9. ASSUME NEW n \in Nat, NEW index \in Nat, Str!RemoveChars(index, n) PROVE StrBufInv'
  BY <1>9, StrRemoveStep
<1>10. ASSUME v3 # "ok" /\ UNCHANGED Str!vars PROVE StrBufInv'
  BY <1>10, StrStutters
<1> QED
  BY <1>0, <1>1, <1>2, <1>3, <1>4, <1>5, <1>6, <1>7, <1>8, <1>9, <1>10, StrLTrimStep, StrRTrimStep,
     StrClearStep, StrSqueezeStep, StrReleaseStep DEF Str!Next

LEMMA StrInvHolds ==
  ASSUME StrBufInv
  PROVE  Str!HoldsText /\ Str!NoOldTail /\ Str!HarmNeedsFullBlock
<1>1. CASE v3 = "ok"
  BY <1>1, StrInvFacts DEF Str!HoldsText, Str!Usable, StrBufInv
<1>2. CASE v3 # "ok"
  BY <1>2 DEF Str!HoldsText, Str!NoOldTail, StrBufInv
<1> QED
  BY <1>1, <1>2

-----------------------------------------------------------------------------
(* stream.c *)

LEMMA IOPowerFacts ==
  /\ IO!Power \in [Nat -> Nat] /\ IO!Power[0] = 1
  /\ \A n \in Nat : IO!Power[n + 1] = BASE * IO!Power[n]
<1> DEFINE F == [p \in Nat \X Nat |-> BASE * p[1]]
<1>1. F \in [Nat \X Nat -> Nat]
  <2>1. ASSUME NEW p \in Nat \X Nat PROVE BASE * p[1] \in Nat
    <3>1. p[1] \in Nat /\ BASE \in Nat
      BY StreamAssumption
    <3>2. \A a, b \in Nat : a * b \in Nat
      OBVIOUS
    <3> QED
      BY <3>1, <3>2
  <2> QED
    BY <2>1
<1>2. PICK f \in [Nat -> Nat] : Iterates(f, 1, F)
  <2>1. 1 \in Nat
    OBVIOUS
  <2> HIDE DEF F
  <2> QED
    BY <1>1, <2>1, IterationExists
<1>3. f[0] = 1 /\ \A n \in Nat : f[n + 1] = BASE * f[n]
  <2>1. ASSUME NEW n \in Nat PROVE f[n + 1] = BASE * f[n]
    <3>1. f[n + 1] = F[<<f[n], n>>]
      <4> HIDE DEF F
      <4> QED
        BY <1>2 DEF Iterates
    <3>2. <<f[n], n>> \in Nat \X Nat
      OBVIOUS
    <3> QED
      BY <3>1, <3>2
  <2> QED
    BY <1>2, <2>1 DEF Iterates
<1>4. f = [n \in Nat |-> IF n = 0 THEN 1 ELSE BASE * f[n - 1]]
  <2>1. ASSUME NEW n \in Nat PROVE f[n] = IF n = 0 THEN 1 ELSE BASE * f[n - 1]
    <3>1. CASE n = 0
      BY <1>3, <3>1
    <3>2. CASE n # 0
      <4>1. n - 1 \in Nat /\ (n - 1) + 1 = n
        BY <3>2
      <4>2. f[(n - 1) + 1] = BASE * f[n - 1]
        BY <4>1, <1>3
      <4> QED
        BY <3>2, <4>1, <4>2
    <3> QED
      BY <3>1, <3>2
  <2> QED
    BY <2>1
<1>5. IO!Power = [n \in Nat |-> IF n = 0 THEN 1 ELSE BASE * IO!Power[n - 1]]
  BY <1>4 DEF IO!Power
<1>6. ASSUME NEW n \in Nat PROVE IO!Power[n] \in Nat /\ IO!Power[n] = f[n]
  <2> DEFINE B == {k \in Nat : IO!Power[k] # f[k]}
  <2>1. B = {}
    <3>1. SUFFICES ASSUME B # {} PROVE FALSE
      OBVIOUS
    <3>2. PICK k \in B : \A y \in B : k <= y
      <4>1. B \in SUBSET Nat
        OBVIOUS
      <4> HIDE DEF B
      <4> QED
        BY <3>1, <4>1, LeastNumber
    <3>3. IO!Power[k] # f[k] /\ k \in Nat /\ (k # 0 => k - 1 \notin B)
      BY <3>2
    <3>4. k # 0 => IO!Power[k - 1] = f[k - 1]
      BY <3>3
    <3> QED
      BY <1>4, <1>5, <3>3, <3>4
  <2> QED
    BY <2>1
<1>7. IO!Power \in [Nat -> Nat]
  BY <1>5, <1>6
<1> QED
  BY <1>3, <1>6, <1>7

(* Division with a positive divisor. *)
LEMMA IODivision ==
  ASSUME NEW a \in Int, NEW b \in Nat, b > 0
  PROVE  /\ a \div b \in Int /\ a % b \in Nat
         /\ a = b * (a \div b) + (a % b) /\ a % b < b
  BY SMT

LEMMA IOQuotient ==
  ASSUME NEW a \in Int, NEW b \in Nat, NEW q \in Int, NEW r \in Nat, a = b * q + r, r < b
  PROVE  a \div b = q /\ a % b = r
  BY SMT
LEMMA IOPowerPositive == \A n \in Nat : IO!Power[n] > 0
<1> DEFINE B == {k \in Nat : ~(IO!Power[k] > 0)}
<1>1. SUFFICES ASSUME B # {} PROVE FALSE
  OBVIOUS
<1>2. PICK k \in B : \A y \in B : k <= y
  <2>1. B \in SUBSET Nat
    OBVIOUS
  <2> HIDE DEF B
  <2> QED
    BY <1>1, <2>1, LeastNumber
<1>3. k # 0
  BY <1>2, IOPowerFacts
<1>4. PICK m \in Nat : k = m + 1
  <2>1. k - 1 \in Nat /\ k = (k - 1) + 1
    BY <1>2, <1>3
  <2> QED
    BY <2>1
<1>5. IO!Power[m] > 0 /\ IO!Power[m] \in Nat /\ IO!Power[m + 1] = BASE * IO!Power[m]
  BY <1>2, <1>4, IOPowerFacts
<1>6. \A a \in Nat : a > 0 => BASE * a > 0
  BY StreamAssumption
<1> QED
  BY <1>2, <1>4, <1>5, <1>6

LEMMA IOPowerSum == \A a, b \in Nat : IO!Power[a + b] = IO!Power[a] * IO!Power[b]
<1> SUFFICES ASSUME NEW a \in Nat, NEW c \in Nat PROVE IO!Power[a + c] = IO!Power[a] * IO!Power[c]
  OBVIOUS
<1> DEFINE B == {k \in Nat : ~(IO!Power[a + k] = IO!Power[a] * IO!Power[k])}
<1>1. SUFFICES ASSUME B # {} PROVE FALSE
  OBVIOUS
<1>2. PICK k \in B : \A y \in B : k <= y
  <2>1. B \in SUBSET Nat
    OBVIOUS
  <2> HIDE DEF B
  <2> QED
    BY <1>1, <2>1, LeastNumber
<1>3. k # 0
  <2>1. IO!Power[a] \in Nat /\ IO!Power[0] = 1 /\ a + 0 = a
    BY IOPowerFacts
  <2>2. IO!Power[a + 0] = IO!Power[a] * IO!Power[0]
    BY <2>1
  <2> QED
    BY <1>2, <2>2
<1>4. PICK m \in Nat : k = m + 1
  <2>1. k - 1 \in Nat /\ k = (k - 1) + 1
    BY <1>2, <1>3
  <2> QED
    BY <2>1
<1>5. IO!Power[a + m] = IO!Power[a] * IO!Power[m]
  BY <1>2, <1>4
<1>6. PICK n \in Nat : n = a + m
  OBVIOUS
<1>7. IO!Power[n + 1] = BASE * IO!Power[n] /\ IO!Power[m + 1] = BASE * IO!Power[m] /\ n + 1 = a + k
  BY <1>4, <1>6, IOPowerFacts
<1>8. IO!Power[a] \in Nat /\ IO!Power[m] \in Nat /\ BASE \in Nat
  BY IOPowerFacts, StreamAssumption
<1>9. \A x, y, z \in Nat : x * (y * z) = y * (x * z)
  BY SMT
<1>10. IO!Power[a + k] = BASE * (IO!Power[a] * IO!Power[m]) /\ IO!Power[k] = BASE * IO!Power[m]
  BY <1>4, <1>5, <1>6, <1>7
<1>11. IO!Power[a + k] = IO!Power[a] * IO!Power[k]
  BY <1>8, <1>9, <1>10
<1> QED
  BY <1>2, <1>11

LEMMA IODigit ==
  ASSUME NEW a \in Int, NEW p \in Nat, p > 0
  PROVE  (a \div (BASE * p)) * BASE + ((a \div p) % BASE) = a \div p
<1>1. BASE \in Nat /\ BASE > 0
  BY StreamAssumption
<1>2. PICK q \in Int : q = a \div p
  BY IODivision
<1>3. PICK r \in Nat : r = a % p
  BY IODivision
<1>4. a = p * q + r /\ r < p
  BY <1>2, <1>3, IODivision
<1>5. PICK x \in Int : x = q \div BASE
  BY <1>1, IODivision
<1>6. PICK y \in Nat : y = q % BASE
  BY <1>1, IODivision
<1>7. q = BASE * x + y /\ y < BASE
  BY <1>1, <1>5, <1>6, IODivision
<1>8. PICK b \in Nat : b = BASE
  BY <1>1
<1>9. PICK m \in Nat : m = b * p
  BY <1>8, SMT
<1>10. PICK s \in Nat : s = p * y + r
  BY SMT
<1>11. a = m * x + s
  <2>1. a = p * (b * x + y) + r
    BY <1>4, <1>7, <1>8
  <2>2. p * (b * x + y) + r = (b * p) * x + (p * y + r)
    BY SMT
  <2> QED
    BY <1>9, <1>10, <2>1, <2>2
<1>12. s < m
  <2>1. p * y + p <= b * p
    <3>1. y + 1 <= b
      BY <1>7, <1>8
    <3>2. p * (y + 1) <= p * b
      BY <3>1, SMT
    <3>3. p * (y + 1) = p * y + p /\ p * b = b * p
      BY SMT
    <3>4. p * y \in Nat /\ b * p \in Nat
      BY SMT
    <3> QED
      BY <3>2, <3>3, <3>4
  <2> QED
    BY <1>4, <1>9, <1>10, <2>1, SMT
<1>13. a \div m = x
  BY <1>11, <1>12, IOQuotient
<1>14. x * b + y = b * x + y
  BY SMT
<1>15. x * BASE + y = q
  BY <1>7, <1>8, <1>14
<1> QED
  BY <1>2, <1>6, <1>8, <1>9, <1>13, <1>15

(* A multiple of p * BASE does not change the digit of weight p. *)
LEMMA IOSameDigit ==
  ASSUME NEW u \in Int, NEW p \in Nat, p > 0, NEW z \in Int
  PROVE  ((u + p * (BASE * z)) \div p) % BASE = (u \div p) % BASE
<1>1. BASE \in Nat /\ BASE > 0
  BY StreamAssumption
<1>2. PICK q \in Int : q = u \div p
  BY IODivision
<1>3. PICK r \in Nat : r = u % p
  BY IODivision
<1>4. u = p * q + r /\ r < p
  BY <1>2, <1>3, IODivision
<1>5. PICK x \in Int : x = q \div BASE
  BY <1>1, IODivision
<1>6. PICK y \in Nat : y = q % BASE
  BY <1>1, IODivision
<1>7. q = BASE * x + y /\ y < BASE
  BY <1>1, <1>5, <1>6, IODivision
<1>8. PICK b \in Nat : b = BASE
  BY <1>1
<1>9. PICK k \in Int : k = q + b * z
  BY SMT
<1>10. PICK v \in Int : v = u + p * (b * z)
  BY SMT
<1>11. v = p * k + r
  <2>1. p * (q + b * z) = p * q + p * (b * z)
    BY SMT
  <2> QED
    BY <1>4, <1>9, <1>10, <2>1, SMT
<1>12. v \div p = k
  BY <1>4, <1>11, IOQuotient
<1>13. PICK w \in Int : w = x + z
  OBVIOUS
<1>14. k = b * w + y
  <2>1. b * (x + z) = b * x + b * z
    BY SMT
  <2> QED
    BY <1>7, <1>8, <1>9, <1>13, <2>1, SMT
<1>15. k % b = y
  BY <1>7, <1>8, <1>14, IOQuotient
<1> QED
  BY <1>2, <1>6, <1>8, <1>10, <1>12, <1>15

(* The sum in Decode *)
SumOf(w, e) ==
  CHOOSE s : s = [i \in 0 .. w |-> IF i = 0 THEN 0 ELSE s[i - 1] + e[i] * IO!Power[w - i]]

LEMMA IOSum ==
  ASSUME NEW w \in Nat, NEW u \in Nat, u < IO!Power[w], NEW e,
         \A i \in 1 .. w : e[i] = (u \div IO!Power[w - i]) % BASE
  PROVE  SumOf(w, e)[w] = u
<1> DEFINE g == [i \in 0 .. w |-> (u \div IO!Power[w - i]) * IO!Power[w - i]]
<1>1. ASSUME NEW i \in 0 .. w PROVE IO!Power[w - i] \in Nat /\ IO!Power[w - i] > 0
  <2>1. w - i \in Nat
    OBVIOUS
  <2> QED
    BY <2>1, IOPowerFacts, IOPowerPositive
<1>2. g[0] = 0
  <2>1. 0 \in 0 .. w /\ w - 0 = w
    OBVIOUS
  <2>2. IO!Power[w] \in Nat
    BY <1>1, <2>1
  <2>3. u = IO!Power[w] * 0 + u
    BY <2>2
  <2>4. u \div IO!Power[w] = 0
    BY <2>2, <2>3, IOQuotient
  <2>5. 0 * IO!Power[w] = 0
    BY <2>2
  <2> QED
    BY <2>1, <2>4, <2>5
<1>3. ASSUME NEW i \in 1 .. w PROVE g[i] = g[i - 1] + e[i] * IO!Power[w - i]
  <2>1. i \in 0 .. w /\ i - 1 \in 0 .. w /\ w - i \in Nat /\ (w - i) + 1 = w - (i - 1)
    OBVIOUS
  <2>2. PICK p \in Nat : p = IO!Power[w - i] /\ p > 0
    BY <1>1, <2>1
  <2>3. IO!Power[w - (i - 1)] = BASE * p
    BY <2>1, <2>2, IOPowerFacts
  <2>4. PICK a \in Int : a = u \div p
    BY <2>2, IODivision
  <2>5. PICK b \in Nat : b = BASE
    BY StreamAssumption
  <2>6. b * p \in Nat /\ b * p > 0
    BY <2>2, <2>5, StreamAssumption, SMT
  <2>7. PICK c \in Int : c = u \div (b * p)
    BY <2>6, IODivision
  <2>8. PICK d \in Nat : d = a % b
    BY <2>4, <2>5, StreamAssumption, IODivision
  <2>9. c * b + d = a
    <3>1. (u \div (BASE * p)) * BASE + ((u \div p) % BASE) = u \div p
      BY <2>2, IODigit
    <3> QED
      BY <2>4, <2>5, <2>7, <2>8, <3>1
  <2>10. e[i] = d
    BY <2>2, <2>4, <2>5, <2>8
  <2>11. g[i] = a * p /\ g[i - 1] = c * (b * p)
    BY <2>1, <2>2, <2>3, <2>4, <2>5, <2>7
  <2>12. (c * b + d) * p = c * (b * p) + d * p
    BY SMT
  <2> QED
    BY <2>2, <2>9, <2>10, <2>11, <2>12
<1>4. g = [i \in 0 .. w |-> IF i = 0 THEN 0 ELSE g[i - 1] + e[i] * IO!Power[w - i]]
  <2>1. ASSUME NEW i \in 0 .. w PROVE g[i] = IF i = 0 THEN 0 ELSE g[i - 1] + e[i] * IO!Power[w - i]
    <3>1. CASE i = 0
      <4> HIDE DEF g
      <4> QED
        BY <1>2, <3>1
    <3>2. CASE i # 0
      <4>1. i \in 1 .. w
        BY <3>2
      <4> HIDE DEF g
      <4> QED
        BY <1>3, <3>2, <4>1
    <3> QED
      BY <3>1, <3>2
  <2>2. DOMAIN g = 0 .. w /\ g = [i \in 0 .. w |-> g[i]]
    OBVIOUS
  <2> HIDE DEF g
  <2> QED
    BY <2>1, <2>2
<1>5. PICK s : s = SumOf(w, e)
  OBVIOUS
<1>6. s = [i \in 0 .. w |-> IF i = 0 THEN 0 ELSE s[i - 1] + e[i] * IO!Power[w - i]]
  <2> HIDE DEF g
  <2> QED
    BY <1>4, <1>5 DEF SumOf
<1>7. s[w] = g[w]
  <2> DEFINE B == {k \in Nat : k <= w /\ s[k] # g[k]}
  <2>1. B = {}
    <3>1. SUFFICES ASSUME B # {} PROVE FALSE
      OBVIOUS
    <3>2. PICK k \in B : \A y \in B : k <= y
      <4>1. B \in SUBSET Nat
        OBVIOUS
      <4> HIDE DEF B
      <4> QED
        BY <3>1, <4>1, LeastNumber
    <3>3. k \in 0 .. w /\ s[k] # g[k] /\ (k # 0 => k - 1 \in Nat /\ k - 1 <= w /\ k - 1 \notin B)
      BY <3>2
    <3>4. k # 0 => s[k - 1] = g[k - 1]
      BY <3>3
    <3>5. s[k] = IF k = 0 THEN 0 ELSE s[k - 1] + e[k] * IO!Power[w - k]
      BY <1>6, <3>3
    <3>6. g[k] = IF k = 0 THEN 0 ELSE g[k - 1] + e[k] * IO!Power[w - k]
      <4> HIDE DEF g
      <4> QED
        BY <1>4, <3>3
    <3> HIDE DEF g, B
    <3> QED
      BY <3>3, <3>4, <3>5, <3>6
  <2> HIDE DEF g
  <2> QED
    BY <2>1
<1>8. g[w] = u
  <2>1. w \in 0 .. w /\ w - w = 0 /\ IO!Power[0] = 1
    BY IOPowerFacts
  <2>2. g[w] = (u \div 1) * 1
    BY <2>1
  <2> QED
    BY <2>2
<1> HIDE DEF g
<1> QED
  BY <1>5, <1>7, <1>8

LEMMA IOValuesFacts ==
  ASSUME NEW f \in IO!Formats
  PROVE  /\ f.width \in Nat \ {0} /\ IO!Modulus(f) \in Nat /\ IO!Modulus(f) >= 2
         /\ \A v \in IO!Values(f) : v \in Int
<1>1. f.width \in Nat \ {0} /\ f.signed \in BOOLEAN
  BY StreamAssumption DEF IO!Formats
<1>2. PICK k \in Nat : f.width = k + 1
  <2>1. f.width - 1 \in Nat /\ f.width = (f.width - 1) + 1
    BY <1>1
  <2> QED
    BY <2>1
<1>3. IO!Modulus(f) = BASE * IO!Power[k] /\ IO!Power[k] \in Nat /\ IO!Power[k] > 0
  BY <1>2, IOPowerFacts, IOPowerPositive DEF IO!Modulus
<1>4. \A a, b \in Nat : a >= 2 /\ b > 0 => a * b \in Nat /\ a * b >= 2
  BY SMT
<1>5. IO!Modulus(f) \in Nat /\ IO!Modulus(f) >= 2
  BY <1>3, <1>4, StreamAssumption
<1>6. ASSUME NEW v \in IO!Values(f) PROVE v \in Int
  BY <1>1, <1>5 DEF IO!Values
<1> QED
  BY <1>1, <1>5, <1>6

(* What Encode writes, Decode reads. *)
LEMMA IODecodes ==
  ASSUME NEW f \in IO!Formats, NEW v \in IO!Values(f), NEW e,
         \A i \in 1 .. f.width : e[i] = IO!Encode(f, v)[i]
  PROVE  IO!Decode(f, e) = v
<1>1. PICK w \in Nat : w = f.width /\ w > 0
  BY IOValuesFacts
<1>2. PICK m \in Nat : m = IO!Power[w] /\ m >= 2
  BY <1>1, IOValuesFacts DEF IO!Modulus
<1>3. v \in Int /\ f.signed \in BOOLEAN
  BY IOValuesFacts DEF IO!Formats
<1>4. IF f.signed THEN v = -(m \div 2) \/ v = (m \div 2) - 1 ELSE v = 1 \/ v = m - 1
  BY <1>1, <1>2 DEF IO!Values, IO!Modulus
<1>5. PICK h \in Nat : h = m \div 2 /\ 2 * h <= m /\ m <= 2 * h + 1
  BY <1>2
<1>6. PICK u \in Nat : u = IF v < 0 THEN v + m ELSE v
  <2>1. (IF v < 0 THEN v + m ELSE v) \in Nat
    BY <1>2, <1>3, <1>4, <1>5
  <2> QED
    BY <2>1
<1>7. u < m
  BY <1>2, <1>3, <1>4, <1>5, <1>6
<1>8. ASSUME NEW i \in 1 .. w PROVE e[i] = (u \div IO!Power[w - i]) % BASE
  <2>1. w - i \in Nat /\ i - 1 \in Nat /\ ((w - i) + 1) + (i - 1) = w
    OBVIOUS
  <2>2. PICK p \in Nat : p = IO!Power[w - i] /\ p > 0
    BY <2>1, IOPowerFacts, IOPowerPositive
  <2>3. PICK z \in Nat : z = IO!Power[i - 1]
    BY <2>1, IOPowerFacts
  <2>4. m = (BASE * p) * z
    <3>1. IO!Power[(w - i) + 1] = BASE * p /\ (w - i) + 1 \in Nat
      BY <2>1, <2>2, IOPowerFacts
    <3>2. IO!Power[((w - i) + 1) + (i - 1)] = IO!Power[(w - i) + 1] * IO!Power[i - 1]
      BY <2>1, <3>1, IOPowerSum
    <3> QED
      BY <1>2, <2>1, <2>3, <3>1, <3>2
  <2>5. e[i] = (v \div p) % BASE
    BY <1>1, <2>2 DEF IO!Encode
  <2>6. CASE v >= 0
    <3>1. u = v
      BY <1>3, <1>6, <2>6
    <3> QED
      BY <2>2, <2>5, <3>1
  <2>7. CASE ~(v >= 0)
    <3>1. u = v + m
      BY <1>3, <1>6, <2>7
    <3>2. m = p * (BASE * z)
      <4>1. \A a, b, c \in Nat : (a * b) * c = b * (a * c)
        BY SMT
      <4> QED
        BY <2>4, <4>1, StreamAssumption
    <3>3. u = v + p * (BASE * z)
      BY <3>1, <3>2
    <3>4. (u \div p) % BASE = (v \div p) % BASE
      BY <1>3, <2>2, <3>3, IOSameDigit
    <3> QED
      BY <2>2, <2>5, <3>4
  <2> QED
    BY <1>3, <2>6, <2>7
<1>9. SumOf(w, e)[w] = u
  BY <1>2, <1>7, <1>8, IOSum
<1>10. IO!Decode(f, e) = LET x == SumOf(f.width, e)[f.width]
                      IN IF f.signed /\ x >= IO!Modulus(f) \div 2 THEN x - IO!Modulus(f) ELSE x
  BY DEF IO!Decode, SumOf
<1>11. IO!Decode(f, e) = IF f.signed /\ u >= h THEN u - m ELSE u
  BY <1>1, <1>2, <1>5, <1>9, <1>10 DEF IO!Modulus
<1> QED
  BY <1>2, <1>3, <1>4, <1>5, <1>6, <1>7, <1>11
(* The k bytes of data behind o are the first k of v in format f. *)
Shows(d, o, k, f, v) == \A i \in 1 .. k : d[o + i] = IO!Encode(f, v)[i]

(* Where log has an integer, data has its bytes. *)
Logged(o) ==
  /\ o \in Nat /\ v4[o].f \in IO!Formats /\ v4[o].v \in IO!Values(v4[o].f)
  /\ o + v4[o].f.width <= Len(v2)
  /\ Shows(v2, o, v4[o].f.width, v4[o].f, v4[o].v)

(* The transfer under way has moved done of n bytes, in a regular file all *)
(* or none unless the next call moves nothing.                             *)
Transfer ==
  v5.op # "none" =>
    /\ v5.f \in IO!Formats /\ v5.n = v5.f.width /\ v5.done \in 0 .. v5.n
    /\ v5.op = "write" =>
         /\ v5.v \in IO!Values(v5.f) /\ v5.done <= IO!WritePos
         /\ Shows(v2, IO!WritePos - v5.done, v5.done, v5.f, v5.v)
    /\ v1 => \/ v5.done = 0 \/ v5.done = v5.n
             \/ v5.op = "write" /\ v5.cut
             \/ v5.op = "read" /\ v3 = Len(v2)

IOType == [op : {"none", "read", "write"}, f : IO!Formats, v : Int, n : Nat, done : Nat, cut : BOOLEAN]

StreamInv ==
  /\ v5 \in IOType /\ v2 \in Seq(Int) /\ v3 \in Nat /\ v3 <= Len(v2)
  /\ \A o \in DOMAIN v4 : Logged(o)
  /\ Transfer
  /\ IO!RegularFileIsSafe

LEMMA IOIdleFacts == IO!Idle \in IOType /\ IO!Idle.op = "none"
<1>1. IO!Formats # {}
  <2>1. PICK w \in Widths : TRUE
    BY StreamAssumption
  <2>2. [width |-> w, signed |-> TRUE] \in IO!Formats
    BY <2>1 DEF IO!Formats
  <2> QED
    BY <2>2
<1>2. IO!Format0 \in IO!Formats
  BY <1>1 DEF IO!Format0
<1> QED
  BY <1>2 DEF IO!Idle, IOType

LEMMA IOEncodeFacts ==
  ASSUME NEW f \in IO!Formats, NEW v \in IO!Values(f)
  PROVE  IO!Encode(f, v) \in Seq(Int) /\ Len(IO!Encode(f, v)) = f.width
<1>1. PICK w \in Nat : w = f.width
  BY IOValuesFacts
<1>2. v \in Int
  BY IOValuesFacts
<1>3. ASSUME NEW i \in 1 .. w PROVE (v \div IO!Power[w - i]) % BASE \in Int
  <2>1. w - i \in Nat
    OBVIOUS
  <2>2. PICK p \in Nat : p = IO!Power[w - i] /\ p > 0
    BY <2>1, IOPowerFacts, IOPowerPositive
  <2>3. PICK q \in Int : q = v \div p
    BY <1>2, <2>2, IODivision
  <2>4. q % BASE \in Nat
    BY StreamAssumption, IODivision
  <2> QED
    BY <2>2, <2>3, <2>4
<1>4. IO!Encode(f, v) = [i \in 1 .. w |-> (v \div IO!Power[w - i]) % BASE]
  BY <1>1 DEF IO!Encode
<1> DEFINE e == [i \in 1 .. w |-> (v \div IO!Power[w - i]) % BASE]
<1>5. e \in [1 .. w -> Int]
  BY <1>3
<1>6. e \in Seq(Int) /\ Len(e) = w
  <2> HIDE DEF e
  <2> QED
    BY <1>5
<1> QED
  BY <1>1, <1>4, <1>6

(* r is d with the n bytes of b at o. *)
IsOver(r, d, o, b, n) ==
  /\ r \in Seq(Int) /\ Len(r) >= Len(d) /\ Len(r) >= o + n /\ (o = Len(d) => Len(r) = o + n)
  /\ \A i \in 1 .. o : r[i] = d[i]
  /\ \A i \in 1 .. n : r[o + i] = b[i]
  /\ \A i \in 1 .. Len(d) : i > o + n => r[i] = d[i]

LEMMA IOOverwritten ==
  ASSUME NEW d \in Seq(Int), NEW o \in Nat, o <= Len(d), NEW b \in Seq(Int)
  PROVE  IsOver(IO!Overwritten(d, o, b), d, o, b, Len(b))
<1>1. PICK n \in Nat : n = Len(b)
  OBVIOUS
<1>2. PICK z \in Nat : z = Len(d)
  OBVIOUS
<1>3. PICK e \in Nat : e = o + n
  OBVIOUS
<1>4. PICK h, u : h = SubSeq(d, 1, o) /\ u = SubSeq(d, e + 1, Len(d))
  OBVIOUS
<1>5. h \in Seq(Int) /\ Len(h) = o /\ \A i \in 1 .. o : h[i] = d[i]
  BY <1>4, PrefixFacts
<1>6. PICK l \in Nat : l = IF e <= z THEN z - e ELSE 0
  <2>1. (IF e <= z THEN z - e ELSE 0) \in Nat
    OBVIOUS
  <2> QED
    BY <2>1
<1>7. u \in Seq(Int) /\ Len(u) = l /\ \A i \in 1 .. l : u[i] = d[e + i]
  <2>1. CASE e <= z
    BY <1>2, <1>4, <1>6, <2>1, SuffixFacts
  <2>2. CASE ~(e <= z)
    <3>1. u = <<>>
      BY <1>2, <1>4, <2>2
    <3> QED
      BY <1>6, <2>2, <3>1
  <2> QED
    BY <2>1, <2>2
<1>8. PICK x, r : x = h \o b /\ r = x \o u
  OBVIOUS
<1>9. /\ x \in Seq(Int) /\ Len(x) = e
      /\ \A i \in 1 .. e : x[i] = IF i <= o THEN h[i] ELSE b[i - o]
  BY <1>1, <1>3, <1>5, <1>8
<1>10. /\ r \in Seq(Int) /\ Len(r) = e + l
       /\ \A i \in 1 .. e + l : r[i] = IF i <= e THEN x[i] ELSE u[i - e]
  <2>1. r = x \o u /\ x \in Seq(Int) /\ u \in Seq(Int) /\ Len(x) = e /\ Len(u) = l
    BY <1>7, <1>8, <1>9
  <2>2. /\ x \o u \in Seq(Int) /\ Len(x \o u) = Len(x) + Len(u)
        /\ \A i \in 1 .. Len(x) + Len(u) :
             (x \o u)[i] = IF i <= Len(x) THEN x[i] ELSE u[i - Len(x)]
    BY <2>1, ConcatFacts
  <2> QED
    BY <2>1, <2>2
<1>11. r = IO!Overwritten(d, o, b)
  BY <1>1, <1>3, <1>4, <1>8 DEF IO!Overwritten
<1>12. e + l >= z /\ e + l >= e /\ (o = z => e + l = e)
  BY <1>3, <1>6
<1>13. ASSUME NEW i \in 1 .. o PROVE r[i] = d[i]
  <2>1. i \in 1 .. e /\ i \in 1 .. e + l
    BY <1>3
  <2> QED
    BY <2>1, <1>5, <1>9, <1>10
<1>14. ASSUME NEW i \in 1 .. n PROVE r[o + i] = b[i]
  <2>1. o + i \in 1 .. e /\ o + i \in 1 .. e + l /\ ~(o + i <= o) /\ (o + i) - o = i
    BY <1>3
  <2> QED
    BY <2>1, <1>9, <1>10
<1>15. ASSUME NEW i \in 1 .. z, i > e PROVE r[i] = d[i]
  <2>1. i \in 1 .. e + l /\ ~(i <= e) /\ i - e \in 1 .. l /\ e + (i - e) = i
    BY <1>6, <1>15
  <2> QED
    BY <2>1, <1>7, <1>10
<1> QED
  BY <1>1, <1>2, <1>3, <1>10, <1>11, <1>12, <1>13, <1>14, <1>15 DEF IsOver

LEMMA IOInitHolds ==
  ASSUME IO!Init
  PROVE  StreamInv
BY IOIdleFacts DEF IO!Init, StreamInv, Transfer, IO!RegularFileIsSafe

LEMMA IOWriteIntStep ==
  ASSUME StreamInv, NEW f \in IO!Formats, NEW v \in IO!Values(f), IO!WriteInt(f, v)
  PROVE  StreamInv'
<1>1. v5' = [IO!Idle EXCEPT !.op = "write", !.f = f, !.v = v, !.n = f.width] /\ v6' = v6
      /\ UNCHANGED <<v1, v2, v3, v4>>
  BY DEF IO!WriteInt
<1>2. f.width \in Nat /\ v \in Int
  BY IOValuesFacts
<1>3. v5' \in IOType /\ v5'.op = "write" /\ v5'.f = f /\ v5'.n = f.width /\ v5'.v = v /\ v5'.done = 0
  BY <1>1, <1>2, IOIdleFacts DEF IO!Idle, IOType
<1>4. IO!WritePos' \in Nat
  BY <1>1 DEF IO!WritePos, StreamInv
<1>5. Shows(v2', IO!WritePos' - 0, 0, f, v)
  BY DEF Shows
<1>6. Transfer'
  BY <1>2, <1>3, <1>4, <1>5 DEF Transfer
<1> QED
  BY <1>1, <1>3, <1>6 DEF StreamInv, IO!RegularFileIsSafe, Logged

LEMMA IOReadIntStep ==
  ASSUME StreamInv, NEW f \in IO!Formats, IO!ReadInt(f)
  PROVE  StreamInv'
<1>1. v5' = [IO!Idle EXCEPT !.op = "read", !.f = f, !.n = f.width] /\ v6' = v6
      /\ UNCHANGED <<v1, v2, v3, v4>>
  BY DEF IO!ReadInt
<1>2. f.width \in Nat
  BY IOValuesFacts
<1>3. v5' \in IOType /\ v5'.op = "read" /\ v5'.f = f /\ v5'.n = f.width /\ v5'.done = 0
  BY <1>1, <1>2, IOIdleFacts DEF IO!Idle, IOType
<1>4. Transfer'
  BY <1>2, <1>3 DEF Transfer
<1> QED
  BY <1>1, <1>3, <1>4 DEF StreamInv, IO!RegularFileIsSafe, Logged

LEMMA IOSeekStep ==
  ASSUME StreamInv, NEW o \in DOMAIN v4, IO!Seek(o)
  PROVE  StreamInv'
<1>1. v5 = IO!Idle /\ v3' = o /\ UNCHANGED <<v1, v2, v4, v5, v6>>
  BY DEF IO!Seek, IO!Free
<1>2. v5.op = "none"
  BY <1>1, IOIdleFacts
<1>3. o \in Nat /\ v4[o].f.width \in Nat /\ o + v4[o].f.width <= Len(v2)
  BY IOValuesFacts DEF StreamInv, Logged
<1>4. v3' \in Nat /\ v3' <= Len(v2)
  BY <1>1, <1>3 DEF StreamInv
<1>5. Transfer'
  BY <1>1, <1>2 DEF Transfer
<1> QED
  BY <1>1, <1>4, <1>5 DEF StreamInv, IO!RegularFileIsSafe, Logged

LEMMA IOWriteMovesStep ==
  ASSUME StreamInv, NEW c \in Nat, IO!WriteMoves(c)
  PROVE  StreamInv'
<1>1. /\ v5.op = "write" /\ v6 = "ok" /\ c >= 1 /\ c <= v5.n /\ v5.n - v5.done > 0
      /\ v1 => ~v5.cut
      /\ v5 \in IOType /\ v2 \in Seq(Int) /\ v3 \in Nat /\ v3 <= Len(v2)
      /\ \A o \in DOMAIN v4 : Logged(o)
      /\ Transfer /\ IO!RegularFileIsSafe
  BY DEF IO!WriteMoves, IO!Goes, IO!Missing, IO!Asked, StreamInv
<1>2. PICK f \in IO!Formats : f = v5.f
  BY <1>1 DEF Transfer
<1>3. PICK v \in IO!Values(f) : v = v5.v
  BY <1>1, <1>2 DEF Transfer
<1>4. PICK done \in Nat : done = v5.done
  BY <1>1 DEF IOType
<1>5. PICK w \in Nat : w = f.width
  BY IOValuesFacts
<1>6. /\ v5.n = w /\ done <= w /\ (v1 => done = 0 \/ done = w)
      /\ done <= IO!WritePos /\ Shows(v2, IO!WritePos - done, done, f, v)
  BY <1>1, <1>2, <1>3, <1>4, <1>5 DEF Transfer
<1>7. CASE c > IO!Missing
  <2>1. v6' = "overrun" /\ v5' = IO!Idle /\ UNCHANGED <<v1, v2, v3, v4>>
    BY <1>7 DEF IO!WriteMoves, IO!Overrun
  <2>2. ~v1
    BY <1>1, <1>4, <1>6, <1>7 DEF IO!Missing
  <2>3. Transfer'
    BY <2>1, IOIdleFacts DEF Transfer
  <2> QED
    BY <1>1, <2>1, <2>2, <2>3, IOIdleFacts DEF StreamInv, IO!RegularFileIsSafe, Logged
<1>8. CASE ~(c > IO!Missing)
  <2>1. PICK at \in Nat : at = IO!WritePos /\ at <= Len(v2)
    <3>1. IO!WritePos \in Nat /\ IO!WritePos <= Len(v2)
      BY <1>1 DEF IO!WritePos
    <3> QED
      BY <3>1
  <2>2. PICK b : b = SubSeq(IO!Encode(f, v), done + 1, done + c)
    OBVIOUS
  <2>3. done + c <= w
    BY <1>4, <1>6, <1>8 DEF IO!Missing
  <2>4. b \in Seq(Int) /\ Len(b) = c /\ \A i \in 1 .. c : b[i] = IO!Encode(f, v)[done + i]
    <3>1. PICK e \in Seq(Int) : e = IO!Encode(f, v) /\ Len(e) = w
      BY <1>5, IOEncodeFacts
    <3>2. PICK m \in Int, k \in Int : m = done + 1 /\ k = done + c
      OBVIOUS
    <3>3. \A i \in m .. k : e[i] \in Int
      BY <2>3, <3>1, <3>2
    <3>4. /\ SubSeq(e, m, k) \in Seq(Int) /\ Len(SubSeq(e, m, k)) = IF m <= k THEN k - m + 1 ELSE 0
          /\ \A i \in 1 .. k - m + 1 : SubSeq(e, m, k)[i] = e[m + i - 1]
      BY <3>1, <3>3, SubSeqProperties
    <3>5. b = SubSeq(e, m, k) /\ k - m + 1 = c /\ m <= k
      BY <1>1, <2>2, <3>1, <3>2
    <3>6. ASSUME NEW i \in 1 .. c PROVE b[i] = e[done + i]
      <4>1. m + i - 1 = done + i
        BY <3>2
      <4> QED
        BY <3>4, <3>5, <4>1
    <3> QED
      BY <3>1, <3>4, <3>5, <3>6
  <2>5. /\ v2' = IO!Overwritten(v2, at, b)
        /\ v3' = IF v1 THEN v3 + c ELSE v3
        /\ v4' = [o \in {o \in DOMAIN v4 : o + v4[o].f.width <= at \/ o >= at + c} |-> v4[o]]
        /\ v5' = [v5 EXCEPT !.done = @ + c, !.cut = c < v5.n]
        /\ UNCHANGED <<v1, v6>>
    BY <1>2, <1>3, <1>4, <1>8, <2>1, <2>2 DEF IO!WriteMoves, IO!Asked
  <2>6. /\ v2' \in Seq(Int) /\ Len(v2') >= Len(v2) /\ Len(v2') >= at + c
        /\ at = Len(v2) => Len(v2') = at + c
        /\ \A i \in 1 .. at : v2'[i] = v2[i]
        /\ \A i \in 1 .. c : v2'[at + i] = b[i]
        /\ \A i \in 1 .. Len(v2) : i > at + c => v2'[i] = v2[i]
    <3>1. Len(b) = c /\ b \in Seq(Int) /\ v2 \in Seq(Int) /\ at <= Len(v2)
      BY <1>1, <2>1, <2>4
    <3>2. IsOver(IO!Overwritten(v2, at, b), v2, at, b, Len(b))
      BY <3>1, IOOverwritten
    <3>3. IsOver(v2', v2, at, b, c)
      BY <2>5, <3>1, <3>2
    <3> QED
      BY <3>3 DEF IsOver
  <2>7. /\ v5' \in IOType /\ v5'.op = "write" /\ v5'.f = f /\ v5'.n = w /\ v5'.v = v
        /\ v5'.done = done + c /\ v5'.cut = (c < w)
    <3>1. v5 \in IOType /\ v5.done + c \in Nat /\ (c < v5.n) \in BOOLEAN
      BY <1>1, <1>4
    <3>2. v5' \in IOType
      BY <2>5, <3>1 DEF IOType
    <3> QED
      BY <1>1, <1>2, <1>3, <1>4, <1>6, <2>5, <3>2 DEF IOType
  <2>8. IO!WritePos' = at + c
    <3>1. Len(v2') \in Nat
      BY <2>6
    <3> QED
      BY <1>1, <2>1, <2>5, <2>6 DEF IO!WritePos
  <2>9. v3' \in Nat /\ v3' <= Len(v2')
    BY <1>1, <2>1, <2>5, <2>6 DEF IO!WritePos
  <2>10. PICK s \in Nat : at = s + done
    <3>1. at - done \in Nat /\ at = (at - done) + done
      BY <1>6, <2>1
    <3> QED
      BY <3>1
  <2>11. Shows(v2', s, done + c, f, v)
    <3>1. Shows(v2, s, done, f, v)
      <4>1. at - done = s
        BY <2>10
      <4> QED
        BY <1>6, <2>1, <4>1
    <3>2. ASSUME NEW i \in 1 .. done + c PROVE v2'[s + i] = IO!Encode(f, v)[i]
      <4>1. CASE i <= done
        <5>1. i \in 1 .. done /\ s + i \in 1 .. at
          BY <2>10, <4>1
        <5> QED
          BY <2>6, <3>1, <5>1 DEF Shows
      <4>2. CASE ~(i <= done)
        <5>1. PICK j \in 1 .. c : i = done + j
          <6>1. i - done \in 1 .. c /\ i = done + (i - done)
            BY <4>2
          <6> QED
            BY <6>1
        <5>2. s + i = at + j
          BY <2>10, <5>1
        <5>3. v2'[at + j] = IO!Encode(f, v)[done + j]
          BY <2>4, <2>6
        <5> QED
          BY <5>1, <5>2, <5>3
      <4> QED
        BY <4>1, <4>2
    <3> QED
      BY <3>2 DEF Shows
  <2>12. Transfer'
    <3>1. v5'.done \in 0 .. v5'.n /\ v5'.done <= IO!WritePos'
      BY <2>3, <2>7, <2>8, <2>10
    <3>2. IO!WritePos' - v5'.done = s
      BY <2>7, <2>8, <2>10
    <3>3. Shows(v2', IO!WritePos' - v5'.done, v5'.done, f, v)
      BY <2>7, <2>11, <3>2
    <3>4. v1 => done = 0 /\ (done + c = w \/ c < w)
      BY <1>1, <1>4, <1>6, <2>3
    <3>5. v1' => v5'.done = v5'.n \/ v5'.cut
      BY <2>5, <2>7, <3>4
    <3> QED
      BY <1>5, <2>7, <3>1, <3>3, <3>5 DEF Transfer
  <2>13. ASSUME NEW o \in DOMAIN v4' PROVE Logged(o)'
    <3>1. o \in DOMAIN v4 /\ v4'[o] = v4[o] /\ (o + v4[o].f.width <= at \/ o >= at + c)
      BY <2>5
    <3>2. Logged(o)
      BY <1>1, <3>1
    <3>3. PICK k \in Nat : k = v4[o].f.width
      BY <3>2, IOValuesFacts DEF Logged
    <3>4. o \in Nat /\ o + k <= Len(v2) /\ o + k <= Len(v2')
      <4>1. o \in Nat /\ o + k <= Len(v2)
        BY <3>2, <3>3 DEF Logged
      <4>2. Len(v2) \in Nat /\ Len(v2') \in Nat /\ Len(v2') >= Len(v2)
        BY <1>1, <2>6
      <4> QED
        BY <4>1, <4>2
    <3>5. ASSUME NEW i \in 1 .. k PROVE v2'[o + i] = v2[o + i]
      <4>1. CASE o + k <= at
        <5>1. o + i \in 1 .. at
          BY <3>4, <4>1
        <5> QED
          BY <2>6, <5>1
      <4>2. CASE o >= at + c
        <5>1. o + i \in 1 .. Len(v2) /\ o + i > at + c
          BY <1>1, <3>4, <4>2, SMTT(30)
        <5> QED
          BY <2>6, <5>1
      <4> QED
        BY <3>1, <3>3, <4>1, <4>2
    <3>6. Shows(v2', o, k, v4[o].f, v4[o].v)
      BY <3>2, <3>3, <3>5 DEF Logged, Shows
    <3> QED
      BY <3>1, <3>2, <3>3, <3>4, <3>6 DEF Logged
  <2>14. IO!RegularFileIsSafe'
    BY <1>1, <2>5 DEF IO!RegularFileIsSafe
  <2> QED
    BY <2>6, <2>7, <2>9, <2>12, <2>13, <2>14 DEF StreamInv
<1> QED
  BY <1>7, <1>8

LEMMA IOReadMovesStep ==
  ASSUME StreamInv, NEW c \in Nat, IO!ReadMoves(c)
  PROVE  StreamInv'
<1>1. /\ v5.op = "read" /\ v6 = "ok" /\ c >= 1 /\ c <= v5.n /\ v5.n - v5.done > 0
      /\ v3 + c <= Len(v2) /\ (v1 => c = v5.n \/ v3 + c = Len(v2))
      /\ v5 \in IOType /\ v2 \in Seq(Int) /\ v3 \in Nat /\ v3 <= Len(v2)
      /\ \A o \in DOMAIN v4 : Logged(o)
      /\ Transfer /\ IO!RegularFileIsSafe
  BY DEF IO!ReadMoves, IO!Goes, IO!Missing, IO!Asked, StreamInv
<1>2. PICK done \in Nat : done = v5.done
  BY <1>1 DEF IOType
<1>3. PICK w \in Nat : w = v5.n
  BY <1>1 DEF IOType
<1>4. Len(v2) \in Nat
  BY <1>1
<1>5. v1 => done = 0
  <2>1. v1 => v5.done = 0 \/ v5.done = v5.n \/ v3 = Len(v2)
    BY <1>1 DEF Transfer
  <2> QED
    BY <1>1, <1>2, <1>4, <2>1
<1>7. CASE c > IO!Missing
  <2>1. v6' = "overrun" /\ v5' = IO!Idle /\ UNCHANGED <<v1, v2, v3, v4>>
    BY <1>7 DEF IO!ReadMoves, IO!Overrun
  <2>2. ~v1
    BY <1>1, <1>2, <1>3, <1>5, <1>7 DEF IO!Missing
  <2>3. Transfer'
    BY <2>1, IOIdleFacts DEF Transfer
  <2> QED
    BY <1>1, <2>1, <2>2, <2>3, IOIdleFacts DEF StreamInv, IO!RegularFileIsSafe, Logged
<1>8. CASE ~(c > IO!Missing)
  <2>1. v3' = v3 + c /\ v5' = [v5 EXCEPT !.done = @ + c] /\ UNCHANGED <<v1, v2, v4, v6>>
    BY <1>8 DEF IO!ReadMoves
  <2>2. v5' \in IOType /\ v5'.op = "read" /\ v5'.f = v5.f /\ v5'.n = w /\ v5'.done = done + c
    <3>1. v5.done + c \in Nat
      BY <1>2
    <3> QED
      BY <1>1, <1>2, <1>3, <2>1, <3>1 DEF IOType
  <2>3. done + c <= w
    BY <1>2, <1>3, <1>8 DEF IO!Missing
  <2>4. v1' => v5'.done = v5'.n \/ v3' = Len(v2')
    BY <1>1, <1>2, <1>3, <1>5, <2>1, <2>2
  <2>5. Transfer'
    <3>1. v5.f \in IO!Formats /\ v5.n = v5.f.width
      BY <1>1 DEF Transfer
    <3>2. v5'.done \in 0 .. v5'.n
      BY <2>2, <2>3
    <3> QED
      BY <1>3, <2>2, <2>4, <3>1, <3>2 DEF Transfer
  <2> QED
    BY <1>1, <2>1, <2>2, <2>5 DEF StreamInv, IO!RegularFileIsSafe, Logged
<1> QED
  BY <1>7, <1>8

LEMMA IOStopsStep ==
  ASSUME StreamInv, IO!Stops
  PROVE  StreamInv'
<1>1. v5' = IO!Idle /\ UNCHANGED <<v1, v2, v3, v4, v6>>
  BY DEF IO!Stops
<1>2. Transfer'
  BY <1>1, IOIdleFacts DEF Transfer
<1> QED
  BY <1>1, <1>2, IOIdleFacts DEF StreamInv, IO!RegularFileIsSafe, Logged

LEMMA IOEndsStep ==
  ASSUME StreamInv, IO!Ends
  PROVE  StreamInv'
<1>1. /\ v5' = IO!Idle /\ UNCHANGED <<v1, v2, v3, v6>> /\ v5.op # "none"
      /\ v2 \in Seq(Int) /\ v3 \in Nat /\ v3 <= Len(v2)
      /\ v5 \in IOType /\ Transfer /\ \A o \in DOMAIN v4 : Logged(o)
  BY DEF IO!Ends, StreamInv
<1>2. Transfer'
  BY <1>1, IOIdleFacts DEF Transfer
<1>3. \A o \in DOMAIN v4' : Logged(o)'
  <2>1. CASE v5.op # "write"
    <3>1. v4' = v4
      BY <2>1 DEF IO!Ends
    <3> QED
      BY <1>1, <3>1 DEF Logged
  <2>2. CASE v5.op = "write"
    <3>1. PICK f \in IO!Formats : f = v5.f
      BY <1>1 DEF Transfer
    <3>2. PICK v \in IO!Values(f) : v = v5.v
      BY <1>1, <2>2, <3>1 DEF Transfer
    <3>3. PICK w \in Nat : w = f.width
      BY IOValuesFacts
    <3>4. v5.n = w /\ v5.done = w
      BY <1>1, <3>1, <3>3 DEF Transfer, IO!Ends, IO!Missing, IOType
    <3>5. w <= IO!WritePos /\ Shows(v2, IO!WritePos - w, w, f, v)
      BY <1>1, <2>2, <3>1, <3>2, <3>4 DEF Transfer
    <3>6. IO!WritePos \in Nat /\ IO!WritePos <= Len(v2) /\ Len(v2) \in Nat
      BY <1>1 DEF IO!WritePos
    <3>7. PICK at \in Nat : at = IO!WritePos - w /\ at + w <= Len(v2)
      <4>1. IO!WritePos - w \in Nat /\ (IO!WritePos - w) + w <= Len(v2)
        BY <3>5, <3>6
      <4> QED
        BY <4>1
    <3>8. v4' = [o \in DOMAIN v4 \cup {at} |-> IF o = at THEN [f |-> f, v |-> v] ELSE v4[o]]
      BY <2>2, <3>1, <3>2, <3>4, <3>7 DEF IO!Ends
    <3>9. ASSUME NEW o \in DOMAIN v4' PROVE Logged(o)'
      <4>1. CASE o = at
        <5>1. v4'[o].f = f /\ v4'[o].v = v
          BY <3>8, <4>1
        <5> QED
          BY <1>1, <3>3, <3>5, <3>7, <4>1, <5>1 DEF Logged
      <4>2. CASE o # at
        <5>1. o \in DOMAIN v4 /\ v4'[o] = v4[o]
          BY <3>8, <4>2
        <5> QED
          BY <1>1, <5>1 DEF Logged
      <4> QED
        BY <4>1, <4>2
    <3> QED
      BY <3>9
  <2> QED
    BY <2>1, <2>2
<1> QED
  BY <1>1, <1>2, <1>3, IOIdleFacts DEF StreamInv, IO!RegularFileIsSafe

LEMMA IONextKeeps ==
  ASSUME StreamInv, IO!Next
  PROVE  StreamInv'
<1>0. \A c \in Widths \cup {1} : c \in Nat
  BY StreamAssumption
<1>1. ASSUME NEW f \in IO!Formats, NEW v \in IO!Values(f), IO!WriteInt(f, v) PROVE StreamInv'
  BY <1>1, IOWriteIntStep
<1>2. ASSUME NEW f \in IO!Formats, IO!ReadInt(f) PROVE StreamInv'
  BY <1>2, IOReadIntStep
<1>3. ASSUME NEW o \in DOMAIN v4, IO!Seek(o) PROVE StreamInv'
  BY <1>3, IOSeekStep
<1>4. ASSUME NEW c \in Nat, IO!WriteMoves(c) \/ IO!ReadMoves(c) PROVE StreamInv'
  BY <1>4, IOWriteMovesStep, IOReadMovesStep
<1>5. ASSUME UNCHANGED IO!vars PROVE StreamInv'
  BY <1>5 DEF IO!vars, StreamInv, Transfer, IO!RegularFileIsSafe, Logged, IO!WritePos
<1> QED
  BY <1>0, <1>1, <1>2, <1>3, <1>4, <1>5, IOStopsStep, IOEndsStep DEF IO!Next

LEMMA IOInvHolds ==
  ASSUME StreamInv
  PROVE  IO!IntsComeBack /\ IO!RegularFileIsSafe
<1>1. ASSUME NEW o \in DOMAIN v4
      PROVE  /\ o + v4[o].f.width <= Len(v2)
             /\ IO!Decode(v4[o].f, SubSeq(v2, o + 1, o + v4[o].f.width)) = v4[o].v
  <2>1. Logged(o) /\ v2 \in Seq(Int)
    BY DEF StreamInv
  <2>2. PICK f \in IO!Formats : f = v4[o].f
    BY <2>1 DEF Logged
  <2>3. PICK v \in IO!Values(f) : v = v4[o].v
    BY <2>1, <2>2 DEF Logged
  <2>4. PICK w \in Nat : w = f.width
    BY IOValuesFacts
  <2>5. o \in Nat /\ o + w <= Len(v2) /\ Shows(v2, o, w, f, v)
    BY <2>1, <2>2, <2>3, <2>4 DEF Logged
  <2>6. PICK e : e = SubSeq(v2, o + 1, o + w)
    OBVIOUS
  <2>7. \A i \in 1 .. w : e[i] = v2[o + i]
    <3>1. PICK m \in Int, k \in Int : m = o + 1 /\ k = o + w
      BY <2>5
    <3>2. \A i \in m .. k : v2[i] \in Int
      BY <2>1, <2>5, <3>1
    <3>3. \A i \in 1 .. k - m + 1 : SubSeq(v2, m, k)[i] = v2[m + i - 1]
      BY <2>1, <3>2, SubSeqProperties
    <3>4. ASSUME NEW i \in 1 .. w PROVE e[i] = v2[o + i]
      <4>1. i \in 1 .. k - m + 1 /\ m + i - 1 = o + i
        BY <2>5, <3>1
      <4> QED
        BY <2>6, <3>1, <3>3, <4>1
    <3> QED
      BY <3>4
  <2>8. \A i \in 1 .. f.width : e[i] = IO!Encode(f, v)[i]
    BY <2>4, <2>5, <2>7 DEF Shows
  <2>9. IO!Decode(f, e) = v
    BY <2>8, IODecodes
  <2> QED
    BY <2>2, <2>3, <2>4, <2>5, <2>6, <2>9
<1> QED
  BY <1>1 DEF IO!IntsComeBack, StreamInv

-----------------------------------------------------------------------------
(* cache.c *)

(* The instance counts like the module FiniteSets. *)
LEMMA LRUCounts ==
  ASSUME NEW S
  PROVE  LRU!Cardinality(S) = Cardinality(S)
  BY DEF LRU!Cardinality, Cardinality

(* s is a sequence of length k. *)
IsRow(s, k) == s \in [1 .. k -> {s[i] : i \in 1 .. k}]

(* Something undefined has happened, or node n is freed. *)
Broken(r, n) ==
  /\ "harm" \in DOMAIN r /\ "nodes" \in DOMAIN r
  /\ \/ r.harm # "ok"
     \/ /\ n \in DOMAIN r.nodes /\ "freed" \in DOMAIN r.nodes[n] /\ r.nodes[n].freed = TRUE
        /\ \E k \in Nat : IsRow(r.nodes, k)

LEMMA LRUBrokenHarmed ==
  ASSUME NEW r, NEW z, Broken(r, z), NEW h, h # "ok"
  PROVE  Broken(LRU!Harmed(r, h), z)
  BY DEF Broken, LRU!Harmed

LEMMA LRUBrokenField ==
  ASSUME NEW r, NEW z, Broken(r, z), NEW f, f \notin {"harm", "nodes"}, NEW v
  PROVE  Broken([r EXCEPT ![f] = v], z)
  BY DEF Broken

LEMMA LRUBrokenNode ==
  ASSUME NEW r, NEW z, Broken(r, z), NEW n, NEW x,
         n = z => "freed" \in DOMAIN x /\ x.freed = TRUE
  PROVE  Broken([r EXCEPT !.nodes[n] = x], z)
<1> DEFINE s == [r EXCEPT !.nodes[n] = x]
<1>1. "harm" \in DOMAIN s /\ "nodes" \in DOMAIN s /\ s.harm = r.harm
  BY DEF Broken
<1>2. CASE r.harm # "ok"
  BY <1>1, <1>2 DEF Broken
<1>3. CASE r.harm = "ok"
  <2>1. PICK k \in Nat : IsRow(r.nodes, k)
    BY <1>3 DEF Broken
  <2>2. s.nodes = [r.nodes EXCEPT ![n] = x]
    BY <1>1 DEF Broken
  <2>3. IsRow(s.nodes, k)
    BY <2>1, <2>2 DEF IsRow
  <2>4. z \in DOMAIN s.nodes /\ "freed" \in DOMAIN s.nodes[z] /\ s.nodes[z].freed = TRUE
    BY <1>3, <2>2 DEF Broken
  <2> QED
    BY <1>1, <2>3, <2>4 DEF Broken
<1> QED
  BY <1>2, <1>3

LEMMA LRUBrokenNodeField ==
  ASSUME NEW r, NEW z, Broken(r, z), NEW n, NEW f, f # "freed", NEW m
  PROVE  Broken([r EXCEPT !.nodes[n][f] = m], z)
<1> DEFINE x == [r.nodes[n] EXCEPT ![f] = m]
<1>1. [r EXCEPT !.nodes[n][f] = m] = [r EXCEPT !.nodes[n] = x]
  OBVIOUS
<1>2. CASE r.harm # "ok"
  BY <1>2 DEF Broken
<1>3. CASE r.harm = "ok"
  <2>1. n = z => "freed" \in DOMAIN x /\ x.freed = TRUE
    BY <1>3 DEF Broken
  <2> HIDE DEF x
  <2> QED
    BY <1>1, <2>1, LRUBrokenNode
<1> QED
  BY <1>2, <1>3

LEMMA LRUBrokenFreed ==
  ASSUME NEW r, NEW z, Broken(r, z), NEW n
  PROVE  Broken([r EXCEPT !.nodes[n].freed = TRUE], z)
<1> DEFINE x == [r.nodes[n] EXCEPT !.freed = TRUE]
<1>1. [r EXCEPT !.nodes[n].freed = TRUE] = [r EXCEPT !.nodes[n] = x]
  OBVIOUS
<1>2. CASE r.harm # "ok"
  BY <1>2 DEF Broken
<1>3. CASE r.harm = "ok"
  <2>1. n = z => "freed" \in DOMAIN x /\ x.freed = TRUE
    BY <1>3 DEF Broken
  <2> HIDE DEF x
  <2> QED
    BY <1>1, <2>1, LRUBrokenNode
<1> QED
  BY <1>2, <1>3

LEMMA LRUBrokenReach ==
  ASSUME NEW r, NEW z, Broken(r, z), NEW n
  PROVE  Broken(LRU!Reach(r, n), z)
  BY LRUBrokenHarmed DEF LRU!Reach

LEMMA LRUBrokenSet ==
  ASSUME NEW r, NEW z, Broken(r, z), NEW n, NEW m
  PROVE  /\ Broken(LRU!SetNext(r, n, m), z) /\ Broken(LRU!SetPrev(r, n, m), z)
         /\ Broken(LRU!MaySetNext(r, n, m), z) /\ Broken(LRU!MaySetPrev(r, n, m), z)
<1>1. PICK s : s = LRU!Reach(r, n)
  OBVIOUS
<1>2. Broken(s, z)
  BY <1>1, LRUBrokenReach
<1>3. Broken([s EXCEPT !.nodes[n].next = m], z) /\ Broken([s EXCEPT !.nodes[n].prev = m], z)
  BY <1>2, LRUBrokenNodeField
<1>4. Broken(LRU!SetNext(r, n, m), z) /\ Broken(LRU!SetPrev(r, n, m), z)
  BY <1>1, <1>2, <1>3 DEF LRU!SetNext, LRU!SetPrev
<1> QED
  BY <1>4 DEF LRU!MaySetNext, LRU!MaySetPrev

LEMMA LRUBrokenNodeFree ==
  ASSUME NEW r, NEW z, Broken(r, z), NEW n
  PROVE  Broken(LRU!NodeFree(r, n), z)
<1>1. Broken([r EXCEPT !.nodes[n].freed = TRUE], z) /\ Broken(LRU!Harmed(r, "null"), z) /\ Broken(LRU!Harmed(r, "twice"), z)
  BY LRUBrokenFreed, LRUBrokenHarmed
<1> QED
  BY <1>1 DEF LRU!NodeFree

LEMMA LRUAppend ==
  ASSUME NEW s, NEW k \in Nat, IsRow(s, k), NEW x
  PROVE  /\ Len(s) = k /\ IsRow(Append(s, x), k + 1)
         /\ \A i \in 1 .. k : Append(s, x)[i] = s[i]
<1> DEFINE S == {s[i] : i \in 1 .. k}
<1>1. s \in Seq(S) /\ Len(s) = k
  BY DEF IsRow
<1>2. PICK T : S \subseteq T /\ x \in T
  <2>1. S \subseteq S \cup {x} /\ x \in S \cup {x}
    OBVIOUS
  <2> QED
    BY <2>1
<1>3. s \in Seq(T)
  <2> HIDE DEF S
  <2> QED
    BY <1>1, <1>2
<1>4. Append(s, x) \in Seq(T) /\ Len(Append(s, x)) = k + 1 /\ \A i \in 1 .. k : Append(s, x)[i] = s[i]
  <2> HIDE DEF S
  <2> QED
    BY <1>1, <1>2, <1>3
<1>5. PICK a : a = Append(s, x)
  OBVIOUS
<1>6. a \in Seq(T) /\ Len(a) = k + 1
  BY <1>4, <1>5
<1>7. a \in [1 .. k + 1 -> T]
  BY <1>6
<1>8. IsRow(a, k + 1)
  BY <1>7 DEF IsRow
<1> QED
  BY <1>1, <1>4, <1>5, <1>8

LEMMA LRUBrokenHtInsert ==
  ASSUME NEW r, NEW z, Broken(r, z), NEW k
  PROVE  Broken(LRU!HtInsert(r, k), z)
<1>1. PICK x : x = LRU!Node(k, LRU!NULL)
  OBVIOUS
<1>2. PICK a : a = Append(r.nodes, x)
  OBVIOUS
<1>3. PICK q : q = [r EXCEPT !.nodes = a]
  OBVIOUS
<1>4. Broken(q, z)
  <2>1. CASE r.harm # "ok"
    BY <1>3, <2>1 DEF Broken
  <2>2. CASE r.harm = "ok"
    <3>1. PICK n \in Nat : IsRow(r.nodes, n)
      BY <2>2 DEF Broken
    <3>2. /\ IsRow(a, n + 1)
          /\ \A i \in 1 .. n : a[i] = r.nodes[i]
      BY <1>2, <3>1, LRUAppend
    <3>3. q.nodes = a /\ q.harm = r.harm /\ "harm" \in DOMAIN q /\ "nodes" \in DOMAIN q
      BY <1>3 DEF Broken
    <3>4. z \in 1 .. n
      BY <2>2, <3>1 DEF Broken, IsRow
    <3>5. z \in DOMAIN a /\ "freed" \in DOMAIN a[z] /\ a[z].freed = TRUE
      BY <2>2, <3>2, <3>4 DEF Broken, IsRow
    <3>6. n + 1 \in Nat
      OBVIOUS
    <3> QED
      BY <3>2, <3>3, <3>5, <3>6 DEF Broken
  <2> QED
    BY <2>1, <2>2
<1>5. PICK s : s = [q EXCEPT !.used = @ + 1]
  OBVIOUS
<1>6. Broken(s, z)
  BY <1>4, <1>5, LRUBrokenField
<1>7. s = [r EXCEPT !.nodes = Append(@, LRU!Node(k, LRU!NULL)), !.used = @ + 1]
  BY <1>1, <1>2, <1>3, <1>5
<1>8. PICK n : n = Len(r.nodes) + 1
  OBVIOUS
<1>9. PICK e : e = LRU!ChainEnd(r, Hash[k])
  OBVIOUS
<1>10. Broken([s EXCEPT !.nodes[e].hash = n], z)
  BY <1>6, LRUBrokenNodeField
<1>11. Broken([s EXCEPT !.table[Hash[k]] = n], z)
  BY <1>6 DEF Broken
<1> QED
  BY <1>7, <1>8, <1>9, <1>10, <1>11 DEF LRU!HtInsert

LEMMA LRUBrokenLinkFirst ==
  ASSUME NEW r, NEW z, Broken(r, z), NEW n
  PROVE  Broken(LRU!LinkFirst(r, n), z)
<1>1. PICK p : p = LRU!MaySetPrev(r, r.head, n)
  OBVIOUS
<1>2. Broken(p, z)
  BY <1>1, LRUBrokenSet
<1>3. PICK q : q = [p EXCEPT !.nodes[n].next = r.head]
  OBVIOUS
<1>4. Broken(q, z)
  BY <1>2, <1>3, LRUBrokenNodeField
<1>5. PICK s : s = [q EXCEPT !.nodes[n].prev = LRU!NULL]
  OBVIOUS
<1>6. Broken(s, z)
  BY <1>4, <1>5, LRUBrokenNodeField
<1>7. s = [LRU!MaySetPrev(r, r.head, n) EXCEPT !.nodes[n].next = r.head, !.nodes[n].prev = LRU!NULL]
  BY <1>1, <1>3, <1>5
<1>8. Broken([s EXCEPT !.head = n, !.tail = IF @ = LRU!NULL THEN n ELSE @], z)
  BY <1>6 DEF Broken
<1> QED
  BY <1>7, <1>8 DEF LRU!LinkFirst
LEMMA LRUBrokenUnlink ==
  ASSUME NEW r, NEW z, Broken(r, z), NEW n
  PROVE  Broken(LRU!Unlink(r, n), z)
  BY LRUBrokenSet DEF LRU!Unlink

LEMMA LRUBrokenLinkAgain ==
  ASSUME NEW r, NEW z, Broken(r, z), NEW n
  PROVE  Broken(LRU!LinkAgain(r, n), z)
<1>1. PICK q : q = [r EXCEPT !.nodes[n].next = r.head]
  OBVIOUS
<1>2. Broken(q, z)
  BY <1>1, LRUBrokenNodeField
<1>3. PICK s : s = [q EXCEPT !.nodes[n].prev = LRU!NULL]
  OBVIOUS
<1>4. Broken(s, z)
  BY <1>2, <1>3, LRUBrokenNodeField
<1>5. s = [r EXCEPT !.nodes[n].next = r.head, !.nodes[n].prev = LRU!NULL]
  BY <1>1, <1>3
<1>6. Broken([s EXCEPT !.head = n, !.tail = IF r.tail = LRU!NULL THEN n ELSE r.tail], z)
  BY <1>4 DEF Broken
<1>7. LRU!LinkAgain(r, n) = [s EXCEPT !.head = n, !.tail = IF r.tail = LRU!NULL THEN n ELSE r.tail]
  BY <1>5 DEF LRU!LinkAgain
<1> QED
  BY <1>6, <1>7

LEMMA LRUBrokenPurge ==
  ASSUME NEW r, NEW z, Broken(r, z)
  PROVE  Broken(LRU!Purge(r), z)
<1>1. PICK n : n = IF r.type = "MRU" THEN r.head ELSE r.tail
  OBVIOUS
<1>2. PICK s : s = LRU!Reach(r, n)
  OBVIOUS
<1>3. Broken(s, z)
  BY <1>2, LRUBrokenReach
<1>4. PICK o : o = IF r.type = "MRU" THEN s.nodes[n].next ELSE s.nodes[n].prev
  OBVIOUS
<1>5. PICK t : t = IF r.type = "MRU" THEN LRU!SetPrev([s EXCEPT !.head = o], o, LRU!NULL)
                   ELSE LRU!SetNext([s EXCEPT !.tail = o], o, LRU!NULL)
  OBVIOUS
<1>6. Broken(t, z)
  <2>1. Broken([s EXCEPT !.head = o], z) /\ Broken([s EXCEPT !.tail = o], z)
    BY <1>3, LRUBrokenField
  <2> QED
    BY <1>5, <2>1, LRUBrokenSet
<1>7. PICK u : u = LRU!NodeFree(t, n)
  OBVIOUS
<1>8. Broken(u, z)
  BY <1>6, <1>7, LRUBrokenNodeFree
<1>9. Broken([u EXCEPT !.used = @ - 1], z)
  BY <1>8, LRUBrokenField
<1>10. Broken(LRU!NodeFree([u EXCEPT !.used = @ - 1], s.nodes[n].hash), z)
  BY <1>9, LRUBrokenNodeFree
<1>11. LRU!Purge(r) = IF s.harm # "ok" THEN s
                  ELSE LRU!NodeFree([u EXCEPT !.used = @ - 1], s.nodes[n].hash)
  BY <1>1, <1>2, <1>4, <1>5, <1>7 DEF LRU!Purge
<1> QED
  BY <1>3, <1>10, <1>11

(* The nodes cache_clear frees *)
GoneOf(r) ==
  LET walk[n \in 0 .. Len(r.nodes)] ==
        IF n = LRU!NULL THEN {} ELSE {n} \cup walk[r.nodes[n].next]
  IN walk[r.head]

ClearedOf(r, gone) ==
  IF \E n \in gone : r.nodes[n].freed THEN LRU!Harmed(r, "stale")
  ELSE [r EXCEPT !.head = LRU!NULL, !.tail = LRU!NULL, !.used = @ - LRU!Cardinality(gone),
                 !.nodes = [n \in 1 .. Len(@) |->
                              IF n \in gone THEN [r.nodes[n] EXCEPT !.freed = TRUE]
                              ELSE r.nodes[n]]]

LEMMA LRUClearedOf ==
  ASSUME NEW r
  PROVE  LRU!Cleared(r) = ClearedOf(r, GoneOf(r))
  BY DEF LRU!Cleared, ClearedOf, GoneOf

LEMMA LRUBrokenClearedOf ==
  ASSUME NEW r, NEW z, Broken(r, z), NEW gone
  PROVE  Broken(ClearedOf(r, gone), z)
<1>1. Broken(LRU!Harmed(r, "stale"), z)
  BY LRUBrokenHarmed
<1>2. PICK a : a = [n \in 1 .. Len(r.nodes) |->
                   IF n \in gone THEN [r.nodes[n] EXCEPT !.freed = TRUE] ELSE r.nodes[n]]
  OBVIOUS
<1>3. PICK s : s = [r EXCEPT !.head = LRU!NULL, !.tail = LRU!NULL, !.used = @ - LRU!Cardinality(gone), !.nodes = a]
  OBVIOUS
<1>4. /\ "harm" \in DOMAIN s /\ "nodes" \in DOMAIN s /\ s.harm = r.harm /\ s.nodes = a
  BY <1>3 DEF Broken
<1>5. Broken(s, z)
  <2>1. CASE r.harm # "ok"
    BY <1>4, <2>1 DEF Broken
  <2>2. CASE r.harm = "ok"
    <3>1. PICK n \in Nat : IsRow(r.nodes, n)
      BY <2>2 DEF Broken
    <3>2. Len(r.nodes) = n
      BY <3>1, LRUAppend
    <3>3. IsRow(a, n)
      BY <1>2, <3>2 DEF IsRow
    <3>4. z \in 1 .. n /\ "freed" \in DOMAIN r.nodes[z] /\ r.nodes[z].freed = TRUE
      BY <2>2, <3>1 DEF Broken, IsRow
    <3>5. a[z] = (IF z \in gone THEN [r.nodes[z] EXCEPT !.freed = TRUE] ELSE r.nodes[z]) /\ z \in DOMAIN a
      BY <1>2, <3>2, <3>4
    <3>6. "freed" \in DOMAIN a[z] /\ a[z].freed = TRUE
      BY <3>4, <3>5
    <3> QED
      BY <1>4, <3>3, <3>5, <3>6 DEF Broken
  <2> QED
    BY <2>1, <2>2
<1>6. ClearedOf(r, gone) = IF \E n \in gone : r.nodes[n].freed THEN LRU!Harmed(r, "stale") ELSE s
  BY <1>2, <1>3 DEF ClearedOf
<1> QED
  BY <1>1, <1>5, <1>6

(* The cache is one of which nothing is said: something undefined has      *)
(* happened or a node was freed.                                           *)
Spoilt(r) == \E z : Broken(r, z)

LEMMA LRUEmptyFacts ==
  ASSUME NEW type, NEW cap, NEW frees, NEW harm, harm # "ok"
  PROVE  Spoilt(LRU!Empty(type, cap, frees, harm))
<1>1. PICK r : r = LRU!Empty(type, cap, frees, harm)
  OBVIOUS
<1>2. "harm" \in DOMAIN r /\ "nodes" \in DOMAIN r /\ r.harm # "ok"
  BY <1>1 DEF LRU!Empty
<1>3. Broken(r, 0)
  BY <1>2 DEF Broken
<1> QED
  BY <1>1, <1>3 DEF Spoilt

LEMMA LRULeavesSpoilt ==
  ASSUME NEW r, Spoilt(r), LRU!Leaves(r)
  PROVE  Spoilt(v1')
<1>1. CASE r.harm = "ok"
  BY <1>1 DEF LRU!Leaves
<1>2. CASE r.harm # "ok"
  BY <1>2, LRUEmptyFacts DEF LRU!Leaves
<1> QED
  BY <1>1, <1>2

LEMMA LRUSpoiltOps ==
  ASSUME NEW r, Spoilt(r), NEW n, NEW k
  PROVE  /\ Spoilt(LRU!LinkFirst(r, n)) /\ Spoilt(LRU!HtInsert(r, k)) /\ Spoilt(LRU!Purge(r))
         /\ Spoilt(LRU!Unlink(r, n)) /\ Spoilt(LRU!NodeFree(r, n)) /\ Spoilt(LRU!LinkAgain(r, n))
<1>1. PICK z : Broken(r, z)
  BY DEF Spoilt
<1>2. /\ Broken(LRU!LinkFirst(r, n), z) /\ Broken(LRU!HtInsert(r, k), z) /\ Broken(LRU!Purge(r), z)
      /\ Broken(LRU!Unlink(r, n), z) /\ Broken(LRU!NodeFree(r, n), z) /\ Broken(LRU!LinkAgain(r, n), z)
  BY <1>1, LRUBrokenLinkFirst, LRUBrokenHtInsert, LRUBrokenPurge, LRUBrokenUnlink, LRUBrokenNodeFree, LRUBrokenLinkAgain
<1> QED
  BY <1>2 DEF Spoilt

LEMMA LRUSpoiltStale ==
  ASSUME NEW r, Spoilt(r)
  PROVE  Spoilt(LRU!Harmed(r, "stale")) /\ Spoilt(LRU!Cleared(r))
<1>1. PICK z : Broken(r, z)
  BY DEF Spoilt
<1>2. Broken(LRU!Harmed(r, "stale"), z) /\ Broken(ClearedOf(r, GoneOf(r)), z)
  BY <1>1, LRUBrokenHarmed, LRUBrokenClearedOf
<1> QED
  BY <1>2, LRUClearedOf DEF Spoilt

LEMMA LRUSpoiltField ==
  ASSUME NEW r, Spoilt(r), NEW n, NEW f, f # "freed", NEW m
  PROVE  Spoilt([r EXCEPT !.nodes[n][f] = m])
<1>1. PICK z : Broken(r, z)
  BY DEF Spoilt
<1>2. Broken([r EXCEPT !.nodes[n][f] = m], z)
  BY <1>1, LRUBrokenNodeField
<1> QED
  BY <1>2 DEF Spoilt
-----------------------------------------------------------------------------
Chains == {Hash[k] : k \in Keys}

NodeType(N) ==
  [key : Keys, next : 0 .. N, prev : 0 .. N, hash : 0 .. N, retain : 0 .. SIZE - 1, freed : {FALSE}]

CacheType(N) ==
  [type : {"none", "LRU", "MRU"}, size : Capacities \cup {0}, frees : BOOLEAN, harm : {"ok"},
   head : 0 .. N, tail : 0 .. N, retained : 0 .. N, used : {N},
   table : [Chains -> 0 .. N], nodes : [1 .. N -> NodeType(N)]]

(* The first of the N nodes behind n in chain h is m, or none if m is 0. *)
LeadsTo(ns, N, n, h, m) ==
  /\ m = 0 => \A x \in n + 1 .. N : Hash[ns[x].key] # h
  /\ m # 0 => /\ m \in n + 1 .. N /\ Hash[ns[m].key] = h
              /\ \A x \in n + 1 .. m - 1 : Hash[ns[x].key] # h

Chained(r, N) ==
  /\ \A h \in Chains : LeadsTo(r.nodes, N, 0, h, r.table[h])
  /\ \A n \in 1 .. N : LeadsTo(r.nodes, N, n, Hash[r.nodes[n].key], r.nodes[n].hash)

Distinct(r, N) == \A n, m \in 1 .. N : r.nodes[n].key = r.nodes[m].key => n = m

ByAge(r, N) ==
  r.retained = 0 =>
    /\ r.head = N /\ r.tail = (IF N = 0 THEN 0 ELSE 1)
    /\ \A n \in 1 .. N : /\ r.nodes[n].next = n - 1
                         /\ r.nodes[n].prev = (IF n = N THEN 0 ELSE n + 1)
                         /\ r.nodes[n].retain \in {0, SIZE - 1}

Indexed(r, N) == r \in CacheType(N) /\ Chained(r, N) /\ Distinct(r, N) /\ ByAge(r, N)

CacheInv == Spoilt(v1) \/ \E N \in Nat : Indexed(v1, N)

LEMMA LRULen ==
  ASSUME NEW N \in Nat, NEW r, r \in CacheType(N)
  PROVE  Len(r.nodes) = N /\ r.nodes \in Seq(NodeType(N))
  BY DEF CacheType

LEMMA LRUEmptyIndexed ==
  ASSUME NEW type \in {"none", "LRU", "MRU"}, NEW cap \in Capacities \cup {0}, NEW frees \in BOOLEAN
  PROVE  Indexed(LRU!Empty(type, cap, frees, "ok"), 0)
<1>1. PICK r : r = LRU!Empty(type, cap, frees, "ok")
  OBVIOUS
<1>2. /\ r.head = 0 /\ r.tail = 0 /\ r.retained = 0 /\ r.nodes = <<>>
      /\ r.table = [h \in Chains |-> 0]
  BY <1>1 DEF LRU!Empty, LRU!NULL, Chains
<1>3. r \in CacheType(0)
  <2>1. <<>> \in [1 .. 0 -> NodeType(0)]
    OBVIOUS
  <2>2. [h \in Chains |-> 0] \in [Chains -> 0 .. 0]
    OBVIOUS
  <2> QED
    BY <1>1, <2>1, <2>2 DEF LRU!Empty, LRU!NULL, Chains, CacheType
<1>4. Chained(r, 0)
  BY <1>2 DEF Chained, LeadsTo
<1>5. Distinct(r, 0) /\ ByAge(r, 0)
  BY <1>2 DEF Distinct, ByAge
<1> QED
  BY <1>1, <1>3, <1>4, <1>5 DEF Indexed

(* The chains of a cache are those of another with the same keys and links. *)
LEMMA LRUSameIndex ==
  ASSUME NEW N \in Nat, NEW r, NEW s, Chained(r, N), Distinct(r, N), s.table = r.table,
         \A n \in 1 .. N : s.nodes[n].key = r.nodes[n].key /\ s.nodes[n].hash = r.nodes[n].hash
  PROVE  Chained(s, N) /\ Distinct(s, N)
<1>1. ASSUME NEW n \in Nat, n <= N, NEW h, NEW m, LeadsTo(r.nodes, N, n, h, m)
      PROVE  LeadsTo(s.nodes, N, n, h, m)
  <2>1. \A x \in n + 1 .. N : s.nodes[x].key = r.nodes[x].key
    BY <1>1
  <2>2. CASE m = 0
    BY <1>1, <2>1, <2>2 DEF LeadsTo
  <2>3. CASE m # 0
    <3>1. m \in n + 1 .. N /\ \A x \in n + 1 .. m - 1 : x \in n + 1 .. N
      BY <1>1, <2>3 DEF LeadsTo
    <3> QED
      BY <1>1, <2>1, <2>3, <3>1 DEF LeadsTo
  <2> QED
    BY <2>2, <2>3
<1>2. ASSUME NEW h \in Chains PROVE LeadsTo(s.nodes, N, 0, h, s.table[h])
  <2>1. LeadsTo(r.nodes, N, 0, h, r.table[h])
    BY DEF Chained
  <2> QED
    BY <1>1, <2>1
<1>3. ASSUME NEW n \in 1 .. N
      PROVE  LeadsTo(s.nodes, N, n, Hash[s.nodes[n].key], s.nodes[n].hash)
  <2>1. LeadsTo(r.nodes, N, n, Hash[r.nodes[n].key], r.nodes[n].hash)
    BY DEF Chained
  <2> QED
    BY <1>1, <2>1
<1> QED
  BY <1>2, <1>3 DEF Chained, Distinct

(* w is computed along the chains of r. *)
ChainWalk(w, r, N, b, G) == w[0] = b /\ \A n \in 1 .. N : w[n] = G[<<n, w[r.nodes[n].hash]>>]

LEMMA LRUWalk ==
  ASSUME NEW N \in Nat, NEW r, r \in CacheType(N), Chained(r, N), NEW S, NEW b \in S,
         NEW G \in [(1 .. N) \X S -> S]
  PROVE  \E w \in [0 .. N -> S] : ChainWalk(w, r, N, b, G)
<1> DEFINE link == [n \in 1 .. N |-> r.nodes[n].hash]
<1>1. link \in [1 .. N -> 0 .. N]
  BY DEF CacheType, NodeType
<1>2. \A n \in 1 .. N : link[n] = 0 \/ link[n] > n
  BY DEF Chained, LeadsTo
<1>3. PICK w \in [0 .. N -> S] : Walks(w, N, b, link, G)
  <2> HIDE DEF link
  <2> QED
    BY <1>1, <1>2, WalkExists
<1> QED
  BY <1>3 DEF Walks, ChainWalk

(* The walk of Lookup *)
LookupWalk(r, k) ==
  CHOOSE w : w = [n \in 0 .. Len(r.nodes) |->
                    IF n = LRU!NULL THEN LRU!NULL
                    ELSE IF r.nodes[n].freed THEN -1
                    ELSE IF r.nodes[n].key = k THEN n
                    ELSE w[r.nodes[n].hash]]

LEMMA LRULookupWalk ==
  ASSUME NEW N \in Nat, NEW r, r \in CacheType(N), Chained(r, N), NEW k
  PROVE  /\ LRU!Lookup(r, k) = LookupWalk(r, k)[r.table[Hash[k]]]
         /\ LookupWalk(r, k)[0] = 0
         /\ \A n \in 1 .. N : LookupWalk(r, k)[n] =
                IF r.nodes[n].key = k THEN n ELSE LookupWalk(r, k)[r.nodes[n].hash]
<1> DEFINE G == [p \in (1 .. N) \X (0 .. N) |-> IF r.nodes[p[1]].key = k THEN p[1] ELSE p[2]]
<1>1. G \in [(1 .. N) \X (0 .. N) -> 0 .. N]
  <2>1. ASSUME NEW p \in (1 .. N) \X (0 .. N)
        PROVE  (IF r.nodes[p[1]].key = k THEN p[1] ELSE p[2]) \in 0 .. N
    <3>1. p[1] \in 0 .. N /\ p[2] \in 0 .. N
      OBVIOUS
    <3> QED
      BY <3>1
  <2> QED
    BY <2>1
<1>2. PICK w \in [0 .. N -> 0 .. N] : ChainWalk(w, r, N, 0, G)
  <2>1. 0 \in 0 .. N
    OBVIOUS
  <2> HIDE DEF G
  <2> QED
    BY <1>1, <2>1, LRUWalk
<1>3. \A n \in 1 .. N : r.nodes[n].hash \in 0 .. N /\ r.nodes[n].freed = FALSE
  BY DEF CacheType, NodeType
<1>4. ASSUME NEW n \in 1 .. N
      PROVE  w[n] = IF r.nodes[n].key = k THEN n ELSE w[r.nodes[n].hash]
  <2>1. w[r.nodes[n].hash] \in 0 .. N
    BY <1>3
  <2>2. <<n, w[r.nodes[n].hash]>> \in (1 .. N) \X (0 .. N)
    BY <2>1
  <2>3. w[n] = G[<<n, w[r.nodes[n].hash]>>]
    <3> HIDE DEF G
    <3> QED
      BY <1>2 DEF ChainWalk
  <2> QED
    BY <2>2, <2>3
<1>5. Len(r.nodes) = N
  BY LRULen
<1>6. w = [n \in 0 .. Len(r.nodes) |->
             IF n = LRU!NULL THEN LRU!NULL
             ELSE IF r.nodes[n].freed THEN -1
             ELSE IF r.nodes[n].key = k THEN n
             ELSE w[r.nodes[n].hash]]
  <2>1. ASSUME NEW n \in 0 .. N
        PROVE  w[n] = IF n = 0 THEN 0
                      ELSE IF r.nodes[n].freed THEN -1
                      ELSE IF r.nodes[n].key = k THEN n
                      ELSE w[r.nodes[n].hash]
    <3>1. CASE n = 0
      BY <1>2, <3>1 DEF ChainWalk
    <3>2. CASE n # 0
      <4>1. n \in 1 .. N
        BY <3>2
      <4> QED
        BY <1>3, <1>4, <3>2, <4>1
    <3> QED
      BY <3>1, <3>2
  <2> QED
    BY <1>5, <2>1 DEF LRU!NULL
<1>7. PICK v : v = LookupWalk(r, k)
  OBVIOUS
<1>8. v = [n \in 0 .. N |->
             IF n = 0 THEN 0
             ELSE IF r.nodes[n].freed THEN -1
             ELSE IF r.nodes[n].key = k THEN n
             ELSE v[r.nodes[n].hash]]
  <2>1. v = [n \in 0 .. Len(r.nodes) |->
             IF n = LRU!NULL THEN LRU!NULL
             ELSE IF r.nodes[n].freed THEN -1
             ELSE IF r.nodes[n].key = k THEN n
             ELSE v[r.nodes[n].hash]]
    BY <1>6, <1>7 DEF LookupWalk
  <2> QED
    BY <1>5, <2>1 DEF LRU!NULL
<1>9. v[0] = 0
  <2>1. 0 \in 0 .. N
    OBVIOUS
  <2> QED
    BY <1>8, <2>1
<1>10. ASSUME NEW n \in 1 .. N
       PROVE  v[n] = IF r.nodes[n].key = k THEN n ELSE v[r.nodes[n].hash]
  <2>1. n \in 0 .. N /\ n # 0
    OBVIOUS
  <2> QED
    BY <1>3, <1>8, <2>1
<1>11. LRU!Lookup(r, k) = v[r.table[Hash[k]]]
  BY <1>7 DEF LRU!Lookup, LookupWalk
<1> QED
  BY <1>7, <1>9, <1>10, <1>11

(* A key is found if and only if a node has it. *)
LEMMA LRULookupFacts ==
  ASSUME NEW N \in Nat, NEW r, Indexed(r, N), NEW k \in Keys
  PROVE  /\ LRU!Lookup(r, k) \in 0 .. N
         /\ LRU!Lookup(r, k) # 0 => r.nodes[LRU!Lookup(r, k)].key = k
         /\ \A m \in 1 .. N : r.nodes[m].key = k => LRU!Lookup(r, k) = m
<1>0. r \in CacheType(N) /\ Chained(r, N) /\ Distinct(r, N)
  BY DEF Indexed
<1>1. PICK w : w = LookupWalk(r, k)
  OBVIOUS
<1>2. /\ LRU!Lookup(r, k) = w[r.table[Hash[k]]]
      /\ w[0] = 0
      /\ \A n \in 1 .. N : w[n] = IF r.nodes[n].key = k THEN n ELSE w[r.nodes[n].hash]
  BY <1>0, <1>1, LRULookupWalk
<1>3. /\ \A n \in 1 .. N : r.nodes[n].hash \in 0 .. N
      /\ Hash[k] \in Chains /\ r.table[Hash[k]] \in 0 .. N
  BY <1>0 DEF CacheType, NodeType, Chains
<1>4. \A n \in 1 .. N : LeadsTo(r.nodes, N, n, Hash[r.nodes[n].key], r.nodes[n].hash)
  BY <1>0 DEF Chained
<1>5. ASSUME NEW n \in 0 .. N
      PROVE  w[n] \in 0 .. N /\ (w[n] # 0 => r.nodes[w[n]].key = k)
  <2> DEFINE B == {i \in 0 .. N : ~(w[i] \in 0 .. N /\ (w[i] # 0 => r.nodes[w[i]].key = k))}
  <2>1. B = {}
    <3>1. SUFFICES ASSUME B # {} PROVE FALSE
      OBVIOUS
    <3>2. PICK i \in B : \A y \in B : y <= i
      <4>1. B \subseteq 0 .. N
        OBVIOUS
      <4> HIDE DEF B
      <4> QED
        BY <3>1, <4>1, GreatestNumber
    <3>3. i \in 1 .. N
      BY <1>2, <3>2
    <3>4. r.nodes[i].key # k
      BY <1>2, <3>2, <3>3
    <3>5. PICK m \in 0 .. N : m = r.nodes[i].hash
      BY <1>3, <3>3
    <3>6. w[i] = w[m] /\ m \in 0 .. N
      BY <1>2, <3>3, <3>4, <3>5
    <3>7. m = 0 \/ m > i
      BY <1>4, <3>3, <3>5 DEF LeadsTo
    <3>8. m \in B
      BY <1>2, <3>2, <3>6
    <3> QED
      <4>1. m <= i
        <5> HIDE DEF B
        <5> QED
          BY <3>2, <3>8
      <4>2. m = 0
        BY <3>3, <3>7, <4>1
      <4> QED
        BY <1>2, <3>8, <4>2
  <2> QED
    BY <2>1
<1>6. ASSUME NEW m \in 1 .. N, r.nodes[m].key = k PROVE LRU!Lookup(r, k) = m
  <2> DEFINE B == {i \in 0 .. N : i # 0 /\ i <= m /\ Hash[r.nodes[i].key] = Hash[k] /\ w[i] # m}
  <2>1. B = {}
    <3>1. SUFFICES ASSUME B # {} PROVE FALSE
      OBVIOUS
    <3>2. PICK i \in B : \A y \in B : y <= i
      <4>1. B \subseteq 0 .. N
        OBVIOUS
      <4> HIDE DEF B
      <4> QED
        BY <3>1, <4>1, GreatestNumber
    <3>3. i \in 1 .. N /\ i <= m /\ Hash[r.nodes[i].key] = Hash[k] /\ w[i] # m
      BY <3>2
    <3>4. i # m
      BY <1>2, <1>6, <3>3
    <3>5. r.nodes[i].key # k
      BY <1>0, <1>6, <3>3, <3>4 DEF Distinct
    <3>6. PICK x \in 0 .. N : x = r.nodes[i].hash
      BY <1>3, <3>3
    <3>7. w[i] = w[x]
      BY <1>2, <3>3, <3>5, <3>6
    <3>8. LeadsTo(r.nodes, N, i, Hash[k], x)
      BY <1>4, <3>3, <3>6
    <3>9. m \in i + 1 .. N /\ Hash[r.nodes[m].key] = Hash[k]
      BY <1>6, <3>3, <3>4
    <3>10. x # 0 /\ x > i /\ x <= m /\ Hash[r.nodes[x].key] = Hash[k]
      BY <3>8, <3>9 DEF LeadsTo
    <3>11. x \in B
      BY <3>3, <3>7, <3>10
    <3> HIDE DEF B
    <3> QED
      BY <3>2, <3>3, <3>10, <3>11
  <2>2. PICK x \in 0 .. N : x = r.table[Hash[k]]
    BY <1>3
  <2>3. LeadsTo(r.nodes, N, 0, Hash[k], x)
    BY <1>0, <1>3, <2>2 DEF Chained
  <2>4. m \in 0 + 1 .. N
    OBVIOUS
  <2>5. x # 0 /\ x <= m /\ Hash[r.nodes[x].key] = Hash[k]
    BY <1>6, <2>3, <2>4 DEF LeadsTo
  <2>6. x \notin B
    BY <2>1
  <2>7. w[x] = m
    BY <2>5, <2>6
  <2> QED
    BY <1>2, <2>2, <2>7
<1> QED
  BY <1>2, <1>3, <1>5, <1>6
(* The walk of ChainEnd *)
EndWalk(r) ==
  CHOOSE w : w = [n \in 0 .. Len(r.nodes) |->
                    IF n = LRU!NULL \/ r.nodes[n].hash = LRU!NULL THEN n ELSE w[r.nodes[n].hash]]

LEMMA LRUEndWalk ==
  ASSUME NEW N \in Nat, NEW r, r \in CacheType(N), Chained(r, N), NEW h
  PROVE  /\ LRU!ChainEnd(r, h) = EndWalk(r)[r.table[h]]
         /\ EndWalk(r)[0] = 0
         /\ \A n \in 1 .. N : EndWalk(r)[n] =
                IF r.nodes[n].hash = 0 THEN n ELSE EndWalk(r)[r.nodes[n].hash]
<1> DEFINE G == [p \in (1 .. N) \X (0 .. N) |-> IF r.nodes[p[1]].hash = 0 THEN p[1] ELSE p[2]]
<1>1. G \in [(1 .. N) \X (0 .. N) -> 0 .. N]
  <2>1. ASSUME NEW p \in (1 .. N) \X (0 .. N)
        PROVE  (IF r.nodes[p[1]].hash = 0 THEN p[1] ELSE p[2]) \in 0 .. N
    <3>1. p[1] \in 0 .. N /\ p[2] \in 0 .. N
      OBVIOUS
    <3> QED
      BY <3>1
  <2> QED
    BY <2>1
<1>2. PICK w \in [0 .. N -> 0 .. N] : ChainWalk(w, r, N, 0, G)
  <2>1. 0 \in 0 .. N
    OBVIOUS
  <2> HIDE DEF G
  <2> QED
    BY <1>1, <2>1, LRUWalk
<1>3. \A n \in 1 .. N : r.nodes[n].hash \in 0 .. N
  BY DEF CacheType, NodeType
<1>4. ASSUME NEW n \in 1 .. N
      PROVE  w[n] = IF r.nodes[n].hash = 0 THEN n ELSE w[r.nodes[n].hash]
  <2>1. w[r.nodes[n].hash] \in 0 .. N
    BY <1>3
  <2>2. <<n, w[r.nodes[n].hash]>> \in (1 .. N) \X (0 .. N)
    BY <2>1
  <2>3. w[n] = G[<<n, w[r.nodes[n].hash]>>]
    <3> HIDE DEF G
    <3> QED
      BY <1>2 DEF ChainWalk
  <2> QED
    BY <2>2, <2>3
<1>5. Len(r.nodes) = N
  BY LRULen
<1>6. w = [n \in 0 .. Len(r.nodes) |->
             IF n = LRU!NULL \/ r.nodes[n].hash = LRU!NULL THEN n ELSE w[r.nodes[n].hash]]
  <2>1. ASSUME NEW n \in 0 .. N
        PROVE  w[n] = IF n = 0 \/ r.nodes[n].hash = 0 THEN n ELSE w[r.nodes[n].hash]
    <3>1. CASE n = 0
      BY <1>2, <3>1 DEF ChainWalk
    <3>2. CASE n # 0
      <4>1. n \in 1 .. N
        BY <3>2
      <4> QED
        BY <1>4, <3>2, <4>1
    <3> QED
      BY <3>1, <3>2
  <2> QED
    BY <1>5, <2>1 DEF LRU!NULL
<1>7. PICK v : v = EndWalk(r)
  OBVIOUS
<1>8. v = [n \in 0 .. N |-> IF n = 0 \/ r.nodes[n].hash = 0 THEN n ELSE v[r.nodes[n].hash]]
  <2>1. v = [n \in 0 .. Len(r.nodes) |->
               IF n = LRU!NULL \/ r.nodes[n].hash = LRU!NULL THEN n ELSE v[r.nodes[n].hash]]
    BY <1>6, <1>7 DEF EndWalk
  <2> QED
    BY <1>5, <2>1 DEF LRU!NULL
<1>9. v[0] = 0
  <2>1. 0 \in 0 .. N
    OBVIOUS
  <2> QED
    BY <1>8, <2>1
<1>10. ASSUME NEW n \in 1 .. N
       PROVE  v[n] = IF r.nodes[n].hash = 0 THEN n ELSE v[r.nodes[n].hash]
  <2>1. n \in 0 .. N /\ n # 0
    OBVIOUS
  <2> QED
    BY <1>8, <2>1
<1>11. LRU!ChainEnd(r, h) = v[r.table[h]]
  BY <1>7 DEF LRU!ChainEnd, EndWalk
<1> QED
  BY <1>7, <1>9, <1>10, <1>11

LEMMA LRUChainEndFacts ==
  ASSUME NEW N \in Nat, NEW r, Indexed(r, N), NEW h \in Chains
  PROVE  /\ LRU!ChainEnd(r, h) \in 0 .. N
         /\ LRU!ChainEnd(r, h) = 0 => r.table[h] = 0
         /\ LRU!ChainEnd(r, h) # 0 => /\ r.table[h] # 0 /\ r.nodes[LRU!ChainEnd(r, h)].hash = 0
                                      /\ Hash[r.nodes[LRU!ChainEnd(r, h)].key] = h
<1>0. r \in CacheType(N) /\ Chained(r, N)
  BY DEF Indexed
<1>1. PICK w : w = EndWalk(r)
  OBVIOUS
<1>2. /\ LRU!ChainEnd(r, h) = w[r.table[h]] /\ w[0] = 0
      /\ \A n \in 1 .. N : w[n] = IF r.nodes[n].hash = 0 THEN n ELSE w[r.nodes[n].hash]
  BY <1>0, <1>1, LRUEndWalk
<1>3. (\A n \in 1 .. N : r.nodes[n].hash \in 0 .. N) /\ r.table[h] \in 0 .. N
  BY <1>0 DEF CacheType, NodeType
<1>4. \A n \in 1 .. N : LeadsTo(r.nodes, N, n, Hash[r.nodes[n].key], r.nodes[n].hash)
  BY <1>0 DEF Chained
<1> DEFINE IsEnd(e) == e \in 1 .. N /\ r.nodes[e].hash = 0 /\ Hash[r.nodes[e].key] = h
<1>5. ASSUME NEW n \in 1 .. N, Hash[r.nodes[n].key] = h PROVE IsEnd(w[n])
  <2> DEFINE B == {i \in 0 .. N : i # 0 /\ Hash[r.nodes[i].key] = h /\ ~IsEnd(w[i])}
  <2>1. B = {}
    <3>1. SUFFICES ASSUME B # {} PROVE FALSE
      OBVIOUS
    <3>2. PICK i \in B : \A y \in B : y <= i
      <4>1. B \subseteq 0 .. N
        OBVIOUS
      <4> HIDE DEF B
      <4> QED
        BY <3>1, <4>1, GreatestNumber
    <3>3. i \in 1 .. N /\ Hash[r.nodes[i].key] = h /\ ~IsEnd(w[i])
      BY <3>2
    <3>4. PICK x \in 0 .. N : x = r.nodes[i].hash
      BY <1>3, <3>3
    <3>5. x # 0
      BY <1>2, <3>3, <3>4
    <3>6. w[i] = w[x]
      BY <1>2, <3>3, <3>4, <3>5
    <3>7. x > i /\ Hash[r.nodes[x].key] = h
      BY <1>4, <3>3, <3>4, <3>5 DEF LeadsTo
    <3>8. x \in B
      <4> HIDE DEF IsEnd
      <4> QED
        BY <3>3, <3>5, <3>6, <3>7
    <3> HIDE DEF B
    <3> QED
      BY <3>2, <3>3, <3>7, <3>8
  <2> HIDE DEF IsEnd
  <2> QED
    BY <1>5, <2>1
<1>6. PICK t \in 0 .. N : t = r.table[h]
  BY <1>3
<1>7. LeadsTo(r.nodes, N, 0, h, t)
  BY <1>0, <1>6 DEF Chained
<1>8. CASE t = 0
  BY <1>2, <1>6, <1>8
<1>9. CASE t # 0
  <2>1. t \in 1 .. N /\ Hash[r.nodes[t].key] = h
    BY <1>7, <1>9 DEF LeadsTo
  <2>2. IsEnd(w[t])
    BY <1>5, <2>1
  <2> QED
    BY <1>2, <1>6, <1>9, <2>2
<1> QED
  BY <1>8, <1>9

(* s is r but for the links of the list. *)
Alike(r, s, N) ==
  /\ s \in CacheType(N) /\ s.table = r.table
  /\ \A i \in 1 .. N : /\ s.nodes[i].key = r.nodes[i].key /\ s.nodes[i].hash = r.nodes[i].hash
                       /\ s.nodes[i].retain = r.nodes[i].retain

LEMMA LRUSetNextFacts ==
  ASSUME NEW N \in Nat, NEW r, r \in CacheType(N), NEW p \in 0 .. N, NEW m \in 0 .. N
  PROVE  /\ Alike(r, LRU!MaySetNext(r, p, m), N)
         /\ LRU!MaySetNext(r, p, m).head = r.head /\ LRU!MaySetNext(r, p, m).tail = r.tail
         /\ LRU!MaySetNext(r, p, m).retained = r.retained
         /\ \A i \in 1 .. N :
              /\ LRU!MaySetNext(r, p, m).nodes[i].next = IF i = p THEN m ELSE r.nodes[i].next
              /\ LRU!MaySetNext(r, p, m).nodes[i].prev = r.nodes[i].prev
<1>1. CASE p = 0
  <2>1. LRU!MaySetNext(r, p, m) = r
    BY <1>1 DEF LRU!MaySetNext, LRU!NULL
  <2> QED
    BY <1>1, <2>1 DEF Alike
<1>2. CASE p # 0
  <2>1. r.harm = "ok" /\ p \in 1 .. N /\ r.nodes[p].freed = FALSE /\ r.nodes[p] \in NodeType(N)
    <3>1. p \in 1 .. N
      BY <1>2
    <3>2. r.harm = "ok" /\ r.nodes \in [1 .. N -> NodeType(N)]
      BY DEF CacheType
    <3>3. r.nodes[p] \in NodeType(N)
      BY <3>1, <3>2
    <3> QED
      BY <3>1, <3>2, <3>3 DEF NodeType
  <2>2. PICK x : x = [r.nodes[p] EXCEPT !.next = m]
    OBVIOUS
  <2>3. /\ x \in NodeType(N) /\ x.key = r.nodes[p].key /\ x.hash = r.nodes[p].hash
        /\ x.retain = r.nodes[p].retain /\ x.next = m /\ x.prev = r.nodes[p].prev
    BY <2>1, <2>2 DEF NodeType
  <2>4. PICK s : s = [r EXCEPT !.nodes[p] = x]
    OBVIOUS
  <2>5. LRU!MaySetNext(r, p, m) = s
    BY <1>2, <2>1, <2>2, <2>4 DEF LRU!MaySetNext, LRU!SetNext, LRU!Reach, LRU!NULL
  <2>6. s \in CacheType(N) /\ s.nodes = [r.nodes EXCEPT ![p] = x]
    BY <2>1, <2>3, <2>4 DEF CacheType
  <2>7. s.table = r.table /\ s.head = r.head /\ s.tail = r.tail /\ s.retained = r.retained
    BY <2>4 DEF CacheType
  <2>8. \A i \in 1 .. N : s.nodes[i] = IF i = p THEN x ELSE r.nodes[i]
    BY <2>6 DEF CacheType
  <2> QED
    BY <2>3, <2>5, <2>6, <2>7, <2>8 DEF Alike
<1> QED
  BY <1>1, <1>2

LEMMA LRUSetPrevFacts ==
  ASSUME NEW N \in Nat, NEW r, r \in CacheType(N), NEW p \in 0 .. N, NEW m \in 0 .. N
  PROVE  /\ Alike(r, LRU!MaySetPrev(r, p, m), N)
         /\ LRU!MaySetPrev(r, p, m).head = r.head /\ LRU!MaySetPrev(r, p, m).tail = r.tail
         /\ LRU!MaySetPrev(r, p, m).retained = r.retained
         /\ \A i \in 1 .. N :
              /\ LRU!MaySetPrev(r, p, m).nodes[i].prev = IF i = p THEN m ELSE r.nodes[i].prev
              /\ LRU!MaySetPrev(r, p, m).nodes[i].next = r.nodes[i].next
<1>1. CASE p = 0
  <2>1. LRU!MaySetPrev(r, p, m) = r
    BY <1>1 DEF LRU!MaySetPrev, LRU!NULL
  <2> QED
    BY <1>1, <2>1 DEF Alike
<1>2. CASE p # 0
  <2>1. r.harm = "ok" /\ p \in 1 .. N /\ r.nodes[p].freed = FALSE /\ r.nodes[p] \in NodeType(N)
    <3>1. p \in 1 .. N
      BY <1>2
    <3>2. r.harm = "ok" /\ r.nodes \in [1 .. N -> NodeType(N)]
      BY DEF CacheType
    <3>3. r.nodes[p] \in NodeType(N)
      BY <3>1, <3>2
    <3> QED
      BY <3>1, <3>2, <3>3 DEF NodeType
  <2>2. PICK x : x = [r.nodes[p] EXCEPT !.prev = m]
    OBVIOUS
  <2>3. /\ x \in NodeType(N) /\ x.key = r.nodes[p].key /\ x.hash = r.nodes[p].hash
        /\ x.retain = r.nodes[p].retain /\ x.prev = m /\ x.next = r.nodes[p].next
    BY <2>1, <2>2 DEF NodeType
  <2>4. PICK s : s = [r EXCEPT !.nodes[p] = x]
    OBVIOUS
  <2>5. LRU!MaySetPrev(r, p, m) = s
    BY <1>2, <2>1, <2>2, <2>4 DEF LRU!MaySetPrev, LRU!SetPrev, LRU!Reach, LRU!NULL
  <2>6. s \in CacheType(N) /\ s.nodes = [r.nodes EXCEPT ![p] = x]
    BY <2>1, <2>3, <2>4 DEF CacheType
  <2>7. s.table = r.table /\ s.head = r.head /\ s.tail = r.tail /\ s.retained = r.retained
    BY <2>4 DEF CacheType
  <2>8. \A i \in 1 .. N : s.nodes[i] = IF i = p THEN x ELSE r.nodes[i]
    BY <2>6 DEF CacheType
  <2> QED
    BY <2>3, <2>5, <2>6, <2>7, <2>8 DEF Alike
<1> QED
  BY <1>1, <1>2

LEMMA LRUUnlinkFacts ==
  ASSUME NEW N \in Nat, NEW r, r \in CacheType(N), NEW n \in 1 .. N
  PROVE  Alike(r, LRU!Unlink(r, n), N) /\ LRU!Unlink(r, n).retained = r.retained
<1>1. PICK p \in 0 .. N : p = r.nodes[n].prev
  BY DEF CacheType, NodeType
<1>2. PICK m \in 0 .. N : m = r.nodes[n].next
  BY DEF CacheType, NodeType
<1>3. PICK s : s = LRU!MaySetNext(r, p, m)
  OBVIOUS
<1>4. Alike(r, s, N) /\ s.retained = r.retained
  BY <1>3, LRUSetNextFacts
<1>5. PICK t : t = LRU!MaySetPrev(s, m, p)
  OBVIOUS
<1>6. Alike(s, t, N) /\ t.retained = s.retained
  <2>1. s \in CacheType(N)
    BY <1>4 DEF Alike
  <2> QED
    BY <1>5, <2>1, LRUSetPrevFacts
<1>7. t = LRU!Unlink(r, n)
  BY <1>1, <1>2, <1>3, <1>5 DEF LRU!Unlink
<1> QED
  BY <1>4, <1>6, <1>7 DEF Alike

(* A new node at the end of the chain of its key *)
LEMMA LRUHtInsertFacts ==
  ASSUME NEW N \in Nat, NEW r, Indexed(r, N), NEW k \in Keys, SIZE \in Nat \ {0},
         \A n \in 1 .. N : r.nodes[n].key # k
  PROVE  LET s == LRU!HtInsert(r, k)
         IN /\ s \in CacheType(N + 1) /\ Chained(s, N + 1) /\ Distinct(s, N + 1)
            /\ s.head = r.head /\ s.tail = r.tail /\ s.retained = r.retained
            /\ \A i \in 1 .. N : /\ s.nodes[i].next = r.nodes[i].next
                                 /\ s.nodes[i].prev = r.nodes[i].prev
                                 /\ s.nodes[i].retain = r.nodes[i].retain
            /\ s.nodes[N + 1].retain = 0
<1>0. r \in CacheType(N) /\ Chained(r, N) /\ Distinct(r, N)
  BY DEF Indexed
<1>1. PICK h \in Chains : h = Hash[k]
  BY DEF Chains
<1>2. PICK e \in 0 .. N : e = LRU!ChainEnd(r, h)
  BY LRUChainEndFacts
<1>3. /\ e = 0 => r.table[h] = 0
      /\ e # 0 => r.table[h] # 0 /\ r.nodes[e].hash = 0 /\ Hash[r.nodes[e].key] = h
  BY <1>2, LRUChainEndFacts
<1>4. PICK M \in Nat : M = N + 1
  OBVIOUS
<1>5. PICK x : x = LRU!Node(k, LRU!NULL)
  OBVIOUS
<1>6. /\ x \in NodeType(M) /\ x.key = k /\ x.hash = 0 /\ x.retain = 0
  BY <1>5 DEF LRU!Node, LRU!NULL, NodeType
<1>7. NodeType(N) \subseteq NodeType(M)
  <2>1. 0 .. N \subseteq 0 .. M
    BY <1>4
  <2> QED
    BY <2>1 DEF NodeType
<1>8. PICK a : a = Append(r.nodes, x)
  OBVIOUS
<1>9. a \in [1 .. M -> NodeType(M)] /\ a[M] = x /\ \A i \in 1 .. N : a[i] = r.nodes[i]
  <2>1. r.nodes \in Seq(NodeType(N)) /\ Len(r.nodes) = N
    BY <1>0, LRULen
  <2>2. r.nodes \in Seq(NodeType(M))
    BY <1>7, <2>1
  <2>3. a \in Seq(NodeType(M)) /\ Len(a) = M /\ a[M] = x /\ \A i \in 1 .. N : a[i] = r.nodes[i]
    BY <1>4, <1>6, <1>8, <2>1, <2>2
  <2> QED
    BY <2>3
<1>10. PICK q : q = [r EXCEPT !.nodes = a, !.used = @ + 1]
  OBVIOUS
<1>11. /\ q \in CacheType(M) /\ q.nodes = a /\ q.table = r.table
       /\ q.head = r.head /\ q.tail = r.tail /\ q.retained = r.retained
  <2>1. 0 .. N \subseteq 0 .. M
    BY <1>4
  <2>2. r.table \in [Chains -> 0 .. M] /\ r.head \in 0 .. M /\ r.tail \in 0 .. M /\ r.retained \in 0 .. M
    BY <1>0, <2>1 DEF CacheType
  <2>3. r.used + 1 = M
    BY <1>0, <1>4 DEF CacheType
  <2>4. q = [type |-> r.type, size |-> r.size, frees |-> r.frees, harm |-> r.harm, head |-> r.head,
             tail |-> r.tail, retained |-> r.retained, used |-> M, table |-> r.table, nodes |-> a]
    BY <1>0, <1>10, <2>3 DEF CacheType
  <2> QED
    BY <1>0, <1>9, <2>2, <2>4 DEF CacheType
<1>12. PICK s : s = IF e = 0 THEN [q EXCEPT !.table[h] = M] ELSE [q EXCEPT !.nodes[e].hash = M]
  OBVIOUS
<1>13. s = LRU!HtInsert(r, k)
  <2>1. Len(r.nodes) = N
    BY <1>0, LRULen
  <2> QED
    BY <1>1, <1>2, <1>4, <1>5, <1>8, <1>10, <1>12, <2>1 DEF LRU!HtInsert, LRU!NULL
<1>14. /\ s \in CacheType(M) /\ s.head = r.head /\ s.tail = r.tail /\ s.retained = r.retained
       /\ \A i \in 1 .. M : /\ s.nodes[i].next = a[i].next /\ s.nodes[i].prev = a[i].prev
                            /\ s.nodes[i].retain = a[i].retain /\ s.nodes[i].key = a[i].key
                            /\ s.nodes[i].hash = IF e # 0 /\ i = e THEN M ELSE a[i].hash
       /\ \A g \in Chains : s.table[g] = IF e = 0 /\ g = h THEN M ELSE r.table[g]
  <2>1. M \in 0 .. M
    BY <1>4
  <2>2. CASE e = 0
    <3>1. s = [q EXCEPT !.table[h] = M]
      BY <1>12, <2>2
    <3>2. s \in CacheType(M) /\ s.nodes = a /\ s.table = [r.table EXCEPT ![h] = M]
      BY <1>11, <2>1, <3>1 DEF CacheType
    <3>3. s.head = r.head /\ s.tail = r.tail /\ s.retained = r.retained
      BY <1>11, <3>1 DEF CacheType
    <3>4. r.table \in [Chains -> 0 .. N]
      BY <1>0 DEF CacheType
    <3> QED
      BY <2>2, <3>2, <3>3, <3>4
  <2>3. CASE e # 0
    <3>1. s = [q EXCEPT !.nodes[e].hash = M]
      BY <1>12, <2>3
    <3>2. PICK y : y = [a[e] EXCEPT !.hash = M]
      OBVIOUS
    <3>3. e \in 1 .. M
      BY <1>4, <2>3
    <3>4. /\ y \in NodeType(M) /\ y.next = a[e].next /\ y.prev = a[e].prev
          /\ y.retain = a[e].retain /\ y.key = a[e].key /\ y.hash = M
      <4>1. a[e] \in NodeType(M)
        BY <1>9, <3>3
      <4> QED
        BY <2>1, <3>2, <4>1 DEF NodeType
    <3>5. s = [q EXCEPT !.nodes[e] = y]
      BY <1>11, <3>1, <3>2
    <3>6. s \in CacheType(M) /\ s.nodes = [a EXCEPT ![e] = y] /\ s.table = r.table
      BY <1>11, <3>3, <3>4, <3>5 DEF CacheType
    <3>7. s.head = r.head /\ s.tail = r.tail /\ s.retained = r.retained
      BY <1>11, <3>5 DEF CacheType
    <3>8. \A i \in 1 .. M : s.nodes[i] = IF i = e THEN y ELSE a[i]
      BY <1>9, <3>6
    <3> QED
      BY <2>3, <3>4, <3>6, <3>7, <3>8
  <2> QED
    BY <2>2, <2>3
<1>15. \A i \in 1 .. N : i \in 1 .. M /\ s.nodes[i].key = r.nodes[i].key
  BY <1>4, <1>9, <1>14
<1>16. s.nodes[M].key = k /\ s.nodes[M].hash = 0 /\ M \in 1 .. M /\ M # e
  BY <1>4, <1>6, <1>9, <1>14
<1>17. ASSUME NEW n \in 0 .. N, NEW g, g # h, NEW m, LeadsTo(r.nodes, N, n, g, m)
       PROVE  LeadsTo(s.nodes, M, n, g, m)
  <2>1. ASSUME NEW z \in n + 1 .. M PROVE (z \in n + 1 .. N /\ s.nodes[z].key = r.nodes[z].key)
                                         \/ Hash[s.nodes[z].key] # g
    <3>1. CASE z = M
      BY <1>1, <1>16, <1>17, <3>1
    <3>2. CASE z # M
      <4>1. z \in n + 1 .. N /\ z \in 1 .. N
        BY <1>4, <3>2
      <4> QED
        BY <1>15, <4>1
    <3> QED
      BY <3>1, <3>2
  <2>2. CASE m = 0
    BY <1>17, <2>1, <2>2 DEF LeadsTo
  <2>3. CASE m # 0
    <3>1. m \in n + 1 .. N /\ Hash[r.nodes[m].key] = g /\ \A z \in n + 1 .. m - 1 : Hash[r.nodes[z].key] # g
      BY <1>17, <2>3 DEF LeadsTo
    <3>2. m \in n + 1 .. M /\ m \in 1 .. N /\ \A z \in n + 1 .. m - 1 : z \in 1 .. N
      BY <1>4, <3>1
    <3> QED
      BY <1>15, <2>3, <3>1, <3>2 DEF LeadsTo
  <2> QED
    BY <2>2, <2>3
<1>18. ASSUME NEW n \in 0 .. N, NEW m, m # 0, LeadsTo(r.nodes, N, n, h, m)
       PROVE  LeadsTo(s.nodes, M, n, h, m)
  <2>1. m \in n + 1 .. N /\ Hash[r.nodes[m].key] = h /\ \A z \in n + 1 .. m - 1 : Hash[r.nodes[z].key] # h
    BY <1>18 DEF LeadsTo
  <2>2. m \in n + 1 .. M /\ m \in 1 .. N /\ \A z \in n + 1 .. m - 1 : z \in 1 .. N
    BY <1>4, <2>1
  <2> QED
    BY <1>15, <1>18, <2>1, <2>2 DEF LeadsTo
<1>19. ASSUME NEW n \in 0 .. N, LeadsTo(r.nodes, N, n, h, 0)
       PROVE  LeadsTo(s.nodes, M, n, h, M)
  <2>1. \A z \in n + 1 .. N : Hash[r.nodes[z].key] # h
    BY <1>19 DEF LeadsTo
  <2>2. M \in n + 1 .. M /\ M # 0 /\ \A z \in n + 1 .. M - 1 : z \in n + 1 .. N /\ z \in 1 .. N
    BY <1>4
  <2> QED
    BY <1>1, <1>15, <1>16, <2>1, <2>2 DEF LeadsTo
<1>20. ASSUME NEW g \in Chains PROVE LeadsTo(s.nodes, M, 0, g, s.table[g])
  <2>1. LeadsTo(r.nodes, N, 0, g, r.table[g]) /\ 0 \in 0 .. N
    BY <1>0 DEF Chained
  <2>2. CASE g # h
    BY <1>14, <1>17, <2>1, <2>2
  <2>3. CASE g = h /\ e = 0
    <3>1. r.table[g] = 0 /\ s.table[g] = M
      BY <1>3, <1>14, <2>3
    <3> QED
      BY <1>19, <2>1, <2>3, <3>1
  <2>4. CASE g = h /\ e # 0
    <3>1. r.table[g] # 0 /\ s.table[g] = r.table[g]
      BY <1>3, <1>14, <2>4
    <3> QED
      BY <1>18, <2>1, <2>4, <3>1
  <2> QED
    BY <2>2, <2>3, <2>4
<1>21. ASSUME NEW n \in 1 .. M
       PROVE  LeadsTo(s.nodes, M, n, Hash[s.nodes[n].key], s.nodes[n].hash)
  <2>1. CASE n = M
    <3>1. s.nodes[n].hash = 0 /\ \A z \in n + 1 .. M : FALSE
      BY <1>4, <1>16, <2>1
    <3> QED
      BY <3>1 DEF LeadsTo
  <2>2. CASE n # M
    <3>1. n \in 1 .. N /\ n \in 0 .. N
      BY <1>4, <2>2
    <3>2. PICK g : g = Hash[r.nodes[n].key]
      OBVIOUS
    <3>3. s.nodes[n].key = r.nodes[n].key /\ a[n] = r.nodes[n]
      BY <1>9, <1>15, <3>1
    <3>4. LeadsTo(r.nodes, N, n, g, r.nodes[n].hash)
      BY <1>0, <3>1, <3>2 DEF Chained
    <3>5. CASE g # h
      <4>1. n # e \/ e = 0
        BY <1>3, <3>2, <3>5
      <4>2. s.nodes[n].hash = r.nodes[n].hash
        BY <1>14, <3>3, <4>1
      <4> QED
        BY <1>17, <3>1, <3>2, <3>3, <3>4, <3>5, <4>2
    <3>6. CASE g = h /\ n = e
      <4>1. s.nodes[n].hash = M /\ r.nodes[n].hash = 0
        BY <1>3, <1>14, <3>1, <3>6
      <4> QED
        BY <1>19, <3>1, <3>2, <3>3, <3>4, <3>6, <4>1
    <3>7. CASE g = h /\ n # e
      <4>1. s.nodes[n].hash = r.nodes[n].hash
        BY <1>14, <3>3, <3>7
      <4>2. r.table[h] # 0
        <5>1. LeadsTo(r.nodes, N, 0, h, r.table[h]) /\ n \in 0 + 1 .. N
          BY <1>0, <3>1 DEF Chained
        <5> QED
          BY <3>2, <3>7, <5>1 DEF LeadsTo
      <4>3. e # 0
        BY <1>3, <4>2
      <4>4. r.nodes[n].hash # 0
        <5>1. SUFFICES ASSUME r.nodes[n].hash = 0 PROVE FALSE
          OBVIOUS
        <5>2. \A z \in n + 1 .. N : Hash[r.nodes[z].key] # h
          BY <3>4, <3>7, <5>1 DEF LeadsTo
        <5>3. LeadsTo(r.nodes, N, e, h, 0)
          BY <1>0, <1>3, <4>3 DEF Chained
        <5>4. \A z \in e + 1 .. N : Hash[r.nodes[z].key] # h
          BY <5>3 DEF LeadsTo
        <5>5. e > n \/ n > e
          BY <3>1, <3>7
        <5>6. Hash[r.nodes[e].key] = h /\ Hash[r.nodes[n].key] = h
          BY <1>3, <3>2, <3>7, <4>3
        <5>7. CASE e > n
          <6>1. e \in n + 1 .. N
            BY <3>1, <5>7
          <6> QED
            BY <5>2, <5>6, <6>1
        <5>8. CASE n > e
          <6>1. n \in e + 1 .. N
            BY <3>1, <5>8
          <6> QED
            BY <5>4, <5>6, <6>1
        <5> QED
          BY <5>5, <5>7, <5>8
      <4> QED
        BY <1>18, <3>1, <3>2, <3>3, <3>4, <3>7, <4>1, <4>4
    <3> QED
      BY <3>5, <3>6, <3>7
  <2> QED
    BY <2>1, <2>2
<1>22. Chained(s, M)
  BY <1>20, <1>21 DEF Chained
<1>23. Distinct(s, M)
  <2>1. ASSUME NEW i \in 1 .. M, NEW j \in 1 .. M, s.nodes[i].key = s.nodes[j].key PROVE i = j
    <3>1. (i \in 1 .. N \/ i = M) /\ (j \in 1 .. N \/ j = M)
      BY <1>4
    <3> QED
      BY <1>0, <1>15, <1>16, <2>1, <3>1 DEF Distinct
  <2> QED
    BY <2>1 DEF Distinct
<1>24. \A i \in 1 .. N : /\ s.nodes[i].next = r.nodes[i].next /\ s.nodes[i].prev = r.nodes[i].prev
                         /\ s.nodes[i].retain = r.nodes[i].retain
  BY <1>9, <1>14, <1>15
<1>25. s.nodes[M].retain = 0
  BY <1>6, <1>9, <1>14, <1>16
<1> QED
  BY <1>4, <1>13, <1>14, <1>22, <1>23, <1>24, <1>25
LEMMA LRUPutNode ==
  ASSUME NEW N \in Nat, NEW r, r \in CacheType(N), NEW n \in 1 .. N, NEW x \in NodeType(N)
  PROVE  LET s == [r EXCEPT !.nodes[n] = x]
         IN /\ s \in CacheType(N) /\ s.table = r.table
            /\ s.head = r.head /\ s.tail = r.tail /\ s.retained = r.retained
            /\ \A i \in 1 .. N : s.nodes[i] = IF i = n THEN x ELSE r.nodes[i]
<1>1. PICK s : s = [r EXCEPT !.nodes[n] = x]
  OBVIOUS
<1>2. s \in CacheType(N) /\ s.nodes = [r.nodes EXCEPT ![n] = x]
  BY <1>1 DEF CacheType
<1>3. s.table = r.table /\ s.head = r.head /\ s.tail = r.tail /\ s.retained = r.retained
  BY <1>1 DEF CacheType
<1>4. \A i \in 1 .. N : s.nodes[i] = IF i = n THEN x ELSE r.nodes[i]
  BY <1>2 DEF CacheType
<1> QED
  BY <1>1, <1>2, <1>3, <1>4

LEMMA LRUNodeTyped ==
  ASSUME NEW N \in Nat, NEW r, r \in CacheType(N), NEW n \in 1 .. N
  PROVE  /\ r.nodes[n] \in NodeType(N) /\ r.nodes[n].freed = FALSE
         /\ r.nodes[n].retain \in 0 .. SIZE - 1
<1>1. r.nodes \in [1 .. N -> NodeType(N)]
  BY DEF CacheType
<1>2. r.nodes[n] \in NodeType(N)
  BY <1>1
<1> QED
  BY <1>2 DEF NodeType

(* A key that is new gets a node that is found, and the newest of the list. *)
LEMMA LRUInsertIndexed ==
  ASSUME NEW N \in Nat, NEW r, Indexed(r, N), NEW k \in Keys, SIZE \in Nat \ {0},
         \A n \in 1 .. N : r.nodes[n].key # k
  PROVE  Indexed(LRU!LinkFirst(LRU!HtInsert(r, k), N + 1), N + 1)
<1>1. PICK M \in Nat : M = N + 1
  OBVIOUS
<1>2. PICK s : s = LRU!HtInsert(r, k)
  OBVIOUS
<1>3. /\ s \in CacheType(M) /\ Chained(s, M) /\ Distinct(s, M)
      /\ s.head = r.head /\ s.tail = r.tail /\ s.retained = r.retained
      /\ \A i \in 1 .. N : /\ s.nodes[i].next = r.nodes[i].next
                           /\ s.nodes[i].prev = r.nodes[i].prev
                           /\ s.nodes[i].retain = r.nodes[i].retain
      /\ s.nodes[M].retain = 0
  BY <1>1, <1>2, LRUHtInsertFacts
<1>4. PICK d \in 0 .. M : d = s.head
  BY <1>3 DEF CacheType
<1>5. PICK p : p = LRU!MaySetPrev(s, d, M)
  OBVIOUS
<1>6. M \in 0 .. M /\ M \in 1 .. M
  BY <1>1
<1>7. /\ Alike(s, p, M) /\ p.head = s.head /\ p.tail = s.tail /\ p.retained = s.retained
      /\ \A i \in 1 .. M : /\ p.nodes[i].prev = IF i = d THEN M ELSE s.nodes[i].prev
                           /\ p.nodes[i].next = s.nodes[i].next
  BY <1>3, <1>5, <1>6, LRUSetPrevFacts
<1>8. p \in CacheType(M)
  BY <1>7 DEF Alike
<1>9. p.nodes[M] \in NodeType(M)
  BY <1>6, <1>8, LRUNodeTyped
<1>10. PICK x : x = [p.nodes[M] EXCEPT !.next = d, !.prev = 0]
  OBVIOUS
<1>11. /\ x \in NodeType(M) /\ x.key = p.nodes[M].key /\ x.hash = p.nodes[M].hash
       /\ x.retain = p.nodes[M].retain /\ x.next = d /\ x.prev = 0
  <2>1. 0 \in 0 .. M
    OBVIOUS
  <2> QED
    BY <1>9, <1>10, <2>1 DEF NodeType
<1>12. PICK u : u = [p EXCEPT !.nodes[M] = x]
  OBVIOUS
<1>13. /\ u \in CacheType(M) /\ u.table = p.table
       /\ u.head = p.head /\ u.tail = p.tail /\ u.retained = p.retained
       /\ \A i \in 1 .. M : u.nodes[i] = IF i = M THEN x ELSE p.nodes[i]
  BY <1>6, <1>8, <1>11, <1>12, LRUPutNode
<1>14. u = [p EXCEPT !.nodes[M].next = d, !.nodes[M].prev = 0]
  BY <1>8, <1>10, <1>12 DEF CacheType
<1>15. PICK v : v = [u EXCEPT !.head = M, !.tail = IF u.tail = 0 THEN M ELSE u.tail]
  OBVIOUS
<1>16. v = LRU!LinkFirst(s, M)
  BY <1>4, <1>5, <1>14, <1>15 DEF LRU!LinkFirst, LRU!NULL
<1>17. /\ v \in CacheType(M) /\ v.table = u.table /\ v.nodes = u.nodes /\ v.head = M
       /\ v.tail = (IF u.tail = 0 THEN M ELSE u.tail) /\ v.retained = u.retained
  BY <1>6, <1>13, <1>15 DEF CacheType
<1>18. v.table = s.table /\ \A i \in 1 .. M : /\ v.nodes[i].key = s.nodes[i].key
                                              /\ v.nodes[i].hash = s.nodes[i].hash
                                              /\ v.nodes[i].retain = s.nodes[i].retain
  BY <1>6, <1>7, <1>11, <1>13, <1>17 DEF Alike
<1>19. Chained(v, M) /\ Distinct(v, M)
  BY <1>3, <1>18, LRUSameIndex
<1>20. ByAge(v, M)
  <2> SUFFICES ASSUME v.retained = 0 PROVE ByAge(v, M)
    BY DEF ByAge
  <2>1. r.retained = 0 /\ r.head = N /\ r.tail = (IF N = 0 THEN 0 ELSE 1)
    BY <1>3, <1>7, <1>13, <1>17 DEF Indexed, ByAge
  <2>2. \A n \in 1 .. N : /\ r.nodes[n].next = n - 1
                          /\ r.nodes[n].prev = (IF n = N THEN 0 ELSE n + 1)
                          /\ r.nodes[n].retain \in {0, SIZE - 1}
    BY <2>1 DEF Indexed, ByAge
  <2>3. v.head = M /\ v.tail = 1 /\ M # 0 /\ d = N
    BY <1>1, <1>3, <1>4, <1>7, <1>13, <1>17, <2>1
  <2>4. ASSUME NEW n \in 1 .. M
        PROVE  /\ v.nodes[n].next = n - 1
               /\ v.nodes[n].prev = (IF n = M THEN 0 ELSE n + 1)
               /\ v.nodes[n].retain \in {0, SIZE - 1}
    <3>1. CASE n = M
      BY <1>1, <1>3, <1>11, <1>13, <1>17, <1>18, <2>3, <3>1
    <3>2. CASE n # M
      <4>1. n \in 1 .. N /\ n # M
        BY <1>1, <3>2
      <4>2. v.nodes[n] = p.nodes[n]
        BY <1>13, <1>17, <3>2
      <4>3. v.nodes[n].next = n - 1
        BY <1>3, <1>7, <2>2, <4>1, <4>2
      <4>4. v.nodes[n].prev = n + 1
        <5>1. p.nodes[n].prev = IF n = d THEN M ELSE r.nodes[n].prev
          BY <1>3, <1>7, <4>1
        <5> QED
          BY <1>1, <2>2, <2>3, <4>1, <4>2, <5>1
      <4>5. v.nodes[n].retain \in {0, SIZE - 1}
        BY <1>3, <1>18, <2>2, <4>1
      <4> QED
        BY <4>1, <4>3, <4>4, <4>5
    <3> QED
      BY <3>1, <3>2
  <2> QED
    BY <2>3, <2>4 DEF ByAge
<1> QED
  BY <1>1, <1>2, <1>16, <1>17, <1>19, <1>20 DEF Indexed

(* A node that is freed spoils the cache. *)
LEMMA LRUFreeSpoils ==
  ASSUME NEW N \in Nat, NEW r, r \in CacheType(N), NEW n \in 1 .. N
  PROVE  /\ Broken(LRU!NodeFree(r, n), n)
         /\ LRU!NodeFree(LRU!NodeFree(r, n), n).harm = "twice"
<1>1. r.harm = "ok" /\ r.nodes[n].freed = FALSE /\ r.nodes[n] \in NodeType(N)
  <2>1. r.harm = "ok"
    BY DEF CacheType
  <2> QED
    BY <2>1, LRUNodeTyped
<1>2. PICK x : x = [r.nodes[n] EXCEPT !.freed = TRUE]
  OBVIOUS
<1>3. "freed" \in DOMAIN x /\ x.freed = TRUE
  BY <1>1, <1>2 DEF NodeType
<1>4. PICK s : s = [r EXCEPT !.nodes[n] = x]
  OBVIOUS
<1>5. s = LRU!NodeFree(r, n)
  BY <1>1, <1>2, <1>4 DEF LRU!NodeFree, LRU!NULL
<1>6. s.nodes = [r.nodes EXCEPT ![n] = x] /\ s.harm = "ok" /\ "harm" \in DOMAIN s /\ "nodes" \in DOMAIN s
  BY <1>1, <1>4 DEF CacheType
<1>7. s.nodes[n] = x /\ n \in DOMAIN s.nodes /\ DOMAIN s.nodes = 1 .. N
  BY <1>6 DEF CacheType
<1>8. IsRow(s.nodes, N)
  BY <1>6 DEF IsRow, CacheType
<1>9. Broken(s, n)
  BY <1>3, <1>6, <1>7, <1>8 DEF Broken
<1>10. LRU!NodeFree(s, n) = LRU!Harmed(s, "twice")
  BY <1>3, <1>6, <1>7 DEF LRU!NodeFree, LRU!NULL
<1>11. LRU!Harmed(s, "twice").harm = "twice"
  BY <1>6 DEF LRU!Harmed
<1> QED
  BY <1>5, <1>9, <1>10, <1>11

LEMMA LRUPurgeSpoils ==
  ASSUME NEW N \in Nat, NEW r, r \in CacheType(N)
  PROVE  Spoilt(LRU!Purge(r))
<1>1. PICK n : n = IF r.type = "MRU" THEN r.head ELSE r.tail
  OBVIOUS
<1>2. n \in 0 .. N /\ r.harm = "ok" /\ "harm" \in DOMAIN r /\ "nodes" \in DOMAIN r
  BY <1>1 DEF CacheType
<1>3. CASE n = 0
  <2>1. LRU!Reach(r, n) = LRU!Harmed(r, "null")
    BY <1>2, <1>3 DEF LRU!Reach, LRU!NULL
  <2>2. LRU!Harmed(r, "null").harm = "null" /\ Broken(LRU!Harmed(r, "null"), 0)
    BY <1>2 DEF LRU!Harmed, Broken
  <2>3. LRU!Purge(r) = LRU!Harmed(r, "null")
    BY <1>1, <2>1, <2>2 DEF LRU!Purge
  <2> QED
    BY <2>2, <2>3 DEF Spoilt
<1>4. CASE n # 0
  <2>1. n \in 1 .. N
    BY <1>2, <1>4
  <2>2. r.nodes[n].freed = FALSE /\ r.nodes[n] \in NodeType(N)
    BY <2>1, LRUNodeTyped
  <2>3. LRU!Reach(r, n) = r
    BY <1>2, <1>4, <2>2 DEF LRU!Reach, LRU!NULL
  <2>4. PICK o : o = IF r.type = "MRU" THEN r.nodes[n].next ELSE r.nodes[n].prev
    OBVIOUS
  <2>5. o \in 0 .. N
    BY <2>2, <2>4 DEF NodeType
  <2>6. PICK t : t = IF r.type = "MRU" THEN LRU!SetPrev([r EXCEPT !.head = o], o, LRU!NULL)
                     ELSE LRU!SetNext([r EXCEPT !.tail = o], o, LRU!NULL)
    OBVIOUS
  <2>7. PICK g : g = r.nodes[n].hash
    OBVIOUS
  <2>8. LRU!Purge(r) = LRU!NodeFree([LRU!NodeFree(t, n) EXCEPT !.used = @ - 1], g)
    <3>1. PICK s : s = LRU!Reach(r, n)
      OBVIOUS
    <3>2. s = r
      BY <2>3, <3>1
    <3>3. o = IF r.type = "MRU" THEN s.nodes[n].next ELSE s.nodes[n].prev
      BY <2>4, <3>2
    <3>4. t = IF r.type = "MRU" THEN LRU!SetPrev([s EXCEPT !.head = o], o, LRU!NULL)
              ELSE LRU!SetNext([s EXCEPT !.tail = o], o, LRU!NULL)
      BY <2>6, <3>2
    <3>5. PICK u : u = LRU!NodeFree(t, n)
      OBVIOUS
    <3>6. LRU!Purge(r) = IF s.harm # "ok" THEN s
                     ELSE LRU!NodeFree([u EXCEPT !.used = @ - 1], s.nodes[n].hash)
      BY <1>1, <3>1, <3>3, <3>4, <3>5 DEF LRU!Purge
    <3> QED
      BY <1>2, <2>7, <3>2, <3>5, <3>6
  <2>9. PICK q : q = IF r.type = "MRU" THEN [r EXCEPT !.head = o] ELSE [r EXCEPT !.tail = o]
    OBVIOUS
  <2>10. q \in CacheType(N) /\ q.harm = "ok" /\ "harm" \in DOMAIN q /\ "nodes" \in DOMAIN q
    BY <2>5, <2>9 DEF CacheType
  <2>11. t = IF r.type = "MRU" THEN LRU!SetPrev(q, o, LRU!NULL) ELSE LRU!SetNext(q, o, LRU!NULL)
    BY <2>6, <2>9
  <2>12. \E z : Broken(LRU!NodeFree(t, n), z)
    <3>1. CASE o = 0
      <4>1. t = LRU!Harmed(q, "null")
        BY <2>10, <2>11, <3>1 DEF LRU!SetPrev, LRU!SetNext, LRU!Reach, LRU!Harmed, LRU!NULL
      <4>2. Broken(t, 0)
        BY <2>10, <4>1 DEF Broken, LRU!Harmed
      <4> QED
        BY <4>2, LRUBrokenNodeFree
    <3>2. CASE o # 0
      <4>1. t = IF r.type = "MRU" THEN LRU!MaySetPrev(q, o, 0) ELSE LRU!MaySetNext(q, o, 0)
        BY <2>11, <3>2 DEF LRU!MaySetPrev, LRU!MaySetNext, LRU!NULL
      <4>2. Alike(q, LRU!MaySetPrev(q, o, 0), N) /\ Alike(q, LRU!MaySetNext(q, o, 0), N)
        <5>1. 0 \in 0 .. N
          OBVIOUS
        <5> QED
          BY <2>5, <2>10, <5>1, LRUSetPrevFacts, LRUSetNextFacts
      <4>3. t \in CacheType(N)
        BY <4>1, <4>2 DEF Alike
      <4> QED
        BY <2>1, <4>3, LRUFreeSpoils
    <3> QED
      BY <3>1, <3>2
  <2>13. PICK z : Broken(LRU!NodeFree(t, n), z)
    BY <2>12
  <2>14. PICK u : u = LRU!NodeFree(t, n)
    OBVIOUS
  <2>15. Broken([u EXCEPT !.used = u.used - 1], z)
    BY <2>13, <2>14, LRUBrokenField
  <2>16. Broken(LRU!NodeFree([u EXCEPT !.used = u.used - 1], g), z)
    BY <2>15, LRUBrokenNodeFree
  <2> QED
    BY <2>8, <2>14, <2>16 DEF Spoilt
<1> QED
  BY <1>3, <1>4
(* What cache_clear frees, in a list by age: every node. *)
LEMMA LRUGoneFacts ==
  ASSUME NEW N \in Nat, NEW r, Indexed(r, N), r.retained = 0
  PROVE  GoneOf(r) = 1 .. N
<1>1. /\ r.head = N /\ Len(r.nodes) = N
      /\ \A n \in 1 .. N : r.nodes[n].next = n - 1
  <2>1. Len(r.nodes) = N
    BY LRULen DEF Indexed
  <2> QED
    BY <2>1 DEF Indexed, ByAge
<1>2. PICK w : w = [n \in 0 .. N |-> 1 .. n]
  OBVIOUS
<1>3. w = [n \in 0 .. Len(r.nodes) |->
             IF n = LRU!NULL THEN {} ELSE {n} \cup w[r.nodes[n].next]]
  <2>1. ASSUME NEW n \in 0 .. N
        PROVE  w[n] = IF n = LRU!NULL THEN {} ELSE {n} \cup w[r.nodes[n].next]
    <3>1. CASE n = 0
      <4>1. w[n] = {}
        BY <1>2, <3>1
      <4> QED
        BY <3>1, <4>1 DEF LRU!NULL
    <3>2. CASE n # 0
      <4>1. PICK m \in 0 .. N : m = n - 1
        BY <3>2
      <4>2. n \in 1 .. N
        BY <3>2
      <4>3. r.nodes[n].next = m
        BY <1>1, <4>1, <4>2
      <4>4. w[n] = 1 .. n /\ w[m] = 1 .. m
        BY <1>2
      <4>5. 1 .. n = {n} \cup 1 .. m
        BY <4>1, <4>2
      <4> QED
        BY <3>2, <4>3, <4>4, <4>5 DEF LRU!NULL
    <3> QED
      BY <3>1, <3>2
  <2>2. w = [n \in 0 .. N |-> IF n = LRU!NULL THEN {} ELSE {n} \cup w[r.nodes[n].next]]
    BY <1>2, <2>1
  <2> QED
    BY <1>1, <2>2
<1>4. PICK v : /\ v = [n \in 0 .. Len(r.nodes) |->
                         IF n = LRU!NULL THEN {} ELSE {n} \cup v[r.nodes[n].next]]
               /\ v = CHOOSE f : f = [n \in 0 .. Len(r.nodes) |->
                         IF n = LRU!NULL THEN {} ELSE {n} \cup f[r.nodes[n].next]]
  BY <1>3
<1>5. GoneOf(r) = v[N]
  BY <1>1, <1>4 DEF GoneOf
<1>6. v[0] = {} /\ \A n \in 1 .. N : v[n] = {n} \cup v[n - 1]
  <2>1. v = [n \in 0 .. N |-> IF n = 0 THEN {} ELSE {n} \cup v[r.nodes[n].next]]
    BY <1>1, <1>4 DEF LRU!NULL
  <2>2. v[0] = {}
    <3>1. 0 \in 0 .. N
      OBVIOUS
    <3> QED
      BY <2>1, <3>1
  <2>3. ASSUME NEW n \in 1 .. N PROVE v[n] = {n} \cup v[n - 1]
    <3>1. n \in 0 .. N /\ n # 0 /\ r.nodes[n].next = n - 1
      BY <1>1
    <3> QED
      BY <2>1, <3>1
  <2> QED
    BY <2>2, <2>3
<1> DEFINE A == {i \in 0 .. N : \A j \in 0 .. i : v[j] = 1 .. j}
<1>8. 0 \in A
  <2>1. \A j \in 0 .. 0 : j = 0
    OBVIOUS
  <2>2. 1 .. 0 = {}
    OBVIOUS
  <2>3. 0 \in 0 .. N /\ \A j \in 0 .. 0 : v[j] = 1 .. j
    BY <1>6, <2>1, <2>2
  <2> QED
    BY <2>3
<1>9. PICK a \in A : \A y \in A : y <= a
  <2>1. A \subseteq 0 .. N /\ A # {}
    BY <1>8
  <2> HIDE DEF A
  <2> QED
    BY <2>1, GreatestNumber
<1>10. a = N
  <2>1. SUFFICES ASSUME a # N PROVE FALSE
    OBVIOUS
  <2>2. PICK b \in 1 .. N : b = a + 1
    BY <1>9, <2>1
  <2>3. v[a] = 1 .. a /\ b - 1 = a
    BY <1>9, <2>2
  <2>4. v[b] = {b} \cup v[a]
    BY <1>6, <2>2, <2>3
  <2>5. {b} \cup 1 .. a = 1 .. b
    BY <2>2
  <2>6. \A j \in 0 .. b : j \in 0 .. a \/ j = b
    BY <2>2
  <2>7. b \in A
    <3>1. b \in 0 .. N /\ v[b] = 1 .. b
      BY <2>2, <2>3, <2>4, <2>5
    <3>2. \A j \in 0 .. a : v[j] = 1 .. j
      BY <1>9
    <3>3. \A j \in 0 .. b : v[j] = 1 .. j
      BY <2>6, <3>1, <3>2
    <3> QED
      BY <3>1, <3>3
  <2> HIDE DEF A
  <2> QED
    BY <1>9, <2>2, <2>7
<1> QED
  BY <1>5, <1>9, <1>10

LEMMA LRUClearFacts ==
  ASSUME NEW N \in Nat, NEW r, Indexed(r, N), r.retained = 0
  PROVE  LRU!Cleared(r).harm = "ok" /\ (Spoilt(LRU!Cleared(r)) \/ Indexed(LRU!Cleared(r), 0))
<1>0. r \in CacheType(N)
  BY DEF Indexed
<1>1. LRU!Cleared(r) = ClearedOf(r, 1 .. N) /\ Len(r.nodes) = N
  BY <1>0, LRUClearedOf, LRUGoneFacts, LRULen
<1>2. \A n \in 1 .. N : r.nodes[n] \in NodeType(N) /\ r.nodes[n].freed = FALSE
  BY <1>0, LRUNodeTyped
<1>3. PICK a : a = [n \in 1 .. N |-> IF n \in 1 .. N THEN [r.nodes[n] EXCEPT !.freed = TRUE]
                                     ELSE r.nodes[n]]
  OBVIOUS
<1>4. PICK s : s = [r EXCEPT !.head = 0, !.tail = 0, !.used = @ - LRU!Cardinality(1 .. N), !.nodes = a]
  OBVIOUS
<1>5. LRU!Cleared(r) = s
  BY <1>1, <1>2, <1>3, <1>4 DEF ClearedOf, LRU!NULL
<1>6. /\ s.harm = "ok" /\ s.nodes = a /\ "harm" \in DOMAIN s /\ "nodes" \in DOMAIN s
  BY <1>0, <1>4 DEF CacheType
<1>7. CASE N # 0
  <2>1. 1 \in DOMAIN a /\ "freed" \in DOMAIN a[1] /\ a[1].freed = TRUE
    <3>1. 1 \in 1 .. N
      BY <1>7
    <3>2. a[1] = [r.nodes[1] EXCEPT !.freed = TRUE] /\ DOMAIN a = 1 .. N
      BY <1>3, <3>1
    <3> QED
      BY <1>2, <3>1, <3>2 DEF NodeType
  <2>2. IsRow(a, N)
    BY <1>3 DEF IsRow
  <2>3. Broken(s, 1)
    BY <1>6, <2>1, <2>2 DEF Broken
  <2> QED
    BY <1>5, <1>6, <2>3 DEF Spoilt
<1>8. CASE N = 0
  <2>1. 1 .. N = {} /\ LRU!Cardinality({}) = 0
    BY <1>8, FS_EmptySet, LRUCounts
  <2>2. a \in [1 .. 0 -> NodeType(0)]
    BY <1>3, <1>8
  <2>3. r.used - LRU!Cardinality(1 .. N) = 0
    BY <1>0, <1>8, <2>1 DEF CacheType
  <2>4. s = [type |-> r.type, size |-> r.size, frees |-> r.frees, harm |-> r.harm, head |-> 0,
             tail |-> 0, retained |-> r.retained, used |-> 0, table |-> r.table, nodes |-> a]
    BY <1>0, <1>4, <2>3 DEF CacheType
  <2>5. s \in CacheType(0)
    BY <1>0, <1>8, <2>2, <2>4 DEF CacheType
  <2>6. s.table = r.table /\ s.head = 0 /\ s.tail = 0
    BY <2>4
  <2>7. Chained(s, 0) /\ Distinct(s, 0)
    <3>1. Chained(r, 0) /\ Distinct(r, 0)
      BY <1>8 DEF Indexed
    <3> QED
      BY <2>6, <3>1, LRUSameIndex
  <2>8. ByAge(s, 0)
    BY <2>6 DEF ByAge
  <2> QED
    BY <1>5, <1>6, <2>5, <2>7, <2>8 DEF Indexed
<1> QED
  BY <1>7, <1>8

(* The cache is in order, or spoilt by a full insert or a node freed twice. *)
GoesOn == \/ v1'.harm = "ok" /\ (Spoilt(v1') \/ \E M \in Nat : Indexed(v1', M))
          \/ Spoilt(v1') /\ (LRU!DoubleFree \/ LRU!FullInsert)

LEMMA LRUStays ==
  ASSUME NEW N \in Nat, Indexed(v1, N), NEW M \in Nat, NEW r, Indexed(r, M), LRU!Leaves(r)
  PROVE  GoesOn
<1>1. r.harm = "ok"
  BY DEF Indexed, CacheType
<1>2. v1' = r
  BY <1>1 DEF LRU!Leaves
<1> QED
  BY <1>1, <1>2 DEF GoesOn

LEMMA LRUInsertGoesOn ==
  ASSUME NEW N \in Nat, Indexed(v1, N), NEW k \in Keys, LRU!cache_insert(k)
  PROVE  GoesOn
<1>1. CASE v1.used = v1.size
  <2>1. PICK r : r = LRU!Purge(v1)
    OBVIOUS
  <2>2. PICK n : n = Len(r.nodes) + 1
    OBVIOUS
  <2>3. \/ LRU!Leaves(r) \/ LRU!Leaves(LRU!Harmed(r, "stale")) \/ LRU!Leaves(LRU!LinkFirst(LRU!HtInsert(r, k), n))
    BY <1>1, <2>1, <2>2 DEF LRU!cache_insert
  <2>4. Spoilt(r)
    BY <2>1, LRUPurgeSpoils DEF Indexed
  <2>5. Spoilt(LRU!Harmed(r, "stale")) /\ Spoilt(LRU!HtInsert(r, k))
    BY <2>4, LRUSpoiltOps, LRUSpoiltStale
  <2>6. Spoilt(LRU!LinkFirst(LRU!HtInsert(r, k), n))
    BY <2>5, LRUSpoiltOps
  <2> QED
    BY <1>1, <2>3, <2>4, <2>5, <2>6, LRULeavesSpoilt DEF GoesOn, LRU!FullInsert
<1>2. CASE v1.used # v1.size
  <2>0. Len(v1.nodes) = N /\ v1.harm = "ok"
    <3>1. v1 \in CacheType(N)
      BY DEF Indexed
    <3> QED
      BY <3>1, LRULen DEF CacheType
  <2>1. LRU!Lookup(v1, k) \in 0 .. N
    BY LRULookupFacts
  <2>2. \/ LRU!Leaves(v1)
        \/ LRU!Lookup(v1, k) = 0 /\ LRU!Leaves(LRU!LinkFirst(LRU!HtInsert(v1, k), N + 1))
    BY <1>2, <2>0, <2>1 DEF LRU!cache_insert, LRU!NULL
  <2>3. CASE LRU!Leaves(v1)
    BY <2>3, LRUStays
  <2>4. CASE LRU!Lookup(v1, k) = 0 /\ LRU!Leaves(LRU!LinkFirst(LRU!HtInsert(v1, k), N + 1))
    <3>1. \A m \in 1 .. N : v1.nodes[m].key # k
      BY <2>4, LRULookupFacts
    <3>2. SIZE \in Nat \ {0}
      BY CacheAssumption
    <3>3. Indexed(LRU!LinkFirst(LRU!HtInsert(v1, k), N + 1), N + 1)
      BY <3>1, <3>2, LRUInsertIndexed
    <3>4. PICK M \in Nat : M = N + 1
      OBVIOUS
    <3>5. PICK r : r = LRU!LinkFirst(LRU!HtInsert(v1, k), N + 1)
      OBVIOUS
    <3>6. Indexed(r, M) /\ LRU!Leaves(r)
      BY <2>4, <3>3, <3>4, <3>5
    <3> QED
      BY <3>6, LRUStays
  <2> QED
    BY <2>2, <2>3, <2>4
<1> QED
  BY <1>1, <1>2

(* A removal of a key whose node is not retained frees it twice. *)
LEMMA LRURemoveTwice ==
  ASSUME NEW N \in Nat, Indexed(v1, N), NEW k \in Keys, LRU!cache_remove(k),
         LRU!Lookup(v1, k) # 0, v1.nodes[LRU!Lookup(v1, k)].retain = 0
  PROVE  Spoilt(v1') /\ v1'.harm = "twice"
<1>0. v1 \in CacheType(N)
  BY DEF Indexed
<1>1. PICK n : n = LRU!Lookup(v1, k)
  OBVIOUS
<1>2. n \in 1 .. N
  BY <1>1, LRULookupFacts
<1>3. PICK s : s = LRU!Unlink(v1, n)
  OBVIOUS
<1>4. LRU!Leaves(LRU!NodeFree(LRU!NodeFree(s, n), n))
  BY <1>1, <1>2, <1>3 DEF LRU!cache_remove, LRU!NULL
<1>5. s \in CacheType(N)
  <2>1. Alike(v1, s, N)
    BY <1>0, <1>2, <1>3, LRUUnlinkFacts
  <2> QED
    BY <2>1 DEF Alike
<1>6. PICK r : r = LRU!NodeFree(LRU!NodeFree(s, n), n)
  OBVIOUS
<1>7. Broken(LRU!NodeFree(s, n), n) /\ r.harm = "twice"
  BY <1>2, <1>5, <1>6, LRUFreeSpoils
<1>8. Broken(r, n)
  BY <1>6, <1>7, LRUBrokenNodeFree
<1>9. Spoilt(v1')
  BY <1>4, <1>6, <1>8, LRULeavesSpoilt DEF Spoilt
<1>10. v1'.harm = "twice"
  BY <1>4, <1>6, <1>7 DEF LRU!Leaves, LRU!Empty
<1> QED
  BY <1>9, <1>10

LEMMA LRURemoveGoesOn ==
  ASSUME NEW N \in Nat, Indexed(v1, N), NEW k \in Keys, LRU!cache_remove(k)
  PROVE  GoesOn
<1>1. PICK n : n = LRU!Lookup(v1, k)
  OBVIOUS
<1>2. n \in 0 .. N /\ v1 \in CacheType(N)
  BY <1>1, LRULookupFacts DEF Indexed
<1>3. n # 0 => v1.nodes[n].retain \in Nat
  <2>1. SUFFICES ASSUME n # 0 PROVE v1.nodes[n].retain \in Nat
    OBVIOUS
  <2>2. n \in 1 .. N
    BY <1>2, <2>1
  <2>3. v1.nodes[n].retain \in 0 .. SIZE - 1
    BY <1>2, <2>2, LRUNodeTyped
  <2> QED
    BY <2>3
<1>4. CASE n = 0 \/ v1.nodes[n].retain # 0
  <2>1. LRU!Leaves(v1)
    BY <1>1, <1>2, <1>3, <1>4 DEF LRU!cache_remove, LRU!NULL
  <2> QED
    BY <2>1, LRUStays
<1>5. CASE n # 0 /\ v1.nodes[n].retain = 0
  <2>1. Spoilt(v1') /\ v1'.harm = "twice"
    BY <1>1, <1>5, LRURemoveTwice
  <2>2. LRU!DoubleFree
    BY <1>1, <1>2, <1>5 DEF LRU!DoubleFree
  <2> QED
    BY <2>1, <2>2 DEF GoesOn
<1> QED
  BY <1>4, <1>5

LEMMA LRURetainGoesOn ==
  ASSUME NEW N \in Nat, Indexed(v1, N), NEW k \in Keys, LRU!cache_retain(k)
  PROVE  GoesOn
<1>0. v1 \in CacheType(N)
  BY DEF Indexed
<1>1. PICK n : n = LRU!Lookup(v1, k)
  OBVIOUS
<1>2. n \in 0 .. N
  BY <1>1, LRULookupFacts
<1>3. PICK u : u = LRU!Unlink(v1, n)
  OBVIOUS
<1>4. PICK s : s = [u EXCEPT !.nodes[n].prev = LRU!NULL, !.nodes[n].next = v1.retained,
                             !.nodes[n].retain = 1, !.retained = n]
  OBVIOUS
<1>5. LRU!Leaves(IF n = -1 THEN LRU!Harmed(v1, "stale")
             ELSE IF n = LRU!NULL THEN v1
             ELSE IF v1.nodes[n].retain > 0
             THEN [v1 EXCEPT !.nodes[n].retain = (@ + 1) % SIZE] ELSE s)
  BY <1>1, <1>3, <1>4 DEF LRU!cache_retain
<1>6. CASE n = 0
  <2>1. LRU!Leaves(v1)
    BY <1>5, <1>6 DEF LRU!NULL
  <2> QED
    BY <2>1, LRUStays
<1>7. CASE n # 0
  <2>1. n \in 1 .. N
    BY <1>2, <1>7
  <2>2. v1.nodes[n] \in NodeType(N) /\ v1.nodes[n].retain \in 0 .. SIZE - 1
    BY <1>0, <2>1, LRUNodeTyped
  <2>3. SIZE \in Nat /\ SIZE > 1
    BY CacheAssumption
  <2>4. CASE v1.nodes[n].retain > 0
    <3>1. PICK m \in 0 .. SIZE - 1 : m = (v1.nodes[n].retain + 1) % SIZE
      <4>1. (v1.nodes[n].retain + 1) % SIZE \in 0 .. SIZE - 1
        BY <2>2, <2>3
      <4> QED
        BY <4>1
    <3>2. PICK x : x = [v1.nodes[n] EXCEPT !.retain = m]
      OBVIOUS
    <3>3. /\ x \in NodeType(N) /\ x.key = v1.nodes[n].key /\ x.hash = v1.nodes[n].hash
          /\ x.next = v1.nodes[n].next /\ x.prev = v1.nodes[n].prev /\ x.retain = m
      BY <2>2, <3>1, <3>2 DEF NodeType
    <3>4. PICK r : r = [v1 EXCEPT !.nodes[n] = x]
      OBVIOUS
    <3>5. LRU!Leaves(r)
      <4>1. r = [v1 EXCEPT !.nodes[n].retain = (@ + 1) % SIZE]
        BY <1>0, <3>1, <3>2, <3>4 DEF CacheType
      <4> QED
        BY <1>5, <2>1, <2>4, <4>1 DEF LRU!NULL
    <3>6. /\ r \in CacheType(N) /\ r.table = v1.table
          /\ r.head = v1.head /\ r.tail = v1.tail /\ r.retained = v1.retained
          /\ \A i \in 1 .. N : r.nodes[i] = IF i = n THEN x ELSE v1.nodes[i]
      BY <1>0, <2>1, <3>3, <3>4, LRUPutNode
    <3>7. Chained(r, N) /\ Distinct(r, N)
      <4>1. \A i \in 1 .. N : r.nodes[i].key = v1.nodes[i].key /\ r.nodes[i].hash = v1.nodes[i].hash
        BY <3>3, <3>6
      <4> QED
        BY <3>6, <4>1, LRUSameIndex DEF Indexed
    <3>8. ByAge(r, N)
      <4>1. ASSUME v1.retained = 0 PROVE x.retain \in {0, SIZE - 1}
        <5>1. v1.nodes[n].retain = SIZE - 1
          BY <2>1, <2>4, <4>1 DEF Indexed, ByAge
        <5>2. v1.nodes[n].retain + 1 = SIZE /\ SIZE % SIZE = 0
          BY <2>3, <5>1
        <5> QED
          BY <3>1, <3>3, <5>2
      <4> QED
        BY <3>3, <3>6, <4>1 DEF Indexed, ByAge
    <3> QED
      BY <3>5, <3>6, <3>7, <3>8, LRUStays DEF Indexed
  <2>5. CASE ~(v1.nodes[n].retain > 0)
    <3>1. LRU!Leaves(s)
      BY <1>5, <2>1, <2>5 DEF LRU!NULL
    <3>2. Alike(v1, u, N) /\ u.retained = v1.retained
      BY <1>0, <1>3, <2>1, LRUUnlinkFacts
    <3>3. u \in CacheType(N) /\ u.nodes[n] \in NodeType(N) /\ v1.retained \in 0 .. N
      <4>1. u \in CacheType(N)
        BY <3>2 DEF Alike
      <4> QED
        BY <1>0, <2>1, <4>1, LRUNodeTyped DEF CacheType
    <3>4. PICK x : x = [u.nodes[n] EXCEPT !.prev = 0, !.next = v1.retained, !.retain = 1]
      OBVIOUS
    <3>5. /\ x \in NodeType(N) /\ x.key = u.nodes[n].key /\ x.hash = u.nodes[n].hash
      <4>1. 0 \in 0 .. N /\ 1 \in 0 .. SIZE - 1
        BY <2>3
      <4> QED
        BY <3>3, <3>4, <4>1 DEF NodeType
    <3>6. PICK v : v = [u EXCEPT !.nodes[n] = x]
      OBVIOUS
    <3>7. /\ v \in CacheType(N) /\ v.table = u.table
          /\ \A i \in 1 .. N : v.nodes[i] = IF i = n THEN x ELSE u.nodes[i]
      BY <2>1, <3>3, <3>5, <3>6, LRUPutNode
    <3>8. s = [v EXCEPT !.retained = n]
      <4>1. v = [u EXCEPT !.nodes[n].prev = 0, !.nodes[n].next = v1.retained, !.nodes[n].retain = 1]
        BY <2>1, <3>3, <3>4, <3>6 DEF CacheType
      <4> QED
        BY <1>4, <4>1 DEF LRU!NULL
    <3>9. s \in CacheType(N) /\ s.table = v.table /\ s.nodes = v.nodes /\ s.retained = n
      <4>1. n \in 0 .. N
        BY <2>1
      <4> QED
        BY <3>7, <3>8, <4>1 DEF CacheType
    <3>10. Chained(s, N) /\ Distinct(s, N)
      <4>1. s.table = v1.table /\ \A i \in 1 .. N : /\ s.nodes[i].key = v1.nodes[i].key
                                                    /\ s.nodes[i].hash = v1.nodes[i].hash
        BY <3>2, <3>5, <3>7, <3>9 DEF Alike
      <4> QED
        BY <4>1, LRUSameIndex DEF Indexed
    <3>11. ByAge(s, N)
      BY <1>7, <3>9 DEF ByAge
    <3> QED
      BY <3>1, <3>9, <3>10, <3>11, LRUStays DEF Indexed
  <2> QED
    BY <2>4, <2>5
<1> QED
  BY <1>6, <1>7

LEMMA LRUReleaseGoesOn ==
  ASSUME NEW N \in Nat, Indexed(v1, N), NEW k \in Keys, LRU!cache_release(k)
  PROVE  GoesOn
<1>0. v1 \in CacheType(N)
  BY DEF Indexed
<1>1. PICK n : n = LRU!Lookup(v1, k)
  OBVIOUS
<1>2. n \in 0 .. N
  BY <1>1, LRULookupFacts
<1>3. PICK s : s = [v1 EXCEPT !.nodes[n].retain = (@ - 1) % SIZE]
  OBVIOUS
<1>4. /\ n > 0 => v1.nodes[n].retain <= MaxRetain
      /\ LRU!Leaves(IF n = -1 THEN LRU!Harmed(v1, "stale")
                ELSE IF n = LRU!NULL THEN v1
                ELSE IF s.nodes[n].retain > 0 THEN s
                ELSE LRU!LinkAgain(LRU!Unlink(s, n), n))
  BY <1>1, <1>3 DEF LRU!cache_release
<1>5. CASE n = 0
  <2>1. LRU!Leaves(v1)
    BY <1>4, <1>5 DEF LRU!NULL
  <2> QED
    BY <2>1, LRUStays
<1>6. CASE n # 0
  <2>1. n \in 1 .. N /\ n > 0
    BY <1>2, <1>6
  <2>2. v1.nodes[n] \in NodeType(N) /\ v1.nodes[n].retain \in 0 .. SIZE - 1
    BY <1>0, <2>1, LRUNodeTyped
  <2>3. SIZE \in Nat /\ SIZE > 1 /\ MaxRetain \in Nat /\ MaxRetain < SIZE - 1
    BY CacheAssumption
  <2>4. PICK m \in 0 .. SIZE - 1 : m = (v1.nodes[n].retain - 1) % SIZE
    <3>1. (v1.nodes[n].retain - 1) % SIZE \in 0 .. SIZE - 1
      BY <2>2, <2>3
    <3> QED
      BY <3>1
  <2>5. PICK x : x = [v1.nodes[n] EXCEPT !.retain = m]
    OBVIOUS
  <2>6. /\ x \in NodeType(N) /\ x.key = v1.nodes[n].key /\ x.hash = v1.nodes[n].hash
        /\ x.next = v1.nodes[n].next /\ x.prev = v1.nodes[n].prev /\ x.retain = m
    BY <2>2, <2>4, <2>5 DEF NodeType
  <2>7. s = [v1 EXCEPT !.nodes[n] = x]
    BY <1>0, <1>3, <2>4, <2>5 DEF CacheType
  <2>8. /\ s \in CacheType(N) /\ s.table = v1.table
        /\ s.head = v1.head /\ s.tail = v1.tail /\ s.retained = v1.retained
        /\ \A i \in 1 .. N : s.nodes[i] = IF i = n THEN x ELSE v1.nodes[i]
    BY <1>0, <2>1, <2>6, <2>7, LRUPutNode
  <2>9. \A i \in 1 .. N : s.nodes[i].key = v1.nodes[i].key /\ s.nodes[i].hash = v1.nodes[i].hash
    BY <2>6, <2>8
  <2>10. v1.retained = 0 => m = SIZE - 1
    <3>1. SUFFICES ASSUME v1.retained = 0 PROVE m = SIZE - 1
      OBVIOUS
    <3>2. v1.nodes[n].retain \in {0, SIZE - 1}
      BY <2>1, <3>1 DEF Indexed, ByAge
    <3>3. v1.nodes[n].retain = 0
      BY <1>4, <2>1, <2>3, <3>2
    <3>4. (-1) % SIZE = SIZE - 1 /\ 0 - 1 = -1
      BY <2>3
    <3> QED
      BY <2>4, <3>3, <3>4
  <2>11. CASE m > 0
    <3>1. LRU!Leaves(s)
      BY <1>4, <2>1, <2>6, <2>8, <2>11 DEF LRU!NULL
    <3>2. Chained(s, N) /\ Distinct(s, N)
      BY <2>8, <2>9, LRUSameIndex DEF Indexed
    <3>3. ByAge(s, N)
      BY <2>6, <2>8, <2>10 DEF Indexed, ByAge
    <3> QED
      BY <2>8, <3>1, <3>2, <3>3, LRUStays DEF Indexed
  <2>12. CASE ~(m > 0)
    <3>1. v1.retained # 0
      BY <2>3, <2>10, <2>12
    <3>2. PICK u : u = LRU!Unlink(s, n)
      OBVIOUS
    <3>3. LRU!Leaves(LRU!LinkAgain(u, n))
      BY <1>4, <2>1, <2>6, <2>8, <2>12, <3>2 DEF LRU!NULL
    <3>4. Alike(s, u, N) /\ u.retained = s.retained
      BY <2>1, <2>8, <3>2, LRUUnlinkFacts
    <3>5. u \in CacheType(N) /\ u.nodes[n] \in NodeType(N) /\ u.head \in 0 .. N
      <4>1. u \in CacheType(N)
        BY <3>4 DEF Alike
      <4> QED
        BY <2>1, <4>1, LRUNodeTyped DEF CacheType
    <3>6. PICK y : y = [u.nodes[n] EXCEPT !.next = u.head, !.prev = 0]
      OBVIOUS
    <3>7. y \in NodeType(N) /\ y.key = u.nodes[n].key /\ y.hash = u.nodes[n].hash
      <4>1. 0 \in 0 .. N
        OBVIOUS
      <4> QED
        BY <3>5, <3>6, <4>1 DEF NodeType
    <3>8. PICK v : v = [u EXCEPT !.nodes[n] = y]
      OBVIOUS
    <3>9. /\ v \in CacheType(N) /\ v.table = u.table /\ v.tail = u.tail /\ v.retained = u.retained
          /\ \A i \in 1 .. N : v.nodes[i] = IF i = n THEN y ELSE u.nodes[i]
      BY <2>1, <3>5, <3>7, <3>8, LRUPutNode
    <3>10. PICK z : z = [v EXCEPT !.head = n, !.tail = IF v.tail = 0 THEN n ELSE v.tail]
      OBVIOUS
    <3>11. z = LRU!LinkAgain(u, n)
      <4>1. v = [u EXCEPT !.nodes[n].next = u.head, !.nodes[n].prev = 0]
        BY <2>1, <3>5, <3>6, <3>8 DEF CacheType
      <4>2. PICK d : d = u.head
        OBVIOUS
      <4>3. PICK t : t = IF u.tail = 0 THEN n ELSE u.tail
        OBVIOUS
      <4>4. z = [v EXCEPT !.head = n, !.tail = t]
        BY <3>9, <3>10, <4>3
      <4>5. LRU!LinkAgain(u, n) = [u EXCEPT !.nodes[n].next = d, !.nodes[n].prev = 0, !.head = n, !.tail = t]
        BY <4>2, <4>3 DEF LRU!LinkAgain, LRU!NULL
      <4>6. v = [u EXCEPT !.nodes[n].next = d, !.nodes[n].prev = 0]
        BY <4>1, <4>2
      <4> QED
        BY <4>4, <4>5, <4>6
    <3>12. z \in CacheType(N) /\ z.table = v.table /\ z.nodes = v.nodes /\ z.retained = v.retained
      <4>1. n \in 0 .. N
        BY <2>1
      <4> QED
        BY <3>9, <3>10, <4>1 DEF CacheType
    <3>13. Chained(z, N) /\ Distinct(z, N)
      <4>1. z.table = v1.table /\ \A i \in 1 .. N : /\ z.nodes[i].key = v1.nodes[i].key
                                                    /\ z.nodes[i].hash = v1.nodes[i].hash
        BY <2>8, <2>9, <3>4, <3>7, <3>9, <3>12 DEF Alike
      <4> QED
        BY <4>1, LRUSameIndex DEF Indexed
    <3>14. ByAge(z, N)
      BY <2>8, <3>1, <3>4, <3>9, <3>12 DEF ByAge
    <3> QED
      BY <3>3, <3>11, <3>12, <3>13, <3>14, LRUStays DEF Indexed
  <2> QED
    BY <2>11, <2>12
<1> QED
  BY <1>5, <1>6

LEMMA LRUEndGoesOn ==
  ASSUME NEW N \in Nat, Indexed(v1, N), LRU!cache_clear \/ LRU!cache_free
  PROVE  GoesOn
<1>1. CASE LRU!cache_clear /\ v1.retained # 0
  <2>1. LRU!Leaves(v1)
    BY <1>1 DEF LRU!cache_clear, LRU!NULL
  <2> QED
    BY <2>1, LRUStays
<1>2. CASE v1.retained = 0
  <2>1. LRU!Cleared(v1).harm = "ok" /\ (Spoilt(LRU!Cleared(v1)) \/ Indexed(LRU!Cleared(v1), 0))
    BY <1>2, LRUClearFacts
  <2>2. CASE LRU!cache_clear
    <3>1. v1' = LRU!Cleared(v1)
      BY <1>2, <2>1, <2>2 DEF LRU!cache_clear, LRU!Leaves, LRU!NULL
    <3>2. 0 \in Nat
      OBVIOUS
    <3> QED
      BY <2>1, <3>1, <3>2 DEF GoesOn
  <2>3. CASE LRU!cache_free
    <3>1. v1' = LRU!Empty("none", 0, FALSE, "ok")
      BY <2>1, <2>3 DEF LRU!cache_free, LRU!Unused
    <3>2. Indexed(LRU!Empty("none", 0, FALSE, "ok"), 0)
      BY LRUEmptyIndexed
    <3>3. LRU!Empty("none", 0, FALSE, "ok").harm = "ok" /\ 0 \in Nat
      BY DEF LRU!Empty
    <3> QED
      BY <3>1, <3>2, <3>3 DEF GoesOn
  <2> QED
    BY <2>2, <2>3
<1> QED
  BY <1>1, <1>2 DEF LRU!cache_free, LRU!NULL

LEMMA LRUSpoiltSteps ==
  ASSUME Spoilt(v1), NEW k \in Keys,
         \/ LRU!cache_insert(k) \/ LRU!cache_remove(k) \/ LRU!cache_contains(k)
         \/ LRU!cache_retain(k) \/ LRU!cache_release(k)
  PROVE  Spoilt(v1')
<1>1. Spoilt(LRU!Harmed(v1, "stale"))
  BY LRUSpoiltStale
<1>2. CASE LRU!cache_insert(k)
  <2>1. PICK r : r = IF v1.used = v1.size THEN LRU!Purge(v1) ELSE v1
    OBVIOUS
  <2>2. PICK n : n = Len(r.nodes) + 1
    OBVIOUS
  <2>3. \/ LRU!Leaves(r) \/ LRU!Leaves(LRU!Harmed(r, "stale")) \/ LRU!Leaves(LRU!LinkFirst(LRU!HtInsert(r, k), n))
    BY <1>2, <2>1, <2>2 DEF LRU!cache_insert
  <2>4. Spoilt(r)
    BY <2>1, LRUSpoiltOps
  <2>5. Spoilt(LRU!Harmed(r, "stale")) /\ Spoilt(LRU!HtInsert(r, k))
    BY <2>4, LRUSpoiltOps, LRUSpoiltStale
  <2>6. Spoilt(LRU!LinkFirst(LRU!HtInsert(r, k), n))
    BY <2>5, LRUSpoiltOps
  <2> QED
    BY <2>3, <2>4, <2>5, <2>6, LRULeavesSpoilt
<1>3. PICK n : n = LRU!Lookup(v1, k)
  OBVIOUS
<1>4. PICK u : u = LRU!Unlink(v1, n)
  OBVIOUS
<1>5. Spoilt(u)
  BY <1>4, LRUSpoiltOps
<1>6. CASE LRU!cache_remove(k)
  <2>1. \/ LRU!Leaves(LRU!Harmed(v1, "stale")) \/ LRU!Leaves(v1) \/ LRU!Leaves(LRU!NodeFree(LRU!NodeFree(u, n), n))
    BY <1>3, <1>4, <1>6 DEF LRU!cache_remove
  <2>2. Spoilt(LRU!NodeFree(u, n))
    BY <1>5, LRUSpoiltOps
  <2>3. Spoilt(LRU!NodeFree(LRU!NodeFree(u, n), n))
    BY <2>2, LRUSpoiltOps
  <2> QED
    BY <1>1, <2>1, <2>3, LRULeavesSpoilt
<1>7. CASE LRU!cache_contains(k)
  <2>1. LRU!Leaves(LRU!Harmed(v1, "stale")) \/ LRU!Leaves(v1)
    BY <1>7 DEF LRU!cache_contains
  <2> QED
    BY <1>1, <2>1, LRULeavesSpoilt
<1>8. CASE LRU!cache_retain(k)
  <2>1. PICK s : s = [v1 EXCEPT !.nodes[n].retain = (@ + 1) % SIZE]
    OBVIOUS
  <2>2. Spoilt(s)
    <3>1. PICK m : m = (v1.nodes[n].retain + 1) % SIZE
      OBVIOUS
    <3>2. s = [v1 EXCEPT !.nodes[n].retain = m]
      BY <2>1, <3>1
    <3> QED
      BY <3>2, LRUSpoiltField
  <2>3. PICK x : x = [u EXCEPT !.nodes[n].prev = LRU!NULL]
    OBVIOUS
  <2>4. PICK y : y = [x EXCEPT !.nodes[n].next = v1.retained]
    OBVIOUS
  <2>5. PICK z : z = [y EXCEPT !.nodes[n].retain = 1]
    OBVIOUS
  <2>6. Spoilt(x)
    BY <1>5, <2>3, LRUSpoiltField
  <2>7. Spoilt(y)
    BY <2>4, <2>6, LRUSpoiltField
  <2>8. Spoilt(z)
    BY <2>5, <2>7, LRUSpoiltField
  <2>9. Spoilt([z EXCEPT !.retained = n])
    BY <2>8, LRUBrokenField DEF Spoilt
  <2>10. [z EXCEPT !.retained = n] = [u EXCEPT !.nodes[n].prev = LRU!NULL, !.nodes[n].next = v1.retained,
                                               !.nodes[n].retain = 1, !.retained = n]
    BY <2>3, <2>4, <2>5
  <2>11. \/ LRU!Leaves(LRU!Harmed(v1, "stale")) \/ LRU!Leaves(v1) \/ LRU!Leaves(s)
         \/ LRU!Leaves([z EXCEPT !.retained = n])
    BY <1>3, <1>4, <1>8, <2>1, <2>10 DEF LRU!cache_retain
  <2> QED
    BY <1>1, <2>2, <2>9, <2>11, LRULeavesSpoilt
<1>9. CASE LRU!cache_release(k)
  <2>1. PICK s : s = [v1 EXCEPT !.nodes[n].retain = (@ - 1) % SIZE]
    OBVIOUS
  <2>2. Spoilt(s)
    <3>1. PICK m : m = (v1.nodes[n].retain - 1) % SIZE
      OBVIOUS
    <3>2. s = [v1 EXCEPT !.nodes[n].retain = m]
      BY <2>1, <3>1
    <3> QED
      BY <3>2, LRUSpoiltField
  <2>3. Spoilt(LRU!Unlink(s, n))
    BY <2>2, LRUSpoiltOps
  <2>4. Spoilt(LRU!LinkAgain(LRU!Unlink(s, n), n))
    BY <2>3, LRUSpoiltOps
  <2>5. \/ LRU!Leaves(LRU!Harmed(v1, "stale")) \/ LRU!Leaves(v1) \/ LRU!Leaves(s)
        \/ LRU!Leaves(LRU!LinkAgain(LRU!Unlink(s, n), n))
    BY <1>3, <1>9, <2>1 DEF LRU!cache_release
  <2> QED
    BY <1>1, <2>2, <2>4, <2>5, LRULeavesSpoilt
<1> QED
  BY <1>2, <1>6, <1>7, <1>8, <1>9
LEMMA LRUSpoiltTouched ==
  ASSUME Spoilt(v1)
  PROVE  ~LRU!Untouched
<1>1. SUFFICES ASSUME LRU!Untouched PROVE FALSE
  OBVIOUS
<1>2. PICK z : Broken(v1, z)
  BY DEF Spoilt
<1>3. z \in DOMAIN v1.nodes /\ v1.nodes[z].freed = TRUE
  BY <1>1, <1>2 DEF Broken, LRU!Untouched
<1>4. PICK k \in Nat : IsRow(v1.nodes, k)
  BY <1>1, <1>2 DEF Broken, LRU!Untouched
<1>5. Len(v1.nodes) = k /\ z \in 1 .. k
  <2>1. Len(v1.nodes) = k
    BY <1>4, LRUAppend
  <2> QED
    BY <1>3, <1>4, <2>1 DEF IsRow
<1> QED
  BY <1>1, <1>3, <1>5 DEF LRU!Untouched, LRU!Nodes

(* Each step keeps the cache in order or spoils it, and harms one in order *)
(* only by a full insert or a removal.                                     *)
LEMMA LRUNextFacts ==
  ASSUME CacheInv, LRU!Next
  PROVE  CacheInv' /\ LRU!HarmNeedsFree
<1>1. CASE \E type \in {"LRU", "MRU"}, cap \in Capacities, frees \in BOOLEAN :
             LRU!cache_alloc(type, cap, frees)
  <2>1. PICK type \in {"LRU", "MRU"}, cap \in Capacities, frees \in BOOLEAN :
               LRU!cache_alloc(type, cap, frees)
    BY <1>1
  <2>2. v1.type = "none" /\ \/ v1' = LRU!Empty(type, cap, frees, "ok")
                            \/ v1' = LRU!Empty(type, cap, frees, "junk")
    BY <2>1 DEF LRU!cache_alloc
  <2>3. Indexed(LRU!Empty(type, cap, frees, "ok"), 0)
    BY LRUEmptyIndexed
  <2>4. Spoilt(LRU!Empty(type, cap, frees, "junk"))
    BY LRUEmptyFacts
  <2>5. 0 \in Nat
    OBVIOUS
  <2>6. Spoilt(v1') \/ \E N \in Nat : Indexed(v1', N)
    BY <2>2, <2>3, <2>4, <2>5
  <2> QED
    BY <2>2, <2>6 DEF CacheInv, LRU!HarmNeedsFree
<1>2. CASE Spoilt(v1) /\ ~(\E type \in {"LRU", "MRU"}, cap \in Capacities, frees \in BOOLEAN :
             LRU!cache_alloc(type, cap, frees))
  <2>1. LRU!HarmNeedsFree
    BY <1>2, LRUSpoiltTouched DEF LRU!HarmNeedsFree
  <2>2. Spoilt(v1') \/ \E N \in Nat : Indexed(v1', N)
    <3>1. CASE \E k \in Keys : \/ LRU!cache_insert(k) \/ LRU!cache_remove(k) \/ LRU!cache_contains(k)
                               \/ LRU!cache_retain(k) \/ LRU!cache_release(k)
      BY <1>2, <3>1, LRUSpoiltSteps
    <3>2. CASE LRU!cache_clear
      <4>1. Spoilt(LRU!Cleared(v1))
        BY <1>2, LRUSpoiltStale
      <4>2. LRU!Leaves(LRU!Cleared(v1)) \/ LRU!Leaves(v1)
        BY <3>2 DEF LRU!cache_clear
      <4> QED
        BY <1>2, <4>1, <4>2, LRULeavesSpoilt
    <3>3. CASE LRU!cache_free
      <4>1. Spoilt(LRU!Cleared(v1))
        BY <1>2, LRUSpoiltStale
      <4>2. v1' = LRU!Empty("none", 0, FALSE, "ok") \/ LRU!Leaves(LRU!Cleared(v1))
        BY <3>3 DEF LRU!cache_free, LRU!Unused
      <4>3. Indexed(LRU!Empty("none", 0, FALSE, "ok"), 0) /\ 0 \in Nat
        BY LRUEmptyIndexed
      <4> QED
        BY <4>1, <4>2, <4>3, LRULeavesSpoilt
    <3>4. CASE UNCHANGED v1
      BY <1>2, <3>4 DEF Spoilt
    <3> QED
      BY <1>2, <3>1, <3>2, <3>3, <3>4 DEF LRU!Next
  <2> QED
    BY <2>1, <2>2 DEF CacheInv
<1>3. CASE ~Spoilt(v1) /\ ~(\E type \in {"LRU", "MRU"}, cap \in Capacities, frees \in BOOLEAN :
             LRU!cache_alloc(type, cap, frees))
  <2>1. PICK N \in Nat : Indexed(v1, N)
    BY <1>3 DEF CacheInv
  <2>2. v1.harm = "ok"
    BY <2>1 DEF Indexed, CacheType
  <2>3. GoesOn
    <3>1. ASSUME NEW k \in Keys, LRU!cache_contains(k) PROVE GoesOn
      <4>1. LRU!Lookup(v1, k) \in 0 .. N
        BY <2>1, LRULookupFacts
      <4>2. LRU!Leaves(v1)
        BY <3>1, <4>1 DEF LRU!cache_contains
      <4> QED
        BY <2>1, <4>2, LRUStays
    <3>2. CASE \E k \in Keys : \/ LRU!cache_insert(k) \/ LRU!cache_remove(k) \/ LRU!cache_contains(k)
                               \/ LRU!cache_retain(k) \/ LRU!cache_release(k)
      BY <2>1, <3>1, <3>2, LRUInsertGoesOn, LRURemoveGoesOn, LRURetainGoesOn, LRUReleaseGoesOn
    <3>3. CASE LRU!cache_clear \/ LRU!cache_free
      BY <2>1, <3>3, LRUEndGoesOn
    <3> QED
      BY <1>3, <2>2, <3>2, <3>3 DEF LRU!Next
  <2>4. Spoilt(v1') \/ \E M \in Nat : Indexed(v1', M)
    BY <2>3 DEF GoesOn
  <2>5. LRU!DoubleFree => v1'.harm = "twice"
    <3>1. SUFFICES ASSUME NEW k \in Keys, LRU!Lookup(v1, k) > 0, LRU!cache_remove(k),
                          v1.nodes[LRU!Lookup(v1, k)].retain = 0
                   PROVE  v1'.harm = "twice"
      BY DEF LRU!DoubleFree
    <3>2. LRU!Lookup(v1, k) # 0
      BY <3>1
    <3> QED
      BY <2>1, <3>1, <3>2, LRURemoveTwice
  <2> QED
    BY <2>3, <2>4, <2>5 DEF CacheInv, GoesOn, LRU!HarmNeedsFree
<1> QED
  BY <1>1, <1>2, <1>3

LEMMA LRUInitHolds ==
  ASSUME LRU!Init
  PROVE  CacheInv
<1>1. v1 = LRU!Empty("none", 0, FALSE, "ok")
  BY DEF LRU!Init, LRU!Unused
<1>2. Indexed(LRU!Empty("none", 0, FALSE, "ok"), 0) /\ 0 \in Nat
  BY LRUEmptyIndexed
<1> QED
  BY <1>1, <1>2 DEF CacheInv

(* While no node was freed the table and the list are in order. *)
LEMMA LRUInvHolds ==
  ASSUME CacheInv
  PROVE  LRU!LookupComplete /\ LRU!ListIsByAge
<1>1. SUFFICES ASSUME LRU!Untouched PROVE LRU!LookupComplete /\ LRU!ListIsByAge
  BY DEF LRU!LookupComplete, LRU!ListIsByAge
<1>2. PICK N \in Nat : Indexed(v1, N)
  BY <1>1, LRUSpoiltTouched DEF CacheInv
<1>3. v1 \in CacheType(N)
  BY <1>2 DEF Indexed
<1>4. Len(v1.nodes) = N
  BY <1>3, LRULen
<1>5. LRU!LookupComplete
  <2>1. ASSUME NEW n \in 1 .. N PROVE LRU!Lookup(v1, v1.nodes[n].key) = n
    <3>1. PICK k : k = v1.nodes[n].key
      OBVIOUS
    <3>2. k \in Keys
      BY <1>3, <3>1, LRUNodeTyped DEF NodeType
    <3> QED
      BY <1>2, <3>1, <3>2, LRULookupFacts
  <2>2. \A k \in Keys : LRU!Lookup(v1, k) # 0 => v1.nodes[LRU!Lookup(v1, k)].key = k
    BY <1>2, LRULookupFacts
  <2>3. v1.used = N
    BY <1>3 DEF CacheType
  <2> QED
    BY <1>4, <2>1, <2>2, <2>3 DEF LRU!LookupComplete, LRU!Nodes, LRU!NULL
<1>6. LRU!ListIsByAge
  <2> SUFFICES ASSUME v1.retained = LRU!NULL PROVE LRU!ListIsByAge
    BY DEF LRU!ListIsByAge
  <2>1. /\ v1.head = N /\ v1.tail = (IF N = 0 THEN 0 ELSE 1)
        /\ \A n \in 1 .. N : /\ v1.nodes[n].next = n - 1
                             /\ v1.nodes[n].prev = (IF n = N THEN 0 ELSE n + 1)
    BY <1>2 DEF Indexed, ByAge, LRU!NULL
  <2>2. v1.nodes = <<>> <=> N = 0
    <3>1. v1.nodes \in [1 .. N -> NodeType(N)]
      BY <1>3 DEF CacheType
    <3>2. v1.nodes = <<>> => Len(v1.nodes) = 0
      OBVIOUS
    <3>3. N = 0 => v1.nodes = <<>>
      <4>1. SUFFICES ASSUME N = 0 PROVE v1.nodes = <<>>
        OBVIOUS
      <4>2. v1.nodes \in Seq(NodeType(N)) /\ Len(v1.nodes) = 0
        BY <1>3, <4>1, LRULen
      <4> QED
        BY <4>2
    <3> QED
      BY <1>4, <3>2, <3>3
  <2>3. ASSUME NEW n \in 1 .. N PROVE (n + 1) % (N + 1) = IF n = N THEN 0 ELSE n + 1
    <3>1. CASE n = N
      BY <3>1
    <3>2. CASE n # N
      BY <3>2
    <3> QED
      BY <3>1, <3>2
  <2> QED
    BY <1>4, <2>1, <2>2, <2>3 DEF LRU!ListIsByAge, LRU!Nodes, LRU!NULL
<1> QED
  BY <1>5, <1>6

-----------------------------------------------------------------------------
(* socket.c *)

Stages == {Socket!None, "socket", "use", "listen", "return"}
Names  == Addresses \cup Paths
SocketStates == [use : {Socket!None, "connect", "bind"}, nr : Nat, address : Names \cup {Socket!None},
                 reported : Names \cup {Socket!None}, listens : BOOLEAN]
CallStates == [op : {Socket!NoCall} \cup Socket!InetCalls \cup Socket!UnixCalls, cands : Seq(Names), i : Nat,
               sock : Fds \cup {0}, stage : Stages]

(* Everything known of the sockets. *)
SocketsOK == \A fd \in DOMAIN v1 : v1[fd] \in SocketStates /\ Socket!Truthful(v1[fd])

LEMMA SockInvFacts ==
  Socket!SocketInv <=> /\ v4 \in CallStates /\ SocketsOK /\ Socket!CallOwns /\ Socket!NothingLeft
  BY DEF Socket!SocketInv, Socket!TypeOK, SocketsOK, CallStates, SocketStates, Stages, Names

LEMMA SockInvNext ==
  /\ v4' \in CallStates /\ SocketsOK' /\ Socket!CallOwns' /\ Socket!NothingLeft'
  => Socket!SocketInv'
  BY DEF Socket!SocketInv, Socket!TypeOK, SocketsOK, CallStates, SocketStates, Stages, Names

(* The system call a call makes with its socket. *)
LEMMA SockUseFacts ==
  ASSUME NEW op \in {Socket!NoCall} \cup Socket!InetCalls \cup Socket!UnixCalls
  PROVE  op.use \in {Socket!None, "connect", "bind"}
  BY DEF Socket!NoCall, Socket!InetCalls, Socket!UnixCalls, Socket!None, Socket!socket_tcp_connect, Socket!socket_tcp_bind,
         Socket!socket_udp_bind, Socket!socket_udp_connect, Socket!socket_unix_connect, Socket!socket_unix_bind

LEMMA SockFreshFacts == Socket!Fresh \in SocketStates /\ Socket!Truthful(Socket!Fresh) /\ Socket!Fresh.address = Socket!None
  BY DEF Socket!Fresh, SocketStates, Socket!Truthful, Socket!None

(* A step that opens or closes a descriptor changes no other. *)
LEMMA SockOpenedFacts ==
  ASSUME SocketsOK, NEW fd, Socket!Opened(fd)
  PROVE  SocketsOK' /\ DOMAIN v1' = DOMAIN v1 \cup {fd}
<1>1. /\ DOMAIN v1' = DOMAIN v1 \cup {fd}
      /\ \A f \in DOMAIN v1' : v1'[f] = IF f = fd THEN Socket!Fresh ELSE v1[f]
  BY DEF Socket!Opened
<1> QED
  BY <1>1, SockFreshFacts DEF SocketsOK

LEMMA SockClosedFacts ==
  ASSUME SocketsOK, NEW fd, Socket!Closed(fd)
  PROVE  SocketsOK' /\ DOMAIN v1' = DOMAIN v1 \ {fd}
  BY DEF Socket!Closed, SocketsOK

(* A call begins with the first candidate and without a socket. *)
LEMMA SockBeginStep ==
  ASSUME Socket!SocketInv, NEW op \in Socket!InetCalls \cup Socket!UnixCalls, NEW cands \in Seq(Names),
         Socket!Begin(op, cands)
  PROVE  Socket!SocketInv'
<1>a. v4 \in CallStates /\ SocketsOK /\ Socket!CallOwns /\ Socket!NothingLeft
  BY SockInvFacts
<1>1. /\ v4 = Socket!Idle /\ UNCHANGED <<v1, v2, v3, v6>>
      /\ v4' = [op |-> op, cands |-> cands, i |-> 1, sock |-> 0, stage |-> "socket"]
  BY DEF Socket!Begin
<1>2. v4' \in CallStates /\ v4'.stage = "socket" /\ v4.stage = Socket!None
  BY <1>1 DEF CallStates, Stages, Socket!Idle
<1>3. v4' # Socket!Idle
  BY <1>2 DEF Socket!Idle, Socket!None
<1>4. Socket!InCall = {} /\ Socket!InCall' = {}
  BY <1>2 DEF Socket!InCall, Socket!None
<1>5. Socket!CallOwns'
  BY <1>a, <1>1, <1>2, <1>3, <1>4 DEF Socket!CallOwns, Socket!None
<1>6. Socket!NothingLeft' /\ SocketsOK'
  BY <1>a, <1>1, <1>4 DEF Socket!NothingLeft, SocketsOK
<1> QED
  BY <1>2, <1>5, <1>6, SockInvNext

(* socket(), or none for this candidate, or no candidate left. *)
LEMMA SockSocketStep ==
  ASSUME Socket!SocketInv, Socket!SocketMade \/ Socket!SocketFails \/ Socket!GiveUp
  PROVE  Socket!SocketInv'
<1>a. v4 \in CallStates /\ SocketsOK /\ Socket!CallOwns /\ Socket!NothingLeft
  BY SockInvFacts
<1>b. v4.stage = "socket" /\ UNCHANGED <<v2, v3, v6>> /\ v4.i \in Nat
  BY <1>a DEF Socket!SocketMade, Socket!SocketFails, Socket!GiveUp, CallStates
<1>c. Socket!InCall = {} /\ v3 \subseteq v6 /\ DOMAIN v1 = v2
  BY <1>a, <1>b DEF Socket!InCall, Socket!CallOwns, Socket!NothingLeft, Socket!None
<1>1. CASE Socket!SocketMade
  <2>1. PICK fd \in Fds \ DOMAIN v1 :
          /\ Socket!Opened(fd) /\ v4' = [v4 EXCEPT !.sock = fd, !.stage = "use"]
          /\ v4.i <= Len(v4.cands)
    BY <1>1 DEF Socket!SocketMade
  <2>2. /\ v4' \in CallStates /\ v4'.stage = "use" /\ v4'.sock = fd
        /\ v4'.i = v4.i /\ v4'.cands = v4.cands
    BY <2>1, <1>a DEF CallStates, Stages
  <2>3. SocketsOK' /\ DOMAIN v1' = DOMAIN v1 \cup {fd}
    BY <2>1, <1>a, SockOpenedFacts
  <2>4. Socket!InCall' = {fd} /\ v4' # Socket!Idle
    BY <2>2 DEF Socket!InCall, Socket!Idle, Socket!None
  <2>5. v4.i > 0 /\ v4.i <= Len(v4.cands)
    <3>1. v4.i > 0
      BY <1>a, <1>b DEF Socket!CallOwns, Socket!None
    <3>2. v4.cands \in Seq(Names)
      BY <1>a DEF CallStates
    <3> QED
      BY <3>1, <3>2, <2>1, <1>b
  <2>6. Socket!CallOwns'
    BY <2>1, <2>2, <2>4, <2>5, <1>b, <1>c DEF Socket!CallOwns, Socket!None
  <2>7. Socket!NothingLeft'
    BY <2>3, <2>4, <1>b, <1>c DEF Socket!NothingLeft
  <2> QED
    BY <2>2, <2>3, <2>6, <2>7, SockInvNext
<1>2. CASE Socket!SocketFails
  <2>1. v4' = [v4 EXCEPT !.i = @ + 1] /\ v1' = v1
    BY <1>2 DEF Socket!SocketFails
  <2>2. v4' \in CallStates /\ v4'.stage = "socket" /\ v4'.i = v4.i + 1
    BY <2>1, <1>a, <1>b DEF CallStates, Stages
  <2>3. Socket!InCall' = {} /\ v4' # Socket!Idle
    BY <2>2 DEF Socket!InCall, Socket!Idle, Socket!None
  <2>4. Socket!CallOwns' /\ Socket!NothingLeft' /\ SocketsOK'
    BY <2>1, <2>2, <2>3, <1>a, <1>b, <1>c DEF Socket!CallOwns, Socket!NothingLeft, SocketsOK, Socket!None
  <2> QED
    BY <2>2, <2>4, SockInvNext
<1>3. CASE Socket!GiveUp
  <2>1. v4' = Socket!Idle /\ v1' = v1
    BY <1>3 DEF Socket!GiveUp
  <2>2. v4' \in CallStates /\ v4'.stage = Socket!None
    BY <2>1 DEF CallStates, Stages, Socket!Idle
  <2>3. Socket!InCall' = {}
    BY <2>2 DEF Socket!InCall, Socket!None
  <2>4. Socket!CallOwns' /\ Socket!NothingLeft' /\ SocketsOK'
    BY <2>1, <2>2, <2>3, <1>a, <1>b, <1>c DEF Socket!CallOwns, Socket!NothingLeft, SocketsOK, Socket!None
  <2> QED
    BY <2>2, <2>4, SockInvNext
<1> QED
  BY <1>1, <1>2, <1>3

(* The address of a candidate, and the one bind() or connect() gets. *)
LEMMA SockAddressFacts ==
  ASSUME Socket!SocketInv, v4.stage = "use"
  PROVE  /\ v4.i \in Nat /\ v4.cands \in Seq(Names)
         /\ Socket!Reported \in Names /\ Socket!UsedAddress \in Names \cup {Socket!None}
         /\ v4.op.use = "connect" => Socket!Reported = Socket!UsedAddress
         /\ v4.op.use = "bind" /\ v4.i = 1 => Socket!Reported = Socket!UsedAddress
<1>1. v4 \in CallStates /\ Socket!CallOwns
  BY SockInvFacts
<1>2. v4.i \in 1 .. Len(v4.cands) /\ v4.cands \in Seq(Names)
  BY <1>1 DEF CallStates, Socket!CallOwns, Socket!None
<1>3. v4.cands[v4.i] \in Names /\ v4.cands[1] \in Names /\ v4.i \in Nat
  BY <1>2
<1> QED
  BY <1>2, <1>3 DEF Socket!Reported, Socket!UsedAddress

(* bind() or connect() works, and the path of a UNIX socket appears. *)
LEMMA SockUseWorksStep ==
  ASSUME Socket!SocketInv, Socket!UseWorks
  PROVE  Socket!SocketInv'
<1>a. v4 \in CallStates /\ SocketsOK /\ Socket!CallOwns /\ Socket!NothingLeft
  BY SockInvFacts
<1>b. v4.stage = "use" /\ UNCHANGED <<v2, v6>>
  BY DEF Socket!UseWorks
<1>1. PICK fd, new :
        /\ fd = v4.sock
        /\ new = [v1[fd] EXCEPT !.use = v4.op.use, !.nr = v4.i,
                                  !.address = Socket!UsedAddress, !.reported = Socket!Reported]
        /\ v1' = [v1 EXCEPT ![fd] = new]
  BY DEF Socket!UseWorks
<1>c. /\ Socket!InCall = {fd} /\ fd \in DOMAIN v1 /\ fd \notin v2 /\ v3 \subseteq v6
      /\ DOMAIN v1 = v2 \cup {fd}
  BY <1>a, <1>b, <1>1 DEF Socket!InCall, Socket!CallOwns, Socket!NothingLeft, Socket!None
<1>2. new \in SocketStates /\ Socket!Truthful(new) /\ new.address = Socket!UsedAddress
  <2>1. v1[fd] \in SocketStates
    BY <1>a, <1>c DEF SocketsOK
  <2>2. v4.op.use \in {Socket!None, "connect", "bind"}
    BY <1>a, SockUseFacts DEF CallStates
  <2>3. /\ v4.i \in Nat /\ Socket!Reported \in Names \cup {Socket!None}
        /\ Socket!UsedAddress \in Names \cup {Socket!None}
    BY <1>b, SockAddressFacts
  <2>4. /\ new \in SocketStates /\ new.use = v4.op.use /\ new.nr = v4.i
        /\ new.address = Socket!UsedAddress /\ new.reported = Socket!Reported
    BY <2>1, <2>2, <2>3, <1>1 DEF SocketStates
  <2>5. Socket!Truthful(new)
    BY <2>4, <1>b, SockAddressFacts DEF Socket!Truthful
  <2> QED
    BY <2>4, <2>5
<1>3. SocketsOK' /\ DOMAIN v1' = DOMAIN v1 /\ v1'[fd] = new
  BY <1>1, <1>2, <1>a, <1>c DEF SocketsOK
<1>4. /\ v4' \in CallStates /\ v4'.stage \in {"listen", "return"} /\ v4'.sock = fd
      /\ v4'.i = v4.i /\ v4'.cands = v4.cands
  <2>1. PICK st \in {"listen", "return"} : v4' = [v4 EXCEPT !.stage = st]
    BY DEF Socket!UseWorks
  <2> QED
    BY <2>1, <1>1, <1>a DEF CallStates, Stages
<1>5. Socket!InCall' = {fd} /\ v4' # Socket!Idle
  BY <1>4 DEF Socket!InCall, Socket!Idle, Socket!None
<1>6. v3' \subseteq v3 \cup {Socket!UsedAddress}
  BY DEF Socket!UseWorks
<1>7. Socket!CallOwns'
  BY <1>4, <1>5, <1>a, <1>b, <1>c DEF Socket!CallOwns, Socket!None
<1>8. Socket!NothingLeft'
  BY <1>2, <1>3, <1>5, <1>6, <1>b, <1>c DEF Socket!NothingLeft
<1> QED
  BY <1>3, <1>4, <1>7, <1>8, SockInvNext

(* It fails: the socket is closed and the next candidate tried. *)
LEMMA SockUseFailsStep ==
  ASSUME Socket!SocketInv, Socket!UseFails
  PROVE  Socket!SocketInv'
<1>a. v4 \in CallStates /\ SocketsOK /\ Socket!CallOwns /\ Socket!NothingLeft
  BY SockInvFacts
<1>b. /\ v4.stage = "use" /\ UNCHANGED <<v2, v3, v6>> /\ Socket!Closed(v4.sock)
      /\ v4' = [v4 EXCEPT !.i = @ + 1, !.sock = 0, !.stage = "socket"]
  BY DEF Socket!UseFails
<1>c. /\ v3 \subseteq v6 /\ v4.sock \notin v2
      /\ DOMAIN v1 = v2 \cup {v4.sock}
  BY <1>a, <1>b DEF Socket!InCall, Socket!CallOwns, Socket!NothingLeft, Socket!None
<1>1. SocketsOK' /\ DOMAIN v1' = v2
  BY <1>a, <1>b, <1>c, SockClosedFacts
<1>2. /\ v4' \in CallStates /\ v4'.stage = "socket" /\ v4'.i = v4.i + 1
      /\ v4.i \in Nat
  <2>1. v4.i \in Nat /\ v4.i + 1 \in Nat
    BY <1>a DEF CallStates
  <2>2. PICK n \in Nat : n = v4.i + 1
    BY <2>1
  <2>3. v4' = [v4 EXCEPT !.i = n, !.sock = 0, !.stage = "socket"]
    BY <2>2, <1>b
  <2>4. v4' \in CallStates /\ v4'.stage = "socket" /\ v4'.i = n
    BY <2>3, <1>a DEF CallStates, Stages
  <2> QED
    BY <2>1, <2>2, <2>4
<1>3. Socket!InCall' = {} /\ v4' # Socket!Idle
  BY <1>2 DEF Socket!InCall, Socket!Idle, Socket!None
<1>4. Socket!CallOwns' /\ Socket!NothingLeft'
  BY <1>1, <1>2, <1>3, <1>b, <1>c DEF Socket!CallOwns, Socket!NothingLeft, Socket!None
<1> QED
  BY <1>1, <1>2, <1>4, SockInvNext

LEMMA SockListenWorksStep ==
  ASSUME Socket!SocketInv, Socket!ListenWorks
  PROVE  Socket!SocketInv'
<1>a. v4 \in CallStates /\ SocketsOK /\ Socket!CallOwns /\ Socket!NothingLeft
  BY SockInvFacts
<1>1. PICK fd, new :
        /\ fd = v4.sock /\ new = [v1[fd] EXCEPT !.listens = TRUE]
        /\ v1' = [v1 EXCEPT ![fd] = new]
  BY DEF Socket!ListenWorks
<1>b. /\ v4.stage = "listen" /\ UNCHANGED <<v2, v3, v6>>
      /\ v4' = [v4 EXCEPT !.stage = "return"]
  BY DEF Socket!ListenWorks
<1>c. Socket!InCall = {fd} /\ fd \in DOMAIN v1 /\ DOMAIN v1 = v2 \cup {fd}
  BY <1>a, <1>b, <1>1 DEF Socket!InCall, Socket!NothingLeft
<1>2. new \in SocketStates /\ Socket!Truthful(new) /\ new.address = v1[fd].address
  <2>1. v1[fd] \in SocketStates /\ Socket!Truthful(v1[fd])
    BY <1>a, <1>c DEF SocketsOK
  <2> QED
    BY <2>1, <1>1 DEF SocketStates, Socket!Truthful
<1>3. SocketsOK' /\ DOMAIN v1' = DOMAIN v1 /\ v1'[fd] = new
  BY <1>1, <1>2, <1>a, <1>c DEF SocketsOK
<1>4. /\ v4' \in CallStates /\ v4'.stage = "return" /\ v4'.sock = fd
      /\ v4'.i = v4.i /\ v4'.cands = v4.cands
  BY <1>a, <1>b, <1>1 DEF CallStates, Stages
<1>5. Socket!InCall' = {fd} /\ v4' # Socket!Idle
  BY <1>4 DEF Socket!InCall, Socket!Idle, Socket!None
<1>6. Socket!CallOwns' /\ Socket!NothingLeft'
  BY <1>2, <1>3, <1>4, <1>5, <1>a, <1>b, <1>c DEF Socket!CallOwns, Socket!NothingLeft, Socket!None
<1> QED
  BY <1>3, <1>4, <1>6, SockInvNext

(* listen() fails: the socket is closed and its path removed. *)
LEMMA SockListenFailsStep ==
  ASSUME Socket!SocketInv, Socket!ListenFails
  PROVE  Socket!SocketInv'
<1>a. v4 \in CallStates /\ SocketsOK /\ Socket!CallOwns /\ Socket!NothingLeft
  BY SockInvFacts
<1>b. /\ v4.stage = "listen" /\ UNCHANGED <<v2, v6>> /\ Socket!Closed(v4.sock)
      /\ v4' = Socket!Idle /\ v3' = v3 \ {v1[v4.sock].address}
  BY DEF Socket!ListenFails
<1>c. /\ v3 \subseteq v6 \cup {v1[v4.sock].address} /\ v4.sock \notin v2
      /\ DOMAIN v1 = v2 \cup {v4.sock}
  BY <1>a, <1>b DEF Socket!InCall, Socket!CallOwns, Socket!NothingLeft
<1>1. SocketsOK' /\ DOMAIN v1' = v2
  BY <1>a, <1>b, <1>c, SockClosedFacts
<1>2. v4' \in CallStates /\ v4'.stage = Socket!None
  BY <1>b DEF CallStates, Stages, Socket!Idle
<1>3. Socket!InCall' = {}
  BY <1>2 DEF Socket!InCall, Socket!None
<1>4. Socket!CallOwns' /\ Socket!NothingLeft'
  BY <1>1, <1>2, <1>3, <1>b, <1>c DEF Socket!CallOwns, Socket!NothingLeft, Socket!None
<1> QED
  BY <1>1, <1>2, <1>4, SockInvNext

(* The socket is handed to the caller, with its path. *)
LEMMA SockReturnStep ==
  ASSUME Socket!SocketInv, Socket!Return
  PROVE  Socket!SocketInv'
<1>a. v4 \in CallStates /\ SocketsOK /\ Socket!CallOwns /\ Socket!NothingLeft
  BY SockInvFacts
<1>b. /\ v4.stage = "return" /\ UNCHANGED <<v1, v3>> /\ v4' = Socket!Idle
      /\ v2' = v2 \cup {v4.sock}
      /\ v6' = v6 \cup (v3 \cap {v1[v4.sock].address})
  BY DEF Socket!Return
<1>c. /\ v3 \subseteq v6 \cup {v1[v4.sock].address}
      /\ DOMAIN v1 = v2 \cup {v4.sock}
  BY <1>a, <1>b DEF Socket!InCall, Socket!NothingLeft
<1>2. v4' \in CallStates /\ v4'.stage = Socket!None
  BY <1>b DEF CallStates, Stages, Socket!Idle
<1>3. Socket!InCall' = {}
  BY <1>2 DEF Socket!InCall, Socket!None
<1>4. Socket!CallOwns' /\ Socket!NothingLeft' /\ SocketsOK'
  BY <1>2, <1>3, <1>a, <1>b, <1>c DEF Socket!CallOwns, Socket!NothingLeft, SocketsOK, Socket!None
<1> QED
  BY <1>2, <1>4, SockInvNext

(* Between calls: descriptors come from accept() and from messages, and go  *)
(* with close(); paths are removed.                                         *)
LEMMA SockCallerStep ==
  ASSUME Socket!SocketInv, v4 = Socket!Idle, UNCHANGED <<v4, v6>>, v3' \subseteq v3,
         \/ UNCHANGED <<v1, v2>>
         \/ \E fd \in Fds \ DOMAIN v1 : Socket!Opened(fd) /\ v2' = v2 \cup {fd}
         \/ \E fd \in v2 : Socket!Closed(fd) /\ v2' = v2 \ {fd}
  PROVE  Socket!SocketInv'
<1>a. v4 \in CallStates /\ SocketsOK /\ Socket!CallOwns /\ Socket!NothingLeft
  BY SockInvFacts
<1>1. v4.stage = Socket!None /\ v4'.stage = Socket!None /\ v4' = Socket!Idle
  BY DEF Socket!Idle
<1>2. Socket!InCall = {} /\ Socket!InCall' = {}
  BY <1>1 DEF Socket!InCall, Socket!None
<1>3. DOMAIN v1 = v2 /\ v3 \subseteq v6
  BY <1>a, <1>1, <1>2 DEF Socket!NothingLeft, Socket!CallOwns
<1>4. SocketsOK' /\ DOMAIN v1' = v2'
  <2>1. CASE UNCHANGED <<v1, v2>>
    BY <2>1, <1>3, <1>a DEF SocketsOK
  <2>2. ASSUME NEW fd \in Fds \ DOMAIN v1, Socket!Opened(fd), v2' = v2 \cup {fd}
        PROVE  SocketsOK' /\ DOMAIN v1' = v2'
    BY <2>2, <1>3, <1>a, SockOpenedFacts
  <2>3. ASSUME NEW fd \in v2, Socket!Closed(fd), v2' = v2 \ {fd}
        PROVE  SocketsOK' /\ DOMAIN v1' = v2'
    BY <2>3, <1>3, <1>a, SockClosedFacts
  <2> QED
    BY <2>1, <2>2, <2>3
<1>5. Socket!CallOwns' /\ Socket!NothingLeft'
  BY <1>1, <1>2, <1>3, <1>4 DEF Socket!CallOwns, Socket!NothingLeft, Socket!None
<1> QED
  BY <1>4, <1>5, <1>a, SockInvNext

LEMMA SockNextKeeps ==
  ASSUME Socket!SocketInv, Socket!Next
  PROVE  Socket!SocketInv'
<1>1. ASSUME NEW op \in Socket!InetCalls, NEW cands \in Socket!Resolved, Socket!Begin(op, cands)
      PROVE  Socket!SocketInv'
  <2>1. cands \in Seq(Names)
    BY DEF Socket!Resolved, Names
  <2> QED
    BY <1>1, <2>1, SockBeginStep
<1>2. ASSUME NEW op \in Socket!UnixCalls, NEW path \in Paths, Socket!Begin(op, <<path>>)
      PROVE  Socket!SocketInv'
  <2>1. <<path>> \in Seq(Names)
    BY DEF Names
  <2> QED
    BY <1>2, <2>1, SockBeginStep
<1>3. ASSUME NEW fd \in v2, Socket!Accept(fd) \/ Socket!Close(fd) \/ Socket!socket_unix_sendfd(fd)
      PROVE  Socket!SocketInv'
  BY <1>3, SockCallerStep DEF Socket!Accept, Socket!Close, Socket!socket_unix_sendfd
<1>4. ASSUME NEW path \in Paths, Socket!Remove(path) PROVE Socket!SocketInv'
  BY <1>4, SockCallerStep DEF Socket!Remove
<1>5. CASE Socket!socket_unix_send \/ Socket!socket_unix_recvfd
  BY <1>5, SockCallerStep DEF Socket!socket_unix_send, Socket!socket_unix_recvfd
<1> QED
  BY <1>1, <1>2, <1>3, <1>4, <1>5, SockSocketStep, SockUseWorksStep, SockUseFailsStep,
     SockListenWorksStep, SockListenFailsStep, SockReturnStep DEF Socket!Next

LEMMA SockInitHolds ==
  ASSUME Socket!Init
  PROVE  Socket!SocketInv
<1>1. v4 = Socket!Idle /\ DOMAIN v1 = {} /\ v2 = {} /\ v3 = {}
  BY DEF Socket!Init
<1>2. v4 \in CallStates /\ v4.stage = Socket!None
  BY <1>1 DEF CallStates, Stages, Socket!Idle
<1>3. Socket!InCall = {}
  BY <1>2 DEF Socket!InCall, Socket!None
<1>4. SocketsOK /\ Socket!CallOwns /\ Socket!NothingLeft
  BY <1>1, <1>2, <1>3 DEF SocketsOK, Socket!CallOwns, Socket!NothingLeft, Socket!None
<1> QED
  BY <1>2, <1>4, SockInvFacts

LEMMA SockInvHolds == Socket!SocketInv => Socket!NoLeak
  BY DEF Socket!SocketInv, Socket!NoLeak, Socket!NothingLeft, Socket!ReportsAddress

-----------------------------------------------------------------------------
(* mmstream.c *)

(* The instance counts like the module FiniteSets. *)
LEMMA FlowCounts ==
  ASSUME NEW S
  PROVE  Flow!Cardinality(S) = Cardinality(S)
  BY DEF Flow!Cardinality, Cardinality

(* m is the memory of k extents. *)
Covers(m, k) == DOMAIN m = 0 .. k * Flow!SPAN - 1

(* What clients wrote is in memory, and nothing else is but zeros. *)
Mirrors(m, w) ==
  /\ \A o \in DOMAIN w : o \in DOMAIN m /\ m[o] = w[o] /\ w[o] # Flow!HOLE
  /\ \A q \in DOMAIN m : q \notin DOMAIN w => m[q] \in {0, Flow!HOLE}

(* What is written after a write of n bytes b at p, and what is read there. *)
Overlaid(w, p, n, b) ==
  [o \in DOMAIN w \cup (p .. p + n - 1) |-> IF o \in p .. p + n - 1 THEN b ELSE w[o]]

ReadsRight(data, w, p, n) ==
  /\ \A i \in 1 .. Len(data) :
       data[i] = IF p + i - 1 \in DOMAIN w THEN w[p + i - 1] ELSE 0
  /\ Len(data) < n => p + Len(data) \notin DOMAIN w

FlowInv ==
  /\ \E k \in Nat : Covers(v1, k)
  /\ v2 = "ok" /\ ~v4 => Mirrors(v1, v3)

LEMMA FlowSpan == Flow!SPAN \in Nat \ {0} /\ Flow!SPAN = BLK * EXT
<1>1. \A x, y \in Nat \ {0} : x * y \in Nat \ {0}
  OBVIOUS
<1> QED
  BY <1>1, FlowAssumption DEF Flow!SPAN

LEMMA FlowDivision ==
  ASSUME NEW a \in Nat, NEW d \in Nat \ {0}
  PROVE  /\ a \div d \in Nat /\ a % d \in 0 .. d - 1 /\ a = d * (a \div d) + (a % d)
         /\ d * (a \div d) \in Nat
  OBVIOUS

LEMMA FlowRest ==
  ASSUME NEW a \in Nat, NEW d \in Nat \ {0}
  PROVE  \E q \in Nat, r \in Nat : q = a \div d /\ a = d * q + r /\ r < d
<1>1. a \div d \in Nat /\ a % d \in 0 .. d - 1 /\ a = d * (a \div d) + (a % d)
  BY FlowDivision
<1>2. a % d \in Nat /\ a % d < d
  BY <1>1
<1> QED
  BY <1>1, <1>2

LEMMA FlowQuotient ==
  ASSUME NEW a \in Nat, NEW d \in Nat \ {0}, NEW k \in Nat, a < k * d
  PROVE  a \div d < k
  OBVIOUS

LEMMA FlowMultiple ==
  ASSUME NEW d \in Nat \ {0}, NEW k \in Nat
  PROVE  (k * d) \div d = k
  OBVIOUS

LEMMA FlowMonotone ==
  ASSUME NEW a \in Nat, NEW b \in Nat, NEW d \in Nat \ {0}, a <= b
  PROVE  a \div d <= b \div d
  OBVIOUS

LEMMA FlowExtents ==
  ASSUME NEW k \in Nat, NEW m, Covers(m, k)
  PROVE  Flow!Extents(m) = k
<1>1. PICK n \in Nat : n = k * Flow!SPAN
  BY FlowSpan
<1>2. Flow!Cardinality(0 .. n - 1) = n
  BY FS_Interval, FlowCounts
<1>3. n \div Flow!SPAN = k
  BY <1>1, FlowSpan, FlowMultiple
<1> QED
  BY <1>1, <1>2, <1>3 DEF Covers, Flow!Extents

(* Where a byte is looked for: behind the extents there is none, and within *)
(* them there is one.                                                       *)
LEMMA FlowLocated ==
  ASSUME NEW k \in Nat, NEW m, Covers(m, k), NEW o \in Nat
  PROVE  /\ Flow!Located(m, o) \in Int
         /\ Flow!Located(m, o) < 0 => k <= o \div Flow!SPAN
         /\ o \in DOMAIN m => o \div Flow!SPAN < k
         /\ \A q \in DOMAIN m : k <= o \div Flow!SPAN => q < o
         /\ Flow!Misled(m, o) => \/ k >= 2 /\ o \div Flow!SPAN = k
                                 \/ k >= 6 /\ o \div Flow!SPAN >= k \div 2
<1>1. PICK i \in Nat, r \in 0 .. Flow!SPAN - 1 : i = o \div Flow!SPAN /\ r = o % Flow!SPAN /\ o = Flow!SPAN * i + r
  <2>1. PICK d \in Nat \ {0} : d = Flow!SPAN
    BY FlowSpan
  <2>2. /\ o \div d \in Nat /\ o % d \in 0 .. d - 1
        /\ o = d * (o \div d) + (o % d)
    BY FlowDivision
  <2> QED
    BY <2>1, <2>2
<1>2. Flow!Extents(m) = k
  BY FlowExtents
<1>3. Flow!ExtentAt(m, i) = IF i = 0 THEN (IF k = 0 THEN -1 ELSE 0)
                       ELSE IF i = k - 1 THEN i
                       ELSE IF k - i >= 0 /\ k - i < k \div 2 THEN k - 1 - (k - i)
                       ELSE IF i < k THEN i
                       ELSE IF i = k THEN -1 ELSE -2
  BY <1>2 DEF Flow!ExtentAt
<1>4. PICK e : e = Flow!ExtentAt(m, i)
  OBVIOUS
<1>5. e \in Int /\ (e < 0 => k <= i /\ e \in {-1, -2})
  <2>1. PICK h \in Nat : h = k \div 2
    <3>1. k \div 2 \in Nat
      OBVIOUS
    <3> QED
      BY <3>1
  <2>2. e = IF i = 0 THEN (IF k = 0 THEN -1 ELSE 0)
            ELSE IF i = k - 1 THEN i
            ELSE IF k - i >= 0 /\ k - i < h THEN k - 1 - (k - i)
            ELSE IF i < k THEN i
            ELSE IF i = k THEN -1 ELSE -2
    BY <1>3, <1>4, <2>1
  <2> QED
    BY <2>2
<1>6. Flow!Located(m, o) = IF e < 0 THEN e ELSE e * Flow!SPAN + r
  BY <1>1, <1>4 DEF Flow!Located
<1>7. e >= 0 => e * Flow!SPAN + r \in Nat
  <2>1. SUFFICES ASSUME e >= 0 PROVE e * Flow!SPAN + r \in Nat
    OBVIOUS
  <2>2. \A x, y \in Nat : x * y \in Nat
    OBVIOUS
  <2>3. PICK p \in Nat : p = e * Flow!SPAN
    BY <1>5, <2>1, <2>2, FlowSpan
  <2>4. r \in Nat
    BY <1>1, FlowSpan
  <2> QED
    BY <2>3, <2>4
<1>8. e = i => Flow!Located(m, o) = o
  <2>1. SUFFICES ASSUME e = i PROVE Flow!Located(m, o) = o
    OBVIOUS
  <2>2. Flow!Located(m, o) = i * Flow!SPAN + r
    BY <1>6, <2>1
  <2>3. i * Flow!SPAN = Flow!SPAN * i
    BY FlowSpan
  <2> QED
    BY <1>1, <2>2, <2>3
<1>9. Flow!Misled(m, o) => \/ k >= 2 /\ i = k
                           \/ k >= 6 /\ i >= k \div 2
  <2>1. SUFFICES ASSUME Flow!Misled(m, o) PROVE (k >= 2 /\ i = k) \/ (k >= 6 /\ i >= k \div 2)
    OBVIOUS
  <2>2. e >= 0 /\ e # i
    BY <1>5, <1>6, <1>8, <2>1 DEF Flow!Misled
  <2>3. i # 0 /\ i # k - 1 /\ k - i >= 0 /\ k - i < k \div 2
    BY <1>3, <1>4, <2>2
  <2> QED
    BY <2>3
<1>10. \A q \in DOMAIN m : k <= i => q < o
  <2>1. SUFFICES ASSUME NEW q \in DOMAIN m, k <= i PROVE q < o
    OBVIOUS
  <2>2. q < k * Flow!SPAN /\ q \in Nat
    BY FlowSpan DEF Covers
  <2>3. k * Flow!SPAN <= i * Flow!SPAN
    BY <2>1, FlowSpan
  <2> QED
    BY <1>1, <2>2, <2>3, FlowSpan
<1>11. o \in DOMAIN m => i < k
  BY <1>10
<1>12. Flow!Located(m, o) \in Int /\ (Flow!Located(m, o) < 0 => k <= i)
  <2>1. CASE e < 0
    BY <1>5, <1>6, <2>1
  <2>2. CASE e >= 0
    BY <1>5, <1>6, <1>7, <2>2
  <2> QED
    BY <1>5, <2>1, <2>2
<1> QED
  BY <1>1, <1>9, <1>10, <1>11, <1>12

(* Extents that are linked hold nothing. *)
LEMMA FlowWithExtents ==
  ASSUME NEW k \in Nat, NEW m, Covers(m, k), NEW n \in Nat
  PROVE  /\ \E l \in Nat : l >= n /\ l >= k /\ Covers(Flow!WithExtents(m, n), l)
         /\ \A w : Mirrors(m, w) => Mirrors(Flow!WithExtents(m, n), w)
<1>1. Flow!Extents(m) = k
  BY FlowExtents
<1>2. CASE n <= k
  BY <1>1, <1>2 DEF Flow!WithExtents
<1>3. CASE n > k
  <2>1. Flow!WithExtents(m, n) = [p \in 0 .. n * Flow!SPAN - 1 |-> IF p \in DOMAIN m THEN m[p] ELSE Flow!HOLE]
    BY <1>1, <1>3 DEF Flow!WithExtents
  <2>2. PICK s : s = Flow!WithExtents(m, n)
    OBVIOUS
  <2>3. Covers(s, n)
    BY <2>1, <2>2 DEF Covers
  <2>4. \A p \in DOMAIN m : p \in DOMAIN s
    <3>1. k * Flow!SPAN <= n * Flow!SPAN /\ k * Flow!SPAN \in Nat /\ n * Flow!SPAN \in Nat
      BY <1>3, FlowSpan
    <3> QED
      BY <2>3, <3>1 DEF Covers
  <2>5. \A p \in DOMAIN s : s[p] = IF p \in DOMAIN m THEN m[p] ELSE Flow!HOLE
    BY <2>1, <2>2
  <2>6. ASSUME NEW w, Mirrors(m, w) PROVE Mirrors(s, w)
    BY <2>4, <2>5, <2>6 DEF Mirrors
  <2> QED
    BY <1>3, <2>2, <2>3, <2>6
<1> QED
  BY <1>2, <1>3

(* The extents for size bytes reach to the end of the block behind them. *)
LEMMA FlowNeededNat ==
  ASSUME NEW s \in Nat
  PROVE  Flow!Needed(s) \in Nat
<1>1. BLK \in Nat \ {0} /\ EXT \in Nat \ {0}
  BY FlowAssumption
<1>2. PICK c \in Nat : c = (s + BLK - 1) \div BLK
  <2>1. s + BLK - 1 \in Nat
    BY <1>1
  <2> QED
    BY <1>1, <2>1, FlowDivision
<1>3. PICK g \in Nat : g = c \div EXT
  BY <1>1, FlowDivision
<1> QED
  BY <1>2, <1>3 DEF Flow!Needed

LEMMA FlowNeeded ==
  ASSUME NEW p \in Nat, NEW s \in Nat, Flow!BlockOf(p) <= Flow!BlockOf(s), NEW n \in Nat, n >= Flow!Needed(s)
  PROVE  Flow!Needed(s) \in Nat /\ p < n * Flow!SPAN
<1>1. BLK \in Nat \ {0} /\ EXT \in Nat \ {0} /\ Flow!SPAN \in Nat \ {0} /\ Flow!SPAN = BLK * EXT
  BY FlowAssumption, FlowSpan
<1>2. PICK b \in Nat, r \in Nat : b = p \div BLK /\ p = BLK * b + r /\ r < BLK
  BY <1>1, FlowRest
<1>3. PICK e \in Nat, t \in Nat : e = b \div EXT /\ b = EXT * e + t /\ t < EXT
  BY <1>1, FlowRest
<1>4. PICK c \in Nat : c = (s + BLK - 1) \div BLK
  <2>1. s + BLK - 1 \in Nat
    BY <1>1
  <2> QED
    BY <1>1, <2>1, FlowDivision
<1>5. b <= c
  <2>1. s <= s + BLK - 1 /\ s + BLK - 1 \in Nat
    BY <1>1
  <2>2. s \div BLK <= c /\ s \div BLK \in Nat
    BY <1>1, <1>4, <2>1, FlowMonotone, FlowDivision
  <2> QED
    BY <1>2, <1>4, <2>2 DEF Flow!BlockOf
<1>6. PICK g \in Nat : g = c \div EXT
  BY <1>1, FlowDivision
<1>7. e <= g
  BY <1>1, <1>3, <1>5, <1>6, FlowMonotone
<1>8. Flow!Needed(s) = 1 + g
  BY <1>4, <1>6 DEF Flow!Needed
<1>9. e + 1 <= n
  BY <1>7, <1>8
<1>10. b + 1 <= EXT * (e + 1)
  <2>1. EXT * (e + 1) = EXT * e + EXT
    BY <1>1
  <2>2. \A x, y \in Nat : x * y \in Nat
    OBVIOUS
  <2>3. PICK z \in Nat : z = EXT * e
    BY <1>1, <2>2
  <2> QED
    BY <1>1, <1>3, <2>1, <2>3
<1>11. p < BLK * (b + 1)
  <2>1. BLK * (b + 1) = BLK * b + BLK
    BY <1>1
  <2>2. \A x, y \in Nat : x * y \in Nat
    OBVIOUS
  <2>3. PICK z \in Nat : z = BLK * b
    BY <1>1, <2>2
  <2> QED
    BY <1>1, <1>2, <2>1, <2>3
<1>12. \A x, y, z \in Nat : x <= y => z * x <= z * y
  OBVIOUS
<1>13. \A x, y \in Nat : x * y \in Nat
  OBVIOUS
<1>14. PICK u \in Nat : u = EXT * (e + 1)
  <2>1. e + 1 \in Nat
    OBVIOUS
  <2> QED
    BY <1>1, <1>13, <2>1
<1>15. PICK v \in Nat : v = EXT * n
  BY <1>1, <1>13
<1>16. u <= v
  <2>1. e + 1 \in Nat
    OBVIOUS
  <2> QED
    BY <1>1, <1>9, <1>12, <1>14, <1>15, <2>1
<1>17. b + 1 <= v /\ b + 1 \in Nat
  BY <1>10, <1>14, <1>16
<1>18. BLK * (b + 1) <= BLK * v
  BY <1>1, <1>12, <1>17
<1>19. BLK * v = n * Flow!SPAN
  <2>1. \A x, y, z \in Nat : x * (y * z) = z * (x * y)
    OBVIOUS
  <2> QED
    BY <1>1, <1>15, <2>1
<1>20. BLK * v \in Nat /\ BLK * (b + 1) \in Nat
  <2>1. b + 1 \in Nat
    OBVIOUS
  <2> QED
    BY <1>1, <1>13, <2>1
<1> QED
  BY <1>8, <1>11, <1>18, <1>19, <1>20

LEMMA FlowCopied ==
  ASSUME NEW m, NEW w, NEW p, NEW n, NEW b, b # Flow!HOLE, Mirrors(m, w), p .. p + n - 1 \subseteq DOMAIN m
  PROVE  Mirrors(Flow!Copied(m, p, n, b), Overlaid(w, p, n, b))
<1>1. PICK R : R = p .. p + n - 1
  OBVIOUS
<1>2. PICK s : s = Flow!Copied(m, p, n, b)
  OBVIOUS
<1>3. PICK v : v = [o \in DOMAIN w \cup R |-> IF o \in R THEN b ELSE w[o]]
  OBVIOUS
<1>4. /\ DOMAIN s = DOMAIN m
      /\ \A q \in DOMAIN m : /\ q \in R => s[q] = b
                             /\ q \notin R => s[q] = m[q] \/ (m[q] = Flow!HOLE /\ s[q] = 0)
  BY <1>1, <1>2 DEF Flow!Copied
<1>5. R \subseteq DOMAIN m
  BY <1>1
<1>6. DOMAIN v = DOMAIN w \cup R /\ \A o \in DOMAIN v : v[o] = IF o \in R THEN b ELSE w[o]
  BY <1>3
<1>7. ASSUME NEW o \in DOMAIN v PROVE o \in DOMAIN s /\ s[o] = v[o] /\ v[o] # Flow!HOLE
  <2>1. CASE o \in R
    BY <1>4, <1>5, <1>6, <2>1
  <2>2. CASE o \notin R
    <3>1. o \in DOMAIN w /\ v[o] = w[o]
      BY <1>6, <1>7, <2>2
    <3>2. o \in DOMAIN m /\ m[o] = w[o] /\ w[o] # Flow!HOLE
      BY <3>1 DEF Mirrors
    <3> QED
      BY <1>4, <2>2, <3>1, <3>2
  <2> QED
    BY <2>1, <2>2
<1>8. ASSUME NEW q \in DOMAIN s, q \notin DOMAIN v PROVE s[q] \in {0, Flow!HOLE}
  <2>1. q \in DOMAIN m /\ q \notin R /\ q \notin DOMAIN w
    BY <1>4, <1>6, <1>8
  <2>2. m[q] \in {0, Flow!HOLE}
    BY <2>1 DEF Mirrors
  <2> QED
    BY <1>4, <2>1, <2>2
<1>9. Mirrors(s, v)
  BY <1>7, <1>8 DEF Mirrors
<1> QED
  BY <1>1, <1>2, <1>3, <1>9 DEF Overlaid

(* A write that is not led to another extent lands where it should. *)
LEMMA FlowWriteStep ==
  ASSUME FlowInv, NEW offset \in Nat, NEW length \in Nat, NEW b \in Bytes, Flow!Write(offset, length, b)
  PROVE  FlowInv'
<1>1. PICK k \in Nat : Covers(v1, k)
  BY DEF FlowInv
<1>2. PICK m : m = Flow!WithExtents(v1, Flow!Needed(offset))
  OBVIOUS
<1>30. PICK n \in Flow!Steps(offset, length) :
         \E done \in {n, Flow!Before(offset, n)} :
           /\ v1' = Flow!Copied(Flow!WithExtents(m, Flow!Needed(offset + done)), Flow!Located(m, offset), n, b)
           /\ Flow!Wrote(offset, n, b)
  BY <1>2 DEF Flow!Write
<1>3. PICK done \in {n, Flow!Before(offset, n)} :
        /\ v1' = Flow!Copied(Flow!WithExtents(m, Flow!Needed(offset + done)), Flow!Located(m, offset), n, b)
        /\ Flow!Wrote(offset, n, b)
  BY <1>30
<1>4. /\ v2 = "ok" /\ v2' = v2
      /\ v4' = (v4 \/ Flow!Misled(m, offset))
  BY <1>2 DEF Flow!Write
<1>5. n \in Nat /\ n > 0
  BY DEF Flow!Steps
<1>6. PICK B \in Nat : B = Flow!BlockOf(offset + n - 1)
  <2>1. offset + n - 1 \in Nat
    BY <1>5
  <2> QED
    BY <2>1, FlowAssumption, FlowDivision DEF Flow!BlockOf
<1>7. PICK s \in Nat : s = offset + done /\ Flow!BlockOf(offset + n - 1) <= Flow!BlockOf(s)
  <2>1. offset + n - 1 \in Nat /\ offset + n \in Nat /\ BLK \in Nat \ {0}
    BY <1>5, FlowAssumption
  <2>2. CASE done = n
    <3>1. offset + n - 1 <= offset + n
      BY <1>5
    <3>2. Flow!BlockOf(offset + n - 1) <= Flow!BlockOf(offset + n)
      BY <2>1, <3>1, FlowMonotone DEF Flow!BlockOf
    <3> QED
      BY <2>1, <2>2, <3>2
  <2>3. CASE done = Flow!Before(offset, n)
    <3>1. PICK z \in Nat : z = B * BLK
      <4>1. \A x, y \in Nat : x * y \in Nat
        OBVIOUS
      <4> QED
        BY <2>1, <4>1
    <3>2. done = IF z - offset < 0 THEN 0 ELSE z - offset
      BY <1>6, <2>3, <3>1 DEF Flow!Before
    <3>3. PICK t \in Nat : t = offset + done /\ z <= t
      <4>1. offset + done \in Nat /\ z <= offset + done
        BY <3>2
      <4> QED
        BY <4>1
    <3>4. z \div BLK = B
      BY <2>1, <3>1, FlowMultiple
    <3>5. z \div BLK <= t \div BLK
      BY <2>1, <3>3, FlowMonotone
    <3> QED
      BY <1>6, <3>3, <3>4, <3>5 DEF Flow!BlockOf
  <2> QED
    BY <2>2, <2>3
<1>8. PICK N \in Nat : N = Flow!Needed(offset)
  BY FlowNeededNat
<1>9. PICK l \in Nat : l >= N /\ l >= k /\ Covers(m, l)
  BY <1>1, <1>2, <1>8, FlowWithExtents
<1>10. PICK K \in Nat : K = Flow!Needed(s)
  BY FlowNeededNat
<1>11. PICK u : u = Flow!WithExtents(m, K)
  OBVIOUS
<1>12. PICK j \in Nat : j >= K /\ j >= l /\ Covers(u, j)
  BY <1>9, <1>11, FlowWithExtents
<1>13. PICK p : p = Flow!Located(m, offset)
  OBVIOUS
<1>14. v1' = Flow!Copied(u, p, n, b)
  BY <1>3, <1>7, <1>10, <1>11, <1>13
<1>15. Covers(v1', j)
  BY <1>12, <1>14 DEF Covers, Flow!Copied
<1>16. ASSUME v2' = "ok", ~v4' PROVE Mirrors(v1', v3')
  <2>1. Mirrors(v1, v3) /\ ~Flow!Misled(m, offset)
    BY <1>4, <1>16 DEF FlowInv
  <2>2. Mirrors(m, v3)
    BY <1>1, <1>2, <1>8, <2>1, FlowWithExtents
  <2>3. Mirrors(u, v3)
    BY <1>9, <1>11, <2>2, FlowWithExtents
  <2>4. p = offset
    <3>1. offset < l * Flow!SPAN
      <4>1. Flow!BlockOf(offset) <= Flow!BlockOf(offset)
        BY FlowAssumption, FlowDivision DEF Flow!BlockOf
      <4> QED
        BY <1>8, <1>9, <4>1, FlowNeeded
    <3>2. offset \div Flow!SPAN < l
      BY <3>1, FlowSpan, FlowQuotient
    <3>3. ~(p < 0) /\ p \in Int
      <4>1. offset \div Flow!SPAN \in Nat
        BY FlowSpan, FlowDivision
      <4> QED
        BY <1>9, <1>13, <3>2, <4>1, FlowLocated
    <3> QED
      BY <1>13, <2>1, <3>3 DEF Flow!Misled
  <2>5. offset .. offset + n - 1 \subseteq DOMAIN u
    <3>1. PICK z \in Nat : z = offset + n - 1
      BY <1>5
    <3>2. z < j * Flow!SPAN
      BY <1>7, <1>10, <1>12, <3>1, FlowNeeded
    <3>3. j * Flow!SPAN \in Nat
      <4>1. \A x, y \in Nat : x * y \in Nat
        OBVIOUS
      <4> QED
        BY <4>1, FlowSpan
    <3> QED
      BY <1>12, <3>1, <3>2, <3>3 DEF Covers
  <2>6. b # Flow!HOLE
    BY FlowAssumption DEF Flow!HOLE
  <2>7. v3' = Overlaid(v3, offset, n, b)
    BY <1>3 DEF Flow!Wrote, Overlaid
  <2>8. v1' = Flow!Copied(u, offset, n, b)
    BY <1>14, <2>4
  <2>9. Mirrors(Flow!Copied(u, offset, n, b), Overlaid(v3, offset, n, b))
    BY <2>3, <2>5, <2>6, FlowCopied
  <2> QED
    BY <2>7, <2>8, <2>9
<1> QED
  BY <1>15, <1>16 DEF FlowInv

LEMMA FlowEmpty == Covers(<<>>, 0) /\ Mirrors(<<>>, <<>>)
<1>1. 0 * Flow!SPAN = 0
  BY FlowSpan
<1>2. 0 .. 0 - 1 = {}
  OBVIOUS
<1> QED
  BY <1>1, <1>2 DEF Covers, Mirrors

LEMMA FlowTruncateStep ==
  ASSUME FlowInv, NEW length \in Nat, Flow!Truncate(length)
  PROVE  FlowInv'
<1>1. PICK k \in Nat : Covers(v1, k)
  BY DEF FlowInv
<1>2. PICK p : p = Flow!Located(v1, length)
  OBVIOUS
<1>3. /\ v2 = "ok" /\ v2' = v2
      /\ \/ p = -1 /\ v1' = v1
         \/ p >= 0 /\ v1' = Flow!Zeroed(p)
      /\ v3' = [o \in DOMAIN v3 \cap (0 .. length - 1) |-> v3[o]]
      /\ v4' = (v4 \/ Flow!Misled(v1, length))
  BY <1>2 DEF Flow!Truncate
<1>4. Covers(v1', k)
  BY <1>1, <1>3 DEF Covers, Flow!Zeroed
<1>5. k * Flow!SPAN \in Nat
  <2>1. \A x, y \in Nat : x * y \in Nat
    OBVIOUS
  <2> QED
    BY <2>1, FlowSpan
<1>6. \A q \in DOMAIN v1 : q \in Nat
  BY <1>1, <1>5 DEF Covers
<1>7. ASSUME v2' = "ok", ~v4' PROVE Mirrors(v1', v3')
  <2>1. Mirrors(v1, v3) /\ ~Flow!Misled(v1, length)
    BY <1>3, <1>7 DEF FlowInv
  <2>2. CASE p = -1 /\ v1' = v1
    <3>1. k <= length \div Flow!SPAN
      <4>1. Flow!Located(v1, length) \in Int /\ (Flow!Located(v1, length) < 0 => k <= length \div Flow!SPAN)
        BY <1>1, FlowLocated
      <4>2. Flow!Located(v1, length) < 0
        BY <1>2, <2>2
      <4> QED
        BY <4>1, <4>2
    <3>2. \A q \in DOMAIN v1 : q < length
      BY <1>1, <3>1, FlowLocated
    <3>3. \A q \in DOMAIN v1 : q \in 0 .. length - 1
      BY <1>6, <3>2
    <3>4. DOMAIN v3' = DOMAIN v3 /\ \A o \in DOMAIN v3 : v3'[o] = v3[o]
      BY <1>3, <2>1, <3>3 DEF Mirrors
    <3> QED
      BY <2>1, <2>2, <3>4 DEF Mirrors
  <2>3. CASE p >= 0 /\ v1' = Flow!Zeroed(p)
    <3>1. p = length
      BY <1>2, <2>1, <2>3 DEF Flow!Misled
    <3>2. /\ DOMAIN v1' = DOMAIN v1
          /\ \A q \in DOMAIN v1 : v1'[q] = IF q >= length /\ v1[q] # Flow!HOLE THEN 0 ELSE v1[q]
      BY <2>3, <3>1 DEF Flow!Zeroed
    <3>3. /\ DOMAIN v3' = DOMAIN v3 \cap (0 .. length - 1)
          /\ \A o \in DOMAIN v3' : v3'[o] = v3[o]
      BY <1>3
    <3>4. ASSUME NEW o \in DOMAIN v3'
          PROVE  o \in DOMAIN v1' /\ v1'[o] = v3'[o] /\ v3'[o] # Flow!HOLE
      <4>1. o \in DOMAIN v3 /\ ~(o >= length)
        BY <3>3
      <4> QED
        BY <2>1, <3>2, <3>3, <4>1 DEF Mirrors
    <3>5. ASSUME NEW q \in DOMAIN v1', q \notin DOMAIN v3' PROVE v1'[q] \in {0, Flow!HOLE}
      <4>1. q \in DOMAIN v1 /\ q \in Nat
        BY <1>6, <3>2
      <4>2. CASE q >= length
        BY <3>2, <4>1, <4>2
      <4>3. CASE q < length
        <5>1. q \notin DOMAIN v3
          BY <3>3, <3>5, <4>1, <4>3
        <5>2. v1'[q] = v1[q]
          BY <3>2, <4>1, <4>3
        <5> QED
          BY <2>1, <4>1, <5>1, <5>2 DEF Mirrors
      <4> QED
        BY <4>1, <4>2, <4>3
    <3> QED
      BY <3>4, <3>5 DEF Mirrors
  <2> QED
    BY <1>3, <2>2, <2>3
<1> QED
  BY <1>4, <1>7 DEF FlowInv

LEMMA FlowInitHolds ==
  ASSUME Flow!Init
  PROVE  FlowInv
<1>1. 0 \in Nat
  OBVIOUS
<1> QED
  BY <1>1, FlowEmpty DEF Flow!Init, FlowInv

LEMMA FlowNextKeeps ==
  ASSUME FlowInv, Flow!Next
  PROVE  FlowInv'
<1>1. PICK k \in Nat : Covers(v1, k)
  BY DEF FlowInv
<1>2. Offsets \subseteq Nat /\ Lengths \subseteq Nat
  BY FlowAssumption
<1>3. CASE \E offset \in Offsets : Flow!ReadNowhere(offset)
  BY <1>1, <1>3 DEF Flow!ReadNowhere, FlowInv
<1>4. ASSUME NEW offset \in Offsets, Flow!WriteFails(offset) PROVE FlowInv'
  <2>1. PICK n \in Flow!Extents(v1) .. Flow!Needed(offset) : v1' = Flow!WithExtents(v1, n)
    BY <1>4 DEF Flow!WriteFails
  <2>2. v2' = v2 /\ v3' = v3 /\ v4' = v4
    BY <1>4 DEF Flow!WriteFails
  <2>3. n \in Nat
    <3>1. Flow!Extents(v1) \in Nat
      BY <1>1, FlowExtents
    <3>2. Flow!Needed(offset) \in Nat
      BY <1>2, FlowNeededNat
    <3> QED
      BY <3>1, <3>2
  <2>4. PICK l \in Nat : Covers(Flow!WithExtents(v1, n), l)
    BY <1>1, <2>3, FlowWithExtents
  <2>5. Mirrors(v1, v3) => Mirrors(Flow!WithExtents(v1, n), v3)
    BY <1>1, <2>3, FlowWithExtents
  <2> QED
    BY <2>1, <2>2, <2>4, <2>5 DEF FlowInv
<1>5. CASE \E offset \in Offsets : Flow!Truncate(offset)
  BY <1>2, <1>5, FlowTruncateStep
<1>6. CASE \E offset \in Offsets, n \in Lengths, b \in Bytes : Flow!Write(offset, n, b)
  BY <1>2, <1>6, FlowWriteStep
<1>7. CASE Flow!Emptied
  <2>1. v1' = <<>> /\ v3' = <<>>
    BY <1>7 DEF Flow!Emptied
  <2>2. 0 \in Nat
    OBVIOUS
  <2> QED
    BY <2>1, <2>2, FlowEmpty DEF FlowInv
<1>8. CASE UNCHANGED Flow!vars
  BY <1>8 DEF Flow!vars, FlowInv
<1> QED
  BY <1>3, <1>4, <1>5, <1>6, <1>7, <1>8 DEF Flow!Next, Flow!TruncateUndefined, Flow!mmstream_clear

(* What a read of n bytes at p returns is what clients wrote, up to a byte *)
(* that was not written.                                                   *)
LEMMA FlowReadFacts ==
  ASSUME NEW k \in Nat, NEW m, Covers(m, k), NEW w, Mirrors(m, w), NEW p \in Nat, NEW n \in Nat
  PROVE  ReadsRight(Flow!ReadOf(m, p, n), w, p, n)
<1>1. PICK stop : stop = {q \in p .. p + n - 1 : q \notin DOMAIN m \/ m[q] = Flow!HOLE}
  OBVIOUS
<1>2. PICK l \in Nat : /\ Flow!ReadOf(m, p, n) = [i \in 1 .. l |-> m[p + i - 1]]
                       /\ l <= n /\ l < n => p + l \in stop
                       /\ \A i \in 1 .. l : p + i - 1 \in DOMAIN m /\ m[p + i - 1] # Flow!HOLE
  <2>1. CASE stop = {}
    <3>1. Flow!ReadOf(m, p, n) = [i \in 1 .. n |-> m[p + i - 1]]
      BY <1>1, <2>1 DEF Flow!ReadOf
    <3>2. \A i \in 1 .. n : p + i - 1 \in p .. p + n - 1
      OBVIOUS
    <3>3. \A q \in p .. p + n - 1 : q \in DOMAIN m /\ m[q] # Flow!HOLE
      BY <1>1, <2>1
    <3> QED
      BY <3>1, <3>2, <3>3
  <2>2. CASE stop # {}
    <3>1. stop \subseteq Nat
      BY <1>1
    <3>2. \E q \in stop : \A r \in stop : q <= r
      BY <2>2, <3>1, LeastNumber
    <3>3. PICK q : q = CHOOSE x \in stop : \A r \in stop : x <= r
      OBVIOUS
    <3>4. q \in stop /\ \A r \in stop : q <= r
      BY <3>2, <3>3
    <3>5. PICK l \in Nat : l = q - p /\ l < n
      BY <1>1, <3>4
    <3>6. Flow!ReadOf(m, p, n) = [i \in 1 .. l |-> m[p + i - 1]]
      BY <1>1, <2>2, <3>3, <3>5 DEF Flow!ReadOf
    <3>7. p + l = q
      BY <1>1, <3>4, <3>5
    <3>8. ASSUME NEW i \in 1 .. l PROVE p + i - 1 \in DOMAIN m /\ m[p + i - 1] # Flow!HOLE
      <4>1. PICK x \in p .. p + n - 1 : x = p + i - 1 /\ x < q
        BY <3>5, <3>7
      <4>2. ~(q <= x)
        BY <3>1, <3>4, <4>1
      <4>3. x \notin stop
        BY <3>4, <4>2
      <4> QED
        BY <1>1, <4>1, <4>3
    <3> QED
      BY <3>4, <3>5, <3>6, <3>7, <3>8
  <2> QED
    BY <2>1, <2>2
<1>3. PICK d : d = Flow!ReadOf(m, p, n)
  OBVIOUS
<1>4. Len(d) = l /\ \A i \in 1 .. l : d[i] = m[p + i - 1]
  BY <1>2, <1>3
<1>5. ASSUME NEW i \in 1 .. l
      PROVE  d[i] = IF p + i - 1 \in DOMAIN w THEN w[p + i - 1] ELSE 0
  <2>1. PICK x : x = p + i - 1
    OBVIOUS
  <2>2. x \in DOMAIN m /\ m[x] # Flow!HOLE /\ d[i] = m[x]
    BY <1>2, <1>4, <2>1
  <2>3. d[i] = IF x \in DOMAIN w THEN w[x] ELSE 0
    BY <2>2 DEF Mirrors
  <2> QED
    BY <2>1, <2>3
<1>6. ASSUME l < n PROVE p + l \notin DOMAIN w
  <2>1. PICK x : x = p + l
    OBVIOUS
  <2>2. x \notin DOMAIN m \/ m[x] = Flow!HOLE
    BY <1>1, <1>2, <1>6, <2>1
  <2>3. x \notin DOMAIN w
    BY <2>2 DEF Mirrors
  <2> QED
    BY <2>1, <2>3
<1> QED
  BY <1>3, <1>4, <1>5, <1>6 DEF ReadsRight

LEMMA FlowInvHolds ==
  ASSUME FlowInv
  PROVE  Flow!ReadsBack /\ Flow!MisledOnlyFarOut
<1>1. PICK k \in Nat : Covers(v1, k)
  BY DEF FlowInv
<1>2. Flow!Extents(v1) = k
  BY <1>1, FlowExtents
<1>3. Flow!MisledOnlyFarOut
  BY <1>1, <1>2, FlowAssumption, FlowLocated DEF Flow!MisledOnlyFarOut
<1>4. ASSUME v2 = "ok", ~v4, NEW offset \in Offsets, NEW n \in Lengths
      PROVE  /\ offset \in DOMAIN v3 => Flow!Located(v1, offset) >= 0
             /\ Flow!Located(v1, offset) = offset =>
                  LET data == Flow!ReadOf(v1, Flow!Located(v1, offset), n)
                  IN /\ \A i \in 1 .. Len(data) : data[i] = Flow!Byte(offset + i - 1)
                     /\ Len(data) < n => offset + Len(data) \notin DOMAIN v3
  <2>1. Mirrors(v1, v3) /\ offset \in Nat /\ n \in Nat
    BY <1>4, FlowAssumption DEF FlowInv
  <2>2. offset \in DOMAIN v3 => Flow!Located(v1, offset) >= 0
    <3>1. SUFFICES ASSUME offset \in DOMAIN v3 PROVE Flow!Located(v1, offset) >= 0
      OBVIOUS
    <3>2. offset \in DOMAIN v1
      BY <2>1, <3>1 DEF Mirrors
    <3>3. offset \div Flow!SPAN < k /\ offset \div Flow!SPAN \in Nat
      BY <1>1, <2>1, <3>2, FlowLocated, FlowSpan, FlowDivision
    <3>4. Flow!Located(v1, offset) \in Int /\ (Flow!Located(v1, offset) < 0 => k <= offset \div Flow!SPAN)
      BY <1>1, <2>1, FlowLocated
    <3> QED
      BY <3>3, <3>4
  <2>3. ASSUME Flow!Located(v1, offset) = offset
        PROVE  LET data == Flow!ReadOf(v1, Flow!Located(v1, offset), n)
               IN /\ \A i \in 1 .. Len(data) : data[i] = Flow!Byte(offset + i - 1)
                  /\ Len(data) < n => offset + Len(data) \notin DOMAIN v3
    <3>1. PICK data : data = Flow!ReadOf(v1, offset, n)
      OBVIOUS
    <3>2. ReadsRight(data, v3, offset, n)
      BY <1>1, <2>1, <3>1, FlowReadFacts
    <3> QED
      BY <2>3, <3>1, <3>2 DEF ReadsRight, Flow!Byte
  <2> QED
    BY <2>2, <2>3
<1>5. Flow!ReadsBack
  BY <1>4 DEF Flow!ReadsBack
<1> QED
  BY <1>3, <1>5

-----------------------------------------------------------------------------
(* The library *)

LibraryInv ==
  /\ part = "stream" => StreamInv
  /\ part = "cache"  => CacheInv
  /\ part = "socket" => Socket!SocketInv
  /\ part = "mmstream" => FlowInv
  /\ part = "strbuf" => StrBufInv

LEMMA LibraryInitHolds == LibraryInit => LibraryInv
  BY IOInitHolds, LRUInitHolds, SockInitHolds, FlowInitHolds, StrInitHolds
  DEF LibraryInit, LibraryInv

(* A step that changes nothing *)
LEMMA LibraryStutters ==
  ASSUME LibraryInv, UNCHANGED <<part, others>>
  PROVE  LibraryInv'
<1>0. UNCHANGED <<part, v1, v2, v3, v4, v5, v6, v7>>
  BY DEF others
<1>2. CASE part = "stream"
  BY <1>0, <1>2 DEF LibraryInv, StreamInv, Transfer, Logged, IO!WritePos, IO!RegularFileIsSafe
<1>3. CASE part = "cache"
  BY <1>0, <1>3 DEF LibraryInv, CacheInv
<1>4. CASE part = "socket"
  <2>1. v4 \in CallStates /\ SocketsOK /\ Socket!CallOwns /\ Socket!NothingLeft
    BY <1>4, SockInvFacts DEF LibraryInv
  <2>2. v4' \in CallStates /\ SocketsOK' /\ Socket!CallOwns' /\ Socket!NothingLeft'
    BY <1>0, <2>1 DEF SocketsOK, Socket!CallOwns, Socket!NothingLeft, Socket!InCall
  <2> QED
    BY <1>0, <1>4, <2>2, SockInvNext DEF LibraryInv
<1>5. CASE part = "mmstream"
  BY <1>0, <1>5 DEF LibraryInv, FlowInv
<1>6. CASE part = "strbuf"
  BY <1>0, <1>6, StrStutters DEF LibraryInv, Str!vars
<1> QED
  BY <1>0, <1>2, <1>3, <1>4, <1>5, <1>6 DEF LibraryInv

LEMMA LibraryNextKeeps ==
  LibraryInv /\ [LibraryNext]_<<vars, part, others>> => LibraryInv'
<1> SUFFICES ASSUME LibraryInv, [LibraryNext]_<<vars, part, others>> PROVE LibraryInv'
  OBVIOUS
<1>1. CASE UNCHANGED <<part, others>>
  BY <1>1, LibraryStutters
<1>3. CASE LibraryNext /\ part = "stream"
  BY <1>3, IONextKeeps DEF LibraryNext, LibraryInv
<1>4. CASE LibraryNext /\ part = "cache"
  BY <1>4, LRUNextFacts DEF LibraryNext, LibraryInv
<1>5. CASE LibraryNext /\ part = "socket"
  BY <1>5, SockNextKeeps DEF LibraryNext, LibraryInv
<1>6. CASE LibraryNext /\ part = "mmstream"
  BY <1>6, FlowNextKeeps DEF LibraryNext, LibraryInv
<1>7. CASE LibraryNext /\ part = "strbuf"
  BY <1>7, StrNextKeeps DEF LibraryNext, LibraryInv
<1> QED
  BY <1>1, <1>3, <1>4, <1>5, <1>6, <1>7 DEF LibraryNext, LibraryInv

(* Every integer written to a stream comes back as it was, for any base    *)
(* and widths, wherever the short reads and writes of its loops end.       *)
THEOREM StreamIntsComeBack == LibrarySpec => []IntsComeBack
<1>1. LibraryInv => IntsComeBack
  BY IOInvHolds DEF LibraryInv, IntsComeBack
<1> QED
  BY <1>1, LibraryInitHolds, LibraryNextKeeps, PTL DEF LibrarySpec

(* The table and the list of a cache agree with what was inserted until a  *)
(* node is freed, for any keys, hash function and capacities.              *)
THEOREM CacheIndexesAgree == LibrarySpec => []IndexesAgree
<1>1. LibraryInv => IndexesAgree
  BY LRUInvHolds DEF LibraryInv, IndexesAgree
<1> QED
  BY <1>1, LibraryInitHolds, LibraryNextKeeps, PTL DEF LibrarySpec

(* As long as no node of a cache was freed, only an insert into a full one *)
(* and a removal of a key that is there and not retained lead to an        *)
(* undefined access, and such a removal always does: it frees twice.       *)
THEOREM CacheHarmNeedsFree == LibrarySpec => HarmNeedsFree
<1>1. LibraryInv /\ [LibraryNext]_<<vars, part, others>>
      => [part = "cache" => LRU!HarmNeedsFree]_others
  BY LRUNextFacts DEF LibraryInv, LibraryNext, others
<1> QED
  BY <1>1, LibraryInitHolds, LibraryNextKeeps, PTL DEF LibrarySpec, HarmNeedsFree

(* No call of socket.c leaks a descriptor or a path, whichever of its      *)
(* system calls fails, and the address connect and accept report is that   *)
(* of the socket, as is the one of bind if the first candidate works, for  *)
(* any number of addresses, paths and descriptors.                         *)
THEOREM NothingLeaks == LibrarySpec => []NoLeak
<1>1. LibraryInv => NoLeak
  BY SockInvHolds DEF LibraryInv, NoLeak
<1> QED
  BY <1>1, LibraryInitHolds, LibraryNextKeeps, PTL DEF LibrarySpec

(* A memory stream reads back what was written and zero elsewhere until a  *)
(* write or a truncation is led to another extent, and it is led to one    *)
(* only for the index behind the last of two extents or more and for the   *)
(* last half of six or more, for any block and extent size, any offsets    *)
(* and any number of extents.                                              *)
THEOREM MMStreamReadsBack == LibrarySpec => []ReadsBack
<1>1. LibraryInv => ReadsBack
  BY FlowInvHolds DEF LibraryInv, ReadsBack
<1> QED
  BY <1>1, LibraryInitHolds, LibraryNextKeeps, PTL DEF LibrarySpec

(* The first size cells of a string buffer are the string of the client    *)
(* until a call does something else than it was asked for or has harmed    *)
(* the block, which it does behind the block only for a string that fills  *)
(* it or after a squeeze, for any characters, block size and string        *)
(* lengths.                                                                *)
THEOREM StringBufferHoldsText == LibrarySpec => []HoldsText
<1>1. LibraryInv => HoldsText
  BY StrInvHolds DEF LibraryInv, HoldsText
<1> QED
  BY <1>1, LibraryInitHolds, LibraryNextKeeps, PTL DEF LibrarySpec
=============================================================================
