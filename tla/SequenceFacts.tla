---------------------------- MODULE SequenceFacts -----------------------------
(***************************************************************************)
(* Facts of sequences and recursive functions that several proofs cite:    *)
(* what FlattenSeq of SequencesExt computes; that an iteration, and a walk *)
(* along links that only lead upwards, exist and are unique.  Such         *)
(* functions are recursive, so their existence comes first, from least     *)
(* counterexamples.                                                        *)
(***************************************************************************)
EXTENDS Integers, SequencesExt, SequenceTheorems, WellFoundedInduction, TLAPS

(* A set of numbers that is not empty has a least one. *)
LEMMA LeastNumber ==
  ASSUME NEW B, B \subseteq Nat, B # {}
  PROVE  \E x \in B : \A y \in B : x <= y
<1> DEFINE R == {ss \in Nat \X Nat : ss[1] < ss[2]}
<1>1. IsWellFoundedOn(R, Nat)
  BY NatLessThanWellFounded, Zenon DEF OpToRel
<1>2. PICK x \in B : \A y \in B : ~(<<y, x>> \in R)
  BY <1>1, WFMin
<1>3. ASSUME NEW y \in B PROVE x <= y
  <2>1. <<y, x>> \in Nat \X Nat /\ ~(<<y, x>> \in R)
    BY <1>2
  <2>2. ~(<<y, x>>[1] < <<y, x>>[2])
    BY <2>1, Zenon
  <2> QED
    BY <2>2
<1> QED
  BY <1>3

LEMMA ConcatThree ==
  ASSUME NEW S
  PROVE  \A x, y, z \in Seq(S) : x \o (y \o z) = (x \o y) \o z
  OBVIOUS

(* The first element of two sequences in a row is that of the first one. *)
LEMMA HeadTailConcat ==
  ASSUME NEW S, NEW s \in Seq(S), NEW t \in Seq(S), s # <<>>
  PROVE  Tail(s \o t) = Tail(s) \o t /\ Head(s \o t) = Head(s)
<1>1. /\ Tail(s) \in Seq(S) /\ Len(Tail(s)) = Len(s) - 1 /\ Len(s) \in Nat \ {0}
      /\ \A i \in 1 .. Len(s) - 1 : Tail(s)[i] = s[i + 1]
  OBVIOUS
<1>2. s \o t \in Seq(S) /\ Len(s \o t) = Len(s) + Len(t) /\ Len(t) \in Nat
  OBVIOUS
<1>3. PICK r \in Seq(S), u \in Seq(S), v \in Seq(S) : r = s \o t /\ u = Tail(s) \o t /\ v = Tail(s)
  <2>1. Tail(s) \o t \in Seq(S)
    BY <1>1
  <2> QED
    BY <1>1, <1>2, <2>1, Zenon
<1>4. r # <<>> /\ Len(r) = Len(s) + Len(t) /\ Len(u) = Len(s) - 1 + Len(t)
  BY <1>1, <1>2, <1>3
<1>5. Tail(r) \in Seq(S) /\ Len(Tail(r)) = Len(u) /\ Head(r) = r[1]
  BY <1>2, <1>4
<1>6. \A i \in 1 .. Len(u) : Tail(r)[i] = u[i]
  <2> SUFFICES ASSUME NEW i \in 1 .. Len(u) PROVE Tail(r)[i] = u[i]
    OBVIOUS
  <2>1. Tail(r)[i] = r[i + 1]
    BY <1>5, <1>4
  <2>2. r[i + 1] = IF i + 1 <= Len(s) THEN s[i + 1] ELSE t[(i + 1) - Len(s)]
    BY <1>1, <1>2, <1>3, <1>4
  <2>3. u[i] = IF i <= Len(v) THEN v[i] ELSE t[i - Len(v)]
    BY <1>1, <1>2, <1>3, <1>4
  <2>4. Len(v) = Len(s) - 1 /\ (i + 1) - Len(s) = i - Len(v)
    BY <1>1, <1>3
  <2> QED
    BY <2>1, <2>2, <2>3, <2>4, <1>1, <1>3
<1>7. Tail(r) = u
  BY <1>5, <1>6, SeqEqual
<1>8. r[1] = s[1] /\ Head(s) = s[1]
  BY <1>1, <1>2, <1>3
<1> QED
  BY <1>3, <1>5, <1>7, <1>8

LEMMA ConcatAppend ==
  ASSUME NEW S, NEW s \in Seq(S), NEW t \in Seq(S), NEW e \in S
  PROVE  s \o Append(t, e) = Append(s \o t, e)
  OBVIOUS

(* What is left of a sequence behind its first a elements. *)
LEMMA SuffixFacts ==
  ASSUME NEW S, NEW s \in Seq(S), NEW a \in Nat, a <= Len(s)
  PROVE  /\ SubSeq(s, a + 1, Len(s)) \in Seq(S)
         /\ Len(SubSeq(s, a + 1, Len(s))) = Len(s) - a
         /\ \A i \in 1 .. Len(s) - a : SubSeq(s, a + 1, Len(s))[i] = s[a + i]
<1>1. Len(s) \in Nat /\ \A i \in a + 1 .. Len(s) : s[i] \in S
  OBVIOUS
<1> DEFINE m == a + 1
<1> DEFINE n == Len(s)
<1>2. /\ SubSeq(s, m, n) \in Seq(S)
      /\ Len(SubSeq(s, m, n)) = IF m <= n THEN n - m + 1 ELSE 0
      /\ \A i \in 1 .. n - m + 1 : SubSeq(s, m, n)[i] = s[m + i - 1]
  <2>1. m \in Int /\ n \in Int /\ \A i \in m .. n : s[i] \in S
    BY <1>1
  <2> HIDE DEF m, n
  <2> QED
    BY <2>1, SubSeqProperties
<1>3. n - m + 1 = n - a /\ (m <= n \/ n - a = 0) /\ \A i \in Int : m + i - 1 = a + i
  BY <1>1
<1>4. PICK t : t = SubSeq(s, m, n)
  OBVIOUS
<1>5. /\ t \in Seq(S) /\ Len(t) = n - a
      /\ \A i \in 1 .. n - a : t[i] = s[a + i]
  <2>1. t \in Seq(S) /\ Len(t) = n - a
    BY <1>1, <1>2, <1>3, <1>4
  <2>2. ASSUME NEW i \in 1 .. n - a PROVE t[i] = s[a + i]
    <3>1. i \in 1 .. n - m + 1 /\ m + i - 1 = a + i
      BY <1>1
    <3>2. t[i] = s[m + i - 1]
      <4> HIDE DEF m, n
      <4> QED
        BY <3>1, <1>2, <1>4
    <3> QED
      BY <3>1, <3>2
  <2> QED
    BY <2>1, <2>2
<1> QED
  BY <1>4, <1>5

(* The first a elements of a sequence. *)
LEMMA PrefixFacts ==
  ASSUME NEW S, NEW s \in Seq(S), NEW a \in Nat, a <= Len(s)
  PROVE  /\ SubSeq(s, 1, a) \in Seq(S) /\ Len(SubSeq(s, 1, a)) = a
         /\ \A i \in 1 .. a : SubSeq(s, 1, a)[i] = s[i]
<1>1. \A i \in 1 .. a : s[i] \in S
  OBVIOUS
<1>2. /\ SubSeq(s, 1, a) \in Seq(S)
      /\ Len(SubSeq(s, 1, a)) = IF 1 <= a THEN a - 1 + 1 ELSE 0
      /\ \A i \in 1 .. a - 1 + 1 : SubSeq(s, 1, a)[i] = s[1 + i - 1]
  BY <1>1, SubSeqProperties
<1>3. PICK t : t = SubSeq(s, 1, a)
  OBVIOUS
<1>4. a - 1 + 1 = a /\ \A i \in Int : 1 + i - 1 = i
  OBVIOUS
<1>5. t \in Seq(S) /\ Len(t) = a
  BY <1>2, <1>3, <1>4
<1>6. ASSUME NEW i \in 1 .. a PROVE t[i] = s[i]
  <2>1. i \in 1 .. a - 1 + 1 /\ 1 + i - 1 = i
    OBVIOUS
  <2>2. t[i] = s[1 + i - 1]
    BY <2>1, <1>2, <1>3
  <2> QED
    BY <2>1, <2>2
<1> QED
  BY <1>3, <1>5, <1>6

(* f[i] is the first i sequences of s in a row, for i up to k. *)
Rows(s, k, f) ==
  \A i \in 1 .. k : f[i] = IF i = 1 THEN s[i] ELSE f[i - 1] \o s[i]

(* There is such a function for every number of sequences: the least       *)
(* number without one would have a predecessor with one.                   *)
LEMMA RowsExist ==
  ASSUME NEW S, NEW s \in Seq(Seq(S)), NEW n \in 1 .. Len(s)
  PROVE  \E f \in [1 .. n -> Seq(S)] : Rows(s, n, f)
<1> DEFINE B == {k \in 1 .. Len(s) : ~ \E f \in [1 .. k -> Seq(S)] : Rows(s, k, f)}
<1> SUFFICES ASSUME B # {} PROVE FALSE
  OBVIOUS
<1>1. Len(s) \in Nat /\ \A i \in 1 .. Len(s) : s[i] \in Seq(S)
  OBVIOUS
<1>0. B \subseteq Nat
  OBVIOUS
<1>2. PICK k \in B : \A y \in B : k <= y
  <2> HIDE DEF B
  <2> QED BY <1>0, LeastNumber
<1>9. k \in 1 .. Len(s) /\ ~ \E f \in [1 .. k -> Seq(S)] : Rows(s, k, f)
  OBVIOUS
<1>3. k # 1
  <2> SUFFICES ASSUME k = 1 PROVE FALSE
    OBVIOUS
  <2> DEFINE h == [i \in 1 .. 1 |-> s[1]]
  <2>1. s[1] \in Seq(S)
    BY <1>1, <1>9
  <2>2. h \in [1 .. 1 -> Seq(S)] /\ Rows(s, 1, h)
    BY <2>1 DEF Rows
  <2> QED
    BY <2>2, <1>9
<1>4. k - 1 \in 1 .. Len(s)
  BY <1>1, <1>9, <1>3
<1>10. k - 1 \notin B
  <2> HIDE DEF B
  <2> QED BY <1>2, <1>9
<1>5. PICK f \in [1 .. k - 1 -> Seq(S)] : Rows(s, k - 1, f)
  BY <1>4, <1>10
<1> HIDE DEF B
<1>11. f[k - 1] \in Seq(S) /\ s[k] \in Seq(S)
  <2>1. k - 1 \in 1 .. k - 1
    BY <1>4
  <2> QED
    BY <2>1, <1>1, <1>9
<1>12. PICK v \in Seq(S) : v = f[k - 1] \o s[k]
  <2>1. \A x, y \in Seq(S) : x \o y \in Seq(S)
    OBVIOUS
  <2>2. f[k - 1] \o s[k] \in Seq(S)
    BY <1>11, <2>1, Zenon
  <2> QED
    BY <2>2, Zenon
<1> DEFINE g == [i \in 1 .. k |-> IF i = k THEN v ELSE f[i]]
<1>6. g \in [1 .. k -> Seq(S)]
  <2>1. ASSUME NEW i \in 1 .. k, i # k PROVE i \in 1 .. k - 1
    BY <1>4, <1>9, <2>1
  <2> QED
    BY <2>1
<1>7. \A i \in 1 .. k : g[i] = IF i = 1 THEN s[i] ELSE g[i - 1] \o s[i]
  <2> SUFFICES ASSUME NEW i \in 1 .. k PROVE g[i] = IF i = 1 THEN s[i] ELSE g[i - 1] \o s[i]
    OBVIOUS
  <2>1. CASE i = k
    <3>1. g[k] = v /\ g[k - 1] = f[k - 1]
      BY <1>3, <1>4, <1>9
    <3> HIDE DEF g
    <3> QED
      BY <2>1, <3>1, <1>3, <1>12
  <2>2. CASE i # k
    <3>1. i \in 1 .. k - 1 /\ g[i] = f[i] /\ (i # 1 => g[i - 1] = f[i - 1])
      BY <2>2, <1>4, <1>9
    <3>2. f[i] = IF i = 1 THEN s[i] ELSE f[i - 1] \o s[i]
      BY <3>1, <1>5 DEF Rows
    <3> HIDE DEF g
    <3> QED
      BY <3>1, <3>2
  <2> QED
    BY <2>1, <2>2
<1>8. Rows(s, k, g)
  BY <1>7 DEF Rows
<1> QED
  BY <1>9, <1>6, <1>8

(* Whatever function has the rows of s, its last row is FlattenSeq(s): two *)
(* of them cannot differ at a least row.                                   *)
LEMMA FlattenIsLastRow ==
  ASSUME NEW S, NEW s \in Seq(Seq(S)), Len(s) > 0, NEW f, Rows(s, Len(s), f)
  PROVE  FlattenSeq(s) = f[Len(s)]
<1>1. Len(s) \in 1 .. Len(s) /\ Len(s) \in Nat /\ Len(s) # 0
  OBVIOUS
<1>2. PICK e \in [1 .. Len(s) -> Seq(S)] : Rows(s, Len(s), e)
  BY <1>1, RowsExist
<1>3. e = [i \in 1 .. Len(s) |-> IF i = 1 THEN s[i] ELSE e[i - 1] \o s[i]]
  BY <1>2 DEF Rows
<1> DEFINE g == CHOOSE h : h = [i \in 1 .. Len(s) |-> IF i = 1 THEN s[i] ELSE h[i - 1] \o s[i]]
<1>4. g = [i \in 1 .. Len(s) |-> IF i = 1 THEN s[i] ELSE g[i - 1] \o s[i]]
  BY <1>3
<1>5. FlattenSeq(s) = g[Len(s)]
  BY <1>1 DEF FlattenSeq
<1> HIDE DEF g
<1>8. Rows(s, Len(s), g)
  BY <1>4 DEF Rows
<1> DEFINE D == {i \in 1 .. Len(s) : g[i] # f[i]}
<1>6. D = {}
  <2> SUFFICES ASSUME D # {} PROVE FALSE
    OBVIOUS
  <2>0. D \subseteq Nat
    OBVIOUS
  <2>1. PICK i \in D : \A y \in D : i <= y
    <3> HIDE DEF D
    <3> QED BY <2>0, LeastNumber
  <2>2. i \in 1 .. Len(s) /\ g[i] # f[i]
    OBVIOUS
  <2>3. g[i] = IF i = 1 THEN s[i] ELSE g[i - 1] \o s[i]
    BY <2>2, <1>8 DEF Rows
  <2>4. f[i] = IF i = 1 THEN s[i] ELSE f[i - 1] \o s[i]
    BY <2>2 DEF Rows
  <2>5. i # 1 /\ i - 1 \in 1 .. Len(s) /\ g[i - 1] # f[i - 1]
    BY <2>2, <2>3, <2>4
  <2> QED
    BY <2>1, <2>2, <2>5
<1> QED
  BY <1>1, <1>5, <1>6

LEMMA FlattenRows ==
  ASSUME NEW S, NEW s \in Seq(Seq(S)), Len(s) > 0
  PROVE  \E f \in [1 .. Len(s) -> Seq(S)] : Rows(s, Len(s), f) /\ FlattenSeq(s) = f[Len(s)]
<1>1. Len(s) \in 1 .. Len(s)
  OBVIOUS
<1>2. PICK e \in [1 .. Len(s) -> Seq(S)] : Rows(s, Len(s), e)
  BY <1>1, RowsExist
<1> QED
  BY <1>2, FlattenIsLastRow

(* FlattenSeq puts sequences in a row: *)
LEMMA FlattenType ==
  ASSUME NEW S, NEW s \in Seq(Seq(S))
  PROVE  FlattenSeq(s) \in Seq(S) /\ (s = <<>> => FlattenSeq(s) = <<>>)
<1>1. CASE s = <<>>
  BY <1>1 DEF FlattenSeq
<1>2. CASE s # <<>>
  <2>1. Len(s) > 0 /\ Len(s) \in 1 .. Len(s)
    BY <1>2
  <2>2. PICK f \in [1 .. Len(s) -> Seq(S)] : Rows(s, Len(s), f) /\ FlattenSeq(s) = f[Len(s)]
    BY <2>1, FlattenRows
  <2> QED
    BY <1>2, <2>1, <2>2
<1> QED
  BY <1>1, <1>2

(* one more goes behind the others, *)
LEMMA FlattenAppend ==
  ASSUME NEW S, NEW s \in Seq(Seq(S)), NEW t \in Seq(S)
  PROVE  FlattenSeq(Append(s, t)) = FlattenSeq(s) \o t
<1> DEFINE a == Append(s, t)
<1> DEFINE n == Len(s)
<1>1. a \in Seq(Seq(S)) /\ Len(a) = n + 1 /\ a[n + 1] = t /\ n \in Nat /\ \A i \in 1 .. n : a[i] = s[i]
  OBVIOUS
<1>2. a # <<>> /\ Len(a) > 0
  BY <1>1
<1> HIDE DEF a
<1>3. PICK f \in [1 .. n + 1 -> Seq(S)] : Rows(a, n + 1, f) /\ FlattenSeq(a) = f[n + 1]
  BY <1>1, <1>2, FlattenRows
<1>4. CASE s = <<>>
  <2>1. n = 0 /\ FlattenSeq(s) = <<>>
    BY <1>4, FlattenType
  <2>2. f[1] = a[1]
    BY <2>1, <1>3 DEF Rows
  <2> QED
    BY <2>1, <2>2, <1>1, <1>3 DEF a
<1>5. CASE s # <<>>
  <2>1. n > 0 /\ n \in 1 .. n + 1 /\ n + 1 \in 1 .. n + 1
    BY <1>5, <1>1
  <2>2. Rows(s, n, f)
    <3> SUFFICES ASSUME NEW i \in 1 .. n PROVE f[i] = IF i = 1 THEN s[i] ELSE f[i - 1] \o s[i]
      BY DEF Rows
    <3>1. i \in 1 .. n + 1 /\ a[i] = s[i]
      BY <1>1
    <3> QED
      BY <3>1, <1>3 DEF Rows
  <2>3. FlattenSeq(s) = f[n]
    BY <2>1, <2>2, FlattenIsLastRow
  <2>4. f[n + 1] = f[n] \o a[n + 1]
    <3>1. n + 1 # 1 /\ (n + 1) - 1 = n
      BY <2>1
    <3>2. f[n + 1] = IF n + 1 = 1 THEN a[n + 1] ELSE f[(n + 1) - 1] \o a[n + 1]
      BY <2>1, <1>3 DEF Rows
    <3> QED
      BY <3>1, <3>2
  <2> QED
    BY <2>3, <2>4, <1>1, <1>3 DEF a
<1> QED
  BY <1>4, <1>5

(* the first comes before the others, *)
LEMMA FlattenFirst ==
  ASSUME NEW S, NEW s \in Seq(Seq(S)), s # <<>>
  PROVE  FlattenSeq(s) = Head(s) \o FlattenSeq(Tail(s))
<1>0. \A x, y, z \in Seq(S) : x \o (y \o z) = (x \o y) \o z
  BY ConcatThree, SMTT(30)
<1> DEFINE r == Tail(s)
<1> DEFINE n == Len(s) - 1
<1>1. /\ r \in Seq(Seq(S)) /\ Len(r) = n /\ n \in Nat /\ Len(s) = n + 1
      /\ \A i \in 1 .. n : r[i] = s[i + 1]
      /\ \A i \in 1 .. n + 1 : s[i] \in Seq(S)
      /\ Head(s) = s[1]
  OBVIOUS
<1> HIDE DEF r, n
<1>2. CASE n = 0
  <2> DEFINE f == [i \in 1 .. 1 |-> s[1]]
  <2>1. Rows(s, Len(s), f) /\ f[1] = s[1]
    BY <1>1, <1>2 DEF Rows
  <2> HIDE DEF f
  <2>5. Len(s) = 1 /\ Len(s) > 0 /\ r = <<>>
    BY <1>1, <1>2
  <2>2. FlattenSeq(s) = s[1]
    BY <2>5, <2>1, FlattenIsLastRow
  <2>3. FlattenSeq(r) = <<>>
    BY <1>1, <2>5, FlattenType
  <2>4. s[1] \in Seq(S)
    BY <1>1, <1>2
  <2> QED
    BY <2>2, <2>3, <2>4, <1>1 DEF r
<1>3. CASE n # 0
  <2>1. Len(r) > 0 /\ Len(s) > 0
    BY <1>1, <1>3
  <2>2. PICK e \in [1 .. n -> Seq(S)] : Rows(r, n, e) /\ FlattenSeq(r) = e[n]
    BY <1>1, <2>1, FlattenRows
  <2>0. s[1] \in Seq(S)
    BY <1>1
  <2> DEFINE c == [i \in 1 .. n |-> s[1] \o e[i]]
  <2>8. \A i \in 1 .. n : c[i] = s[1] \o e[i]
    OBVIOUS
  <2> HIDE DEF c
  <2> DEFINE f == [i \in 1 .. n + 1 |-> IF i = 1 THEN s[1] ELSE c[i - 1]]
  <2>3. ASSUME NEW i \in 1 .. n + 1
        PROVE  f[i] = IF i = 1 THEN s[i] ELSE f[i - 1] \o s[i]
    <3>1. CASE i = 1
      BY <3>1
    <3>2. CASE i = 2
      <4>1. f[2] = c[1] /\ f[1] = s[1]
        BY <3>2, <1>1
      <4>5. 1 \in 1 .. n
        BY <1>1, <1>3
      <4>3. c[1] = s[1] \o e[1]
        BY <2>8, <4>5
      <4>2. e[1] = r[1] /\ r[1] = s[2]
        BY <3>2, <1>1, <1>3, <2>2 DEF Rows
      <4>4. i # 1 /\ i - 1 = 1
        BY <3>2
      <4> HIDE DEF f
      <4> QED
        BY <3>2, <4>1, <4>2, <4>3, <4>4
    <3>3. CASE i > 2
      <4>1. f[i] = c[i - 1] /\ f[i - 1] = c[i - 2]
        <5>1. i # 1 /\ i - 1 # 1 /\ i - 1 \in 1 .. n + 1 /\ (i - 1) - 1 = i - 2
          BY <3>3, <1>1
        <5> QED
          BY <5>1
      <4>2. i - 1 \in 1 .. n /\ i - 2 \in 1 .. n /\ (i - 1) - 1 = i - 2 /\ i - 1 # 1 /\ (i - 1) + 1 = i
        BY <3>3, <1>1
      <4>3. e[i - 1] = e[i - 2] \o r[i - 1]
        BY <4>2, <2>2 DEF Rows
      <4>4. r[i - 1] = s[i]
        BY <4>2, <1>1
      <4>5. s[1] \in Seq(S) /\ e[i - 2] \in Seq(S) /\ s[i] \in Seq(S)
        BY <4>2, <1>1
      <4> HIDE DEF f
      <4>8. c[i - 1] = s[1] \o e[i - 1] /\ c[i - 2] = s[1] \o e[i - 2]
        BY <2>8, <4>2
      <4>6. s[1] \o (e[i - 2] \o s[i]) = (s[1] \o e[i - 2]) \o s[i]
        BY <4>5, <1>0
      <4>7. i # 1
        BY <3>3
      <4> QED
        BY <4>1, <4>3, <4>4, <4>6, <4>7, <4>8
    <3> QED
      BY <3>1, <3>2, <3>3, <1>1
  <2>4. Rows(s, Len(s), f)
    BY <2>3, <1>1 DEF Rows
  <2>5. f[n + 1] = c[n] /\ n \in 1 .. n
    BY <1>1, <1>3
  <2> HIDE DEF f
  <2>6. FlattenSeq(s) = f[n + 1]
    BY <2>1, <2>4, <1>1, FlattenIsLastRow
  <2> QED
    BY <2>2, <2>5, <2>6, <2>8, <1>1 DEF r
<1> QED
  BY <1>2, <1>3

(* and its length depends on the lengths only. *)
LEMMA FlattenLength ==
  ASSUME NEW S, NEW s \in Seq(Seq(S)), NEW t \in Seq(Seq(S)), Len(s) = Len(t),
         \A i \in 1 .. Len(s) : Len(s[i]) = Len(t[i])
  PROVE  Len(FlattenSeq(s)) = Len(FlattenSeq(t))
<1>1. CASE s = <<>>
  BY <1>1, FlattenType
<1>2. CASE s # <<>>
  <2> DEFINE n == Len(s)
  <2>1. Len(s) > 0 /\ Len(t) > 0 /\ n \in 1 .. n /\ n = Len(t)
    BY <1>2
  <2>2. PICK f \in [1 .. n -> Seq(S)] : Rows(s, n, f) /\ FlattenSeq(s) = f[n]
    BY <2>1, FlattenRows
  <2>3. PICK g \in [1 .. n -> Seq(S)] : Rows(t, n, g) /\ FlattenSeq(t) = g[n]
    BY <2>1, FlattenRows
  <2>9. \A i \in 1 .. n : s[i] \in Seq(S) /\ t[i] \in Seq(S) /\ Len(s[i]) = Len(t[i])
    BY <2>1
  <2> HIDE DEF n
  <2> DEFINE D == {i \in 1 .. n : Len(f[i]) # Len(g[i])}
  <2>4. D = {}
    <3> SUFFICES ASSUME D # {} PROVE FALSE
      OBVIOUS
    <3>0. D \subseteq Nat
      OBVIOUS
    <3>1. PICK i \in D : \A y \in D : i <= y
      <4> HIDE DEF D
      <4> QED BY <3>0, LeastNumber
    <3>2. i \in 1 .. n /\ Len(f[i]) # Len(g[i])
      OBVIOUS
    <3>3. f[i] = IF i = 1 THEN s[i] ELSE f[i - 1] \o s[i]
      BY <3>2, <2>2 DEF Rows
    <3>4. g[i] = IF i = 1 THEN t[i] ELSE g[i - 1] \o t[i]
      BY <3>2, <2>3 DEF Rows
    <3>6. i # 1
      BY <3>2, <3>3, <3>4, <2>9
    <3>7. i - 1 \in 1 .. n
      BY <3>2, <3>6, <2>1
    <3>8. Len(f[i]) = Len(f[i - 1]) + Len(s[i]) /\ Len(g[i]) = Len(g[i - 1]) + Len(t[i])
      BY <3>2, <3>3, <3>4, <3>6, <3>7, <2>9
    <3>9. Len(f[i - 1]) # Len(g[i - 1])
      BY <3>2, <3>8, <2>9
    <3> QED
      BY <3>1, <3>2, <3>7, <3>9
  <2> QED
    BY <2>1, <2>2, <2>3, <2>4
<1> QED
  BY <1>1, <1>2
-----------------------------------------------------------------------------
(* A sequence cut in two at a, up to b. *)
LEMMA CutInTwo ==
  ASSUME NEW S, NEW s \in Seq(S), NEW a \in Nat, NEW b \in Nat, a <= b, b <= Len(s)
  PROVE  /\ SubSeq(s, 1, a) \in Seq(S) /\ Len(SubSeq(s, 1, a)) = a
         /\ SubSeq(s, a + 1, b) \in Seq(S) /\ Len(SubSeq(s, a + 1, b)) = b - a
         /\ SubSeq(s, 1, b) = SubSeq(s, 1, a) \o SubSeq(s, a + 1, b)
<1>1. a <= Len(s) /\ Len(s) \in Nat
  OBVIOUS
<1>2. SubSeq(s, 1, a) \in Seq(S) /\ Len(SubSeq(s, 1, a)) = a
  BY <1>1, PrefixFacts
<1>3. 1 \in 1 .. Len(s) + 1 /\ a \in 1 - 1 .. Len(s) /\ b \in a .. Len(s)
  BY <1>1
<1>4. SubSeq(s, 1, a) \o SubSeq(s, a + 1, b) = SubSeq(s, 1, b)
  BY <1>3, ConcatAdjacentSubSeq
<1>5. PICK m : m = a + 1
  OBVIOUS
<1>6. m \in Int /\ b \in Int /\ \A i \in m .. b : s[i] \in S
  BY <1>1, <1>5
<1>7. /\ SubSeq(s, m, b) \in Seq(S)
      /\ Len(SubSeq(s, m, b)) = IF m <= b THEN b - m + 1 ELSE 0
  BY <1>6, SubSeqProperties
<1>8. (m <= b => b - m + 1 = b - a) /\ (~(m <= b) => b - a = 0)
  BY <1>5, <1>1
<1>9. PICK t : t = SubSeq(s, m, b)
  OBVIOUS
<1>10. t \in Seq(S) /\ Len(t) = b - a
  BY <1>7, <1>8, <1>9
<1> QED
  BY <1>2, <1>4, <1>5, <1>9, <1>10, Zenon

LEMMA PieceOfOne ==
  ASSUME NEW S, NEW s \in Seq(S), NEW m \in 1 .. Len(s)
  PROVE  SubSeq(s, m, m) = <<s[m]>>
<1>1. m \in Int /\ \A i \in m .. m : s[i] \in S
  OBVIOUS
<1>2. /\ SubSeq(s, m, m) \in Seq(S)
      /\ Len(SubSeq(s, m, m)) = IF m <= m THEN m - m + 1 ELSE 0
      /\ \A i \in 1 .. m - m + 1 : SubSeq(s, m, m)[i] = s[m + i - 1]
  BY <1>1, SubSeqProperties
<1>3. PICK t : t = SubSeq(s, m, m)
  OBVIOUS
<1>4. m <= m /\ m - m + 1 = 1 /\ m + 1 - 1 = m /\ 1 \in 1 .. 1
  OBVIOUS
<1>5. t \in Seq(S) /\ Len(t) = 1 /\ t[1] = s[m]
  BY <1>2, <1>3, <1>4, Zenon
<1>6. t = <<s[m]>>
  BY <1>5
<1> QED
  BY <1>3, <1>6, Zenon

(* The first m elements of what is left behind the first a. *)
LEMMA FirstOfRest ==
  ASSUME NEW S, NEW s \in Seq(S), NEW a \in Nat, a <= Len(s), NEW m \in Nat, a + m <= Len(s)
  PROVE  SubSeq(SubSeq(s, a + 1, Len(s)), 1, m) = SubSeq(s, a + 1, a + m)
<1>1. PICK b \in Nat, L \in Nat : b = a + m /\ L = Len(s) /\ a <= b /\ b <= L /\ b - a = m /\ m <= L - a
  <2>1. a + m \in Nat /\ Len(s) \in Nat /\ a <= a + m /\ (a + m) - a = m /\ m <= Len(s) - a
    OBVIOUS
  <2> QED
    BY <2>1, Zenon
<1>2. PICK r \in Seq(S) : /\ r = SubSeq(s, a + 1, Len(s)) /\ Len(r) = L - a
                          /\ \A i \in 1 .. L - a : r[i] = s[a + i]
  <2>1. /\ SubSeq(s, a + 1, Len(s)) \in Seq(S)
        /\ Len(SubSeq(s, a + 1, Len(s))) = Len(s) - a
        /\ \A i \in 1 .. Len(s) - a : SubSeq(s, a + 1, Len(s))[i] = s[a + i]
    BY SuffixFacts
  <2> QED
    BY <2>1, <1>1, Zenon
<1>3. PICK x \in Seq(S) : x = SubSeq(r, 1, m) /\ Len(x) = m /\ \A i \in 1 .. m : x[i] = r[i]
  <2>1. m <= Len(r)
    BY <1>1, <1>2, Zenon
  <2>2. /\ SubSeq(r, 1, m) \in Seq(S) /\ Len(SubSeq(r, 1, m)) = m
        /\ \A i \in 1 .. m : SubSeq(r, 1, m)[i] = r[i]
    BY <2>1, PrefixFacts
  <2> QED
    BY <2>2, Zenon
<1>4. PICK y \in Seq(S) : y = SubSeq(s, a + 1, b) /\ Len(y) = m
  <2>1. a <= b /\ b <= Len(s)
    BY <1>1, Zenon
  <2>2. SubSeq(s, a + 1, b) \in Seq(S) /\ Len(SubSeq(s, a + 1, b)) = b - a
    BY <2>1, CutInTwo
  <2> QED
    BY <2>2, <1>1, Zenon
<1>5. ASSUME NEW i \in 1 .. m PROVE x[i] = y[i]
  <2>1. i \in 1 .. L - a
    BY <1>1
  <2>2. x[i] = s[a + i]
    BY <2>1, <1>2, <1>3, Zenon
  <2>3. PICK h \in Int : h = a + 1
    OBVIOUS
  <2>4. b \in Int /\ \A j \in h .. b : s[j] \in S
    BY <2>3, <1>1
  <2>5. \A j \in 1 .. b - h + 1 : SubSeq(s, h, b)[j] = s[h + j - 1]
    BY <2>4, SubSeqProperties
  <2>6. i \in 1 .. b - h + 1 /\ h + i - 1 = a + i
    BY <2>3, <1>1
  <2>7. y = SubSeq(s, h, b)
    BY <2>3, <1>4, Zenon
  <2>8. y[i] = s[h + i - 1]
    BY <2>5, <2>6, <2>7, Zenon
  <2> QED
    BY <2>2, <2>6, <2>8, Zenon
<1>6. x = y
  BY <1>3, <1>4, <1>5, SeqEqual
<1> QED
  BY <1>1, <1>2, <1>3, <1>4, <1>6, Zenon

LEMMA Cuts ==
  ASSUME NEW S, NEW s \in Seq(S)
  PROVE  \A a, b \in Nat : a <= b /\ b <= Len(s) =>
           /\ SubSeq(s, a + 1, b) \in Seq(S)
           /\ SubSeq(s, 1, b) = SubSeq(s, 1, a) \o SubSeq(s, a + 1, b)
  BY CutInTwo

(* Behind the first of two sequences in a row is the second one. *)
LEMMA RestBehind ==
  ASSUME NEW S, NEW p \in Seq(S), NEW x \in Seq(S)
  PROVE  SubSeq(p \o x, Len(p) + 1, Len(p \o x)) = x
<1>1. p \o x \in Seq(S) /\ Len(p \o x) = Len(p) + Len(x) /\ Len(p) \in Nat /\ Len(x) \in Nat
  BY ConcatProperties
<1>2. \A i \in 1 .. Len(x) : (p \o x)[Len(p) + i] = x[i]
  <2> SUFFICES ASSUME NEW i \in 1 .. Len(x) PROVE (p \o x)[Len(p) + i] = x[i]
    OBVIOUS
  <2>1. Len(p) + i \in 1 .. Len(p) + Len(x) /\ ~(Len(p) + i <= Len(p)) /\ Len(p) + i - Len(p) = i
    BY <1>1
  <2>2. \A j \in 1 .. Len(p) + Len(x) : (p \o x)[j] = IF j <= Len(p) THEN p[j] ELSE x[j - Len(p)]
    BY ConcatProperties
  <2>3. (p \o x)[Len(p) + i] = x[Len(p) + i - Len(p)]
    <3>1. PICK j : j = Len(p) + i
      OBVIOUS
    <3>2. j \in 1 .. Len(p) + Len(x) /\ ~(j <= Len(p))
      BY <2>1, <3>1, Zenon
    <3>3. (p \o x)[j] = IF j <= Len(p) THEN p[j] ELSE x[j - Len(p)]
      BY <2>2, <3>2, Zenon
    <3> QED
      BY <3>1, <3>2, <3>3
  <2> QED
    BY <2>1, <2>3, Zenon
<1>3. PICK r : r = p \o x
  OBVIOUS
<1>4. PICK a : a = Len(p)
  OBVIOUS
<1>5. r \in Seq(S) /\ a \in Nat /\ a <= Len(r) /\ Len(r) - a = Len(x) /\ \A i \in 1 .. Len(x) : r[a + i] = x[i]
  <2>1. r \in Seq(S) /\ a \in Nat /\ \A i \in 1 .. Len(x) : r[a + i] = x[i]
    BY <1>1, <1>2, <1>3, <1>4, Zenon
  <2>2. Len(r) = a + Len(x)
    BY <1>1, <1>3, <1>4, Zenon
  <2> QED
    BY <1>1, <2>1, <2>2
<1>6. /\ SubSeq(r, a + 1, Len(r)) \in Seq(S)
      /\ Len(SubSeq(r, a + 1, Len(r))) = Len(r) - a
      /\ \A i \in 1 .. Len(r) - a : SubSeq(r, a + 1, Len(r))[i] = r[a + i]
  BY <1>5, SuffixFacts
<1>7. PICK u : u = SubSeq(r, a + 1, Len(r))
  OBVIOUS
<1>8. u \in Seq(S) /\ Len(u) = Len(x) /\ \A i \in 1 .. Len(x) : u[i] = x[i]
  BY <1>5, <1>6, <1>7
<1>9. u = x
  BY <1>8, SeqEqual
<1> QED
  BY <1>3, <1>4, <1>7, <1>9, Zenon

(* What is left of two sequences in a row when the cut is in the first one *)
LEMMA RestOfConcat ==
  ASSUME NEW S, NEW s \in Seq(S), NEW t \in Seq(S), NEW n \in Nat, n <= Len(s)
  PROVE  SubSeq(s \o t, n + 1, Len(s \o t)) = SubSeq(s, n + 1, Len(s)) \o t
<1>0. \A x, y, z \in Seq(S) : x \o (y \o z) = (x \o y) \o z
  BY ConcatThree, SMTT(30)
<1>1. PICK l \in Nat : l = Len(s) /\ n <= l /\ l <= Len(s) /\ SubSeq(s, 1, l) = s
  <2>1. Len(s) \in Nat /\ n <= Len(s) /\ Len(s) <= Len(s)
    OBVIOUS
  <2> QED
    BY <2>1, SubSeqFull
<1>2. /\ SubSeq(s, 1, n) \in Seq(S) /\ Len(SubSeq(s, 1, n)) = n
      /\ SubSeq(s, n + 1, l) \in Seq(S)
      /\ SubSeq(s, 1, l) = SubSeq(s, 1, n) \o SubSeq(s, n + 1, l)
  <2>1. n <= l /\ l <= Len(s)
    BY <1>1
  <2> QED
    BY <2>1, CutInTwo
<1>3. PICK p \in Seq(S), q \in Seq(S) : p = SubSeq(s, 1, n) /\ q = SubSeq(s, n + 1, l)
  BY <1>2, Zenon
<1>4. s = p \o q /\ Len(p) = n /\ q = SubSeq(s, n + 1, Len(s))
  BY <1>1, <1>2, <1>3, Zenon
<1>5. PICK x \in Seq(S) : x = q \o t
  BY ConcatProperties
<1>6. s \o t = p \o x
  <2>1. p \o (q \o t) = (p \o q) \o t
    BY <1>0, SMTT(30)
  <2> QED
    BY <2>1, <1>4, <1>5, Zenon
<1>7. SubSeq(p \o x, Len(p) + 1, Len(p \o x)) = x
  BY RestBehind
<1> QED
  BY <1>3, <1>4, <1>5, <1>6, <1>7, Zenon

(* and when it is in the second one. *)
LEMMA RestPastFirst ==
  ASSUME NEW S, NEW s \in Seq(S), NEW t \in Seq(S), NEW d \in Nat, d <= Len(t)
  PROVE  SubSeq(s \o t, Len(s) + d + 1, Len(s \o t)) = SubSeq(t, d + 1, Len(t))
<1>0. \A x, y, z \in Seq(S) : x \o (y \o z) = (x \o y) \o z
  BY ConcatThree, SMTT(30)
<1>1. PICK l \in Nat : l = Len(t) /\ d <= l /\ l <= Len(t) /\ SubSeq(t, 1, l) = t
  <2>1. Len(t) \in Nat /\ d <= Len(t) /\ Len(t) <= Len(t)
    OBVIOUS
  <2> QED
    BY <2>1, SubSeqFull
<1>2. /\ SubSeq(t, 1, d) \in Seq(S) /\ Len(SubSeq(t, 1, d)) = d
      /\ SubSeq(t, d + 1, l) \in Seq(S)
      /\ SubSeq(t, 1, l) = SubSeq(t, 1, d) \o SubSeq(t, d + 1, l)
  <2>1. d <= l /\ l <= Len(t)
    BY <1>1
  <2> QED
    BY <2>1, CutInTwo
<1>3. PICK p \in Seq(S), q \in Seq(S) : p = SubSeq(t, 1, d) /\ q = SubSeq(t, d + 1, l)
  BY <1>2, Zenon
<1>4. t = p \o q /\ Len(p) = d /\ q = SubSeq(t, d + 1, Len(t))
  BY <1>1, <1>2, <1>3, Zenon
<1>5. PICK x \in Seq(S) : x = s \o p /\ Len(x) = Len(s) + Len(p)
  <2>1. s \o p \in Seq(S) /\ Len(s \o p) = Len(s) + Len(p)
    BY ConcatProperties
  <2> QED
    BY <2>1, Zenon
<1>6. s \o t = x \o q
  <2>1. s \o (p \o q) = (s \o p) \o q
    BY <1>0, SMTT(30)
  <2> QED
    BY <2>1, <1>4, <1>5, Zenon
<1>7. SubSeq(x \o q, Len(x) + 1, Len(x \o q)) = q
  BY RestBehind
<1> QED
  BY <1>3, <1>4, <1>5, <1>6, <1>7, Zenon

-----------------------------------------------------------------------------
(* Sequences of sequences one behind the other: the least number of        *)
(* sequences for which this fails would have a predecessor.                *)
LEMMA FlattenConcat ==
  ASSUME NEW S, NEW s \in Seq(Seq(S)), NEW t \in Seq(Seq(S))
  PROVE  FlattenSeq(s \o t) = FlattenSeq(s) \o FlattenSeq(t)
<1>0. \A x, y, z \in Seq(S) : x \o (y \o z) = (x \o y) \o z
  BY ConcatThree, SMTT(30)
<1>00. \A x, y \in Seq(Seq(S)), z \in Seq(S) : x \o Append(y, z) = Append(x \o y, z)
  BY SMTT(30)
<1> DEFINE Bad(u) == FlattenSeq(s \o u) # FlattenSeq(s) \o FlattenSeq(u)
<1> DEFINE B == {n \in Nat : \E u \in Seq(Seq(S)) : Len(u) = n /\ Bad(u)}
<1>1. SUFFICES ASSUME B # {} PROVE FALSE
  <2>1. Len(t) \in Nat
    OBVIOUS
  <2> QED
    BY <2>1, <1>1
<1>2. PICK n \in B : \A m \in B : n <= m
  <2>1. B \subseteq Nat
    OBVIOUS
  <2> HIDE DEF B
  <2> QED
    BY <1>1, <2>1, LeastNumber
<1>3. PICK u \in Seq(Seq(S)) : Len(u) = n /\ Bad(u)
  OBVIOUS
<1>4. FlattenSeq(s) \in Seq(S)
  BY FlattenType
<1>5. u # <<>>
  <2> SUFFICES ASSUME u = <<>> PROVE FALSE
    OBVIOUS
  <2>1. FlattenSeq(u) = <<>>
    BY FlattenType
  <2>2. s \o u = s
    BY ConcatEmptySeq
  <2>3. FlattenSeq(s) \o <<>> = FlattenSeq(s)
    BY <1>4, ConcatEmptySeq
  <2> QED
    BY <2>1, <2>2, <2>3, <1>3
<1>6. PICK v \in Seq(Seq(S)), e \in Seq(S) : u = Append(v, e)
  BY <1>5, SequenceEmptyOrAppend
<1>7. Len(v) \in Nat /\ Len(v) < n /\ n \in Nat
  BY <1>3, <1>6, AppendProperties
<1>8. ~Bad(v)
  <2>1. ~(n <= Len(v))
    BY <1>7
  <2>2. Len(v) \notin B
    <3> HIDE DEF B
    <3> QED
      BY <2>1, <1>2, Zenon
  <2> HIDE DEF Bad
  <2> QED
    BY <2>2, <1>7, Zenon
<1>9. PICK w \in Seq(Seq(S)) : w = s \o v
  BY ConcatProperties
<1>10. s \o u = Append(w, e)
  <2>1. s \o Append(v, e) = Append(s \o v, e)
    BY <1>00, Zenon
  <2> QED
    BY <2>1, <1>6, <1>9, Zenon
<1>11. FlattenSeq(s \o u) = FlattenSeq(w) \o e
  BY <1>10, FlattenAppend
<1>12. PICK x \in Seq(S), y \in Seq(S) : x = FlattenSeq(s) /\ y = FlattenSeq(v)
  BY FlattenType
<1>13. FlattenSeq(u) = y \o e
  BY <1>6, <1>12, FlattenAppend
<1>14. FlattenSeq(w) = x \o y
  BY <1>8, <1>9, <1>12
<1>15. (x \o y) \o e = x \o (y \o e)
  BY <1>0, Zenon
<1> QED
  BY <1>3, <1>11, <1>12, <1>13, <1>14, <1>15, Zenon

(* A sequence cut into pieces is those pieces in a row. *)
LEMMA FlattenPieces ==
  ASSUME NEW S, NEW s \in Seq(S), NEW k \in Nat \ {0}, NEW cut \in [0 .. k -> Nat],
         cut[0] = 0, cut[k] = Len(s),
         \A i \in 1 .. k : cut[i - 1] <= cut[i] /\ cut[i] <= Len(s)
  PROVE  FlattenSeq([i \in 1 .. k |-> SubSeq(s, cut[i - 1] + 1, cut[i])]) = s
<1>0. \A a, b \in Nat : a <= b /\ b <= Len(s) =>
        /\ SubSeq(s, a + 1, b) \in Seq(S)
        /\ SubSeq(s, 1, b) = SubSeq(s, 1, a) \o SubSeq(s, a + 1, b)
  BY Cuts, Zenon
<1>1. PICK p : p = [i \in 1 .. k |-> SubSeq(s, cut[i - 1] + 1, cut[i])]
  OBVIOUS
<1>2. PICK f : f = [i \in 1 .. k |-> SubSeq(s, 1, cut[i])]
  OBVIOUS
<1>3. ASSUME NEW i \in 1 .. k
      PROVE  /\ p[i] \in Seq(S) /\ p[i] = SubSeq(s, cut[i - 1] + 1, cut[i])
             /\ f[i] = SubSeq(s, 1, cut[i])
             /\ f[i] = SubSeq(s, 1, cut[i - 1]) \o p[i]
  <2>1. cut[i - 1] \in Nat /\ cut[i] \in Nat /\ cut[i - 1] <= cut[i] /\ cut[i] <= Len(s)
    OBVIOUS
  <2>4. PICK a \in Nat, b \in Nat : a = cut[i - 1] /\ b = cut[i] /\ a <= b /\ b <= Len(s)
    BY <2>1, Zenon
  <2>2. p[i] = SubSeq(s, cut[i - 1] + 1, cut[i]) /\ f[i] = SubSeq(s, 1, cut[i])
    BY <1>1, <1>2, Zenon
  <2>3. /\ SubSeq(s, cut[i - 1] + 1, cut[i]) \in Seq(S)
        /\ SubSeq(s, 1, cut[i]) = SubSeq(s, 1, cut[i - 1]) \o SubSeq(s, cut[i - 1] + 1, cut[i])
    <3>1. /\ SubSeq(s, a + 1, b) \in Seq(S)
          /\ SubSeq(s, 1, b) = SubSeq(s, 1, a) \o SubSeq(s, a + 1, b)
      BY <1>0, <2>4, Zenon
    <3> QED
      BY <2>4, <3>1, Zenon
  <2> QED
    BY <2>2, <2>3, Zenon
<1>4. p \in Seq(Seq(S)) /\ Len(p) = k
  <2>1. p \in [1 .. k -> Seq(S)]
    BY <1>1, <1>3
  <2>2. k \in Nat
    OBVIOUS
  <2> QED
    BY <2>1, <2>2
<1>5. Rows(p, k, f)
  <2> SUFFICES ASSUME NEW i \in 1 .. k
               PROVE  f[i] = IF i = 1 THEN p[i] ELSE f[i - 1] \o p[i]
    BY DEF Rows
  <2>1. CASE i = 1
    <3>1. p[1] = SubSeq(s, 0 + 1, cut[1]) /\ f[1] = SubSeq(s, 1, cut[1])
      <4>1. 1 \in 1 .. k /\ 1 - 1 = 0
        OBVIOUS
      <4> QED
        BY <4>1, <1>3
    <3>2. 0 + 1 = 1
      OBVIOUS
    <3> QED
      BY <2>1, <3>1, <3>2, Zenon
  <2>2. CASE i # 1
    <3>1. i - 1 \in 1 .. k
      BY <2>2
    <3>2. f[i - 1] = SubSeq(s, 1, cut[i - 1])
      BY <3>1, <1>3, Zenon
    <3> QED
      BY <2>2, <3>2, <1>3, Zenon
  <2> QED
    BY <2>1, <2>2, Zenon
<1>6. FlattenSeq(p) = f[k]
  <2>1. Len(p) > 0 /\ Rows(p, Len(p), f)
    BY <1>4, <1>5
  <2>2. FlattenSeq(p) = f[Len(p)]
    BY <1>4, <2>1, FlattenIsLastRow
  <2> QED
    BY <1>4, <2>2
<1>7. f[k] = s
  <2>1. k \in 1 .. k /\ SubSeq(s, 1, Len(s)) = s
    BY SubSeqFull
  <2> QED
    BY <2>1, <1>3, Zenon
<1> QED
  BY <1>1, <1>6, <1>7, Zenon
-----------------------------------------------------------------------------
(* Two sequences in a row *)
LEMMA ConcatFacts ==
  ASSUME NEW S, NEW s \in Seq(S), NEW t \in Seq(S)
  PROVE  /\ s \o t \in Seq(S) /\ Len(s \o t) = Len(s) + Len(t)
         /\ \A i \in 1 .. Len(s) + Len(t) :
              (s \o t)[i] = IF i <= Len(s) THEN s[i] ELSE t[i - Len(s)]
  OBVIOUS

(* The first n steps of an iteration of F from x. *)
Steps(f, n, x, F) == f[0] = x /\ \A i \in 0 .. n - 1 : f[i + 1] = F[<<f[i], i>>]

LEMMA StepsExist ==
  ASSUME NEW S, NEW x \in S, NEW F \in [S \X Nat -> S], NEW n \in Nat
  PROVE  \E f \in [0 .. n -> S] : Steps(f, n, x, F)
<1> DEFINE B == {k \in Nat : ~ \E f \in [0 .. k -> S] : Steps(f, k, x, F)}
<1> SUFFICES ASSUME B # {} PROVE FALSE
  OBVIOUS
<1>1. PICK k \in B : \A y \in B : k <= y
  <2>1. B \in SUBSET Nat
    OBVIOUS
  <2> HIDE DEF B
  <2> QED
    BY <2>1, LeastNumber
<1>2. k # 0
  <2>1. SUFFICES ASSUME k = 0 PROVE FALSE
    OBVIOUS
  <2> DEFINE g == [i \in 0 .. 0 |-> x]
  <2>2. g \in [0 .. 0 -> S] /\ Steps(g, 0, x, F)
    BY DEF Steps
  <2> QED
    BY <1>1, <2>1, <2>2
<1>3. PICK m \in Nat : k = m + 1
  <2>1. k - 1 \in Nat /\ k = (k - 1) + 1
    BY <1>1, <1>2
  <2> QED
    BY <2>1
<1>4. PICK f \in [0 .. m -> S] : Steps(f, m, x, F)
  <2>1. m \notin B
    BY <1>1, <1>3
  <2> QED
    BY <2>1
<1>5. F[<<f[m], m>>] \in S
  <2>1. m \in 0 .. m
    OBVIOUS
  <2> QED
    BY <2>1
<1> DEFINE g == [i \in 0 .. k |-> IF i <= m THEN f[i] ELSE F[<<f[m], m>>]]
<1>6. g \in [0 .. k -> S]
  BY <1>3, <1>5
<1>7. Steps(g, k, x, F)
  <2>1. g[0] = x
    BY <1>3, <1>4 DEF Steps
  <2>2. ASSUME NEW i \in 0 .. k - 1 PROVE g[i + 1] = F[<<g[i], i>>]
    <3>1. CASE i = m
      <4>1. m <= m /\ ~(m + 1 <= m) /\ m \in 0 .. k /\ m + 1 \in 0 .. k
        BY <1>3
      <4>2. g[m] = f[m] /\ g[m + 1] = F[<<f[m], m>>]
        BY <4>1
      <4> HIDE DEF g
      <4> QED
        BY <3>1, <4>2
    <3>2. CASE i # m
      <4>1. i \in 0 .. m - 1 /\ i + 1 <= m /\ i <= m /\ i \in 0 .. k /\ i + 1 \in 0 .. k
        BY <1>3, <3>2
      <4>2. g[i + 1] = f[i + 1] /\ g[i] = f[i]
        BY <4>1
      <4> HIDE DEF g
      <4> QED
        BY <1>4, <4>1, <4>2 DEF Steps
    <3> QED
      BY <3>1, <3>2
  <2> HIDE DEF g
  <2> QED
    BY <2>1, <2>2 DEF Steps
<1> QED
  BY <1>1, <1>6, <1>7

LEMMA StepsAgree ==
  ASSUME NEW x, NEW F, NEW f, NEW g, NEW m \in Nat, NEW n \in Nat, m <= n,
         Steps(f, m, x, F), Steps(g, n, x, F)
  PROVE  f[m] = g[m]
<1> DEFINE B == {k \in Nat : k <= m /\ f[k] # g[k]}
<1>1. SUFFICES ASSUME B # {} PROVE FALSE
  OBVIOUS
<1>2. PICK k \in B : \A y \in B : k <= y
  <2>1. B \in SUBSET Nat
    OBVIOUS
  <2> HIDE DEF B
  <2> QED
    BY <1>1, <2>1, LeastNumber
<1>3. k # 0
  BY <1>2 DEF Steps
<1>4. PICK i \in Nat : k = i + 1
  <2>1. k - 1 \in Nat /\ k = (k - 1) + 1
    BY <1>2, <1>3
  <2> QED
    BY <2>1
<1>5. f[i] = g[i] /\ i \in 0 .. m - 1 /\ i \in 0 .. n - 1
  BY <1>2, <1>4
<1>6. f[i + 1] = F[<<f[i], i>>] /\ g[i + 1] = F[<<g[i], i>>]
  BY <1>5 DEF Steps
<1> QED
  BY <1>2, <1>4, <1>5, <1>6

(* The value of g behind the one of f at n. *)
Step(f, g, n, F) == g[n + 1] = F[<<f[n], n>>]

LEMMA StepsNext ==
  ASSUME NEW x, NEW F, NEW f, NEW g, NEW n \in Nat, Steps(f, n, x, F), Steps(g, n + 1, x, F)
  PROVE  Step(f, g, n, F)
<1>1. n \in 0 .. (n + 1) - 1
  OBVIOUS
<1>2. g[n + 1] = F[<<g[n], n>>]
  BY <1>1 DEF Steps
<1>3. PICK k \in Nat : k = n + 1
  OBVIOUS
<1>4. Steps(g, k, x, F) /\ n <= k
  BY <1>3
<1>5. f[n] = g[n]
  BY <1>4, StepsAgree
<1> QED
  BY <1>2, <1>5 DEF Step

(* F from x for ever *)
Iterates(f, x, F) == f[0] = x /\ \A n \in Nat : f[n + 1] = F[<<f[n], n>>]

LEMMA StepsJoin ==
  ASSUME NEW S, NEW x, NEW F, \A n \in Nat : \E f \in [0 .. n -> S] : Steps(f, n, x, F)
  PROVE  \E f \in [Nat -> S] : Iterates(f, x, F)
<1> DEFINE part(n) == CHOOSE f \in [0 .. n -> S] : Steps(f, n, x, F)
<1>1. ASSUME NEW n \in Nat PROVE part(n) \in [0 .. n -> S] /\ Steps(part(n), n, x, F)
  OBVIOUS
<1> DEFINE h == [n \in Nat |-> part(n)[n]]
<1>2. h \in [Nat -> S]
  <2>1. ASSUME NEW n \in Nat PROVE part(n)[n] \in S
    <3>1. n \in 0 .. n
      OBVIOUS
    <3> HIDE DEF part
    <3> QED
      BY <1>1, <3>1
  <2> HIDE DEF part
  <2> QED
    BY <2>1
<1>3. h[0] = x
  <2>1. part(0)[0] = x
    BY <1>1 DEF Steps
  <2> QED
    BY <2>1
<1>4. ASSUME NEW n \in Nat PROVE h[n + 1] = F[<<h[n], n>>]
  <2>1. n + 1 \in Nat
    OBVIOUS
  <2>2. PICK f, g : f = part(n) /\ g = part(n + 1)
    OBVIOUS
  <2>3. Steps(f, n, x, F) /\ Steps(g, n + 1, x, F)
    BY <1>1, <2>1, <2>2
  <2>4. Step(f, g, n, F)
    BY <2>3, StepsNext, Zenon
  <2>5. h[n] = f[n] /\ h[n + 1] = g[n + 1]
    BY <2>1, <2>2
  <2> QED
    BY <2>4, <2>5, Zenon DEF Step
<1> HIDE DEF h
<1> QED
  BY <1>2, <1>3, <1>4 DEF Iterates

(* An iteration can be carried on for ever. *)
LEMMA IterationExists ==
  ASSUME NEW S, NEW x \in S, NEW F \in [S \X Nat -> S]
  PROVE  \E f \in [Nat -> S] : Iterates(f, x, F)
<1>1. \A n \in Nat : \E f \in [0 .. n -> S] : Steps(f, n, x, F)
  BY StepsExist
<1> QED
  BY <1>1, StepsJoin, Zenon
(* A greatest number, by counting down from N. *)
LEMMA GreatestNumber ==
  ASSUME NEW N \in Nat, NEW B, B \subseteq 0 .. N, B # {}
  PROVE  \E x \in B : \A y \in B : y <= x
<1> DEFINE C == {j \in Nat : j <= N /\ N - j \in B}
<1>1. C # {}
  <2>1. PICK x \in B : TRUE
    OBVIOUS
  <2>2. x \in Nat /\ x <= N /\ N - x \in Nat /\ N - (N - x) = x
    BY <2>1
  <2>3. N - x \in C
    BY <2>1, <2>2
  <2> QED
    BY <2>3
<1>2. PICK j \in C : \A y \in C : j <= y
  <2>1. C \in SUBSET Nat
    OBVIOUS
  <2> HIDE DEF C
  <2> QED
    BY <1>1, <2>1, LeastNumber
<1>3. ASSUME NEW y \in B PROVE y <= N - j
  <2>1. y \in Nat /\ y <= N /\ N - y \in Nat /\ N - (N - y) = y
    OBVIOUS
  <2>2. N - y \in C
    BY <2>1
  <2>3. j <= N - y /\ j \in Nat
    BY <1>2, <2>2
  <2> QED
    BY <2>1, <2>3
<1>4. N - j \in B
  BY <1>2
<1> QED
  BY <1>3, <1>4

(* w is computed along a list whose links lead up, or to 0. *)
Walks(w, N, b, link, G) == w[0] = b /\ \A n \in 1 .. N : w[n] = G[<<n, w[link[n]]>>]

LEMMA WalkExists ==
  ASSUME NEW N \in Nat, NEW S, NEW b \in S, NEW link \in [1 .. N -> 0 .. N],
         \A n \in 1 .. N : link[n] = 0 \/ link[n] > n,
         NEW G \in [(1 .. N) \X S -> S]
  PROVE  \E w \in [0 .. N -> S] : Walks(w, N, b, link, G)
<1> DEFINE Upper(w, m) ==
             w[0] = b /\ \A n \in 1 .. N : n > N - m => w[n] = G[<<n, w[link[n]]>>]
<1> DEFINE B == {m \in Nat : m <= N /\ ~ \E w \in [0 .. N -> S] : Upper(w, m)}
<1>1. B = {}
  <2>1. SUFFICES ASSUME B # {} PROVE FALSE
    OBVIOUS
  <2>2. PICK m \in B : \A y \in B : m <= y
    <3>1. B \in SUBSET Nat
      OBVIOUS
    <3> HIDE DEF B
    <3> QED
      BY <2>1, <3>1, LeastNumber
  <2>3. m # 0
    <3>1. SUFFICES ASSUME m = 0 PROVE FALSE
      OBVIOUS
    <3> DEFINE v == [n \in 0 .. N |-> b]
    <3>2. v \in [0 .. N -> S] /\ Upper(v, 0)
      OBVIOUS
    <3> QED
      BY <2>2, <3>1, <3>2
  <2>4. PICK k \in Nat : m = k + 1
    <3>1. m - 1 \in Nat /\ m = (m - 1) + 1
      BY <2>2, <2>3
    <3> QED
      BY <3>1
  <2>5. k <= N /\ k \notin B
    <3>1. m <= N /\ m \in Nat
      OBVIOUS
    <3> HIDE DEF B
    <3> QED
      BY <2>2, <2>4, <3>1
  <2>6. PICK w \in [0 .. N -> S] : Upper(w, k)
    BY <2>5
  <2>7. PICK i \in 1 .. N : i = N - k
    <3>1. N - k \in 1 .. N
      BY <2>2, <2>4
    <3> QED
      BY <3>1
  <2>8. PICK x \in S : x = G[<<i, w[link[i]]>>]
    <3>1. link[i] \in 0 .. N
      OBVIOUS
    <3>2. w[link[i]] \in S
      BY <3>1
    <3>3. <<i, w[link[i]]>> \in (1 .. N) \X S
      BY <3>2
    <3>4. G[<<i, w[link[i]]>>] \in S
      BY <3>3
    <3> QED
      BY <3>4
  <2> DEFINE v == [w EXCEPT ![i] = x]
  <2>9. v \in [0 .. N -> S]
    OBVIOUS
  <2>10. v[0] = b
    BY <2>6
  <2>11. ASSUME NEW n \in 1 .. N, n > N - m PROVE v[n] = G[<<n, v[link[n]]>>]
    <3>1. link[n] \in 0 .. N /\ link[n] # i
      <4>1. n >= i
        BY <2>4, <2>7, <2>11
      <4> QED
        BY <4>1
    <3>2. v[link[n]] = w[link[n]]
      BY <3>1
    <3>3. CASE n = i
      BY <2>8, <3>2, <3>3
    <3>4. CASE n # i
      <4>1. n > N - k /\ v[n] = w[n]
        BY <2>4, <2>7, <2>11, <3>4
      <4>2. w[n] = G[<<n, w[link[n]]>>]
        BY <2>6, <4>1
      <4> HIDE DEF v
      <4> QED
        BY <3>2, <4>1, <4>2
    <3> QED
      BY <3>3, <3>4
  <2>12. Upper(v, m)
    BY <2>10, <2>11
  <2> HIDE DEF v
  <2> QED
    BY <2>2, <2>9, <2>12
<1>2. PICK w \in [0 .. N -> S] : Upper(w, N)
  <2>1. N \notin B
    BY <1>1
  <2> HIDE DEF Upper
  <2> QED
    BY <2>1
<1>3. \A n \in 1 .. N : n > N - N
  OBVIOUS
<1>4. Walks(w, N, b, link, G)
  BY <1>2, <1>3 DEF Walks
<1> QED
  BY <1>4
=============================================================================
