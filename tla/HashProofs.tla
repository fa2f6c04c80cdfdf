----------------------------- MODULE HashProofs ------------------------------
(***************************************************************************)
(* Proofs about the hash table, the bag and the set: whatever the keys,    *)
(* their hash values and the limits, nodes stay findable and are counted.  *)
(***************************************************************************)
EXTENDS MCHash, SequenceFacts, FiniteSetTheorems

(* What TypeOK and Findable say of an array b of n chains. *)
GoodArray(b, n) ==
  /\ DOMAIN b = 0 .. n - 1
  /\ IsFiniteSet(Entries(b))
  /\ \A e \in Entries(b) : e.key \in Keys /\ e = Node(e.key, e.value)
  /\ \A i \in DOMAIN b : \A e \in b[i] : i = Index(e.key, n)
  /\ \A e, f \in Entries(b) : e.key = f.key => e = f

(* A key has a chain in every array. *)
LEMMA IndexInRange ==
  ASSUME NEW k \in Keys, NEW n \in Nat \ {0}
  PROVE  Index(k, n) \in 0 .. n - 1
BY HashAssumption DEF Index

(* The nodes of the first l chains of b, which the loop has not reached. *)
Below(b, l) == UNION {b[i] : i \in 0 .. l - 1}

(* A moment of the loop that moves the nodes of b to n chains: the nodes   *)
(* that it has passed are in the chains of their keys.                     *)
Moments(b, n) ==
  [left : Nat, rest : SUBSET Entries(b), new : [0 .. n - 1 -> SUBSET Entries(b)]]
ToDo(w, b) == w.rest \cup Below(b, w.left)
Moved(w, b, m, n) ==
  /\ w \in Moments(b, n) /\ w.left <= m
  /\ w.rest \cap Below(b, w.left) = {}
  /\ \A i \in 0 .. n - 1 :
       w.new[i] = {e \in Entries(b) \ ToDo(w, b) : Index(e.key, n) = i}

LEMMA BelowFacts ==
  ASSUME NEW b, NEW m \in Nat, GoodArray(b, m), NEW l \in Nat, l <= m
  PROVE  /\ Below(b, l) \subseteq Entries(b) /\ Below(b, 0) = {} /\ Below(b, m) = Entries(b)
         /\ l > 0 => /\ l - 1 \in Nat /\ b[l - 1] \subseteq Entries(b)
                     /\ b[l - 1] \cap Below(b, l - 1) = {}
                     /\ b[l - 1] \cup Below(b, l - 1) = Below(b, l)
<1>1. DOMAIN b = 0 .. m - 1 /\ \A i \in DOMAIN b : \A e \in b[i] : i = Index(e.key, m)
  BY DEF GoodArray
<1>2. 0 .. l - 1 \subseteq 0 .. m - 1 /\ 0 .. 0 - 1 = {}
  OBVIOUS
<1>3. Below(b, l) \subseteq Entries(b) /\ Below(b, 0) = {} /\ Below(b, m) = Entries(b)
  BY <1>1, <1>2 DEF Below, Entries
<1>4. ASSUME l > 0
      PROVE  /\ l - 1 \in Nat /\ b[l - 1] \subseteq Entries(b)
             /\ b[l - 1] \cap Below(b, l - 1) = {}
             /\ b[l - 1] \cup Below(b, l - 1) = Below(b, l)
  <2>1. PICK k \in Nat : k = l - 1 /\ k + 1 = l
    <3>1. l - 1 \in Nat /\ (l - 1) + 1 = l
      BY <1>4
    <3> QED
      BY <3>1
  <2>2. k \in DOMAIN b /\ k \notin 0 .. k - 1 /\ 0 .. k - 1 \subseteq DOMAIN b
    BY <1>1, <2>1
  <2>3. 0 .. l - 1 = (0 .. k - 1) \cup {k}
    BY <2>1
  <2>4. b[k] \subseteq Entries(b)
    BY <2>2 DEF Entries
  <2>5. b[k] \cap Below(b, k) = {}
    BY <1>1, <2>2 DEF Below
  <2>6. b[k] \cup Below(b, k) = Below(b, l)
    BY <2>3 DEF Below
  <2> QED
    BY <2>1, <2>4, <2>5, <2>6
<1> QED
  BY <1>3, <1>4

(* A round passes one node, or the end of a chain, until nothing is left. *)
LEMMA RelinkRound ==
  ASSUME NEW b, NEW m \in Nat, GoodArray(b, m), NEW n \in Nat \ {0},
         NEW w, Moved(w, b, m, n), NEW v, v = Relink(w, b, n)
  PROVE  /\ Moved(v, b, m, n)
         /\ \/ w.left = 0 /\ ToDo(w, b) = {} /\ v = w
            \/ w.rest # {} /\ v.left = w.left /\ \E p \in ToDo(w, b) : ToDo(v, b) = ToDo(w, b) \ {p}
            \/ w.left > 0 /\ v.left = w.left - 1 /\ ToDo(v, b) = ToDo(w, b)
<1>1. w.left \in Nat /\ w.rest \subseteq Entries(b) /\ w.new \in [0 .. n - 1 -> SUBSET Entries(b)]
  BY DEF Moved, Moments
<1>2. w = [left |-> w.left, rest |-> w.rest, new |-> w.new]
  BY DEF Moved, Moments
<1>3. CASE w.rest # {}
  <2>1. PICK p \in w.rest : p = First(w.rest)
    <3>1. First(w.rest) \in w.rest
      BY <1>3 DEF First
    <3> QED
      BY <3>1
  <2>2. v = [w EXCEPT !.rest = @ \ {p}, !.new = Linked(@, Index(p.key, n), p)]
    BY <1>3, <2>1 DEF Relink
  <2>3. PICK j \in 0 .. n - 1 : j = Index(p.key, n)
    <3>1. p \in Entries(b) /\ p.key \in Keys
      BY <1>1 DEF GoodArray
    <3> QED
      BY <3>1, IndexInRange
  <2>4. v.left = w.left /\ v.rest = w.rest \ {p} /\ v.new = Linked(w.new, j, p)
        /\ v = [left |-> w.left, rest |-> w.rest \ {p}, new |-> Linked(w.new, j, p)]
    BY <1>2, <2>2, <2>3
  <2>5. p \in Entries(b) /\ p \notin Below(b, w.left)
    BY <1>1 DEF Moved
  <2>6. ToDo(v, b) = ToDo(w, b) \ {p} /\ p \in ToDo(w, b)
    BY <2>4, <2>5 DEF ToDo
  <2>7. /\ v.new \in [0 .. n - 1 -> SUBSET Entries(b)]
        /\ v.new[j] = w.new[j] \cup {p}
        /\ \A i \in 0 .. n - 1 : i # j => v.new[i] = w.new[i]
    BY <1>1, <2>3, <2>4, <2>5 DEF Linked
  <2>8. v \in Moments(b, n)
    BY <1>1, <2>4, <2>7 DEF Moments
  <2>9. ASSUME NEW i \in 0 .. n - 1
        PROVE  v.new[i] = {e \in Entries(b) \ ToDo(v, b) : Index(e.key, n) = i}
    <3>1. w.new[i] = {e \in Entries(b) \ ToDo(w, b) : Index(e.key, n) = i}
      BY DEF Moved
    <3>2. Entries(b) \ ToDo(v, b) = (Entries(b) \ ToDo(w, b)) \cup {p}
      BY <2>5, <2>6
    <3> QED
      BY <2>3, <2>7, <3>1, <3>2
  <2>10. Moved(v, b, m, n)
    BY <2>4, <2>8, <2>9 DEF Moved
  <2> QED
    BY <1>3, <2>4, <2>6, <2>10
<1>4. CASE w.rest = {} /\ w.left > 0
  <2>1. v = [w EXCEPT !.rest = b[w.left - 1], !.left = @ - 1]
    BY <1>4 DEF Relink
  <2>2. v.left = w.left - 1 /\ v.rest = b[w.left - 1] /\ v.new = w.new
        /\ v = [left |-> w.left - 1, rest |-> b[w.left - 1], new |-> w.new]
    BY <1>2, <2>1
  <2>3. /\ w.left - 1 \in Nat /\ b[w.left - 1] \subseteq Entries(b)
        /\ b[w.left - 1] \cap Below(b, w.left - 1) = {}
        /\ b[w.left - 1] \cup Below(b, w.left - 1) = Below(b, w.left)
    <3>1. w.left <= m
      BY DEF Moved
    <3> QED
      BY <1>1, <1>4, <3>1, BelowFacts
  <2>4. ToDo(v, b) = ToDo(w, b)
    BY <1>4, <2>2, <2>3 DEF ToDo
  <2>5. v \in Moments(b, n) /\ v.left <= m
    BY <1>1, <2>2, <2>3 DEF Moments, Moved
  <2>6. Moved(v, b, m, n)
    BY <2>2, <2>3, <2>4, <2>5 DEF Moved
  <2> QED
    BY <1>4, <2>2, <2>4, <2>6
<1>5. CASE w.rest = {} /\ ~(w.left > 0)
  <2>1. v = w
    BY <1>5 DEF Relink
  <2>2. w.left = 0
    BY <1>1, <1>5
  <2>3. Below(b, 0) = {}
    BY BelowFacts
  <2>4. ToDo(w, b) = {}
    BY <1>5, <2>2, <2>3 DEF ToDo
  <2> QED
    BY <2>1, <2>2, <2>4
<1> QED
  BY <1>3, <1>4, <1>5

(* What a round leaves to do is one less. *)
Togo(w, b) == w.left + Cardinality(ToDo(w, b))

LEMMA RelinkTogo ==
  ASSUME NEW b, NEW m \in Nat, GoodArray(b, m), NEW n \in Nat \ {0},
         NEW w, Moved(w, b, m, n), NEW v, v = Relink(w, b, n)
  PROVE  /\ Togo(w, b) \in Nat
         /\ Togo(w, b) = 0 => w.left = 0 /\ ToDo(w, b) = {}
         /\ Togo(w, b) > 0 => Togo(v, b) = Togo(w, b) - 1
<1>1. w.left \in Nat /\ w.left <= m /\ w.rest \subseteq Entries(b)
  BY DEF Moved, Moments
<1>2. IsFiniteSet(ToDo(w, b))
  <2>1. Below(b, w.left) \subseteq Entries(b)
    BY <1>1, BelowFacts
  <2>2. ToDo(w, b) \subseteq Entries(b) /\ IsFiniteSet(Entries(b))
    BY <1>1, <2>1 DEF ToDo, GoodArray
  <2> QED
    BY <2>2, FS_Subset
<1>3. Cardinality(ToDo(w, b)) \in Nat /\ (Cardinality(ToDo(w, b)) = 0 <=> ToDo(w, b) = {})
  BY <1>2, FS_CardinalityType, FS_EmptySet
<1>4. \/ w.left = 0 /\ ToDo(w, b) = {} /\ v = w
      \/ w.rest # {} /\ v.left = w.left /\ \E p \in ToDo(w, b) : ToDo(v, b) = ToDo(w, b) \ {p}
      \/ w.left > 0 /\ v.left = w.left - 1 /\ ToDo(v, b) = ToDo(w, b)
  BY RelinkRound
<1>5. ASSUME NEW p \in ToDo(w, b), v.left = w.left, ToDo(v, b) = ToDo(w, b) \ {p}
      PROVE  Togo(v, b) = Togo(w, b) - 1
  <2>1. Cardinality(ToDo(v, b)) = Cardinality(ToDo(w, b)) - 1
    BY <1>2, <1>5, FS_RemoveElement
  <2> QED
    BY <1>1, <1>3, <1>5, <2>1 DEF Togo
<1>6. ASSUME v.left = w.left - 1, ToDo(v, b) = ToDo(w, b)
      PROVE  Togo(v, b) = Togo(w, b) - 1
  BY <1>1, <1>3, <1>6 DEF Togo
<1>7. w.left = 0 /\ ToDo(w, b) = {} => Togo(w, b) = 0
  BY <1>3 DEF Togo
<1>8. Togo(w, b) \in Nat /\ (Togo(w, b) = 0 => w.left = 0 /\ ToDo(w, b) = {})
  BY <1>1, <1>3 DEF Togo
<1> QED
  BY <1>4, <1>5, <1>6, <1>7, <1>8

(* The loop starts with every chain to do. *)
Entering(n) == [left |-> size, rest |-> {}, new |-> EmptyBuckets(n)]

LEMMA RelinkStart ==
  ASSUME NEW b, NEW m \in Nat, GoodArray(b, m), m = size, NEW n \in Nat \ {0}
  PROVE  /\ Moved(Entering(n), b, m, n)
         /\ Togo(Entering(n), b) = m + Cardinality(Entries(b))
<1>1. PICK w : w = Entering(n)
  OBVIOUS
<1>2. w.left = m /\ w.rest = {} /\ w.new = EmptyBuckets(n) /\ w \in Moments(b, n)
  BY <1>1 DEF Entering, Moments, EmptyBuckets
<1>3. Below(b, m) = Entries(b)
  BY BelowFacts
<1>4. ToDo(w, b) = Entries(b)
  BY <1>2, <1>3 DEF ToDo
<1>5. \A i \in 0 .. n - 1 : w.new[i] = {}
  BY <1>2 DEF EmptyBuckets
<1>6. Moved(w, b, m, n)
  BY <1>2, <1>4, <1>5 DEF Moved
<1> QED
  BY <1>1, <1>2, <1>4, <1>6 DEF Togo

(* __hashtable_resize takes every node to the chain of its key. *)
LEMMA RehashMovesAll ==
  ASSUME NEW b, NEW m \in Nat, GoodArray(b, m), m = size, NEW n \in Nat \ {0}
  PROVE  Rehash(b, n) = [i \in 0 .. n - 1 |-> {e \in Entries(b) : Index(e.key, n) = i}]
<1>1. PICK L \in Nat : L = m + Cardinality(Entries(b))
  BY FS_CardinalityType DEF GoodArray
<1> DEFINE S == {w \in Moments(b, n) : Moved(w, b, m, n)}
<1>2. Entering(n) \in S /\ Togo(Entering(n), b) = L
  BY <1>1, RelinkStart DEF Moved
<1>3. PICK F : F = [q \in S \X Nat |-> Relink(q[1], b, n)]
  OBVIOUS
<1>4. ASSUME NEW w \in S PROVE Relink(w, b, n) \in S
  BY RelinkRound DEF Moved
<1>5. F \in [S \X Nat -> S]
  BY <1>3, <1>4
<1> HIDE DEF S
<1>6. PICK f \in [0 .. L -> S] : Steps(f, L, Entering(n), F)
  BY <1>2, <1>5, StepsExist
<1> DEFINE G(g) == [i \in 0 .. L |-> IF i = 0 THEN Entering(n) ELSE Relink(g[i - 1], b, n)]
<1>7. f = G(f)
  <2>1. f[0] = Entering(n)
    BY <1>6 DEF Steps
  <2>2. ASSUME NEW k \in 1 .. L PROVE f[k] = Relink(f[k - 1], b, n)
    <3>1. PICK i \in 0 .. L - 1 : i = k - 1 /\ i + 1 = k
      <4>1. k - 1 \in 0 .. L - 1 /\ (k - 1) + 1 = k
        OBVIOUS
      <4> QED
        BY <4>1
    <3>2. f[i + 1] = F[<<f[i], i>>]
      BY <1>6 DEF Steps
    <3>3. f[i] \in S /\ i \in Nat
      OBVIOUS
    <3>4. F[<<f[i], i>>] = Relink(f[i], b, n)
      BY <1>3, <3>3
    <3> QED
      BY <3>1, <3>2, <3>4
  <2>3. \A k \in 0 .. L : f[k] = IF k = 0 THEN Entering(n) ELSE Relink(f[k - 1], b, n)
    BY <2>1, <2>2
  <2> QED
    BY <2>3
<1>8. PICK g : g = CHOOSE x : x = G(x)
  OBVIOUS
<1>9. g = G(g)
  BY <1>7, <1>8
<1>10. Rehash(b, n) = g[L].new
  BY <1>1, <1>8 DEF Rehash, Entering
<1>11. g[0] = Entering(n) /\ \A i \in 1 .. L : g[i] = Relink(g[i - 1], b, n)
  <2>1. 0 \in 0 .. L /\ \A i \in 1 .. L : i \in 0 .. L /\ i # 0
    OBVIOUS
  <2> QED
    BY <1>9, <2>1
<1> HIDE DEF G
<1>12. ASSUME NEW k \in 0 .. L PROVE Moved(g[k], b, m, n) /\ Togo(g[k], b) = L - k
  <2> DEFINE Bad == {i \in 0 .. L : ~(Moved(g[i], b, m, n) /\ Togo(g[i], b) = L - i)}
  <2>1. SUFFICES ASSUME Bad # {} PROVE FALSE
    OBVIOUS
  <2>2. PICK i \in Bad : \A j \in Bad : i <= j
    <3>1. Bad \subseteq Nat
      OBVIOUS
    <3> HIDE DEF Bad
    <3> QED
      BY <2>1, <3>1, LeastNumber
  <2>3. i # 0
    <3>1. Moved(Entering(n), b, m, n)
      BY RelinkStart
    <3>2. L = L - 0
      OBVIOUS
    <3> QED
      BY <1>2, <1>11, <3>1, <3>2
  <2>4. PICK j \in 0 .. L - 1 : j = i - 1 /\ j + 1 = i /\ i \in 1 .. L
    <3>1. i - 1 \in 0 .. L - 1 /\ (i - 1) + 1 = i /\ i \in 1 .. L
      BY <2>3
    <3> QED
      BY <3>1
  <2>5. Moved(g[j], b, m, n) /\ Togo(g[j], b) = L - j
    <3>1. j \in 0 .. L /\ ~(i <= j)
      BY <2>4
    <3> QED
      BY <2>2, <3>1
  <2>6. g[i] = Relink(g[j], b, n)
    BY <1>11, <2>4
  <2>7. Moved(g[i], b, m, n)
    BY <2>5, <2>6, RelinkRound
  <2>8. Togo(g[j], b) > 0
    BY <2>5
  <2>9. Togo(g[i], b) = Togo(g[j], b) - 1
    BY <2>5, <2>6, <2>8, RelinkTogo
  <2>10. Togo(g[i], b) = L - i
    BY <2>4, <2>5, <2>9
  <2> QED
    BY <2>7, <2>10
<1>13. PICK w : w = g[L]
  OBVIOUS
<1>14. Moved(w, b, m, n) /\ Togo(w, b) = 0
  BY <1>12, <1>13
<1>15. ToDo(w, b) = {}
  BY <1>14, RelinkTogo
<1>16. w.new \in [0 .. n - 1 -> SUBSET Entries(b)]
  BY <1>14 DEF Moved, Moments
<1>17. \A i \in 0 .. n - 1 : w.new[i] = {e \in Entries(b) : Index(e.key, n) = i}
  BY <1>14, <1>15 DEF Moved
<1>18. w.new = [i \in 0 .. n - 1 |-> {e \in Entries(b) : Index(e.key, n) = i}]
  BY <1>16, <1>17
<1> QED
  BY <1>10, <1>13, <1>18

(* __hashtable_resize keeps the nodes and puts them where they are found. *)
LEMMA GoodRehash ==
  ASSUME NEW b, size \in Nat, GoodArray(b, size), NEW n \in Nat \ {0}
  PROVE  GoodArray(Rehash(b, n), n) /\ Entries(Rehash(b, n)) = Entries(b)
<1> DEFINE c == Rehash(b, n)
<1>1. DOMAIN c = 0 .. n - 1 /\ \A i \in 0 .. n - 1 : c[i] = {e \in Entries(b) : Index(e.key, n) = i}
  BY RehashMovesAll
<1>2. \A e \in Entries(b) : e.key \in Keys
  BY DEF GoodArray
<1>3. Entries(c) = Entries(b)
  <2>1. ASSUME NEW e \in Entries(b) PROVE e \in Entries(c)
    <3>1. Index(e.key, n) \in DOMAIN c
      BY <1>1, <1>2, IndexInRange
    <3>2. e \in c[Index(e.key, n)]
      BY <1>1, <3>1
    <3> HIDE DEF c
    <3> QED BY <3>1, <3>2 DEF Entries
  <2>2. ASSUME NEW e \in Entries(c) PROVE e \in Entries(b)
    <3> HIDE DEF c
    <3>1. PICK i \in DOMAIN c : e \in c[i]
      BY DEF Entries
    <3> QED BY <3>1, <1>1
  <2> QED BY <2>1, <2>2
<1>4. \A i \in DOMAIN c : \A e \in c[i] : i = Index(e.key, n)
  BY <1>1
<1> HIDE DEF c
<1>5. GoodArray(c, n)
  BY <1>1, <1>3, <1>4 DEF GoodArray
<1> QED BY <1>3, <1>5 DEF c

(* A new array is empty. *)
LEMMA GoodEmpty ==
  ASSUME NEW n \in Nat
  PROVE  GoodArray(EmptyBuckets(n), n) /\ Entries(EmptyBuckets(n)) = {}
<1>1. Entries(EmptyBuckets(n)) = {}
  BY DEF Entries, EmptyBuckets
<1>2. IsFiniteSet({})
  BY FS_EmptySet
<1> QED BY <1>1, <1>2 DEF GoodArray, EmptyBuckets

(* Lookup misses only keys that are not there. *)
LEMMA MissIsAbsent ==
  ASSUME NEW k \in Keys, GoodArray(bucket, size), size \in Nat \ {0},
         Found(k) = {}
  PROVE  \A e \in Entries(bucket) : e.key # k
<1> SUFFICES ASSUME NEW e \in Entries(bucket), e.key = k PROVE FALSE
  OBVIOUS
<1>1. PICK i \in DOMAIN bucket : e \in bucket[i]
  BY DEF Entries
<1>2. i = Index(k, size)
  BY <1>1 DEF GoodArray
<1> QED BY <1>1, <1>2 DEF Found

(* A node for a new key is linked. *)
LEMMA GoodLink ==
  ASSUME NEW b, NEW n \in Nat \ {0}, GoodArray(b, n), NEW k \in Keys, NEW v,
         \A e \in Entries(b) : e.key # k
  PROVE  /\ GoodArray(Linked(b, Index(k, n), Node(k, v)), n)
         /\ Entries(Linked(b, Index(k, n), Node(k, v))) = Entries(b) \cup {Node(k, v)}
         /\ Cardinality(Entries(Linked(b, Index(k, n), Node(k, v))))
              = Cardinality(Entries(b)) + 1
<1> DEFINE x == Node(k, v)
           c == Linked(b, Index(k, n), x)
<1>1. x.key = k /\ x = Node(x.key, x.value)
  BY DEF Node
<1>2. PICK i : i = Index(k, n)
  OBVIOUS
<1>3. i \in DOMAIN b
  BY <1>2, IndexInRange DEF GoodArray
<1>4. DOMAIN c = DOMAIN b /\ c[i] = b[i] \cup {x} /\ \A j \in DOMAIN b : j # i => c[j] = b[j]
  BY <1>2, <1>3 DEF Linked
<1>5. x \notin Entries(b)
  BY <1>1
<1> HIDE DEF x, c
<1>6. Entries(c) = Entries(b) \cup {x}
  BY <1>3, <1>4 DEF Entries
<1>7. IsFiniteSet(Entries(b))
  BY DEF GoodArray
<1>8. IsFiniteSet(Entries(c)) /\ Cardinality(Entries(c)) = Cardinality(Entries(b)) + 1
  BY <1>5, <1>6, <1>7, FS_AddElement
<1>9. \A e \in Entries(c) : e.key \in Keys /\ e = Node(e.key, e.value)
  BY <1>1, <1>6 DEF GoodArray
<1>10. \A j \in DOMAIN c : \A e \in c[j] : j = Index(e.key, n)
  BY <1>1, <1>2, <1>3, <1>4 DEF GoodArray
<1>11. \A e, f \in Entries(c) : e.key = f.key => e = f
  BY <1>1, <1>6 DEF GoodArray
<1>12. DOMAIN c = 0 .. n - 1
  BY <1>4 DEF GoodArray
<1> QED BY <1>6, <1>8, <1>9, <1>10, <1>11, <1>12 DEF GoodArray, x, c

(* A node is unlinked. *)
LEMMA GoodUnlink ==
  ASSUME NEW b, NEW n \in Nat \ {0}, GoodArray(b, n), NEW k \in Keys,
         NEW e \in b[Index(k, n)], e.key = k
  PROVE  /\ GoodArray(Unlinked(b, Index(k, n), e), n)
         /\ e \in Entries(b)
         /\ Entries(Unlinked(b, Index(k, n), e)) = Entries(b) \ {e}
         /\ \A f \in Entries(Unlinked(b, Index(k, n), e)) : f.key # k
         /\ Cardinality(Entries(Unlinked(b, Index(k, n), e)))
              = Cardinality(Entries(b)) - 1
<1> DEFINE c == Unlinked(b, Index(k, n), e)
<1>2. PICK i : i = Index(k, n)
  OBVIOUS
<1>3. i \in DOMAIN b
  BY <1>2, IndexInRange DEF GoodArray
<1>4. DOMAIN c = DOMAIN b /\ c[i] = b[i] \ {e} /\ \A j \in DOMAIN b : j # i => c[j] = b[j]
  BY <1>2, <1>3 DEF Unlinked
<1> HIDE DEF c
<1>5. e \in b[i] /\ e \in Entries(b)
  BY <1>2, <1>3 DEF Entries
<1>6. \A j \in DOMAIN b : e \in b[j] => j = i
  BY <1>2 DEF GoodArray
<1>7. Entries(c) = Entries(b) \ {e}
  BY <1>3, <1>4, <1>6 DEF Entries
<1>8. IsFiniteSet(Entries(b))
  BY DEF GoodArray
<1>9. IsFiniteSet(Entries(c)) /\ Cardinality(Entries(c)) = Cardinality(Entries(b)) - 1
  BY <1>5, <1>7, <1>8, FS_RemoveElement
<1>10. \A f \in Entries(c) : f.key # k
  BY <1>5, <1>7 DEF GoodArray
<1>11. \A j \in DOMAIN c : \A f \in c[j] : j = Index(f.key, n)
  BY <1>3, <1>4 DEF GoodArray
<1>12. DOMAIN c = 0 .. n - 1 /\ (\A f \in Entries(c) : f.key \in Keys /\ f = Node(f.key, f.value))
       /\ \A f, g \in Entries(c) : f.key = g.key => f = g
  BY <1>4, <1>7 DEF GoodArray
<1> QED BY <1>5, <1>7, <1>9, <1>10, <1>11, <1>12 DEF GoodArray, c

(* What a node carries is replaced: it is unlinked and another is linked. *)
LEMMA GoodRewrite ==
  ASSUME NEW b, NEW n \in Nat \ {0}, GoodArray(b, n), NEW k \in Keys, NEW v,
         NEW e \in b[Index(k, n)], e.key = k,
         NEW c, c = Linked(Unlinked(b, Index(k, n), e), Index(k, n), Node(k, v))
  PROVE  /\ GoodArray(c, n)
         /\ e \in Entries(b)
         /\ Entries(c) = (Entries(b) \ {e}) \cup {Node(k, v)}
         /\ Cardinality(Entries(c)) = Cardinality(Entries(b))
<1>1. PICK a : a = Unlinked(b, Index(k, n), e)
  OBVIOUS
<1>2. /\ GoodArray(a, n) /\ e \in Entries(b) /\ Entries(a) = Entries(b) \ {e}
      /\ \A f \in Entries(a) : f.key # k
      /\ Cardinality(Entries(a)) = Cardinality(Entries(b)) - 1
  BY <1>1, GoodUnlink
<1>3. /\ GoodArray(c, n) /\ Entries(c) = Entries(a) \cup {Node(k, v)}
      /\ Cardinality(Entries(c)) = Cardinality(Entries(a)) + 1
  BY <1>1, <1>2, GoodLink
<1>4. Cardinality(Entries(b)) \in Nat
  BY FS_CardinalityType DEF GoodArray
<1> QED BY <1>2, <1>3, <1>4

-----------------------------------------------------------------------------
(* BucketInv in terms of GoodArray. *)
LEMMA Unfold ==
  ASSUME BucketInv
  PROVE  /\ GoodArray(bucket, size)
         /\ phase = "live" => size \in Sizes /\ size \in Nat \ {0}
         /\ used = Cardinality(Entries(bucket)) /\ used \in Nat
         /\ pool \in 0 .. POOL_SIZE /\ pool_size = pool
         /\ nodes = used + pool
  BY HashAssumption DEF BucketInv, TypeOK, Findable, Counted, NoNodeLost, GoodArray

LEMMA Fold ==
  ASSUME phase' \in {"none", "live"},
         size' \in Nat, phase' = "live" => size' \in Sizes,
         GoodArray(bucket', size'),
         used' = Cardinality(Entries(bucket')),
         pool' \in 0 .. POOL_SIZE, pool_size' = pool',
         nodes' = used' + pool', phase' = "none" => nodes' = 0,
         ret'.value \in {0, -1, -2}
  PROVE  BucketInv'
<1>1. used' \in Nat
  BY FS_CardinalityType DEF GoodArray
<1>2. nodes' \in Nat
  BY <1>1, HashAssumption
<1>3. TypeOK'
  BY <1>1, <1>2 DEF TypeOK, GoodArray
<1>4. Findable' /\ Counted' /\ NoNodeLost'
  BY DEF Findable, Counted, NoNodeLost, GoodArray
<1> QED BY <1>3, <1>4 DEF BucketInv

(* No call. *)
LEMMA IdleStep == ASSUME BucketInv, UNCHANGED bucketVars PROVE BucketInv'
BY DEF bucketVars, BucketInv, TypeOK, Findable, Counted, NoNodeLost

(* A call that changes nothing. *)
LEMMA QuietStep ==
  ASSUME BucketInv,
         UNCHANGED <<phase, bucket, size, used, pool, pool_size, nodes>>,
         ret'.value \in {0, -1, -2}
  PROVE  BucketInv'
BY DEF BucketInv, TypeOK, Findable, Counted, NoNodeLost

LEMMA AllocStep ==
  ASSUME BucketInv, Alloc PROVE BucketInv'
<1>1. PICK p \in Sizes : bucket' = EmptyBuckets(p) /\ size' = p
  BY DEF Alloc
<1>2. p \in Nat
  BY HashAssumption
<1>3. GoodArray(bucket', size') /\ Entries(bucket') = {}
  BY <1>1, <1>2, GoodEmpty
<1>4. Cardinality({}) = 0
  BY FS_EmptySet
<1>5. nodes = 0
  BY DEF Alloc, BucketInv, NoNodeLost
<1>6. POOL_SIZE \in Nat
  BY HashAssumption
<1> QED BY <1>1, <1>2, <1>3, <1>4, <1>5, <1>6, Fold DEF Alloc, Returns

LEMMA RewriteStep ==
  ASSUME BucketInv, NEW call, NEW k \in Keys, NEW v, Rewrite(call, k, v)
  PROVE  BucketInv'
<1>1. /\ GoodArray(bucket, size) /\ size \in Sizes /\ size \in Nat \ {0}
      /\ used = Cardinality(Entries(bucket)) /\ nodes = used + pool
      /\ pool \in 0 .. POOL_SIZE /\ pool_size = pool
  BY Unfold DEF Rewrite
<1>2. PICK e \in Found(k) :
        bucket' = Linked(Unlinked(bucket, Index(k, size), e), Index(k, size), Node(k, v))
  BY DEF Rewrite
<1>3. e \in bucket[Index(k, size)] /\ e.key = k
  BY <1>2 DEF Found
<1>4. GoodArray(bucket', size) /\ Cardinality(Entries(bucket')) = Cardinality(Entries(bucket))
  BY <1>1, <1>2, <1>3, GoodRewrite
<1> QED BY <1>1, <1>4, Fold DEF Rewrite, Returns

(* The array a node is linked in is as good as the one before. *)
LEMMA GoodLinkArray ==
  ASSUME BucketInv, phase = "live", NEW n \in Sizes, LinkSize(n)
  PROVE  /\ n \in Nat \ {0}
         /\ GoodArray(LinkArray(n), n) /\ Entries(LinkArray(n)) = Entries(bucket)
<1>1. GoodArray(bucket, size) /\ size \in Nat /\ n \in Nat \ {0}
  BY Unfold, HashAssumption
<1>2. CASE Crowded
  BY <1>1, <1>2, GoodRehash DEF LinkArray
<1>3. CASE ~Crowded
  BY <1>1, <1>3 DEF LinkArray, LinkSize
<1> QED BY <1>2, <1>3

LEMMA LinkStep ==
  ASSUME BucketInv, NEW k \in Keys, NEW v, InsertLinks(k, v)
  PROVE  BucketInv'
<1>1. /\ phase = "live" /\ Found(k) = {} /\ NodeAlloc /\ used' = used + 1
      /\ phase' = "live" /\ ret'.value = 0
  BY DEF InsertLinks, Returns
<1>2. PICK n \in Sizes : /\ LinkSize(n) /\ size' = n
                         /\ bucket' = Linked(LinkArray(n), Index(k, n), Node(k, v))
  BY DEF InsertLinks, LinkIndex
<1>3. /\ n \in Nat \ {0} /\ GoodArray(LinkArray(n), n)
      /\ Entries(LinkArray(n)) = Entries(bucket)
  BY <1>1, <1>2, GoodLinkArray
<1>4. /\ GoodArray(bucket, size) /\ size \in Nat \ {0}
      /\ used = Cardinality(Entries(bucket)) /\ used \in Nat
      /\ nodes = used + pool /\ pool \in 0 .. POOL_SIZE /\ pool_size = pool
  BY <1>1, Unfold
<1>5. \A e \in Entries(LinkArray(n)) : e.key # k
  BY <1>1, <1>3, <1>4, MissIsAbsent
<1>6. /\ GoodArray(bucket', n)
      /\ Cardinality(Entries(bucket')) = Cardinality(Entries(bucket)) + 1
  BY <1>2, <1>3, <1>5, GoodLink
<1>7. /\ pool' \in 0 .. POOL_SIZE /\ pool_size' = pool'
      /\ nodes' = used' + pool'
  BY <1>1, <1>4, HashAssumption DEF NodeAlloc
<1> QED BY <1>1, <1>2, <1>3, <1>4, <1>6, <1>7, Fold

LEMMA NoNodeStep ==
  ASSUME BucketInv, NEW k \in Keys, InsertNoNode(k) PROVE BucketInv'
<1>1. /\ phase = "live" /\ phase' = "live" /\ ret'.value = -2
      /\ UNCHANGED <<used, pool, pool_size, nodes>>
  BY DEF InsertNoNode, Returns
<1>2. PICK n \in Sizes : LinkSize(n) /\ bucket' = LinkArray(n) /\ size' = n
  BY DEF InsertNoNode
<1>3. n \in Nat \ {0} /\ GoodArray(bucket', n) /\ Entries(bucket') = Entries(bucket)
  BY <1>1, <1>2, GoodLinkArray
<1>4. /\ used = Cardinality(Entries(bucket)) /\ nodes = used + pool
      /\ pool \in 0 .. POOL_SIZE /\ pool_size = pool
  BY Unfold
<1> QED BY <1>1, <1>2, <1>3, <1>4, Fold

(* Resizing or not, remove and clear leave the nodes of the array b. *)
LEMMA ResizeStep ==
  ASSUME NEW b, GoodArray(b, size), size \in Sizes, NEW test, NEW n,
         MayResize(test, b, n)
  PROVE  size' \in Sizes /\ GoodArray(bucket', size') /\ Entries(bucket') = Entries(b)
<1>1. CASE bucket' = b /\ size' = size
  BY <1>1
<1>2. CASE \E p \in Sizes : bucket' = Rehash(b, p) /\ size' = p
  BY <1>2, GoodRehash, HashAssumption
<1> QED BY <1>1, <1>2 DEF MayResize

(* Nodes given back go to the pool or to the allocator. *)
LEMMA NodesFreeStep ==
  ASSUME pool \in 0 .. POOL_SIZE, pool_size = pool, nodes \in Nat,
         NEW n \in Nat, NodesFree(n)
  PROVE  /\ pool' \in 0 .. POOL_SIZE /\ pool_size' = pool'
         /\ nodes' - pool' = nodes - pool - n
BY HashAssumption DEF NodesFree

LEMMA RemoveStep ==
  ASSUME BucketInv, NEW k \in Keys, RemoveNode(k) PROVE BucketInv'
<1>1. /\ phase = "live" /\ phase' = "live" /\ used' = used - 1 /\ ret'.value = 0
      /\ NodesFree(1)
  BY DEF RemoveNode, Returns
<1>2. /\ GoodArray(bucket, size) /\ size \in Sizes /\ size \in Nat \ {0}
      /\ used = Cardinality(Entries(bucket)) /\ used \in Nat /\ nodes = used + pool
      /\ pool \in 0 .. POOL_SIZE /\ pool_size = pool
  BY <1>1, Unfold
<1>3. PICK e \in Found(k) :
        MayResize(Sparse(used - 1), Unlinked(bucket, Index(k, size), e), size \div 2)
  BY DEF RemoveNode
<1>4. e \in bucket[Index(k, size)] /\ e.key = k
  BY <1>3 DEF Found
<1>5. PICK b : b = Unlinked(bucket, Index(k, size), e)
  OBVIOUS
<1>6. /\ GoodArray(b, size)
      /\ Cardinality(Entries(b)) = Cardinality(Entries(bucket)) - 1
  BY <1>2, <1>4, <1>5, GoodUnlink
<1>7. size' \in Sizes /\ GoodArray(bucket', size') /\ Entries(bucket') = Entries(b)
  BY <1>2, <1>3, <1>5, <1>6, ResizeStep
<1>8. /\ pool' \in 0 .. POOL_SIZE /\ pool_size' = pool'
      /\ nodes' - pool' = nodes - pool - 1
  BY <1>1, <1>2, NodesFreeStep, HashAssumption
<1>9. used' = Cardinality(Entries(bucket'))
  BY <1>1, <1>2, <1>6, <1>7
<1>10. nodes' = used' + pool'
  BY <1>1, <1>2, <1>8, HashAssumption DEF NodesFree
<1>11. size' \in Nat
  BY <1>7, HashAssumption
<1> QED BY <1>1, <1>7, <1>8, <1>9, <1>10, <1>11, Fold

LEMMA ClearStep ==
  ASSUME BucketInv, Clear PROVE BucketInv'
<1>1. /\ phase = "live" /\ phase' = "live" /\ used' = 0 /\ ret'.value = 0
      /\ NodesFree(Cardinality(Entries(bucket)))
      /\ MayResize(size > CLEAR_FROM, EmptyBuckets(size), size \div 8)
  BY DEF Clear, Returns
<1>2. /\ size \in Sizes /\ size \in Nat \ {0}
      /\ used = Cardinality(Entries(bucket)) /\ used \in Nat /\ nodes = used + pool
      /\ pool \in 0 .. POOL_SIZE /\ pool_size = pool
  BY <1>1, Unfold
<1>3. GoodArray(EmptyBuckets(size), size) /\ Entries(EmptyBuckets(size)) = {}
  BY <1>2, GoodEmpty
<1>4. size' \in Sizes /\ GoodArray(bucket', size') /\ Entries(bucket') = {}
  BY <1>1, <1>2, <1>3, ResizeStep
<1>5. NodesFree(used)
  BY <1>1, <1>2
<1>6. /\ pool' \in 0 .. POOL_SIZE /\ pool_size' = pool' /\ nodes' = pool'
  BY <1>2, <1>5, HashAssumption DEF NodesFree
<1>7. Cardinality(Entries(bucket')) = 0
  BY <1>4, FS_EmptySet
<1>8. size' \in Nat
  BY <1>4, HashAssumption
<1>9. POOL_SIZE \in Nat
  BY HashAssumption
<1>10. used' = 0
  BY DEF Clear
<1>11. \A x \in Int : x = 0 + x
  OBVIOUS
<1>12. pool' \in Int
  BY <1>6, <1>9
<1>13. nodes' = used' + pool'
  BY <1>6, <1>10, <1>11, <1>12, Zenon
<1> QED BY <1>1, <1>4, <1>6, <1>7, <1>8, <1>13, Fold

LEMMA FreeStep ==
  ASSUME BucketInv, Free PROVE BucketInv'
<1>1. used = Cardinality(Entries(bucket)) /\ used \in Nat /\ nodes = used + pool
      /\ pool \in 0 .. POOL_SIZE
  BY Unfold
<1>2. bucket' = EmptyBuckets(0) /\ size' = 0
  BY DEF Free, EmptyBuckets
<1>3. GoodArray(bucket', size') /\ Entries(bucket') = {}
  BY <1>2, GoodEmpty
<1>4. Cardinality({}) = 0
  BY FS_EmptySet
<1>5. nodes' = 0
  BY <1>1, HashAssumption DEF Free, Pooled
<1>6. POOL_SIZE \in Nat
  BY HashAssumption
<1> QED BY <1>2, <1>3, <1>4, <1>5, <1>6, Fold DEF Free, Returns

-----------------------------------------------------------------------------
(* Nothing is allocated before the first call. *)
LEMMA InitStep ==
  ASSUME BucketInit PROVE BucketInv
<1>1. bucket = EmptyBuckets(0) /\ size = 0
  BY DEF BucketInit, EmptyBuckets
<1>2. GoodArray(bucket, size) /\ Entries(bucket) = {}
  BY <1>1, GoodEmpty
<1>3. Cardinality({}) = 0
  BY FS_EmptySet
<1>4. POOL_SIZE \in Nat
  BY HashAssumption
<1>5. Findable
  BY <1>2 DEF Findable, GoodArray
<1>7. Counted
  BY <1>2, <1>3 DEF BucketInit, Counted
<1>8. NoNodeLost
  BY DEF BucketInit, NoNodeLost
<1>6. TypeOK
  BY <1>1, <1>2, <1>4 DEF BucketInit, TypeOK, GoodArray
<1> QED BY <1>5, <1>6, <1>7, <1>8 DEF BucketInv

(* The calls the three containers share. *)
LEMMA SharedSteps ==
  ASSUME BucketInv, NEW k \in Keys,
         \/ Alloc \/ AllocFails \/ Clear \/ Free
         \/ InsertNoArray(k) \/ InsertNoNode(k) \/ RemoveMisses(k)
         \/ RemoveNode(k)
  PROVE  BucketInv'
<1>1. CASE AllocFails
  BY <1>1, QuietStep DEF AllocFails, Returns
<1>2. CASE InsertNoArray(k)
  BY <1>2, QuietStep DEF InsertNoArray, Returns
<1>3. CASE RemoveMisses(k)
  BY <1>3, QuietStep DEF RemoveMisses, Returns
<1> QED BY <1>1, <1>2, <1>3, AllocStep, ClearStep, FreeStep, NoNodeStep, RemoveStep

(* The same without a key, for an empty set of keys too. *)
LEMMA KeylessSteps ==
  ASSUME BucketInv, Alloc \/ AllocFails \/ Clear \/ Free
  PROVE  BucketInv'
<1>1. CASE AllocFails
  BY <1>1, QuietStep DEF AllocFails, Returns
<1> QED BY <1>1, AllocStep, ClearStep, FreeStep

LEMMA TableStep == ASSUME BucketInv, HTNext PROVE BucketInv'
<1>1. CASE Alloc \/ AllocFails \/ ClearTable \/ FreeTable
  BY <1>1, KeylessSteps DEF ClearTable, FreeTable
<1>2. ASSUME NEW k \in Keys, RemoveKey(k) PROVE BucketInv'
  BY <1>2, SharedSteps DEF RemoveKey
<1>3. ASSUME NEW k \in Keys, NEW v \in Values, Insert(k, v) PROVE BucketInv'
  BY <1>3, SharedSteps, LinkStep, RewriteStep
     DEF Insert, InsertReplacesValue, InsertAdds, InsertFails
<1> QED BY <1>1, <1>2, <1>3 DEF HTNext

LEMMA BagStep == ASSUME BucketInv, BagNext PROVE BucketInv'
<1>1. CASE bag_alloc \/ bag_clear \/ bag_free
  BY <1>1, KeylessSteps DEF bag_alloc, bag_clear, bag_free
<1>2. ASSUME NEW k \in Keys, bag_insert(k) PROVE BucketInv'
  BY <1>2, SharedSteps, LinkStep, RewriteStep DEF bag_insert, bag_insert_again
<1>3. ASSUME NEW k \in Keys, bag_remove(k) PROVE BucketInv'
  BY <1>3, SharedSteps, RewriteStep DEF bag_remove, bag_remove_one
<1> QED BY <1>1, <1>2, <1>3 DEF BagNext

LEMMA SetStep == ASSUME BucketInv, SetNext PROVE BucketInv'
<1>1. CASE set_alloc \/ set_clear \/ set_free
  BY <1>1, KeylessSteps DEF set_alloc, set_clear, set_free
<1>2. ASSUME NEW k \in Keys, set_insert_again(k) PROVE BucketInv'
  BY <1>2, QuietStep DEF set_insert_again, Returns
<1>3. ASSUME NEW k \in Keys, set_insert(k) PROVE BucketInv'
  BY <1>2, <1>3, SharedSteps, LinkStep DEF set_insert
<1>4. ASSUME NEW k \in Keys, set_remove(k) PROVE BucketInv'
  BY <1>4, SharedSteps DEF set_remove
<1> QED BY <1>1, <1>3, <1>4 DEF SetNext

(* The nodes of a hash table are findable and counted: for every set of    *)
(* keys, hash function, array sizes and limits.                            *)
THEOREM HashTableCorrect == HTSpec => []BucketInv
<1>1. HTInit => BucketInv
  BY InitStep DEF HTInit
<1>2. BucketInv /\ [HTNext]_htVars => BucketInv'
  BY TableStep, IdleStep DEF htVars
<1> QED BY <1>1, <1>2, PTL DEF HTSpec

(* So are those of a bag, in which a node also counts occurrences. *)
THEOREM BagCorrect == BagSpec => []BucketInv
<1>1. BucketInit => BucketInv
  BY InitStep
<1>2. BucketInv /\ [BagNext]_bucketVars => BucketInv'
  BY BagStep, IdleStep
<1> QED BY <1>1, <1>2, PTL DEF BagSpec

(* And those of a set. *)
THEOREM SetCorrect == SetSpec => []BucketInv
<1>1. BucketInit => BucketInv
  BY InitStep
<1>2. BucketInv /\ [SetNext]_bucketVars => BucketInv'
  BY SetStep, IdleStep
<1> QED BY <1>1, <1>2, PTL DEF SetSpec

(* The parts of the invariant that the runs check. *)
THEOREM TableFindable == HTSpec => [](Findable /\ Counted)
<1>1. BucketInv => Findable /\ Counted
  BY DEF BucketInv
<1> QED BY <1>1, HashTableCorrect, PTL

THEOREM SetLosesNoNode == SetSpec => []NoNodeLost
<1>1. BucketInv => NoNodeLost
  BY DEF BucketInv
<1> QED BY <1>1, SetCorrect, PTL

-----------------------------------------------------------------------------
(* Stored as a function of the nodes. *)
Pairs(E) == {<<e.key, e.value>> : e \in E}

LEMMA PairsAdd ==
  ASSUME NEW E, NEW k, NEW v
  PROVE  Pairs(E \cup {Node(k, v)}) = Pairs(E) \cup {<<k, v>>}
<1>1. PICK x : x = Node(k, v)
  OBVIOUS
<1>2. x.key = k /\ x.value = v
  BY <1>1 DEF Node
<1>3. Pairs(E \cup {x}) = Pairs(E) \cup {<<x.key, x.value>>}
  BY DEF Pairs
<1> QED BY <1>1, <1>2, <1>3

(* A key that is found has one node, and the pair names it. *)
LEMMA OneNode ==
  ASSUME BucketInv, phase = "live", NEW k \in Keys, NEW e \in Found(k)
  PROVE  /\ Found(k) = {e} /\ e.key = k /\ e \in Entries(bucket)
         /\ e \in bucket[Index(k, size)]
         /\ Pairs(Entries(bucket) \ {e}) = Pairs(Entries(bucket)) \ {<<k, e.value>>}
<1>1. GoodArray(bucket, size) /\ size \in Nat \ {0}
  BY Unfold
<1>2. Index(k, size) \in DOMAIN bucket
  BY <1>1, IndexInRange DEF GoodArray
<1>3. \A f \in Found(k) : f \in Entries(bucket) /\ f.key = k
  BY <1>2 DEF Found, Entries
<1>4. Found(k) = {e}
  BY <1>1, <1>3 DEF GoodArray
<1>5. \A f \in Entries(bucket) : f.key = k => f = e
  BY <1>1, <1>3 DEF GoodArray
<1>6. Pairs(Entries(bucket) \ {e}) = Pairs(Entries(bucket)) \ {<<k, e.value>>}
  BY <1>3, <1>5 DEF Pairs
<1> QED BY <1>3, <1>4, <1>6 DEF Found

(* What a call does to the nodes, the array in which they are left aside.  *)

LEMMA LinkEffect ==
  ASSUME BucketInv, NEW k \in Keys, NEW v, InsertLinks(k, v)
  PROVE  /\ Entries(bucket') = Entries(bucket) \cup {Node(k, v)}
         /\ \A e \in Entries(bucket) : e.key # k
<1>1. phase = "live" /\ Found(k) = {}
  BY DEF InsertLinks
<1>2. PICK n \in Sizes : /\ LinkSize(n)
                         /\ bucket' = Linked(LinkArray(n), Index(k, n), Node(k, v))
  BY DEF InsertLinks, LinkIndex
<1>3. /\ n \in Nat \ {0} /\ GoodArray(LinkArray(n), n)
      /\ Entries(LinkArray(n)) = Entries(bucket)
  BY <1>1, <1>2, GoodLinkArray
<1>4. GoodArray(bucket, size) /\ size \in Nat \ {0}
  BY <1>1, Unfold
<1>5. \A e \in Entries(bucket) : e.key # k
  BY <1>1, <1>4, MissIsAbsent
<1>6. Entries(bucket') = Entries(bucket) \cup {Node(k, v)}
  BY <1>2, <1>3, <1>5, GoodLink
<1> QED BY <1>5, <1>6

LEMMA RewriteEffect ==
  ASSUME BucketInv, NEW call, NEW k \in Keys, NEW v, Rewrite(call, k, v),
         NEW e \in Found(k)
  PROVE  /\ e \in Entries(bucket) /\ e.key = k
         /\ Entries(bucket') = (Entries(bucket) \ {e}) \cup {Node(k, v)}
<1>1. phase = "live" /\ GoodArray(bucket, size) /\ size \in Nat \ {0}
  BY Unfold DEF Rewrite
<1>2. PICK f \in Found(k) :
        bucket' = Linked(Unlinked(bucket, Index(k, size), f), Index(k, size), Node(k, v))
  BY DEF Rewrite
<1>3. /\ Found(k) = {e} /\ e \in Entries(bucket) /\ e.key = k
      /\ e \in bucket[Index(k, size)]
  BY <1>1, OneNode
<1> QED BY <1>1, <1>2, <1>3, GoodRewrite

LEMMA RemoveEffect ==
  ASSUME BucketInv, NEW k \in Keys, RemoveNode(k), NEW e \in Found(k)
  PROVE  /\ e \in Entries(bucket) /\ e.key = k
         /\ Entries(bucket') = Entries(bucket) \ {e}
<1>1. phase = "live" /\ GoodArray(bucket, size) /\ size \in Sizes /\ size \in Nat \ {0}
  BY Unfold DEF RemoveNode
<1>2. PICK f \in Found(k) :
        MayResize(Sparse(used - 1), Unlinked(bucket, Index(k, size), f), size \div 2)
  BY DEF RemoveNode
<1>3. /\ Found(k) = {e} /\ e \in Entries(bucket) /\ e.key = k
      /\ e \in bucket[Index(k, size)]
  BY <1>1, OneNode
<1>4. PICK b : b = Unlinked(bucket, Index(k, size), e)
  OBVIOUS
<1>5. GoodArray(b, size) /\ Entries(b) = Entries(bucket) \ {e}
  BY <1>1, <1>3, <1>4, GoodUnlink
<1>6. Entries(bucket') = Entries(b)
  BY <1>1, <1>2, <1>3, <1>4, <1>5, ResizeStep
<1> QED BY <1>3, <1>5, <1>6

LEMMA NoNodeEffect ==
  ASSUME BucketInv, NEW k \in Keys,
         InsertNoNode(k) \/ InsertNoArray(k) \/ RemoveMisses(k)
  PROVE  /\ Entries(bucket') = Entries(bucket)
         /\ \A e \in Entries(bucket) : e.key # k
<1>1. phase = "live" /\ Found(k) = {}
  BY DEF InsertNoNode, InsertNoArray, RemoveMisses
<1>2. GoodArray(bucket, size) /\ size \in Nat \ {0}
  BY <1>1, Unfold
<1>3. \A e \in Entries(bucket) : e.key # k
  BY <1>1, <1>2, MissIsAbsent
<1>4. CASE InsertNoNode(k)
  <2>1. PICK n \in Sizes : LinkSize(n) /\ bucket' = LinkArray(n)
    BY <1>4 DEF InsertNoNode
  <2> QED BY <1>1, <1>3, <2>1, GoodLinkArray
<1>5. CASE InsertNoArray(k) \/ RemoveMisses(k)
  BY <1>3, <1>5 DEF InsertNoArray, RemoveMisses
<1> QED BY <1>4, <1>5

LEMMA ResetEffect ==
  ASSUME BucketInv, Clear \/ Free
  PROVE  Entries(bucket') = {}
<1>1. CASE Clear
  <2>1. /\ MayResize(size > CLEAR_FROM, EmptyBuckets(size), size \div 8)
        /\ size \in Sizes /\ size \in Nat \ {0}
    BY <1>1, Unfold DEF Clear
  <2>2. GoodArray(EmptyBuckets(size), size) /\ Entries(EmptyBuckets(size)) = {}
    BY <2>1, GoodEmpty
  <2> QED BY <2>1, <2>2, ResizeStep
<1>2. CASE Free
  BY <1>2 DEF Free, Entries
<1> QED BY <1>1, <1>2

LEMMA AllocEffect ==
  ASSUME BucketInv, Alloc \/ AllocFails
  PROVE  Entries(bucket) = {} /\ Entries(bucket') = {}
<1>1. /\ used = Cardinality(Entries(bucket)) /\ used \in Nat /\ pool \in Nat
      /\ nodes = used + pool /\ nodes = 0 /\ IsFiniteSet(Entries(bucket))
  BY HashAssumption DEF Alloc, AllocFails, BucketInv, TypeOK, Counted, NoNodeLost
<1>2. Cardinality(Entries(bucket)) = 0
  BY <1>1
<1>3. Entries(bucket) = {}
  BY <1>1, <1>2, FS_EmptySet
<1>4. CASE Alloc
  <2>1. PICK p \in Sizes : bucket' = EmptyBuckets(p)
    BY <1>4 DEF Alloc
  <2>2. p \in Nat
    BY HashAssumption
  <2> QED BY <1>3, <2>1, <2>2, GoodEmpty
<1>5. CASE AllocFails
  BY <1>3, <1>5 DEF AllocFails
<1> QED BY <1>4, <1>5

-----------------------------------------------------------------------------
(* The values a hash table owns. *)

LEMMA OwnsRemove ==
  ASSUME BucketInv, OwnsWhatItStores, NEW k \in Keys, RemoveKey(k)
  PROVE  OwnsWhatItStores'
<1>0. Stored = Pairs(Entries(bucket)) /\ Stored' = Pairs(Entries(bucket'))
  BY DEF Stored, Pairs
<1>1. CASE RemoveMisses(k) /\ UNCHANGED owned
  BY <1>0, <1>1, NoNodeEffect DEF OwnsWhatItStores
<1>2. CASE RemoveNode(k) /\ owned' = owned \ {<<k, e.value>> : e \in Found(k)}
  <2>1. PICK e \in Found(k) : phase = "live"
    BY <1>2 DEF RemoveNode
  <2>2. /\ Found(k) = {e}
        /\ Pairs(Entries(bucket) \ {e}) = Pairs(Entries(bucket)) \ {<<k, e.value>>}
    BY <2>1, OneNode
  <2>3. Entries(bucket') = Entries(bucket) \ {e}
    BY <1>2, RemoveEffect
  <2>4. owned' = owned \ {<<k, e.value>>}
    BY <1>2, <2>2
  <2> QED BY <1>0, <2>2, <2>3, <2>4 DEF OwnsWhatItStores
<1> QED BY <1>1, <1>2 DEF RemoveKey

LEMMA OwnsInsert ==
  ASSUME BucketInv, OwnsWhatItStores, NEW k \in Keys, NEW v \in Values, Insert(k, v)
  PROVE  OwnsWhatItStores'
<1>0. Stored = Pairs(Entries(bucket)) /\ Stored' = Pairs(Entries(bucket'))
  BY DEF Stored, Pairs
<1>1. CASE InsertReplacesValue(k, v)
  <2>1. PICK e \in Found(k) : phase = "live" /\ Rewrite("insert", k, v)
    BY <1>1 DEF InsertReplacesValue, Rewrite
  <2>2. /\ Found(k) = {e} /\ e.key = k /\ e \in Entries(bucket)
        /\ Pairs(Entries(bucket) \ {e}) = Pairs(Entries(bucket)) \ {<<k, e.value>>}
    BY <2>1, OneNode
  <2>3. Entries(bucket') = (Entries(bucket) \ {e}) \cup {Node(k, v)}
    BY <2>1, RewriteEffect
  <2>4. Pairs(Entries(bucket')) = Pairs(Entries(bucket) \ {e}) \cup {<<k, v>>}
    BY <2>3, PairsAdd
  <2>5. FreedByReplace(k, v) = IF e.value # v THEN {<<k, e.value>>} ELSE {}
    BY <2>2 DEF FreedByReplace
  <2>6. owned' = (owned \cup {<<k, v>>}) \ FreedByReplace(k, v)
    BY <1>1 DEF InsertReplacesValue
  <2>7. <<k, e.value>> \in Pairs(Entries(bucket))
    BY <2>2 DEF Pairs
  <2>8. CASE e.value = v
    BY <1>0, <2>2, <2>4, <2>5, <2>6, <2>7, <2>8 DEF OwnsWhatItStores
  <2>9. CASE e.value # v
    BY <1>0, <2>2, <2>4, <2>5, <2>6, <2>7, <2>9 DEF OwnsWhatItStores
  <2> QED BY <2>8, <2>9
<1>2. CASE InsertAdds(k, v)
  <2>1. Entries(bucket') = Entries(bucket) \cup {Node(k, v)}
    BY <1>2, LinkEffect DEF InsertAdds
  <2>2. Pairs(Entries(bucket')) = Pairs(Entries(bucket)) \cup {<<k, v>>}
    BY <2>1, PairsAdd
  <2> QED BY <1>0, <1>2, <2>2 DEF InsertAdds, OwnsWhatItStores
<1>3. CASE InsertFails(k)
  BY <1>0, <1>3, NoNodeEffect DEF InsertFails, OwnsWhatItStores
<1> QED BY <1>1, <1>2, <1>3 DEF Insert

LEMMA OwnsReset ==
  ASSUME BucketInv, OwnsWhatItStores, ClearTable \/ FreeTable
  PROVE  OwnsWhatItStores'
<1>1. owned' = {}
  BY DEF ClearTable, FreeTable, OwnsWhatItStores
<1>2. Entries(bucket') = {}
  BY ResetEffect DEF ClearTable, FreeTable
<1> QED BY <1>1, <1>2 DEF OwnsWhatItStores, Stored

LEMMA OwnsStep ==
  ASSUME BucketInv, OwnsWhatItStores, HTNext
  PROVE  OwnsWhatItStores'
<1>1. CASE (Alloc \/ AllocFails) /\ UNCHANGED owned
  BY <1>1, AllocEffect DEF OwnsWhatItStores, Stored
<1>2. CASE ClearTable \/ FreeTable
  BY <1>2, OwnsReset
<1>3. ASSUME NEW k \in Keys, RemoveKey(k) PROVE OwnsWhatItStores'
  BY <1>3, OwnsRemove
<1>4. ASSUME NEW k \in Keys, NEW v \in Values, Insert(k, v) PROVE OwnsWhatItStores'
  BY <1>4, OwnsInsert
<1> QED BY <1>1, <1>2, <1>3, <1>4 DEF HTNext

(* value_free_func is called once for every value that leaves the table    *)
(* and never for one that stays.                                           *)
THEOREM OwnershipOfValues == HTSpec => []OwnsWhatItStores
<1>1. HTInit => OwnsWhatItStores
  BY DEF HTInit, BucketInit, OwnsWhatItStores, Stored, Entries
<1>2. BucketInv /\ OwnsWhatItStores /\ [HTNext]_htVars => OwnsWhatItStores'
  <2>1. OwnsWhatItStores /\ UNCHANGED htVars => OwnsWhatItStores'
    BY DEF htVars, bucketVars, OwnsWhatItStores, Stored
  <2> QED BY <2>1, OwnsStep
<1> QED BY <1>1, <1>2, HashTableCorrect, PTL DEF HTSpec

-----------------------------------------------------------------------------
(* The map, the multiset and the set that a set of nodes stands for.       *)

UniqueKeys(E) == \A e, f \in E : e.key = f.key => e = f
KeysIn(E)     == {e.key : e \in E}
MapOf(E)      == [k \in KeysIn(E) |-> (CHOOSE e \in E : e.key = k).value]

LEMMA MapOfValue ==
  ASSUME NEW E, UniqueKeys(E), NEW e \in E
  PROVE  e.key \in KeysIn(E) /\ MapOf(E)[e.key] = e.value
<1>1. (CHOOSE f \in E : f.key = e.key) = e
  BY DEF UniqueKeys
<1>2. e.key \in KeysIn(E)
  BY DEF KeysIn
<1> QED BY <1>1, <1>2 DEF MapOf

(* A map is known from its keys and its values. *)
LEMMA MapOfIs ==
  ASSUME NEW E, UniqueKeys(E),
         NEW F, F = [k \in KeysIn(E) |-> F[k]],
         \A e \in E : F[e.key] = e.value
  PROVE  MapOf(E) = F
<1>1. ASSUME NEW k \in KeysIn(E) PROVE MapOf(E)[k] = F[k]
  <2>1. PICK e \in E : e.key = k
    BY DEF KeysIn
  <2> QED BY <2>1, MapOfValue
<1> QED BY <1>1 DEF MapOf

LEMMA MapOfEmpty == MapOf({}) = <<>> /\ KeysIn({}) = {}
<1>1. KeysIn({}) = {}
  BY DEF KeysIn
<1>2. MapOf({}) = <<>>
  BY <1>1 DEF MapOf
<1> QED BY <1>1, <1>2

(* The nodes after a value was stored for k. *)
StoredIn(E, k, v) == {e \in E : e.key # k} \cup {Node(k, v)}

LEMMA MapOfStored ==
  ASSUME NEW E, UniqueKeys(E), NEW k, NEW v
  PROVE  /\ UniqueKeys(StoredIn(E, k, v))
         /\ KeysIn(StoredIn(E, k, v)) = KeysIn(E) \cup {k}
         /\ \A j \in KeysIn(E) \cup {k} :
              MapOf(StoredIn(E, k, v))[j] = IF j = k THEN v ELSE MapOf(E)[j]
<1>1. PICK x : x = Node(k, v)
  OBVIOUS
<1>2. x.key = k /\ x.value = v
  BY <1>1 DEF Node
<1>3. PICK H : H = StoredIn(E, k, v)
  OBVIOUS
<1>4. H = {e \in E : e.key # k} \cup {x}
  BY <1>1, <1>3 DEF StoredIn
<1>5. UniqueKeys(H)
  BY <1>2, <1>4 DEF UniqueKeys
<1>6. KeysIn(H) = KeysIn(E) \cup {k}
  BY <1>2, <1>4 DEF KeysIn
<1>7. PICK F : F = [j \in KeysIn(E) \cup {k} |-> IF j = k THEN v ELSE MapOf(E)[j]]
  OBVIOUS
<1>8. \A e \in H : F[e.key] = e.value
  <2> SUFFICES ASSUME NEW e \in H PROVE F[e.key] = e.value
    OBVIOUS
  <2>1. CASE e = x
    BY <1>2, <1>7, <2>1
  <2>2. CASE e # x
    <3>1. e \in E /\ e.key # k
      BY <1>4, <2>2
    <3> QED BY <1>7, <3>1, MapOfValue
  <2> QED BY <2>1, <2>2
<1>9. MapOf(H) = F
  BY <1>5, <1>6, <1>7, <1>8, MapOfIs
<1> QED BY <1>3, <1>5, <1>6, <1>7, <1>9

(* The nodes after the one of k was taken out. *)
LEMMA MapOfWithout ==
  ASSUME NEW E, UniqueKeys(E), NEW e \in E
  PROVE  /\ UniqueKeys(E \ {e})
         /\ KeysIn(E \ {e}) = KeysIn(E) \ {e.key}
         /\ MapOf(E \ {e}) = [j \in KeysIn(E) \ {e.key} |-> MapOf(E)[j]]
<1>1. PICK H : H = E \ {e}
  OBVIOUS
<1>2. UniqueKeys(H)
  BY <1>1 DEF UniqueKeys
<1>3. KeysIn(H) = KeysIn(E) \ {e.key}
  BY <1>1 DEF KeysIn, UniqueKeys
<1>4. PICK F : F = [j \in KeysIn(E) \ {e.key} |-> MapOf(E)[j]]
  OBVIOUS
<1>5. \A f \in H : F[f.key] = f.value
  <2> SUFFICES ASSUME NEW f \in H PROVE F[f.key] = f.value
    OBVIOUS
  <2>1. f \in E /\ f.key # e.key
    BY <1>1 DEF UniqueKeys
  <2> QED BY <1>4, <2>1, MapOfValue
<1>6. MapOf(H) = F
  BY <1>2, <1>3, <1>4, <1>5, MapOfIs
<1> QED BY <1>1, <1>2, <1>3, <1>4, <1>6

(* Insert, in both its forms, leaves the stored nodes. *)
LEMMA InsertStores ==
  ASSUME BucketInv, NEW call, NEW k \in Keys, NEW v,
         InsertLinks(k, v) \/ Rewrite(call, k, v)
  PROVE  Entries(bucket') = StoredIn(Entries(bucket), k, v)
<1>1. CASE InsertLinks(k, v)
  BY <1>1, LinkEffect DEF StoredIn
<1>2. CASE Rewrite(call, k, v)
  <2>1. PICK e \in Found(k) : TRUE
    BY <1>2 DEF Rewrite
  <2>2. /\ e \in Entries(bucket) /\ e.key = k
        /\ Entries(bucket') = (Entries(bucket) \ {e}) \cup {Node(k, v)}
    BY <1>2, RewriteEffect
  <2>3. \A f \in Entries(bucket) : f.key = k => f = e
    BY <2>2 DEF BucketInv, Findable
  <2> QED BY <2>2, <2>3 DEF StoredIn
<1> QED BY <1>1, <1>2

LEMMA KeysAreUnique ==
  ASSUME BucketInv
  PROVE  UniqueKeys(Entries(bucket)) /\ KeysIn(Entries(bucket)) \subseteq Keys
BY DEF BucketInv, Findable, TypeOK, UniqueKeys, KeysIn

-----------------------------------------------------------------------------
(* A hash table implements a map. *)

LEMMA AsMapIs ==
  /\ AsMap = MapOf(Entries(bucket)) /\ AsMap' = MapOf(Entries(bucket'))
  /\ DOMAIN AsMap = KeysIn(Entries(bucket))
BY DEF AsMap, MapOf, KeysOf, KeysIn, Entries

LEMMA TableInsertMaps ==
  ASSUME BucketInv, kind = "table", kind' = kind,
         NEW k \in Keys, NEW v \in Values, Insert(k, v)
  PROVE  TableMap!MapNext
<1>1. UniqueKeys(Entries(bucket))
  BY KeysAreUnique
<1>2. CASE InsertLinks(k, v) \/ Rewrite("insert", k, v)
  <2>1. PICK E, H : E = Entries(bucket) /\ H = StoredIn(E, k, v)
    OBVIOUS
  <2>2. /\ KeysIn(H) = KeysIn(E) \cup {k}
        /\ \A j \in KeysIn(H) : MapOf(H)[j] = IF j = k THEN v ELSE MapOf(E)[j]
    BY <1>1, <2>1, MapOfStored
  <2>3. Entries(bucket') = H
    BY <1>2, <2>1, InsertStores
  <2>4. AsMap' = [j \in DOMAIN AsMap \cup {k} |-> IF j = k THEN v ELSE AsMap[j]]
    <3>1. /\ MapOf(H) = [j \in KeysIn(H) |-> MapOf(H)[j]]
          /\ AsMap = MapOf(E) /\ AsMap' = MapOf(H) /\ DOMAIN AsMap = KeysIn(E)
      BY <2>1, <2>3, AsMapIs DEF MapOf
    <3> QED BY <2>2, <3>1
  <2>5. ret' = [call |-> "insert", value |-> 0]
    BY <1>2 DEF InsertLinks, Rewrite, Returns
  <2>6. TableMap!Put(k, v)
    BY <2>4, <2>5 DEF TableMap!Put, TableMap!Answers, Seen, AnswerOf
  <2> QED BY <2>6 DEF TableMap!MapNext
<1>3. CASE InsertNoArray(k) \/ InsertNoNode(k)
  <2>1. Entries(bucket') = Entries(bucket) /\ k \notin DOMAIN AsMap
    BY <1>3, NoNodeEffect, AsMapIs DEF KeysIn
  <2>2. AsMap' = AsMap
    BY <2>1, AsMapIs
  <2>3. \/ ret' = [call |-> "insert", value |-> -1]
        \/ ret' = [call |-> "insert", value |-> -2]
    BY <1>3 DEF InsertNoArray, InsertNoNode, Returns
  <2>4. TableMap!PutFails /\ Seen("table", AsMap, <<>>)' = Seen("table", AsMap, <<>>)
    BY <2>1, <2>2, <2>3 DEF TableMap!PutFails, TableMap!Answers, Seen, AnswerOf
  <2> QED BY <2>4 DEF TableMap!MapNext
<1> QED BY <1>2, <1>3 DEF Insert, InsertReplacesValue, InsertAdds, InsertFails

LEMMA TableRemoveMaps ==
  ASSUME BucketInv, kind = "table", kind' = kind, NEW k \in Keys, RemoveKey(k)
  PROVE  TableMap!MapNext
<1>1. UniqueKeys(Entries(bucket))
  BY KeysAreUnique
<1>2. CASE RemoveNode(k)
  <2>1. PICK e \in Found(k) : TRUE
    BY <1>2 DEF RemoveNode
  <2>2. e \in Entries(bucket) /\ e.key = k /\ Entries(bucket') = Entries(bucket) \ {e}
    BY <1>2, RemoveEffect
  <2>3. MapOf(Entries(bucket) \ {e})
          = [j \in KeysIn(Entries(bucket)) \ {k} |-> MapOf(Entries(bucket))[j]]
    BY <1>1, <2>2, MapOfWithout
  <2>4. AsMap' = [j \in DOMAIN AsMap \ {k} |-> AsMap[j]]
    BY <2>2, <2>3, AsMapIs
  <2>5. k \in DOMAIN AsMap
    BY <2>2, AsMapIs DEF KeysIn
  <2>6. ret' = [call |-> "remove", value |-> 0]
    BY <1>2 DEF RemoveNode, Returns
  <2>7. TableMap!Delete(k)
    BY <2>4, <2>5, <2>6 DEF TableMap!Delete, TableMap!Answers, Seen, AnswerOf
  <2> QED BY <2>7 DEF TableMap!MapNext
<1>3. CASE RemoveMisses(k)
  <2>1. Entries(bucket') = Entries(bucket) /\ k \notin DOMAIN AsMap
    BY <1>3, NoNodeEffect, AsMapIs DEF KeysIn
  <2>2. AsMap' = AsMap
    BY <2>1, AsMapIs
  <2>3. ret' = [call |-> "remove", value |-> -1]
    BY <1>3 DEF RemoveMisses, Returns
  <2>4. TableMap!DeleteFails /\ Seen("table", AsMap, <<>>)' = Seen("table", AsMap, <<>>)
    BY <2>1, <2>2, <2>3 DEF TableMap!DeleteFails, TableMap!Answers, Seen, AnswerOf
  <2> QED BY <2>4 DEF TableMap!MapNext
<1> QED BY <1>2, <1>3 DEF RemoveKey

LEMMA TableMaps ==
  ASSUME BucketInv, kind = "table", kind' = kind, HTNext
  PROVE  TableMap!MapNext
<1>1. CASE Alloc \/ AllocFails
  <2>1. AsMap = <<>> /\ AsMap' = <<>>
    BY <1>1, AllocEffect, AsMapIs, MapOfEmpty
  <2>2. \/ ret' = [call |-> "alloc", value |-> 0]
        \/ ret' = [call |-> "alloc", value |-> -1]
    BY <1>1 DEF Alloc, AllocFails, Returns
  <2>3. TableMap!Open /\ Seen("table", AsMap, <<>>)' = Seen("table", AsMap, <<>>)
    BY <2>1, <2>2 DEF TableMap!Open, TableMap!Answers, Seen, AnswerOf
  <2> QED BY <2>3 DEF TableMap!MapNext
<1>2. CASE Clear \/ Free
  <2>1. AsMap' = <<>>
    BY <1>2, ResetEffect, AsMapIs, MapOfEmpty
  <2>2. \/ ret' = [call |-> "clear", value |-> 0]
        \/ ret' = [call |-> "free", value |-> 0]
    BY <1>2 DEF Clear, Free, Returns
  <2>3. TableMap!Reset
    BY <2>1, <2>2 DEF TableMap!Reset, TableMap!Answers, Seen, AnswerOf
  <2> QED BY <2>3 DEF TableMap!MapNext
<1> QED BY <1>1, <1>2, TableRemoveMaps, TableInsertMaps DEF HTNext, ClearTable, FreeTable

-----------------------------------------------------------------------------
(* A set implements a map without values. *)

LEMMA AsKeyMapIs ==
  /\ AsKeyMap = [k \in KeysIn(Entries(bucket)) |-> NOTHING]
  /\ AsKeyMap' = [k \in KeysIn(Entries(bucket')) |-> NOTHING]
BY DEF AsKeyMap, KeysOf, KeysIn, Entries, NOTHING

LEMMA SetInsertMaps ==
  ASSUME BucketInv, kind = "set", kind' = kind, NEW k \in Keys, set_insert(k)
  PROVE  SetMap!MapNext
<1>1. UniqueKeys(Entries(bucket))
  BY KeysAreUnique
<1>2. CASE InsertLinks(k, NOTHING) \/ set_insert_again(k)
  <2>1. KeysIn(Entries(bucket')) = KeysIn(Entries(bucket)) \cup {k}
    <3>1. CASE InsertLinks(k, NOTHING)
      <4>1. KeysIn(StoredIn(Entries(bucket), k, NOTHING)) = KeysIn(Entries(bucket)) \cup {k}
        BY <1>1, MapOfStored
      <4> QED BY <3>1, <4>1, InsertStores
    <3>2. CASE set_insert_again(k)
      <4>1. phase = "live" /\ Found(k) # {} /\ bucket' = bucket
        BY <3>2 DEF set_insert_again
      <4>2. PICK e \in Found(k) : TRUE
        BY <4>1
      <4>3. e \in Entries(bucket) /\ e.key = k
        BY <4>1, OneNode
      <4> QED BY <4>1, <4>3 DEF KeysIn
    <3> QED BY <1>2, <3>1, <3>2
  <2>2. AsKeyMap' = [j \in DOMAIN AsKeyMap \cup {k} |-> IF j = k THEN NOTHING ELSE AsKeyMap[j]]
    BY <2>1, AsKeyMapIs
  <2>3. ret' = [call |-> "insert", value |-> 0]
    BY <1>2 DEF InsertLinks, set_insert_again, Returns
  <2>4. SetMap!Put(k, NOTHING)
    BY <2>2, <2>3 DEF SetMap!Put, SetMap!Answers, Seen, AnswerOf
  <2> QED BY <2>4 DEF SetMap!MapNext
<1>3. CASE InsertNoArray(k) \/ InsertNoNode(k)
  <2>1. Entries(bucket') = Entries(bucket) /\ k \notin DOMAIN AsKeyMap
    BY <1>3, NoNodeEffect, AsKeyMapIs DEF KeysIn
  <2>2. AsKeyMap' = AsKeyMap
    BY <2>1, AsKeyMapIs
  <2>3. \/ ret' = [call |-> "insert", value |-> -1]
        \/ ret' = [call |-> "insert", value |-> -2]
    BY <1>3 DEF InsertNoArray, InsertNoNode, Returns
  <2>4. SetMap!PutFails /\ Seen("set", AsKeyMap, <<>>)' = Seen("set", AsKeyMap, <<>>)
    BY <2>1, <2>2, <2>3 DEF SetMap!PutFails, SetMap!Answers, Seen, AnswerOf
  <2> QED BY <2>4 DEF SetMap!MapNext
<1> QED BY <1>2, <1>3 DEF set_insert

LEMMA SetRemoveMaps ==
  ASSUME BucketInv, kind = "set", kind' = kind, NEW k \in Keys, set_remove(k)
  PROVE  SetMap!MapNext
<1>1. UniqueKeys(Entries(bucket))
  BY KeysAreUnique
<1>2. CASE RemoveNode(k)
  <2>1. PICK e \in Found(k) : TRUE
    BY <1>2 DEF RemoveNode
  <2>2. e \in Entries(bucket) /\ e.key = k /\ Entries(bucket') = Entries(bucket) \ {e}
    BY <1>2, RemoveEffect
  <2>3. KeysIn(Entries(bucket')) = KeysIn(Entries(bucket)) \ {k}
    BY <1>1, <2>2, MapOfWithout
  <2>4. AsKeyMap' = [j \in DOMAIN AsKeyMap \ {k} |-> AsKeyMap[j]]
    BY <2>3, AsKeyMapIs
  <2>5. k \in DOMAIN AsKeyMap
    BY <2>2, AsKeyMapIs DEF KeysIn
  <2>6. ret' = [call |-> "remove", value |-> 0]
    BY <1>2 DEF RemoveNode, Returns
  <2>7. SetMap!Delete(k)
    BY <2>4, <2>5, <2>6 DEF SetMap!Delete, SetMap!Answers, Seen, AnswerOf
  <2> QED BY <2>7 DEF SetMap!MapNext
<1>3. CASE RemoveMisses(k)
  <2>1. Entries(bucket') = Entries(bucket) /\ k \notin DOMAIN AsKeyMap
    BY <1>3, NoNodeEffect, AsKeyMapIs DEF KeysIn
  <2>2. AsKeyMap' = AsKeyMap
    BY <2>1, AsKeyMapIs
  <2>3. ret' = [call |-> "remove", value |-> -1]
    BY <1>3 DEF RemoveMisses, Returns
  <2>4. SetMap!DeleteFails /\ Seen("set", AsKeyMap, <<>>)' = Seen("set", AsKeyMap, <<>>)
    BY <2>1, <2>2, <2>3 DEF SetMap!DeleteFails, SetMap!Answers, Seen, AnswerOf
  <2> QED BY <2>4 DEF SetMap!MapNext
<1> QED BY <1>2, <1>3 DEF set_remove

LEMMA SetMaps ==
  ASSUME BucketInv, kind = "set", kind' = kind, SetNext
  PROVE  SetMap!MapNext
<1>0. ASSUME NEW E, E = {} PROVE [k \in KeysIn(E) |-> NOTHING] = <<>>
  BY <1>0, MapOfEmpty
<1>1. CASE Alloc \/ AllocFails
  <2>1. AsKeyMap = <<>> /\ AsKeyMap' = <<>>
    BY <1>0, <1>1, AllocEffect, AsKeyMapIs
  <2>2. \/ ret' = [call |-> "alloc", value |-> 0]
        \/ ret' = [call |-> "alloc", value |-> -1]
    BY <1>1 DEF Alloc, AllocFails, Returns
  <2>3. SetMap!Open /\ Seen("set", AsKeyMap, <<>>)' = Seen("set", AsKeyMap, <<>>)
    BY <2>1, <2>2 DEF SetMap!Open, SetMap!Answers, Seen, AnswerOf
  <2> QED BY <2>3 DEF SetMap!MapNext
<1>2. CASE Clear \/ Free
  <2>1. AsKeyMap' = <<>>
    BY <1>0, <1>2, ResetEffect, AsKeyMapIs
  <2>2. \/ ret' = [call |-> "clear", value |-> 0]
        \/ ret' = [call |-> "free", value |-> 0]
    BY <1>2 DEF Clear, Free, Returns
  <2>3. SetMap!Reset
    BY <2>1, <2>2 DEF SetMap!Reset, SetMap!Answers, Seen, AnswerOf
  <2> QED BY <2>3 DEF SetMap!MapNext
<1> QED BY <1>1, <1>2, SetRemoveMaps, SetInsertMaps
        DEF SetNext, set_alloc, set_clear, set_free

-----------------------------------------------------------------------------
(* A bag implements a multiset. *)

(* A node of a bag stands for at least one occurrence of its key. *)
BagCounts == \A e \in Entries(bucket) : e.value \in Nat \ {0}

OccurrencesIn(E, k) == {e \in E : e.key = k}
CountIn(O)  == IF O = {} THEN 0 ELSE (CHOOSE e \in O : TRUE).value
CountsOf(E) == [k \in Keys |-> CountIn(OccurrencesIn(E, k))]

LEMMA AsMultisetIs ==
  AsMultiset = CountsOf(Entries(bucket)) /\ AsMultiset' = CountsOf(Entries(bucket'))
BY DEF AsMultiset, Occurrences, CountsOf, CountIn, OccurrencesIn, Entries

(* The count of a key is that of its node, or 0. *)
LEMMA CountsAre ==
  ASSUME NEW E, UniqueKeys(E), NEW k \in Keys
  PROVE  /\ \A e \in E : e.key = k => CountsOf(E)[k] = e.value
         /\ (\A e \in E : e.key # k) => CountsOf(E)[k] = 0
<1>1. ASSUME NEW e \in E, e.key = k PROVE CountsOf(E)[k] = e.value
  <2>1. OccurrencesIn(E, k) = {e}
    BY <1>1 DEF OccurrencesIn, UniqueKeys
  <2>2. (CHOOSE f \in OccurrencesIn(E, k) : TRUE) = e
    BY <2>1
  <2> QED BY <2>1, <2>2 DEF CountsOf, CountIn
<1>2. ASSUME \A e \in E : e.key # k PROVE CountsOf(E)[k] = 0
  <2>1. OccurrencesIn(E, k) = {}
    BY <1>2 DEF OccurrencesIn
  <2> QED BY <2>1 DEF CountsOf, CountIn
<1> QED BY <1>1, <1>2

LEMMA CountsEmpty == CountsOf({}) = [k \in Keys |-> 0]
<1>1. \A k \in Keys : OccurrencesIn({}, k) = {}
  BY DEF OccurrencesIn
<1> QED BY <1>1 DEF CountsOf, CountIn

(* Only the count of k changes when its node is stored or taken out. *)
LEMMA CountsOfOthers ==
  ASSUME NEW E, NEW H, NEW k,
         \A j \in Keys \ {k} : OccurrencesIn(H, j) = OccurrencesIn(E, j)
  PROVE  CountsOf(H) = [CountsOf(E) EXCEPT ![k] = CountsOf(H)[k]]
<1>1. \A j \in Keys \ {k} : CountsOf(H)[j] = CountsOf(E)[j]
  BY DEF CountsOf
<1>2. /\ CountsOf(E) = [j \in Keys |-> CountsOf(E)[j]]
      /\ CountsOf(H) = [j \in Keys |-> CountsOf(H)[j]]
  BY DEF CountsOf
<1> QED BY <1>1, <1>2

LEMMA CountsOfStored ==
  ASSUME NEW E, UniqueKeys(E), NEW k \in Keys, NEW v
  PROVE  CountsOf(StoredIn(E, k, v)) = [CountsOf(E) EXCEPT ![k] = v]
<1>1. PICK x : x = Node(k, v)
  OBVIOUS
<1>2. x.key = k /\ x.value = v
  BY <1>1 DEF Node
<1>3. PICK H : H = StoredIn(E, k, v)
  OBVIOUS
<1>4. H = {e \in E : e.key # k} \cup {x}
  BY <1>1, <1>3 DEF StoredIn
<1>5. UniqueKeys(H)
  BY <1>3, MapOfStored
<1>6. CountsOf(H)[k] = v
  BY <1>2, <1>4, <1>5, CountsAre
<1>7. \A j \in Keys \ {k} : OccurrencesIn(H, j) = OccurrencesIn(E, j)
  BY <1>2, <1>4 DEF OccurrencesIn
<1>8. CountsOf(H) = [CountsOf(E) EXCEPT ![k] = CountsOf(H)[k]]
  BY <1>7, CountsOfOthers
<1> QED BY <1>3, <1>6, <1>8

LEMMA CountsOfWithout ==
  ASSUME NEW E, UniqueKeys(E), NEW e \in E, e.key \in Keys
  PROVE  CountsOf(E \ {e}) = [CountsOf(E) EXCEPT ![e.key] = 0]
<1>1. PICK H, k : H = E \ {e} /\ k = e.key
  OBVIOUS
<1>2. UniqueKeys(H) /\ \A f \in H : f.key # k
  BY <1>1 DEF UniqueKeys
<1>3. CountsOf(H)[k] = 0
  BY <1>1, <1>2, CountsAre
<1>4. \A j \in Keys \ {k} : OccurrencesIn(H, j) = OccurrencesIn(E, j)
  BY <1>1 DEF OccurrencesIn
<1>5. CountsOf(H) = [CountsOf(E) EXCEPT ![k] = CountsOf(H)[k]]
  BY <1>4, CountsOfOthers
<1> QED BY <1>1, <1>3, <1>5

(* Storing a count and taking a node out keep counts positive. *)
LEMMA BagCountsStep ==
  ASSUME BucketInv, BagCounts, BagNext
  PROVE  BagCounts'
<1>1. CASE bag_alloc
  BY <1>1, AllocEffect DEF bag_alloc, BagCounts
<1>2. CASE bag_clear \/ bag_free
  BY <1>2, ResetEffect DEF bag_clear, bag_free, BagCounts
<1>3. ASSUME NEW call, NEW k \in Keys, NEW v \in Nat \ {0},
             InsertLinks(k, v) \/ Rewrite(call, k, v)
      PROVE  BagCounts'
  <2>1. Entries(bucket') = StoredIn(Entries(bucket), k, v)
    BY <1>3, InsertStores
  <2>2. Node(k, v).value = v
    BY DEF Node
  <2> QED BY <2>1, <2>2 DEF StoredIn, BagCounts
<1>4. ASSUME NEW k \in Keys, InsertNoArray(k) \/ InsertNoNode(k) \/ RemoveMisses(k)
      PROVE  BagCounts'
  BY <1>4, NoNodeEffect DEF BagCounts
<1>5. ASSUME NEW k \in Keys, NEW n \in CountOf(k), phase = "live"
      PROVE  n \in Nat \ {0}
  BY <1>5, OneNode DEF CountOf, BagCounts
<1>6. ASSUME NEW k \in Keys, bag_insert(k) PROVE BagCounts'
  <2>1. CASE bag_insert_again(k)
    <3>1. PICK n \in CountOf(k) : Rewrite("insert", k, n + 1) /\ phase = "live"
      BY <2>1 DEF bag_insert_again
    <3>2. n + 1 \in Nat \ {0}
      BY <1>5, <3>1
    <3> QED BY <1>3, <3>1, <3>2
  <2>2. CASE InsertLinks(k, 1)
    BY <1>3, <2>2
  <2> QED BY <1>4, <1>6, <2>1, <2>2 DEF bag_insert
<1>7. ASSUME NEW k \in Keys, bag_remove(k) PROVE BagCounts'
  <2>1. CASE bag_remove_one(k)
    <3>1. PICK n \in CountOf(k) : \/ ~LastOne(n) /\ Rewrite("remove", k, n - 1)
                                  \/ LastOne(n) /\ RemoveNode(k)
      BY <2>1 DEF bag_remove_one
    <3>2. phase = "live" /\ n \in Nat \ {0}
      BY <1>5, <2>1, <3>1 DEF bag_remove_one
    <3>3. CASE ~LastOne(n) /\ Rewrite("remove", k, n - 1)
      <4>1. n - 1 \in Nat \ {0}
        BY <3>2, <3>3 DEF LastOne
      <4> QED BY <1>3, <3>3, <4>1
    <3>4. CASE RemoveNode(k)
      <4>1. PICK e \in Found(k) : TRUE
        BY <3>4 DEF RemoveNode
      <4> QED BY <3>4, <4>1, RemoveEffect DEF BagCounts
    <3> QED BY <3>1, <3>3, <3>4
  <2> QED BY <1>4, <1>7, <2>1 DEF bag_remove
<1> QED BY <1>1, <1>2, <1>6, <1>7 DEF BagNext

LEMMA BagInsertCounts ==
  ASSUME BucketInv, BagCounts, kind = "bag", kind' = kind,
         NEW k \in Keys, bag_insert(k)
  PROVE  BagMultiset!MSNext
<1>1. PICK E : E = Entries(bucket)
  OBVIOUS
<1>2. UniqueKeys(E) /\ AsMultiset = CountsOf(E) /\ AsMultiset' = CountsOf(Entries(bucket'))
  BY <1>1, KeysAreUnique, AsMultisetIs
<1>3. ASSUME NEW n \in Nat, CountsOf(E)[k] = n,
             InsertLinks(k, n + 1) \/ Rewrite("insert", k, n + 1)
      PROVE  BagMultiset!MSNext
  <2>1. Entries(bucket') = StoredIn(E, k, n + 1)
    BY <1>1, <1>3, InsertStores
  <2>2. CountsOf(StoredIn(E, k, n + 1)) = [CountsOf(E) EXCEPT ![k] = n + 1]
    BY <1>2, CountsOfStored
  <2>3. AsMultiset' = [AsMultiset EXCEPT ![k] = @ + 1]
    BY <1>2, <1>3, <2>1, <2>2
  <2>4. ret' = [call |-> "insert", value |-> 0]
    BY <1>3 DEF InsertLinks, Rewrite, Returns
  <2>5. BagMultiset!AddOne(k)
    BY <2>3, <2>4 DEF BagMultiset!AddOne, BagMultiset!Answers, Seen, AnswerOf
  <2> QED BY <2>5 DEF BagMultiset!MSNext
<1>4. CASE bag_insert_again(k)
  <2>1. PICK n \in CountOf(k) : Rewrite("insert", k, n + 1) /\ phase = "live"
    BY <1>4 DEF bag_insert_again
  <2>2. PICK e \in Found(k) : e.value = n
    BY DEF CountOf
  <2>3. e \in E /\ e.key = k
    BY <1>1, <2>1, <2>2, OneNode
  <2>4. n \in Nat /\ CountsOf(E)[k] = n
    BY <1>1, <1>2, <2>2, <2>3, CountsAre DEF BagCounts
  <2> QED BY <1>3, <2>1, <2>4
<1>5. CASE InsertLinks(k, 1)
  <2>1. CountsOf(E)[k] = 0
    BY <1>1, <1>2, <1>5, LinkEffect, CountsAre
  <2>2. InsertLinks(k, 0 + 1)
    BY <1>5
  <2> QED BY <1>3, <2>1, <2>2
<1>6. CASE InsertNoArray(k) \/ InsertNoNode(k)
  <2>1. Entries(bucket') = E /\ CountsOf(E)[k] = 0
    BY <1>1, <1>2, <1>6, NoNodeEffect, CountsAre
  <2>2. AsMultiset' = AsMultiset /\ AsMultiset[k] = 0
    BY <1>2, <2>1
  <2>3. \/ ret' = [call |-> "insert", value |-> -1]
        \/ ret' = [call |-> "insert", value |-> -2]
    BY <1>6 DEF InsertNoArray, InsertNoNode, Returns
  <2>4. /\ BagMultiset!AddFails
        /\ Seen("bag", AsMultiset, [j \in Keys |-> 0])' = Seen("bag", AsMultiset, [j \in Keys |-> 0])
    BY <2>2, <2>3 DEF BagMultiset!AddFails, BagMultiset!Answers, Seen, AnswerOf
  <2> QED BY <2>4 DEF BagMultiset!MSNext
<1> QED BY <1>4, <1>5, <1>6 DEF bag_insert

LEMMA BagRemoveCounts ==
  ASSUME BucketInv, BagCounts, kind = "bag", kind' = kind,
         NEW k \in Keys, bag_remove(k)
  PROVE  BagMultiset!MSNext
<1>1. PICK E : E = Entries(bucket)
  OBVIOUS
<1>2. UniqueKeys(E) /\ AsMultiset = CountsOf(E) /\ AsMultiset' = CountsOf(Entries(bucket'))
  BY <1>1, KeysAreUnique, AsMultisetIs
<1>3. CASE bag_remove_one(k)
  <2>1. PICK n \in CountOf(k) : \/ ~LastOne(n) /\ Rewrite("remove", k, n - 1)
                                \/ LastOne(n) /\ RemoveNode(k)
    BY <1>3 DEF bag_remove_one
  <2>2. PICK e \in Found(k) : e.value = n
    BY DEF CountOf
  <2>3. e \in E /\ e.key = k
    BY <1>1, <1>3, <2>2, OneNode DEF bag_remove_one
  <2>4. n \in Nat \ {0} /\ CountsOf(E)[k] = n
    BY <1>1, <1>2, <2>2, <2>3, CountsAre DEF BagCounts
  <2>5. CountsOf(Entries(bucket')) = [CountsOf(E) EXCEPT ![k] = n - 1]
    <3>1. CASE Rewrite("remove", k, n - 1)
      BY <1>1, <1>2, <3>1, InsertStores, CountsOfStored
    <3>2. CASE LastOne(n) /\ RemoveNode(k)
      <4>1. n - 1 = 0 /\ Entries(bucket') = E \ {e}
        BY <1>1, <2>2, <3>2, RemoveEffect DEF LastOne
      <4> QED BY <1>2, <2>3, <4>1, CountsOfWithout
    <3> QED BY <2>1, <3>1, <3>2
  <2>6. AsMultiset' = [AsMultiset EXCEPT ![k] = @ - 1] /\ AsMultiset[k] > 0
    BY <1>2, <2>4, <2>5
  <2>7. ret' = [call |-> "remove", value |-> 0]
    BY <2>1 DEF RemoveNode, Rewrite, Returns
  <2>8. BagMultiset!TakeOne(k)
    BY <2>6, <2>7 DEF BagMultiset!TakeOne, BagMultiset!Answers, Seen, AnswerOf
  <2> QED BY <2>8 DEF BagMultiset!MSNext
<1>4. CASE RemoveMisses(k)
  <2>1. Entries(bucket') = E /\ CountsOf(E)[k] = 0
    BY <1>1, <1>2, <1>4, NoNodeEffect, CountsAre
  <2>2. AsMultiset' = AsMultiset /\ AsMultiset[k] = 0
    BY <1>2, <2>1
  <2>3. ret' = [call |-> "remove", value |-> -1]
    BY <1>4 DEF RemoveMisses, Returns
  <2>4. /\ BagMultiset!TakeFails
        /\ Seen("bag", AsMultiset, [j \in Keys |-> 0])' = Seen("bag", AsMultiset, [j \in Keys |-> 0])
    BY <2>2, <2>3 DEF BagMultiset!TakeFails, BagMultiset!Answers, Seen, AnswerOf
  <2> QED BY <2>4 DEF BagMultiset!MSNext
<1> QED BY <1>3, <1>4 DEF bag_remove

LEMMA BagMaps ==
  ASSUME BucketInv, BagCounts, kind = "bag", kind' = kind, BagNext
  PROVE  BagMultiset!MSNext
<1>1. CASE Alloc \/ AllocFails
  <2>1. AsMultiset = [k \in Keys |-> 0] /\ AsMultiset' = [k \in Keys |-> 0]
    BY <1>1, AllocEffect, AsMultisetIs, CountsEmpty
  <2>2. \/ ret' = [call |-> "alloc", value |-> 0]
        \/ ret' = [call |-> "alloc", value |-> -1]
    BY <1>1 DEF Alloc, AllocFails, Returns
  <2>3. /\ BagMultiset!Open
        /\ Seen("bag", AsMultiset, [j \in Keys |-> 0])' = Seen("bag", AsMultiset, [j \in Keys |-> 0])
    BY <2>1, <2>2 DEF BagMultiset!Open, BagMultiset!None, BagMultiset!Answers, Seen, AnswerOf
  <2> QED BY <2>3 DEF BagMultiset!MSNext
<1>2. CASE Clear \/ Free
  <2>1. AsMultiset' = [k \in Keys |-> 0]
    BY <1>2, ResetEffect, AsMultisetIs, CountsEmpty
  <2>2. \/ ret' = [call |-> "clear", value |-> 0]
        \/ ret' = [call |-> "free", value |-> 0]
    BY <1>2 DEF Clear, Free, Returns
  <2>3. BagMultiset!Empty
    BY <2>1, <2>2 DEF BagMultiset!Empty, BagMultiset!None, BagMultiset!Answers, Seen, AnswerOf
  <2> QED BY <2>3 DEF BagMultiset!MSNext
<1> QED BY <1>1, <1>2, BagRemoveCounts, BagInsertCounts
        DEF BagNext, bag_alloc, bag_clear, bag_free

-----------------------------------------------------------------------------
(* The three containers as MCHash runs them: a behaviour is one of a       *)
(* table, of a bag or of a set.                                            *)

ContainerInv ==
  /\ BucketInv
  /\ kind \in {"table", "bag", "set"}
  /\ kind = "table" => OwnsWhatItStores
  /\ kind = "bag" => BagCounts

LEMMA ContainerInitially == ASSUME MCInit PROVE ContainerInv
<1>1. BucketInv /\ kind \in {"table", "bag", "set"}
  BY InitStep DEF MCInit, HTInit
<1>2. Entries(bucket) = {} /\ owned = {}
  BY DEF MCInit, HTInit, BucketInit, Entries
<1> QED BY <1>1, <1>2 DEF ContainerInv, OwnsWhatItStores, Stored, BagCounts

LEMMA ContainerStep ==
  ASSUME ContainerInv, [MCNext]_<<htVars, kind>>
  PROVE  ContainerInv'
<1>1. CASE UNCHANGED <<htVars, kind>>
  BY <1>1 DEF ContainerInv, htVars, bucketVars, BucketInv, TypeOK, Findable, Counted,
              NoNodeLost, OwnsWhatItStores, Stored, BagCounts
<1>2. CASE MCNext /\ kind = "table"
  <2>1. BucketInv' /\ OwnsWhatItStores' /\ kind' = "table"
    BY <1>2, TableStep, OwnsStep DEF MCNext, ContainerInv
  <2> QED BY <2>1 DEF ContainerInv
<1>3. CASE MCNext /\ kind = "bag"
  <2>1. BucketInv' /\ BagCounts' /\ kind' = "bag"
    BY <1>3, BagStep, BagCountsStep DEF MCNext, ContainerInv
  <2> QED BY <2>1 DEF ContainerInv
<1>4. CASE MCNext /\ kind = "set"
  <2>1. BucketInv' /\ kind' = "set"
    BY <1>4, SetStep DEF MCNext, ContainerInv
  <2> QED BY <2>1 DEF ContainerInv
<1> QED BY <1>1, <1>2, <1>3, <1>4 DEF MCNext, ContainerInv

(* Whichever container it is, its nodes are findable and counted, a table  *)
(* owns what it stores and a bag has no node without occurrences.          *)
THEOREM ContainerCorrect == MCSpec => []ContainerInv
<1>1. MCInit => ContainerInv
  BY ContainerInitially
<1>2. ContainerInv /\ [MCNext]_<<htVars, kind>> => ContainerInv'
  BY ContainerStep
<1> QED BY <1>1, <1>2, PTL DEF MCSpec

(* hashtable.c frees a value exactly when it leaves the table: the         *)
(* property ValuesOwned of the hash run, for every instance.               *)
THEOREM TableOwnsItsValues == MCSpec => []ValuesOwned
<1>1. ContainerInv => ValuesOwned
  BY DEF ContainerInv, ValuesOwned
<1> QED BY <1>1, ContainerCorrect, PTL

(* hashtable.c implements a map: growing, shrinking, pooling of nodes and  *)
(* failing allocations cannot be seen in what the calls answer.            *)
THEOREM TableImplementsMap == MCSpec => ImplementsMap
<1>1. MCInit => TableMap!MapInit
  <2> SUFFICES ASSUME MCInit PROVE TableMap!MapInit
    OBVIOUS
  <2>1. Entries(bucket) = {} /\ ret = [call |-> "free", value |-> 0]
    BY DEF MCInit, HTInit, BucketInit, Entries
  <2>2. AsMap = <<>>
    BY <2>1, AsMapIs, MapOfEmpty
  <2> QED BY <2>1, <2>2 DEF TableMap!MapInit, Seen, AnswerOf
<1>2. ContainerInv /\ [MCNext]_<<htVars, kind>>
        => [TableMap!MapNext]_<<Seen("table", AsMap, <<>>), AnswerOf("table")>>
  <2> SUFFICES ASSUME ContainerInv, [MCNext]_<<htVars, kind>>
               PROVE  [TableMap!MapNext]_<<Seen("table", AsMap, <<>>), AnswerOf("table")>>
    OBVIOUS
  <2>1. CASE kind = "table" /\ HTNext /\ kind' = kind
    BY <2>1, TableMaps DEF ContainerInv
  <2>2. CASE kind # "table" /\ kind' = kind
    BY <2>2 DEF Seen, AnswerOf
  <2>3. CASE UNCHANGED <<htVars, kind>>
    BY <2>3, AsMapIs DEF htVars, bucketVars, Seen, AnswerOf
  <2> QED BY <2>1, <2>2, <2>3 DEF MCNext
<1> QED BY <1>1, <1>2, ContainerCorrect, PTL DEF MCSpec, ImplementsMap, TableMap!MapSpec

(* bag.c implements a multiset: every insert that answers 0 adds one       *)
(* occurrence and every remove that does takes one away.                   *)
THEOREM BagImplementsMultiset == MCSpec => ImplementsMultiset
<1>1. MCInit => BagMultiset!MSInit
  <2> SUFFICES ASSUME MCInit PROVE BagMultiset!MSInit
    OBVIOUS
  <2>1. Entries(bucket) = {} /\ ret = [call |-> "free", value |-> 0]
    BY DEF MCInit, HTInit, BucketInit, Entries
  <2>2. AsMultiset = [k \in Keys |-> 0]
    BY <2>1, AsMultisetIs, CountsEmpty
  <2> QED BY <2>1, <2>2 DEF BagMultiset!MSInit, BagMultiset!None, Seen, AnswerOf
<1>2. ContainerInv /\ [MCNext]_<<htVars, kind>>
        => [BagMultiset!MSNext]_<<Seen("bag", AsMultiset, [k \in Keys |-> 0]), AnswerOf("bag")>>
  <2> SUFFICES ASSUME ContainerInv, [MCNext]_<<htVars, kind>>
               PROVE  [BagMultiset!MSNext]_<<Seen("bag", AsMultiset, [k \in Keys |-> 0]),
                                            AnswerOf("bag")>>
    OBVIOUS
  <2>1. CASE kind = "bag" /\ BagNext /\ kind' = kind
    BY <2>1, BagMaps DEF ContainerInv
  <2>2. CASE kind # "bag" /\ kind' = kind
    BY <2>2 DEF Seen, AnswerOf
  <2>3. CASE UNCHANGED <<htVars, kind>>
    BY <2>3, AsMultisetIs DEF htVars, bucketVars, Seen, AnswerOf
  <2> QED BY <2>1, <2>2, <2>3 DEF MCNext
<1> QED BY <1>1, <1>2, ContainerCorrect, PTL
        DEF MCSpec, ImplementsMultiset, BagMultiset!MSSpec

(* set.c implements a set of keys. *)
THEOREM SetImplementsKeySet == MCSpec => ImplementsKeySet
<1>1. MCInit => SetMap!MapInit
  <2> SUFFICES ASSUME MCInit PROVE SetMap!MapInit
    OBVIOUS
  <2>1. Entries(bucket) = {} /\ ret = [call |-> "free", value |-> 0]
    BY DEF MCInit, HTInit, BucketInit, Entries
  <2>2. AsKeyMap = <<>>
    BY <2>1, AsKeyMapIs, MapOfEmpty
  <2> QED BY <2>1, <2>2 DEF SetMap!MapInit, Seen, AnswerOf
<1>2. ContainerInv /\ [MCNext]_<<htVars, kind>>
        => [SetMap!MapNext]_<<Seen("set", AsKeyMap, <<>>), AnswerOf("set")>>
  <2> SUFFICES ASSUME ContainerInv, [MCNext]_<<htVars, kind>>
               PROVE  [SetMap!MapNext]_<<Seen("set", AsKeyMap, <<>>), AnswerOf("set")>>
    OBVIOUS
  <2>1. CASE kind = "set" /\ SetNext /\ kind' = kind
    BY <2>1, SetMaps DEF ContainerInv
  <2>2. CASE kind # "set" /\ kind' = kind
    BY <2>2 DEF Seen, AnswerOf
  <2>3. CASE UNCHANGED <<htVars, kind>>
    BY <2>3, AsKeyMapIs DEF htVars, bucketVars, Seen, AnswerOf
  <2> QED BY <2>1, <2>2, <2>3 DEF MCNext
<1> QED BY <1>1, <1>2, ContainerCorrect, PTL DEF MCSpec, ImplementsKeySet, SetMap!MapSpec

(* Each container implements what it promises. *)
THEOREM ContainersImplement == MCSpec => ImplementsContainer
BY TableImplementsMap, BagImplementsMultiset, SetImplementsKeySet, PTL
   DEF ImplementsContainer
=============================================================================
