----------------------------- MODULE QueueProofs ------------------------------
(***************************************************************************)
(* Proofs about the queue of Queue, for nodes of every size, pools of      *)
(* every size and every capacity.                                          *)
(***************************************************************************)
EXTENDS QueueProperties, SequenceFacts

-----------------------------------------------------------------------------
(* What a node holds. *)

LEMMA ItemsType ==
  ASSUME NEW n \in Nodes
  PROVE  /\ n.offset \in Nat /\ n.data \in Seq(Elements) /\ n.offset <= Len(n.data)
         /\ Items(n) \in Seq(Elements) /\ Len(Items(n)) = Used(n) /\ Used(n) \in Nat
         /\ \A i \in 1 .. Used(n) : Items(n)[i] = n.data[n.offset + i]
<1>1. n.offset \in Nat /\ n.data \in Seq(Elements) /\ n.offset <= Len(n.data)
  BY DEF Nodes
<1>2. PICK d \in Seq(Elements), o \in Nat : d = n.data /\ o = n.offset /\ o <= Len(d)
  BY <1>1
<1>3. /\ SubSeq(d, o + 1, Len(d)) \in Seq(Elements)
      /\ Len(SubSeq(d, o + 1, Len(d))) = Len(d) - o
      /\ \A i \in 1 .. Len(d) - o : SubSeq(d, o + 1, Len(d))[i] = d[o + i]
  BY <1>2, SuffixFacts
<1>4. Items(n) = SubSeq(d, o + 1, Len(d)) /\ Used(n) = Len(d) - o
  BY <1>2 DEF Items, Used
<1>5. Len(d) - o \in Nat
  BY <1>2
<1> QED
  BY <1>1, <1>2, <1>3, <1>4, <1>5

LEMMA WindowsType ==
  ASSUME NEW list \in Seq(Nodes)
  PROVE  [i \in 1 .. Len(list) |-> Items(list[i])] \in Seq(Seq(Elements))
<1>1. \A i \in 1 .. Len(list) : Items(list[i]) \in Seq(Elements)
  BY ItemsType
<1> QED
  BY <1>1

LEMMA ContentType ==
  ASSUME NEW list \in Seq(Nodes)
  PROVE  ContentOf(list) \in Seq(Elements) /\ (list = <<>> => ContentOf(list) = <<>>)
<1> DEFINE w == [i \in 1 .. Len(list) |-> Items(list[i])]
<1>1. w \in Seq(Seq(Elements)) /\ ContentOf(list) = FlattenSeq(w)
  BY WindowsType DEF ContentOf
<1>2. list = <<>> => w = <<>>
  OBVIOUS
<1> HIDE DEF w
<1> QED
  BY <1>1, <1>2, FlattenType

(* One more node puts its items behind the others. *)
LEMMA ContentAppend ==
  ASSUME NEW list \in Seq(Nodes), NEW n \in Nodes
  PROVE  ContentOf(Append(list, n)) = ContentOf(list) \o Items(n)
<1> DEFINE more == Append(list, n)
<1> DEFINE w == [i \in 1 .. Len(list) |-> Items(list[i])]
<1> DEFINE v == [i \in 1 .. Len(more) |-> Items(more[i])]
<1>1. more \in Seq(Nodes) /\ Len(more) = Len(list) + 1 /\ more[Len(list) + 1] = n
  OBVIOUS
<1>2. \A i \in 1 .. Len(list) : more[i] = list[i]
  OBVIOUS
<1>3. w \in Seq(Seq(Elements)) /\ v \in Seq(Seq(Elements)) /\ Items(n) \in Seq(Elements)
  BY <1>1, WindowsType, ItemsType
<1>4. Len(w) = Len(list) /\ Len(v) = Len(list) + 1
  BY <1>1
<1>5. \A i \in 1 .. Len(list) : v[i] = w[i]
  BY <1>1, <1>2
<1>6. v[Len(list) + 1] = Items(n)
  BY <1>1
<1>7. FlattenSeq(v) = ContentOf(more) /\ FlattenSeq(w) = ContentOf(list)
  BY DEF ContentOf
<1> HIDE DEF w, v, more
<1>8. v = Append(w, Items(n))
  <2>1. Append(w, Items(n)) \in Seq(Seq(Elements)) /\ Len(Append(w, Items(n))) = Len(v)
    BY <1>3, <1>4
  <2>2. \A i \in 1 .. Len(v) : v[i] = Append(w, Items(n))[i]
    BY <1>3, <1>4, <1>5, <1>6
  <2> QED
    BY <2>1, <2>2, <1>3, SeqEqual
<1>9. FlattenSeq(Append(w, Items(n))) = FlattenSeq(w) \o Items(n)
  BY <1>3, FlattenAppend
<1> QED
  BY <1>7, <1>8, <1>9 DEF more

(* The items of the first node come before the others. *)
LEMMA ContentFirst ==
  ASSUME NEW list \in Seq(Nodes), list # <<>>
  PROVE  ContentOf(list) = Items(Head(list)) \o ContentOf(Tail(list))
<1> DEFINE rest == Tail(list)
<1> DEFINE w == [i \in 1 .. Len(list) |-> Items(list[i])]
<1> DEFINE v == [i \in 1 .. Len(rest) |-> Items(rest[i])]
<1>1. /\ rest \in Seq(Nodes) /\ Len(list) \in Nat /\ Len(list) > 0
      /\ Len(rest) = Len(list) - 1 /\ Head(list) = list[1]
  OBVIOUS
<1>2. \A i \in 1 .. Len(rest) : rest[i] = list[i + 1]
  OBVIOUS
<1>3. w \in Seq(Seq(Elements)) /\ v \in Seq(Seq(Elements))
  BY <1>1, WindowsType
<1>4. Len(w) = Len(list) /\ Len(v) = Len(list) - 1 /\ w[1] = Items(list[1])
  BY <1>1
<1>5. \A i \in 1 .. Len(v) : v[i] = w[i + 1]
  BY <1>1, <1>2, <1>4
<1>7. FlattenSeq(v) = ContentOf(rest) /\ FlattenSeq(w) = ContentOf(list)
  BY DEF ContentOf
<1> HIDE DEF w, v, rest
<1>6. w # <<>> /\ Head(w) = w[1]
  BY <1>1, <1>3, <1>4
<1>8. v = Tail(w)
  <2>1. Tail(w) \in Seq(Seq(Elements)) /\ Len(Tail(w)) = Len(v)
    BY <1>1, <1>3, <1>4, <1>6
  <2>2. \A i \in 1 .. Len(v) : v[i] = Tail(w)[i]
    BY <1>1, <1>3, <1>4, <1>5, <1>6
  <2> QED
    BY <2>1, <2>2, <1>3, SeqEqual
<1>9. FlattenSeq(w) = Head(w) \o FlattenSeq(Tail(w))
  BY <1>3, <1>6, FlattenFirst
<1> QED
  BY <1>1, <1>4, <1>6, <1>7, <1>8, <1>9 DEF rest
-----------------------------------------------------------------------------
(* queue_pop *)

Good(r) ==
  /\ r \in Queues /\ Shape(r.list) /\ r.nitems = Len(ContentOf(r.list))
  /\ r.nodes = Len(r.list) + r.pool /\ r.pool <= POOL_SIZE

(* The head of the list after a pop. *)
Less(n) == [n EXCEPT !.offset = @ + 1]

LEMMA LessFacts ==
  ASSUME NEW n \in Nodes, Used(n) > 0
  PROVE  /\ Less(n) \in Nodes
         /\ Less(n).data = n.data /\ Less(n).offset = n.offset + 1
         /\ Used(Less(n)) = Used(n) - 1
         /\ Items(n) # <<>> /\ Items(Less(n)) = Tail(Items(n))
         /\ Head(Items(n)) = n.data[n.offset + 1]
<1>1. n.offset \in Nat /\ n.data \in Seq(Elements) /\ n \in [offset : Nat, data : Seq(Elements)]
  BY DEF Nodes
<1>2. n.offset + 1 <= Len(n.data)
  BY <1>1 DEF Used
<1>3. Less(n).data = n.data /\ Less(n).offset = n.offset + 1 /\ Less(n) \in Nodes
  BY <1>1, <1>2 DEF Less, Nodes
<1>4. Used(Less(n)) = Used(n) - 1
  BY <1>1, <1>3 DEF Used
<1>5. PICK s \in Seq(Elements) : s = Items(n) /\ Len(s) = Used(n) /\ \A i \in 1 .. Used(n) : s[i] = n.data[n.offset + i]
  BY ItemsType
<1>6. PICK t \in Seq(Elements) : t = Items(Less(n)) /\ Len(t) = Used(n) - 1
                                 /\ \A i \in 1 .. Used(n) - 1 : t[i] = n.data[(n.offset + 1) + i]
  BY <1>3, <1>4, ItemsType
<1>7. Used(n) \in Nat \ {0}
  BY ItemsType
<1>8. s # <<>> /\ Head(s) = s[1] /\ s[1] = n.data[n.offset + 1] /\ Len(Tail(s)) = Used(n) - 1 /\ Tail(s) \in Seq(Elements)
  BY <1>5, <1>7
<1>9. \A i \in 1 .. Len(t) : t[i] = Tail(s)[i]
  <2> SUFFICES ASSUME NEW i \in 1 .. Len(t) PROVE t[i] = Tail(s)[i]
    OBVIOUS
  <2>1. i + 1 \in 1 .. Used(n) /\ (n.offset + 1) + i = n.offset + (i + 1) /\ i \in 1 .. Used(n) - 1
    BY <1>1, <1>6, <1>7
  <2>2. t[i] = n.data[n.offset + (i + 1)] /\ s[i + 1] = n.data[n.offset + (i + 1)]
    BY <2>1, <1>5, <1>6
  <2>3. Tail(s)[i] = s[i + 1]
    BY <1>8, <2>1
  <2> QED
    BY <2>2, <2>3
<1>10. t = Tail(s)
  BY <1>6, <1>8, <1>9, SeqEqual
<1> QED
  BY <1>3, <1>4, <1>5, <1>6, <1>8, <1>10

(* A list is empty if and only if it holds nothing. *)
LEMMA ContentOfSome ==
  ASSUME NEW list \in Seq(Nodes), Shape(list), list # <<>>
  PROVE  /\ Len(ContentOf(list)) > 0 /\ ContentOf(list) # <<>> /\ Used(list[1]) > 0
         /\ Len(ContentOf(list)) = Used(list[1]) + Len(ContentOf(Tail(list)))
<1>1. list[1] \in Nodes /\ Head(list) = list[1] /\ Tail(list) \in Seq(Nodes) /\ 1 \in 1 .. Len(list)
  OBVIOUS
<1>2. Used(list[1]) > 0
  BY <1>1 DEF Shape
<1>3. ContentOf(list) = Items(list[1]) \o ContentOf(Tail(list))
  BY <1>1, ContentFirst
<1>4. PICK a \in Seq(Elements) : a = Items(list[1]) /\ Len(a) = Used(list[1])
  BY <1>1, ItemsType
<1>5. PICK b \in Seq(Elements) : b = ContentOf(Tail(list))
  BY <1>1, ContentType
<1>6. Len(a \o b) = Len(a) + Len(b) /\ Len(a) \in Nat /\ Len(b) \in Nat
  OBVIOUS
<1>7. a \o b # <<>>
  BY <1>2, <1>4, <1>6
<1> QED
  BY <1>2, <1>3, <1>4, <1>5, <1>6, <1>7

(* A pop takes the first item, whether the node it was in stays or goes. *)
LEMMA PoppedContent ==
  ASSUME NEW list \in Seq(Nodes), Shape(list), list # <<>>,
         NEW less, less = [list EXCEPT ![1] = Less(list[1])]
  PROVE  /\ less \in Seq(Nodes) /\ Len(less) = Len(list) /\ less # <<>>
         /\ less[1] = Less(list[1]) /\ Tail(less) = Tail(list)
         /\ \A i \in 2 .. Len(list) : less[i] = list[i]
         /\ ContentOf(less) = Tail(ContentOf(list))
         /\ Head(ContentOf(list)) = list[1].data[list[1].offset + 1]
         /\ Used(less[1]) = 0 => ContentOf(less) = ContentOf(Tail(list))
<1>1. list[1] \in Nodes /\ Head(list) = list[1] /\ Tail(list) \in Seq(Nodes) /\ 1 \in 1 .. Len(list)
  OBVIOUS
<1>2. Used(list[1]) > 0
  BY <1>1 DEF Shape
<1>3. Less(list[1]) \in Nodes
  BY <1>1, <1>2, LessFacts
<1>4. /\ less \in Seq(Nodes) /\ Len(less) = Len(list) /\ less[1] = Less(list[1])
      /\ \A i \in 2 .. Len(list) : less[i] = list[i]
  BY <1>1, <1>3
<1>5. less # <<>> /\ Head(less) = less[1] /\ Tail(less) \in Seq(Nodes)
  BY <1>1, <1>4
<1>6. Tail(less) = Tail(list)
  <2>1. Len(Tail(less)) = Len(Tail(list)) /\ Len(Tail(list)) = Len(list) - 1
    BY <1>4, <1>5
  <2>2. \A i \in 1 .. Len(Tail(less)) : Tail(less)[i] = Tail(list)[i]
    <3> SUFFICES ASSUME NEW i \in 1 .. Len(Tail(less)) PROVE Tail(less)[i] = Tail(list)[i]
      OBVIOUS
    <3>1. i + 1 \in 2 .. Len(list) /\ Tail(less)[i] = less[i + 1] /\ Tail(list)[i] = list[i + 1]
      BY <2>1, <1>4, <1>5
    <3> QED
      BY <3>1, <1>4
  <2> QED
    BY <2>1, <2>2, <1>1, <1>5, SeqEqual
<1>7. PICK a \in Seq(Elements), b \in Seq(Elements), c \in Seq(Elements) :
         a = Items(list[1]) /\ b = ContentOf(Tail(list)) /\ c = Items(less[1])
  BY <1>1, <1>3, <1>4, ItemsType, ContentType
<1>8. ContentOf(list) = a \o b /\ ContentOf(less) = c \o b
  BY <1>1, <1>4, <1>5, <1>6, <1>7, ContentFirst
<1>9. a # <<>> /\ c = Tail(a) /\ Head(a) = list[1].data[list[1].offset + 1]
  BY <1>1, <1>2, <1>4, <1>7, LessFacts
<1>10. Tail(a \o b) = Tail(a) \o b /\ Head(a \o b) = Head(a)
  BY <1>9, HeadTailConcat
<1>11. Used(less[1]) = 0 => c \o b = b
  <2> SUFFICES ASSUME Used(less[1]) = 0 PROVE c \o b = b
    OBVIOUS
  <2>1. Len(c) = 0
    BY <1>3, <1>4, <1>7, ItemsType
  <2>2. c = <<>>
    BY <2>1
  <2> QED
    BY <2>2
<1> QED
  BY <1>4, <1>5, <1>6, <1>7, <1>8, <1>9, <1>10, <1>11

LEMMA NodeGivenFacts ==
  ASSUME NEW s \in Queues, s.pool <= POOL_SIZE, s.nodes = Len(s.list) + s.pool,
         s.list # <<>>
  PROVE  LET t == NodeGiven(s)
         IN /\ t \in Queues /\ t.list = s.list /\ t.nitems = s.nitems
            /\ t.pool <= POOL_SIZE /\ t.nodes = (Len(s.list) - 1) + t.pool
<1>1. /\ s.list \in Seq(Nodes) /\ s.pool \in Nat /\ s.nitems \in Nat /\ s.nodes \in Nat
      /\ Len(s.list) \in Nat \ {0} /\ POOL_SIZE \in Nat
  BY QueueAssumption DEF Queues
<1>2. CASE s.pool < POOL_SIZE
  <2>1. NodeGiven(s) = [s EXCEPT !.pool = @ + 1]
    BY <1>2 DEF NodeGiven
  <2> QED
    BY <1>1, <1>2, <2>1 DEF Queues
<1>3. CASE ~(s.pool < POOL_SIZE)
  <2>1. NodeGiven(s) = [s EXCEPT !.nodes = @ - 1]
    BY <1>3 DEF NodeGiven
  <2> QED
    BY <1>1, <1>3, <2>1 DEF Queues
<1> QED
  BY <1>2, <1>3

LEMMA PopFacts ==
  ASSUME NEW r, Good(r), r.list # <<>>
  PROVE  /\ Good(Popped(r))
         /\ ContentOf(Popped(r).list) = Tail(ContentOf(r.list))
         /\ Oldest(r) = Head(ContentOf(r.list))
         /\ \/ Popped(r).list = Tail(r.list) /\ Used(r.list[1]) = 1
            \/ Popped(r).list = [r.list EXCEPT ![1] = Less(r.list[1])] /\ Used(r.list[1]) > 1
<1> DEFINE list == r.list
<1> DEFINE less == [list EXCEPT ![1] = Less(list[1])]
<1> DEFINE s == [r EXCEPT !.list = less, !.nitems = @ - 1]
<1>1. /\ r \in Queues /\ list \in Seq(Nodes) /\ r.pool \in Nat /\ r.nitems \in Nat /\ r.nodes \in Nat
      /\ Shape(list) /\ list # <<>> /\ r.nitems = Len(ContentOf(list))
      /\ r.nodes = Len(list) + r.pool /\ r.pool <= POOL_SIZE
  BY DEF Good, Queues
<1>2. list[1] \in Nodes /\ Head(list) = list[1] /\ 1 \in 1 .. Len(list) /\ Len(list) \in Nat
  BY <1>1
<1>3. /\ less \in Seq(Nodes) /\ Len(less) = Len(list) /\ less # <<>>
      /\ less[1] = Less(list[1]) /\ Tail(less) = Tail(list)
      /\ \A i \in 2 .. Len(list) : less[i] = list[i]
      /\ ContentOf(less) = Tail(ContentOf(list))
      /\ Head(ContentOf(list)) = list[1].data[list[1].offset + 1]
      /\ Used(less[1]) = 0 => ContentOf(less) = ContentOf(Tail(list))
  <2> HIDE DEF list
  <2> QED
    BY <1>1, PoppedContent
<1>4. [r EXCEPT !.list[1].offset = @ + 1, !.nitems = @ - 1] = s
  BY <1>1, <1>2 DEF Less, Queues
<1>5. Len(ContentOf(list)) > 0 /\ ContentOf(list) # <<>> /\ Used(list[1]) > 0
  BY <1>1, ContentOfSome
<1>6. ContentOf(list) \in Seq(Elements) /\ Len(Tail(ContentOf(list))) = Len(ContentOf(list)) - 1
  BY <1>1, <1>5, ContentType
<1>7. Used(less[1]) = Used(list[1]) - 1 /\ Used(list[1]) \in Nat /\ less[1] \in Nodes
      /\ less[1].data = list[1].data
  BY <1>2, <1>3, <1>5, LessFacts, ItemsType
<1>8. s \in Queues /\ s.list = less /\ s.nitems = r.nitems - 1 /\ s.pool = r.pool /\ s.nodes = r.nodes
  <2>1. r.nitems - 1 \in Nat
    BY <1>1, <1>5
  <2> HIDE DEF list, less
  <2> QED
    BY <1>1, <1>3, <2>1 DEF Queues
<1>9. Popped(r) = IF Used(Head(s.list)) = 0 THEN [NodeGiven(s) EXCEPT !.list = Tail(@)] ELSE s
  BY <1>4 DEF Popped
<1>10. Head(s.list) = less[1]
  BY <1>3, <1>8
<1>11. Oldest(r) = Head(ContentOf(list))
  BY <1>2, <1>3 DEF Oldest
<1> HIDE DEF s, less, list
<1>12. CASE Used(less[1]) = 0
  <2>1. PICK t : t = NodeGiven(s)
    OBVIOUS
  <2>2. /\ t \in Queues /\ t.list = less /\ t.nitems = r.nitems - 1
        /\ t.pool <= POOL_SIZE /\ t.nodes = (Len(list) - 1) + t.pool
    BY <1>1, <1>3, <1>8, <2>1, NodeGivenFacts
  <2>3. Popped(r) = [t EXCEPT !.list = Tail(@)]
    BY <1>9, <1>10, <1>12, <2>1
  <2>4. Tail(list) \in Seq(Nodes) /\ Len(Tail(list)) = Len(list) - 1
    BY <1>1
  <2>5. /\ Popped(r) \in Queues /\ Popped(r).list = Tail(list) /\ Popped(r).nitems = r.nitems - 1
        /\ Popped(r).pool = t.pool /\ Popped(r).nodes = t.nodes
    BY <1>3, <2>2, <2>3, <2>4 DEF Queues
  <2>6. Shape(Tail(list))
    <3>1. \A i \in 1 .. Len(Tail(list)) : Tail(list)[i] = list[i + 1] /\ i + 1 \in 2 .. Len(list)
      BY <1>1, <2>4
    <3>2. \A i \in 1 .. Len(Tail(list)) :
             Used(Tail(list)[i]) > 0 /\ Len(Tail(list)[i].data) <= NITEMS /\ Tail(list)[i].offset = 0
      BY <3>1, <1>1, <1>2, <2>4 DEF Shape
    <3>3. \A i \in 1 .. Len(Tail(list)) - 1 : Len(Tail(list)[i].data) = NITEMS
      <4> SUFFICES ASSUME NEW i \in 1 .. Len(Tail(list)) - 1 PROVE Len(Tail(list)[i].data) = NITEMS
        OBVIOUS
      <4>1. i \in 1 .. Len(Tail(list)) /\ i + 1 \in 1 .. Len(list) - 1
        BY <2>4, <1>2
      <4> QED
        BY <4>1, <3>1, <1>1 DEF Shape
    <3> QED
      BY <3>2, <3>3, <2>4, <1>2 DEF Shape
  <2>7. ContentOf(Tail(list)) = Tail(ContentOf(list))
    BY <1>3, <1>12
  <2>8. Good(Popped(r))
    BY <2>2, <2>4, <2>5, <2>6, <2>7, <1>1, <1>6 DEF Good
  <2> QED
    BY <2>5, <2>7, <2>8, <1>7, <1>11, <1>12 DEF list
<1>13. CASE Used(less[1]) # 0
  <2>1. Popped(r) = s
    BY <1>9, <1>10, <1>13
  <2>2. Shape(less)
    <3>1. Used(less[1]) > 0 /\ Len(less[1].data) <= NITEMS
      BY <1>1, <1>2, <1>7, <1>13 DEF Shape
    <3>2. \A i \in 1 .. Len(less) : Used(less[i]) > 0 /\ Len(less[i].data) <= NITEMS
      <4> SUFFICES ASSUME NEW i \in 1 .. Len(less) PROVE Used(less[i]) > 0 /\ Len(less[i].data) <= NITEMS
        OBVIOUS
      <4>1. i = 1 \/ i \in 2 .. Len(list)
        BY <1>2, <1>3
      <4> QED
        BY <4>1, <3>1, <1>1, <1>2, <1>3 DEF Shape
    <3>3. \A i \in 2 .. Len(less) : less[i].offset = 0
      BY <1>1, <1>3 DEF Shape
    <3>4. \A i \in 1 .. Len(less) - 1 : Len(less[i].data) = NITEMS
      <4> SUFFICES ASSUME NEW i \in 1 .. Len(less) - 1 PROVE Len(less[i].data) = NITEMS
        OBVIOUS
      <4>1. i \in 1 .. Len(list) - 1 /\ (i = 1 \/ i \in 2 .. Len(list))
        BY <1>2, <1>3
      <4> QED
        BY <4>1, <1>1, <1>3, <1>7 DEF Shape
    <3> QED
      BY <3>2, <3>3, <3>4 DEF Shape
  <2>3. Good(Popped(r))
    BY <2>1, <2>2, <1>1, <1>3, <1>6, <1>8 DEF Good
  <2>4. Popped(r).list = less /\ Used(list[1]) > 1 /\ ContentOf(Popped(r).list) = Tail(ContentOf(list))
    BY <2>1, <1>3, <1>5, <1>7, <1>8, <1>13
  <2>5. less = [r.list EXCEPT ![1] = Less(r.list[1])]
    BY Zenon DEF less, list
  <2> QED
    BY <2>3, <2>4, <2>5, <1>11, Zenon DEF list
<1> QED
  BY <1>12, <1>13
-----------------------------------------------------------------------------
(* queue_push *)

LEMMA NodeTakenFacts ==
  ASSUME NEW r \in Queues, r.pool <= POOL_SIZE, r.nodes = Len(r.list) + r.pool, POOL_SIZE \in Nat
  PROVE  LET t == NodeTaken(r)
         IN /\ t \in Queues /\ t.list = r.list /\ t.nitems = r.nitems
            /\ t.pool <= POOL_SIZE /\ t.nodes = (Len(r.list) + 1) + t.pool
<1>1. /\ r.list \in Seq(Nodes) /\ r.pool \in Nat /\ r.nitems \in Nat /\ r.nodes \in Nat
      /\ Len(r.list) \in Nat
  BY DEF Queues
<1>2. CASE r.pool > 0
  <2>1. NodeTaken(r) = [r EXCEPT !.pool = @ - 1]
    BY <1>2 DEF NodeTaken
  <2> QED
    BY <1>1, <1>2, <2>1 DEF Queues
<1>3. CASE ~(r.pool > 0)
  <2>1. NodeTaken(r) = [r EXCEPT !.nodes = @ + 1] /\ r.pool = 0
    BY <1>1, <1>3 DEF NodeTaken
  <2>2. r.nodes + 1 \in Nat
    BY <1>1
  <2>3. PICK t : t = NodeTaken(r)
    OBVIOUS
  <2>4. t \in Queues /\ t.list = r.list /\ t.nitems = r.nitems /\ t.pool = r.pool /\ t.nodes = r.nodes + 1
    BY <1>1, <2>1, <2>2, <2>3 DEF Queues
  <2>5. t.nodes = (Len(r.list) + 1) + t.pool
    BY <1>1, <2>4
  <2> QED
    BY <2>3, <2>4, <2>5
<1> QED
  BY <1>2, <1>3

(* A node with one more item. *)
More(n, e) == [n EXCEPT !.data = Append(@, e)]

LEMMA MoreFacts ==
  ASSUME NEW n \in Nodes, NEW e \in Elements
  PROVE  /\ More(n, e) \in Nodes
         /\ More(n, e).data = Append(n.data, e) /\ More(n, e).offset = n.offset
         /\ Len(More(n, e).data) = Len(n.data) + 1 /\ Used(More(n, e)) = Used(n) + 1
         /\ Items(More(n, e)) = Append(Items(n), e)
<1>1. n.offset \in Nat /\ n.data \in Seq(Elements) /\ n.offset <= Len(n.data)
  BY DEF Nodes
<1>2. /\ More(n, e).data = Append(n.data, e) /\ More(n, e).offset = n.offset
      /\ Len(More(n, e).data) = Len(n.data) + 1
      /\ More(n, e) \in Nodes
  <2>1. PICK d \in Seq(Elements) : d = Append(n.data, e) /\ Len(d) = Len(n.data) + 1
    <3>1. Append(n.data, e) \in Seq(Elements) /\ Len(Append(n.data, e)) = Len(n.data) + 1
      BY <1>1
    <3> QED
      BY <3>1, Zenon
  <2>2. More(n, e) = [n EXCEPT !.data = d] /\ n \in [offset : Nat, data : Seq(Elements)]
    BY <2>1 DEF More, Nodes
  <2>3. /\ More(n, e).data = d /\ More(n, e).offset = n.offset
        /\ More(n, e) \in [offset : Nat, data : Seq(Elements)]
    BY <2>2
  <2>4. n.offset <= Len(d)
    BY <1>1, <2>1
  <2> QED
    BY <2>1, <2>3, <2>4 DEF Nodes
<1>3. Used(More(n, e)) = Used(n) + 1
  BY <1>1, <1>2 DEF Used
<1>4. PICK s \in Seq(Elements) : /\ s = Items(n) /\ Len(s) = Used(n) /\ Used(n) \in Nat
                                 /\ \A i \in 1 .. Used(n) : s[i] = n.data[n.offset + i]
  BY ItemsType
<1>5. PICK t \in Seq(Elements) : /\ t = Items(More(n, e)) /\ Len(t) = Used(n) + 1
                                 /\ \A i \in 1 .. Used(n) + 1 : t[i] = Append(n.data, e)[n.offset + i]
  <2>1. PICK m \in Nodes : m = More(n, e) /\ m.data = Append(n.data, e) /\ m.offset = n.offset
                          /\ Used(m) = Used(n) + 1
    BY <1>2, <1>3, Zenon
  <2>2. /\ Items(m) \in Seq(Elements) /\ Len(Items(m)) = Used(m)
        /\ \A i \in 1 .. Used(m) : Items(m)[i] = m.data[m.offset + i]
    BY ItemsType, Zenon
  <2>3. PICK t \in Seq(Elements) : t = Items(m)
    BY <2>2, Zenon
  <2>4. Len(t) = Used(n) + 1
    BY <2>1, <2>2, <2>3, Zenon
  <2>5. \A i \in 1 .. Used(n) + 1 : t[i] = Append(n.data, e)[n.offset + i]
    <3> SUFFICES ASSUME NEW i \in 1 .. Used(n) + 1 PROVE t[i] = Append(n.data, e)[n.offset + i]
      OBVIOUS
    <3>1. i \in 1 .. Used(m)
      BY <2>1, Zenon
    <3>2. t[i] = m.data[m.offset + i]
      BY <3>1, <2>2, <2>3, Zenon
    <3> QED
      BY <3>2, <2>1, Zenon
  <2> QED
    BY <2>1, <2>3, <2>4, <2>5, Zenon
<1>6. Append(s, e) \in Seq(Elements) /\ Len(Append(s, e)) = Len(t)
  BY <1>4, <1>5
<1>7. \A i \in 1 .. Len(t) : t[i] = Append(s, e)[i]
  <2> SUFFICES ASSUME NEW i \in 1 .. Len(t) PROVE t[i] = Append(s, e)[i]
    OBVIOUS
  <2>1. CASE i = Used(n) + 1
    <3>1. n.offset + i = Len(n.data) + 1
      BY <1>1, <2>1 DEF Used
    <3>2. Append(n.data, e)[Len(n.data) + 1] = e /\ Append(s, e)[Len(s) + 1] = e
      BY <1>1
    <3> QED
      BY <3>1, <3>2, <2>1, <1>4, <1>5
  <2>2. CASE i # Used(n) + 1
    <3>1. i \in 1 .. Used(n)
      BY <2>2, <1>4, <1>5
    <3>2. n.offset + i \in 1 .. Len(n.data)
      BY <3>1, <1>1 DEF Used
    <3>3. Append(n.data, e)[n.offset + i] = n.data[n.offset + i] /\ Append(s, e)[i] = s[i]
      BY <3>1, <3>2, <1>1, <1>4
    <3> QED
      BY <3>1, <3>3, <1>4, <1>5
  <2> QED
    BY <2>1, <2>2
<1>8. t = Append(s, e)
  BY <1>6, <1>7, SeqEqual
<1> QED
  BY <1>2, <1>3, <1>4, <1>5, <1>8

(* The tail with one more item adds that item to the list's. *)
LEMMA ContentMore ==
  ASSUME NEW list \in Seq(Nodes), list # <<>>, NEW e \in Elements,
         NEW more, more = [list EXCEPT ![Len(list)] = More(list[Len(list)], e)]
  PROVE  /\ more \in Seq(Nodes) /\ Len(more) = Len(list)
         /\ ContentOf(more) = Append(ContentOf(list), e)
<1> DEFINE n == Len(list)
<1> DEFINE front == SubSeq(list, 1, n - 1)
<1>1. n \in Nat \ {0} /\ list[n] \in Nodes /\ n \in 1 .. n
  OBVIOUS
<1>2. More(list[n], e) \in Nodes /\ Items(More(list[n], e)) = Append(Items(list[n]), e)
  BY <1>1, MoreFacts
<1>3. /\ more \in Seq(Nodes) /\ Len(more) = n /\ more[n] = More(list[n], e)
      /\ \A i \in 1 .. n - 1 : more[i] = list[i]
  BY <1>1, <1>2
<1>4. /\ front \in Seq(Nodes) /\ Len(front) = n - 1
      /\ \A i \in 1 .. n - 1 : front[i] = list[i]
  <2>1. n - 1 \in Nat /\ n - 1 <= Len(list)
    BY <1>1
  <2> QED
    BY <2>1, PrefixFacts
<1> HIDE DEF front
<1>5. list = Append(front, list[n])
  <2>1. Append(front, list[n]) \in Seq(Nodes) /\ Len(Append(front, list[n])) = n
    BY <1>1, <1>4
  <2>2. \A i \in 1 .. n : Append(front, list[n])[i] = list[i]
    BY <1>1, <1>4
  <2> QED
    BY <2>1, <2>2, SeqEqual
<1>6. more = Append(front, More(list[n], e))
  <2>1. Append(front, More(list[n], e)) \in Seq(Nodes) /\ Len(Append(front, More(list[n], e))) = n
    BY <1>1, <1>2, <1>4
  <2>2. \A i \in 1 .. n : Append(front, More(list[n], e))[i] = more[i]
    <3> SUFFICES ASSUME NEW i \in 1 .. n PROVE Append(front, More(list[n], e))[i] = more[i]
      OBVIOUS
    <3>1. PICK m \in Nodes : m = More(list[n], e)
      BY <1>2
    <3>2. CASE i = n
      <4>1. Append(front, m)[n] = m
        BY <1>1, <1>4
      <4> QED
        BY <3>1, <3>2, <4>1, <1>3
    <3>3. CASE i # n
      <4>1. i \in 1 .. n - 1
        BY <1>1, <3>3
      <4>2. Append(front, m)[i] = front[i]
        BY <1>1, <1>4, <4>1
      <4> QED
        BY <3>1, <4>1, <4>2, <1>3, <1>4
    <3> QED
      BY <3>2, <3>3
  <2> QED
    BY <2>1, <2>2, <1>3, SeqEqual
<1>7. PICK a \in Seq(Elements), b \in Seq(Elements) : a = ContentOf(front) /\ b = Items(list[n])
  BY <1>1, <1>4, ContentType, ItemsType
<1>8. ContentOf(Append(front, list[n])) = a \o b
  BY <1>1, <1>4, <1>7, ContentAppend
<1>9. ContentOf(Append(front, More(list[n], e))) = a \o Append(b, e)
  BY <1>2, <1>4, <1>7, ContentAppend
<1>10. a \o Append(b, e) = Append(a \o b, e)
  BY ConcatAppend
<1> QED
  BY <1>3, <1>5, <1>6, <1>8, <1>9, <1>10

(* The shape of the list after that, if the tail had a free slot. *)
LEMMA ShapeMore ==
  ASSUME NEW list \in Seq(Nodes), list # <<>>, NEW e \in Elements,
         NEW n, n = Len(list),
         NEW more, more = [list EXCEPT ![n] = More(list[n], e)],
         \A i \in 1 .. n - 1 : Used(list[i]) > 0 /\ Len(list[i].data) = NITEMS,
         \A i \in 2 .. n : list[i].offset = 0,
         Len(list[n].data) < NITEMS
  PROVE  Shape(more)
<1>1. n \in Nat \ {0} /\ n \in 1 .. n /\ list[n] \in Nodes /\ NITEMS \in Nat
  BY QueueAssumption
<1>2. Used(list[n]) \in Nat /\ Len(list[n].data) \in Nat
  BY <1>1, ItemsType DEF Nodes
<1>3. /\ Len(More(list[n], e).data) = Len(list[n].data) + 1 /\ More(list[n], e).offset = list[n].offset
      /\ Used(More(list[n], e)) = Used(list[n]) + 1
  BY <1>1, MoreFacts
<1>4. Len(more) = n /\ more[n] = More(list[n], e) /\ \A i \in 1 .. n - 1 : more[i] = list[i]
  BY <1>1
<1>5. Used(more[n]) > 0 /\ Len(more[n].data) <= NITEMS
  BY <1>1, <1>2, <1>3, <1>4
<1>6. \A i \in 1 .. n : i \in 1 .. n - 1 \/ i = n
  BY <1>1
<1>7. ASSUME NEW i \in 1 .. n - 1 PROVE Used(more[i]) > 0 /\ Len(more[i].data) <= NITEMS
  BY <1>1, <1>4
<1>8. \A i \in 1 .. n : Used(more[i]) > 0 /\ Len(more[i].data) <= NITEMS
  BY <1>5, <1>6, <1>7
<1>9. ASSUME NEW i \in 2 .. n PROVE more[i].offset = 0
  <2>1. list[i].offset = 0 /\ (i \in 1 .. n - 1 \/ i = n)
    BY <1>1
  <2> QED
    BY <2>1, <1>3, <1>4
<1>10. \A i \in 1 .. n - 1 : Len(more[i].data) = NITEMS
  BY <1>4
<1> QED
  BY <1>4, <1>8, <1>9, <1>10 DEF Shape

(* What Stored makes of a queue with a node. *)
LEMMA StoredFacts ==
  ASSUME NEW w \in Queues, NEW e \in Elements, NEW list, list = w.list, list # <<>>,
         NEW n, n = Len(list), NEW more, more = [list EXCEPT ![n] = More(list[n], e)]
  PROVE  /\ Stored(w, e) \in Queues /\ Stored(w, e).list = more
         /\ Stored(w, e).nitems = w.nitems + 1 /\ Stored(w, e).pool = w.pool
         /\ Stored(w, e).nodes = w.nodes
<1>1. list \in Seq(Nodes) /\ w.pool \in Nat /\ w.nitems \in Nat /\ w.nodes \in Nat
  BY DEF Queues
<1>2. more \in Seq(Nodes)
  BY <1>1, ContentMore
<1>3. [w.list EXCEPT ![Len(w.list)].data = Append(@, e)] = more
  BY Zenon DEF More
<1>4. Stored(w, e) = [w EXCEPT !.list = more, !.nitems = @ + 1]
  <2>1. Stored(w, e) = [w EXCEPT !.list = [w.list EXCEPT ![Len(w.list)].data = Append(@, e)], !.nitems = @ + 1]
    BY DEF Stored, Queues
  <2> QED
    BY <2>1, <1>3
<1>5. w.nitems + 1 \in Nat
  BY <1>1
<1> QED
  BY <1>1, <1>2, <1>4, <1>5 DEF Queues

LEMMA EmptyNode ==
  /\ Node(0, <<>>) \in Nodes /\ Node(0, <<>>).offset = 0 /\ Node(0, <<>>).data = <<>>
  /\ Items(Node(0, <<>>)) = <<>>
<1>1. Node(0, <<>>) \in Nodes /\ Node(0, <<>>).offset = 0 /\ Node(0, <<>>).data = <<>>
  BY DEF Node, Nodes
<1>2. Items(Node(0, <<>>)) \in Seq(Elements) /\ Len(Items(Node(0, <<>>))) = 0
  BY <1>1, ItemsType DEF Used
<1> QED
  BY <1>1, <1>2

LEMMA StoreFacts ==
  ASSUME NEW r, Good(r), NEW e \in Elements, ~Overruns(r),
         NEW w, w = IF NeedsNode(r) THEN WithNode(r) ELSE r
  PROVE  Good(Stored(w, e)) /\ ContentOf(Stored(w, e).list) = Append(ContentOf(r.list), e)
<1>1. PICK list \in Seq(Nodes), n \in Nat : list = r.list /\ n = Len(list)
  BY DEF Good, Queues
<1>2. /\ r \in Queues /\ r.pool \in Nat /\ r.nitems \in Nat /\ r.nodes \in Nat
      /\ Shape(list) /\ r.nitems = Len(ContentOf(list))
      /\ r.nodes = n + r.pool /\ r.pool <= POOL_SIZE
      /\ POOL_SIZE \in Nat /\ NITEMS \in Nat \ {0}
  BY <1>1, QueueAssumption DEF Good, Queues
<1>3. \A i \in 1 .. n : list[i] \in Nodes /\ Len(list[i].data) \in Nat /\ list[i].offset \in Nat
  <2>1. \A i \in 1 .. n : list[i] \in Nodes
    BY <1>1
  <2>2. \A x \in Nodes : Len(x.data) \in Nat /\ x.offset \in Nat
    BY DEF Nodes
  <2> QED
    BY <2>1, <2>2, Zenon
<1>4. /\ w \in Queues /\ w.list # <<>> /\ w.nitems = r.nitems
      /\ w.pool <= POOL_SIZE /\ w.nodes = Len(w.list) + w.pool
      /\ ContentOf(w.list) = ContentOf(list)
      /\ \A i \in 1 .. Len(w.list) - 1 : Used(w.list[i]) > 0 /\ Len(w.list[i].data) = NITEMS
      /\ \A i \in 2 .. Len(w.list) : w.list[i].offset = 0
      /\ Len(w.list[Len(w.list)].data) < NITEMS
  <2>1. CASE NeedsNode(r)
    <3>1. PICK t : t = NodeTaken(r)
      OBVIOUS
    <3>2. /\ t \in Queues /\ t.list = list /\ t.nitems = r.nitems
          /\ t.pool <= POOL_SIZE /\ t.nodes = (n + 1) + t.pool
      BY <1>1, <1>2, <3>1, NodeTakenFacts
    <3>3. PICK new \in Nodes : new = Node(0, <<>>) /\ new.offset = 0 /\ new.data = <<>> /\ Items(new) = <<>>
      BY EmptyNode
    <3>4. PICK more \in Seq(Nodes) :
             more = Append(list, new) /\ Len(more) = n + 1 /\ more[n + 1] = new /\ \A i \in 1 .. n : more[i] = list[i]
      <4>1. /\ Append(list, new) \in Seq(Nodes) /\ Len(Append(list, new)) = n + 1
            /\ Append(list, new)[n + 1] = new /\ \A i \in 1 .. n : Append(list, new)[i] = list[i]
        BY <1>1
      <4> QED
        BY <4>1, Zenon
    <3>5. w = [t EXCEPT !.list = more]
      BY <2>1, <3>1, <3>2, <3>3, <3>4 DEF WithNode
    <3>6. w \in Queues /\ w.list = more /\ w.nitems = r.nitems /\ w.pool = t.pool /\ w.nodes = t.nodes
      BY <3>2, <3>5 DEF Queues
    <3>7. ContentOf(more) = ContentOf(list)
      <4>1. ContentOf(more) = ContentOf(list) \o Items(new)
        BY <3>4, ContentAppend
      <4>2. ContentOf(list) \in Seq(Elements)
        BY ContentType
      <4> QED
        BY <4>1, <4>2, <3>3
    <3>8. ASSUME NEW i \in 1 .. n PROVE Used(list[i]) > 0 /\ Len(list[i].data) = NITEMS
      <4>1. Used(list[i]) > 0 /\ Len(list[i].data) <= NITEMS /\ (i \in 1 .. n - 1 \/ i = n)
        BY <1>1, <1>2 DEF Shape
      <4>2. CASE i \in 1 .. n - 1
        BY <4>1, <4>2, <1>1, <1>2 DEF Shape
      <4>3. CASE i = n
        <5>1. Used(list[n]) = NITEMS
          BY <2>1, <4>3, <1>1 DEF NeedsNode, TailFull, TailNode
        <5> QED
          BY <4>1, <4>3, <5>1, <1>2, <1>3, SMTT(30) DEF Used
      <4> QED
        BY <4>1, <4>2, <4>3
    <3>9. ASSUME NEW i \in 2 .. n + 1 PROVE more[i].offset = 0
      <4>1. (i \in 1 .. n /\ i \in 2 .. n) \/ i = n + 1
        OBVIOUS
      <4> QED
        BY <4>1, <1>1, <1>2, <3>3, <3>4 DEF Shape
    <3>10. Len(more) - 1 = n /\ \A i \in 1 .. n : Used(more[i]) > 0 /\ Len(more[i].data) = NITEMS
      BY <3>4, <3>8
    <3>11. Len(more[n + 1].data) < NITEMS /\ more # <<>>
      BY <3>3, <3>4, <1>2
    <3> QED
      BY <3>2, <3>4, <3>6, <3>7, <3>9, <3>10, <3>11
  <2>2. CASE ~NeedsNode(r)
    <3>1. w = r /\ list # <<>> /\ n > 0 /\ Len(list[n].data) # NITEMS /\ n \in 1 .. n
      BY <2>2, <1>1 DEF NeedsNode, Overruns, TailNode
    <3>2. Len(list[n].data) <= NITEMS
      BY <3>1, <1>1, <1>2 DEF Shape
    <3>3. Len(list[n].data) < NITEMS
      BY <3>1, <3>2, <1>2, <1>3
    <3>4. \A i \in 1 .. n - 1 : Used(list[i]) > 0 /\ Len(list[i].data) = NITEMS
      BY <1>1, <1>2 DEF Shape
    <3>5. \A i \in 2 .. n : list[i].offset = 0
      BY <1>1, <1>2 DEF Shape
    <3> QED
      BY <3>1, <3>3, <3>4, <3>5, <1>1, <1>2
  <2> QED
    BY <2>1, <2>2
<1>10. PICK l \in Seq(Nodes) : l = w.list /\ Len(l) \in Nat /\ l # <<>>
  BY <1>4 DEF Queues
<1>11. PICK k \in Nat : k = Len(l)
  BY <1>10
<1>12. PICK more : more = [l EXCEPT ![k] = More(l[k], e)]
  OBVIOUS
<1>5. l = w.list /\ k = Len(l) /\ more = [l EXCEPT ![k] = More(l[k], e)]
  BY <1>10, <1>11, <1>12
<1>6. /\ Stored(w, e) \in Queues /\ Stored(w, e).list = more
      /\ Stored(w, e).nitems = w.nitems + 1 /\ Stored(w, e).pool = w.pool
      /\ Stored(w, e).nodes = w.nodes
  BY <1>4, <1>5, StoredFacts
<1>7. Len(more) = k /\ ContentOf(more) = Append(ContentOf(l), e)
  <2>1. more = [l EXCEPT ![Len(l)] = More(l[Len(l)], e)]
    BY <1>5, Zenon
  <2> QED
    BY <1>5, <1>10, <2>1, ContentMore
<1>8. Shape(more)
  BY <1>4, <1>5, ShapeMore
<1>9. ContentOf(list) \in Seq(Elements) /\ Len(Append(ContentOf(list), e)) = Len(ContentOf(list)) + 1
  BY ContentType
<1>13. PICK u \in Queues : u = Stored(w, e) /\ u.list = more /\ u.nitems = r.nitems + 1
                           /\ u.pool = w.pool /\ u.nodes = w.nodes
  BY <1>4, <1>6
<1>14. ContentOf(more) = Append(ContentOf(list), e)
  BY <1>4, <1>5, <1>7
<1>15. Len(ContentOf(more)) = r.nitems + 1
  BY <1>2, <1>9, <1>14
<1>16. u.nodes = Len(more) + u.pool /\ u.pool <= POOL_SIZE
  BY <1>4, <1>5, <1>7, <1>13
<1>17. Good(u)
  BY <1>8, <1>13, <1>15, <1>16 DEF Good
<1> QED
  BY <1>1, <1>13, <1>14, <1>17
-----------------------------------------------------------------------------
(* The invariant *)

LEMMA InvIsGood ==
  ASSUME QueueInv PROVE Good(q)
  BY DEF QueueInv, TypeOK, NodesKept, NodeShape, NoNodeLost, Content, Good

LEMMA GoodIsInv ==
  ASSUME Good(q), phase \in {"none", "open", "overrun", "dangling"}, circular \in Circulars \cup {0},
         phase = "none" => q.list = <<>>
  PROVE  QueueInv
  BY DEF QueueInv, TypeOK, NodesKept, NodeShape, NoNodeLost, Content, Good

LEMMA EmptyIsGood ==
  Good(Empty) /\ Empty.list = <<>>
<1>1. Empty \in Queues /\ Empty.list = <<>> /\ Empty.pool = 0 /\ Empty.nitems = 0 /\ Empty.nodes = 0
  BY DEF Empty, Queues
<1>2. <<>> \in Seq(Nodes)
  OBVIOUS
<1>3. ContentOf(<<>>) = <<>>
  BY <1>2, ContentType
<1>4. Shape(<<>>)
  BY DEF Shape
<1> QED
  BY <1>1, <1>3, <1>4, QueueAssumption DEF Good

LEMMA InitInv ==
  ASSUME Init PROVE QueueInv
<1>1. q = Empty /\ phase = "none" /\ circular = 0
  BY DEF Init
<1>2. Good(q) /\ q.list = <<>>
  BY <1>1, EmptyIsGood
<1> QED
  BY <1>1, <1>2, GoodIsInv

(* What a push begins with: the queue, less its oldest item if it is full. *)
LEMMA PushedFacts ==
  ASSUME Good(q), circular \in Nat
  PROVE  /\ Good(Pushed)
         /\ Full <=> circular > 0 /\ Len(Content) = circular
         /\ ContentOf(Pushed.list) = IF Full THEN Tail(Content) ELSE Content
         /\ Dropped = IF Full THEN <<Head(Content)>> ELSE <<>>
<1>1. q.list \in Seq(Nodes) /\ Shape(q.list) /\ q.nitems = Len(Content) /\ q.nitems \in Nat
  BY DEF Good, Queues, Content
<1>2. q.list = <<>> => Len(Content) = 0
  <2>1. q.list = <<>> => Content = <<>>
    BY <1>1, ContentType DEF Content
  <2> QED
    BY <2>1
<1>3. Full <=> circular > 0 /\ Len(Content) = circular
  BY <1>1, <1>2 DEF Full
<1>4. CASE Full
  <2>1. q.list # <<>>
    BY <1>4 DEF Full
  <2>2. /\ Good(Popped(q)) /\ ContentOf(Popped(q).list) = Tail(ContentOf(q.list))
        /\ Oldest(q) = Head(ContentOf(q.list))
    BY <2>1, PopFacts
  <2> QED
    BY <1>3, <1>4, <2>2 DEF Pushed, Dropped, Content
<1>5. CASE ~Full
  BY <1>3, <1>5 DEF Pushed, Dropped, Content
<1> QED
  BY <1>4, <1>5

LEMMA NextInv ==
  ASSUME QueueInv, [Next]_vars
  PROVE  QueueInv'
<1>1. Good(q) /\ circular \in Circulars \cup {0} /\ circular \in Nat
      /\ phase \in {"none", "open", "overrun", "dangling"} /\ (phase = "none" => q.list = <<>>)
  BY InvIsGood, QueueAssumption DEF QueueInv, TypeOK
<1>2. ASSUME Good(q'), phase' \in {"none", "open", "overrun", "dangling"}, circular' \in Circulars \cup {0},
             phase' = "none" => q'.list = <<>>
      PROVE  QueueInv'
  BY <1>2 DEF QueueInv, TypeOK, NodesKept, NodeShape, NoNodeLost, Content, Good
<1>3. ASSUME NEW c \in Circulars, queue_circular_alloc(c) PROVE QueueInv'
  <2>1. Good(q') /\ phase' = "open" /\ circular' = c
    BY <1>3, EmptyIsGood DEF queue_circular_alloc
  <2> QED
    BY <1>2, <2>1
<1>4. ASSUME NEW e \in Elements, PushStores(e) PROVE QueueInv'
  <2>1. Good(Pushed) /\ ~Overruns(Pushed)
    BY <1>1, <1>4, PushedFacts DEF PushStores
  <2>2. PICK w : w = IF NeedsNode(Pushed) THEN WithNode(Pushed) ELSE Pushed
    OBVIOUS
  <2>3. Good(Stored(w, e))
    BY <2>1, <2>2, StoreFacts
  <2>4. q' = Stored(w, e) /\ phase' = "open" /\ circular' = circular
    BY <1>4, <2>2 DEF PushStores
  <2> QED
    BY <1>1, <1>2, <2>3, <2>4
<1>5. ASSUME PushNoTail PROVE QueueInv'
  <2>1. Good(q') /\ phase' = "open" /\ circular' = circular
    BY <1>1, <1>5, PushedFacts DEF PushNoTail
  <2> QED
    BY <1>1, <1>2, <2>1
<1>6. ASSUME q' = q, circular' = circular, phase' = phase \/ phase' \in {"overrun", "dangling"}
      PROVE  QueueInv'
  BY <1>1, <1>2, <1>6
<1>7. ASSUME queue_pop PROVE QueueInv'
  <2>1. q.list # <<>>
    <3>1. q.nitems > 0 /\ q.nitems = Len(ContentOf(q.list)) /\ q.list \in Seq(Nodes)
      BY <1>1, <1>7 DEF queue_pop, Good, Queues
    <3> QED
      BY <3>1, ContentType
  <2>2. Good(q') /\ phase' = "open" /\ circular' = circular
    BY <1>1, <1>7, <2>1, PopFacts DEF queue_pop
  <2> QED
    BY <1>1, <1>2, <2>2
<1>8. ASSUME queue_free PROVE QueueInv'
  <2>1. q.nodes - (Len(q.list) + q.pool) = 0
    BY <1>1 DEF Good, Queues
  <2>2. q' = Empty
    BY <1>8, <2>1 DEF queue_free, Empty
  <2>3. Good(q') /\ q'.list = <<>> /\ phase' = "none" /\ circular' = circular
    BY <1>8, <2>2, EmptyIsGood DEF queue_free
  <2> QED
    BY <1>1, <1>2, <2>3
<1> QED
  BY <1>3, <1>4, <1>5, <1>6, <1>7, <1>8
     DEF Next, vars, PushNoHead, PushUndefined, queue_pop_empty

(* queue.c, for nodes and pools of every size and any capacity: pushes and *)
(* pops in any order, without memory or with it, keep the shape of the     *)
(* list that queue_pop and queue_push rely on and the count in nitems, and *)
(* lose no node.                                                           *)
THEOREM NodesAreKept ==
  Spec => []NodesKept
<1>1. Init => QueueInv
  BY InitInv
<1>2. QueueInv /\ [Next]_vars => QueueInv'
  BY NextInv
<1>3. QueueInv => NodesKept
  BY DEF QueueInv
<1> QED
  BY <1>1, <1>2, <1>3, PTL DEF Spec
-----------------------------------------------------------------------------
(* Undefined pushes *)

(* queue.c, for nodes and pools of every size and any capacity: a push     *)
(* writes behind the last slot only of a node that is alone in the list    *)
(* and was popped from, and through a dangling tail only if the capacity   *)
(* is one.                                                                 *)
THEOREM UndefinedPushes ==
  Spec => UndefinedNeedsPop
<1>1. Init => QueueInv
  BY InitInv
<1>2. QueueInv /\ [Next]_vars => QueueInv'
  BY NextInv
<1>3. QueueInv /\ [Next]_vars => [UndefinedPush]_vars
  <2> SUFFICES ASSUME QueueInv, Next, vars' # vars PROVE UndefinedPush
    OBVIOUS
  <2>1. Good(q) /\ q.list \in Seq(Nodes) /\ Shape(q.list) /\ Len(q.list) \in Nat /\ NITEMS \in Nat \ {0}
        /\ q.nitems = Len(ContentOf(q.list))
    BY InvIsGood, QueueAssumption DEF Good, Queues
  <2>2. circular \in Nat
    BY QueueAssumption DEF QueueInv, TypeOK
  <2>3. ASSUME Overruns(Pushed) PROVE Len(q.list) = 1 /\ (q.list[1].offset > 0 \/ Full)
    <3>1. PICK l \in Seq(Nodes), n \in Nat : l = Pushed.list /\ n = Len(l) /\ Shape(l)
      <4>1. Good(Pushed)
        BY <2>1, <2>2, PushedFacts
      <4> QED
        BY <4>1 DEF Good, Queues
    <3>2. l # <<>> /\ n > 0 /\ Used(l[n]) # NITEMS /\ Len(l[n].data) = NITEMS
      BY <2>3, <3>1 DEF Overruns, NeedsNode, TailFull, TailNode
    <3>3. l[n] \in Nodes /\ n \in 1 .. n
      BY <3>1, <3>2
    <3>4. l[n].offset \in Nat
      BY <3>3, ItemsType
    <3>5. l[n].offset # 0
      BY <3>2, <3>4, <2>1 DEF Used
    <3>6. n = 1
      <4>1. n \notin 2 .. n
        BY <3>1, <3>5 DEF Shape
      <4> QED
        BY <4>1, <3>2
    <3>7. CASE ~Full
      BY <3>1, <3>4, <3>5, <3>6, <3>7 DEF Pushed
    <3>8. CASE Full
      <4>1. q.list # <<>> /\ l = Popped(q).list
        BY <3>1, <3>8 DEF Full, Pushed
      <4>2. \/ l = Tail(q.list)
            \/ l = [q.list EXCEPT ![1] = Less(q.list[1])]
        BY <4>1, <2>1, PopFacts
      <4>3. CASE l = Tail(q.list)
        <5>1. Len(q.list) = 2 /\ l[1] = q.list[2]
          BY <4>1, <4>3, <3>1, <3>6, <2>1
        <5>2. q.list[2].offset = 0
          BY <5>1, <2>1 DEF Shape
        <5> QED
          BY <5>1, <5>2, <3>5, <3>6
      <4>4. CASE l = [q.list EXCEPT ![1] = Less(q.list[1])]
        <5>1. Len(l) = Len(q.list)
          BY <4>4, <4>1, <2>1, PoppedContent
        <5> QED
          BY <5>1, <3>1, <3>6, <3>8
      <4> QED
        BY <4>2, <4>3, <4>4
    <3> QED
      BY <3>7, <3>8
  <2>4. ASSUME Dangles(Pushed) PROVE circular = 1
    <3>1. Full /\ q.list # <<>> /\ Popped(q).list = <<>> /\ q.nitems = circular
      BY <2>4 DEF Dangles, Full, Pushed
    <3>2. \/ Popped(q).list = Tail(q.list) /\ Used(q.list[1]) = 1
          \/ Popped(q).list = [q.list EXCEPT ![1] = Less(q.list[1])]
      BY <3>1, <2>1, PopFacts
    <3>3. CASE Popped(q).list = Tail(q.list) /\ Used(q.list[1]) = 1
      <4>1. Len(ContentOf(q.list)) = Used(q.list[1]) + Len(ContentOf(Tail(q.list)))
        BY <2>1, <3>1, ContentOfSome
      <4>2. <<>> \in Seq(Nodes)
        OBVIOUS
      <4>3. ContentOf(<<>>) = <<>>
        BY <4>2, ContentType
      <4>4. Len(ContentOf(Tail(q.list))) = 0
        BY <3>1, <3>3, <4>3
      <4> QED
        <5>1. Len(ContentOf(q.list)) = 1 + 0
          BY <3>3, <4>1, <4>4, Zenon
        <5> QED
          BY <5>1, <2>1, <3>1
    <3>4. CASE Popped(q).list = [q.list EXCEPT ![1] = Less(q.list[1])]
      <4>1. [q.list EXCEPT ![1] = Less(q.list[1])] # <<>>
        BY <2>1, <3>1, PoppedContent
      <4> QED
        BY <3>1, <3>4, <4>1
    <3> QED
      BY <3>2, <3>3, <3>4
  <2>5. CASE PushUndefined
    BY <2>3, <2>4, <2>5 DEF PushUndefined, UndefinedPush
  <2>6. CASE phase' \in {"open", "none"}
    BY <2>6 DEF UndefinedPush
  <2> QED
    BY <2>5, <2>6 DEF Next, queue_circular_alloc, PushStores, PushNoHead, PushNoTail,
       queue_pop, queue_pop_empty, queue_free
<1> QED
  BY <1>1, <1>2, <1>3, PTL DEF Spec, UndefinedNeedsPop
-----------------------------------------------------------------------------
(* The refinement: what an item of the FIFO is, Content says. *)

(* queue_free passes as many items to item_free as there are. *)
LEMMA FreedLength ==
  ASSUME NEW list \in Seq(Nodes)
  PROVE  Len(FlattenSeq([i \in 1 .. Len(list) |-> FreedOf(list[i])])) = Len(ContentOf(list))
<1>1. ASSUME NEW n \in Nodes
      PROVE  FreedOf(n) \in Seq(Elements) /\ Len(FreedOf(n)) = Len(Items(n))
  <2>1. /\ n.data \in Seq(Elements) /\ Used(n) \in Nat /\ Used(n) <= Len(n.data)
        /\ Len(Items(n)) = Used(n)
    BY ItemsType DEF Used
  <2>2. PICK d \in Seq(Elements), k \in Nat : d = n.data /\ k = Used(n) /\ k <= Len(d)
    BY <2>1
  <2>3. SubSeq(d, 1, k) \in Seq(Elements) /\ Len(SubSeq(d, 1, k)) = k
    BY <2>2, PrefixFacts
  <2>4. FreedOf(n) = SubSeq(d, 1, k)
    BY <2>2 DEF FreedOf
  <2> QED
    BY <2>1, <2>2, <2>3, <2>4
<1> DEFINE f == [i \in 1 .. Len(list) |-> FreedOf(list[i])]
<1> DEFINE w == [i \in 1 .. Len(list) |-> Items(list[i])]
<1>2. \A i \in 1 .. Len(list) : list[i] \in Nodes
  OBVIOUS
<1>3. f \in Seq(Seq(Elements)) /\ Len(f) = Len(list)
  <2>1. \A i \in 1 .. Len(list) : FreedOf(list[i]) \in Seq(Elements)
    BY <1>1, <1>2
  <2> QED
    BY <2>1
<1>4. w \in Seq(Seq(Elements)) /\ Len(w) = Len(list)
  BY WindowsType
<1>5. \A i \in 1 .. Len(f) : Len(f[i]) = Len(w[i])
  BY <1>1, <1>2, <1>3
<1>6. ContentOf(list) = FlattenSeq(w)
  BY DEF ContentOf
<1> HIDE DEF f, w
<1>7. Len(FlattenSeq(f)) = Len(FlattenSeq(w))
  BY <1>3, <1>4, <1>5, FlattenLength
<1> QED
  BY <1>6, <1>7 DEF f

LEMMA StepsOfFifo ==
  ASSUME QueueInv, [Next]_vars
  PROVE  [Bounded!FNext]_Bounded!fifoVars
<1>1. /\ Good(q) /\ q.list \in Seq(Nodes) /\ Shape(q.list)
      /\ q.nitems = Len(Content) /\ circular \in Nat
      /\ Content \in Seq(Elements)
      /\ (phase = "none" => q.list = <<>>)
      /\ (q.list = <<>> => Content = <<>>)
  <2>1. Good(q) /\ circular \in Nat /\ (phase = "none" => q.list = <<>>)
    BY InvIsGood, QueueAssumption DEF QueueInv, TypeOK
  <2>2. q.list \in Seq(Nodes) /\ Shape(q.list) /\ q.nitems = Len(Content)
    BY <2>1 DEF Good, Queues, Content
  <2> QED
    BY <2>1, <2>2, ContentType DEF Content
<1>2. Content' = ContentOf(q'.list)
  BY DEF Content
<1>3. q.list # <<>> => Content # <<>>
  BY <1>1, ContentOfSome DEF Content
<1>4. /\ Full <=> Bounded!AtCapacity
      /\ ContentOf(Pushed.list) = Bounded!Kept
      /\ Dropped = Bounded!GivenUp
      /\ Good(Pushed)
  BY <1>1, PushedFacts DEF Bounded!AtCapacity, Bounded!Kept, Bounded!GivenUp
<1>5. ASSUME NEW c \in Circulars, queue_circular_alloc(c) PROVE Bounded!Open
  <2>1. q'.list = <<>> /\ Content = <<>>
    BY <1>1, <1>5, EmptyIsGood DEF queue_circular_alloc
  <2>2. <<>> \in Seq(Nodes)
    OBVIOUS
  <2>3. Content' = <<>>
    BY <1>2, <2>1, <2>2, ContentType
  <2> QED
    BY <1>5, <2>1, <2>3 DEF queue_circular_alloc, Returns, Bounded!Open, Bounded!Answers
<1>6. ASSUME NEW e \in Elements, PushStores(e) PROVE Bounded!Push(e)
  <2>1. PICK w : w = IF NeedsNode(Pushed) THEN WithNode(Pushed) ELSE Pushed
    OBVIOUS
  <2>2. ~Overruns(Pushed) /\ q' = Stored(w, e)
    BY <1>6, <2>1 DEF PushStores
  <2>3. ContentOf(q'.list) = Append(ContentOf(Pushed.list), e)
    BY <1>4, <2>1, <2>2, StoreFacts
  <2> QED
    BY <1>2, <1>4, <1>6, <2>3 DEF PushStores, Returns, Bounded!Push, Bounded!Answers
<1>7. ASSUME PushNoHead PROVE Bounded!PushFails
  BY <1>1, <1>2, <1>7 DEF PushNoHead, Returns, Content, Bounded!PushFails, Bounded!Answers
<1>8. ASSUME PushNoTail PROVE Bounded!PushFails
  BY <1>2, <1>4, <1>8 DEF PushNoTail, Returns, Bounded!PushFails, Bounded!Answers
<1>9. ASSUME queue_pop PROVE Bounded!Pop
  <2>1. q.list # <<>>
    <3>1. Len(Content) > 0
      BY <1>1, <1>9 DEF queue_pop
    <3> QED
      BY <1>1, <3>1
  <2>2. Content' = Tail(Content) /\ Oldest(q) = Head(Content)
    BY <1>1, <1>2, <1>9, <2>1, PopFacts DEF queue_pop, Content
  <2> QED
    BY <1>3, <1>9, <2>1, <2>2 DEF queue_pop, Returns, Bounded!Pop, Bounded!Answers
<1>10. ASSUME queue_pop_empty PROVE Bounded!Pop
  <2>1. Content = <<>>
    <3>1. Len(Content) = 0
      BY <1>1, <1>10 DEF queue_pop_empty
    <3>2. \A s \in Seq(Elements) : Len(s) = 0 => s = <<>>
      OBVIOUS
    <3> QED
      BY <1>1, <3>1, <3>2
  <2> QED
    BY <1>2, <1>10, <2>1 DEF queue_pop_empty, Returns, Content, Bounded!Pop, Bounded!Answers
<1>11. ASSUME queue_free PROVE Bounded!Close
  <2>1. q'.list = <<>>
    BY <1>11 DEF queue_free, Empty
  <2>2. <<>> \in Seq(Nodes)
    OBVIOUS
  <2>3. Content' = <<>>
    BY <1>2, <2>1, <2>2, ContentType
  <2>4. ret'.value = 0 /\ Len(ret'.freed) = Len(Content)
    BY <1>1, <1>11, FreedLength DEF queue_free, Returns, Content
  <2> QED
    BY <1>11, <2>3, <2>4 DEF queue_free, Bounded!Close
<1>12. ASSUME UNCHANGED <<circular, q, ret>> PROVE UNCHANGED Bounded!fifoVars
  BY <1>12 DEF Bounded!fifoVars, Content
<1> QED
  BY <1>5, <1>6, <1>7, <1>8, <1>9, <1>10, <1>11, <1>12
     DEF Next, vars, PushUndefined, Bounded!FNext

(* queue.c implements the bounded FIFO of queue.h, for nodes and pools of  *)
(* every size and any capacity: items leave in the order they came, a full *)
(* circular queue gives up its oldest item for a new one, a push without   *)
(* memory loses at most that one, and queue_free frees as many items as    *)
(* there are.                                                              *)
THEOREM QueueImplementsFifo ==
  Spec => ImplementsBoundedFifo
<1>1. Init => QueueInv
  BY InitInv
<1>2. QueueInv /\ [Next]_vars => QueueInv'
  BY NextInv
<1>3. Init => Bounded!FInit
  <2> SUFFICES ASSUME Init PROVE Bounded!FInit
    OBVIOUS
  <2>1. q.list = <<>> /\ <<>> \in Seq(Nodes)
    BY DEF Init, Empty
  <2>2. Content = <<>>
    BY <2>1, ContentType DEF Content
  <2> QED
    BY <2>2 DEF Init, Bounded!FInit
<1>4. QueueInv /\ [Next]_vars => [Bounded!FNext]_Bounded!fifoVars
  BY StepsOfFifo
<1> QED
  BY <1>1, <1>2, <1>3, <1>4, PTL DEF Spec, ImplementsBoundedFifo, Bounded!FSpec
=============================================================================
