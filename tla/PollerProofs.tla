---------------------------- MODULE PollerProofs -----------------------------
(* Machine-checked proofs of the safety invariants of the event loop, for   *)
(* any finite set of peers and any choice of backends and limits.           *)
EXTENDS PollerProperties, FiniteSetTheorems, WellFoundedInduction, TLAPS

(* A set of numbers that is not empty has a least one. *)
LEMMA MinFacts ==
  ASSUME NEW S, S \subseteq Nat, S # {}
  PROVE  Min(S) \in S /\ \A y \in S : Min(S) <= y
<1> DEFINE R == {ss \in Nat \X Nat : ss[1] < ss[2]}
<1>1. IsWellFoundedOn(R, Nat)
  BY NatLessThanWellFounded, Zenon DEF OpToRel
<1>2. PICK x \in S : \A y \in S : ~(<<y, x>> \in R)
  BY <1>1, WFMin
<1>3. ASSUME NEW y \in S PROVE x <= y
  <2>1. <<y, x>> \in Nat \X Nat /\ ~(<<y, x>> \in R)
    BY <1>2
  <2>2. ~(<<y, x>>[1] < <<y, x>>[2])
    BY <2>1, Zenon
  <2> QED
    BY <2>2
<1> QED
  BY <1>3 DEF Min

(* Of two numbers the larger one. *)
LEMMA MaxFacts ==
  ASSUME NEW a \in Int, NEW b \in Int
  PROVE  Max({a, b}) \in {a, b} /\ a <= Max({a, b}) /\ b <= Max({a, b})
<1>1. \E x \in {a, b} : \A y \in {a, b} : x >= y
  <2>1. CASE a >= b
    BY <2>1
  <2>2. CASE b >= a
    BY <2>2
  <2> QED
    BY <2>1, <2>2
<1>2. Max({a, b}) \in {a, b} /\ \A y \in {a, b} : Max({a, b}) >= y
  BY <1>1 DEF Max
<1> QED
  BY <1>2

(* The open descriptors, one by one. *)
LEMMA OpenFacts ==
  /\ \A f : f \in OpenFds <=> f = Server \/ \E p \in OpenPeers : peer[p].fd = f
  /\ Server \in OpenFds
  BY DEF OpenFds, OpenPeers

(* The descriptors are numbers. *)
LEMMA OpenNat ==
  ASSUME TypeOK
  PROVE  OpenFds \subseteq Nat
  BY DEF OpenFds, TypeOK, Server

(* The connection behind a descriptor. *)
LEMMA OwnerFacts ==
  ASSUME NEW f \in OpenFds, f # Server
  PROVE  OwnerOf(f) \in OpenPeers /\ peer[OwnerOf(f)].fd = f
<1>1. \E p \in Peers : peer[p].fd = f /\ peer[p].st = "open"
  BY OpenFacts DEF OpenPeers
<1> QED
  BY <1>1 DEF OwnerOf, OpenPeers

(* As long as a peer is not connected, a descriptor is left for it: there   *)
(* are as many numbers as peers and the server need.                        *)
LEMMA NewFdFacts ==
  ASSUME TypeOK, NEW p \in Peers, p \notin OpenPeers
  PROVE  NewFd \in Nat /\ NewFd \notin OpenFds
<1> DEFINE N == Cardinality(Peers)
           Fds == {peer[q].fd : q \in OpenPeers}
           Numbers == 1 .. N + 1
<1>1. IsFiniteSet(Peers) /\ N \in Nat
  BY PollerAssumption, FS_CardinalityType
<1>2. IsFiniteSet(OpenPeers) /\ Cardinality(OpenPeers) <= N - 1 /\ Cardinality(OpenPeers) \in Nat
  <2>1. OpenPeers \in SUBSET (Peers \ {p})
    BY DEF OpenPeers
  <2>2. IsFiniteSet(Peers \ {p}) /\ Cardinality(Peers \ {p}) = N - 1
    BY <1>1, FS_RemoveElement
  <2>3. IsFiniteSet(OpenPeers) /\ Cardinality(OpenPeers) <= Cardinality(Peers \ {p})
    BY <2>1, <2>2, FS_Subset
  <2> QED
    BY <2>2, <2>3, FS_CardinalityType
<1>3. IsFiniteSet(Fds) /\ Cardinality(Fds) <= Cardinality(OpenPeers)
  <2> DEFINE f == [q \in OpenPeers |-> peer[q].fd]
  <2>1. f \in Surjection(OpenPeers, Fds)
    BY DEF Surjection
  <2> QED
    BY <2>1, <1>2, FS_Surjection
<1>4. OpenFds = Fds \cup {Server}
  BY DEF OpenFds, OpenPeers
<1>5. IsFiniteSet(OpenFds) /\ Cardinality(OpenFds) <= N /\ Cardinality(OpenFds) \in Nat
  <2> HIDE DEF Fds, N
  <2>1. /\ IsFiniteSet(Fds \cup {Server}) /\ Cardinality(Fds) \in Nat
        /\ Cardinality(Fds \cup {Server}) <= Cardinality(Fds) + 1
    BY <1>3, FS_AddElement, FS_CardinalityType
  <2>2. Cardinality(OpenFds) \in Nat
    BY <2>1, <1>4, FS_CardinalityType
  <2> QED
    BY <2>1, <2>2, <1>1, <1>2, <1>3, <1>4
<1>6. Numbers \ OpenFds # {}
  <2> HIDE DEF N
  <2> SUFFICES ASSUME Numbers \subseteq OpenFds PROVE FALSE
    OBVIOUS
  <2>1. Cardinality(Numbers) = N + 1
    BY <1>1, FS_Interval
  <2>2. Cardinality(Numbers) <= Cardinality(OpenFds)
    BY <1>5, FS_Subset
  <2> QED
    BY <2>1, <2>2, <1>1, <1>5
<1>7. NewFd \in Numbers \ OpenFds
  <2>1. Numbers \ OpenFds \subseteq Nat
    BY <1>1
  <2> QED
    BY <2>1, <1>6, MinFacts DEF NewFd
<1> QED
  BY <1>1, <1>7

-----------------------------------------------------------------------------
PeerStates == [st : {"idle", "waiting", "open", "gone"}, fd : Nat, input : Nat,
               eof : BOOLEAN]

(* A step that opens and closes nothing *)
SameOpen ==
  \A p \in Peers : /\ peer'[p].st = "open" <=> peer[p].st = "open"
                   /\ peer[p].st = "open" => peer'[p].fd = peer[p].fd

(* leaves the descriptors alone. *)
LEMMA SameConnections ==
  ASSUME SameOpen
  PROVE  /\ OpenPeers' = OpenPeers /\ OpenFds' = OpenFds
         /\ FdsDistinct => FdsDistinct'
<1>1. OpenPeers' = OpenPeers /\ \A p \in OpenPeers : peer'[p].fd = peer[p].fd
  BY DEF OpenPeers, SameOpen
<1>2. \A f : f \in OpenFds' <=> f \in OpenFds
  <2>1. \A f : f \in OpenFds' <=> f = Server \/ \E p \in OpenPeers' : peer'[p].fd = f
    BY DEF OpenFds, OpenPeers
  <2> QED
    BY <1>1, <2>1, OpenFacts
<1>3. FdsDistinct => FdsDistinct'
  BY <1>1 DEF FdsDistinct
<1> QED
  BY <1>1, <1>2, <1>3

(* A peer that connects, sends or hangs up changes nothing the loop has     *)
(* registered or reported.                                                  *)
LEMMA PeerStep ==
  ASSUME PollerInv, NEW p \in Peers, Connect(p) \/ Send(p) \/ HangUp(p)
  PROVE  PollerInv'
<1>a. /\ TypeOK /\ FdsDistinct /\ BacklogWaits /\ RoundIsFresh
      /\ WatchesWhatIsOpen /\ NoStaleEvents
      /\ peer \in [Peers -> PeerStates]
      /\ backlog \in Seq(Peers)
  BY DEF PollerInv, TypeOK, PeerStates
<1>b. UNCHANGED <<conf, phase, fds, fdmax, todo, unwatched, closed>>
  BY DEF Connect, Send, HangUp, Outside
<1>1. PICK r \in PeerStates :
        /\ peer' = [peer EXCEPT ![p] = r]
        /\ r.st = "open" <=> peer[p].st = "open"
        /\ peer[p].st = "open" => r.fd = peer[p].fd
        /\ Connect(p) => r.st = "waiting"
        /\ ~Connect(p) => r.st = peer[p].st
  <2>a. peer[p] \in PeerStates
    BY <1>a
  <2>1. CASE Connect(p)
    <3> DEFINE r == [Idle EXCEPT !.st = "waiting"]
    <3>1. r \in PeerStates /\ r.st = "waiting"
      BY DEF PeerStates, Idle
    <3>2. peer' = [peer EXCEPT ![p] = r] /\ peer[p].st # "open"
      BY <2>1 DEF Connect
    <3> QED
      BY <2>1, <3>1, <3>2
  <2>2. CASE Send(p) /\ ~Connect(p)
    <3> DEFINE r == [peer[p] EXCEPT !.input = @ + 1]
    <3>1. r \in PeerStates /\ r.st = peer[p].st /\ r.fd = peer[p].fd
      BY <2>a DEF PeerStates
    <3>2. peer' = [peer EXCEPT ![p] = r]
      BY <2>2, <1>a DEF Send
    <3> QED
      BY <2>2, <3>1, <3>2
  <2>3. CASE HangUp(p) /\ ~Connect(p)
    <3> DEFINE r == [peer[p] EXCEPT !.eof = TRUE]
    <3>1. r \in PeerStates /\ r.st = peer[p].st /\ r.fd = peer[p].fd
      BY <2>a DEF PeerStates
    <3>2. peer' = [peer EXCEPT ![p] = r]
      BY <2>3, <1>a DEF HangUp
    <3> QED
      BY <2>3, <3>1, <3>2
  <2> QED
    BY <2>1, <2>2, <2>3
<1>c. /\ peer' \in [Peers -> PeerStates] /\ peer'[p] = r
      /\ \A q \in Peers \ {p} : peer'[q] = peer[q]
  BY <1>1, <1>a
<1>d. SameOpen
  BY <1>1, <1>c DEF SameOpen
<1>2. OpenPeers' = OpenPeers /\ OpenFds' = OpenFds /\ FdsDistinct'
  BY <1>d, <1>a, SameConnections
<1>3. backlog' \in Seq(Peers) /\ BacklogWaits' /\ (backlog # <<>> => backlog' # <<>>)
  <2>1. CASE Connect(p)
    <3>1. /\ backlog' = Append(backlog, p) /\ peer[p].st # "waiting"
          /\ peer'[p].st = "waiting"
      BY <2>1, <1>1, <1>c DEF Connect
    <3>2. /\ backlog' \in Seq(Peers) /\ Len(backlog') = Len(backlog) + 1
          /\ Len(backlog) \in Nat /\ backlog'[Len(backlog) + 1] = p
          /\ \A i \in 1 .. Len(backlog) : backlog'[i] = backlog[i] /\ backlog[i] \in Peers
      BY <3>1, <1>a
    <3>3. \A i \in 1 .. Len(backlog) : backlog[i] # p
      BY <3>1, <1>a DEF BacklogWaits
    <3>4. \A i \in 1 .. Len(backlog') : i \in 1 .. Len(backlog) \/ i = Len(backlog) + 1
      BY <3>2
    <3>5. \A i \in 1 .. Len(backlog') : peer'[backlog'[i]].st = "waiting"
      BY <3>1, <3>2, <3>3, <3>4, <1>c, <1>a DEF BacklogWaits
    <3>6. \A i, j \in 1 .. Len(backlog') : backlog'[i] = backlog'[j] => i = j
      BY <3>2, <3>3, <3>4, <1>a DEF BacklogWaits
    <3>7. backlog' # <<>>
      BY <3>2
    <3> QED
      BY <3>2, <3>5, <3>6, <3>7 DEF BacklogWaits
  <2>2. CASE (Send(p) \/ HangUp(p)) /\ ~Connect(p)
    <3>1. backlog' = backlog /\ peer'[p].st = peer[p].st
      BY <2>2, <1>1, <1>c DEF Send, HangUp
    <3>2. \A i \in 1 .. Len(backlog) : backlog[i] \in Peers
      BY <1>a
    <3> QED
      BY <3>1, <3>2, <1>c, <1>a DEF BacklogWaits
  <2> QED
    BY <2>1, <2>2
<1>4. TypeOK'
  BY <1>a, <1>b, <1>c, <1>3 DEF TypeOK, PeerStates
<1>5. RoundIsFresh'
  BY <1>a, <1>b, <1>2, <1>3 DEF RoundIsFresh
<1>6. WatchesWhatIsOpen' /\ NoStaleEvents'
  BY <1>a, <1>b, <1>2 DEF WatchesWhatIsOpen, NoStaleEvents
<1> QED
  BY <1>2, <1>3, <1>4, <1>5, <1>6 DEF PollerInv

(* A round that is reported has one event for each of some watched          *)
(* descriptors, and the server's only while a connection waits.             *)
LEMMA ReportIsFresh ==
  ASSUME PollerInv, Waits, NEW F, F \subseteq fds, NEW out \in [F -> BOOLEAN],
         Report({Event(f, out[f]) : f \in F}), Unhandled
  PROVE  PollerInv'
<1>a. /\ TypeOK /\ FdsDistinct /\ BacklogWaits /\ RoundIsFresh
      /\ WatchesWhatIsOpen /\ NoStaleEvents
  BY DEF PollerInv
<1>b. UNCHANGED <<conf, fds, fdmax, backlog, peer, unwatched, closed>>
  BY DEF Unhandled
<1>c. phase = "wait" /\ closed = {} /\ phase' = "round"
  BY <1>a DEF Waits, RoundIsFresh, Report
<1>d. F \subseteq OpenFds
  BY <1>a, <1>c DEF WatchesWhatIsOpen
<1>1. \A e \in todo' : \E f \in F :
        e = Event(f, out[f]) /\ e.fd = f /\ e.in = Readable(f)
  BY DEF Report, Event
<1>2. OpenFds' = OpenFds
  BY <1>b DEF OpenFds
<1>3. NoStaleEvents'
  BY <1>1, <1>2, <1>b, <1>c, <1>d DEF NoStaleEvents
<1>4. \A e \in todo' : e.fd = Server /\ e.in => backlog # <<>>
  BY <1>1 DEF Readable
<1>5. \A d, e \in todo' : d.fd = e.fd => d = e
  BY <1>1
<1>6. \A e \in todo' : e.fd \in fds
  BY <1>1
<1>7. RoundIsFresh'
  BY <1>b, <1>c, <1>4, <1>5, <1>6 DEF RoundIsFresh
<1>8. TypeOK' /\ FdsDistinct' /\ BacklogWaits'
  BY <1>a, <1>b DEF TypeOK, FdsDistinct, BacklogWaits, OpenPeers
<1>9. WatchesWhatIsOpen'
  BY <1>a, <1>b, <1>c, <1>2 DEF WatchesWhatIsOpen
<1> QED
  BY <1>3, <1>7, <1>8, <1>9 DEF PollerInv

(* The wait of each backend. *)
LEMMA WaitStep ==
  ASSUME PollerInv, Wait \/ TimesOut \/ Interrupted
  PROVE  PollerInv'
<1>a. /\ TypeOK /\ FdsDistinct /\ BacklogWaits /\ RoundIsFresh
      /\ WatchesWhatIsOpen /\ NoStaleEvents
  BY DEF PollerInv
<1>b. \A f : (conf.writer /\ Writable(f)) \in BOOLEAN
  BY DEF Writable
<1>1. CASE SelectReturns
  <2>a. Waits /\ phase = "wait" /\ conf.backend = "select"
    BY <1>1 DEF SelectReturns, Waits
  <2> DEFINE F == fds \cap 0 .. fdmax
             out == [f \in F |-> conf.writer /\ Writable(f)]
  <2>1. fds \subseteq OpenFds
    BY <2>a, <1>a DEF WatchesWhatIsOpen
  <2>2. {Event(f, conf.writer /\ Writable(f)) : f \in F} = {Event(f, out[f]) : f \in F}
    OBVIOUS
  <2>3. Report({Event(f, out[f]) : f \in F}) /\ Unhandled
    BY <1>1, <2>1, <2>2 DEF SelectReturns
  <2>4. out \in [F -> BOOLEAN] /\ F \subseteq fds
    BY <1>b
  <2> HIDE DEF F, out
  <2> QED
    BY <2>a, <2>3, <2>4, ReportIsFresh
<1>2. CASE EpollReturns
  <2>1. PICK F \in SUBSET fds :
          Report({Event(f, conf.writer /\ Writable(f)) : f \in F}) /\ Waits /\ Unhandled
    BY <1>2 DEF EpollReturns
  <2> DEFINE out == [f \in F |-> conf.writer /\ Writable(f)]
  <2>2. {Event(f, conf.writer /\ Writable(f)) : f \in F} = {Event(f, out[f]) : f \in F}
    OBVIOUS
  <2>3. Report({Event(f, out[f]) : f \in F})
    BY <2>1, <2>2
  <2>4. out \in [F -> BOOLEAN] /\ F \subseteq fds
    BY <1>b
  <2> HIDE DEF out
  <2> QED
    BY <2>1, <2>3, <2>4, ReportIsFresh
<1>3. CASE KqueueReturns
  <2>1. PICK F \in SUBSET fds : Report({Event(f, TRUE) : f \in F})
    BY <1>3 DEF KqueueReturns
  <2> DEFINE out == [f \in F |-> TRUE]
  <2>2. {Event(f, TRUE) : f \in F} = {Event(f, out[f]) : f \in F}
    OBVIOUS
  <2>3. Report({Event(f, out[f]) : f \in F}) /\ Unhandled /\ Waits
    BY <1>3, <2>1, <2>2 DEF KqueueReturns
  <2>4. out \in [F -> BOOLEAN] /\ F \subseteq fds
    OBVIOUS
  <2> HIDE DEF out
  <2> QED
    BY <2>3, <2>4, ReportIsFresh
<1>4. CASE TimesOut \/ Interrupted
  <2>1. UNCHANGED <<conf, fds, fdmax, backlog, peer, unwatched, closed, todo>>
    BY <1>4 DEF TimesOut, Interrupted, Unhandled
  <2>2. phase' \in {"timeout", "failed"}
    BY <1>4 DEF TimesOut, Interrupted
  <2>a. phase = "wait"
    BY <1>4 DEF TimesOut, Interrupted, Waits
  <2>3. OpenFds' = OpenFds
    BY <2>1 DEF OpenFds
  <2>4. TypeOK' /\ FdsDistinct' /\ BacklogWaits' /\ RoundIsFresh'
    BY <1>a, <2>1, <2>2, <2>3 DEF TypeOK, FdsDistinct, BacklogWaits, OpenPeers, RoundIsFresh
  <2>5. WatchesWhatIsOpen'
    BY <1>a, <2>1, <2>2, <2>a, <2>3 DEF WatchesWhatIsOpen
  <2>6. NoStaleEvents'
    BY <1>a, <2>1, <2>3 DEF NoStaleEvents
  <2> QED
    BY <2>4, <2>5, <2>6 DEF PollerInv
<1> QED
  BY <1>1, <1>2, <1>3, <1>4 DEF Wait

-----------------------------------------------------------------------------
(* What the handling of an event leaves of the round. *)
LEMMA HandledFacts ==
  ASSUME PollerInv, NEW e \in todo, NextEvent(e), todo' = todo \ {e}
  PROVE  /\ phase = "round"
         /\ Handled(e) => phase' \in {"round", "crashed"} /\ conf' = conf
         /\ e.fd \in fds /\ e.fd \in OpenFds /\ e.fd \notin closed
         /\ \A d \in todo' : /\ d \in todo /\ d.fd # e.fd /\ d.fd \in fds
                             /\ d.fd \notin closed /\ d.fd \in OpenFds
  BY DEF PollerInv, RoundIsFresh, NoStaleEvents, NextEvent, Handled, Writes

(* The handlers that open and close nothing. *)
LEMMA QuietHandlers ==
  ASSUME PollerInv, NEW e \in todo,
         AcceptFails(e) \/ WriteOnly(e) \/ \E n \in 1 .. MaxInput : ReadSome(e, n)
  PROVE  PollerInv'
<1>a. /\ TypeOK /\ FdsDistinct /\ BacklogWaits /\ RoundIsFresh /\ WatchesWhatIsOpen
      /\ peer \in [Peers -> PeerStates] /\ backlog \in Seq(Peers)
  BY DEF PollerInv, TypeOK, PeerStates
<1>b. NextEvent(e) /\ Handled(e) /\ UNCHANGED <<fds, fdmax, backlog, unwatched, closed>>
  BY DEF AcceptFails, WriteOnly, ReadSome
<1>c. /\ phase = "round" /\ phase' \in {"round", "crashed"}
      /\ conf' = conf /\ todo' = todo \ {e} /\ e.fd \in OpenFds
      /\ \A d \in todo' : d \in todo /\ d.fd \in fds /\ d.fd \notin closed /\ d.fd \in OpenFds
  BY <1>b, HandledFacts DEF Handled
<1>1. /\ peer' \in [Peers -> PeerStates]
      /\ \A q \in Peers : peer'[q].st = peer[q].st /\ peer'[q].fd = peer[q].fd
  <2>1. CASE AcceptFails(e) \/ WriteOnly(e)
    BY <2>1, <1>a DEF AcceptFails, WriteOnly
  <2>2. ASSUME NEW n \in 1 .. MaxInput, ReadSome(e, n)
        PROVE  /\ peer' \in [Peers -> PeerStates]
               /\ \A q \in Peers : peer'[q].st = peer[q].st /\ peer'[q].fd = peer[q].fd
    <3>1. PICK p : /\ p = OwnerOf(e.fd) /\ n \in 1 .. peer[p].input
                   /\ peer' = [peer EXCEPT ![p].input = @ - n]
      BY <2>2 DEF ReadSome
    <3>2. p \in Peers
      BY <2>2, <3>1, <1>c, OwnerFacts DEF ReadSome, OpenPeers
    <3> DEFINE r == [peer[p] EXCEPT !.input = @ - n]
    <3>3. peer[p] \in PeerStates
      BY <3>2, <1>a
    <3>4. r \in PeerStates /\ r.st = peer[p].st /\ r.fd = peer[p].fd
      <4>1. peer[p].input \in Nat /\ peer[p].input - n \in Nat
        BY <3>1, <3>3 DEF PeerStates
      <4> QED
        BY <3>3, <4>1 DEF PeerStates
    <3>5. peer' = [peer EXCEPT ![p] = r]
      BY <3>1
    <3> HIDE DEF r
    <3> QED
      BY <3>2, <3>4, <3>5, <1>a
  <2> QED
    BY <2>1, <2>2
<1>2. SameOpen
  BY <1>1 DEF SameOpen
<1>3. OpenPeers' = OpenPeers /\ OpenFds' = OpenFds /\ FdsDistinct'
  BY <1>2, <1>a, SameConnections
<1>4. TypeOK'
  BY <1>1, <1>a, <1>b, <1>c DEF TypeOK, PeerStates
<1>5. BacklogWaits'
  <2>1. \A i \in 1 .. Len(backlog) : backlog[i] \in Peers
    BY <1>a
  <2> QED
    BY <2>1, <1>1, <1>a, <1>b DEF BacklogWaits
<1>6. RoundIsFresh'
  BY <1>3, <1>a, <1>b, <1>c DEF RoundIsFresh
<1>7. WatchesWhatIsOpen'
  BY <1>3, <1>a, <1>b, <1>c DEF WatchesWhatIsOpen
<1>8. NoStaleEvents'
  BY <1>3, <1>b, <1>c DEF NoStaleEvents
<1> QED
  BY <1>3, <1>4, <1>5, <1>6, <1>7, <1>8 DEF PollerInv

(* A connection is accepted under a descriptor nobody has. *)
LEMMA AcceptStep ==
  ASSUME PollerInv, NEW e \in todo, Accept(e)
  PROVE  PollerInv'
<1>a. /\ TypeOK /\ FdsDistinct /\ BacklogWaits /\ RoundIsFresh /\ WatchesWhatIsOpen
      /\ peer \in [Peers -> PeerStates] /\ backlog \in Seq(Peers) /\ fdmax \in Int
  BY DEF PollerInv, TypeOK, PeerStates
<1>b. /\ NextEvent(e) /\ conf' = conf /\ todo' = todo \ {e} /\ e.fd = Server
      /\ closed' = closed
  BY DEF Accept, Handled
<1>c. backlog # <<>>
  BY <1>a DEF Accept, RoundIsFresh
<1>1. PICK p, n : /\ p = Head(backlog) /\ n = NewFd
                  /\ peer' = [peer EXCEPT ![p].st = "open", ![p].fd = n]
                  /\ backlog' = Tail(backlog)
                  /\ \/ phase' = "overrun" /\ UNCHANGED <<fds, fdmax, unwatched>>
                     \/ Add(n) /\ Handled(e)
  BY DEF Accept
<1>d. /\ Len(backlog) \in Nat /\ Len(backlog) >= 1 /\ p = backlog[1] /\ p \in Peers
      /\ Tail(backlog) \in Seq(Peers) /\ Len(Tail(backlog)) = Len(backlog) - 1
      /\ \A i \in 1 .. Len(backlog) - 1 : Tail(backlog)[i] = backlog[i + 1]
  BY <1>1, <1>a, <1>c
<1>e. peer[p].st = "waiting" /\ p \notin OpenPeers
  BY <1>a, <1>d DEF BacklogWaits, OpenPeers
<1>f. n \in Nat /\ n \notin OpenFds
  BY <1>1, <1>a, <1>d, <1>e, NewFdFacts
<1>2. /\ peer' \in [Peers -> PeerStates]
      /\ peer'[p].st = "open" /\ peer'[p].fd = n
      /\ \A q \in Peers \ {p} : peer'[q] = peer[q]
  <2> DEFINE r == [peer[p] EXCEPT !.st = "open", !.fd = n]
  <2>1. peer[p] \in PeerStates
    BY <1>a, <1>d
  <2>2. r \in PeerStates /\ r.st = "open" /\ r.fd = n
    BY <2>1, <1>f DEF PeerStates
  <2>3. peer' = [peer EXCEPT ![p] = r]
    BY <1>1, <1>a, <1>d
  <2> HIDE DEF r
  <2> QED
    BY <2>2, <2>3, <1>a, <1>d
<1>3. OpenPeers' = OpenPeers \cup {p} /\ \A q \in OpenPeers : peer'[q].fd = peer[q].fd
  BY <1>2, <1>d, <1>e DEF OpenPeers
<1>4. OpenFds' = OpenFds \cup {n}
  <2>1. \A f : f \in OpenFds' <=> f = Server \/ \E q \in OpenPeers' : peer'[q].fd = f
    BY DEF OpenFds, OpenPeers
  <2>2. \A f : f \in OpenFds' <=> f \in OpenFds \/ f = n
    BY <2>1, <1>2, <1>3, OpenFacts
  <2> QED
    BY <2>2
<1>5. FdsDistinct'
  <2>1. n # Server /\ \A q \in OpenPeers : peer[q].fd # n
    BY <1>f, OpenFacts
  <2>2. \A q \in OpenPeers' : q = p \/ (q \in OpenPeers /\ peer'[q].fd = peer[q].fd)
    BY <1>3
  <2>3. \A q \in OpenPeers' : peer'[q].fd # Server
    BY <2>1, <2>2, <1>2, <1>a DEF FdsDistinct
  <2>4. \A q, o \in OpenPeers' : peer'[q].fd = peer'[o].fd => q = o
    BY <2>1, <2>2, <1>2, <1>a DEF FdsDistinct
  <2> QED
    BY <2>3, <2>4 DEF FdsDistinct
<1>6. BacklogWaits'
  <2>1. \A i \in 1 .. Len(backlog) - 1 : backlog[i + 1] \in Peers /\ backlog[i + 1] # p
    BY <1>a, <1>d DEF BacklogWaits
  <2>2. \A i \in 1 .. Len(backlog') : i \in 1 .. Len(backlog) - 1 /\ i + 1 \in 1 .. Len(backlog)
                                     /\ backlog'[i] = backlog[i + 1]
    BY <1>1, <1>d
  <2>3. \A i \in 1 .. Len(backlog') : peer'[backlog'[i]].st = "waiting"
    BY <2>1, <2>2, <1>2, <1>a, SMTT(30) DEF BacklogWaits
  <2>4. \A i, j \in 1 .. Len(backlog') : backlog'[i] = backlog'[j] => i = j
    <3> SUFFICES ASSUME NEW i \in 1 .. Len(backlog'), NEW j \in 1 .. Len(backlog'),
                        backlog'[i] = backlog'[j]
                 PROVE  i = j
      OBVIOUS
    <3>1. i + 1 = j + 1
      BY <2>2, <1>a DEF BacklogWaits
    <3> QED
      BY <3>1
  <2> QED
    BY <2>3, <2>4 DEF BacklogWaits
<1>h. /\ phase = "round" /\ phase' # "wait"
      /\ \A d \in todo' : /\ d \in todo /\ d.fd # Server /\ d.fd \in fds
                          /\ d.fd \notin closed /\ d.fd \in OpenFds
  BY <1>b, <1>1, HandledFacts
<1>g. /\ fdmax' \in Int /\ fds \subseteq fds'
      /\ \/ phase' = "overrun"
         \/ /\ fds' = fds \cup {n} /\ unwatched' = unwatched
            /\ conf.backend = "select" => n <= fdmax' /\ fdmax <= fdmax'
         \/ conf.backend # "select" /\ fds' = fds /\ unwatched' = unwatched \cup {n}
  <2>1. CASE phase' = "overrun" /\ UNCHANGED <<fds, fdmax, unwatched>>
    BY <2>1, <1>a
  <2>2. CASE Registered(n)
    <3>1. PICK m : m = Max({n, fdmax})
      OBVIOUS
    <3>2. m \in Int /\ n <= m /\ fdmax <= m
      <4>1. n \in Int
        BY <1>f
      <4>2. m \in {n, fdmax} /\ n <= m /\ fdmax <= m
        BY <4>1, <3>1, <1>a, MaxFacts, Zenon
      <4> QED
        BY <4>1, <4>2, <1>a
    <3>3. /\ fds' = fds \cup {n} /\ unwatched' = unwatched /\ fdmax' \in {m, fdmax}
          /\ conf.backend = "select" => fdmax' = m
      BY <2>2, <3>1 DEF Registered, SelectAdd, KqueueAdd, EpollAdd
    <3> QED
      BY <3>2, <3>3, <1>a
  <2>3. CASE Refused(n)
    BY <2>3, <1>a DEF Refused
  <2> QED
    BY <2>1, <2>2, <2>3, <1>1 DEF Add
<1>7. TypeOK'
  BY <1>2, <1>a, <1>b, <1>d, <1>1, <1>g DEF TypeOK, PeerStates
<1>8. RoundIsFresh' /\ NoStaleEvents'
  BY <1>4, <1>a, <1>b, <1>g, <1>h DEF RoundIsFresh, NoStaleEvents
<1>9. WatchesWhatIsOpen'
  <2> SUFFICES ASSUME phase' # "overrun" PROVE WatchesWhatIsOpen'
    BY DEF WatchesWhatIsOpen
  <2>1. /\ fds \cup unwatched = OpenFds /\ fds \cap unwatched = {}
        /\ conf.backend = "select" => unwatched = {} /\ \A f \in fds : f <= fdmax
    BY <1>a, <1>h DEF WatchesWhatIsOpen
  <2>2. CASE conf.backend # "select" /\ fds' = fds /\ unwatched' = unwatched \cup {n}
    BY <2>1, <2>2, <1>4, <1>b, <1>f DEF WatchesWhatIsOpen
  <2>3. CASE /\ fds' = fds \cup {n} /\ unwatched' = unwatched
             /\ conf.backend = "select" => n <= fdmax' /\ fdmax <= fdmax'
    <3>1. fds' \cup unwatched' = OpenFds' /\ fds' \cap unwatched' = {}
      BY <2>1, <2>3, <1>4, <1>f
    <3>2. ASSUME conf.backend = "select", NEW f \in fds' PROVE f <= fdmax'
      <4>1. f = n \/ (f \in fds /\ f <= fdmax)
        BY <3>2, <2>1, <2>3
      <4>2. f \in Int
        BY <4>1, <2>1, <1>a, <1>f, OpenNat
      <4> QED
        BY <4>1, <4>2, <3>2, <2>3, <1>a, <1>g
    <3> QED
      BY <3>1, <3>2, <2>1, <2>3, <1>b DEF WatchesWhatIsOpen
  <2> QED
    BY <2>2, <2>3, <1>g
<1> QED
  BY <1>5, <1>6, <1>7, <1>8, <1>9 DEF PollerInv

(* A connection is closed and its descriptor forgotten, and no other event  *)
(* of the round is for it.                                                  *)
LEMMA ReadFailsStep ==
  ASSUME PollerInv, NEW e \in todo, ReadFails(e)
  PROVE  PollerInv'
<1>a. /\ TypeOK /\ FdsDistinct /\ BacklogWaits /\ RoundIsFresh /\ WatchesWhatIsOpen
      /\ peer \in [Peers -> PeerStates] /\ backlog \in Seq(Peers) /\ fdmax \in Int
  BY DEF PollerInv, TypeOK, PeerStates
<1>b. /\ NextEvent(e) /\ Handled(e) /\ conf' = conf /\ todo' = todo \ {e}
      /\ e.fd # Server /\ backlog' = backlog /\ unwatched' = unwatched
      /\ closed' = closed \cup {e.fd}
  BY DEF ReadFails, Handled
<1>1. PICK p, f : /\ p = OwnerOf(e.fd) /\ f = e.fd /\ RemoveFd(f)
                  /\ peer' = [peer EXCEPT ![p] = [Idle EXCEPT !.st = "gone"]]
  BY DEF ReadFails
<1>h. /\ phase = "round" /\ phase' \in {"round", "crashed"} /\ f \in fds /\ f \in OpenFds
      /\ \A d \in todo' : /\ d \in todo /\ d.fd # f /\ d.fd \in fds
                          /\ d.fd \notin closed /\ d.fd \in OpenFds
  BY <1>1, <1>b, HandledFacts
<1>c. f \in OpenFds /\ f # Server /\ p \in OpenPeers /\ p \in Peers /\ peer[p].fd = f
  BY <1>1, <1>h, <1>b, OwnerFacts DEF OpenPeers
<1>2. /\ peer' \in [Peers -> PeerStates] /\ peer'[p].st = "gone"
      /\ \A q \in Peers \ {p} : peer'[q] = peer[q]
  <2> DEFINE r == [Idle EXCEPT !.st = "gone"]
  <2>1. r \in PeerStates /\ r.st = "gone"
    BY DEF PeerStates, Idle
  <2>2. peer' = [peer EXCEPT ![p] = r]
    BY <1>1
  <2> HIDE DEF r
  <2> QED
    BY <2>1, <2>2, <1>a, <1>c
<1>3. OpenPeers' = OpenPeers \ {p} /\ \A q \in OpenPeers' : peer'[q].fd = peer[q].fd
  BY <1>2, <1>c DEF OpenPeers
<1>4. OpenFds' = OpenFds \ {f}
  <2>1. \A g : g \in OpenFds' <=> g = Server \/ \E q \in OpenPeers' : peer'[q].fd = g
    BY DEF OpenFds, OpenPeers
  <2>2. \A g : g \in OpenFds' <=> g \in OpenFds /\ g # f
    BY <2>1, <1>3, <1>a, <1>c, OpenFacts DEF FdsDistinct
  <2> QED
    BY <2>2
<1>5. FdsDistinct'
  BY <1>3, <1>a DEF FdsDistinct
<1>6. BacklogWaits'
  <2>1. \A i \in 1 .. Len(backlog) : backlog[i] \in Peers /\ backlog[i] # p
    BY <1>a, <1>c DEF BacklogWaits, OpenPeers
  <2> QED
    BY <2>1, <1>2, <1>a, <1>b DEF BacklogWaits
<1>g. /\ fds' = fds \ {f} /\ fdmax' \in Int
      /\ conf.backend = "select" => fdmax' = IF f = fdmax THEN fdmax - 1 ELSE fdmax
  BY <1>1, <1>a DEF RemoveFd, SelectRemove, KqueueRemove, EpollRemove
<1>7. TypeOK'
  BY <1>2, <1>a, <1>b, <1>g DEF TypeOK, PeerStates
<1>8. RoundIsFresh' /\ NoStaleEvents'
  BY <1>1, <1>4, <1>a, <1>b, <1>g, <1>h DEF RoundIsFresh, NoStaleEvents
<1>9. WatchesWhatIsOpen'
  <2>1. /\ fds \cup unwatched = OpenFds /\ fds \cap unwatched = {}
        /\ conf.backend = "select" => unwatched = {} /\ \A h \in fds : h <= fdmax
    BY <1>a, <1>h DEF WatchesWhatIsOpen
  <2>2. fds' \cup unwatched' = OpenFds' /\ fds' \cap unwatched' = {}
    BY <2>1, <1>4, <1>b, <1>g, <1>h
  <2>3. ASSUME conf.backend = "select", NEW h \in fds' PROVE h <= fdmax'
    <3>1. h \in Int /\ f \in Int
      BY <2>1, <1>a, <1>c, <1>g, OpenNat
    <3>2. h # f /\ h <= fdmax
      BY <2>1, <2>3, <1>g
    <3> QED
      BY <3>1, <3>2, <2>3, <1>a, <1>g
  <2> QED
    BY <2>1, <2>2, <2>3, <1>b DEF WatchesWhatIsOpen
<1> QED
  BY <1>5, <1>6, <1>7, <1>8, <1>9 DEF PollerInv

(* The rest of the loop. *)
LEMMA LoopStep ==
  ASSUME PollerInv, Stop \/ RoundEnds \/ UNCHANGED vars
  PROVE  PollerInv'
<1>a. /\ TypeOK /\ FdsDistinct /\ BacklogWaits /\ RoundIsFresh
      /\ WatchesWhatIsOpen /\ NoStaleEvents
  BY DEF PollerInv
<1>1. /\ UNCHANGED <<conf, fds, fdmax, backlog, peer, unwatched>>
      /\ (todo' = todo /\ phase' = phase /\ closed' = closed)
         \/ (todo' = {} /\ phase = "round" /\ phase' \in {"wait", "done"} /\ closed' = {})
  BY DEF Stop, RoundEnds, vars, loopVars
<1>2. OpenFds' = OpenFds
  BY <1>1 DEF OpenFds
<1>3. TypeOK' /\ FdsDistinct' /\ BacklogWaits' /\ RoundIsFresh'
  BY <1>a, <1>1, <1>2 DEF TypeOK, FdsDistinct, BacklogWaits, OpenPeers, RoundIsFresh
<1>4. WatchesWhatIsOpen' /\ NoStaleEvents'
  BY <1>a, <1>1, <1>2 DEF WatchesWhatIsOpen, NoStaleEvents
<1> QED
  BY <1>3, <1>4 DEF PollerInv

LEMMA InitPollerInv == Init => PollerInv
<1> SUFFICES ASSUME Init PROVE PollerInv
  OBVIOUS
<1>1. \A p \in Peers : peer[p] = Idle
  BY DEF Init
<1>2. OpenPeers = {} /\ OpenFds = {Server}
  BY <1>1 DEF OpenPeers, OpenFds, Idle
<1>3. TypeOK
  BY DEF Init, TypeOK, Idle, Server
<1>4. FdsDistinct /\ BacklogWaits /\ RoundIsFresh /\ NoStaleEvents
  BY <1>2 DEF Init, FdsDistinct, BacklogWaits, RoundIsFresh, NoStaleEvents
<1>5. WatchesWhatIsOpen
  BY <1>2 DEF Init, WatchesWhatIsOpen, Server
<1> QED
  BY <1>3, <1>4, <1>5 DEF PollerInv

(* The inductive invariant of the loop holds whatever the peers do, with    *)
(* every backend.                                                           *)
THEOREM LoopInvariance == Spec => []PollerInv
<1>1. PollerInv /\ [Next]_vars => PollerInv'
  BY PeerStep, WaitStep, QuietHandlers, AcceptStep, ReadFailsStep, LoopStep
  DEF Next, Handle, Ended
<1> QED
  BY <1>1, InitPollerInv, PTL DEF Spec

(* The descriptors the backend watches are the open ones but for those that *)
(* iopoll_add has refused, and select's fdmax hides none of them, for any   *)
(* number of peers: lowering fdmax by one in __iopoll_select_remove is      *)
(* enough.  It holds until a descriptor does not fit in select's set.       *)
THEOREM WatchingCorrect == Spec => []WatchesWhatIsOpen
<1>1. PollerInv => WatchesWhatIsOpen
  BY DEF PollerInv
<1> QED
  BY <1>1, LoopInvariance, PTL

(* No event of a round is left for a descriptor that an earlier event of    *)
(* the round has closed, though its number may be in use again.             *)
THEOREM NoStaleCorrect == Spec => []NoStaleEvents
<1>1. PollerInv => NoStaleEvents
  BY DEF PollerInv
<1> QED
  BY <1>1, LoopInvariance, PTL
=============================================================================
