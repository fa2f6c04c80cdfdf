------------------------------- MODULE Poller --------------------------------
(***************************************************************************)
(* The event loop of socket/iopoll.c under the server of                   *)
(* socket/sockpoll.c: one listening socket, the connections accepted from  *)
(* it, and the three backends select, epoll (edge-triggered) and kqueue.   *)
(* The peers, the kernel and the handlers read_f, write_f and accept_f of  *)
(* the application are outside; the handlers are those of                  *)
(* socket/tcp-server.c: read_f reads some of what there is and fails when  *)
(* there is nothing left behind a hang-up.                                 *)
(***************************************************************************)
EXTENDS Integers, Sequences, FiniteSets, SequencesExt, FiniteSetsExt

CONSTANTS
  Peers,
  Backends,    \* a subset of {"select", "epoll", "kqueue"}
  EventLimits, \* values of __IO_EPOLL_FDS and __IO_KQUEUE_EVENTS
  MaxInput,    \* bound: bytes a peer has sent and nobody has read
  SetSizes,    \* values of FD_SETSIZE
  MaxFaults    \* bound: failures of accept and of iopoll_add

ASSUME PollerAssumption == IsFiniteSet(Peers)

VARIABLES
  conf,      \* [backend, writer: write_f # NULL, timeout: > 0, limit: FD_SETSIZE
             \* for select, the most events of a round for the others]
  phase,     \* of the loop: "wait", "round" or how it has ended
  looping,   \* *is_looping
  fds,       \* the descriptors registered with the backend
  fdmax,     \* of select: the largest descriptor it looks at
  edges,     \* of epoll: descriptors with news since they were last reported,
             \* in the order of the news
  todo,      \* the events of the round that are still to be handled
  backlog,   \* the peers whose connections wait to be accepted
  peer,      \* for each peer [st, fd, input, eof]
  unwatched, \* history: the open descriptors that iopoll_add has refused
  closed,    \* history: the descriptors closed in this round
  faults     \* how often accept and iopoll_add have failed

loopVars == <<fds, fdmax, edges, todo>>
vars == <<conf, phase, looping, loopVars, backlog, peer, unwatched, closed, faults>>

Server == 1   \* the listening socket
Idle == [st |-> "idle", fd |-> 0, input |-> 0, eof |-> FALSE]

OpenFds  == {Server} \cup {peer[p].fd : p \in {q \in Peers : peer[q].st = "open"}}
NewFd    == Min((1 .. Cardinality(Peers) + 1) \ OpenFds)
OwnerOf(f) == CHOOSE p \in Peers : peer[p].fd = f /\ peer[p].st = "open"
Readable(f) ==
  IF f = Server THEN backlog # <<>>
  ELSE f \in OpenFds /\ (peer[OwnerOf(f)].input > 0 \/ peer[OwnerOf(f)].eof)
Writable(f) == f \in OpenFds \ {Server}
Ended == phase \notin {"wait", "round"}

(* iopoll_alloc: the backend, the handlers and the timeout are chosen. *)
Configurations ==
       [backend : Backends \cap {"select"}, writer : BOOLEAN, timeout : BOOLEAN,
        limit : SetSizes]
  \cup [backend : Backends \ {"select"}, writer : BOOLEAN, timeout : BOOLEAN,
        limit : EventLimits]

(* sockpoll_alloc; it does not look at what its iopoll_add returns. *)
Init ==
  /\ conf \in Configurations
  /\ phase = "wait" /\ looping = TRUE
  /\ fdmax = Server /\ edges = <<>> /\ todo = {}
  /\ backlog = <<>> /\ peer = [p \in Peers |-> Idle]
  /\ closed = {}
  /\ \/ fds = {Server} /\ unwatched = {} /\ faults = 0
     \/ conf.backend # "select" /\ fds = {} /\ unwatched = {Server} /\ faults = 1

-----------------------------------------------------------------------------
(* The peers, and the edges the kernel remembers for epoll. *)
WithNews(f) ==
  IF conf.backend # "epoll" \/ f \notin fds \/ Contains(edges, f) THEN edges ELSE Append(edges, f)
News(p) == edges' = IF peer[p].st = "open" THEN WithNews(peer[p].fd) ELSE edges
Outside == UNCHANGED <<conf, phase, looping, fds, fdmax, todo, unwatched, closed, faults>>

Connect(p) ==
  /\ peer[p].st \in {"idle", "gone"}
  /\ peer' = [peer EXCEPT ![p] = [Idle EXCEPT !.st = "waiting"]]
  /\ backlog' = Append(backlog, p)
  /\ edges' = WithNews(Server)
  /\ Outside

Send(p) ==
  /\ peer[p].st \in {"waiting", "open"} /\ ~peer[p].eof /\ peer[p].input < MaxInput
  /\ peer' = [peer EXCEPT ![p].input = @ + 1]
  /\ News(p) /\ Outside /\ UNCHANGED backlog

HangUp(p) ==
  /\ peer[p].st \in {"waiting", "open"} /\ ~peer[p].eof
  /\ peer' = [peer EXCEPT ![p].eof = TRUE]
  /\ News(p) /\ Outside /\ UNCHANGED backlog

-----------------------------------------------------------------------------
(* The wait of each backend: the events it reports.  What there is no news *)
(* or no data for does not end the wait.                                   *)
Event(f, out) == [fd |-> f, in |-> Readable(f), out |-> out]
Report(events) ==
  /\ phase' = "round"
  /\ todo' = {e \in events : e.in \/ e.out} /\ todo' # {}
Waits == phase = "wait" /\ looping
Unhandled == UNCHANGED <<conf, looping, fds, fdmax, backlog, peer, unwatched, closed, faults>>

(* Mutant: the loop ends before fdmax. *)
SelectReturnsMutant ==
  /\ Waits /\ conf.backend = "select"
  /\ LET events == {Event(f, conf.writer /\ Writable(f)) : f \in fds \cap 0 .. fdmax - 1}
     IN IF fds \subseteq OpenFds THEN Report(events)
        ELSE phase' = "ebadf" /\ UNCHANGED todo
  /\ Unhandled /\ UNCHANGED edges

(* __iopoll_select; a closed descriptor in the set is an error. *)
SelectReturns ==
  /\ Waits /\ conf.backend = "select"
  /\ LET events == {Event(f, conf.writer /\ Writable(f)) : f \in fds \cap 0 .. fdmax}
     IN IF fds \subseteq OpenFds THEN Report(events)
        ELSE phase' = "ebadf" /\ UNCHANGED todo
  /\ Unhandled /\ UNCHANGED edges

(* Mutant: news that is not reported yet is forgotten. *)
EpollReturnsMutant ==
  /\ Waits /\ conf.backend = "epoll"
  /\ LET ready == SelectSeq(edges, LAMBDA f : Readable(f) \/ (conf.writer /\ Writable(f)))
         first == {f \in fds : \E i \in 1 .. Min({conf.limit, Len(ready)}) : ready[i] = f}
     IN /\ Report({Event(f, conf.writer /\ Writable(f)) : f \in first})
        /\ edges' = <<>>
  /\ Unhandled

(* __iopoll_epoll: EPOLLET; the first of the descriptors with news. *)
EpollReturns ==
  /\ Waits /\ conf.backend = "epoll"
  /\ LET ready == SelectSeq(edges, LAMBDA f : Readable(f) \/ (conf.writer /\ Writable(f)))
         first == {f \in fds : \E i \in 1 .. Min({conf.limit, Len(ready)}) : ready[i] = f}
     IN /\ Report({Event(f, conf.writer /\ Writable(f)) : f \in first})
        /\ edges' = SelectSeq(edges, LAMBDA f : f \notin first)
  /\ Unhandled

(* Mutant: reading and writing are events of their own. *)
KqueueReturnsMutant ==
  /\ Waits /\ conf.backend = "kqueue"
  /\ \E S \in SUBSET (fds \X BOOLEAN) :
       /\ Cardinality(S) <= conf.limit
       /\ Report({[fd |-> r[1], in |-> r[2] /\ Readable(r[1]), out |-> ~r[2] /\ Writable(r[1])] : r \in S})
  /\ Unhandled /\ UNCHANGED edges

(* __iopoll_kqueue: EVFILT_READ | EVFILT_WRITE is EVFILT_READ, and an      *)
(* event of it has the bits of both.                                       *)
KqueueReturns ==
  /\ Waits /\ conf.backend = "kqueue"
  /\ \E S \in SUBSET {f \in fds : Readable(f)} :
       Cardinality(S) <= conf.limit /\ Report({Event(f, TRUE) : f \in S})
  /\ Unhandled /\ UNCHANGED edges

(* Only epoll is told of a timeout; iopoll->timeout is unsigned, so that   *)
(* timeout < 1 never holds in the others.                                  *)
TimesOut ==
  /\ Waits /\ conf.backend = "epoll" /\ conf.timeout
  /\ phase' = "timeout"
  /\ Unhandled /\ UNCHANGED <<edges, todo>>

(* A signal ends the wait and the loop. *)
Interrupted ==
  /\ Waits /\ phase' = "failed"
  /\ Unhandled /\ UNCHANGED <<edges, todo>>

-----------------------------------------------------------------------------
(* iopoll_add; epoll reports a descriptor that is ready when it is added. *)
SelectAdd(f) == fdmax' = Max({f, fdmax}) /\ UNCHANGED edges
KqueueAdd(f) == UNCHANGED <<fdmax, edges>>
EpollAdd(f)  == edges' = Append(edges, f) /\ UNCHANGED fdmax

Registered(f) ==
  /\ fds' = fds \cup {f} /\ UNCHANGED <<unwatched, faults>>
  /\ \/ conf.backend = "select" /\ SelectAdd(f)
     \/ conf.backend = "kqueue" /\ KqueueAdd(f)
     \/ conf.backend = "epoll" /\ EpollAdd(f)

(* kevent() or epoll_ctl() fails. *)
Refused(f) ==
  /\ conf.backend # "select" /\ faults < MaxFaults /\ faults' = faults + 1
  /\ unwatched' = unwatched \cup {f}
  /\ UNCHANGED <<fds, fdmax, edges>>

Add(f) == Registered(f) \/ Refused(f)

(* FD_SET writes behind the set. *)
Overruns(f) == conf.backend = "select" /\ f >= conf.limit

(* iopoll_remove *)
SelectRemove(f) == fdmax' = (IF f = fdmax THEN fdmax - 1 ELSE fdmax) /\ UNCHANGED edges
KqueueRemove(f) == UNCHANGED <<fdmax, edges>>
EpollRemove(f)  == edges' = Remove(edges, f) /\ UNCHANGED fdmax

(* Mutant: the backend does not forget the descriptor. *)
RemoveFdMutant(f) == UNCHANGED <<fds, fdmax>> /\ edges' = Remove(edges, f)

RemoveFd(f) ==
  /\ fds' = fds \ {f}
  /\ \/ conf.backend = "select" /\ SelectRemove(f)
     \/ conf.backend = "kqueue" /\ KqueueRemove(f)
     \/ conf.backend = "epoll" /\ EpollRemove(f)

(* The next event: select goes through the descriptors in their order. *)
NextEvent(e) ==
  /\ phase = "round" /\ looping /\ e \in todo
  /\ conf.backend = "select" => \A d \in todo : e.fd <= d.fd

(* write_f, also for the event of a descriptor that read_f has just closed *)
Writes(e) == phase' = IF e.out /\ ~conf.writer THEN "crashed" ELSE phase

Handled(e) ==
  /\ todo' = todo \ {e}
  /\ Writes(e)
  /\ UNCHANGED <<conf, looping>>

(* __sockpoll_read: one connection is accepted, and stays open when it     *)
(* cannot be watched;                                                      *)
Accept(e) ==
  /\ NextEvent(e) /\ e.in /\ e.fd = Server
  /\ peer' = [peer EXCEPT ![Head(backlog)].st = "open", ![Head(backlog)].fd = NewFd]
  /\ backlog' = Tail(backlog)
  /\ IF Overruns(NewFd)
     THEN /\ phase' = "overrun" /\ todo' = todo \ {e}
          /\ UNCHANGED <<conf, looping, fds, fdmax, edges, unwatched, faults>>
     ELSE Add(NewFd) /\ Handled(e)
  /\ UNCHANGED closed

(* or accept_f fails; *)
AcceptFails(e) ==
  /\ NextEvent(e) /\ e.in /\ e.fd = Server
  /\ faults < MaxFaults /\ faults' = faults + 1
  /\ UNCHANGED <<fds, fdmax, edges, backlog, peer, unwatched, closed>> /\ Handled(e)

(* n bytes of a connection are read, *)
ReadSome(e, n) ==
  /\ NextEvent(e) /\ e.in /\ e.fd # Server
  /\ LET p == OwnerOf(e.fd)
     IN n \in 1 .. peer[p].input /\ peer' = [peer EXCEPT ![p].input = @ - n]
  /\ Handled(e) /\ UNCHANGED <<fds, fdmax, edges, backlog, unwatched, closed, faults>>

(* or read_f fails and the connection is closed. *)
ReadFails(e) ==
  /\ NextEvent(e) /\ e.in /\ e.fd # Server
  /\ LET p == OwnerOf(e.fd)
     IN /\ peer[p].input = 0
        /\ peer' = [peer EXCEPT ![p] = [Idle EXCEPT !.st = "gone"]]
  /\ RemoveFd(e.fd) /\ closed' = closed \cup {e.fd}
  /\ Handled(e) /\ UNCHANGED <<backlog, unwatched, faults>>

WriteOnly(e) ==
  /\ NextEvent(e) /\ ~e.in
  /\ UNCHANGED <<fds, fdmax, edges, backlog, peer, unwatched, closed, faults>> /\ Handled(e)

(* A handler has cleared *is_looping. *)
Stop ==
  /\ phase = "round" /\ looping /\ looping' = FALSE
  /\ UNCHANGED <<conf, phase, loopVars, backlog, peer, unwatched, closed, faults>>

(* Mutant: the flag is not looked at between two rounds. *)
RoundEndsMutant ==
  /\ phase = "round" /\ (todo = {} \/ ~looping)
  /\ phase' = "wait" /\ todo' = {} /\ closed' = {}
  /\ UNCHANGED <<conf, looping, fds, fdmax, edges, backlog, peer, unwatched, faults>>

RoundEnds ==
  /\ phase = "round" /\ (todo = {} \/ ~looping)
  /\ phase' = (IF looping THEN "wait" ELSE "done") /\ todo' = {} /\ closed' = {}
  /\ UNCHANGED <<conf, looping, fds, fdmax, edges, backlog, peer, unwatched, faults>>

Handle ==
  \E e \in todo : \/ Accept(e) \/ AcceptFails(e) \/ ReadFails(e) \/ WriteOnly(e)
                  \/ \E n \in 1 .. MaxInput : ReadSome(e, n)

Wait == SelectReturns \/ EpollReturns \/ KqueueReturns

Next ==
  \/ \E p \in Peers : Connect(p) \/ Send(p) \/ HangUp(p)
  \/ Wait \/ TimesOut \/ Interrupted
  \/ Handle \/ Stop \/ RoundEnds
  \/ Ended /\ UNCHANGED vars

(* The thread that calls iopoll_loop keeps running. *)
Fairness == WF_vars(Wait) /\ WF_vars(Handle) /\ WF_vars(RoundEnds)

Spec == Init /\ [][Next]_vars /\ Fairness
=============================================================================
