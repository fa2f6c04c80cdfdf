--------------------------- MODULE PollerProperties --------------------------
(* What is claimed of the event loop. *)
EXTENDS Poller

(* The descriptors watched are exactly the open ones, through all reuse of *)
(* descriptor numbers, but for those that iopoll_add has refused: nobody   *)
(* looks at what it returns, and they stay open and unwatched.  With       *)
(* select, which refuses none, fdmax, which __iopoll_select_remove lowers  *)
(* by one only, never hides one of them.  Nothing is said once a           *)
(* descriptor was too large for the set of select.                         *)
WatchesWhatIsOpen ==
  phase # "overrun" =>
    /\ fds \cup unwatched = OpenFds /\ fds \cap unwatched = {}
    /\ conf.backend = "select" => unwatched = {} /\ \A f \in fds : f <= fdmax

(* No event of a round is left for a descriptor that an earlier event of   *)
(* it has closed, be the number in use again or not: write_f may meet the  *)
(* descriptor that read_f has closed for the same event, but never another *)
(* connection under its number, and read_f meets neither.                  *)
NoStaleEvents == \A e \in todo : e.fd \notin closed /\ e.fd \in OpenFds

-----------------------------------------------------------------------------
(* The strengthening that makes the two inductive. *)

(* Every variable a step computes with has its type. *)
TypeOK ==
  /\ conf \in Configurations
  /\ peer \in [Peers -> [st : {"idle", "waiting", "open", "gone"}, fd : Nat,
                         input : Nat, eof : BOOLEAN]]
  /\ backlog \in Seq(Peers)
  /\ fdmax \in Int

OpenPeers == {p \in Peers : peer[p].st = "open"}

(* No two connections share a descriptor, and none has the server's. *)
FdsDistinct ==
  /\ \A p \in OpenPeers : peer[p].fd # Server
  /\ \A p, q \in OpenPeers : peer[p].fd = peer[q].fd => p = q

(* The peers of the backlog wait, each once. *)
BacklogWaits ==
  /\ \A i \in 1 .. Len(backlog) : peer[backlog[i]].st = "waiting"
  /\ \A i, j \in 1 .. Len(backlog) : backlog[i] = backlog[j] => i = j

(* A round has one event for each of some descriptors that are watched, a  *)
(* connection the server was told of still waits, and nothing is closed    *)
(* between two rounds.                                                     *)
RoundIsFresh ==
  /\ \A e \in todo : e.fd = Server /\ e.in => backlog # <<>>
  /\ \A d, e \in todo : d.fd = e.fd => d = e
  /\ phase = "round" => \A e \in todo : e.fd \in fds
  /\ phase = "wait" => closed = {}

PollerInv ==
  /\ TypeOK /\ FdsDistinct /\ BacklogWaits /\ RoundIsFresh
  /\ WatchesWhatIsOpen /\ NoStaleEvents

-----------------------------------------------------------------------------
(* With select every connection is accepted, though a round accepts only   *)
(* one and accept may fail.  (Which of more than __IO_KQUEUE_EVENTS events *)
(* kqueue reports first is a matter of the kernel.)                        *)
ConnectionsAccepted ==
  \A p \in Peers :
    (conf.backend = "select" /\ peer[p].st = "waiting") ~> (peer[p].st # "waiting" \/ Ended)

(* With select a hang-up closes the connection, whatever is left to read:  *)
(* no descriptor leaks.  The single edge of epoll may be used up by the    *)
(* bytes before it.                                                        *)
HangUpCloses ==
  \A p \in Peers :
    (conf.backend = "select" /\ peer[p].st = "open" /\ peer[p].eof) ~> (peer[p].st # "open" \/ Ended)

(* With select nothing that is outside is left waiting: connections are    *)
(* accepted and hang-ups close them.                                       *)
SelectServes == ConnectionsAccepted /\ HangUpCloses

(* With epoll, which reports a connection once: as long as the report of   *)
(* one is not used up, the oldest that waits is accepted, unless accept    *)
(* fails.  One that came while another waited is left without a report and *)
(* waits for the next one to come.                                         *)
Announced == Contains(edges, Server) \/ \E e \in todo : e.fd = Server
OldestAccepted ==
  \A p \in Peers :
    (conf.backend = "epoll" /\ backlog # <<>> /\ Head(backlog) = p /\ Announced)
      ~> (peer[p].st # "waiting" \/ faults > 0 \/ Ended)

(* A handler that clears *is_looping ends the loop, also in the middle of  *)
(* a round and without waiting for another event.                          *)
StopEndsLoop == ~looping ~> phase = "done"
=============================================================================
