------------------------------- MODULE Sockets --------------------------------
(***************************************************************************)
(* socket/socket.c: opening, binding, connecting and accepting sockets and *)
(* passing descriptors.  A call is a sequence of system calls, one step    *)
(* each, and every one of them may fail.                                   *)
(*                                                                         *)
(* A call works on candidates: the addresses of getaddrinfo() in their     *)
(* order, or the one path of a UNIX socket.                                *)
(***************************************************************************)
EXTENDS Integers, Sequences, FiniteSets

CONSTANTS
  Addresses,
  Paths,
  Fds,         \* bound: descriptors
  MaxWire      \* bound: messages on their way

VARIABLES
  open,        \* descriptor -> the socket behind it
  held,        \* descriptors that callers have got and not closed
  files,       \* paths of UNIX sockets in the file system
  call,        \* the call under way
  wire,        \* messages of a UNIX socket: do they carry a descriptor?
  given        \* paths whose sockets were given to callers

vars == <<open, held, files, call, wire, given>>

None == "none"
NoCall == [name |-> None, use |-> None, listens |-> FALSE]
Idle == [op |-> NoCall, cands |-> <<>>, i |-> 0, sock |-> 0, stage |-> None]
Fresh == [use |-> None, nr |-> 0, address |-> None, reported |-> None, listens |-> FALSE]

Init ==
  /\ open = <<>> /\ held = {} /\ files = {}
  /\ call = Idle /\ wire = <<>> /\ given = {}

-----------------------------------------------------------------------------
(* What a call does with its socket: the system call, and listen() or not. *)
socket_tcp_connect == [name |-> "tcp_connect", use |-> "connect", listens |-> FALSE]
socket_tcp_bind    == [name |-> "tcp_bind", use |-> "bind", listens |-> TRUE]
socket_udp_bind    == [name |-> "udp_bind", use |-> "bind", listens |-> FALSE]
socket_udp_connect == [name |-> "udp_connect", use |-> None, listens |-> FALSE]
socket_unix_connect == [name |-> "unix_connect", use |-> "connect", listens |-> FALSE]
socket_unix_bind(dgram) == [name |-> "unix_bind", use |-> "bind", listens |-> ~dgram]

InetCalls == {socket_tcp_connect, socket_tcp_bind, socket_udp_bind, socket_udp_connect}
UnixCalls == {socket_unix_connect, socket_unix_bind(TRUE), socket_unix_bind(FALSE)}

Resolved == {s \in UNION {[1 .. n -> Addresses] : n \in 1 .. 2} :
               \A i, j \in DOMAIN s : s[i] = s[j] => i = j}

Begin(op, cands) ==
  /\ call = Idle
  /\ call' = [op |-> op, cands |-> cands, i |-> 1, sock |-> 0, stage |-> "socket"]
  /\ UNCHANGED <<open, held, files, wire, given>>

Opened(fd) == open' = [f \in DOMAIN open \cup {fd} |-> IF f = fd THEN Fresh ELSE open[f]]
Closed(fd) == open' = [f \in DOMAIN open \ {fd} |-> open[f]]

(* socket() makes a socket for the candidate, *)
SocketMade ==
  \E fd \in Fds \ DOMAIN open :
    /\ call.stage = "socket" /\ call.i <= Len(call.cands)
    /\ Opened(fd)
    /\ call' = [call EXCEPT !.sock = fd, !.stage = "use"]
    /\ UNCHANGED <<held, files, wire, given>>

(* or it does not and the next candidate is tried. *)
SocketFails ==
  /\ call.stage = "socket" /\ call.i <= Len(call.cands)
  /\ call' = [call EXCEPT !.i = @ + 1]
  /\ UNCHANGED <<open, held, files, wire, given>>

(* There is no other candidate. *)
GiveUp ==
  /\ call.stage = "socket" /\ call.i > Len(call.cands)
  /\ call' = Idle
  /\ UNCHANGED <<open, held, files, wire, given>>

(* *addr = *p->ai_addr *)
Reported == call.cands[call.i]

(* bind() gets the address of the first candidate, info and not p. *)
UsedAddress ==
  IF call.op.use = "connect" THEN call.cands[call.i]
  ELSE IF call.op.use = "bind" THEN call.cands[1] ELSE None

(* bind(), connect() or, for socket_udp_connect, nothing.  A path that is  *)
(* there cannot be bound again.                                            *)
UseWorks ==
  /\ call.stage = "use"
  /\ call.op.use = "bind" => UsedAddress \notin files
  /\ open' = [open EXCEPT ![call.sock] =
                [@ EXCEPT !.use = call.op.use, !.nr = call.i,
                          !.address = UsedAddress, !.reported = Reported]]
  /\ files' = IF call.op.use = "bind" THEN files \cup (Paths \cap {UsedAddress}) ELSE files
  /\ call' = [call EXCEPT !.stage = IF call.op.listens THEN "listen" ELSE "return"]
  /\ UNCHANGED <<held, wire, given>>

(* Mutant: the socket stays open when the next candidate is tried. *)
UseFailsMutant ==
  /\ call.stage = "use" /\ call.op.use # None
  /\ call' = [call EXCEPT !.i = @ + 1, !.sock = 0, !.stage = "socket"]
  /\ UNCHANGED <<open, held, files, wire, given>>

UseFails ==
  /\ call.stage = "use" /\ call.op.use # None
  /\ Closed(call.sock)
  /\ call' = [call EXCEPT !.i = @ + 1, !.sock = 0, !.stage = "socket"]
  /\ UNCHANGED <<held, files, wire, given>>

ListenWorks ==
  /\ call.stage = "listen"
  /\ open' = [open EXCEPT ![call.sock].listens = TRUE]
  /\ call' = [call EXCEPT !.stage = "return"]
  /\ UNCHANGED <<held, files, wire, given>>

ListenFails ==
  /\ call.stage = "listen"
  /\ Closed(call.sock) /\ call' = Idle
  /\ files' = files \ {open[call.sock].address}
  /\ UNCHANGED <<held, wire, given>>

Return ==
  /\ call.stage = "return"
  /\ held' = held \cup {call.sock} /\ call' = Idle
  /\ given' = given \cup (files \cap {open[call.sock].address})
  /\ UNCHANGED <<open, files, wire>>

-----------------------------------------------------------------------------
(* socket_tcp_accept and socket_unix_accept *)
Accept(fd) ==
  /\ call = Idle /\ fd \in held /\ open[fd].listens
  /\ \E new \in Fds \ DOMAIN open : Opened(new) /\ held' = held \cup {new}
  /\ UNCHANGED <<files, call, wire, given>>

(* close() by a caller: the path of a UNIX socket stays. *)
Close(fd) ==
  /\ call = Idle /\ fd \in held
  /\ Closed(fd) /\ held' = held \ {fd}
  /\ UNCHANGED <<files, call, wire, given>>

(* A caller removes the path. *)
Remove(path) ==
  /\ call = Idle /\ files' = files \ {path}
  /\ UNCHANGED <<open, held, call, wire, given>>

(* socket_unix_sendfd sends a descriptor with the magic number, *)
socket_unix_sendfd(fd) ==
  /\ call = Idle /\ fd \in held /\ Len(wire) < MaxWire
  /\ wire' = Append(wire, TRUE)
  /\ UNCHANGED <<open, held, files, call, given>>

(* socket_unix_send other data. *)
socket_unix_send ==
  /\ call = Idle /\ Len(wire) < MaxWire
  /\ wire' = Append(wire, FALSE)
  /\ UNCHANGED <<open, held, files, call, given>>

(* socket_unix_recvfd installs the descriptor; other data gives -2. *)
socket_unix_recvfd ==
  /\ call = Idle /\ wire # <<>>
  /\ wire' = Tail(wire)
  /\ IF Head(wire)
     THEN \E new \in Fds \ DOMAIN open : Opened(new) /\ held' = held \cup {new}
     ELSE UNCHANGED <<open, held>>
  /\ UNCHANGED <<files, call, given>>

Next ==
  \/ \E op \in InetCalls, cands \in Resolved : Begin(op, cands)
  \/ \E op \in UnixCalls, path \in Paths : Begin(op, <<path>>)
  \/ SocketMade \/ SocketFails \/ GiveUp
  \/ UseWorks \/ UseFails \/ ListenWorks \/ ListenFails \/ Return
  \/ \E fd \in held : Accept(fd) \/ Close(fd) \/ socket_unix_sendfd(fd)
  \/ \E path \in Paths : Remove(path)
  \/ socket_unix_send \/ socket_unix_recvfd

Spec == Init /\ [][Next]_vars
-----------------------------------------------------------------------------
(* The socket of the call under way. *)
InCall == IF call.stage \in {"use", "listen", "return"} THEN {call.sock} ELSE {}

(* A call that fails leaves nothing behind, whichever of its system calls  *)
(* fails: the open descriptors are those that callers have and, during a   *)
(* call, its socket; and every path of a UNIX socket in the file system    *)
(* comes with a socket that was given to a caller or is about to be.       *)
NothingLeft ==
  /\ DOMAIN open = held \cup InCall
  /\ files \subseteq given \cup {open[fd].address : fd \in InCall}

(* The address a call reports is the one its socket has: always for a      *)
(* connection, and for bind() if the first candidate works.                *)
Truthful(s) ==
  s.use = "connect" \/ (s.use = "bind" /\ s.nr = 1) => s.reported = s.address
ReportsAddress == \A fd \in held : Truthful(open[fd])

(* What a caller of socket.c relies on: a call that fails leaves nothing   *)
(* behind, and one that works tells the truth about its address.           *)
NoLeak == NothingLeft /\ ReportsAddress

-----------------------------------------------------------------------------
(* The strengthening that makes NoLeak inductive. *)

(* Every variable a step computes with has its type. *)
TypeOK ==
  /\ call \in [op : {NoCall} \cup InetCalls \cup UnixCalls,
               cands : Seq(Addresses \cup Paths), i : Nat, sock : Fds \cup {0},
               stage : {None, "socket", "use", "listen", "return"}]
  /\ \A fd \in DOMAIN open :
       open[fd] \in [use : {None, "connect", "bind"}, nr : Nat,
                    address : Addresses \cup Paths \cup {None},
                    reported : Addresses \cup Paths \cup {None}, listens : BOOLEAN]

(* The socket of a call is nobody else's, and what it was bound to is the  *)
(* only path that may still have to be removed.                            *)
CallOwns ==
  /\ call = Idle <=> call.stage = None
  /\ held \cap InCall = {}
  /\ call.stage \in {None, "socket", "use"} => files \subseteq given
  /\ call.stage # None => call.i > 0
  /\ call.stage \in {"use", "listen", "return"} => call.i <= Len(call.cands)

SocketInv ==
  /\ TypeOK /\ CallOwns /\ NothingLeft
  /\ \A fd \in DOMAIN open : Truthful(open[fd])
=============================================================================
