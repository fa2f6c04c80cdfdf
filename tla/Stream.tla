-------------------------------- MODULE Stream --------------------------------
(***************************************************************************)
(* stream/stream.c: integers of 8 to 64 bits, signed or not, written to    *)
(* and read from a file descriptor in big-endian order.                    *)
(*                                                                         *)
(* A transfer is a loop of read() or write() calls, each a step.  After a  *)
(* short one the loop goes on behind the bytes moved but asks for all n    *)
(* again; when the kernel moves more than are left, the buffer is overrun, *)
(* harm "overrun", and nothing is said after that.  A regular file moves   *)
(* less than asked for only at its end or on a full disk; a pipe or a      *)
(* socket (stream_with_fd) may at any time.                                *)
(***************************************************************************)
EXTENDS Integers, Sequences, FiniteSets

CONSTANTS
  BASE,         \* 256 in the code: values of a byte
  Widths,       \* of the integers, in bytes
  MaxWrites     \* bound: integers written

VARIABLES
  regular,      \* is the descriptor a regular file?
  data,         \* the bytes of the file, or all that went into the pipe
  pos,          \* offset of the next read and, in a regular file, write
  log,          \* offset -> the integer written there
  io,           \* the transfer under way
  harm,
  writes        \* integers written so far

vars == <<regular, data, pos, log, io, harm, writes>>

(* stream_write_int8, stream_read_int8, ..., stream_read_uint64 *)
Formats == [width : Widths, signed : BOOLEAN]

Power[n \in Nat] == IF n = 0 THEN 1 ELSE BASE * Power[n - 1]

(* The limits of a format and the values at its edges. *)
Modulus(f) == Power[f.width]
Values(f) ==
  IF f.signed THEN {-(Modulus(f) \div 2), (Modulus(f) \div 2) - 1}
  ELSE {1, Modulus(f) - 1}

(* Mutant: the bytes are taken from the low end. *)
EncodeMutant(f, v) == [i \in 1 .. f.width |-> (v \div Power[i - 1]) % BASE]

(* buffer[i] = v >> ...: an arithmetic shift, cut to a byte *)
Encode(f, v) == [i \in 1 .. f.width |-> (v \div Power[f.width - i]) % BASE]

(* The sum of the shifted bytes, in the type of the format. *)
Decode(f, bytes) ==
  LET sum[i \in 0 .. f.width] ==
        IF i = 0 THEN 0 ELSE sum[i - 1] + bytes[i] * Power[f.width - i]
      u == sum[f.width]
  IN IF f.signed /\ u >= Modulus(f) \div 2 THEN u - Modulus(f) ELSE u

Format0 == CHOOSE f \in Formats : TRUE
Idle == [op |-> "none", f |-> Format0, v |-> 0, n |-> 0, done |-> 0, cut |-> FALSE]

(* stream_with_fd, stream_file_create *)
Init ==
  /\ regular \in BOOLEAN
  /\ data = <<>> /\ pos = 0 /\ log = <<>> /\ io = Idle /\ harm = "ok" /\ writes = 0

(* Where the next byte is written. *)
WritePos == IF regular THEN pos ELSE Len(data)

Free == io = Idle /\ harm = "ok"

-----------------------------------------------------------------------------
(* stream_write_<type>(v) *)
WriteInt(f, v) ==
  /\ Free /\ writes < MaxWrites
  /\ io' = [Idle EXCEPT !.op = "write", !.f = f, !.v = v, !.n = f.width]
  /\ writes' = writes + 1
  /\ UNCHANGED <<regular, data, pos, log, harm>>

(* stream_read_<type> *)
ReadInt(f) ==
  /\ Free
  /\ io' = [Idle EXCEPT !.op = "read", !.f = f, !.n = f.width]
  /\ UNCHANGED <<regular, data, pos, log, harm, writes>>

(* stream_file_seek *)
Seek(offset) ==
  /\ Free /\ regular
  /\ pos' = offset
  /\ UNCHANGED <<regular, data, log, io, harm, writes>>

(* Bytes that are left to move. *)
Missing == io.n - io.done

(* The loop condition, rdsize < n or wrsize < n *)
Goes(op) == io.op = op /\ harm = "ok" /\ Missing > 0

(* The bytes asked for: n, whatever has been moved. *)
Asked == io.n

Overrun ==
  /\ harm' = "overrun" /\ io' = Idle
  /\ UNCHANGED <<regular, data, pos, log, writes>>

(* d with bytes at offset o *)
Overwritten(d, o, bytes) ==
  LET end == o + Len(bytes)
  IN SubSeq(d, 1, o) \o bytes \o SubSeq(d, end + 1, Len(d))

(* stream_file_write: write() moves c bytes. *)
WriteMoves(c) ==
  /\ Goes("write") /\ c \in 1 .. Asked
  /\ regular => ~io.cut
  /\ IF c > Missing THEN Overrun
     ELSE /\ data' = Overwritten(data, WritePos,
                                 SubSeq(Encode(io.f, io.v), io.done + 1, io.done + c))
          /\ pos' = IF regular THEN pos + c ELSE pos
          /\ log' = [o \in {o \in DOMAIN log : \/ o + log[o].f.width <= WritePos
                                               \/ o >= WritePos + c} |-> log[o]]
          /\ io' = [io EXCEPT !.done = @ + c, !.cut = c < Asked]
          /\ UNCHANGED <<regular, harm, writes>>

(* stream_file_read: read() moves c bytes, *)
ReadMoves(c) ==
  /\ Goes("read") /\ c \in 1 .. Asked /\ pos + c <= Len(data)
  /\ regular => c = Asked \/ pos + c = Len(data)
  /\ IF c > Missing THEN Overrun
     ELSE /\ pos' = pos + c
          /\ io' = [io EXCEPT !.done = @ + c]
          /\ UNCHANGED <<regular, data, log, harm, writes>>

(* or nothing, at the end or with an error; then the integer is not read   *)
(* or not written as a whole.                                              *)
Stops ==
  /\ harm = "ok" /\ io.op # "none" /\ Missing > 0
  /\ io' = Idle
  /\ UNCHANGED <<regular, data, pos, log, harm, writes>>

(* The loop has moved n bytes. *)
Ends ==
  /\ harm = "ok" /\ io.op # "none" /\ Missing <= 0
  /\ io' = Idle
  /\ log' = IF io.op = "write"
            THEN LET at == WritePos - io.n
                 IN [o \in DOMAIN log \cup {at} |->
                       IF o = at THEN [f |-> io.f, v |-> io.v] ELSE log[o]]
            ELSE log
  /\ UNCHANGED <<regular, data, pos, harm, writes>>

Next ==
  \/ \E f \in Formats : ReadInt(f) \/ \E v \in Values(f) : WriteInt(f, v)
  \/ \E offset \in DOMAIN log : Seek(offset)
  \/ \E c \in Widths \cup {1} : WriteMoves(c) \/ ReadMoves(c)
  \/ Stops \/ Ends
  \/ harm # "ok" /\ UNCHANGED vars

Spec == Init /\ [][Next]_vars
-----------------------------------------------------------------------------
(* Every integer comes back: where one was written and not overwritten,    *)
(* the bytes decode to it, for the extreme values of every format and also *)
(* after transfers that were cut short.                                    *)
IntsComeBack ==
  \A o \in DOMAIN log :
    LET f == log[o].f IN
      /\ o + f.width <= Len(data)
      /\ Decode(f, SubSeq(data, o + 1, o + f.width)) = log[o].v

(* The buffers of a regular file are never overrun, although the loops ask *)
(* for all the bytes again: less than asked for comes only when the next   *)
(* call moves nothing.                                                     *)
RegularFileIsSafe == regular => harm = "ok"
=============================================================================
