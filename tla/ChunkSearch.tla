----------------------------- MODULE ChunkSearch -----------------------------
(***************************************************************************)
(* chunkq_indexof: a search for a byte string that walks the chunks and    *)
(* keeps a partial match from one chunk to the next.                       *)
(*                                                                         *)
(* The record s is struct chunkq_search: pos is the next byte of the       *)
(* needle (search->needle and needle_len), data what is left of the chunk; *)
(* with index, the local variable of __chunkn_search_step, and loop, which *)
(* of its two loops it is in.                                              *)
(***************************************************************************)
EXTENDS ChunkQProperties

(* memchr: the position of byte b in data, or 0 *)
MemChr(data, b) == SelectInSeq(data, LAMBDA x : x = b)

Restart(s) == [s EXCEPT !.pos = 1, !.state = 0]
Hit(s)     == [s EXCEPT !.found = TRUE, !.loop = "none"]
Skip(s, n) == [s EXCEPT !.data = SubSeq(@, n + 1, Len(@))]

(* search->offset = search->rd - 1 *)
MatchAt(s) == s.rd - 1

(* A round of the outer loop of __chunkn_search_step *)
OuterRound(needle, s) ==
  LET p == MemChr(s.data, needle[s.pos])
      t == [s EXCEPT !.rd = @ + p, !.index = p]
      u == IF t.state = 0 THEN [t EXCEPT !.offset = MatchAt(t), !.state = 1] ELSE t
  IN IF p = 0 THEN [s EXCEPT !.rd = IF s.index < 0 THEN @ + Len(s.data) ELSE @, !.loop = "none"]
     ELSE IF p > 1 /\ s.state = 1 THEN [Restart(s) EXCEPT !.index = p]
     ELSE IF s.pos = Len(needle) THEN Hit(u)
     ELSE Skip([u EXCEPT !.pos = @ + 1, !.loop = "inner"], p)

(* and of the inner one: the bytes after the first are compared.           *)
InnerRound(needle, s) ==
  LET t == [s EXCEPT !.rd = @ + 1]
  IN IF s.data = <<>> THEN [s EXCEPT !.loop = "none"]
     ELSE IF s.data[1] # needle[s.pos] THEN [Restart(t) EXCEPT !.loop = "outer"]
     ELSE IF s.pos = Len(needle) THEN Hit(t)
     ELSE Skip([t EXCEPT !.pos = @ + 1], 1)

Round(needle, s) ==
  IF s.loop = "outer" THEN OuterRound(needle, s)
  ELSE IF s.loop = "inner" THEN InnerRound(needle, s) ELSE s

(* __chunkn_search_step with the bytes of a chunk: a byte is behind after  *)
(* three rounds at most.                                                   *)
Searched(needle, s, data) ==
  LET after[k \in 0 .. 3 * Len(data) + 2] ==
        IF k = 0 THEN [s EXCEPT !.data = data, !.index = -1, !.loop = "outer"]
        ELSE Round(needle, after[k - 1])
  IN after[3 * Len(data) + 2]

(* chunkq_indexof: the position of needle at or after offset, or -1 *)
IndexOf(offset, needle) ==
  LET i == AtOffset(offset)
      start == [found |-> FALSE, offset |-> 0, rd |-> offset, state |-> 0, pos |-> 1,
                data |-> <<>>, index |-> -1, loop |-> "none"]
      step[j \in i .. Len(chunks)] ==
        IF j = i THEN Searched(needle, start, FirstPart(i, offset))
        ELSE IF step[j - 1].found THEN step[j - 1]
        ELSE Searched(needle, step[j - 1], SubSeq(Later(chunks[j]), 1, NodeSize(chunks[j])))
      last == step[Len(chunks)]
  IN IF i = 0 \/ ~last.found THEN -1 ELSE last.offset
-----------------------------------------------------------------------------
Needles == UNION {[1 .. n -> Bytes] : n \in 1 .. 3}

(* The first place at or after offset where a byte of Content is b, or 0. *)
FirstPlace(offset, b) ==
  SelectInSeq([i \in 1 .. Len(Content) |-> <<i, Content[i]>>],
              LAMBDA p : p[1] > offset /\ p[2] = b)

(* chunkq.c: when the needle occurs where its first byte first occurs,     *)
(* chunkq_indexof returns that place, in however many chunks it lies; when *)
(* its first byte does not occur at all, -1.                               *)
IndexOfFirstTry ==
  phase = "open" =>
    \A offset \in 0 .. MaxSize, needle \in Needles :
      LET p == FirstPlace(offset, needle[1])
      IN /\ p = 0 => IndexOf(offset, needle) = -1
         /\ /\ p > 0
            /\ SubSeq(Content, p, Least(p + Len(needle) - 1, Len(Content))) = needle
            => IndexOf(offset, needle) = p - 1
=============================================================================
