-------------------------------- MODULE StrBuf --------------------------------
(***************************************************************************)
(* The string buffer of string/strbuf.c: a block of memory that holds a    *)
(* string and, behind it, a zero byte.                                     *)
(*                                                                         *)
(* The block is sized for the string alone.  harm "past" is an access      *)
(* behind its last cell, and any access when there is none, "stale" a copy *)
(* from a block that realloc() has moved, and "dangling" a block that      *)
(* realloc() has freed and blob still points to.  "other" is a string that *)
(* is not the one the call was asked for.  Nothing is said of a buffer     *)
(* after them.                                                             *)
(***************************************************************************)
EXTENDS Integers, Sequences, SequencesExt

CONSTANTS
  Chars,     \* BLANK is one of them
  BLANK,     \* what isspace() accepts
  ALIGN,     \* blocks are a multiple of this: 8 to 1024 in the code
  MaxSize    \* bound: size of a string

VARIABLES
  blob,      \* the cells of string->blob, none if it is NULL
  size,      \* string->size
  harm,
  text,      \* the string a client means to have
  squeezed   \* strbuf_mmsqueeze has made the block

vars == <<blob, size, harm, text, squeezed>>

NUL == "nul"
JUNK == "junk"
NULL == <<>>
Strings == UNION {[1 .. n -> Chars] : n \in 0 .. 2}

(* strbuf_alloc *)
Init == blob = NULL /\ size = 0 /\ harm = "ok" /\ text = <<>> /\ squeezed = FALSE

-----------------------------------------------------------------------------
(* realloc() to n cells *)
Resized(b, n) == [i \in 1 .. n |-> IF i <= Len(b) THEN b[i] ELSE JUNK]

(* __strbuf_realloc, if n does not fit *)
RoundUp(n) == ((n + ALIGN - 1) \div ALIGN) * ALIGN
Room(b, n) == IF n > Len(b) THEN Resized(b, RoundUp(n)) ELSE b

(* memcpy() or memmove() of s to the cells from p on *)
Put(b, p, s) == [i \in 1 .. Len(b) |-> IF i - p \in 1 .. Len(s) THEN s[i - p] ELSE b[i]]
Cells(b, p, n) == SubSeq(b, p + 1, p + n)

(* blob[n] = '\0'; size = n; what went wrong before is h, or "ok" *)
EndsAs(b, n, h) ==
  /\ harm' = IF h = "ok" /\ n >= Len(b) THEN "past" ELSE h
  /\ IF n < Len(b) THEN blob' = Put(b, n, <<NUL>>) /\ size' = n ELSE UNCHANGED <<blob, size>>
  /\ squeezed' = (squeezed /\ Len(b) = Len(blob))
Ends(b, n) == EndsAs(b, n, "ok")

Usable == harm = "ok"
Fails == UNCHANGED vars
NoMemory(n) == n > Len(blob)
Least(a, b) == IF a < b THEN a ELSE b

(* strbuf_set *)
Set(s) ==
  /\ Usable
  /\ \/ NoMemory(Len(s)) /\ Fails
     \/ Ends(Put(Room(blob, Len(s)), 0, s), Len(s)) /\ text' = s

(* strbuf_append *)
AppendStr(s) ==
  LET n == size + Len(s)
  IN /\ Usable /\ n <= MaxSize
     /\ \/ NoMemory(n) /\ Fails
        \/ Ends(Put(Room(blob, n), size, s), n) /\ text' = text \o s

(* Mutant: the tail is moved by one cell less. *)
InsertedMutant(b, n, index, s) ==
  Put(Put(b, index + Len(s) - 1, Cells(b, index, n - index)), index, s)

(* The tail of a string of n characters is moved, then s is copied. *)
Inserted(b, n, index, s) ==
  Put(Put(b, index + Len(s), Cells(b, index, n - index)), index, s)

(* The gap between a string of n characters and index, filled *)
Fill(n, index) == [i \in 1 .. (IF index > n THEN index - n ELSE 0) |-> BLANK]
With(t, index, s) ==
  SubSeq(t, 1, Least(index, Len(t))) \o Fill(Len(t), index) \o s \o SubSeq(t, index + 1, Len(t))

(* strbuf_insert into a block b with a string of n characters *)
InsertInto(b, n, index, s, h) ==
  LET fill == Fill(n, index)
      end == n + Len(s) + Len(fill)
      r == Room(b, end)
  IN /\ end <= MaxSize
     /\ EndsAs(IF fill # <<>> THEN Put(Put(r, n, fill), index, s)
               ELSE Inserted(r, n, index, s), end, h)

(* strbuf_insert, and strbuf_prepend with index 0 *)
Insert(index, s) ==
  /\ Usable
  /\ \/ NoMemory(Len(s) + (IF index > size THEN index ELSE size)) /\ Fails
     \/ InsertInto(blob, size, index, s, "ok") /\ text' = With(text, index, s)

(* strbuf_prepend of n characters of the string itself: they are copied    *)
(* aside first, but not before a realloc() that may move the block.        *)
PrependSelf(n) ==
  /\ Usable /\ n \in 1 .. size /\ size + n <= MaxSize
  /\ IF NoMemory(size + n) THEN harm' = "stale" /\ UNCHANGED <<blob, size, text, squeezed>>
     ELSE /\ Ends(Inserted(blob, size, 0, Cells(blob, 0, n)), size + n)
          /\ text' = SubSeq(text, 1, n) \o text

(* strbuf_truncate; at or behind the end it fails. *)
Truncate(n) ==
  /\ Usable /\ n < size
  /\ Ends(blob, n) /\ text' = SubSeq(text, 1, n)

Without(s, index, n) == SubSeq(s, 1, index) \o SubSeq(s, index + n + 1, Len(s))

(* The block and the size after strbuf_remove *)
Removed(index, n) ==
  IF index + n >= size THEN [b |-> blob, n |-> index]
  ELSE [b |-> Put(blob, index, Cells(blob, index + n, size - index - n)), n |-> size - n]

(* strbuf_remove; it fails behind the end or for no characters. *)
RemoveChars(index, n) ==
  /\ Usable /\ index < size /\ n > 0
  /\ Ends(Removed(index, n).b, Removed(index, n).n)
  /\ text' = Without(text, index, n)

(* strbuf_replace of as many characters as s has *)
ReplaceInPlace(index, s) ==
  /\ Usable /\ index + Len(s) <= size
  /\ blob' = Put(blob, index, s) /\ UNCHANGED <<size, harm, squeezed>>
  /\ text' = SubSeq(text, 1, index) \o s \o SubSeq(text, index + Len(s) + 1, Len(text))

(* strbuf_replace of old characters by s, of another length or over the    *)
(* end: it removes as many as s has, whatever the client asks for, and     *)
(* they are gone when there is no memory for the insertion.                *)
Replace(index, old, s) ==
  LET removes == index < size /\ s # <<>>
      r == IF removes THEN Removed(index, Len(s)) ELSE [b |-> blob, n |-> size]
      left == IF removes THEN Without(text, index, Len(s)) ELSE text
      asked == IF index < size THEN Without(text, index, old) ELSE text
  IN /\ Usable /\ (old # Len(s) \/ index + Len(s) > size)
     /\ \/ /\ Len(s) + (IF index > r.n THEN index ELSE r.n) > Len(r.b)
           /\ IF removes THEN EndsAs(r.b, r.n, "other") ELSE UNCHANGED <<blob, size, harm, squeezed>>
           /\ UNCHANGED text
        \/ /\ InsertInto(IF removes THEN Put(r.b, r.n, <<NUL>>) ELSE r.b, r.n, index, s,
                         IF left = asked THEN "ok" ELSE "other")
           /\ text' = With(asked, index, s)

-----------------------------------------------------------------------------
(* The characters isspace() accepts at the start and at the end. *)
Blanks(s) == LET i == SelectInSeq(s, LAMBDA x : x # BLANK) IN IF i = 0 THEN Len(s) ELSE i - 1
Content == Cells(blob, 0, size)

(* strbuf_ltrim reads the next cell before it looks at the size. *)
LTrim ==
  LET start == Blanks(Content)
  IN /\ Usable
     /\ IF start = Len(blob) THEN harm' = "past" /\ UNCHANGED <<blob, size, text, squeezed>>
        ELSE /\ text' = SubSeq(text, Blanks(text) + 1, Len(text))
             /\ IF start = 0 THEN UNCHANGED <<blob, size, harm, squeezed>>
                ELSE Ends(Put(blob, 0, Cells(blob, start, size - start)), size - start)

(* strbuf_rtrim always writes the zero byte. *)
RTrim ==
  LET end == size - Blanks(Reverse(Content))
  IN /\ Usable
     /\ Ends(blob, end)
     /\ text' = SubSeq(text, 1, Len(text) - Blanks(Reverse(text)))

(* strbuf_clear *)
Clear == Usable /\ Ends(blob, 0) /\ text' = <<>>

(* strbuf_mmsqueeze: no cell is left for the zero byte.  realloc() to no   *)
(* cells may give a block without cells, but it may also free the block    *)
(* and return NULL, which is taken for a failure.                          *)
Squeeze ==
  /\ Usable /\ UNCHANGED <<size, text>>
  /\ \/ blob' = Resized(blob, size) /\ squeezed' = TRUE /\ UNCHANGED harm
     \/ /\ size = 0 /\ (blob # NULL \/ squeezed)
        /\ harm' = "dangling" /\ UNCHANGED <<blob, squeezed>>

(* strbuf_mmreserve *)
Reserve(n) ==
  /\ Usable /\ n > Len(blob)
  /\ blob' = Room(blob, n) /\ squeezed' = FALSE
  /\ UNCHANGED <<size, harm, text>>

(* strbuf_free *)
Release ==
  /\ Usable
  /\ blob' = NULL /\ size' = 0 /\ text' = <<>> /\ squeezed' = FALSE
  /\ UNCHANGED harm

Next ==
  \/ \E s \in Strings :
       \/ Set(s) \/ AppendStr(s)
       \/ \E index \in 0 .. MaxSize :
            \/ Insert(index, s) \/ ReplaceInPlace(index, s)
            \/ \E old \in 0 .. 2 : Replace(index, old, s)
  \/ \E n \in 0 .. MaxSize :
       \/ PrependSelf(n) \/ Truncate(n) \/ Reserve(n)
       \/ \E index \in 0 .. MaxSize : RemoveChars(index, n)
  \/ LTrim \/ RTrim \/ Clear \/ Squeeze \/ Release
  \/ harm # "ok" /\ UNCHANGED vars

Spec == Init /\ [][Next]_vars
-----------------------------------------------------------------------------
(* The first size cells are the string: moving the tail to and fro, gaps,  *)
(* copies of the string into itself, squeezing and failed calls never lose *)
(* a character or bring in a cell that was not written.  The string is     *)
(* another only after a replace of more or fewer characters than the new   *)
(* ones, or of some for which memory ran out.                              *)
HoldsText == harm = "ok" => Content = text

(* A string never runs on into what is left of a longer one: the cell      *)
(* behind it is the zero byte or, once the block was squeezed or reserved, *)
(* one that nobody has written to.                                         *)
NoOldTail == harm = "ok" /\ size < Len(blob) => blob[size + 1] \in {NUL, JUNK}

(* An access falls behind the block only for a string that fills it: one   *)
(* as long as blocks are, or any one in a block that was squeezed.  And    *)
(* only squeezing an empty string leaves a freed block behind.             *)
IsBlockSize(n) == \E k \in 0 .. n : n = k * ALIGN
HarmNeedsFullBlock ==
  /\ harm = "past" => squeezed \/ IsBlockSize(Len(text))
  /\ harm = "dangling" => text = <<>>
=============================================================================
