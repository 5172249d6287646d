------------------------------ MODULE EvBuffer ------------------------------
(***************************************************************************)
(* evbuffer (buffer.c): bytes in a block of memory that grows, shrinks     *)
(* from the front by moving a pointer, and is realigned on demand.         *)
(*                                                                         *)
(* A buffer is a record: mem is the block at orig_buffer, totallen bytes   *)
(* long; start is buffer - orig_buffer; misalign and off are the fields.   *)
(* Memory outside of the off bytes at start is Junk: nothing may read it.  *)
(***************************************************************************)
EXTENDS Integers, Sequences, FiniteSets, FiniteSetsExt

CONSTANTS
  Buffers,     \* the evbuffers of the program
  Byte,        \* the bytes
  CR, LF,      \* "\r" and "\n"
  SizeMax,     \* SIZE_MAX
  MinLength,   \* 256, the first allocation
  PrintfSpace, \* 64, the space evbuffer_add_vprintf starts with
  MaxRead,     \* EVBUFFER_MAX_READ
  MaxChunk,    \* bound on the bytes of one call
  MaxData      \* bound on the data of all buffers

Junk == "junk"

ASSUME BufferAssumption ==
  /\ SizeMax \in Nat /\ MinLength \in Nat \ {0} /\ PrintfSpace \in Nat \ {0}
  /\ MaxRead \in Nat \ {0} /\ MaxChunk \in Nat /\ MaxData \in Nat
  /\ Junk \notin Byte

VARIABLES
  buf,  \* the fields of every buffer
  cb,   \* is a callback set?
  told  \* the length a listener knows that adds up what the callback tells it

vars == <<buf, cb, told>>

Data(B) == SubSeq(B.mem, B.start + 1, B.start + B.off)

Totallen(B) == Len(B.mem)

\* "used" in evbuffer_expand, evbuffer_add and evbuffer_add_vprintf
Used(B) == B.misalign + B.off

NewBuffer == [mem |-> <<>>, start |-> 0, misalign |-> 0, off |-> 0]

-----------------------------------------------------------------------------
(* Space.                                                                  *)

\* evbuffer_align
Align(B) ==
  [mem      |-> [k \in 1 .. Totallen(B) |->
                   IF k <= B.off THEN B.mem[B.start + k] ELSE Junk],
   start    |-> 0,
   misalign |-> 0,
   off      |-> B.off]

\* Mutant: the block is reallocated as it is.
AlignNever(B) == B

\* What evbuffer_expand does before realloc.
AlignIfMoved(B) == IF B.start # 0 THEN Align(B) ELSE B

\* The length evbuffer_expand gets to by doubling.
Grown(B, need) ==
  LET least == IF Totallen(B) < MinLength THEN MinLength ELSE Totallen(B)
      doubled == {least * 2^k : k \in 0 .. need}
  IN  IF need < SizeMax \div 2
      THEN {length \in 1 .. SizeMax :
              /\ length \in doubled
              /\ length >= need /\ (length > least => length \div 2 < need)}
      ELSE {need}

\* realloc to length bytes
Realloc(B, length) ==
  [mem      |-> [k \in 1 .. length |-> IF k <= B.off THEN B.mem[k] ELSE Junk],
   start    |-> 0,
   misalign |-> B.misalign,
   off      |-> B.off]

\* Mutant: the test that off + datlen does not overflow is missing.
ExpandedUnchecked(B, datlen) ==
  IF Totallen(B) - Used(B) >= datlen THEN {B}
  ELSE IF Totallen(B) - B.off >= datlen THEN {Align(B)}
  ELSE {Realloc(AlignIfMoved(B), length) :
          length \in Grown(B, (B.off + datlen) % (SizeMax + 1))}

\* What the buffer may be after evbuffer_expand(B, datlen) returned 0.
Expanded(B, datlen) ==
  IF Totallen(B) - Used(B) >= datlen THEN {B}
  ELSE IF datlen > SizeMax - B.off THEN {}
  ELSE IF Totallen(B) - B.off >= datlen THEN {Align(B)}
  ELSE {Realloc(AlignIfMoved(B), length) :
          length \in Grown(B, B.off + datlen)}

\* What it may be after evbuffer_expand returned -1: too much is asked for, or
\* realloc fails.
Unexpanded(B, datlen) ==
  IF Totallen(B) - Used(B) >= datlen THEN {}
  ELSE IF datlen > SizeMax - B.off THEN {B}
  ELSE IF Totallen(B) - B.off >= datlen THEN {}
  ELSE {AlignIfMoved(B)}

\* memcpy or read to buffer + off
Put(B, d) ==
  [mem      |-> [k \in 1 .. Totallen(B) |->
                   IF k \in B.start + B.off + 1 .. B.start + B.off + Len(d)
                   THEN d[k - B.start - B.off] ELSE B.mem[k]],
   start    |-> B.start,
   misalign |-> B.misalign,
   off      |-> B.off + Len(d)]

\* evbuffer_drain
Drained(B, n) ==
  IF n >= B.off
  THEN [mem |-> [k \in 1 .. Totallen(B) |-> Junk], start |-> 0, misalign |-> 0, off |-> 0]
  ELSE [mem      |-> [k \in 1 .. Totallen(B) |->
                        IF k \in B.start + n + 1 .. B.start + B.off THEN B.mem[k] ELSE Junk],
        start    |-> B.start + n,
        misalign |-> B.misalign + n,
        off      |-> B.off - n]

-----------------------------------------------------------------------------
(* Searching, on the data of a buffer.                                     *)

\* The first of the positions P, or 0.
FirstOf(P) == IF P = {} THEN 0 ELSE Min(P)

\* memchr from position s on, for any byte of S
Memchr(c, s, S) == FirstOf({k \in s .. Len(c) : c[k] \in S})

\* An end of line: the characters before it, and the bytes to drain with it.
\* There is none if drain is 0.
NoLine == [copy |-> 0, drain |-> 0]

\* evbuffer_readline
ReadLine(c) ==
  LET k == Memchr(c, 1, {CR, LF})
      two == k < Len(c) /\ c[k + 1] \in {CR, LF} \ {c[k]}
  IN  IF k = 0 THEN NoLine ELSE [copy |-> k - 1, drain |-> IF two THEN k + 1 ELSE k]

ReadAny(c) ==
  LET k == Memchr(c, 1, {CR, LF})
      e == Memchr(c, k + 1, Byte \ {CR, LF})
  IN  IF k = 0 THEN NoLine
      ELSE [copy |-> k - 1, drain |-> IF e = 0 THEN Len(c) ELSE e - 1]

ReadCRLF(c) ==
  LET k == Memchr(c, 1, {LF})
  IN  IF k = 0 THEN NoLine
      ELSE [copy |-> IF k > 1 /\ c[k - 1] = CR THEN k - 2 ELSE k - 1, drain |-> k]

\* Mutant: a CR at the end of the data counts as an end of line.
ReadStrictEager(c) ==
  LET k == FirstOf({p \in 1 .. Len(c) : c[p] = CR /\ (p < Len(c) => c[p + 1] = LF)})
  IN  IF k = 0 THEN NoLine ELSE [copy |-> k - 1, drain |-> k + 1]

\* The loop passes every CR that no LF follows.
ReadStrict(c) ==
  LET k == FirstOf({p \in 1 .. Len(c) - 1 : c[p] = CR /\ c[p + 1] = LF})
  IN  IF k = 0 THEN NoLine ELSE [copy |-> k - 1, drain |-> k + 1]

ReadLF(c) ==
  LET k == Memchr(c, 1, {LF})
  IN  IF k = 0 THEN NoLine ELSE [copy |-> k - 1, drain |-> k]

\* evbuffer_readline and the styles of evbuffer_readln
Lines(c) == {ReadLine(c), ReadAny(c), ReadCRLF(c), ReadStrict(c), ReadLF(c)}

-----------------------------------------------------------------------------
(* Calls.                                                                  *)

Chunks == UNION {[1 .. n -> Byte] : n \in 0 .. MaxChunk}

Fits(n) == MapThenSumSet(LAMBDA b : buf[b].off, Buffers) + n <= MaxData

\* The buffer b becomes B; the callback is called with the old and new length.
Tell(b, B) ==
  /\ buf' = [buf EXCEPT ![b] = B]
  /\ told' = [told EXCEPT ![b] = IF cb[b] THEN @ + B.off - buf[b].off ELSE @]
  /\ UNCHANGED cb

\* A call that fails leaves the data and calls nobody.
Keep(b, B) == buf' = [buf EXCEPT ![b] = B] /\ UNCHANGED <<cb, told>>

evbuffer_expand(b, datlen) == \E C \in Expanded(buf[b], datlen) : Keep(b, C)

\* evbuffer_expand fails, and with it the call that needed the space.
ExpandFails(b, datlen) == \E C \in Unexpanded(buf[b], datlen) : Keep(b, C)

evbuffer_add(b, d) ==
  /\ Fits(Len(d))
  /\ \E C \in Expanded(buf[b], Len(d)) : Tell(b, Put(C, d))

\* evbuffer_add_vprintf of the text d: it asks for PrintfSpace bytes, and for
\* more if the text and its NUL do not fit.
evbuffer_add_vprintf(b, d) ==
  /\ Fits(Len(d))
  /\ \E C \in Expanded(buf[b], PrintfSpace) :
       \/ /\ Len(d) < Totallen(C) - Used(C)
          /\ Tell(b, Put(C, d))
       \/ /\ Len(d) >= Totallen(C) - Used(C)
          /\ \/ \E D \in Expanded(C, Len(d) + 1) : Tell(b, Put(D, d))
             \/ \E D \in Unexpanded(C, Len(d) + 1) : Keep(b, D)

\* The size of the read in evbuffer_read: howmuch, or n of FIONREAD, limited
\* (0 also stands for ioctl failing).
ReadSize(B, howmuch, n) ==
  LET quadruple == (Totallen(B) * 4) % (SizeMax + 1)
      capped == IF n > quadruple THEN quadruple ELSE n
      limit == IF n = 0 THEN MaxRead
               ELSE IF n > MaxRead /\ n > howmuch
                    THEN IF capped < MaxRead THEN MaxRead ELSE capped
                    ELSE n
  IN  IF howmuch < 0 \/ howmuch > limit THEN limit ELSE howmuch

\* evbuffer_read: read returns the bytes d, or nothing (an error or the end of
\* the file).
evbuffer_read(b, howmuch, n, d) ==
  LET size == ReadSize(buf[b], howmuch, n)
  IN  /\ Fits(Len(d)) /\ Len(d) <= size
      /\ \E C \in Expanded(buf[b], size) : Tell(b, Put(C, d))

\* evbuffer_drain, also for evbuffer_remove, and evbuffer_write of n bytes
evbuffer_drain(b, n) == Tell(b, Drained(buf[b], n))

\* evbuffer_readline and evbuffer_readln: a line is found and copied.
evbuffer_readln(b) ==
  \E line \in Lines(Data(buf[b])) :
    line.drain \in 1 .. buf[b].off /\ Tell(b, Drained(buf[b], line.drain))

\* Mutant: only the buffer that receives the data is told.
TellBothHalf(out, B, in, A) ==
  /\ buf' = [buf EXCEPT ![out] = B, ![in] = A]
  /\ told' = [told EXCEPT ![out] = IF cb[out] THEN @ + B.off - buf[out].off ELSE @]
  /\ UNCHANGED cb

\* Both buffers change and both callbacks are called.
TellBoth(out, B, in, A) ==
  /\ buf' = [buf EXCEPT ![out] = B, ![in] = A]
  /\ told' = [told EXCEPT ![out] = IF cb[out] THEN @ + B.off - buf[out].off ELSE @,
                          ![in] = IF cb[in] THEN @ + A.off - buf[in].off ELSE @]
  /\ UNCHANGED cb

\* evbuffer_add_buffer: an empty outbuf swaps its block with inbuf.
evbuffer_add_buffer(out, in) ==
  LET d == Data(buf[in])
  IN  /\ out # in
      /\ \/ buf[out].off = 0 /\ TellBoth(out, buf[in], in, buf[out])
         \/ /\ buf[out].off # 0
            /\ \E C \in Expanded(buf[out], Len(d)) :
                 TellBoth(out, Put(C, d), in, Drained(buf[in], buf[in].off))

\* evbuffer_setcb: a new listener starts from the length of the buffer.
evbuffer_setcb(b, on) ==
  /\ cb' = [cb EXCEPT ![b] = on]
  /\ told' = [told EXCEPT ![b] = IF on THEN buf[b].off ELSE 0]
  /\ UNCHANGED buf

-----------------------------------------------------------------------------
Init ==
  /\ buf = [b \in Buffers |-> NewBuffer]
  /\ cb = [b \in Buffers |-> FALSE]
  /\ told = [b \in Buffers |-> 0]

Sizes == 0 .. SizeMax

Step(b) ==
  \/ \E n \in Sizes : evbuffer_expand(b, n) \/ ExpandFails(b, n) \/ evbuffer_drain(b, n)
  \/ \E d \in Chunks : evbuffer_add(b, d) \/ evbuffer_add_vprintf(b, d)
  \/ \E d \in Chunks, howmuch \in -1 .. MaxChunk, n \in 0 .. MaxChunk :
       evbuffer_read(b, howmuch, n, d)
  \/ evbuffer_readln(b)
  \/ \E on \in BOOLEAN : evbuffer_setcb(b, on)
  \/ \E in \in Buffers : evbuffer_add_buffer(b, in)

Next == \E b \in Buffers : Step(b)

Spec == Init /\ [][Next]_vars

-----------------------------------------------------------------------------
(* Properties.                                                             *)

Block == [mem : Seq(Byte \cup {Junk}), start : Nat, misalign : Nat, off : Nat]

\* The type invariant of the fields of an evbuffer.
TypeOK ==
  /\ buf \in [Buffers -> Block]
  /\ \A b \in Buffers : Totallen(buf[b]) <= SizeMax
  /\ cb \in [Buffers -> BOOLEAN]
  /\ told \in [Buffers -> Nat]

\* The assertion of evbuffer_expand and evbuffer_add_vprintf (buffer.c:152,
\* 360): what is used lies in the block; misalign is where the pointer is, so
\* that what is added goes to the free part.
WithinBlock ==
  \A b \in Buffers :
    /\ buf[b].start = buf[b].misalign
    /\ Totallen(buf[b]) >= Used(buf[b])

\* "Expands the available space in the event buffer to at least datlen"
\* (event.h:990), for any datlen of type size_t.
ExpandGivesSpace ==
  \A b \in Buffers, n \in 0 .. SizeMax : \A C \in Expanded(buf[b], n) :
    Totallen(C) - Used(C) >= n /\ Data(C) = Data(buf[b])

Queue == INSTANCE ByteQueue WITH data <- [b \in Buffers |-> Data(buf[b])]

\* Every call is an operation on a queue of bytes, or changes nothing.
IsQueue == Queue!Spec

\* A listener that adds up the differences it is told knows the length, also
\* when blocks are swapped (buffer.c:119-122, 417, 442).
ListenerKnowsLength == \A b \in Buffers : cb[b] => told[b] = buf[b].off

\* A line does not depend on how much of what follows it has arrived, for the
\* styles other than ANY (buffer.c:285-316): what a prefix of the data
\* yields, all of the data yields.  No line ends beyond the data.
LinesStable ==
  \A b \in Buffers :
    LET c == Data(buf[b])
        prefixes == {SubSeq(c, 1, k) : k \in 0 .. Len(c)}
    IN  \A p \in prefixes :
          /\ \A line \in Lines(p) : line.copy <= line.drain /\ line.drain <= Len(p)
          /\ ReadCRLF(p) \in {NoLine, ReadCRLF(c)}
          /\ ReadStrict(p) \in {NoLine, ReadStrict(c)}
          /\ ReadLF(p) \in {NoLine, ReadLF(c)}
=============================================================================
