--------------------------- MODULE EvBufferProofs ---------------------------
(***************************************************************************)
(* evbuffer implements a queue of bytes, for any number of buffers, any    *)
(* sizes and any width of size_t.                                          *)
(***************************************************************************)
EXTENDS EvBuffer, SequenceTheorems, WellFoundedInduction, TLAPS

\* What every call may rely on: the pointer is where misalign says, what is
\* used lies in the block, and the data was written.
Good(B) ==
  /\ B \in Block
  /\ Len(B.mem) <= SizeMax
  /\ B.start = B.misalign
  /\ B.start + B.off <= Len(B.mem)
  /\ \A k \in 1 .. Len(B.mem) : B.start < k /\ k <= B.start + B.off => B.mem[k] \in Byte

BufferInv ==
  /\ buf \in [Buffers -> Block]
  /\ \A b \in Buffers : Good(buf[b])
  /\ cb \in [Buffers -> BOOLEAN]
  /\ told \in [Buffers -> Nat]
  /\ ListenerKnowsLength

\* A block of memory is a sequence.
LEMMA BlockIsSeq ==
  ASSUME NEW S, NEW n \in Nat, NEW f \in [1 .. n -> S]
  PROVE  f \in Seq(S) /\ Len(f) = n
  OBVIOUS

\* The data of a buffer, byte by byte.
LEMMA DataFacts ==
  ASSUME NEW B, Good(B)
  PROVE  /\ Data(B) \in Seq(Byte)
         /\ Len(Data(B)) = B.off
         /\ \A k \in 1 .. B.off : Data(B)[k] = B.mem[B.start + k]
<1>1. B.start \in Nat /\ B.off \in Nat /\ B.mem \in Seq(Byte \cup {Junk})
  BY DEF Good, Block
<1> DEFINE m == B.start + 1
           n == B.start + B.off
<1>2. m \in Int /\ n \in Int /\ \A k \in m .. n : B.mem[k] \in Byte
  BY <1>1 DEF Good
<1>3. Data(B) = SubSeq(B.mem, m, n)
  BY DEF Data
<1> HIDE DEF m, n
<1>4. /\ SubSeq(B.mem, m, n) \in Seq(Byte)
      /\ Len(SubSeq(B.mem, m, n)) = IF m <= n THEN n - m + 1 ELSE 0
      /\ \A k \in 1 .. n - m + 1 : SubSeq(B.mem, m, n)[k] = B.mem[m + k - 1]
  BY <1>2, SubSeqProperties
<1>5. /\ n - m + 1 = B.off /\ (m <= n <=> B.off # 0)
      /\ \A k \in 1 .. B.off : m + k - 1 = B.start + k
  BY <1>1 DEF m, n
<1> HIDE DEF Data
<1>6. Len(Data(B)) = B.off
  BY <1>1, <1>3, <1>4, <1>5
<1> QED
  BY <1>3, <1>4, <1>5, <1>6

\* Two buffers with the same bytes have the same data.
LEMMA SameData ==
  ASSUME NEW B, NEW C, Good(B), Good(C), C.off = B.off,
         \A k \in 1 .. B.off : C.mem[C.start + k] = B.mem[B.start + k]
  PROVE  Data(C) = Data(B)
<1>1. /\ Data(B) \in Seq(Byte) /\ Len(Data(B)) = B.off
      /\ \A k \in 1 .. B.off : Data(B)[k] = B.mem[B.start + k]
  BY DataFacts
<1>2. /\ Data(C) \in Seq(Byte) /\ Len(Data(C)) = C.off
      /\ \A k \in 1 .. C.off : Data(C)[k] = C.mem[C.start + k]
  BY DataFacts
<1> QED
  BY <1>1, <1>2, SeqEqual

\* evbuffer_align moves the data to the front of the block.
LEMMA AlignFacts ==
  ASSUME NEW B, Good(B)
  PROVE  /\ Good(Align(B)) /\ Data(Align(B)) = Data(B)
         /\ Align(B).start = 0 /\ Align(B).off = B.off /\ Len(Align(B).mem) = Len(B.mem)
<1> DEFINE C == Align(B)
<1>1. /\ B.start \in Nat /\ B.off \in Nat /\ B.mem \in Seq(Byte \cup {Junk})
      /\ Len(B.mem) \in Nat /\ B.start + B.off <= Len(B.mem) /\ Len(B.mem) <= SizeMax
      /\ \A k \in 1 .. Len(B.mem) : B.start < k /\ k <= B.start + B.off => B.mem[k] \in Byte
  BY DEF Good, Block
<1>2. /\ C.mem = [k \in 1 .. Len(B.mem) |-> IF k <= B.off THEN B.mem[B.start + k] ELSE Junk]
      /\ C.start = 0 /\ C.misalign = 0 /\ C.off = B.off
  BY DEF Align, Totallen
<1>3. \A k \in 1 .. Len(B.mem) : k <= B.off => C.mem[k] = B.mem[B.start + k] /\ C.mem[k] \in Byte
  BY <1>1, <1>2
<1>4. C.mem \in Seq(Byte \cup {Junk}) /\ Len(C.mem) = Len(B.mem)
  <2>1. C.mem \in [1 .. Len(B.mem) -> Byte \cup {Junk}]
    BY <1>1, <1>2, <1>3
  <2> QED
    BY <2>1, <1>1, SMTT(30)
<1>5. C \in Block
  BY <1>1, <1>4 DEF Align, Block
<1>6. Good(C)
  BY <1>1, <1>2, <1>3, <1>4, <1>5 DEF Good
<1>7. \A k \in 1 .. B.off : C.mem[C.start + k] = B.mem[B.start + k]
  BY <1>1, <1>2, <1>3
<1>8. Data(C) = Data(B)
  BY <1>2, <1>6, <1>7, SameData
<1> QED
  BY <1>2, <1>4, <1>6, <1>8

\* realloc keeps the data of an aligned buffer.
LEMMA ReallocFacts ==
  ASSUME NEW B, Good(B), B.start = 0, NEW length \in Nat, B.off <= length, length <= SizeMax
  PROVE  /\ Good(Realloc(B, length)) /\ Data(Realloc(B, length)) = Data(B)
         /\ Realloc(B, length).start = 0 /\ Realloc(B, length).off = B.off
         /\ Len(Realloc(B, length).mem) = length
<1> DEFINE C == Realloc(B, length)
<1>1. /\ B.misalign = 0 /\ B.off \in Nat /\ B.mem \in Seq(Byte \cup {Junk})
      /\ Len(B.mem) \in Nat /\ B.off <= Len(B.mem)
      /\ \A k \in 1 .. Len(B.mem) : k <= B.off => B.mem[k] \in Byte
  BY DEF Good, Block
<1>2. /\ C.mem = [k \in 1 .. length |-> IF k <= B.off THEN B.mem[k] ELSE Junk]
      /\ C.start = 0 /\ C.misalign = 0 /\ C.off = B.off
  BY <1>1 DEF Realloc
<1>3. \A k \in 1 .. length : k <= B.off => C.mem[k] = B.mem[k] /\ C.mem[k] \in Byte
  BY <1>1, <1>2
<1>4. C.mem \in Seq(Byte \cup {Junk}) /\ Len(C.mem) = length
  <2>1. C.mem \in [1 .. length -> Byte \cup {Junk}]
    BY <1>1, <1>2, <1>3
  <2> QED
    BY <2>1, <1>1
<1>5. C \in Block
  BY <1>1, <1>4 DEF Realloc, Block
<1>6. Good(C)
  BY <1>1, <1>2, <1>3, <1>4, <1>5 DEF Good
<1>7. \A k \in 1 .. B.off : C.mem[C.start + k] = B.mem[B.start + k]
  BY <1>1, <1>2, <1>3
<1>8. Data(C) = Data(B)
  BY <1>2, <1>6, <1>7, SameData
<1> QED
  BY <1>2, <1>4, <1>6, <1>8

\* What evbuffer_expand does first when it needs another block.
LEMMA AlignIfMovedFacts ==
  ASSUME NEW B, Good(B)
  PROVE  /\ Good(AlignIfMoved(B)) /\ Data(AlignIfMoved(B)) = Data(B)
         /\ AlignIfMoved(B).start = 0 /\ AlignIfMoved(B).off = B.off
  BY AlignFacts DEF AlignIfMoved

\* evbuffer_expand gives the space that was asked for and keeps the data.
LEMMA ExpandedFacts ==
  ASSUME NEW B, Good(B), NEW n \in Nat, NEW C \in Expanded(B, n)
  PROVE  /\ Good(C) /\ Data(C) = Data(B) /\ C.off = B.off
         /\ Totallen(C) - Used(C) >= n
<1> USE BufferAssumption
<1>1. /\ B.start \in Nat /\ B.misalign = B.start /\ B.off \in Nat /\ Len(B.mem) \in Nat
      /\ B.start + B.off <= Len(B.mem)
  BY DEF Good, Block
<1>2. CASE Totallen(B) - Used(B) >= n
  BY <1>2 DEF Expanded
<1>3. CASE /\ Totallen(B) - Used(B) < n /\ ~(n > SizeMax - B.off)
           /\ Totallen(B) - B.off >= n
  <2>1. C = Align(B)
    BY <1>1, <1>3 DEF Expanded, Totallen, Used
  <2>2. Good(C)
    BY <2>1, AlignFacts
  <2> QED
    BY <1>1, <1>3, <2>1, <2>2, AlignFacts DEF Good, Totallen, Used
<1>4. CASE /\ Totallen(B) - Used(B) < n /\ ~(n > SizeMax - B.off)
           /\ Totallen(B) - B.off < n
  <2> DEFINE need == B.off + n
             D == AlignIfMoved(B)
  <2>1. need = B.off + n /\ need <= SizeMax /\ need \in Nat
    BY <1>1, <1>4
  <2>2. PICK length \in Grown(B, need) : C = Realloc(D, length)
    BY <1>1, <1>4, SMTT(30) DEF Expanded, Totallen, Used
  <2>3. length \in Nat /\ length >= need /\ length <= SizeMax
    <3> HIDE DEF need
    <3>1. (length \in 1 .. SizeMax /\ length >= need) \/ length = need
      BY <2>2 DEF Grown
    <3> QED
      BY <2>1, <3>1
  <2>4. Good(D) /\ Data(D) = Data(B) /\ D.start = 0 /\ D.off = B.off
    BY AlignIfMovedFacts
  <2> HIDE DEF D, need
  <2>5. /\ Good(C) /\ Data(C) = Data(D) /\ C.start = 0 /\ C.off = D.off
        /\ Len(C.mem) = length
    BY <1>1, <2>1, <2>2, <2>3, <2>4, ReallocFacts
  <2>6. C.misalign = 0
    BY <2>5 DEF Good
  <2> QED
    BY <1>1, <2>1, <2>3, <2>4, <2>5, <2>6 DEF Totallen, Used
<1>5. ~(n > SizeMax - B.off) \/ Totallen(B) - Used(B) >= n
  BY <1>1 DEF Expanded, Totallen, Used
<1>6. Totallen(B) \in Nat /\ Used(B) \in Nat
  BY <1>1 DEF Totallen, Used
<1> QED
  BY <1>1, <1>2, <1>3, <1>4, <1>5, <1>6

\* When it fails, evbuffer_expand has aligned the data at most.
LEMMA UnexpandedFacts ==
  ASSUME NEW B, Good(B), NEW n, NEW C \in Unexpanded(B, n)
  PROVE  Good(C) /\ Data(C) = Data(B) /\ C.off = B.off
<1>1. C = B \/ C = AlignIfMoved(B)
  BY DEF Unexpanded
<1> QED
  BY <1>1, AlignIfMovedFacts

\* What is put behind the data extends it.
LEMMA PutFacts ==
  ASSUME NEW B, Good(B), NEW d \in Seq(Byte), Totallen(B) - Used(B) >= Len(d)
  PROVE  /\ Good(Put(B, d)) /\ Data(Put(B, d)) = Data(B) \o d
         /\ Put(B, d).off = B.off + Len(d)
<1> DEFINE C == Put(B, d)
           e == B.start + B.off
<1>1. /\ B.start \in Nat /\ B.misalign = B.start /\ B.off \in Nat /\ Len(B.mem) \in Nat
      /\ B.mem \in Seq(Byte \cup {Junk}) /\ e + Len(d) <= Len(B.mem) /\ Len(d) \in Nat
      /\ e \in Nat /\ Len(B.mem) <= SizeMax
      /\ \A k \in 1 .. Len(B.mem) : B.start < k /\ k <= e => B.mem[k] \in Byte
  BY DEF Good, Block, Totallen, Used
<1>2. /\ C.mem = [k \in 1 .. Len(B.mem) |->
                    IF k \in e + 1 .. e + Len(d) THEN d[k - B.start - B.off] ELSE B.mem[k]]
      /\ C.start = B.start /\ C.misalign = B.misalign /\ C.off = B.off + Len(d)
  BY DEF Put, Totallen
<1> HIDE DEF C
<1>3. \A k \in 1 .. Len(B.mem) :
        /\ k > e /\ k <= e + Len(d) => C.mem[k] = d[k - e] /\ C.mem[k] \in Byte
        /\ ~(k > e /\ k <= e + Len(d)) => C.mem[k] = B.mem[k]
  <2> SUFFICES ASSUME NEW k \in 1 .. Len(B.mem)
               PROVE  /\ k > e /\ k <= e + Len(d) => C.mem[k] = d[k - e] /\ C.mem[k] \in Byte
                      /\ ~(k > e /\ k <= e + Len(d)) => C.mem[k] = B.mem[k]
    OBVIOUS
  <2>1. k > e /\ k <= e + Len(d) => k - e \in 1 .. Len(d) /\ k - B.start - B.off = k - e
    BY <1>1
  <2>2. \A i \in 1 .. Len(d) : d[i] \in Byte
    OBVIOUS
  <2> QED
    BY <1>1, <1>2, <2>1, <2>2, SMTT(30)
<1>4. C.mem \in Seq(Byte \cup {Junk}) /\ Len(C.mem) = Len(B.mem)
  <2>1. \A k \in 1 .. Len(B.mem) : B.mem[k] \in Byte \cup {Junk}
    BY <1>1
  <2>2. C.mem \in [1 .. Len(B.mem) -> Byte \cup {Junk}]
    BY <1>1, <1>2, <1>3, <2>1
  <2> QED
    BY <2>2, <1>1, BlockIsSeq
<1>5. C \in Block
  BY <1>1, <1>4 DEF C, Put, Block
<1>6. Good(C)
  BY <1>1, <1>2, <1>3, <1>4, <1>5, SMTT(30) DEF Good
<1>7. Data(B) \in Seq(Byte) /\ Len(Data(B)) = B.off
      /\ \A k \in 1 .. B.off : Data(B)[k] = B.mem[B.start + k]
  BY DataFacts
<1>8. Data(C) \in Seq(Byte) /\ Len(Data(C)) = C.off
      /\ \A k \in 1 .. C.off : Data(C)[k] = C.mem[C.start + k]
  BY <1>6, DataFacts
<1>9. /\ Data(B) \o d \in Seq(Byte) /\ Len(Data(B) \o d) = B.off + Len(d)
      /\ \A k \in 1 .. B.off + Len(d) :
           (Data(B) \o d)[k] = IF k <= B.off THEN Data(B)[k] ELSE d[k - B.off]
  <2>1. /\ Data(B) \o d \in Seq(Byte) /\ Len(Data(B) \o d) = Len(Data(B)) + Len(d)
        /\ \A k \in 1 .. Len(Data(B)) + Len(d) :
             (Data(B) \o d)[k] = IF k <= Len(Data(B)) THEN Data(B)[k]
                                 ELSE d[k - Len(Data(B))]
    BY <1>7, ConcatProperties
  <2> QED
    BY <1>7, <2>1
<1>10. \A k \in 1 .. C.off : Data(C)[k] = (Data(B) \o d)[k]
  <2> SUFFICES ASSUME NEW k \in 1 .. C.off
               PROVE  Data(C)[k] = (Data(B) \o d)[k]
    OBVIOUS
  <2>1. Data(C)[k] = C.mem[B.start + k] /\ k \in 1 .. B.off + Len(d)
    BY <1>1, <1>2, <1>8
  <2>2. B.start + k \in 1 .. Len(B.mem)
    BY <1>1, <2>1, SMTT(30)
  <2>3. CASE k <= B.off
    <3>1. C.mem[B.start + k] = B.mem[B.start + k]
      BY <1>1, <1>3, <2>2, <2>3, SMTT(30)
    <3> QED
      BY <1>1, <1>7, <1>9, <2>1, <2>3, <3>1
  <2>4. CASE k > B.off
    <3>0. B.start + k > e /\ B.start + k <= e + Len(d)
      BY <1>1, <2>1, <2>4
    <3>1. C.mem[B.start + k] = d[(B.start + k) - e]
      BY <1>3, <2>2, <3>0
    <3>2. (B.start + k) - e = k - B.off
      BY <1>1, <2>1
    <3> QED
      BY <1>1, <1>9, <2>1, <2>4, <3>1, <3>2, SMTT(30)
  <2>5. k <= B.off \/ k > B.off
    BY <1>1, <2>1
  <2> QED
    BY <2>3, <2>4, <2>5
<1> HIDE DEF e
<1>11. Data(C) = Data(B) \o d
  BY <1>2, <1>8, <1>9, <1>10, SeqEqual, ZenonT(40)
<1> QED
  BY <1>2, <1>6, <1>11 DEF C

\* evbuffer_drain drops bytes from the front.
LEMMA DrainFacts ==
  ASSUME NEW B, Good(B), NEW n \in Nat
  PROVE  /\ Good(Drained(B, n)) /\ Drained(B, n).off <= B.off
         /\ \E m \in 0 .. Len(Data(B)) :
              Data(Drained(B, n)) = SubSeq(Data(B), m + 1, Len(Data(B)))
         /\ n >= B.off => Data(Drained(B, n)) = <<>>
<1> DEFINE C == Drained(B, n)
           m == IF n >= B.off THEN B.off ELSE n
<1>1. /\ B.start \in Nat /\ B.misalign = B.start /\ B.off \in Nat /\ Len(B.mem) \in Nat
      /\ B.mem \in Seq(Byte \cup {Junk}) /\ B.start + B.off <= Len(B.mem)
      /\ Len(B.mem) <= SizeMax
      /\ \A k \in 1 .. Len(B.mem) : B.start < k /\ k <= B.start + B.off => B.mem[k] \in Byte
  BY DEF Good, Block
<1>2. m \in 0 .. B.off /\ m \in Nat
  BY <1>1
<1>3. /\ C.off = B.off - m /\ C.misalign = C.start /\ C.start \in Nat
      /\ C.off > 0 => C.start = B.start + m
      /\ C.off = 0 => C.start = 0
      /\ C.mem \in [1 .. Len(B.mem) -> Byte \cup {Junk}]
      /\ \A k \in 1 .. Len(B.mem) :
           C.off > 0 /\ C.start < k /\ k <= C.start + C.off => C.mem[k] = B.mem[k]
  <2>1. CASE n >= B.off
    BY <1>1, <2>1 DEF Drained, Totallen
  <2>2. CASE n < B.off
    BY <1>1, <2>2 DEF Drained, Totallen
  <2> QED
    BY <1>1, <2>1, <2>2
<1>4. C.mem \in Seq(Byte \cup {Junk}) /\ Len(C.mem) = Len(B.mem)
  <2> HIDE DEF C, m
  <2>1. C.mem \in [1 .. Len(B.mem) -> Byte \cup {Junk}]
    BY <1>3
  <2> QED
    BY <1>1, <2>1, BlockIsSeq
<1>5. C \in Block
  <2>1. C = [mem |-> C.mem, start |-> C.start, misalign |-> C.misalign, off |-> C.off]
    BY DEF Drained
  <2> QED
    BY <1>1, <1>2, <1>3, <1>4, <2>1 DEF Block
<1> HIDE DEF C
<1>6. C.off \in Nat
  BY <1>5 DEF Block
<1>7. Good(C)
  <2> HIDE DEF m
  <2>1. C.start + C.off <= Len(C.mem)
    BY <1>1, <1>2, <1>3, <1>4, <1>6
  <2>2. \A k \in 1 .. Len(C.mem) : C.start < k /\ k <= C.start + C.off => C.mem[k] \in Byte
    <3> SUFFICES ASSUME NEW k \in 1 .. Len(C.mem), C.start < k, k <= C.start + C.off
                 PROVE  C.mem[k] \in Byte
      OBVIOUS
    <3>1. k \in 1 .. Len(B.mem)
      BY <1>4
    <3>2. C.off > 0
      BY <1>3, <1>6, <3>1
    <3>3. C.start = B.start + m /\ C.off = B.off - m
      BY <1>3, <3>2
    <3>4. B.start < k /\ k <= B.start + B.off
      BY <1>1, <1>2, <3>1, <3>3
    <3>5. B.mem[k] \in Byte
      BY <1>1, <3>1, <3>4
    <3>6. C.mem[k] = B.mem[k]
      BY <1>3, <3>1, <3>2
    <3> QED
      BY <3>5, <3>6
  <2> QED
    BY <1>1, <1>3, <1>4, <1>5, <2>1, <2>2 DEF Good
<1>8. Data(B) \in Seq(Byte) /\ Len(Data(B)) = B.off
      /\ \A k \in 1 .. B.off : Data(B)[k] = B.mem[B.start + k]
  BY DataFacts
<1>9. Data(C) \in Seq(Byte) /\ Len(Data(C)) = C.off
      /\ \A k \in 1 .. C.off : Data(C)[k] = C.mem[C.start + k]
  BY <1>7, DataFacts
<1> DEFINE rest == SubSeq(Data(B), m + 1, B.off)
<1>10. /\ rest \in Seq(Byte) /\ Len(rest) = B.off - m
       /\ \A k \in 1 .. B.off - m : rest[k] = Data(B)[m + k]
  <2> HIDE DEF m
  <2>1. m + 1 \in Int /\ B.off \in Int /\ \A k \in m + 1 .. B.off : Data(B)[k] \in Byte
    BY <1>1, <1>2, <1>8
  <2>2. /\ rest \in Seq(Byte)
        /\ Len(rest) = IF m + 1 <= B.off THEN B.off - (m + 1) + 1 ELSE 0
        /\ \A k \in 1 .. B.off - (m + 1) + 1 : rest[k] = Data(B)[m + 1 + k - 1]
    BY <2>1, SubSeqProperties
  <2> HIDE DEF rest
  <2>3. /\ B.off - (m + 1) + 1 = B.off - m
        /\ \A k \in 1 .. B.off - m : m + 1 + k - 1 = m + k
    BY <1>1, <1>2
  <2>4. Len(rest) = B.off - m
    BY <1>1, <1>2, <2>2
  <2> QED
    BY <2>2, <2>3, <2>4
<1> HIDE DEF m, rest
<1>11. \A k \in 1 .. C.off : Data(C)[k] = rest[k]
  <2> SUFFICES ASSUME NEW k \in 1 .. C.off
               PROVE  Data(C)[k] = rest[k]
    OBVIOUS
  <2>0. C.off > 0 /\ k \in Nat
    BY <1>6
  <2>1. C.start + k \in 1 .. Len(B.mem) /\ C.off > 0 /\ C.start = B.start + m
    <3>1. C.start = B.start + m
      BY <1>3, <2>0
    <3>2. C.off = B.off - m
      BY <1>3
    <3>3. k <= B.off - m /\ k >= 1
      BY <1>6, <3>2
    <3>4. B.start + m + k <= B.start + B.off /\ B.start + m + k >= 1
      BY <1>1, <1>2, <2>0, <3>3
    <3> QED
      BY <1>1, <1>2, <2>0, <3>1, <3>4
  <2>2. C.mem[C.start + k] = B.mem[C.start + k]
    BY <1>3, <1>6, <2>1
  <2>3. C.start + k = B.start + (m + k) /\ m + k \in 1 .. B.off /\ k \in 1 .. B.off - m
    BY <1>1, <1>2, <1>3, <1>6, <2>1, SMTT(30)
  <2> QED
    BY <1>8, <1>9, <1>10, <2>2, <2>3
<1>12. Data(C) = rest
  BY <1>3, <1>9, <1>10, <1>11, SeqEqual
<1>13. n >= B.off => Data(C) = <<>>
  BY <1>1, <1>3, <1>9 DEF m
<1>14. C.off <= B.off
  BY <1>1, <1>2, <1>3
<1> QED
  BY <1>2, <1>7, <1>8, <1>12, <1>13, <1>14 DEF C, rest

\* A call that tells the listener of one buffer.
LEMMA TellInv ==
  ASSUME BufferInv, NEW b \in Buffers, NEW B, Good(B), Tell(b, B)
  PROVE  BufferInv' /\ buf'[b] = B /\ \A a \in Buffers \ {b} : buf'[a] = buf[a]
<1>1. /\ buf' = [buf EXCEPT ![b] = B] /\ cb' = cb
      /\ told' = [told EXCEPT ![b] = IF cb[b] THEN told[b] + B.off - buf[b].off ELSE told[b]]
  BY DEF Tell
<1>2. B \in Block /\ B.off \in Nat /\ buf[b].off \in Nat
  BY DEF Good, Block, BufferInv
<1>3. /\ buf \in [Buffers -> Block] /\ cb \in [Buffers -> BOOLEAN] /\ told \in [Buffers -> Nat]
      /\ \A a \in Buffers : cb[a] => told[a] = buf[a].off
  BY DEF BufferInv, ListenerKnowsLength
<1>4. cb[b] => told[b] + B.off - buf[b].off = B.off
  BY <1>2, <1>3
<1>5. told' \in [Buffers -> Nat] /\ \A a \in Buffers : cb'[a] => told'[a] = buf'[a].off
  BY <1>1, <1>2, <1>3, <1>4
<1>6. buf' \in [Buffers -> Block] /\ buf'[b] = B /\ \A a \in Buffers \ {b} : buf'[a] = buf[a]
  BY <1>1, <1>2, <1>3
<1>7. \A a \in Buffers : Good(buf'[a])
  BY <1>6 DEF BufferInv
<1> QED
  BY <1>1, <1>3, <1>5, <1>6, <1>7 DEF BufferInv, ListenerKnowsLength

\* A call that changes no length.
LEMMA KeepInv ==
  ASSUME BufferInv, NEW b \in Buffers, NEW B, Good(B), B.off = buf[b].off, Keep(b, B)
  PROVE  BufferInv' /\ buf'[b] = B /\ \A a \in Buffers \ {b} : buf'[a] = buf[a]
<1>1. buf' = [buf EXCEPT ![b] = B] /\ cb' = cb /\ told' = told
  BY DEF Keep
<1>2. B \in Block
  BY DEF Good
<1>3. /\ buf \in [Buffers -> Block] /\ cb \in [Buffers -> BOOLEAN] /\ told \in [Buffers -> Nat]
      /\ \A a \in Buffers : cb[a] => told[a] = buf[a].off
  BY DEF BufferInv, ListenerKnowsLength
<1>4. buf' \in [Buffers -> Block] /\ buf'[b] = B /\ \A a \in Buffers \ {b} : buf'[a] = buf[a]
  BY <1>1, <1>2, <1>3
<1>5. \A a \in Buffers : Good(buf'[a])
  BY <1>4 DEF BufferInv
<1>6. \A a \in Buffers : cb'[a] => told'[a] = buf'[a].off
  BY <1>1, <1>3, <1>4
<1> QED
  BY <1>1, <1>3, <1>4, <1>5, <1>6 DEF BufferInv, ListenerKnowsLength

\* A call that tells the listeners of two buffers.
LEMMA TellBothInv ==
  ASSUME BufferInv, NEW out \in Buffers, NEW in \in Buffers, out # in,
         NEW B, Good(B), NEW A, Good(A), TellBoth(out, B, in, A)
  PROVE  BufferInv' /\ buf'[out] = B /\ buf'[in] = A
         /\ \A a \in Buffers \ {out, in} : buf'[a] = buf[a]
<1>1. /\ buf' = [buf EXCEPT ![out] = B, ![in] = A] /\ cb' = cb
      /\ told' = [told EXCEPT
           ![out] = IF cb[out] THEN told[out] + B.off - buf[out].off ELSE told[out],
           ![in] = IF cb[in] THEN told[in] + A.off - buf[in].off ELSE told[in]]
  BY DEF TellBoth
<1>2. /\ B \in Block /\ B.off \in Nat /\ buf[out].off \in Nat
      /\ A \in Block /\ A.off \in Nat /\ buf[in].off \in Nat
  BY DEF Good, Block, BufferInv
<1>3. /\ buf \in [Buffers -> Block] /\ cb \in [Buffers -> BOOLEAN] /\ told \in [Buffers -> Nat]
      /\ \A a \in Buffers : cb[a] => told[a] = buf[a].off
  BY DEF BufferInv, ListenerKnowsLength
<1>4. /\ cb[out] => told[out] + B.off - buf[out].off = B.off
      /\ cb[in] => told[in] + A.off - buf[in].off = A.off
  BY <1>2, <1>3
<1>5. /\ buf' \in [Buffers -> Block] /\ buf'[out] = B /\ buf'[in] = A
      /\ \A a \in Buffers \ {out, in} : buf'[a] = buf[a]
  BY <1>1, <1>2, <1>3
<1>6. /\ told' \in [Buffers -> Nat]
      /\ \A a \in Buffers \ {out, in} : told'[a] = told[a]
      /\ cb[out] => told'[out] = B.off
      /\ cb[in] => told'[in] = A.off
  BY <1>1, <1>2, <1>3, <1>4
<1>7. \A a \in Buffers : cb'[a] => told'[a] = buf'[a].off
  BY <1>1, <1>3, <1>5, <1>6
<1>8. \A a \in Buffers : Good(buf'[a])
  BY <1>5 DEF BufferInv
<1> QED
  BY <1>1, <1>3, <1>5, <1>6, <1>7, <1>8 DEF BufferInv, ListenerKnowsLength

DataOf == [b \in Buffers |-> Data(buf[b])]

\* The operations of ByteQueue on the data of the buffers.
Appends(b) ==
  /\ DataOf'[b] \in Seq(Byte) /\ Len(DataOf[b]) <= Len(DataOf'[b])
  /\ SubSeq(DataOf'[b], 1, Len(DataOf[b])) = DataOf[b]
  /\ DataOf' = [DataOf EXCEPT ![b] = DataOf'[b]]

Drops(b) ==
  \E n \in 0 .. Len(DataOf[b]) :
    DataOf' = [DataOf EXCEPT ![b] = SubSeq(DataOf[b], n + 1, Len(DataOf[b]))]

Moves(out, in) ==
  /\ out # in
  /\ DataOf' = [DataOf EXCEPT ![out] = DataOf[out] \o DataOf[in], ![in] = <<>>]

QueueStep(b) ==
  \/ DataOf' = DataOf \/ Appends(b) \/ Drops(b) \/ \E in \in Buffers : Moves(b, in)

\* Adding d to an expanded buffer appends.
LEMMA PutStep ==
  ASSUME BufferInv, NEW b \in Buffers, NEW C, Good(C), Data(C) = Data(buf[b]),
         NEW d \in Seq(Byte), Totallen(C) - Used(C) >= Len(d), Tell(b, Put(C, d))
  PROVE  BufferInv' /\ QueueStep(b)
<1> DEFINE P == Put(C, d)
<1>1. Good(P) /\ Data(P) = Data(C) \o d
  BY PutFacts
<1>2. BufferInv' /\ buf'[b] = P /\ \A a \in Buffers \ {b} : buf'[a] = buf[a]
  <2> HIDE DEF P
  <2>1. Tell(b, P)
    BY DEF P
  <2> QED
    BY <1>1, <2>1, TellInv
<1> HIDE DEF P
<1>3. Data(buf[b]) \in Seq(Byte) /\ Data(P) \in Seq(Byte)
  <2>1. Good(buf[b])
    BY DEF BufferInv
  <2> QED
    BY <1>1, <2>1, DataFacts
<1>4. DataOf'[b] = Data(buf[b]) \o d /\ DataOf[b] = Data(buf[b])
  BY <1>1, <1>2 DEF DataOf
<1>5. \A a \in Buffers \ {b} : DataOf'[a] = DataOf[a]
  BY <1>2 DEF DataOf
<1>6. DataOf' = [DataOf EXCEPT ![b] = DataOf'[b]]
  BY <1>5 DEF DataOf
<1>7. /\ Data(buf[b]) \o d \in Seq(Byte)
      /\ Len(Data(buf[b])) <= Len(Data(buf[b]) \o d)
      /\ SubSeq(Data(buf[b]) \o d, 1, Len(Data(buf[b]))) = Data(buf[b])
  <2> DEFINE s == Data(buf[b])
  <2> HIDE DEF s
  <2>1. s \in Seq(Byte)
    BY <1>3 DEF s
  <2>2. SubSeq(s \o d, 1, Len(s)) = s
    BY <2>1, SubSeqOfConcat1, SubSeqFull
  <2>3. s \o d \in Seq(Byte) /\ Len(s \o d) = Len(s) + Len(d)
    BY <2>1, ConcatProperties
  <2>4. Len(s) <= Len(s \o d)
    BY <2>1, <2>3
  <2> QED
    BY <2>2, <2>3, <2>4 DEF s
<1>8. Appends(b)
  BY <1>4, <1>6, <1>7 DEF Appends
<1> QED
  BY <1>2, <1>8 DEF QueueStep

\* A call that keeps the data of a buffer.
LEMMA KeepStep ==
  ASSUME BufferInv, NEW b \in Buffers, NEW C, Good(C), Data(C) = Data(buf[b]),
         C.off = buf[b].off, Keep(b, C)
  PROVE  BufferInv' /\ QueueStep(b)
<1>1. BufferInv' /\ buf'[b] = C /\ \A a \in Buffers \ {b} : buf'[a] = buf[a]
  BY KeepInv
<1>2. \A a \in Buffers : Data(buf'[a]) = Data(buf[a])
  BY <1>1
<1>3. DataOf' = DataOf
  BY <1>2 DEF DataOf
<1> QED
  BY <1>1, <1>3 DEF QueueStep

\* Draining drops bytes.
LEMMA DrainStep ==
  ASSUME BufferInv, NEW b \in Buffers, NEW n \in Nat, Tell(b, Drained(buf[b], n))
  PROVE  BufferInv' /\ QueueStep(b)
<1> DEFINE D == Drained(buf[b], n)
<1>1. Good(buf[b])
  BY DEF BufferInv
<1>2. /\ Good(D)
      /\ \E m \in 0 .. Len(Data(buf[b])) :
           Data(D) = SubSeq(Data(buf[b]), m + 1, Len(Data(buf[b])))
  BY <1>1, DrainFacts
<1>3. Tell(b, D)
  OBVIOUS
<1> HIDE DEF D
<1>4. BufferInv' /\ buf'[b] = D /\ \A a \in Buffers \ {b} : buf'[a] = buf[a]
  BY <1>2, <1>3, TellInv
<1>5. DataOf[b] = Data(buf[b]) /\ DataOf'[b] = Data(D)
      /\ \A a \in Buffers \ {b} : DataOf'[a] = DataOf[a]
  BY <1>4 DEF DataOf
<1>6. DataOf' = [DataOf EXCEPT ![b] = Data(D)]
  BY <1>5 DEF DataOf
<1>7. Drops(b)
  BY <1>2, <1>5, <1>6 DEF Drops
<1> QED
  BY <1>4, <1>7 DEF QueueStep

\* What is added is a sequence of bytes.
LEMMA ChunkIsSeq == ASSUME NEW d \in Chunks PROVE d \in Seq(Byte) /\ Len(d) \in Nat
<1>1. PICK n \in 0 .. MaxChunk : d \in [1 .. n -> Byte]
  BY DEF Chunks
<1>2. n \in Nat
  BY BufferAssumption
<1> QED
  BY <1>1, <1>2, BlockIsSeq

\* evbuffer_add_buffer moves the data, by copying or by swapping the blocks.
LEMMA AddBufferStep ==
  ASSUME BufferInv, NEW b \in Buffers, NEW in \in Buffers, evbuffer_add_buffer(b, in)
  PROVE  BufferInv' /\ QueueStep(b)
<1> DEFINE d == Data(buf[in])
<1>1. b # in /\ Good(buf[b]) /\ Good(buf[in])
  BY DEF evbuffer_add_buffer, BufferInv
<1>2. d \in Seq(Byte) /\ Len(d) = buf[in].off /\ Len(d) \in Nat
      /\ Data(buf[b]) \in Seq(Byte) /\ Len(Data(buf[b])) = buf[b].off
  BY <1>1, DataFacts
<1>3. ASSUME NEW B, NEW A, Good(B), Good(A), TellBoth(b, B, in, A),
             Data(B) = Data(buf[b]) \o d, Data(A) = <<>>
      PROVE  BufferInv' /\ QueueStep(b)
  <2>1. BufferInv' /\ buf'[b] = B /\ buf'[in] = A
        /\ \A a \in Buffers \ {b, in} : buf'[a] = buf[a]
    BY <1>1, <1>3, TellBothInv
  <2>2. /\ DataOf'[b] = Data(B) /\ DataOf'[in] = <<>>
        /\ DataOf[b] = Data(buf[b]) /\ DataOf[in] = d
        /\ \A a \in Buffers \ {b, in} : DataOf'[a] = DataOf[a]
    BY <1>3, <2>1 DEF DataOf
  <2>3. DataOf' = [DataOf EXCEPT ![b] = Data(B), ![in] = <<>>]
    BY <1>1, <2>2 DEF DataOf
  <2>4. Moves(b, in)
    BY <1>1, <1>3, <2>2, <2>3 DEF Moves
  <2> QED
    BY <2>1, <2>4 DEF QueueStep
<1>4. CASE buf[b].off = 0
  <2>1. TellBoth(b, buf[in], in, buf[b])
    BY <1>4 DEF evbuffer_add_buffer
  <2>2. Data(buf[b]) = <<>>
    BY <1>2, <1>4
  <2>3. d = Data(buf[b]) \o d
    BY <1>2, <2>2, ConcatEmptySeq
  <2> QED
    BY <1>1, <1>3, <2>1, <2>2, <2>3
<1>5. CASE buf[b].off # 0
  <2>1. PICK C \in Expanded(buf[b], Len(d)) :
          TellBoth(b, Put(C, d), in, Drained(buf[in], buf[in].off))
    BY <1>5 DEF evbuffer_add_buffer
  <2>2. Good(C) /\ Data(C) = Data(buf[b]) /\ Totallen(C) - Used(C) >= Len(d)
    BY <1>1, <1>2, ExpandedFacts
  <2>3. Good(Put(C, d)) /\ Data(Put(C, d)) = Data(C) \o d
    BY <1>2, <2>2, PutFacts
  <2>4. buf[in].off \in Nat /\ buf[in].off >= buf[in].off
    BY <1>1 DEF Good, Block
  <2>5. Good(Drained(buf[in], buf[in].off)) /\ Data(Drained(buf[in], buf[in].off)) = <<>>
    BY <1>1, <2>4, DrainFacts
  <2> QED
    BY <1>3, <2>1, <2>2, <2>3, <2>5
<1> QED
  BY <1>4, <1>5

\* Every call keeps the invariant and is a step of the queue, or none.
LEMMA CallStep ==
  ASSUME BufferInv, NEW b \in Buffers, Step(b)
  PROVE  BufferInv' /\ QueueStep(b)
<1> USE BufferAssumption
<1>1. Good(buf[b]) /\ buf[b].off \in Nat
  BY DEF BufferInv, Good, Block
<1>2. ASSUME NEW n \in Sizes, evbuffer_expand(b, n) PROVE BufferInv' /\ QueueStep(b)
  <2>1. PICK C \in Expanded(buf[b], n) : Keep(b, C)
    BY <1>2 DEF evbuffer_expand
  <2>2. Good(C) /\ Data(C) = Data(buf[b]) /\ C.off = buf[b].off
    BY <1>1, ExpandedFacts DEF Sizes
  <2> QED
    BY <2>1, <2>2, KeepStep
<1>3. ASSUME NEW n \in Sizes, ExpandFails(b, n) PROVE BufferInv' /\ QueueStep(b)
  <2>1. PICK C \in Unexpanded(buf[b], n) : Keep(b, C)
    BY <1>3 DEF ExpandFails
  <2>2. Good(C) /\ Data(C) = Data(buf[b]) /\ C.off = buf[b].off
    BY <1>1, UnexpandedFacts
  <2> QED
    BY <2>1, <2>2, KeepStep
<1>4. ASSUME NEW n \in Sizes, evbuffer_drain(b, n) PROVE BufferInv' /\ QueueStep(b)
  <2>1. n \in Nat
    BY DEF Sizes
  <2> QED
    BY <1>4, <2>1, DrainStep DEF evbuffer_drain
<1>5. ASSUME NEW d \in Chunks, evbuffer_add(b, d) PROVE BufferInv' /\ QueueStep(b)
  <2>1. PICK C \in Expanded(buf[b], Len(d)) : Tell(b, Put(C, d))
    BY <1>5 DEF evbuffer_add
  <2>2. d \in Seq(Byte) /\ Len(d) \in Nat
    BY ChunkIsSeq
  <2>3. Good(C) /\ Data(C) = Data(buf[b]) /\ Totallen(C) - Used(C) >= Len(d)
    BY <1>1, <2>2, ExpandedFacts
  <2> QED
    BY <2>1, <2>2, <2>3, PutStep
<1>6. ASSUME NEW d \in Chunks, evbuffer_add_vprintf(b, d) PROVE BufferInv' /\ QueueStep(b)
  <2>1. PICK C \in Expanded(buf[b], PrintfSpace) :
          \/ Len(d) < Totallen(C) - Used(C) /\ Tell(b, Put(C, d))
          \/ \E D \in Expanded(C, Len(d) + 1) : Tell(b, Put(D, d))
          \/ \E D \in Unexpanded(C, Len(d) + 1) : Keep(b, D)
    BY <1>6 DEF evbuffer_add_vprintf
  <2>2. d \in Seq(Byte) /\ Len(d) \in Nat /\ Len(d) + 1 \in Nat
    BY ChunkIsSeq
  <2>3. Good(C) /\ Data(C) = Data(buf[b]) /\ C.off = buf[b].off
    BY <1>1, ExpandedFacts
  <2>4. CASE Len(d) < Totallen(C) - Used(C) /\ Tell(b, Put(C, d))
    <3>1. Totallen(C) \in Nat /\ Used(C) \in Nat
      BY <2>3 DEF Good, Block, Totallen, Used
    <3>2. Totallen(C) - Used(C) >= Len(d)
      BY <2>2, <2>4, <3>1
    <3> QED
      BY <2>2, <2>3, <2>4, <3>2, PutStep
  <2>5. ASSUME NEW D \in Expanded(C, Len(d) + 1), Tell(b, Put(D, d))
        PROVE  BufferInv' /\ QueueStep(b)
    <3>1. Good(D) /\ Data(D) = Data(C) /\ Totallen(D) - Used(D) >= Len(d) + 1
      BY <2>2, <2>3, ExpandedFacts
    <3>2. Totallen(D) \in Nat /\ Used(D) \in Nat
      BY <3>1 DEF Good, Block, Totallen, Used
    <3>3. Totallen(D) - Used(D) >= Len(d)
      BY <2>2, <3>1, <3>2
    <3> QED
      BY <2>2, <2>3, <2>5, <3>1, <3>3, PutStep
  <2>6. ASSUME NEW D \in Unexpanded(C, Len(d) + 1), Keep(b, D)
        PROVE  BufferInv' /\ QueueStep(b)
    <3>1. Good(D) /\ Data(D) = Data(C) /\ D.off = C.off
      BY <2>3, UnexpandedFacts
    <3> QED
      BY <2>3, <2>6, <3>1, KeepStep
  <2> QED
    BY <2>1, <2>4, <2>5, <2>6
<1>7. ASSUME NEW d \in Chunks, NEW howmuch \in -1 .. MaxChunk, NEW n \in 0 .. MaxChunk,
             evbuffer_read(b, howmuch, n, d)
      PROVE  BufferInv' /\ QueueStep(b)
  <2> DEFINE size == ReadSize(buf[b], howmuch, n)
  <2>1. PICK C \in Expanded(buf[b], size) : Tell(b, Put(C, d)) /\ Len(d) <= size
    BY <1>7 DEF evbuffer_read
  <2>2. d \in Seq(Byte) /\ Len(d) \in Nat
    BY ChunkIsSeq
  <2>3. size \in Nat
    <3> DEFINE quadruple == (Totallen(buf[b]) * 4) % (SizeMax + 1)
    <3>1. Totallen(buf[b]) * 4 \in Nat /\ SizeMax + 1 \in Nat \ {0}
      BY <1>1 DEF Totallen, Good, Block
    <3>2. \A x \in Nat, y \in Nat \ {0} : x % y \in Nat
      OBVIOUS
    <3>3. quadruple \in Nat
      BY <3>1, <3>2
    <3> HIDE DEF quadruple
    <3>4. size = LET capped == IF n > quadruple THEN quadruple ELSE n
                     limit == IF n = 0 THEN MaxRead
                              ELSE IF n > MaxRead /\ n > howmuch
                                   THEN IF capped < MaxRead THEN MaxRead ELSE capped
                                   ELSE n
                 IN  IF howmuch < 0 \/ howmuch > limit THEN limit ELSE howmuch
      BY DEF ReadSize, quadruple
    <3> HIDE DEF size
    <3> QED
      BY <3>3, <3>4
  <2> HIDE DEF size
  <2>4. Good(C) /\ Data(C) = Data(buf[b]) /\ Totallen(C) - Used(C) >= size
    BY <1>1, <2>3, ExpandedFacts
  <2>5. Totallen(C) \in Nat /\ Used(C) \in Nat
    BY <2>4 DEF Good, Block, Totallen, Used
  <2>6. Totallen(C) - Used(C) >= Len(d)
    BY <2>1, <2>2, <2>3, <2>4, <2>5
  <2> QED
    BY <2>1, <2>2, <2>4, <2>6, PutStep
<1>8. CASE evbuffer_readln(b)
  <2>1. PICK line \in Lines(Data(buf[b])) :
          line.drain \in 1 .. buf[b].off /\ Tell(b, Drained(buf[b], line.drain))
    BY <1>8 DEF evbuffer_readln
  <2>2. line.drain \in Nat
    BY <1>1, <2>1
  <2> QED
    BY <2>1, <2>2, DrainStep
<1>9. ASSUME NEW on \in BOOLEAN, evbuffer_setcb(b, on) PROVE BufferInv' /\ QueueStep(b)
  <2>1. /\ buf' = buf /\ cb' = [cb EXCEPT ![b] = on]
        /\ told' = [told EXCEPT ![b] = IF on THEN buf[b].off ELSE 0]
    BY <1>9 DEF evbuffer_setcb
  <2>2. DataOf' = DataOf
    BY <2>1 DEF DataOf
  <2>3. /\ cb' \in [Buffers -> BOOLEAN]
        /\ \A a \in Buffers \ {b} : cb'[a] = cb[a] /\ told'[a] = told[a]
        /\ cb'[b] = on /\ told'[b] = (IF on THEN buf[b].off ELSE 0)
        /\ told' \in [Buffers -> Nat]
    BY <1>1, <2>1 DEF BufferInv
  <2>4. \A a \in Buffers : cb'[a] => told'[a] = buf'[a].off
    BY <2>1, <2>3 DEF BufferInv, ListenerKnowsLength
  <2> QED
    BY <2>1, <2>2, <2>3, <2>4 DEF BufferInv, ListenerKnowsLength, QueueStep
<1>10. ASSUME NEW in \in Buffers, evbuffer_add_buffer(b, in) PROVE BufferInv' /\ QueueStep(b)
  BY <1>10, AddBufferStep
<1> QED
  BY <1>2, <1>3, <1>4, <1>5, <1>6, <1>7, <1>8, <1>9, <1>10 DEF Step

LEMMA InitBufferInv == Init => BufferInv
<1> SUFFICES ASSUME Init PROVE BufferInv
  OBVIOUS
<1>1. <<>> \in Seq(Byte \cup {Junk}) /\ Len(<<>>) = 0
  OBVIOUS
<1>2. NewBuffer \in Block /\ Good(NewBuffer) /\ NewBuffer.off = 0
  BY <1>1, BufferAssumption DEF NewBuffer, Block, Good
<1>3. /\ buf \in [Buffers -> Block] /\ cb \in [Buffers -> BOOLEAN] /\ told \in [Buffers -> Nat]
      /\ \A b \in Buffers : buf[b] = NewBuffer /\ told[b] = 0
  BY <1>2 DEF Init
<1> QED
  BY <1>2, <1>3 DEF BufferInv, ListenerKnowsLength

LEMMA BufferInvariance == Spec => []BufferInv
<1>1. BufferInv /\ [Next]_vars => BufferInv'
  <2>1. ASSUME BufferInv, NEW b \in Buffers, Step(b) PROVE BufferInv'
    BY <2>1, CallStep
  <2>2. ASSUME BufferInv, UNCHANGED vars PROVE BufferInv'
    BY <2>2 DEF vars, BufferInv, ListenerKnowsLength
  <2> QED
    BY <2>1, <2>2 DEF Next
<1> QED
  BY <1>1, InitBufferInv, PTL DEF Spec

\* The assertion of evbuffer_expand and evbuffer_add_vprintf never fails, and
\* misalign tells where the data is.
THEOREM AssertionHolds == Spec => [](TypeOK /\ WithinBlock)
<1>1. BufferInv => TypeOK /\ WithinBlock
  BY DEF BufferInv, Good, Block, TypeOK, WithinBlock, Totallen, Used
<1> QED
  BY <1>1, BufferInvariance, PTL

\* evbuffer_expand gives the space it was asked for without touching the data.
THEOREM SpaceGiven == Spec => []ExpandGivesSpace
<1>1. BufferInv => ExpandGivesSpace
  <2> SUFFICES ASSUME BufferInv, NEW b \in Buffers, NEW n \in 0 .. SizeMax,
                      NEW C \in Expanded(buf[b], n)
               PROVE  Totallen(C) - Used(C) >= n /\ Data(C) = Data(buf[b])
    BY DEF ExpandGivesSpace
  <2>1. Good(buf[b]) /\ n \in Nat
    BY BufferAssumption DEF BufferInv
  <2> QED
    BY <2>1, ExpandedFacts
<1> QED
  BY <1>1, BufferInvariance, PTL

\* A listener always knows the length of its buffer.
THEOREM ListenersKnow == Spec => []ListenerKnowsLength
<1>1. BufferInv => ListenerKnowsLength
  BY DEF BufferInv
<1> QED
  BY <1>1, BufferInvariance, PTL

\* evbuffer implements a queue of bytes.
THEOREM BufferIsQueue == Spec => IsQueue
<1>1. Init => Queue!Init
  <2> SUFFICES ASSUME Init PROVE Queue!Init
    OBVIOUS
  <2>1. \A b \in Buffers : buf[b] = NewBuffer
    BY DEF Init
  <2>2. NewBuffer.off = 0 /\ Good(NewBuffer)
    <3>1. <<>> \in Seq(Byte \cup {Junk}) /\ Len(<<>>) = 0
      OBVIOUS
    <3> QED
      BY <3>1, BufferAssumption DEF NewBuffer, Block, Good
  <2>3. Data(NewBuffer) \in Seq(Byte) /\ Len(Data(NewBuffer)) = 0
    BY <2>2, DataFacts
  <2>4. Data(NewBuffer) = <<>>
    BY <2>3
  <2> QED
    BY <2>1, <2>4 DEF Queue!Init
<1>2. BufferInv /\ [Next]_vars => [Queue!Next]_DataOf
  <2>1. ASSUME BufferInv, NEW b \in Buffers, Step(b)
        PROVE  [Queue!Next]_DataOf
    <3>1. QueueStep(b)
      BY <2>1, CallStep
    <3>2. DataOf' = DataOf => [Queue!Next]_DataOf
      OBVIOUS
    <3>3. Appends(b) => Queue!Next
      BY DEF Appends, Queue!Next, Queue!AppendTo, DataOf
    <3>4. Drops(b) => Queue!Next
      BY DEF Drops, Queue!Next, Queue!Drop, DataOf
    <3>5. ASSUME NEW in \in Buffers, Moves(b, in) PROVE Queue!Next
      BY <3>5 DEF Moves, Queue!Next, Queue!Move, DataOf
    <3> QED
      BY <3>1, <3>2, <3>3, <3>4, <3>5 DEF QueueStep
  <2>2. UNCHANGED vars => DataOf' = DataOf
    BY DEF vars, DataOf
  <2> QED
    BY <2>1, <2>2 DEF Next
<1>3. BufferInv /\ [Next]_vars => [Queue!Next]_[b \in Buffers |-> Data(buf[b])]
  BY <1>2 DEF DataOf
<1> QED
  BY <1>1, <1>3, BufferInvariance, PTL DEF Spec, IsQueue, Queue!Spec

-----------------------------------------------------------------------------
(* Searching for the end of a line.                                        *)

\* FirstOf gives the least position there is.
LEMMA FirstOfFacts ==
  ASSUME NEW P \in SUBSET (Nat \ {0})
  PROVE  /\ P = {} => FirstOf(P) = 0
         /\ P # {} => FirstOf(P) \in P /\ \A y \in P : FirstOf(P) <= y
<1>1. ASSUME P # {} PROVE \E x \in P : \A y \in P : x <= y
  <2>1. P \subseteq Nat
    OBVIOUS
  <2>2. PICK m \in P : \A k \in P : <<k, m>> \notin OpToRel(<, Nat)
    BY <1>1, <2>1, WFMin, NatLessThanWellFounded, Zenon
  <2>3. \A k \in P : ~(k < m)
    BY <2>1, <2>2, Zenon DEF OpToRel
  <2>4. \A k \in P : m <= k
    BY <2>1, <2>3
  <2> QED
    BY <2>4
<1>2. ASSUME P # {} PROVE Min(P) \in P /\ \A y \in P : Min(P) <= y
  BY <1>1, <1>2 DEF Min
<1> QED
  BY <1>2 DEF FirstOf

\* Searching less of the data finds nothing, or the same.
LEMMA FirstOfPrefix ==
  ASSUME NEW P \in SUBSET (Nat \ {0}), NEW Q \in SUBSET (Nat \ {0}), P \subseteq Q,
         \A x \in P, y \in Q : y <= x => y \in P
  PROVE  FirstOf(P) = 0 \/ (FirstOf(P) \in P /\ FirstOf(P) = FirstOf(Q))
<1> SUFFICES ASSUME P # {} PROVE FirstOf(P) \in P /\ FirstOf(P) = FirstOf(Q)
  BY FirstOfFacts
<1>1. FirstOf(P) \in P /\ \A y \in P : FirstOf(P) <= y
  BY FirstOfFacts
<1>2. FirstOf(Q) \in Q /\ \A y \in Q : FirstOf(Q) <= y
  BY FirstOfFacts
<1>3. FirstOf(Q) <= FirstOf(P)
  BY <1>1, <1>2
<1>4. FirstOf(Q) \in P
  BY <1>1, <1>2, <1>3
<1>5. FirstOf(P) <= FirstOf(Q)
  BY <1>1, <1>4
<1>6. FirstOf(P) \in Nat /\ FirstOf(Q) \in Nat
  BY <1>1, <1>4
<1> QED
  BY <1>1, <1>3, <1>5, <1>6

\* What memchr returns: 0, or a position from s on that holds a byte of S.
LEMMA MemchrFacts ==
  ASSUME NEW c \in Seq(Byte), NEW s \in Nat \ {0}, NEW S
  PROVE  /\ Memchr(c, s, S) \in Nat
         /\ Memchr(c, s, S) # 0 => Memchr(c, s, S) \in s .. Len(c) /\ c[Memchr(c, s, S)] \in S
<1> DEFINE P == {k \in s .. Len(c) : c[k] \in S}
<1>1. P \in SUBSET (Nat \ {0})
  OBVIOUS
<1>2. Memchr(c, s, S) = FirstOf(P)
  BY DEF Memchr
<1>3. FirstOf(P) = 0 \/ FirstOf(P) \in P
  BY <1>1, FirstOfFacts
<1> QED
  BY <1>2, <1>3

\* p is the beginning of c.
Begins(p, c) ==
  /\ p \in Seq(Byte) /\ c \in Seq(Byte) /\ Len(p) <= Len(c)
  /\ \A k \in 1 .. Len(p) : p[k] = c[k]

\* No style ends a line beyond the data, or copies more than it drains.
LEMMA LinesInside ==
  ASSUME NEW c \in Seq(Byte), NEW line \in Lines(c)
  PROVE  line.copy <= line.drain /\ line.drain <= Len(c)
<1>1. Len(c) \in Nat
  OBVIOUS
<1>2. /\ ReadLine(c).copy <= ReadLine(c).drain
      /\ ReadLine(c).drain <= Len(c)
  <2> DEFINE k == Memchr(c, 1, {CR, LF})
  <2>1. k \in Nat /\ (k # 0 => k \in 1 .. Len(c))
    BY MemchrFacts
  <2> HIDE DEF k
  <2>2. CASE k = 0
    BY <1>1, <2>2 DEF ReadLine, NoLine, k
  <2>3. ASSUME k # 0, k < Len(c) /\ c[k + 1] \in {CR, LF} \ {c[k]}
        PROVE  ReadLine(c) = [copy |-> k - 1, drain |-> k + 1]
    BY <2>3 DEF ReadLine, k
  <2>4. ASSUME k # 0, ~(k < Len(c) /\ c[k + 1] \in {CR, LF} \ {c[k]})
        PROVE  ReadLine(c) = [copy |-> k - 1, drain |-> k]
    BY <2>4 DEF ReadLine, k
  <2> QED
    BY <1>1, <2>1, <2>2, <2>3, <2>4
<1>3. /\ ReadAny(c).copy <= ReadAny(c).drain
      /\ ReadAny(c).drain <= Len(c)
  <2> DEFINE k == Memchr(c, 1, {CR, LF})
             e == Memchr(c, k + 1, Byte \ {CR, LF})
  <2>1. k \in Nat /\ (k # 0 => k \in 1 .. Len(c))
    BY MemchrFacts
  <2> HIDE DEF k
  <2>2. k + 1 \in Nat \ {0}
    BY <2>1
  <2>3. e \in Nat /\ (e # 0 => e \in k + 1 .. Len(c))
    BY <2>2, MemchrFacts
  <2> HIDE DEF e
  <2>4. ReadAny(c) = IF k = 0 THEN NoLine
                     ELSE [copy |-> k - 1, drain |-> IF e = 0 THEN Len(c) ELSE e - 1]
    BY DEF ReadAny, k, e
  <2>5. CASE k = 0
    BY <1>1, <2>4, <2>5 DEF NoLine
  <2>6. CASE k # 0 /\ e = 0
    BY <1>1, <2>1, <2>4, <2>6
  <2>7. CASE k # 0 /\ e # 0
    BY <1>1, <2>1, <2>3, <2>4, <2>7
  <2> QED
    BY <2>5, <2>6, <2>7
<1>4. /\ ReadCRLF(c).copy <= ReadCRLF(c).drain /\ ReadCRLF(c).drain <= Len(c)
      /\ ReadLF(c).copy <= ReadLF(c).drain /\ ReadLF(c).drain <= Len(c)
  <2> DEFINE k == Memchr(c, 1, {LF})
  <2>1. k \in Nat /\ (k # 0 => k \in 1 .. Len(c))
    BY MemchrFacts
  <2> HIDE DEF k
  <2>2. ReadLF(c) = IF k = 0 THEN NoLine ELSE [copy |-> k - 1, drain |-> k]
    BY DEF ReadLF, k
  <2>3. ReadCRLF(c) \in {NoLine, [copy |-> k - 2, drain |-> k], [copy |-> k - 1, drain |-> k]}
    BY DEF ReadCRLF, k
  <2>4. k = 0 => ReadCRLF(c) = NoLine
    BY DEF ReadCRLF, k
  <2> QED
    BY <1>1, <2>1, <2>2, <2>3, <2>4 DEF NoLine
<1>5. /\ ReadStrict(c).copy <= ReadStrict(c).drain
      /\ ReadStrict(c).drain <= Len(c)
  <2> DEFINE P == {p \in 1 .. Len(c) - 1 : c[p] = CR /\ c[p + 1] = LF}
             k == FirstOf(P)
  <2>1. k = 0 \/ k \in 1 .. Len(c) - 1
    <3>1. P \in SUBSET (Nat \ {0})
      OBVIOUS
    <3>2. FirstOf(P) = 0 \/ FirstOf(P) \in P
      BY <3>1, FirstOfFacts
    <3> QED
      BY <3>2
  <2>2. ReadStrict(c) = IF k = 0 THEN NoLine ELSE [copy |-> k - 1, drain |-> k + 1]
    BY DEF ReadStrict
  <2> HIDE DEF k
  <2> QED
    BY <1>1, <2>1, <2>2 DEF NoLine
<1> QED
  BY <1>2, <1>3, <1>4, <1>5 DEF Lines

\* A line that CRLF, CRLF_STRICT or LF finds in a part of the data is the line
\* it finds in all of it.
LEMMA LinesOfPrefix ==
  ASSUME NEW p, NEW c, Begins(p, c)
  PROVE  /\ ReadCRLF(p) \in {NoLine, ReadCRLF(c)}
         /\ ReadStrict(p) \in {NoLine, ReadStrict(c)}
         /\ ReadLF(p) \in {NoLine, ReadLF(c)}
<1>1. Len(p) \in Nat /\ Len(c) \in Nat /\ Len(p) <= Len(c)
  BY DEF Begins
<1>2. \A k \in 1 .. Len(p) : p[k] = c[k] /\ k \in 1 .. Len(c)
  BY <1>1 DEF Begins
<1> DEFINE P == {k \in 1 .. Len(p) : p[k] \in {LF}}
           Q == {k \in 1 .. Len(c) : c[k] \in {LF}}
<1>3. FirstOf(P) = 0 \/ (FirstOf(P) \in P /\ FirstOf(P) = FirstOf(Q))
  <2>1. P \in SUBSET (Nat \ {0}) /\ Q \in SUBSET (Nat \ {0}) /\ P \subseteq Q
    BY <1>1, <1>2
  <2>2. \A x \in P, y \in Q : y <= x => y \in P
    BY <1>1, <1>2
  <2> HIDE DEF P, Q
  <2> QED
    BY <2>1, <2>2, FirstOfPrefix
<1>4. FirstOf(P) # 0 =>
        /\ FirstOf(P) \in 1 .. Len(p)
        /\ FirstOf(P) > 1 => FirstOf(P) - 1 \in 1 .. Len(p)
  BY <1>1, <1>3
<1>5. Memchr(p, 1, {LF}) = FirstOf(P) /\ Memchr(c, 1, {LF}) = FirstOf(Q)
  BY DEF Memchr
<1> HIDE DEF P, Q
<1>6. ReadLF(p) \in {NoLine, ReadLF(c)}
  BY <1>3, <1>5 DEF ReadLF
<1>7. ReadCRLF(p) \in {NoLine, ReadCRLF(c)}
  <2>1. CASE FirstOf(P) = 0
    BY <1>5, <2>1 DEF ReadCRLF
  <2>2. CASE FirstOf(P) # 0
    <3> DEFINE k == FirstOf(P)
    <3>1. k = FirstOf(Q) /\ (k > 1 => p[k - 1] = c[k - 1])
      BY <1>2, <1>3, <1>4, <2>2
    <3>2. /\ ReadCRLF(p) = [copy |-> IF k > 1 /\ p[k - 1] = CR THEN k - 2 ELSE k - 1, drain |-> k]
          /\ ReadCRLF(c) = [copy |-> IF k > 1 /\ c[k - 1] = CR THEN k - 2 ELSE k - 1, drain |-> k]
      BY <1>5, <2>2, <3>1 DEF ReadCRLF
    <3> HIDE DEF k
    <3> QED
      BY <3>1, <3>2
  <2> QED
    BY <2>1, <2>2
<1>8. ReadStrict(p) \in {NoLine, ReadStrict(c)}
  <2> DEFINE R == {k \in 1 .. Len(p) - 1 : p[k] = CR /\ p[k + 1] = LF}
             T == {k \in 1 .. Len(c) - 1 : c[k] = CR /\ c[k + 1] = LF}
  <2>1. \A k \in 1 .. Len(p) - 1 :
          /\ k \in 1 .. Len(c) - 1 /\ k \in Nat \ {0}
          /\ p[k] = c[k] /\ p[k + 1] = c[k + 1]
    <3> SUFFICES ASSUME NEW k \in 1 .. Len(p) - 1
                 PROVE  /\ k \in 1 .. Len(c) - 1 /\ k \in Nat \ {0}
                        /\ p[k] = c[k] /\ p[k + 1] = c[k + 1]
      OBVIOUS
    <3>1. k \in 1 .. Len(p) /\ k + 1 \in 1 .. Len(p)
      BY <1>1
    <3> QED
      BY <1>1, <1>2, <3>1
  <2>2. R \in SUBSET (Nat \ {0}) /\ T \in SUBSET (Nat \ {0}) /\ R \subseteq T
    BY <1>1, <2>1
  <2>3. \A x \in R, y \in T : y <= x => y \in R
    <3> SUFFICES ASSUME NEW x \in R, NEW y \in T, y <= x PROVE y \in R
      OBVIOUS
    <3>1. y \in 1 .. Len(p) - 1
      BY <1>1
    <3> QED
      BY <2>1, <3>1
  <2>4. /\ ReadStrict(p) = IF FirstOf(R) = 0 THEN NoLine
                           ELSE [copy |-> FirstOf(R) - 1, drain |-> FirstOf(R) + 1]
        /\ ReadStrict(c) = IF FirstOf(T) = 0 THEN NoLine
                           ELSE [copy |-> FirstOf(T) - 1, drain |-> FirstOf(T) + 1]
    BY DEF ReadStrict
  <2> HIDE DEF R, T
  <2>5. FirstOf(R) = 0 \/ (FirstOf(R) \in R /\ FirstOf(R) = FirstOf(T))
    BY <2>2, <2>3, FirstOfPrefix
  <2> QED
    BY <2>4, <2>5
<1> QED
  BY <1>6, <1>7, <1>8

\* A line does not depend on how much of what follows it has arrived, and none
\* ends beyond the data.
THEOREM LinesAlwaysStable == Spec => []LinesStable
<1>1. BufferInv => LinesStable
  <2> SUFFICES ASSUME BufferInv, NEW b \in Buffers, NEW k \in 0 .. Len(Data(buf[b]))
               PROVE  LET c == Data(buf[b])
                          p == SubSeq(c, 1, k)
                      IN  /\ \A line \in Lines(p) :
                               line.copy <= line.drain /\ line.drain <= Len(p)
                          /\ ReadCRLF(p) \in {NoLine, ReadCRLF(c)}
                          /\ ReadStrict(p) \in {NoLine, ReadStrict(c)}
                          /\ ReadLF(p) \in {NoLine, ReadLF(c)}
    BY DEF LinesStable
  <2> DEFINE c == Data(buf[b])
             p == SubSeq(c, 1, k)
  <2>1. c \in Seq(Byte)
    BY DataFacts DEF BufferInv
  <2> HIDE DEF c
  <2>2. k \in Nat /\ k <= Len(c)
    BY <2>1 DEF c
  <2>3. Begins(p, c)
    <3>1. \A i \in 1 .. k : c[i] \in Byte
      BY <2>1, <2>2
    <3>2. p \in Seq(Byte) /\ Len(p) = k /\ \A i \in 1 .. k : p[i] = c[i]
      BY <2>1, <2>2, <3>1, SubSeqProperties
    <3> HIDE DEF p
    <3> QED
      BY <2>1, <2>2, <3>2 DEF Begins
  <2>4. p \in Seq(Byte)
    BY <2>3 DEF Begins
  <2> HIDE DEF p
  <2>5. \A line \in Lines(p) : line.copy <= line.drain /\ line.drain <= Len(p)
    BY <2>4, LinesInside
  <2>6. /\ ReadCRLF(p) \in {NoLine, ReadCRLF(c)}
        /\ ReadStrict(p) \in {NoLine, ReadStrict(c)}
        /\ ReadLF(p) \in {NoLine, ReadLF(c)}
    BY <2>3, LinesOfPrefix
  <2> QED
    BY <2>5, <2>6 DEF p, c
<1> QED
  BY <1>1, BufferInvariance, PTL
=============================================================================
