----------------------------- MODULE ByteQueue -----------------------------
(***************************************************************************)
(* What an evbuffer promises (event.h:724-1150): a queue of bytes.  Bytes  *)
(* are appended at the end and removed from the front, and the data of one *)
(* buffer may move to the end of another.  Whatever a call does besides    *)
(* (expand, align, fail) does not change the data.                         *)
(***************************************************************************)
EXTENDS Naturals, Sequences

CONSTANTS Buffers, Byte

VARIABLE data

AppendTo(b) ==
  /\ data'[b] \in Seq(Byte)
  /\ Len(data[b]) <= Len(data'[b])
  /\ SubSeq(data'[b], 1, Len(data[b])) = data[b]
  /\ data' = [data EXCEPT ![b] = data'[b]]

Drop(b, n) ==
  /\ n \in 0 .. Len(data[b])
  /\ data' = [data EXCEPT ![b] = SubSeq(data[b], n + 1, Len(data[b]))]

Move(out, in) ==
  /\ out # in
  /\ data' = [data EXCEPT ![out] = data[out] \o data[in], ![in] = <<>>]

Init == data = [b \in Buffers |-> <<>>]

Next ==
  \/ \E b \in Buffers : AppendTo(b)
  \/ \E b \in Buffers : \E n \in 0 .. Len(data[b]) : Drop(b, n)
  \/ \E out, in \in Buffers : Move(out, in)

Spec == Init /\ [][Next]_data
=============================================================================
