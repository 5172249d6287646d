--------------------------- MODULE MCBufferEvent ---------------------------
(***************************************************************************)
(* Instances of BufferEvent: watermarks below, at and above what arrives,  *)
(* all of them such that high - length fits an int.                        *)
(***************************************************************************)
EXTENDS BufferEvent

MCMarks == {<<0, 0>>, <<0, 1>>, <<1, 2>>, <<2, 1>>}
=============================================================================
