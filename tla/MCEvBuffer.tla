----------------------------- MODULE MCEvBuffer -----------------------------
(***************************************************************************)
(* Instance of EvBuffer: two buffers, three kinds of bytes, and sizes      *)
(* scaled down so that blocks are realigned, doubled, allocated to size    *)
(* and refused.                                                            *)
(***************************************************************************)
EXTENDS EvBuffer

CONSTANTS x, b1, b2
=============================================================================
