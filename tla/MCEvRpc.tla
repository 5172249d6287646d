------------------------------ MODULE MCEvRpc ------------------------------
(***************************************************************************)
(* EvRpc with more RPCs than connections.                                  *)
(***************************************************************************)
EXTENDS EvRpc

CONSTANTS x1, x2, x3, c1, c2
=============================================================================
