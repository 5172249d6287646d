----------------------------- MODULE MCEvSignal -----------------------------
(***************************************************************************)
(* Instance of EvSignal: two signals; two events, one of them persistent,  *)
(* share the first signal.                                                 *)
(***************************************************************************)
EXTENDS EvSignal

CONSTANTS p1, o1, p2

MCEventSignal == [e \in Events |-> IF e = p2 THEN 2 ELSE 1]
=============================================================================
