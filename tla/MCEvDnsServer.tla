---------------------------- MODULE MCEvDnsServer ----------------------------
(***************************************************************************)
(* EvDnsServer with memory for two requests.                               *)
(***************************************************************************)
EXTENDS EvDnsServer

CONSTANTS q1, q2
==============================================================================
