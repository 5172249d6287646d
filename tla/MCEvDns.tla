------------------------------ MODULE MCEvDns ------------------------------
(* EvDns on a small instance.                                              *)
EXTENDS EvDns
CONSTANTS a, b, q1, q2, com, org
Symmetric == Permutations(Servers) \cup Permutations(Queries)
=============================================================================
