---------------------------- MODULE MCMechanisms ----------------------------
(***************************************************************************)
(* Mechanisms with events that share descriptors.  Table sizes start at    *)
(* one or two, so that three descriptors make every array grow.            *)
(***************************************************************************)
EXTENDS Mechanisms

CONSTANTS r0, w0, r2, w2, b1, b2   \* read, write or both, on descriptor 0, 1 or 2

MCFd == [e \in Events |-> IF e \in {r0, w0} THEN 0 ELSE IF e = b1 THEN 1 ELSE 2]
MCEvents == [e \in Events |-> IF e \in {r0, r2} THEN {"READ"}
                              ELSE IF e \in {w0, w2} THEN {"WRITE"} ELSE {"READ", "WRITE"}]
=============================================================================
