--------------------------- MODULE MCInvocations ---------------------------
(* Instances of Invocations for TLC. *)
EXTENDS Invocations, TLC

\* Every node's clock but one is right.
MCSkew == [n \in Nodes |-> IF n = CHOOSE m \in Nodes : TRUE THEN MaxSkew ELSE 0]
=============================================================================
