---------------------------- MODULE MCRaftQueue ----------------------------
(* Instances of RaftQueue for TLC. *)
EXTENDS RaftQueue, TLC

\* A plain publish whose payload goes to the object store.
MCPlain == {[delay |-> 0, ttl |-> 0, prio |-> 0, inline |-> FALSE]}

MCSymmetry == Permutations(Workers)
=============================================================================
