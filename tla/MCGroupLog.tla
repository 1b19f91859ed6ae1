----------------------------- MODULE MCGroupLog -----------------------------
(* Instances of GroupLog for TLC. *)
EXTENDS GroupLog, TLC

MCSymmetry == Permutations(Workers) \cup Permutations(Groups)
=============================================================================
