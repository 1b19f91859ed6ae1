----------------------------- MODULE MCSession -----------------------------
(* Instances of Session for TLC. *)
EXTENDS Session, TLC

MCSymmetry == Permutations(Tasks) \cup Permutations(Keys)
=============================================================================
