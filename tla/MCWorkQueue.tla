---------------------------- MODULE MCWorkQueue ----------------------------
(* Instances of WorkQueue for TLC. *)
EXTENDS WorkQueue, TLC

MCPlain == {[delay |-> 0, ttl |-> 0, prio |-> 0, inline |-> FALSE]}
MCAllModes ==
    MCPlain \cup {[delay |-> 1, ttl |-> 0, prio |-> 0, inline |-> FALSE],
                  [delay |-> 0, ttl |-> 1, prio |-> 0, inline |-> TRUE],
                  [delay |-> 0, ttl |-> 0, prio |-> 1, inline |-> FALSE]}

MCSymmetry == Permutations(Workers)
=============================================================================
