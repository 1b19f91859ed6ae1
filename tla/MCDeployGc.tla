---------------------------- MODULE MCDeployGc ----------------------------
EXTENDS DeployGc, TLC

\* Two deployments that share a blob.
CONSTANTS d1, d2, b1, b2, s1, a1
MCFiles == (d1 :> {b1}) @@ (d2 :> {b1, b2})
MCSiteOf == (a1 :> s1)
MCOptions == {[grace |-> 1, keep |-> 1, age |-> None]}
MCSymmetry == Permutations(Clients)
=============================================================================
