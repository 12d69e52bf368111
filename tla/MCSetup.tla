-------------------------------- MODULE MCSetup --------------------------------
(* Setup with two replicas, three requests and two encryption keys. *)
EXTENDS Setup, TLC

CONSTANTS r1, r2, a1, a2, a3, f1, f2

MCReplica == {r1, r2}
MCAttempt == {a1, a2, a3}
MCMasterKey == {f1, f2}
MCSymmetry == Permutations(MCReplica) \union Permutations(MCAttempt) \union Permutations(MCMasterKey)
===============================================================================
