-------------------------- MODULE MCDeploymentOps --------------------------
(***************************************************************************)
(* DeploymentOps for TLC: two or three commands, two images, and an int of *)
(* eight values, so that 10 wraps to 2 as 2^32 + 2 does in the code.       *)
(***************************************************************************)
EXTENDS DeploymentOps, TLC

MCScaleArgs == {-1, 2, 10}
MCRollbackArgs == {0, 1}

Symmetry == Permutations(Ops) \cup Permutations(Images)
=============================================================================
