-------------------------- MODULE MCDeploymentMerge --------------------------
(***************************************************************************)
(* Small instances of DeploymentMerge for TLC.                             *)
(***************************************************************************)
EXTENDS DeploymentMerge

CONSTANTS a, b, net, p, q

\* Names and contents are only compared for equality.
Symmetry == Permutations(Names) \cup Permutations(Contents)
=============================================================================
