--------------------------- MODULE MCPodController --------------------------
(* PodController for TLC: the pods are model values.                       *)
EXTENDS PodController, TLC

CONSTANTS vacuum, dock, fake

PodSymmetry == Permutations(Pods)
=============================================================================
