------------------------- MODULE MCMutablePolytree -------------------------
(* Small instances of MutablePolytree for TLC.                             *)
EXTENDS MutablePolytree

(* call and reply are written by every action and read by none: states     *)
(* that differ only there have the same successors.                        *)
View == state

PayloadSymmetry == Permutations(NodeData) \cup Permutations(EdgeData)

=============================================================================
