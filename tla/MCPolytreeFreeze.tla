------------------------- MODULE MCPolytreeFreeze -------------------------
(* Small instances of PolytreeFreeze for TLC.                              *)
EXTENDS PolytreeFreeze

(* call and reply are written by every mutation and read by no action.     *)
View == <<state, freezeVars>>

PayloadSymmetry == Permutations(NodeData) \cup Permutations(EdgeData)

=============================================================================
