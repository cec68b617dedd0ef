------------------------- MODULE MCPolytreeBuilder -------------------------
(* A small instance of PolytreeBuilder and of PolytreeTraversal for TLC.   *)
EXTENDS PolytreeTraversal

(* result is written by every action and read by none.                     *)
View == <<builder, interrupted>>

PayloadSymmetry == Permutations(EdgeData)

=============================================================================
