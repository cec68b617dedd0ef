----------------------------- MODULE MCStaticDag -----------------------------
(* A small instance of StaticDag for TLC.                                  *)
EXTENDS StaticDag

PayloadSymmetry == Permutations(EdgeData)

=============================================================================
