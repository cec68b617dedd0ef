---------------------------- MODULE MCMovedTrees ----------------------------
(* A small instance of MovedTrees for TLC.                                 *)
EXTENDS MovedTrees

(* The call and reply are read by no action.                               *)
View == <<state, other, history>>

=============================================================================
