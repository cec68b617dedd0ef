-------------------------- MODULE MCPolytreeStorage --------------------------
(* A small instance of PolytreeStorage for TLC.                            *)
EXTENDS PolytreeStorage
=============================================================================
