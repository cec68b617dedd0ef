-------------------------- MODULE MCAncestorClosure --------------------------
(* A small instance of AncestorClosure for TLC.                            *)
EXTENDS AncestorClosure
=============================================================================
