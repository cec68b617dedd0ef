------------------------------ MODULE Handles ------------------------------
(* include/graph/handles.h: a node handle is a uint32, and the largest one *)
(* stands for no node.                                                     *)
EXTENDS Integers

CONSTANT InvalidNode  \* INVALID_NODE

ASSUME InvalidNodeAssumption == InvalidNode \in Nat \ {0}

(* static_cast<NodeHandle>(size) and 32-bit sums.                          *)
AsHandle(n) == n % (InvalidNode + 1)

=============================================================================
