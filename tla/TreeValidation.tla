-------------------------- MODULE TreeValidation --------------------------
(* validate() of include/graph/mutable_polytree.h: the defensive check of  *)
(* a whole MutablePolytree that freeze runs first.                         *)
EXTENDS MutablePolytree, Handles

Verdict(error, node) == [error |-> error, node |-> node]
Accepted == Verdict("none", InvalidId)

RootFault(root) ==
    IF ~Known(root) THEN "invalid_root"
    ELSE IF ~IsRoot(root) THEN "root_has_parent"
    ELSE IF FindRecord(root).parentEdge # NoEdge THEN "root_has_parent_edge"
    ELSE "none"

ChildFault(parent, child) ==
    IF ~Known(child) THEN "invalid_child"
    ELSE IF Parent(child) # parent THEN "parent_mismatch"
    ELSE IF FindRecord(child).parentEdge = NoEdge THEN "missing_parent_edge"
    ELSE "none"

(* The first member of seq that is at fault decides; the scan stops there. *)
FirstFault(seq, Fault(_)) ==
    LET at == SelectInSeq(seq, LAMBDA n : Fault(n) # "none")
    IN  IF at = 0 THEN Accepted ELSE Verdict(Fault(seq[at]), seq[at])

(* One round of the worklist: pending_nodes[cursor].                       *)
VisitRound(s) ==
    LET current == s.pending[s.cursor]
        children == Children(current)
        fault == FirstFault(children, LAMBDA c : ChildFault(current, c))
    IN  IF current \in s.visited
        THEN [s EXCEPT !.cursor = @ + 1,
                       !.result = Verdict("duplicate_reachability", current)]
        ELSE [pending |-> s.pending \o
                  (IF fault = Accepted THEN children
                   ELSE SubSeq(children, 1, SelectInSeq(children,
                            LAMBDA c : ChildFault(current, c) # "none") - 1)),
              cursor |-> s.cursor + 1,
              visited |-> s.visited \cup {current},
              result |-> fault]

(* Each round but a last one adds a known node to visited.                 *)
Visit ==
    LET rounds[i \in 0 .. NodeCount + 1] ==
          IF i = 0 THEN [pending |-> roots, cursor |-> 1, visited |-> {},
                         result |-> Accepted]
          ELSE LET s == rounds[i - 1]
               IN  IF s.result = Accepted /\ s.cursor <= Len(s.pending)
                   THEN VisitRound(s) ELSE s
    IN  rounds[NodeCount + 1]

Validate ==
    IF NodeCount > InvalidNode THEN Verdict("node_count_overflow", InvalidId)
    ELSE IF FirstFault(roots, RootFault) # Accepted
    THEN FirstFault(roots, RootFault)
    ELSE IF Visit.result = Accepted /\ Cardinality(Visit.visited) # NodeCount
    THEN Verdict("cycle_or_orphan", InvalidId)
    ELSE Visit.result

-----------------------------------------------------------------------------
(* MUTABLE.md: normal public mutations preserve what validate checks, so   *)
(* it accepts every tree they lead to unless its nodes outnumber handles.  *)
ValidateAcceptsReachableTrees ==
    Validate = IF NodeCount > InvalidNode
               THEN Verdict("node_count_overflow", InvalidId) ELSE Accepted

=============================================================================
