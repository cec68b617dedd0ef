--------------------------- MODULE ClosureContract ---------------------------
(***************************************************************************)
(* What INCREMENTAL.md promises of ancestor_closure_order: bound to a tree *)
(* by prepare, a call answers with the seeds and all their ancestors, each *)
(* once, in the cached reverse topological order of that tree.             *)
(***************************************************************************)
EXTENDS Integers, SequencesExt

CONSTANTS
    Topologies,   \* the topologies an owner can hold
    InvalidNode,  \* the handle that names no node
    MaxSeeds      \* bound on the seeds of one call

VARIABLES
    tree,    \* the topology the owner holds
    bound,   \* prepare was called for it
    seeds,   \* of the last call
    status,  \* "none", "pending", or "answered" while the span is valid
    answer   \* the span

Handle == 0 .. Len(tree.nodeData) - 1
Parent(h) == tree.parent[h + 1]

(* The smallest set that holds the seeds and is closed under parent.       *)
ClosedUnderParent(S) ==
    \A h \in S : Parent(h) \in S \cup {InvalidNode}
AncestorUnion(s) ==
    {a \in Handle :
        \A S \in SUBSET Handle :
            ToSet(s) \subseteq S /\ ClosedUnderParent(S) => a \in S}

(* There is one such sequence: the order names each handle once.           *)
Rank(h) == CHOOSE i \in DOMAIN tree.plan.reverseTopo :
               tree.plan.reverseTopo[i] = h
IsClosure(span, s) ==
    /\ span \in Seq(Handle)
    /\ ToSet(span) = AncestorUnion(s)
    /\ \A i, j \in DOMAIN span : i < j => Rank(span[i]) < Rank(span[j])

Init ==
    /\ tree \in Topologies
    /\ bound = FALSE
    /\ seeds = <<>>
    /\ status = "none"
    /\ answer = <<>>

(* The owner replaces the topology, prepares, or fails to: the span ends.  *)
Bind ==
    /\ status # "pending"
    /\ status' = "none" /\ answer' = <<>>
    /\ seeds' = <<>>
    /\ \/ tree' \in Topologies /\ bound' = FALSE
       \/ tree' = tree /\ bound' \in BOOLEAN

Ask ==
    /\ bound
    /\ status # "pending"
    /\ status' = "pending" /\ answer' = <<>>
    /\ seeds' \in BoundedSeq(Handle, MaxSeeds)
    /\ UNCHANGED <<tree, bound>>

Answer ==
    /\ status = "pending"
    /\ status' = "answered" /\ IsClosure(answer', seeds)
    /\ UNCHANGED <<tree, bound, seeds>>

Next == Bind \/ Ask \/ Answer

Spec == Init /\ [][Next]_<<tree, bound, seeds, status, answer>>

=============================================================================
