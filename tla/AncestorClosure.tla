--------------------------- MODULE AncestorClosure ---------------------------
(***************************************************************************)
(* An AncestorClosureWorkspace (include/graph/ancestor_closure.h), its     *)
(* owner and the tree it is bound to.  The owner replaces the tree,        *)
(* prepares the workspace for it and asks for closures; a closure is the   *)
(* sequence of steps its loops take.  One owner, one thread: nothing comes *)
(* between the steps of a call.                                            *)
(***************************************************************************)
EXTENDS BuiltForests

CONSTANTS
    Payload,   \* a node payload
    MaxNodes,  \* bound on the nodes of a tree
    MaxSeeds   \* bound on the seeds of one call

ASSUME MaxNodesAssumption == MaxNodes \in Nat
ASSUME MaxSeedsAssumption == MaxSeeds \in Nat

Topologies == TopologiesUpTo(MaxNodes, Payload)

VARIABLES
    tree,       \* the topology the owner holds
    bound,      \* workspace was prepared for it, the caller's obligation
    workspace,  \* order with its capacity, rank, marked
    call        \* where a closure stands, its seeds, the next one, current

vars == <<tree, bound, workspace, call>>

NodeCount == Len(tree.plan.topo)
Handle == HandlesOf(tree.nodeData)
Marked(h) == At(workspace.marked, h) = 1

NoCall == [pc |-> "none", seeds |-> <<>>, next |-> 1, current |-> InvalidNode]
Calling == call.pc \in {"seeds", "walk"}

Init ==
    /\ tree \in Topologies
    /\ bound = FALSE
    /\ workspace = [order |-> <<>>, capacity |-> 0,
                    rank |-> <<>>, marked |-> <<>>]
    /\ call = NoCall

(* Replacing twice with nothing in between is replacing once.              *)
ReplaceTree ==
    /\ ~Calling
    /\ bound \/ call.pc = "failed"
    /\ tree' \in Topologies
    /\ bound' = FALSE
    /\ call' = NoCall
    /\ UNCHANGED workspace

-----------------------------------------------------------------------------
(* prepare *)

ReverseRanks ==
    [i \in 1 .. NodeCount |->
        SelectInSeq(tree.plan.reverseTopo, LAMBDA h : h = i - 1) - 1]

(* A prepare that trusts ranks of the right number.                        *)
RanksOfSameSize ==
    IF Len(workspace.rank) = NodeCount THEN workspace.rank ELSE ReverseRanks

Ranks == ReverseRanks

(* A prepare without its marked.assign.                                    *)
MarksLeft == workspace.marked

NoMarks == [i \in 1 .. NodeCount |-> 0]

(* vector::resize: what is kept, and zeros behind it.                      *)
Resized(v, n) == [i \in 1 .. n |-> IF i <= Len(v) THEN v[i] ELSE 0]

(* The workspace after the first so many of clear, reserve, resize.        *)
Cleared == [workspace EXCEPT !.order = <<>>]
Reserved == [Cleared EXCEPT !.capacity = Max({@, NodeCount})]
Sized == [Reserved EXCEPT !.rank = Resized(@, NodeCount)]

Prepare ==
    /\ ~Calling
    /\ workspace' = [Sized EXCEPT !.marked = NoMarks, !.rank = Ranks]
    /\ bound' = TRUE
    /\ call' = NoCall
    /\ UNCHANGED tree

(* A vector that has to grow may throw; what was done before stays.  For   *)
(* rank and marked the model knows the length only, not the capacity, so   *)
(* it lets prepare throw in more states than the code does.                *)
PrepareThrows ==
    /\ ~Calling
    /\ \/ NodeCount > workspace.capacity /\ workspace' = Cleared
       \/ NodeCount > Len(workspace.rank) /\ workspace' = Reserved
       \/ NodeCount > Len(workspace.marked) /\ workspace' = Sized
    /\ bound' = FALSE
    /\ call' = [NoCall EXCEPT !.pc = "failed"]
    /\ UNCHANGED tree

-----------------------------------------------------------------------------
(* ancestor_closure_order *)

Begin(seeds) ==
    /\ bound /\ ~Calling
    /\ workspace' = Cleared
    /\ call' = [NoCall EXCEPT !.pc = "seeds", !.seeds = seeds]
    /\ UNCHANGED <<tree, bound>>

(* A loop over the seeds that stays on the one it has.                     *)
SameSeed == call.next

FollowingSeed == call.next + 1

NextSeed ==
    /\ call.pc = "seeds"
    /\ call.next <= Len(call.seeds)
    /\ call' = [call EXCEPT !.pc = "walk", !.next = FollowingSeed,
                            !.current = call.seeds[call.next]]
    /\ UNCHANGED <<tree, bound, workspace>>

(* take_while without the test for a mark.                                 *)
PathToRoot == call.current # InvalidNode

PathGoesOn == call.current # InvalidNode /\ ~Marked(call.current)

Climb ==
    /\ call.pc = "walk" /\ PathGoesOn
    /\ workspace' = [workspace EXCEPT !.marked[call.current + 1] = 1,
                                      !.order = Append(@, call.current)]
    /\ call' = [call EXCEPT !.current = At(tree.parent, @)]
    /\ UNCHANGED <<tree, bound>>

EndPath ==
    /\ call.pc = "walk" /\ ~PathGoesOn
    /\ call' = [call EXCEPT !.pc = "seeds"]
    /\ UNCHANGED <<tree, bound, workspace>>

(* std::sort: each element behind those of a lower rank.                   *)
SortedByRank(order) ==
    LET rank(i) == At(workspace.rank, order[i])
        place(i) ==
            Cardinality({j \in DOMAIN order :
                rank(j) < rank(i) \/ (rank(j) = rank(i) /\ j < i)}) + 1
    IN  [p \in DOMAIN order |->
            order[CHOOSE i \in DOMAIN order : place(i) = p]]

(* The marks of the seeds removed, not those of their ancestors.           *)
UnmarkedSeeds ==
    [i \in DOMAIN workspace.marked |->
        IF Contains(call.seeds, i - 1) THEN 0 ELSE workspace.marked[i]]

Unmarked ==
    [i \in DOMAIN workspace.marked |->
        IF Contains(workspace.order, i - 1) THEN 0 ELSE workspace.marked[i]]

Return ==
    /\ call.pc = "seeds"
    /\ call.next > Len(call.seeds)
    /\ workspace' = [workspace EXCEPT !.order = SortedByRank(@),
                                      !.marked = Unmarked]
    /\ call' = [call EXCEPT !.pc = "returned"]
    /\ UNCHANGED <<tree, bound>>

-----------------------------------------------------------------------------
Step == NextSeed \/ Climb \/ EndPath \/ Return

Next ==
    \/ ReplaceTree
    \/ Prepare
    \/ PrepareThrows
    \/ \E seeds \in BoundedSeq(Handle, MaxSeeds) : Begin(seeds)
    \/ Step

(* A call that was begun runs to its end; the owner need not make any.     *)
Fairness == WF_vars(Step)

Spec == Init /\ [][Next]_vars /\ Fairness

-----------------------------------------------------------------------------
(* Properties *)

(* The vectors hold handles, ranks and marks, and a bound workspace has a  *)
(* rank and a mark for every node of the tree (the assert of line 42).     *)
TypeOK ==
    /\ tree \in Topologies
    /\ bound \in BOOLEAN
    /\ workspace.order \in Seq(0 .. InvalidNode - 1)
    /\ workspace.capacity \in 0 .. MaxNodes
    /\ workspace.rank \in Seq(0 .. MaxNodes - 1)
    /\ workspace.marked \in Seq({0, 1})
    /\ call.pc \in {"none", "failed", "seeds", "walk", "returned"}
    /\ call.current \in Handle \cup {InvalidNode}
    /\ bound => /\ Len(workspace.rank) = NodeCount
                /\ Len(workspace.marked) = NodeCount

(* The marks are those of the nodes the running call has collected, and    *)
(* none is left between calls, whatever was prepared, abandoned by an      *)
(* exception or rebound before: the next walk stops at its own nodes only. *)
MarksFollowOrder ==
    \A i \in DOMAIN workspace.marked :
        workspace.marked[i] = 1 <=> Calling /\ Contains(workspace.order, i - 1)

(* Seeds that share ancestors, or repeat, never make the order longer than *)
(* what prepare reserved: a closure allocates nothing.                     *)
ClosureFitsReserve == Len(workspace.order) <= workspace.capacity

(* A call that was begun returns.                                          *)
CallReturns == Calling ~> call.pc = "returned"

Contract == INSTANCE ClosureContract WITH
    seeds <- call.seeds,
    status <- IF Calling THEN "pending"
              ELSE IF call.pc = "returned" THEN "answered" ELSE "none",
    answer <- IF call.pc = "returned" THEN workspace.order ELSE <<>>

(* What a closure returns is the inclusive ancestor union of its seeds in  *)
(* the reverse topological order of the tree the workspace was last        *)
(* prepared for, whatever tree and calls the workspace served before.      *)
ImplementsClosureContract == Contract!Spec

=============================================================================
