-------------------------- MODULE PolytreeBuilder --------------------------
(***************************************************************************)
(* A caller that fills a PolytreeBuilder with add_node and add_edge and    *)
(* builds from it, and what the evaluation plan and the compact arrays of  *)
(* the result promise (the comments of static_polytree.h).                 *)
(***************************************************************************)
EXTENDS StaticBuild

CONSTANTS
    NodeData, EdgeData,
    MaxNodes  \* bound on the nodes a caller adds

ASSUME BuilderBounds == MaxNodes \in Nat

VARIABLES
    builder,      \* nodes, edges in the order they were added, parent_of
    interrupted,  \* an add_ call threw after it had changed the builder
    result        \* how the last call ended, and the handle of a new node

vars == <<builder, interrupted, result>>

Init ==
    /\ builder = EmptyBuilder
    /\ interrupted = FALSE
    /\ result = [status |-> "none"]

(* push_back throws before any change, or between two changes of one call; *)
(* the latter once per builder, a bound.                                   *)
Throw ==
    /\ result' = [status |-> "exception"]
    /\ UNCHANGED <<builder, interrupted>>
Interrupt(changed) ==
    /\ ~interrupted
    /\ interrupted' = TRUE
    /\ builder' = changed
    /\ result' = [status |-> "exception"]

AddNode(data) ==
    /\ Len(builder.nodes) < MaxNodes
    /\ \/ Throw
       \/ Interrupt([builder EXCEPT !.nodes = Append(@, data)])
       \/ /\ builder' = WithNode(builder, data)
          /\ result' =
                [status |-> "node", handle |-> AsHandle(Len(builder.nodes))]
          /\ UNCHANGED interrupted

(* parent_of[to] is read past its end: an add_node stopped half way.       *)
ReadsPastParents(from, to) ==
    /\ from < Len(builder.nodes)
    /\ to < Len(builder.nodes)
    /\ from # to
    /\ to >= Len(builder.parentOf)

AddEdge(from, to, data) ==
    \/ /\ ReadsPastParents(from, to)
       /\ result' = [status |-> "undefined"]
       /\ UNCHANGED <<builder, interrupted>>
    \/ /\ ~ReadsPastParents(from, to)
       /\ ~AcceptsEdge(builder, from, to)
       /\ result' = [status |-> "false"]
       /\ UNCHANGED <<builder, interrupted>>
    \/ /\ ~ReadsPastParents(from, to)
       /\ AcceptsEdge(builder, from, to)
       /\ \/ Interrupt([builder EXCEPT !.parentOf[to + 1] = from])
          \/ /\ builder' = WithEdge(builder, from, to, data)
             /\ result' = [status |-> "true"]
             /\ UNCHANGED interrupted

(* build takes the builder by value: the caller's is copied, or moved from *)
(* and empty.  The topology it returns is Build(builder).topology.         *)
BuildTopology ==
    /\ result' \in {[status |-> Build(builder).status],
                    [status |-> "exception"]}
    /\ \/ UNCHANGED <<builder, interrupted>>
       \/ builder' = EmptyBuilder /\ interrupted' = FALSE

Next ==
    \/ \E data \in NodeData : AddNode(data)
    \/ \E from, to \in 0 .. InvalidNode, data \in EdgeData :
          AddEdge(from, to, data)
    \/ BuildTopology

Spec == Init /\ [][Next]_vars

-----------------------------------------------------------------------------
(* Properties.  Those of a topology are about what build returns for any   *)
(* builder a caller can make without an interrupted call.                  *)

Handles(b) == HandlesOf(b.nodes)
ParentOf(b, h) == At(b.parentOf, h)

Built == ~interrupted /\ Build(builder).status = "built"
Result == Build(builder).topology

(* The vectors of the builder hold handles and payloads, and parent_of is  *)
(* as long as nodes unless add_node was interrupted between them.          *)
TypeOK ==
    /\ builder.nodes \in Seq(NodeData)
    /\ builder.parentOf \in Seq(0 .. InvalidNode)
    /\ \/ Len(builder.parentOf) = Len(builder.nodes)
       \/ interrupted /\ Len(builder.parentOf) + 1 = Len(builder.nodes)
    /\ \A k \in DOMAIN builder.edges :
          builder.edges[k] \in [from : Handles(builder), to : Handles(builder),
                                data : EdgeData]
    /\ result.status \in {"none", "node", "true", "false", "nullopt", "built",
                          "exception", "undefined"}

(* parent_of and the edge list, which add_edge writes in two steps and     *)
(* build reads separately (levels from the one, order and rows from the    *)
(* other), describe the same relation; an interrupted call leaves a parent *)
(* without its edge, never an edge without its parent.                     *)
ParentsMatchEdges ==
    /\ \A k \in DOMAIN builder.edges :
          ParentOf(builder, builder.edges[k].to) = builder.edges[k].from
    /\ ~interrupted =>
          \A h \in Handles(builder) :
              ParentOf(builder, h) # InvalidNode =>
                  Cardinality({k \in DOMAIN builder.edges :
                                  builder.edges[k].to = h}) = 1

(* Kahn's algorithm gives up exactly on the builders that hold a cycle;    *)
(* add_edge lets a caller close one.  (An interrupted add_node leaves one  *)
(* node more than parent_of has entries.)                                  *)
HasCycle(b) ==
    \E S \in SUBSET HandlesOf(b.parentOf) :
        S # {} /\ \A h \in S : ParentOf(b, h) \in S
BuildRejectsExactlyCycles ==
    ~interrupted =>
        (Build(builder).status = "nullopt" <=> HasCycle(builder))

Position(seq, h) == CHOOSE i \in DOMAIN seq : seq[i] = h
EachHandleOnce(seq, topology) ==
    /\ Len(seq) = Len(topology.nodeData)
    /\ ToSet(seq) = HandlesOf(topology.nodeData)

(* The cached orders visit every node once, parents before children in one *)
(* and after them in the other.                                            *)
OrdersRespectParents ==
    Built =>
        LET t == Result
        IN  /\ EachHandleOnce(t.plan.topo, t)
            /\ EachHandleOnce(t.plan.reverseTopo, t)
            /\ \A h \in HandlesOf(t.nodeData) :
                  At(t.parent, h) # InvalidNode =>
                      /\ Position(t.plan.topo, At(t.parent, h))
                             < Position(t.plan.topo, h)
                      /\ Position(t.plan.reverseTopo, h)
                             < Position(t.plan.reverseTopo, At(t.parent, h))

(* The number of edges above h: its proper ancestors are the members other *)
(* than h of the smallest set with h that is closed under parent.          *)
Ancestors(t, h) ==
    {a \in HandlesOf(t.nodeData) :
        /\ a # h
        /\ \A S \in SUBSET HandlesOf(t.nodeData) :
              (h \in S /\ \A x \in S : At(t.parent, x) \in S \cup {InvalidNode})
                  => a \in S}

(* dependency_level(l) is the nodes at depth l in topological order, the   *)
(* levels cover the nodes, and level 0 is the roots.                       *)
LevelsAreDepths ==
    Built =>
        LET t == Result
            levels == PlanLevels(t.plan)
            level(l) == DependencyLevel(t.plan, l)
            depths == [h \in HandlesOf(t.nodeData) |->
                          Cardinality(Ancestors(t, h))]
        IN  /\ EachHandleOnce(t.plan.dependency, t)
            /\ \A l \in 0 .. levels - 1 :
                  level(l) = NodesWith(t.plan.topo, depths, l)
                  /\ level(l) # <<>>
            /\ ToSet(level(0)) = ToSet(t.plan.roots)

(* The rows of the compact arrays and the parent array are inverse, and    *)
(* every edge payload is found from both its ends.                         *)
RowsMatchParents ==
    Built =>
        LET t == Result
        IN  \A p \in HandlesOf(t.nodeData) :
              /\ ToSet(ChildSpan(t, p)) =
                     {c \in HandlesOf(t.nodeData) : At(t.parent, c) = p}
              /\ IsInjective(ChildSpan(t, p))
              /\ \A i \in DOMAIN ChildSpan(t, p) :
                    At(t.parentEdgeData, ChildSpan(t, p)[i])
                        = ChildEdgeSpan(t, p)[i]

(* What is built depends on the order of the edges below each node alone:  *)
(* two edges of different parents can be added in either order.            *)
Exchanged(edges, k) ==
    [edges EXCEPT ![k] = edges[k + 1], ![k + 1] = edges[k]]
BuildIgnoresInterleaving ==
    \A k \in 1 .. Len(builder.edges) - 1 :
        builder.edges[k].from # builder.edges[k + 1].from =>
            Build([builder EXCEPT !.edges = Exchanged(@, k)]) = Build(builder)

(* INCREMENTAL.md: a cycle cannot be present in a successfully built       *)
(* polytree - whatever happened to the builder it was built from.          *)
BuiltIsAcyclic == Build(builder).status = "built" => ~HasCycle(builder)

=============================================================================
