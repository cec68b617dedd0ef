------------------------ MODULE PolytreeBuilderProofs ------------------------
(***************************************************************************)
(* The invariant of PolytreeBuilder, what build promises of every builder  *)
(* it accepts, and what the traversals of PolytreeTraversal read from the  *)
(* topology it returns, for any payloads and any number of nodes a handle  *)
(* can name.                                                               *)
(*                                                                         *)
(* add_node does not look at the number of nodes: its handles are uint32,  *)
(* and a node at INVALID_NODE would be a parent that add_edge takes for    *)
(* none.  So the theorems are about callers that stop before: with         *)
(* MaxNodes <= InvalidNode every handle is a name of one node.             *)
(***************************************************************************)
EXTENDS PolytreeTraversal, BuildLemmas

(* The inductive invariant.  The edges have one parent each because        *)
(* add_edge reads parent_of, so it needs every edge to be in parent_of,    *)
(* after an interrupted call too; that every parent has its edge holds     *)
(* only without one.                                                       *)
BuilderInv ==
    /\ RoughBuilder(builder, NodeData, EdgeData)
    /\ Len(builder.nodes) <= MaxNodes
    /\ interrupted \in BOOLEAN
    /\ ~interrupted => SoundBuilder(builder, NodeData, EdgeData)
    /\ result.status \in {"none", "node", "true", "false", "nullopt", "built",
                          "exception", "undefined"}

-----------------------------------------------------------------------------
(* The invariant is inductive *)

(* The empty builder satisfies the invariant.                              *)
LEMMA InitBuilderInv == Init => BuilderInv
<1> SUFFICES ASSUME Init PROVE BuilderInv
  OBVIOUS
<1>1. SoundBuilder(builder, NodeData, EdgeData)
  BY EmptyIsSound DEF Init
<1>2. Len(builder.nodes) = 0
  BY DEF Init, EmptyBuilder
<1>3. RoughBuilder(builder, NodeData, EdgeData)
  BY <1>1 DEF SoundBuilder
<1>4. Len(builder.nodes) <= MaxNodes
  BY <1>2, BuilderBounds
<1>5. interrupted \in BOOLEAN /\ result.status = "none"
  BY DEF Init
<1> QED BY <1>1, <1>3, <1>4, <1>5 DEF BuilderInv

(* add_node keeps the invariant, whether it ends, throws or is stopped     *)
(* between its two vectors.                                                *)
LEMMA AddNodeKeepsInv ==
  ASSUME MaxNodes <= InvalidNode, BuilderInv,
         NEW data \in NodeData, AddNode(data)
  PROVE  BuilderInv'
<1>1. /\ Len(builder.nodes) < InvalidNode
      /\ Len(builder.nodes) + 1 <= MaxNodes
  <2>1. Len(builder.nodes) \in Nat /\ Len(builder.nodes) < MaxNodes
    BY RoughParts DEF BuilderInv, AddNode
  <2> QED BY <2>1, BuilderBounds, InvalidNodeAssumption
<1>2. CASE Throw
  BY <1>2 DEF Throw, BuilderInv
<1>3. CASE Interrupt([builder EXCEPT !.nodes = Append(@, data)])
  <2>1. builder' = WithNodeOnly(builder, data)
    BY <1>3, Zenon DEF Interrupt, WithNodeOnly
  <2>2. SoundBuilder(builder, NodeData, EdgeData)
    BY <1>3 DEF Interrupt, BuilderInv
  <2>3. /\ RoughBuilder(builder', NodeData, EdgeData)
        /\ Len(builder'.nodes) = Len(builder.nodes) + 1
    BY <1>1, <2>1, <2>2, HalfNodeKeepsRough
  <2> QED BY <1>1, <1>3, <2>3 DEF Interrupt, BuilderInv
<1>4. CASE /\ builder' = WithNode(builder, data)
           /\ result' =
                 [status |-> "node", handle |-> AsHandle(Len(builder.nodes))]
           /\ UNCHANGED interrupted
  <2>1. /\ RoughBuilder(builder', NodeData, EdgeData)
        /\ SoundBuilder(builder, NodeData, EdgeData) =>
              SoundBuilder(builder', NodeData, EdgeData)
        /\ Len(builder'.nodes) = Len(builder.nodes) + 1
    BY <1>1, <1>4, NodeKeepsBuilder DEF BuilderInv
  <2> QED BY <1>1, <1>4, <2>1 DEF BuilderInv
<1> QED BY <1>2, <1>3, <1>4 DEF AddNode

(* add_edge keeps the invariant, whether it refuses, adds the edge, reads  *)
(* past parent_of or is stopped between parent_of and the edges.           *)
LEMMA AddEdgeKeepsInv ==
  ASSUME BuilderInv, NEW from \in Nat, NEW to \in Nat,
         NEW data \in EdgeData, AddEdge(from, to, data)
  PROVE  BuilderInv'
<1>1. CASE /\ result'.status \in {"undefined", "false", "exception"}
           /\ UNCHANGED <<builder, interrupted>>
  BY <1>1 DEF BuilderInv
<1>2. ASSUME ~ReadsPastParents(from, to), AcceptsEdge(builder, from, to)
      PROVE  to < Len(builder.parentOf)
  <2>1. Len(builder.parentOf) \in Nat
    BY RoughParts DEF BuilderInv
  <2> QED BY <1>2, <2>1 DEF ReadsPastParents, AcceptsEdge
<1>3. CASE /\ ~ReadsPastParents(from, to) /\ AcceptsEdge(builder, from, to)
           /\ Interrupt([builder EXCEPT !.parentOf[to + 1] = from])
  <2>1. builder' = WithParent(builder, from, to)
    BY <1>3, Zenon DEF Interrupt, WithParent
  <2>2. /\ RoughBuilder(builder', NodeData, EdgeData)
        /\ builder'.nodes = builder.nodes
    BY <1>2, <1>3, <2>1, HalfEdgeKeepsRough DEF BuilderInv
  <2> QED BY <1>3, <2>2 DEF Interrupt, BuilderInv
<1>4. CASE /\ ~ReadsPastParents(from, to) /\ AcceptsEdge(builder, from, to)
           /\ builder' = WithEdge(builder, from, to, data)
           /\ result' = [status |-> "true"]
           /\ UNCHANGED interrupted
  <2>1. /\ RoughBuilder(builder', NodeData, EdgeData)
        /\ SoundBuilder(builder, NodeData, EdgeData) =>
              SoundBuilder(builder', NodeData, EdgeData)
        /\ builder'.nodes = builder.nodes
    BY <1>2, <1>4, EdgeKeepsBuilder DEF BuilderInv
  <2> QED BY <1>4, <2>1 DEF BuilderInv
<1> QED BY <1>1, <1>3, <1>4 DEF AddEdge

(* build keeps the invariant of the builder it was given.                  *)
LEMMA BuildTopologyKeepsInv ==
  ASSUME BuilderInv, BuildTopology
  PROVE  BuilderInv'
<1>1. Build(builder).status \in {"undefined", "nullopt", "built"}
  BY DEF Build, BuildOf
<1>2. result'.status \in {"undefined", "nullopt", "built", "exception"}
  BY <1>1 DEF BuildTopology
<1>3. CASE UNCHANGED <<builder, interrupted>>
  BY <1>2, <1>3 DEF BuilderInv
<1>4. CASE builder' = EmptyBuilder /\ interrupted' = FALSE
  <2>1. SoundBuilder(builder', NodeData, EdgeData)
    BY <1>4, EmptyIsSound
  <2>2. Len(builder'.nodes) = 0
    BY <1>4 DEF EmptyBuilder
  <2>3. RoughBuilder(builder', NodeData, EdgeData)
    BY <2>1 DEF SoundBuilder
  <2>4. Len(builder'.nodes) <= MaxNodes
    BY <2>2, BuilderBounds
  <2>5. interrupted' \in BOOLEAN
    BY <1>4
  <2> QED BY <1>2, <2>1, <2>3, <2>4, <2>5 DEF BuilderInv
<1> QED BY <1>3, <1>4 DEF BuildTopology

(* Every step keeps the invariant.                                         *)
LEMMA NextBuilderInv ==
  ASSUME MaxNodes <= InvalidNode
  PROVE  BuilderInv /\ [Next]_vars => BuilderInv'
<1> SUFFICES ASSUME BuilderInv, [Next]_vars PROVE BuilderInv'
  OBVIOUS
<1>1. CASE UNCHANGED vars
  BY <1>1 DEF vars, BuilderInv
<1>2. ASSUME NEW data \in NodeData, AddNode(data) PROVE BuilderInv'
  BY <1>2, AddNodeKeepsInv
<1>3. ASSUME NEW from \in 0 .. InvalidNode, NEW to \in 0 .. InvalidNode,
             NEW data \in EdgeData, AddEdge(from, to, data)
      PROVE  BuilderInv'
  <2>1. from \in Nat /\ to \in Nat
    OBVIOUS
  <2> QED BY <1>3, <2>1, AddEdgeKeepsInv
<1>4. CASE BuildTopology
  BY <1>4, BuildTopologyKeepsInv
<1> QED BY <1>1, <1>2, <1>3, <1>4 DEF Next

(* The invariant holds of every builder, however its calls ended.          *)
THEOREM BuilderInvHolds ==
  ASSUME MaxNodes <= InvalidNode
  PROVE  Spec => []BuilderInv
BY InitBuilderInv, NextBuilderInv, PTL DEF Spec

-----------------------------------------------------------------------------
(* What it says *)

(* Every vector of the builder keeps its type and its length.              *)
THEOREM BuilderTypesHold ==
  ASSUME MaxNodes <= InvalidNode
  PROVE  Spec => []TypeOK
<1>1. ASSUME BuilderInv PROVE TypeOK
  <2>1. RoughBuilder(builder, NodeData, EdgeData)
    BY <1>1 DEF BuilderInv
  <2>2. /\ builder.nodes \in Seq(NodeData)
        /\ builder.parentOf \in Seq(0 .. InvalidNode)
        /\ DOMAIN builder.edges = 1 .. Len(builder.edges)
    BY <2>1, RoughParts
  <2>3. \A k \in 1 .. Len(builder.edges) :
           builder.edges[k] \in EdgeBelow(Len(builder.nodes), EdgeData)
    BY <2>1, RoughParts, ElementOfSeq
  <2>4. \/ Len(builder.parentOf) = Len(builder.nodes)
        \/ interrupted /\ Len(builder.parentOf) + 1 = Len(builder.nodes)
    BY <1>1, <2>1 DEF BuilderInv, RoughBuilder, SoundBuilder
  <2> QED BY <1>1, <2>2, <2>3, <2>4
       DEF TypeOK, BuilderInv, EdgeBelow, Handles, HandlesOf
<1> QED BY <1>1, BuilderInvHolds, PTL

(* parent_of and the edges always describe one relation.                   *)
THEOREM ParentsAndEdgesAgree ==
  ASSUME MaxNodes <= InvalidNode
  PROVE  Spec => []ParentsMatchEdges
<1>1. ASSUME BuilderInv PROVE ParentsMatchEdges
  <2>1. RoughBuilder(builder, NodeData, EdgeData)
    BY <1>1 DEF BuilderInv
  <2>2. /\ \A k \in DOMAIN builder.edges :
              ParentOf(builder, builder.edges[k].to) = builder.edges[k].from
        /\ OneParent(builder.edges)
    BY <2>1 DEF RoughBuilder, ParentOf
  <2>3. ASSUME ~interrupted, NEW h \in Handles(builder),
               ParentOf(builder, h) # InvalidNode
        PROVE  Cardinality({k \in DOMAIN builder.edges :
                               builder.edges[k].to = h}) = 1
    <3> DEFINE K == {k \in DOMAIN builder.edges : builder.edges[k].to = h}
    <3>1. PICK k \in DOMAIN builder.edges : builder.edges[k].to = h
      BY <1>1, <2>3 DEF BuilderInv, SoundBuilder, Handles, ParentOf
    <3>2. K = {k}
      BY <2>2, <3>1 DEF OneParent
    <3> QED BY <3>2, FS_Singleton
  <2> QED BY <2>2, <2>3 DEF ParentsMatchEdges
<1> QED BY <1>1, BuilderInvHolds, PTL

(* build refuses the builders with a cycle and no other, as long as the    *)
(* number of nodes and one more is a uint32.                               *)
THEOREM CyclesAloneAreRefused ==
  ASSUME MaxNodes < InvalidNode
  PROVE  Spec => []BuildRejectsExactlyCycles
<1>0. MaxNodes <= InvalidNode
  BY BuilderBounds, InvalidNodeAssumption
<1>1. ASSUME BuilderInv PROVE BuildRejectsExactlyCycles
  <2> SUFFICES ASSUME ~interrupted
               PROVE  Build(builder).status = "nullopt" <=> HasCycle(builder)
    BY DEF BuildRejectsExactlyCycles
  <2> DEFINE b == builder
             total == Len(b.nodes)
             H == 0 .. total - 1
             order == KahnTopo(b.edges, total)
  <2>1. SoundBuilder(b, NodeData, EdgeData)
    BY <1>1 DEF BuilderInv
  <2>2. /\ total \in Nat /\ b.edges \in Seq(EdgeBelow(total, EdgeData))
        /\ OneParent(b.edges)
    BY <2>1, RoughParts DEF SoundBuilder, RoughBuilder
  <2>3. total < InvalidNode
    BY <1>1, <2>2, BuilderBounds, InvalidNodeAssumption DEF BuilderInv
  <2>4. Build(b).status = "nullopt" <=> order = <<>> /\ total > 0
    BY <2>1, <2>3, BuildOfSound
  <2>5. \A S \in SUBSET H :
           ClosedUnderEdges(b.edges, S) <=> \A h \in S : ParentOf(b, h) \in S
    <3>1. \A h, p \in H : ParentOf(b, h) = p <=>
             \E k \in DOMAIN b.edges : b.edges[k].to = h /\ b.edges[k].from = p
      BY <2>1, EdgesAreParents DEF HandlesOf, ParentOf
    <3> HIDE DEF H, b
    <3>2. ASSUME NEW S \in SUBSET H, ClosedUnderEdges(b.edges, S), NEW h \in S
          PROVE  ParentOf(b, h) \in S
      <4>1. PICK k \in DOMAIN b.edges :
               b.edges[k].to = h /\ b.edges[k].from \in S
        BY <3>2 DEF ClosedUnderEdges
      <4> QED BY <3>1, <4>1
    <3>3. ASSUME NEW S \in SUBSET H, \A h \in S : ParentOf(b, h) \in S
          PROVE  ClosedUnderEdges(b.edges, S)
      BY <3>1, <3>3 DEF ClosedUnderEdges
    <3> QED BY <3>2, <3>3
  <2>6. HasCycle(b) <=> \E S \in SUBSET H :
                           S # {} /\ \A h \in S : ParentOf(b, h) \in S
    BY <2>1 DEF SoundBuilder, HasCycle, HandlesOf
  <2>7. ASSUME order = <<>>, total > 0 PROVE HasCycle(b)
    <3>1. PICK S \in SUBSET H : S # {} /\ ClosedUnderEdges(b.edges, S)
      BY <2>2, <2>7, KahnSorts
    <3> QED BY <2>5, <2>6, <3>1
  <2>8. ASSUME HasCycle(b) PROVE order = <<>> /\ total > 0
    <3>1. PICK S \in SUBSET H : S # {} /\ ClosedUnderEdges(b.edges, S)
      BY <2>5, <2>6, <2>8
    <3>2. order = <<>>
      BY <2>2, <3>1, CyclesAreRejected
    <3>3. total > 0
      <4>1. PICK h \in S : h \in 0 .. total - 1
        BY <3>1
      <4> QED BY <2>2, <4>1
    <3> QED BY <3>2, <3>3
  <2> QED BY <2>4, <2>7, <2>8
<1> QED BY <1>0, <1>1, BuilderInvHolds, PTL

(* In a sequence without repetition each element has the position it is at.*)
LEMMA PositionOf ==
  ASSUME NEW s, IsInjective(s), NEW i \in DOMAIN s
  PROVE  Position(s, s[i]) = i
BY DEF Position, IsInjective

(* The order of make_plan backwards counts from the other end.             *)
LEMMA ReversedOrder ==
  ASSUME NEW S, NEW s \in Seq(S), IsInjective(s), NEW i \in DOMAIN s
  PROVE  Position(Reverse(s), s[i]) = Len(s) + 1 - i
<1>1. Len(s) \in Nat /\ i \in 1 .. Len(s)
  BY LenProperties
<1> DEFINE k == Len(s) + 1 - i
           r == Reverse(s)
<1>2. /\ k \in 1 .. Len(s)
      /\ Len(s) + 1 - k = i
  BY <1>1
<1>3. DOMAIN r = 1 .. Len(s) /\ r[k] = s[Len(s) + 1 - k] /\ IsInjective(r)
  BY <1>2, ReversedMembers
<1> HIDE DEF k, r
<1>4. Position(r, r[k]) = k
  BY <1>2, <1>3, PositionOf
<1> QED BY <1>2, <1>3, <1>4 DEF k, r

(* Every topology build returns is ordered: each node once, its parent     *)
(* before it, and after it in the reverse order.                           *)
THEOREM OrdersAreTopological ==
  ASSUME MaxNodes <= InvalidNode
  PROVE  Spec => []OrdersRespectParents
<1>1. ASSUME BuilderInv PROVE OrdersRespectParents
  <2> SUFFICES ASSUME Built
               PROVE  LET t == Result
                      IN  /\ EachHandleOnce(t.plan.topo, t)
                          /\ EachHandleOnce(t.plan.reverseTopo, t)
                          /\ \A h \in HandlesOf(t.nodeData) :
                                At(t.parent, h) # InvalidNode =>
                                   /\ Position(t.plan.topo, At(t.parent, h))
                                         < Position(t.plan.topo, h)
                                   /\ Position(t.plan.reverseTopo, h)
                                         < Position(t.plan.reverseTopo,
                                                    At(t.parent, h))
    BY DEF OrdersRespectParents
  <2> DEFINE b == builder
             total == Len(b.nodes)
             order == KahnTopo(b.edges, total)
             t == Result
  <2>1. SoundBuilder(b, NodeData, EdgeData)
    BY <1>1 DEF BuilderInv, Built
  <2>2. /\ total \in Nat /\ b.edges \in Seq(EdgeBelow(total, EdgeData))
        /\ OneParent(b.edges)
    BY <2>1, RoughParts DEF SoundBuilder, RoughBuilder
  <2>3. /\ t = Topology(b)
        /\ Len(order) = total
        /\ ToSet(order) = HandlesOf(b.nodes)
    BY <2>1, BuildOfSound DEF Built, Result
  <2>4. /\ t.nodeData = b.nodes /\ t.parent = b.parentOf
        /\ t.plan.topo = order /\ t.plan.reverseTopo = Reverse(order)
    BY <2>3 DEF Topology, Plan
  <2>5. /\ order \in Seq(0 .. total - 1) /\ IsInjective(order)
        /\ ParentsAhead(b.edges, order)
    BY <2>2, KahnSorts
  <2>6. /\ Len(Reverse(order)) = total
        /\ ToSet(Reverse(order)) = HandlesOf(b.nodes)
        /\ \A i \in DOMAIN order :
              Position(Reverse(order), order[i]) = total + 1 - i
    BY <2>3, <2>5, ReversedOrder, ReversedMembers
  <2>7. \A i \in DOMAIN order : Position(order, order[i]) = i
    BY <2>5, PositionOf
  <2>8. DOMAIN order = 1 .. total
    BY <2>3, <2>5, LenProperties
  <2> HIDE DEF t, order, total
  <2>9. ASSUME NEW h \in HandlesOf(b.nodes), At(b.parentOf, h) # InvalidNode
        PROVE  /\ Position(order, At(b.parentOf, h)) < Position(order, h)
               /\ Position(Reverse(order), h)
                     < Position(Reverse(order), At(b.parentOf, h))
    <3> DEFINE p == At(b.parentOf, h)
    <3>1. PICK k \in DOMAIN b.edges : b.edges[k].to = h
      BY <2>1, <2>9 DEF SoundBuilder
    <3>2. b.edges[k].from = p
      BY <2>1, <3>1 DEF SoundBuilder, RoughBuilder
    <3>3. PICK j \in DOMAIN order : order[j] = h
      BY <2>3, <2>9 DEF ToSet
    <3>4. PICK i \in DOMAIN order : i < j /\ order[i] = p
      BY <2>5, <3>1, <3>2, <3>3 DEF ParentsAhead
    <3>5. /\ Position(order, p) = i /\ Position(order, h) = j
          /\ Position(Reverse(order), p) = total + 1 - i
          /\ Position(Reverse(order), h) = total + 1 - j
      BY <2>6, <2>7, <3>3, <3>4
    <3> HIDE DEF p
    <3>6. i < j /\ total + 1 - j < total + 1 - i
      BY <2>2, <2>8, <3>3, <3>4
    <3> QED BY <3>5, <3>6 DEF p
  <2>10. /\ EachHandleOnce(t.plan.topo, t)
         /\ EachHandleOnce(t.plan.reverseTopo, t)
    BY <2>3, <2>4, <2>6 DEF EachHandleOnce, total
  <2> QED BY <2>4, <2>9, <2>10 DEF t
<1> QED BY <1>1, BuilderInvHolds, PTL

(* Rows and parents are inverse, and every edge's payload is found from    *)
(* both its ends, in every topology build returns.                         *)
THEOREM RowsInvertParents ==
  ASSUME MaxNodes <= InvalidNode
  PROVE  Spec => []RowsMatchParents
<1>1. ASSUME BuilderInv PROVE RowsMatchParents
  <2> SUFFICES ASSUME Built
               PROVE  LET t == Result
                      IN  \A p \in HandlesOf(t.nodeData) :
                            /\ ToSet(ChildSpan(t, p)) =
                                  {c \in HandlesOf(t.nodeData) :
                                      At(t.parent, c) = p}
                            /\ IsInjective(ChildSpan(t, p))
                            /\ \A i \in DOMAIN ChildSpan(t, p) :
                                  At(t.parentEdgeData, ChildSpan(t, p)[i])
                                     = ChildEdgeSpan(t, p)[i]
    BY DEF RowsMatchParents
  <2> DEFINE t == Result
  <2>1. SoundBuilder(builder, NodeData, EdgeData)
    BY <1>1 DEF BuilderInv, Built
  <2>2. t = Topology(builder)
    BY <2>1, BuildOfSound DEF Built, Result
  <2>3. t.nodeData = builder.nodes /\ t.parent = builder.parentOf
    BY <2>2 DEF Topology
  <2> HIDE DEF t
  <2>4. ASSUME NEW p \in HandlesOf(t.nodeData)
        PROVE  /\ ToSet(ChildSpan(t, p)) =
                     {c \in HandlesOf(t.nodeData) : At(t.parent, c) = p}
               /\ IsInjective(ChildSpan(t, p))
    BY <2>1, <2>2, <2>3, RowsOfTopology
  <2>5. ASSUME NEW p \in HandlesOf(t.nodeData)
        PROVE  \A i \in DOMAIN ChildSpan(t, p) :
                  At(t.parentEdgeData, ChildSpan(t, p)[i])
                     = ChildEdgeSpan(t, p)[i]
    BY <2>1, <2>2, <2>3, PayloadsOfTopology
  <2> QED BY <2>4, <2>5 DEF t
<1> QED BY <1>1, BuilderInvHolds, PTL

-----------------------------------------------------------------------------
(* The order of the edges *)

(* What polytree_kahn_topo and make_plan read of the edges.                *)
KahnRoundOf(offsets, adjacency, s) ==
    LET node == Last(s.queue)
        kids == Span(offsets, adjacency, node)
    IN  [queue |-> Front(s.queue) \o NodesWith(kids, s.inDegree, 1),
         order |-> Append(s.order, node),
         inDegree |-> [h \in DOMAIN s.inDegree |->
                          IF Contains(kids, h) THEN s.inDegree[h] - 1
                          ELSE s.inDegree[h]]]
KahnOf(total, inDegree, offsets, adjacency) ==
    LET handles == [i \in 1 .. total |-> i - 1]
        run[i \in 0 .. total] ==
          IF i = 0
          THEN [queue |-> NodesWith(handles, inDegree, 0),
                order |-> <<>>, inDegree |-> inDegree]
          ELSE IF run[i - 1].queue = <<>> THEN run[i - 1]
          ELSE KahnRoundOf(offsets, adjacency, run[i - 1])
        order == run[total].order
    IN  IF Len(order) = total THEN order ELSE <<>>
TopologyOf(nodes, parentOf, sorted, order) ==
    LET total == Len(nodes)
        placed == EdgeAt(sorted, total)
    IN  [nodeData |-> nodes,
         outOffsets |-> Offsets(sorted, total),
         outNeighbors |-> [s \in DOMAIN placed |-> placed[s].to],
         outEdgeData |-> [s \in DOMAIN placed |-> placed[s].data],
         parent |-> parentOf,
         parentEdgeData |-> ParentEdges(sorted, total),
         plan |-> Plan(order, parentOf)]

(* Of the order of the edges, build sees the rows alone.                   *)
LEMMA BuildReadsRows ==
  ASSUME NEW b, NEW c, c.nodes = b.nodes, c.parentOf = b.parentOf,
         NEW total, total = Len(b.nodes),
         DOMAIN c.edges = DOMAIN b.edges,
         EdgeAt(c.edges, total) = EdgeAt(b.edges, total),
         Offsets(c.edges, total) = Offsets(b.edges, total),
         InDegree(c.edges, total) = InDegree(b.edges, total)
  PROVE  Build(c) = Build(b)
<1>1. Adjacency(c.edges, total) = Adjacency(b.edges, total)
  BY DEF Adjacency
<1>2. \A e : KahnTopo(e, total) =
         KahnOf(total, InDegree(e, total), Offsets(e, total),
                Adjacency(e, total))
  BY Zenon DEF KahnTopo, KahnOf, KahnRound, KahnRoundOf
<1>3. KahnTopo(c.edges, total) = KahnTopo(b.edges, total)
  BY <1>1, <1>2, Zenon
<1>4. \A x : Len(x.nodes) = total => Topology(x) =
         TopologyOf(x.nodes, x.parentOf, EdgeAt(x.edges, total),
                    KahnTopo(x.edges, total))
  BY Zenon DEF Topology, TopologyOf, SortedByParent
<1>5. Topology(c) = Topology(b)
  BY <1>3, <1>4, Zenon
<1> QED BY <1>3, <1>5, Zenon DEF Build, BuildOf, ParentsCover

(* Neighbouring edges of different parents can be added in either order.   *)
LEMMA ExchangeKeepsRows ==
  ASSUME NEW total \in Nat, NEW D, NEW edges \in Seq(EdgeBelow(total, D)),
         NEW k \in 1 .. Len(edges) - 1, edges[k].from # edges[k + 1].from
  PROVE  LET other == Exchanged(edges, k)
         IN  /\ DOMAIN other = DOMAIN edges
             /\ EdgeAt(other, total) = EdgeAt(edges, total)
             /\ Offsets(other, total) = Offsets(edges, total)
             /\ InDegree(other, total) = InDegree(edges, total)
<1> DEFINE n == Len(edges)
           other == Exchanged(edges, k)
           key == FromOf(edges)
           otherKey == FromOf(other)
<1>1. /\ n \in Nat /\ DOMAIN edges = 1 .. n
      /\ \A i \in 1 .. n : /\ edges[i] \in EdgeBelow(total, D)
                           /\ key[i] = edges[i].from
      /\ key \in [1 .. n -> Int]
  BY FromsAreKeys
<1>2. k \in 1 .. n /\ k + 1 \in 1 .. n
  BY <1>1
<1>3. other = [i \in 1 .. n |-> edges[Swapped(k, i)]]
  <2> DEFINE half == [edges EXCEPT ![k] = edges[k + 1]]
  <2>1. other = [half EXCEPT ![k + 1] = edges[k]]
    BY Zenon DEF Exchanged
  <2>2. edges = [i \in 1 .. n |-> edges[i]]
    BY <1>1
  <2>3. half = [i \in 1 .. n |-> IF i = k THEN edges[k + 1] ELSE edges[i]]
    BY <1>1, <2>2
  <2> HIDE DEF half, n
  <2>4. [half EXCEPT ![k + 1] = edges[k]] =
           [i \in 1 .. n |-> IF i = k + 1 THEN edges[k]
                             ELSE IF i = k THEN edges[k + 1] ELSE edges[i]]
    BY <2>3
  <2>5. \A i \in 1 .. n :
           (IF i = k + 1 THEN edges[k]
            ELSE IF i = k THEN edges[k + 1] ELSE edges[i])
              = edges[Swapped(k, i)]
    BY <1>1, <1>2 DEF Swapped
  <2> HIDE DEF other
  <2> QED BY <2>1, <2>4, <2>5
<1> HIDE DEF n, other
<1>4. \A i \in 1 .. n :
         Swapped(k, i) \in 1 .. n /\ Swapped(k, Swapped(k, i)) = i
  BY <1>1, SwappedTwice DEF n
<1>5. /\ DOMAIN other = 1 .. n
      /\ \A i \in 1 .. n : other[Swapped(k, i)] = edges[i]
  BY <1>3, <1>4
<1>6. other \in Seq(EdgeBelow(total, D)) /\ Len(other) = n
  <2>1. other \in [1 .. n -> EdgeBelow(total, D)]
    BY <1>1, <1>3, <1>4
  <2> QED BY <1>1, <2>1
<1>7. /\ otherKey \in [1 .. n -> Int]
      /\ \A i \in 1 .. n : otherKey[i] = other[i].from
  BY <1>6, FromsAreKeys
<1>8. ASSUME NEW i \in 1 .. n
      PROVE  Place(otherKey, Swapped(k, i)) = Place(key, i)
  <2>1. \A j \in 1 .. n : otherKey[Swapped(k, j)] = key[j]
    <3> HIDE DEF key, otherKey
    <3> TAKE j \in 1 .. n
    <3>1. otherKey[Swapped(k, j)] = other[Swapped(k, j)].from
      BY <1>4, <1>7
    <3> QED BY <1>1, <1>5, <3>1
  <2>2. key[k] # key[k + 1] /\ k \in 1 .. n - 1
    BY <1>1, <1>2 DEF n
  <2> HIDE DEF key, otherKey
  <2> QED BY <1>1, <1>7, <2>1, <2>2, SwappedPlace
<1>9. EdgeAt(other, total) = EdgeAt(edges, total)
  <2> DEFINE placed == EdgeAt(edges, total)
             placedOther == EdgeAt(other, total)
  <2>1. PICK source : PlacedFrom(edges, total, source)
    BY EdgesGrouped
  <2>2. PICK otherSource : PlacedFrom(other, total, otherSource)
    BY <1>6, EdgesGrouped
  <2>3. \A s \in 1 .. n : /\ source[s] \in 1 .. n
                          /\ placed[s] = edges[source[s]]
                          /\ Place(key, source[s]) = s
    BY <2>1 DEF PlacedFrom, n
  <2>4. /\ \A s \in 1 .. n : placedOther[s] = other[otherSource[s]]
        /\ \A i \in 1 .. n : otherSource[Place(otherKey, i)] = i
    BY <1>6, <2>2 DEF PlacedFrom
  <2>5. /\ placed = [s \in 1 .. n |-> placed[s]]
        /\ placedOther = [s \in 1 .. n |-> placedOther[s]]
    BY <1>1, <1>5 DEF EdgeAt
  <2> HIDE DEF placed, placedOther, key, otherKey
  <2>6. \A s \in 1 .. n : placedOther[s] = placed[s]
    <3> TAKE s \in 1 .. n
    <3>1. Place(otherKey, Swapped(k, source[s])) = s
      BY <1>8, <2>3
    <3>2. otherSource[s] = Swapped(k, source[s])
      BY <1>4, <2>3, <2>4, <3>1
    <3> QED BY <1>5, <2>3, <2>4, <3>2
  <2>7. placedOther = placed
    BY <2>5, <2>6
  <2> QED BY <2>7 DEF placed, placedOther
<1>10. Offsets(other, total) = Offsets(edges, total)
  <2>1. ASSUME NEW p \in 0 .. total
        PROVE  Cardinality({i \in 1 .. n : other[i].from < p})
                  = Cardinality({i \in 1 .. n : edges[i].from < p})
    <3> DEFINE A == {i \in 1 .. n : edges[i].from < p}
               B == {i \in 1 .. n : other[i].from < p}
    <3>1. SwapsTo(n, k, A, B)
      BY <1>4, <1>5 DEF SwapsTo
    <3>2. A \in SUBSET (1 .. n) /\ B \in SUBSET (1 .. n)
      OBVIOUS
    <3>3. n \in Nat /\ k \in 1 .. n - 1
      BY <1>1 DEF n
    <3> HIDE DEF A, B
    <3>4. Cardinality(A) = Cardinality(B)
      BY <3>1, <3>2, <3>3, SwappedCount
    <3> QED BY <3>4 DEF A, B
  <2> QED BY <1>1, <1>5, <2>1 DEF Offsets
<1>11. InDegree(other, total) = InDegree(edges, total)
  <2>1. ASSUME NEW h \in 0 .. total - 1
        PROVE  Cardinality({i \in 1 .. n : other[i].to = h})
                  = Cardinality({i \in 1 .. n : edges[i].to = h})
    <3> DEFINE A == {i \in 1 .. n : edges[i].to = h}
               B == {i \in 1 .. n : other[i].to = h}
    <3>1. SwapsTo(n, k, A, B)
      BY <1>4, <1>5 DEF SwapsTo
    <3>2. A \in SUBSET (1 .. n) /\ B \in SUBSET (1 .. n)
      OBVIOUS
    <3>3. n \in Nat /\ k \in 1 .. n - 1
      BY <1>1 DEF n
    <3> HIDE DEF A, B
    <3>4. Cardinality(A) = Cardinality(B)
      BY <3>1, <3>2, <3>3, SwappedCount
    <3> QED BY <3>4 DEF A, B
  <2> QED BY <1>1, <1>5, <2>1 DEF InDegree
<1> QED BY <1>1, <1>5, <1>9, <1>10, <1>11 DEF other

(* What build returns does not depend on how the children of different     *)
(* parents were interleaved when they were added.                          *)
THEOREM InterleavingIsIgnored ==
  ASSUME MaxNodes <= InvalidNode
  PROVE  Spec => []BuildIgnoresInterleaving
<1>1. ASSUME BuilderInv PROVE BuildIgnoresInterleaving
  <2> DEFINE b == builder
             total == Len(b.nodes)
  <2>1. /\ b = [nodes |-> b.nodes, edges |-> b.edges,
                parentOf |-> b.parentOf]
        /\ total \in Nat
        /\ b.edges \in Seq(EdgeBelow(total, EdgeData))
    BY <1>1, RoughParts DEF BuilderInv
  <2>2. ASSUME NEW k \in 1 .. Len(b.edges) - 1,
               b.edges[k].from # b.edges[k + 1].from
        PROVE  Build([b EXCEPT !.edges = Exchanged(@, k)]) = Build(b)
    <3> DEFINE other == Exchanged(b.edges, k)
               c == [b EXCEPT !.edges = other]
    <3>1. /\ DOMAIN other = DOMAIN b.edges
          /\ EdgeAt(other, total) = EdgeAt(b.edges, total)
          /\ Offsets(other, total) = Offsets(b.edges, total)
          /\ InDegree(other, total) = InDegree(b.edges, total)
      <4> HIDE DEF total, b
      <4> QED BY <2>1, <2>2, ExchangeKeepsRows
    <3> HIDE DEF other
    <3>2. c.nodes = b.nodes /\ c.parentOf = b.parentOf /\ c.edges = other
      BY <2>1
    <3> HIDE DEF c
    <3>3. Build(c) = Build(b)
      <4> HIDE DEF b
      <4> QED BY <3>1, <3>2, BuildReadsRows
    <3> QED BY <3>3 DEF c, other
  <2> QED BY <2>2 DEF BuildIgnoresInterleaving
<1> QED BY <1>1, BuilderInvHolds, PTL

-----------------------------------------------------------------------------
(* What the traversals rely on *)

(* What every topology that build returns provides to those who read it.   *)
IsBuilt(t) ==
    LET H == HandlesOf(t.nodeData)
    IN  /\ Len(t.nodeData) \in Nat
        /\ Len(t.nodeData) <= InvalidNode
        /\ \A h \in H : At(t.parent, h) \in H \cup {InvalidNode}
        /\ \A p \in H :
              /\ ChildSpan(t, p) \in Seq(H)
              /\ ToSet(ChildSpan(t, p)) = {c \in H : At(t.parent, c) = p}
              /\ IsInjective(ChildSpan(t, p))
              /\ Len(ChildSpan(t, p)) = t.outOffsets[p + 1] - t.outOffsets[p]
              /\ DOMAIN ChildEdgeSpan(t, p) = 1 .. Len(ChildSpan(t, p))
              /\ Len(ChildEdgeSpan(t, p)) = Len(ChildSpan(t, p))
              /\ \A i \in 1 .. Len(ChildSpan(t, p)) :
                    At(t.parentEdgeData, ChildSpan(t, p)[i])
                       = ChildEdgeSpan(t, p)[i]
        /\ t.plan.topo \in Seq(H)
        /\ IsInjective(t.plan.topo)
        /\ Len(t.plan.topo) = Len(t.nodeData)
        /\ ToSet(t.plan.topo) = H
        /\ \A i \in 1 .. Len(t.plan.topo) :
              LET p == At(t.parent, t.plan.topo[i])
              IN  p # InvalidNode =>
                     \E j \in 1 .. i - 1 : t.plan.topo[j] = p

(* They do.                                                                *)
LEMMA BuiltIsBuilt ==
  ASSUME BuilderInv, Built
  PROVE  /\ IsBuilt(Result)
         /\ Handles(builder) = HandlesOf(Result.nodeData)
         /\ Result = Topology(builder)
         /\ Result.plan = Plan(Result.plan.topo, Result.parent)
         /\ Result.parent \in Seq(0 .. InvalidNode)
         /\ Len(Result.parent) = Len(Result.nodeData)
<1> DEFINE b == builder
           total == Len(b.nodes)
           order == KahnTopo(b.edges, total)
           t == Result
           H == HandlesOf(b.nodes)
<1>1. SoundBuilder(b, NodeData, EdgeData)
  BY DEF BuilderInv, Built
<1>2. /\ total \in Nat /\ b.edges \in Seq(EdgeBelow(total, EdgeData))
      /\ OneParent(b.edges) /\ total <= InvalidNode
      /\ b.parentOf \in Seq(0 .. InvalidNode) /\ Len(b.parentOf) = total
  BY <1>1, RoughParts DEF SoundBuilder, RoughBuilder
<1>3. /\ t = Topology(b)
      /\ Len(order) = total
      /\ ToSet(order) = HandlesOf(b.nodes)
  BY <1>1, BuildOfSound DEF Built, Result
<1>4. /\ t.nodeData = b.nodes /\ t.parent = b.parentOf
      /\ t.plan = Plan(order, b.parentOf) /\ t.plan.topo = order
  BY <1>3 DEF Topology, Plan
<1>5. /\ order \in Seq(0 .. total - 1) /\ IsInjective(order)
      /\ ParentsAhead(b.edges, order)
  BY <1>2, KahnSorts
<1>6. DOMAIN order = 1 .. total /\ H = 0 .. total - 1
  BY <1>3, <1>5, LenProperties DEF HandlesOf
<1> HIDE DEF t, order, total
<1>7. \A h \in H : At(b.parentOf, h) \in H \cup {InvalidNode}
  BY <1>1, EdgesAreParents
<1>8. ASSUME NEW p \in H
      PROVE  /\ ChildSpan(t, p) \in Seq(H)
             /\ ToSet(ChildSpan(t, p)) = {c \in H : At(t.parent, c) = p}
             /\ IsInjective(ChildSpan(t, p))
  BY <1>1, <1>3, <1>4, RowsOfTopology
<1>9. ASSUME NEW p \in H
      PROVE  /\ Len(ChildSpan(t, p)) = t.outOffsets[p + 1] - t.outOffsets[p]
             /\ DOMAIN ChildEdgeSpan(t, p) = 1 .. Len(ChildSpan(t, p))
             /\ Len(ChildEdgeSpan(t, p)) = Len(ChildSpan(t, p))
             /\ \A i \in 1 .. Len(ChildSpan(t, p)) :
                   At(t.parentEdgeData, ChildSpan(t, p)[i])
                      = ChildEdgeSpan(t, p)[i]
  <2>1. DOMAIN ChildSpan(t, p) = 1 .. Len(ChildSpan(t, p))
    BY <1>8, LenProperties
  <2>2. /\ Len(ChildSpan(t, p)) = t.outOffsets[p + 1] - t.outOffsets[p]
        /\ DOMAIN ChildEdgeSpan(t, p) = 1 .. Len(ChildSpan(t, p))
        /\ Len(ChildEdgeSpan(t, p)) = Len(ChildSpan(t, p))
        /\ \A i \in DOMAIN ChildSpan(t, p) :
              At(t.parentEdgeData, ChildSpan(t, p)[i])
                 = ChildEdgeSpan(t, p)[i]
    BY <1>1, <1>3, PayloadsOfTopology
  <2> QED BY <2>1, <2>2
<1>10. ASSUME NEW i \in 1 .. total, At(b.parentOf, order[i]) # InvalidNode
       PROVE  \E j \in 1 .. i - 1 : order[j] = At(b.parentOf, order[i])
  <2> DEFINE h == order[i]
             p == At(b.parentOf, h)
  <2>1. h \in H
    BY <1>3, <1>5, <1>6, ElementOfSeq
  <2>2. PICK k \in DOMAIN b.edges : b.edges[k].to = h
    BY <1>1, <1>10, <2>1 DEF SoundBuilder
  <2>3. b.edges[k].from = p
    BY <1>1, <2>2 DEF SoundBuilder, RoughBuilder
  <2>4. PICK j \in DOMAIN order : j < i /\ order[j] = p
    BY <1>5, <1>6, <2>2, <2>3 DEF ParentsAhead
  <2>5. j \in 1 .. i - 1
    BY <1>2, <1>6, <2>4
  <2> QED BY <2>4, <2>5
<1>11. /\ Len(t.nodeData) = total /\ HandlesOf(t.nodeData) = H
       /\ order \in Seq(H)
  BY <1>4, <1>5, <1>6 DEF total
<1> HIDE DEF H
<1>12. IsBuilt(t)
  <2>1. \A h \in H : At(t.parent, h) \in H \cup {InvalidNode}
    BY <1>4, <1>7 DEF H
  <2>2. \A p \in H :
           /\ ChildSpan(t, p) \in Seq(H)
           /\ ToSet(ChildSpan(t, p)) = {c \in H : At(t.parent, c) = p}
           /\ IsInjective(ChildSpan(t, p))
    BY <1>8 DEF H
  <2>3. \A p \in H :
           /\ Len(ChildSpan(t, p)) = t.outOffsets[p + 1] - t.outOffsets[p]
           /\ DOMAIN ChildEdgeSpan(t, p) = 1 .. Len(ChildSpan(t, p))
           /\ Len(ChildEdgeSpan(t, p)) = Len(ChildSpan(t, p))
           /\ \A i \in 1 .. Len(ChildSpan(t, p)) :
                 At(t.parentEdgeData, ChildSpan(t, p)[i])
                    = ChildEdgeSpan(t, p)[i]
    BY <1>9 DEF H
  <2>4. /\ t.plan.topo \in Seq(H) /\ IsInjective(t.plan.topo)
        /\ Len(t.plan.topo) = total /\ ToSet(t.plan.topo) = H
    BY <1>3, <1>4, <1>5, <1>11 DEF H
  <2>5. \A i \in 1 .. total :
           At(t.parent, order[i]) # InvalidNode =>
              \E j \in 1 .. i - 1 : order[j] = At(t.parent, order[i])
    BY <1>4, <1>10
  <2> QED BY <1>2, <1>4, <1>11, <2>1, <2>2, <2>3, <2>4, <2>5 DEF IsBuilt
<1> QED BY <1>2, <1>3, <1>4, <1>11, <1>12 DEF Handles, t, H

-----------------------------------------------------------------------------
(* Siblings *)

(* An ordinal is the place of a child among different ones, from zero.     *)
LEMMA OrdinalFound ==
  ASSUME NEW S, NEW children \in Seq(S), IsInjective(children),
         NEW i \in 1 .. Len(children)
  PROVE  OrdinalIn(children, children[i]) = i - 1
<1> DEFINE I == {k \in 1 .. Len(children) : children[k] = children[i]}
<1>1. I = {i}
  BY LenProperties DEF IsInjective
<1>2. i \in Nat /\ I \in SUBSET Nat /\ I # {}
  BY <1>1, LenProperties
<1>3. Contains(children, children[i])
  BY DEF Contains
<1>4. SelectInSeq(children, LAMBDA c : c = children[i])
         = IF I # {} THEN Min(I) ELSE 0
  BY DEF SelectInSeq
<1> HIDE DEF I
<1>5. Min(I) \in I
  BY <1>2, MinOfNaturals
<1>6. Min(I) = i
  BY <1>1, <1>5
<1>7. OrdinalIn(children, children[i])
         = SelectInSeq(children, LAMBDA c : c = children[i]) - 1
  BY <1>3 DEF OrdinalIn
<1> QED BY <1>2, <1>4, <1>6, <1>7

(* The sibling helpers of the i-th child of a node.                        *)
LEMMA SiblingsOf ==
  ASSUME NEW t, IsBuilt(t), NEW p \in HandlesOf(t.nodeData),
         NEW i \in 1 .. Len(ChildSpan(t, p))
  PROVE  LET span == ChildSpan(t, p)
             m == Len(span)
         IN  /\ m \in Nat /\ m <= InvalidNode
             /\ span[i] \in HandlesOf(t.nodeData) /\ Parent(t, span[i]) = p
             /\ p # InvalidNode /\ span[i] # InvalidNode
             /\ ChildOrdinal(t, span[i]) = i - 1
             /\ NextSibling(t, span[i]) =
                   IF i = m THEN InvalidNode ELSE span[i + 1]
             /\ PreviousSibling(t, span[i]) =
                   IF i = 1 THEN InvalidNode ELSE span[i - 1]
             /\ ChildAt(t, p, i - 1) = span[i]
<1> DEFINE span == ChildSpan(t, p)
           m == Len(span)
           H == HandlesOf(t.nodeData)
           n == Len(t.nodeData)
           h == span[i]
<1>1. /\ n \in Nat /\ n <= InvalidNode /\ H = 0 .. n - 1
      /\ span \in Seq(H) /\ IsInjective(span)
      /\ ToSet(span) = {c \in H : At(t.parent, c) = p}
  BY DEF IsBuilt, HandlesOf
<1>2. /\ m \in Nat /\ DOMAIN span = 1 .. m
      /\ \A k \in 1 .. m : span[k] \in H
      /\ i \in 1 .. m
  BY <1>1, LenProperties, ElementOfSeq
<1>3. m <= n
  <2>1. IsFiniteSet(H) /\ Cardinality(H) = n
    <3>1. 0 \in Int /\ n - 1 \in Int
      BY <1>1
    <3>2. IsFiniteSet(0 .. n - 1)
          /\ Cardinality(0 .. n - 1) = IF 0 > n - 1 THEN 0 ELSE n - 1 - 0 + 1
      BY <3>1, FS_Interval
    <3>3. (IF 0 > n - 1 THEN 0 ELSE n - 1 - 0 + 1) = n
      BY <1>1
    <3> QED BY <1>1, <3>2, <3>3
  <2> HIDE DEF H, span
  <2> QED BY <1>1, <2>1, InjectiveLength
<1>4. InvalidNode \in Nat
  BY InvalidNodeAssumption
<1>5. /\ h \in H /\ At(t.parent, h) = p /\ p \in H
  <2>1. h \in ToSet(span)
    BY <1>2 DEF ToSet
  <2> QED BY <1>1, <2>1
<1>6. p # InvalidNode /\ h # InvalidNode
  BY <1>1, <1>4, <1>5
<1>7. OrdinalIn(span, h) = i - 1
  BY <1>1, OrdinalFound
<1> HIDE DEF h
<1>8. ChildOrdinal(t, h) = i - 1 /\ Parent(t, h) = p
  BY <1>5, <1>6, <1>7 DEF ChildOrdinal, Parent
<1>9. i - 1 # NoOrdinal /\ i - 1 \in Nat
  BY <1>1, <1>2, <1>3, <1>4 DEF NoOrdinal
<1>10. \A k \in 0 .. m - 1 : ChildAt(t, p, k) = span[k + 1]
  BY <1>2 DEF ChildAt, At
<1>11. ChildAt(t, p, m) = InvalidNode
  BY <1>2 DEF ChildAt
<1> HIDE DEF span, m
<1>12. NextSibling(t, h) = ChildAt(t, p, (i - 1) + 1)
  BY <1>8, <1>9 DEF NextSibling
<1>13. PreviousSibling(t, h) =
          IF i - 1 = 0 THEN InvalidNode ELSE ChildAt(t, p, (i - 1) - 1)
  BY <1>8, <1>9 DEF PreviousSibling
<1>14. NextSibling(t, h) = IF i = m THEN InvalidNode ELSE span[i + 1]
  <2>1. CASE i = m
    <3>1. (i - 1) + 1 = m
      BY <1>2, <2>1
    <3> QED BY <1>11, <1>12, <2>1, <3>1
  <2>2. CASE i # m
    <3>1. (i - 1) + 1 \in 0 .. m - 1 /\ (i - 1) + 1 + 1 = i + 1
      BY <1>2, <2>2
    <3> QED BY <1>10, <1>12, <2>2, <3>1
  <2> QED BY <2>1, <2>2
<1>15. PreviousSibling(t, h) = IF i = 1 THEN InvalidNode ELSE span[i - 1]
  <2>1. CASE i = 1
    BY <1>13, <2>1
  <2>2. CASE i # 1
    <3>1. /\ (i - 1) - 1 \in 0 .. m - 1 /\ (i - 1) - 1 + 1 = i - 1
          /\ i - 1 # 0
      BY <1>2, <2>2
    <3> QED BY <1>10, <1>13, <2>2, <3>1
  <2> QED BY <2>1, <2>2
<1>16. ChildAt(t, p, i - 1) = span[i]
  <2>1. i - 1 \in 0 .. m - 1 /\ (i - 1) + 1 = i
    BY <1>2
  <2> QED BY <1>10, <2>1
<1>17. m <= InvalidNode
  BY <1>1, <1>2, <1>3, <1>4
<1> QED BY <1>2, <1>5, <1>6, <1>8, <1>14, <1>15, <1>16, <1>17 DEF h, span, m

(* Siblings are linked both ways along the stored order, whatever built    *)
(* the tree.                                                               *)
THEOREM SiblingsAreLinked ==
  ASSUME MaxNodes <= InvalidNode
  PROVE  Spec => []SiblingsLinked
<1>1. ASSUME BuilderInv PROVE SiblingsLinked
  <2> SUFFICES ASSUME Built, NEW h \in Handles(builder)
               PROVE  LET t == Result
                          parent == Parent(t, h)
                          next == NextSibling(t, h)
                          previous == PreviousSibling(t, h)
                      IN  /\ next # InvalidNode =>
                                /\ PreviousSibling(t, next) = h
                                /\ Parent(t, next) = parent
                          /\ previous # InvalidNode =>
                                NextSibling(t, previous) = h
                          /\ parent # InvalidNode =>
                                /\ next = InvalidNode <=>
                                      h = ChildAt(t, parent,
                                                  ChildCount(t, parent) - 1)
                                /\ previous = InvalidNode <=>
                                      h = ChildAt(t, parent, 0)
    BY DEF SiblingsLinked
  <2> DEFINE t == Result
             p == Parent(t, h)
             span == ChildSpan(t, p)
             m == Len(span)
  <2>1. IsBuilt(t) /\ h \in HandlesOf(t.nodeData)
    BY <1>1, BuiltIsBuilt
  <2> HIDE DEF t
  <2>2. CASE p = InvalidNode
    <3>1. ChildOrdinal(t, h) = NoOrdinal
      BY <2>2 DEF ChildOrdinal
    <3>2. NextSibling(t, h) = InvalidNode /\ PreviousSibling(t, h) = InvalidNode
      BY <3>1 DEF NextSibling, PreviousSibling
    <3> QED BY <2>2, <3>2 DEF t
  <2>3. CASE p # InvalidNode
    <3>1. /\ p \in HandlesOf(t.nodeData) /\ span \in Seq(HandlesOf(t.nodeData))
          /\ h \in ToSet(span) /\ IsInjective(span)
          /\ m = t.outOffsets[p + 1] - t.outOffsets[p]
      <4>1. p \in HandlesOf(t.nodeData)
        BY <2>1, <2>3 DEF IsBuilt, Parent
      <4> QED BY <2>1, <4>1 DEF IsBuilt, Parent
    <3>2. m \in Nat /\ DOMAIN span = 1 .. m
      BY <3>1, LenProperties
    <3>3. PICK i \in 1 .. m : span[i] = h
      BY <3>1, <3>2 DEF ToSet
    <3> HIDE DEF p
    <3>4. \A k \in 1 .. m :
             /\ span[k] # InvalidNode /\ Parent(t, span[k]) = p
             /\ NextSibling(t, span[k]) =
                   IF k = m THEN InvalidNode ELSE span[k + 1]
             /\ PreviousSibling(t, span[k]) =
                   IF k = 1 THEN InvalidNode ELSE span[k - 1]
             /\ ChildAt(t, p, k - 1) = span[k]
      BY <2>1, <3>1, SiblingsOf
    <3>5. ChildCount(t, p) = m
      BY <3>1 DEF ChildCount
    <3>6. \A k \in 1 .. m : span[k] = h => k = i
      BY <3>1, <3>2, <3>3 DEF IsInjective
    <3> HIDE DEF span, m
    <3>7. /\ i = m => NextSibling(t, h) = InvalidNode
          /\ i # m => /\ i + 1 \in 1 .. m /\ (i + 1) - 1 = i /\ i + 1 # 1
                      /\ NextSibling(t, h) = span[i + 1]
      BY <3>2, <3>3, <3>4
    <3>8. /\ i = 1 => PreviousSibling(t, h) = InvalidNode
          /\ i # 1 => /\ i - 1 \in 1 .. m /\ (i - 1) + 1 = i /\ i - 1 # m
                      /\ PreviousSibling(t, h) = span[i - 1]
      BY <3>2, <3>3, <3>4
    <3>9. /\ NextSibling(t, h) # InvalidNode =>
                /\ PreviousSibling(t, NextSibling(t, h)) = h
                /\ Parent(t, NextSibling(t, h)) = p
          /\ PreviousSibling(t, h) # InvalidNode =>
                NextSibling(t, PreviousSibling(t, h)) = h
      BY <3>3, <3>4, <3>7, <3>8
    <3>10. /\ NextSibling(t, h) = InvalidNode <=> i = m
           /\ PreviousSibling(t, h) = InvalidNode <=> i = 1
      BY <3>4, <3>7, <3>8
    <3>11. h = ChildAt(t, p, m - 1) <=> i = m
      <4>1. m \in 1 .. m
        BY <3>2, <3>3
      <4> QED BY <3>3, <3>4, <3>6, <4>1
    <3>12. h = ChildAt(t, p, 0) <=> i = 1
      <4>1. 1 \in 1 .. m /\ 1 - 1 = 0
        BY <3>2, <3>3
      <4> QED BY <3>3, <3>4, <3>6, <4>1
    <3> QED BY <3>5, <3>9, <3>10, <3>11, <3>12 DEF p, t
  <2> QED BY <2>2, <2>3
<1> QED BY <1>1, BuilderInvHolds, PTL

-----------------------------------------------------------------------------
(* Depths and levels *)

(* A set of nodes with h, and with the parent of each of its members.      *)
ClosedAbove(t, h, S) ==
    h \in S /\ \A x \in S : At(t.parent, x) \in S \cup {InvalidNode}

(* Nothing is above a node without parent; what is above another is its    *)
(* parent and what is above that.                                          *)
LEMMA AncestorsUnfold ==
  ASSUME NEW t, IsBuilt(t), NEW h \in HandlesOf(t.nodeData)
  PROVE  LET p == At(t.parent, h)
         IN  /\ p = InvalidNode => Ancestors(t, h) = {}
             /\ p # InvalidNode =>
                   /\ p \in HandlesOf(t.nodeData)
                   /\ p \notin Ancestors(t, p)
                   /\ Ancestors(t, h) = Ancestors(t, p) \cup {p}
<1> DEFINE H == HandlesOf(t.nodeData)
           p == At(t.parent, h)
           topo == t.plan.topo
           n == Len(topo)
<1>1. /\ topo \in Seq(H) /\ IsInjective(topo) /\ ToSet(topo) = H
      /\ \A i \in 1 .. n :
            At(t.parent, topo[i]) # InvalidNode =>
               \E j \in 1 .. i - 1 : topo[j] = At(t.parent, topo[i])
      /\ \A x \in H : At(t.parent, x) \in H \cup {InvalidNode}
  BY DEF IsBuilt
<1>2. /\ n \in Nat /\ DOMAIN topo = 1 .. n
      /\ \A i \in 1 .. n : topo[i] \in H
  BY <1>1, LenProperties, ElementOfSeq
<1>3. InvalidNode \notin H
  <2>1. Len(t.nodeData) \in Nat /\ Len(t.nodeData) <= InvalidNode
    BY DEF IsBuilt
  <2> QED BY <2>1, InvalidNodeAssumption DEF HandlesOf
<1>4. \A x \in H : Ancestors(t, x) =
          {a \in H : a # x /\ \A S \in SUBSET H : ClosedAbove(t, x, S) => a \in S}
  BY DEF Ancestors, ClosedAbove
<1> HIDE DEF H
<1>5. CASE p = InvalidNode
  <2>1. {h} \in SUBSET H /\ ClosedAbove(t, h, {h})
    BY <1>5 DEF H, ClosedAbove
  <2>2. ASSUME NEW a \in Ancestors(t, h) PROVE FALSE
    BY <1>4, <2>1, <2>2 DEF H
  <2> QED BY <1>5, <2>2
<1>6. CASE p # InvalidNode
  <2>1. h \in H /\ p \in H
    BY <1>1, <1>6 DEF H
  <2> DEFINE Below(i) == {topo[k] : k \in 1 .. i}
  <2>2. PICK i \in 1 .. n : topo[i] = h
    BY <1>1, <1>2, <2>1 DEF ToSet
  <2>3. PICK j \in 1 .. i - 1 : topo[j] = p
    BY <1>1, <1>6, <2>2
  <2>4. j \in 1 .. n /\ j < i
    BY <1>2, <2>2, <2>3
  <2>5. Below(j) \in SUBSET H /\ h \notin Below(j)
    <3>1. \A k \in 1 .. j : k \in 1 .. n /\ k # i
      BY <1>2, <2>2, <2>4
    <3>2. \A k \in 1 .. j : topo[k] \in H /\ topo[k] # h
      BY <1>1, <1>2, <2>2, <3>1 DEF IsInjective
    <3> QED BY <3>2
  <2>6. ClosedAbove(t, p, Below(j))
    <3>1. p \in Below(j)
      <4>1. j \in 1 .. j
        BY <2>4
      <4> QED BY <2>3, <4>1
    <3>2. ASSUME NEW x \in Below(j)
          PROVE  At(t.parent, x) \in Below(j) \cup {InvalidNode}
      <4>1. PICK k \in 1 .. j : topo[k] = x
        OBVIOUS
      <4>2. k \in 1 .. n
        BY <1>2, <2>4
      <4>3. CASE At(t.parent, x) = InvalidNode
        BY <4>3
      <4>4. CASE At(t.parent, x) # InvalidNode
        <5>1. PICK l \in 1 .. k - 1 : topo[l] = At(t.parent, x)
          BY <1>1, <4>1, <4>2, <4>4
        <5>2. l \in 1 .. j
          BY <1>2, <2>4, <4>2
        <5> QED BY <5>1, <5>2
      <4> QED BY <4>3, <4>4
    <3> HIDE DEF Below
    <3> QED BY <3>1, <3>2 DEF ClosedAbove
  <2>7. p # h
    BY <2>3, <2>4, <2>5, <2>6 DEF ClosedAbove
  <2> HIDE DEF Below
  <2>8. ASSUME NEW S \in SUBSET H, ClosedAbove(t, h, S)
        PROVE  ClosedAbove(t, p, S)
    BY <1>6, <2>8 DEF ClosedAbove
  <2>9. ASSUME NEW S \in SUBSET H, ClosedAbove(t, p, S)
        PROVE  S \cup {h} \in SUBSET H /\ ClosedAbove(t, h, S \cup {h})
    BY <2>1, <2>9 DEF ClosedAbove
  <2>10. p \in Ancestors(t, h)
    <3>1. \A S \in SUBSET H : ClosedAbove(t, h, S) => p \in S
      BY <2>8 DEF ClosedAbove
    <3> QED BY <1>4, <2>1, <2>7, <3>1
  <2>11. ASSUME NEW a \in Ancestors(t, p) PROVE a \in Ancestors(t, h)
    <3>1. a \in H /\ \A S \in SUBSET H : ClosedAbove(t, p, S) => a \in S
      BY <1>4, <2>1, <2>11
    <3>2. a # h
      BY <2>5, <2>6, <3>1
    <3>3. \A S \in SUBSET H : ClosedAbove(t, h, S) => a \in S
      BY <2>8, <3>1
    <3> QED BY <1>4, <2>1, <3>1, <3>2, <3>3
  <2>12. ASSUME NEW a \in Ancestors(t, h), a # p PROVE a \in Ancestors(t, p)
    <3>1. a \in H /\ a # h /\ \A S \in SUBSET H : ClosedAbove(t, h, S) => a \in S
      BY <1>4, <2>1, <2>12
    <3>2. \A S \in SUBSET H : ClosedAbove(t, p, S) => a \in S
      BY <2>9, <3>1
    <3> QED BY <1>4, <2>1, <2>12, <3>1, <3>2
  <2>13. p \notin Ancestors(t, p)
    BY <1>4, <2>1
  <2>14. Ancestors(t, h) = Ancestors(t, p) \cup {p}
    BY <2>10, <2>11, <2>12
  <2> QED BY <1>6, <2>1, <2>13, <2>14 DEF H
<1> QED BY <1>5, <1>6

(* How deep each node is.                                                  *)
DepthsOf(t) ==
    [h \in HandlesOf(t.nodeData) |-> Cardinality(Ancestors(t, h))]

(* A depth is one more than the parent's.                                  *)
IsDepth(d, t) ==
    /\ d \in [HandlesOf(t.nodeData) -> 0 .. Len(t.nodeData)]
    /\ \A h \in HandlesOf(t.nodeData) :
          LET p == At(t.parent, h)
          IN  d[h] = IF p = InvalidNode THEN 0 ELSE d[p] + 1

(* The number of a node's ancestors is such a depth.                       *)
LEMMA DepthsCount ==
  ASSUME NEW t, IsBuilt(t)
  PROVE  IsDepth(DepthsOf(t), t)
<1> DEFINE H == HandlesOf(t.nodeData)
           n == Len(t.nodeData)
           d == DepthsOf(t)
<1>1. n \in Nat /\ H = 0 .. n - 1
  BY DEF IsBuilt, HandlesOf
<1>2. IsFiniteSet(H) /\ Cardinality(H) = n
  <2>1. 0 \in Int /\ n - 1 \in Int
    BY <1>1
  <2>2. IsFiniteSet(0 .. n - 1)
        /\ Cardinality(0 .. n - 1) = IF 0 > n - 1 THEN 0 ELSE n - 1 - 0 + 1
    BY <2>1, FS_Interval
  <2>3. (IF 0 > n - 1 THEN 0 ELSE n - 1 - 0 + 1) = n
    BY <1>1
  <2> QED BY <1>1, <2>2, <2>3
<1>3. ASSUME NEW h \in H
      PROVE  /\ IsFiniteSet(Ancestors(t, h))
             /\ Cardinality(Ancestors(t, h)) \in 0 .. n
  <2>1. Ancestors(t, h) \in SUBSET H
    BY DEF Ancestors
  <2> HIDE DEF H
  <2>2. /\ IsFiniteSet(Ancestors(t, h))
        /\ Cardinality(Ancestors(t, h)) <= Cardinality(H)
    BY <1>2, <2>1, FS_Subset
  <2>3. Cardinality(Ancestors(t, h)) \in Nat
    BY <2>2, FS_CardinalityType
  <2> HIDE DEF n
  <2> QED BY <1>1, <1>2, <2>2, <2>3
<1>4. d \in [H -> 0 .. n]
  BY <1>3 DEF DepthsOf
<1>5. ASSUME NEW h \in H
      PROVE  d[h] = IF At(t.parent, h) = InvalidNode THEN 0
                    ELSE d[At(t.parent, h)] + 1
  <2> DEFINE p == At(t.parent, h)
  <2>1. d[h] = Cardinality(Ancestors(t, h))
    BY DEF DepthsOf
  <2>2. CASE p = InvalidNode
    <3>1. Ancestors(t, h) = {}
      BY <2>2, AncestorsUnfold
    <3> QED BY <2>1, <2>2, <3>1, FS_EmptySet
  <2>3. CASE p # InvalidNode
    <3>1. /\ p \in H /\ p \notin Ancestors(t, p)
          /\ Ancestors(t, h) = Ancestors(t, p) \cup {p}
      BY <2>3, AncestorsUnfold
    <3>2. d[p] = Cardinality(Ancestors(t, p))
      BY <3>1 DEF DepthsOf
    <3>3. Cardinality(Ancestors(t, p) \cup {p}) = Cardinality(Ancestors(t, p)) + 1
      BY <1>3, <3>1, FS_AddElement
    <3> QED BY <2>1, <2>3, <3>1, <3>2, <3>3
  <2> QED BY <2>2, <2>3
<1> QED BY <1>4, <1>5 DEF IsDepth

(* The levels of a node after each node of a list got its own, in order.   *)
LevelledBy(run, list, parents) ==
    /\ run[0] = [h \in HandlesOf(parents) |-> 0]
    /\ \A i \in 1 .. Len(list) :
          LET p == At(parents, list[i])
          IN  run[i] = [run[i - 1] EXCEPT
                           ![list[i]] = IF p = InvalidNode THEN 0
                                        ELSE run[i - 1][p] + 1]

(* make_plan's loop has such rounds, and returns the levels of the last.   *)
LEMMA LevelRounds ==
  ASSUME NEW H, NEW list \in Seq(H), NEW parents, HandlesOf(parents) = H,
         \A h \in H : At(parents, h) \in H \cup {InvalidNode}
  PROVE  \E run : /\ LevelsAlong(list, parents) = run[Len(list)]
                  /\ LevelledBy(run, list, parents)
                  /\ run \in [0 .. Len(list) -> [H -> Nat]]
<1> DEFINE n == Len(list)
           V == [H -> Nat]
           first == [h \in HandlesOf(parents) |-> 0]
           below(h, levels) == IF At(parents, h) = InvalidNode THEN 0
                               ELSE levels[At(parents, h)] + 1
           Put(levels, h) == [levels EXCEPT ![h] = below(h, levels)]
           Body(w, i) == IF i = 0 THEN first ELSE Put(w[i - 1], list[i])
           run == CHOOSE w : w = [i \in 0 .. n |-> Body(w, i)]
           step == [x \in (1 .. n) \X V |-> Put(x[2], list[x[1]])]
<1>1. /\ n \in Nat /\ DOMAIN list = 1 .. n
      /\ \A i \in 1 .. n : list[i] \in H
  BY LenProperties, ElementOfSeq
<1>2. LevelsAlong(list, parents) = run[n]
  BY DEF LevelsAlong
<1>3. first \in V
  OBVIOUS
<1>4. ASSUME NEW levels \in V, NEW h \in H PROVE Put(levels, h) \in V
  <2>1. below(h, levels) \in Nat
    OBVIOUS
  <2> HIDE DEF below
  <2> QED BY <2>1
<1> HIDE DEF n, first, Put
<1>5. PICK f \in [0 .. n -> V] : f = [i \in 0 .. n |-> Body(f, i)]
  <2>1. step \in [(1 .. n) \X V -> V]
    <3> HIDE DEF V
    <3> QED BY <1>1, <1>4
  <2>2. \A i \in 1 .. n, v \in V : step[<<i, v>>] = Put(v, list[i])
    OBVIOUS
  <2> HIDE DEF step, V
  <2>3. PICK f \in [0 .. n -> V] : Iterates(n, first, step, f)
    BY <1>1, <1>3, <2>1, IterationExists
  <2>4. ASSUME NEW i \in 0 .. n PROVE f[i] = Body(f, i)
    <3>1. CASE i = 0
      BY <2>3, <3>1 DEF Iterates
    <3>2. CASE i # 0
      <4>1. i \in 1 .. n /\ i - 1 \in 0 .. n
        BY <1>1, <3>2
      <4>2. f[i - 1] \in V
        BY <4>1
      <4>3. f[i] = step[<<i, f[i - 1]>>]
        BY <2>3, <4>1 DEF Iterates
      <4> QED BY <2>2, <3>2, <4>1, <4>2, <4>3
    <3> QED BY <3>1, <3>2
  <2>5. f = [i \in 0 .. n |-> Body(f, i)]
    <3> HIDE DEF Body
    <3> QED BY <2>3, <2>4
  <2> QED BY <2>5
<1>6. run = [i \in 0 .. n |-> Body(run, i)]
  <2> HIDE DEF Body
  <2> QED BY <1>5
<1> HIDE DEF run
<1>7. \A i \in 0 .. n : run[i] = Body(run, i)
  <2> HIDE DEF Body
  <2> QED BY <1>6, Zenon
<1>8. run[0] = first /\ \A i \in 1 .. n : run[i] = Put(run[i - 1], list[i])
  <2>1. 0 \in 0 .. n /\ \A i \in 1 .. n : i \in 0 .. n /\ i # 0
    BY <1>1
  <2> QED BY <1>7, <2>1
<1>9. \A i \in 0 .. n : run[i] \in V
  <2> DEFINE T == {i \in 0 .. n : run[i] \in V}
  <2>1. 0 \in T
    BY <1>1, <1>3, <1>8
  <2>2. ASSUME NEW i \in 1 .. n, i - 1 \in T PROVE i \in T
    <3>1. i \in 0 .. n /\ run[i - 1] \in V
      BY <2>2
    <3> HIDE DEF V
    <3> QED BY <1>1, <1>4, <1>8, <3>1
  <2> HIDE DEF T
  <2>3. \A i \in 1 .. n : i - 1 \in T => i \in T
    BY <2>2
  <2>4. \A i \in 0 .. n : i \in T
    BY <1>1, <2>1, <2>3, RoundInduction
  <2> QED BY <2>4 DEF T
<1>10. run \in [0 .. n -> V]
  <2> HIDE DEF V, Body
  <2> QED BY <1>6, <1>9
<1>11. LevelledBy(run, list, parents)
  BY <1>8 DEF LevelledBy, first, n, Put
<1> QED BY <1>2, <1>10, <1>11 DEF n

(* In a list with every node once and parents ahead, the level that each   *)
(* node gets is its depth.                                                 *)
LEMMA LevelsFollow ==
  ASSUME NEW t, IsBuilt(t), HandlesOf(t.parent) = HandlesOf(t.nodeData),
         NEW d, IsDepth(d, t)
  PROVE  LevelsAlong(t.plan.topo, t.parent) = d
<1> DEFINE H == HandlesOf(t.nodeData)
           list == t.plan.topo
           n == Len(list)
<1>1. /\ list \in Seq(H) /\ IsInjective(list) /\ ToSet(list) = H
      /\ \A i \in 1 .. n :
            At(t.parent, list[i]) # InvalidNode =>
               \E j \in 1 .. i - 1 : list[j] = At(t.parent, list[i])
      /\ \A x \in H : At(t.parent, x) \in H \cup {InvalidNode}
  BY DEF IsBuilt
<1>2. /\ n \in Nat /\ DOMAIN list = 1 .. n
      /\ \A i \in 1 .. n : list[i] \in H
  BY <1>1, LenProperties, ElementOfSeq
<1>3. /\ d \in [H -> Nat]
      /\ \A h \in H : d[h] = IF At(t.parent, h) = InvalidNode THEN 0
                             ELSE d[At(t.parent, h)] + 1
  <2>1. Len(t.nodeData) \in Nat
    BY DEF IsBuilt
  <2>2. d \in [H -> 0 .. Len(t.nodeData)]
    BY DEF IsDepth
  <2>3. \A x \in 0 .. Len(t.nodeData) : x \in Nat
    BY <2>1
  <2> QED BY <2>2, <2>3 DEF IsDepth
<1> HIDE DEF H, list
<1>4. PICK run : /\ LevelsAlong(list, t.parent) = run[n]
                 /\ LevelledBy(run, list, t.parent)
                 /\ run \in [0 .. n -> [H -> Nat]]
  BY <1>1, LevelRounds DEF H
<1> HIDE DEF n
<1>5. \A i \in 0 .. n : \A j \in 1 .. i : run[i][list[j]] = d[list[j]]
  <2> DEFINE T == {i \in 0 .. n : \A j \in 1 .. i : run[i][list[j]] = d[list[j]]}
  <2>1. 0 \in T
    BY <1>2
  <2>2. ASSUME NEW i \in 1 .. n, i - 1 \in T PROVE i \in T
    <3> DEFINE h == list[i]
               p == At(t.parent, h)
    <3>1. /\ i - 1 \in 0 .. n /\ i \in 0 .. n
          /\ \A j \in 1 .. i - 1 : run[i - 1][list[j]] = d[list[j]]
      BY <1>2, <2>2
    <3>2. run[i - 1] \in [H -> Nat] /\ h \in H
      BY <1>2, <1>4, <3>1
    <3>3. run[i] = [run[i - 1] EXCEPT ![h] =
                       IF p = InvalidNode THEN 0 ELSE run[i - 1][p] + 1]
      BY <1>4 DEF LevelledBy, n
    <3>4. run[i][h] = d[h]
      <4>1. CASE p = InvalidNode
        BY <1>3, <3>2, <3>3, <4>1
      <4>2. CASE p # InvalidNode
        <5>1. PICK j \in 1 .. i - 1 : list[j] = p
          BY <1>1, <4>2 DEF n
        <5>2. run[i - 1][p] = d[p]
          BY <3>1, <5>1
        <5> QED BY <1>3, <3>2, <3>3, <4>2, <5>2
      <4> QED BY <4>1, <4>2
    <3>5. ASSUME NEW j \in 1 .. i PROVE run[i][list[j]] = d[list[j]]
      <4>1. CASE j = i
        BY <3>4, <4>1
      <4>2. CASE j # i
        <5>1. j \in 1 .. i - 1 /\ j \in 1 .. n
          BY <1>2, <4>2
        <5>2. list[j] # h /\ list[j] \in H
          BY <1>1, <1>2, <4>2, <5>1 DEF IsInjective
        <5>3. run[i][list[j]] = run[i - 1][list[j]]
          <6> HIDE DEF h, p
          <6> QED BY <3>2, <3>3, <5>2
        <5> QED BY <3>1, <5>1, <5>3
      <4> QED BY <4>1, <4>2
    <3> QED BY <3>1, <3>5
  <2> HIDE DEF T
  <2>3. \A i \in 1 .. n : i - 1 \in T => i \in T
    BY <2>2
  <2>4. \A i \in 0 .. n : i \in T
    BY <1>2, <2>1, <2>3, RoundInduction
  <2> QED BY <2>4 DEF T
<1>6. n \in 0 .. n
  BY <1>2
<1>7. ASSUME NEW h \in H PROVE run[n][h] = d[h]
  <2>1. PICK j \in 1 .. n : list[j] = h
    BY <1>1, <1>2 DEF ToSet
  <2> QED BY <1>5, <1>6, <2>1
<1>8. run[n] \in [H -> Nat]
  BY <1>4, <1>6
<1>9. run[n] = d
  BY <1>3, <1>7, <1>8
<1> QED BY <1>4, <1>9 DEF list

(* The levels are those some node has.                                     *)
LEMMA LevelsCounted ==
  ASSUME NEW t, IsBuilt(t), NEW d, IsDepth(d, t)
  PROVE  LET H == HandlesOf(t.nodeData)
             count == LevelCount(d)
         IN  /\ count \in Nat
             /\ \A h \in H : d[h] \in 0 .. count - 1
             /\ \A l \in 0 .. count - 1 : \E h \in H : d[h] = l
<1> DEFINE H == HandlesOf(t.nodeData)
           n == Len(t.nodeData)
           I == {d[h] : h \in H}
<1>1. /\ n \in Nat /\ d \in [H -> 0 .. n]
      /\ \A h \in H : d[h] = IF At(t.parent, h) = InvalidNode THEN 0
                             ELSE d[At(t.parent, h)] + 1
      /\ \A h \in H : At(t.parent, h) \in H \cup {InvalidNode}
  BY DEF IsBuilt, IsDepth
<1> HIDE DEF H, n
<1>2. LevelCount(d) = IF H = {} THEN 0 ELSE Max(I) + 1
  <2>1. DOMAIN d = H
    BY <1>1
  <2>2. {d[h] : h \in DOMAIN d} = I
    BY <2>1
  <2> HIDE DEF I
  <2> QED BY <2>1, <2>2 DEF LevelCount
<1>3. CASE H = {}
  BY <1>2, <1>3 DEF H
<1>4. CASE H # {}
  <2> DEFINE m == Max(I)
  <2>1. I \in SUBSET (0 .. n) /\ I # {}
    <3>1. \A h \in H : d[h] \in 0 .. n
      BY <1>1
    <3> QED BY <1>4, <3>1
  <2>2. m \in I /\ \A y \in I : y <= m
    <3> HIDE DEF I
    <3> QED BY <1>1, <2>1, MaxOfBounded
  <2> HIDE DEF m
  <2>3. m \in Nat /\ LevelCount(d) = m + 1
    BY <1>1, <1>2, <1>4, <2>1, <2>2 DEF m
  <2>4. \A h \in H : d[h] \in 0 .. m
    BY <1>1, <2>2, <2>3
  <2> DEFINE T == {i \in 0 .. m : \E h \in H : d[h] = m - i}
  <2>5. 0 \in T
    BY <2>2, <2>3
  <2>6. ASSUME NEW i \in 1 .. m, i - 1 \in T PROVE i \in T
    <3>1. PICK h \in H : d[h] = m - (i - 1)
      BY <2>6
    <3>2. d[h] # 0
      BY <2>3, <3>1
    <3>3. At(t.parent, h) \in H /\ d[h] = d[At(t.parent, h)] + 1
      BY <1>1, <3>2
    <3>4. d[At(t.parent, h)] \in 0 .. m
      BY <2>4, <3>3
    <3>5. d[At(t.parent, h)] = m - i
      BY <2>3, <3>1, <3>3, <3>4
    <3> QED BY <2>3, <3>3, <3>5
  <2> HIDE DEF T
  <2>7. \A i \in 0 .. m : i \in T
    BY <2>3, <2>5, <2>6, RoundInduction
  <2>8. ASSUME NEW l \in 0 .. m PROVE \E h \in H : d[h] = l
    <3>1. m - l \in 0 .. m /\ m - (m - l) = l
      BY <2>3
    <3> QED BY <2>7, <3>1 DEF T
  <2>9. (m + 1) - 1 = m /\ m + 1 \in Nat
    BY <2>3
  <2> QED BY <2>3, <2>4, <2>8, <2>9 DEF H
<1> QED BY <1>3, <1>4

(* What make_plan makes of the levels: offsets, and the blocks they are    *)
(* the offsets of.                                                         *)
LevelOffsets(d) ==
    [l \in 0 .. LevelCount(d) |-> Cardinality({h \in DOMAIN d : d[h] < l})]
LevelBlocks(topological, d) ==
    [l \in 1 .. LevelCount(d) |-> NodesWith(topological, d, l - 1)]
RootsOf(parents) ==
    NodesWith([i \in DOMAIN parents |-> i - 1],
              [h \in HandlesOf(parents) |-> At(parents, h)], InvalidNode)

(* The fields of a plan with given levels.                                 *)
LEMMA PlanFields ==
  ASSUME NEW topological, NEW parents, NEW d, Levels(topological, parents) = d
  PROVE  LET plan == Plan(topological, parents)
         IN  /\ plan.topo = topological
             /\ plan.levelOffsets = LevelOffsets(d)
             /\ plan.dependency = FlattenSeq(LevelBlocks(topological, d))
             /\ plan.roots = RootsOf(parents)
BY DEF Plan, LevelOffsets, LevelBlocks, RootsOf

(* The levels one after another: every node is in the block of its level,  *)
(* and the blocks are as long as the offsets say.                          *)
LEMMA LevelsPlaced ==
  ASSUME NEW t, IsBuilt(t), HandlesOf(t.parent) = HandlesOf(t.nodeData),
         t.plan = Plan(t.plan.topo, t.parent),
         NEW d, IsDepth(d, t)
  PROVE  /\ PlanLevels(t.plan) = LevelCount(d)
         /\ EachHandleOnce(t.plan.dependency, t)
         /\ \A l \in 0 .. LevelCount(d) - 1 :
               DependencyLevel(t.plan, l) = NodesWith(t.plan.topo, d, l)
<1> DEFINE H == HandlesOf(t.nodeData)
           n == Len(t.nodeData)
           topo == t.plan.topo
           count == LevelCount(d)
           start == LevelOffsets(d)
           parts == LevelBlocks(topo, d)
           flat == FlattenSeq(parts)
<1>1. LevelsAlong(topo, t.parent) = d
  BY LevelsFollow
<1>2. t.plan.levelOffsets = start /\ t.plan.dependency = flat
  <2>1. Levels(topo, t.parent) = d
    BY <1>1 DEF Levels
  <2>2. t.plan = Plan(topo, t.parent)
    OBVIOUS
  <2> HIDE DEF topo
  <2>3. /\ Plan(topo, t.parent).levelOffsets = start
        /\ Plan(topo, t.parent).dependency = flat
    BY <2>1, PlanFields
  <2> QED BY <2>2, <2>3
<1>3. /\ topo \in Seq(H) /\ IsInjective(topo) /\ ToSet(topo) = H
      /\ n \in Nat /\ H = 0 .. n - 1
  BY DEF IsBuilt, HandlesOf
<1>4. d \in [H -> 0 .. n] /\ DOMAIN d = H
  BY DEF IsDepth
<1> HIDE DEF count
<1>5. /\ count \in Nat
      /\ \A h \in H : d[h] \in 0 .. count - 1
  BY LevelsCounted DEF count
<1>6. IsFiniteSet(H) /\ Cardinality(H) = n
  <2>1. 0 \in Int /\ n - 1 \in Int
    BY <1>3
  <2>2. IsFiniteSet(0 .. n - 1)
        /\ Cardinality(0 .. n - 1) = IF 0 > n - 1 THEN 0 ELSE n - 1 - 0 + 1
    BY <2>1, FS_Interval
  <2>3. (IF 0 > n - 1 THEN 0 ELSE n - 1 - 0 + 1) = n
    BY <1>3
  <2> QED BY <1>3, <2>2, <2>3
<1> HIDE DEF H, n, topo
<1> DEFINE Shallower(l) == {h \in H : d[h] < l}
           Here(l) == {h \in H : d[h] = l}
<1>7. /\ \A l \in 0 .. count : start[l] = Cardinality(Shallower(l))
      /\ DOMAIN start = 0 .. count
  BY <1>4 DEF LevelOffsets, count
<1>8. ASSUME NEW l \in Nat
      PROVE  IsFiniteSet(Shallower(l)) /\ IsFiniteSet(Here(l))
  <2>1. Shallower(l) \in SUBSET H /\ Here(l) \in SUBSET H
    OBVIOUS
  <2> HIDE DEF Shallower, Here
  <2> QED BY <1>6, <2>1, FS_Subset
<1>9. ASSUME NEW l \in 0 .. count PROVE start[l] \in Nat
  <2>1. l \in Nat
    BY <1>5
  <2> HIDE DEF start
  <2> QED BY <1>7, <1>8, <2>1, FS_CardinalityType
<1>10. start[0] = 0
  <2>1. Shallower(0) = {}
    BY <1>4, <1>3
  <2>2. 0 \in 0 .. count
    BY <1>5
  <2> HIDE DEF start, Shallower
  <2> QED BY <1>7, <2>1, <2>2, FS_EmptySet
<1>11. start[count] = n
  <2>1. Shallower(count) = H
    <3>1. \A h \in H : d[h] < count
      BY <1>5
    <3> QED BY <3>1
  <2>2. count \in 0 .. count
    BY <1>5
  <2> HIDE DEF start, Shallower
  <2> QED BY <1>6, <1>7, <2>1, <2>2
<1>12. ASSUME NEW l \in Nat
       PROVE  /\ NodesWith(topo, d, l) \in Seq(H)
              /\ ToSet(NodesWith(topo, d, l)) = Here(l)
              /\ Len(NodesWith(topo, d, l)) = Cardinality(Here(l))
  <2> DEFINE s == NodesWith(topo, d, l)
  <2>1. s \in Seq(H) /\ ToSet(s) = Here(l) /\ IsInjective(s)
    BY <1>3, NodesWithMembers
  <2> HIDE DEF s, Here
  <2>2. s \in Seq(Here(l))
    <3>1. DOMAIN s = 1 .. Len(s) /\ Len(s) \in Nat
      BY <2>1, LenProperties
    <3>2. \A i \in 1 .. Len(s) : s[i] \in Here(l)
      BY <2>1, <3>1 DEF ToSet
    <3>3. s \in [1 .. Len(s) -> Here(l)]
      BY <2>1, <3>1, <3>2, LenProperties
    <3> QED BY <3>1, <3>3, SeqDef
  <2>3. Len(s) = Cardinality(Here(l))
    BY <1>8, <2>1, <2>2, InjectiveLength
  <2> QED BY <2>1, <2>3 DEF s
<1>13. ASSUME NEW i \in 1 .. count
       PROVE  /\ parts[i] = NodesWith(topo, d, i - 1)
              /\ i - 1 \in Nat /\ i \in Nat /\ i \in 0 .. count
              /\ i - 1 \in 0 .. count
  BY <1>5 DEF LevelBlocks, count
<1>14. parts \in [1 .. count -> Seq(H)]
  <2>1. \A i \in 1 .. count : parts[i] \in Seq(H)
    BY <1>12, <1>13
  <2> QED BY <2>1 DEF LevelBlocks, count
<1> HIDE DEF parts
<1>15. ASSUME NEW i \in 1 .. count
       PROVE  start[i] = start[i - 1] + Len(parts[i])
  <2> DEFINE a == Shallower(i - 1)
             b == Here(i - 1)
  <2>1. Shallower(i) = a \cup b
    <3>1. ASSUME NEW h \in H PROVE d[h] < i <=> (d[h] < i - 1 \/ d[h] = i - 1)
      <4>1. d[h] \in Int
        BY <1>5
      <4> QED BY <1>13, <4>1
    <3> QED BY <3>1
  <2>2. a \cap b = {}
    <3>1. \A h \in H : ~ (d[h] < i - 1 /\ d[h] = i - 1)
      BY <1>13
    <3> QED BY <3>1
  <2>3. IsFiniteSet(a) /\ IsFiniteSet(b)
    BY <1>8, <1>13
  <2>4. Len(parts[i]) = Cardinality(b)
    BY <1>12, <1>13
  <2>5. start[i] = Cardinality(Shallower(i)) /\ start[i - 1] = Cardinality(a)
    <3> HIDE DEF start
    <3> QED BY <1>7, <1>13
  <2> HIDE DEF start, a, b, Shallower
  <2>6. Cardinality(a \cup b)
           = Cardinality(a) + Cardinality(b) - Cardinality(a \cap b)
    BY <2>3, FS_Union
  <2>7. Cardinality(a) \in Nat /\ Cardinality(b) \in Nat
        /\ Cardinality(a \cap b) = 0
    BY <2>2, <2>3, FS_CardinalityType, FS_EmptySet
  <2> QED BY <2>1, <2>4, <2>5, <2>6, <2>7
<1>16. start \in [0 .. count -> Nat]
  BY <1>9 DEF LevelOffsets, count
<1> HIDE DEF start
<1>17. /\ flat \in Seq(H) /\ Len(flat) = n
       /\ \A i \in 1 .. count : \A a \in 1 .. Len(parts[i]) :
             /\ start[i - 1] + a \in 1 .. start[count]
             /\ flat[start[i - 1] + a] = parts[i][a]
  <2>1. \A i \in 1 .. count : start[i] = start[i - 1] + Len(parts[i])
    BY <1>15
  <2>2. /\ flat \in Seq(H) /\ Len(flat) = start[count]
        /\ PartsPlaced(flat, parts, start, count)
    BY <1>5, <1>10, <1>14, <1>16, <2>1, Flattened
  <2> QED BY <1>11, <2>2 DEF PartsPlaced
<1> HIDE DEF flat
<1>18. DOMAIN flat = 1 .. n /\ \A k \in 1 .. n : flat[k] \in H
  BY <1>17, LenProperties, ElementOfSeq
<1>19. ASSUME NEW i \in 1 .. count
       PROVE  /\ Len(parts[i]) \in Nat /\ DOMAIN parts[i] = 1 .. Len(parts[i])
              /\ parts[i] \in Seq(H)
  BY <1>14, LenProperties
<1>20. EachHandleOnce(flat, t)
  <2>1. ASSUME NEW h \in H PROVE h \in ToSet(flat)
    <3> DEFINE i == d[h] + 1
    <3>1. i \in 1 .. count /\ i - 1 = d[h]
      BY <1>5
    <3>2. h \in Here(i - 1)
      BY <3>1
    <3> HIDE DEF i
    <3>3. h \in ToSet(parts[i])
      BY <1>12, <1>13, <3>1, <3>2
    <3>4. PICK a \in 1 .. Len(parts[i]) : parts[i][a] = h
      BY <1>19, <3>1, <3>3 DEF ToSet
    <3>5. start[i - 1] + a \in 1 .. n /\ flat[start[i - 1] + a] = h
      BY <1>11, <1>17, <3>1, <3>4
    <3> QED BY <1>18, <3>5 DEF ToSet
  <2>2. ToSet(flat) = H
    BY <1>18, <2>1 DEF ToSet
  <2> QED BY <1>17, <2>2 DEF EachHandleOnce, H, n
<1>21. PlanLevels(t.plan) = count
  <2>1. DOMAIN t.plan.levelOffsets = 0 .. count
    BY <1>2, <1>16
  <2>2. Cardinality(0 .. count) = count + 1
    <3>1. 0 \in Int /\ count \in Int
      BY <1>5
    <3>2. Cardinality(0 .. count) = IF 0 > count THEN 0 ELSE count - 0 + 1
      BY <3>1, FS_Interval
    <3> QED BY <1>5, <3>2
  <2> QED BY <1>5, <2>1, <2>2 DEF PlanLevels
<1>22. ASSUME NEW l \in 0 .. count - 1
       PROVE  DependencyLevel(t.plan, l) = NodesWith(topo, d, l)
  <2> DEFINE i == l + 1
             p == parts[i]
             from == start[l]
             to == start[l + 1]
             s == SubSeq(flat, from + 1, to)
  <2>1. i \in 1 .. count /\ i - 1 = l /\ ~ (l >= count) /\ l \in 0 .. count
    BY <1>5
  <2>2. DependencyLevel(t.plan, l) = s
    BY <1>2, <1>21, <2>1 DEF DependencyLevel, Span
  <2>3. /\ p = NodesWith(topo, d, l) /\ p \in Seq(H) /\ Len(p) \in Nat
        /\ to = from + Len(p) /\ from \in Nat
        /\ i \in 0 .. count /\ to \in Nat
    BY <1>9, <1>13, <1>15, <1>19, <2>1
  <2>4. \A a \in 1 .. Len(p) :
           from + a \in 1 .. n /\ flat[from + a] = p[a]
    BY <1>11, <1>17, <2>1
  <2> HIDE DEF i, p, from, to
  <2>5. \A k \in from + 1 .. to : flat[k] \in H
    <3>1. ASSUME NEW k \in from + 1 .. to PROVE flat[k] \in H
      <4>1. k - from \in 1 .. Len(p) /\ from + (k - from) = k
        BY <2>3
      <4> QED BY <1>18, <2>4, <4>1
    <3> QED BY <3>1
  <2>6. from + 1 \in Int /\ to \in Int
    BY <2>3
  <2>7. /\ s \in Seq(H)
        /\ Len(s) = IF from + 1 <= to THEN to - (from + 1) + 1 ELSE 0
        /\ \A a \in 1 .. to - (from + 1) + 1 : s[a] = flat[from + 1 + a - 1]
    BY <2>5, <2>6, SubSeqProperties
  <2> HIDE DEF s
  <2>8. Len(s) = Len(p)
    BY <2>3, <2>7
  <2>9. ASSUME NEW a \in 1 .. Len(s) PROVE s[a] = p[a]
    <3>1. /\ a \in 1 .. to - (from + 1) + 1 /\ from + 1 + a - 1 = from + a
          /\ a \in 1 .. Len(p)
      BY <2>3, <2>8
    <3> QED BY <2>4, <2>7, <3>1
  <2>10. s = p
    BY <2>3, <2>7, <2>8, <2>9, SeqEqual
  <2> QED BY <2>2, <2>3, <2>10
<1> QED BY <1>2, <1>20, <1>21, <1>22 DEF count, topo

(* The roots of the plan are the nodes without parent.                     *)
LEMMA RootsListed ==
  ASSUME NEW parents \in Seq(0 .. InvalidNode)
  PROVE  ToSet(RootsOf(parents))
            = {h \in HandlesOf(parents) : At(parents, h) = InvalidNode}
<1> DEFINE n == Len(parents)
           H == HandlesOf(parents)
           list == [i \in DOMAIN parents |-> i - 1]
           valueOf == [h \in H |-> At(parents, h)]
<1>1. n \in Nat /\ DOMAIN parents = 1 .. n /\ H = 0 .. n - 1
  BY LenProperties DEF HandlesOf
<1>2. list \in Seq(H) /\ Len(list) = n /\ DOMAIN list = 1 .. n
  <2>1. list \in [1 .. n -> 0 .. n - 1]
    BY <1>1
  <2> HIDE DEF list, n
  <2>2. list \in Seq(0 .. n - 1)
    BY <1>1, <2>1, SeqDef
  <2> QED BY <1>1, <2>1, <2>2, LenProperties
<1>3. ToSet(list) = H
  <2>1. ASSUME NEW h \in H PROVE h \in ToSet(list)
    <3>1. h + 1 \in 1 .. n /\ (h + 1) - 1 = h
      BY <1>1
    <3>2. list[h + 1] = h
      BY <1>1, <3>1
    <3> QED BY <1>2, <3>1, <3>2 DEF ToSet
  <2>2. \A i \in 1 .. n : list[i] \in H
    BY <1>1
  <2> HIDE DEF H, list
  <2> QED BY <1>2, <2>1, <2>2 DEF ToSet
<1>4. RootsOf(parents) = NodesWith(list, valueOf, InvalidNode)
  BY DEF RootsOf
<1>5. \A h \in H : valueOf[h] = At(parents, h)
  OBVIOUS
<1> HIDE DEF list, valueOf, H
<1>6. ToSet(NodesWith(list, valueOf, InvalidNode))
         = {h \in ToSet(list) : valueOf[h] = InvalidNode}
  BY <1>2, NodesWithMembers
<1> QED BY <1>3, <1>4, <1>5, <1>6 DEF H

(* The blocks of the plan are the levels; there is nothing below the last, *)
(* and the first is the roots.                                             *)
LEMMA PlanIsLevels ==
  ASSUME NEW t, IsBuilt(t), t.parent \in Seq(0 .. InvalidNode),
         Len(t.parent) = Len(t.nodeData),
         t.plan = Plan(t.plan.topo, t.parent)
  PROVE  /\ EachHandleOnce(t.plan.dependency, t)
         /\ \A l \in 0 .. PlanLevels(t.plan) - 1 :
               /\ DependencyLevel(t.plan, l)
                     = NodesWith(t.plan.topo, DepthsOf(t), l)
               /\ DependencyLevel(t.plan, l) # <<>>
         /\ ToSet(DependencyLevel(t.plan, 0)) = ToSet(t.plan.roots)
<1> DEFINE H == HandlesOf(t.nodeData)
           d == DepthsOf(t)
           count == LevelCount(d)
           level(l) == DependencyLevel(t.plan, l)
<1>1. HandlesOf(t.parent) = H
  BY DEF HandlesOf
<1>2. IsDepth(d, t)
  BY DepthsCount
<1> HIDE DEF d
<1>3. /\ PlanLevels(t.plan) = count
      /\ EachHandleOnce(t.plan.dependency, t)
      /\ \A l \in 0 .. count - 1 : level(l) = NodesWith(t.plan.topo, d, l)
  BY <1>1, <1>2, LevelsPlaced
<1>4. /\ count \in Nat
      /\ \A h \in H : d[h] \in 0 .. count - 1
      /\ \A l \in 0 .. count - 1 : \E h \in H : d[h] = l
  BY <1>2, LevelsCounted
<1>5. t.plan.topo \in Seq(H) /\ ToSet(t.plan.topo) = H
  BY DEF IsBuilt
<1>6. t.plan.roots = RootsOf(t.parent)
  <2> DEFINE topo == t.plan.topo
  <2>1. Levels(topo, t.parent) = d
    BY <1>1, <1>2, LevelsFollow DEF Levels
  <2>2. t.plan = Plan(topo, t.parent)
    OBVIOUS
  <2> HIDE DEF topo
  <2>3. Plan(topo, t.parent).roots = RootsOf(t.parent)
    BY <2>1, PlanFields
  <2> QED BY <2>2, <2>3
<1>7. ToSet(t.plan.roots) = {h \in H : At(t.parent, h) = InvalidNode}
  BY <1>1, <1>6, RootsListed
<1> HIDE DEF level, count, H
<1>8. \A l \in 0 .. count - 1 : ToSet(level(l)) = {h \in H : d[h] = l}
  <2>1. ASSUME NEW l \in 0 .. count - 1
        PROVE  ToSet(level(l)) = {h \in H : d[h] = l}
    BY <1>3, <1>5, NodesWithMembers
  <2> QED BY <2>1
<1>9. ASSUME NEW l \in 0 .. count - 1 PROVE level(l) # <<>>
  <2>1. PICK h \in H : d[h] = l
    BY <1>4
  <2>2. h \in ToSet(level(l))
    BY <1>8, <2>1
  <2>3. ToSet(<<>>) = {}
    BY DEF ToSet
  <2> QED BY <2>2, <2>3
<1>10. ToSet(level(0)) = ToSet(t.plan.roots)
  <2>1. CASE count = 0
    <3>1. H = {}
      BY <1>4, <2>1
    <3>2. level(0) = <<>>
      BY <1>3, <2>1 DEF level, DependencyLevel
    <3>3. ToSet(<<>>) = {}
      BY DEF ToSet
    <3> QED BY <1>7, <3>1, <3>2, <3>3
  <2>2. CASE count # 0
    <3>1. 0 \in 0 .. count - 1
      BY <1>4, <2>2
    <3>2. ToSet(level(0)) = {h \in H : d[h] = 0}
      BY <1>8, <3>1
    <3>3. ASSUME NEW h \in H
          PROVE  d[h] = 0 <=> At(t.parent, h) = InvalidNode
      <4>1. d[h] = IF At(t.parent, h) = InvalidNode THEN 0
                   ELSE d[At(t.parent, h)] + 1
        BY <1>2 DEF IsDepth, H
      <4>2. CASE At(t.parent, h) = InvalidNode
        BY <4>1, <4>2
      <4>3. CASE At(t.parent, h) # InvalidNode
        <5>1. At(t.parent, h) \in H
          BY <4>3 DEF IsBuilt, H
        <5>2. d[At(t.parent, h)] \in 0 .. count - 1
          BY <1>4, <5>1
        <5> QED BY <1>4, <4>1, <4>3, <5>2
      <4> QED BY <4>2, <4>3
    <3> QED BY <1>7, <3>2, <3>3
  <2> QED BY <2>1, <2>2
<1> QED BY <1>3, <1>9, <1>10 DEF level, d

(* LevelsAreDepths: the dependency levels of a built plan are the depths   *)
(* of the nodes in topological order, none is empty, and the first is the  *)
(* roots.                                                                  *)
THEOREM LevelsFollowDepths ==
  ASSUME MaxNodes <= InvalidNode
  PROVE  Spec => []LevelsAreDepths
<1>1. ASSUME BuilderInv PROVE LevelsAreDepths
  <2> SUFFICES ASSUME Built PROVE LevelsAreDepths
    BY DEF LevelsAreDepths
  <2> DEFINE t == Result
  <2>1. /\ IsBuilt(t) /\ t.parent \in Seq(0 .. InvalidNode)
        /\ Len(t.parent) = Len(t.nodeData)
        /\ t.plan = Plan(t.plan.topo, t.parent)
    BY <1>1, BuiltIsBuilt
  <2> HIDE DEF t
  <2>2. /\ EachHandleOnce(t.plan.dependency, t)
        /\ \A l \in 0 .. PlanLevels(t.plan) - 1 :
              /\ DependencyLevel(t.plan, l)
                    = NodesWith(t.plan.topo, DepthsOf(t), l)
              /\ DependencyLevel(t.plan, l) # <<>>
        /\ ToSet(DependencyLevel(t.plan, 0)) = ToSet(t.plan.roots)
    BY <2>1, PlanIsLevels
  <2> QED BY <2>2 DEF LevelsAreDepths, DepthsOf, t
<1> QED BY <1>1, BuilderInvHolds, PTL

-----------------------------------------------------------------------------
(* Ancestor walks *)

(* The walk after each round.                                              *)
WalkedBy(run, t, node) ==
    /\ run[0] = [current |-> Parent(t, node), order |-> <<>>]
    /\ \A i \in 1 .. Len(t.nodeData) :
          run[i] = IF run[i - 1].current = InvalidNode THEN run[i - 1]
                   ELSE [current |-> Parent(t, run[i - 1].current),
                         order |-> Append(run[i - 1].order,
                                          run[i - 1].current)]

(* for_each_ancestor has such rounds.                                      *)
LEMMA WalkRounds ==
  ASSUME NEW t, IsBuilt(t), NEW node \in HandlesOf(t.nodeData)
  PROVE  LET H == HandlesOf(t.nodeData)
             n == Len(t.nodeData)
         IN  \E run \in [0 .. n -> [current : H \cup {InvalidNode},
                                    order : Seq(H)]] :
                AncestorOrder(t, node) = run[n].order /\ WalkedBy(run, t, node)
<1> DEFINE H == HandlesOf(t.nodeData)
           n == Len(t.nodeData)
           V == [current : H \cup {InvalidNode}, order : Seq(H)]
           first == [current |-> FromParent(t, node), order |-> <<>>]
           Next1(v) == IF v.current = InvalidNode THEN v
                       ELSE [current |-> Parent(t, v.current),
                             order |-> Append(v.order, v.current)]
           Body(w, i) == IF i = 0 THEN first
                         ELSE IF w[i - 1].current = InvalidNode THEN w[i - 1]
                         ELSE [current |-> Parent(t, w[i - 1].current),
                               order |-> Append(w[i - 1].order,
                                                w[i - 1].current)]
           run == CHOOSE w : w = [i \in 0 .. n |-> Body(w, i)]
           step == [x \in (1 .. n) \X V |-> Next1(x[2])]
<1>1. /\ n \in Nat
      /\ \A h \in H : Parent(t, h) \in H \cup {InvalidNode}
  BY DEF IsBuilt, Parent
<1>2. AncestorOrder(t, node) = run[n].order
  BY DEF AncestorOrder
<1>3. first \in V
  <2>1. FromParent(t, node) \in H \cup {InvalidNode}
    BY <1>1 DEF FromParent
  <2>2. <<>> \in Seq(H)
    OBVIOUS
  <2> QED BY <2>1, <2>2
<1>4. ASSUME NEW v \in V PROVE Next1(v) \in V
  <2>1. CASE v.current = InvalidNode
    BY <2>1
  <2>2. CASE v.current # InvalidNode
    <3>1. v.current \in H /\ v.order \in Seq(H)
      BY <2>2
    <3>2. Parent(t, v.current) \in H \cup {InvalidNode}
      BY <1>1, <3>1
    <3>3. Append(v.order, v.current) \in Seq(H)
      BY <3>1, AppendProperties
    <3> QED BY <2>2, <3>2, <3>3
  <2> QED BY <2>1, <2>2
<1> HIDE DEF n, first
<1>5. PICK f \in [0 .. n -> V] : f = [i \in 0 .. n |-> Body(f, i)]
  <2>1. step \in [(1 .. n) \X V -> V]
    <3> HIDE DEF V, Next1
    <3> QED BY <1>1, <1>4
  <2>2. \A i \in 1 .. n, v \in V : step[<<i, v>>] = Next1(v)
    <3> HIDE DEF V, Next1
    <3> QED OBVIOUS
  <2> HIDE DEF step, V
  <2>3. PICK f \in [0 .. n -> V] : Iterates(n, first, step, f)
    BY <1>1, <1>3, <2>1, IterationExists
  <2>4. ASSUME NEW i \in 0 .. n PROVE f[i] = Body(f, i)
    <3>1. CASE i = 0
      BY <2>3, <3>1 DEF Iterates
    <3>2. CASE i # 0
      <4>1. i \in 1 .. n /\ i - 1 \in 0 .. n
        BY <1>1, <3>2
      <4>2. f[i - 1] \in V
        BY <4>1
      <4>3. f[i] = step[<<i, f[i - 1]>>]
        BY <2>3, <4>1 DEF Iterates
      <4>4. f[i] = Next1(f[i - 1])
        <5> HIDE DEF Next1
        <5> QED BY <2>2, <4>1, <4>2, <4>3
      <4> QED BY <3>2, <4>4
    <3> QED BY <3>1, <3>2
  <2>5. f = [i \in 0 .. n |-> Body(f, i)]
    <3> HIDE DEF Body
    <3> QED BY <2>3, <2>4
  <2> QED BY <2>5
<1>6. run = [i \in 0 .. n |-> Body(run, i)]
  <2> HIDE DEF Body
  <2> QED BY <1>5
<1> HIDE DEF run
<1>7. \A i \in 0 .. n : run[i] = Body(run, i)
  <2> HIDE DEF Body
  <2> QED BY <1>6, Zenon
<1>8. run[0] = first /\ \A i \in 1 .. n : run[i] = Next1(run[i - 1])
  <2>1. 0 \in 0 .. n /\ \A i \in 1 .. n : i \in 0 .. n /\ i # 0
    BY <1>1
  <2> QED BY <1>7, <2>1
<1>9. \A i \in 0 .. n : run[i] \in V
  <2> DEFINE T == {i \in 0 .. n : run[i] \in V}
  <2>1. 0 \in T
    BY <1>1, <1>3, <1>8
  <2>2. ASSUME NEW i \in 1 .. n, i - 1 \in T PROVE i \in T
    <3>1. i \in 0 .. n /\ run[i - 1] \in V
      BY <2>2
    <3> HIDE DEF V, Next1
    <3> QED BY <1>1, <1>4, <1>8, <3>1
  <2> HIDE DEF T
  <2>3. \A i \in 1 .. n : i - 1 \in T => i \in T
    BY <2>2
  <2>4. \A i \in 0 .. n : i \in T
    BY <1>1, <2>1, <2>3, RoundInduction
  <2> QED BY <2>4 DEF T
<1>10. run \in [0 .. n -> V]
  <2> HIDE DEF V, Body
  <2> QED BY <1>6, <1>9
<1>11. WalkedBy(run, t, node)
  BY <1>8 DEF WalkedBy, first, n, FromParent
<1> QED BY <1>2, <1>10, <1>11 DEF n

(* The nodes below a, itself among them.                                   *)
BelowOf(t, a) ==
    {x \in HandlesOf(t.nodeData) : x = a \/ a \in Ancestors(t, x)}

(* From the node, each element is the parent of the one before; the last   *)
(* is a root.                                                              *)
IsChain(t, node, s) ==
    LET from(k) == IF k = 0 THEN node ELSE s[k]
    IN  /\ \A k \in 1 .. Len(s) : s[k] = Parent(t, from(k - 1))
        /\ Parent(t, from(Len(s))) = InvalidNode

(* A walk leads from parent to parent to a root: it has the ancestors, as  *)
(* many as the node is deep.                                               *)
LEMMA AncestorsWalked ==
  ASSUME NEW t, IsBuilt(t), NEW node \in HandlesOf(t.nodeData)
  PROVE  LET s == AncestorOrder(t, node)
         IN  /\ s \in Seq(HandlesOf(t.nodeData))
             /\ ToSet(s) = Ancestors(t, node)
             /\ Len(s) = DepthsOf(t)[node]
             /\ IsChain(t, node, s)
<1> DEFINE H == HandlesOf(t.nodeData)
           n == Len(t.nodeData)
           d == DepthsOf(t)
           V == [current : H \cup {InvalidNode}, order : Seq(H)]
<1>1. PICK run \in [0 .. n -> V] :
         AncestorOrder(t, node) = run[n].order /\ WalkedBy(run, t, node)
  BY WalkRounds
<1>2. /\ n \in Nat /\ H = 0 .. n - 1 /\ n <= InvalidNode
      /\ InvalidNode \notin H
  <2>1. n \in Nat /\ H = 0 .. n - 1 /\ n <= InvalidNode
    BY DEF IsBuilt, HandlesOf
  <2> QED BY <2>1, InvalidNodeAssumption
<1>3. /\ d \in [H -> 0 .. n]
      /\ \A h \in H : d[h] = IF Parent(t, h) = InvalidNode THEN 0
                             ELSE d[Parent(t, h)] + 1
  BY DepthsCount DEF IsDepth, Parent
<1>4. \A h \in H :
         /\ Parent(t, h) = InvalidNode => Ancestors(t, h) = {}
         /\ Parent(t, h) # InvalidNode =>
               /\ Parent(t, h) \in H
               /\ Ancestors(t, h)
                     = Ancestors(t, Parent(t, h)) \cup {Parent(t, h)}
  BY AncestorsUnfold DEF Parent
<1> HIDE DEF H, d, n
<1> DEFINE Left(c) == IF c = InvalidNode THEN 0 ELSE d[c] + 1
           Above(c) == IF c = InvalidNode THEN {}
                       ELSE {c} \cup Ancestors(t, c)
           End(s) == IF Len(s) = 0 THEN node ELSE s[Len(s)]
           Linked(s) == \A k \in 1 .. Len(s) :
                           s[k] = Parent(t, IF k - 1 = 0 THEN node ELSE s[k - 1])
           T == {i \in 0 .. n :
                   LET c == run[i].current
                       s == run[i].order
                   IN  /\ Len(s) + Left(c) = d[node]
                       /\ ToSet(s) \cup Above(c) = Ancestors(t, node)
                       /\ Linked(s)
                       /\ c = Parent(t, End(s))
                       /\ c # InvalidNode => Len(s) = i}
<1>5. 0 \in T
  <2>1. /\ run[0].current = Parent(t, node) /\ run[0].order = <<>>
    BY <1>1 DEF WalkedBy
  <2>2. Left(Parent(t, node)) = d[node]
    BY <1>3 DEF H
  <2>3. Above(Parent(t, node)) = Ancestors(t, node)
    BY <1>4 DEF H
  <2>4. d[node] \in Nat
    BY <1>2, <1>3 DEF H
  <2>5. ToSet(<<>>) = {} /\ Len(<<>>) = 0
    BY DEF ToSet
  <2>6. Linked(<<>>) /\ End(<<>>) = node
    BY <2>5
  <2> HIDE DEF Left, Above, Linked, End
  <2> QED BY <1>2, <2>1, <2>2, <2>3, <2>4, <2>5, <2>6
<1>6. ASSUME NEW i \in 1 .. n, i - 1 \in T PROVE i \in T
  <2> DEFINE c == run[i - 1].current
             s == run[i - 1].order
  <2>1. i \in 0 .. n /\ i - 1 \in 0 .. n /\ i \in Nat
    BY <1>2
  <2>2. c \in H \cup {InvalidNode} /\ s \in Seq(H)
    BY <1>1, <2>1
  <2>3. /\ Len(s) + Left(c) = d[node]
        /\ ToSet(s) \cup Above(c) = Ancestors(t, node)
        /\ Linked(s)
        /\ c = Parent(t, End(s))
        /\ c # InvalidNode => Len(s) = i - 1
    BY <1>6
  <2>4. run[i] = IF c = InvalidNode THEN run[i - 1]
                 ELSE [current |-> Parent(t, c), order |-> Append(s, c)]
    BY <1>1 DEF WalkedBy, n
  <2>5. CASE c = InvalidNode
    <3>1. run[i] = run[i - 1]
      BY <2>4, <2>5
    <3> HIDE DEF Left, Above, Linked, End
    <3> QED BY <2>1, <2>3, <2>5, <3>1
  <2>6. CASE c # InvalidNode
    <3> DEFINE u == Append(s, c)
               e == Parent(t, c)
    <3>1. run[i].current = e /\ run[i].order = u
      BY <2>4, <2>6
    <3>2. c \in H /\ d[c] \in Nat
      BY <1>2, <1>3, <2>2, <2>6
    <3>3. /\ u \in Seq(H) /\ Len(u) = Len(s) + 1 /\ Len(s) \in Nat
          /\ u[Len(s) + 1] = c
          /\ \A k \in 1 .. Len(s) : u[k] = s[k]
      BY <2>2, <3>2, AppendProperties, LenProperties
    <3>4. ToSet(u) = ToSet(s) \cup {c}
      BY <2>2, <3>2, AppendMembers
    <3>5. Left(e) = d[c]
      BY <1>3, <3>2
    <3>6. Left(c) = d[c] + 1
      BY <2>6
    <3>7. Above(e) = Ancestors(t, c)
      BY <1>4, <3>2
    <3>8. Above(c) = {c} \cup Ancestors(t, c)
      BY <2>6
    <3> HIDE DEF Left, Above, c, s, u
    <3>9. Len(u) + Left(e) = d[node]
      BY <2>3, <3>2, <3>3, <3>5, <3>6
    <3>10. ToSet(u) \cup Above(e) = Ancestors(t, node)
      BY <2>3, <3>4, <3>7, <3>8
    <3>11. Len(u) = i
      BY <2>1, <2>3, <2>6, <3>3
    <3>12. End(u) = c
      <4>1. Len(u) # 0
        BY <3>3
      <4> QED BY <3>3, <4>1
    <3>13. Linked(u)
      <4> SUFFICES ASSUME NEW k \in 1 .. Len(u)
                   PROVE  u[k] = Parent(t, IF k - 1 = 0 THEN node ELSE u[k - 1])
        OBVIOUS
      <4>1. CASE k = Len(s) + 1
        <5>1. u[k] = c /\ k - 1 = Len(s)
          BY <3>3, <4>1
        <5>2. k - 1 # 0 => k - 1 \in 1 .. Len(s)
          BY <3>3, <5>1
        <5>3. k - 1 # 0 => u[k - 1] = s[Len(s)]
          BY <3>3, <5>1, <5>2
        <5>4. (IF k - 1 = 0 THEN node ELSE u[k - 1]) = End(s)
          BY <5>1, <5>3
        <5> HIDE DEF End
        <5> QED BY <2>3, <5>1, <5>4
      <4>2. CASE k # Len(s) + 1
        <5>1. k \in 1 .. Len(s)
          BY <3>3, <4>2
        <5>2. k - 1 # 0 => k - 1 \in 1 .. Len(s)
          BY <3>3, <5>1
        <5> QED BY <2>3, <3>3, <5>1, <5>2
      <4> QED BY <4>1, <4>2
    <3> HIDE DEF Linked, End, e
    <3>14. e = Parent(t, End(u))
      BY <3>12 DEF e
    <3> QED BY <2>1, <3>1, <3>9, <3>10, <3>11, <3>13, <3>14
  <2> QED BY <2>5, <2>6
<1> HIDE DEF T
<1>7. \A i \in 1 .. n : i - 1 \in T => i \in T
  BY <1>6
<1>8. \A i \in 0 .. n : i \in T
  BY <1>2, <1>5, <1>7, RoundInduction
<1>9. n \in T /\ n \in 0 .. n
  BY <1>2, <1>8
<1> DEFINE c == run[n].current
           s == run[n].order
<1>10. c \in H \cup {InvalidNode} /\ s \in Seq(H)
  BY <1>1, <1>9
<1>11. /\ Len(s) + Left(c) = d[node]
       /\ ToSet(s) \cup Above(c) = Ancestors(t, node)
       /\ Linked(s)
       /\ c = Parent(t, End(s))
       /\ c # InvalidNode => Len(s) = n
  BY <1>9 DEF T
<1>12. Len(s) \in Nat /\ d[node] \in 0 .. n
  BY <1>3, <1>10, LenProperties DEF H
<1> HIDE DEF c, s
<1>13. c = InvalidNode
  <2> SUFFICES ASSUME c # InvalidNode PROVE FALSE
    OBVIOUS
  <2>1. d[c] \in 0 .. n
    BY <1>3, <1>10
  <2> HIDE DEF Linked, End, Above
  <2> QED BY <1>2, <1>11, <1>12, <2>1
<1>14. Left(c) = 0 /\ Above(c) = {}
  BY <1>13
<1> HIDE DEF Left, Above
<1>15. Len(s) = d[node] /\ ToSet(s) = Ancestors(t, node)
  <2> HIDE DEF Linked, End
  <2>1. Len(s) = d[node]
    <3>1. Len(s) + 0 = d[node]
      BY <1>11, <1>14
    <3> QED BY <1>12, <3>1
  <2> QED BY <1>11, <1>14, <2>1
<1>16. IsChain(t, node, s)
  BY <1>11, <1>13 DEF IsChain
<1> QED BY <1>1, <1>10, <1>15, <1>16 DEF s, d, H

-----------------------------------------------------------------------------
(* What a worklist below a root reaches *)

(* A worklist that started with the root: done has been visited, pending   *)
(* not yet.                                                                *)
Reached(t, root, done, pending) ==
    LET H == HandlesOf(t.nodeData)
    IN  /\ done \cap pending = {}
        /\ done \cup pending \subseteq BelowOf(t, root)
        /\ root \in done \cup pending
        /\ \A x \in done \cup pending : x = root \/ Parent(t, x) \in done
        /\ \A x \in done, c \in H : Parent(t, c) = x => c \in done \cup pending

(* It starts so.                                                           *)
LEMMA ReachedFirst ==
  ASSUME NEW t, NEW root \in HandlesOf(t.nodeData)
  PROVE  Reached(t, root, {}, {root})
BY DEF Reached, BelowOf

(* The nodes whose parent is x.                                            *)
ChildrenOf(t, x) == {c \in HandlesOf(t.nodeData) : Parent(t, c) = x}

(* Visiting a pending node finds its children, none of which was found     *)
(* before.                                                                 *)
LEMMA ReachedStep ==
  ASSUME NEW t, IsBuilt(t), NEW root \in HandlesOf(t.nodeData),
         NEW done, NEW pending, Reached(t, root, done, pending),
         NEW x \in pending
  PROVE  /\ ChildrenOf(t, x) \cap (done \cup pending) = {}
         /\ Reached(t, root, done \cup {x},
                    (pending \ {x}) \cup ChildrenOf(t, x))
<1> DEFINE H == HandlesOf(t.nodeData)
           children == ChildrenOf(t, x)
<1>0. children = {c \in H : Parent(t, c) = x}
  BY DEF ChildrenOf
<1> HIDE DEF children
<1>1. /\ done \cap pending = {}
      /\ done \cup pending \subseteq BelowOf(t, root)
      /\ root \in done \cup pending
      /\ \A y \in done \cup pending : y = root \/ Parent(t, y) \in done
      /\ \A y \in done, c \in H : Parent(t, c) = y => c \in done \cup pending
  BY DEF Reached
<1>2. /\ x \in H /\ (x = root \/ root \in Ancestors(t, x))
  BY <1>1 DEF BelowOf
<1>3. InvalidNode \notin H
  <2>1. Len(t.nodeData) \in Nat /\ Len(t.nodeData) <= InvalidNode
    BY DEF IsBuilt
  <2> QED BY <2>1, InvalidNodeAssumption DEF HandlesOf
<1>4. ASSUME NEW c \in children
      PROVE  /\ c \in H /\ Parent(t, c) = x
             /\ Ancestors(t, c) = Ancestors(t, x) \cup {x}
  <2>1. c \in H /\ Parent(t, c) = x /\ x # InvalidNode
    BY <1>0, <1>2, <1>3
  <2> QED BY <2>1, AncestorsUnfold DEF Parent
<1>5. ASSUME NEW c \in children PROVE c \notin done \cup pending
  <2>1. c # root
    <3>1. root \notin Ancestors(t, root)
      BY DEF Ancestors
    <3> QED BY <1>2, <1>4, <3>1
  <2> QED BY <1>1, <1>4, <2>1
<1>6. ASSUME NEW c \in children PROVE c \in BelowOf(t, root)
  BY <1>2, <1>4 DEF BelowOf
<1> DEFINE D == done \cup {x}
           P == (pending \ {x}) \cup children
<1>7. D \cup P = done \cup pending \cup children
  OBVIOUS
<1>8. D \cap P = {}
  BY <1>1, <1>5
<1>9. D \cup P \subseteq BelowOf(t, root)
  BY <1>1, <1>6
<1>10. \A y \in D \cup P : y = root \/ Parent(t, y) \in D
  BY <1>1, <1>4
<1>11. \A y \in D, c \in H : Parent(t, c) = y => c \in D \cup P
  BY <1>0, <1>1
<1>12. root \in D \cup P
  BY <1>1
<1> HIDE DEF D, P
<1>13. Reached(t, root, D, P)
  BY <1>8, <1>9, <1>10, <1>11, <1>12 DEF Reached, H
<1> QED BY <1>5, <1>13 DEF D, P, children

(* With nothing pending, all that is below the root has been visited.      *)
LEMMA ReachedAll ==
  ASSUME NEW t, IsBuilt(t), NEW root \in HandlesOf(t.nodeData),
         NEW done, Reached(t, root, done, {})
  PROVE  done = BelowOf(t, root)
<1> DEFINE H == HandlesOf(t.nodeData)
           d == DepthsOf(t)
           B == BelowOf(t, root)
           missed == {d[x] : x \in B \ done}
<1>1. /\ done \subseteq B
      /\ root \in done
      /\ \A x \in done, c \in H : Parent(t, c) = x => c \in done
  BY DEF Reached
<1>2. /\ d \in [H -> 0 .. Len(t.nodeData)]
      /\ Len(t.nodeData) \in Nat
      /\ \A h \in H : d[h] = IF Parent(t, h) = InvalidNode THEN 0
                             ELSE d[Parent(t, h)] + 1
  BY DepthsCount DEF IsDepth, IsBuilt, Parent
<1> HIDE DEF d
<1>3. ASSUME NEW x \in B \ done
      PROVE  Parent(t, x) \in B \ done /\ d[Parent(t, x)] + 1 = d[x]
  <2>1. x \in H /\ x # root /\ root \in Ancestors(t, x)
    BY <1>1 DEF BelowOf
  <2>2. /\ Parent(t, x) # InvalidNode
        /\ Parent(t, x) \in H
        /\ Ancestors(t, x) = Ancestors(t, Parent(t, x)) \cup {Parent(t, x)}
    BY <2>1, AncestorsUnfold DEF Parent
  <2>3. Parent(t, x) \in B
    BY <2>1, <2>2 DEF BelowOf
  <2>4. Parent(t, x) \notin done
    BY <1>1, <2>1
  <2> QED BY <1>2, <2>1, <2>2, <2>3, <2>4
<1>4. missed \in SUBSET Nat
  <2>1. \A x \in B : x \in H
    BY DEF BelowOf
  <2> QED BY <1>2, <2>1
<1>5. missed = {}
  <2> SUFFICES ASSUME missed # {} PROVE FALSE
    OBVIOUS
  <2>1. Min(missed) \in missed /\ \A y \in missed : Min(missed) <= y
    BY <1>4, MinOfNaturals
  <2>2. PICK x \in B \ done : Min(missed) = d[x]
    BY <2>1
  <2>3. d[Parent(t, x)] \in missed /\ d[Parent(t, x)] + 1 = d[x]
    BY <1>3
  <2> HIDE DEF missed
  <2>4. d[x] <= d[Parent(t, x)] /\ d[Parent(t, x)] \in Nat
    BY <1>4, <2>1, <2>2, <2>3
  <2> QED BY <2>3, <2>4
<1>6. B \ done = {}
  BY <1>5
<1> QED BY <1>1, <1>6

-----------------------------------------------------------------------------
(* Depth-first order *)

(* What a round of the worklist makes of it: the last node waiting is      *)
(* visited and its children wait in its place.                             *)
DepthRound(t, v) ==
    IF v.stack = <<>> THEN v
    ELSE [stack |-> Front(v.stack) \o ChildSpan(t, Last(v.stack)),
          order |-> Append(v.order, Last(v.stack))]

(* for_each_depth_first_preorder has such rounds.                          *)
LEMMA DepthRounds ==
  ASSUME NEW t, IsBuilt(t), NEW root \in HandlesOf(t.nodeData)
  PROVE  LET H == HandlesOf(t.nodeData)
             n == Len(t.nodeData)
         IN  \E run \in [0 .. n -> [stack : Seq(H), order : Seq(H)]] :
                /\ DepthFirstOrder(t, root) = run[n].order
                /\ run[0] = [stack |-> <<root>>, order |-> <<>>]
                /\ \A i \in 1 .. n : run[i] = DepthRound(t, run[i - 1])
<1> DEFINE H == HandlesOf(t.nodeData)
           n == Len(t.nodeData)
           V == [stack : Seq(H), order : Seq(H)]
           first == [stack |-> <<root>>, order |-> <<>>]
           Body(w, i) ==
              IF i = 0 THEN first
              ELSE IF w[i - 1].stack = <<>> THEN w[i - 1]
                   ELSE [stack |-> Push(Front(w[i - 1].stack),
                                        ChildSpan(t, Last(w[i - 1].stack))),
                         order |-> Append(w[i - 1].order,
                                          Last(w[i - 1].stack))]
           run == CHOOSE w : w = [i \in 0 .. n |-> Body(w, i)]
           step == [x \in (1 .. n) \X V |-> DepthRound(t, x[2])]
<1>1. /\ n \in Nat
      /\ \A h \in H : ChildSpan(t, h) \in Seq(H)
  BY DEF IsBuilt
<1>2. DepthFirstOrder(t, root) = run[n].order
  BY DEF DepthFirstOrder
<1>3. first \in V
  <2>1. <<root>> \in Seq(H) /\ <<>> \in Seq(H)
    OBVIOUS
  <2> QED BY <2>1
<1>4. ASSUME NEW v \in V PROVE DepthRound(t, v) \in V
  <2>1. CASE v.stack = <<>>
    BY <2>1 DEF DepthRound
  <2>2. CASE v.stack # <<>>
    <3>1. v.stack \in Seq(H) /\ v.order \in Seq(H)
      OBVIOUS
    <3> DEFINE x == Last(v.stack)
               u == Front(v.stack)
               kids == ChildSpan(t, x)
    <3>2. Len(v.stack) \in 1 .. Len(v.stack) /\ Len(v.stack) \in Nat
      BY <2>2, <3>1, EmptySeq, LenProperties
    <3>3. x \in H
      BY <3>1, <3>2, ElementOfSeq DEF Last
    <3>4. u \in Seq(H)
      <4>1. \A i \in 1 .. Len(v.stack) - 1 : v.stack[i] \in H
        BY <3>1, <3>2, ElementOfSeq
      <4> QED BY <3>1, <3>2, <4>1, SubSeqProperties DEF Front
    <3>5. kids \in Seq(H)
      BY <1>1, <3>3
    <3> HIDE DEF x, u, kids
    <3>6. u \o kids \in Seq(H)
      BY <3>4, <3>5, ConcatProperties
    <3>7. Append(v.order, x) \in Seq(H)
      BY <3>1, <3>3, AppendProperties
    <3>8. DepthRound(t, v) = [stack |-> u \o kids, order |-> Append(v.order, x)]
      BY <2>2 DEF DepthRound, x, u, kids
    <3> QED BY <3>6, <3>7, <3>8
  <2> QED BY <2>1, <2>2
<1> HIDE DEF n, first
<1>5. \A w, i : Body(w, i) = IF i = 0 THEN first ELSE DepthRound(t, w[i - 1])
  BY DEF DepthRound, Push
<1>6. PICK f \in [0 .. n -> V] : f = [i \in 0 .. n |-> Body(f, i)]
  <2>1. step \in [(1 .. n) \X V -> V]
    <3> HIDE DEF V
    <3> QED BY <1>1, <1>4
  <2>2. \A i \in 1 .. n, v \in V : step[<<i, v>>] = DepthRound(t, v)
    <3> HIDE DEF V
    <3> QED OBVIOUS
  <2> HIDE DEF step, V
  <2>3. PICK f \in [0 .. n -> V] : Iterates(n, first, step, f)
    BY <1>1, <1>3, <2>1, IterationExists
  <2>4. ASSUME NEW i \in 0 .. n PROVE f[i] = Body(f, i)
    <3> HIDE DEF Body
    <3>1. CASE i = 0
      BY <1>5, <2>3, <3>1 DEF Iterates
    <3>2. CASE i # 0
      <4>1. i \in 1 .. n /\ i - 1 \in 0 .. n
        BY <1>1, <3>2
      <4>2. f[i - 1] \in V
        BY <4>1
      <4>3. f[i] = step[<<i, f[i - 1]>>]
        BY <2>3, <4>1 DEF Iterates
      <4> QED BY <1>5, <2>2, <3>2, <4>1, <4>2, <4>3
    <3> QED BY <3>1, <3>2
  <2>5. f = [i \in 0 .. n |-> Body(f, i)]
    <3> HIDE DEF Body
    <3> QED BY <2>3, <2>4
  <2> QED BY <2>5
<1> HIDE DEF Body
<1>7. run = [i \in 0 .. n |-> Body(run, i)]
  BY <1>6
<1> HIDE DEF run
<1>8. \A i \in 0 .. n : run[i] = Body(run, i)
  BY <1>7, Zenon
<1>9. run[0] = first /\ \A i \in 1 .. n : run[i] = DepthRound(t, run[i - 1])
  <2>1. 0 \in 0 .. n /\ \A i \in 1 .. n : i \in 0 .. n /\ i # 0
    BY <1>1
  <2> QED BY <1>5, <1>8, <2>1
<1>10. \A i \in 0 .. n : run[i] \in V
  <2> DEFINE T == {i \in 0 .. n : run[i] \in V}
  <2>1. 0 \in T
    BY <1>1, <1>3, <1>9
  <2>2. ASSUME NEW i \in 1 .. n, i - 1 \in T PROVE i \in T
    <3>1. i \in 0 .. n /\ run[i - 1] \in V
      BY <2>2
    <3> HIDE DEF V
    <3> QED BY <1>4, <1>9, <3>1
  <2> HIDE DEF T
  <2>3. \A i \in 1 .. n : i - 1 \in T => i \in T
    BY <2>2
  <2>4. \A i \in 0 .. n : i \in T
    BY <1>1, <2>1, <2>3, RoundInduction
  <2> QED BY <2>4 DEF T
<1>11. run \in [0 .. n -> V]
  <2> HIDE DEF V
  <2> QED BY <1>7, <1>10
<1> QED BY <1>2, <1>9, <1>11 DEF n, first

(* No order without repetitions has more elements than there are nodes.    *)
LEMMA OrderBounded ==
  ASSUME NEW t, IsBuilt(t), NEW s \in Seq(HandlesOf(t.nodeData)), IsInjective(s)
  PROVE  Len(s) \in Nat /\ Len(s) <= Len(t.nodeData)
<1> DEFINE H == HandlesOf(t.nodeData)
           n == Len(t.nodeData)
<1>1. n \in Nat /\ H = 0 .. n - 1
  BY DEF IsBuilt, HandlesOf
<1>2. 0 \in Int /\ n - 1 \in Int
  BY <1>1
<1>3. IsFiniteSet(0 .. n - 1)
      /\ Cardinality(0 .. n - 1) = IF 0 > n - 1 THEN 0 ELSE n - 1 - 0 + 1
  BY <1>2, FS_Interval
<1>4. (IF 0 > n - 1 THEN 0 ELSE n - 1 - 0 + 1) = n
  BY <1>1
<1> HIDE DEF n
<1>5. IsFiniteSet(H) /\ Cardinality(H) = n
  BY <1>1, <1>3, <1>4
<1> HIDE DEF H
<1>6. Len(s) <= Cardinality(H)
  BY <1>5, InjectiveLength DEF H
<1>7. Len(s) \in Nat
  BY LenProperties
<1> QED BY <1>5, <1>6, <1>7 DEF n

(* The order has what is below the root, each node once, and the loop is   *)
(* done after as many rounds as there are nodes.                           *)
LEMMA DepthFirstVisits ==
  ASSUME NEW t, IsBuilt(t), NEW root \in HandlesOf(t.nodeData),
         NEW run \in [0 .. Len(t.nodeData) ->
                         [stack : Seq(HandlesOf(t.nodeData)),
                          order : Seq(HandlesOf(t.nodeData))]],
         run[0] = [stack |-> <<root>>, order |-> <<>>],
         \A i \in 1 .. Len(t.nodeData) : run[i] = DepthRound(t, run[i - 1])
  PROVE  LET last == run[Len(t.nodeData)]
         IN  /\ last.stack = <<>>
             /\ last.order \in Seq(HandlesOf(t.nodeData))
             /\ IsInjective(last.order)
             /\ ToSet(last.order) = BelowOf(t, root)
<1> DEFINE H == HandlesOf(t.nodeData)
           n == Len(t.nodeData)
           Sound(stack, order) ==
              /\ IsInjective(stack) /\ IsInjective(order)
              /\ Reached(t, root, ToSet(order), ToSet(stack))
           T == {i \in 0 .. n :
                   /\ Sound(run[i].stack, run[i].order)
                   /\ run[i].stack = <<>> \/ Len(run[i].order) = i}
<1>1. /\ n \in Nat
      /\ \A p \in H :
            /\ ChildSpan(t, p) \in Seq(H)
            /\ ToSet(ChildSpan(t, p)) = {c \in H : Parent(t, c) = p}
            /\ IsInjective(ChildSpan(t, p))
  BY DEF IsBuilt, Parent
<1> HIDE DEF n, H
<1>2. 0 \in T
  <2>1. /\ ToSet(<<>>) = {} /\ ToSet(<<root>>) = {root}
        /\ IsInjective(<<>>) /\ IsInjective(<<root>>)
    BY DEF ToSet, IsInjective
  <2>2. Reached(t, root, {}, {root})
    BY ReachedFirst
  <2>4. Sound(<<root>>, <<>>)
    BY <2>1, <2>2
  <2>3. Len(<<>>) = 0 /\ 0 \in 0 .. n
    BY <1>1
  <2> HIDE DEF Sound
  <2> QED BY <2>3, <2>4
<1>3. ASSUME NEW i \in 1 .. n, i - 1 \in T PROVE i \in T
  <2> DEFINE stack == run[i - 1].stack
             order == run[i - 1].order
  <2>1. i \in 0 .. n /\ i - 1 \in 0 .. n
    BY <1>1
  <2>2. stack \in Seq(H) /\ order \in Seq(H)
    BY <2>1 DEF n, H
  <2>3. /\ Sound(stack, order)
        /\ stack = <<>> \/ Len(order) = i - 1
    BY <1>3
  <2>4. run[i] = DepthRound(t, run[i - 1])
    BY DEF n
  <2>5. CASE stack = <<>>
    <3>1. run[i] = run[i - 1]
      BY <2>4, <2>5 DEF DepthRound
    <3> HIDE DEF Sound
    <3> QED BY <2>1, <2>3, <2>5, <3>1
  <2>6. CASE stack # <<>>
    <3> DEFINE x == Last(stack)
               u == Front(stack)
               kids == ChildSpan(t, x)
               o == Append(order, x)
    <3>1. run[i].stack = u \o kids /\ run[i].order = o
      <4>1. run[i] = [stack |-> u \o kids, order |-> o]
        BY <2>4, <2>6 DEF DepthRound
      <4> HIDE DEF u, kids, o
      <4> QED BY <4>1
    <3>2. /\ IsInjective(stack) /\ IsInjective(order)
          /\ Reached(t, root, ToSet(order), ToSet(stack))
      BY <2>3
    <3> HIDE DEF stack, order, Sound
    <3>3. /\ x \in ToSet(stack)
          /\ u \in Seq(H)
          /\ ToSet(u) = ToSet(stack) \ {x}
          /\ IsInjective(u)
      BY <2>2, <2>6, <3>2, FrontMembers
    <3>4. x \in H
      BY <2>2, <3>3, MembersOfSeq
    <3>5. /\ kids \in Seq(H) /\ IsInjective(kids)
          /\ ToSet(kids) = {c \in H : Parent(t, c) = x}
      BY <1>1, <3>4
    <3> HIDE DEF kids, x, u
    <3>6. /\ ToSet(kids) \cap (ToSet(order) \cup ToSet(stack)) = {}
          /\ Reached(t, root, ToSet(order) \cup {x},
                     (ToSet(stack) \ {x}) \cup ToSet(kids))
      <4> DEFINE D == ToSet(order)
                 P == ToSet(stack)
                 K == ToSet(kids)
      <4>1. Reached(t, root, D, P) /\ x \in P
        BY <3>2, <3>3
      <4>2. K = ChildrenOf(t, x)
        BY <3>5 DEF H, ChildrenOf
      <4> HIDE DEF D, P, K
      <4>3. /\ K \cap (D \cup P) = {}
            /\ Reached(t, root, D \cup {x}, (P \ {x}) \cup K)
        BY <4>1, <4>2, ReachedStep
      <4> QED BY <4>3 DEF D, P, K
    <3>7. /\ ToSet(u \o kids) = ToSet(u) \cup ToSet(kids)
          /\ IsInjective(u \o kids)
      <4>1. ToSet(u) \cap ToSet(kids) = {}
        BY <3>3, <3>6
      <4> QED BY <3>3, <3>5, <4>1, ConcatMembers
    <3>8. x \notin ToSet(order)
      BY <3>2, <3>3 DEF Reached
    <3>9. ToSet(o) = ToSet(order) \cup {x} /\ IsInjective(o)
      BY <2>2, <3>2, <3>4, <3>8, AppendMembers
    <3>10. Len(o) = i
      <4>1. Len(o) = Len(order) + 1
        BY <2>2, <3>4, AppendProperties
      <4> QED BY <2>1, <2>3, <2>6, <4>1 DEF stack, order
    <3>11. Sound(u \o kids, o)
      BY <3>3, <3>6, <3>7, <3>9 DEF Sound
    <3> HIDE DEF o
    <3> QED BY <2>1, <3>1, <3>10, <3>11
  <2> QED BY <2>5, <2>6
<1> HIDE DEF T
<1>4. \A i \in 1 .. n : i - 1 \in T => i \in T
  BY <1>3
<1>5. \A i \in 0 .. n : i \in T
  BY <1>1, <1>2, <1>4, RoundInduction
<1>6. n \in 0 .. n /\ n \in T
  BY <1>1, <1>5
<1> DEFINE stack == run[n].stack
           order == run[n].order
<1>7. stack \in Seq(H) /\ order \in Seq(H)
  BY <1>6 DEF n, H
<1>8. /\ Sound(stack, order)
      /\ stack = <<>> \/ Len(order) = n
  BY <1>6 DEF T
<1>9. /\ IsInjective(stack) /\ IsInjective(order)
      /\ Reached(t, root, ToSet(order), ToSet(stack))
  BY <1>8
<1> HIDE DEF stack, order, Sound
<1>10. stack = <<>>
  <2> SUFFICES ASSUME stack # <<>> PROVE FALSE
    OBVIOUS
  <2> DEFINE x == Last(stack)
             o == Append(order, x)
  <2>1. x \in ToSet(stack) /\ x \in H
    BY <1>7, <1>9, FrontMembers, MembersOfSeq
  <2> HIDE DEF x
  <2>2. x \notin ToSet(order)
    BY <1>9, <2>1 DEF Reached
  <2>3. o \in Seq(H) /\ IsInjective(o) /\ Len(o) = Len(order) + 1
    BY <1>7, <1>9, <2>1, <2>2, AppendMembers, AppendProperties
  <2> HIDE DEF o
  <2>4. Len(o) <= n
    BY <2>3, OrderBounded DEF H, n
  <2> QED BY <1>1, <1>8, <2>3, <2>4
<1>11. ToSet(stack) = {}
  BY <1>10 DEF ToSet
<1>12. ToSet(order) = BelowOf(t, root)
  BY <1>9, <1>11, ReachedAll
<1> QED BY <1>7, <1>9, <1>10, <1>12 DEF stack, order, n, H

(* W gives some nodes the node itself and then, last child first, what it  *)
(* gives the children.                                                     *)
UnfoldsAt(t, W, x) ==
    W[x] = <<x>> \o WordsOf(W, Reverse(ChildSpan(t, x)))

(* There is such an order of every node: one gives it to the children      *)
(* first.                                                                  *)
LEMMA PreorderExists ==
  ASSUME NEW t, IsBuilt(t)
  PROVE  LET H == HandlesOf(t.nodeData)
         IN  \E W \in [H -> Seq(H)] : \A x \in H : UnfoldsAt(t, W, x)
<1> DEFINE H == HandlesOf(t.nodeData)
           topo == t.plan.topo
           n == Len(topo)
           r(k) == topo[n + 1 - k]
           last(x) == Reverse(ChildSpan(t, x))
           T == {i \in 0 .. n :
                   \E W \in [H -> Seq(H)] : \A k \in 1 .. i :
                      UnfoldsAt(t, W, r(k))}
<1>1. /\ topo \in Seq(H) /\ IsInjective(topo) /\ ToSet(topo) = H
      /\ \A i \in 1 .. n :
            At(t.parent, topo[i]) # InvalidNode =>
               \E j \in 1 .. i - 1 : topo[j] = At(t.parent, topo[i])
      /\ \A p \in H :
            /\ ChildSpan(t, p) \in Seq(H)
            /\ ToSet(ChildSpan(t, p)) = {c \in H : At(t.parent, c) = p}
  BY DEF IsBuilt
<1>2. /\ n \in Nat /\ DOMAIN topo = 1 .. n
      /\ \A i \in 1 .. n : topo[i] \in H
  BY <1>1, LenProperties, ElementOfSeq
<1>3. InvalidNode \notin H
  <2>1. Len(t.nodeData) \in Nat /\ Len(t.nodeData) <= InvalidNode
    BY DEF IsBuilt
  <2> QED BY <2>1, InvalidNodeAssumption DEF HandlesOf
<1> HIDE DEF H, n, topo
<1>4. ASSUME NEW k \in 1 .. n
      PROVE  n + 1 - k \in 1 .. n /\ r(k) \in H
  BY <1>2
<1>5. ASSUME NEW k \in 1 .. n, NEW l \in 1 .. n, r(k) = r(l) PROVE k = l
  <2>1. n + 1 - k \in 1 .. n /\ n + 1 - l \in 1 .. n
    BY <1>2
  <2>2. n + 1 - k = n + 1 - l
    BY <1>1, <1>2, <1>5, <2>1 DEF IsInjective
  <2> QED BY <1>2, <2>2
<1>6. ASSUME NEW k \in 1 .. n
      PROVE  /\ last(r(k)) \in Seq(H)
             /\ \A c \in ToSet(last(r(k))) : \E l \in 1 .. k - 1 : c = r(l)
  <2> DEFINE x == r(k)
             kids == ChildSpan(t, x)
  <2>1. x \in H
    BY <1>4
  <2>2. kids \in Seq(H) /\ ToSet(kids) = {c \in H : At(t.parent, c) = x}
    BY <1>1, <2>1
  <2>3. last(x) \in Seq(H) /\ ToSet(last(x)) = ToSet(kids)
    BY <2>2, ReversedMembers
  <2>4. ASSUME NEW c \in ToSet(last(x)) PROVE \E l \in 1 .. k - 1 : c = r(l)
    <3>1. c \in H /\ At(t.parent, c) = x
      BY <2>2, <2>3, <2>4
    <3>2. PICK i \in 1 .. n : topo[i] = c
      BY <1>1, <1>2, <3>1 DEF ToSet
    <3>3. x # InvalidNode
      BY <1>3, <2>1
    <3>4. PICK j \in 1 .. i - 1 : topo[j] = x
      <4>1. At(t.parent, topo[i]) # InvalidNode
        BY <3>1, <3>2, <3>3
      <4>2. \E j \in 1 .. i - 1 : topo[j] = At(t.parent, topo[i])
        BY <1>1, <4>1
      <4> QED BY <3>1, <3>2, <4>2
    <3>5. j = n + 1 - k
      <4>1. j \in 1 .. n /\ n + 1 - k \in 1 .. n
        BY <1>2, <1>4, <3>2
      <4> QED BY <1>1, <1>2, <3>4, <4>1 DEF IsInjective
    <3>6. n + 1 - i \in 1 .. k - 1 /\ n + 1 - (n + 1 - i) = i
      BY <1>2, <3>2, <3>4, <3>5
    <3> QED BY <3>2, <3>6
  <2> HIDE DEF last
  <2> QED BY <2>3, <2>4
<1> HIDE DEF r, last
<1>7. 0 \in T
  <2> DEFINE W == [x \in H |-> <<>>]
  <2>1. W \in [H -> Seq(H)]
    OBVIOUS
  <2>2. \A k \in 1 .. 0 : UnfoldsAt(t, W, r(k))
    OBVIOUS
  <2>3. 0 \in 0 .. n
    BY <1>2
  <2> HIDE DEF W
  <2> QED BY <2>1, <2>2, <2>3
<1>8. ASSUME NEW i \in 1 .. n, i - 1 \in T PROVE i \in T
  <2>1. i \in 0 .. n /\ i \in 1 .. i /\ \A k \in 1 .. i : k \in 1 .. n
    BY <1>2
  <2>2. PICK W \in [H -> Seq(H)] : \A k \in 1 .. i - 1 : UnfoldsAt(t, W, r(k))
    BY <1>8
  <2> DEFINE x == r(i)
             word == <<x>> \o WordsOf(W, last(x))
             U == [W EXCEPT ![x] = word]
  <2>3. x \in H /\ last(x) \in Seq(H)
    BY <1>4, <1>6
  <2>4. word \in Seq(H)
    <3>1. WordsOf(W, last(x)) \in Seq(H)
      BY <2>3, WordsConcat
    <3>2. <<x>> \in Seq(H)
      BY <2>3
    <3> HIDE DEF x
    <3> QED BY <3>1, <3>2, ConcatProperties
  <2> HIDE DEF x, word
  <2>5. U \in [H -> Seq(H)] /\ U[x] = word
        /\ \A y \in H : y # x => U[y] = W[y]
    BY <2>3, <2>4
  <2> HIDE DEF U
  <2>6. ASSUME NEW k \in 1 .. i PROVE WordsOf(U, last(r(k))) = WordsOf(W, last(r(k)))
    <3> DEFINE s == last(r(k))
    <3>1. k \in 1 .. n
      BY <2>1
    <3>2. s \in Seq(H) /\ \A c \in ToSet(s) : \E l \in 1 .. k - 1 : c = r(l)
      BY <1>6, <3>1
    <3> HIDE DEF s
    <3>3. ASSUME NEW j \in DOMAIN s PROVE U[s[j]] = W[s[j]]
      <4>1. s[j] \in ToSet(s) /\ s[j] \in H
        BY <3>2, LenProperties, ElementOfSeq DEF ToSet
      <4>2. PICK l \in 1 .. k - 1 : s[j] = r(l)
        BY <3>2, <4>1
      <4>3. l \in 1 .. n /\ l # i
        BY <1>2, <3>1, <4>2
      <4>4. s[j] # x
        BY <1>5, <4>2, <4>3 DEF x
      <4> QED BY <2>5, <4>1, <4>4
    <3>4. [j \in DOMAIN s |-> U[s[j]]] = [j \in DOMAIN s |-> W[s[j]]]
      BY <3>3
    <3> QED BY <3>4 DEF WordsOf, s
  <2>7. ASSUME NEW k \in 1 .. i PROVE UnfoldsAt(t, U, r(k))
    <3>1. CASE k = i
      <4>1. U[x] = <<x>> \o WordsOf(U, last(x))
        BY <2>1, <2>5, <2>6 DEF word, x
      <4> QED BY <3>1, <4>1 DEF UnfoldsAt, last, x
    <3>2. CASE k # i
      <4>1. k \in 1 .. i - 1 /\ k \in 1 .. n
        BY <2>1, <3>2
      <4>2. r(k) # x /\ r(k) \in H
        BY <1>4, <1>5, <3>2, <4>1 DEF x
      <4>3. W[r(k)] = <<r(k)>> \o WordsOf(W, last(r(k)))
        BY <2>2, <4>1 DEF UnfoldsAt, last
      <4>4. U[r(k)] = <<r(k)>> \o WordsOf(U, last(r(k)))
        BY <2>5, <2>6, <4>2, <4>3
      <4> QED BY <4>4 DEF UnfoldsAt, last
    <3> QED BY <3>1, <3>2
  <2> QED BY <2>1, <2>5, <2>7
<1> HIDE DEF T
<1>9. \A i \in 1 .. n : i - 1 \in T => i \in T
  BY <1>8
<1>10. \A i \in 0 .. n : i \in T
  BY <1>2, <1>7, <1>9, RoundInduction
<1>11. n \in T
  BY <1>2, <1>10
<1>12. PICK W \in [H -> Seq(H)] : \A k \in 1 .. n : UnfoldsAt(t, W, r(k))
  BY <1>11 DEF T
<1>13. ASSUME NEW x \in H PROVE UnfoldsAt(t, W, x)
  <2>1. PICK i \in 1 .. n : topo[i] = x
    BY <1>1, <1>2 DEF ToSet
  <2>2. n + 1 - i \in 1 .. n /\ n + 1 - (n + 1 - i) = i
    BY <1>2
  <2>3. r(n + 1 - i) = x
    BY <2>1, <2>2 DEF r
  <2> QED BY <1>12, <2>2, <2>3
<1> QED BY <1>12, <1>13 DEF H

(* The worklist's order is that order: what has been visited, and then     *)
(* what the nodes waiting have below them, is the same in every round.     *)
LEMMA DepthFirstIsPreorder ==
  ASSUME NEW t, IsBuilt(t), NEW root \in HandlesOf(t.nodeData),
         NEW W \in [HandlesOf(t.nodeData) -> Seq(HandlesOf(t.nodeData))],
         \A x \in HandlesOf(t.nodeData) : UnfoldsAt(t, W, x)
  PROVE  /\ DepthFirstOrder(t, root) = W[root]
         /\ IsInjective(DepthFirstOrder(t, root))
         /\ DepthFirstOrder(t, root) \in Seq(HandlesOf(t.nodeData))
         /\ ToSet(DepthFirstOrder(t, root)) = BelowOf(t, root)
<1> DEFINE H == HandlesOf(t.nodeData)
           n == Len(t.nodeData)
<1>1. PICK run \in [0 .. n -> [stack : Seq(H), order : Seq(H)]] :
         /\ DepthFirstOrder(t, root) = run[n].order
         /\ run[0] = [stack |-> <<root>>, order |-> <<>>]
         /\ \A i \in 1 .. n : run[i] = DepthRound(t, run[i - 1])
  BY DepthRounds
<1>2. /\ run[n].stack = <<>>
      /\ run[n].order \in Seq(H)
      /\ IsInjective(run[n].order)
      /\ ToSet(run[n].order) = BelowOf(t, root)
  BY <1>1, DepthFirstVisits
<1>3. n \in Nat /\ \A p \in H : ChildSpan(t, p) \in Seq(H)
  BY DEF IsBuilt
<1> HIDE DEF n, H
<1> DEFINE Rest(stack) == WordsOf(W, Reverse(stack))
           T == {i \in 0 .. n : run[i].order \o Rest(run[i].stack) = W[root]}
<1>4. root \in H /\ W \in [H -> Seq(H)] /\ W[root] \in Seq(H)
  BY DEF H
<1>5. \A x \in H : Reverse(<<x>>) = <<x>> /\ <<x>> \in Seq(H)
  BY OneReversed
<1>6. 0 \in T
  <2>1. Rest(<<root>>) = W[root]
    BY <1>4, <1>5, WordsOfFew
  <2>2. <<>> \o W[root] = W[root]
    BY <1>4, ConcatEmptySeq
  <2>3. 0 \in 0 .. n
    BY <1>3
  <2>4. run[0].stack = <<root>> /\ run[0].order = <<>>
    BY <1>1
  <2> HIDE DEF Rest
  <2> QED BY <2>1, <2>2, <2>3, <2>4
<1>7. ASSUME NEW i \in 1 .. n, i - 1 \in T PROVE i \in T
  <2> DEFINE stack == run[i - 1].stack
             order == run[i - 1].order
  <2>1. i \in 0 .. n /\ i - 1 \in 0 .. n
    BY <1>3
  <2>2. stack \in Seq(H) /\ order \in Seq(H)
    BY <1>1, <2>1
  <2>3. order \o Rest(stack) = W[root]
    BY <1>7
  <2>4. run[i] = DepthRound(t, run[i - 1])
    BY <1>1
  <2>5. CASE stack = <<>>
    <3>1. run[i] = run[i - 1]
      BY <2>4, <2>5 DEF DepthRound
    <3> HIDE DEF Rest
    <3> QED BY <2>1, <2>3, <3>1
  <2>6. CASE stack # <<>>
    <3> DEFINE x == Last(stack)
               u == Front(stack)
               kids == ChildSpan(t, x)
               o == Append(order, x)
    <3>1. run[i].stack = u \o kids /\ run[i].order = o
      <4>1. run[i] = [stack |-> u \o kids, order |-> o]
        BY <2>4, <2>6 DEF DepthRound
      <4> HIDE DEF u, kids, o
      <4> QED BY <4>1
    <3> HIDE DEF stack, order
    <3>3. x \in H
      BY <2>2, <2>6, FrontAndLast DEF stack
    <3>4. u \in Seq(H) /\ stack = u \o <<x>>
      BY <2>2, <2>6, FrontAndLast DEF stack
    <3>5. kids \in Seq(H)
      BY <1>3, <3>3
    <3> HIDE DEF x, u, kids, o
    <3> DEFINE a == Reverse(u)
               b == Reverse(kids)
               wa == WordsOf(W, a)
               wb == WordsOf(W, b)
    <3>6. a \in Seq(H) /\ b \in Seq(H)
      BY <3>4, <3>5, ReversedMembers
    <3>7. Reverse(stack) = <<x>> \o a /\ Reverse(u \o kids) = b \o a
      <4>1. Reverse(u \o <<x>>) = Reverse(<<x>>) \o a
        BY <1>5, <3>3, <3>4, ReverseConcat
      <4>2. Reverse(u \o kids) = b \o a
        BY <3>4, <3>5, ReverseConcat
      <4> QED BY <1>5, <3>3, <3>4, <4>1, <4>2
    <3> HIDE DEF a, b
    <3>8. wa \in Seq(H) /\ wb \in Seq(H)
      BY <1>4, <3>6, WordsConcat
    <3>9. Rest(stack) = W[x] \o wa
      <4>1. WordsFollow(W, <<x>>, a)
        BY <1>4, <1>5, <3>3, <3>6, WordsConcat
      <4>2. WordsOf(W, <<x>>) = W[x]
        BY <1>4, <3>3, WordsOfFew
      <4> QED BY <3>7, <4>1, <4>2 DEF WordsFollow
    <3>10. Rest(u \o kids) = wb \o wa
      <4>1. WordsFollow(W, b, a)
        BY <1>4, <3>6, WordsConcat
      <4> QED BY <3>7, <4>1 DEF WordsFollow
    <3>11. W[x] = <<x>> \o wb
      BY <3>3 DEF UnfoldsAt, H, b, kids
    <3> HIDE DEF wa, wb, Rest
    <3>12. <<x>> \in Seq(H) /\ o = order \o <<x>>
      BY <1>5, <2>2, <3>3, AppendIsConcat DEF o
    <3> DEFINE e == <<x>>
    <3> HIDE DEF e
    <3>13. order \o ((e \o wb) \o wa) = (order \o e) \o (wb \o wa)
      <4>1. e \in Seq(H)
        BY <3>12 DEF e
      <4>2. Regroup(e, wb, wa)
        BY <3>8, <4>1, Regrouped
      <4> DEFINE y == wb \o wa
      <4>3. y \in Seq(H)
        BY <3>8, ConcatProperties
      <4> HIDE DEF y
      <4>4. Regroup(order, e, y)
        BY <2>2, <4>1, <4>3, Regrouped DEF order
      <4> QED BY <4>2, <4>4 DEF y, Regroup
    <3>14. o \o Rest(u \o kids) = W[root]
      BY <2>3, <3>9, <3>10, <3>11, <3>12, <3>13 DEF e, stack, order
    <3> QED BY <2>1, <3>1, <3>14
  <2> QED BY <2>5, <2>6
<1> HIDE DEF T
<1>8. \A i \in 1 .. n : i - 1 \in T => i \in T
  BY <1>7
<1>9. \A i \in 0 .. n : i \in T
  BY <1>3, <1>6, <1>8, RoundInduction
<1>10. n \in T
  BY <1>3, <1>9
<1>11. Rest(<<>>) = <<>>
  <2>1. Reverse(<<>>) = <<>>
    <3>1. <<>> \in Seq(H) /\ Len(<<>>) = 0
      OBVIOUS
    <3>2. Reverse(<<>>) \in Seq(H) /\ Len(Reverse(<<>>)) = 0
      BY <3>1, ReversedMembers
    <3> QED BY <3>2, EmptySeq
  <2> QED BY <1>4, <2>1, WordsOfFew
<1>12. run[n].order \o Rest(run[n].stack) = W[root]
  BY <1>10 DEF T
<1> HIDE DEF Rest
<1>13. run[n].order \o <<>> = run[n].order
  BY <1>2, ConcatEmptySeq
<1>14. run[n].order = W[root]
  BY <1>2, <1>11, <1>12, <1>13
<1> QED BY <1>1, <1>2, <1>14 DEF H

(* DepthFirstUnfolds: the depth-first order of a node is the node and      *)
(* then, last child first, the orders of its children, for any tree built. *)
THEOREM DepthFirstOrdersUnfold ==
  ASSUME MaxNodes <= InvalidNode
  PROVE  Spec => []DepthFirstUnfolds
<1>1. ASSUME BuilderInv PROVE DepthFirstUnfolds
  <2> SUFFICES ASSUME Built, NEW h \in Handles(builder)
               PROVE  LET t == Result
                          order == [x \in Handles(builder) |->
                                       DepthFirstOrder(t, x)]
                          last == Reverse(ChildSpan(t, h))
                      IN  order[h] = <<h>> \o FlattenSeq([i \in DOMAIN last |->
                                                             order[last[i]]])
    BY DEF DepthFirstUnfolds
  <2> DEFINE t == Result
             H == HandlesOf(t.nodeData)
             order == [x \in Handles(builder) |-> DepthFirstOrder(t, x)]
  <2>1. IsBuilt(t) /\ Handles(builder) = H
    BY <1>1, BuiltIsBuilt
  <2> HIDE DEF t
  <2>2. PICK W \in [H -> Seq(H)] : \A x \in H : UnfoldsAt(t, W, x)
    BY <2>1, PreorderExists
  <2>3. \A x \in H : DepthFirstOrder(t, x) = W[x]
    BY <2>1, <2>2, DepthFirstIsPreorder
  <2>4. order = W
    BY <2>1, <2>2, <2>3
  <2> HIDE DEF order
  <2>5. order[h] = <<h>> \o WordsOf(order, Reverse(ChildSpan(t, h)))
    BY <2>1, <2>2, <2>4 DEF UnfoldsAt
  <2> QED BY <2>5 DEF WordsOf, t, order
<1> QED BY <1>1, BuilderInvHolds, PTL

-----------------------------------------------------------------------------
(* Breadth-first order *)

(* The scan's i-th round adds the children of the i-th member.             *)
BreadthRound(t, order, i) ==
    IF i > Len(order) THEN order ELSE order \o ChildSpan(t, order[i])

(* for_each_breadth_first has such rounds.                                 *)
LEMMA BreadthRounds ==
  ASSUME NEW t, IsBuilt(t), NEW root \in HandlesOf(t.nodeData)
  PROVE  LET H == HandlesOf(t.nodeData)
             n == Len(t.nodeData)
         IN  \E run \in [0 .. n -> Seq(H)] :
                /\ BreadthFirstOrder(t, root) = run[n]
                /\ run[0] = <<root>>
                /\ \A i \in 1 .. n : run[i] = BreadthRound(t, run[i - 1], i)
<1> DEFINE H == HandlesOf(t.nodeData)
           n == Len(t.nodeData)
           V == Seq(H)
           first == <<root>>
           Body(w, i) ==
              IF i = 0 THEN first
              ELSE IF i - 1 + FirstHead > Len(w[i - 1]) THEN w[i - 1]
                   ELSE w[i - 1] \o ChildSpan(t, w[i - 1][i - 1 + FirstHead])
           run == CHOOSE w : w = [i \in 0 .. n |-> Body(w, i)]
           step == [x \in (1 .. n) \X V |-> BreadthRound(t, x[2], x[1])]
<1>1. /\ n \in Nat
      /\ \A h \in H : ChildSpan(t, h) \in Seq(H)
  BY DEF IsBuilt
<1>2. BreadthFirstOrder(t, root) = run[n]
  BY DEF BreadthFirstOrder
<1>3. first \in V
  OBVIOUS
<1>4. ASSUME NEW v \in V, NEW i \in 1 .. n PROVE BreadthRound(t, v, i) \in V
  <2>1. CASE i > Len(v)
    BY <2>1 DEF BreadthRound
  <2>2. CASE ~(i > Len(v))
    <3> DEFINE kids == ChildSpan(t, v[i])
    <3>1. i \in 1 .. Len(v)
      BY <2>2, LenProperties
    <3>2. v[i] \in H
      BY <3>1, ElementOfSeq
    <3>3. kids \in Seq(H)
      BY <1>1, <3>2
    <3>4. BreadthRound(t, v, i) = v \o kids
      BY <2>2 DEF BreadthRound
    <3> HIDE DEF kids
    <3>5. v \o kids \in Seq(H)
      BY <3>3, ConcatProperties
    <3> QED BY <3>4, <3>5
  <2> QED BY <2>1, <2>2
<1> HIDE DEF n, first
<1>5. \A w : \A i \in 0 .. n :
         Body(w, i) = IF i = 0 THEN first ELSE BreadthRound(t, w[i - 1], i)
  <2> SUFFICES ASSUME NEW w, NEW i \in 0 .. n
               PROVE  Body(w, i) = IF i = 0 THEN first
                                   ELSE BreadthRound(t, w[i - 1], i)
    OBVIOUS
  <2>1. i - 1 + FirstHead = i
    BY <1>1 DEF FirstHead
  <2> QED BY <2>1 DEF BreadthRound
<1>6. PICK f \in [0 .. n -> V] : f = [i \in 0 .. n |-> Body(f, i)]
  <2>1. step \in [(1 .. n) \X V -> V]
    <3> HIDE DEF V
    <3> QED BY <1>1, <1>4
  <2>2. \A i \in 1 .. n, v \in V : step[<<i, v>>] = BreadthRound(t, v, i)
    <3> HIDE DEF V
    <3> QED OBVIOUS
  <2> HIDE DEF step, V
  <2>3. PICK f \in [0 .. n -> V] : Iterates(n, first, step, f)
    BY <1>1, <1>3, <2>1, IterationExists
  <2>4. ASSUME NEW i \in 0 .. n PROVE f[i] = Body(f, i)
    <3> HIDE DEF Body
    <3>1. CASE i = 0
      BY <1>5, <2>3, <3>1 DEF Iterates
    <3>2. CASE i # 0
      <4>1. i \in 1 .. n /\ i - 1 \in 0 .. n
        BY <1>1, <3>2
      <4>2. f[i - 1] \in V
        BY <4>1
      <4>3. f[i] = step[<<i, f[i - 1]>>]
        BY <2>3, <4>1 DEF Iterates
      <4>4. Body(f, i) = BreadthRound(t, f[i - 1], i)
        BY <1>5, <3>2
      <4> QED BY <2>2, <4>1, <4>2, <4>3, <4>4
    <3> QED BY <3>1, <3>2
  <2>5. f = [i \in 0 .. n |-> Body(f, i)]
    <3> HIDE DEF Body
    <3> QED BY <2>3, <2>4
  <2> QED BY <2>5
<1> HIDE DEF Body
<1>7. run = [i \in 0 .. n |-> Body(run, i)]
  BY <1>6
<1> HIDE DEF run
<1>8. \A i \in 0 .. n : run[i] = Body(run, i)
  BY <1>7, Zenon
<1>9. run[0] = first
  <2>1. 0 \in 0 .. n
    BY <1>1
  <2> QED BY <1>5, <1>8, <2>1
<1>12. ASSUME NEW i \in 1 .. n PROVE run[i] = BreadthRound(t, run[i - 1], i)
  <2>1. i \in 0 .. n /\ i # 0
    BY <1>1
  <2>2. Body(run, i) = BreadthRound(t, run[i - 1], i)
    BY <1>5, <2>1
  <2> QED BY <1>8, <2>1, <2>2
<1>10. \A i \in 0 .. n : run[i] \in V
  <2> DEFINE T == {i \in 0 .. n : run[i] \in V}
  <2>1. 0 \in T
    BY <1>1, <1>3, <1>9
  <2>2. ASSUME NEW i \in 1 .. n, i - 1 \in T PROVE i \in T
    <3>1. i \in 0 .. n /\ run[i - 1] \in V
      BY <2>2
    <3> HIDE DEF V
    <3> QED BY <1>4, <1>12, <3>1
  <2> HIDE DEF T
  <2>3. \A i \in 1 .. n : i - 1 \in T => i \in T
    BY <2>2
  <2>4. \A i \in 0 .. n : i \in T
    BY <1>1, <2>1, <2>3, RoundInduction
  <2> QED BY <2>4 DEF T
<1>11. run \in [0 .. n -> V]
  <2> HIDE DEF V
  <2> QED BY <1>7, <1>10
<1> QED BY <1>2, <1>9, <1>11, <1>12 DEF n, first

(* The scan visits what is below the root, each node once.                 *)
LEMMA BreadthFirstVisits ==
  ASSUME NEW t, IsBuilt(t), NEW root \in HandlesOf(t.nodeData),
         NEW run \in [0 .. Len(t.nodeData) -> Seq(HandlesOf(t.nodeData))],
         run[0] = <<root>>,
         \A i \in 1 .. Len(t.nodeData) :
            run[i] = BreadthRound(t, run[i - 1], i)
  PROVE  LET last == run[Len(t.nodeData)]
         IN  IsInjective(last) /\ ToSet(last) = BelowOf(t, root)
<1> DEFINE H == HandlesOf(t.nodeData)
           n == Len(t.nodeData)
           Done(s, i) == {s[k] : k \in {j \in 1 .. Len(s) : j <= i}}
           Waiting(s, i) == {s[k] : k \in {j \in 1 .. Len(s) : j > i}}
           T == {i \in 0 .. n :
                   /\ IsInjective(run[i])
                   /\ Reached(t, root, Done(run[i], i), Waiting(run[i], i))}
<1>1. /\ n \in Nat
      /\ \A p \in H :
            /\ ChildSpan(t, p) \in Seq(H)
            /\ ToSet(ChildSpan(t, p)) = ChildrenOf(t, p)
            /\ IsInjective(ChildSpan(t, p))
  BY DEF IsBuilt, Parent, ChildrenOf
<1> HIDE DEF n, H
<1>2. 0 \in T
  <2>1. Len(<<root>>) = 1 /\ <<root>>[1] = root
    OBVIOUS
  <2> DEFINE s == <<root>>
  <2> HIDE DEF s
  <2>2. Done(s, 0) = {}
    BY <2>1 DEF s
  <2>3. Waiting(s, 0) = {root}
    <3>1. {j \in 1 .. Len(s) : j > 0} = {1}
      BY <2>1 DEF s
    <3> QED BY <2>1, <3>1 DEF s
  <2>4. IsInjective(s)
    BY DEF IsInjective, s
  <2>5. 0 \in 0 .. n /\ run[0] = s
    BY <1>1 DEF s
  <2>6. Reached(t, root, {}, {root})
    BY ReachedFirst
  <2> HIDE DEF Done, Waiting
  <2> QED BY <2>2, <2>3, <2>4, <2>5, <2>6
<1>3. ASSUME NEW i \in 1 .. n, i - 1 \in T PROVE i \in T
  <2> DEFINE s == run[i - 1]
  <2>1. i \in 0 .. n /\ i - 1 \in 0 .. n /\ i \in Nat \ {0}
    BY <1>1
  <2>2. s \in Seq(H)
    BY <2>1 DEF n, H
  <2>3. IsInjective(s) /\ Reached(t, root, Done(s, i - 1), Waiting(s, i - 1))
    BY <1>3
  <2>4. run[i] = BreadthRound(t, s, i)
    BY DEF n
  <2> HIDE DEF s
  <2>5. Len(s) \in Nat /\ DOMAIN s = 1 .. Len(s)
    BY <2>2, LenProperties
  <2>6. CASE i > Len(s)
    <3>1. run[i] = s
      BY <2>4, <2>6 DEF BreadthRound
    <3>2. {j \in 1 .. Len(s) : j <= i} = {j \in 1 .. Len(s) : j <= i - 1}
      BY <2>1, <2>5, <2>6
    <3>3. {j \in 1 .. Len(s) : j > i} = {j \in 1 .. Len(s) : j > i - 1}
      BY <2>1, <2>5, <2>6
    <3>4. Done(s, i) = Done(s, i - 1) /\ Waiting(s, i) = Waiting(s, i - 1)
      BY <3>2, <3>3
    <3> HIDE DEF Done, Waiting
    <3> QED BY <2>1, <2>3, <3>1, <3>4
  <2>7. CASE ~(i > Len(s))
    <3> DEFINE x == s[i]
               kids == ChildSpan(t, x)
               u == s \o kids
               D == Done(s, i - 1)
               P == Waiting(s, i - 1)
    <3>1. i \in 1 .. Len(s) /\ ~(i <= i - 1)
      BY <2>1, <2>5, <2>7
    <3>2. x \in H
      BY <2>2, <3>1, ElementOfSeq
    <3>3. /\ kids \in Seq(H) /\ IsInjective(kids)
          /\ ToSet(kids) = ChildrenOf(t, x)
      BY <1>1, <3>2
    <3>4. x \in P
      BY <2>1, <3>1
    <3>5. D \cup P = ToSet(s)
      <4>1. \A j \in 1 .. Len(s) : j <= i - 1 \/ j > i - 1
        BY <2>1, <2>5
      <4>2. ToSet(s) = {s[j] : j \in 1 .. Len(s)}
        BY <2>2, MembersOfSeq
      <4> QED BY <4>1, <4>2
    <3>6. Done(s, i) = D \cup {x}
      <4>1. {j \in 1 .. Len(s) : j <= i} = {j \in 1 .. Len(s) : j <= i - 1} \cup {i}
        BY <2>1, <2>5, <3>1
      <4> QED BY <4>1
    <3>7. Waiting(s, i) = P \ {x}
      <4>1. \A j \in 1 .. Len(s) : s[j] = x => j = i
        BY <2>3, <2>5, <3>1 DEF IsInjective
      <4>2. \A j \in 1 .. Len(s) : j > i <=> j > i - 1 /\ j # i
        BY <2>1, <2>5, <3>1
      <4> QED BY <4>1, <4>2
    <3>8. run[i] = u
      BY <2>4, <2>7 DEF BreadthRound
    <3> HIDE DEF D, P, x, kids
    <3>9. /\ ChildrenOf(t, x) \cap (D \cup P) = {}
          /\ Reached(t, root, D \cup {x}, (P \ {x}) \cup ChildrenOf(t, x))
      <4>1. Reached(t, root, D, P) /\ x \in P
        BY <2>3, <3>4 DEF D, P
      <4> HIDE DEF Done, Waiting
      <4> QED BY <4>1, ReachedStep
    <3>10. IsInjective(u)
      <4>1. ToSet(s) \cap ToSet(kids) = {}
        BY <3>3, <3>5, <3>9
      <4> QED BY <2>2, <2>3, <3>3, <4>1, ConcatMembers
    <3>11. /\ Len(u) = Len(s) + Len(kids) /\ Len(kids) \in Nat
           /\ \A j \in 1 .. Len(s) + Len(kids) :
                 u[j] = IF j <= Len(s) THEN s[j] ELSE kids[j - Len(s)]
      BY <2>2, <3>3, ConcatProperties, LenProperties
    <3> HIDE DEF u
    <3>12. Done(u, i) = Done(s, i)
      <4>1. {j \in 1 .. Len(u) : j <= i} = {j \in 1 .. Len(s) : j <= i}
        BY <2>5, <3>1, <3>11
      <4>2. \A j \in 1 .. Len(s) : u[j] = s[j]
        BY <2>5, <3>11
      <4> QED BY <4>1, <4>2
    <3>13. Waiting(u, i) = Waiting(s, i) \cup ToSet(kids)
      <4>1. ASSUME NEW j \in 1 .. Len(u), j > i
            PROVE  u[j] \in Waiting(s, i) \cup ToSet(kids)
        <5>1. CASE j <= Len(s)
          BY <2>5, <3>11, <4>1, <5>1
        <5>2. CASE ~(j <= Len(s))
          <6>1. j - Len(s) \in 1 .. Len(kids) /\ u[j] = kids[j - Len(s)]
            BY <2>5, <3>11, <5>2
          <6>2. ToSet(kids) = {kids[k] : k \in 1 .. Len(kids)}
            BY <3>3, MembersOfSeq
          <6> QED BY <6>1, <6>2
        <5> QED BY <5>1, <5>2
      <4>2. ASSUME NEW j \in 1 .. Len(s), j > i PROVE s[j] \in Waiting(u, i)
        <5>1. j \in 1 .. Len(u) /\ u[j] = s[j]
          BY <2>5, <3>11
        <5> QED BY <4>2, <5>1
      <4>3. ASSUME NEW k \in 1 .. Len(kids) PROVE kids[k] \in Waiting(u, i)
        <5> DEFINE j == Len(s) + k
        <5>1. /\ j \in 1 .. Len(u) /\ j > i /\ ~(j <= Len(s))
              /\ j - Len(s) = k
          BY <2>5, <3>1, <3>11
        <5>2. u[j] = kids[k]
          BY <3>11, <5>1
        <5> HIDE DEF j
        <5> QED BY <5>1, <5>2
      <4>4. ToSet(kids) = {kids[k] : k \in 1 .. Len(kids)}
        BY <3>3, MembersOfSeq
      <4>5. Waiting(u, i) \subseteq Waiting(s, i) \cup ToSet(kids)
        BY <4>1
      <4>6. Waiting(s, i) \subseteq Waiting(u, i)
        BY <4>2
      <4>7. ToSet(kids) \subseteq Waiting(u, i)
        BY <4>3, <4>4
      <4> HIDE DEF Waiting
      <4> QED BY <4>5, <4>6, <4>7
    <3> HIDE DEF Done, Waiting
    <3>14. Reached(t, root, Done(u, i), Waiting(u, i))
      BY <3>3, <3>6, <3>7, <3>9, <3>12, <3>13
    <3> QED BY <2>1, <3>8, <3>10, <3>14
  <2> QED BY <2>6, <2>7
<1> HIDE DEF T
<1>4. \A i \in 1 .. n : i - 1 \in T => i \in T
  BY <1>3
<1>5. \A i \in 0 .. n : i \in T
  BY <1>1, <1>2, <1>4, RoundInduction
<1>6. n \in 0 .. n /\ n \in T
  BY <1>1, <1>5
<1> DEFINE s == run[n]
<1>7. s \in Seq(H)
  BY <1>6 DEF n, H
<1>8. IsInjective(s) /\ Reached(t, root, Done(s, n), Waiting(s, n))
  BY <1>6 DEF T
<1> HIDE DEF s
<1>9. Len(s) \in Nat /\ Len(s) <= n
  BY <1>7, <1>8, OrderBounded DEF H, n
<1>10. Waiting(s, n) = {}
  BY <1>1, <1>9
<1>11. Done(s, n) = ToSet(s)
  <2>1. {j \in 1 .. Len(s) : j <= n} = 1 .. Len(s)
    BY <1>1, <1>9
  <2>2. ToSet(s) = {s[j] : j \in 1 .. Len(s)}
    BY <1>7, MembersOfSeq
  <2> QED BY <2>1, <2>2
<1> HIDE DEF Done, Waiting
<1>12. ToSet(s) = BelowOf(t, root)
  BY <1>8, <1>10, <1>11, ReachedAll
<1> QED BY <1>8, <1>12 DEF s, n

(* Every element of s is in u at the same place.                           *)
Begins(s, u) ==
    /\ Len(s) <= Len(u)
    /\ \A k \in 1 .. Len(s) : u[k] = s[k]

(* No round changes what an earlier one listed, and once the scan has      *)
(* caught up with the list, nothing does.                                  *)
LEMMA BreadthKeepsPrefix ==
  ASSUME NEW t, IsBuilt(t),
         NEW run \in [0 .. Len(t.nodeData) -> Seq(HandlesOf(t.nodeData))],
         \A i \in 1 .. Len(t.nodeData) :
            run[i] = BreadthRound(t, run[i - 1], i)
  PROVE  LET n == Len(t.nodeData)
         IN  \A j \in 0 .. n : /\ Begins(run[j], run[n])
                               /\ Len(run[j]) <= j => run[n] = run[j]
<1> DEFINE H == HandlesOf(t.nodeData)
           n == Len(t.nodeData)
           T == {i \in 0 .. n :
                   \A j \in 0 .. i : /\ Begins(run[j], run[i])
                                     /\ Len(run[j]) <= j => run[i] = run[j]}
<1>1. n \in Nat /\ \A p \in H : ChildSpan(t, p) \in Seq(H)
  BY DEF IsBuilt
<1> HIDE DEF n, H
<1>2. ASSUME NEW i \in 0 .. n PROVE run[i] \in Seq(H) /\ Len(run[i]) \in Nat
  <2>1. run[i] \in Seq(H)
    BY DEF n, H
  <2> QED BY <2>1, LenProperties
<1>3. 0 \in T
  <2>1. 0 \in 0 .. n /\ \A j \in 0 .. 0 : j = 0
    BY <1>1
  <2>2. Begins(run[0], run[0])
    BY <1>2, <2>1 DEF Begins
  <2> QED BY <2>1, <2>2
<1>4. ASSUME NEW i \in 1 .. n, i - 1 \in T PROVE i \in T
  <2> DEFINE s == run[i - 1]
             u == run[i]
  <2>1. i \in 0 .. n /\ i - 1 \in 0 .. n /\ i \in Nat \ {0}
    BY <1>1
  <2>2. s \in Seq(H) /\ Len(s) \in Nat /\ u \in Seq(H) /\ Len(u) \in Nat
    BY <1>2, <2>1
  <2>3. \A j \in 0 .. i - 1 : /\ Begins(run[j], s)
                              /\ Len(run[j]) <= j => s = run[j]
    BY <1>4
  <2>4. u = BreadthRound(t, s, i)
    BY DEF n
  <2> HIDE DEF s, u
  <2>5. Begins(s, u)
    <3>1. CASE i > Len(s)
      BY <2>2, <2>4, <3>1 DEF BreadthRound, Begins
    <3>2. CASE ~(i > Len(s))
      <4> DEFINE kids == ChildSpan(t, s[i])
      <4>1. i \in 1 .. Len(s)
        BY <2>1, <2>2, <3>2
      <4>2. s[i] \in H
        BY <2>2, <4>1, ElementOfSeq
      <4>3. kids \in Seq(H)
        BY <1>1, <4>2
      <4>4. u = s \o kids
        BY <2>4, <3>2 DEF BreadthRound
      <4> HIDE DEF kids
      <4>5. /\ Len(u) = Len(s) + Len(kids) /\ Len(kids) \in Nat
            /\ \A k \in 1 .. Len(s) + Len(kids) :
                  u[k] = IF k <= Len(s) THEN s[k] ELSE kids[k - Len(s)]
        BY <2>2, <4>3, <4>4, ConcatProperties, LenProperties
      <4>6. \A k \in 1 .. Len(s) : u[k] = s[k]
        BY <2>2, <4>5
      <4> QED BY <2>2, <4>5, <4>6 DEF Begins
    <3> QED BY <3>1, <3>2
  <2>6. Len(s) <= i - 1 => u = s
    BY <2>1, <2>2, <2>4 DEF BreadthRound
  <2>7. ASSUME NEW j \in 0 .. i
        PROVE  Begins(run[j], u) /\ (Len(run[j]) <= j => u = run[j])
    <3>1. CASE j = i
      BY <2>2, <3>1 DEF Begins, u
    <3>2. CASE j # i
      <4>1. j \in 0 .. i - 1 /\ j \in 0 .. n
        BY <1>1, <2>1, <3>2
      <4> DEFINE r == run[j]
      <4>2. Begins(r, s) /\ (Len(r) <= j => s = r)
        BY <2>3, <4>1
      <4>3. Len(r) \in Nat
        BY <1>2, <4>1
      <4> HIDE DEF r
      <4>4. Begins(r, u)
        <5>1. Len(r) <= Len(s) /\ Len(s) <= Len(u)
          BY <2>5, <4>2 DEF Begins
        <5>2. \A k \in 1 .. Len(r) : k \in 1 .. Len(s)
          BY <2>2, <4>3, <5>1
        <5>3. Len(r) <= Len(u)
          BY <2>2, <4>3, <5>1
        <5> QED BY <2>5, <4>2, <5>2, <5>3 DEF Begins
      <4>5. Len(r) <= j => u = r
        <5> SUFFICES ASSUME Len(r) <= j PROVE u = r
          OBVIOUS
        <5>1. s = r
          BY <4>2
        <5>2. Len(s) <= i - 1
          BY <2>1, <4>1, <4>3, <5>1
        <5> QED BY <2>6, <5>1, <5>2
      <4> QED BY <4>4, <4>5 DEF r
    <3> QED BY <3>1, <3>2
  <2> QED BY <2>1, <2>7 DEF u
<1> HIDE DEF T
<1>5. \A i \in 1 .. n : i - 1 \in T => i \in T
  BY <1>4
<1>6. \A i \in 0 .. n : i \in T
  BY <1>1, <1>3, <1>5, RoundInduction
<1>7. n \in T
  BY <1>1, <1>6
<1> QED BY <1>7 DEF T, n

(* Behind the root, the order is the children of its members in turn.      *)
LEMMA BreadthFirstIsLevels ==
  ASSUME NEW t, IsBuilt(t), NEW root \in HandlesOf(t.nodeData)
  PROVE  LET order == BreadthFirstOrder(t, root)
         IN  /\ order \in Seq(HandlesOf(t.nodeData))
             /\ IsInjective(order)
             /\ ToSet(order) = BelowOf(t, root)
             /\ order = <<root>> \o FlattenSeq([i \in DOMAIN order |->
                                                   ChildSpan(t, order[i])])
<1> DEFINE H == HandlesOf(t.nodeData)
           n == Len(t.nodeData)
<1>1. PICK run \in [0 .. n -> Seq(H)] :
         /\ BreadthFirstOrder(t, root) = run[n]
         /\ run[0] = <<root>>
         /\ \A i \in 1 .. n : run[i] = BreadthRound(t, run[i - 1], i)
  BY BreadthRounds
<1> DEFINE F == run[n]
           m == Len(F)
           parts == [i \in DOMAIN F |-> ChildSpan(t, F[i])]
<1>2. IsInjective(F) /\ ToSet(F) = BelowOf(t, root)
  BY <1>1, BreadthFirstVisits
<1>3. n \in Nat /\ \A p \in H : ChildSpan(t, p) \in Seq(H)
  BY DEF IsBuilt
<1>4. \A j \in 0 .. n : Begins(run[j], F) /\ (Len(run[j]) <= j => F = run[j])
  BY <1>1, BreadthKeepsPrefix
<1>5. F \in Seq(H)
  BY <1>1, <1>3
<1>6. m \in Nat /\ m <= n
  BY <1>2, <1>5, OrderBounded
<1> HIDE DEF F
<1>7. DOMAIN F = 1 .. m /\ \A i \in 1 .. m : F[i] \in H
  BY <1>5, LenProperties, ElementOfSeq
<1> HIDE DEF m, n, H
<1>8. parts \in [1 .. m -> Seq(H)] /\ \A i \in 1 .. m : parts[i] = ChildSpan(t, F[i])
  BY <1>3, <1>7
<1> HIDE DEF parts
<1>9. PICK f \in [0 .. m -> Seq(H)] :
         JoinedBy(f, parts, m) /\ FlattenSeq(parts) = f[m]
  BY <1>6, <1>8, FlattenRounds
<1> DEFINE e == <<root>>
           T == {i \in 0 .. m : run[i] = e \o f[i]}
<1>10. e \in Seq(H)
  BY DEF H
<1> HIDE DEF e
<1>11. 0 \in T
  <2>1. f[0] = <<>> /\ 0 \in 0 .. m
    BY <1>6, <1>9 DEF JoinedBy
  <2>2. e \o <<>> = e
    BY <1>10, ConcatEmptySeq
  <2> QED BY <1>1, <2>1, <2>2 DEF e
<1>12. ASSUME NEW i \in 1 .. m, i - 1 \in T PROVE i \in T
  <2> DEFINE s == run[i - 1]
             g == f[i - 1]
             p == parts[i]
  <2>1. /\ i \in 0 .. m /\ i - 1 \in 0 .. m
        /\ i \in 1 .. n /\ i - 1 \in 0 .. n
        /\ i - 1 \in Nat
    BY <1>3, <1>6
  <2>2. s = e \o g
    BY <1>12
  <2>3. g \in Seq(H) /\ p \in Seq(H) /\ f[i] = g \o p
    BY <1>8, <1>9, <2>1 DEF JoinedBy
  <2>4. s \in Seq(H)
    BY <1>1, <2>1
  <2>5. Begins(s, F) /\ (Len(s) <= i - 1 => F = s)
    BY <1>4, <2>1
  <2>6. run[i] = BreadthRound(t, s, i)
    BY <1>1, <2>1
  <2> HIDE DEF s, g, p
  <2>7. Len(s) \in Nat
    BY <2>4, LenProperties
  <2>8. i \in 1 .. Len(s)
    <3> SUFFICES ASSUME ~(i \in 1 .. Len(s)) PROVE FALSE
      OBVIOUS
    <3>1. Len(s) <= i - 1
      BY <2>1, <2>7
    <3>2. m = Len(s)
      BY <2>5, <3>1 DEF m
    <3> QED BY <1>6, <2>7, <3>1, <3>2
  <2>9. F[i] = s[i]
    BY <2>5, <2>8 DEF Begins
  <2>10. run[i] = s \o p
    <3>1. ~(i > Len(s))
      BY <2>7, <2>8
    <3>2. p = ChildSpan(t, s[i])
      BY <1>8, <2>9 DEF p
    <3> QED BY <2>6, <3>1, <3>2 DEF BreadthRound
  <2>11. Regroup(e, g, p)
    BY <1>10, <2>3, Regrouped
  <2>12. run[i] = e \o f[i]
    BY <2>2, <2>3, <2>10, <2>11 DEF Regroup
  <2> QED BY <2>1, <2>12
<1> HIDE DEF T
<1>13. \A i \in 1 .. m : i - 1 \in T => i \in T
  BY <1>12
<1>14. \A i \in 0 .. m : i \in T
  BY <1>6, <1>11, <1>13, RoundInduction
<1>15. m \in T /\ m \in 0 .. n
  BY <1>3, <1>6, <1>14
<1>16. run[m] = e \o f[m]
  BY <1>15 DEF T
<1>17. F = run[m]
  <2>1. Begins(run[m], F) /\ (Len(run[m]) <= m => F = run[m])
    BY <1>4, <1>15
  <2>2. Len(run[m]) <= m
    BY <2>1 DEF Begins, m
  <2> QED BY <2>1, <2>2
<1>18. F = e \o FlattenSeq(parts)
  BY <1>9, <1>16, <1>17
<1> QED BY <1>1, <1>2, <1>5, <1>18 DEF F, e, parts, H

(* BreadthFirstUnfolds: level by level in stored sibling order, over the   *)
(* nodes the depth-first order has, for any tree built.                    *)
THEOREM BreadthFirstOrdersUnfold ==
  ASSUME MaxNodes <= InvalidNode
  PROVE  Spec => []BreadthFirstUnfolds
<1>1. ASSUME BuilderInv PROVE BreadthFirstUnfolds
  <2> SUFFICES ASSUME Built, NEW h \in Handles(builder)
               PROVE  LET t == Result
                          order == BreadthFirstOrder(t, h)
                      IN  /\ order = <<h>> \o FlattenSeq([i \in DOMAIN order |->
                                                     ChildSpan(t, order[i])])
                          /\ ToSet(order) = ToSet(DepthFirstOrder(t, h))
                          /\ Len(order) = SubtreeSize(t, h)
    BY DEF BreadthFirstUnfolds
  <2> DEFINE t == Result
             H == HandlesOf(t.nodeData)
             order == BreadthFirstOrder(t, h)
             other == DepthFirstOrder(t, h)
  <2>1. IsBuilt(t) /\ h \in H
    BY <1>1, BuiltIsBuilt
  <2> HIDE DEF t
  <2>2. PICK W \in [H -> Seq(H)] : \A x \in H : UnfoldsAt(t, W, x)
    BY <2>1, PreorderExists
  <2>3. /\ other \in Seq(H) /\ IsInjective(other)
        /\ ToSet(other) = BelowOf(t, h)
    BY <2>1, <2>2, DepthFirstIsPreorder
  <2>4. /\ order \in Seq(H) /\ IsInjective(order)
        /\ ToSet(order) = BelowOf(t, h)
        /\ order = <<h>> \o FlattenSeq([i \in DOMAIN order |->
                                           ChildSpan(t, order[i])])
    BY <2>1, BreadthFirstIsLevels
  <2>5. IsFiniteSet(H)
    <3>1. H = 0 .. Len(t.nodeData) - 1 /\ Len(t.nodeData) - 1 \in Int
      BY <2>1 DEF IsBuilt, HandlesOf
    <3>2. IsFiniteSet(0 .. Len(t.nodeData) - 1)
      BY <3>1, FS_Interval
    <3> QED BY <3>1, <3>2
  <2> HIDE DEF order, other, H
  <2>6. Len(order) = Len(other)
    BY <2>3, <2>4, <2>5, SameMembersSameLength
  <2> QED BY <2>3, <2>4, <2>6 DEF SubtreeSize, order, other, t
<1> QED BY <1>1, BuilderInvHolds, PTL

-----------------------------------------------------------------------------
(* Depths, levels and subtrees *)

(* The offsets of a built topology are numbers.                            *)
LEMMA OffsetsTyped ==
  ASSUME BuilderInv, Built, NEW p \in 0 .. Len(Result.nodeData)
  PROVE  Result.outOffsets[p] \in Nat
<1> DEFINE b == builder
           total == Len(b.nodes)
           sorted == EdgeAt(b.edges, total)
<1>1. SoundBuilder(b, NodeData, EdgeData)
  BY DEF BuilderInv, Built
<1>2. /\ total \in Nat /\ b.edges \in Seq(EdgeBelow(total, EdgeData))
      /\ OneParent(b.edges)
  BY <1>1, RoughParts DEF SoundBuilder, RoughBuilder
<1>3. sorted \in Seq(EdgeBelow(total, EdgeData))
  BY <1>2, SortedKeepsEdges
<1>4. Result = Topology(b)
  BY BuiltIsBuilt
<1>5. Result.nodeData = b.nodes /\ Result.outOffsets = Offsets(sorted, total)
  BY <1>4 DEF Topology, SortedByParent
<1> HIDE DEF sorted, total
<1>6. p \in 0 .. total
  BY <1>5 DEF total
<1>7. /\ Offsets(sorted, total)[p]
            = Cardinality({k \in 1 .. Len(sorted) : sorted[k].from < p})
      /\ Cardinality({k \in 1 .. Len(sorted) : sorted[k].from < p})
            \in 0 .. Len(sorted)
  BY <1>2, <1>3, <1>6, OffsetsCount
<1>8. Len(sorted) \in Nat
  BY <1>3, LenProperties
<1> QED BY <1>5, <1>7, <1>8

(* DepthsAgree: ancestors, levels and subtrees tell of the same depths.    *)
THEOREM DepthsFromThreeArrays ==
  ASSUME MaxNodes <= InvalidNode
  PROVE  Spec => []DepthsAgree
<1>1. ASSUME BuilderInv PROVE DepthsAgree
  <2> SUFFICES ASSUME Built, NEW h \in Handles(builder)
               PROVE  LET t == Result
                          below == [x \in Handles(builder) |->
                                       ToSet(DepthFirstOrder(t, x))]
                      IN  /\ Contains(DependencyLevel(t.plan, Depth(t, h)), h)
                          /\ {a \in Handles(builder) : h \in below[a]}
                                = {h} \cup ToSet(AncestorOrder(t, h))
                          /\ IsLeaf(t, h) <=> SubtreeSize(t, h) = 1
    BY DEF DepthsAgree
  <2> DEFINE t == Result
             H == HandlesOf(t.nodeData)
             d == DepthsOf(t)
             count == LevelCount(d)
             order == DepthFirstOrder(t, h)
             kids == ChildSpan(t, h)
  <2>1. /\ IsBuilt(t) /\ Handles(builder) = H /\ h \in H
        /\ t.parent \in Seq(0 .. InvalidNode)
        /\ Len(t.parent) = Len(t.nodeData)
        /\ t.plan = Plan(t.plan.topo, t.parent)
    BY <1>1, BuiltIsBuilt
  <2>2. t.outOffsets[h] \in Nat /\ t.outOffsets[h + 1] \in Nat
    <3>1. Len(t.nodeData) \in Nat
      BY <2>1 DEF IsBuilt
    <3>2. h \in 0 .. Len(t.nodeData) /\ h + 1 \in 0 .. Len(t.nodeData)
      BY <2>1, <3>1 DEF HandlesOf
    <3> QED BY <1>1, <3>2, OffsetsTyped
  <2> HIDE DEF t
  <2>3. /\ AncestorOrder(t, h) \in Seq(H)
        /\ ToSet(AncestorOrder(t, h)) = Ancestors(t, h)
        /\ Depth(t, h) = d[h]
    BY <2>1, AncestorsWalked DEF Depth
  <2>4. Contains(DependencyLevel(t.plan, Depth(t, h)), h)
    <3>1. IsDepth(d, t)
      BY <2>1, DepthsCount
    <3> HIDE DEF d
    <3>2. d[h] \in 0 .. count - 1
      BY <2>1, <3>1, LevelsCounted
    <3>3. HandlesOf(t.parent) = H
      BY <2>1 DEF HandlesOf
    <3>4. \A l \in 0 .. count - 1 :
             DependencyLevel(t.plan, l) = NodesWith(t.plan.topo, d, l)
      BY <2>1, <3>1, <3>3, LevelsPlaced
    <3> DEFINE level == NodesWith(t.plan.topo, d, d[h])
    <3>5. t.plan.topo \in Seq(H) /\ ToSet(t.plan.topo) = H
      BY <2>1 DEF IsBuilt
    <3> HIDE DEF H
    <3>6. level \in Seq(H) /\ h \in ToSet(level)
      BY <2>1, <3>5, NodesWithMembers
    <3> HIDE DEF level
    <3>7. \E i \in 1 .. Len(level) : level[i] = h
      BY <3>6, MembersOfSeq
    <3> QED BY <2>3, <3>2, <3>4, <3>7 DEF Contains, level
  <2>5. PICK W \in [H -> Seq(H)] : \A x \in H : UnfoldsAt(t, W, x)
    BY <2>1, PreorderExists
  <2>6. ASSUME NEW x \in H
        PROVE  /\ DepthFirstOrder(t, x) = W[x]
               /\ DepthFirstOrder(t, x) \in Seq(H)
               /\ ToSet(DepthFirstOrder(t, x)) = BelowOf(t, x)
    BY <2>1, <2>5, DepthFirstIsPreorder
  <2>7. {a \in Handles(builder) : h \in ToSet(DepthFirstOrder(t, a))}
           = {h} \cup ToSet(AncestorOrder(t, h))
    <3>1. \A a \in H : h \in ToSet(DepthFirstOrder(t, a))
                          <=> h = a \/ a \in Ancestors(t, h)
      BY <2>1, <2>6 DEF BelowOf
    <3>2. Ancestors(t, h) \subseteq H
      BY DEF Ancestors
    <3> QED BY <2>1, <2>3, <3>1, <3>2
  <2>8. IsLeaf(t, h) <=> SubtreeSize(t, h) = 1
    <3>1. /\ kids \in Seq(H) /\ ToSet(kids) = {c \in H : At(t.parent, c) = h}
          /\ Len(kids) = t.outOffsets[h + 1] - t.outOffsets[h]
      BY <2>1 DEF IsBuilt
    <3>2. IsLeaf(t, h) <=> Len(kids) = 0
      BY <2>2, <3>1 DEF IsLeaf
    <3>3. /\ order \in Seq(H) /\ ToSet(order) = BelowOf(t, h)
          /\ order = <<h>> \o WordsOf(W, Reverse(kids))
      BY <2>1, <2>5, <2>6 DEF UnfoldsAt
    <3> HIDE DEF order, kids
    <3>4. CASE Len(kids) = 0
      <4>1. Reverse(kids) = <<>>
        <5>1. Reverse(kids) \in Seq(H) /\ Len(Reverse(kids)) = 0
          BY <3>1, <3>4, ReversedMembers
        <5> QED BY <5>1, EmptySeq
      <4>2. WordsOf(W, <<>>) = <<>>
        BY <2>1, <2>5, WordsOfFew
      <4>3. <<h>> \in Seq(H)
        BY <2>1, OneReversed
      <4>4. order = <<h>>
        BY <3>3, <4>1, <4>2, <4>3, ConcatEmptySeq
      <4> QED BY <3>2, <3>4, <4>4 DEF SubtreeSize, order
    <3>5. CASE Len(kids) # 0
      <4>1. Len(kids) \in Nat
        BY <3>1, LenProperties
      <4>2. 1 \in 1 .. Len(kids)
        BY <3>5, <4>1
      <4> DEFINE c == kids[1]
      <4>3. c \in ToSet(kids)
        BY <3>1, <4>2, MembersOfSeq
      <4> HIDE DEF c
      <4>4. c \in H /\ At(t.parent, c) = h /\ h # InvalidNode
        <5>1. Len(t.nodeData) \in Nat /\ Len(t.nodeData) <= InvalidNode
          BY <2>1 DEF IsBuilt
        <5> QED BY <2>1, <3>1, <4>3, <5>1, InvalidNodeAssumption DEF HandlesOf
      <4>5. h \in Ancestors(t, c)
        BY <2>1, <4>4, AncestorsUnfold
      <4>6. c # h
        BY <4>5 DEF Ancestors
      <4>7. c \in ToSet(order) /\ h \in ToSet(order)
        BY <2>1, <3>3, <4>4, <4>5 DEF BelowOf
      <4>8. Len(order) # 1
        <5>0. order \in Seq(H)
          BY <3>3
        <5>1. ToSet(order) = {order[i] : i \in 1 .. Len(order)}
          BY ONLY <5>0, MembersOfSeq
        <5>2. SUFFICES ASSUME Len(order) = 1 PROVE FALSE
          OBVIOUS
        <5>3. ToSet(order) = {order[1]}
          <6>1. 1 .. Len(order) = {1}
            BY <5>2
          <6> QED BY <5>1, <6>1
        <5> QED BY <4>6, <4>7, <5>3
      <4> QED BY <3>2, <3>5, <4>8 DEF SubtreeSize, order
    <3> QED BY <3>4, <3>5
  <2> QED BY <2>4, <2>7, <2>8 DEF t
<1> QED BY <1>1, BuilderInvHolds, PTL

-----------------------------------------------------------------------------
(* Paths *)

(* The visit of a child.                                                   *)
VisitOf(t, p, c) ==
    LET ordinal == OrdinalIn(ChildSpan(t, p), c)
    IN  [parent |-> p, child |-> c, ordinal |-> ordinal,
         data |-> At(ChildEdgeSpan(t, p), ordinal)]

(* It shows the edge that the child has for its parent edge, and the       *)
(* ordinal and payload by which the parent finds the child.                *)
LEMMA VisitReplays ==
  ASSUME NEW t, IsBuilt(t), NEW c \in HandlesOf(t.nodeData),
         Parent(t, c) # InvalidNode
  PROVE  LET p == Parent(t, c)
         IN  /\ OrdinalIn(ChildSpan(t, p), c) # NoOrdinal
             /\ ReplaysParentEdge(t, VisitOf(t, p, c), c)
<1> DEFINE H == HandlesOf(t.nodeData)
           p == Parent(t, c)
           span == ChildSpan(t, p)
           edges == ChildEdgeSpan(t, p)
           m == Len(span)
<1>1. p \in H
  BY DEF IsBuilt, Parent
<1>2. /\ span \in Seq(H) /\ IsInjective(span)
      /\ ToSet(span) = {x \in H : At(t.parent, x) = p}
      /\ DOMAIN edges = 1 .. m /\ Len(edges) = m
      /\ \A i \in 1 .. m : At(t.parentEdgeData, span[i]) = edges[i]
  BY <1>1 DEF IsBuilt
<1>3. m \in Nat /\ DOMAIN span = 1 .. m
  BY <1>2, LenProperties
<1>4. PICK k \in 1 .. m : span[k] = c
  <2>1. c \in ToSet(span)
    BY <1>2 DEF Parent
  <2> QED BY <1>2, <2>1, MembersOfSeq
<1>5. /\ m <= InvalidNode
      /\ ChildAt(t, p, k - 1) = c
  BY <1>1, <1>4, SiblingsOf
<1> HIDE DEF p
<1>6. OrdinalIn(span, c) = k - 1
  BY <1>2, <1>4, OrdinalFound
<1>7. k - 1 # NoOrdinal
  BY <1>3, <1>4, <1>5, InvalidNodeAssumption DEF NoOrdinal
<1> DEFINE v == VisitOf(t, p, c)
<1>8. /\ v.parent = p /\ v.child = c /\ v.ordinal = k - 1
      /\ v.data = At(edges, k - 1)
  BY <1>6 DEF VisitOf
<1>9. At(edges, k - 1) = edges[k]
  <2>1. (k - 1) + 1 = k
    BY <1>3, <1>4
  <2> HIDE DEF edges
  <2> QED BY <2>1 DEF At
<1>10. FindChildIf(t, p, {<<c, edges[k], k - 1>>}) = c
  <2> DEFINE triples == [i \in DOMAIN span |-> <<span[i], edges[i], i - 1>>]
             accepted == {<<c, edges[k], k - 1>>}
             I == {i \in 1 .. Len(triples) : triples[i] \in accepted}
             at == SelectInSeq(triples, LAMBDA triple : triple \in accepted)
  <2>1. FindChildIf(t, p, accepted) = IF at = 0 THEN InvalidNode ELSE span[at]
    BY DEF FindChildIf
  <2>2. at = IF I # {} THEN Min(I) ELSE 0
    BY DEF SelectInSeq
  <2> HIDE DEF span, edges, m
  <2>3. Len(triples) = m /\ \A i \in 1 .. m : triples[i] = <<span[i], edges[i], i - 1>>
    <3>1. DOMAIN triples = 1 .. m
      BY <1>3
    <3>2. Len(triples) = m
      BY <1>3, <3>1
    <3> QED BY <1>3, <3>2
  <2> HIDE DEF triples
  <2>4. I = {k}
    <3>1. triples[k] \in accepted
      BY <1>4, <2>3
    <3>2. \A i \in 1 .. m : triples[i] \in accepted => i = k
      <4>1. ASSUME NEW i \in 1 .. m, triples[i] \in accepted PROVE i = k
        <5>1. <<span[i], edges[i], i - 1>> = <<c, edges[k], k - 1>>
          BY <2>3, <4>1
        <5>2. i - 1 = k - 1
          BY <5>1
        <5> QED BY <1>3, <1>4, <5>2
      <4> QED BY <4>1
    <3> QED BY <1>4, <2>3, <3>1, <3>2
  <2> HIDE DEF I, at
  <2>5. Min(I) = k
    <3>1. I \in SUBSET Nat /\ I # {}
      BY <1>3, <1>4, <2>4
    <3>2. Min(I) \in I
      BY <3>1, MinOfNaturals
    <3> QED BY <2>4, <3>2
  <2>6. at = k /\ k # 0
    BY <1>3, <1>4, <2>2, <2>4, <2>5
  <2> QED BY <1>4, <2>1, <2>6
<1>11. HasEdge(t, p, c)
  BY <1>4 DEF HasEdge, Contains
<1>12. ChildEdgeDataAt(t, p, k - 1) = <<edges[k]>>
  <2>1. k - 1 < Len(edges)
    BY <1>2, <1>3, <1>4
  <2> QED BY <1>9, <2>1 DEF ChildEdgeDataAt
<1>13. edges[k] = At(t.parentEdgeData, c)
  BY <1>2, <1>4
<1>14. Parent(t, c) = p
  BY DEF p
<1> HIDE DEF v, span, edges
<1>15. ReplaysParentEdge(t, v, c)
  BY <1>5, <1>8, <1>9, <1>10, <1>11, <1>12, <1>13, <1>14 DEF ReplaysParentEdge
<1> QED BY <1>6, <1>7, <1>15 DEF v, span, p

(* The path to a node: its ancestors from the root, and the node.          *)
PathTo(t, node) == Append(Reverse(AncestorOrder(t, node)), node)

(* It begins at a root and goes from parent to child.                      *)
LEMMA PathDescends ==
  ASSUME NEW t, IsBuilt(t), NEW node \in HandlesOf(t.nodeData)
  PROVE  LET m == Len(AncestorOrder(t, node))
             path == PathTo(t, node)
         IN  /\ m \in Nat
             /\ path \in Seq(HandlesOf(t.nodeData)) /\ Len(path) = m + 1
             /\ path[m + 1] = node
             /\ Parent(t, path[1]) = InvalidNode
             /\ \A i \in 1 .. m : Parent(t, path[i + 1]) = path[i]
<1> DEFINE H == HandlesOf(t.nodeData)
           a == AncestorOrder(t, node)
           m == Len(a)
           r == Reverse(a)
           path == PathTo(t, node)
           from(k) == IF k = 0 THEN node ELSE a[k]
<1>1. /\ a \in Seq(H)
      /\ \A k \in 1 .. m : a[k] = Parent(t, from(k - 1))
      /\ Parent(t, from(m)) = InvalidNode
  BY AncestorsWalked DEF IsChain
<1> HIDE DEF a, H
<1>2. m \in Nat
  BY <1>1, LenProperties
<1>3. /\ r \in Seq(H) /\ Len(r) = m
      /\ \A i \in 1 .. m : r[i] = a[m + 1 - i]
  BY <1>1, ReversedMembers
<1> HIDE DEF r
<1>4. path = Append(r, node)
  BY DEF PathTo, r, a
<1>5. /\ path \in Seq(H) /\ Len(path) = m + 1
      /\ \A i \in 1 .. m : path[i] = r[i]
      /\ path[m + 1] = node
  <2>1. node \in H
    BY DEF H
  <2>2. /\ Append(r, node) \in Seq(H) /\ Len(Append(r, node)) = Len(r) + 1
        /\ \A i \in 1 .. Len(r) : Append(r, node)[i] = r[i]
        /\ Append(r, node)[Len(r) + 1] = node
    BY <1>3, <2>1, AppendProperties
  <2> QED BY <1>3, <1>4, <2>2
<1> HIDE DEF path
<1>6. ASSUME NEW i \in 1 .. m + 1 PROVE path[i] = from(m + 1 - i)
  <2>1. CASE i = m + 1
    <3>1. m + 1 - i = 0
      BY <1>2, <2>1
    <3> QED BY <1>5, <2>1, <3>1
  <2>2. CASE i # m + 1
    <3>1. i \in 1 .. m /\ m + 1 - i # 0
      BY <1>2, <2>2
    <3> QED BY <1>3, <1>5, <3>1
  <2> QED BY <2>1, <2>2
<1>7. Parent(t, path[1]) = InvalidNode
  <2>1. 1 \in 1 .. m + 1 /\ m + 1 - 1 = m
    BY <1>2
  <2>2. path[1] = from(m)
    BY <1>6, <2>1
  <2> HIDE DEF from
  <2> QED BY <1>1, <2>2
<1>8. ASSUME NEW i \in 1 .. m PROVE Parent(t, path[i + 1]) = path[i]
  <2> DEFINE k == m + 1 - i
  <2>1. /\ i \in 1 .. m + 1 /\ i + 1 \in 1 .. m + 1
        /\ k \in 1 .. m /\ k # 0 /\ m + 1 - (i + 1) = k - 1
    BY <1>2
  <2>2. path[i] = from(k)
    BY <1>6, <2>1
  <2>3. path[i + 1] = from(k - 1)
    BY <1>6, <2>1
  <2>4. from(k) = a[k]
    BY <2>1
  <2>5. a[k] = Parent(t, from(k - 1))
    BY <1>1, <2>1
  <2> HIDE DEF from, k
  <2> QED BY <2>2, <2>3, <2>4, <2>5
<1> QED BY <1>2, <1>5, <1>7, <1>8 DEF path, a, H

(* PathsReplayEdges: a path that the scratch holds is replayed from the    *)
(* root, edge by edge, in any tree built; a longer one is not visited.     *)
THEOREM PathsReplayed ==
  ASSUME MaxNodes <= InvalidNode
  PROVE  Spec => []PathsReplayEdges
<1>1. ASSUME BuilderInv PROVE PathsReplayEdges
  <2> SUFFICES ASSUME Built, NEW h \in Handles(builder),
                      NEW capacity \in Capacity
               PROVE  LET t == Result
                          walk == WalkPathFromRoot(t, h, capacity)
                          ends == Append([i \in DOMAIN walk.visits |->
                                             walk.visits[i].parent], h)
                      IN  /\ walk.done <=> Depth(t, h) < capacity
                          /\ ~walk.done => walk.visits = <<>>
                          /\ walk.done => /\ IsRoot(t, ends[1])
                                          /\ Len(walk.visits) = Depth(t, h)
                          /\ \A i \in DOMAIN walk.visits :
                                ReplaysParentEdge(t, walk.visits[i], ends[i + 1])
    BY DEF PathsReplayEdges
  <2> DEFINE t == Result
             H == HandlesOf(t.nodeData)
             m == Len(AncestorOrder(t, h))
             path == PathTo(t, h)
             walk == WalkPathFromRoot(t, h, capacity)
             ends == Append([i \in DOMAIN walk.visits |->
                                walk.visits[i].parent], h)
  <2>1. IsBuilt(t) /\ h \in H
    BY <1>1, BuiltIsBuilt
  <2> HIDE DEF t
  <2>2. /\ m \in Nat /\ path \in Seq(H) /\ Len(path) = m + 1
        /\ path[m + 1] = h
        /\ Parent(t, path[1]) = InvalidNode
        /\ \A i \in 1 .. m : Parent(t, path[i + 1]) = path[i]
    BY <2>1, PathDescends
  <2>3. capacity \in Nat
    BY BuilderBounds DEF Capacity
  <2>4. InvalidNode \notin H
    <3>1. Len(t.nodeData) \in Nat /\ Len(t.nodeData) <= InvalidNode
      BY <2>1 DEF IsBuilt
    <3> QED BY <3>1, InvalidNodeAssumption DEF HandlesOf
  <2>5. Depth(t, h) = m
    BY DEF Depth
  <2>6. CASE m + 1 > capacity
    <3>1. walk = [done |-> FALSE, visits |-> <<>>]
      BY <2>6 DEF WalkPathFromRoot, Required
    <3>2. ~(m < capacity)
      BY <2>2, <2>3, <2>6
    <3>3. ~walk.done /\ walk.visits = <<>> /\ DOMAIN walk.visits = {}
      BY <3>1
    <3> QED BY <2>5, <3>2, <3>3 DEF t
  <2>7. CASE ~(m + 1 > capacity)
    <3> DEFINE g == [i \in 1 .. m |-> VisitOf(t, path[i], path[i + 1])]
               S == {g[i] : i \in 1 .. m}
               flat == FlattenSeq([i \in 1 .. m |-> <<g[i]>>])
               visit(i) ==
                 LET ordinal == OrdinalIn(ChildSpan(t, path[i]), path[i + 1])
                 IN  IF ordinal = NoOrdinal THEN <<>>
                     ELSE <<[parent |-> path[i], child |-> path[i + 1],
                             ordinal |-> ordinal,
                             data |-> At(ChildEdgeSpan(t, path[i]), ordinal)]>>
    <3>1. walk = [done |-> TRUE,
                  visits |-> FlattenSeq([i \in 1 .. Len(path) - 1 |-> visit(i)])]
      BY <2>1, <2>4, <2>7 DEF WalkPathFromRoot, Required, PathTo
    <3> HIDE DEF path, m, walk
    <3>2. \A i \in 1 .. m : path[i] \in H /\ path[i + 1] \in H
      <4>1. \A i \in 1 .. m : i \in 1 .. Len(path) /\ i + 1 \in 1 .. Len(path)
        BY <2>2
      <4> QED BY <2>2, <4>1, ElementOfSeq
    <3>3. ASSUME NEW i \in 1 .. m
          PROVE  /\ visit(i) = <<VisitOf(t, path[i], path[i + 1])>>
                 /\ ReplaysParentEdge(t, VisitOf(t, path[i], path[i + 1]),
                                      path[i + 1])
      <4> DEFINE c == path[i + 1]
                 p == path[i]
      <4>1. c \in H /\ Parent(t, c) = p /\ p # InvalidNode
        BY <2>2, <2>4, <3>2
      <4> HIDE DEF c, p
      <4>2. /\ OrdinalIn(ChildSpan(t, p), c) # NoOrdinal
            /\ ReplaysParentEdge(t, VisitOf(t, p, c), c)
        BY <2>1, <4>1, VisitReplays
      <4> QED BY <4>2 DEF VisitOf, c, p
    <3> HIDE DEF visit
    <3>4. g \in [1 .. m -> S] /\ \A i \in 1 .. m : g[i] = VisitOf(t, path[i], path[i + 1])
      OBVIOUS
    <3>5. [i \in 1 .. Len(path) - 1 |-> visit(i)] = [i \in 1 .. m |-> <<g[i]>>]
      <4>1. Len(path) - 1 = m
        BY <2>2
      <4> HIDE DEF g
      <4>2. \A i \in 1 .. m : visit(i) = <<g[i]>>
        BY <3>3, <3>4
      <4> QED BY <4>1, <4>2
    <3> HIDE DEF g, S
    <3>6. flat \in Seq(S) /\ Len(flat) = m /\ \A i \in 1 .. m : flat[i] = g[i]
      BY <2>2, <3>4, OneEach
    <3>7. walk.done = TRUE /\ walk.visits = flat
      BY <3>1, <3>5
    <3> HIDE DEF flat
    <3>8. DOMAIN flat = 1 .. m
      BY <3>6, LenProperties
    <3> DEFINE parents == [i \in DOMAIN flat |-> flat[i].parent]
    <3>9. parents \in Seq(H) /\ Len(parents) = m /\ \A i \in 1 .. m : parents[i] = path[i]
      <4>1. \A i \in 1 .. m : flat[i].parent = path[i]
        BY <3>4, <3>6 DEF VisitOf
      <4>2. parents \in [1 .. m -> H] /\ \A i \in 1 .. m : parents[i] = path[i]
        BY <3>2, <3>8, <4>1
      <4> HIDE DEF parents
      <4>3. parents \in Seq(H) /\ DOMAIN parents = 1 .. m
        BY <2>2, <4>2, SeqDef
      <4> QED BY <2>2, <4>2, <4>3, LenProperties
    <3>10. ends = Append(parents, h)
      BY <3>7
    <3> HIDE DEF parents, ends
    <3>11. ASSUME NEW i \in 1 .. m + 1 PROVE ends[i] = path[i]
      <4>1. /\ Append(parents, h)[Len(parents) + 1] = h
            /\ \A k \in 1 .. Len(parents) : Append(parents, h)[k] = parents[k]
        BY <2>1, <3>9, AppendProperties
      <4>2. CASE i = m + 1
        BY <2>2, <3>9, <3>10, <4>1, <4>2
      <4>3. CASE i # m + 1
        <5>1. i \in 1 .. m
          BY <2>2, <4>3
        <5> QED BY <3>9, <3>10, <4>1, <5>1
      <4> QED BY <4>2, <4>3
    <3>12. IsRoot(t, ends[1])
      <4>1. 1 \in 1 .. m + 1
        BY <2>2
      <4>2. ends[1] = path[1]
        BY <3>11, <4>1
      <4> QED BY <2>2, <4>2 DEF IsRoot
    <3>13. \A i \in 1 .. m : ReplaysParentEdge(t, flat[i], ends[i + 1])
      <4>1. ASSUME NEW i \in 1 .. m PROVE ReplaysParentEdge(t, flat[i], ends[i + 1])
        <5>1. i + 1 \in 1 .. m + 1
          BY <2>2
        <5>2. ends[i + 1] = path[i + 1]
          BY <3>11, <5>1
        <5> QED BY <3>3, <3>4, <3>6, <5>2
      <4> QED BY <4>1
    <3>14. m < capacity
      BY <2>2, <2>3, <2>7
    <3> QED BY <2>5, <3>6, <3>7, <3>8, <3>12, <3>13, <3>14 DEF ends, walk, t
  <2> QED BY <2>6, <2>7
<1> QED BY <1>1, BuilderInvHolds, PTL

-----------------------------------------------------------------------------
(* Sinks *)

Sinks(S) == [values : Seq(S), status : {"completed", "truncated"}]

EmptySink == [values |-> <<>>, status |-> "completed"]

(* A sink that is offered a handle is a sink again.                        *)
LEMMA OfferKeepsSink ==
  ASSUME NEW S, NEW sink \in Sinks(S), NEW x \in S, NEW passed, NEW capacity
  PROVE  Offer(sink, x, passed, capacity) \in Sinks(S)
<1>1. Append(sink.values, x) \in Seq(S)
  BY AppendProperties DEF Sinks
<1> QED BY <1>1 DEF Offer, Sinks

(* transform offers the order one handle after the other.                  *)
LEMMA ConsumeRounds ==
  ASSUME NEW S, NEW order \in Seq(S), NEW passed, NEW capacity
  PROVE  \E run \in [0 .. Len(order) -> Sinks(S)] :
            /\ run[0] = EmptySink
            /\ \A i \in 1 .. Len(order) :
                  run[i] = Offer(run[i - 1], order[i], passed, capacity)
            /\ ConsumeOrder(order, passed, capacity) = run[Len(order)]
<1> DEFINE n == Len(order)
           V == Sinks(S)
           U == SUBSET (1 .. n)
           Body(w, s) == IF s = {} THEN EmptySink
                         ELSE Offer(w[s \ {Max(s)}], order[Max(s)],
                                    passed, capacity)
           iter == CHOOSE w : w = [s \in U |-> Body(w, s)]
           step == [x \in (1 .. n) \X V |->
                       Offer(x[2], order[x[1]], passed, capacity)]
           run == [i \in 0 .. n |-> iter[1 .. i]]
<1>1. n \in Nat /\ DOMAIN order = 1 .. n /\ \A i \in 1 .. n : order[i] \in S
  BY LenProperties, ElementOfSeq
<1>2. ConsumeOrder(order, passed, capacity) = iter[1 .. n]
  BY <1>1 DEF ConsumeOrder, FoldLeft, MapThenFoldSet, EmptySink
<1>3. EmptySink \in V
  <2>1. <<>> \in Seq(S)
    OBVIOUS
  <2> QED BY <2>1 DEF EmptySink, Sinks
<1>4. \A i \in 1 .. n, v \in V : Offer(v, order[i], passed, capacity) \in V
  BY <1>1, OfferKeepsSink
<1> HIDE DEF n, V
<1>5. step \in [(1 .. n) \X V -> V]
  BY <1>4
<1>6. \A i \in 1 .. n, v \in V :
         step[<<i, v>>] = Offer(v, order[i], passed, capacity)
  OBVIOUS
<1> HIDE DEF step
<1>7. PICK f \in [U -> V] : FoldsBy(f, n, EmptySink, step)
  BY <1>1, <1>3, <1>5, FoldExists
<1>8. \A s \in U : s # {} => /\ Max(s) \in 1 .. n
                             /\ s \ {Max(s)} \in U
  <2> SUFFICES ASSUME NEW s \in U, s # {} PROVE Max(s) \in 1 .. n
    OBVIOUS
  <2>1. s \in SUBSET (0 .. n)
    OBVIOUS
  <2>2. Max(s) \in s
    BY <1>1, <2>1, MaxOfBounded
  <2> QED BY <2>2
<1>9. ASSUME NEW s \in U PROVE f[s] = Body(f, s)
  <2>1. CASE s = {}
    BY <1>7, <2>1 DEF FoldsBy
  <2>2. CASE s # {}
    <3> DEFINE m == Max(s)
    <3>1. m \in 1 .. n /\ s \ {m} \in U
      BY <1>8, <2>2
    <3>2. f[s] = step[<<m, f[s \ {m}]>>]
      BY <1>7, <2>2 DEF FoldsBy
    <3> HIDE DEF m
    <3>3. f[s \ {m}] \in V
      BY <1>7, <3>1
    <3>4. f[s] = Offer(f[s \ {m}], order[m], passed, capacity)
      BY <1>6, <3>1, <3>2, <3>3
    <3> QED BY <2>2, <3>4 DEF m
  <2> QED BY <2>1, <2>2
<1>10. f = [s \in U |-> Body(f, s)]
  <2> HIDE DEF Body, U
  <2> QED BY <1>7, <1>9
<1> HIDE DEF Body, U
<1>11. iter = [s \in U |-> Body(iter, s)]
  BY <1>10
<1> HIDE DEF iter
<1>12. \A s \in U : iter[s] = Body(iter, s)
  BY <1>11, Zenon
<1>13. \A i \in 0 .. n : 1 .. i \in U /\ run[i] = iter[1 .. i]
  BY <1>1 DEF U
<1>14. run[0] = EmptySink
  <2>1. 0 \in 0 .. n /\ 1 .. 0 = {}
    BY <1>1
  <2>2. Body(iter, 1 .. 0) = EmptySink
    BY <2>1 DEF Body
  <2> HIDE DEF run
  <2> QED BY <1>12, <1>13, <2>1, <2>2
<1>15. ASSUME NEW i \in 1 .. n
       PROVE  run[i] = Offer(run[i - 1], order[i], passed, capacity)
  <2> DEFINE s == 1 .. i
  <2>1. i \in 0 .. n /\ i - 1 \in 0 .. n /\ s # {} /\ s \in SUBSET (0 .. n)
    BY <1>1
  <2>2. Max(s) \in s /\ \A y \in s : y <= Max(s)
    BY <1>1, <2>1, MaxOfBounded
  <2>3. Max(s) = i
    BY <1>1, <2>2
  <2>4. s \ {i} = 1 .. i - 1
    BY <1>1
  <2>5. Body(iter, s) = Offer(iter[1 .. i - 1], order[i], passed, capacity)
    BY <2>1, <2>3, <2>4 DEF Body
  <2>6. run[i] = iter[s] /\ run[i - 1] = iter[1 .. i - 1] /\ s \in U
    BY <1>13, <2>1
  <2> HIDE DEF run, s
  <2> QED BY <1>12, <2>5, <2>6
<1>16. run \in [0 .. n -> V]
  <2> DEFINE T == {i \in 0 .. n : run[i] \in V}
  <2>0. run = [i \in 0 .. n |-> run[i]]
    OBVIOUS
  <2> HIDE DEF run
  <2>1. 0 \in T
    BY <1>1, <1>3, <1>14
  <2>2. ASSUME NEW i \in 1 .. n, i - 1 \in T PROVE i \in T
    BY <1>4, <1>15, <2>2
  <2> HIDE DEF T
  <2>3. \A i \in 0 .. n : i \in T
    BY <1>1, <2>1, <2>2, RoundInduction
  <2>4. \A i \in 0 .. n : run[i] \in V
    BY <2>3 DEF T
  <2> QED BY <2>0, <2>4
<1>17. ConsumeOrder(order, passed, capacity) = run[n]
  <2>1. n \in 0 .. n
    BY <1>1
  <2> QED BY <1>2, <1>13, <2>1
<1> HIDE DEF run
<1> QED BY <1>14, <1>15, <1>16, <1>17 DEF n, V

(* What a sink of some capacity makes of the handles that get to it.       *)
Sunk(kept, capacity) ==
    IF Len(kept) <= capacity THEN [values |-> kept, status |-> "completed"]
    ELSE [values |-> SubSeq(kept, 1, capacity), status |-> "truncated"]

(* One more handle gets to it: it has room, is full, or rejected before.   *)
LEMMA SunkAppends ==
  ASSUME NEW S, NEW kept \in Seq(S), NEW x \in S, NEW capacity \in Nat,
         NEW passed, x \in passed
  PROVE  Offer(Sunk(kept, capacity), x, passed, capacity)
            = Sunk(Append(kept, x), capacity)
<1> DEFINE l == Len(kept)
           more == Append(kept, x)
<1>1. /\ l \in Nat
      /\ \A i \in 1 .. l : kept[i] \in S
  BY LenProperties, ElementOfSeq
<1>2. /\ more \in Seq(S) /\ Len(more) = l + 1
      /\ \A i \in 1 .. l : more[i] = kept[i]
  BY AppendProperties
<1>3. CASE l < capacity
  <2>1. Sunk(kept, capacity) = [values |-> kept, status |-> "completed"]
    BY <1>1, <1>3 DEF Sunk
  <2>2. Sunk(more, capacity) = [values |-> more, status |-> "completed"]
    BY <1>1, <1>2, <1>3 DEF Sunk
  <2> DEFINE s == Sunk(kept, capacity)
  <2>3. s.values = kept /\ s.status = "completed"
    BY <2>1
  <2>4. [s EXCEPT !.values = Append(s.values, x)]
           = [values |-> more, status |-> "completed"]
    BY <2>1, <2>3
  <2> HIDE DEF s, more
  <2>5. Offer(s, x, passed, capacity) = [s EXCEPT !.values = Append(s.values, x)]
    BY <1>3, <2>3 DEF Offer, HasRoom
  <2> QED BY <2>2, <2>4, <2>5 DEF s, more
<1>4. CASE ~ (l < capacity)
  <2> DEFINE part == SubSeq(kept, 1, capacity)
             partOfMore == SubSeq(more, 1, capacity)
  <2>1. \A i \in 1 .. capacity : i \in 1 .. l
    BY <1>1, <1>4
  <2>2. \A i \in 1 .. capacity : kept[i] \in S /\ more[i] = kept[i]
    BY <1>1, <1>2, <2>1
  <2> HIDE DEF l, more
  <2>3. /\ part \in Seq(S) /\ Len(part) = capacity
        /\ \A i \in 1 .. capacity : part[i] = kept[i]
    BY <2>2, SubSeqProperties
  <2>4. /\ partOfMore \in Seq(S) /\ Len(partOfMore) = capacity
        /\ \A i \in 1 .. capacity : partOfMore[i] = more[i]
    BY <2>2, SubSeqProperties
  <2> HIDE DEF part, partOfMore
  <2>5. part = partOfMore
    BY <2>2, <2>3, <2>4, SeqEqual
  <2>6. Sunk(more, capacity) = [values |-> part, status |-> "truncated"]
    <3>1. ~ (Len(more) <= capacity)
      BY <1>1, <1>2, <1>4
    <3> QED BY <2>5, <3>1 DEF Sunk, partOfMore
  <2>7. CASE l = capacity
    <3>1. part = kept
      BY <2>3, <2>7, SeqEqual DEF l
    <3>2. Sunk(kept, capacity) = [values |-> part, status |-> "completed"]
      BY <2>7, <3>1 DEF Sunk, l
    <3> QED BY <2>3, <2>6, <3>2 DEF Offer, HasRoom, more
  <2>8. CASE l # capacity
    <3>1. ~ (Len(kept) <= capacity)
      BY <1>1, <1>4, <2>8 DEF l
    <3>2. Sunk(kept, capacity) = [values |-> part, status |-> "truncated"]
      BY <3>1 DEF Sunk, part
    <3> QED BY <2>6, <3>2 DEF Offer, more
  <2> QED BY <2>7, <2>8
<1> QED BY <1>3, <1>4

(* A pipeline written as a function of the handles.                        *)
Agrees(passes, passed, S) == \A x \in S : passes[x] = TRUE <=> x \in passed

(* transform gives a sink the handles the pipeline passes on, in order.    *)
LEMMA OrderConsumed ==
  ASSUME NEW S, NEW order \in Seq(S), NEW passed, NEW capacity \in Nat,
         NEW passes, Agrees(passes, passed, S)
  PROVE  ConsumeOrder(order, passed, capacity)
            = Sunk(NodesWith(order, passes, TRUE), capacity)
<1> DEFINE n == Len(order)
<1>1. n \in Nat /\ \A i \in 1 .. n : order[i] \in S
  BY LenProperties, ElementOfSeq
<1>2. PICK run : /\ run[0] = EmptySink
                 /\ \A i \in 1 .. n :
                       run[i] = Offer(run[i - 1], order[i], passed, capacity)
                 /\ ConsumeOrder(order, passed, capacity) = run[n]
  BY ConsumeRounds
<1>3. PICK kept : /\ NodesWith(order, passes, TRUE) = kept[n]
                  /\ PushedBy(kept, order, passes, TRUE)
  BY NodesWithRounds
<1>4. /\ kept[0] = <<>>
      /\ \A i \in 1 .. n : kept[i] = IF order[i] \in passed
                                     THEN Append(kept[i - 1], order[i])
                                     ELSE kept[i - 1]
  BY <1>1, <1>3 DEF PushedBy, Agrees
<1> HIDE DEF n
<1> DEFINE T == {i \in 0 .. n : /\ kept[i] \in Seq(S)
                                /\ run[i] = Sunk(kept[i], capacity)}
<1>5. 0 \in T
  <2>1. <<>> \in Seq(S) /\ Len(<<>>) <= capacity
    BY EmptySeq
  <2>2. Sunk(<<>>, capacity) = EmptySink
    BY <2>1 DEF Sunk, EmptySink
  <2>3. 0 \in 0 .. n
    BY <1>1
  <2> QED BY <1>2, <1>4, <2>1, <2>2, <2>3
<1>6. ASSUME NEW i \in 1 .. n, i - 1 \in T PROVE i \in T
  <2> DEFINE s == kept[i - 1]
             x == order[i]
  <2>1. /\ s \in Seq(S) /\ x \in S /\ i \in 0 .. n
        /\ run[i - 1] = Sunk(s, capacity)
        /\ run[i] = Offer(run[i - 1], x, passed, capacity)
        /\ kept[i] = IF x \in passed THEN Append(s, x) ELSE s
    BY <1>1, <1>2, <1>4, <1>6
  <2> HIDE DEF s, x
  <2>2. CASE x \in passed
    <3>1. Append(s, x) \in Seq(S)
      BY <2>1, AppendProperties
    <3>2. run[i] = Sunk(Append(s, x), capacity)
      BY <2>1, <2>2, SunkAppends
    <3> QED BY <2>1, <2>2, <3>1, <3>2
  <2>3. CASE x \notin passed
    <3>1. run[i] = run[i - 1]
      BY <2>1, <2>3 DEF Offer
    <3> QED BY <2>1, <2>3, <3>1
  <2> QED BY <2>2, <2>3
<1> HIDE DEF T
<1>7. \A i \in 0 .. n : i \in T
  BY <1>1, <1>5, <1>6, RoundInduction
<1>8. n \in T
  BY <1>1, <1>7
<1> QED BY <1>2, <1>3, <1>8 DEF T

(* A pipeline that drops nothing passes on the order as it is.             *)
LEMMA NothingDropped ==
  ASSUME NEW S, NEW order \in Seq(S), NEW passes,
         \A i \in 1 .. Len(order) : passes[order[i]] = TRUE
  PROVE  NodesWith(order, passes, TRUE) = order
<1> DEFINE n == Len(order)
<1>1. n \in Nat /\ \A i \in 1 .. n : order[i] \in S
  BY LenProperties, ElementOfSeq
<1>2. PICK kept : /\ NodesWith(order, passes, TRUE) = kept[n]
                  /\ PushedBy(kept, order, passes, TRUE)
  BY NodesWithRounds
<1>3. /\ kept[0] = <<>>
      /\ \A i \in 1 .. n : kept[i] = Append(kept[i - 1], order[i])
  BY <1>2 DEF PushedBy
<1> HIDE DEF n
<1> DEFINE T == {i \in 0 .. n : /\ kept[i] \in Seq(S) /\ Len(kept[i]) = i
                                /\ \A j \in 1 .. i : kept[i][j] = order[j]}
<1>4. 0 \in T
  <2>1. <<>> \in Seq(S) /\ Len(<<>>) = 0
    BY EmptySeq
  <2>2. 0 \in 0 .. n /\ \A j \in 1 .. 0 : FALSE
    BY <1>1
  <2> QED BY <1>3, <2>1, <2>2
<1>5. ASSUME NEW i \in 1 .. n, i - 1 \in T PROVE i \in T
  <2> DEFINE s == kept[i - 1]
             x == order[i]
  <2>1. /\ s \in Seq(S) /\ Len(s) = i - 1 /\ x \in S /\ i \in 0 .. n
        /\ kept[i] = Append(s, x)
        /\ \A j \in 1 .. i - 1 : s[j] = order[j]
    <3>1. /\ s \in Seq(S) /\ Len(s) = i - 1
          /\ \A j \in 1 .. i - 1 : s[j] = order[j]
      BY <1>5
    <3>2. x \in S /\ i \in 0 .. n
      BY <1>1
    <3>3. kept[i] = Append(s, x)
      BY <1>3
    <3> QED BY <3>1, <3>2, <3>3
  <2> HIDE DEF s
  <2>2. /\ kept[i] \in Seq(S) /\ Len(kept[i]) = (i - 1) + 1
        /\ \A j \in 1 .. i - 1 : kept[i][j] = s[j]
        /\ kept[i][(i - 1) + 1] = x
    BY <2>1, AppendProperties
  <2>3. (i - 1) + 1 = i
    OBVIOUS
  <2>4. ASSUME NEW j \in 1 .. i PROVE kept[i][j] = order[j]
    <3>1. CASE j = i
      BY <2>2, <2>3, <3>1
    <3>2. CASE j # i
      BY <2>1, <2>2, <3>2
    <3> QED BY <3>1, <3>2
  <2> QED BY <2>1, <2>2, <2>3, <2>4
<1> HIDE DEF T
<1>6. \A i \in 0 .. n : i \in T
  BY <1>1, <1>4, <1>5, RoundInduction
<1>7. n \in T
  BY <1>1, <1>6
<1>8. kept[n] \in Seq(S) /\ Len(kept[n]) = n
      /\ \A j \in 1 .. n : kept[n][j] = order[j]
  BY <1>7 DEF T
<1>9. kept[n] = order
  BY <1>8, SeqEqual DEF n
<1> QED BY <1>2, <1>9

(* The part of an order that a sink has taken, reversed and reversed       *)
(* again, is the beginning of the order.                                   *)
LEMMA SunkBegins ==
  ASSUME NEW S, NEW order \in Seq(S), NEW capacity \in Nat
  PROVE  IsPrefix(Reverse(Reverse(Sunk(order, capacity).values)), order)
<1> DEFINE n == Len(order)
           v == Sunk(order, capacity).values
           twice == Reverse(Reverse(v))
<1>1. n \in Nat /\ \A i \in 1 .. n : order[i] \in S
  BY LenProperties, ElementOfSeq
<1> DEFINE l == Len(v)
<1>2. /\ v \in Seq(S) /\ l <= n
      /\ \A i \in 1 .. l : v[i] = order[i]
  <2>1. CASE n <= capacity
    BY <1>1, <2>1 DEF Sunk
  <2>2. CASE ~ (n <= capacity)
    <3>1. v = SubSeq(order, 1, capacity)
      BY <2>2 DEF Sunk
    <3>2. \A i \in 1 .. capacity : order[i] \in S
      BY <1>1, <2>2
    <3> HIDE DEF v
    <3>3. /\ v \in Seq(S) /\ Len(v) = capacity
          /\ \A i \in 1 .. capacity : v[i] = order[i]
      BY <3>1, <3>2, SubSeqProperties
    <3> QED BY <1>1, <2>2, <3>3
  <2> QED BY <2>1, <2>2
<1> HIDE DEF v
<1>3. l \in Nat
  BY <1>2, LenProperties
<1>4. /\ Reverse(v) \in Seq(S) /\ Len(Reverse(v)) = l
      /\ \A i \in 1 .. l : Reverse(v)[i] = v[l + 1 - i]
  BY <1>2, ReversedMembers
<1>5. /\ twice \in Seq(S) /\ Len(twice) = l
      /\ \A i \in 1 .. l : twice[i] = Reverse(v)[l + 1 - i]
  BY <1>4, ReversedMembers
<1>6. \A i \in 1 .. l : twice[i] = order[i]
  <2> SUFFICES ASSUME NEW i \in 1 .. l PROVE twice[i] = order[i]
    OBVIOUS
  <2>1. l + 1 - i \in 1 .. l /\ l + 1 - (l + 1 - i) = i
    BY <1>3
  <2>2. Reverse(v)[l + 1 - i] = v[l + 1 - (l + 1 - i)]
    BY <1>4, <2>1
  <2> QED BY <1>2, <1>5, <2>1, <2>2
<1> HIDE DEF twice, l, n
<1>7. \A i \in 1 .. l : twice[i] \in S /\ order[i] \in S
  BY <1>1, <1>2, <1>3, <1>6
<1>8. /\ SubSeq(twice, 1, l) \in Seq(S) /\ Len(SubSeq(twice, 1, l)) = l
      /\ \A i \in 1 .. l : SubSeq(twice, 1, l)[i] = twice[i]
  BY <1>3, <1>7, SubSeqProperties
<1>9. /\ SubSeq(order, 1, l) \in Seq(S) /\ Len(SubSeq(order, 1, l)) = l
      /\ \A i \in 1 .. l : SubSeq(order, 1, l)[i] = order[i]
  BY <1>3, <1>7, SubSeqProperties
<1>10. SubSeq(twice, 1, l) = SubSeq(order, 1, l)
  BY <1>6, <1>8, <1>9, SeqEqual
<1>11. IsPrefix(twice, order)
  BY <1>2, <1>5, <1>10 DEF IsPrefix, n
<1> QED BY <1>11 DEF twice, v

(* The sequences of handles that the adapters are given.                   *)
LEMMA OrdersTyped ==
  ASSUME NEW t, IsBuilt(t), t.parent \in Seq(0 .. InvalidNode),
         Len(t.parent) = Len(t.nodeData), t.plan = Plan(t.plan.topo, t.parent)
  PROVE  LET H == HandlesOf(t.nodeData)
         IN  /\ t.plan.roots \in Seq(H)
             /\ \A h \in H : /\ DepthFirstOrder(t, h) \in Seq(H)
                             /\ AncestorOrder(t, h) \in Seq(H)
<1> DEFINE H == HandlesOf(t.nodeData)
           n == Len(t.parent)
           list == [i \in DOMAIN t.parent |-> i - 1]
           valueOf == [h \in HandlesOf(t.parent) |-> At(t.parent, h)]
<1>1. n \in Nat /\ DOMAIN t.parent = 1 .. n /\ H = 0 .. n - 1
  BY LenProperties DEF HandlesOf
<1>2. list \in Seq(H)
  <2>1. list \in [1 .. n -> 0 .. n - 1]
    BY <1>1
  <2> HIDE DEF list, n, H
  <2>2. list \in Seq(0 .. n - 1)
    BY <1>1, <2>1, SeqDef
  <2> QED BY <1>1, <2>2
<1>3. t.plan.roots = NodesWith(list, valueOf, InvalidNode)
  <2>1. RootsOf(t.parent) = NodesWith(list, valueOf, InvalidNode)
    BY Zenon DEF RootsOf
  <2> HIDE DEF list, valueOf
  <2>2. Plan(t.plan.topo, t.parent).roots = RootsOf(t.parent)
    BY PlanFields
  <2> QED BY <2>1, <2>2
<1>4. t.plan.roots \in Seq(H)
  <2> HIDE DEF list, valueOf, H
  <2>1. NodesWith(list, valueOf, InvalidNode) \in Seq(H)
    BY <1>2, NodesWithMembers
  <2> QED BY <1>3, <2>1
<1>5. ASSUME NEW h \in H PROVE DepthFirstOrder(t, h) \in Seq(H)
  BY DepthRounds, DepthFirstVisits
<1>6. ASSUME NEW h \in H PROVE AncestorOrder(t, h) \in Seq(H)
  BY AncestorsWalked
<1> QED BY <1>4, <1>5, <1>6

(* TruncationKeepsPrefix: sinks of any capacity behind any pipeline get    *)
(* the first part of what the pipeline passes on, in every tree built.     *)
THEOREM SinksKeepPrefix ==
  ASSUME MaxNodes <= InvalidNode
  PROVE  Spec => []TruncationKeepsPrefix
<1>1. ASSUME BuilderInv PROVE TruncationKeepsPrefix
  <2> SUFFICES ASSUME Built, NEW capacity \in Capacity
      PROVE LET t == Result
                orders == {t.plan.roots}
                      \cup {DepthFirstOrder(t, h) : h \in Handles(builder)}
            IN  /\ \A order \in orders, passed \in SUBSET Handles(builder) :
                      LET passes == [h \in Handles(builder) |-> h \in passed]
                          wanted == NodesWith(order, passes, TRUE)
                      IN  ConsumeOrder(order, passed, capacity) =
                              IF Len(wanted) <= capacity
                              THEN [values |-> wanted, status |-> "completed"]
                              ELSE [values |-> SubSeq(wanted, 1, capacity),
                                    status |-> "truncated"]
                /\ \A h \in Handles(builder) :
                      IsPrefix(Reverse(AncestorsRootFirst(t, h, capacity).values),
                               AncestorOrder(t, h))
    BY DEF TruncationKeepsPrefix
  <2> DEFINE t == Result
             H == Handles(builder)
  <2>1. capacity \in Nat
    BY BuilderBounds DEF Capacity
  <2>2. /\ IsBuilt(t) /\ H = HandlesOf(t.nodeData)
        /\ t.parent \in Seq(0 .. InvalidNode)
        /\ Len(t.parent) = Len(t.nodeData)
        /\ t.plan = Plan(t.plan.topo, t.parent)
    BY <1>1, BuiltIsBuilt
  <2> HIDE DEF t, H
  <2>3. /\ t.plan.roots \in Seq(H)
        /\ \A h \in H : DepthFirstOrder(t, h) \in Seq(H)
                        /\ AncestorOrder(t, h) \in Seq(H)
    BY <2>2, OrdersTyped
  <2>4. ASSUME NEW order \in Seq(H), NEW passed \in SUBSET H
        PROVE  ConsumeOrder(order, passed, capacity)
                  = Sunk(NodesWith(order, [h \in H |-> h \in passed], TRUE),
                         capacity)
    <3> DEFINE passes == [h \in H |-> h \in passed]
    <3>1. Agrees(passes, passed, H)
      BY Zenon DEF Agrees
    <3> HIDE DEF passes
    <3>2. ConsumeOrder(order, passed, capacity)
             = Sunk(NodesWith(order, passes, TRUE), capacity)
      BY <2>1, <3>1, OrderConsumed
    <3> QED BY <3>2 DEF passes
  <2>5. ASSUME NEW h \in H
        PROVE  IsPrefix(Reverse(AncestorsRootFirst(t, h, capacity).values),
                        AncestorOrder(t, h))
    <3> DEFINE order == AncestorOrder(t, h)
               passed == ToSet(order)
               passes == [x \in H |-> x \in passed]
    <3>1. order \in Seq(H)
      BY <2>3
    <3>2. AncestorsRootFirst(t, h, capacity).values
             = Reverse(Materialize(order, capacity).values)
      BY DEF AncestorsRootFirst
    <3> HIDE DEF order
    <3>3. \A i \in 1 .. Len(order) : order[i] \in passed /\ order[i] \in H
      BY <3>1, LenProperties, ElementOfSeq DEF ToSet
    <3>4. passed \in SUBSET H
      BY <3>1, MembersOfSeq
    <3> HIDE DEF passed
    <3>5. \A i \in 1 .. Len(order) : passes[order[i]] = TRUE
      BY <3>3, Zenon
    <3>6. Materialize(order, capacity) = Sunk(NodesWith(order, passes, TRUE),
                                              capacity)
      BY <2>4, <3>1, <3>4 DEF Materialize, passed
    <3> HIDE DEF passes
    <3>7. NodesWith(order, passes, TRUE) = order
      BY <3>1, <3>5, NothingDropped
    <3>8. IsPrefix(Reverse(Reverse(Sunk(order, capacity).values)), order)
      BY <2>1, <3>1, SunkBegins
    <3> QED BY <3>2, <3>6, <3>7, <3>8 DEF order
  <2>6. ASSUME NEW order \in {t.plan.roots}
                                \cup {DepthFirstOrder(t, h) : h \in H}
        PROVE  order \in Seq(H)
    BY <2>3
  <2>7. \A order \in {t.plan.roots} \cup {DepthFirstOrder(t, h) : h \in H},
           passed \in SUBSET H :
             LET passes == [h \in H |-> h \in passed]
                 wanted == NodesWith(order, passes, TRUE)
             IN  ConsumeOrder(order, passed, capacity) =
                     IF Len(wanted) <= capacity
                     THEN [values |-> wanted, status |-> "completed"]
                     ELSE [values |-> SubSeq(wanted, 1, capacity),
                           status |-> "truncated"]
    BY <2>4, <2>6 DEF Sunk
  <2> QED BY <2>5, <2>7 DEF t, H
<1> QED BY <1>1, BuilderInvHolds, PTL

=============================================================================
