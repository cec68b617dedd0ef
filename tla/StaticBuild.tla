---------------------------- MODULE StaticBuild ----------------------------
(***************************************************************************)
(* build() of include/graph/static_polytree.h: from a builder's nodes,     *)
(* edges and parent_of to the compact immutable topology with its cached   *)
(* evaluation plan.  The operators are functions of the builder; the       *)
(* builder itself is PolytreeBuilder's state, and freeze makes one too.    *)
(*                                                                         *)
(* Handles are the C++ values, from 0.  A vector is a TLA+ sequence; the   *)
(* element the code calls v[h] is At(v, h).                                *)
(***************************************************************************)
EXTENDS Handles, FiniteSets, SequencesExt

CONSTANT DefaultEdge  \* EdgeData{}, the parent edge a root gets

At(v, h) == v[h + 1]
HandlesOf(v) == 0 .. Len(v) - 1

-----------------------------------------------------------------------------
(* Grouping edges by their from: counts, partial sums and a cursor.        *)

Offsets(edges, total) ==
    [p \in 0 .. total |->
        Cardinality({k \in DOMAIN edges : edges[k].from < p})]

(* The position the cursor of its from gives the k-th edge.                *)
CursorPosition(edges, total, k) ==
    Offsets(edges, total)[edges[k].from]
        + Cardinality({j \in 1 .. k - 1 : edges[j].from = edges[k].from})
        + 1

EdgeAt(edges, total) ==
    [s \in DOMAIN edges |->
        edges[CHOOSE k \in DOMAIN edges : CursorPosition(edges, total, k) = s]]

(* The n-th child read off the edge list without grouping it.              *)
AdjacencyUngrouped(edges, total) ==
    [s \in DOMAIN edges |-> edges[s].to]
(* A count that stops one edge early.                                      *)
InDegreeShort(edges, total) ==
    [h \in 0 .. total - 1 |->
        Cardinality({k \in 1 .. Len(edges) - 1 : edges[k].to = h})]

(* adjacency[offsets[node] .. offsets[node + 1])                           *)
Span(offsets, array, node) ==
    SubSeq(array, offsets[node] + 1, offsets[node + 1])

-----------------------------------------------------------------------------
(* polytree_kahn_topo: ready nodes wait on a stack (back, pop_back).       *)

Adjacency(edges, total) ==
    [s \in DOMAIN edges |-> EdgeAt(edges, total)[s].to]
InDegree(edges, total) ==
    [h \in 0 .. total - 1 |->
        Cardinality({k \in DOMAIN edges : edges[k].to = h})]

(* The nodes of a list with a given value, pushed one after another.       *)
NodesWith(list, valueOf, value) ==
    LET pushed[i \in 0 .. Len(list)] ==
          IF i = 0 THEN <<>>
          ELSE IF valueOf[list[i]] = value THEN Append(pushed[i - 1], list[i])
          ELSE pushed[i - 1]
    IN  pushed[Len(list)]

KahnRound(edges, total, s) ==
    LET node == Last(s.queue)
        kids == Span(Offsets(edges, total), Adjacency(edges, total), node)
    IN  [queue |-> Front(s.queue)
                   \o NodesWith(kids, s.inDegree, 1),
         order |-> Append(s.order, node),
         inDegree |-> [h \in DOMAIN s.inDegree |->
                          IF Contains(kids, h) THEN s.inDegree[h] - 1
                          ELSE s.inDegree[h]]]

(* The queue after i rounds; every node enters it at most once.            *)
KahnTopo(edges, total) ==
    LET inDegree == InDegree(edges, total)
        handles == [i \in 1 .. total |-> i - 1]
        run[i \in 0 .. total] ==
          IF i = 0
          THEN [queue |-> NodesWith(handles, inDegree, 0),
                order |-> <<>>, inDegree |-> inDegree]
          ELSE IF run[i - 1].queue = <<>> THEN run[i - 1]
          ELSE KahnRound(edges, total, run[i - 1])
        order == run[total].order
    IN  IF Len(order) = total THEN order ELSE <<>>

-----------------------------------------------------------------------------
(* make_plan *)

(* Each node's level, from its parent's level so far.                      *)
LevelsAlong(list, parents) ==
    LET below(h, levels) ==
          IF At(parents, h) = InvalidNode THEN 0
          ELSE levels[At(parents, h)] + 1
        run[i \in 0 .. Len(list)] ==
          IF i = 0 THEN [h \in HandlesOf(parents) |-> 0]
          ELSE [run[i - 1] EXCEPT ![list[i]] = below(list[i], run[i - 1])]
    IN  run[Len(list)]

(* Levels computed by ascending handle.                                    *)
LevelsByHandle(topological, parents) ==
    LevelsAlong([i \in DOMAIN parents |-> i - 1], parents)

Levels(topological, parents) == LevelsAlong(topological, parents)

LevelCount(levels) ==
    IF DOMAIN levels = {} THEN 0
    ELSE Max({levels[h] : h \in DOMAIN levels}) + 1

Plan(topological, parents) ==
    LET levels == Levels(topological, parents)
        handles == [i \in DOMAIN parents |-> i - 1]
        count == LevelCount(levels)
    IN  [topo |-> topological,
         reverseTopo |-> Reverse(topological),
         roots |-> NodesWith(handles,
                       [h \in HandlesOf(parents) |-> At(parents, h)],
                       InvalidNode),
         levelOffsets |->
             [l \in 0 .. count |->
                 Cardinality({h \in DOMAIN levels : levels[h] < l})],
         dependency |->
             FlattenSeq([l \in 1 .. count |->
                 NodesWith(topological, levels, l - 1)])]

-----------------------------------------------------------------------------
(* build *)

(* Beyond this the uint32 node_total, or node_total + 1, has wrapped: the  *)
(* vectors sized by them are indexed past their end and what the build     *)
(* does is undefined.                                                      *)
SizesFit(nodes) == AsHandle(AsHandle(Len(nodes)) + 1) = Len(nodes) + 1

(* Edges left in the order they were added.                                *)
SortedAsAdded(edges, total) == edges

SortedByParent(edges, total) == EdgeAt(edges, total)

(* parent_edge_data assigned at the wrong end of the edge.                 *)
ParentEdgesAtFrom(edges, total) ==
    [i \in 1 .. total |->
        IF \E k \in DOMAIN edges : edges[k].from = i - 1
        THEN edges[CHOOSE k \in DOMAIN edges : edges[k].from = i - 1].data
        ELSE DefaultEdge]

(* parent_edge_data: default constructed, then assigned from the edges.    *)
ParentEdges(edges, total) ==
    [i \in 1 .. total |->
        IF \E k \in DOMAIN edges : edges[k].to = i - 1
        THEN edges[CHOOSE k \in DOMAIN edges : edges[k].to = i - 1].data
        ELSE DefaultEdge]

Topology(builder) ==
    LET total == Len(builder.nodes)
        sorted == SortedByParent(builder.edges, total)
        placed == EdgeAt(sorted, total)
    IN  [nodeData |-> builder.nodes,
         outOffsets |-> Offsets(sorted, total),
         outNeighbors |-> [s \in DOMAIN placed |-> placed[s].to],
         outEdgeData |-> [s \in DOMAIN placed |-> placed[s].data],
         parent |-> builder.parentOf,
         parentEdgeData |-> ParentEdges(sorted, total),
         plan |-> Plan(KahnTopo(builder.edges, total), builder.parentOf)]

(* parent_of has an entry for every node.                                  *)
ParentsCover(builder) == Len(builder.parentOf) >= Len(builder.nodes)

(* What build returns for a builder without a parent_of entry: make_plan   *)
(* finds no root and stops at one level offset, and nothing is copied over *)
(* the zeroed bytes of parent and dependency.  There is no edge: add_edge  *)
(* would have read parent_of for it.                                       *)
UnplannedTopology(nodes) ==
    LET total == Len(nodes)
        topological == KahnTopo(<<>>, total)
        zeroed == [i \in 1 .. total |-> 0]
    IN  [nodeData |-> nodes,
         outOffsets |-> Offsets(<<>>, total),
         outNeighbors |-> <<>>,
         outEdgeData |-> <<>>,
         parent |-> zeroed,
         parentEdgeData |-> ParentEdges(<<>>, total),
         plan |-> [topo |-> topological,
                   reverseTopo |-> Reverse(topological),
                   roots |-> <<>>,
                   levelOffsets |-> [l \in 0 .. 0 |-> 0],
                   dependency |-> zeroed]]

(* make_plan reads parents[node] for every node of the order, unless there *)
(* is no entry at all: a shorter parent_of is read past its end.           *)
BuildOf(builder) ==
    IF ParentsCover(builder)
    THEN [status |-> "built", topology |-> Topology(builder)]
    ELSE IF builder.parentOf = <<>>
    THEN [status |-> "built", topology |-> UnplannedTopology(builder.nodes)]
    ELSE [status |-> "undefined"]

(* A build that trusts every builder to be acyclic.                        *)
BuildUnchecked(builder) ==
    IF ~SizesFit(builder.nodes) THEN [status |-> "undefined"]
    ELSE BuildOf(builder)

Build(builder) ==
    LET total == Len(builder.nodes)
    IN  IF ~SizesFit(builder.nodes) THEN [status |-> "undefined"]
        ELSE IF KahnTopo(builder.edges, total) = <<>> /\ total > 0
        THEN [status |-> "nullopt"]
        ELSE BuildOf(builder)

-----------------------------------------------------------------------------
(* add_node and add_edge *)

EmptyBuilder == [nodes |-> <<>>, edges |-> <<>>, parentOf |-> <<>>]

(* An add_node that makes no room for the node's parent.                   *)
WithNodeOnly(builder, data) == [builder EXCEPT !.nodes = Append(@, data)]

WithNode(builder, data) ==
    [builder EXCEPT !.nodes = Append(@, data),
                    !.parentOf = Append(@, InvalidNode)]

(* add_edge without its check for a parent the node already has.           *)
AcceptsSecondParent(builder, from, to) ==
    /\ from < Len(builder.nodes)
    /\ to < Len(builder.nodes)
    /\ from # to

AcceptsEdge(builder, from, to) ==
    /\ from < Len(builder.nodes)
    /\ to < Len(builder.nodes)
    /\ from # to
    /\ At(builder.parentOf, to) = InvalidNode

WithEdge(builder, from, to, data) ==
    [builder EXCEPT !.parentOf = [@ EXCEPT ![to + 1] = from],
                    !.edges = Append(@, [from |-> from, to |-> to,
                                         data |-> data])]

-----------------------------------------------------------------------------
(* Queries of the built topology *)

ChildSpan(topology, node) ==
    Span(topology.outOffsets, topology.outNeighbors, node)
ChildEdgeSpan(topology, node) ==
    Span(topology.outOffsets, topology.outEdgeData, node)
PlanLevels(plan) == Cardinality(DOMAIN plan.levelOffsets) - 1
DependencyLevel(plan, level) ==
    IF level >= PlanLevels(plan) THEN <<>>
    ELSE Span(plan.levelOffsets, plan.dependency, level)

=============================================================================
