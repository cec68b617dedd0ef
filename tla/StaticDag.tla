------------------------------ MODULE StaticDag ------------------------------
(***************************************************************************)
(* The legacy DAG of include/graph/static_dag.h, kept for compatibility: a *)
(* caller fills a DAGBuilder, builds from it and traverses the result.     *)
(* Unlike a polytree a node may have several parents and two nodes several *)
(* edges.  Handles, vectors and rows are those of StaticBuild.             *)
(*                                                                         *)
(* Payloads are trivially copyable, as the assignments of fill_csr into    *)
(* raw memory need.  A push_back that throws leaves a DAGBuilder as it was *)
(* and is no step.                                                         *)
(***************************************************************************)
EXTENDS StaticBuild

CONSTANTS
    NodeData, EdgeData,
    MaxNodes, MaxEdges  \* bounds on what a caller adds

ASSUME DagBounds == MaxNodes \in Nat /\ MaxEdges \in Nat

VARIABLES
    builder,  \* nodes, and edges in the order they were added
    dag       \* what build returned for this builder, if it was called

vars == <<builder, dag>>

Init ==
    /\ builder = [nodes |-> <<>>, edges |-> <<>>]
    /\ dag = [status |-> "none"]

AddNode(data) ==
    /\ Len(builder.nodes) < MaxNodes
    /\ builder' = [builder EXCEPT !.nodes = Append(@, data)]
    /\ dag' = [status |-> "none"]

(* A refusal changes nothing.                                              *)
AddEdge(from, to, data) ==
    /\ Len(builder.edges) < MaxEdges
    /\ from < Len(builder.nodes) /\ to < Len(builder.nodes) /\ from # to
    /\ builder' = [builder EXCEPT !.edges =
                      Append(@, [from |-> from, to |-> to, data |-> data])]
    /\ dag' = [status |-> "none"]

-----------------------------------------------------------------------------
(* kahn_topo *)

(* In-degrees that count the parents, not the edges.                       *)
ParentDegree(edges, h) ==
    Cardinality({edges[k].from : k \in {j \in DOMAIN edges : edges[j].to = h}})

EdgeDegree(edges, h) == Cardinality({k \in DOMAIN edges : edges[k].to = h})

(* One edge out of a node that was ordered: parallel edges count one each. *)
Relax(s, child) ==
    [queue |-> IF s.degree[child] = 1 THEN Append(s.queue, child) ELSE s.queue,
     order |-> s.order,
     degree |-> [s.degree EXCEPT ![child] = @ - 1]]

RelaxAll(s, edges, node) ==
    FoldLeft(LAMBDA t, e : IF e.from = node THEN Relax(t, e.to) ELSE t,
             s, edges)

TakeOff(s) ==
    [queue |-> Front(s.queue), order |-> Append(s.order, Last(s.queue)),
     degree |-> s.degree]

DagKahn(edges, total) ==
    LET degree == [h \in 0 .. total - 1 |-> EdgeDegree(edges, h)]
        handles == [i \in 1 .. total |-> i - 1]
        run[i \in 0 .. total] ==
          IF i = 0 THEN [queue |-> NodesWith(handles, degree, 0),
                         order |-> <<>>, degree |-> degree]
          ELSE IF run[i - 1].queue = <<>> THEN run[i - 1]
          ELSE RelaxAll(TakeOff(run[i - 1]), edges, Last(run[i - 1].queue))
    IN  IF Len(run[total].order) = total THEN run[total].order ELSE <<>>

-----------------------------------------------------------------------------
(* fill_csr, for the rows of one end of the edges *)

(* What std::sort may leave: it keeps no order among edges of one key.     *)
SortedIndices(edges, end) ==
    {order \in SetToSeqs(DOMAIN edges) :
        \A i, j \in DOMAIN edges :
            i < j => edges[order[i]][end] <= edges[order[j]][end]}

(* Payloads written in the order the edges were added.                     *)
DataAsAdded(edges, placed) == [s \in DOMAIN edges |-> edges[s].data]

DataPlaced(edges, placed) == [s \in DOMAIN placed |-> placed[s].data]

FillCsr(edges, total, order, end, other) ==
    LET key(k) == edges[order[k]][end]
        offsets == [p \in 0 .. total |->
                       Cardinality({k \in DOMAIN edges : edges[k][end] < p})]
        cursor(k) == offsets[key(k)]
                     + Cardinality({j \in 1 .. k : key(j) = key(k)})
        placed == [s \in DOMAIN order |->
                      edges[order[CHOOSE k \in DOMAIN order : cursor(k) = s]]]
    IN  [offsets |-> offsets,
         neighbors |-> [s \in DOMAIN placed |-> placed[s][other]],
         data |-> DataPlaced(edges, placed)]

Tables(b, end, other) ==
    {FillCsr(b.edges, Len(b.nodes), order, end, other) :
        order \in SortedIndices(b.edges, end)}

(* What build may return: both tables are sorted for themselves.           *)
DagsOf(b) ==
    LET topo == DagKahn(b.edges, Len(b.nodes))
    IN  IF ~SizesFit(b.nodes) THEN {[status |-> "undefined"]}
        ELSE IF topo = <<>> /\ b.nodes # <<>> THEN {[status |-> "nullopt"]}
        ELSE [status : {"built"}, nodeData : {b.nodes}, topo : {topo},
              out : Tables(b, "from", "to"), in : Tables(b, "to", "from")]

(* build takes the builder by value; the caller's is a copy it keeps.      *)
BuildDag ==
    /\ dag' \in DagsOf(builder)
    /\ UNCHANGED builder

Next ==
    \/ \E data \in NodeData : AddNode(data)
    \/ \E from, to \in HandlesOf(builder.nodes), data \in EdgeData :
          AddEdge(from, to, data)
    \/ BuildDag

Spec == Init /\ [][Next]_vars

-----------------------------------------------------------------------------
(* Queries and traversals *)

DagChildren(g, n) == Span(g.out.offsets, g.out.neighbors, n)
DagParents(g, n) == Span(g.in.offsets, g.in.neighbors, n)
OutgoingEdgeData(g, n) == Span(g.out.offsets, g.out.data, n)
IncomingEdgeData(g, n) == Span(g.in.offsets, g.in.data, n)  \* no query reads it
HasEdge(g, from, to) == Contains(DagChildren(g, from), to)
IsRoot(g, n) == g.in.offsets[n] = g.in.offsets[n + 1]
IsLeaf(g, n) == g.out.offsets[n] = g.out.offsets[n + 1]

(* A depth-first loop that trusts the test made before a push.             *)
NeverSkipped(order, n) == FALSE

AlreadyVisited(order, n) == Contains(order, n)

(* What is visited is what is in order.                                    *)
PushUnvisited(stack, order, children) ==
    FoldLeft(LAMBDA s, c : IF Contains(order, c) THEN s ELSE Append(s, c),
             stack, children)

(* A round takes one from the stack, to which an edge adds at most one.    *)
Visit(g, s) ==
    LET n == Last(s.stack)
    IN  IF AlreadyVisited(s.order, n)
        THEN [stack |-> Front(s.stack), order |-> s.order]
        ELSE [stack |-> PushUnvisited(Front(s.stack), Append(s.order, n),
                                      DagChildren(g, n)),
              order |-> Append(s.order, n)]

DepthFirst(g, root) ==
    LET last == Len(g.out.neighbors) + 1
        rounds[i \in 0 .. last] ==
          IF i = 0 THEN [stack |-> <<root>>, order |-> <<>>]
          ELSE IF rounds[i - 1].stack = <<>> THEN rounds[i - 1]
          ELSE Visit(g, rounds[i - 1])
    IN  rounds[last].order

(* A node is marked when it is queued, also by an earlier parallel edge.   *)
Enqueue(queue, child) ==
    IF Contains(queue, child) THEN queue ELSE Append(queue, child)

BreadthFirst(g, root) ==
    LET queue[i \in 0 .. Len(g.nodeData)] ==
          IF i = 0 THEN <<root>>
          ELSE IF i > Len(queue[i - 1]) THEN queue[i - 1]
          ELSE FoldLeft(Enqueue, queue[i - 1], DagChildren(g, queue[i - 1][i]))
    IN  queue[Len(g.nodeData)]

-----------------------------------------------------------------------------
(* Properties *)

Built == dag.status = "built"
Handle == HandlesOf(builder.nodes)
EdgesBetween(from, to, data) ==
    Cardinality({k \in DOMAIN builder.edges :
                    builder.edges[k] = [from |-> from, to |-> to, data |-> data]})
InRow(row, dataRow, n, data) ==
    Cardinality({i \in DOMAIN row : row[i] = n /\ dataRow[i] = data})

(* Whatever order the sort leaves among edges of one node, both tables     *)
(* hold every edge as often as it was added, next to its own payload, and  *)
(* so agree with each other; the queries of a node follow.                 *)
TablesHoldTheEdges ==
    Built => \A from, to \in Handle :
        /\ \A data \in EdgeData :
              /\ InRow(DagChildren(dag, from), OutgoingEdgeData(dag, from),
                       to, data) = EdgesBetween(from, to, data)
              /\ InRow(DagParents(dag, to), IncomingEdgeData(dag, to),
                       from, data) = EdgesBetween(from, to, data)
        /\ HasEdge(dag, from, to) <=> Contains(DagParents(dag, to), from)
        /\ IsRoot(dag, to) => ~HasEdge(dag, from, to)
        /\ IsLeaf(dag, from) => ~HasEdge(dag, from, to)

Before(seq, a, b) ==
    \E i, j \in DOMAIN seq : i < j /\ seq[i] = a /\ seq[j] = b
HasCycle ==
    \E S \in SUBSET Handle :
        S # {} /\ \A h \in S : \E k \in DOMAIN builder.edges :
                      builder.edges[k].to = h /\ builder.edges[k].from \in S

(* build gives up exactly on a cycle, parallel edges or not, and otherwise *)
(* the cached order has every node once, after all its parents.            *)
DagOrderRespectsEdges ==
    /\ dag.status = "nullopt" => HasCycle
    /\ Built => /\ ~HasCycle
                /\ Len(dag.topo) = Len(builder.nodes)
                /\ ToSet(dag.topo) = Handle
                /\ \A k \in DOMAIN builder.edges :
                      Before(dag.topo, builder.edges[k].from,
                             builder.edges[k].to)

(* The nodes the edges lead to: in every set with root that is closed      *)
(* under them.                                                             *)
Reachable(root) ==
    {n \in Handle :
        \A S \in SUBSET Handle :
            (/\ root \in S
             /\ \A k \in DOMAIN builder.edges :
                   builder.edges[k].from \in S => builder.edges[k].to \in S)
                => n \in S}

(* Where paths meet again, and where edges are parallel, both traversals   *)
(* visit what is reachable from the root, each node once.                  *)
TraversalsVisitOnce ==
    Built => \A root \in Handle :
        \A order \in {DepthFirst(dag, root), BreadthFirst(dag, root)} :
            /\ IsInjective(order)
            /\ ToSet(order) = Reachable(root)

=============================================================================
