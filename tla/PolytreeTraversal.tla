-------------------------- MODULE PolytreeTraversal --------------------------
(***************************************************************************)
(* What callers read from a built polytree: the three canonical orders     *)
(* (include/graph/static_polytree.h), and the sinks, materializers and     *)
(* document-tree helpers on top of them (static_polytree_algo.h).  They    *)
(* change nothing but the caller's sink or scratch, so they are functions  *)
(* of the topology, checked for every one a PolytreeBuilder can give.      *)
(***************************************************************************)
EXTENDS PolytreeBuilder

Parent(t, node) == At(t.parent, node)

IsRoot(t, node) == Parent(t, node) = InvalidNode
IsLeaf(t, node) == t.outOffsets[node] = t.outOffsets[node + 1]
HasEdge(t, from, to) == Contains(ChildSpan(t, from), to)

ChildCount(t, node) == t.outOffsets[node + 1] - t.outOffsets[node]
ChildAt(t, node, index) ==
    IF index < Len(ChildSpan(t, node)) THEN At(ChildSpan(t, node), index)
    ELSE InvalidNode

(* A pointer: one payload, or none.                                        *)
ChildEdgeDataAt(t, node, index) ==
    IF index < Len(ChildEdgeSpan(t, node))
    THEN <<At(ChildEdgeSpan(t, node), index)>> ELSE <<>>

-----------------------------------------------------------------------------
(* Canonical orders.  Each loop visits a node per round, none twice, so    *)
(* the number of nodes bounds the rounds.                                  *)

(* A worklist that is filled so that siblings keep their stored order.     *)
PushReversed(stack, children) == stack \o Reverse(children)

Push(stack, children) == stack \o children

DepthFirstOrder(t, root) ==
    LET rounds[i \in 0 .. Len(t.nodeData)] ==
          IF i = 0 THEN [stack |-> <<root>>, order |-> <<>>]
          ELSE LET before == rounds[i - 1]
                   node == Last(before.stack)
               IN  IF before.stack = <<>> THEN before
                   ELSE [stack |-> Push(Front(before.stack),
                                        ChildSpan(t, node)),
                         order |-> Append(before.order, node)]
    IN  rounds[Len(t.nodeData)].order

(* A scan that starts behind the root.                                     *)
FirstHeadSkipped == 2

FirstHead == 1

BreadthFirstOrder(t, root) ==
    LET order[i \in 0 .. Len(t.nodeData)] ==
          IF i = 0 THEN <<root>>
          ELSE LET head == i - 1 + FirstHead
               IN  IF head > Len(order[i - 1]) THEN order[i - 1]
                   ELSE order[i - 1] \o ChildSpan(t, order[i - 1][head])
    IN  order[Len(t.nodeData)]

(* An ancestor walk that begins at the node itself.                        *)
FromNode(t, node) == node

FromParent(t, node) == Parent(t, node)

AncestorOrder(t, node) ==
    LET rounds[i \in 0 .. Len(t.nodeData)] ==
          IF i = 0 THEN [current |-> FromParent(t, node), order |-> <<>>]
          ELSE IF rounds[i - 1].current = InvalidNode THEN rounds[i - 1]
          ELSE [current |-> Parent(t, rounds[i - 1].current),
                order |-> Append(rounds[i - 1].order, rounds[i - 1].current)]
    IN  rounds[Len(t.nodeData)].order

Depth(t, node) == Len(AncestorOrder(t, node))
SubtreeSize(t, root) == Len(DepthFirstOrder(t, root))

-----------------------------------------------------------------------------
(* Sinks.  transform offers the order to the sink until it rejects; a sink *)
(* takes capacity handles.  A pipeline in front of it passes on some nodes *)
(* and drops the others, which is no rejection.                            *)

(* A bounds check that keeps the last place free.                          *)
HasRoomForTwo(count, capacity) == count + 1 < capacity

HasRoom(count, capacity) == count < capacity

Offer(sink, node, passed, capacity) ==
    IF sink.status = "truncated" \/ node \notin passed THEN sink
    ELSE IF HasRoom(Len(sink.values), capacity)
         THEN [sink EXCEPT !.values = Append(@, node)]
         ELSE [sink EXCEPT !.status = "truncated"]

ConsumeOrder(order, passed, capacity) ==
    FoldLeft(LAMBDA sink, node : Offer(sink, node, passed, capacity),
             [values |-> <<>>, status |-> "completed"], order)

Materialize(order, capacity) ==
    ConsumeOrder(order, ToSet(order), capacity)

(* The written prefix is what is reversed, not the order.                  *)
AncestorsRootFirst(t, node, capacity) ==
    LET written == Materialize(AncestorOrder(t, node), capacity)
    IN  [written EXCEPT !.values = Reverse(@)]

-----------------------------------------------------------------------------
(* Siblings and paths *)

NoOrdinal == InvalidNode  \* UINT32_MAX

(* Ordinals counted from one.                                              *)
OrdinalFromOne(children, node) == SelectInSeq(children, LAMBDA c : c = node)

OrdinalIn(children, node) ==
    IF Contains(children, node)
    THEN SelectInSeq(children, LAMBDA c : c = node) - 1
    ELSE NoOrdinal

ChildOrdinal(t, node) ==
    IF Parent(t, node) = InvalidNode THEN NoOrdinal
    ELSE OrdinalIn(ChildSpan(t, Parent(t, node)), node)

PreviousSibling(t, node) ==
    LET ordinal == ChildOrdinal(t, node)
    IN  IF ordinal = NoOrdinal \/ ordinal = 0 THEN InvalidNode
        ELSE ChildAt(t, Parent(t, node), ordinal - 1)

NextSibling(t, node) ==
    LET ordinal == ChildOrdinal(t, node)
    IN  IF ordinal = NoOrdinal THEN InvalidNode
        ELSE ChildAt(t, Parent(t, node), ordinal + 1)

(* The first child for which the predicate, here the set of the child,     *)
(* payload and ordinal triples it accepts, holds.                          *)
FindChildIf(t, node, accepted) ==
    LET children == ChildSpan(t, node)
        triples == [i \in DOMAIN children |->
                       <<children[i], ChildEdgeSpan(t, node)[i], i - 1>>]
        at == SelectInSeq(triples, LAMBDA triple : triple \in accepted)
    IN  IF at = 0 THEN InvalidNode ELSE children[at]

(* A path that leaves no room for the node itself.                         *)
RequiredForAncestors(ancestors) == Len(ancestors)

Required(ancestors) == Len(ancestors) + 1

(* Whether it returns true, and the visitor's calls.                       *)
WalkPathFromRoot(t, node, capacity) ==
    LET ancestors == AncestorOrder(t, node)
        path == Append(Reverse(ancestors), node)
        visit(i) ==
          LET ordinal == OrdinalIn(ChildSpan(t, path[i]), path[i + 1])
          IN  IF ordinal = NoOrdinal THEN <<>>
              ELSE <<[parent |-> path[i], child |-> path[i + 1],
                      ordinal |-> ordinal,
                      data |-> At(ChildEdgeSpan(t, path[i]), ordinal)]>>
    IN  IF node = InvalidNode \/ Required(ancestors) > capacity
        THEN [done |-> FALSE, visits |-> <<>>]
        ELSE [done |-> TRUE,
              visits |-> FlattenSeq([i \in 1 .. Len(path) - 1 |-> visit(i)])]

-----------------------------------------------------------------------------
(* Properties, of every topology built *)

Capacity == 0 .. MaxNodes + 1

(* TRAVERSAL.md: root first, siblings in reverse stored order.  The order  *)
(* of a node is the node and then, last child first, the orders of its     *)
(* children: the worklist keeps every subtree in one block.                *)
DepthFirstUnfolds ==
    Built =>
        LET t == Result
            order == [h \in Handles(builder) |-> DepthFirstOrder(t, h)]
        IN  \A h \in Handles(builder) :
                LET last == Reverse(ChildSpan(t, h))
                IN  order[h] = <<h>> \o FlattenSeq([i \in DOMAIN last |->
                                                       order[last[i]]])

(* Root first, level by level in stored sibling order: behind the root the *)
(* order is the children of its own members in turn; and it has the nodes  *)
(* the depth-first order has.                                              *)
BreadthFirstUnfolds ==
    Built =>
        LET t == Result
        IN  \A h \in Handles(builder) :
                LET order == BreadthFirstOrder(t, h)
                IN  /\ order = <<h>> \o FlattenSeq([i \in DOMAIN order |->
                                                       ChildSpan(t, order[i])])
                    /\ ToSet(order) = ToSet(DepthFirstOrder(t, h))
                    /\ Len(order) = SubtreeSize(t, h)

(* The ancestors of a node, the levels of the plan and the sizes of the    *)
(* subtrees are computed from three different arrays and agree: a node's   *)
(* depth is its level, it is in the subtrees of itself and its ancestors   *)
(* and no other, and only a leaf's subtree has one node.                   *)
DepthsAgree ==
    Built =>
        LET t == Result
            below == [h \in Handles(builder) |-> ToSet(DepthFirstOrder(t, h))]
        IN  \A h \in Handles(builder) :
                /\ Contains(DependencyLevel(t.plan, Depth(t, h)), h)
                /\ {a \in Handles(builder) : h \in below[a]}
                       = {h} \cup ToSet(AncestorOrder(t, h))
                /\ IsLeaf(t, h) <=> SubtreeSize(t, h) = 1

(* A sink with less room than there is to take gets the first part and     *)
(* the traversal reports truncation; with exactly enough room, or when all *)
(* that is left is dropped by the pipeline, it is complete.  Root-first    *)
(* ancestors that do not fit are the nearest ones.                         *)
TruncationKeepsPrefix ==
    Built =>
        LET t == Result
            orders == {t.plan.roots}
                      \cup {DepthFirstOrder(t, h) : h \in Handles(builder)}
        IN  \A capacity \in Capacity :
                /\ \A order \in orders, passed \in SUBSET Handles(builder) :
                      LET passes == [h \in Handles(builder) |-> h \in passed]
                          wanted == NodesWith(order, passes, TRUE)
                      IN  ConsumeOrder(order, passed, capacity) =
                              IF Len(wanted) <= capacity
                              THEN [values |-> wanted, status |-> "completed"]
                              ELSE [values |-> SubSeq(wanted, 1, capacity),
                                    status |-> "truncated"]
                /\ \A h \in Handles(builder) :
                      IsPrefix(Reverse(AncestorsRootFirst(t, h, capacity).values),
                               AncestorOrder(t, h))

(* Previous and next sibling undo each other, end at the two ends of the   *)
(* stored order, and stay below one parent.                                *)
SiblingsLinked ==
    Built =>
        LET t == Result
        IN  \A h \in Handles(builder) :
                LET parent == Parent(t, h)
                    next == NextSibling(t, h)
                    previous == PreviousSibling(t, h)
                IN  /\ next # InvalidNode =>
                          /\ PreviousSibling(t, next) = h
                          /\ Parent(t, next) = parent
                    /\ previous # InvalidNode => NextSibling(t, previous) = h
                    /\ parent # InvalidNode =>
                          /\ next = InvalidNode <=>
                                h = ChildAt(t, parent, ChildCount(t, parent) - 1)
                          /\ previous = InvalidNode <=>
                                h = ChildAt(t, parent, 0)

ReplaysParentEdge(t, visit, next) ==
    /\ visit.child = next
    /\ Parent(t, visit.child) = visit.parent
    /\ HasEdge(t, visit.parent, visit.child)
    /\ visit.data = At(t.parentEdgeData, visit.child)
    /\ ChildAt(t, visit.parent, visit.ordinal) = visit.child
    /\ ChildEdgeDataAt(t, visit.parent, visit.ordinal) = <<visit.data>>
    /\ FindChildIf(t, visit.parent, {<<visit.child, visit.data, visit.ordinal>>})
           = visit.child

(* A path is visited exactly if the scratch holds it: edge after edge from *)
(* the root to the node, with the payload the child has for its parent     *)
(* edge and the ordinal by which the parent finds it; otherwise nothing is *)
(* visited.  find_child_if finds that child by handle and payload.         *)
PathsReplayEdges ==
    Built =>
        LET t == Result
        IN  \A h \in Handles(builder), capacity \in Capacity :
                LET walk == WalkPathFromRoot(t, h, capacity)
                    ends == Append([i \in DOMAIN walk.visits |->
                                       walk.visits[i].parent], h)
                IN  /\ walk.done <=> Depth(t, h) < capacity
                    /\ ~walk.done => walk.visits = <<>>
                    /\ walk.done => /\ IsRoot(t, ends[1])
                                    /\ Len(walk.visits) = Depth(t, h)
                    /\ \A i \in DOMAIN walk.visits :
                          ReplaysParentEdge(t, walk.visits[i], ends[i + 1])

=============================================================================
