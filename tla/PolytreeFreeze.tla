-------------------------- MODULE PolytreeFreeze --------------------------
(***************************************************************************)
(* A MutablePolytree that is edited and frozen by turns, with one          *)
(* FreezeWorkspace reused by every freeze (include/graph/                  *)
(* polytree_freeze.h).  The caller keeps the last FrozenPolytree while the *)
(* tree moves on.                                                          *)
(***************************************************************************)
EXTENDS TreeValidation, StaticBuild

VARIABLES
    workspace,  \* order, stack, dense_by_id
    frozen      \* the last FreezeOutcome

freezeVars == <<workspace, frozen>>

-----------------------------------------------------------------------------
(* A prepare that forgets dense_by_id.clear().                             *)
PreparedKeepingIndex(w) ==
    [order |-> <<>>, stack |-> <<>>, denseById |-> w.denseById]

(* FreezeWorkspace::prepare, from whatever an earlier freeze left          *)
Prepared(w) == [order |-> <<>>, stack |-> <<>>, denseById |-> <<>>]

(* A walk that pushes roots and children in their own order.               *)
WalkedUnreversed(w) ==
    LET rounds[i \in 0 .. NodeCount] ==
          IF i = 0 THEN [w EXCEPT !.stack = @ \o roots]
          ELSE LET before == rounds[i - 1]
                   current == Last(before.stack)
               IN  IF before.stack = <<>> THEN before
                   ELSE [order |-> Append(before.order, current),
                         stack |-> Front(before.stack) \o Children(current),
                         denseById |-> before.denseById]
    IN  rounds[NodeCount]

(* Canonical preorder: the stack holds the nodes still to visit, the next  *)
(* one last.                                                               *)
Walked(w) ==
    LET rounds[i \in 0 .. NodeCount] ==
          IF i = 0 THEN [w EXCEPT !.stack = @ \o Reverse(roots)]
          ELSE LET before == rounds[i - 1]
                   current == Last(before.stack)
               IN  IF before.stack = <<>> THEN before
                   ELSE [order |-> Append(before.order, current),
                         stack |-> Front(before.stack)
                                   \o Reverse(Children(current)),
                         denseById |-> before.denseById]
    IN  rounds[NodeCount]

(* dense_by_id after count calls of emplace, which keeps an entry it finds.*)
Indexed(w, count) ==
    LET fresh == ToSet(SubSeq(w.order, 1, count)) \ DOMAIN w.denseById
    IN  [w EXCEPT !.denseById =
            [n \in fresh \cup DOMAIN @ |->
                IF n \in fresh
                THEN AsHandle(
                         SelectInSeq(w.order, LAMBDA m : m = n) - 1)
                ELSE @[n]]]

Worked == LET w == Walked(Prepared(workspace)) IN Indexed(w, Len(w.order))

-----------------------------------------------------------------------------
(* The identity maps *)

(* The reverse map left in preorder.                                       *)
AuthoringToRuntimeUnsorted(order) ==
    [i \in DOMAIN order |->
        [authoring |-> order[i], runtime |-> AsHandle(i - 1)]]

(* Sorted by identity: an entry comes after those of smaller identities.   *)
AuthoringToRuntime(order) ==
    LET smaller(i) == Cardinality({j \in DOMAIN order : order[j] < order[i]})
        at(p) == CHOOSE i \in DOMAIN order : smaller(i) = p - 1
    IN  [p \in DOMAIN order |->
            [authoring |-> order[at(p)], runtime |-> AsHandle(at(p) - 1)]]

(* An optional is the set of its values.  lower_bound finds the first      *)
(* entry that is not below the identity.                                   *)
RuntimeHandle(identities, id) ==
    LET entries == identities.authoringToRuntime
        at == SelectInSeq(entries, LAMBDA e : e.authoring >= id)
    IN  IF at = 0 \/ entries[at].authoring # id THEN {}
        ELSE {entries[at].runtime}

AuthoringId(identities, handle) ==
    IF handle >= Len(identities.runtimeToAuthoring) THEN {}
    ELSE {identities.runtimeToAuthoring[handle + 1]}

-----------------------------------------------------------------------------
(* Filling the builder: nodes in preorder, then each node's child edges.   *)

WithNodes(order) ==
    LET added[i \in 0 .. Len(order)] ==
          IF i = 0 THEN EmptyBuilder
          ELSE WithNode(added[i - 1], FindRecord(order[i]).data)
    IN  added[Len(order)]

(* add_edge from one node to a child; one refusal spoils edges_valid.      *)
Linked(filling, from, to, child) ==
    [builder |-> IF AcceptsEdge(filling.builder, from, to)
                 THEN WithEdge(filling.builder, from, to,
                               FindRecord(child).parentEdge)
                 ELSE filling.builder,
     edgesValid |-> AcceptsEdge(filling.builder, from, to)
                    /\ filling.edgesValid]

(* The child edges of the node with handle from.                           *)
RowLinked(filling, w, from) ==
    LET kids == Children(At(w.order, from))
        linked[j \in 0 .. Len(kids)] ==
          IF j = 0 THEN filling
          ELSE Linked(linked[j - 1], AsHandle(from), w.denseById[kids[j]],
                      kids[j])
    IN  linked[Len(kids)]

Filled(w) ==
    LET filling[i \in 0 .. Len(w.order)] ==
          IF i = 0
          THEN [builder |-> WithNodes(w.order), edgesValid |-> TRUE]
          ELSE RowLinked(filling[i - 1], w, i - 1)
    IN  filling[Len(w.order)]

FreezeFailure(error) ==
    IF error = "none" THEN "none"
    ELSE IF error = "node_count_overflow" THEN error
    ELSE "invalid_topology"

Outcome ==
    LET failure == FreezeFailure(Validate.error)
        filled == Filled(Worked)
        static == Build(filled.builder)
    IN  IF failure # "none" THEN [status |-> failure]
        ELSE IF ~filled.edgesValid \/ static.status = "nullopt"
        THEN [status |-> "static_build_failed"]
        ELSE IF static.status = "undefined" THEN static
        ELSE [status |-> "frozen",
              topology |-> static.topology,
              identities |->
                  [runtimeToAuthoring |-> Worked.order,
                   authoringToRuntime |-> AuthoringToRuntime(Worked.order),
                   sourceRevision |-> revision]]

-----------------------------------------------------------------------------
Freeze ==
    /\ frozen' = Outcome
    /\ workspace' = IF Validate = Accepted THEN Worked ELSE workspace
    /\ UNCHANGED vars

(* An allocation or a payload copy throws.  stack and order have room for  *)
(* every node, so the walk itself cannot; emplace can at every entry.      *)
FreezeThrows ==
    /\ \/ workspace' = workspace
       \/ Validate = Accepted /\ workspace' = Prepared(workspace)
       \/ /\ Validate = Accepted
          /\ \E count \in 0 .. NodeCount :
                workspace' = Indexed(Walked(Prepared(workspace)), count)
    /\ UNCHANGED <<vars, frozen>>

FreezeInit ==
    /\ Init
    /\ workspace = [order |-> <<>>, stack |-> <<>>, denseById |-> <<>>]
    /\ frozen = [status |-> "none"]

FreezeNext ==
    \/ Next /\ UNCHANGED freezeVars
    \/ Freeze
    \/ FreezeThrows

FreezeSpec == FreezeInit /\ [][FreezeNext]_<<vars, freezeVars>>

-----------------------------------------------------------------------------
(* Properties *)

(* The snapshot claims to describe the tree as it is now.                  *)
Current ==
    frozen.status = "frozen" /\ frozen.identities.sourceRevision = revision

(* A snapshot whose source_revision is the tree's maps every live identity *)
(* to a handle of its own and nothing else to any, and the static topology *)
(* has, under that map, the tree's parents, child order and payloads.      *)
(* However many edits and interrupted freezes came before, a stale entry   *)
(* of the reused workspace or a mutation that left the revision alone      *)
(* would show here.                                                        *)
SnapshotMatchesSource ==
    Current =>
        LET t == frozen.topology
            ids == frozen.identities
            handle(n) == CHOOSE h \in RuntimeHandle(ids, n) : TRUE
        IN  /\ \A n \in StableNodeId :
                  RuntimeHandle(ids, n) # {} <=> n \in Live
            /\ Len(t.nodeData) = NodeCount
            /\ \A n \in Live :
                  /\ AuthoringId(ids, handle(n)) = {n}
                  /\ At(t.nodeData, handle(n)) = FindRecord(n).data
                  /\ At(t.parent, handle(n)) =
                         IF IsRoot(n) THEN InvalidNode ELSE handle(Parent(n))
                  /\ At(t.parentEdgeData, handle(n)) =
                         IF IsRoot(n) THEN DefaultEdge
                         ELSE FindRecord(n).parentEdge
                  /\ ChildSpan(t, handle(n)) =
                         [i \in DOMAIN Children(n) |-> handle(Children(n)[i])]
                  /\ ChildEdgeSpan(t, handle(n)) =
                         [i \in DOMAIN Children(n) |->
                             FindRecord(Children(n)[i]).parentEdge]
            /\ t.plan.roots = [i \in DOMAIN roots |-> handle(roots[i])]

(* Handles are dense in root-first preorder: a sequence of siblings takes  *)
(* consecutive blocks as long as their subtrees, the first right after     *)
(* their parent.                                                           *)
SnapshotIsPreorder ==
    Current =>
        LET handle(n) ==
              CHOOSE h \in RuntimeHandle(frozen.identities, n) : TRUE
            first(place) ==
              IF place = InvalidId THEN 0 ELSE handle(place) + 1
        IN  \A place \in Live \cup {InvalidId} :
              \A i \in DOMAIN Sequence(place) :
                handle(Sequence(place)[i]) =
                  IF i = 1 THEN first(place)
                  ELSE handle(Sequence(place)[i - 1])
                       + Cardinality(Contract!Subtree(Sequence(place)[i - 1]))

(* MUTABLE.md: repeated freeze of unchanged authoring input produces equal *)
(* public topology spans and identity maps, whatever the workspace holds.  *)
RefreezeIsEqual == Current => Outcome = frozen

(* Only the number of nodes decides how a freeze ends: no hierarchy, edit  *)
(* history or workspace content makes an edge of the preorder unacceptable *)
(* to add_edge or leaves build a cycle, more nodes than handles are        *)
(* refused, and only at the limit itself do the sizes of build wrap.       *)
OutcomeFollowsSize ==
    Outcome.status = IF NodeCount < InvalidNode THEN "frozen"
                     ELSE IF NodeCount = InvalidNode THEN "undefined"
                     ELSE "node_count_overflow"

(* MUTABLE.md: validate checks the dense-handle limit.  A tree it accepts  *)
(* can then be built without a 32-bit size wrapping.                       *)
AcceptedTreesFit == frozen.status # "undefined"

=============================================================================
