# Verification of polytree

TLA+ models of `polytree`, a header-only C++ library with two halves: an
editable ordered forest with stable identities (`MutablePolytree`) and a compact
immutable forest with a cached evaluation plan (`Polytree`), joined by `freeze`.
The models are translated from `include/graph/*.h`; line numbers of every
definition are in `PROJECT.json` ("map").

## The system

| Component | State | Operations | Where it is hard |
|---|---|---|---|
| Mutable forest, `mutable_polytree.h` | slot table, identity index, free slots, roots, next identity, revision | two insertions, reparent, detach, erase, two payload replacements | rollback when an allocation throws, slot reuse, cycle check, two ordinal ranges, sequences that must match parent links |
| Validation, same file | none | `validate` | must accept every tree the mutations can make |
| Freeze, `polytree_freeze.h` | reusable workspace; the result owns two identity maps | `freeze`, map queries | stale workspace after an exception, preorder, revision as a staleness check |
| Builder and build, `static_polytree.h` | nodes, edges, `parent_of` | `add_node`, `add_edge`, `build` | cycles enter through `add_edge`; order from edges but levels from `parent_of`; 32-bit sizes |
| Static storage, same file | one buffer, payload lifetimes | move, destroy, rollback of `build` | a payload destroyed twice or never; a rollback that knows only how many were made |
| Traversals and adapters, same file and `static_polytree_algo.h` | caller's scratch | orders, sinks, materializers, sibling and path helpers | worklist order, truncation and exact capacity |
| Ancestor closure, `ancestor_closure.h` | workspace: order, ranks, marks | `prepare`, `ancestor_closure_order` | marks that survive a call or a rebinding, ranks of another tree, a walk without a limit of its own |
| Legacy DAG, `static_dag.h` | builder and buffer | `build`, queries, traversals | unstable sort, parallel edges, paths that meet |

`freeze` reads a mutable forest through its free functions, validates it, walks
it, fills a `PolytreeBuilder` and calls `build`. Traversals and the closure read
the built topology. There are no threads, messages or callbacks into the
library that could re-enter it, so the difficulty is not concurrency. It is in
long call sequences, in exceptions between two updates of related structures,
in scratch state kept between calls, and at numeric limits. The correctness of
each component is what the properties below state; `PROJECT.json` lists the
hazards with their lines and the properties aimed at each.

## Modules

| Module | Models | Notes |
|---|---|---|
| `MutablePolytree` | the mutable forest | variables are the six members `m_slots` ... `m_revision`, plus `call` and `reply`, which record the last call and are read by no action |
| `OrderedForest` | what the contract table of MUTABLE.md promises | three functions (payload, edge, ordered sequence below each node) and the identities issued |
| `TreeValidation` | `validate` | operators on the state of `MutablePolytree` |
| `Handles` | `INVALID_NODE` and the 32-bit conversion | shared by `StaticBuild` and `TreeValidation` |
| `StaticBuild` | `add_node`, `add_edge`, Kahn order, plan, compact rows, queries | functions of a builder record |
| `PolytreeBuilder` | a caller filling a builder and building | state machine on `StaticBuild` |
| `PolytreeTraversal` | queries, traversal orders, sinks and materializers, siblings, paths | functions of a topology, extends `PolytreeBuilder`: checked for whatever it builds |
| `BuiltForests` | the builders calls can make, and what `build` makes of them | sets, for the two modules that start from a built tree |
| `PolytreeStorage` | payload lifetimes in `build` and its rollback; owners that move, assign and destroy | one step per construction |
| `AncestorClosure` | a workspace, its owner and the tree it is bound to | one step per loop round of a closure |
| `ClosureContract` | what INCREMENTAL.md promises of a closure | ask and answer; implemented by `AncestorClosure` |
| `MovedTrees` | two mutable trees, edited and moved into each other | one is the state of `MutablePolytree`, the other an instance of it; `Turn` trades places |
| `StaticDag` | the legacy DAG: builder, `build`, queries, traversals | takes rows and handles from `StaticBuild` |
| `PolytreeFreeze` | edits and freezes by turns, one workspace, the last outcome | extends `TreeValidation` and `StaticBuild` |
| `MC*` | small instances | view and symmetry |
| `SequenceLemmas`, `BuildLemmas` | lemmas | on sequences, sorting and recursive functions; on grouping, Kahn's algorithm, the trees `BuiltForests` starts from, and builders filled from a whole forest |
| `MutablePolytreeProofs` | theorems about `MutablePolytree` and `MovedTrees` | with the lemmas on slot table, forests and the two hierarchy walks |
| `PolytreeBuilderProofs` | theorems about `PolytreeBuilder` and `PolytreeTraversal` | |
| `PolytreeFreezeProofs`, `AncestorClosureProofs`, `PolytreeStorageProofs`, `StaticDagProofs` | theorems about the module they are named after | |

State and code correspond as follows.

* A call is one step: the class is not for concurrent use. Each action holds
  the early returns in the code's order (`InsertRootError`, `ReparentError`,
  ...), the effect, and an exception wherever a payload construction or an
  allocation can throw. Where the code rolls back, the rollback is computed,
  not assumed: `CommitThrows` distinguishes `emplace` throwing from `push_back`
  throwing, inserts the identity into its sequence and removes it by position.
* `reparent` checks the ordinal after it allocated the replacement edge, so an
  exception can pre-empt `invalid_ordinal`; `detach_to_root` of a root cannot
  throw. Both are modelled.
* The walks (`WouldCreateCycle`, `RemovedNodes`, `Visit`, `Walked`,
  `KahnTopo`) are recursive functions of the round number. Each is cut off
  after a number of rounds the code's own loop cannot exceed on the states it
  can meet, and `would_create_cycle`'s own limit is part of the model.
* `std::optional<StableNodeId>` without a value is `InvalidId`; a null
  `unique_ptr` is `NoEdge` or `NoRecord`.
* Handles are reduced modulo 2^32 (`AsHandle`) as `static_cast<NodeHandle>`
  does. When `node_total + 1` wraps, or `parent_of` has entries but fewer than
  `nodes`, the code indexes past a vector: the result is `"undefined"`.
* `add_edge` assigns `parent_of[to]` before `edges.push_back` and `add_node`
  appends to `nodes` before `parent_of`. An exception between the two leaves
  the change (`Interrupt`); the builder has no rollback. One interrupted
  `add_node` and nothing else leaves a node and no `parent_of` entry. Then
  `make_plan` returns early, and the topology has an order but no root, and
  zeroed bytes for the parent and the dependency order (`UnplannedTopology`).
* In `PolytreeStorage` a payload cell counts its lives: plus one when it is
  constructed, minus one when it is destroyed. An edge payload is constructed
  where the cursor points while the rollback destroys the first so many, as in
  the code. `destroy_payloads` also empties the view; every caller overwrites
  or ends it next, so that assignment is part of the callers' actions.
* A closure goes seed by seed and node by node (`NextSeed`, `Climb`,
  `EndPath`, `Return`); nothing comes in between, since the workspace is for
  one serial owner. `bound` is the caller's precondition (prepared for this
  tree), which the code can only check by size. `prepare` may throw wherever a
  vector has to grow, and leaves what it did before. The model keeps the
  capacity of `order`, which a property is about, and of `rank` and `marked` the
  length only: `PrepareThrows` has every throw of the code and a few more, and
  the properties hold in spite of these.
* A move of a mutable tree takes its six members one by one: containers are
  left empty, counters keep their values. In `MovedTrees` the variables of
  `MutablePolytree` are the members of the object the program names (`this`),
  the record `other` holds those of the second one, and `Turn` is the program
  naming the other. Beside the members the module keeps which object holds
  which identity domain, what was issued in it and one snapshot. A source that
  was moved from is edited further.
* A sink has a capacity and rejects beyond it; a pipeline before it passes a
  set of nodes and drops the others. `transform` of the external `algo` library
  offers values until the first rejection, as the adapters rely on.
* `std::sort` in `static_dag.h` may leave any order among edges of one key:
  `SortedIndices` is the set of them and the two tables choose separately.
* A freeze that throws leaves the workspace as it was, cleared, or walked and
  partly indexed (`FreezeThrows`). The overload of `freeze` without a workspace
  runs the other one on a new local workspace. It has no action of its own: what
  `freeze` returns does not depend on the workspace it is given
  (`OutcomeRepeats`), and the local one is gone afterwards.

## What is checked

| Run | Instance | States | Shows |
|---|---|---|---|
| `hierarchy` | 4 identities, 9 revisions, ordinals 0..4 | 4 372 | `TypeOK`, `SlotTableOK`, `NextIdFresh`, `ForestOK`, `Acyclic`, `SiblingOrderKept`, `IdentityNeverReused` |
| `contract` | 3 identities, 6 revisions, 2 + 2 payloads | 2 638 | `ImplementsContract`: every step is a step of `OrderedForest` under the mapping in the module |
| `builder` | 4 nodes, 5 handles, 2 edge payloads, sinks of 0..5 places | 28 741 | of `build`: `TypeOK`, `ParentsMatchEdges`, `BuildRejectsExactlyCycles`, `OrdersRespectParents`, `LevelsAreDepths`, `RowsMatchParents`, `BuildIgnoresInterleaving`; of what is read from its result: `DepthFirstUnfolds`, `BreadthFirstUnfolds`, `DepthsAgree`, `TruncationKeepsPrefix`, `SiblingsLinked`, `PathsReplayEdges` |
| `closure` | all forests of up to 4 nodes, 2 seeds | 142 371 | `TypeOK`, `MarksFollowOrder`, `ClosureFitsReserve`, `CallReturns`, and `ImplementsClosureContract`: every step is a step of `ClosureContract` or a stutter |
| `storage` | all forests of up to 3 nodes, 3 objects, 2 buffers | 69 356 | `LivesOnce`, `FreedBuffersEmpty`, `OwnersMatchBuffers` |
| `moves` | two trees of 2 identities and 3 revisions | 121 380 | `BothTreesSound`, `SnapshotFollowsDomain`, `DomainNeverReissues` |
| `dag` | 3 nodes, 4 edges, 2 edge payloads | 79 320 | `TablesHoldTheEdges`, `DagOrderRespectsEdges`, `TraversalsVisitOnce` |
| `freeze` | 3 identities, 5 revisions | 35 661 | `ValidateAcceptsReachableTrees`, `SnapshotIsPreorder`, `RefreezeIsEqual` |
| `freeze_payload` | 3 identities, 3 revisions, 2 + 2 payloads | 12 683 | `SnapshotMatchesSource` |
| `freeze_size` | 4 identities, 3 handles, 5 revisions | 88 386 | `OutcomeFollowsSize` |
| `freeze_limit` | 3 identities, 2 handles | - | violated: see below |
| `builder_throws` | 2 nodes | - | violated: see below |

All hold but the last two, which refute two claims of the documentation:

* `AcceptedTreesFit` (MUTABLE.md, "`validate` checks the dense-handle limit").
  `validate` refuses more than `INVALID_NODE` nodes; with exactly that many,
  `build` computes `node_total + 1` in 32 bits and gets 0 offsets.
* `BuiltIsAcyclic` (INCREMENTAL.md, "A cycle cannot be present in a
  successfully built polytree"). After an `add_edge` stopped by an exception in
  `push_back`, `parent_of` holds a parent the edge list does not; the cycle
  check of `build` reads edges only. (The property is about the `parent_of` of
  the builder, and so not about the zeroed parent of an unplanned topology.)

The properties of `PolytreeBuilder` other than these are therefore stated for
builders no call of which was interrupted, except that `ParentsMatchEdges` also
says what an interruption leaves.

**Bounds.** Four identities are enough for every shape the code distinguishes:
a chain in which the moved node, its parent and the new parent are different,
two siblings around a moved one, a slot freed and reused while others stay, and
exhaustion, which the runs reach (`RevisionMax` and `InvalidId` are the last
values, not cut-offs outside the code: at them the code itself refuses).
`AppendChild` is at least the number of siblings, so each ordinal is met below,
at and beyond the end. In the freeze runs `RevisionMax` bounds the number of
edits between freezes; three or five suffice to build any tree of three nodes
and still edit it after a snapshot. `MaxNodes` and one interruption per builder
are bounds on the caller in `PolytreeBuilder`.

`closure` and `storage` start from every topology that calls can build, so a
workspace is rebound between any two trees, of equal size too. With four nodes
two seeds can share one, two or no ancestors, repeat, or lie in different
trees; two seeds are the least that share a path. Three nodes give `storage`
two edges of one parent, of two, and in both orders of addition; three objects
and two buffers (`MaxBuffers`) let a tree be assigned over another one and
moved on. `moves` has both counters exhausted in either object; there
`AppendChild` is 1, so ordinals beyond the end are left to `hierarchy`. In
`dag` three nodes suffice for a diamond's crossing (a node reached by an edge
and by a path), and four edges (`MaxEdges`) for parallel edges beside it. Its
size limit is the one of `build` of the polytree, `SizesFit`, and not reached.

**Views and symmetry.** `call`, `reply` and `result` are written by every
action and read by none; the views leave them out. Action properties and the
refinement are still evaluated on every transition, those to a state already
seen included. Payloads are only copied and compared for equality, so
permuting them is sound; no liveness is checked under symmetry.

**Fairness.** Every operation is a synchronous call that a single owner may or
may not make, so nothing is assumed of owners, and no exception is assumed to
come or to stay away. The one fairness condition is `WF_vars(Step)` in
`AncestorClosure`: a closure that was begun takes its next step, which is no
more than that its thread runs. `CallReturns` then needs what the code has to
provide: its parent walk is an endless range that only a root or a mark ends.
The other loops are inside one step and end by definition: the cycle walk by
its own counter, the others by the forest properties, which are proved.
Deadlock is checked in every run; where nothing else can be done, refusals,
exceptions and further calls are still steps.

## What is proved

**The mutable forest**, `MutablePolytreeProofs`, for every number of
identities, revisions, ordinals and payloads:

* `InvHolds`: `Spec => []Inv`, where `Inv` is the conjunction of `TypeOK`,
  `SlotTableOK`, `NextIdFresh`, `ForestOK` and `Acyclic`; and from it
  `TypesHold`, `SlotTableAgrees`, `IdentitiesFresh`, `LinksFormForest` and
  `NeverCyclic`, one for each part;
* `IdentitiesNeverReused`: `Spec => IdentityNeverReused`;
* `SiblingOrderIsKept`: `Spec => SiblingOrderKept`;
* `ForestRefinesContract`: `Spec => ImplementsContract`;
* for two trees moved into each other `MovesInvHolds`, and from it
  `BothTreesAreSound`, `SnapshotsFollowDomains`, `DomainsNeverReissue`
  (`MovesSpec => []BothTreesSound`, ...).

The assumptions are those of `MutablePolytree`: the three limits are natural
numbers and the two sentinels are outside the sets they are sentinels of.

None of the five parts is inductive alone. That the free list never offers a
live slot needs the index to be injective (`SlotTableOK`), and that a commit
does not overwrite an index entry needs `NextIdFresh`. `Acyclic` after
`reparent` needs the walk to have inspected all ancestors of the new parent,
which needs the walk to end within `node_count()` rounds, which needs the
absence of cycles before (`AncestorsAvoidNode`: a walk that finds neither the
node nor a root within its limit would have visited more nodes than are live).
`ForestOK` after `erase_subtree` needs the worklist to hold a set closed under
children (`RemovedIsSubtree`), and the worklist has no duplicate because each
node is in one sequence only (`ForestOK` before). So the five are proved
together. An action is composed of a few effects (a sequence gains or loses a
node, a record is put into a slot, slots are vacated), each the subject of one
lemma on plain functions and sequences; each action has a lemma on its outcome
(`InsertRootOutcome`, ...), and `NextInv` collects them.

An outcome says more than `Inv'`: the call is `Refused`, with nothing changed,
or has one of four effects (`LeafEffect`, `PlaceEffect`, `EraseEffect`,
`PayloadEffect`) on what a caller can see, the functions `DataOf`, `EdgeOf` and
`KidsOf`. The refinement is read off from these effects. The early returns of
each call object to what the contract objects to (`InsertRootReasons`, ...):
in particular `would_create_cycle` refuses exactly the parents in the node's
subtree (`CyclesAsPromised`) and the two ranges of ordinals are those of one
rule, an ordinal among the other siblings. Each effect is the contract's: an
erasure takes the contract's subtree, which is what the worklist collects
(`RemovedIsPromised`), and a rotation is a removal followed by an insertion
(`RotationReinserts`). A sequence then loses or gains one member per call, from
which `SiblingOrderIsKept` follows.

The invariant of two trees, `MovesInv`, is `Inv` of both objects and, for each
domain, that one object at most holds it, that the holder's identity counter is
past all identities issued in it, and that a snapshot of it has an earlier
revision than the holder or the holder's content. The properties need two facts
about one call: it changes nothing or counts a revision (`EditCounts`), and an
identity that becomes live is the one the counter had. A move satisfies `Inv`
on both sides because an empty tree does, whatever its counters are.

**The builder and `build`**, `PolytreeBuilderProofs`, for any payloads and any
`MaxNodes <= InvalidNode`. The hypothesis is the caller's: handles are `uint32`
and `add_node` does not look at the number of nodes, so a node at
`INVALID_NODE` would be a parent that `add_edge` takes for none.

* `BuilderInvHolds`: every builder is *rough* (each edge is in `parent_of`, so
  each node has one parent at most), and *sound* too (each parent has its edge)
  unless a call was interrupted. Roughness is what carries the induction:
  `add_edge` reads `parent_of` only. From it `BuilderTypesHold` and
  `ParentsAndEdgesAgree`.
* `KahnSorts` (`BuildLemmas`): for edges of one parent each, Kahn's algorithm
  returns every node once with the parents ahead of their children, or nothing,
  and then the edges have a cycle. Its loop invariant (`KahnStates`) ties the
  in-degree left to what was already put out. The grouping that gives the
  algorithm its rows is proved to be the stable sort by parent, though the code
  computes it with counts, prefix sums and cursors (`CursorIsPlace`,
  `RowOfParent`).
* `OrdersAreTopological`, `RowsInvertParents`, `InterleavingIsIgnored`: the
  runs' properties `OrdersRespectParents`, `RowsMatchParents`,
  `BuildIgnoresInterleaving`. `CyclesAloneAreRefused`
  (`BuildRejectsExactlyCycles`) needs `MaxNodes < InvalidNode`: with
  `InvalidNode` nodes `node_total + 1` wraps, which is what the run
  `freeze_limit` shows.
* `LevelsFollowDepths` (`LevelsAreDepths`). The number of a node's ancestors is
  one more than its parent's (`DepthsCount`), and the pass along the order
  computes that number because parents come first (`LevelsFollow`). The levels
  are one block per depth (`LevelsPlaced`), and none is empty, since a node has
  an ancestor at each smaller depth.

**What is read from a built tree**, `PolytreeBuilderProofs` too, under the same
hypothesis. Everything is proved of a topology that `build` returned
(`IsBuilt`): an order with parents first, rows inverse to parents.

* `SiblingsAreLinked` (`SiblingsLinked`): the ordinal of a child is its place
  in its parent's row, and rows hold a child once.
* `DepthFirstOrdersUnfold` (`DepthFirstUnfolds`). A preorder is first defined
  without the worklist, from the leaves up (`PreorderExists`); the worklist is
  then followed by an invariant: the order written so far and the preorders of
  the nodes waiting, from the top of the stack down, are together the preorder
  of the root (`DepthFirstIsPreorder`).
* `BreadthFirstOrdersUnfold` (`BreadthFirstUnfolds`). After each round the
  order is the root and the rows of the nodes already scanned, in turn
  (`BreadthFirstIsLevels`); a later round only appends, and with as many rounds
  as nodes the scan has caught up.
* `DepthsFromThreeArrays` (`DepthsAgree`): the level that a node is
  found in is the number of its ancestors, the nodes whose depth-first order
  holds a node are its ancestors and itself, and a leaf's subtree is one node.
* `PathsReplayed` (`PathsReplayEdges`): `walk_path_from_root` reads the
  ancestors backwards, and each step down is an entry of a row.
* `SinksKeepPrefix` (`TruncationKeepsPrefix`): between two offers the sink
  holds the first of what the pipeline let through, and once it refuses one it
  is full; the loop over the order is an unfolding of its fold.

**Validation and freeze**, `PolytreeFreezeProofs`, for any limits of the tree
and any number of handles; no hypothesis is added to the assumptions of the
modules:

* `FreezeKeepsTree`: `FreezeSpec => []Inv`, the invariant of the mutable
  forest again, since edits and freezes take turns here.
* `ReachableTreesAreAccepted` (`ValidateAcceptsReachableTrees`). The worklist
  of `validate` (`VisitStates`) holds each node once, and a live node exactly
  if its parent was visited or it is a root; after `node_count()` rounds a node
  that was not visited would be in a set closed under parents.
* `SnapshotsAreDated` and from it `RefreezeRepeats` (`RefreezeIsEqual`). What
  `freeze` reads is a function of the forest (`OutcomeRepeats`: the workspace is
  emptied first, so nothing of it is read), and an edit that changes the forest
  moves the revision up. That the date of a snapshot is never ahead of the tree
  is what makes this inductive.
* `HandlesRunInPreorder` (`SnapshotIsPreorder`). The invariant of the walk
  relates the order to the stack: next siblings lie next to each other on the
  stack, and from a node put out to the next one of its siblings the order has
  the whole subtree and nothing else. A subtree is thus a block as long as it
  has nodes. The maps of handles to identities and back follow from the walk's
  order, one by position and the other by sorting.
* `OutcomesFollowSize` (`OutcomeFollowsSize`). The builder after so many rows
  and edges has a closed form (`BuilderTo`), in which `add_edge` accepts the
  next edge because its child has its parent later (`NextEdgeAccepted`); the
  edges have no cycle because `KahnSorts` would give a set of nodes closed
  under parents.
* `SnapshotsMatchSource` (`SnapshotMatchesSource`). The edges of the closed
  form are grouped by parent already, so the stable sort by parent leaves them
  (`EdgesStay`) and the rows of the topology are the child sequences
  (`TopologyOfLayout`). The plan lists roots in ascending order of handles;
  that is the order of the roots, since preorder gives later roots larger
  handles and a set has only one ascending list (`AscentIsUnique`).

**The ancestor closure**, `AncestorClosureProofs`, for `MaxNodes <=
InvalidNode`, any number of seeds and every forest calls can build
(`BuildLemmas` shows those are sound and their topologies in order):

* `ClosureInvHolds` and, from it, `ClosureTypesHold`, `NoMarkIsLeft`
  (`MarksFollowOrder`) and `ClosuresNeverGrow` (`ClosureFitsReserve`). A walk
  stops at a mark, so what is collected is right only if the marks of earlier
  calls are gone, and they can be removed only if they are those of the order;
  the invariant says so, and that what is marked is closed upwards but for the
  node the walk stands at.
* `ClosureRefinesContract`: `Spec => ImplementsClosureContract`. A `Return` is
  an answer of `ClosureContract`: the order holds the inclusive ancestors of
  the seeds, once each, sorted by rank; every other step is a stutter or an
  ask.

**Storage**, `PolytreeStorageProofs`, for `MaxNodes <= InvalidNode` and any
objects and buffers: `StorageInvHolds`, and from it `PayloadsLiveOnce`,
`BuffersFreedEmpty` and `BuffersHaveOneOwner`. The rollback destroys the first
cells of each span, as many as its counts say. The invariant says that these
are the cells that live, which for edges holds because they are grouped by
parent, so that the cursors run through the span in order. It assumes that
`NoObject` is not an object.

**The legacy DAG**, `StaticDagProofs`, for any payloads and any number of
nodes and edges. `DagInvHolds`: the edges of a builder name nodes it has, and a
DAG was built from the builder as it still is. From it the three properties of
the run:

* `TablesAgree` (`TablesHoldTheEdges`). Whatever order the unstable sort leaves,
  the keys ascend, so the edges of a node are one interval that begins where
  the offsets say, and cursors leave sorted edges where they are
  (`SortedCursor`). A row is thus a one-to-one list of the edges at its node
  (`RowLists`), and counts in a row are counts of edges.
* `DagOrderIsSound` (`DagOrderRespectsEdges`). The loop of `kahn_topo` is
  followed by the set of edges already relaxed (`DagState`): a degree is the
  number of edges left into a node, and a node was queued exactly if that is
  none. Parallel edges count one each, which the in-degree of the code does too.
* `DagTraversalsVisitOnce` (`TraversalsVisitOnce`). Nodes visited or waiting are
  reachable, and an edge from a visited node leads to one of them. `dfs` pushes
  a node again for each edge into it, so its rounds are counted against the
  edges: the stack and the rounds made never exceed one more than the edges of
  the visited nodes. `bfs` never queues a node twice, so the queue is scanned
  after as many rounds as there are nodes.

**Only model-checked.** `CallReturns` is a liveness property and out of the
provers' reach. The two violated properties have a counterexample each. Every
other property of a run is a theorem above, in the generality stated there.
Most of what the recursive functions compute is proved by an induction over a
set of round numbers (`RoundInduction`), since the provers cannot instantiate
the library's induction theorems; the library's folds are unfolded by their
definition. `SelectSeq` cannot be, so the models select with `NodesWith` where
a proof needs it.

## Not modelled

* The byte layout of the single buffer: `polytree_carve` and `carve` align each
  section, and the size is a sum with room for every alignment. Payload types
  whose assignment needs a constructed target, which `static_dag.h` does not
  support.
* A self-move of a `MutablePolytree`, whose vectors the standard library leaves
  unspecified. MUTABLE.md gives an object that was moved from no contract for
  handles; `MovedTrees` shows that it can nevertheless be filled again.
* `FreezeMetrics` and capacities in bytes, the result wrappers' accessors,
  reference and span invalidation, `noexcept` and concept requirements
  (`concepts.h`, `polytree_concepts.h`), and the build system, tests and
  benchmark.

## Plan

Every component with run-time behaviour is modelled, and every safety property
that holds is proved. What is left is the buffer layout: that a section which
starts at any address and is aligned up stays within its share of
`buffer_size`, by arithmetic alone.
