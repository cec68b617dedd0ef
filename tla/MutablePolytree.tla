-------------------------- MODULE MutablePolytree --------------------------
(***************************************************************************)
(* The editable ordered forest of include/graph/mutable_polytree.h.        *)
(*                                                                         *)
(* MutablePolytree<NodeData, EdgeData> keeps its node records in a slot    *)
(* table (m_slots) that a hash map reaches by stable identity              *)
(* (m_slot_by_id), a LIFO list of vacated slots (m_free_slots), the        *)
(* ordered roots, and the two 64-bit counters m_next_id and m_revision.    *)
(* Every public mutation is one action: its early returns in their order,  *)
(* its effect, and the exceptions it may let out with what its catch       *)
(* blocks undo.  The class is used by one thread; a call is one step.      *)
(*                                                                         *)
(* Positions: TLA+ sequences start at 1, so slot and sibling positions are *)
(* the C++ index plus one.  Ordinals are the C++ arguments and start at 0. *)
(***************************************************************************)
EXTENDS Integers, FiniteSets, SequencesExt

CONSTANTS
    InvalidId,    \* INVALID_STABLE_NODE.value, the largest uint64
    RevisionMax,  \* the largest value m_revision can hold
    AppendChild,  \* APPEND_CHILD, the largest size_t
    NodeData,     \* node payloads
    EdgeData,     \* edge payloads
    NoEdge,       \* a null parent_edge
    NoRecord      \* a null entry of m_slots

(* Identities insert_* can hand out, and the ordinals a caller can pass.   *)
Id == 0 .. InvalidId - 1
StableNodeId == 0 .. InvalidId
Ordinal == 0 .. AppendChild

(* An absent optional<StableNodeId> parent is InvalidId: every reader of   *)
(* the field applies value_or(INVALID_STABLE_NODE) or tests has_value().   *)
NodeRecord ==
    [id : Id, data : NodeData, parent : StableNodeId,
     parentEdge : EdgeData \cup {NoEdge}, children : Seq(Id)]

ASSUME LimitsAssumption ==
    /\ InvalidId \in Nat
    /\ RevisionMax \in Nat
    /\ AppendChild \in Nat
ASSUME PayloadAssumption == NoEdge \notin EdgeData
ASSUME NoRecordAssumption == NoRecord \notin NodeRecord

VARIABLES
    slots,      \* m_slots
    slotById,   \* m_slot_by_id
    freeSlots,  \* m_free_slots; the last element is reused first
    roots,      \* m_roots
    nextId,     \* m_next_id
    revision,   \* m_revision
    call,       \* the last call made and its arguments; no action reads it
    reply       \* the MutationResult of the last call; no action reads it

state == <<slots, slotById, freeSlots, roots, nextId, revision>>
vars == <<slots, slotById, freeSlots, roots, nextId, revision, call, reply>>

MutationError ==
    {"invalid_node", "invalid_parent", "invalid_ordinal", "cycle",
     "id_exhausted", "revision_exhausted"}

-----------------------------------------------------------------------------
(* Lookup *)

Live == DOMAIN slotById
NodeCount == Cardinality(Live)

FindRecord(node) == IF node \in Live THEN slots[slotById[node]] ELSE NoRecord
Known(node) == FindRecord(node) # NoRecord

Parent(node) == FindRecord(node).parent
Children(node) == FindRecord(node).children
IsRoot(node) == Parent(node) = InvalidId

(* An insertion that forgets to check for the last identity.               *)
IdentityUnchecked == TRUE

IdentityAvailable == nextId # InvalidId
RevisionAvailable == revision # RevisionMax

-----------------------------------------------------------------------------
(* Sibling sequences *)

InsertionOrdinalOK(size, ordinal) == ordinal = AppendChild \/ ordinal <= size
InsertionOrdinal(size, ordinal) ==
    IF ordinal = AppendChild THEN size ELSE ordinal

MoveOrdinalOK(size, ordinal) ==
    size # 0 /\ (ordinal = AppendChild \/ ordinal < size)
MoveOrdinal(size, ordinal) ==
    IF ordinal = AppendChild THEN size - 1 ELSE ordinal

(* The vector::insert both insertions and cross-sequence moves perform.    *)
InsertSibling(siblings, ordinal, node) ==
    InsertAt(siblings, InsertionOrdinal(Len(siblings), ordinal) + 1, node)

ChildIndex(siblings, node) == SelectInSeq(siblings, LAMBDA c : c = node)
EraseSibling(siblings, node) == RemoveAt(siblings, ChildIndex(siblings, node))

(* A move that swaps two siblings instead of rotating those between.       *)
SwapWithin(siblings, current, target) ==
    [siblings EXCEPT ![current] = siblings[target],
                     ![target] = siblings[current]]

(* std::rotate over the positions between current and target.              *)
MoveWithin(siblings, current, target) ==
    [i \in 1 .. Len(siblings) |->
        IF i = target THEN siblings[current]
        ELSE IF current <= i /\ i < target THEN siblings[i + 1]
        ELSE IF target < i /\ i <= current THEN siblings[i - 1]
        ELSE siblings[i]]

ReorderSibling(siblings, ordinal, node) ==
    MoveWithin(siblings, ChildIndex(siblings, node),
               MoveOrdinal(Len(siblings), ordinal) + 1)

-----------------------------------------------------------------------------
(* The hierarchy walks *)

(* A cycle check that looks one level up only.                             *)
ParentWouldCycle(node, proposedParent) ==
    proposedParent = node \/ Parent(proposedParent) = node

(* current after i rounds of would_create_cycle's walk to the root, which  *)
(* gives up, reporting a cycle, once it has inspected node_count() + 1     *)
(* nodes.                                                                  *)
WouldCreateCycle(node, proposedParent) ==
    LET current[i \in 0 .. NodeCount] ==
          IF i = 0 THEN proposedParent
          ELSE IF Known(current[i - 1]) THEN Parent(current[i - 1])
          ELSE InvalidId
    IN  \/ \E i \in 0 .. NodeCount : current[i] = node
        \/ current[NodeCount] # InvalidId

(* An erase that takes the children but not their subtrees.                *)
RemovedChildren(node) == <<node>> \o Children(node)

(* The vector removed after i rounds of erase_subtree's worklist.  A       *)
(* subtree has at most node_count() nodes, so NodeCount rounds exhaust it. *)
RemovedNodes(node) ==
    LET removed[i \in 0 .. NodeCount] ==
          IF i = 0 THEN <<node>>
          ELSE LET before == removed[i - 1]
               IN  IF i <= Len(before) THEN before \o Children(before[i])
                   ELSE before
    IN  removed[NodeCount]

-----------------------------------------------------------------------------
(* commit_record *)

CommitSlot == IF freeSlots = <<>> THEN Len(slots) + 1 ELSE Last(freeSlots)
CommitIndex(id) ==
    [n \in Live \cup {id} |-> IF n = id THEN CommitSlot ELSE slotById[n]]
CommitTable(table, record) ==
    IF freeSlots = <<>> THEN Append(table, record)
    ELSE [table EXCEPT ![CommitSlot] = record]
(* A reused slot left on the free list.                                    *)
FreeListKept == freeSlots

CommitFree == IF freeSlots = <<>> THEN freeSlots ELSE Front(freeSlots)

(* A rollback that leaves the index entry.                                 *)
RollBackNothing(id) == CommitIndex(id)

(* The index after emplace succeeded, m_slots.push_back threw and the      *)
(* catch block erased the entry.  Only push_back can throw there.          *)
RollBackIndex(id) ==
    [n \in (DOMAIN CommitIndex(id)) \ {id} |-> CommitIndex(id)[n]]

-----------------------------------------------------------------------------
(* What a call returns *)

(* A mutation that forgets ++m_revision.                                   *)
SucceedSilently(value) ==
    /\ reply' = [error |-> "none", value |-> value]
    /\ UNCHANGED revision

Succeed(value) ==
    /\ revision' = revision + 1
    /\ reply' = [error |-> "none", value |-> value]

Fail(error) == reply' = [error |-> error] /\ UNCHANGED state

(* A payload constructor or an allocation throws before anything changed.  *)
Throw == Fail("exception")

(* A moved root left among the roots.                                      *)
RootsKept(node) == roots

(* The sequences of roots and of every parent once node has left its own,  *)
(* which sibling_sequence(record) selects.                                 *)
RootsWithout(node) == IF IsRoot(node) THEN EraseSibling(roots, node) ELSE roots
TableWithout(node) ==
    IF IsRoot(node) THEN slots
    ELSE [slots EXCEPT ![slotById[Parent(node)]].children =
                           EraseSibling(@, node)]

-----------------------------------------------------------------------------
(* insert_root *)

InsertRootError(ordinal) ==
    IF ~RevisionAvailable THEN "revision_exhausted"
    ELSE IF ~IdentityAvailable THEN "id_exhausted"
    ELSE IF ~InsertionOrdinalOK(Len(roots), ordinal) THEN "invalid_ordinal"
    ELSE "none"

NewRecord(data, parent, edge) ==
    [id |-> nextId, data |-> data, parent |-> parent, parentEdge |-> edge,
     children |-> <<>>]

(* commit_record throws: emplace before it changed the index (or finding   *)
(* the identity taken), or push_back after it.                             *)
CommitThrows ==
    /\ slotById' \in {slotById}
                     \cup (IF freeSlots = <<>> THEN {RollBackIndex(nextId)}
                           ELSE {})
    /\ reply' = [error |-> "exception"]
    /\ UNCHANGED <<freeSlots, nextId, revision>>

InsertRoot(data, ordinal) ==
    /\ call' = <<"insert_root", data, ordinal>>
    /\ \/ InsertRootError(ordinal) # "none" /\ Fail(InsertRootError(ordinal))
       \/ InsertRootError(ordinal) = "none" /\ Throw
       \/ /\ InsertRootError(ordinal) = "none"
          /\ roots' = RemoveAt(InsertSibling(roots, ordinal, nextId),
                               InsertionOrdinal(Len(roots), ordinal) + 1)
          /\ CommitThrows
          /\ UNCHANGED slots
       \/ /\ InsertRootError(ordinal) = "none"
          /\ nextId \notin Live
          /\ roots' = InsertSibling(roots, ordinal, nextId)
          /\ slots' = CommitTable(slots, NewRecord(data, InvalidId, NoEdge))
          /\ slotById' = CommitIndex(nextId)
          /\ freeSlots' = CommitFree
          /\ nextId' = nextId + 1
          /\ Succeed(nextId)

-----------------------------------------------------------------------------
(* insert_child *)

InsertChildError(parent, ordinal) ==
    IF ~RevisionAvailable THEN "revision_exhausted"
    ELSE IF ~Known(parent) THEN "invalid_parent"
    ELSE IF ~IdentityAvailable THEN "id_exhausted"
    ELSE IF ~InsertionOrdinalOK(Len(Children(parent)), ordinal)
         THEN "invalid_ordinal"
    ELSE "none"

InsertChild(parent, data, edge, ordinal) ==
    LET error == InsertChildError(parent, ordinal)
        at == InsertionOrdinal(Len(Children(parent)), ordinal) + 1
    IN  /\ call' = <<"insert_child", parent, data, edge, ordinal>>
        /\ \/ error # "none" /\ Fail(error)
           \/ error = "none" /\ Throw
           \/ /\ error = "none"
              /\ slots' = [slots EXCEPT ![slotById[parent]].children =
                              RemoveAt(InsertSibling(@, ordinal, nextId), at)]
              /\ CommitThrows
              /\ UNCHANGED roots
           \/ /\ error = "none"
              /\ nextId \notin Live
              /\ slots' = CommitTable(
                             [slots EXCEPT ![slotById[parent]].children =
                                 InsertSibling(@, ordinal, nextId)],
                             NewRecord(data, parent, edge))
              /\ slotById' = CommitIndex(nextId)
              /\ freeSlots' = CommitFree
              /\ nextId' = nextId + 1
              /\ Succeed(nextId)
              /\ UNCHANGED roots

-----------------------------------------------------------------------------
(* reparent *)

ReparentError(node, newParent, ordinal) ==
    IF ~RevisionAvailable THEN "revision_exhausted"
    ELSE IF ~Known(node) THEN "invalid_node"
    ELSE IF ~Known(newParent) THEN "invalid_parent"
    ELSE IF node = newParent \/ WouldCreateCycle(node, newParent) THEN "cycle"
    ELSE IF ~(IF Parent(node) = newParent
              THEN MoveOrdinalOK(Len(Children(newParent)), ordinal)
              ELSE InsertionOrdinalOK(Len(Children(newParent)), ordinal))
         THEN "invalid_ordinal"
    ELSE "none"

(* A move that keeps the old edge payload.                                 *)
MovedKeepingEdge(node, newParent, ordinal, edge) ==
    [TableWithout(node) EXCEPT
        ![slotById[newParent]].children = InsertSibling(@, ordinal, node),
        ![slotById[node]].parent = newParent]

(* The table after the node's record and the two child sequences changed.  *)
Reordered(node, ordinal, edge) ==
    [slots EXCEPT
        ![slotById[Parent(node)]].children = ReorderSibling(@, ordinal, node),
        ![slotById[node]].parentEdge = edge]
Moved(node, newParent, ordinal, edge) ==
    [TableWithout(node) EXCEPT
        ![slotById[newParent]].children = InsertSibling(@, ordinal, node),
        ![slotById[node]].parent = newParent,
        ![slotById[node]].parentEdge = edge]

(* The replacement edge is allocated before the ordinal is checked.        *)
Reparent(node, newParent, edge, ordinal) ==
    LET error == ReparentError(node, newParent, ordinal)
    IN  /\ call' = <<"reparent", node, newParent, edge, ordinal>>
        /\ \/ error # "none" /\ Fail(error)
           \/ error \in {"none", "invalid_ordinal"} /\ Throw
           \/ /\ error = "none"
              /\ Parent(node) = newParent
              /\ slots' = Reordered(node, ordinal, edge)
              /\ Succeed(node)
              /\ UNCHANGED <<slotById, freeSlots, roots, nextId>>
           \/ /\ error = "none"
              /\ Parent(node) # newParent
              /\ slots' = Moved(node, newParent, ordinal, edge)
              /\ roots' = RootsWithout(node)
              /\ Succeed(node)
              /\ UNCHANGED <<slotById, freeSlots, nextId>>

-----------------------------------------------------------------------------
(* detach_to_root *)

DetachError(node, ordinal) ==
    IF ~RevisionAvailable THEN "revision_exhausted"
    ELSE IF ~Known(node) THEN "invalid_node"
    ELSE IF ~(IF IsRoot(node) THEN MoveOrdinalOK(Len(roots), ordinal)
              ELSE InsertionOrdinalOK(Len(roots), ordinal))
         THEN "invalid_ordinal"
    ELSE "none"

(* Reordering the roots cannot throw; making room for one more can.        *)
DetachToRoot(node, ordinal) ==
    LET error == DetachError(node, ordinal)
    IN  /\ call' = <<"detach_to_root", node, ordinal>>
        /\ \/ error # "none" /\ Fail(error)
           \/ error = "none" /\ ~IsRoot(node) /\ Throw
           \/ /\ error = "none"
              /\ IsRoot(node)
              /\ roots' = ReorderSibling(roots, ordinal, node)
              /\ Succeed(node)
              /\ UNCHANGED <<slots, slotById, freeSlots, nextId>>
           \/ /\ error = "none"
              /\ ~IsRoot(node)
              /\ roots' = InsertSibling(roots, ordinal, node)
              /\ slots' = [TableWithout(node) EXCEPT
                              ![slotById[node]].parent = InvalidId,
                              ![slotById[node]].parentEdge = NoEdge]
              /\ Succeed(node)
              /\ UNCHANGED <<slotById, freeSlots, nextId>>

-----------------------------------------------------------------------------
(* erase_subtree *)

NodeError(node) ==
    IF ~RevisionAvailable THEN "revision_exhausted"
    ELSE IF ~Known(node) THEN "invalid_node"
    ELSE "none"

(* The slots the erased nodes leave, in the order they are pushed.         *)
VacatedSlots(removed) ==
    [i \in 1 .. Len(removed) |-> slotById[removed[Len(removed) + 1 - i]]]

EraseSubtree(node) ==
    LET removed == RemovedNodes(node)
        gone == ToSet(removed)
    IN  /\ call' = <<"erase_subtree", node>>
        /\ \/ NodeError(node) # "none" /\ Fail(NodeError(node))
           \/ NodeError(node) = "none" /\ Throw
           \/ /\ NodeError(node) = "none"
              /\ roots' = RootsWithout(node)
              /\ slots' = [s \in DOMAIN slots |->
                              IF s \in ToSet(VacatedSlots(removed))
                              THEN NoRecord ELSE TableWithout(node)[s]]
              /\ slotById' = [n \in Live \ gone |-> slotById[n]]
              /\ freeSlots' = freeSlots \o VacatedSlots(removed)
              /\ Succeed(Len(removed))
              /\ UNCHANGED nextId

-----------------------------------------------------------------------------
(* replace_node_data and replace_parent_edge_data *)

ReplaceNodeData(node, data) ==
    /\ call' = <<"replace_node_data", node, data>>
    /\ \/ NodeError(node) # "none" /\ Fail(NodeError(node))
       \/ NodeError(node) = "none" /\ Throw
       \/ /\ NodeError(node) = "none"
          /\ slots' = [slots EXCEPT ![slotById[node]].data = data]
          /\ Succeed(node)
          /\ UNCHANGED <<slotById, freeSlots, roots, nextId>>

ReplaceEdgeError(node) ==
    IF NodeError(node) # "none" THEN NodeError(node)
    ELSE IF IsRoot(node) THEN "invalid_parent"
    ELSE "none"

ReplaceParentEdgeData(node, edge) ==
    /\ call' = <<"replace_parent_edge_data", node, edge>>
    /\ \/ ReplaceEdgeError(node) # "none" /\ Fail(ReplaceEdgeError(node))
       \/ ReplaceEdgeError(node) = "none" /\ Throw
       \/ /\ ReplaceEdgeError(node) = "none"
          /\ slots' = [slots EXCEPT ![slotById[node]].parentEdge = edge]
          /\ Succeed(node)
          /\ UNCHANGED <<slotById, freeSlots, roots, nextId>>

-----------------------------------------------------------------------------
(* The tree over time: a caller passes any identity, live or not, and any  *)
(* ordinal.                                                                *)

Init ==
    /\ slots = <<>>
    /\ slotById = <<>>
    /\ freeSlots = <<>>
    /\ roots = <<>>
    /\ nextId = 0
    /\ revision = 0
    /\ call = <<"construct">>
    /\ reply = [error |-> "none"]

Next ==
    \/ \E data \in NodeData, ordinal \in Ordinal : InsertRoot(data, ordinal)
    \/ \E parent \in StableNodeId, data \in NodeData, edge \in EdgeData,
          ordinal \in Ordinal : InsertChild(parent, data, edge, ordinal)
    \/ \E node, newParent \in StableNodeId, edge \in EdgeData,
          ordinal \in Ordinal : Reparent(node, newParent, edge, ordinal)
    \/ \E node \in StableNodeId, ordinal \in Ordinal :
          DetachToRoot(node, ordinal)
    \/ \E node \in StableNodeId : EraseSubtree(node)
    \/ \E node \in StableNodeId, data \in NodeData :
          ReplaceNodeData(node, data)
    \/ \E node \in StableNodeId, edge \in EdgeData :
          ReplaceParentEdgeData(node, edge)

Spec == Init /\ [][Next]_vars

-----------------------------------------------------------------------------
(* Properties *)

(* Every field of the class and the last result have their types.          *)
TypeOK ==
    /\ slots \in Seq(NodeRecord \cup {NoRecord})
    /\ slotById \in [Live -> DOMAIN slots]
    /\ Live \subseteq Id
    /\ freeSlots \in Seq(DOMAIN slots)
    /\ roots \in Seq(Id)
    /\ nextId \in StableNodeId
    /\ revision \in 0 .. RevisionMax
    /\ reply.error \in MutationError \cup {"none", "exception"}

(* The index, the slot table and the free list agree whatever was inserted,*)
(* rolled back and erased: an identity leads to its own record, and the    *)
(* free list holds every vacated slot once, so no commit overwrites a live *)
(* record and none leaks.                                                  *)
SlotTableOK ==
    /\ \A n \in Live : Known(n) /\ FindRecord(n).id = n
    /\ \A s \in DOMAIN slots :
          slots[s] # NoRecord =>
              slots[s].id \in Live /\ slotById[slots[s].id] = s
    /\ IsInjective(freeSlots)
    /\ ToSet(freeSlots) = {s \in DOMAIN slots : slots[s] = NoRecord}

(* m_next_id is above every identity in use, whether the slot that held an *)
(* identity was reused or an insertion was rolled back, so that commit's   *)
(* "stable node identity collision" is never thrown.                       *)
NextIdFresh == \A n \in Live : n < nextId

(* Parent links and ordered sequences describe one and the same forest:    *)
(* each node is in the sequence of its parent (of the roots if it has      *)
(* none), once, and in no other; it has a parent edge exactly if it has a  *)
(* parent.  This is also what child_index's assertion needs.               *)
ForestOK ==
    /\ IsInjective(roots)
    /\ ToSet(roots) = {n \in Live : IsRoot(n)}
    /\ \A n \in Live :
          /\ Parent(n) \in Live \cup {InvalidId}
          /\ FindRecord(n).parentEdge = NoEdge <=> IsRoot(n)
          /\ IsInjective(Children(n))
          /\ ToSet(Children(n)) = {m \in Live : Parent(m) = n}

(* Following parents from any node ends: every nonempty set of nodes has   *)
(* one whose parent is outside it.  reparent's cycle check has to see to   *)
(* this for every pair of nodes and every hierarchy built before.          *)
Acyclic ==
    \A S \in SUBSET Live : S # {} => \E n \in S : Parent(n) \notin S

Sequence(place) == IF place = InvalidId THEN roots ELSE Children(place)
Before(place, a, b) ==
    \E i, j \in DOMAIN Sequence(place) :
        i < j /\ Sequence(place)[i] = a /\ Sequence(place)[j] = b

(* MUTABLE.md: an operation preserves the order of every surviving         *)
(* sequence; two siblings trade places only if the call moved one of them. *)
(* The insert-then-erase of reparent and detach_to_root, the rotation of   *)
(* move_within and the rollbacks all touch positions.                      *)
SiblingOrderKept ==
    [][\A p \in (Live \cap Live') \cup {InvalidId}, a, b \in Live :
          Before(p, a, b) /\ Before(p, b, a)' => reply'.value \in {a, b}]_vars

(* Freed identities stay dead: whatever becomes live was never issued      *)
(* before, though its slot may have been used by an erased node.           *)
IdentityNeverReused == [][\A n \in Live' \ Live : n >= nextId /\ n < nextId']_vars

-----------------------------------------------------------------------------
(* The contract of MUTABLE.md *)

(* What a caller can see of the forest, and the identities it was given.   *)
DataOf == [n \in Live |-> FindRecord(n).data]
EdgeOf == [n \in Live |-> FindRecord(n).parentEdge]
KidsOf == [p \in Live \cup {InvalidId} |-> Sequence(p)]
Issued == 0 .. nextId - 1

Contract == INSTANCE OrderedForest WITH
    Top <- InvalidId,
    Append_ <- AppendChild,
    data <- DataOf,
    edge <- EdgeOf,
    order <- KidsOf,
    issued <- Issued

(* Every call does what the contract lets it do, or leaves the forest and  *)
(* the revision alone and reports a reason that is true.                   *)
ImplementsContract == Contract!Spec

=============================================================================
