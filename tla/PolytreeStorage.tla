--------------------------- MODULE PolytreeStorage ---------------------------
(***************************************************************************)
(* The payloads of built polytrees and the PolytreeStorage objects that    *)
(* own them (include/graph/static_polytree.h).  build constructs payloads  *)
(* one by one in a fresh buffer and any construction may throw; what it    *)
(* returns is then moved, assigned and destroyed by its owners.            *)
(*                                                                         *)
(* A payload cell is counted: one for its construction, minus one for its  *)
(* destruction.  Handles, offsets and plan spans have no lifetime and are  *)
(* left out.  One thread: a build is not interleaved with its owners.      *)
(***************************************************************************)
EXTENDS BuiltForests

CONSTANTS
    Payload,    \* a node payload
    MaxNodes,   \* bound on the nodes of a builder
    Object,     \* PolytreeStorage variables, alive or not
    NoObject,   \* a variable before construction or after destruction
    MaxBuffers  \* bound on the buffers alive at one time

ASSUME MaxNodesAssumption == MaxNodes \in Nat
ASSUME MaxBuffersAssumption == MaxBuffers \in Nat

AcyclicBuilders == AcyclicBuildersUpTo(MaxNodes, Payload)

VARIABLES
    heap,     \* for each buffer whether it is allocated, and its cells' lives
    objects,  \* buffer and polytree (the payload spans) of each variable
    job       \* the build that runs: its buffer, input and progress

vars == <<heap, objects, job>>

NoBuffer == 0
Buffer == 1 .. MaxBuffers
Spans == {"nodes", "edges", "parents"}

NoSpans == [s \in Spans |-> 0]
EmptyView == [buffer |-> NoBuffer, spans |-> NoSpans]
EmptyObject == [buffer |-> NoBuffer, view |-> EmptyView]

(* What a variable that lives holds, and that is never NoObject.           *)
StorageObject ==
    [buffer : Buffer \cup {NoBuffer},
     view : [buffer : Buffer \cup {NoBuffer}, spans : [Spans -> Nat]]]

ASSUME NoObjectAssumption == NoObject \notin StorageObject

NoJob == [pc |-> "none", buffer |-> NoBuffer, nodes |-> 0, edges |-> <<>>,
          next |-> 1, made |-> NoSpans, target |-> NoObject]
Building == job.pc # "none"

Init ==
    /\ heap = [b \in Buffer |-> [allocated |-> FALSE,
                                 cells |-> [s \in Spans |-> <<>>]]]
    /\ objects = [o \in Object |-> NoObject]
    /\ job = NoJob

-----------------------------------------------------------------------------
(* destroy_n of the first cells of each span, and delete of a buffer       *)

DestroyCells(cells, spans) ==
    [s \in Spans |-> [i \in DOMAIN cells[s] |->
        IF i <= spans[s] THEN cells[s][i] - 1 ELSE cells[s][i]]]

Freed(h, buffer) ==
    IF buffer = NoBuffer THEN h ELSE [h EXCEPT ![buffer].allocated = FALSE]

DestroyPayloads(object) ==
    IF object.buffer = NoBuffer THEN heap
    ELSE [heap EXCEPT ![object.view.buffer].cells =
             DestroyCells(@, object.view.spans)]

(* destroy_payloads, then the unique_ptr is reset.                         *)
Released(object) == Freed(DestroyPayloads(object), object.buffer)

-----------------------------------------------------------------------------
(* build *)

(* The buffer has room for every cell; nothing is constructed yet.  A      *)
(* build that throws or refuses before has no effect.  target is where the *)
(* result is to be.                                                        *)
BeginBuild(builder, target) ==
    LET count == Len(builder.nodes)
    IN  /\ ~Building /\ objects[target] = NoObject
        /\ \E b \in Buffer :
              /\ ~heap[b].allocated
              /\ heap' = [heap EXCEPT ![b] =
                    [allocated |-> TRUE,
                     cells |-> [nodes |-> [i \in 1 .. count |-> 0],
                                edges |-> [i \in DOMAIN builder.edges |-> 0],
                                parents |-> [i \in 1 .. count |-> 0]]]]
              /\ job' = [NoJob EXCEPT
                    !.pc = "nodes", !.buffer = b, !.nodes = count,
                    !.target = target,
                    !.edges = SortedByParent(builder.edges, count)]
        /\ UNCHANGED objects

Construct(span, i) ==
    heap' = [heap EXCEPT ![job.buffer].cells[span][i] = @ + 1]

ConstructNode ==
    /\ job.pc = "nodes" /\ job.next <= job.nodes
    /\ Construct("nodes", job.next)
    /\ job' = [job EXCEPT !.next = @ + 1, !.made.nodes = @ + 1]
    /\ UNCHANGED objects

(* The offsets are summed and the cursor is allocated.                     *)
StartEdges ==
    /\ job.pc = "nodes" /\ job.next > job.nodes
    /\ job' = [job EXCEPT !.pc = "edges", !.next = 1]
    /\ UNCHANGED <<heap, objects>>

(* An edge payload goes where the cursor of its from points, its count is  *)
(* only a number: the rollback relies on the two keeping step.             *)
ConstructEdge ==
    /\ job.pc = "edges" /\ job.next <= Len(job.edges)
    /\ Construct("edges", CursorPosition(job.edges, job.nodes, job.next))
    /\ job' = [job EXCEPT !.next = @ + 1, !.made.edges = @ + 1]
    /\ UNCHANGED objects

(* The count kept up while the parent edges are assigned.                  *)
MadeParentsLate == 0

MadeParents == job.nodes

(* uninitialized_value_construct_n makes them all, or none if it throws.   *)
ConstructParents ==
    /\ job.pc = "edges" /\ job.next > Len(job.edges)
    /\ heap' = [heap EXCEPT ![job.buffer].cells.parents =
                   [i \in DOMAIN @ |-> @[i] + 1]]
    /\ job' = [job EXCEPT !.pc = "parents", !.next = 1,
                          !.made.parents = MadeParents]
    /\ UNCHANGED objects

AssignParent ==
    /\ job.pc = "parents" /\ job.next <= Len(job.edges)
    /\ job' = [job EXCEPT !.next = @ + 1]
    /\ UNCHANGED <<heap, objects>>

(* The catch block and, as the exception leaves, the unique_ptr.           *)
RollBack ==
    /\ heap' = Freed([heap EXCEPT ![job.buffer].cells =
                         DestroyCells(@, job.made)], job.buffer)
    /\ job' = NoJob
    /\ UNCHANGED objects

(* Whatever the next step of the try block was, it throws.                 *)
BuildThrows ==
    /\ \/ job.pc = "nodes"
       \/ job.pc = "edges"
       \/ job.pc = "parents" /\ job.next <= Len(job.edges)
    /\ RollBack

Returned ==
    [buffer |-> job.buffer,
     view |-> [buffer |-> job.buffer,
               spans |-> [nodes |-> job.nodes, edges |-> Len(job.edges),
                          parents |-> job.nodes]]]

Return ==
    /\ job.pc = "parents" /\ job.next > Len(job.edges)
    /\ objects' = [objects EXCEPT ![job.target] = Returned]
    /\ job' = NoJob
    /\ UNCHANGED heap

-----------------------------------------------------------------------------
(* Constructors, move assignment, destructor *)

DefaultConstruct(o) ==
    /\ ~Building /\ objects[o] = NoObject
    /\ objects' = [objects EXCEPT ![o] = EmptyObject]
    /\ UNCHANGED <<heap, job>>

(* A move constructor that leaves the view of the other object.            *)
MovedFromKeepingView(object) == [object EXCEPT !.buffer = NoBuffer]

MovedFrom(object) ==
    [object EXCEPT !.buffer = NoBuffer, !.view = EmptyView]

MoveConstruct(o, other) ==
    /\ ~Building
    /\ objects[o] = NoObject /\ objects[other] # NoObject
    /\ objects' = [objects EXCEPT ![o] = objects[other],
                                  ![other] = MovedFrom(objects[other])]
    /\ UNCHANGED <<heap, job>>

MoveAssign(o, other) ==
    /\ ~Building
    /\ objects[o] # NoObject /\ objects[other] # NoObject
    /\ \/ o = other /\ UNCHANGED <<heap, objects>>
       \/ /\ o # other
          /\ heap' = Released(objects[o])
          /\ objects' = [objects EXCEPT ![o] = objects[other],
                                        ![other] = MovedFrom(objects[other])]
    /\ UNCHANGED job

Destroy(o) ==
    /\ ~Building /\ objects[o] # NoObject
    /\ heap' = Released(objects[o])
    /\ objects' = [objects EXCEPT ![o] = NoObject]
    /\ UNCHANGED job

-----------------------------------------------------------------------------
Progress ==
    \/ ConstructNode
    \/ StartEdges
    \/ ConstructEdge
    \/ ConstructParents
    \/ AssignParent
    \/ Return

Next ==
    \/ \E b \in AcyclicBuilders, o \in Object : BeginBuild(b, o)
    \/ Progress
    \/ BuildThrows
    \/ \E o \in Object : DefaultConstruct(o) \/ Destroy(o)
    \/ \E o, other \in Object : MoveConstruct(o, other) \/ MoveAssign(o, other)

Spec == Init /\ [][Next]_vars

-----------------------------------------------------------------------------
(* Properties *)

(* No payload is constructed over a live one, destroyed before it was      *)
(* constructed, or destroyed twice: not by a rollback that only knows how  *)
(* many were made, not after any chain of moves.                           *)
LivesOnce ==
    \A b \in Buffer, s \in Spans :
        \A i \in DOMAIN heap[b].cells[s] : heap[b].cells[s][i] \in {0, 1}

(* No buffer is given back with a payload alive in it, whether a build     *)
(* threw, an owner died or was assigned over.                              *)
FreedBuffersEmpty ==
    \A b \in Buffer : ~heap[b].allocated =>
        \A s \in Spans : \A i \in DOMAIN heap[b].cells[s] :
            heap[b].cells[s][i] = 0

(* Every allocated buffer belongs to one object or to the running build,   *)
(* whose target is free, and an object's polytree spans all of its         *)
(* buffer's payloads, each of them alive; the polytree of an object        *)
(* without buffer is empty.                                                *)
Holders(b) == {o \in Object : objects[o] # NoObject /\ objects[o].buffer = b}
Describes(view, b) ==
    /\ view.buffer = b
    /\ \A s \in Spans :
          /\ Len(heap[b].cells[s]) = view.spans[s]
          /\ \A i \in 1 .. view.spans[s] : heap[b].cells[s][i] = 1
OwnersMatchBuffers ==
    /\ Building => job.buffer \in Buffer /\ objects[job.target] = NoObject
    /\ \A b \in Buffer :
          Cardinality(Holders(b)) + (IF job.buffer = b THEN 1 ELSE 0)
              = (IF heap[b].allocated THEN 1 ELSE 0)
    /\ \A o \in Object : objects[o] # NoObject =>
          IF objects[o].buffer = NoBuffer THEN objects[o].view = EmptyView
          ELSE Describes(objects[o].view, objects[o].buffer)

=============================================================================
