--------------------------- MODULE OrderedForest ---------------------------
(***************************************************************************)
(* What MutablePolytree promises its callers: the contract table of        *)
(* MUTABLE.md and the comments and names of the public interface, without  *)
(* slots, indices, worklists or rollbacks.                                 *)
(*                                                                         *)
(* A forest is three functions: the payload of every node, the edge above  *)
(* it, and the ordered sequence below every node, where Top stands for the *)
(* place above the roots.  A call names what it was given, and is refused  *)
(* for a reason that is true of its arguments, lets an exception out with  *)
(* nothing changed, or takes effect as a whole.                            *)
(***************************************************************************)
EXTENDS Integers, FiniteSets, SequencesExt

CONSTANTS
    Id,           \* identities that can be issued
    Top,          \* the place above the roots; never an identity
    NodeData, EdgeData,
    NoEdge,       \* the edge above a root
    Append_,      \* the ordinal that means last
    RevisionMax   \* the last revision

VARIABLES
    data, edge, order,
    issued,       \* identities handed out so far
    revision, call, reply

forest == <<data, edge, order, issued>>
vars == <<data, edge, order, issued, revision, call, reply>>

Ordinal == 0 .. Append_
Node == DOMAIN data
Place == Node \cup {Top}

Below(n) == ToSet(order[n])

(* The smallest set that holds n and, with a node, the nodes below it.     *)
Subtree(n) ==
    {m \in Node : \A S \in SUBSET Node :
        n \in S /\ (\A x \in S : Below(x) \subseteq S) => m \in S}

(* seq without n, which it holds once or not at all.                       *)
Without(seq, n) ==
    IF n \in ToSet(seq)
    THEN RemoveAt(seq, CHOOSE i \in DOMAIN seq : seq[i] = n)
    ELSE seq

(* seq with n at ordinal o among the others.                               *)
Fits(seq, n, o) == o = Append_ \/ o <= Len(Without(seq, n))
Inserted(seq, n, o) ==
    LET others == Without(seq, n)
    IN  InsertAt(others, (IF o = Append_ THEN Len(others) ELSE o) + 1, n)

(* The forest's order once n is at ordinal o below p and nowhere else.     *)
OrderWith(n, p, o) ==
    [q \in Place \cup {n} |->
        IF q = p THEN Inserted(order[q], n, o)
        ELSE IF q \in Place THEN Without(order[q], n)
        ELSE <<>>]

-----------------------------------------------------------------------------
Reply(value) ==
    /\ reply' = [error |-> "none", value |-> value]
    /\ revision' = revision + 1

(* A call with true objections reports one of them; an exception may       *)
(* escape any call.                                                        *)
Refuse(objections) ==
    /\ \E e \in objections \cup {"exception"} : reply' = [error |-> e]
    /\ UNCHANGED <<forest, revision>>

Objection(condition, error) == IF condition THEN {error} ELSE {}
Exhausted == Objection(revision = RevisionMax, "revision_exhausted")

(* A new node at ordinal o below p, which has to be one of places.         *)
InsertObjections(places, p, o) ==
    Exhausted
    \cup Objection(Id \subseteq issued, "id_exhausted")
    \cup (IF p \in places
          THEN Objection(~Fits(order[p], Top, o), "invalid_ordinal")
          ELSE {"invalid_parent"})

Insert(places, p, d, e, o) ==
    \/ Refuse(InsertObjections(places, p, o))
    \/ /\ InsertObjections(places, p, o) = {}
       /\ \E n \in Id \ issued :
            /\ data' = [m \in Node \cup {n} |-> IF m = n THEN d ELSE data[m]]
            /\ edge' = [m \in Node \cup {n} |-> IF m = n THEN e ELSE edge[m]]
            /\ order' = OrderWith(n, p, o)
            /\ issued' = issued \cup {n}
            /\ Reply(n)

(* Reparenting and detaching: n leaves its place for ordinal o below p.    *)
MoveObjections(places, n, p, o) ==
    Exhausted
    \cup Objection(n \notin Node, "invalid_node")
    \cup Objection(p \notin places, "invalid_parent")
    \cup (IF n \in Node /\ p \in places
          THEN Objection(p \in Subtree(n), "cycle")
               \cup Objection(~Fits(order[p], n, o), "invalid_ordinal")
          ELSE {})

Move(places, n, p, e, o) ==
    \/ Refuse(MoveObjections(places, n, p, o))
    \/ /\ MoveObjections(places, n, p, o) = {}
       /\ order' = OrderWith(n, p, o)
       /\ edge' = [edge EXCEPT ![n] = e]
       /\ Reply(n)
       /\ UNCHANGED <<data, issued>>

NodeObjections(n) == Exhausted \cup Objection(n \notin Node, "invalid_node")

Erase(n) ==
    LET kept == Node \ Subtree(n)
    IN  \/ Refuse(NodeObjections(n))
        \/ /\ NodeObjections(n) = {}
           /\ data' = [m \in kept |-> data[m]]
           /\ edge' = [m \in kept |-> edge[m]]
           /\ order' = [p \in kept \cup {Top} |-> Without(order[p], n)]
           /\ Reply(Cardinality(Subtree(n)))
           /\ UNCHANGED issued

SetData(n, d) ==
    \/ Refuse(NodeObjections(n))
    \/ /\ NodeObjections(n) = {}
       /\ data' = [data EXCEPT ![n] = d]
       /\ Reply(n)
       /\ UNCHANGED <<edge, order, issued>>

EdgeObjections(n) ==
    NodeObjections(n)
    \cup Objection(n \in ToSet(order[Top]), "invalid_parent")

SetEdge(n, e) ==
    \/ Refuse(EdgeObjections(n))
    \/ /\ EdgeObjections(n) = {}
       /\ edge' = [edge EXCEPT ![n] = e]
       /\ Reply(n)
       /\ UNCHANGED <<data, order, issued>>

-----------------------------------------------------------------------------
Init ==
    /\ data = <<>>
    /\ edge = <<>>
    /\ order = [p \in {Top} |-> <<>>]
    /\ issued = {}
    /\ revision = 0
    /\ call = <<"construct">>
    /\ reply = [error |-> "none"]

Next ==
    \/ \E d \in NodeData, o \in Ordinal :
          /\ call' = <<"insert_root", d, o>>
          /\ Insert({Top}, Top, d, NoEdge, o)
    \/ \E p \in Id \cup {Top}, d \in NodeData, e \in EdgeData, o \in Ordinal :
          /\ call' = <<"insert_child", p, d, e, o>>
          /\ Insert(Node, p, d, e, o)
    \/ \E n, p \in Id \cup {Top}, e \in EdgeData, o \in Ordinal :
          /\ call' = <<"reparent", n, p, e, o>>
          /\ Move(Node, n, p, e, o)
    \/ \E n \in Id \cup {Top}, o \in Ordinal :
          /\ call' = <<"detach_to_root", n, o>>
          /\ Move({Top}, n, Top, NoEdge, o)
    \/ \E n \in Id \cup {Top} : call' = <<"erase_subtree", n>> /\ Erase(n)
    \/ \E n \in Id \cup {Top}, d \in NodeData :
          /\ call' = <<"replace_node_data", n, d>>
          /\ SetData(n, d)
    \/ \E n \in Id \cup {Top}, e \in EdgeData :
          /\ call' = <<"replace_parent_edge_data", n, e>>
          /\ SetEdge(n, e)

Spec == Init /\ [][Next]_vars

=============================================================================
