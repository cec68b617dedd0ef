---------------------------- MODULE BuiltForests ----------------------------
(***************************************************************************)
(* The builders a caller can hand to build(), by the calls that make them, *)
(* and the topologies build makes of them: what the storage, the           *)
(* traversals and the ancestor closure are given to work on.               *)
(***************************************************************************)
EXTENDS StaticBuild

NodesAdded(n, payload) ==
    LET added[i \in 0 .. n] ==
          IF i = 0 THEN EmptyBuilder ELSE WithNode(added[i - 1], payload)
    IN  added[n]

OneMoreEdge(b) ==
    {WithEdge(b, link[1], link[2], DefaultEdge) :
        link \in {l \in HandlesOf(b.nodes) \X HandlesOf(b.nodes) :
                     AcceptsEdge(b, l[1], l[2])}}

(* n nodes, and up to that many edges in every order add_edge takes them.  *)
EdgesAdded(n, payload) ==
    LET added[k \in 0 .. n] ==
          IF k = 0 THEN {NodesAdded(n, payload)}
          ELSE added[k - 1] \cup UNION {OneMoreEdge(b) : b \in added[k - 1]}
    IN  added[n]

BuildersUpTo(maxNodes, payload) ==
    UNION {EdgesAdded(n, payload) : n \in 0 .. maxNodes}
AcyclicBuildersUpTo(maxNodes, payload) ==
    {b \in BuildersUpTo(maxNodes, payload) : Build(b).status = "built"}
TopologiesUpTo(maxNodes, payload) ==
    {Build(b).topology : b \in AcyclicBuildersUpTo(maxNodes, payload)}

=============================================================================
