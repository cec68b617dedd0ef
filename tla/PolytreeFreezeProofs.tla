------------------------ MODULE PolytreeFreezeProofs ------------------------
(***************************************************************************)
(* What freeze promises of every tree, however it was edited and whatever  *)
(* an earlier or interrupted freeze left in the workspace:                 *)
(*                                                                         *)
(*   - validate accepts it, up to the number of nodes handles can name;    *)
(*   - the freeze then succeeds, and its handles run in preorder;          *)
(*   - the snapshot has the tree's parents, child order and payloads;      *)
(*   - freezing again gives the same snapshot until the tree's revision    *)
(*     moves.                                                              *)
(*                                                                         *)
(* The walk is followed by an invariant on its stack; the builder it fills *)
(* has a closed form (a layout) from which build's vectors are read off.   *)
(***************************************************************************)
EXTENDS PolytreeFreeze, MutablePolytreeProofs, BuildLemmas

(* What freeze reads of the tree has not changed.                          *)
SameForest ==
    /\ NodeCount' = NodeCount
    /\ roots' = roots
    /\ \A n : /\ Children(n)' = Children(n)
              /\ FindRecord(n).data' = FindRecord(n).data
              /\ FindRecord(n).parentEdge' = FindRecord(n).parentEdge

(* The walk over an unchanged tree arrives at the same order.              *)
LEMMA WalkRepeats ==
  ASSUME SameForest, NEW w
  PROVE  Walked(w)' = Walked(w)
<1> DEFINE Popped(before, kids) ==
              [order |-> Append(before.order, Last(before.stack)),
               stack |-> Front(before.stack) \o Reverse(kids),
               denseById |-> before.denseById]
           Body(r, i, first, kids) ==
              IF i = 0 THEN [w EXCEPT !.stack = @ \o Reverse(first)]
              ELSE IF r[i - 1].stack = <<>> THEN r[i - 1]
              ELSE Popped(r[i - 1], kids)
<1>1. Walked(w) =
         (CHOOSE r : r = [i \in 0 .. NodeCount |->
             Body(r, i, roots, Children(Last(r[i - 1].stack)))])[NodeCount]
  BY DEF Walked
<1>2. Walked(w)' =
         (CHOOSE r : r = [i \in 0 .. NodeCount' |->
             Body(r, i, roots', Children(Last(r[i - 1].stack))')])[NodeCount']
  BY DEF Walked
<1> HIDE DEF Body
<1>3. \A n : Children(n)' = Children(n)
  BY DEF SameForest
<1>4. \A r, i : Children(Last(r[i - 1].stack))' = Children(Last(r[i - 1].stack))
  BY <1>3, Zenon
<1>5. \A r : [i \in 0 .. NodeCount |->
             Body(r, i, roots', Children(Last(r[i - 1].stack))')]
           = [i \in 0 .. NodeCount |->
             Body(r, i, roots, Children(Last(r[i - 1].stack)))]
  BY <1>4 DEF SameForest
<1>6. NodeCount' = NodeCount
  BY DEF SameForest
<1> QED BY <1>1, <1>2, <1>5, <1>6, Zenon

(* So does the workspace, whatever it held before: prepare empties it.     *)
LEMMA WorkRepeats ==
  ASSUME SameForest
  PROVE  Worked' = Worked
<1>1. Prepared(workspace)' = Prepared(workspace)
  BY DEF Prepared
<1> DEFINE empty == [order |-> <<>>, stack |-> <<>>, denseById |-> <<>>]
           w == Walked(empty)
<1>2. Prepared(workspace) = empty
  BY DEF Prepared
<1>3. Worked = Indexed(w, Len(w.order))
  BY <1>2 DEF Worked
<1>4. Worked' = Indexed(w', Len((w').order))
  BY <1>1, <1>2 DEF Worked
<1>5. w' = w
  BY WalkRepeats
<1> QED BY <1>3, <1>4, <1>5

(* add_node gets the same payloads.                                        *)
LEMMA NodesRepeat ==
  ASSUME SameForest, NEW order
  PROVE  WithNodes(order)' = WithNodes(order)
<1>1. \A i : FindRecord(order[i]).data' = FindRecord(order[i]).data
  BY DEF SameForest
<1> DEFINE Body(r, i, data) ==
              IF i = 0 THEN EmptyBuilder ELSE WithNode(r[i - 1], data)
<1>2. WithNodes(order) =
         (CHOOSE r : r = [i \in 0 .. Len(order) |->
             Body(r, i, FindRecord(order[i]).data)])[Len(order)]
  BY DEF WithNodes
<1>3. WithNodes(order)' =
         (CHOOSE r : r = [i \in 0 .. Len(order) |->
             Body(r, i, FindRecord(order[i]).data')])[Len(order)]
  BY DEF WithNodes
<1> HIDE DEF Body
<1>4. \A r : [i \in 0 .. Len(order) |-> Body(r, i, FindRecord(order[i]).data')]
           = [i \in 0 .. Len(order) |-> Body(r, i, FindRecord(order[i]).data)]
  BY <1>1
<1> QED BY <1>2, <1>3, <1>4, Zenon

(* add_edge gets the same edges from each row.                             *)
LEMMA RowRepeats ==
  ASSUME SameForest, NEW filling, NEW w, NEW from
  PROVE  RowLinked(filling, w, from)' = RowLinked(filling, w, from)
<1> DEFINE kids == Children(At(w.order, from))
           Body(r, j, k, f) ==
              IF j = 0 THEN filling
              ELSE [builder |-> IF AcceptsEdge(r[j - 1].builder, AsHandle(from),
                                               w.denseById[k[j]])
                                THEN WithEdge(r[j - 1].builder, AsHandle(from),
                                              w.denseById[k[j]], f)
                                ELSE r[j - 1].builder,
                    edgesValid |->
                        AcceptsEdge(r[j - 1].builder, AsHandle(from),
                                    w.denseById[k[j]])
                        /\ r[j - 1].edgesValid]
<1>1. RowLinked(filling, w, from) =
         (CHOOSE r : r = [j \in 0 .. Len(kids) |->
             Body(r, j, kids, FindRecord(kids[j]).parentEdge)])[Len(kids)]
  BY DEF RowLinked, Linked
<1>2. RowLinked(filling, w, from)' =
         (CHOOSE r : r = [j \in 0 .. Len(kids') |->
             Body(r, j, kids', (FindRecord(kids[j]).parentEdge)')])[Len(kids')]
  BY DEF RowLinked, Linked
<1>3. PICK k : k = kids
  OBVIOUS
<1>4. kids' = k
  BY <1>3 DEF SameForest
<1> HIDE DEF Body, kids
<1>5. \A j : FindRecord(k[j]).parentEdge' = FindRecord(k[j]).parentEdge
  BY DEF SameForest
<1>6. \A r : [j \in 0 .. Len(k) |->
                 Body(r, j, k, (FindRecord(kids[j]).parentEdge)')]
           = [j \in 0 .. Len(k) |->
                 Body(r, j, k, FindRecord(kids[j]).parentEdge)]
  BY <1>3, <1>4, <1>5
<1>7. RowLinked(filling, w, from) =
         (CHOOSE r : r = [j \in 0 .. Len(k) |->
             Body(r, j, k, FindRecord(kids[j]).parentEdge)])[Len(k)]
  BY <1>1, <1>3
<1>8. RowLinked(filling, w, from)' =
         (CHOOSE r : r = [j \in 0 .. Len(k) |->
             Body(r, j, k, (FindRecord(kids[j]).parentEdge)')])[Len(k)]
  BY <1>2, <1>4
<1> QED BY <1>6, <1>7, <1>8

(* The builder is filled alike.                                            *)
LEMMA FillRepeats ==
  ASSUME SameForest, NEW w
  PROVE  Filled(w)' = Filled(w)
<1> DEFINE Body(r, i, nodes, row) ==
              IF i = 0 THEN [builder |-> nodes, edgesValid |-> TRUE] ELSE row
<1>1. Filled(w) =
         (CHOOSE r : r = [i \in 0 .. Len(w.order) |->
             Body(r, i, WithNodes(w.order), RowLinked(r[i - 1], w, i - 1))])
         [Len(w.order)]
  BY DEF Filled
<1>2. Filled(w)' =
         (CHOOSE r : r = [i \in 0 .. Len(w.order) |->
             Body(r, i, WithNodes(w.order)', RowLinked(r[i - 1], w, i - 1)')])
         [Len(w.order)]
  BY DEF Filled
<1> HIDE DEF Body
<1>3. /\ WithNodes(w.order)' = WithNodes(w.order)
      /\ \A r, i : RowLinked(r[i - 1], w, i - 1)' = RowLinked(r[i - 1], w, i - 1)
  BY NodesRepeat, RowRepeats
<1>4. \A r : [i \in 0 .. Len(w.order) |->
             Body(r, i, WithNodes(w.order)', RowLinked(r[i - 1], w, i - 1)')]
           = [i \in 0 .. Len(w.order) |->
             Body(r, i, WithNodes(w.order), RowLinked(r[i - 1], w, i - 1))]
  BY <1>3
<1> QED BY <1>1, <1>2, <1>4, Zenon

(* A freeze of an unchanged tree ends alike.                               *)
LEMMA OutcomeRepeats ==
  ASSUME SameForest, revision' = revision, Validate' = Validate
  PROVE  Outcome' = Outcome
<1> DEFINE O(v, w, f, r) ==
       LET failure == FreezeFailure(v.error)
           static == Build(f.builder)
       IN  IF failure # "none" THEN [status |-> failure]
           ELSE IF ~f.edgesValid \/ static.status = "nullopt"
           THEN [status |-> "static_build_failed"]
           ELSE IF static.status = "undefined" THEN static
           ELSE [status |-> "frozen",
                 topology |-> static.topology,
                 identities |->
                     [runtimeToAuthoring |-> w.order,
                      authoringToRuntime |-> AuthoringToRuntime(w.order),
                      sourceRevision |-> r]]
<1>1. Outcome = O(Validate, Worked, Filled(Worked), revision)
  BY DEF Outcome
<1> DEFINE w == Worked
<1>2. Outcome' = O(Validate', w', Filled(w)', revision')
  BY DEF Outcome
<1> HIDE DEF O
<1>3. w' = w
  BY WorkRepeats
<1>4. Filled(w)' = Filled(w)
  BY <1>3, FillRepeats
<1> QED BY <1>1, <1>2, <1>3, <1>4

-----------------------------------------------------------------------------
(* validate *)

(* A scan over roots or children without a fault accepts.                  *)
LEMMA NoRootAtFault ==
  ASSUME NEW seq, \A i \in 1 .. Len(seq) : RootFault(seq[i]) = "none"
  PROVE  FirstFault(seq, RootFault) = Accepted
BY DEF FirstFault, SelectInSeq

(* The tree validate looks at.                                             *)
LEMMA ForestShape ==
  ASSUME Inv
  PROVE  /\ Live \subseteq Id /\ InvalidId \notin Live
         /\ IsFiniteSet(Live) /\ NodeCount \in Nat
         /\ ParentOf \in [Live -> Live \cup {InvalidId}]
         /\ \A S \in SUBSET Live : S # {} => \E n \in S : ParentOf[n] \notin S
         /\ roots \in Seq(Live) /\ IsInjective(roots)
         /\ ToSet(roots) = {m \in Live : ParentOf[m] = InvalidId}
         /\ \A n \in Live :
               /\ Children(n) \in Seq(Live) /\ IsInjective(Children(n))
               /\ ToSet(Children(n)) = {m \in Live : ParentOf[m] = n}
               /\ Parent(n) = ParentOf[n]
               /\ IsRoot(n) <=> ParentOf[n] = InvalidId
               /\ FindRecord(n).data \in NodeData
               /\ ParentOf[n] # InvalidId => FindRecord(n).parentEdge \in EdgeData
               /\ ParentOf[n] = InvalidId <=> FindRecord(n).parentEdge = NoEdge
         /\ \A n : Known(n) <=> n \in Live
<1>1. /\ WalkableTree /\ Live \subseteq Id /\ InvalidId \notin Live
      /\ \A n \in Live :
               /\ FindRecord(n) \in NodeRecord
               /\ ParentOf[n] = Parent(n) /\ KidsOf[n] = Children(n)
               /\ FindRecord(n).parentEdge = NoEdge <=> Parent(n) = InvalidId
      /\ \A n : Known(n) <=> n \in Live
      /\ KidsOf[InvalidId] = roots
  BY InvParts, InvalidIsNoId
<1>2. IsFiniteSet(Live) /\ NodeCount \in Nat
  BY <1>1, NodeCountIsNatural
<1>3. IsForest(Live, ParentOf, KidsOf)
  BY <1>1 DEF WalkableTree
<1>4. ASSUME NEW p \in Live \cup {InvalidId}
      PROVE  /\ KidsOf[p] \in Seq(Live) /\ IsInjective(KidsOf[p])
             /\ ToSet(KidsOf[p]) = {m \in Live : ParentOf[m] = p}
  <2>1. /\ KidsOf[p] \in Seq(Id) /\ IsInjective(KidsOf[p])
        /\ ToSet(KidsOf[p]) = {m \in Live : ParentOf[m] = p}
    BY <1>3 DEF IsForest
  <2>2. \A i \in 1 .. Len(KidsOf[p]) : KidsOf[p][i] \in ToSet(KidsOf[p])
    BY <2>1, LenProperties DEF ToSet
  <2>3. KidsOf[p] \in [1 .. Len(KidsOf[p]) -> Live] /\ Len(KidsOf[p]) \in Nat
    BY <2>1, <2>2, LenProperties
  <2>4. KidsOf[p] \in Seq(Live)
    BY <2>3, SeqDef
  <2> QED BY <2>1, <2>4
<1>5. ASSUME NEW n \in Live
      PROVE  /\ FindRecord(n).data \in NodeData
             /\ FindRecord(n).parentEdge \in EdgeData \cup {NoEdge}
  BY <1>1 DEF NodeRecord
<1>6. \A n \in Live : IsRoot(n) <=> ParentOf[n] = InvalidId
  BY <1>1 DEF IsRoot
<1>7. /\ ParentOf \in [Live -> Live \cup {InvalidId}]
      /\ \A S \in SUBSET Live : S # {} => \E n \in S : ParentOf[n] \notin S
  BY <1>3 DEF IsForest
<1> QED BY <1>1, <1>2, <1>4, <1>5, <1>6, <1>7

(* A set that holds the roots and, with a node, its children holds all.    *)
LEMMA RootsReachAll ==
  ASSUME Inv, NEW V \in SUBSET Live,
         \A m \in Live : ParentOf[m] \in V \cup {InvalidId} => m \in V
  PROVE  V = Live
<1>1. SUFFICES ASSUME Live \ V # {} PROVE FALSE
  OBVIOUS
<1>2. PICK n \in Live \ V : ParentOf[n] \notin Live \ V
  BY <1>1, ForestShape
<1>3. ParentOf[n] \in V \cup {InvalidId}
  BY <1>2, ForestShape
<1> QED BY <1>2, <1>3

(* The worklist of validate between its rounds: distinct nodes, those ahead *)
(* of the cursor visited, and on it just the roots and the children of      *)
(* visited nodes.                                                           *)
VisitStates ==
    {s \in [pending : Seq(Live), cursor : Nat, visited : SUBSET Live,
            result : {Accepted}] :
        /\ IsInjective(s.pending)
        /\ s.cursor \in 1 .. Len(s.pending) + 1
        /\ s.visited = {s.pending[k] : k \in 1 .. s.cursor - 1}
        /\ \A m \in Live : m \in ToSet(s.pending)
                              <=> ParentOf[m] \in s.visited \cup {InvalidId}}

(* validate has put the roots on its worklist.                             *)
VisitStart ==
    [pending |-> roots, cursor |-> 1, visited |-> {}, result |-> Accepted]

(* The worklist starts with the roots.                                     *)
LEMMA VisitStarts ==
  ASSUME Inv
  PROVE  VisitStart \in VisitStates
<1>1. /\ roots \in Seq(Live) /\ IsInjective(roots) /\ Len(roots) \in Nat
      /\ ToSet(roots) = {m \in Live : ParentOf[m] = InvalidId}
  BY ForestShape, LenProperties
<1>2. /\ VisitStart.pending = roots /\ VisitStart.cursor = 1
      /\ VisitStart.visited = {} /\ VisitStart.result = Accepted
      /\ VisitStart \in [pending : Seq(Live), cursor : Nat,
                         visited : SUBSET Live, result : {Accepted}]
  BY <1>1 DEF VisitStart
<1>3. 1 .. 1 - 1 = {} /\ 1 \in 1 .. Len(roots) + 1
  BY <1>1
<1> QED BY <1>1, <1>2, <1>3 DEF VisitStates

(* A round visits the next node of the worklist and finds no fault in it.  *)
LEMMA VisitRoundKeeps ==
  ASSUME Inv, NEW s \in VisitStates, s.cursor <= Len(s.pending)
  PROVE  /\ VisitRound(s) \in VisitStates
         /\ VisitRound(s).cursor = s.cursor + 1
<1> DEFINE n == s.pending[s.cursor]
           c == Children(n)
           b == s.pending
           d == b \o c
           t == [pending |-> d, cursor |-> s.cursor + 1,
                 visited |-> s.visited \cup {n}, result |-> Accepted]
<1>1. /\ b \in Seq(Live) /\ IsInjective(b) /\ Len(b) \in Nat
      /\ s.cursor \in 1 .. Len(b)
      /\ s.visited \in SUBSET Live
      /\ s.visited = {b[k] : k \in 1 .. s.cursor - 1}
      /\ \A m \in Live : m \in ToSet(b)
                            <=> ParentOf[m] \in s.visited \cup {InvalidId}
      /\ DOMAIN b = 1 .. Len(b)
  BY LenProperties DEF VisitStates
<1>2. n \in Live /\ n # InvalidId /\ n \in ToSet(b)
  <2>1. n \in Live
    BY <1>1, ElementOfSeq
  <2>2. n \in ToSet(b)
    BY <1>1 DEF ToSet
  <2> QED BY <2>1, <2>2, ForestShape
<1>3. n \notin s.visited
  <2>1. SUFFICES ASSUME NEW k \in 1 .. s.cursor - 1, b[k] = n PROVE FALSE
    BY <1>1
  <2>2. k \in DOMAIN b /\ s.cursor \in DOMAIN b /\ k # s.cursor
    BY <1>1, <2>1
  <2> QED BY <1>1, <2>1, <2>2 DEF IsInjective
<1>4. /\ c \in Seq(Live) /\ IsInjective(c) /\ Len(c) \in Nat
      /\ DOMAIN c = 1 .. Len(c)
      /\ ToSet(c) = {m \in Live : ParentOf[m] = n}
  BY <1>2, ForestShape, LenProperties
<1>5. FirstFault(c, LAMBDA x : ChildFault(n, x)) = Accepted
  <2>1. ASSUME NEW i \in 1 .. Len(c) PROVE ChildFault(n, c[i]) = "none"
    <3>1. c[i] \in Live /\ ParentOf[c[i]] = n
      BY <1>4 DEF ToSet
    <3>2. /\ Known(c[i]) /\ Parent(c[i]) = n
          /\ FindRecord(c[i]).parentEdge # NoEdge
      BY <1>2, <3>1, ForestShape
    <3> QED BY <3>2 DEF ChildFault
  <2> HIDE DEF c, n
  <2> QED BY <2>1 DEF FirstFault, SelectInSeq
<1>6. VisitRound(s) = t
  BY <1>3, <1>5 DEF VisitRound
<1> HIDE DEF n, c, d
<1>7. ToSet(b) \cap ToSet(c) = {}
  BY <1>1, <1>2, <1>3, <1>4
<1>8. d \in Seq(Live) /\ IsInjective(d) /\ ToSet(d) = ToSet(b) \cup ToSet(c)
      /\ Len(d) = Len(b) + Len(c)
      /\ \A k \in 1 .. Len(b) : d[k] = b[k]
  BY <1>1, <1>4, <1>7, ConcatMembers, ConcatProperties DEF d
<1>9. t \in [pending : Seq(Live), cursor : Nat, visited : SUBSET Live,
            result : {Accepted}]
  BY <1>1, <1>2, <1>8
<1>10. t.cursor \in 1 .. Len(t.pending) + 1
  BY <1>1, <1>4, <1>8
<1>11. t.visited = {d[k] : k \in 1 .. s.cursor}
  <2>1. \A k \in 1 .. s.cursor : d[k] = b[k]
    BY <1>1, <1>8
  <2>2. s.visited \cup {n} = {b[k] : k \in 1 .. s.cursor}
    BY <1>1 DEF n
  <2> QED BY <2>1, <2>2
<1>12. \A m \in Live : m \in ToSet(d)
                         <=> ParentOf[m] \in (s.visited \cup {n}) \cup {InvalidId}
  BY <1>1, <1>4, <1>8
<1>13. (s.cursor + 1) - 1 = s.cursor
  BY <1>1
<1>14. /\ t.pending = d /\ t.cursor = s.cursor + 1
       /\ t.visited = s.visited \cup {n}
  OBVIOUS
<1> HIDE DEF t
<1>15. t \in VisitStates
  BY <1>8, <1>9, <1>10, <1>11, <1>12, <1>13, <1>14 DEF VisitStates
<1> QED BY <1>6, <1>14, <1>15

(* Within one round more than there are nodes the worklist is exhausted,   *)
(* with nothing at fault and every node visited.                           *)
LEMMA VisitSeesAll ==
  ASSUME Inv
  PROVE  Visit.result = Accepted /\ Visit.visited = Live
<1> DEFINE V == VisitStates
           n == NodeCount + 1
           Body(w, i) ==
              IF i = 0 THEN VisitStart
              ELSE IF w[i - 1].result = Accepted
                      /\ w[i - 1].cursor <= Len(w[i - 1].pending)
              THEN VisitRound(w[i - 1]) ELSE w[i - 1]
           run == CHOOSE w : w = [i \in 0 .. n |-> Body(w, i)]
           step == [x \in (1 .. n) \X V |->
                      IF x[2].result = Accepted
                         /\ x[2].cursor <= Len(x[2].pending)
                      THEN VisitRound(x[2]) ELSE x[2]]
<1>1. Visit = run[n]
  BY DEF Visit, VisitStart
<1>2. NodeCount \in Nat /\ n \in Nat
  BY ForestShape
<1>3. VisitStart \in V
  BY VisitStarts
<1>4. \A v \in V : v.cursor <= Len(v.pending) =>
         VisitRound(v) \in V /\ VisitRound(v).cursor = v.cursor + 1
  BY VisitRoundKeeps
<1>5. \A v \in V : v.result = Accepted /\ v.cursor \in 1 .. Len(v.pending) + 1
                   /\ Len(v.pending) \in Nat
  BY LenProperties DEF VisitStates
<1> HIDE DEF V, n
<1>6. \E w : w = [i \in 0 .. n |-> Body(w, i)]
  <2>1. step \in [(1 .. n) \X V -> V]
    BY <1>4
  <2>2. \A i \in 1 .. n, v \in V : step[<<i, v>>] =
           IF v.result = Accepted /\ v.cursor <= Len(v.pending)
           THEN VisitRound(v) ELSE v
    OBVIOUS
  <2> HIDE DEF step
  <2>3. PICK f \in [0 .. n -> V] : Iterates(n, VisitStart, step, f)
    BY <1>2, <1>3, <2>1, IterationExists
  <2>4. ASSUME NEW i \in 0 .. n PROVE f[i] = Body(f, i)
    <3>1. CASE i = 0
      BY <2>3, <3>1 DEF Iterates
    <3>2. CASE i # 0
      <4>1. i \in 1 .. n /\ f[i - 1] \in V
        BY <1>2, <3>2
      <4>2. f[i] = step[<<i, f[i - 1]>>]
        BY <2>3, <4>1 DEF Iterates
      <4> QED BY <2>2, <3>2, <4>1, <4>2
    <3> QED BY <3>1, <3>2
  <2>5. f = [i \in 0 .. n |-> Body(f, i)]
    <3> HIDE DEF Body
    <3> QED BY <2>3, <2>4
  <2> QED BY <2>5
<1>7. run = [i \in 0 .. n |-> Body(run, i)]
  BY <1>6
<1> HIDE DEF run
<1>8. \A i \in 0 .. n : run[i] = Body(run, i)
  <2> HIDE DEF Body
  <2> QED BY <1>7, Zenon
<1> DEFINE T == {i \in 0 .. n : /\ run[i] \in V
                                /\ \/ run[i].cursor = i + 1
                                   \/ run[i].cursor = Len(run[i].pending) + 1}
<1>9. 0 \in T
  <2>1. 0 \in 0 .. n
    BY <1>2
  <2>2. run[0] = VisitStart
    BY <1>8, <2>1
  <2>3. VisitStart.cursor = 0 + 1
    BY DEF VisitStart
  <2> QED BY <1>3, <2>1, <2>2, <2>3
<1>10. ASSUME NEW i \in 1 .. n, i - 1 \in T PROVE i \in T
  <2> DEFINE s == run[i - 1]
  <2>1. /\ run[i] = IF s.result = Accepted /\ s.cursor <= Len(s.pending)
                    THEN VisitRound(s) ELSE s
        /\ i \in 0 .. n
    BY <1>2, <1>8
  <2>2. /\ s \in V
        /\ s.cursor = (i - 1) + 1 \/ s.cursor = Len(s.pending) + 1
    BY <1>10
  <2> HIDE DEF s
  <2>3. /\ s.result = Accepted /\ Len(s.pending) \in Nat
        /\ s.cursor \in 1 .. Len(s.pending) + 1
    BY <1>5, <2>2
  <2>4. CASE s.cursor <= Len(s.pending)
    <3>1. run[i] \in V /\ run[i].cursor = s.cursor + 1
      BY <1>4, <2>1, <2>2, <2>3, <2>4
    <3>2. s.cursor = i
      BY <1>2, <2>2, <2>3, <2>4
    <3> QED BY <2>1, <3>1, <3>2
  <2>5. CASE ~ (s.cursor <= Len(s.pending))
    <3>1. run[i] = s /\ s.cursor = Len(s.pending) + 1
      BY <2>1, <2>3, <2>5
    <3> QED BY <2>1, <2>2, <3>1
  <2> QED BY <2>4, <2>5
<1>11. n \in T
  <2> HIDE DEF T, step, Body
  <2>1. \A i \in 1 .. n : i - 1 \in T => i \in T
    BY <1>10
  <2>2. \A i \in 0 .. n : i \in T
    BY <1>2, <1>9, <2>1, RoundInduction
  <2> QED BY <1>2, <2>2
<1> DEFINE s == run[n]
<1>12. /\ s \in V
       /\ s.cursor = n + 1 \/ s.cursor = Len(s.pending) + 1
  BY <1>11
<1> HIDE DEF s, T, step, Body
<1>13. /\ s.pending \in Seq(Live) /\ IsInjective(s.pending)
       /\ Len(s.pending) \in Nat /\ DOMAIN s.pending = 1 .. Len(s.pending)
       /\ s.cursor \in 1 .. Len(s.pending) + 1
       /\ s.visited \in SUBSET Live
       /\ s.visited = {s.pending[k] : k \in 1 .. s.cursor - 1}
       /\ s.result = Accepted
       /\ \A m \in Live : m \in ToSet(s.pending)
                             <=> ParentOf[m] \in s.visited \cup {InvalidId}
  BY <1>12, LenProperties DEF V, VisitStates
<1>14. Len(s.pending) <= NodeCount
  BY <1>13, ForestShape, InjectiveLength DEF NodeCount
<1>15. s.cursor - 1 = Len(s.pending)
  BY <1>2, <1>12, <1>13, <1>14 DEF n
<1>16. s.visited = ToSet(s.pending)
  BY <1>13, <1>15 DEF ToSet
<1>17. \A m \in Live : ParentOf[m] \in s.visited \cup {InvalidId}
                           => m \in s.visited
  BY <1>13, <1>16
<1>18. s.visited = Live
  BY <1>13, <1>17, RootsReachAll
<1> QED BY <1>1, <1>13, <1>18 DEF s

(* validate accepts the tree, unless its nodes outnumber the handles.      *)
LEMMA ValidateAccepts ==
  ASSUME Inv
  PROVE  ValidateAcceptsReachableTrees
<1>1. FirstFault(roots, RootFault) = Accepted
  <2>1. ASSUME NEW i \in 1 .. Len(roots) PROVE RootFault(roots[i]) = "none"
    <3>1. roots[i] \in Live /\ ParentOf[roots[i]] = InvalidId
      <4>1. roots[i] \in ToSet(roots)
        BY ForestShape, LenProperties DEF ToSet
      <4> QED BY <4>1, ForestShape
    <3>2. /\ Known(roots[i]) /\ IsRoot(roots[i])
          /\ FindRecord(roots[i]).parentEdge = NoEdge
      BY <3>1, ForestShape
    <3> QED BY <3>2 DEF RootFault
  <2> QED BY <2>1, NoRootAtFault
<1>2. Visit.result = Accepted /\ Cardinality(Visit.visited) = NodeCount
  BY VisitSeesAll DEF NodeCount
<1> QED BY <1>1, <1>2 DEF Validate, ValidateAcceptsReachableTrees

(* A step the contract does not see leaves freeze's input alone.           *)
LEMMA SameView ==
  ASSUME Inv, Inv', DataOf' = DataOf, EdgeOf' = EdgeOf, KidsOf' = KidsOf
  PROVE  SameForest
<1>1. Live' = Live
  <2>1. DOMAIN DataOf = Live
    BY DEF DataOf
  <2>2. (DOMAIN DataOf)' = Live'
    BY DEF DataOf
  <2> QED BY <2>1, <2>2
<1>2. \A n : Known(n) <=> n \in Live
  BY ForestShape
<1>3. \A n \in Live : /\ KidsOf[n] = Children(n)
                      /\ DataOf[n] = FindRecord(n).data
                      /\ EdgeOf[n] = FindRecord(n).parentEdge
  BY InvParts
<1>4. InvalidId \notin Live
  BY ForestShape
<1>5. \A n \in Live : /\ KidsOf[n]' = Children(n)'
                      /\ DataOf[n]' = FindRecord(n).data'
                      /\ EdgeOf[n]' = FindRecord(n).parentEdge'
  BY <1>1, <1>4 DEF DataOf, EdgeOf, KidsOf, Sequence
<1>6. roots' = roots
  <2>1. KidsOf[InvalidId] = roots
    BY DEF KidsOf, Sequence
  <2>2. KidsOf[InvalidId]' = roots'
    BY DEF KidsOf, Sequence
  <2> QED BY <2>1, <2>2
<1>7. NodeCount' = NodeCount
  BY <1>1 DEF NodeCount
<1>8. ASSUME NEW n
      PROVE  /\ Children(n)' = Children(n)
             /\ FindRecord(n).data' = FindRecord(n).data
             /\ FindRecord(n).parentEdge' = FindRecord(n).parentEdge
  <2>1. CASE n \in Live
    BY <1>3, <1>5, <2>1
  <2>2. CASE n \notin Live
    <3>1. FindRecord(n) = NoRecord /\ FindRecord(n)' = NoRecord
      BY <1>1, <2>2 DEF FindRecord
    <3> QED BY <3>1 DEF Children
  <2> QED BY <2>1, <2>2
<1> QED BY <1>6, <1>7, <1>8 DEF SameForest

(* A call is refused with nothing changed, or counted.                     *)
LEMMA CallsAreCounted ==
  ASSUME Inv, Inv', [Next]_vars
  PROVE  (SameForest /\ revision' = revision) \/ revision' = revision + 1
<1>1. [Contract!Next]_Seen
  BY StepsOfContract
<1>2. CASE UNCHANGED Seen
  BY <1>2, SameView DEF Seen
<1>3. CASE Contract!Next
  <2>1. \/ /\ DataOf' = DataOf /\ EdgeOf' = EdgeOf /\ KidsOf' = KidsOf
           /\ revision' = revision
        \/ revision' = revision + 1
    BY <1>3 DEF Contract!Next, Contract!Insert, Contract!Move, Contract!Erase,
         Contract!SetData, Contract!SetEdge, Contract!Refuse, Contract!Reply,
         Contract!forest
  <2> QED BY <2>1, SameView
<1> QED BY <1>1, <1>2, <1>3

(* So the outcome stays.                                                   *)
LEMMA OutcomeStays ==
  ASSUME ValidateAcceptsReachableTrees, ValidateAcceptsReachableTrees',
         SameForest, revision' = revision
  PROVE  Outcome' = Outcome
<1>1. Validate' = Validate
  BY DEF ValidateAcceptsReachableTrees, SameForest, Verdict
<1> QED BY <1>1, OutcomeRepeats

(* A snapshot carries the revision it was taken at.                        *)
LEMMA OutcomeIsDated ==
  ASSUME Outcome.status = "frozen"
  PROVE  Outcome.identities.sourceRevision = revision
BY DEF Outcome, FreezeFailure

(* Nothing but the calls of the tree changes it.                           *)
LEMMA FreezingIsReading ==
  ASSUME [FreezeNext]_<<vars, freezeVars>>
  PROVE  [Next]_vars
BY DEF FreezeNext, Freeze, FreezeThrows

(* Freezing, finished or interrupted, leaves the authoring tree sound.     *)
THEOREM FreezeKeepsTree == FreezeSpec => []Inv
<1>1. FreezeInit => Inv
  BY InitInv DEF FreezeInit
<1>2. Inv /\ [FreezeNext]_<<vars, freezeVars>> => Inv'
  BY FreezingIsReading, NextInv
<1> QED BY <1>1, <1>2, PTL DEF FreezeSpec

(* validate has no fault to report in any reachable tree: only the number  *)
(* of nodes can be refused.                                                *)
THEOREM ReachableTreesAreAccepted ==
  FreezeSpec => []ValidateAcceptsReachableTrees
<1>1. Inv => ValidateAcceptsReachableTrees
  BY ValidateAccepts
<1> QED BY <1>1, FreezeKeepsTree, PTL

(* What a snapshot can tell of the time: it was taken at a revision the    *)
(* tree has or had, and if it has it a freeze now would give it again.     *)
SnapshotDated ==
    /\ frozen.status = "frozen" =>
           frozen.identities.sourceRevision \in 0 .. revision
    /\ RefreezeIsEqual

(* No step makes a snapshot's date later than the tree, and while it is    *)
(* the tree's the snapshot stays what freeze would give.                   *)
LEMMA StepKeepsDates ==
  ASSUME Inv, Inv', ValidateAcceptsReachableTrees,
         ValidateAcceptsReachableTrees', SnapshotDated,
         [FreezeNext]_<<vars, freezeVars>>
  PROVE  SnapshotDated'
<1>1. revision \in Nat
  BY DEF Inv, TypeOK
<1>2. (SameForest /\ revision' = revision) \/ revision' = revision + 1
  BY CallsAreCounted, FreezingIsReading
<1>3. CASE SameForest /\ revision' = revision
  <2>1. Outcome' = Outcome
    BY <1>3, OutcomeStays
  <2>2. CASE frozen' = frozen
    BY <1>3, <2>1, <2>2 DEF SnapshotDated, RefreezeIsEqual, Current
  <2>3. CASE frozen' # frozen
    <3>1. frozen' = Outcome
      BY <2>3 DEF FreezeNext, Freeze, FreezeThrows, freezeVars
    <3>2. frozen'.status = "frozen" =>
             frozen'.identities.sourceRevision = revision
      BY <3>1, OutcomeIsDated
    <3> QED BY <1>1, <1>3, <2>1, <3>1, <3>2
            DEF SnapshotDated, RefreezeIsEqual, Current
  <2> QED BY <2>2, <2>3
<1>4. CASE revision' = revision + 1
  <2>1. frozen' = frozen
    <3>1. revision' # revision
      BY <1>1, <1>4
    <3> QED BY <3>1 DEF FreezeNext, Freeze, FreezeThrows, freezeVars, vars
  <2>2. frozen'.status = "frozen" =>
           /\ frozen'.identities.sourceRevision \in 0 .. revision'
           /\ frozen'.identities.sourceRevision # revision'
    BY <1>1, <1>4, <2>1 DEF SnapshotDated
  <2> QED BY <2>2 DEF SnapshotDated, RefreezeIsEqual, Current
<1> QED BY <1>2, <1>3, <1>4

(* A snapshot carries a revision the tree had, never a later one.          *)
THEOREM SnapshotsAreDated == FreezeSpec => []SnapshotDated
<1>1. FreezeInit => SnapshotDated
  BY DEF FreezeInit, SnapshotDated, RefreezeIsEqual, Current
<1>2. Inv /\ Inv' /\ ValidateAcceptsReachableTrees
      /\ ValidateAcceptsReachableTrees' /\ SnapshotDated
      /\ [FreezeNext]_<<vars, freezeVars>>
      => SnapshotDated'
  BY StepKeepsDates
<1> QED BY <1>1, <1>2, FreezeKeepsTree, ReachableTreesAreAccepted, PTL
        DEF FreezeSpec

(* MUTABLE.md: repeated freeze of unchanged authoring input gives equal    *)
(* topology and identity maps, whatever the workspace holds.               *)
THEOREM RefreezeRepeats == FreezeSpec => []RefreezeIsEqual
<1>1. SnapshotDated => RefreezeIsEqual
  BY DEF SnapshotDated
<1> QED BY <1>1, SnapshotsAreDated, PTL

(* What a node's subtree is to its neighbours.                             *)
LEMMA SubtreeShape ==
  ASSUME Inv, NEW n \in Live
  PROVE  LET sub == Contract!Subtree(n)
         IN  /\ sub \in SUBSET Live /\ IsFiniteSet(sub) /\ Cardinality(sub) \in Nat
             /\ n \in sub
             /\ \A m \in Live : ParentOf[m] \in sub => m \in sub
             /\ \A m \in sub : m # n => ParentOf[m] \in sub
             /\ ParentOf[n] \notin sub
             /\ \A m \in Live : ParentOf[m] = ParentOf[n] /\ m # n => m \notin sub
<1> DEFINE sub == Contract!Subtree(n)
<1>1. WalkableTree
  BY InvParts
<1>2. /\ sub = ToSet(RemovedNodes(n))
      /\ RemovedNodes(n) \in Seq(Live)
      /\ n \in sub
      /\ \A m \in Live : ParentOf[m] \in sub => m \in sub
      /\ \A m \in sub \ {n} : ParentOf[m] \in sub
  BY <1>1, RemovedIsPromised, RemovedIsSubtree
<1> HIDE DEF sub
<1>3. sub \in SUBSET Live
  BY <1>2, MembersOfSeq
<1>4. IsFiniteSet(sub) /\ Cardinality(sub) \in Nat
  BY <1>3, ForestShape, FS_Subset, FS_CardinalityType
<1>5. ParentOf[n] \notin sub
  <2>1. SUFFICES ASSUME ParentOf[n] \in sub PROVE FALSE
    OBVIOUS
  <2>2. \A m \in sub : ParentOf[m] \in sub
    BY <1>2, <2>1
  <2> QED BY <1>2, <1>3, <2>2, ForestShape
<1>6. \A m \in Live : ParentOf[m] = ParentOf[n] /\ m # n => m \notin sub
  BY <1>2, <1>5
<1> QED BY <1>2, <1>3, <1>4, <1>5, <1>6 DEF sub

(* b comes right after a among siblings; b comes first.                    *)
Follows(a, b) ==
    \E p \in Live \cup {InvalidId} : \E i \in 1 .. Len(KidsOf[p]) - 1 :
        KidsOf[p][i] = a /\ KidsOf[p][i + 1] = b
Heads(b) ==
    \E p \in Live \cup {InvalidId} :
        Len(KidsOf[p]) > 0 /\ KidsOf[p][1] = b

(* A sequence of siblings, the roots being those of INVALID_STABLE_NODE.   *)
LEMMA PlaceShape ==
  ASSUME Inv, NEW p \in Live \cup {InvalidId}
  PROVE  /\ KidsOf[p] \in Seq(Live) /\ IsInjective(KidsOf[p])
         /\ Len(KidsOf[p]) \in Nat /\ DOMAIN KidsOf[p] = 1 .. Len(KidsOf[p])
         /\ ToSet(KidsOf[p]) = {m \in Live : ParentOf[m] = p}
         /\ \A i \in 1 .. Len(KidsOf[p]) :
               KidsOf[p][i] \in Live /\ ParentOf[KidsOf[p][i]] = p
         /\ \A i, j \in 1 .. Len(KidsOf[p]) : KidsOf[p][i] = KidsOf[p][j] => i = j
<1>1. IsForest(Live, ParentOf, KidsOf)
  BY InvParts DEF WalkableTree
<1>2. /\ KidsOf[p] \in Seq(Id) /\ IsInjective(KidsOf[p])
      /\ ToSet(KidsOf[p]) = {m \in Live : ParentOf[m] = p}
  BY <1>1 DEF IsForest
<1>3. Len(KidsOf[p]) \in Nat /\ DOMAIN KidsOf[p] = 1 .. Len(KidsOf[p])
  BY <1>2, LenProperties
<1>4. \A i \in 1 .. Len(KidsOf[p]) : KidsOf[p][i] \in ToSet(KidsOf[p])
  BY <1>3 DEF ToSet
<1>5. KidsOf[p] \in [1 .. Len(KidsOf[p]) -> Live]
  BY <1>2, <1>3, <1>4, LenProperties
<1>6. KidsOf[p] \in Seq(Live)
  BY <1>3, <1>5, SeqDef
<1> QED BY <1>2, <1>3, <1>4, <1>6 DEF IsInjective

(* Neighbours among siblings are where the sequence says.                  *)
LEMMA SiblingsFollow ==
  ASSUME Inv
  PROVE  /\ \A a, b : Follows(a, b) =>
               a \in Live /\ b \in Live /\ a # b /\ ParentOf[a] = ParentOf[b]
         /\ \A p \in Live \cup {InvalidId} : \A i, j \in 1 .. Len(KidsOf[p]) :
               Follows(KidsOf[p][i], KidsOf[p][j]) => j = i + 1
         /\ \A p \in Live \cup {InvalidId} : \A i \in 1 .. Len(KidsOf[p]) :
               Heads(KidsOf[p][i]) => i = 1
<1>1. ASSUME NEW p \in Live \cup {InvalidId}, NEW i \in 1 .. Len(KidsOf[p]) - 1
      PROVE  i \in 1 .. Len(KidsOf[p]) /\ i + 1 \in 1 .. Len(KidsOf[p])
  BY PlaceShape
<1>2. ASSUME NEW a, NEW b, Follows(a, b)
      PROVE  a \in Live /\ b \in Live /\ a # b /\ ParentOf[a] = ParentOf[b]
  <2>1. PICK p \in Live \cup {InvalidId} : \E i \in 1 .. Len(KidsOf[p]) - 1 :
           KidsOf[p][i] = a /\ KidsOf[p][i + 1] = b
    BY <1>2 DEF Follows
  <2>2. PICK i \in 1 .. Len(KidsOf[p]) - 1 :
           KidsOf[p][i] = a /\ KidsOf[p][i + 1] = b
    BY <2>1
  <2>3. i \in 1 .. Len(KidsOf[p]) /\ i + 1 \in 1 .. Len(KidsOf[p]) /\ i # i + 1
    BY <1>1
  <2> QED BY <2>2, <2>3, PlaceShape
<1>3. ASSUME NEW p \in Live \cup {InvalidId},
             NEW i \in 1 .. Len(KidsOf[p]), NEW j \in 1 .. Len(KidsOf[p]),
             Follows(KidsOf[p][i], KidsOf[p][j])
      PROVE  j = i + 1
  <2>1. PICK q \in Live \cup {InvalidId} : \E k \in 1 .. Len(KidsOf[q]) - 1 :
           KidsOf[q][k] = KidsOf[p][i] /\ KidsOf[q][k + 1] = KidsOf[p][j]
    BY <1>3 DEF Follows
  <2>2. PICK k \in 1 .. Len(KidsOf[q]) - 1 :
           KidsOf[q][k] = KidsOf[p][i] /\ KidsOf[q][k + 1] = KidsOf[p][j]
    BY <2>1
  <2>3. k \in 1 .. Len(KidsOf[q]) /\ k + 1 \in 1 .. Len(KidsOf[q])
    BY <1>1
  <2>4. q = p
    BY <2>2, <2>3, PlaceShape
  <2>5. k = i /\ k + 1 = j
    BY <2>2, <2>3, <2>4, PlaceShape
  <2> QED BY <2>5
<1>4. ASSUME NEW p \in Live \cup {InvalidId}, NEW i \in 1 .. Len(KidsOf[p]),
             Heads(KidsOf[p][i])
      PROVE  i = 1
  <2>1. PICK q \in Live \cup {InvalidId} :
           Len(KidsOf[q]) > 0 /\ KidsOf[q][1] = KidsOf[p][i]
    BY <1>4 DEF Heads
  <2>2. 1 \in 1 .. Len(KidsOf[q])
    BY <2>1, PlaceShape
  <2>3. q = p
    BY <2>1, <2>2, PlaceShape
  <2> QED BY <2>1, <2>2, <2>3, PlaceShape
<1> QED BY <1>2, <1>3, <1>4

-----------------------------------------------------------------------------
(* The walk's order so far, and the nodes on its stack.                    *)

Reached(order, stack) ==
    /\ IsInjective(order) /\ IsInjective(stack)
    /\ ToSet(order) \cap ToSet(stack) = {}
    /\ \A m \in Live : m \in ToSet(order) \cup ToSet(stack)
                          <=> ParentOf[m] \in ToSet(order) \cup {InvalidId}

(* In the order a node follows its sibling after the sibling's subtree, a  *)
(* first child its parent at once.                                         *)
InPreorder(order) ==
    /\ \A j, k \in 1 .. Len(order) :
          Follows(order[j], order[k]) =>
              k = j + Cardinality(Contract!Subtree(order[j]))
    /\ \A k \in 1 .. Len(order) :
          Heads(order[k]) =>
              IF ParentOf[order[k]] = InvalidId THEN k = 1
              ELSE k > 1 /\ order[k - 1] = ParentOf[order[k]]

(* While a sibling waits on the stack for a subtree to be done, the walk   *)
(* is in that subtree: what was put out since and what lies above.         *)
WaitsForSubtree(order, stack) ==
    \A j \in 1 .. Len(order), q \in 1 .. Len(stack) :
        Follows(order[j], stack[q]) =>
            /\ \A r \in 1 .. Len(stack) :
                  stack[r] \in Contract!Subtree(order[j]) <=> r > q
            /\ \A i \in 1 .. Len(order) :
                  order[i] \in Contract!Subtree(order[j]) <=> i >= j

(* Siblings are on the stack in reverse, and a first one is on top of it   *)
(* right after its parent was put out.                                     *)
StackOrder(order, stack) ==
    /\ \A q, r \in 1 .. Len(stack) : Follows(stack[q], stack[r]) => q = r + 1
    /\ \A q \in 1 .. Len(stack), k \in 1 .. Len(order) :
          ~ Follows(stack[q], order[k])
    /\ \A q \in 1 .. Len(stack) :
          Heads(stack[q]) =>
              /\ q = Len(stack)
              /\ IF ParentOf[stack[q]] = InvalidId THEN Len(order) = 0
                 ELSE /\ Len(order) > 0
                      /\ order[Len(order)] = ParentOf[stack[q]]

(* The walk between its rounds.                                            *)
WalkStates ==
    {s \in [order : Seq(Live), stack : Seq(Live), denseById : {<<>>}] :
        /\ Reached(s.order, s.stack)
        /\ InPreorder(s.order)
        /\ WaitsForSubtree(s.order, s.stack)
        /\ StackOrder(s.order, s.stack)}

(* The walk before its first round.                                        *)
WalkStart == [order |-> <<>>, stack |-> Reverse(roots), denseById |-> <<>>]

(* The roots on the stack, the first on top, are such a state.             *)
LEMMA WalkStarts ==
  ASSUME Inv
  PROVE  WalkStart \in WalkStates
<1> DEFINE S == Reverse(roots)
           n == Len(roots)
<1>1. /\ roots \in Seq(Live) /\ IsInjective(roots) /\ n \in Nat
      /\ ToSet(roots) = {m \in Live : ParentOf[m] = InvalidId}
      /\ KidsOf[InvalidId] = roots
  BY ForestShape, LenProperties, InvParts
<1>2. /\ S \in Seq(Live) /\ Len(S) = n /\ IsInjective(S)
      /\ ToSet(S) = ToSet(roots)
      /\ \A i \in 1 .. n : S[i] = roots[n + 1 - i]
  BY <1>1, ReversedMembers
<1> HIDE DEF S, n
<1>3. /\ ToSet(<<>>) = {} /\ IsInjective(<<>>) /\ Len(<<>>) = 0
      /\ <<>> \in Seq(Live) /\ 1 .. 0 = {}
  BY DEF ToSet, IsInjective
<1>4. \A q \in 1 .. n : n + 1 - q \in 1 .. n
  BY <1>1
<1>5. Reached(<<>>, S)
  BY <1>1, <1>2, <1>3 DEF Reached
<1>6. InPreorder(<<>>) /\ WaitsForSubtree(<<>>, S)
  BY <1>3 DEF InPreorder, WaitsForSubtree
<1>7. StackOrder(<<>>, S)
  <2>0. /\ InvalidId \in Live \cup {InvalidId}
        /\ n = Len(KidsOf[InvalidId])
        /\ \A q \in 1 .. n : S[q] = KidsOf[InvalidId][n + 1 - q]
    BY <1>1, <1>2 DEF n
  <2>1. ASSUME NEW q \in 1 .. n, NEW r \in 1 .. n, Follows(S[q], S[r])
        PROVE  q = r + 1
    <3> DEFINE a == n + 1 - q
               c == n + 1 - r
    <3>1. /\ a \in 1 .. Len(KidsOf[InvalidId]) /\ c \in 1 .. Len(KidsOf[InvalidId])
          /\ S[q] = KidsOf[InvalidId][a] /\ S[r] = KidsOf[InvalidId][c]
      BY <1>4, <2>0
    <3> HIDE DEF a, c
    <3>2. c = a + 1
      BY <2>0, <2>1, <3>1, SiblingsFollow
    <3> QED BY <1>1, <3>2 DEF a, c
  <2>2. ASSUME NEW q \in 1 .. n, Heads(S[q])
        PROVE  q = n /\ ParentOf[S[q]] = InvalidId
    <3> DEFINE a == n + 1 - q
    <3>1. a \in 1 .. Len(KidsOf[InvalidId]) /\ S[q] = KidsOf[InvalidId][a]
      BY <1>4, <2>0
    <3> HIDE DEF a
    <3>2. a = 1 /\ ParentOf[S[q]] = InvalidId
      BY <2>0, <2>2, <3>1, SiblingsFollow, PlaceShape
    <3> QED BY <1>1, <3>2 DEF a
  <2> QED BY <1>2, <1>3, <2>1, <2>2 DEF StackOrder
<1> QED BY <1>2, <1>3, <1>5, <1>6, <1>7 DEF WalkStates, WalkStart, S

(* One round of the walk.                                                  *)
WalkRound(s) ==
    [order |-> Append(s.order, Last(s.stack)),
     stack |-> Front(s.stack) \o Reverse(Children(Last(s.stack))),
     denseById |-> s.denseById]

(* The next node leaves the stack for the order, and its children take its *)
(* place: none of its subtree has been put out or waits below it.          *)
Popped(O, S, P, T, x) ==
    LET n == Len(O)
        k == Len(S)
        c == KidsOf[x]
    IN  /\ n \in Nat /\ k \in Nat \ {0} /\ Len(c) \in Nat
        /\ x \in Live /\ x \notin ToSet(O) \cup {InvalidId} /\ x = S[k]
        /\ DOMAIN O = 1 .. n /\ DOMAIN S = 1 .. k
        /\ P \in Seq(Live) /\ Len(P) = n + 1
        /\ \A i \in 1 .. n : P[i] = O[i] /\ O[i] \in Live
        /\ P[n + 1] = x
        /\ T \in Seq(Live) /\ Len(T) = k + Len(c) - 1
        /\ \A r \in 1 .. k - 1 : T[r] = S[r] /\ S[r] \in Live /\ S[r] # x
        /\ \A r \in k .. k + Len(c) - 1 :
              /\ k + Len(c) - r \in 1 .. Len(c)
              /\ T[r] = c[k + Len(c) - r]
              /\ T[r] \in Live /\ ParentOf[T[r]] = x
              /\ T[r] \in Contract!Subtree(x)
        /\ \A i \in 1 .. n : /\ O[i] \notin Contract!Subtree(x)
                             /\ ParentOf[O[i]] # x
        /\ \A r \in 1 .. k - 1 : /\ S[r] \notin Contract!Subtree(x)
                                 /\ ParentOf[S[r]] # x
        /\ x \in Contract!Subtree(x) /\ ParentOf[x] # x

(* A round puts out the top of the stack and pushes its children.          *)
LEMMA RoundPops ==
  ASSUME Inv, NEW s \in WalkStates, s.stack # <<>>
  PROVE  /\ Popped(s.order, s.stack, WalkRound(s).order, WalkRound(s).stack,
                   Last(s.stack))
         /\ Reached(WalkRound(s).order, WalkRound(s).stack)
<1> DEFINE O == s.order
           S == s.stack
           x == Last(S)
           c == Children(x)
           F == Front(S)
           R == Reverse(c)
           P == Append(O, x)
           T == F \o R
           n == Len(O)
           k == Len(S)
           sub == Contract!Subtree(x)
<1>1. /\ O \in Seq(Live) /\ S \in Seq(Live) /\ S # <<>>
      /\ Reached(O, S)
  BY DEF WalkStates
<1>2. WalkRound(s).order = P /\ WalkRound(s).stack = T
  BY DEF WalkRound
<1> HIDE DEF O, S
<1>3. /\ n \in Nat /\ k \in Nat \ {0}
      /\ DOMAIN O = 1 .. n /\ DOMAIN S = 1 .. k
      /\ x = S[k] /\ x \in ToSet(S) /\ x \in Live
  <2>1. n \in Nat /\ k \in Nat \ {0} /\ DOMAIN O = 1 .. n /\ DOMAIN S = 1 .. k
    BY <1>1, LenProperties, EmptySeq
  <2>2. x = S[k]
    BY DEF Last
  <2>3. k \in 1 .. k
    BY <2>1
  <2> QED BY <1>1, <2>1, <2>2, <2>3, MembersOfSeq DEF ToSet
<1> HIDE DEF x
<1>4. /\ IsInjective(O) /\ IsInjective(S)
      /\ ToSet(O) \cap ToSet(S) = {}
      /\ \A m \in Live : m \in ToSet(O) \cup ToSet(S)
                            <=> ParentOf[m] \in ToSet(O) \cup {InvalidId}
      /\ ToSet(O) \subseteq Live /\ ToSet(S) \subseteq Live
  BY <1>1, MembersOfSeq DEF Reached
<1>5. x \notin ToSet(O) \cup {InvalidId}
  BY <1>3, <1>4, ForestShape
<1>6. /\ c \in Seq(Live) /\ IsInjective(c) /\ Len(c) \in Nat
      /\ c = KidsOf[x]
      /\ DOMAIN c = 1 .. Len(c)
      /\ ToSet(c) = {m \in Live : ParentOf[m] = x}
      /\ \A a \in 1 .. Len(c) : c[a] \in Live /\ ParentOf[c[a]] = x
  <2>1. KidsOf[x] = c
    BY <1>3, InvParts
  <2>2. x \in Live \cup {InvalidId}
    BY <1>3
  <2> HIDE DEF c
  <2> QED BY <2>1, <2>2, PlaceShape
<1> HIDE DEF c
<1>7. /\ sub \in SUBSET Live /\ x \in sub
      /\ \A m \in Live : ParentOf[m] \in sub => m \in sub
      /\ \A m \in sub : m # x => ParentOf[m] \in sub
      /\ ParentOf[x] \notin sub
  BY <1>3, SubtreeShape
<1> HIDE DEF sub
<1>8. ToSet(O) \cap sub = {}
  <2> DEFINE Z == ToSet(O) \cap sub
  <2>1. SUFFICES ASSUME Z # {} PROVE FALSE
    OBVIOUS
  <2>2. PICK m \in Z : ParentOf[m] \notin Z
    BY <1>4, <2>1, ForestShape
  <2>3. m \in Live /\ m # x /\ ParentOf[m] \in sub
    BY <1>4, <1>5, <1>7, <2>2
  <2>4. ParentOf[m] \in ToSet(O)
    BY <1>4, <1>7, <2>2, <2>3, ForestShape
  <2> QED BY <2>2, <2>3, <2>4
<1>9. ASSUME NEW m \in ToSet(S), m # x PROVE m \notin sub /\ ParentOf[m] # x
  <2>1. m \in Live /\ ParentOf[m] \in ToSet(O) \cup {InvalidId}
    BY <1>4, <1>9
  <2>2. ParentOf[m] \notin sub
    BY <1>7, <1>8, <2>1, ForestShape
  <2> QED BY <1>5, <1>7, <1>9, <2>1, <2>2
<1>10. /\ F \in Seq(Live) /\ ToSet(F) = ToSet(S) \ {x} /\ IsInjective(F)
       /\ Len(F) = k - 1
       /\ \A r \in 1 .. k - 1 : F[r] = S[r]
  <2>1. F \in Seq(Live) /\ ToSet(F) = ToSet(S) \ {x} /\ IsInjective(F)
    BY <1>1, <1>4, FrontMembers DEF x
  <2>2. \A i \in 1 .. k - 1 : S[i] \in Live
    BY <1>1, <1>3, ElementOfSeq
  <2>3. Len(F) = k - 1 /\ \A r \in 1 .. k - 1 : F[r] = S[r]
    BY <1>1, <1>3, <2>2, SubSeqProperties DEF Front
  <2> QED BY <2>1, <2>3
<1>11. /\ R \in Seq(Live) /\ ToSet(R) = ToSet(c) /\ IsInjective(R)
       /\ Len(R) = Len(c)
       /\ \A i \in 1 .. Len(c) : R[i] = c[Len(c) + 1 - i]
  BY <1>6, ReversedMembers
<1>12. /\ P \in Seq(Live) /\ Len(P) = n + 1 /\ P[n + 1] = x
       /\ \A i \in 1 .. n : P[i] = O[i]
       /\ ToSet(P) = ToSet(O) \cup {x} /\ IsInjective(P)
  BY <1>1, <1>3, <1>4, <1>5, AppendProperties, AppendMembers
<1> HIDE DEF F, R, P, k, n
<1>13. ToSet(F) \cap ToSet(R) = {}
  BY <1>6, <1>9, <1>10, <1>11
<1>14. /\ T \in Seq(Live) /\ Len(T) = (k - 1) + Len(c)
       /\ ToSet(T) = (ToSet(S) \ {x}) \cup ToSet(c) /\ IsInjective(T)
       /\ \A r \in 1 .. (k - 1) + Len(c) :
             T[r] = IF r <= k - 1 THEN S[r] ELSE R[r - (k - 1)]
  <2>1. T \in Seq(Live) /\ Len(T) = (k - 1) + Len(c)
    <3>1. T \in Seq(Live) /\ Len(T) = Len(F) + Len(R)
      BY <1>10, <1>11, ConcatProperties
    <3> QED BY <1>10, <1>11, <3>1
  <2>2. ToSet(T) = (ToSet(S) \ {x}) \cup ToSet(c) /\ IsInjective(T)
    BY <1>10, <1>11, <1>13, ConcatMembers
  <2>3. \A r \in 1 .. (k - 1) + Len(c) :
             T[r] = IF r <= k - 1 THEN F[r] ELSE R[r - (k - 1)]
    BY <1>10, <1>11, ConcatProperties
  <2> QED BY <1>3, <1>10, <2>1, <2>2, <2>3
<1> HIDE DEF T, n, k
<1>15. Reached(P, T)
  <2>1. ToSet(P) \cap ToSet(T) = {}
    <3>1. x \notin ToSet(c)
      BY <1>6, <1>7
    <3>2. ToSet(O) \cap ToSet(c) = {}
      BY <1>4, <1>5, <1>6
    <3> QED BY <1>4, <1>12, <1>14, <3>1, <3>2
  <2>2. ASSUME NEW m \in Live
        PROVE  m \in ToSet(P) \cup ToSet(T)
                  <=> ParentOf[m] \in ToSet(P) \cup {InvalidId}
    <3>1. m \in ToSet(P) \cup ToSet(T)
             <=> m \in ToSet(O) \cup ToSet(S) \/ ParentOf[m] = x
      BY <1>3, <1>6, <1>12, <1>14
    <3> QED BY <1>4, <1>12, <3>1
  <2> QED BY <1>12, <1>14, <2>1, <2>2 DEF Reached
<1>16. \A r \in 1 .. k - 1 : /\ T[r] = S[r] /\ S[r] \in Live /\ S[r] # x
                             /\ S[r] \notin sub /\ ParentOf[S[r]] # x
  <2>1. ASSUME NEW r \in 1 .. k - 1
        PROVE  /\ T[r] = S[r] /\ S[r] \in ToSet(S) /\ S[r] # x
    <3>1. r \in DOMAIN S /\ k \in DOMAIN S /\ r # k
          /\ r \in 1 .. (k - 1) + Len(c) /\ r <= k - 1
      BY <1>3, <1>6
    <3> QED BY <1>3, <1>4, <1>14, <3>1 DEF IsInjective, ToSet
  <2> QED BY <1>4, <1>9, <2>1
<1>17. \A r \in k .. k + Len(c) - 1 :
              /\ k + Len(c) - r \in 1 .. Len(c)
              /\ T[r] = c[k + Len(c) - r]
              /\ T[r] \in Live /\ ParentOf[T[r]] = x
              /\ T[r] \in sub
  <2>1. ASSUME NEW r \in k .. k + Len(c) - 1
        PROVE  /\ k + Len(c) - r \in 1 .. Len(c)
               /\ T[r] = c[k + Len(c) - r]
    <3>1. /\ k + Len(c) - r \in 1 .. Len(c)
          /\ r \in 1 .. (k - 1) + Len(c) /\ ~ (r <= k - 1)
          /\ r - (k - 1) \in 1 .. Len(c)
          /\ Len(c) + 1 - (r - (k - 1)) = k + Len(c) - r
      <4> DEFINE l == Len(c)
      <4>1. k \in Nat \ {0} /\ l \in Nat /\ r \in k .. k + l - 1
        BY <1>3, <1>6
      <4> HIDE DEF l
      <4>2. /\ k + l - r \in 1 .. l
            /\ r \in 1 .. (k - 1) + l /\ ~ (r <= k - 1)
            /\ r - (k - 1) \in 1 .. l
            /\ l + 1 - (r - (k - 1)) = k + l - r
        BY <4>1
      <4> QED BY <4>2 DEF l
    <3>2. T[r] = R[r - (k - 1)]
      BY <1>14, <3>1
    <3>3. R[r - (k - 1)] = c[Len(c) + 1 - (r - (k - 1))]
      BY <1>11, <3>1
    <3> QED BY <3>1, <3>2, <3>3
  <2>2. \A a \in 1 .. Len(c) : c[a] \in Live /\ ParentOf[c[a]] = x /\ c[a] \in sub
    BY <1>6, <1>7
  <2> QED BY <2>1, <2>2
<1>18. \A i \in 1 .. n : /\ P[i] = O[i] /\ O[i] \in Live
                         /\ O[i] \notin sub /\ ParentOf[O[i]] # x
  <2>1. ASSUME NEW i \in 1 .. n PROVE O[i] \in ToSet(O)
    BY <1>3 DEF ToSet
  <2> QED BY <1>4, <1>5, <1>8, <1>12, <2>1
<1>19. Len(T) = k + Len(c) - 1
  BY <1>3, <1>6, <1>14
<1>20. Popped(O, S, P, T, x)
  <2>1. ParentOf[x] # x
    BY <1>7
  <2>2. /\ n = Len(O) /\ k = Len(S) /\ c = KidsOf[x] /\ sub = Contract!Subtree(x)
    BY <1>6 DEF n, k, sub
  <2> QED BY <1>3, <1>5, <1>6, <1>7, <1>12, <1>14, <1>16, <1>17, <1>18, <1>19,
             <2>1, <2>2 DEF Popped
<1>21. x = Last(s.stack) /\ O = s.order /\ S = s.stack
  BY DEF x, O, S
<1> QED BY <1>2, <1>15, <1>20, <1>21

(* A subtree no node of which is on the stack has been put out.            *)
LEMMA SubtreeDone ==
  ASSUME Inv, NEW O \in Seq(Live), NEW S \in Seq(Live), Reached(O, S),
         NEW j \in 1 .. Len(O),
         \A r \in 1 .. Len(S) : S[r] \notin Contract!Subtree(O[j]),
         \A i \in 1 .. Len(O) : O[i] \in Contract!Subtree(O[j]) <=> i >= j
  PROVE  Cardinality(Contract!Subtree(O[j])) = Len(O) + 1 - j
<1> DEFINE n == Len(O)
           sub == Contract!Subtree(O[j])
           l == n + 1 - j
           f == [i \in 1 .. l |-> O[j + i - 1]]
<1>1. /\ n \in Nat /\ DOMAIN O = 1 .. n /\ O[j] \in Live
      /\ DOMAIN S = 1 .. Len(S)
      /\ IsInjective(O)
      /\ \A m \in Live : m \in ToSet(O) \cup ToSet(S)
                            <=> ParentOf[m] \in ToSet(O) \cup {InvalidId}
  BY LenProperties, ElementOfSeq DEF Reached
<1>2. /\ sub \in SUBSET Live /\ IsFiniteSet(sub)
      /\ \A m \in sub : m # O[j] => ParentOf[m] \in sub
  BY <1>1, SubtreeShape
<1>3. /\ \A r \in 1 .. Len(S) : S[r] \notin sub
      /\ \A i \in 1 .. n : O[i] \in sub <=> i >= j
  OBVIOUS
<1> HIDE DEF sub
<1>4. sub \subseteq ToSet(O)
  <2> DEFINE Z == sub \ ToSet(O)
  <2>1. SUFFICES ASSUME Z # {} PROVE FALSE
    OBVIOUS
  <2>2. PICK m \in Z : ParentOf[m] \notin Z
    BY <1>2, <2>1, ForestShape
  <2>3. m \in Live /\ m # O[j] /\ ParentOf[m] \in ToSet(O)
    BY <1>1, <1>2, <2>2 DEF ToSet
  <2>4. m \in ToSet(S)
    BY <1>1, <2>2, <2>3
  <2> QED BY <1>1, <1>3, <2>2, <2>4 DEF ToSet
<1> HIDE DEF n
<1>5. /\ l \in Nat
      /\ \A i \in 1 .. l : j + i - 1 \in 1 .. n /\ j + i - 1 >= j
      /\ \A i \in 1 .. n : i >= j => i - j + 1 \in 1 .. l /\ j + (i - j + 1) - 1 = i
  BY <1>1
<1>6. \A a, b \in 1 .. l : j + a - 1 = j + b - 1 => a = b
  BY <1>1
<1> HIDE DEF l
<1>7. f \in [1 .. l -> sub]
  BY <1>3, <1>5 DEF n
<1>8. \A a, b \in 1 .. l : f[a] = f[b] => a = b
  <2>1. \A i, k \in 1 .. n : O[i] = O[k] => i = k
    BY <1>1 DEF IsInjective, n
  <2>2. \A a \in 1 .. l : f[a] = O[j + a - 1]
    OBVIOUS
  <2> HIDE DEF f
  <2> QED BY <1>5, <1>6, <2>1, <2>2
<1>9. \A m \in sub : \E i \in 1 .. l : f[i] = m
  <2>1. ASSUME NEW m \in sub PROVE \E i \in 1 .. l : f[i] = m
    <3>1. PICK i \in 1 .. n : O[i] = m
      BY <1>1, <1>4 DEF ToSet
    <3>2. i >= j
      BY <1>3, <3>1
    <3>3. i - j + 1 \in 1 .. l /\ j + (i - j + 1) - 1 = i
      BY <1>5, <3>2
    <3>4. f[i - j + 1] = m
      BY <3>1, <3>3
    <3> QED BY <3>3, <3>4
  <2> QED BY <2>1
<1> HIDE DEF f
<1>10. f \in Bijection(1 .. l, sub)
  BY <1>7, <1>8, <1>9 DEF Bijection, Injection, Surjection, IsInjective
<1>11. Cardinality(1 .. l) = Cardinality(sub)
  <2>1. IsFiniteSet(1 .. l) /\ ExistsBijection(1 .. l, sub)
    BY <1>5, <1>10, PositionsCounted DEF ExistsBijection
  <2> QED BY <2>1, FS_Bijection
<1>12. Cardinality(sub) = l
  BY <1>5, <1>11, PositionsCounted
<1> QED BY <1>12 DEF l, sub, n

(* The node put out keeps the order a preorder.                            *)
LEMMA PreorderKept ==
  ASSUME Inv, NEW O \in Seq(Live), NEW S \in Seq(Live), NEW P, NEW T, NEW x,
         Popped(O, S, P, T, x), Reached(O, S), InPreorder(O),
         WaitsForSubtree(O, S), StackOrder(O, S)
  PROVE  InPreorder(P)
<1> DEFINE n == Len(O)
           k == Len(S)
<1>1. /\ n \in Nat /\ k \in Nat \ {0} /\ x = S[k] /\ k \in 1 .. k
      /\ Len(P) = n + 1 /\ P[n + 1] = x
      /\ \A i \in 1 .. n : P[i] = O[i]
      /\ x \in Live
  BY DEF Popped
<1>2. ASSUME NEW j \in 1 .. n + 1, NEW i \in 1 .. n + 1, Follows(P[j], P[i])
      PROVE  i = j + Cardinality(Contract!Subtree(P[j]))
  <2>1. CASE j \in 1 .. n /\ i \in 1 .. n
    BY <1>1, <1>2, <2>1 DEF InPreorder
  <2>2. CASE j \in 1 .. n /\ i = n + 1
    <3>1. Follows(O[j], S[k])
      BY <1>1, <1>2, <2>2
    <3>2. /\ \A r \in 1 .. k : S[r] \in Contract!Subtree(O[j]) <=> r > k
          /\ \A a \in 1 .. n : O[a] \in Contract!Subtree(O[j]) <=> a >= j
      BY <1>1, <2>2, <3>1 DEF WaitsForSubtree
    <3>3. \A r \in 1 .. k : ~ (r > k)
      BY <1>1
    <3>4. \A r \in 1 .. k : S[r] \notin Contract!Subtree(O[j])
      BY <3>2, <3>3
    <3>5. Cardinality(Contract!Subtree(O[j])) = n + 1 - j
      BY <2>2, <3>2, <3>4, SubtreeDone
    <3>6. P[j] = O[j]
      BY <1>1, <2>2
    <3> DEFINE q == Cardinality(Contract!Subtree(O[j]))
    <3> HIDE DEF n, q
    <3>7. i = j + q
      BY <1>1, <2>2, <3>5 DEF q
    <3> QED BY <3>6, <3>7 DEF q
  <2>3. CASE j = n + 1
    <3>1. Follows(S[k], P[i])
      BY <1>1, <1>2, <2>3
    <3>2. i = n + 1
      BY <1>1, <3>1 DEF StackOrder
    <3> QED BY <1>1, <1>2, <2>3, <3>2, SiblingsFollow
  <2> QED BY <1>1, <2>1, <2>2, <2>3
<1>3. ASSUME NEW i \in 1 .. n + 1, Heads(P[i])
      PROVE  IF ParentOf[P[i]] = InvalidId THEN i = 1
             ELSE i > 1 /\ P[i - 1] = ParentOf[P[i]]
  <2>1. CASE i \in 1 .. n
    <3>1. P[i] = O[i]
      BY <1>1, <2>1
    <3>2. IF ParentOf[O[i]] = InvalidId THEN i = 1
          ELSE i > 1 /\ O[i - 1] = ParentOf[O[i]]
      BY <1>3, <2>1, <3>1 DEF InPreorder
    <3>3. i > 1 => P[i - 1] = O[i - 1]
      BY <1>1, <2>1
    <3> QED BY <3>1, <3>2, <3>3
  <2>2. CASE i = n + 1
    <3>1. P[i] = x /\ Heads(S[k])
      BY <1>1, <1>3, <2>2
    <3>2. IF ParentOf[x] = InvalidId THEN n = 0
          ELSE n > 0 /\ O[n] = ParentOf[x]
      BY <1>1, <3>1 DEF StackOrder
    <3>3. n > 0 => P[i - 1] = O[n] /\ i > 1
      BY <1>1, <2>2
    <3> QED BY <1>1, <2>2, <3>1, <3>2, <3>3
  <2> QED BY <1>1, <2>1, <2>2
<1> QED BY <1>1, <1>2, <1>3 DEF InPreorder

(* What waits for a subtree goes on waiting, and the next sibling of the   *)
(* node put out now waits for its children.                                *)
LEMMA WaitsKept ==
  ASSUME Inv, NEW O \in Seq(Live), NEW S \in Seq(Live), NEW P, NEW T, NEW x,
         Popped(O, S, P, T, x), Reached(O, S),
         WaitsForSubtree(O, S), StackOrder(O, S)
  PROVE  WaitsForSubtree(P, T)
<1> DEFINE n == Len(O)
           k == Len(S)
           l == Len(KidsOf[x])
           Sub(m) == Contract!Subtree(m)
<1>1. /\ n \in Nat /\ k \in Nat \ {0} /\ l \in Nat /\ x = S[k] /\ x \in Live
      /\ Len(P) = n + 1 /\ P[n + 1] = x
      /\ Len(T) = k + l - 1
      /\ \A i \in 1 .. n : /\ P[i] = O[i] /\ O[i] \in Live
                           /\ O[i] \notin Sub(x) /\ ParentOf[O[i]] # x
      /\ \A r \in 1 .. k - 1 : /\ T[r] = S[r] /\ S[r] \notin Sub(x)
      /\ \A r \in k .. k + l - 1 : /\ T[r] \in Live /\ ParentOf[T[r]] = x
                                   /\ T[r] \in Sub(x)
      /\ x \in Sub(x) /\ ParentOf[x] # x
  BY DEF Popped
<1> HIDE DEF Sub, n, k, l
<1>2. SUFFICES ASSUME NEW j \in 1 .. n + 1, NEW q \in 1 .. k + l - 1,
                      Follows(P[j], T[q])
               PROVE  /\ \A r \in 1 .. k + l - 1 : T[r] \in Sub(P[j]) <=> r > q
                      /\ \A i \in 1 .. n + 1 : P[i] \in Sub(P[j]) <=> i >= j
  BY <1>1 DEF WaitsForSubtree, Sub
<1>3. q \in 1 .. k - 1
  <2>1. SUFFICES ASSUME q \in k .. k + l - 1 PROVE FALSE
    BY <1>1
  <2>2. ParentOf[P[j]] = x
    BY <1>1, <1>2, <2>1, SiblingsFollow
  <2> QED BY <1>1, <2>2
<1>4. T[q] = S[q] /\ q \in 1 .. k
  BY <1>1, <1>3
<1>5. CASE j \in 1 .. n
  <2>1. Follows(O[j], S[q]) /\ P[j] = O[j]
    BY <1>1, <1>2, <1>4, <1>5
  <2>2. /\ \A r \in 1 .. k : S[r] \in Sub(O[j]) <=> r > q
        /\ \A i \in 1 .. n : O[i] \in Sub(O[j]) <=> i >= j
    BY <1>4, <1>5, <2>1 DEF WaitsForSubtree, Sub, n, k
  <2>3. x \in Sub(O[j])
    BY <1>1, <1>3, <2>2
  <2>4. \A m \in Live : ParentOf[m] = x => m \in Sub(O[j])
    BY <1>1, <1>5, <2>3, SubtreeShape DEF Sub
  <2>5. ASSUME NEW r \in 1 .. k + l - 1 PROVE T[r] \in Sub(P[j]) <=> r > q
    <3>1. CASE r \in 1 .. k - 1
      BY <1>1, <2>1, <2>2, <3>1
    <3>2. CASE r \in k .. k + l - 1
      <4>1. T[r] \in Sub(P[j])
        BY <1>1, <2>1, <2>4, <3>2
      <4>2. r > q
        BY <1>1, <1>3, <3>2
      <4> QED BY <4>1, <4>2
    <3> QED BY <1>1, <3>1, <3>2
  <2>6. ASSUME NEW i \in 1 .. n + 1 PROVE P[i] \in Sub(P[j]) <=> i >= j
    <3>1. CASE i \in 1 .. n
      BY <1>1, <2>1, <2>2, <3>1
    <3>2. CASE i = n + 1
      BY <1>1, <1>5, <2>1, <2>3, <3>2
    <3> QED BY <1>1, <3>1, <3>2
  <2> QED BY <2>5, <2>6
<1>6. CASE j = n + 1
  <2>1. P[j] = x /\ Follows(S[k], S[q]) /\ k \in 1 .. k
    BY <1>1, <1>2, <1>4, <1>6
  <2>2. k = q + 1
    BY <1>4, <2>1 DEF StackOrder, k
  <2>3. ASSUME NEW r \in 1 .. k + l - 1 PROVE T[r] \in Sub(P[j]) <=> r > q
    <3>1. CASE r \in 1 .. k - 1
      BY <1>1, <1>3, <2>1, <2>2, <3>1
    <3>2. CASE r \in k .. k + l - 1
      <4>1. T[r] \in Sub(P[j])
        BY <1>1, <2>1, <3>2
      <4>2. r > q
        BY <1>1, <1>3, <3>2
      <4> QED BY <4>1, <4>2
    <3> QED BY <1>1, <3>1, <3>2
  <2>4. ASSUME NEW i \in 1 .. n + 1 PROVE P[i] \in Sub(P[j]) <=> i >= j
    BY <1>1, <1>6, <2>1
  <2> QED BY <2>3, <2>4
<1> QED BY <1>1, <1>5, <1>6

(* The children go on the stack in reverse, the first on top.              *)
LEMMA StackKept ==
  ASSUME Inv, NEW O \in Seq(Live), NEW S \in Seq(Live), NEW P, NEW T, NEW x,
         Popped(O, S, P, T, x), StackOrder(O, S)
  PROVE  StackOrder(P, T)
<1> DEFINE n == Len(O)
           k == Len(S)
           c == KidsOf[x]
           l == Len(c)
<1>1. /\ n \in Nat /\ k \in Nat \ {0} /\ l \in Nat /\ x = S[k] /\ x \in Live
      /\ x # InvalidId
      /\ Len(P) = n + 1 /\ P[n + 1] = x
      /\ Len(T) = k + l - 1
      /\ \A i \in 1 .. n : P[i] = O[i] /\ ParentOf[O[i]] # x
      /\ \A r \in 1 .. k - 1 : T[r] = S[r] /\ ParentOf[S[r]] # x
      /\ \A r \in k .. k + l - 1 :
            /\ k + l - r \in 1 .. l /\ T[r] = c[k + l - r] /\ ParentOf[T[r]] = x
      /\ ParentOf[x] # x
  BY DEF Popped
<1>2. /\ \A i, j \in 1 .. l : Follows(c[i], c[j]) => j = i + 1
      /\ \A i \in 1 .. l : Heads(c[i]) => i = 1
  <2>1. x \in Live \cup {InvalidId}
    BY <1>1
  <2> QED BY <2>1, SiblingsFollow
<1> HIDE DEF n, k, c, l
<1>3. \A r \in 1 .. k + l - 1 : r \in 1 .. k - 1 \/ r \in k .. k + l - 1
  BY <1>1
<1>4. \A r \in 1 .. k - 1 : r \in 1 .. k /\ r # k
  BY <1>1
<1>5. \A i \in 1 .. n + 1 : ParentOf[P[i]] # x
  <2>1. ASSUME NEW i \in 1 .. n + 1 PROVE i \in 1 .. n \/ i = n + 1
    BY <1>1
  <2> QED BY <1>1, <2>1
<1>6. ASSUME NEW q \in 1 .. k + l - 1, NEW r \in 1 .. k + l - 1,
             Follows(T[q], T[r])
      PROVE  q = r + 1
  <2>0. ParentOf[T[q]] = ParentOf[T[r]]
    BY <1>6, SiblingsFollow
  <2>1. CASE q \in 1 .. k - 1
    <3>1. r \in 1 .. k - 1
      BY <1>1, <1>3, <2>0, <2>1
    <3>2. Follows(S[q], S[r]) /\ q \in 1 .. k /\ r \in 1 .. k
      BY <1>1, <1>4, <1>6, <2>1, <3>1
    <3> QED BY <3>2 DEF StackOrder, k
  <2>2. CASE q \in k .. k + l - 1
    <3>1. r \in k .. k + l - 1
      BY <1>1, <1>3, <2>0, <2>2
    <3>2. k + l - r = (k + l - q) + 1
      <4>1. /\ k + l - q \in 1 .. l /\ k + l - r \in 1 .. l
            /\ Follows(c[k + l - q], c[k + l - r])
        BY <1>1, <1>6, <2>2, <3>1
      <4> QED BY <1>2, <4>1
    <3> QED BY <1>1, <3>2
  <2> QED BY <1>3, <2>1, <2>2
<1>7. ASSUME NEW q \in 1 .. k + l - 1, NEW i \in 1 .. n + 1, Follows(T[q], P[i])
      PROVE  FALSE
  <2>0. ParentOf[T[q]] = ParentOf[P[i]]
    BY <1>7, SiblingsFollow
  <2>1. q \in 1 .. k - 1
    BY <1>1, <1>3, <1>5, <2>0
  <2>2. T[q] = S[q] /\ q \in 1 .. k /\ q # k /\ k \in 1 .. k
    BY <1>1, <1>4, <2>1
  <2>3. CASE i \in 1 .. n
    BY <1>1, <1>7, <2>2, <2>3 DEF StackOrder, n, k
  <2>4. CASE i = n + 1
    <3>1. Follows(S[q], S[k])
      BY <1>1, <1>7, <2>2, <2>4
    <3>2. q = k + 1
      BY <2>2, <3>1 DEF StackOrder, k
    <3> QED BY <1>1, <2>1, <3>2
  <2> QED BY <1>1, <2>3, <2>4
<1>8. ASSUME NEW q \in 1 .. k + l - 1, Heads(T[q])
      PROVE  /\ q = k + l - 1
             /\ IF ParentOf[T[q]] = InvalidId THEN n + 1 = 0
                ELSE n + 1 > 0 /\ P[n + 1] = ParentOf[T[q]]
  <2>1. q \in k .. k + l - 1
    <3>1. SUFFICES ASSUME q \in 1 .. k - 1 PROVE FALSE
      BY <1>3
    <3>2. Heads(S[q]) /\ q \in 1 .. k /\ q # k
      BY <1>1, <1>4, <1>8, <3>1
    <3> QED BY <3>2 DEF StackOrder, k
  <2>2. k + l - q = 1
    <3>1. k + l - q \in 1 .. l /\ Heads(c[k + l - q])
      BY <1>1, <1>8, <2>1
    <3> QED BY <1>2, <3>1
  <2>3. ParentOf[T[q]] = x
    BY <1>1, <2>1
  <2> QED BY <1>1, <2>2, <2>3
<1> QED BY <1>1, <1>6, <1>7, <1>8 DEF StackOrder

(* A round of the walk keeps all this, and puts out one node more.         *)
LEMMA WalkRoundKeeps ==
  ASSUME Inv, NEW s \in WalkStates, s.stack # <<>>
  PROVE  /\ WalkRound(s) \in WalkStates
         /\ Len(WalkRound(s).order) = Len(s.order) + 1
<1> DEFINE O == s.order
           S == s.stack
           P == WalkRound(s).order
           T == WalkRound(s).stack
           x == Last(S)
<1>1. /\ O \in Seq(Live) /\ S \in Seq(Live) /\ s.denseById = <<>>
      /\ Reached(O, S) /\ InPreorder(O)
      /\ WaitsForSubtree(O, S) /\ StackOrder(O, S)
  BY DEF WalkStates
<1>2. Popped(O, S, P, T, x) /\ Reached(P, T)
  BY RoundPops
<1>3. WalkRound(s) = [order |-> P, stack |-> T, denseById |-> s.denseById]
  BY DEF WalkRound
<1> HIDE DEF O, S, P, T, x
<1>4. P \in Seq(Live) /\ T \in Seq(Live) /\ Len(P) = Len(O) + 1
  BY <1>2 DEF Popped
<1>5. InPreorder(P)
  BY <1>1, <1>2, PreorderKept
<1>6. WaitsForSubtree(P, T)
  BY <1>1, <1>2, WaitsKept
<1>7. StackOrder(P, T)
  BY <1>1, <1>2, StackKept
<1> DEFINE t == [order |-> P, stack |-> T, denseById |-> s.denseById]
<1>8. t \in WalkStates
  BY <1>1, <1>2, <1>4, <1>5, <1>6, <1>7 DEF WalkStates
<1>9. Len(t.order) = Len(O) + 1
  BY <1>4
<1> HIDE DEF t
<1>10. WalkRound(s) = t
  BY <1>3 DEF t
<1> QED BY <1>8, <1>9, <1>10 DEF O

(* What the walk is to arrive at.                                          *)
Preorder(order) ==
    /\ order \in Seq(Live) /\ IsInjective(order)
    /\ ToSet(order) = Live /\ Len(order) = NodeCount
    /\ InPreorder(order)

(* With no node left on its stack the walk has put out all of them.        *)
LEMMA WalkEnds ==
  ASSUME Inv, NEW s \in WalkStates,
         s.stack = <<>> \/ Len(s.order) = NodeCount
  PROVE  Preorder(s.order) /\ s.stack = <<>>
<1> DEFINE O == s.order
           S == s.stack
<1>1. /\ O \in Seq(Live) /\ S \in Seq(Live) /\ Reached(O, S) /\ InPreorder(O)
      /\ S = <<>> \/ Len(O) = NodeCount
  BY DEF WalkStates
<1> HIDE DEF O, S
<1>2. /\ IsInjective(O) /\ ToSet(O) \cap ToSet(S) = {}
      /\ ToSet(O) \in SUBSET Live /\ ToSet(S) \in SUBSET Live
      /\ \A m \in Live : m \in ToSet(O) \cup ToSet(S)
                            <=> ParentOf[m] \in ToSet(O) \cup {InvalidId}
      /\ Len(S) \in Nat /\ DOMAIN S = 1 .. Len(S)
      /\ Len(O) \in Nat
  BY <1>1, LenProperties, MembersOfSeq DEF Reached
<1>3. /\ Len(O) <= NodeCount
      /\ Len(O) = NodeCount <=> ToSet(O) = Live
  BY <1>1, <1>2, ForestShape, InjectiveLength DEF NodeCount
<1>4. ToSet(O) = Live
  <2>1. CASE S = <<>>
    <3>1. ToSet(S) = {}
      BY <2>1 DEF ToSet
    <3> QED BY <1>2, <3>1, RootsReachAll
  <2> QED BY <1>1, <1>3, <2>1
<1>5. S = <<>>
  <2>1. SUFFICES ASSUME S # <<>> PROVE FALSE
    OBVIOUS
  <2>2. 1 \in DOMAIN S
    BY <1>1, <1>2, <2>1, EmptySeq
  <2>3. S[1] \in ToSet(S)
    BY <2>2 DEF ToSet
  <2> QED BY <1>2, <1>4, <2>3
<1> QED BY <1>1, <1>2, <1>3, <1>4, <1>5 DEF Preorder, O, S

(* Within a round for each node the walk puts them all out, whatever an    *)
(* earlier freeze left in the workspace.                                   *)
LEMMA WalkedOrder ==
  ASSUME Inv
  PROVE  LET w == Walked(Prepared(workspace))
         IN  /\ Preorder(w.order) /\ w.stack = <<>> /\ w.denseById = <<>>
             /\ w = [order |-> w.order, stack |-> w.stack,
                     denseById |-> w.denseById]
<1> DEFINE V == WalkStates
           n == NodeCount
           first == [Prepared(workspace) EXCEPT !.stack = @ \o Reverse(roots)]
           Body(w, i) ==
              IF i = 0 THEN first
              ELSE IF w[i - 1].stack = <<>> THEN w[i - 1]
              ELSE WalkRound(w[i - 1])
           run == CHOOSE w : w = [i \in 0 .. n |-> Body(w, i)]
           step == [x \in (1 .. n) \X V |->
                      IF x[2].stack = <<>> THEN x[2] ELSE WalkRound(x[2])]
<1>1. Walked(Prepared(workspace)) = run[n]
  BY DEF Walked, WalkRound
<1>2. n \in Nat
  BY ForestShape
<1>3. first \in V
  <2>1. Reverse(roots) \in Seq(Live)
    BY ForestShape, ReversedMembers
  <2>2. <<>> \o Reverse(roots) = Reverse(roots)
    BY <2>1, ConcatEmptySeq
  <2>3. first = WalkStart
    BY <2>2 DEF Prepared, WalkStart
  <2> QED BY <2>3, WalkStarts
<1>4. \A v \in V : v.stack # <<>> =>
         WalkRound(v) \in V /\ Len(WalkRound(v).order) = Len(v.order) + 1
  BY WalkRoundKeeps
<1>5. \A v \in V : Len(v.order) \in Nat
  BY LenProperties DEF WalkStates
<1> HIDE DEF V, n, first
<1>6. \E w : w = [i \in 0 .. n |-> Body(w, i)]
  <2>1. step \in [(1 .. n) \X V -> V]
    BY <1>4
  <2>2. \A i \in 1 .. n, v \in V : step[<<i, v>>] =
           IF v.stack = <<>> THEN v ELSE WalkRound(v)
    OBVIOUS
  <2> HIDE DEF step
  <2>3. PICK f \in [0 .. n -> V] : Iterates(n, first, step, f)
    BY <1>2, <1>3, <2>1, IterationExists
  <2>4. ASSUME NEW i \in 0 .. n PROVE f[i] = Body(f, i)
    <3>1. CASE i = 0
      BY <2>3, <3>1 DEF Iterates
    <3>2. CASE i # 0
      <4>1. i \in 1 .. n /\ f[i - 1] \in V
        BY <1>2, <3>2
      <4>2. f[i] = step[<<i, f[i - 1]>>]
        BY <2>3, <4>1 DEF Iterates
      <4> QED BY <2>2, <3>2, <4>1, <4>2
    <3> QED BY <3>1, <3>2
  <2>5. f = [i \in 0 .. n |-> Body(f, i)]
    <3> HIDE DEF Body
    <3> QED BY <2>3, <2>4
  <2> QED BY <2>5
<1>7. run = [i \in 0 .. n |-> Body(run, i)]
  BY <1>6
<1> HIDE DEF run
<1>8. \A i \in 0 .. n : run[i] = Body(run, i)
  <2> HIDE DEF Body
  <2> QED BY <1>7, Zenon
<1> DEFINE T == {i \in 0 .. n : /\ run[i] \in V
                                /\ \/ Len(run[i].order) = i
                                   \/ run[i].stack = <<>>}
<1>9. 0 \in T
  <2>1. 0 \in 0 .. n
    BY <1>2
  <2>2. run[0] = first
    BY <1>8, <2>1
  <2>3. Len(first.order) = 0
    BY DEF first, Prepared
  <2> QED BY <1>3, <2>1, <2>2, <2>3
<1>10. ASSUME NEW i \in 1 .. n, i - 1 \in T PROVE i \in T
  <2> DEFINE s == run[i - 1]
  <2>1. /\ run[i] = IF s.stack = <<>> THEN s ELSE WalkRound(s)
        /\ i \in 0 .. n
    BY <1>2, <1>8
  <2>2. /\ s \in V
        /\ Len(s.order) = i - 1 \/ s.stack = <<>>
    BY <1>10
  <2> HIDE DEF s
  <2>3. CASE s.stack = <<>>
    BY <2>1, <2>2, <2>3
  <2>4. CASE s.stack # <<>>
    <3>1. run[i] \in V /\ Len(run[i].order) = Len(s.order) + 1
      BY <1>4, <2>1, <2>2, <2>4
    <3>2. Len(s.order) = i - 1
      BY <2>2, <2>4
    <3> QED BY <2>1, <3>1, <3>2
  <2> QED BY <2>3, <2>4
<1>11. n \in T
  <2> HIDE DEF T, step, Body
  <2>1. \A i \in 1 .. n : i - 1 \in T => i \in T
    BY <1>10
  <2>2. \A i \in 0 .. n : i \in T
    BY <1>2, <1>9, <2>1, RoundInduction
  <2> QED BY <1>2, <2>2
<1> DEFINE s == run[n]
<1>12. /\ s \in V
       /\ Len(s.order) = n \/ s.stack = <<>>
  BY <1>11
<1> HIDE DEF s, T, step, Body
<1>13. Preorder(s.order) /\ s.stack = <<>>
  BY <1>12, WalkEnds DEF V, n
<1>14. /\ s.denseById = <<>>
       /\ s = [order |-> s.order, stack |-> s.stack, denseById |-> s.denseById]
  BY <1>12 DEF V, WalkStates
<1> QED BY <1>1, <1>13, <1>14 DEF s

-----------------------------------------------------------------------------
(* The identity maps *)

(* Where an element is found first.                                        *)
Position(order, n) == SelectInSeq(order, LAMBDA m : m = n)

(* In a sequence without repetitions an element is found where it is.      *)
LEMMA FoundInPlace ==
  ASSUME NEW S, NEW order \in Seq(S), IsInjective(order),
         NEW i \in 1 .. Len(order)
  PROVE  Position(order, order[i]) = i
<1> DEFINE I == {k \in 1 .. Len(order) : order[k] = order[i]}
<1>1. I = {i}
  BY LenProperties DEF IsInjective
<1>2. i \in Nat /\ I \in SUBSET Nat /\ I # {}
  BY <1>1, LenProperties
<1> HIDE DEF I
<1>3. Min(I) \in I
  BY <1>2, MinOfNaturals
<1>4. Min(I) = i
  BY <1>1, <1>3
<1> QED BY <1>2, <1>4 DEF Position, SelectInSeq, I

(* dense_by_id after the whole order: each node's place in it.             *)
LEMMA WorkIndexes ==
  ASSUME Inv
  PROVE  /\ Preorder(Worked.order)
         /\ \A i \in 1 .. NodeCount :
               Worked.denseById[Worked.order[i]] = AsHandle(i - 1)
<1> DEFINE w == Walked(Prepared(workspace))
           O == w.order
           at(n) == Position(O, n)
           index == [n \in Live |-> AsHandle(at(n) - 1)]
<1>1. /\ Preorder(O) /\ w.denseById = <<>>
      /\ w = [order |-> O, stack |-> w.stack, denseById |-> w.denseById]
  BY WalkedOrder
<1>2. /\ O \in Seq(Live) /\ IsInjective(O) /\ ToSet(O) = Live
      /\ Len(O) = NodeCount
  BY <1>1 DEF Preorder
<1>3. Worked = Indexed(w, Len(O))
  BY DEF Worked
<1> HIDE DEF w, O
<1>4. SubSeq(O, 1, Len(O)) = O
  BY <1>2, SubSeqFull
<1>5. ToSet(SubSeq(O, 1, Len(O))) \ DOMAIN w.denseById = Live
      /\ Live \cup DOMAIN w.denseById = Live
  <2>1. DOMAIN w.denseById = {}
    <3>1. DOMAIN <<>> = {}
      OBVIOUS
    <3> QED BY <1>1, <3>1, Zenon
  <2> QED BY <1>2, <1>4, <2>1
<1>6. Indexed(w, Len(O)) = [w EXCEPT !.denseById = index]
  <2> DEFINE fresh == ToSet(SubSeq(O, 1, Len(O))) \ DOMAIN w.denseById
             raw == [n \in fresh \cup DOMAIN w.denseById |->
                        IF n \in fresh THEN AsHandle(at(n) - 1)
                        ELSE w.denseById[n]]
  <2>1. Indexed(w, Len(O)) = [w EXCEPT !.denseById = raw]
    BY DEF Indexed, Position, O
  <2>2. raw = index
    <3>1. fresh = Live /\ fresh \cup DOMAIN w.denseById = Live
      BY <1>5
    <3> HIDE DEF fresh
    <3> QED BY <3>1
  <2> QED BY <2>1, <2>2
<1> HIDE DEF index
<1>7. Worked.order = O /\ Worked.denseById = index
  BY <1>1, <1>3, <1>6
<1>8. ASSUME NEW i \in 1 .. NodeCount PROVE index[O[i]] = AsHandle(i - 1)
  <2>1. O[i] \in Live
    BY <1>2, ElementOfSeq
  <2>2. at(O[i]) = i
    BY <1>2, FoundInPlace
  <2>3. index[O[i]] = AsHandle(at(O[i]) - 1)
    BY <2>1 DEF index
  <2> QED BY <2>2, <2>3
<1> QED BY <1>1, <1>7, <1>8

(* The entries of the sorted identity map.                                 *)
EntriesAscend(order, entries) ==
    /\ DOMAIN entries = 1 .. Len(order)
    /\ Len(entries) = Len(order)
    /\ \A p \in 1 .. Len(order) : \E i \in 1 .. Len(order) :
          entries[p] = [authoring |-> order[i], runtime |-> AsHandle(i - 1)]
    /\ \A i \in 1 .. Len(order) : \E p \in 1 .. Len(order) :
          entries[p] = [authoring |-> order[i], runtime |-> AsHandle(i - 1)]
    /\ \A p, q \in 1 .. Len(order) :
          p < q => entries[p].authoring < entries[q].authoring

(* The map holds an entry for each node of the order, by identity.         *)
LEMMA MapAscends ==
  ASSUME Inv, NEW order, Preorder(order)
  PROVE  EntriesAscend(order, AuthoringToRuntime(order))
<1> DEFINE n == Len(order)
           smaller(i) == Cardinality({j \in DOMAIN order : order[j] < order[i]})
           at(p) == CHOOSE i \in DOMAIN order : smaller(i) = p - 1
           entry(i) == [authoring |-> order[i], runtime |-> AsHandle(i - 1)]
           entries == [p \in 1 .. n |-> entry(at(p))]
<1>1. /\ n \in Nat /\ DOMAIN order = 1 .. n
      /\ order \in [1 .. n -> Int]
      /\ \A i, j \in 1 .. n : order[i] = order[j] => i = j
  <2>1. /\ n \in Nat /\ DOMAIN order = 1 .. n
        /\ \A i \in 1 .. n : order[i] \in Live
        /\ \A i, j \in 1 .. n : order[i] = order[j] => i = j
        /\ order = [i \in 1 .. n |-> order[i]]
    BY LenProperties, ElementOfSeq DEF Preorder, IsInjective
  <2>2. \A m \in Live : m \in Int
    BY ForestShape, LimitsAssumption DEF Id
  <2> QED BY <2>1, <2>2
<1>2. AuthoringToRuntime(order) = entries
  BY <1>1 DEF AuthoringToRuntime
<1> HIDE DEF n
<1>3. ASSUME NEW i \in 1 .. n PROVE smaller(i) = Place(order, i) - 1
  <2>1. Lower(order, i) = {j \in DOMAIN order : order[j] < order[i]}
    BY <1>1, <1>3 DEF Lower
  <2>2. Cardinality(Lower(order, i)) \in 0 .. n - 1
    BY <1>1, LowerIsFinite
  <2> QED BY <2>1, <2>2 DEF Place
<1>4. /\ \A i \in 1 .. n : Place(order, i) \in 1 .. n
      /\ \A i, j \in 1 .. n :
            order[i] < order[j] => Place(order, i) < Place(order, j)
      /\ \A i, j \in 1 .. n : Place(order, i) = Place(order, j) => i = j
      /\ \A p \in 1 .. n : \E i \in 1 .. n : Place(order, i) = p
  BY <1>1, PlacesPermute
<1> HIDE DEF smaller
<1>5. ASSUME NEW p \in 1 .. n PROVE at(p) \in 1 .. n /\ Place(order, at(p)) = p
  <2>1. PICK i \in 1 .. n : Place(order, i) = p
    BY <1>4, <1>5
  <2>2. smaller(i) = p - 1
    BY <1>3, <2>1
  <2>3. at(p) \in 1 .. n /\ smaller(at(p)) = p - 1
    BY <1>1, <2>2
  <2> HIDE DEF at
  <2>4. smaller(at(p)) = Place(order, at(p)) - 1 /\ Place(order, at(p)) \in 1 .. n
    BY <1>3, <1>4, <2>3
  <2> QED BY <1>1, <2>3, <2>4
<1> HIDE DEF at
<1>6. \A i \in 1 .. n : at(Place(order, i)) = i
  BY <1>4, <1>5
<1>7. ASSUME NEW p \in 1 .. n, NEW q \in 1 .. n, p < q
      PROVE  order[at(p)] < order[at(q)]
  <2>1. /\ at(p) \in 1 .. n /\ at(q) \in 1 .. n
        /\ Place(order, at(p)) = p /\ Place(order, at(q)) = q
    BY <1>5
  <2>2. order[at(p)] \in Int /\ order[at(q)] \in Int
    BY <1>1, <2>1
  <2>3. ~ (order[at(q)] < order[at(p)])
    <3>1. order[at(q)] < order[at(p)] => q < p
      BY <1>4, <2>1
    <3> QED BY <1>7, <3>1
  <2>4. order[at(q)] # order[at(p)]
    BY <1>1, <1>7, <2>1
  <2> QED BY <2>2, <2>3, <2>4
<1>8. \A p \in 1 .. n : entries[p] = entry(at(p))
  OBVIOUS
<1>9. \A p \in 1 .. n : entries[p].authoring = order[at(p)]
  OBVIOUS
<1>10. DOMAIN entries = 1 .. n /\ Len(entries) = n
  <2> DEFINE E == {entry(at(p)) : p \in 1 .. n}
  <2>1. entries \in Seq(E)
    <3>1. entries \in [1 .. n -> E]
      OBVIOUS
    <3> HIDE DEF entries, E
    <3> QED BY <1>1, <3>1, SeqDef
  <2>2. DOMAIN entries = 1 .. n
    OBVIOUS
  <2> HIDE DEF entries, E
  <2> QED BY <1>1, <2>1, <2>2, LenProperties
<1> HIDE DEF entries, entry
<1>11. \A p \in 1 .. n : \E i \in 1 .. n : entries[p] = entry(i)
  BY <1>5, <1>8
<1>12. \A i \in 1 .. n : \E p \in 1 .. n : entries[p] = entry(i)
  BY <1>4, <1>6, <1>8
<1>13. \A p, q \in 1 .. n : p < q => entries[p].authoring < entries[q].authoring
  BY <1>7, <1>9
<1> QED BY <1>2, <1>10, <1>11, <1>12, <1>13 DEF EntriesAscend, entry, n

(* lower_bound on the sorted entries finds an identity's own.              *)
LEMMA EntryFound ==
  ASSUME NEW order \in Seq(Int), IsInjective(order), NEW ids,
         EntriesAscend(order, ids.authoringToRuntime)
  PROVE  /\ \A i \in 1 .. Len(order) :
               RuntimeHandle(ids, order[i]) = {AsHandle(i - 1)}
         /\ \A id : id \notin ToSet(order) => RuntimeHandle(ids, id) = {}
<1> DEFINE n == Len(order)
           e == ids.authoringToRuntime
           I(id) == {p \in 1 .. Len(e) : e[p].authoring >= id}
<1>1. /\ n \in Nat /\ DOMAIN order = 1 .. n
      /\ \A i \in 1 .. n : order[i] \in Int
      /\ \A i, j \in 1 .. n : order[i] = order[j] => i = j
  BY LenProperties, ElementOfSeq DEF IsInjective
<1>2. /\ Len(e) = n
      /\ \A p \in 1 .. n : \E i \in 1 .. n :
            e[p] = [authoring |-> order[i], runtime |-> AsHandle(i - 1)]
      /\ \A i \in 1 .. n : \E p \in 1 .. n :
            e[p] = [authoring |-> order[i], runtime |-> AsHandle(i - 1)]
      /\ \A p, q \in 1 .. n : p < q => e[p].authoring < e[q].authoring
  BY DEF EntriesAscend
<1>3. ASSUME NEW id
      PROVE  LET at == IF I(id) # {} THEN Min(I(id)) ELSE 0
             IN  RuntimeHandle(ids, id) =
                    IF at = 0 \/ e[at].authoring # id THEN {}
                    ELSE {e[at].runtime}
  BY DEF RuntimeHandle, SelectInSeq
<1> HIDE DEF n, e
<1>4. ASSUME NEW id PROVE I(id) \in SUBSET Nat /\ 0 \notin I(id)
  BY <1>1, <1>2
<1>5. ASSUME NEW i \in 1 .. n PROVE RuntimeHandle(ids, order[i]) = {AsHandle(i - 1)}
  <2> DEFINE id == order[i]
  <2>1. PICK p \in 1 .. n :
           e[p] = [authoring |-> order[i], runtime |-> AsHandle(i - 1)]
    BY <1>2, <1>5
  <2>2. e[p].authoring = id /\ e[p].runtime = AsHandle(i - 1) /\ id \in Int
    BY <1>1, <2>1
  <2> HIDE DEF id
  <2>3. p \in I(id)
    BY <1>2, <2>2
  <2>4. \A q \in I(id) : ~ (q < p)
    <3>1. SUFFICES ASSUME NEW q \in I(id), q < p PROVE FALSE
      OBVIOUS
    <3>2. /\ q \in 1 .. n /\ e[q].authoring >= id
          /\ e[q].authoring < e[p].authoring
      BY <1>2, <3>1
    <3>3. e[q].authoring \in Int
      <4>1. PICK j \in 1 .. n :
               e[q] = [authoring |-> order[j], runtime |-> AsHandle(j - 1)]
        BY <1>2, <3>2
      <4> QED BY <1>1, <4>1
    <3> QED BY <2>2, <3>2, <3>3
  <2> HIDE DEF I
  <2>5. Min(I(id)) \in I(id) /\ Min(I(id)) <= p
    BY <1>4, <2>3, MinOfNaturals
  <2>6. Min(I(id)) = p /\ p # 0
    BY <1>1, <1>4, <2>3, <2>4, <2>5
  <2>7. RuntimeHandle(ids, id) = {e[p].runtime}
    BY <1>3, <2>2, <2>3, <2>6
  <2> QED BY <2>2, <2>7 DEF id
<1>6. ASSUME NEW id, id \notin ToSet(order) PROVE RuntimeHandle(ids, id) = {}
  <2>1. CASE I(id) = {}
    BY <1>3, <2>1
  <2>2. CASE I(id) # {}
    <3>1. Min(I(id)) \in I(id)
      <4> HIDE DEF I
      <4> QED BY <1>4, <2>2, MinOfNaturals
    <3>2. Min(I(id)) \in 1 .. n
      BY <1>2, <3>1
    <3>3. PICK i \in 1 .. n : e[Min(I(id))] =
             [authoring |-> order[i], runtime |-> AsHandle(i - 1)]
      BY <1>2, <3>2
    <3>4. e[Min(I(id))].authoring = order[i] /\ order[i] \in ToSet(order)
      BY <1>1, <3>3 DEF ToSet
    <3> HIDE DEF I
    <3> QED BY <1>3, <1>6, <2>2, <3>4
  <2> QED BY <2>1, <2>2
<1> QED BY <1>5, <1>6 DEF n

(* What the identity maps of a finished freeze hold.                       *)
MapsFollow(order, ids) ==
    /\ Preorder(order) /\ NodeCount <= InvalidNode
    /\ ids.runtimeToAuthoring = order
    /\ \A i \in 1 .. NodeCount : RuntimeHandle(ids, order[i]) = {i - 1}
    /\ \A n : n \notin Live => RuntimeHandle(ids, n) = {}

(* The identity maps of a freeze that succeeds are those of its walk.      *)
LEMMA OutcomeMaps ==
  ASSUME Inv, Outcome.status = "frozen"
  PROVE  MapsFollow(Worked.order, Outcome.identities)
<1> DEFINE O == Worked.order
           ids == [runtimeToAuthoring |-> O,
                   authoringToRuntime |-> AuthoringToRuntime(O),
                   sourceRevision |-> revision]
<1>1. NodeCount \in Nat /\ NodeCount <= InvalidNode
  <2>1. SUFFICES ASSUME NodeCount > InvalidNode PROVE FALSE
    BY ForestShape, InvalidNodeAssumption
  <2>2. Validate = Verdict("node_count_overflow", InvalidId)
    BY <2>1, ValidateAccepts DEF ValidateAcceptsReachableTrees
  <2>3. FreezeFailure(Validate.error) = "node_count_overflow"
    BY <2>2 DEF FreezeFailure, Verdict
  <2>4. Outcome = [status |-> "node_count_overflow"]
    BY <2>3 DEF Outcome
  <2> QED BY <2>4
<1>2. Preorder(O)
  BY WorkIndexes
<1>3. Outcome.identities = ids
  BY DEF Outcome, FreezeFailure
<1> HIDE DEF O
<1>4. EntriesAscend(O, ids.authoringToRuntime)
  BY <1>2, MapAscends
<1>5. /\ O \in Seq(Int) /\ IsInjective(O) /\ ToSet(O) = Live
      /\ Len(O) = NodeCount
  <2>1. /\ O \in Seq(Live) /\ IsInjective(O) /\ ToSet(O) = Live
        /\ Len(O) = NodeCount
    BY <1>2 DEF Preorder
  <2>2. Live \subseteq Int
    BY ForestShape, LimitsAssumption DEF Id
  <2>3. \A i \in 1 .. Len(O) : O[i] \in Int
    BY <2>1, <2>2, ElementOfSeq
  <2>4. O \in [1 .. Len(O) -> Int] /\ Len(O) \in Nat
    BY <2>1, <2>3, LenProperties
  <2> QED BY <2>1, <2>4, SeqDef
<1>6. ids.runtimeToAuthoring = O
  OBVIOUS
<1> HIDE DEF ids
<1>7. /\ \A i \in 1 .. Len(O) : RuntimeHandle(ids, O[i]) = {AsHandle(i - 1)}
      /\ \A id : id \notin ToSet(O) => RuntimeHandle(ids, id) = {}
  BY <1>4, <1>5, EntryFound
<1>8. ASSUME NEW i \in 1 .. NodeCount PROVE RuntimeHandle(ids, O[i]) = {i - 1}
  <2>1. i - 1 \in 0 .. InvalidNode
    BY <1>1, InvalidNodeAssumption
  <2>2. AsHandle(i - 1) = i - 1
    BY <2>1, SmallHandles
  <2> QED BY <1>5, <1>7, <2>2
<1> QED BY <1>1, <1>2, <1>3, <1>5, <1>6, <1>7, <1>8 DEF MapsFollow, O

(* What SnapshotIsPreorder says of the handles an identity map gives.      *)
HandlesPreorder(ids) ==
    LET handle(n) == CHOOSE h \in RuntimeHandle(ids, n) : TRUE
        first(place) == IF place = InvalidId THEN 0 ELSE handle(place) + 1
    IN  \A place \in Live \cup {InvalidId} :
          \A i \in DOMAIN Sequence(place) :
            handle(Sequence(place)[i]) =
              IF i = 1 THEN first(place)
              ELSE handle(Sequence(place)[i - 1])
                   + Cardinality(Contract!Subtree(Sequence(place)[i - 1]))

(* The places of parents and siblings in a preorder, as the handles tell.  *)
LEMMA HandlesArePreorder ==
  ASSUME Inv, NEW order, NEW ids, MapsFollow(order, ids)
  PROVE  HandlesPreorder(ids)
<1> DEFINE handle(n) == CHOOSE h \in RuntimeHandle(ids, n) : TRUE
           first(place) == IF place = InvalidId THEN 0 ELSE handle(place) + 1
           N == NodeCount
<1>1. /\ order \in Seq(Live) /\ ToSet(order) = Live
      /\ Len(order) = N /\ DOMAIN order = 1 .. N /\ InPreorder(order)
      /\ N \in Nat
  BY LenProperties, ForestShape DEF MapsFollow, Preorder
<1>2. ASSUME NEW i \in 1 .. N PROVE handle(order[i]) = i - 1
  <2>1. RuntimeHandle(ids, order[i]) = {i - 1}
    BY DEF MapsFollow
  <2> QED BY <2>1
<1> HIDE DEF handle, N
<1>3. ASSUME NEW n \in Live PROVE \E i \in 1 .. N : order[i] = n
  BY <1>1 DEF ToSet
<1>4. ASSUME NEW place \in Live \cup {InvalidId}
      PROVE  Sequence(place) = KidsOf[place]
  BY InvParts, InvalidIsNoId DEF Sequence
<1>5. ASSUME NEW place \in Live \cup {InvalidId}, NEW i \in DOMAIN Sequence(place)
      PROVE  handle(Sequence(place)[i]) =
               IF i = 1 THEN first(place)
               ELSE handle(Sequence(place)[i - 1])
                    + Cardinality(Contract!Subtree(Sequence(place)[i - 1]))
  <2> DEFINE s == Sequence(place)
  <2>1. /\ s = KidsOf[place] /\ Len(s) \in Nat /\ DOMAIN s = 1 .. Len(s)
        /\ \A a \in 1 .. Len(s) : s[a] \in Live /\ ParentOf[s[a]] = place
    BY <1>4, PlaceShape
  <2> HIDE DEF s
  <2>2. i \in 1 .. Len(s)
    BY <1>5, <2>1 DEF s
  <2>3. PICK k \in 1 .. N : order[k] = s[i]
    BY <1>3, <2>1, <2>2
  <2>4. handle(s[i]) = k - 1
    BY <1>2, <2>3
  <2>5. CASE i = 1
    <3>1. Heads(order[k])
      BY <2>1, <2>2, <2>3, <2>5 DEF Heads
    <3>2. IF place = InvalidId THEN k = 1
          ELSE k > 1 /\ order[k - 1] = place
      BY <1>1, <2>1, <2>2, <2>3, <3>1 DEF InPreorder
    <3>3. CASE place = InvalidId
      BY <2>4, <2>5, <3>2, <3>3 DEF s
    <3>4. CASE place # InvalidId
      <4>1. k - 1 \in 1 .. N /\ order[k - 1] = place
        BY <1>1, <3>2, <3>4
      <4>2. handle(place) = (k - 1) - 1
        BY <1>2, <4>1
      <4>3. handle(place) + 1 = k - 1
        BY <4>1, <4>2
      <4> QED BY <2>4, <2>5, <3>4, <4>3 DEF s
    <3> QED BY <3>3, <3>4
  <2>6. CASE i # 1
    <3>1. i - 1 \in 1 .. Len(s) - 1 /\ i - 1 \in 1 .. Len(s) /\ (i - 1) + 1 = i
      BY <2>1, <2>2, <2>6
    <3>2. PICK j \in 1 .. N : order[j] = s[i - 1]
      BY <1>3, <2>1, <3>1
    <3>3. Follows(s[i - 1], s[i])
      BY <2>1, <3>1 DEF Follows
    <3> DEFINE size == Cardinality(Contract!Subtree(s[i - 1]))
    <3>4. k = j + size
      BY <1>1, <2>3, <3>2, <3>3 DEF InPreorder
    <3>5. size \in Nat
      BY <2>1, <3>1, SubtreeShape
    <3>6. handle(s[i - 1]) = j - 1
      BY <1>2, <3>2
    <3> HIDE DEF size
    <3>7. k - 1 = (j - 1) + size
      BY <1>1, <3>4, <3>5
    <3>8. handle(s[i]) = handle(s[i - 1]) + size
      BY <2>4, <3>6, <3>7
    <3> QED BY <2>6, <3>8 DEF s, size
  <2> QED BY <2>5, <2>6
<1> HIDE DEF first
<1>6. \A place \in Live \cup {InvalidId} :
        \A i \in DOMAIN Sequence(place) :
          handle(Sequence(place)[i]) =
            IF i = 1 THEN first(place)
            ELSE handle(Sequence(place)[i - 1])
                 + Cardinality(Contract!Subtree(Sequence(place)[i - 1]))
  BY <1>5
<1> QED BY <1>6 DEF HandlesPreorder, handle, first

(* Dense handles are given in preorder.                                    *)
THEOREM HandlesRunInPreorder == FreezeSpec => []SnapshotIsPreorder
<1>1. Inv /\ RefreezeIsEqual => SnapshotIsPreorder
  <2>1. SUFFICES ASSUME Inv, RefreezeIsEqual, Current PROVE SnapshotIsPreorder
    BY DEF SnapshotIsPreorder
  <2>2. frozen = Outcome /\ Outcome.status = "frozen"
    BY <2>1 DEF RefreezeIsEqual, Current
  <2>3. MapsFollow(Worked.order, frozen.identities)
    BY <2>1, <2>2, OutcomeMaps
  <2>4. HandlesPreorder(frozen.identities)
    BY <2>1, <2>3, HandlesArePreorder
  <2> QED BY <2>4 DEF SnapshotIsPreorder, HandlesPreorder
<1> QED BY <1>1, FreezeKeepsTree, RefreezeRepeats, PTL

-----------------------------------------------------------------------------
(* The tree by the handles of an order *)

(* The handle an order gives to a node.                                    *)
PlaceOf(order, n) == Position(order, n) - 1

(* A node's children and its parent, by handles.                           *)
RowOf(order, n) == [a \in 1 .. Len(KidsOf[n]) |-> PlaceOf(order, KidsOf[n][a])]
UpOf(order, n) ==
    IF ParentOf[n] = InvalidId THEN InvalidNode ELSE PlaceOf(order, ParentOf[n])

(* The fields of the layout.                                               *)
TreeData(order) == [i \in 1 .. NodeCount |-> FindRecord(order[i]).data]
TreeRows(order) ==
    [p \in 0 .. NodeCount - 1 |-> RowOf(order, order[p + 1])]
TreeUps(order) == [h \in 0 .. NodeCount - 1 |-> UpOf(order, order[h + 1])]
TreeRanks(order) ==
    [h \in 0 .. NodeCount - 1 |->
        Position(KidsOf[ParentOf[order[h + 1]]], order[h + 1])]
TreeWeights(order) ==
    [h \in 0 .. NodeCount - 1 |-> FindRecord(order[h + 1]).parentEdge]
TreeLayout(order, start) ==
    [size |-> NodeCount, data |-> TreeData(order), row |-> TreeRows(order),
     up |-> TreeUps(order), rank |-> TreeRanks(order),
     weight |-> TreeWeights(order), start |-> start,
     nodeSet |-> NodeData, edgeSet |-> EdgeData]

(* Handles and identities correspond.                                      *)
LEMMA PlacesMatch ==
  ASSUME Inv, NEW order, Preorder(order)
  PROVE  /\ NodeCount \in Nat
         /\ \A h \in 0 .. NodeCount - 1 : /\ order[h + 1] \in Live
                                          /\ PlaceOf(order, order[h + 1]) = h
         /\ \A n \in Live : /\ PlaceOf(order, n) \in 0 .. NodeCount - 1
                            /\ order[PlaceOf(order, n) + 1] = n
<1>1. /\ order \in Seq(Live) /\ IsInjective(order) /\ ToSet(order) = Live
      /\ Len(order) = NodeCount /\ NodeCount \in Nat
      /\ DOMAIN order = 1 .. NodeCount
  BY LenProperties DEF Preorder
<1>2. ASSUME NEW i \in 1 .. NodeCount
      PROVE  /\ order[i] \in Live /\ PlaceOf(order, order[i]) = i - 1
             /\ order[PlaceOf(order, order[i]) + 1] = order[i]
  <2>1. Position(order, order[i]) = i
    BY <1>1, FoundInPlace
  <2>2. PlaceOf(order, order[i]) = i - 1 /\ (i - 1) + 1 = i
    BY <1>1, <2>1 DEF PlaceOf
  <2>3. order[i] \in Live
    BY <1>1, ElementOfSeq
  <2> QED BY <2>2, <2>3
<1>3. ASSUME NEW h \in 0 .. NodeCount - 1
      PROVE  order[h + 1] \in Live /\ PlaceOf(order, order[h + 1]) = h
  <2>1. h + 1 \in 1 .. NodeCount /\ (h + 1) - 1 = h
    BY <1>1
  <2> QED BY <1>2, <2>1
<1>4. ASSUME NEW n \in Live
      PROVE  /\ PlaceOf(order, n) \in 0 .. NodeCount - 1
             /\ order[PlaceOf(order, n) + 1] = n
  <2>1. PICK i \in 1 .. NodeCount : order[i] = n
    BY <1>1 DEF ToSet
  <2>2. PlaceOf(order, n) = i - 1 /\ order[PlaceOf(order, n) + 1] = n
    BY <1>2, <2>1
  <2>3. i - 1 \in 0 .. NodeCount - 1
    BY <1>1
  <2> QED BY <2>2, <2>3
<1> QED BY <1>1, <1>3, <1>4

(* The row, the parent and the rank of a node, by handles.                 *)
LEMMA RowsOfTree ==
  ASSUME Inv, NEW order, Preorder(order), NEW n \in Live
  PROVE  /\ Len(RowOf(order, n)) = Len(KidsOf[n])
         /\ RowOf(order, n) \in Seq(0 .. NodeCount - 1)
         /\ \A a \in 1 .. Len(KidsOf[n]) :
               /\ RowOf(order, n)[a] = PlaceOf(order, KidsOf[n][a])
               /\ KidsOf[n][a] \in Live /\ ParentOf[KidsOf[n][a]] = n
               /\ Position(KidsOf[n], KidsOf[n][a]) = a
         /\ UpOf(order, n) \in (0 .. NodeCount - 1) \cup {InvalidNode}
         /\ Position(KidsOf[ParentOf[n]], n) \in 1 .. Len(KidsOf[ParentOf[n]])
         /\ KidsOf[ParentOf[n]][Position(KidsOf[ParentOf[n]], n)] = n
         /\ ParentOf[n] \in Live \cup {InvalidId}
<1> DEFINE l == Len(KidsOf[n])
           H == 0 .. NodeCount - 1
           row == RowOf(order, n)
           p == ParentOf[n]
<1>1. /\ KidsOf[n] \in Seq(Live) /\ IsInjective(KidsOf[n]) /\ l \in Nat
      /\ \A a \in 1 .. l : KidsOf[n][a] \in Live /\ ParentOf[KidsOf[n][a]] = n
  BY PlaceShape
<1>2. \A a \in 1 .. l : PlaceOf(order, KidsOf[n][a]) \in H
  BY <1>1, PlacesMatch
<1>3. \A a \in 1 .. l : Position(KidsOf[n], KidsOf[n][a]) = a
  BY <1>1, FoundInPlace
<1>4. p \in Live \cup {InvalidId}
  BY ForestShape
<1>5. row = [a \in 1 .. l |-> PlaceOf(order, KidsOf[n][a])]
  BY DEF RowOf
<1> HIDE DEF l, H, row, p
<1>6. row \in [1 .. l -> H]
  BY <1>2, <1>5
<1>7. row \in Seq(H) /\ Len(row) = l
  <2>1. row \in Seq(H)
    BY <1>1, <1>6, SeqDef
  <2> QED BY <1>1, <1>6, <2>1, LenProperties
<1>8. Position(KidsOf[p], n) \in 1 .. Len(KidsOf[p])
      /\ KidsOf[p][Position(KidsOf[p], n)] = n
  <2>1. /\ KidsOf[p] \in Seq(Live) /\ IsInjective(KidsOf[p])
        /\ DOMAIN KidsOf[p] = 1 .. Len(KidsOf[p])
        /\ ToSet(KidsOf[p]) = {m \in Live : ParentOf[m] = p}
    BY <1>4, PlaceShape
  <2>2. n \in ToSet(KidsOf[p])
    BY <2>1 DEF p
  <2>3. PICK i \in 1 .. Len(KidsOf[p]) : KidsOf[p][i] = n
    BY <2>1, <2>2 DEF ToSet
  <2>4. Position(KidsOf[p], n) = i
    BY <2>1, <2>3, FoundInPlace
  <2> QED BY <2>3, <2>4
<1>9. UpOf(order, n) \in H \cup {InvalidNode}
  <2>1. p # InvalidId => PlaceOf(order, p) \in H
    BY <1>4, PlacesMatch DEF H
  <2> QED BY <2>1 DEF UpOf, p
<1> QED BY <1>1, <1>3, <1>4, <1>5, <1>7, <1>8, <1>9 DEF l, H, row, p

(* Rows can be counted up: every row starts where those before it end.     *)
LEMMA StartsExist ==
  ASSUME Inv, NEW order, Preorder(order)
  PROVE  \E start \in [0 .. NodeCount -> Nat] :
            /\ start[0] = 0
            /\ \A p \in 0 .. NodeCount - 1 :
                  start[p + 1] = start[p] + Len(RowOf(order, order[p + 1]))
<1> DEFINE n == NodeCount
           len(i) == Len(RowOf(order, order[i]))
           step == [x \in (1 .. n) \X Nat |-> x[2] + len(x[1])]
<1>1. n \in Nat /\ \A i \in 1 .. n : len(i) \in Nat
  <2>1. n \in Nat
    BY PlacesMatch
  <2>2. ASSUME NEW i \in 1 .. n PROVE len(i) \in Nat
    <3>1. i - 1 \in 0 .. n - 1 /\ (i - 1) + 1 = i
      BY <2>1
    <3>2. order[i] \in Live
      BY <3>1, PlacesMatch
    <3> QED BY <3>2, RowsOfTree, LenProperties
  <2> QED BY <2>1, <2>2
<1> HIDE DEF n, len
<1>2. step \in [(1 .. n) \X Nat -> Nat]
  BY <1>1
<1>3. \A i \in 1 .. n : \A v \in Nat : step[<<i, v>>] = v + len(i)
  OBVIOUS
<1> HIDE DEF step
<1>4. PICK f \in [0 .. n -> Nat] : Iterates(n, 0, step, f)
  BY <1>1, <1>2, IterationExists
<1>5. ASSUME NEW p \in 0 .. n - 1 PROVE f[p + 1] = f[p] + len(p + 1)
  <2>1. p + 1 \in 1 .. n /\ (p + 1) - 1 = p /\ p \in 0 .. n
    BY <1>1
  <2>2. f[p] \in Nat
    BY <2>1
  <2>3. f[p + 1] = step[<<p + 1, f[p]>>]
    BY <1>4, <2>1 DEF Iterates
  <2> QED BY <1>3, <2>1, <2>2, <2>3
<1>6. f[0] = 0
  BY <1>4 DEF Iterates
<1> QED BY <1>5, <1>6 DEF n, len

(* The tree is a layout by the handles of a preorder.                      *)
LEMMA TreeIsLayout ==
  ASSUME Inv, NEW order, Preorder(order), NodeCount <= InvalidNode
  PROVE  \E start : IsLayout(TreeLayout(order, start))
<1> DEFINE n == NodeCount
           H == 0 .. n - 1
<1>1. PICK start \in [0 .. n -> Nat] :
            /\ start[0] = 0
            /\ \A p \in 0 .. n - 1 :
                  start[p + 1] = start[p] + Len(RowOf(order, order[p + 1]))
  BY StartsExist
<1> DEFINE L == TreeLayout(order, start)
<1>2. /\ L.size = n /\ L.data = TreeData(order) /\ L.row = TreeRows(order)
      /\ L.up = TreeUps(order) /\ L.rank = TreeRanks(order)
      /\ L.weight = TreeWeights(order) /\ L.start = start
      /\ L.nodeSet = NodeData /\ L.edgeSet = EdgeData
  BY DEF TreeLayout
<1> HIDE DEF L
<1>3. n \in Nat /\ InvalidNode \in Nat
  BY PlacesMatch, InvalidNodeAssumption
<1>4. /\ \A h \in H : order[h + 1] \in Live /\ PlaceOf(order, order[h + 1]) = h
      /\ \A m \in Live : PlaceOf(order, m) \in H
                         /\ order[PlaceOf(order, m) + 1] = m
  BY PlacesMatch
<1>5. \A h \in H :
         /\ L.row[h] = RowOf(order, order[h + 1])
         /\ L.up[h] = UpOf(order, order[h + 1])
         /\ L.rank[h] = Position(KidsOf[ParentOf[order[h + 1]]], order[h + 1])
         /\ L.weight[h] = FindRecord(order[h + 1]).parentEdge
  <2>1. \A h \in H : TreeRows(order)[h] = RowOf(order, order[h + 1])
    BY DEF TreeRows
  <2>2. \A h \in H : TreeUps(order)[h] = UpOf(order, order[h + 1])
    BY DEF TreeUps
  <2>3. \A h \in H : TreeRanks(order)[h] =
           Position(KidsOf[ParentOf[order[h + 1]]], order[h + 1])
    BY DEF TreeRanks
  <2>4. \A h \in H :
           TreeWeights(order)[h] = FindRecord(order[h + 1]).parentEdge
    BY DEF TreeWeights
  <2> QED BY <1>2, <2>1, <2>2, <2>3, <2>4
<1>6. L.data \in Seq(NodeData) /\ Len(L.data) = n
  <2>1. \A i \in 1 .. n : FindRecord(order[i]).data \in NodeData
    <3>1. ASSUME NEW i \in 1 .. n PROVE FindRecord(order[i]).data \in NodeData
      <4>1. i - 1 \in H /\ (i - 1) + 1 = i
        BY <1>3
      <4>2. order[i] \in Live
        BY <1>4, <4>1
      <4> QED BY <4>2, ForestShape
    <3> QED BY <3>1
  <2>2. L.data \in [1 .. n -> NodeData]
    BY <1>2, <2>1 DEF TreeData
  <2>3. L.data \in Seq(NodeData)
    BY <1>3, <2>2, SeqDef
  <2> QED BY <1>3, <2>2, <2>3, LenProperties
<1> HIDE DEF n
<1>7. ASSUME NEW p \in H
      PROVE  /\ L.row[p] \in Seq(H)
             /\ \A a \in 1 .. Len(L.row[p]) :
                   /\ L.up[L.row[p][a]] = p
                   /\ L.rank[L.row[p][a]] = a
                   /\ L.weight[L.row[p][a]] \in EdgeData
  <2> DEFINE m == order[p + 1]
  <2>1. m \in Live /\ PlaceOf(order, m) = p /\ L.row[p] = RowOf(order, m)
    BY <1>4, <1>5
  <2> HIDE DEF m
  <2>2. /\ L.row[p] \in Seq(H) /\ Len(L.row[p]) = Len(KidsOf[m])
        /\ \A a \in 1 .. Len(KidsOf[m]) :
              /\ L.row[p][a] = PlaceOf(order, KidsOf[m][a])
              /\ KidsOf[m][a] \in Live /\ ParentOf[KidsOf[m][a]] = m
              /\ Position(KidsOf[m], KidsOf[m][a]) = a
    BY <2>1, RowsOfTree DEF n
  <2>3. ASSUME NEW a \in 1 .. Len(L.row[p])
        PROVE  /\ L.up[L.row[p][a]] = p
               /\ L.rank[L.row[p][a]] = a
               /\ L.weight[L.row[p][a]] \in EdgeData
    <3> DEFINE c == KidsOf[m][a]
               h == L.row[p][a]
    <3>1. /\ c \in Live /\ ParentOf[c] = m /\ Position(KidsOf[m], c) = a
          /\ h = PlaceOf(order, c)
      BY <2>2
    <3> HIDE DEF c, h
    <3>2. h \in H /\ order[h + 1] = c
      BY <1>4, <3>1
    <3>3. m # InvalidId
      BY <2>1, ForestShape
    <3>4. L.up[h] = p
      BY <1>5, <2>1, <3>1, <3>2, <3>3 DEF UpOf
    <3>5. L.rank[h] = a
      BY <1>5, <3>1, <3>2
    <3>6. L.weight[h] \in EdgeData
      BY <1>5, <3>1, <3>2, <3>3, ForestShape
    <3> QED BY <3>4, <3>5, <3>6 DEF h
  <2> QED BY <2>2, <2>3
<1>8. ASSUME NEW h \in H
      PROVE  /\ L.up[h] \in H \cup {InvalidNode}
             /\ L.rank[h] \in Nat
             /\ L.up[h] # InvalidNode =>
                   /\ L.rank[h] \in 1 .. Len(L.row[L.up[h]])
                   /\ L.row[L.up[h]][L.rank[h]] = h
  <2> DEFINE m == order[h + 1]
             p == ParentOf[m]
             r == Position(KidsOf[p], m)
  <2>1. /\ m \in Live /\ PlaceOf(order, m) = h
        /\ L.up[h] = UpOf(order, m) /\ L.rank[h] = r
    BY <1>4, <1>5
  <2> HIDE DEF m
  <2>2. /\ UpOf(order, m) \in H \cup {InvalidNode}
        /\ r \in 1 .. Len(KidsOf[p]) /\ KidsOf[p][r] = m
        /\ p \in Live \cup {InvalidId}
    BY <2>1, RowsOfTree DEF n
  <2> HIDE DEF r
  <2>3. r \in Nat
    BY <2>2
  <2>4. ASSUME L.up[h] # InvalidNode
        PROVE  /\ r \in 1 .. Len(L.row[L.up[h]])
               /\ L.row[L.up[h]][r] = h
    <3>1. p \in Live /\ L.up[h] = PlaceOf(order, p)
      BY <2>1, <2>2, <2>4 DEF UpOf
    <3> DEFINE u == L.up[h]
    <3>2. u \in H /\ order[u + 1] = p
      BY <1>4, <3>1
    <3> HIDE DEF u, p
    <3>3. L.row[u] = RowOf(order, p)
      BY <1>5, <3>2
    <3>4. /\ Len(RowOf(order, p)) = Len(KidsOf[p])
          /\ \A a \in 1 .. Len(KidsOf[p]) :
                RowOf(order, p)[a] = PlaceOf(order, KidsOf[p][a])
      BY <3>1, RowsOfTree
    <3>5. r \in 1 .. Len(L.row[u]) /\ L.row[u][r] = h
      BY <2>1, <2>2, <3>3, <3>4
    <3> QED BY <3>5 DEF u
  <2> QED BY <2>1, <2>2, <2>3, <2>4
<1>9. ASSUME NEW S \in SUBSET H, S # {}
      PROVE  \E h \in S : L.up[h] \notin S
  <2> DEFINE T == {order[h + 1] : h \in S}
  <2>1. T \in SUBSET Live /\ T # {}
    BY <1>4, <1>9
  <2>2. PICK m \in T : ParentOf[m] \notin T
    BY <2>1, ForestShape
  <2>3. PICK h \in S : m = order[h + 1]
    BY <2>2
  <2>4. SUFFICES ASSUME L.up[h] \in S PROVE FALSE
    OBVIOUS
  <2>5. L.up[h] = UpOf(order, m) /\ m \in Live
    BY <1>5, <2>1, <2>2, <2>3
  <2>6. ParentOf[m] # InvalidId
    <3>1. L.up[h] < InvalidNode
      <4>1. L.up[h] \in 0 .. n - 1
        BY <2>4
      <4> QED BY <1>3, <4>1 DEF n
    <3> QED BY <1>3, <2>5, <3>1 DEF UpOf
  <2>7. ParentOf[m] \in Live /\ L.up[h] = PlaceOf(order, ParentOf[m])
    BY <2>5, <2>6, ForestShape DEF UpOf
  <2>8. order[L.up[h] + 1] = ParentOf[m]
    BY <1>4, <2>7
  <2>9. ParentOf[m] \in T
    BY <2>4, <2>8
  <2> QED BY <2>2, <2>9
<1>10. ASSUME NEW p \in H
       PROVE  L.start[p + 1] = L.start[p] + Len(L.row[p])
  BY <1>1, <1>2, <1>5 DEF n
<1>11. L.start \in [0 .. n -> Nat] /\ L.start[0] = 0
  BY <1>1, <1>2 DEF n
<1>12. IsLayout(L)
  <2>1. n <= InvalidNode /\ L.size = n
    BY <1>2 DEF n
  <2> QED BY <1>2, <1>3, <1>6, <1>7, <1>8, <1>9, <1>10, <1>11, <2>1 DEF IsLayout
<1> QED BY <1>12 DEF L

(* The builder after the first nodes.                                      *)
NodesBefore(data, i) ==
    [nodes |-> [k \in 1 .. i |-> data[k]], edges |-> <<>>,
     parentOf |-> [k \in 1 .. i |-> InvalidNode]]

(* add_node for each node of an order makes that builder.                  *)
LEMMA NodesFilled ==
  ASSUME NEW n \in Nat, NEW order, Len(order) = n,
         NEW S, NEW data \in [1 .. n -> S],
         \A i \in 1 .. n : data[i] = FindRecord(order[i]).data
  PROVE  WithNodes(order) = NodesBefore(data, n)
<1> DEFINE Body(w, i) ==
              IF i = 0 THEN EmptyBuilder
              ELSE WithNode(w[i - 1], FindRecord(order[i]).data)
           added == CHOOSE w : w = [i \in 0 .. n |-> Body(w, i)]
           g == [i \in 0 .. n |-> NodesBefore(data, i)]
<1>1. WithNodes(order) = added[n]
  BY DEF WithNodes
<1>2. NodesBefore(data, 0) = EmptyBuilder
  <2>1. 1 .. 0 = {}
    OBVIOUS
  <2>2. [k \in 1 .. 0 |-> data[k]] = <<>> /\ [k \in 1 .. 0 |-> InvalidNode] = <<>>
    BY <2>1
  <2> QED BY <2>2 DEF NodesBefore, EmptyBuilder
<1>3. ASSUME NEW i \in 1 .. n
      PROVE  WithNode(NodesBefore(data, i - 1), FindRecord(order[i]).data)
                = NodesBefore(data, i)
  <2> DEFINE b == NodesBefore(data, i - 1)
             none == [k \in 1 .. n |-> InvalidNode]
             x == [k \in 1 .. i - 1 |-> data[k]]
             y == [k \in 1 .. i - 1 |-> InvalidNode]
             d == data[i]
  <2>1. /\ b.nodes = x /\ b.edges = <<>> /\ b.parentOf = y
        /\ b = [nodes |-> b.nodes, edges |-> b.edges, parentOf |-> b.parentOf]
    <3> HIDE DEF x, y
    <3>1. b = [nodes |-> x, edges |-> <<>>, parentOf |-> y]
      BY DEF NodesBefore, x, y
    <3> QED BY <3>1
  <2> HIDE DEF b
  <2>2. Append(x, d) = [k \in 1 .. i |-> data[k]]
    BY ListGrows
  <2>3. Append(y, InvalidNode) = [k \in 1 .. i |-> InvalidNode]
    <3>1. none \in [1 .. n -> {InvalidNode}]
      OBVIOUS
    <3>2. \A k \in 1 .. n : none[k] = InvalidNode
      OBVIOUS
    <3>3. \A k \in 1 .. i : k \in 1 .. n
      OBVIOUS
    <3>4. \A k \in 1 .. i - 1 : k \in 1 .. n
      OBVIOUS
    <3> HIDE DEF none
    <3>5. [k \in 1 .. i |-> none[k]]
             = Append([k \in 1 .. i - 1 |-> none[k]], none[i])
      BY <3>1, ListGrows
    <3>6. [k \in 1 .. i |-> none[k]] = [k \in 1 .. i |-> InvalidNode]
      BY <3>2, <3>3
    <3>7. [k \in 1 .. i - 1 |-> none[k]] = y
      BY <3>2, <3>4
    <3> QED BY <3>2, <3>5, <3>6, <3>7
  <2>4. WithNode(b, d) =
           [nodes |-> Append(b.nodes, d), edges |-> b.edges,
            parentOf |-> Append(b.parentOf, InvalidNode)]
    BY <2>1, NodeAppended
  <2> HIDE DEF x, y
  <2>5. WithNode(b, d) = NodesBefore(data, i)
    BY <2>1, <2>2, <2>3, <2>4 DEF NodesBefore
  <2>6. d = FindRecord(order[i]).data
    OBVIOUS
  <2> QED BY <2>5, <2>6 DEF b
<1>4. g = [i \in 0 .. n |-> Body(g, i)]
  <2>1. ASSUME NEW i \in 0 .. n PROVE NodesBefore(data, i) = Body(g, i)
    <3>1. CASE i = 0
      BY <1>2, <3>1
    <3>2. CASE i # 0
      <4>1. i \in 1 .. n /\ i - 1 \in 0 .. n
        BY <3>2
      <4>2. g[i - 1] = NodesBefore(data, i - 1)
        BY <4>1
      <4>3. Body(g, i) = WithNode(g[i - 1], FindRecord(order[i]).data)
        BY <3>2
      <4> QED BY <1>3, <4>1, <4>2, <4>3
    <3> QED BY <3>1, <3>2
  <2> HIDE DEF Body
  <2>2. \A i \in 0 .. n : NodesBefore(data, i) = Body(g, i)
    BY <2>1
  <2> QED BY <2>2
<1> HIDE DEF g
<1>5. added = [i \in 0 .. n |-> Body(added, i)]
  <2> HIDE DEF Body
  <2>1. \E w : w = [i \in 0 .. n |-> Body(w, i)]
    BY <1>4
  <2> QED BY <2>1
<1> HIDE DEF added
<1>6. \A i \in 0 .. n : added[i] = Body(added, i)
  <2> HIDE DEF Body
  <2> QED BY <1>5, Zenon
<1> DEFINE T == {i \in 0 .. n : added[i] = NodesBefore(data, i)}
<1>7. 0 \in T
  <2>1. 0 \in 0 .. n
    OBVIOUS
  <2>2. added[0] = EmptyBuilder
    BY <1>6, <2>1
  <2> QED BY <1>2, <2>1, <2>2
<1>8. ASSUME NEW i \in 1 .. n, i - 1 \in T PROVE i \in T
  <2>1. i \in 0 .. n /\ i # 0
    OBVIOUS
  <2>2. added[i] = WithNode(added[i - 1], FindRecord(order[i]).data)
    BY <1>6, <2>1
  <2>3. added[i - 1] = NodesBefore(data, i - 1)
    BY <1>8
  <2> QED BY <1>3, <2>1, <2>2, <2>3
<1> HIDE DEF T, Body
<1>9. \A i \in 0 .. n : i \in T
  BY <1>7, <1>8, RoundInduction
<1>10. n \in 0 .. n
  OBVIOUS
<1> QED BY <1>1, <1>9, <1>10 DEF T

(* The builder and the verdict between two edges of the layout.            *)
FillingTo(L, i, j) == [builder |-> BuilderTo(L, i, j), edgesValid |-> TRUE]

(* An order with its index, and the layout of the tree by it.              *)
IndexedLayout(w, L) ==
    /\ Preorder(w.order) /\ NodeCount <= InvalidNode
    /\ \A i \in 1 .. NodeCount : w.denseById[w.order[i]] = AsHandle(i - 1)
    /\ IsLayout(L) /\ \E start : L = TreeLayout(w.order, start)

(* What freeze reads off the tree for an edge is what the layout says.     *)
LEMMA EdgeOfLayout ==
  ASSUME Inv, NEW w, NEW L, IndexedLayout(w, L), NEW from \in 0 .. NodeCount - 1
  PROVE  LET kids == Children(At(w.order, from))
         IN  /\ AsHandle(from) = from
             /\ Len(L.row[from]) = Len(kids) /\ Len(kids) \in Nat
             /\ \A j \in 1 .. Len(kids) :
                   /\ w.denseById[kids[j]] = L.row[from][j]
                   /\ FindRecord(kids[j]).parentEdge = L.weight[L.row[from][j]]
<1> DEFINE n == NodeCount
           order == w.order
           m == order[from + 1]
           kids == Children(At(w.order, from))
<1>1. /\ Preorder(order) /\ n <= InvalidNode /\ n \in Nat /\ InvalidNode \in Nat
  BY PlacesMatch, InvalidNodeAssumption DEF IndexedLayout
<1>2. PICK start : L = TreeLayout(order, start)
  BY DEF IndexedLayout
<1>3. L.row = TreeRows(order) /\ L.weight = TreeWeights(order)
  BY <1>2 DEF TreeLayout
<1>4. m \in Live /\ PlaceOf(order, m) = from
  BY <1>1, PlacesMatch
<1>5. kids = KidsOf[m]
  BY <1>4, InvParts DEF At
<1> HIDE DEF m, kids
<1>6. L.row[from] = RowOf(order, m)
  BY <1>3 DEF TreeRows, m
<1>7. AsHandle(from) = from
  <2>1. from \in 0 .. InvalidNode
    BY <1>1
  <2> QED BY <2>1, SmallHandles
<1>8. /\ Len(L.row[from]) = Len(kids) /\ Len(kids) \in Nat
      /\ \A j \in 1 .. Len(kids) :
            /\ L.row[from][j] = PlaceOf(order, kids[j]) /\ kids[j] \in Live
  <2>1. /\ Len(RowOf(order, m)) = Len(KidsOf[m])
        /\ \A j \in 1 .. Len(KidsOf[m]) :
              /\ RowOf(order, m)[j] = PlaceOf(order, KidsOf[m][j])
              /\ KidsOf[m][j] \in Live
    BY <1>1, <1>4, RowsOfTree
  <2>2. Len(KidsOf[m]) \in Nat
    BY <1>4, PlaceShape
  <2> QED BY <1>5, <1>6, <2>1, <2>2
<1>9. ASSUME NEW j \in 1 .. Len(kids)
      PROVE  /\ w.denseById[kids[j]] = L.row[from][j]
             /\ FindRecord(kids[j]).parentEdge = L.weight[L.row[from][j]]
  <2> DEFINE c == kids[j]
             h == PlaceOf(order, c)
  <2>1. c \in Live /\ L.row[from][j] = h
    BY <1>8
  <2> HIDE DEF c
  <2>2. h \in 0 .. n - 1 /\ order[h + 1] = c
    BY <1>1, <2>1, PlacesMatch
  <2> HIDE DEF h
  <2>3. h + 1 \in 1 .. n /\ (h + 1) - 1 = h /\ h \in 0 .. InvalidNode
    BY <1>1, <2>2
  <2>4. w.denseById[order[h + 1]] = AsHandle((h + 1) - 1)
    BY <2>3 DEF IndexedLayout
  <2>5. w.denseById[c] = h
    BY <2>2, <2>3, <2>4, SmallHandles
  <2>6. L.weight[h] = FindRecord(order[h + 1]).parentEdge
    BY <1>3, <2>2 DEF TreeWeights
  <2> QED BY <2>1, <2>2, <2>5, <2>6 DEF c
<1> QED BY <1>7, <1>8, <1>9 DEF kids

(* One row of edges goes in whole.                                         *)
LEMMA RowFills ==
  ASSUME Inv, NEW w, NEW L, IndexedLayout(w, L), NEW from \in 0 .. NodeCount - 1
  PROVE  RowLinked(FillingTo(L, from, 0), w, from) = FillingTo(L, from + 1, 0)
<1> DEFINE kids == Children(At(w.order, from))
           n == Len(kids)
           Body(r, j) ==
              IF j = 0 THEN FillingTo(L, from, 0)
              ELSE Linked(r[j - 1], AsHandle(from), w.denseById[kids[j]], kids[j])
           linked == CHOOSE r : r = [j \in 0 .. n |-> Body(r, j)]
           g == [j \in 0 .. n |-> FillingTo(L, from, j)]
<1>1. RowLinked(FillingTo(L, from, 0), w, from) = linked[n]
  BY DEF RowLinked
<1>2. /\ AsHandle(from) = from
      /\ Len(L.row[from]) = n /\ n \in Nat
      /\ \A j \in 1 .. n :
            /\ w.denseById[kids[j]] = L.row[from][j]
            /\ FindRecord(kids[j]).parentEdge = L.weight[L.row[from][j]]
  BY EdgeOfLayout
<1>3. IsLayout(L) /\ from \in 0 .. L.size - 1
  BY DEF IndexedLayout, TreeLayout
<1> HIDE DEF n, kids
<1>4. ASSUME NEW j \in 1 .. n
      PROVE  Linked(FillingTo(L, from, j - 1), AsHandle(from),
                    w.denseById[kids[j]], kids[j]) = FillingTo(L, from, j)
  <2> DEFINE to == L.row[from][j]
             b == BuilderTo(L, from, j - 1)
             f == FillingTo(L, from, j - 1)
  <2>1. /\ AcceptsEdge(b, from, to)
        /\ WithEdge(b, from, to, L.weight[to]) = BuilderTo(L, from, j)
    BY <1>2, <1>3, NextEdgeAccepted
  <2>2. f.builder = b /\ f.edgesValid = TRUE
    BY DEF FillingTo
  <2> HIDE DEF b, f, to
  <2>3. Linked(f, from, to, kids[j]) =
          [builder |-> IF AcceptsEdge(b, from, to)
                       THEN WithEdge(b, from, to, FindRecord(kids[j]).parentEdge)
                       ELSE b,
           edgesValid |-> AcceptsEdge(b, from, to) /\ TRUE]
    BY <2>2 DEF Linked
  <2>4. Linked(f, from, to, kids[j]) =
          [builder |-> WithEdge(b, from, to, FindRecord(kids[j]).parentEdge),
           edgesValid |-> TRUE]
    BY <2>1, <2>3
  <2>5. FindRecord(kids[j]).parentEdge = L.weight[to]
    BY <1>2 DEF to
  <2>6. Linked(f, from, to, kids[j]) = FillingTo(L, from, j)
    BY <2>1, <2>4, <2>5 DEF FillingTo
  <2>7. w.denseById[kids[j]] = to
    BY <1>2 DEF to
  <2> QED BY <1>2, <2>6, <2>7 DEF f
<1>5. g = [j \in 0 .. n |-> Body(g, j)]
  <2>1. ASSUME NEW j \in 0 .. n PROVE FillingTo(L, from, j) = Body(g, j)
    <3>1. CASE j = 0
      BY <3>1
    <3>2. CASE j # 0
      <4>1. j \in 1 .. n /\ j - 1 \in 0 .. n
        BY <1>2, <3>2
      <4>2. g[j - 1] = FillingTo(L, from, j - 1)
        BY <4>1
      <4>3. Body(g, j) = Linked(g[j - 1], AsHandle(from),
                                w.denseById[kids[j]], kids[j])
        BY <3>2
      <4> QED BY <1>4, <4>1, <4>2, <4>3
    <3> QED BY <3>1, <3>2
  <2> HIDE DEF Body
  <2>2. \A j \in 0 .. n : FillingTo(L, from, j) = Body(g, j)
    BY <2>1
  <2> QED BY <2>2
<1> HIDE DEF g
<1>6. linked = [j \in 0 .. n |-> Body(linked, j)]
  <2> HIDE DEF Body
  <2>1. \E r : r = [j \in 0 .. n |-> Body(r, j)]
    BY <1>5
  <2> QED BY <2>1
<1> HIDE DEF linked
<1>7. \A j \in 0 .. n : linked[j] = Body(linked, j)
  <2> HIDE DEF Body
  <2> QED BY <1>6, Zenon
<1> DEFINE T == {j \in 0 .. n : linked[j] = FillingTo(L, from, j)}
<1>8. 0 \in T
  <2>1. 0 \in 0 .. n
    BY <1>2
  <2> QED BY <1>7, <2>1
<1>9. ASSUME NEW j \in 1 .. n, j - 1 \in T PROVE j \in T
  <2>1. j \in 0 .. n /\ j # 0
    BY <1>2
  <2>2. linked[j] = Linked(linked[j - 1], AsHandle(from),
                           w.denseById[kids[j]], kids[j])
    BY <1>7, <2>1
  <2>3. linked[j - 1] = FillingTo(L, from, j - 1)
    BY <1>9
  <2> QED BY <1>4, <2>1, <2>2, <2>3
<1> HIDE DEF T, Body
<1>10. \A j \in 0 .. n : j \in T
  BY <1>2, <1>8, <1>9, RoundInduction
<1>11. n \in 0 .. n
  BY <1>2
<1>12. linked[n] = FillingTo(L, from, n)
  BY <1>10, <1>11 DEF T
<1>13. BuilderTo(L, from, n) = BuilderTo(L, from + 1, 0)
  BY <1>2, <1>3, RowEnds
<1> QED BY <1>1, <1>12, <1>13 DEF FillingTo

(* And so do the rows, one after another.                                  *)
LEMMA AllRowsFill ==
  ASSUME Inv, NEW w, NEW L, IndexedLayout(w, L)
  PROVE  Filled(w) = FillingTo(L, NodeCount, 0)
<1> DEFINE order == w.order
           n == NodeCount
           first == [builder |-> WithNodes(order), edgesValid |-> TRUE]
           Body(r, i) ==
              IF i = 0 THEN first ELSE RowLinked(r[i - 1], w, i - 1)
           filling == CHOOSE r : r = [i \in 0 .. n |-> Body(r, i)]
           g == [i \in 0 .. n |-> FillingTo(L, i, 0)]
<1>1. n \in Nat /\ Len(order) = n /\ Preorder(order)
  BY PlacesMatch DEF IndexedLayout, Preorder
<1>2. Filled(w) = filling[n]
  BY <1>1 DEF Filled
<1>3. first = FillingTo(L, 0, 0)
  <2> DEFINE data == TreeData(order)
  <2>1. PICK start : L = TreeLayout(order, start)
    BY DEF IndexedLayout
  <2>2. L.size = n /\ L.data = data /\ L.nodeSet = NodeData /\ IsLayout(L)
    BY <2>1 DEF TreeLayout, IndexedLayout
  <2>3. data \in Seq(NodeData) /\ Len(data) = n
    BY <2>2 DEF IsLayout
  <2>4. data \in [1 .. n -> NodeData]
    BY <2>3, LenProperties
  <2>5. \A i \in 1 .. n : data[i] = FindRecord(order[i]).data
    BY DEF TreeData
  <2> HIDE DEF data, n
  <2>6. WithNodes(order) = NodesBefore(data, n)
    BY <1>1, <2>4, <2>5, NodesFilled
  <2>7. [k \in 1 .. n |-> data[k]] = data
    BY <2>4
  <2>8. BuilderTo(L, 0, 0) = [nodes |-> data, edges |-> <<>>,
                              parentOf |-> [k \in 1 .. n |-> InvalidNode]]
    BY <2>2, RowsStartAndEnd
  <2>9. WithNodes(order) = BuilderTo(L, 0, 0)
    BY <2>6, <2>7, <2>8 DEF NodesBefore
  <2> QED BY <2>9 DEF FillingTo
<1>4. ASSUME NEW i \in 1 .. n
      PROVE  RowLinked(FillingTo(L, i - 1, 0), w, i - 1) = FillingTo(L, i, 0)
  <2>1. i - 1 \in 0 .. NodeCount - 1 /\ (i - 1) + 1 = i
    BY <1>1
  <2>2. RowLinked(FillingTo(L, i - 1, 0), w, i - 1)
           = FillingTo(L, (i - 1) + 1, 0)
    BY <2>1, RowFills
  <2> QED BY <2>1, <2>2
<1> HIDE DEF n, first
<1>5. g = [i \in 0 .. n |-> Body(g, i)]
  <2>1. ASSUME NEW i \in 0 .. n PROVE FillingTo(L, i, 0) = Body(g, i)
    <3>1. CASE i = 0
      BY <1>3, <3>1
    <3>2. CASE i # 0
      <4>1. i \in 1 .. n /\ i - 1 \in 0 .. n
        BY <1>1, <3>2
      <4>2. g[i - 1] = FillingTo(L, i - 1, 0)
        BY <4>1
      <4>3. Body(g, i) = RowLinked(g[i - 1], w, i - 1)
        BY <3>2
      <4> QED BY <1>4, <4>1, <4>2, <4>3
    <3> QED BY <3>1, <3>2
  <2> HIDE DEF Body
  <2>2. \A i \in 0 .. n : FillingTo(L, i, 0) = Body(g, i)
    BY <2>1
  <2> QED BY <2>2
<1> HIDE DEF g
<1>6. filling = [i \in 0 .. n |-> Body(filling, i)]
  <2> HIDE DEF Body
  <2>1. \E r : r = [i \in 0 .. n |-> Body(r, i)]
    BY <1>5
  <2> QED BY <2>1
<1> HIDE DEF filling
<1>7. \A i \in 0 .. n : filling[i] = Body(filling, i)
  <2> HIDE DEF Body
  <2> QED BY <1>6, Zenon
<1> DEFINE T == {i \in 0 .. n : filling[i] = FillingTo(L, i, 0)}
<1>8. 0 \in T
  <2>1. 0 \in 0 .. n
    BY <1>1
  <2> QED BY <1>3, <1>7, <2>1
<1>9. ASSUME NEW i \in 1 .. n, i - 1 \in T PROVE i \in T
  <2>1. i \in 0 .. n /\ i # 0
    BY <1>1
  <2>2. filling[i] = RowLinked(filling[i - 1], w, i - 1)
    BY <1>7, <2>1
  <2>3. filling[i - 1] = FillingTo(L, i - 1, 0)
    BY <1>9
  <2> QED BY <1>4, <2>1, <2>2, <2>3
<1> HIDE DEF T, Body
<1>10. \A i \in 0 .. n : i \in T
  BY <1>1, <1>8, <1>9, RoundInduction
<1>11. n \in 0 .. n
  BY <1>1
<1>12. filling[n] = FillingTo(L, n, 0)
  BY <1>10, <1>11 DEF T
<1> QED BY <1>2, <1>12 DEF n

(* What freeze hands to build is the tree's layout.                        *)
LEMMA FilledByLayout ==
  ASSUME Inv, NodeCount <= InvalidNode
  PROVE  \E L : /\ IndexedLayout(Worked, L)
                /\ Filled(Worked) = FillingTo(L, L.size, 0)
                /\ L.size = NodeCount
<1>1. /\ Preorder(Worked.order)
      /\ \A i \in 1 .. NodeCount :
            Worked.denseById[Worked.order[i]] = AsHandle(i - 1)
  BY WorkIndexes
<1>2. PICK start : IsLayout(TreeLayout(Worked.order, start))
  BY <1>1, TreeIsLayout
<1> DEFINE L == TreeLayout(Worked.order, start)
<1>3. IndexedLayout(Worked, L)
  BY <1>1, <1>2 DEF IndexedLayout
<1>4. Filled(Worked) = FillingTo(L, NodeCount, 0)
  BY <1>3, AllRowsFill
<1>5. L.size = NodeCount
  BY DEF TreeLayout
<1> QED BY <1>3, <1>4, <1>5

(* How a freeze of a reachable tree ends.                                  *)
LEMMA FreezeEnds ==
  ASSUME Inv
  PROVE  /\ OutcomeFollowsSize
         /\ Outcome.status = "frozen" =>
               \E L : /\ IndexedLayout(Worked, L)
                      /\ Outcome.topology = Topology(BuilderTo(L, L.size, 0))
<1>1. NodeCount \in Nat /\ InvalidNode \in Nat
  BY ForestShape, InvalidNodeAssumption
<1>2. CASE NodeCount > InvalidNode
  <2>1. Validate = Verdict("node_count_overflow", InvalidId)
    BY <1>2, ValidateAccepts DEF ValidateAcceptsReachableTrees
  <2>2. FreezeFailure(Validate.error) = "node_count_overflow"
    BY <2>1 DEF FreezeFailure, Verdict
  <2>3. Outcome = [status |-> "node_count_overflow"]
    BY <2>2 DEF Outcome
  <2>4. ~ (NodeCount < InvalidNode) /\ NodeCount # InvalidNode
    BY <1>1, <1>2
  <2> QED BY <2>3, <2>4 DEF OutcomeFollowsSize
<1>3. CASE NodeCount <= InvalidNode
  <2>1. PICK L : /\ IndexedLayout(Worked, L)
                 /\ Filled(Worked) = FillingTo(L, L.size, 0)
                 /\ L.size = NodeCount
    BY <1>3, FilledByLayout
  <2> DEFINE b == BuilderTo(L, L.size, 0)
             f == Filled(Worked)
             static == Build(f.builder)
  <2>2. f.builder = b /\ f.edgesValid = TRUE
    BY <2>1 DEF FillingTo
  <2>3. IsLayout(L)
    BY <2>1 DEF IndexedLayout
  <2>4. Build(b) = IF L.size < InvalidNode
                   THEN [status |-> "built", topology |-> Topology(b)]
                   ELSE [status |-> "undefined"]
    BY <2>3, LayoutBuilds
  <2>5. Validate = Accepted
    BY <1>1, <1>3, ValidateAccepts DEF ValidateAcceptsReachableTrees
  <2>6. FreezeFailure(Validate.error) = "none"
    BY <2>5 DEF FreezeFailure, Accepted, Verdict
  <2> DEFINE ids == [runtimeToAuthoring |-> Worked.order,
                     authoringToRuntime |-> AuthoringToRuntime(Worked.order),
                     sourceRevision |-> revision]
  <2>7. Outcome =
          IF ~f.edgesValid \/ static.status = "nullopt"
          THEN [status |-> "static_build_failed"]
          ELSE IF static.status = "undefined" THEN static
          ELSE [status |-> "frozen", topology |-> static.topology,
                identities |-> ids]
    BY <2>6 DEF Outcome
  <2> HIDE DEF f, static, ids, b
  <2>8. static = Build(b)
    BY <2>2 DEF static
  <2>9. CASE NodeCount < InvalidNode
    <3>1. static = [status |-> "built", topology |-> Topology(b)]
      BY <2>1, <2>4, <2>8, <2>9
    <3>2. Outcome = [status |-> "frozen", topology |-> Topology(b),
                     identities |-> ids]
      BY <2>2, <2>7, <3>1
    <3>3. Outcome.topology = Topology(BuilderTo(L, L.size, 0))
      BY <3>2 DEF b
    <3> QED BY <2>1, <2>9, <3>2, <3>3 DEF OutcomeFollowsSize
  <2>10. CASE NodeCount = InvalidNode
    <3>1. static = [status |-> "undefined"]
      BY <1>1, <2>1, <2>4, <2>8, <2>10
    <3>2. Outcome = [status |-> "undefined"]
      BY <2>2, <2>7, <3>1
    <3> QED BY <1>1, <2>10, <3>2 DEF OutcomeFollowsSize
  <2> QED BY <1>1, <1>3, <2>9, <2>10
<1> QED BY <1>1, <1>2, <1>3

(* Only the number of nodes decides how a freeze ends: the edges of the    *)
(* preorder are always accepted, and never form a cycle.                   *)
THEOREM OutcomesFollowSize == FreezeSpec => []OutcomeFollowsSize
<1>1. Inv => OutcomeFollowsSize
  BY FreezeEnds
<1> QED BY <1>1, FreezeKeepsTree, PTL

(* Roots have handles in their order.                                      *)
LEMMA RootsAscend ==
  ASSUME Inv, NEW order, Preorder(order)
  PROVE  LET H == [i \in 1 .. Len(roots) |-> PlaceOf(order, roots[i])]
         IN  /\ H \in Seq(0 .. NodeCount - 1) /\ Len(H) = Len(roots)
             /\ Ascends(H)
<1> DEFINE H == [i \in 1 .. Len(roots) |-> PlaceOf(order, roots[i])]
           m == Len(roots)
           D == 0 .. NodeCount - 1
<1>1. /\ roots = KidsOf[InvalidId] /\ m \in Nat
      /\ \A i \in 1 .. m : roots[i] \in Live
  <2>1. roots = KidsOf[InvalidId]
    BY InvParts
  <2> QED BY <2>1, PlaceShape
<1>2. \A i \in 1 .. m : /\ PlaceOf(order, roots[i]) \in D
                        /\ order[PlaceOf(order, roots[i]) + 1] = roots[i]
  BY <1>1, PlacesMatch
<1>3. H \in [1 .. m -> D]
  BY <1>2
<1>4. \A i \in 1 .. m : H[i] \in D /\ order[H[i] + 1] = roots[i]
  BY <1>2
<1> HIDE DEF m, H
<1>5. H \in Seq(D)
  <2> HIDE DEF D
  <2> QED BY <1>1, <1>3, SeqDef
<1>6. Len(H) = m
  BY <1>1, <1>3, <1>5, LenProperties
<1>7. NodeCount \in Nat /\ Len(order) = NodeCount
  BY PlacesMatch DEF Preorder
<1>8. ASSUME NEW i \in 1 .. m - 1 PROVE H[i] < H[i + 1]
  <2>1. i \in 1 .. m /\ i + 1 \in 1 .. m
    BY <1>1
  <2> DEFINE a == H[i]
             b == H[i + 1]
             size == Cardinality(Contract!Subtree(roots[i]))
  <2>2. /\ a \in D /\ b \in D
        /\ order[a + 1] = roots[i] /\ order[b + 1] = roots[i + 1]
    BY <1>4, <2>1
  <2>3. Follows(roots[i], roots[i + 1])
    BY <1>1 DEF Follows, m
  <2> HIDE DEF a, b
  <2>4. a + 1 \in 1 .. Len(order) /\ b + 1 \in 1 .. Len(order)
    BY <1>7, <2>2
  <2>5. b + 1 = (a + 1) + size
    BY <2>2, <2>3, <2>4 DEF Preorder, InPreorder
  <2>6. size \in Nat /\ size # 0
    <3> DEFINE sub == Contract!Subtree(roots[i])
    <3>1. IsFiniteSet(sub) /\ roots[i] \in sub /\ Cardinality(sub) \in Nat
      BY <1>1, <2>1, SubtreeShape
    <3> HIDE DEF sub
    <3>2. Cardinality(sub) # 0
      BY <3>1, FS_EmptySet
    <3> QED BY <3>1, <3>2 DEF sub
  <2> HIDE DEF size
  <2>7. a < b
    BY <2>2, <2>5, <2>6
  <2> QED BY <2>7 DEF a, b
<1> DEFINE T == {j \in 0 .. m : \A i \in 1 .. m : i < j => H[i] < H[j]}
<1>9. 0 \in T
  BY <1>1
<1>10. ASSUME NEW j \in 1 .. m, j - 1 \in T PROVE j \in T
  <2>1. ASSUME NEW i \in 1 .. m, i < j PROVE H[i] < H[j]
    <3>1. j - 1 \in 1 .. m - 1 /\ (j - 1) + 1 = j /\ j - 1 \in 1 .. m
      BY <1>1, <2>1
    <3>2. H[j - 1] < H[j]
      BY <1>8, <3>1
    <3>3. /\ H[i] \in D /\ H[j] \in D /\ H[j - 1] \in D
      BY <1>4, <3>1
    <3>4. CASE i = j - 1
      BY <3>2, <3>4
    <3>5. CASE i # j - 1
      <4>1. i < j - 1
        BY <2>1, <3>5
      <4>2. H[i] < H[j - 1]
        BY <1>10, <4>1
      <4> QED BY <3>2, <3>3, <4>2
    <3> QED BY <3>4, <3>5
  <2>2. j \in 0 .. m
    BY <1>1
  <2> QED BY <2>1, <2>2
<1> HIDE DEF T
<1>11. \A j \in 0 .. m : j \in T
  BY <1>1, <1>9, <1>10, RoundInduction
<1>12. \A i, j \in 1 .. m : i < j => H[i] < H[j]
  <2>1. \A j \in 1 .. m : j \in 0 .. m
    BY <1>1
  <2> QED BY <1>11, <2>1 DEF T
<1>13. Ascends(H)
  BY <1>6, <1>12 DEF Ascends
<1> QED BY <1>5, <1>6, <1>13 DEF H, m

(* The plan's roots are the tree's, in their order.                        *)
LEMMA RootsOfPlan ==
  ASSUME Inv, NEW order, Preorder(order), NodeCount <= InvalidNode,
         NEW up, \A h \in 0 .. NodeCount - 1 : up[h] = UpOf(order, order[h + 1])
  PROVE  NodesWith([i \in 1 .. NodeCount |-> i - 1],
                   [h \in 0 .. NodeCount - 1 |-> up[h]], InvalidNode)
            = [i \in 1 .. Len(roots) |-> PlaceOf(order, roots[i])]
<1> DEFINE n == NodeCount
           D == 0 .. n - 1
           list == [i \in 1 .. n |-> i - 1]
           ups == [h \in D |-> up[h]]
           R == NodesWith(list, ups, InvalidNode)
           H == [i \in 1 .. Len(roots) |-> PlaceOf(order, roots[i])]
<1>1. n \in Nat /\ InvalidNode \in Nat /\ n <= InvalidNode
  BY PlacesMatch, InvalidNodeAssumption
<1>2. /\ \A h \in D : order[h + 1] \in Live /\ PlaceOf(order, order[h + 1]) = h
      /\ \A k \in Live : PlaceOf(order, k) \in D
                         /\ order[PlaceOf(order, k) + 1] = k
  BY PlacesMatch
<1>3. \A h \in D : ups[h] = UpOf(order, order[h + 1])
  OBVIOUS
<1>4. H \in Seq(D) /\ Ascends(H) /\ Len(H) = Len(roots)
  BY RootsAscend
<1>5. /\ \A i \in 1 .. Len(roots) : H[i] = PlaceOf(order, roots[i])
      /\ DOMAIN H = 1 .. Len(roots)
  OBVIOUS
<1> HIDE DEF n, H, ups
<1>6. /\ list \in [1 .. n -> D] /\ \A i \in 1 .. n : list[i] = i - 1
  BY <1>1
<1> HIDE DEF list
<1>7. list \in Seq(D) /\ Len(list) = n /\ DOMAIN list = 1 .. n
  <2>1. list \in Seq(D)
    <3> HIDE DEF D
    <3> QED BY <1>1, <1>6, SeqDef
  <2> QED BY <1>1, <1>6, <2>1, LenProperties
<1>8. ToSet(list) = D
  <2>1. ASSUME NEW h \in D PROVE \E i \in 1 .. n : list[i] = h
    <3>1. h + 1 \in 1 .. n /\ (h + 1) - 1 = h
      BY <1>1
    <3> QED BY <1>6, <3>1
  <2> QED BY <1>6, <1>7, <2>1 DEF ToSet
<1>9. Ascends(list)
  BY <1>6, <1>7 DEF Ascends
<1>10. D \subseteq Nat /\ IsFiniteSet(D)
  <2>1. 0 \in Int /\ n - 1 \in Int
    BY <1>1
  <2> QED BY <2>1, FS_Interval
<1>11. \A u \in Seq(D) : u \in Seq(Nat)
  <2> HIDE DEF D
  <2>1. ASSUME NEW u \in Seq(D) PROVE u \in Seq(Nat)
    <3>1. Len(u) \in Nat /\ u \in [1 .. Len(u) -> D]
      BY LenProperties
    <3>2. u \in [1 .. Len(u) -> Nat]
      BY <1>10, <3>1
    <3> QED BY <3>1, <3>2, SeqDef
  <2> QED BY <2>1
<1>12. /\ R \in Seq(D) /\ ToSet(R) = {h \in D : ups[h] = InvalidNode}
       /\ Ascends(R)
  BY <1>7, <1>8, <1>9, <1>11, NodesWithMembers, NodesWithAscends
<1> HIDE DEF R
<1>13. ASSUME NEW h \in D
       PROVE  ups[h] = InvalidNode <=> ParentOf[order[h + 1]] = InvalidId
  <2> DEFINE k == order[h + 1]
  <2>1. k \in Live /\ ups[h] = UpOf(order, k)
    BY <1>2, <1>3
  <2> HIDE DEF k
  <2>2. CASE ParentOf[k] = InvalidId
    BY <2>1, <2>2 DEF UpOf, k
  <2>3. CASE ParentOf[k] # InvalidId
    <3>1. ParentOf[k] \in Live /\ ups[h] = PlaceOf(order, ParentOf[k])
      BY <2>1, <2>3, ForestShape DEF UpOf
    <3>2. ups[h] \in 0 .. n - 1
      BY <1>2, <3>1
    <3>3. ups[h] # InvalidNode
      BY <1>1, <3>2
    <3> QED BY <2>3, <3>3 DEF k
  <2> QED BY <2>2, <2>3
<1>14. ToSet(H) = ToSet(R)
  <2>1. /\ DOMAIN roots = 1 .. Len(roots)
        /\ ToSet(roots) = {m \in Live : ParentOf[m] = InvalidId}
    BY ForestShape, LenProperties
  <2>2. ASSUME NEW i \in 1 .. Len(roots) PROVE H[i] \in ToSet(R)
    <3>1. roots[i] \in Live /\ ParentOf[roots[i]] = InvalidId
      BY <2>1 DEF ToSet
    <3>2. H[i] \in D /\ order[H[i] + 1] = roots[i]
      BY <1>2, <1>5, <3>1
    <3> QED BY <1>12, <1>13, <3>1, <3>2
  <2>3. ASSUME NEW h \in ToSet(R) PROVE \E i \in 1 .. Len(roots) : H[i] = h
    <3>1. h \in D /\ ParentOf[order[h + 1]] = InvalidId
      BY <1>12, <1>13
    <3>2. order[h + 1] \in ToSet(roots)
      BY <1>2, <2>1, <3>1
    <3>3. PICK i \in 1 .. Len(roots) : roots[i] = order[h + 1]
      BY <2>1, <3>2 DEF ToSet
    <3>4. H[i] = h
      BY <1>2, <1>5, <3>1, <3>3
    <3> QED BY <3>4
  <2>4. ToSet(H) = {H[i] : i \in 1 .. Len(roots)}
    BY <1>5 DEF ToSet
  <2> QED BY <2>2, <2>3, <2>4
<1>15. IsFiniteSet(ToSet(R))
  BY <1>10, <1>12, FS_Subset
<1>16. R = H
  <2>1. R \in Seq(Nat) /\ H \in Seq(Nat)
    BY <1>4, <1>11, <1>12
  <2> QED BY <1>4, <1>12, <1>14, <1>15, <2>1, AscentIsUnique
<1> QED BY <1>16 DEF R, H, list, ups, n

-----------------------------------------------------------------------------
(* The snapshot *)

(* What SnapshotMatchesSource says of a topology and its identity maps.    *)
ShowsTree(t, ids) ==
    LET handle(n) == CHOOSE h \in RuntimeHandle(ids, n) : TRUE
    IN  /\ \A n \in StableNodeId : RuntimeHandle(ids, n) # {} <=> n \in Live
        /\ Len(t.nodeData) = NodeCount
        /\ \A n \in Live :
              /\ AuthoringId(ids, handle(n)) = {n}
              /\ At(t.nodeData, handle(n)) = FindRecord(n).data
              /\ At(t.parent, handle(n)) =
                     IF IsRoot(n) THEN InvalidNode ELSE handle(Parent(n))
              /\ At(t.parentEdgeData, handle(n)) =
                     IF IsRoot(n) THEN DefaultEdge ELSE FindRecord(n).parentEdge
              /\ ChildSpan(t, handle(n)) =
                     [i \in DOMAIN Children(n) |-> handle(Children(n)[i])]
              /\ ChildEdgeSpan(t, handle(n)) =
                     [i \in DOMAIN Children(n) |->
                         FindRecord(Children(n)[i]).parentEdge]
        /\ t.plan.roots = [i \in DOMAIN roots |-> handle(roots[i])]

(* The layout's fields, by node.                                           *)
LEMMA FieldsOfLayout ==
  ASSUME Inv, NEW w, NEW L, IndexedLayout(w, L), NEW n \in Live
  PROVE  LET h == PlaceOf(w.order, n)
         IN  /\ h \in 0 .. L.size - 1 /\ L.size = NodeCount
             /\ L.data[h + 1] = FindRecord(n).data
             /\ L.up[h] = UpOf(w.order, n)
             /\ L.row[h] = RowOf(w.order, n)
             /\ L.weight[h] = FindRecord(n).parentEdge
<1> DEFINE order == w.order
           h == PlaceOf(order, n)
<1>1. PICK start : L = TreeLayout(order, start)
  BY DEF IndexedLayout
<1>2. /\ L.size = NodeCount /\ L.data = TreeData(order)
      /\ L.up = TreeUps(order) /\ L.row = TreeRows(order)
      /\ L.weight = TreeWeights(order)
  BY <1>1 DEF TreeLayout
<1>3. /\ h \in 0 .. NodeCount - 1 /\ order[h + 1] = n /\ NodeCount \in Nat
  BY PlacesMatch DEF IndexedLayout
<1> HIDE DEF h, order
<1>4. h + 1 \in 1 .. NodeCount
  BY <1>3
<1>5. TreeData(order)[h + 1] = FindRecord(n).data
  BY <1>3, <1>4 DEF TreeData
<1>6. /\ TreeUps(order)[h] = UpOf(order, n)
      /\ TreeRows(order)[h] = RowOf(order, n)
      /\ TreeWeights(order)[h] = FindRecord(n).parentEdge
  BY <1>3 DEF TreeUps, TreeRows, TreeWeights
<1> QED BY <1>2, <1>3, <1>5, <1>6 DEF h, order

(* The topology of the layout under the maps of its order.                 *)
LEMMA LayoutShowsTree ==
  ASSUME Inv, NEW w, NEW L, IndexedLayout(w, L),
         NEW ids, MapsFollow(w.order, ids),
         NEW t, t = Topology(BuilderTo(L, L.size, 0))
  PROVE  ShowsTree(t, ids)
<1> DEFINE order == w.order
           handle(n) == CHOOSE h \in RuntimeHandle(ids, n) : TRUE
           N == NodeCount
<1>1. /\ Preorder(order) /\ N <= InvalidNode /\ N \in Nat
      /\ Len(order) = N /\ IsLayout(L)
  BY PlacesMatch DEF IndexedLayout, Preorder
<1>2. ASSUME NEW n \in Live
      PROVE  /\ handle(n) = PlaceOf(order, n)
             /\ RuntimeHandle(ids, n) = {PlaceOf(order, n)}
  <2> DEFINE h == PlaceOf(order, n)
  <2>1. h \in 0 .. N - 1 /\ order[h + 1] = n
    BY <1>1, PlacesMatch
  <2> HIDE DEF h
  <2>2. h + 1 \in 1 .. N /\ (h + 1) - 1 = h
    BY <1>1, <2>1
  <2>3. RuntimeHandle(ids, order[h + 1]) = {(h + 1) - 1}
    BY <2>2 DEF MapsFollow
  <2> QED BY <2>1, <2>2, <2>3 DEF h
<1> HIDE DEF handle, N
<1>3. \A n \in StableNodeId : RuntimeHandle(ids, n) # {} <=> n \in Live
  BY <1>2 DEF MapsFollow
<1>4. /\ t.nodeData = L.data
      /\ t.parent = [k \in 1 .. L.size |-> L.up[k - 1]]
      /\ t.plan.roots =
            NodesWith([i \in 1 .. L.size |-> i - 1],
                      [h \in 0 .. L.size - 1 |-> L.up[h]], InvalidNode)
      /\ \A p \in 0 .. L.size - 1 :
            /\ At(t.parentEdgeData, p) =
                  IF L.up[p] = InvalidNode THEN DefaultEdge ELSE L.weight[p]
            /\ ChildSpan(t, p) = L.row[p]
            /\ ChildEdgeSpan(t, p) =
                  [a \in 1 .. Len(L.row[p]) |-> L.weight[L.row[p][a]]]
  BY <1>1, TopologyOfLayout
<1>5. L.size = N
  BY DEF IndexedLayout, TreeLayout, N
<1>6. Len(t.nodeData) = NodeCount
  BY <1>1, <1>4, <1>5 DEF IsLayout, N
<1>7. ASSUME NEW n \in Live
      PROVE  /\ AuthoringId(ids, handle(n)) = {n}
             /\ At(t.nodeData, handle(n)) = FindRecord(n).data
             /\ At(t.parent, handle(n)) =
                    IF IsRoot(n) THEN InvalidNode ELSE handle(Parent(n))
             /\ At(t.parentEdgeData, handle(n)) =
                    IF IsRoot(n) THEN DefaultEdge ELSE FindRecord(n).parentEdge
             /\ ChildSpan(t, handle(n)) =
                    [i \in DOMAIN Children(n) |-> handle(Children(n)[i])]
             /\ ChildEdgeSpan(t, handle(n)) =
                    [i \in DOMAIN Children(n) |->
                        FindRecord(Children(n)[i]).parentEdge]
  <2> DEFINE h == PlaceOf(order, n)
             kids == KidsOf[n]
             m == Len(kids)
             p == ParentOf[n]
  <2>1. handle(n) = h
    BY <1>2
  <2>2. /\ h \in 0 .. N - 1
        /\ L.data[h + 1] = FindRecord(n).data
        /\ L.up[h] = UpOf(order, n)
        /\ L.row[h] = RowOf(order, n)
        /\ L.weight[h] = FindRecord(n).parentEdge
    BY <1>5, FieldsOfLayout
  <2>3. order[h + 1] = n
    BY <1>1, PlacesMatch
  <2> HIDE DEF h
  <2>4. /\ Children(n) = kids /\ DOMAIN kids = 1 .. m
        /\ \A a \in 1 .. m : kids[a] \in Live
    BY InvParts, PlaceShape
  <2>5. /\ Parent(n) = p
        /\ IsRoot(n) <=> p = InvalidId
        /\ p \in Live \cup {InvalidId}
    BY ForestShape
  <2>6. AuthoringId(ids, h) = {n}
    <3>1. ids.runtimeToAuthoring = order
      BY DEF MapsFollow
    <3>2. ~ (h >= Len(order))
      BY <1>1, <2>2
    <3> QED BY <2>3, <3>1, <3>2 DEF AuthoringId
  <2>7. At(t.nodeData, h) = FindRecord(n).data
    BY <1>4, <2>2 DEF At
  <2>8. /\ IsRoot(n) => L.up[h] = InvalidNode
        /\ ~ IsRoot(n) => L.up[h] = handle(Parent(n)) /\ L.up[h] # InvalidNode
    <3>1. CASE p = InvalidId
      BY <2>2, <2>5, <3>1 DEF UpOf
    <3>2. CASE p # InvalidId
      <4>1. p \in Live /\ L.up[h] = PlaceOf(order, p)
        BY <2>2, <2>5, <3>2 DEF UpOf
      <4>2. PlaceOf(order, p) = handle(p) /\ PlaceOf(order, p) \in 0 .. N - 1
        BY <1>1, <1>2, <4>1, PlacesMatch DEF N
      <4>3. PlaceOf(order, p) # InvalidNode
        BY <1>1, <4>2, InvalidNodeAssumption
      <4>4. handle(Parent(n)) = handle(p)
        BY <2>5
      <4>5. L.up[h] = handle(Parent(n))
        BY <4>1, <4>2, <4>4
      <4>6. L.up[h] # InvalidNode
        BY <4>1, <4>3
      <4>7. ~ IsRoot(n)
        BY <2>5, <3>2
      <4> QED BY <4>5, <4>6, <4>7
    <3> QED BY <3>1, <3>2
  <2>9. At(t.parent, h) = IF IsRoot(n) THEN InvalidNode ELSE handle(Parent(n))
    <3>1. h + 1 \in 1 .. L.size /\ (h + 1) - 1 = h
      BY <1>1, <1>5, <2>2
    <3> DEFINE k == h + 1
    <3>2. At(t.parent, h) = t.parent[k] /\ k \in 1 .. L.size /\ k - 1 = h
      BY <3>1 DEF At
    <3> HIDE DEF k
    <3>3. t.parent[k] = L.up[k - 1]
      BY <1>4, <3>2, Zenon
    <3>4. At(t.parent, h) = L.up[h]
      BY <3>2, <3>3
    <3> QED BY <2>8, <3>4
  <2>10. At(t.parentEdgeData, h) =
            IF IsRoot(n) THEN DefaultEdge ELSE FindRecord(n).parentEdge
    BY <1>4, <1>5, <2>2, <2>8
  <2>11. /\ Len(L.row[h]) = m
         /\ \A a \in 1 .. m : L.row[h][a] = PlaceOf(order, kids[a])
         /\ L.row[h] = [a \in 1 .. m |-> PlaceOf(order, kids[a])]
    BY <1>1, <2>2, RowsOfTree DEF RowOf
  <2>12. ChildSpan(t, h) = [i \in DOMAIN Children(n) |-> handle(Children(n)[i])]
    <3>1. \A a \in 1 .. m : handle(kids[a]) = PlaceOf(order, kids[a])
      BY <1>2, <2>4
    <3>2. ChildSpan(t, h) = L.row[h]
      BY <1>4, <1>5, <2>2
    <3> QED BY <2>4, <2>11, <3>1, <3>2
  <2>13. ChildEdgeSpan(t, h) =
            [i \in DOMAIN Children(n) |-> FindRecord(Children(n)[i]).parentEdge]
    <3>1. ASSUME NEW a \in 1 .. m
          PROVE  L.weight[L.row[h][a]] = FindRecord(kids[a]).parentEdge
      <4>1. kids[a] \in Live /\ L.row[h][a] = PlaceOf(order, kids[a])
        BY <2>4, <2>11
      <4> QED BY <4>1, FieldsOfLayout
    <3>2. ChildEdgeSpan(t, h) =
             [a \in 1 .. Len(L.row[h]) |-> L.weight[L.row[h][a]]]
      BY <1>4, <1>5, <2>2
    <3> QED BY <2>4, <2>11, <3>1, <3>2
  <2> QED BY <2>1, <2>6, <2>7, <2>9, <2>10, <2>12, <2>13
<1>8. t.plan.roots = [i \in DOMAIN roots |-> handle(roots[i])]
  <2>1. ASSUME NEW h \in 0 .. NodeCount - 1
        PROVE  L.up[h] = UpOf(order, order[h + 1])
    <3>1. order[h + 1] \in Live /\ PlaceOf(order, order[h + 1]) = h
      BY <1>1, PlacesMatch
    <3> QED BY <3>1, FieldsOfLayout
  <2>2. NodesWith([i \in 1 .. NodeCount |-> i - 1],
                  [h \in 0 .. NodeCount - 1 |-> L.up[h]], InvalidNode)
           = [i \in 1 .. Len(roots) |-> PlaceOf(order, roots[i])]
    BY <1>1, <2>1, RootsOfPlan DEF N
  <2>3. DOMAIN roots = 1 .. Len(roots)
        /\ \A i \in 1 .. Len(roots) : roots[i] \in Live
    BY ForestShape, LenProperties, ElementOfSeq
  <2>4. \A i \in 1 .. Len(roots) : handle(roots[i]) = PlaceOf(order, roots[i])
    BY <1>2, <2>3
  <2>5. t.plan.roots = [i \in 1 .. Len(roots) |-> PlaceOf(order, roots[i])]
    BY <1>4, <1>5, <2>2 DEF N
  <2> HIDE DEF handle
  <2> QED BY <2>3, <2>4, <2>5
<1>9. ShowsTree(t, ids)
  BY <1>3, <1>6, <1>7, <1>8 DEF ShowsTree, handle
<1> QED BY <1>9

(* A snapshot that carries the tree's revision shows the tree as it is:    *)
(* its parents, its child order, its payloads and its identities.          *)
THEOREM SnapshotsMatchSource == FreezeSpec => []SnapshotMatchesSource
<1>1. Inv /\ RefreezeIsEqual => SnapshotMatchesSource
  <2>1. SUFFICES ASSUME Inv, RefreezeIsEqual, Current PROVE SnapshotMatchesSource
    BY DEF SnapshotMatchesSource
  <2>2. frozen = Outcome /\ Outcome.status = "frozen"
    BY <2>1 DEF RefreezeIsEqual, Current
  <2>3. MapsFollow(Worked.order, frozen.identities)
    BY <2>1, <2>2, OutcomeMaps
  <2>4. PICK L : /\ IndexedLayout(Worked, L)
                 /\ frozen.topology = Topology(BuilderTo(L, L.size, 0))
    BY <2>1, <2>2, FreezeEnds
  <2>5. ShowsTree(frozen.topology, frozen.identities)
    BY <2>1, <2>3, <2>4, LayoutShowsTree
  <2> QED BY <2>5 DEF SnapshotMatchesSource, ShowsTree
<1> QED BY <1>1, FreezeKeepsTree, RefreezeRepeats, PTL
=============================================================================
