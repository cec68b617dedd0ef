----------------------- MODULE AncestorClosureProofs -----------------------
(***************************************************************************)
(* The invariant of AncestorClosure for any number of nodes and seeds, and *)
(* that it implements ClosureContract.                                     *)
(*                                                                         *)
(* The walks stop at marks, so what a call collects is right only if the   *)
(* marks of the calls before are gone, and the marks can be removed only   *)
(* if they are those of the nodes collected: the marks, the order and the  *)
(* loop support each other in one invariant.                               *)
(***************************************************************************)
EXTENDS AncestorClosure, BuildLemmas

-----------------------------------------------------------------------------
(* The inductive invariant *)

Shape ==
    /\ tree \in Topologies
    /\ bound \in BOOLEAN
    /\ workspace \in [order : Seq(0 .. InvalidNode - 1),
                      capacity : 0 .. MaxNodes,
                      rank : Seq(0 .. MaxNodes - 1),
                      marked : Seq({0, 1})]
    /\ call \in [pc : {"none", "failed", "seeds", "walk", "returned"},
                 seeds : Seq(Handle), next : Nat \ {0},
                 current : Handle \cup {InvalidNode}]

(* A workspace bound to a tree has the size and the ranks for it.          *)
Fits ==
    bound => /\ Len(workspace.rank) = NodeCount
             /\ Len(workspace.marked) = NodeCount
             /\ NodeCount <= workspace.capacity
             /\ workspace.rank = Ranks

(* The node a walk is at.                                                  *)
Reached == IF call.pc = "walk" THEN {call.current} ELSE {}

ParentClosed(S) == \A h \in S : At(tree.parent, h) \in S \cup {InvalidNode}

(* The order is closed under parent and has the seeds so far, but for the  *)
(* rest of the path that is walked; and nothing that a closed set with the *)
(* seeds need not have.                                                    *)
Collected ==
    LET members == ToSet(workspace.order)
    IN  /\ \A h \in members :
              At(tree.parent, h) \in members \cup Reached \cup {InvalidNode}
        /\ call.next <= Len(call.seeds) + 1
        /\ \A k \in 1 .. call.next - 1 : call.seeds[k] \in members \cup Reached
        /\ \A S \in SUBSET Handle :
              ToSet(call.seeds) \subseteq S /\ ParentClosed(S)
                 => members \cup Reached \subseteq S \cup {InvalidNode}

Running ==
    Calling => /\ bound
               /\ workspace.order \in Seq(Handle)
               /\ IsInjective(workspace.order)
               /\ Collected

ClosureInv == Shape /\ Fits /\ Running /\ MarksFollowOrder /\ ClosureFitsReserve

-----------------------------------------------------------------------------
(* The tree, its ranks and the sort *)

(* The tree's handles and parents.                                         *)
LEMMA TreeFacts ==
  ASSUME MaxNodes <= InvalidNode, tree \in Topologies
  PROVE  /\ NodeCount \in Nat /\ NodeCount <= MaxNodes
         /\ NodeCount \in 0 .. MaxNodes
         /\ Handle = 0 .. NodeCount - 1
         /\ Handle \subseteq 0 .. InvalidNode - 1
         /\ InvalidNode \notin Handle
         /\ \A h \in Handle : At(tree.parent, h) \in Handle \cup {InvalidNode}
         /\ tree.plan.reverseTopo \in Seq(Handle)
         /\ Len(tree.plan.reverseTopo) = NodeCount
         /\ ToSet(tree.plan.reverseTopo) = Handle
         /\ IsInjective(tree.plan.reverseTopo)
<1> DEFINE total == Len(tree.nodeData)
           H == 0 .. total - 1
<1>1. /\ total \in 0 .. MaxNodes
      /\ HandlesOf(tree.nodeData) = H
      /\ Len(tree.plan.topo) = total
      /\ tree.plan.reverseTopo \in Seq(H)
      /\ Len(tree.plan.reverseTopo) = total
      /\ ToSet(tree.plan.reverseTopo) = H
      /\ IsInjective(tree.plan.reverseTopo)
      /\ \A h \in H : At(tree.parent, h) \in H \cup {InvalidNode}
  BY MaxNodesAssumption, TopologiesOrdered DEF Topologies
<1>2. NodeCount = total /\ Handle = H
  BY <1>1 DEF NodeCount, Handle
<1> HIDE DEF total
<1>3. H \subseteq 0 .. InvalidNode - 1 /\ InvalidNode \notin H
  BY <1>1, MaxNodesAssumption, InvalidNodeAssumption
<1> HIDE DEF H
<1>4. total \in Nat /\ total <= MaxNodes
  BY <1>1, MaxNodesAssumption
<1>5. H = 0 .. total - 1
  BY DEF H
<1> QED BY <1>1, <1>2, <1>3, <1>4, <1>5

(* The smallest of one.                                                    *)
LEMMA MinOfOne ==
  ASSUME NEW n \in Int
  PROVE  Min({n}) = n
BY DEF Min

(* The larger of two.                                                      *)
LEMMA MaxOfTwo ==
  ASSUME NEW m \in Int, NEW n \in Int
  PROVE  /\ Max({m, n}) \in {m, n}
         /\ m <= Max({m, n}) /\ n <= Max({m, n})
<1>1. \E x \in {m, n} : \A y \in {m, n} : x >= y
  <2>1. CASE m >= n
    BY <2>1
  <2>2. CASE ~(m >= n)
    BY <2>2
  <2> QED BY <2>1, <2>2
<1>2. Max({m, n}) \in {m, n} /\ \A y \in {m, n} : Max({m, n}) >= y
  BY <1>1 DEF Max
<1> QED BY <1>2

(* A rank is the index of its handle in the reverse topological order.     *)
LEMMA RanksAreIndices ==
  ASSUME MaxNodes <= InvalidNode, tree \in Topologies
  PROVE  /\ Ranks \in Seq(0 .. MaxNodes - 1)
         /\ Len(Ranks) = NodeCount
         /\ \A h \in Handle :
               /\ At(Ranks, h) \in 0 .. NodeCount - 1
               /\ tree.plan.reverseTopo[At(Ranks, h) + 1] = h
<1> DEFINE r == tree.plan.reverseTopo
           n == NodeCount
           I(i) == {j \in 1 .. Len(r) : r[j] = i - 1}
<1>1. /\ n \in Nat /\ n <= MaxNodes /\ MaxNodes \in Nat
      /\ Handle = 0 .. n - 1
      /\ r \in Seq(Handle) /\ Len(r) = n
      /\ ToSet(r) = Handle
      /\ IsInjective(r)
  BY TreeFacts, MaxNodesAssumption
<1> HIDE DEF r, n
<1>2. DOMAIN r = 1 .. n
  BY <1>1, LenProperties
<1>3. ASSUME NEW i \in 1 .. n
      PROVE  /\ SelectInSeq(r, LAMBDA h : h = i - 1) \in 1 .. n
             /\ r[SelectInSeq(r, LAMBDA h : h = i - 1)] = i - 1
  <2>1. i - 1 \in ToSet(r)
    BY <1>1
  <2>2. PICK j \in 1 .. n : r[j] = i - 1
    BY <1>2, <2>1 DEF ToSet
  <2>3. I(i) = {j}
    BY <1>1, <1>2, <2>2 DEF IsInjective
  <2>4. SelectInSeq(r, LAMBDA h : h = i - 1) =
           IF I(i) # {} THEN Min(I(i)) ELSE 0
    BY DEF SelectInSeq
  <2> HIDE DEF I
  <2>5. SelectInSeq(r, LAMBDA h : h = i - 1) = j
    BY <2>3, <2>4, MinOfOne
  <2> QED BY <2>2, <2>5
<1> DEFINE S(i) == SelectInSeq(r, LAMBDA h : h = i - 1)
<1>4. Ranks = [i \in 1 .. n |-> S(i) - 1]
  BY DEF Ranks, ReverseRanks, r, n
<1>5. \A i \in 1 .. n : S(i) \in 1 .. n /\ r[S(i)] = i - 1
  BY <1>3
<1> HIDE DEF S
<1>6. Ranks \in [1 .. n -> 0 .. MaxNodes - 1]
  <2>1. ASSUME NEW i \in 1 .. n PROVE S(i) - 1 \in 0 .. MaxNodes - 1
    <3> DEFINE k == S(i)
    <3>1. k \in 1 .. n
      BY <1>5
    <3> HIDE DEF k
    <3>2. k - 1 \in 0 .. MaxNodes - 1
      BY <1>1, <3>1
    <3> QED BY <3>2 DEF k
  <2> QED BY <1>4, <2>1
<1>7. Ranks \in Seq(0 .. MaxNodes - 1) /\ Len(Ranks) = n
  BY <1>1, <1>6
<1>8. ASSUME NEW h \in Handle
      PROVE  At(Ranks, h) \in 0 .. n - 1 /\ r[At(Ranks, h) + 1] = h
  <2>1. h + 1 \in 1 .. n /\ (h + 1) - 1 = h
    BY <1>1
  <2>2. At(Ranks, h) = S(h + 1) - 1
    BY <1>4, <2>1 DEF At
  <2>3. S(h + 1) \in 1 .. n /\ r[S(h + 1)] = h
    BY <1>5, <2>1
  <2>4. S(h + 1) - 1 \in 0 .. n - 1 /\ (S(h + 1) - 1) + 1 = S(h + 1)
    BY <1>1, <2>3
  <2> QED BY <2>2, <2>3, <2>4
<1> QED BY <1>7, <1>8 DEF r, n

(* The sort permutes the order and puts the ranks in order.                *)
LEMMA SortPermutes ==
  ASSUME NEW S, NEW order \in Seq(S), IsInjective(order),
         \A h \in S : At(workspace.rank, h) \in Int
  PROVE  LET sorted == SortedByRank(order)
         IN  /\ sorted \in Seq(S)
             /\ Len(sorted) = Len(order)
             /\ DOMAIN sorted = 1 .. Len(order)
             /\ ToSet(sorted) = ToSet(order)
             /\ \A p, q \in 1 .. Len(order) : p < q =>
                   /\ At(workspace.rank, sorted[p])
                         <= At(workspace.rank, sorted[q])
                   /\ sorted[p] # sorted[q]
<1> DEFINE n == Len(order)
           Rk(i) == At(workspace.rank, order[i])
           key == [i \in 1 .. n |-> Rk(i)]
           Before(i) == {j \in DOMAIN order :
                            Rk(j) < Rk(i) \/ (Rk(j) = Rk(i) /\ j < i)}
           source == [p \in 1 .. n |-> CHOOSE i \in 1 .. n : Place(key, i) = p]
           sorted == SortedByRank(order)
<1>1. n \in Nat /\ DOMAIN order = 1 .. n /\ \A i \in 1 .. n : order[i] \in S
  BY LenProperties, ElementOfSeq
<1>2. \A i \in 1 .. n : Rk(i) \in Int
  BY <1>1
<1> HIDE DEF n, Rk
<1>3. /\ key \in [1 .. n -> Int]
      /\ \A i \in 1 .. n : key[i] = Rk(i)
  BY <1>2
<1>4. \A i \in 1 .. n : Place(key, i) = Cardinality(Before(i)) + 1
  <2> TAKE i \in 1 .. n
  <2>1. Lower(key, i) = Before(i)
    BY <1>1, <1>3 DEF Lower
  <2> QED BY <2>1 DEF Place
<1>5. sorted = [p \in DOMAIN order |->
                  order[CHOOSE i \in DOMAIN order :
                           Cardinality(Before(i)) + 1 = p]]
  BY DEF SortedByRank, Rk
<1> HIDE DEF key, Before
<1>6. /\ \A i \in 1 .. n : Place(key, i) \in 1 .. n
      /\ \A i, j \in 1 .. n : key[i] < key[j] \/ (key[i] = key[j] /\ i < j)
            => Place(key, i) < Place(key, j)
      /\ \A i, j \in 1 .. n : Place(key, i) = Place(key, j) => i = j
      /\ \A p \in 1 .. n : \E i \in 1 .. n : Place(key, i) = p
  BY <1>1, <1>3, PlacesPermute
<1>7. \A p \in 1 .. n : source[p] \in 1 .. n /\ Place(key, source[p]) = p
  BY <1>6
<1>8. \A p \in 1 .. n : sorted[p] = order[source[p]]
  <2> TAKE p \in 1 .. n
  <2>1. (CHOOSE i \in 1 .. n : Cardinality(Before(i)) + 1 = p)
           = (CHOOSE i \in 1 .. n : Place(key, i) = p)
    BY <1>4
  <2>2. source[p] = CHOOSE i \in 1 .. n : Place(key, i) = p
    OBVIOUS
  <2>3. sorted[p] = order[CHOOSE i \in 1 .. n : Cardinality(Before(i)) + 1 = p]
    <3> DEFINE pick(q) == CHOOSE i \in DOMAIN order :
                             Cardinality(Before(i)) + 1 = q
    <3>1. sorted = [q \in DOMAIN order |-> order[pick(q)]]
      BY <1>5
    <3>2. pick(p) = CHOOSE i \in 1 .. n : Cardinality(Before(i)) + 1 = p
      BY <1>1
    <3> HIDE DEF pick
    <3>3. sorted[p] = order[pick(p)]
      BY <1>1, <3>1
    <3> QED BY <3>2, <3>3, Zenon
  <2> QED BY <2>1, <2>2, <2>3, Zenon
<1> HIDE DEF source
<1>9. \A i \in 1 .. n : source[Place(key, i)] = i
  <2> TAKE i \in 1 .. n
  <2>1. Place(key, i) \in 1 .. n
    BY <1>6
  <2>2. /\ source[Place(key, i)] \in 1 .. n
        /\ Place(key, source[Place(key, i)]) = Place(key, i)
    BY <1>7, <2>1, Zenon
  <2> QED BY <1>6, <2>2, Zenon
<1>10. /\ DOMAIN sorted = 1 .. n
       /\ sorted = [p \in 1 .. n |-> sorted[p]]
  BY <1>1, <1>5
<1> HIDE DEF sorted
<1>11. sorted \in Seq(S) /\ Len(sorted) = n
  <2>1. sorted \in [1 .. n -> S]
    BY <1>1, <1>7, <1>8, <1>10
  <2> QED BY <1>1, <2>1
<1>12. ToSet(sorted) = ToSet(order)
  <2>1. ASSUME NEW p \in 1 .. n PROVE sorted[p] \in ToSet(order)
    BY <1>1, <1>7, <1>8 DEF ToSet
  <2>2. ASSUME NEW i \in 1 .. n PROVE order[i] \in ToSet(sorted)
    <3>1. Place(key, i) \in 1 .. n /\ sorted[Place(key, i)] = order[i]
      BY <1>6, <1>8, <1>9
    <3> QED BY <1>10, <3>1 DEF ToSet
  <2> QED BY <1>1, <1>10, <2>1, <2>2 DEF ToSet
<1>13. ASSUME NEW p \in 1 .. n, NEW q \in 1 .. n, p < q
       PROVE  /\ At(workspace.rank, sorted[p]) <= At(workspace.rank, sorted[q])
              /\ sorted[p] # sorted[q]
  <2> DEFINE i == source[p]
             j == source[q]
  <2>1. /\ i \in 1 .. n /\ Place(key, i) = p
        /\ j \in 1 .. n /\ Place(key, j) = q
    BY <1>7
  <2>2. sorted[p] = order[i] /\ sorted[q] = order[j]
    BY <1>8
  <2> HIDE DEF i, j
  <2>3. ~(key[j] < key[i])
    BY <1>1, <1>6, <1>13, <2>1
  <2>4. At(workspace.rank, sorted[p]) = key[i]
        /\ At(workspace.rank, sorted[q]) = key[j]
    BY <1>3, <2>1, <2>2 DEF Rk
  <2>5. key[i] \in Int /\ key[j] \in Int
    BY <1>3, <2>1
  <2>6. i # j
    BY <1>1, <1>13, <2>1
  <2>7. order[i] # order[j]
    BY <1>1, <2>1, <2>6 DEF IsInjective
  <2> QED BY <2>2, <2>3, <2>4, <2>5, <2>7
<1> QED BY <1>10, <1>11, <1>12, <1>13 DEF sorted, n

-----------------------------------------------------------------------------
(* The steps of prepare, field by field *)

(* A sequence over a set is one over a larger set.                         *)
LEMMA WiderSeq ==
  ASSUME NEW S, NEW T, S \subseteq T, NEW s \in Seq(S)
  PROVE  s \in Seq(T)
<1>1. Len(s) \in Nat /\ s \in [1 .. Len(s) -> S]
  BY LenProperties
<1>2. s \in [1 .. Len(s) -> T]
  BY <1>1
<1> QED BY <1>1, <1>2

(* Clear, reserve and resize change a field each.                          *)
LEMMA PreparedFields ==
  ASSUME Shape, MaxNodes <= InvalidNode
  PROVE  LET w == workspace
             larger == Max({w.capacity, NodeCount})
             resized == Resized(w.rank, NodeCount)
         IN  /\ Cleared = [order |-> <<>>, capacity |-> w.capacity,
                           rank |-> w.rank, marked |-> w.marked]
             /\ Reserved = [order |-> <<>>, capacity |-> larger,
                            rank |-> w.rank, marked |-> w.marked]
             /\ Sized = [order |-> <<>>, capacity |-> larger,
                         rank |-> resized, marked |-> w.marked]
             /\ [Sized EXCEPT !.marked = NoMarks, !.rank = Ranks] =
                   [order |-> <<>>, capacity |-> larger,
                    rank |-> Ranks, marked |-> NoMarks]
<1> DEFINE w == workspace
           larger == Max({w.capacity, NodeCount})
           resized == Resized(w.rank, NodeCount)
           m == NoMarks
           r == Ranks
<1>1. w = [order |-> w.order, capacity |-> w.capacity,
           rank |-> w.rank, marked |-> w.marked]
  BY DEF Shape
<1>2. Cleared = [w EXCEPT !.order = <<>>]
  BY DEF Cleared
<1>3. Reserved = [Cleared EXCEPT !.capacity = Max({Cleared.capacity, NodeCount})]
  BY DEF Reserved
<1>4. Sized = [Reserved EXCEPT !.rank = Resized(Reserved.rank, NodeCount)]
  BY DEF Sized
<1> DEFINE last == [Sized EXCEPT !.marked = m, !.rank = r]
           half == [Sized EXCEPT !.marked = m]
<1>5. last = [half EXCEPT !.rank = r]
  BY Zenon
<1> HIDE DEF w
<1>6. Cleared = [order |-> <<>>, capacity |-> w.capacity,
                 rank |-> w.rank, marked |-> w.marked]
  BY <1>1, <1>2
<1>7. Reserved = [order |-> <<>>, capacity |-> larger,
                  rank |-> w.rank, marked |-> w.marked]
  <2>1. Cleared.capacity = w.capacity
    BY <1>6
  <2> HIDE DEF larger
  <2>2. Reserved = [Cleared EXCEPT !.capacity = larger]
    BY <1>3, <2>1 DEF larger
  <2> QED BY <1>6, <2>2
<1>8. Sized = [order |-> <<>>, capacity |-> larger,
               rank |-> resized, marked |-> w.marked]
  <2>1. Reserved.rank = w.rank
    BY <1>7
  <2> HIDE DEF larger, resized
  <2>2. Sized = [Reserved EXCEPT !.rank = resized]
    BY <1>4, <2>1 DEF resized
  <2> QED BY <1>7, <2>2
<1> HIDE DEF larger, resized, m, r
<1>9. half = [order |-> <<>>, capacity |-> larger,
              rank |-> resized, marked |-> m]
  BY <1>8
<1> HIDE DEF half
<1>10. last = [order |-> <<>>, capacity |-> larger, rank |-> r, marked |-> m]
  BY <1>5, <1>9
<1> QED BY <1>6, <1>7, <1>8, <1>10 DEF w, larger, resized, m, r

(* What the steps set has the shape of a workspace.                        *)
LEMMA PreparedShape ==
  ASSUME Shape, MaxNodes <= InvalidNode
  PROVE  LET larger == Max({workspace.capacity, NodeCount})
             resized == Resized(workspace.rank, NodeCount)
         IN  /\ larger \in 0 .. MaxNodes
             /\ NodeCount <= larger
             /\ resized \in Seq(0 .. MaxNodes - 1)
             /\ NoMarks \in Seq({0, 1})
             /\ Len(NoMarks) = NodeCount
             /\ \A i \in DOMAIN NoMarks : NoMarks[i] = 0
<1> DEFINE n == NodeCount
           c == workspace.capacity
           v == workspace.rank
           K == 0 .. MaxNodes - 1
<1>1. n \in Nat /\ n <= MaxNodes /\ MaxNodes \in Nat
  BY TreeFacts, MaxNodesAssumption DEF Shape
<1>2. c \in 0 .. MaxNodes /\ v \in Seq(K)
  BY DEF Shape
<1> HIDE DEF n, c, v
<1>3. Max({c, n}) \in {c, n} /\ c <= Max({c, n}) /\ n <= Max({c, n})
  <2>1. c \in Int /\ n \in Int
    BY <1>1, <1>2, MaxNodesAssumption
  <2> QED BY <2>1, MaxOfTwo, Zenon
<1>4. Max({c, n}) \in 0 .. MaxNodes
  BY <1>1, <1>2, <1>3
<1>5. Resized(v, n) \in Seq(K)
  <2>1. ASSUME NEW i \in 1 .. n
        PROVE  (IF i <= Len(v) THEN v[i] ELSE 0) \in K
    <3>1. 0 \in K
      BY <1>1
    <3>2. CASE i <= Len(v)
      BY <1>1, <1>2, <3>2, ElementOfSeq, LenProperties
    <3> QED BY <3>1, <3>2
  <2> HIDE DEF K
  <2>2. Resized(v, n) \in [1 .. n -> K]
    BY <2>1 DEF Resized
  <2> QED BY <1>1, <2>2
<1>6. /\ NoMarks \in [1 .. n -> {0, 1}]
      /\ DOMAIN NoMarks = 1 .. n
      /\ \A i \in 1 .. n : NoMarks[i] = 0
  BY DEF NoMarks, n
<1>7. NoMarks \in Seq({0, 1}) /\ Len(NoMarks) = n
  BY <1>1, <1>6
<1> QED BY <1>3, <1>4, <1>5, <1>6, <1>7 DEF n, c, v

-----------------------------------------------------------------------------
(* The invariant is inductive *)

(* A call that has not begun, or has just.                                 *)
LEMMA CallOf ==
  ASSUME NEW H, NEW seeds \in Seq(H),
         NEW pc \in {"none", "failed", "seeds", "walk", "returned"}
  PROVE  /\ [pc |-> pc, seeds |-> seeds, next |-> 1, current |-> InvalidNode]
               \in [pc : {"none", "failed", "seeds", "walk", "returned"},
                    seeds : Seq(H), next : Nat \ {0},
                    current : H \cup {InvalidNode}]
         /\ <<>> \in Seq(H)
<1>1. 1 \in Nat \ {0}
  OBVIOUS
<1>2. InvalidNode \in H \cup {InvalidNode}
  OBVIOUS
<1> QED BY <1>1, <1>2

(* A first state has an empty workspace.                                   *)
LEMMA InitClosureInv ==
  ASSUME Init, MaxNodes <= InvalidNode
  PROVE  ClosureInv
<1>1. /\ tree \in Topologies /\ bound = FALSE
      /\ workspace = [order |-> <<>>, capacity |-> 0,
                      rank |-> <<>>, marked |-> <<>>]
      /\ call = NoCall
  BY DEF Init
<1>2. call \in [pc : {"none", "failed", "seeds", "walk", "returned"},
                seeds : Seq(Handle), next : Nat \ {0},
                current : Handle \cup {InvalidNode}]
  BY <1>1, CallOf DEF NoCall
<1>3. Shape
  <2>1. /\ <<>> \in Seq(0 .. InvalidNode - 1) /\ 0 \in 0 .. MaxNodes
        /\ <<>> \in Seq(0 .. MaxNodes - 1) /\ <<>> \in Seq({0, 1})
    BY MaxNodesAssumption
  <2> QED BY <1>1, <1>2, <2>1 DEF Shape
<1>4. ~Calling /\ call.pc = "none"
  BY <1>1 DEF Calling, NoCall
<1>5. Fits /\ Running
  BY <1>1, <1>4 DEF Fits, Running
<1>6. MarksFollowOrder /\ ClosureFitsReserve
  BY <1>1 DEF MarksFollowOrder, ClosureFitsReserve
<1> QED BY <1>3, <1>5, <1>6 DEF ClosureInv

(* Between calls no mark is set, so it is enough that the next state is    *)
(* between calls, that its marks are those there were or none, and that    *)
(* its workspace has its shape.                                            *)
LEMMA BetweenCalls ==
  ASSUME ClosureInv, ~Calling, MaxNodes <= InvalidNode,
         tree' \in Topologies, bound' \in BOOLEAN,
         NEW pc \in {"none", "failed"}, call' = [NoCall EXCEPT !.pc = pc],
         workspace' \in [order : Seq(0 .. InvalidNode - 1),
                         capacity : 0 .. MaxNodes,
                         rank : Seq(0 .. MaxNodes - 1),
                         marked : Seq({0, 1})],
         \/ workspace'.marked = workspace.marked
         \/ \A i \in DOMAIN workspace'.marked : workspace'.marked[i] = 0,
         Len(workspace'.order) <= workspace'.capacity,
         Fits'
  PROVE  ClosureInv'
<1>1. /\ call' = [pc |-> pc, seeds |-> <<>>, next |-> 1,
                  current |-> InvalidNode]
  BY DEF NoCall
<1>2. call'.pc = pc /\ ~Calling'
  BY <1>1 DEF Calling
<1>3. Shape'
  <2>1. call' \in [pc : {"none", "failed", "seeds", "walk", "returned"},
                   seeds : Seq(Handle'), next : Nat \ {0},
                   current : Handle' \cup {InvalidNode}]
    <3>1. <<>> \in Seq(Handle')
      OBVIOUS
    <3>2. pc \in {"none", "failed", "seeds", "walk", "returned"}
      OBVIOUS
    <3> DEFINE H == Handle'
    <3> HIDE DEF H
    <3>3. [pc |-> pc, seeds |-> <<>>, next |-> 1, current |-> InvalidNode]
             \in [pc : {"none", "failed", "seeds", "walk", "returned"},
                  seeds : Seq(H), next : Nat \ {0},
                  current : H \cup {InvalidNode}]
      BY <3>1, <3>2, CallOf DEF H
    <3> QED BY <1>1, <3>3 DEF H
  <2> QED BY <2>1 DEF Shape
<1>4. Running'
  BY <1>2 DEF Running
<1>5. MarksFollowOrder'
  <2>1. \A i \in DOMAIN workspace.marked : workspace.marked[i] # 1
    BY DEF ClosureInv, MarksFollowOrder
  <2>2. \A i \in DOMAIN workspace'.marked : workspace'.marked[i] # 1
    BY <2>1
  <2> QED BY <1>2, <2>2 DEF MarksFollowOrder
<1>6. ClosureFitsReserve'
  BY DEF ClosureFitsReserve
<1> QED BY <1>3, <1>4, <1>5, <1>6 DEF ClosureInv

(* Another tree: nothing is bound to it.                                   *)
LEMMA ReplaceTreeKeepsInv ==
  ASSUME ClosureInv, ReplaceTree, MaxNodes <= InvalidNode
  PROVE  ClosureInv'
<1>1. /\ ~Calling /\ tree' \in Topologies /\ bound' = FALSE
      /\ call' = NoCall /\ workspace' = workspace
  BY DEF ReplaceTree
<1>2. call' = [NoCall EXCEPT !.pc = "none"]
  BY <1>1 DEF NoCall
<1>3. Fits'
  BY <1>1 DEF Fits
<1>4. workspace' \in [order : Seq(0 .. InvalidNode - 1),
                      capacity : 0 .. MaxNodes,
                      rank : Seq(0 .. MaxNodes - 1),
                      marked : Seq({0, 1})]
      /\ Len(workspace'.order) <= workspace'.capacity
  BY <1>1 DEF ClosureInv, Shape, ClosureFitsReserve
<1> QED BY <1>1, <1>2, <1>3, <1>4, BetweenCalls

(* prepare gives the workspace the size and the ranks of the tree.         *)
LEMMA PrepareKeepsInv ==
  ASSUME ClosureInv, Prepare, MaxNodes <= InvalidNode
  PROVE  ClosureInv'
<1> DEFINE larger == Max({workspace.capacity, NodeCount})
<1>1. /\ ~Calling /\ tree' = tree /\ bound' = TRUE /\ call' = NoCall
      /\ workspace' = [Sized EXCEPT !.marked = NoMarks, !.rank = Ranks]
  BY Zenon DEF Prepare
<1>2. Shape
  BY DEF ClosureInv
<1>3. [Sized EXCEPT !.marked = NoMarks, !.rank = Ranks] =
         [order |-> <<>>, capacity |-> larger, rank |-> Ranks, marked |-> NoMarks]
  BY <1>2, PreparedFields, Zenon
<1>4. /\ larger \in 0 .. MaxNodes /\ NodeCount <= larger
      /\ NoMarks \in Seq({0, 1}) /\ Len(NoMarks) = NodeCount
      /\ \A i \in DOMAIN NoMarks : NoMarks[i] = 0
  BY <1>2, PreparedShape
<1>5. Ranks \in Seq(0 .. MaxNodes - 1) /\ Len(Ranks) = NodeCount
  BY <1>2, RanksAreIndices DEF Shape
<1>6. NodeCount' = NodeCount /\ Ranks' = Ranks
  <2>1. tree' = tree
    BY <1>1
  <2> QED BY <2>1 DEF NodeCount, Ranks, ReverseRanks, SelectInSeq
<1> HIDE DEF larger
<1>7. workspace' = [order |-> <<>>, capacity |-> larger,
                    rank |-> Ranks, marked |-> NoMarks]
  BY <1>1, <1>3, Zenon
<1>8. /\ workspace' \in [order : Seq(0 .. InvalidNode - 1),
                         capacity : 0 .. MaxNodes,
                         rank : Seq(0 .. MaxNodes - 1),
                         marked : Seq({0, 1})]
      /\ workspace'.order = <<>> /\ workspace'.capacity = larger
      /\ workspace'.rank = Ranks /\ workspace'.marked = NoMarks
  BY <1>4, <1>5, <1>7
<1>9. Len(workspace'.order) <= workspace'.capacity
  BY <1>4, <1>8
<1>10. Fits'
  BY <1>4, <1>5, <1>6, <1>8 DEF Fits
<1>11. call' = [NoCall EXCEPT !.pc = "none"]
  BY <1>1 DEF NoCall
<1>12. /\ tree' \in Topologies /\ bound' \in BOOLEAN
       /\ \A i \in DOMAIN workspace'.marked : workspace'.marked[i] = 0
  BY <1>1, <1>2, <1>4, <1>8 DEF Shape
<1> QED BY <1>1, <1>8, <1>9, <1>10, <1>11, <1>12, BetweenCalls

(* A prepare that throws leaves a workspace that is bound to nothing.      *)
LEMMA PrepareThrowsKeepsInv ==
  ASSUME ClosureInv, PrepareThrows, MaxNodes <= InvalidNode
  PROVE  ClosureInv'
<1> DEFINE larger == Max({workspace.capacity, NodeCount})
           resized == Resized(workspace.rank, NodeCount)
           W == [order : Seq(0 .. InvalidNode - 1), capacity : 0 .. MaxNodes,
                 rank : Seq(0 .. MaxNodes - 1), marked : Seq({0, 1})]
<1>1. /\ ~Calling /\ tree' = tree /\ bound' = FALSE
      /\ call' = [NoCall EXCEPT !.pc = "failed"]
      /\ workspace' \in {Cleared, Reserved, Sized}
  BY Zenon DEF PrepareThrows
<1>2. Shape
  BY DEF ClosureInv
<1>3. /\ Cleared = [order |-> <<>>, capacity |-> workspace.capacity,
                    rank |-> workspace.rank, marked |-> workspace.marked]
      /\ Reserved = [order |-> <<>>, capacity |-> larger,
                     rank |-> workspace.rank, marked |-> workspace.marked]
      /\ Sized = [order |-> <<>>, capacity |-> larger,
                  rank |-> resized, marked |-> workspace.marked]
  BY <1>2, PreparedFields, Zenon
<1>4. larger \in 0 .. MaxNodes /\ resized \in Seq(0 .. MaxNodes - 1)
  BY <1>2, PreparedShape
<1>5. /\ workspace.capacity \in 0 .. MaxNodes
      /\ workspace.rank \in Seq(0 .. MaxNodes - 1)
      /\ workspace.marked \in Seq({0, 1})
  BY <1>2 DEF Shape
<1> HIDE DEF larger, resized
<1> DEFINE Good(w) == /\ w \in W
                      /\ w.marked = workspace.marked
                      /\ w.order = <<>>
                      /\ w.capacity \in 0 .. MaxNodes
<1>6. Good(Cleared) /\ Good(Reserved) /\ Good(Sized)
  <2>1. <<>> \in Seq(0 .. InvalidNode - 1)
    OBVIOUS
  <2>2. Good(Cleared)
    BY <1>3, <1>5, <2>1
  <2>3. Good(Reserved)
    BY <1>3, <1>4, <1>5, <2>1
  <2>4. Good(Sized)
    BY <1>3, <1>4, <1>5, <2>1
  <2> QED BY <2>2, <2>3, <2>4
<1>7. /\ workspace' \in W
      /\ workspace'.marked = workspace.marked
      /\ workspace'.order = <<>>
      /\ workspace'.capacity \in 0 .. MaxNodes
  BY <1>1, <1>6
<1>8. Len(workspace'.order) <= workspace'.capacity
  BY <1>7, MaxNodesAssumption
<1>9. Fits'
  BY <1>1 DEF Fits
<1>10. tree' \in Topologies /\ bound' \in BOOLEAN
  BY <1>1, <1>2 DEF Shape
<1> QED BY <1>1, <1>7, <1>8, <1>9, <1>10, BetweenCalls

(* A call leaves the tree, the capacity and the ranks alone.               *)
LEMMA FitsKept ==
  ASSUME Fits, tree' = tree, bound' = bound,
         workspace'.rank = workspace.rank,
         workspace'.capacity = workspace.capacity,
         Len(workspace'.marked) = Len(workspace.marked)
  PROVE  Fits' /\ NodeCount' = NodeCount /\ Handle' = Handle
<1>1. NodeCount' = NodeCount /\ Handle' = Handle
  BY DEF NodeCount, Handle
<1>2. Ranks' = Ranks
  BY DEF Ranks, ReverseRanks, NodeCount, SelectInSeq
<1> QED BY <1>1, <1>2 DEF Fits

(* The parts of a state in a call.                                         *)
LEMMA CallParts ==
  ASSUME ClosureInv, MaxNodes <= InvalidNode
  PROVE  /\ NodeCount \in Nat
         /\ Handle = 0 .. NodeCount - 1
         /\ Handle \subseteq 0 .. InvalidNode - 1
         /\ InvalidNode \notin Handle
         /\ \A h \in Handle : At(tree.parent, h) \in Handle \cup {InvalidNode}
         /\ call \in [pc : {"none", "failed", "seeds", "walk", "returned"},
                      seeds : Seq(Handle), next : Nat \ {0},
                      current : Handle \cup {InvalidNode}]
         /\ workspace = [order |-> workspace.order,
                         capacity |-> workspace.capacity,
                         rank |-> workspace.rank, marked |-> workspace.marked]
         /\ workspace.order \in Seq(0 .. InvalidNode - 1)
         /\ workspace.capacity \in 0 .. MaxNodes
         /\ workspace.rank \in Seq(0 .. MaxNodes - 1)
         /\ workspace.marked \in Seq({0, 1})
BY TreeFacts DEF ClosureInv, Shape

(* A call starts with nothing collected and nothing marked.                *)
LEMMA BeginKeepsInv ==
  ASSUME ClosureInv, MaxNodes <= InvalidNode,
         NEW seeds \in BoundedSeq(Handle, MaxSeeds), Begin(seeds)
  PROVE  ClosureInv' /\ seeds \in Seq(Handle)
<1> DEFINE C == [pc : {"none", "failed", "seeds", "walk", "returned"},
                 seeds : Seq(Handle), next : Nat \ {0},
                 current : Handle \cup {InvalidNode}]
<1>1. /\ bound /\ ~Calling
      /\ workspace' = Cleared
      /\ call' = [NoCall EXCEPT !.pc = "seeds", !.seeds = seeds]
      /\ tree' = tree /\ bound' = bound
  BY Zenon DEF Begin
<1>2. Shape
  BY DEF ClosureInv
<1>3. seeds \in Seq(Handle)
  <2>1. PICK m \in 0 .. MaxSeeds : seeds \in [1 .. m -> Handle]
    BY DEF BoundedSeq, SeqOf
  <2> QED BY <2>1, MaxSeedsAssumption
<1>4. call' = [pc |-> "seeds", seeds |-> seeds, next |-> 1,
               current |-> InvalidNode]
  <2> DEFINE half == [NoCall EXCEPT !.pc = "seeds"]
  <2>1. call' = [half EXCEPT !.seeds = seeds]
    BY <1>1, Zenon
  <2>2. half = [pc |-> "seeds", seeds |-> <<>>, next |-> 1,
                current |-> InvalidNode]
    BY DEF NoCall
  <2> HIDE DEF half
  <2> QED BY <2>1, <2>2
<1>5. call' \in C
  <2>1. "seeds" \in {"none", "failed", "seeds", "walk", "returned"}
    OBVIOUS
  <2> QED BY <1>3, <1>4, <2>1, CallOf
<1>6. /\ call'.pc = "seeds" /\ call'.seeds = seeds /\ call'.next = 1
  BY <1>4
<1>7. /\ workspace' = [order |-> <<>>, capacity |-> workspace.capacity,
                       rank |-> workspace.rank, marked |-> workspace.marked]
  BY <1>1, <1>2, PreparedFields, Zenon
<1>8. /\ workspace'.order = <<>> /\ workspace'.capacity = workspace.capacity
      /\ workspace'.rank = workspace.rank
      /\ workspace'.marked = workspace.marked
  BY <1>7
<1>9. Fits' /\ NodeCount' = NodeCount /\ Handle' = Handle
  BY <1>1, <1>8, FitsKept DEF ClosureInv
<1>10. Shape'
  <2>1. workspace' \in [order : Seq(0 .. InvalidNode - 1),
                        capacity : 0 .. MaxNodes,
                        rank : Seq(0 .. MaxNodes - 1),
                        marked : Seq({0, 1})]
    <3>1. <<>> \in Seq(0 .. InvalidNode - 1)
      OBVIOUS
    <3> QED BY <1>2, <1>7, <3>1 DEF Shape
  <2>2. tree' \in Topologies /\ bound' \in BOOLEAN
    BY <1>1, <1>2 DEF Shape
  <2> QED BY <1>5, <1>9, <2>1, <2>2 DEF Shape
<1>11. /\ ToSet(workspace'.order) = {} /\ IsInjective(workspace'.order)
       /\ Reached' = {} /\ Len(seeds) \in Nat
       /\ \A h : ~Contains(workspace'.order, h)
  BY <1>3, <1>6, <1>8, LenProperties
     DEF ToSet, IsInjective, Reached, Contains
<1>12. Running'
  <2>1. workspace'.order \in Seq(Handle')
    BY <1>8
  <2>2. Collected'
    BY <1>6, <1>11 DEF Collected
  <2> QED BY <1>1, <1>11, <2>1, <2>2 DEF Running
<1>13. MarksFollowOrder'
  BY <1>1, <1>8, <1>11 DEF ClosureInv, MarksFollowOrder
<1>14. ClosureFitsReserve'
  <2>1. workspace'.capacity \in 0 .. MaxNodes /\ Len(workspace'.order) = 0
    BY <1>2, <1>8 DEF Shape
  <2> QED BY <2>1, MaxNodesAssumption DEF ClosureFitsReserve
<1> QED BY <1>3, <1>9, <1>10, <1>12, <1>13, <1>14 DEF ClosureInv

(* A walk starts at the seed it is for.                                    *)
LEMMA NextSeedKeepsInv ==
  ASSUME ClosureInv, NextSeed, MaxNodes <= InvalidNode
  PROVE  ClosureInv'
<1> DEFINE seed == call.seeds[call.next]
           members == ToSet(workspace.order)
<1>1. /\ call.pc = "seeds" /\ call.next <= Len(call.seeds)
      /\ tree' = tree /\ bound' = bound /\ workspace' = workspace
      /\ call' = [call EXCEPT !.pc = "walk", !.next = call.next + 1,
                              !.current = seed]
  BY Zenon DEF NextSeed, FollowingSeed
<1>2. /\ call.seeds \in Seq(Handle) /\ call.next \in Nat \ {0}
      /\ call = [pc |-> call.pc, seeds |-> call.seeds, next |-> call.next,
                 current |-> call.current]
  BY CallParts
<1>3. /\ Calling /\ bound /\ workspace.order \in Seq(Handle)
      /\ IsInjective(workspace.order) /\ Collected
  BY <1>1 DEF ClosureInv, Running, Calling
<1>4. seed \in Handle /\ seed \in ToSet(call.seeds)
  <2>1. call.next \in 1 .. Len(call.seeds) /\ DOMAIN call.seeds = 1 .. Len(call.seeds)
    BY <1>1, <1>2, LenProperties
  <2> QED BY <1>2, <2>1, ElementOfSeq DEF ToSet
<1>5. call' = [pc |-> "walk", seeds |-> call.seeds, next |-> call.next + 1,
               current |-> seed]
  <2> DEFINE c1 == [call EXCEPT !.pc = "walk"]
             c2 == [c1 EXCEPT !.next = call.next + 1]
  <2>1. call' = [c2 EXCEPT !.current = seed]
    BY <1>1, Zenon
  <2>2. c1 = [pc |-> "walk", seeds |-> call.seeds, next |-> call.next,
              current |-> call.current]
    BY <1>2
  <2> HIDE DEF c1, seed
  <2>3. c2 = [pc |-> "walk", seeds |-> call.seeds, next |-> call.next + 1,
              current |-> call.current]
    BY <2>2
  <2> HIDE DEF c2
  <2> QED BY <2>1, <2>3
<1> HIDE DEF seed
<1>6. /\ call'.pc = "walk" /\ call'.seeds = call.seeds
      /\ call'.next = call.next + 1 /\ call'.current = seed
      /\ call' \in [pc : {"none", "failed", "seeds", "walk", "returned"},
                    seeds : Seq(Handle), next : Nat \ {0},
                    current : Handle \cup {InvalidNode}]
  BY <1>2, <1>4, <1>5
<1>7. Fits' /\ NodeCount' = NodeCount /\ Handle' = Handle
  BY <1>1, FitsKept DEF ClosureInv
<1>8. Shape'
  BY <1>1, <1>6, <1>7 DEF ClosureInv, Shape
<1>9. Calling' /\ Reached' = {seed} /\ Reached = {}
  BY <1>1, <1>6 DEF Calling, Reached
<1>10. Collected'
  <2>1. /\ \A h \in members : At(tree.parent, h) \in members \cup {InvalidNode}
        /\ \A k \in 1 .. call.next - 1 : call.seeds[k] \in members
        /\ \A S \in SUBSET Handle :
              ToSet(call.seeds) \subseteq S /\ ParentClosed(S)
                 => members \subseteq S \cup {InvalidNode}
    BY <1>3, <1>9 DEF Collected
  <2>2. call'.next <= Len(call'.seeds) + 1
    BY <1>1, <1>2, <1>6, LenProperties
  <2>3. ASSUME NEW k \in 1 .. call'.next - 1
        PROVE  call'.seeds[k] \in members \cup {seed}
    <3>1. k \in 1 .. call.next - 1 \/ k = call.next
      BY <1>2, <1>6
    <3> QED BY <1>6, <2>1, <3>1 DEF seed
  <2>4. ASSUME NEW S \in SUBSET Handle,
               ToSet(call.seeds) \subseteq S, ParentClosed(S)
        PROVE  members \cup {seed} \subseteq S \cup {InvalidNode}
    BY <1>4, <2>1, <2>4
  <2>5. \A S : ParentClosed(S)' <=> ParentClosed(S)
    BY <1>1 DEF ParentClosed
  <2>6. ToSet(workspace'.order) = members
    BY <1>1
  <2> HIDE DEF members
  <2> QED BY <1>1, <1>6, <1>7, <1>9, <2>1, <2>2, <2>3, <2>4, <2>5, <2>6
          DEF Collected
<1>11. Running'
  BY <1>1, <1>3, <1>7, <1>10 DEF Running
<1>12. MarksFollowOrder' /\ ClosureFitsReserve'
  BY <1>1, <1>3, <1>9 DEF ClosureInv, MarksFollowOrder, ClosureFitsReserve
<1> QED BY <1>7, <1>8, <1>11, <1>12 DEF ClosureInv

(* A step up collects the node the walk is at, which no mark says is       *)
(* already in the order, and goes on to its parent.                        *)
LEMMA ClimbKeepsInv ==
  ASSUME ClosureInv, Climb, MaxNodes <= InvalidNode
  PROVE  ClosureInv'
<1> DEFINE at == call.current
           up == At(tree.parent, at)
           members == ToSet(workspace.order)
           order == Append(workspace.order, at)
           marked == [workspace.marked EXCEPT ![at + 1] = 1]
<1>1. /\ call.pc = "walk" /\ at # InvalidNode /\ ~Marked(at)
      /\ tree' = tree /\ bound' = bound
      /\ workspace' = [workspace EXCEPT !.marked[at + 1] = 1, !.order = order]
      /\ call' = [call EXCEPT !.current = up]
  BY Zenon DEF Climb, PathGoesOn
<1>2. /\ NodeCount \in Nat /\ Handle = 0 .. NodeCount - 1
      /\ call.seeds \in Seq(Handle) /\ call.next \in Nat \ {0}
      /\ at \in Handle
      /\ up \in Handle \cup {InvalidNode}
      /\ call = [pc |-> call.pc, seeds |-> call.seeds, next |-> call.next,
                 current |-> call.current]
      /\ workspace = [order |-> workspace.order,
                      capacity |-> workspace.capacity,
                      rank |-> workspace.rank, marked |-> workspace.marked]
      /\ workspace.marked \in Seq({0, 1})
      /\ Handle \subseteq 0 .. InvalidNode - 1 /\ InvalidNode \notin Handle
  <2>1. at \in Handle
    BY <1>1, CallParts
  <2> QED BY <2>1, CallParts
<1>3. /\ Calling /\ bound /\ workspace.order \in Seq(Handle)
      /\ IsInjective(workspace.order) /\ Collected
      /\ Reached = {at}
  BY <1>1 DEF ClosureInv, Running, Calling, Reached
<1>4. /\ Len(workspace.marked) = NodeCount /\ NodeCount <= workspace.capacity
      /\ DOMAIN workspace.marked = 1 .. NodeCount
  BY <1>2, <1>3, LenProperties DEF ClosureInv, Fits
<1>5. at \notin members
  <2>1. at + 1 \in DOMAIN workspace.marked /\ (at + 1) - 1 = at
    BY <1>2, <1>4
  <2>2. ~Contains(workspace.order, at)
    BY <1>1, <1>3, <2>1 DEF ClosureInv, MarksFollowOrder, Marked, At
  <2> QED BY <1>3, <2>2, MembersOfSeq DEF Contains
<1>6. /\ order \in Seq(Handle) /\ Len(order) = Len(workspace.order) + 1
      /\ ToSet(order) = members \cup {at} /\ IsInjective(order)
  BY <1>2, <1>3, <1>5, AppendMembers
<1>7. workspace' = [order |-> order, capacity |-> workspace.capacity,
                    rank |-> workspace.rank, marked |-> marked]
  <2> DEFINE half == [workspace EXCEPT !.marked[at + 1] = 1]
             w == workspace
  <2>1. workspace' = [half EXCEPT !.order = order]
    BY <1>1, Zenon
  <2>2. half = [workspace EXCEPT !.marked = marked]
    BY Zenon
  <2> HIDE DEF order, marked
  <2>3. half = [order |-> workspace.order, capacity |-> workspace.capacity,
                rank |-> workspace.rank, marked |-> marked]
    BY <1>2, <2>2
  <2> HIDE DEF half
  <2> QED BY <2>1, <2>3
<1>8. /\ marked \in Seq({0, 1}) /\ Len(marked) = NodeCount
      /\ DOMAIN marked = 1 .. NodeCount
      /\ \A i \in 1 .. NodeCount :
            marked[i] = IF i = at + 1 THEN 1 ELSE workspace.marked[i]
  <2>1. workspace.marked \in [1 .. NodeCount -> {0, 1}]
    BY <1>2, <1>4, LenProperties
  <2>2. marked \in [1 .. NodeCount -> {0, 1}]
    BY <2>1
  <2> QED BY <1>2, <2>1, <2>2
<1> HIDE DEF order, marked
<1>9. /\ workspace'.order = order /\ workspace'.capacity = workspace.capacity
      /\ workspace'.rank = workspace.rank /\ workspace'.marked = marked
  BY <1>7
<1>10. /\ call' = [pc |-> "walk", seeds |-> call.seeds, next |-> call.next,
                   current |-> up]
  <2> HIDE DEF up
  <2> QED BY <1>1, <1>2
<1>11. /\ call'.pc = "walk" /\ call'.seeds = call.seeds
       /\ call'.next = call.next /\ call'.current = up
       /\ call' \in [pc : {"none", "failed", "seeds", "walk", "returned"},
                     seeds : Seq(Handle), next : Nat \ {0},
                     current : Handle \cup {InvalidNode}]
  <2> HIDE DEF up
  <2> QED BY <1>2, <1>10
<1>12. Fits' /\ NodeCount' = NodeCount /\ Handle' = Handle
  <2>1. Len(workspace'.marked) = Len(workspace.marked)
    BY <1>4, <1>8, <1>9
  <2> QED BY <1>1, <1>9, <2>1, FitsKept DEF ClosureInv
<1>13. Shape'
  <2>1. order \in Seq(0 .. InvalidNode - 1)
    BY <1>2, <1>6, WiderSeq
  <2>2. workspace' \in [order : Seq(0 .. InvalidNode - 1),
                        capacity : 0 .. MaxNodes,
                        rank : Seq(0 .. MaxNodes - 1),
                        marked : Seq({0, 1})]
    BY <1>7, <1>8, <2>1, CallParts
  <2> QED BY <1>1, <1>11, <1>12, <2>2 DEF ClosureInv, Shape
<1>14. Calling' /\ Reached' = {up}
  BY <1>11 DEF Calling, Reached
<1>15. Collected'
  <2> DEFINE more == members \cup {at}
  <2>1. /\ \A h \in members :
              At(tree.parent, h) \in members \cup {at} \cup {InvalidNode}
        /\ call.next <= Len(call.seeds) + 1
        /\ \A k \in 1 .. call.next - 1 : call.seeds[k] \in members \cup {at}
        /\ \A S \in SUBSET Handle :
              ToSet(call.seeds) \subseteq S /\ ParentClosed(S)
                 => members \cup {at} \subseteq S \cup {InvalidNode}
    BY <1>3 DEF Collected
  <2>2. \A h \in more : At(tree.parent, h) \in more \cup {up} \cup {InvalidNode}
    BY <2>1
  <2>3. ASSUME NEW S \in SUBSET Handle,
               ToSet(call.seeds) \subseteq S, ParentClosed(S)
        PROVE  more \cup {up} \subseteq S \cup {InvalidNode}
    <3>1. members \cup {at} \subseteq S \cup {InvalidNode}
      BY <2>1, <2>3
    <3>2. up \in S \cup {InvalidNode}
      BY <1>1, <2>3, <3>1 DEF ParentClosed
    <3> QED BY <3>1, <3>2
  <2>4. \A S : ParentClosed(S)' <=> ParentClosed(S)
    BY <1>1 DEF ParentClosed
  <2>5. ToSet(workspace'.order) = more
    BY <1>6, <1>9
  <2>6. call.next <= Len(call.seeds) + 1
        /\ \A k \in 1 .. call.next - 1 : call.seeds[k] \in more \cup {up}
    BY <2>1
  <2> HIDE DEF more
  <2> QED BY <1>1, <1>11, <1>12, <1>14, <2>2, <2>3, <2>4, <2>5, <2>6
          DEF Collected
<1>16. Running'
  BY <1>1, <1>3, <1>6, <1>9, <1>12, <1>15 DEF Running
<1>17. MarksFollowOrder'
  <2>1. ASSUME NEW i \in 1 .. NodeCount
        PROVE  marked[i] = 1 <=> Contains(order, i - 1)
    <3>1. Contains(order, i - 1) <=> i - 1 \in members \cup {at}
      <4>1. ToSet(order) = {order[k] : k \in 1 .. Len(order)}
        BY <1>6, MembersOfSeq
      <4> HIDE DEF members
      <4> QED BY <1>6, <4>1 DEF Contains
    <3>2. Contains(workspace.order, i - 1) <=> i - 1 \in members
      BY <1>3, MembersOfSeq DEF Contains
    <3>3. workspace.marked[i] = 1 <=> Contains(workspace.order, i - 1)
      BY <1>3, <1>4 DEF ClosureInv, MarksFollowOrder
    <3>4. i - 1 = at <=> i = at + 1
      BY <1>2
    <3> QED BY <1>8, <3>1, <3>2, <3>3, <3>4
  <2> QED BY <1>8, <1>9, <1>14, <2>1 DEF MarksFollowOrder
<1>18. ClosureFitsReserve'
  <2>1. IsFiniteSet(Handle) /\ Cardinality(Handle) = NodeCount
    <3>1. 0 \in Int /\ NodeCount - 1 \in Int
      BY <1>2
    <3>2. IsFiniteSet(0 .. NodeCount - 1)
          /\ Cardinality(0 .. NodeCount - 1) =
                IF 0 > NodeCount - 1 THEN 0 ELSE (NodeCount - 1) - 0 + 1
      BY <3>1, FS_Interval
    <3> QED BY <1>2, <3>2
  <2>2. Len(order) <= NodeCount
    BY <1>6, <2>1, InjectiveLength
  <2>3. workspace.capacity \in 0 .. MaxNodes /\ Len(order) \in Nat
    BY <1>6, CallParts, LenProperties
  <2> QED BY <1>2, <1>4, <1>9, <2>2, <2>3, MaxNodesAssumption
          DEF ClosureFitsReserve
<1> QED BY <1>12, <1>13, <1>16, <1>17, <1>18 DEF ClosureInv

(* A walk that ends, at a root or at a mark, has closed the order.         *)
LEMMA EndPathKeepsInv ==
  ASSUME ClosureInv, EndPath, MaxNodes <= InvalidNode
  PROVE  ClosureInv'
<1> DEFINE at == call.current
           members == ToSet(workspace.order)
<1>1. /\ call.pc = "walk" /\ (at = InvalidNode \/ Marked(at))
      /\ tree' = tree /\ bound' = bound /\ workspace' = workspace
      /\ call' = [call EXCEPT !.pc = "seeds"]
  BY Zenon DEF EndPath, PathGoesOn
<1>2. /\ NodeCount \in Nat /\ Handle = 0 .. NodeCount - 1
      /\ call.seeds \in Seq(Handle) /\ call.next \in Nat \ {0}
      /\ at \in Handle \cup {InvalidNode}
      /\ call = [pc |-> call.pc, seeds |-> call.seeds, next |-> call.next,
                 current |-> call.current]
      /\ workspace.marked \in Seq({0, 1})
      /\ InvalidNode \notin Handle
  BY CallParts
<1>3. /\ Calling /\ bound /\ workspace.order \in Seq(Handle)
      /\ IsInjective(workspace.order) /\ Collected
      /\ Reached = {at}
  BY <1>1 DEF ClosureInv, Running, Calling, Reached
<1>4. at \in members \cup {InvalidNode}
  <2>1. CASE at = InvalidNode
    BY <2>1
  <2>2. CASE at # InvalidNode
    <3>1. DOMAIN workspace.marked = 1 .. NodeCount
      BY <1>2, <1>3, LenProperties DEF ClosureInv, Fits
    <3>2. at + 1 \in DOMAIN workspace.marked /\ (at + 1) - 1 = at
      BY <1>2, <2>2, <3>1
    <3>3. Contains(workspace.order, at)
      BY <1>1, <2>2, <3>2 DEF ClosureInv, MarksFollowOrder, Marked, At
    <3> QED BY <1>3, <3>3, MembersOfSeq DEF Contains
  <2> QED BY <2>1, <2>2
<1>5. /\ call'.pc = "seeds" /\ call'.seeds = call.seeds
      /\ call'.next = call.next
      /\ call' \in [pc : {"none", "failed", "seeds", "walk", "returned"},
                    seeds : Seq(Handle), next : Nat \ {0},
                    current : Handle \cup {InvalidNode}]
  BY <1>1, <1>2
<1>6. Fits' /\ NodeCount' = NodeCount /\ Handle' = Handle
  BY <1>1, FitsKept DEF ClosureInv
<1>7. Shape'
  BY <1>1, <1>5, <1>6 DEF ClosureInv, Shape
<1>8. Calling' /\ Reached' = {}
  BY <1>5 DEF Calling, Reached
<1>9. Collected'
  <2>1. /\ \A h \in members :
              At(tree.parent, h) \in members \cup {at} \cup {InvalidNode}
        /\ call.next <= Len(call.seeds) + 1
        /\ \A k \in 1 .. call.next - 1 : call.seeds[k] \in members \cup {at}
        /\ \A S \in SUBSET Handle :
              ToSet(call.seeds) \subseteq S /\ ParentClosed(S)
                 => members \cup {at} \subseteq S \cup {InvalidNode}
    BY <1>3 DEF Collected
  <2>2. \A h \in members : At(tree.parent, h) \in members \cup {InvalidNode}
    BY <1>4, <2>1
  <2>3. ASSUME NEW k \in 1 .. call.next - 1
        PROVE  call.seeds[k] \in members
    <3>1. k \in 1 .. Len(call.seeds) /\ DOMAIN call.seeds = 1 .. Len(call.seeds)
      BY <1>2, <2>1, LenProperties
    <3>2. call.seeds[k] \in Handle
      BY <1>2, <3>1, ElementOfSeq
    <3> QED BY <1>2, <1>4, <2>1, <3>2
  <2>4. \A S : ParentClosed(S)' <=> ParentClosed(S)
    BY <1>1 DEF ParentClosed
  <2>5. ToSet(workspace'.order) = members
    BY <1>1
  <2>6. \A S \in SUBSET Handle :
           ToSet(call.seeds) \subseteq S /\ ParentClosed(S)
              => members \subseteq S \cup {InvalidNode}
    BY <2>1
  <2> HIDE DEF members
  <2> QED BY <1>1, <1>5, <1>6, <1>8, <2>1, <2>2, <2>3, <2>4, <2>5, <2>6
          DEF Collected
<1>10. Running'
  BY <1>1, <1>3, <1>6, <1>9 DEF Running
<1>11. MarksFollowOrder' /\ ClosureFitsReserve'
  BY <1>1, <1>3, <1>8 DEF ClosureInv, MarksFollowOrder, ClosureFitsReserve
<1> QED BY <1>6, <1>7, <1>10, <1>11 DEF ClosureInv

(* The return sorts the order and takes its marks away.                    *)
LEMMA ReturnKeepsInv ==
  ASSUME ClosureInv, Return, MaxNodes <= InvalidNode
  PROVE  ClosureInv'
<1> DEFINE sorted == SortedByRank(workspace.order)
<1>1. /\ call.pc = "seeds" /\ call.next > Len(call.seeds)
      /\ tree' = tree /\ bound' = bound
      /\ workspace' = [workspace EXCEPT !.order = sorted, !.marked = Unmarked]
      /\ call' = [call EXCEPT !.pc = "returned"]
  BY Zenon DEF Return
<1>2. /\ NodeCount \in Nat /\ Handle = 0 .. NodeCount - 1
      /\ call \in [pc : {"none", "failed", "seeds", "walk", "returned"},
                   seeds : Seq(Handle), next : Nat \ {0},
                   current : Handle \cup {InvalidNode}]
      /\ workspace = [order |-> workspace.order,
                      capacity |-> workspace.capacity,
                      rank |-> workspace.rank, marked |-> workspace.marked]
      /\ workspace.marked \in Seq({0, 1})
      /\ Handle \subseteq 0 .. InvalidNode - 1
  BY CallParts
<1>3. /\ Calling /\ bound /\ workspace.order \in Seq(Handle)
      /\ IsInjective(workspace.order)
  BY <1>1 DEF ClosureInv, Running, Calling
<1>4. sorted \in Seq(Handle) /\ Len(sorted) = Len(workspace.order)
  <2>1. \A h \in Handle : At(workspace.rank, h) \in Int
    BY <1>3, RanksAreIndices DEF ClosureInv, Shape, Fits
  <2> QED BY <1>3, <2>1, SortPermutes
<1>5. /\ Unmarked \in Seq({0, 1}) /\ Len(Unmarked) = Len(workspace.marked)
      /\ \A i \in DOMAIN Unmarked : Unmarked[i] # 1
  <2> DEFINE n == Len(workspace.marked)
             Kept(i) == IF Contains(workspace.order, i - 1) THEN 0
                        ELSE workspace.marked[i]
  <2>1. n \in Nat /\ DOMAIN workspace.marked = 1 .. n
        /\ \A i \in 1 .. n : workspace.marked[i] \in {0, 1}
    BY <1>2, LenProperties, ElementOfSeq
  <2>2. \A i \in 1 .. n :
           workspace.marked[i] = 1 <=> Contains(workspace.order, i - 1)
    BY <1>3, <2>1 DEF ClosureInv, MarksFollowOrder
  <2>3. Unmarked = [i \in 1 .. n |-> Kept(i)]
    BY <2>1 DEF Unmarked
  <2>4. \A i \in 1 .. n : Kept(i) = 0
    BY <2>1, <2>2
  <2> HIDE DEF Kept, n
  <2>5. Unmarked \in [1 .. n -> {0, 1}] /\ \A i \in 1 .. n : Unmarked[i] = 0
    BY <2>3, <2>4
  <2> QED BY <2>1, <2>5 DEF n
<1>6. workspace' = [order |-> sorted, capacity |-> workspace.capacity,
                    rank |-> workspace.rank, marked |-> Unmarked]
  <2> DEFINE half == [workspace EXCEPT !.order = sorted]
  <2>1. workspace' = [half EXCEPT !.marked = Unmarked]
    BY <1>1, Zenon
  <2> HIDE DEF sorted
  <2>2. half = [order |-> sorted, capacity |-> workspace.capacity,
                rank |-> workspace.rank, marked |-> workspace.marked]
    BY <1>2
  <2> HIDE DEF half
  <2> QED BY <2>1, <2>2
<1> HIDE DEF sorted
<1>7. /\ workspace'.order = sorted /\ workspace'.capacity = workspace.capacity
      /\ workspace'.rank = workspace.rank /\ workspace'.marked = Unmarked
  BY <1>6
<1>8. /\ call'.pc = "returned" /\ ~Calling'
      /\ call' \in [pc : {"none", "failed", "seeds", "walk", "returned"},
                    seeds : Seq(Handle), next : Nat \ {0},
                    current : Handle \cup {InvalidNode}]
  BY <1>1, <1>2 DEF Calling
<1>9. Fits' /\ Handle' = Handle
  BY <1>1, <1>5, <1>7, FitsKept DEF ClosureInv
<1>10. Shape'
  <2>1. sorted \in Seq(0 .. InvalidNode - 1)
    BY <1>2, <1>4, WiderSeq
  <2>2. workspace' \in [order : Seq(0 .. InvalidNode - 1),
                        capacity : 0 .. MaxNodes,
                        rank : Seq(0 .. MaxNodes - 1),
                        marked : Seq({0, 1})]
    BY <1>5, <1>6, <2>1, CallParts
  <2> QED BY <1>1, <1>8, <1>9, <2>2 DEF ClosureInv, Shape
<1>11. Running' /\ MarksFollowOrder' /\ ClosureFitsReserve'
  BY <1>4, <1>5, <1>7, <1>8
     DEF ClosureInv, Running, MarksFollowOrder, ClosureFitsReserve
<1> QED BY <1>9, <1>10, <1>11 DEF ClosureInv

(* Every step keeps the invariant.                                         *)
LEMMA NextClosureInv ==
  ASSUME ClosureInv, [Next]_vars, MaxNodes <= InvalidNode
  PROVE  ClosureInv'
<1>1. CASE ReplaceTree
  BY <1>1, ReplaceTreeKeepsInv
<1>2. CASE Prepare
  BY <1>2, PrepareKeepsInv
<1>3. CASE PrepareThrows
  BY <1>3, PrepareThrowsKeepsInv
<1>4. ASSUME NEW seeds \in BoundedSeq(Handle, MaxSeeds), Begin(seeds)
      PROVE  ClosureInv'
  BY <1>4, BeginKeepsInv
<1>5. CASE NextSeed
  BY <1>5, NextSeedKeepsInv
<1>6. CASE Climb
  BY <1>6, ClimbKeepsInv
<1>7. CASE EndPath
  BY <1>7, EndPathKeepsInv
<1>8. CASE Return
  BY <1>8, ReturnKeepsInv
<1>9. CASE UNCHANGED vars
  <2>1. tree' = tree /\ bound' = bound /\ workspace' = workspace /\ call' = call
    BY <1>9 DEF vars
  <2>2. Fits' /\ Handle' = Handle
    BY <2>1, FitsKept DEF ClosureInv
  <2>3. Shape'
    BY <2>1, <2>2 DEF ClosureInv, Shape
  <2>4. Collected' <=> Collected
    BY <2>1, <2>2 DEF Collected, Reached, ParentClosed
  <2>5. Running' /\ MarksFollowOrder' /\ ClosureFitsReserve'
    BY <2>1, <2>2, <2>4
       DEF ClosureInv, Running, Calling, MarksFollowOrder, ClosureFitsReserve
  <2> QED BY <2>2, <2>3, <2>5 DEF ClosureInv
<1> QED BY <1>1, <1>2, <1>3, <1>4, <1>5, <1>6, <1>7, <1>8, <1>9
        DEF Next, Step

(* The invariant holds as long as a handle can name every node.            *)
THEOREM ClosureInvHolds ==
  ASSUME MaxNodes <= InvalidNode
  PROVE  Spec => []ClosureInv
<1>1. Init => ClosureInv
  BY InitClosureInv
<1>2. ClosureInv /\ [Next]_vars => ClosureInv'
  BY NextClosureInv
<1> QED BY <1>1, <1>2, PTL DEF Spec

(* The vectors hold what the code takes them to hold.                      *)
THEOREM ClosureTypesHold ==
  ASSUME MaxNodes <= InvalidNode
  PROVE  Spec => []TypeOK
<1>1. ClosureInv => TypeOK
  BY DEF ClosureInv, Shape, Fits, TypeOK
<1> QED BY <1>1, ClosureInvHolds, PTL

(* No mark outlives its call, and in a call the marks are those of the     *)
(* order.                                                                  *)
THEOREM NoMarkIsLeft ==
  ASSUME MaxNodes <= InvalidNode
  PROVE  Spec => []MarksFollowOrder
<1>1. ClosureInv => MarksFollowOrder
  BY DEF ClosureInv
<1> QED BY <1>1, ClosureInvHolds, PTL

(* No seeds make a closure allocate.                                       *)
THEOREM ClosuresNeverGrow ==
  ASSUME MaxNodes <= InvalidNode
  PROVE  Spec => []ClosureFitsReserve
<1>1. ClosureInv => ClosureFitsReserve
  BY DEF ClosureInv
<1> QED BY <1>1, ClosureInvHolds, PTL

-----------------------------------------------------------------------------
(* The refinement of the contract *)

(* When the seeds are done the order is their ancestor union.              *)
LEMMA OrderIsUnion ==
  ASSUME ClosureInv, MaxNodes <= InvalidNode,
         call.pc = "seeds", call.next > Len(call.seeds)
  PROVE  ToSet(workspace.order) = Contract!AncestorUnion(call.seeds)
<1> DEFINE members == ToSet(workspace.order)
<1>1. /\ Handle = Contract!Handle
      /\ \A S : ParentClosed(S) <=> Contract!ClosedUnderParent(S)
  BY DEF Handle, HandlesOf, Contract!Handle, ParentClosed, At,
         Contract!ClosedUnderParent, Contract!Parent
<1>2. /\ call.seeds \in Seq(Handle) /\ call.next \in Nat \ {0}
      /\ InvalidNode \notin Handle
  BY CallParts
<1>3. /\ workspace.order \in Seq(Handle) /\ Collected /\ Reached = {}
  BY DEF ClosureInv, Running, Calling, Reached
<1>4. members \subseteq Handle
  BY <1>3, MembersOfSeq
<1>5. /\ \A h \in members : At(tree.parent, h) \in members \cup {InvalidNode}
      /\ call.next <= Len(call.seeds) + 1
      /\ \A k \in 1 .. call.next - 1 : call.seeds[k] \in members
      /\ \A S \in SUBSET Handle :
            ToSet(call.seeds) \subseteq S /\ ParentClosed(S)
               => members \subseteq S \cup {InvalidNode}
  BY <1>3 DEF Collected
<1>6. ToSet(call.seeds) \subseteq members /\ ParentClosed(members)
  <2>1. \A k \in 1 .. Len(call.seeds) : k \in 1 .. call.next - 1
    BY <1>2, <1>5, LenProperties
  <2>2. ToSet(call.seeds) = {call.seeds[k] : k \in 1 .. Len(call.seeds)}
    BY <1>2, MembersOfSeq
  <2>3. ParentClosed(members)
    BY <1>5 DEF ParentClosed
  <2> HIDE DEF members
  <2> QED BY <1>5, <2>1, <2>2, <2>3
<1> HIDE DEF members
<1>7. \A a \in members : a \in Contract!AncestorUnion(call.seeds)
  BY <1>1, <1>2, <1>4, <1>5 DEF Contract!AncestorUnion, Contract!ToSet, ToSet
<1>8. \A a \in Contract!AncestorUnion(call.seeds) : a \in members
  BY <1>1, <1>4, <1>6 DEF Contract!AncestorUnion, Contract!ToSet, ToSet
<1> QED BY <1>7, <1>8 DEF members

(* The sorted order is the closure the contract names.                     *)
LEMMA SortedIsClosure ==
  ASSUME ClosureInv, MaxNodes <= InvalidNode,
         call.pc = "seeds", call.next > Len(call.seeds)
  PROVE  Contract!IsClosure(SortedByRank(workspace.order), call.seeds)
<1> DEFINE sorted == SortedByRank(workspace.order)
           r == tree.plan.reverseTopo
           R(h) == At(workspace.rank, h)
<1>1. /\ workspace.order \in Seq(Handle) /\ IsInjective(workspace.order)
      /\ bound /\ workspace.rank = Ranks
      /\ tree \in Topologies
  BY DEF ClosureInv, Shape, Fits, Running, Calling
<1>2. /\ NodeCount \in Nat
      /\ r \in Seq(Handle) /\ Len(r) = NodeCount /\ IsInjective(r)
  BY <1>1, TreeFacts
<1>3. \A h \in Handle : R(h) \in 0 .. NodeCount - 1 /\ r[R(h) + 1] = h
  BY <1>1, RanksAreIndices
<1>4. \A h \in Handle : At(workspace.rank, h) \in Int
  BY <1>3
<1>5. /\ sorted \in Seq(Handle) /\ Len(sorted) = Len(workspace.order)
      /\ DOMAIN sorted = 1 .. Len(workspace.order)
      /\ ToSet(sorted) = ToSet(workspace.order)
      /\ \A p, q \in 1 .. Len(workspace.order) : p < q =>
            R(sorted[p]) <= R(sorted[q]) /\ sorted[p] # sorted[q]
  BY <1>1, <1>4, SortPermutes
<1>6. Handle = Contract!Handle
  BY DEF Handle, HandlesOf, Contract!Handle
<1> HIDE DEF sorted, R
<1>7. ASSUME NEW h \in Handle PROVE Contract!Rank(h) = R(h) + 1
  <2>1. DOMAIN r = 1 .. NodeCount
    BY <1>2, LenProperties
  <2>2. R(h) + 1 \in DOMAIN r /\ r[R(h) + 1] = h
    BY <1>2, <1>3, <2>1
  <2>3. \A i \in DOMAIN r : r[i] = h => i = R(h) + 1
    BY <1>2, <2>2 DEF IsInjective
  <2>4. Contract!Rank(h) = CHOOSE i \in DOMAIN r : r[i] = h
    BY DEF Contract!Rank
  <2> HIDE DEF r
  <2> QED BY <2>2, <2>3, <2>4
<1>8. ASSUME NEW p \in DOMAIN sorted, NEW q \in DOMAIN sorted, p < q
      PROVE  Contract!Rank(sorted[p]) < Contract!Rank(sorted[q])
  <2>1. sorted[p] \in Handle /\ sorted[q] \in Handle
    BY <1>5, <1>8, ElementOfSeq
  <2>2. R(sorted[p]) <= R(sorted[q]) /\ sorted[p] # sorted[q]
    BY <1>5, <1>8
  <2>3. R(sorted[p]) \in Int /\ R(sorted[q]) \in Int
    BY <1>3, <2>1
  <2>4. R(sorted[p]) # R(sorted[q])
    BY <1>3, <2>1, <2>2
  <2>5. R(sorted[p]) + 1 < R(sorted[q]) + 1
    BY <2>2, <2>3, <2>4
  <2> QED BY <1>7, <2>1, <2>5
<1>9. ToSet(sorted) = Contract!AncestorUnion(call.seeds)
  BY <1>5, OrderIsUnion
<1> QED BY <1>5, <1>6, <1>8, <1>9 DEF Contract!IsClosure, Contract!ToSet, ToSet, sorted

(* Every step is one of the contract, or none.                             *)
LEMMA StepsOfContract ==
  ASSUME ClosureInv, ClosureInv', [Next]_vars, MaxNodes <= InvalidNode
  PROVE  \/ Contract!Next
         \/ UNCHANGED <<tree, bound, call.seeds,
                        IF Calling THEN "pending"
                        ELSE IF call.pc = "returned" THEN "answered"
                        ELSE "none",
                        IF call.pc = "returned" THEN workspace.order ELSE <<>> >>
<1>1. CASE ReplaceTree
  <2>1. /\ ~Calling /\ tree' \in Topologies /\ bound' = FALSE
        /\ call' = NoCall
    BY <1>1 DEF ReplaceTree
  <2>2. call'.pc = "none" /\ call'.seeds = <<>> /\ ~Calling'
    BY <2>1 DEF NoCall, Calling
  <2>3. Contract!Bind
    BY <2>1, <2>2 DEF Contract!Bind
  <2> QED BY <2>3 DEF Contract!Next
<1>2. CASE Prepare \/ PrepareThrows
  <2>1. /\ ~Calling /\ tree' = tree /\ bound' \in BOOLEAN
        /\ \/ call' = NoCall
           \/ call' = [NoCall EXCEPT !.pc = "failed"]
    BY <1>2, Zenon DEF Prepare, PrepareThrows
  <2>2. call'.pc \in {"none", "failed"} /\ call'.seeds = <<>> /\ ~Calling'
    BY <2>1 DEF NoCall, Calling
  <2>3. Contract!Bind
    BY <2>1, <2>2 DEF Contract!Bind
  <2> QED BY <2>3 DEF Contract!Next
<1>3. ASSUME NEW seeds \in BoundedSeq(Handle, MaxSeeds), Begin(seeds)
      PROVE  Contract!Next
  <2>1. /\ bound /\ ~Calling /\ tree' = tree /\ bound' = bound
        /\ call' = [NoCall EXCEPT !.pc = "seeds", !.seeds = seeds]
    BY <1>3, Zenon DEF Begin
  <2> DEFINE half == [NoCall EXCEPT !.pc = "seeds"]
  <2>2. call' = [half EXCEPT !.seeds = seeds]
    BY <2>1, Zenon
  <2>3. half = [pc |-> "seeds", seeds |-> <<>>, next |-> 1,
                current |-> InvalidNode]
    BY DEF NoCall
  <2> HIDE DEF half
  <2>4. call'.pc = "seeds" /\ call'.seeds = seeds
    BY <2>2, <2>3
  <2>5. Calling' /\ Handle = Contract!Handle
    BY <2>4 DEF Calling, Handle, HandlesOf, Contract!Handle
  <2>6. Contract!Ask
    <3>1. /\ bound /\ tree' = tree /\ bound' = bound
          /\ call'.seeds \in BoundedSeq(Contract!Handle, MaxSeeds)
      BY <1>3, <2>1, <2>4, <2>5
    <3>2. ~Calling /\ Calling' /\ call'.pc # "returned"
      BY <2>1, <2>4, <2>5
    <3> QED BY <3>1, <3>2 DEF Contract!Ask, Contract!BoundedSeq, BoundedSeq, Contract!SeqOf, SeqOf
  <2> QED BY <2>6 DEF Contract!Next
<1>4. ASSUME NextSeed \/ Climb \/ EndPath
      PROVE  UNCHANGED <<tree, bound, call.seeds,
                         IF Calling THEN "pending"
                         ELSE IF call.pc = "returned" THEN "answered"
                         ELSE "none",
                         IF call.pc = "returned" THEN workspace.order
                         ELSE <<>> >>
  <2>1. tree' = tree /\ bound' = bound /\ call.pc \in {"seeds", "walk"}
    BY <1>4, Zenon DEF NextSeed, Climb, EndPath
  <2>2. call = [pc |-> call.pc, seeds |-> call.seeds, next |-> call.next,
                current |-> call.current]
    BY CallParts
  <2>3. call'.seeds = call.seeds /\ call'.pc \in {"seeds", "walk"}
    <3>1. CASE NextSeed
      <4> DEFINE c1 == [call EXCEPT !.pc = "walk"]
                 c2 == [c1 EXCEPT !.next = FollowingSeed]
                 seed == call.seeds[call.next]
      <4>1. call' = [c2 EXCEPT !.current = seed]
        BY <3>1, Zenon DEF NextSeed
      <4>2. c1 = [pc |-> "walk", seeds |-> call.seeds, next |-> call.next,
                  current |-> call.current]
        BY <2>2
      <4> HIDE DEF c1, seed
      <4>3. c2 = [pc |-> "walk", seeds |-> call.seeds, next |-> FollowingSeed,
                  current |-> call.current]
        BY <4>2
      <4> HIDE DEF c2
      <4> QED BY <4>1, <4>3
    <3>2. CASE Climb
      <4>1. call' = [call EXCEPT !.current = At(tree.parent, call.current)]
        BY <3>2, Zenon DEF Climb
      <4> QED BY <2>1, <2>2, <4>1
    <3>3. CASE EndPath
      <4>1. call' = [call EXCEPT !.pc = "seeds"]
        BY <3>3, Zenon DEF EndPath
      <4> QED BY <2>2, <4>1
    <3> QED BY <1>4, <3>1, <3>2, <3>3
  <2>4. Calling /\ Calling'
    BY <2>1, <2>3 DEF Calling
  <2> QED BY <2>1, <2>3, <2>4
<1>5. CASE Return
  <2> DEFINE sorted == SortedByRank(workspace.order)
  <2>1. /\ call.pc = "seeds" /\ call.next > Len(call.seeds)
        /\ tree' = tree /\ bound' = bound
        /\ workspace' = [workspace EXCEPT !.order = sorted, !.marked = Unmarked]
        /\ call' = [call EXCEPT !.pc = "returned"]
    BY <1>5, Zenon DEF Return
  <2>2. Contract!IsClosure(sorted, call.seeds)
    BY <2>1, SortedIsClosure
  <2>3. call'.pc = "returned" /\ call'.seeds = call.seeds
    <3>1. call = [pc |-> call.pc, seeds |-> call.seeds, next |-> call.next,
                  current |-> call.current]
      BY CallParts
    <3> QED BY <2>1, <3>1
  <2>4. workspace'.order = sorted
    <3> DEFINE half == [workspace EXCEPT !.order = sorted]
    <3>1. workspace' = [half EXCEPT !.marked = Unmarked]
      BY <2>1, Zenon
    <3>2. workspace = [order |-> workspace.order,
                       capacity |-> workspace.capacity,
                       rank |-> workspace.rank, marked |-> workspace.marked]
      BY CallParts
    <3> HIDE DEF sorted
    <3>3. half = [order |-> sorted, capacity |-> workspace.capacity,
                  rank |-> workspace.rank, marked |-> workspace.marked]
      BY <3>2
    <3> HIDE DEF half
    <3> QED BY <3>1, <3>3
  <2>5. Calling /\ ~Calling'
    BY <2>1, <2>3 DEF Calling
  <2> HIDE DEF sorted
  <2>6. Contract!Answer
    BY <2>1, <2>2, <2>3, <2>4, <2>5 DEF Contract!Answer
  <2> QED BY <2>6 DEF Contract!Next
<1>6. CASE UNCHANGED vars
  BY <1>6 DEF vars, Calling
<1> QED BY <1>1, <1>2, <1>3, <1>4, <1>5, <1>6 DEF Next, Step

(* ancestor_closure_order keeps its contract: bound to a tree, a call      *)
(* answers with the inclusive ancestor union of its seeds in the reverse   *)
(* topological order of that tree, whatever the workspace served before.   *)
THEOREM ClosureRefinesContract ==
  ASSUME MaxNodes <= InvalidNode
  PROVE  Spec => ImplementsClosureContract
<1>1. Init => Contract!Init
  <2> SUFFICES ASSUME Init PROVE Contract!Init
    OBVIOUS
  <2>1. /\ tree \in Topologies /\ bound = FALSE
        /\ call.pc = "none" /\ call.seeds = <<>>
    BY DEF Init, NoCall
  <2> QED BY <2>1 DEF Contract!Init, Calling
<1>2. ClosureInv /\ ClosureInv' /\ [Next]_vars
         => [Contract!Next]_<<tree, bound, call.seeds,
                              IF Calling THEN "pending"
                              ELSE IF call.pc = "returned" THEN "answered"
                              ELSE "none",
                              IF call.pc = "returned" THEN workspace.order
                              ELSE <<>> >>
  BY StepsOfContract
<1> QED BY <1>1, <1>2, ClosureInvHolds, PTL
        DEF Spec, ImplementsClosureContract, Contract!Spec

=============================================================================
