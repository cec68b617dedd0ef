--------------------------- MODULE StaticDagProofs ---------------------------
(***************************************************************************)
(* What build and the traversals of StaticDag promise, for any payloads    *)
(* and any number of nodes and edges.                                      *)
(*                                                                         *)
(* Parallel edges and several parents are what a polytree's proofs do not  *)
(* meet.  kahn_topo is followed by the set of edges it has relaxed: a      *)
(* degree counts the edges left, and a node is queued when none is.  The   *)
(* two tables are described by the order std::sort may leave, any that     *)
(* ascends, and a row by a one-to-one list of the edges at its node.  The  *)
(* depth-first loop ends within its rounds because a node pushed costs one *)
(* edge and an edge is spent once; the breadth-first one because a queued  *)
(* node is never queued again.                                             *)
(***************************************************************************)
EXTENDS StaticDag, BuildLemmas

-----------------------------------------------------------------------------
(* kahn_topo with parallel edges: an edge is relaxed once, when its from   *)
(* is ordered; what is left is counted in the degree of its to.            *)

Left(edges, R, h) == {k \in DOMAIN edges : k \notin R /\ edges[k].to = h}

DagStates(total) ==
    [queue : Seq(0 .. total - 1), order : Seq(0 .. total - 1),
     degree : [0 .. total - 1 -> Int]]

(* The loop after the edges of R are relaxed.                              *)
DagState(edges, total, s, R) ==
    /\ s \in DagStates(total)
    /\ IsInjective(s.queue)
    /\ IsInjective(s.order)
    /\ ToSet(s.queue) \cap ToSet(s.order) = {}
    /\ \A h \in 0 .. total - 1 :
          /\ s.degree[h] = Cardinality(Left(edges, R, h))
          /\ h \in ToSet(s.queue) \cup ToSet(s.order)
                <=> Left(edges, R, h) = {}
    /\ \A k \in R : edges[k].from \in ToSet(s.order)
    /\ ParentsAhead(edges, s.order)

(* The edges still counted at a node are finitely many.                    *)
LEMMA LeftIsFinite ==
  ASSUME NEW total \in Nat, NEW D, NEW edges \in Seq(EdgeBelow(total, D)),
         NEW R, NEW h
  PROVE  /\ IsFiniteSet(Left(edges, R, h))
         /\ Cardinality(Left(edges, R, h)) \in Nat
         /\ Cardinality(Left(edges, R, h)) = 0 <=> Left(edges, R, h) = {}
<1>1. Len(edges) \in Nat /\ DOMAIN edges = 1 .. Len(edges)
  BY LenProperties
<1>2. Left(edges, R, h) \in SUBSET (1 .. Len(edges))
  BY <1>1 DEF Left
<1>3. IsFiniteSet(Left(edges, R, h)) /\ Cardinality(Left(edges, R, h)) \in Nat
  BY <1>1, <1>2, PositionsFinite
<1> QED BY <1>3, FS_EmptySet

(* Relaxing an edge takes one from the edges left at its to, and none      *)
(* elsewhere.                                                              *)
LEMMA LeftRelaxed ==
  ASSUME NEW total \in Nat, NEW D, NEW edges \in Seq(EdgeBelow(total, D)),
         NEW R, NEW k \in DOMAIN edges, k \notin R, NEW h
  PROVE  LET now == Left(edges, R, h)
             then == Left(edges, R \cup {k}, h)
         IN  IF edges[k].to = h
             THEN /\ now # {}
                  /\ Cardinality(then) = Cardinality(now) - 1
             ELSE then = now
<1> DEFINE now == Left(edges, R, h)
           then == Left(edges, R \cup {k}, h)
<1>1. CASE edges[k].to = h
  <2>1. k \in now /\ then = now \ {k}
    BY <1>1 DEF Left
  <2>2. IsFiniteSet(now)
    BY LeftIsFinite
  <2> HIDE DEF now, then
  <2>3. Cardinality(then) = Cardinality(now) - 1
    BY <2>1, <2>2, FS_RemoveElement
  <2> QED BY <1>1, <2>1, <2>3 DEF now, then
<1>2. CASE edges[k].to # h
  <2>1. then = now
    BY <1>2 DEF Left
  <2> QED BY <1>2, <2>1
<1> QED BY <1>1, <1>2

(* The members of a state of the loop.                                     *)
LEMMA DagStateParts ==
  ASSUME NEW total \in Nat, NEW s \in DagStates(total)
  PROVE  /\ s = [queue |-> s.queue, order |-> s.order, degree |-> s.degree]
         /\ s.queue \in Seq(0 .. total - 1)
         /\ s.order \in Seq(0 .. total - 1)
         /\ s.degree \in [0 .. total - 1 -> Int]
BY DEF DagStates

(* Relaxing an edge whose from is ordered.                                 *)
LEMMA RelaxKeeps ==
  ASSUME NEW total \in Nat, NEW D, NEW edges \in Seq(EdgeBelow(total, D)),
         NEW s, NEW R, DagState(edges, total, s, R),
         NEW k \in DOMAIN edges, k \notin R,
         edges[k].from \in ToSet(s.order)
  PROVE  /\ DagState(edges, total, Relax(s, edges[k].to), R \cup {k})
         /\ Relax(s, edges[k].to).order = s.order
<1> DEFINE H == 0 .. total - 1
           c == edges[k].to
           r == Relax(s, c)
           was(h) == Left(edges, R, h)
           is(h) == Left(edges, R \cup {k}, h)
<1>1. /\ Len(edges) \in Nat /\ DOMAIN edges = 1 .. Len(edges)
      /\ edges[k] \in EdgeBelow(total, D)
  BY LenProperties, ElementOfSeq
<1>2. c \in H
  BY <1>1 DEF EdgeBelow
<1>3. /\ s \in DagStates(total)
      /\ s.queue \in Seq(H) /\ s.order \in Seq(H)
      /\ s.degree \in [H -> Int]
      /\ IsInjective(s.queue) /\ IsInjective(s.order)
      /\ ToSet(s.queue) \cap ToSet(s.order) = {}
  BY DagStateParts DEF DagState
<1>4. \A h \in H : /\ s.degree[h] = Cardinality(was(h))
                   /\ h \in ToSet(s.queue) \cup ToSet(s.order) <=> was(h) = {}
  BY DEF DagState
<1>5. \A h \in H : /\ IF h = c
                      THEN /\ was(h) # {}
                           /\ Cardinality(is(h)) = Cardinality(was(h)) - 1
                      ELSE is(h) = was(h)
                   /\ Cardinality(was(h)) \in Nat
                   /\ Cardinality(is(h)) = 0 <=> is(h) = {}
  <2> SUFFICES ASSUME NEW h \in H
               PROVE  /\ IF h = c
                         THEN /\ was(h) # {}
                              /\ Cardinality(is(h)) = Cardinality(was(h)) - 1
                         ELSE is(h) = was(h)
                      /\ Cardinality(was(h)) \in Nat
                      /\ Cardinality(is(h)) = 0 <=> is(h) = {}
    OBVIOUS
  <2>1. IF edges[k].to = h
        THEN /\ was(h) # {}
             /\ Cardinality(is(h)) = Cardinality(was(h)) - 1
        ELSE is(h) = was(h)
    BY LeftRelaxed
  <2>2. Cardinality(was(h)) \in Nat
    BY LeftIsFinite
  <2>3. Cardinality(is(h)) = 0 <=> is(h) = {}
    BY LeftIsFinite
  <2> HIDE DEF was, is
  <2> QED BY <2>1, <2>2, <2>3
<1>6. /\ r.order = s.order
      /\ r.queue = IF s.degree[c] = 1 THEN Append(s.queue, c) ELSE s.queue
      /\ r.degree = [s.degree EXCEPT ![c] = @ - 1]
      /\ r = [queue |-> r.queue, order |-> r.order, degree |-> r.degree]
  BY DEF Relax
<1>7. c \notin ToSet(s.queue) \cup ToSet(s.order)
  BY <1>2, <1>4, <1>5
<1>8. /\ r.queue \in Seq(H) /\ IsInjective(r.queue)
      /\ ToSet(r.queue) = IF s.degree[c] = 1 THEN ToSet(s.queue) \cup {c}
                          ELSE ToSet(s.queue)
  <2>1. /\ Append(s.queue, c) \in Seq(H) /\ IsInjective(Append(s.queue, c))
        /\ ToSet(Append(s.queue, c)) = ToSet(s.queue) \cup {c}
    <3> HIDE DEF H, c, r, was, is
    <3> QED BY <1>2, <1>3, <1>7, AppendMembers, AppendProperties
  <2> HIDE DEF H, c, r, was, is
  <2> QED BY <1>3, <1>6, <2>1
<1>9. /\ r.degree \in [H -> Int]
      /\ \A h \in H : r.degree[h] = IF h = c THEN s.degree[h] - 1 ELSE s.degree[h]
  BY <1>2, <1>3, <1>6
<1>10. (\A j \in R : edges[j].from \in ToSet(s.order)) /\ ParentsAhead(edges, s.order)
  BY DEF DagState
<1> HIDE DEF r, c, was, is, H
<1>11. r \in DagStates(total)
  BY <1>3, <1>6, <1>8, <1>9 DEF DagStates, H
<1>12. ToSet(r.queue) \cap ToSet(r.order) = {}
  BY <1>3, <1>6, <1>7, <1>8
<1>13. ASSUME NEW h \in H
       PROVE  /\ r.degree[h] = Cardinality(is(h))
              /\ h \in ToSet(r.queue) \cup ToSet(r.order) <=> is(h) = {}
  <2>1. CASE h = c
    <3>1. /\ Cardinality(is(h)) = Cardinality(was(h)) - 1
          /\ r.degree[h] = s.degree[h] - 1 /\ s.degree[h] = Cardinality(was(h))
          /\ Cardinality(was(h)) \in Nat
      BY <1>4, <1>5, <1>9, <2>1
    <3>2. s.degree[h] = 1 <=> is(h) = {}
      BY <1>5, <3>1
    <3>3. h \in ToSet(r.queue) \cup ToSet(r.order) <=> s.degree[h] = 1
      BY <1>6, <1>7, <1>8, <2>1
    <3> QED BY <3>1, <3>2, <3>3
  <2>2. CASE h # c
    <3>1. h \in ToSet(r.queue) \cup ToSet(r.order)
            <=> h \in ToSet(s.queue) \cup ToSet(s.order)
      BY <1>6, <1>8, <2>2
    <3> QED BY <1>4, <1>5, <1>9, <2>2, <3>1
  <2> QED BY <2>1, <2>2
<1>14. \A j \in R \cup {k} : edges[j].from \in ToSet(r.order)
  BY <1>6, <1>10
<1>15. DagState(edges, total, r, R \cup {k})
  <2>1. \A h \in 0 .. total - 1 :
          /\ r.degree[h] = Cardinality(Left(edges, R \cup {k}, h))
          /\ h \in ToSet(r.queue) \cup ToSet(r.order)
                <=> Left(edges, R \cup {k}, h) = {}
    BY <1>13 DEF H, is
  <2> QED BY <1>3, <1>6, <1>8, <1>10, <1>11, <1>12, <1>14, <2>1 DEF DagState
<1> QED BY <1>6, <1>15 DEF r, c

(* Ordering the node at the back of the queue.                             *)
LEMMA TakeOffKeeps ==
  ASSUME NEW total \in Nat, NEW D, NEW edges \in Seq(EdgeBelow(total, D)),
         NEW s, NEW R, DagState(edges, total, s, R), s.queue # <<>>
  PROVE  /\ DagState(edges, total, TakeOff(s), R)
         /\ Last(s.queue) \in 0 .. total - 1
         /\ Last(s.queue) \notin ToSet(s.order)
         /\ ToSet(TakeOff(s).order) = ToSet(s.order) \cup {Last(s.queue)}
         /\ Len(TakeOff(s).order) = Len(s.order) + 1
<1> DEFINE H == 0 .. total - 1
           n == Last(s.queue)
           r == TakeOff(s)
<1>1. /\ s.queue \in Seq(H) /\ s.order \in Seq(H)
      /\ s.degree \in [H -> Int]
      /\ IsInjective(s.queue) /\ IsInjective(s.order)
      /\ ToSet(s.queue) \cap ToSet(s.order) = {}
      /\ ToSet(s.queue) \subseteq H
  BY DagStateParts, MembersOfSeq DEF DagState
<1>2. /\ n \in ToSet(s.queue) /\ Front(s.queue) \in Seq(H)
      /\ ToSet(Front(s.queue)) = ToSet(s.queue) \ {n}
      /\ IsInjective(Front(s.queue))
  BY <1>1, FrontMembers
<1>3. n \in H /\ n \notin ToSet(s.order)
  BY <1>1, <1>2
<1>4. /\ r.queue = Front(s.queue) /\ r.order = Append(s.order, n)
      /\ r.degree = s.degree
      /\ r = [queue |-> r.queue, order |-> r.order, degree |-> r.degree]
  BY DEF TakeOff
<1>5. /\ r.order \in Seq(H) /\ IsInjective(r.order)
      /\ ToSet(r.order) = ToSet(s.order) \cup {n}
      /\ Len(r.order) = Len(s.order) + 1
      /\ \A i \in 1 .. Len(s.order) : r.order[i] = s.order[i]
      /\ r.order[Len(s.order) + 1] = n
      /\ DOMAIN r.order = 1 .. Len(r.order)
      /\ Len(s.order) \in Nat /\ DOMAIN s.order = 1 .. Len(s.order)
  BY <1>1, <1>3, <1>4, AppendMembers, AppendProperties, LenProperties
<1>6. /\ \A h \in H : /\ s.degree[h] = Cardinality(Left(edges, R, h))
                      /\ h \in ToSet(s.queue) \cup ToSet(s.order)
                            <=> Left(edges, R, h) = {}
      /\ \A k \in R : edges[k].from \in ToSet(s.order)
      /\ ParentsAhead(edges, s.order)
  BY DEF DagState
<1>7. Left(edges, R, n) = {}
  BY <1>2, <1>3, <1>6
<1> HIDE DEF H, n, r
<1>8. ParentsAhead(edges, r.order)
  <2> SUFFICES ASSUME NEW k \in DOMAIN edges, NEW j \in 1 .. Len(s.order) + 1,
                      edges[k].to = r.order[j]
               PROVE  \E i \in 1 .. Len(s.order) + 1 :
                         i < j /\ r.order[i] = edges[k].from
    BY <1>5 DEF ParentsAhead
  <2>1. CASE j = Len(s.order) + 1
    <3>1. edges[k].to = n
      BY <1>5, <2>1
    <3>2. k \in R
      BY <1>7, <3>1 DEF Left
    <3>3. PICK i \in 1 .. Len(s.order) : s.order[i] = edges[k].from
      <4>1. edges[k].from \in ToSet(s.order)
        BY <1>6, <3>2
      <4>2. ToSet(s.order) = {s.order[i] : i \in 1 .. Len(s.order)}
        BY <1>5 DEF ToSet
      <4> QED BY <4>1, <4>2
    <3>4. i \in 1 .. Len(s.order) + 1 /\ i < j /\ r.order[i] = edges[k].from
      BY <1>5, <2>1, <3>3
    <3> QED BY <3>4
  <2>2. CASE j # Len(s.order) + 1
    <3>1. j \in 1 .. Len(s.order)
      BY <1>5, <2>2
    <3>2. s.order[j] = edges[k].to
      BY <1>5, <3>1
    <3>3. PICK i \in 1 .. Len(s.order) : i < j /\ s.order[i] = edges[k].from
      BY <1>5, <1>6, <3>1, <3>2 DEF ParentsAhead
    <3>4. i \in 1 .. Len(s.order) + 1 /\ r.order[i] = edges[k].from
      BY <1>5, <3>3
    <3> QED BY <3>3, <3>4
  <2> QED BY <2>1, <2>2
<1>9. r \in DagStates(total)
  BY <1>1, <1>2, <1>4, <1>5 DEF DagStates, H
<1>10. ToSet(r.queue) \cup ToSet(r.order) = ToSet(s.queue) \cup ToSet(s.order)
  BY <1>2, <1>4, <1>5
<1>11. ToSet(r.queue) \cap ToSet(r.order) = {}
  BY <1>1, <1>2, <1>4, <1>5
<1>12. DagState(edges, total, r, R)
  <2>1. \A h \in 0 .. total - 1 :
          /\ r.degree[h] = Cardinality(Left(edges, R, h))
          /\ h \in ToSet(r.queue) \cup ToSet(r.order) <=> Left(edges, R, h) = {}
    BY <1>4, <1>6, <1>10 DEF H
  <2>2. \A k \in R : edges[k].from \in ToSet(r.order)
    BY <1>5, <1>6
  <2>3. IsInjective(r.queue) /\ IsInjective(r.order)
    BY <1>2, <1>4, <1>5
  <2> QED BY <1>8, <1>9, <1>11, <2>1, <2>2, <2>3 DEF DagState
<1> QED BY <1>3, <1>5, <1>12 DEF H, n, r

(* What RelaxAll does with one edge of the builder.                        *)
RelaxFrom(s, e, node) == IF e.from = node THEN Relax(s, e.to) ELSE s

(* It takes a state of the loop to a state of the loop.                    *)
LEMMA RelaxFromKeeps ==
  ASSUME NEW total \in Nat, NEW D, NEW e \in EdgeBelow(total, D),
         NEW s \in DagStates(total), NEW node
  PROVE  RelaxFrom(s, e, node) \in DagStates(total)
<1> DEFINE H == 0 .. total - 1
<1>1. e.to \in H
  BY DEF EdgeBelow
<1>2. s.queue \in Seq(H) /\ s.order \in Seq(H) /\ s.degree \in [H -> Int]
  BY DEF DagStates
<1>3. Append(s.queue, e.to) \in Seq(H)
  BY <1>1, <1>2, AppendProperties
<1>4. [s.degree EXCEPT ![e.to] = @ - 1] \in [H -> Int]
  BY <1>1, <1>2
<1> HIDE DEF H
<1>5. Relax(s, e.to) \in [queue : Seq(H), order : Seq(H), degree : [H -> Int]]
  BY <1>1, <1>2, <1>3, <1>4 DEF Relax
<1> QED BY <1>5 DEF RelaxFrom, DagStates, H

(* What relax does to all the edges of a node, one edge after the other.   *)
LEMMA RelaxRounds ==
  ASSUME NEW total \in Nat, NEW D, NEW edges \in Seq(EdgeBelow(total, D)),
         NEW s0 \in DagStates(total), NEW node
  PROVE  \E run \in [0 .. Len(edges) -> DagStates(total)] :
            /\ run[0] = s0
            /\ \A i \in 1 .. Len(edges) :
                  run[i] = RelaxFrom(run[i - 1], edges[i], node)
            /\ RelaxAll(s0, edges, node) = run[Len(edges)]
<1> DEFINE n == Len(edges)
           V == DagStates(total)
           U == SUBSET (1 .. n)
           Body(w, s) == IF s = {} THEN s0
                         ELSE RelaxFrom(w[s \ {Max(s)}], edges[Max(s)], node)
           iter == CHOOSE w : w = [s \in U |-> Body(w, s)]
           step == [x \in (1 .. n) \X V |-> RelaxFrom(x[2], edges[x[1]], node)]
           run == [i \in 0 .. n |-> iter[1 .. i]]
<1>1. n \in Nat /\ DOMAIN edges = 1 .. n /\ \A i \in 1 .. n : edges[i] \in EdgeBelow(total, D)
  BY LenProperties, ElementOfSeq
<1>2. RelaxAll(s0, edges, node) = iter[1 .. n]
  BY <1>1 DEF RelaxAll, RelaxFrom, FoldLeft, MapThenFoldSet
<1>3. s0 \in V
  OBVIOUS
<1>4. \A i \in 1 .. n, v \in V : RelaxFrom(v, edges[i], node) \in V
  BY <1>1, RelaxFromKeeps
<1> HIDE DEF n, V
<1>5. step \in [(1 .. n) \X V -> V]
  BY <1>4
<1>6. \A i \in 1 .. n, v \in V :
         step[<<i, v>>] = RelaxFrom(v, edges[i], node)
  OBVIOUS
<1> HIDE DEF step
<1>7. PICK f \in [U -> V] : FoldsBy(f, n, s0, step)
  BY <1>1, <1>3, <1>5, FoldExists
<1>8. \A s \in U : s # {} => Max(s) \in 1 .. n /\ s \ {Max(s)} \in U
  <2> SUFFICES ASSUME NEW s \in U, s # {} PROVE Max(s) \in 1 .. n
    OBVIOUS
  <2>1. s \in SUBSET (0 .. n)
    OBVIOUS
  <2>2. Max(s) \in s
    BY <1>1, <2>1, MaxOfBounded
  <2> QED BY <2>2
<1>9. ASSUME NEW s \in U PROVE f[s] = Body(f, s)
  <2>1. CASE s = {}
    BY <1>7, <2>1 DEF FoldsBy
  <2>2. CASE s # {}
    <3> DEFINE m == Max(s)
    <3>1. m \in 1 .. n /\ s \ {m} \in U
      BY <1>8, <2>2
    <3>2. f[s] = step[<<m, f[s \ {m}]>>]
      BY <1>7, <2>2 DEF FoldsBy
    <3> HIDE DEF m
    <3>3. f[s \ {m}] \in V
      BY <1>7, <3>1
    <3>4. f[s] = RelaxFrom(f[s \ {m}], edges[m], node)
      BY <1>6, <3>1, <3>2, <3>3
    <3> QED BY <2>2, <3>4 DEF m
  <2> QED BY <2>1, <2>2
<1>10. f = [s \in U |-> Body(f, s)]
  <2> HIDE DEF Body, U
  <2> QED BY <1>7, <1>9
<1> HIDE DEF Body, U
<1>11. iter = [s \in U |-> Body(iter, s)]
  BY <1>10
<1> HIDE DEF iter
<1>12. \A s \in U : iter[s] = Body(iter, s)
  BY <1>11, Zenon
<1>13. \A i \in 0 .. n : 1 .. i \in U /\ run[i] = iter[1 .. i]
  BY <1>1 DEF U
<1>14. run[0] = s0
  <2>1. 0 \in 0 .. n /\ 1 .. 0 = {}
    BY <1>1
  <2>2. Body(iter, 1 .. 0) = s0
    BY <2>1 DEF Body
  <2> HIDE DEF run
  <2> QED BY <1>12, <1>13, <2>1, <2>2
<1>15. ASSUME NEW i \in 1 .. n
       PROVE  run[i] = RelaxFrom(run[i - 1], edges[i], node)
  <2> DEFINE s == 1 .. i
  <2>1. i \in 0 .. n /\ i - 1 \in 0 .. n /\ s # {} /\ s \in SUBSET (0 .. n)
    <3>1. i \in s
      OBVIOUS
    <3>2. i \in 0 .. n /\ i - 1 \in 0 .. n /\ s \in SUBSET (0 .. n)
      BY <1>1
    <3> QED BY <3>1, <3>2
  <2>2. Max(s) \in s /\ \A y \in s : y <= Max(s)
    BY <1>1, <2>1, MaxOfBounded
  <2>3. Max(s) = i
    BY <1>1, <2>2
  <2>4. s \ {i} = 1 .. i - 1
    BY <1>1
  <2>5. Body(iter, s) = RelaxFrom(iter[1 .. i - 1], edges[i], node)
    BY <2>1, <2>3, <2>4 DEF Body
  <2>6. run[i] = iter[s] /\ run[i - 1] = iter[1 .. i - 1] /\ s \in U
    BY <1>13, <2>1
  <2> HIDE DEF run, s
  <2> QED BY <1>12, <2>5, <2>6
<1>16. run \in [0 .. n -> V]
  <2> DEFINE T == {i \in 0 .. n : run[i] \in V}
  <2>0. run = [i \in 0 .. n |-> run[i]]
    OBVIOUS
  <2> HIDE DEF run
  <2>1. 0 \in T
    BY <1>1, <1>3, <1>14
  <2>2. ASSUME NEW i \in 1 .. n, i - 1 \in T PROVE i \in T
    BY <1>4, <1>15, <2>2
  <2> HIDE DEF T
  <2>3. \A i \in 0 .. n : i \in T
    BY <1>1, <2>1, <2>2, RoundInduction
  <2>4. \A i \in 0 .. n : run[i] \in V
    BY <2>3 DEF T
  <2> QED BY <2>0, <2>4
<1>17. RelaxAll(s0, edges, node) = run[n]
  <2>1. n \in 0 .. n
    BY <1>1
  <2> QED BY <1>2, <1>13, <2>1
<1> HIDE DEF run
<1> QED BY <1>14, <1>15, <1>16, <1>17 DEF n, V

(* All the edges of a node that was just ordered.                          *)
LEMMA RelaxAllKeeps ==
  ASSUME NEW total \in Nat, NEW D, NEW edges \in Seq(EdgeBelow(total, D)),
         NEW s, NEW node, NEW R,
         R = {k \in DOMAIN edges : edges[k].from \in ToSet(s.order) \ {node}},
         DagState(edges, total, s, R), node \in ToSet(s.order)
  PROVE  /\ DagState(edges, total, RelaxAll(s, edges, node),
                     {k \in DOMAIN edges : edges[k].from \in ToSet(s.order)})
         /\ RelaxAll(s, edges, node).order = s.order
<1> DEFINE n == Len(edges)
           done(i) == R \cup {k \in 1 .. i : edges[k].from = node}
<1>0. ASSUME NEW u, NEW Q, NEW k \in DOMAIN edges,
             DagState(edges, total, u, Q), k \notin Q,
             edges[k].from \in ToSet(u.order)
      PROVE  /\ DagState(edges, total, Relax(u, edges[k].to), Q \cup {k})
             /\ Relax(u, edges[k].to).order = u.order
  <2>1. DagState(edges, total, Relax(u, edges[k].to), Q \cup {k})
    BY <1>0, RelaxKeeps
  <2>2. Relax(u, edges[k].to).order = u.order
    BY DEF Relax
  <2> QED BY <2>1, <2>2
<1>1. n \in Nat /\ DOMAIN edges = 1 .. n
  BY LenProperties
<1>2. s \in DagStates(total)
  BY DEF DagState
<1>3. PICK run \in [0 .. n -> DagStates(total)] :
         /\ run[0] = s
         /\ \A i \in 1 .. n : run[i] = RelaxFrom(run[i - 1], edges[i], node)
         /\ RelaxAll(s, edges, node) = run[n]
  BY <1>2, RelaxRounds
<1> HIDE DEF n
<1> DEFINE T == {i \in 0 .. n : /\ DagState(edges, total, run[i], done(i))
                                /\ run[i].order = s.order}
<1>4. 0 \in T
  <2>1. done(0) = R
    <3>1. \A k \in 1 .. 0 : FALSE
      OBVIOUS
    <3> QED BY <3>1
  <2>2. 0 \in 0 .. n
    BY <1>1
  <2> HIDE DEF done
  <2> QED BY <1>3, <2>1, <2>2
<1>5. ASSUME NEW i \in 1 .. n, i - 1 \in T PROVE i \in T
  <2>1. /\ DagState(edges, total, run[i - 1], done(i - 1))
        /\ run[i - 1].order = s.order
        /\ run[i] = RelaxFrom(run[i - 1], edges[i], node)
        /\ i \in 0 .. n
    BY <1>1, <1>3, <1>5
  <2>2. CASE edges[i].from = node
    <3>1. i \notin done(i - 1)
      <4>1. i \notin R
        BY <2>2
      <4>2. i \notin 1 .. i - 1
        BY <1>1
      <4> QED BY <4>1, <4>2
    <3>2. done(i) = done(i - 1) \cup {i}
      <4>1. \A k : k \in 1 .. i <=> k \in 1 .. i - 1 \/ k = i
        BY <1>1
      <4> QED BY <2>2, <4>1
    <3> HIDE DEF done
    <3>3. run[i] = Relax(run[i - 1], edges[i].to)
      BY <2>1, <2>2 DEF RelaxFrom
    <3>4. i \in DOMAIN edges /\ edges[i].from \in ToSet(run[i - 1].order)
      BY <1>1, <2>1, <2>2
    <3>5. /\ DagState(edges, total, run[i], done(i - 1) \cup {i})
          /\ run[i].order = run[i - 1].order
      <4> DEFINE u == run[i - 1]
                 Q == done(i - 1)
      <4>1. /\ DagState(edges, total, u, Q) /\ i \notin Q
            /\ i \in DOMAIN edges /\ edges[i].from \in ToSet(u.order)
        BY <2>1, <3>1, <3>4
      <4> HIDE DEF u, Q
      <4>2. /\ DagState(edges, total, Relax(u, edges[i].to), Q \cup {i})
            /\ Relax(u, edges[i].to).order = u.order
        BY <1>0, <4>1
      <4> QED BY <3>3, <4>2 DEF u, Q
    <3> QED BY <2>1, <3>2, <3>5
  <2>3. CASE edges[i].from # node
    <3>1. done(i) = done(i - 1)
      <4>1. \A k : k \in 1 .. i <=> k \in 1 .. i - 1 \/ k = i
        BY <1>1
      <4> QED BY <2>3, <4>1
    <3> HIDE DEF done
    <3>2. run[i] = run[i - 1]
      BY <2>1, <2>3 DEF RelaxFrom
    <3> QED BY <2>1, <3>1, <3>2
  <2> QED BY <2>2, <2>3
<1>6. n \in T
  <2> HIDE DEF T
  <2>1. \A i \in 0 .. n : i \in T
    BY <1>1, <1>4, <1>5, RoundInduction
  <2> QED BY <1>1, <2>1
<1>7. done(n) = {k \in DOMAIN edges : edges[k].from \in ToSet(s.order)}
  BY <1>1
<1> HIDE DEF done
<1> QED BY <1>3, <1>6, <1>7

(* After every round just the edges of the ordered nodes are relaxed.      *)
DagRounds(edges, total) ==
    {s \in DagStates(total) :
        DagState(edges, total, s,
                 {k \in DOMAIN edges : edges[k].from \in ToSet(s.order)})}

DagRound(edges, s) == RelaxAll(TakeOff(s), edges, Last(s.queue))

(* A round takes one node off the queue, orders it and relaxes its edges.  *)
LEMMA DagRoundKeeps ==
  ASSUME NEW total \in Nat, NEW D, NEW edges \in Seq(EdgeBelow(total, D)),
         NEW s \in DagRounds(edges, total), s.queue # <<>>
  PROVE  /\ DagRound(edges, s) \in DagRounds(edges, total)
         /\ Len(DagRound(edges, s).order) = Len(s.order) + 1
<1> DEFINE R == {k \in DOMAIN edges : edges[k].from \in ToSet(s.order)}
           n == Last(s.queue)
           t == TakeOff(s)
           r == DagRound(edges, s)
<1>1. DagState(edges, total, s, R)
  BY DEF DagRounds
<1>2. /\ DagState(edges, total, t, R)
      /\ n \notin ToSet(s.order)
      /\ ToSet(t.order) = ToSet(s.order) \cup {n}
      /\ Len(t.order) = Len(s.order) + 1
  <2> HIDE DEF R
  <2> QED BY <1>1, TakeOffKeeps
<1>3. R = {k \in DOMAIN edges : edges[k].from \in ToSet(t.order) \ {n}}
  <2> HIDE DEF t, n
  <2> QED BY <1>2
<1>4. r = RelaxAll(t, edges, n) /\ n \in ToSet(t.order)
  BY <1>2 DEF DagRound
<1> HIDE DEF R, n, t, r
<1>5. /\ DagState(edges, total, r,
                  {k \in DOMAIN edges : edges[k].from \in ToSet(t.order)})
      /\ r.order = t.order
  BY <1>2, <1>3, <1>4, RelaxAllKeeps
<1>6. r \in DagRounds(edges, total)
  <2>1. ToSet(r.order) = ToSet(t.order)
    BY <1>5
  <2>2. DagState(edges, total, r,
                 {k \in DOMAIN edges : edges[k].from \in ToSet(r.order)})
    BY <1>5, <2>1, Zenon
  <2>3. r \in DagStates(total)
    BY <1>5 DEF DagState
  <2> QED BY <2>2, <2>3 DEF DagRounds
<1> QED BY <1>2, <1>5, <1>6 DEF r

(* What DagKahn starts from.                                               *)
DagStart(edges, total) ==
    LET degree == [h \in 0 .. total - 1 |-> EdgeDegree(edges, h)]
        handles == [i \in 1 .. total |-> i - 1]
    IN  [queue |-> NodesWith(handles, degree, 0), order |-> <<>>,
         degree |-> degree]

(* The loop starts from the nodes no edge leads to.                        *)
LEMMA DagStarts ==
  ASSUME NEW total \in Nat, NEW D, NEW edges \in Seq(EdgeBelow(total, D))
  PROVE  /\ DagStart(edges, total) \in DagRounds(edges, total)
         /\ DagStart(edges, total).order = <<>>
<1> DEFINE H == 0 .. total - 1
           degree == [h \in H |-> EdgeDegree(edges, h)]
           handles == [i \in 1 .. total |-> i - 1]
           queue == NodesWith(handles, degree, 0)
           s == DagStart(edges, total)
<1>1. \A h \in H : /\ degree[h] = Cardinality(Left(edges, {}, h))
                   /\ degree[h] \in Nat
                   /\ degree[h] = 0 <=> Left(edges, {}, h) = {}
  <2> SUFFICES ASSUME NEW h \in H
               PROVE  /\ EdgeDegree(edges, h) = Cardinality(Left(edges, {}, h))
                      /\ EdgeDegree(edges, h) \in Nat
                      /\ EdgeDegree(edges, h) = 0 <=> Left(edges, {}, h) = {}
    OBVIOUS
  <2>1. {k \in DOMAIN edges : edges[k].to = h} = Left(edges, {}, h)
    BY DEF Left
  <2> QED BY <2>1, LeftIsFinite DEF EdgeDegree
<1>2. degree \in [H -> Int]
  <2>1. degree = [h \in H |-> degree[h]]
    OBVIOUS
  <2> HIDE DEF degree
  <2> QED BY <1>1, <2>1
<1>3. handles \in Seq(H) /\ IsInjective(handles) /\ ToSet(handles) = H
  <2>1. handles \in [1 .. total -> H] /\ DOMAIN handles = 1 .. total
    OBVIOUS
  <2>2. handles \in Seq(H)
    BY <2>1
  <2>3. IsInjective(handles)
    BY <2>1 DEF IsInjective
  <2>4. ASSUME NEW h \in H PROVE h \in ToSet(handles)
    <3>1. h + 1 \in 1 .. total /\ handles[h + 1] = h
      OBVIOUS
    <3> QED BY <2>1, <3>1 DEF ToSet
  <2>5. ToSet(handles) \subseteq H
    BY <2>1 DEF ToSet
  <2> QED BY <2>2, <2>3, <2>4, <2>5
<1>4. s = [queue |-> queue, order |-> <<>>, degree |-> degree]
  BY DEF DagStart
<1> HIDE DEF degree, handles
<1>5. /\ queue \in Seq(H)
      /\ ToSet(queue) = {h \in H : degree[h] = 0}
      /\ IsInjective(queue)
  <2>1. /\ queue \in Seq(H)
        /\ ToSet(queue) = {h \in ToSet(handles) : degree[h] = 0}
        /\ IsInjective(handles) => IsInjective(queue)
    BY <1>3, NodesWithMembers
  <2> QED BY <1>3, <2>1
<1> HIDE DEF queue, s
<1>6. /\ ToSet(<<>>) = {} /\ IsInjective(<<>>) /\ <<>> \in Seq(H)
      /\ ParentsAhead(edges, <<>>)
  BY DEF ToSet, IsInjective, ParentsAhead
<1>7. s.queue = queue /\ s.order = <<>> /\ s.degree = degree
  BY <1>4
<1>8. s \in DagStates(total)
  BY <1>2, <1>4, <1>5, <1>6 DEF DagStates
<1>9. \A h \in H : h \in ToSet(queue) <=> Left(edges, {}, h) = {}
  BY <1>1, <1>5
<1>10. DagState(edges, total, s, {})
  <2>1. ToSet(s.queue) = ToSet(queue) /\ ToSet(s.order) = {}
    BY <1>6, <1>7, Zenon
  <2>2. ToSet(s.queue) \cap ToSet(s.order) = {}
    BY <2>1
  <2>3. \A h \in 0 .. total - 1 :
          /\ s.degree[h] = Cardinality(Left(edges, {}, h))
          /\ h \in ToSet(s.queue) \cup ToSet(s.order) <=> Left(edges, {}, h) = {}
    BY <1>1, <1>7, <1>9, <2>1
  <2>4. IsInjective(s.queue) /\ IsInjective(s.order) /\ ParentsAhead(edges, s.order)
    BY <1>5, <1>6, <1>7, Zenon
  <2> QED BY <1>8, <2>2, <2>3, <2>4 DEF DagState
<1>11. {k \in DOMAIN edges : edges[k].from \in ToSet(s.order)} = {}
  <2>1. ToSet(s.order) = {}
    BY <1>6, <1>7, Zenon
  <2> QED BY <2>1
<1> QED BY <1>7, <1>8, <1>10, <1>11 DEF DagRounds, s

(* Within as many rounds as there are nodes the queue is empty.            *)
LEMMA DagRuns ==
  ASSUME NEW total \in Nat, NEW D, NEW edges \in Seq(EdgeBelow(total, D))
  PROVE  \E s \in DagRounds(edges, total) :
            /\ DagKahn(edges, total)
                  = IF Len(s.order) = total THEN s.order ELSE <<>>
            /\ Len(s.order) = total \/ s.queue = <<>>
<1> DEFINE V == DagRounds(edges, total)
           Body(w, i) ==
               IF i = 0
               THEN DagStart(edges, total)
               ELSE IF w[i - 1].queue = <<>> THEN w[i - 1]
               ELSE DagRound(edges, w[i - 1])
           run == CHOOSE w : w = [i \in 0 .. total |-> Body(w, i)]
           step == [x \in (1 .. total) \X V |->
                       IF x[2].queue = <<>> THEN x[2]
                       ELSE DagRound(edges, x[2])]
<1>1. DagKahn(edges, total) = IF Len(run[total].order) = total
                              THEN run[total].order ELSE <<>>
  BY DEF DagKahn, DagStart, DagRound
<1>2. DagStart(edges, total) \in V
  BY DagStarts
<1>3. \A v \in V : v.queue # <<>> =>
         /\ DagRound(edges, v) \in V
         /\ Len(DagRound(edges, v).order) = Len(v.order) + 1
  BY DagRoundKeeps
<1> HIDE DEF V
<1>4. \E w : w = [i \in 0 .. total |-> Body(w, i)]
  <2>1. step \in [(1 .. total) \X V -> V]
    BY <1>3
  <2>2. \A i \in 1 .. total, v \in V : step[<<i, v>>] =
           IF v.queue = <<>> THEN v ELSE DagRound(edges, v)
    OBVIOUS
  <2> HIDE DEF step
  <2>3. PICK f \in [0 .. total -> V] :
           Iterates(total, DagStart(edges, total), step, f)
    BY <1>2, <2>1, IterationExists
  <2>4. ASSUME NEW i \in 0 .. total PROVE f[i] = Body(f, i)
    <3>1. CASE i = 0
      BY <2>3, <3>1 DEF Iterates
    <3>2. CASE i # 0
      <4>1. i \in 1 .. total /\ f[i - 1] \in V
        BY <3>2
      <4>2. f[i] = step[<<i, f[i - 1]>>]
        BY <2>3, <4>1 DEF Iterates
      <4> QED BY <2>2, <3>2, <4>1, <4>2
    <3> QED BY <3>1, <3>2
  <2>5. f = [i \in 0 .. total |-> Body(f, i)]
    <3> HIDE DEF Body
    <3> QED BY <2>3, <2>4
  <2> QED BY <2>5
<1>5. run = [i \in 0 .. total |-> Body(run, i)]
  BY <1>4
<1> HIDE DEF run
<1>6. \A i \in 0 .. total : run[i] = Body(run, i)
  <2> HIDE DEF Body
  <2> QED BY <1>5, Zenon
<1> DEFINE T == {i \in 0 .. total :
                    run[i] \in V /\ (Len(run[i].order) = i \/ run[i].queue = <<>>)}
<1>7. 0 \in T
  <2>1. run[0] = DagStart(edges, total)
    BY <1>6
  <2>2. DagStart(edges, total).order = <<>>
    BY DagStarts
  <2> QED BY <1>2, <2>1, <2>2
<1>8. ASSUME NEW i \in 1 .. total, i - 1 \in T PROVE i \in T
  <2>1. /\ run[i] = IF run[i - 1].queue = <<>> THEN run[i - 1]
                    ELSE DagRound(edges, run[i - 1])
        /\ i \in 0 .. total
    BY <1>6
  <2>2. /\ run[i - 1] \in V
        /\ Len(run[i - 1].order) = i - 1 \/ run[i - 1].queue = <<>>
    BY <1>8
  <2>3. CASE run[i - 1].queue = <<>>
    BY <2>1, <2>2, <2>3
  <2>4. CASE run[i - 1].queue # <<>>
    <3>1. run[i] \in V /\ Len(run[i].order) = (i - 1) + 1
      BY <1>3, <2>1, <2>2, <2>4
    <3> QED BY <2>1, <3>1
  <2> QED BY <2>3, <2>4
<1>9. total \in T
  <2> HIDE DEF T, step, Body
  <2>1. \A i \in 1 .. total : i - 1 \in T => i \in T
    BY <1>8
  <2>2. \A i \in 0 .. total : i \in T
    BY <1>7, <2>1, RoundInduction
  <2> QED BY <2>2
<1>10. /\ run[total] \in DagRounds(edges, total)
       /\ Len(run[total].order) = total \/ run[total].queue = <<>>
  BY <1>9 DEF V
<1> QED BY <1>1, <1>10

(* What kahn_topo returns, parallel edges or not: every node once and      *)
(* after all its parents, or nothing, and then there is a cycle.           *)
THEOREM DagKahnSorts ==
  ASSUME NEW total \in Nat, NEW D, NEW edges \in Seq(EdgeBelow(total, D))
  PROVE  LET order == DagKahn(edges, total)
         IN  /\ order \in Seq(0 .. total - 1)
             /\ IsInjective(order)
             /\ ParentsAhead(edges, order)
             /\ order # <<>> =>
                   Len(order) = total /\ ToSet(order) = 0 .. total - 1
             /\ order = <<>> /\ total > 0 =>
                   \E S \in SUBSET (0 .. total - 1) :
                       S # {} /\ ClosedUnderEdges(edges, S)
<1> DEFINE H == 0 .. total - 1
           order == DagKahn(edges, total)
<1>1. PICK s \in DagRounds(edges, total) :
         /\ order = IF Len(s.order) = total THEN s.order ELSE <<>>
         /\ Len(s.order) = total \/ s.queue = <<>>
  BY DagRuns
<1> HIDE DEF order
<1> DEFINE R == {k \in DOMAIN edges : edges[k].from \in ToSet(s.order)}
<1>2. /\ s.order \in Seq(H) /\ IsInjective(s.order)
      /\ ParentsAhead(edges, s.order)
      /\ \A h \in H : h \in ToSet(s.queue) \cup ToSet(s.order)
                         <=> Left(edges, R, h) = {}
  <2>1. DagState(edges, total, s, R)
    BY DEF DagRounds
  <2> HIDE DEF R
  <2> QED BY <2>1, DagStateParts DEF DagState
<1>3. IsFiniteSet(H) /\ Cardinality(H) = total
  <2>1. /\ IsFiniteSet(H)
        /\ Cardinality(H) = IF 0 > total - 1 THEN 0 ELSE (total - 1) - 0 + 1
    BY FS_Interval
  <2> HIDE DEF H
  <2> QED BY <2>1
<1>4. /\ Len(s.order) <= total
      /\ Len(s.order) = total <=> ToSet(s.order) = H
  BY <1>2, <1>3, InjectiveLength
<1>5. CASE Len(s.order) = total
  <2>1. order = s.order
    BY <1>1, <1>5
  <2>2. order = <<>> => ~ (total > 0)
    BY <1>5, <2>1
  <2> QED BY <1>2, <1>4, <1>5, <2>1, <2>2 DEF order
<1>6. CASE Len(s.order) # total
  <2>1. order = <<>> /\ s.queue = <<>>
    BY <1>1, <1>6
  <2>2. /\ <<>> \in Seq(H) /\ IsInjective(<<>>) /\ ToSet(<<>>) = {}
        /\ ParentsAhead(edges, <<>>)
    BY DEF IsInjective, ToSet, ParentsAhead
  <2> DEFINE S == H \ ToSet(s.order)
  <2>3. S # {}
    <3>1. ToSet(s.order) \subseteq H
      BY <1>2, MembersOfSeq
    <3> QED BY <1>4, <1>6, <3>1
  <2>4. ASSUME NEW h \in S
        PROVE  \E k \in DOMAIN edges : edges[k].to = h /\ edges[k].from \in S
    <3>1. h \notin ToSet(s.queue) \cup ToSet(s.order)
      BY <2>1, <2>2
    <3>2. Left(edges, R, h) # {}
      BY <1>2, <3>1
    <3>3. PICK k \in DOMAIN edges :
             edges[k].to = h /\ edges[k].from \notin ToSet(s.order)
      BY <3>2 DEF Left
    <3>4. edges[k].from \in H
      BY FromsAreKeys
    <3> QED BY <3>3, <3>4
  <2>5. S \in SUBSET H /\ ClosedUnderEdges(edges, S)
    BY <2>4 DEF ClosedUnderEdges
  <2> HIDE DEF S
  <2> QED BY <2>1, <2>2, <2>3, <2>5 DEF order
<1> QED BY <1>5, <1>6

(* No set of nodes of an order holds a cycle: its first node has a parent. *)
LEMMA OrderHasNoCycle ==
  ASSUME NEW total \in Nat, NEW D, NEW edges \in Seq(EdgeBelow(total, D)),
         NEW order \in Seq(0 .. total - 1), ToSet(order) = 0 .. total - 1,
         ParentsAhead(edges, order),
         NEW S \in SUBSET (0 .. total - 1), ClosedUnderEdges(edges, S)
  PROVE  S = {}
<1>1. SUFFICES ASSUME S # {} PROVE FALSE
  OBVIOUS
<1>2. DOMAIN order = 1 .. Len(order) /\ Len(order) \in Nat
  BY LenProperties
<1> DEFINE I == {i \in 1 .. Len(order) : order[i] \in S}
<1>3. I \in SUBSET Nat /\ I # {}
  <2>1. PICK h \in S : h \in ToSet(order)
    BY <1>1
  <2> QED BY <1>2, <2>1 DEF ToSet
<1>4. Min(I) \in I /\ \A i \in I : Min(I) <= i
  BY <1>3, MinOfNaturals
<1> DEFINE j == Min(I)
<1> HIDE DEF j
<1>5. j \in I /\ \A i \in I : j <= i
  BY <1>4 DEF j
<1>6. PICK k \in DOMAIN edges :
         edges[k].to = order[j] /\ edges[k].from \in S
  BY <1>5 DEF ClosedUnderEdges
<1>7. PICK i \in DOMAIN order : i < j /\ order[i] = edges[k].from
  BY <1>2, <1>5, <1>6 DEF ParentsAhead
<1>8. i \in I
  BY <1>2, <1>6, <1>7
<1> QED BY <1>2, <1>5, <1>7, <1>8

-----------------------------------------------------------------------------
(* fill_csr: sorted edges, whatever the sort left among equal keys         *)

Under(n, key, p) == {s \in 1 .. n : key[s] < p}

KeysAscend(n, key) == \A i, j \in 1 .. n : i < j => key[i] <= key[j]

(* The positions of the keys below p are the first ones.                   *)
LEMMA SortedPrefix ==
  ASSUME NEW n \in Nat, NEW key \in [1 .. n -> Int], KeysAscend(n, key),
         NEW p \in Int
  PROVE  /\ Cardinality(Under(n, key, p)) \in 0 .. n
         /\ Under(n, key, p) = 1 .. Cardinality(Under(n, key, p))
<1> DEFINE low == Under(n, key, p)
<1>1. low \in SUBSET (1 .. n) /\ \A s \in 1 .. n : s \in low <=> key[s] < p
  BY DEF Under
<1>2. \A i, j \in 1 .. n : i < j => key[i] <= key[j]
  BY DEF KeysAscend
<1> HIDE DEF low
<1>3. CASE low = {}
  <2>1. Cardinality(low) = 0
    BY <1>3, FS_EmptySet
  <2>2. \A s \in 1 .. 0 : FALSE
    OBVIOUS
  <2>3. 0 \in 0 .. n /\ 1 .. 0 = {}
    BY <2>2
  <2> QED BY <1>3, <2>1, <2>3 DEF low
<1>4. CASE low # {}
  <2> DEFINE m == Max(low)
  <2>1. low \in SUBSET (0 .. n)
    BY <1>1
  <2>2. m \in low /\ \A y \in low : y <= m
    BY <1>4, <2>1, MaxOfBounded
  <2> HIDE DEF m
  <2>3. m \in 1 .. n
    BY <1>1, <2>2
  <2>4. ASSUME NEW s \in 1 .. m PROVE s \in low
    <3>1. s \in 1 .. n /\ key[s] \in Int /\ key[m] \in Int /\ key[m] < p
      BY <1>1, <2>2, <2>3
    <3>2. s = m \/ key[s] <= key[m]
      BY <1>2, <2>3, <3>1
    <3> QED BY <1>1, <2>2, <3>1, <3>2
  <2>5. \A s \in low : s \in 1 .. m
    BY <1>1, <2>2, <2>3
  <2>6. low = 1 .. m
    BY <2>4, <2>5
  <2>7. Cardinality(1 .. m) = m
    BY <2>3, PositionsCounted
  <2> QED BY <2>3, <2>6, <2>7 DEF low
<1> QED BY <1>3, <1>4

(* The positions of one key follow those of the smaller ones.              *)
LEMMA SortedRow ==
  ASSUME NEW n \in Nat, NEW key \in [1 .. n -> Int], KeysAscend(n, key),
         NEW p \in Int
  PROVE  LET first == Cardinality(Under(n, key, p))
             next == Cardinality(Under(n, key, p + 1))
         IN  /\ first \in 0 .. n /\ next \in first .. n
             /\ \A s \in 1 .. n : key[s] = p <=> s \in first + 1 .. next
<1> DEFINE first == Cardinality(Under(n, key, p))
           next == Cardinality(Under(n, key, p + 1))
<1>1. /\ first \in 0 .. n /\ next \in 0 .. n
      /\ Under(n, key, p) = 1 .. first /\ Under(n, key, p + 1) = 1 .. next
  BY SortedPrefix
<1> HIDE DEF first, next
<1>2. \A s \in 1 .. n : /\ key[s] \in Int
                        /\ s \in 1 .. first <=> key[s] < p
                        /\ s \in 1 .. next <=> key[s] < p + 1
  BY <1>1 DEF Under
<1>3. first <= next
  <2>1. SUFFICES ASSUME first # 0 PROVE first \in 1 .. next
    BY <1>1
  <2>2. first \in 1 .. n /\ first \in 1 .. first
    BY <1>1, <2>1
  <2>3. key[first] < p /\ key[first] \in Int
    BY <1>2, <2>2
  <2> QED BY <1>2, <2>2, <2>3
<1>4. ASSUME NEW s \in 1 .. n PROVE key[s] = p <=> s \in first + 1 .. next
  <2>1. key[s] = p <=> s \in 1 .. next /\ ~ s \in 1 .. first
    BY <1>2
  <2> QED BY <1>1, <2>1
<1> QED BY <1>1, <1>3, <1>4 DEF first, next

(* The cursor of its key gives a sorted edge the position it has.          *)
LEMMA SortedCursor ==
  ASSUME NEW n \in Nat, NEW key \in [1 .. n -> Int], KeysAscend(n, key),
         NEW k \in 1 .. n
  PROVE  Cardinality(Under(n, key, key[k]))
            + Cardinality({j \in 1 .. k : key[j] = key[k]}) = k
<1> DEFINE p == key[k]
           first == Cardinality(Under(n, key, p))
           next == Cardinality(Under(n, key, p + 1))
           same == {j \in 1 .. k : key[j] = p}
<1>0. p \in Int
  OBVIOUS
<1>1. /\ first \in 0 .. n /\ next \in first .. n
      /\ \A s \in 1 .. n : key[s] = p <=> s \in first + 1 .. next
  BY <1>0, SortedRow
<1> HIDE DEF first, next
<1>2. k \in first + 1 .. next
  BY <1>1
<1>3. same = first + 1 .. k
  BY <1>1, <1>2
<1>4. Cardinality(first + 1 .. k) = IF first + 1 > k THEN 0 ELSE k - (first + 1) + 1
  BY <1>1, FS_Interval
<1>5. Cardinality(same) = k - first
  <2> HIDE DEF same
  <2>1. first + 1 <= k /\ first \in Nat
    BY <1>1, <1>2
  <2> QED BY <1>3, <1>4, <2>1
<1>6. first + Cardinality(same) = k
  <2> HIDE DEF same
  <2> QED BY <1>1, <1>5
<1> QED BY <1>6 DEF first

(* Sorting moves every edge to a position of its own.                      *)
LEMMA Permuted ==
  ASSUME NEW n \in Nat, NEW order \in [1 .. n -> 1 .. n],
         \A i, j \in 1 .. n : order[i] = order[j] => i = j
  PROVE  \A k \in 1 .. n : \E s \in 1 .. n : order[s] = k
<1>1. order \in Seq(1 .. n) /\ Len(order) = n
  OBVIOUS
<1>2. IsInjective(order)
  BY DEF IsInjective
<1>3. IsFiniteSet(1 .. n) /\ Cardinality(1 .. n) = n
  BY PositionsCounted
<1>4. ToSet(order) = 1 .. n
  BY <1>1, <1>2, <1>3, InjectiveLength
<1> QED BY <1>4 DEF ToSet

(* B holds the positions that order fills from A.                          *)
Marks(n, order, A, B) == \A s \in 1 .. n : s \in B <=> order[s] \in A

(* A permutation counts as many positions as what they are marked for.     *)
LEMMA PermutedCount ==
  ASSUME NEW n \in Nat, NEW order \in [1 .. n -> 1 .. n],
         \A i, j \in 1 .. n : order[i] = order[j] => i = j,
         NEW A \in SUBSET (1 .. n), NEW B \in SUBSET (1 .. n),
         Marks(n, order, A, B)
  PROVE  Cardinality(B) = Cardinality(A)
<1> DEFINE f == [s \in B |-> order[s]]
<1>1. IsFiniteSet(B)
  BY PositionsFinite
<1>2. f \in [B -> A]
  BY DEF Marks
<1>3. \A i, j \in B : f[i] = f[j] => i = j
  OBVIOUS
<1>4. ASSUME NEW y \in A PROVE \E s \in B : f[s] = y
  <2>1. PICK s \in 1 .. n : order[s] = y
    BY Permuted
  <2>2. s \in B
    BY <2>1 DEF Marks
  <2> QED BY <2>1, <2>2
<1>5. f \in Bijection(B, A)
  BY <1>2, <1>3, <1>4 DEF Bijection, Injection, Surjection, IsInjective
<1>6. ExistsBijection(B, A)
  BY <1>5 DEF ExistsBijection
<1> QED BY <1>1, <1>6, FS_Bijection

(* The ends of an edge; the keys of the edges once sorted by one end.      *)
IsEnd(end) == end = "from" \/ end = "to"

KeyOf(edges, order, end) == [s \in DOMAIN edges |-> edges[order[s]][end]]

(* What the sort is called on, and what it leaves.                         *)
LEMMA SortLeaves ==
  ASSUME NEW total \in Nat, NEW D, NEW edges \in Seq(EdgeBelow(total, D)),
         NEW end, IsEnd(end), NEW order \in SortedIndices(edges, end)
  PROVE  LET n == Len(edges)
             key == KeyOf(edges, order, end)
         IN  /\ n \in Nat /\ DOMAIN edges = 1 .. n
             /\ order \in [1 .. n -> 1 .. n]
             /\ \A i, j \in 1 .. n : order[i] = order[j] => i = j
             /\ key \in [1 .. n -> Int]
             /\ \A s \in 1 .. n : key[s] = edges[order[s]][end]
             /\ KeysAscend(n, key)
             /\ \A k \in 1 .. n : edges[k][end] \in 0 .. total - 1
<1> DEFINE n == Len(edges)
           key == KeyOf(edges, order, end)
<1>1. /\ n \in Nat /\ DOMAIN edges = 1 .. n
      /\ \A k \in 1 .. n : edges[k] \in EdgeBelow(total, D)
  BY LenProperties, ElementOfSeq
<1> HIDE DEF n
<1>2. Cardinality(DOMAIN edges) = n
  BY <1>1, PositionsCounted
<1>3. /\ order \in [1 .. n -> 1 .. n]
      /\ \A i, j \in 1 .. n : i # j => order[i] # order[j]
      /\ \A i, j \in 1 .. n : i < j => edges[order[i]][end] <= edges[order[j]][end]
  BY <1>1, <1>2 DEF SortedIndices, SetToSeqs
<1>4. ASSUME NEW k \in 1 .. n PROVE edges[k][end] \in 0 .. total - 1
  <2>1. CASE end = "from"
    BY <1>1, <2>1 DEF EdgeBelow
  <2>2. CASE end = "to"
    BY <1>1, <2>2 DEF EdgeBelow
  <2> QED BY <2>1, <2>2 DEF IsEnd
<1>5. \A s \in 1 .. n : key[s] = edges[order[s]][end] /\ key[s] \in Int
  BY <1>1, <1>3, <1>4 DEF KeyOf
<1>6. key = [s \in 1 .. n |-> key[s]]
  BY <1>1 DEF KeyOf
<1> HIDE DEF key
<1>7. key \in [1 .. n -> Int]
  BY <1>5, <1>6
<1>8. KeysAscend(n, key)
  BY <1>3, <1>5 DEF KeysAscend
<1> QED BY <1>1, <1>3, <1>4, <1>5, <1>7, <1>8 DEF n, key

(* A table in place: offsets count smaller keys, entries are the sorted    *)
(* edges.                                                                  *)
InPlace(t, edges, total, order, end, other) ==
    /\ \A p \in 0 .. total :
          t.offsets[p] = Cardinality(Under(Len(edges), KeyOf(edges, order, end), p))
    /\ t.neighbors = [s \in 1 .. Len(edges) |-> edges[order[s]][other]]
    /\ t.data = [s \in 1 .. Len(edges) |-> edges[order[s]].data]

(* fill_csr, whatever order the sort chose, leaves the sorted edges in     *)
(* place.                                                                  *)
LEMMA FilledTable ==
  ASSUME NEW total \in Nat, NEW D, NEW edges \in Seq(EdgeBelow(total, D)),
         NEW end, IsEnd(end), NEW other,
         NEW order \in SortedIndices(edges, end)
  PROVE  InPlace(FillCsr(edges, total, order, end, other),
                 edges, total, order, end, other)
<1> DEFINE n == Len(edges)
           t == FillCsr(edges, total, order, end, other)
           key == KeyOf(edges, order, end)
           offsets == [p \in 0 .. total |->
                          Cardinality({k \in DOMAIN edges : edges[k][end] < p})]
           cursor(k) == offsets[edges[order[k]][end]]
                        + Cardinality({j \in 1 .. k : edges[order[j]][end]
                                                         = edges[order[k]][end]})
           at(s) == CHOOSE k \in DOMAIN order : cursor(k) = s
           placed == [s \in DOMAIN order |-> edges[order[at(s)]]]
<1>1. /\ n \in Nat /\ DOMAIN edges = 1 .. n
      /\ order \in [1 .. n -> 1 .. n]
      /\ \A i, j \in 1 .. n : order[i] = order[j] => i = j
      /\ key \in [1 .. n -> Int]
      /\ \A s \in 1 .. n : key[s] = edges[order[s]][end]
      /\ KeysAscend(n, key)
      /\ \A k \in 1 .. n : edges[k][end] \in 0 .. total - 1
  BY SortLeaves
<1>2. /\ t.offsets = offsets
      /\ t.neighbors = [s \in DOMAIN placed |-> placed[s][other]]
      /\ t.data = [s \in DOMAIN placed |-> placed[s].data]
  BY DEF FillCsr, DataPlaced
<1> HIDE DEF n, t, key
<1>3. ASSUME NEW p \in 0 .. total
      PROVE  offsets[p] = Cardinality(Under(n, key, p))
  <2> DEFINE A == {k \in DOMAIN edges : edges[k][end] < p}
             B == Under(n, key, p)
  <2>1. A \in SUBSET (1 .. n) /\ B \in SUBSET (1 .. n)
    BY <1>1 DEF Under
  <2>2. Marks(n, order, A, B)
    BY <1>1 DEF Marks, Under
  <2> HIDE DEF A, B
  <2>3. Cardinality(B) = Cardinality(A)
    BY <1>1, <2>1, <2>2, PermutedCount
  <2> QED BY <2>3 DEF A, B
<1>4. ASSUME NEW k \in 1 .. n PROVE cursor(k) = k
  <2>1. /\ edges[order[k]][end] = key[k] /\ key[k] \in 0 .. total
        /\ \A j \in 1 .. k : edges[order[j]][end] = key[j]
    <3>1. \A j \in 1 .. k : j \in 1 .. n
      BY <1>1
    <3>2. order[k] \in 1 .. n /\ key[k] = edges[order[k]][end]
      BY <1>1
    <3>3. key[k] \in 0 .. total - 1
      BY <1>1, <3>2
    <3>4. key[k] \in 0 .. total
      BY ONLY total \in Nat, <3>3
    <3>5. \A s \in 1 .. n : key[s] = edges[order[s]][end]
      BY <1>1
    <3>6. \A j \in 1 .. k : edges[order[j]][end] = key[j]
      BY ONLY <3>1, <3>5
    <3> QED BY <3>2, <3>4, <3>6
  <2>2. {j \in 1 .. k : edges[order[j]][end] = edges[order[k]][end]}
           = {j \in 1 .. k : key[j] = key[k]}
    BY <2>1
  <2>3. offsets[edges[order[k]][end]] = Cardinality(Under(n, key, key[k]))
    BY <1>3, <2>1
  <2>4. Cardinality(Under(n, key, key[k]))
           + Cardinality({j \in 1 .. k : key[j] = key[k]}) = k
    BY <1>1, SortedCursor
  <2> HIDE DEF offsets
  <2> QED BY <2>2, <2>3, <2>4
<1> HIDE DEF cursor
<1>5. \A s \in 1 .. n : at(s) = s
  <2> SUFFICES ASSUME NEW s \in 1 .. n PROVE at(s) = s
    OBVIOUS
  <2>1. s \in DOMAIN order /\ cursor(s) = s
    BY <1>1, <1>4
  <2>2. at(s) \in DOMAIN order /\ cursor(at(s)) = s
    BY <2>1
  <2> HIDE DEF at
  <2> QED BY <1>1, <1>4, <2>2
<1> HIDE DEF at
<1>6. /\ DOMAIN placed = 1 .. n
      /\ \A s \in 1 .. n : placed[s] = edges[order[s]]
  BY <1>1, <1>5
<1> HIDE DEF placed, offsets
<1>7. t.neighbors = [s \in 1 .. n |-> edges[order[s]][other]]
  BY <1>2, <1>6
<1>8. t.data = [s \in 1 .. n |-> edges[order[s]].data]
  BY <1>2, <1>6
<1> QED BY <1>2, <1>3, <1>7, <1>8 DEF InPlace, n, t, key

(* A table has one entry per edge.                                         *)
LEMMA FilledLength ==
  ASSUME NEW total \in Nat, NEW D, NEW edges \in Seq(EdgeBelow(total, D)),
         NEW end, IsEnd(end), NEW other,
         NEW order \in SortedIndices(edges, end)
  PROVE  Len(FillCsr(edges, total, order, end, other).neighbors) = Len(edges)
<1> DEFINE n == Len(edges)
           t == FillCsr(edges, total, order, end, other)
           row == [s \in 1 .. n |-> edges[order[s]][other]]
<1>1. InPlace(t, edges, total, order, end, other)
  BY FilledTable
<1> HIDE DEF t
<1>2. t.neighbors = row
  BY <1>1 DEF InPlace
<1>3. n \in Nat
  BY LenProperties
<1> HIDE DEF n
<1>4. row \in [1 .. n -> {row[s] : s \in 1 .. n}]
  OBVIOUS
<1> HIDE DEF row
<1>5. Len(row) = n
  BY <1>3, <1>4
<1> QED BY <1>2, <1>5 DEF t, n

(* A row lists every edge at its node once, the other ends in one span and *)
(* the payloads at the same places of another.                             *)
RowLists(t, edges, p, end, other, at) ==
    LET row == Span(t.offsets, t.neighbors, p)
        data == Span(t.offsets, t.data, p)
    IN  /\ Len(row) \in Nat /\ DOMAIN row = 1 .. Len(row)
        /\ row = [i \in 1 .. Len(row) |-> row[i]]
        /\ at \in [1 .. Len(row) -> DOMAIN edges]
        /\ \A i, j \in 1 .. Len(row) : at[i] = at[j] => i = j
        /\ \A i \in 1 .. Len(row) :
              /\ edges[at[i]][end] = p
              /\ row[i] = edges[at[i]][other]
              /\ data[i] = edges[at[i]].data
        /\ \A k \in DOMAIN edges :
              edges[k][end] = p => \E i \in 1 .. Len(row) : at[i] = k
        /\ t.offsets[p] = t.offsets[p + 1] <=> Len(row) = 0

(* Every row of a filled table lists the edges of its node.                *)
LEMMA RowOfNode ==
  ASSUME NEW total \in Nat, NEW D, NEW edges \in Seq(EdgeBelow(total, D)),
         NEW end, IsEnd(end), NEW other,
         NEW order \in SortedIndices(edges, end), NEW p \in 0 .. total - 1
  PROVE  \E at : RowLists(FillCsr(edges, total, order, end, other), edges,
                          p, end, other, at)
<1> DEFINE n == Len(edges)
           t == FillCsr(edges, total, order, end, other)
           key == KeyOf(edges, order, end)
           first == t.offsets[p]
           next == t.offsets[p + 1]
           row == Span(t.offsets, t.neighbors, p)
           data == Span(t.offsets, t.data, p)
           at == [i \in 1 .. Len(row) |-> order[first + i]]
<1>1. /\ n \in Nat /\ DOMAIN edges = 1 .. n
      /\ order \in [1 .. n -> 1 .. n]
      /\ \A i, j \in 1 .. n : order[i] = order[j] => i = j
      /\ key \in [1 .. n -> Int]
      /\ \A s \in 1 .. n : key[s] = edges[order[s]][end]
      /\ KeysAscend(n, key)
  BY SortLeaves
<1>2. /\ t.neighbors = [s \in 1 .. n |-> edges[order[s]][other]]
      /\ t.data = [s \in 1 .. n |-> edges[order[s]].data]
      /\ first = Cardinality(Under(n, key, p))
      /\ next = Cardinality(Under(n, key, p + 1))
  BY FilledTable DEF InPlace
<1>3. row = SubSeq(t.neighbors, first + 1, next)
      /\ data = SubSeq(t.data, first + 1, next)
  BY DEF Span
<1> HIDE DEF n, t, key, first, next, row, data
<1>4. /\ first \in 0 .. n /\ next \in first .. n
      /\ \A s \in 1 .. n : key[s] = p <=> s \in first + 1 .. next
  <2>1. p \in Int
    OBVIOUS
  <2> DEFINE low == Cardinality(Under(n, key, p))
             high == Cardinality(Under(n, key, p + 1))
  <2>2. /\ low \in 0 .. n /\ high \in low .. n
        /\ \A s \in 1 .. n : key[s] = p <=> s \in low + 1 .. high
    BY <1>1, <2>1, SortedRow
  <2> HIDE DEF low, high
  <2>3. first = low /\ next = high
    BY <1>2 DEF low, high
  <2> QED BY <2>2, <2>3
<1>5. /\ Len(row) = next - first /\ Len(row) \in Nat
      /\ DOMAIN row = 1 .. Len(row)
      /\ row = [i \in 1 .. Len(row) |-> row[i]]
      /\ \A i \in 1 .. Len(row) :
            /\ row[i] = t.neighbors[first + i] /\ data[i] = t.data[first + i]
  <2> DEFINE V == {t.neighbors[s] : s \in 1 .. n}
             W == {t.data[s] : s \in 1 .. n}
             low == first + 1
  <2>1. low \in Int /\ next \in Int /\ \A i \in low .. next : i \in 1 .. n
    BY <1>1, <1>4
  <2>2. \A i \in low .. next : t.neighbors[i] \in V /\ t.data[i] \in W
    BY <2>1
  <2>3. row = SubSeq(t.neighbors, low, next) /\ data = SubSeq(t.data, low, next)
    BY <1>3
  <2> HIDE DEF V, W, low
  <2>4. /\ row \in Seq(V)
        /\ Len(row) = IF low <= next THEN next - low + 1 ELSE 0
        /\ \A i \in 1 .. next - low + 1 : row[i] = t.neighbors[low + i - 1]
    BY <2>1, <2>2, <2>3, SubSeqProperties
  <2>5. \A i \in 1 .. next - low + 1 : data[i] = t.data[low + i - 1]
    BY <2>1, <2>2, <2>3, SubSeqProperties
  <2>6. Len(row) \in Nat /\ DOMAIN row = 1 .. Len(row)
    BY <2>4, LenProperties
  <2>row. row = [i \in 1 .. Len(row) |-> row[i]]
    BY <2>4
  <2>7. Len(row) = next - first
    BY <1>1, <1>4, <2>4 DEF low
  <2>8. \A i \in 1 .. Len(row) :
           i \in 1 .. next - low + 1 /\ low + i - 1 = first + i
    BY <1>1, <1>4, <2>7 DEF low
  <2> QED BY <2>4, <2>5, <2>6, <2>row, <2>7, <2>8
<1> DEFINE size == Len(row)
<1>6. size = next - first /\ size \in Nat
  BY <1>5
<1> HIDE DEF size
<1>7. \A i \in 1 .. size : first + i \in 1 .. n /\ first + i \in first + 1 .. next
  BY <1>1, <1>4, <1>6
<1>8. at = [i \in 1 .. size |-> order[first + i]]
  BY DEF size
<1> HIDE DEF at
<1>9. at \in [1 .. size -> 1 .. n] /\ \A i \in 1 .. size : at[i] = order[first + i]
  BY <1>1, <1>7, <1>8
<1>10. ASSUME NEW i \in 1 .. size, NEW j \in 1 .. size, at[i] = at[j]
       PROVE  i = j
  <2>1. first + i = first + j
    BY <1>1, <1>7, <1>9, <1>10
  <2> QED BY <1>4, <2>1
<1>11. ASSUME NEW i \in 1 .. size
       PROVE  /\ edges[at[i]][end] = p
              /\ row[i] = edges[at[i]][other]
              /\ data[i] = edges[at[i]].data
  <2>1. first + i \in 1 .. n /\ key[first + i] = p /\ at[i] = order[first + i]
    BY <1>4, <1>7, <1>9
  <2>2. row[i] = t.neighbors[first + i] /\ data[i] = t.data[first + i]
    BY <1>5 DEF size
  <2> DEFINE u == first + i
  <2> HIDE DEF u
  <2>3. /\ u \in 1 .. n /\ key[u] = p /\ at[i] = order[u]
        /\ row[i] = t.neighbors[u] /\ data[i] = t.data[u]
    BY <2>1, <2>2 DEF u
  <2>4. t.neighbors[u] = edges[order[u]][other] /\ t.data[u] = edges[order[u]].data
    BY <1>2, <2>3
  <2>5. key[u] = edges[order[u]][end]
    BY <1>1, <2>3
  <2> QED BY <2>3, <2>4, <2>5
<1>12. ASSUME NEW k \in 1 .. n, edges[k][end] = p
       PROVE  \E i \in 1 .. size : at[i] = k
  <2>1. PICK s \in 1 .. n : order[s] = k
    BY <1>1, Permuted
  <2>2. s \in first + 1 .. next
    BY <1>1, <1>4, <1>12, <2>1
  <2>3. s - first \in 1 .. size /\ first + (s - first) = s
    BY <1>1, <1>4, <1>6, <2>2
  <2>4. at[s - first] = k
    BY <1>9, <2>1, <2>3
  <2> QED BY <2>3, <2>4
<1>13. first = next <=> size = 0
  BY <1>4, <1>6
<1>14. RowLists(t, edges, p, end, other, at)
  <2>1. /\ Len(row) = size /\ DOMAIN row = 1 .. size
        /\ row = [i \in 1 .. size |-> row[i]]
    BY <1>5 DEF size
  <2> QED BY <1>1, <1>6, <1>9, <1>10, <1>11, <1>12, <1>13, <2>1
          DEF RowLists, row, data, first, next
<1> QED BY <1>14 DEF t

-----------------------------------------------------------------------------
(* Traversals *)

PushOne(s, c, order) == IF Contains(order, c) THEN s ELSE Append(s, c)

PushRun(run, S, stack, order, children) ==
    /\ run \in [0 .. Len(children) -> Seq(S)]
    /\ run[0] = stack
    /\ \A i \in 1 .. Len(children) :
          run[i] = PushOne(run[i - 1], children[i], order)
    /\ PushUnvisited(stack, order, children) = run[Len(children)]

(* The children of a node are looked at one after another.                 *)
LEMMA PushRounds ==
  ASSUME NEW S, NEW stack \in Seq(S), NEW order, NEW children \in Seq(S)
  PROVE  \E run : PushRun(run, S, stack, order, children)
<1> DEFINE n == Len(children)
           V == Seq(S)
           U == SUBSET (1 .. n)
           Body(w, s) == IF s = {} THEN stack
                         ELSE PushOne(w[s \ {Max(s)}], children[Max(s)], order)
           iter == CHOOSE w : w = [s \in U |-> Body(w, s)]
           step == [x \in (1 .. n) \X V |-> PushOne(x[2], children[x[1]], order)]
           run == [i \in 0 .. n |-> iter[1 .. i]]
<1>1. n \in Nat /\ DOMAIN children = 1 .. n /\ \A i \in 1 .. n : children[i] \in S
  BY LenProperties, ElementOfSeq
<1>2. PushUnvisited(stack, order, children) = iter[1 .. n]
  BY <1>1 DEF PushUnvisited, PushOne, FoldLeft, MapThenFoldSet
<1>3. stack \in V
  OBVIOUS
<1>4. \A i \in 1 .. n, v \in V : PushOne(v, children[i], order) \in V
  BY <1>1, AppendProperties DEF PushOne
<1> HIDE DEF n, V
<1>5. step \in [(1 .. n) \X V -> V]
  BY <1>4
<1>6. \A i \in 1 .. n, v \in V :
         step[<<i, v>>] = PushOne(v, children[i], order)
  OBVIOUS
<1> HIDE DEF step
<1>7. PICK f \in [U -> V] : FoldsBy(f, n, stack, step)
  BY <1>1, <1>3, <1>5, FoldExists
<1>8. \A s \in U : s # {} => Max(s) \in 1 .. n /\ s \ {Max(s)} \in U
  <2> SUFFICES ASSUME NEW s \in U, s # {} PROVE Max(s) \in 1 .. n
    OBVIOUS
  <2>1. s \in SUBSET (0 .. n)
    OBVIOUS
  <2>2. Max(s) \in s
    BY <1>1, <2>1, MaxOfBounded
  <2> QED BY <2>2
<1>9. ASSUME NEW s \in U PROVE f[s] = Body(f, s)
  <2>1. CASE s = {}
    BY <1>7, <2>1 DEF FoldsBy
  <2>2. CASE s # {}
    <3> DEFINE m == Max(s)
    <3>1. m \in 1 .. n /\ s \ {m} \in U
      BY <1>8, <2>2
    <3>2. f[s] = step[<<m, f[s \ {m}]>>]
      BY <1>7, <2>2 DEF FoldsBy
    <3> HIDE DEF m
    <3>3. f[s \ {m}] \in V
      BY <1>7, <3>1
    <3>4. f[s] = PushOne(f[s \ {m}], children[m], order)
      BY <1>6, <3>1, <3>2, <3>3
    <3> QED BY <2>2, <3>4 DEF m
  <2> QED BY <2>1, <2>2
<1>10. f = [s \in U |-> Body(f, s)]
  <2> HIDE DEF Body, U
  <2> QED BY <1>7, <1>9
<1> HIDE DEF Body, U
<1>11. iter = [s \in U |-> Body(iter, s)]
  BY <1>10
<1> HIDE DEF iter
<1>12. \A s \in U : iter[s] = Body(iter, s)
  BY <1>11, Zenon
<1>13. \A i \in 0 .. n : 1 .. i \in U /\ run[i] = iter[1 .. i]
  BY <1>1 DEF U
<1>14. run[0] = stack
  <2>1. 0 \in 0 .. n /\ 1 .. 0 = {}
    BY <1>1
  <2>2. Body(iter, 1 .. 0) = stack
    BY <2>1 DEF Body
  <2> HIDE DEF run
  <2> QED BY <1>12, <1>13, <2>1, <2>2
<1>15. ASSUME NEW i \in 1 .. n
       PROVE  run[i] = PushOne(run[i - 1], children[i], order)
  <2> DEFINE s == 1 .. i
  <2>1. i \in 0 .. n /\ i - 1 \in 0 .. n /\ s # {} /\ s \in SUBSET (0 .. n)
    <3>1. i \in s
      OBVIOUS
    <3>2. i \in 0 .. n /\ i - 1 \in 0 .. n /\ s \in SUBSET (0 .. n)
      BY <1>1
    <3> QED BY <3>1, <3>2
  <2>2. Max(s) \in s /\ \A y \in s : y <= Max(s)
    BY <1>1, <2>1, MaxOfBounded
  <2>3. Max(s) = i
    BY <1>1, <2>2
  <2>4. s \ {i} = 1 .. i - 1
    BY <1>1
  <2>5. Body(iter, s) = PushOne(iter[1 .. i - 1], children[i], order)
    BY <2>1, <2>3, <2>4 DEF Body
  <2>6. run[i] = iter[s] /\ run[i - 1] = iter[1 .. i - 1] /\ s \in U
    BY <1>13, <2>1
  <2> HIDE DEF run, s
  <2> QED BY <1>12, <2>5, <2>6
<1>16. run \in [0 .. n -> V]
  <2> DEFINE T == {i \in 0 .. n : run[i] \in V}
  <2>0. run = [i \in 0 .. n |-> run[i]]
    OBVIOUS
  <2> HIDE DEF run
  <2>1. 0 \in T
    BY <1>1, <1>3, <1>14
  <2>2. ASSUME NEW i \in 1 .. n, i - 1 \in T PROVE i \in T
    BY <1>4, <1>15, <2>2
  <2> HIDE DEF T
  <2>3. \A i \in 0 .. n : i \in T
    BY <1>1, <2>1, <2>2, RoundInduction
  <2>4. \A i \in 0 .. n : run[i] \in V
    BY <2>3 DEF T
  <2> QED BY <2>0, <2>4
<1>17. PushUnvisited(stack, order, children) = run[n]
  <2>1. n \in 0 .. n
    BY <1>1
  <2> QED BY <1>2, <1>13, <2>1
<1> HIDE DEF run
<1> QED BY <1>14, <1>15, <1>16, <1>17 DEF n, V, PushRun

(* The loop over the children pushes just those not in order yet.          *)
LEMMA PushedMembers ==
  ASSUME NEW S, NEW stack \in Seq(S), NEW order \in Seq(S),
         NEW children \in Seq(S)
  PROVE  LET pushed == PushUnvisited(stack, order, children)
         IN  /\ pushed \in Seq(S)
             /\ ToSet(pushed) = ToSet(stack)
                                   \cup (ToSet(children) \ ToSet(order))
             /\ Len(pushed) <= Len(stack) + Len(children)
<1> DEFINE n == Len(children)
           O == ToSet(order)
<1>1. /\ n \in Nat /\ DOMAIN children = 1 .. n
      /\ \A i \in 1 .. n : children[i] \in S
  BY LenProperties, ElementOfSeq
<1>2. \A c : Contains(order, c) <=> c \in O
  <2>1. DOMAIN order = 1 .. Len(order)
    BY LenProperties
  <2> QED BY <2>1 DEF Contains, ToSet
<1>3. PICK run : PushRun(run, S, stack, order, children)
  BY PushRounds
<1>rounds. /\ run \in [0 .. n -> Seq(S)] /\ run[0] = stack
           /\ \A i \in 1 .. n : run[i] = PushOne(run[i - 1], children[i], order)
           /\ PushUnvisited(stack, order, children) = run[n]
  BY <1>3 DEF PushRun
<1> HIDE DEF n, O
<1> DEFINE T == {i \in 0 .. n :
                   /\ ToSet(run[i]) = ToSet(stack)
                                         \cup ({children[j] : j \in 1 .. i} \ O)
                   /\ Len(run[i]) <= Len(stack) + i}
<1>4. 0 \in T
  <2>1. 0 \in 0 .. n /\ \A j \in 1 .. 0 : FALSE
    BY <1>1
  <2>2. {children[j] : j \in 1 .. 0} = {}
    BY <2>1
  <2>3. Len(stack) <= Len(stack) + 0
    BY LenProperties
  <2> QED BY <1>rounds, <2>1, <2>2, <2>3
<1>5. ASSUME NEW i \in 1 .. n, i - 1 \in T PROVE i \in T
  <2> DEFINE u == run[i - 1]
             c == children[i]
             was == {children[j] : j \in 1 .. i - 1}
             is == {children[j] : j \in 1 .. i}
  <2>1. /\ u \in Seq(S) /\ c \in S /\ i \in 0 .. n
        /\ run[i] = PushOne(u, c, order)
        /\ ToSet(u) = ToSet(stack) \cup (was \ O)
        /\ Len(u) <= Len(stack) + (i - 1)
        /\ Len(u) \in Nat /\ Len(stack) \in Nat
    <3>1. u \in Seq(S) /\ c \in S /\ i \in 0 .. n
      BY <1>1, <1>rounds
    <3>2. Len(u) \in Nat /\ Len(stack) \in Nat
      BY <3>1, LenProperties
    <3> QED BY <1>rounds, <1>5, <3>1, <3>2
  <2>2. is = was \cup {c}
    <3>1. \A j : j \in 1 .. i <=> j \in 1 .. i - 1 \/ j = i
      BY <1>1
    <3> QED BY <3>1
  <2> HIDE DEF u, c, was
  <2>3. CASE c \in O
    <3>1. run[i] = u
      BY <1>2, <2>1, <2>3 DEF PushOne
    <3>2. ToSet(run[i]) = ToSet(stack) \cup (is \ O)
      BY <2>1, <2>2, <2>3, <3>1
    <3>3. Len(run[i]) <= Len(stack) + i
      BY <1>1, <2>1, <3>1
    <3> QED BY <2>1, <3>2, <3>3
  <2>4. CASE c \notin O
    <3>1. run[i] = Append(u, c)
      BY <1>2, <2>1, <2>4 DEF PushOne
    <3>2. /\ ToSet(run[i]) = ToSet(u) \cup {c}
          /\ Len(run[i]) = Len(u) + 1
      BY <2>1, <3>1, AppendMembers, AppendProperties
    <3>3. ToSet(run[i]) = ToSet(stack) \cup (is \ O)
      BY <2>1, <2>2, <2>4, <3>2
    <3>4. Len(run[i]) <= Len(stack) + i
      BY <1>1, <2>1, <3>2
    <3> QED BY <2>1, <3>3, <3>4
  <2> QED BY <2>3, <2>4
<1>6. n \in T
  <2> HIDE DEF T
  <2>1. \A i \in 0 .. n : i \in T
    BY <1>1, <1>4, <1>5, RoundInduction
  <2> QED BY <1>1, <2>1
<1>7. ToSet(children) = {children[j] : j \in 1 .. n}
  BY <1>1 DEF ToSet
<1>8. run[n] \in Seq(S) /\ n \in 0 .. n
  BY <1>1, <1>rounds
<1> QED BY <1>rounds, <1>6, <1>7, <1>8 DEF n, O

QueueRun(run, S, queue, children) ==
    /\ run \in [0 .. Len(children) -> Seq(S)]
    /\ run[0] = queue
    /\ \A i \in 1 .. Len(children) :
          run[i] = Enqueue(run[i - 1], children[i])
    /\ FoldLeft(Enqueue, queue, children) = run[Len(children)]

(* They are queued one after another.                                      *)
LEMMA QueueRounds ==
  ASSUME NEW S, NEW queue \in Seq(S), NEW children \in Seq(S)
  PROVE  \E run : QueueRun(run, S, queue, children)
<1> DEFINE n == Len(children)
           V == Seq(S)
           U == SUBSET (1 .. n)
           Body(w, s) == IF s = {} THEN queue
                         ELSE Enqueue(w[s \ {Max(s)}], children[Max(s)])
           iter == CHOOSE w : w = [s \in U |-> Body(w, s)]
           step == [x \in (1 .. n) \X V |-> Enqueue(x[2], children[x[1]])]
           run == [i \in 0 .. n |-> iter[1 .. i]]
<1>1. n \in Nat /\ DOMAIN children = 1 .. n /\ \A i \in 1 .. n : children[i] \in S
  BY LenProperties, ElementOfSeq
<1>2. FoldLeft(Enqueue, queue, children) = iter[1 .. n]
  BY <1>1 DEF FoldLeft, MapThenFoldSet
<1>3. queue \in V
  OBVIOUS
<1>4. \A i \in 1 .. n, v \in V : Enqueue(v, children[i]) \in V
  BY <1>1, AppendProperties DEF Enqueue
<1> HIDE DEF n, V
<1>5. step \in [(1 .. n) \X V -> V]
  BY <1>4
<1>6. \A i \in 1 .. n, v \in V :
         step[<<i, v>>] = Enqueue(v, children[i])
  OBVIOUS
<1> HIDE DEF step
<1>7. PICK f \in [U -> V] : FoldsBy(f, n, queue, step)
  BY <1>1, <1>3, <1>5, FoldExists
<1>8. \A s \in U : s # {} => Max(s) \in 1 .. n /\ s \ {Max(s)} \in U
  <2> SUFFICES ASSUME NEW s \in U, s # {} PROVE Max(s) \in 1 .. n
    OBVIOUS
  <2>1. s \in SUBSET (0 .. n)
    OBVIOUS
  <2>2. Max(s) \in s
    BY <1>1, <2>1, MaxOfBounded
  <2> QED BY <2>2
<1>9. ASSUME NEW s \in U PROVE f[s] = Body(f, s)
  <2>1. CASE s = {}
    BY <1>7, <2>1 DEF FoldsBy
  <2>2. CASE s # {}
    <3> DEFINE m == Max(s)
    <3>1. m \in 1 .. n /\ s \ {m} \in U
      BY <1>8, <2>2
    <3>2. f[s] = step[<<m, f[s \ {m}]>>]
      BY <1>7, <2>2 DEF FoldsBy
    <3> HIDE DEF m
    <3>3. f[s \ {m}] \in V
      BY <1>7, <3>1
    <3>4. f[s] = Enqueue(f[s \ {m}], children[m])
      BY <1>6, <3>1, <3>2, <3>3
    <3> QED BY <2>2, <3>4 DEF m
  <2> QED BY <2>1, <2>2
<1>10. f = [s \in U |-> Body(f, s)]
  <2> HIDE DEF Body, U
  <2> QED BY <1>7, <1>9
<1> HIDE DEF Body, U
<1>11. iter = [s \in U |-> Body(iter, s)]
  BY <1>10
<1> HIDE DEF iter
<1>12. \A s \in U : iter[s] = Body(iter, s)
  BY <1>11, Zenon
<1>13. \A i \in 0 .. n : 1 .. i \in U /\ run[i] = iter[1 .. i]
  BY <1>1 DEF U
<1>14. run[0] = queue
  <2>1. 0 \in 0 .. n /\ 1 .. 0 = {}
    BY <1>1
  <2>2. Body(iter, 1 .. 0) = queue
    BY <2>1 DEF Body
  <2> HIDE DEF run
  <2> QED BY <1>12, <1>13, <2>1, <2>2
<1>15. ASSUME NEW i \in 1 .. n
       PROVE  run[i] = Enqueue(run[i - 1], children[i])
  <2> DEFINE s == 1 .. i
  <2>1. i \in 0 .. n /\ i - 1 \in 0 .. n /\ s # {} /\ s \in SUBSET (0 .. n)
    <3>1. i \in s
      OBVIOUS
    <3>2. i \in 0 .. n /\ i - 1 \in 0 .. n /\ s \in SUBSET (0 .. n)
      BY <1>1
    <3> QED BY <3>1, <3>2
  <2>2. Max(s) \in s /\ \A y \in s : y <= Max(s)
    BY <1>1, <2>1, MaxOfBounded
  <2>3. Max(s) = i
    BY <1>1, <2>2
  <2>4. s \ {i} = 1 .. i - 1
    BY <1>1
  <2>5. Body(iter, s) = Enqueue(iter[1 .. i - 1], children[i])
    BY <2>1, <2>3, <2>4 DEF Body
  <2>6. run[i] = iter[s] /\ run[i - 1] = iter[1 .. i - 1] /\ s \in U
    BY <1>13, <2>1
  <2> HIDE DEF run, s
  <2> QED BY <1>12, <2>5, <2>6
<1>16. run \in [0 .. n -> V]
  <2> DEFINE T == {i \in 0 .. n : run[i] \in V}
  <2>0. run = [i \in 0 .. n |-> run[i]]
    OBVIOUS
  <2> HIDE DEF run
  <2>1. 0 \in T
    BY <1>1, <1>3, <1>14
  <2>2. ASSUME NEW i \in 1 .. n, i - 1 \in T PROVE i \in T
    BY <1>4, <1>15, <2>2
  <2> HIDE DEF T
  <2>3. \A i \in 0 .. n : i \in T
    BY <1>1, <2>1, <2>2, RoundInduction
  <2>4. \A i \in 0 .. n : run[i] \in V
    BY <2>3 DEF T
  <2> QED BY <2>0, <2>4
<1>17. FoldLeft(Enqueue, queue, children) = run[n]
  <2>1. n \in 0 .. n
    BY <1>1
  <2> QED BY <1>2, <1>13, <2>1
<1> HIDE DEF run
<1> QED BY <1>14, <1>15, <1>16, <1>17 DEF n, V, QueueRun

(* A queue only grows at its end, and holds a node at most once.           *)
LEMMA QueuedMembers ==
  ASSUME NEW S, NEW queue \in Seq(S), IsInjective(queue),
         NEW children \in Seq(S)
  PROVE  LET after == FoldLeft(Enqueue, queue, children)
         IN  /\ after \in Seq(S) /\ IsInjective(after)
             /\ ToSet(after) = ToSet(queue) \cup ToSet(children)
             /\ Len(queue) <= Len(after)
             /\ \A j \in 1 .. Len(queue) : after[j] = queue[j]
<1> DEFINE n == Len(children)
           after == FoldLeft(Enqueue, queue, children)
<1>1. /\ n \in Nat /\ DOMAIN children = 1 .. n
      /\ \A i \in 1 .. n : children[i] \in S
      /\ Len(queue) \in Nat
  BY LenProperties, ElementOfSeq
<1>2. PICK run : QueueRun(run, S, queue, children)
  BY QueueRounds
<1>rounds. /\ run \in [0 .. n -> Seq(S)] /\ run[0] = queue
           /\ \A i \in 1 .. n : run[i] = Enqueue(run[i - 1], children[i])
           /\ after = run[n]
  BY <1>2 DEF QueueRun
<1> HIDE DEF n, after
<1> DEFINE Grown(u, i) ==
              /\ IsInjective(u)
              /\ ToSet(u) = ToSet(queue) \cup {children[j] : j \in 1 .. i}
              /\ Len(queue) <= Len(u)
              /\ \A j \in 1 .. Len(queue) : u[j] = queue[j]
           T == {i \in 0 .. n : Grown(run[i], i)}
<1>3. 0 \in T
  <2>1. 0 \in 0 .. n /\ \A j \in 1 .. 0 : FALSE
    BY <1>1
  <2>2. {children[j] : j \in 1 .. 0} = {}
    BY <2>1
  <2> QED BY <1>1, <1>rounds, <2>1, <2>2
<1>4. ASSUME NEW i \in 1 .. n, i - 1 \in T PROVE i \in T
  <2> DEFINE u == run[i - 1]
             c == children[i]
             was == {children[j] : j \in 1 .. i - 1}
             is == {children[j] : j \in 1 .. i}
  <2>1. /\ u \in Seq(S) /\ c \in S /\ i \in 0 .. n
        /\ run[i] = Enqueue(u, c)
        /\ IsInjective(u)
        /\ ToSet(u) = ToSet(queue) \cup was
        /\ Len(queue) <= Len(u)
        /\ \A j \in 1 .. Len(queue) : u[j] = queue[j]
        /\ Len(u) \in Nat /\ DOMAIN u = 1 .. Len(u)
    BY <1>1, <1>rounds, <1>4, LenProperties
  <2>2. is = was \cup {c}
    <3>1. \A j : j \in 1 .. i <=> j \in 1 .. i - 1 \/ j = i
      BY <1>1
    <3> QED BY <3>1
  <2> HIDE DEF u, c, was, is
  <2>3. Contains(u, c) <=> c \in ToSet(u)
    BY <2>1 DEF Contains, ToSet
  <2>4. CASE c \in ToSet(u)
    <3>1. run[i] = u
      BY <2>1, <2>3, <2>4 DEF Enqueue
    <3>2. ToSet(run[i]) = ToSet(queue) \cup is
      BY <2>1, <2>2, <2>4, <3>1
    <3> QED BY <2>1, <3>1, <3>2 DEF is
  <2>5. CASE c \notin ToSet(u)
    <3>1. run[i] = Append(u, c)
      BY <2>1, <2>3, <2>5 DEF Enqueue
    <3>2. /\ ToSet(run[i]) = ToSet(u) \cup {c}
          /\ IsInjective(run[i])
      BY <2>1, <2>5, <3>1, AppendMembers
    <3>3. /\ Len(run[i]) = Len(u) + 1
          /\ \A j \in 1 .. Len(u) : run[i][j] = u[j]
      BY <2>1, <3>1, AppendProperties
    <3>4. ToSet(run[i]) = ToSet(queue) \cup is
      BY <2>1, <2>2, <3>2
    <3>5. /\ Len(queue) <= Len(run[i])
          /\ \A j \in 1 .. Len(queue) : run[i][j] = queue[j]
      <4>1. \A j \in 1 .. Len(queue) : j \in 1 .. Len(u)
        BY <1>1, <2>1
      <4> QED BY <1>1, <2>1, <3>3, <4>1
    <3> QED BY <2>1, <3>2, <3>4, <3>5 DEF is
  <2> QED BY <2>4, <2>5
<1>5. n \in T
  <2> HIDE DEF T
  <2>1. \A i \in 0 .. n : i \in T
    BY <1>1, <1>3, <1>4, RoundInduction
  <2> QED BY <1>1, <2>1
<1>6. ToSet(children) = {children[j] : j \in 1 .. n}
  BY <1>1 DEF ToSet
<1>7. run[n] \in Seq(S)
  BY <1>1, <1>rounds
<1> QED BY <1>rounds, <1>5, <1>6, <1>7 DEF after

(* The edges out of a node, and what the out table of a graph tells of     *)
(* them.                                                                   *)
OutOf(edges, n) == {k \in DOMAIN edges : edges[k].from = n}

RowsLead(g, edges, total) ==
    /\ Len(g.nodeData) = total
    /\ Len(g.out.neighbors) = Len(edges)
    /\ \A n \in 0 .. total - 1 :
          /\ DagChildren(g, n) \in Seq(0 .. total - 1)
          /\ ToSet(DagChildren(g, n)) = {edges[k].to : k \in OutOf(edges, n)}
          /\ Len(DagChildren(g, n)) = Cardinality(OutOf(edges, n))

LeadsOut(edges, S, T) ==
    \A k \in DOMAIN edges : edges[k].from \in S => edges[k].to \in T

(* The nodes in every set with root that edges do not leave.               *)
ReachedFrom(edges, total, root) ==
    {n \in 0 .. total - 1 :
        \A S \in SUBSET (0 .. total - 1) :
            (root \in S /\ LeadsOut(edges, S, S)) => n \in S}

(* What is reached is closed under the edges, and the least such set.      *)
LEMMA ReachedIsLeast ==
  ASSUME NEW total \in Nat, NEW D, NEW edges \in Seq(EdgeBelow(total, D)),
         NEW root \in 0 .. total - 1
  PROVE  LET reached == ReachedFrom(edges, total, root)
         IN  /\ reached \subseteq 0 .. total - 1
             /\ root \in reached
             /\ LeadsOut(edges, reached, reached)
             /\ \A S \in SUBSET (0 .. total - 1) :
                   root \in S /\ LeadsOut(edges, S, S) => reached \subseteq S
<1> DEFINE H == 0 .. total - 1
           reached == ReachedFrom(edges, total, root)
<1>1. reached \subseteq H /\ root \in reached
  BY DEF ReachedFrom
<1>2. \A S \in SUBSET H :
         root \in S /\ LeadsOut(edges, S, S) => reached \subseteq S
  BY DEF ReachedFrom
<1>3. LeadsOut(edges, reached, reached)
  <2> SUFFICES ASSUME NEW k \in DOMAIN edges, edges[k].from \in reached
               PROVE  edges[k].to \in reached
    BY DEF LeadsOut
  <2>1. edges[k].to \in H
    BY FromsAreKeys
  <2>2. ASSUME NEW S \in SUBSET H, root \in S, LeadsOut(edges, S, S)
        PROVE  edges[k].to \in S
    <3>1. edges[k].from \in S
      BY <1>2, <2>2
    <3> QED BY <2>2, <3>1 DEF LeadsOut
  <2> QED BY <2>1, <2>2 DEF ReachedFrom
<1> QED BY <1>1, <1>2, <1>3

(* The edges out of the nodes of a set are counted node by node.           *)
UsedBy(edges, S) == {k \in DOMAIN edges : edges[k].from \in S}

(* An added node uses up the edges out of it.                              *)
LEMMA UsedIsCounted ==
  ASSUME NEW total \in Nat, NEW D, NEW edges \in Seq(EdgeBelow(total, D)),
         NEW S, NEW n
  PROVE  /\ Cardinality(UsedBy(edges, S)) \in 0 .. Len(edges)
         /\ Cardinality(OutOf(edges, n)) \in Nat
         /\ n \notin S =>
               Cardinality(UsedBy(edges, S \cup {n}))
                  = Cardinality(UsedBy(edges, S)) + Cardinality(OutOf(edges, n))
<1>1. Len(edges) \in Nat /\ DOMAIN edges = 1 .. Len(edges)
  BY LenProperties
<1> DEFINE A == UsedBy(edges, S)
           B == OutOf(edges, n)
<1>2. A \in SUBSET (1 .. Len(edges)) /\ B \in SUBSET (1 .. Len(edges))
  BY <1>1 DEF UsedBy, OutOf
<1>3. UsedBy(edges, S \cup {n}) = A \cup B
  BY DEF UsedBy, OutOf
<1>4. n \notin S => A \cap B = {}
  BY DEF UsedBy, OutOf
<1> HIDE DEF A, B
<1>5. IsFiniteSet(A) /\ IsFiniteSet(B)
      /\ Cardinality(A) \in Nat /\ Cardinality(B) \in Nat
  BY <1>1, <1>2, PositionsFinite
<1>6. Cardinality(A) <= Len(edges)
  <2>1. IsFiniteSet(1 .. Len(edges)) /\ Cardinality(1 .. Len(edges)) = Len(edges)
    BY <1>1, PositionsCounted
  <2>2. Cardinality(A) <= Cardinality(1 .. Len(edges))
    BY <1>2, <2>1, FS_Subset
  <2> QED BY <2>1, <2>2
<1>7. Cardinality(A \cup B) = Cardinality(A) + Cardinality(B)
                              - Cardinality(A \cap B)
  BY <1>5, FS_Union
<1>8. n \notin S => Cardinality(A \cup B) = Cardinality(A) + Cardinality(B)
  <2> SUFFICES ASSUME n \notin S
               PROVE  Cardinality(A \cup B) = Cardinality(A) + Cardinality(B)
    OBVIOUS
  <2>1. A \cap B = {} /\ Cardinality({}) = 0
    BY <1>4, FS_EmptySet
  <2>2. Cardinality(A \cap B) = 0
    BY <2>1
  <2> DEFINE a == Cardinality(A)
             b == Cardinality(B)
             c == Cardinality(A \cap B)
  <2>3. a \in Nat /\ b \in Nat /\ c = 0 /\ Cardinality(A \cup B) = a + b - c
    BY <1>5, <1>7, <2>2
  <2> HIDE DEF a, b, c
  <2>4. Cardinality(A \cup B) = a + b
    BY <2>3
  <2> QED BY <2>4 DEF a, b
<1>9. Cardinality(A) \in 0 .. Len(edges)
  BY <1>1, <1>5, <1>6
<1> QED BY <1>3, <1>5, <1>8, <1>9 DEF A, B

-----------------------------------------------------------------------------
(* dfs *)

Walks(total) == [stack : Seq(0 .. total - 1), order : Seq(0 .. total - 1)]

(* Between two rounds: what an ordered node leads to is ordered or waits.  *)
WalkHolds(edges, total, root, s) ==
    LET seen == ToSet(s.stack) \cup ToSet(s.order)
    IN  /\ s \in Walks(total)
        /\ IsInjective(s.order)
        /\ seen \subseteq ReachedFrom(edges, total, root)
        /\ root \in seen
        /\ LeadsOut(edges, ToSet(s.order), seen)

(* How many edges the ordered nodes have used up.                          *)
Spent(edges, s) == Cardinality(UsedBy(edges, ToSet(s.order)))

(* What a round takes off the stack, it pushes back at most once per edge. *)
LEMMA VisitKeeps ==
  ASSUME NEW total \in Nat, NEW D, NEW edges \in Seq(EdgeBelow(total, D)),
         NEW g, RowsLead(g, edges, total), NEW root \in 0 .. total - 1,
         NEW s, WalkHolds(edges, total, root, s), s.stack # <<>>
  PROVE  /\ WalkHolds(edges, total, root, Visit(g, s))
         /\ Len(Visit(g, s).stack) + 1 + Spent(edges, s)
               <= Len(s.stack) + Spent(edges, Visit(g, s))
         /\ Spent(edges, s) \in Nat /\ Spent(edges, Visit(g, s)) \in Nat
<1> DEFINE H == 0 .. total - 1
           R == ReachedFrom(edges, total, root)
           n == Last(s.stack)
           rest == Front(s.stack)
           t == Visit(g, s)
           kids == DagChildren(g, n)
<1>1. /\ s.stack \in Seq(H) /\ s.order \in Seq(H) /\ IsInjective(s.order)
      /\ ToSet(s.stack) \cup ToSet(s.order) \subseteq R
      /\ root \in ToSet(s.stack) \cup ToSet(s.order)
      /\ LeadsOut(edges, ToSet(s.order), ToSet(s.stack) \cup ToSet(s.order))
  BY DEF WalkHolds, Walks
<1>2. rest \in Seq(H) /\ n \in H /\ s.stack = rest \o <<n>>
  BY <1>1, FrontAndLast
<1>3. R \subseteq H /\ LeadsOut(edges, R, R)
  BY ReachedIsLeast
<1>4. /\ kids \in Seq(H)
      /\ ToSet(kids) = {edges[k].to : k \in OutOf(edges, n)}
      /\ Len(kids) = Cardinality(OutOf(edges, n))
  BY <1>2 DEF RowsLead
<1>5. AlreadyVisited(s.order, n) <=> n \in ToSet(s.order)
  <2>1. DOMAIN s.order = 1 .. Len(s.order)
    BY <1>1, LenProperties
  <2> QED BY <2>1 DEF AlreadyVisited, Contains, ToSet
<1>6. t = IF AlreadyVisited(s.order, n)
          THEN [stack |-> rest, order |-> s.order]
          ELSE [stack |-> PushUnvisited(rest, Append(s.order, n), kids),
                order |-> Append(s.order, n)]
  BY DEF Visit
<1> HIDE DEF H, R, n, rest, t, kids
<1>7. /\ ToSet(s.stack) = ToSet(rest) \cup {n}
      /\ Len(s.stack) = Len(rest) + 1
      /\ Len(rest) \in Nat
  <2>1. <<n>> \in Seq(H) /\ Len(<<n>>) = 1 /\ ToSet(<<n>>) = {n}
    BY <1>2 DEF ToSet
  <2>2. ToSet(rest \o <<n>>) = ToSet(rest) \cup ToSet(<<n>>)
    <3> DEFINE one == <<n>>
    <3>1. one \in Seq(H) /\ rest \in Seq(H)
      BY <1>2, <2>1
    <3> HIDE DEF one
    <3>2. ToSet(rest \o one) = ToSet(rest) \cup ToSet(one)
      BY <3>1, ConcatMembers
    <3> QED BY <3>2 DEF one
  <2>3. Len(rest \o <<n>>) = Len(rest) + 1
    BY <1>2, <2>1, ConcatProperties
  <2>4. Len(rest) \in Nat
    BY <1>2, LenProperties
  <2> QED BY <1>2, <2>1, <2>2, <2>3, <2>4
<1>8. /\ Spent(edges, s) \in Nat
      /\ n \notin ToSet(s.order) =>
            Cardinality(UsedBy(edges, ToSet(s.order) \cup {n}))
               = Spent(edges, s) + Len(kids)
      /\ Len(kids) \in Nat
  BY <1>4, UsedIsCounted DEF Spent
<1>9. CASE n \in ToSet(s.order)
  <2>1. t.stack = rest /\ t.order = s.order
        /\ t = [stack |-> t.stack, order |-> t.order]
    BY <1>5, <1>6, <1>9
  <2>2. t \in Walks(total)
    BY <1>1, <1>2, <2>1 DEF Walks, H
  <2>3. ToSet(t.stack) \cup ToSet(t.order) = ToSet(s.stack) \cup ToSet(s.order)
    BY <1>7, <1>9, <2>1
  <2>4. WalkHolds(edges, total, root, t)
    BY <1>1, <2>1, <2>2, <2>3 DEF WalkHolds, R
  <2>5. Spent(edges, t) = Spent(edges, s)
    BY <2>1 DEF Spent
  <2> QED BY <1>7, <1>8, <2>1, <2>4, <2>5 DEF t
<1>10. CASE n \notin ToSet(s.order)
  <2>1. /\ t.order = Append(s.order, n)
        /\ t.stack = PushUnvisited(rest, t.order, kids)
        /\ t = [stack |-> t.stack, order |-> t.order]
    BY <1>5, <1>6, <1>10
  <2>2. /\ t.order \in Seq(H) /\ IsInjective(t.order)
        /\ ToSet(t.order) = ToSet(s.order) \cup {n}
    BY <1>1, <1>2, <1>10, <2>1, AppendMembers, AppendProperties
  <2>3. /\ t.stack \in Seq(H)
        /\ ToSet(t.stack) = ToSet(rest) \cup (ToSet(kids) \ ToSet(t.order))
        /\ Len(t.stack) <= Len(rest) + Len(kids)
    <3> DEFINE o == t.order
               pushed == PushUnvisited(rest, o, kids)
    <3>1. rest \in Seq(H) /\ o \in Seq(H) /\ kids \in Seq(H)
      BY <1>2, <1>4, <2>2
    <3> HIDE DEF o
    <3>2. /\ pushed \in Seq(H)
          /\ ToSet(pushed) = ToSet(rest) \cup (ToSet(kids) \ ToSet(o))
          /\ Len(pushed) <= Len(rest) + Len(kids)
      BY <3>1, PushedMembers
    <3> QED BY <2>1, <3>2 DEF o
  <2>4. ToSet(t.stack) \cup ToSet(t.order)
           = ToSet(s.stack) \cup ToSet(s.order) \cup ToSet(kids)
    BY <1>7, <2>2, <2>3
  <2>5. ToSet(kids) \subseteq R
    <3>1. n \in R
      BY <1>1, <1>7
    <3> QED BY <1>3, <1>4, <3>1 DEF OutOf, LeadsOut
  <2>6. LeadsOut(edges, ToSet(t.order), ToSet(t.stack) \cup ToSet(t.order))
    <3> SUFFICES ASSUME NEW k \in DOMAIN edges, edges[k].from \in ToSet(t.order)
                 PROVE  edges[k].to \in ToSet(t.stack) \cup ToSet(t.order)
      BY DEF LeadsOut
    <3>1. CASE edges[k].from = n
      <4>1. edges[k].to \in ToSet(kids)
        BY <1>4, <3>1 DEF OutOf
      <4> QED BY <2>4, <4>1
    <3>2. CASE edges[k].from # n
      <4>1. edges[k].from \in ToSet(s.order)
        BY <2>2, <3>2
      <4>2. edges[k].to \in ToSet(s.stack) \cup ToSet(s.order)
        BY <1>1, <4>1 DEF LeadsOut
      <4> QED BY <2>4, <4>2
    <3> QED BY <3>1, <3>2
  <2>7. t \in Walks(total)
    BY <2>1, <2>2, <2>3 DEF Walks, H
  <2>8. /\ ToSet(t.stack) \cup ToSet(t.order) \subseteq R
        /\ root \in ToSet(t.stack) \cup ToSet(t.order)
    BY <1>1, <2>4, <2>5
  <2>9. WalkHolds(edges, total, root, t)
    BY <2>2, <2>6, <2>7, <2>8 DEF WalkHolds, R
  <2>10. Spent(edges, t) = Spent(edges, s) + Len(kids)
    BY <1>8, <1>10, <2>2 DEF Spent
  <2>11. Len(t.stack) \in Nat
    BY <2>3, LenProperties
  <2>12. /\ Len(t.stack) + 1 + Spent(edges, s) <= Len(s.stack) + Spent(edges, t)
         /\ Spent(edges, t) \in Nat
    <3> DEFINE a == Spent(edges, s)
               b == Spent(edges, t)
               c == Len(t.stack)
               d == Len(rest)
               e == Len(kids)
               f == Len(s.stack)
    <3>1. /\ a \in Nat /\ c \in Nat /\ d \in Nat /\ e \in Nat
          /\ b = a + e /\ c <= d + e /\ f = d + 1
      BY <1>7, <1>8, <2>3, <2>10, <2>11
    <3> HIDE DEF a, b, c, d, e, f
    <3>2. c + 1 + a <= f + b /\ b \in Nat
      BY <3>1
    <3> QED BY <3>2 DEF a, b, c, f
  <2> QED BY <1>8, <2>9, <2>12 DEF t
<1> QED BY <1>9, <1>10

(* The loop ends with everything reachable in order: there are as many     *)
(* rounds as edges, and one.                                               *)
THEOREM DepthFirstVisits ==
  ASSUME NEW total \in Nat, NEW D, NEW edges \in Seq(EdgeBelow(total, D)),
         NEW g, RowsLead(g, edges, total), NEW root \in 0 .. total - 1
  PROVE  /\ IsInjective(DepthFirst(g, root))
         /\ ToSet(DepthFirst(g, root)) = ReachedFrom(edges, total, root)
<1> DEFINE H == 0 .. total - 1
           last == Len(g.out.neighbors) + 1
           V == {s \in Walks(total) : WalkHolds(edges, total, root, s)}
           first == [stack |-> <<root>>, order |-> <<>>]
           Body(w, i) == IF i = 0 THEN first
                         ELSE IF w[i - 1].stack = <<>> THEN w[i - 1]
                         ELSE Visit(g, w[i - 1])
           run == CHOOSE w : w = [i \in 0 .. last |-> Body(w, i)]
           step == [x \in (1 .. last) \X V |->
                       IF x[2].stack = <<>> THEN x[2] ELSE Visit(g, x[2])]
<1>1. Len(edges) \in Nat /\ last = Len(edges) + 1 /\ last \in Nat
  BY LenProperties DEF RowsLead
<1>2. DepthFirst(g, root) = run[last].order
  BY DEF DepthFirst
<1> HIDE DEF last
<1>3. first \in V /\ Spent(edges, first) \in Nat
  <2>1. <<root>> \in Seq(H) /\ <<>> \in Seq(H)
    OBVIOUS
  <2>2. ToSet(<<root>>) = {root} /\ ToSet(<<>>) = {} /\ IsInjective(<<>>)
    BY DEF ToSet, IsInjective
  <2>3. /\ first.stack = <<root>> /\ first.order = <<>>
        /\ first \in Walks(total)
    BY <2>1 DEF Walks
  <2>4. ToSet(first.stack) = {root} /\ ToSet(first.order) = {}
        /\ IsInjective(first.order)
    BY <2>2, <2>3, Zenon
  <2> HIDE DEF first
  <2>5. LeadsOut(edges, ToSet(first.order),
                 ToSet(first.stack) \cup ToSet(first.order))
    BY <2>4 DEF LeadsOut
  <2>6. root \in ReachedFrom(edges, total, root)
    BY ReachedIsLeast
  <2>7. WalkHolds(edges, total, root, first)
    BY <2>3, <2>4, <2>5, <2>6 DEF WalkHolds
  <2>8. Spent(edges, first) \in 0 .. Len(edges)
    BY UsedIsCounted DEF Spent
  <2> QED BY <1>1, <2>3, <2>7, <2>8
<1>4. \A v \in V : v.stack # <<>> =>
         /\ Visit(g, v) \in V
         /\ Len(Visit(g, v).stack) + 1 + Spent(edges, v)
               <= Len(v.stack) + Spent(edges, Visit(g, v))
         /\ Spent(edges, v) \in Nat /\ Spent(edges, Visit(g, v)) \in Nat
  <2> SUFFICES ASSUME NEW v \in V, v.stack # <<>>
               PROVE  /\ WalkHolds(edges, total, root, Visit(g, v))
                      /\ Len(Visit(g, v).stack) + 1 + Spent(edges, v)
                            <= Len(v.stack) + Spent(edges, Visit(g, v))
                      /\ Spent(edges, v) \in Nat
                      /\ Spent(edges, Visit(g, v)) \in Nat
    BY DEF WalkHolds
  <2>1. WalkHolds(edges, total, root, v)
    OBVIOUS
  <2> HIDE DEF V
  <2> QED BY <2>1, VisitKeeps
<1>5. \A v \in V : Len(v.stack) \in Nat
  BY LenProperties DEF Walks
<1> HIDE DEF V, first
<1>6. \E w : w = [i \in 0 .. last |-> Body(w, i)]
  <2>1. step \in [(1 .. last) \X V -> V]
    BY <1>4
  <2>2. \A i \in 1 .. last, v \in V : step[<<i, v>>] =
           IF v.stack = <<>> THEN v ELSE Visit(g, v)
    OBVIOUS
  <2> HIDE DEF step
  <2>3. PICK f \in [0 .. last -> V] : Iterates(last, first, step, f)
    BY <1>1, <1>3, <2>1, IterationExists
  <2>4. ASSUME NEW i \in 0 .. last PROVE f[i] = Body(f, i)
    <3>1. CASE i = 0
      BY <2>3, <3>1 DEF Iterates
    <3>2. CASE i # 0
      <4>1. i \in 1 .. last /\ f[i - 1] \in V
        BY <1>1, <3>2
      <4>2. f[i] = step[<<i, f[i - 1]>>]
        BY <2>3, <4>1 DEF Iterates
      <4> QED BY <2>2, <3>2, <4>1, <4>2
    <3> QED BY <3>1, <3>2
  <2>5. f = [i \in 0 .. last |-> Body(f, i)]
    <3> HIDE DEF Body
    <3> QED BY <2>3, <2>4
  <2> QED BY <2>5
<1>7. run = [i \in 0 .. last |-> Body(run, i)]
  BY <1>6
<1> HIDE DEF run
<1>8. \A i \in 0 .. last : run[i] = Body(run, i)
  <2> HIDE DEF Body
  <2> QED BY <1>7, Zenon
<1> DEFINE Paid(s, i) == s.stack = <<>> \/ i + Len(s.stack) <= 1 + Spent(edges, s)
           T == {i \in 0 .. last : run[i] \in V /\ Paid(run[i], i)}
<1>9. 0 \in T
  <2>1. run[0] = first /\ 0 \in 0 .. last
    BY <1>1, <1>8
  <2>2. Len(first.stack) = 1
    BY DEF first
  <2>3. Paid(first, 0)
    BY <1>3, <2>2
  <2> QED BY <1>3, <2>1, <2>3
<1>10. ASSUME NEW i \in 1 .. last, i - 1 \in T PROVE i \in T
  <2> DEFINE u == run[i - 1]
  <2>1. /\ run[i] = IF u.stack = <<>> THEN u ELSE Visit(g, u)
        /\ i \in 0 .. last /\ u \in V
        /\ u.stack # <<>> => i - 1 + Len(u.stack) <= 1 + Spent(edges, u)
    BY <1>1, <1>8, <1>10
  <2> HIDE DEF u
  <2>2. CASE u.stack = <<>>
    BY <2>1, <2>2
  <2>3. CASE u.stack # <<>>
    <3> DEFINE w == Visit(g, u)
    <3>1. /\ w \in V
          /\ Len(w.stack) + 1 + Spent(edges, u) <= Len(u.stack) + Spent(edges, w)
          /\ Spent(edges, u) \in Nat /\ Spent(edges, w) \in Nat
          /\ Len(w.stack) \in Nat /\ Len(u.stack) \in Nat
      BY <1>4, <1>5, <2>1, <2>3
    <3> HIDE DEF w
    <3>2. i + Len(w.stack) <= 1 + Spent(edges, w)
      <4> DEFINE a == Spent(edges, u)
                 b == Spent(edges, w)
                 c == Len(w.stack)
                 d == Len(u.stack)
      <4>1. /\ c + 1 + a <= d + b /\ i - 1 + d <= 1 + a
            /\ a \in Nat /\ b \in Nat /\ c \in Nat /\ d \in Nat /\ i \in Nat
        BY <1>1, <2>1, <2>3, <3>1
      <4> HIDE DEF a, b, c, d
      <4>2. i + c <= 1 + b
        BY ONLY <4>1
      <4> QED BY <4>2 DEF b, c
    <3>3. run[i] = w
      BY <2>1, <2>3 DEF w
    <3> QED BY <2>1, <3>1, <3>2, <3>3
  <2> QED BY <2>2, <2>3
<1>11. last \in T
  <2> HIDE DEF T, Body
  <2>1. \A i \in 0 .. last : i \in T
    BY <1>1, <1>9, <1>10, RoundInduction
  <2> QED BY <1>1, <2>1
<1> DEFINE s == run[last]
<1>12. WalkHolds(edges, total, root, s) /\ Paid(s, last)
  BY <1>11 DEF V
<1> HIDE DEF s
<1>13. /\ s.stack \in Seq(H) /\ s.order \in Seq(H) /\ IsInjective(s.order)
       /\ ToSet(s.stack) \cup ToSet(s.order)
             \subseteq ReachedFrom(edges, total, root)
       /\ root \in ToSet(s.stack) \cup ToSet(s.order)
       /\ LeadsOut(edges, ToSet(s.order), ToSet(s.stack) \cup ToSet(s.order))
  BY <1>12 DEF WalkHolds, Walks
<1>14. s.stack = <<>>
  <2>1. SUFFICES ASSUME s.stack # <<>> PROVE FALSE
    OBVIOUS
  <2>2. Len(s.stack) \in Nat /\ Len(s.stack) # 0
    BY <1>13, <2>1, EmptySeq
  <2>3. Spent(edges, s) \in 0 .. Len(edges)
    BY UsedIsCounted DEF Spent
  <2>4. last + Len(s.stack) <= 1 + Spent(edges, s)
    BY <1>12, <2>1
  <2> DEFINE a == Len(s.stack)
             b == Spent(edges, s)
             c == Len(edges)
  <2>5. /\ a \in Nat /\ a # 0 /\ b \in 0 .. c /\ c \in Nat
        /\ c + 1 + a <= 1 + b
    BY <1>1, <2>2, <2>3, <2>4
  <2> HIDE DEF a, b, c
  <2> QED BY <2>5
<1>15. ToSet(s.stack) = {}
  BY <1>14 DEF ToSet
<1>16. ToSet(s.order) = ReachedFrom(edges, total, root)
  <2>1. LeadsOut(edges, ToSet(s.order), ToSet(s.order)) /\ root \in ToSet(s.order)
    BY <1>13, <1>15
  <2>2. ToSet(s.order) \in SUBSET H
    BY <1>13, MembersOfSeq
  <2>3. ReachedFrom(edges, total, root) \subseteq ToSet(s.order)
    BY <2>1, <2>2, ReachedIsLeast
  <2> QED BY <1>13, <2>3
<1> QED BY <1>2, <1>13, <1>16 DEF s

-----------------------------------------------------------------------------
(* bfs *)

(* After i rounds: what the first i queued nodes lead to is queued.        *)
QueueHolds(edges, total, root, q, i) ==
    /\ q \in Seq(0 .. total - 1)
    /\ IsInjective(q)
    /\ ToSet(q) \subseteq ReachedFrom(edges, total, root)
    /\ root \in ToSet(q)
    /\ \A j \in 1 .. i : j <= Len(q) =>
          \A k \in OutOf(edges, q[j]) : edges[k].to \in ToSet(q)

QueueNext(g, q, i) ==
    IF i > Len(q) THEN q ELSE FoldLeft(Enqueue, q, DagChildren(g, q[i]))

(* A round queues what its node leads to and is not queued yet.            *)
LEMMA QueueKeeps ==
  ASSUME NEW total \in Nat, NEW D, NEW edges \in Seq(EdgeBelow(total, D)),
         NEW g, RowsLead(g, edges, total), NEW root \in 0 .. total - 1,
         NEW i \in Nat \ {0}, NEW q, QueueHolds(edges, total, root, q, i - 1)
  PROVE  QueueHolds(edges, total, root, QueueNext(g, q, i), i)
<1> DEFINE H == 0 .. total - 1
           R == ReachedFrom(edges, total, root)
           r == QueueNext(g, q, i)
<1>1. /\ q \in Seq(H) /\ IsInjective(q) /\ ToSet(q) \subseteq R
      /\ root \in ToSet(q)
      /\ \A j \in 1 .. i - 1 : j <= Len(q) =>
            \A k \in OutOf(edges, q[j]) : edges[k].to \in ToSet(q)
  BY DEF QueueHolds
<1>2. Len(q) \in Nat /\ ToSet(q) = {q[j] : j \in 1 .. Len(q)}
  BY <1>1, LenProperties, MembersOfSeq
<1>3. LeadsOut(edges, R, R)
  BY ReachedIsLeast
<1> HIDE DEF H, R, r
<1>4. CASE i > Len(q)
  <2>1. r = q
    BY <1>4 DEF r, QueueNext
  <2>2. \A j \in 1 .. i : j <= Len(q) => j \in 1 .. i - 1
    BY <1>2, <1>4
  <2>3. \A j \in 1 .. i : j <= Len(q) =>
           \A k \in OutOf(edges, q[j]) : edges[k].to \in ToSet(q)
    BY <1>1, <2>2
  <2> QED BY <1>1, <2>1, <2>3 DEF QueueHolds, H, R, r
<1>5. CASE ~ (i > Len(q))
  <2> DEFINE n == q[i]
             kids == DagChildren(g, n)
  <2>1. i \in 1 .. Len(q)
    BY <1>2, <1>5
  <2>2. n \in H /\ n \in R
    BY <1>1, <1>2, <2>1, ElementOfSeq
  <2>3. /\ kids \in Seq(H)
        /\ ToSet(kids) = {edges[k].to : k \in OutOf(edges, n)}
    BY <2>2 DEF RowsLead, H
  <2>4. r = FoldLeft(Enqueue, q, kids)
    BY <1>5 DEF r, QueueNext
  <2> HIDE DEF kids
  <2>5. /\ r \in Seq(H) /\ IsInjective(r)
        /\ ToSet(r) = ToSet(q) \cup ToSet(kids)
        /\ Len(q) <= Len(r)
        /\ \A j \in 1 .. Len(q) : r[j] = q[j]
    <3> DEFINE after == FoldLeft(Enqueue, q, kids)
    <3>1. /\ after \in Seq(H) /\ IsInjective(after)
          /\ ToSet(after) = ToSet(q) \cup ToSet(kids)
          /\ Len(q) <= Len(after)
          /\ \A j \in 1 .. Len(q) : after[j] = q[j]
      BY <1>1, <2>3, QueuedMembers
    <3>2. r = after
      BY <2>4
    <3> HIDE DEF after
    <3> QED BY <3>1, <3>2
  <2>6. ToSet(kids) \subseteq R
    BY <1>3, <2>2, <2>3 DEF OutOf, LeadsOut
  <2>7. ASSUME NEW j \in 1 .. i, NEW k \in OutOf(edges, r[j])
        PROVE  edges[k].to \in ToSet(r)
    <3>1. j \in 1 .. Len(q) /\ r[j] = q[j]
      BY <1>2, <2>1, <2>5
    <3>2. CASE j = i
      BY <2>3, <2>5, <3>1, <3>2
    <3>3. CASE j # i
      <4>1. j \in 1 .. i - 1 /\ j <= Len(q)
        BY <2>1, <3>1, <3>3
      <4>2. edges[k].to \in ToSet(q)
        BY <1>1, <3>1, <4>1
      <4> QED BY <2>5, <4>2
    <3> QED BY <3>2, <3>3
  <2>8. ToSet(r) \subseteq R /\ root \in ToSet(r)
    BY <1>1, <2>5, <2>6
  <2> QED BY <2>5, <2>7, <2>8 DEF QueueHolds, H, R, r
<1> QED BY <1>4, <1>5 DEF r

(* No node is queued twice, so the queue ends before the rounds do.        *)
THEOREM BreadthFirstVisits ==
  ASSUME NEW total \in Nat, NEW D, NEW edges \in Seq(EdgeBelow(total, D)),
         NEW g, RowsLead(g, edges, total), NEW root \in 0 .. total - 1
  PROVE  /\ IsInjective(BreadthFirst(g, root))
         /\ ToSet(BreadthFirst(g, root)) = ReachedFrom(edges, total, root)
<1> DEFINE H == 0 .. total - 1
           V == Seq(H)
           last == Len(g.nodeData)
           Body(w, i) ==
               IF i = 0 THEN <<root>>
               ELSE IF i > Len(w[i - 1]) THEN w[i - 1]
               ELSE FoldLeft(Enqueue, w[i - 1], DagChildren(g, w[i - 1][i]))
           run == CHOOSE w : w = [i \in 0 .. last |-> Body(w, i)]
           step == [x \in (1 .. last) \X V |-> QueueNext(g, x[2], x[1])]
<1>1. last = total
  BY DEF RowsLead
<1>2. BreadthFirst(g, root) = run[last]
  BY DEF BreadthFirst
<1>3. <<root>> \in V /\ QueueHolds(edges, total, root, <<root>>, 0)
  <2>1. <<root>> \in V /\ IsInjective(<<root>>) /\ ToSet(<<root>>) = {root}
    BY DEF IsInjective, ToSet
  <2>2. \A j \in 1 .. 0 : FALSE
    OBVIOUS
  <2>3. root \in ReachedFrom(edges, total, root)
    BY ReachedIsLeast
  <2> DEFINE one == <<root>>
  <2>4. one \in V /\ IsInjective(one) /\ ToSet(one) = {root}
    BY <2>1
  <2> HIDE DEF one
  <2>5. QueueHolds(edges, total, root, one, 0)
    BY <2>2, <2>3, <2>4 DEF QueueHolds
  <2> QED BY <2>1, <2>5 DEF one
<1>4. ASSUME NEW q \in V, NEW i \in 1 .. last PROVE QueueNext(g, q, i) \in V
  <2>1. CASE i > Len(q)
    BY <2>1 DEF QueueNext
  <2>2. CASE ~ (i > Len(q))
    <3>1. i \in 1 .. Len(q) /\ Len(q) \in Nat
      <4>1. Len(q) \in Nat
        BY LenProperties
      <4> QED BY <1>1, <2>2, <4>1
    <3>2. q[i] \in H
      BY <3>1, ElementOfSeq
    <3> DEFINE kids == DagChildren(g, q[i])
    <3>3. kids \in Seq(H)
      BY <3>2 DEF RowsLead
    <3>4. QueueNext(g, q, i) = FoldLeft(Enqueue, q, kids)
      BY <2>2 DEF QueueNext
    <3> HIDE DEF kids, H
    <3>5. PICK r : QueueRun(r, H, q, kids)
      BY <3>3, QueueRounds
    <3>6. Len(kids) \in Nat
      BY <3>3, LenProperties
    <3>7. FoldLeft(Enqueue, q, kids) \in Seq(H)
      BY <3>5, <3>6 DEF QueueRun
    <3> QED BY <3>4, <3>7
  <2> QED BY <2>1, <2>2
<1> HIDE DEF last, V
<1>5. \E w : w = [i \in 0 .. last |-> Body(w, i)]
  <2>1. step \in [(1 .. last) \X V -> V]
    BY <1>4
  <2>2. \A i \in 1 .. last, v \in V : step[<<i, v>>] = QueueNext(g, v, i)
    OBVIOUS
  <2> HIDE DEF step
  <2>3. PICK f \in [0 .. last -> V] : Iterates(last, <<root>>, step, f)
    BY <1>1, <1>3, <2>1, IterationExists
  <2>4. ASSUME NEW i \in 0 .. last PROVE f[i] = Body(f, i)
    <3>1. CASE i = 0
      BY <2>3, <3>1 DEF Iterates
    <3>2. CASE i # 0
      <4>1. i \in 1 .. last /\ f[i - 1] \in V
        BY <1>1, <3>2
      <4>2. f[i] = step[<<i, f[i - 1]>>]
        BY <2>3, <4>1 DEF Iterates
      <4>3. f[i] = QueueNext(g, f[i - 1], i)
        BY <2>2, <4>1, <4>2
      <4> QED BY <3>2, <4>3 DEF QueueNext
    <3> QED BY <3>1, <3>2
  <2>5. f = [i \in 0 .. last |-> Body(f, i)]
    <3> HIDE DEF Body
    <3> QED BY <2>3, <2>4
  <2> QED BY <2>5
<1>6. run = [i \in 0 .. last |-> Body(run, i)]
  BY <1>5
<1> HIDE DEF run
<1>7. \A i \in 0 .. last : run[i] = Body(run, i)
  <2> HIDE DEF Body
  <2> QED BY <1>6, Zenon
<1> DEFINE T == {i \in 0 .. last : QueueHolds(edges, total, root, run[i], i)}
<1>8. 0 \in T
  <2>1. run[0] = <<root>> /\ 0 \in 0 .. last
    BY <1>1, <1>7
  <2> QED BY <1>3, <2>1
<1>9. ASSUME NEW i \in 1 .. last, i - 1 \in T PROVE i \in T
  <2>1. /\ i \in 0 .. last /\ i # 0 /\ i \in Nat \ {0}
        /\ QueueHolds(edges, total, root, run[i - 1], i - 1)
    BY <1>1, <1>9
  <2>2. run[i] = QueueNext(g, run[i - 1], i)
    <3>1. run[i] = Body(run, i)
      BY <1>7, <2>1
    <3> QED BY <2>1, <3>1 DEF QueueNext
  <2>3. QueueHolds(edges, total, root, run[i], i)
    BY <2>1, <2>2, QueueKeeps
  <2> QED BY <2>1, <2>3
<1>10. last \in T
  <2> HIDE DEF T, Body
  <2>1. \A i \in 0 .. last : i \in T
    BY <1>1, <1>8, <1>9, RoundInduction
  <2> QED BY <1>1, <2>1
<1> DEFINE q == run[last]
<1>11. QueueHolds(edges, total, root, q, total)
  BY <1>1, <1>10
<1> HIDE DEF q, H
<1>12. /\ q \in Seq(H) /\ IsInjective(q) /\ root \in ToSet(q)
       /\ ToSet(q) \subseteq ReachedFrom(edges, total, root)
       /\ \A j \in 1 .. total : j <= Len(q) =>
             \A k \in OutOf(edges, q[j]) : edges[k].to \in ToSet(q)
  BY <1>11 DEF QueueHolds, H
<1>13. Len(q) <= total /\ Len(q) \in Nat /\ DOMAIN q = 1 .. Len(q)
  <2>1. /\ IsFiniteSet(0 .. total - 1)
        /\ Cardinality(0 .. total - 1)
              = IF 0 > total - 1 THEN 0 ELSE (total - 1) - 0 + 1
    BY FS_Interval
  <2>2. IsFiniteSet(H) /\ Cardinality(H) = total
    BY <2>1 DEF H
  <2> QED BY <1>12, <2>2, InjectiveLength, LenProperties
<1>14. LeadsOut(edges, ToSet(q), ToSet(q))
  <2> SUFFICES ASSUME NEW k \in DOMAIN edges, edges[k].from \in ToSet(q)
               PROVE  edges[k].to \in ToSet(q)
    BY DEF LeadsOut
  <2>1. PICK j \in 1 .. Len(q) : q[j] = edges[k].from
    BY <1>13 DEF ToSet
  <2>2. j \in 1 .. total /\ j <= Len(q)
    BY <1>13
  <2>3. k \in OutOf(edges, q[j])
    BY <2>1 DEF OutOf
  <2> QED BY <1>12, <2>2, <2>3
<1>15. ToSet(q) = ReachedFrom(edges, total, root)
  <2>1. ToSet(q) \in SUBSET (0 .. total - 1)
    BY <1>12, MembersOfSeq DEF H
  <2>2. ReachedFrom(edges, total, root) \subseteq ToSet(q)
    BY <1>12, <1>14, <2>1, ReachedIsLeast
  <2> QED BY <1>12, <2>2
<1> QED BY <1>2, <1>12, <1>15 DEF q

-----------------------------------------------------------------------------
(* The caller's builder and what build made of it                          *)

BuilderType ==
    /\ builder = [nodes |-> builder.nodes, edges |-> builder.edges]
    /\ builder.nodes \in Seq(NodeData)
    /\ builder.edges \in Seq(EdgeBelow(Len(builder.nodes), EdgeData))

(* The invariant of StaticDag.                                             *)
DagInv ==
    /\ BuilderType
    /\ dag = [status |-> "none"] \/ dag \in DagsOf(builder)

(* Edges name nodes that are there, and stay valid as nodes are added;     *)
(* what build returned was made of the builder as it still is.             *)
THEOREM DagInvHolds == Spec => []DagInv
<1>1. Init => DagInv
  <2> SUFFICES ASSUME Init PROVE DagInv
    OBVIOUS
  <2>1. /\ builder = [nodes |-> <<>>, edges |-> <<>>]
        /\ dag = [status |-> "none"]
    BY DEF Init
  <2>2. builder.nodes = <<>> /\ builder.edges = <<>>
    BY <2>1
  <2>3. BuilderType
    BY <2>1, <2>2, EmptySeq DEF BuilderType
  <2> QED BY <2>1, <2>3 DEF DagInv
<1>2. ASSUME DagInv, [Next]_vars PROVE DagInv'
  <2>0. /\ builder = [nodes |-> builder.nodes, edges |-> builder.edges]
        /\ builder.nodes \in Seq(NodeData)
        /\ builder.edges \in Seq(EdgeBelow(Len(builder.nodes), EdgeData))
        /\ Len(builder.nodes) \in Nat
    BY <1>2, LenProperties DEF DagInv, BuilderType
  <2>1. ASSUME NEW data \in NodeData, AddNode(data) PROVE DagInv'
    <3> DEFINE N == builder.nodes
               E == builder.edges
    <3>1. builder' = [nodes |-> Append(N, data), edges |-> E]
          /\ dag' = [status |-> "none"]
      BY <2>0, <2>1 DEF AddNode
    <3>2. /\ N \in Seq(NodeData) /\ Len(N) \in Nat
          /\ E \in Seq(EdgeBelow(Len(N), EdgeData))
      BY <2>0
    <3>3. builder'.nodes = Append(N, data) /\ builder'.edges = E
      BY <3>1
    <3> HIDE DEF N, E
    <3>4. /\ Append(N, data) \in Seq(NodeData)
          /\ Len(Append(N, data)) = Len(N) + 1
      BY <3>2, AppendProperties
    <3>5. EdgeBelow(Len(N), EdgeData) \subseteq EdgeBelow(Len(N) + 1, EdgeData)
      BY <3>2 DEF EdgeBelow
    <3>6. E \in Seq(EdgeBelow(Len(N) + 1, EdgeData))
      <4> DEFINE A == EdgeBelow(Len(N), EdgeData)
                 B == EdgeBelow(Len(N) + 1, EdgeData)
      <4>1. E \in Seq(A) /\ A \subseteq B
        BY <3>2, <3>5
      <4> HIDE DEF A, B
      <4>2. E \in Seq(B)
        BY <4>1
      <4> QED BY <4>2 DEF B
    <3>7. BuilderType'
      BY <3>1, <3>3, <3>4, <3>6 DEF BuilderType
    <3> QED BY <3>1, <3>7 DEF DagInv
  <2>2. ASSUME NEW from \in HandlesOf(builder.nodes),
               NEW to \in HandlesOf(builder.nodes), NEW data \in EdgeData,
               AddEdge(from, to, data)
        PROVE  DagInv'
    <3> DEFINE N == builder.nodes
               E == builder.edges
               e == [from |-> from, to |-> to, data |-> data]
    <3>1. builder' = [nodes |-> N, edges |-> Append(E, e)]
          /\ dag' = [status |-> "none"]
      BY <2>0, <2>2 DEF AddEdge
    <3>2. /\ N \in Seq(NodeData)
          /\ E \in Seq(EdgeBelow(Len(N), EdgeData))
          /\ e \in EdgeBelow(Len(N), EdgeData)
      BY <2>0 DEF EdgeBelow, HandlesOf
    <3>3. builder'.nodes = N /\ builder'.edges = Append(E, e)
      BY <3>1
    <3> HIDE DEF N, E, e
    <3>4. Append(E, e) \in Seq(EdgeBelow(Len(N), EdgeData))
      BY <3>2, AppendProperties
    <3>5. BuilderType'
      BY <3>1, <3>2, <3>3, <3>4 DEF BuilderType
    <3> QED BY <3>1, <3>5 DEF DagInv
  <2>3. CASE BuildDag
    <3>1. builder' = builder /\ dag' \in DagsOf(builder')
      BY <2>3 DEF BuildDag
    <3>2. BuilderType'
      BY <2>0, <3>1 DEF BuilderType
    <3> QED BY <3>1, <3>2 DEF DagInv
  <2>4. CASE UNCHANGED vars
    <3>1. builder' = builder /\ dag' = dag
      BY <2>4 DEF vars
    <3>2. BuilderType' /\ DagsOf(builder)' = DagsOf(builder)
      BY <2>0, <3>1 DEF BuilderType
    <3> QED BY <1>2, <3>1, <3>2 DEF DagInv
  <2> QED BY <1>2, <2>1, <2>2, <2>3, <2>4 DEF Next
<1> QED BY <1>1, <1>2, PTL DEF Spec

(* What build returns: the parts of a graph, or no graph.                  *)
LEMMA DagParts ==
  ASSUME DagInv
  PROVE  LET topo == DagKahn(builder.edges, Len(builder.nodes))
         IN  /\ Built =>
                /\ dag.nodeData = builder.nodes /\ dag.topo = topo
                /\ topo = <<>> => builder.nodes = <<>>
                /\ dag.out \in Tables(builder, "from", "to")
                /\ dag.in \in Tables(builder, "to", "from")
             /\ dag.status = "nullopt" => topo = <<>> /\ builder.nodes # <<>>
<1> DEFINE topo == DagKahn(builder.edges, Len(builder.nodes))
<1>1. CASE dag = [status |-> "none"]
  BY <1>1 DEF Built
<1>2. CASE dag \in DagsOf(builder)
  <2>1. CASE ~ SizesFit(builder.nodes)
    <3>1. dag.status = "undefined"
      BY <1>2, <2>1 DEF DagsOf
    <3> QED BY <3>1 DEF Built
  <2>2. CASE SizesFit(builder.nodes) /\ topo = <<>> /\ builder.nodes # <<>>
    <3>1. dag.status = "nullopt"
      BY <1>2, <2>2 DEF DagsOf
    <3> QED BY <2>2, <3>1 DEF Built
  <2>3. CASE SizesFit(builder.nodes) /\ ~ (topo = <<>> /\ builder.nodes # <<>>)
    <3> DEFINE Out == Tables(builder, "from", "to")
               In == Tables(builder, "to", "from")
    <3>1. dag \in [status : {"built"}, nodeData : {builder.nodes},
                   topo : {topo}, out : Out, in : In]
      BY <1>2, <2>3 DEF DagsOf
    <3> HIDE DEF topo, Out, In
    <3>2. /\ dag.status = "built" /\ dag.nodeData = builder.nodes
          /\ dag.topo = topo /\ dag.out \in Out /\ dag.in \in In
      BY <3>1
    <3> QED BY <2>3, <3>2 DEF topo, Out, In
  <2> QED BY <2>1, <2>2, <2>3
<1> QED BY <1>1, <1>2 DEF DagInv

(* Both tables of a graph, row by row.                                     *)
LEMMA RowsBuilt ==
  ASSUME DagInv, Built, NEW p \in Handle
  PROVE  /\ \E at : RowLists(dag.out, builder.edges, p, "from", "to", at)
         /\ \E at : RowLists(dag.in, builder.edges, p, "to", "from", at)
<1> DEFINE total == Len(builder.nodes)
           edges == builder.edges
<1>1. /\ total \in Nat /\ edges \in Seq(EdgeBelow(total, EdgeData))
      /\ p \in 0 .. total - 1
  BY LenProperties DEF DagInv, BuilderType, Handle, HandlesOf
<1>2. /\ dag.out \in Tables(builder, "from", "to")
      /\ dag.in \in Tables(builder, "to", "from")
  BY DagParts
<1>3. PICK first \in SortedIndices(edges, "from") :
         dag.out = FillCsr(edges, total, first, "from", "to")
  BY <1>2 DEF Tables
<1>4. PICK second \in SortedIndices(edges, "to") :
         dag.in = FillCsr(edges, total, second, "to", "from")
  BY <1>2 DEF Tables
<1>5. IsEnd("from") /\ IsEnd("to")
  BY DEF IsEnd
<1> HIDE DEF total, edges
<1>6. \E at : RowLists(dag.out, edges, p, "from", "to", at)
  BY <1>1, <1>3, <1>5, RowOfNode
<1>7. \E at : RowLists(dag.in, edges, p, "to", "from", at)
  BY <1>1, <1>4, <1>5, RowOfNode
<1> QED BY <1>6, <1>7 DEF edges

(* What a row says of one other end and one payload: an entry per edge.    *)
RowTellsOf(t, edges, p, end, other, q, data) ==
    LET row == Span(t.offsets, t.neighbors, p)
        payloads == Span(t.offsets, t.data, p)
    IN  /\ InRow(row, payloads, q, data)
              = Cardinality({k \in DOMAIN edges :
                   /\ edges[k][end] = p
                   /\ edges[k][other] = q
                   /\ edges[k].data = data})
        /\ Contains(row, q) <=>
              \E k \in DOMAIN edges : edges[k][end] = p /\ edges[k][other] = q
        /\ t.offsets[p] = t.offsets[p + 1] =>
              \A k \in DOMAIN edges : edges[k][end] # p

RowTells(t, edges, p, end, other) ==
    \A q, data : RowTellsOf(t, edges, p, end, other, q, data)

(* The entries of a row are as many as the edges it lists.                 *)
LEMMA RowCounts ==
  ASSUME NEW total \in Nat, NEW D, NEW edges \in Seq(EdgeBelow(total, D)),
         NEW t, NEW p, NEW end, NEW other, NEW at,
         RowLists(t, edges, p, end, other, at)
  PROVE  RowTells(t, edges, p, end, other)
<1> SUFFICES ASSUME NEW q, NEW data
             PROVE  RowTellsOf(t, edges, p, end, other, q, data)
  BY Zenon DEF RowTells
<1> DEFINE row == Span(t.offsets, t.neighbors, p)
           payloads == Span(t.offsets, t.data, p)
           n == Len(row)
           A == {i \in DOMAIN row : row[i] = q /\ payloads[i] = data}
           B == {k \in DOMAIN edges : /\ edges[k][end] = p
                                      /\ edges[k][other] = q
                                      /\ edges[k].data = data}
           f == [i \in A |-> at[i]]
<1>1. /\ n \in Nat /\ DOMAIN row = 1 .. n
      /\ at \in [1 .. n -> DOMAIN edges]
      /\ \A i, j \in 1 .. n : at[i] = at[j] => i = j
      /\ \A i \in 1 .. n : /\ edges[at[i]][end] = p
                           /\ row[i] = edges[at[i]][other]
                           /\ payloads[i] = edges[at[i]].data
      /\ \A k \in DOMAIN edges :
            edges[k][end] = p => \E i \in 1 .. n : at[i] = k
      /\ t.offsets[p] = t.offsets[p + 1] <=> n = 0
  BY DEF RowLists
<1> HIDE DEF row, payloads, n
<1>2. A \in SUBSET (1 .. n)
  BY <1>1
<1>3. IsFiniteSet(A)
  <2> HIDE DEF A
  <2> QED BY <1>1, <1>2, PositionsFinite
<1>4. f \in [A -> B]
  BY <1>1
<1>5. \A i, j \in A : f[i] = f[j] => i = j
  BY <1>1
<1>6. ASSUME NEW k \in B PROVE \E i \in A : f[i] = k
  <2>1. PICK i \in 1 .. n : at[i] = k
    BY <1>1
  <2>2. i \in A
    BY <1>1, <2>1
  <2> QED BY <2>1, <2>2
<1> HIDE DEF A, B, f
<1>7. f \in Bijection(A, B)
  BY <1>4, <1>5, <1>6 DEF Bijection, Injection, Surjection, IsInjective
<1>8. Cardinality(B) = Cardinality(A)
  <2>1. ExistsBijection(A, B)
    BY <1>7 DEF ExistsBijection
  <2> QED BY <1>3, <2>1, FS_Bijection
<1>9. InRow(row, payloads, q, data) = Cardinality(A)
  BY DEF InRow, A
<1>10. Contains(row, q) <=>
          \E k \in DOMAIN edges : edges[k][end] = p /\ edges[k][other] = q
  <2>1. Contains(row, q) <=> \E i \in 1 .. n : row[i] = q
    BY DEF Contains, n
  <2>2. ASSUME NEW i \in 1 .. n, row[i] = q
        PROVE  \E k \in DOMAIN edges : edges[k][end] = p /\ edges[k][other] = q
    <3>1. at[i] \in DOMAIN edges
      BY <1>1
    <3> QED BY <1>1, <2>2, <3>1
  <2>3. ASSUME NEW k \in DOMAIN edges, edges[k][end] = p, edges[k][other] = q
        PROVE  \E i \in 1 .. n : row[i] = q
    <3>1. PICK i \in 1 .. n : at[i] = k
      BY <1>1, <2>3
    <3>2. row[i] = q
      BY <1>1, <2>3, <3>1
    <3> QED BY <3>2
  <2> QED BY <2>1, <2>2, <2>3
<1>11. ASSUME t.offsets[p] = t.offsets[p + 1], NEW k \in DOMAIN edges
       PROVE  edges[k][end] # p
  <2>1. \A i \in 1 .. n : FALSE
    BY <1>1, <1>11
  <2> QED BY <1>1, <2>1
<1> QED BY <1>8, <1>9, <1>10, <1>11 DEF RowTellsOf, row, payloads, B

(* Both tables hold every edge as often as it was added, whatever order    *)
(* the two sorts leave among the edges of one node.                        *)
THEOREM TablesAgree == Spec => []TablesHoldTheEdges
<1>1. ASSUME DagInv PROVE TablesHoldTheEdges
  <2> SUFFICES ASSUME Built, NEW from \in Handle, NEW to \in Handle
               PROVE
                 /\ \A data \in EdgeData :
                      /\ InRow(DagChildren(dag, from),
                               OutgoingEdgeData(dag, from), to, data)
                            = EdgesBetween(from, to, data)
                      /\ InRow(DagParents(dag, to),
                               IncomingEdgeData(dag, to), from, data)
                            = EdgesBetween(from, to, data)
                 /\ HasEdge(dag, from, to) <=> Contains(DagParents(dag, to), from)
                 /\ IsRoot(dag, to) => ~HasEdge(dag, from, to)
                 /\ IsLeaf(dag, from) => ~HasEdge(dag, from, to)
    BY DEF TablesHoldTheEdges
  <2> DEFINE total == Len(builder.nodes)
             edges == builder.edges
             row == DagChildren(dag, from)
             rowData == OutgoingEdgeData(dag, from)
             col == DagParents(dag, to)
             colData == IncomingEdgeData(dag, to)
             between(data) == {k \in DOMAIN edges :
                                 edges[k] = [from |-> from, to |-> to, data |-> data]}
             links == \E k \in DOMAIN edges :
                         edges[k].from = from /\ edges[k].to = to
  <2>1. /\ total \in Nat /\ edges \in Seq(EdgeBelow(total, EdgeData))
    BY <1>1, LenProperties DEF DagInv, BuilderType
  <2>2. /\ row = Span(dag.out.offsets, dag.out.neighbors, from)
        /\ rowData = Span(dag.out.offsets, dag.out.data, from)
        /\ col = Span(dag.in.offsets, dag.in.neighbors, to)
        /\ colData = Span(dag.in.offsets, dag.in.data, to)
    BY DEF DagChildren, OutgoingEdgeData, DagParents, IncomingEdgeData
  <2>3. PICK at : RowLists(dag.out, edges, from, "from", "to", at)
    BY <1>1, RowsBuilt
  <2>4. PICK from_at : RowLists(dag.in, edges, to, "to", "from", from_at)
    BY <1>1, RowsBuilt
  <2>5. \A k \in DOMAIN edges : edges[k] \in EdgeBelow(total, EdgeData)
    BY <2>1, LenProperties, ElementOfSeq
  <2> HIDE DEF total, edges, row, rowData, col, colData
  <2>6. /\ RowTells(dag.out, edges, from, "from", "to")
        /\ RowTells(dag.in, edges, to, "to", "from")
    <3> DEFINE f == "from"
               g == "to"
    <3>1. RowLists(dag.out, edges, from, f, g, at)
          /\ RowLists(dag.in, edges, to, g, f, from_at)
      BY <2>3, <2>4
    <3> HIDE DEF f, g
    <3>2. RowTells(dag.out, edges, from, f, g) /\ RowTells(dag.in, edges, to, g, f)
      BY <2>1, <3>1, RowCounts
    <3> QED BY <3>2 DEF f, g
  <2>7. ASSUME NEW data
        PROVE  /\ RowTellsOf(dag.out, edges, from, "from", "to", to, data)
               /\ RowTellsOf(dag.in, edges, to, "to", "from", from, data)
    BY <2>6, Zenon DEF RowTells
  <2>8. ASSUME NEW data
        PROVE  /\ InRow(row, rowData, to, data)
                     = Cardinality({k \in DOMAIN edges :
                          /\ edges[k]["from"] = from
                          /\ edges[k]["to"] = to
                          /\ edges[k].data = data})
               /\ Contains(row, to) <=>
                     \E k \in DOMAIN edges :
                        edges[k]["from"] = from /\ edges[k]["to"] = to
               /\ dag.out.offsets[from] = dag.out.offsets[from + 1] =>
                     \A k \in DOMAIN edges : edges[k]["from"] # from
    <3>1. RowTellsOf(dag.out, edges, from, "from", "to", to, data)
      BY <2>7
    <3> QED BY <2>2, <3>1, Zenon DEF RowTellsOf
  <2>9. ASSUME NEW data
        PROVE  /\ InRow(col, colData, from, data)
                     = Cardinality({k \in DOMAIN edges :
                          /\ edges[k]["to"] = to
                          /\ edges[k]["from"] = from
                          /\ edges[k].data = data})
               /\ Contains(col, from) <=>
                     \E k \in DOMAIN edges :
                        edges[k]["to"] = to /\ edges[k]["from"] = from
               /\ dag.in.offsets[to] = dag.in.offsets[to + 1] =>
                     \A k \in DOMAIN edges : edges[k]["to"] # to
    <3>1. RowTellsOf(dag.in, edges, to, "to", "from", from, data)
      BY <2>7
    <3> QED BY <2>2, <3>1, Zenon DEF RowTellsOf
  <2>10. ASSUME NEW data
         PROVE  /\ {k \in DOMAIN edges :
                       /\ edges[k]["from"] = from /\ edges[k]["to"] = to
                       /\ edges[k].data = data} = between(data)
                /\ {k \in DOMAIN edges :
                       /\ edges[k]["to"] = to /\ edges[k]["from"] = from
                       /\ edges[k].data = data} = between(data)
    <3>1. ASSUME NEW k \in DOMAIN edges
          PROVE  edges[k] = [from |-> from, to |-> to, data |-> data]
                    <=> /\ edges[k]["from"] = from
                        /\ edges[k]["to"] = to
                        /\ edges[k].data = data
      <4>1. edges[k] \in [from : 0 .. total - 1, to : 0 .. total - 1,
                          data : EdgeData]
        BY <2>5 DEF EdgeBelow
      <4> QED BY <4>1
    <3> QED BY <3>1
  <2>11. \A data : EdgesBetween(from, to, data) = Cardinality(between(data))
    BY DEF EdgesBetween, edges
  <2> HIDE DEF between
  <2>12. ASSUME NEW data \in EdgeData
         PROVE  /\ InRow(row, rowData, to, data) = EdgesBetween(from, to, data)
                /\ InRow(col, colData, from, data) = EdgesBetween(from, to, data)
    BY <2>8, <2>9, <2>10, <2>11
  <2>13. /\ HasEdge(dag, from, to) <=> Contains(row, to)
         /\ IsRoot(dag, to) <=> dag.in.offsets[to] = dag.in.offsets[to + 1]
         /\ IsLeaf(dag, from) <=> dag.out.offsets[from] = dag.out.offsets[from + 1]
    BY DEF HasEdge, IsRoot, IsLeaf, row
  <2>14. /\ HasEdge(dag, from, to) <=> Contains(col, from)
         /\ IsRoot(dag, to) => ~HasEdge(dag, from, to)
         /\ IsLeaf(dag, from) => ~HasEdge(dag, from, to)
    BY <2>8, <2>9, <2>13
  <2> QED BY <2>12, <2>14 DEF row, rowData, col, colData
<1> QED BY <1>1, DagInvHolds, PTL

(* build gives up exactly on a cycle, and orders parents first otherwise.  *)
THEOREM DagOrderIsSound == Spec => []DagOrderRespectsEdges
<1>1. ASSUME DagInv PROVE DagOrderRespectsEdges
  <2> DEFINE total == Len(builder.nodes)
             edges == builder.edges
             topo == DagKahn(edges, total)
             H == 0 .. total - 1
  <2>1. /\ total \in Nat /\ edges \in Seq(EdgeBelow(total, EdgeData))
        /\ Handle = H
        /\ builder.nodes = <<>> <=> total = 0
    <3>1. builder.nodes \in Seq(NodeData)
      BY <1>1 DEF DagInv, BuilderType
    <3>2. builder.nodes = <<>> <=> total = 0
      BY <3>1, EmptySeq
    <3> QED BY <1>1, <3>1, <3>2, LenProperties
            DEF DagInv, BuilderType, Handle, HandlesOf
  <2>2. /\ Built => /\ dag.topo = topo
                    /\ topo = <<>> => builder.nodes = <<>>
        /\ dag.status = "nullopt" => topo = <<>> /\ builder.nodes # <<>>
    BY <1>1, DagParts
  <2>3. /\ topo \in Seq(H) /\ IsInjective(topo) /\ ParentsAhead(edges, topo)
        /\ topo # <<>> => Len(topo) = total /\ ToSet(topo) = H
        /\ topo = <<>> /\ total > 0 =>
              \E S \in SUBSET H : S # {} /\ ClosedUnderEdges(edges, S)
    BY <2>1, DagKahnSorts
  <2>4. HasCycle <=> \E S \in SUBSET H : S # {} /\ ClosedUnderEdges(edges, S)
    BY <2>1 DEF HasCycle, ClosedUnderEdges
  <2> HIDE DEF topo, total, edges
  <2>5. dag.status = "nullopt" => HasCycle
    BY <2>1, <2>2, <2>3, <2>4
  <2>6. ASSUME Built
        PROVE  /\ ~HasCycle
               /\ Len(dag.topo) = total
               /\ ToSet(dag.topo) = Handle
               /\ \A k \in DOMAIN edges :
                     Before(dag.topo, edges[k].from, edges[k].to)
    <3>1. dag.topo = topo /\ Len(topo) = total /\ ToSet(topo) = H
      <4>1. CASE topo # <<>>
        BY <2>2, <2>3, <2>6, <4>1
      <4>2. CASE topo = <<>>
        <5>1. total = 0
          BY <2>1, <2>2, <2>6, <4>2
        <5>2. Len(topo) = 0 /\ ToSet(topo) = {}
          BY <4>2 DEF ToSet
        <5>3. H = {}
          BY <5>1
        <5> QED BY <2>2, <2>6, <5>1, <5>2, <5>3
      <4> QED BY <4>1, <4>2
    <3>2. ~HasCycle
      BY <2>1, <2>3, <2>4, <3>1, OrderHasNoCycle
    <3>3. ASSUME NEW k \in DOMAIN edges
          PROVE  Before(topo, edges[k].from, edges[k].to)
      <4>1. edges[k].to \in H
        BY <2>1, FromsAreKeys
      <4>2. PICK j \in DOMAIN topo : topo[j] = edges[k].to
        BY <3>1, <4>1 DEF ToSet
      <4>3. PICK i \in DOMAIN topo : i < j /\ topo[i] = edges[k].from
        BY <2>3, <4>2 DEF ParentsAhead
      <4> QED BY <4>2, <4>3 DEF Before
    <3> QED BY <2>1, <3>1, <3>2, <3>3
  <2> QED BY <2>5, <2>6 DEF DagOrderRespectsEdges, total, edges
<1> QED BY <1>1, DagInvHolds, PTL

(* What the traversals are given: the rows of the built out table.         *)
LEMMA BuiltRowsLead ==
  ASSUME DagInv, Built
  PROVE  RowsLead(dag, builder.edges, Len(builder.nodes))
<1> DEFINE total == Len(builder.nodes)
           edges == builder.edges
           H == 0 .. total - 1
<1>1. /\ total \in Nat /\ edges \in Seq(EdgeBelow(total, EdgeData))
      /\ Handle = H
  BY LenProperties DEF DagInv, BuilderType, Handle, HandlesOf
<1>2. /\ Len(edges) \in Nat /\ DOMAIN edges = 1 .. Len(edges)
      /\ \A k \in DOMAIN edges : edges[k].to \in H
  BY <1>1, FromsAreKeys
<1>3. dag.nodeData = builder.nodes /\ dag.out \in Tables(builder, "from", "to")
  BY DagParts
<1>4. Len(dag.out.neighbors) = Len(edges)
  <2>1. PICK order \in SortedIndices(edges, "from") :
           dag.out = FillCsr(edges, total, order, "from", "to")
    BY <1>3 DEF Tables
  <2>2. IsEnd("from")
    BY DEF IsEnd
  <2> DEFINE f == "from"
             g == "to"
  <2>3. /\ IsEnd(f) /\ order \in SortedIndices(edges, f)
        /\ dag.out = FillCsr(edges, total, order, f, g)
    BY <2>1, <2>2
  <2> HIDE DEF total, edges, f, g
  <2> QED BY <1>1, <2>3, FilledLength
<1>5. ASSUME NEW n \in H
      PROVE  /\ DagChildren(dag, n) \in Seq(H)
             /\ ToSet(DagChildren(dag, n)) = {edges[k].to : k \in OutOf(edges, n)}
             /\ Len(DagChildren(dag, n)) = Cardinality(OutOf(edges, n))
  <2> DEFINE row == DagChildren(dag, n)
             size == Len(row)
             Out == OutOf(edges, n)
  <2>1. PICK at : RowLists(dag.out, edges, n, "from", "to", at)
    BY <1>1, RowsBuilt
  <2>2. row = Span(dag.out.offsets, dag.out.neighbors, n)
    BY DEF DagChildren
  <2> HIDE DEF row
  <2>3. /\ size \in Nat /\ DOMAIN row = 1 .. size
        /\ row = [i \in 1 .. size |-> row[i]]
        /\ at \in [1 .. size -> DOMAIN edges]
        /\ \A i, j \in 1 .. size : at[i] = at[j] => i = j
        /\ \A i \in 1 .. size : /\ edges[at[i]]["from"] = n
                                /\ row[i] = edges[at[i]]["to"]
        /\ \A k \in DOMAIN edges :
              edges[k]["from"] = n => \E i \in 1 .. size : at[i] = k
    BY <2>1, <2>2 DEF RowLists
  <2>4. \A k \in DOMAIN edges : k \in Out <=> edges[k]["from"] = n
    BY DEF OutOf
  <2>5. \A k \in DOMAIN edges : edges[k]["to"] \in H
    BY <1>2
  <2>6. Out \subseteq DOMAIN edges
    BY DEF OutOf
  <2> HIDE DEF size, Out, edges
  <2>7. \A i \in 1 .. size : at[i] \in Out /\ row[i] \in H
                             /\ row[i] = edges[at[i]].to
    <3> SUFFICES ASSUME NEW i \in 1 .. size
                 PROVE  at[i] \in Out /\ row[i] \in H /\ row[i] = edges[at[i]].to
      OBVIOUS
    <3>1. at[i] \in DOMAIN edges
      BY <2>3
    <3> QED BY <2>3, <2>4, <2>5, <3>1
  <2>8. \A k \in Out : \E i \in 1 .. size : at[i] = k
    BY <2>3, <2>4, <2>6
  <2>9. row \in Seq(H)
    BY <2>3, <2>7
  <2>10. ToSet(row) = {edges[k].to : k \in Out}
    BY <2>3, <2>7, <2>8 DEF ToSet
  <2>11. size = Cardinality(Out)
    <3>1. at \in [1 .. size -> Out]
      BY <2>3, <2>7
    <3>2. at \in Bijection(1 .. size, Out)
      BY <2>3, <2>8, <3>1 DEF Bijection, Injection, Surjection, IsInjective
    <3>3. ExistsBijection(1 .. size, Out)
      BY <3>2 DEF ExistsBijection
    <3>4. IsFiniteSet(1 .. size) /\ Cardinality(1 .. size) = size
      BY <2>3, PositionsCounted
    <3> QED BY <3>3, <3>4, FS_Bijection
  <2> QED BY <2>9, <2>10, <2>11 DEF row, size, Out
<1> QED BY <1>3, <1>4, <1>5 DEF RowsLead

(* Both traversals visit what is reachable from the root, each node once.  *)
THEOREM DagTraversalsVisitOnce == Spec => []TraversalsVisitOnce
<1>1. ASSUME DagInv PROVE TraversalsVisitOnce
  <2> SUFFICES ASSUME Built, NEW root \in Handle,
                      NEW order \in {DepthFirst(dag, root), BreadthFirst(dag, root)}
               PROVE  IsInjective(order) /\ ToSet(order) = Reachable(root)
    BY DEF TraversalsVisitOnce
  <2> DEFINE total == Len(builder.nodes)
             edges == builder.edges
  <2>1. /\ total \in Nat /\ edges \in Seq(EdgeBelow(total, EdgeData))
        /\ Handle = 0 .. total - 1
    BY <1>1, LenProperties DEF DagInv, BuilderType, Handle, HandlesOf
  <2>2. Reachable(root) = ReachedFrom(edges, total, root)
    BY <2>1 DEF Reachable, ReachedFrom, LeadsOut
  <2>3. RowsLead(dag, edges, total)
    BY <1>1, BuiltRowsLead
  <2> HIDE DEF total, edges
  <2>4. \A o \in {DepthFirst(dag, root), BreadthFirst(dag, root)} :
           IsInjective(o) /\ ToSet(o) = ReachedFrom(edges, total, root)
    BY <2>1, <2>3, DepthFirstVisits, BreadthFirstVisits
  <2> QED BY <2>2, <2>4
<1> QED BY <1>1, DagInvHolds, PTL

=============================================================================
