---------------------------- MODULE BuildLemmas ----------------------------
(***************************************************************************)
(* What build computes: the grouping of the edges by their parent and the  *)
(* order of Kahn's algorithm.                                              *)
(***************************************************************************)
EXTENDS BuiltForests, SequenceLemmas

EdgeBelow(total, D) ==
    [from : 0 .. total - 1, to : 0 .. total - 1, data : D]

-----------------------------------------------------------------------------
(* Grouping by parent *)

FromOf(edges) == [k \in DOMAIN edges |-> edges[k].from]

(* The parents of a list of edges are integers, one for each position.     *)
LEMMA FromsAreKeys ==
  ASSUME NEW total \in Nat, NEW D, NEW edges \in Seq(EdgeBelow(total, D))
  PROVE  /\ Len(edges) \in Nat
         /\ DOMAIN edges = 1 .. Len(edges)
         /\ \A k \in 1 .. Len(edges) :
               /\ edges[k] \in EdgeBelow(total, D)
               /\ edges[k].from \in 0 .. total - 1
               /\ edges[k].to \in 0 .. total - 1
               /\ FromOf(edges)[k] = edges[k].from
         /\ FromOf(edges) \in [1 .. Len(edges) -> Int]
<1>1. Len(edges) \in Nat /\ DOMAIN edges = 1 .. Len(edges)
  BY LenProperties
<1>2. \A k \in 1 .. Len(edges) : edges[k] \in EdgeBelow(total, D)
  BY ElementOfSeq
<1>3. \A k \in 1 .. Len(edges) :
         edges[k].from \in 0 .. total - 1 /\ edges[k].to \in 0 .. total - 1
  BY <1>2 DEF EdgeBelow
<1> QED BY <1>1, <1>2, <1>3 DEF FromOf

(* A subset of the positions is finite and has a number of members.        *)
LEMMA PositionsFinite ==
  ASSUME NEW n \in Nat, NEW T \in SUBSET (1 .. n)
  PROVE  IsFiniteSet(T) /\ Cardinality(T) \in Nat
<1>1. IsFiniteSet(1 .. n)
  BY PositionsCounted
<1> QED BY <1>1, FS_Subset, FS_CardinalityType

(* The cursor of a parent gives each edge its place in the stable sort by  *)
(* parent.                                                                 *)
LEMMA CursorIsPlace ==
  ASSUME NEW total \in Nat, NEW D, NEW edges \in Seq(EdgeBelow(total, D)),
         NEW k \in 1 .. Len(edges)
  PROVE  CursorPosition(edges, total, k) = Place(FromOf(edges), k)
<1> DEFINE key == FromOf(edges)
           smaller == {j \in DOMAIN edges : edges[j].from < edges[k].from}
           before == {j \in 1 .. k - 1 : edges[j].from = edges[k].from}
<1>1. /\ Len(edges) \in Nat
      /\ DOMAIN edges = 1 .. Len(edges)
      /\ edges[k].from \in 0 .. total
      /\ \A j \in 1 .. Len(edges) : key[j] = edges[j].from /\ key[j] \in Int
      /\ DOMAIN key = 1 .. Len(edges)
  BY FromsAreKeys
<1> HIDE DEF key
<1>2. Lower(key, k) = smaller \cup before /\ smaller \cap before = {}
  BY <1>1 DEF Lower
<1>3. /\ IsFiniteSet(smaller) /\ Cardinality(smaller) \in Nat
      /\ IsFiniteSet(before) /\ Cardinality(before) \in Nat
  <2>1. smaller \in SUBSET (1 .. Len(edges))
        /\ before \in SUBSET (1 .. Len(edges))
    BY <1>1
  <2> HIDE DEF smaller, before
  <2> QED BY <1>1, <2>1, PositionsFinite
<1>4. Cardinality(smaller \cup before)
         = Cardinality(smaller) + Cardinality(before)
  <2>1. Cardinality(smaller \cap before) = 0
    BY <1>2, FS_EmptySet, Zenon
  <2> HIDE DEF smaller, before
  <2>2. Cardinality(smaller \cup before) = Cardinality(smaller)
           + Cardinality(before) - Cardinality(smaller \cap before)
    BY <1>3, FS_Union
  <2> QED BY <1>3, <2>1, <2>2
<1>5. Offsets(edges, total)[edges[k].from] = Cardinality(smaller)
  BY <1>1 DEF Offsets
<1>6. CursorPosition(edges, total, k)
         = Cardinality(smaller) + Cardinality(before) + 1
  BY <1>5 DEF CursorPosition
<1> QED BY <1>2, <1>4, <1>6 DEF Place, key

(* source[s] is where the edge that build places at s came from.           *)
PlacedFrom(edges, total, source) ==
    /\ source \in [1 .. Len(edges) -> 1 .. Len(edges)]
    /\ \A s \in 1 .. Len(edges) :
          /\ EdgeAt(edges, total)[s] = edges[source[s]]
          /\ Place(FromOf(edges), source[s]) = s
    /\ \A k \in 1 .. Len(edges) : source[Place(FromOf(edges), k)] = k

(* The grouped edges are a permutation of the edges.                       *)
LEMMA EdgesGrouped ==
  ASSUME NEW total \in Nat, NEW D, NEW edges \in Seq(EdgeBelow(total, D))
  PROVE  /\ EdgeAt(edges, total) \in Seq(EdgeBelow(total, D))
         /\ Len(EdgeAt(edges, total)) = Len(edges)
         /\ \E source : PlacedFrom(edges, total, source)
<1> DEFINE n == Len(edges)
           key == FromOf(edges)
           source == [s \in 1 .. n |-> CHOOSE k \in 1 .. n : Place(key, k) = s]
           placed == EdgeAt(edges, total)
<1>1. /\ n \in Nat
      /\ DOMAIN edges = 1 .. n
      /\ key \in [1 .. n -> Int]
      /\ \A k \in 1 .. n : edges[k] \in EdgeBelow(total, D)
  BY FromsAreKeys
<1>2. \A k \in 1 .. n : CursorPosition(edges, total, k) = Place(key, k)
  BY CursorIsPlace
<1> HIDE DEF n, key
<1>3. /\ \A k \in 1 .. n : Place(key, k) \in 1 .. n
      /\ \A j, k \in 1 .. n : Place(key, j) = Place(key, k) => j = k
      /\ \A s \in 1 .. n : \E k \in 1 .. n : Place(key, k) = s
  BY <1>1, PlacesPermute
<1>4. \A s \in 1 .. n : source[s] \in 1 .. n /\ Place(key, source[s]) = s
  BY <1>3
<1>5. placed = [s \in 1 .. n |-> edges[CHOOSE k \in 1 .. n :
                                  CursorPosition(edges, total, k) = s]]
  BY <1>1 DEF EdgeAt
<1>6. \A s \in 1 .. n : placed[s] = edges[source[s]]
  <2> TAKE s \in 1 .. n
  <2>1. (CHOOSE k \in 1 .. n : CursorPosition(edges, total, k) = s)
           = (CHOOSE k \in 1 .. n : Place(key, k) = s)
    BY <1>2
  <2> QED BY <1>5, <2>1
<1> HIDE DEF source, placed
<1>7. \A k \in 1 .. n : source[Place(key, k)] = k
  <2> TAKE k \in 1 .. n
  <2>1. Place(key, k) \in 1 .. n
    BY <1>3
  <2>2. /\ source[Place(key, k)] \in 1 .. n
        /\ Place(key, source[Place(key, k)]) = Place(key, k)
    BY <1>4, <2>1, Zenon
  <2> QED BY <1>3, <2>2, Zenon
<1>8. placed \in Seq(EdgeBelow(total, D)) /\ Len(placed) = n
  <2>1. \A s \in 1 .. n : placed[s] \in EdgeBelow(total, D)
    BY <1>1, <1>4, <1>6
  <2>2. DOMAIN placed = 1 .. n /\ placed = [s \in 1 .. n |-> placed[s]]
    BY <1>5
  <2>3. placed \in [1 .. n -> EdgeBelow(total, D)]
    BY <2>1, <2>2
  <2> QED BY <1>1, <2>3
<1>9. source \in [1 .. n -> 1 .. n]
  BY <1>4 DEF source
<1>10. PlacedFrom(edges, total, source)
  BY <1>4, <1>6, <1>7, <1>9 DEF PlacedFrom, n, key, placed
<1> QED BY <1>8, <1>10 DEF n, placed

(* What build places once is sorted by parent, and the cursor of a sorted  *)
(* list counts its positions.                                              *)
LEMMA GroupedIsSorted ==
  ASSUME NEW total \in Nat, NEW D, NEW edges \in Seq(EdgeBelow(total, D))
  PROVE  LET sorted == EdgeAt(edges, total)
         IN  /\ \A s, t \in 1 .. Len(edges) :
                   s < t => sorted[s].from <= sorted[t].from
             /\ \A k \in 1 .. Len(edges) : CursorPosition(sorted, total, k) = k
<1> DEFINE n == Len(edges)
           key == FromOf(edges)
           sorted == EdgeAt(edges, total)
<1>1. /\ n \in Nat
      /\ key \in [1 .. n -> Int]
      /\ \A k \in 1 .. n : key[k] = edges[k].from
  BY FromsAreKeys
<1>2. PICK source : PlacedFrom(edges, total, source)
  BY EdgesGrouped
<1>3. sorted \in Seq(EdgeBelow(total, D)) /\ Len(sorted) = n
  BY EdgesGrouped
<1>4. /\ source \in [1 .. n -> 1 .. n]
      /\ \A s \in 1 .. n : sorted[s] = edges[source[s]]
                           /\ Place(key, source[s]) = s
  BY <1>2 DEF PlacedFrom
<1> HIDE DEF n, key, sorted
<1>5. ASSUME NEW s \in 1 .. n, NEW t \in 1 .. n, s < t
      PROVE  sorted[s].from <= sorted[t].from
  <2>1. /\ Place(key, source[s]) < Place(key, source[t])
        /\ Place(key, source[s]) = s /\ Place(key, source[t]) = t
    BY <1>4, <1>5
  <2>2. key[source[t]] < key[source[s]]
           => Place(key, source[t]) < Place(key, source[s])
    BY <1>1, <1>4, PlacesPermute
  <2>3. key[source[s]] \in Int /\ key[source[t]] \in Int
    BY <1>1, <1>4
  <2>4. sorted[s].from = key[source[s]] /\ sorted[t].from = key[source[t]]
    BY <1>1, <1>4
  <2> QED BY <2>1, <2>2, <2>3, <2>4
<1>6. ASSUME NEW k \in 1 .. n PROVE CursorPosition(sorted, total, k) = k
  <2>1. /\ FromOf(sorted) \in [1 .. n -> Int]
        /\ \A s \in 1 .. n : FromOf(sorted)[s] = sorted[s].from
    BY <1>3, FromsAreKeys
  <2>2. Place(FromOf(sorted), k) = k
    BY <1>1, <1>5, <2>1, PlaceOfSorted
  <2> QED BY <1>3, <2>2, CursorIsPlace
<1> QED BY <1>5, <1>6 DEF n, sorted

(* How many edges start at a node before p.                                *)
LEMMA OffsetsCount ==
  ASSUME NEW total \in Nat, NEW D, NEW edges \in Seq(EdgeBelow(total, D)),
         NEW p \in 0 .. total
  PROVE  LET below == {k \in 1 .. Len(edges) : edges[k].from < p}
         IN  /\ Offsets(edges, total)[p] = Cardinality(below)
             /\ IsFiniteSet(below)
             /\ Cardinality(below) \in 0 .. Len(edges)
<1> DEFINE below == {k \in 1 .. Len(edges) : edges[k].from < p}
<1>1. Len(edges) \in Nat /\ DOMAIN edges = 1 .. Len(edges)
  BY LenProperties
<1>2. Offsets(edges, total)[p] = Cardinality(below)
  BY <1>1 DEF Offsets
<1>3. IsFiniteSet(1 .. Len(edges)) /\ Cardinality(1 .. Len(edges)) = Len(edges)
  <2>1. \A m \in Nat : IsFiniteSet(1 .. m) /\ Cardinality(1 .. m) = m
    BY PositionsCounted
  <2> HIDE DEF below
  <2> QED BY <1>1, <2>1
<1>4. below \in SUBSET (1 .. Len(edges))
  OBVIOUS
<1> HIDE DEF below
<1>5. IsFiniteSet(below) /\ Cardinality(below) <= Len(edges)
  BY <1>3, <1>4, FS_Subset
<1>6. Cardinality(below) \in Nat
  BY <1>5, FS_CardinalityType
<1> QED BY <1>1, <1>2, <1>5, <1>6 DEF below

(* The row of a parent, offsets[p] .. offsets[p + 1], holds exactly the    *)
(* edges that start at it.                                                 *)
LEMMA RowOfParent ==
  ASSUME NEW total \in Nat, NEW D, NEW edges \in Seq(EdgeBelow(total, D)),
         NEW p \in 0 .. total - 1
  PROVE  LET offsets == Offsets(edges, total)
         IN  /\ offsets[p] \in 0 .. Len(edges)
             /\ offsets[p + 1] \in offsets[p] .. Len(edges)
             /\ \A s \in 1 .. Len(edges) :
                   EdgeAt(edges, total)[s].from = p
                      <=> s \in offsets[p] + 1 .. offsets[p + 1]
<1> DEFINE n == Len(edges)
           key == FromOf(edges)
           offsets == Offsets(edges, total)
           placed == EdgeAt(edges, total)
           Below(q) == {k \in 1 .. n : edges[k].from < q}
<1>1. /\ n \in Nat
      /\ key \in [1 .. n -> Int]
      /\ \A k \in 1 .. n : key[k] = edges[k].from /\ key[k] \in Int
      /\ DOMAIN key = 1 .. n
  BY FromsAreKeys
<1>2. \A q \in 0 .. total : /\ offsets[q] = Cardinality(Below(q))
                            /\ IsFiniteSet(Below(q))
                            /\ Cardinality(Below(q)) \in 0 .. n
  BY OffsetsCount
<1>3. /\ p \in 0 .. total /\ p + 1 \in 0 .. total
      /\ offsets[p] \in 0 .. n /\ offsets[p + 1] \in 0 .. n
  <2>1. p \in 0 .. total /\ p + 1 \in 0 .. total
    OBVIOUS
  <2> HIDE DEF n, offsets, Below
  <2> QED BY <1>2, <2>1
<1>4. PICK source : PlacedFrom(edges, total, source)
  BY EdgesGrouped
<1>5. \A s \in 1 .. n : /\ source[s] \in 1 .. n
                        /\ placed[s] = edges[source[s]]
                        /\ Place(key, source[s]) = s
  BY <1>4 DEF PlacedFrom
<1> HIDE DEF n, key, offsets, placed
<1>6. offsets[p] <= offsets[p + 1]
  <2>1. Below(p) \subseteq Below(p + 1)
    BY <1>1
  <2> HIDE DEF Below
  <2>2. Cardinality(Below(p)) <= Cardinality(Below(p + 1))
    BY <1>2, <1>3, <2>1, FS_Subset
  <2> QED BY <1>2, <1>3, <2>2
<1>7. ASSUME NEW s \in 1 .. n
      PROVE  placed[s].from = p <=> s \in offsets[p] + 1 .. offsets[p + 1]
  <2> DEFINE k == source[s]
             from == key[k]
             lower == Lower(key, k)
  <2>1. /\ k \in 1 .. n
        /\ from \in Int
        /\ placed[s].from = from
        /\ s = Cardinality(lower) + 1
    BY <1>1, <1>5 DEF Place
  <2>2. /\ lower \subseteq (1 .. n) \ {k}
        /\ IsFiniteSet(lower)
        /\ Cardinality(lower) \in Nat
    <3> HIDE DEF k
    <3>1. /\ lower \subseteq (1 .. n) \ {k}
          /\ IsFiniteSet(lower)
          /\ Cardinality(lower) \in 0 .. n - 1
      BY <1>1, <2>1, LowerIsFinite
    <3> HIDE DEF lower
    <3> QED BY <1>1, <3>1
  <2>3. /\ IsFiniteSet(lower \cup {k})
        /\ Cardinality(lower \cup {k}) = s
    <3> HIDE DEF lower, k
    <3>1. k \notin lower
      BY <2>2
    <3> QED BY <2>1, <2>2, <3>1, FS_AddElement
  <2>4. \A j \in 1 .. n : j \in lower <=>
           edges[j].from < from \/ (edges[j].from = from /\ j < k)
    BY <1>1, <2>1 DEF Lower
  <2>5. edges[k].from = from
    BY <1>1, <2>1
  <2> HIDE DEF k, from, lower
  <2>6. ASSUME NEW q \in 0 .. total, from < q PROVE s <= offsets[q]
    <3>1. lower \cup {k} \subseteq Below(q)
      <4>1. q \in Int /\ \A j \in 1 .. n : edges[j].from \in Int
        BY <1>1
      <4>2. ASSUME NEW j \in lower PROVE j \in Below(q)
        <5>1. j \in 1 .. n
              /\ (edges[j].from < from \/ edges[j].from = from)
          BY <2>2, <2>4
        <5> QED BY <2>1, <2>6, <4>1, <5>1
      <4>3. k \in Below(q)
        BY <2>1, <2>5, <2>6
      <4> QED BY <4>2, <4>3
    <3>2. Cardinality(lower \cup {k}) <= Cardinality(Below(q))
      BY <1>2, <3>1, FS_Subset
    <3> QED BY <1>2, <2>3, <3>2
  <2>7. ASSUME NEW q \in 0 .. total, q <= from PROVE offsets[q] < s
    <3>1. Below(q) \subseteq lower
      BY <1>1, <2>1, <2>4, <2>7
    <3>2. Cardinality(Below(q)) <= Cardinality(lower)
      BY <2>2, <3>1, FS_Subset
    <3> QED BY <1>2, <2>1, <2>2, <3>2
  <2>8. offsets[p] \in Int /\ offsets[p + 1] \in Int /\ s \in Int
    BY <1>1, <1>3
  <2>9. CASE from < p
    BY <1>3, <2>1, <2>6, <2>8, <2>9
  <2>10. CASE from = p
    BY <1>3, <2>1, <2>6, <2>7, <2>8, <2>10
  <2>11. CASE from > p
    <3>1. p + 1 <= from
      BY <2>1, <2>11
    <3> QED BY <1>3, <2>1, <2>7, <2>8, <2>11, <3>1
  <2> QED BY <2>1, <2>9, <2>10, <2>11
<1>8. offsets[p] \in 0 .. n /\ offsets[p + 1] \in offsets[p] .. n
  BY <1>1, <1>3, <1>6
<1> QED BY <1>7, <1>8 DEF n, offsets, placed

-----------------------------------------------------------------------------
(* Kahn's algorithm *)

(* What the loop that pushes the nodes of one in-degree has pushed after   *)
(* each of its rounds.                                                     *)
PushedBy(pushed, list, inDegree, n) ==
    /\ pushed[0] = <<>>
    /\ \A i \in 1 .. Len(list) :
          pushed[i] = IF inDegree[list[i]] = n
                      THEN Append(pushed[i - 1], list[i])
                      ELSE pushed[i - 1]

(* The loop has such rounds, and returns what it has pushed after the last. *)
LEMMA NodesWithRounds ==
  ASSUME NEW S, NEW list \in Seq(S), NEW inDegree, NEW n
  PROVE  \E pushed : /\ NodesWith(list, inDegree, n) = pushed[Len(list)]
                     /\ PushedBy(pushed, list, inDegree, n)
<1> DEFINE l == Len(list)
           Body(w, i) ==
               IF i = 0 THEN <<>>
               ELSE IF inDegree[list[i]] = n THEN Append(w[i - 1], list[i])
               ELSE w[i - 1]
           pushed == CHOOSE w : w = [i \in 0 .. l |-> Body(w, i)]
           step == [x \in (1 .. l) \X Seq(S) |->
                       IF inDegree[list[x[1]]] = n
                       THEN Append(x[2], list[x[1]]) ELSE x[2]]
<1>1. /\ l \in Nat /\ DOMAIN list = 1 .. l
      /\ \A i \in 1 .. l : list[i] \in S
  BY LenProperties, ElementOfSeq
<1>2. NodesWith(list, inDegree, n) = pushed[l]
  BY DEF NodesWith
<1>3. \E w : w = [i \in 0 .. l |-> Body(w, i)]
  <2> HIDE DEF l
  <2>1. step \in [(1 .. l) \X Seq(S) -> Seq(S)]
    BY <1>1, AppendProperties
  <2>2. <<>> \in Seq(S)
    OBVIOUS
  <2> HIDE DEF step
  <2>3. PICK f \in [0 .. l -> Seq(S)] : Iterates(l, <<>>, step, f)
    BY <1>1, <2>1, <2>2, IterationExists
  <2>4. \A i \in 1 .. l : f[i - 1] \in Seq(S)
    BY <1>1
  <2>5. \A i \in 1 .. l, v \in Seq(S) : step[<<i, v>>] =
           IF inDegree[list[i]] = n THEN Append(v, list[i]) ELSE v
    BY DEF step
  <2>6. ASSUME NEW i \in 0 .. l PROVE f[i] = Body(f, i)
    <3>1. CASE i = 0
      BY <2>3, <3>1 DEF Iterates
    <3>2. CASE i # 0
      <4>1. i \in 1 .. l
        BY <1>1, <3>2
      <4>2. f[i] = step[<<i, f[i - 1]>>]
        BY <2>3, <4>1 DEF Iterates
      <4> QED BY <2>4, <2>5, <3>2, <4>1, <4>2
    <3> QED BY <3>1, <3>2
  <2>7. f = [i \in 0 .. l |-> Body(f, i)]
    <3> HIDE DEF Body
    <3> QED BY <2>3, <2>6
  <2> QED BY <2>7
<1>4. pushed = [i \in 0 .. l |-> Body(pushed, i)]
  BY <1>3
<1> HIDE DEF l, pushed
<1>5. /\ pushed[0] = <<>>
      /\ \A i \in 1 .. l :
            pushed[i] = IF inDegree[list[i]] = n
                        THEN Append(pushed[i - 1], list[i]) ELSE pushed[i - 1]
  <2>1. \A i \in 0 .. l : pushed[i] = Body(pushed, i)
    <3> HIDE DEF Body
    <3> QED BY <1>4, Zenon
  <2>2. 0 \in 0 .. l /\ \A i \in 1 .. l : i \in 0 .. l /\ i # 0
    BY <1>1
  <2> QED BY <2>1, <2>2
<1>6. PushedBy(pushed, list, inDegree, n)
  BY <1>5 DEF PushedBy, l
<1> QED BY <1>2, <1>6 DEF l

(* It pushes those alone, and each once if it meets each once.             *)
LEMMA NodesWithMembers ==
  ASSUME NEW S, NEW list \in Seq(S), NEW inDegree, NEW n
  PROVE  /\ NodesWith(list, inDegree, n) \in Seq(S)
         /\ ToSet(NodesWith(list, inDegree, n))
               = {x \in ToSet(list) : inDegree[x] = n}
         /\ IsInjective(list) => IsInjective(NodesWith(list, inDegree, n))
<1> DEFINE l == Len(list)
<1>1. /\ l \in Nat /\ DOMAIN list = 1 .. l
      /\ \A i \in 1 .. l : list[i] \in S
  BY LenProperties, ElementOfSeq
<1>2. PICK pushed :
         /\ NodesWith(list, inDegree, n) = pushed[l]
         /\ pushed[0] = <<>>
         /\ \A i \in 1 .. l :
               pushed[i] = IF inDegree[list[i]] = n
                           THEN Append(pushed[i - 1], list[i])
                           ELSE pushed[i - 1]
  <2>1. PICK pushed : /\ NodesWith(list, inDegree, n) = pushed[Len(list)]
                      /\ PushedBy(pushed, list, inDegree, n)
    BY NodesWithRounds
  <2> QED BY <2>1 DEF PushedBy
<1> HIDE DEF l
<1> DEFINE Met(i) == {list[j] : j \in {j \in 1 .. i : inDegree[list[j]] = n}}
           T == {i \in 0 .. l : /\ pushed[i] \in Seq(S)
                                /\ ToSet(pushed[i]) = Met(i)
                                /\ IsInjective(list) => IsInjective(pushed[i])}
<1>6. 0 \in T
  <2>1. Met(0) = {}
    OBVIOUS
  <2>2. ToSet(<<>>) = {} /\ IsInjective(<<>>) /\ <<>> \in Seq(S)
    BY DEF ToSet, IsInjective
  <2>3. 0 \in 0 .. l /\ pushed[0] = <<>>
    BY <1>1, <1>2
  <2> HIDE DEF Met
  <2> QED BY <2>1, <2>2, <2>3, Zenon
<1>7. ASSUME NEW i \in 1 .. l, i - 1 \in T PROVE i \in T
  <2>0. /\ pushed[i - 1] \in Seq(S)
        /\ ToSet(pushed[i - 1]) = Met(i - 1)
        /\ IsInjective(list) => IsInjective(pushed[i - 1])
        /\ i \in 0 .. l
    BY <1>7
  <2>1. CASE inDegree[list[i]] = n
    <3>1. pushed[i] = Append(pushed[i - 1], list[i])
      BY <1>2, <2>1
    <3>2. Met(i) = Met(i - 1) \cup {list[i]}
      BY <1>1, <2>1
    <3>3. pushed[i] \in Seq(S) /\ ToSet(pushed[i]) = Met(i)
      <4> HIDE DEF Met
      <4> QED BY <1>1, <2>0, <3>1, <3>2, AppendMembers, AppendProperties
    <3>4. IsInjective(list) => list[i] \notin Met(i - 1)
      BY <1>1 DEF IsInjective
    <3>5. IsInjective(list) => IsInjective(pushed[i])
      <4> HIDE DEF Met
      <4> QED BY <1>1, <2>0, <3>1, <3>4, AppendMembers
    <3> QED BY <2>0, <3>3, <3>5
  <2>2. CASE inDegree[list[i]] # n
    <3>1. pushed[i] = pushed[i - 1]
      BY <1>2, <2>2
    <3>2. Met(i) = Met(i - 1)
      BY <1>1, <2>2
    <3> HIDE DEF Met
    <3> QED BY <2>0, <3>1, <3>2
  <2> QED BY <2>1, <2>2
<1>8. l \in T
  <2> HIDE DEF T
  <2> QED BY <1>1, <1>6, <1>7, RoundInduction
<1>9. Met(l) = {x \in ToSet(list) : inDegree[x] = n}
  BY <1>1 DEF ToSet
<1> QED BY <1>2, <1>8, <1>9

(* What a span of a row's length holds.                                    *)
LEMMA SpanElements ==
  ASSUME NEW total \in Nat, NEW D, NEW edges \in Seq(EdgeBelow(total, D)),
         NEW p \in 0 .. total - 1,
         NEW S, NEW array \in Seq(S), Len(array) = Len(edges)
  PROVE  LET offsets == Offsets(edges, total)
             span == Span(offsets, array, p)
         IN  /\ span \in Seq(S)
             /\ Len(span) = offsets[p + 1] - offsets[p]
             /\ Len(span) \in Nat
             /\ DOMAIN span = 1 .. Len(span)
             /\ \A i \in 1 .. Len(span) :
                   /\ offsets[p] + i \in offsets[p] + 1 .. offsets[p + 1]
                   /\ offsets[p] + i \in 1 .. Len(edges)
                   /\ span[i] = array[offsets[p] + i]
<1> DEFINE offsets == Offsets(edges, total)
           low == offsets[p]
           high == offsets[p + 1]
           span == Span(offsets, array, p)
<1>1. /\ Len(edges) \in Nat
      /\ low \in 0 .. Len(edges)
      /\ high \in low .. Len(edges)
  BY RowOfParent, LenProperties
<1>2. span = SubSeq(array, low + 1, high)
  BY DEF Span
<1> HIDE DEF low, high, span
<1>3. \A i \in low + 1 .. high : array[i] \in S
  BY <1>1, ElementOfSeq
<1>4. /\ span \in Seq(S)
      /\ Len(span) = IF low + 1 <= high THEN high - (low + 1) + 1 ELSE 0
      /\ \A i \in 1 .. high - (low + 1) + 1 : span[i] = array[low + 1 + i - 1]
  <2> DEFINE first == low + 1
  <2>1. first \in Int /\ high \in Int
    BY <1>1
  <2>2. span = SubSeq(array, first, high) /\ \A i \in first .. high : array[i] \in S
    BY <1>2, <1>3
  <2> HIDE DEF first
  <2>3. /\ span \in Seq(S)
        /\ Len(span) = IF first <= high THEN high - first + 1 ELSE 0
        /\ \A i \in 1 .. high - first + 1 : span[i] = array[first + i - 1]
    BY <2>1, <2>2, SubSeqProperties
  <2> QED BY <2>3 DEF first
<1>5. Len(span) = high - low /\ Len(span) \in Nat
  BY <1>1, <1>4
<1>6. ASSUME NEW i \in 1 .. Len(span)
      PROVE  /\ low + i \in low + 1 .. high
             /\ low + i \in 1 .. Len(edges)
             /\ span[i] = array[low + i]
  <2>1. i \in 1 .. high - (low + 1) + 1 /\ low + 1 + i - 1 = low + i
    BY <1>1, <1>5
  <2>2. low + i \in low + 1 .. high
    BY <1>1, <1>5
  <2>3. low + i \in 1 .. Len(edges)
    BY <1>1, <2>2
  <2>4. span[i] = array[low + i]
    BY <1>4, <2>1
  <2> QED BY <2>2, <2>3, <2>4
<1>7. DOMAIN span = 1 .. Len(span)
  BY <1>4, LenProperties
<1> QED BY <1>4, <1>5, <1>6, <1>7 DEF low, high, span

(* No node is the end of two edges.                                        *)
OneParent(edges) ==
    \A j, k \in DOMAIN edges : edges[j].to = edges[k].to => j = k

Targets(edges, total, p) ==
    Span(Offsets(edges, total), Adjacency(edges, total), p)

EndsOf(edges, p) ==
    {edges[k].to : k \in {k \in DOMAIN edges : edges[k].from = p}}

(* The span of the adjacency of a node is its children, each once.         *)
LEMMA TargetsAreChildren ==
  ASSUME NEW total \in Nat, NEW D, NEW edges \in Seq(EdgeBelow(total, D)),
         NEW p \in 0 .. total - 1
  PROVE  /\ Targets(edges, total, p) \in Seq(0 .. total - 1)
         /\ ToSet(Targets(edges, total, p)) = EndsOf(edges, p)
         /\ OneParent(edges) => IsInjective(Targets(edges, total, p))
<1> DEFINE n == Len(edges)
           offsets == Offsets(edges, total)
           placed == EdgeAt(edges, total)
           adjacency == Adjacency(edges, total)
           span == Span(offsets, adjacency, p)
           key == FromOf(edges)
<1>1. /\ n \in Nat /\ DOMAIN edges = 1 .. n
      /\ \A k \in 1 .. n : edges[k].to \in 0 .. total - 1
  BY FromsAreKeys
<1>2. PICK source : PlacedFrom(edges, total, source)
  BY EdgesGrouped
<1>3. /\ \A s \in 1 .. n : source[s] \in 1 .. n
                          /\ placed[s] = edges[source[s]]
                          /\ Place(key, source[s]) = s
      /\ \A k \in 1 .. n : source[Place(key, k)] = k
  BY <1>2 DEF PlacedFrom
<1>4. \A k \in 1 .. n : Place(key, k) \in 1 .. n
  BY <1>1, FromsAreKeys, PlacesPermute
<1>5. \A s \in 1 .. n : adjacency[s] = edges[source[s]].to
  <2>1. \A s \in 1 .. n : adjacency[s] = placed[s].to
    BY <1>1 DEF Adjacency
  <2> QED BY <1>3, <2>1
<1>6. adjacency \in Seq(0 .. total - 1) /\ Len(adjacency) = n
  <2>1. adjacency = [s \in 1 .. n |-> placed[s].to]
    BY <1>1 DEF Adjacency
  <2>2. \A s \in 1 .. n : placed[s].to \in 0 .. total - 1
    BY <1>1, <1>3
  <2>3. adjacency \in [1 .. n -> 0 .. total - 1]
    BY <2>1, <2>2
  <2> QED BY <1>1, <2>3
<1>7. \A s \in 1 .. n : edges[source[s]].from = p
                          <=> s \in offsets[p] + 1 .. offsets[p + 1]
  <2>1. \A s \in 1 .. n : placed[s].from = p
                          <=> s \in offsets[p] + 1 .. offsets[p + 1]
    BY RowOfParent
  <2> HIDE DEF n, offsets, placed, key
  <2> QED BY <1>3, <2>1
<1>8. /\ span \in Seq(0 .. total - 1)
      /\ Len(span) = offsets[p + 1] - offsets[p]
      /\ Len(span) \in Nat
      /\ DOMAIN span = 1 .. Len(span)
      /\ \A i \in 1 .. Len(span) :
            /\ offsets[p] + i \in offsets[p] + 1 .. offsets[p + 1]
            /\ offsets[p] + i \in 1 .. n
            /\ span[i] = adjacency[offsets[p] + i]
  BY <1>6, SpanElements
<1>9. offsets[p] \in Nat /\ offsets[p + 1] \in Nat
  BY <1>1, RowOfParent
<1> HIDE DEF n, offsets, placed, adjacency, span, key
<1> DEFINE low == offsets[p]
<1>10. \A i \in 1 .. Len(span) : /\ low + i \in 1 .. n
                                 /\ edges[source[low + i]].from = p
                                 /\ span[i] = edges[source[low + i]].to
  BY <1>5, <1>7, <1>8
<1>11. \A s \in 1 .. n : edges[source[s]].from = p =>
          s - low \in 1 .. Len(span) /\ low + (s - low) = s
  <2> SUFFICES ASSUME NEW s \in 1 .. n, edges[source[s]].from = p
               PROVE  s - low \in 1 .. Len(span) /\ low + (s - low) = s
    OBVIOUS
  <2>1. s \in offsets[p] + 1 .. offsets[p + 1]
    BY <1>7
  <2>2. Len(span) = offsets[p + 1] - offsets[p]
    BY <1>8
  <2>3. \A l, h, x \in Nat : x \in l + 1 .. h =>
           x - l \in 1 .. h - l /\ l + (x - l) = x
    OBVIOUS
  <2>4. s \in Nat
    OBVIOUS
  <2> QED BY <1>9, <2>1, <2>2, <2>3, <2>4
<1>12. low \in Nat
  BY <1>9
<1> HIDE DEF low
<1>13. ToSet(span) =
          {edges[k].to : k \in {k \in DOMAIN edges : edges[k].from = p}}
  <2>1. ASSUME NEW x \in ToSet(span)
        PROVE  \E k \in 1 .. n : edges[k].from = p /\ x = edges[k].to
    <3>1. PICK i \in 1 .. Len(span) : x = span[i]
      BY <1>8 DEF ToSet
    <3> QED BY <1>3, <1>10, <3>1
  <2>2. ASSUME NEW k \in 1 .. n, edges[k].from = p
        PROVE  edges[k].to \in ToSet(span)
    <3> DEFINE s == Place(key, k)
    <3>1. s \in 1 .. n /\ source[s] = k
      BY <1>3, <1>4
    <3> HIDE DEF s
    <3>2. s - low \in 1 .. Len(span) /\ low + (s - low) = s
      BY <1>11, <2>2, <3>1
    <3>3. span[s - low] = edges[k].to
      BY <1>10, <3>1, <3>2
    <3> QED BY <1>8, <3>2, <3>3 DEF ToSet
  <2> QED BY <1>1, <2>1, <2>2
<1>14. ASSUME OneParent(edges) PROVE IsInjective(span)
  <2>1. ASSUME NEW i \in 1 .. Len(span), NEW j \in 1 .. Len(span),
               span[i] = span[j]
        PROVE  i = j
    <3>1. source[low + i] = source[low + j]
      BY <1>1, <1>3, <1>10, <1>14, <2>1 DEF OneParent
    <3>2. low + i = low + j
      BY <1>3, <1>10, <3>1
    <3> QED BY <1>8, <1>12, <3>2
  <2> QED BY <1>8, <2>1 DEF IsInjective
<1> QED BY <1>8, <1>13, <1>14
     DEF Targets, EndsOf, span, offsets, adjacency

(* A node waits for the parents of its incoming edges that are not done.   *)
Waits(edges, done, h) ==
    \E k \in DOMAIN edges : edges[k].to = h /\ edges[k].from \notin ToSet(done)

(* The states of the loop: the nodes that wait for none are queued or in   *)
(* the order, once, and each parent in the order is ahead of its children. *)
KahnStates(edges, total) ==
    {s \in [queue : Seq(0 .. total - 1), order : Seq(0 .. total - 1),
            inDegree : [0 .. total - 1 -> Int]] :
        /\ IsInjective(s.queue)
        /\ IsInjective(s.order)
        /\ ToSet(s.queue) \cap ToSet(s.order) = {}
        /\ \A h \in 0 .. total - 1 :
              /\ s.inDegree[h] = IF Waits(edges, s.order, h) THEN 1 ELSE 0
              /\ s.inDegree[h] = 0 <=> h \in ToSet(s.queue) \cup ToSet(s.order)
        /\ \A k \in DOMAIN edges, j \in DOMAIN s.order :
              edges[k].to = s.order[j] =>
                  \E i \in DOMAIN s.order : i < j /\ s.order[i] = edges[k].from}

KahnStart(edges, total) ==
    LET inDegree == InDegree(edges, total)
    IN  [queue |-> NodesWith([i \in 1 .. total |-> i - 1], inDegree, 0),
         order |-> <<>>, inDegree |-> inDegree]

(* An in-degree is zero or one, and one exactly of the end of an edge.     *)
LEMMA DegreesAreBinary ==
  ASSUME NEW total \in Nat, NEW D, NEW edges \in Seq(EdgeBelow(total, D)),
         OneParent(edges), NEW h \in 0 .. total - 1
  PROVE  InDegree(edges, total)[h] =
            IF \E k \in DOMAIN edges : edges[k].to = h THEN 1 ELSE 0
<1> DEFINE I == {k \in DOMAIN edges : edges[k].to = h}
<1>1. InDegree(edges, total)[h] = Cardinality(I)
  BY DEF InDegree
<1>2. CASE \E k \in DOMAIN edges : edges[k].to = h
  <2>1. PICK k \in DOMAIN edges : edges[k].to = h
    BY <1>2
  <2>2. I = {k}
    BY <2>1 DEF OneParent
  <2> HIDE DEF I
  <2> QED BY <1>1, <1>2, <2>2, FS_Singleton
<1>3. CASE ~ \E k \in DOMAIN edges : edges[k].to = h
  <2>1. I = {}
    BY <1>3
  <2> HIDE DEF I
  <2> QED BY <1>1, <1>3, <2>1, FS_EmptySet
<1> QED BY <1>2, <1>3

(* The loop starts with the nodes without parent on the queue.             *)
LEMMA KahnStarts ==
  ASSUME NEW total \in Nat, NEW D, NEW edges \in Seq(EdgeBelow(total, D)),
         OneParent(edges)
  PROVE  KahnStart(edges, total) \in KahnStates(edges, total)
<1> DEFINE H == 0 .. total - 1
           inDegree == InDegree(edges, total)
           handles == [i \in 1 .. total |-> i - 1]
           queue == NodesWith(handles, inDegree, 0)
<1>1. \A h \in H : inDegree[h] =
            IF \E k \in DOMAIN edges : edges[k].to = h THEN 1 ELSE 0
  BY DegreesAreBinary
<1>2. inDegree \in [H -> Int]
  <2>1. inDegree = [h \in H |-> inDegree[h]]
    BY DEF InDegree
  <2> HIDE DEF inDegree
  <2> QED BY <1>1, <2>1
<1>3. handles \in Seq(H) /\ IsInjective(handles) /\ ToSet(handles) = H
  <2>1. handles \in [1 .. total -> H] /\ DOMAIN handles = 1 .. total
    OBVIOUS
  <2>2. handles \in Seq(H)
    BY <2>1
  <2>3. IsInjective(handles)
    BY <2>1 DEF IsInjective
  <2>4. ASSUME NEW h \in H PROVE h \in ToSet(handles)
    <3>1. h + 1 \in 1 .. total /\ handles[h + 1] = h
      OBVIOUS
    <3> QED BY <2>1, <3>1 DEF ToSet
  <2>5. ToSet(handles) \subseteq H
    BY <2>1 DEF ToSet
  <2> QED BY <2>2, <2>3, <2>4, <2>5
<1> HIDE DEF inDegree, handles
<1>4. /\ queue \in Seq(H)
      /\ ToSet(queue) = {h \in H : inDegree[h] = 0}
      /\ IsInjective(queue)
  <2>1. /\ queue \in Seq(H)
        /\ ToSet(queue) = {h \in ToSet(handles) : inDegree[h] = 0}
        /\ IsInjective(handles) => IsInjective(queue)
    BY <1>3, NodesWithMembers
  <2> QED BY <1>3, <2>1
<1>5. KahnStart(edges, total)
         = [queue |-> queue, order |-> <<>>, inDegree |-> inDegree]
  BY DEF KahnStart, inDegree, handles
<1> HIDE DEF queue
<1>6. ToSet(<<>>) = {} /\ IsInjective(<<>>) /\ DOMAIN <<>> = {}
      /\ <<>> \in Seq(H)
  BY DEF ToSet, IsInjective
<1>7. \A h \in H : Waits(edges, <<>>, h)
                      <=> \E k \in DOMAIN edges : edges[k].to = h
  BY <1>6 DEF Waits
<1> DEFINE s == KahnStart(edges, total)
<1>8. /\ s.queue = queue /\ s.order = <<>> /\ s.inDegree = inDegree
      /\ s \in [queue : Seq(H), order : Seq(H), inDegree : [H -> Int]]
  BY <1>2, <1>4, <1>5, <1>6
<1> HIDE DEF s
<1>9. \A h \in H :
         /\ s.inDegree[h] = IF Waits(edges, s.order, h) THEN 1 ELSE 0
         /\ s.inDegree[h] = 0 <=> h \in ToSet(s.queue) \cup ToSet(s.order)
  <2> TAKE h \in H
  <2>1. ToSet(s.order) = {} /\ ToSet(s.queue) = {g \in H : inDegree[g] = 0}
    BY <1>4, <1>6, <1>8, Zenon
  <2>2. Waits(edges, s.order, h) <=> \E k \in DOMAIN edges : edges[k].to = h
    BY <1>7, <1>8, Zenon
  <2>3. s.inDegree[h] = inDegree[h]
    BY <1>8
  <2> QED BY <1>1, <2>1, <2>2, <2>3
<1> QED BY <1>4, <1>6, <1>8, <1>9 DEF KahnStates, s

(* One round of the loop keeps that, and puts one more node in the order.  *)
LEMMA KahnRoundKeeps ==
  ASSUME NEW total \in Nat, NEW D, NEW edges \in Seq(EdgeBelow(total, D)),
         OneParent(edges),
         NEW s \in KahnStates(edges, total), s.queue # <<>>
  PROVE  /\ KahnRound(edges, total, s) \in KahnStates(edges, total)
         /\ Len(KahnRound(edges, total, s).order) = Len(s.order) + 1
<1> DEFINE H == 0 .. total - 1
           node == Last(s.queue)
           kids == Targets(edges, total, node)
           ready == NodesWith(kids, s.inDegree, 1)
           order == Append(s.order, node)
           queue == Front(s.queue) \o ready
           inDegree == [h \in H |-> IF Contains(kids, h)
                                   THEN s.inDegree[h] - 1 ELSE s.inDegree[h]]
           r == KahnRound(edges, total, s)
<1>1. /\ s.queue \in Seq(H) /\ s.order \in Seq(H)
      /\ s.inDegree \in [H -> Int]
      /\ IsInjective(s.queue) /\ IsInjective(s.order)
      /\ ToSet(s.queue) \cap ToSet(s.order) = {}
      /\ \A h \in H :
            /\ s.inDegree[h] = IF Waits(edges, s.order, h) THEN 1 ELSE 0
            /\ s.inDegree[h] = 0 <=> h \in ToSet(s.queue) \cup ToSet(s.order)
      /\ \A k \in DOMAIN edges, j \in DOMAIN s.order :
            edges[k].to = s.order[j] =>
                \E i \in DOMAIN s.order : i < j /\ s.order[i] = edges[k].from
  BY DEF KahnStates
<1>2. /\ DOMAIN edges = 1 .. Len(edges)
      /\ \A k \in DOMAIN edges : edges[k].from \in H /\ edges[k].to \in H
  BY FromsAreKeys
<1>3. r = [queue |-> queue, order |-> order, inDegree |-> inDegree]
  BY <1>1 DEF KahnRound, Targets
<1>4. /\ node \in ToSet(s.queue) /\ node \in H /\ node \notin ToSet(s.order)
      /\ Front(s.queue) \in Seq(H)
      /\ ToSet(Front(s.queue)) = ToSet(s.queue) \ {node}
      /\ IsInjective(Front(s.queue))
  BY <1>1, FrontMembers, MembersOfSeq
<1> HIDE DEF node
<1>5. /\ kids \in Seq(H) /\ IsInjective(kids)
      /\ \A h \in H : h \in ToSet(kids)
            <=> \E k \in DOMAIN edges : edges[k].from = node /\ edges[k].to = h
  <2>1. /\ kids \in Seq(H) /\ IsInjective(kids)
        /\ ToSet(kids) =
              {edges[k].to : k \in {k \in DOMAIN edges : edges[k].from = node}}
    BY <1>4, TargetsAreChildren DEF EndsOf
  <2> QED BY <2>1
<1>6. \A h \in H : Contains(kids, h) <=> h \in ToSet(kids)
  BY <1>5, LenProperties DEF Contains, ToSet
<1> HIDE DEF kids
(* A child of the node waits for it alone.                                 *)
<1>7. \A h \in ToSet(kids) : /\ h \in H
                             /\ s.inDegree[h] = 1
                             /\ \A k \in DOMAIN edges :
                                   edges[k].to = h => edges[k].from = node
  <2> TAKE h \in ToSet(kids)
  <2>1. h \in H
    BY <1>5, MembersOfSeq
  <2>2. PICK k \in DOMAIN edges : edges[k].from = node /\ edges[k].to = h
    BY <1>5, <2>1
  <2>3. Waits(edges, s.order, h)
    BY <1>4, <2>2 DEF Waits
  <2> QED BY <1>1, <2>1, <2>2, <2>3 DEF OneParent
<1>8. /\ ready \in Seq(H) /\ ToSet(ready) = ToSet(kids) /\ IsInjective(ready)
  <2>1. /\ ready \in Seq(H)
        /\ ToSet(ready) = {h \in ToSet(kids) : s.inDegree[h] = 1}
        /\ IsInjective(kids) => IsInjective(ready)
    BY <1>5, NodesWithMembers
  <2> HIDE DEF ready
  <2>2. {h \in ToSet(kids) : s.inDegree[h] = 1} = ToSet(kids)
    BY <1>7
  <2> QED BY <1>5, <2>1, <2>2
<1> HIDE DEF ready
<1>9. /\ order \in Seq(H) /\ ToSet(order) = ToSet(s.order) \cup {node}
      /\ IsInjective(order) /\ Len(order) = Len(s.order) + 1
      /\ DOMAIN order = 1 .. Len(s.order) + 1
      /\ \A i \in 1 .. Len(s.order) : order[i] = s.order[i]
      /\ order[Len(s.order) + 1] = node
  <2>1. ToSet(order) = ToSet(s.order) \cup {node} /\ IsInjective(order)
    BY <1>1, <1>4, AppendMembers
  <2>2. /\ order \in Seq(H)
        /\ Len(order) = Len(s.order) + 1
        /\ \A i \in 1 .. Len(s.order) : order[i] = s.order[i]
        /\ order[Len(s.order) + 1] = node
    BY <1>1, <1>4, AppendProperties
  <2> HIDE DEF order
  <2>3. DOMAIN order = 1 .. Len(order)
    BY <2>2, LenProperties
  <2> QED BY <2>1, <2>2, <2>3
<1>10. ToSet(kids) \cap (ToSet(s.queue) \cup ToSet(s.order)) = {}
  <2>1. ASSUME NEW h \in ToSet(kids)
        PROVE  h \notin ToSet(s.queue) \cup ToSet(s.order)
    <3>1. h \in H /\ s.inDegree[h] = 1
      BY <1>7
    <3> QED BY <1>1, <3>1
  <2> QED BY <2>1
<1>11. /\ queue \in Seq(H)
       /\ ToSet(queue) = (ToSet(s.queue) \ {node}) \cup ToSet(kids)
       /\ IsInjective(queue)
  BY <1>4, <1>8, <1>10, ConcatMembers, ConcatProperties
<1> HIDE DEF order, queue
<1>12. ASSUME NEW h \in H
       PROVE  /\ inDegree[h] = IF Waits(edges, order, h) THEN 1 ELSE 0
              /\ inDegree[h] = 0 <=> h \in ToSet(queue) \cup ToSet(order)
  <2>1. CASE h \in ToSet(kids)
    <3>1. inDegree[h] = 0
      BY <1>6, <1>7, <2>1
    <3>2. ~ Waits(edges, order, h)
      BY <1>7, <1>9, <2>1 DEF Waits
    <3> QED BY <1>11, <2>1, <3>1, <3>2
  <2>2. CASE h \notin ToSet(kids)
    <3>1. inDegree[h] = s.inDegree[h]
      BY <1>6, <2>2
    <3>2. Waits(edges, order, h) <=> Waits(edges, s.order, h)
      BY <1>5, <1>9, <2>2 DEF Waits
    <3>3. h \in ToSet(queue) \cup ToSet(order)
             <=> h \in ToSet(s.queue) \cup ToSet(s.order)
      BY <1>4, <1>9, <1>11, <2>2
    <3> QED BY <1>1, <3>1, <3>2, <3>3
  <2> QED BY <2>1, <2>2
<1>13. inDegree \in [H -> Int]
  BY <1>1
<1> HIDE DEF inDegree
<1>14. ASSUME NEW k \in DOMAIN edges, NEW j \in DOMAIN order,
              edges[k].to = order[j]
       PROVE  \E i \in DOMAIN order : i < j /\ order[i] = edges[k].from
  <2>1. DOMAIN s.order = 1 .. Len(s.order) /\ Len(s.order) \in Nat
    BY <1>1, LenProperties
  <2>2. CASE j \in 1 .. Len(s.order)
    <3>1. edges[k].to = s.order[j]
      BY <1>9, <1>14, <2>2
    <3>2. PICK i \in DOMAIN s.order : i < j /\ s.order[i] = edges[k].from
      BY <1>1, <2>1, <2>2, <3>1
    <3>3. i \in 1 .. Len(s.order) /\ i \in 1 .. Len(s.order) + 1
      BY <2>1, <3>2
    <3>4. i \in DOMAIN order /\ order[i] = s.order[i]
      BY <1>9, <3>3
    <3> QED BY <3>2, <3>4
  <2>3. CASE j = Len(s.order) + 1
    <3>1. edges[k].to = node
      BY <1>9, <1>14, <2>3
    <3>2. ~ Waits(edges, s.order, node)
      <4>1. s.inDegree[node] = 0
        BY <1>1, <1>4
      <4>2. s.inDegree[node] = IF Waits(edges, s.order, node) THEN 1 ELSE 0
        BY <1>1, <1>4
      <4> QED BY <4>1, <4>2
    <3>3. edges[k].from \in ToSet(s.order)
      BY <3>1, <3>2 DEF Waits
    <3>4. PICK i \in 1 .. Len(s.order) : s.order[i] = edges[k].from
      BY <2>1, <3>3 DEF ToSet
    <3>5. i \in 1 .. Len(s.order) + 1 /\ i < j
      BY <2>1, <2>3
    <3>6. i \in DOMAIN order /\ order[i] = s.order[i]
      BY <1>9, <3>5
    <3> QED BY <3>4, <3>5, <3>6
  <2> QED BY <1>9, <2>1, <2>2, <2>3
<1>15. ToSet(queue) \cap ToSet(order) = {}
  <2>1. ToSet(s.queue) \cap ToSet(s.order) = {} /\ node \in ToSet(s.queue)
    BY <1>1, <1>4
  <2>2. node \notin ToSet(kids)
    BY <1>10, <2>1
  <2>3. ToSet(queue) = (ToSet(s.queue) \ {node}) \cup ToSet(kids)
    BY <1>11
  <2>4. ToSet(order) = ToSet(s.order) \cup {node}
    BY <1>9
  <2> QED BY <1>10, <2>1, <2>2, <2>3, <2>4
<1>16. /\ r.queue = queue /\ r.order = order /\ r.inDegree = inDegree
       /\ r \in [queue : Seq(H), order : Seq(H), inDegree : [H -> Int]]
  BY <1>3, <1>9, <1>11, <1>13
<1> HIDE DEF r
<1>17. r \in KahnStates(edges, total)
  <2>1. \A h \in H :
           /\ r.inDegree[h] = IF Waits(edges, r.order, h) THEN 1 ELSE 0
           /\ r.inDegree[h] = 0 <=> h \in ToSet(r.queue) \cup ToSet(r.order)
    BY <1>12, <1>16
  <2>2. \A k \in DOMAIN edges, j \in DOMAIN r.order :
           edges[k].to = r.order[j] =>
               \E i \in DOMAIN r.order : i < j /\ r.order[i] = edges[k].from
    BY <1>14, <1>16
  <2>3. /\ IsInjective(r.queue) /\ IsInjective(r.order)
        /\ ToSet(r.queue) \cap ToSet(r.order) = {}
    BY <1>9, <1>11, <1>15, <1>16
  <2> QED BY <1>16, <2>1, <2>2, <2>3 DEF KahnStates
<1> QED BY <1>9, <1>16, <1>17 DEF r

(* The parent of every edge is ahead of its child.                         *)
ParentsAhead(edges, order) ==
    \A k \in DOMAIN edges, j \in DOMAIN order :
        edges[k].to = order[j] =>
            \E i \in DOMAIN order : i < j /\ order[i] = edges[k].from

(* Nodes each of which has its parent among them.                          *)
ClosedUnderEdges(edges, S) ==
    \A h \in S : \E k \in DOMAIN edges :
        edges[k].to = h /\ edges[k].from \in S

(* Within as many rounds as there are nodes the loop is done: its order    *)
(* has every node, or the nodes left over hold a cycle.                    *)
LEMMA KahnRuns ==
  ASSUME NEW total \in Nat, NEW D, NEW edges \in Seq(EdgeBelow(total, D)),
         OneParent(edges)
  PROVE  \E s \in KahnStates(edges, total) :
            /\ KahnTopo(edges, total)
                  = IF Len(s.order) = total THEN s.order ELSE <<>>
            /\ Len(s.order) = total \/ s.queue = <<>>
<1> DEFINE V == KahnStates(edges, total)
           Body(w, i) ==
               IF i = 0
               THEN KahnStart(edges, total)
               ELSE IF w[i - 1].queue = <<>> THEN w[i - 1]
               ELSE KahnRound(edges, total, w[i - 1])
           run == CHOOSE w : w = [i \in 0 .. total |-> Body(w, i)]
           step == [x \in (1 .. total) \X V |->
                       IF x[2].queue = <<>> THEN x[2]
                       ELSE KahnRound(edges, total, x[2])]
<1>1. KahnTopo(edges, total) = IF Len(run[total].order) = total
                               THEN run[total].order ELSE <<>>
  BY DEF KahnTopo, KahnStart
<1>2. KahnStart(edges, total) \in V
  BY KahnStarts
<1>3. \A v \in V : v.queue # <<>> =>
         /\ KahnRound(edges, total, v) \in V
         /\ Len(KahnRound(edges, total, v).order) = Len(v.order) + 1
  BY KahnRoundKeeps
<1> HIDE DEF V
<1>4. \E w : w = [i \in 0 .. total |-> Body(w, i)]
  <2>1. step \in [(1 .. total) \X V -> V]
    BY <1>3
  <2>2. \A i \in 1 .. total, v \in V : step[<<i, v>>] =
           IF v.queue = <<>> THEN v ELSE KahnRound(edges, total, v)
    OBVIOUS
  <2> HIDE DEF step
  <2>3. PICK f \in [0 .. total -> V] :
           Iterates(total, KahnStart(edges, total), step, f)
    BY <1>2, <2>1, IterationExists
  <2>4. ASSUME NEW i \in 0 .. total PROVE f[i] = Body(f, i)
    <3>1. CASE i = 0
      BY <2>3, <3>1 DEF Iterates
    <3>2. CASE i # 0
      <4>1. i \in 1 .. total /\ f[i - 1] \in V
        BY <3>2
      <4>2. f[i] = step[<<i, f[i - 1]>>]
        BY <2>3, <4>1 DEF Iterates
      <4> QED BY <2>2, <3>2, <4>1, <4>2
    <3> QED BY <3>1, <3>2
  <2>5. f = [i \in 0 .. total |-> Body(f, i)]
    <3> HIDE DEF Body
    <3> QED BY <2>3, <2>4
  <2> QED BY <2>5
<1>5. run = [i \in 0 .. total |-> Body(run, i)]
  BY <1>4
<1> HIDE DEF run
<1>6. \A i \in 0 .. total : run[i] = Body(run, i)
  <2> HIDE DEF Body
  <2> QED BY <1>5, Zenon
<1> DEFINE T == {i \in 0 .. total :
                    run[i] \in V /\ (Len(run[i].order) = i \/ run[i].queue = <<>>)}
<1>7. 0 \in T
  <2>1. run[0] = KahnStart(edges, total)
    BY <1>6
  <2>2. KahnStart(edges, total).order = <<>>
    BY DEF KahnStart
  <2> QED BY <1>2, <2>1, <2>2
<1>8. ASSUME NEW i \in 1 .. total, i - 1 \in T PROVE i \in T
  <2>1. /\ run[i] = IF run[i - 1].queue = <<>> THEN run[i - 1]
                    ELSE KahnRound(edges, total, run[i - 1])
        /\ i \in 0 .. total
    BY <1>6
  <2>2. /\ run[i - 1] \in V
        /\ Len(run[i - 1].order) = i - 1 \/ run[i - 1].queue = <<>>
    BY <1>8
  <2>3. CASE run[i - 1].queue = <<>>
    BY <2>1, <2>2, <2>3
  <2>4. CASE run[i - 1].queue # <<>>
    <3>1. run[i] \in V /\ Len(run[i].order) = (i - 1) + 1
      BY <1>3, <2>1, <2>2, <2>4
    <3> QED BY <2>1, <3>1
  <2> QED BY <2>3, <2>4
<1>9. total \in T
  <2> HIDE DEF T, step, Body
  <2>1. \A i \in 1 .. total : i - 1 \in T => i \in T
    BY <1>8
  <2>2. \A i \in 0 .. total : i \in T
    BY <1>7, <2>1, RoundInduction
  <2> QED BY <2>2
<1>10. /\ run[total] \in KahnStates(edges, total)
       /\ Len(run[total].order) = total \/ run[total].queue = <<>>
  BY <1>9 DEF V
<1> QED BY <1>1, <1>10

(* What polytree_kahn_topo returns: every node once with the parents ahead *)
(* of their children, or nothing, and then there is a cycle.               *)
THEOREM KahnSorts ==
  ASSUME NEW total \in Nat, NEW D, NEW edges \in Seq(EdgeBelow(total, D)),
         OneParent(edges)
  PROVE  LET order == KahnTopo(edges, total)
         IN  /\ order \in Seq(0 .. total - 1)
             /\ IsInjective(order)
             /\ ParentsAhead(edges, order)
             /\ order # <<>> =>
                   Len(order) = total /\ ToSet(order) = 0 .. total - 1
             /\ order = <<>> /\ total > 0 =>
                   \E S \in SUBSET (0 .. total - 1) :
                       S # {} /\ ClosedUnderEdges(edges, S)
<1> DEFINE H == 0 .. total - 1
           order == KahnTopo(edges, total)
<1>1. PICK s \in KahnStates(edges, total) :
         /\ order = IF Len(s.order) = total THEN s.order ELSE <<>>
         /\ Len(s.order) = total \/ s.queue = <<>>
  BY KahnRuns
<1> HIDE DEF order
<1>2. /\ s.order \in Seq(H) /\ IsInjective(s.order)
      /\ ParentsAhead(edges, s.order)
      /\ \A h \in H :
            /\ s.inDegree[h] = IF Waits(edges, s.order, h) THEN 1 ELSE 0
            /\ s.inDegree[h] = 0 <=> h \in ToSet(s.queue) \cup ToSet(s.order)
  BY DEF KahnStates, ParentsAhead
<1>3. IsFiniteSet(H) /\ Cardinality(H) = total
  <2>1. /\ IsFiniteSet(H)
        /\ Cardinality(H) = IF 0 > total - 1 THEN 0 ELSE (total - 1) - 0 + 1
    BY FS_Interval
  <2> HIDE DEF H
  <2> QED BY <2>1
<1>4. /\ Len(s.order) <= total
      /\ Len(s.order) = total <=> ToSet(s.order) = H
  BY <1>2, <1>3, InjectiveLength
<1>5. CASE Len(s.order) = total
  <2>1. order = s.order
    BY <1>1, <1>5
  <2>2. order = <<>> => ~ (total > 0)
    BY <1>5, <2>1
  <2> QED BY <1>2, <1>4, <1>5, <2>1, <2>2 DEF order
<1>6. CASE Len(s.order) # total
  <2>1. order = <<>> /\ s.queue = <<>>
    BY <1>1, <1>6
  <2>2. /\ <<>> \in Seq(H) /\ IsInjective(<<>>) /\ ToSet(<<>>) = {}
        /\ ParentsAhead(edges, <<>>)
    BY DEF IsInjective, ToSet, ParentsAhead
  <2> DEFINE S == H \ ToSet(s.order)
  <2>3. S # {}
    <3>1. ToSet(s.order) \subseteq H
      BY <1>2, MembersOfSeq
    <3> QED BY <1>4, <1>6, <3>1
  <2>4. ASSUME NEW h \in S
        PROVE  \E k \in DOMAIN edges : edges[k].to = h /\ edges[k].from \in S
    <3>1. h \notin ToSet(s.queue) \cup ToSet(s.order)
      BY <2>1, <2>2
    <3>2. s.inDegree[h] # 0
      BY <1>2, <3>1
    <3>3. Waits(edges, s.order, h)
      BY <1>2, <3>2
    <3>4. PICK k \in DOMAIN edges :
             edges[k].to = h /\ edges[k].from \notin ToSet(s.order)
      BY <3>3 DEF Waits
    <3>5. edges[k].from \in H
      BY FromsAreKeys
    <3> QED BY <3>4, <3>5
  <2>5. S \in SUBSET H /\ ClosedUnderEdges(edges, S)
    BY <2>4 DEF ClosedUnderEdges
  <2> HIDE DEF S
  <2> QED BY <2>1, <2>2, <2>3, <2>5 DEF order
<1> QED BY <1>5, <1>6

(* A cycle leaves the loop without an order of every node.                 *)
LEMMA CyclesAreRejected ==
  ASSUME NEW total \in Nat, NEW D, NEW edges \in Seq(EdgeBelow(total, D)),
         OneParent(edges),
         NEW S \in SUBSET (0 .. total - 1), S # {}, ClosedUnderEdges(edges, S)
  PROVE  KahnTopo(edges, total) = <<>>
<1> DEFINE order == KahnTopo(edges, total)
<1>1. SUFFICES ASSUME order # <<>> PROVE FALSE
  OBVIOUS
<1>2. /\ order \in Seq(0 .. total - 1)
      /\ ParentsAhead(edges, order)
      /\ ToSet(order) = 0 .. total - 1
  BY <1>1, KahnSorts
<1> HIDE DEF order
<1>3. DOMAIN order = 1 .. Len(order)
  BY <1>2, LenProperties
<1> DEFINE I == {i \in 1 .. Len(order) : order[i] \in S}
<1>4. I \in SUBSET Nat /\ I # {}
  <2>1. PICK h \in S : h \in ToSet(order)
    BY <1>2
  <2> QED BY <1>3, <2>1 DEF ToSet
<1>5. Min(I) \in I /\ \A i \in I : Min(I) <= i
  BY <1>4, MinOfNaturals
<1> DEFINE j == Min(I)
<1> HIDE DEF j
<1>6. j \in 1 .. Len(order) /\ order[j] \in S /\ \A i \in I : j <= i
  BY <1>5 DEF j
<1>7. PICK k \in DOMAIN edges :
         edges[k].to = order[j] /\ edges[k].from \in S
  BY <1>6 DEF ClosedUnderEdges
<1>8. PICK i \in DOMAIN order : i < j /\ order[i] = edges[k].from
  BY <1>2, <1>3, <1>6, <1>7 DEF ParentsAhead
<1>9. i \in I
  BY <1>3, <1>7, <1>8
<1> QED BY <1>3, <1>6, <1>8, <1>9

-----------------------------------------------------------------------------
(* Builders that add_node and add_edge make, and what build makes of them  *)

(* What holds of every builder: an add_node that threw half way leaves     *)
(* parent_of one shorter than nodes, an add_edge a parent without an edge. *)
RoughBuilder(b, N, D) ==
    /\ b \in [nodes : Seq(N), edges : Seq(EdgeBelow(Len(b.nodes), D)),
              parentOf : Seq(0 .. InvalidNode)]
    /\ \/ Len(b.parentOf) = Len(b.nodes)
       \/ Len(b.parentOf) + 1 = Len(b.nodes)
    /\ Len(b.nodes) <= InvalidNode
    /\ OneParent(b.edges)
    /\ \A k \in DOMAIN b.edges :
          /\ b.edges[k].to < Len(b.parentOf)
          /\ At(b.parentOf, b.edges[k].to) = b.edges[k].from

(* What holds of a builder whose calls all ended.                          *)
SoundBuilder(b, N, D) ==
    /\ RoughBuilder(b, N, D)
    /\ Len(b.parentOf) = Len(b.nodes)
    /\ \A h \in HandlesOf(b.nodes) : At(b.parentOf, h) # InvalidNode =>
          \E k \in DOMAIN b.edges : b.edges[k].to = h

(* The vectors of a builder, by the field.                                 *)
LEMMA RoughParts ==
  ASSUME NEW N, NEW D, NEW b, RoughBuilder(b, N, D)
  PROVE  /\ b = [nodes |-> b.nodes, edges |-> b.edges,
                 parentOf |-> b.parentOf]
         /\ b.nodes \in Seq(N) /\ Len(b.nodes) \in Nat
         /\ b.edges \in Seq(EdgeBelow(Len(b.nodes), D))
         /\ Len(b.edges) \in Nat /\ DOMAIN b.edges = 1 .. Len(b.edges)
         /\ b.parentOf \in Seq(0 .. InvalidNode)
         /\ Len(b.parentOf) \in Nat
         /\ Len(b.parentOf) <= Len(b.nodes)
         /\ \A k \in 1 .. Len(b.edges) :
               /\ b.edges[k].from \in 0 .. Len(b.nodes) - 1
               /\ b.edges[k].to \in 0 .. Len(b.nodes) - 1
               /\ b.edges[k].to \in 0 .. Len(b.parentOf) - 1
               /\ b.parentOf[b.edges[k].to + 1] = b.edges[k].from
<1>1. /\ b.nodes \in Seq(N)
      /\ b.edges \in Seq(EdgeBelow(Len(b.nodes), D))
      /\ b.parentOf \in Seq(0 .. InvalidNode)
      /\ b = [nodes |-> b.nodes, edges |-> b.edges, parentOf |-> b.parentOf]
  BY DEF RoughBuilder
<1>2. /\ Len(b.nodes) \in Nat /\ Len(b.parentOf) \in Nat
      /\ Len(b.edges) \in Nat /\ DOMAIN b.edges = 1 .. Len(b.edges)
  BY <1>1, LenProperties
<1>3. Len(b.parentOf) <= Len(b.nodes)
  BY <1>2 DEF RoughBuilder
<1>4. ASSUME NEW k \in 1 .. Len(b.edges)
      PROVE  /\ b.edges[k].from \in 0 .. Len(b.nodes) - 1
             /\ b.edges[k].to \in 0 .. Len(b.nodes) - 1
             /\ b.edges[k].to \in 0 .. Len(b.parentOf) - 1
             /\ b.parentOf[b.edges[k].to + 1] = b.edges[k].from
  <2>1. /\ b.edges[k].from \in 0 .. Len(b.nodes) - 1
        /\ b.edges[k].to \in 0 .. Len(b.nodes) - 1
    BY <1>1, <1>2, FromsAreKeys
  <2>2. /\ b.edges[k].to < Len(b.parentOf)
        /\ b.parentOf[b.edges[k].to + 1] = b.edges[k].from
    BY <1>2 DEF RoughBuilder, At
  <2> QED BY <1>2, <2>1, <2>2
<1> QED BY <1>1, <1>2, <1>3, <1>4

(* In a sound builder the edges are the parents.                           *)
LEMMA EdgesAreParents ==
  ASSUME NEW N, NEW D, NEW b, SoundBuilder(b, N, D)
  PROVE  \A h \in HandlesOf(b.nodes) :
            /\ At(b.parentOf, h) \in HandlesOf(b.nodes) \cup {InvalidNode}
            /\ \A p \in HandlesOf(b.nodes) :
                  At(b.parentOf, h) = p <=>
                     \E k \in DOMAIN b.edges :
                        b.edges[k].to = h /\ b.edges[k].from = p
<1> DEFINE H == HandlesOf(b.nodes)
<1>1. RoughBuilder(b, N, D) /\ Len(b.nodes) <= InvalidNode
  BY DEF SoundBuilder, RoughBuilder
<1>2. /\ Len(b.nodes) \in Nat
      /\ \A k \in DOMAIN b.edges :
            /\ At(b.parentOf, b.edges[k].to) = b.edges[k].from
            /\ b.edges[k].from \in H /\ b.edges[k].to \in H
      /\ \A h \in H : At(b.parentOf, h) # InvalidNode =>
            \E k \in DOMAIN b.edges : b.edges[k].to = h
  BY <1>1, RoughParts DEF SoundBuilder, At, HandlesOf
<1>3. \A p \in H : p # InvalidNode
  BY <1>1, <1>2, InvalidNodeAssumption DEF HandlesOf
<1> HIDE DEF H
<1>4. ASSUME NEW h \in H
      PROVE  At(b.parentOf, h) \in H \cup {InvalidNode}
  BY <1>2
<1>5. ASSUME NEW h \in H, NEW p \in H
      PROVE  At(b.parentOf, h) = p <=>
                \E k \in DOMAIN b.edges :
                   b.edges[k].to = h /\ b.edges[k].from = p
  BY <1>2, <1>3
<1> QED BY <1>4, <1>5 DEF H

(* The empty builder is sound.                                             *)
LEMMA EmptyIsSound ==
  ASSUME NEW N, NEW D
  PROVE  SoundBuilder(EmptyBuilder, N, D)
<1>1. EmptyBuilder = [nodes |-> <<>>, edges |-> <<>>, parentOf |-> <<>>]
  BY DEF EmptyBuilder
<1>2. DOMAIN <<>> = {} /\ Len(<<>>) = 0
  OBVIOUS
<1>3. HandlesOf(<<>>) = {}
  BY <1>2 DEF HandlesOf
<1> QED BY <1>1, <1>2, <1>3, InvalidNodeAssumption
     DEF SoundBuilder, RoughBuilder, OneParent

(* A node appended to a builder whose calls all ended leaves a rough one   *)
(* when add_node stops before parent_of.                                   *)
LEMMA HalfNodeKeepsRough ==
  ASSUME NEW N, NEW D, NEW b, SoundBuilder(b, N, D), NEW data \in N,
         Len(b.nodes) < InvalidNode
  PROVE  LET c == WithNodeOnly(b, data)
         IN  RoughBuilder(c, N, D) /\ Len(c.nodes) = Len(b.nodes) + 1
<1> DEFINE x == Append(b.nodes, data)
           c == [b EXCEPT !.nodes = x]
           n == Len(b.nodes)
<1>1. RoughBuilder(b, N, D) /\ Len(b.parentOf) = n
  BY DEF SoundBuilder
<1>2. /\ b = [nodes |-> b.nodes, edges |-> b.edges, parentOf |-> b.parentOf]
      /\ b.nodes \in Seq(N) /\ n \in Nat
      /\ b.edges \in Seq(EdgeBelow(n, D))
      /\ b.parentOf \in Seq(0 .. InvalidNode)
  BY <1>1, RoughParts
<1>3. x \in Seq(N) /\ Len(x) = n + 1
  BY <1>2, AppendProperties
<1> HIDE DEF x
<1>4. c = [nodes |-> x, edges |-> b.edges, parentOf |-> b.parentOf]
  BY <1>2
<1> HIDE DEF c
<1>5. b.edges \in Seq(EdgeBelow(n + 1, D))
  <2>1. EdgeBelow(n, D) \subseteq EdgeBelow(n + 1, D)
    BY <1>2 DEF EdgeBelow
  <2> QED BY <1>2, <2>1, SeqMonotonic
<1>6. RoughBuilder(c, N, D)
  BY <1>1, <1>2, <1>3, <1>4, <1>5, InvalidNodeAssumption DEF RoughBuilder
<1>7. c = WithNodeOnly(b, data)
  BY Zenon DEF WithNodeOnly, c, x
<1> QED BY <1>3, <1>4, <1>6, <1>7

(* The fields of the builder that add_node leaves.                         *)
LEMMA NodeAppended ==
  ASSUME NEW b, NEW data,
         b = [nodes |-> b.nodes, edges |-> b.edges, parentOf |-> b.parentOf]
  PROVE  WithNode(b, data) =
            [nodes |-> Append(b.nodes, data), edges |-> b.edges,
             parentOf |-> Append(b.parentOf, InvalidNode)]
<1> DEFINE x == Append(b.nodes, data)
           y == Append(b.parentOf, InvalidNode)
           half == [b EXCEPT !.nodes = x]
<1>1. WithNode(b, data) = [b EXCEPT !.nodes = x, !.parentOf = y]
  BY Zenon DEF WithNode
<1> HIDE DEF x, y
<1>2. WithNode(b, data) = [half EXCEPT !.parentOf = y]
  BY <1>1, Zenon
<1>3. half = [nodes |-> x, edges |-> b.edges, parentOf |-> b.parentOf]
  OBVIOUS
<1> HIDE DEF half
<1>4. [half EXCEPT !.parentOf = y]
         = [nodes |-> x, edges |-> b.edges, parentOf |-> y]
  BY <1>3
<1> QED BY <1>2, <1>4, Zenon DEF x, y

(* add_node keeps a builder rough or sound, up to the size handles can     *)
(* count.                                                                  *)
LEMMA NodeKeepsBuilder ==
  ASSUME NEW N, NEW D, NEW b, RoughBuilder(b, N, D), NEW data \in N,
         Len(b.nodes) < InvalidNode
  PROVE  /\ RoughBuilder(WithNode(b, data), N, D)
         /\ SoundBuilder(b, N, D) => SoundBuilder(WithNode(b, data), N, D)
         /\ Len(WithNode(b, data).nodes) = Len(b.nodes) + 1
<1> DEFINE c == WithNode(b, data)
           n == Len(b.nodes)
           m == Len(b.parentOf)
           x == Append(b.nodes, data)
           y == Append(b.parentOf, InvalidNode)
<1>1. /\ b = [nodes |-> b.nodes, edges |-> b.edges, parentOf |-> b.parentOf]
      /\ b.nodes \in Seq(N) /\ n \in Nat
      /\ b.edges \in Seq(EdgeBelow(n, D))
      /\ DOMAIN b.edges = 1 .. Len(b.edges)
      /\ b.parentOf \in Seq(0 .. InvalidNode) /\ m \in Nat
      /\ \A k \in 1 .. Len(b.edges) :
            /\ b.edges[k].to \in 0 .. m - 1
            /\ b.parentOf[b.edges[k].to + 1] = b.edges[k].from
  BY RoughParts
<1>2. x \in Seq(N) /\ Len(x) = n + 1
  BY <1>1, AppendProperties
<1>3. /\ y \in Seq(0 .. InvalidNode) /\ Len(y) = m + 1
      /\ \A i \in 1 .. m : y[i] = b.parentOf[i]
      /\ y[m + 1] = InvalidNode
  BY <1>1, InvalidNodeAssumption, AppendProperties
<1>4. b = [nodes |-> b.nodes, edges |-> b.edges, parentOf |-> b.parentOf]
  BY <1>1
<1>5. c = [nodes |-> x, edges |-> b.edges, parentOf |-> y]
  BY <1>4, NodeAppended, Zenon
<1> HIDE DEF x, y, c
<1>6. b.edges \in Seq(EdgeBelow(n + 1, D))
  <2>1. EdgeBelow(n, D) \subseteq EdgeBelow(n + 1, D)
    BY <1>1 DEF EdgeBelow
  <2> QED BY <1>1, <2>1, SeqMonotonic
<1>7. ASSUME NEW k \in DOMAIN c.edges
      PROVE  /\ c.edges[k].to < Len(c.parentOf)
             /\ At(c.parentOf, c.edges[k].to) = c.edges[k].from
  <2> DEFINE to == b.edges[k].to
  <2>1. to \in 0 .. m - 1 /\ b.parentOf[to + 1] = b.edges[k].from
    BY <1>1, <1>5
  <2>2. c.edges[k].to = to /\ c.edges[k].from = b.edges[k].from
    BY <1>5
  <2> HIDE DEF to
  <2>3. y[to + 1] = b.parentOf[to + 1] /\ to < m + 1
    BY <1>1, <1>3, <2>1
  <2> QED BY <1>3, <1>5, <2>1, <2>2, <2>3 DEF At
<1>8. c \in [nodes : Seq(N), edges : Seq(EdgeBelow(n + 1, D)),
             parentOf : Seq(0 .. InvalidNode)]
  BY <1>2, <1>3, <1>5, <1>6
<1>9. RoughBuilder(c, N, D)
  <2>1. /\ Len(c.nodes) = n + 1 /\ Len(c.parentOf) = m + 1
        /\ c.edges = b.edges
    BY <1>2, <1>3, <1>5
  <2>2. /\ m = n \/ m + 1 = n
        /\ OneParent(b.edges)
    BY DEF RoughBuilder
  <2>3. n + 1 <= InvalidNode
    BY <1>1, InvalidNodeAssumption
  <2> QED BY <1>1, <1>7, <1>8, <2>1, <2>2, <2>3 DEF RoughBuilder
<1>10. ASSUME SoundBuilder(b, N, D)
       PROVE  SoundBuilder(c, N, D)
  <2>1. m = n
    BY <1>10 DEF SoundBuilder
  <2>2. ASSUME NEW h \in HandlesOf(c.nodes), At(c.parentOf, h) # InvalidNode
        PROVE  \E k \in DOMAIN c.edges : c.edges[k].to = h
    <3>1. h \in 0 .. n
      BY <1>1, <1>2, <1>5 DEF HandlesOf
    <3>2. h # n
      BY <1>3, <1>5, <2>1, <2>2 DEF At
    <3>3. h \in 0 .. n - 1 /\ h + 1 \in 1 .. m
      BY <1>1, <2>1, <3>1, <3>2
    <3>4. h \in HandlesOf(b.nodes) /\ At(b.parentOf, h) # InvalidNode
      BY <1>3, <1>5, <2>2, <3>3 DEF HandlesOf, At
    <3>5. PICK k \in DOMAIN b.edges : b.edges[k].to = h
      BY <1>10, <3>4 DEF SoundBuilder
    <3> QED BY <1>5, <3>5
  <2>3. Len(c.parentOf) = Len(c.nodes)
    BY <1>2, <1>3, <1>5, <2>1
  <2> QED BY <1>9, <2>2, <2>3 DEF SoundBuilder
<1> QED BY <1>2, <1>5, <1>9, <1>10 DEF c

WithParent(b, from, to) ==
    [b EXCEPT !.parentOf = [@ EXCEPT ![to + 1] = from]]

(* The parent an add_edge assigns before it appends the edge, which it     *)
(* then may not reach.                                                     *)
LEMMA HalfEdgeKeepsRough ==
  ASSUME NEW N, NEW D, NEW b, RoughBuilder(b, N, D),
         NEW from \in Nat, NEW to \in Nat, AcceptsEdge(b, from, to),
         to < Len(b.parentOf)
  PROVE  LET half == WithParent(b, from, to)
         IN  /\ RoughBuilder(half, N, D)
             /\ half.nodes = b.nodes /\ half.edges = b.edges
             /\ Len(half.parentOf) = Len(b.parentOf)
             /\ \A i \in 1 .. Len(b.parentOf) :
                   half.parentOf[i] =
                      IF i = to + 1 THEN from ELSE b.parentOf[i]
             /\ \A k \in DOMAIN b.edges : b.edges[k].to # to
<1> DEFINE n == Len(b.nodes)
           m == Len(b.parentOf)
           l == Len(b.edges)
           y == [b.parentOf EXCEPT ![to + 1] = from]
           half == [b EXCEPT !.parentOf = y]
<1>1. /\ b = [nodes |-> b.nodes, edges |-> b.edges, parentOf |-> b.parentOf]
      /\ b.nodes \in Seq(N) /\ n \in Nat
      /\ b.edges \in Seq(EdgeBelow(n, D))
      /\ l \in Nat /\ DOMAIN b.edges = 1 .. l
      /\ b.parentOf \in Seq(0 .. InvalidNode) /\ m \in Nat /\ m <= n
      /\ \A k \in 1 .. l :
            /\ b.edges[k].from \in 0 .. n - 1
            /\ b.edges[k].to \in 0 .. m - 1
            /\ b.parentOf[b.edges[k].to + 1] = b.edges[k].from
  BY RoughParts
<1>2. /\ n <= InvalidNode
      /\ m = n \/ m + 1 = n
      /\ OneParent(b.edges)
  BY DEF RoughBuilder
<1>3. /\ from \in 0 .. n - 1 /\ to \in 0 .. m - 1
      /\ to + 1 \in 1 .. m /\ from \in 0 .. InvalidNode
      /\ b.parentOf[to + 1] = InvalidNode
  BY <1>1, <1>2, InvalidNodeAssumption DEF AcceptsEdge, At
<1>4. /\ y \in Seq(0 .. InvalidNode) /\ Len(y) = m
      /\ \A i \in 1 .. m :
            y[i] = IF i = to + 1 THEN from ELSE b.parentOf[i]
  BY <1>1, <1>3, ExceptSeq
<1> HIDE DEF y
<1>5. half = [nodes |-> b.nodes, edges |-> b.edges, parentOf |-> y]
  BY <1>1
<1> HIDE DEF half
(* The child had no parent: no edge led to it.                             *)
<1>6. ASSUME NEW k \in 1 .. l
      PROVE  b.edges[k].to # to
  <2>1. b.edges[k].from \in 0 .. n - 1
    BY <1>1
  <2>2. b.edges[k].from # InvalidNode
    BY <1>1, <1>2, <2>1, InvalidNodeAssumption
  <2> QED BY <1>1, <1>3, <2>2
<1>7. ASSUME NEW k \in 1 .. l
      PROVE  y[b.edges[k].to + 1] = b.edges[k].from
  <2> DEFINE x == b.edges[k].to
  <2>1. x \in 0 .. m - 1 /\ x # to /\ b.parentOf[x + 1] = b.edges[k].from
    BY <1>1, <1>6
  <2> HIDE DEF x
  <2>2. x + 1 \in 1 .. m /\ x + 1 # to + 1
    <3>1. m \in Nat /\ to \in 0 .. m - 1 /\ x \in 0 .. m - 1 /\ x # to
      BY <1>1, <1>3, <2>1
    <3> HIDE DEF m
    <3> QED BY <3>1
  <2>3. y[x + 1] = b.parentOf[x + 1]
    BY <1>4, <2>2
  <2> QED BY <2>1, <2>3 DEF x
<1>8. half \in [nodes : Seq(N), edges : Seq(EdgeBelow(n, D)),
                parentOf : Seq(0 .. InvalidNode)]
  BY <1>1, <1>4, <1>5
<1>9. RoughBuilder(half, N, D)
  <2>1. /\ half.nodes = b.nodes /\ half.edges = b.edges /\ half.parentOf = y
    BY <1>5
  <2>2. \A k \in DOMAIN half.edges :
           /\ half.edges[k].to < Len(half.parentOf)
           /\ At(half.parentOf, half.edges[k].to) = half.edges[k].from
    BY <1>1, <1>4, <1>7, <2>1 DEF At
  <2> QED BY <1>2, <1>4, <1>8, <2>1, <2>2 DEF RoughBuilder
<1>10. /\ half.nodes = b.nodes /\ half.edges = b.edges
       /\ Len(half.parentOf) = m
       /\ \A i \in 1 .. m :
             half.parentOf[i] = IF i = to + 1 THEN from ELSE b.parentOf[i]
  BY <1>4, <1>5
<1>11. half = WithParent(b, from, to)
  BY Zenon DEF WithParent, half, y
<1> QED BY <1>1, <1>6, <1>9, <1>10, <1>11

(* add_edge keeps a builder rough or sound.                                *)
LEMMA EdgeKeepsBuilder ==
  ASSUME NEW N, NEW D, NEW b, RoughBuilder(b, N, D), NEW data \in D,
         NEW from \in Nat, NEW to \in Nat, AcceptsEdge(b, from, to),
         to < Len(b.parentOf)
  PROVE  LET c == WithEdge(b, from, to, data)
         IN  /\ RoughBuilder(c, N, D)
             /\ SoundBuilder(b, N, D) => SoundBuilder(c, N, D)
             /\ c.nodes = b.nodes
<1> DEFINE n == Len(b.nodes)
           m == Len(b.parentOf)
           l == Len(b.edges)
           edge == [from |-> from, to |-> to, data |-> data]
           x == Append(b.edges, edge)
           y == [b.parentOf EXCEPT ![to + 1] = from]
           half == WithParent(b, from, to)
           c == WithEdge(b, from, to, data)
<1>1. /\ RoughBuilder(half, N, D)
      /\ half.nodes = b.nodes /\ half.edges = b.edges
      /\ Len(half.parentOf) = m
      /\ \A i \in 1 .. m :
            half.parentOf[i] = IF i = to + 1 THEN from ELSE b.parentOf[i]
      /\ \A k \in DOMAIN b.edges : b.edges[k].to # to
  BY HalfEdgeKeepsRough
<1>2. c = [b EXCEPT !.parentOf = y, !.edges = x]
  BY Zenon DEF WithEdge
<1> HIDE DEF x, y, edge
<1>3. c = [half EXCEPT !.edges = x]
  BY <1>2, Zenon DEF WithParent, y
<1> HIDE DEF half, c
<1>4. /\ half = [nodes |-> half.nodes, edges |-> half.edges,
                 parentOf |-> half.parentOf]
      /\ b.nodes \in Seq(N) /\ n \in Nat /\ m \in Nat
      /\ b.edges \in Seq(EdgeBelow(n, D))
      /\ l \in Nat /\ DOMAIN b.edges = 1 .. l
      /\ half.parentOf \in Seq(0 .. InvalidNode)
      /\ \A k \in 1 .. l :
            /\ b.edges[k].to \in 0 .. m - 1
            /\ half.parentOf[b.edges[k].to + 1] = b.edges[k].from
  BY <1>1, RoughParts
<1>5. c = [nodes |-> b.nodes, edges |-> x, parentOf |-> half.parentOf]
  BY <1>1, <1>3, <1>4
<1>6. /\ from \in 0 .. n - 1 /\ to \in 0 .. n - 1 /\ to \in 0 .. m - 1
      /\ to + 1 \in 1 .. m
  BY <1>4 DEF AcceptsEdge
<1>7. edge.from = from /\ edge.to = to /\ edge \in EdgeBelow(n, D)
  BY <1>6 DEF EdgeBelow, edge
<1>8. /\ x \in Seq(EdgeBelow(n, D)) /\ Len(x) = l + 1
      /\ \A k \in 1 .. l : x[k] = b.edges[k]
      /\ x[l + 1] = edge
  BY <1>4, <1>7, AppendProperties DEF x
<1>9. DOMAIN x = 1 .. l + 1
  BY <1>8, LenProperties
<1>10. /\ n <= InvalidNode
       /\ m = n \/ m + 1 = n
       /\ \A j, k \in 1 .. l : b.edges[j].to = b.edges[k].to => j = k
  BY <1>4 DEF RoughBuilder, OneParent
<1>11. OneParent(c.edges)
  <2>1. ASSUME NEW j \in 1 .. l + 1, NEW k \in 1 .. l + 1, x[j].to = x[k].to
        PROVE  j = k
    <3>1. CASE j \in 1 .. l /\ k \in 1 .. l
      BY <1>8, <1>10, <2>1, <3>1
    <3>2. CASE j = l + 1 /\ k \in 1 .. l
      BY <1>1, <1>4, <1>7, <1>8, <2>1, <3>2
    <3>3. CASE j \in 1 .. l /\ k = l + 1
      BY <1>1, <1>4, <1>7, <1>8, <2>1, <3>3
    <3>4. CASE j = l + 1 /\ k = l + 1
      BY <3>4
    <3>5. l \in Nat
      BY <1>4
    <3>6. (j \in 1 .. l \/ j = l + 1) /\ (k \in 1 .. l \/ k = l + 1)
      BY <3>5
    <3> QED BY Zenon, <3>1, <3>2, <3>3, <3>4, <3>6
  <2>2. c.edges = x
    BY <1>5
  <2>3. \A j \in DOMAIN x : \A k \in DOMAIN x : x[j].to = x[k].to => j = k
    BY Zenon, <1>9, <2>1
  <2> QED BY <2>2, <2>3 DEF OneParent
<1>12. ASSUME NEW k \in 1 .. l + 1
       PROVE  x[k].to < m /\ half.parentOf[x[k].to + 1] = x[k].from
  <2>1. CASE k \in 1 .. l
    <3>1. /\ m \in Nat
          /\ b.edges[k].to \in 0 .. m - 1
          /\ half.parentOf[b.edges[k].to + 1] = b.edges[k].from
      BY <1>4, <2>1
    <3>2. x[k] = b.edges[k]
      BY <1>8, <2>1
    <3> QED BY <3>1, <3>2
  <2>2. CASE k = l + 1
    <3>1. half.parentOf[to + 1] = from
      BY <1>1, <1>6
    <3> QED BY <1>4, <1>6, <1>7, <1>8, <2>2, <3>1
  <2> QED BY <1>4, <2>1, <2>2
<1>13. c \in [nodes : Seq(N), edges : Seq(EdgeBelow(n, D)),
              parentOf : Seq(0 .. InvalidNode)]
  BY <1>4, <1>5, <1>8
<1>14. c.nodes = b.nodes /\ c.edges = x /\ c.parentOf = half.parentOf
  BY <1>5
<1>15. RoughBuilder(c, N, D)
  <2>1. \A k \in DOMAIN c.edges :
           /\ c.edges[k].to < Len(c.parentOf)
           /\ At(c.parentOf, c.edges[k].to) = c.edges[k].from
    BY <1>1, <1>9, <1>12, <1>14 DEF At
  <2> QED BY <1>1, <1>10, <1>11, <1>13, <1>14, <2>1 DEF RoughBuilder
<1>16. ASSUME SoundBuilder(b, N, D)
       PROVE  SoundBuilder(c, N, D)
  <2>1. m = n /\ \A h \in HandlesOf(b.nodes) :
           At(b.parentOf, h) # InvalidNode =>
              \E k \in DOMAIN b.edges : b.edges[k].to = h
    BY <1>16 DEF SoundBuilder
  <2>2. ASSUME NEW h \in HandlesOf(c.nodes), At(c.parentOf, h) # InvalidNode
        PROVE  \E k \in DOMAIN c.edges : c.edges[k].to = h
    <3>1. CASE h = to
      <4>1. l + 1 \in DOMAIN c.edges /\ c.edges[l + 1].to = h
        BY <1>4, <1>7, <1>8, <1>9, <1>14, <3>1
      <4> QED BY <4>1
    <3>2. CASE h # to
      <4>1. h \in HandlesOf(b.nodes) /\ h \in 0 .. n - 1
        BY <1>14 DEF HandlesOf
      <4>2. h + 1 \in 1 .. m /\ h + 1 # to + 1
        BY <1>4, <2>1, <3>2, <4>1
      <4>3. At(b.parentOf, h) # InvalidNode
        BY <1>1, <1>14, <2>2, <4>2 DEF At
      <4>4. PICK k \in 1 .. l : b.edges[k].to = h
        BY <1>4, <2>1, <4>1, <4>3
      <4> QED BY <1>4, <1>8, <1>9, <1>14, <4>4
    <3> QED BY <3>1, <3>2
  <2> QED BY <1>1, <1>14, <1>15, <2>1, <2>2 DEF SoundBuilder
<1> QED BY <1>14, <1>15, <1>16 DEF c

-----------------------------------------------------------------------------
(* What build makes of a sound builder *)

(* Edges sorted by their parent are the same edges.                        *)
LEMMA SortedKeepsEdges ==
  ASSUME NEW total \in Nat, NEW D, NEW edges \in Seq(EdgeBelow(total, D))
  PROVE  LET sorted == EdgeAt(edges, total)
         IN  /\ sorted \in Seq(EdgeBelow(total, D))
             /\ Len(sorted) = Len(edges)
             /\ DOMAIN sorted = DOMAIN edges
             /\ \A s \in DOMAIN edges : \E k \in DOMAIN edges :
                   sorted[s] = edges[k]
             /\ \A k \in DOMAIN edges : \E s \in DOMAIN edges :
                   sorted[s] = edges[k]
             /\ OneParent(edges) => OneParent(sorted)
<1> DEFINE sorted == EdgeAt(edges, total)
           n == Len(edges)
           key == FromOf(edges)
<1>1. n \in Nat /\ DOMAIN edges = 1 .. n
  BY FromsAreKeys
<1>2. sorted \in Seq(EdgeBelow(total, D)) /\ Len(sorted) = n
  BY EdgesGrouped
<1>3. DOMAIN sorted = 1 .. n
  BY <1>2, LenProperties
<1>4. PICK source : PlacedFrom(edges, total, source)
  BY EdgesGrouped
<1>5. /\ \A s \in 1 .. n : /\ source[s] \in 1 .. n
                           /\ sorted[s] = edges[source[s]]
                           /\ Place(key, source[s]) = s
      /\ \A k \in 1 .. n : source[Place(key, k)] = k
  BY <1>4 DEF PlacedFrom
<1>6. \A k \in 1 .. n : Place(key, k) \in 1 .. n
  BY <1>1, FromsAreKeys, PlacesPermute
<1> HIDE DEF sorted, n, key
<1>7. \A k \in 1 .. n : \E s \in 1 .. n : sorted[s] = edges[k]
  BY <1>5, <1>6
<1>8. \A s \in 1 .. n : \E k \in 1 .. n : sorted[s] = edges[k]
  BY <1>5
<1>9. ASSUME OneParent(edges) PROVE OneParent(sorted)
  <2>1. ASSUME NEW s \in 1 .. n, NEW r \in 1 .. n, sorted[s].to = sorted[r].to
        PROVE  s = r
    <3>1. source[s] = source[r]
      BY <1>1, <1>5, <1>9, <2>1 DEF OneParent
    <3> QED BY <1>5, <3>1
  <2> QED BY <1>3, <2>1 DEF OneParent
<1> QED BY <1>1, <1>2, <1>3, <1>7, <1>8, <1>9 DEF sorted, n

(* Up to the size a handle can count nothing wraps.                        *)
LEMMA SmallSizesFit ==
  ASSUME NEW N, NEW nodes \in Seq(N), Len(nodes) < InvalidNode
  PROVE  SizesFit(nodes)
<1>1. /\ Len(nodes) \in 0 .. InvalidNode
      /\ Len(nodes) + 1 \in 0 .. InvalidNode
      /\ InvalidNode \in Nat
  BY InvalidNodeAssumption, LenProperties
<1> DEFINE n == Len(nodes)
           m == InvalidNode
<1> HIDE DEF n, m
<1>2. n % (m + 1) = n /\ (n + 1) % (m + 1) = n + 1
  BY <1>1 DEF n, m
<1> QED BY <1>2 DEF SizesFit, AsHandle, n, m

(* build refuses a sound builder or returns the topology of its nodes in   *)
(* the order of Kahn's algorithm.                                          *)
LEMMA BuildOfSound ==
  ASSUME NEW N, NEW D, NEW b, SoundBuilder(b, N, D)
  PROVE  LET order == KahnTopo(b.edges, Len(b.nodes))
         IN  /\ Build(b).status \in {"undefined", "nullopt", "built"}
             /\ Build(b).status = "built" =>
                   /\ Build(b).topology = Topology(b)
                   /\ Len(order) = Len(b.nodes)
                   /\ ToSet(order) = HandlesOf(b.nodes)
             /\ Len(b.nodes) < InvalidNode =>
                   (Build(b).status = "nullopt"
                       <=> order = <<>> /\ Len(b.nodes) > 0)
<1> DEFINE total == Len(b.nodes)
           order == KahnTopo(b.edges, total)
<1>1. /\ b.nodes \in Seq(N) /\ total \in Nat
      /\ b.edges \in Seq(EdgeBelow(total, D))
      /\ OneParent(b.edges)
  BY RoughParts DEF SoundBuilder, RoughBuilder
<1>2. /\ order \in Seq(0 .. total - 1)
      /\ order # <<>> => Len(order) = total /\ ToSet(order) = 0 .. total - 1
  BY <1>1, KahnSorts
<1>3. ParentsCover(b)
  BY <1>1 DEF SoundBuilder, ParentsCover
<1>4. total < InvalidNode => SizesFit(b.nodes)
  BY <1>1, SmallSizesFit
<1>5. total = 0 => HandlesOf(b.nodes) = {} /\ ToSet(<<>>) = {}
  BY DEF HandlesOf, ToSet
<1>6. Build(b) = IF ~SizesFit(b.nodes) THEN [status |-> "undefined"]
                 ELSE IF order = <<>> /\ total > 0
                 THEN [status |-> "nullopt"]
                 ELSE [status |-> "built", topology |-> Topology(b)]
  BY <1>3 DEF Build, BuildOf
<1>7. HandlesOf(b.nodes) = 0 .. total - 1
  BY DEF HandlesOf
<1> HIDE DEF order, total
<1>8. ASSUME SizesFit(b.nodes), ~(order = <<>> /\ total > 0)
      PROVE  Len(order) = total /\ ToSet(order) = HandlesOf(b.nodes)
  <2>1. CASE order # <<>>
    BY <1>2, <1>7, <2>1
  <2>2. CASE order = <<>>
    <3>1. total = 0
      BY <1>1, <1>8, <2>2
    <3> QED BY <1>5, <2>2, <3>1
  <2> QED BY <2>1, <2>2
<1> QED BY <1>4, <1>6, <1>8 DEF order, total

(* The row of a node in what build makes: its children, each once.         *)
LEMMA RowsOfTopology ==
  ASSUME NEW N, NEW D, NEW b, SoundBuilder(b, N, D),
         NEW p \in HandlesOf(b.nodes)
  PROVE  LET t == Topology(b)
             span == ChildSpan(t, p)
         IN  /\ span \in Seq(HandlesOf(b.nodes))
             /\ ToSet(span) = {c \in HandlesOf(b.nodes) : At(b.parentOf, c) = p}
             /\ IsInjective(span)
<1> DEFINE total == Len(b.nodes)
           sorted == EdgeAt(b.edges, total)
           placed == EdgeAt(sorted, total)
           t == Topology(b)
           span == ChildSpan(t, p)
<1>1. /\ b.nodes \in Seq(N) /\ total \in Nat
      /\ b.edges \in Seq(EdgeBelow(total, D))
      /\ OneParent(b.edges)
      /\ \A k \in DOMAIN b.edges : b.edges[k].to \in 0 .. total - 1
  BY RoughParts DEF SoundBuilder, RoughBuilder
<1>2. /\ sorted \in Seq(EdgeBelow(total, D))
      /\ DOMAIN sorted = DOMAIN b.edges
      /\ \A s \in DOMAIN b.edges : \E k \in DOMAIN b.edges :
            sorted[s] = b.edges[k]
      /\ \A k \in DOMAIN b.edges : \E s \in DOMAIN b.edges :
            sorted[s] = b.edges[k]
      /\ OneParent(sorted)
  BY <1>1, SortedKeepsEdges
<1> HIDE DEF sorted
<1>3. DOMAIN placed = DOMAIN sorted
  BY <1>1, <1>2, SortedKeepsEdges
<1>4. /\ t.outOffsets = Offsets(sorted, total)
      /\ t.outNeighbors = [s \in DOMAIN placed |-> placed[s].to]
  BY DEF Topology, SortedByParent, sorted
<1>5. span = Targets(sorted, total, p)
  BY <1>3, <1>4 DEF ChildSpan, Targets, Adjacency
<1>6. p \in 0 .. total - 1
  BY DEF HandlesOf
<1>7. /\ span \in Seq(0 .. total - 1)
      /\ ToSet(span) = {sorted[k].to :
                           k \in {k \in DOMAIN sorted : sorted[k].from = p}}
      /\ IsInjective(span)
  <2> HIDE DEF total, span, t, placed
  <2>1. /\ Targets(sorted, total, p) \in Seq(0 .. total - 1)
        /\ ToSet(Targets(sorted, total, p)) = EndsOf(sorted, p)
        /\ IsInjective(Targets(sorted, total, p))
    <3>1. /\ total \in Nat /\ sorted \in Seq(EdgeBelow(total, D))
          /\ p \in 0 .. total - 1 /\ OneParent(sorted)
      BY <1>1, <1>2, <1>6
    <3>2. ToSet(Targets(sorted, total, p)) = EndsOf(sorted, p)
      BY <3>1, TargetsAreChildren, Zenon
    <3>3. /\ Targets(sorted, total, p) \in Seq(0 .. total - 1)
          /\ IsInjective(Targets(sorted, total, p))
      BY <3>1, TargetsAreChildren, Zenon
    <3> QED BY <3>2, <3>3
  <2> QED BY <1>5, <2>1 DEF EndsOf
<1>8. \A c \in HandlesOf(b.nodes) : At(b.parentOf, c) = p <=>
         \E k \in DOMAIN b.edges : b.edges[k].to = c /\ b.edges[k].from = p
  BY EdgesAreParents
<1>9. HandlesOf(b.nodes) = 0 .. total - 1
  BY DEF HandlesOf
<1> HIDE DEF span, t, placed, total
<1>10. ToSet(span) = {c \in HandlesOf(b.nodes) : At(b.parentOf, c) = p}
  <2>1. ASSUME NEW c \in ToSet(span)
        PROVE  c \in HandlesOf(b.nodes) /\ At(b.parentOf, c) = p
    <3>1. PICK s \in DOMAIN sorted : sorted[s].from = p /\ c = sorted[s].to
      BY <1>7
    <3>2. PICK k \in DOMAIN b.edges : sorted[s] = b.edges[k]
      BY <1>2
    <3> QED BY <1>1, <1>8, <1>9, <3>1, <3>2
  <2>2. ASSUME NEW c \in HandlesOf(b.nodes), At(b.parentOf, c) = p
        PROVE  c \in ToSet(span)
    <3>1. PICK k \in DOMAIN b.edges : b.edges[k].to = c /\ b.edges[k].from = p
      BY <1>8, <2>2
    <3>2. PICK s \in DOMAIN b.edges : sorted[s] = b.edges[k]
      BY <1>2
    <3> QED BY <1>2, <1>7, <3>1, <3>2
  <2> QED BY <2>1, <2>2
<1> QED BY <1>7, <1>9, <1>10 DEF span, t

(* The payload of each edge, from its parent and from its child.           *)
LEMMA PayloadsOfTopology ==
  ASSUME NEW N, NEW D, NEW b, SoundBuilder(b, N, D),
         NEW p \in HandlesOf(b.nodes)
  PROVE  LET t == Topology(b)
         IN  /\ Len(ChildSpan(t, p)) = t.outOffsets[p + 1] - t.outOffsets[p]
             /\ Len(ChildEdgeSpan(t, p)) = Len(ChildSpan(t, p))
             /\ DOMAIN ChildEdgeSpan(t, p) = 1 .. Len(ChildSpan(t, p))
             /\ \A i \in DOMAIN ChildSpan(t, p) :
                   At(t.parentEdgeData, ChildSpan(t, p)[i])
                      = ChildEdgeSpan(t, p)[i]
<1> DEFINE total == Len(b.nodes)
           sorted == EdgeAt(b.edges, total)
           placed == EdgeAt(sorted, total)
           n == Len(sorted)
           offsets == Offsets(sorted, total)
           neighbors == [s \in DOMAIN placed |-> placed[s].to]
           data == [s \in DOMAIN placed |-> placed[s].data]
           t == Topology(b)
<1>1. /\ total \in Nat
      /\ b.edges \in Seq(EdgeBelow(total, D))
      /\ OneParent(b.edges)
  BY RoughParts DEF SoundBuilder, RoughBuilder
<1>2. /\ sorted \in Seq(EdgeBelow(total, D))
      /\ OneParent(sorted)
  BY <1>1, SortedKeepsEdges
<1>3. p \in 0 .. total - 1
  BY DEF HandlesOf
<1> HIDE DEF sorted
<1>4. /\ placed \in Seq(EdgeBelow(total, D))
      /\ DOMAIN placed = DOMAIN sorted
      /\ \A s \in DOMAIN sorted : \E k \in DOMAIN sorted : placed[s] = sorted[k]
  BY <1>1, <1>2, SortedKeepsEdges
<1>5. n \in Nat /\ DOMAIN sorted = 1 .. n
  BY <1>2, LenProperties
<1>6. \A s \in 1 .. n : placed[s].to \in 0 .. total - 1 /\ placed[s].data \in D
  <2>1. \A s \in 1 .. n : placed[s] \in EdgeBelow(total, D)
    BY <1>4, <1>5, ElementOfSeq, LenProperties
  <2> QED BY <2>1 DEF EdgeBelow
<1>7. /\ neighbors \in Seq(0 .. total - 1) /\ Len(neighbors) = n
      /\ data \in Seq(D) /\ Len(data) = n
  <2>1. /\ neighbors \in [1 .. n -> 0 .. total - 1]
        /\ data \in [1 .. n -> D]
    BY <1>4, <1>5, <1>6
  <2> HIDE DEF neighbors, data, n
  <2> QED BY <1>5, <2>1
<1>8. /\ t.outOffsets = offsets
      /\ t.outNeighbors = neighbors
      /\ t.outEdgeData = data
      /\ t.parentEdgeData = ParentEdges(sorted, total)
  BY DEF Topology, SortedByParent, sorted
<1> DEFINE span == Span(offsets, neighbors, p)
           payloads == Span(offsets, data, p)
<1>9. /\ DOMAIN span = 1 .. Len(span)
      /\ Len(span) = offsets[p + 1] - offsets[p]
      /\ \A i \in 1 .. Len(span) :
            /\ offsets[p] + i \in 1 .. n
            /\ span[i] = neighbors[offsets[p] + i]
  <2> DEFINE H == 0 .. total - 1
  <2>1. total \in Nat /\ sorted \in Seq(EdgeBelow(total, D)) /\ p \in H
        /\ neighbors \in Seq(H) /\ Len(neighbors) = Len(sorted)
    BY <1>1, <1>2, <1>3, <1>7
  <2> HIDE DEF neighbors, data, placed, total
  <2> QED BY <2>1, SpanElements
<1>10. /\ DOMAIN payloads = 1 .. Len(payloads)
       /\ Len(payloads) = offsets[p + 1] - offsets[p]
       /\ \A i \in 1 .. Len(payloads) :
             payloads[i] = data[offsets[p] + i]
  <2>1. total \in Nat /\ sorted \in Seq(EdgeBelow(total, D))
        /\ p \in 0 .. total - 1
        /\ data \in Seq(D) /\ Len(data) = Len(sorted)
    BY <1>1, <1>2, <1>3, <1>7
  <2> HIDE DEF neighbors, data, placed, total
  <2> QED BY <2>1, SpanElements
<1>11. ASSUME NEW s \in 1 .. n
       PROVE  At(t.parentEdgeData, placed[s].to) = placed[s].data
  <2> DEFINE c == placed[s].to
  <2>1. PICK k \in DOMAIN sorted : placed[s] = sorted[k]
    BY <1>4, <1>5
  <2>2. c \in 0 .. total - 1
    BY <1>6
  <2>3. \A j \in DOMAIN sorted : sorted[j].to = c => j = k
    BY <1>2, <2>1 DEF OneParent
  <2>4. sorted[k].to = c
    BY <2>1
  <2> HIDE DEF c
  <2>5. (CHOOSE j \in DOMAIN sorted : sorted[j].to = c) = k
    BY <2>3, <2>4
  <2>6. c + 1 \in 1 .. total /\ (c + 1) - 1 = c
    BY <1>1, <2>2
  <2>7. At(ParentEdges(sorted, total), c) = sorted[k].data
    BY <2>4, <2>5, <2>6 DEF At, ParentEdges
  <2> QED BY <1>8, <2>1, <2>7 DEF c
<1>12. ASSUME NEW i \in DOMAIN span
       PROVE  At(t.parentEdgeData, span[i]) = payloads[i]
  <2> DEFINE s == offsets[p] + i
  <2>1. s \in 1 .. n /\ span[i] = neighbors[s] /\ payloads[i] = data[s]
    BY <1>9, <1>10
  <2> HIDE DEF s, span, payloads
  <2>2. neighbors[s] = placed[s].to /\ data[s] = placed[s].data
    BY <1>4, <1>5, <2>1
  <2> QED BY <1>11, <2>1, <2>2
<1>13. ChildSpan(t, p) = span /\ ChildEdgeSpan(t, p) = payloads
  BY <1>8 DEF ChildSpan, ChildEdgeSpan
<1> HIDE DEF span, payloads, offsets, t
<1>14. /\ Len(span) = t.outOffsets[p + 1] - t.outOffsets[p]
       /\ Len(payloads) = Len(span) /\ DOMAIN payloads = 1 .. Len(span)
  BY <1>8, <1>9, <1>10
<1> QED BY <1>12, <1>13, <1>14 DEF t

-----------------------------------------------------------------------------
(* The builders of BuiltForests are sound, and what build makes of them is *)
(* a topology in order.  maxNodes <= InvalidNode: add_node does not look   *)
(* at the number of nodes.                                                 *)

(* The sound builders of n nodes.                                          *)
BuildersOf(n, payload) ==
    {b \in [nodes : Seq({payload}), edges : Seq(EdgeBelow(n, {DefaultEdge})),
            parentOf : Seq(0 .. InvalidNode)] :
        Len(b.nodes) = n /\ SoundBuilder(b, {payload}, {DefaultEdge})}

(* It is one of them when it is sound and has n nodes.                     *)
LEMMA SoundOfSize ==
  ASSUME NEW b, NEW payload, SoundBuilder(b, {payload}, {DefaultEdge})
  PROVE  b \in BuildersOf(Len(b.nodes), payload)
<1> DEFINE n == Len(b.nodes)
<1>1. b \in [nodes : Seq({payload}), edges : Seq(EdgeBelow(n, {DefaultEdge})),
             parentOf : Seq(0 .. InvalidNode)]
  BY DEF SoundBuilder, RoughBuilder
<1> QED BY <1>1 DEF BuildersOf

(* n calls of add_node.                                                    *)
LEMMA NodesAddedSound ==
  ASSUME NEW n \in Nat, NEW payload, n <= InvalidNode
  PROVE  NodesAdded(n, payload) \in BuildersOf(n, payload)
<1> DEFINE V == [nodes : Seq({payload}), edges : {<<>>},
                 parentOf : Seq(0 .. InvalidNode)]
           Body(w, i) == IF i = 0 THEN EmptyBuilder
                         ELSE WithNode(w[i - 1], payload)
           added == CHOOSE w : w = [i \in 0 .. n |-> Body(w, i)]
           step == [x \in (1 .. n) \X V |-> WithNode(x[2], payload)]
<1>1. NodesAdded(n, payload) = added[n]
  BY DEF NodesAdded
<1>2. ASSUME NEW v \in V PROVE WithNode(v, payload) \in V
  <2>1. v = [nodes |-> v.nodes, edges |-> v.edges, parentOf |-> v.parentOf]
    OBVIOUS
  <2>2. WithNode(v, payload) =
           [nodes |-> Append(v.nodes, payload), edges |-> v.edges,
            parentOf |-> Append(v.parentOf, InvalidNode)]
    BY <2>1, NodeAppended, Zenon
  <2>3. /\ Append(v.nodes, payload) \in Seq({payload})
        /\ Append(v.parentOf, InvalidNode) \in Seq(0 .. InvalidNode)
    BY InvalidNodeAssumption, AppendProperties
  <2> QED BY <2>2, <2>3
<1>3. EmptyBuilder \in V
  BY DEF EmptyBuilder
<1> HIDE DEF V
<1>4. \E w : w = [i \in 0 .. n |-> Body(w, i)]
  <2>1. step \in [(1 .. n) \X V -> V]
    BY <1>2
  <2>2. \A i \in 1 .. n, v \in V : step[<<i, v>>] = WithNode(v, payload)
    OBVIOUS
  <2> HIDE DEF step
  <2>3. PICK f \in [0 .. n -> V] : Iterates(n, EmptyBuilder, step, f)
    BY <1>3, <2>1, IterationExists
  <2>4. ASSUME NEW i \in 0 .. n PROVE f[i] = Body(f, i)
    <3>1. CASE i = 0
      BY <2>3, <3>1 DEF Iterates
    <3>2. CASE i # 0
      <4>1. i \in 1 .. n /\ f[i - 1] \in V
        BY <3>2
      <4>2. f[i] = step[<<i, f[i - 1]>>]
        BY <2>3, <4>1 DEF Iterates
      <4> QED BY <2>2, <3>2, <4>1, <4>2
    <3> QED BY <3>1, <3>2
  <2>5. f = [i \in 0 .. n |-> Body(f, i)]
    <3> HIDE DEF Body
    <3> QED BY <2>3, <2>4
  <2> QED BY <2>5
<1>5. added = [i \in 0 .. n |-> Body(added, i)]
  BY <1>4
<1> HIDE DEF added
<1>6. /\ added[0] = EmptyBuilder
      /\ \A i \in 1 .. n : added[i] = WithNode(added[i - 1], payload)
  <2>1. \A i \in 0 .. n : added[i] = Body(added, i)
    <3> HIDE DEF Body
    <3> QED BY <1>5, Zenon
  <2>2. 0 \in 0 .. n /\ \A i \in 1 .. n : i \in 0 .. n /\ i # 0
    OBVIOUS
  <2> QED BY <2>1, <2>2
<1> DEFINE T == {i \in 0 .. n :
                   /\ SoundBuilder(added[i], {payload}, {DefaultEdge})
                   /\ Len(added[i].nodes) = i}
<1>7. 0 \in T
  <2>1. Len(EmptyBuilder.nodes) = 0
    BY DEF EmptyBuilder
  <2> QED BY <1>6, <2>1, EmptyIsSound
<1>8. ASSUME NEW i \in 1 .. n, i - 1 \in T PROVE i \in T
  <2> DEFINE b == added[i - 1]
  <2>1. /\ SoundBuilder(b, {payload}, {DefaultEdge})
        /\ RoughBuilder(b, {payload}, {DefaultEdge})
        /\ Len(b.nodes) = i - 1
    BY <1>8 DEF SoundBuilder
  <2>2. Len(b.nodes) < InvalidNode /\ payload \in {payload}
    BY <2>1, InvalidNodeAssumption
  <2>3. added[i] = WithNode(b, payload)
    BY <1>6
  <2> HIDE DEF b
  <2>4. /\ SoundBuilder(WithNode(b, payload), {payload}, {DefaultEdge})
        /\ Len(WithNode(b, payload).nodes) = Len(b.nodes) + 1
    BY <2>1, <2>2, NodeKeepsBuilder
  <2> QED BY <2>1, <2>3, <2>4
<1>9. n \in T
  <2> HIDE DEF T
  <2>1. \A i \in 1 .. n : i - 1 \in T => i \in T
    BY <1>8
  <2> QED BY <1>7, <2>1, RoundInduction
<1> QED BY <1>1, <1>9, SoundOfSize

(* One more call of add_edge.                                              *)
LEMMA OneMoreEdgeSound ==
  ASSUME NEW n \in Nat, NEW payload, NEW b \in BuildersOf(n, payload)
  PROVE  OneMoreEdge(b) \subseteq BuildersOf(n, payload)
<1> SUFFICES ASSUME NEW c \in OneMoreEdge(b) PROVE c \in BuildersOf(n, payload)
  OBVIOUS
<1>1. /\ SoundBuilder(b, {payload}, {DefaultEdge})
      /\ RoughBuilder(b, {payload}, {DefaultEdge})
      /\ Len(b.nodes) = n /\ Len(b.parentOf) = n
  BY DEF BuildersOf, SoundBuilder
<1>2. PICK l \in HandlesOf(b.nodes) \X HandlesOf(b.nodes) :
         /\ AcceptsEdge(b, l[1], l[2])
         /\ c = WithEdge(b, l[1], l[2], DefaultEdge)
  BY DEF OneMoreEdge
<1> DEFINE from == l[1]
           to == l[2]
<1>3. from \in Nat /\ to \in Nat /\ to < Len(b.parentOf)
  BY <1>1 DEF HandlesOf
<1>4. AcceptsEdge(b, from, to) /\ c = WithEdge(b, from, to, DefaultEdge)
  BY <1>2
<1> HIDE DEF from, to
<1>5. SoundBuilder(c, {payload}, {DefaultEdge}) /\ c.nodes = b.nodes
  BY <1>1, <1>3, <1>4, EdgeKeepsBuilder
<1> QED BY <1>1, <1>5, SoundOfSize

(* Any number of calls of add_edge.                                        *)
LEMMA EdgesAddedSound ==
  ASSUME NEW n \in Nat, NEW payload, n <= InvalidNode
  PROVE  EdgesAdded(n, payload) \subseteq BuildersOf(n, payload)
<1> DEFINE V == SUBSET BuildersOf(n, payload)
           first == {NodesAdded(n, payload)}
           More(s) == s \cup UNION {OneMoreEdge(b) : b \in s}
           Body(w, i) == IF i = 0 THEN first ELSE More(w[i - 1])
           added == CHOOSE w : w = [i \in 0 .. n |-> Body(w, i)]
           step == [x \in (1 .. n) \X V |-> More(x[2])]
<1>1. EdgesAdded(n, payload) = added[n]
  BY DEF EdgesAdded
<1>2. ASSUME NEW s \in V PROVE More(s) \in V
  BY OneMoreEdgeSound
<1>3. first \in V
  BY NodesAddedSound
<1> HIDE DEF V, More, first
<1>4. \E w : w = [i \in 0 .. n |-> Body(w, i)]
  <2>1. step \in [(1 .. n) \X V -> V]
    BY <1>2
  <2>2. \A i \in 1 .. n, v \in V : step[<<i, v>>] = More(v)
    OBVIOUS
  <2> HIDE DEF step
  <2>3. PICK f \in [0 .. n -> V] : Iterates(n, first, step, f)
    BY <1>3, <2>1, IterationExists
  <2>4. ASSUME NEW i \in 0 .. n PROVE f[i] = Body(f, i)
    <3>1. CASE i = 0
      BY <2>3, <3>1 DEF Iterates
    <3>2. CASE i # 0
      <4>1. i \in 1 .. n /\ f[i - 1] \in V
        BY <3>2
      <4>2. f[i] = step[<<i, f[i - 1]>>]
        BY <2>3, <4>1 DEF Iterates
      <4> QED BY <2>2, <3>2, <4>1, <4>2
    <3> QED BY <3>1, <3>2
  <2>5. f = [i \in 0 .. n |-> Body(f, i)]
    <3> HIDE DEF Body
    <3> QED BY <2>3, <2>4
  <2> QED BY <2>5
<1>5. added = [i \in 0 .. n |-> Body(added, i)]
  BY <1>4
<1> HIDE DEF added
<1>6. \A i \in 0 .. n : added[i] = Body(added, i)
  <2> HIDE DEF Body
  <2> QED BY <1>5, Zenon
<1> DEFINE T == {i \in 0 .. n : added[i] \in V}
<1>7. 0 \in T
  BY <1>3, <1>6
<1>8. ASSUME NEW i \in 1 .. n, i - 1 \in T PROVE i \in T
  BY <1>2, <1>6, <1>8
<1>9. n \in T
  <2> HIDE DEF T
  <2>1. \A i \in 1 .. n : i - 1 \in T => i \in T
    BY <1>8
  <2> QED BY <1>7, <2>1, RoundInduction
<1> QED BY <1>1, <1>9 DEF V

(* Every builder a caller can make is sound.                               *)
LEMMA BuildersSound ==
  ASSUME NEW maxNodes \in Nat, maxNodes <= InvalidNode, NEW payload,
         NEW b \in BuildersUpTo(maxNodes, payload)
  PROVE  /\ SoundBuilder(b, {payload}, {DefaultEdge})
         /\ Len(b.nodes) \in 0 .. maxNodes
<1>1. PICK n \in 0 .. maxNodes : b \in EdgesAdded(n, payload)
  BY DEF BuildersUpTo
<1>2. n \in Nat /\ n <= InvalidNode
  BY InvalidNodeAssumption
<1>3. b \in BuildersOf(n, payload)
  BY <1>1, <1>2, EdgesAddedSound
<1> QED BY <1>3 DEF BuildersOf

(* The order of a topology, and its parents: every handle once, forwards   *)
(* and backwards.                                                          *)
LEMMA TopologiesOrdered ==
  ASSUME NEW maxNodes \in Nat, maxNodes <= InvalidNode, NEW payload,
         NEW t \in TopologiesUpTo(maxNodes, payload)
  PROVE  LET total == Len(t.nodeData)
             H == 0 .. total - 1
         IN  /\ total \in 0 .. maxNodes
             /\ HandlesOf(t.nodeData) = H
             /\ Len(t.plan.topo) = total
             /\ t.plan.reverseTopo \in Seq(H)
             /\ Len(t.plan.reverseTopo) = total
             /\ ToSet(t.plan.reverseTopo) = H
             /\ IsInjective(t.plan.reverseTopo)
             /\ \A h \in H : At(t.parent, h) \in H \cup {InvalidNode}
<1> DEFINE total == Len(t.nodeData)
           H == 0 .. total - 1
<1>1. PICK b \in AcyclicBuildersUpTo(maxNodes, payload) : t = Build(b).topology
  BY DEF TopologiesUpTo
<1>2. b \in BuildersUpTo(maxNodes, payload) /\ Build(b).status = "built"
  BY DEF AcyclicBuildersUpTo
<1>3. /\ SoundBuilder(b, {payload}, {DefaultEdge})
      /\ Len(b.nodes) \in 0 .. maxNodes
  BY <1>2, BuildersSound
<1> DEFINE order == KahnTopo(b.edges, Len(b.nodes))
<1>4. /\ t = Topology(b)
      /\ Len(order) = Len(b.nodes)
      /\ ToSet(order) = HandlesOf(b.nodes)
  BY <1>1, <1>2, <1>3, BuildOfSound
<1>5. /\ t.nodeData = b.nodes /\ t.parent = b.parentOf
      /\ t.plan.topo = order /\ t.plan.reverseTopo = Reverse(order)
  BY <1>4 DEF Topology, Plan
<1>6. /\ total \in Nat /\ b.edges \in Seq(EdgeBelow(total, {DefaultEdge}))
      /\ OneParent(b.edges)
  BY <1>3, <1>5, RoughParts DEF SoundBuilder, RoughBuilder
<1>7. order \in Seq(H) /\ IsInjective(order)
  <2> HIDE DEF total
  <2>1. total = Len(b.nodes)
    BY <1>5 DEF total
  <2> QED BY <1>6, <2>1, KahnSorts
<1>8. HandlesOf(t.nodeData) = H /\ HandlesOf(b.nodes) = H
  BY <1>5 DEF HandlesOf
<1>9. \A h \in H : At(t.parent, h) \in H \cup {InvalidNode}
  <2>1. \A h \in HandlesOf(b.nodes) :
           At(b.parentOf, h) \in HandlesOf(b.nodes) \cup {InvalidNode}
    BY <1>3, EdgesAreParents
  <2> QED BY <1>5, <1>8, <2>1
<1> HIDE DEF order, H
<1>10. /\ Reverse(order) \in Seq(H)
       /\ Len(Reverse(order)) = Len(order)
       /\ ToSet(Reverse(order)) = ToSet(order)
       /\ IsInjective(Reverse(order))
  BY <1>7, ReversedMembers
<1> QED BY <1>3, <1>4, <1>5, <1>8, <1>9, <1>10 DEF H

-----------------------------------------------------------------------------
(* Filling the builder *)

(* Handles below the count of nodes are left alone by the 32-bit cast.     *)
LEMMA SmallHandles ==
  ASSUME NEW i \in 0 .. InvalidNode
  PROVE  AsHandle(i) = i
<1> DEFINE m == InvalidNode
<1>1. m \in Nat /\ i \in Nat /\ i <= m
  BY InvalidNodeAssumption
<1>2. AsHandle(i) = i % (m + 1)
  BY DEF AsHandle
<1> HIDE DEF m
<1> QED BY <1>1, <1>2

(* A forest by dense handles: each node's payload, its children in order,  *)
(* its parent, its rank among its siblings, its parent edge's payload, and *)
(* how many edges start at nodes before it; and where payloads come from.  *)
IsLayout(L) ==
    LET H == 0 .. L.size - 1
    IN  /\ L.size \in Nat /\ L.size <= InvalidNode
        /\ L.data \in Seq(L.nodeSet) /\ Len(L.data) = L.size
        /\ \A p \in H :
              /\ L.row[p] \in Seq(H)
              /\ \A a \in 1 .. Len(L.row[p]) :
                    /\ L.up[L.row[p][a]] = p
                    /\ L.rank[L.row[p][a]] = a
                    /\ L.weight[L.row[p][a]] \in L.edgeSet
        /\ \A h \in H :
              /\ L.up[h] \in H \cup {InvalidNode}
              /\ L.rank[h] \in Nat
              /\ L.up[h] # InvalidNode =>
                    /\ L.rank[h] \in 1 .. Len(L.row[L.up[h]])
                    /\ L.row[L.up[h]][L.rank[h]] = h
        /\ \A S \in SUBSET H : S # {} => \E h \in S : L.up[h] \notin S
        /\ L.start \in [0 .. L.size -> Nat]
        /\ L.start[0] = 0
        /\ \A p \in H : L.start[p + 1] = L.start[p] + Len(L.row[p])

(* The node the k-th edge starts at, and the edge.                         *)
Owner(L, k) ==
    CHOOSE p \in 0 .. L.size - 1 : L.start[p] < k /\ k <= L.start[p + 1]
EdgeNo(L, k) ==
    LET child == L.row[Owner(L, k)][k - L.start[Owner(L, k)]]
    IN  [from |-> Owner(L, k), to |-> child, data |-> L.weight[child]]

(* What is there once the rows before the i-th and j edges of it are.      *)
EdgesTo(L, m) == [k \in 1 .. m |-> EdgeNo(L, k)]
ParentsTo(L, i, j) ==
    [k \in 1 .. L.size |->
        IF L.up[k - 1] < i \/ (L.up[k - 1] = i /\ L.rank[k - 1] <= j)
        THEN L.up[k - 1] ELSE InvalidNode]
BuilderTo(L, i, j) ==
    [nodes |-> L.data, edges |-> EdgesTo(L, L.start[i] + j),
     parentOf |-> ParentsTo(L, i, j)]

(* A row is where the counts say, and nowhere else.                        *)
LEMMA OwnersFound ==
  ASSUME NEW L, IsLayout(L)
  PROVE  /\ \A p, q \in 0 .. L.size : p <= q => L.start[p] <= L.start[q]
         /\ \A p \in 0 .. L.size - 1 : \A a \in 1 .. Len(L.row[p]) :
               /\ L.start[p] + a \in 1 .. L.start[L.size]
               /\ Owner(L, L.start[p] + a) = p
         /\ \A k \in 1 .. L.start[L.size] :
               /\ Owner(L, k) \in 0 .. L.size - 1
               /\ k - L.start[Owner(L, k)] \in 1 .. Len(L.row[Owner(L, k)])
<1> DEFINE n == L.size
           st == L.start
           len(p) == Len(L.row[p])
<1>1. /\ n \in Nat /\ st \in [0 .. n -> Nat] /\ st[0] = 0
      /\ \A p \in 0 .. n - 1 : st[p + 1] = st[p] + len(p) /\ len(p) \in Nat
  BY LenProperties DEF IsLayout
<1>2. \A k : Owner(L, k) =
         CHOOSE p \in 0 .. n - 1 : st[p] < k /\ k <= st[p + 1]
  BY DEF Owner
<1> HIDE DEF n, st, len
<1>3. \A q \in 0 .. n : \A p \in 0 .. n : p <= q => st[p] <= st[q]
  <2> DEFINE T == {q \in 0 .. n : \A p \in 0 .. n : p <= q => st[p] <= st[q]}
  <2>1. 0 \in T
    BY <1>1
  <2>2. ASSUME NEW q \in 1 .. n, q - 1 \in T PROVE q \in T
    <3>1. /\ q - 1 \in 0 .. n - 1 /\ (q - 1) + 1 = q /\ q \in 0 .. n
      BY <1>1
    <3>2. /\ st[q] = st[q - 1] + len(q - 1) /\ len(q - 1) \in Nat
          /\ st[q] \in Nat /\ st[q - 1] \in Nat
      BY <1>1, <3>1
    <3>3. ASSUME NEW p \in 0 .. n, p <= q PROVE st[p] <= st[q]
      <4>1. CASE p = q
        BY <3>2, <4>1
      <4>2. CASE p # q
        <5>1. p <= q - 1 /\ st[p] \in Nat
          BY <1>1, <3>3, <4>2
        <5>2. st[p] <= st[q - 1]
          BY <2>2, <5>1
        <5> QED BY <3>2, <5>1, <5>2
      <4> QED BY <4>1, <4>2
    <3> QED BY <3>1, <3>3
  <2> HIDE DEF T
  <2>3. \A q \in 0 .. n : q \in T
    BY <1>1, <2>1, <2>2, RoundInduction
  <2> QED BY <2>3 DEF T
<1>4. \A q \in 0 .. n : \A k \in 1 .. st[q] :
         \E p \in 0 .. n - 1 : st[p] < k /\ k <= st[p + 1]
  <2> DEFINE T == {q \in 0 .. n : \A k \in 1 .. st[q] :
                      \E p \in 0 .. n - 1 : st[p] < k /\ k <= st[p + 1]}
  <2>1. 0 \in T
    BY <1>1
  <2>2. ASSUME NEW q \in 1 .. n, q - 1 \in T PROVE q \in T
    <3>1. /\ q - 1 \in 0 .. n - 1 /\ (q - 1) + 1 = q /\ q \in 0 .. n
          /\ q - 1 \in 0 .. n
      BY <1>1
    <3>2. st[q] \in Nat /\ st[q - 1] \in Nat
      BY <1>1, <3>1
    <3>3. ASSUME NEW k \in 1 .. st[q]
          PROVE  \E p \in 0 .. n - 1 : st[p] < k /\ k <= st[p + 1]
      <4>1. CASE k <= st[q - 1]
        <5>1. k \in 1 .. st[q - 1]
          BY <3>2, <4>1
        <5> QED BY <2>2, <5>1
      <4>2. CASE ~ (k <= st[q - 1])
        <5>1. st[q - 1] < k /\ k <= st[(q - 1) + 1]
          BY <3>1, <3>2, <4>2
        <5> QED BY <3>1, <5>1
      <4> QED BY <4>1, <4>2
    <3> QED BY <3>1, <3>3
  <2> HIDE DEF T
  <2>3. \A q \in 0 .. n : q \in T
    BY <1>1, <2>1, <2>2, RoundInduction
  <2> QED BY <2>3 DEF T
<1>5. ASSUME NEW p \in 0 .. n - 1, NEW q \in 0 .. n - 1, NEW k \in Nat,
             st[p] < k, k <= st[p + 1], st[q] < k, k <= st[q + 1]
      PROVE  p = q
  <2>1. ASSUME NEW a \in 0 .. n - 1, NEW b \in 0 .. n - 1,
               st[b] < k, k <= st[a + 1]
        PROVE  ~ (a < b)
    <3>1. SUFFICES ASSUME a < b PROVE FALSE
      OBVIOUS
    <3>2. a + 1 \in 0 .. n /\ b \in 0 .. n /\ a + 1 <= b
      BY <1>1, <3>1
    <3>3. st[a + 1] <= st[b] /\ st[a + 1] \in Nat /\ st[b] \in Nat
      BY <1>1, <1>3, <3>2
    <3> QED BY <2>1, <3>3
  <2>2. ~ (p < q) /\ ~ (q < p)
    BY <1>5, <2>1
  <2> QED BY <1>1, <2>2
<1>6. ASSUME NEW p \in 0 .. n - 1, NEW a \in 1 .. len(p)
      PROVE  st[p] + a \in 1 .. st[n] /\ Owner(L, st[p] + a) = p
  <2>1. /\ p \in 0 .. n /\ p + 1 \in 0 .. n /\ n \in 0 .. n /\ p + 1 <= n
        /\ st[p + 1] = st[p] + len(p) /\ len(p) \in Nat
    BY <1>1
  <2>2. /\ st[p] \in Nat /\ st[n] \in Nat /\ st[p + 1] <= st[n]
    BY <1>1, <1>3, <2>1
  <2> DEFINE k == st[p] + a
  <2>3. k \in Nat /\ st[p] < k /\ k <= st[p + 1] /\ k \in 1 .. st[n]
    BY <2>1, <2>2
  <2> HIDE DEF k
  <2>4. Owner(L, k) \in 0 .. n - 1
        /\ st[Owner(L, k)] < k /\ k <= st[Owner(L, k) + 1]
    BY <1>2, <2>3
  <2>5. Owner(L, k) = p
    BY <1>5, <2>3, <2>4
  <2> QED BY <2>3, <2>5 DEF k
<1>7. ASSUME NEW k \in 1 .. st[n]
      PROVE  /\ Owner(L, k) \in 0 .. n - 1
             /\ k - st[Owner(L, k)] \in 1 .. len(Owner(L, k))
  <2> DEFINE p == Owner(L, k)
  <2>1. n \in 0 .. n /\ st[n] \in Nat
    BY <1>1
  <2>2. p \in 0 .. n - 1 /\ st[p] < k /\ k <= st[p + 1]
    BY <1>2, <1>4, <2>1
  <2> HIDE DEF p
  <2>3. p \in 0 .. n
    BY <1>1, <2>2
  <2>4. st[p + 1] = st[p] + len(p) /\ len(p) \in Nat /\ st[p] \in Nat
    BY <1>1, <2>2, <2>3
  <2>5. k - st[p] \in 1 .. len(p)
    BY <2>1, <2>2, <2>4
  <2> QED BY <2>2, <2>5 DEF p
<1> QED BY <1>3, <1>6, <1>7 DEF n, st, len

(* The edges there are.                                                    *)
LEMMA EdgesListed ==
  ASSUME NEW L, IsLayout(L)
  PROVE  /\ \A p \in 0 .. L.size - 1 : \A a \in 1 .. Len(L.row[p]) :
               EdgeNo(L, L.start[p] + a) =
                  [from |-> p, to |-> L.row[p][a], data |-> L.weight[L.row[p][a]]]
         /\ \A k \in 1 .. L.start[L.size] :
               /\ EdgeNo(L, k) \in EdgeBelow(L.size, L.edgeSet)
               /\ L.up[EdgeNo(L, k).to] = EdgeNo(L, k).from
               /\ EdgeNo(L, k).data = L.weight[EdgeNo(L, k).to]
               /\ L.start[EdgeNo(L, k).from] < k
               /\ k <= L.start[EdgeNo(L, k).from + 1]
               /\ k = L.start[EdgeNo(L, k).from] + L.rank[EdgeNo(L, k).to]
<1>1. ASSUME NEW p \in 0 .. L.size - 1, NEW a \in 1 .. Len(L.row[p])
      PROVE  EdgeNo(L, L.start[p] + a) =
                [from |-> p, to |-> L.row[p][a], data |-> L.weight[L.row[p][a]]]
  <2> DEFINE k == L.start[p] + a
  <2>1. Owner(L, k) = p
    BY OwnersFound
  <2>2. k - L.start[p] = a
    <3>1. p \in 0 .. L.size /\ L.start[p] \in Nat /\ a \in Nat
      BY LenProperties DEF IsLayout
    <3> QED BY <3>1
  <2> HIDE DEF k
  <2>3. EdgeNo(L, k) =
           [from |-> p, to |-> L.row[p][a], data |-> L.weight[L.row[p][a]]]
    BY <2>1, <2>2 DEF EdgeNo
  <2> QED BY <2>3 DEF k
<1>2. ASSUME NEW k \in 1 .. L.start[L.size]
      PROVE  /\ EdgeNo(L, k) \in EdgeBelow(L.size, L.edgeSet)
             /\ L.up[EdgeNo(L, k).to] = EdgeNo(L, k).from
             /\ EdgeNo(L, k).data = L.weight[EdgeNo(L, k).to]
             /\ L.start[EdgeNo(L, k).from] < k
             /\ k <= L.start[EdgeNo(L, k).from + 1]
             /\ k = L.start[EdgeNo(L, k).from] + L.rank[EdgeNo(L, k).to]
  <2> DEFINE p == Owner(L, k)
             a == k - L.start[p]
             c == L.row[p][a]
  <2>1. p \in 0 .. L.size - 1 /\ a \in 1 .. Len(L.row[p])
    BY OwnersFound
  <2>2. /\ L.size \in Nat /\ L.start \in [0 .. L.size -> Nat]
        /\ L.row[p] \in Seq(0 .. L.size - 1)
        /\ L.up[c] = p /\ L.rank[c] = a /\ L.weight[c] \in L.edgeSet
        /\ L.start[p + 1] = L.start[p] + Len(L.row[p])
    <3> HIDE DEF p, a
    <3>1. /\ L.size \in Nat /\ L.start \in [0 .. L.size -> Nat]
          /\ L.row[p] \in Seq(0 .. L.size - 1)
          /\ \A b \in 1 .. Len(L.row[p]) :
                /\ L.up[L.row[p][b]] = p
                /\ L.rank[L.row[p][b]] = b
                /\ L.weight[L.row[p][b]] \in L.edgeSet
      BY <2>1 DEF IsLayout
    <3>2. L.start[p + 1] = L.start[p] + Len(L.row[p])
      BY <2>1 DEF IsLayout
    <3> QED BY <2>1, <3>1, <3>2
  <2>3. c \in 0 .. L.size - 1 /\ Len(L.row[p]) \in Nat
    BY <2>1, <2>2, ElementOfSeq, LenProperties
  <2>4. EdgeNo(L, k) = [from |-> p, to |-> c, data |-> L.weight[c]]
    BY DEF EdgeNo
  <2>5. p \in 0 .. L.size /\ L.size \in 0 .. L.size
    <3> HIDE DEF p
    <3>1. L.size \in Nat /\ p \in 0 .. L.size - 1
      BY <2>1, <2>2
    <3> QED BY <3>1
  <2>6. L.start[p] \in Nat /\ L.start[L.size] \in Nat
    BY <2>2, <2>5
  <2>7. k = L.start[p] + a
    BY <2>6
  <2> HIDE DEF c, a, p
  <2>8. L.start[p] < k /\ k <= L.start[p + 1]
    <3> DEFINE l == Len(L.row[p])
               s == L.start[p]
    <3>1. l \in Nat /\ s \in Nat /\ a \in 1 .. l /\ k = s + a
          /\ L.start[p + 1] = s + l
      BY <2>1, <2>2, <2>3, <2>6, <2>7
    <3> HIDE DEF l, s
    <3>2. s < k /\ k <= s + l
      BY <3>1
    <3> QED BY <3>1, <3>2 DEF s
  <2>9. EdgeNo(L, k) \in EdgeBelow(L.size, L.edgeSet)
    BY <2>1, <2>2, <2>3, <2>4 DEF EdgeBelow
  <2> QED BY <2>2, <2>4, <2>7, <2>8, <2>9
<1> QED BY <1>1, <1>2

(* add_edge on the vectors.                                                *)
LEMMA EdgeAppended ==
  ASSUME NEW b, NEW from, NEW to, NEW data,
         b = [nodes |-> b.nodes, edges |-> b.edges, parentOf |-> b.parentOf]
  PROVE  WithEdge(b, from, to, data) =
            [nodes |-> b.nodes,
             edges |-> Append(b.edges, [from |-> from, to |-> to, data |-> data]),
             parentOf |-> [b.parentOf EXCEPT ![to + 1] = from]]
<1> DEFINE e == [from |-> from, to |-> to, data |-> data]
           x == Append(b.edges, e)
           y == [b.parentOf EXCEPT ![to + 1] = from]
           half == [b EXCEPT !.parentOf = y]
<1>1. WithEdge(b, from, to, data) = [b EXCEPT !.parentOf = y, !.edges = x]
  BY Zenon DEF WithEdge
<1> HIDE DEF x, y
<1>2. WithEdge(b, from, to, data) = [half EXCEPT !.edges = x]
  BY <1>1, Zenon
<1>3. half = [nodes |-> b.nodes, edges |-> b.edges, parentOf |-> y]
  OBVIOUS
<1> HIDE DEF half
<1>4. [half EXCEPT !.edges = x] = [nodes |-> b.nodes, edges |-> x, parentOf |-> y]
  BY <1>3
<1> QED BY <1>2, <1>4, Zenon DEF x, y

(* One more edge of a list.                                                *)
LEMMA EdgesGrow ==
  ASSUME NEW L, NEW m \in Nat
  PROVE  EdgesTo(L, m + 1) = Append(EdgesTo(L, m), EdgeNo(L, m + 1))
<1> DEFINE S == {EdgeNo(L, k) : k \in 1 .. m + 1}
           s == EdgesTo(L, m)
           t == EdgesTo(L, m + 1)
           e == EdgeNo(L, m + 1)
<1>1. s \in [1 .. m -> S] /\ t \in [1 .. m + 1 -> S] /\ e \in S
  BY DEF EdgesTo
<1>2. /\ \A k \in 1 .. m : s[k] = EdgeNo(L, k)
      /\ \A k \in 1 .. m + 1 : t[k] = EdgeNo(L, k)
  BY DEF EdgesTo
<1> HIDE DEF S, s, t
<1>3. s \in Seq(S) /\ t \in Seq(S) /\ Len(s) = m /\ Len(t) = m + 1
  BY <1>1, SeqDef, LenProperties
<1> HIDE DEF e
<1>4. /\ Append(s, e) \in Seq(S) /\ Len(Append(s, e)) = m + 1
      /\ \A k \in 1 .. m : Append(s, e)[k] = s[k]
      /\ Append(s, e)[m + 1] = e
  BY <1>1, <1>3, AppendProperties
<1>5. \A k \in 1 .. m + 1 : t[k] = Append(s, e)[k]
  <2>1. ASSUME NEW k \in 1 .. m + 1 PROVE t[k] = Append(s, e)[k]
    <3>1. CASE k \in 1 .. m
      BY <1>2, <1>4, <3>1
    <3>2. CASE k = m + 1
      BY <1>2, <1>4, <3>2 DEF e
    <3>3. k \in 1 .. m \/ k = m + 1
      OBVIOUS
    <3> QED BY <3>1, <3>2, <3>3
  <2> QED BY <2>1
<1>6. t = Append(s, e)
  BY <1>3, <1>4, <1>5, SeqEqual
<1> QED BY <1>6 DEF s, t, e

(* add_edge accepts the next edge of the layout.                           *)
LEMMA NextEdgeAccepted ==
  ASSUME NEW L, IsLayout(L), NEW i \in 0 .. L.size - 1,
         NEW j \in 1 .. Len(L.row[i])
  PROVE  LET to == L.row[i][j]
             b == BuilderTo(L, i, j - 1)
         IN  /\ AcceptsEdge(b, i, to)
             /\ WithEdge(b, i, to, L.weight[to]) = BuilderTo(L, i, j)
<1> DEFINE n == L.size
           to == L.row[i][j]
           b == BuilderTo(L, i, j - 1)
           up == L.up
           rank == L.rank
           st == L.start
<1>1. /\ n \in Nat /\ n <= InvalidNode /\ Len(L.data) = n
      /\ L.row[i] \in Seq(0 .. n - 1)
      /\ \A h \in 0 .. n - 1 : /\ up[h] \in 0 .. n - 1 \cup {InvalidNode}
                               /\ rank[h] \in Nat
                               /\ up[h] # InvalidNode => L.row[up[h]][rank[h]] = h
      /\ \A S \in SUBSET (0 .. n - 1) : S # {} => \E h \in S : up[h] \notin S
      /\ st \in [0 .. n -> Nat]
  BY DEF IsLayout
<1>2. up[to] = i /\ rank[to] = j
  BY DEF IsLayout
<1>3. to \in 0 .. n - 1 /\ i \in 0 .. n - 1 /\ j \in Nat \ {0}
  <2> DEFINE r == L.row[i]
  <2>1. r \in Seq(0 .. n - 1) /\ Len(r) \in Nat /\ j \in 1 .. Len(r)
    BY <1>1, LenProperties
  <2>2. i \in 0 .. n - 1
    OBVIOUS
  <2> HIDE DEF r, n
  <2>3. r[j] \in 0 .. n - 1
    BY <2>1, ElementOfSeq
  <2> QED BY <2>1, <2>2, <2>3 DEF r
<1>4. i # InvalidNode /\ InvalidNode \in Nat
  BY <1>1, InvalidNodeAssumption
<1>5. EdgeNo(L, st[i] + j) = [from |-> i, to |-> to, data |-> L.weight[to]]
  BY EdgesListed
<1> HIDE DEF n, to, up, rank, st
<1>6. i # to
  <2>1. {i} \in SUBSET (0 .. n - 1) /\ {i} # {}
    BY <1>3
  <2>2. up[i] # i
    BY <1>1, <2>1
  <2> QED BY <1>2, <2>2
<1>7. /\ b = [nodes |-> b.nodes, edges |-> b.edges, parentOf |-> b.parentOf]
      /\ b.nodes = L.data /\ b.edges = EdgesTo(L, st[i] + (j - 1))
      /\ b.parentOf = ParentsTo(L, i, j - 1)
  BY DEF BuilderTo, st
<1> HIDE DEF b
<1>8. \A a : ParentsTo(L, i, a) =
         [k \in 1 .. n |-> IF up[k - 1] < i \/ (up[k - 1] = i /\ rank[k - 1] <= a)
                           THEN up[k - 1] ELSE InvalidNode]
  BY DEF ParentsTo, n, up, rank
<1>9. to + 1 \in 1 .. n /\ (to + 1) - 1 = to
  BY <1>1, <1>3
<1>10. At(b.parentOf, to) = InvalidNode
  <2>1. ~ (up[to] < i) /\ ~ (rank[to] <= j - 1)
    BY <1>2, <1>3
  <2>2. b.parentOf[to + 1] =
           IF up[to] < i \/ (up[to] = i /\ rank[to] <= j - 1)
           THEN up[to] ELSE InvalidNode
    <3> DEFINE k == to + 1
    <3>1. k \in 1 .. n /\ k - 1 = to
      BY <1>9
    <3> HIDE DEF k
    <3>2. b.parentOf =
             [x \in 1 .. n |->
                IF up[x - 1] < i \/ (up[x - 1] = i /\ rank[x - 1] <= j - 1)
                THEN up[x - 1] ELSE InvalidNode]
      BY <1>7, <1>8, Zenon
    <3>3. b.parentOf[k] =
             IF up[k - 1] < i \/ (up[k - 1] = i /\ rank[k - 1] <= j - 1)
             THEN up[k - 1] ELSE InvalidNode
      BY <3>1, <3>2, Zenon
    <3> QED BY <3>1, <3>3 DEF k
  <2>3. b.parentOf[to + 1] = InvalidNode
    BY <2>1, <2>2
  <2> QED BY <2>3 DEF At
<1>11. AcceptsEdge(b, i, to)
  <2>1. i < n /\ to < n
    BY <1>1, <1>3
  <2> QED BY <1>1, <1>6, <1>7, <1>10, <2>1 DEF AcceptsEdge
<1>12. Append(b.edges, [from |-> i, to |-> to, data |-> L.weight[to]])
          = EdgesTo(L, st[i] + j)
  <2>1. i \in 0 .. n
    BY <1>1, <1>3
  <2>2. st[i] \in Nat
    BY <1>1, <2>1
  <2> DEFINE m == st[i] + (j - 1)
  <2>3. m \in Nat /\ m + 1 = st[i] + j
    BY <1>3, <2>2
  <2>4. b.edges = EdgesTo(L, m)
    BY <1>7
  <2> HIDE DEF m
  <2>5. EdgesTo(L, m + 1) = Append(EdgesTo(L, m), EdgeNo(L, m + 1))
    BY <2>3, EdgesGrow
  <2> QED BY <1>5, <2>3, <2>4, <2>5
<1>13. [b.parentOf EXCEPT ![to + 1] = i] = ParentsTo(L, i, j)
  <2> DEFINE P(a) == [k \in 1 .. n |->
                        IF up[k - 1] < i \/ (up[k - 1] = i /\ rank[k - 1] <= a)
                        THEN up[k - 1] ELSE InvalidNode]
  <2>1. ASSUME NEW k \in 1 .. n
        PROVE  [P(j - 1) EXCEPT ![to + 1] = i][k] = P(j)[k]
    <3> DEFINE h == k - 1
    <3>1. h \in 0 .. n - 1
      BY <1>1
    <3>2. CASE k = to + 1
      <4>1. h = to
        BY <1>3, <3>2
      <4>2. P(j)[k] = i
        BY <1>2, <1>3, <4>1
      <4>3. k \in DOMAIN P(j - 1)
        OBVIOUS
      <4> HIDE DEF P
      <4> QED BY <3>2, <4>2, <4>3
    <3>3. CASE k # to + 1
      <4>1. h # to
        BY <1>3, <3>3
      <4>2. ~ (up[h] = i /\ rank[h] = j)
        <5>1. SUFFICES ASSUME up[h] = i, rank[h] = j PROVE FALSE
          OBVIOUS
        <5>2. L.row[up[h]][rank[h]] = h
          BY <1>1, <1>4, <3>1, <5>1
        <5> QED BY <4>1, <5>1, <5>2 DEF to
      <4>3. up[h] = i => (rank[h] <= j - 1 <=> rank[h] <= j)
        <5>1. rank[h] \in Nat
          BY <1>1, <3>1
        <5> QED BY <1>3, <4>2, <5>1
      <4>4. P(j - 1)[k] = P(j)[k]
        <5> HIDE DEF h
        <5>1. \A a : P(a)[k] = IF up[h] < i \/ (up[h] = i /\ rank[h] <= a)
                               THEN up[h] ELSE InvalidNode
          BY DEF h
        <5> HIDE DEF P
        <5> QED BY <4>3, <5>1
      <4> HIDE DEF P
      <4> QED BY <3>3, <4>4
    <3> QED BY <3>2, <3>3
  <2>2. /\ b.parentOf = P(j - 1) /\ ParentsTo(L, i, j) = P(j)
        /\ DOMAIN P(j - 1) = 1 .. n /\ DOMAIN P(j) = 1 .. n
        /\ P(j) = [k \in 1 .. n |-> P(j)[k]]
    BY <1>7, <1>8
  <2> HIDE DEF P
  <2>3. [P(j - 1) EXCEPT ![to + 1] = i] = P(j)
    BY <2>1, <2>2
  <2> QED BY <2>2, <2>3
<1>14. WithEdge(b, i, to, L.weight[to]) = BuilderTo(L, i, j)
  <2>1. BuilderTo(L, i, j) =
           [nodes |-> L.data, edges |-> EdgesTo(L, st[i] + j),
            parentOf |-> ParentsTo(L, i, j)]
    BY DEF BuilderTo, st
  <2>2. WithEdge(b, i, to, L.weight[to]) =
          [nodes |-> b.nodes,
           edges |-> Append(b.edges, [from |-> i, to |-> to,
                                      data |-> L.weight[to]]),
           parentOf |-> [b.parentOf EXCEPT ![to + 1] = i]]
    BY <1>7, EdgeAppended
  <2> QED BY <1>7, <1>12, <1>13, <2>1, <2>2
<1> QED BY <1>11, <1>14 DEF b, to

(* A row filled is the next row about to start.                            *)
LEMMA RowEnds ==
  ASSUME NEW L, IsLayout(L), NEW i \in 0 .. L.size - 1
  PROVE  BuilderTo(L, i, Len(L.row[i])) = BuilderTo(L, i + 1, 0)
<1> DEFINE n == L.size
           up == L.up
           rank == L.rank
           st == L.start
           l == Len(L.row[i])
<1>1. /\ n \in Nat /\ n <= InvalidNode /\ l \in Nat
      /\ \A h \in 0 .. n - 1 :
            /\ up[h] \in 0 .. n - 1 \cup {InvalidNode}
            /\ rank[h] \in Nat
            /\ up[h] # InvalidNode => rank[h] \in 1 .. Len(L.row[up[h]])
      /\ st \in [0 .. n -> Nat]
      /\ st[i + 1] = st[i] + l
      /\ InvalidNode \in Nat
  BY InvalidNodeAssumption, LenProperties DEF IsLayout
<1>2. \A m, a : ParentsTo(L, m, a) =
         [k \in 1 .. n |-> IF up[k - 1] < m \/ (up[k - 1] = m /\ rank[k - 1] <= a)
                           THEN up[k - 1] ELSE InvalidNode]
  BY DEF ParentsTo
<1>3. \A m, a : BuilderTo(L, m, a) =
           [nodes |-> L.data, edges |-> EdgesTo(L, st[m] + a),
            parentOf |-> ParentsTo(L, m, a)]
  BY DEF BuilderTo
<1>4. i \in Nat /\ i # InvalidNode /\ i + 1 \in 0 .. n
  BY <1>1
<1>5. \A h \in 0 .. n - 1 : up[h] = i => rank[h] <= l
  BY <1>1, <1>4
<1> HIDE DEF n, up, rank, st, l
<1>6. ASSUME NEW k \in 1 .. n
      PROVE  (IF up[k - 1] < i \/ (up[k - 1] = i /\ rank[k - 1] <= l)
              THEN up[k - 1] ELSE InvalidNode)
             = (IF up[k - 1] < i + 1 \/ (up[k - 1] = i + 1 /\ rank[k - 1] <= 0)
                THEN up[k - 1] ELSE InvalidNode)
  <2> DEFINE h == k - 1
  <2>1. h \in 0 .. n - 1
    BY <1>1
  <2> HIDE DEF h
  <2>2. /\ up[h] \in Nat /\ rank[h] \in Nat
        /\ up[h] # InvalidNode => rank[h] > 0
        /\ up[h] = i => rank[h] <= l
    BY <1>1, <1>5, <2>1
  <2>3. (IF up[h] < i \/ (up[h] = i /\ rank[h] <= l)
         THEN up[h] ELSE InvalidNode)
        = (IF up[h] < i + 1 \/ (up[h] = i + 1 /\ rank[h] <= 0)
           THEN up[h] ELSE InvalidNode)
    BY <1>4, <2>2
  <2> QED BY <2>3 DEF h
<1>7. ParentsTo(L, i, l) = ParentsTo(L, i + 1, 0)
  <2> DEFINE A(k) == IF up[k - 1] < i \/ (up[k - 1] = i /\ rank[k - 1] <= l)
                     THEN up[k - 1] ELSE InvalidNode
             B(k) == IF up[k - 1] < i + 1
                        \/ (up[k - 1] = i + 1 /\ rank[k - 1] <= 0)
                     THEN up[k - 1] ELSE InvalidNode
  <2>1. \A k \in 1 .. n : A(k) = B(k)
    BY <1>6
  <2>2. /\ ParentsTo(L, i, l) = [k \in 1 .. n |-> A(k)]
        /\ ParentsTo(L, i + 1, 0) = [k \in 1 .. n |-> B(k)]
    BY <1>2
  <2> HIDE DEF A, B
  <2> QED BY <2>1, <2>2
<1>8. st[i] + l = st[i + 1] + 0
  <2>1. i \in 0 .. n
    BY <1>1, <1>4
  <2>2. st[i] \in Nat
    BY <1>1, <2>1
  <2> QED BY <1>1, <2>2
<1> QED BY <1>3, <1>7, <1>8 DEF l

(* Before the first row there are only nodes, and after the last every     *)
(* node has its parent.                                                    *)
LEMMA RowsStartAndEnd ==
  ASSUME NEW L, IsLayout(L)
  PROVE  /\ BuilderTo(L, 0, 0) =
               [nodes |-> L.data, edges |-> <<>>,
                parentOf |-> [k \in 1 .. L.size |-> InvalidNode]]
         /\ BuilderTo(L, L.size, 0) =
               [nodes |-> L.data, edges |-> EdgesTo(L, L.start[L.size]),
                parentOf |-> [k \in 1 .. L.size |-> L.up[k - 1]]]
<1> DEFINE n == L.size
           up == L.up
           rank == L.rank
           st == L.start
<1>1. /\ n \in Nat /\ n <= InvalidNode
      /\ \A h \in 0 .. n - 1 :
            /\ up[h] \in 0 .. n - 1 \cup {InvalidNode}
            /\ rank[h] \in Nat
            /\ up[h] # InvalidNode => rank[h] \in 1 .. Len(L.row[up[h]])
      /\ st \in [0 .. n -> Nat] /\ st[0] = 0
      /\ InvalidNode \in Nat \ {0}
  BY InvalidNodeAssumption DEF IsLayout
<1>2. \A m : ParentsTo(L, m, 0) =
         [k \in 1 .. n |-> IF up[k - 1] < m \/ (up[k - 1] = m /\ rank[k - 1] <= 0)
                           THEN up[k - 1] ELSE InvalidNode]
  BY DEF ParentsTo
<1>3. \A m : BuilderTo(L, m, 0) =
           [nodes |-> L.data, edges |-> EdgesTo(L, st[m] + 0),
            parentOf |-> ParentsTo(L, m, 0)]
  BY DEF BuilderTo
<1> HIDE DEF n, up, rank, st
<1>4. \A k \in 1 .. n : k - 1 \in 0 .. n - 1
  BY <1>1
<1>5. \A h \in 0 .. n - 1 : up[h] \in Nat /\ (up[h] = 0 => rank[h] > 0)
  BY <1>1
<1>6. ParentsTo(L, 0, 0) = [k \in 1 .. n |-> InvalidNode]
  <2>1. ASSUME NEW k \in 1 .. n
        PROVE  ~ (up[k - 1] < 0 \/ (up[k - 1] = 0 /\ rank[k - 1] <= 0))
    <3>1. k - 1 \in 0 .. n - 1
      BY <1>4
    <3>2. rank[k - 1] \in Nat /\ up[k - 1] \in Nat
          /\ (up[k - 1] = 0 => rank[k - 1] > 0)
      BY <1>1, <1>5, <3>1
    <3> QED BY <3>2
  <2> QED BY <1>2, <2>1
<1>7. ParentsTo(L, n, 0) = [k \in 1 .. n |-> up[k - 1]]
  <2>1. ASSUME NEW k \in 1 .. n
        PROVE  (IF up[k - 1] < n \/ (up[k - 1] = n /\ rank[k - 1] <= 0)
                THEN up[k - 1] ELSE InvalidNode) = up[k - 1]
    <3>1. k - 1 \in 0 .. n - 1
      BY <1>4
    <3>2. up[k - 1] < n \/ up[k - 1] = InvalidNode
      BY <1>1, <3>1
    <3> QED BY <3>2
  <2> QED BY <1>2, <2>1
<1>8. EdgesTo(L, st[0] + 0) = <<>>
  <2>1. st[0] + 0 = 0 /\ 1 .. 0 = {}
    BY <1>1
  <2>2. EdgesTo(L, 0) = <<>>
    BY <2>1 DEF EdgesTo
  <2> QED BY <2>1, <2>2
<1>9. st[n] + 0 = st[n]
  <2>1. n \in 0 .. n
    BY <1>1
  <2>2. st[n] \in Nat
    BY <1>1, <2>1
  <2> QED BY <2>2
<1> QED BY <1>3, <1>6, <1>7, <1>8, <1>9 DEF n, up, st

(* The builder once every row is in, by the vector.                        *)
LEMMA FullBuilder ==
  ASSUME NEW L, IsLayout(L)
  PROVE  LET b == BuilderTo(L, L.size, 0)
             E == EdgesTo(L, L.start[L.size])
         IN  /\ b.nodes = L.data /\ b.edges = E
             /\ b.parentOf = [k \in 1 .. L.size |-> L.up[k - 1]]
             /\ b = [nodes |-> L.data, edges |-> E,
                     parentOf |-> [k \in 1 .. L.size |-> L.up[k - 1]]]
             /\ E \in Seq(EdgeBelow(L.size, L.edgeSet))
             /\ Len(E) = L.start[L.size] /\ L.start[L.size] \in Nat
             /\ \A k \in 1 .. L.start[L.size] : E[k] = EdgeNo(L, k)
<1> DEFINE m == L.start[L.size]
           E == EdgesTo(L, m)
           b == BuilderTo(L, L.size, 0)
<1>1. m \in Nat
  <2>1. L.size \in 0 .. L.size /\ L.start \in [0 .. L.size -> Nat]
    BY DEF IsLayout
  <2> QED BY <2>1
<1>2. \A k \in 1 .. m : EdgeNo(L, k) \in EdgeBelow(L.size, L.edgeSet)
  BY EdgesListed
<1> HIDE DEF m
<1>3. E \in [1 .. m -> EdgeBelow(L.size, L.edgeSet)]
      /\ \A k \in 1 .. m : E[k] = EdgeNo(L, k)
  BY <1>2 DEF EdgesTo
<1> HIDE DEF E
<1>4. E \in Seq(EdgeBelow(L.size, L.edgeSet)) /\ Len(E) = m
  BY <1>1, <1>3, SeqDef, LenProperties
<1>5. b = [nodes |-> L.data, edges |-> E,
           parentOf |-> [k \in 1 .. L.size |-> L.up[k - 1]]]
  BY RowsStartAndEnd DEF E, m
<1>6. b.nodes = L.data /\ b.edges = E
      /\ b.parentOf = [k \in 1 .. L.size |-> L.up[k - 1]]
  <2> DEFINE P == [k \in 1 .. L.size |-> L.up[k - 1]]
  <2> HIDE DEF P, b
  <2>1. b = [nodes |-> L.data, edges |-> E, parentOf |-> P]
    BY <1>5 DEF P
  <2>2. b.nodes = L.data /\ b.edges = E /\ b.parentOf = P
    BY <2>1
  <2> QED BY <2>2 DEF P
<1> QED BY <1>1, <1>3, <1>4, <1>5, <1>6 DEF b, E, m

(* The builder of a whole layout is one build can be trusted with.         *)
LEMMA LayoutIsSound ==
  ASSUME NEW L, IsLayout(L)
  PROVE  SoundBuilder(BuilderTo(L, L.size, 0), L.nodeSet, L.edgeSet)
<1> DEFINE n == L.size
           b == BuilderTo(L, n, 0)
           m == L.start[n]
           E == EdgesTo(L, m)
           P == [k \in 1 .. n |-> L.up[k - 1]]
<1>1. /\ b.nodes = L.data /\ b.edges = E /\ b.parentOf = P
      /\ b = [nodes |-> L.data, edges |-> E, parentOf |-> P]
      /\ E \in Seq(EdgeBelow(n, L.edgeSet)) /\ Len(E) = m /\ m \in Nat
      /\ \A k \in 1 .. m : E[k] = EdgeNo(L, k)
  BY FullBuilder
<1>2. /\ n \in Nat /\ n <= InvalidNode /\ InvalidNode \in Nat
      /\ L.data \in Seq(L.nodeSet) /\ Len(L.data) = n
      /\ \A h \in 0 .. n - 1 :
            /\ L.up[h] \in 0 .. n - 1 \cup {InvalidNode}
            /\ L.up[h] # InvalidNode =>
                  /\ L.rank[h] \in 1 .. Len(L.row[L.up[h]])
                  /\ L.row[L.up[h]][L.rank[h]] = h
  BY InvalidNodeAssumption DEF IsLayout
<1>3. /\ \A p \in 0 .. n - 1 : \A a \in 1 .. Len(L.row[p]) :
            /\ EdgeNo(L, L.start[p] + a).to = L.row[p][a]
            /\ L.start[p] + a \in 1 .. m
      /\ \A k \in 1 .. m :
            /\ EdgeNo(L, k) \in EdgeBelow(n, L.edgeSet)
            /\ L.up[EdgeNo(L, k).to] = EdgeNo(L, k).from
            /\ k = L.start[EdgeNo(L, k).from] + L.rank[EdgeNo(L, k).to]
  <2>1. ASSUME NEW p \in 0 .. n - 1, NEW a \in 1 .. Len(L.row[p])
        PROVE  /\ EdgeNo(L, L.start[p] + a).to = L.row[p][a]
               /\ L.start[p] + a \in 1 .. m
    <3>1. EdgeNo(L, L.start[p] + a) =
            [from |-> p, to |-> L.row[p][a], data |-> L.weight[L.row[p][a]]]
      BY EdgesListed
    <3>2. L.start[p] + a \in 1 .. m
      BY OwnersFound
    <3> QED BY <3>1, <3>2
  <2>2. \A k \in 1 .. m :
            /\ EdgeNo(L, k) \in EdgeBelow(n, L.edgeSet)
            /\ L.up[EdgeNo(L, k).to] = EdgeNo(L, k).from
            /\ k = L.start[EdgeNo(L, k).from] + L.rank[EdgeNo(L, k).to]
    BY EdgesListed
  <2> QED BY <2>1, <2>2
<1> HIDE DEF n, b, m, E
<1>4. DOMAIN E = 1 .. m
  BY <1>1, LenProperties
<1>5. P \in Seq(0 .. InvalidNode) /\ Len(P) = n
      /\ \A h \in 0 .. n - 1 : P[h + 1] = L.up[h]
  <2>1. \A k \in 1 .. n : L.up[k - 1] \in 0 .. InvalidNode
    <3>1. ASSUME NEW k \in 1 .. n PROVE L.up[k - 1] \in 0 .. InvalidNode
      <4>1. k - 1 \in 0 .. n - 1
        BY <1>2
      <4> QED BY <1>2, <4>1
    <3> QED BY <3>1
  <2>2. P \in [1 .. n -> 0 .. InvalidNode]
    BY <2>1
  <2>3. ASSUME NEW h \in 0 .. n - 1 PROVE P[h + 1] = L.up[h]
    <3>1. h + 1 \in 1 .. n /\ (h + 1) - 1 = h
      BY <1>2
    <3> QED BY <3>1
  <2> HIDE DEF P
  <2>4. P \in Seq(0 .. InvalidNode) /\ Len(P) = n
    BY <1>2, <2>2, SeqDef, LenProperties
  <2> QED BY <2>3, <2>4
<1> HIDE DEF P
<1>6. b \in [nodes : Seq(L.nodeSet), edges : Seq(EdgeBelow(n, L.edgeSet)),
             parentOf : Seq(0 .. InvalidNode)]
  BY <1>1, <1>2, <1>5
<1>7. OneParent(E)
  BY <1>1, <1>3, <1>4 DEF OneParent
<1>8. ASSUME NEW k \in 1 .. m
      PROVE  E[k].to < n /\ P[E[k].to + 1] = E[k].from
  <2>1. E[k] \in EdgeBelow(n, L.edgeSet) /\ L.up[E[k].to] = E[k].from
    BY <1>1, <1>3
  <2>2. E[k].to \in 0 .. n - 1
    BY <2>1 DEF EdgeBelow
  <2>3. P[E[k].to + 1] = L.up[E[k].to]
    BY <1>5, <2>2
  <2>4. E[k].to < n
    BY <1>2, <2>2
  <2> QED BY <2>1, <2>3, <2>4
<1>9. RoughBuilder(b, L.nodeSet, L.edgeSet)
  <2>1. \A k \in DOMAIN b.edges :
           /\ b.edges[k].to < Len(b.parentOf)
           /\ At(b.parentOf, b.edges[k].to) = b.edges[k].from
    BY <1>1, <1>4, <1>5, <1>8 DEF At
  <2>2. Len(b.nodes) = n /\ Len(b.parentOf) = n
    BY <1>1, <1>2, <1>5
  <2> QED BY <1>1, <1>2, <1>6, <1>7, <2>1, <2>2 DEF RoughBuilder
<1>10. ASSUME NEW h \in 0 .. n - 1, P[h + 1] # InvalidNode
       PROVE  \E k \in 1 .. m : E[k].to = h
  <2> DEFINE p == L.up[h]
             k == L.start[p] + L.rank[h]
  <2>1. p \in 0 .. n - 1 /\ L.rank[h] \in 1 .. Len(L.row[p])
        /\ L.row[p][L.rank[h]] = h
    BY <1>2, <1>5, <1>10
  <2> HIDE DEF p
  <2>2. k \in 1 .. m /\ EdgeNo(L, k).to = h
    BY <1>3, <2>1
  <2> HIDE DEF k
  <2> QED BY <1>1, <2>2
<1>11. SoundBuilder(b, L.nodeSet, L.edgeSet)
  <2>1. HandlesOf(b.nodes) = 0 .. n - 1
    BY <1>1, <1>2 DEF HandlesOf
  <2>2. \A h \in HandlesOf(b.nodes) : At(b.parentOf, h) # InvalidNode =>
           \E k \in DOMAIN b.edges : b.edges[k].to = h
    BY <1>1, <1>4, <1>10, <2>1 DEF At
  <2> QED BY <1>1, <1>2, <1>5, <1>9, <2>2 DEF SoundBuilder
<1> QED BY <1>11 DEF b, n

(* build finds no cycle in a layout; at the last size alone the counts of  *)
(* build have wrapped.                                                     *)
LEMMA LayoutBuilds ==
  ASSUME NEW L, IsLayout(L)
  PROVE  LET b == BuilderTo(L, L.size, 0)
         IN  Build(b) = IF L.size < InvalidNode
                        THEN [status |-> "built", topology |-> Topology(b)]
                        ELSE [status |-> "undefined"]
<1> DEFINE n == L.size
           b == BuilderTo(L, n, 0)
           E == EdgesTo(L, L.start[n])
           order == KahnTopo(b.edges, n)
<1>1. /\ b.nodes = L.data /\ b.edges = E
      /\ E \in Seq(EdgeBelow(n, L.edgeSet))
      /\ DOMAIN E = 1 .. L.start[n]
      /\ \A k \in 1 .. L.start[n] : L.up[E[k].to] = E[k].from
  <2> DEFINE m == L.start[n]
  <2>1. /\ b.nodes = L.data /\ b.edges = E
        /\ E \in Seq(EdgeBelow(n, L.edgeSet)) /\ Len(E) = m
        /\ \A k \in 1 .. m : E[k] = EdgeNo(L, k)
    BY FullBuilder
  <2>2. \A k \in 1 .. m : L.up[EdgeNo(L, k).to] = EdgeNo(L, k).from
    BY EdgesListed
  <2> HIDE DEF b, E, m, n
  <2>3. DOMAIN E = 1 .. m
    BY <2>1, LenProperties
  <2> QED BY <2>1, <2>2, <2>3 DEF m
<1>2. /\ n \in Nat /\ n <= InvalidNode /\ InvalidNode \in Nat \ {0}
      /\ L.data \in Seq(L.nodeSet) /\ Len(L.data) = n
      /\ \A S \in SUBSET (0 .. n - 1) : S # {} => \E h \in S : L.up[h] \notin S
  BY InvalidNodeAssumption DEF IsLayout
<1>3. SoundBuilder(b, L.nodeSet, L.edgeSet)
  BY LayoutIsSound
<1> HIDE DEF n, b, E
<1>4. ~ (order = <<>> /\ n > 0)
  <2>1. SUFFICES ASSUME order = <<>>, n > 0 PROVE FALSE
    OBVIOUS
  <2>2. OneParent(E)
    BY <1>1, <1>3 DEF SoundBuilder, RoughBuilder
  <2>3. PICK S \in SUBSET (0 .. n - 1) : S # {} /\ ClosedUnderEdges(E, S)
    BY <1>1, <1>2, <2>1, <2>2, KahnSorts
  <2>4. PICK h \in S : L.up[h] \notin S
    BY <1>2, <2>3
  <2>5. PICK k \in DOMAIN E : E[k].to = h /\ E[k].from \in S
    BY <2>3, <2>4 DEF ClosedUnderEdges
  <2> QED BY <1>1, <2>4, <2>5
<1>5. ParentsCover(b) /\ Len(b.nodes) = n
  BY <1>1, <1>2, <1>3 DEF ParentsCover, SoundBuilder
<1>6. SizesFit(b.nodes) <=> n < InvalidNode
  <2>1. CASE n < InvalidNode
    BY <1>1, <1>2, <2>1, SmallSizesFit
  <2>2. CASE n = InvalidNode
    <3> DEFINE m == InvalidNode
    <3>1. m \in Nat \ {0}
      BY <1>2
    <3> HIDE DEF m
    <3>2. m % (m + 1) = m /\ (m + 1) % (m + 1) = 0
      BY <3>1
    <3>3. AsHandle(m) = m /\ AsHandle(m + 1) = 0
      BY <3>2 DEF AsHandle, m
    <3>4. ~ (0 = m + 1)
      BY <3>1
    <3> QED BY <1>5, <2>2, <3>3, <3>4 DEF SizesFit, m
  <2> QED BY <1>2, <2>1, <2>2
<1>7. Build(b) = IF n < InvalidNode
                 THEN [status |-> "built", topology |-> Topology(b)]
                 ELSE [status |-> "undefined"]
  BY <1>4, <1>5, <1>6 DEF Build, BuildOf
<1> QED BY <1>7 DEF b, n

(* The edges are in the order build sorts them by.                         *)
LEMMA EdgesStay ==
  ASSUME NEW L, IsLayout(L)
  PROVE  EdgeAt(EdgesTo(L, L.start[L.size]), L.size)
            = EdgesTo(L, L.start[L.size])
<1> DEFINE n == L.size
           m == L.start[n]
           E == EdgesTo(L, m)
           key == FromOf(E)
<1>1. /\ E \in Seq(EdgeBelow(n, L.edgeSet)) /\ Len(E) = m /\ m \in Nat
      /\ \A k \in 1 .. m : E[k] = EdgeNo(L, k)
  BY FullBuilder
<1>2. n \in Nat /\ L.start \in [0 .. n -> Nat]
  BY DEF IsLayout
<1>3. \A p, q \in 0 .. n : p <= q => L.start[p] <= L.start[q]
  BY OwnersFound
<1>4. \A k \in 1 .. m : L.start[EdgeNo(L, k).from] < k
                        /\ k <= L.start[EdgeNo(L, k).from + 1]
  BY EdgesListed
<1> HIDE DEF n, m, E
<1>5. /\ key \in [1 .. m -> Int] /\ DOMAIN E = 1 .. m
      /\ \A k \in 1 .. m : key[k] = E[k].from /\ E[k].from \in 0 .. n - 1
  <2>1. /\ Len(E) \in Nat /\ DOMAIN E = 1 .. Len(E)
        /\ \A k \in 1 .. Len(E) : /\ E[k].from \in 0 .. n - 1
                                  /\ FromOf(E)[k] = E[k].from
        /\ FromOf(E) \in [1 .. Len(E) -> Int]
    <3> DEFINE D == L.edgeSet
    <3>1. n \in Nat /\ E \in Seq(EdgeBelow(n, D))
      BY <1>1, <1>2
    <3> HIDE DEF D
    <3> QED BY <3>1, FromsAreKeys
  <2> QED BY <1>1, <2>1
<1> HIDE DEF key
<1>6. ASSUME NEW i \in 1 .. m, NEW j \in 1 .. m, i < j PROVE key[i] <= key[j]
  <2> DEFINE p == E[i].from
             q == E[j].from
  <2>1. p \in 0 .. n - 1 /\ q \in 0 .. n - 1
    BY <1>5
  <2>2. L.start[p] < i /\ j <= L.start[q + 1]
    BY <1>1, <1>4
  <2> HIDE DEF p, q
  <2>3. SUFFICES ASSUME q < p PROVE FALSE
    BY <1>5, <2>1 DEF p, q
  <2>4. q + 1 \in 0 .. n /\ p \in 0 .. n /\ q + 1 <= p
    BY <1>2, <2>1, <2>3
  <2>5. L.start[q + 1] <= L.start[p] /\ L.start[q + 1] \in Nat /\ L.start[p] \in Nat
    BY <1>2, <1>3, <2>4
  <2> QED BY <1>1, <1>6, <2>2, <2>5
<1>7. ASSUME NEW k \in 1 .. m PROVE CursorPosition(E, n, k) = k
  <2>1. Place(key, k) = k
    BY <1>1, <1>5, <1>6, PlaceOfSorted
  <2>2. CursorPosition(E, n, k) = Place(key, k)
    BY <1>1, <1>2, CursorIsPlace DEF key
  <2> QED BY <2>1, <2>2
<1>8. ASSUME NEW s \in 1 .. m
      PROVE  (CHOOSE k \in 1 .. m : CursorPosition(E, n, k) = s) = s
  BY <1>7
<1>9. EdgeAt(E, n) = [s \in 1 .. m |->
         E[CHOOSE k \in 1 .. m : CursorPosition(E, n, k) = s]]
  BY <1>5 DEF EdgeAt
<1>10. E = [s \in 1 .. m |-> E[s]]
  BY <1>1, <1>5, LenProperties
<1>11. EdgeAt(E, n) = E
  BY <1>8, <1>9, <1>10
<1> QED BY <1>11 DEF E, m, n

(* The offsets of build are the layout's counts.                           *)
LEMMA OffsetsAreStarts ==
  ASSUME NEW L, IsLayout(L), NEW p \in 0 .. L.size
  PROVE  Offsets(EdgesTo(L, L.start[L.size]), L.size)[p] = L.start[p]
<1> DEFINE n == L.size
           m == L.start[n]
           E == EdgesTo(L, m)
           below == {k \in 1 .. m : E[k].from < p}
<1>1. /\ E \in Seq(EdgeBelow(n, L.edgeSet)) /\ Len(E) = m /\ m \in Nat
      /\ \A k \in 1 .. m : E[k] = EdgeNo(L, k)
  BY FullBuilder
<1>2. n \in Nat /\ L.start \in [0 .. n -> Nat] /\ p \in 0 .. n
  BY DEF IsLayout
<1>3. /\ \A a, b \in 0 .. n : a <= b => L.start[a] <= L.start[b]
  BY OwnersFound
<1>4. \A k \in 1 .. m : /\ L.start[EdgeNo(L, k).from] < k
                        /\ k <= L.start[EdgeNo(L, k).from + 1]
                        /\ EdgeNo(L, k) \in EdgeBelow(n, L.edgeSet)
  BY EdgesListed
<1>5. m = L.start[n]
  OBVIOUS
<1> HIDE DEF n, m, E
<1>6. Offsets(E, n)[p] = Cardinality(below)
  BY <1>1, <1>2, OffsetsCount
<1>7. /\ L.start[p] \in Nat /\ L.start[p] <= m
  <2>1. n \in 0 .. n
    BY <1>2
  <2> QED BY <1>2, <1>3, <1>5, <2>1
<1>8. ASSUME NEW k \in 1 .. m PROVE E[k].from < p <=> k <= L.start[p]
  <2> DEFINE f == E[k].from
  <2>1. f \in 0 .. n - 1
    BY <1>1, <1>4 DEF EdgeBelow
  <2>2. L.start[f] < k /\ k <= L.start[f + 1]
    BY <1>1, <1>4
  <2> HIDE DEF f
  <2>3. f \in 0 .. n /\ f + 1 \in 0 .. n
    BY <1>2, <2>1
  <2>4. L.start[f] \in Nat /\ L.start[f + 1] \in Nat
    BY <1>2, <2>3
  <2>5. CASE f < p
    <3>1. f + 1 <= p
      BY <1>2, <2>1, <2>5
    <3>2. L.start[f + 1] <= L.start[p]
      BY <1>2, <1>3, <2>3, <3>1
    <3>3. k <= L.start[p]
      BY <1>7, <2>2, <2>4, <3>2
    <3> QED BY <2>5, <3>3 DEF f
  <2>6. CASE ~ (f < p)
    <3>1. p <= f
      BY <1>2, <2>1, <2>6
    <3>2. L.start[p] <= L.start[f]
      BY <1>2, <1>3, <2>3, <3>1
    <3>3. ~ (k <= L.start[p])
      BY <1>7, <2>2, <2>4, <3>2
    <3> QED BY <2>6, <3>3 DEF f
  <2> QED BY <2>5, <2>6
<1>9. below = 1 .. L.start[p]
  BY <1>1, <1>7, <1>8
<1>10. Cardinality(below) = L.start[p]
  BY <1>7, <1>9, PositionsCounted
<1> QED BY <1>6, <1>10 DEF E, m, n

(* What build makes of a layout: its rows, parents and payloads.           *)
LEMMA TopologyOfLayout ==
  ASSUME NEW L, IsLayout(L)
  PROVE  LET t == Topology(BuilderTo(L, L.size, 0))
         IN  /\ t.nodeData = L.data
             /\ t.parent = [k \in 1 .. L.size |-> L.up[k - 1]]
             /\ t.plan.roots =
                   NodesWith([i \in 1 .. L.size |-> i - 1],
                             [h \in 0 .. L.size - 1 |-> L.up[h]], InvalidNode)
             /\ \A p \in 0 .. L.size - 1 :
                   /\ At(t.parentEdgeData, p) =
                         IF L.up[p] = InvalidNode THEN DefaultEdge
                         ELSE L.weight[p]
                   /\ ChildSpan(t, p) = L.row[p]
                   /\ ChildEdgeSpan(t, p) =
                         [a \in 1 .. Len(L.row[p]) |-> L.weight[L.row[p][a]]]
<1> DEFINE n == L.size
           m == L.start[n]
           E == EdgesTo(L, m)
           P == [k \in 1 .. n |-> L.up[k - 1]]
           b == BuilderTo(L, n, 0)
           t == Topology(b)
           to == [s \in 1 .. m |-> E[s].to]
           data == [s \in 1 .. m |-> E[s].data]
<1>1. /\ b.nodes = L.data /\ b.edges = E /\ b.parentOf = P
      /\ E \in Seq(EdgeBelow(n, L.edgeSet)) /\ Len(E) = m /\ m \in Nat
      /\ \A k \in 1 .. m : E[k] = EdgeNo(L, k)
  BY FullBuilder
<1>2. EdgeAt(E, n) = E
  BY EdgesStay
<1>3. \A p \in 0 .. n : Offsets(E, n)[p] = L.start[p]
  BY OffsetsAreStarts
<1>4. /\ n \in Nat /\ L.start \in [0 .. n -> Nat]
      /\ Len(L.data) = n
      /\ \A p \in 0 .. n - 1 :
            /\ L.row[p] \in Seq(0 .. n - 1)
            /\ L.start[p + 1] = L.start[p] + Len(L.row[p])
      /\ \A h \in 0 .. n - 1 :
            /\ L.up[h] \in 0 .. n - 1 \cup {InvalidNode}
            /\ L.up[h] # InvalidNode =>
                  /\ L.rank[h] \in 1 .. Len(L.row[L.up[h]])
                  /\ L.row[L.up[h]][L.rank[h]] = h
      /\ n <= InvalidNode /\ InvalidNode \in Nat
  BY InvalidNodeAssumption DEF IsLayout
<1>5. ASSUME NEW p \in 0 .. n - 1, NEW a \in 1 .. Len(L.row[p])
      PROVE  /\ L.start[p] + a \in 1 .. m
             /\ EdgeNo(L, L.start[p] + a).to = L.row[p][a]
             /\ EdgeNo(L, L.start[p] + a).data = L.weight[L.row[p][a]]
  <2>1. EdgeNo(L, L.start[p] + a) =
          [from |-> p, to |-> L.row[p][a], data |-> L.weight[L.row[p][a]]]
    BY EdgesListed
  <2>2. L.start[p] + a \in 1 .. m
    BY OwnersFound
  <2> QED BY <2>1, <2>2
<1>6. \A k \in 1 .. m :
         /\ EdgeNo(L, k) \in EdgeBelow(n, L.edgeSet)
         /\ L.up[EdgeNo(L, k).to] = EdgeNo(L, k).from
         /\ EdgeNo(L, k).data = L.weight[EdgeNo(L, k).to]
  BY EdgesListed
<1>7. \A a, c \in 0 .. n : a <= c => L.start[a] <= L.start[c]
  BY OwnersFound
<1>8. m = L.start[n]
  OBVIOUS
<1> HIDE DEF n, m, E, P, b
<1>9. DOMAIN E = 1 .. m
  BY <1>1, LenProperties
<1>10. /\ t.nodeData = L.data /\ t.parent = P
       /\ t.outOffsets = Offsets(E, n)
       /\ t.outNeighbors = to /\ t.outEdgeData = data
       /\ t.parentEdgeData = ParentEdges(E, n)
       /\ t.plan = Plan(KahnTopo(E, n), P)
  <2>1. SortedByParent(b.edges, Len(b.nodes)) = E
    BY <1>1, <1>2, <1>4 DEF SortedByParent
  <2>2. t = [nodeData |-> b.nodes,
             outOffsets |-> Offsets(E, n),
             outNeighbors |-> to,
             outEdgeData |-> data,
             parent |-> b.parentOf,
             parentEdgeData |-> ParentEdges(E, n),
             plan |-> Plan(KahnTopo(E, n), b.parentOf)]
    BY <1>1, <1>2, <1>4, <1>9, <2>1 DEF Topology
  <2> HIDE DEF t, to, data
  <2> QED BY <1>1, <2>2
<1> HIDE DEF t
<1>11. /\ to \in Seq(0 .. n - 1) /\ data \in Seq(L.edgeSet)
       /\ Len(to) = m /\ Len(data) = m
       /\ \A s \in 1 .. m : to[s] = EdgeNo(L, s).to /\ data[s] = EdgeNo(L, s).data
  <2>1. to \in [1 .. m -> 0 .. n - 1] /\ data \in [1 .. m -> L.edgeSet]
    BY <1>1, <1>6 DEF EdgeBelow
  <2>2. \A s \in 1 .. m : to[s] = EdgeNo(L, s).to /\ data[s] = EdgeNo(L, s).data
    BY <1>1
  <2> HIDE DEF to, data
  <2>3. to \in Seq(0 .. n - 1) /\ data \in Seq(L.edgeSet)
    <3>1. m \in Nat
      BY <1>1
    <3> DEFINE S == 0 .. n - 1
    <3>2. to \in [1 .. m -> S] /\ data \in [1 .. m -> L.edgeSet]
      BY <2>1
    <3> HIDE DEF S
    <3>3. to \in Seq(S)
      BY <3>1, <3>2, SeqDef
    <3>4. data \in Seq(L.edgeSet)
      BY <3>1, <3>2, SeqDef
    <3> QED BY <3>3, <3>4 DEF S
  <2>4. DOMAIN to = 1 .. m /\ DOMAIN data = 1 .. m
    BY <2>1
  <2>5. Len(to) = m /\ Len(data) = m
    BY <1>1, <2>3, <2>4, LenProperties
  <2> QED BY <2>2, <2>3, <2>5
<1> HIDE DEF to, data
<1>12. ASSUME NEW p \in 0 .. n - 1
       PROVE  /\ ChildSpan(t, p) = L.row[p]
              /\ ChildEdgeSpan(t, p) =
                    [a \in 1 .. Len(L.row[p]) |-> L.weight[L.row[p][a]]]
  <2> DEFINE s == L.start[p]
             l == Len(L.row[p])
             r == L.row[p]
             w == [a \in 1 .. l |-> L.weight[r[a]]]
  <2>1. /\ p \in 0 .. n /\ p + 1 \in 0 .. n /\ n \in 0 .. n /\ p + 1 <= n
    BY <1>4
  <2>2. /\ s \in Nat /\ l \in Nat /\ L.start[p + 1] = s + l /\ s + l <= m
        /\ r \in Seq(0 .. n - 1)
    BY <1>4, <1>7, <1>8, <2>1, LenProperties
  <2>3. /\ Offsets(E, n)[p] = s /\ Offsets(E, n)[p + 1] = s + l
    BY <1>3, <2>1, <2>2
  <2>4. \A a \in 1 .. l : /\ s + a \in 1 .. m
                          /\ to[s + a] = r[a] /\ data[s + a] = L.weight[r[a]]
    BY <1>5, <1>11
  <2>5. \A a \in 1 .. l : w[a] = L.weight[r[a]]
    OBVIOUS
  <2>6. DOMAIN w = 1 .. l
    OBVIOUS
  <2>7. w \in [1 .. l -> {w[a] : a \in 1 .. l}]
    OBVIOUS
  <2> HIDE DEF s, l, w
  <2>8. /\ s + 1 \in 1 .. m + 1 /\ s + l \in s .. m
        /\ (s + l) - (s + 1) + 1 = l
        /\ \A a \in 1 .. l : (s + 1) + a - 1 = s + a
    BY <1>1, <2>2
  <2>9. /\ SubSeq(to, s + 1, s + l) \in Seq(0 .. n - 1)
        /\ Len(SubSeq(to, s + 1, s + l)) = l
        /\ \A a \in 1 .. l : SubSeq(to, s + 1, s + l)[a] = to[s + a]
    <3>1. \A a \in s + 1 .. s + l : to[a] \in 0 .. n - 1
      <4>1. \A a \in s + 1 .. s + l : a \in 1 .. m
        BY <1>1, <2>2
      <4> QED BY <1>11, <4>1, ElementOfSeq
    <3>2. DOMAIN to = 1 .. m
      BY <1>11, LenProperties
    <3> QED BY <2>2, <2>8, <3>1, <3>2, SubSeqProperties
  <2>10. SubSeq(to, s + 1, s + l) = r
    BY <2>2, <2>4, <2>9, SeqEqual DEF l
  <2>11. ChildSpan(t, p) = r
    BY <1>10, <2>3, <2>10 DEF ChildSpan, Span
  <2>12. /\ Len(SubSeq(data, s + 1, s + l)) = l
         /\ SubSeq(data, s + 1, s + l) \in Seq(L.edgeSet)
         /\ \A a \in 1 .. l : SubSeq(data, s + 1, s + l)[a] = data[s + a]
    <3>1. \A a \in s + 1 .. s + l : data[a] \in L.edgeSet
      <4>1. \A a \in s + 1 .. s + l : a \in 1 .. m
        BY <1>1, <2>2
      <4> QED BY <1>11, <4>1, ElementOfSeq
    <3>2. DOMAIN data = 1 .. m
      BY <1>11, LenProperties
    <3> DEFINE D == L.edgeSet
    <3>3. data \in Seq(D) /\ \A a \in s + 1 .. s + l : data[a] \in D
      BY <1>11, <3>1
    <3> HIDE DEF D
    <3>4. /\ Len(SubSeq(data, s + 1, s + l)) = l
          /\ SubSeq(data, s + 1, s + l) \in Seq(D)
          /\ \A a \in 1 .. l : SubSeq(data, s + 1, s + l)[a] = data[s + a]
      BY <2>2, <2>8, <3>2, <3>3, SubSeqProperties
    <3> QED BY <3>4 DEF D
  <2>13. SubSeq(data, s + 1, s + l) = w
    <3> DEFINE v == SubSeq(data, s + 1, s + l)
    <3>1. v \in [1 .. l -> L.edgeSet]
      BY <2>12, LenProperties
    <3>2. v = [a \in 1 .. l |-> v[a]]
      BY <3>1
    <3>3. \A a \in 1 .. l : v[a] = L.weight[r[a]]
      BY <2>4, <2>12
    <3> HIDE DEF v
    <3>4. w = [a \in 1 .. l |-> L.weight[r[a]]]
      BY DEF w
    <3> QED BY <3>2, <3>3, <3>4 DEF v
  <2>14. ChildEdgeSpan(t, p) = w
    BY <1>10, <2>3, <2>13 DEF ChildEdgeSpan, Span
  <2> QED BY <2>11, <2>14 DEF w, l, r
<1>13. ASSUME NEW p \in 0 .. n - 1
       PROVE  At(t.parentEdgeData, p) =
                IF L.up[p] = InvalidNode THEN DefaultEdge ELSE L.weight[p]
  <2>1. p + 1 \in 1 .. n /\ (p + 1) - 1 = p
    BY <1>4
  <2>2. ParentEdges(E, n)[p + 1] =
           IF \E k \in 1 .. m : E[k].to = p
           THEN E[CHOOSE k \in 1 .. m : E[k].to = p].data
           ELSE DefaultEdge
    BY <1>9, <2>1 DEF ParentEdges
  <2>3. CASE L.up[p] = InvalidNode
    <3>1. ~ \E k \in 1 .. m : E[k].to = p
      <4>1. SUFFICES ASSUME NEW k \in 1 .. m, E[k].to = p PROVE FALSE
        OBVIOUS
      <4>2. L.up[p] = E[k].from /\ E[k].from \in 0 .. n - 1
        BY <1>1, <1>6, <4>1 DEF EdgeBelow
      <4> QED BY <1>4, <2>3, <4>2
    <3> QED BY <1>10, <2>2, <2>3, <3>1 DEF At
  <2>4. CASE L.up[p] # InvalidNode
    <3> DEFINE q == L.up[p]
               a == L.rank[p]
               j == L.start[q] + a
               c == CHOOSE k \in 1 .. m : E[k].to = p
    <3>1. q \in 0 .. n - 1 /\ a \in 1 .. Len(L.row[q]) /\ L.row[q][a] = p
      BY <1>4, <2>4
    <3> HIDE DEF q, a
    <3>2. j \in 1 .. m /\ EdgeNo(L, j).to = p
      BY <1>5, <3>1
    <3> HIDE DEF j
    <3>3. E[j].to = p
      BY <1>1, <3>2
    <3>4. c \in 1 .. m /\ E[c].to = p
      BY <3>2, <3>3
    <3> HIDE DEF c
    <3>5. E[c].data = L.weight[p]
      BY <1>1, <1>6, <3>4
    <3>6. ParentEdges(E, n)[p + 1] = E[c].data
      BY <2>2, <3>2, <3>3 DEF c
    <3> QED BY <1>10, <2>4, <3>5, <3>6 DEF At
  <2> QED BY <2>3, <2>4
<1>14. t.plan.roots = NodesWith([i \in 1 .. n |-> i - 1],
                                [h \in 0 .. n - 1 |-> L.up[h]], InvalidNode)
  <2>1. DOMAIN P = 1 .. n /\ HandlesOf(P) = 0 .. n - 1
        /\ \A h \in 0 .. n - 1 : At(P, h) = L.up[h]
    <3>1. DOMAIN P = 1 .. n /\ P = [k \in 1 .. n |-> L.up[k - 1]]
      BY DEF P
    <3>2. Len(P) = n
      <4>1. P \in [1 .. n -> {L.up[k - 1] : k \in 1 .. n}]
        BY DEF P
      <4> QED BY <1>4, <3>1, <4>1, SeqDef, LenProperties
    <3>3. ASSUME NEW h \in 0 .. n - 1 PROVE At(P, h) = L.up[h]
      <4>1. h + 1 \in 1 .. n /\ (h + 1) - 1 = h
        BY <1>4
      <4> QED BY <3>1, <4>1 DEF At
    <3> QED BY <3>1, <3>2, <3>3 DEF HandlesOf
  <2>2. t.plan.roots = NodesWith([i \in DOMAIN P |-> i - 1],
                                 [h \in HandlesOf(P) |-> At(P, h)], InvalidNode)
    BY <1>10 DEF Plan
  <2> DEFINE values == [h \in HandlesOf(P) |-> At(P, h)]
             ups == [h \in 0 .. n - 1 |-> L.up[h]]
             places == [i \in DOMAIN P |-> i - 1]
             handles == [i \in 1 .. n |-> i - 1]
  <2>3. values = ups /\ places = handles
    BY <2>1
  <2>4. t.plan.roots = NodesWith(places, values, InvalidNode)
    BY <2>2
  <2> HIDE DEF values, ups, places, handles
  <2>5. t.plan.roots = NodesWith(handles, ups, InvalidNode)
    BY <2>3, <2>4
  <2> QED BY <2>5 DEF ups, handles
<1> QED BY <1>10, <1>12, <1>13, <1>14 DEF t, b, n, P

-----------------------------------------------------------------------------
(* Nodes listed by handle *)

Ascends(s) == \A i, j \in 1 .. Len(s) : i < j => s[i] < s[j]

(* The nodes of an ascending list with a given value ascend.               *)
LEMMA NodesWithAscends ==
  ASSUME NEW list \in Seq(Nat), Ascends(list), NEW valueOf, NEW v
  PROVE  Ascends(NodesWith(list, valueOf, v))
<1> DEFINE l == Len(list)
<1>1. l \in Nat /\ \A i \in 1 .. l : list[i] \in Nat
  BY LenProperties, ElementOfSeq
<1>2. PICK pushed :
         /\ NodesWith(list, valueOf, v) = pushed[l]
         /\ pushed[0] = <<>>
         /\ \A i \in 1 .. l :
               pushed[i] = IF valueOf[list[i]] = v
                           THEN Append(pushed[i - 1], list[i])
                           ELSE pushed[i - 1]
  <2>1. PICK pushed : /\ NodesWith(list, valueOf, v) = pushed[Len(list)]
                      /\ PushedBy(pushed, list, valueOf, v)
    BY NodesWithRounds
  <2> QED BY <2>1 DEF PushedBy
<1> DEFINE Below(s, i) == \A k \in 1 .. Len(s) :
                             \E j \in 1 .. i : s[k] = list[j]
           T == {i \in 0 .. l : /\ pushed[i] \in Seq(Nat) /\ Ascends(pushed[i])
                                /\ Below(pushed[i], i)}
<1>3. \A i, j \in 1 .. l : i < j => list[i] < list[j]
  BY DEF Ascends
<1> HIDE DEF l
<1>4. 0 \in T
  <2>1. /\ <<>> \in Seq(Nat) /\ Len(<<>>) = 0
    OBVIOUS
  <2>2. Ascends(<<>>) /\ Below(<<>>, 0)
    BY <2>1 DEF Ascends
  <2>3. 0 \in 0 .. l
    BY <1>1
  <2> HIDE DEF Below
  <2> QED BY <1>2, <2>1, <2>2, <2>3
<1>5. ASSUME NEW i \in 1 .. l, i - 1 \in T PROVE i \in T
  <2> DEFINE s == pushed[i - 1]
             e == list[i]
             t == Append(s, e)
             m == Len(s)
  <2>1. /\ s \in Seq(Nat) /\ Ascends(s) /\ m \in Nat
        /\ \A k \in 1 .. m : \E j \in 1 .. i - 1 : s[k] = list[j]
        /\ i \in 0 .. l
    BY <1>5, LenProperties
  <2>2. pushed[i] = IF valueOf[list[i]] = v THEN t ELSE s
    BY <1>2
  <2>3. /\ t \in Seq(Nat) /\ Len(t) = m + 1 /\ t[m + 1] = e
        /\ \A k \in 1 .. m : t[k] = s[k]
    BY <1>1, <2>1, AppendProperties
  <2> HIDE DEF t, m
  <2>4. \A k \in 1 .. m : s[k] < e
    <3>1. ASSUME NEW k \in 1 .. m PROVE s[k] < e
      <4>1. PICK j \in 1 .. i - 1 : s[k] = list[j]
        BY <2>1
      <4>2. j \in 1 .. l /\ j < i
        BY <1>1
      <4> QED BY <1>3, <4>1, <4>2
    <3> QED BY <3>1
  <2>5. \A a, b \in 1 .. m : a < b => s[a] < s[b]
    BY <2>1 DEF Ascends, m
  <2>6. Ascends(t)
    <3>1. ASSUME NEW a \in 1 .. m + 1, NEW b \in 1 .. m + 1, a < b
          PROVE  t[a] < t[b]
      <4>1. a \in 1 .. m
        BY <2>1, <3>1
      <4>2. CASE b \in 1 .. m
        BY <2>3, <2>5, <3>1, <4>1, <4>2
      <4>3. CASE b = m + 1
        BY <2>3, <2>4, <4>1, <4>3
      <4>4. b \in 1 .. m \/ b = m + 1
        BY <2>1
      <4> QED BY <4>2, <4>3, <4>4
    <3> QED BY <2>3, <3>1 DEF Ascends
  <2>7. Below(t, i)
    <3>1. ASSUME NEW k \in 1 .. m + 1 PROVE \E j \in 1 .. i : t[k] = list[j]
      <4>1. CASE k \in 1 .. m
        <5>1. PICK j \in 1 .. i - 1 : s[k] = list[j]
          BY <2>1, <4>1
        <5>2. j \in 1 .. i
          OBVIOUS
        <5> QED BY <2>3, <4>1, <5>1, <5>2
      <4>2. CASE k = m + 1
        <5>1. i \in 1 .. i
          OBVIOUS
        <5> QED BY <2>3, <4>2, <5>1
      <4>3. k \in 1 .. m \/ k = m + 1
        BY <2>1
      <4> QED BY <4>1, <4>2, <4>3
    <3> QED BY <2>3, <3>1
  <2>8. Below(s, i)
    <3>1. ASSUME NEW k \in 1 .. m PROVE \E j \in 1 .. i : s[k] = list[j]
      <4>1. PICK j \in 1 .. i - 1 : s[k] = list[j]
        BY <2>1
      <4>2. j \in 1 .. i
        OBVIOUS
      <4> QED BY <4>1, <4>2
    <3> QED BY <3>1 DEF m
  <2> HIDE DEF s, Below
  <2>9. pushed[i] \in Seq(Nat) /\ Ascends(pushed[i]) /\ Below(pushed[i], i)
    BY <2>1, <2>2, <2>3, <2>6, <2>7, <2>8
  <2> QED BY <2>1, <2>9
<1> HIDE DEF T
<1>6. \A i \in 0 .. l : i \in T
  BY <1>1, <1>4, <1>5, RoundInduction
<1>7. l \in 0 .. l
  BY <1>1
<1> QED BY <1>2, <1>6, <1>7 DEF T

(* There is one way to list a finite set of numbers upwards.               *)
LEMMA AscentIsUnique ==
  ASSUME NEW s \in Seq(Nat), NEW t \in Seq(Nat), Ascends(s), Ascends(t),
         ToSet(s) = ToSet(t), IsFiniteSet(ToSet(s))
  PROVE  s = t
<1> DEFINE S == ToSet(s)
           m == Cardinality(S)
<1>0. IsFiniteSet(S) /\ S = ToSet(t) /\ S = ToSet(s)
  OBVIOUS
<1> HIDE DEF S
<1>1. ASSUME NEW u \in Seq(Nat), Ascends(u), ToSet(u) = S
      PROVE  /\ Len(u) = m /\ m \in Nat
             /\ \A i \in 1 .. m : u[i] \in Nat
             /\ \A i, j \in 1 .. m : i < j => u[i] < u[j]
             /\ \A x \in S : \E i \in 1 .. m : u[i] = x
             /\ \A i \in 1 .. m : u[i] \in S
  <2>1. /\ Len(u) \in Nat /\ DOMAIN u = 1 .. Len(u)
        /\ \A i \in 1 .. Len(u) : u[i] \in S /\ u[i] \in Nat
        /\ \A i, j \in 1 .. Len(u) : i < j => u[i] < u[j]
        /\ u \in [1 .. Len(u) -> S]
    <3>1. \A i \in 1 .. Len(u) : u[i] \in S
      BY <1>1, LenProperties DEF ToSet
    <3> QED BY <1>1, <3>1, LenProperties, ElementOfSeq DEF Ascends
  <2>2. ASSUME NEW i \in 1 .. Len(u), NEW j \in 1 .. Len(u), u[i] = u[j]
        PROVE  i = j
    <3>1. ~ (i < j) /\ ~ (j < i)
      BY <2>1, <2>2
    <3> QED BY <2>1, <3>1
  <2>3. IsInjective(u)
    BY <2>1, <2>2 DEF IsInjective
  <2>4. Len(u) = m
    <3>1. u \in Seq(S)
      BY <2>1, SeqDef
    <3> QED BY <1>0, <1>1, <2>3, <3>1, InjectiveLength
  <2>5. \A x \in S : \E i \in 1 .. Len(u) : u[i] = x
    BY <1>1, <2>1 DEF ToSet
  <2> QED BY <2>1, <2>4, <2>5
<1>2. /\ Len(s) = m /\ m \in Nat
      /\ \A i \in 1 .. m : s[i] \in Nat
      /\ \A i, j \in 1 .. m : i < j => s[i] < s[j]
      /\ \A x \in S : \E i \in 1 .. m : s[i] = x
      /\ \A i \in 1 .. m : s[i] \in S
  BY <1>0, <1>1
<1>3. /\ Len(t) = m
      /\ \A i \in 1 .. m : t[i] \in Nat
      /\ \A i, j \in 1 .. m : i < j => t[i] < t[j]
      /\ \A x \in S : \E i \in 1 .. m : t[i] = x
      /\ \A i \in 1 .. m : t[i] \in S
  BY <1>0, <1>1
<1> HIDE DEF m
<1> DEFINE T == {i \in 0 .. m : \A k \in 1 .. i : s[k] = t[k]}
<1>4. 0 \in T
  BY <1>2
<1>5. ASSUME NEW i \in 1 .. m, i - 1 \in T PROVE i \in T
  <2>1. \A k \in 1 .. i - 1 : s[k] = t[k]
    BY <1>5
  <2>2. t[i] <= s[i]
    <3>1. PICK j \in 1 .. m : t[j] = s[i]
      BY <1>2, <1>3
    <3>2. CASE j < i
      <4>1. j \in 1 .. i - 1
        BY <3>2
      <4>2. s[j] = s[i] /\ s[j] < s[i]
        BY <1>2, <2>1, <3>1, <3>2, <4>1
      <4> QED BY <1>2, <4>2
    <3>3. CASE j = i
      BY <1>2, <3>1, <3>3
    <3>4. CASE i < j
      BY <1>2, <1>3, <3>1, <3>4
    <3> QED BY <3>2, <3>3, <3>4
  <2>3. s[i] <= t[i]
    <3>1. PICK j \in 1 .. m : s[j] = t[i]
      BY <1>2, <1>3
    <3>2. CASE j < i
      <4>1. j \in 1 .. i - 1
        BY <3>2
      <4>2. t[j] = t[i] /\ t[j] < t[i]
        BY <1>3, <2>1, <3>1, <3>2, <4>1
      <4> QED BY <1>3, <4>2
    <3>3. CASE j = i
      BY <1>3, <3>1, <3>3
    <3>4. CASE i < j
      BY <1>2, <1>3, <3>1, <3>4
    <3> QED BY <3>2, <3>3, <3>4
  <2>4. s[i] = t[i]
    BY <1>2, <1>3, <2>2, <2>3
  <2>5. ASSUME NEW k \in 1 .. i PROVE s[k] = t[k]
    <3>1. k \in 1 .. i - 1 \/ k = i
      OBVIOUS
    <3> QED BY <2>1, <2>4, <3>1
  <2>6. i \in 0 .. m
    BY <1>2
  <2> QED BY <2>5, <2>6
<1> HIDE DEF T
<1>6. \A i \in 0 .. m : i \in T
  BY <1>2, <1>4, <1>5, RoundInduction
<1>7. m \in 0 .. m
  BY <1>2
<1>8. \A k \in 1 .. m : s[k] = t[k]
  BY <1>6, <1>7 DEF T
<1> QED BY <1>2, <1>3, <1>8, SeqEqual

=============================================================================
