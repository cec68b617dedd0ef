--------------------------- MODULE SequenceLemmas ---------------------------
(* Induction over the naturals for a set given by its members, and what    *)
(* inserting into a sequence, erasing from it, listing its members and     *)
(* putting sequences together do.                                          *)
EXTENDS SequencesExt, SequenceTheorems, FiniteSetTheorems, TLAPS

(* A nonempty set of naturals has a least element, and Min is it.          *)
LEMMA MinOfNaturals ==
  ASSUME NEW I \in SUBSET Nat, I # {}
  PROVE  Min(I) \in I /\ \A y \in I : Min(I) <= y
<1>1. PICK x \in I : \A y \in I : ~ (<<y, x>> \in OpToRel(<, Nat))
  BY NatLessThanWellFounded, WFMin, Zenon
<1>2. \A y \in I : ~ (y < x)
  BY <1>1 DEF OpToRel
<1>3. \A y \in I : x <= y
  BY <1>2
<1> QED BY <1>3 DEF Min

(* Induction over the naturals, for a set given by its members.            *)
LEMMA NatSetInduction ==
  ASSUME NEW T \in SUBSET Nat, 0 \in T, \A n \in T : n + 1 \in T
  PROVE  T = Nat
<1>1. SUFFICES ASSUME Nat \ T # {} PROVE FALSE
  OBVIOUS
<1> DEFINE least == Min(Nat \ T)
<1>2. least \in Nat \ T /\ \A y \in Nat \ T : least <= y
  BY <1>1, MinOfNaturals
<1> HIDE DEF least
<1>3. least - 1 \in Nat /\ ~ (least - 1 \in Nat \ T)
  BY <1>2
<1>4. (least - 1) + 1 \in T
  BY <1>3
<1> QED BY <1>2, <1>4

(* vector::insert: the elements before the position stay, those from it on *)
(* move up by one.                                                         *)
LEMMA InsertAtElements ==
  ASSUME NEW S, NEW s \in Seq(S), NEW i \in 1 .. Len(s) + 1, NEW e \in S
  PROVE  /\ InsertAt(s, i, e) \in Seq(S)
         /\ Len(InsertAt(s, i, e)) = Len(s) + 1
         /\ \A k \in 1 .. Len(s) + 1 :
               InsertAt(s, i, e)[k] = IF k < i THEN s[k]
                                      ELSE IF k = i THEN e ELSE s[k - 1]
<1> DEFINE front == SubSeq(s, 1, i - 1)
           back == SubSeq(s, i, Len(s))
<1>1. /\ front \in Seq(S)
      /\ Len(front) = i - 1
      /\ \A k \in 1 .. i - 1 : front[k] = s[k]
  BY SubSeqProperties, LenProperties
<1>2. /\ back \in Seq(S)
      /\ Len(back) = Len(s) - i + 1
      /\ \A k \in 1 .. Len(s) - i + 1 : back[k] = s[i + k - 1]
  BY SubSeqProperties, LenProperties
<1> HIDE DEF front, back
<1>3. <<e>> \in Seq(S) /\ Len(<<e>>) = 1 /\ <<e>>[1] = e
  OBVIOUS
<1> DEFINE head == front \o <<e>>
<1>4. /\ head \in Seq(S)
      /\ Len(head) = i
      /\ \A k \in 1 .. i : head[k] = IF k < i THEN s[k] ELSE e
  BY <1>1, <1>3, ConcatProperties
<1> HIDE DEF head
<1>5. /\ head \o back \in Seq(S)
      /\ Len(head \o back) = Len(s) + 1
      /\ \A k \in 1 .. Len(s) + 1 : (head \o back)[k] =
            IF k <= i THEN head[k] ELSE back[k - i]
  <2>1. /\ head \o back \in Seq(S)
        /\ Len(head \o back) = Len(head) + Len(back)
        /\ \A k \in 1 .. Len(head) + Len(back) : (head \o back)[k] =
              IF k <= Len(head) THEN head[k] ELSE back[k - Len(head)]
    BY <1>2, <1>4, ConcatProperties, Zenon
  <2>2. Len(head) + Len(back) = Len(s) + 1
    BY <1>2, <1>4, LenProperties
  <2> QED BY <1>4, <2>1, <2>2, Zenon
<1>6. \A k \in i + 1 .. Len(s) + 1 : back[k - i] = s[k - 1]
  BY <1>2
<1>7. \A k \in 1 .. Len(s) + 1 : (head \o back)[k] =
            IF k < i THEN s[k] ELSE IF k = i THEN e ELSE s[k - 1]
  BY <1>4, <1>5, <1>6
<1> QED BY <1>5, <1>7 DEF InsertAt, front, back, head

(* What vector::insert leaves: t holds s with e at position i, the elements *)
(* before it as they were, those from it on one further.                   *)
InsertedAt(s, i, e, t) ==
    /\ Len(t) = Len(s) + 1
    /\ \A k \in 1 .. Len(s) + 1 :
          t[k] = IF k < i THEN s[k] ELSE IF k = i THEN e ELSE s[k - 1]

(* InsertAtElements, in the form the later proofs cite.                    *)
LEMMA InsertAtPlaces ==
  ASSUME NEW S, NEW s \in Seq(S), NEW i \in 1 .. Len(s) + 1, NEW e \in S
  PROVE  InsertAt(s, i, e) \in Seq(S) /\ InsertedAt(s, i, e, InsertAt(s, i, e))
BY InsertAtElements DEF InsertedAt

(* vector::erase: the elements behind the position move down by one.       *)
LEMMA RemoveAtElements ==
  ASSUME NEW S, NEW s \in Seq(S), NEW i \in 1 .. Len(s)
  PROVE  /\ RemoveAt(s, i) \in Seq(S)
         /\ Len(RemoveAt(s, i)) = Len(s) - 1
         /\ \A k \in 1 .. Len(s) - 1 :
               RemoveAt(s, i)[k] = IF k < i THEN s[k] ELSE s[k + 1]
<1> DEFINE front == SubSeq(s, 1, i - 1)
           back == SubSeq(s, i + 1, Len(s))
<1>1. /\ front \in Seq(S)
      /\ Len(front) = i - 1
      /\ \A k \in 1 .. i - 1 : front[k] = s[k]
  BY SubSeqProperties, LenProperties
<1>2. /\ back \in Seq(S)
      /\ Len(back) = Len(s) - i
      /\ \A k \in 1 .. Len(s) - i : back[k] = s[i + k]
  BY SubSeqProperties, LenProperties
<1> HIDE DEF front, back
<1>3. /\ front \o back \in Seq(S)
      /\ Len(front \o back) = Len(s) - 1
      /\ \A k \in 1 .. Len(s) - 1 : (front \o back)[k] =
            IF k < i THEN s[k] ELSE s[k + 1]
  <2>1. /\ front \o back \in Seq(S)
        /\ Len(front \o back) = Len(s) - 1
        /\ \A k \in 1 .. Len(s) - 1 : (front \o back)[k] =
              IF k <= i - 1 THEN front[k] ELSE back[k - (i - 1)]
    BY <1>1, <1>2, ConcatProperties
  <2>2. \A k \in i .. Len(s) - 1 : back[k - (i - 1)] = s[k + 1]
    BY <1>2
  <2> QED BY <1>1, <2>1, <2>2
<1> QED BY <1>3 DEF RemoveAt, front, back

(* The members of a sequence are its elements at its positions.            *)
LEMMA MembersOfSeq ==
  ASSUME NEW S, NEW s \in Seq(S)
  PROVE  /\ ToSet(s) = {s[i] : i \in 1 .. Len(s)}
         /\ ToSet(s) \subseteq S
BY LenProperties DEF ToSet

(* Inserting a new member at any position keeps the others, once each.     *)
LEMMA InsertAtMembers ==
  ASSUME NEW S, NEW s \in Seq(S), NEW i \in 1 .. Len(s) + 1, NEW e \in S
  PROVE  /\ ToSet(InsertAt(s, i, e)) = ToSet(s) \cup {e}
         /\ IsInjective(s) /\ e \notin ToSet(s) =>
               IsInjective(InsertAt(s, i, e))
<1> DEFINE t == InsertAt(s, i, e)
<1>0. t \in Seq(S) /\ InsertedAt(s, i, e, t)
  BY InsertAtPlaces
<1>1. /\ t \in Seq(S)
      /\ Len(t) = Len(s) + 1
      /\ \A k \in 1 .. Len(s) + 1 :
            t[k] = IF k < i THEN s[k] ELSE IF k = i THEN e ELSE s[k - 1]
  BY <1>0 DEF InsertedAt
<1> HIDE DEF t
<1>2. DOMAIN t = 1 .. Len(s) + 1 /\ DOMAIN s = 1 .. Len(s) /\ Len(s) \in Nat
  BY <1>1, LenProperties
<1>3. ToSet(t) = ToSet(s) \cup {e}
  <2>1. ASSUME NEW x \in ToSet(t) PROVE x \in ToSet(s) \cup {e}
    <3>1. PICK k \in 1 .. Len(s) + 1 : x = t[k]
      BY <1>2 DEF ToSet
    <3>2. CASE k < i
      <4>1. k \in 1 .. Len(s) /\ x = s[k]
        BY <1>1, <1>2, <3>1, <3>2
      <4> QED BY <1>2, <4>1 DEF ToSet
    <3>3. CASE k = i
      BY <1>1, <3>1, <3>3
    <3>4. CASE k > i
      <4>1. k - 1 \in 1 .. Len(s) /\ x = s[k - 1]
        BY <1>1, <1>2, <3>1, <3>4
      <4> QED BY <1>2, <4>1 DEF ToSet
    <3> QED BY <1>2, <3>1, <3>2, <3>3, <3>4
  <2>2. e \in ToSet(t)
    BY <1>1, <1>2 DEF ToSet
  <2>3. ASSUME NEW x \in ToSet(s) PROVE x \in ToSet(t)
    <3>1. PICK k \in 1 .. Len(s) : x = s[k]
      BY <1>2 DEF ToSet
    <3>2. x = t[IF k < i THEN k ELSE k + 1]
      BY <1>1, <1>2, <3>1
    <3> QED BY <1>2, <3>2 DEF ToSet
  <2> QED BY <2>1, <2>2, <2>3
<1>4. ASSUME IsInjective(s), e \notin ToSet(s)
      PROVE  IsInjective(t)
  <2>1. ASSUME NEW a \in 1 .. Len(s) + 1, NEW b \in 1 .. Len(s) + 1,
               t[a] = t[b]
        PROVE  a = b
    <3>1. \A k \in 1 .. Len(s) : s[k] # e
      BY <1>2, <1>4 DEF ToSet
    <3>2. \A j, k \in 1 .. Len(s) : s[j] = s[k] => j = k
      BY <1>2, <1>4 DEF IsInjective
    <3> DEFINE from(k) == IF k < i THEN k ELSE k - 1
    <3>3. \A k \in 1 .. Len(s) + 1 : k # i =>
             from(k) \in 1 .. Len(s) /\ t[k] = s[from(k)]
      BY <1>1, <1>2
    <3>4. \A j, k \in 1 .. Len(s) + 1 :
             j # i /\ k # i /\ from(j) = from(k) => j = k
      BY <1>2
    <3>5. t[i] = e
      BY <1>1
    <3> HIDE DEF from
    <3>6. \A k \in 1 .. Len(s) + 1 : k # i => t[k] # e
      BY <3>1, <3>3
    <3>7. CASE a = i \/ b = i
      BY <2>1, <3>5, <3>6, <3>7
    <3>8. CASE a # i /\ b # i
      BY <2>1, <3>2, <3>3, <3>4, <3>8
    <3> QED BY <3>7, <3>8
  <2> QED BY <1>2, <2>1 DEF IsInjective
<1> QED BY <1>3, <1>4 DEF t

(* Removing a position of a sequence without repetitions removes just the  *)
(* member that is there.                                                   *)
LEMMA RemoveAtMembers ==
  ASSUME NEW S, NEW s \in Seq(S), NEW i \in 1 .. Len(s), IsInjective(s)
  PROVE  /\ ToSet(RemoveAt(s, i)) = ToSet(s) \ {s[i]}
         /\ IsInjective(RemoveAt(s, i))
<1> DEFINE t == RemoveAt(s, i)
<1>1. /\ t \in Seq(S)
      /\ Len(t) = Len(s) - 1
      /\ \A k \in 1 .. Len(s) - 1 : t[k] = IF k < i THEN s[k] ELSE s[k + 1]
  BY RemoveAtElements
<1> HIDE DEF t
<1>2. DOMAIN t = 1 .. Len(s) - 1 /\ DOMAIN s = 1 .. Len(s) /\ Len(s) \in Nat
  BY <1>1, LenProperties
<1>3. \A j, k \in 1 .. Len(s) : s[j] = s[k] => j = k
  BY <1>2 DEF IsInjective
<1>4. ToSet(t) = ToSet(s) \ {s[i]}
  <2>1. ASSUME NEW x \in ToSet(t) PROVE x \in ToSet(s) \ {s[i]}
    <3>1. PICK k \in 1 .. Len(s) - 1 : x = t[k]
      BY <1>2 DEF ToSet
    <3>2. PICK j \in 1 .. Len(s) : j # i /\ x = s[j]
      BY <1>1, <1>2, <3>1
    <3> QED BY <1>2, <1>3, <3>2 DEF ToSet
  <2>2. ASSUME NEW x \in ToSet(s) \ {s[i]} PROVE x \in ToSet(t)
    <3>1. PICK k \in 1 .. Len(s) : x = s[k] /\ k # i
      BY <1>2 DEF ToSet
    <3>2. x = t[IF k < i THEN k ELSE k - 1]
      BY <1>1, <1>2, <3>1
    <3>3. (IF k < i THEN k ELSE k - 1) \in 1 .. Len(s) - 1
      BY <1>2, <3>1
    <3> QED BY <1>2, <3>2, <3>3 DEF ToSet
  <2> QED BY <2>1, <2>2
<1>5. IsInjective(t)
  <2>1. ASSUME NEW a \in 1 .. Len(s) - 1, NEW b \in 1 .. Len(s) - 1,
               t[a] = t[b]
        PROVE  a = b
    BY <1>1, <1>2, <1>3, <2>1
  <2> QED BY <1>2, <2>1 DEF IsInjective
<1> QED BY <1>4, <1>5 DEF t

(* What the rollbacks of insert_root and insert_child rely on: erasing the *)
(* position just inserted restores the sequence.                           *)
LEMMA RemoveInserted ==
  ASSUME NEW S, NEW s \in Seq(S), NEW i \in 1 .. Len(s) + 1, NEW e \in S
  PROVE  RemoveAt(InsertAt(s, i, e), i) = s
<1> DEFINE t == InsertAt(s, i, e)
<1>0. t \in Seq(S) /\ InsertedAt(s, i, e, t)
  BY InsertAtPlaces
<1>1. /\ t \in Seq(S)
      /\ Len(t) = Len(s) + 1
      /\ \A k \in 1 .. Len(s) + 1 :
            t[k] = IF k < i THEN s[k] ELSE IF k = i THEN e ELSE s[k - 1]
  BY <1>0 DEF InsertedAt
<1> HIDE DEF t
<1>2. /\ RemoveAt(t, i) \in Seq(S)
      /\ Len(RemoveAt(t, i)) = Len(t) - 1
      /\ \A k \in 1 .. Len(t) - 1 :
            RemoveAt(t, i)[k] = IF k < i THEN t[k] ELSE t[k + 1]
  BY <1>1, RemoveAtElements
<1>3. Len(s) \in Nat
  BY LenProperties
<1>4. ASSUME NEW k \in 1 .. Len(s)
      PROVE  RemoveAt(t, i)[k] = s[k]
  <2>1. RemoveAt(t, i)[k] = IF k < i THEN t[k] ELSE t[k + 1]
    BY <1>1, <1>2, <1>3
  <2>2. CASE k < i
    BY <1>1, <1>3, <2>1, <2>2
  <2>3. CASE ~ (k < i)
    <3>1. k + 1 \in 1 .. Len(s) + 1 /\ ~ (k + 1 < i) /\ k + 1 # i
          /\ (k + 1) - 1 = k
      BY <1>3, <2>3
    <3> QED BY <1>1, <2>1, <2>3, <3>1
  <2> QED BY <2>2, <2>3
<1> QED BY <1>1, <1>2, <1>3, <1>4, SeqEqual DEF t

-----------------------------------------------------------------------------
(* Order among the members *)

(* a is before b in s and after it in t.                                   *)
Traded(s, t, a, b) ==
    /\ \E i, j \in DOMAIN s : i < j /\ s[i] = a /\ s[j] = b
    /\ \E k, l \in DOMAIN t : k < l /\ t[k] = b /\ t[l] = a

(* Without repetitions no two members are each before the other.           *)
LEMMA NoneTraded ==
  ASSUME NEW S, NEW s \in Seq(S), IsInjective(s), NEW a, NEW b
  PROVE  ~ Traded(s, s, a, b)
<1>1. Len(s) \in Nat /\ DOMAIN s = 1 .. Len(s)
  BY LenProperties
<1>2. SUFFICES ASSUME NEW i \in 1 .. Len(s), NEW j \in 1 .. Len(s), i < j,
                      NEW k \in 1 .. Len(s), NEW l \in 1 .. Len(s), k < l,
                      s[i] = a, s[j] = b, s[k] = b, s[l] = a
               PROVE  FALSE
  BY <1>1 DEF Traded
<1>3. i = l /\ j = k
  BY <1>1, <1>2 DEF IsInjective
<1> QED BY <1>1, <1>2, <1>3

(* Removing a position keeps the order of the rest.                        *)
LEMMA RemovedKeepsOrder ==
  ASSUME NEW S, NEW s \in Seq(S), IsInjective(s), NEW p \in 1 .. Len(s),
         NEW a, NEW b
  PROVE  ~ Traded(s, RemoveAt(s, p), a, b)
<1> DEFINE t == RemoveAt(s, p)
           from(k) == IF k < p THEN k ELSE k + 1
<1>1. Len(s) \in Nat /\ DOMAIN s = 1 .. Len(s)
  BY LenProperties
<1>2. /\ DOMAIN t = 1 .. Len(s) - 1
      /\ \A k \in 1 .. Len(s) - 1 : t[k] = s[from(k)]
  <2>1. /\ t \in Seq(S) /\ Len(t) = Len(s) - 1
        /\ \A k \in 1 .. Len(s) - 1 : t[k] = IF k < p THEN s[k] ELSE s[k + 1]
    BY RemoveAtElements
  <2> HIDE DEF t
  <2> QED BY <2>1, LenProperties
<1> HIDE DEF t
<1>3. SUFFICES ASSUME Traded(s, t, a, b) PROVE FALSE
  BY DEF t
<1>4. PICK k \in 1 .. Len(s) - 1, l \in 1 .. Len(s) - 1 :
         k < l /\ t[k] = b /\ t[l] = a
  BY <1>2, <1>3 DEF Traded
<1>5. /\ from(k) \in 1 .. Len(s) /\ from(l) \in 1 .. Len(s)
      /\ from(k) < from(l) /\ s[from(k)] = b /\ s[from(l)] = a
  BY <1>1, <1>2, <1>4
<1>6. Traded(s, s, a, b)
  BY <1>1, <1>3, <1>5 DEF Traded
<1> QED BY <1>6, NoneTraded

(* Inserting e exchanges no two members other than e.                      *)
LEMMA InsertedKeepsOrder ==
  ASSUME NEW S, NEW s, NEW u \in Seq(S), NEW p \in 1 .. Len(u) + 1,
         NEW e \in S, NEW a, NEW b, Traded(s, InsertAt(u, p, e), a, b)
  PROVE  e \in {a, b} \/ Traded(s, u, a, b)
<1> DEFINE t == InsertAt(u, p, e)
           from(k) == IF k < p THEN k ELSE k - 1
<1>1. Len(u) \in Nat /\ DOMAIN u = 1 .. Len(u)
  BY LenProperties
<1>2. /\ DOMAIN t = 1 .. Len(u) + 1
      /\ \A k \in 1 .. Len(u) + 1 : t[k] = IF k = p THEN e ELSE u[from(k)]
  <2>0. t \in Seq(S) /\ InsertedAt(u, p, e, t)
    BY InsertAtPlaces
  <2> HIDE DEF t
  <2>1. /\ t \in Seq(S)
        /\ Len(t) = Len(u) + 1
        /\ \A k \in 1 .. Len(u) + 1 :
              t[k] = IF k < p THEN u[k] ELSE IF k = p THEN e ELSE u[k - 1]
    BY <2>0 DEF InsertedAt
  <2>2. DOMAIN t = 1 .. Len(u) + 1
    BY <2>1, LenProperties
  <2> QED BY <2>1, <2>2
<1> HIDE DEF t
<1>3. SUFFICES ASSUME e # a, e # b PROVE Traded(s, u, a, b)
  OBVIOUS
<1>4. Traded(s, t, a, b)
  BY DEF t
<1>5. PICK k \in 1 .. Len(u) + 1, l \in 1 .. Len(u) + 1 :
         k < l /\ t[k] = b /\ t[l] = a
  BY <1>2, <1>4 DEF Traded
<1>6. k # p /\ l # p /\ u[from(k)] = b /\ u[from(l)] = a
  BY <1>2, <1>3, <1>5
<1>7. /\ from(k) \in 1 .. Len(u) /\ from(l) \in 1 .. Len(u)
      /\ from(k) < from(l)
  BY <1>1, <1>5, <1>6
<1> QED BY <1>1, <1>4, <1>6, <1>7 DEF Traded

-----------------------------------------------------------------------------
(* Rounds *)

(* Induction over a range of rounds.                                       *)
LEMMA RoundInduction ==
  ASSUME NEW n \in Nat, NEW T, 0 \in T,
         \A i \in 1 .. n : i - 1 \in T => i \in T
  PROVE  \A i \in 0 .. n : i \in T
<1> DEFINE U == {i \in Nat : i <= n => i \in T}
<1>1. 0 \in U
  OBVIOUS
<1>2. ASSUME NEW i \in U PROVE i + 1 \in U
  <2>1. CASE i + 1 \in 1 .. n
    <3>1. i \in T /\ (i + 1) - 1 = i
      BY <2>1
    <3> QED BY <2>1, <3>1
  <2>2. CASE i + 1 \notin 1 .. n
    BY <2>2
  <2> QED BY <2>1, <2>2
<1>3. U \in SUBSET Nat
  OBVIOUS
<1> HIDE DEF U
<1>4. U = Nat
  BY <1>1, <1>2, <1>3, NatSetInduction
<1> QED BY <1>4 DEF U

(* A step given as a function can be iterated from any first value.        *)
Iterates(n, first, step, f) ==
    /\ f[0] = first
    /\ \A i \in 1 .. n : f[i] = step[<<i, f[i - 1]>>]

(* A loop of n rounds has a result after each of them.                     *)
LEMMA IterationExists ==
  ASSUME NEW n \in Nat, NEW V, NEW first \in V,
         NEW step \in [(1 .. n) \X V -> V]
  PROVE  \E f \in [0 .. n -> V] : Iterates(n, first, step, f)
<1> DEFINE T == {k \in 0 .. n :
                   \E f \in [0 .. k -> V] : Iterates(k, first, step, f)}
<1>1. 0 \in T
  <2>1. [i \in 0 .. 0 |-> first] \in [0 .. 0 -> V]
    OBVIOUS
  <2>2. Iterates(0, first, step, [i \in 0 .. 0 |-> first])
    BY DEF Iterates
  <2> QED BY <2>1, <2>2
<1>2. ASSUME NEW k \in 1 .. n, k - 1 \in T PROVE k \in T
  <2>1. PICK f \in [0 .. k - 1 -> V] : Iterates(k - 1, first, step, f)
    BY <1>2
  <2> DEFINE g == [i \in 0 .. k |->
                     IF i = k THEN step[<<k, f[k - 1]>>] ELSE f[i]]
  <2>2. f[k - 1] \in V /\ step[<<k, f[k - 1]>>] \in V
    OBVIOUS
  <2>3. g \in [0 .. k -> V]
    BY <2>2
  <2>4. \A i \in 0 .. k - 1 : g[i] = f[i]
    OBVIOUS
  <2>5. g[k] = step[<<k, f[k - 1]>>]
    OBVIOUS
  <2> HIDE DEF g
  <2>6. ASSUME NEW i \in 1 .. k PROVE g[i] = step[<<i, g[i - 1]>>]
    <3>1. CASE i = k
      BY <2>4, <2>5, <3>1
    <3>2. CASE i # k
      <4>1. i \in 1 .. k - 1 /\ i \in 0 .. k - 1 /\ i - 1 \in 0 .. k - 1
        BY <3>2
      <4> QED BY <2>1, <2>4, <4>1 DEF Iterates
    <3> QED BY <3>1, <3>2
  <2>7. Iterates(k, first, step, g)
    <3>1. g[0] = first
      BY <2>1, <2>4 DEF Iterates
    <3> QED BY <2>6, <3>1 DEF Iterates
  <2> QED BY <2>3, <2>7
<1> HIDE DEF T
<1>3. n \in T
  BY <1>1, <1>2, RoundInduction
<1> QED BY <1>3 DEF T

(* Putting two sequences together, and appending an element.               *)
LEMMA ConcatMembers ==
  ASSUME NEW S, NEW s \in Seq(S), NEW t \in Seq(S)
  PROVE  /\ ToSet(s \o t) = ToSet(s) \cup ToSet(t)
         /\ IsInjective(s) /\ IsInjective(t) /\ ToSet(s) \cap ToSet(t) = {}
               => IsInjective(s \o t)
<1>1. /\ Len(s) \in Nat /\ DOMAIN s = 1 .. Len(s)
      /\ Len(t) \in Nat /\ DOMAIN t = 1 .. Len(t)
  BY LenProperties
<1> DEFINE u == s \o t
<1>2. /\ DOMAIN u = 1 .. Len(s) + Len(t)
      /\ \A i \in 1 .. Len(s) + Len(t) :
            u[i] = IF i <= Len(s) THEN s[i] ELSE t[i - Len(s)]
  BY ConcatProperties, LenProperties
<1> HIDE DEF u
<1>3. ToSet(u) = ToSet(s) \cup ToSet(t)
  <2>1. ASSUME NEW x \in ToSet(u) PROVE x \in ToSet(s) \cup ToSet(t)
    <3>1. PICK i \in 1 .. Len(s) + Len(t) : x = u[i]
      BY <1>2 DEF ToSet
    <3>2. CASE i <= Len(s)
      BY <1>1, <1>2, <3>1, <3>2 DEF ToSet
    <3>3. CASE ~ (i <= Len(s))
      <4>1. i - Len(s) \in 1 .. Len(t)
        BY <1>1, <3>3
      <4> QED BY <1>1, <1>2, <3>1, <3>3, <4>1 DEF ToSet
    <3> QED BY <3>2, <3>3
  <2>2. ASSUME NEW x \in ToSet(s) PROVE x \in ToSet(u)
    BY <1>1, <1>2 DEF ToSet
  <2>3. ASSUME NEW x \in ToSet(t) PROVE x \in ToSet(u)
    <3>1. PICK i \in 1 .. Len(t) : x = t[i]
      BY <1>1 DEF ToSet
    <3>2. /\ Len(s) + i \in 1 .. Len(s) + Len(t)
          /\ ~ (Len(s) + i <= Len(s))
          /\ (Len(s) + i) - Len(s) = i
      BY <1>1
    <3>3. u[Len(s) + i] = x
      BY <1>2, <3>1, <3>2
    <3> QED BY <1>2, <3>2, <3>3 DEF ToSet
  <2> QED BY <2>1, <2>2, <2>3
<1>4. ASSUME IsInjective(s), IsInjective(t), ToSet(s) \cap ToSet(t) = {}
      PROVE  IsInjective(u)
  <2>1. ASSUME NEW a \in 1 .. Len(s) + Len(t), NEW b \in 1 .. Len(s) + Len(t),
               u[a] = u[b]
        PROVE  a = b
    <3>1. \A i \in 1 .. Len(s), j \in 1 .. Len(t) : s[i] # t[j]
      BY <1>1, <1>4 DEF ToSet
    <3>2. \A i \in 1 .. Len(s) + Len(t) :
             i <= Len(s) \/ i - Len(s) \in 1 .. Len(t)
      BY <1>1
    <3>3. CASE a <= Len(s) /\ b <= Len(s)
      BY <1>1, <1>2, <1>4, <2>1, <3>3 DEF IsInjective
    <3>4. CASE a <= Len(s) /\ ~ (b <= Len(s))
      BY <1>1, <1>2, <2>1, <3>1, <3>2, <3>4
    <3>5. CASE ~ (a <= Len(s)) /\ b <= Len(s)
      BY <1>1, <1>2, <2>1, <3>1, <3>2, <3>5
    <3>6. CASE ~ (a <= Len(s)) /\ ~ (b <= Len(s))
      <4>1. t[a - Len(s)] = t[b - Len(s)]
        BY <1>2, <2>1, <3>6
      <4>2. a - Len(s) = b - Len(s)
        BY <1>1, <1>4, <3>2, <3>6, <4>1 DEF IsInjective
      <4> QED BY <1>1, <4>2
    <3> QED BY <3>3, <3>4, <3>5, <3>6
  <2> QED BY <1>2, <2>1 DEF IsInjective
<1> QED BY <1>3, <1>4 DEF u

(* push_back of a member that is not there yet.                            *)
LEMMA AppendMembers ==
  ASSUME NEW S, NEW s \in Seq(S), NEW e \in S
  PROVE  /\ ToSet(Append(s, e)) = ToSet(s) \cup {e}
         /\ IsInjective(s) /\ e \notin ToSet(s) => IsInjective(Append(s, e))
<1>1. Append(s, e) = s \o <<e>>
  BY AppendIsConcat
<1>2. /\ <<e>> \in Seq(S)
      /\ ToSet(<<e>>) = {e}
      /\ IsInjective(<<e>>)
  BY DEF ToSet, IsInjective
<1>3. /\ ToSet(s \o <<e>>) = ToSet(s) \cup ToSet(<<e>>)
      /\ IsInjective(s) /\ IsInjective(<<e>>)
            /\ ToSet(s) \cap ToSet(<<e>>) = {} => IsInjective(s \o <<e>>)
  BY <1>2, ConcatMembers
<1> QED BY <1>1, <1>2, <1>3

(* back and pop_back of a vector that is not empty.                        *)
LEMMA FrontMembers ==
  ASSUME NEW S, NEW s \in Seq(S), s # <<>>, IsInjective(s)
  PROVE  /\ Last(s) \in ToSet(s)
         /\ Front(s) \in Seq(S)
         /\ ToSet(Front(s)) = ToSet(s) \ {Last(s)}
         /\ IsInjective(Front(s))
<1>1. Len(s) \in Nat \ {0} /\ DOMAIN s = 1 .. Len(s)
  BY EmptySeq, LenProperties
<1> DEFINE t == Front(s)
<1>2. /\ t \in Seq(S)
      /\ Len(t) = Len(s) - 1
      /\ \A i \in 1 .. Len(s) - 1 : t[i] = s[i]
  <2>1. \A i \in 1 .. Len(s) - 1 : s[i] \in S
    BY ElementOfSeq, <1>1
  <2> QED BY <1>1, <2>1, SubSeqProperties DEF Front
<1> HIDE DEF t
<1>3. DOMAIN t = 1 .. Len(s) - 1 /\ Last(s) = s[Len(s)]
  BY <1>2, LenProperties DEF Last
<1>4. \A i, j \in 1 .. Len(s) : s[i] = s[j] => i = j
  BY <1>1 DEF IsInjective
<1>5. ToSet(t) = ToSet(s) \ {Last(s)}
  <2>1. ASSUME NEW x \in ToSet(t) PROVE x \in ToSet(s) \ {Last(s)}
    BY <1>1, <1>2, <1>3, <1>4 DEF ToSet
  <2>2. ASSUME NEW x \in ToSet(s) \ {Last(s)} PROVE x \in ToSet(t)
    <3>1. PICK i \in 1 .. Len(s) : x = s[i] /\ i # Len(s)
      BY <1>1, <1>3 DEF ToSet
    <3>2. i \in 1 .. Len(s) - 1
      <4>1. Len(s) \in Nat /\ i \in 1 .. Len(s) /\ i # Len(s)
        BY <1>1, <3>1
      <4> QED BY <4>1
    <3> QED BY <1>2, <1>3, <3>1, <3>2 DEF ToSet
  <2> QED BY <2>1, <2>2
<1>6. IsInjective(t)
  BY <1>1, <1>2, <1>3, <1>4 DEF IsInjective
<1>7. Last(s) \in ToSet(s)
  BY <1>1, <1>3 DEF ToSet
<1> QED BY <1>2, <1>5, <1>6, <1>7 DEF t

(* The positions of a sequence of length n are n in number.                *)
LEMMA PositionsCounted ==
  ASSUME NEW n \in Nat
  PROVE  IsFiniteSet(1 .. n) /\ Cardinality(1 .. n) = n
<1>1. 1 \in Int /\ n \in Int
  OBVIOUS
<1>2. /\ IsFiniteSet(1 .. n)
      /\ Cardinality(1 .. n) = IF 1 > n THEN 0 ELSE n - 1 + 1
  BY <1>1, FS_Interval
<1> QED BY <1>2

(* A sequence without repetitions is as long as its set of members, and    *)
(* holds a finite set just when it has its size.                           *)
LEMMA InjectiveLength ==
  ASSUME NEW S, IsFiniteSet(S), NEW s \in Seq(S), IsInjective(s)
  PROVE  /\ Len(s) <= Cardinality(S)
         /\ Len(s) = Cardinality(S) <=> ToSet(s) = S
<1>1. Len(s) \in Nat /\ DOMAIN s = 1 .. Len(s) /\ s \in [1 .. Len(s) -> S]
  BY LenProperties
<1>2. s \in Injection(1 .. Len(s), S)
  BY <1>1 DEF Injection
<1>3. Cardinality(1 .. Len(s)) = Len(s)
  BY <1>1, PositionsCounted
<1>4. /\ Cardinality(1 .. Len(s)) <= Cardinality(S)
      /\ Cardinality(1 .. Len(s)) = Cardinality(S)
            <=> s \in Surjection(1 .. Len(s), S)
  BY <1>2, FS_Injection
<1>5. s \in Surjection(1 .. Len(s), S) <=> ToSet(s) = S
  BY <1>1 DEF Surjection, ToSet
<1> QED BY <1>3, <1>4, <1>5

(* A sequence backwards.                                                   *)
LEMMA ReversedMembers ==
  ASSUME NEW S, NEW s \in Seq(S)
  PROVE  /\ Reverse(s) \in Seq(S)
         /\ Len(Reverse(s)) = Len(s)
         /\ DOMAIN Reverse(s) = 1 .. Len(s)
         /\ ToSet(Reverse(s)) = ToSet(s)
         /\ \A i \in 1 .. Len(s) : Reverse(s)[i] = s[Len(s) + 1 - i]
         /\ IsInjective(s) => IsInjective(Reverse(s))
<1> DEFINE n == Len(s)
           r == Reverse(s)
<1>1. n \in Nat /\ DOMAIN s = 1 .. n /\ \A i \in 1 .. n : s[i] \in S
  BY LenProperties, ElementOfSeq
<1>2. r = [i \in 1 .. n |-> s[(n - i) + 1]]
  BY DEF Reverse
<1> HIDE DEF n, r
<1>3. \A i \in 1 .. n : /\ n + 1 - i \in 1 .. n
                        /\ (n - i) + 1 = n + 1 - i
                        /\ n + 1 - (n + 1 - i) = i
  BY <1>1
<1>4. \A i \in 1 .. n : r[i] = s[n + 1 - i]
  BY <1>2, <1>3
<1>5. r \in [1 .. n -> S]
  BY <1>1, <1>2, <1>3
<1>6. r \in Seq(S) /\ Len(r) = n /\ DOMAIN r = 1 .. n
  BY <1>1, <1>5
<1>7. ToSet(r) = ToSet(s)
  <2>1. ASSUME NEW i \in 1 .. n PROVE s[i] \in ToSet(r)
    <3>1. n + 1 - i \in 1 .. n /\ n + 1 - (n + 1 - i) = i
      BY <1>3
    <3>2. r[n + 1 - i] = s[i]
      BY <1>4, <3>1
    <3> QED BY <1>6, <3>1, <3>2 DEF ToSet
  <2>2. ASSUME NEW i \in 1 .. n PROVE r[i] \in ToSet(s)
    BY <1>1, <1>3, <1>4 DEF ToSet
  <2> QED BY <1>1, <1>6, <2>1, <2>2 DEF ToSet
<1>8. ASSUME IsInjective(s) PROVE IsInjective(r)
  <2>1. ASSUME NEW i \in 1 .. n, NEW j \in 1 .. n, r[i] = r[j] PROVE i = j
    <3>1. n + 1 - i = n + 1 - j
      BY <1>1, <1>3, <1>4, <1>8, <2>1 DEF IsInjective
    <3> QED BY <1>1, <3>1
  <2> QED BY <1>6, <2>1 DEF IsInjective
<1> QED BY <1>4, <1>6, <1>7, <1>8 DEF n, r

(* The place of an element in a stable sort by key: those that come before *)
(* it are those with a smaller key, or with the same key further forward.  *)
Lower(key, i) ==
    {j \in DOMAIN key : key[j] < key[i] \/ (key[j] = key[i] /\ j < i)}
Place(key, i) == Cardinality(Lower(key, i)) + 1

(* The lower elements are finitely many.                                   *)
LEMMA LowerIsFinite ==
  ASSUME NEW n \in Nat, NEW key \in [1 .. n -> Int], NEW i \in 1 .. n
  PROVE  /\ Lower(key, i) \subseteq (1 .. n) \ {i}
         /\ IsFiniteSet(Lower(key, i))
         /\ Cardinality(Lower(key, i)) \in 0 .. n - 1
<1>1. Lower(key, i) \subseteq (1 .. n) \ {i}
  BY DEF Lower
<1>2. IsFiniteSet(1 .. n) /\ Cardinality(1 .. n) = n
  BY PositionsCounted
<1>3. IsFiniteSet((1 .. n) \ {i}) /\ Cardinality((1 .. n) \ {i}) = n - 1
  BY <1>2, FS_RemoveElement
<1>4. /\ IsFiniteSet(Lower(key, i))
      /\ Cardinality(Lower(key, i)) <= n - 1
  BY <1>1, <1>3, FS_Subset
<1> QED BY <1>1, <1>4, FS_CardinalityType

(* The places are a permutation of the positions that puts the keys in     *)
(* order and keeps the order of equal ones.                                *)
LEMMA PlacesPermute ==
  ASSUME NEW n \in Nat, NEW key \in [1 .. n -> Int]
  PROVE  /\ \A i \in 1 .. n : Place(key, i) \in 1 .. n
         /\ \A i, j \in 1 .. n : key[i] < key[j] \/ (key[i] = key[j] /\ i < j)
               => Place(key, i) < Place(key, j)
         /\ \A i, j \in 1 .. n : Place(key, i) = Place(key, j) => i = j
         /\ \A p \in 1 .. n : \E i \in 1 .. n : Place(key, i) = p
<1>1. ASSUME NEW i \in 1 .. n PROVE Place(key, i) \in 1 .. n
  <2>1. Cardinality(Lower(key, i)) \in 0 .. n - 1
    BY LowerIsFinite
  <2> QED BY <2>1 DEF Place
<1>2. ASSUME NEW i \in 1 .. n, NEW j \in 1 .. n,
             key[i] < key[j] \/ (key[i] = key[j] /\ i < j)
      PROVE  Place(key, i) < Place(key, j)
  <2>1. Lower(key, i) \subseteq Lower(key, j) \ {i} /\ i \in Lower(key, j)
    BY <1>2 DEF Lower
  <2>2. /\ IsFiniteSet(Lower(key, j) \ {i})
        /\ Cardinality(Lower(key, j) \ {i}) = Cardinality(Lower(key, j)) - 1
    BY <2>1, LowerIsFinite, FS_RemoveElement
  <2>3. Cardinality(Lower(key, i)) <= Cardinality(Lower(key, j) \ {i})
    BY <2>1, <2>2, FS_Subset
  <2> QED BY <2>2, <2>3, LowerIsFinite DEF Place
<1>3. ASSUME NEW i \in 1 .. n, NEW j \in 1 .. n,
             Place(key, i) = Place(key, j)
      PROVE  i = j
  <2>1. Place(key, i) \in Int
    BY <1>1
  <2>2. ~ (key[i] < key[j] \/ (key[i] = key[j] /\ i < j))
    BY <1>2, <1>3, <2>1
  <2>3. ~ (key[j] < key[i] \/ (key[j] = key[i] /\ j < i))
    BY <1>2, <1>3, <2>1
  <2> QED BY <2>2, <2>3
<1>4. ASSUME NEW p \in 1 .. n PROVE \E i \in 1 .. n : Place(key, i) = p
  <2> DEFINE place == [i \in 1 .. n |-> Place(key, i)]
  <2>1. place \in Injection(1 .. n, 1 .. n)
    BY <1>1, <1>3 DEF Injection, IsInjective
  <2>2. IsFiniteSet(1 .. n)
    BY PositionsCounted
  <2>3. place \in Surjection(1 .. n, 1 .. n)
    BY <2>1, <2>2, FS_Injection
  <2> QED BY <2>3 DEF Surjection
<1> QED BY <1>1, <1>2, <1>3, <1>4

(* A sorted sequence is where its sort puts it.                            *)
LEMMA PlaceOfSorted ==
  ASSUME NEW n \in Nat, NEW key \in [1 .. n -> Int],
         \A i, j \in 1 .. n : i < j => key[i] <= key[j],
         NEW i \in 1 .. n
  PROVE  Place(key, i) = i
<1>1. Lower(key, i) = 1 .. i - 1
  BY DEF Lower
<1>2. Cardinality(1 .. i - 1) = i - 1
  BY FS_Interval
<1> QED BY <1>1, <1>2 DEF Place

-----------------------------------------------------------------------------
(* Two neighbours exchanged *)

Swapped(k, i) == IF i = k THEN k + 1 ELSE IF i = k + 1 THEN k ELSE i

(* B holds the positions the members of A are exchanged to.                *)
SwapsTo(n, k, A, B) == \A i \in 1 .. n : Swapped(k, i) \in B <=> i \in A

(* Exchanging two neighbours is its own inverse.                           *)
LEMMA SwappedTwice ==
  ASSUME NEW n \in Nat, NEW k \in 1 .. n - 1, NEW i \in 1 .. n
  PROVE  /\ Swapped(k, i) \in 1 .. n
         /\ Swapped(k, Swapped(k, i)) = i
BY DEF Swapped

(* It keeps the size of a set of positions.                                *)
LEMMA SwappedCount ==
  ASSUME NEW n \in Nat, NEW k \in 1 .. n - 1,
         NEW A \in SUBSET (1 .. n), NEW B \in SUBSET (1 .. n),
         SwapsTo(n, k, A, B)
  PROVE  Cardinality(A) = Cardinality(B)
<1> DEFINE f == [i \in A |-> Swapped(k, i)]
<1>1. IsFiniteSet(A)
  <2>1. IsFiniteSet(1 .. n)
    BY PositionsCounted
  <2> QED BY <2>1, FS_Subset
<1>2. \A i \in 1 .. n :
         Swapped(k, i) \in 1 .. n /\ Swapped(k, Swapped(k, i)) = i
  BY SwappedTwice
<1>3. f \in [A -> B]
  BY DEF SwapsTo
<1>4. \A i, j \in A : f[i] = f[j] => i = j
  BY <1>2
<1>5. \A y \in B : \E i \in A : f[i] = y
  <2> TAKE y \in B
  <2>1. Swapped(k, y) \in A /\ f[Swapped(k, y)] = y
    BY <1>2 DEF SwapsTo
  <2> QED BY <2>1
<1>6. f \in Bijection(A, B)
  BY <1>3, <1>4, <1>5 DEF Bijection, Injection, Surjection, IsInjective
<1>7. ExistsBijection(A, B)
  BY <1>6 DEF ExistsBijection
<1> QED BY <1>1, <1>7, FS_Bijection

(* Neighbours with different keys exchanged are sorted to the same places. *)
LEMMA SwappedPlace ==
  ASSUME NEW n \in Nat, NEW key \in [1 .. n -> Int], NEW k \in 1 .. n - 1,
         key[k] # key[k + 1],
         NEW other \in [1 .. n -> Int],
         \A i \in 1 .. n : other[Swapped(k, i)] = key[i],
         NEW i \in 1 .. n
  PROVE  Place(other, Swapped(k, i)) = Place(key, i)
<1> DEFINE A == Lower(key, i)
           B == Lower(other, Swapped(k, i))
<1>1. \A j \in 1 .. n : Swapped(k, j) \in 1 .. n
  BY SwappedTwice
<1>2. ASSUME NEW j \in 1 .. n
      PROVE  Swapped(k, j) \in B <=> j \in A
  <2>1. /\ other[Swapped(k, j)] = key[j] /\ other[Swapped(k, i)] = key[i]
        /\ Swapped(k, j) \in DOMAIN other /\ j \in DOMAIN key
    BY <1>1
  <2>2. key[j] = key[i] => (Swapped(k, j) < Swapped(k, i) <=> j < i)
    BY DEF Swapped
  <2> QED BY <2>1, <2>2 DEF Lower
<1>3. A \in SUBSET (1 .. n) /\ B \in SUBSET (1 .. n)
  BY DEF Lower
<1> HIDE DEF A, B
<1>4. Cardinality(A) = Cardinality(B)
  <2>1. SwapsTo(n, k, A, B)
    BY <1>2 DEF SwapsTo
  <2> QED BY <1>3, <2>1, SwappedCount
<1> QED BY <1>4 DEF Place, A, B

(* A list built by push_back, and its next element.                        *)
LEMMA ListGrows ==
  ASSUME NEW n \in Nat, NEW S, NEW f \in [1 .. n -> S], NEW i \in 1 .. n
  PROVE  [k \in 1 .. i |-> f[k]] = Append([k \in 1 .. i - 1 |-> f[k]], f[i])
<1> DEFINE s == [k \in 1 .. i - 1 |-> f[k]]
           t == [k \in 1 .. i |-> f[k]]
<1>1. /\ s \in [1 .. i - 1 -> S] /\ t \in [1 .. i -> S]
      /\ \A k \in 1 .. i - 1 : s[k] = f[k]
      /\ \A k \in 1 .. i : t[k] = f[k]
      /\ i - 1 \in Nat /\ i \in Nat /\ f[i] \in S
  OBVIOUS
<1> HIDE DEF s, t
<1>2. s \in Seq(S) /\ t \in Seq(S)
  BY <1>1, SeqDef
<1>3. Len(s) = i - 1 /\ Len(t) = i
  BY <1>1, <1>2, LenProperties
<1> DEFINE a == Append(s, f[i])
<1>4. /\ a \in Seq(S) /\ Len(a) = i
      /\ \A k \in 1 .. i - 1 : a[k] = s[k]
      /\ a[i] = f[i]
  <2>1. /\ a \in Seq(S) /\ Len(a) = Len(s) + 1
        /\ \A k \in 1 .. Len(s) : a[k] = s[k]
        /\ a[Len(s) + 1] = f[i]
    BY <1>1, <1>2, AppendProperties
  <2> HIDE DEF a
  <2>2. Len(s) + 1 = i
    BY <1>1, <1>3
  <2> QED BY <1>3, <2>1, <2>2
<1> HIDE DEF a
<1>5. ASSUME NEW k \in 1 .. i PROVE t[k] = a[k]
  <2>1. k \in 1 .. i - 1 \/ k = i
    BY <1>1
  <2> QED BY <1>1, <1>4, <2>1
<1>6. t = a
  BY <1>2, <1>3, <1>4, <1>5, SeqEqual
<1> QED BY <1>6 DEF s, t, a

(* A set of numbers up to a bound has a largest one.                       *)
LEMMA MaxOfBounded ==
  ASSUME NEW n \in Nat, NEW I \in SUBSET (0 .. n), I # {}
  PROVE  Max(I) \in I /\ \A y \in I : y <= Max(I)
<1> DEFINE J == {n - x : x \in I}
<1>1. J \in SUBSET Nat /\ J # {}
  <2>1. J # {}
    OBVIOUS
  <2>2. \A x \in I : n - x \in Nat
    OBVIOUS
  <2> QED BY <2>1, <2>2
<1> HIDE DEF J
<1>2. Min(J) \in J /\ \A y \in J : Min(J) <= y
  BY <1>1, MinOfNaturals
<1>3. PICK x \in I : Min(J) = n - x
  BY <1>2 DEF J
<1>4. ASSUME NEW y \in I PROVE x >= y
  <2>1. n - y \in J
    BY DEF J
  <2>2. n - x <= n - y
    BY <1>2, <1>3, <2>1
  <2> QED BY <2>2
<1>5. \E m \in I : \A y \in I : m >= y
  BY <1>4
<1>6. Max(I) \in I /\ \A y \in I : Max(I) >= y
  BY <1>5 DEF Max
<1> QED BY <1>6

(* A fold over a set of places takes the last one off and goes on with the *)
(* rest.  step is what an element does to the result.                      *)
FoldsBy(iter, n, first, step) ==
    /\ iter[{}] = first
    /\ \A s \in SUBSET (1 .. n) :
          s # {} => iter[s] = step[<<Max(s), iter[s \ {Max(s)}]>>]

(* There is such a fold, for any step given as a function.                 *)
LEMMA FoldExists ==
  ASSUME NEW n \in Nat, NEW V, NEW first \in V,
         NEW step \in [(1 .. n) \X V -> V]
  PROVE  \E iter \in [SUBSET (1 .. n) -> V] : FoldsBy(iter, n, first, step)
<1> DEFINE U == SUBSET (1 .. n)
           G == [U -> V]
           start == [s \in U |-> first]
           Round(k, g) == [s \in U |-> IF k \in s THEN step[<<k, g[s \ {k}]>>]
                                       ELSE g[s]]
           round == [x \in (1 .. n) \X G |-> Round(x[1], x[2])]
<1>1. start \in G
  OBVIOUS
<1>2. ASSUME NEW k \in 1 .. n, NEW g \in G PROVE Round(k, g) \in G
  <2>1. \A s \in U : s \ {k} \in U
    OBVIOUS
  <2>2. \A s \in U : g[s] \in V /\ g[s \ {k}] \in V
    BY <2>1
  <2>3. \A s \in U : step[<<k, g[s \ {k}]>>] \in V
    BY <2>2
  <2> HIDE DEF U
  <2> QED BY <2>2, <2>3
<1> HIDE DEF start
<1>3. round \in [(1 .. n) \X G -> G]
  <2> HIDE DEF G, Round
  <2> QED BY <1>2
<1>4. \A k \in 1 .. n, g \in G : round[<<k, g>>] = Round(k, g)
  <2> HIDE DEF G, Round
  <2> QED OBVIOUS
<1> HIDE DEF round
<1>5. PICK f \in [0 .. n -> G] : Iterates(n, start, round, f)
  <2> HIDE DEF G
  <2> QED BY <1>1, <1>3, IterationExists
<1>6. f[0] = start /\ \A i \in 1 .. n : f[i] = Round(i, f[i - 1])
  <2> HIDE DEF Round, G
  <2>1. \A i \in 1 .. n : f[i - 1] \in G
    OBVIOUS
  <2> QED BY <1>4, <1>5, <2>1 DEF Iterates
<1>7. ASSUME NEW i \in 1 .. n, NEW s \in U
      PROVE  f[i][s] = IF i \in s THEN step[<<i, f[i - 1][s \ {i}]>>]
                       ELSE f[i - 1][s]
  <2>1. f[i] = Round(i, f[i - 1])
    BY <1>6
  <2> DEFINE g == f[i - 1]
  <2> HIDE DEF g, U
  <2>2. Round(i, g)[s] = IF i \in s THEN step[<<i, g[s \ {i}]>>] ELSE g[s]
    OBVIOUS
  <2> HIDE DEF Round
  <2> QED BY <2>1, <2>2 DEF g
<1> HIDE DEF Round, G
<1> DEFINE T == {j \in 0 .. n : \A i \in 0 .. j : \A s \in SUBSET (1 .. i) :
                                    f[j][s] = f[i][s]}
<1>8. \A j \in 0 .. n : j \in T
  <2>1. 0 \in T
    OBVIOUS
  <2>2. ASSUME NEW j \in 1 .. n, j - 1 \in T PROVE j \in T
    <3>1. ASSUME NEW i \in 0 .. j, NEW s \in SUBSET (1 .. i)
          PROVE  f[j][s] = f[i][s]
      <4>1. CASE i = j
        BY <4>1
      <4>2. CASE i # j
        <5>1. i \in 0 .. j - 1 /\ s \in U /\ j \notin s
          BY <4>2
        <5>2. f[j - 1][s] = f[i][s]
          BY <2>2, <5>1
        <5> QED BY <1>7, <5>1, <5>2
      <4> QED BY <4>1, <4>2
    <3> QED BY <3>1
  <2> HIDE DEF T
  <2> QED BY <2>1, <2>2, RoundInduction
<1>9. ASSUME NEW i \in 0 .. n, NEW s \in SUBSET (1 .. i)
      PROVE  f[n][s] = f[i][s]
  <2>1. n \in T
    BY <1>8
  <2> QED BY <2>1
<1> HIDE DEF T
<1>10. f[n] \in G
  <2>1. n \in 0 .. n
    OBVIOUS
  <2> QED BY <2>1
<1>11. f[n][{}] = first
  <2>1. f[n][{}] = f[0][{}]
    BY <1>9
  <2>2. start[{}] = first
    BY DEF start
  <2> QED BY <1>6, <2>1, <2>2
<1>12. ASSUME NEW s \in U, s # {}
       PROVE  f[n][s] = step[<<Max(s), f[n][s \ {Max(s)}]>>]
  <2> DEFINE m == Max(s)
  <2>1. m \in s /\ \A y \in s : y <= m
    <3>1. s \in SUBSET (0 .. n)
      OBVIOUS
    <3> QED BY <1>12, <3>1, MaxOfBounded
  <2> HIDE DEF m
  <2>2. m \in 1 .. n /\ m \in 0 .. n /\ m - 1 \in 0 .. n
    BY <2>1
  <2>3. s \in SUBSET (1 .. m)
    BY <2>1, <2>2
  <2>4. s \ {m} \in SUBSET (1 .. m - 1)
    BY <2>2, <2>3
  <2>5. f[n][s] = f[m][s]
    BY <1>9, <2>2, <2>3
  <2>6. f[n][s \ {m}] = f[m - 1][s \ {m}]
    BY <1>9, <2>2, <2>4
  <2>7. f[m][s] = step[<<m, f[m - 1][s \ {m}]>>]
    BY <1>7, <2>1, <2>2
  <2> QED BY <2>5, <2>6, <2>7 DEF m
<1> HIDE DEF U
<1>13. FoldsBy(f[n], n, first, step)
  BY <1>11, <1>12 DEF FoldsBy, U
<1> QED BY <1>10, <1>13 DEF G, U

(* Two orders of the same nodes without repetitions are equally long.      *)
LEMMA SameMembersSameLength ==
  ASSUME NEW S, IsFiniteSet(S), NEW s \in Seq(S), NEW u \in Seq(S),
         IsInjective(s), IsInjective(u), ToSet(s) = ToSet(u)
  PROVE  Len(s) = Len(u)
<1> DEFINE M == ToSet(s)
<1>1. M \subseteq S /\ IsFiniteSet(M)
  BY MembersOfSeq, FS_Subset
<1>2. s \in Seq(M) /\ u \in Seq(M)
  <2>1. /\ Len(s) \in Nat /\ s \in [1 .. Len(s) -> S]
        /\ Len(u) \in Nat /\ u \in [1 .. Len(u) -> S]
        /\ DOMAIN s = 1 .. Len(s) /\ DOMAIN u = 1 .. Len(u)
    BY LenProperties
  <2>2. \A i \in 1 .. Len(s) : s[i] \in M
    BY <2>1 DEF ToSet
  <2>3. \A i \in 1 .. Len(u) : u[i] \in M
    BY <2>1 DEF ToSet
  <2> HIDE DEF M
  <2>4. s \in [1 .. Len(s) -> M] /\ u \in [1 .. Len(u) -> M]
    BY <2>1, <2>2, <2>3
  <2> QED BY <2>1, <2>4, SeqDef
<1>3. ToSet(s) = M /\ ToSet(u) = M
  OBVIOUS
<1> HIDE DEF M
<1>4. Len(s) = Cardinality(M)
  BY <1>1, <1>2, <1>3, InjectiveLength
<1>5. Len(u) = Cardinality(M)
  BY <1>1, <1>2, <1>3, InjectiveLength
<1> QED BY <1>4, <1>5

-----------------------------------------------------------------------------
(* Sequences put together *)

(* The rounds of putting the first so many of some sequences together.     *)
JoinedBy(f, parts, n) ==
    /\ f[0] = <<>>
    /\ \A i \in 1 .. n : f[i] = f[i - 1] \o parts[i]

(* FlattenSeq goes through such rounds.                                    *)
LEMMA FlattenRounds ==
  ASSUME NEW S, NEW n \in Nat, NEW parts \in [1 .. n -> Seq(S)]
  PROVE  \E f \in [0 .. n -> Seq(S)] :
            JoinedBy(f, parts, n) /\ FlattenSeq(parts) = f[n]
<1> DEFINE step == [x \in (1 .. n) \X Seq(S) |-> x[2] \o parts[x[1]]]
           Body(w, i) == IF i = 1 THEN parts[i] ELSE w[i - 1] \o parts[i]
           run == CHOOSE w : w = [i \in 1 .. n |-> Body(w, i)]
<1>1. step \in [(1 .. n) \X Seq(S) -> Seq(S)]
  BY ConcatProperties
<1>2. <<>> \in Seq(S)
  OBVIOUS
<1>3. \A i \in 1 .. n, v \in Seq(S) : step[<<i, v>>] = v \o parts[i]
  OBVIOUS
<1> HIDE DEF step
<1>4. PICK f \in [0 .. n -> Seq(S)] : Iterates(n, <<>>, step, f)
  BY <1>1, <1>2, IterationExists
<1>5. JoinedBy(f, parts, n)
  <2>1. ASSUME NEW i \in 1 .. n PROVE f[i] = f[i - 1] \o parts[i]
    <3>1. i - 1 \in 0 .. n
      OBVIOUS
    <3> QED BY <1>3, <1>4, <3>1 DEF Iterates
  <2> QED BY <1>4, <2>1 DEF Iterates, JoinedBy
<1>6. Len(parts) = n
  <2>1. parts \in Seq(Seq(S)) /\ DOMAIN parts = 1 .. n
    BY SeqDef
  <2> QED BY <2>1, LenProperties
<1>7. CASE n = 0
  <2>1. parts = <<>>
    BY <1>6, <1>7
  <2>2. FlattenSeq(parts) = parts
    BY <1>6, <1>7 DEF FlattenSeq
  <2> QED BY <1>5, <1>7, <2>1, <2>2 DEF JoinedBy
<1>8. CASE n # 0
  <2>1. FlattenSeq(parts) = run[n]
    BY <1>6, <1>8 DEF FlattenSeq
  <2>2. \A i \in 1 .. n : f[i] = Body(f, i)
    <3>1. ASSUME NEW i \in 1 .. n PROVE f[i] = Body(f, i)
      <4>1. f[i] = f[i - 1] \o parts[i]
        BY <1>5 DEF JoinedBy
      <4>2. CASE i = 1
        <5>1. f[i - 1] = <<>>
          BY <1>5, <4>2 DEF JoinedBy
        <5>2. <<>> \o parts[i] = parts[i]
          BY ConcatEmptySeq
        <5> QED BY <4>1, <4>2, <5>1, <5>2
      <4>3. CASE i # 1
        BY <4>1, <4>3
      <4> QED BY <4>2, <4>3
    <3> QED BY <3>1
  <2>3. \E w : w = [i \in 1 .. n |-> Body(w, i)]
    <3> DEFINE w == [i \in 1 .. n |-> f[i]]
    <3>1. \A i \in 1 .. n : w[i] = f[i]
      OBVIOUS
    <3> HIDE DEF w
    <3>2. ASSUME NEW i \in 1 .. n PROVE f[i] = Body(w, i)
      <4>1. CASE i = 1
        BY <2>2, <4>1
      <4>2. CASE i # 1
        <5>1. i - 1 \in 1 .. n
          BY <4>2
        <5> QED BY <2>2, <3>1, <4>2, <5>1
      <4> QED BY <4>1, <4>2
    <3> HIDE DEF Body
    <3>3. w = [i \in 1 .. n |-> Body(w, i)]
      BY <3>2 DEF w
    <3> QED BY <3>3
  <2>4. run = [i \in 1 .. n |-> Body(run, i)]
    <3> HIDE DEF Body
    <3> QED BY <2>3
  <2> HIDE DEF run
  <2>5. \A i \in 1 .. n : run[i] = Body(run, i)
    <3> HIDE DEF Body
    <3> QED BY <2>4, Zenon
  <2> DEFINE T == {i \in 0 .. n : i = 0 \/ run[i] = f[i]}
  <2>6. 0 \in T
    OBVIOUS
  <2>7. ASSUME NEW i \in 1 .. n, i - 1 \in T PROVE i \in T
    <3>1. CASE i = 1
      BY <2>2, <2>5, <3>1
    <3>2. CASE i # 1
      <4>1. i - 1 # 0 /\ run[i - 1] = f[i - 1]
        BY <2>7, <3>2
      <4> QED BY <2>2, <2>5, <3>2, <4>1
    <3> QED BY <3>1, <3>2
  <2> HIDE DEF T, run
  <2>10. \A i \in 1 .. n : i - 1 \in T => i \in T
    BY <2>7
  <2>11. \A i \in 0 .. n : i \in T
    BY <2>6, <2>10, RoundInduction
  <2>8. n \in T
    BY <2>11
  <2>9. run[n] = f[n]
    BY <1>8, <2>8 DEF T
  <2> QED BY <1>5, <2>1, <2>9
<1> QED BY <1>7, <1>8

(* The i-th sequence is in flat behind the first start[i - 1] elements.     *)
PartsPlaced(flat, parts, start, n) ==
    \A i \in 1 .. n : \A a \in 1 .. Len(parts[i]) :
        /\ start[i - 1] + a \in 1 .. start[n]
        /\ flat[start[i - 1] + a] = parts[i][a]

(* Each of the sequences is where the lengths before it say.               *)
LEMMA Flattened ==
  ASSUME NEW S, NEW n \in Nat, NEW parts \in [1 .. n -> Seq(S)],
         NEW start \in [0 .. n -> Nat], start[0] = 0,
         \A i \in 1 .. n : start[i] = start[i - 1] + Len(parts[i])
  PROVE  /\ FlattenSeq(parts) \in Seq(S)
         /\ Len(FlattenSeq(parts)) = start[n]
         /\ PartsPlaced(FlattenSeq(parts), parts, start, n)
<1>1. PICK f \in [0 .. n -> Seq(S)] :
            JoinedBy(f, parts, n) /\ FlattenSeq(parts) = f[n]
  BY FlattenRounds
<1> DEFINE Placed(i) == \A j \in 1 .. i : \A a \in 1 .. Len(parts[j]) :
                           /\ start[j - 1] + a \in 1 .. start[i]
                           /\ f[i][start[j - 1] + a] = parts[j][a]
           T == {i \in 0 .. n : Len(f[i]) = start[i] /\ Placed(i)}
<1>2. 0 \in T
  <2>1. f[0] = <<>>
    BY <1>1 DEF JoinedBy
  <2> QED BY <2>1
<1>3. ASSUME NEW i \in 1 .. n, i - 1 \in T PROVE i \in T
  <2> DEFINE g == f[i - 1]
             p == parts[i]
             s == start[i - 1]
  <2>6. i - 1 \in 0 .. n /\ i \in 0 .. n
    OBVIOUS
  <2>7. g \in Seq(S) /\ p \in Seq(S) /\ s \in Nat
    BY <1>1, <2>6
  <2>8. Len(g) = s /\ Placed(i - 1)
    BY <1>3 DEF T
  <2>9. f[i] = g \o p
    BY <1>1 DEF JoinedBy
  <2>10. start[i] = s + Len(p)
    OBVIOUS
  <2>1. /\ i - 1 \in 0 .. n /\ i \in 0 .. n
        /\ g \in Seq(S) /\ p \in Seq(S) /\ s \in Nat
        /\ Len(g) = s /\ Placed(i - 1)
        /\ f[i] = g \o p /\ start[i] = s + Len(p)
    BY <2>6, <2>7, <2>8, <2>9, <2>10
  <2>2. Len(p) \in Nat
    BY <2>1, LenProperties
  <2>3. /\ Len(g \o p) = Len(g) + Len(p)
        /\ \A k \in 1 .. Len(g) + Len(p) :
              (g \o p)[k] = IF k <= Len(g) THEN g[k] ELSE p[k - Len(g)]
    BY <2>1, ConcatProperties
  <2>4. ASSUME NEW j \in 1 .. i, NEW a \in 1 .. Len(parts[j])
        PROVE  /\ start[j - 1] + a \in 1 .. start[i]
               /\ f[i][start[j - 1] + a] = parts[j][a]
    <3>1. CASE j = i
      <4>1. a \in 1 .. Len(p)
        BY <3>1
      <4> HIDE DEF g, p, s
      <4>2. /\ s + a \in 1 .. s + Len(p) /\ ~ (s + a <= s) /\ (s + a) - s = a
        BY <2>1, <2>2, <4>1
      <4>3. (g \o p)[s + a] = p[a]
        BY <2>1, <2>3, <4>2
      <4> QED BY <2>1, <3>1, <4>2, <4>3 DEF p, s
    <3>2. CASE j # i
      <4>1. j \in 1 .. i - 1
        BY <3>2
      <4>2. /\ start[j - 1] + a \in 1 .. s
            /\ g[start[j - 1] + a] = parts[j][a]
        BY <2>1, <4>1
      <4> HIDE DEF g, p, s, Placed
      <4> DEFINE k == start[j - 1] + a
      <4>3. k \in 1 .. s /\ g[k] = parts[j][a]
        BY <4>2
      <4> HIDE DEF k
      <4>4. k \in 1 .. s + Len(p) /\ k <= s
        BY <2>1, <2>2, <4>3
      <4>5. (g \o p)[k] = g[k]
        BY <2>1, <2>3, <4>4
      <4> QED BY <2>1, <4>3, <4>4, <4>5 DEF k
    <3> QED BY <3>1, <3>2
  <2>5. Len(f[i]) = start[i]
    BY <2>1, <2>3
  <2> HIDE DEF g, p, s
  <2> QED BY <2>1, <2>4, <2>5
<1> HIDE DEF T
<1>6. \A i \in 1 .. n : i - 1 \in T => i \in T
  BY <1>3
<1>7. \A i \in 0 .. n : i \in T
  BY <1>2, <1>6, RoundInduction
<1>4. n \in T
  BY <1>7
<1>5. f[n] \in Seq(S) /\ Len(f[n]) = start[n] /\ Placed(n)
  BY <1>4 DEF T
<1> HIDE DEF T
<1>8. PartsPlaced(f[n], parts, start, n)
  BY <1>5 DEF PartsPlaced
<1> QED BY <1>1, <1>5, <1>8

(* Sequences of one element each, put together.                            *)
LEMMA OneEach ==
  ASSUME NEW n \in Nat, NEW S, NEW g \in [1 .. n -> S]
  PROVE  LET flat == FlattenSeq([i \in 1 .. n |-> <<g[i]>>])
         IN  /\ flat \in Seq(S) /\ Len(flat) = n
             /\ \A i \in 1 .. n : flat[i] = g[i]
<1> DEFINE parts == [i \in 1 .. n |-> <<g[i]>>]
           start == [i \in 0 .. n |-> i]
           flat == FlattenSeq(parts)
<1>1. /\ parts \in [1 .. n -> Seq(S)]
      /\ \A i \in 1 .. n : /\ Len(parts[i]) = 1 /\ parts[i][1] = g[i]
                           /\ 1 \in 1 .. Len(parts[i])
  OBVIOUS
<1>2. /\ start \in [0 .. n -> Nat] /\ start[0] = 0 /\ start[n] = n
      /\ \A i \in 1 .. n : start[i] = i /\ start[i - 1] = i - 1
  OBVIOUS
<1> HIDE DEF parts, start
<1>3. ASSUME NEW i \in 1 .. n PROVE start[i] = start[i - 1] + Len(parts[i])
  <2>1. start[i] = i /\ start[i - 1] = i - 1 /\ Len(parts[i]) = 1
    BY <1>1, <1>2
  <2>2. i = (i - 1) + 1
    OBVIOUS
  <2> QED BY ONLY <2>1, <2>2
<1>4. flat \in Seq(S) /\ Len(flat) = n /\ PartsPlaced(flat, parts, start, n)
  <2>1. n \in Nat /\ parts \in [1 .. n -> Seq(S)]
    BY <1>1
  <2>2. start \in [0 .. n -> Nat] /\ start[0] = 0 /\ start[n] = n
    BY <1>2
  <2>3. \A i \in 1 .. n : start[i] = start[i - 1] + Len(parts[i])
    BY <1>3
  <2>4. /\ FlattenSeq(parts) \in Seq(S)
        /\ Len(FlattenSeq(parts)) = start[n]
        /\ PartsPlaced(FlattenSeq(parts), parts, start, n)
    BY ONLY <2>1, <2>2, <2>3, Flattened
  <2> QED BY <2>2, <2>4
<1> HIDE DEF flat
<1>5. ASSUME NEW i \in 1 .. n PROVE flat[i] = g[i]
  <2>1. start[i - 1] + 1 = i
    BY <1>2
  <2>2. flat[start[i - 1] + 1] = parts[i][1]
    BY <1>1, <1>4 DEF PartsPlaced
  <2> QED BY <1>1, <2>1, <2>2
<1> QED BY <1>4, <1>5 DEF flat, parts

(* It does not matter which two of three sequences are put together first. *)
Regroup(a, b, c) == (a \o b) \o c = a \o (b \o c)

LEMMA Regrouped ==
  ASSUME NEW S, NEW a \in Seq(S), NEW b \in Seq(S), NEW c \in Seq(S)
  PROVE  Regroup(a, b, c)
BY ConcatAssociative DEF Regroup

(* Putting together two lists of sequences, one behind the other.          *)
LEMMA FlattenConcat ==
  ASSUME NEW S, NEW p \in Seq(Seq(S)), NEW q \in Seq(Seq(S))
  PROVE  /\ FlattenSeq(p) \in Seq(S) /\ FlattenSeq(q) \in Seq(S)
         /\ FlattenSeq(p \o q) = FlattenSeq(p) \o FlattenSeq(q)
<1> DEFINE n == Len(p)
           m == Len(q)
           r == p \o q
<1>1. /\ n \in Nat /\ p \in [1 .. n -> Seq(S)]
      /\ m \in Nat /\ q \in [1 .. m -> Seq(S)]
  BY LenProperties
<1>2. /\ r \in Seq(Seq(S)) /\ Len(r) = n + m
      /\ \A i \in 1 .. n + m : r[i] = IF i <= n THEN p[i] ELSE q[i - n]
  BY ConcatProperties
<1> HIDE DEF n, m, r
<1>3. n + m \in Nat /\ r \in [1 .. n + m -> Seq(S)]
  BY <1>1, <1>2, LenProperties
<1>4. PICK fp \in [0 .. n -> Seq(S)] :
         JoinedBy(fp, p, n) /\ FlattenSeq(p) = fp[n]
  BY <1>1, FlattenRounds
<1>5. PICK fq \in [0 .. m -> Seq(S)] :
         JoinedBy(fq, q, m) /\ FlattenSeq(q) = fq[m]
  BY <1>1, FlattenRounds
<1>6. PICK fr \in [0 .. n + m -> Seq(S)] :
         JoinedBy(fr, r, n + m) /\ FlattenSeq(r) = fr[n + m]
  BY <1>3, FlattenRounds
<1>7. fr[n] = fp[n]
  <2> DEFINE T == {i \in 0 .. n : fr[i] = fp[i]}
  <2>1. 0 \in T
    BY <1>1, <1>4, <1>6 DEF JoinedBy
  <2>2. ASSUME NEW i \in 1 .. n, i - 1 \in T PROVE i \in T
    <3>1. i \in 1 .. n + m /\ i <= n /\ i \in 0 .. n
      BY <1>1
    <3>2. fr[i] = fr[i - 1] \o r[i] /\ fp[i] = fp[i - 1] \o p[i]
      BY <1>4, <1>6, <3>1 DEF JoinedBy
    <3>3. r[i] = p[i]
      BY <1>2, <3>1
    <3> QED BY <2>2, <3>1, <3>2, <3>3
  <2> HIDE DEF T
  <2>3. \A i \in 1 .. n : i - 1 \in T => i \in T
    BY <2>2
  <2>4. \A i \in 0 .. n : i \in T
    BY <1>1, <2>1, <2>3, RoundInduction
  <2>5. n \in T
    BY <1>1, <2>4
  <2> QED BY <2>5 DEF T
<1>8. fp[n] \in Seq(S) /\ fq[m] \in Seq(S)
  BY <1>1, <1>4, <1>5
<1>9. fr[n + m] = fp[n] \o fq[m]
  <2> DEFINE T == {j \in 0 .. m : fr[n + j] = fp[n] \o fq[j]}
  <2>1. 0 \in T
    <3>1. fq[0] = <<>> /\ n + 0 = n /\ 0 \in 0 .. m
      BY <1>1, <1>5 DEF JoinedBy
    <3>2. fp[n] \o <<>> = fp[n]
      BY <1>8, ConcatEmptySeq
    <3> QED BY <1>7, <3>1, <3>2
  <2>2. ASSUME NEW j \in 1 .. m, j - 1 \in T PROVE j \in T
    <3>1. /\ n + j \in 1 .. n + m /\ ~(n + j <= n) /\ (n + j) - n = j
          /\ (n + j) - 1 = n + (j - 1)
          /\ j \in 0 .. m /\ j - 1 \in 0 .. m
      BY <1>1
    <3>2. fr[n + j] = fr[n + (j - 1)] \o r[n + j]
      <4>1. fr[n + j] = fr[(n + j) - 1] \o r[n + j]
        BY <1>6, <3>1 DEF JoinedBy
      <4> QED BY <3>1, <4>1
    <3>3. r[n + j] = q[j]
      BY <1>2, <3>1
    <3>4. fq[j] = fq[j - 1] \o q[j]
      BY <1>5 DEF JoinedBy
    <3>5. fr[n + (j - 1)] = fp[n] \o fq[j - 1]
      BY <2>2
    <3>6. fq[j - 1] \in Seq(S) /\ q[j] \in Seq(S)
      BY <1>1, <3>1
    <3>7. (fp[n] \o fq[j - 1]) \o q[j] = fp[n] \o (fq[j - 1] \o q[j])
      <4> DEFINE x == fp[n]
                 y == fq[j - 1]
                 z == q[j]
      <4>1. x \in Seq(S) /\ y \in Seq(S) /\ z \in Seq(S)
        BY <1>8, <3>6
      <4> HIDE DEF x, y, z
      <4>2. Regroup(x, y, z)
        BY <4>1, Regrouped
      <4> QED BY <4>2 DEF Regroup, x, y, z
    <3>8. fr[n + j] = fp[n] \o fq[j]
      BY <3>2, <3>3, <3>4, <3>5, <3>7
    <3> QED BY <3>1, <3>8
  <2> HIDE DEF T
  <2>3. \A j \in 1 .. m : j - 1 \in T => j \in T
    BY <2>2
  <2>4. \A j \in 0 .. m : j \in T
    BY <1>1, <2>1, <2>3, RoundInduction
  <2>5. m \in T
    BY <1>1, <2>4
  <2> QED BY <2>5 DEF T
<1> QED BY <1>4, <1>5, <1>6, <1>8, <1>9 DEF r

(* The sequences that W has for the elements of a list, put together.      *)
WordsOf(W, list) == FlattenSeq([i \in DOMAIN list |-> W[list[i]]])

(* They follow the list.                                                   *)
WordsFollow(W, a, b) == WordsOf(W, a \o b) = WordsOf(W, a) \o WordsOf(W, b)

(* Those of two lists, one behind the other.                               *)
LEMMA WordsConcat ==
  ASSUME NEW H, NEW S, NEW W \in [H -> Seq(S)],
         NEW a \in Seq(H), NEW b \in Seq(H)
  PROVE  /\ WordsOf(W, a) \in Seq(S)
         /\ WordsFollow(W, a, b)
<1> DEFINE of(s) == [i \in DOMAIN s |-> W[s[i]]]
<1>1. ASSUME NEW s \in Seq(H)
      PROVE  /\ of(s) \in Seq(Seq(S)) /\ Len(of(s)) = Len(s)
             /\ \A i \in 1 .. Len(s) : of(s)[i] = W[s[i]]
  <2> DEFINE n == Len(s)
             u == of(s)
  <2>1. n \in Nat /\ DOMAIN s = 1 .. n /\ \A i \in 1 .. n : s[i] \in H
    BY LenProperties, ElementOfSeq
  <2>2. u \in [1 .. n -> Seq(S)] /\ \A i \in 1 .. n : u[i] = W[s[i]]
    BY <2>1
  <2> HIDE DEF u, n
  <2>3. u \in Seq(Seq(S)) /\ DOMAIN u = 1 .. n
    BY <2>1, <2>2, SeqDef
  <2>4. Len(u) = n
    BY <2>1, <2>3, LenProperties
  <2> QED BY <2>2, <2>3, <2>4 DEF u, n
<1>2. /\ a \o b \in Seq(H) /\ Len(a \o b) = Len(a) + Len(b)
      /\ \A i \in 1 .. Len(a) + Len(b) :
            (a \o b)[i] = IF i <= Len(a) THEN a[i] ELSE b[i - Len(a)]
      /\ Len(a) \in Nat /\ Len(b) \in Nat
  BY ConcatProperties, LenProperties
<1> DEFINE c == a \o b
           p == of(a)
           q == of(b)
           r == of(c)
<1> HIDE DEF c
<1>3. /\ p \in Seq(Seq(S)) /\ Len(p) = Len(a)
      /\ \A i \in 1 .. Len(a) : p[i] = W[a[i]]
  BY <1>1
<1>4. /\ q \in Seq(Seq(S)) /\ Len(q) = Len(b)
      /\ \A i \in 1 .. Len(b) : q[i] = W[b[i]]
  BY <1>1
<1>5. /\ r \in Seq(Seq(S)) /\ Len(r) = Len(a) + Len(b)
      /\ \A i \in 1 .. Len(a) + Len(b) : r[i] = W[c[i]]
  <2>1. c \in Seq(H) /\ Len(c) = Len(a) + Len(b)
    BY <1>2 DEF c
  <2>2. /\ r \in Seq(Seq(S)) /\ Len(r) = Len(c)
        /\ \A i \in 1 .. Len(c) : r[i] = W[c[i]]
    BY <1>1, <2>1
  <2> QED BY <2>1, <2>2
<1> HIDE DEF p, q, r
<1>6. r = p \o q
  <2>1. /\ p \o q \in Seq(Seq(S)) /\ Len(p \o q) = Len(p) + Len(q)
        /\ \A i \in 1 .. Len(p) + Len(q) :
              (p \o q)[i] = IF i <= Len(p) THEN p[i] ELSE q[i - Len(p)]
    BY <1>3, <1>4, ConcatProperties
  <2> DEFINE z == p \o q
  <2> HIDE DEF z
  <2>2. ASSUME NEW i \in 1 .. Len(r) PROVE r[i] = z[i]
    <3>1. i \in 1 .. Len(a) + Len(b)
      BY <1>5
    <3>2. CASE i <= Len(a)
      <4>1. c[i] = a[i] /\ i \in 1 .. Len(a)
        BY <1>2, <3>1, <3>2 DEF c
      <4>2. z[i] = p[i]
        BY <1>3, <1>4, <2>1, <3>1, <3>2 DEF z
      <4> QED BY <1>3, <1>5, <3>1, <4>1, <4>2
    <3>3. CASE ~(i <= Len(a))
      <4>1. c[i] = b[i - Len(a)] /\ i - Len(a) \in 1 .. Len(b)
        BY <1>2, <3>1, <3>3 DEF c
      <4>2. z[i] = q[i - Len(a)]
        BY <1>3, <1>4, <2>1, <3>1, <3>3 DEF z
      <4> QED BY <1>4, <1>5, <3>1, <4>1, <4>2
    <3> QED BY <3>2, <3>3
  <2>3. Len(r) = Len(z) /\ z \in Seq(Seq(S))
    BY <1>3, <1>4, <1>5, <2>1 DEF z
  <2> QED BY <1>5, <2>2, <2>3, SeqEqual DEF z
<1>7. /\ FlattenSeq(p) \in Seq(S)
      /\ FlattenSeq(p \o q) = FlattenSeq(p) \o FlattenSeq(q)
  BY <1>3, <1>4, FlattenConcat
<1> QED BY <1>6, <1>7 DEF WordsFollow, WordsOf, p, q, r, c

(* Those of no element, and of one.                                        *)
LEMMA WordsOfFew ==
  ASSUME NEW H, NEW S, NEW W \in [H -> Seq(S)], NEW x \in H
  PROVE  WordsOf(W, <<>>) = <<>> /\ WordsOf(W, <<x>>) = W[x]
<1>1. WordsOf(W, <<>>) = <<>>
  <2> DEFINE p == [i \in DOMAIN <<>> |-> W[<<>>[i]]]
  <2>1. p \in [1 .. 0 -> Seq(S)] /\ 0 \in Nat
    OBVIOUS
  <2> HIDE DEF p
  <2>2. PICK f \in [0 .. 0 -> Seq(S)] :
           JoinedBy(f, p, 0) /\ FlattenSeq(p) = f[0]
    BY <2>1, FlattenRounds
  <2> QED BY <2>2 DEF JoinedBy, WordsOf, p
<1>2. WordsOf(W, <<x>>) = W[x]
  <2> DEFINE p == [i \in DOMAIN <<x>> |-> W[<<x>>[i]]]
  <2>1. p \in [1 .. 1 -> Seq(S)] /\ 1 \in Nat /\ p[1] = W[x]
    OBVIOUS
  <2> HIDE DEF p
  <2>2. PICK f \in [0 .. 1 -> Seq(S)] :
           JoinedBy(f, p, 1) /\ FlattenSeq(p) = f[1]
    BY <2>1, FlattenRounds
  <2>3. f[1] = <<>> \o W[x]
    <3>1. 1 \in 1 .. 1 /\ 1 - 1 = 0
      OBVIOUS
    <3>2. f[1] = f[1 - 1] \o p[1] /\ f[0] = <<>>
      BY <2>2, <3>1 DEF JoinedBy
    <3> QED BY <2>1, <3>1, <3>2
  <2>4. <<>> \o W[x] = W[x]
    BY ConcatEmptySeq
  <2> QED BY <2>2, <2>3, <2>4 DEF WordsOf, p
<1> QED BY <1>1, <1>2

(* Two sequences backwards: the second first.                              *)
LEMMA ReverseConcat ==
  ASSUME NEW S, NEW a \in Seq(S), NEW b \in Seq(S)
  PROVE  Reverse(a \o b) = Reverse(b) \o Reverse(a)
<1> DEFINE c == a \o b
           ra == Reverse(a)
           rb == Reverse(b)
           rc == Reverse(c)
           z == rb \o ra
           n == Len(a)
           m == Len(b)
<1>1. /\ c \in Seq(S) /\ Len(c) = n + m /\ n \in Nat /\ m \in Nat
      /\ \A i \in 1 .. n + m : c[i] = IF i <= n THEN a[i] ELSE b[i - n]
  BY ConcatProperties, LenProperties
<1>2. /\ ra \in Seq(S) /\ Len(ra) = n
      /\ \A i \in 1 .. n : ra[i] = a[n + 1 - i]
  BY ReversedMembers
<1>3. /\ rb \in Seq(S) /\ Len(rb) = m
      /\ \A i \in 1 .. m : rb[i] = b[m + 1 - i]
  BY ReversedMembers
<1> HIDE DEF c, n, m, ra, rb
<1>4. /\ rc \in Seq(S) /\ Len(rc) = n + m
      /\ \A i \in 1 .. n + m : rc[i] = c[n + m + 1 - i]
  <2>1. /\ rc \in Seq(S) /\ Len(rc) = Len(c)
        /\ \A i \in 1 .. Len(c) : rc[i] = c[Len(c) + 1 - i]
    BY <1>1, ReversedMembers
  <2> QED BY <1>1, <2>1
<1>5. /\ z \in Seq(S) /\ Len(z) = m + n
      /\ \A i \in 1 .. m + n : z[i] = IF i <= m THEN rb[i] ELSE ra[i - m]
  <2>1. /\ z \in Seq(S) /\ Len(z) = Len(rb) + Len(ra)
        /\ \A i \in 1 .. Len(rb) + Len(ra) :
              z[i] = IF i <= Len(rb) THEN rb[i] ELSE ra[i - Len(rb)]
    BY <1>2, <1>3, ConcatProperties
  <2> HIDE DEF z
  <2> QED BY <1>2, <1>3, <2>1
<1> HIDE DEF rc, z
<1>6. ASSUME NEW i \in 1 .. Len(rc) PROVE rc[i] = z[i]
  <2>1. i \in 1 .. n + m /\ i \in 1 .. m + n
    BY <1>1, <1>4
  <2> DEFINE k == n + m + 1 - i
  <2>2. k \in 1 .. n + m
    BY <1>1, <2>1
  <2>3. CASE i <= m
    <3>1. ~(k <= n) /\ k - n = m + 1 - i /\ i \in 1 .. m
      BY <1>1, <2>1, <2>3
    <3> HIDE DEF k
    <3>2. c[k] = b[m + 1 - i]
      BY <1>1, <2>2, <3>1
    <3>3. z[i] = b[m + 1 - i]
      BY <1>3, <1>5, <2>1, <2>3, <3>1
    <3> QED BY <1>4, <2>1, <3>2, <3>3 DEF k
  <2>4. CASE ~(i <= m)
    <3>1. k <= n /\ k = n + 1 - (i - m) /\ i - m \in 1 .. n
      BY <1>1, <2>1, <2>4
    <3> HIDE DEF k
    <3>2. c[k] = a[k]
      BY <1>1, <2>2, <3>1
    <3>3. z[i] = ra[i - m]
      BY <1>5, <2>1, <2>4
    <3>4. ra[i - m] = a[k]
      BY <1>2, <3>1
    <3> QED BY <1>4, <2>1, <3>2, <3>3, <3>4 DEF k
  <2> QED BY <2>3, <2>4
<1>7. Len(rc) = Len(z)
  BY <1>1, <1>4, <1>5
<1>8. rc = z
  BY <1>4, <1>5, <1>6, <1>7, SeqEqual
<1> QED BY <1>8 DEF rc, z, c, ra, rb
(* A sequence of one element, and a sequence without its last one.         *)
LEMMA OneReversed ==
  ASSUME NEW S, NEW x \in S
  PROVE  <<x>> \in Seq(S) /\ Reverse(<<x>>) = <<x>>
<1> DEFINE s == <<x>>
           r == Reverse(s)
<1>1. s \in Seq(S) /\ Len(s) = 1
  OBVIOUS
<1> HIDE DEF s
<1>2. /\ r \in Seq(S) /\ Len(r) = Len(s)
      /\ \A i \in 1 .. Len(s) : r[i] = s[Len(s) + 1 - i]
  BY <1>1, ReversedMembers
<1> HIDE DEF r
<1>3. \A i \in 1 .. Len(r) : r[i] = s[i]
  <2>1. ASSUME NEW i \in 1 .. Len(r) PROVE r[i] = s[i]
    <3>1. i = 1 /\ i \in 1 .. Len(s) /\ Len(s) + 1 - i = i
      BY <1>1, <1>2
    <3> QED BY <1>2, <3>1
  <2> QED BY <2>1
<1>4. r = s
  BY <1>1, <1>2, <1>3, SeqEqual
<1> QED BY <1>1, <1>4 DEF r, s

(* A sequence is its front and its last element.                           *)
LEMMA FrontAndLast ==
  ASSUME NEW S, NEW s \in Seq(S), s # <<>>
  PROVE  /\ Front(s) \in Seq(S) /\ Last(s) \in S
         /\ s = Front(s) \o <<Last(s)>>
<1>0. Len(s) \in Nat \ {0} /\ DOMAIN s = 1 .. Len(s)
  BY EmptySeq, LenProperties
<1>1. /\ Len(s) \in Nat \ {0} /\ Len(s) \in 1 .. Len(s)
      /\ \A i \in 1 .. Len(s) : s[i] \in S
  BY <1>0, ElementOfSeq
<1> DEFINE u == Front(s)
<1>3. /\ u \in Seq(S)
      /\ Len(u) = Len(s) - 1
      /\ \A i \in 1 .. Len(s) - 1 : u[i] = s[i]
  <2>1. \A i \in 1 .. Len(s) - 1 : s[i] \in S
    BY <1>1
  <2> QED BY <1>0, <2>1, SubSeqProperties DEF Front
<1> HIDE DEF u
<1> DEFINE n == Len(s)
           x == Last(s)
<1>2. x \in S /\ x = s[n]
  BY <1>1 DEF Last
<1>9. n = Len(s)
  OBVIOUS
<1> HIDE DEF x, n
<1> DEFINE e == <<x>>
           z == u \o e
<1>4. e \in Seq(S) /\ Len(e) = 1 /\ e[1] = x
  BY <1>2
<1> HIDE DEF e
<1>5. /\ z \in Seq(S) /\ Len(z) = Len(u) + Len(e)
      /\ \A k \in 1 .. Len(u) + Len(e) :
            z[k] = IF k <= Len(u) THEN u[k] ELSE e[k - Len(u)]
  BY <1>3, <1>4, ConcatProperties
<1> HIDE DEF z
<1>6. ASSUME NEW k \in 1 .. Len(s) PROVE s[k] = z[k]
  <2>1. CASE k = n
    <3>1. ~(k <= Len(u)) /\ k - Len(u) = 1 /\ k \in 1 .. Len(u) + Len(e)
      BY <1>1, <1>3, <1>4, <1>9, <2>1
    <3> QED BY <1>2, <1>4, <1>5, <2>1, <3>1
  <2>2. CASE k # n
    <3>1. /\ k <= Len(u) /\ k \in 1 .. Len(s) - 1
          /\ k \in 1 .. Len(u) + Len(e)
      BY <1>1, <1>3, <1>4, <1>9, <2>2
    <3> QED BY <1>3, <1>5, <3>1
  <2> QED BY <2>1, <2>2
<1>7. Len(s) = Len(z)
  BY <1>1, <1>3, <1>4, <1>5
<1>8. s = z
  BY <1>5, <1>6, <1>7, SeqEqual
<1> QED BY <1>2, <1>3, <1>8 DEF z, e, x, u

=============================================================================
