----------------------- MODULE MutablePolytreeProofs -----------------------
(***************************************************************************)
(* The invariant of MutablePolytree and its contract, and what moves       *)
(* between two trees keep of them, for any number of identities and        *)
(* revisions and any payloads.                                             *)
(*                                                                         *)
(* The invariant's parts support each other: types need the links to stay  *)
(* among live identities, the links need the table to lead to the right    *)
(* records, and erase_subtree's worklist and reparent's walk need the      *)
(* absence of cycles they are there to keep.  So one inductive invariant   *)
(* holds all five.  First come lemmas on what each piece of an action      *)
(* does, to sibling lists, to the slot table, to the hierarchy and along   *)
(* its two walks; then every action as a composition of pieces.  A call    *)
(* has an outcome: it keeps the invariant, and either refuses with nothing *)
(* changed or has one of the effects named below on what a caller sees.    *)
(* The order of siblings and the refinement of OrderedForest follow from   *)
(* the effects alone.                                                      *)
(*                                                                         *)
(* Last the two trees of MovedTrees.  A call keeps the invariant of the    *)
(* tree it is made on; a turn exchanges the trees, and a move leaves one   *)
(* with the other's members and the other empty.  What a domain promises   *)
(* rests on two facts about one call: a call that changes anything counts  *)
(* a revision, and an identity made live is the one the counter had.       *)
(***************************************************************************)
EXTENDS MovedTrees, SequenceLemmas

-----------------------------------------------------------------------------
(* Sibling lists *)

(* child_index finds the node if it is there, which its assertion demands. *)
LEMMA ChildIndexFinds ==
  ASSUME NEW S, NEW s \in Seq(S), NEW n \in ToSet(s)
  PROVE  ChildIndex(s, n) \in 1 .. Len(s) /\ s[ChildIndex(s, n)] = n
<1> DEFINE I == {i \in 1 .. Len(s) : s[i] = n}
<1>1. I \in SUBSET Nat /\ I # {}
  BY MembersOfSeq, LenProperties
<1>2. Min(I) \in I
  BY <1>1, MinOfNaturals
<1>3. ChildIndex(s, n) = Min(I)
  BY <1>1 DEF ChildIndex, SelectInSeq
<1> QED BY <1>2, <1>3

(* erase(child_index(...)) removes the node and keeps the others.          *)
LEMMA EraseSiblingMembers ==
  ASSUME NEW S, NEW s \in Seq(S), NEW n \in ToSet(s), IsInjective(s)
  PROVE  /\ EraseSibling(s, n) \in Seq(S)
         /\ ToSet(EraseSibling(s, n)) = ToSet(s) \ {n}
         /\ IsInjective(EraseSibling(s, n))
<1>1. ChildIndex(s, n) \in 1 .. Len(s) /\ s[ChildIndex(s, n)] = n
  BY ChildIndexFinds
<1> DEFINE i == ChildIndex(s, n)
<1> HIDE DEF i
<1>2. i \in 1 .. Len(s) /\ s[i] = n /\ EraseSibling(s, n) = RemoveAt(s, i)
  BY <1>1 DEF EraseSibling, i
<1>3. RemoveAt(s, i) \in Seq(S)
  BY <1>2, RemoveAtElements
<1>4. ToSet(RemoveAt(s, i)) = ToSet(s) \ {s[i]} /\ IsInjective(RemoveAt(s, i))
  BY <1>2, RemoveAtMembers
<1> QED BY <1>2, <1>3, <1>4

(* A sequence of identities with one more at an ordinal in range.          *)
LEMMA InsertSiblingMembers ==
  ASSUME NEW S, NEW s \in Seq(S), NEW n \in S, NEW o \in Ordinal,
         InsertionOrdinalOK(Len(s), o)
  PROVE  /\ InsertionOrdinal(Len(s), o) + 1 \in 1 .. Len(s) + 1
         /\ InsertSibling(s, o, n) \in Seq(S)
         /\ ToSet(InsertSibling(s, o, n)) = ToSet(s) \cup {n}
         /\ IsInjective(s) /\ n \notin ToSet(s) =>
               IsInjective(InsertSibling(s, o, n))
<1>1. InsertionOrdinal(Len(s), o) + 1 \in 1 .. Len(s) + 1
  BY LenProperties DEF InsertionOrdinal, InsertionOrdinalOK, Ordinal
<1> QED BY <1>1, InsertAtPlaces, InsertAtMembers DEF InsertSibling

(* std::rotate permutes: the members stay, once each.                      *)
LEMMA MoveWithinMembers ==
  ASSUME NEW S, NEW s \in Seq(S),
         NEW c \in 1 .. Len(s), NEW t \in 1 .. Len(s)
  PROVE  /\ MoveWithin(s, c, t) \in Seq(S)
         /\ ToSet(MoveWithin(s, c, t)) = ToSet(s)
         /\ IsInjective(s) => IsInjective(MoveWithin(s, c, t))
<1> DEFINE from == [i \in 1 .. Len(s) |->
                      IF i = t THEN c
                      ELSE IF c <= i /\ i < t THEN i + 1
                      ELSE IF t < i /\ i <= c THEN i - 1
                      ELSE i]
           to == [i \in 1 .. Len(s) |->
                      IF i = c THEN t
                      ELSE IF c < i /\ i <= t THEN i - 1
                      ELSE IF t <= i /\ i < c THEN i + 1
                      ELSE i]
           m == MoveWithin(s, c, t)
<1>0. Len(s) \in Nat /\ DOMAIN s = 1 .. Len(s)
  BY LenProperties
<1>1. /\ from \in [1 .. Len(s) -> 1 .. Len(s)]
      /\ to \in [1 .. Len(s) -> 1 .. Len(s)]
  BY <1>0
<1>2. \A i \in 1 .. Len(s) : from[to[i]] = i /\ to[from[i]] = i
  BY <1>0
<1>3. m = [i \in 1 .. Len(s) |-> s[from[i]]]
  BY <1>0 DEF MoveWithin
<1> HIDE DEF from, to, m
<1>4. m \in Seq(S) /\ DOMAIN m = 1 .. Len(s)
  <2>1. \A i \in 1 .. Len(s) : s[from[i]] \in S
    BY <1>1, ElementOfSeq
  <2> QED BY <1>0, <1>3, <2>1
<1>5. ToSet(m) = ToSet(s)
  <2>1. /\ ToSet(m) = {m[i] : i \in 1 .. Len(s)}
        /\ ToSet(s) = {s[i] : i \in 1 .. Len(s)}
    BY <1>0, <1>4 DEF ToSet
  <2>2. ASSUME NEW i \in 1 .. Len(s) PROVE m[i] \in ToSet(s)
    <3>1. from[i] \in 1 .. Len(s) /\ m[i] = s[from[i]]
      BY <1>1, <1>3
    <3> QED BY <2>1, <3>1
  <2>3. ASSUME NEW i \in 1 .. Len(s) PROVE s[i] \in ToSet(m)
    <3>1. to[i] \in 1 .. Len(s) /\ m[to[i]] = s[from[to[i]]]
      BY <1>1, <1>3
    <3> QED BY <1>2, <2>1, <3>1
  <2> QED BY <2>1, <2>2, <2>3
<1>6. ASSUME IsInjective(s) PROVE IsInjective(m)
  <2>1. ASSUME NEW i \in 1 .. Len(s), NEW j \in 1 .. Len(s), m[i] = m[j]
        PROVE  i = j
    <3>1. from[i] \in 1 .. Len(s) /\ from[j] \in 1 .. Len(s)
      BY <1>1
    <3>2. s[from[i]] = s[from[j]]
      BY <1>3, <2>1
    <3>3. from[i] = from[j]
      BY <1>0, <1>6, <3>1, <3>2 DEF IsInjective
    <3> QED BY <1>2, <3>3
  <2> QED BY <1>4, <2>1 DEF IsInjective
<1> QED BY <1>4, <1>5, <1>6 DEF m

(* reparent and detach_to_root within one sequence only permute it.        *)
LEMMA ReorderSiblingMembers ==
  ASSUME NEW S, NEW s \in Seq(S), NEW n \in ToSet(s), NEW o \in Ordinal,
         MoveOrdinalOK(Len(s), o)
  PROVE  /\ ReorderSibling(s, o, n) \in Seq(S)
         /\ ToSet(ReorderSibling(s, o, n)) = ToSet(s)
         /\ IsInjective(s) => IsInjective(ReorderSibling(s, o, n))
<1>1. MoveOrdinal(Len(s), o) + 1 \in 1 .. Len(s)
  BY LenProperties DEF MoveOrdinal, MoveOrdinalOK, Ordinal
<1> QED BY <1>1, ChildIndexFinds, MoveWithinMembers DEF ReorderSibling

-----------------------------------------------------------------------------
(***************************************************************************)
(* What the operations on the slot table keep, stated for explicit tables  *)
(* so that an action that edits sequences and commits or vacates slots in  *)
(* one step is a composition of them.                                      *)
(***************************************************************************)

(* Index, table and free list agree: SlotTableOK with the types it needs.  *)
SlotsFit(table, index, free) ==
    /\ table \in Seq(NodeRecord \cup {NoRecord})
    /\ index \in [DOMAIN index -> DOMAIN table]
    /\ DOMAIN index \subseteq Id
    /\ free \in Seq(DOMAIN table)
    /\ \A n \in DOMAIN index :
          table[index[n]] # NoRecord /\ table[index[n]].id = n
    /\ \A s \in DOMAIN table :
          table[s] # NoRecord =>
              table[s].id \in DOMAIN index /\ index[table[s].id] = s
    /\ IsInjective(free)
    /\ ToSet(free) = {s \in DOMAIN table : table[s] = NoRecord}

(* table with other contents in the same records.                          *)
IsEditOf(edited, table) ==
    /\ edited \in Seq(NodeRecord \cup {NoRecord})
    /\ DOMAIN edited = DOMAIN table
    /\ \A s \in DOMAIN table :
          /\ edited[s] = NoRecord <=> table[s] = NoRecord
          /\ table[s] # NoRecord => edited[s].id = table[s].id

(* Types and SlotTableOK say that the fields form a table that fits.       *)
LEMMA SlotsFitState ==
  ASSUME TypeOK
  PROVE  SlotTableOK <=> SlotsFit(slots, slotById, freeSlots)
<1>1. \A n \in Live : FindRecord(n) = slots[slotById[n]]
  BY DEF FindRecord
<1> QED BY <1>1 DEF TypeOK, SlotTableOK, SlotsFit, Known, Live

(* Changing records in place keeps the table.                              *)
LEMMA EditKeepsSlots ==
  ASSUME NEW table, NEW index, NEW free, NEW edited,
         SlotsFit(table, index, free), IsEditOf(edited, table)
  PROVE  SlotsFit(edited, index, free)
<1>1. ToSet(free) = {s \in DOMAIN edited : edited[s] = NoRecord}
  BY DEF SlotsFit, IsEditOf
<1> QED BY <1>1 DEF SlotsFit, IsEditOf

(* commit_record adds one record: under a new slot if none is free, in the *)
(* last freed one otherwise; every other identity keeps its record.        *)
LEMMA CommitKeepsSlots ==
  ASSUME NEW table, SlotsFit(table, slotById, freeSlots),
         Len(table) = Len(slots),
         NEW id \in Id, id \notin Live,
         NEW record \in NodeRecord, record.id = id
  PROVE  /\ SlotsFit(CommitTable(table, record), CommitIndex(id), CommitFree)
         /\ DOMAIN CommitIndex(id) = Live \cup {id}
         /\ CommitTable(table, record)[CommitIndex(id)[id]] = record
         /\ \A n \in Live : CommitTable(table, record)[CommitIndex(id)[n]] =
                            table[slotById[n]]
<1> DEFINE newTable == CommitTable(table, record)
           newIndex == CommitIndex(id)
           R == NodeRecord \cup {NoRecord}
<1>0. /\ table \in Seq(R) /\ DOMAIN table = 1 .. Len(table) /\ Len(table) \in Nat
      /\ slotById \in [Live -> DOMAIN table] /\ Live \subseteq Id
      /\ freeSlots \in Seq(DOMAIN table)
      /\ record # NoRecord
  BY NoRecordAssumption, LenProperties DEF SlotsFit, Live
<1>1. newIndex = [n \in Live \cup {id} |-> IF n = id THEN CommitSlot ELSE slotById[n]]
  BY DEF CommitIndex
<1>2. CASE freeSlots = <<>>
  <2>1. newTable = Append(table, record) /\ CommitSlot = Len(table) + 1
        /\ CommitFree = <<>>
    BY <1>2 DEF CommitTable, CommitSlot, CommitFree
  <2>2. /\ newTable \in Seq(R) /\ DOMAIN newTable = 1 .. Len(table) + 1
        /\ \A s \in 1 .. Len(table) + 1 :
              newTable[s] = IF s = Len(table) + 1 THEN record ELSE table[s]
    BY <1>0, <2>1, AppendProperties, LenProperties
  <2>3. \A s \in DOMAIN table : table[s] # NoRecord
    BY <1>2 DEF SlotsFit, ToSet
  <2> HIDE DEF newTable, newIndex
  <2>4. /\ newIndex \in [DOMAIN newIndex -> DOMAIN newTable]
        /\ DOMAIN newIndex = Live \cup {id}
    BY <1>0, <1>1, <2>1, <2>2
  <2>5. \A n \in Live \cup {id} :
           newTable[newIndex[n]] = IF n = id THEN record ELSE table[slotById[n]]
    BY <1>0, <1>1, <2>1, <2>2
  <2>6. \A n \in DOMAIN newIndex :
           newTable[newIndex[n]] # NoRecord /\ newTable[newIndex[n]].id = n
    BY <1>0, <2>4, <2>5 DEF SlotsFit, Live
  <2>7. ASSUME NEW s \in DOMAIN newTable
        PROVE  newTable[s] # NoRecord /\ newTable[s].id \in DOMAIN newIndex
               /\ newIndex[newTable[s].id] = s
    <3>1. CASE s = Len(table) + 1
      BY <1>0, <1>1, <2>1, <2>2, <2>4, <3>1
    <3>2. CASE s # Len(table) + 1
      <4>1. s \in DOMAIN table /\ newTable[s] = table[s]
        BY <1>0, <2>2, <3>2
      <4>2. table[s].id \in Live /\ slotById[table[s].id] = s
        BY <2>3, <4>1 DEF SlotsFit, Live
      <4> QED BY <1>1, <2>3, <2>4, <4>1, <4>2
    <3> QED BY <3>1, <3>2
  <2>8. IsInjective(CommitFree) /\ CommitFree \in Seq(DOMAIN newTable)
        /\ ToSet(CommitFree) = {}
    BY <2>1 DEF IsInjective, ToSet
  <2>9. SlotsFit(newTable, newIndex, CommitFree)
    BY <1>0, <2>2, <2>4, <2>6, <2>7, <2>8 DEF SlotsFit
  <2>10. newTable[newIndex[id]] = record
         /\ \A n \in Live : newTable[newIndex[n]] = table[slotById[n]]
    BY <2>5
  <2> QED BY <2>4, <2>9, <2>10 DEF newTable, newIndex
<1>3. CASE freeSlots # <<>>
  <2>1. newTable = [table EXCEPT ![CommitSlot] = record]
        /\ CommitSlot = freeSlots[Len(freeSlots)]
        /\ CommitFree = Front(freeSlots)
    BY <1>3 DEF CommitTable, CommitSlot, CommitFree, Last
  <2>2. Len(freeSlots) \in Nat \ {0} /\ DOMAIN freeSlots = 1 .. Len(freeSlots)
    BY <1>0, <1>3, EmptySeq, LenProperties
  <2>3. CommitSlot \in DOMAIN table /\ table[CommitSlot] = NoRecord
    <3>1. CommitSlot \in ToSet(freeSlots)
      BY <2>1, <2>2 DEF ToSet
    <3> QED BY <3>1 DEF SlotsFit
  <2>4. /\ newTable \in Seq(R) /\ DOMAIN newTable = DOMAIN table
        /\ \A s \in DOMAIN table :
              newTable[s] = IF s = CommitSlot THEN record ELSE table[s]
    BY <1>0, <2>1, <2>3
  <2>5. /\ CommitFree \in Seq(DOMAIN table)
        /\ Len(CommitFree) = Len(freeSlots) - 1
        /\ DOMAIN CommitFree = 1 .. Len(freeSlots) - 1
        /\ \A i \in 1 .. Len(freeSlots) - 1 : CommitFree[i] = freeSlots[i]
    BY <1>0, <2>1, <2>2, SubSeqProperties, LenProperties, ElementOfSeq DEF Front
  <2>6. IsInjective(CommitFree)
    BY <2>2, <2>5 DEF IsInjective, SlotsFit
  <2>7. ToSet(CommitFree) = ToSet(freeSlots) \ {CommitSlot}
    <3>1. \A i, j \in 1 .. Len(freeSlots) : freeSlots[i] = freeSlots[j] => i = j
      BY <2>2 DEF IsInjective, SlotsFit
    <3>2. ASSUME NEW x \in ToSet(CommitFree)
          PROVE  x \in ToSet(freeSlots) \ {CommitSlot}
      <4>1. PICK i \in 1 .. Len(freeSlots) - 1 : x = CommitFree[i]
        BY <2>5, <3>2 DEF ToSet
      <4>2. x = freeSlots[i]
        BY <2>5, <4>1, Zenon
      <4>3. /\ i \in 1 .. Len(freeSlots) /\ Len(freeSlots) \in 1 .. Len(freeSlots)
            /\ i # Len(freeSlots)
        <5>1. Len(freeSlots) \in Nat /\ Len(freeSlots) >= 1
          BY <2>2
        <5>2. \A l \in Nat : l >= 1 /\ i \in 1 .. l - 1 =>
                 i \in 1 .. l /\ l \in 1 .. l /\ i # l
          OBVIOUS
        <5> QED BY <5>1, <5>2
      <4>4. x \in ToSet(freeSlots)
        BY <2>2, <4>2, <4>3 DEF ToSet
      <4>5. x # CommitSlot
        BY <2>1, <3>1, <4>2, <4>3, Zenon
      <4> QED BY <4>4, <4>5
    <3>3. ASSUME NEW x \in ToSet(freeSlots) \ {CommitSlot}
          PROVE  x \in ToSet(CommitFree)
      <4>1. PICK i \in 1 .. Len(freeSlots) : x = freeSlots[i]
        BY <2>2, <3>3 DEF ToSet
      <4>2. i \in 1 .. Len(freeSlots) - 1
        BY <2>1, <2>2, <3>3, <4>1
      <4> QED BY <2>5, <4>1, <4>2 DEF ToSet
    <3> QED BY <3>2, <3>3
  <2> HIDE DEF newTable, newIndex
  <2>8. ToSet(CommitFree) = {s \in DOMAIN newTable : newTable[s] = NoRecord}
    BY <1>0, <2>3, <2>4, <2>7 DEF SlotsFit
  <2>9. /\ newIndex \in [DOMAIN newIndex -> DOMAIN newTable]
        /\ DOMAIN newIndex = Live \cup {id}
    BY <1>0, <1>1, <2>3, <2>4
  <2>10. \A n \in Live : slotById[n] # CommitSlot
    BY <2>3 DEF SlotsFit, Live
  <2>11. \A n \in Live \cup {id} :
           newTable[newIndex[n]] = IF n = id THEN record ELSE table[slotById[n]]
    BY <1>0, <1>1, <2>3, <2>4, <2>10
  <2>12. \A n \in DOMAIN newIndex :
           newTable[newIndex[n]] # NoRecord /\ newTable[newIndex[n]].id = n
    BY <1>0, <2>9, <2>11 DEF SlotsFit, Live
  <2>13. ASSUME NEW s \in DOMAIN newTable, newTable[s] # NoRecord
         PROVE  newTable[s].id \in DOMAIN newIndex
                /\ newIndex[newTable[s].id] = s
    <3>1. CASE s = CommitSlot
      BY <1>1, <2>4, <2>9, <3>1
    <3>2. CASE s # CommitSlot
      <4>1. s \in DOMAIN table /\ newTable[s] = table[s]
        BY <2>4, <3>2
      <4>2. table[s].id \in Live /\ slotById[table[s].id] = s
        BY <2>13, <4>1 DEF SlotsFit, Live
      <4> QED BY <1>1, <2>9, <4>1, <4>2
    <3> QED BY <3>1, <3>2
  <2>14. SlotsFit(newTable, newIndex, CommitFree)
    BY <1>0, <2>4, <2>5, <2>6, <2>8, <2>9, <2>12, <2>13 DEF SlotsFit
  <2>15. newTable[newIndex[id]] = record
         /\ \A n \in Live : newTable[newIndex[n]] = table[slotById[n]]
    BY <2>11
  <2> QED BY <2>9, <2>14, <2>15 DEF newTable, newIndex
<1> QED BY <1>2, <1>3

(* erase_subtree vacates the slots of the removed identities: survivors    *)
(* keep theirs, and the free list gains each vacated slot once.            *)
LEMMA VacateKeepsSlots ==
  ASSUME NEW table, SlotsFit(table, slotById, freeSlots),
         NEW removed \in Seq(Live), IsInjective(removed)
  PROVE  LET left == Live \ ToSet(removed)
             newTable == [s \in DOMAIN table |->
                            IF s \in ToSet(VacatedSlots(removed))
                            THEN NoRecord ELSE table[s]]
         IN  /\ SlotsFit(newTable, [n \in left |-> slotById[n]],
                         freeSlots \o VacatedSlots(removed))
             /\ \A n \in left : newTable[slotById[n]] = table[slotById[n]]
<1> DEFINE V == VacatedSlots(removed)
           gone == ToSet(removed)
           left == Live \ gone
           newIndex == [n \in left |-> slotById[n]]
           newTable == [s \in DOMAIN table |->
                            IF s \in ToSet(V) THEN NoRecord ELSE table[s]]
           newFree == freeSlots \o V
           R == NodeRecord \cup {NoRecord}
<1>1. /\ Len(removed) \in Nat /\ DOMAIN removed = 1 .. Len(removed)
      /\ removed \in [1 .. Len(removed) -> Live]
      /\ gone \subseteq Live
  BY LenProperties DEF ToSet
<1>2. /\ slotById \in [Live -> DOMAIN table]
      /\ \A m, n \in Live : slotById[m] = slotById[n] => m = n
  BY DEF SlotsFit, Live
<1>3. /\ V \in Seq(DOMAIN table) /\ Len(V) = Len(removed)
      /\ DOMAIN V = 1 .. Len(removed)
      /\ \A i \in 1 .. Len(removed) :
            V[i] = slotById[removed[Len(removed) + 1 - i]]
  <2>1. \A i \in 1 .. Len(removed) :
           slotById[removed[Len(removed) + 1 - i]] \in DOMAIN table
    BY <1>1, <1>2
  <2> QED BY <1>1, <2>1 DEF VacatedSlots
<1>4. IsInjective(V)
  <2>1. ASSUME NEW a \in 1 .. Len(removed), NEW b \in 1 .. Len(removed),
               V[a] = V[b]
        PROVE  a = b
    <3>1. removed[Len(removed) + 1 - a] = removed[Len(removed) + 1 - b]
      BY <1>1, <1>2, <1>3, <2>1
    <3>2. Len(removed) + 1 - a = Len(removed) + 1 - b
      BY <1>1, <3>1 DEF IsInjective
    <3> QED BY <1>1, <3>2
  <2> QED BY <1>3, <2>1 DEF IsInjective
<1>5. \A n \in Live : slotById[n] \in ToSet(V) <=> n \in gone
  <2>1. ASSUME NEW n \in gone PROVE slotById[n] \in ToSet(V)
    <3>1. PICK k \in 1 .. Len(removed) : n = removed[k]
      BY <1>1 DEF ToSet
    <3>2. Len(removed) + 1 - k \in 1 .. Len(removed)
          /\ V[Len(removed) + 1 - k] = slotById[n]
      BY <1>1, <1>3, <3>1
    <3> QED BY <1>3, <3>2 DEF ToSet
  <2>2. ASSUME NEW n \in Live, slotById[n] \in ToSet(V) PROVE n \in gone
    <3>1. PICK i \in 1 .. Len(removed) :
             slotById[n] = slotById[removed[Len(removed) + 1 - i]]
      BY <1>3, <2>2 DEF ToSet
    <3>2. Len(removed) + 1 - i \in 1 .. Len(removed)
      BY <1>1
    <3> QED BY <1>1, <1>2, <3>1, <3>2 DEF ToSet
  <2> QED BY <2>1, <2>2
<1>6. \A s \in ToSet(V) : s \in DOMAIN table /\ table[s] # NoRecord
                           /\ table[s].id \in gone
  <2>1. ASSUME NEW s \in ToSet(V)
        PROVE  \E n \in gone : s = slotById[n]
    <3>1. PICK i \in 1 .. Len(removed) :
             s = slotById[removed[Len(removed) + 1 - i]]
      BY <1>3 DEF ToSet
    <3>2. Len(removed) + 1 - i \in 1 .. Len(removed)
      BY <1>1
    <3> QED BY <1>1, <3>1, <3>2 DEF ToSet
  <2> QED BY <1>1, <1>2, <2>1 DEF SlotsFit, Live
<1> HIDE DEF V
<1>7. newTable \in Seq(R) /\ DOMAIN newTable = DOMAIN table
  BY LenProperties DEF SlotsFit
<1>8. newFree \in Seq(DOMAIN table) /\ IsInjective(newFree)
      /\ ToSet(newFree) = ToSet(freeSlots) \cup ToSet(V)
  <2>1. /\ freeSlots \in Seq(DOMAIN table) /\ Len(freeSlots) \in Nat
        /\ DOMAIN freeSlots = 1 .. Len(freeSlots)
    BY LenProperties DEF SlotsFit
  <2>2. /\ newFree \in Seq(DOMAIN table)
        /\ Len(newFree) = Len(freeSlots) + Len(V)
        /\ \A i \in 1 .. Len(freeSlots) + Len(V) :
              newFree[i] = IF i <= Len(freeSlots) THEN freeSlots[i]
                           ELSE V[i - Len(freeSlots)]
    <3>1. V \in Seq(DOMAIN table)
      BY <1>3
    <3> HIDE DEF V
    <3> QED BY <2>1, <3>1, ConcatProperties, Zenon
  <2>3. DOMAIN newFree = 1 .. Len(freeSlots) + Len(V) /\ Len(V) \in Nat
    BY <1>1, <1>3, <2>2, LenProperties
  <2>4. \A i \in 1 .. Len(freeSlots), j \in 1 .. Len(V) : freeSlots[i] # V[j]
    <3>1. \A i \in 1 .. Len(freeSlots) : table[freeSlots[i]] = NoRecord
      BY <2>1 DEF SlotsFit, ToSet
    <3>2. \A j \in 1 .. Len(V) : V[j] \in ToSet(V)
      BY <1>3 DEF ToSet
    <3> QED BY <1>6, <3>1, <3>2
  <2>5. /\ \A i, j \in 1 .. Len(freeSlots) : freeSlots[i] = freeSlots[j] => i = j
        /\ \A i, j \in 1 .. Len(V) : V[i] = V[j] => i = j
    BY <1>3, <1>4, <2>1 DEF IsInjective, SlotsFit
  <2> HIDE DEF newFree
  <2>6. ASSUME NEW a \in 1 .. Len(freeSlots) + Len(V),
               NEW b \in 1 .. Len(freeSlots) + Len(V), newFree[a] = newFree[b]
        PROVE  a = b
    <3>1. CASE a <= Len(freeSlots) /\ b <= Len(freeSlots)
      BY <2>1, <2>2, <2>3, <2>5, <2>6, <3>1
    <3>2. CASE a > Len(freeSlots) /\ b > Len(freeSlots)
      <4>1. a - Len(freeSlots) \in 1 .. Len(V) /\ b - Len(freeSlots) \in 1 .. Len(V)
        BY <2>1, <2>3, <3>2
      <4>2. V[a - Len(freeSlots)] = V[b - Len(freeSlots)]
        BY <2>1, <2>2, <2>3, <2>6, <3>2
      <4>3. a - Len(freeSlots) = b - Len(freeSlots)
        BY <2>5, <4>1, <4>2
      <4> QED BY <2>1, <2>3, <4>3
    <3>3. CASE a <= Len(freeSlots) /\ b > Len(freeSlots)
      <4>1. newFree[a] = freeSlots[a] /\ a \in 1 .. Len(freeSlots)
        BY <2>1, <2>2, <2>3, <3>3
      <4>2. newFree[b] = V[b - Len(freeSlots)]
            /\ b - Len(freeSlots) \in 1 .. Len(V)
        BY <2>1, <2>2, <2>3, <3>3
      <4> QED BY <2>4, <2>6, <4>1, <4>2
    <3>4. CASE a > Len(freeSlots) /\ b <= Len(freeSlots)
      <4>1. newFree[b] = freeSlots[b] /\ b \in 1 .. Len(freeSlots)
        BY <2>1, <2>2, <2>3, <3>4
      <4>2. newFree[a] = V[a - Len(freeSlots)]
            /\ a - Len(freeSlots) \in 1 .. Len(V)
        BY <2>1, <2>2, <2>3, <3>4
      <4> QED BY <2>4, <2>6, <4>1, <4>2
    <3> QED BY <2>1, <2>3, <3>1, <3>2, <3>3, <3>4
  <2>7. ToSet(newFree) = ToSet(freeSlots) \cup ToSet(V)
    <3>1. ASSUME NEW x \in ToSet(newFree)
          PROVE  x \in ToSet(freeSlots) \cup ToSet(V)
      <4>1. PICK i \in 1 .. Len(freeSlots) + Len(V) : x = newFree[i]
        BY <2>3 DEF ToSet
      <4>2. CASE i <= Len(freeSlots)
        <5>1. i \in 1 .. Len(freeSlots) /\ x = freeSlots[i]
          BY <2>1, <2>2, <2>3, <4>1, <4>2
        <5> QED BY <2>1, <5>1 DEF ToSet
      <4>3. CASE ~ (i <= Len(freeSlots))
        <5>1. i - Len(freeSlots) \in 1 .. Len(V) /\ x = V[i - Len(freeSlots)]
          BY <2>1, <2>2, <2>3, <4>1, <4>3
        <5> QED BY <1>3, <5>1 DEF ToSet
      <4> QED BY <4>2, <4>3
    <3>2. ASSUME NEW x \in ToSet(freeSlots) PROVE x \in ToSet(newFree)
      <4>1. PICK i \in 1 .. Len(freeSlots) : x = freeSlots[i]
        BY <2>1 DEF ToSet
      <4>2. i \in DOMAIN newFree /\ newFree[i] = x
        BY <2>1, <2>2, <2>3, <4>1
      <4> QED BY <4>2 DEF ToSet
    <3>3. ASSUME NEW x \in ToSet(V) PROVE x \in ToSet(newFree)
      <4>1. PICK j \in 1 .. Len(V) : x = V[j]
        BY <1>3 DEF ToSet
      <4>2. Len(freeSlots) + j \in DOMAIN newFree /\ newFree[Len(freeSlots) + j] = x
        BY <2>1, <2>2, <2>3, <4>1
      <4> QED BY <4>2 DEF ToSet
    <3> QED BY <3>1, <3>2, <3>3
  <2>8. IsInjective(newFree)
    BY <2>3, <2>6 DEF IsInjective
  <2> QED BY <2>2, <2>7, <2>8 DEF newFree
<1> HIDE DEF newFree
<1>9. newIndex \in [DOMAIN newIndex -> DOMAIN newTable] /\ DOMAIN newIndex = left
      /\ DOMAIN newIndex \subseteq Id
  BY <1>2, <1>7 DEF SlotsFit, Live
<1>10. \A n \in left : newTable[slotById[n]] = table[slotById[n]]
  BY <1>2, <1>5
<1>11. \A n \in left : newTable[newIndex[n]] # NoRecord /\ newTable[newIndex[n]].id = n
  BY <1>10 DEF SlotsFit, Live
<1>12. ASSUME NEW s \in DOMAIN newTable, newTable[s] # NoRecord
       PROVE  newTable[s].id \in left /\ newIndex[newTable[s].id] = s
  <2>1. s \in DOMAIN table /\ s \notin ToSet(V) /\ newTable[s] = table[s]
    BY <1>12
  <2>2. table[s].id \in Live /\ slotById[table[s].id] = s
    BY <1>12, <2>1 DEF SlotsFit, Live
  <2> QED BY <1>5, <2>1, <2>2
<1>13. ToSet(newFree) = {s \in DOMAIN newTable : newTable[s] = NoRecord}
  BY <1>6, <1>7, <1>8 DEF SlotsFit
<1>14. SlotsFit(newTable, newIndex, newFree)
  BY <1>7, <1>8, <1>9, <1>11, <1>12, <1>13 DEF SlotsFit
<1> QED BY <1>10, <1>14 DEF V, newFree

(* table with the record of p replaced by another, r, of the same identity.*)
RecordPut(table, index, p, r, t) ==
    /\ p \in DOMAIN index
    /\ r \in NodeRecord
    /\ r.id = p
    /\ t = [table EXCEPT ![index[p]] = r]

(* Replacing a live record keeps the table and every other record.         *)
LEMMA PutRecordKeepsSlots ==
  ASSUME NEW table, NEW index, NEW free, SlotsFit(table, index, free),
         NEW p, NEW r, NEW t, RecordPut(table, index, p, r, t)
  PROVE  /\ SlotsFit(t, index, free)
         /\ t[index[p]] = r
         /\ \A n \in DOMAIN index : n # p => t[index[n]] = table[index[n]]
         /\ Len(t) = Len(table)
<1> USE DEF RecordPut
<1>1. /\ index[p] \in DOMAIN table /\ table[index[p]] # NoRecord
      /\ table[index[p]].id = p
      /\ table \in Seq(NodeRecord \cup {NoRecord})
      /\ r # NoRecord
  BY NoRecordAssumption DEF SlotsFit
<1>2. /\ DOMAIN t = DOMAIN table
      /\ \A s \in DOMAIN table : t[s] = IF s = index[p] THEN r ELSE table[s]
  OBVIOUS
<1>3. t \in Seq(NodeRecord \cup {NoRecord}) /\ Len(t) = Len(table)
  BY <1>1, LenProperties
<1>4. IsEditOf(t, table)
  BY <1>1, <1>2, <1>3 DEF IsEditOf
<1>5. \A n \in DOMAIN index :
         t[index[n]] = IF n = p THEN r ELSE table[index[n]]
  <2>1. \A n \in DOMAIN index :
           index[n] \in DOMAIN table /\ (index[n] = index[p] => n = p)
    BY DEF SlotsFit
  <2> QED BY <1>2, <2>1
<1> QED BY <1>3, <1>4, <1>5, EditKeepsSlots

-----------------------------------------------------------------------------
(***************************************************************************)
(* What the edits of a hierarchy keep, for a hierarchy given by its parent *)
(* links (par) and the ordered sequence of each place (kids: of every node *)
(* and, under InvalidId, of the roots).                                    *)
(***************************************************************************)

IsForest(live, par, kids) ==
    /\ live \subseteq Id
    /\ par \in [live -> live \cup {InvalidId}]
    /\ \A p \in live \cup {InvalidId} :
          /\ kids[p] \in Seq(Id)
          /\ IsInjective(kids[p])
          /\ ToSet(kids[p]) = {m \in live : par[m] = p}
    /\ \A S \in SUBSET live : S # {} => \E n \in S : par[n] \notin S

(* A new leaf id under place p.                                            *)
LeafAdded(live, par, kids, id, p, par2, kids2) ==
    /\ id \in Id \ live
    /\ p \in live \cup {InvalidId}
    /\ par2 \in [live \cup {id} -> live \cup {id} \cup {InvalidId}]
    /\ par2[id] = p
    /\ \A n \in live : par2[n] = par[n]
    /\ kids2[p] \in Seq(Id)
    /\ IsInjective(kids2[p])
    /\ ToSet(kids2[p]) = ToSet(kids[p]) \cup {id}
    /\ kids2[id] = <<>>
    /\ \A q \in live \cup {InvalidId} : q # p => kids2[q] = kids[q]

(* Another order of the sequence of place p.                               *)
PlaceReordered(live, kids, p, kids2) ==
    /\ p \in live \cup {InvalidId}
    /\ kids2[p] \in Seq(Id)
    /\ IsInjective(kids2[p])
    /\ ToSet(kids2[p]) = ToSet(kids[p])
    /\ \A q \in live \cup {InvalidId} : q # p => kids2[q] = kids[q]

(* node leaves its place and joins another, q; A holds q and its ancestors *)
(* but not node.                                                           *)
NodeMoved(live, par, kids, node, q, A, par2, kids2) ==
    /\ node \in live
    /\ q \in live \cup {InvalidId}
    /\ q # par[node]
    /\ A \in SUBSET live
    /\ node \notin A
    /\ q \in A \cup {InvalidId}
    /\ \A a \in A : par[a] \in A \cup {InvalidId}
    /\ par2 \in [live -> live \cup {InvalidId}]
    /\ par2[node] = q
    /\ \A n \in live : n # node => par2[n] = par[n]
    /\ kids2[par[node]] \in Seq(Id)
    /\ IsInjective(kids2[par[node]])
    /\ ToSet(kids2[par[node]]) = ToSet(kids[par[node]]) \ {node}
    /\ kids2[q] \in Seq(Id)
    /\ IsInjective(kids2[q])
    /\ ToSet(kids2[q]) = ToSet(kids[q]) \cup {node}
    /\ \A p \in live \cup {InvalidId} :
          p # par[node] /\ p # q => kids2[p] = kids[p]

(* node and the set gone it belongs to leave; gone is closed under         *)
(* children, and all of it but node hangs from gone.                       *)
SubtreeGone(live, par, kids, node, gone, par2, kids2) ==
    /\ gone \in SUBSET live
    /\ node \in gone
    /\ \A m \in live : par[m] \in gone => m \in gone
    /\ \A m \in gone \ {node} : par[m] \in gone
    /\ par2 = [n \in live \ gone |-> par[n]]
    /\ \A p \in (live \ gone) \cup {InvalidId} :
          p # par[node] => kids2[p] = kids[p]
    /\ \A p \in (live \ gone) \cup {InvalidId} :
          p = par[node] => /\ kids2[p] \in Seq(Id)
                           /\ IsInjective(kids2[p])
                           /\ ToSet(kids2[p]) = ToSet(kids[p]) \ {node}

(* No identity is the invalid one.                                         *)
LEMMA InvalidIsNoId == InvalidId \notin Id
BY LimitsAssumption DEF Id

(* insert_root and insert_child keep the forest.                           *)
LEMMA AddLeafKeepsForest ==
  ASSUME NEW live, NEW par, NEW kids, IsForest(live, par, kids),
         NEW id, NEW p, NEW par2, NEW kids2,
         LeafAdded(live, par, kids, id, p, par2, kids2)
  PROVE  IsForest(live \cup {id}, par2, kids2)
<1> DEFINE live2 == live \cup {id}
<1> USE DEF LeafAdded
<1>1. live2 \subseteq Id /\ par2 \in [live2 -> live2 \cup {InvalidId}]
  BY DEF IsForest
<1>2. /\ par2[id] = p /\ p # id
      /\ \A n \in live : n # id /\ par2[n] = par[n] /\ par[n] # id
  BY InvalidIsNoId DEF IsForest
<1>3. ASSUME NEW q \in live2 \cup {InvalidId}
      PROVE  /\ kids2[q] \in Seq(Id)
             /\ IsInjective(kids2[q])
             /\ ToSet(kids2[q]) = {m \in live2 : par2[m] = q}
  <2>1. CASE q = p
    <3>1. {m \in live2 : par2[m] = q} = {m \in live : par[m] = p} \cup {id}
      BY <1>2, <2>1
    <3> QED BY <2>1, <3>1 DEF IsForest
  <2>2. CASE q = id
    <3>1. kids2[q] = <<>>
      BY <2>2
    <3>2. {m \in live2 : par2[m] = q} = {}
      BY <1>2, <2>2
    <3>3. <<>> \in Seq(Id) /\ IsInjective(<<>>) /\ ToSet(<<>>) = {}
      BY DEF IsInjective, ToSet
    <3> QED BY <2>2, <3>1, <3>2, <3>3
  <2>3. CASE q # p /\ q # id
    <3>1. kids2[q] = kids[q] /\ q \in live \cup {InvalidId}
      BY <2>3
    <3>2. {m \in live2 : par2[m] = q} = {m \in live : par[m] = q}
      BY <1>2, <2>3
    <3> QED BY <3>1, <3>2 DEF IsForest
  <2> QED BY <2>1, <2>2, <2>3
<1>4. ASSUME NEW S \in SUBSET live2, S # {}
      PROVE  \E n \in S : par2[n] \notin S
  <2>1. CASE S \ {id} = {}
    BY <1>2, <1>4, <2>1
  <2>2. CASE S \ {id} # {}
    <3>1. PICK n \in S \ {id} : par[n] \notin S \ {id}
      BY <2>2 DEF IsForest
    <3> QED BY <1>2, <3>1
  <2> QED BY <2>1, <2>2
<1> QED BY <1>1, <1>3, <1>4 DEF IsForest

(* A move within one sequence keeps the forest.                            *)
LEMMA ReorderKeepsForest ==
  ASSUME NEW live, NEW par, NEW kids, IsForest(live, par, kids),
         NEW p, NEW kids2, PlaceReordered(live, kids, p, kids2)
  PROVE  IsForest(live, par, kids2)
BY DEF IsForest, PlaceReordered

(* A move to another sequence keeps the forest.                            *)
LEMMA MoveKeepsForest ==
  ASSUME NEW live, NEW par, NEW kids, IsForest(live, par, kids),
         NEW node, NEW q, NEW A, NEW par2, NEW kids2,
         NodeMoved(live, par, kids, node, q, A, par2, kids2)
  PROVE  IsForest(live, par2, kids2)
<1> USE DEF NodeMoved
<1>1. par2 \in [live -> live \cup {InvalidId}]
  OBVIOUS
<1>2. par2[node] = q /\ \A n \in live : n # node => par2[n] = par[n]
  OBVIOUS
<1>3. ASSUME NEW p \in live \cup {InvalidId}
      PROVE  /\ kids2[p] \in Seq(Id)
             /\ IsInjective(kids2[p])
             /\ ToSet(kids2[p]) = {m \in live : par2[m] = p}
  <2>1. ToSet(kids[p]) = {m \in live : par[m] = p}
    BY DEF IsForest
  <2>2. CASE p = par[node]
    <3>1. {m \in live : par2[m] = p} = {m \in live : par[m] = p} \ {node}
      BY <1>2, <2>2
    <3> QED BY <2>1, <2>2, <3>1
  <2>3. CASE p = q
    <3>1. {m \in live : par2[m] = p} = {m \in live : par[m] = p} \cup {node}
      BY <1>2, <2>3
    <3> QED BY <2>1, <2>3, <3>1
  <2>4. CASE p # par[node] /\ p # q
    <3>1. kids2[p] = kids[p]
      BY <2>4
    <3>2. {m \in live : par2[m] = p} = {m \in live : par[m] = p}
      BY <1>2, <2>4
    <3> QED BY <3>1, <3>2 DEF IsForest
  <2> QED BY <2>2, <2>3, <2>4
<1>4. ASSUME NEW S \in SUBSET live, S # {}
      PROVE  \E n \in S : par2[n] \notin S
  <2>0. InvalidId \notin S
    BY InvalidIsNoId DEF IsForest
  <2>1. CASE S \cap A # {}
    <3>1. PICK n \in S \cap A : par[n] \notin S \cap A
      BY <2>1 DEF IsForest
    <3> QED BY <1>2, <2>0, <3>1
  <2>2. CASE S \cap A = {}
    <3>1. PICK n \in S : par[n] \notin S
      BY <1>4 DEF IsForest
    <3>2. q \notin S
      BY <2>0, <2>2
    <3> QED BY <1>2, <3>1, <3>2
  <2> QED BY <2>1, <2>2
<1> QED BY <1>1, <1>3, <1>4 DEF IsForest

(* Erasing a subtree keeps the forest.                                     *)
LEMMA EraseKeepsForest ==
  ASSUME NEW live, NEW par, NEW kids, IsForest(live, par, kids),
         NEW node, NEW gone, NEW par2, NEW kids2,
         SubtreeGone(live, par, kids, node, gone, par2, kids2)
  PROVE  IsForest(live \ gone, par2, kids2)
<1> DEFINE left == live \ gone
<1> USE DEF SubtreeGone
<1>0. \A n \in left : par[n] \in left \cup {InvalidId}
  BY DEF IsForest
<1>1. /\ par2 \in [left -> left \cup {InvalidId}] /\ left \subseteq Id
      /\ \A n \in left : par2[n] = par[n]
  BY <1>0 DEF IsForest
<1>2. ASSUME NEW p \in left \cup {InvalidId}
      PROVE  /\ kids2[p] \in Seq(Id)
             /\ IsInjective(kids2[p])
             /\ ToSet(kids2[p]) = {m \in left : par2[m] = p}
  <2>0. p \notin gone
    BY InvalidIsNoId DEF IsForest
  <2>1. ToSet(kids[p]) = {m \in live : par[m] = p}
    BY DEF IsForest
  <2>2. CASE p = par[node]
    <3>1. {m \in left : par2[m] = p} = {m \in live : par[m] = p} \ {node}
      BY <1>1, <2>0, <2>2
    <3>2. /\ kids2[p] \in Seq(Id)
          /\ IsInjective(kids2[p])
          /\ ToSet(kids2[p]) = ToSet(kids[p]) \ {node}
      BY <2>2
    <3> QED BY <2>1, <3>1, <3>2
  <2>3. CASE p # par[node]
    <3>1. kids2[p] = kids[p]
      BY <2>3
    <3>2. {m \in left : par2[m] = p} = {m \in live : par[m] = p}
      BY <1>1, <2>0, <2>3
    <3> QED BY <3>1, <3>2 DEF IsForest
  <2> QED BY <2>2, <2>3
<1>3. ASSUME NEW S \in SUBSET left, S # {}
      PROVE  \E n \in S : par2[n] \notin S
  BY <1>1, <1>3 DEF IsForest
<1> QED BY <1>1, <1>2, <1>3 DEF IsForest

-----------------------------------------------------------------------------
(***************************************************************************)
(* What the two walks over the hierarchy compute: would_create_cycle's way *)
(* up and erase_subtree's worklist.  Both are bounded by node_count(); the *)
(* lemmas show that the bound is enough.                                   *)
(***************************************************************************)

ParentOf == [n \in Live |-> Parent(n)]

(* What the walks need of the tree: the index leads to records, and these  *)
(* form a forest.                                                          *)
WalkableTree ==
    /\ \A n \in Live : Known(n)
    /\ IsForest(Live, ParentOf, KidsOf)

(* node_count(), the bound of the hierarchy walks, is a natural number: the
   index holds finitely many identities, all of them below the invalid one. *)
LEMMA NodeCountIsNatural ==
  ASSUME Live \subseteq Id
  PROVE  IsFiniteSet(Live) /\ NodeCount \in Nat
<1>1. IsFiniteSet(Id)
  BY LimitsAssumption, FS_Interval DEF Id
<1> QED BY <1>1, FS_Subset, FS_CardinalityType DEF NodeCount

(* The walk up from a node is a function of the rounds, however many.      *)
LEMMA WalkUpExists ==
  ASSUME NEW start
  PROVE  \A k \in Nat : \E w :
            w = [i \in 0 .. k |->
                   IF i = 0 THEN start
                   ELSE IF Known(w[i - 1]) THEN Parent(w[i - 1])
                   ELSE InvalidId]
<1> DEFINE Rounds(w, k) == [i \in 0 .. k |->
                   IF i = 0 THEN start
                   ELSE IF Known(w[i - 1]) THEN Parent(w[i - 1])
                   ELSE InvalidId]
           T == {k \in Nat : \E w : w = Rounds(w, k)}
<1>1. 0 \in T
  <2>1. [i \in 0 .. 0 |-> start] = Rounds([i \in 0 .. 0 |-> start], 0)
    OBVIOUS
  <2> QED BY <2>1
<1>2. ASSUME NEW k \in T PROVE k + 1 \in T
  <2>1. k \in Nat
    OBVIOUS
  <2>2. PICK w : w = Rounds(w, k)
    OBVIOUS
  <2> DEFINE next == IF Known(w[k]) THEN Parent(w[k]) ELSE InvalidId
             v == [i \in 0 .. k + 1 |-> IF i <= k THEN w[i] ELSE next]
  <2>3. \A i \in 0 .. k : v[i] = w[i]
    BY <2>1
  <2>4. \A i \in 0 .. k : w[i] = IF i = 0 THEN start
                   ELSE IF Known(w[i - 1]) THEN Parent(w[i - 1])
                   ELSE InvalidId
    BY <2>1, <2>2
  <2>5. v[k + 1] = next
    BY <2>1
  <2> HIDE DEF v
  <2>6. \A i \in 0 .. k + 1 : v[i] = IF i = 0 THEN start
                   ELSE IF Known(v[i - 1]) THEN Parent(v[i - 1])
                   ELSE InvalidId
    <3>1. ASSUME NEW i \in 0 .. k
          PROVE  v[i] = IF i = 0 THEN start
                   ELSE IF Known(v[i - 1]) THEN Parent(v[i - 1])
                   ELSE InvalidId
      <4>1. i = 0 \/ i - 1 \in 0 .. k
        BY <2>1
      <4> QED BY <2>3, <2>4, <4>1
    <3>2. v[k] = w[k] /\ k + 1 # 0 /\ (k + 1) - 1 = k
      BY <2>1, <2>3
    <3>3. \A i \in 0 .. k + 1 : i \in 0 .. k \/ i = k + 1
      BY <2>1
    <3> QED BY <2>5, <3>1, <3>2, <3>3
  <2>7. v = Rounds(v, k + 1)
    <3>1. v = [i \in 0 .. k + 1 |-> v[i]]
      BY DEF v
    <3> QED BY <2>6, <3>1
  <2> QED BY <2>1, <2>7
<1> HIDE DEF Rounds
<1>3. T = Nat
  <2> HIDE DEF T
  <2>1. T \in SUBSET Nat
    BY DEF T
  <2> QED BY <1>1, <1>2, <2>1, NatSetInduction
<1> QED BY <1>3 DEF Rounds

(* up holds what current is after each round of would_create_cycle's walk  *)
(* from p.                                                                 *)
WalksUp(p, up) ==
    /\ up[0] = p
    /\ \A i \in 0 .. NodeCount : up[i] \in Live \cup {InvalidId}
    /\ \A i \in 0 .. NodeCount : i # 0 =>
          up[i] = IF up[i - 1] \in Live THEN ParentOf[up[i - 1]] ELSE InvalidId

(* would_create_cycle reports what its walk found.                         *)
LEMMA CycleCheckWalks ==
  ASSUME WalkableTree, NEW p \in Live
  PROVE  \E up :
            /\ WalksUp(p, up)
            /\ \A node : WouldCreateCycle(node, p) <=>
                  \/ \E i \in 0 .. NodeCount : up[i] = node
                  \/ up[NodeCount] # InvalidId
<1> DEFINE Body(w, i) == IF i = 0 THEN p
                         ELSE IF Known(w[i - 1]) THEN Parent(w[i - 1])
                         ELSE InvalidId
           up == CHOOSE w : w = [i \in 0 .. NodeCount |-> Body(w, i)]
<1>0. NodeCount \in Nat
  BY NodeCountIsNatural DEF WalkableTree, IsForest
<1>1. up = [i \in 0 .. NodeCount |-> Body(up, i)]
  <2>1. \E w : w = [i \in 0 .. NodeCount |-> Body(w, i)]
    <3>1. \A k \in Nat : \E w : w = [i \in 0 .. k |-> Body(w, i)]
      BY WalkUpExists, Zenon
    <3> HIDE DEF Body
    <3> QED BY <1>0, <3>1, Zenon
  <2> QED BY <2>1
<1>2. \A node : WouldCreateCycle(node, p) <=>
         \/ \E i \in 0 .. NodeCount : up[i] = node
         \/ up[NodeCount] # InvalidId
  BY DEF WouldCreateCycle
<1> HIDE DEF up
<1>3. /\ up[0] = p
      /\ \A i \in 0 .. NodeCount : i # 0 =>
            up[i] = IF Known(up[i - 1]) THEN Parent(up[i - 1]) ELSE InvalidId
  BY <1>0, <1>1
<1>4. \A n \in Live : Parent(n) \in Live \cup {InvalidId} /\ Known(n)
                      /\ ParentOf[n] = Parent(n)
  BY DEF WalkableTree, IsForest, ParentOf
<1>5. \A i \in 0 .. NodeCount : up[i] \in Live \cup {InvalidId}
  <2> DEFINE T == {i \in Nat : i <= NodeCount => up[i] \in Live \cup {InvalidId}}
  <2>1. 0 \in T
    BY <1>3
  <2>2. ASSUME NEW i \in T PROVE i + 1 \in T
    <3>1. SUFFICES ASSUME i + 1 <= NodeCount
                   PROVE  up[i + 1] \in Live \cup {InvalidId}
      OBVIOUS
    <3>2. i + 1 \in 0 .. NodeCount /\ i + 1 # 0 /\ (i + 1) - 1 = i
          /\ up[i] \in Live \cup {InvalidId}
      BY <1>0, <3>1
    <3>3. up[i + 1] = IF Known(up[i]) THEN Parent(up[i]) ELSE InvalidId
      BY <1>3, <3>2
    <3>4. ~ Known(InvalidId)
      BY InvalidIsNoId DEF Known, FindRecord, WalkableTree, IsForest
    <3> QED BY <1>4, <3>2, <3>3, <3>4
  <2> HIDE DEF T
  <2>3. T \in SUBSET Nat
    BY DEF T
  <2>4. T = Nat
    BY <2>1, <2>2, <2>3, NatSetInduction
  <2> QED BY <1>0, <2>4 DEF T
<1>6. \A i \in 0 .. NodeCount : i # 0 =>
         up[i] = IF up[i - 1] \in Live THEN ParentOf[up[i - 1]] ELSE InvalidId
  <2>1. \A n : Known(n) <=> n \in Live
    BY <1>4 DEF Known, FindRecord
  <2> QED BY <1>3, <1>4, <2>1
<1> QED BY <1>2, <1>3, <1>5, <1>6 DEF WalksUp

(* The walk of node_count() rounds reaches the top: it passes no node      *)
(* twice, or the nodes between would have no way out, and there are no     *)
(* more nodes than rounds.                                                 *)
LEMMA WalkReachesTop ==
  ASSUME WalkableTree, NEW p \in Live, NEW up, WalksUp(p, up)
  PROVE  up[NodeCount] = InvalidId
<1>0. NodeCount \in Nat /\ IsFiniteSet(Live) /\ InvalidId \notin Live
  BY NodeCountIsNatural, InvalidIsNoId DEF WalkableTree, IsForest
<1>1. SUFFICES ASSUME up[NodeCount] # InvalidId PROVE FALSE
  OBVIOUS
<1>2. ASSUME NEW i \in 0 .. NodeCount, i # 0, up[i] \in Live
      PROVE  up[i - 1] \in Live /\ up[i] = ParentOf[up[i - 1]]
  BY <1>0, <1>2 DEF WalksUp
<1>3. \A i \in 0 .. NodeCount : up[NodeCount - i] \in Live
  <2> DEFINE T == {i \in 0 .. NodeCount : up[NodeCount - i] \in Live}
  <2>1. 0 \in T
    BY <1>0, <1>1 DEF WalksUp
  <2>2. ASSUME NEW i \in 1 .. NodeCount, i - 1 \in T PROVE i \in T
    <3>1. /\ NodeCount - (i - 1) \in 0 .. NodeCount
          /\ NodeCount - (i - 1) # 0
          /\ (NodeCount - (i - 1)) - 1 = NodeCount - i
          /\ i \in 0 .. NodeCount
      BY <1>0
    <3> QED BY <1>2, <2>2, <3>1
  <2> HIDE DEF T
  <2>3. \A i \in 0 .. NodeCount : i \in T
    BY <1>0, <2>1, <2>2, RoundInduction
  <2> QED BY <2>3 DEF T
<1>4. \A i \in 0 .. NodeCount : up[i] \in Live
  <2>1. \A i \in 0 .. NodeCount :
           NodeCount - i \in 0 .. NodeCount /\ NodeCount - (NodeCount - i) = i
    BY <1>0
  <2> QED BY <1>3, <2>1
<1>5. ASSUME NEW i \in 0 .. NodeCount, NEW j \in 0 .. NodeCount, i < j
      PROVE  up[i] # up[j]
  <2> DEFINE T == {up[k] : k \in i .. j - 1}
  <2>1. SUFFICES ASSUME up[i] = up[j] PROVE FALSE
    OBVIOUS
  <2>2. T \in SUBSET Live /\ T # {}
    BY <1>0, <1>4, <1>5
  <2>3. ASSUME NEW n \in T PROVE ParentOf[n] \in T
    <3>1. PICK k \in i .. j - 1 : n = up[k]
      OBVIOUS
    <3>2. k + 1 \in 0 .. NodeCount /\ k + 1 # 0 /\ (k + 1) - 1 = k
      BY <1>0, <1>5
    <3>3. ParentOf[n] = up[k + 1]
      BY <1>2, <1>4, <3>1, <3>2
    <3>4. CASE k + 1 = j
      BY <1>5, <2>1, <3>3, <3>4
    <3>5. CASE k + 1 # j
      BY <1>0, <1>5, <3>3, <3>5
    <3> QED BY <3>4, <3>5
  <2> HIDE DEF T
  <2> QED BY <2>2, <2>3 DEF WalkableTree, IsForest
<1> DEFINE s == [i \in 1 .. NodeCount + 1 |-> up[i - 1]]
<1>6. s \in Seq(Live) /\ Len(s) = NodeCount + 1
  BY <1>0, <1>4
<1>7. IsInjective(s)
  <2>1. ASSUME NEW a \in 1 .. NodeCount + 1, NEW b \in 1 .. NodeCount + 1,
               a < b
        PROVE  s[a] # s[b]
    BY <1>0, <1>5, <2>1
  <2>2. DOMAIN s = 1 .. NodeCount + 1
    OBVIOUS
  <2> HIDE DEF s
  <2> QED BY <1>0, <2>1, <2>2 DEF IsInjective
<1> HIDE DEF s
<1>8. Len(s) <= Cardinality(Live)
  BY <1>0, <1>6, <1>7, InjectiveLength
<1> QED BY <1>0, <1>6, <1>8 DEF NodeCount

(* If would_create_cycle lets the move pass, its walk has seen every       *)
(* ancestor of the proposed parent and node is not among them.             *)
LEMMA AncestorsAvoidNode ==
  ASSUME WalkableTree, NEW p \in Live, NEW node,
         ~ WouldCreateCycle(node, p)
  PROVE  \E A \in SUBSET Live :
            /\ node \notin A
            /\ p \in A
            /\ \A a \in A : ParentOf[a] \in A \cup {InvalidId}
<1>1. PICK up :
         /\ WalksUp(p, up)
         /\ \A i \in 0 .. NodeCount : up[i] # node
         /\ up[NodeCount] = InvalidId
  BY CycleCheckWalks
<1>2. NodeCount \in Nat /\ InvalidId \notin Live
  BY NodeCountIsNatural, InvalidIsNoId DEF WalkableTree, IsForest
<1> DEFINE A == {up[i] : i \in 0 .. NodeCount} \ {InvalidId}
<1>3. A \in SUBSET Live /\ node \notin A
  BY <1>1 DEF WalksUp
<1>4. p \in A
  BY <1>1, <1>2 DEF WalksUp
<1>5. ASSUME NEW a \in A PROVE ParentOf[a] \in A \cup {InvalidId}
  <2>1. PICK i \in 0 .. NodeCount : a = up[i] /\ up[i] # InvalidId
    OBVIOUS
  <2>2. i + 1 \in 0 .. NodeCount /\ i + 1 # 0 /\ (i + 1) - 1 = i
    BY <1>1, <1>2, <2>1
  <2>3. up[i + 1] = ParentOf[a]
    BY <1>1, <1>3, <2>1, <2>2 DEF WalksUp
  <2> QED BY <2>2, <2>3
<1> HIDE DEF A
<1> QED BY <1>3, <1>4, <1>5

(* The worklist b after i rounds: distinct identities from node on, the    *)
(* sequences of the first i already appended, every other member appended  *)
(* as a child of one of those.                                             *)
WorklistOK(node, b, i) ==
    /\ b \in Seq(Live)
    /\ Len(b) >= 1
    /\ b[1] = node
    /\ IsInjective(b)
    /\ \A j \in 1 .. Len(b) : j <= i => ToSet(KidsOf[b[j]]) \subseteq ToSet(b)
    /\ \A k \in 1 .. Len(b) : k # 1 =>
          \E j \in 1 .. Len(b) : j <= i /\ ParentOf[b[k]] = b[j]

(* In a tree no node is its own descendant: the parent of the node the     *)
(* walk started from is never reached.                                     *)
LEMMA WorklistSkipsParent ==
  ASSUME WalkableTree, NEW node, NEW i, NEW b, WorklistOK(node, b, i)
  PROVE  ParentOf[node] \notin ToSet(b)
<1>1. SUFFICES ASSUME ParentOf[node] \in ToSet(b) PROVE FALSE
  OBVIOUS
<1>2. DOMAIN b = 1 .. Len(b) /\ Len(b) \in Nat /\ ToSet(b) \in SUBSET Live
      /\ node \in ToSet(b)
  BY LenProperties DEF WorklistOK, ToSet
<1>3. ASSUME NEW m \in ToSet(b) PROVE ParentOf[m] \in ToSet(b)
  <2>1. PICK k \in 1 .. Len(b) : m = b[k]
    BY <1>2 DEF ToSet
  <2>2. CASE k = 1
    BY <1>1, <2>1, <2>2 DEF WorklistOK
  <2>3. CASE k # 1
    <3>1. PICK j \in 1 .. Len(b) : ParentOf[b[k]] = b[j]
      BY <2>3 DEF WorklistOK
    <3> QED BY <1>2, <2>1, <3>1 DEF ToSet
  <2> QED BY <2>2, <2>3
<1> QED BY <1>2, <1>3 DEF WalkableTree, IsForest

(* One round of the worklist.                                              *)
LEMMA WorklistRound ==
  ASSUME WalkableTree, NEW node, NEW i \in Nat, NEW b, WorklistOK(node, b, i)
  PROVE  WorklistOK(node,
             IF i + 1 <= Len(b) THEN b \o Children(b[i + 1]) ELSE b, i + 1)
<1>1. /\ b \in Seq(Live) /\ Len(b) \in Nat /\ DOMAIN b = 1 .. Len(b)
      /\ \A k \in 1 .. Len(b) : b[k] \in Live
      /\ \A j, k \in 1 .. Len(b) : b[j] = b[k] => j = k
  <2>1. b \in Seq(Live) /\ IsInjective(b)
    BY DEF WorklistOK
  <2> QED BY <2>1, LenProperties, ElementOfSeq DEF IsInjective
<1>2. CASE ~ (i + 1 <= Len(b))
  <2>1. \A j \in 1 .. Len(b) : j <= i + 1 => j <= i
    BY <1>1, <1>2
  <2>2. \A j \in 1 .. Len(b) : j <= i => j <= i + 1
    BY <1>1
  <2> QED BY <1>2, <2>1, <2>2 DEF WorklistOK
<1>3. CASE i + 1 <= Len(b)
  <2> DEFINE n == b[i + 1]
             c == Children(n)
             d == b \o c
  <2>1. i + 1 \in 1 .. Len(b) /\ n \in Live
    BY <1>1, <1>3
  <2>2. /\ c = KidsOf[n] /\ IsInjective(c) /\ c \in Seq(Id)
        /\ ToSet(c) = {m \in Live : ParentOf[m] = n}
    <3>1. n # InvalidId
      BY <2>1, InvalidIsNoId DEF WalkableTree, IsForest
    <3>2. c = KidsOf[n]
      BY <2>1, <3>1 DEF KidsOf, Sequence
    <3> QED BY <2>1, <3>2 DEF WalkableTree, IsForest
  <2> HIDE DEF n, c
  <2>3. /\ Len(c) \in Nat /\ DOMAIN c = 1 .. Len(c)
        /\ c \in Seq(Live)
        /\ \A j \in 1 .. Len(c) : c[j] \in Live /\ ParentOf[c[j]] = n
        /\ \A j, k \in 1 .. Len(c) : c[j] = c[k] => j = k
    <3>1. Len(c) \in Nat /\ DOMAIN c = 1 .. Len(c)
      BY <2>2, LenProperties
    <3>2. \A j \in 1 .. Len(c) : c[j] \in ToSet(c)
      BY <3>1 DEF ToSet
    <3>3. c \in [1 .. Len(c) -> Live]
      BY <2>2, <3>1, <3>2, LenProperties
    <3>4. c \in Seq(Live)
      BY <3>1, <3>3, SeqDef
    <3> QED BY <2>2, <3>1, <3>2, <3>4 DEF IsInjective
  <2>4. /\ d \in Seq(Live)
        /\ Len(d) = Len(b) + Len(c)
        /\ \A k \in 1 .. Len(b) + Len(c) :
              d[k] = IF k <= Len(b) THEN b[k] ELSE c[k - Len(b)]
    BY <1>1, <2>3, ConcatProperties
  <2> HIDE DEF d
  <2>5. /\ DOMAIN d = 1 .. Len(b) + Len(c)
        /\ \A k \in 1 .. Len(b) : k \in DOMAIN d /\ d[k] = b[k]
        /\ \A j \in 1 .. Len(c) : Len(b) + j \in DOMAIN d /\ d[Len(b) + j] = c[j]
        /\ \A k \in DOMAIN d :
              \/ k \in 1 .. Len(b)
              \/ k - Len(b) \in 1 .. Len(c) /\ d[k] = c[k - Len(b)]
    <3>1. DOMAIN d = 1 .. Len(b) + Len(c)
      BY <2>4, LenProperties
    <3>2. \A k \in 1 .. Len(b) : k \in 1 .. Len(b) + Len(c) /\ k <= Len(b)
      BY <1>1, <2>3
    <3>3. \A j \in 1 .. Len(c) :
             /\ Len(b) + j \in 1 .. Len(b) + Len(c)
             /\ ~ (Len(b) + j <= Len(b))
             /\ (Len(b) + j) - Len(b) = j
      BY <1>1, <2>3
    <3>4. \A k \in 1 .. Len(b) + Len(c) : ~ (k <= Len(b)) =>
             k - Len(b) \in 1 .. Len(c)
      BY <1>1, <2>3
    <3>5. \A k \in 1 .. Len(b) + Len(c) : k <= Len(b) => k \in 1 .. Len(b)
      BY <1>1, <2>3
    <3>6. \A k \in 1 .. Len(b) : k \in DOMAIN d /\ d[k] = b[k]
      BY <2>4, <3>1, <3>2
    <3>7. \A j \in 1 .. Len(c) : Len(b) + j \in DOMAIN d /\ d[Len(b) + j] = c[j]
      BY <2>4, <3>1, <3>3
    <3>8. ASSUME NEW k \in DOMAIN d, ~ (k \in 1 .. Len(b))
          PROVE  k - Len(b) \in 1 .. Len(c) /\ d[k] = c[k - Len(b)]
      BY <2>4, <3>1, <3>4, <3>5, <3>8
    <3> QED BY <3>1, <3>6, <3>7, <3>8
  <2>6. ToSet(b) \subseteq ToSet(d) /\ ToSet(c) \subseteq ToSet(d)
    <3>1. ASSUME NEW x \in ToSet(b) PROVE x \in ToSet(d)
      <4>1. PICK k \in 1 .. Len(b) : x = b[k]
        BY <1>1 DEF ToSet
      <4>2. k \in DOMAIN d /\ d[k] = x
        BY <2>5, <4>1
      <4> QED BY <4>2 DEF ToSet
    <3>2. ASSUME NEW x \in ToSet(c) PROVE x \in ToSet(d)
      <4>1. PICK j \in 1 .. Len(c) : x = c[j]
        BY <2>3 DEF ToSet
      <4>2. Len(b) + j \in DOMAIN d /\ d[Len(b) + j] = x
        BY <2>5, <4>1
      <4> QED BY <4>2 DEF ToSet
    <3> QED BY <3>1, <3>2
  <2>7. \A j \in 1 .. Len(b), k \in 1 .. Len(c) : b[j] # c[k]
    <3>1. SUFFICES ASSUME NEW j \in 1 .. Len(b), NEW k \in 1 .. Len(c), b[j] = c[k]
                   PROVE  FALSE
      OBVIOUS
    <3>2. ParentOf[b[j]] = n
      BY <2>3, <3>1
    <3>3. CASE j = 1
      <4>1. n \in ToSet(b)
        BY <1>1, <2>1 DEF ToSet, n
      <4> QED BY <3>2, <3>3, <4>1, WorklistSkipsParent DEF WorklistOK
    <3>4. CASE j # 1
      <4>1. PICK m \in 1 .. Len(b) : m <= i /\ ParentOf[b[j]] = b[m]
        BY <3>4 DEF WorklistOK
      <4>2. m = i + 1
        BY <1>1, <2>1, <3>2, <4>1 DEF n
      <4> QED BY <4>1, <4>2
    <3> QED BY <3>3, <3>4
  <2>8. IsInjective(d)
    <3>1. ASSUME NEW x \in DOMAIN d, NEW y \in DOMAIN d, d[x] = d[y]
          PROVE  x = y
      <4>1. CASE x \in 1 .. Len(b) /\ y \in 1 .. Len(b)
        BY <1>1, <2>5, <3>1, <4>1
      <4>2. CASE x \in 1 .. Len(b) /\ y \notin 1 .. Len(b)
        BY <2>5, <2>7, <3>1, <4>2
      <4>3. CASE x \notin 1 .. Len(b) /\ y \in 1 .. Len(b)
        BY <2>5, <2>7, <3>1, <4>3
      <4>4. CASE x \notin 1 .. Len(b) /\ y \notin 1 .. Len(b)
        <5>1. x - Len(b) = y - Len(b)
          BY <2>3, <2>5, <3>1, <4>4
        <5>2. x \in Int /\ y \in Int
          BY <2>5, <2>3, <1>1
        <5> QED BY <1>1, <5>1, <5>2
      <4> QED BY <4>1, <4>2, <4>3, <4>4
    <3> QED BY <3>1 DEF IsInjective
  <2>9. ASSUME NEW j \in DOMAIN d, j <= i + 1
        PROVE  ToSet(KidsOf[d[j]]) \subseteq ToSet(d)
    <3>1. j \in 1 .. Len(b) /\ d[j] = b[j]
      BY <1>1, <1>3, <2>5, <2>9
    <3>2. CASE j = i + 1
      BY <2>2, <2>6, <3>1, <3>2 DEF n
    <3>3. CASE j # i + 1
      <4>1. j <= i
        BY <2>9, <3>1, <3>3
      <4>2. ToSet(KidsOf[b[j]]) \subseteq ToSet(b)
        BY <3>1, <4>1 DEF WorklistOK
      <4> QED BY <2>6, <3>1, <4>2
    <3> QED BY <3>2, <3>3
  <2>10. ASSUME NEW k \in DOMAIN d, k # 1
         PROVE  \E j \in DOMAIN d : j <= i + 1 /\ ParentOf[d[k]] = d[j]
    <3>1. CASE k \in 1 .. Len(b)
      <4>1. PICK j \in 1 .. Len(b) : j <= i /\ ParentOf[b[k]] = b[j]
        BY <2>10, <3>1 DEF WorklistOK
      <4> QED BY <2>5, <3>1, <4>1
    <3>2. CASE k \notin 1 .. Len(b)
      <4>1. ParentOf[d[k]] = n
        BY <2>3, <2>5, <3>2
      <4> QED BY <2>1, <2>5, <4>1 DEF n
    <3> QED BY <3>1, <3>2
  <2>11. Len(d) >= 1 /\ d[1] = node /\ DOMAIN d = 1 .. Len(d)
    BY <1>1, <2>1, <2>3, <2>4, <2>5 DEF WorklistOK
  <2>12. WorklistOK(node, d, i + 1)
    BY <2>4, <2>8, <2>9, <2>10, <2>11 DEF WorklistOK
  <2> QED BY <1>3, <2>12 DEF d, c, n
<1> QED BY <1>2, <1>3

(* The worklist is a function of the rounds, however many, and good after  *)
(* each of them.                                                           *)
LEMMA WorklistExists ==
  ASSUME WalkableTree, NEW node \in Live
  PROVE  \A k \in Nat : \E w :
            /\ w = [i \in 0 .. k |->
                      IF i = 0 THEN <<node>>
                      ELSE LET before == w[i - 1]
                           IN  IF i <= Len(before)
                               THEN before \o Children(before[i])
                               ELSE before]
<1> DEFINE Grown(b, i) == IF i <= Len(b) THEN b \o Children(b[i]) ELSE b
           Body(w, i) == IF i = 0 THEN <<node>> ELSE Grown(w[i - 1], i)
           T == {k \in Nat : \E w : w = [i \in 0 .. k |-> Body(w, i)]}
<1>1. 0 \in T
  <2> DEFINE v == [i \in 0 .. 0 |-> <<node>>]
  <2>1. v = [i \in 0 .. 0 |-> Body(v, i)]
    OBVIOUS
  <2> HIDE DEF v, Body
  <2> QED BY <2>1
<1>2. ASSUME NEW k \in T PROVE k + 1 \in T
  <2> HIDE DEF Grown
  <2>1. k \in Nat
    OBVIOUS
  <2>2. PICK w : w = [i \in 0 .. k |-> Body(w, i)]
    OBVIOUS
  <2> DEFINE v == [i \in 0 .. k + 1 |-> IF i <= k THEN w[i]
                                        ELSE Grown(w[k], k + 1)]
  <2>3. \A i \in 0 .. k : v[i] = w[i] /\ w[i] = Body(w, i)
    <3>1. \A i \in 0 .. k : v[i] = w[i]
      BY <2>1
    <3>2. \A i \in 0 .. k : w[i] = Body(w, i)
      <4> HIDE DEF Body
      <4> QED BY <2>2
    <3> QED BY <3>1, <3>2
  <2>4. v[k + 1] = Grown(w[k], k + 1) /\ v = [i \in 0 .. k + 1 |-> v[i]]
    BY <2>1
  <2> HIDE DEF v
  <2>5. \A i \in 0 .. k + 1 : v[i] = Body(v, i)
    <3>1. ASSUME NEW i \in 0 .. k PROVE v[i] = Body(v, i)
      <4>1. i = 0 \/ i - 1 \in 0 .. k
        BY <2>1
      <4> QED BY <2>3, <4>1
    <3>2. v[k] = w[k] /\ k + 1 # 0 /\ (k + 1) - 1 = k
      BY <2>1, <2>3
    <3>3. \A i \in 0 .. k + 1 : i \in 0 .. k \/ i = k + 1
      BY <2>1
    <3> QED BY <2>4, <3>1, <3>2, <3>3
  <2>6. v = [i \in 0 .. k + 1 |-> Body(v, i)]
    <3> HIDE DEF Body
    <3> QED BY <2>4, <2>5
  <2> HIDE DEF Body
  <2> QED BY <2>1, <2>6
<1>3. \A k \in Nat : \E w : w = [i \in 0 .. k |-> Body(w, i)]
  <2> HIDE DEF Body
  <2>1. T \in SUBSET Nat
    OBVIOUS
  <2> HIDE DEF T
  <2>2. T = Nat
    BY <1>1, <1>2, <2>1, NatSetInduction
  <2> QED BY <2>2 DEF T
<1> QED BY <1>3

(* erase_subtree's worklist ends with the subtree of node: node, once, and *)
(* with every member all its children, and nothing else.                   *)
LEMMA RemovedIsSubtree ==
  ASSUME WalkableTree, NEW node \in Live
  PROVE  /\ RemovedNodes(node) \in Seq(Live)
         /\ IsInjective(RemovedNodes(node))
         /\ node \in ToSet(RemovedNodes(node))
         /\ \A m \in Live :
               ParentOf[m] \in ToSet(RemovedNodes(node)) =>
                   m \in ToSet(RemovedNodes(node))
         /\ \A m \in ToSet(RemovedNodes(node)) \ {node} :
               ParentOf[m] \in ToSet(RemovedNodes(node))
<1> DEFINE Grown(b, i) == IF i <= Len(b) THEN b \o Children(b[i]) ELSE b
           Body(w, i) == IF i = 0 THEN <<node>> ELSE Grown(w[i - 1], i)
           all == CHOOSE w : w = [i \in 0 .. NodeCount |-> Body(w, i)]
           r == all[NodeCount]
<1>0. NodeCount \in Nat /\ IsFiniteSet(Live)
  BY NodeCountIsNatural DEF WalkableTree, IsForest
<1>1. all = [i \in 0 .. NodeCount |-> Body(all, i)]
  <2>1. \A k \in Nat : \E w : w = [i \in 0 .. k |-> Body(w, i)]
    BY WorklistExists, Zenon
  <2> HIDE DEF Body
  <2>2. \E w : w = [i \in 0 .. NodeCount |-> Body(w, i)]
    BY <1>0, <2>1, Zenon
  <2> QED BY <2>2
<1>2. RemovedNodes(node) = r
  BY DEF RemovedNodes
<1> HIDE DEF all
<1>3. /\ all[0] = <<node>>
      /\ \A i \in 0 .. NodeCount : i # 0 => all[i] = Grown(all[i - 1], i)
  <2> HIDE DEF Grown
  <2> QED BY <1>0, <1>1
<1>4. \A i \in 0 .. NodeCount : WorklistOK(node, all[i], i)
  <2> DEFINE T == {i \in Nat : i <= NodeCount => WorklistOK(node, all[i], i)}
  <2>1. 0 \in T
    <3>1. /\ <<node>> \in Seq(Live) /\ Len(<<node>>) = 1
          /\ IsInjective(<<node>>) /\ <<node>>[1] = node
      BY DEF IsInjective
    <3> DEFINE one == <<node>>
    <3> HIDE DEF one
    <3>2. \A j \in 1 .. Len(one) : ~ (j <= 0) /\ j = 1
      BY <3>1 DEF one
    <3>3. WorklistOK(node, one, 0)
      <4>1. /\ one \in Seq(Live) /\ Len(one) = 1
            /\ IsInjective(one) /\ one[1] = node
        BY <3>1 DEF one
      <4> QED BY <3>2, <4>1 DEF WorklistOK
    <3> QED BY <1>3, <3>3 DEF one
  <2>2. ASSUME NEW i \in T PROVE i + 1 \in T
    <3>1. SUFFICES ASSUME i + 1 <= NodeCount
                   PROVE  WorklistOK(node, all[i + 1], i + 1)
      OBVIOUS
    <3>2. i + 1 \in 0 .. NodeCount /\ i + 1 # 0 /\ (i + 1) - 1 = i
          /\ WorklistOK(node, all[i], i)
      BY <1>0, <3>1
    <3>3. all[i + 1] = Grown(all[i], i + 1)
      <4> HIDE DEF Grown
      <4> QED BY <1>3, <3>2
    <3> QED BY <3>2, <3>3, WorklistRound
  <2> HIDE DEF T
  <2>3. T \in SUBSET Nat
    BY DEF T
  <2>4. T = Nat
    BY <2>1, <2>2, <2>3, NatSetInduction
  <2> QED BY <1>0, <2>4 DEF T
<1>5. WorklistOK(node, r, NodeCount)
  BY <1>0, <1>4
<1> HIDE DEF r
<1>6. /\ r \in Seq(Live) /\ IsInjective(r) /\ DOMAIN r = 1 .. Len(r)
      /\ Len(r) \in Nat /\ ToSet(r) \in SUBSET Live
  BY <1>5, LenProperties DEF WorklistOK, ToSet
<1>7. Len(r) <= NodeCount
  <2>1. r \in Injection(1 .. Len(r), Live)
    BY <1>6, LenProperties DEF IsInjective, Injection
  <2>2. IsFiniteSet(1 .. Len(r)) /\ Cardinality(1 .. Len(r)) = Len(r)
    BY <1>6, PositionsCounted
  <2> QED BY <1>0, <2>1, <2>2, FS_Injection DEF NodeCount
<1>8. node \in ToSet(r)
  <2>1. 1 \in DOMAIN r /\ r[1] = node
    BY <1>5, <1>6 DEF WorklistOK
  <2> QED BY <2>1 DEF ToSet
<1>9. ASSUME NEW m \in Live, ParentOf[m] \in ToSet(r)
      PROVE  m \in ToSet(r)
  <2>1. PICK j \in 1 .. Len(r) : ParentOf[m] = r[j]
    BY <1>6, <1>9 DEF ToSet
  <2>2. j <= NodeCount
    BY <1>0, <1>6, <1>7
  <2>3. ToSet(KidsOf[r[j]]) \subseteq ToSet(r) /\ r[j] \in Live
    BY <1>5, <1>6, <1>9, <2>1, <2>2 DEF WorklistOK
  <2>4. m \in ToSet(KidsOf[r[j]])
    BY <2>1, <2>3 DEF WalkableTree, IsForest
  <2> QED BY <2>3, <2>4
<1>10. ASSUME NEW m \in ToSet(r) \ {node}
       PROVE  ParentOf[m] \in ToSet(r)
  <2>1. PICK k \in 1 .. Len(r) : m = r[k]
    BY <1>6 DEF ToSet
  <2>2. k # 1
    BY <1>5, <2>1 DEF WorklistOK
  <2>3. PICK j \in 1 .. Len(r) : ParentOf[r[k]] = r[j]
    BY <1>5, <2>2 DEF WorklistOK
  <2> QED BY <1>6, <2>1, <2>3 DEF ToSet
<1> QED BY <1>2, <1>6, <1>8, <1>9, <1>10

-----------------------------------------------------------------------------
(* The contract's sequences: what the sibling operations of the code do is *)
(* leaving a sequence and being inserted at an ordinal among the others.   *)

(* The contract's copies of the community operators.                       *)
LEMMA ContractSequences ==
  ASSUME NEW s, NEW i, NEW e
  PROVE  /\ Contract!ToSet(s) = ToSet(s)
         /\ Contract!RemoveAt(s, i) = RemoveAt(s, i)
         /\ Contract!InsertAt(s, i, e) = InsertAt(s, i, e)
BY DEF Contract!ToSet, ToSet, Contract!RemoveAt, RemoveAt,
       Contract!InsertAt, InsertAt

(* Without what it does not hold a sequence is itself.                     *)
LEMMA WithoutStranger ==
  ASSUME NEW s, NEW n, n \notin ToSet(s)
  PROVE  Contract!Without(s, n) = s
BY ContractSequences DEF Contract!Without

(* child_index and erase take a node out of its sequence.                  *)
LEMMA WithoutMember ==
  ASSUME NEW S, NEW s \in Seq(S), IsInjective(s), NEW n \in ToSet(s)
  PROVE  /\ ChildIndex(s, n) \in 1 .. Len(s)
         /\ s[ChildIndex(s, n)] = n
         /\ Contract!Without(s, n) = RemoveAt(s, ChildIndex(s, n))
         /\ Contract!Without(s, n) = EraseSibling(s, n)
<1> DEFINE c == ChildIndex(s, n)
           d == CHOOSE i \in DOMAIN s : s[i] = n
<1>1. c \in 1 .. Len(s) /\ s[c] = n
  BY ChildIndexFinds
<1>2. DOMAIN s = 1 .. Len(s)
  BY LenProperties
<1>3. d \in DOMAIN s /\ s[d] = n
  BY <1>1, <1>2
<1>4. c = d
  BY <1>1, <1>2, <1>3 DEF IsInjective
<1>5. Contract!Without(s, n) = RemoveAt(s, d)
  BY ContractSequences DEF Contract!Without
<1> QED BY <1>1, <1>4, <1>5 DEF EraseSibling

(* The rotation of move_within takes a node out and puts it back.          *)
LEMMA RotationReinserts ==
  ASSUME NEW S, NEW s \in Seq(S),
         NEW c \in 1 .. Len(s), NEW t \in 1 .. Len(s)
  PROVE  MoveWithin(s, c, t) = InsertAt(RemoveAt(s, c), t, s[c])
<1> DEFINE e == s[c]
           u == RemoveAt(s, c)
           v == InsertAt(u, t, e)
           w == MoveWithin(s, c, t)
<1>1. Len(s) \in Nat /\ DOMAIN s = 1 .. Len(s) /\ e \in S
  BY LenProperties, ElementOfSeq
<1>2. /\ u \in Seq(S)
      /\ Len(u) = Len(s) - 1
      /\ \A k \in 1 .. Len(s) - 1 : u[k] = IF k < c THEN s[k] ELSE s[k + 1]
  BY RemoveAtElements
<1> HIDE DEF u, e
<1>3. /\ v \in Seq(S)
      /\ Len(v) = Len(u) + 1
      /\ \A k \in 1 .. Len(u) + 1 :
            v[k] = IF k < t THEN u[k] ELSE IF k = t THEN e ELSE u[k - 1]
  <2>1. t \in 1 .. Len(u) + 1
    BY <1>1, <1>2
  <2>2. u \in Seq(S) /\ e \in S
    BY <1>1, <1>2
  <2>3. v \in Seq(S) /\ InsertedAt(u, t, e, v)
    BY <2>1, <2>2, InsertAtPlaces
  <2> HIDE DEF v
  <2> QED BY <2>3 DEF InsertedAt
<1> HIDE DEF v
<1>4. w \in Seq(S)
  BY MoveWithinMembers
<1>5. /\ Len(w) = Len(s)
      /\ \A k \in 1 .. Len(s) :
            w[k] = IF k = t THEN e
                   ELSE IF c <= k /\ k < t THEN s[k + 1]
                   ELSE IF t < k /\ k <= c THEN s[k - 1]
                   ELSE s[k]
  BY <1>1 DEF MoveWithin, e
<1> HIDE DEF w
<1>6. Len(v) = Len(s)
  BY <1>1, <1>2, <1>3
<1>7. ASSUME NEW k \in 1 .. Len(s) PROVE v[k] = w[k]
  <2>1. k \in 1 .. Len(u) + 1
    BY <1>1, <1>2
  <2>2. v[k] = IF k < t THEN u[k] ELSE IF k = t THEN e ELSE u[k - 1]
    BY <1>3, <2>1
  <2>3. CASE k < t
    <3>1. v[k] = u[k] /\ k \in 1 .. Len(s) - 1
      BY <1>1, <2>2, <2>3
    <3> QED BY <1>1, <1>2, <1>5, <2>3, <3>1
  <2>4. CASE k = t
    BY <1>1, <1>5, <2>2, <2>4
  <2>5. CASE k > t
    <3>1. v[k] = u[k - 1] /\ k - 1 \in 1 .. Len(s) - 1 /\ k - 1 + 1 = k
      BY <1>1, <2>2, <2>5
    <3>2. v[k] = IF k - 1 < c THEN s[k - 1] ELSE s[k]
      BY <1>2, <3>1
    <3> QED BY <1>1, <1>5, <2>5, <3>2
  <2> QED BY <1>1, <2>3, <2>4, <2>5
<1> QED BY <1>3, <1>4, <1>5, <1>6, <1>7, SeqEqual DEF u, v, w, e

(* An insertion's ordinal is accepted exactly if the contract's fits, and  *)
(* the sequence becomes the contract's.                                    *)
LEMMA InsertionAsPromised ==
  ASSUME NEW S, NEW s \in Seq(S), NEW n, n \notin ToSet(s), NEW o
  PROVE  /\ Contract!Fits(s, n, o) <=> InsertionOrdinalOK(Len(s), o)
         /\ Contract!Inserted(s, n, o) = InsertSibling(s, o, n)
<1>1. Contract!Without(s, n) = s
  BY WithoutStranger
<1>2. Contract!Fits(s, n, o) <=> InsertionOrdinalOK(Len(s), o)
  BY <1>1 DEF Contract!Fits, InsertionOrdinalOK
<1>3. Contract!Inserted(s, n, o)
        = InsertAt(s, (IF o = AppendChild THEN Len(s) ELSE o) + 1, n)
  BY <1>1, ContractSequences DEF Contract!Inserted
<1> QED BY <1>2, <1>3 DEF InsertSibling, InsertionOrdinal

(* So is that of a move within one sequence.                               *)
LEMMA ReorderAsPromised ==
  ASSUME NEW S, NEW s \in Seq(S), IsInjective(s), NEW n \in ToSet(s),
         NEW o \in Ordinal
  PROVE  /\ Contract!Fits(s, n, o) <=> MoveOrdinalOK(Len(s), o)
         /\ MoveOrdinalOK(Len(s), o) =>
               Contract!Inserted(s, n, o) = ReorderSibling(s, o, n)
<1> DEFINE c == ChildIndex(s, n)
           t == MoveOrdinal(Len(s), o) + 1
<1>1. c \in 1 .. Len(s) /\ s[c] = n /\ Contract!Without(s, n) = RemoveAt(s, c)
  BY WithoutMember
<1>2. Len(RemoveAt(s, c)) = Len(s) - 1 /\ Len(s) \in Nat
  BY <1>1, RemoveAtElements, LenProperties
<1> HIDE DEF c
<1>3. o \in Nat /\ AppendChild \in Nat
  BY LimitsAssumption DEF Ordinal
<1>4. Contract!Fits(s, n, o) <=> MoveOrdinalOK(Len(s), o)
  <2>1. Contract!Fits(s, n, o) <=> o = AppendChild \/ o <= Len(s) - 1
    BY <1>1, <1>2 DEF Contract!Fits
  <2>2. Len(s) # 0
    BY <1>1, <1>2
  <2> QED BY <1>2, <1>3, <2>1, <2>2 DEF MoveOrdinalOK
<1>5. ASSUME MoveOrdinalOK(Len(s), o)
      PROVE  Contract!Inserted(s, n, o) = ReorderSibling(s, o, n)
  <2>1. t \in 1 .. Len(s)
    BY <1>2, <1>3, <1>5 DEF MoveOrdinal, MoveOrdinalOK
  <2>2. Contract!Inserted(s, n, o) = InsertAt(RemoveAt(s, c), t, n)
    BY <1>1, <1>2, ContractSequences DEF Contract!Inserted, MoveOrdinal
  <2>3. ReorderSibling(s, o, n) = MoveWithin(s, c, t)
    BY DEF ReorderSibling, c
  <2> HIDE DEF t
  <2>4. MoveWithin(s, c, t) = InsertAt(RemoveAt(s, c), t, s[c])
    BY <1>1, <2>1, RotationReinserts
  <2> QED BY <1>1, <2>2, <2>3, <2>4
<1> QED BY <1>4, <1>5

(* Leaving a sequence exchanges none of its members, and an insertion      *)
(* exchanges none but the one inserted.                                    *)
LEMMA PromisedKeepsOrder ==
  ASSUME NEW S, NEW s \in Seq(S), IsInjective(s), NEW n \in S,
         NEW o \in Ordinal, NEW a, NEW b
  PROVE  /\ ~ Traded(s, Contract!Without(s, n), a, b)
         /\ Contract!Fits(s, n, o)
               /\ Traded(s, Contract!Inserted(s, n, o), a, b)
            => n \in {a, b}
<1> DEFINE u == Contract!Without(s, n)
<1>1. u \in Seq(S) /\ ~ Traded(s, u, a, b)
  <2>1. CASE n \notin ToSet(s)
    <3>1. u = s
      BY <2>1, WithoutStranger
    <3> QED BY <3>1, NoneTraded
  <2>2. CASE n \in ToSet(s)
    <3>1. /\ ChildIndex(s, n) \in 1 .. Len(s)
          /\ u = RemoveAt(s, ChildIndex(s, n))
      BY <2>2, WithoutMember
    <3>2. RemoveAt(s, ChildIndex(s, n)) \in Seq(S)
      BY <3>1, RemoveAtElements
    <3> QED BY <3>1, <3>2, RemovedKeepsOrder
  <2> QED BY <2>1, <2>2
<1>2. ASSUME Contract!Fits(s, n, o),
             Traded(s, Contract!Inserted(s, n, o), a, b)
      PROVE  n \in {a, b}
  <2> DEFINE p == (IF o = AppendChild THEN Len(u) ELSE o) + 1
  <2>1. Contract!Inserted(s, n, o) = InsertAt(u, p, n)
    BY ContractSequences DEF Contract!Inserted
  <2>2. p \in 1 .. Len(u) + 1
    <3>1. Len(u) \in Nat /\ o \in Nat
      BY <1>1, LenProperties DEF Ordinal
    <3>2. o = AppendChild \/ o <= Len(u)
      BY <1>2 DEF Contract!Fits
    <3> HIDE DEF u
    <3> QED BY <3>1, <3>2
  <2> HIDE DEF u, p
  <2>3. Traded(s, InsertAt(u, p, n), a, b)
    BY <1>2, <2>1
  <2> QED BY <1>1, <2>2, <2>3, InsertedKeepsOrder
<1> QED BY <1>1, <1>2

-----------------------------------------------------------------------------
(* The contract's hierarchy *)

(* In terms of parents: S holds with every node the nodes below it.        *)
HoldsBelow(S) == \A m \in Live : ParentOf[m] \in S => m \in S

(* The contract closes a set under the ordered sequences, the code follows *)
(* parents: in a forest that is the same.                                  *)
LEMMA SubtreeByParents ==
  ASSUME WalkableTree, NEW n \in Live
  PROVE  \A m : m \in Contract!Subtree(n) <=>
            m \in Live /\ \A S \in SUBSET Live : n \in S /\ HoldsBelow(S) => m \in S
<1>1. DOMAIN DataOf = Live
  BY DEF DataOf
<1>2. \A x \in Live : Contract!Below(x) = {m \in Live : ParentOf[m] = x}
  <2>1. ASSUME NEW x \in Live
        PROVE  Contract!Below(x) = {m \in Live : ParentOf[m] = x}
    <3>1. Contract!Below(x) = ToSet(KidsOf[x])
      BY ContractSequences DEF Contract!Below
    <3>2. ToSet(KidsOf[x]) = {m \in Live : ParentOf[m] = x}
      BY DEF WalkableTree, IsForest
    <3> QED BY <3>1, <3>2
  <2> QED BY <2>1
<1>3. ASSUME NEW S \in SUBSET Live
      PROVE  (\A x \in S : Contract!Below(x) \subseteq S) <=> HoldsBelow(S)
  BY <1>2, <1>3 DEF HoldsBelow
<1> QED BY <1>1, <1>3 DEF Contract!Subtree, Contract!Node

(* What erase_subtree collects is the subtree.                             *)
LEMMA RemovedIsPromised ==
  ASSUME WalkableTree, NEW node \in Live
  PROVE  /\ Contract!Subtree(node) = ToSet(RemovedNodes(node))
         /\ Cardinality(Contract!Subtree(node)) = Len(RemovedNodes(node))
<1> DEFINE gone == ToSet(RemovedNodes(node))
<1>1. /\ RemovedNodes(node) \in Seq(Live)
      /\ IsInjective(RemovedNodes(node))
      /\ node \in gone
      /\ \A m \in Live : ParentOf[m] \in gone => m \in gone
      /\ \A m \in gone \ {node} : ParentOf[m] \in gone
  BY RemovedIsSubtree
<1>2. gone \in SUBSET Live
  BY <1>1, MembersOfSeq
<1>3. IsFiniteSet(gone)
  <2>1. IsFiniteSet(Live)
    BY NodeCountIsNatural DEF WalkableTree, IsForest
  <2> QED BY <1>2, <2>1, FS_Subset
<1>4. Len(RemovedNodes(node)) = Cardinality(gone)
  <2>1. \A i \in 1 .. Len(RemovedNodes(node)) : RemovedNodes(node)[i] \in gone
    BY <1>1, LenProperties DEF ToSet
  <2>2. RemovedNodes(node) \in Seq(gone)
    BY <1>1, <2>1, LenProperties
  <2> QED BY <1>1, <1>3, <2>2, InjectiveLength
<1> HIDE DEF gone
<1>5. ASSUME NEW m \in Contract!Subtree(node) PROVE m \in gone
  <2>1. HoldsBelow(gone)
    BY <1>1 DEF HoldsBelow
  <2> QED BY <1>1, <1>2, <1>5, <2>1, SubtreeByParents
<1>6. ASSUME NEW m \in gone PROVE m \in Contract!Subtree(node)
  <2>1. SUFFICES ASSUME NEW S \in SUBSET Live, node \in S, HoldsBelow(S),
                        m \notin S
                 PROVE  FALSE
    BY <1>2, <1>6, SubtreeByParents
  <2>2. gone \ S \in SUBSET Live /\ gone \ S # {}
    BY <1>2, <1>6, <2>1
  <2>3. PICK x \in gone \ S : ParentOf[x] \notin gone \ S
    BY <2>2 DEF WalkableTree, IsForest
  <2>4. ParentOf[x] \in gone
    BY <1>1, <2>1, <2>3
  <2>5. x \in Live /\ ParentOf[x] \in S
    BY <1>2, <2>3, <2>4
  <2> QED BY <2>1, <2>3, <2>5 DEF HoldsBelow
<1>7. Contract!Subtree(node) = gone
  BY <1>5, <1>6
<1> QED BY <1>4, <1>7 DEF gone

(* The cycle check refuses exactly the parents within the node's subtree.  *)
LEMMA CyclesAsPromised ==
  ASSUME WalkableTree, NEW node \in Live, NEW p \in Live
  PROVE  WouldCreateCycle(node, p) <=> p \in Contract!Subtree(node)
<1>1. ASSUME ~ WouldCreateCycle(node, p), p \in Contract!Subtree(node)
      PROVE  FALSE
  <2>1. PICK A \in SUBSET Live :
           /\ node \notin A
           /\ p \in A
           /\ \A a \in A : ParentOf[a] \in A \cup {InvalidId}
    BY <1>1, AncestorsAvoidNode
  <2>2. InvalidId \notin Live
    BY InvalidIsNoId DEF WalkableTree, IsForest
  <2>3. HoldsBelow(Live \ A)
    BY <2>1, <2>2 DEF HoldsBelow
  <2>4. Live \ A \in SUBSET Live /\ node \in Live \ A /\ p \notin Live \ A
    BY <2>1
  <2> QED BY <1>1, <2>3, <2>4, SubtreeByParents
<1>2. ASSUME WouldCreateCycle(node, p)
      PROVE  p \in Contract!Subtree(node)
  <2>1. SUFFICES ASSUME NEW S \in SUBSET Live, node \in S, HoldsBelow(S)
                 PROVE  p \in S
    BY SubtreeByParents
  <2>2. PICK up :
           /\ WalksUp(p, up)
           /\ \/ \E i \in 0 .. NodeCount : up[i] = node
              \/ up[NodeCount] # InvalidId
    BY <1>2, CycleCheckWalks
  <2>3. PICK k \in 0 .. NodeCount : up[k] = node
    BY <2>2, WalkReachesTop
  <2>4. NodeCount \in Nat /\ InvalidId \notin Live
    BY NodeCountIsNatural, InvalidIsNoId DEF WalkableTree, IsForest
  <2> DEFINE T == {i \in 0 .. k : up[k - i] \in S}
  <2>5. 0 \in T
    BY <2>1, <2>3, <2>4
  <2>6. ASSUME NEW i \in 1 .. k, i - 1 \in T PROVE i \in T
    <3>1. /\ k - (i - 1) \in 0 .. NodeCount
          /\ k - (i - 1) # 0
          /\ (k - (i - 1)) - 1 = k - i
          /\ k - i \in 0 .. NodeCount
          /\ i \in 0 .. k
      BY <2>4
    <3>2. up[k - (i - 1)] \in S
      BY <2>6
    <3>3. /\ up[k - (i - 1)] = IF up[k - i] \in Live THEN ParentOf[up[k - i]]
                               ELSE InvalidId
          /\ up[k - i] \in Live \cup {InvalidId}
      BY <2>2, <3>1 DEF WalksUp
    <3>4. up[k - i] \in Live /\ ParentOf[up[k - i]] \in S
      BY <2>1, <2>4, <3>2, <3>3
    <3> QED BY <2>1, <3>1, <3>4 DEF HoldsBelow
  <2> HIDE DEF T
  <2>7. k \in T
    <3>1. k \in Nat
      BY <2>4
    <3>2. \A i \in 0 .. k : i \in T
      BY <2>5, <2>6, <3>1, RoundInduction
    <3> QED BY <3>1, <3>2
  <2>8. up[k - k] \in S /\ k - k = 0
    BY <2>4, <2>7 DEF T
  <2> QED BY <2>2, <2>8 DEF WalksUp
<1> QED BY <1>1, <1>2

(* The identities run out for the contract when the counter reaches the    *)
(* invalid one.                                                            *)
LEMMA IssuedAsPromised ==
  ASSUME nextId \in StableNodeId
  PROVE  /\ Id \subseteq Issued <=> ~ IdentityAvailable
         /\ IdentityAvailable => /\ nextId \in Id \ Issued
                                 /\ 0 .. nextId = Issued \cup {nextId}
BY LimitsAssumption DEF Id, Issued, StableNodeId, IdentityAvailable

-----------------------------------------------------------------------------
(* The invariant *)

(* The inductive invariant.                                                *)
Inv == TypeOK /\ SlotTableOK /\ NextIdFresh /\ ForestOK /\ Acyclic

-----------------------------------------------------------------------------
(* The invariant in parts *)

(* The invariant says: the table fits, and its records form a forest with  *)
(* edges exactly below the roots.                                          *)
LEMMA InvParts ==
  ASSUME Inv
  PROVE  /\ SlotsFit(slots, slotById, freeSlots)
         /\ WalkableTree
         /\ Live \subseteq Id
         /\ \A n \in Live :
               /\ FindRecord(n) = slots[slotById[n]]
               /\ FindRecord(n) \in NodeRecord
               /\ FindRecord(n).id = n
               /\ n # InvalidId
               /\ ParentOf[n] = Parent(n) /\ KidsOf[n] = Children(n)
               /\ Parent(n) \in Live \cup {InvalidId}
               /\ FindRecord(n).parentEdge = NoEdge <=> Parent(n) = InvalidId
               /\ DataOf[n] = FindRecord(n).data
               /\ EdgeOf[n] = FindRecord(n).parentEdge
         /\ \A n : Known(n) <=> n \in Live
         /\ KidsOf[InvalidId] = roots
<1>1. SlotsFit(slots, slotById, freeSlots)
  BY SlotsFitState DEF Inv
<1>2. Live \subseteq Id /\ InvalidId \notin Live
  BY InvalidIsNoId DEF Inv, TypeOK
<1>3. ASSUME NEW n \in Live
      PROVE  /\ FindRecord(n) = slots[slotById[n]]
             /\ FindRecord(n) \in NodeRecord
             /\ FindRecord(n).id = n
             /\ Known(n)
  <2>1. FindRecord(n) = slots[slotById[n]]
    BY DEF FindRecord
  <2>2. slotById[n] \in DOMAIN slots /\ slots[slotById[n]] # NoRecord
        /\ slots[slotById[n]].id = n
    BY <1>1 DEF SlotsFit, Live
  <2>3. slots[slotById[n]] \in NodeRecord \cup {NoRecord}
    BY <1>1, <2>2, LenProperties, ElementOfSeq DEF SlotsFit
  <2> QED BY <2>1, <2>2, <2>3 DEF Known
<1>4. \A n : Known(n) <=> n \in Live
  BY <1>3 DEF Known, FindRecord
<1>5. ASSUME NEW n \in Live
      PROVE  /\ ParentOf[n] = Parent(n) /\ KidsOf[n] = Children(n)
             /\ Parent(n) \in Live \cup {InvalidId}
             /\ FindRecord(n).parentEdge = NoEdge <=> Parent(n) = InvalidId
             /\ Children(n) \in Seq(Id) /\ IsInjective(Children(n))
             /\ ToSet(Children(n)) = {m \in Live : Parent(m) = n}
  <2>1. Children(n) \in Seq(Id)
    BY <1>3 DEF Children, NodeRecord
  <2>2. ParentOf[n] = Parent(n) /\ KidsOf[n] = Children(n)
    BY <1>2 DEF ParentOf, KidsOf, Sequence
  <2> QED BY <2>1, <2>2 DEF Inv, ForestOK, IsRoot
<1>6. KidsOf[InvalidId] = roots
  BY DEF KidsOf, Sequence
<1>7. IsForest(Live, ParentOf, KidsOf)
  <2>1. ParentOf \in [Live -> Live \cup {InvalidId}]
    BY <1>5 DEF ParentOf
  <2>2. roots \in Seq(Id) /\ IsInjective(roots)
        /\ ToSet(roots) = {m \in Live : ParentOf[m] = InvalidId}
    BY <1>5 DEF Inv, TypeOK, ForestOK, IsRoot
  <2>3. \A n \in Live : ToSet(KidsOf[n]) = {m \in Live : ParentOf[m] = n}
    BY <1>5
  <2>4. \A S \in SUBSET Live : S # {} => \E n \in S : ParentOf[n] \notin S
    BY <1>5 DEF Inv, Acyclic
  <2> QED BY <1>2, <1>5, <1>6, <2>1, <2>2, <2>3, <2>4 DEF IsForest
<1>8. \A n \in Live : /\ DataOf[n] = FindRecord(n).data
                       /\ EdgeOf[n] = FindRecord(n).parentEdge
  BY DEF DataOf, EdgeOf
<1> QED BY <1>1, <1>2, <1>3, <1>4, <1>5, <1>6, <1>7, <1>8 DEF WalkableTree

(* What it takes to re-establish the invariant.                            *)
LEMMA InvFromParts ==
  ASSUME SlotsFit(slots', slotById', freeSlots'),
         NEW par, NEW kids, IsForest(Live', par, kids),
         roots' = kids[InvalidId],
         \A n \in Live' :
             /\ slots'[slotById'[n]].parent = par[n]
             /\ slots'[slotById'[n]].children = kids[n]
             /\ slots'[slotById'[n]].parentEdge = NoEdge <=> par[n] = InvalidId,
         nextId' \in StableNodeId, \A n \in Live' : n < nextId',
         revision' \in 0 .. RevisionMax,
         reply'.error \in MutationError \cup {"none", "exception"}
  PROVE  Inv'
<1>1. \A n \in Live' : FindRecord(n)' = slots'[slotById'[n]]
  BY DEF FindRecord
<1>2. \A n \in Live' : /\ Parent(n)' = par[n]
                       /\ Children(n)' = kids[n]
                       /\ IsRoot(n)' <=> par[n] = InvalidId
  BY <1>1 DEF Parent, Children, IsRoot
<1>3. TypeOK'
  <2>1. roots' \in Seq(Id)
    BY DEF IsForest
  <2> QED BY <2>1 DEF TypeOK, SlotsFit, Live
<1>4. SlotTableOK'
  BY <1>1 DEF SlotTableOK, SlotsFit, Known, Live
<1>5. NextIdFresh'
  BY DEF NextIdFresh
<1>6. ForestOK'
  <2>1. IsInjective(roots') /\ ToSet(roots') = {n \in Live' : IsRoot(n)'}
    BY <1>2 DEF IsForest
  <2>2. ASSUME NEW n \in Live'
        PROVE  /\ Parent(n)' \in Live' \cup {InvalidId}
               /\ FindRecord(n)'.parentEdge = NoEdge <=> IsRoot(n)'
               /\ IsInjective(Children(n)')
               /\ ToSet(Children(n)') = {m \in Live' : Parent(m)' = n}
    BY <1>1, <1>2 DEF IsForest
  <2> QED BY <2>1, <2>2 DEF ForestOK
<1>7. Acyclic'
  BY <1>2 DEF Acyclic, IsForest
<1> QED BY <1>3, <1>4, <1>5, <1>6, <1>7 DEF Inv

(* After the call the records of the identities live hold these payloads,  *)
(* edges and sequences.                                                    *)
RecordsHold(live, data, edge, kids) ==
    /\ Live' = live
    /\ InvalidId \notin live
    /\ data = [n \in live |-> data[n]]
    /\ edge = [n \in live |-> edge[n]]
    /\ kids = [q \in live \cup {InvalidId} |-> kids[q]]
    /\ roots' = kids[InvalidId]
    /\ \A n \in live : /\ slots'[slotById'[n]].data = data[n]
                       /\ slots'[slotById'[n]].parentEdge = edge[n]
                       /\ slots'[slotById'[n]].children = kids[n]

(* Then they are what the caller sees.                                     *)
LEMMA ViewFromParts ==
  ASSUME NEW live, NEW data, NEW edge, NEW kids,
         RecordsHold(live, data, edge, kids)
  PROVE  DataOf' = data /\ EdgeOf' = edge /\ KidsOf' = kids
<1> USE DEF RecordsHold
<1>1. \A n \in live : FindRecord(n)' = slots'[slotById'[n]]
  BY DEF FindRecord
<1>2. DataOf' = [n \in live |-> data[n]]
  BY <1>1 DEF DataOf
<1>3. EdgeOf' = [n \in live |-> edge[n]]
  BY <1>1 DEF EdgeOf
<1>4. \A q \in live \cup {InvalidId} : Sequence(q)' = kids[q]
  BY <1>1 DEF Sequence, Children
<1>5. KidsOf' = [q \in live \cup {InvalidId} |-> kids[q]]
  BY <1>4 DEF KidsOf
<1> QED BY <1>2, <1>3, <1>5, Zenon

(* An early return or an exception keeps the invariant.                    *)
LEMMA UnchangedKeepsInv ==
  ASSUME Inv, UNCHANGED state,
         reply'.error \in MutationError \cup {"none", "exception"}
  PROVE  Inv'
<1> USE DEF state
<1>1. \A n : FindRecord(n)' = FindRecord(n)
  BY DEF FindRecord, Live
<1>2. TypeOK'
  BY DEF Inv, TypeOK, Live
<1>3. SlotTableOK'
  BY <1>1 DEF Inv, SlotTableOK, Known, Live
<1>4. NextIdFresh'
  BY DEF Inv, NextIdFresh, Live
<1>5. ForestOK'
  BY <1>1 DEF Inv, ForestOK, IsRoot, Parent, Children, Live
<1>6. Acyclic'
  BY <1>1 DEF Inv, Acyclic, Parent, Live
<1> QED BY <1>2, <1>3, <1>4, <1>5, <1>6 DEF Inv

-----------------------------------------------------------------------------
(* What a call does to the forest its caller sees *)

(* Nothing: it reports its error or lets an exception out.                 *)
Refused(error) ==
    /\ UNCHANGED state
    /\ \/ reply' = [error |-> "exception"]
       \/ error # "none" /\ reply' = [error |-> error]

(* A new node without children at ordinal below p.                         *)
LeafEffect(p, data, edge, ordinal) ==
    /\ Succeed(nextId)
    /\ nextId' = nextId + 1
    /\ Live' = Live \cup {nextId}
    /\ DataOf' = [n \in Live \cup {nextId} |->
                    IF n = nextId THEN data ELSE DataOf[n]]
    /\ EdgeOf' = [n \in Live \cup {nextId} |->
                    IF n = nextId THEN edge ELSE EdgeOf[n]]
    /\ KidsOf' = [q \in Live \cup {nextId} \cup {InvalidId} |->
                    IF q = p THEN InsertSibling(KidsOf[p], ordinal, nextId)
                    ELSE IF q = nextId THEN <<>> ELSE KidsOf[q]]

(* The sequence a node is in, without it.                                  *)
LeftSequence(node) == EraseSibling(KidsOf[Parent(node)], node)

(* node leaves its place for ordinal below q, which may be where it was.   *)
PlaceEffect(node, q, edge, ordinal) ==
    /\ Succeed(node)
    /\ nextId' = nextId
    /\ Live' = Live
    /\ DataOf' = DataOf
    /\ EdgeOf' = [n \in Live |-> IF n = node THEN edge ELSE EdgeOf[n]]
    /\ KidsOf' = [r \in Live \cup {InvalidId} |->
                    IF r = q
                    THEN IF q = Parent(node)
                         THEN ReorderSibling(KidsOf[q], ordinal, node)
                         ELSE InsertSibling(KidsOf[q], ordinal, node)
                    ELSE IF r = Parent(node) THEN LeftSequence(node)
                    ELSE KidsOf[r]]

(* The nodes gone leave, node from the sequence it is in.                  *)
EraseEffect(node, gone) ==
    /\ nextId' = nextId
    /\ Live' = Live \ gone
    /\ DataOf' = [n \in Live \ gone |-> DataOf[n]]
    /\ EdgeOf' = [n \in Live \ gone |-> EdgeOf[n]]
    /\ KidsOf' = [q \in (Live \ gone) \cup {InvalidId} |->
                    IF q = Parent(node) THEN LeftSequence(node) ELSE KidsOf[q]]

(* Payloads of node are replaced.                                          *)
PayloadEffect(node, data, edge) ==
    /\ Succeed(node)
    /\ nextId' = nextId
    /\ Live' = Live
    /\ DataOf' = [n \in Live |-> IF n = node THEN data ELSE DataOf[n]]
    /\ EdgeOf' = [n \in Live |-> IF n = node THEN edge ELSE EdgeOf[n]]
    /\ KidsOf' = KidsOf

-----------------------------------------------------------------------------
(* The calls *)

(* What a call can report.                                                 *)
LEMMA ErrorsAreTyped ==
  ASSUME NEW node, NEW newParent, NEW ordinal
  PROVE  /\ InsertRootError(ordinal) \in MutationError \cup {"none"}
         /\ InsertChildError(node, ordinal) \in MutationError \cup {"none"}
         /\ ReparentError(node, newParent, ordinal)
               \in MutationError \cup {"none"}
         /\ DetachError(node, ordinal) \in MutationError \cup {"none"}
         /\ NodeError(node) \in MutationError \cup {"none"}
         /\ ReplaceEdgeError(node) \in MutationError \cup {"none"}
BY DEF InsertRootError, InsertChildError, ReparentError, DetachError,
       NodeError, ReplaceEdgeError, MutationError

(* A call that fails before it changed anything, whatever it reports.      *)
LEMMA FailOutcome ==
  ASSUME Inv, NEW error \in MutationError \cup {"none"},
         (error # "none" /\ Fail(error)) \/ Throw
  PROVE  Inv' /\ Refused(error)
<1>1. UNCHANGED state /\ reply'.error \in MutationError \cup {"none", "exception"}
  BY DEF Fail, Throw
<1>2. Refused(error)
  BY DEF Fail, Throw, Refused
<1> QED BY <1>1, <1>2, UnchangedKeepsInv

(* commit_record's exceptions leave the index as it was.                   *)
LEMMA CommitThrowsOutcome ==
  ASSUME Inv, CommitThrows, slots' = slots, roots' = roots
  PROVE  Inv' /\ Refused("none")
<1>1. slotById \in [Live -> DOMAIN slots] /\ nextId \notin Live
  BY DEF Inv, TypeOK, NextIdFresh, StableNodeId
<1>2. RollBackIndex(nextId) = slotById
  <2>1. DOMAIN CommitIndex(nextId) \ {nextId} = Live
    BY <1>1 DEF CommitIndex
  <2>2. \A n \in Live : CommitIndex(nextId)[n] = slotById[n]
    BY <1>1 DEF CommitIndex
  <2> QED BY <1>1, <2>1, <2>2 DEF RollBackIndex
<1>3. UNCHANGED state /\ reply' = [error |-> "exception"]
  BY <1>2 DEF CommitThrows, state
<1> QED BY <1>3, UnchangedKeepsInv DEF Refused

(* A successful call stays in range.                                       *)
LEMMA SucceedIsTyped ==
  ASSUME Inv, RevisionAvailable, NEW value, Succeed(value)
  PROVE  /\ revision' \in 0 .. RevisionMax
         /\ reply'.error \in MutationError \cup {"none", "exception"}
BY LimitsAssumption DEF Inv, TypeOK, RevisionAvailable, Succeed

(* The identity an insertion hands out.                                    *)
LEMMA NextIdIsNew ==
  ASSUME Inv, IdentityAvailable
  PROVE  /\ nextId \in Id /\ nextId \notin Live
         /\ nextId + 1 \in StableNodeId
         /\ \A n \in Live \cup {nextId} : n < nextId + 1
BY LimitsAssumption
   DEF Inv, TypeOK, NextIdFresh, IdentityAvailable, Id, StableNodeId

(* insert_root keeps the invariant: it refuses, throws or is rolled back
   out of commit_record with nothing changed, or adds one root. *)
LEMMA InsertRootOutcome ==
  ASSUME Inv, NEW data \in NodeData, NEW ordinal \in Ordinal,
         InsertRoot(data, ordinal)
  PROVE  /\ Inv'
         /\ \/ Refused(InsertRootError(ordinal))
            \/ /\ InsertRootError(ordinal) = "none"
               /\ LeafEffect(InvalidId, data, NoEdge, ordinal)
<1>1. CASE \/ /\ InsertRootError(ordinal) # "none"
              /\ Fail(InsertRootError(ordinal))
           \/ Throw
  BY <1>1, FailOutcome, ErrorsAreTyped
<1>2. CASE InsertRootError(ordinal) = "none" /\ ~ Throw
  <2>1. RevisionAvailable /\ IdentityAvailable
        /\ InsertionOrdinalOK(Len(roots), ordinal)
    BY <1>2 DEF InsertRootError
  <2>2. /\ SlotsFit(slots, slotById, freeSlots) /\ WalkableTree
        /\ KidsOf[InvalidId] = roots /\ nextId \in Id \ Live
        /\ InvalidId \notin Live /\ nextId # InvalidId
    BY <2>1, InvParts, NextIdIsNew, InvalidIsNoId
  <2> DEFINE s == InsertSibling(roots, ordinal, nextId)
  <2>3. /\ roots \in Seq(Id) /\ IsInjective(roots)
        /\ nextId \notin ToSet(roots)
    BY <2>2 DEF WalkableTree, IsForest
  <2>4. /\ InsertionOrdinal(Len(roots), ordinal) + 1 \in 1 .. Len(roots) + 1
        /\ s \in Seq(Id) /\ IsInjective(s)
        /\ ToSet(s) = ToSet(roots) \cup {nextId}
    BY <2>1, <2>2, <2>3, InsertSiblingMembers
  <2>5. CASE /\ roots' = RemoveAt(s, InsertionOrdinal(Len(roots), ordinal) + 1)
             /\ CommitThrows
             /\ slots' = slots
    <3>1. roots' = roots
      BY <2>2, <2>3, <2>4, <2>5, RemoveInserted DEF InsertSibling
    <3> QED BY <1>2, <2>5, <3>1, CommitThrowsOutcome
  <2>6. CASE /\ roots' = s
             /\ slots' = CommitTable(slots, NewRecord(data, InvalidId, NoEdge))
             /\ slotById' = CommitIndex(nextId)
             /\ freeSlots' = CommitFree
             /\ nextId' = nextId + 1
             /\ Succeed(nextId)
    <3> DEFINE rec == NewRecord(data, InvalidId, NoEdge)
               live2 == Live \cup {nextId}
               par2 == [n \in live2 |-> IF n = nextId THEN InvalidId ELSE ParentOf[n]]
               kids2 == [q \in Live \cup {nextId} \cup {InvalidId} |->
                          IF q = InvalidId THEN s
                          ELSE IF q = nextId THEN <<>> ELSE KidsOf[q]]
    <3>1. /\ rec \in NodeRecord /\ rec.id = nextId /\ rec.parent = InvalidId
          /\ rec.children = <<>> /\ rec.parentEdge = NoEdge
          /\ rec.data = data
      BY <2>2, LimitsAssumption DEF NewRecord, NodeRecord, StableNodeId
    <3>2. /\ SlotsFit(slots', slotById', freeSlots')
          /\ Live' = live2
          /\ \A n \in live2 : slots'[slotById'[n]] =
                IF n = nextId THEN rec ELSE slots[slotById[n]]
      <4> HIDE DEF rec
      <4>1. /\ SlotsFit(CommitTable(slots, rec), CommitIndex(nextId), CommitFree)
            /\ DOMAIN CommitIndex(nextId) = Live \cup {nextId}
            /\ CommitTable(slots, rec)[CommitIndex(nextId)[nextId]] = rec
            /\ \A n \in Live : CommitTable(slots, rec)[CommitIndex(nextId)[n]] =
                               slots[slotById[n]]
        <5>1. nextId \in Id /\ nextId \notin Live
          BY <2>2
        <5>2. Len(slots) = Len(slots)
          OBVIOUS
        <5> QED BY <2>2, <3>1, <5>1, <5>2, CommitKeepsSlots, Zenon
      <4>2. slots' = CommitTable(slots, rec)
        BY <2>6 DEF rec
      <4>3. Live' = DOMAIN slotById'
        BY DEF Live
      <4> QED BY <2>6, <4>1, <4>2, <4>3
    <3>3. IsForest(live2, par2, kids2)
      <4> HIDE DEF s
      <4>1. IsForest(Live, ParentOf, KidsOf)
        BY <2>2 DEF WalkableTree
      <4>2. /\ par2 \in [Live \cup {nextId} -> Live \cup {nextId} \cup {InvalidId}]
            /\ par2[nextId] = InvalidId
            /\ \A n \in Live : par2[n] = ParentOf[n]
        BY <2>2, <4>1 DEF IsForest
      <4>3. /\ kids2[InvalidId] = s /\ kids2[nextId] = <<>>
            /\ \A q \in Live \cup {InvalidId} :
                  q # InvalidId => kids2[q] = KidsOf[q]
        BY <2>2
      <4> HIDE DEF par2, kids2
      <4>4. LeafAdded(Live, ParentOf, KidsOf, nextId, InvalidId, par2, kids2)
        BY <2>2, <2>4, <4>2, <4>3 DEF LeafAdded
      <4> QED BY <4>1, <4>4, AddLeafKeepsForest
    <3>4. roots' = kids2[InvalidId]
      BY <2>6
    <3>5. ASSUME NEW n \in live2
          PROVE  /\ slots'[slotById'[n]].parent = par2[n]
                 /\ slots'[slotById'[n]].children = kids2[n]
                 /\ slots'[slotById'[n]].parentEdge = NoEdge
                       <=> par2[n] = InvalidId
      <4>1. CASE n = nextId
        BY <2>2, <3>1, <3>2, <4>1
      <4>2. CASE n # nextId
        <5>1. n \in Live /\ par2[n] = ParentOf[n] /\ kids2[n] = KidsOf[n]
          BY <2>2, <4>2
        <5>2. slots'[slotById'[n]] = FindRecord(n)
          BY <3>2, <4>2, <5>1, InvParts
        <5> QED BY <5>1, <5>2, InvParts DEF Parent, Children
      <4> QED BY <4>1, <4>2
    <3>6. nextId' \in StableNodeId /\ \A n \in Live' : n < nextId'
      BY <2>1, <2>6, <3>2, NextIdIsNew
    <3>7. /\ revision' \in 0 .. RevisionMax
          /\ reply'.error \in MutationError \cup {"none", "exception"}
      BY <2>1, <2>6, SucceedIsTyped
    <3>8. LeafEffect(InvalidId, data, NoEdge, ordinal)
      <4> DEFINE data2 == [n \in live2 |-> IF n = nextId THEN data ELSE DataOf[n]]
                 edge2 == [n \in live2 |-> IF n = nextId THEN NoEdge ELSE EdgeOf[n]]
      <4>1. ASSUME NEW n \in live2
            PROVE  /\ slots'[slotById'[n]].data = data2[n]
                   /\ slots'[slotById'[n]].parentEdge = edge2[n]
                   /\ slots'[slotById'[n]].children = kids2[n]
        <5>1. CASE n = nextId
          BY <3>1, <3>2, <3>5, <5>1
        <5>2. CASE n # nextId
          <6>1. n \in Live /\ data2[n] = DataOf[n] /\ edge2[n] = EdgeOf[n]
            BY <5>2
          <6>2. slots'[slotById'[n]] = FindRecord(n)
            BY <3>2, <5>2, <6>1, InvParts
          <6> HIDE DEF data2, edge2, kids2, live2
          <6> QED BY <3>5, <6>1, <6>2, InvParts
        <5> QED BY <5>1, <5>2
      <4>2. InvalidId \notin live2
        BY <2>2
      <4>3. DataOf' = data2 /\ EdgeOf' = edge2 /\ KidsOf' = kids2
        <5>1. /\ data2 = [n \in live2 |-> data2[n]]
              /\ edge2 = [n \in live2 |-> edge2[n]]
              /\ kids2 = [q \in live2 \cup {InvalidId} |-> kids2[q]]
          OBVIOUS
        <5> HIDE DEF data2, edge2, kids2, live2
        <5>2. RecordsHold(live2, data2, edge2, kids2)
          BY <3>2, <3>4, <4>1, <4>2, <5>1 DEF RecordsHold
        <5> QED BY <5>2, ViewFromParts
      <4>4. kids2 = [q \in Live \cup {nextId} \cup {InvalidId} |->
                      IF q = InvalidId
                      THEN InsertSibling(KidsOf[InvalidId], ordinal, nextId)
                      ELSE IF q = nextId THEN <<>> ELSE KidsOf[q]]
        BY <2>2
      <4> QED BY <2>6, <3>2, <4>3, <4>4 DEF LeafEffect
    <3> HIDE DEF par2, kids2, live2
    <3>9. Inv'
      BY <3>2, <3>3, <3>4, <3>5, <3>6, <3>7, InvFromParts
    <3> QED BY <1>2, <3>8, <3>9
  <2> QED BY <1>2, <2>5, <2>6 DEF InsertRoot, Fail, Throw
<1> QED BY <1>1, <1>2 DEF InsertRoot

(* insert_child keeps the invariant: it refuses, throws or is rolled back
   out of commit_record with nothing changed, or adds one child. *)
LEMMA InsertChildOutcome ==
  ASSUME Inv, NEW parent \in StableNodeId, NEW data \in NodeData,
         NEW edge \in EdgeData, NEW ordinal \in Ordinal,
         InsertChild(parent, data, edge, ordinal)
  PROVE  /\ Inv'
         /\ \/ Refused(InsertChildError(parent, ordinal))
            \/ /\ InsertChildError(parent, ordinal) = "none"
               /\ LeafEffect(parent, data, edge, ordinal)
<1>1. CASE \/ /\ InsertChildError(parent, ordinal) # "none"
              /\ Fail(InsertChildError(parent, ordinal))
           \/ Throw
  BY <1>1, FailOutcome, ErrorsAreTyped
<1>2. CASE InsertChildError(parent, ordinal) = "none" /\ ~ Throw
  <2>1. RevisionAvailable /\ IdentityAvailable /\ Known(parent)
        /\ InsertionOrdinalOK(Len(Children(parent)), ordinal)
    BY <1>2 DEF InsertChildError
  <2>2. /\ SlotsFit(slots, slotById, freeSlots) /\ WalkableTree
        /\ nextId \in Id \ Live /\ parent \in Live
        /\ KidsOf[parent] = Children(parent)
        /\ parent # InvalidId /\ nextId # InvalidId
        /\ parent # nextId /\ InvalidId \notin Live
    BY <2>1, InvParts, NextIdIsNew, InvalidIsNoId
  <2> DEFINE s == InsertSibling(Children(parent), ordinal, nextId)
             at == InsertionOrdinal(Len(Children(parent)), ordinal) + 1
  <2>3. /\ Children(parent) \in Seq(Id) /\ IsInjective(Children(parent))
        /\ nextId \notin ToSet(Children(parent))
    BY <2>2 DEF WalkableTree, IsForest
  <2>4. /\ at \in 1 .. Len(Children(parent)) + 1
        /\ s \in Seq(Id) /\ IsInjective(s)
        /\ ToSet(s) = ToSet(Children(parent)) \cup {nextId}
    BY <2>1, <2>2, <2>3, InsertSiblingMembers
  <2>5. /\ slots[slotById[parent]].children = Children(parent)
        /\ slots[slotById[parent]] = FindRecord(parent)
        /\ FindRecord(parent) \in NodeRecord /\ FindRecord(parent).id = parent
        /\ slotById[parent] \in DOMAIN slots
    BY <2>2, InvParts DEF Children, SlotsFit, Live
  <2>6. CASE /\ slots' = [slots EXCEPT ![slotById[parent]].children =
                              RemoveAt(InsertSibling(@, ordinal, nextId), at)]
             /\ CommitThrows
             /\ roots' = roots
    <3>1. RemoveAt(s, at) = Children(parent)
      BY <2>2, <2>3, <2>4, RemoveInserted DEF InsertSibling
    <3>2. slots' = [slots EXCEPT ![slotById[parent]].children = Children(parent)]
      BY <2>5, <2>6, <3>1
    <3>3. [FindRecord(parent) EXCEPT !.children = Children(parent)]
             = FindRecord(parent)
      BY <2>5 DEF NodeRecord
    <3>4. slots' = slots
      <4>1. slots' = [slots EXCEPT ![slotById[parent]] = slots[slotById[parent]]]
        BY <2>5, <3>2, <3>3
      <4>2. slots = [i \in DOMAIN slots |-> slots[i]]
        BY <2>2, LenProperties DEF SlotsFit
      <4> QED BY <4>1, <4>2
    <3> QED BY <1>2, <2>6, <3>4, CommitThrowsOutcome
  <2>7. CASE /\ slots' = CommitTable(
                             [slots EXCEPT ![slotById[parent]].children =
                                 InsertSibling(@, ordinal, nextId)],
                             NewRecord(data, parent, edge))
             /\ slotById' = CommitIndex(nextId)
             /\ freeSlots' = CommitFree
             /\ nextId' = nextId + 1
             /\ Succeed(nextId)
             /\ roots' = roots
    <3> DEFINE rec == NewRecord(data, parent, edge)
               grown == [FindRecord(parent) EXCEPT !.children = s]
               table == [slots EXCEPT ![slotById[parent]] = grown]
               live2 == Live \cup {nextId}
               par2 == [n \in live2 |-> IF n = nextId THEN parent ELSE ParentOf[n]]
               kids2 == [q \in Live \cup {nextId} \cup {InvalidId} |->
                          IF q = parent THEN s
                          ELSE IF q = nextId THEN <<>> ELSE KidsOf[q]]
    <3>1. /\ rec \in NodeRecord /\ rec.id = nextId /\ rec.parent = parent
          /\ rec.children = <<>> /\ rec.parentEdge = edge
          /\ rec.data = data
          /\ edge # NoEdge
      BY <2>2, LimitsAssumption, PayloadAssumption
         DEF NewRecord, NodeRecord, StableNodeId
    <3>2. /\ grown \in NodeRecord /\ grown.id = parent /\ grown.children = s
          /\ grown.parent = FindRecord(parent).parent
          /\ grown.parentEdge = FindRecord(parent).parentEdge
          /\ grown.data = FindRecord(parent).data
      <4> HIDE DEF s
      <4> QED BY <2>4, <2>5 DEF NodeRecord
    <3>3. slots' = CommitTable(table, rec)
      BY <2>5, <2>7
    <3> HIDE DEF rec, grown
    <3>4. /\ SlotsFit(table, slotById, freeSlots)
          /\ Len(table) = Len(slots)
          /\ \A n \in Live : table[slotById[n]] =
                IF n = parent THEN grown ELSE slots[slotById[n]]
      <4>1. RecordPut(slots, slotById, parent, grown, table)
        BY <2>2, <3>2 DEF RecordPut, Live
      <4> HIDE DEF table
      <4> QED BY <2>2, <4>1, PutRecordKeepsSlots DEF Live
    <3> HIDE DEF table
    <3>5. /\ SlotsFit(slots', slotById', freeSlots')
          /\ Live' = live2
          /\ \A n \in live2 : slots'[slotById'[n]] =
                IF n = nextId THEN rec ELSE table[slotById[n]]
      <4>1. /\ SlotsFit(CommitTable(table, rec), CommitIndex(nextId), CommitFree)
            /\ DOMAIN CommitIndex(nextId) = Live \cup {nextId}
            /\ CommitTable(table, rec)[CommitIndex(nextId)[nextId]] = rec
            /\ \A n \in Live : CommitTable(table, rec)[CommitIndex(nextId)[n]] =
                               table[slotById[n]]
        <5>1. nextId \in Id /\ nextId \notin Live
          BY <2>2
        <5>2. SlotsFit(table, slotById, freeSlots) /\ Len(table) = Len(slots)
          BY <3>4
        <5>3. rec \in NodeRecord /\ rec.id = nextId
          BY <3>1
        <5> QED BY <5>1, <5>2, <5>3, CommitKeepsSlots, Zenon
      <4>2. Live' = DOMAIN slotById'
        BY DEF Live
      <4>3. SlotsFit(slots', slotById', freeSlots') /\ Live' = live2
        BY <2>7, <3>3, <4>1, <4>2
      <4>4. slots'[slotById'[nextId]] = rec
        BY <2>7, <3>3, <4>1
      <4>5. \A n \in Live : slots'[slotById'[n]] = table[slotById[n]]
        BY <2>7, <3>3, <4>1
      <4>6. nextId \notin Live
        BY <2>2
      <4> QED BY <4>3, <4>4, <4>5, <4>6
    <3>6. IsForest(live2, par2, kids2)
      <4> HIDE DEF s
      <4>1. IsForest(Live, ParentOf, KidsOf)
        BY <2>2 DEF WalkableTree
      <4>2. /\ par2 \in [Live \cup {nextId} -> Live \cup {nextId} \cup {InvalidId}]
            /\ par2[nextId] = parent
            /\ \A n \in Live : par2[n] = ParentOf[n]
        BY <2>2, <4>1 DEF IsForest
      <4>3. /\ kids2[parent] = s /\ kids2[nextId] = <<>>
            /\ \A q \in Live \cup {InvalidId} :
                  q # parent => kids2[q] = KidsOf[q]
        BY <2>2
      <4> HIDE DEF par2, kids2
      <4>4. LeafAdded(Live, ParentOf, KidsOf, nextId, parent, par2, kids2)
        BY <2>2, <2>4, <4>2, <4>3 DEF LeafAdded
      <4> QED BY <4>1, <4>4, AddLeafKeepsForest
    <3>7. roots' = kids2[InvalidId]
      BY <2>2, <2>7, InvParts
    <3>8. ASSUME NEW n \in live2
          PROVE  /\ slots'[slotById'[n]].parent = par2[n]
                 /\ slots'[slotById'[n]].children = kids2[n]
                 /\ slots'[slotById'[n]].parentEdge = NoEdge
                       <=> par2[n] = InvalidId
      <4>1. CASE n = nextId
        BY <2>2, <3>1, <3>5, <4>1
      <4>2. CASE n # nextId
        <5>1. n \in Live /\ par2[n] = ParentOf[n]
              /\ kids2[n] = IF n = parent THEN s ELSE KidsOf[n]
          BY <2>2, <4>2
        <5>2. slots'[slotById'[n]] = IF n = parent THEN grown ELSE FindRecord(n)
          BY <3>4, <3>5, <4>2, <5>1, InvParts
        <5>3. CASE n = parent
          BY <3>2, <5>1, <5>2, <5>3, InvParts DEF Parent
        <5>4. CASE n # parent
          BY <5>1, <5>2, <5>4, InvParts DEF Parent, Children
        <5> QED BY <5>3, <5>4
      <4> QED BY <4>1, <4>2
    <3>9. nextId' \in StableNodeId /\ \A n \in Live' : n < nextId'
      BY <2>1, <2>7, <3>5, NextIdIsNew
    <3>10. /\ revision' \in 0 .. RevisionMax
           /\ reply'.error \in MutationError \cup {"none", "exception"}
      BY <2>1, <2>7, SucceedIsTyped
    <3>11. LeafEffect(parent, data, edge, ordinal)
      <4> DEFINE data2 == [n \in live2 |-> IF n = nextId THEN data ELSE DataOf[n]]
                 edge2 == [n \in live2 |-> IF n = nextId THEN edge ELSE EdgeOf[n]]
      <4>1. ASSUME NEW n \in live2
            PROVE  /\ slots'[slotById'[n]].data = data2[n]
                   /\ slots'[slotById'[n]].parentEdge = edge2[n]
                   /\ slots'[slotById'[n]].children = kids2[n]
        <5>1. CASE n = nextId
          BY <3>1, <3>5, <3>8, <5>1
        <5>2. CASE n # nextId
          <6>1. n \in Live /\ data2[n] = DataOf[n] /\ edge2[n] = EdgeOf[n]
            BY <5>2
          <6>2. slots'[slotById'[n]] = IF n = parent THEN grown ELSE FindRecord(n)
            BY <3>4, <3>5, <5>2, <6>1, InvParts
          <6>3. /\ slots'[slotById'[n]].data = FindRecord(n).data
                /\ slots'[slotById'[n]].parentEdge = FindRecord(n).parentEdge
            BY <3>2, <6>2
          <6> HIDE DEF data2, edge2, kids2, live2
          <6> QED BY <3>8, <6>1, <6>3, InvParts
        <5> QED BY <5>1, <5>2
      <4>2. InvalidId \notin live2
        BY <2>2
      <4>3. DataOf' = data2 /\ EdgeOf' = edge2 /\ KidsOf' = kids2
        <5>1. /\ data2 = [n \in live2 |-> data2[n]]
              /\ edge2 = [n \in live2 |-> edge2[n]]
              /\ kids2 = [q \in live2 \cup {InvalidId} |-> kids2[q]]
          OBVIOUS
        <5> HIDE DEF data2, edge2, kids2, live2
        <5>2. RecordsHold(live2, data2, edge2, kids2)
          BY <3>5, <3>7, <4>1, <4>2, <5>1 DEF RecordsHold
        <5> QED BY <5>2, ViewFromParts
      <4>4. kids2 = [q \in Live \cup {nextId} \cup {InvalidId} |->
                      IF q = parent
                      THEN InsertSibling(KidsOf[parent], ordinal, nextId)
                      ELSE IF q = nextId THEN <<>> ELSE KidsOf[q]]
        BY <2>2
      <4> QED BY <2>7, <3>5, <4>3, <4>4 DEF LeafEffect
    <3> HIDE DEF par2, kids2, live2
    <3>12. Inv'
      BY <3>5, <3>6, <3>7, <3>8, <3>9, <3>10, InvFromParts
    <3> QED BY <1>2, <3>11, <3>12
  <2> QED BY <1>2, <2>6, <2>7 DEF InsertChild, Fail, Throw
<1> QED BY <1>1, <1>2 DEF InsertChild

(* erase(sibling_sequence(record), child_index(...)): the node leaves the  *)
(* sequence it is in and nothing else changes.                             *)
LEMMA NodeLeavesSequence ==
  ASSUME Inv, NEW node \in Live
  PROVE  /\ LeftSequence(node) \in Seq(Id)
         /\ IsInjective(LeftSequence(node))
         /\ ToSet(LeftSequence(node)) = ToSet(KidsOf[ParentOf[node]]) \ {node}
         /\ SlotsFit(TableWithout(node), slotById, freeSlots)
         /\ Parent(node) = InvalidId => RootsWithout(node) = LeftSequence(node)
         /\ Parent(node) # InvalidId => RootsWithout(node) = roots
         /\ \A n \in Live :
               /\ TableWithout(node)[slotById[n]] \in NodeRecord
               /\ TableWithout(node)[slotById[n]].id = n
               /\ TableWithout(node)[slotById[n]].data = FindRecord(n).data
               /\ TableWithout(node)[slotById[n]].parent = Parent(n)
               /\ TableWithout(node)[slotById[n]].parentEdge
                     = FindRecord(n).parentEdge
               /\ TableWithout(node)[slotById[n]].children
                     = IF n = Parent(node) THEN LeftSequence(node)
                       ELSE Children(n)
<1> DEFINE p == Parent(node)
           s == LeftSequence(node)
<1>1. /\ SlotsFit(slots, slotById, freeSlots) /\ InvalidId \notin Live
      /\ p \in Live \cup {InvalidId} /\ ParentOf[node] = p
      /\ KidsOf[InvalidId] = roots
      /\ \A n \in Live :
            /\ FindRecord(n) = slots[slotById[n]]
            /\ FindRecord(n) \in NodeRecord
            /\ FindRecord(n).id = n
            /\ KidsOf[n] = Children(n)
  BY InvParts, InvalidIsNoId
<1>2. KidsOf[p] \in Seq(Id) /\ IsInjective(KidsOf[p]) /\ node \in ToSet(KidsOf[p])
  BY <1>1, InvParts DEF WalkableTree, IsForest
<1>3. s \in Seq(Id) /\ IsInjective(s) /\ ToSet(s) = ToSet(KidsOf[p]) \ {node}
  BY <1>2, EraseSiblingMembers DEF LeftSequence
<1>4. CASE p = InvalidId
  <2>1. TableWithout(node) = slots /\ RootsWithout(node) = s
    BY <1>1, <1>4 DEF TableWithout, RootsWithout, IsRoot, LeftSequence
  <2>2. \A n \in Live : n # p
    BY <1>1, <1>4
  <2> HIDE DEF s, p
  <2> QED BY <1>1, <1>3, <1>4, <2>1, <2>2 DEF s, p, Parent, Children
<1>5. CASE p # InvalidId
  <2> DEFINE grown == [FindRecord(p) EXCEPT !.children = s]
             table == [slots EXCEPT ![slotById[p]] = grown]
  <2>1. p \in Live /\ slotById[p] \in DOMAIN slots
    BY <1>1, <1>5 DEF SlotsFit, Live
  <2>2. /\ grown \in NodeRecord /\ grown.id = p /\ grown.children = s
        /\ grown.parent = Parent(p)
        /\ grown.parentEdge = FindRecord(p).parentEdge
        /\ grown.data = FindRecord(p).data
    <3>1. FindRecord(p) \in NodeRecord /\ FindRecord(p).id = p
      BY <1>1, <2>1
    <3> HIDE DEF s
    <3> QED BY <1>3, <3>1 DEF NodeRecord, Parent
  <2>3. TableWithout(node) = table /\ RootsWithout(node) = roots
    <3>1. slots[slotById[p]].children = KidsOf[p] /\ FindRecord(p) = slots[slotById[p]]
      BY <1>1, <2>1 DEF Children
    <3>2. ~ IsRoot(node)
      BY <1>5 DEF IsRoot
    <3> QED BY <2>1, <3>1, <3>2 DEF TableWithout, RootsWithout, LeftSequence
  <2> HIDE DEF grown, p, s
  <2>4. /\ SlotsFit(table, slotById, freeSlots)
        /\ \A n \in Live : table[slotById[n]] =
              IF n = p THEN grown ELSE slots[slotById[n]]
    <3>1. RecordPut(slots, slotById, p, grown, table)
      BY <2>1, <2>2 DEF RecordPut, Live
    <3> HIDE DEF table
    <3> QED BY <1>1, <3>1, PutRecordKeepsSlots DEF Live
  <2> HIDE DEF table
  <2>5. ASSUME NEW n \in Live
        PROVE  /\ table[slotById[n]] \in NodeRecord
               /\ table[slotById[n]].id = n
               /\ table[slotById[n]].data = FindRecord(n).data
               /\ table[slotById[n]].parent = Parent(n)
               /\ table[slotById[n]].parentEdge = FindRecord(n).parentEdge
               /\ table[slotById[n]].children = IF n = p THEN s ELSE Children(n)
    <3>1. CASE n = p
      BY <2>2, <2>4, <3>1
    <3>2. CASE n # p
      BY <1>1, <2>4, <3>2 DEF Parent, Children
    <3> QED BY <3>1, <3>2
  <2> QED BY <1>1, <1>3, <1>5, <2>3, <2>4, <2>5 DEF p, s
<1> QED BY <1>4, <1>5

(* What the branches of reparent and detach_to_root that change the parent *)
(* do to the tree: node leaves its sequence and joins that of q.           *)
MoveEffect(node, q, ordinal, edge) ==
    /\ UNCHANGED <<slotById, freeSlots, nextId>>
    /\ SlotsFit(slots', slotById, freeSlots)
    /\ \A n \in Live :
          /\ slots'[slotById[n]].data = FindRecord(n).data
          /\ slots'[slotById[n]].parent = IF n = node THEN q ELSE Parent(n)
          /\ slots'[slotById[n]].parentEdge =
                IF n = node THEN edge ELSE FindRecord(n).parentEdge
          /\ slots'[slotById[n]].children =
                IF n = q THEN InsertSibling(Children(q), ordinal, node)
                ELSE IF n = Parent(node) THEN LeftSequence(node)
                ELSE Children(n)
    /\ roots' = IF q = InvalidId THEN InsertSibling(roots, ordinal, node)
                ELSE RootsWithout(node)

(* q may become the place of node: A holds it and its ancestors, not node. *)
MayHold(node, q, A) ==
    /\ q \in Live \cup {InvalidId}
    /\ q # Parent(node)
    /\ A \in SUBSET Live
    /\ node \notin A
    /\ q \in A \cup {InvalidId}
    /\ \A a \in A : ParentOf[a] \in A \cup {InvalidId}

(* A move to another sequence keeps the invariant and leaves the node there.*)
LEMMA MoveOutcome ==
  ASSUME Inv, NEW node \in Live, NEW q, NEW A, MayHold(node, q, A),
         NEW ordinal \in Ordinal,
         InsertionOrdinalOK(Len(KidsOf[q]), ordinal),
         NEW edge, edge = NoEdge <=> q = InvalidId,
         MoveEffect(node, q, ordinal, edge),
         RevisionAvailable, Succeed(node)
  PROVE  Inv' /\ PlaceEffect(node, q, edge, ordinal)
<1> USE DEF MayHold, MoveEffect
<1> DEFINE p == Parent(node)
           t == InsertSibling(KidsOf[q], ordinal, node)
           par2 == [n \in Live |-> IF n = node THEN q ELSE ParentOf[n]]
           kids2 == [r \in Live \cup {InvalidId} |->
                       IF r = q THEN t
                       ELSE IF r = p THEN LeftSequence(node) ELSE KidsOf[r]]
<1>1. /\ IsForest(Live, ParentOf, KidsOf) /\ InvalidId \notin Live
      /\ p \in Live \cup {InvalidId} /\ ParentOf[node] = p /\ p # q
      /\ KidsOf[InvalidId] = roots
      /\ \A n \in Live : ParentOf[n] = Parent(n) /\ KidsOf[n] = Children(n)
      /\ node \in Id
  BY InvParts, InvalidIsNoId DEF WalkableTree
<1>2. /\ KidsOf[q] \in Seq(Id) /\ IsInjective(KidsOf[q])
      /\ node \notin ToSet(KidsOf[q])
  BY <1>1 DEF IsForest
<1>3. t \in Seq(Id) /\ IsInjective(t) /\ ToSet(t) = ToSet(KidsOf[q]) \cup {node}
  BY <1>1, <1>2, InsertSiblingMembers
<1>4. /\ par2 \in [Live -> Live \cup {InvalidId}]
      /\ par2[node] = q
      /\ \A n \in Live : n # node => par2[n] = ParentOf[n]
  BY <1>1 DEF IsForest
<1>5. /\ kids2[p] = LeftSequence(node)
      /\ kids2[q] = t
      /\ \A r \in Live \cup {InvalidId} : r # p /\ r # q => kids2[r] = KidsOf[r]
  BY <1>1
<1>6. /\ LeftSequence(node) \in Seq(Id)
      /\ IsInjective(LeftSequence(node))
      /\ ToSet(LeftSequence(node)) = ToSet(KidsOf[p]) \ {node}
  BY <1>1, NodeLeavesSequence
<1>7. roots' = kids2[InvalidId]
  <2>1. CASE q = InvalidId
    BY <1>1, <1>5, <2>1
  <2>2. CASE q # InvalidId /\ p = InvalidId
    BY <1>5, <2>2, NodeLeavesSequence
  <2>3. CASE q # InvalidId /\ p # InvalidId
    BY <1>1, <1>5, <2>3, NodeLeavesSequence
  <2> QED BY <2>1, <2>2, <2>3
<1>8. PlaceEffect(node, q, edge, ordinal)
  <2> DEFINE edge2 == [n \in Live |-> IF n = node THEN edge ELSE EdgeOf[n]]
  <2>1. ASSUME NEW n \in Live
        PROVE  /\ slots'[slotById'[n]].data = DataOf[n]
               /\ slots'[slotById'[n]].parentEdge = edge2[n]
               /\ slots'[slotById'[n]].children = kids2[n]
    <3>1. /\ DataOf[n] = FindRecord(n).data
          /\ EdgeOf[n] = FindRecord(n).parentEdge
      BY InvParts
    <3>2. slots'[slotById'[n]].children = kids2[n]
      BY <1>1
    <3>3. edge2[n] = IF n = node THEN edge ELSE FindRecord(n).parentEdge
      BY <3>1
    <3> HIDE DEF edge2, kids2
    <3> QED BY <3>1, <3>2, <3>3
  <2>2. /\ DataOf = [n \in Live |-> DataOf[n]]
        /\ edge2 = [n \in Live |-> edge2[n]]
        /\ kids2 = [r \in Live \cup {InvalidId} |-> kids2[r]]
    BY DEF DataOf
  <2>3. Live' = Live
    BY DEF Live
  <2>4. DataOf' = DataOf /\ EdgeOf' = edge2 /\ KidsOf' = kids2
    <3>1. InvalidId \notin Live
      BY <1>1
    <3> HIDE DEF edge2, kids2, MoveEffect, MayHold
    <3>2. RecordsHold(Live, DataOf, edge2, kids2)
      BY <1>7, <2>1, <2>2, <2>3, <3>1 DEF RecordsHold
    <3> QED BY <3>2, ViewFromParts
  <2>5. kids2 = [r \in Live \cup {InvalidId} |->
                    IF r = q
                    THEN IF q = Parent(node)
                         THEN ReorderSibling(KidsOf[q], ordinal, node)
                         ELSE InsertSibling(KidsOf[q], ordinal, node)
                    ELSE IF r = Parent(node) THEN LeftSequence(node)
                    ELSE KidsOf[r]]
    BY <1>1
  <2> QED BY <2>3, <2>4, <2>5 DEF PlaceEffect
<1>9. ASSUME NEW n \in Live
      PROVE  /\ slots'[slotById[n]].parent = par2[n]
             /\ slots'[slotById[n]].children = kids2[n]
             /\ slots'[slotById[n]].parentEdge = NoEdge <=> par2[n] = InvalidId
  <2>1. slots'[slotById[n]].parent = par2[n]
    BY <1>1
  <2>2. slots'[slotById[n]].children = kids2[n]
    BY <1>1
  <2>3. slots'[slotById[n]].parentEdge = NoEdge <=> par2[n] = InvalidId
    <3>1. FindRecord(n).parentEdge = NoEdge <=> Parent(n) = InvalidId
      BY InvParts
    <3> QED BY <1>1, <1>4, <3>1
  <2> QED BY <2>1, <2>2, <2>3
<1> HIDE DEF p, t, par2, kids2
<1>10. NodeMoved(Live, ParentOf, KidsOf, node, q, A, par2, kids2)
  BY <1>1, <1>3, <1>4, <1>5, <1>6 DEF NodeMoved
<1>11. IsForest(Live, par2, kids2)
  BY <1>1, <1>10, MoveKeepsForest
<1>12. Live' = Live /\ nextId' \in StableNodeId /\ \A n \in Live' : n < nextId'
  BY DEF Live, Inv, TypeOK, NextIdFresh
<1>13. /\ revision' \in 0 .. RevisionMax
       /\ reply'.error \in MutationError \cup {"none", "exception"}
  BY SucceedIsTyped
<1>14. /\ IsForest(Live', par2, kids2)
       /\ \A n \in Live' :
             /\ slots'[slotById'[n]].parent = par2[n]
             /\ slots'[slotById'[n]].children = kids2[n]
             /\ slots'[slotById'[n]].parentEdge = NoEdge <=> par2[n] = InvalidId
  BY <1>9, <1>11, <1>12
<1>15. Inv'
  BY <1>7, <1>12, <1>13, <1>14, InvFromParts
<1> QED BY <1>8, <1>15

(* A record field replaced, nothing else: both replace calls.              *)
LEMMA ReplaceOutcome ==
  ASSUME Inv, NEW node \in Live,
         NEW r \in NodeRecord, r.id = node, r.parent = Parent(node),
         r.children = Children(node),
         r.parentEdge = NoEdge <=> Parent(node) = InvalidId,
         slots' = [slots EXCEPT ![slotById[node]] = r],
         UNCHANGED <<slotById, freeSlots, roots, nextId>>,
         RevisionAvailable, Succeed(node)
  PROVE  Inv' /\ PayloadEffect(node, r.data, r.parentEdge)
<1>1. /\ SlotsFit(slots, slotById, freeSlots)
      /\ IsForest(Live, ParentOf, KidsOf)
      /\ KidsOf[InvalidId] = roots
  BY InvParts DEF WalkableTree
<1>2. /\ SlotsFit(slots', slotById, freeSlots)
      /\ \A n \in Live : slots'[slotById[n]] =
            IF n = node THEN r ELSE slots[slotById[n]]
  <2> DEFINE table == [slots EXCEPT ![slotById[node]] = r]
  <2>1. /\ SlotsFit(table, slotById, freeSlots)
        /\ \A n \in Live : table[slotById[n]] =
              IF n = node THEN r ELSE slots[slotById[n]]
    <3>1. RecordPut(slots, slotById, node, r, table)
      BY DEF RecordPut, Live
    <3> HIDE DEF table
    <3> QED BY <1>1, <3>1, PutRecordKeepsSlots DEF Live
  <2> HIDE DEF table
  <2>2. slots' = table
    BY DEF table
  <2> QED BY <2>1, <2>2
<1>3. ASSUME NEW n \in Live
      PROVE  /\ slots'[slotById[n]].parent = ParentOf[n]
             /\ slots'[slotById[n]].children = KidsOf[n]
             /\ slots'[slotById[n]].parentEdge = NoEdge
                   <=> ParentOf[n] = InvalidId
  <2>1. CASE n = node
    BY <1>2, <2>1, InvParts
  <2>2. CASE n # node
    BY <1>2, <2>2, InvParts DEF Parent, Children
  <2> QED BY <2>1, <2>2
<1>4. Live' = Live /\ nextId' \in StableNodeId /\ \A n \in Live' : n < nextId'
  BY DEF Live, Inv, TypeOK, NextIdFresh
<1>5. /\ revision' \in 0 .. RevisionMax
      /\ reply'.error \in MutationError \cup {"none", "exception"}
  BY SucceedIsTyped
<1>6. /\ SlotsFit(slots', slotById', freeSlots')
      /\ IsForest(Live', ParentOf, KidsOf)
      /\ roots' = KidsOf[InvalidId]
      /\ \A n \in Live' :
             /\ slots'[slotById'[n]].parent = ParentOf[n]
             /\ slots'[slotById'[n]].children = KidsOf[n]
             /\ slots'[slotById'[n]].parentEdge = NoEdge
                   <=> ParentOf[n] = InvalidId
  BY <1>1, <1>2, <1>3, <1>4
<1>7. Inv'
  BY <1>4, <1>5, <1>6, InvFromParts
<1>8. PayloadEffect(node, r.data, r.parentEdge)
  <2> DEFINE data2 == [n \in Live |-> IF n = node THEN r.data ELSE DataOf[n]]
             edge2 == [n \in Live |-> IF n = node THEN r.parentEdge ELSE EdgeOf[n]]
  <2>1. ASSUME NEW n \in Live
        PROVE  /\ slots'[slotById'[n]].data = data2[n]
               /\ slots'[slotById'[n]].parentEdge = edge2[n]
               /\ slots'[slotById'[n]].children = KidsOf[n]
    <3>1. /\ DataOf[n] = FindRecord(n).data
          /\ EdgeOf[n] = FindRecord(n).parentEdge
          /\ slots[slotById[n]] = FindRecord(n)
      BY InvParts
    <3> QED BY <1>2, <1>3, <3>1
  <2>2. /\ data2 = [n \in Live |-> data2[n]]
        /\ edge2 = [n \in Live |-> edge2[n]]
        /\ KidsOf = [q \in Live \cup {InvalidId} |-> KidsOf[q]]
    BY DEF KidsOf
  <2>3. InvalidId \notin Live
    BY InvParts
  <2>4. DataOf' = data2 /\ EdgeOf' = edge2 /\ KidsOf' = KidsOf
    <3> HIDE DEF data2, edge2
    <3>1. RecordsHold(Live, data2, edge2, KidsOf)
      BY <1>4, <1>6, <2>1, <2>2, <2>3 DEF RecordsHold
    <3> QED BY <3>1, ViewFromParts
  <2> QED BY <1>4, <2>4 DEF PayloadEffect
<1> QED BY <1>7, <1>8

(* replace_node_data keeps the invariant: at most one payload changes.     *)
LEMMA ReplaceNodeDataOutcome ==
  ASSUME Inv, NEW node \in StableNodeId, NEW data \in NodeData,
         ReplaceNodeData(node, data)
  PROVE  /\ Inv'
         /\ \/ Refused(NodeError(node))
            \/ /\ NodeError(node) = "none"
               /\ PayloadEffect(node, data, EdgeOf[node])
<1>1. CASE (NodeError(node) # "none" /\ Fail(NodeError(node))) \/ Throw
  BY <1>1, FailOutcome, ErrorsAreTyped
<1>2. CASE /\ NodeError(node) = "none"
           /\ slots' = [slots EXCEPT ![slotById[node]].data = data]
           /\ Succeed(node)
           /\ UNCHANGED <<slotById, freeSlots, roots, nextId>>
  <2> DEFINE r == [FindRecord(node) EXCEPT !.data = data]
  <2>1. RevisionAvailable /\ node \in Live
    BY <1>2, InvParts DEF NodeError
  <2>2. FindRecord(node) \in NodeRecord /\ FindRecord(node).id = node
        /\ FindRecord(node) = slots[slotById[node]]
    BY <2>1, InvParts
  <2>3. /\ r \in NodeRecord /\ r.id = node /\ r.parent = Parent(node)
        /\ r.children = Children(node)
        /\ r.parentEdge = FindRecord(node).parentEdge
        /\ r.data = data
    BY <2>2 DEF NodeRecord, Parent, Children
  <2>4. slots' = [slots EXCEPT ![slotById[node]] = r]
    BY <1>2, <2>2
  <2> HIDE DEF r
  <2>5. r.parentEdge = NoEdge <=> Parent(node) = InvalidId
    BY <2>1, <2>3, InvParts
  <2>6. Inv' /\ PayloadEffect(node, r.data, r.parentEdge)
    BY <1>2, <2>1, <2>3, <2>4, <2>5, ReplaceOutcome
  <2>7. r.data = data /\ r.parentEdge = EdgeOf[node]
    BY <2>1, <2>3, InvParts
  <2> QED BY <1>2, <2>6, <2>7
<1> QED BY <1>1, <1>2 DEF ReplaceNodeData

(* replace_parent_edge_data keeps the invariant: at most one edge changes,
   that of a node which has one already. *)
LEMMA ReplaceParentEdgeDataOutcome ==
  ASSUME Inv, NEW node \in StableNodeId, NEW edge \in EdgeData,
         ReplaceParentEdgeData(node, edge)
  PROVE  /\ Inv'
         /\ \/ Refused(ReplaceEdgeError(node))
            \/ /\ ReplaceEdgeError(node) = "none"
               /\ PayloadEffect(node, DataOf[node], edge)
<1>1. CASE (ReplaceEdgeError(node) # "none" /\ Fail(ReplaceEdgeError(node))) \/ Throw
  BY <1>1, FailOutcome, ErrorsAreTyped
<1>2. CASE /\ ReplaceEdgeError(node) = "none"
           /\ slots' = [slots EXCEPT ![slotById[node]].parentEdge = edge]
           /\ Succeed(node)
           /\ UNCHANGED <<slotById, freeSlots, roots, nextId>>
  <2> DEFINE r == [FindRecord(node) EXCEPT !.parentEdge = edge]
  <2>1. RevisionAvailable /\ node \in Live /\ Parent(node) # InvalidId
    BY <1>2, InvParts DEF ReplaceEdgeError, NodeError, IsRoot
  <2>2. FindRecord(node) \in NodeRecord /\ FindRecord(node).id = node
        /\ FindRecord(node) = slots[slotById[node]]
    BY <2>1, InvParts
  <2>3. /\ r \in NodeRecord /\ r.id = node /\ r.parent = Parent(node)
        /\ r.children = Children(node)
        /\ r.parentEdge # NoEdge /\ r.parentEdge = edge
        /\ r.data = FindRecord(node).data
    BY <2>2, PayloadAssumption DEF NodeRecord, Parent, Children
  <2>4. slots' = [slots EXCEPT ![slotById[node]] = r]
    BY <1>2, <2>2
  <2> HIDE DEF r
  <2>5. r.parentEdge = NoEdge <=> Parent(node) = InvalidId
    BY <2>1, <2>3
  <2>6. Inv' /\ PayloadEffect(node, r.data, r.parentEdge)
    BY <1>2, <2>1, <2>3, <2>4, <2>5, ReplaceOutcome
  <2>7. r.data = DataOf[node] /\ r.parentEdge = edge
    BY <2>1, <2>3, InvParts
  <2> QED BY <1>2, <2>6, <2>7
<1> QED BY <1>1, <1>2 DEF ReplaceParentEdgeData

(* erase_subtree keeps the invariant: the vector removed holds exactly the
   subtree, so what stays is closed under parents and children, and the
   vacated slots join the free list once each.  It takes those nodes and
   reports their number. *)
LEMMA EraseSubtreeOutcome ==
  ASSUME Inv, NEW node \in StableNodeId, EraseSubtree(node)
  PROVE  /\ Inv'
         /\ \/ Refused(NodeError(node))
            \/ /\ NodeError(node) = "none"
               /\ EraseEffect(node, ToSet(RemovedNodes(node)))
               /\ Succeed(Len(RemovedNodes(node)))
<1> DEFINE removed == RemovedNodes(node)
           gone == ToSet(removed)
           left == Live \ gone
<1>1. CASE (NodeError(node) # "none" /\ Fail(NodeError(node))) \/ Throw
  BY <1>1, FailOutcome, ErrorsAreTyped
<1>2. CASE /\ NodeError(node) = "none"
           /\ roots' = RootsWithout(node)
           /\ slots' = [s \in DOMAIN slots |->
                           IF s \in ToSet(VacatedSlots(removed))
                           THEN NoRecord ELSE TableWithout(node)[s]]
           /\ slotById' = [n \in left |-> slotById[n]]
           /\ freeSlots' = freeSlots \o VacatedSlots(removed)
           /\ Succeed(Len(removed))
           /\ UNCHANGED nextId
  <2> DEFINE table == TableWithout(node)
             par2 == [n \in left |-> ParentOf[n]]
             kids2 == [q \in left \cup {InvalidId} |->
                         IF q = Parent(node) THEN LeftSequence(node)
                         ELSE KidsOf[q]]
  <2>1. /\ RevisionAvailable /\ node \in Live /\ WalkableTree
        /\ ParentOf[node] = Parent(node) /\ InvalidId \notin Live
        /\ KidsOf[InvalidId] = roots
    BY <1>2, InvParts, InvalidIsNoId DEF NodeError
  <2>2. /\ removed \in Seq(Live) /\ IsInjective(removed) /\ node \in gone
        /\ \A m \in Live : ParentOf[m] \in gone => m \in gone
        /\ \A m \in gone \ {node} : ParentOf[m] \in gone
        /\ gone \in SUBSET Live
    BY <2>1, RemovedIsSubtree, MembersOfSeq
  <2> HIDE DEF removed
  <2>3. SlotsFit(table, slotById, freeSlots) /\ DOMAIN table = DOMAIN slots
    <3>1. DOMAIN table = DOMAIN slots
      BY DEF TableWithout
    <3> QED BY <2>1, <3>1, NodeLeavesSequence
  <2>4. /\ SlotsFit(slots', slotById', freeSlots')
        /\ \A n \in left : slots'[slotById[n]] = table[slotById[n]]
    <3> HIDE DEF table
    <3>1. slots' = [s \in DOMAIN table |->
                       IF s \in ToSet(VacatedSlots(removed))
                       THEN NoRecord ELSE table[s]]
      BY <1>2, <2>3 DEF table
    <3>2. /\ SlotsFit([s \in DOMAIN table |->
                          IF s \in ToSet(VacatedSlots(removed))
                          THEN NoRecord ELSE table[s]],
                       [n \in Live \ ToSet(removed) |-> slotById[n]],
                       freeSlots \o VacatedSlots(removed))
          /\ \A n \in Live \ ToSet(removed) :
                [s \in DOMAIN table |->
                    IF s \in ToSet(VacatedSlots(removed))
                    THEN NoRecord ELSE table[s]][slotById[n]]
                = table[slotById[n]]
      BY <2>2, <2>3, VacateKeepsSlots, Zenon
    <3> QED BY <1>2, <3>1, <3>2
  <2>5. Live' = left /\ \A n \in left : slotById'[n] = slotById[n]
    BY <1>2 DEF Live
  <2>6. SubtreeGone(Live, ParentOf, KidsOf, node, gone, par2, kids2)
    <3>1. \A q \in left \cup {InvalidId} : q # ParentOf[node] => kids2[q] = KidsOf[q]
      BY <2>1
    <3>2. \A q \in left \cup {InvalidId} : q = ParentOf[node] =>
             kids2[q] = LeftSequence(node)
      BY <2>1
    <3>3. /\ LeftSequence(node) \in Seq(Id)
          /\ IsInjective(LeftSequence(node))
          /\ ToSet(LeftSequence(node)) = ToSet(KidsOf[ParentOf[node]]) \ {node}
      BY <2>1, NodeLeavesSequence
    <3>4. par2 = [n \in Live \ gone |-> ParentOf[n]]
      OBVIOUS
    <3> HIDE DEF par2, kids2, gone
    <3> QED BY <2>2, <3>1, <3>2, <3>3, <3>4 DEF SubtreeGone
  <2>7. IsForest(left, par2, kids2)
    <3> HIDE DEF par2, kids2, gone
    <3> QED BY <2>1, <2>6, EraseKeepsForest DEF WalkableTree
  <2>8. roots' = kids2[InvalidId]
    <3>1. CASE Parent(node) = InvalidId
      BY <1>2, <2>1, <3>1, NodeLeavesSequence
    <3>2. CASE Parent(node) # InvalidId
      BY <1>2, <2>1, <3>2, NodeLeavesSequence
    <3> QED BY <3>1, <3>2
  <2>9. ASSUME NEW n \in left
        PROVE  /\ slots'[slotById'[n]].parent = par2[n]
               /\ slots'[slotById'[n]].children = kids2[n]
               /\ slots'[slotById'[n]].parentEdge = NoEdge
                     <=> par2[n] = InvalidId
    <3>1. n \in Live /\ par2[n] = ParentOf[n]
          /\ kids2[n] = IF n = Parent(node) THEN LeftSequence(node)
                        ELSE KidsOf[n]
      OBVIOUS
    <3>2. /\ slots'[slotById'[n]] = table[slotById[n]]
          /\ ParentOf[n] = Parent(n) /\ KidsOf[n] = Children(n)
          /\ FindRecord(n).parentEdge = NoEdge <=> Parent(n) = InvalidId
      BY <2>4, <2>5, <3>1, InvParts
    <3>3. /\ table[slotById[n]].parent = Parent(n)
          /\ table[slotById[n]].parentEdge = FindRecord(n).parentEdge
          /\ table[slotById[n]].children
                = IF n = Parent(node) THEN LeftSequence(node) ELSE Children(n)
      BY <2>1, <3>1, NodeLeavesSequence
    <3> HIDE DEF par2, kids2, table
    <3> QED BY <3>1, <3>2, <3>3
  <2>10. nextId' \in StableNodeId /\ \A n \in Live' : n < nextId'
    BY <1>2, <2>5 DEF Inv, TypeOK, NextIdFresh
  <2>11. /\ revision' \in 0 .. RevisionMax
         /\ reply'.error \in MutationError \cup {"none", "exception"}
    BY <1>2, <2>1, SucceedIsTyped
  <2>12. EraseEffect(node, gone)
    <3> DEFINE data2 == [n \in left |-> DataOf[n]]
               edge2 == [n \in left |-> EdgeOf[n]]
    <3>1. ASSUME NEW n \in left
          PROVE  /\ slots'[slotById'[n]].data = data2[n]
                 /\ slots'[slotById'[n]].parentEdge = edge2[n]
                 /\ slots'[slotById'[n]].children = kids2[n]
      <4>1. n \in Live /\ data2[n] = DataOf[n] /\ edge2[n] = EdgeOf[n]
        OBVIOUS
      <4>2. /\ slots'[slotById'[n]] = table[slotById[n]]
            /\ DataOf[n] = FindRecord(n).data
            /\ EdgeOf[n] = FindRecord(n).parentEdge
        BY <2>4, <2>5, <4>1, InvParts
      <4>3. /\ table[slotById[n]].data = FindRecord(n).data
            /\ table[slotById[n]].parentEdge = FindRecord(n).parentEdge
        BY <2>1, <4>1, NodeLeavesSequence
      <4> HIDE DEF data2, edge2, kids2, table, left
      <4> QED BY <2>9, <4>1, <4>2, <4>3
    <3>2. /\ data2 = [n \in left |-> data2[n]]
          /\ edge2 = [n \in left |-> edge2[n]]
          /\ kids2 = [q \in left \cup {InvalidId} |-> kids2[q]]
      OBVIOUS
    <3>3. InvalidId \notin left
      BY <2>1
    <3>4. DataOf' = data2 /\ EdgeOf' = edge2 /\ KidsOf' = kids2
      <4> HIDE DEF data2, edge2, kids2, left
      <4>1. RecordsHold(left, data2, edge2, kids2)
        BY <2>5, <2>8, <3>1, <3>2, <3>3 DEF RecordsHold
      <4> QED BY <4>1, ViewFromParts
    <3> QED BY <1>2, <2>5, <3>4 DEF EraseEffect
  <2> HIDE DEF par2, kids2, left
  <2>13. /\ IsForest(Live', par2, kids2)
         /\ \A n \in Live' :
               /\ slots'[slotById'[n]].parent = par2[n]
               /\ slots'[slotById'[n]].children = kids2[n]
               /\ slots'[slotById'[n]].parentEdge = NoEdge
                     <=> par2[n] = InvalidId
    BY <2>5, <2>7, <2>9
  <2>14. Inv'
    BY <2>4, <2>8, <2>10, <2>11, <2>13, InvFromParts
  <2> QED BY <1>2, <2>12, <2>14 DEF removed
<1> QED BY <1>1, <1>2 DEF EraseSubtree

(* No node is its own parent.                                              *)
LEMMA ParentIsAnother ==
  ASSUME Inv, NEW node \in Live
  PROVE  Parent(node) # node
<1>1. {node} \in SUBSET Live /\ {node} # {}
  OBVIOUS
<1>2. \E n \in {node} : Parent(n) \notin {node}
  BY <1>1 DEF Inv, Acyclic
<1> QED BY <1>2

(* A move within one sequence: how the branches of reparent and            *)
(* detach_to_root that keep the parent compose the steps above.            *)
LEMMA ReorderOutcome ==
  ASSUME Inv, NEW node \in Live, NEW ordinal \in Ordinal,
         NEW edge, edge = NoEdge <=> Parent(node) = InvalidId,
         MoveOrdinalOK(Len(KidsOf[Parent(node)]), ordinal),
         UNCHANGED <<slotById, freeSlots, nextId>>,
         RevisionAvailable, Succeed(node),
         SlotsFit(slots', slotById', freeSlots'),
         \A n \in Live :
            /\ slots'[slotById[n]].parent = Parent(n)
            /\ slots'[slotById[n]].data = FindRecord(n).data
            /\ slots'[slotById[n]].parentEdge =
                  IF n = node THEN edge ELSE FindRecord(n).parentEdge
            /\ slots'[slotById[n]].children =
                  IF n = Parent(node)
                  THEN ReorderSibling(Children(n), ordinal, node)
                  ELSE Children(n),
         roots' = IF Parent(node) = InvalidId
                  THEN ReorderSibling(roots, ordinal, node) ELSE roots
  PROVE  Inv' /\ PlaceEffect(node, Parent(node), edge, ordinal)
<1> DEFINE p == Parent(node)
           t == ReorderSibling(KidsOf[p], ordinal, node)
           kids2 == [q \in Live \cup {InvalidId} |->
                       IF q = p THEN t ELSE KidsOf[q]]
<1>1. /\ IsForest(Live, ParentOf, KidsOf) /\ InvalidId \notin Live
      /\ p \in Live \cup {InvalidId} /\ ParentOf[node] = p
      /\ KidsOf[InvalidId] = roots
      /\ \A n \in Live :
            /\ ParentOf[n] = Parent(n) /\ KidsOf[n] = Children(n)
            /\ DataOf[n] = FindRecord(n).data
            /\ EdgeOf[n] = FindRecord(n).parentEdge
            /\ EdgeOf[n] = NoEdge <=> Parent(n) = InvalidId
  BY InvParts, InvalidIsNoId DEF WalkableTree
<1>2. /\ KidsOf[p] \in Seq(Id) /\ IsInjective(KidsOf[p])
      /\ node \in ToSet(KidsOf[p])
  BY <1>1 DEF IsForest
<1>3. t \in Seq(Id) /\ IsInjective(t) /\ ToSet(t) = ToSet(KidsOf[p])
  BY <1>2, ReorderSiblingMembers
<1>4. kids2[p] = t /\ \A q \in Live \cup {InvalidId} : q # p => kids2[q] = KidsOf[q]
  BY <1>1
<1>5. roots' = kids2[InvalidId]
  BY <1>1
<1>6. ASSUME NEW n \in Live
      PROVE  /\ slots'[slotById[n]].parent = ParentOf[n]
             /\ slots'[slotById[n]].children = kids2[n]
             /\ slots'[slotById[n]].parentEdge = NoEdge
                   <=> ParentOf[n] = InvalidId
  <2>1. slots'[slotById[n]].children = kids2[n]
    BY <1>1
  <2>2. slots'[slotById[n]].parentEdge = NoEdge <=> Parent(n) = InvalidId
    BY <1>1
  <2> HIDE DEF kids2
  <2> QED BY <1>1, <2>1, <2>2
<1>7. PlaceEffect(node, p, edge, ordinal)
  <2> DEFINE edge2 == [n \in Live |-> IF n = node THEN edge ELSE EdgeOf[n]]
  <2>1. ASSUME NEW n \in Live
        PROVE  /\ slots'[slotById'[n]].data = DataOf[n]
               /\ slots'[slotById'[n]].parentEdge = edge2[n]
               /\ slots'[slotById'[n]].children = kids2[n]
    <3>1. edge2[n] = IF n = node THEN edge ELSE FindRecord(n).parentEdge
      BY <1>1
    <3>2. slots'[slotById'[n]].children = kids2[n]
      BY <1>6
    <3> HIDE DEF edge2, kids2
    <3> QED BY <1>1, <3>1, <3>2
  <2>2. /\ DataOf = [n \in Live |-> DataOf[n]]
        /\ edge2 = [n \in Live |-> edge2[n]]
        /\ kids2 = [q \in Live \cup {InvalidId} |-> kids2[q]]
    BY DEF DataOf
  <2>3. Live' = Live
    BY DEF Live
  <2>4. DataOf' = DataOf /\ EdgeOf' = edge2 /\ KidsOf' = kids2
    <3>1. InvalidId \notin Live
      BY <1>1
    <3> HIDE DEF edge2, kids2
    <3>2. RecordsHold(Live, DataOf, edge2, kids2)
      BY <1>5, <2>1, <2>2, <2>3, <3>1 DEF RecordsHold
    <3> QED BY <3>2, ViewFromParts
  <2>5. kids2 = [r \in Live \cup {InvalidId} |->
                    IF r = p
                    THEN IF p = Parent(node)
                         THEN ReorderSibling(KidsOf[p], ordinal, node)
                         ELSE InsertSibling(KidsOf[p], ordinal, node)
                    ELSE IF r = Parent(node) THEN LeftSequence(node)
                    ELSE KidsOf[r]]
    OBVIOUS
  <2> QED BY <2>3, <2>4, <2>5 DEF PlaceEffect
<1> HIDE DEF p, t, kids2
<1>8. PlaceReordered(Live, KidsOf, p, kids2)
  BY <1>1, <1>3, <1>4 DEF PlaceReordered
<1>9. IsForest(Live, ParentOf, kids2)
  BY <1>1, <1>8, ReorderKeepsForest
<1>10. Live' = Live /\ nextId' \in StableNodeId /\ \A n \in Live' : n < nextId'
  BY DEF Live, Inv, TypeOK, NextIdFresh
<1>11. /\ revision' \in 0 .. RevisionMax
       /\ reply'.error \in MutationError \cup {"none", "exception"}
  BY SucceedIsTyped
<1>12. /\ IsForest(Live', ParentOf, kids2)
       /\ \A n \in Live' :
             /\ slots'[slotById'[n]].parent = ParentOf[n]
             /\ slots'[slotById'[n]].children = kids2[n]
             /\ slots'[slotById'[n]].parentEdge = NoEdge
                   <=> ParentOf[n] = InvalidId
  BY <1>6, <1>9, <1>10
<1>13. Inv'
  BY <1>5, <1>10, <1>11, <1>12, InvFromParts
<1> QED BY <1>7, <1>13 DEF p

(* detach_to_root keeps the invariant: a root changes place among the roots,
   any other node leaves its parent's children and loses its edge, or nothing
   changes. *)
LEMMA DetachToRootOutcome ==
  ASSUME Inv, NEW node \in StableNodeId, NEW ordinal \in Ordinal,
         DetachToRoot(node, ordinal)
  PROVE  /\ Inv'
         /\ \/ Refused(DetachError(node, ordinal))
            \/ /\ DetachError(node, ordinal) = "none"
               /\ PlaceEffect(node, InvalidId, NoEdge, ordinal)
<1>1. CASE \/ DetachError(node, ordinal) # "none" /\ Fail(DetachError(node, ordinal))
           \/ Throw
  BY <1>1, FailOutcome, ErrorsAreTyped
<1>2. CASE /\ DetachError(node, ordinal) = "none"
           /\ IsRoot(node)
           /\ roots' = ReorderSibling(roots, ordinal, node)
           /\ Succeed(node)
           /\ UNCHANGED <<slots, slotById, freeSlots, nextId>>
  <2>1. /\ RevisionAvailable /\ node \in Live /\ Parent(node) = InvalidId
        /\ KidsOf[Parent(node)] = roots
        /\ MoveOrdinalOK(Len(KidsOf[Parent(node)]), ordinal)
        /\ NoEdge = NoEdge <=> Parent(node) = InvalidId
    BY <1>2, InvParts DEF DetachError, IsRoot
  <2>2. SlotsFit(slots', slotById', freeSlots')
    BY <1>2, InvParts
  <2>3. \A n \in Live :
            /\ slots'[slotById[n]].parent = Parent(n)
            /\ slots'[slotById[n]].data = FindRecord(n).data
            /\ slots'[slotById[n]].parentEdge =
                  IF n = node THEN NoEdge ELSE FindRecord(n).parentEdge
            /\ slots'[slotById[n]].children = Children(n)
            /\ n # Parent(node)
    BY <1>2, <2>1, InvParts DEF Parent, Children
  <2>4. Inv' /\ PlaceEffect(node, Parent(node), NoEdge, ordinal)
    BY <1>2, <2>1, <2>2, <2>3, ReorderOutcome
  <2> QED BY <1>2, <2>1, <2>4
<1>3. CASE /\ DetachError(node, ordinal) = "none"
           /\ ~ IsRoot(node)
           /\ roots' = InsertSibling(roots, ordinal, node)
           /\ slots' = [TableWithout(node) EXCEPT
                           ![slotById[node]].parent = InvalidId,
                           ![slotById[node]].parentEdge = NoEdge]
           /\ Succeed(node)
           /\ UNCHANGED <<slotById, freeSlots, nextId>>
  <2> DEFINE table == TableWithout(node)
             r == [table[slotById[node]] EXCEPT !.parent = InvalidId,
                                                !.parentEdge = NoEdge]
  <2>1. /\ RevisionAvailable /\ node \in Live /\ Parent(node) # InvalidId
        /\ KidsOf[InvalidId] = roots
        /\ InsertionOrdinalOK(Len(KidsOf[InvalidId]), ordinal)
        /\ node # InvalidId
    BY <1>3, InvParts DEF DetachError, IsRoot
  <2>2. /\ SlotsFit(table, slotById, freeSlots)
        /\ \A n \in Live :
              /\ table[slotById[n]] \in NodeRecord
              /\ table[slotById[n]].id = n
              /\ table[slotById[n]].data = FindRecord(n).data
              /\ table[slotById[n]].parent = Parent(n)
              /\ table[slotById[n]].parentEdge = FindRecord(n).parentEdge
              /\ table[slotById[n]].children =
                    IF n = Parent(node) THEN LeftSequence(node) ELSE Children(n)
    BY <2>1, NodeLeavesSequence
  <2> HIDE DEF table
  <2>3. slots' = [table EXCEPT ![slotById[node]] = r]
    <3>1. slotById[node] \in DOMAIN table
      BY <2>1, <2>2 DEF SlotsFit, Live
    <3> QED BY <1>3, <3>1 DEF table
  <2>4. /\ r \in NodeRecord /\ r.id = node
        /\ r.parent = InvalidId /\ r.parentEdge = NoEdge
        /\ r.children = table[slotById[node]].children
        /\ r.data = table[slotById[node]].data
    <3>1. table[slotById[node]] \in NodeRecord /\ table[slotById[node]].id = node
      BY <2>1, <2>2
    <3>2. InvalidId \in StableNodeId /\ NoEdge \in EdgeData \cup {NoEdge}
      BY LimitsAssumption DEF StableNodeId
    <3> QED BY <3>1, <3>2 DEF NodeRecord
  <2> HIDE DEF r
  <2>5. RecordPut(table, slotById, node, r, slots')
    BY <2>1, <2>3, <2>4 DEF RecordPut, Live
  <2>6. /\ SlotsFit(slots', slotById, freeSlots)
        /\ slots'[slotById[node]] = r
        /\ \A n \in Live : n # node => slots'[slotById[n]] = table[slotById[n]]
    BY <2>2, <2>5, PutRecordKeepsSlots DEF Live
  <2>7. ASSUME NEW n \in Live
        PROVE  /\ slots'[slotById[n]].data = FindRecord(n).data
               /\ slots'[slotById[n]].parent =
                     IF n = node THEN InvalidId ELSE Parent(n)
               /\ slots'[slotById[n]].parentEdge =
                     IF n = node THEN NoEdge ELSE FindRecord(n).parentEdge
               /\ slots'[slotById[n]].children =
                     IF n = InvalidId
                     THEN InsertSibling(Children(InvalidId), ordinal, node)
                     ELSE IF n = Parent(node) THEN LeftSequence(node)
                     ELSE Children(n)
    <3>1. n # InvalidId
      BY InvParts
    <3>2. CASE n = node
      BY <2>2, <2>4, <2>6, <3>1, <3>2
    <3>3. CASE n # node
      BY <2>2, <2>6, <3>1, <3>3
    <3> QED BY <3>2, <3>3
  <2>8. MayHold(node, InvalidId, {})
    BY <2>1 DEF MayHold
  <2>9. MoveEffect(node, InvalidId, ordinal, NoEdge)
    BY <1>3, <2>6, <2>7 DEF MoveEffect
  <2>10. Inv' /\ PlaceEffect(node, InvalidId, NoEdge, ordinal)
    BY <1>3, <2>1, <2>8, <2>9, MoveOutcome
  <2> QED BY <1>3, <2>10
<1> QED BY <1>1, <1>2, <1>3 DEF DetachToRoot

(* reparent keeps the invariant: the cycle walk found no ancestor of the new
   parent to be the node, so the move closes no cycle; else nothing changes. *)
LEMMA ReparentOutcome ==
  ASSUME Inv, NEW node \in StableNodeId, NEW newParent \in StableNodeId,
         NEW edge \in EdgeData, NEW ordinal \in Ordinal,
         Reparent(node, newParent, edge, ordinal)
  PROVE  /\ Inv'
         /\ \/ Refused(ReparentError(node, newParent, ordinal))
            \/ /\ ReparentError(node, newParent, ordinal) = "none"
               /\ PlaceEffect(node, newParent, edge, ordinal)
<1>1. CASE \/ /\ ReparentError(node, newParent, ordinal) # "none"
              /\ Fail(ReparentError(node, newParent, ordinal))
           \/ Throw
  BY <1>1, FailOutcome, ErrorsAreTyped
<1>2. CASE /\ ReparentError(node, newParent, ordinal) = "none"
           /\ Parent(node) = newParent
           /\ slots' = Reordered(node, ordinal, edge)
           /\ Succeed(node)
           /\ UNCHANGED <<slotById, freeSlots, roots, nextId>>
  <2> DEFINE p == Parent(node)
             s == ReorderSibling(Children(p), ordinal, node)
             r1 == [FindRecord(p) EXCEPT !.children = s]
             t1 == [slots EXCEPT ![slotById[p]] = r1]
             r2 == [FindRecord(node) EXCEPT !.parentEdge = edge]
  <2>1. /\ RevisionAvailable /\ node \in Live /\ p \in Live
        /\ KidsOf[p] = Children(p) /\ p # InvalidId /\ node # p
        /\ MoveOrdinalOK(Len(KidsOf[p]), ordinal)
    BY <1>2, InvParts DEF ReparentError
  <2>2. /\ SlotsFit(slots, slotById, freeSlots)
        /\ \A n \in Live :
              /\ slots[slotById[n]] = FindRecord(n)
              /\ FindRecord(n) \in NodeRecord /\ FindRecord(n).id = n
              /\ slotById[n] \in DOMAIN slots
    BY InvParts DEF SlotsFit, Live
  <2>3. s \in Seq(Id)
    <3>1. KidsOf[p] \in Seq(Id) /\ node \in ToSet(KidsOf[p])
      BY <2>1, InvParts DEF WalkableTree, IsForest
    <3> QED BY <2>1, <3>1, ReorderSiblingMembers
  <2>4. slotById[p] # slotById[node]
    BY <2>1, <2>2
  <2>5. slots' = [t1 EXCEPT ![slotById[node]] = r2]
    <3>1. /\ slots[slotById[p]].children = Children(p)
          /\ slots[slotById[p]] = FindRecord(p)
          /\ slots[slotById[node]] = FindRecord(node)
      BY <2>1, <2>2 DEF Children
    <3> HIDE DEF p
    <3>2. [slots EXCEPT ![slotById[p]].children = ReorderSibling(@, ordinal, node)]
             = t1
      BY <2>1, <2>2, <3>1
    <3>3. slots' = [t1 EXCEPT ![slotById[node]].parentEdge = edge]
      BY <1>2, <3>2 DEF Reordered, p
    <3>4. t1[slotById[node]] = FindRecord(node)
      BY <2>1, <2>2, <2>4, <3>1
    <3> HIDE DEF t1
    <3> QED BY <3>3, <3>4
  <2>6. /\ r1 \in NodeRecord /\ r1.id = p /\ r1.children = s
        /\ r1.parent = Parent(p) /\ r1.parentEdge = FindRecord(p).parentEdge
        /\ r1.data = FindRecord(p).data
    <3>1. FindRecord(p) \in NodeRecord /\ FindRecord(p).id = p
      BY <2>1, <2>2
    <3> HIDE DEF s
    <3> QED BY <2>3, <3>1 DEF NodeRecord, Parent
  <2>7. /\ r2 \in NodeRecord /\ r2.id = node /\ r2.children = Children(node)
        /\ r2.parent = Parent(node) /\ r2.parentEdge = edge
        /\ r2.data = FindRecord(node).data
        /\ edge # NoEdge
    <3>1. FindRecord(node) \in NodeRecord /\ FindRecord(node).id = node
      BY <2>1, <2>2
    <3> QED BY <3>1, PayloadAssumption DEF NodeRecord, Parent, Children
  <2> HIDE DEF p, s, r1, r2
  <2>8. /\ SlotsFit(t1, slotById, freeSlots)
        /\ t1[slotById[p]] = r1
        /\ \A n \in Live : n # p => t1[slotById[n]] = slots[slotById[n]]
    <3>1. RecordPut(slots, slotById, p, r1, t1)
      BY <2>1, <2>6 DEF RecordPut, Live
    <3> HIDE DEF t1
    <3> QED BY <2>2, <3>1, PutRecordKeepsSlots DEF Live
  <2> HIDE DEF t1
  <2>9. /\ SlotsFit(slots', slotById, freeSlots)
        /\ slots'[slotById[node]] = r2
        /\ \A n \in Live : n # node => slots'[slotById[n]] = t1[slotById[n]]
    <3>1. RecordPut(t1, slotById, node, r2, slots')
      BY <2>1, <2>5, <2>7 DEF RecordPut, Live
    <3> QED BY <2>8, <3>1, PutRecordKeepsSlots DEF Live
  <2>10. ASSUME NEW n \in Live
         PROVE  /\ slots'[slotById[n]].parent = Parent(n)
                /\ slots'[slotById[n]].data = FindRecord(n).data
                /\ slots'[slotById[n]].parentEdge =
                      IF n = node THEN edge ELSE FindRecord(n).parentEdge
                /\ slots'[slotById[n]].children =
                      IF n = p THEN ReorderSibling(Children(n), ordinal, node)
                      ELSE Children(n)
    <3>1. CASE n = node
      BY <2>1, <2>7, <2>9, <3>1 DEF p
    <3>2. CASE n = p
      BY <2>1, <2>6, <2>8, <2>9, <3>2 DEF s
    <3>3. CASE n # node /\ n # p
      BY <2>2, <2>8, <2>9, <3>3 DEF Parent, Children
    <3> QED BY <3>1, <3>2, <3>3
  <2>11. edge = NoEdge <=> Parent(node) = InvalidId
    BY <2>1, <2>7 DEF p
  <2>12. /\ roots' = IF Parent(node) = InvalidId
                     THEN ReorderSibling(roots, ordinal, node) ELSE roots
         /\ SlotsFit(slots', slotById', freeSlots')
    BY <1>2, <2>1, <2>9 DEF p
  <2>13. \A n \in Live :
            /\ slots'[slotById[n]].parent = Parent(n)
            /\ slots'[slotById[n]].data = FindRecord(n).data
            /\ slots'[slotById[n]].parentEdge =
                  IF n = node THEN edge ELSE FindRecord(n).parentEdge
            /\ slots'[slotById[n]].children =
                  IF n = Parent(node)
                  THEN ReorderSibling(Children(n), ordinal, node)
                  ELSE Children(n)
    BY <2>10 DEF p
  <2>14. MoveOrdinalOK(Len(KidsOf[Parent(node)]), ordinal)
    BY <2>1 DEF p
  <2>15. Inv' /\ PlaceEffect(node, Parent(node), edge, ordinal)
    BY <1>2, <2>1, <2>11, <2>12, <2>13, <2>14, ReorderOutcome
  <2> QED BY <1>2, <2>15
<1>3. CASE /\ ReparentError(node, newParent, ordinal) = "none"
           /\ Parent(node) # newParent
           /\ slots' = Moved(node, newParent, ordinal, edge)
           /\ roots' = RootsWithout(node)
           /\ Succeed(node)
           /\ UNCHANGED <<slotById, freeSlots, nextId>>
  <2> DEFINE q == newParent
             table == TableWithout(node)
             s == InsertSibling(Children(q), ordinal, node)
             r1 == [table[slotById[q]] EXCEPT !.children = s]
             t1 == [table EXCEPT ![slotById[q]] = r1]
             r2 == [table[slotById[node]] EXCEPT !.parent = q,
                                                 !.parentEdge = edge]
  <2>1. /\ RevisionAvailable /\ node \in Live /\ q \in Live
        /\ KidsOf[q] = Children(q) /\ q # InvalidId /\ node # q
        /\ q # Parent(node) /\ node # InvalidId /\ node # Parent(node)
        /\ InsertionOrdinalOK(Len(KidsOf[q]), ordinal)
        /\ ~ WouldCreateCycle(node, q)
        /\ node \in Id
    BY <1>3, InvParts, ParentIsAnother DEF ReparentError
  <2>2. PICK A \in SUBSET Live :
           /\ node \notin A
           /\ q \in A
           /\ \A a \in A : ParentOf[a] \in A \cup {InvalidId}
    BY <2>1, InvParts, AncestorsAvoidNode
  <2>3. MayHold(node, q, A)
    BY <2>1, <2>2 DEF MayHold
  <2>4. /\ SlotsFit(table, slotById, freeSlots)
        /\ \A n \in Live :
              /\ table[slotById[n]] \in NodeRecord
              /\ table[slotById[n]].id = n
              /\ table[slotById[n]].data = FindRecord(n).data
              /\ table[slotById[n]].parent = Parent(n)
              /\ table[slotById[n]].parentEdge = FindRecord(n).parentEdge
              /\ table[slotById[n]].children =
                    IF n = Parent(node) THEN LeftSequence(node) ELSE Children(n)
              /\ slotById[n] \in DOMAIN table
    <3>1. /\ SlotsFit(table, slotById, freeSlots)
          /\ \A n \in Live :
                /\ table[slotById[n]] \in NodeRecord
                /\ table[slotById[n]].id = n
                /\ table[slotById[n]].data = FindRecord(n).data
                /\ table[slotById[n]].parent = Parent(n)
                /\ table[slotById[n]].parentEdge = FindRecord(n).parentEdge
                /\ table[slotById[n]].children =
                      IF n = Parent(node) THEN LeftSequence(node)
                      ELSE Children(n)
      BY <2>1, NodeLeavesSequence
    <3> HIDE DEF table
    <3>2. \A n \in Live : slotById[n] \in DOMAIN table
      BY <3>1 DEF SlotsFit, Live
    <3> QED BY <3>1, <3>2
  <2>5. s \in Seq(Id)
    <3>1. KidsOf[q] \in Seq(Id)
      BY <2>1, InvParts DEF WalkableTree, IsForest
    <3> QED BY <2>1, <3>1, InsertSiblingMembers
  <2>6. slotById[q] # slotById[node]
    BY <2>1, <2>4
  <2>7. slots' = [t1 EXCEPT ![slotById[node]] = r2]
    <3>1. slots' = [table EXCEPT
                      ![slotById[q]].children = InsertSibling(@, ordinal, node),
                      ![slotById[node]].parent = q,
                      ![slotById[node]].parentEdge = edge]
      BY <1>3 DEF Moved
    <3>2. table[slotById[q]].children = Children(q)
      BY <2>1, <2>4
    <3> HIDE DEF table
    <3>3. [table EXCEPT ![slotById[q]].children = InsertSibling(@, ordinal, node)]
             = t1
      BY <2>1, <2>4, <3>2
    <3>4. slots' = [t1 EXCEPT ![slotById[node]].parent = q,
                              ![slotById[node]].parentEdge = edge]
      BY <3>1, <3>3
    <3>5. t1[slotById[node]] = table[slotById[node]]
          /\ slotById[node] \in DOMAIN t1
      BY <2>1, <2>4, <2>6
    <3> HIDE DEF t1
    <3> QED BY <3>4, <3>5
  <2> HIDE DEF table
  <2>8. /\ r1 \in NodeRecord /\ r1.id = q /\ r1.children = s
        /\ r1.parent = Parent(q) /\ r1.parentEdge = FindRecord(q).parentEdge
        /\ r1.data = FindRecord(q).data
    <3>1. /\ table[slotById[q]] \in NodeRecord /\ table[slotById[q]].id = q
          /\ table[slotById[q]].data = FindRecord(q).data
          /\ table[slotById[q]].parent = Parent(q)
          /\ table[slotById[q]].parentEdge = FindRecord(q).parentEdge
      BY <2>1, <2>4
    <3> HIDE DEF s
    <3> QED BY <2>5, <3>1 DEF NodeRecord
  <2>9. /\ r2 \in NodeRecord /\ r2.id = node
        /\ r2.children = table[slotById[node]].children
        /\ r2.data = FindRecord(node).data
        /\ r2.parent = q /\ r2.parentEdge = edge
        /\ edge # NoEdge
    <3>1. /\ table[slotById[node]] \in NodeRecord
          /\ table[slotById[node]].id = node
          /\ table[slotById[node]].data = FindRecord(node).data
      BY <2>1, <2>4
    <3> QED BY <3>1, PayloadAssumption DEF NodeRecord
  <2> HIDE DEF s, r1, r2
  <2>10. /\ SlotsFit(t1, slotById, freeSlots)
         /\ t1[slotById[q]] = r1
         /\ \A n \in Live : n # q => t1[slotById[n]] = table[slotById[n]]
    <3>1. RecordPut(table, slotById, q, r1, t1)
      BY <2>1, <2>8 DEF RecordPut, Live
    <3> HIDE DEF t1
    <3> QED BY <2>4, <3>1, PutRecordKeepsSlots DEF Live
  <2> HIDE DEF t1
  <2>11. /\ SlotsFit(slots', slotById, freeSlots)
         /\ slots'[slotById[node]] = r2
         /\ \A n \in Live : n # node => slots'[slotById[n]] = t1[slotById[n]]
    <3>1. RecordPut(t1, slotById, node, r2, slots')
      BY <2>1, <2>7, <2>9 DEF RecordPut, Live
    <3> QED BY <2>10, <3>1, PutRecordKeepsSlots DEF Live
  <2>12. ASSUME NEW n \in Live
         PROVE  /\ slots'[slotById[n]].data = FindRecord(n).data
                /\ slots'[slotById[n]].parent = IF n = node THEN q ELSE Parent(n)
                /\ slots'[slotById[n]].parentEdge =
                      IF n = node THEN edge ELSE FindRecord(n).parentEdge
                /\ slots'[slotById[n]].children =
                      IF n = q THEN InsertSibling(Children(q), ordinal, node)
                      ELSE IF n = Parent(node) THEN LeftSequence(node)
                      ELSE Children(n)
    <3>1. CASE n = node
      BY <2>1, <2>4, <2>9, <2>11, <3>1
    <3>2. CASE n = q
      BY <2>1, <2>8, <2>10, <2>11, <3>2 DEF s
    <3>3. CASE n # node /\ n # q
      BY <2>4, <2>10, <2>11, <3>3
    <3> QED BY <3>1, <3>2, <3>3
  <2>13. MoveEffect(node, q, ordinal, edge)
    BY <1>3, <2>1, <2>11, <2>12 DEF MoveEffect
  <2>14. edge = NoEdge <=> q = InvalidId
    BY <2>1, <2>9
  <2>15. Inv' /\ PlaceEffect(node, q, edge, ordinal)
    BY <1>3, <2>1, <2>3, <2>13, <2>14, MoveOutcome
  <2> QED BY <1>3, <2>15
<1> QED BY <1>1, <1>2, <1>3 DEF Reparent

-----------------------------------------------------------------------------
(* The contract: effects *)

(* What the caller sees below a place: distinct identities, namely those   *)
(* whose parent the place is.                                              *)
LEMMA VisibleSequences ==
  ASSUME Inv
  PROVE  /\ Contract!Node = Live
         /\ Contract!Place = Live \cup {InvalidId}
         /\ InvalidId \notin Live
         /\ \A r \in Live \cup {InvalidId} :
               /\ KidsOf[r] = Sequence(r)
               /\ KidsOf[r] \in Seq(Id)
               /\ IsInjective(KidsOf[r])
               /\ \A n : n \in ToSet(KidsOf[r]) <=> n \in Live /\ Parent(n) = r
<1>1. DOMAIN DataOf = Live
  BY DEF DataOf
<1>2. InvalidId \notin Live
  BY InvParts, InvalidIsNoId
<1>3. ASSUME NEW r \in Live \cup {InvalidId}
      PROVE  /\ KidsOf[r] = Sequence(r)
             /\ KidsOf[r] \in Seq(Id)
             /\ IsInjective(KidsOf[r])
             /\ \A n : n \in ToSet(KidsOf[r]) <=> n \in Live /\ Parent(n) = r
  <2>1. IsForest(Live, ParentOf, KidsOf)
    BY InvParts DEF WalkableTree
  <2>2. /\ KidsOf[r] \in Seq(Id) /\ IsInjective(KidsOf[r])
        /\ ToSet(KidsOf[r]) = {m \in Live : ParentOf[m] = r}
    BY <2>1 DEF IsForest
  <2>3. \A m \in Live : ParentOf[m] = Parent(m)
    BY DEF ParentOf
  <2> QED BY <2>2, <2>3 DEF KidsOf
<1> QED BY <1>1, <1>2, <1>3 DEF Contract!Node, Contract!Place

(* A new leaf is where the contract wants it, and fits there.              *)
LEMMA LeafAsPromised ==
  ASSUME Inv, NEW p \in Live \cup {InvalidId}, NEW data, NEW edge,
         NEW o \in Ordinal, IdentityAvailable,
         LeafEffect(p, data, edge, o)
  PROVE  /\ KidsOf' = Contract!OrderWith(nextId, p, o)
         /\ Contract!Fits(KidsOf[p], nextId, o)
               <=> InsertionOrdinalOK(Len(KidsOf[p]), o)
<1>1. nextId \in Id /\ nextId \notin Live
  BY NextIdIsNew
<1>2. \A r \in Live \cup {InvalidId} :
         KidsOf[r] \in Seq(Id) /\ nextId \notin ToSet(KidsOf[r])
  BY <1>1, VisibleSequences
<1>3. \A r \in Live \cup {InvalidId} :
         Contract!Without(KidsOf[r], nextId) = KidsOf[r]
  BY <1>2, WithoutStranger
<1>4. /\ Contract!Inserted(KidsOf[p], nextId, o)
            = InsertSibling(KidsOf[p], o, nextId)
      /\ Contract!Fits(KidsOf[p], nextId, o)
            <=> InsertionOrdinalOK(Len(KidsOf[p]), o)
  BY <1>2, InsertionAsPromised
<1>5. nextId # InvalidId
  BY <1>1, InvalidIsNoId
<1>6. ASSUME NEW q \in Live \cup {nextId} \cup {InvalidId}
      PROVE  (IF q = p THEN InsertSibling(KidsOf[p], o, nextId)
              ELSE IF q = nextId THEN <<>> ELSE KidsOf[q])
             = (IF q = p THEN Contract!Inserted(KidsOf[q], nextId, o)
                ELSE IF q \in Live \cup {InvalidId}
                     THEN Contract!Without(KidsOf[q], nextId)
                ELSE <<>>)
  BY <1>1, <1>3, <1>4, <1>5
<1>7. Live \cup {nextId} \cup {InvalidId} = Contract!Place \cup {nextId}
  BY VisibleSequences
<1>8. Contract!OrderWith(nextId, p, o)
        = [q \in Live \cup {nextId} \cup {InvalidId} |->
             IF q = p THEN Contract!Inserted(KidsOf[q], nextId, o)
             ELSE IF q \in Live \cup {InvalidId}
                  THEN Contract!Without(KidsOf[q], nextId)
             ELSE <<>>]
  BY <1>7, VisibleSequences DEF Contract!OrderWith
<1>9. KidsOf' = [q \in Live \cup {nextId} \cup {InvalidId} |->
                    IF q = p THEN InsertSibling(KidsOf[p], o, nextId)
                    ELSE IF q = nextId THEN <<>> ELSE KidsOf[q]]
  BY DEF LeafEffect
<1>10. KidsOf' = Contract!OrderWith(nextId, p, o)
  BY <1>6, <1>8, <1>9
<1> QED BY <1>4, <1>10

(* Where a moved node's ordinal has to lie: among its siblings if it stays *)
(* below its parent, and else among those it joins.                        *)
PlaceOrdinalOK(node, q, o) ==
    IF q = Parent(node) THEN MoveOrdinalOK(Len(KidsOf[q]), o)
    ELSE InsertionOrdinalOK(Len(KidsOf[q]), o)

(* The contract accepts the same ordinals.                                 *)
LEMMA PlaceFits ==
  ASSUME Inv, NEW node \in Live, NEW q \in Live \cup {InvalidId},
         NEW o \in Ordinal
  PROVE  Contract!Fits(KidsOf[q], node, o) <=> PlaceOrdinalOK(node, q, o)
<1>1. /\ KidsOf[q] \in Seq(Id) /\ IsInjective(KidsOf[q])
      /\ node \in ToSet(KidsOf[q]) <=> Parent(node) = q
  BY VisibleSequences
<1>2. CASE q = Parent(node)
  BY <1>1, <1>2, ReorderAsPromised DEF PlaceOrdinalOK
<1>3. CASE q # Parent(node)
  BY <1>1, <1>3, InsertionAsPromised DEF PlaceOrdinalOK
<1> QED BY <1>2, <1>3

(* A moved node is where the contract wants it.                            *)
LEMMA PlaceAsPromised ==
  ASSUME Inv, NEW node \in Live, NEW q \in Live \cup {InvalidId}, NEW edge,
         NEW o \in Ordinal, PlaceOrdinalOK(node, q, o),
         PlaceEffect(node, q, edge, o)
  PROVE  KidsOf' = Contract!OrderWith(node, q, o)
<1> DEFINE p == Parent(node)
           new(r) == IF r = q
                     THEN IF q = p THEN ReorderSibling(KidsOf[q], o, node)
                          ELSE InsertSibling(KidsOf[q], o, node)
                     ELSE IF r = p THEN LeftSequence(node) ELSE KidsOf[r]
           promised(r) == IF r = q THEN Contract!Inserted(KidsOf[r], node, o)
                          ELSE Contract!Without(KidsOf[r], node)
<1>1. \A r \in Live \cup {InvalidId} :
         /\ KidsOf[r] \in Seq(Id) /\ IsInjective(KidsOf[r])
         /\ node \in ToSet(KidsOf[r]) <=> p = r
  BY VisibleSequences
<1>2. ASSUME NEW r \in Live \cup {InvalidId}
      PROVE  new(r) = promised(r)
  <2>1. CASE r = q /\ q = p
    BY <1>1, <2>1, ReorderAsPromised DEF PlaceOrdinalOK
  <2>2. CASE r = q /\ q # p
    BY <1>1, <2>2, InsertionAsPromised
  <2>3. CASE r # q /\ r = p
    BY <1>1, <2>3, WithoutMember DEF LeftSequence
  <2>4. CASE r # q /\ r # p
    BY <1>1, <2>4, WithoutStranger
  <2> QED BY <2>1, <2>2, <2>3, <2>4
<1>3. KidsOf' = [r \in Live \cup {InvalidId} |-> new(r)]
  BY DEF PlaceEffect
<1>4. Contract!OrderWith(node, q, o)
        = [r \in Live \cup {InvalidId} |-> promised(r)]
  <2>1. /\ Contract!Place = Live \cup {InvalidId}
        /\ Contract!Place \cup {node} = Live \cup {InvalidId}
    BY VisibleSequences
  <2> QED BY <2>1 DEF Contract!OrderWith
<1> HIDE DEF new, promised
<1> QED BY <1>2, <1>3, <1>4

(* So is everything left after an erasure.                                 *)
LEMMA EraseAsPromised ==
  ASSUME Inv, NEW node \in Live, NEW gone, EraseEffect(node, gone)
  PROVE  KidsOf' = [q \in (Live \ gone) \cup {InvalidId} |->
                       Contract!Without(KidsOf[q], node)]
<1>1. ASSUME NEW q \in (Live \ gone) \cup {InvalidId}
      PROVE  (IF q = Parent(node) THEN LeftSequence(node) ELSE KidsOf[q])
             = Contract!Without(KidsOf[q], node)
  <2>1. /\ KidsOf[q] \in Seq(Id) /\ IsInjective(KidsOf[q])
        /\ node \in ToSet(KidsOf[q]) <=> Parent(node) = q
    BY VisibleSequences
  <2>2. CASE q = Parent(node)
    BY <2>1, <2>2, WithoutMember DEF LeftSequence
  <2>3. CASE q # Parent(node)
    BY <2>1, <2>3, WithoutStranger
  <2> QED BY <2>2, <2>3
<1> QED BY <1>1 DEF EraseEffect

-----------------------------------------------------------------------------
(* The order of siblings *)

(* The sequence of place r exchanges nobody but the node returned.         *)
OrderKept(r) ==
    \A a, b : Traded(KidsOf[r], KidsOf'[r], a, b) => reply'.value \in {a, b}

(* A call that does what is promised keeps the order of every sequence.    *)
LEMMA LeafKeepsOrder ==
  ASSUME Inv, NEW p \in Live \cup {InvalidId}, NEW data, NEW edge,
         NEW o \in Ordinal, IdentityAvailable,
         InsertionOrdinalOK(Len(KidsOf[p]), o),
         LeafEffect(p, data, edge, o), NEW r \in Live \cup {InvalidId}
  PROVE  OrderKept(r)
<1>1. KidsOf' = Contract!OrderWith(nextId, p, o)
      /\ Contract!Fits(KidsOf[p], nextId, o)
  BY LeafAsPromised
<1>2. /\ KidsOf[r] \in Seq(Id) /\ IsInjective(KidsOf[r]) /\ nextId \in Id
      /\ r \in Contract!Place
  BY VisibleSequences, NextIdIsNew
<1>3. KidsOf'[r] = IF r = p THEN Contract!Inserted(KidsOf[r], nextId, o)
                   ELSE Contract!Without(KidsOf[r], nextId)
  BY <1>1, <1>2 DEF Contract!OrderWith
<1>4. reply'.value = nextId
  BY DEF LeafEffect, Succeed
<1> QED BY <1>1, <1>2, <1>3, <1>4, PromisedKeepsOrder DEF OrderKept

LEMMA PlaceKeepsOrder ==
  ASSUME Inv, NEW node \in Live, NEW q \in Live \cup {InvalidId}, NEW edge,
         NEW o \in Ordinal, PlaceOrdinalOK(node, q, o),
         PlaceEffect(node, q, edge, o), NEW r \in Live \cup {InvalidId}
  PROVE  OrderKept(r)
<1>1. KidsOf' = Contract!OrderWith(node, q, o)
      /\ Contract!Fits(KidsOf[q], node, o)
  BY PlaceAsPromised, PlaceFits
<1>2. /\ KidsOf[r] \in Seq(Id) /\ IsInjective(KidsOf[r]) /\ node \in Id
      /\ r \in Contract!Place
  BY VisibleSequences, InvParts
<1>3. KidsOf'[r] = IF r = q THEN Contract!Inserted(KidsOf[r], node, o)
                   ELSE Contract!Without(KidsOf[r], node)
  BY <1>1, <1>2 DEF Contract!OrderWith
<1>4. reply'.value = node
  BY DEF PlaceEffect, Succeed
<1> QED BY <1>1, <1>2, <1>3, <1>4, PromisedKeepsOrder DEF OrderKept

LEMMA EraseKeepsOrder ==
  ASSUME Inv, NEW node \in Live, NEW gone, EraseEffect(node, gone),
         NEW r \in (Live \ gone) \cup {InvalidId}
  PROVE  OrderKept(r)
<1>1. KidsOf'[r] = Contract!Without(KidsOf[r], node)
  <2>1. KidsOf' = [q \in (Live \ gone) \cup {InvalidId} |->
                      Contract!Without(KidsOf[q], node)]
    BY EraseAsPromised
  <2> QED BY <2>1
<1>2. KidsOf[r] \in Seq(Id) /\ IsInjective(KidsOf[r]) /\ node \in Id
  BY VisibleSequences, InvParts
<1>3. 0 \in Ordinal
  BY LimitsAssumption DEF Ordinal
<1> QED BY <1>1, <1>2, <1>3, PromisedKeepsOrder DEF OrderKept

LEMMA StutterKeepsOrder ==
  ASSUME Inv, KidsOf' = KidsOf, NEW r \in Live \cup {InvalidId}
  PROVE  OrderKept(r)
BY VisibleSequences, NoneTraded DEF OrderKept

(* What a call that is refused leaves of the caller's view.                *)
LEMMA StateShowsView ==
  ASSUME UNCHANGED state
  PROVE  /\ DataOf' = DataOf /\ EdgeOf' = EdgeOf /\ KidsOf' = KidsOf
         /\ Live' = Live /\ Issued' = Issued
BY DEF state, DataOf, EdgeOf, KidsOf, Issued, Sequence, Children, FindRecord,
       Live

(* Every call keeps the order of every sequence it leaves.                 *)
LEMMA NextKeepsOrder ==
  ASSUME Inv, [Next]_vars, NEW r \in (Live \cap Live') \cup {InvalidId}
  PROVE  OrderKept(r)
<1>1. r \in Live \cup {InvalidId}
  OBVIOUS
<1>2. ASSUME UNCHANGED state PROVE OrderKept(r)
  BY <1>1, <1>2, StateShowsView, StutterKeepsOrder
<1>3. ASSUME NEW error, Refused(error) PROVE OrderKept(r)
  BY <1>2, <1>3 DEF Refused
<1>4. ASSUME NEW data \in NodeData, NEW ordinal \in Ordinal,
             InsertRoot(data, ordinal)
      PROVE  OrderKept(r)
  <2>1. CASE /\ InsertRootError(ordinal) = "none"
             /\ LeafEffect(InvalidId, data, NoEdge, ordinal)
    <3>1. /\ IdentityAvailable
          /\ InsertionOrdinalOK(Len(KidsOf[InvalidId]), ordinal)
      BY <2>1, InvParts DEF InsertRootError
    <3>2. InvalidId \in Live \cup {InvalidId}
      OBVIOUS
    <3> QED BY <1>1, <2>1, <3>1, <3>2, LeafKeepsOrder
  <2> QED BY <1>3, <1>4, <2>1, InsertRootOutcome
<1>5. ASSUME NEW parent \in StableNodeId, NEW data \in NodeData,
             NEW edge \in EdgeData, NEW ordinal \in Ordinal,
             InsertChild(parent, data, edge, ordinal)
      PROVE  OrderKept(r)
  <2>1. CASE /\ InsertChildError(parent, ordinal) = "none"
             /\ LeafEffect(parent, data, edge, ordinal)
    <3>1. /\ IdentityAvailable
          /\ parent \in Live
          /\ InsertionOrdinalOK(Len(KidsOf[parent]), ordinal)
      BY <2>1, InvParts DEF InsertChildError
    <3>2. parent \in Live \cup {InvalidId}
      BY <3>1
    <3> QED BY <1>1, <2>1, <3>1, <3>2, LeafKeepsOrder
  <2> QED BY <1>3, <1>5, <2>1, InsertChildOutcome
<1>6. ASSUME NEW node \in StableNodeId, NEW newParent \in StableNodeId,
             NEW edge \in EdgeData, NEW ordinal \in Ordinal,
             Reparent(node, newParent, edge, ordinal)
      PROVE  OrderKept(r)
  <2>1. CASE /\ ReparentError(node, newParent, ordinal) = "none"
             /\ PlaceEffect(node, newParent, edge, ordinal)
    <3>1. node \in Live /\ newParent \in Live
      BY <2>1, InvParts DEF ReparentError
    <3>2. PlaceOrdinalOK(node, newParent, ordinal)
      BY <2>1, <3>1, InvParts DEF ReparentError, PlaceOrdinalOK
    <3>3. newParent \in Live \cup {InvalidId}
      BY <3>1
    <3> QED BY <1>1, <2>1, <3>1, <3>2, <3>3, PlaceKeepsOrder
  <2> QED BY <1>3, <1>6, <2>1, ReparentOutcome
<1>7. ASSUME NEW node \in StableNodeId, NEW ordinal \in Ordinal,
             DetachToRoot(node, ordinal)
      PROVE  OrderKept(r)
  <2>1. CASE /\ DetachError(node, ordinal) = "none"
             /\ PlaceEffect(node, InvalidId, NoEdge, ordinal)
    <3>1. node \in Live
      BY <2>1, InvParts DEF DetachError
    <3>2. PlaceOrdinalOK(node, InvalidId, ordinal)
      BY <2>1, InvParts DEF DetachError, PlaceOrdinalOK, IsRoot
    <3>3. InvalidId \in Live \cup {InvalidId}
      OBVIOUS
    <3> QED BY <1>1, <2>1, <3>1, <3>2, <3>3, PlaceKeepsOrder
  <2> QED BY <1>3, <1>7, <2>1, DetachToRootOutcome
<1>8. ASSUME NEW node \in StableNodeId, EraseSubtree(node)
      PROVE  OrderKept(r)
  <2> DEFINE gone == ToSet(RemovedNodes(node))
  <2> HIDE DEF gone
  <2>1. CASE /\ NodeError(node) = "none"
             /\ EraseEffect(node, gone)
    <3>1. node \in Live /\ r \in (Live \ gone) \cup {InvalidId}
      BY <2>1, InvParts DEF NodeError, EraseEffect
    <3> QED BY <2>1, <3>1, EraseKeepsOrder
  <2> QED BY <1>3, <1>8, <2>1, EraseSubtreeOutcome DEF gone
<1>9. ASSUME NEW node \in StableNodeId, NEW data \in NodeData,
             ReplaceNodeData(node, data)
      PROVE  OrderKept(r)
  BY <1>1, <1>3, <1>9, ReplaceNodeDataOutcome, StutterKeepsOrder
     DEF PayloadEffect
<1>10. ASSUME NEW node \in StableNodeId, NEW edge \in EdgeData,
              ReplaceParentEdgeData(node, edge)
       PROVE  OrderKept(r)
  BY <1>1, <1>3, <1>10, ReplaceParentEdgeDataOutcome, StutterKeepsOrder
     DEF PayloadEffect
<1>11. CASE UNCHANGED vars
  BY <1>2, <1>11 DEF vars, state
<1> QED BY <1>4, <1>5, <1>6, <1>7, <1>8, <1>9, <1>10, <1>11 DEF Next

-----------------------------------------------------------------------------
(* The contract: reasons *)

(* error, as the early returns of a call chose it, is one of the contract's*)
(* objections, or there is none.                                           *)
Reasons(error, objections) ==
    IF error = "none" THEN objections = {} ELSE error \in objections

(* The early returns of each call test what its contract objects to.       *)
LEMMA InsertRootReasons ==
  ASSUME Inv, NEW o \in Ordinal
  PROVE  Reasons(InsertRootError(o),
                 Contract!InsertObjections({InvalidId}, InvalidId, o))
<1>1. KidsOf[InvalidId] = roots /\ roots \in Seq(Id)
      /\ InvalidId \notin ToSet(roots)
  BY VisibleSequences, InvParts
<1>2. Contract!Fits(KidsOf[InvalidId], InvalidId, o)
         <=> InsertionOrdinalOK(Len(roots), o)
  BY <1>1, InsertionAsPromised
<1>3. Id \subseteq Issued <=> ~ IdentityAvailable
  BY IssuedAsPromised DEF Inv, TypeOK
<1> QED BY <1>2, <1>3
        DEF Reasons, InsertRootError, Contract!InsertObjections,
            Contract!Exhausted, Contract!Objection, RevisionAvailable

LEMMA InsertChildReasons ==
  ASSUME Inv, NEW parent, NEW o \in Ordinal
  PROVE  Reasons(InsertChildError(parent, o),
                 Contract!InsertObjections(Contract!Node, parent, o))
<1>1. Contract!Node = Live /\ (Known(parent) <=> parent \in Live)
  BY VisibleSequences, InvParts
<1>2. Id \subseteq Issued <=> ~ IdentityAvailable
  BY IssuedAsPromised DEF Inv, TypeOK
<1>3. parent \in Live =>
         (Contract!Fits(KidsOf[parent], InvalidId, o)
            <=> InsertionOrdinalOK(Len(Children(parent)), o))
  <2>1. SUFFICES ASSUME parent \in Live
                 PROVE  Contract!Fits(KidsOf[parent], InvalidId, o)
                           <=> InsertionOrdinalOK(Len(Children(parent)), o)
    OBVIOUS
  <2>2. KidsOf[parent] = Children(parent) /\ KidsOf[parent] \in Seq(Id)
        /\ InvalidId \notin ToSet(KidsOf[parent])
    BY <2>1, VisibleSequences, InvParts
  <2> QED BY <2>2, InsertionAsPromised
<1> QED BY <1>1, <1>2, <1>3
        DEF Reasons, InsertChildError, Contract!InsertObjections,
            Contract!Exhausted, Contract!Objection, RevisionAvailable

LEMMA ReparentReasons ==
  ASSUME Inv, NEW node, NEW newParent, NEW o \in Ordinal
  PROVE  Reasons(ReparentError(node, newParent, o),
                 Contract!MoveObjections(Contract!Node, node, newParent, o))
<1>1. /\ Contract!Node = Live
      /\ Known(node) <=> node \in Live
      /\ Known(newParent) <=> newParent \in Live
  BY VisibleSequences, InvParts
<1>2. ASSUME node \in Live, newParent \in Live
      PROVE  /\ node = newParent \/ WouldCreateCycle(node, newParent)
                   <=> newParent \in Contract!Subtree(node)
             /\ Contract!Fits(KidsOf[newParent], node, o)
                   <=> IF Parent(node) = newParent
                       THEN MoveOrdinalOK(Len(Children(newParent)), o)
                       ELSE InsertionOrdinalOK(Len(Children(newParent)), o)
  <2>1. WouldCreateCycle(node, newParent)
           <=> newParent \in Contract!Subtree(node)
    BY <1>2, InvParts, CyclesAsPromised
  <2>2. node = newParent => newParent \in Contract!Subtree(node)
    BY <1>2, InvParts, SubtreeByParents
  <2>3. Contract!Fits(KidsOf[newParent], node, o)
           <=> PlaceOrdinalOK(node, newParent, o)
    BY <1>2, PlaceFits
  <2>4. KidsOf[newParent] = Children(newParent)
    BY <1>2, InvParts
  <2> QED BY <2>1, <2>2, <2>3, <2>4 DEF PlaceOrdinalOK
<1> QED BY <1>1, <1>2
        DEF Reasons, ReparentError, Contract!MoveObjections,
            Contract!Exhausted, Contract!Objection, RevisionAvailable

LEMMA DetachReasons ==
  ASSUME Inv, NEW node, NEW o \in Ordinal
  PROVE  Reasons(DetachError(node, o),
                 Contract!MoveObjections({InvalidId}, node, InvalidId, o))
<1>1. Contract!Node = Live /\ (Known(node) <=> node \in Live)
  BY VisibleSequences, InvParts
<1>2. ASSUME node \in Live
      PROVE  /\ InvalidId \notin Contract!Subtree(node)
             /\ Contract!Fits(KidsOf[InvalidId], node, o)
                   <=> IF IsRoot(node) THEN MoveOrdinalOK(Len(roots), o)
                       ELSE InsertionOrdinalOK(Len(roots), o)
  <2>1. InvalidId \notin Contract!Subtree(node)
    BY <1>2, InvParts, SubtreeByParents, InvalidIsNoId
  <2>2. Contract!Fits(KidsOf[InvalidId], node, o)
           <=> PlaceOrdinalOK(node, InvalidId, o)
    BY <1>2, PlaceFits
  <2>3. KidsOf[InvalidId] = roots
    BY InvParts
  <2> QED BY <2>1, <2>2, <2>3 DEF PlaceOrdinalOK, IsRoot
<1> QED BY <1>1, <1>2
        DEF Reasons, DetachError, Contract!MoveObjections,
            Contract!Exhausted, Contract!Objection, RevisionAvailable

LEMMA NodeReasons ==
  ASSUME Inv, NEW node
  PROVE  /\ Reasons(NodeError(node), Contract!NodeObjections(node))
         /\ Reasons(ReplaceEdgeError(node), Contract!EdgeObjections(node))
<1>1. Contract!Node = Live /\ (Known(node) <=> node \in Live)
  BY VisibleSequences, InvParts
<1>2. node \in Contract!ToSet(KidsOf[InvalidId])
         <=> node \in Live /\ IsRoot(node)
  BY VisibleSequences, ContractSequences DEF IsRoot
<1>3. Reasons(NodeError(node), Contract!NodeObjections(node))
  BY <1>1 DEF Reasons, NodeError, Contract!NodeObjections,
              Contract!Exhausted, Contract!Objection, RevisionAvailable
<1>4. Reasons(ReplaceEdgeError(node), Contract!EdgeObjections(node))
  BY <1>1, <1>2, <1>3
     DEF Reasons, NodeError, ReplaceEdgeError, Contract!NodeObjections,
         Contract!EdgeObjections, Contract!Exhausted, Contract!Objection,
         RevisionAvailable
<1> QED BY <1>3, <1>4

(* A refused call refuses as the contract lets it.                         *)
LEMMA RefusalAsPromised ==
  ASSUME NEW error, NEW objections, Reasons(error, objections),
         Refused(error)
  PROVE  Contract!Refuse(objections)
<1>1. \E e \in objections \cup {"exception"} : reply' = [error |-> e]
  BY DEF Refused, Reasons
<1>2. UNCHANGED <<DataOf, EdgeOf, KidsOf, Issued, revision>>
  BY StateShowsView DEF Refused, state
<1> QED BY <1>1, <1>2 DEF Contract!Refuse, Contract!forest

-----------------------------------------------------------------------------
(* The contract: steps *)

(* The contract's identities and ordinals are the code's.                  *)
LEMMA ContractRanges ==
  /\ Id \cup {InvalidId} = StableNodeId
  /\ Contract!Ordinal = Ordinal
BY LimitsAssumption DEF Id, StableNodeId, Contract!Ordinal, Ordinal

(* A successful call answers as the contract does.                         *)
LEMMA SuccessReplies ==
  ASSUME NEW value, Succeed(value)
  PROVE  Contract!Reply(value)
BY DEF Succeed, Contract!Reply

(* An insertion is the contract's, with the next identity.                 *)
LEMMA InsertStep ==
  ASSUME Inv, NEW places, NEW p, NEW data, NEW edge, NEW o \in Ordinal,
         Contract!InsertObjections(places, p, o) = {},
         p \in Live \cup {InvalidId}, IdentityAvailable,
         LeafEffect(p, data, edge, o)
  PROVE  Contract!Insert(places, p, data, edge, o)
<1>1. Contract!Node = Live
  BY VisibleSequences
<1>2. nextId \in Id \ Issued /\ 0 .. nextId = Issued \cup {nextId}
      /\ nextId \in Nat
  BY IssuedAsPromised, NextIdIsNew DEF Inv, TypeOK, Id
<1>3. Issued' = Issued \cup {nextId}
  BY <1>2 DEF LeafEffect, Issued
<1>4. KidsOf' = Contract!OrderWith(nextId, p, o)
  BY LeafAsPromised
<1>5. Contract!Reply(nextId)
  BY SuccessReplies DEF LeafEffect
<1>6. /\ DataOf' = [m \in Contract!Node \cup {nextId} |->
                       IF m = nextId THEN data ELSE DataOf[m]]
      /\ EdgeOf' = [m \in Contract!Node \cup {nextId} |->
                       IF m = nextId THEN edge ELSE EdgeOf[m]]
  BY <1>1 DEF LeafEffect
<1>7. \E n \in Id \ Issued :
         /\ DataOf' = [m \in Contract!Node \cup {n} |->
                          IF m = n THEN data ELSE DataOf[m]]
         /\ EdgeOf' = [m \in Contract!Node \cup {n} |->
                          IF m = n THEN edge ELSE EdgeOf[m]]
         /\ KidsOf' = Contract!OrderWith(n, p, o)
         /\ Issued' = Issued \cup {n}
         /\ Contract!Reply(n)
  BY <1>2, <1>3, <1>4, <1>5, <1>6
<1> QED BY <1>7 DEF Contract!Insert

(* A move is the contract's.                                               *)
LEMMA MoveStep ==
  ASSUME Inv, NEW places, NEW node \in Live, NEW q \in Live \cup {InvalidId},
         NEW edge, NEW o \in Ordinal,
         Contract!MoveObjections(places, node, q, o) = {},
         PlaceOrdinalOK(node, q, o), PlaceEffect(node, q, edge, o)
  PROVE  Contract!Move(places, node, q, edge, o)
<1>1. KidsOf' = Contract!OrderWith(node, q, o)
  BY PlaceAsPromised
<1>2. DataOf' = DataOf /\ Issued' = Issued
  BY DEF PlaceEffect, Issued
<1>3. EdgeOf' = [EdgeOf EXCEPT ![node] = edge]
  BY DEF PlaceEffect, EdgeOf
<1>4. Contract!Reply(node)
  BY SuccessReplies DEF PlaceEffect
<1> QED BY <1>1, <1>2, <1>3, <1>4 DEF Contract!Move

(* An erasure takes the contract's subtree.                                *)
LEMMA EraseStep ==
  ASSUME Inv, NEW node \in Live,
         Contract!NodeObjections(node) = {},
         EraseEffect(node, ToSet(RemovedNodes(node))),
         Succeed(Len(RemovedNodes(node)))
  PROVE  Contract!Erase(node)
<1> DEFINE gone == ToSet(RemovedNodes(node))
           kept == Contract!Node \ Contract!Subtree(node)
<1>1. /\ Contract!Subtree(node) = gone
      /\ Cardinality(Contract!Subtree(node)) = Len(RemovedNodes(node))
  BY InvParts, RemovedIsPromised
<1>2. kept = Live \ gone
  BY <1>1, VisibleSequences
<1>3. Contract!Reply(Cardinality(Contract!Subtree(node)))
  BY <1>1, SuccessReplies
<1>4. EraseEffect(node, gone)
  OBVIOUS
<1> HIDE DEF gone, kept
<1>5. KidsOf' = [q \in (Live \ gone) \cup {InvalidId} |->
                    Contract!Without(KidsOf[q], node)]
  BY <1>4, EraseAsPromised
<1>6. /\ DataOf' = [m \in Live \ gone |-> DataOf[m]]
      /\ EdgeOf' = [m \in Live \ gone |-> EdgeOf[m]]
      /\ Issued' = Issued
  BY <1>4 DEF EraseEffect, Issued
<1>7. /\ DataOf' = [m \in kept |-> DataOf[m]]
      /\ EdgeOf' = [m \in kept |-> EdgeOf[m]]
      /\ KidsOf' = [q \in kept \cup {InvalidId} |->
                       Contract!Without(KidsOf[q], node)]
  BY <1>2, <1>5, <1>6, Zenon
<1>8. Contract!Cardinality(Contract!Subtree(node))
        = Cardinality(Contract!Subtree(node))
  BY DEF Contract!Cardinality, Cardinality
<1> QED BY <1>3, <1>6, <1>7, <1>8 DEF Contract!Erase, kept

(* The replacements of payloads are the contract's.                        *)
LEMMA PayloadSteps ==
  ASSUME Inv, NEW node \in Live, NEW data, NEW edge
  PROVE  /\ Contract!NodeObjections(node) = {}
               /\ PayloadEffect(node, data, EdgeOf[node])
            => Contract!SetData(node, data)
         /\ Contract!EdgeObjections(node) = {}
               /\ PayloadEffect(node, DataOf[node], edge)
            => Contract!SetEdge(node, edge)
<1>1. ASSUME NEW d, NEW e, PayloadEffect(node, d, e)
      PROVE  /\ DataOf' = [DataOf EXCEPT ![node] = d]
             /\ EdgeOf' = [EdgeOf EXCEPT ![node] = e]
             /\ KidsOf' = KidsOf /\ Issued' = Issued
             /\ Contract!Reply(node)
  <2>1. DataOf' = [DataOf EXCEPT ![node] = d]
    BY <1>1 DEF PayloadEffect, DataOf
  <2>2. EdgeOf' = [EdgeOf EXCEPT ![node] = e]
    BY <1>1 DEF PayloadEffect, EdgeOf
  <2> QED BY <1>1, <2>1, <2>2, SuccessReplies DEF PayloadEffect, Issued
<1>2. /\ [DataOf EXCEPT ![node] = DataOf[node]] = DataOf
      /\ [EdgeOf EXCEPT ![node] = EdgeOf[node]] = EdgeOf
  BY DEF DataOf, EdgeOf
<1>3. ASSUME Contract!NodeObjections(node) = {},
             PayloadEffect(node, data, EdgeOf[node])
      PROVE  Contract!SetData(node, data)
  BY <1>1, <1>2, <1>3 DEF Contract!SetData
<1>4. ASSUME Contract!EdgeObjections(node) = {},
             PayloadEffect(node, DataOf[node], edge)
      PROVE  Contract!SetEdge(node, edge)
  BY <1>1, <1>2, <1>4 DEF Contract!SetEdge
<1> QED BY <1>3, <1>4

(* What the caller sees of the forest, with the call and its answer: the   *)
(* contract's variables.                                                   *)
Seen == <<DataOf, EdgeOf, KidsOf, Issued, revision, call, reply>>

(* Every call, however it ends, is a call of the contract with the same    *)
(* arguments.                                                              *)
LEMMA StepsOfContract ==
  ASSUME Inv, [Next]_vars
  PROVE  [Contract!Next]_Seen
<1> SUFFICES ASSUME Next PROVE Contract!Next
  <2>1. UNCHANGED vars => UNCHANGED Seen
    BY StateShowsView DEF vars, state, Seen
  <2> QED BY <2>1
<1> USE ContractRanges
<1>1. ASSUME NEW data \in NodeData, NEW ordinal \in Ordinal,
             InsertRoot(data, ordinal)
      PROVE  Contract!Next
  <2> DEFINE objections == Contract!InsertObjections({InvalidId}, InvalidId, ordinal)
  <2>1. Reasons(InsertRootError(ordinal), objections)
    BY InsertRootReasons
  <2>2. Contract!Insert({InvalidId}, InvalidId, data, NoEdge, ordinal)
    <3>1. CASE Refused(InsertRootError(ordinal))
      <4>1. Contract!Refuse(objections)
        BY <2>1, <3>1, RefusalAsPromised
      <4> QED BY <4>1 DEF Contract!Insert
    <3>2. CASE /\ InsertRootError(ordinal) = "none"
               /\ LeafEffect(InvalidId, data, NoEdge, ordinal)
      <4>1. objections = {} /\ IdentityAvailable
        BY <2>1, <3>2 DEF Reasons, InsertRootError
      <4>2. InvalidId \in Live \cup {InvalidId}
        OBVIOUS
      <4> QED BY <3>2, <4>1, <4>2, InsertStep
    <3> QED BY <1>1, <3>1, <3>2, InsertRootOutcome
  <2>3. call' = <<"insert_root", data, ordinal>>
    BY <1>1 DEF InsertRoot
  <2> QED BY <2>2, <2>3 DEF Contract!Next
<1>2. ASSUME NEW parent \in StableNodeId, NEW data \in NodeData,
             NEW edge \in EdgeData, NEW ordinal \in Ordinal,
             InsertChild(parent, data, edge, ordinal)
      PROVE  Contract!Next
  <2> DEFINE objections == Contract!InsertObjections(Contract!Node, parent, ordinal)
  <2>1. Reasons(InsertChildError(parent, ordinal), objections)
    BY InsertChildReasons
  <2>2. Contract!Insert(Contract!Node, parent, data, edge, ordinal)
    <3>1. CASE Refused(InsertChildError(parent, ordinal))
      <4>1. Contract!Refuse(objections)
        BY <2>1, <3>1, RefusalAsPromised
      <4> QED BY <4>1 DEF Contract!Insert
    <3>2. CASE /\ InsertChildError(parent, ordinal) = "none"
               /\ LeafEffect(parent, data, edge, ordinal)
      <4>1. objections = {} /\ IdentityAvailable /\ parent \in Live
        BY <2>1, <3>2, InvParts DEF Reasons, InsertChildError
      <4>2. parent \in Live \cup {InvalidId}
        BY <4>1
      <4> QED BY <3>2, <4>1, <4>2, InsertStep
    <3> QED BY <1>2, <3>1, <3>2, InsertChildOutcome
  <2>3. call' = <<"insert_child", parent, data, edge, ordinal>>
    BY <1>2 DEF InsertChild
  <2> QED BY <2>2, <2>3 DEF Contract!Next
<1>3. ASSUME NEW node \in StableNodeId, NEW newParent \in StableNodeId,
             NEW edge \in EdgeData, NEW ordinal \in Ordinal,
             Reparent(node, newParent, edge, ordinal)
      PROVE  Contract!Next
  <2> DEFINE objections == Contract!MoveObjections(Contract!Node, node, newParent, ordinal)
  <2>1. Reasons(ReparentError(node, newParent, ordinal), objections)
    BY ReparentReasons
  <2>2. Contract!Move(Contract!Node, node, newParent, edge, ordinal)
    <3>1. CASE Refused(ReparentError(node, newParent, ordinal))
      <4>1. Contract!Refuse(objections)
        BY <2>1, <3>1, RefusalAsPromised
      <4> QED BY <4>1 DEF Contract!Move
    <3>2. CASE /\ ReparentError(node, newParent, ordinal) = "none"
               /\ PlaceEffect(node, newParent, edge, ordinal)
      <4>1. objections = {} /\ node \in Live /\ newParent \in Live
        BY <2>1, <3>2, InvParts DEF Reasons, ReparentError
      <4>2. PlaceOrdinalOK(node, newParent, ordinal)
        BY <3>2, <4>1, InvParts DEF ReparentError, PlaceOrdinalOK
      <4>3. newParent \in Live \cup {InvalidId}
        BY <4>1
      <4> QED BY <3>2, <4>1, <4>2, <4>3, MoveStep
    <3> QED BY <1>3, <3>1, <3>2, ReparentOutcome
  <2>3. call' = <<"reparent", node, newParent, edge, ordinal>>
    BY <1>3 DEF Reparent
  <2> QED BY <2>2, <2>3 DEF Contract!Next
<1>4. ASSUME NEW node \in StableNodeId, NEW ordinal \in Ordinal,
             DetachToRoot(node, ordinal)
      PROVE  Contract!Next
  <2> DEFINE objections == Contract!MoveObjections({InvalidId}, node, InvalidId, ordinal)
  <2>1. Reasons(DetachError(node, ordinal), objections)
    BY DetachReasons
  <2>2. Contract!Move({InvalidId}, node, InvalidId, NoEdge, ordinal)
    <3>1. CASE Refused(DetachError(node, ordinal))
      <4>1. Contract!Refuse(objections)
        BY <2>1, <3>1, RefusalAsPromised
      <4> QED BY <4>1 DEF Contract!Move
    <3>2. CASE /\ DetachError(node, ordinal) = "none"
               /\ PlaceEffect(node, InvalidId, NoEdge, ordinal)
      <4>1. objections = {} /\ node \in Live
        BY <2>1, <3>2, InvParts DEF Reasons, DetachError
      <4>2. PlaceOrdinalOK(node, InvalidId, ordinal)
        BY <3>2, <4>1, InvParts DEF DetachError, PlaceOrdinalOK, IsRoot
      <4>3. InvalidId \in Live \cup {InvalidId}
        OBVIOUS
      <4> QED BY <3>2, <4>1, <4>2, <4>3, MoveStep
    <3> QED BY <1>4, <3>1, <3>2, DetachToRootOutcome
  <2>3. call' = <<"detach_to_root", node, ordinal>>
    BY <1>4 DEF DetachToRoot
  <2> QED BY <2>2, <2>3 DEF Contract!Next
<1>5. ASSUME NEW node \in StableNodeId, EraseSubtree(node)
      PROVE  Contract!Next
  <2>1. Reasons(NodeError(node), Contract!NodeObjections(node))
    BY NodeReasons
  <2>2. Contract!Erase(node)
    <3>1. CASE Refused(NodeError(node))
      <4>1. Contract!Refuse(Contract!NodeObjections(node))
        BY <2>1, <3>1, RefusalAsPromised
      <4> QED BY <4>1 DEF Contract!Erase
    <3>2. CASE /\ NodeError(node) = "none"
               /\ EraseEffect(node, ToSet(RemovedNodes(node)))
               /\ Succeed(Len(RemovedNodes(node)))
      <4>1. Contract!NodeObjections(node) = {} /\ node \in Live
        BY <2>1, <3>2, InvParts DEF Reasons, NodeError
      <4> QED BY <3>2, <4>1, EraseStep
    <3> QED BY <1>5, <3>1, <3>2, EraseSubtreeOutcome
  <2>3. call' = <<"erase_subtree", node>>
    BY <1>5 DEF EraseSubtree
  <2> QED BY <2>2, <2>3 DEF Contract!Next
<1>6. ASSUME NEW node \in StableNodeId, NEW data \in NodeData,
             ReplaceNodeData(node, data)
      PROVE  Contract!Next
  <2>1. Reasons(NodeError(node), Contract!NodeObjections(node))
    BY NodeReasons
  <2>2. Contract!SetData(node, data)
    <3>1. CASE Refused(NodeError(node))
      <4>1. Contract!Refuse(Contract!NodeObjections(node))
        BY <2>1, <3>1, RefusalAsPromised
      <4> QED BY <4>1 DEF Contract!SetData
    <3>2. CASE /\ NodeError(node) = "none"
               /\ PayloadEffect(node, data, EdgeOf[node])
      <4>1. Contract!NodeObjections(node) = {} /\ node \in Live
        BY <2>1, <3>2, InvParts DEF Reasons, NodeError
      <4> QED BY <3>2, <4>1, PayloadSteps
    <3> QED BY <1>6, <3>1, <3>2, ReplaceNodeDataOutcome
  <2>3. call' = <<"replace_node_data", node, data>>
    BY <1>6 DEF ReplaceNodeData
  <2> QED BY <2>2, <2>3 DEF Contract!Next
<1>7. ASSUME NEW node \in StableNodeId, NEW edge \in EdgeData,
             ReplaceParentEdgeData(node, edge)
      PROVE  Contract!Next
  <2>1. Reasons(ReplaceEdgeError(node), Contract!EdgeObjections(node))
    BY NodeReasons
  <2>2. Contract!SetEdge(node, edge)
    <3>1. CASE Refused(ReplaceEdgeError(node))
      <4>1. Contract!Refuse(Contract!EdgeObjections(node))
        BY <2>1, <3>1, RefusalAsPromised
      <4> QED BY <4>1 DEF Contract!SetEdge
    <3>2. CASE /\ ReplaceEdgeError(node) = "none"
               /\ PayloadEffect(node, DataOf[node], edge)
      <4>1. Contract!EdgeObjections(node) = {} /\ node \in Live
        BY <2>1, <3>2, InvParts DEF Reasons, ReplaceEdgeError, NodeError
      <4> QED BY <3>2, <4>1, PayloadSteps
    <3> QED BY <1>7, <3>1, <3>2, ReplaceParentEdgeDataOutcome
  <2>3. call' = <<"replace_parent_edge_data", node, edge>>
    BY <1>7 DEF ReplaceParentEdgeData
  <2> QED BY <2>2, <2>3 DEF Contract!Next
<1> QED BY <1>1, <1>2, <1>3, <1>4, <1>5, <1>6, <1>7 DEF Next

(* An empty tree is the contract's empty forest.                           *)
LEMMA InitOfContract == Init => Contract!Init
<1> SUFFICES ASSUME Init PROVE Contract!Init
  OBVIOUS
<1>1. Live = {}
  BY DEF Init, Live
<1>2. DataOf = <<>> /\ EdgeOf = <<>>
  BY <1>1 DEF DataOf, EdgeOf
<1>3. KidsOf = [p \in {InvalidId} |-> <<>>]
  BY <1>1 DEF KidsOf, Sequence, Init
<1>4. Issued = {}
  BY DEF Init, Issued
<1> QED BY <1>2, <1>3, <1>4 DEF Init, Contract!Init

-----------------------------------------------------------------------------
(* The theorems *)

(* The empty tree of the constructor satisfies the invariant.              *)
LEMMA InitInv == Init => Inv
<1> SUFFICES ASSUME Init PROVE Inv
  OBVIOUS
<1> USE DEF Init
<1>1. Live = {}
  BY DEF Live
<1>2. TypeOK
  BY <1>1, LimitsAssumption DEF TypeOK, StableNodeId
<1>3. SlotTableOK
  BY <1>1 DEF SlotTableOK, IsInjective, ToSet
<1>4. NextIdFresh /\ Acyclic
  BY <1>1 DEF NextIdFresh, Acyclic
<1>5. ForestOK
  BY <1>1 DEF ForestOK, IsInjective, ToSet
<1> QED BY <1>2, <1>3, <1>4, <1>5 DEF Inv

(* Every call, whatever its arguments and however it ends, keeps it.       *)
LEMMA NextInv == Inv /\ [Next]_vars => Inv'
<1> SUFFICES ASSUME Inv, [Next]_vars PROVE Inv'
  OBVIOUS
<1>1. CASE UNCHANGED vars
  <2>1. reply'.error \in MutationError \cup {"none", "exception"}
    BY <1>1 DEF vars, Inv, TypeOK
  <2>2. UNCHANGED state
    BY <1>1 DEF vars, state
  <2> QED BY <2>1, <2>2, UnchangedKeepsInv
<1>2. CASE Next
  BY <1>2, InsertRootOutcome, InsertChildOutcome, ReparentOutcome,
     DetachToRootOutcome, EraseSubtreeOutcome, ReplaceNodeDataOutcome,
     ReplaceParentEdgeDataOutcome DEF Next
<1> QED BY <1>1, <1>2

(* The invariant holds in every reachable tree.                            *)
THEOREM InvHolds == Spec => []Inv
BY InitInv, NextInv, PTL DEF Spec

(* Every field keeps its type; in particular no link or sequence ever      *)
(* names an identity outside the range insert_* hands out.                 *)
THEOREM TypesHold == Spec => []TypeOK
<1>1. Inv => TypeOK
  BY DEF Inv
<1> QED BY <1>1, InvHolds, PTL

(* The index, the records and the free list always agree.                  *)
THEOREM SlotTableAgrees == Spec => []SlotTableOK
<1>1. Inv => SlotTableOK
  BY DEF Inv
<1> QED BY <1>1, InvHolds, PTL

(* Parent links and sequences always describe one forest.                  *)
THEOREM LinksFormForest == Spec => []ForestOK
<1>1. Inv => ForestOK
  BY DEF Inv
<1> QED BY <1>1, InvHolds, PTL

(* No sequence of calls builds a cycle.                                    *)
THEOREM NeverCyclic == Spec => []Acyclic
<1>1. Inv => Acyclic
  BY DEF Inv
<1> QED BY <1>1, InvHolds, PTL

(* m_next_id is above every identity in use, so commit_record never finds  *)
(* the identity it is to insert taken.                                     *)
THEOREM IdentitiesFresh == Spec => []NextIdFresh
<1>1. Inv => NextIdFresh
  BY DEF Inv
<1> QED BY <1>1, InvHolds, PTL

(* What any call does to the identities: it makes none live, or the one    *)
(* the counter hands out.                                                  *)
IssueStep ==
    \/ nextId' = nextId /\ Live' \subseteq Live
    \/ nextId' = nextId + 1 /\ Live' = Live \cup {nextId}

(* Every action, with its early returns and exceptions, is an IssueStep.   *)
LEMMA NextIssues ==
  ASSUME Next
  PROVE  IssueStep
<1> USE DEF IssueStep, Live
<1>0. ASSUME UNCHANGED state PROVE IssueStep
  BY <1>0 DEF state
<1>1. DOMAIN CommitIndex(nextId) = Live \cup {nextId}
      /\ DOMAIN RollBackIndex(nextId) \subseteq Live
  BY DEF CommitIndex, RollBackIndex
<1>2. ASSUME CommitThrows PROVE IssueStep
  BY <1>1, <1>2 DEF CommitThrows
<1>3. ASSUME NEW data \in NodeData, NEW ordinal \in Ordinal,
             InsertRoot(data, ordinal)
      PROVE  IssueStep
  BY <1>0, <1>1, <1>2, <1>3 DEF InsertRoot, Fail, Throw
<1>4. ASSUME NEW parent \in StableNodeId, NEW data \in NodeData,
             NEW edge \in EdgeData, NEW ordinal \in Ordinal,
             InsertChild(parent, data, edge, ordinal)
      PROVE  IssueStep
  BY <1>0, <1>1, <1>2, <1>4 DEF InsertChild, Fail, Throw
<1>5. ASSUME NEW node \in StableNodeId, NEW newParent \in StableNodeId,
             NEW edge \in EdgeData, NEW ordinal \in Ordinal,
             Reparent(node, newParent, edge, ordinal)
      PROVE  IssueStep
  BY <1>0, <1>5 DEF Reparent, Fail, Throw
<1>6. ASSUME NEW node \in StableNodeId, NEW ordinal \in Ordinal,
             DetachToRoot(node, ordinal)
      PROVE  IssueStep
  BY <1>0, <1>6 DEF DetachToRoot, Fail, Throw
<1>7. ASSUME NEW node \in StableNodeId, EraseSubtree(node)
      PROVE  IssueStep
  BY <1>0, <1>7 DEF EraseSubtree, Fail, Throw
<1>8. ASSUME NEW node \in StableNodeId, NEW data \in NodeData,
             ReplaceNodeData(node, data)
      PROVE  IssueStep
  BY <1>0, <1>8 DEF ReplaceNodeData, Fail, Throw
<1>9. ASSUME NEW node \in StableNodeId, NEW edge \in EdgeData,
             ReplaceParentEdgeData(node, edge)
      PROVE  IssueStep
  BY <1>0, <1>9 DEF ReplaceParentEdgeData, Fail, Throw
<1> QED BY <1>3, <1>4, <1>5, <1>6, <1>7, <1>8, <1>9 DEF Next

(* No call brings an identity back that was ever issued before.            *)
THEOREM IdentitiesNeverReused == Spec => IdentityNeverReused
<1>1. Inv /\ [Next]_vars =>
        [\A n \in Live' \ Live : n >= nextId /\ n < nextId']_vars
  <2>1. Inv => nextId \in Nat
    BY LimitsAssumption DEF Inv, TypeOK, StableNodeId
  <2> QED BY <2>1, NextIssues DEF IssueStep, vars, Live
<1> QED BY <1>1, InvHolds, PTL DEF Spec, IdentityNeverReused

(* No call exchanges two siblings it does not return: an insertion, a move *)
(* and an erasure change a sequence at one node, a rotation and a rollback *)
(* put the others back where they were.                                    *)
THEOREM SiblingOrderIsKept == Spec => SiblingOrderKept
<1>1. ASSUME Inv, [Next]_vars
      PROVE  [\A p \in (Live \cap Live') \cup {InvalidId}, a, b \in Live :
                 Before(p, a, b) /\ Before(p, b, a)'
                    => reply'.value \in {a, b}]_vars
  <2>1. SUFFICES ASSUME NEW p \in (Live \cap Live') \cup {InvalidId},
                        NEW a, NEW b, Before(p, a, b), Before(p, b, a)'
                 PROVE  reply'.value \in {a, b}
    OBVIOUS
  <2>2. KidsOf[p] = Sequence(p) /\ KidsOf'[p] = Sequence(p)'
    BY DEF KidsOf
  <2>3. Traded(KidsOf[p], KidsOf'[p], a, b)
    BY <2>1, <2>2 DEF Before, Traded
  <2> QED BY <1>1, <2>3, NextKeepsOrder DEF OrderKept
<1> QED BY <1>1, InvHolds, PTL DEF Spec, SiblingOrderKept


(* The tree does what MUTABLE.md promises: whatever the slots, the index,  *)
(* the worklist and the rollbacks do, a caller sees each call refused for  *)
(* a true reason with nothing changed, or in effect as a whole.            *)
THEOREM ForestRefinesContract == Spec => ImplementsContract
<1>1. Init => Contract!Init
  BY InitOfContract
<1>2. Inv /\ Inv' /\ [Next]_vars
         => [Contract!Next]_<<DataOf, EdgeOf, KidsOf, Issued,
                              revision, call, reply>>
  BY StepsOfContract DEF Seen
<1> QED BY <1>1, <1>2, InvHolds, PTL
        DEF Spec, ImplementsContract, Contract!Spec, Contract!vars

-----------------------------------------------------------------------------
(* What a call on one of two trees does *)

(* A call changes nothing or increments the revision.                      *)
LEMMA EditCounts ==
  ASSUME Inv, Next
  PROVE  UNCHANGED state \/ revision' = revision + 1
<1> USE DEF Refused, Succeed
<1>1. ASSUME NEW data \in NodeData, NEW ordinal \in Ordinal,
             InsertRoot(data, ordinal)
      PROVE  UNCHANGED state \/ revision' = revision + 1
  BY <1>1, InsertRootOutcome DEF LeafEffect
<1>2. ASSUME NEW parent \in StableNodeId, NEW data \in NodeData,
             NEW edge \in EdgeData, NEW ordinal \in Ordinal,
             InsertChild(parent, data, edge, ordinal)
      PROVE  UNCHANGED state \/ revision' = revision + 1
  BY <1>2, InsertChildOutcome DEF LeafEffect
<1>3. ASSUME NEW node \in StableNodeId, NEW newParent \in StableNodeId,
             NEW edge \in EdgeData, NEW ordinal \in Ordinal,
             Reparent(node, newParent, edge, ordinal)
      PROVE  UNCHANGED state \/ revision' = revision + 1
  BY <1>3, ReparentOutcome DEF PlaceEffect
<1>4. ASSUME NEW node \in StableNodeId, NEW ordinal \in Ordinal,
             DetachToRoot(node, ordinal)
      PROVE  UNCHANGED state \/ revision' = revision + 1
  BY <1>4, DetachToRootOutcome DEF PlaceEffect
<1>5. ASSUME NEW node \in StableNodeId, EraseSubtree(node)
      PROVE  UNCHANGED state \/ revision' = revision + 1
  BY <1>5, EraseSubtreeOutcome
<1>6. ASSUME NEW node \in StableNodeId, NEW data \in NodeData,
             ReplaceNodeData(node, data)
      PROVE  UNCHANGED state \/ revision' = revision + 1
  BY <1>6, ReplaceNodeDataOutcome DEF PayloadEffect
<1>7. ASSUME NEW node \in StableNodeId, NEW edge \in EdgeData,
             ReplaceParentEdgeData(node, edge)
      PROVE  UNCHANGED state \/ revision' = revision + 1
  BY <1>7, ReplaceParentEdgeDataOutcome DEF PayloadEffect
<1> QED BY <1>1, <1>2, <1>3, <1>4, <1>5, <1>6, <1>7 DEF Next

(* The invariant of the object a call is not made on.                      *)
OtherInv ==
    /\ Other!TypeOK /\ Other!SlotTableOK /\ Other!NextIdFresh
    /\ Other!ForestOK /\ Other!Acyclic

(* The two objects are of one class.                                       *)
LEMMA SameClass ==
  /\ Other!NodeRecord = NodeRecord /\ Other!Id = Id
  /\ Other!StableNodeId = StableNodeId
  /\ Other!MutationError = MutationError
  /\ \A f : Other!IsInjective(f) <=> IsInjective(f)
  /\ \A s : Other!ToSet(s) = ToSet(s)
<1>1. Other!Id = Id /\ Other!StableNodeId = StableNodeId
  BY DEF Other!Id, Id, Other!StableNodeId, StableNodeId
<1>2. Other!NodeRecord = NodeRecord
  BY <1>1 DEF Other!NodeRecord, NodeRecord
<1> QED BY <1>1, <1>2 DEF Other!MutationError, MutationError, Other!IsInjective, IsInjective, Other!ToSet, ToSet

(* The members of one object, as those of the other.                       *)
ThisIsOther ==
    /\ slots' = other.slots /\ slotById' = other.slotById
    /\ freeSlots' = other.freeSlots /\ roots' = other.roots
    /\ nextId' = other.nextId /\ revision' = other.revision
    /\ UNCHANGED <<call, reply>>

(* The object named by the call becomes what the other one was.            *)
LEMMA ArrivedIsSound ==
  ASSUME OtherInv, ThisIsOther
  PROVE  Inv'
<1> USE DEF ThisIsOther, Live, Other!Live
<1>1. TypeOK'
  BY SameClass DEF OtherInv, Other!TypeOK, TypeOK
<1>2. \A n : FindRecord(n)' = Other!FindRecord(n)
  BY DEF FindRecord, Other!FindRecord
<1>3. \A n : /\ Parent(n)' = Other!Parent(n)
             /\ Children(n)' = Other!Children(n)
             /\ IsRoot(n)' = Other!IsRoot(n)
             /\ Known(n)' = Other!Known(n)
  BY <1>2 DEF Parent, Children, IsRoot, Known, Other!Parent,
              Other!Children, Other!IsRoot, Other!Known
<1>4. SlotTableOK'
  BY <1>2, <1>3, SameClass DEF OtherInv, Other!SlotTableOK, SlotTableOK
<1>5. NextIdFresh' /\ Acyclic'
  BY <1>3 DEF OtherInv, Other!NextIdFresh, NextIdFresh,
              Other!Acyclic, Acyclic
<1>6. ForestOK'
  BY <1>2, <1>3, SameClass DEF OtherInv, Other!ForestOK, ForestOK
<1> QED BY <1>1, <1>4, <1>5, <1>6 DEF Inv

(* The other object becomes what the one named by the call was.            *)
LEMMA TurnedIsSound ==
  ASSUME Inv, other' = Members, UNCHANGED <<call, reply>>
  PROVE  OtherInv'
<1> USE DEF Live, Other!Live, Inv
<1>0. /\ other'.slots = slots /\ other'.slotById = slotById
      /\ other'.freeSlots = freeSlots /\ other'.roots = roots
      /\ other'.nextId = nextId /\ other'.revision = revision
      /\ UNCHANGED reply
  BY DEF Members
<1>1. Other!TypeOK'
  BY <1>0, SameClass DEF Other!TypeOK, TypeOK
<1>2. \A n : Other!FindRecord(n)' = FindRecord(n)
  BY <1>0 DEF FindRecord, Other!FindRecord
<1>3. \A n : /\ Other!Parent(n)' = Parent(n)
             /\ Other!Children(n)' = Children(n)
             /\ Other!IsRoot(n)' = IsRoot(n)
             /\ Other!Known(n)' = Known(n)
  BY <1>2 DEF Parent, Children, IsRoot, Known, Other!Parent,
              Other!Children, Other!IsRoot, Other!Known
<1>4. Other!SlotTableOK'
  BY <1>0, <1>2, <1>3, SameClass DEF Other!SlotTableOK, SlotTableOK
<1>5. Other!NextIdFresh' /\ Other!Acyclic'
  BY <1>0, <1>3 DEF Other!NextIdFresh, NextIdFresh, Other!Acyclic, Acyclic
<1>6. Other!ForestOK'
  BY <1>0, <1>2, <1>3, SameClass DEF Other!ForestOK, ForestOK
<1> QED BY <1>1, <1>4, <1>5, <1>6 DEF OtherInv

(* The other object, its containers moved from.                            *)
LEMMA EmptiedIsSound ==
  ASSUME OtherInv, TakeOther
  PROVE  OtherInv'
<1> USE DEF Other!Live
<1>0. /\ other'.slots = <<>> /\ other'.slotById = <<>>
      /\ other'.freeSlots = <<>> /\ other'.roots = <<>>
      /\ other'.nextId = other.nextId /\ other'.revision = other.revision
      /\ UNCHANGED reply
  BY DEF TakeOther, EmptiedRoots
<1>1. Other!Live' = {}
  BY <1>0
<1>2. Other!TypeOK'
  <2>1. other'.slots \in Seq(NodeRecord \cup {NoRecord})
        /\ other'.slotById \in [Other!Live' -> DOMAIN other'.slots]
        /\ other'.freeSlots \in Seq(DOMAIN other'.slots)
        /\ other'.roots \in Seq(Id)
    BY <1>0, <1>1
  <2> QED BY <1>0, <1>1, <2>1, SameClass DEF OtherInv, Other!TypeOK
<1>3. Other!SlotTableOK'
  BY <1>0, <1>1, SameClass DEF Other!SlotTableOK, IsInjective, ToSet
<1>4. Other!NextIdFresh' /\ Other!Acyclic'
  BY <1>1 DEF Other!NextIdFresh, Other!Acyclic
<1>5. Other!ForestOK'
  BY <1>0, <1>1, SameClass DEF Other!ForestOK, IsInjective, ToSet
<1> QED BY <1>2, <1>3, <1>4, <1>5 DEF OtherInv

-----------------------------------------------------------------------------
(* Two trees and the moves between them *)

(* The history as the actions leave it.  No snapshot was taken while its   *)
(* domain is NoDomain.                                                     *)
HistoryOK ==
    /\ domain \in [this : Domain \cup {NoDomain},
                   other : Domain \cup {NoDomain}]
    /\ domain.this = domain.other => domain.this = NoDomain
    /\ issued \in [Domain -> SUBSET Nat]
    /\ snapshot.revision \in Nat
    /\ snapshot.domain = NoDomain =>
          /\ snapshot.revision = 0
          /\ snapshot.content = [records |-> <<>>, roots |-> <<>>]

(* The snapshot is of an earlier revision of the holder of its domain, or  *)
(* shows what the holder shows.                                            *)
SnapshotPast(where, count, content) ==
    where = snapshot.domain =>
        \/ snapshot.revision < count
        \/ snapshot.revision = count /\ snapshot.content = content

(* The inductive invariant of two trees.                                   *)
MovesInv ==
    /\ Inv /\ OtherInv /\ HistoryOK
    /\ DomainNeverReissues
    /\ SnapshotPast(domain.this, revision, ContentOf(Members))
    /\ SnapshotPast(domain.other, other.revision, ContentOf(other))

(* The counters are numbers.                                               *)
LEMMA CountersTyped ==
  ASSUME Inv, OtherInv
  PROVE  /\ nextId \in Nat /\ revision \in Nat
         /\ other.nextId \in Nat /\ other.revision \in Nat
<1>1. StableNodeId \subseteq Nat /\ 0 .. RevisionMax \subseteq Nat
  BY LimitsAssumption DEF StableNodeId
<1> QED BY <1>1, SameClass DEF Inv, TypeOK, OtherInv, Other!TypeOK

(* An object without members shows nothing.                                *)
LEMMA EmptyContent ==
  ASSUME NEW m, m.slotById = <<>>, m.roots = <<>>
  PROVE  ContentOf(m) = [records |-> <<>>, roots |-> <<>>]
<1>1. DOMAIN m.slotById = {}
  OBVIOUS
<1>2. [n \in DOMAIN m.slotById |-> m.slots[m.slotById[n]]] = <<>>
  BY <1>1
<1> QED BY <1>2 DEF ContentOf

(* Both trees are empty, and nothing was issued or frozen.                 *)
LEMMA MovesInitInv == MovesInit => MovesInv
<1> SUFFICES ASSUME MovesInit PROVE MovesInv
  OBVIOUS
<1> USE DEF MovesInit
<1>1. Inv
  BY InitInv
<1>2. /\ other.slots = <<>> /\ other.slotById = <<>>
      /\ other.freeSlots = <<>> /\ other.roots = <<>>
      /\ other.nextId = 0 /\ other.revision = 0 /\ reply = [error |-> "none"]
  BY DEF Init, Members
<1>3. OtherInv
  <2>1. Other!Live = {}
    BY <1>2 DEF Other!Live
  <2>2. Other!TypeOK
    <3>1. other.slots \in Seq(NodeRecord \cup {NoRecord})
          /\ other.slotById \in [Other!Live -> DOMAIN other.slots]
          /\ other.freeSlots \in Seq(DOMAIN other.slots)
          /\ other.roots \in Seq(Id)
      BY <1>2, <2>1
    <3>2. 0 \in StableNodeId /\ 0 \in 0 .. RevisionMax
      BY LimitsAssumption DEF StableNodeId
    <3> QED BY <1>2, <2>1, <3>1, <3>2, SameClass DEF Other!TypeOK
  <2>3. Other!SlotTableOK
    BY <1>2, <2>1, SameClass DEF Other!SlotTableOK, IsInjective, ToSet
  <2>4. Other!NextIdFresh /\ Other!Acyclic
    BY <2>1 DEF Other!NextIdFresh, Other!Acyclic
  <2>5. Other!ForestOK
    BY <1>2, <2>1, SameClass DEF Other!ForestOK, IsInjective, ToSet
  <2> QED BY <2>2, <2>3, <2>4, <2>5 DEF OtherInv
<1>4. Members.slotById = <<>> /\ Members.roots = <<>>
  BY DEF Members, Init
<1>5. ContentOf(Members) = [records |-> <<>>, roots |-> <<>>]
  BY <1>4, EmptyContent
<1>6. HistoryOK
  BY <1>5 DEF HistoryOK, Domain, NoDomain
<1>7. DomainNeverReissues
  BY DEF DomainNeverReissues, Domain, NoDomain
<1>8. /\ SnapshotPast(domain.this, revision, ContentOf(Members))
      /\ SnapshotPast(domain.other, other.revision, ContentOf(other))
  BY DEF SnapshotPast, Domain, NoDomain
<1> QED BY <1>1, <1>3, <1>6, <1>7, <1>8 DEF MovesInv

(* Every action keeps it.                                                  *)
LEMMA MovesNextInv == MovesInv /\ [MovesNext]_movesVars => MovesInv'
<1> SUFFICES ASSUME MovesInv, [MovesNext]_movesVars PROVE MovesInv'
  OBVIOUS
<1>0. /\ Inv /\ OtherInv /\ HistoryOK /\ DomainNeverReissues
      /\ SnapshotPast(domain.this, revision, ContentOf(Members))
      /\ SnapshotPast(domain.other, other.revision, ContentOf(other))
      /\ nextId \in Nat /\ revision \in Nat
      /\ other.nextId \in Nat /\ other.revision \in Nat
  BY CountersTyped DEF MovesInv
<1>1. CASE Edit
  <2>1. Inv'
    BY <1>0, <1>1, NextInv DEF Edit
  <2>2. OtherInv'
    <3>1. other' = other /\ reply'.error \in Other!MutationError \cup {"none", "exception"}
      BY <1>1, <2>1, SameClass DEF Edit, Inv, TypeOK
    <3> QED BY <1>0, <3>1 DEF OtherInv, Other!TypeOK, Other!SlotTableOK,
               Other!NextIdFresh, Other!ForestOK, Other!Acyclic, Other!Live,
               Other!FindRecord, Other!Known, Other!Parent, Other!Children,
               Other!IsRoot
  <2>3. Live' \subseteq Nat
    BY <2>1, LimitsAssumption DEF Inv, TypeOK, Id
  <2>4. HistoryOK'
    BY <1>0, <1>1, <2>3 DEF Edit, HistoryOK
  <2>5. nextId' \in Nat /\ nextId <= nextId'
        /\ \A n \in Live' : n < nextId'
    <3>1. IssueStep
      BY <1>1, NextIssues DEF Edit
    <3> QED BY <1>0, <2>1, <3>1 DEF IssueStep, Inv, NextIdFresh
  <2>6. DomainNeverReissues'
    <3>1. domain.this # NoDomain => domain.this \in Domain
          /\ issued' = [issued EXCEPT ![domain.this] = @ \cup (Live' \ Live)]
      BY <1>0, <1>1 DEF Edit, HistoryOK
    <3>2. domain.this # NoDomain =>
            /\ issued'[domain.this] = issued[domain.this] \cup (Live' \ Live)
            /\ \A n \in issued[domain.this] : n \in Nat /\ n < nextId
      BY <1>0, <3>1 DEF HistoryOK, DomainNeverReissues
    <3>3. domain.this # NoDomain => \A n \in issued'[domain.this] : n < nextId'
      BY <1>0, <2>5, <3>2
    <3>4. domain.other # NoDomain => issued'[domain.other] = issued[domain.other]
      BY <1>0, <1>1 DEF Edit, HistoryOK
    <3> QED BY <1>0, <1>1, <3>3, <3>4 DEF Edit, DomainNeverReissues
  <2>7. SnapshotPast(domain.this, revision, ContentOf(Members))'
    <3>1. CASE UNCHANGED state
      <4>1. Members' = Members /\ revision' = revision
        BY <3>1 DEF Members, state
      <4> QED BY <1>0, <1>1, <4>1 DEF Edit, SnapshotPast
    <3>2. CASE revision' = revision + 1
      BY <1>0, <1>1, <3>2 DEF Edit, SnapshotPast, HistoryOK
    <3> QED BY <1>0, <1>1, <3>1, <3>2, EditCounts DEF Edit
  <2>8. SnapshotPast(domain.other, other.revision, ContentOf(other))'
    BY <1>0, <1>1 DEF Edit, SnapshotPast
  <2> QED BY <2>1, <2>2, <2>4, <2>6, <2>7, <2>8 DEF MovesInv
<1>2. CASE Turn
  <2>1. Inv' /\ OtherInv'
    BY <1>0, <1>2, ArrivedIsSound, TurnedIsSound DEF Turn, ThisIsOther
  <2>2. HistoryOK'
    BY <1>0, <1>2 DEF Turn, HistoryOK
  <2>3. /\ ContentOf(Members)' = ContentOf(other)
        /\ ContentOf(other)' = ContentOf(Members)
        /\ other'.revision = revision /\ other'.nextId = nextId
        /\ domain'.this = domain.other /\ domain'.other = domain.this
    BY <1>2 DEF Turn, ContentOf, Members
  <2>4. DomainNeverReissues'
    BY <1>0, <1>2, <2>3 DEF Turn, DomainNeverReissues
  <2>5. /\ SnapshotPast(domain.this, revision, ContentOf(Members))'
        /\ SnapshotPast(domain.other, other.revision, ContentOf(other))'
    BY <1>0, <1>2, <2>3 DEF Turn, SnapshotPast
  <2> QED BY <2>1, <2>2, <2>4, <2>5 DEF MovesInv
<1>3. CASE TakeOther
  <2>1. Inv' /\ OtherInv'
    BY <1>0, <1>3, ArrivedIsSound, EmptiedIsSound
       DEF TakeOther, ThisIsOther, MovedNextId, MovedRevision
  <2>2. HistoryOK'
    BY <1>0, <1>3 DEF TakeOther, HistoryOK
  <2>3. /\ ContentOf(Members)' = ContentOf(other)
        /\ revision' = other.revision /\ nextId' = other.nextId
        /\ domain'.this = domain.other /\ domain'.other = NoDomain
    BY <1>3 DEF TakeOther, ContentOf, Members, MovedRevision, MovedNextId
  <2>4. /\ ContentOf(other') = [records |-> <<>>, roots |-> <<>>]
        /\ other'.revision = other.revision
    <3>1. other'.slotById = <<>> /\ other'.roots = <<>>
          /\ other'.revision = other.revision
      BY <1>3 DEF TakeOther, EmptiedRoots
    <3> QED BY <3>1, EmptyContent
  <2>5. DomainNeverReissues'
    BY <1>0, <1>3, <2>3 DEF TakeOther, DomainNeverReissues
  <2>6. SnapshotPast(domain.this, revision, ContentOf(Members))'
    BY <1>0, <1>3, <2>3 DEF TakeOther, SnapshotPast
  <2>7. SnapshotPast(domain.other, other.revision, ContentOf(other))'
    BY <1>0, <1>3, <2>3, <2>4 DEF TakeOther, SnapshotPast, HistoryOK
  <2> QED BY <2>1, <2>2, <2>5, <2>6, <2>7 DEF MovesInv
<1>4. ASSUME UNCHANGED <<vars, other, domain, issued>>
      PROVE  /\ Inv' /\ OtherInv' /\ DomainNeverReissues'
             /\ UNCHANGED <<state, revision, domain, other, issued>>
             /\ Members' = Members
             /\ ContentOf(Members)' = ContentOf(Members)
             /\ ContentOf(other)' = ContentOf(other)
  <2>1. /\ UNCHANGED <<state, vars, reply, other, domain, issued>>
        /\ UNCHANGED <<nextId, revision>>
    BY <1>4 DEF vars, state
  <2>2. Inv'
    BY <1>0, <2>1, NextInv
  <2>3. OtherInv'
    BY <1>0, <2>1 DEF OtherInv, Other!TypeOK, Other!SlotTableOK,
       Other!NextIdFresh, Other!ForestOK, Other!Acyclic, Other!Live,
       Other!FindRecord, Other!Known, Other!Parent, Other!Children,
       Other!IsRoot
  <2>4. Members' = Members
    BY <2>1 DEF Members, state
  <2>5. ContentOf(Members)' = ContentOf(Members) /\ ContentOf(other)' = ContentOf(other)
    BY <2>1, <2>4 DEF ContentOf
  <2> QED BY <1>0, <2>1, <2>2, <2>3, <2>4, <2>5 DEF DomainNeverReissues
<1>5. CASE Snapshot
  <2>1. snapshot'.domain = domain.this /\ snapshot'.revision = revision
        /\ snapshot'.content = ContentOf(Members)
        /\ domain.this # NoDomain
        /\ UNCHANGED <<vars, other, domain, issued>>
    BY <1>5 DEF Snapshot
  <2>2. HistoryOK'
    BY <1>0, <2>1 DEF HistoryOK
  <2>3. SnapshotPast(domain.this, revision, ContentOf(Members))'
    BY <1>4, <2>1 DEF SnapshotPast
  <2>4. SnapshotPast(domain.other, other.revision, ContentOf(other))'
    BY <1>0, <1>4, <2>1 DEF SnapshotPast, HistoryOK
  <2> QED BY <1>4, <2>1, <2>2, <2>3, <2>4 DEF MovesInv
<1>6. CASE UNCHANGED movesVars
  <2>1. UNCHANGED <<vars, other, domain, issued>> /\ UNCHANGED snapshot
    BY <1>6 DEF movesVars, history
  <2> QED BY <1>0, <1>4, <2>1 DEF MovesInv, HistoryOK, SnapshotPast
<1> QED BY <1>1, <1>2, <1>3, <1>5, <1>6 DEF MovesNext

(* It holds whatever the two owners do and move.                           *)
THEOREM MovesInvHolds == MovesSpec => []MovesInv
BY MovesInitInv, MovesNextInv, PTL DEF MovesSpec

(* Both trees stay sound, an object moved from included, and no domain is  *)
(* duplicated.                                                             *)
THEOREM BothTreesAreSound == MovesSpec => []BothTreesSound
<1>1. MovesInv => BothTreesSound
  BY DEF MovesInv, Inv, OtherInv, HistoryOK, BothTreesSound
<1> QED BY <1>1, MovesInvHolds, PTL

(* A snapshot is told current by its domain and revision, wherever moves   *)
(* took the domain.                                                        *)
THEOREM SnapshotsFollowDomains == MovesSpec => []SnapshotFollowsDomain
<1>1. MovesInv => SnapshotFollowsDomain
  <2> SUFFICES ASSUME MovesInv PROVE SnapshotFollowsDomain
    OBVIOUS
  <2>1. /\ revision \in Nat /\ other.revision \in Nat
        /\ snapshot.revision \in Nat
        /\ Members.revision = revision
    BY CountersTyped DEF MovesInv, HistoryOK, Members
  <2>2. IsCurrent("this", Members) => ContentOf(Members) = snapshot.content
    BY <2>1 DEF MovesInv, SnapshotPast, IsCurrent
  <2>3. IsCurrent("other", other) => ContentOf(other) = snapshot.content
    BY <2>1 DEF MovesInv, SnapshotPast, IsCurrent
  <2> QED BY <2>2, <2>3 DEF SnapshotFollowsDomain
<1> QED BY <1>1, MovesInvHolds, PTL

(* No identity is handed out twice in a domain, whichever object has it.   *)
THEOREM DomainsNeverReissue == MovesSpec => []DomainNeverReissues
<1>1. MovesInv => DomainNeverReissues
  BY DEF MovesInv
<1> QED BY <1>1, MovesInvHolds, PTL
=============================================================================
