----------------------- MODULE PolytreeStorageProofs -----------------------
(***************************************************************************)
(* Every payload of PolytreeStorage is constructed and destroyed once, for *)
(* any number of objects, buffers and nodes.                               *)
(*                                                                         *)
(* The rollback of a build destroys the first cells of each span, as many  *)
(* as the counts of what was made say, and knows nothing else of them.     *)
(* The invariant says that these are the cells that live: for the edges    *)
(* because the cursors of edges that are grouped run through the span in   *)
(* order.                                                                  *)
(***************************************************************************)
EXTENDS PolytreeStorage, BuildLemmas

-----------------------------------------------------------------------------
(* The inductive invariant *)

BufferOrNone == Buffer \cup {NoBuffer}

Shape ==
    /\ heap \in [Buffer -> [allocated : BOOLEAN,
                            cells : [Spans -> Seq({0, 1})]]]
    /\ objects \in [Object -> StorageObject \cup {NoObject}]
    /\ job \in [pc : {"none", "nodes", "edges", "parents"},
                buffer : BufferOrNone, nodes : Nat,
                edges : Seq(EdgeBelow(job.nodes, {DefaultEdge})),
                next : Nat \ {0}, made : [Spans -> Nat],
                target : Object \cup {NoObject}]

Holds(o, b) == objects[o] # NoObject /\ objects[o].buffer = b

(* An object without buffer is empty; another describes its buffer, which  *)
(* no other object has; and an allocated buffer is held or being built.    *)
Owned ==
    /\ \A o \in Object : Holds(o, NoBuffer) => objects[o].view = EmptyView
    /\ \A o \in Object, b \in Buffer : Holds(o, b) =>
          /\ heap[b].allocated
          /\ Describes(objects[o].view, b)
          /\ \A p \in Object : Holds(p, b) => p = o
    /\ \A b \in Buffer : heap[b].allocated =>
          job.buffer = b \/ \E o \in Object : Holds(o, b)

(* The cells a build has room for, and those it has made.                  *)
Room == [nodes |-> job.nodes, edges |-> Len(job.edges), parents |-> job.nodes]
Made ==
    \/ /\ job.pc = "nodes" /\ job.next <= job.nodes + 1
       /\ job.made = [nodes |-> job.next - 1, edges |-> 0, parents |-> 0]
    \/ /\ job.pc = "edges" /\ job.next <= Len(job.edges) + 1
       /\ job.made = [nodes |-> job.nodes, edges |-> job.next - 1,
                      parents |-> 0]
    \/ job.pc = "parents" /\ job.made = Room

(* The cursor of its from gives each edge the position it has.             *)
Grouped ==
    \A k \in 1 .. Len(job.edges) :
        CursorPosition(job.edges, job.nodes, k) = k

Running ==
    IF job.pc = "none" THEN job = NoJob
    ELSE /\ job.buffer \in Buffer
         /\ heap[job.buffer].allocated
         /\ \A o \in Object : ~Holds(o, job.buffer)
         /\ job.target \in Object /\ objects[job.target] = NoObject
         /\ Made
         /\ Grouped
         /\ \A s \in Spans :
               /\ Len(heap[job.buffer].cells[s]) = Room[s]
               /\ \A i \in 1 .. Room[s] :
                     heap[job.buffer].cells[s][i] =
                         IF i <= job.made[s] THEN 1 ELSE 0

StorageInv == Shape /\ Owned /\ Running /\ FreedBuffersEmpty

-----------------------------------------------------------------------------
(* The parts of a state *)

Heaps == [Buffer -> [allocated : BOOLEAN, cells : [Spans -> Seq({0, 1})]]]

(* Buffers are numbered from one.                                          *)
LEMMA NoBufferIsNone ==
  /\ NoBuffer \notin Buffer
  /\ NoBuffer \in BufferOrNone
  /\ \A b \in Buffer : b # NoBuffer
BY MaxBuffersAssumption DEF NoBuffer, Buffer, BufferOrNone

(* The objects and views the code makes are objects.                       *)
LEMMA EmptyIsObject ==
  /\ NoSpans \in [Spans -> Nat]
  /\ EmptyObject \in StorageObject
  /\ EmptyObject # NoObject
  /\ EmptyObject.buffer = NoBuffer
  /\ EmptyObject.view = EmptyView
<1>1. NoSpans \in [Spans -> Nat]
  BY DEF NoSpans
<1>2. EmptyView = [buffer |-> NoBuffer, spans |-> NoSpans]
  BY DEF EmptyView
<1>3. EmptyView \in [buffer : Buffer \cup {NoBuffer}, spans : [Spans -> Nat]]
  BY <1>1, <1>2
<1>4. EmptyObject = [buffer |-> NoBuffer, view |-> EmptyView]
  BY DEF EmptyObject
<1>5. EmptyObject \in StorageObject
  BY <1>3, <1>4 DEF StorageObject
<1> QED BY <1>1, <1>4, <1>5, NoObjectAssumption

(* What is moved from is left empty.                                       *)
LEMMA MovedFromIsEmpty ==
  ASSUME NEW object \in StorageObject
  PROVE  MovedFrom(object) = EmptyObject
<1> DEFINE half == [object EXCEPT !.buffer = NoBuffer]
<1>1. MovedFrom(object) = [half EXCEPT !.view = EmptyView]
  BY Zenon DEF MovedFrom
<1>2. half = [buffer |-> NoBuffer, view |-> object.view]
  BY DEF StorageObject
<1> HIDE DEF half
<1>3. [half EXCEPT !.view = EmptyView] = [buffer |-> NoBuffer, view |-> EmptyView]
  BY <1>2
<1> QED BY <1>1, <1>3 DEF EmptyObject

CellSet(b, s, i, v) == [heap EXCEPT ![b].cells[s][i] = v]
Emptied(b, spans) ==
    Freed([heap EXCEPT ![b].cells = DestroyCells(@, spans)], b)

OneCellSet(h, b, s, i, v) ==
    /\ h \in Heaps
    /\ \A c \in Buffer \ {b} : h[c] = heap[c]
    /\ h[b].allocated = heap[b].allocated
    /\ \A t \in Spans :
          /\ Len(h[b].cells[t]) = Len(heap[b].cells[t])
          /\ \A j \in 1 .. Len(heap[b].cells[t]) :
                h[b].cells[t][j] = IF t = s /\ j = i THEN v
                                   ELSE heap[b].cells[t][j]

(* A cell written, the others and the lengths stay.                        *)
LEMMA CellWritten ==
  ASSUME heap \in Heaps, NEW b \in Buffer, NEW s \in Spans,
         NEW i \in 1 .. Len(heap[b].cells[s]), NEW v \in {0, 1}
  PROVE  OneCellSet(CellSet(b, s, i, v), b, s, i, v)
<1> DEFINE h == CellSet(b, s, i, v)
           row == heap[b].cells[s]
           newRow == [row EXCEPT ![i] = v]
           cells == heap[b].cells
           newCells == [cells EXCEPT ![s] = newRow]
           entry == heap[b]
           newEntry == [entry EXCEPT !.cells = newCells]
<1>1. /\ entry \in [allocated : BOOLEAN, cells : [Spans -> Seq({0, 1})]]
      /\ cells \in [Spans -> Seq({0, 1})]
      /\ row \in Seq({0, 1})
      /\ entry = [allocated |-> entry.allocated, cells |-> cells]
      /\ \A t \in Spans : cells[t] \in Seq({0, 1})
  BY DEF Heaps
<1>2. h = [heap EXCEPT ![b] = newEntry]
  BY Zenon DEF CellSet
<1> HIDE DEF row
<1>3. /\ newRow \in Seq({0, 1}) /\ Len(newRow) = Len(row)
      /\ \A j \in 1 .. Len(row) : newRow[j] = IF j = i THEN v ELSE row[j]
  <2>1. Len(row) \in Nat /\ row \in [1 .. Len(row) -> {0, 1}]
    BY <1>1, LenProperties
  <2>2. newRow \in [1 .. Len(row) -> {0, 1}]
    BY <2>1
  <2> QED BY <2>1, <2>2
<1> HIDE DEF newRow, cells, h
<1>4. /\ newCells \in [Spans -> Seq({0, 1})]
      /\ \A t \in Spans : newCells[t] = IF t = s THEN newRow ELSE cells[t]
  BY <1>1, <1>3
<1> HIDE DEF newCells, entry
<1>5. /\ newEntry = [allocated |-> entry.allocated, cells |-> newCells]
  BY <1>1
<1>6. /\ newEntry \in [allocated : BOOLEAN, cells : [Spans -> Seq({0, 1})]]
      /\ newEntry.allocated = entry.allocated /\ newEntry.cells = newCells
  <2>1. entry.allocated \in BOOLEAN
    BY <1>1
  <2> HIDE DEF newEntry
  <2> QED BY <1>4, <1>5, <2>1
<1> HIDE DEF newEntry
<1>7. /\ h \in Heaps
      /\ h[b] = newEntry
      /\ \A c \in Buffer \ {b} : h[c] = heap[c]
  BY <1>2, <1>6 DEF Heaps
<1>8. \A t \in Spans :
         /\ Len(newCells[t]) = Len(cells[t])
         /\ \A j \in 1 .. Len(cells[t]) :
               newCells[t][j] = IF t = s /\ j = i THEN v ELSE cells[t][j]
  <2>1. cells[s] = row
    BY DEF cells, row
  <2> QED BY <1>3, <1>4, <2>1
<1> QED BY <1>6, <1>7, <1>8 DEF entry, cells, OneCellSet, h

LivesAre(b, spans) ==
    \A s \in Spans : \A i \in 1 .. Len(heap[b].cells[s]) :
        heap[b].cells[s][i] = IF i <= spans[s] THEN 1 ELSE 0
OneBufferFreed(h, b) ==
    /\ h \in Heaps
    /\ \A c \in Buffer \ {b} : h[c] = heap[c]
    /\ ~h[b].allocated
    /\ \A s \in Spans : \A i \in DOMAIN h[b].cells[s] : h[b].cells[s][i] = 0

(* Destroying the cells that live, and no other, leaves none.              *)
LEMMA BufferEmptied ==
  ASSUME heap \in Heaps, NEW b \in Buffer, NEW spans \in [Spans -> Nat],
         LivesAre(b, spans)
  PROVE  OneBufferFreed(Emptied(b, spans), b)
<1> DEFINE h == Emptied(b, spans)
           entry == heap[b]
           cells == heap[b].cells
           newCells == DestroyCells(cells, spans)
           half == [entry EXCEPT !.cells = newCells]
           newEntry == [half EXCEPT !.allocated = FALSE]
           g == [heap EXCEPT ![b] = half]
<1>1. /\ entry = [allocated |-> entry.allocated, cells |-> cells]
      /\ \A s \in Spans : cells[s] \in Seq({0, 1})
  BY DEF Heaps
<1>2. h = [g EXCEPT ![b].allocated = FALSE]
  <2>1. b # NoBuffer
    BY NoBufferIsNone
  <2>2. [heap EXCEPT ![b].cells = DestroyCells(@, spans)] = g
    BY Zenon
  <2> HIDE DEF g
  <2> QED BY <2>1, <2>2, Zenon DEF Emptied, Freed
<1> HIDE DEF cells
<1>3. /\ newCells \in [Spans -> Seq({0, 1})]
      /\ \A s \in Spans : \A i \in DOMAIN newCells[s] : newCells[s][i] = 0
  <2>1. ASSUME NEW s \in Spans
        PROVE  /\ newCells[s] \in Seq({0, 1})
               /\ \A i \in DOMAIN newCells[s] : newCells[s][i] = 0
    <3> DEFINE row == cells[s]
               n == Len(row)
               Left(i) == IF i <= spans[s] THEN row[i] - 1 ELSE row[i]
    <3>1. n \in Nat /\ DOMAIN row = 1 .. n
      BY <1>1, LenProperties
    <3>2. newCells[s] = [i \in 1 .. n |-> Left(i)]
      BY <3>1 DEF DestroyCells
    <3>3. \A i \in 1 .. n : Left(i) = 0
      BY DEF cells, LivesAre
    <3> HIDE DEF Left, n, newCells
    <3>4. newCells[s] \in [1 .. n -> {0, 1}]
      BY <3>2, <3>3
    <3> QED BY <3>1, <3>2, <3>3, <3>4
  <2>2. newCells = [s \in Spans |-> newCells[s]]
    BY DEF DestroyCells
  <2> HIDE DEF newCells
  <2> QED BY <2>1, <2>2
<1> HIDE DEF newCells, entry
<1>4. half = [allocated |-> entry.allocated, cells |-> newCells]
  BY <1>1
<1> HIDE DEF half
<1>5. newEntry = [allocated |-> FALSE, cells |-> newCells]
  <2> DEFINE off == FALSE
             x == entry.allocated
  <2>1. newEntry = [half EXCEPT !.allocated = off]
    BY Zenon
  <2> HIDE DEF off, newEntry, x
  <2>2. newEntry = [allocated |-> off, cells |-> newCells]
    BY <1>4, <2>1
  <2> QED BY <2>2 DEF off
<1>6. h = [heap EXCEPT ![b] = newEntry]
  <2>1. DOMAIN heap = Buffer
    BY DEF Heaps
  <2>2. g[b] = half /\ DOMAIN g = Buffer
    BY <2>1
  <2>3. h = [g EXCEPT ![b] = newEntry]
    BY <1>2, <2>2, Zenon
  <2> HIDE DEF newEntry
  <2> QED BY <2>1, <2>3
<1> HIDE DEF newEntry, g
<1>7. newEntry \in [allocated : BOOLEAN, cells : [Spans -> Seq({0, 1})]]
      /\ newEntry.allocated = FALSE /\ newEntry.cells = newCells
  BY <1>3, <1>5
<1> HIDE DEF h
<1> QED BY <1>3, <1>6, <1>7 DEF Heaps, OneBufferFreed, h

-----------------------------------------------------------------------------
(* The steps of a build *)

JobsOf(n) == [pc : {"none", "nodes", "edges", "parents"},
              buffer : BufferOrNone, nodes : Nat,
              edges : Seq(EdgeBelow(n, {DefaultEdge})),
              next : Nat \ {0}, made : [Spans -> Nat],
              target : Object \cup {NoObject}]

(* The state of a build that runs.                                         *)
LEMMA BuildParts ==
  ASSUME StorageInv, Building
  PROVE  /\ heap \in Heaps
         /\ job = [pc |-> job.pc, buffer |-> job.buffer, nodes |-> job.nodes,
                   edges |-> job.edges, next |-> job.next,
                   made |-> job.made, target |-> job.target]
         /\ job.pc \in {"nodes", "edges", "parents"}
         /\ job.buffer \in Buffer /\ job.buffer \in BufferOrNone
         /\ job.nodes \in Nat
         /\ job.edges \in Seq(EdgeBelow(job.nodes, {DefaultEdge}))
         /\ Len(job.edges) \in Nat
         /\ job.next \in Nat \ {0}
         /\ job.made \in [Spans -> Nat]
         /\ job.target \in Object /\ objects[job.target] = NoObject
         /\ Room["nodes"] = job.nodes /\ Room["edges"] = Len(job.edges)
         /\ Room["parents"] = job.nodes
         /\ \A s \in Spans : Room[s] \in Nat
         /\ heap[job.buffer].allocated
         /\ \A s \in Spans :
               /\ Len(heap[job.buffer].cells[s]) = Room[s]
               /\ \A i \in 1 .. Room[s] :
                     heap[job.buffer].cells[s][i] =
                         IF i <= job.made[s] THEN 1 ELSE 0
<1>1. /\ heap \in Heaps
      /\ job \in JobsOf(job.nodes)
      /\ Running /\ job.pc # "none"
  BY DEF StorageInv, Shape, Heaps, JobsOf, Building
<1>2. /\ job = [pc |-> job.pc, buffer |-> job.buffer, nodes |-> job.nodes,
                edges |-> job.edges, next |-> job.next,
                made |-> job.made, target |-> job.target]
      /\ job.pc \in {"nodes", "edges", "parents"}
      /\ job.nodes \in Nat
      /\ job.edges \in Seq(EdgeBelow(job.nodes, {DefaultEdge}))
      /\ job.next \in Nat \ {0}
      /\ job.made \in [Spans -> Nat]
  BY <1>1 DEF JobsOf
<1>3. Len(job.edges) \in Nat
  BY <1>2, LenProperties
<1>4. /\ Room["nodes"] = job.nodes /\ Room["edges"] = Len(job.edges)
      /\ Room["parents"] = job.nodes
  BY DEF Room
<1>5. \A s \in Spans : Room[s] \in Nat
  BY <1>2, <1>3, <1>4 DEF Spans
<1>6. job.buffer \in Buffer /\ job.buffer \in BufferOrNone
  BY <1>1 DEF Running, BufferOrNone
<1> QED BY <1>1, <1>2, <1>3, <1>4, <1>5, <1>6 DEF Running

JobAt(pc, next, made) ==
    [pc |-> pc, buffer |-> job.buffer, nodes |-> job.nodes,
     edges |-> job.edges, next |-> next, made |-> made, target |-> job.target]

(* What may have been made when a build stands at pc, next.                *)
Counted(pc, next, made) ==
    \/ pc = "nodes" /\ next <= job.nodes + 1
         /\ made = [nodes |-> next - 1, edges |-> 0, parents |-> 0]
    \/ pc = "edges" /\ next <= Len(job.edges) + 1
         /\ made = [nodes |-> job.nodes, edges |-> next - 1, parents |-> 0]
    \/ pc = "parents" /\ made = Room

(* A step of the build that touches no other buffer keeps the invariant    *)
(* if its counts say what lives in its own.                                *)
LEMMA BuildGoesOn ==
  ASSUME StorageInv, Building, objects' = objects,
         heap' \in Heaps,
         \A c \in Buffer \ {job.buffer} : heap'[c] = heap[c],
         heap'[job.buffer].allocated,
         NEW pc \in {"nodes", "edges", "parents"},
         NEW next \in Nat \ {0}, NEW made \in [Spans -> Nat],
         job' = JobAt(pc, next, made),
         Counted(pc, next, made),
         \A s \in Spans :
            /\ Len(heap'[job.buffer].cells[s]) = Room[s]
            /\ \A i \in 1 .. Room[s] :
                  heap'[job.buffer].cells[s][i] =
                      IF i <= made[s] THEN 1 ELSE 0
  PROVE  StorageInv'
<1> DEFINE b == job.buffer
<1>1. /\ job'.pc = pc /\ job'.buffer = b /\ job'.nodes = job.nodes
      /\ job'.edges = job.edges /\ job'.next = next
      /\ job'.made = made /\ job'.target = job.target
      /\ job'.pc # "none"
  BY DEF JobAt
<1>2. /\ b \in Buffer /\ b \in BufferOrNone /\ job.nodes \in Nat
      /\ job.edges \in Seq(EdgeBelow(job.nodes, {DefaultEdge}))
      /\ job.target \in Object
  BY BuildParts
<1>3. job' \in JobsOf(job'.nodes)
  <2>1. job' \in JobsOf(job.nodes)
    BY <1>2 DEF JobsOf, JobAt
  <2> QED BY <1>1, <2>1
<1>4. Shape'
  BY <1>3 DEF Shape, Heaps, JobsOf, StorageInv
<1>5. Room' = Room
  BY <1>1 DEF Room
<1>6. /\ Grouped /\ objects[job.target] = NoObject
      /\ \A o \in Object : ~Holds(o, b)
  BY DEF StorageInv, Running, Building
<1>7. Made'
  BY <1>1, <1>5 DEF Made, Counted
<1>8. Grouped'
  BY <1>1, <1>6 DEF Grouped
<1>9. \A o, c : Holds(o, c)' <=> Holds(o, c)
  BY DEF Holds
<1>10. Running'
  <2>1. \A o \in Object : ~Holds(o, job.buffer)'
    BY <1>1, <1>6, <1>9
  <2>2. \A s \in Spans :
           /\ Len(heap'[job'.buffer].cells[s]) = Room'[s]
           /\ \A i \in 1 .. Room'[s] :
                 heap'[job'.buffer].cells[s][i] =
                     IF i <= job'.made[s] THEN 1 ELSE 0
    BY <1>1, <1>5
  <2> QED BY <1>1, <1>2, <1>6, <1>7, <1>8, <2>1, <2>2 DEF Running
<1>11. Owned'
  <2>1. ASSUME NEW o \in Object, Holds(o, NoBuffer)'
        PROVE  objects'[o].view = EmptyView
    BY <1>9, <2>1 DEF StorageInv, Owned
  <2>2. ASSUME NEW o \in Object, NEW c \in Buffer, Holds(o, c)'
        PROVE  /\ heap'[c].allocated
               /\ Describes(objects[o].view, c)'
               /\ \A p \in Object : Holds(p, c)' => p = o
    <3>1. Holds(o, c) /\ c # b
      BY <1>6, <1>9, <2>2
    <3>2. /\ heap[c].allocated /\ Describes(objects[o].view, c)
          /\ \A p \in Object : Holds(p, c) => p = o
      BY <3>1 DEF StorageInv, Owned
    <3>3. heap'[c] = heap[c]
      BY <3>1
    <3> QED BY <1>9, <3>2, <3>3 DEF Describes
  <2>3. ASSUME NEW c \in Buffer, heap'[c].allocated
        PROVE  job'.buffer = c \/ \E o \in Object : Holds(o, c)'
    <3>1. CASE c = b
      BY <1>1, <3>1
    <3>2. CASE c # b
      BY <1>9, <2>3, <3>2 DEF StorageInv, Owned
    <3> QED BY <3>1, <3>2
  <2> QED BY <2>1, <2>2, <2>3 DEF Owned
<1>12. FreedBuffersEmpty'
  BY DEF StorageInv, FreedBuffersEmpty
<1> QED BY <1>4, <1>10, <1>11, <1>12 DEF StorageInv

(* A node or an edge made in the next cell of its span.                    *)
LEMMA CellMade ==
  ASSUME StorageInv, Building, NEW s \in Spans,
         NEW next \in Nat \ {0}, next = job.made[s] + 1, next <= Room[s],
         heap' = [heap EXCEPT ![job.buffer].cells[s][next] = @ + 1]
  PROVE  /\ heap' \in Heaps
         /\ \A c \in Buffer \ {job.buffer} : heap'[c] = heap[c]
         /\ heap'[job.buffer].allocated
         /\ \A t \in Spans :
               /\ Len(heap'[job.buffer].cells[t]) = Room[t]
               /\ \A i \in 1 .. Room[t] :
                     heap'[job.buffer].cells[t][i] =
                         IF i <= (IF t = s THEN next ELSE job.made[t])
                         THEN 1 ELSE 0
<1> DEFINE b == job.buffer
           v == heap[b].cells[s][next] + 1
<1>1. /\ heap \in Heaps /\ b \in Buffer /\ heap[b].allocated
      /\ job.made \in [Spans -> Nat]
      /\ \A t \in Spans : Room[t] \in Nat
      /\ \A t \in Spans :
            /\ Len(heap[b].cells[t]) = Room[t]
            /\ \A i \in 1 .. Room[t] :
                  heap[b].cells[t][i] = IF i <= job.made[t] THEN 1 ELSE 0
  BY BuildParts
<1>2. next \in 1 .. Room[s] /\ ~(next <= job.made[s])
  BY <1>1
<1>3. heap[b].cells[s][next] = 0
  BY <1>1, <1>2
<1>4. heap' = CellSet(b, s, next, v)
  BY Zenon DEF CellSet
<1>5. v = 1
  BY <1>3
<1>6. next \in 1 .. Len(heap[b].cells[s]) /\ v \in {0, 1}
  BY <1>1, <1>2, <1>5
<1> HIDE DEF v, b
<1>7. /\ heap' \in Heaps
      /\ \A c \in Buffer \ {b} : heap'[c] = heap[c]
      /\ heap'[b].allocated = heap[b].allocated
      /\ \A t \in Spans :
            /\ Len(heap'[b].cells[t]) = Len(heap[b].cells[t])
            /\ \A j \in 1 .. Len(heap[b].cells[t]) :
                  heap'[b].cells[t][j] = IF t = s /\ j = next THEN v
                                         ELSE heap[b].cells[t][j]
  <2>1. heap \in Heaps /\ b \in Buffer
    BY <1>1
  <2>2. OneCellSet(CellSet(b, s, next, v), b, s, next, v)
    BY <1>6, <2>1, CellWritten, Zenon
  <2>3. OneCellSet(heap', b, s, next, v)
    BY <1>4, <2>2, Zenon
  <2> QED BY <2>3 DEF OneCellSet
<1>8. ASSUME NEW t \in Spans, NEW i \in 1 .. Room[t]
      PROVE  heap'[b].cells[t][i] =
                IF i <= (IF t = s THEN next ELSE job.made[t]) THEN 1 ELSE 0
  <2>1. heap[b].cells[t][i] = IF i <= job.made[t] THEN 1 ELSE 0
    BY <1>1
  <2>2. heap'[b].cells[t][i] = IF t = s /\ i = next THEN v
                               ELSE heap[b].cells[t][i]
    <3>1. i \in 1 .. Len(heap[b].cells[t])
      BY <1>1
    <3> QED BY <1>7, <3>1, Zenon
  <2>3. CASE t = s
    <3>1. CASE i = next
      <4>1. heap'[b].cells[t][i] = v
        BY <2>2, <2>3, <3>1
      <4>2. v = 1 /\ i <= next
        BY <1>1, <1>5, <3>1
      <4> QED BY <2>3, <4>1, <4>2
    <3>2. CASE i # next
      <4>1. heap'[b].cells[t][i] = IF i <= job.made[t] THEN 1 ELSE 0
        BY <2>1, <2>2, <3>2
      <4>2. i <= job.made[t] <=> i <= next
        BY <1>1, <1>5, <2>3, <3>2
      <4> QED BY <2>3, <4>1, <4>2
    <3> QED BY <3>1, <3>2
  <2>4. CASE t # s
    BY <2>1, <2>2, <2>4
  <2> QED BY <2>3, <2>4
<1>9. \A t \in Spans : Len(heap'[b].cells[t]) = Room[t]
  BY <1>1, <1>7
<1>10. heap'[b].allocated
  BY <1>1, <1>7
<1> QED BY <1>7, <1>8, <1>9, <1>10 DEF b

(* A node is made in the next cell.                                        *)
LEMMA ConstructNodeKeepsInv ==
  ASSUME StorageInv, ConstructNode
  PROVE  StorageInv'
<1> DEFINE next == job.next + 1
           made == [job.made EXCEPT !["nodes"] = job.made["nodes"] + 1]
<1>1. /\ job.pc = "nodes" /\ job.next <= job.nodes
      /\ objects' = objects
      /\ job' = [job EXCEPT !.next = next, !.made.nodes = job.made.nodes + 1]
  BY Zenon DEF ConstructNode
<1>2. Building
  BY <1>1 DEF Building
<1>3. /\ job = [pc |-> job.pc, buffer |-> job.buffer, nodes |-> job.nodes,
               edges |-> job.edges, next |-> job.next,
               made |-> job.made, target |-> job.target]
      /\ job.next \in Nat \ {0} /\ job.made \in [Spans -> Nat]
      /\ job.nodes \in Nat /\ Len(job.edges) \in Nat
      /\ Room["nodes"] = job.nodes /\ Room["edges"] = Len(job.edges)
  BY <1>2, BuildParts
<1>4. Made /\ Grouped
  BY <1>1 DEF StorageInv, Running
<1>5. /\ job.made = [nodes |-> job.next - 1, edges |-> 0, parents |-> 0]
      /\ job.made["nodes"] = job.next - 1
      /\ "nodes" \in Spans
  BY <1>1, <1>4 DEF Made, Spans
<1>6. heap' = [heap EXCEPT ![job.buffer].cells["nodes"][job.next] = @ + 1]
  BY Zenon DEF ConstructNode, Construct
<1>7. /\ heap' \in Heaps
      /\ \A c \in Buffer \ {job.buffer} : heap'[c] = heap[c]
      /\ heap'[job.buffer].allocated
      /\ \A t \in Spans :
            /\ Len(heap'[job.buffer].cells[t]) = Room[t]
            /\ \A i \in 1 .. Room[t] :
                  heap'[job.buffer].cells[t][i] =
                      IF i <= (IF t = "nodes" THEN job.next ELSE job.made[t])
                      THEN 1 ELSE 0
  <2>1. job.next = job.made["nodes"] + 1 /\ job.next <= Room["nodes"]
    BY <1>1, <1>3, <1>5
  <2> QED BY <1>2, <1>3, <1>5, <1>6, <2>1, CellMade, Zenon
<1>8. job' = JobAt("nodes", next, made)
  <2> DEFINE half == [job EXCEPT !.next = next]
  <2>1. job' = [half EXCEPT !.made = made]
    BY <1>1, Zenon
  <2> HIDE DEF next, made
  <2>2. half = [pc |-> "nodes", buffer |-> job.buffer, nodes |-> job.nodes,
                edges |-> job.edges, next |-> next, made |-> job.made,
                target |-> job.target]
    BY <1>1, <1>3
  <2> HIDE DEF half
  <2> QED BY <2>1, <2>2 DEF JobAt
<1>9. /\ next \in Nat \ {0} /\ next <= job.nodes + 1
      /\ made \in [Spans -> Nat]
      /\ \A t \in Spans : made[t] = IF t = "nodes" THEN job.next
                                   ELSE job.made[t]
  BY <1>1, <1>3, <1>5 DEF Spans
<1>10. made = [nodes |-> next - 1, edges |-> 0, parents |-> 0]
  <2>1. next - 1 = job.next
    BY <1>3
  <2> HIDE DEF next
  <2> QED BY <1>5, <1>9, <2>1 DEF Spans
<1> HIDE DEF next, made
<1>11. \A t \in Spans :
          /\ Len(heap'[job.buffer].cells[t]) = Room[t]
          /\ \A i \in 1 .. Room[t] :
                heap'[job.buffer].cells[t][i] = IF i <= made[t] THEN 1 ELSE 0
  BY <1>7, <1>9
<1>12. Counted("nodes", next, made) /\ "nodes" \in {"nodes", "edges", "parents"}
  BY <1>9, <1>10 DEF Counted
<1> QED BY <1>1, <1>2, <1>7, <1>8, <1>9, <1>11, <1>12, BuildGoesOn

(* An edge is made where its cursor points: in the next cell.              *)
LEMMA ConstructEdgeKeepsInv ==
  ASSUME StorageInv, ConstructEdge
  PROVE  StorageInv'
<1> DEFINE next == job.next + 1
           made == [job.made EXCEPT !["edges"] = job.made["edges"] + 1]
<1>1. /\ job.pc = "edges" /\ job.next <= Len(job.edges)
      /\ objects' = objects
      /\ job' = [job EXCEPT !.next = next, !.made.edges = job.made.edges + 1]
  BY Zenon DEF ConstructEdge
<1>2. Building
  BY <1>1 DEF Building
<1>3. /\ job = [pc |-> job.pc, buffer |-> job.buffer, nodes |-> job.nodes,
               edges |-> job.edges, next |-> job.next,
               made |-> job.made, target |-> job.target]
      /\ job.next \in Nat \ {0} /\ job.made \in [Spans -> Nat]
      /\ job.nodes \in Nat /\ Len(job.edges) \in Nat
      /\ Room["nodes"] = job.nodes /\ Room["edges"] = Len(job.edges)
  BY <1>2, BuildParts
<1>4. Made /\ Grouped
  BY <1>1 DEF StorageInv, Running
<1>5. /\ job.made = [nodes |-> job.nodes, edges |-> job.next - 1, parents |-> 0]
      /\ job.made["edges"] = job.next - 1
      /\ "edges" \in Spans
  BY <1>1, <1>4 DEF Made, Spans
<1>6. heap' = [heap EXCEPT ![job.buffer].cells["edges"][job.next] = @ + 1]
  <2>1. CursorPosition(job.edges, job.nodes, job.next) = job.next
    <3>1. job.next \in 1 .. Len(job.edges)
      BY <1>1, <1>3
    <3> QED BY <1>4, <3>1 DEF Grouped
  <2>2. heap' = [heap EXCEPT ![job.buffer].cells["edges"]
                    [CursorPosition(job.edges, job.nodes, job.next)] = @ + 1]
    BY Zenon DEF ConstructEdge, Construct
  <2> QED BY <2>1, <2>2, Zenon
<1>7. /\ heap' \in Heaps
      /\ \A c \in Buffer \ {job.buffer} : heap'[c] = heap[c]
      /\ heap'[job.buffer].allocated
      /\ \A t \in Spans :
            /\ Len(heap'[job.buffer].cells[t]) = Room[t]
            /\ \A i \in 1 .. Room[t] :
                  heap'[job.buffer].cells[t][i] =
                      IF i <= (IF t = "edges" THEN job.next ELSE job.made[t])
                      THEN 1 ELSE 0
  <2>1. job.next = job.made["edges"] + 1 /\ job.next <= Room["edges"]
    BY <1>1, <1>3, <1>5
  <2> QED BY <1>2, <1>3, <1>5, <1>6, <2>1, CellMade, Zenon
<1>8. job' = JobAt("edges", next, made)
  <2> DEFINE half == [job EXCEPT !.next = next]
  <2>1. job' = [half EXCEPT !.made = made]
    BY <1>1, Zenon
  <2> HIDE DEF next, made
  <2>2. half = [pc |-> "edges", buffer |-> job.buffer, nodes |-> job.nodes,
                edges |-> job.edges, next |-> next, made |-> job.made,
                target |-> job.target]
    BY <1>1, <1>3
  <2> HIDE DEF half
  <2> QED BY <2>1, <2>2 DEF JobAt
<1>9. /\ next \in Nat \ {0} /\ next <= Len(job.edges) + 1
      /\ made \in [Spans -> Nat]
      /\ \A t \in Spans : made[t] = IF t = "edges" THEN job.next
                                   ELSE job.made[t]
  BY <1>1, <1>3, <1>5 DEF Spans
<1>10. made = [nodes |-> job.nodes, edges |-> next - 1, parents |-> 0]
  <2>1. next - 1 = job.next
    BY <1>3
  <2> HIDE DEF next
  <2> QED BY <1>5, <1>9, <2>1 DEF Spans
<1> HIDE DEF next, made
<1>11. \A t \in Spans :
          /\ Len(heap'[job.buffer].cells[t]) = Room[t]
          /\ \A i \in 1 .. Room[t] :
                heap'[job.buffer].cells[t][i] = IF i <= made[t] THEN 1 ELSE 0
  BY <1>7, <1>9
<1>12. Counted("edges", next, made) /\ "edges" \in {"nodes", "edges", "parents"}
  BY <1>9, <1>10 DEF Counted
<1> QED BY <1>1, <1>2, <1>7, <1>8, <1>9, <1>11, <1>12, BuildGoesOn

(* All nodes are made, no edge is.                                         *)
LEMMA StartEdgesKeepsInv ==
  ASSUME StorageInv, StartEdges
  PROVE  StorageInv'
<1>1. /\ job.pc = "nodes" /\ job.next > job.nodes
      /\ heap' = heap /\ objects' = objects
      /\ job' = [job EXCEPT !.pc = "edges", !.next = 1]
  BY Zenon DEF StartEdges
<1>2. Building
  BY <1>1 DEF Building
<1>3. /\ job = [pc |-> job.pc, buffer |-> job.buffer, nodes |-> job.nodes,
                edges |-> job.edges, next |-> job.next,
                made |-> job.made, target |-> job.target]
      /\ heap \in Heaps /\ heap[job.buffer].allocated
      /\ job.next \in Nat \ {0} /\ job.made \in [Spans -> Nat]
      /\ job.nodes \in Nat /\ Len(job.edges) \in Nat
      /\ \A s \in Spans :
            /\ Len(heap[job.buffer].cells[s]) = Room[s]
            /\ \A i \in 1 .. Room[s] :
                  heap[job.buffer].cells[s][i] =
                      IF i <= job.made[s] THEN 1 ELSE 0
  BY <1>2, BuildParts
<1>4. /\ job.next <= job.nodes + 1
      /\ job.made = [nodes |-> job.next - 1, edges |-> 0, parents |-> 0]
  BY <1>1 DEF StorageInv, Running, Made
<1>5. job.made = [nodes |-> job.nodes, edges |-> 1 - 1, parents |-> 0]
  <2>1. job.next - 1 = job.nodes /\ 1 - 1 = 0
    BY <1>1, <1>3, <1>4
  <2> QED BY <1>4, <2>1
<1>6. job' = JobAt("edges", 1, job.made)
  <2> DEFINE half == [job EXCEPT !.pc = "edges"]
  <2>1. job' = [half EXCEPT !.next = 1]
    BY <1>1, Zenon
  <2>2. half = [pc |-> "edges", buffer |-> job.buffer, nodes |-> job.nodes,
                edges |-> job.edges, next |-> job.next, made |-> job.made,
                target |-> job.target]
    BY <1>3
  <2> HIDE DEF half
  <2> QED BY <2>1, <2>2 DEF JobAt
<1>7. 1 \in Nat \ {0} /\ 1 <= Len(job.edges) + 1
  BY <1>3
<1>8. Counted("edges", 1, job.made) /\ "edges" \in {"nodes", "edges", "parents"}
  BY <1>5, <1>7 DEF Counted
<1> DEFINE next == 1
           pc == "edges"
<1>9. /\ next \in Nat \ {0} /\ pc \in {"nodes", "edges", "parents"}
      /\ job' = JobAt(pc, next, job.made) /\ Counted(pc, next, job.made)
  BY <1>6, <1>7, <1>8
<1> HIDE DEF next, pc
<1> QED BY <1>1, <1>2, <1>3, <1>9, BuildGoesOn

(* Assigning to a parent edge makes nothing.                               *)
LEMMA AssignParentKeepsInv ==
  ASSUME StorageInv, AssignParent
  PROVE  StorageInv'
<1> DEFINE next == job.next + 1
<1>1. /\ job.pc = "parents" /\ heap' = heap /\ objects' = objects
      /\ job' = [job EXCEPT !.next = next]
  BY Zenon DEF AssignParent
<1>2. Building
  BY <1>1 DEF Building
<1>3. /\ job = [pc |-> job.pc, buffer |-> job.buffer, nodes |-> job.nodes,
                edges |-> job.edges, next |-> job.next,
                made |-> job.made, target |-> job.target]
      /\ heap \in Heaps /\ heap[job.buffer].allocated
      /\ job.next \in Nat \ {0} /\ job.made \in [Spans -> Nat]
      /\ \A s \in Spans :
            /\ Len(heap[job.buffer].cells[s]) = Room[s]
            /\ \A i \in 1 .. Room[s] :
                  heap[job.buffer].cells[s][i] =
                      IF i <= job.made[s] THEN 1 ELSE 0
  BY <1>2, BuildParts
<1>4. job.made = Room
  BY <1>1 DEF StorageInv, Running, Made
<1>5. next \in Nat \ {0}
  BY <1>3
<1> HIDE DEF next
<1>6. job' = JobAt("parents", next, job.made)
  BY <1>1, <1>3 DEF JobAt
<1>7. Counted("parents", next, job.made)
      /\ "parents" \in {"nodes", "edges", "parents"}
  BY <1>4 DEF Counted
<1> QED BY <1>1, <1>2, <1>3, <1>5, <1>6, <1>7, BuildGoesOn

(* All parent edges are made at once.                                      *)
LEMMA ConstructParentsKeepsInv ==
  ASSUME StorageInv, ConstructParents
  PROVE  StorageInv'
<1> DEFINE b == job.buffer
           cells == heap[b].cells
           row == cells["parents"]
           newRow == [i \in DOMAIN row |-> row[i] + 1]
           newCells == [cells EXCEPT !["parents"] = newRow]
           newEntry == [heap[b] EXCEPT !.cells = newCells]
           made == [job.made EXCEPT !["parents"] = job.nodes]
           next == 1
           pc == "parents"
<1>1. /\ job.pc = "edges" /\ job.next > Len(job.edges)
      /\ objects' = objects
      /\ heap' = [heap EXCEPT ![b] = newEntry]
      /\ job' = [job EXCEPT !.pc = pc, !.next = next, !.made.parents = job.nodes]
  BY Zenon DEF ConstructParents, MadeParents
<1>2. Building
  BY <1>1 DEF Building
<1>3. /\ job = [pc |-> job.pc, buffer |-> job.buffer, nodes |-> job.nodes,
                edges |-> job.edges, next |-> job.next,
                made |-> job.made, target |-> job.target]
      /\ heap \in Heaps /\ heap[b].allocated /\ b \in Buffer
      /\ job.next \in Nat \ {0} /\ job.made \in [Spans -> Nat]
      /\ job.nodes \in Nat /\ Len(job.edges) \in Nat
      /\ Room["nodes"] = job.nodes /\ Room["edges"] = Len(job.edges)
      /\ Room["parents"] = job.nodes
      /\ \A s \in Spans :
            /\ Len(cells[s]) = Room[s]
            /\ \A i \in 1 .. Room[s] :
                  cells[s][i] = IF i <= job.made[s] THEN 1 ELSE 0
  BY <1>2, BuildParts
<1>4. /\ job.next <= Len(job.edges) + 1
      /\ job.made = [nodes |-> job.nodes, edges |-> job.next - 1, parents |-> 0]
  BY <1>1 DEF StorageInv, Running, Made
<1>5. job.next - 1 = Len(job.edges)
  BY <1>1, <1>3, <1>4
<1>6. made = Room
  BY <1>4, <1>5 DEF Room, Spans
<1>7. made \in [Spans -> Nat]
  BY <1>3
<1>8. job' = JobAt(pc, next, made)
  <2> DEFINE c1 == [job EXCEPT !.pc = pc]
             c2 == [c1 EXCEPT !.next = next]
  <2>1. job' = [c2 EXCEPT !.made = made]
    BY <1>1, Zenon
  <2> HIDE DEF made, pc, next
  <2>2. c1 = [pc |-> pc, buffer |-> job.buffer, nodes |-> job.nodes,
              edges |-> job.edges, next |-> job.next, made |-> job.made,
              target |-> job.target]
    BY <1>3
  <2> HIDE DEF c1
  <2>3. c2 = [pc |-> pc, buffer |-> job.buffer, nodes |-> job.nodes,
              edges |-> job.edges, next |-> next, made |-> job.made,
              target |-> job.target]
    BY <2>2
  <2> HIDE DEF c2
  <2> QED BY <2>1, <2>3 DEF JobAt
<1>9. /\ next \in Nat \ {0} /\ pc \in {"nodes", "edges", "parents"}
      /\ Counted(pc, next, made)
  BY <1>6 DEF Counted
<1> HIDE DEF made, next, pc
<1>10. /\ heap[b] \in [allocated : BOOLEAN, cells : [Spans -> Seq({0, 1})]]
       /\ heap[b] = [allocated |-> heap[b].allocated, cells |-> cells]
       /\ cells \in [Spans -> Seq({0, 1})]
       /\ "parents" \in Spans /\ row \in Seq({0, 1})
  BY <1>3 DEF Heaps, Spans
<1> HIDE DEF cells, b
<1>11. /\ newRow \in Seq({0, 1}) /\ Len(newRow) = job.nodes
       /\ \A i \in 1 .. job.nodes : newRow[i] = 1
  <2>1. DOMAIN row = 1 .. job.nodes
    BY <1>3, <1>10, LenProperties
  <2>2. \A i \in 1 .. job.nodes : row[i] + 1 = 1
    <3> TAKE i \in 1 .. job.nodes
    <3>1. job.made["parents"] = 0 /\ ~(i <= 0)
      BY <1>3, <1>4
    <3>2. row[i] = 0
      BY <1>3, <1>10, <3>1
    <3> QED BY <3>2
  <2> DEFINE More(i) == row[i] + 1
  <2>3. newRow = [i \in 1 .. job.nodes |-> More(i)]
    BY <2>1
  <2>4. \A i \in 1 .. job.nodes : More(i) = 1
    BY <2>2
  <2> HIDE DEF newRow, row, More
  <2>5. newRow \in [1 .. job.nodes -> {0, 1}]
    BY <2>3, <2>4
  <2> QED BY <1>3, <2>3, <2>4, <2>5
<1> HIDE DEF newRow
<1>12. /\ newCells \in [Spans -> Seq({0, 1})]
       /\ \A t \in Spans : newCells[t] = IF t = "parents" THEN newRow
                                         ELSE cells[t]
  BY <1>10, <1>11
<1> HIDE DEF newCells
<1>13. newEntry = [allocated |-> heap[b].allocated, cells |-> newCells]
  BY <1>10
<1>14. /\ newEntry \in [allocated : BOOLEAN, cells : [Spans -> Seq({0, 1})]]
       /\ newEntry.allocated = heap[b].allocated
       /\ newEntry.cells = newCells
  <2> DEFINE on == heap[b].allocated
  <2>1. on \in BOOLEAN
    BY <1>10
  <2> HIDE DEF newEntry, on
  <2>2. newEntry = [allocated |-> on, cells |-> newCells]
    BY <1>13 DEF on
  <2>3. newEntry \in [allocated : BOOLEAN, cells : [Spans -> Seq({0, 1})]]
        /\ newEntry.allocated = on /\ newEntry.cells = newCells
    BY <1>12, <2>1, <2>2
  <2> QED BY <2>3 DEF on
<1> HIDE DEF newEntry
<1>15. /\ heap' \in Heaps
       /\ \A c \in Buffer \ {b} : heap'[c] = heap[c]
       /\ heap'[b] = newEntry
  BY <1>1, <1>3, <1>14 DEF Heaps
<1>16. heap'[b].allocated
  BY <1>3, <1>14, <1>15
<1>17. ASSUME NEW s \in Spans
       PROVE  /\ Len(heap'[b].cells[s]) = Room[s]
              /\ \A i \in 1 .. Room[s] :
                    heap'[b].cells[s][i] = IF i <= made[s] THEN 1 ELSE 0
  <2>1. heap'[b].cells[s] = newCells[s]
    BY <1>14, <1>15
  <2>2. CASE s = "parents"
    BY <1>3, <1>6, <1>11, <1>12, <2>1, <2>2
  <2>3. CASE s # "parents"
    <3>1. newCells[s] = cells[s]
      BY <1>12, <2>3
    <3>2. Room[s] = job.made[s]
      BY <1>3, <1>4, <1>5, <2>3 DEF Spans
    <3>3. /\ Len(cells[s]) = Room[s]
          /\ \A i \in 1 .. Room[s] :
                cells[s][i] = IF i <= job.made[s] THEN 1 ELSE 0
      BY <1>3
    <3> QED BY <1>6, <2>1, <3>1, <3>2, <3>3
  <2> QED BY <2>2, <2>3
<1> QED BY <1>1, <1>2, <1>7, <1>8, <1>9, <1>15, <1>16, <1>17, BuildGoesOn DEF b

(* Without a build it is enough that the objects own the buffers.          *)
LEMMA IdleState ==
  ASSUME heap' \in Heaps, objects' \in [Object -> StorageObject \cup {NoObject}],
         job' = NoJob, Owned', FreedBuffersEmpty'
  PROVE  StorageInv'
<1> DEFINE E == EdgeBelow(0, {DefaultEdge})
<1>1. NoSpans \in [Spans -> Nat]
  BY EmptyIsObject
<1>2. <<>> \in Seq(E) /\ 1 \in Nat \ {0} /\ NoBuffer \in BufferOrNone
  BY NoBufferIsNone
<1> HIDE DEF E
<1>3. /\ job'.pc = "none" /\ job'.buffer = NoBuffer /\ job'.nodes = 0
  BY DEF NoJob
<1>4. job' \in JobsOf(job'.nodes)
  <2>1. job' \in JobsOf(0)
    BY <1>1, <1>2 DEF NoJob, JobsOf, E
  <2> QED BY <1>3, <2>1
<1>5. Shape'
  BY <1>4 DEF Shape, Heaps, JobsOf
<1>6. Running'
  <2>1. NoJob' = NoJob
    BY DEF NoJob, NoSpans, NoBuffer, Spans
  <2>2. job'.pc = "none" /\ job' = NoJob'
    BY <1>3, <2>1
  <2> QED BY <2>2, Zenon DEF Running
<1> QED BY <1>5, <1>6 DEF StorageInv

(* A build that throws gives its buffer back empty.                        *)
LEMMA BuildThrowsKeepsInv ==
  ASSUME StorageInv, BuildThrows
  PROVE  StorageInv'
<1> DEFINE b == job.buffer
<1>1. /\ Building /\ objects' = objects /\ job' = NoJob
      /\ heap' = Emptied(b, job.made)
  BY Zenon DEF BuildThrows, RollBack, Building, Emptied
<1>2. /\ heap \in Heaps /\ b \in Buffer /\ job.made \in [Spans -> Nat]
      /\ LivesAre(b, job.made)
  BY <1>1, BuildParts DEF LivesAre
<1>3. OneBufferFreed(heap', b)
  <2>1. OneBufferFreed(Emptied(b, job.made), b)
    BY <1>2, BufferEmptied, Zenon
  <2> QED BY <1>1, <2>1, Zenon
<1>4. \A o \in Object : ~Holds(o, b)
  BY <1>1 DEF StorageInv, Running, Building
<1>5. \A o, c : Holds(o, c)' <=> Holds(o, c)
  BY <1>1 DEF Holds
<1>6. Owned'
  <2>1. ASSUME NEW o \in Object, Holds(o, NoBuffer)'
        PROVE  objects'[o].view = EmptyView
    BY <1>1, <1>5, <2>1 DEF StorageInv, Owned
  <2>2. ASSUME NEW o \in Object, NEW c \in Buffer, Holds(o, c)'
        PROVE  /\ heap'[c].allocated
               /\ Describes(objects[o].view, c)'
               /\ \A p \in Object : Holds(p, c)' => p = o
    <3>1. Holds(o, c) /\ c # b
      BY <1>4, <1>5, <2>2
    <3>2. /\ heap[c].allocated /\ Describes(objects[o].view, c)
          /\ \A p \in Object : Holds(p, c) => p = o
      BY <3>1 DEF StorageInv, Owned
    <3>3. heap'[c] = heap[c]
      BY <1>3, <3>1 DEF OneBufferFreed
    <3> QED BY <1>1, <1>5, <3>2, <3>3 DEF Describes
  <2>3. ASSUME NEW c \in Buffer, heap'[c].allocated
        PROVE  \E o \in Object : Holds(o, c)'
    <3>1. c # b /\ heap'[c] = heap[c]
      BY <1>3, <2>3 DEF OneBufferFreed
    <3> QED BY <1>5, <2>3, <3>1 DEF StorageInv, Owned
  <2> QED BY <2>1, <2>2, <2>3 DEF Owned
<1>7. FreedBuffersEmpty'
  BY <1>3 DEF StorageInv, FreedBuffersEmpty, OneBufferFreed
<1>8. /\ heap' \in Heaps
      /\ objects' \in [Object -> StorageObject \cup {NoObject}]
  BY <1>1, <1>3 DEF OneBufferFreed, StorageInv, Shape
<1> QED BY <1>1, <1>6, <1>7, <1>8, IdleState

(* A build that returns hands its buffer to the target, described.         *)
LEMMA ReturnKeepsInv ==
  ASSUME StorageInv, Return
  PROVE  StorageInv'
<1> DEFINE b == job.buffer
           t == job.target
           spans == [nodes |-> job.nodes, edges |-> Len(job.edges),
                     parents |-> job.nodes]
           v == [buffer |-> b, spans |-> spans]
           x == Returned
<1>1. /\ job.pc = "parents" /\ heap' = heap /\ job' = NoJob
      /\ objects' = [objects EXCEPT ![t] = x]
  BY Zenon DEF Return
<1>2. Building
  BY <1>1 DEF Building
<1>3. /\ heap \in Heaps /\ b \in Buffer /\ b # NoBuffer /\ heap[b].allocated
      /\ t \in Object /\ objects[t] = NoObject
      /\ spans = Room /\ job.made = Room
      /\ \A s \in Spans : Room[s] \in Nat
      /\ \A s \in Spans :
            /\ Len(heap[b].cells[s]) = Room[s]
            /\ \A i \in 1 .. Room[s] :
                  heap[b].cells[s][i] = IF i <= job.made[s] THEN 1 ELSE 0
      /\ \A o \in Object : ~Holds(o, b)
  <2>1. job.made = Room /\ \A o \in Object : ~Holds(o, b)
    BY <1>1 DEF StorageInv, Running, Made
  <2> QED BY <1>2, <2>1, BuildParts, NoBufferIsNone DEF Room
<1>4. spans \in [Spans -> Nat]
  <2>1. job.nodes \in Nat /\ Len(job.edges) \in Nat
    BY <1>2, BuildParts
  <2> QED BY <2>1 DEF Spans
<1> HIDE DEF spans, b, t
<1>5. x = [buffer |-> b, view |-> v]
  BY DEF Returned, spans, b
<1>6. x \in StorageObject /\ x.buffer = b /\ x.view = v /\ x # NoObject
  <2> HIDE DEF x
  <2>1. x \in StorageObject
    BY <1>3, <1>4, <1>5 DEF StorageObject
  <2> QED BY <1>5, <2>1, NoObjectAssumption
<1> HIDE DEF x
<1>7. /\ objects \in [Object -> StorageObject \cup {NoObject}]
      /\ objects' \in [Object -> StorageObject \cup {NoObject}]
      /\ objects'[t] = x
      /\ \A o \in Object \ {t} : objects'[o] = objects[o]
  BY <1>1, <1>3, <1>6 DEF StorageInv, Shape
<1>8. \A o \in Object : \A c : Holds(o, c)' <=> IF o = t THEN c = b ELSE Holds(o, c)
  BY <1>6, <1>7 DEF Holds
<1>9. Describes(v, b)
  <2>1. v.buffer = b /\ v.spans = Room
    BY <1>3
  <2> HIDE DEF v
  <2> QED BY <1>3, <2>1 DEF Describes
<1>10. ASSUME NEW o \in Object, NEW c \in Buffer, Holds(o, c)'
       PROVE  /\ heap'[c].allocated
              /\ Describes(objects[o].view, c)'
              /\ \A p \in Object : Holds(p, c)' => p = o
  <2>1. CASE o = t
    <3>1. c = b
      BY <1>8, <1>10, <2>1
    <3>2. heap'[c].allocated /\ \A p \in Object : Holds(p, c)' => p = o
      BY <1>1, <1>3, <1>8, <2>1, <3>1
    <3>3. objects'[o].view = v
      BY <1>6, <1>7, <2>1
    <3>4. Describes(objects[o].view, c)'
      BY <1>1, <1>9, <3>1, <3>3 DEF Describes
    <3> QED BY <3>2, <3>4
  <2>2. CASE o # t
    <3>1. Holds(o, c) /\ c # b
      BY <1>3, <1>8, <1>10, <2>2
    <3>2. /\ heap[c].allocated /\ Describes(objects[o].view, c)
          /\ \A p \in Object : Holds(p, c) => p = o
      BY <3>1 DEF StorageInv, Owned
    <3>3. objects'[o] = objects[o]
      BY <1>7, <2>2
    <3> QED BY <1>1, <1>8, <3>1, <3>2, <3>3 DEF Describes
  <2> QED BY <2>1, <2>2
<1>11. Owned'
  <2>1. ASSUME NEW o \in Object, Holds(o, NoBuffer)'
        PROVE  objects'[o].view = EmptyView
    <3>1. o # t /\ Holds(o, NoBuffer)
      BY <1>3, <1>8, <2>1
    <3> QED BY <1>7, <3>1 DEF StorageInv, Owned
  <2>2. ASSUME NEW c \in Buffer, heap'[c].allocated
        PROVE  \E o \in Object : Holds(o, c)'
    <3>1. CASE c = b
      BY <1>3, <1>8, <3>1
    <3>2. CASE c # b
      <4>1. PICK o \in Object : Holds(o, c)
        BY <1>1, <2>2, <3>2 DEF StorageInv, Owned, b
      <4>2. o # t
        BY <1>3, <4>1 DEF Holds
      <4> QED BY <1>8, <4>1, <4>2
    <3> QED BY <3>1, <3>2
  <2> QED BY <1>10, <2>1, <2>2 DEF Owned
<1>12. FreedBuffersEmpty'
  BY <1>1 DEF StorageInv, FreedBuffersEmpty
<1> QED BY <1>1, <1>3, <1>7, <1>11, <1>12, IdleState

-----------------------------------------------------------------------------
(* The steps of the objects *)

(* Between builds a buffer is allocated if an object holds it.             *)
LEMMA IdleParts ==
  ASSUME StorageInv, ~Building
  PROVE  /\ heap \in Heaps
         /\ objects \in [Object -> StorageObject \cup {NoObject}]
         /\ job = NoJob
         /\ \A o \in Object : objects[o] # NoObject =>
               /\ objects[o] \in StorageObject
               /\ objects[o].buffer \in Buffer \cup {NoBuffer}
               /\ Holds(o, objects[o].buffer)
         /\ \A b \in Buffer : heap[b].allocated =>
               \E o \in Object : Holds(o, b)
<1>1. /\ heap \in Heaps
      /\ objects \in [Object -> StorageObject \cup {NoObject}]
  BY DEF StorageInv, Shape, Heaps
<1>2. job = NoJob
  BY DEF StorageInv, Running, Building
<1>3. job.buffer = NoBuffer
  BY <1>2 DEF NoJob
<1>4. \A b \in Buffer : heap[b].allocated => \E o \in Object : Holds(o, b)
  BY <1>3, NoBufferIsNone DEF StorageInv, Owned
<1>5. \A o \in Object : objects[o] # NoObject =>
         objects[o] \in StorageObject /\ Holds(o, objects[o].buffer)
  BY <1>1 DEF Holds
<1>6. \A x \in StorageObject : x.buffer \in Buffer \cup {NoBuffer}
  BY DEF StorageObject
<1> QED BY <1>1, <1>2, <1>4, <1>5, <1>6

(* destroy_payloads and reset empty and free what the object holds.        *)
LEMMA ReleasedBuffer ==
  ASSUME StorageInv, ~Building, NEW o \in Object, objects[o] # NoObject,
         heap' = Released(objects[o])
  PROVE  /\ heap' \in Heaps
         /\ FreedBuffersEmpty'
         /\ \A c \in Buffer :
               IF Holds(o, c) THEN ~heap'[c].allocated ELSE heap'[c] = heap[c]
<1> DEFINE b == objects[o].buffer
           v == objects[o].view
<1>1. /\ heap \in Heaps /\ b \in Buffer \cup {NoBuffer}
      /\ objects[o] \in StorageObject /\ Holds(o, b)
      /\ \A c : Holds(o, c) <=> c = b
  BY IdleParts DEF Holds
<1>2. CASE b = NoBuffer
  <2>1. heap' = heap
    BY <1>2 DEF Released, Freed, DestroyPayloads
  <2>2. \A c \in Buffer : ~Holds(o, c)
    BY <1>1, <1>2, NoBufferIsNone
  <2>3. FreedBuffersEmpty'
    BY <2>1 DEF StorageInv, FreedBuffersEmpty
  <2> QED BY <1>1, <2>1, <2>2, <2>3
<1>3. CASE b # NoBuffer
  <2>1. b \in Buffer /\ Describes(v, b)
    BY <1>1, <1>3 DEF StorageInv, Owned
  <2>2. v.buffer = b
    BY <2>1 DEF Describes
  <2>3. v.spans \in [Spans -> Nat]
    BY <1>1 DEF StorageObject
  <2>4. LivesAre(b, v.spans)
    <3>1. ASSUME NEW s \in Spans, NEW i \in 1 .. Len(heap[b].cells[s])
          PROVE  heap[b].cells[s][i] = IF i <= v.spans[s] THEN 1 ELSE 0
      <4>1. /\ Len(heap[b].cells[s]) = v.spans[s]
            /\ \A j \in 1 .. v.spans[s] : heap[b].cells[s][j] = 1
        BY <2>1 DEF Describes
      <4>2. i \in 1 .. v.spans[s] /\ i <= v.spans[s]
        BY <2>3, <4>1
      <4> QED BY <4>1, <4>2
    <3> QED BY <3>1 DEF LivesAre
  <2>5. heap' = Emptied(b, v.spans)
    BY <1>3, <2>2, Zenon DEF Released, DestroyPayloads, Emptied
  <2> HIDE DEF b, v
  <2>6. OneBufferFreed(heap', b)
    <3>1. OneBufferFreed(Emptied(b, v.spans), b)
      BY <1>1, <2>1, <2>3, <2>4, BufferEmptied, Zenon
    <3> QED BY <2>5, <3>1, Zenon
  <2>7. FreedBuffersEmpty'
    BY <2>6 DEF StorageInv, FreedBuffersEmpty, OneBufferFreed
  <2> QED BY <1>1, <2>1, <2>6, <2>7 DEF OneBufferFreed
<1> QED BY <1>2, <1>3

(* A default constructed object has no buffer.                             *)
LEMMA DefaultConstructKeepsInv ==
  ASSUME StorageInv, NEW o \in Object, DefaultConstruct(o)
  PROVE  StorageInv'
<1>1. /\ ~Building /\ objects[o] = NoObject /\ heap' = heap /\ job' = job
      /\ objects' = [objects EXCEPT ![o] = EmptyObject]
  BY Zenon DEF DefaultConstruct
<1>2. /\ heap \in Heaps /\ job = NoJob
      /\ objects \in [Object -> StorageObject \cup {NoObject}]
      /\ \A b \in Buffer : heap[b].allocated => \E p \in Object : Holds(p, b)
  BY <1>1, IdleParts
<1>3. /\ objects' \in [Object -> StorageObject \cup {NoObject}]
      /\ objects'[o] = EmptyObject
      /\ \A p \in Object \ {o} : objects'[p] = objects[p]
  BY <1>1, <1>2, EmptyIsObject
<1>4. \A p \in Object : \A c \in Buffer : Holds(p, c)' <=> Holds(p, c)
  BY <1>1, <1>3, EmptyIsObject, NoBufferIsNone DEF Holds
<1>5. Owned'
  <2>1. ASSUME NEW p \in Object, Holds(p, NoBuffer)'
        PROVE  objects'[p].view = EmptyView
    BY <1>3, <2>1, EmptyIsObject DEF StorageInv, Owned, Holds
  <2>2. ASSUME NEW p \in Object, NEW c \in Buffer, Holds(p, c)'
        PROVE  /\ heap'[c].allocated
               /\ Describes(objects[p].view, c)'
               /\ \A q \in Object : Holds(q, c)' => q = p
    <3>1. Holds(p, c) /\ p # o
      BY <1>1, <1>4, <2>2 DEF Holds
    <3>2. /\ heap[c].allocated /\ Describes(objects[p].view, c)
          /\ \A q \in Object : Holds(q, c) => q = p
      BY <3>1 DEF StorageInv, Owned
    <3>3. objects'[p] = objects[p]
      BY <1>3, <3>1
    <3> QED BY <1>1, <1>4, <3>2, <3>3 DEF Describes
  <2>3. \A c \in Buffer : heap'[c].allocated => \E p \in Object : Holds(p, c)'
    BY <1>1, <1>2, <1>4
  <2> QED BY <2>1, <2>2, <2>3 DEF Owned
<1>6. FreedBuffersEmpty'
  BY <1>1 DEF StorageInv, FreedBuffersEmpty
<1> QED BY <1>1, <1>2, <1>3, <1>5, <1>6, IdleState

(* A destroyed object takes its payloads with it.                          *)
LEMMA DestroyKeepsInv ==
  ASSUME StorageInv, NEW o \in Object, Destroy(o)
  PROVE  StorageInv'
<1>1. /\ ~Building /\ objects[o] # NoObject /\ job' = job
      /\ heap' = Released(objects[o])
      /\ objects' = [objects EXCEPT ![o] = NoObject]
  BY Zenon DEF Destroy
<1>2. /\ heap \in Heaps /\ job = NoJob
      /\ objects \in [Object -> StorageObject \cup {NoObject}]
      /\ \A b \in Buffer : heap[b].allocated => \E p \in Object : Holds(p, b)
  BY <1>1, IdleParts
<1>3. /\ heap' \in Heaps /\ FreedBuffersEmpty'
      /\ \A c \in Buffer :
            IF Holds(o, c) THEN ~heap'[c].allocated ELSE heap'[c] = heap[c]
  BY <1>1, ReleasedBuffer
<1>4. /\ objects' \in [Object -> StorageObject \cup {NoObject}]
      /\ objects'[o] = NoObject
      /\ \A p \in Object \ {o} : objects'[p] = objects[p]
  BY <1>1, <1>2
<1>5. \A p \in Object : \A c : Holds(p, c)' <=> p # o /\ Holds(p, c)
  BY <1>4 DEF Holds
<1>6. Owned'
  <2>1. ASSUME NEW p \in Object, Holds(p, NoBuffer)'
        PROVE  objects'[p].view = EmptyView
    BY <1>4, <1>5, <2>1 DEF StorageInv, Owned
  <2>2. ASSUME NEW p \in Object, NEW c \in Buffer, Holds(p, c)'
        PROVE  /\ heap'[c].allocated
               /\ Describes(objects[p].view, c)'
               /\ \A q \in Object : Holds(q, c)' => q = p
    <3>1. Holds(p, c) /\ p # o
      BY <1>5, <2>2
    <3>2. /\ heap[c].allocated /\ Describes(objects[p].view, c)
          /\ \A q \in Object : Holds(q, c) => q = p
      BY <3>1 DEF StorageInv, Owned
    <3>3. objects'[p] = objects[p] /\ heap'[c] = heap[c]
      BY <1>3, <1>4, <3>1, <3>2
    <3> QED BY <1>5, <3>2, <3>3 DEF Describes
  <2>3. ASSUME NEW c \in Buffer, heap'[c].allocated
        PROVE  \E p \in Object : Holds(p, c)'
    <3>1. ~Holds(o, c) /\ heap[c].allocated
      BY <1>3, <2>3
    <3> QED BY <1>2, <1>5, <3>1
  <2> QED BY <2>1, <2>2, <2>3 DEF Owned
<1> QED BY <1>1, <1>2, <1>3, <1>4, <1>6, IdleState

(* An object moved from is empty; what it held is the other's, alone.      *)
LEMMA MovedOwners ==
  ASSUME StorageInv, ~Building, job' = job,
         NEW o \in Object, NEW other \in Object, o # other,
         objects[other] # NoObject,
         objects' = [objects EXCEPT ![o] = objects[other],
                                    ![other] = MovedFrom(objects[other])],
         heap' \in Heaps, FreedBuffersEmpty',
         \A c \in Buffer :
            IF Holds(o, c) THEN ~heap'[c].allocated ELSE heap'[c] = heap[c]
  PROVE  StorageInv'
<1> DEFINE x == objects[other]
           half == [objects EXCEPT ![o] = x]
<1>1. /\ heap \in Heaps /\ job = NoJob
      /\ objects \in [Object -> StorageObject \cup {NoObject}]
      /\ x \in StorageObject
      /\ \A b \in Buffer : heap[b].allocated => \E p \in Object : Holds(p, b)
  BY IdleParts
<1>2. MovedFrom(x) = EmptyObject
  BY <1>1, MovedFromIsEmpty
<1>3. objects' = [half EXCEPT ![other] = EmptyObject]
  <2>1. objects' = [half EXCEPT ![other] = MovedFrom(x)]
    BY Zenon
  <2> QED BY <1>2, <2>1, Zenon
<1>4. half \in [Object -> StorageObject \cup {NoObject}]
      /\ \A p \in Object : half[p] = IF p = o THEN x ELSE objects[p]
  BY <1>1
<1> HIDE DEF half
<1>5. /\ objects' \in [Object -> StorageObject \cup {NoObject}]
      /\ objects'[other] = EmptyObject
      /\ objects'[o] = x
      /\ \A p \in Object \ {o, other} : objects'[p] = objects[p]
  BY <1>3, <1>4, EmptyIsObject
<1>6. \A c : Holds(o, c)' <=> Holds(other, c)
  BY <1>1, <1>5, NoObjectAssumption DEF Holds
<1>7. \A c \in Buffer : ~Holds(other, c)'
  BY <1>5, EmptyIsObject, NoBufferIsNone DEF Holds
<1>8. \A p \in Object \ {o, other} : \A c : Holds(p, c)' <=> Holds(p, c)
  BY <1>5 DEF Holds
<1>9. \A p \in Object, c \in Buffer : Holds(p, c) =>
         /\ heap[c].allocated /\ Describes(objects[p].view, c)
         /\ \A q \in Object : Holds(q, c) => q = p
  BY DEF StorageInv, Owned
<1>10. \A p \in Object \ {o}, c \in Buffer : Holds(p, c) =>
          heap'[c] = heap[c]
  BY <1>9
<1>11. Owned'
  <2>1. ASSUME NEW p \in Object, Holds(p, NoBuffer)'
        PROVE  objects'[p].view = EmptyView
    <3>1. CASE p = other
      BY <1>5, <3>1, EmptyIsObject
    <3>2. CASE p = o
      <4>1. x.view = EmptyView
        BY <1>6, <2>1, <3>2 DEF StorageInv, Owned
      <4> QED BY <1>5, <3>2, <4>1
    <3>3. CASE p \notin {o, other}
      BY <1>5, <1>8, <2>1, <3>3 DEF StorageInv, Owned
    <3> QED BY <3>1, <3>2, <3>3
  <2>2. ASSUME NEW p \in Object, NEW c \in Buffer, Holds(p, c)'
        PROVE  /\ heap'[c].allocated
               /\ Describes(objects[p].view, c)'
               /\ \A q \in Object : Holds(q, c)' => q = p
    <3> DEFINE from == IF p = o THEN other ELSE p
    <3>1. p # other /\ from \in Object \ {o} /\ Holds(from, c)
          /\ objects'[p] = objects[from]
      BY <1>5, <1>6, <1>7, <1>8, <2>2
    <3>2. /\ heap[c].allocated /\ Describes(objects[from].view, c)
          /\ \A q \in Object : Holds(q, c) => q = from
          /\ heap'[c] = heap[c]
      BY <1>9, <1>10, <3>1
    <3>3. Describes(objects[p].view, c)'
      <4> DEFINE Full(cells, view) ==
                    /\ view.buffer = c
                    /\ \A s \in Spans :
                          /\ Len(cells[s]) = view.spans[s]
                          /\ \A i \in 1 .. view.spans[s] : cells[s][i] = 1
      <4> HIDE DEF from
      <4>1. Full(heap[c].cells, objects[from].view)
        BY <3>2 DEF Describes
      <4>2. heap'[c].cells = heap[c].cells
        BY <3>2, Zenon
      <4>3. Full(heap'[c].cells, objects'[p].view)
        <5> HIDE DEF Full
        <5> QED BY <3>1, <4>1, <4>2, Zenon
      <4> QED BY <4>3, Zenon DEF Describes
    <3>4. ASSUME NEW q \in Object, Holds(q, c)' PROVE q = p
      <4>1. q # other
        BY <1>7, <3>4
      <4>2. CASE q = o
        <5>1. Holds(other, c)
          BY <1>6, <3>4, <4>2
        <5> QED BY <3>1, <3>2, <4>2, <5>1
      <4>3. CASE q # o
        <5>1. Holds(q, c)
          BY <1>8, <3>4, <4>1, <4>3
        <5> QED BY <3>1, <3>2, <4>1, <5>1
      <4> QED BY <4>2, <4>3
    <3> QED BY <3>2, <3>3, <3>4
  <2>3. ASSUME NEW c \in Buffer, heap'[c].allocated
        PROVE  \E p \in Object : Holds(p, c)'
    <3>1. ~Holds(o, c) /\ heap[c].allocated
      BY <2>3
    <3>2. PICK p \in Object : Holds(p, c)
      BY <1>1, <3>1
    <3>3. CASE p = other
      BY <1>6, <3>2, <3>3
    <3>4. CASE p # other
      BY <1>8, <3>1, <3>2, <3>4
    <3> QED BY <3>3, <3>4
  <2> QED BY <2>1, <2>2, <2>3 DEF Owned
<1> QED BY <1>1, <1>5, <1>11, IdleState

(* Move construction frees nothing.                                        *)
LEMMA MoveConstructKeepsInv ==
  ASSUME StorageInv, NEW o \in Object, NEW other \in Object,
         MoveConstruct(o, other)
  PROVE  StorageInv'
<1>1. /\ ~Building /\ objects[o] = NoObject /\ objects[other] # NoObject
      /\ heap' = heap /\ job' = job
      /\ objects' = [objects EXCEPT ![o] = objects[other],
                                    ![other] = MovedFrom(objects[other])]
  BY Zenon DEF MoveConstruct
<1>2. o # other /\ heap' \in Heaps
  BY <1>1, IdleParts
<1>3. \A c \in Buffer : ~Holds(o, c) /\ heap'[c] = heap[c]
  BY <1>1 DEF Holds
<1>4. FreedBuffersEmpty'
  BY <1>1 DEF StorageInv, FreedBuffersEmpty
<1> QED BY <1>1, <1>2, <1>3, <1>4, MovedOwners

(* Move assignment first releases what the target held.                    *)
LEMMA MoveAssignKeepsInv ==
  ASSUME StorageInv, NEW o \in Object, NEW other \in Object,
         MoveAssign(o, other)
  PROVE  StorageInv'
<1>1. /\ ~Building /\ objects[o] # NoObject /\ objects[other] # NoObject
      /\ job' = job
  BY DEF MoveAssign
<1>2. CASE o = other /\ heap' = heap /\ objects' = objects
  <2>1. Owned' /\ FreedBuffersEmpty'
    BY <1>1, <1>2 DEF StorageInv, Owned, Holds, Describes, FreedBuffersEmpty
  <2> QED BY <1>1, <1>2, <2>1, IdleParts, IdleState
<1>3. CASE /\ o # other
           /\ heap' = Released(objects[o])
           /\ objects' = [objects EXCEPT ![o] = objects[other],
                                         ![other] = MovedFrom(objects[other])]
  <2>1. /\ heap' \in Heaps /\ FreedBuffersEmpty'
        /\ \A c \in Buffer :
              IF Holds(o, c) THEN ~heap'[c].allocated ELSE heap'[c] = heap[c]
    BY <1>1, <1>3, ReleasedBuffer
  <2> QED BY <1>1, <1>3, <2>1, MovedOwners
<1> QED BY <1>2, <1>3, Zenon DEF MoveAssign

FreshJob(b, count, edges, target) ==
    [pc |-> "nodes", buffer |-> b, nodes |-> count, edges |-> edges,
     next |-> 1, made |-> NoSpans, target |-> target]
FreshEntry(count, edges) ==
    [allocated |-> TRUE,
     cells |-> [nodes |-> [i \in 1 .. count |-> 0],
                edges |-> [i \in 1 .. edges |-> 0],
                parents |-> [i \in 1 .. count |-> 0]]]

(* What a build starts with.                                               *)
LEMMA JobStarted ==
  ASSUME NEW b, NEW count, NEW edges, NEW target
  PROVE  [NoJob EXCEPT !.pc = "nodes", !.buffer = b, !.nodes = count,
                       !.target = target, !.edges = edges]
            = FreshJob(b, count, edges, target)
<1> DEFINE pc == "nodes"
           c1 == [NoJob EXCEPT !.pc = pc]
           c2 == [c1 EXCEPT !.buffer = b]
           c3 == [c2 EXCEPT !.nodes = count]
           c4 == [c3 EXCEPT !.target = target]
           c5 == [c4 EXCEPT !.edges = edges]
           next == 1
           none == <<>>
           zero == 0
<1>1. [NoJob EXCEPT !.pc = "nodes", !.buffer = b, !.nodes = count,
                    !.target = target, !.edges = edges] = c5
  BY Zenon
<1>2. NoJob = [pc |-> "none", buffer |-> NoBuffer, nodes |-> zero,
               edges |-> none, next |-> next, made |-> NoSpans,
               target |-> NoObject]
  BY DEF NoJob
<1> HIDE DEF pc, next, none, zero
<1>3. c1 = [pc |-> pc, buffer |-> NoBuffer, nodes |-> zero, edges |-> none,
            next |-> next, made |-> NoSpans, target |-> NoObject]
  BY <1>2
<1> HIDE DEF c1
<1>4. c2 = [pc |-> pc, buffer |-> b, nodes |-> zero, edges |-> none,
            next |-> next, made |-> NoSpans, target |-> NoObject]
  BY <1>3
<1> HIDE DEF c2
<1>5. c3 = [pc |-> pc, buffer |-> b, nodes |-> count, edges |-> none,
            next |-> next, made |-> NoSpans, target |-> NoObject]
  BY <1>4
<1> HIDE DEF c3
<1>6. c4 = [pc |-> pc, buffer |-> b, nodes |-> count, edges |-> none,
            next |-> next, made |-> NoSpans, target |-> target]
  BY <1>5
<1> HIDE DEF c4
<1>7. c5 = [pc |-> pc, buffer |-> b, nodes |-> count, edges |-> edges,
            next |-> next, made |-> NoSpans, target |-> target]
  BY <1>6
<1> HIDE DEF c5
<1>8. c5 = FreshJob(b, count, edges, target)
  BY <1>7 DEF FreshJob, pc, next
<1> QED BY <1>1, <1>8, Zenon

(* The cells of a fresh buffer.                                            *)
LEMMA FreshCells ==
  ASSUME NEW count \in Nat, NEW edges \in Nat
  PROVE  LET e == FreshEntry(count, edges)
         IN  /\ e \in [allocated : BOOLEAN, cells : [Spans -> Seq({0, 1})]]
             /\ e.allocated
             /\ \A s \in Spans :
                   /\ Len(e.cells[s]) = IF s = "edges" THEN edges ELSE count
                   /\ \A i \in 1 .. Len(e.cells[s]) : e.cells[s][i] = 0
<1> DEFINE zeros(n) == [i \in 1 .. n |-> 0]
           cells == [nodes |-> zeros(count), edges |-> zeros(edges),
                     parents |-> zeros(count)]
<1>1. ASSUME NEW n \in Nat
      PROVE  /\ zeros(n) \in Seq({0, 1}) /\ Len(zeros(n)) = n
             /\ \A i \in 1 .. n : zeros(n)[i] = 0
  OBVIOUS
<1>2. FreshEntry(count, edges) = [allocated |-> TRUE, cells |-> cells]
  BY DEF FreshEntry
<1> HIDE DEF zeros
<1>3. /\ cells \in [Spans -> Seq({0, 1})]
      /\ cells["nodes"] = zeros(count) /\ cells["edges"] = zeros(edges)
      /\ cells["parents"] = zeros(count)
  BY <1>1 DEF Spans
<1> HIDE DEF cells
<1>4. \A s \in Spans :
         /\ Len(cells[s]) = IF s = "edges" THEN edges ELSE count
         /\ \A i \in 1 .. Len(cells[s]) : cells[s][i] = 0
  BY <1>1, <1>3 DEF Spans
<1> QED BY <1>2, <1>3, <1>4

(* A build starts with the edges of its builder, grouped, and nothing made *)
(* in a buffer no object has.                                              *)
LEMMA BeginBuildKeepsInv ==
  ASSUME MaxNodes <= InvalidNode, StorageInv,
         NEW builder \in AcyclicBuilders, NEW target \in Object,
         BeginBuild(builder, target)
  PROVE  StorageInv'
<1> DEFINE count == Len(builder.nodes)
           edges == SortedByParent(builder.edges, count)
<1>1. /\ ~Building /\ objects[target] = NoObject /\ objects' = objects
  BY DEF BeginBuild
<1>2. /\ count \in Nat /\ Len(builder.edges) \in Nat
      /\ DOMAIN builder.edges = 1 .. Len(builder.edges)
      /\ builder.edges \in Seq(EdgeBelow(count, {DefaultEdge}))
  <2>1. builder \in BuildersUpTo(MaxNodes, Payload)
    BY DEF AcyclicBuilders, AcyclicBuildersUpTo
  <2>2. RoughBuilder(builder, {Payload}, {DefaultEdge})
    BY <2>1, MaxNodesAssumption, BuildersSound DEF SoundBuilder
  <2> QED BY <2>2, RoughParts
<1>3. PICK b \in Buffer :
         /\ ~heap[b].allocated
         /\ heap' = [heap EXCEPT ![b] = FreshEntry(count, Len(builder.edges))]
         /\ job' = [NoJob EXCEPT !.pc = "nodes", !.buffer = b,
                        !.nodes = count, !.target = target, !.edges = edges]
  BY <1>2, Zenon DEF BeginBuild, FreshEntry
<1> HIDE DEF count
<1>4. /\ edges \in Seq(EdgeBelow(count, {DefaultEdge}))
      /\ Len(edges) = Len(builder.edges)
      /\ \A k \in 1 .. Len(edges) : CursorPosition(edges, count, k) = k
  <2>1. edges = EdgeAt(builder.edges, count)
    BY DEF SortedByParent
  <2> HIDE DEF edges
  <2> QED BY <1>2, <2>1, EdgesGrouped, GroupedIsSorted
<1> HIDE DEF edges
<1>5. job' = FreshJob(b, count, edges, target)
  BY <1>3, JobStarted, Zenon
<1>6. /\ job'.pc = "nodes" /\ job'.buffer = b /\ job'.nodes = count
      /\ job'.edges = edges /\ job'.next = 1 /\ job'.made = NoSpans
      /\ job'.target = target
  BY <1>5 DEF FreshJob
<1>7. Len(edges) \in Nat /\ b \in BufferOrNone
      /\ NoSpans \in [Spans -> Nat]
      /\ NoSpans = [nodes |-> 0, edges |-> 0, parents |-> 0]
      /\ \A s \in Spans : NoSpans[s] = 0
  BY <1>2, <1>4 DEF BufferOrNone, NoSpans, Spans
<1>8. /\ heap \in Heaps
      /\ objects \in [Object -> StorageObject \cup {NoObject}]
      /\ \A c \in Buffer : heap[c].allocated => \E o \in Object : Holds(o, c)
  BY <1>1, IdleParts
<1>9. /\ heap' \in Heaps
      /\ heap'[b].allocated
      /\ \A s \in Spans :
            /\ Len(heap'[b].cells[s]) = IF s = "edges" THEN Len(edges)
                                        ELSE count
            /\ \A i \in 1 .. Len(heap'[b].cells[s]) : heap'[b].cells[s][i] = 0
      /\ \A c \in Buffer \ {b} : heap'[c] = heap[c]
  <2> DEFINE e == FreshEntry(count, Len(builder.edges))
  <2>1. /\ e \in [allocated : BOOLEAN, cells : [Spans -> Seq({0, 1})]]
        /\ e.allocated
        /\ \A s \in Spans :
              /\ Len(e.cells[s]) = IF s = "edges" THEN Len(edges) ELSE count
              /\ \A i \in 1 .. Len(e.cells[s]) : e.cells[s][i] = 0
    <3> HIDE DEF e
    <3>1. \A m \in Nat :
             LET f == FreshEntry(count, m)
             IN  /\ f \in [allocated : BOOLEAN, cells : [Spans -> Seq({0, 1})]]
                 /\ f.allocated
                 /\ \A s \in Spans :
                       /\ Len(f.cells[s]) = IF s = "edges" THEN m ELSE count
                       /\ \A i \in 1 .. Len(f.cells[s]) : f.cells[s][i] = 0
      BY <1>2, FreshCells
    <3>2. e = FreshEntry(count, Len(edges)) /\ Len(edges) \in Nat
      BY <1>4, <1>7 DEF e
    <3> QED BY <3>1, <3>2
  <2> HIDE DEF e
  <2>2. /\ heap' \in Heaps /\ heap'[b] = e
        /\ \A c \in Buffer \ {b} : heap'[c] = heap[c]
    BY <1>3, <1>8, <2>1 DEF Heaps, e
  <2> QED BY <2>1, <2>2
<1>10. Shape'
  <2>1. job' \in JobsOf(count)
    BY <1>2, <1>4, <1>5, <1>7 DEF JobsOf, FreshJob
  <2>2. job' \in JobsOf(job'.nodes)
    BY <1>6, <2>1
  <2> QED BY <1>1, <1>8, <1>9, <2>2 DEF Shape, Heaps, JobsOf
<1>11. \A o, c : Holds(o, c)' <=> Holds(o, c)
  BY <1>1 DEF Holds
<1>12. \A o \in Object : ~Holds(o, b)
  BY <1>3 DEF StorageInv, Owned
<1>13. /\ Room'["nodes"] = count /\ Room'["edges"] = Len(edges)
       /\ Room'["parents"] = count
  BY <1>6 DEF Room
<1>14. Made'
  <2>1. job'.made = [nodes |-> job'.next - 1, edges |-> 0, parents |-> 0]
    BY <1>6, <1>7
  <2>2. job'.next <= job'.nodes + 1
    BY <1>2, <1>6
  <2> QED BY <1>6, <2>1, <2>2 DEF Made
<1>15. Grouped'
  BY <1>4, <1>6 DEF Grouped
<1>16. Running'
  <2>1. ASSUME NEW s \in Spans
        PROVE  /\ Len(heap'[b].cells[s]) = Room'[s]
               /\ \A i \in 1 .. Room'[s] :
                     heap'[b].cells[s][i] =
                         IF i <= job'.made[s] THEN 1 ELSE 0
    <3>1. Len(heap'[b].cells[s]) = Room'[s] /\ job'.made[s] = 0
      BY <1>6, <1>7, <1>9, <1>13 DEF Spans
    <3>2. \A i \in 1 .. Room'[s] : heap'[b].cells[s][i] = 0 /\ ~(i <= 0)
      BY <1>9, <3>1
    <3> QED BY <3>1, <3>2
  <2>2. \A o \in Object : ~Holds(o, b)'
    BY <1>11, <1>12
  <2> QED BY <1>1, <1>6, <1>9, <1>14, <1>15, <2>1, <2>2 DEF Running
<1>17. Owned'
  <2>1. ASSUME NEW o \in Object, Holds(o, NoBuffer)'
        PROVE  objects'[o].view = EmptyView
    BY <1>1, <1>11, <2>1 DEF StorageInv, Owned
  <2>2. ASSUME NEW o \in Object, NEW c \in Buffer, Holds(o, c)'
        PROVE  /\ heap'[c].allocated
               /\ Describes(objects[o].view, c)'
               /\ \A p \in Object : Holds(p, c)' => p = o
    <3>1. Holds(o, c) /\ c # b
      BY <1>11, <1>12, <2>2
    <3>2. /\ heap[c].allocated /\ Describes(objects[o].view, c)
          /\ \A p \in Object : Holds(p, c) => p = o
      BY <3>1 DEF StorageInv, Owned
    <3>3. heap'[c] = heap[c]
      BY <1>9, <3>1
    <3> QED BY <1>1, <1>11, <3>2, <3>3 DEF Describes
  <2>3. ASSUME NEW c \in Buffer, heap'[c].allocated
        PROVE  job'.buffer = c \/ \E o \in Object : Holds(o, c)'
    <3>1. CASE c = b
      BY <1>6, <3>1
    <3>2. CASE c # b
      BY <1>8, <1>9, <1>11, <2>3, <3>2
    <3> QED BY <3>1, <3>2
  <2> QED BY <2>1, <2>2, <2>3 DEF Owned
<1>18. FreedBuffersEmpty'
  <2>1. ASSUME NEW c \in Buffer, ~heap'[c].allocated
        PROVE  c # b /\ heap'[c] = heap[c] /\ ~heap[c].allocated
    BY <1>9, <2>1
  <2> QED BY <2>1 DEF StorageInv, FreedBuffersEmpty
<1> QED BY <1>10, <1>16, <1>17, <1>18 DEF StorageInv

(* At first nothing is allocated and no object lives.                      *)
LEMMA InitStorageInv ==
  Init => StorageInv
<1> SUFFICES ASSUME Init PROVE StorageInv
  OBVIOUS
<1> DEFINE entry == [allocated |-> FALSE, cells |-> [s \in Spans |-> <<>>]]
<1>1. /\ heap = [b \in Buffer |-> entry] /\ job = NoJob
      /\ objects = [o \in Object |-> NoObject]
  BY DEF Init
<1>2. /\ entry \in [allocated : BOOLEAN, cells : [Spans -> Seq({0, 1})]]
      /\ ~entry.allocated
      /\ \A s \in Spans : entry.cells[s] = <<>>
  OBVIOUS
<1> HIDE DEF entry
<1>3. heap \in Heaps /\ \A b \in Buffer : heap[b] = entry
  BY <1>1, <1>2 DEF Heaps
<1>4. /\ job.pc = "none" /\ job.nodes = 0
  BY <1>1 DEF NoJob
<1>5. job \in JobsOf(job.nodes)
  <2> DEFINE E == EdgeBelow(0, {DefaultEdge})
  <2>1. NoSpans \in [Spans -> Nat] /\ NoBuffer \in BufferOrNone
    BY EmptyIsObject, NoBufferIsNone
  <2>2. <<>> \in Seq(E) /\ 1 \in Nat \ {0}
    OBVIOUS
  <2> HIDE DEF E
  <2>3. job \in JobsOf(0)
    BY <1>1, <2>1, <2>2 DEF NoJob, JobsOf, E
  <2> QED BY <1>4, <2>3
<1>6. Shape
  BY <1>1, <1>3, <1>5 DEF Shape, Heaps, JobsOf
<1>7. \A o \in Object : \A b : ~Holds(o, b)
  BY <1>1 DEF Holds
<1>8. Owned
  BY <1>2, <1>3, <1>7 DEF Owned
<1>9. Running
  BY <1>1, <1>4 DEF Running
<1>10. FreedBuffersEmpty
  <2>1. ASSUME NEW b \in Buffer, NEW s \in Spans
        PROVE  DOMAIN heap[b].cells[s] = {}
    BY <1>2, <1>3
  <2> QED BY <2>1 DEF FreedBuffersEmpty
<1> QED BY <1>6, <1>8, <1>9, <1>10 DEF StorageInv

(* Every step keeps the invariant.                                         *)
LEMMA NextStorageInv ==
  ASSUME MaxNodes <= InvalidNode, StorageInv, [Next]_vars
  PROVE  StorageInv'
<1>1. ASSUME NEW b \in AcyclicBuilders, NEW o \in Object, BeginBuild(b, o)
      PROVE  StorageInv'
  BY <1>1, BeginBuildKeepsInv
<1>2. ASSUME Progress PROVE StorageInv'
  BY <1>2, ConstructNodeKeepsInv, StartEdgesKeepsInv, ConstructEdgeKeepsInv,
     ConstructParentsKeepsInv, AssignParentKeepsInv, ReturnKeepsInv
     DEF Progress
<1>3. ASSUME BuildThrows PROVE StorageInv'
  BY <1>3, BuildThrowsKeepsInv
<1>4. ASSUME NEW o \in Object, DefaultConstruct(o) \/ Destroy(o)
      PROVE  StorageInv'
  BY <1>4, DefaultConstructKeepsInv, DestroyKeepsInv
<1>5. ASSUME NEW o \in Object, NEW other \in Object,
             MoveConstruct(o, other) \/ MoveAssign(o, other)
      PROVE  StorageInv'
  BY <1>5, MoveConstructKeepsInv, MoveAssignKeepsInv
<1>6. ASSUME UNCHANGED vars PROVE StorageInv'
  <2>1. heap' = heap /\ objects' = objects /\ job' = job
    BY <1>6 DEF vars
  <2>2. Shape' /\ FreedBuffersEmpty'
    BY <2>1 DEF StorageInv, Shape, FreedBuffersEmpty
  <2>3. Owned'
    BY <2>1 DEF StorageInv, Owned, Holds, Describes
  <2>4. Running'
    BY <2>1, Zenon
       DEF StorageInv, Running, Holds, Made, Room, Grouped, NoJob, NoSpans
  <2> QED BY <2>2, <2>3, <2>4 DEF StorageInv
<1> QED BY <1>1, <1>2, <1>3, <1>4, <1>5, <1>6 DEF Next

(* The invariant holds in every state.                                     *)
THEOREM StorageInvHolds ==
  ASSUME MaxNodes <= InvalidNode
  PROVE  Spec => []StorageInv
<1>1. Init => StorageInv
  BY InitStorageInv
<1>2. StorageInv /\ [Next]_vars => StorageInv'
  BY NextStorageInv
<1> QED BY <1>1, <1>2, PTL DEF Spec

(* No payload is constructed over a live one, nor destroyed twice or       *)
(* before it was constructed, by build, its rollback or the owners.        *)
THEOREM PayloadsLiveOnce ==
  ASSUME MaxNodes <= InvalidNode
  PROVE  Spec => []LivesOnce
<1>1. StorageInv => LivesOnce
  <2> SUFFICES ASSUME StorageInv, NEW b \in Buffer, NEW s \in Spans,
                      NEW i \in DOMAIN heap[b].cells[s]
               PROVE  heap[b].cells[s][i] \in {0, 1}
    BY DEF LivesOnce
  <2>1. heap[b].cells[s] \in Seq({0, 1})
    BY DEF StorageInv, Shape
  <2> QED BY <2>1
<1> QED BY <1>1, StorageInvHolds, PTL

(* No buffer is given back with a payload alive in it.                     *)
THEOREM BuffersFreedEmpty ==
  ASSUME MaxNodes <= InvalidNode
  PROVE  Spec => []FreedBuffersEmpty
<1>1. StorageInv => FreedBuffersEmpty
  BY DEF StorageInv
<1> QED BY <1>1, StorageInvHolds, PTL

(* The holders of a buffer are none when the build has it or it is free,   *)
(* and one otherwise.                                                      *)
LEMMA HoldersCounted ==
  ASSUME StorageInv, NEW b \in Buffer
  PROVE  Cardinality(Holders(b)) + (IF job.buffer = b THEN 1 ELSE 0)
            = (IF heap[b].allocated THEN 1 ELSE 0)
<1>1. \A o \in Object : o \in Holders(b) <=> Holds(o, b)
  BY DEF Holders, Holds
<1>2. Holders(b) \subseteq Object
  BY DEF Holders
<1>3. CASE \E o \in Object : Holds(o, b)
  <2>1. PICK o \in Object : Holds(o, b)
    BY <1>3
  <2>2. heap[b].allocated /\ \A p \in Object : Holds(p, b) => p = o
    BY <2>1 DEF StorageInv, Owned
  <2>3. Holders(b) = {o}
    BY <1>1, <1>2, <2>1, <2>2
  <2>4. job.buffer # b
    <3>1. CASE job.pc = "none"
      <4>1. job.buffer = NoBuffer
        BY <3>1 DEF StorageInv, Running, NoJob
      <4> QED BY <4>1, NoBufferIsNone
    <3>2. CASE job.pc # "none"
      BY <2>1, <3>2 DEF StorageInv, Running
    <3> QED BY <3>1, <3>2
  <2>5. Cardinality({o}) = 1
    BY FS_Singleton
  <2> QED BY <2>2, <2>3, <2>4, <2>5
<1>4. CASE \A o \in Object : ~Holds(o, b)
  <2>1. Holders(b) = {}
    BY <1>1, <1>2, <1>4
  <2>2. Cardinality({}) = 0
    BY FS_EmptySet
  <2>3. heap[b].allocated => job.buffer = b
    BY <1>4 DEF StorageInv, Owned
  <2>4. job.buffer = b => heap[b].allocated
    <3>1. CASE job.pc = "none"
      <4>1. job.buffer = NoBuffer
        BY <3>1 DEF StorageInv, Running, NoJob
      <4> QED BY <4>1, NoBufferIsNone
    <3>2. CASE job.pc # "none"
      BY <3>2 DEF StorageInv, Running
    <3> QED BY <3>1, <3>2
  <2> QED BY <2>1, <2>2, <2>3, <2>4
<1> QED BY <1>3, <1>4

(* Every allocated buffer has one owner, an object or the running build,   *)
(* and the polytree of an object spans the live payloads of its buffer.    *)
THEOREM BuffersHaveOneOwner ==
  ASSUME MaxNodes <= InvalidNode
  PROVE  Spec => []OwnersMatchBuffers
<1>1. StorageInv => OwnersMatchBuffers
  <2> SUFFICES ASSUME StorageInv PROVE OwnersMatchBuffers
    OBVIOUS
  <2>1. Building => job.buffer \in Buffer /\ objects[job.target] = NoObject
    BY DEF StorageInv, Running, Building
  <2>2. \A b \in Buffer :
           Cardinality(Holders(b)) + (IF job.buffer = b THEN 1 ELSE 0)
               = (IF heap[b].allocated THEN 1 ELSE 0)
    BY HoldersCounted
  <2>3. ASSUME NEW o \in Object, objects[o] # NoObject
        PROVE  IF objects[o].buffer = NoBuffer
               THEN objects[o].view = EmptyView
               ELSE Describes(objects[o].view, objects[o].buffer)
    <3>1. objects[o].buffer \in Buffer \cup {NoBuffer}
      <4>1. objects[o] \in StorageObject
        BY <2>3 DEF StorageInv, Shape
      <4> QED BY <4>1 DEF StorageObject
    <3>2. Holds(o, objects[o].buffer)
      BY <2>3 DEF Holds
    <3> QED BY <3>1, <3>2 DEF StorageInv, Owned
  <2> QED BY <2>1, <2>2, <2>3 DEF OwnersMatchBuffers
<1> QED BY <1>1, StorageInvHolds, PTL

=============================================================================
