--------------------------- MODULE MpmcQueueProofs ---------------------------
(***************************************************************************)
(* Theorems about MpmcQueue, for any threads, any queue size above 1 and   *)
(* any number of items: the queue is well typed, no cell has two owners, a *)
(* dequeue returns the item of its position, nothing is overwritten, the   *)
(* answer "empty" is truthful, and the queue implements BoundedFifo.       *)
(*                                                                         *)
(* The invariant speaks of positions, not of cells: the positions from     *)
(* head to tail - 1 are published or in the hands of a writer, those from  *)
(* tail to head + Size - 1 are free or in the hands of a reader of the lap *)
(* before, and two positions with one cell are a whole lap apart.          *)
(***************************************************************************)
EXTENDS MpmcQueue, Integers, SequenceTheorems, TLAPS

-----------------------------------------------------------------------------
(* Cells and positions. *)

LEMMA CellType ==
  ASSUME NEW i \in Nat
  PROVE  Cell(i) \in Cells
BY SizeAssumption DEF Cell, Cells

LEMMA CellQuotient ==
  ASSUME NEW i \in Nat
  PROVE  \E q \in Nat : i = Size * q + Cell(i)
<1>1. i \div Size \in Nat
  BY SizeAssumption
<1>2. i = Size * (i \div Size) + Cell(i)
  BY SizeAssumption DEF Cell
<1> QED
  BY <1>1, <1>2

(* Two positions with one cell are at least a lap apart. *)
LEMMA LapApart ==
  ASSUME NEW i \in Nat, NEW j \in Nat, Cell(i) = Cell(j), i < j
  PROVE  i + Size <= j
<1>1. PICK a \in Nat : i = Size * a + Cell(i)
  BY CellQuotient
<1>2. PICK b \in Nat : j = Size * b + Cell(j)
  BY CellQuotient
<1>3. Cell(i) \in 0 .. Size - 1
  BY CellType DEF Cells
<1>4. Size * b > Size * a
  BY <1>1, <1>2, <1>3, SizeAssumption
<1>5. b > a
  <2> SUFFICES ASSUME b <= a PROVE FALSE
    OBVIOUS
  <2>1. Size * b <= Size * a
    BY SizeAssumption
  <2> QED
    BY <2>1, <1>4, SizeAssumption
<1>6. Size * b >= Size * (a + 1)
  BY <1>5, SizeAssumption
<1>7. Size * (a + 1) = Size * a + Size
  BY SizeAssumption
<1>8. Size * a \in Nat /\ Size * b \in Nat
  BY SizeAssumption
<1> QED
  BY <1>1, <1>2, <1>3, <1>6, <1>7, <1>8, SizeAssumption

(* The next lap comes back to the same cell. *)
LEMMA NextLap ==
  ASSUME NEW i \in Nat
  PROVE  Cell(i + Size) = Cell(i)
<1>1. i + Size \in Nat
  BY SizeAssumption
<1>2. PICK a \in Nat : i = Size * a + Cell(i)
  BY CellQuotient
<1>3. PICK b \in Nat : i + Size = Size * b + Cell(i + Size)
  BY <1>1, CellQuotient
<1>4. Cell(i) \in 0 .. Size - 1 /\ Cell(i + Size) \in 0 .. Size - 1
  BY <1>1, CellType DEF Cells
<1>5. /\ Size * (a + 1) = Size * a + Size
      /\ Size * (a + 2) = Size * a + Size + Size
      /\ Size * a \in Nat /\ Size * b \in Nat
  BY SizeAssumption
<1>6. CASE b <= a
  <2>1. Size * b <= Size * a
    BY <1>6, SizeAssumption
  <2> QED
    BY <2>1, <1>2, <1>3, <1>4, <1>5, SizeAssumption
<1>7. CASE b >= a + 2
  <2>1. Size * b >= Size * (a + 2)
    BY <1>7, SizeAssumption
  <2> QED
    BY <2>1, <1>2, <1>3, <1>4, <1>5, SizeAssumption
<1>8. CASE b = a + 1
  BY <1>2, <1>3, <1>4, <1>5, <1>8, SizeAssumption
<1> QED
  BY <1>6, <1>7, <1>8

-----------------------------------------------------------------------------
(* The invariant. *)

Writes(p) == pc[p] \in {"write", "publish"}
Reads(c) == pc[c] \in {"read", "release"}

(* Each thread is at a place of its own operation. *)
OwnCode ==
  /\ \A p \in Producers : pc[p] \in {"idle", "loadTail", "checkFree", "casTail", "write", "publish"}
  /\ \A c \in Consumers : pc[c] \in {"idle", "loadHead", "checkReady", "casHead", "read", "release"}

(* The index a thread has seen is not ahead of the one in memory. *)
SeenIndex ==
  /\ \A p \in Producers : pos[p] <= tail
  /\ \A c \in Consumers : pos[c] <= head

(* A writer has a position between head and tail of its own, whose cell    *)
(* still carries the number of this lap.                                   *)
WriterOK ==
  /\ \A p \in Producers : Writes(p) =>
       /\ head <= pos[p] /\ pos[p] < tail
       /\ seq[Cell(pos[p])] = pos[p]
       /\ placed[pos[p] + 1] = Item(p)
       /\ pc[p] = "publish" => data[Cell(pos[p])] = Item(p)
  /\ \A p, q \in Producers : Writes(p) /\ Writes(q) /\ pos[p] = pos[q] => p = q

(* A reader has a position below head of its own, whose cell no producer   *)
(* of the next lap can have claimed.                                       *)
ReaderOK ==
  /\ \A c \in Consumers : Reads(c) =>
       /\ pos[c] < head /\ tail <= pos[c] + Size
       /\ seq[Cell(pos[c])] = pos[c] + 1
       /\ pc[c] = "read" => data[Cell(pos[c])] = placed[pos[c] + 1]
       /\ pc[c] = "release" => local[c] = placed[pos[c] + 1]
  /\ \A c, d \in Consumers : Reads(c) /\ Reads(d) /\ pos[c] = pos[d] => c = d

(* The positions still to be taken. *)
Filled ==
  \A i \in head .. tail - 1 :
    \/ seq[Cell(i)] = i + 1 /\ data[Cell(i)] = placed[i + 1]
    \/ \E p \in Producers : Writes(p) /\ pos[p] = i

(* The positions still to be claimed in this lap. *)
Free ==
  \A i \in tail .. head + Size - 1 :
    \/ seq[Cell(i)] = i
    \/ \E c \in Consumers : Reads(c) /\ pos[c] + Size = i

(* The sequence of a cell only grows, so what a thread has seen of it      *)
(* before its exchange is a lower bound; a position that has been claimed  *)
(* for reading has been published.                                         *)
SeenSeq ==
  /\ \A p \in Producers : pc[p] = "casTail" => pos[p] <= seq[Cell(pos[p])]
  /\ \A c \in Consumers : pc[c] = "casHead" => pos[c] + 1 <= seq[Cell(pos[c])]
  /\ \A i \in Nat : i < head => i + 1 <= seq[Cell(i)]

QueueInv ==
  /\ TypeOK
  /\ OwnCode
  /\ SeenIndex
  /\ IndicesInOrder
  /\ WriterOK
  /\ ReaderOK
  /\ Filled
  /\ Free
  /\ SeenSeq

LEMMA InitInv == Init => QueueInv
<1> SUFFICES ASSUME Init PROVE QueueInv
  OBVIOUS
<1> USE SizeAssumption DEF Init
<1>1. TypeOK /\ OwnCode /\ SeenIndex /\ IndicesInOrder
  BY DEF TypeOK, OwnCode, SeenIndex, IndicesInOrder, Threads, Cells
<1>2. WriterOK /\ ReaderOK /\ Filled /\ SeenSeq
  BY <1>1 DEF WriterOK, ReaderOK, Filled, SeenSeq, OwnCode, Writes, Reads, Threads
<1>3. \A i \in 0 .. Size - 1 : Cell(i) = i
  BY DEF Cell
<1>4. Free
  <2>1. \A i \in 0 .. Size - 1 : seq[Cell(i)] = i
    BY <1>3 DEF Cells
  <2>2. tail .. head + Size - 1 = 0 .. Size - 1
    OBVIOUS
  <2> QED
    BY <2>1, <2>2 DEF Free
<1> QED
  BY <1>1, <1>2, <1>4 DEF QueueInv

(* Every step keeps the types and the places of the threads. *)
LEMMA StepType ==
  ASSUME TypeOK, OwnCode, [Next]_qvars
  PROVE  TypeOK' /\ OwnCode'
<1> USE SizeAssumption, ThreadAssumption DEF TypeOK, OwnCode, Goto, Threads, indices, cells
<1>1. ASSUME NEW p \in Producers, Enqueue(p) \/ ProducerStep(p)
      PROVE  TypeOK' /\ OwnCode'
  <2> Item(p) \in Items
    BY DEF Item, Items
  <2>1. CASE Enqueue(p)
    BY <2>1 DEF Enqueue
  <2>2. CASE LoadTail(p)
    BY <2>2 DEF LoadTail, Load
  <2>3. CASE CheckFree(p)
    BY <2>3 DEF CheckFree
  <2>4. CASE CasTail(p)
    <3>1. Append(placed, Item(p)) \in Seq(Items) /\ Len(Append(placed, Item(p))) = tail + 1
      OBVIOUS
    <3>2. tail + 1 \in Nat
      OBVIOUS
    <3> USE <2>4 DEF CasTail
    <3>3. CASE /\ tail' = tail + 1 /\ placed' = Append(placed, Item(p))
               /\ Goto(p, "write") /\ UNCHANGED pos
      BY <3>1, <3>2, <3>3
    <3>4. CASE /\ pos' = [pos EXCEPT ![p] = tail] /\ Goto(p, "checkFree")
               /\ UNCHANGED <<tail, placed>>
      BY <3>4
    <3> QED
      BY <3>3, <3>4
  <2>5. CASE Write(p)
    BY <2>5 DEF Write
  <2>6. CASE Publish(p)
    <3>1. seq' \in [Cells -> Nat]
      <4>1. seq' = [seq EXCEPT ![Cell(pos[p])] = pos[p] + 1]
        BY <2>6 DEF Publish
      <4>2. seq \in [Cells -> Nat] /\ pos[p] + 1 \in Nat
        OBVIOUS
      <4> QED
        BY ONLY <4>1, <4>2
    <3> QED
      BY <2>6, <3>1 DEF Publish
  <2> QED
    BY <1>1, <2>1, <2>2, <2>3, <2>4, <2>5, <2>6 DEF ProducerStep
<1>2. ASSUME NEW c \in Consumers, Dequeue(c) \/ ConsumerStep(c)
      PROVE  TypeOK' /\ OwnCode'
  <2>1. CASE Dequeue(c)
    BY <2>1 DEF Dequeue
  <2>2. CASE LoadHead(c)
    BY <2>2 DEF LoadHead, Load
  <2>3. CASE CheckReady(c)
    BY <2>3 DEF CheckReady
  <2>4. CASE CasHead(c)
    <3> USE <2>4 DEF CasHead
    <3>1. CASE head' = head + 1 /\ Goto(c, "read") /\ UNCHANGED pos
      BY <3>1
    <3>2. CASE pos' = [pos EXCEPT ![c] = head] /\ Goto(c, "checkReady") /\ UNCHANGED head
      BY <3>2
    <3> QED
      BY <3>1, <3>2
  <2>5. CASE Read(c)
    <3>1. data[Cell(pos[c])] \in Items \cup {NoItem}
      BY CellType
    <3> QED
      BY <2>5, <3>1 DEF Read
  <2>6. CASE Release(c)
    <3>1. seq' \in [Cells -> Nat]
      <4>1. seq' = [seq EXCEPT ![Cell(pos[c])] = pos[c] + Size]
        BY <2>6 DEF Release
      <4>2. seq \in [Cells -> Nat] /\ pos[c] + Size \in Nat
        OBVIOUS
      <4> QED
        BY ONLY <4>1, <4>2
    <3> QED
      BY <2>6, <3>1 DEF Release
  <2> QED
    BY <1>2, <2>1, <2>2, <2>3, <2>4, <2>5, <2>6 DEF ConsumerStep
<1>3. CASE UNCHANGED qvars
  BY <1>3 DEF qvars
<1> QED
  BY <1>1, <1>2, <1>3 DEF Next

-----------------------------------------------------------------------------
(* The steps. *)

(* The exchange on tail succeeds on a position whose cell is free. *)
LEMMA ClaimsFreeCell ==
  ASSUME QueueInv, NEW p \in Producers, pc[p] = "casTail", tail = pos[p]
  PROVE  /\ tail < head + Size
         /\ seq[Cell(tail)] = tail
         /\ \A c \in Consumers : Reads(c) => tail < pos[c] + Size
<1> USE SizeAssumption
<1>0. /\ head \in Nat /\ tail \in Nat /\ head <= tail /\ tail <= head + Size
      /\ \A c \in Consumers : pos[c] \in Nat
  BY DEF QueueInv, TypeOK, IndicesInOrder, Threads
<1> USE DEF QueueInv
<1>1. seq[Cell(tail)] \in Nat /\ seq[Cell(tail)] >= tail
  BY <1>0, CellType DEF SeenSeq, TypeOK
<1>2. ASSUME NEW c \in Consumers, Reads(c) PROVE tail < pos[c] + Size
  <2>1. pos[c] \in Nat /\ seq[Cell(pos[c])] = pos[c] + 1 /\ tail <= pos[c] + Size
    BY <1>0, <1>2 DEF ReaderOK
  <2>2. Cell(pos[c] + Size) = Cell(pos[c])
    BY <2>1, NextLap
  <2>3. tail # pos[c] + Size
    BY <1>1, <2>1, <2>2
  <2> HIDE DEF QueueInv
  <2> QED
    BY <1>0, <2>1, <2>3
<1>3. tail # head + Size
  <2> SUFFICES ASSUME tail = head + Size PROVE FALSE
    OBVIOUS
  <2>1. Cell(tail) = Cell(head)
    BY <1>0, NextLap
  <2>2. head \in head .. tail - 1
    BY <1>0
  <2>3. seq[Cell(head)] = head + 1 \/ seq[Cell(head)] = head
    BY <2>2 DEF Filled, WriterOK
  <2> QED
    BY <1>0, <1>1, <2>1, <2>3
<1>4. tail < head + Size
  <2> HIDE DEF QueueInv
  <2> QED
    BY <1>0, <1>3
<1>5. seq[Cell(tail)] = tail
  <2>1. tail \in tail .. head + Size - 1
    BY <1>0, <1>4
  <2>2. CASE \E c \in Consumers : Reads(c) /\ pos[c] + Size = tail
    BY <1>0, <1>2, <2>2
  <2> QED
    BY <2>1, <2>2 DEF Free
<1> QED
  BY <1>2, <1>4, <1>5

(* The exchange on head succeeds on a position whose item is published. *)
LEMMA ClaimsFilledCell ==
  ASSUME QueueInv, NEW c \in Consumers, pc[c] = "casHead", head = pos[c]
  PROVE  /\ head < tail
         /\ seq[Cell(head)] = head + 1
         /\ data[Cell(head)] = placed[head + 1]
         /\ \A p \in Producers : Writes(p) => head < pos[p]
<1> USE SizeAssumption DEF QueueInv, TypeOK, IndicesInOrder, Threads
<1>1. seq[Cell(head)] >= head + 1
  BY DEF SeenSeq
<1>2. ASSUME NEW p \in Producers, Writes(p) PROVE head < pos[p]
  BY <1>1, <1>2 DEF WriterOK
<1>3. head # tail
  <2> SUFFICES ASSUME head = tail PROVE FALSE
    OBVIOUS
  <2>1. head \in tail .. head + Size - 1
    OBVIOUS
  <2>2. seq[Cell(head)] # head
    BY <1>1
  <2>3. PICK d \in Consumers : Reads(d) /\ pos[d] + Size = head
    BY <2>1, <2>2 DEF Free
  <2>4. pos[d] \in Nat /\ Cell(head) = Cell(pos[d])
    BY <2>3, NextLap
  <2> QED
    BY <1>1, <2>3, <2>4 DEF ReaderOK
<1>4. head \in head .. tail - 1
  BY <1>3
<1> QED
  BY <1>2, <1>3, <1>4 DEF Filled

(* What the steps that move neither an index nor a cell keep: the thread   *)
(* is outside of its cell before and after.                                *)
LEMMA QuietStep ==
  ASSUME QueueInv, TypeOK', OwnCode', UNCHANGED <<indices, cells, local, placed>>,
         NEW t \in Threads,
         ~Owns(t), ~Owns(t)',
         \A u \in Threads \ {t} : pc'[u] = pc[u] /\ pos'[u] = pos[u],
         \A p \in Producers \ {t} : sent'[p] = sent[p],
         SeenIndex',
         t \in Producers /\ pc'[t] = "casTail" => pos'[t] <= seq[Cell(pos'[t])],
         t \in Consumers /\ pc'[t] = "casHead" => pos'[t] + 1 <= seq[Cell(pos'[t])]
  PROVE  QueueInv'
<1> USE ThreadAssumption DEF QueueInv, TypeOK, Threads, indices, cells
<1>1. /\ \A p \in Producers : Writes(p)' <=> Writes(p)
      /\ \A p \in Producers : Writes(p) => p # t
      /\ \A c \in Consumers : Reads(c)' <=> Reads(c)
      /\ \A c \in Consumers : Reads(c) => c # t
  BY DEF Writes, Reads, Owns
<1>2. IndicesInOrder'
  BY DEF IndicesInOrder
<1>3. WriterOK'
  BY <1>1 DEF WriterOK, Item
<1>4. ReaderOK'
  <2>1. \A c \in Consumers : Reads(c)' => pc'[c] = pc[c] /\ pos'[c] = pos[c]
    BY <1>1
  <2> QED
    BY <1>1, <2>1 DEF ReaderOK
<1>5. Filled'
  BY <1>1 DEF Filled
<1>6. Free'
  BY <1>1 DEF Free
<1>7. SeenSeq'
  BY DEF SeenSeq
<1> QED
  BY <1>2, <1>3, <1>4, <1>5, <1>6, <1>7

(* An owned cell belongs to one position of the window from head to        *)
(* head + Size - 1, and to one owner.                                      *)
LEMMA CellsApart ==
  ASSUME QueueInv
  PROVE  /\ \A p \in Producers : Writes(p) =>
              /\ \A i \in head .. head + Size - 1 : Cell(i) = Cell(pos[p]) => i = pos[p]
              /\ \A q \in Producers : Writes(q) /\ Cell(pos[q]) = Cell(pos[p]) => q = p
              /\ \A c \in Consumers : Reads(c) => Cell(pos[c]) # Cell(pos[p])
         /\ \A c \in Consumers : Reads(c) =>
              /\ \A i \in head .. head + Size - 1 :
                   Cell(i) = Cell(pos[c]) => i = pos[c] + Size /\ i >= tail
              /\ \A d \in Consumers : Reads(d) /\ Cell(pos[d]) = Cell(pos[c]) => d = c
<1> USE SizeAssumption
<1>1. /\ head \in Nat /\ tail \in Nat /\ head <= tail /\ tail <= head + Size
      /\ \A p \in Producers : pos[p] \in Nat
      /\ \A c \in Consumers : pos[c] \in Nat
  BY DEF QueueInv, TypeOK, IndicesInOrder, Threads
<1>2. ASSUME NEW p \in Producers, Writes(p)
      PROVE  pos[p] \in Nat /\ head <= pos[p] /\ pos[p] < tail
  BY <1>1, <1>2 DEF QueueInv, WriterOK
<1>3. ASSUME NEW c \in Consumers, Reads(c)
      PROVE  pos[c] \in Nat /\ pos[c] < head /\ tail <= pos[c] + Size
  BY <1>1, <1>3 DEF QueueInv, ReaderOK
<1>4. ASSUME NEW p \in Producers, Writes(p),
             NEW i \in head .. head + Size - 1, Cell(i) = Cell(pos[p])
      PROVE  i = pos[p]
  <2>1. i \in Nat /\ pos[p] \in Nat /\ pos[p] < head + Size /\ head <= pos[p]
    BY <1>1, <1>2, <1>4
  <2>2. ~(i < pos[p])
    BY <1>1, <1>4, <2>1, LapApart
  <2>3. ~(pos[p] < i)
    BY <1>1, <1>4, <2>1, LapApart
  <2> QED
    BY <2>1, <2>2, <2>3
<1>5. ASSUME NEW p \in Producers, Writes(p),
             NEW q \in Producers, Writes(q), Cell(pos[q]) = Cell(pos[p])
      PROVE  q = p
  <2>1. pos[q] \in head .. head + Size - 1
    BY <1>1, <1>2, <1>5
  <2>2. pos[q] = pos[p]
    BY <1>4, <1>5, <2>1
  <2> QED
    BY <1>5, <2>2 DEF QueueInv, WriterOK
<1>6. ASSUME NEW c \in Consumers, Reads(c),
             NEW i \in head .. head + Size - 1, Cell(i) = Cell(pos[c])
      PROVE  i = pos[c] + Size /\ i >= tail
  <2>1. /\ i \in Nat /\ pos[c] \in Nat /\ pos[c] < i /\ i < head + Size
        /\ tail <= pos[c] + Size
    BY <1>1, <1>3, <1>6
  <2>2. pos[c] + Size <= i
    BY <1>6, <2>1, LapApart
  <2>3. pos[c] + Size \in Nat /\ Cell(pos[c] + Size) = Cell(i)
    BY <1>6, <2>1, NextLap
  <2>4. ~(pos[c] + Size < i)
    BY <1>1, <2>1, <2>3, LapApart
  <2> QED
    BY <1>1, <2>1, <2>2, <2>4
<1>7. ASSUME NEW p \in Producers, Writes(p), NEW c \in Consumers, Reads(c)
      PROVE  Cell(pos[c]) # Cell(pos[p])
  <2>1. pos[p] \in head .. head + Size - 1 /\ pos[p] < tail
    BY <1>1, <1>2, <1>7
  <2> QED
    BY <1>1, <1>6, <1>7, <2>1
<1>8. ASSUME NEW c \in Consumers, Reads(c),
             NEW d \in Consumers, Reads(d), Cell(pos[d]) = Cell(pos[c])
      PROVE  d = c
  <2>1. /\ pos[c] \in Nat /\ pos[c] < head /\ head <= pos[c] + Size
        /\ pos[d] \in Nat /\ pos[d] < head /\ head <= pos[d] + Size
    BY <1>1, <1>3, <1>8
  <2>2. ~(pos[c] < pos[d]) /\ ~(pos[d] < pos[c])
    BY <1>1, <1>8, <2>1, LapApart
  <2>3. pos[c] = pos[d]
    BY <2>1, <2>2
  <2> QED
    BY <1>8, <2>3 DEF QueueInv, ReaderOK
<1> QED
  BY <1>4, <1>5, <1>6, <1>7, <1>8

(* The facts about types that the steps below need. *)
LEMMA TypeFacts ==
  ASSUME QueueInv
  PROVE  /\ Producers \subseteq Threads /\ Consumers \subseteq Threads
         /\ \A p \in Producers : p \notin Consumers
         /\ DOMAIN pc = Threads /\ pc = [t \in Threads |-> pc[t]]
         /\ pos \in [Threads -> Nat]
         /\ head \in Nat /\ tail \in Nat /\ head <= tail /\ tail <= head + Size
         /\ seq \in [Cells -> Nat] /\ data \in [Cells -> Items \cup {NoItem}]
         /\ local \in [Consumers -> Items \cup {NoItem}]
         /\ placed \in Seq(Items) /\ Len(placed) = tail
         /\ \A i \in Nat : Cell(i) \in Cells
<1>1. \A i \in Nat : Cell(i) \in Cells
  BY CellType
<1>2. DOMAIN pc = Threads /\ pc = [t \in Threads |-> pc[t]]
  BY DEF QueueInv, TypeOK
<1>3. head <= tail /\ tail <= head + Size
  BY DEF QueueInv, IndicesInOrder
<1>4. /\ Producers \subseteq Threads /\ Consumers \subseteq Threads
      /\ \A p \in Producers : p \notin Consumers
  BY ThreadAssumption DEF Threads
<1> QED
  BY <1>1, <1>2, <1>3, <1>4 DEF QueueInv, TypeOK

(* The four steps of a producer and a consumer that own a cell, and the    *)
(* two exchanges that succeed.                                             *)
TailClaimed(p) ==
  /\ tail = pos[p]
  /\ tail' = tail + 1
  /\ placed' = Append(placed, Item(p))
  /\ Goto(p, "write")
  /\ UNCHANGED pos

HeadClaimed(c) ==
  /\ head = pos[c]
  /\ head' = head + 1
  /\ Goto(c, "read")
  /\ UNCHANGED pos

LEMMA TailClaimedStep ==
  ASSUME QueueInv, TypeOK', OwnCode', NEW p \in Producers, pc[p] = "casTail", TailClaimed(p),
         UNCHANGED <<head, cells, local, sent>>
  PROVE  QueueInv'
<1> USE SizeAssumption, ThreadAssumption
<1>0. /\ head \in Nat /\ tail \in Nat /\ head <= tail /\ tail <= head + Size
      /\ \A q \in Producers : pos[q] \in Nat
      /\ \A c \in Consumers : pos[c] \in Nat
      /\ \A i \in Nat : Cell(i) \in Cells
  BY TypeFacts
<1>a. /\ \A q \in Producers : q \in Threads /\ q \notin Consumers
      /\ \A c \in Consumers : c \in Threads /\ c \notin Producers
      /\ DOMAIN pc = Threads /\ pc = [t \in Threads |-> pc[t]]
      /\ pos \in [Threads -> Nat]
  BY TypeFacts
<1>1. /\ tail = pos[p] /\ tail' = tail + 1 /\ head' = head
      /\ pc' = [pc EXCEPT ![p] = "write"] /\ pos' = pos
      /\ seq' = seq /\ data' = data /\ local' = local /\ sent' = sent
  BY DEF TailClaimed, Goto, cells
<1>2. /\ tail < head + Size
      /\ seq[Cell(tail)] = tail
      /\ \A c \in Consumers : Reads(c) => tail < pos[c] + Size
  BY <1>1, ClaimsFreeCell
<1>3. /\ \A i \in Nat : i < tail => placed'[i + 1] = placed[i + 1]
      /\ placed'[tail + 1] = Item(p)
  <2>1. placed' = Append(placed, Item(p)) /\ Item(p) \in Items
    BY DEF TailClaimed, Item, Items, QueueInv, TypeOK
  <2>2. placed \in Seq(Items) /\ Len(placed) = tail
    BY TypeFacts
  <2>3. \A i \in 1 .. tail + 1 : placed'[i] = IF i <= tail THEN placed[i] ELSE Item(p)
    BY <1>0, <2>1, <2>2
  <2> QED
    BY <1>0, <2>3
<1>4. /\ \A q \in Producers : Writes(q)' <=> Writes(q) \/ q = p
      /\ \A q \in Producers : Writes(q) => q # p /\ pc'[q] = pc[q]
      /\ \A c \in Consumers : (Reads(c)' <=> Reads(c)) /\ pc'[c] = pc[c]
  BY <1>a, <1>1 DEF Writes, Reads
<1>5. SeenIndex' /\ IndicesInOrder'
  BY <1>0, <1>1, <1>2 DEF QueueInv, SeenIndex, IndicesInOrder
<1>6. WriterOK'
  <2>1. ASSUME NEW q \in Producers, Writes(q)
        PROVE  /\ head <= pos[q] /\ pos[q] < tail /\ pos[q] \in Nat
               /\ seq[Cell(pos[q])] = pos[q]
               /\ placed[pos[q] + 1] = Item(q)
               /\ pc[q] = "publish" => data[Cell(pos[q])] = Item(q)
    BY <1>0, <2>1 DEF QueueInv, WriterOK
  <2>2. ASSUME NEW q \in Producers, Writes(q)'
        PROVE  /\ head' <= pos'[q] /\ pos'[q] < tail'
               /\ seq'[Cell(pos'[q])] = pos'[q]
               /\ placed'[pos'[q] + 1] = Item(q)'
               /\ pc'[q] = "publish" => data'[Cell(pos'[q])] = Item(q)'
    <3>1. CASE q = p
      BY <1>0, <1>1, <1>2, <1>3, <3>1 DEF Item
    <3>2. CASE q # p
      <4>1. Writes(q) /\ pc'[q] = pc[q]
        BY <1>4, <2>2, <3>2
      <4>2. /\ pos[q] \in Nat /\ head <= pos[q] /\ pos[q] < tail
            /\ seq[Cell(pos[q])] = pos[q] /\ placed[pos[q] + 1] = Item(q)
            /\ pc[q] = "publish" => data[Cell(pos[q])] = Item(q)
        BY <2>1, <4>1
      <4>3. /\ head' = head /\ pos' = pos /\ seq' = seq /\ data' = data
            /\ Item(q)' = Item(q)
        BY <1>1 DEF Item
      <4>4. placed'[pos[q] + 1] = placed[pos[q] + 1]
        BY ONLY <1>3, <4>2
      <4>5. pos[q] < tail'
        BY ONLY <1>0, <1>1, <4>2
      <4> QED
        BY ONLY <4>1, <4>2, <4>3, <4>4, <4>5
    <3> QED
      BY <3>1, <3>2
  <2>3. ASSUME NEW q \in Producers, NEW r \in Producers, Writes(q)', Writes(r)', pos'[q] = pos'[r]
        PROVE  q = r
    <3>1. \A u \in Producers : Writes(u) => pos[u] # pos[p]
      BY <1>0, <1>1, <2>1
    <3> QED
      BY <1>1, <1>4, <2>3, <3>1 DEF QueueInv, WriterOK
  <2> QED
    BY <2>2, <2>3 DEF WriterOK
<1>7. ReaderOK'
  <2>1. ASSUME NEW c \in Consumers, Reads(c)
        PROVE  pos[c] \in Nat /\ pos[c] < tail /\ tail' <= pos[c] + Size
    BY <1>0, <1>1, <1>2, <2>1 DEF QueueInv, ReaderOK
  <2>2. \A c \in Consumers : Reads(c) => placed'[pos[c] + 1] = placed[pos[c] + 1]
    BY <1>3, <2>1
  <2> QED
    BY <1>0, <1>1, <1>4, <2>1, <2>2 DEF QueueInv, ReaderOK
<1>8. Filled'
  <2> SUFFICES ASSUME NEW i \in head .. tail
               PROVE  \/ seq[Cell(i)] = i + 1 /\ data[Cell(i)] = placed'[i + 1]
                      \/ \E q \in Producers : Writes(q)' /\ pos[q] = i
    BY <1>0, <1>1 DEF Filled
  <2>1. CASE i = tail
    BY <1>1, <1>4, <2>1
  <2>2. CASE i \in head .. tail - 1
    BY <1>0, <1>3, <1>4, <2>2 DEF QueueInv, Filled
  <2> QED
    BY <1>0, <2>1, <2>2
<1>9. Free'
  BY <1>0, <1>1, <1>4 DEF QueueInv, Free
<1>10. SeenSeq'
  BY <1>0, <1>1 DEF QueueInv, SeenSeq
<1> QED
  BY <1>5, <1>6, <1>7, <1>8, <1>9, <1>10 DEF QueueInv

LEMMA WriteStep ==
  ASSUME QueueInv, TypeOK', OwnCode', NEW p \in Producers, Write(p)
  PROVE  QueueInv'
<1> USE SizeAssumption, ThreadAssumption
<1>0. /\ head \in Nat /\ tail \in Nat /\ head <= tail /\ tail <= head + Size
      /\ \A q \in Producers : pos[q] \in Nat
      /\ \A c \in Consumers : pos[c] \in Nat
      /\ \A i \in Nat : Cell(i) \in Cells
  BY TypeFacts
<1>a. /\ \A q \in Producers : q \in Threads /\ q \notin Consumers
      /\ \A c \in Consumers : c \in Threads /\ c \notin Producers
      /\ DOMAIN pc = Threads /\ pc = [t \in Threads |-> pc[t]]
      /\ pos \in [Threads -> Nat]
  BY TypeFacts
<1>1. /\ pc[p] = "write" /\ pc' = [pc EXCEPT ![p] = "publish"] /\ pos' = pos
      /\ data' = [data EXCEPT ![Cell(pos[p])] = Item(p)]
      /\ head' = head /\ tail' = tail /\ seq' = seq /\ local' = local /\ sent' = sent
      /\ placed' = placed
  BY DEF Write, Goto, indices
<1>2. Writes(p)
  BY <1>1 DEF Writes
<1>3. /\ \A q \in Producers : Writes(q)' <=> Writes(q)
      /\ \A q \in Producers : q # p => pc'[q] = pc[q]
      /\ \A c \in Consumers : (Reads(c)' <=> Reads(c)) /\ pc'[c] = pc[c]
  BY <1>a, <1>1 DEF Writes, Reads
<1>4. /\ data'[Cell(pos[p])] = Item(p)
      /\ \A k \in Cells : k # Cell(pos[p]) => data'[k] = data[k]
  <2>1. data \in [Cells -> Items \cup {NoItem}] /\ Cell(pos[p]) \in Cells
    BY <1>0, TypeFacts
  <2> QED
    BY <1>1, <2>1
<1>5. SeenIndex' /\ IndicesInOrder'
  BY <1>1 DEF QueueInv, SeenIndex, IndicesInOrder
<1>6. WriterOK'
  <2>1. ASSUME NEW q \in Producers, pc'[q] = "publish"
        PROVE  data'[Cell(pos[q])] = Item(q)
    <3>1. CASE q = p
      BY <1>4, <3>1
    <3>2. CASE q # p
      <4>1. pc[q] = "publish" /\ Writes(q)
        BY <1>3, <2>1, <3>2 DEF Writes
      <4>2. Cell(pos[q]) # Cell(pos[p]) /\ Cell(pos[q]) \in Cells
        BY <1>0, <1>2, <3>2, <4>1, CellsApart
      <4> QED
        BY <1>4, <4>1, <4>2 DEF QueueInv, WriterOK
    <3> QED
      BY <3>1, <3>2
  <2> QED
    BY <1>1, <1>3, <2>1 DEF QueueInv, WriterOK, Item
<1>7. ReaderOK'
  <2>1. \A c \in Consumers : Reads(c) => data'[Cell(pos[c])] = data[Cell(pos[c])]
    BY <1>0, <1>2, <1>4, CellsApart
  <2> QED
    BY <1>1, <1>3, <2>1 DEF QueueInv, ReaderOK
<1>8. Filled'
  <2>1. ASSUME NEW i \in head .. tail - 1, Cell(i) = Cell(pos[p]) PROVE pos[p] = i
    BY <1>0, <1>2, <2>1, CellsApart
  <2>2. \A i \in head .. tail - 1 : pos[p] = i \/ data'[Cell(i)] = data[Cell(i)]
    <3>1. \A i \in head .. tail - 1 : Cell(i) \in Cells
      BY <1>0
    <3> QED
      BY <1>4, <2>1, <3>1
  <2> QED
    BY <1>1, <1>2, <1>3, <2>2 DEF QueueInv, Filled
<1>9. Free'
  BY <1>1, <1>3 DEF QueueInv, Free
<1>10. SeenSeq'
  BY <1>0, <1>1 DEF QueueInv, SeenSeq
<1> QED
  BY <1>5, <1>6, <1>7, <1>8, <1>9, <1>10 DEF QueueInv

LEMMA PublishStep ==
  ASSUME QueueInv, TypeOK', OwnCode', NEW p \in Producers, Publish(p)
  PROVE  QueueInv'
<1> USE SizeAssumption, ThreadAssumption
<1>0. /\ head \in Nat /\ tail \in Nat /\ head <= tail /\ tail <= head + Size
      /\ \A q \in Producers : pos[q] \in Nat
      /\ \A c \in Consumers : pos[c] \in Nat
      /\ \A i \in Nat : Cell(i) \in Cells
  BY TypeFacts
<1>a. /\ \A q \in Producers : q \in Threads /\ q \notin Consumers
      /\ \A c \in Consumers : c \in Threads /\ c \notin Producers
      /\ DOMAIN pc = Threads /\ pc = [t \in Threads |-> pc[t]]
      /\ pos \in [Threads -> Nat]
  BY TypeFacts
<1>1. /\ pc[p] = "publish" /\ pc' = [pc EXCEPT ![p] = "idle"] /\ pos' = pos
      /\ seq' = [seq EXCEPT ![Cell(pos[p])] = pos[p] + 1]
      /\ head' = head /\ tail' = tail /\ data' = data /\ local' = local /\ sent' = sent
      /\ placed' = placed
  BY DEF Publish, Goto, indices
<1>2. /\ Writes(p) /\ head <= pos[p] /\ pos[p] < tail /\ pos[p] \in Nat
      /\ seq[Cell(pos[p])] = pos[p]
      /\ placed[pos[p] + 1] = Item(p) /\ data[Cell(pos[p])] = Item(p)
  BY <1>0, <1>1 DEF Writes, QueueInv, WriterOK
<1>3. /\ \A q \in Producers : Writes(q)' <=> Writes(q) /\ q # p
      /\ \A q \in Producers : q # p => pc'[q] = pc[q]
      /\ \A c \in Consumers : (Reads(c)' <=> Reads(c)) /\ pc'[c] = pc[c]
  BY <1>a, <1>1 DEF Writes, Reads
<1>4. /\ seq'[Cell(pos[p])] = pos[p] + 1
      /\ \A k \in Cells : k # Cell(pos[p]) => seq'[k] = seq[k]
      /\ \A k \in Cells : seq[k] \in Nat /\ seq'[k] \in Nat /\ seq[k] <= seq'[k]
  <2>1. seq \in [Cells -> Nat] /\ Cell(pos[p]) \in Cells
    BY <1>0, TypeFacts
  <2> QED
    BY <1>1, <1>2, <2>1
<1>5. SeenIndex' /\ IndicesInOrder'
  BY <1>1 DEF QueueInv, SeenIndex, IndicesInOrder
<1>6. WriterOK'
  <2>1. \A q \in Producers : Writes(q) /\ q # p => seq'[Cell(pos[q])] = seq[Cell(pos[q])]
    BY <1>0, <1>2, <1>4, CellsApart
  <2> QED
    BY <1>1, <1>3, <2>1 DEF QueueInv, WriterOK, Item
<1>7. ReaderOK'
  <2>1. \A c \in Consumers : Reads(c) => seq'[Cell(pos[c])] = seq[Cell(pos[c])]
    BY <1>0, <1>2, <1>4, CellsApart
  <2> QED
    BY <1>1, <1>3, <2>1 DEF QueueInv, ReaderOK
<1>8. Filled'
  <2> SUFFICES ASSUME NEW i \in head .. tail - 1
               PROVE  \/ seq'[Cell(i)] = i + 1 /\ data[Cell(i)] = placed[i + 1]
                      \/ \E q \in Producers : Writes(q) /\ q # p /\ pos[q] = i
    BY <1>1, <1>3 DEF Filled
  <2>1. CASE i = pos[p]
    BY <1>2, <1>4, <2>1
  <2>2. CASE i # pos[p]
    <3>1. Cell(i) # Cell(pos[p]) /\ Cell(i) \in Cells
      BY <1>0, <1>2, <2>2, CellsApart
    <3> QED
      BY <1>4, <2>2, <3>1 DEF QueueInv, Filled
  <2> QED
    BY <2>1, <2>2
<1>9. Free'
  <2>1. ASSUME NEW i \in tail .. head + Size - 1 PROVE seq'[Cell(i)] = seq[Cell(i)]
    <3>1. Cell(i) # Cell(pos[p]) /\ Cell(i) \in Cells
      BY <1>0, <1>2, CellsApart
    <3> QED
      BY <1>4, <3>1
  <2> QED
    BY <1>1, <1>3, <2>1 DEF QueueInv, Free
<1>10. SeenSeq'
  <2>1. \A i \in Nat : seq[Cell(i)] \in Nat /\ seq'[Cell(i)] \in Nat /\ seq[Cell(i)] <= seq'[Cell(i)]
    BY <1>0, <1>4
  <2>2. \A t \in Threads : pos[t] \in Nat /\ (pc'[t] \in {"casTail", "casHead"} => pc'[t] = pc[t])
    BY <1>a, <1>1
  <2>3. SeenSeq
    BY DEF QueueInv
  <2>4. \A q \in Producers : pc'[q] = "casTail" => pos'[q] <= seq'[Cell(pos'[q])]
    BY <1>a, <1>1, <2>1, <2>2, <2>3 DEF SeenSeq
  <2>5. \A c \in Consumers : pc'[c] = "casHead" => pos'[c] + 1 <= seq'[Cell(pos'[c])]
    BY <1>a, <1>1, <2>1, <2>2, <2>3 DEF SeenSeq
  <2>6. \A i \in Nat : i < head' => i + 1 <= seq'[Cell(i)]
    BY <1>0, <1>1, <2>1, <2>3 DEF SeenSeq
  <2> QED
    BY <2>4, <2>5, <2>6 DEF SeenSeq
<1> QED
  BY <1>5, <1>6, <1>7, <1>8, <1>9, <1>10 DEF QueueInv

LEMMA EnqueueStep ==
  ASSUME QueueInv, TypeOK', OwnCode', NEW p \in Producers,
         Enqueue(p) \/ ProducerStep(p)
  PROVE  QueueInv'
<1> USE SizeAssumption, ThreadAssumption
<1>0. /\ head \in Nat /\ tail \in Nat /\ head <= tail /\ tail <= head + Size
      /\ \A q \in Producers : pos[q] \in Nat
      /\ \A c \in Consumers : pos[c] \in Nat
      /\ \A i \in Nat : Cell(i) \in Cells
  BY TypeFacts
<1>a. /\ \A q \in Producers : q \in Threads /\ q \notin Consumers
      /\ \A c \in Consumers : c \in Threads /\ c \notin Producers
      /\ DOMAIN pc = Threads /\ pc = [t \in Threads |-> pc[t]]
      /\ pos \in [Threads -> Nat]
  BY TypeFacts
<1> DEFINE Quiet == /\ UNCHANGED <<indices, cells, local, placed>>
                    /\ ~Owns(p) /\ ~Owns(p)'
                    /\ \A u \in Threads \ {p} : pc'[u] = pc[u] /\ pos'[u] = pos[u]
                    /\ \A q \in Producers \ {p} : sent'[q] = sent[q]
                    /\ pos'[p] <= tail
                    /\ pc'[p] = "casTail" => pos'[p] <= seq[Cell(pos'[p])]
<1>1. ASSUME Quiet PROVE QueueInv'
  <2>1. SeenIndex'
    BY <1>0, <1>a, <1>1 DEF QueueInv, SeenIndex, indices, Threads
  <2> QED
    BY <1>0, <1>a, <1>1, <2>1, QuietStep
<1>2. CASE Enqueue(p)
  <2>1. Quiet
    BY <1>0, <1>a, <1>2 DEF Enqueue, Goto, QueueInv, SeenIndex, Owns, TypeOK, indices
  <2> QED
    BY <1>1, <2>1
<1>3. CASE LoadTail(p)
  <2>1. Quiet
    BY <1>0, <1>a, <1>3 DEF LoadTail, Load, Goto, Owns
  <2> QED
    BY <1>1, <2>1
<1>4. CASE CheckFree(p)
  <2>1. Quiet
    BY <1>0, <1>a, <1>4 DEF CheckFree, Goto, QueueInv, SeenIndex, Owns
  <2> QED
    BY <1>1, <2>1
<1>5. CASE CasTail(p)
  <2>1. CASE pos' = [pos EXCEPT ![p] = tail] /\ Goto(p, "checkFree") /\ UNCHANGED <<tail, placed>>
    <3>1. Quiet
      BY <1>0, <1>a, <1>5, <2>1 DEF CasTail, Goto, Owns, indices, cells
    <3> QED
      BY <1>1, <3>1
  <2>2. CASE TailClaimed(p)
    BY <1>5, <2>2, TailClaimedStep DEF CasTail
  <2> QED
    BY <1>5, <2>1, <2>2 DEF CasTail, TailClaimed
<1>6. CASE Write(p)
  BY <1>6, WriteStep
<1>7. CASE Publish(p)
  BY <1>7, PublishStep
<1> QED
  BY <1>2, <1>3, <1>4, <1>5, <1>6, <1>7 DEF ProducerStep

LEMMA HeadClaimedStep ==
  ASSUME QueueInv, TypeOK', OwnCode', NEW c \in Consumers, pc[c] = "casHead", HeadClaimed(c),
         UNCHANGED <<tail, cells, local, sent, placed>>
  PROVE  QueueInv'
<1> USE SizeAssumption, ThreadAssumption
<1>0. /\ head \in Nat /\ tail \in Nat /\ head <= tail /\ tail <= head + Size
      /\ \A q \in Producers : pos[q] \in Nat
      /\ \A d \in Consumers : pos[d] \in Nat
      /\ \A i \in Nat : Cell(i) \in Cells
  BY TypeFacts
<1>a. /\ \A q \in Producers : q \in Threads /\ q \notin Consumers
      /\ \A d \in Consumers : d \in Threads /\ d \notin Producers
      /\ DOMAIN pc = Threads /\ pc = [t \in Threads |-> pc[t]]
  BY TypeFacts
<1>1. /\ head = pos[c] /\ head' = head + 1 /\ tail' = tail
      /\ pc' = [pc EXCEPT ![c] = "read"] /\ pos' = pos
      /\ seq' = seq /\ data' = data /\ local' = local /\ sent' = sent /\ placed' = placed
  BY DEF HeadClaimed, Goto, cells
<1>2. /\ head < tail
      /\ seq[Cell(head)] = head + 1
      /\ data[Cell(head)] = placed[head + 1]
      /\ \A p \in Producers : Writes(p) => head < pos[p]
  BY <1>1, ClaimsFilledCell
<1>3. /\ \A q \in Producers : (Writes(q)' <=> Writes(q)) /\ pc'[q] = pc[q]
      /\ \A d \in Consumers : Reads(d)' <=> Reads(d) \/ d = c
      /\ \A d \in Consumers : Reads(d) => d # c /\ pc'[d] = pc[d]
      /\ pc'[c] = "read"
  BY <1>a, <1>1 DEF Writes, Reads
<1>4. SeenIndex' /\ IndicesInOrder'
  BY <1>0, <1>1, <1>2 DEF QueueInv, SeenIndex, IndicesInOrder
<1>5. WriterOK'
  <2>1. \A q \in Producers : Writes(q) => head' <= pos[q]
    BY <1>0, <1>1, <1>2
  <2> QED
    BY <1>1, <1>3, <2>1 DEF QueueInv, WriterOK, Item
<1>6. ReaderOK'
  <2>1. ASSUME NEW d \in Consumers, Reads(d)
        PROVE  /\ pos[d] < head /\ tail <= pos[d] + Size
               /\ seq[Cell(pos[d])] = pos[d] + 1
               /\ pc[d] = "read" => data[Cell(pos[d])] = placed[pos[d] + 1]
               /\ pc[d] = "release" => local[d] = placed[pos[d] + 1]
    BY <2>1 DEF QueueInv, ReaderOK
  <2>2. ASSUME NEW d \in Consumers, Reads(d)'
        PROVE  /\ pos[d] < head + 1 /\ tail <= pos[d] + Size
               /\ seq[Cell(pos[d])] = pos[d] + 1
               /\ pc'[d] = "read" => data[Cell(pos[d])] = placed[pos[d] + 1]
               /\ pc'[d] = "release" => local[d] = placed[pos[d] + 1]
    <3>1. CASE d = c
      BY <1>0, <1>1, <1>2, <1>3, <3>1
    <3>2. CASE d # c
      BY <1>0, <1>3, <2>1, <2>2, <3>2
    <3> QED
      BY <3>1, <3>2
  <2>3. ASSUME NEW d \in Consumers, NEW e \in Consumers, Reads(d)', Reads(e)', pos[d] = pos[e]
        PROVE  d = e
    <3>1. \A u \in Consumers : Reads(u) => pos[u] # pos[c]
      BY <1>0, <1>1, <2>1
    <3> QED
      BY <1>3, <2>3, <3>1 DEF QueueInv, ReaderOK
  <2> QED
    BY <1>1, <2>2, <2>3 DEF ReaderOK
<1>7. Filled'
  BY <1>0, <1>1, <1>3 DEF QueueInv, Filled
<1>8. Free'
  <2> SUFFICES ASSUME NEW i \in tail .. head + Size
               PROVE  \/ seq[Cell(i)] = i
                      \/ \E d \in Consumers : Reads(d)' /\ pos[d] + Size = i
    BY <1>0, <1>1 DEF Free
  <2>1. CASE i = head + Size
    BY <1>0, <1>1, <1>3, <2>1
  <2>2. CASE i \in tail .. head + Size - 1
    BY <1>3, <2>2 DEF QueueInv, Free
  <2> QED
    BY <1>0, <2>1, <2>2
<1>9. SeenSeq'
  <2>1. SeenSeq
    BY DEF QueueInv
  <2>2. /\ \A q \in Producers : pc'[q] = "casTail" => pc[q] = "casTail"
        /\ \A d \in Consumers : pc'[d] = "casHead" => pc[d] = "casHead"
    BY <1>a, <1>1
  <2>3. \A i \in Nat : i < head' => i + 1 <= seq[Cell(i)]
    BY <1>0, <1>1, <1>2, <2>1 DEF SeenSeq
  <2> QED
    BY <1>1, <2>1, <2>2, <2>3 DEF SeenSeq
<1> QED
  BY <1>4, <1>5, <1>6, <1>7, <1>8, <1>9 DEF QueueInv

LEMMA ReadStep ==
  ASSUME QueueInv, TypeOK', OwnCode', NEW c \in Consumers, Read(c)
  PROVE  QueueInv'
<1> USE SizeAssumption, ThreadAssumption
<1>a. /\ \A q \in Producers : q \in Threads /\ q \notin Consumers
      /\ \A d \in Consumers : d \in Threads /\ d \notin Producers
      /\ DOMAIN pc = Threads /\ pc = [t \in Threads |-> pc[t]]
      /\ local \in [Consumers -> Items \cup {NoItem}]
  BY TypeFacts
<1>1. /\ pc[c] = "read" /\ pc' = [pc EXCEPT ![c] = "release"] /\ pos' = pos
      /\ local' = [local EXCEPT ![c] = data[Cell(pos[c])]]
      /\ head' = head /\ tail' = tail /\ seq' = seq /\ data' = data /\ sent' = sent
      /\ placed' = placed
  BY DEF Read, Goto, indices, cells
<1>2. /\ \A q \in Producers : (Writes(q)' <=> Writes(q)) /\ pc'[q] = pc[q]
      /\ \A d \in Consumers : Reads(d)' <=> Reads(d)
      /\ \A d \in Consumers : d # c => pc'[d] = pc[d] /\ local'[d] = local[d]
      /\ pc'[c] = "release" /\ local'[c] = data[Cell(pos[c])] /\ Reads(c)
  BY <1>a, <1>1 DEF Writes, Reads
<1>3. SeenIndex' /\ IndicesInOrder'
  BY <1>1 DEF QueueInv, SeenIndex, IndicesInOrder
<1>4. WriterOK'
  BY <1>1, <1>2 DEF QueueInv, WriterOK, Item
<1>5. ReaderOK'
  BY <1>1, <1>2 DEF QueueInv, ReaderOK
<1>6. Filled' /\ Free'
  BY <1>1, <1>2 DEF QueueInv, Filled, Free
<1>7. SeenSeq'
  BY <1>a, <1>1 DEF QueueInv, SeenSeq
<1> QED
  BY <1>3, <1>4, <1>5, <1>6, <1>7 DEF QueueInv

LEMMA ReleaseStep ==
  ASSUME QueueInv, TypeOK', OwnCode', NEW c \in Consumers, Release(c)
  PROVE  QueueInv'
<1> USE SizeAssumption, ThreadAssumption
<1>0. /\ head \in Nat /\ tail \in Nat /\ head <= tail /\ tail <= head + Size
      /\ \A q \in Producers : pos[q] \in Nat
      /\ \A d \in Consumers : pos[d] \in Nat
      /\ \A i \in Nat : Cell(i) \in Cells
  BY TypeFacts
<1>a. /\ \A q \in Producers : q \in Threads /\ q \notin Consumers
      /\ \A d \in Consumers : d \in Threads /\ d \notin Producers
      /\ DOMAIN pc = Threads /\ pc = [t \in Threads |-> pc[t]]
      /\ pos \in [Threads -> Nat]
  BY TypeFacts
<1>1. /\ pc[c] = "release" /\ pc' = [pc EXCEPT ![c] = "idle"] /\ pos' = pos
      /\ seq' = [seq EXCEPT ![Cell(pos[c])] = pos[c] + Size]
      /\ head' = head /\ tail' = tail /\ data' = data /\ local' = local /\ sent' = sent
      /\ placed' = placed
  BY DEF Release, Goto, indices
<1>2. /\ Reads(c) /\ pos[c] < head /\ tail <= pos[c] + Size /\ pos[c] \in Nat
      /\ seq[Cell(pos[c])] = pos[c] + 1
  BY <1>0, <1>1 DEF Reads, QueueInv, ReaderOK
<1>3. /\ \A q \in Producers : (Writes(q)' <=> Writes(q)) /\ pc'[q] = pc[q]
      /\ \A d \in Consumers : Reads(d)' <=> Reads(d) /\ d # c
      /\ \A d \in Consumers : d # c => pc'[d] = pc[d]
  BY <1>a, <1>1 DEF Writes, Reads
<1>4. /\ seq'[Cell(pos[c])] = pos[c] + Size
      /\ \A k \in Cells : k # Cell(pos[c]) => seq'[k] = seq[k]
      /\ \A k \in Cells : seq[k] \in Nat /\ seq'[k] \in Nat /\ seq[k] <= seq'[k]
  <2>1. seq \in [Cells -> Nat] /\ Cell(pos[c]) \in Cells
    BY <1>0, TypeFacts
  <2>2. pos[c] + Size \in Nat /\ pos[c] + 1 <= pos[c] + Size
    BY <1>2
  <2> QED
    BY <1>1, <1>2, <2>1, <2>2
<1>5. SeenIndex' /\ IndicesInOrder'
  BY <1>1 DEF QueueInv, SeenIndex, IndicesInOrder
<1>6. WriterOK'
  <2>1. \A q \in Producers : Writes(q) => seq'[Cell(pos[q])] = seq[Cell(pos[q])]
    BY <1>0, <1>2, <1>4, CellsApart
  <2> QED
    BY <1>1, <1>3, <2>1 DEF QueueInv, WriterOK, Item
<1>7. ReaderOK'
  <2>1. \A d \in Consumers : Reads(d) /\ d # c => seq'[Cell(pos[d])] = seq[Cell(pos[d])]
    BY <1>0, <1>2, <1>4, CellsApart
  <2> QED
    BY <1>1, <1>3, <2>1 DEF QueueInv, ReaderOK
<1>8. Filled'
  <2>1. ASSUME NEW i \in head .. tail - 1 PROVE seq'[Cell(i)] = seq[Cell(i)]
    <3>1. Cell(i) # Cell(pos[c]) /\ Cell(i) \in Cells
      BY <1>0, <1>2, CellsApart
    <3> QED
      BY <1>4, <3>1
  <2> QED
    BY <1>1, <1>3, <2>1 DEF QueueInv, Filled
<1>9. Free'
  <2> SUFFICES ASSUME NEW i \in tail .. head + Size - 1
               PROVE  \/ seq'[Cell(i)] = i
                      \/ \E d \in Consumers : Reads(d) /\ d # c /\ pos[d] + Size = i
    BY <1>1, <1>3 DEF Free
  <2>1. CASE i = pos[c] + Size
    BY <1>2, <1>4, <2>1, NextLap
  <2>2. CASE i # pos[c] + Size
    <3>1. Cell(i) # Cell(pos[c]) /\ Cell(i) \in Cells
      BY <1>0, <1>2, <2>2, CellsApart
    <3> QED
      BY <1>4, <2>2, <3>1 DEF QueueInv, Free
  <2> QED
    BY <2>1, <2>2
<1>10. SeenSeq'
  <2>1. \A i \in Nat : seq[Cell(i)] \in Nat /\ seq'[Cell(i)] \in Nat /\ seq[Cell(i)] <= seq'[Cell(i)]
    BY <1>0, <1>4
  <2>2. \A t \in Threads : pos[t] \in Nat /\ (pc'[t] \in {"casTail", "casHead"} => pc'[t] = pc[t])
    BY <1>a, <1>1
  <2>3. SeenSeq
    BY DEF QueueInv
  <2>4. \A q \in Producers : pc'[q] = "casTail" => pos'[q] <= seq'[Cell(pos'[q])]
    BY <1>a, <1>1, <2>1, <2>2, <2>3 DEF SeenSeq
  <2>5. \A d \in Consumers : pc'[d] = "casHead" => pos'[d] + 1 <= seq'[Cell(pos'[d])]
    BY <1>a, <1>1, <2>1, <2>2, <2>3 DEF SeenSeq
  <2>6. \A i \in Nat : i < head' => i + 1 <= seq'[Cell(i)]
    BY <1>0, <1>1, <2>1, <2>3 DEF SeenSeq
  <2> QED
    BY <2>4, <2>5, <2>6 DEF SeenSeq
<1> QED
  BY <1>5, <1>6, <1>7, <1>8, <1>9, <1>10 DEF QueueInv

LEMMA DequeueStep ==
  ASSUME QueueInv, TypeOK', OwnCode', NEW c \in Consumers,
         Dequeue(c) \/ ConsumerStep(c)
  PROVE  QueueInv'
<1> USE SizeAssumption, ThreadAssumption
<1>0. /\ head \in Nat /\ tail \in Nat /\ head <= tail /\ tail <= head + Size
      /\ \A q \in Producers : pos[q] \in Nat
      /\ \A d \in Consumers : pos[d] \in Nat
      /\ \A i \in Nat : Cell(i) \in Cells
  BY TypeFacts
<1>a. /\ \A q \in Producers : q \in Threads /\ q \notin Consumers
      /\ \A d \in Consumers : d \in Threads /\ d \notin Producers
      /\ DOMAIN pc = Threads /\ pc = [t \in Threads |-> pc[t]]
      /\ pos \in [Threads -> Nat]
  BY TypeFacts
<1>b. seq[Cell(pos[c])] \in Nat
  BY <1>0, TypeFacts
<1> DEFINE Quiet == /\ UNCHANGED <<indices, cells, local, placed, sent>>
                    /\ ~Owns(c) /\ ~Owns(c)'
                    /\ \A u \in Threads \ {c} : pc'[u] = pc[u] /\ pos'[u] = pos[u]
                    /\ pos'[c] <= head
                    /\ pc'[c] = "casHead" => pos'[c] + 1 <= seq[Cell(pos'[c])]
<1>1. ASSUME Quiet PROVE QueueInv'
  <2>1. SeenIndex'
    BY <1>0, <1>a, <1>1 DEF QueueInv, SeenIndex, indices, Threads
  <2> QED
    BY <1>0, <1>a, <1>1, <2>1, QuietStep
<1>2. CASE Dequeue(c)
  <2>1. Quiet
    BY <1>0, <1>a, <1>2 DEF Dequeue, Goto, QueueInv, SeenIndex, Owns
  <2> QED
    BY <1>1, <2>1
<1>3. CASE LoadHead(c)
  <2>1. Quiet
    BY <1>0, <1>a, <1>3 DEF LoadHead, Load, Goto, Owns
  <2> QED
    BY <1>1, <2>1
<1>4. CASE CheckReady(c)
  <2>1. Quiet
    BY <1>0, <1>a, <1>b, <1>4 DEF CheckReady, Goto, QueueInv, SeenIndex, Owns
  <2> QED
    BY <1>1, <2>1
<1>5. CASE CasHead(c)
  <2>1. CASE pos' = [pos EXCEPT ![c] = head] /\ Goto(c, "checkReady") /\ UNCHANGED head
    <3>1. Quiet
      BY <1>0, <1>a, <1>5, <2>1 DEF CasHead, Goto, Owns, indices, cells
    <3> QED
      BY <1>1, <3>1
  <2>2. CASE HeadClaimed(c)
    BY <1>5, <2>2, HeadClaimedStep DEF CasHead
  <2> QED
    BY <1>5, <2>1, <2>2 DEF CasHead, HeadClaimed
<1>6. CASE Read(c)
  BY <1>6, ReadStep
<1>7. CASE Release(c)
  BY <1>7, ReleaseStep
<1> QED
  BY <1>2, <1>3, <1>4, <1>5, <1>6, <1>7 DEF ConsumerStep

LEMMA StepInv == QueueInv /\ [Next]_qvars => QueueInv'
<1> SUFFICES ASSUME QueueInv, [Next]_qvars PROVE QueueInv'
  OBVIOUS
<1>1. TypeOK' /\ OwnCode'
  BY StepType DEF QueueInv
<1>2. CASE UNCHANGED qvars
  <2> USE <1>2 DEF qvars, indices, cells
  <2>1. SeenIndex' /\ IndicesInOrder' /\ SeenSeq'
    BY DEF QueueInv, SeenIndex, IndicesInOrder, SeenSeq
  <2>2. WriterOK'
    BY DEF QueueInv, WriterOK, Writes, Item
  <2>3. ReaderOK'
    BY DEF QueueInv, ReaderOK, Reads
  <2>4. Filled' /\ Free'
    BY DEF QueueInv, Filled, Free, Writes, Reads
  <2> QED
    BY <1>1, <2>1, <2>2, <2>3, <2>4 DEF QueueInv
<1> QED
  BY <1>1, <1>2, EnqueueStep, DequeueStep DEF Next

LEMMA QueueInvariant == Spec => []QueueInv
<1> QED
  BY InitInv, StepInv, PTL DEF Spec

-----------------------------------------------------------------------------
(* The theorems. *)

(* The types of the queue hold for any threads, size and items. *)
THEOREM QueueTypeCorrect == Spec => []TypeOK
<1>1. QueueInv => TypeOK
  BY DEF QueueInv
<1> QED
  BY <1>1, QueueInvariant, PTL

(* head never passes tail and tail never laps it. *)
THEOREM QueueInOrder == Spec => []IndicesInOrder
<1>1. QueueInv => IndicesInOrder
  BY DEF QueueInv
<1> QED
  BY <1>1, QueueInvariant, PTL

(* No two threads ever own one cell: cell->data needs no lock. *)
THEOREM CellHasOneOwner == Spec => []OneOwner
<1>1. QueueInv => OneOwner
  <2> SUFFICES ASSUME QueueInv, NEW t \in Threads, NEW u \in Threads,
                      Owns(t), Owns(u), Cell(pos[t]) = Cell(pos[u])
               PROVE  t = u
    BY DEF OneOwner
  <2>1. \A v \in {t, u} : \/ v \in Producers /\ Writes(v)
                          \/ v \in Consumers /\ Reads(v)
    BY DEF QueueInv, OwnCode, Owns, Writes, Reads, Threads
  <2> QED
    BY <2>1, CellsApart
<1> QED
  BY <1>1, QueueInvariant, PTL

(* A dequeue returns the item of the position it claimed. *)
THEOREM DequeueReturnsItsItem == Spec => []ReturnsItsItem
<1>1. QueueInv => ReturnsItsItem
  BY DEF QueueInv, ReaderOK, ReturnsItsItem, Reads
<1> QED
  BY <1>1, QueueInvariant, PTL

(* Every item from head to tail is in its cell or still with its producer. *)
THEOREM NoItemIsOverwritten == Spec => []NothingOverwritten
<1>1. QueueInv => NothingOverwritten
  BY DEF QueueInv, Filled, NothingOverwritten, Owns, Writes
<1> QED
  BY <1>1, QueueInvariant, PTL

(* mpmc_dequeue returns 0 only when the front item is not there. *)
THEOREM EmptyIsNeverALie == Spec => EmptyIsTruthful
<1>1. ASSUME QueueInv, [Next]_qvars, NEW c \in Consumers,
             pc[c] = "checkReady", pc'[c] = "idle"
      PROVE  \/ head = tail
             \/ \E p \in Producers : Owns(p) /\ pos[p] = head
  <2>1. /\ head \in Nat /\ tail \in Nat /\ head <= tail
        /\ c \in Threads /\ c \notin Producers /\ pos[c] \in Nat /\ pos[c] <= head
        /\ seq[Cell(pos[c])] \in Nat
        /\ DOMAIN pc = Threads /\ pc = [t \in Threads |-> pc[t]]
    BY <1>1, TypeFacts DEF QueueInv, SeenIndex
  <2>2. CheckReady(c)
    <3>1. ASSUME NEW p \in Producers, Enqueue(p) \/ ProducerStep(p) PROVE FALSE
      <4>1. p # c
        BY <2>1
      <4>2. \E label : Goto(p, label)
        BY <3>1 DEF Enqueue, ProducerStep, LoadTail, CheckFree, CasTail, Write, Publish
      <4> QED
        BY <1>1, <2>1, <4>1, <4>2 DEF Goto
    <3>2. ASSUME NEW d \in Consumers, Dequeue(d) \/ ConsumerStep(d) PROVE CheckReady(c)
      <4>1. \E label : Goto(d, label)
        BY <3>2 DEF Dequeue, ConsumerStep, LoadHead, CheckReady, CasHead, Read, Release
      <4>2. d = c
        BY <1>1, <2>1, <4>1 DEF Goto
      <4> QED
        BY <1>1, <3>2, <4>2 DEF Dequeue, ConsumerStep, LoadHead, CasHead, Read, Release
    <3>3. CASE UNCHANGED qvars
      BY <1>1, <3>3 DEF qvars
    <3> QED
      BY <1>1, <3>1, <3>2, <3>3 DEF Next
  <2>3. seq[Cell(pos[c])] < pos[c] + 1
    BY <1>1, <2>1, <2>2 DEF CheckReady, Goto
  <2>4. pos[c] = head
    <3>1. ~(pos[c] < head)
      BY <1>1, <2>1, <2>3 DEF QueueInv, SeenSeq
    <3> QED
      BY <2>1, <3>1
  <2>5. CASE head < tail
    <3>1. head \in head .. tail - 1
      BY <2>1, <2>5
    <3>2. seq[Cell(head)] # head + 1
      BY <2>1, <2>3, <2>4
    <3> QED
      BY <1>1, <3>1, <3>2 DEF QueueInv, Filled, Writes, Owns
  <2> QED
    BY <2>1, <2>5
<1>2. QueueInv /\ [Next]_qvars =>
        [\A c \in Consumers : pc[c] = "checkReady" /\ pc'[c] = "idle" =>
           \/ head = tail
           \/ \E p \in Producers : Owns(p) /\ pos[p] = head]_qvars
  BY <1>1
<1> QED
  BY <1>2, QueueInvariant, PTL DEF Spec, EmptyIsTruthful

-----------------------------------------------------------------------------
(* The refinement: the queue is a bounded FIFO. *)

buffer == SubSeq(placed, head + 1, tail)
put == [p \in Producers |->
          IF pc[p] \in {"loadTail", "checkFree", "casTail"} THEN sent[p] - 1 ELSE sent[p]]
hand == [c \in Consumers |->
           CASE pc[c] = "read" -> placed[pos[c] + 1]
             [] pc[c] = "release" -> local[c]
             [] OTHER -> NoItem]

LEMMA SubSeqGrows ==
  ASSUME NEW S, NEW s \in Seq(S), NEW e \in S, NEW m \in 1 .. Len(s) + 1
  PROVE  SubSeq(Append(s, e), m, Len(s) + 1) = Append(SubSeq(s, m, Len(s)), e)
<1> DEFINE a == Append(s, e)
           b == SubSeq(s, m, Len(s))
<1>0. Len(s) \in Nat /\ m \in Nat /\ 1 <= m /\ m <= Len(s) + 1
  BY LenProperties
<1>1. /\ a \in Seq(S) /\ Len(a) = Len(s) + 1
      /\ \A i \in 1 .. Len(s) : a[i] = s[i]
      /\ a[Len(s) + 1] = e
  BY AppendProperties
<1>2. \A i \in m .. Len(s) : s[i] \in S
  BY <1>0, ElementOfSeq
<1>3. /\ b \in Seq(S)
      /\ Len(b) = Len(s) + 1 - m
      /\ \A i \in 1 .. Len(s) + 1 - m : b[i] = s[m + i - 1]
  <2>1. /\ b \in Seq(S)
        /\ Len(b) = IF m <= Len(s) THEN Len(s) - m + 1 ELSE 0
        /\ \A i \in 1 .. Len(s) - m + 1 : b[i] = s[m + i - 1]
    BY <1>0, <1>2, SubSeqProperties
  <2> HIDE DEF b
  <2> QED
    BY <1>0, <2>1
<1>4. \A i \in m .. Len(s) + 1 : a[i] \in S
  <2> HIDE DEF a
  <2>1. \A i \in 1 .. Len(a) : a[i] \in S
    BY <1>1, ElementOfSeq
  <2> QED
    BY <1>0, <1>1, <2>1
<1>5. /\ SubSeq(a, m, Len(s) + 1) \in Seq(S)
      /\ Len(SubSeq(a, m, Len(s) + 1)) = Len(s) + 2 - m
      /\ \A i \in 1 .. Len(s) + 2 - m : SubSeq(a, m, Len(s) + 1)[i] = a[m + i - 1]
  <2>1. /\ SubSeq(a, m, Len(s) + 1) \in Seq(S)
        /\ Len(SubSeq(a, m, Len(s) + 1)) =
             IF m <= Len(s) + 1 THEN (Len(s) + 1) - m + 1 ELSE 0
        /\ \A i \in 1 .. (Len(s) + 1) - m + 1 : SubSeq(a, m, Len(s) + 1)[i] = a[m + i - 1]
    <3> HIDE DEF a
    <3>1. Len(s) + 1 \in Int /\ m \in Int
      BY <1>0
    <3> QED
      BY ONLY <3>1, <1>4, SubSeqProperties
  <2> HIDE DEF a
  <2> QED
    BY <1>0, <2>1
<1>6. /\ Append(b, e) \in Seq(S)
      /\ Len(Append(b, e)) = Len(s) + 2 - m
      /\ \A i \in 1 .. Len(s) + 1 - m : Append(b, e)[i] = b[i]
      /\ Append(b, e)[Len(s) + 2 - m] = e
  <2> HIDE DEF b
  <2>1. /\ Append(b, e) \in Seq(S)
        /\ Len(Append(b, e)) = Len(b) + 1
        /\ \A i \in 1 .. Len(b) : Append(b, e)[i] = b[i]
        /\ Append(b, e)[Len(b) + 1] = e
    BY <1>3, AppendProperties
  <2>2. Len(b) + 1 = Len(s) + 2 - m
    BY <1>0, <1>3
  <2> QED
    BY <1>3, <2>1, <2>2
<1>7. ASSUME NEW i \in 1 .. Len(s) + 2 - m
      PROVE  SubSeq(a, m, Len(s) + 1)[i] = Append(b, e)[i]
  <2> HIDE DEF a, b
  <2>1. SubSeq(a, m, Len(s) + 1)[i] = a[m + i - 1]
    BY <1>5
  <2>2. CASE i = Len(s) + 2 - m
    <3>1. m + i - 1 = Len(s) + 1
      BY <1>0, <2>2
    <3> QED
      BY <1>1, <1>6, <2>1, <2>2, <3>1
  <2>3. CASE i # Len(s) + 2 - m
    <3>1. i \in 1 .. Len(s) + 1 - m /\ m + i - 1 \in 1 .. Len(s)
      BY <1>0, <2>3
    <3> QED
      BY <1>1, <1>3, <1>6, <2>1, <3>1
  <2> QED
    BY <2>2, <2>3
<1> HIDE DEF a, b
<1>8. SubSeq(a, m, Len(s) + 1) = Append(b, e)
  BY <1>5, <1>6, <1>7, SeqEqual
<1> QED
  BY <1>8 DEF a, b

(* The abstract state is a function of these variables only. *)
LEMMA SameAbstractState ==
  ASSUME UNCHANGED <<head, tail, placed>>,
         \A p \in Producers : put'[p] = put[p],
         \A c \in Consumers : hand'[c] = hand[c]
  PROVE  UNCHANGED <<buffer, put, hand>>
<1>1. buffer' = buffer
  BY DEF buffer
<1>2. put' = put
  BY Zenon DEF put
<1>3. hand' = hand
  BY Zenon DEF hand
<1> QED
  BY <1>1, <1>2, <1>3

(* The exchange on tail is the Put of the abstract queue. *)
LEMMA TailClaimedIsPut ==
  ASSUME QueueInv, NEW p \in Producers, pc[p] = "casTail", TailClaimed(p),
         UNCHANGED <<head, cells, local, sent>>
  PROVE  /\ Len(buffer) < Size
         /\ put' = [put EXCEPT ![p] = @ + 1]
         /\ buffer' = Append(buffer, <<p, put'[p]>>)
         /\ hand' = hand
<1>0. /\ head \in Nat /\ tail \in Nat /\ head <= tail /\ Size \in Nat
      /\ placed \in Seq(Items) /\ Len(placed) = tail
      /\ sent \in [Producers -> Nat]
      /\ \A q \in Producers : q \in Threads /\ q \notin Consumers
      /\ \A c \in Consumers : c \in Threads
      /\ DOMAIN pc = Threads /\ pc = [t \in Threads |-> pc[t]]
  BY TypeFacts, SizeAssumption DEF QueueInv, TypeOK
<1>1. /\ tail' = tail + 1 /\ head' = head /\ sent' = sent /\ local' = local /\ pos' = pos
      /\ placed' = Append(placed, Item(p))
      /\ pc' = [pc EXCEPT ![p] = "write"]
  BY DEF TailClaimed, Goto
<1>2. tail < head + Size
  BY ClaimsFreeCell DEF TailClaimed
<1>3. Item(p) \in Items
  BY <1>0 DEF Item, Items
<1>4. Len(buffer) < Size
  <2>1. \A i \in head + 1 .. tail : placed[i] \in Items
    BY <1>0, ElementOfSeq
  <2>2. Len(SubSeq(placed, head + 1, tail)) =
          IF head + 1 <= tail THEN tail - (head + 1) + 1 ELSE 0
    BY <1>0, <2>1, SubSeqProperties
  <2>3. Len(buffer) = tail - head
    BY <1>0, <2>2 DEF buffer
  <2> QED
    BY <1>0, <1>2, <2>3
<1>5. /\ put'[p] = sent[p] /\ put[p] = sent[p] - 1 /\ sent[p] \in Nat
      /\ \A q \in Producers : q # p => put'[q] = put[q]
  <2>1. pc'[p] = "write" /\ \A q \in Producers : q # p => pc'[q] = pc[q]
    BY <1>0, <1>1
  <2> QED
    BY <1>0, <1>1, <2>1 DEF put
<1>6. put' = [put EXCEPT ![p] = @ + 1]
  <2>1. DOMAIN put = Producers /\ put = [q \in Producers |-> put[q]]
    BY DEF put
  <2>2. DOMAIN put' = Producers /\ put' = [q \in Producers |-> put'[q]]
    BY DEF put
  <2>3. \A q \in Producers : put'[q] = [put EXCEPT ![p] = @ + 1][q]
    BY <1>5, <2>1
  <2> QED
    BY <2>1, <2>2, <2>3
<1>7. buffer' = Append(buffer, <<p, put'[p]>>)
  <2>1. head + 1 \in 1 .. Len(placed) + 1
    BY <1>0
  <2>2. SubSeq(Append(placed, Item(p)), head + 1, Len(placed) + 1)
          = Append(SubSeq(placed, head + 1, Len(placed)), Item(p))
    <3>1. placed \in Seq(Items) /\ Item(p) \in Items
      BY <1>0, <1>3
    <3> QED
      BY ONLY <2>1, <3>1, SubSeqGrows, Zenon
  <2> QED
    BY <1>0, <1>1, <1>5, <2>2 DEF buffer, Item
<1>8. hand' = hand
  <2>1. \A c \in Consumers : pc'[c] = pc[c]
    BY <1>0, <1>1
  <2>2. ASSUME NEW c \in Consumers, pc[c] = "read"
        PROVE  placed'[pos[c] + 1] = placed[pos[c] + 1]
    <3>1. pos[c] + 1 \in 1 .. Len(placed)
      <4>1. pos[c] \in Nat /\ pos[c] < head
        BY <1>0, <2>2 DEF QueueInv, TypeOK, ReaderOK, Reads
      <4> QED
        BY <1>0, <4>1
    <3> QED
      BY <1>0, <1>1, <1>3, <3>1, AppendProperties
  <2>3. ASSUME NEW c \in Consumers PROVE hand'[c] = hand[c]
    BY <1>1, <2>1, <2>2 DEF hand
  <2> QED
    BY <2>3, Zenon DEF hand
<1> QED
  BY <1>4, <1>6, <1>7, <1>8

(* The exchange on head is the Take of the abstract queue. *)
LEMMA HeadClaimedIsTake ==
  ASSUME QueueInv, NEW c \in Consumers, pc[c] = "casHead", HeadClaimed(c),
         UNCHANGED <<tail, cells, local, sent, placed>>
  PROVE  /\ buffer # <<>>
         /\ hand[c] = NoItem
         /\ hand' = [hand EXCEPT ![c] = Head(buffer)]
         /\ buffer' = Tail(buffer)
         /\ put' = put
<1>0. /\ head \in Nat /\ tail \in Nat
      /\ placed \in Seq(Items) /\ Len(placed) = tail
      /\ \A q \in Producers : q \in Threads /\ q # c
      /\ \A d \in Consumers : d \in Threads
      /\ DOMAIN pc = Threads /\ pc = [t \in Threads |-> pc[t]]
  BY TypeFacts DEF QueueInv, TypeOK
<1>1. /\ head = pos[c] /\ head' = head + 1 /\ tail' = tail /\ placed' = placed
      /\ pos' = pos /\ local' = local /\ sent' = sent
      /\ pc' = [pc EXCEPT ![c] = "read"]
  BY DEF HeadClaimed, Goto
<1>2. head < tail
  BY ClaimsFilledCell DEF HeadClaimed
<1>3. head + 1 \in 1 .. Len(placed) /\ tail \in head + 1 .. Len(placed)
  BY <1>0, <1>2
<1>4. /\ Head(buffer) = placed[head + 1]
      /\ Tail(buffer) = SubSeq(placed, head + 1 + 1, tail)
  <2> QED
    BY ONLY <1>0, <1>3, HeadTailOfSubSeq DEF buffer
<1>5. buffer # <<>>
  <2>1. \A i \in head + 1 .. tail : placed[i] \in Items
    BY <1>0, ElementOfSeq
  <2>2. Len(SubSeq(placed, head + 1, tail)) =
          IF head + 1 <= tail THEN tail - (head + 1) + 1 ELSE 0
    BY <1>0, <2>1, SubSeqProperties
  <2>3. Len(buffer) > 0
    BY <1>0, <1>2, <2>2 DEF buffer
  <2> QED
    BY <2>3, EmptySeq
<1>6. buffer' = Tail(buffer)
  BY <1>1, <1>4 DEF buffer
<1>7. pc'[c] = "read" /\ \A t \in Threads : t # c => pc'[t] = pc[t]
  BY <1>0, <1>1
<1>8. put' = put
  <2>1. \A q \in Producers : put'[q] = put[q]
    BY <1>0, <1>1, <1>7 DEF put
  <2> QED
    BY <2>1, Zenon DEF put
<1>9. hand[c] = NoItem
  BY DEF hand
<1>10. hand' = [hand EXCEPT ![c] = Head(buffer)]
  <2>1. DOMAIN hand = Consumers /\ hand = [d \in Consumers |-> hand[d]]
    BY DEF hand
  <2>2. DOMAIN hand' = Consumers /\ hand' = [d \in Consumers |-> hand'[d]]
    BY DEF hand
  <2>3. hand'[c] = Head(buffer)
    BY <1>1, <1>4, <1>7 DEF hand
  <2>4. \A d \in Consumers : d # c => hand'[d] = hand[d]
    BY <1>0, <1>1, <1>7 DEF hand
  <2> QED
    BY <2>1, <2>2, <2>3, <2>4
<1> QED
  BY <1>5, <1>6, <1>8, <1>9, <1>10

(* The release of a cell is the Return of the abstract queue. *)
LEMMA ReleaseIsReturn ==
  ASSUME QueueInv, NEW c \in Consumers, Release(c)
  PROVE  /\ hand[c] # NoItem
         /\ hand' = [hand EXCEPT ![c] = NoItem]
         /\ UNCHANGED <<buffer, put>>
<1>0. /\ head \in Nat /\ tail \in Nat /\ head <= tail
      /\ placed \in Seq(Items) /\ Len(placed) = tail
      /\ \A q \in Producers : q \in Threads /\ q # c
      /\ \A d \in Consumers : d \in Threads
      /\ DOMAIN pc = Threads /\ pc = [t \in Threads |-> pc[t]]
  BY TypeFacts DEF QueueInv, TypeOK
<1>1. /\ pc[c] = "release" /\ head' = head /\ tail' = tail /\ placed' = placed
      /\ pos' = pos /\ local' = local /\ sent' = sent
      /\ pc' = [pc EXCEPT ![c] = "idle"]
  BY DEF Release, Goto, indices
<1>2. hand[c] # NoItem
  <2>1. pos[c] \in Nat /\ pos[c] < head /\ local[c] = placed[pos[c] + 1]
    BY <1>0, <1>1 DEF QueueInv, TypeOK, ReaderOK, Reads
  <2>2. pos[c] + 1 \in 1 .. Len(placed)
    BY <1>0, <2>1
  <2>3. local[c] \in Items
    BY <1>0, <2>1, <2>2, ElementOfSeq
  <2>4. hand[c] = local[c]
    BY <1>1 DEF hand
  <2> QED
    BY <2>3, <2>4, ItemAssumption DEF Items
<1>3. pc'[c] = "idle" /\ \A t \in Threads : t # c => pc'[t] = pc[t]
  BY <1>0, <1>1
<1>4. buffer' = buffer
  BY <1>1 DEF buffer
<1>5. put' = put
  <2>1. \A q \in Producers : put'[q] = put[q]
    BY <1>0, <1>1, <1>3 DEF put
  <2> QED
    BY <2>1, Zenon DEF put
<1>6. hand' = [hand EXCEPT ![c] = NoItem]
  <2>1. DOMAIN hand = Consumers /\ hand = [d \in Consumers |-> hand[d]]
    BY DEF hand
  <2>2. DOMAIN hand' = Consumers /\ hand' = [d \in Consumers |-> hand'[d]]
    BY DEF hand
  <2>3. hand'[c] = NoItem
    BY <1>3 DEF hand
  <2>4. \A d \in Consumers : d # c => hand'[d] = hand[d]
    BY <1>0, <1>1, <1>3 DEF hand
  <2> QED
    BY <2>1, <2>2, <2>3, <2>4
<1> QED
  BY <1>2, <1>4, <1>5, <1>6

(* Every step that moves no item is a stutter of the abstract queue. *)
LEMMA OtherStepsStutter ==
  ASSUME QueueInv,
         UNCHANGED <<head, tail, placed>>,
         \/ \E p \in Producers :
              \/ Enqueue(p) \/ LoadTail(p) \/ CheckFree(p) \/ Write(p) \/ Publish(p)
              \/ /\ pc[p] = "casTail" /\ Goto(p, "checkFree")
                 /\ pos' = [pos EXCEPT ![p] = tail] /\ UNCHANGED <<local, sent>>
         \/ \E c \in Consumers :
              \/ Dequeue(c) \/ LoadHead(c) \/ CheckReady(c) \/ Read(c)
              \/ /\ pc[c] = "casHead" /\ Goto(c, "checkReady")
                 /\ pos' = [pos EXCEPT ![c] = head] /\ UNCHANGED <<local, sent>>
  PROVE  UNCHANGED <<buffer, put, hand>>
<1>0. /\ DOMAIN pc = Threads /\ pc = [t \in Threads |-> pc[t]]
      /\ pos \in [Threads -> Nat]
      /\ sent \in [Producers -> Nat]
      /\ local \in [Consumers -> Items \cup {NoItem}]
      /\ \A p \in Producers : p \in Threads /\ p \notin Consumers
      /\ \A c \in Consumers : c \in Threads /\ c \notin Producers
  BY TypeFacts DEF QueueInv, TypeOK
<1>1. ASSUME NEW p \in Producers,
             \/ Enqueue(p) \/ LoadTail(p) \/ CheckFree(p) \/ Write(p) \/ Publish(p)
             \/ /\ pc[p] = "casTail" /\ Goto(p, "checkFree")
                /\ pos' = [pos EXCEPT ![p] = tail] /\ UNCHANGED <<local, sent>>
      PROVE  UNCHANGED <<buffer, put, hand>>
  <2>1. /\ local' = local
        /\ \A c \in Consumers : pc'[c] = pc[c] /\ pos'[c] = pos[c]
        /\ \A q \in Producers : q # p => pc'[q] = pc[q] /\ sent'[q] = sent[q]
    BY <1>0, <1>1 DEF Enqueue, LoadTail, CheckFree, Write, Publish, Goto, Load
  <2>2. put'[p] = put[p]
    <3>1. CASE Enqueue(p)
      <4>1. pc[p] = "idle" /\ pc'[p] = "loadTail" /\ sent'[p] = sent[p] + 1 /\ sent[p] \in Nat
        BY <1>0, <3>1 DEF Enqueue, Goto
      <4> QED
        BY <4>1 DEF put
    <3>2. CASE ~ Enqueue(p)
      <4>1. /\ sent' = sent
            /\ pc[p] \in {"loadTail", "checkFree", "casTail"}
                 <=> pc'[p] \in {"loadTail", "checkFree", "casTail"}
        <5>1. CASE LoadTail(p) \/ CheckFree(p)
          BY <1>0, <5>1 DEF LoadTail, CheckFree, Goto
        <5>2. CASE Write(p) \/ Publish(p)
          BY <1>0, <5>2 DEF Write, Publish, Goto
        <5>3. CASE pc[p] = "casTail" /\ Goto(p, "checkFree") /\ UNCHANGED sent
          BY <1>0, <5>3 DEF Goto
        <5> QED
          BY <1>1, <3>2, <5>1, <5>2, <5>3
      <4> QED
        BY <4>1, Zenon DEF put
    <3> QED
      BY <3>1, <3>2
  <2>3. ASSUME NEW q \in Producers PROVE put'[q] = put[q]
    BY <2>1, <2>2 DEF put
  <2>4. ASSUME NEW c \in Consumers PROVE hand'[c] = hand[c]
    BY <2>1 DEF hand
  <2> QED
    BY <2>3, <2>4, SameAbstractState
<1>2. ASSUME NEW c \in Consumers,
             \/ Dequeue(c) \/ LoadHead(c) \/ CheckReady(c) \/ Read(c)
             \/ /\ pc[c] = "casHead" /\ Goto(c, "checkReady")
                /\ pos' = [pos EXCEPT ![c] = head] /\ UNCHANGED <<local, sent>>
      PROVE  UNCHANGED <<buffer, put, hand>>
  <2>1. /\ sent' = sent
        /\ \A q \in Producers : pc'[q] = pc[q]
        /\ \A d \in Consumers : d # c =>
             pc'[d] = pc[d] /\ pos'[d] = pos[d] /\ local'[d] = local[d]
    BY <1>0, <1>2 DEF Dequeue, LoadHead, CheckReady, Read, Goto, Load
  <2>2. hand'[c] = hand[c]
    <3>1. CASE Read(c)
      <4>1. /\ pc[c] = "read" /\ pc'[c] = "release"
            /\ local'[c] = data[Cell(pos[c])]
        BY <1>0, <3>1 DEF Read, Goto
      <4>2. data[Cell(pos[c])] = placed[pos[c] + 1]
        BY <4>1 DEF QueueInv, ReaderOK, Reads
      <4> QED
        BY <4>1, <4>2 DEF hand
    <3>2. CASE ~ Read(c)
      <4>1. pc[c] \notin {"read", "release"} /\ pc'[c] \notin {"read", "release"}
        BY <1>0, <1>2, <3>2 DEF Dequeue, LoadHead, CheckReady, Goto
      <4> QED
        BY <4>1 DEF hand
    <3> QED
      BY <3>1, <3>2
  <2>3. ASSUME NEW q \in Producers PROVE put'[q] = put[q]
    BY <2>1 DEF put
  <2>4. ASSUME NEW d \in Consumers PROVE hand'[d] = hand[d]
    BY <2>1, <2>2 DEF hand
  <2> QED
    BY <2>3, <2>4, SameAbstractState
<1> QED
  BY <1>1, <1>2

LEMMA StepIsFifoStep ==
  ASSUME QueueInv, [Next]_qvars
  PROVE  \/ \E p \in Producers :
              /\ Len(buffer) < Size
              /\ put' = [put EXCEPT ![p] = @ + 1]
              /\ buffer' = Append(buffer, <<p, put'[p]>>)
              /\ hand' = hand
         \/ \E c \in Consumers :
              /\ buffer # <<>>
              /\ hand[c] = NoItem
              /\ hand' = [hand EXCEPT ![c] = Head(buffer)]
              /\ buffer' = Tail(buffer)
              /\ put' = put
         \/ \E c \in Consumers :
              /\ hand[c] # NoItem
              /\ hand' = [hand EXCEPT ![c] = NoItem]
              /\ UNCHANGED <<buffer, put>>
         \/ UNCHANGED <<buffer, put, hand>>
<1> DEFINE Goal == \/ \E p \in Producers :
                        /\ Len(buffer) < Size
                        /\ put' = [put EXCEPT ![p] = @ + 1]
                        /\ buffer' = Append(buffer, <<p, put'[p]>>)
                        /\ hand' = hand
                   \/ \E c \in Consumers :
                        /\ buffer # <<>>
                        /\ hand[c] = NoItem
                        /\ hand' = [hand EXCEPT ![c] = Head(buffer)]
                        /\ buffer' = Tail(buffer)
                        /\ put' = put
                   \/ \E c \in Consumers :
                        /\ hand[c] # NoItem
                        /\ hand' = [hand EXCEPT ![c] = NoItem]
                        /\ UNCHANGED <<buffer, put>>
                   \/ UNCHANGED <<buffer, put, hand>>
<1>1. ASSUME NEW p \in Producers, Enqueue(p) \/ ProducerStep(p) PROVE Goal
  <2>1. CASE Enqueue(p) \/ LoadTail(p) \/ CheckFree(p) \/ Write(p) \/ Publish(p)
    <3>1. UNCHANGED <<head, tail, placed>>
      BY <2>1 DEF Enqueue, LoadTail, CheckFree, Write, Publish, indices
    <3> QED
      BY <2>1, <3>1, OtherStepsStutter
  <2>2. CASE CasTail(p)
    <3>1. CASE TailClaimed(p)
      <4>1. pc[p] = "casTail" /\ UNCHANGED <<head, cells, local, sent>>
        BY <2>2 DEF CasTail
      <4> HIDE DEF TailClaimed, buffer, put, hand
      <4> QED
        BY <3>1, <4>1, TailClaimedIsPut
    <3>2. CASE ~ TailClaimed(p)
      <4>1. /\ pc[p] = "casTail" /\ Goto(p, "checkFree")
            /\ pos' = [pos EXCEPT ![p] = tail] /\ UNCHANGED <<local, sent>>
            /\ UNCHANGED <<head, tail, placed>>
        BY <2>2, <3>2 DEF CasTail, TailClaimed
      <4> QED
        BY <4>1, OtherStepsStutter
    <3> QED
      BY <3>1, <3>2
  <2> QED
    BY <1>1, <2>1, <2>2 DEF ProducerStep
<1>2. ASSUME NEW c \in Consumers, Dequeue(c) \/ ConsumerStep(c) PROVE Goal
  <2>1. CASE Dequeue(c) \/ LoadHead(c) \/ CheckReady(c) \/ Read(c)
    <3>1. UNCHANGED <<head, tail, placed>>
      BY <2>1 DEF Dequeue, LoadHead, CheckReady, Read, indices
    <3> QED
      BY <2>1, <3>1, OtherStepsStutter
  <2>2. CASE CasHead(c)
    <3>1. CASE HeadClaimed(c)
      <4>1. pc[c] = "casHead" /\ UNCHANGED <<tail, cells, local, sent, placed>>
        BY <2>2 DEF CasHead
      <4> QED
        BY <3>1, <4>1, HeadClaimedIsTake
    <3>2. CASE ~ HeadClaimed(c)
      <4>1. /\ pc[c] = "casHead" /\ Goto(c, "checkReady")
            /\ pos' = [pos EXCEPT ![c] = head] /\ UNCHANGED <<local, sent>>
            /\ UNCHANGED <<head, tail, placed>>
        BY <2>2, <3>2 DEF CasHead, HeadClaimed
      <4> QED
        BY <4>1, OtherStepsStutter
    <3> QED
      BY <3>1, <3>2
  <2>3. CASE Release(c)
    BY <2>3, ReleaseIsReturn
  <2> QED
    BY <1>2, <2>1, <2>2, <2>3 DEF ConsumerStep
<1>3. CASE UNCHANGED qvars
  <2>1. /\ UNCHANGED <<head, tail, placed>>
        /\ \A p \in Producers : put'[p] = put[p]
        /\ \A c \in Consumers : hand'[c] = hand[c]
    BY <1>3 DEF qvars, indices, put, hand
  <2> QED
    BY <2>1, SameAbstractState
<1> QED
  BY <1>1, <1>2, <1>3 DEF Next

(* The queue is a bounded FIFO: an enqueue puts its item at the exchange   *)
(* on tail and only into a buffer that is not full, a dequeue takes the    *)
(* oldest item at the exchange on head and hands it out once, and no other *)
(* access to memory, a failed exchange or a stale load among them, changes *)
(* what the callers can see.                                               *)
THEOREM QueueImplementsFifo == Spec => ImplementsFifo
<1>1. Init => Fifo!Init
  <2> SUFFICES ASSUME Init PROVE Fifo!Init
    OBVIOUS
  <2>1. buffer = <<>>
    BY SubSeqEmpty DEF Init, buffer
  <2>2. put = [p \in Producers |-> 0]
    BY DEF Init, put, Threads
  <2>3. hand = [c \in Consumers |-> NoItem]
    BY DEF Init, hand, Threads
  <2> QED
    BY <2>1, <2>2, <2>3, Zenon DEF Fifo!Init, buffer, put, hand
<1>2. QueueInv /\ [Next]_qvars => [Fifo!Next]_<<buffer, put, hand>>
  BY StepIsFifoStep, Zenon
  DEF Fifo!Next, Fifo!Put, Fifo!Take, Fifo!Return, buffer, put, hand
<1>3. QueueInv /\ [Next]_qvars => [Fifo!Next]_(Fifo!fvars)
  BY <1>2, Zenon DEF Fifo!fvars, buffer, put, hand
<1> QED
  BY <1>1, <1>3, QueueInvariant, PTL DEF Spec, ImplementsFifo, Fifo!Spec
=============================================================================
