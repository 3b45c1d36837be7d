------------------------------ MODULE MpmcQueue ------------------------------
(***************************************************************************)
(* mpmc_enqueue and mpmc_dequeue of src/sovereign_master.c, the bounded    *)
(* lock-free queue that audit_engine.c, shadow_arbitrage.c, core128_bench.c *)
(* and massive_bench.c repeat word for word.                               *)
(*                                                                         *)
(* A step is one access to shared memory with the thread's own computation *)
(* up to the next one.  Positions are naturals: size_t does not wrap in    *)
(* any run these programs can make.  A cell's sequence is read as it is    *)
(* when it is read; the relaxed loads of head and tail may return a value  *)
(* the index had earlier, but never one older than the thread has seen.    *)
(***************************************************************************)
EXTENDS Naturals, Sequences

CONSTANTS
  Producers, Consumers,
  Size,       (* QUEUE_SIZE                                                *)
  NoItem,     (* what a cell holds before its first item                   *)
  MaxItems    (* bound: items of one producer                              *)

ASSUME ThreadAssumption == Producers \cap Consumers = {}
(* With a single cell, "published" and "free for the next lap" would be    *)
(* the same sequence number.                                               *)
ASSUME SizeAssumption == Size \in Nat /\ Size > 1
ASSUME ItemAssumption == NoItem \notin Producers \X Nat
ASSUME BoundAssumption == MaxItems \in Nat

Threads == Producers \cup Consumers
Cells == 0 .. Size - 1
Items == Producers \X Nat

VARIABLES
  head, tail,   (* the two indices                                         *)
  seq,          (* sequence of each cell                                   *)
  data,         (* data of each cell                                       *)
  pc,           (* where each thread is                                    *)
  pos,          (* the local pos of each thread: also the latest value of  *)
                (* its index that it has seen                              *)
  local,        (* *data of each consumer's dequeue                        *)
  sent,         (* calls of mpmc_enqueue each producer has begun           *)
  placed        (* history: the item of each position, as claimed          *)

indices == <<head, tail>>
cells == <<seq, data>>
qvars == <<indices, cells, pc, pos, local, sent, placed>>

Cell(i) == i % Size
Item(p) == <<p, sent[p]>>

Init ==
  /\ head = 0 /\ tail = 0
  /\ seq = [i \in Cells |-> i]
  /\ data = [i \in Cells |-> NoItem]
  /\ pc = [t \in Threads |-> "idle"]
  /\ pos = [t \in Threads |-> 0]
  /\ local = [c \in Consumers |-> NoItem]
  /\ sent = [p \in Producers |-> 0]
  /\ placed = <<>>

Goto(t, label) == pc' = [pc EXCEPT ![t] = label]

(* A relaxed load of an index whose current value is i. *)
Load(t, i) == \E v \in pos[t] .. i : pos' = [pos EXCEPT ![t] = v]

-----------------------------------------------------------------------------
(* mpmc_enqueue *)

Enqueue(p) ==
  /\ pc[p] = "idle"
  /\ sent[p] < MaxItems
  /\ sent' = [sent EXCEPT ![p] = @ + 1]
  /\ Goto(p, "loadTail")
  /\ UNCHANGED <<indices, cells, pos, local, placed>>

LoadTail(p) ==
  /\ pc[p] = "loadTail"
  /\ Load(p, tail)
  /\ Goto(p, "checkFree")
  /\ UNCHANGED <<indices, cells, local, sent, placed>>

(* Mutant of CheckFree: a full cell (dif < 0) is taken for a free one.     *)
CheckFreeIgnoresFull(p) ==
  /\ pc[p] = "checkFree"
  /\ Goto(p, IF seq[Cell(pos[p])] <= pos[p] THEN "casTail" ELSE "loadTail")
  /\ UNCHANGED <<indices, cells, pos, local, sent, placed>>

(* dif < 0 yields the processor first; both others read tail again. *)
CheckFree(p) ==
  /\ pc[p] = "checkFree"
  /\ Goto(p, IF seq[Cell(pos[p])] = pos[p] THEN "casTail" ELSE "loadTail")
  /\ UNCHANGED <<indices, cells, pos, local, sent, placed>>

(* Mutant of CasTail: a load and a store in place of the exchange.         *)
CasTailStores(p) ==
  /\ pc[p] = "casTail"
  /\ tail' = pos[p] + 1
  /\ placed' = IF tail = pos[p] THEN Append(placed, Item(p)) ELSE placed
  /\ Goto(p, "write")
  /\ UNCHANGED <<head, cells, pos, local, sent>>

(* The weak exchange fails when tail has moved, or for no reason at all:   *)
(* it then leaves the value it found in pos.                               *)
CasTail(p) ==
  /\ pc[p] = "casTail"
  /\ \/ /\ tail = pos[p]
        /\ tail' = tail + 1
        /\ placed' = Append(placed, Item(p))
        /\ Goto(p, "write")
        /\ UNCHANGED pos
     \/ /\ pos' = [pos EXCEPT ![p] = tail]
        /\ Goto(p, "checkFree")
        /\ UNCHANGED <<tail, placed>>
  /\ UNCHANGED <<head, cells, local, sent>>

Write(p) ==
  /\ pc[p] = "write"
  /\ data' = [data EXCEPT ![Cell(pos[p])] = Item(p)]
  /\ Goto(p, "publish")
  /\ UNCHANGED <<indices, seq, pos, local, sent, placed>>

(* Mutant of Publish: the cell looks free for the next lap.                *)
PublishNextLap(p) ==
  /\ pc[p] = "publish"
  /\ seq' = [seq EXCEPT ![Cell(pos[p])] = pos[p] + Size]
  /\ Goto(p, "idle")
  /\ UNCHANGED <<indices, data, pos, local, sent, placed>>

Publish(p) ==
  /\ pc[p] = "publish"
  /\ seq' = [seq EXCEPT ![Cell(pos[p])] = pos[p] + 1]
  /\ Goto(p, "idle")
  /\ UNCHANGED <<indices, data, pos, local, sent, placed>>

-----------------------------------------------------------------------------
(* mpmc_dequeue *)

Dequeue(c) ==
  /\ pc[c] = "idle"
  /\ Goto(c, "loadHead")
  /\ UNCHANGED <<indices, cells, pos, local, sent, placed>>

LoadHead(c) ==
  /\ pc[c] = "loadHead"
  /\ Load(c, head)
  /\ Goto(c, "checkReady")
  /\ UNCHANGED <<indices, cells, local, sent, placed>>

(* Mutant of CheckReady: any mismatch is taken for an empty queue.         *)
CheckReadyGivesUp(c) ==
  /\ pc[c] = "checkReady"
  /\ Goto(c, IF seq[Cell(pos[c])] = pos[c] + 1 THEN "casHead" ELSE "idle")
  /\ UNCHANGED <<indices, cells, pos, local, sent, placed>>

(* dif < 0 returns 0: no item, or the front item is not published yet. *)
CheckReady(c) ==
  /\ pc[c] = "checkReady"
  /\ Goto(c, IF seq[Cell(pos[c])] = pos[c] + 1 THEN "casHead"
             ELSE IF seq[Cell(pos[c])] < pos[c] + 1 THEN "idle"
             ELSE "loadHead")
  /\ UNCHANGED <<indices, cells, pos, local, sent, placed>>

(* Mutant of CasHead: a load and a store in place of the exchange.         *)
CasHeadStores(c) ==
  /\ pc[c] = "casHead"
  /\ head' = pos[c] + 1
  /\ Goto(c, "read")
  /\ UNCHANGED <<tail, cells, pos, local, sent, placed>>

CasHead(c) ==
  /\ pc[c] = "casHead"
  /\ \/ /\ head = pos[c]
        /\ head' = head + 1
        /\ Goto(c, "read")
        /\ UNCHANGED pos
     \/ /\ pos' = [pos EXCEPT ![c] = head]
        /\ Goto(c, "checkReady")
        /\ UNCHANGED head
  /\ UNCHANGED <<tail, cells, local, sent, placed>>

Read(c) ==
  /\ pc[c] = "read"
  /\ local' = [local EXCEPT ![c] = data[Cell(pos[c])]]
  /\ Goto(c, "release")
  /\ UNCHANGED <<indices, cells, pos, sent, placed>>

Release(c) ==
  /\ pc[c] = "release"
  /\ seq' = [seq EXCEPT ![Cell(pos[c])] = pos[c] + Size]
  /\ Goto(c, "idle")
  /\ UNCHANGED <<indices, data, pos, local, sent, placed>>

-----------------------------------------------------------------------------
ProducerStep(p) ==
  \/ LoadTail(p)
  \/ CheckFree(p)
  \/ CasTail(p)
  \/ Write(p)
  \/ Publish(p)

ConsumerStep(c) ==
  \/ LoadHead(c)
  \/ CheckReady(c)
  \/ CasHead(c)
  \/ Read(c)
  \/ Release(c)

Next ==
  \/ \E p \in Producers : Enqueue(p) \/ ProducerStep(p)
  \/ \E c \in Consumers : Dequeue(c) \/ ConsumerStep(c)

Spec == Init /\ [][Next]_qvars

-----------------------------------------------------------------------------
(* Properties. *)

(* Where a thread owns the cell of its position. *)
Owns(t) == pc[t] \in {"write", "publish", "read", "release"}

TypeOK ==
  /\ head \in Nat /\ tail \in Nat
  /\ seq \in [Cells -> Nat]
  /\ data \in [Cells -> Items \cup {NoItem}]
  /\ pc \in [Threads -> {"idle", "loadTail", "checkFree", "casTail", "write", "publish",
                         "loadHead", "checkReady", "casHead", "read", "release"}]
  /\ pos \in [Threads -> Nat]
  /\ local \in [Consumers -> Items \cup {NoItem}]
  /\ sent \in [Producers -> Nat]
  /\ placed \in Seq(Items) /\ Len(placed) = tail

(* cell->data is read and written without a lock and without an atomic:    *)
(* no two threads ever own the same cell, a writer and a reader of one lap *)
(* apart included.                                                         *)
OneOwner ==
  \A t, u \in Threads : Owns(t) /\ Owns(u) /\ Cell(pos[t]) = Cell(pos[u]) => t = u

(* A dequeue returns the item of the position it claimed, whole, and not   *)
(* what a slower or faster producer put into the same cell.                *)
ReturnsItsItem ==
  \A c \in Consumers : pc[c] = "release" => local[c] = placed[pos[c] + 1]

(* head never passes tail, and tail never laps it.                         *)
IndicesInOrder ==
  head <= tail /\ tail <= head + Size

(* mpmc_dequeue returns 0 only when the front item is not there: the queue *)
(* is empty, or a producer has claimed the front position and not yet      *)
(* published it.  A consumer with a stale head never gives up.             *)
EmptyIsTruthful ==
  [][\A c \in Consumers : pc[c] = "checkReady" /\ pc'[c] = "idle" =>
       \/ head = tail
       \/ \E p \in Producers : Owns(p) /\ pos[p] = head]_qvars

(* Every published item is there to be taken: the cell of each position    *)
(* from head to tail holds its item, or its producer is still at it.       *)
NothingOverwritten ==
  \A i \in head .. tail - 1 :
    \/ seq[Cell(i)] = i + 1 /\ data[Cell(i)] = placed[i + 1]
    \/ \E p \in Producers : Owns(p) /\ pos[p] = i

(* The linearization: an item enters the buffer at the exchange on tail    *)
(* and is in hand from the exchange on head to the end of the dequeue.     *)
Fifo == INSTANCE BoundedFifo WITH
  Capacity <- Size,
  buffer <- SubSeq(placed, head + 1, tail),
  put <- [p \in Producers |->
            IF pc[p] \in {"loadTail", "checkFree", "casTail"} THEN sent[p] - 1 ELSE sent[p]],
  hand <- [c \in Consumers |->
            CASE pc[c] = "read" -> placed[pos[c] + 1]
              [] pc[c] = "release" -> local[c]
              [] OTHER -> NoItem]

ImplementsFifo == Fifo!Spec
=============================================================================
