-------------------------- MODULE BridgeDaemonProofs --------------------------
(***************************************************************************)
(* Theorems about BridgeDaemon, for any ring, any number of events, kills  *)
(* and failures: every row holds the payload of its own event, and as long *)
(* as SQLite does not fail the ledger and the shared tail agree.           *)
(*                                                                         *)
(* The argument: from Poll to Reset the event at the shared tail is in its *)
(* slot, because the tail moves only in Advance and the producer does not  *)
(* pass it; a statement that is ready in Step was bound in this turn.      *)
(***************************************************************************)
EXTENDS BridgeDaemon, FiniteSetTheorems, TLAPS

-----------------------------------------------------------------------------
(* Positions and slots. *)

LEMMA Quotient ==
  ASSUME NEW N \in Nat, N > 0, NEW k \in Nat
  PROVE  \E q \in Nat : k = N * q + (k % N)
<1>1. k \div N \in Nat
  OBVIOUS
<1>2. k = N * (k \div N) + (k % N)
  OBVIOUS
<1> QED
  BY <1>1, <1>2

(* Two positions with one slot are at least the size of the ring apart. *)
LEMMA SlotsApart ==
  ASSUME NEW N \in Nat, N > 0, NEW j \in Nat, NEW k \in Nat, j % N = k % N, j < k
  PROVE  j + N <= k
<1>1. PICK a \in Nat : j = N * a + (j % N)
  BY Quotient
<1>2. PICK b \in Nat : k = N * b + (k % N)
  BY Quotient
<1>3. j % N \in 0 .. N - 1
  OBVIOUS
<1>4. N * a \in Nat /\ N * b \in Nat /\ N * b > N * a
  BY <1>1, <1>2, <1>3
<1>5. b > a
  <2> SUFFICES ASSUME b <= a PROVE FALSE
    OBVIOUS
  <2>1. N * b <= N * a
    OBVIOUS
  <2> QED
    BY <2>1, <1>4
<1>6. N * b >= N * (a + 1) /\ N * (a + 1) = N * a + N
  BY <1>5
<1> QED
  BY <1>1, <1>2, <1>3, <1>4, <1>6

LEMMA Slots ==
  /\ \A k \in Nat : Slot(k) \in 0 .. Size - 1
  /\ \A j, k \in Nat : Slot(j) = Slot(k) /\ j < k => j + Size <= k
<1>1. \A k \in Nat : Slot(k) \in 0 .. Size - 1
  BY SizeAssumption DEF Slot
<1>2. ASSUME NEW j \in Nat, NEW k \in Nat, Slot(j) = Slot(k), j < k
      PROVE  j + Size <= k
  <2>1. Size \in Nat /\ Size > 0 /\ j % Size = k % Size
    BY <1>2, SizeAssumption DEF Slot
  <2> QED
    BY ONLY <1>2, <2>1, SlotsApart
<1> QED
  BY <1>1, <1>2

-----------------------------------------------------------------------------
(* The invariant. *)

Row(e) == <<e, e>>
Rows == {Row(e) : e \in Events}

DaemonType ==
  /\ events \in [0..(Size - 1) -> Nat]
  /\ head \in Nat /\ tail \in Nat /\ localTail \in Nat
  /\ pc \in {"down", "poll", "bind", "begin", "step", "commit", "reset", "advance"}
  /\ stmt \in {"none", "ready", "done"}
  /\ failures \in Nat

(* The slots from tail to head hold the events of their positions. *)
RingOK ==
  /\ tail <= head /\ head <= tail + Size /\ head <= MaxEvents
  /\ \A k \in tail .. head - 1 : events[Slot(k)] = k + 1

PlaceOK ==
  /\ pc = "poll" => localTail = tail
  /\ pc \in {"bind", "begin", "step", "commit", "reset"} => localTail = tail /\ tail < head
  /\ pc = "advance" => localTail = tail + 1 /\ tail < head

BoundOK ==
  /\ pc \in {"advance", "poll", "bind", "begin", "step"} => stmt # "done"
  /\ pc \in {"begin", "step"} /\ stmt = "ready" =>
       trace = localTail + 1 /\ slot = Slot(localTail)

RowsOK ==
  /\ ledger \cup pending \subseteq Rows
  /\ \A r \in ledger \cup pending : r[1] <= tail + 1

(* Where the row of the event at the tail is while SQLite does not fail. *)
LedgerOK ==
  failures = 0 =>
    /\ pc # "down" => stmt # "none"
    /\ pc # "commit" => pending = {}
    /\ pc = "commit" => /\ pending \subseteq {Row(localTail + 1)}
                        /\ Row(localTail + 1) \in ledger \cup pending
    /\ pc = "reset" => Row(localTail + 1) \in ledger
    /\ pc = "advance" => Row(localTail) \in ledger
    /\ \A e \in 1 .. tail : Row(e) \in ledger
    /\ \A r \in ledger : r[1] <= tail + 1

DaemonInv ==
  /\ DaemonType
  /\ RingOK
  /\ PlaceOK
  /\ BoundOK
  /\ RowsOK
  /\ LedgerOK

LEMMA InitInv == Init => DaemonInv
<1> SUFFICES ASSUME Init PROVE DaemonInv
  OBVIOUS
<1> USE SizeAssumption, BoundAssumption DEF Init
<1>1. DaemonType
  BY DEF DaemonType, NoEvent
<1>2. RingOK /\ PlaceOK /\ BoundOK
  BY DEF RingOK, PlaceOK, BoundOK
<1>3. RowsOK /\ LedgerOK
  BY DEF RowsOK, LedgerOK
<1> QED
  BY <1>1, <1>2, <1>3 DEF DaemonInv

LEMMA ProduceStep ==
  ASSUME DaemonInv, Produce
  PROVE  DaemonInv'
<1>0. DaemonType /\ RingOK /\ PlaceOK /\ BoundOK /\ RowsOK /\ LedgerOK
  BY DEF DaemonInv
<1>1. /\ head < MaxEvents /\ head - tail < Size
      /\ events' = [events EXCEPT ![Slot(head)] = head + 1]
      /\ head' = head + 1
      /\ UNCHANGED <<tail, pc, localTail, stmt, trace, slot, ledger, pending, failures>>
  BY DEF Produce, db
<1>2. head \in Nat /\ tail \in Nat /\ Size \in Nat /\ MaxEvents \in Nat
  BY <1>0, SizeAssumption, BoundAssumption DEF DaemonType
<1>3. DaemonType'
  <2>1. head + 1 \in Nat
    BY <1>2
  <2>2. events' \in [0..(Size - 1) -> Nat]
    BY <1>0, <1>1, <2>1 DEF DaemonType
  <2> QED
    BY <1>0, <1>1, <2>1, <2>2 DEF DaemonType
<1>4. RingOK'
  <2>1. tail' <= head' /\ head' <= tail' + Size /\ head' <= MaxEvents
    BY <1>0, <1>1, <1>2 DEF RingOK
  <2>2. ASSUME NEW k \in tail .. head PROVE events'[Slot(k)] = k + 1
    <3>1. Slot(head) \in 0 .. Size - 1
      BY ONLY <1>2, Slots
    <3>2. CASE k = head
      BY <1>0, <1>1, <3>1, <3>2 DEF DaemonType
    <3>3. CASE k # head
      <4>1. k \in tail .. head - 1
        BY ONLY <1>2, <3>3
      <4>2. Slot(k) # Slot(head)
        <5>1. k \in Nat /\ head \in Nat /\ k < head /\ head < k + Size
          BY <1>1, <1>2, <4>1
        <5> QED
          BY ONLY <1>2, <5>1, Slots
      <4> QED
        BY <1>0, <1>1, <4>1, <4>2 DEF RingOK, DaemonType
    <3> QED
      BY <3>2, <3>3
  <2>3. tail' .. head' - 1 = tail .. head
    BY <1>1, <1>2
  <2> QED
    BY <1>1, <2>1, <2>2, <2>3 DEF RingOK
<1>5. PlaceOK'
  BY <1>0, <1>1, <1>2 DEF PlaceOK
<1>6. BoundOK' /\ RowsOK' /\ LedgerOK'
  BY <1>0, <1>1 DEF BoundOK, RowsOK, LedgerOK
<1> QED
  BY <1>3, <1>4, <1>5, <1>6 DEF DaemonInv

(* The steps that touch neither the tables nor the shared indices. *)
LEMMA QuietStep ==
  ASSUME DaemonInv, Start \/ Poll \/ Bind \/ Begin \/ Reset
  PROVE  DaemonInv'
<1> USE DEF ring
<1>0. DaemonType /\ RingOK /\ PlaceOK /\ BoundOK /\ RowsOK /\ LedgerOK
  BY DEF DaemonInv
<1>1. UNCHANGED <<events, head, tail, ledger, pending>>
  BY DEF Start, Poll, Bind, Begin, Reset, db
<1>2. RingOK' /\ RowsOK'
  BY <1>0, <1>1 DEF RingOK, RowsOK
<1>3. tail \in Nat /\ head \in Nat /\ localTail \in Nat /\ failures \in Nat /\ tail <= head
  BY <1>0 DEF DaemonType, RingOK
<1>4. CASE Start
  <2>1. /\ pc = "down" /\ pc' = "poll" /\ localTail' = tail
        /\ \/ stmt' = "ready" /\ failures' = failures
           \/ stmt' = "none" /\ failures' = failures + 1
    BY <1>4 DEF Start, Fails
  <2>2. DaemonType' /\ PlaceOK' /\ BoundOK'
    BY <1>0, <1>1, <1>3, <2>1 DEF DaemonType, PlaceOK, BoundOK
  <2>3. LedgerOK'
    BY <1>0, <1>1, <1>3, <2>1 DEF LedgerOK
  <2> QED
    BY <1>2, <2>2, <2>3 DEF DaemonInv
<1>5. CASE Poll
  <2>1. /\ pc = "poll" /\ pc' = "bind" /\ localTail # head
        /\ UNCHANGED <<localTail, stmt, failures>>
    BY <1>5 DEF Poll
  <2>2. DaemonType' /\ PlaceOK' /\ BoundOK'
    BY <1>0, <1>1, <1>3, <2>1 DEF DaemonType, PlaceOK, BoundOK
  <2>3. LedgerOK'
    BY <1>0, <1>1, <2>1 DEF LedgerOK
  <2> QED
    BY <1>2, <2>2, <2>3 DEF DaemonInv
<1>6. CASE Bind
  <2>1. /\ pc = "bind" /\ pc' = "begin" /\ UNCHANGED <<localTail, stmt, failures>>
        /\ stmt = "ready" => trace' = events[Slot(localTail)] /\ slot' = Slot(localTail)
    BY <1>6 DEF Bind
  <2>2. events[Slot(localTail)] = localTail + 1
    <3>1. localTail = tail /\ tail < head
      BY <1>0, <2>1 DEF PlaceOK
    <3>2. localTail \in tail .. head - 1
      BY <1>3, <3>1
    <3> QED
      BY <1>0, <3>2 DEF RingOK
  <2>3. DaemonType' /\ PlaceOK'
    BY <1>0, <1>1, <2>1 DEF DaemonType, PlaceOK
  <2>4. BoundOK'
    BY <1>0, <2>1, <2>2 DEF BoundOK
  <2>5. LedgerOK'
    BY <1>0, <1>1, <2>1 DEF LedgerOK
  <2> QED
    BY <1>2, <2>3, <2>4, <2>5 DEF DaemonInv
<1>7. CASE Begin
  <2>1. /\ pc = "begin" /\ pc' = "step" /\ UNCHANGED <<localTail, stmt, trace, slot>>
        /\ failures' = failures \/ failures' = failures + 1
    BY <1>7 DEF Begin, Fails
  <2>2. DaemonType' /\ PlaceOK' /\ BoundOK'
    BY <1>0, <1>1, <1>3, <2>1 DEF DaemonType, PlaceOK, BoundOK
  <2>3. LedgerOK'
    BY <1>0, <1>1, <1>3, <2>1 DEF LedgerOK
  <2> QED
    BY <1>2, <2>2, <2>3 DEF DaemonInv
<1>8. CASE Reset
  <2>1. /\ pc = "reset" /\ pc' = "advance" /\ localTail' = localTail + 1
        /\ stmt' = IF stmt = "none" THEN "none" ELSE "ready"
        /\ failures' = failures
    BY <1>8 DEF Reset
  <2>2. DaemonType' /\ PlaceOK' /\ BoundOK'
    BY <1>0, <1>1, <1>3, <2>1 DEF DaemonType, PlaceOK, BoundOK
  <2>3. LedgerOK'
    BY <1>0, <1>1, <2>1 DEF LedgerOK
  <2> QED
    BY <1>2, <2>2, <2>3 DEF DaemonInv
<1> QED
  BY <1>4, <1>5, <1>6, <1>7, <1>8

LEMMA InsertStep ==
  ASSUME DaemonInv, Step
  PROVE  DaemonInv'
<1> USE DEF ring, Row
<1>0. DaemonType /\ RingOK /\ PlaceOK /\ BoundOK /\ RowsOK /\ LedgerOK
  BY DEF DaemonInv
<1>1. /\ pc = "step" /\ pc' = "commit"
      /\ stmt' = IF stmt = "none" THEN "none" ELSE "done"
      /\ UNCHANGED <<events, head, tail, localTail>>
      /\ \/ /\ stmt # "none" /\ ~TraceIdTaken /\ failures' = failures
            /\ \/ pending' = pending \cup {<<trace, events[slot]>>} /\ ledger' = ledger
               \/ ledger' = ledger \cup {<<trace, events[slot]>>} /\ pending' = pending
         \/ /\ stmt = "none" \/ TraceIdTaken
            /\ UNCHANGED <<pending, ledger, failures>>
         \/ failures' = failures + 1 /\ UNCHANGED <<pending, ledger>>
  BY DEF Step, Fails
<1>2. /\ tail \in Nat /\ head \in Nat /\ localTail \in Nat /\ failures \in Nat
      /\ localTail = tail /\ tail < head /\ head <= MaxEvents /\ MaxEvents \in Nat
  BY <1>0, <1>1, BoundAssumption DEF DaemonType, RingOK, PlaceOK
<1>3. stmt # "none" => trace = localTail + 1 /\ events[slot] = localTail + 1
  <2>1. localTail \in tail .. head - 1
    BY <1>2
  <2>2. stmt # "none" => stmt = "ready"
    BY <1>0, <1>1 DEF DaemonType, BoundOK
  <2> QED
    BY <1>0, <1>1, <2>1, <2>2 DEF BoundOK, RingOK
<1>4. Row(localTail + 1) \in Rows
  BY <1>2 DEF Rows, Events
<1>5. DaemonType' /\ RingOK' /\ PlaceOK' /\ BoundOK'
  <2>1. failures' \in Nat
    BY <1>1, <1>2
  <2>2. DaemonType'
    BY <1>0, <1>1, <2>1 DEF DaemonType
  <2>3. RingOK'
    BY <1>0, <1>1 DEF RingOK
  <2>4. PlaceOK' /\ BoundOK'
    BY <1>0, <1>1 DEF PlaceOK, BoundOK
  <2> QED
    BY <2>2, <2>3, <2>4
<1>6. RowsOK'
  <2>1. \A r \in ledger' \cup pending' : r \in ledger \cup pending \/ r = Row(localTail + 1)
    BY <1>1, <1>3
  <2>2. Row(localTail + 1)[1] = tail + 1 /\ tail' = tail
    BY <1>1, <1>2
  <2>3. \A r \in ledger' \cup pending' : r \in Rows /\ r[1] <= tail + 1
    BY <1>0, <1>2, <1>4, <2>1, <2>2 DEF RowsOK
  <2> QED
    BY <2>2, <2>3 DEF RowsOK
<1>7. LedgerOK'
  <2> SUFFICES ASSUME failures' = 0
               PROVE  /\ stmt' # "none"
                      /\ pending' \subseteq {Row(localTail + 1)}
                      /\ Row(localTail + 1) \in ledger' \cup pending'
                      /\ \A e \in 1 .. tail : Row(e) \in ledger'
                      /\ \A r \in ledger' : r[1] <= tail + 1
    BY <1>1 DEF LedgerOK
  <2>1. failures = 0 /\ failures' = failures
    BY <1>1, <1>2
  <2>2. /\ stmt # "none" /\ pending = {}
        /\ \A e \in 1 .. tail : Row(e) \in ledger
        /\ \A r \in ledger : r[1] <= tail + 1
    BY <1>0, <1>1, <2>1 DEF LedgerOK
  <2>3. CASE ~TraceIdTaken
    <3>1. \/ pending' = pending \cup {Row(localTail + 1)} /\ ledger' = ledger
          \/ ledger' = ledger \cup {Row(localTail + 1)} /\ pending' = pending
      BY <1>1, <1>2, <1>3, <2>1, <2>2, <2>3
    <3> QED
      BY <1>1, <1>2, <2>2, <3>1
  <2>4. CASE TraceIdTaken
    <3>1. UNCHANGED <<pending, ledger>>
      BY <1>1, <2>4
    <3>2. PICK r \in ledger \cup pending : r[1] = localTail + 1
      BY <1>3, <2>2, <2>4 DEF TraceIdTaken
    <3>3. r = Row(localTail + 1)
      BY <1>0, <3>2 DEF RowsOK, Rows
    <3> QED
      BY <1>1, <2>2, <3>1, <3>2, <3>3
  <2> QED
    BY <2>3, <2>4
<1> QED
  BY <1>5, <1>6, <1>7 DEF DaemonInv

LEMMA CommitStep ==
  ASSUME DaemonInv, Commit
  PROVE  DaemonInv'
<1> USE DEF ring, Row
<1>0. DaemonType /\ RingOK /\ PlaceOK /\ BoundOK /\ RowsOK /\ LedgerOK
  BY DEF DaemonInv
<1>1. /\ pc = "commit" /\ pc' = "reset"
      /\ UNCHANGED <<events, head, tail, localTail, stmt, trace, slot>>
      /\ \/ ledger' = ledger \cup pending /\ pending' = {} /\ failures' = failures
         \/ failures' = failures + 1 /\ UNCHANGED <<pending, ledger>>
         \/ failures' = failures + 1 /\ pending' = {} /\ UNCHANGED ledger
  BY DEF Commit, Fails, db
<1>2. tail \in Nat /\ localTail = tail /\ failures \in Nat
  BY <1>0, <1>1 DEF DaemonType, PlaceOK
<1>3. DaemonType' /\ RingOK' /\ PlaceOK' /\ BoundOK'
  <2>1. failures' \in Nat
    BY <1>1, <1>2
  <2>2. DaemonType' /\ RingOK'
    BY <1>0, <1>1, <2>1 DEF DaemonType, RingOK
  <2>3. PlaceOK' /\ BoundOK'
    BY <1>0, <1>1 DEF PlaceOK, BoundOK
  <2> QED
    BY <2>2, <2>3
<1>4. RowsOK'
  BY <1>0, <1>1 DEF RowsOK
<1>5. LedgerOK'
  <2> SUFFICES ASSUME failures' = 0 PROVE LedgerOK'
    BY DEF LedgerOK
  <2>1. failures = 0 /\ ledger' = ledger \cup pending /\ pending' = {}
    BY <1>1, <1>2
  <2>2. /\ stmt # "none" /\ pending \subseteq {Row(localTail + 1)}
        /\ Row(localTail + 1) \in ledger \cup pending
        /\ \A e \in 1 .. tail : Row(e) \in ledger
        /\ \A r \in ledger : r[1] <= tail + 1
    BY <1>0, <1>1, <2>1 DEF LedgerOK
  <2>3. \A r \in ledger' : r[1] <= tail + 1
    BY <1>2, <2>1, <2>2
  <2> QED
    BY <1>1, <2>1, <2>2, <2>3 DEF LedgerOK
<1> QED
  BY <1>3, <1>4, <1>5 DEF DaemonInv

LEMMA AdvanceStep ==
  ASSUME DaemonInv, Advance
  PROVE  DaemonInv'
<1> USE DEF Row
<1>0. DaemonType /\ RingOK /\ PlaceOK /\ BoundOK /\ RowsOK /\ LedgerOK
  BY DEF DaemonInv
<1>1. /\ pc = "advance" /\ pc' = "poll" /\ tail' = localTail
      /\ UNCHANGED <<events, head, localTail, stmt, trace, slot, ledger, pending, failures>>
  BY DEF Advance, db
<1>2. /\ tail \in Nat /\ head \in Nat /\ localTail = tail + 1 /\ tail < head
      /\ Size \in Nat
  BY <1>0, <1>1, SizeAssumption DEF DaemonType, PlaceOK
<1>3. DaemonType' /\ PlaceOK' /\ BoundOK' /\ RowsOK'
  <2>1. DaemonType' /\ PlaceOK' /\ BoundOK'
    BY <1>0, <1>1 DEF DaemonType, PlaceOK, BoundOK
  <2>2. \A r \in ledger \cup pending : r \in Rows /\ r[1] \in Nat /\ r[1] <= tail + 1
    BY <1>0, BoundAssumption DEF RowsOK, Rows, Events
  <2>3. \A r \in ledger \cup pending : r[1] <= tail' + 1
    BY <1>1, <1>2, <2>2
  <2> QED
    BY <1>0, <1>1, <2>1, <2>3 DEF RowsOK
<1>4. RingOK'
  <2>1. tail' .. head' - 1 \subseteq tail .. head - 1
    BY <1>1, <1>2
  <2>2. tail' <= head' /\ head' <= tail' + Size /\ head' <= MaxEvents
    BY <1>0, <1>1, <1>2 DEF RingOK
  <2> QED
    BY <1>0, <1>1, <2>1, <2>2 DEF RingOK
<1>5. LedgerOK'
  <2> SUFFICES ASSUME failures = 0 PROVE LedgerOK'
    BY <1>1 DEF LedgerOK
  <2>1. /\ stmt # "none" /\ pending = {} /\ Row(localTail) \in ledger
        /\ \A e \in 1 .. tail : Row(e) \in ledger
        /\ \A r \in ledger : r[1] <= tail + 1
    BY <1>0, <1>1 DEF LedgerOK
  <2>2. ASSUME NEW e \in 1 .. tail' PROVE Row(e) \in ledger'
    <3>1. e \in 1 .. tail \/ e = localTail
      BY <1>1, <1>2
    <3> QED
      BY <1>1, <2>1, <3>1
  <2>3. \A r \in ledger' : r[1] <= tail' + 1
    <3>1. \A r \in ledger : r[1] \in Nat
      BY <1>0 DEF RowsOK, Rows, Events
    <3> QED
      BY <1>1, <1>2, <2>1, <3>1
  <2> QED
    BY <1>1, <2>1, <2>2, <2>3 DEF LedgerOK
<1> QED
  BY <1>3, <1>4, <1>5 DEF DaemonInv

LEMMA KillStep ==
  ASSUME DaemonInv, Kill
  PROVE  DaemonInv'
<1>1. /\ pc' = "down" /\ stmt' = "none" /\ pending' = {}
      /\ UNCHANGED <<events, head, tail, localTail, ledger, failures>>
  BY DEF Kill, ring
<1> USE <1>1 DEF DaemonInv
<1>2. DaemonType' /\ RingOK' /\ PlaceOK' /\ BoundOK'
  BY DEF DaemonType, RingOK, PlaceOK, BoundOK
<1>3. RowsOK' /\ LedgerOK'
  BY DEF RowsOK, LedgerOK
<1> QED
  BY <1>2, <1>3

LEMMA StepInv == DaemonInv /\ [Next]_vars => DaemonInv'
<1> SUFFICES ASSUME DaemonInv, [Next]_vars PROVE DaemonInv'
  OBVIOUS
<1>1. CASE UNCHANGED vars
  <2> USE <1>1 DEF vars, ring, db, DaemonInv
  <2>1. DaemonType' /\ RingOK' /\ PlaceOK' /\ BoundOK'
    BY DEF DaemonType, RingOK, PlaceOK, BoundOK
  <2>2. RowsOK' /\ LedgerOK'
    BY DEF RowsOK, LedgerOK
  <2> QED
    BY <2>1, <2>2
<1> QED
  BY <1>1, ProduceStep, QuietStep, InsertStep, CommitStep, AdvanceStep, KillStep
  DEF Next, Daemon

LEMMA DaemonInvariant == Spec => []DaemonInv
<1> QED
  BY InitInv, StepInv, PTL DEF Spec

-----------------------------------------------------------------------------
(* The theorems. *)

(* A row holds the payload of its own event, whatever SQLite refuses. *)
THEOREM RowsHoldTheirEvents == Spec => []RowsAreEvents
<1>1. DaemonInv => RowsAreEvents
  BY DEF DaemonInv, RowsOK, Rows, Row, RowsAreEvents
<1> QED
  BY <1>1, DaemonInvariant, PTL

(* While SQLite does not fail, the ledger has each event before the shared *)
(* tail once, and at most one more, across any number of kills.            *)
THEOREM LedgerFollowsTail == Spec => []LedgerMatchesTail
<1>1. DaemonInv => LedgerMatchesTail
  <2> SUFFICES ASSUME DaemonInv, failures = 0 PROVE LedgerMatchesTail
    BY DEF LedgerMatchesTail
  <2> DEFINE rows == {r[1] : r \in ledger}
  <2>1. /\ \A e \in 1 .. tail : Row(e) \in ledger
        /\ \A r \in ledger : r[1] <= tail + 1
        /\ ledger \subseteq Rows /\ tail \in Nat
    BY DEF DaemonInv, LedgerOK, RowsOK, DaemonType
  <2>2. \A r \in ledger : r[1] \in Nat /\ r[1] >= 1 /\ r = Row(r[1])
    BY <2>1, BoundAssumption DEF Rows, Row, Events
  <2>3. 1 .. tail \subseteq rows
    <3> SUFFICES ASSUME NEW e \in 1 .. tail PROVE e \in rows
      OBVIOUS
    <3>1. Row(e) \in ledger /\ Row(e)[1] = e
      BY <2>1 DEF Row
    <3> QED
      BY <3>1
  <2>4. rows \subseteq 1 .. (tail + 1)
    BY <2>1, <2>2
  <2>5. Cardinality(ledger) = Cardinality(rows)
    <3>1. IsFiniteSet(rows)
      <4> HIDE DEF rows
      <4>1. IsFiniteSet(1 .. (tail + 1))
        BY <2>1, FS_Interval
      <4> QED
        BY <2>4, <4>1, FS_Subset
    <3> DEFINE f == [e \in rows |-> Row(e)]
    <3>2. f \in Bijection(rows, ledger)
      <4>1. \A e \in rows : Row(e) \in ledger
        BY <2>2
      <4>2. f \in [rows -> ledger]
        BY <4>1
      <4>3. \A d, e \in rows : f[d] = f[e] => d = e
        BY DEF Row
      <4>4. \A r \in ledger : \E e \in rows : f[e] = r
        BY <2>2
      <4> HIDE DEF f, rows
      <4> QED
        BY <4>2, <4>3, <4>4 DEF Bijection, Injection, Surjection, IsInjective
    <3>3. ExistsBijection(rows, ledger)
      BY <3>2 DEF ExistsBijection
    <3> QED
      BY <3>1, <3>3, FS_Bijection
  <2> QED
    BY <2>3, <2>4, <2>5 DEF LedgerMatchesTail
<1> QED
  BY <1>1, DaemonInvariant, PTL

-----------------------------------------------------------------------------
(* The daemon implements EventLedger. *)

LEMMA EnteredFacts ==
  ASSUME DaemonInv
  PROVE  /\ tail \in Nat /\ head \in Nat /\ localTail \in Nat /\ failures \in Nat /\ tail <= head
         /\ \A r \in ledger \cup pending :
              r[1] \in Nat /\ 1 <= r[1] /\ r[1] <= tail + 1 /\ r = Row(r[1])
<1>1. tail \in Nat /\ head \in Nat /\ localTail \in Nat /\ failures \in Nat /\ tail <= head
  BY DEF DaemonInv, DaemonType, RingOK
<1>2. \A r \in Rows : r[1] \in Nat /\ 1 <= r[1] /\ r = Row(r[1])
  BY BoundAssumption DEF Rows, Row, Events
<1> QED
  BY <1>1, <1>2 DEF DaemonInv, RowsOK

(* Nothing is sent, entered or given back. *)
LEMMA Stutters ==
  ASSUME DaemonInv, head' = head, tail' = tail, ledger' = ledger,
         failures' = failures \/ failures' = failures + 1
  PROVE  [Ledger!Next]_Ledger!lvars
<1>1. Entered' = Entered
  BY DEF Entered
<1> QED
  BY <1>1 DEF Ledger!Next, Ledger!Fail, Ledger!lvars

(* Rows of events up to the tail are entered: that of the tail if nothing  *)
(* has failed.                                                             *)
LEMMA EnterRefines ==
  ASSUME DaemonInv, NEW new, new \subseteq Rows, \A r \in new : r[1] <= tail + 1,
         failures = 0 => new \subseteq {Row(tail + 1)}, tail < head,
         head' = head, tail' = tail, failures' = failures, ledger' = ledger \cup new
  PROVE  [Ledger!Next]_Ledger!lvars
<1>1. Entered' = Entered \cup {r[1] : r \in new}
  BY DEF Entered
<1>2. \A r \in Rows : r[1] \in Nat /\ 1 <= r[1]
  BY BoundAssumption DEF Rows, Row, Events
<1>3. CASE failures > 0
  <2>1. Entered \subseteq 1 .. tail + 1 /\ {r[1] : r \in new} \subseteq 1 .. tail + 1
    BY <1>2, EnteredFacts DEF Entered
  <2>2. Entered \subseteq Entered' /\ Entered' \subseteq 1 .. tail + 1
    BY <1>1, <2>1
  <2> QED
    BY <1>3, <2>2 DEF Ledger!EnterLate, Ledger!Next
<1>4. CASE failures = 0
  <2>1. Row(tail + 1)[1] = tail + 1
    BY DEF Row
  <2>2. {r[1] : r \in new} = {} \/ {r[1] : r \in new} = {tail + 1}
    BY <1>4, <2>1
  <2>3. CASE Entered' = Entered
    BY <2>3 DEF Ledger!lvars
  <2>4. CASE Entered' # Entered
    <3>1. Entered' = Entered \cup {tail + 1} /\ tail + 1 \notin Entered
      BY <1>1, <2>2, <2>4
    <3> QED
      BY <3>1 DEF Ledger!Enter, Ledger!Next
  <2> QED
    BY <2>3, <2>4
<1>5. failures = 0 \/ failures > 0
  BY EnteredFacts
<1> QED
  BY <1>3, <1>4, <1>5

LEMMA InsertRefines ==
  ASSUME DaemonInv, Step
  PROVE  [Ledger!Next]_Ledger!lvars
<1> USE DEF ring
<1>1. /\ pc = "step" /\ UNCHANGED <<head, tail>>
      /\ \/ /\ stmt # "none" /\ failures' = failures
            /\ ledger' = ledger \/ ledger' = ledger \cup {<<trace, events[slot]>>}
         \/ ledger' = ledger /\ (failures' = failures \/ failures' = failures + 1)
  BY DEF Step, Fails
<1>2. localTail = tail /\ tail < head /\ tail \in Nat /\ head \in Nat /\ head <= MaxEvents
  BY <1>1 DEF DaemonInv, DaemonType, RingOK, PlaceOK
<1>3. CASE ledger' = ledger
  BY <1>1, <1>3, Stutters
<1>4. CASE ledger' # ledger
  <2>1. stmt # "none" /\ failures' = failures /\ ledger' = ledger \cup {<<trace, events[slot]>>}
    BY <1>1, <1>4
  <2>2. stmt = "ready"
    BY <1>1, <2>1 DEF DaemonInv, DaemonType, BoundOK
  <2>3. trace = tail + 1 /\ slot = Slot(tail)
    BY <1>1, <1>2, <2>2 DEF DaemonInv, BoundOK
  <2>4. events[slot] = tail + 1
    <3>1. tail \in tail .. head - 1
      BY ONLY <1>2
    <3> QED
      BY <2>3, <3>1 DEF DaemonInv, RingOK
  <2>5. PICK r : r = Row(tail + 1)
    OBVIOUS
  <2>6. r \in Rows /\ r[1] = tail + 1
    <3>1. tail + 1 \in 1 .. MaxEvents
      BY ONLY <1>2, BoundAssumption
    <3> QED
      BY <2>5, <3>1 DEF Rows, Row, Events
  <2>7. PICK new : new = {r}
    OBVIOUS
  <2>8. ledger' = ledger \cup new
    BY <2>1, <2>3, <2>4, <2>5, <2>7 DEF Row
  <2>9. /\ new \subseteq Rows /\ \A x \in new : x[1] <= tail + 1
        /\ new \subseteq {Row(tail + 1)}
    BY <1>2, <2>5, <2>6, <2>7
  <2>10. head' = head /\ tail' = tail /\ failures' = failures /\ tail < head
    BY <1>1, <1>2, <2>1
  <2> QED
    BY ONLY DaemonInv, <2>8, <2>9, <2>10, EnterRefines
<1> QED
  BY <1>3, <1>4

LEMMA CommitRefines ==
  ASSUME DaemonInv, Commit
  PROVE  [Ledger!Next]_Ledger!lvars
<1> USE DEF ring, db
<1>1. /\ pc = "commit" /\ UNCHANGED <<head, tail>>
      /\ \/ ledger' = ledger \cup pending /\ failures' = failures
         \/ ledger' = ledger /\ failures' = failures + 1
  BY DEF Commit, Fails
<1>2. localTail = tail /\ tail < head
  BY <1>1 DEF DaemonInv, PlaceOK
<1>3. pending \subseteq Rows /\ \A r \in pending : r[1] <= tail + 1
  BY DEF DaemonInv, RowsOK
<1>4. failures = 0 => pending \subseteq {Row(tail + 1)}
  BY <1>1, <1>2 DEF DaemonInv, LedgerOK
<1> QED
  BY <1>1, <1>2, <1>3, <1>4, Stutters, EnterRefines

LEMMA StepRefines ==
  ASSUME DaemonInv, [Next]_vars
  PROVE  [Ledger!Next]_Ledger!lvars
<1>1. CASE UNCHANGED vars
  <2>1. UNCHANGED <<head, tail, ledger, failures>>
    BY <1>1 DEF vars, ring, db
  <2> QED
    BY <2>1, Stutters
<1>2. CASE Start \/ Poll \/ Bind \/ Begin \/ Reset \/ Kill
  <2>1. UNCHANGED <<head, tail, ledger>> /\ (failures' = failures \/ failures' = failures + 1)
    BY <1>2 DEF Start, Poll, Bind, Begin, Reset, Kill, Fails, ring, db
  <2> QED
    BY <2>1, Stutters
<1>3. CASE Produce
  <2>1. head - tail < Size /\ head' = head + 1 /\ UNCHANGED <<tail, ledger, failures>>
    BY <1>3 DEF Produce, db
  <2>2. Entered' = Entered
    BY <2>1 DEF Entered
  <2> QED
    BY <2>1, <2>2 DEF Ledger!Send, Ledger!Next
<1>4. CASE Advance
  <2>1. tail' = localTail /\ pc = "advance" /\ UNCHANGED <<head, ledger, failures>>
    BY <1>4 DEF Advance, db
  <2>2. localTail = tail + 1 /\ tail < head /\ (failures = 0 => Row(localTail) \in ledger)
    BY <2>1 DEF DaemonInv, PlaceOK, LedgerOK
  <2>3. Row(localTail)[1] = localTail /\ Entered' = Entered
    BY <2>1 DEF Row, Entered
  <2>4. failures = 0 => tail + 1 \in Entered
    BY <2>2, <2>3 DEF Entered
  <2> QED
    BY <2>1, <2>2, <2>3, <2>4 DEF Ledger!GiveBack, Ledger!Next
<1> QED
  BY <1>1, <1>2, <1>3, <1>4, InsertRefines, CommitRefines DEF Next, Daemon

(* The daemon implements EventLedger across any number of kills: each      *)
(* event is entered once and in its order before it is given back, and     *)
(* failures of SQLite may cost rows, but take none out again.              *)
THEOREM DaemonImplementsLedger == Spec => ImplementsLedger
<1>1. Init => Ledger!Init
  BY DEF Init, Ledger!Init, Entered
<1>2. DaemonInv /\ [Next]_vars => [Ledger!Next]_Ledger!lvars
  BY StepRefines
<1> QED
  BY <1>1, <1>2, DaemonInvariant, PTL DEF Spec, ImplementsLedger, Ledger!Spec
=============================================================================
