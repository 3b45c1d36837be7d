--------------------------- MODULE XdpIngressProofs ---------------------------
(***************************************************************************)
(* Theorems about XdpIngress, for any ring sizes with FillSize <= RxSize,  *)
(* any batch and any number of packets: the types and the bounds of the    *)
(* rings hold, every frame is in exactly one place, and the poll thread    *)
(* reads every packet once, in order, before anything is written over it.  *)
(* The program implements PacketFrames.                                    *)
(*                                                                         *)
(* The argument: the frames the thread holds and those in the RX ring sit  *)
(* in one window of RX positions, from Low to rxProd - 1.  A frame the     *)
(* kernel is about to deliver is in none of them, so the window is shorter *)
(* than FillSize, and its slots are still as the kernel wrote them even    *)
(* where they have been released.                                          *)
(***************************************************************************)
EXTENDS XdpIngress, SequenceTheorems, FiniteSetTheorems, TLAPS

-----------------------------------------------------------------------------
(* Positions and slots. *)

LEMMA Quotient ==
  ASSUME NEW N \in Nat, N > 0, NEW k \in Nat
  PROVE  \E q \in Nat : k = N * q + (k % N)
<1>1. k \div N \in Nat
  OBVIOUS
<1>2. k = N * (k \div N) + (k % N)
  OBVIOUS
<1> QED
  BY <1>1, <1>2

(* Two positions with one slot are at least the size of the ring apart. *)
LEMMA SlotsApart ==
  ASSUME NEW N \in Nat, N > 0, NEW j \in Nat, NEW k \in Nat, j % N = k % N, j < k
  PROVE  j + N <= k
<1>1. PICK a \in Nat : j = N * a + (j % N)
  BY Quotient
<1>2. PICK b \in Nat : k = N * b + (k % N)
  BY Quotient
<1>3. j % N \in 0 .. N - 1
  OBVIOUS
<1>4. N * a \in Nat /\ N * b \in Nat /\ N * b > N * a
  BY <1>1, <1>2, <1>3
<1>5. b > a
  <2> SUFFICES ASSUME b <= a PROVE FALSE
    OBVIOUS
  <2>1. N * b <= N * a
    OBVIOUS
  <2> QED
    BY <2>1, <1>4
<1>6. N * b >= N * (a + 1) /\ N * (a + 1) = N * a + N
  BY <1>5
<1> QED
  BY <1>1, <1>2, <1>3, <1>4, <1>6

LEMMA FillSlots ==
  /\ \A k \in Nat : FillSlot(k) \in 0 .. FillSize - 1
  /\ \A j, k \in Nat : FillSlot(j) = FillSlot(k) /\ j < k => j + FillSize <= k
<1>1. \A k \in Nat : FillSlot(k) \in 0 .. FillSize - 1
  BY SizeAssumption DEF FillSlot
<1>2. ASSUME NEW j \in Nat, NEW k \in Nat, FillSlot(j) = FillSlot(k), j < k
      PROVE  j + FillSize <= k
  <2>1. FillSize \in Nat /\ FillSize > 0 /\ j % FillSize = k % FillSize
    BY <1>2, SizeAssumption DEF FillSlot
  <2> QED
    BY ONLY <1>2, <2>1, SlotsApart
<1> QED
  BY <1>1, <1>2

LEMMA RxSlots ==
  /\ \A k \in Nat : RxSlot(k) \in 0 .. RxSize - 1
  /\ \A j, k \in Nat : RxSlot(j) = RxSlot(k) /\ j < k => j + RxSize <= k
<1>1. \A k \in Nat : RxSlot(k) \in 0 .. RxSize - 1
  BY SizeAssumption DEF RxSlot
<1>2. ASSUME NEW j \in Nat, NEW k \in Nat, RxSlot(j) = RxSlot(k), j < k
      PROVE  j + RxSize <= k
  <2>1. RxSize \in Nat /\ RxSize > 0 /\ j % RxSize = k % RxSize
    BY <1>2, SizeAssumption DEF RxSlot
  <2> QED
    BY ONLY <1>2, <2>1, SlotsApart
<1> QED
  BY <1>1, <1>2

LEMMA MinOfTwo ==
  ASSUME NEW a \in Int, NEW b \in Int
  PROVE  Min({a, b}) \in Int /\ Min({a, b}) <= a /\ Min({a, b}) <= b
<1>1. \E x \in {a, b} : \A y \in {a, b} : x <= y
  OBVIOUS
<1> QED
  BY <1>1 DEF Min

LEMMA RoomFor ==
  /\ \A r \in Int, a, b \in Nat : r <= a - b => b + r <= a
  /\ \A r \in Int, a, b, c \in Nat : r <= c - (a - b) => a + r <= b + c
OBVIOUS

-----------------------------------------------------------------------------
(* The invariant. *)

FillAt(k) == fill[FillSlot(k)]

FillSpan == fillCons .. fillProd - 1
RxSpan == Low .. rxProd - 1

(* Where main and the poll thread can be together. *)
Setup ==
  /\ mpc = "setup" => fillProd = 0
  /\ fillProd = 0 => /\ mpc \in {"setup", "failed"}
                     /\ fillCons = 0 /\ kernel = {} /\ rxProd = 0
  /\ fillProd > 0 => \A s \in 0 .. FillSize - 1 : fill[s] \in Frames
  /\ mpc \in {"setup", "create", "failed"} => pc = "none"
  /\ mpc = "exited" => pc = "ended"
  /\ pc = "none" => rxCons = 0 /\ seen = <<>>

(* Where the poll thread is in its batch and in its refill. *)
BatchOK ==
  /\ pc \in {"peek", "nap"} => Len(seen) = rxCons
  /\ pc = "process" => /\ idx = rxCons /\ idx + rcvd <= rxProd
                       /\ i < rcvd /\ Len(seen) = idx + i
  /\ pc = "release" => /\ idx = rxCons /\ idx + rcvd <= rxProd
                       /\ rcvd > 0 /\ Len(seen) = idx + rcvd
  /\ pc \in Released => /\ idx + rcvd = rxCons /\ filled < rcvd
                        /\ Len(seen) = rxCons
  /\ pc \in {"copy", "submit"} => /\ ret > 0 /\ filled + ret <= rcvd
                                  /\ fillProd + ret <= fillCons + FillSize
  /\ pc = "copy" => i < ret
  /\ pc = "submit" => i = ret

(* A slot of the RX ring that was ever written holds a frame. *)
Written == \A k \in 0 .. rxProd - 1 : RxAt(k) \in Frames

Counted ==
  (fillProd - fillCons) + Cardinality(kernel) + (rxProd - Low) = FillSize

(* No frame is in two places... *)
Apart ==
  /\ \A j, k \in FillSpan : FillAt(j) = FillAt(k) => j = k
  /\ \A j, k \in RxSpan : RxAt(j) = RxAt(k) => j = k
  /\ \A j \in FillSpan : FillAt(j) \notin kernel
  /\ \A k \in RxSpan : RxAt(k) \notin kernel
  /\ \A j \in FillSpan, k \in RxSpan : FillAt(j) # RxAt(k)

(* ... and every frame is in one. *)
Covered ==
  \A f \in Frames :
    \/ f \in kernel
    \/ \E j \in FillSpan : FillAt(j) = f
    \/ \E k \in RxSpan : RxAt(k) = f

(* What the refill has copied and not yet submitted. *)
Copied ==
  pc \in {"copy", "submit"} =>
    \A k \in 0 .. i - 1 : FillAt(fillProd + k) = RxAt(idx + filled + k)

(* The packets the thread has not read, or not given back, are intact. *)
Intact ==
  mpc # "failed" => \A k \in RxSpan : area[RxAt(k)] = k + 1

FramesInv ==
  /\ Apart
  /\ pc # "ended" =>
       /\ fillProd > 0 => Counted /\ Covered
       /\ Copied /\ Intact

IngressInv ==
  /\ TypeOK
  /\ Setup
  /\ BatchOK
  /\ Written
  /\ FramesInv
  /\ PacketsInOrder

LEMMA InitInv == Init => IngressInv
<1> SUFFICES ASSUME Init PROVE IngressInv
  OBVIOUS
<1> USE SizeAssumption DEF Init
<1>1. TypeOK
  BY DEF TypeOK, PollStates, Released, Frames
<1>2. Setup /\ BatchOK /\ Written /\ PacketsInOrder
  BY DEF Setup, BatchOK, Written, PacketsInOrder, Released, Frames
<1>3. FramesInv
  <2>1. FillSpan = {} /\ RxSpan = {}
    BY DEF FillSpan, RxSpan, Low, Released
  <2> QED
    BY <2>1 DEF FramesInv, Apart, Copied, Intact
<1> QED
  BY <1>1, <1>2, <1>3 DEF IngressInv

(* What the steps need of the types. *)
LEMMA TypeFacts ==
  ASSUME IngressInv
  PROVE  /\ FillSize \in Nat /\ FillSize > 0 /\ RxSize \in Nat /\ FillSize <= RxSize
         /\ fillProd \in Nat /\ fillCons \in Nat
         /\ fillCons <= fillProd /\ fillProd <= fillCons + FillSize
         /\ rxProd \in Nat /\ rxCons \in Nat /\ rxCons <= rxProd /\ rxProd <= rxCons + RxSize
         /\ kernel \subseteq Frames
         /\ idx \in Nat /\ rcvd \in Nat /\ filled \in Nat /\ ret \in Nat /\ i \in Nat
         /\ Low \in Nat /\ Low <= rxProd
         /\ Len(seen) \in Nat
BY SizeAssumption DEF IngressInv, TypeOK, BatchOK, Low, Released

LEMMA StepType ==
  ASSUME IngressInv, [Next]_vars
  PROVE  TypeOK'
<1> USE TypeFacts DEF rings, poll, main
<1>0. TypeOK
  BY DEF IngressInv
<1>1. CASE Main
  <2> USE <1>0, <1>1 DEF TypeOK, Garbage
  <2>1. CASE HandleSigint
    BY <2>1 DEF HandleSigint
  <2>2. CASE CreateRing
    <3>1. CASE mpc' = "failed" /\ UNCHANGED <<fill, fillProd>>
      BY <2>2, <3>1 DEF CreateRing
    <3>2. CASE mpc' = "create" /\ fill' = [s \in DOMAIN fill |-> s] /\ fillProd' = FillSize
      <4>1. fillProd = 0 /\ fillCons = 0
        BY <2>2 DEF CreateRing, IngressInv, Setup
      <4>2. fill' \in [0..(FillSize - 1) -> Frames \cup {NoFrame}]
        BY <3>2 DEF Frames
      <4>3. fillProd' \in Nat /\ fillProd' - fillCons \in 0 .. FillSize
        BY <3>2, <4>1
      <4>4. /\ UNCHANGED <<fillCons, kernel, rx, rxProd, rxCons, area, running, cancelled>>
            /\ UNCHANGED <<pc, idx, rcvd, filled, ret, i, seen>>
        BY <2>2 DEF CreateRing
      <4> QED
        BY <3>2, <4>2, <4>3, <4>4
    <3> QED
      BY <2>2, <3>1, <3>2 DEF CreateRing
  <2>3. CASE CreateThread
    BY <2>3 DEF CreateThread, PollStates
  <2>4. CASE Cancel
    BY <2>4 DEF Cancel
  <2>5. CASE JoinAndFree
    BY <2>5 DEF JoinAndFree, FreeArea
  <2> QED
    BY <2>1, <2>2, <2>3, <2>4, <2>5 DEF Main
<1>2. CASE Take
  <2>1. fill[FillSlot(fillCons)] \in Frames
    <3>1. fillProd > 0
      BY <1>2 DEF Take
    <3>2. FillSlot(fillCons) \in 0 .. FillSize - 1
      BY ONLY <1>0, FillSlots DEF TypeOK
    <3> QED
      BY <3>1, <3>2 DEF IngressInv, Setup
  <2>2. kernel' \in SUBSET Frames
    BY <1>0, <1>2, <2>1 DEF Take, TypeOK
  <2>3. fillCons' \in Nat /\ fillProd - fillCons' \in 0 .. FillSize
    <3>1. /\ fillProd \in Nat /\ fillCons \in Nat /\ FillSize \in Nat
          /\ fillCons < fillProd /\ fillProd <= fillCons + FillSize
          /\ fillCons' = fillCons + 1
      BY <1>2 DEF Take
    <3> QED
      BY ONLY <3>1
  <2>4. /\ UNCHANGED <<fill, fillProd, rx, rxProd, rxCons, area>>
        /\ UNCHANGED <<pc, idx, rcvd, filled, ret, i, seen, mpc, running, cancelled>>
    BY <1>2 DEF Take
  <2> QED
    BY <1>0, <2>2, <2>3, <2>4 DEF TypeOK
<1>3. CASE Deliver
  <2> PICK f \in kernel :
        /\ rxProd - rxCons < RxSize
        /\ area' = [area EXCEPT ![f] = rxProd + 1]
        /\ rx' = [rx EXCEPT ![RxSlot(rxProd)] = f]
        /\ rxProd' = rxProd + 1
        /\ kernel' = kernel \ {f}
        /\ UNCHANGED <<fill, fillProd, fillCons, rxCons, poll, main>>
    BY <1>3 DEF Deliver
  <2>1. rx' \in [0..(RxSize - 1) -> Frames \cup {NoFrame}]
    BY <1>0 DEF TypeOK
  <2>2. area' \in [Frames -> Nat \cup {Garbage}]
    BY <1>0 DEF TypeOK
  <2>3. kernel' \in SUBSET Frames
    BY <1>0 DEF TypeOK
  <2>4. rxProd' \in Nat /\ rxCons' \in Nat /\ rxProd' - rxCons' \in 0 .. RxSize
    <3>1. /\ rxProd \in Nat /\ rxCons \in Nat /\ rxCons <= rxProd /\ RxSize \in Nat
          /\ rxProd - rxCons < RxSize /\ rxProd' = rxProd + 1 /\ rxCons' = rxCons
      OBVIOUS
    <3> QED
      BY ONLY <3>1
  <2> QED
    BY <1>0, <2>1, <2>2, <2>3, <2>4 DEF TypeOK
<1>4. CASE Poll
  <2> USE <1>0 DEF TypeOK, PollStates, Released
  <2>1. CASE Peek
    <3>1. CASE pc' = "nap" /\ UNCHANGED <<idx, rcvd, i>>
      BY <2>1, <3>1 DEF Peek
    <3>2. CASE \E n \in 1..Min({Batch, rxProd - rxCons}) :
                 idx' = rxCons /\ rcvd' = n /\ i' = 0 /\ pc' = "process"
      <4>1. Min({Batch, rxProd - rxCons}) \in Int
        <5>1. Batch \in Int /\ rxProd - rxCons \in Int
          BY BatchAssumption
        <5> QED
          BY ONLY <5>1, MinOfTwo
      <4>2. idx' = rxCons /\ rcvd' \in Nat /\ i' = 0 /\ pc' = "process"
        BY <3>2, <4>1
      <4> QED
        BY <2>1, <4>2 DEF Peek
    <3> QED
      BY <2>1, <3>1, <3>2 DEF Peek
  <2>2. CASE Nap
    BY <2>2 DEF Nap
  <2>3. CASE Process
    <3>1. area[rx[RxSlot(idx + i)]] \in Nat \cup {Garbage}
      <4>1. idx + i \in 0 .. rxProd - 1
        BY <2>3 DEF Process, IngressInv, BatchOK
      <4> QED
        BY <4>1 DEF IngressInv, Written, RxAt
    <3>2. Append(seen, area[rx[RxSlot(idx + i)]]) \in Seq(Nat \cup {Garbage})
      BY <3>1
    <3>3. seen' \in Seq(Nat \cup {Garbage})
      BY <2>3, <3>2 DEF Process
    <3>4. i' \in Nat /\ pc' \in PollStates
      BY <2>3 DEF Process
    <3>5. /\ UNCHANGED <<fill, fillProd, fillCons, kernel, rx, rxProd, rxCons, area>>
          /\ UNCHANGED <<idx, rcvd, filled, ret, mpc, running, cancelled>>
      BY <2>3 DEF Process
    <3> QED
      BY <3>3, <3>4, <3>5
  <2>4. CASE Release
    <3>1. idx = rxCons /\ idx + rcvd <= rxProd
      BY <2>4 DEF Release, IngressInv, BatchOK
    <3>2. rxCons + rcvd \in Nat /\ rxProd - (rxCons + rcvd) \in 0 .. RxSize
      BY <3>1
    <3>3. /\ rxCons' = rxCons + rcvd /\ filled' = 0 /\ pc' = "reserve"
          /\ UNCHANGED <<fill, fillProd, fillCons, kernel, rx, rxProd, area>>
          /\ UNCHANGED <<idx, rcvd, ret, i, seen, mpc, running, cancelled>>
      BY <2>4 DEF Release
    <3> QED
      BY <3>2, <3>3
  <2>5. CASE Reserve
    <3>1. rcvd - filled \in Int /\ FillSize - (fillProd - fillCons) \in Int
      OBVIOUS
    <3>2. ret' \in Nat
      BY <2>5, <3>1, MinOfTwo DEF Reserve
    <3> QED
      BY <2>5, <3>2 DEF Reserve
  <2>6. CASE Copy
    <3>1. fill' \in [0..(FillSize - 1) -> Frames \cup {NoFrame}]
      <4>1. rx[RxSlot(idx + filled + i)] \in Frames \cup {NoFrame}
        <5>1. RxSlot(idx + filled + i) \in 0 .. RxSize - 1
          <6>1. idx + filled + i \in Nat
            OBVIOUS
          <6> QED
            BY ONLY <6>1, RxSlots
        <5> QED
          BY <5>1
      <4>2. fill' = [fill EXCEPT ![FillSlot(fillProd + i)] = rx[RxSlot(idx + filled + i)]]
        BY <2>6 DEF Copy
      <4> QED
        BY <4>1, <4>2
    <3>2. i' \in Nat /\ pc' \in PollStates
      BY <2>6 DEF Copy
    <3>3. /\ UNCHANGED <<fillProd, fillCons, kernel, rx, rxProd, rxCons, area>>
          /\ UNCHANGED <<idx, rcvd, filled, ret, seen, mpc, running, cancelled>>
      BY <2>6 DEF Copy
    <3> QED
      BY <3>1, <3>2, <3>3
  <2>7. CASE Submit
    <3>1. /\ fillProd' = fillProd + ret /\ filled' = filled + ret /\ pc' \in {"reserve", "peek"}
          /\ UNCHANGED <<fill, fillCons, kernel, rx, rxProd, rxCons, area, idx, rcvd, ret, i, seen>>
          /\ UNCHANGED <<mpc, running, cancelled>>
      BY <2>7 DEF Submit
    <3>2. fillProd + ret <= fillCons + FillSize
      BY <2>7 DEF Submit, IngressInv, BatchOK
    <3>3. fillProd' \in Nat /\ fillProd' - fillCons' \in 0 .. FillSize /\ filled' \in Nat
      <4>1. /\ fillProd \in Nat /\ fillCons \in Nat /\ fillCons <= fillProd
            /\ ret \in Nat /\ filled \in Nat /\ FillSize \in Nat
        OBVIOUS
      <4> QED
        BY ONLY <3>1, <3>2, <4>1
    <3> QED
      BY <3>1, <3>3
  <2> QED
    BY <1>4, <2>1, <2>2, <2>3, <2>4, <2>5, <2>6, <2>7 DEF Poll
<1>5. CASE UNCHANGED vars
  BY <1>0, <1>5 DEF vars, TypeOK
<1> QED
  BY <1>1, <1>2, <1>3, <1>4, <1>5 DEF Next

-----------------------------------------------------------------------------
(* The places of the frames. *)

(* They change only with the rings and with the window of the poll thread. *)
LEMMA FramesKept ==
  ASSUME IngressInv,
         UNCHANGED <<fill, fillProd, fillCons, kernel, rx, rxProd, area>>,
         Low' \in Nat /\ Low <= Low',
         pc' # "ended" => pc # "ended" /\ Low' = Low /\ Copied',
         mpc' = "failed" \/ mpc # "failed"
  PROVE  FramesInv'
<1>0. Low \in Int /\ rxProd \in Int
  BY TypeFacts
<1>1. /\ FillSpan' = FillSpan /\ RxSpan' \subseteq RxSpan /\ kernel' = kernel
      /\ fillProd' = fillProd /\ fillCons' = fillCons /\ rxProd' = rxProd
      /\ \A k : FillAt(k)' = FillAt(k) /\ RxAt(k)' = RxAt(k) /\ area' = area
  BY <1>0 DEF FillSpan, RxSpan, FillAt, RxAt
<1>2. Apart'
  <2>1. Apart
    BY DEF IngressInv, FramesInv
  <2> QED
    BY <1>1, <2>1 DEF Apart
<1>3. ASSUME pc' # "ended"
      PROVE  /\ fillProd' > 0 => Counted' /\ Covered'
             /\ Copied' /\ Intact'
  <2>0. /\ fillProd > 0 => Counted /\ Covered
        /\ Intact /\ Low' = Low /\ Copied'
    BY <1>3 DEF IngressInv, FramesInv
  <2>1. RxSpan' = RxSpan
    BY <1>1, <2>0 DEF RxSpan
  <2>2. Counted => Counted'
    BY <1>1, <2>0 DEF Counted
  <2>3. Covered => Covered'
    BY <1>1, <2>1 DEF Covered
  <2>4. Intact'
    BY <1>1, <2>0, <2>1 DEF Intact
  <2> QED
    BY <1>1, <2>0, <2>2, <2>3, <2>4
<1> QED
  BY <1>2, <1>3 DEF FramesInv

-----------------------------------------------------------------------------
(* The steps of main and its signal handler. *)

LEMMA MainStep ==
  ASSUME IngressInv, TypeOK', Main
  PROVE  IngressInv'
<1> USE DEF rings, poll, main
<1>0. TypeOK /\ Setup /\ BatchOK /\ Written /\ FramesInv /\ PacketsInOrder
  BY DEF IngressInv
<1>1. CASE HandleSigint \/ Cancel
  <2>1. /\ UNCHANGED <<fill, fillProd, fillCons, kernel, rx, rxProd, rxCons, area>>
        /\ UNCHANGED <<pc, idx, rcvd, filled, ret, i, seen>>
        /\ mpc' = mpc \/ (mpc = "wait" /\ mpc' = "join")
    BY <1>1 DEF HandleSigint, Cancel
  <2>2. Setup' /\ BatchOK' /\ Written' /\ PacketsInOrder'
    <3>1. Setup'
      BY <1>0, <2>1 DEF Setup
    <3>2. BatchOK'
      BY <1>0, <2>1 DEF BatchOK
    <3>3. Written' /\ PacketsInOrder'
      BY <1>0, <2>1 DEF Written, PacketsInOrder, RxAt
    <3> QED
      BY <3>1, <3>2, <3>3
  <2>3. FramesInv'
    <3>1. Low' = Low
      BY <2>1 DEF Low
    <3>2. pc # "ended" => Copied'
      BY <1>0, <2>1 DEF FramesInv, Copied, FillAt, RxAt
    <3> QED
      BY <1>0, <2>1, <3>1, <3>2, FramesKept, TypeFacts
  <2> QED
    BY <2>2, <2>3 DEF IngressInv
<1>2. CASE CreateRing
  <2>0. /\ mpc = "setup" /\ pc = "none" /\ fillProd = 0 /\ fillCons = 0
        /\ kernel = {} /\ rxProd = 0 /\ rxCons = 0 /\ seen = <<>>
        /\ UNCHANGED <<fillCons, kernel, rx, rxProd, rxCons, area>>
        /\ UNCHANGED <<pc, idx, rcvd, filled, ret, i, seen>>
    BY <1>0, <1>2 DEF CreateRing, Setup
  <2>1. BatchOK' /\ Written' /\ PacketsInOrder'
    BY <1>0, <2>0 DEF BatchOK, Written, PacketsInOrder, Released
  <2>2. CASE mpc' = "failed" /\ UNCHANGED <<fill, fillProd>>
    <3>1. Setup'
      BY <1>0, <2>0, <2>2 DEF Setup
    <3>2. Low' = Low /\ Copied'
      BY <2>0 DEF Low, Released, Copied
    <3>3. FramesInv'
      BY <1>0, <2>0, <2>2, <3>2, FramesKept, TypeFacts
    <3> QED
      BY <2>1, <3>1, <3>3 DEF IngressInv
  <2>3. CASE mpc' = "create" /\ fill' = [s \in DOMAIN fill |-> s] /\ fillProd' = FillSize
    <3>0. FillSize \in Nat /\ FillSize > 0
      BY SizeAssumption
    <3>1. \A s \in 0 .. FillSize - 1 : fill'[s] = s
      BY <1>0, <2>3 DEF TypeOK
    <3>2. Setup'
      BY <2>0, <2>3, <3>0, <3>1 DEF Setup, Frames
    <3>3. /\ FillSpan' = 0 .. FillSize - 1 /\ RxSpan' = {}
          /\ kernel' = {} /\ Low' = 0 /\ rxProd' = 0
      BY <2>0, <2>3 DEF FillSpan, RxSpan, Low, Released
    <3>4. \A k \in 0 .. FillSize - 1 : FillAt(k)' = k
      <4>1. \A k \in 0 .. FillSize - 1 : k % FillSize = k
        BY <3>0
      <4> QED
        BY <3>1, <4>1 DEF FillAt, FillSlot
    <3>5. Counted'
      BY <2>0, <2>3, <3>0, <3>3, FS_EmptySet DEF Counted
    <3>6. Covered'
      BY <3>3, <3>4 DEF Covered, Frames
    <3>7. Apart'
      BY <3>3, <3>4 DEF Apart
    <3>8. Copied' /\ Intact'
      BY <2>0, <3>3 DEF Copied, Intact
    <3>9. FramesInv'
      BY <3>5, <3>6, <3>7, <3>8 DEF FramesInv
    <3> QED
      BY <2>1, <3>2, <3>9 DEF IngressInv
  <2> QED
    BY <1>2, <2>2, <2>3 DEF CreateRing
<1>3. CASE CreateThread
  <2>0. /\ mpc = "create" /\ pc = "none" /\ rxCons = 0 /\ seen = <<>> /\ fillProd > 0
        /\ UNCHANGED <<fill, fillProd, fillCons, kernel, rx, rxProd, rxCons, idx,
                       rcvd, filled, ret, i, seen>>
    BY <1>0, <1>3 DEF CreateThread, Setup, TypeOK
  <2>1. \/ pc' = "none" /\ mpc' = "failed"
        \/ pc' = "peek" /\ mpc' = "wait" /\ area' = area
    <3>1. \/ pc' = pc /\ mpc' = "failed"
          \/ pc' = "peek" /\ mpc' = "wait" /\ area' = area
      BY <1>3, Zenon DEF CreateThread
    <3> QED
      BY <2>0, <3>1
  <2>2. Setup'
    BY <1>0, <2>0, <2>1 DEF Setup
  <2>3. BatchOK' /\ Written' /\ PacketsInOrder'
    <3>1. Len(seen) = 0
      BY <2>0
    <3>2. BatchOK'
      BY <2>0, <2>1, <3>1 DEF BatchOK, Released
    <3>3. Written' /\ PacketsInOrder'
      BY <1>0, <2>0 DEF Written, PacketsInOrder, RxAt
    <3> QED
      BY <3>2, <3>3
  <2>4. Low' = Low /\ Copied'
    BY <2>0, <2>1 DEF Low, Released, Copied
  <2>5. FramesInv'
    <3>1. CASE pc' = "peek" /\ mpc' = "wait" /\ area' = area
      BY <1>0, <2>0, <2>4, <3>1, FramesKept, TypeFacts
    <3>2. CASE pc' = "none" /\ mpc' = "failed"
      <4>1. /\ FillSpan' = FillSpan /\ RxSpan' = RxSpan
            /\ \A k : FillAt(k)' = FillAt(k) /\ RxAt(k)' = RxAt(k)
        BY <2>0, <2>4 DEF FillSpan, RxSpan, FillAt, RxAt
      <4>2. Counted /\ Covered /\ Apart
        BY <1>0, <2>0 DEF FramesInv
      <4>3. Counted'
        BY <2>0, <2>4, <4>2 DEF Counted
      <4>4. Covered'
        BY <2>0, <4>1, <4>2 DEF Covered
      <4>5. Apart'
        BY <2>0, <4>1, <4>2 DEF Apart
      <4>6. Intact'
        BY <3>2 DEF Intact
      <4> QED
        BY <2>4, <4>3, <4>4, <4>5, <4>6 DEF FramesInv
    <3> QED
      BY <2>1, <3>1, <3>2
  <2> QED
    BY <2>2, <2>3, <2>5 DEF IngressInv
<1>4. CASE JoinAndFree
  <2>1. /\ pc = "ended" /\ pc' = "ended" /\ mpc = "join" /\ mpc' = "exited"
        /\ UNCHANGED <<fill, fillProd, fillCons, kernel, rx, rxProd, rxCons, idx,
                       rcvd, filled, ret, i, seen>>
    BY <1>4 DEF JoinAndFree, FreeArea
  <2>2. Setup'
    BY <1>0, <2>1 DEF Setup
  <2>3. BatchOK' /\ FramesInv'
    <3>1. BatchOK'
      BY <2>1 DEF BatchOK, Released
    <3>2. /\ FillSpan' = FillSpan /\ RxSpan' = RxSpan /\ kernel' = kernel
          /\ \A k : FillAt(k)' = FillAt(k) /\ RxAt(k)' = RxAt(k)
      BY <2>1 DEF FillSpan, RxSpan, FillAt, RxAt, Low
    <3>3. Apart
      BY <1>0 DEF FramesInv
    <3>4. Apart'
      BY <3>2, <3>3 DEF Apart
    <3> QED
      BY <2>1, <3>1, <3>4 DEF FramesInv
  <2>4. Written' /\ PacketsInOrder'
    BY <1>0, <2>1 DEF Written, PacketsInOrder, RxAt
  <2> QED
    BY <2>2, <2>3, <2>4 DEF IngressInv
<1> QED
  BY <1>1, <1>2, <1>3, <1>4 DEF Main

-----------------------------------------------------------------------------
(* The steps of the kernel. *)

LEMMA KernelFinite ==
  ASSUME IngressInv
  PROVE  IsFiniteSet(kernel) /\ Cardinality(kernel) \in Nat
<1>1. IsFiniteSet(Frames)
  BY FS_Interval, TypeFacts DEF Frames
<1>2. IsFiniteSet(kernel)
  BY <1>1, FS_Subset, TypeFacts
<1> QED
  BY <1>2, FS_CardinalityType

LEMMA TakeStep ==
  ASSUME IngressInv, TypeOK', Take
  PROVE  IngressInv'
<1> DEFINE f == FillAt(fillCons)
<1>0. TypeOK /\ Setup /\ BatchOK /\ Written /\ FramesInv /\ PacketsInOrder
  BY DEF IngressInv
<1>1. /\ fillCons \in Nat /\ fillProd \in Nat /\ fillCons < fillProd /\ FillSize \in Nat
      /\ fillCons' = fillCons + 1 /\ kernel' = kernel \cup {f}
      /\ UNCHANGED <<fill, fillProd, rx, rxProd, rxCons, area>>
      /\ UNCHANGED <<pc, idx, rcvd, filled, ret, i, seen, mpc>>
  BY TypeFacts DEF Take, poll, main, FillAt
<1>2. Setup'
  BY <1>0, <1>1 DEF Setup
<1>3. BatchOK'
  <2>1. ret \in Nat
    BY TypeFacts
  <2> QED
    BY <1>0, <1>1, <2>1 DEF BatchOK
<1>4. Written' /\ PacketsInOrder'
  BY <1>0, <1>1 DEF Written, PacketsInOrder, RxAt
<1>5. Apart
  BY <1>0 DEF FramesInv
<1>6. /\ \A k : FillAt(k)' = FillAt(k) /\ RxAt(k)' = RxAt(k)
      /\ RxSpan' = RxSpan /\ Low' = Low
  BY <1>1 DEF FillAt, RxAt, RxSpan, Low
<1>7. /\ FillSpan' \subseteq FillSpan /\ fillCons \in FillSpan
      /\ \A j \in FillSpan : j = fillCons \/ j \in FillSpan'
      /\ fillCons \notin FillSpan'
  BY <1>1 DEF FillSpan
<1>8. /\ f \notin kernel
      /\ \A j \in FillSpan' : FillAt(j) # f
      /\ \A k \in RxSpan : RxAt(k) # f
  BY <1>5, <1>7 DEF Apart
<1>9. Apart'
  <2> HIDE DEF f
  <2> QED
    BY <1>1, <1>5, <1>6, <1>7, <1>8 DEF Apart
<1>10. ASSUME pc # "ended"
       PROVE  Counted' /\ Covered' /\ Copied' /\ Intact'
  <2>0. Counted /\ Covered /\ Copied /\ Intact
    BY <1>0, <1>1, <1>10 DEF FramesInv
  <2>1. Counted'
    <3>1. Cardinality(kernel') = Cardinality(kernel) + 1
      BY <1>1, <1>8, KernelFinite, FS_AddElement
    <3>2. /\ Cardinality(kernel) \in Nat /\ rxProd \in Nat /\ Low \in Nat
      BY KernelFinite, TypeFacts
    <3> HIDE DEF f
    <3> QED
      BY <1>1, <1>6, <2>0, <3>1, <3>2 DEF Counted
  <2>2. Covered'
    BY <1>1, <1>6, <1>7, <2>0 DEF Covered
  <2>3. Copied' /\ Intact'
    BY <1>1, <1>6, <2>0 DEF Copied, Intact
  <2> QED
    BY <2>1, <2>2, <2>3
<1>11. FramesInv'
  BY <1>1, <1>9, <1>10 DEF FramesInv
<1> QED
  BY <1>2, <1>3, <1>4, <1>11 DEF IngressInv

(* The frame being delivered leaves at most FillSize - 1 to the window, and *)
(* a thread that has ended has no window but the RX ring: the slot the     *)
(* kernel writes is not one of the window's.                               *)
LEMMA WindowIsShort ==
  ASSUME IngressInv, kernel # {}, fillProd > 0, rxProd - rxCons < RxSize
  PROVE  \A k \in RxSpan : RxSlot(k) # RxSlot(rxProd)
<1>0. /\ FillSize \in Nat /\ RxSize \in Nat /\ FillSize <= RxSize
      /\ fillProd \in Nat /\ fillCons \in Nat /\ fillCons <= fillProd
      /\ rxProd \in Nat /\ Low \in Nat
  BY TypeFacts
<1>1. rxProd - Low < RxSize
  <2>1. CASE pc = "ended"
    BY <2>1 DEF Low, Released
  <2>2. CASE pc # "ended"
    <3>1. Cardinality(kernel) \in Nat /\ Cardinality(kernel) > 0
      <4>1. Cardinality(kernel) \in Nat /\ Cardinality(kernel) # 0
        BY KernelFinite, FS_EmptySet
      <4> QED
        BY <4>1
    <3>2. (fillProd - fillCons) + Cardinality(kernel) + (rxProd - Low) = FillSize
      BY <2>2 DEF IngressInv, FramesInv, Counted
    <3> QED
      BY ONLY <1>0, <3>1, <3>2
  <2> QED
    BY <2>1, <2>2
<1> SUFFICES ASSUME NEW k \in RxSpan PROVE RxSlot(k) # RxSlot(rxProd)
  OBVIOUS
<1>2. k \in Nat /\ k < rxProd /\ rxProd < k + RxSize
  BY <1>0, <1>1 DEF RxSpan
<1> QED
  BY <1>0, <1>2, RxSlots

LEMMA DeliverStep ==
  ASSUME IngressInv, TypeOK', Deliver
  PROVE  IngressInv'
<1>0. TypeOK /\ Setup /\ BatchOK /\ Written /\ FramesInv /\ PacketsInOrder
  BY DEF IngressInv
<1> PICK f \in kernel :
      /\ KernelRuns
      /\ rxProd - rxCons < RxSize
      /\ area' = [area EXCEPT ![f] = rxProd + 1]
      /\ rx' = [rx EXCEPT ![RxSlot(rxProd)] = f]
      /\ rxProd' = rxProd + 1
      /\ kernel' = kernel \ {f}
      /\ UNCHANGED <<fill, fillProd, fillCons, rxCons, poll, main>>
  BY DEF Deliver
<1>1. /\ f \in Frames /\ mpc \in {"create", "wait", "join"} /\ fillProd > 0
      /\ rxProd \in Nat /\ Low \in Nat /\ Low <= rxProd
      /\ FillSize \in Nat /\ RxSize \in Nat /\ FillSize <= RxSize
      /\ UNCHANGED <<fill, fillProd, fillCons, rxCons>>
      /\ UNCHANGED <<pc, idx, rcvd, filled, ret, i, seen, mpc>>
  BY <1>0, TypeFacts DEF KernelRuns, poll, main, Setup, TypeOK
<1>2. /\ \A k : k = rxProd => RxAt(k)' = f
      /\ \A k \in Nat : RxSlot(k) # RxSlot(rxProd) => RxAt(k)' = RxAt(k)
      /\ \A k : FillAt(k)' = FillAt(k)
  <2>1. \A k \in Nat : RxSlot(k) \in 0 .. RxSize - 1
    BY RxSlots
  <2>2. rx \in [0 .. RxSize - 1 -> Frames \cup {NoFrame}]
    BY <1>0 DEF TypeOK
  <2> QED
    BY <1>1, <2>1, <2>2 DEF RxAt, FillAt
<1>3. Setup' /\ BatchOK'
  <2>1. Setup'
    BY <1>0, <1>1 DEF Setup
  <2>2. BatchOK'
    <3>1. idx + rcvd \in Nat
      <4>1. idx \in Nat /\ rcvd \in Nat
        BY TypeFacts
      <4> QED
        BY ONLY <4>1
    <3> QED
      BY <1>0, <1>1, <3>1 DEF BatchOK
  <2> QED
    BY <2>1, <2>2
<1>4. Written'
  <2> SUFFICES ASSUME NEW k \in 0 .. rxProd PROVE RxAt(k)' \in Frames
    BY <1>1 DEF Written
  <2>1. CASE RxSlot(k) = RxSlot(rxProd)
    <3>1. RxAt(k)' = rx'[RxSlot(rxProd)]
      BY <2>1 DEF RxAt
    <3>2. rx'[RxSlot(rxProd)] = f
      BY <1>2, <1>1 DEF RxAt
    <3> QED
      BY <1>1, <3>1, <3>2
  <2>2. CASE RxSlot(k) # RxSlot(rxProd)
    <3>1. k \in 0 .. rxProd - 1
      BY <1>1, <2>2
    <3> QED
      BY <1>0, <1>2, <2>2, <3>1 DEF Written
  <2> QED
    BY <2>1, <2>2
<1>5. PacketsInOrder'
  BY <1>0, <1>1 DEF PacketsInOrder
<1>6. Apart
  BY <1>0 DEF FramesInv
<1>7. /\ Cardinality(kernel) \in Nat /\ Cardinality(kernel) > 0
      /\ Cardinality(kernel') = Cardinality(kernel) - 1
  <2>1. Cardinality(kernel) # 0
    BY KernelFinite, FS_EmptySet
  <2>2. Cardinality(kernel \ {f}) = Cardinality(kernel) - 1
    BY KernelFinite, FS_RemoveElement
  <2> QED
    BY <2>1, <2>2, KernelFinite
<1>8. \A k \in RxSpan : RxSlot(k) # RxSlot(rxProd)
  BY <1>1, WindowIsShort
<1>9. /\ FillSpan' = FillSpan /\ Low' = Low
      /\ RxSpan' = Low .. rxProd
      /\ \A k \in RxSpan' : k = rxProd \/ k \in RxSpan
      /\ RxSpan \subseteq Nat /\ RxSpan \subseteq RxSpan' /\ rxProd \in RxSpan'
      /\ rxProd \notin RxSpan
  BY <1>1 DEF FillSpan, RxSpan, Low
<1>10. \A k \in RxSpan : RxAt(k)' = RxAt(k)
  BY <1>2, <1>8, <1>9
<1>11. /\ \A k \in RxSpan : RxAt(k) # f
       /\ \A j \in FillSpan : FillAt(j) # f
  BY <1>6 DEF Apart
<1>12. Apart'
  <2>1. \A j, k \in FillSpan' : FillAt(j)' = FillAt(k)' => j = k
    BY <1>2, <1>6, <1>9 DEF Apart
  <2>2. \A j, k \in RxSpan' : RxAt(j)' = RxAt(k)' => j = k
    <3> SUFFICES ASSUME NEW j \in RxSpan', NEW k \in RxSpan', RxAt(j)' = RxAt(k)'
                 PROVE  j = k
      OBVIOUS
    <3>1. CASE j \in RxSpan /\ k \in RxSpan
      BY <1>6, <1>10, <3>1 DEF Apart
    <3>2. CASE j = rxProd /\ k \in RxSpan
      BY <1>2, <1>10, <1>11, <3>2
    <3>3. CASE j \in RxSpan /\ k = rxProd
      BY <1>2, <1>10, <1>11, <3>3
    <3> QED
      BY <1>9, <3>1, <3>2, <3>3
  <2>3. \A j \in FillSpan' : FillAt(j)' \notin kernel'
    BY <1>2, <1>6, <1>9 DEF Apart
  <2>4. \A k \in RxSpan' : RxAt(k)' \notin kernel'
    BY <1>2, <1>6, <1>9, <1>10 DEF Apart
  <2>5. \A j \in FillSpan', k \in RxSpan' : FillAt(j)' # RxAt(k)'
    BY <1>2, <1>6, <1>9, <1>10, <1>11 DEF Apart
  <2> QED
    BY <2>1, <2>2, <2>3, <2>4, <2>5, Zenon DEF Apart
<1>13. ASSUME pc # "ended"
       PROVE  Counted' /\ Covered' /\ Copied' /\ Intact'
  <2>0. Counted /\ Covered /\ Copied /\ Intact
    BY <1>0, <1>1, <1>13 DEF FramesInv
  <2>1. Counted'
    <3>1. /\ FillSize \in Nat /\ fillProd \in Nat /\ fillCons \in Nat
          /\ rxProd \in Nat /\ Low \in Nat
      BY TypeFacts
    <3>2. (fillProd - fillCons) + Cardinality(kernel) + (rxProd - Low) = FillSize
      BY <2>0 DEF Counted
    <3>3. /\ fillProd' = fillProd /\ fillCons' = fillCons
          /\ Low' = Low /\ rxProd' = rxProd + 1
      BY <1>1, <1>9
    <3>4. (fillProd' - fillCons') + Cardinality(kernel') + (rxProd' - Low') = FillSize
      BY ONLY <1>7, <3>1, <3>2, <3>3
    <3> QED
      BY <3>4 DEF Counted
  <2>2. Covered'
    <3> SUFFICES ASSUME NEW g \in Frames
                 PROVE  \/ g \in kernel'
                        \/ \E j \in FillSpan' : FillAt(j)' = g
                        \/ \E k \in RxSpan' : RxAt(k)' = g
      BY DEF Covered
    <3>1. CASE g = f
      BY <1>2, <1>9, <3>1
    <3>2. CASE g # f /\ g \in kernel
      BY <3>2
    <3>3. CASE \E j \in FillSpan : FillAt(j) = g
      BY <1>2, <1>9, <3>3
    <3>4. CASE \E k \in RxSpan : RxAt(k) = g
      BY <1>9, <1>10, <3>4
    <3> QED
      BY <2>0, <3>1, <3>2, <3>3, <3>4 DEF Covered
  <2>3. Copied'
    <3> SUFFICES ASSUME pc \in {"copy", "submit"}, NEW k \in 0 .. i - 1
                 PROVE  FillAt(fillProd + k)' = RxAt(idx + filled + k)'
      BY <1>1 DEF Copied
    <3>1. idx + filled + k \in RxSpan
      <4>1. /\ i <= ret /\ filled + ret <= rcvd /\ idx + rcvd = rxCons
            /\ Low = idx + filled
        <5>1. i \in Nat /\ ret \in Nat
          BY TypeFacts
        <5> QED
          BY <1>0, <5>1 DEF BatchOK, Low, Released
      <4>2. /\ k \in Nat /\ k < i /\ i \in Nat /\ ret \in Nat /\ filled \in Nat
            /\ rcvd \in Nat /\ idx \in Nat /\ rxCons \in Nat /\ rxCons <= rxProd
            /\ rxProd \in Nat
        BY TypeFacts
      <4> QED
        BY ONLY <4>1, <4>2 DEF RxSpan
    <3>2. FillAt(fillProd + k) = RxAt(idx + filled + k)
      BY <2>0 DEF Copied
    <3>3. \A j : j = idx + filled + k => RxAt(j)' = RxAt(j)
      BY <1>10, <3>1
    <3>4. \A j : j = fillProd + k => FillAt(j)' = FillAt(j)
      BY <1>2
    <3> QED
      BY <1>1, <3>2, <3>3, <3>4
  <2>4. Intact'
    <3> SUFFICES ASSUME NEW k \in RxSpan' PROVE area'[RxAt(k)'] = k + 1
      BY DEF Intact
    <3>1. DOMAIN area = Frames
      BY <1>0 DEF TypeOK
    <3>2. CASE k = rxProd
      <4>1. RxAt(k)' = f
        BY <1>2, <3>2
      <4> QED
        BY <1>1, <3>1, <3>2, <4>1
    <3>3. CASE k \in RxSpan
      <4>1. RxAt(k)' = RxAt(k) /\ RxAt(k) # f
        BY <1>10, <1>11, <3>3
      <4>2. RxAt(k) \in Frames
        <5>1. k \in 0 .. rxProd - 1
          BY <1>1, <3>3 DEF RxSpan
        <5> QED
          BY <1>0, <5>1 DEF Written
      <4>3. area[RxAt(k)] = k + 1
        BY <1>1, <2>0, <3>3 DEF Intact
      <4> QED
        BY <3>1, <4>1, <4>2, <4>3
    <3> QED
      BY <1>9, <3>2, <3>3
  <2> QED
    BY <2>1, <2>2, <2>3, <2>4
<1>14. FramesInv'
  BY <1>1, <1>12, <1>13 DEF FramesInv
<1> QED
  BY <1>3, <1>4, <1>5, <1>14 DEF IngressInv

-----------------------------------------------------------------------------
(* The steps of the poll thread. *)

LEMMA QuietPollStep ==
  ASSUME IngressInv, TypeOK', Peek \/ Nap \/ Process \/ Release \/ Reserve
  PROVE  IngressInv'
<1> USE DEF rings, main
<1>0. TypeOK /\ Setup /\ BatchOK /\ Written /\ FramesInv /\ PacketsInOrder
  BY DEF IngressInv
<1>1. /\ UNCHANGED <<fill, fillProd, fillCons, kernel, rx, rxProd, area, mpc>>
      /\ pc \notin {"none", "ended"} /\ pc' # "none"
  BY DEF Peek, Nap, Process, Release, Reserve
<1>2. Written'
  BY <1>0, <1>1 DEF Written, RxAt
<1>3. mpc \in {"wait", "join"}
  BY <1>0, <1>1 DEF Setup, TypeOK
<1>4. Setup'
  BY <1>0, <1>1, <1>3 DEF Setup
<1>5. ASSUME BatchOK', PacketsInOrder', Low <= Low',
             pc' # "ended" => Low' = Low /\ Copied'
      PROVE  IngressInv'
  <2>1. FramesInv'
    <3>1. Low' \in Nat
      <4>1. idx' \in Nat /\ filled' \in Nat /\ rxCons' \in Nat
        BY DEF TypeOK
      <4>2. Low' = idx' + filled' \/ Low' = rxCons'
        BY DEF Low
      <4> QED
        BY ONLY <4>1, <4>2
    <3> QED
      BY <1>0, <1>1, <1>3, <1>5, <3>1, FramesKept
  <2> QED
    BY <1>2, <1>4, <1>5, <2>1 DEF IngressInv
<1>6. CASE Peek
  <2>0. pc = "peek" /\ UNCHANGED <<rxCons, filled, ret, seen>>
    BY <1>6 DEF Peek
  <2>1. PacketsInOrder'
    BY <1>0, <2>0 DEF PacketsInOrder
  <2>2. CASE pc' = "nap" /\ UNCHANGED <<idx, rcvd, i>>
    <3>1. BatchOK'
      BY <1>0, <2>0, <2>2 DEF BatchOK, Released
    <3>2. Low' = Low /\ Copied'
      BY <2>0, <2>2 DEF Low, Released, Copied
    <3> QED
      BY <1>5, <2>1, <3>1, <3>2, TypeFacts
  <2>3. CASE \E n \in 1..Min({Batch, rxProd - rxCons}) :
               idx' = rxCons /\ rcvd' = n /\ i' = 0 /\ pc' = "process"
    <3>1. PICK n \in 1..Min({Batch, rxProd - rxCons}) :
             idx' = rxCons /\ rcvd' = n /\ i' = 0 /\ pc' = "process"
      BY <2>3
    <3>2. n \in Nat /\ n > 0 /\ n <= rxProd - rxCons
      <4>1. Batch \in Int /\ rxProd - rxCons \in Int
        BY TypeFacts, BatchAssumption
      <4>2. /\ Min({Batch, rxProd - rxCons}) \in Int
            /\ Min({Batch, rxProd - rxCons}) <= rxProd - rxCons
        BY ONLY <4>1, MinOfTwo
      <4> QED
        BY <4>1, <4>2
    <3>3. BatchOK'
      <4>1. rxCons + n <= rxProd /\ rxCons \in Nat /\ Len(seen) = rxCons /\ Len(seen) \in Nat
        <5>1. Len(seen) = rxCons
          BY <1>0, <2>0 DEF BatchOK
        <5>2. rxCons \in Nat /\ rxProd \in Nat
          BY TypeFacts
        <5> QED
          BY ONLY <3>2, <5>1, <5>2
      <4> QED
        BY <1>1, <2>0, <3>1, <3>2, <4>1 DEF BatchOK, Released
    <3>4. Low' = Low /\ Copied'
      BY <2>0, <3>1 DEF Low, Released, Copied
    <3> QED
      BY <1>5, <2>1, <3>3, <3>4, TypeFacts
  <2> QED
    BY <1>6, <2>2, <2>3 DEF Peek
<1>7. CASE Nap
  <2>0. /\ UNCHANGED <<rxCons, idx, rcvd, filled, ret, i, seen>>
        /\ \/ pc = "nap" /\ pc' = "peek"
           \/ pc = "refillnap" /\ pc' = "reserve"
           \/ pc' = "ended"
    BY <1>7 DEF Nap
  <2>1. PacketsInOrder'
    BY <1>0, <2>0 DEF PacketsInOrder
  <2>2. BatchOK'
    BY <1>0, <2>0 DEF BatchOK, Released
  <2>3. pc' # "ended" => Low' = Low /\ Copied'
    BY <2>0 DEF Low, Released, Copied
  <2>4. Low <= Low'
    <3>1. idx \in Nat /\ filled \in Nat /\ rcvd \in Nat /\ rxCons \in Nat
      BY TypeFacts
    <3>2. pc \in Released => idx + filled <= rxCons
      BY <1>0, <3>1 DEF BatchOK
    <3> QED
      BY <2>0, <3>1, <3>2 DEF Low, Released
  <2> QED
    BY <1>5, <2>1, <2>2, <2>3, <2>4
<1>8. CASE Process
  <2>0. /\ pc = "process" /\ UNCHANGED <<rxCons, idx, rcvd, filled, ret>>
        /\ i' = i + 1
        /\ seen' = Append(seen, area[RxAt(idx + i)])
        /\ pc' = "ended" \/ pc' = IF i + 1 < rcvd THEN "process" ELSE "release"
    BY <1>8 DEF Process, RxAt
  <2>1. /\ idx = rxCons /\ idx + rcvd <= rxProd /\ i < rcvd /\ Len(seen) = idx + i
        /\ idx \in Nat /\ i \in Nat /\ rcvd \in Nat /\ rxProd \in Nat
    BY <1>0, <2>0, TypeFacts DEF BatchOK
  <2>2. area[RxAt(idx + i)] = idx + i + 1
    <3>1. idx + i \in RxSpan
      BY <2>0, <2>1 DEF RxSpan, Low, Released
    <3>2. Intact
      BY <1>0, <2>0 DEF FramesInv
    <3> QED
      BY <1>3, <3>1, <3>2 DEF Intact
  <2>3. /\ seen \in Seq(Nat \cup {Garbage}) /\ idx + i + 1 \in Nat \cup {Garbage}
        /\ seen' = Append(seen, idx + i + 1)
    BY <1>0, <2>0, <2>1, <2>2 DEF TypeOK
  <2>4. /\ Len(seen') = idx + i + 1
        /\ DOMAIN seen = 1 .. idx + i /\ DOMAIN seen' = 1 .. idx + i + 1
        /\ \A k \in 1 .. idx + i : seen'[k] = seen[k]
        /\ seen'[idx + i + 1] = idx + i + 1
    BY <2>1, <2>3
  <2>5. PacketsInOrder'
    BY <1>0, <2>1, <2>4 DEF PacketsInOrder
  <2>6. BatchOK'
    <3>1. i + 1 < rcvd \/ i + 1 = rcvd
      BY <2>1
    <3>2. CASE pc' = "ended"
      BY <3>2 DEF BatchOK, Released
    <3>3. CASE pc' = "process" /\ i + 1 < rcvd
      BY <1>1, <2>0, <2>1, <2>4, <3>3 DEF BatchOK, Released
    <3>4. CASE pc' = "release" /\ i + 1 = rcvd
      BY <1>1, <2>0, <2>1, <2>4, <3>4 DEF BatchOK, Released
    <3> QED
      BY <2>0, <2>1, <3>1, <3>2, <3>3, <3>4
  <2>7. Low' = Low /\ Copied'
    BY <2>0 DEF Low, Released, Copied
  <2> QED
    BY <1>5, <2>5, <2>6, <2>7, TypeFacts
<1>9. CASE Release
  <2>0. /\ pc = "release" /\ pc' = "reserve" /\ UNCHANGED <<idx, rcvd, ret, i, seen>>
        /\ rxCons' = rxCons + rcvd /\ filled' = 0
    BY <1>9 DEF Release
  <2>1. /\ idx = rxCons /\ idx + rcvd <= rxProd /\ rcvd > 0 /\ Len(seen) = idx + rcvd
        /\ idx \in Nat /\ rcvd \in Nat
    BY <1>0, <2>0, TypeFacts DEF BatchOK
  <2>2. PacketsInOrder'
    BY <1>0, <2>0 DEF PacketsInOrder
  <2>3. BatchOK'
    BY <2>0, <2>1 DEF BatchOK, Released
  <2>4. Low' = Low /\ Copied'
    BY <2>0, <2>1 DEF Low, Released, Copied
  <2> QED
    BY <1>5, <2>2, <2>3, <2>4, TypeFacts
<1>10. CASE Reserve
  <2>0. /\ pc = "reserve" /\ UNCHANGED <<rxCons, idx, rcvd, filled, seen>>
        /\ ret' \in 0..Min({rcvd - filled, FillSize - (fillProd - fillCons)})
        /\ i' = 0
        /\ \/ ret' > 0 /\ pc' = "copy"
           \/ pc' = "refillnap"
    BY <1>10 DEF Reserve
  <2>1. /\ ret' \in Nat /\ filled + ret' <= rcvd
        /\ fillProd + ret' <= fillCons + FillSize
    <3>1. rcvd - filled \in Int /\ FillSize - (fillProd - fillCons) \in Int
      BY TypeFacts
    <3>2. /\ Min({rcvd - filled, FillSize - (fillProd - fillCons)}) \in Int
          /\ Min({rcvd - filled, FillSize - (fillProd - fillCons)}) <= rcvd - filled
          /\ Min({rcvd - filled, FillSize - (fillProd - fillCons)})
               <= FillSize - (fillProd - fillCons)
      BY ONLY <3>1, MinOfTwo
    <3>3. /\ ret' \in Int /\ ret' >= 0 /\ ret' <= rcvd - filled
          /\ ret' <= FillSize - (fillProd - fillCons)
      BY ONLY <2>0, <3>1, <3>2
    <3> QED
      <4>1. /\ rcvd \in Nat /\ filled \in Nat
            /\ fillProd \in Nat /\ fillCons \in Nat /\ FillSize \in Nat
        BY TypeFacts
      <4>2. ret' \in Nat
        BY ONLY <3>3
      <4>3. filled + ret' <= rcvd
        BY ONLY <3>3, <4>1, RoomFor
      <4>4. fillProd + ret' <= fillCons + FillSize
        BY ONLY <3>3, <4>1, RoomFor
      <4> QED
        BY ONLY <4>2, <4>3, <4>4
  <2>2. PacketsInOrder'
    BY <1>0, <2>0 DEF PacketsInOrder
  <2>3. BatchOK'
    <3>1. idx + rcvd = rxCons /\ filled < rcvd /\ Len(seen) = rxCons
      BY <1>0, <2>0 DEF BatchOK, Released
    <3> QED
      BY <1>1, <2>0, <2>1, <3>1 DEF BatchOK, Released
  <2>4. Low' = Low
    BY <2>0 DEF Low, Released
  <2>5. Copied'
    BY <2>0 DEF Copied
  <2> QED
    BY <1>5, <2>2, <2>3, <2>4, <2>5, TypeFacts
<1> QED
  BY <1>6, <1>7, <1>8, <1>9, <1>10

LEMMA CopyStep ==
  ASSUME IngressInv, TypeOK', Copy
  PROVE  IngressInv'
<1>0. TypeOK /\ Setup /\ BatchOK /\ Written /\ FramesInv /\ PacketsInOrder
  BY DEF IngressInv
<1>1. /\ pc = "copy" /\ fill' = [fill EXCEPT ![FillSlot(fillProd + i)] = RxAt(idx + filled + i)]
      /\ i' = i + 1
      /\ \/ pc' = "copy" /\ i + 1 < ret
         \/ pc' = "submit" /\ ~ (i + 1 < ret)
      /\ UNCHANGED <<fillProd, fillCons, kernel, rx, rxProd, rxCons, area, idx,
                     rcvd, filled, ret, seen, mpc>>
  BY DEF Copy, main, RxAt
<1>2. /\ i < ret /\ filled + ret <= rcvd /\ idx + rcvd = rxCons
      /\ fillProd + ret <= fillCons + FillSize
      /\ filled < rcvd /\ Len(seen) = rxCons
      /\ Low = idx + filled
  BY <1>0, <1>1 DEF BatchOK, Released, Low
<1>3. /\ i \in Nat /\ ret \in Nat /\ rcvd \in Nat /\ filled \in Nat /\ idx \in Nat
      /\ fillProd \in Nat /\ fillCons \in Nat /\ fillCons <= fillProd
      /\ rxCons \in Nat /\ rxProd \in Nat /\ rxCons <= rxProd /\ FillSize \in Nat
  BY TypeFacts
<1>4. RxAt(idx + filled + i) \in Frames
  <2>1. idx + filled + i \in 0 .. rxProd - 1
    BY ONLY <1>2, <1>3
  <2> QED
    BY <1>0, <2>1 DEF Written
<1>5. Setup'
  <2>1. \A s \in 0 .. FillSize - 1 : fill[s] \in Frames => fill'[s] \in Frames
    BY <1>0, <1>1, <1>4 DEF TypeOK
  <2> QED
    BY <1>0, <1>1, <2>1 DEF Setup
<1>6. BatchOK'
  <2>1. i + 1 < ret \/ i + 1 = ret
    BY ONLY <1>2, <1>3
  <2> QED
    BY <1>0, <1>1, <1>2, <2>1 DEF BatchOK, Released
<1>7. Written' /\ PacketsInOrder'
  BY <1>0, <1>1 DEF Written, PacketsInOrder, RxAt
<1>8. Counted /\ Covered /\ Apart /\ Copied /\ Intact
  <2>1. fillProd > 0
    BY <1>0, <1>1, <1>3 DEF Setup
  <2> QED
    BY <1>0, <1>1, <2>1 DEF FramesInv
<1>9. /\ FillSpan' = FillSpan /\ RxSpan' = RxSpan /\ Low' = Low
      /\ \A k : RxAt(k)' = RxAt(k)
  BY <1>1 DEF FillSpan, RxSpan, Low, Released, RxAt
(* The slot written is outside the ring and was not written before. *)
<1>10. \A k \in fillCons .. fillProd + i - 1 : FillAt(k)' = FillAt(k)
  <2> SUFFICES ASSUME NEW k \in fillCons .. fillProd + i - 1
               PROVE  FillSlot(k) # FillSlot(fillProd + i)
    BY <1>0, <1>1, FillSlots DEF FillAt, TypeOK
  <2>1. k \in Nat /\ fillProd + i \in Nat /\ k < fillProd + i /\ ~ (k + FillSize <= fillProd + i)
    BY ONLY <1>2, <1>3
  <2> QED
    BY ONLY <2>1, FillSlots
<1>11. \A k : k = fillProd + i => FillAt(k)' = RxAt(idx + filled + i)
  <2>1. FillSlot(fillProd + i) \in 0 .. FillSize - 1
    <3>1. fillProd + i \in Nat
      BY ONLY <1>3
    <3> QED
      BY ONLY <3>1, FillSlots
  <2> QED
    BY <1>0, <1>1, <2>1 DEF FillAt, TypeOK
<1>12. \A k \in FillSpan : FillAt(k)' = FillAt(k)
  <2>1. FillSpan \subseteq fillCons .. fillProd + i - 1
    BY ONLY <1>3 DEF FillSpan
  <2> QED
    BY <1>10, <2>1
<1>13. Counted'
  BY <1>1, <1>8, <1>9 DEF Counted
<1>14. Covered'
  BY <1>1, <1>8, <1>9, <1>12 DEF Covered
<1>15. Apart'
  BY <1>1, <1>8, <1>9, <1>12 DEF Apart
<1>16. Intact'
  BY <1>1, <1>8, <1>9 DEF Intact
<1>17. Copied'
  <2> SUFFICES ASSUME NEW k \in 0 .. i
               PROVE  FillAt(fillProd + k)' = RxAt(idx + filled + k)'
    BY <1>1, <1>3 DEF Copied
  <2>1. CASE k = i
    BY <1>1, <1>9, <1>11, <2>1
  <2>2. CASE k # i
    <3>1. k \in 0 .. i - 1 /\ fillProd + k \in fillCons .. fillProd + i - 1
      BY ONLY <1>3, <2>2
    <3>2. FillAt(fillProd + k) = RxAt(idx + filled + k)
      BY <1>1, <1>8, <3>1 DEF Copied
    <3>3. \A j : j = fillProd + k => FillAt(j)' = FillAt(j)
      BY <1>10, <3>1
    <3> QED
      BY <1>1, <1>9, <3>2, <3>3
  <2> QED
    BY <2>1, <2>2
<1>18. FramesInv'
  BY <1>13, <1>14, <1>15, <1>16, <1>17 DEF FramesInv
<1> QED
  BY <1>5, <1>6, <1>7, <1>18 DEF IngressInv

LEMMA SubmitStep ==
  ASSUME IngressInv, TypeOK', Submit
  PROVE  IngressInv'
<1>0. TypeOK /\ Setup /\ BatchOK /\ Written /\ FramesInv /\ PacketsInOrder
  BY DEF IngressInv
<1>1. /\ pc = "submit" /\ fillProd' = fillProd + ret /\ filled' = filled + ret
      /\ \/ pc' = "reserve" /\ filled + ret < rcvd
         \/ pc' = "peek" /\ ~ (filled + ret < rcvd)
      /\ UNCHANGED <<fill, fillCons, kernel, rx, rxProd, rxCons, area, idx, rcvd,
                     ret, i, seen, mpc>>
  BY DEF Submit, main
<1>2. /\ i = ret /\ ret > 0 /\ filled + ret <= rcvd /\ idx + rcvd = rxCons
      /\ Len(seen) = rxCons /\ Low = idx + filled
  BY <1>0, <1>1 DEF BatchOK, Released, Low
<1>3. /\ ret \in Nat /\ rcvd \in Nat /\ filled \in Nat /\ idx \in Nat
      /\ fillProd \in Nat /\ fillCons \in Nat /\ fillCons <= fillProd
      /\ rxCons \in Nat /\ rxProd \in Nat /\ rxCons <= rxProd
  BY TypeFacts
<1>4. fillProd > 0
  BY <1>0, <1>1, <1>3 DEF Setup
<1>5. Setup'
  BY <1>0, <1>1, <1>3, <1>4 DEF Setup
<1>6. BatchOK'
  BY <1>1, <1>2 DEF BatchOK, Released
<1>7. Written' /\ PacketsInOrder'
  BY <1>0, <1>1 DEF Written, PacketsInOrder, RxAt
<1>8. Counted /\ Covered /\ Apart /\ Copied /\ Intact
  BY <1>0, <1>1, <1>4 DEF FramesInv
<1>9. Low' = Low + ret
  <2>1. CASE pc' = "reserve"
    BY <1>1, <1>2, <1>3, <2>1 DEF Low, Released
  <2>2. CASE pc' = "peek"
    <3>1. Low' = rxCons /\ filled + ret = rcvd
      BY <1>1, <1>2, <1>3, <2>2 DEF Low, Released
    <3> QED
      BY <1>2, <1>3, <3>1
  <2> QED
    BY <1>1, <2>1, <2>2
<1>10. \A k : FillAt(k)' = FillAt(k) /\ RxAt(k)' = RxAt(k)
  BY <1>1 DEF FillAt, RxAt
(* The positions of the part move from the RX window to the fill ring. *)
<1>11. /\ RxSpan' \subseteq RxSpan /\ FillSpan \subseteq FillSpan'
       /\ \A j \in FillSpan' : j \in FillSpan \/ \E m \in 0 .. ret - 1 : j = fillProd + m
       /\ \A k \in RxSpan : k \in RxSpan' \/ \E m \in 0 .. ret - 1 : k = Low + m
       /\ \A m \in 0 .. ret - 1 : /\ fillProd + m \in FillSpan'
                                  /\ Low + m \in RxSpan
                                  /\ Low + m \notin RxSpan'
  <2>1. Low \in Nat /\ Low + ret <= rxCons
    BY ONLY <1>2, <1>3
  <2>2. /\ FillSpan' = fillCons .. fillProd + ret - 1
        /\ RxSpan' = Low + ret .. rxProd - 1
    <3>1. FillSpan' = fillCons' .. fillProd' - 1 /\ RxSpan' = Low' .. rxProd' - 1
      BY DEF FillSpan, RxSpan
    <3>2. fillCons' = fillCons /\ fillProd' = fillProd + ret /\ rxProd' = rxProd
      BY <1>1
    <3> QED
      BY ONLY <1>3, <1>9, <2>1, <3>1, <3>2
  <2>a. FillSpan = fillCons .. fillProd - 1 /\ RxSpan = Low .. rxProd - 1
    BY DEF FillSpan, RxSpan
  <2>3. /\ RxSpan' \subseteq RxSpan /\ FillSpan \subseteq FillSpan'
    BY ONLY <1>3, <2>1, <2>2, <2>a
  <2>4. ASSUME NEW j \in FillSpan'
        PROVE  j \in FillSpan \/ \E m \in 0 .. ret - 1 : j = fillProd + m
    <3>1. CASE j < fillProd
      BY ONLY <1>3, <2>2, <2>a, <2>4, <3>1
    <3>2. CASE ~ (j < fillProd)
      <4>1. j - fillProd \in 0 .. ret - 1 /\ j = fillProd + (j - fillProd)
        BY ONLY <1>3, <2>2, <2>4, <3>2
      <4> QED
        BY <4>1
    <3> QED
      BY <3>1, <3>2
  <2>5. ASSUME NEW k \in RxSpan
        PROVE  k \in RxSpan' \/ \E m \in 0 .. ret - 1 : k = Low + m
    <3>1. CASE k < Low + ret
      <4>1. k - Low \in 0 .. ret - 1 /\ k = Low + (k - Low)
        BY ONLY <1>3, <2>1, <2>a, <2>5, <3>1
      <4> QED
        BY <4>1
    <3>2. CASE ~ (k < Low + ret)
      BY ONLY <1>3, <2>1, <2>2, <2>a, <2>5, <3>2
    <3> QED
      BY <3>1, <3>2
  <2>6. \A m \in 0 .. ret - 1 : /\ fillProd + m \in FillSpan'
                                /\ Low + m \in RxSpan
                                /\ Low + m \notin RxSpan'
    BY ONLY <1>3, <2>1, <2>2, <2>a
  <2> QED
    BY <2>3, <2>4, <2>5, <2>6
<1>12. \A m \in 0 .. ret - 1 : FillAt(fillProd + m) = RxAt(Low + m)
  BY <1>1, <1>2, <1>8 DEF Copied
<1>13. Counted'
  <2>1. Cardinality(kernel) \in Nat /\ Low \in Nat
    BY KernelFinite, TypeFacts
  <2> QED
    BY <1>1, <1>3, <1>8, <1>9, <2>1 DEF Counted
<1>14. Covered'
  <2> SUFFICES ASSUME NEW f \in Frames
               PROVE  \/ f \in kernel'
                      \/ \E j \in FillSpan' : FillAt(j)' = f
                      \/ \E k \in RxSpan' : RxAt(k)' = f
    BY DEF Covered
  <2>1. CASE f \in kernel
    BY <1>1, <2>1
  <2>2. CASE \E j \in FillSpan : FillAt(j) = f
    BY <1>10, <1>11, <2>2
  <2>3. ASSUME NEW k \in RxSpan, RxAt(k) = f
        PROVE  \/ \E j \in FillSpan' : FillAt(j)' = f
               \/ \E j \in RxSpan' : RxAt(j)' = f
    <3>1. CASE k \in RxSpan'
      BY <1>10, <2>3, <3>1
    <3>2. ASSUME NEW m \in 0 .. ret - 1, k = Low + m
          PROVE  \E j \in FillSpan' : FillAt(j)' = f
      <4>1. \A j : FillAt(j)' = FillAt(j)
        BY <1>10
      <4>2. fillProd + m \in FillSpan' /\ FillAt(fillProd + m) = f
        BY <1>11, <1>12, <2>3, <3>2
      <4> QED
        BY <4>1, <4>2
    <3> QED
      BY <1>11, <3>1, <3>2
  <2> QED
    BY <1>8, <2>1, <2>2, <2>3 DEF Covered
<1>15. Apart'
  <2>1. /\ \A j, k \in FillSpan : FillAt(j) = FillAt(k) => j = k
        /\ \A j, k \in RxSpan : RxAt(j) = RxAt(k) => j = k
        /\ \A j \in FillSpan : FillAt(j) \notin kernel
        /\ \A k \in RxSpan : RxAt(k) \notin kernel
        /\ \A j \in FillSpan, k \in RxSpan : FillAt(j) # RxAt(k)
    BY <1>8 DEF Apart
  <2>2. Low \in Nat
    BY TypeFacts
  <2>3. \A j, k \in FillSpan' : FillAt(j) = FillAt(k) => j = k
    <3> SUFFICES ASSUME NEW j \in FillSpan', NEW k \in FillSpan', FillAt(j) = FillAt(k)
                 PROVE  j = k
      OBVIOUS
    <3>1. CASE j \in FillSpan /\ k \in FillSpan
      BY <2>1, <3>1
    <3>2. ASSUME j \in FillSpan, NEW m \in 0 .. ret - 1, k = fillProd + m PROVE FALSE
      BY <1>11, <1>12, <2>1, <3>2
    <3>3. ASSUME k \in FillSpan, NEW m \in 0 .. ret - 1, j = fillProd + m PROVE FALSE
      BY <1>11, <1>12, <2>1, <3>3
    <3>4. ASSUME NEW m \in 0 .. ret - 1, NEW n \in 0 .. ret - 1,
                 j = fillProd + m, k = fillProd + n
          PROVE  j = k
      <4>1. RxAt(Low + m) = RxAt(Low + n)
        BY <1>12, <3>4
      <4>2. Low + m = Low + n
        BY <1>11, <2>1, <4>1
      <4> QED
        BY ONLY <2>2, <3>4, <4>2
    <3> QED
      BY <1>11, <3>1, <3>2, <3>3, <3>4
  <2>4. \A j \in FillSpan' : FillAt(j) \notin kernel
    BY <1>11, <1>12, <2>1
  <2>5. \A j \in FillSpan', k \in RxSpan' : FillAt(j) # RxAt(k)
    <3> SUFFICES ASSUME NEW j \in FillSpan', NEW k \in RxSpan', FillAt(j) = RxAt(k)
                 PROVE  FALSE
      OBVIOUS
    <3>1. k \in RxSpan
      BY <1>11
    <3>2. CASE j \in FillSpan
      BY <2>1, <3>1, <3>2
    <3>3. ASSUME NEW m \in 0 .. ret - 1, j = fillProd + m PROVE FALSE
      <4>1. RxAt(Low + m) = RxAt(k)
        BY <1>12, <3>3
      <4>2. Low + m = k
        BY <1>11, <2>1, <3>1, <4>1
      <4> QED
        BY <1>11, <4>2
    <3> QED
      BY <1>11, <3>2, <3>3
  <2> QED
    BY <1>1, <1>10, <1>11, <2>1, <2>3, <2>4, <2>5 DEF Apart
<1>16. Intact'
  BY <1>1, <1>8, <1>10, <1>11 DEF Intact
<1>17. Copied'
  BY <1>1 DEF Copied
<1>18. FramesInv'
  BY <1>13, <1>14, <1>15, <1>16, <1>17 DEF FramesInv
<1> QED
  BY <1>5, <1>6, <1>7, <1>18 DEF IngressInv

LEMMA StepInv == IngressInv /\ [Next]_vars => IngressInv'
<1> SUFFICES ASSUME IngressInv, [Next]_vars PROVE IngressInv'
  OBVIOUS
<1>1. TypeOK'
  BY StepType
<1>2. CASE Poll
  BY <1>1, <1>2, QuietPollStep, CopyStep, SubmitStep DEF Poll
<1>3. CASE UNCHANGED vars
  <2> USE <1>3 DEF vars, rings, poll, main
  <2>1. Setup' /\ BatchOK' /\ Written' /\ PacketsInOrder'
    BY DEF IngressInv, Setup, BatchOK, Written, PacketsInOrder, RxAt
  <2>2. FramesInv'
    <3>1. Low' = Low
      BY DEF Low
    <3>2. pc # "ended" => Copied'
      BY DEF IngressInv, FramesInv, Copied, FillAt, RxAt
    <3> QED
      BY <3>1, <3>2, FramesKept, TypeFacts
  <2> QED
    BY <1>1, <2>1, <2>2 DEF IngressInv
<1> QED
  BY <1>1, <1>2, <1>3, MainStep, TakeStep, DeliverStep DEF Next

LEMMA IngressInvariant == Spec => []IngressInv
<1> QED
  BY InitInv, StepInv, PTL DEF Spec

-----------------------------------------------------------------------------
(* The theorems. *)

(* The types and the bounds of both rings: neither side passes the other.  *)
THEOREM IngressTypeCorrect == Spec => []TypeOK
<1>1. IngressInv => TypeOK
  BY DEF IngressInv
<1> QED
  BY <1>1, IngressInvariant, PTL

(* Every frame of the area is in exactly one place, in every state of a    *)
(* program that is not ending: none is lost to it, none is given to the    *)
(* kernel twice, although the refill reads slots it has released.          *)
THEOREM EveryFrameInOnePlace == Spec => []FramesConserved
<1>1. IngressInv => FramesConserved
  <2> SUFFICES ASSUME IngressInv, pc # "ended", fillProd > 0
               PROVE  /\ InFill \cup kernel \cup InRx \cup InPoll = Frames
                      /\ (fillProd - fillCons) + Cardinality(kernel) + (rxProd - rxCons) + Held
                           = FillSize
    BY DEF FramesConserved
  <2>1. Counted /\ Covered /\ Written /\ BatchOK
    BY DEF IngressInv, FramesInv
  <2>2. /\ fillProd \in Nat /\ fillCons \in Nat /\ rxProd \in Nat /\ rxCons \in Nat
        /\ rxCons <= rxProd /\ idx \in Nat /\ rcvd \in Nat /\ filled \in Nat
        /\ Low \in Nat /\ Low <= rxProd /\ FillSize \in Nat
        /\ Cardinality(kernel) \in Nat
    BY TypeFacts, KernelFinite
  <2>3. /\ Held \in Nat /\ Low + Held = rxCons
        /\ Held > 0 => Low = idx + filled
    BY <2>1, <2>2 DEF Held, Low, BatchOK
  <2>4. InPoll = {RxAt(k) : k \in Low .. rxCons - 1}
    <3>1. CASE Held = 0
      BY <2>2, <2>3, <3>1 DEF InPoll
    <3>2. CASE Held > 0
      <4>1. InPoll = {RxAt(Low + k) : k \in 0 .. Held - 1}
        BY <2>3, <3>2 DEF InPoll, RxAt
      <4>2. \A k \in 0 .. Held - 1 : Low + k \in Low .. rxCons - 1
        BY <2>2, <2>3
      <4>3. \A k \in Low .. rxCons - 1 : k - Low \in 0 .. Held - 1 /\ k = Low + (k - Low)
        BY <2>2, <2>3
      <4>4. ASSUME NEW f \in InPoll PROVE f \in {RxAt(k) : k \in Low .. rxCons - 1}
        BY <4>1, <4>2, <4>4
      <4>5. ASSUME NEW k \in Low .. rxCons - 1 PROVE RxAt(k) \in InPoll
        <5>1. RxAt(k) = RxAt(Low + (k - Low)) /\ k - Low \in 0 .. Held - 1
          BY <4>3
        <5> QED
          BY <4>1, <5>1
      <4> QED
        BY <4>4, <4>5
    <3> QED
      BY <2>3, <3>1, <3>2
  <2>5. InRx \cup InPoll = {RxAt(k) : k \in RxSpan}
    <3>1. RxSpan = (Low .. rxCons - 1) \cup (rxCons .. rxProd - 1)
      BY <2>2, <2>3 DEF RxSpan
    <3>2. InRx = {RxAt(k) : k \in rxCons .. rxProd - 1}
      BY DEF InRx, RxAt
    <3> QED
      BY <2>4, <3>1, <3>2
  <2>6. InFill = {FillAt(k) : k \in FillSpan}
    BY DEF InFill, FillAt, FillSpan
  <2>7. InFill \cup kernel \cup InRx \cup InPoll \subseteq Frames
    <3>1. \A k \in RxSpan : RxAt(k) \in Frames
      <4>1. RxSpan \subseteq 0 .. rxProd - 1
        BY <2>2 DEF RxSpan
      <4> QED
        BY <2>1, <4>1 DEF Written
    <3>2. \A k \in FillSpan : FillAt(k) \in Frames
      <4>1. FillSpan \subseteq Nat
        BY <2>2 DEF FillSpan
      <4>2. \A k \in Nat : FillSlot(k) \in 0 .. FillSize - 1
        BY FillSlots
      <4> QED
        BY <4>1, <4>2 DEF FillAt, IngressInv, Setup
    <3>3. kernel \subseteq Frames
      BY TypeFacts
    <3> QED
      BY <2>5, <2>6, <3>1, <3>2, <3>3
  <2>8. Frames \subseteq InFill \cup kernel \cup InRx \cup InPoll
    BY <2>1, <2>5, <2>6 DEF Covered
  <2>9. (fillProd - fillCons) + Cardinality(kernel) + (rxProd - rxCons) + Held = FillSize
    BY <2>1, <2>2, <2>3 DEF Counted
  <2> QED
    BY <2>7, <2>8, <2>9
<1> QED
  BY <1>1, IngressInvariant, PTL

(* The poll thread reads every packet once and in the order of delivery,   *)
(* none overwritten before it was read, none in an area main has freed.    *)
THEOREM PacketsReadInOrder == Spec => []PacketsInOrder
<1>1. IngressInv => PacketsInOrder
  BY DEF IngressInv
<1> QED
  BY <1>1, IngressInvariant, PTL

-----------------------------------------------------------------------------
(* The frames and their packets: the refinement of PacketFrames. *)

(* A step that leaves the window alone. *)
LEMMA Stutters ==
  ASSUME UNCHANGED <<rx, rxProd, seen>>, Low' = Low
  PROVE  UNCHANGED Window!fvars
<1>1. \A k : RxAt(k)' = RxAt(k)
  BY DEF RxAt
<1> QED
  BY <1>1 DEF Window!fvars

(* A step after which fewer of the packets that were read are needed. *)
LEMMA ShrinkRefines ==
  ASSUME IngressInv, UNCHANGED <<rx, rxProd, seen>>,
         NEW m \in Nat, Low' = Low + m, Low' <= Len(seen)
  PROVE  [Window!Next]_Window!fvars
<1>0. Low \in Nat /\ rxProd \in Nat /\ Len(seen) \in Nat
  BY TypeFacts
<1>1. CASE m = 0
  BY <1>0, <1>1, Stutters
<1>2. CASE m # 0
  <2>1. Low' \in Low + 1 .. Len(seen)
    BY ONLY <1>0, <1>2, Low' = Low + m, Low' <= Len(seen)
  <2>2. \A k : RxAt(k)' = RxAt(k)
    BY DEF RxAt
  <2>3. \A k \in Low' .. rxProd - 1 : k \in Low .. rxProd - 1
    BY ONLY <1>0, <2>1
  <2>4. [k \in Low .. rxProd - 1 |-> RxAt(k)]'
          = [k \in Low' .. rxProd - 1 |-> [j \in Low .. rxProd - 1 |-> RxAt(j)][k]]
    BY <2>2, <2>3
  <2> QED
    BY <2>1, <2>4 DEF Window!GiveBack, Window!Next
<1> QED
  BY <1>1, <1>2

LEMMA DeliverRefines ==
  ASSUME IngressInv, Deliver
  PROVE  Window!Next
<1> PICK f \in kernel :
      /\ KernelRuns
      /\ rxProd - rxCons < RxSize
      /\ rx' = [rx EXCEPT ![RxSlot(rxProd)] = f]
      /\ rxProd' = rxProd + 1
      /\ UNCHANGED <<rxCons, poll>>
  BY DEF Deliver
<1>0. TypeOK /\ Setup /\ Apart
  BY DEF IngressInv, FramesInv
<1>1. /\ f \in Frames /\ fillProd > 0 /\ rxProd \in Nat /\ Low \in Nat /\ Low <= rxProd
      /\ RxSize \in Nat
  BY <1>0, TypeFacts DEF KernelRuns, Setup, TypeOK
<1>2. Low' = Low /\ seen' = seen
  BY DEF Low, poll
<1>3. rx'[RxSlot(rxProd)] = f /\ \A k \in RxSpan : RxAt(k)' = RxAt(k) /\ RxAt(k) # f
  <2>1. RxSlot(rxProd) \in 0 .. RxSize - 1
    BY <1>1, RxSlots
  <2>2. rx \in [0 .. RxSize - 1 -> Frames \cup {NoFrame}]
    BY <1>0 DEF TypeOK
  <2>3. rx'[RxSlot(rxProd)] = f
    BY <2>1, <2>2
  <2>4. RxSpan \subseteq Nat
    BY <1>1 DEF RxSpan
  <2>5. \A k \in RxSpan : RxSlot(k) # RxSlot(rxProd) /\ RxSlot(k) \in 0 .. RxSize - 1
    BY <1>1, <2>4, WindowIsShort, RxSlots
  <2>6. \A k \in RxSpan : RxAt(k)' = RxAt(k)
    BY <2>2, <2>5 DEF RxAt
  <2>7. \A k \in RxSpan : RxAt(k) # f
    BY <1>0 DEF Apart
  <2> QED
    BY <2>3, <2>6, <2>7
<1>4. f \in Frames \ Window!InUse
  BY <1>1, <1>3 DEF Window!InUse, RxSpan
<1>5. [k \in Low .. rxProd - 1 |-> RxAt(k)]'
        = [k \in Low .. rxProd |->
             IF k = rxProd THEN f ELSE [j \in Low .. rxProd - 1 |-> RxAt(j)][k]]
  <2>1. Low' .. rxProd' - 1 = Low .. rxProd
    BY <1>1, <1>2
  <2>2. ASSUME NEW k \in Low .. rxProd
        PROVE  rx'[RxSlot(k)]
                 = IF k = rxProd THEN f ELSE [j \in Low .. rxProd - 1 |-> RxAt(j)][k]
    <3>1. CASE k = rxProd
      BY <1>3, <3>1
    <3>2. CASE k # rxProd
      <4>1. k \in RxSpan
        BY <1>1, <3>2 DEF RxSpan
      <4> QED
        BY <1>3, <3>2, <4>1 DEF RxAt, RxSpan
    <3> QED
      BY <3>1, <3>2
  <2> QED
    BY <2>1, <2>2 DEF RxAt
<1> QED
  BY <1>2, <1>4, <1>5 DEF Window!Deliver, Window!Next

LEMMA ProcessRefines ==
  ASSUME IngressInv, IngressInv', Process
  PROVE  Window!Next
<1>1. /\ pc = "process" /\ UNCHANGED <<rx, rxProd, rxCons>>
      /\ pc' \in {"process", "release", "ended"}
  BY DEF Process, rings
<1>2. /\ idx + rcvd <= rxProd /\ i < rcvd /\ Len(seen) = idx + i
      /\ idx \in Nat /\ rcvd \in Nat /\ i \in Nat /\ rxProd \in Nat
  BY <1>1, TypeFacts DEF IngressInv, BatchOK
<1>3. Len(seen) < rxProd
  BY ONLY <1>2
<1>4. PICK x : seen' = Append(seen, x)
  BY DEF Process
<1>5. x = Len(seen) + 1
  <2>1. seen \in Seq(Nat \cup {Garbage}) /\ seen' \in Seq(Nat \cup {Garbage})
    BY DEF IngressInv, TypeOK
  <2>2. Len(seen) + 1 \in DOMAIN seen' /\ seen'[Len(seen) + 1] = x
    BY <1>4, <2>1
  <2>3. \A k \in DOMAIN seen' : seen'[k] = k
    BY DEF IngressInv, PacketsInOrder
  <2> QED
    BY <2>2, <2>3
<1>6. Low' = Low /\ \A k : RxAt(k)' = RxAt(k)
  BY <1>1 DEF Low, Released, RxAt
<1>7. [k \in Low .. rxProd - 1 |-> RxAt(k)]' = [k \in Low .. rxProd - 1 |-> RxAt(k)]
  BY <1>1, <1>6
<1> QED
  BY <1>1, <1>3, <1>4, <1>5, <1>6, <1>7 DEF Window!Read, Window!Next

LEMMA MainRefines ==
  ASSUME IngressInv, Main
  PROVE  UNCHANGED Window!fvars
<1>1. UNCHANGED <<rx, rxProd, rxCons, seen>>
  BY DEF Main, HandleSigint, CreateRing, CreateThread, Cancel, JoinAndFree, FreeArea, rings, poll
<1>2. \/ pc' = pc /\ UNCHANGED <<idx, filled>>
      \/ pc = "none" /\ pc' = "peek"
  <2>1. CASE CreateThread
    <3>1. pc = "none"
      BY <2>1 DEF CreateThread, IngressInv, Setup
    <3> QED
      BY <2>1, <3>1 DEF CreateThread
  <2>2. CASE HandleSigint \/ CreateRing \/ Cancel \/ JoinAndFree
    BY <2>2 DEF HandleSigint, CreateRing, Cancel, JoinAndFree, FreeArea, poll
  <2> QED
    BY <2>1, <2>2 DEF Main
<1>3. Low' = Low
  BY <1>1, <1>2 DEF Low, Released
<1> QED
  BY <1>1, <1>3, Stutters

LEMMA PollRefines ==
  ASSUME IngressInv, Peek \/ Release \/ Reserve \/ Copy
  PROVE  UNCHANGED Window!fvars
<1>1. UNCHANGED <<rx, rxProd, seen>>
  BY DEF Peek, Release, Reserve, Copy, rings
<1>2. Low' = Low
  <2>1. CASE Peek
    BY <2>1 DEF Peek, Low, Released, rings
  <2>2. CASE Release
    <3>1. idx = rxCons /\ idx \in Nat
      BY <2>2, TypeFacts DEF Release, IngressInv, BatchOK
    <3> QED
      BY <2>2, <3>1 DEF Release, Low, Released
  <2>3. CASE Reserve
    BY <2>3 DEF Reserve, Low, Released, rings
  <2>4. CASE Copy
    BY <2>4 DEF Copy, Low, Released
  <2> QED
    BY <2>1, <2>2, <2>3, <2>4
<1> QED
  BY <1>1, <1>2, Stutters

(* A refill is submitted in part, or given up by a thread that ends. *)
LEMMA RefillRefines ==
  ASSUME IngressInv, Submit \/ Nap
  PROVE  [Window!Next]_Window!fvars
<1>0. /\ idx \in Nat /\ rcvd \in Nat /\ filled \in Nat /\ ret \in Nat /\ rxCons \in Nat
  BY TypeFacts
<1>1. UNCHANGED <<rx, rxProd, rxCons, seen>>
  BY DEF Submit, Nap, rings
<1>2. CASE Submit
  <2>1. /\ filled + ret <= rcvd /\ idx + rcvd = rxCons /\ Len(seen) = rxCons
        /\ Low = idx + filled
    BY <1>2 DEF Submit, IngressInv, BatchOK, Low, Released
  <2>2. \/ Low' = idx + (filled + ret)
        \/ Low' = rxCons /\ filled + ret = rcvd
    <3>1. CASE filled + ret < rcvd
      BY <1>2, <3>1 DEF Submit, Low, Released
    <3>2. CASE ~ (filled + ret < rcvd)
      <4>1. filled + ret = rcvd
        BY ONLY <1>0, <2>1, <3>2
      <4>2. Low' = rxCons
        BY <1>2, <3>2 DEF Submit, Low, Released
      <4> QED
        BY <4>1, <4>2
    <3> QED
      BY <3>1, <3>2
  <2>3. Low' = Low + ret /\ Low' <= Len(seen)
    BY ONLY <1>0, <2>1, <2>2
  <2> QED
    BY <1>0, <1>1, <2>3, ShrinkRefines
<1>3. CASE Nap
  <2>1. UNCHANGED <<idx, filled>> /\ pc \in {"nap", "refillnap"}
    BY <1>3 DEF Nap
  <2>2. CASE Low' = Low
    BY <1>1, <2>2, Stutters
  <2>3. CASE Low' # Low
    <3>1. /\ pc = "refillnap" /\ Low = idx + filled /\ Low' = rxCons
      BY <1>1, <1>3, <2>1, <2>3 DEF Nap, Low, Released
    <3>2. idx + rcvd = rxCons /\ filled < rcvd /\ Len(seen) = rxCons
      BY <3>1 DEF IngressInv, BatchOK, Released
    <3>3. rcvd - filled \in Nat /\ Low' = Low + (rcvd - filled) /\ Low' <= Len(seen)
      BY ONLY <1>0, <3>1, <3>2
    <3> QED
      BY <1>1, <3>3, ShrinkRefines
  <2> QED
    BY <2>2, <2>3
<1> QED
  BY <1>2, <1>3

LEMMA StepRefines ==
  ASSUME IngressInv, IngressInv', [Next]_vars
  PROVE  [Window!Next]_Window!fvars
<1>1. CASE UNCHANGED vars \/ Take
  <2>1. UNCHANGED <<rx, rxProd, seen>> /\ UNCHANGED <<pc, idx, filled, rxCons>>
    BY <1>1 DEF vars, rings, poll, Take
  <2>2. Low' = Low
    BY <2>1 DEF Low
  <2> QED
    BY <2>1, <2>2, Stutters
<1> QED
  BY <1>1, MainRefines, DeliverRefines, ProcessRefines, PollRefines, RefillRefines DEF Next, Poll

(* The program implements PacketFrames: whatever the refill does, a packet *)
(* is delivered only to a frame whose packet was read and given back, and  *)
(* the packets are read in their order.                                    *)
THEOREM ProgramImplementsWindow == Spec => ImplementsWindow
<1>1. Init => Window!Init
  <2> SUFFICES ASSUME Init PROVE Window!Init
    OBVIOUS
  <2>1. Low = 0 /\ rxProd = 0 /\ seen = <<>>
    BY DEF Init, Low, Released
  <2>2. Low .. rxProd - 1 = {}
    BY <2>1
  <2>3. [k \in Low .. rxProd - 1 |-> RxAt(k)] = [k \in {} |-> k]
    BY <2>2
  <2> QED
    BY <2>1, <2>3 DEF Window!Init
<1>2. IngressInv /\ IngressInv' /\ [Next]_vars => [Window!Next]_Window!fvars
  BY StepRefines
<1> QED
  BY <1>1, <1>2, IngressInvariant, PTL DEF Spec, ImplementsWindow, Window!Spec
=============================================================================
