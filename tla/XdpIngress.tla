----------------------------- MODULE XdpIngress ------------------------------
(***************************************************************************)
(* The AF_XDP ingress program of sip_remote_handoff: sip_xsk_create_ring   *)
(* gives the frames of the UMEM area to the kernel through the fill ring,  *)
(* the kernel returns them with packets through the RX ring, and the poll  *)
(* thread sip_xsk_poll_ingress reads each batch and refills the fill ring  *)
(* with its frames, while main waits for a signal and takes it all down.   *)
(*                                                                         *)
(* The poll thread reads the descriptors of a batch twice, the second time *)
(* after it has released their slots to the kernel: whether that is right  *)
(* depends on how many frames circulate.  The rings and the kernel are     *)
(* external, modelled from how the code uses them.  Ring indices do not    *)
(* wrap here (uint32_t in libxdp, over sizes that are powers of two).      *)
(***************************************************************************)
EXTENDS Integers, FiniteSets, Sequences, FiniteSetsExt

CONSTANTS
  FillSize,        (* XSK_RING_PROD__DEFAULT_NUM_DESCS                     *)
  RxSize,          (* XSK_RING_CONS__DEFAULT_NUM_DESCS                     *)
  Batch,           (* the 64 of xsk_ring_cons__peek                        *)
  TelemetryPeriod, (* the 100000 packets between two telemetry lines       *)
  MaxPackets       (* bound: packets the interface receives                *)

(* Both ring sizes are 2048 in libxdp.  Were FillSize the larger, the      *)
(* second read of a descriptor could meet the next packet's.               *)
ASSUME SizeAssumption ==
  /\ FillSize \in Nat \ {0} /\ RxSize \in Nat \ {0}
  /\ FillSize <= RxSize
ASSUME BatchAssumption ==
  Batch \in Nat \ {0} /\ TelemetryPeriod \in Nat \ {0} /\ MaxPackets \in Nat

(* i * UMEM_FRAME_SIZE for the descriptors of the fill ring: the other     *)
(* frames of the area (UMEM_FRAMES is 4096) are never used.                *)
Frames == 0..(FillSize - 1)

NoFrame == -1
Garbage == -1      (* what memory that was given back to malloc holds      *)

VARIABLES
  fill,       (* addresses in the slots of the fill ring                   *)
  fillProd,   (* its producer index, as submitted                          *)
  fillCons,   (* its consumer index, the kernel's                          *)
  kernel,     (* frames taken from the fill ring and not yet in RX         *)
  rx,         (* addresses in the slots of the RX ring                     *)
  rxProd,     (* its producer index, the kernel's; packets delivered       *)
  rxCons,     (* its consumer index, as released                           *)
  area,       (* the packet in each frame of the UMEM area                 *)
  pc,         (* where the poll thread is                                  *)
  idx, rcvd,  (* idx_rx and rcvd of its batch                              *)
  filled, ret,(* filled and ret of its refill                              *)
  i,          (* the i of its loops                                        *)
  seen,       (* history: what the poll thread has read in its packets     *)
  mpc,        (* where main is                                             *)
  running,    (* running, cleared by the signal handler                    *)
  cancelled   (* pthread_cancel has been called                            *)

rings == <<fill, fillProd, fillCons, kernel, rx, rxProd, rxCons, area>>
poll == <<pc, idx, rcvd, filled, ret, i, seen>>
main == <<mpc, running, cancelled>>
vars == <<rings, poll, main>>

FillSlot(k) == k % FillSize
RxSlot(k) == k % RxSize

Init ==
  /\ fill = [s \in 0..(FillSize - 1) |-> NoFrame]
  /\ fillProd = 0 /\ fillCons = 0
  /\ kernel = {}
  /\ rx = [s \in 0..(RxSize - 1) |-> NoFrame]
  /\ rxProd = 0 /\ rxCons = 0
  /\ area = [f \in Frames |-> 0]
  /\ pc = "none" /\ idx = 0 /\ rcvd = 0 /\ filled = 0 /\ ret = 0 /\ i = 0
  /\ seen = <<>>
  /\ mpc = "setup" /\ running = 1 /\ cancelled = 0

-----------------------------------------------------------------------------
(* main and its signal handler. *)

(* SIGINT and SIGTERM are handled from the first lines of main on. *)
HandleSigint ==
  /\ running = 1 /\ mpc \notin {"failed", "exited"}
  /\ running' = 0
  /\ UNCHANGED <<rings, poll, mpc, cancelled>>

(* sip_xsk_create_ring: any of its five steps may fail and undo those      *)
(* before it; else the whole fill ring is submitted.                       *)
CreateRing ==
  /\ mpc = "setup"
  /\ \/ /\ mpc' = "failed"
        /\ UNCHANGED <<fill, fillProd>>
     \/ /\ mpc' = "create"
        /\ fill' = [s \in DOMAIN fill |-> s]
        /\ fillProd' = FillSize
  /\ UNCHANGED <<fillCons, kernel, rx, rxProd, rxCons, area, poll, running,
                 cancelled>>

(* pthread_create; when it fails the area is freed and main returns. *)
CreateThread ==
  /\ mpc = "create"
  /\ \/ mpc' = "failed" /\ area' = [f \in Frames |-> Garbage] /\ pc' = pc
     \/ mpc' = "wait" /\ pc' = "peek" /\ area' = area
  /\ UNCHANGED <<fill, fillProd, fillCons, kernel, rx, rxProd, rxCons, idx,
                 rcvd, filled, ret, i, seen, running, cancelled>>

(* The loop on running has ended: the evidence record is written, then the *)
(* poll thread is asked to end.                                            *)
Cancel ==
  /\ mpc = "wait" /\ running = 0
  /\ mpc' = "join" /\ cancelled' = 1
  /\ UNCHANGED <<rings, poll, running>>

(* xsk_umem__delete refuses, the socket still uses the umem; its result is *)
(* not read, and the area is freed.                                        *)
FreeArea ==
  /\ mpc' = "exited"
  /\ area' = [f \in Frames |-> Garbage]
  /\ UNCHANGED <<fill, fillProd, fillCons, kernel, rx, rxProd, rxCons, poll,
                 running, cancelled>>

(* Mutant of JoinAndFree: the area is freed after pthread_cancel.          *)
FreeWithoutJoin == mpc = "join" /\ FreeArea

JoinAndFree == mpc = "join" /\ pc = "ended" /\ FreeArea

-----------------------------------------------------------------------------
(* The kernel. *)

KernelRuns == mpc \in {"create", "wait", "join"}

(* It takes the next address of the fill ring. *)
Take ==
  /\ KernelRuns
  /\ fillCons < fillProd
  /\ kernel' = kernel \cup {fill[FillSlot(fillCons)]}
  /\ fillCons' = fillCons + 1
  /\ UNCHANGED <<fill, fillProd, rx, rxProd, rxCons, area, poll, main>>

(* A packet arrives, is written to one of its frames and delivered; with a *)
(* full RX ring it is dropped and the kernel keeps the frame.              *)
Deliver ==
  \E f \in kernel :
    /\ KernelRuns
    /\ rxProd < MaxPackets
    /\ rxProd - rxCons < RxSize
    /\ area' = [area EXCEPT ![f] = rxProd + 1]
    /\ rx' = [rx EXCEPT ![RxSlot(rxProd)] = f]
    /\ rxProd' = rxProd + 1
    /\ kernel' = kernel \ {f}
    /\ UNCHANGED <<fill, fillProd, fillCons, rxCons, poll, main>>

-----------------------------------------------------------------------------
(* The poll thread. *)

(* xsk_ring_cons__peek: nothing only when the ring is empty, but possibly  *)
(* less than there is (libxdp caches the producer index).                  *)
Peek ==
  /\ pc = "peek"
  /\ \/ rxProd = rxCons /\ pc' = "nap" /\ UNCHANGED <<idx, rcvd, i>>
     \/ \E n \in 1..Min({Batch, rxProd - rxCons}) :
          idx' = rxCons /\ rcvd' = n /\ i' = 0 /\ pc' = "process"
  /\ UNCHANGED <<rings, filled, ret, seen, main>>

(* usleep(2), or usleep(1) in the refill: a cancellation point. *)
Nap ==
  /\ pc \in {"nap", "refillnap"}
  /\ pc' = IF cancelled = 1 THEN "ended"
           ELSE IF pc = "nap" THEN "peek" ELSE "reserve"
  /\ UNCHANGED <<rings, idx, rcvd, filled, ret, i, seen, main>>

(* One descriptor of the batch: its packet is read, and every              *)
(* TelemetryPeriod packets a line is printed, a cancellation point too.    *)
Process ==
  /\ pc = "process"
  /\ seen' = Append(seen, area[rx[RxSlot(idx + i)]])
  /\ i' = i + 1
  /\ \/ pc' = IF i + 1 < rcvd THEN "process" ELSE "release"
     \/ /\ cancelled = 1 /\ Len(seen') % TelemetryPeriod = 0
        /\ pc' = "ended"
  /\ UNCHANGED <<rings, idx, rcvd, filled, ret, main>>

Release ==
  /\ pc = "release"
  /\ rxCons' = rxCons + rcvd
  /\ filled' = 0
  /\ pc' = "reserve"
  /\ UNCHANGED <<fill, fillProd, fillCons, kernel, rx, rxProd, area, idx,
                 rcvd, ret, i, seen, main>>

(* Mutant of Reserve: it does not look at the kernel's index.              *)
ReserveBlindly ==
  /\ pc = "reserve"
  /\ ret' \in 0..(2 * (rcvd - filled))
  /\ i' = 0
  /\ pc' = IF ret' > 0 THEN "copy" ELSE "refillnap"
  /\ UNCHANGED <<rings, idx, rcvd, filled, seen, main>>

(* xsk_ring_prod__reserve: the code is written for a part of what it asks, *)
(* so any part that is free is allowed here, and none at all.              *)
Reserve ==
  /\ pc = "reserve"
  /\ ret' \in 0..Min({rcvd - filled, FillSize - (fillProd - fillCons)})
  /\ i' = 0
  /\ pc' = IF ret' > 0 THEN "copy" ELSE "refillnap"
  /\ UNCHANGED <<rings, idx, rcvd, filled, seen, main>>

(* Mutant of Copy: the second part of a refill starts at the first         *)
(* descriptor again.                                                       *)
CopyFromStart ==
  /\ pc = "copy"
  /\ fill' = [fill EXCEPT ![FillSlot(fillProd + i)] = rx[RxSlot(idx + i)]]
  /\ i' = i + 1
  /\ pc' = IF i + 1 < ret THEN "copy" ELSE "submit"
  /\ UNCHANGED <<fillProd, fillCons, kernel, rx, rxProd, rxCons, area, idx,
                 rcvd, filled, ret, seen, main>>

(* The descriptor is read again, from a slot released before. *)
Copy ==
  /\ pc = "copy"
  /\ fill' = [fill EXCEPT ![FillSlot(fillProd + i)] =
                            rx[RxSlot(idx + filled + i)]]
  /\ i' = i + 1
  /\ pc' = IF i + 1 < ret THEN "copy" ELSE "submit"
  /\ UNCHANGED <<fillProd, fillCons, kernel, rx, rxProd, rxCons, area, idx,
                 rcvd, filled, ret, seen, main>>

Submit ==
  /\ pc = "submit"
  /\ fillProd' = fillProd + ret
  /\ filled' = filled + ret
  /\ pc' = IF filled + ret < rcvd THEN "reserve" ELSE "peek"
  /\ UNCHANGED <<fill, fillCons, kernel, rx, rxProd, rxCons, area, idx, rcvd,
                 ret, i, seen, main>>

Main == HandleSigint \/ CreateRing \/ CreateThread \/ Cancel \/ JoinAndFree
Poll == Peek \/ Nap \/ Process \/ Release \/ Reserve \/ Copy \/ Submit
Next == Main \/ Take \/ Deliver \/ Poll

Spec == Init /\ [][Next]_vars

-----------------------------------------------------------------------------
Released == {"reserve", "refillnap", "copy", "submit"}
PollStates == Released \cup {"none", "peek", "nap", "process", "release",
                             "ended"}

(* The types, and the bounds of both rings: neither side may pass the      *)
(* other, whatever parts of a batch the refill goes in.                    *)
TypeOK ==
  /\ fill \in [0..(FillSize - 1) -> Frames \cup {NoFrame}]
  /\ rx \in [0..(RxSize - 1) -> Frames \cup {NoFrame}]
  /\ fillProd \in Nat /\ fillCons \in Nat /\ fillProd - fillCons \in 0..FillSize
  /\ rxProd \in Nat /\ rxCons \in Nat /\ rxProd - rxCons \in 0..RxSize
  /\ kernel \in SUBSET Frames
  /\ area \in [Frames -> Nat \cup {Garbage}]
  /\ pc \in PollStates
  /\ idx \in Nat /\ rcvd \in Nat /\ filled \in Nat /\ ret \in Nat /\ i \in Nat
  /\ seen \in Seq(Nat \cup {Garbage})
  /\ mpc \in {"setup", "create", "wait", "join", "failed", "exited"}
  /\ running \in {0, 1} /\ cancelled \in {0, 1}

InFill == {fill[FillSlot(k)] : k \in fillCons..(fillProd - 1)}
InRx == {rx[RxSlot(k)] : k \in rxCons..(rxProd - 1)}

(* What the poll thread has released and not yet given back: it knows      *)
(* these frames only from the slots it has released.                       *)
Held == IF pc \in Released THEN rcvd - filled ELSE 0
InPoll == {rx[RxSlot(idx + filled + k)] : k \in 0..(Held - 1)}

(* Every frame is in exactly one place: the fill ring, the kernel, the RX  *)
(* ring, or the batch the poll thread is about to give back.  So no frame  *)
(* is lost to the program or given to the kernel twice, although the poll  *)
(* thread reads addresses in slots that are the kernel's again.  (A thread *)
(* cancelled in the refill keeps its frames: the program is ending.)       *)
FramesConserved ==
  pc # "ended" /\ fillProd > 0 =>
    /\ InFill \cup kernel \cup InRx \cup InPoll = Frames
    /\ (fillProd - fillCons) + Cardinality(kernel) + (rxProd - rxCons) + Held
         = FillSize

(* The poll thread reads every packet once and in the order of delivery,   *)
(* none of them overwritten by a later packet before it was read, and none *)
(* in an area that main has freed.                                         *)
PacketsInOrder == \A k \in DOMAIN seen : seen[k] = k

(* The frames the program implements.  A packet is in use from its         *)
(* delivery until its frame is in a part of a refill that was submitted;   *)
(* a thread cancelled in its refill has given up the rest.                 *)
Low == IF pc \in Released THEN idx + filled ELSE rxCons
RxAt(k) == rx[RxSlot(k)]

Window == INSTANCE PacketFrames WITH
  given <- Low, delivered <- rxProd, read <- seen,
  frame <- [k \in Low .. rxProd - 1 |-> RxAt(k)]

(* The kernel never writes a packet to a frame that is in use, although    *)
(* the program reads the addresses of the frames it gives back from slots  *)
(* it has released; every packet is read in its turn and before its frame  *)
(* is given back, wherever a refill stops short or the thread is ended.    *)
ImplementsWindow == Window!Spec
=============================================================================
