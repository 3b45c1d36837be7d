----------------------------- MODULE PacketFrames ----------------------------
(***************************************************************************)
(* What the AF_XDP ingress promises to the packets, with no ring, no       *)
(* descriptor, no batch and no thread: each packet is delivered into a     *)
(* frame that no packet in use has, the packets are read in their order,   *)
(* and a frame is given back after its packet was read.                    *)
(***************************************************************************)
EXTENDS Integers, Sequences

CONSTANT
  Frames      (* the frames that circulate                                 *)

VARIABLES
  delivered,  (* packets delivered; they are numbered from 1               *)
  given,      (* the first of them whose frames have been given back       *)
  frame,      (* the frame of each of the others, by what came before it   *)
  read        (* the packets read                                          *)

fvars == <<delivered, given, frame, read>>

InUse == {frame[k] : k \in given .. delivered - 1}

Init ==
  /\ delivered = 0 /\ given = 0 /\ read = <<>>
  /\ frame = [k \in {} |-> k]

Deliver ==
  /\ \E f \in Frames \ InUse :
       frame' = [k \in given .. delivered |-> IF k = delivered THEN f ELSE frame[k]]
  /\ delivered' = delivered + 1
  /\ UNCHANGED <<given, read>>

Read ==
  /\ Len(read) < delivered
  /\ read' = Append(read, Len(read) + 1)
  /\ UNCHANGED <<delivered, given, frame>>

GiveBack ==
  /\ given' \in given + 1 .. Len(read)
  /\ frame' = [k \in given' .. delivered - 1 |-> frame[k]]
  /\ UNCHANGED <<delivered, read>>

Next == Deliver \/ Read \/ GiveBack

Spec == Init /\ [][Next]_fvars
=============================================================================
