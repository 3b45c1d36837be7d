----------------------------- MODULE BoundedFifo -----------------------------
(***************************************************************************)
(* What mpmc_enqueue and mpmc_dequeue promise their callers, with no cell, *)
(* no sequence number and no position: a first-in first-out buffer of      *)
(* bounded length, which hands each item to one consumer.  A dequeue that  *)
(* returns 0 promises nothing, and is a stutter here.                      *)
(***************************************************************************)
EXTENDS Naturals, Sequences

CONSTANTS
  Producers, Consumers,
  Capacity,     (* longest buffer                                          *)
  NoItem        (* what a consumer holds between two dequeues              *)

VARIABLES
  buffer,       (* items put and not taken yet, oldest first               *)
  put,          (* Producers -> how many items each has put                *)
  hand          (* Consumers -> the item in hand, or NoItem                *)

fvars == <<buffer, put, hand>>

Init ==
  /\ buffer = <<>>
  /\ put = [p \in Producers |-> 0]
  /\ hand = [c \in Consumers |-> NoItem]

(* The n-th item of producer p is <<p, n>>: a producer puts its items in   *)
(* order and each of them once.                                            *)
Put(p) ==
  /\ Len(buffer) < Capacity
  /\ put' = [put EXCEPT ![p] = @ + 1]
  /\ buffer' = Append(buffer, <<p, put'[p]>>)
  /\ UNCHANGED hand

Take(c) ==
  /\ buffer # <<>>
  /\ hand[c] = NoItem
  /\ hand' = [hand EXCEPT ![c] = Head(buffer)]
  /\ buffer' = Tail(buffer)
  /\ UNCHANGED put

Return(c) ==
  /\ hand[c] # NoItem
  /\ hand' = [hand EXCEPT ![c] = NoItem]
  /\ UNCHANGED <<buffer, put>>

Next ==
  \/ \E p \in Producers : Put(p)
  \/ \E c \in Consumers : Take(c) \/ Return(c)

Spec == Init /\ [][Next]_fvars
=============================================================================
