-------------------------- MODULE MCIngressMetering --------------------------
(***************************************************************************)
(* Instances of IngressMetering for TLC: r1 and r2 carry the same envelope *)
(* (a retry or a replay), r3 and r4 an envelope of their own each.         *)
(***************************************************************************)
EXTENDS IngressMetering, TLC

CONSTANTS r1, r2, r3, r4, k1, k2, k3

MCKeyOf == [r \in Reqs |-> IF r \in {r1, r2} THEN k1 ELSE IF r = r3 THEN k2 ELSE k3]

(* r1 and r2 may be exchanged, and r3 with its key for r4 with its key.    *)
MCSymmetry ==
  Permutations({r1, r2}) \cup {r3 :> r4 @@ r4 :> r3 @@ k2 :> k3 @@ k3 :> k2}
=============================================================================
