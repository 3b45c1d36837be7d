---------------------------- MODULE MCSignedGates ----------------------------
(* Instances of SignedGates for TLC. *)
EXTENDS SignedGates

CONSTANTS r1, r2

=============================================================================
