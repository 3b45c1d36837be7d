----------------------------- MODULE MCMpmcQueue -----------------------------
(* Instances of MpmcQueue for TLC. *)
EXTENDS MpmcQueue

=============================================================================
