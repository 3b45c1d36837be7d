---------------------------- MODULE MCMpmcEngine -----------------------------
(* Instances of MpmcEngine for TLC. *)
EXTENDS MpmcEngine
=============================================================================
