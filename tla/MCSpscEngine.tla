---------------------------- MODULE MCSpscEngine -----------------------------
(* The instance of SpscEngine that TLC checks. *)
EXTENDS SpscEngine
=============================================================================
