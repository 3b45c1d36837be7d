---------------------------- MODULE MCXdpIngress -----------------------------
(* The instance of XdpIngress that TLC checks. *)
EXTENDS XdpIngress
=============================================================================
