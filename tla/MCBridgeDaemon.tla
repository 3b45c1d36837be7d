--------------------------- MODULE MCBridgeDaemon ----------------------------
(* The instance of BridgeDaemon that TLC checks. *)
EXTENDS BridgeDaemon
=============================================================================
