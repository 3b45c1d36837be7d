--------------------------- MODULE MCReleaseGates ---------------------------
(* Instances of ReleaseGates for TLC. *)
EXTENDS ReleaseGates

=============================================================================
