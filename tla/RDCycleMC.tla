----------------------------- MODULE RDCycleMC -----------------------------
(* Small instances of RDCycle for TLC. *)
EXTENDS RDCycle

=============================================================================
