----------------------------- MODULE GatewayMC -----------------------------
(* Small instances of Gateway for TLC. *)
EXTENDS Gateway, TLC

CONSTANTS n1, n2, a1, a2, a3, x1, x2

Symmetry == Permutations(Names) \cup Permutations(Adds) \cup Permutations(Removes)

=============================================================================
