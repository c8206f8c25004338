-------------------------- MODULE WorktreePoolMC --------------------------
(* Small instances of WorktreePool for TLC. *)
EXTENDS WorktreePool, TLC

CONSTANTS t1, t2, t3, t4, s1, s2, k1

Symmetry == Permutations(Trees) \cup Permutations(Sessions)

=============================================================================
