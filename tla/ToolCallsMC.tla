---------------------------- MODULE ToolCallsMC ----------------------------
(* Small instances of ToolCalls for TLC. *)
EXTENDS ToolCalls

CONSTANTS c1, c2, x1

=============================================================================
