----------------------------- MODULE WorkflowMC -----------------------------
(* Small instances of Workflow for TLC. *)
EXTENDS Workflow, TLC

CONSTANTS fetch, work, ship

\* fetch leads to work; work may be repeated, go back or go on.
CyclicTargets ==
    fetch :> {work} @@ work :> {work, fetch, ship} @@ ship :> {EndNode, Unknown}

=============================================================================
