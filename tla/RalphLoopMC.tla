---------------------------- MODULE RalphLoopMC ----------------------------
(* Small instances of RalphLoop for TLC. *)
EXTENDS RalphLoop, TLC

CONSTANTS scan, build, part

\* build depends on scan, and decomposes into part.
BuildSubTasks == scan :> {} @@ build :> {part} @@ part :> {}

BuildDependsOn == scan :> {} @@ build :> {scan} @@ part :> {scan}

\* Faults are taken where the file is read again and every task is open:
\* ForceRestart gives up what they may lose.
MCBound ==
    /\ config.done \in {{}, {scan}}
    /\ config.forceRestart \/ config.done # {} => faults = 0

=============================================================================
