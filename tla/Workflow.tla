------------------------------ MODULE Workflow ------------------------------
(***************************************************************************)
(* workflow/: the engine that executes one run of a graph, checkpointing   *)
(* after every node, with compensation of completed nodes on failure.  The *)
(* run may crash anywhere, losing all but the checkpoint store, and may be *)
(* resumed after a crash, a stop or a failure.                             *)
(*                                                                         *)
(* A State is abstracted to the target its data makes the node's edges     *)
(* choose (resolveNext is a function of the State alone, so a resumed run  *)
(* chooses what the interrupted one would have).  log records, for the     *)
(* properties, what the nodes and compensations did to the outside world.  *)
(***************************************************************************)
EXTENDS Integers, Sequences

CONSTANTS Nodes, Start, EndNode,
          Unknown,              \* a name that is no node's
          Targets,              \* what the edges of each node may choose
          Compensable,          \* the nodes added by AddCompensableNode
          MaxSteps,             \* EngineConfig.MaxSteps, as NewEngine leaves it
          CompensateOnFailure,  \* EngineConfig.CompensateOnFailure
          HasStore,             \* EngineConfig.CheckpointStore # nil
          NoCheckpoint,
          MaxAttempts           \* bound: calls of Run and Resume

Names == Nodes \cup {EndNode, Unknown}

\* What Graph.Validate and NewEngine establish.
ValidGraph ==
    /\ Start \in Nodes /\ {EndNode, Unknown} \cap Nodes = {} /\ EndNode # Unknown
    /\ Targets \in [Nodes -> SUBSET Names]
    /\ Compensable \subseteq Nodes

ASSUME GraphAssumption == ValidGraph

ASSUME ConfigAssumption ==
    /\ MaxSteps \in Nat \ {0} /\ MaxAttempts \in Nat
    /\ CompensateOnFailure \in BOOLEAN /\ HasStore \in BOOLEAN

Checkpoint == [node : Nodes, step : Nat, target : Names]

ASSUME NoCheckpointAssumption == NoCheckpoint \notin Checkpoint

VARIABLES
    pc,        \* where the engine's loop is
    status,    \* RunResult.Status, or why there is none
    node,      \* currentNode
    step,      \* the loop counter
    target,    \* the target state.Data makes resolveNext choose
    stack,     \* the CompensationStack
    cp,        \* the checkpoint store's entry for the run
    cancelled, \* ctx.Err() # nil
    attempt,   \* calls of Run and Resume so far
    log

loop == <<node, step, target>>
workflowVars == <<pc, status, loop, stack, cp, cancelled, attempt, log>>

WorkflowInit ==
    /\ pc = "idle" /\ status = "none"
    /\ node = Start /\ step = 0 /\ target = EndNode
    /\ stack = <<>> /\ cp = NoCheckpoint /\ cancelled = FALSE
    /\ attempt = 0 /\ log = <<>>

Did(n, t) == [kind |-> "did", node |-> n, step |-> step, target |-> t, attempt |-> attempt]

End(s) == pc' = "ended" /\ status' = s

-----------------------------------------------------------------------------
Run ==
    /\ attempt = 0 /\ MaxAttempts > 0
    /\ pc' = "loop" /\ attempt' = 1
    /\ UNCHANGED <<status, loop, stack, cp, cancelled, log>>

\* The caller's ctx ends.
Cancel ==
    /\ pc \notin {"idle", "ended"} /\ ~cancelled
    /\ cancelled' = TRUE
    /\ UNCHANGED <<pc, status, loop, stack, cp, attempt, log>>

OutOfSteps(s) == s >= MaxSteps

\* The head of the loop: out of steps, ...
Exhausted ==
    /\ pc = "loop" /\ OutOfSteps(step)
    /\ End("exhausted")
    /\ UNCHANGED <<loop, stack, cp, cancelled, attempt, log>>

\* ... or ctx has ended, ...
Stop ==
    /\ pc = "loop" /\ ~OutOfSteps(step) /\ cancelled
    /\ End("stopped")
    /\ UNCHANGED <<loop, stack, cp, cancelled, attempt, log>>

\* ... or the node function is called.
CallNode ==
    /\ pc = "loop" /\ ~OutOfSteps(step) /\ ~cancelled
    /\ pc' = "node"
    /\ UNCHANGED <<status, loop, stack, cp, cancelled, attempt, log>>

\* The node function succeeds, leaving a state that chooses t; the wrapper of
\* AddCompensableNode pushes its record.
NodeReturns(t) ==
    /\ pc = "node" /\ t \in Targets[node]
    /\ pc' = "done" /\ target' = t
    /\ stack' = IF CompensateOnFailure /\ node \in Compensable
                THEN Append(stack, [node |-> node, step |-> step]) ELSE stack
    /\ log' = Append(log, Did(node, t))
    /\ UNCHANGED <<status, node, step, cp, cancelled, attempt>>

\* The node function fails, or its timeout ends it.
NodeFails ==
    /\ pc = "node"
    /\ pc' = "compensating"
    /\ UNCHANGED <<status, loop, stack, cp, cancelled, attempt, log>>

Undid(r) == [kind |-> "undid", node |-> r.node, step |-> r.step,
             target |-> EndNode, attempt |-> attempt]

\* Faulty variant: the records are run through from the first.
Compensate_Forward ==
    /\ pc = "compensating" /\ stack # <<>>
    /\ log' = Append(log, Undid(Head(stack)))
    /\ stack' = Tail(stack)
    /\ UNCHANGED <<pc, status, loop, cp, cancelled, attempt>>

\* runCompensation goes through the records backwards and calls each; an
\* error is only reported to the hooks.
Compensate ==
    /\ pc = "compensating" /\ stack # <<>>
    /\ log' = Append(log, Undid(stack[Len(stack)]))
    /\ stack' = SubSeq(stack, 1, Len(stack) - 1)
    /\ UNCHANGED <<pc, status, loop, cp, cancelled, attempt>>

\* Faulty variant: the first compensation that fails ends the rollback.
Failed_Early ==
    /\ pc = "compensating"
    /\ End("failed")
    /\ UNCHANGED <<loop, stack, cp, cancelled, attempt, log>>

\* Faulty variant: the loop over the records stops at i = 0 only.
Failed_NotOnEmpty ==
    /\ pc = "compensating" /\ Len(stack) = 1
    /\ End("failed")
    /\ UNCHANGED <<loop, stack, cp, cancelled, attempt, log>>

Failed ==
    /\ pc = "compensating" /\ stack = <<>>
    /\ End("failed")
    /\ UNCHANGED <<loop, stack, cp, cancelled, attempt, log>>

SavedStep == step + 1

\* The checkpoint after a completed node: saved, ...
Save ==
    /\ pc = "done"
    /\ cp' = IF HasStore THEN [node |-> node, step |-> SavedStep, target |-> target]
             ELSE cp
    /\ pc' = "saved"
    /\ UNCHANGED <<status, loop, stack, cancelled, attempt, log>>

\* ... or Save fails, and the run returns an error, compensating nothing.
SaveFails ==
    /\ HasStore /\ pc = "done"
    /\ End("error")
    /\ UNCHANGED <<loop, stack, cp, cancelled, attempt, log>>

\* The state chooses the next node, ...
Advance ==
    /\ pc = "saved" /\ target \in Nodes
    /\ node' = target /\ step' = step + 1 /\ pc' = "loop"
    /\ UNCHANGED <<status, target, stack, cp, cancelled, attempt, log>>

\* ... a name that is none, ...
Misdirected ==
    /\ pc = "saved" /\ target = Unknown
    /\ End("error")
    /\ UNCHANGED <<loop, stack, cp, cancelled, attempt, log>>

\* ... or the end: the checkpoint is deleted, an error of Delete being ignored.
Complete ==
    /\ pc = "saved" /\ target = EndNode
    /\ End("completed")
    /\ cp' \in {cp, NoCheckpoint}
    /\ UNCHANGED <<loop, stack, cancelled, attempt, log>>

\* The process dies; only the checkpoint store survives.
Crash ==
    /\ pc \notin {"idle", "ended"}
    /\ End("crashed")
    /\ stack' = <<>>
    /\ UNCHANGED <<loop, cp, cancelled, attempt, log>>

\* Faulty variant: the checkpointed node itself is run again.
ResumeNode_Same == cp.node

ResumeNode == cp.target

\* Resume, whose loop is Run's from the checkpointed step on, with a new and
\* empty CompensationStack.
Resume ==
    /\ HasStore /\ cp # NoCheckpoint
    /\ pc = "ended" /\ attempt < MaxAttempts
    /\ attempt' = attempt + 1
    /\ \/ /\ cp.target = EndNode
          /\ End("completed") /\ cp' \in {cp, NoCheckpoint}
          /\ UNCHANGED <<loop, stack, cancelled>>
       \/ /\ cp.target = Unknown
          /\ End("error") /\ UNCHANGED <<loop, stack, cp, cancelled>>
       \/ /\ cp.target \in Nodes /\ OutOfSteps(cp.step)
          /\ End("exhausted") /\ UNCHANGED <<loop, stack, cp, cancelled>>
       \/ /\ cp.target \in Nodes /\ ~OutOfSteps(cp.step)
          /\ pc' = "loop" /\ status' = "none"
          /\ node' = ResumeNode /\ step' = cp.step /\ target' = cp.target
          /\ stack' = <<>> /\ cancelled' = FALSE
          /\ UNCHANGED cp
    /\ UNCHANGED log

Engine ==
    \/ Exhausted \/ Stop \/ CallNode
    \/ \E t \in Names : NodeReturns(t)
    \/ NodeFails \/ Compensate \/ Failed
    \/ Save \/ SaveFails \/ Advance \/ Misdirected \/ Complete

WorkflowNext == Run \/ Engine \/ Cancel \/ Crash \/ Resume

WorkflowSpec == WorkflowInit /\ [][WorkflowNext]_workflowVars

\* The engine's goroutine runs, and a node function returns, at the latest
\* when its context times out.
WorkflowFairSpec == WorkflowSpec /\ WF_workflowVars(Engine)

-----------------------------------------------------------------------------
ControlOK ==
    /\ pc \in {"idle", "loop", "node", "done", "saved", "compensating", "ended"}
    /\ status \in {"none", "completed", "failed", "exhausted", "stopped", "error", "crashed"}
    /\ cancelled \in BOOLEAN

LoopOK ==
    /\ node \in Nodes /\ step \in Nat /\ target \in Names
    /\ cp \in Checkpoint \cup {NoCheckpoint}
    /\ attempt \in 0..MaxAttempts

StackOK == stack \in Seq([node : Nodes, step : Nat])

\* The engine's variables have their types; its node is always a node.
WorkflowTypeOK == ControlOK /\ LoopOK /\ StackOK

\* With a store, the checkpoint says exactly where the run is: when a node is
\* about to run or runs, it is the one the last checkpoint leads to, at the
\* checkpointed step, in the first attempt as in any resumed one.  So a
\* checkpointed node is never executed again.
CheckpointCurrent ==
    HasStore /\ pc \in {"loop", "node", "done"} =>
        IF cp = NoCheckpoint THEN node = Start /\ step = 0
        ELSE node = cp.target /\ step = cp.step

\* MaxSteps bounds the nodes of a run over all its attempts: each executed
\* node has a step number below it, and so has the checkpoint, up to it.
StepsBounded ==
    /\ pc \in {"node", "done", "saved"} => step < MaxSteps
    /\ cp # NoCheckpoint => cp.step \in 1..MaxSteps

Undone(i) ==
    \E j \in (i + 1)..Len(log) :
        /\ log[j].kind = "undid" /\ log[j].step = log[i].step
        /\ log[j].attempt = log[i].attempt

\* The compensations of one attempt run in the reverse of the order in which
\* its nodes completed, each at most once, and only for nodes that completed.
CompensatesInReverse ==
    \A j \in 1..Len(log) : log[j].kind = "undid" =>
        /\ \A i \in 1..(j - 1) :
              log[i].kind = "undid" /\ log[i].attempt = log[j].attempt
                  => log[j].step < log[i].step
        /\ \E i \in 1..(j - 1) :
              /\ log[i].kind = "did" /\ log[i].node = log[j].node
              /\ log[i].step = log[j].step /\ log[i].attempt = log[j].attempt

\* A node's failure leaves no compensable node that completed in the same
\* attempt without its compensation called.
AttemptRolledBack ==
    CompensateOnFailure /\ pc = "ended" /\ status = "failed" =>
        \A i \in 1..Len(log) :
            log[i].kind = "did" /\ log[i].node \in Compensable /\ log[i].attempt = attempt
                => Undone(i)

-----------------------------------------------------------------------------
(* What the rollback rests on. *)

Entry == [kind : {"did", "undid"}, node : Nodes, step : Nat, target : Names, attempt : Nat]

\* The log is one of this attempt and earlier ones; a new run has no stack.
LogOK ==
    /\ log \in Seq(Entry) /\ \A i \in 1..Len(log) : log[i].attempt <= attempt
    /\ pc = "idle" => stack = <<>>

\* The steps before this bound are those the attempt may have completed.
StepBound == IF pc \in {"done", "saved"} THEN step + 1 ELSE step

Live == pc # "ended"

\* Entry i was written by this attempt.
Current(i) == log[i].attempt = attempt

\* The compensation stack of a run that goes on: in the order of the steps,
\* all of nodes that completed, and of them every compensable one that has
\* not been compensated; a compensation runs only once a node has failed, and
\* after those of all later steps.
StackFollowsLog ==
    Live =>
      /\ \A i, k \in 1..Len(stack) : i < k => stack[i].step < stack[k].step
      /\ \A k \in 1..Len(stack) :
           /\ stack[k].step < StepBound
           /\ \E i \in 1..Len(log) :
                /\ Current(i) /\ log[i].kind = "did"
                /\ log[i].node = stack[k].node /\ log[i].step = stack[k].step
      /\ \A i \in 1..Len(log) : Current(i) /\ log[i].kind = "undid" =>
           /\ pc = "compensating"
           /\ \A k \in 1..Len(stack) : stack[k].step < log[i].step
      /\ \A i \in 1..Len(log) :
           CompensateOnFailure /\ Current(i) /\ log[i].kind = "did" /\ log[i].node \in Compensable
             => Undone(i) \/ \E k \in 1..Len(stack) : stack[k].step = log[i].step

\* Every call of Run and Resume returns, in a cyclic graph too.
Terminates == pc # "idle" ~> pc = "ended"

=============================================================================
