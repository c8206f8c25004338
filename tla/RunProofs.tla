----------------------------- MODULE RunProofs -----------------------------
(***************************************************************************)
(* Proofs about the runs that a crash may end and a new call resume: those *)
(* of the workflow engine, for every graph, and those of the autonomous    *)
(* loop, for every list of tasks and every configuration, with any number  *)
(* of steps, crashes and resumptions.                                      *)
(***************************************************************************)
EXTENDS Workflow, RalphLoop, TLAPS

-----------------------------------------------------------------------------
(* Sequences. *)

\* Append adds one element at the end.
LEMMA SeqAppend ==
  ASSUME NEW S, NEW s \in Seq(S), NEW x \in S
  PROVE  /\ Append(s, x) \in Seq(S) /\ Len(s) \in Nat /\ Len(Append(s, x)) = Len(s) + 1
         /\ \A i \in 1..Len(s) : Append(s, x)[i] = s[i]
         /\ Append(s, x)[Len(s) + 1] = x
OBVIOUS

\* The elements of a sequence; only the empty one has none.
LEMMA SeqElements ==
  ASSUME NEW S, NEW s \in Seq(S)
  PROVE  /\ Len(s) \in Nat /\ \A i \in 1..Len(s) : s[i] \in S
         /\ s # <<>> => Len(s) \in 1..Len(s)
OBVIOUS

\* A sequence without its last element.
LEMMA SeqFront ==
  ASSUME NEW S, NEW s \in Seq(S), s # <<>>
  PROVE  /\ SubSeq(s, 1, Len(s) - 1) \in Seq(S)
         /\ Len(SubSeq(s, 1, Len(s) - 1)) = Len(s) - 1
         /\ \A i \in 1..(Len(s) - 1) : SubSeq(s, 1, Len(s) - 1)[i] = s[i]
<1>1. Len(s) \in Nat /\ Len(s) > 0
  OBVIOUS
<1>2. PICK n \in Nat : n = Len(s) - 1
  BY <1>1
<1>3. SubSeq(s, 1, n) \in Seq(S) /\ Len(SubSeq(s, 1, n)) = n
  BY <1>1, <1>2
<1>4. \A i \in 1..n : SubSeq(s, 1, n)[i] = s[i]
  BY <1>1, <1>2
<1> QED
  BY Zenon, <1>2, <1>3, <1>4

-----------------------------------------------------------------------------
(* Types. *)

USE DEF loop, End, ValidGraph

\* Every step of the engine keeps the types.
LEMMA WorkflowTypeStep == WorkflowTypeOK /\ [WorkflowNext]_workflowVars => WorkflowTypeOK'
<1> SUFFICES ASSUME ControlOK, LoopOK, StackOK, [WorkflowNext]_workflowVars
             PROVE  ControlOK' /\ LoopOK' /\ StackOK'
  BY Zenon DEF WorkflowTypeOK
<1> USE GraphAssumption, ConfigAssumption, NoCheckpointAssumption
<1> DEFINE R == [node : Nodes, step : Nat]
<1>1. ControlOK'
  BY Zenon DEF ControlOK, WorkflowNext, Engine, Run, Cancel, Exhausted, Stop, CallNode,
         NodeReturns, NodeFails, Compensate, Failed, Save, SaveFails, Advance,
         Misdirected, Complete, Crash, Resume, workflowVars
<1>2. LoopOK'
  <2> USE DEF LoopOK, Names
  <2>1. CASE Save
    <3>1. [node |-> node, step |-> step + 1, target |-> target] \in Checkpoint
      BY DEF Checkpoint
    <3> QED
      BY Zenon, <2>1, <3>1 DEF Save, SavedStep
  <2>2. CASE Resume
    <3>1. cp.target \in Names /\ cp.step \in Nat
      BY Zenon, <2>2 DEF Resume, Checkpoint
    <3> QED
      BY <2>2, <3>1 DEF Resume, ResumeNode
  <2>3. CASE Run
    BY <2>3 DEF Run
  <2>4. CASE Advance
    BY <2>4 DEF Advance
  <2>5. CASE Complete
    BY Zenon, <2>5 DEF Complete
  <2>6. ASSUME NEW t \in Names, NodeReturns(t) PROVE LoopOK'
    BY Zenon, <2>6 DEF NodeReturns
  <2>7. CASE UNCHANGED <<loop, cp, attempt>>
    BY Zenon, <2>7
  <2>8. CASE \/ Cancel \/ Exhausted \/ Stop \/ CallNode \/ NodeFails
             \/ Compensate \/ Failed \/ SaveFails \/ Misdirected \/ Crash
             \/ UNCHANGED workflowVars
    BY Zenon, <2>7, <2>8 DEF Cancel, Exhausted, Stop, CallNode, NodeFails, Compensate,
                      Failed, SaveFails, Misdirected, Crash, workflowVars
  <2> QED
    BY Zenon, <2>1, <2>2, <2>3, <2>4, <2>5, <2>6, <2>8 DEF WorkflowNext, Engine
<1>3. StackOK'
  <2>1. ASSUME NEW t \in Names, NodeReturns(t) PROVE StackOK'
    <3>1. [node |-> node, step |-> step] \in R
      BY Zenon DEF LoopOK
    <3>2. Append(stack, [node |-> node, step |-> step]) \in Seq(R)
      BY Zenon, <3>1, SeqAppend DEF StackOK
    <3> QED
      BY <2>1, <3>2, Zenon DEF NodeReturns, StackOK
  <2>2. CASE Compensate
    <3>1. stack \in Seq(R) /\ stack # <<>>
      BY Zenon, <2>2 DEF StackOK, Compensate
    <3>3. SubSeq(stack, 1, Len(stack) - 1) \in Seq(R)
      BY Zenon, <3>1, SeqFront
    <3> QED
      BY Zenon, <2>2, <3>3 DEF Compensate, StackOK
  <2>3. CASE stack' = <<>>
    BY <2>3 DEF StackOK
  <2>4. CASE stack' = stack
    BY Zenon, <2>4 DEF StackOK
  <2> QED
    BY Zenon, <2>1, <2>2, <2>3, <2>4
    DEF WorkflowNext, Engine, Run, Cancel, Exhausted, Stop, CallNode, NodeFails, Failed,
        Save, SaveFails, Advance, Misdirected, Complete, Crash, Resume, workflowVars
<1> QED
  BY Zenon, <1>1, <1>2, <1>3

\* The engine's state is type correct in every reachable state.
THEOREM WorkflowTypeCorrect == WorkflowSpec => []WorkflowTypeOK
<1>1. WorkflowInit => WorkflowTypeOK
  <2>1. WorkflowInit => ControlOK
    BY Zenon DEF WorkflowInit, ControlOK
  <2>2. WorkflowInit => LoopOK
    BY GraphAssumption, ConfigAssumption DEF WorkflowInit, LoopOK, Names
  <2>3. WorkflowInit => StackOK
    BY DEF WorkflowInit, StackOK
  <2> QED
    BY Zenon, <2>1, <2>2, <2>3 DEF WorkflowTypeOK
<1> QED
  BY <1>1, WorkflowTypeStep, PTL DEF WorkflowSpec

-----------------------------------------------------------------------------
(* The checkpoint and the loop agree. *)

\* Between the save and the next turn of the loop the checkpoint holds the
\* node just executed and the target it chose.
SavedCurrent ==
    HasStore /\ pc = "saved" =>
        /\ cp \in Checkpoint
        /\ cp.step = step + 1 /\ cp.target = target

\* Run starts from a run that has neither moved nor saved.
IdleFresh == pc = "idle" => node = Start /\ step = 0 /\ cp = NoCheckpoint

\* Without a store there is never a checkpoint.
NoStoreNoCheckpoint == ~HasStore => cp = NoCheckpoint

\* The inductive invariant of checkpoints.
CheckpointInv ==
    CheckpointCurrent /\ StepsBounded /\ SavedCurrent /\ IdleFresh /\ NoStoreNoCheckpoint

\* Only Run, from the idle state, begins the first attempt.
AttemptInv == attempt = 0 <=> pc = "idle"

\* Every step of the engine, every crash and every resumption keeps the
\* checkpoint in line with the loop and both below MaxSteps.
LEMMA CheckpointStep ==
  WorkflowTypeOK /\ AttemptInv /\ CheckpointInv /\ [WorkflowNext]_workflowVars => AttemptInv' /\ CheckpointInv'
<1> SUFFICES ASSUME WorkflowTypeOK, AttemptInv, CheckpointInv, [WorkflowNext]_workflowVars
             PROVE  AttemptInv' /\ CheckpointInv'
  BY Zenon
<1> USE GraphAssumption, ConfigAssumption, NoCheckpointAssumption
<1> USE DEF CheckpointInv, CheckpointCurrent, StepsBounded, SavedCurrent,
            IdleFresh, NoStoreNoCheckpoint, OutOfSteps, AttemptInv
<1>1. CASE Run \/ Cancel \/ Exhausted \/ Stop \/ CallNode \/ NodeFails \/ Failed
  BY <1>1 DEF Run, Cancel, Exhausted, Stop, CallNode, NodeFails, Failed, WorkflowTypeOK, LoopOK
<1>2. ASSUME NEW t \in Names, NodeReturns(t)
      PROVE  AttemptInv' /\ CheckpointInv'
  BY Zenon, <1>2 DEF NodeReturns, WorkflowTypeOK, LoopOK
<1>3. CASE Compensate
  BY Zenon, <1>3 DEF Compensate, WorkflowTypeOK, LoopOK
<1>4. CASE Save
  <2> DEFINE new == [node |-> node, step |-> step + 1, target |-> target]
  <2>1. new \in Checkpoint /\ new.step = step + 1 /\ new.target = target
    BY DEF Checkpoint, WorkflowTypeOK, LoopOK
  <2>2. cp' = IF HasStore THEN new ELSE cp
    BY Zenon, <1>4 DEF Save, SavedStep
  <2> HIDE DEF new
  <2> QED
    BY <1>4, <2>1, <2>2 DEF Save, WorkflowTypeOK, LoopOK
<1>5. CASE Advance
  BY Zenon, <1>5 DEF Advance, WorkflowTypeOK, LoopOK
<1>6. CASE SaveFails \/ Misdirected \/ Complete \/ Crash
  BY Zenon, <1>6 DEF SaveFails, Misdirected, Complete, Crash, WorkflowTypeOK, LoopOK
<1>7. CASE Resume
  BY <1>7 DEF Resume, ResumeNode, WorkflowTypeOK, LoopOK
<1>8. CASE UNCHANGED workflowVars
  BY Zenon, <1>8 DEF workflowVars
<1> QED
  BY Zenon, <1>1, <1>2, <1>3, <1>4, <1>5, <1>6, <1>7, <1>8 DEF WorkflowNext, Engine

\* A run and its resumptions satisfy the inductive invariant throughout.
LEMMA CheckpointInvariant == WorkflowSpec => [](AttemptInv /\ CheckpointInv)
<1>1. WorkflowInit => AttemptInv /\ CheckpointInv
  BY Zenon DEF WorkflowInit, AttemptInv, CheckpointInv, CheckpointCurrent, StepsBounded,
         SavedCurrent, IdleFresh, NoStoreNoCheckpoint
<1> QED
  BY <1>1, CheckpointStep, WorkflowTypeCorrect, PTL DEF WorkflowSpec

\* A node about to run is always the one the checkpoint leads to, at the
\* checkpointed step: no checkpointed node is executed again.
THEOREM CheckpointsCurrent == WorkflowSpec => []CheckpointCurrent
BY CheckpointInvariant, PTL DEF CheckpointInv

\* MaxSteps bounds the run over all its attempts.
THEOREM RunBounded == WorkflowSpec => []StepsBounded
BY CheckpointInvariant, PTL DEF CheckpointInv

-----------------------------------------------------------------------------
(* Rollback. *)

\* What an entry added to the log leaves as it was.
LEMMA LogAppend ==
  ASSUME log \in Seq(Entry), NEW e \in Entry, log' = Append(log, e)
  PROVE  /\ log' \in Seq(Entry) /\ Len(log) \in Nat /\ Len(log') = Len(log) + 1
         /\ \A i \in 1..Len(log) : log'[i] = log[i]
         /\ log'[Len(log) + 1] = e
BY SeqAppend

\* A step that appends at most one entry, of this attempt, to the log.
Logs(e) ==
    /\ log' = Append(log, e) /\ e \in Entry /\ e.attempt = attempt /\ attempt' = attempt
    /\ pc' # "idle"

\* The log keeps its types and its attempts, whatever the engine does.
LEMMA LogStep ==
  WorkflowTypeOK /\ AttemptInv /\ LogOK /\ [WorkflowNext]_workflowVars => LogOK'
<1> SUFFICES ASSUME WorkflowTypeOK, AttemptInv, LogOK, [WorkflowNext]_workflowVars
             PROVE  LogOK'
  BY Zenon
<1> USE ConfigAssumption
<1>0. attempt \in Nat /\ attempt' \in Nat /\ Len(log) \in Nat
  BY WorkflowTypeStep DEF WorkflowTypeOK, LoopOK, LogOK
<1>1. ASSUME NEW e, Logs(e) PROVE LogOK'
  BY <1>0, <1>1, LogAppend DEF LogOK, Logs
<1>2. ASSUME NEW t \in Names, NodeReturns(t) PROVE Logs(Did(node, t))
  BY Zenon, <1>0, <1>2 DEF Logs, Did, NodeReturns, Entry, WorkflowTypeOK, LoopOK
<1>3. CASE Compensate
  <2> DEFINE R == [node : Nodes, step : Nat]
             r == stack[Len(stack)]
  <2>1. stack \in Seq(R) /\ stack # <<>>
    BY Zenon, <1>3 DEF Compensate, WorkflowTypeOK, StackOK
  <2>2. Len(stack) \in 1..Len(stack)
    BY Zenon, <2>1, SeqElements
  <2>3. r \in R
    BY <2>1, <2>2, SeqElements, Zenon
  <2>4. log' = Append(log, Undid(r)) /\ attempt' = attempt /\ pc' # "idle"
    BY Zenon, <1>3 DEF Compensate
  <2> HIDE DEF r
  <2>5. Undid(r) \in Entry /\ Undid(r).attempt = attempt
    BY Zenon, <1>0, <2>3, GraphAssumption DEF Undid, Entry, Names
  <2> QED
    BY Zenon, <1>1, <2>4, <2>5 DEF Logs
<1>8. \A i \in 1..Len(log) : log[i].attempt \in Nat /\ log[i].attempt <= attempt
  <2>1. \A i \in 1..Len(log) : log[i] \in Entry
    BY Zenon, SeqElements DEF LogOK
  <2> QED
    BY Zenon, <2>1 DEF LogOK, Entry
<1>4. CASE Run
  <2>1. log' = log /\ attempt' = attempt + 1 /\ pc' = "loop"
    BY <1>0, <1>4 DEF Run
  <2> QED
    BY <1>0, <1>8, <2>1 DEF LogOK
<1>5. CASE Resume
  <2>1. log' = log /\ attempt' = attempt + 1 /\ pc' \in {"loop", "ended"}
    BY Zenon, <1>0, <1>5 DEF Resume
  <2> QED
    BY <1>0, <1>8, <2>1 DEF LogOK
<1>6. CASE /\ UNCHANGED <<attempt, log>>
           /\ pc' # "idle" \/ UNCHANGED <<pc, stack>>
  BY Zenon, <1>6 DEF LogOK
<1>7. CASE \/ Cancel \/ Exhausted \/ Stop \/ CallNode \/ NodeFails \/ Failed
           \/ Save \/ SaveFails \/ Advance \/ Misdirected \/ Complete \/ Crash
           \/ UNCHANGED workflowVars
  BY Zenon, <1>6, <1>7 DEF Cancel, Exhausted, Stop, CallNode, NodeFails, Failed, Save,
     SaveFails, Advance, Misdirected, Complete, Crash, workflowVars
<1> QED
  BY Zenon, <1>1, <1>2, <1>3, <1>4, <1>5, <1>7 DEF WorkflowNext, Engine

\* Entries and records have their fields, and what is undone stays so.
LEMMA LogFields ==
  ASSUME WorkflowTypeOK, LogOK
  PROVE  /\ Len(log) \in Nat /\ Len(stack) \in Nat /\ attempt \in Nat /\ step \in Nat
         /\ \A i \in 1..Len(log) : log[i].step \in Nat /\ log[i].attempt \in Nat
         /\ \A k \in 1..Len(stack) : stack[k].step \in Nat
<1>1. \A i \in 1..Len(log) : log[i] \in Entry
  BY Zenon, SeqElements DEF LogOK
<1>2. \A k \in 1..Len(stack) : stack[k] \in [node : Nodes, step : Nat]
  BY SeqElements, Zenon DEF WorkflowTypeOK, StackOK
<1>3. Len(log) \in Nat /\ Len(stack) \in Nat /\ attempt \in Nat /\ step \in Nat
  BY SeqElements, ConfigAssumption DEF LogOK, WorkflowTypeOK, StackOK, LoopOK
<1> QED
  BY Zenon, <1>1, <1>2, <1>3 DEF Entry

\* A step that touches neither the log nor the stack, and does not leave the
\* compensations, keeps the stack in line with the log.
LEMMA StackSame ==
  ASSUME WorkflowTypeOK, LogOK, StackFollowsLog, Live, UNCHANGED <<log, stack, attempt>>,
         pc = "compensating" => pc' \in {"compensating", "ended"},
         step' \in Nat, StepBound <= StepBound'
  PROVE  StackFollowsLog'
<1>1. \A i \in 1..Len(log) : Undone(i)' <=> Undone(i)
  BY Zenon DEF Undone
<1>2. \A i \in 1..Len(log) : Current(i)' <=> Current(i)
  BY Zenon DEF Current
<1>3. \A k \in 1..Len(stack) : stack[k].step < StepBound => stack[k].step < StepBound'
  BY LogFields DEF StepBound
<1>4. CASE pc' = "ended"
  BY Zenon, <1>4 DEF StackFollowsLog, Live
<1>5. CASE pc' # "ended" /\ (pc = "compensating" => pc' = "compensating")
  <2> DEFINE A == \A i, k \in 1..Len(stack) : i < k => stack[i].step < stack[k].step
             B == \A k \in 1..Len(stack) :
                    /\ stack[k].step < StepBound
                    /\ \E i \in 1..Len(log) :
                         /\ Current(i) /\ log[i].kind = "did"
                         /\ log[i].node = stack[k].node /\ log[i].step = stack[k].step
             C == \A i \in 1..Len(log) : Current(i) /\ log[i].kind = "undid" =>
                    /\ pc = "compensating"
                    /\ \A k \in 1..Len(stack) : stack[k].step < log[i].step
             D == \A i \in 1..Len(log) :
                    CompensateOnFailure /\ Current(i) /\ log[i].kind = "did"
                    /\ log[i].node \in Compensable
                      => Undone(i) \/ \E k \in 1..Len(stack) : stack[k].step = log[i].step
  <2>1. A /\ B /\ C /\ D
    BY Zenon DEF StackFollowsLog
  <2>2. A' /\ B'
    BY <1>2, <1>3, <2>1, Zenon
  <2>3. C'
    BY Zenon, <1>2, <1>5, <2>1
  <2>4. D'
    BY Zenon, <1>1, <1>2, <2>1
  <2> QED
    BY Zenon, <2>2, <2>3, <2>4 DEF StackFollowsLog
<1> QED
  BY Zenon, <1>4, <1>5

\* A new attempt begins with no stack and nothing in the log.
LEMMA StackNew ==
  ASSUME WorkflowTypeOK, LogOK, log' = log, attempt' = attempt + 1, stack' = <<>>
  PROVE  StackFollowsLog'
<1>1. \A i \in 1..Len(log)' : ~Current(i)'
  BY LogFields DEF Current, LogOK
<1>2. Len(stack)' = 0
  BY Zenon
<1> QED
  BY <1>1, <1>2 DEF StackFollowsLog

\* A node that completes is logged, above every earlier step, and pushed when
\* it is compensable.
LEMMA StackPushed ==
  ASSUME WorkflowTypeOK, LogOK, StackFollowsLog, NEW t \in Names, NodeReturns(t)
  PROVE  StackFollowsLog'
<1>0. PICK n \in Nat, m \in Nat : n = Len(log) /\ m = Len(stack)
  BY Zenon, LogFields
<1> DEFINE e == Did(node, t)
           r == [node |-> node, step |-> step]
<1>1. /\ e \in Entry /\ e.kind = "did" /\ e.node = node /\ e.step = step
      /\ e.attempt = attempt
  BY Zenon, LogFields DEF Did, Entry, WorkflowTypeOK, LoopOK, NodeReturns
<1>2. /\ log' = Append(log, e) /\ attempt' = attempt /\ step' = step
      /\ pc = "node" /\ pc' = "done"
      /\ stack' = IF CompensateOnFailure /\ node \in Compensable
                  THEN Append(stack, r) ELSE stack
  BY Zenon DEF NodeReturns
<1> HIDE DEF e
<1>3. /\ Len(log') = n + 1 /\ log'[n + 1] = e
      /\ \A i \in 1..n : log'[i] = log[i]
  BY Zenon, <1>0, <1>1, <1>2, LogAppend DEF LogOK
<1>4. /\ \A i \in 1..n : Current(i)' <=> Current(i)
      /\ Current(n + 1)'
      /\ \A i \in 1..n : Undone(i) => Undone(i)'
      /\ \A i \in 1..(n + 1) : i \in 1..n \/ i = n + 1
  <2>1. \A i \in 1..n : Undone(i) => Undone(i)'
    BY <1>0, <1>3 DEF Undone
  <2> QED
    BY <1>1, <1>2, <1>3, <2>1 DEF Current
<1>5. StepBound = step /\ StepBound' = step + 1 /\ step \in Nat /\ Live
  BY Zenon, <1>2, LogFields DEF StepBound, Live
<1>11. \A i, k \in 1..m : i < k => stack[i].step < stack[k].step
  BY Zenon, <1>0, <1>5 DEF StackFollowsLog
<1>12. \A k \in 1..m :
        /\ stack[k].step < StepBound
        /\ \E i \in 1..n :
             /\ Current(i) /\ log[i].kind = "did"
             /\ log[i].node = stack[k].node /\ log[i].step = stack[k].step
  BY Zenon, <1>0, <1>5 DEF StackFollowsLog
<1>13. \A i \in 1..n : Current(i) /\ log[i].kind = "undid" =>
        /\ pc = "compensating"
        /\ \A k \in 1..m : stack[k].step < log[i].step
  BY Zenon, <1>0, <1>5 DEF StackFollowsLog
<1>14. \A i \in 1..n :
        CompensateOnFailure /\ Current(i) /\ log[i].kind = "did" /\ log[i].node \in Compensable
          => Undone(i) \/ \E k \in 1..m : stack[k].step = log[i].step
  BY Zenon, <1>0, <1>5 DEF StackFollowsLog
<1>6. \A i \in 1..(n + 1) : Current(i)' /\ log'[i].kind = "undid" => FALSE
  BY Zenon, <1>1, <1>2, <1>3, <1>4, <1>13
<1>7. \A k \in 1..m : stack[k].step \in Nat /\ stack[k].step < step
  BY <1>0, <1>5, <1>12, LogFields, SMTT(15)
<1>8. \A k \in 1..m : \E i \in 1..(n + 1) :
        /\ Current(i)' /\ log'[i].kind = "did"
        /\ log'[i].node = stack[k].node /\ log'[i].step = stack[k].step
  BY <1>3, <1>4, <1>12, SMTT(15)
<1>9. CASE CompensateOnFailure /\ node \in Compensable
  <2>0. stack \in Seq([node : Nodes, step : Nat]) /\ r \in [node : Nodes, step : Nat]
    BY Zenon, LogFields DEF WorkflowTypeOK, StackOK, LoopOK
  <2>1. /\ Len(stack') = m + 1 /\ stack'[m + 1] = r
        /\ \A k \in 1..m : stack'[k] = stack[k]
    BY <1>0, <1>2, <1>9, <2>0, SeqAppend, SMTT(15)
  <2>2. \A i, k \in 1..(m + 1) : i < k => stack'[i].step < stack'[k].step
    BY <1>5, <1>7, <1>11, <2>1, SMTT(15)
  <2>3. \A k \in 1..(m + 1) : stack'[k].step < step + 1
    BY <1>5, <1>7, <2>1
  <2>4. \A k \in 1..(m + 1) : \E i \in 1..(n + 1) :
          /\ Current(i)' /\ log'[i].kind = "did"
          /\ log'[i].node = stack'[k].node /\ log'[i].step = stack'[k].step
    BY <1>1, <1>3, <1>4, <1>8, <2>1
  <2>5. \A i \in 1..(n + 1) :
          Current(i)' /\ log'[i].kind = "did" /\ log'[i].node \in Compensable
            => Undone(i)' \/ \E k \in 1..(m + 1) : stack'[k].step = log'[i].step
    BY <1>1, <1>3, <1>4, <1>14, <1>9, <2>1, SMTT(15)
  <2> QED
    BY <1>3, <1>5, <1>6, <2>1, <2>2, <2>3, <2>4, <2>5, SMTT(15) DEF StackFollowsLog
<1>10. CASE ~(CompensateOnFailure /\ node \in Compensable)
  <2>1. stack' = stack
    BY Zenon, <1>2, <1>10
  <2>2. \A i, k \in 1..m : i < k => stack[i].step < stack[k].step
    BY Zenon, <1>11
  <2>3. \A k \in 1..m : stack[k].step < step + 1
    BY <1>5, <1>7
  <2>4. \A i \in 1..(n + 1) :
          CompensateOnFailure /\ Current(i)' /\ log'[i].kind = "did"
          /\ log'[i].node \in Compensable
            => Undone(i)' \/ \E k \in 1..m : stack[k].step = log'[i].step
    BY Zenon, <1>1, <1>3, <1>4, <1>14, <1>10
  <2> QED
    BY <1>0, <1>3, <1>5, <1>6, <1>8, <2>1, <2>2, <2>3, <2>4, SMTT(15) DEF StackFollowsLog
<1> QED
  BY Zenon, <1>9, <1>10

\* A compensation takes the latest record off the stack and logs it: every
\* one before it in the attempt was of a later step.
LEMMA StackPopped ==
  ASSUME WorkflowTypeOK, LogOK, StackFollowsLog, CompensatesInReverse, Compensate
  PROVE  StackFollowsLog' /\ CompensatesInReverse'
<1>0. PICK n \in Nat, m \in Nat : n = Len(log) /\ m = Len(stack)
  BY Zenon, LogFields
<1> DEFINE R == [node : Nodes, step : Nat]
<1>1. stack \in Seq(R) /\ stack # <<>> /\ attempt \in Nat
  BY Zenon, LogFields DEF Compensate, WorkflowTypeOK, StackOK
<1>2. m \in 1..m /\ m - 1 \in Nat
  BY <1>0, <1>1, SeqElements
<1>3. PICK r \in R : r = stack[m]
  BY <1>0, <1>1, <1>2, SeqElements, Zenon
<1>4. /\ log' = Append(log, Undid(r)) /\ attempt' = attempt /\ step' = step
      /\ pc = "compensating" /\ pc' = "compensating"
      /\ stack' = SubSeq(stack, 1, m - 1)
  BY Zenon, <1>0, <1>3 DEF Compensate
<1> DEFINE e == Undid(r)
<1>5. /\ e \in Entry /\ e.kind = "undid" /\ e.node = r.node /\ e.step = r.step
      /\ e.attempt = attempt /\ e.step \in Nat
  BY Zenon, <1>1, <1>3, GraphAssumption DEF Undid, Entry, Names
<1> HIDE DEF e
<1>6. /\ Len(log') = n + 1 /\ log'[n + 1] = e
      /\ \A i \in 1..n : log'[i] = log[i]
  BY Zenon, <1>0, <1>4, <1>5, LogAppend DEF LogOK, e
<1>7. Len(stack') = m - 1 /\ \A k \in 1..(m - 1) : stack'[k] = stack[k]
  BY Zenon, <1>0, <1>1, <1>4, SeqFront
<1>8. /\ \A i \in 1..n : Current(i)' <=> Current(i)
      /\ \A i \in 1..n : Undone(i) => Undone(i)'
      /\ \A i \in 1..(n + 1) : i \in 1..n \/ i = n + 1
  <2>1. \A i \in 1..n : Undone(i) => Undone(i)'
    BY <1>0, <1>6 DEF Undone
  <2> QED
    BY <1>1, <1>4, <1>6, <2>1 DEF Current
<1>9. \A i \in 1..n : Current(i) /\ log[i].step = r.step => Undone(i)'
  BY <1>4, <1>5, <1>6 DEF Undone, Current
<1>10. Live /\ StepBound = step /\ StepBound' = step
  BY Zenon, <1>4 DEF Live, StepBound
<1>14. \A i, k \in 1..m : i < k => stack[i].step < stack[k].step
  BY Zenon, <1>0, <1>10 DEF StackFollowsLog
<1>15. \A k \in 1..m :
        /\ stack[k].step < StepBound
        /\ \E i \in 1..n :
             /\ Current(i) /\ log[i].kind = "did"
             /\ log[i].node = stack[k].node /\ log[i].step = stack[k].step
  BY Zenon, <1>0, <1>10 DEF StackFollowsLog
<1>16. \A i \in 1..n : Current(i) /\ log[i].kind = "undid" =>
        /\ pc = "compensating"
        /\ \A k \in 1..m : stack[k].step < log[i].step
  BY Zenon, <1>0, <1>10 DEF StackFollowsLog
<1>17. \A i \in 1..n :
        CompensateOnFailure /\ Current(i) /\ log[i].kind = "did" /\ log[i].node \in Compensable
          => Undone(i) \/ \E k \in 1..m : stack[k].step = log[i].step
  BY Zenon, <1>0, <1>10 DEF StackFollowsLog
<1>11. \A i \in 1..n : log[i].step \in Nat
  BY Zenon, <1>0, LogFields
<1>12. StackFollowsLog'
  <2>1. \A i, k \in 1..(m - 1) : i < k => stack'[i].step < stack'[k].step
    BY <1>7, <1>14
  <2>2. \A k \in 1..(m - 1) : stack'[k].step < step
    BY <1>7, <1>10, <1>15
  <2>3. \A k \in 1..(m - 1) : \E i \in 1..(n + 1) :
          /\ Current(i)' /\ log'[i].kind = "did"
          /\ log'[i].node = stack'[k].node /\ log'[i].step = stack'[k].step
    <3> TAKE k \in 1..(m - 1)
    <3>1. k \in 1..m /\ stack'[k] = stack[k]
      BY <1>2, <1>7
    <3>2. PICK i \in 1..n : /\ Current(i) /\ log[i].kind = "did"
                            /\ log[i].node = stack[k].node /\ log[i].step = stack[k].step
      BY Zenon, <1>15, <3>1
    <3>3. i \in 1..(n + 1) /\ Current(i)' /\ log'[i] = log[i]
      BY <1>6, <1>8, <3>2
    <3> QED
      BY Zenon, <3>1, <3>2, <3>3
  <2>4. \A i \in 1..(n + 1) : Current(i)' /\ log'[i].kind = "undid" =>
          \A k \in 1..(m - 1) : stack'[k].step < log'[i].step
    <3>1. \A k \in 1..(m - 1) : stack[k].step < r.step
      BY <1>2, <1>3, <1>14
    <3>2. \A i \in 1..n : Current(i) /\ log[i].kind = "undid" =>
            \A k \in 1..(m - 1) : stack[k].step < log[i].step
      BY <1>16
    <3> QED
      BY <1>1, <1>5, <1>6, <1>7, <1>8, <3>1, <3>2, Zenon
  <2>5. \A i \in 1..(n + 1) :
          CompensateOnFailure /\ Current(i)' /\ log'[i].kind = "did"
          /\ log'[i].node \in Compensable
            => Undone(i)' \/ \E k \in 1..(m - 1) : stack'[k].step = log'[i].step
    <3>1. \A i \in 1..n :
            CompensateOnFailure /\ Current(i) /\ log[i].kind = "did"
            /\ log[i].node \in Compensable
              => Undone(i) \/ \E k \in 1..m : stack[k].step = log[i].step
      BY Zenon, <1>17
    <3>2. \A k \in 1..m : k \in 1..(m - 1) \/ k = m
      BY <1>1
    <3> QED
      BY <1>3, <1>5, <1>6, <1>7, <1>8, <1>9, <3>1, <3>2
  <2>6. \A k \in 1..(m - 1) :
          /\ stack'[k].step < StepBound'
          /\ \E i \in 1..(n + 1) :
               /\ Current(i)' /\ log'[i].kind = "did"
               /\ log'[i].node = stack'[k].node /\ log'[i].step = stack'[k].step
    BY Zenon, <1>10, <2>2, <2>3
  <2>7. \A i \in 1..(n + 1) : Current(i)' /\ log'[i].kind = "undid" =>
          /\ pc' = "compensating"
          /\ \A k \in 1..(m - 1) : stack'[k].step < log'[i].step
    BY <1>4, <2>4, Zenon
  <2> QED
    BY <1>6, <1>7, <2>1, <2>5, <2>6, <2>7, SMTT(15) DEF StackFollowsLog
<1>13. CompensatesInReverse'
  <2>1. \A i \in 1..n : log[i].kind = "undid" /\ log[i].attempt = attempt
          => r.step < log[i].step
    BY Zenon, <1>2, <1>3, <1>16 DEF Current
  <2>2. \E i \in 1..n : /\ log[i].kind = "did" /\ log[i].node = r.node
                        /\ log[i].step = r.step /\ log[i].attempt = attempt
    BY Zenon, <1>2, <1>3, <1>15 DEF Current
  <2>3. SUFFICES ASSUME NEW j \in 1..(n + 1), log'[j].kind = "undid"
        PROVE  /\ \A i \in 1..(j - 1) :
                    log'[i].kind = "undid" /\ log'[i].attempt = log'[j].attempt
                      => log'[j].step < log'[i].step
               /\ \E i \in 1..(j - 1) :
                    /\ log'[i].kind = "did" /\ log'[i].node = log'[j].node
                    /\ log'[i].step = log'[j].step /\ log'[i].attempt = log'[j].attempt
    BY Zenon, <1>6 DEF CompensatesInReverse
  <2>4. CASE j = n + 1
    <3>1. j - 1 = n /\ log'[j] = e
      BY <1>6, <2>4
    <3> QED
      BY <1>5, <1>6, <2>1, <2>2, <3>1
  <2>5. CASE j \in 1..n
    <3>1. \A i \in 1..(j - 1) : log'[i] = log[i]
      BY <1>1, <1>6, <2>5
    <3> QED
      BY <1>0, <1>6, <2>3, <2>5, <3>1, SMTT(15) DEF CompensatesInReverse
  <2> QED
    BY Zenon, <1>8, <2>4, <2>5
<1> QED
  BY Zenon, <1>12, <1>13

\* The inductive invariant of roll-back.
RollbackInv == LogOK /\ StackFollowsLog /\ CompensatesInReverse /\ AttemptRolledBack

\* Every step of the engine, every crash and every resumption keeps the
\* stack in line with the log, and a failure is reported only once the stack
\* is empty.
LEMMA RollbackStep ==
  WorkflowTypeOK /\ AttemptInv /\ RollbackInv /\ [WorkflowNext]_workflowVars => RollbackInv'
<1> SUFFICES ASSUME WorkflowTypeOK, AttemptInv, RollbackInv, [WorkflowNext]_workflowVars
             PROVE  RollbackInv'
  BY Zenon
<1>0. LogOK /\ StackFollowsLog /\ CompensatesInReverse /\ AttemptRolledBack /\ LogOK'
  BY Zenon, LogStep DEF RollbackInv
<1> USE <1>0
<1>1. step \in Nat
  BY Zenon DEF WorkflowTypeOK, LoopOK
<1>2. CASE \/ Exhausted \/ Stop \/ SaveFails \/ Misdirected \/ Complete \/ Crash
           \/ Cancel \/ CallNode \/ NodeFails \/ Save \/ Advance \/ Failed
  <2>1. UNCHANGED <<log, attempt>> /\ Live
    BY Zenon, <1>2 DEF Exhausted, Stop, SaveFails, Misdirected, Complete, Crash, Cancel,
       CallNode, NodeFails, Save, Advance, Failed, Live
  <2>2. CompensatesInReverse'
    BY <2>1, SMTT(15) DEF CompensatesInReverse
  <2>3. StackFollowsLog'
    <3>1. CASE pc' = "ended"
      BY Zenon, <3>1 DEF StackFollowsLog, Live
    <3>2. CASE Cancel \/ CallNode \/ NodeFails \/ Save \/ Advance
      <4>1. stack' = stack /\ (pc = "compensating" => pc' \in {"compensating", "ended"})
        BY Zenon, <3>2 DEF Cancel, CallNode, NodeFails, Save, Advance
      <4>2. step' \in Nat /\ StepBound <= StepBound'
        BY <1>1, <3>2 DEF Cancel, CallNode, NodeFails, Save, Advance, StepBound
      <4> QED
        BY Zenon, <2>1, <4>1, <4>2, StackSame
    <3> QED
      BY Zenon, <1>2, <3>1, <3>2 DEF Exhausted, Stop, SaveFails, Misdirected, Complete, Crash, Failed
  <2>4. AttemptRolledBack'
    <3>1. CASE Failed
      <4>1. Len(stack) = 0 /\ \A i \in 1..Len(log) : Undone(i)' <=> Undone(i)
        BY Zenon, <2>1, <3>1 DEF Failed, Undone
      <4>2. \A i \in 1..Len(log) :
              CompensateOnFailure /\ Current(i) /\ log[i].kind = "did" /\ log[i].node \in Compensable
                => Undone(i)
        BY <2>1, <4>1 DEF StackFollowsLog
      <4> QED
        BY Zenon, <2>1, <4>1, <4>2 DEF AttemptRolledBack, Current
    <3>2. CASE pc' # "ended" \/ status' # "failed"
      BY Zenon, <3>2 DEF AttemptRolledBack
    <3> QED
      BY Zenon, <1>2, <3>1, <3>2 DEF Exhausted, Stop, SaveFails, Misdirected, Complete, Crash,
         Cancel, CallNode, NodeFails, Save, Advance, Live
  <2> QED
    BY Zenon, <2>2, <2>3, <2>4 DEF RollbackInv
<1>3. ASSUME NEW t \in Names, NodeReturns(t) PROVE RollbackInv'
  <2>1. StackFollowsLog'
    BY Zenon, <1>3, StackPushed
  <2>2. AttemptRolledBack'
    BY Zenon, <1>3 DEF NodeReturns, AttemptRolledBack
  <2>3. CompensatesInReverse'
    <3>0. PICK n \in Nat : n = Len(log)
      BY Zenon, LogFields
    <3>1. Did(node, t) \in Entry /\ Did(node, t).kind = "did"
      BY Zenon, LogFields DEF Did, Entry, WorkflowTypeOK, LoopOK
    <3>2. /\ Len(log') = n + 1 /\ log'[n + 1].kind = "did"
          /\ \A i \in 1..n : log'[i] = log[i]
      BY Zenon, <1>3, <3>0, <3>1, LogAppend DEF LogOK, NodeReturns
    <3>3. SUFFICES ASSUME NEW j \in 1..(n + 1), log'[j].kind = "undid"
          PROVE  /\ \A i \in 1..(j - 1) :
                      log'[i].kind = "undid" /\ log'[i].attempt = log'[j].attempt
                        => log'[j].step < log'[i].step
                 /\ \E i \in 1..(j - 1) :
                      /\ log'[i].kind = "did" /\ log'[i].node = log'[j].node
                      /\ log'[i].step = log'[j].step /\ log'[i].attempt = log'[j].attempt
      BY Zenon, <3>2 DEF CompensatesInReverse
    <3>4. j \in 1..n /\ \A i \in 1..(j - 1) : i \in 1..n
      BY <3>2, <3>3
    <3>5. log'[j] = log[j] /\ \A i \in 1..(j - 1) : log'[i] = log[i]
      BY Zenon, <3>2, <3>4
    <3>6. /\ \A i \in 1..(j - 1) :
               log[i].kind = "undid" /\ log[i].attempt = log[j].attempt
                 => log[j].step < log[i].step
          /\ \E i \in 1..(j - 1) :
               /\ log[i].kind = "did" /\ log[i].node = log[j].node
               /\ log[i].step = log[j].step /\ log[i].attempt = log[j].attempt
      BY Zenon, <3>0, <3>3, <3>4, <3>5 DEF CompensatesInReverse
    <3> QED
      BY Zenon, <3>5, <3>6
  <2> QED
    BY Zenon, <2>1, <2>2, <2>3 DEF RollbackInv
<1>4. CASE Compensate
  <2>1. StackFollowsLog' /\ CompensatesInReverse'
    BY Zenon, <1>4, StackPopped
  <2>2. AttemptRolledBack'
    BY Zenon, <1>4 DEF Compensate, AttemptRolledBack
  <2> QED
    BY Zenon, <2>1, <2>2 DEF RollbackInv
<1>5. CASE Run
  <2>1. log' = log /\ attempt' = attempt + 1 /\ stack' = <<>> /\ pc' = "loop"
    BY <1>5 DEF Run, AttemptInv, LogOK
  <2> QED
    BY Zenon, <2>1, StackNew DEF RollbackInv, AttemptRolledBack, CompensatesInReverse
<1>6. CASE Resume
  <2>1. /\ log' = log /\ attempt' = attempt + 1
        /\ \/ pc' = "loop" /\ stack' = <<>>
           \/ pc' = "ended" /\ status' # "failed"
    BY Zenon, <1>6 DEF Resume
  <2>2. CompensatesInReverse'
    BY Zenon, <2>1 DEF CompensatesInReverse
  <2>3. StackFollowsLog'
    <3>1. CASE pc' = "ended"
      BY Zenon, <3>1 DEF StackFollowsLog, Live
    <3> QED
      BY Zenon, <2>1, <3>1, StackNew
  <2>4. AttemptRolledBack'
    BY <2>1, SMTT(15) DEF AttemptRolledBack
  <2> QED
    BY Zenon, <2>2, <2>3, <2>4 DEF RollbackInv
<1>7. CASE UNCHANGED workflowVars
  <2>1. UNCHANGED <<pc, status, step, stack, attempt, log>>
    BY <1>7, Zenon DEF workflowVars
  <2>2. LogOK' /\ CompensatesInReverse'
    BY <2>1 DEF RollbackInv, LogOK, CompensatesInReverse
  <2>3. AttemptRolledBack'
    BY <2>1 DEF RollbackInv, AttemptRolledBack, Undone
  <2>4. StackFollowsLog'
    BY <2>1 DEF RollbackInv, StackFollowsLog, Undone, Current, StepBound, Live
  <2> QED
    BY <2>2, <2>3, <2>4, Zenon DEF RollbackInv
<1> QED
  BY Zenon, <1>2, <1>3, <1>4, <1>5, <1>6, <1>7 DEF WorkflowNext, Engine

\* A new run has an empty log and an empty stack.
LEMMA RollbackInit == WorkflowInit => RollbackInv
<1> SUFFICES ASSUME WorkflowInit PROVE RollbackInv
  BY Zenon
<1>1. log = <<>> /\ stack = <<>> /\ pc = "idle" /\ Len(log) = 0 /\ Len(stack) = 0
  BY Zenon DEF WorkflowInit
<1>2. LogOK
  BY <1>1 DEF LogOK
<1>3. (\A i \in 1..Len(log) : FALSE) /\ (\A k \in 1..Len(stack) : FALSE)
  BY <1>1
<1>4. StackFollowsLog
  BY <1>3, Zenon DEF StackFollowsLog
<1>5. CompensatesInReverse /\ AttemptRolledBack
  BY <1>3, Zenon DEF CompensatesInReverse, AttemptRolledBack
<1> QED
  BY Zenon, <1>2, <1>4, <1>5 DEF RollbackInv

\* A run and its resumptions keep the log and the stack in line throughout.
LEMMA RollbackInvariant == WorkflowSpec => []RollbackInv
BY RollbackInit, RollbackStep, WorkflowTypeCorrect, CheckpointInvariant, PTL DEF WorkflowSpec

\* Compensations run in the reverse of the order in which the attempt's nodes
\* completed, each once and only for nodes that did, in every graph, cyclic
\* ones included, and however often the run crashes and is resumed.
THEOREM CompensationReversed == WorkflowSpec => []CompensatesInReverse
BY RollbackInvariant, PTL DEF RollbackInv

\* A run reported as failed has had every compensable node that its attempt
\* completed compensated.
THEOREM FailureRolledBack == WorkflowSpec => []AttemptRolledBack
BY RollbackInvariant, PTL DEF RollbackInv

-----------------------------------------------------------------------------
(* RalphLoop: the progress file over restarts. *)

\* Adding an iteration or a boolean to the window keeps it a sequence.
LEMMA WindowKept ==
    ASSUME NEW w \in Seq(BOOLEAN), NEW b \in BOOLEAN
    PROVE  /\ Append(w, b) \in Seq(BOOLEAN)
           /\ Tail(Append(w, b)) \in Seq(BOOLEAN)
OBVIOUS

\* What the fields of a progress record are.
LEMMA ProgressFields ==
    ASSUME NEW p \in Progress
    PROVE  p.iteration \in Nat /\ p.completed \in SUBSET Ids
BY Zenon DEF Progress

\* The values that a new Loop starts from are of their types.
LEMMA FreshTypes ==
    /\ NoProgress \in Progress /\ NoDecision \in Decision
    /\ Tasks \in SUBSET Ids /\ ClosedBreaker \in Breakers /\ NewGovernor \in Governors
<1>1. NoProgress \in Progress /\ NoDecision \in Decision
  BY Zenon DEF NoProgress, Progress, NoDecision, Decision
<1>2. Tasks \in SUBSET Ids
  BY Zenon, TasksAssumption
<1>3. NewGovernor \in Governors
  BY DEF NewGovernor, Governors
<1>4. ClosedBreaker \in Breakers
  BY Zenon DEF ClosedBreaker, Breakers
<1> QED
  BY Zenon, <1>1, <1>2, <1>3, <1>4

\* A progress record whose status is set is one, and only its status differs.
LEMMA StatusSet ==
    ASSUME NEW p \in Progress, NEW s \in {"running", "completed", "failed", "stopped"}
    PROVE  LET q == [p EXCEPT !.status = s]
           IN  /\ q \in Progress /\ q.status = s
               /\ q.iteration = p.iteration /\ q.completed = p.completed
BY Zenon DEF Progress

\* So is one whose iteration is counted, ...
LEMMA IterationSet ==
    ASSUME NEW p \in Progress, NEW n \in Nat
    PROVE  LET q == [p EXCEPT !.iteration = n]
           IN  /\ q \in Progress /\ q.iteration = n
               /\ q.status = p.status /\ q.completed = p.completed
BY Zenon DEF Progress

\* ... and one to which a completed task is added.
LEMMA TaskAdded ==
    ASSUME NEW p \in Progress, NEW t \in Ids
    PROVE  LET q == [p EXCEPT !.completed = @ \cup {t}]
           IN  /\ q \in Progress /\ q.completed = p.completed \cup {t}
               /\ q.status = p.status /\ q.iteration = p.iteration
BY Zenon DEF Progress

\* What Run loads is a progress record: the file, or a fresh one.
LEMMA Loaded ==
    ASSUME LoopTypeOK
    PROVE  /\ LoadProgress \in Progress /\ NoProgress \in Progress
           /\ ~config.forceRestart => LoadProgress = file
           /\ config.forceRestart => LoadProgress = NoProgress
BY Zenon DEF LoopTypeOK, LoadProgress, NoProgress, Progress

\* A save leaves a progress record in the file, whether it fails or not.
LEMMA SaveTypes ==
    ASSUME LoopTypeOK, progress' \in Progress, SaveProgress
    PROVE  file' \in Progress /\ unsaved' \in Nat /\ faults' \in Nat
<1>1. file \in Progress /\ unsaved \in Nat /\ faults \in Nat
  BY Zenon DEF LoopTypeOK
<1>2. CASE file' = progress' /\ unsaved' = 0 /\ UNCHANGED faults
  BY <1>1, <1>2
<1>3. CASE UNCHANGED file /\ unsaved' = unsaved + 1 /\ Fault
  BY <1>1, <1>3 DEF Fault
<1> QED
  BY Zenon, <1>2, <1>3 DEF SaveProgress

\* A Loop starts with variables of their types.
LEMMA LoopTypeInit == Init => LoopTypeOK
<1> SUFFICES ASSUME Init PROVE LoopTypeOK
  BY Zenon
<1>1. specModified \in BOOLEAN /\ stop \in BOOLEAN /\ cooled \in BOOLEAN /\ costDowngrade \in BOOLEAN
  BY Zenon DEF Init
<1> QED
  BY Zenon, <1>1, FreshTypes DEF Init, LoopTypeOK

\* The guards keep their types: the breaker admits and records, the governor
\* counts.
LEMMA GuardTypes ==
    ASSUME LoopTypeOK
    PROVE  /\ Admit => breaker' \in Breakers
           /\ RecordResult => breaker' \in Breakers /\ cooled' \in BOOLEAN
           /\ RecordedCost \in Governors
<1>1. breaker \in Breakers /\ governor \in Governors /\ decision \in Decision
      /\ errorKey \in Errors \cup {NoError} /\ cooled \in BOOLEAN
  BY Zenon DEF LoopTypeOK
<1>2. Admit => breaker' \in Breakers
  BY Zenon, <1>1 DEF Admit, Breakers
<1>3. SameError \in Nat /\ ProgressMade \in Breakers
  BY <1>1 DEF SameError, ProgressMade, ClosedBreaker, Breakers
<1>4. hasProgress \in BOOLEAN
  BY Zenon, <1>1 DEF hasProgress, Decision
<1>5. [state |-> IF Trips THEN "open" ELSE breaker.state,
       noProgress |-> breaker.noProgress + 1,
       sameError |-> SameError, lastError |-> errorKey] \in Breakers
  BY <1>1, <1>3 DEF Breakers
<1>6. RecordResult => breaker' \in Breakers /\ cooled' \in BOOLEAN
  BY Zenon, <1>1, <1>3, <1>5 DEF RecordResult
<1>7. RecordedCost \in Governors
  <2>1. governor.tokens \in Nat /\ governor.streak \in Nat /\ governor.recent \in Seq(BOOLEAN)
    BY Zenon, <1>1 DEF Governors
  <2>2. /\ Append(governor.recent, hasProgress) \in Seq(BOOLEAN)
        /\ Tail(Append(governor.recent, hasProgress)) \in Seq(BOOLEAN)
    BY Zenon, <2>1, <1>4, WindowKept
  <2> DEFINE w == Append(governor.recent, hasProgress)
             k == IF hasProgress THEN 0 ELSE governor.streak + 1
             v == IF Len(w) > VelocityWindow THEN Tail(w) ELSE w
  <2>3. RecordedCost = [tokens |-> governor.tokens + 1, streak |-> k, recent |-> v]
    BY Zenon DEF RecordedCost
  <2>4. k \in Nat
    BY <2>1
  <2>5. w \in Seq(BOOLEAN) /\ Tail(w) \in Seq(BOOLEAN)
    BY Zenon, <2>2
  <2> HIDE DEF w, k
  <2>6. v \in Seq(BOOLEAN)
    BY Zenon, <2>5
  <2>7. governor.tokens + 1 \in Nat
    BY <2>1
  <2> HIDE DEF v
  <2> QED
    BY <2>3, <2>4, <2>6, <2>7, Zenon DEF Governors
<1> QED
  BY Zenon, <1>2, <1>6, <1>7

\* Every step of the loop, of its environment and a crash keep the types.
LEMMA LoopTypeStep == LoopTypeOK /\ [Next]_vars => LoopTypeOK'
<1> SUFFICES ASSUME LoopTypeOK, [Next]_vars PROVE LoopTypeOK'
  BY Zenon
<1> USE DEF LoopTypeOK
<1>1. CASE RunLoop
  <2>1. LoadProgress \in Progress
    BY Zenon, Loaded
  <2>2. [LoadProgress EXCEPT !.status = "running"] \in Progress
    BY Zenon, <2>1, StatusSet
  <2>3. progress' \in Progress
    BY Zenon, <1>1, <2>1, <2>2 DEF RunLoop
  <2>4. /\ specModified' \in BOOLEAN /\ stop' \in BOOLEAN /\ costDowngrade' \in BOOLEAN
        /\ cooled' \in BOOLEAN
    BY <1>1, Zenon DEF RunLoop
  <2> QED
    BY <1>1, <2>3, <2>4, FreshTypes DEF RunLoop
<1>2. CASE Stopped \/ BreakerOpen
  BY Zenon, <1>2 DEF Stopped, BreakerOpen, Leave, round, guards, disk, past
<1>3. CASE Paused
  BY Zenon, <1>3, GuardTypes DEF Paused, Leave, round, disk, past
<1>4. CASE OutOfIterations
  BY Zenon, <1>4, GuardTypes, StatusSet, SaveTypes DEF OutOfIterations, round, past
<1>5. CASE BeginIteration
  <2>1. progress' \in Progress
    <3>1. NextIteration \in Nat
      BY ProgressFields DEF NextIteration
    <3> QED
      BY Zenon, <1>5, <3>1, IterationSet DEF BeginIteration
  <2> QED
    BY <1>5, <2>1, GuardTypes DEF BeginIteration, Goto, Leave, round, disk, past
<1>6. CASE SamplerFails
  BY <1>6, SaveTypes DEF SamplerFails, Recorded, Goto, Leave, guards, past
<1>7. CASE StoppedInBackoff
  BY Zenon, <1>7 DEF StoppedInBackoff, Leave, round, guards, disk, past
<1>8. CASE Undecided
  BY Zenon, <1>8, SaveTypes DEF Undecided, Recorded, Goto, guards, past
<1>9. CASE \E d \in Decision : Rejected(d) \/ Completed(d) \/ Decided(d)
  <2> PICK d \in Decision : Rejected(d) \/ Completed(d) \/ Decided(d)
    BY Zenon, <1>9
  <2>1. CASE Rejected(d)
    BY <2>1, SaveTypes DEF Rejected, Recorded, Goto, past
  <2>2. CASE Completed(d)
    BY Zenon, <2>2, SaveTypes DEF Completed, Recorded, Leave, guards, past
  <2>3. CASE Decided(d)
    BY <2>3 DEF Decided, Goto, guards, disk, past
  <2> QED
    BY Zenon, <2>1, <2>2, <2>3
<1>10. CASE \E e \in Errors \cup {NoError} : RunTools(e)
  BY <1>10 DEF RunTools, Goto, guards, disk
<1>11. CASE MarkDone
  <2>1. progress' \in Progress
    BY <1>11, TaskAdded DEF MarkDone, Decision
  <2>2. spec' \in SUBSET Ids /\ specModified' \in BOOLEAN
    BY Zenon, <1>11, TasksAssumption DEF MarkDone, injectSubTasks
  <2> QED
    BY Zenon, <1>11, <2>1, <2>2 DEF MarkDone, Goto, guards, disk, past
<1>12. CASE recordIteration
  BY <1>12, SaveTypes DEF recordIteration, Recorded, Goto, round, past
<1>13. CASE Guard
  <2>1. breaker' \in Breakers /\ cooled' \in BOOLEAN /\ RecordedCost \in Governors
    BY Zenon, <1>13, GuardTypes DEF Guard
  <2> QED
    BY Zenon, <1>13, <2>1, FreshTypes DEF Guard, Halt, Goto, Leave, disk, past
<1>14. CASE setStatus
  <2>1. progress' \in Progress
    BY Zenon, <1>14, StatusSet DEF setStatus
  <2> QED
    BY Zenon, <1>14, <2>1, SaveTypes DEF setStatus, Goto, round, guards, past
<1>15. CASE StopLoop
  BY <1>15 DEF StopLoop, round, guards, disk, past
<1>16. CASE Cooldown
  BY <1>16 DEF Cooldown, round, disk, past
<1>17. CASE CostDowngradeRequested
  <2>1. costDowngrade' \in BOOLEAN
    BY <1>17, Zenon DEF CostDowngradeRequested
  <2> QED
    BY <1>17, <2>1 DEF CostDowngradeRequested, round, disk, past
<1>18. CASE LoopCrash
  <2>1. /\ specModified' \in BOOLEAN /\ stop' \in BOOLEAN /\ costDowngrade' \in BOOLEAN
        /\ cooled' \in BOOLEAN
    BY <1>18, Zenon DEF LoopCrash
  <2>2. faults' \in Nat
    BY <1>18 DEF LoopCrash, Fault
  <2> QED
    BY <1>18, <2>1, <2>2, FreshTypes DEF LoopCrash
<1>19. CASE UNCHANGED vars
  BY <1>19 DEF vars, round, guards, disk, past
<1> QED
  BY Zenon, <1>1, <1>2, <1>3, <1>4, <1>5, <1>6, <1>7, <1>8, <1>9, <1>10, <1>11, <1>12, <1>13, <1>14,
     <1>15, <1>16, <1>17, <1>18, <1>19 DEF Next, Loop

\* The loop's variables keep their types.
THEOREM LoopTypeCorrect == Spec => []LoopTypeOK
BY LoopTypeInit, LoopTypeStep, PTL DEF Spec

\* What the loop keeps, all together.
LoopInv == FileBehind /\ StatusRunning /\ WorkCounted /\ DependencyOrder /\ OutcomeRecorded

\* It holds of a new Loop and a missing progress file.
LEMMA LoopInvInit == Init => LoopInv
<1> SUFFICES ASSUME Init PROVE LoopInv
  BY Zenon
<1>1. /\ at = "ended" /\ outcome = "none" /\ executed = 0 /\ faults = 0
      /\ progress.iteration = 0 /\ progress.completed = {}
      /\ file.iteration = 0 /\ file.completed = {}
  BY Zenon DEF Init, NoProgress
<1>2. FileBehind /\ StatusRunning /\ OutcomeRecorded
  BY Zenon, <1>1 DEF FileBehind, StatusRunning, OutcomeRecorded
<1>3. WorkCounted
  BY <1>1, LoopConfigAssumption DEF WorkCounted
<1>4. DependencyOrder
  BY Zenon, <1>1 DEF DependencyOrder, InOrder
<1> QED
  BY Zenon, <1>2, <1>3, <1>4 DEF LoopInv

\* The counts are numbers.
LEMMA LoopCounts ==
    ASSUME LoopTypeOK
    PROVE  /\ progress.iteration \in Nat /\ file.iteration \in Nat
           /\ executed \in Nat /\ faults \in Nat /\ unsaved \in Nat
BY Zenon, ProgressFields DEF LoopTypeOK

\* Run takes up what the file has, or begins afresh.
LEMMA RunLoopKeeps == LoopTypeOK /\ LoopInv /\ RunLoop => LoopInv'
<1> SUFFICES ASSUME LoopTypeOK, LoopInv, RunLoop PROVE LoopInv'
  BY Zenon
<1>1. /\ LoadProgress \in Progress
      /\ ~config.forceRestart => LoadProgress = file
      /\ config.forceRestart => LoadProgress = NoProgress
  BY Zenon, Loaded
<1>2. /\ at = "ended" /\ file' = file /\ config' = config /\ executed' = executed
      /\ faults' = faults /\ unsaved' = 0
  BY Zenon DEF RunLoop
<1>3. /\ progress'.iteration = LoadProgress.iteration
      /\ progress'.completed = LoadProgress.completed
      /\ at' = "ended" => /\ progress' = LoadProgress /\ LoadProgress.status = "completed"
                          /\ outcome' = "completed"
      /\ at' # "ended" => /\ at' = "head" /\ progress'.status = "running"
                          /\ LoadProgress.status # "completed" /\ outcome' = "none"
  <2>1. CASE LoadProgress.status = "completed"
    BY <2>1 DEF RunLoop
  <2>2. CASE LoadProgress.status # "completed"
    <3>1. /\ progress' = [LoadProgress EXCEPT !.status = "running"]
          /\ at' = "head" /\ outcome' = "none"
      BY <2>2 DEF RunLoop
    <3>2. /\ progress'.iteration = LoadProgress.iteration
          /\ progress'.completed = LoadProgress.completed /\ progress'.status = "running"
      BY <3>1, <1>1, StatusSet
    <3> QED
      BY <2>2, <3>1, <3>2
  <2> QED
    BY <2>1, <2>2
<1>4. at' \in {"ended", "head"}
  BY Zenon, <1>3
<1>5. NoProgress.iteration = 0 /\ NoProgress.completed = {} /\ NoProgress.status = ""
  BY Zenon DEF NoProgress
<1>6. FileBehind'
  BY <1>1, <1>2, <1>3, LoopCounts DEF FileBehind
<1>7. StatusRunning'
  BY Zenon, <1>1, <1>2, <1>3 DEF StatusRunning
<1>8. WorkCounted'
  <2>1. /\ file.iteration \in Nat /\ file.iteration <= MaxIterations
        /\ ~config.forceRestart => executed <= file.iteration + faults
    BY <1>2, LoopCounts DEF LoopInv, WorkCounted
  <2>2. progress'.iteration <= MaxIterations
    <3>1. CASE config.forceRestart
      <4>1. LoadProgress = NoProgress
        BY <3>1, <1>1, Zenon
      <4>2. progress'.iteration = 0
        BY Zenon, <4>1, <1>3, <1>5
      <4> QED
        BY <4>2, LoopConfigAssumption
    <3>2. CASE ~config.forceRestart
      BY Zenon, <3>2, <1>1, <1>3, <2>1
    <3> QED
      BY Zenon, <3>1, <3>2
  <2> QED
    BY <1>2, <1>4, <2>1, <2>2, LoopCounts DEF WorkCounted
<1>9. DependencyOrder'
  BY Zenon, <1>1, <1>2, <1>3, <1>5 DEF DependencyOrder, InOrder, LoopInv
<1>10. OutcomeRecorded'
  <2>1. ~(unsaved' > 0)
    BY <1>2
  <2> QED
    BY Zenon, <1>1, <1>2, <1>3, <1>5, <2>1 DEF OutcomeRecorded
<1> QED
  BY Zenon, <1>6, <1>7, <1>8, <1>9, <1>10 DEF LoopInv

\* A crash loses the iteration under way, and is counted.
LEMMA LoopCrashKeeps == LoopTypeOK /\ LoopInv /\ LoopCrash => LoopInv'
<1> SUFFICES ASSUME LoopTypeOK, LoopInv, LoopCrash PROVE LoopInv'
  BY Zenon
<1>1. /\ at # "ended" /\ at' = "ended" /\ outcome' = "crashed" /\ faults' = faults + 1
      /\ progress' = NoProgress /\ file' = file /\ config' = config /\ executed' = executed
  BY Zenon DEF LoopCrash, Fault
<1>2. NoProgress.iteration = 0 /\ NoProgress.completed = {}
  BY Zenon DEF NoProgress
<1>3. WorkCounted'
  BY <1>1, <1>2, LoopCounts, LoopConfigAssumption DEF WorkCounted, LoopInv
<1>4. FileBehind' /\ StatusRunning' /\ OutcomeRecorded'
  BY Zenon, <1>1 DEF FileBehind, StatusRunning, OutcomeRecorded
<1>5. DependencyOrder'
  BY Zenon, <1>1, <1>2 DEF DependencyOrder, InOrder, LoopInv
<1> QED
  BY Zenon, <1>3, <1>4, <1>5 DEF LoopInv

\* The steps that leave the progress and the file alone.
LEMMA QuietKeeps ==
    ASSUME LoopTypeOK, LoopInv,
           Stopped \/ BreakerOpen \/ Paused \/ StoppedInBackoff
             \/ (\E d \in Decision : Decided(d))
             \/ (\E e \in Errors \cup {NoError} : RunTools(e)) \/ Guard
    PROVE  LoopInv'
<1> DEFINE quiet == UNCHANGED <<config, progress, file, unsaved, faults>>
<1>1. quiet
  BY Zenon DEF Stopped, BreakerOpen, Paused, StoppedInBackoff, Decided, RunTools, Guard, disk
<1>2. DependencyOrder'
  BY Zenon, <1>1 DEF DependencyOrder, InOrder, LoopInv
<1>3. ASSUME at \notin {"ended", "record"}, at' \notin {"record", "ended"},
             at' \in {"head", "guards"} => at \in {"head", "guards"},
             at' \in {"sample", "tools", "mark"} => at \in {"sample", "tools", "mark"}
      PROVE  FileBehind' /\ StatusRunning' /\ OutcomeRecorded'
  BY Zenon, <1>1, <1>3 DEF LoopInv, FileBehind, StatusRunning, OutcomeRecorded
<1>4. ASSUME executed' = executed, at \notin {"mark", "record"}, at' \notin {"mark", "record"}
      PROVE  WorkCounted'
  BY Zenon, <1>1, <1>4 DEF LoopInv, WorkCounted
<1>5. CASE Stopped \/ BreakerOpen \/ StoppedInBackoff
  <2>1. executed' = executed /\ at' = "leave" /\ at \in {"head", "sample"}
    BY Zenon, <1>5 DEF Stopped, BreakerOpen, StoppedInBackoff, Leave, past
  <2> QED
    BY Zenon, <1>2, <1>3, <1>4, <2>1 DEF LoopInv
<1>6. CASE Paused
  <2>1. /\ executed' = executed /\ at = "head"
        /\ \/ at' = "leave" /\ outcome' = "stopped"
           \/ at' = "ended" /\ outcome' = "paused"
    BY Zenon, <1>6 DEF Paused, Leave, past
  <2>2. FileBehind' /\ StatusRunning' /\ OutcomeRecorded'
    BY Zenon, <1>1, <2>1 DEF LoopInv, FileBehind, StatusRunning, OutcomeRecorded
  <2> QED
    BY Zenon, <1>2, <1>4, <2>1, <2>2 DEF LoopInv
<1>7. CASE \E d \in Decision : Decided(d)
  <2>1. executed' = executed /\ at = "sample" /\ at' = "tools"
    BY Zenon, <1>7 DEF Decided, Goto, past
  <2> QED
    BY Zenon, <1>2, <1>3, <1>4, <2>1 DEF LoopInv
<1>8. CASE \E e \in Errors \cup {NoError} : RunTools(e)
  <2>1. executed' = executed + 1 /\ at = "tools" /\ at' = "mark"
    BY Zenon, <1>8 DEF RunTools, Goto
  <2>2. WorkCounted'
    BY <1>1, <2>1, LoopCounts DEF LoopInv, WorkCounted
  <2> QED
    BY Zenon, <1>2, <1>3, <2>1, <2>2 DEF LoopInv
<1>9. CASE Guard
  <2>1. executed' = executed /\ at = "guards" /\ at' \in {"leave", "head"}
    BY Zenon, <1>9 DEF Guard, Halt, Leave, Goto, past
  <2> QED
    BY Zenon, <1>2, <1>3, <1>4, <2>1 DEF LoopInv
<1> QED
  BY Zenon, <1>5, <1>6, <1>7, <1>8, <1>9

\* A save either brings the file up to date, or leaves it, and is counted.
LEMMA SaveSteps ==
    SaveProgress => \/ file' = progress' /\ unsaved' = 0 /\ faults' = faults
                    \/ file' = file /\ unsaved' = unsaved + 1 /\ faults' = faults + 1
BY Zenon DEF SaveProgress, Fault

\* The steps that end an iteration, or record it, by saving the progress.
LEMMA SavedKeeps ==
    ASSUME LoopTypeOK, LoopInv,
           SamplerFails \/ Undecided \/ (\E d \in Decision : Rejected(d) \/ Completed(d))
             \/ recordIteration
    PROVE  LoopInv'
<1>1. config' = config /\ progress' = progress /\ executed' = executed /\ SaveProgress
  BY Zenon DEF SamplerFails, Undecided, Rejected, Completed, recordIteration, Recorded, past
<1>2. at \in {"sample", "record"} /\ at' \in {"head", "leave", "guards"}
  BY Zenon DEF SamplerFails, Undecided, Rejected, Completed, recordIteration, Leave, Goto
<1>3. StatusRunning' /\ OutcomeRecorded'
  BY Zenon, <1>1, <1>2, SaveSteps DEF LoopInv, StatusRunning, OutcomeRecorded
<1>4. DependencyOrder'
  BY Zenon, <1>1, SaveSteps DEF LoopInv, DependencyOrder, InOrder
<1>5. CASE file' = progress' /\ unsaved' = 0 /\ faults' = faults
  <2>1. FileBehind'
    BY <1>1, <1>2, <1>5, LoopCounts DEF FileBehind
  <2>2. ~config.forceRestart => file.iteration < progress.iteration
    BY Zenon, <1>2 DEF LoopInv, FileBehind
  <2>3. WorkCounted'
    BY <1>1, <1>2, <1>5, <2>2, LoopCounts DEF LoopInv, WorkCounted
  <2> QED
    BY Zenon, <1>3, <1>4, <2>1, <2>3 DEF LoopInv
<1>6. CASE file' = file /\ unsaved' = unsaved + 1 /\ faults' = faults + 1
  <2>1. unsaved' # 0
    BY <1>6, LoopCounts
  <2>2. FileBehind'
    BY <1>1, <1>2, <1>6, <2>1, LoopCounts DEF LoopInv, FileBehind
  <2>3. WorkCounted'
    BY <1>1, <1>2, <1>6, LoopCounts DEF LoopInv, WorkCounted
  <2> QED
    BY Zenon, <1>3, <1>4, <2>2, <2>3 DEF LoopInv
<1> QED
  BY Zenon, <1>1, <1>5, <1>6, SaveSteps

\* Run ends, out of iterations or with setStatus, with its status in the file
\* or with a save that failed.
LEMMA EndKeeps == LoopTypeOK /\ LoopInv /\ (OutOfIterations \/ setStatus) => LoopInv'
<1> SUFFICES ASSUME LoopTypeOK, LoopInv, OutOfIterations \/ setStatus PROVE LoopInv'
  BY Zenon
<1>1. /\ config' = config /\ executed' = executed /\ SaveProgress
      /\ at \in {"head", "leave"} /\ at' = "ended"
  BY Zenon DEF OutOfIterations, setStatus, Goto, past
<1>2. /\ progress'.iteration = progress.iteration /\ progress'.completed = progress.completed
      /\ progress'.status = outcome'
  <2>1. CASE OutOfIterations
    BY Zenon, <2>1, StatusSet DEF OutOfIterations, LoopTypeOK
  <2>2. CASE setStatus
    BY <2>2, StatusSet DEF setStatus, LoopTypeOK, Goto
  <2> QED
    BY Zenon, <2>1, <2>2
<1>3. FileBehind' /\ StatusRunning'
  BY Zenon, <1>1 DEF FileBehind, StatusRunning
<1>4. DependencyOrder'
  BY Zenon, <1>1, <1>2, SaveSteps DEF LoopInv, DependencyOrder, InOrder
<1>5. ~config.forceRestart => file.iteration <= progress.iteration /\ file.status # "completed"
  BY Zenon, <1>1 DEF LoopInv, FileBehind, StatusRunning
<1>6. CASE file' = progress' /\ unsaved' = 0 /\ faults' = faults
  <2>1. OutcomeRecorded'
    BY <1>2, <1>6 DEF OutcomeRecorded
  <2>2. WorkCounted'
    BY <1>1, <1>2, <1>5, <1>6, LoopCounts DEF LoopInv, WorkCounted
  <2> QED
    BY Zenon, <1>3, <1>4, <2>1, <2>2 DEF LoopInv
<1>7. CASE file' = file /\ unsaved' = unsaved + 1 /\ faults' = faults + 1
  <2>1. unsaved' # 0
    BY <1>7, LoopCounts
  <2>2. OutcomeRecorded'
    BY Zenon, <1>1, <1>5, <1>7, <2>1 DEF OutcomeRecorded
  <2>3. WorkCounted'
    BY <1>1, <1>2, <1>7, LoopCounts DEF LoopInv, WorkCounted
  <2> QED
    BY Zenon, <1>3, <1>4, <2>2, <2>3 DEF LoopInv
<1> QED
  BY Zenon, <1>1, <1>6, <1>7, SaveSteps

\* An iteration is begun only within MaxIterations, from a head where the
\* file lacks only what failed to be saved.
LEMMA BeginKeeps == LoopTypeOK /\ LoopInv /\ BeginIteration => LoopInv'
<1> SUFFICES ASSUME LoopTypeOK, LoopInv, BeginIteration PROVE LoopInv'
  BY Zenon
<1>1. /\ UNCHANGED <<config, file, unsaved, faults, executed, decision>>
      /\ at = "head" /\ at' \in {"sample", "leave"} /\ progress.iteration + 1 <= MaxIterations
  BY Zenon DEF BeginIteration, Goto, Leave, round, disk, past
<1>2. /\ progress'.iteration = progress.iteration + 1 /\ progress'.completed = progress.completed
      /\ progress'.status = progress.status
  BY LoopCounts, IterationSet DEF BeginIteration, NextIteration, LoopTypeOK
<1>3. FileBehind'
  BY <1>1, <1>2, LoopCounts DEF LoopInv, FileBehind
<1>4. StatusRunning' /\ OutcomeRecorded'
  BY Zenon, <1>1, <1>2 DEF LoopInv, StatusRunning, OutcomeRecorded
<1>5. WorkCounted'
  BY <1>1, <1>2, LoopCounts, LoopConfigAssumption DEF LoopInv, WorkCounted
<1>6. DependencyOrder'
  BY Zenon, <1>1, <1>2 DEF LoopInv, DependencyOrder, InOrder
<1> QED
  BY Zenon, <1>3, <1>4, <1>5, <1>6 DEF LoopInv

\* A task is marked done only when all that it depends on is.
LEMMA MarkKeeps == LoopTypeOK /\ LoopInv /\ MarkDone => LoopInv'
<1> SUFFICES ASSUME LoopTypeOK, LoopInv, MarkDone PROVE LoopInv'
  BY Zenon
<1>1. /\ UNCHANGED <<config, file, unsaved, faults, executed, decision>>
      /\ at = "mark" /\ at' = "record"
  BY Zenon DEF MarkDone, Goto, disk, past
<1>2. \/ progress' = progress
      \/ /\ Markable(decision.task) /\ progress'.completed = progress.completed \cup {decision.task}
         /\ progress'.iteration = progress.iteration /\ progress'.status = progress.status
  <2>1. CASE progress' = progress
    BY Zenon, <2>1
  <2>2. CASE progress' # progress
    <3>1. /\ decision.task # NoTask /\ Markable(decision.task)
          /\ progress' = [progress EXCEPT !.completed = @ \cup {decision.task}]
      BY Zenon, <2>2 DEF MarkDone
    <3>2. decision.task \in Ids /\ progress \in Progress
      BY Zenon, <3>1 DEF LoopTypeOK, Decision
    <3> QED
      BY Zenon, <3>1, <3>2, TaskAdded
  <2> QED
    BY Zenon, <2>1, <2>2
<1>3. FileBehind'
  BY Zenon, <1>1, <1>2 DEF LoopInv, FileBehind
<1>4. StatusRunning' /\ OutcomeRecorded'
  BY Zenon, <1>1, <1>2 DEF LoopInv, StatusRunning, OutcomeRecorded
<1>5. WorkCounted'
  BY Zenon, <1>1, <1>2 DEF LoopInv, WorkCounted
<1>6. Markable(decision.task) => DependsOn[decision.task] \subseteq progress.completed
  BY Zenon DEF Markable, ReadyTasks, LoopInv, DependencyOrder, InOrder
<1>7. DependencyOrder'
  BY Zenon, <1>1, <1>2, <1>6 DEF LoopInv, DependencyOrder, InOrder
<1> QED
  BY Zenon, <1>3, <1>4, <1>5, <1>7 DEF LoopInv

\* Every step keeps the invariant.
LEMMA LoopInvStep == LoopTypeOK /\ LoopInv /\ [Next]_vars => LoopInv'
<1> SUFFICES ASSUME LoopTypeOK, LoopInv, [Next]_vars PROVE LoopInv'
  BY Zenon
<1>1. CASE UNCHANGED vars \/ StopLoop \/ Cooldown \/ CostDowngradeRequested
  <2>1. UNCHANGED <<config, at, outcome, progress, file, unsaved, faults, decision, executed>>
    BY Zenon, <1>1 DEF vars, StopLoop, Cooldown, CostDowngradeRequested, round, disk, past
  <2> QED
    BY Zenon, <2>1 DEF LoopInv, FileBehind, StatusRunning, WorkCounted, DependencyOrder, InOrder,
                OutcomeRecorded
<1>2. CASE Next
  BY Zenon, <1>1, <1>2, RunLoopKeeps, LoopCrashKeeps, QuietKeeps, SavedKeeps, EndKeeps, BeginKeeps,
     MarkKeeps DEF Next, Loop
<1> QED
  BY Zenon, <1>1, <1>2

\* The loop keeps the invariant over stops, crashes and new calls of Run.
LEMMA LoopInvariant == Spec => []LoopInv
BY LoopInvInit, LoopInvStep, LoopTypeCorrect, PTL DEF Spec

\* No task is completed before those it depends on, whatever the model decides
\* and however often the loop is stopped, crashes and is run again.
THEOREM DependenciesFirst == Spec => []DependencyOrder
BY LoopInvariant, PTL DEF LoopInv

\* Run returns with its outcome, and all it did, in the progress file, unless
\* its last save failed; then the file does not say that it completed.
THEOREM OutcomesRecorded == Spec => []OutcomeRecorded
BY LoopInvariant, PTL DEF LoopInv

\* A crash loses the iteration under way, and those whose save failed since
\* the last that did not, and no more.
THEOREM OneIterationLost == Spec => []OneIterationAtRisk
<1>1. LoopTypeOK /\ LoopInv => OneIterationAtRisk
  <2> SUFFICES ASSUME LoopTypeOK, LoopInv, at \notin {"ended", "leave"}, ~config.forceRestart
               PROVE  /\ progress.iteration \in file.iteration..(file.iteration + unsaved + 1)
                      /\ at = "head" => progress.iteration <= file.iteration + unsaved
                      /\ file.completed \subseteq progress.completed
                      /\ unsaved = 0 =>
                           /\ progress.completed \subseteq file.completed \cup {decision.task}
                           /\ at = "head" => progress.completed = file.completed
    BY Zenon DEF OneIterationAtRisk
  <2>1. progress.iteration \in file.iteration..(file.iteration + unsaved + 1)
    BY LoopCounts DEF LoopInv, FileBehind
  <2> QED
    BY Zenon, <2>1 DEF LoopInv, FileBehind
<1> QED
  BY <1>1, LoopTypeCorrect, LoopInvariant, PTL

\* MaxIterations bounds the iterations that run tools over all restarts, but
\* for one per crash and one per save that failed.
THEOREM WorkLimited == Spec => []WorkBounded
<1>1. LoopTypeOK /\ LoopInv => WorkBounded
  <2> SUFFICES ASSUME LoopTypeOK, LoopInv, ~config.forceRestart
               PROVE  executed <= MaxIterations + faults
    BY Zenon DEF WorkBounded
  <2>1. CASE at \in {"mark", "record"}
    <3>1. file.iteration < progress.iteration
      BY Zenon, <2>1 DEF LoopInv, FileBehind
    <3> QED
      BY <2>1, <3>1, LoopCounts, LoopConfigAssumption DEF LoopInv, WorkCounted
  <2>2. CASE at \notin {"mark", "record"}
    BY <2>2, LoopCounts, LoopConfigAssumption DEF LoopInv, WorkCounted
  <2> QED
    BY Zenon, <2>1, <2>2
<1> QED
  BY <1>1, LoopTypeCorrect, LoopInvariant, PTL

\* The steps that write the file, and what they leave in it.
LEMMA FileStep ==
    ASSUME LoopTypeOK, LoopInv, Next, ~config.forceRestart
    PROVE  \/ file' = file
           \/ /\ at # "ended" /\ file'.completed = progress.completed
              /\ file'.iteration = progress.iteration
<1>1. CASE file' = file
  BY Zenon, <1>1
<1>2. CASE SamplerFails \/ Undecided \/ (\E d \in Decision : Rejected(d) \/ Completed(d))
             \/ recordIteration
  BY Zenon, <1>2, SaveSteps DEF SamplerFails, Undecided, Rejected, Completed, recordIteration, Recorded
<1>3. CASE OutOfIterations
  <2>1. /\ at # "ended" /\ (file' = progress' \/ file' = file)
        /\ progress' = [progress EXCEPT !.status = "failed"] /\ progress \in Progress
    BY Zenon, <1>3, SaveSteps DEF OutOfIterations, LoopTypeOK
  <2>2. progress'.completed = progress.completed /\ progress'.iteration = progress.iteration
    BY <2>1, StatusSet
  <2> QED
    BY Zenon, <2>1, <2>2
<1>4. CASE setStatus
  <2>1. /\ at # "ended" /\ (file' = progress' \/ file' = file)
        /\ progress' = [progress EXCEPT !.status = outcome] /\ progress \in Progress
        /\ outcome \in {"running", "completed", "failed", "stopped"}
    BY Zenon, <1>4, SaveSteps DEF setStatus, LoopTypeOK
  <2>2. progress'.completed = progress.completed /\ progress'.iteration = progress.iteration
    BY <2>1, StatusSet
  <2> QED
    BY Zenon, <2>1, <2>2
<1>5. Next => \/ file' = file
              \/ SamplerFails \/ Undecided \/ (\E d \in Decision : Rejected(d) \/ Completed(d))
              \/ recordIteration \/ OutOfIterations \/ setStatus
  BY Zenon DEF Next, Loop, RunLoop, Stopped, BreakerOpen, BeginIteration, StoppedInBackoff, Decided,
         RunTools, MarkDone, Guard, Paused, StopLoop, Cooldown, CostDowngradeRequested, LoopCrash, disk
<1> QED
  BY Zenon, <1>1, <1>2, <1>3, <1>4, <1>5

\* The file never forgets a completed task or an iteration, and a completed
\* run stays completed.
THEOREM ProgressNeverLost == Spec => ProgressKept
<1>1. ASSUME LoopTypeOK, LoopInv, [Next]_vars
      PROVE  [~config.forceRestart =>
                /\ file.completed \subseteq file'.completed
                /\ file.iteration <= file'.iteration
                /\ file.status = "completed" => file'.status = "completed"]_file
  <2> SUFFICES ASSUME ~config.forceRestart, file' # file
               PROVE  /\ file.completed \subseteq file'.completed
                      /\ file.iteration <= file'.iteration
                      /\ file.status # "completed"
    BY Zenon
  <2>1. Next
    BY Zenon, <1>1 DEF vars, disk
  <2>2. /\ at # "ended" /\ file'.completed = progress.completed
        /\ file'.iteration = progress.iteration
    BY Zenon, <1>1, <2>1, FileStep
  <2>3. file.iteration <= progress.iteration /\ file.completed \subseteq progress.completed
    BY Zenon, <1>1, <2>2 DEF LoopInv, FileBehind
  <2> QED
    BY Zenon, <1>1, <2>2, <2>3 DEF LoopInv, StatusRunning
<1> QED
  BY <1>1, LoopTypeCorrect, LoopInvariant, PTL DEF Spec, ProgressKept

=============================================================================
