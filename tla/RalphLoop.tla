----------------------------- MODULE RalphLoop -----------------------------
(***************************************************************************)
(* ralph/: the autonomous loop.  Each iteration asks a model for a         *)
(* decision, runs the tools it names, marks a task done and saves the      *)
(* progress file; a circuit breaker and a cost governor may end the loop.  *)
(* A save may fail, which the loop does not look at.  The process may      *)
(* crash at any step, losing all but the progress file, and Run may be     *)
(* called again, in a new process or in the old one with the same breaker  *)
(* and governor.                                                           *)
(*                                                                         *)
(* A decision, a tool result and an error are abstracted to what the loop  *)
(* tells apart; prompts, the conversation history and the stuck detector's *)
(* hint only shape the next decision, which is arbitrary here.  Stop and   *)
(* the end of ctx have the same effect and are one flag.                   *)
(***************************************************************************)
EXTENDS Integers, Sequences, FiniteSets

CONSTANTS Ids,                \* the ids of tasks and sub-tasks
          Tasks,              \* the tasks of the spec file
          SubTasks,           \* what TaskDecomposer may return for each id
          DependsOn,
          NoTask, NoError, Errors,
          MaxIterations, MaxConsecutiveSamplerFailures,
          NoProgressThreshold, SameErrorThreshold,
          HardBudgetTokens, VelocityWindow, VelocityAlarm, UnproductiveMax,
          BudgetLimit,
          MaxRuns,            \* bound: calls of Run
          MaxFaults           \* bound: crashes and failed saves

ASSUME TasksAssumption ==
    /\ IsFiniteSet(Tasks) /\ Tasks \subseteq Ids
    /\ SubTasks \in [Ids -> SUBSET Ids] /\ DependsOn \in [Ids -> SUBSET Ids]
    /\ NoTask \notin Ids /\ NoError \notin Errors

\* What NewLoop, NewCircuitBreaker and NewCostGovernor leave.
ASSUME LoopConfigAssumption ==
    /\ MaxIterations \in Nat \ {0} /\ MaxConsecutiveSamplerFailures \in Int
    /\ NoProgressThreshold \in Nat \ {0} /\ SameErrorThreshold \in Nat \ {0}
    /\ VelocityWindow \in Nat \ {0} /\ UnproductiveMax \in Nat \ {0}
    /\ HardBudgetTokens \in Int /\ VelocityAlarm \in Int /\ BudgetLimit \in Int
    /\ MaxRuns \in Nat /\ MaxFaults \in Nat

Decision == [task : Ids \cup {NoTask}, markDone : BOOLEAN, complete : BOOLEAN, tools : BOOLEAN]

VARIABLES
    config,    \* ForceRestart, RequireAllTasksDone, whether there is a governor,
               \* and the tasks the spec file has as done
    at, outcome,
    progress,  \* l.progress
    file,      \* the progress file
    unsaved,   \* the saves of this Run that failed since the last that did not
    faults,    \* history: crashes and failed saves
    spec, specModified,
    samplerFails, costDowngrade,
    decision, errorKey,  \* of the present iteration
    stop,      \* Stop was called, or ctx has ended
    breaker, cooled,     \* cooled: CooldownDuration has passed since openedAt
    governor, spent,     \* spent: CostTracker.Total
    runs, executed       \* history: Runs, iterations that ran tools

round == <<spec, specModified, samplerFails, decision, errorKey>>
guards == <<breaker, cooled, governor, spent, costDowngrade>>
disk == <<file, unsaved, faults>>
past == <<runs, executed>>
vars == <<config, at, outcome, progress, disk, round, stop, guards, past>>

NoProgress == [status |-> "", iteration |-> 0, completed |-> {}]

NoDecision == [task |-> NoTask, markDone |-> FALSE, complete |-> FALSE, tools |-> FALSE]

ClosedBreaker ==
    [state |-> "closed", noProgress |-> 0, sameError |-> 0, lastError |-> NoError]

NewGovernor == [tokens |-> 0, streak |-> 0, recent |-> <<>>]

Init ==
    /\ config \in [forceRestart : BOOLEAN, exitGate : BOOLEAN, governed : BOOLEAN,
                  done : SUBSET Tasks]
    /\ at = "ended" /\ outcome = "none"
    /\ progress = NoProgress /\ file = NoProgress
    /\ spec = Tasks /\ specModified = FALSE /\ samplerFails = 0
    /\ decision = NoDecision /\ errorKey = NoError /\ stop = FALSE
    /\ breaker = ClosedBreaker /\ cooled = FALSE
    /\ governor = NewGovernor /\ spent = 0 /\ costDowngrade = FALSE
    /\ unsaved = 0 /\ faults = 0 /\ runs = 0 /\ executed = 0

Goto(label) == at' = label /\ UNCHANGED outcome

\* The loop returns with setStatus(s).
Leave(s) == at' = "leave" /\ outcome' = s

Fault == faults < MaxFaults /\ faults' = faults + 1

\* SaveProgress, of the progress as this step leaves it: a temporary file is
\* written and renamed, or an error is returned, which no caller looks at.
SaveProgress ==
    \/ file' = progress' /\ unsaved' = 0 /\ UNCHANGED faults
    \/ UNCHANGED file /\ unsaved' = unsaved + 1 /\ Fault

-----------------------------------------------------------------------------
(* Run, up to the loop. *)

\* Faulty variant: the progress file is not read.
LoadProgress_Ignored == NoProgress

LoadProgress == IF config.forceRestart THEN NoProgress ELSE file

\* Run, of a new Loop.  (When the spec or the progress file cannot be read
\* Run returns at once, and nothing has changed.)
RunLoop ==
    /\ at = "ended" /\ runs < MaxRuns
    /\ runs' = runs + 1
    /\ IF LoadProgress.status = "completed"
       THEN progress' = LoadProgress /\ at' = "ended" /\ outcome' = "completed"
       ELSE /\ progress' = [LoadProgress EXCEPT !.status = "running"]
            /\ at' = "head" /\ outcome' = "none"
    /\ spec' = Tasks /\ specModified' = FALSE /\ samplerFails' = 0 /\ stop' = FALSE
    /\ costDowngrade' = FALSE
    /\ \/ UNCHANGED <<breaker, cooled, governor, spent>>
       \/ breaker' = ClosedBreaker /\ cooled' = FALSE /\ governor' = NewGovernor /\ spent' = 0
    /\ unsaved' = 0
    /\ UNCHANGED <<config, file, faults, decision, errorKey, executed>>

-----------------------------------------------------------------------------
(* The head of the loop. *)

Stopped ==
    /\ at = "head" /\ stop
    /\ Leave("stopped")
    /\ UNCHANGED <<config, progress, disk, round, stop, guards, past>>

CanExecute == breaker.state = "open" => cooled

Admit == breaker' = IF breaker.state = "open" THEN [breaker EXCEPT !.state = "half_open"] ELSE breaker

BreakerOpen ==
    /\ at = "head" /\ ~stop /\ ~CanExecute
    /\ Leave("stopped")
    /\ UNCHANGED <<config, progress, disk, round, stop, guards, past>>

\* checkPauseRequested: the pause is checkpointed, or there is no thread or
\* Pause fails and Run returns without a setStatus.
Paused ==
    /\ at = "head" /\ ~stop /\ CanExecute /\ Admit
    /\ Leave("stopped") \/ (at' = "ended" /\ outcome' = "paused")
    /\ UNCHANGED <<config, progress, disk, round, stop, cooled, governor, spent, costDowngrade, past>>

OutOfIterations ==
    /\ at = "head" /\ ~stop /\ CanExecute /\ Admit
    /\ progress.iteration + 1 > MaxIterations
    /\ progress' = [progress EXCEPT !.status = "failed"]
    /\ SaveProgress
    /\ at' = "ended" /\ outcome' = "failed"
    /\ UNCHANGED <<config, round, stop, cooled, governor, spent, costDowngrade, past>>

\* Faulty variant: the iteration is counted when it is recorded as done only.
NextIteration_Uncounted == progress.iteration

NextIteration == progress.iteration + 1

\* The iteration begins; the spec is read again, or cannot be.
BeginIteration ==
    /\ at = "head" /\ ~stop /\ CanExecute /\ Admit
    /\ progress.iteration + 1 <= MaxIterations
    /\ progress' = [progress EXCEPT !.iteration = NextIteration]
    /\ \/ Goto("sample")
       \/ ~specModified /\ Leave("failed")
    /\ UNCHANGED <<config, disk, round, stop, cooled, governor, spent, costDowngrade, past>>

-----------------------------------------------------------------------------
(* The sampler and its decision. *)

\* recordIteration, of an iteration that goes no further.
Recorded == progress' = progress /\ SaveProgress

\* CreateMessage fails, also when tried again.
SamplerFails ==
    /\ at = "sample"
    /\ samplerFails' = samplerFails + 1
    /\ Recorded
    /\ IF /\ MaxConsecutiveSamplerFailures > 0
          /\ samplerFails + 1 >= MaxConsecutiveSamplerFailures
       THEN Leave("failed") ELSE Goto("head")
    /\ UNCHANGED <<config, spec, specModified, decision, errorKey, stop, guards, past>>

\* The loop is stopped while it backs off.
StoppedInBackoff ==
    /\ at = "sample" /\ stop
    /\ Leave("stopped")
    /\ UNCHANGED <<config, progress, disk, round, stop, guards, past>>

\* The response has no text, or no decision.
Undecided ==
    /\ at = "sample"
    /\ samplerFails' = 0
    /\ Recorded /\ Goto("head")
    /\ UNCHANGED <<config, spec, specModified, decision, errorKey, stop, guards, past>>

\* Faulty variant: the dependencies are not looked at.
ReadyTasks_Unordered(completed) == (spec \ config.done) \ completed

ReadyTasks(completed) ==
    { t \in (spec \ config.done) \ completed : DependsOn[t] \subseteq completed }

Blocked(t) == t # NoTask /\ t \notin progress.completed \cup ReadyTasks(progress.completed)

GateOpen == config.exitGate => spec \subseteq progress.completed

\* A decision for a blocked task, a completion the ExitGate rejects, or one
\* without tools is recorded and the loop goes on, ...
Rejected(d) ==
    /\ at = "sample"
    /\ samplerFails' = 0
    /\ \/ Blocked(d.task) /\ UNCHANGED spent
       \/ ~Blocked(d.task) /\ d.complete /\ ~GateOpen /\ UNCHANGED spent
       \/ ~Blocked(d.task) /\ ~d.complete /\ ~d.tools /\ spent' = spent + 1
    /\ Recorded /\ Goto("head")
    /\ UNCHANGED <<config, spec, specModified, decision, errorKey, stop,
                   breaker, cooled, governor, costDowngrade, past>>

\* ... a completion ends it, ...
Completed(d) ==
    /\ at = "sample" /\ ~Blocked(d.task) /\ d.complete /\ GateOpen
    /\ samplerFails' = 0
    /\ Recorded /\ Leave("completed")
    /\ UNCHANGED <<config, spec, specModified, decision, errorKey, stop, guards, past>>

\* ... and any other is carried out.
Decided(d) ==
    /\ at = "sample" /\ ~Blocked(d.task) /\ ~d.complete /\ d.tools
    /\ samplerFails' = 0
    /\ decision' = d /\ Goto("tools")
    /\ UNCHANGED <<config, progress, disk, spec, specModified, errorKey, stop, guards, past>>

-----------------------------------------------------------------------------
(* The decision is carried out. *)

\* The tools run, and their results are an error, or none.
RunTools(e) ==
    /\ at = "tools"
    /\ errorKey' = e /\ executed' = executed + 1
    /\ Goto("mark")
    /\ UNCHANGED <<config, progress, disk, spec, specModified, samplerFails, decision,
                   stop, guards, runs>>

Markable(t) == t \in progress.completed \cup ReadyTasks(progress.completed)

injectSubTasks(t, subs) == IF t \in spec THEN (spec \ {t}) \cup subs ELSE spec

MarkDone ==
    /\ at = "mark"
    /\ IF decision.markDone /\ decision.task # NoTask /\ Markable(decision.task)
       THEN /\ progress' = [progress EXCEPT !.completed = @ \cup {decision.task}]
            /\ \/ UNCHANGED <<spec, specModified>>
               \/ /\ SubTasks[decision.task] # {}
                  /\ spec' = injectSubTasks(decision.task, SubTasks[decision.task])
                  /\ specModified' = TRUE
       ELSE UNCHANGED <<progress, spec, specModified>>
    /\ Goto("record")
    /\ UNCHANGED <<config, disk, samplerFails, decision, errorKey, stop, guards, past>>

\* Faulty variant: the file is written at the end of the loop only.
recordIteration_Unsaved ==
    /\ at = "record"
    /\ spent' = spent + 2
    /\ Goto("guards")
    /\ UNCHANGED <<config, progress, disk, round, stop, breaker, cooled, governor, costDowngrade, past>>

\* recordIteration and recordCost: one entry for the sampling, one for a tool.
recordIteration ==
    /\ at = "record"
    /\ Recorded /\ spent' = spent + 2
    /\ Goto("guards")
    /\ UNCHANGED <<config, round, stop, breaker, cooled, governor, costDowngrade, past>>

-----------------------------------------------------------------------------
(* CircuitBreaker.RecordResult and the cost governor, where the iteration   *)
(* and its local variables end.                                             *)

hasProgress == decision.markDone /\ decision.task # NoTask

ProgressMade == [ClosedBreaker EXCEPT !.state =
                   IF breaker.state = "half_open" THEN "closed" ELSE breaker.state]

SameError ==
    IF errorKey = NoError THEN 0
    ELSE IF errorKey = breaker.lastError THEN breaker.sameError + 1 ELSE 1

Trips ==
    \/ breaker.noProgress + 1 >= NoProgressThreshold
    \/ errorKey # NoError /\ SameError >= SameErrorThreshold
    \/ breaker.state = "half_open"

RecordResult ==
    IF hasProgress THEN breaker' = ProgressMade /\ UNCHANGED cooled
    ELSE /\ breaker' = [state |-> IF Trips THEN "open" ELSE breaker.state,
                        noProgress |-> breaker.noProgress + 1,
                        sameError |-> SameError, lastError |-> errorKey]
         /\ cooled' = (cooled /\ ~Trips)

\* CostGovernor.RecordIteration; an iteration is one token.
RecordedCost ==
    LET recent == Append(governor.recent, hasProgress)
    IN  [tokens |-> governor.tokens + 1,
         streak |-> IF hasProgress THEN 0 ELSE governor.streak + 1,
         recent |-> IF Len(recent) > VelocityWindow THEN Tail(recent) ELSE recent]

Verdict(g) ==
    IF \/ HardBudgetTokens > 0 /\ g.tokens >= HardBudgetTokens
       \/ g.streak >= UnproductiveMax
    THEN "halt"
    ELSE IF /\ VelocityAlarm > 0 /\ Len(g.recent) = VelocityWindow
            /\ Cardinality({ i \in 1..VelocityWindow : ~g.recent[i] }) >= VelocityAlarm
    THEN "downgrade" ELSE "ok"

\* Faulty variant: a halt returns without a setStatus.
Halt_Unsaved == at' = "ended" /\ outcome' = "failed"

Halt == Leave("failed")

Guard ==
    /\ at = "guards"
    /\ RecordResult
    /\ IF config.governed
       THEN /\ governor' = RecordedCost
            /\ costDowngrade' = (costDowngrade \/ Verdict(RecordedCost) = "downgrade")
            /\ IF Verdict(RecordedCost) = "halt" THEN Halt ELSE Goto("head")
       ELSE /\ IF BudgetLimit > 0 /\ spent > BudgetLimit THEN Halt ELSE Goto("head")
            /\ UNCHANGED <<governor, costDowngrade>>
    /\ decision' = NoDecision /\ errorKey' = NoError
    /\ UNCHANGED <<config, progress, disk, spec, specModified, samplerFails, stop, spent, past>>

setStatus ==
    /\ at = "leave"
    /\ progress' = [progress EXCEPT !.status = outcome]
    /\ SaveProgress
    /\ Goto("ended")
    /\ UNCHANGED <<config, round, stop, guards, past>>

-----------------------------------------------------------------------------
(* The environment. *)

StopLoop ==
    /\ at # "ended" /\ ~stop
    /\ stop' = TRUE
    /\ UNCHANGED <<config, at, outcome, progress, disk, round, guards, past>>

Cooldown ==
    /\ breaker.state = "open" /\ ~cooled
    /\ cooled' = TRUE
    /\ UNCHANGED <<config, at, outcome, progress, disk, round, stop, breaker, governor, spent, costDowngrade, past>>

CostDowngradeRequested ==
    /\ costDowngrade
    /\ costDowngrade' = FALSE
    /\ UNCHANGED <<config, at, outcome, progress, disk, round, stop, breaker, cooled, governor, spent, past>>

\* The process dies, with all but the progress file.
LoopCrash ==
    /\ at # "ended" /\ Fault
    /\ at' = "ended" /\ outcome' = "crashed" /\ unsaved' = 0
    /\ progress' = NoProgress /\ spec' = Tasks /\ specModified' = FALSE
    /\ samplerFails' = 0 /\ decision' = NoDecision /\ errorKey' = NoError /\ stop' = FALSE
    /\ breaker' = ClosedBreaker /\ cooled' = FALSE
    /\ governor' = NewGovernor /\ spent' = 0 /\ costDowngrade' = FALSE
    /\ UNCHANGED <<config, file, runs, executed>>

Loop ==
    \/ Stopped \/ BreakerOpen \/ OutOfIterations \/ BeginIteration
    \/ SamplerFails \/ StoppedInBackoff \/ Undecided
    \/ \E d \in Decision : Rejected(d) \/ Completed(d) \/ Decided(d)
    \/ \E e \in Errors \cup {NoError} : RunTools(e)
    \/ MarkDone \/ recordIteration \/ Guard \/ setStatus

Next == RunLoop \/ Loop \/ Paused \/ StopLoop \/ Cooldown \/ CostDowngradeRequested \/ LoopCrash

Spec == Init /\ [][Next]_vars

\* The loop's goroutine runs; the sampler and the tools return, at the latest
\* when their contexts end.
FairSpec == Spec /\ WF_vars(Loop)

-----------------------------------------------------------------------------
InOrder(completed) == \A t \in completed : DependsOn[t] \subseteq completed

\* ReadyTasks:5: no task is ever completed before the tasks it depends on,
\* in memory or in the file a crash leaves, over any number of restarts.
DependencyOrder == InOrder(progress.completed) /\ InOrder(file.completed)

\* Over stops, failures, crashes and new calls of Run the file never forgets
\* a completed task or an iteration, and a completed run stays completed.
ProgressKept ==
    [][ ~config.forceRestart =>
          /\ file.completed \subseteq file'.completed
          /\ file.iteration <= file'.iteration
          /\ file.status = "completed" => file'.status = "completed" ]_file

\* A crash loses the iteration under way, and those whose save failed since
\* the last that did not: all that earlier ones counted and completed is in
\* the file, which is never ahead of the loop.
OneIterationAtRisk ==
    at \notin {"ended", "leave"} /\ ~config.forceRestart =>
        /\ progress.iteration \in file.iteration..(file.iteration + unsaved + 1)
        /\ at = "head" => progress.iteration <= file.iteration + unsaved
        /\ file.completed \subseteq progress.completed
        /\ unsaved = 0 =>
              /\ progress.completed \subseteq file.completed \cup {decision.task}
              /\ at = "head" => progress.completed = file.completed

\* Run returns with its outcome, and all it did, in the file, unless its last
\* save failed; then the file does not say that it completed.
OutcomeRecorded ==
    at = "ended" /\ outcome \in {"completed", "failed", "stopped"} =>
        /\ unsaved = 0 => file = progress /\ file.status = outcome
        /\ unsaved > 0 /\ ~config.forceRestart => file.status # "completed"

\* MaxIterations bounds the iterations that run tools over all restarts, but
\* for the one that each crash and each failed save may make the next Run
\* repeat.
WorkBounded == ~config.forceRestart => executed <= MaxIterations + faults

\* Every call of Run returns, whatever the model decides.
RunReturns == at # "ended" ~> at = "ended"

-----------------------------------------------------------------------------
(* What the safety properties rest on. *)

Progress == [status : {"", "running", "completed", "failed", "stopped"},
             iteration : Nat, completed : SUBSET Ids]

Breakers == [state : {"closed", "open", "half_open"}, noProgress : Nat,
             sameError : Nat, lastError : Errors \cup {NoError}]

Governors == [tokens : Nat, streak : Nat, recent : Seq(BOOLEAN)]

LoopTypeOK ==
    /\ config \in [forceRestart : BOOLEAN, exitGate : BOOLEAN, governed : BOOLEAN,
                   done : SUBSET Tasks]
    /\ at \in {"ended", "head", "sample", "tools", "mark", "record", "guards", "leave"}
    /\ outcome \in {"none", "completed", "failed", "stopped", "paused", "crashed"}
    /\ at = "leave" => outcome \in {"completed", "failed", "stopped"}
    /\ progress \in Progress /\ file \in Progress
    /\ spec \in SUBSET Ids /\ specModified \in BOOLEAN /\ samplerFails \in Nat
    /\ decision \in Decision /\ errorKey \in Errors \cup {NoError} /\ stop \in BOOLEAN
    /\ breaker \in Breakers /\ governor \in Governors
    /\ cooled \in BOOLEAN /\ costDowngrade \in BOOLEAN /\ spent \in Nat
    /\ unsaved \in Nat /\ faults \in Nat /\ runs \in Nat /\ executed \in Nat

\* How far the file is behind the loop: by the iteration under way and the
\* task it has marked done since, and by those whose save failed.
FileBehind ==
    at # "ended" /\ ~config.forceRestart =>
        /\ file.iteration <= progress.iteration /\ file.completed \subseteq progress.completed
        /\ at \in {"head", "guards"} => progress.iteration <= file.iteration + unsaved
        /\ progress.iteration <= file.iteration + unsaved + 1
        /\ at \in {"sample", "tools", "mark", "record"} => file.iteration < progress.iteration
        /\ unsaved = 0 => progress.completed \subseteq
              IF at = "record" THEN file.completed \cup {decision.task} ELSE file.completed

\* Only a run that has not been recorded as completed runs.
StatusRunning ==
    /\ at # "ended" => progress.status = "running"
    /\ at # "ended" /\ ~config.forceRestart => file.status # "completed"

\* Each iteration that ran tools is counted in the file, is under way, or is
\* one that a crash or a failed save lost.
WorkCounted ==
    /\ progress.iteration <= MaxIterations /\ file.iteration <= MaxIterations
    /\ ~config.forceRestart =>
          executed <= file.iteration + faults + IF at \in {"mark", "record"} THEN 1 ELSE 0

=============================================================================
