------------------------------ MODULE RDCycle ------------------------------
(***************************************************************************)
(* rdcycle/: the perpetual orchestrator.  Each start tool call that is not *)
(* refused makes an orchestrator of its own (named 1, 2, ... in order of   *)
(* start), with its circuit breaker and cost governor, and runs it in a    *)
(* goroutine; the tools see the last one started.  A cycle is scan, plan,  *)
(* synthesis of a spec file, and a ralph loop on it.                       *)
(*                                                                         *)
(* A stage of a cycle succeeds or fails; its output is not modelled, but   *)
(* for the spec file, which is named by the cycle number alone.  The       *)
(* results and the last error, which only the status tool reads, are left  *)
(* out.                                                                    *)
(***************************************************************************)
EXTENDS Integers, Sequences, FiniteSets, Functions

CONSTANTS MaxCycles,            \* OrchestratorConfig.MaxCycles; 0 is no limit
          NoProgressThreshold,  \* of the breaker
          WindowSize, AlarmPerCycle, UnproductiveCap,  \* of the governor
          Costs,                \* what a ralph loop may cost
          MaxStarts             \* bound: starts that are not refused

ASSUME ConfigAssumption ==
    /\ MaxCycles \in Nat /\ NoProgressThreshold \in Nat \ {0}
    /\ WindowSize \in Nat \ {0} /\ UnproductiveCap \in Nat \ {0}
    /\ AlarmPerCycle \in Nat /\ Costs \subseteq Nat /\ MaxStarts \in Nat

Orchs == 1..MaxStarts

VARIABLES
    orchState,  \* m.orchState: the last orchestrator started, 0 if none
    pc,         \* where each orchestrator's goroutine is
    running,
    stopped,    \* stopCh is closed, and ctx cancelled
    cycleNum,
    breaker,    \* state, noProgressCount, whether the cooldown has passed
    history,    \* the governor's
    specs,      \* who wrote the spec file of each cycle number, 0 if nobody
    raced       \* history: a start came before the last one's goroutine ran

cycle == <<cycleNum, breaker, history, specs>>
cycleVars == <<orchState, pc, running, stopped, cycle, raced>>

NewBreaker == [state |-> "closed", noProgress |-> 0, cooled |-> FALSE]

CycleInit ==
    /\ orchState = 0 /\ raced = FALSE
    /\ pc = [o \in Orchs |-> "none"]
    /\ running = [o \in Orchs |-> FALSE] /\ stopped = [o \in Orchs |-> FALSE]
    /\ cycleNum = [o \in Orchs |-> 0]
    /\ breaker = [o \in Orchs |-> NewBreaker] /\ history = [o \in Orchs |-> <<>>]
    /\ specs = <<>>

Goto(o, label) == pc' = [pc EXCEPT ![o] = label]

-----------------------------------------------------------------------------
(* The tools. *)

\* Faulty variant: any orchestrator counts as gone.
Running_Never == FALSE

Running == orchState # 0 /\ running[orchState]

handlePerpetualStart ==
    /\ ~Running /\ orchState < MaxStarts
    /\ orchState' = orchState + 1
    /\ Goto(orchState + 1, "started")
    /\ raced' = (raced \/ (orchState # 0 /\ pc[orchState] = "started"))
    /\ UNCHANGED <<running, stopped, cycle>>

\* Stop, and the cancellation of ctx.
handlePerpetualStop ==
    /\ Running
    /\ stopped' = [stopped EXCEPT ![orchState] = TRUE]
    /\ UNCHANGED <<orchState, pc, running, cycle, raced>>

-----------------------------------------------------------------------------
(* The circuit breaker and the governor. *)

\* Faulty variant: the count starts again when the cooldown has passed.
HalfOpen_Resets(b) == [b EXCEPT !.state = "half_open", !.noProgress = 0]

HalfOpen(b) == [b EXCEPT !.state = "half_open"]

CanExecute(b) == b.state = "open" => b.cooled

Admitted(b) == IF b.state = "open" /\ b.cooled THEN HalfOpen(b) ELSE b

\* RecordResult, of a cycle without progress ...
NoProgress(b) ==
    IF b.noProgress + 1 >= NoProgressThreshold
    THEN [state |-> "open", noProgress |-> b.noProgress + 1, cooled |-> FALSE]
    ELSE [b EXCEPT !.noProgress = @ + 1]

RalphFailed(b) == NoProgress(b)

\* ... and of one with.
Progress(b) == NewBreaker

\* The length of the unproductive streak at the end of h.
Streak(h) ==
    Cardinality({ i \in 1..Len(h) : \A j \in i..Len(h) : ~h[j].productive })

Window(h) ==
    LET first == IF Len(h) > WindowSize THEN Len(h) - WindowSize + 1 ELSE 1
    IN  [i \in first..Len(h) |-> h[i].cost]

WindowCost(h) == FoldFunction(LAMBDA x, y : x + y, 0, Window(h))

\* Faulty variant: the cap may be exceeded by one.
ShouldHalt_OffByOne(h) ==
    /\ h # <<>>
    /\ \/ Streak(h) > UnproductiveCap
       \/ WindowCost(h) > AlarmPerCycle * Cardinality(DOMAIN Window(h))

ShouldHalt(h) ==
    /\ h # <<>>
    /\ \/ Streak(h) >= UnproductiveCap
       \/ WindowCost(h) > AlarmPerCycle * Cardinality(DOMAIN Window(h))

-----------------------------------------------------------------------------
(* Orchestrator.Run and RunOneCycle. *)

Run(o) ==
    /\ pc[o] = "started"
    /\ running' = [running EXCEPT ![o] = TRUE]
    /\ Goto(o, "head")
    /\ UNCHANGED <<orchState, stopped, cycle, raced>>

Returns(o) == Goto(o, "ended") /\ running' = [running EXCEPT ![o] = FALSE]

Stopped(o) == stopped[o]

Halted(o) ==
    /\ pc[o] = "head" /\ Stopped(o)
    /\ Returns(o)
    /\ UNCHANGED <<orchState, stopped, cycle, raced>>

\* Faulty variant: the cycle is counted once the breaker has let it pass.
Counted_Late(o) == IF CanExecute(breaker[o]) THEN cycleNum[o] + 1 ELSE cycleNum[o]

Counted(o) == cycleNum[o] + 1

\* RunOneCycle, up to the scan: an open breaker or a halted governor ends the
\* cycle with an error, recorded in neither.
BeginCycle(o) ==
    /\ pc[o] = "head" /\ ~Stopped(o)
    /\ cycleNum' = [cycleNum EXCEPT ![o] = Counted(o)]
    /\ breaker' = [breaker EXCEPT ![o] = Admitted(@)]
    /\ Goto(o, IF CanExecute(breaker[o]) /\ ~ShouldHalt(history[o]) THEN "scan" ELSE "result")
    /\ UNCHANGED <<orchState, running, stopped, history, specs, raced>>

Stages == {"scan", "plan", "synthesize"}

\* HandleScan, HandlePlan or the synthesis fails, or the spec is not written.
StageFails(o) ==
    /\ pc[o] \in Stages
    /\ breaker' = [breaker EXCEPT ![o] = NoProgress(@)]
    /\ Goto(o, "result")
    /\ UNCHANGED <<orchState, running, stopped, cycleNum, history, specs, raced>>

Scanned(o) ==
    /\ pc[o] = "scan" /\ Goto(o, "plan")
    /\ UNCHANGED <<orchState, running, stopped, cycle, raced>>

Planned(o) ==
    /\ pc[o] = "plan" /\ Goto(o, "synthesize")
    /\ UNCHANGED <<orchState, running, stopped, cycle, raced>>

\* The spec is written to a file named by the cycle number.
Synthesized(o) ==
    /\ pc[o] = "synthesize" /\ Goto(o, "ralph")
    /\ specs' = [n \in DOMAIN specs \cup {cycleNum[o]} |-> IF n = cycleNum[o] THEN o ELSE specs[n]]
    /\ UNCHANGED <<orchState, running, stopped, cycleNum, breaker, history, raced>>

Record(o, cost, productive) ==
    history' = [history EXCEPT ![o] = Append(@, [cost |-> cost, productive |-> productive])]

RalphFails(o, cost) ==
    /\ pc[o] = "ralph" /\ Goto(o, "result")
    /\ breaker' = [breaker EXCEPT ![o] = RalphFailed(@)]
    /\ Record(o, cost, FALSE)
    /\ UNCHANGED <<orchState, running, stopped, cycleNum, specs, raced>>

\* The notes and the improvement, whose errors are ignored, follow.
RalphSucceeds(o, cost) ==
    /\ pc[o] = "ralph" /\ Goto(o, "result")
    /\ breaker' = [breaker EXCEPT ![o] = Progress(@)]
    /\ Record(o, cost, TRUE)
    /\ UNCHANGED <<orchState, running, stopped, cycleNum, specs, raced>>

\* Run, after the cycle.
EndCycle(o) ==
    /\ pc[o] = "result"
    /\ IF (MaxCycles > 0 /\ cycleNum[o] >= MaxCycles) \/ ShouldHalt(history[o])
       THEN Returns(o)
       ELSE Goto(o, "head") /\ UNCHANGED running
    /\ UNCHANGED <<orchState, stopped, cycleNum, breaker, history, specs, raced>>

Cooldown(o) ==
    /\ breaker[o].state = "open" /\ ~breaker[o].cooled
    /\ breaker' = [breaker EXCEPT ![o].cooled = TRUE]
    /\ UNCHANGED <<orchState, pc, running, stopped, cycleNum, history, specs, raced>>

Orchestrator(o) ==
    \/ Run(o) \/ Halted(o) \/ BeginCycle(o) \/ StageFails(o)
    \/ Scanned(o) \/ Planned(o) \/ Synthesized(o)
    \/ \E cost \in Costs : RalphFails(o, cost) \/ RalphSucceeds(o, cost)
    \/ EndCycle(o)

CycleNext ==
    \/ handlePerpetualStart \/ handlePerpetualStop
    \/ \E o \in Orchs : Orchestrator(o) \/ Cooldown(o)

CycleSpec == CycleInit /\ [][CycleNext]_cycleVars

\* Goroutines run, and the stages and ralph loops they call return.
CycleFairSpec == CycleSpec /\ \A o \in Orchs : WF_cycleVars(Orchestrator(o))

-----------------------------------------------------------------------------
Breakers == [state : {"closed", "open", "half_open"}, noProgress : Nat, cooled : BOOLEAN]

Steps == {"none", "started", "head", "result", "ralph", "ended"} \cup Stages

\* The variables have their types; Running() is true from the first step of
\* an orchestrator's goroutine to its last, and never again.
CycleTypeOK ==
    /\ orchState \in 0..MaxStarts
    /\ pc \in [Orchs -> Steps]
    /\ running \in [Orchs -> BOOLEAN] /\ stopped \in [Orchs -> BOOLEAN] /\ raced \in BOOLEAN
    /\ cycleNum \in [Orchs -> Nat]
    /\ breaker \in [Orchs -> Breakers]
    /\ history \in [Orchs -> Seq([cost : Costs, productive : BOOLEAN])]
    /\ \A o \in Orchs :
          /\ running[o] <=> pc[o] \notin {"none", "started", "ended"}
          /\ o > orchState <=> pc[o] = "none"

\* The breaker's state and count agree: closed only below the threshold, and
\* open or probing only at it, so that a probe cycle that fails, at any stage,
\* opens the breaker again.
ProbeReopens ==
    \A o \in Orchs : breaker[o].state = "closed" <=> breaker[o].noProgress < NoProgressThreshold

\* An orchestrator never has more than UnproductiveCap ralph loops in a row
\* fail, whatever failing scans, plans and cooldowns come between them.
FailuresCapped == \A o \in Orchs : Streak(history[o]) <= UnproductiveCap

\* Two orchestrators run at one time only when a start came between an earlier
\* start and the first step of the goroutine it made; otherwise
\* handlePerpetualStart refuses, and each ralph loop runs the spec its own
\* orchestrator wrote.
OneUnlessRaced ==
    raced \/ /\ Cardinality({ o \in Orchs : running[o] }) <= 1
             /\ \A o \in Orchs : pc[o] = "ralph" => specs[cycleNum[o]] = o

\* With a bound on the cycles every orchestrator returns, also while its
\* breaker is open.
Terminates == \A o \in Orchs : pc[o] # "none" ~> pc[o] = "ended"

-----------------------------------------------------------------------------
(* What the properties rest on. *)

\* FailuresCapped: a cycle is begun, and a ralph loop run, only below the cap.
RoomToFail == \A o \in Orchs : pc[o] \in Stages \cup {"ralph"} => Streak(history[o]) < UnproductiveCap

\* OneUnlessRaced: without a race every orchestrator but the last has ended.
OthersEnded == raced \/ \A o \in Orchs : o < orchState => pc[o] = "ended"

\* OneUnlessRaced: without a race a ralph loop finds the spec of its own cycle.
OwnSpec == raced \/ \A o \in Orchs : pc[o] = "ralph" => specs[cycleNum[o]] = o

=============================================================================
