------------------------------ MODULE TaskExec ------------------------------
(***************************************************************************)
(* The A2A side of the MCP bridge: bridge/a2a's BridgeExecutor, run by the *)
(* local execution manager of a2a-go (taskexec/local_manager.go), which    *)
(* the bridge's handler uses.                                              *)
(*                                                                         *)
(* A call of Execute publishes an execution and spawns handleExecution,    *)
(* whose producer (the tool call) writes events to a pipe, and whose       *)
(* consumer stores each event and broadcasts it.  A call of Cancel         *)
(* publishes a cancelation, which runs the same two goroutines when no     *)
(* execution is active, and writes to the execution's pipe otherwise.      *)
(* Executions are named by the request, cancelations by the call of Cancel *)
(* that created them; what a message says is abstracted away.              *)
(*                                                                         *)
(* Queue creation never fails for the in-memory manager the bridge uses,   *)
(* and no push sender and no limit per scope are configured.  The store    *)
(* may fail to take a task, but its version check never fails, which       *)
(* SingleWriter states: the recovery from that check is left out.          *)
(***************************************************************************)
EXTENDS Integers, Sequences, FiniteSets

CONSTANTS Tasks, Requests, Cancels,
          MaxExecutions,  \* ConcurrencyConfig.MaxExecutions, 0 for no limit
          MaxRetries,     \* maxRetries of createExecution
          PipeSize,       \* bufferSize of the event pipe
          None

ASSUME LimitsAssumption == MaxExecutions \in Nat /\ MaxRetries \in Nat /\ PipeSize \in Nat \ {0}

ASSUME NamesAssumption ==
    /\ Requests \cap Cancels = {} /\ None \notin Requests \cup Cancels
    /\ IsFiniteSet(Tasks)

VARIABLES
    executions,    \* m.executions
    cancelations,  \* m.cancelations
    quota,         \* m.limiter.executions
    store,         \* the task store: state and version of each task
    req,           \* where each call of Execute is
    can,           \* where each call of Cancel is
    run            \* the executions and the cancelations

vars == <<executions, cancelations, quota, store, req, can, run>>

Runs == Requests \cup Cancels

Terminal == {"completed", "failed", "canceled"}

NoTask == [state |-> "none", version |-> 0]

NewRun(t, stage) ==
    [tid |-> t, stage |-> stage, producer |-> "off", consumer |-> "off",
     pipe |-> <<>>, closed |-> FALSE, stopped |-> FALSE, event |-> "none",
     last |-> NoTask, result |-> "none", done |-> FALSE]

Init ==
    /\ executions = [t \in Tasks |-> None]
    /\ cancelations = [t \in Tasks |-> None]
    /\ quota = 0
    /\ store = [t \in Tasks |-> NoTask]
    /\ req = [r \in Requests |-> [pc |-> "idle", tid |-> None, fresh |-> FALSE, tries |-> 0, behind |-> None]]
    /\ can = [c \in Cancels |-> [pc |-> "idle", on |-> None, awaits |-> None]]
    /\ run = [w \in Runs |-> NewRun(None, "off")]

manager == <<executions, cancelations, quota>>

-----------------------------------------------------------------------------
(* Execute: publish an execution, and wait for the previous one if need be. *)

\* handleSendMessage: a message of a new task, whose name nobody used before,
\* or one that names a task.
SendMessage(r, t, fresh) ==
    /\ req[r].pc = "idle"
    /\ fresh => (\A q \in Requests : req[q].tid # t) /\ (\A w \in Runs : run[w].tid # t)
    /\ req' = [req EXCEPT ![r].pc = "create", ![r].tid = t, ![r].fresh = fresh]
    /\ UNCHANGED <<manager, store, can, run>>

Creating(r) == req[r].pc = "create" /\ req[r].tries < MaxRetries

\* Faulty variant: the limit is tested one too late.
QuotaLeft_OneMore == MaxExecutions = 0 \/ quota <= MaxExecutions

QuotaLeft == MaxExecutions = 0 \/ quota < MaxExecutions

\* Faulty variant: an execution starts while a cancelation is in progress.
Admitted_DuringCancel(r) == QuotaLeft

Admitted(r) == cancelations[req[r].tid] = None /\ QuotaLeft

createExecution(r) ==
    /\ Creating(r) /\ executions[req[r].tid] = None
    /\ IF Admitted(r)
       THEN /\ executions' = [executions EXCEPT ![req[r].tid] = r]
            /\ quota' = quota + 1
            /\ run' = [run EXCEPT ![r] = NewRun(req[r].tid, "new")]
            /\ req' = [req EXCEPT ![r].pc = "spawn"]
       ELSE /\ req' = [req EXCEPT ![r].pc = "refused"]
            /\ UNCHANGED <<executions, quota, run>>
    /\ UNCHANGED <<cancelations, store, can>>

AwaitPrevious(r) ==
    /\ Creating(r) /\ executions[req[r].tid] # None
    /\ req' = [req EXCEPT ![r].pc = "await", ![r].behind = executions[req[r].tid]]
    /\ UNCHANGED <<manager, store, can, run>>

PreviousDone(r) ==
    /\ req[r].pc = "await" /\ run[req[r].behind].done
    /\ req' = [req EXCEPT ![r].pc = "create", ![r].tries = @ + 1, ![r].behind = None]
    /\ UNCHANGED <<manager, store, can, run>>

\* The caller's context ends while it waits.
TimedOut(r) ==
    /\ req[r].pc = "await"
    /\ req' = [req EXCEPT ![r].pc = "refused", ![r].behind = None]
    /\ UNCHANGED <<manager, store, can, run>>

\* The execution is still active after maxRetries.
StillActive(r) ==
    /\ req[r].pc = "create" /\ req[r].tries = MaxRetries
    /\ req' = [req EXCEPT ![r].pc = "refused"]
    /\ UNCHANGED <<manager, store, can, run>>

Spawn(r) ==
    /\ req[r].pc = "spawn"
    /\ req' = [req EXCEPT ![r].pc = "subscribed"]
    /\ run' = [run EXCEPT ![r].stage = "setup"]
    /\ UNCHANGED <<manager, store, can>>

-----------------------------------------------------------------------------
(* Cancel: join the cancelation in progress, or publish one. *)

Cancel(c, t) ==
    /\ can[c].pc = "idle"
    /\ IF cancelations[t] # None
       THEN /\ can' = [can EXCEPT ![c].pc = "waiting", ![c].awaits = cancelations[t]]
            /\ UNCHANGED <<cancelations, run>>
       ELSE /\ cancelations' = [cancelations EXCEPT ![t] = c]
            /\ can' = [can EXCEPT ![c] = [pc |-> "waiting", on |-> executions[t], awaits |-> c]]
            /\ run' = [run EXCEPT ![c] = NewRun(t, IF executions[t] = None THEN "setup" ELSE "signal")]
    /\ UNCHANGED <<executions, quota, store, req>>

\* The wait ends with the cancelation's result; only a canceled task is a success.
Answered(c) ==
    /\ can[c].pc = "waiting" /\ run[can[c].awaits].done
    /\ can' = [can EXCEPT ![c].pc = IF run[can[c].awaits].result = "canceled" THEN "canceled" ELSE "error"]
    /\ UNCHANGED <<manager, store, req, run>>

\* The wait ends with the caller's context.
GiveUp(c) ==
    /\ can[c].pc = "waiting"
    /\ can' = [can EXCEPT ![c].pc = "error"]
    /\ UNCHANGED <<manager, store, req, run>>

-----------------------------------------------------------------------------
(* handleExecution and handleCancel: set up, run both goroutines, clean up. *)

outside == <<manager, req, can>>

Abort(w) ==
    run' = [run EXCEPT ![w].stage = "cleanup", ![w].closed = TRUE, ![w].result = "error", ![w].last = NoTask]

Started(w, last, producer) ==
    run' = [run EXCEPT ![w].stage = "running", ![w].last = last,
                       ![w].producer = producer, ![w].consumer = "read"]

\* Faulty variant: a finished task is taken up again.
Resumable_Finished(s) == s # "none"

\* loadExecutionContext takes up a stored task unless it is finished; either
\* way the request may be found wrong, by its context or its push configuration.
Resumable(s) == s \notin Terminal \cup {"none"}

CreateExecutor(r) ==
    LET stored == store[run[r].tid] IN
    /\ run[r].stage = "setup"
    /\ \/ stored.state = "none" /\ req[r].fresh /\ Started(r, NoTask, "start")
       \/ Resumable(stored.state) /\ run' = [run EXCEPT ![r].stage = "history", ![r].last = stored]
       \/ Abort(r)
    /\ UNCHANGED <<outside, store>>

\* The message joins the task's history, unless it is there already.
UpdateHistory(r) ==
    /\ run[r].stage = "history"
    /\ \E stored \in {run[r].last, [run[r].last EXCEPT !.version = @ + 1]} :
           /\ store' = [store EXCEPT ![run[r].tid] = stored]
           /\ Started(r, stored, "start") \/ Abort(r)
    /\ UNCHANGED outside

Cancelable(s) == s \notin {"none", "completed", "failed"}

CreateCanceler(c) ==
    LET stored == store[run[c].tid] IN
    /\ run[c].stage = "setup"
    /\ IF Cancelable(stored.state) THEN Started(c, stored, "cancel") ELSE Abort(c)
    /\ UNCHANGED <<outside, store>>

\* runProducerConsumer returns: the promise is set and the pipe closed.
GroupDone(w) ==
    /\ run[w].stage = "running" /\ run[w].producer = "ended" /\ run[w].consumer = "ended"
    /\ run' = [run EXCEPT ![w].stage = "cleanup", ![w].closed = TRUE]
    /\ UNCHANGED <<outside, store>>

Over(w) ==
    run' = [run EXCEPT ![w] = [NewRun(@.tid, "over") EXCEPT !.closed = TRUE, !.result = run[w].result, !.done = TRUE]]

\* Faulty variant: signalDone is forgotten.
cleanupExecution_Silent(r) ==
    /\ run[r].stage = "cleanup"
    /\ quota' = quota - 1
    /\ executions' = [executions EXCEPT ![run[r].tid] = None]
    /\ run' = [run EXCEPT ![r].stage = "over"]
    /\ UNCHANGED <<cancelations, store, req, can>>

cleanupExecution(r) ==
    /\ run[r].stage = "cleanup"
    /\ quota' = quota - 1
    /\ executions' = [executions EXCEPT ![run[r].tid] = None]
    /\ Over(r)
    /\ UNCHANGED <<cancelations, store, req, can>>

cleanupCancelation(c) ==
    /\ run[c].stage = "cleanup"
    /\ cancelations' = [cancelations EXCEPT ![run[c].tid] = None]
    /\ Over(c)
    /\ UNCHANGED <<executions, quota, store, req, can>>

-----------------------------------------------------------------------------
(* handleCancelWithConcurrentRun: signal the execution, share its result. *)

CancelEvent(s) == IF s = "canceled" THEN "stored" ELSE "canceled"

SignalSetup(c) ==
    LET stored == store[run[c].tid] IN
    /\ run[c].stage = "signal"
    /\ IF Cancelable(stored.state)
       THEN run' = [run EXCEPT ![c].stage = "write", ![c].event = CancelEvent(stored.state)]
       ELSE Abort(c)
    /\ UNCHANGED <<outside, store>>

SignalWrite(c) ==
    LET r == can[c].on IN
    /\ run[c].stage = "write"
    /\ \/ run[r].closed /\ Abort(c)
       \/ /\ ~run[r].closed /\ Len(run[r].pipe) < PipeSize
          /\ run' = [run EXCEPT ![r].pipe = Append(@, run[c].event), ![c].stage = "wait"]
    /\ UNCHANGED <<outside, store>>

SignalWait(c) ==
    /\ run[c].stage = "wait" /\ run[can[c].on].done
    /\ run' = [run EXCEPT ![c].stage = "cleanup", ![c].result = run[can[c].on].result]
    /\ UNCHANGED <<outside, store>>

-----------------------------------------------------------------------------
(* The producer: BridgeExecutor.Execute or Cancel, writing to the pipe. *)

Producing(w, at) == run[w].stage = "running" /\ run[w].producer = at

Proceed(w, next) == run' = [run EXCEPT ![w].producer = next] /\ UNCHANGED <<outside, store>>

Start(r) ==
    /\ Producing(r, "start")
    /\ Proceed(r, IF run[r].stopped THEN "fail"
                  ELSE IF run[r].last.state = "none" THEN "submit" ELSE "prepare")

\* The message is translated and the tool looked up, or neither is possible.
Prepare(r) == Producing(r, "prepare") /\ \E next \in {"work", "fail"} : Proceed(r, next)

\* The tool returns content, nothing, or an error.
Tool(r) == Producing(r, "tool") /\ \E next \in {"artifact", "empty", "fail"} : Proceed(r, next)

\* The tool panics: the producer returns an error, which stops the group.
ToolPanics(r) ==
    /\ Producing(r, "tool")
    /\ run' = [run EXCEPT ![r].producer = "ended", ![r].stopped = TRUE]
    /\ UNCHANGED <<outside, store>>

Writing == {"submit", "work", "artifact", "empty", "complete", "fail", "cancel"}

Event(w) ==
    CASE run[w].producer = "submit" -> "submitted"
      [] run[w].producer = "work" -> "working"
      [] run[w].producer = "artifact" -> "artifact"
      [] run[w].producer = "empty" -> "empty"
      [] run[w].producer = "complete" -> "completed"
      [] run[w].producer = "fail" -> "failed"
      [] run[w].producer = "cancel" -> CancelEvent(run[w].last.state)

AfterWrite(p) ==
    CASE p = "submit" -> "prepare"
      [] p = "work" -> "tool"
      [] p \in {"artifact", "empty"} -> "complete"
      [] OTHER -> "ended"

\* pipeWriter.Write, by the run's own producer.
Write(w) ==
    /\ run[w].stage = "running" /\ run[w].producer \in Writing
    /\ \/ /\ Len(run[w].pipe) < PipeSize
          /\ run' = [run EXCEPT ![w].pipe = Append(@, Event(w)), ![w].producer = AfterWrite(@)]
       \/ /\ run[w].stopped
          /\ run' = [run EXCEPT ![w].producer = "ended"]
    /\ UNCHANGED <<outside, store>>

-----------------------------------------------------------------------------
(* The consumer: executionHandler.processEvents. *)

Consuming(w, at) == run[w].stage = "running" /\ run[w].consumer = at

Read(w) ==
    /\ Consuming(w, "read") /\ run[w].pipe # <<>>
    /\ run' = [run EXCEPT ![w].pipe = Tail(@), ![w].event = Head(run[w].pipe), ![w].consumer = "process"]
    /\ UNCHANGED <<outside, store>>

\* Faulty variant: a consumer that returns a result leaves the producer running.
Return_KeepsProducer(w, result) ==
    run' = [run EXCEPT ![w].consumer = "ended", ![w].result = result, ![w].event = "none"]

\* The consumer returns; whatever it returns, the group's context ends.
Return(w, result) ==
    run' = [run EXCEPT ![w].consumer = "ended", ![w].stopped = TRUE, ![w].result = result, ![w].event = "none"]

ReadStopped(w) ==
    /\ Consuming(w, "read") /\ run[w].stopped
    /\ IF w \in Requests THEN run' = [run EXCEPT ![w].consumer = "fail"] ELSE Return(w, "error")
    /\ UNCHANGED <<outside, store>>

\* What taskupdate.Manager makes of the event: the new state, or an error.
Applied(w) ==
    LET last == run[w].last.state  e == run[w].event IN
    IF last \in Terminal THEN IF e = "stored" /\ w \in Cancels THEN "same" ELSE "invalid"
    ELSE IF e = "empty" \/ (last = "none" /\ e \notin {"submitted", "stored"}) THEN "invalid"
    ELSE CASE e = "artifact" -> last
           [] e = "stored" -> "canceled"
           [] OTHER -> e

\* saveTask: create the task or update it, and remember the new version.  A
\* cancelation broadcasts nothing, and the one event it reads is final.
Saved(w, s) ==
    LET stored == [state |-> s, version |-> run[w].last.version + 1] IN
    /\ store' = [store EXCEPT ![run[w].tid] = stored]
    /\ run' = [run EXCEPT ![w].last = stored, ![w].event = "none",
                          ![w].result = IF s \in Terminal THEN s ELSE "none",
                          ![w].consumer = IF w \in Requests THEN "broadcast" ELSE "ended",
                          ![w].stopped = @ \/ w \in Cancels]

\* An event that is invalid, or that the store fails to take, fails the task if
\* there is one, unless the store fails to take that.
Process(w) ==
    /\ Consuming(w, "process")
    /\ \/ Applied(w) = "same" /\ Return(w, "canceled") /\ UNCHANGED store
       \/ Applied(w) \notin {"same", "invalid"} /\ Saved(w, Applied(w))
       \/ Applied(w) # "same" /\ run[w].last.state # "none" /\ Saved(w, "failed")
       \/ Applied(w) # "same" /\ Return(w, "error") /\ UNCHANGED store
    /\ UNCHANGED outside

\* The event reaches the subscribers; a final one ends the consumer.
Broadcast(r) ==
    /\ Consuming(r, "broadcast")
    /\ IF run[r].result = "none" THEN run' = [run EXCEPT ![r].consumer = "read"] ELSE Return(r, run[r].result)
    /\ UNCHANGED <<outside, store>>

\* The group's context ended first: the event is treated as lost.
BroadcastStopped(r) ==
    /\ Consuming(r, "broadcast") /\ run[r].stopped
    /\ run' = [run EXCEPT ![r].consumer = "fail"]
    /\ UNCHANGED <<outside, store>>

\* ProcessError: SetTaskFailed, whatever the task's state, if there is a task and
\* the store takes it.
ProcessError(r) ==
    LET stored == [state |-> "failed", version |-> run[r].last.version + 1] IN
    /\ Consuming(r, "fail")
    /\ \/ Return(r, "error") /\ UNCHANGED store
       \/ /\ run[r].last.state # "none"
          /\ store' = [store EXCEPT ![run[r].tid] = stored]
          /\ run' = [run EXCEPT ![r].last = stored, ![r].consumer = "ended", ![r].stopped = TRUE,
                                ![r].result = "failed"]
    /\ UNCHANGED outside

-----------------------------------------------------------------------------

ExecuteStep(r) ==
    \/ createExecution(r) \/ AwaitPrevious(r) \/ PreviousDone(r) \/ StillActive(r) \/ Spawn(r)

HandlerStep(w) ==
    \/ w \in Requests /\ (CreateExecutor(w) \/ UpdateHistory(w) \/ cleanupExecution(w))
    \/ w \in Cancels /\ (CreateCanceler(w) \/ SignalSetup(w) \/ SignalWrite(w) \/ SignalWait(w) \/ cleanupCancelation(w))
    \/ GroupDone(w)

ProducerStep(w) == Start(w) \/ Prepare(w) \/ Tool(w) \/ ToolPanics(w) \/ Write(w)

ConsumerStep(w) ==
    \/ Read(w) \/ ReadStopped(w) \/ Process(w) \/ Broadcast(w) \/ BroadcastStopped(w) \/ ProcessError(w)

Next ==
    \/ \E r \in Requests : ExecuteStep(r) \/ TimedOut(r) \/ \E t \in Tasks, fresh \in BOOLEAN : SendMessage(r, t, fresh)
    \/ \E c \in Cancels : Answered(c) \/ GiveUp(c) \/ \E t \in Tasks : Cancel(c, t)
    \/ \E w \in Runs : HandlerStep(w) \/ ProducerStep(w) \/ ConsumerStep(w)

Spec == Init /\ [][Next]_vars

\* The goroutines run, tools return and subscribers read what is broadcast; no
\* caller is bound to call, and no caller's context to end.
FairSpec ==
    /\ Spec
    /\ \A r \in Requests : WF_vars(ExecuteStep(r))
    /\ \A c \in Cancels : WF_vars(Answered(c))
    /\ \A w \in Runs : WF_vars(HandlerStep(w)) /\ WF_vars(ProducerStep(w)) /\ WF_vars(ConsumerStep(w))

-----------------------------------------------------------------------------
(* Properties. *)

Active(w) == run[w].stage \in {"history", "running", "cleanup"} /\ run[w].last.state # "none"

\* SingleWriter: the version an execution or an exclusive cancelation remembers
\* is the stored one until it is cleaned up, so that the store's check for
\* concurrent modification never fails (local_manager.go's maps see to it).
SingleWriter == \A w \in Runs : Active(w) => run[w].last = store[run[w].tid]

\* QuotaExact: the limiter counts the published executions, each once, through
\* every way an execution ends, and never lets more in than MaxExecutions.
QuotaExact ==
    /\ quota = Cardinality({ t \in Tasks : executions[t] # None })
    /\ MaxExecutions > 0 => quota <= MaxExecutions

\* AnswerStands: a task that a call of Cancel was told is canceled is canceled
\* and stays so, whatever was executing it when the call came.
AnswerStands ==
    \A c \in Cancels : can[c].pc = "canceled" => store[run[can[c].awaits].tid].state = "canceled"

Finished(t) == store[t].state \in Terminal

\* The tasks held by an execution, or by a cancelation that runs on its own; a
\* finished task is held only by the execution that finished it.
Held ==
    { t \in Tasks :
        \/ executions[t] # None /\ (Finished(t) => run[executions[t]].last = store[t])
        \/ cancelations[t] # None /\ can[cancelations[t]].on = None /\ ~Finished(t) }

Lifecycle == INSTANCE TaskLifecycle WITH status <- [t \in Tasks |-> store[t].state], held <- Held

\* KeepsLifecycle: the manager implements TaskLifecycle: a task is changed only
\* by the run that holds it, and a terminal status stands once the run is over.
KeepsLifecycle == Lifecycle!Spec

\* TerminalImmutable: what a2a/core.go says of TaskState.Terminal: in a terminal
\* state the task becomes immutable, and no further changes to it are permitted.
\* Process refuses them, but ProcessError fails a task whose final event it could
\* not broadcast, whatever its state: the code breaks this.
TerminalImmutable == [][\A t \in Tasks : Finished(t) => store'[t].state = store[t].state]_vars

\* RunsEnd: no execution and no cancelation holds its task for ever.
RunsEnd == Lifecycle!Released

\* CallsEnd: every call of Execute and of Cancel comes back to its caller.
CallsEnd ==
    /\ \A r \in Requests : req[r].pc = "create" ~> req[r].pc \in {"refused", "subscribed"}
    /\ \A c \in Cancels : can[c].pc = "waiting" ~> can[c].pc \in {"canceled", "error"}

-----------------------------------------------------------------------------
(* What the safety properties rest on. *)

Statuses == Terminal \cup {"none", "submitted", "working"}

Stored == [state : Statuses, version : Nat]

Events == (Statuses \ {"none"}) \cup {"artifact", "empty", "stored"}

Results == Terminal \cup {"none", "error"}

Calls == [pc : {"idle", "create", "await", "spawn", "subscribed", "refused"}, tid : Tasks \cup {None},
          fresh : BOOLEAN, tries : Nat, behind : Requests \cup {None}]

CancelCalls == [pc : {"idle", "waiting", "canceled", "error"}, on : Requests \cup {None},
                awaits : Cancels \cup {None}]

Before == {"new", "setup", "signal", "write", "wait"}

\* The stages of a run between its publication and its cleanup.
Live == Before \cup {"history", "running", "cleanup"}

RunStates ==
    [tid : Tasks \cup {None}, stage : Live \cup {"off", "over"},
     producer : Writing \cup {"off", "start", "prepare", "tool", "ended"},
     consumer : {"off", "read", "process", "broadcast", "fail", "ended"},
     pipe : Seq(Events), closed : BOOLEAN, stopped : BOOLEAN, event : Events \cup {"none"},
     last : Stored, result : Results, done : BOOLEAN]

TypeOK ==
    /\ executions \in [Tasks -> Requests \cup {None}]
    /\ cancelations \in [Tasks -> Cancels \cup {None}]
    /\ quota \in Int
    /\ store \in [Tasks -> Stored]
    /\ req \in [Requests -> Calls] /\ can \in [Cancels -> CancelCalls]
    /\ run \in [Runs -> RunStates]

\* A call of Execute and its run: published from createExecution to cleanup.
OwnsExecution(r) ==
    LET w == run[r] IN
    /\ req[r].pc # "idle" => req[r].tid \in Tasks
    /\ w.stage = "off" <=> req[r].pc \notin {"spawn", "subscribed"}
    /\ w.stage = "new" <=> req[r].pc = "spawn"
    /\ w.stage \notin {"signal", "write", "wait"}
    /\ w.stage # "off" => w.tid \in Tasks
    /\ w.stage \in Live => executions[w.tid] = r

\* A call of Cancel and its run, which runs on its own or signals a run of the
\* same task.
OwnsCancelation(c) ==
    LET w == run[c] IN
    /\ IF can[c].pc = "idle" THEN w.stage = "off" ELSE can[c].awaits \in Cancels
    /\ w.stage \notin {"new", "history"}
    /\ w.stage # "off" => w.tid \in Tasks
    /\ w.stage \in Live => cancelations[w.tid] = c
    /\ w.stage \in {"setup", "running"} => can[c].on = None
    /\ w.stage \in {"signal", "write", "wait"} => can[c].on # None
    /\ can[c].on # None => run[can[c].on].stage # "off" /\ run[can[c].on].tid = w.tid

\* The published runs of a task; a cancelation that found no execution keeps
\* executions out.
OwnedTask(t) ==
    LET r == executions[t]  c == cancelations[t] IN
    /\ r # None => run[r].tid = t /\ run[r].stage \in Live
    /\ c # None => run[c].tid = t /\ run[c].stage \in Live /\ (can[c].on = None => r = None)

Ownership ==
    /\ \A r \in Requests : OwnsExecution(r)
    /\ \A c \in Cancels : OwnsCancelation(c)
    /\ \A t \in Tasks : OwnedTask(t)

\* What a run remembers of its task, and that it is the stored version.
Remembers(w) ==
    LET x == run[w] IN
    /\ x.stage \in Before \cup {"off", "over"} => x.last = NoTask
    /\ x.stage \in Before \cup {"off", "history"} => x.result = "none" /\ x.consumer = "off"
    /\ x.stage = "history" => Resumable(x.last.state)
    /\ x.stage \in {"history", "running"} => x.last = store[x.tid]
    /\ x.stage = "cleanup" => x.last.state = "none" \/ x.last = store[x.tid]
    /\ x.stage = "running" /\ x.result = "canceled" => x.last.state = "canceled"
    /\ x.consumer = "process" \/ x.stage = "write" => x.event # "none"
    /\ x.done => x.stage = "over"

\* A cancelation that runs on its own reads the one event its canceler writes.
CancelsOnce(c) ==
    LET x == run[c] IN
    /\ can[c].on # None => x.last = NoTask
    /\ x.stage = "setup" => x.pipe = <<>>
    /\ x.stage = "running" =>
          /\ x.producer \in {"cancel", "ended"} /\ x.consumer \in {"read", "process", "ended"}
          /\ x.consumer # "ended" =>
                /\ Cancelable(x.last.state)
                /\ \A i \in 1..Len(x.pipe) : x.pipe[i] = CancelEvent(x.last.state)
                /\ x.consumer = "process" => x.event = CancelEvent(x.last.state)

Memory ==
    /\ \A t \in Tasks : store[t].state = "none" => store[t] = NoTask
    /\ \A w \in Runs : Remembers(w)
    /\ \A c \in Cancels : CancelsOnce(c)

\* The run ended by canceling its task, which no execution has taken up since.
Canceled(w) ==
    /\ run[w].stage \in {"cleanup", "over"} /\ run[w].result = "canceled"

Settled(w) ==
    /\ store[run[w].tid].state = "canceled"
    /\ \A r \in Requests : run[r].tid = run[w].tid => run[r].stage \notin {"history", "running"}

Answers ==
    /\ \A w \in Runs : Canceled(w) => Settled(w)
    /\ \A c \in Cancels : can[c].pc = "canceled" => Canceled(can[c].awaits)

=============================================================================
