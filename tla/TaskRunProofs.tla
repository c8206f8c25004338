--------------------------- MODULE TaskRunProofs ----------------------------
(***************************************************************************)
(* The steps of the runs of the execution manager: what they do to the     *)
(* tasks, and that they keep what the manager relies on, for any number of *)
(* tasks, requests and cancelations, and every limit.                      *)
(***************************************************************************)
EXTENDS TaskExec, TLAPS

(* Types, and what a step does to the runs. *)

\* A new run has the type of a run.
LEMMA NewRunType ==
    ASSUME NEW t \in Tasks \cup {None}, NEW s \in Live \cup {"off", "over"}
    PROVE  NewRun(t, s) \in RunStates
BY DEF NewRun, RunStates, NoTask, Stored, Statuses, Results, Events

\* Nothing is published and no run exists when the manager is made.
LEMMA TypeInit == Init => TypeOK
<1> SUFFICES ASSUME Init PROVE TypeOK
  BY Zenon
<1>1. run \in [Runs -> RunStates]
  BY Zenon, NewRunType DEF Init
<1>2. store \in [Tasks -> Stored]
  BY Zenon DEF Init, NoTask, Stored, Statuses
<1>3. req \in [Requests -> Calls]
  BY Zenon DEF Init, Calls
<1>4. can \in [Cancels -> CancelCalls]
  BY Zenon DEF Init, CancelCalls
<1>5. executions \in [Tasks -> Requests \cup {None}] /\ cancelations \in [Tasks -> Cancels \cup {None}] /\ quota \in Int
  BY DEF Init
<1> QED
  BY Zenon, <1>1, <1>2, <1>3, <1>4, <1>5 DEF TypeOK

\* The run v stays as it was, but for what may be written to an execution's pipe.
SameRun(v) ==
    LET x == run[v]  y == run'[v] IN
    /\ y.tid = x.tid /\ y.stage = x.stage /\ y.last = x.last /\ y.result = x.result
    /\ y.producer = x.producer /\ y.consumer = x.consumer /\ y.event = x.event /\ y.done = x.done
    /\ v \in Cancels => y.pipe = x.pipe

\* No run but w changes in these parts.
OnlyRun(w) == \A v \in Runs \ {w} : SameRun(v)

\* A step that writes one run.
LEMMA RunUpdate ==
    ASSUME TypeOK, NEW w \in Runs, NEW x \in RunStates, run' = [run EXCEPT ![w] = x]
    PROVE  run' \in [Runs -> RunStates] /\ run'[w] = x /\ OnlyRun(w)
BY Zenon DEF TypeOK, OnlyRun, SameRun

\* A step of the run w, and of no other.
Moves(w) ==
    /\ run' \in [Runs -> RunStates] /\ OnlyRun(w)
    /\ run'[w].tid = run[w].tid /\ run'[w].done = run[w].done

\* The run passes to the stage s and has the result res.
Stages(w, s, l, res) ==
    /\ run'[w].stage = s /\ run'[w].last = l /\ run'[w].result = res
    /\ run'[w].consumer = run[w].consumer /\ run'[w].event = run[w].event /\ run'[w].pipe = run[w].pipe

\* The setup fails.
LEMMA AbortMove ==
    ASSUME TypeOK, NEW w \in Runs, Abort(w)
    PROVE  Moves(w) /\ Stages(w, "cleanup", NoTask, "error")
<1> DEFINE x == [run[w] EXCEPT !.stage = "cleanup", !.closed = TRUE, !.result = "error", !.last = NoTask]
<1>0. run[w] \in RunStates
  BY Zenon DEF TypeOK
<1>t. "cleanup" \in Live /\ "error" \in Results /\ NoTask \in Stored
  BY Zenon DEF Live, Results, NoTask, Stored, Statuses
<1>1. x \in RunStates
  BY <1>0, <1>t, Zenon DEF RunStates
<1>2. run' = [run EXCEPT ![w] = x]
  BY Zenon DEF Abort
<1>3. run' \in [Runs -> RunStates] /\ run'[w] = x /\ OnlyRun(w)
  BY <1>1, <1>2, RunUpdate, Zenon
<1>4. /\ x.tid = run[w].tid /\ x.done = run[w].done
      /\ x.stage = "cleanup" /\ x.last = NoTask /\ x.result = "error"
      /\ x.consumer = run[w].consumer /\ x.event = run[w].event /\ x.pipe = run[w].pipe
  BY Zenon, <1>0 DEF RunStates
<1> HIDE DEF x
<1> QED
  BY Zenon, <1>3, <1>4 DEF Moves, Stages

\* A stored task is taken up.
LEMMA HistoryMove ==
    ASSUME TypeOK, NEW w \in Runs, NEW l \in Stored, run' = [run EXCEPT ![w].stage = "history", ![w].last = l]
    PROVE  Moves(w) /\ Stages(w, "history", l, run[w].result)
<1> DEFINE x == [run[w] EXCEPT !.stage = "history", !.last = l]
<1>0. run[w] \in RunStates
  BY Zenon DEF TypeOK
<1>1. x \in RunStates
  BY <1>0, Zenon DEF RunStates, Live
<1>2. run' = [run EXCEPT ![w] = x]
  BY Zenon DEF TypeOK
<1>3. run' \in [Runs -> RunStates] /\ run'[w] = x /\ OnlyRun(w)
  BY <1>1, <1>2, RunUpdate, Zenon
<1>4. /\ x.tid = run[w].tid /\ x.done = run[w].done
      /\ x.stage = "history" /\ x.last = l
      /\ x.result = run[w].result /\ x.consumer = run[w].consumer /\ x.event = run[w].event /\ x.pipe = run[w].pipe
  BY Zenon, <1>0 DEF RunStates
<1> HIDE DEF x
<1> QED
  BY Zenon, <1>3, <1>4 DEF Moves, Stages

\* The execution is handed to its goroutine.
LEMMA SpawnMove ==
    ASSUME TypeOK, NEW w \in Runs, run' = [run EXCEPT ![w].stage = "setup"]
    PROVE  Moves(w) /\ Stages(w, "setup", run[w].last, run[w].result)
<1> DEFINE x == [run[w] EXCEPT !.stage = "setup"]
<1>0. run[w] \in RunStates
  BY Zenon DEF TypeOK
<1>1. x \in RunStates
  BY Zenon, <1>0 DEF RunStates, Live, Before
<1>2. run' = [run EXCEPT ![w] = x]
  BY Zenon DEF TypeOK
<1>3. run' \in [Runs -> RunStates] /\ run'[w] = x /\ OnlyRun(w)
  BY <1>1, <1>2, RunUpdate, Zenon
<1>4. /\ x.tid = run[w].tid /\ x.done = run[w].done
      /\ x.stage = "setup"
      /\ x.last = run[w].last /\ x.result = run[w].result /\ x.consumer = run[w].consumer /\ x.event = run[w].event /\ x.pipe = run[w].pipe
  BY Zenon, <1>0 DEF RunStates
<1> HIDE DEF x
<1> QED
  BY Zenon, <1>3, <1>4 DEF Moves, Stages

\* Both goroutines have returned.
LEMMA GroupMove ==
    ASSUME TypeOK, NEW w \in Runs, GroupDone(w)
    PROVE  Moves(w) /\ Stages(w, "cleanup", run[w].last, run[w].result)
<1> DEFINE x == [run[w] EXCEPT !.stage = "cleanup", !.closed = TRUE]
<1>0. run[w] \in RunStates
  BY Zenon DEF TypeOK
<1>1. x \in RunStates
  BY <1>0, Zenon DEF RunStates, Live
<1>2. run' = [run EXCEPT ![w] = x]
  BY Zenon DEF GroupDone
<1>3. run' \in [Runs -> RunStates] /\ run'[w] = x /\ OnlyRun(w)
  BY <1>1, <1>2, RunUpdate, Zenon
<1>4. /\ x.tid = run[w].tid /\ x.done = run[w].done
      /\ x.stage = "cleanup"
      /\ x.last = run[w].last /\ x.result = run[w].result /\ x.consumer = run[w].consumer /\ x.event = run[w].event /\ x.pipe = run[w].pipe
  BY Zenon, <1>0 DEF RunStates
<1> HIDE DEF x
<1> QED
  BY Zenon, <1>3, <1>4 DEF Moves, Stages

\* The run starts its two goroutines.
Starts(w, l, p) ==
    /\ run'[w].stage = "running" /\ run'[w].last = l /\ run'[w].consumer = "read" /\ run'[w].producer = p
    /\ run'[w].result = run[w].result /\ run'[w].event = run[w].event /\ run'[w].pipe = run[w].pipe

\* The setup succeeds.
LEMMA StartMove ==
    ASSUME TypeOK, NEW w \in Runs, NEW l \in Stored, NEW p \in {"start", "cancel"}, Started(w, l, p)
    PROVE  Moves(w) /\ Starts(w, l, p)
<1> DEFINE x == [run[w] EXCEPT !.stage = "running", !.last = l, !.producer = p, !.consumer = "read"]
<1>0. run[w] \in RunStates
  BY Zenon DEF TypeOK
<1>1. x \in RunStates
  BY <1>0, Zenon DEF RunStates, Live, Writing
<1>2. run' = [run EXCEPT ![w] = x]
  BY Zenon DEF Started
<1>3. run' \in [Runs -> RunStates] /\ run'[w] = x /\ OnlyRun(w)
  BY <1>1, <1>2, RunUpdate, Zenon
<1>4. /\ x.tid = run[w].tid /\ x.done = run[w].done
      /\ x.stage = "running" /\ x.last = l /\ x.consumer = "read" /\ x.producer = p
      /\ x.result = run[w].result /\ x.event = run[w].event /\ x.pipe = run[w].pipe
  BY Zenon, <1>0 DEF RunStates
<1> HIDE DEF x
<1> QED
  BY Zenon, <1>3, <1>4 DEF Moves, Starts

\* The producer moves on, and may write to the pipe.
Produces(w, p, q) ==
    /\ run'[w].producer = p /\ run'[w].pipe = q
    /\ run'[w].stage = run[w].stage /\ run'[w].last = run[w].last /\ run'[w].result = run[w].result
    /\ run'[w].consumer = run[w].consumer /\ run'[w].event = run[w].event

\* The producer goes on without writing.
LEMMA ProceedMove ==
    ASSUME TypeOK, NEW w \in Runs, NEW p \in Writing \cup {"prepare", "tool", "ended"}, run' = [run EXCEPT ![w].producer = p]
    PROVE  Moves(w) /\ Produces(w, p, run[w].pipe)
<1> DEFINE x == [run[w] EXCEPT !.producer = p]
<1>0. run[w] \in RunStates
  BY Zenon DEF TypeOK
<1>1. x \in RunStates
  BY Zenon, <1>0 DEF RunStates
<1>2. run' = [run EXCEPT ![w] = x]
  BY Zenon DEF TypeOK
<1>3. run' \in [Runs -> RunStates] /\ run'[w] = x /\ OnlyRun(w)
  BY <1>1, <1>2, RunUpdate, Zenon
<1>4. /\ x.tid = run[w].tid /\ x.done = run[w].done
      /\ x.producer = p
      /\ x.pipe = run[w].pipe /\ x.stage = run[w].stage /\ x.last = run[w].last /\ x.result = run[w].result /\ x.consumer = run[w].consumer /\ x.event = run[w].event
  BY Zenon, <1>0 DEF RunStates
<1> HIDE DEF x
<1> QED
  BY Zenon, <1>3, <1>4 DEF Moves, Produces

\* The tool panics.
LEMMA PanicMove ==
    ASSUME TypeOK, NEW w \in Runs, ToolPanics(w)
    PROVE  Moves(w) /\ Produces(w, "ended", run[w].pipe)
<1> DEFINE x == [run[w] EXCEPT !.producer = "ended", !.stopped = TRUE]
<1>0. run[w] \in RunStates
  BY Zenon DEF TypeOK
<1>1. x \in RunStates
  BY <1>0, Zenon DEF RunStates
<1>2. run' = [run EXCEPT ![w] = x]
  BY Zenon DEF ToolPanics
<1>3. run' \in [Runs -> RunStates] /\ run'[w] = x /\ OnlyRun(w)
  BY <1>1, <1>2, RunUpdate, Zenon
<1>4. /\ x.tid = run[w].tid /\ x.done = run[w].done
      /\ x.producer = "ended"
      /\ x.pipe = run[w].pipe /\ x.stage = run[w].stage /\ x.last = run[w].last /\ x.result = run[w].result /\ x.consumer = run[w].consumer /\ x.event = run[w].event
  BY Zenon, <1>0 DEF RunStates
<1> HIDE DEF x
<1> QED
  BY Zenon, <1>3, <1>4 DEF Moves, Produces

\* The producer writes an event.
LEMMA WriteMove ==
    ASSUME TypeOK, NEW w \in Runs, NEW e \in Events, NEW p \in Writing \cup {"prepare", "tool", "ended"},
           run' = [run EXCEPT ![w].pipe = Append(@, e), ![w].producer = p]
    PROVE  Moves(w) /\ Produces(w, p, Append(run[w].pipe, e))
<1> DEFINE x == [run[w] EXCEPT !.pipe = Append(run[w].pipe, e), !.producer = p]
<1>0. run[w] \in RunStates
  BY Zenon DEF TypeOK
<1>p. Append(run[w].pipe, e) \in Seq(Events)
  <2>1. run[w].pipe \in Seq(Events)
    BY Zenon, <1>0 DEF RunStates
  <2> QED
    BY <2>1
<1>1. x \in RunStates
  BY <1>0, <1>p, Zenon DEF RunStates
<1>2. run' = [run EXCEPT ![w] = x]
  BY Zenon DEF TypeOK
<1>3. run' \in [Runs -> RunStates] /\ run'[w] = x /\ OnlyRun(w)
  BY <1>1, <1>2, RunUpdate, Zenon
<1>4. /\ x.tid = run[w].tid /\ x.done = run[w].done
      /\ x.producer = p /\ x.pipe = Append(run[w].pipe, e)
      /\ x.stage = run[w].stage /\ x.last = run[w].last /\ x.result = run[w].result /\ x.consumer = run[w].consumer /\ x.event = run[w].event
  BY Zenon, <1>0 DEF RunStates
<1> HIDE DEF x
<1> QED
  BY Zenon, <1>3, <1>4 DEF Moves, Produces

\* The consumer moves on, with an event, a version of the task and a result.
Consumes(w, at, q, e, l, res) ==
    /\ run'[w].consumer = at /\ run'[w].pipe = q /\ run'[w].event = e /\ run'[w].last = l /\ run'[w].result = res
    /\ run'[w].stage = run[w].stage /\ run'[w].producer = run[w].producer

\* The consumer takes the next event from the pipe.
LEMMA ReadMove ==
    ASSUME TypeOK, NEW w \in Runs, Read(w)
    PROVE  Moves(w) /\ Consumes(w, "process", Tail(run[w].pipe), Head(run[w].pipe), run[w].last, run[w].result)
<1> DEFINE x == [run[w] EXCEPT !.pipe = Tail(@), !.event = Head(run[w].pipe), !.consumer = "process"]
<1>0. run[w] \in RunStates
  BY Zenon DEF TypeOK
<1>p. Tail(run[w].pipe) \in Seq(Events) /\ Head(run[w].pipe) \in Events
  <2>1. run[w].pipe \in Seq(Events) /\ run[w].pipe # <<>>
    BY Zenon, <1>0 DEF RunStates, Read
  <2> QED
    BY <2>1
<1>1. x \in RunStates
  BY <1>0, <1>p, Zenon DEF RunStates
<1>2. run' = [run EXCEPT ![w] = x]
  BY Zenon DEF Read
<1>3. run' \in [Runs -> RunStates] /\ run'[w] = x /\ OnlyRun(w)
  BY <1>1, <1>2, RunUpdate, Zenon
<1>4. /\ x.tid = run[w].tid /\ x.done = run[w].done
      /\ x.consumer = "process" /\ x.pipe = Tail(run[w].pipe) /\ x.event = Head(run[w].pipe)
      /\ x.last = run[w].last /\ x.result = run[w].result /\ x.stage = run[w].stage /\ x.producer = run[w].producer
  BY Zenon, <1>0 DEF RunStates
<1> HIDE DEF x
<1> QED
  BY Zenon, <1>3, <1>4 DEF Moves, Consumes

\* The consumer returns.
LEMMA ReturnMove ==
    ASSUME TypeOK, NEW w \in Runs, NEW res \in Results, Return(w, res)
    PROVE  Moves(w) /\ Consumes(w, "ended", run[w].pipe, "none", run[w].last, res)
<1> DEFINE x == [run[w] EXCEPT !.consumer = "ended", !.stopped = TRUE, !.result = res, !.event = "none"]
<1>0. run[w] \in RunStates
  BY Zenon DEF TypeOK
<1>1. x \in RunStates
  BY <1>0, Zenon DEF RunStates
<1>2. run' = [run EXCEPT ![w] = x]
  BY Zenon DEF Return
<1>3. run' \in [Runs -> RunStates] /\ run'[w] = x /\ OnlyRun(w)
  BY <1>1, <1>2, RunUpdate, Zenon
<1>4. /\ x.tid = run[w].tid /\ x.done = run[w].done
      /\ x.consumer = "ended" /\ x.event = "none" /\ x.result = res
      /\ x.pipe = run[w].pipe /\ x.last = run[w].last /\ x.stage = run[w].stage /\ x.producer = run[w].producer
  BY Zenon, <1>0 DEF RunStates
<1> HIDE DEF x
<1> QED
  BY Zenon, <1>3, <1>4 DEF Moves, Consumes

\* The consumer reads on, or turns to its error handler.
LEMMA GoMove ==
    ASSUME TypeOK, NEW w \in Runs, NEW at \in {"read", "fail"}, run' = [run EXCEPT ![w].consumer = at]
    PROVE  Moves(w) /\ Consumes(w, at, run[w].pipe, run[w].event, run[w].last, run[w].result)
<1> DEFINE x == [run[w] EXCEPT !.consumer = at]
<1>0. run[w] \in RunStates
  BY Zenon DEF TypeOK
<1>1. x \in RunStates
  BY Zenon, <1>0 DEF RunStates
<1>2. run' = [run EXCEPT ![w] = x]
  BY Zenon DEF TypeOK
<1>3. run' \in [Runs -> RunStates] /\ run'[w] = x /\ OnlyRun(w)
  BY <1>1, <1>2, RunUpdate, Zenon
<1>4. /\ x.tid = run[w].tid /\ x.done = run[w].done
      /\ x.consumer = at
      /\ x.pipe = run[w].pipe /\ x.event = run[w].event /\ x.last = run[w].last /\ x.result = run[w].result /\ x.stage = run[w].stage /\ x.producer = run[w].producer
  BY Zenon, <1>0 DEF RunStates
<1> HIDE DEF x
<1> QED
  BY Zenon, <1>3, <1>4 DEF Moves, Consumes

\* The next version of the task that w remembers, in the state s.
Version(w, s) == [state |-> s, version |-> run[w].last.version + 1]

\* It is a version of a task.
LEMMA VersionType ==
    ASSUME TypeOK, NEW w \in Runs, NEW s \in Statuses
    PROVE  Version(w, s) \in Stored
BY DEF TypeOK, RunStates, Stored, Version

\* What saveTask leaves of a run: the version stored, and whether it ends the run.
Saves(w, s) ==
    /\ run'[w].last = Version(w, s) /\ store' = [store EXCEPT ![run[w].tid] = Version(w, s)]
    /\ run'[w].result = IF s \in Terminal THEN s ELSE "none"
    /\ run'[w].consumer \in {"broadcast", "ended"} /\ (w \in Cancels => run'[w].consumer = "ended")
    /\ run'[w].stage = run[w].stage /\ run'[w].producer = run[w].producer

\* What saveTask writes has the type of a run.
LEMMA SavedType ==
    ASSUME NEW y \in RunStates, NEW l \in Stored, NEW res \in Results, NEW at \in {"broadcast", "ended"}, NEW st \in BOOLEAN
    PROVE  [y EXCEPT !.last = l, !.event = "none", !.result = res, !.consumer = at, !.stopped = st] \in RunStates
BY Zenon DEF RunStates

\* The consumer saves a task.
LEMMA SavedMove ==
    ASSUME TypeOK, NEW w \in Runs, NEW s \in Statuses, Saved(w, s)
    PROVE  Moves(w) /\ Saves(w, s)
<1> DEFINE x == [run[w] EXCEPT !.last = Version(w, s), !.event = "none",
                              !.result = IF s \in Terminal THEN s ELSE "none",
                              !.consumer = IF w \in Requests THEN "broadcast" ELSE "ended",
                              !.stopped = run[w].stopped \/ w \in Cancels]
<1>0. run[w] \in RunStates
  BY Zenon DEF TypeOK
<1>v. Version(w, s) \in Stored
  BY Zenon, VersionType
<1>a. (IF s \in Terminal THEN s ELSE "none") \in Results
  BY Zenon DEF Results
<1>b. (run[w].stopped \/ w \in Cancels) \in BOOLEAN
  BY Zenon
<1>c. (IF w \in Requests THEN "broadcast" ELSE "ended") \in {"broadcast", "ended"}
  BY Zenon
<1>1. x \in RunStates
  BY <1>0, <1>v, <1>a, <1>b, <1>c, SavedType, Zenon
<1>2. run' = [run EXCEPT ![w] = x]
  BY Zenon DEF Saved, Version
<1>3. run' \in [Runs -> RunStates] /\ run'[w] = x /\ OnlyRun(w)
  BY <1>1, <1>2, RunUpdate, Zenon
<1>4. /\ x.tid = run[w].tid /\ x.done = run[w].done
      /\ x.last = Version(w, s) /\ x.result = IF s \in Terminal THEN s ELSE "none"
      /\ x.consumer = IF w \in Requests THEN "broadcast" ELSE "ended"
      /\ x.stage = run[w].stage /\ x.producer = run[w].producer
  BY Zenon, <1>0 DEF RunStates
<1> HIDE DEF x
<1> QED
  BY Zenon, <1>3, <1>4, NamesAssumption DEF Moves, Saves, Runs, Saved, Version

\* The error handler fails a task that exists.
LEMMA FailedMove ==
    ASSUME TypeOK, NEW w \in Runs, w \in Requests, ProcessError(w), ~(Return(w, "error") /\ store' = store)
    PROVE  Moves(w) /\ Saves(w, "failed")
<1> DEFINE x == [run[w] EXCEPT !.last = Version(w, "failed"), !.consumer = "ended", !.stopped = TRUE, !.result = "failed"]
<1>0. run[w] \in RunStates
  BY Zenon DEF TypeOK
<1>v. Version(w, "failed") \in Stored
  BY Zenon, VersionType DEF Statuses, Terminal
<1>t. "failed" \in Results
  BY Zenon DEF Results, Terminal
<1>1. x \in RunStates
  BY <1>0, <1>v, <1>t, Zenon DEF RunStates
<1>2. run' = [run EXCEPT ![w] = x]
  BY Zenon DEF ProcessError, Version
<1>3. run' \in [Runs -> RunStates] /\ run'[w] = x /\ OnlyRun(w)
  BY <1>1, <1>2, RunUpdate, Zenon
<1>4. /\ x.tid = run[w].tid /\ x.done = run[w].done
      /\ x.last = Version(w, "failed") /\ x.result = "failed" /\ x.consumer = "ended"
      /\ x.stage = run[w].stage /\ x.producer = run[w].producer
  BY Zenon, <1>0 DEF RunStates
<1> HIDE DEF x
<1> QED
  BY Zenon, <1>3, <1>4 DEF Moves, Saves, ProcessError, Version, Terminal

\* A cancelation that signals an execution moves on.
Signals(w, s, res) ==
    /\ run'[w].stage = s /\ run'[w].result = res
    /\ run'[w].last = run[w].last /\ run'[w].consumer = run[w].consumer
    /\ (run[w].event # "none" \/ s = "write" => run'[w].event # "none")

\* The canceler has the task it signals.
LEMMA SignalMove ==
    ASSUME TypeOK, NEW w \in Runs, NEW e \in Events, e # "none", run' = [run EXCEPT ![w].stage = "write", ![w].event = e]
    PROVE  Moves(w) /\ Signals(w, "write", run[w].result)
<1> DEFINE x == [run[w] EXCEPT !.stage = "write", !.event = e]
<1>0. run[w] \in RunStates
  BY Zenon DEF TypeOK
<1>1. x \in RunStates
  BY <1>0, Zenon DEF RunStates, Live, Before
<1>2. run' = [run EXCEPT ![w] = x]
  BY Zenon DEF TypeOK
<1>3. run' \in [Runs -> RunStates] /\ run'[w] = x /\ OnlyRun(w)
  BY <1>1, <1>2, RunUpdate, Zenon
<1>4. /\ x.tid = run[w].tid /\ x.done = run[w].done
      /\ x.stage = "write" /\ x.event = e /\ e # "none"
      /\ x.last = run[w].last /\ x.result = run[w].result /\ x.consumer = run[w].consumer
  BY Zenon, <1>0 DEF RunStates
<1> HIDE DEF x
<1> QED
  BY Zenon, <1>3, <1>4 DEF Moves, Signals

\* The execution it signalled is over: the cancelation takes its result.
LEMMA WaitMove ==
    ASSUME TypeOK, NEW w \in Runs, NEW res \in Results,
           run' = [run EXCEPT ![w].stage = "cleanup", ![w].result = res]
    PROVE  Moves(w) /\ Signals(w, "cleanup", res)
<1> DEFINE x == [run[w] EXCEPT !.stage = "cleanup", !.result = res]
<1>0. run[w] \in RunStates
  BY Zenon DEF TypeOK
<1>1. x \in RunStates
  BY <1>0, Zenon DEF RunStates, Live
<1>2. run' = [run EXCEPT ![w] = x]
  BY Zenon DEF TypeOK
<1>3. run' \in [Runs -> RunStates] /\ run'[w] = x /\ OnlyRun(w)
  BY <1>1, <1>2, RunUpdate, Zenon
<1>4. /\ x.tid = run[w].tid /\ x.done = run[w].done
      /\ x.stage = "cleanup" /\ x.result = res
      /\ x.last = run[w].last /\ x.consumer = run[w].consumer /\ x.event = run[w].event
  BY Zenon, <1>0 DEF RunStates
<1> HIDE DEF x
<1> QED
  BY Zenon, <1>3, <1>4 DEF Moves, Signals

\* The signal is written to the pipe of an execution: both runs change.
LEMMA SignalledMove ==
    ASSUME TypeOK, NEW w \in Cancels, NEW r \in Requests, run[w].event # "none",
           run' = [run EXCEPT ![r].pipe = Append(@, run[w].event), ![w].stage = "wait"]
    PROVE  Moves(w) /\ Signals(w, "wait", run[w].result)
<1> DEFINE x == [run[w] EXCEPT !.stage = "wait"]
           z == [run[r] EXCEPT !.pipe = Append(run[r].pipe, run[w].event)]
<1>0. run[w] \in RunStates /\ run[r] \in RunStates /\ w # r /\ w \in Runs /\ r \in Runs /\ r \notin Cancels
  BY Zenon, NamesAssumption DEF TypeOK, Runs
<1>p. Append(run[r].pipe, run[w].event) \in Seq(Events)
  <2>1. run[r].pipe \in Seq(Events) /\ run[w].event \in Events
    BY Zenon, <1>0 DEF RunStates
  <2> QED
    BY <2>1
<1>1. x \in RunStates
  BY Zenon, <1>0 DEF RunStates, Live, Before
<1>2. z \in RunStates
  BY <1>0, <1>p, Zenon DEF RunStates
<1>3. /\ x.tid = run[w].tid /\ x.done = run[w].done /\ x.stage = "wait" /\ x.event = run[w].event
      /\ x.last = run[w].last /\ x.result = run[w].result /\ x.consumer = run[w].consumer
  BY Zenon, <1>0 DEF RunStates
<1>4. /\ z.tid = run[r].tid /\ z.done = run[r].done /\ z.stage = run[r].stage /\ z.event = run[r].event
      /\ z.last = run[r].last /\ z.result = run[r].result /\ z.consumer = run[r].consumer /\ z.producer = run[r].producer
  BY Zenon, <1>0 DEF RunStates
<1>5. run' = [[run EXCEPT ![r] = z] EXCEPT ![w] = x]
  BY Zenon, <1>0 DEF TypeOK
<1> HIDE DEF x, z
<1>6. run' \in [Runs -> RunStates] /\ run'[w] = x /\ run'[r] = z /\ \A v \in Runs \ {w, r} : run'[v] = run[v]
  BY <1>0, <1>1, <1>2, <1>5, Zenon DEF TypeOK
<1>7. OnlyRun(w)
  BY <1>0, <1>4, <1>6, Zenon DEF OnlyRun, SameRun
<1> QED
  BY <1>3, <1>6, <1>7, Zenon DEF Moves, Signals

-----------------------------------------------------------------------------
(* The kinds of steps a run takes between its publication and its cleanup. *)

\* The setup fails; updating the history comes before its last check.
Fails(w) ==
    /\ run[w].stage \in {"setup", "history", "signal", "write"} /\ Stages(w, "cleanup", NoTask, "error")
    /\ \/ store' = store
       \/ /\ run[w].stage = "history"
          /\ \E l \in Stored : l.state = run[w].last.state /\ store' = [store EXCEPT ![run[w].tid] = l]

\* The setup succeeds: for a new task, for one taken up, for a cancelation.
Begins(w) ==
    \/ /\ w \in Requests /\ run[w].stage = "setup" /\ store[run[w].tid].state = "none"
       /\ Starts(w, NoTask, "start") /\ store' = store
    \/ /\ w \in Requests /\ run[w].stage = "history"
       /\ \E l \in Stored : /\ l.state = run[w].last.state /\ Starts(w, l, "start")
                            /\ store' = [store EXCEPT ![run[w].tid] = l]
    \/ /\ w \in Cancels /\ run[w].stage = "setup" /\ Cancelable(store[run[w].tid].state)
       /\ Starts(w, store[run[w].tid], "cancel") /\ store' = store

\* An execution takes up a task that was there before.
TakesUp(w) ==
    /\ w \in Requests /\ run[w].stage = "setup" /\ Resumable(store[run[w].tid].state)
    /\ Stages(w, "history", store[run[w].tid], run[w].result) /\ store' = store

\* The consumer has ended, and the run goes to its cleanup.
Ends(w) ==
    /\ run[w].stage = "running" /\ run[w].consumer = "ended"
    /\ Stages(w, "cleanup", run[w].last, run[w].result) /\ store' = store

\* A cancelation signals an execution, and shares its result.
Shares(w) ==
    /\ w \in Cancels /\ store' = store
    /\ \/ run[w].stage = "signal" /\ Signals(w, "write", run[w].result)
       \/ run[w].stage = "write" /\ Signals(w, "wait", run[w].result)
       \/ /\ run[w].stage = "wait" /\ run[can[w].on].done
          /\ Signals(w, "cleanup", run[can[w].on].result)

\* The producer works; a canceler writes one event and ends.
Works(w) ==
    /\ run[w].stage = "running" /\ store' = store
    /\ \E p \in Writing \cup {"prepare", "tool", "ended"}, q \in Seq(Events) :
          /\ Produces(w, p, q)
          /\ w \in Cancels => p = "ended" /\ q \in {run[w].pipe, Append(run[w].pipe, CancelEvent(run[w].last.state))}

\* The consumer reads an event, or goes on without storing anything.
Reads(w) ==
    /\ run[w].stage = "running" /\ store' = store /\ run[w].consumer = "read" /\ run[w].pipe # <<>>
    /\ Consumes(w, "process", Tail(run[w].pipe), Head(run[w].pipe), run[w].last, run[w].result)

\* The consumer goes on after an event that it need not store.
Goes(w) ==
    /\ run[w].stage = "running" /\ store' = store
    /\ \E at \in {"read", "fail", "ended"}, e \in Events \cup {"none"}, res \in Results :
          /\ Consumes(w, at, run[w].pipe, e, run[w].last, res)
          /\ w \in Cancels => at = "ended"
          /\ res = "canceled" => run[w].result = "canceled" \/ run[w].last.state = "canceled"

\* The consumer stores the task's next version: whatever the task's state, an
\* execution may fail it; a cancelation cancels one that is not finished.
Writes(w) ==
    /\ run[w].stage = "running"
    /\ \E s \in Statuses \ {"none"} :
          /\ Saves(w, s)
          /\ w \in Cancels => s \in Terminal /\ run[w].last.state \notin Terminal
          /\ run[w].last.state \in Terminal => s = "failed"

\* Every step of the run w is one of these.
Kinds(w) ==
    /\ Moves(w) /\ UNCHANGED outside
    /\ Fails(w) \/ Begins(w) \/ TakesUp(w) \/ Ends(w) \/ Shares(w) \/ Works(w) \/ Reads(w) \/ Goes(w) \/ Writes(w)

\* The facts about a run that the steps below use.
LEMMA RunType ==
    ASSUME TypeOK, NEW w \in Runs
    PROVE  /\ run[w].tid \in Tasks \cup {None} /\ run[w].pipe \in Seq(Events) /\ run[w].event \in Events \cup {"none"}
           /\ run[w].last \in Stored /\ run[w].result \in Results
           /\ run[w].last.state \in Statuses /\ run[w].last.version \in Nat
BY Zenon DEF TypeOK, RunStates, Stored

\* The setup of an execution.
LEMMA CreateKind ==
    ASSUME TypeOK, Ownership, NEW w \in Requests, CreateExecutor(w) \/ UpdateHistory(w)
    PROVE  Kinds(w)
<1>0. w \in Runs /\ run[w].tid \in Tasks \cup {None} /\ NoTask \in Stored /\ run[w].last \in Stored
  BY Zenon, RunType DEF Runs, NoTask, Stored, Statuses
<1>t. run[w].stage # "off" => store[run[w].tid] \in Stored
  BY Zenon DEF TypeOK, Ownership, OwnsExecution
<1>1. CASE CreateExecutor(w)
  <2>1. run[w].stage = "setup" /\ UNCHANGED outside /\ store' = store
    BY Zenon, <1>1 DEF CreateExecutor
  <2>2. CASE Abort(w)
    BY Zenon, <1>0, <2>1, <2>2, AbortMove DEF Kinds, Fails
  <2>3. CASE store[run[w].tid].state = "none" /\ Started(w, NoTask, "start")
    BY Zenon, <1>0, <2>1, <2>3, StartMove DEF Kinds, Begins
  <2>4. CASE Resumable(store[run[w].tid].state)
             /\ run' = [run EXCEPT ![w].stage = "history", ![w].last = store[run[w].tid]]
    BY <1>0, <1>t, <2>1, <2>4, HistoryMove, Zenon DEF Kinds, TakesUp
  <2> QED
    BY Zenon, <1>1, <2>2, <2>3, <2>4 DEF CreateExecutor
<1>2. CASE UpdateHistory(w)
  <2>1. PICK l \in {run[w].last, [run[w].last EXCEPT !.version = @ + 1]} :
           store' = [store EXCEPT ![run[w].tid] = l] /\ (Started(w, l, "start") \/ Abort(w))
    BY <1>2, Zenon DEF UpdateHistory
  <2>2. run[w].stage = "history" /\ UNCHANGED outside
    BY Zenon, <1>2 DEF UpdateHistory
  <2>3. l \in Stored /\ l.state = run[w].last.state
    BY <1>0 DEF Stored
  <2>4. CASE Abort(w)
    BY <1>0, <2>1, <2>2, <2>3, <2>4, AbortMove, Zenon DEF Kinds, Fails
  <2>5. CASE Started(w, l, "start")
    BY <1>0, <2>1, <2>2, <2>3, <2>5, StartMove, Zenon DEF Kinds, Begins
  <2> QED
    BY Zenon, <2>1, <2>4, <2>5
<1> QED
  BY Zenon, <1>1, <1>2

\* The steps of a cancelation that are not an execution's.
LEMMA CancelKind ==
    ASSUME TypeOK, Ownership, Memory, NEW w \in Cancels,
           CreateCanceler(w) \/ SignalSetup(w) \/ SignalWrite(w) \/ SignalWait(w)
    PROVE  Kinds(w)
<1>0. w \in Runs /\ run[w].result \in Results
  BY Zenon, RunType DEF Runs
<1>t. run[w].stage # "off" => store[run[w].tid] \in Stored
  BY Zenon DEF TypeOK, Ownership, OwnsCancelation
<1>r. run[w].stage \in {"write", "wait"} => can[w].on \in Requests
  BY Zenon DEF TypeOK, CancelCalls, Ownership, OwnsCancelation
<1>1. CASE CreateCanceler(w)
  BY Zenon, <1>0, <1>1, <1>t, AbortMove, StartMove DEF CreateCanceler, Kinds, Fails, Begins
<1>2. CASE SignalSetup(w)
  <2>1. \A s : CancelEvent(s) \in Events /\ CancelEvent(s) # "none"
    BY Zenon DEF CancelEvent, Events, Statuses, Terminal
  <2> QED
    BY Zenon, <1>0, <1>2, <2>1, AbortMove, SignalMove DEF SignalSetup, Kinds, Fails, Shares
<1>3. CASE SignalWrite(w)
  <2>0. run[w].stage = "write" /\ UNCHANGED <<outside, store>>
    BY Zenon, <1>3 DEF SignalWrite
  <2>e. run[w].event # "none"
    BY Zenon, <1>0, <2>0 DEF Memory, Remembers
  <2>1. CASE Abort(w)
    BY Zenon, <1>0, <2>0, <2>1, AbortMove DEF Kinds, Fails
  <2>2. CASE run' = [run EXCEPT ![can[w].on].pipe = Append(@, run[w].event), ![w].stage = "wait"]
    BY <1>0, <1>r, <2>0, <2>2, <2>e, SignalledMove, Zenon DEF Kinds, Shares
  <2>3. Abort(w) \/ run' = [run EXCEPT ![can[w].on].pipe = Append(@, run[w].event), ![w].stage = "wait"]
    BY <1>3, Zenon DEF SignalWrite
  <2> QED
    BY <2>1, <2>2, <2>3, Zenon
<1>4. CASE SignalWait(w)
  <2>1. run[can[w].on].result \in Results
    BY Zenon, <1>4, <1>r, RunType DEF SignalWait, Runs
  <2> QED
    BY <1>0, <1>4, <2>1, WaitMove, Zenon DEF SignalWait, Kinds, Shares
<1> QED
  BY Zenon, <1>1, <1>2, <1>3, <1>4

\* The steps of the producer.
LEMMA ProducerKind ==
    ASSUME TypeOK, Memory, NEW w \in Runs, ProducerStep(w)
    PROVE  Kinds(w)
<1> DEFINE P == Writing \cup {"prepare", "tool", "ended"}
<1>0. run[w].pipe \in Seq(Events) /\ run[w].stage = "running" /\ UNCHANGED outside /\ store' = store
  BY Zenon, RunType DEF ProducerStep, Start, Prepare, Tool, ToolPanics, Write, Producing, Proceed
<1>c. w \in Cancels => run[w].producer \in {"cancel", "ended"}
  BY Zenon, <1>0 DEF Memory, CancelsOnce
<1>1. ASSUME NEW p \in P, w \notin Cancels, run' = [run EXCEPT ![w].producer = p] PROVE Kinds(w)
  <2>1. Moves(w) /\ Produces(w, p, run[w].pipe)
    BY <1>1, ProceedMove, Zenon
  <2> QED
    BY <1>0, <1>1, <2>1, Zenon DEF Kinds, Works
<1>2. CASE Start(w)
  <2>1. w \notin Cancels
    BY Zenon, <1>2, <1>c DEF Start, Producing
  <2>2. PICK p \in {"fail", "submit", "prepare"} : run' = [run EXCEPT ![w].producer = p]
    BY <1>2, Zenon DEF Start, Proceed
  <2> QED
    BY <1>1, <2>1, <2>2, Zenon DEF Writing
<1>3. CASE Prepare(w) \/ Tool(w)
  <2>1. w \notin Cancels
    BY Zenon, <1>3, <1>c DEF Prepare, Tool, Producing
  <2>2. PICK p \in {"work", "artifact", "empty", "fail"} : run' = [run EXCEPT ![w].producer = p]
    BY Zenon, <1>3 DEF Prepare, Tool, Proceed
  <2> QED
    BY <1>1, <2>1, <2>2, Zenon DEF Writing
<1>4. CASE ToolPanics(w)
  <2>1. w \notin Cancels
    BY Zenon, <1>4, <1>c DEF ToolPanics, Producing
  <2>2. Moves(w) /\ Produces(w, "ended", run[w].pipe)
    BY Zenon, <1>4, PanicMove
  <2> QED
    BY <1>0, <2>1, <2>2, Zenon DEF Kinds, Works
<1>5. CASE Write(w)
  <2>1. run[w].producer \in Writing
    BY Zenon, <1>5 DEF Write
  <2>2. CASE run' = [run EXCEPT ![w].producer = "ended"]
    <3>1. Moves(w) /\ Produces(w, "ended", run[w].pipe)
      BY <2>2, ProceedMove, Zenon
    <3> QED
      BY Zenon, <1>0, <3>1 DEF Kinds, Works
  <2>3. CASE run' = [run EXCEPT ![w].pipe = Append(@, Event(w)), ![w].producer = AfterWrite(@)]
    <3>1. AfterWrite(run[w].producer) \in P /\ (run[w].producer = "cancel" => AfterWrite(run[w].producer) = "ended")
      BY Zenon, <2>1 DEF AfterWrite, Writing
    <3>2. Event(w) \in Events /\ (run[w].producer = "cancel" => Event(w) = CancelEvent(run[w].last.state))
      BY Zenon, <2>1 DEF Event, Writing, CancelEvent, Events, Statuses, Terminal
    <3>3. run' = [run EXCEPT ![w].pipe = Append(@, Event(w)), ![w].producer = AfterWrite(run[w].producer)]
      BY Zenon, <2>3 DEF TypeOK
    <3>4. Moves(w) /\ Produces(w, AfterWrite(run[w].producer), Append(run[w].pipe, Event(w)))
      BY <3>1, <3>2, <3>3, WriteMove, Zenon
    <3>5. Append(run[w].pipe, Event(w)) \in Seq(Events)
      BY <1>0, <3>2
    <3>6. w \in Cancels => run[w].producer = "cancel"
      BY Zenon, <1>c, <2>1 DEF Writing
    <3> QED
      BY <1>0, <3>1, <3>2, <3>4, <3>5, <3>6, Zenon DEF Kinds, Works
  <2> QED
    BY Zenon, <1>5, <2>2, <2>3 DEF Write
<1> QED
  BY Zenon, <1>2, <1>3, <1>4, <1>5 DEF ProducerStep

\* What taskupdate.Manager makes of an event: an execution's event leaves a
\* finished task alone, a cancelation's cancels the task or finds it canceled.
LEMMA AppliedFacts ==
    ASSUME TypeOK, Memory, NEW w \in Runs, Consuming(w, "process")
    PROVE  /\ Applied(w) \in (Statuses \ {"none"}) \cup {"same", "invalid"}
           /\ run[w].last.state \in Terminal => Applied(w) \in {"same", "invalid"}
           /\ Applied(w) = "same" => w \in Cancels /\ run[w].last.state = "canceled"
           /\ w \in Cancels => Applied(w) \in {"same", "canceled"}
<1> DEFINE last == run[w].last.state
           e == run[w].event
<1>1. last \in Statuses /\ e \in Events /\ e # "none"
  BY Zenon, RunType DEF Memory, Remembers, Consuming
<1>2. w \in Cancels => Cancelable(last) /\ e = CancelEvent(last)
  BY Zenon DEF Memory, CancelsOnce, Consuming
<1>3. CASE last \in Terminal
  <2>1. Applied(w) = IF e = "stored" /\ w \in Cancels THEN "same" ELSE "invalid"
    BY Zenon, <1>3 DEF Applied
  <2>2. w \in Cancels => last = "canceled" /\ e = "stored"
    BY Zenon, <1>2, <1>3 DEF Cancelable, CancelEvent, Terminal
  <2> QED
    BY Zenon, <2>1, <2>2
<1>4. CASE last \notin Terminal
  <2>1. CASE last = "none"
    <3>1. w \notin Cancels
      BY Zenon, <1>2, <2>1 DEF Cancelable
    <3>2. Applied(w) \in {"invalid", "submitted", "canceled"}
      BY Zenon, <1>1, <1>4, <2>1 DEF Applied
    <3> QED
      BY Zenon, <1>4, <3>1, <3>2 DEF Statuses, Terminal
  <2>2. CASE last # "none"
    <3>1. Applied(w) = IF e = "empty" THEN "invalid"
                       ELSE CASE e = "artifact" -> last [] e = "stored" -> "canceled" [] OTHER -> e
      BY Zenon, <1>4, <2>2 DEF Applied
    <3>2. w \in Cancels => e = "canceled"
      BY Zenon, <1>2, <1>4 DEF CancelEvent, Terminal
    <3>3. Applied(w) \in (Statuses \ {"none"}) \cup {"invalid"}
      BY Zenon, <1>1, <2>2, <3>1 DEF Events, Statuses, Terminal
    <3>4. w \in Cancels => Applied(w) = "canceled"
      BY Zenon, <3>1, <3>2
    <3> QED
      BY Zenon, <1>4, <3>3, <3>4 DEF Statuses, Terminal
  <2> QED
    BY Zenon, <2>1, <2>2
<1> QED
  BY Zenon, <1>3, <1>4

\* The steps of the consumer.
LEMMA ConsumerKind ==
    ASSUME TypeOK, Memory, NEW w \in Runs, ConsumerStep(w)
    PROVE  Kinds(w)
<1>0. run[w].stage = "running" /\ UNCHANGED outside
  BY Zenon DEF ConsumerStep, Read, ReadStopped, Process, Broadcast, BroadcastStopped, ProcessError, Consuming
<1>r. run[w].event \in Events \cup {"none"} /\ run[w].result \in Results /\ "error" \in Results /\ "canceled" \in Results
  BY Zenon, RunType DEF Results, Terminal
<1>c. w \in Cancels => run[w].consumer \in {"read", "process", "ended"}
  BY Zenon, <1>0 DEF Memory, CancelsOnce
<1>n. w \in Cancels \/ w \in Requests
  BY Zenon DEF Runs
<1>1. CASE Read(w)
  BY <1>0, <1>1, ReadMove, Zenon DEF Read, Consuming, Kinds, Reads
<1>2. ASSUME NEW at \in {"read", "fail"}, w \notin Cancels, store' = store, run' = [run EXCEPT ![w].consumer = at]
      PROVE  Kinds(w)
  <2>1. Moves(w) /\ Consumes(w, at, run[w].pipe, run[w].event, run[w].last, run[w].result)
    BY <1>2, GoMove, Zenon
  <2> QED
    BY Zenon, <1>0, <1>2, <1>r, <2>1 DEF Kinds, Goes
<1>3. ASSUME NEW res \in Results, store' = store, Return(w, res),
             res = "canceled" => run[w].result = "canceled" \/ run[w].last.state = "canceled"
      PROVE  Kinds(w)
  <2>1. Moves(w) /\ Consumes(w, "ended", run[w].pipe, "none", run[w].last, res)
    BY Zenon, <1>3, ReturnMove
  <2> QED
    BY Zenon, <1>0, <1>3, <2>1 DEF Kinds, Goes
<1>4. CASE ReadStopped(w)
  <2>1. CASE w \in Requests
    <3>1. w \notin Cancels /\ store' = store /\ run' = [run EXCEPT ![w].consumer = "fail"]
      BY Zenon, <1>4, <2>1, NamesAssumption DEF ReadStopped
    <3> QED
      BY Zenon, <1>2, <3>1
  <2>2. CASE w \notin Requests
    BY Zenon, <1>3, <1>4, <1>r, <2>2 DEF ReadStopped
  <2> QED
    BY Zenon, <2>1, <2>2
<1>5. CASE Process(w)
  <2>1. Consuming(w, "process")
    BY Zenon, <1>5 DEF Process
  <2>2. CASE Applied(w) = "same" /\ Return(w, "canceled") /\ store' = store
    <3>1. run[w].last.state = "canceled"
      BY Zenon, <2>1, <2>2, AppliedFacts
    <3> QED
      BY Zenon, <1>3, <1>r, <2>2, <3>1
  <2>3. CASE Applied(w) \notin {"same", "invalid"} /\ Saved(w, Applied(w))
    <3>1. Applied(w) \in Statuses \ {"none"}
      BY <2>1, <2>3, AppliedFacts, Zenon
    <3>2. run[w].last.state \notin Terminal /\ (w \in Cancels => Applied(w) = "canceled")
      BY Zenon, <2>1, <2>3, AppliedFacts
    <3>3. Moves(w) /\ Saves(w, Applied(w))
      BY Zenon, <2>3, <3>1, SavedMove
    <3> QED
      BY Zenon, <1>0, <3>1, <3>2, <3>3 DEF Kinds, Writes, Terminal
  <2>4. CASE Applied(w) # "same" /\ Saved(w, "failed")
    <3>1. w \in Cancels => run[w].last.state \notin Terminal
      BY Zenon, <2>1, <2>4, AppliedFacts
    <3>2. "failed" \in Statuses \ {"none"} /\ "failed" \in Terminal
      BY Zenon DEF Statuses, Terminal
    <3>3. Moves(w) /\ Saves(w, "failed")
      BY Zenon, <2>4, <3>2, SavedMove
    <3> QED
      BY Zenon, <1>0, <3>1, <3>2, <3>3 DEF Kinds, Writes
  <2>5. CASE Return(w, "error") /\ UNCHANGED store
    BY Zenon, <1>3, <1>r, <2>5
  <2> QED
    BY Zenon, <1>5, <2>2, <2>3, <2>4, <2>5 DEF Process
<1>6. CASE Broadcast(w)
  <2>1. w \notin Cancels
    BY Zenon, <1>6, <1>c DEF Broadcast, Consuming
  <2>2. CASE run[w].result = "none"
    BY Zenon, <1>2, <1>6, <2>1, <2>2 DEF Broadcast
  <2>3. CASE run[w].result # "none"
    BY Zenon, <1>3, <1>6, <1>r, <2>3 DEF Broadcast
  <2> QED
    BY Zenon, <2>2, <2>3
<1>7. CASE BroadcastStopped(w)
  <2>1. w \notin Cancels
    BY Zenon, <1>7, <1>c DEF BroadcastStopped, Consuming
  <2> QED
    BY Zenon, <1>2, <1>7, <2>1 DEF BroadcastStopped
<1>8. CASE ProcessError(w)
  <2>1. w \notin Cancels /\ w \in Requests
    BY Zenon, <1>8, <1>c, <1>n DEF ProcessError, Consuming
  <2>2. CASE Return(w, "error") /\ store' = store
    BY Zenon, <1>3, <1>r, <2>2
  <2>3. CASE ~(Return(w, "error") /\ store' = store)
    <3>1. Moves(w) /\ Saves(w, "failed")
      BY Zenon, <1>8, <2>1, <2>3, FailedMove
    <3>2. "failed" \in Statuses \ {"none"}
      BY Zenon DEF Statuses, Terminal
    <3> QED
      BY Zenon, <1>0, <2>1, <3>1, <3>2 DEF Kinds, Writes
  <2> QED
    BY Zenon, <2>2, <2>3
<1> QED
  BY Zenon, <1>1, <1>4, <1>5, <1>6, <1>7, <1>8 DEF ConsumerStep

\* Every step of a run between its publication and its cleanup is of a kind above.
LEMMA RunKind ==
    ASSUME TypeOK, Ownership, Memory, NEW w \in Runs,
           HandlerStep(w) \/ ProducerStep(w) \/ ConsumerStep(w)
    PROVE  Kinds(w) \/ (w \in Requests /\ cleanupExecution(w)) \/ (w \in Cancels /\ cleanupCancelation(w))
<1>1. CASE GroupDone(w)
  <2>1. Moves(w) /\ Stages(w, "cleanup", run[w].last, run[w].result)
    BY Zenon, <1>1, GroupMove
  <2> QED
    BY Zenon, <1>1, <2>1 DEF GroupDone, Kinds, Ends
<1> QED
  BY Zenon, <1>1, CreateKind, CancelKind, ProducerKind, ConsumerKind DEF HandlerStep

-----------------------------------------------------------------------------
(* Which runs hold which tasks. *)

\* A run's step keeps the types.
LEMMA KindType ==
    ASSUME TypeOK, NEW w \in Runs, Kinds(w)
    PROVE  TypeOK'
<1>1. run' \in [Runs -> RunStates]
  BY Zenon DEF Kinds, Moves
<1>2. UNCHANGED <<executions, cancelations, quota, req, can>>
  BY Zenon DEF Kinds, outside, manager
<1>3. ASSUME NEW t, NEW l \in Stored, store' = [store EXCEPT ![t] = l] PROVE store' \in [Tasks -> Stored]
  BY <1>3, Zenon DEF TypeOK
<1>4. store' \in [Tasks -> Stored]
  <2>1. CASE store' = store
    BY Zenon, <2>1 DEF TypeOK
  <2>2. CASE Writes(w)
    <3>1. PICK s \in Statuses : store' = [store EXCEPT ![run[w].tid] = Version(w, s)]
      BY <2>2, Zenon DEF Writes, Saves
    <3> QED
      BY <1>3, <3>1, VersionType, Zenon
  <2>3. CASE Fails(w) \/ Begins(w)
    <3>1. store' = store \/ \E l \in Stored : store' = [store EXCEPT ![run[w].tid] = l]
      BY Zenon, <2>3 DEF Fails, Begins
    <3> QED
      BY <1>3, <2>1, <3>1, Zenon
  <2> QED
    BY Zenon, <2>1, <2>2, <2>3 DEF Kinds, TakesUp, Ends, Shares, Works, Reads, Goes
<1> QED
  BY Zenon, <1>1, <1>2, <1>4 DEF TypeOK

\* How a run passes from stage to stage while it holds its task.
StageStep(w) ==
    LET s == run[w].stage  n == run'[w].stage IN
    /\ s \in Live \ {"new"} /\ n \in Live \ {"new"}
    /\ w \in Requests => n \notin {"signal", "write", "wait"}
    /\ w \in Cancels => n # "history" /\ (n \in {"setup", "running"} => s \in {"setup", "running"})
    /\ n \in {"signal", "write", "wait"} => s \in {"signal", "write", "wait"}

\* A step of a run passes from one stage it may be in to another, and leaves the others in theirs.
LEMMA KindStage ==
    ASSUME Ownership, NEW w \in Runs, Kinds(w)
    PROVE  StageStep(w) /\ \A v \in Runs : /\ run'[v].tid = run[v].tid
                                           /\ v # w => run'[v].stage = run[v].stage
<1>0. (w \in Requests => w \notin Cancels) /\ (w \in Cancels => run[w].stage # "history")
  BY Zenon, NamesAssumption DEF Ownership, OwnsCancelation
<1>1. StageStep(w)
  <2>1. CASE Fails(w)
    BY Zenon, <1>0, <2>1 DEF Fails, Stages, StageStep, Live, Before
  <2>2. CASE Begins(w)
    BY Zenon, <1>0, <2>2 DEF Begins, Starts, StageStep, Live, Before
  <2>3. CASE TakesUp(w) \/ Ends(w)
    BY Zenon, <1>0, <2>3 DEF TakesUp, Ends, Stages, StageStep, Live, Before
  <2>4. CASE Shares(w)
    BY Zenon, <1>0, <2>4 DEF Shares, Signals, StageStep, Live, Before
  <2>5. CASE Works(w) \/ Reads(w) \/ Goes(w) \/ Writes(w)
    BY Zenon, <1>0, <2>5 DEF Works, Reads, Goes, Writes, Produces, Consumes, Saves, StageStep, Live, Before
  <2> QED
    BY Zenon, <2>1, <2>2, <2>3, <2>4, <2>5 DEF Kinds
<1> QED
  BY Zenon, <1>1 DEF Kinds, Moves, OnlyRun, SameRun

\* A run's step leaves every task to whom it belongs.
LEMMA KindOwnership ==
    ASSUME TypeOK, Ownership, NEW w \in Runs, Kinds(w)
    PROVE  Ownership'
<1>1. UNCHANGED <<executions, cancelations, req, can>>
  BY Zenon DEF Kinds, outside, manager
<1>2. StageStep(w) /\ \A v \in Runs : run'[v].tid = run[v].tid /\ (v # w => run'[v].stage = run[v].stage)
  BY Zenon, KindStage
<1>3. ASSUME NEW r \in Requests PROVE OwnsExecution(r)'
  <2>1. OwnsExecution(r) /\ r \in Runs
    BY Zenon DEF Ownership, Runs
  <2> QED
    BY Zenon, <1>1, <1>2, <2>1 DEF OwnsExecution, StageStep, Live, Before
<1>4. ASSUME NEW c \in Cancels PROVE OwnsCancelation(c)'
  <2>1. OwnsCancelation(c) /\ c \in Runs
    BY Zenon DEF Ownership, Runs
  <2>2. can[c].on # None => can[c].on \in Runs
    BY Zenon DEF TypeOK, CancelCalls, Runs
  <2> QED
    BY Zenon, <1>1, <1>2, <2>1, <2>2 DEF OwnsCancelation, StageStep, Live, Before
<1>5. ASSUME NEW t \in Tasks PROVE OwnedTask(t)'
  <2>1. OwnedTask(t) /\ executions[t] \in Runs \cup {None} /\ cancelations[t] \in Runs \cup {None}
    BY Zenon DEF Ownership, TypeOK, Runs
  <2> QED
    BY Zenon, <1>1, <1>2, <2>1 DEF OwnedTask, StageStep
<1> QED
  BY Zenon, <1>3, <1>4, <1>5 DEF Ownership

-----------------------------------------------------------------------------
(* What a run remembers of its task. *)

\* The run has a version of its task that must be the stored one.
Holds(w) ==
    \/ run[w].stage \in {"history", "running"}
    \/ run[w].stage = "cleanup" /\ run[w].last.state # "none"

\* No two runs hold one task: executions exclude each other, and a cancelation
\* runs on its own only where it found no execution, which it then keeps out.
LEMMA Alone ==
    ASSUME TypeOK, Ownership, Memory, NEW v \in Runs, NEW w \in Runs,
           Holds(v), Holds(w), run[v].tid = run[w].tid
    PROVE  v = w
<1> DEFINE t == run[v].tid
<1>1. ASSUME NEW u \in Runs, Holds(u), run[u].tid = t
      PROVE  /\ t \in Tasks
             /\ u \in Requests => executions[t] = u
             /\ u \in Cancels => cancelations[t] = u /\ can[u].on = None
  <2>1. run[u].stage \in Live /\ run[u].stage # "off"
    BY Zenon, <1>1 DEF Holds, Live
  <2>2. CASE u \in Requests
    <3>1. u \notin Cancels
      BY Zenon, <2>2, NamesAssumption
    <3> QED
      BY Zenon, <1>1, <2>1, <2>2, <3>1 DEF Ownership, OwnsExecution
  <2>3. CASE u \in Cancels
    <3>1. u \notin Requests
      BY Zenon, <2>3, NamesAssumption
    <3>2. t \in Tasks /\ cancelations[t] = u /\ (run[u].stage = "running" => can[u].on = None) /\ run[u].stage # "history"
      BY Zenon, <1>1, <2>1, <2>3 DEF Ownership, OwnsCancelation
    <3>3. can[u].on # None => run[u].last = NoTask
      BY Zenon, <2>3 DEF Memory, CancelsOnce
    <3>4. can[u].on = None
      BY <1>1, <3>2, <3>3 DEF Holds, NoTask
    <3> QED
      BY Zenon, <3>1, <3>2, <3>4
  <2> QED
    BY Zenon, <2>2, <2>3 DEF Runs
<1>2. t \in Tasks => OwnedTask(t)
  BY Zenon DEF Ownership
<1>3. ASSUME NEW r \in Requests, NEW c \in Cancels, executions[t] = r, cancelations[t] = c, can[c].on = None, t \in Tasks
      PROVE  FALSE
  BY Zenon, <1>2, <1>3, NamesAssumption DEF OwnedTask
<1> QED
  BY Zenon, <1>1, <1>3 DEF Runs

\* A step that stores a version belongs to a run that holds the task, and stores
\* a task that exists.
LEMMA KindStore ==
    ASSUME TypeOK, Ownership, Memory, NEW w \in Runs, Kinds(w)
    PROVE  \/ store' = store
           \/ /\ Holds(w) /\ run[w].tid \in Tasks
              /\ \E l \in Stored : l.state # "none" /\ store' = [store EXCEPT ![run[w].tid] = l]
<1>0. run[w].stage \in {"history", "running"} => Holds(w) /\ run[w].tid \in Tasks
  BY Zenon DEF Holds, Ownership, OwnsExecution, OwnsCancelation, Runs
<1>1. run[w].stage = "history" => run[w].last.state # "none"
  BY Zenon DEF Memory, Remembers, Resumable
<1>2. CASE Fails(w)
  BY Zenon, <1>0, <1>1, <1>2 DEF Fails
<1>3. CASE Begins(w)
  BY Zenon, <1>0, <1>1, <1>3 DEF Begins
<1>4. CASE Writes(w)
  <2>1. PICK s \in Statuses \ {"none"} : store' = [store EXCEPT ![run[w].tid] = Version(w, s)]
    BY <1>4, Zenon DEF Writes, Saves
  <2>2. Version(w, s) \in Stored /\ Version(w, s).state # "none"
    BY Zenon, <2>1, VersionType DEF Version
  <2> QED
    BY <1>0, <1>4, <2>1, <2>2, Zenon DEF Writes
<1> QED
  BY Zenon, <1>2, <1>3, <1>4 DEF Kinds, TakesUp, Ends, Shares, Works, Reads, Goes

\* What the other runs remember stays right.
LEMMA KindOthers ==
    ASSUME TypeOK, Ownership, Memory, NEW w \in Runs, Kinds(w), NEW v \in Runs, v # w
    PROVE  Remembers(v)' /\ (v \in Cancels => CancelsOnce(v)')
<1>1. SameRun(v) /\ can' = can
  BY Zenon DEF Kinds, Moves, OnlyRun, outside
<1>2. Remembers(v) /\ (v \in Cancels => CancelsOnce(v))
  BY Zenon DEF Memory
<1>3. Holds(v) => store'[run[v].tid] = store[run[v].tid]
  <2>1. CASE store' = store
    BY Zenon, <2>1
  <2>2. CASE Holds(w) /\ \E l \in Stored : store' = [store EXCEPT ![run[w].tid] = l]
    BY <2>2, Alone DEF TypeOK
  <2> QED
    BY Zenon, <2>1, <2>2, KindStore
<1>4. Remembers(v)'
  BY Zenon, <1>1, <1>2, <1>3 DEF Remembers, SameRun, Holds
<1>5. v \in Cancels => CancelsOnce(v)'
  BY Zenon, <1>1, <1>2 DEF CancelsOnce, SameRun
<1> QED
  BY Zenon, <1>4, <1>5

\* What the run itself remembers is the version it read or stored.
LEMMA KindRemembers ==
    ASSUME TypeOK, Ownership, Memory, NEW w \in Runs, Kinds(w)
    PROVE  Remembers(w)'
<1>0. Remembers(w) /\ run'[w].tid = run[w].tid /\ run'[w].done = run[w].done
  BY Zenon DEF Memory, Kinds, Moves
<1>t. run[w].stage # "off" => run[w].tid \in Tasks /\ (store[run[w].tid].state = "none" => store[run[w].tid] = NoTask)
  BY Zenon DEF Ownership, OwnsExecution, OwnsCancelation, Memory, Runs
<1>s. \A l : run[w].tid \in Tasks => [store EXCEPT ![run[w].tid] = l][run[w].tid] = l
  BY Zenon DEF TypeOK
<1>d. run[w].stage # "over" => ~run'[w].done
  BY Zenon, <1>0 DEF Remembers
<1>1. CASE Fails(w)
  BY <1>0, <1>1, <1>d DEF Fails, Stages, Remembers, NoTask, Before
<1>2. CASE Begins(w)
  <2>1. run'[w].stage = "running" /\ run'[w].consumer = "read" /\ run'[w].result = "none"
    BY Zenon, <1>0, <1>2 DEF Begins, Starts, Remembers, Before
  <2>2. run'[w].last = store'[run[w].tid]
    BY <1>2, <1>s, <1>t DEF Begins, Starts
  <2>3. ~run'[w].done
    BY Zenon, <1>2, <1>d DEF Begins
  <2> QED
    BY Zenon, <1>0, <2>1, <2>2, <2>3 DEF Remembers, Before
<1>3. CASE TakesUp(w)
  <2>1. ~run'[w].done
    BY Zenon, <1>3, <1>d DEF TakesUp
  <2> QED
    BY Zenon, <1>0, <1>3, <2>1 DEF TakesUp, Stages, Remembers, Before
<1>4. CASE Ends(w)
  <2>1. ~run'[w].done
    BY Zenon, <1>4, <1>d DEF Ends
  <2> QED
    BY Zenon, <1>0, <1>4, <2>1 DEF Ends, Stages, Remembers, Before
<1>5. CASE Shares(w)
  <2>1. ~run'[w].done
    BY Zenon, <1>5, <1>d DEF Shares
  <2>2. run[w].consumer = "off" /\ run[w].last = NoTask /\ run[w].result = "none"
    BY Zenon, <1>0, <1>5 DEF Shares, Remembers, Before
  <2> QED
    BY <1>0, <1>5, <2>1, <2>2 DEF Shares, Signals, Remembers, Before, NoTask
<1>6. CASE Works(w)
  <2>1. ~run'[w].done
    BY Zenon, <1>6, <1>d DEF Works
  <2> QED
    BY Zenon, <1>0, <1>6, <2>1 DEF Works, Produces, Remembers, Before
<1>7. CASE Reads(w)
  <2>1. ~run'[w].done
    BY Zenon, <1>7, <1>d DEF Reads
  <2>2. Head(run[w].pipe) # "none"
    <3>1. run[w].pipe \in Seq(Events) /\ run[w].pipe # <<>>
      BY Zenon, <1>7, RunType DEF Reads
    <3>2. Head(run[w].pipe) \in Events
      BY <3>1
    <3> QED
      BY Zenon, <3>2 DEF Events, Statuses, Terminal
  <2> QED
    BY Zenon, <1>0, <1>7, <2>1, <2>2 DEF Reads, Consumes, Remembers, Before
<1>8. CASE Goes(w)
  <2>1. ~run'[w].done
    BY Zenon, <1>8, <1>d DEF Goes
  <2> QED
    BY Zenon, <1>0, <1>8, <2>1 DEF Goes, Consumes, Remembers, Before
<1>9. CASE Writes(w)
  <2>1. ~run'[w].done
    BY Zenon, <1>9, <1>d DEF Writes
  <2>2. PICK s \in Statuses \ {"none"} : Saves(w, s)
    BY Zenon, <1>9 DEF Writes
  <2>3. run'[w].last = store'[run[w].tid] /\ run'[w].last.state = s
    BY <1>9, <1>s, <1>t, <2>2 DEF Writes, Saves, Version
  <2> QED
    BY Zenon, <1>0, <1>9, <2>1, <2>2, <2>3 DEF Writes, Saves, Remembers, Before, Terminal
<1> QED
  BY Zenon, <1>1, <1>2, <1>3, <1>4, <1>5, <1>6, <1>7, <1>8, <1>9 DEF Kinds

\* What has been read of a pipe, and what is left of it, was in it.
LEMMA PipeRead ==
    ASSUME NEW q \in Seq(Events), q # <<>>, NEW e, \A i \in 1..Len(q) : q[i] = e
    PROVE  Head(q) = e /\ \A i \in 1..Len(Tail(q)) : Tail(q)[i] = e
OBVIOUS

\* A canceler's event joins the pipe.
LEMMA PipeWritten ==
    ASSUME NEW q \in Seq(Events), NEW e, \A i \in 1..Len(q) : q[i] = e
    PROVE  \A i \in 1..Len(Append(q, e)) : Append(q, e)[i] = e
OBVIOUS

\* A cancelation that runs on its own goes on reading its own event only.
LEMMA KindCancels ==
    ASSUME TypeOK, Ownership, Memory, NEW w \in Cancels, Kinds(w)
    PROVE  CancelsOnce(w)'
<1>0. CancelsOnce(w) /\ OwnsCancelation(w) /\ can' = can /\ w \in Runs /\ w \notin Requests
  BY Zenon, NamesAssumption DEF Memory, Ownership, Kinds, outside, Runs
<1>p. run[w].pipe \in Seq(Events)
  BY Zenon, <1>0, RunType
<1>1. CASE Fails(w)
  BY Zenon, <1>0, <1>1 DEF Fails, Stages, CancelsOnce
<1>2. CASE Begins(w)
  <2>1. run[w].pipe = <<>> /\ can[w].on = None /\ Cancelable(store[run[w].tid].state) /\ Starts(w, store[run[w].tid], "cancel")
    BY Zenon, <1>0, <1>2 DEF Begins, CancelsOnce, OwnsCancelation
  <2>2. /\ run'[w].last = store[run[w].tid] /\ run'[w].stage = "running" /\ run'[w].producer = "cancel"
        /\ run'[w].consumer = "read" /\ run'[w].pipe = <<>>
    BY Zenon, <2>1 DEF Starts
  <2> QED
    BY <1>0, <2>1, <2>2 DEF CancelsOnce
<1>3. CASE Ends(w)
  BY Zenon, <1>0, <1>3 DEF Ends, Stages, CancelsOnce
<1>4. CASE Shares(w)
  BY Zenon, <1>0, <1>4 DEF Shares, Signals, CancelsOnce
<1>5. CASE Works(w)
  <2>1. PICK q \in {run[w].pipe, Append(run[w].pipe, CancelEvent(run[w].last.state))} : Produces(w, "ended", q)
    BY <1>5, Zenon DEF Works
  <2>2. run[w].stage = "running"
    BY Zenon, <1>5 DEF Works
  <2>3. run[w].consumer # "ended" => \A i \in 1..Len(q) : q[i] = CancelEvent(run[w].last.state)
    <3>1. run[w].consumer # "ended" => \A i \in 1..Len(run[w].pipe) : run[w].pipe[i] = CancelEvent(run[w].last.state)
      BY Zenon, <1>0, <2>2 DEF CancelsOnce
    <3>2. q = run[w].pipe \/ q = Append(run[w].pipe, CancelEvent(run[w].last.state))
      BY Zenon
    <3>3. CASE q = run[w].pipe
      BY Zenon, <3>1, <3>3
    <3>4. CASE q = Append(run[w].pipe, CancelEvent(run[w].last.state))
      BY Zenon, <1>p, <3>1, <3>4, PipeWritten
    <3> QED
      BY Zenon, <3>2, <3>3, <3>4
  <2> QED
    BY Zenon, <1>0, <2>1, <2>2, <2>3 DEF Produces, CancelsOnce
<1>6. CASE Reads(w)
  <2> DEFINE q == run[w].pipe
             e == CancelEvent(run[w].last.state)
  <2>1. run[w].stage = "running" /\ run[w].consumer = "read" /\ q # <<>> /\ \A i \in 1..Len(q) : q[i] = e
    BY Zenon, <1>0, <1>6 DEF Reads, CancelsOnce
  <2>2. Head(q) = e /\ \A i \in 1..Len(Tail(q)) : Tail(q)[i] = e
    BY <1>p, <2>1, PipeRead
  <2>3. Consumes(w, "process", Tail(q), Head(q), run[w].last, run[w].result)
    BY Zenon, <1>6 DEF Reads
  <2> QED
    BY Zenon, <1>0, <2>1, <2>2, <2>3 DEF Consumes, CancelsOnce
<1>7. CASE Goes(w)
  BY Zenon, <1>0, <1>7 DEF Goes, Consumes, CancelsOnce
<1>8. CASE Writes(w)
  BY Zenon, <1>0, <1>8 DEF Writes, Saves, CancelsOnce, OwnsCancelation
<1> QED
  BY Zenon, <1>0, <1>1, <1>2, <1>3, <1>4, <1>5, <1>6, <1>7, <1>8 DEF Kinds, TakesUp

\* A run's step keeps what all runs remember.
LEMMA KindMemory ==
    ASSUME TypeOK, Ownership, Memory, NEW w \in Runs, Kinds(w)
    PROVE  Memory'
<1>1. ASSUME NEW t \in Tasks, store'[t].state = "none" PROVE store'[t] = NoTask
  BY Zenon, <1>1, KindStore DEF Memory, TypeOK
<1>2. ASSUME NEW v \in Runs PROVE Remembers(v)'
  BY Zenon, KindOthers, KindRemembers
<1>3. ASSUME NEW c \in Cancels PROVE CancelsOnce(c)'
  BY Zenon, KindOthers, KindCancels DEF Runs
<1> QED
  BY Zenon, <1>1, <1>2, <1>3 DEF Memory

-----------------------------------------------------------------------------
(* What a caller of Cancel was told. *)

\* A step of a run neither changes a task that is settled nor takes it up.
LEMMA KindSettled ==
    ASSUME TypeOK, Ownership, Memory, NEW w \in Runs, Kinds(w),
           NEW v \in Runs, v # w, run[v].tid \in Tasks, Settled(v)
    PROVE  Settled(v)'
<1> DEFINE t == run[v].tid
<1>0. /\ store[t].state = "canceled" /\ run'[v].tid = t /\ run'[w].tid = run[w].tid
      /\ \A r \in Requests : run[r].tid = t => run[r].stage \notin {"history", "running"}
  BY Zenon DEF Settled, Kinds, Moves, OnlyRun, SameRun
<1>1. CASE run[w].tid # t
  <2>1. store'[t] = store[t]
    BY Zenon, <1>1, KindStore DEF TypeOK
  <2>2. ASSUME NEW r \in Requests, run'[r].tid = t PROVE run'[r].stage \notin {"history", "running"}
    <3>1. r # w /\ r \in Runs
      BY Zenon, <1>0, <1>1, <2>2 DEF Runs
    <3>2. run'[r].tid = run[r].tid /\ run'[r].stage = run[r].stage
      BY Zenon, <3>1 DEF Kinds, Moves, OnlyRun, SameRun
    <3> QED
      BY Zenon, <1>0, <2>2, <3>2
  <2> QED
    BY Zenon, <1>0, <2>1, <2>2 DEF Settled
<1>2. CASE run[w].tid = t
  <2>1. run[w].stage = "running" => w \in Cancels /\ run[w].last.state = "canceled"
    BY Zenon, <1>0, <1>2 DEF Memory, Remembers, Runs
  <2>2. w \in Requests => run[w].stage # "history"
    BY Zenon, <1>0, <1>2
  <2>3. ~TakesUp(w) /\ ~Writes(w)
    BY Zenon, <1>0, <1>2, <2>1 DEF TakesUp, Resumable, Writes, Terminal
  <2>4. run[w].stage # "history"
    BY Zenon, <2>2 DEF Ownership, OwnsCancelation, Runs
  <2>5. store' = store
    BY Zenon, <2>3, <2>4 DEF Kinds, Fails, Begins, Ends, Shares, Works, Reads, Goes
  <2>6. w \in Requests => run'[w].stage = "cleanup"
    <3>1. ASSUME w \in Requests PROVE w \notin Cancels
      BY Zenon, <3>1, NamesAssumption
    <3>2. ASSUME w \in Requests PROVE ~Begins(w) /\ ~Works(w) /\ ~Reads(w) /\ ~Goes(w) /\ ~Ends(w) /\ ~Shares(w)
      BY Zenon, <1>0, <1>2, <2>1, <2>4, <3>1, <3>2 DEF Begins, Works, Reads, Goes, Ends, Shares
    <3> QED
      BY Zenon, <2>3, <3>2 DEF Kinds, Fails, Stages
  <2>7. ASSUME NEW r \in Requests, run'[r].tid = t PROVE run'[r].stage \notin {"history", "running"}
    <3>1. CASE r = w
      BY Zenon, <2>6, <3>1
    <3>2. CASE r # w
      <4>1. run'[r].tid = run[r].tid /\ run'[r].stage = run[r].stage
        BY Zenon, <3>2 DEF Kinds, Moves, OnlyRun, SameRun, Runs
      <4> QED
        BY Zenon, <1>0, <2>7, <4>1
    <3> QED
      BY Zenon, <3>1, <3>2
  <2> QED
    BY Zenon, <1>0, <2>5, <2>7 DEF Settled
<1> QED
  BY Zenon, <1>1, <1>2

\* A run that ends by canceling its task settles it.
LEMMA KindCanceled ==
    ASSUME TypeOK, Ownership, Memory, Answers, NEW w \in Runs, Kinds(w), Canceled(w)'
    PROVE  Settled(w)'
<1>0. /\ run'[w].stage \in {"cleanup", "over"} /\ run'[w].result = "canceled" /\ run'[w].tid = run[w].tid
      /\ \A v \in Runs \ {w} : run'[v].tid = run[v].tid /\ run'[v].stage = run[v].stage
  BY Zenon DEF Canceled, Kinds, Moves, OnlyRun, SameRun
<1>1. CASE Ends(w)
  <2>1. store' = store /\ run[w].stage = "running" /\ run[w].result = "canceled"
    BY Zenon, <1>0, <1>1 DEF Ends, Stages
  <2>2. store[run[w].tid].state = "canceled"
    BY Zenon, <2>1 DEF Memory, Remembers
  <2>3. ASSUME NEW r \in Requests, run'[r].tid = run[w].tid, run'[r].stage \in {"history", "running"} PROVE FALSE
    <3>1. r # w /\ r \in Runs
      BY Zenon, <1>0, <2>3 DEF Runs
    <3>2. run[r].tid = run[w].tid /\ Holds(r) /\ Holds(w)
      BY Zenon, <1>0, <2>1, <2>3, <3>1 DEF Holds
    <3> QED
      BY Zenon, <3>1, <3>2, Alone
  <2> QED
    BY Zenon, <1>0, <2>1, <2>2, <2>3 DEF Settled
<1>2. CASE Shares(w)
  <2>1. /\ w \in Cancels /\ store' = store /\ run[w].stage = "wait" /\ run[can[w].on].done
        /\ run[can[w].on].result = "canceled"
    BY Zenon, <1>0, <1>2 DEF Shares, Signals
  <2>2. can[w].on \in Runs /\ run[can[w].on].tid = run[w].tid
    BY Zenon, <2>1 DEF Ownership, OwnsCancelation, TypeOK, CancelCalls, Runs
  <2>3. Settled(can[w].on)
    BY Zenon, <2>1, <2>2 DEF Answers, Canceled, Memory, Remembers
  <2>4. ASSUME NEW r \in Requests, run'[r].tid = run[w].tid, run'[r].stage \in {"history", "running"} PROVE FALSE
    <3>1. r # w /\ r \in Runs
      BY Zenon, <1>0, <2>4 DEF Runs
    <3> QED
      BY Zenon, <1>0, <2>2, <2>3, <2>4, <3>1 DEF Settled
  <2> QED
    BY Zenon, <1>0, <2>1, <2>2, <2>3, <2>4 DEF Settled
<1>3. CASE Fails(w)
  BY Zenon, <1>0, <1>3 DEF Fails, Stages
<1>4. CASE Begins(w)
  BY Zenon, <1>0, <1>4 DEF Begins, Starts
<1>5. CASE TakesUp(w)
  BY Zenon, <1>0, <1>5 DEF TakesUp, Stages
<1>6. CASE Works(w) \/ Reads(w) \/ Goes(w)
  BY Zenon, <1>0, <1>6 DEF Works, Reads, Goes, Produces, Consumes
<1>7. CASE Writes(w)
  BY Zenon, <1>0, <1>7 DEF Writes, Saves
<1> QED
  BY <1>1, <1>2, <1>3, <1>4, <1>5, <1>6, <1>7, Zenon DEF Kinds

\* A run's step keeps every answer.
LEMMA KindAnswers ==
    ASSUME TypeOK, Ownership, Memory, Answers, NEW w \in Runs, Kinds(w)
    PROVE  Answers'
<1>0. ~Canceled(w) /\ can' = can
  BY Zenon DEF Canceled, Kinds, Fails, Begins, TakesUp, Ends, Shares, Works, Reads, Goes, Writes, outside
<1>1. ASSUME NEW v \in Runs, v # w PROVE Canceled(v)' <=> Canceled(v)
  BY Zenon, <1>1 DEF Canceled, Kinds, Moves, OnlyRun, SameRun
<1>2. ASSUME NEW v \in Runs, Canceled(v)' PROVE Settled(v)'
  <2>1. CASE v = w
    BY Zenon, <1>2, <2>1, KindCanceled
  <2>2. CASE v # w
    <3>1. Canceled(v) /\ Settled(v)
      BY Zenon, <1>1, <1>2, <2>2 DEF Answers
    <3>2. run[v].tid \in Tasks
      BY Zenon, <3>1 DEF Canceled, Ownership, OwnsExecution, OwnsCancelation, Runs
    <3> QED
      BY Zenon, <2>2, <3>1, <3>2, KindSettled
  <2> QED
    BY Zenon, <2>1, <2>2
<1>3. ASSUME NEW c \in Cancels, can'[c].pc = "canceled" PROVE Canceled(can[c].awaits)'
  <2>1. Canceled(can[c].awaits) /\ can[c].awaits \in Runs
    BY Zenon, <1>0, <1>3 DEF Answers, Ownership, OwnsCancelation, Runs
  <2> QED
    BY Zenon, <1>0, <1>1, <2>1 DEF Canceled
<1> QED
  BY Zenon, <1>2, <1>3 DEF Answers

=============================================================================
