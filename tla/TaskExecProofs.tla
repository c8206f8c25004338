--------------------------- MODULE TaskExecProofs ---------------------------
(***************************************************************************)
(* The invariant of the execution manager, and the safety properties that  *)
(* follow from it, for any number of tasks, requests and cancelations, and *)
(* every limit.                                                            *)
(***************************************************************************)
EXTENDS TaskRunProofs

(* The steps of the callers, and those that publish and clean up. *)

\* The inductive invariant of the manager.
IInv == TypeOK /\ Ownership /\ Memory /\ Answers

\* A call of Execute that publishes nothing.
CallMoves(r) ==
    /\ UNCHANGED <<manager, store, can, run>> /\ req' \in [Requests -> Calls]
    /\ \A q \in Requests \ {r} : req'[q] = req[q]
    /\ req[r].pc \notin {"spawn", "subscribed"} /\ req'[r].pc \notin {"idle", "spawn", "subscribed"} /\ req'[r].tid \in Tasks

\* Writing one call.
LEMMA CallUpdate ==
    ASSUME TypeOK, NEW r \in Requests, NEW x \in Calls, req' = [req EXCEPT ![r] = x]
    PROVE  req' \in [Requests -> Calls] /\ req'[r] = x /\ \A q \in Requests \ {r} : req'[q] = req[q]
BY Zenon DEF TypeOK

\* Writing one call that publishes nothing.
LEMMA CallWrite ==
    ASSUME TypeOK, NEW r \in Requests, NEW x \in Calls, req' = [req EXCEPT ![r] = x],
           UNCHANGED <<manager, store, can, run>>, req[r].pc \notin {"spawn", "subscribed"},
           x.pc \notin {"idle", "spawn", "subscribed"}, x.tid \in Tasks
    PROVE  CallMoves(r)
<1>1. req' \in [Requests -> Calls] /\ req'[r] = x /\ \A q \in Requests \ {r} : req'[q] = req[q]
  BY CallUpdate, Zenon
<1> QED
  BY Zenon, <1>1 DEF CallMoves

\* The steps of Execute but the admission and the start of its goroutine.
LEMMA ExecuteMoves ==
    ASSUME TypeOK, Ownership, NEW r \in Requests,
           \/ \E t \in Tasks, fresh \in BOOLEAN : SendMessage(r, t, fresh)
           \/ (createExecution(r) /\ ~Admitted(r)) \/ AwaitPrevious(r) \/ PreviousDone(r) \/ TimedOut(r) \/ StillActive(r)
    PROVE  CallMoves(r)
<1>0. req[r] \in Calls /\ req[r].tries \in Nat /\ (req[r].pc # "idle" => req[r].tid \in Tasks)
  BY Zenon DEF TypeOK, Calls, Ownership, OwnsExecution
<1>1. ASSUME NEW t \in Tasks, NEW fresh \in BOOLEAN, SendMessage(r, t, fresh) PROVE CallMoves(r)
  <2> DEFINE x == [req[r] EXCEPT !.pc = "create", !.tid = t, !.fresh = fresh]
  <2>0. req[r].pc = "idle" /\ UNCHANGED <<manager, store, can, run>>
    BY <1>1, Zenon DEF SendMessage
  <2>1. req' = [req EXCEPT ![r] = x]
    BY <1>1, Zenon DEF SendMessage, TypeOK
  <2>3. x \in Calls /\ x.pc \notin {"idle", "spawn", "subscribed"} /\ x.tid \in Tasks
    BY <1>0, <1>1, Zenon DEF Calls
  <2> HIDE DEF x
  <2> QED
    BY <2>0, <2>1, <2>3, CallWrite, Zenon
<1>2. CASE createExecution(r) /\ ~Admitted(r)
  <2> DEFINE x == [req[r] EXCEPT !.pc = "refused"]
  <2>1. req' = [req EXCEPT ![r] = x] /\ req[r].pc = "create" /\ UNCHANGED <<manager, store, can, run>>
    BY Zenon, <1>2 DEF createExecution, Creating, TypeOK, manager
  <2>3. x \in Calls /\ x.pc \notin {"idle", "spawn", "subscribed"} /\ x.tid \in Tasks
    BY Zenon, <1>0, <2>1 DEF Calls
  <2> HIDE DEF x
  <2> QED
    BY <2>1, <2>3, CallWrite, Zenon
<1>3. CASE AwaitPrevious(r)
  <2> DEFINE x == [req[r] EXCEPT !.pc = "await", !.behind = executions[req[r].tid]]
  <2>1. req' = [req EXCEPT ![r] = x] /\ req[r].pc = "create" /\ UNCHANGED <<manager, store, can, run>>
    BY <1>3, Zenon DEF AwaitPrevious, Creating, TypeOK, manager
  <2>2. executions[req[r].tid] \in Requests \cup {None}
    BY Zenon, <1>0, <2>1 DEF TypeOK
  <2>3. x \in Calls /\ x.pc \notin {"idle", "spawn", "subscribed"} /\ x.tid \in Tasks
    BY <1>0, <2>1, <2>2, Zenon DEF Calls
  <2> HIDE DEF x
  <2> QED
    BY <2>1, <2>3, CallWrite, Zenon
<1>4. CASE PreviousDone(r)
  <2> DEFINE x == [req[r] EXCEPT !.pc = "create", !.tries = req[r].tries + 1, !.behind = None]
  <2>1. req' = [req EXCEPT ![r] = x] /\ req[r].pc = "await" /\ UNCHANGED <<manager, store, can, run>>
    BY <1>4, Zenon DEF PreviousDone, TypeOK, manager
  <2>2. req[r].tries + 1 \in Nat
    BY <1>0, <2>1 DEF TypeOK
  <2>3. x \in Calls /\ x.pc \notin {"idle", "spawn", "subscribed"} /\ x.tid \in Tasks
    BY <1>0, <2>1, <2>2, Zenon DEF Calls
  <2> HIDE DEF x
  <2> QED
    BY <2>1, <2>3, CallWrite, Zenon
<1>5. CASE TimedOut(r)
  <2> DEFINE x == [req[r] EXCEPT !.pc = "refused", !.behind = None]
  <2>1. req' = [req EXCEPT ![r] = x] /\ req[r].pc = "await" /\ UNCHANGED <<manager, store, can, run>>
    BY <1>5, Zenon DEF TimedOut, TypeOK, manager
  <2>3. x \in Calls /\ x.pc \notin {"idle", "spawn", "subscribed"} /\ x.tid \in Tasks
    BY <1>0, <2>1, Zenon DEF Calls
  <2> HIDE DEF x
  <2> QED
    BY <2>1, <2>3, CallWrite, Zenon
<1>6. CASE StillActive(r)
  <2> DEFINE x == [req[r] EXCEPT !.pc = "refused"]
  <2>1. req' = [req EXCEPT ![r] = x] /\ req[r].pc = "create" /\ UNCHANGED <<manager, store, can, run>>
    BY Zenon, <1>6 DEF StillActive, TypeOK, manager
  <2>3. x \in Calls /\ x.pc \notin {"idle", "spawn", "subscribed"} /\ x.tid \in Tasks
    BY Zenon, <1>0, <2>1 DEF Calls
  <2> HIDE DEF x
  <2> QED
    BY <2>1, <2>3, CallWrite, Zenon
<1> QED
  BY Zenon, <1>1, <1>2, <1>3, <1>4, <1>5, <1>6

\* They change nothing that the invariant is about.
LEMMA CallKeeps ==
    ASSUME IInv, NEW r \in Requests, CallMoves(r)
    PROVE  IInv'
<1>0. UNCHANGED <<executions, cancelations, quota, store, can, run>>
  BY Zenon DEF CallMoves, manager
<1>1. TypeOK'
  BY Zenon, <1>0 DEF IInv, CallMoves, TypeOK
<1>2. ASSUME NEW q \in Requests PROVE OwnsExecution(q)'
  BY Zenon, <1>0 DEF IInv, CallMoves, Ownership, OwnsExecution
<1>3. ASSUME NEW c \in Cancels PROVE OwnsCancelation(c)'
  BY Zenon, <1>0 DEF IInv, Ownership, OwnsCancelation
<1>4. ASSUME NEW t \in Tasks PROVE OwnedTask(t)'
  BY Zenon, <1>0 DEF IInv, Ownership, OwnedTask
<1>5. Memory'
  BY Zenon, <1>0 DEF IInv, Memory, Remembers, CancelsOnce
<1>6. Answers'
  BY Zenon, <1>0 DEF IInv, Answers, Canceled, Settled
<1> QED
  BY Zenon, <1>1, <1>2, <1>3, <1>4, <1>5, <1>6 DEF IInv, Ownership

\* A call of Cancel that publishes nothing: it joins the cancelation in
\* progress, is answered, or gives up.
WaitMoves(c) ==
    /\ UNCHANGED <<manager, store, req, run>> /\ can' \in [Cancels -> CancelCalls]
    /\ \A d \in Cancels \ {c} : can'[d] = can[d]
    /\ can'[c].on = can[c].on /\ can'[c].awaits \in Cancels /\ can'[c].pc # "idle"
    /\ can'[c].pc = "canceled" => Canceled(can'[c].awaits)

\* What an update of one call of Cancel leaves alone.
LEMMA WaitUpdate ==
    ASSUME TypeOK, NEW c \in Cancels, NEW pc \in {"waiting", "canceled", "error"}, NEW d \in Cancels,
           can' = [can EXCEPT ![c] = [can[c] EXCEPT !.pc = pc, !.awaits = d]]
    PROVE  /\ can' \in [Cancels -> CancelCalls] /\ \A e \in Cancels \ {c} : can'[e] = can[e]
           /\ can'[c].on = can[c].on /\ can'[c].awaits = d /\ can'[c].pc = pc
<1> DEFINE x == [can[c] EXCEPT !.pc = pc, !.awaits = d]
<1>1. can[c] \in CancelCalls
  BY Zenon DEF TypeOK
<1>2. x \in CancelCalls /\ x.on = can[c].on /\ x.awaits = d /\ x.pc = pc
  BY <1>1, Zenon DEF CancelCalls
<1> HIDE DEF x
<1> QED
  BY Zenon, <1>2 DEF TypeOK, x

\* The steps of Cancel but the one that publishes a cancelation.
LEMMA CancelMoves ==
    ASSUME TypeOK, Ownership, Memory, NEW c \in Cancels,
           \/ \E t \in Tasks : Cancel(c, t) /\ cancelations[t] # None
           \/ Answered(c) \/ GiveUp(c)
    PROVE  WaitMoves(c)
<1>o. OwnsCancelation(c)
  BY Zenon DEF Ownership
<1>0. can[c] \in CancelCalls /\ (can[c].pc # "idle" => can[c].awaits \in Cancels)
  BY Zenon, <1>o DEF TypeOK, OwnsCancelation
<1>1. ASSUME NEW t \in Tasks, Cancel(c, t), cancelations[t] # None PROVE WaitMoves(c)
  <2>1. cancelations[t] \in Cancels
    BY Zenon, <1>1 DEF TypeOK
  <2>2. can' = [can EXCEPT ![c] = [can[c] EXCEPT !.pc = "waiting", !.awaits = cancelations[t]]]
        /\ UNCHANGED <<manager, store, req, run>>
    BY <1>1, Zenon DEF Cancel, TypeOK, manager
  <2> QED
    BY <2>1, <2>2, WaitUpdate, Zenon DEF WaitMoves
<1>2. ASSUME NEW pc \in {"canceled", "error"}, can[c].pc = "waiting", can' = [can EXCEPT ![c].pc = pc],
             UNCHANGED <<manager, store, req, run>>, pc = "canceled" => Canceled(can[c].awaits)
      PROVE  WaitMoves(c)
  <2>1. can[c].awaits \in Cancels
    BY Zenon, <1>0, <1>2
  <2>2. [can[c] EXCEPT !.pc = pc] = [can[c] EXCEPT !.pc = pc, !.awaits = can[c].awaits]
    BY <1>0, Zenon DEF CancelCalls
  <2>3. can' = [can EXCEPT ![c] = [can[c] EXCEPT !.pc = pc]]
    BY Zenon, <1>2 DEF TypeOK
  <2>4. can' = [can EXCEPT ![c] = [can[c] EXCEPT !.pc = pc, !.awaits = can[c].awaits]]
    BY <2>2, <2>3, Zenon
  <2>5. /\ can' \in [Cancels -> CancelCalls] /\ \A e \in Cancels \ {c} : can'[e] = can[e]
        /\ can'[c].on = can[c].on /\ can'[c].awaits = can[c].awaits /\ can'[c].pc = pc
    BY <2>1, <2>4, WaitUpdate, Zenon
  <2>6. can'[c].awaits = can[c].awaits
    BY Zenon, <2>5
  <2>7. pc = "canceled" => Canceled(can'[c].awaits)
    BY <1>2, <2>6, Zenon
  <2> QED
    BY <1>2, <2>1, <2>5, <2>7, Zenon DEF WaitMoves
<1>3. CASE Answered(c)
  <2>1. can[c].awaits \in Runs /\ run[can[c].awaits].done
    BY Zenon, <1>0, <1>3 DEF Answered, Runs
  <2>2. run[can[c].awaits].stage = "over"
    BY Zenon, <2>1 DEF Memory, Remembers
  <2>3. CASE run[can[c].awaits].result = "canceled"
    <3>1. Canceled(can[c].awaits)
      BY Zenon, <2>2, <2>3 DEF Canceled
    <3>2. can' = [can EXCEPT ![c].pc = "canceled"] /\ can[c].pc = "waiting" /\ UNCHANGED <<manager, store, req, run>>
      BY Zenon, <1>3, <2>3 DEF Answered
    <3> QED
      BY Zenon, <1>2, <3>1, <3>2
  <2>4. CASE run[can[c].awaits].result # "canceled"
    <3>0. (IF run[can[c].awaits].result = "canceled" THEN "canceled" ELSE "error") = "error"
      BY Zenon, <2>4
    <3>1. can' = [can EXCEPT ![c].pc = "error"] /\ can[c].pc = "waiting" /\ UNCHANGED <<manager, store, req, run>>
      BY <1>3, <3>0, Zenon DEF Answered
    <3> QED
      BY Zenon, <1>2, <3>1
  <2> QED
    BY Zenon, <2>3, <2>4
<1>4. CASE GiveUp(c)
  BY Zenon, <1>2, <1>4 DEF GiveUp
<1> QED
  BY Zenon, <1>1, <1>3, <1>4

\* They change nothing that the invariant is about but the answer itself.
LEMMA WaitKeeps ==
    ASSUME IInv, NEW c \in Cancels, WaitMoves(c)
    PROVE  IInv'
<1>0. UNCHANGED <<executions, cancelations, quota, store, req, run>>
  BY Zenon DEF WaitMoves, manager
<1>o. \A d \in Cancels : can'[d].on = can[d].on /\ (can'[d].pc = "idle" => can[d].pc = "idle")
  BY Zenon DEF WaitMoves
<1>1. TypeOK'
  BY Zenon, <1>0 DEF IInv, WaitMoves, TypeOK
<1>2. ASSUME NEW q \in Requests PROVE OwnsExecution(q)'
  BY Zenon, <1>0 DEF IInv, Ownership, OwnsExecution
<1>3. ASSUME NEW d \in Cancels PROVE OwnsCancelation(d)'
  <2>0. OwnsCancelation(d)
    BY Zenon DEF IInv, Ownership
  <2>1. IF can'[d].pc = "idle" THEN run'[d].stage = "off" ELSE can'[d].awaits \in Cancels
    <3>1. CASE d = c
      BY <3>1, Zenon DEF WaitMoves
    <3>2. CASE d # c
      BY Zenon, <1>0, <2>0, <3>2 DEF OwnsCancelation, WaitMoves
    <3> QED
      BY Zenon, <3>1, <3>2
  <2> QED
    BY Zenon, <1>0, <1>o, <2>0, <2>1 DEF OwnsCancelation
<1>4. ASSUME NEW t \in Tasks PROVE OwnedTask(t)'
  <2>1. cancelations[t] \in Cancels \cup {None}
    BY Zenon DEF IInv, TypeOK
  <2> QED
    BY Zenon, <1>0, <1>o, <2>1 DEF IInv, Ownership, OwnedTask
<1>5. Memory'
  BY <1>0, <1>o DEF IInv, Memory, Remembers, CancelsOnce
<1>6. Answers'
  <2>1. ASSUME NEW v \in Runs, Canceled(v)' PROVE Settled(v)'
    BY Zenon, <1>0, <2>1 DEF IInv, Answers, Canceled, Settled
  <2>2. ASSUME NEW d \in Cancels, can'[d].pc = "canceled" PROVE Canceled(can[d].awaits)'
    <3>1. CASE d = c
      BY Zenon, <1>0, <2>2, <3>1 DEF WaitMoves, Canceled
    <3>2. CASE d # c
      <4>1. can'[d] = can[d]
        BY Zenon, <3>2 DEF WaitMoves
      <4>2. Canceled(can[d].awaits)
        BY Zenon, <2>2, <4>1 DEF IInv, Answers
      <4> QED
        BY Zenon, <1>0, <4>1, <4>2 DEF Canceled
    <3> QED
      BY Zenon, <3>1, <3>2
  <2> QED
    BY Zenon, <2>1, <2>2 DEF Answers
<1> QED
  BY Zenon, <1>1, <1>2, <1>3, <1>4, <1>5, <1>6 DEF IInv, Ownership

\* A step that stores nothing and moves one run keeps what the others remember.
LEMMA MemoryKeeps ==
    ASSUME TypeOK, Memory, NEW w \in Runs, OnlyRun(w), store' = store, Remembers(w)',
           \A c \in Cancels : c # w => can'[c].on = can[c].on, w \in Cancels => CancelsOnce(w)'
    PROVE  Memory'
<1>1. ASSUME NEW v \in Runs PROVE Remembers(v)'
  <2>1. CASE v # w
    <3>1. Remembers(v) /\ SameRun(v)
      BY Zenon, <2>1 DEF Memory, OnlyRun
    <3> QED
      BY Zenon, <3>1 DEF Remembers, SameRun
  <2> QED
    BY Zenon, <2>1
<1>2. ASSUME NEW c \in Cancels PROVE CancelsOnce(c)'
  <2>1. CASE c # w
    <3>1. CancelsOnce(c) /\ SameRun(c) /\ can'[c].on = can[c].on
      BY Zenon, <2>1 DEF Memory, OnlyRun, Runs
    <3> QED
      BY Zenon, <3>1 DEF CancelsOnce, SameRun
  <2> QED
    BY Zenon, <2>1
<1> QED
  BY Zenon, <1>1, <1>2 DEF Memory

\* A step that stores nothing, moves one run, which does not take its task up,
\* and answers nobody keeps the answers.
LEMMA AnswersKeep ==
    ASSUME TypeOK, Ownership, Answers, NEW w \in Runs, OnlyRun(w), store' = store,
           run'[w].stage \notin {"history", "running"},
           Canceled(w)' <=> Canceled(w), Canceled(w) => run'[w].tid = run[w].tid,
           \A c \in Cancels : can'[c].pc = "canceled" => can[c].pc = "canceled" /\ can'[c].awaits = can[c].awaits
    PROVE  Answers'
<1>1. ASSUME NEW v \in Runs PROVE /\ Canceled(v)' <=> Canceled(v)
                                  /\ Canceled(v) => run'[v].tid = run[v].tid
  BY Zenon DEF Canceled, OnlyRun, SameRun
<1>2. ASSUME NEW v \in Runs, Canceled(v)' PROVE Settled(v)'
  <2>1. Settled(v) /\ run'[v].tid = run[v].tid
    BY Zenon, <1>1, <1>2 DEF Answers
  <2>2. ASSUME NEW r \in Requests, run'[r].tid = run[v].tid PROVE run'[r].stage \notin {"history", "running"}
    <3>1. CASE r # w
      BY Zenon, <2>1, <2>2, <3>1 DEF Settled, OnlyRun, SameRun, Runs
    <3> QED
      BY Zenon, <3>1
  <2> QED
    BY Zenon, <2>1, <2>2 DEF Settled
<1>3. ASSUME NEW c \in Cancels, can'[c].pc = "canceled" PROVE Canceled(can[c].awaits)'
  <2>1. can[c].pc = "canceled" /\ can'[c].awaits = can[c].awaits
    BY Zenon, <1>3
  <2>2. Canceled(can[c].awaits) /\ can[c].awaits \in Runs
    BY Zenon, <2>1 DEF Answers, Ownership, OwnsCancelation, Runs
  <2>3. run'[can[c].awaits].stage \in {"cleanup", "over"} /\ run'[can[c].awaits].result = "canceled"
    BY Zenon, <1>1, <2>2 DEF Canceled
  <2> QED
    BY Zenon, <2>1, <2>3 DEF Canceled
<1> QED
  BY Zenon, <1>2, <1>3 DEF Answers

\* A run as it is made.
NewAt(w, t, s) ==
    LET y == run'[w] IN
    /\ y.tid = t /\ y.stage = s /\ y.last = NoTask /\ y.result = "none" /\ y.consumer = "off"
    /\ y.event = "none" /\ y.pipe = <<>> /\ ~y.done

\* Making a run writes no other run.
LEMMA NewMove ==
    ASSUME TypeOK, NEW w \in Runs, NEW t \in Tasks, NEW s \in {"new", "setup", "signal"},
           run' = [run EXCEPT ![w] = NewRun(t, s)]
    PROVE  run' \in [Runs -> RunStates] /\ OnlyRun(w) /\ NewAt(w, t, s)
<1>1. NewRun(t, s) \in RunStates
  BY Zenon, NewRunType DEF Live, Before
<1>2. run' \in [Runs -> RunStates] /\ run'[w] = NewRun(t, s) /\ OnlyRun(w)
  BY <1>1, RunUpdate, Zenon
<1> QED
  BY Zenon, <1>2 DEF NewAt, NewRun

\* It remembers nothing, as it should.
LEMMA NewRemembers ==
    ASSUME NEW w \in Runs, NEW t, NEW s \in {"new", "setup", "signal"}, NewAt(w, t, s)
    PROVE  Remembers(w)' /\ ~Canceled(w)' /\ (w \in Cancels => CancelsOnce(w)')
BY Zenon DEF NewAt, Remembers, Canceled, CancelsOnce, Before

\* createExecution publishes an execution.
LEMMA CreateKeeps ==
    ASSUME IInv, NEW r \in Requests, createExecution(r), Admitted(r)
    PROVE  IInv'
<1> DEFINE t == req[r].tid
<1>0. /\ t \in Tasks /\ req[r].pc = "create" /\ run[r].stage = "off" /\ executions[t] = None /\ cancelations[t] = None
      /\ UNCHANGED <<cancelations, store, can>> /\ r \in Runs /\ r \notin Cancels /\ r # None
  BY Zenon, NamesAssumption DEF createExecution, Creating, Admitted, Ownership, OwnsExecution, Runs, IInv
<1>1. executions' = [executions EXCEPT ![t] = r] /\ quota' = quota + 1 /\ run' = [run EXCEPT ![r] = NewRun(t, "new")]
  BY Zenon DEF createExecution
<1>2. req' = [req EXCEPT ![r] = [req[r] EXCEPT !.pc = "spawn"]]
  BY Zenon DEF createExecution, TypeOK, IInv
<1>3. req' \in [Requests -> Calls] /\ req'[r].pc = "spawn" /\ req'[r].tid = t /\ \A q \in Requests \ {r} : req'[q] = req[q]
  <2>1. req[r] \in Calls
    BY Zenon DEF TypeOK, IInv
  <2>2. [req[r] EXCEPT !.pc = "spawn"] \in Calls /\ [req[r] EXCEPT !.pc = "spawn"].pc = "spawn" /\ [req[r] EXCEPT !.pc = "spawn"].tid = t
    BY Zenon, <2>1 DEF Calls
  <2> QED
    BY <1>2, <2>2, CallUpdate, Zenon DEF IInv
<1>4. run' \in [Runs -> RunStates] /\ OnlyRun(r) /\ NewAt(r, t, "new")
  BY <1>0, <1>1, NewMove, Zenon DEF IInv
<1>5. TypeOK'
  BY <1>0, <1>1, <1>3, <1>4 DEF TypeOK, IInv
<1>s. \A v \in Runs : v # r => run'[v].tid = run[v].tid /\ run'[v].stage = run[v].stage
  BY Zenon, <1>4 DEF OnlyRun, SameRun
<1>n. run'[r].tid = t /\ run'[r].stage = "new"
  BY Zenon, <1>4 DEF NewAt
<1>e. executions'[t] = r /\ \A u \in Tasks : u # t => executions'[u] = executions[u]
  BY Zenon, <1>0, <1>1 DEF TypeOK, IInv
<1>6. ASSUME NEW q \in Requests PROVE OwnsExecution(q)'
  <2>1. CASE q = r
    BY Zenon, <1>0, <1>3, <1>n, <1>e, <2>1 DEF OwnsExecution, Live, Before
  <2>2. CASE q # r
    <3>1. OwnsExecution(q) /\ q # None /\ q \in Runs
      BY Zenon, NamesAssumption DEF Ownership, Runs, IInv
    <3>2. req'[q] = req[q] /\ run'[q].tid = run[q].tid /\ run'[q].stage = run[q].stage
      BY Zenon, <1>3, <1>s, <2>2, <3>1
    <3>3. run[q].stage \in Live => executions'[run[q].tid] = q
      <4>1. run[q].stage \in Live => run[q].tid \in Tasks /\ executions[run[q].tid] = q
        BY Zenon, <3>1 DEF OwnsExecution, Live, Before
      <4>2. run[q].stage \in Live => run[q].tid # t
        BY <1>0, <3>1, <4>1, Zenon
      <4> QED
        BY <1>e, <4>1, <4>2, Zenon
    <3> QED
      BY Zenon, <3>1, <3>2, <3>3 DEF OwnsExecution
  <2> QED
    BY Zenon, <2>1, <2>2
<1>7. ASSUME NEW c \in Cancels PROVE OwnsCancelation(c)'
  <2>1. OwnsCancelation(c) /\ c \in Runs /\ c # r
    BY Zenon, <1>0 DEF Ownership, Runs, IInv
  <2>2. can[c].on # None => can[c].on \in Runs /\ can[c].on # r
    BY Zenon, <1>0, <2>1 DEF OwnsCancelation, TypeOK, CancelCalls, Runs, IInv
  <2> QED
    BY Zenon, <1>0, <1>s, <2>1, <2>2 DEF OwnsCancelation
<1>8. ASSUME NEW u \in Tasks PROVE OwnedTask(u)'
  <2>1. CASE u = t
    BY Zenon, <1>0, <1>n, <1>e, <2>1 DEF OwnedTask, Live, Before
  <2>2. CASE u # t
    <3>1. OwnedTask(u) /\ executions[u] \in Runs \cup {None} /\ cancelations[u] \in Cancels \cup {None}
      BY Zenon DEF Ownership, TypeOK, Runs, IInv
    <3>2. executions[u] # r /\ cancelations[u] # r
      BY Zenon, <1>0, <3>1 DEF OwnedTask, Live, Before
    <3> QED
      BY Zenon, <1>0, <1>s, <1>e, <2>2, <3>1, <3>2 DEF OwnedTask, Runs
  <2> QED
    BY Zenon, <2>1, <2>2
<1>9. Ownership'
  BY Zenon, <1>6, <1>7, <1>8 DEF Ownership, IInv
<1>10. Remembers(r)' /\ ~Canceled(r)'
  BY Zenon, <1>0, <1>4, NewRemembers
<1>11. Memory'
  BY Zenon, <1>0, <1>4, <1>10, MemoryKeeps DEF IInv
<1>12. Answers'
  <2>1. ~Canceled(r)
    BY Zenon, <1>0 DEF Canceled
  <2> QED
    BY Zenon, <1>0, <1>4, <1>n, <1>10, <2>1, AnswersKeep DEF IInv
<1> QED
  BY Zenon, <1>5, <1>9, <1>11, <1>12 DEF IInv

\* A published execution starts, and keeps its entry.
LEMMA SpawnKeeps ==
    ASSUME IInv, NEW r \in Requests, Spawn(r)
    PROVE  IInv'
<1>0. /\ UNCHANGED <<executions, cancelations, quota, store, can>> /\ r \in Runs /\ r \notin Cancels
      /\ req[r].pc = "spawn" /\ req[r].tid \in Tasks /\ run[r].stage = "new"
  BY Zenon, NamesAssumption DEF Spawn, manager, Runs, Ownership, OwnsExecution, IInv
<1>1. run' = [run EXCEPT ![r].stage = "setup"] /\ req' = [req EXCEPT ![r] = [req[r] EXCEPT !.pc = "subscribed"]]
  BY Zenon DEF Spawn, TypeOK, IInv
<1>2. Moves(r) /\ Stages(r, "setup", run[r].last, run[r].result)
  BY <1>0, <1>1, SpawnMove, Zenon DEF IInv
<1>3. req' \in [Requests -> Calls] /\ req'[r].pc = "subscribed" /\ req'[r].tid = req[r].tid /\ \A q \in Requests \ {r} : req'[q] = req[q]
  <2>1. req[r] \in Calls
    BY Zenon DEF TypeOK, IInv
  <2>2. LET z == [req[r] EXCEPT !.pc = "subscribed"] IN z \in Calls /\ z.pc = "subscribed" /\ z.tid = req[r].tid
    BY Zenon, <2>1 DEF Calls
  <2> QED
    BY <1>1, <2>2, CallUpdate, Zenon DEF IInv
<1>4. TypeOK'
  BY Zenon, <1>0, <1>2, <1>3 DEF TypeOK, Moves, IInv
<1>5. run'[r].tid = run[r].tid /\ run'[r].stage = "setup" /\ OnlyRun(r)
  BY Zenon, <1>2 DEF Moves, Stages
<1>6. \A v \in Runs : v # r => run'[v].tid = run[v].tid /\ run'[v].stage = run[v].stage
  BY Zenon, <1>5 DEF OnlyRun, SameRun
<1>7. ASSUME NEW q \in Requests PROVE OwnsExecution(q)'
  <2>0. OwnsExecution(q) /\ q \in Runs
    BY Zenon DEF Ownership, Runs, IInv
  <2>1. CASE q = r
    BY Zenon, <1>0, <1>3, <1>5, <2>0, <2>1 DEF OwnsExecution, Live, Before
  <2>2. CASE q # r
    BY Zenon, <1>0, <1>3, <1>6, <2>0, <2>2 DEF OwnsExecution
  <2> QED
    BY Zenon, <2>1, <2>2
<1>8. ASSUME NEW c \in Cancels PROVE OwnsCancelation(c)'
  <2>1. OwnsCancelation(c) /\ c \in Runs /\ c # r /\ (can[c].on # None => can[c].on \in Runs)
    BY Zenon, <1>0 DEF Ownership, Runs, TypeOK, CancelCalls, IInv
  <2> QED
    BY Zenon, <1>0, <1>5, <1>6, <2>1 DEF OwnsCancelation
<1>9. ASSUME NEW u \in Tasks PROVE OwnedTask(u)'
  <2>1. OwnedTask(u) /\ executions[u] \in Runs \cup {None} /\ cancelations[u] \in Runs \cup {None}
    BY Zenon DEF Ownership, TypeOK, Runs, IInv
  <2> QED
    BY Zenon, <1>0, <1>5, <1>6, <2>1 DEF OwnedTask, Live, Before
<1>10. Remembers(r)' /\ ~Canceled(r)' /\ ~Canceled(r)
  <2>1. Remembers(r)
    BY Zenon, <1>0 DEF Memory, IInv
  <2> QED
    BY Zenon, <1>0, <1>2, <2>1 DEF Remembers, Moves, Stages, Canceled, Before
<1>11. Memory'
  BY Zenon, <1>0, <1>5, <1>10, MemoryKeeps DEF IInv
<1>12. Answers'
  BY Zenon, <1>0, <1>5, <1>10, AnswersKeep DEF IInv
<1> QED
  BY Zenon, <1>4, <1>7, <1>8, <1>9, <1>11, <1>12 DEF Ownership, IInv

\* The run is over and keeps its result.
OverAt(w) ==
    LET y == run'[w] IN
    /\ y.tid = run[w].tid /\ y.stage = "over" /\ y.last = NoTask /\ y.result = run[w].result
    /\ y.consumer = "off" /\ y.event = "none" /\ y.pipe = <<>>

\* The handler ends.
LEMMA OverMove ==
    ASSUME TypeOK, NEW w \in Runs, Over(w)
    PROVE  run' \in [Runs -> RunStates] /\ OnlyRun(w) /\ OverAt(w)
<1> DEFINE x == [NewRun(run[w].tid, "over") EXCEPT !.closed = TRUE, !.result = run[w].result, !.done = TRUE]
<1>0. run[w].tid \in Tasks \cup {None} /\ run[w].result \in Results
  BY Zenon DEF TypeOK, RunStates, IInv
<1>1. NewRun(run[w].tid, "over") \in RunStates
  BY Zenon, <1>0, NewRunType
<1>2. x \in RunStates
  BY <1>0, <1>1, Zenon DEF RunStates
<1>3. run' = [run EXCEPT ![w] = x]
  BY Zenon DEF Over, TypeOK, IInv
<1>4. run' \in [Runs -> RunStates] /\ run'[w] = x /\ OnlyRun(w)
  BY <1>2, <1>3, RunUpdate, Zenon
<1>5. /\ x.tid = run[w].tid /\ x.stage = "over" /\ x.last = NoTask /\ x.result = run[w].result
      /\ x.consumer = "off" /\ x.event = "none" /\ x.pipe = <<>>
  BY Zenon DEF NewRun
<1> HIDE DEF x
<1> QED
  BY Zenon, <1>4, <1>5 DEF OverAt

\* A run that is over remembers its result alone.
LEMMA OverRemembers ==
    ASSUME NEW w \in Runs, OverAt(w), run[w].stage = "cleanup", Remembers(w)
    PROVE  Remembers(w)' /\ (Canceled(w)' <=> Canceled(w)) /\ (w \in Cancels => CancelsOnce(w)')
BY Zenon DEF OverAt, Remembers, Canceled, CancelsOnce, Before

\* cleanupExecution removes the execution it published.
LEMMA CleanupExecutionKeeps ==
    ASSUME IInv, NEW r \in Requests, cleanupExecution(r)
    PROVE  IInv'
<1> DEFINE t == run[r].tid
<1>0. /\ UNCHANGED <<cancelations, store, req, can>> /\ r \in Runs /\ r \notin Cancels
      /\ run[r].stage = "cleanup" /\ t \in Tasks /\ executions[t] = r
  BY Zenon, NamesAssumption DEF cleanupExecution, Runs, Ownership, OwnsExecution, Live, IInv
<1>1. executions' = [executions EXCEPT ![t] = None] /\ quota' = quota - 1 /\ Over(r)
  BY Zenon DEF cleanupExecution
<1>2. run' \in [Runs -> RunStates] /\ OnlyRun(r) /\ OverAt(r)
  BY Zenon, <1>0, <1>1, OverMove DEF IInv
<1>4. TypeOK'
  BY <1>0, <1>1, <1>2 DEF TypeOK, IInv
<1>5. run'[r].tid = t /\ run'[r].stage = "over"
  BY Zenon, <1>2 DEF OverAt
<1>6. \A v \in Runs : v # r => run'[v].tid = run[v].tid /\ run'[v].stage = run[v].stage
  BY Zenon, <1>2 DEF OnlyRun, SameRun
<1>e. executions'[t] = None /\ \A u \in Tasks : u # t => executions'[u] = executions[u]
  BY Zenon, <1>0, <1>1 DEF TypeOK, IInv
<1>7. ASSUME NEW q \in Requests PROVE OwnsExecution(q)'
  <2>0. OwnsExecution(q) /\ q \in Runs
    BY Zenon DEF Ownership, Runs, IInv
  <2>1. CASE q = r
    BY Zenon, <1>0, <1>5, <2>0, <2>1 DEF OwnsExecution, Live, Before
  <2>2. CASE q # r
    <3>1. run[q].stage \in Live => run[q].tid \in Tasks /\ executions[run[q].tid] = q
      BY Zenon, <2>0 DEF OwnsExecution, Live, Before
    <3>2. run[q].stage \in Live => executions'[run[q].tid] = q
      BY <1>0, <1>e, <2>2, <3>1, Zenon
    <3> QED
      BY Zenon, <1>0, <1>6, <2>0, <2>2, <3>2 DEF OwnsExecution
  <2> QED
    BY Zenon, <2>1, <2>2
<1>8. ASSUME NEW c \in Cancels PROVE OwnsCancelation(c)'
  <2>1. OwnsCancelation(c) /\ c \in Runs /\ c # r /\ (can[c].on # None => can[c].on \in Runs)
    BY Zenon, <1>0 DEF Ownership, Runs, TypeOK, CancelCalls, IInv
  <2> QED
    BY Zenon, <1>0, <1>5, <1>6, <2>1 DEF OwnsCancelation
<1>9. ASSUME NEW u \in Tasks PROVE OwnedTask(u)'
  <2>1. OwnedTask(u) /\ executions[u] \in Runs \cup {None} /\ cancelations[u] \in Cancels \cup {None}
    BY Zenon DEF Ownership, TypeOK, Runs, IInv
  <2>2. cancelations[u] # None => cancelations[u] \in Runs /\ cancelations[u] # r
    BY Zenon, <1>0, <2>1 DEF Runs
  <2>3. CASE u = t
    BY Zenon, <1>0, <1>6, <1>e, <2>1, <2>2, <2>3 DEF OwnedTask
  <2>4. CASE u # t
    <3>1. executions[u] # None => executions[u] \in Runs /\ executions[u] # r
      BY Zenon, <2>1, <2>4 DEF OwnedTask
    <3> QED
      BY Zenon, <1>0, <1>6, <1>e, <2>1, <2>2, <2>4, <3>1 DEF OwnedTask
  <2> QED
    BY Zenon, <2>3, <2>4
<1>10. Remembers(r)' /\ (Canceled(r)' <=> Canceled(r))
  BY Zenon, <1>0, <1>2, OverRemembers DEF Memory, IInv
<1>11. Memory'
  BY Zenon, <1>0, <1>2, <1>10, MemoryKeeps DEF IInv
<1>12. Answers'
  BY Zenon, <1>0, <1>2, <1>5, <1>10, AnswersKeep DEF IInv
<1> QED
  BY Zenon, <1>4, <1>7, <1>8, <1>9, <1>11, <1>12 DEF Ownership, IInv

\* cleanupCancelation removes the cancelation it published.
LEMMA CleanupCancelationKeeps ==
    ASSUME IInv, NEW d \in Cancels, cleanupCancelation(d)
    PROVE  IInv'
<1> DEFINE t == run[d].tid
<1>0. /\ UNCHANGED <<executions, quota, store, req, can>> /\ d \in Runs /\ d \notin Requests
      /\ run[d].stage = "cleanup" /\ t \in Tasks /\ cancelations[t] = d
  BY Zenon, NamesAssumption DEF cleanupCancelation, Runs, Ownership, OwnsCancelation, Live, IInv
<1>1. cancelations' = [cancelations EXCEPT ![t] = None] /\ Over(d)
  BY Zenon DEF cleanupCancelation
<1>2. run' \in [Runs -> RunStates] /\ OnlyRun(d) /\ OverAt(d)
  BY Zenon, <1>0, <1>1, OverMove DEF IInv
<1>4. TypeOK'
  BY Zenon, <1>0, <1>1, <1>2 DEF TypeOK, IInv
<1>5. run'[d].tid = t /\ run'[d].stage = "over"
  BY Zenon, <1>2 DEF OverAt
<1>6. \A v \in Runs : v # d => run'[v].tid = run[v].tid /\ run'[v].stage = run[v].stage
  BY Zenon, <1>2 DEF OnlyRun, SameRun
<1>e. cancelations'[t] = None /\ \A u \in Tasks : u # t => cancelations'[u] = cancelations[u]
  BY Zenon, <1>0, <1>1 DEF TypeOK, IInv
<1>7. ASSUME NEW q \in Requests PROVE OwnsExecution(q)'
  <2>0. OwnsExecution(q) /\ q \in Runs /\ q # d
    BY Zenon, <1>0 DEF Ownership, Runs, IInv
  <2> QED
    BY Zenon, <1>0, <1>6, <2>0 DEF OwnsExecution
<1>8. ASSUME NEW c \in Cancels PROVE OwnsCancelation(c)'
  <2>0. OwnsCancelation(c) /\ c \in Runs /\ (can[c].on # None => can[c].on \in Runs /\ can[c].on # d)
    BY Zenon, <1>0 DEF Ownership, Runs, TypeOK, CancelCalls, IInv
  <2>1. CASE c = d
    BY Zenon, <1>0, <1>5, <1>6, <2>0, <2>1 DEF OwnsCancelation, Live, Before
  <2>2. CASE c # d
    <3>1. run[c].stage \in Live => run[c].tid \in Tasks /\ cancelations[run[c].tid] = c
      BY Zenon, <2>0 DEF OwnsCancelation, Live, Before
    <3>2. run[c].stage \in Live => cancelations'[run[c].tid] = c
      BY <1>0, <1>e, <2>2, <3>1, Zenon
    <3> QED
      BY Zenon, <1>0, <1>6, <2>0, <2>2, <3>2 DEF OwnsCancelation
  <2> QED
    BY Zenon, <2>1, <2>2
<1>9. ASSUME NEW u \in Tasks PROVE OwnedTask(u)'
  <2>1. OwnedTask(u) /\ executions[u] \in Requests \cup {None} /\ cancelations[u] \in Cancels \cup {None}
    BY Zenon DEF Ownership, TypeOK, IInv
  <2>2. executions[u] # None => executions[u] \in Runs /\ executions[u] # d
    BY Zenon, <1>0, <2>1 DEF Runs
  <2>3. CASE u = t
    BY Zenon, <1>0, <1>6, <1>e, <2>1, <2>2, <2>3 DEF OwnedTask
  <2>4. CASE u # t
    <3>1. cancelations[u] # None => cancelations[u] \in Runs /\ cancelations[u] # d
      BY Zenon, <2>1, <2>4 DEF OwnedTask, Runs
    <3> QED
      BY Zenon, <1>0, <1>6, <1>e, <2>1, <2>2, <2>4, <3>1 DEF OwnedTask
  <2> QED
    BY Zenon, <2>3, <2>4
<1>10. Remembers(d)' /\ (Canceled(d)' <=> Canceled(d)) /\ CancelsOnce(d)'
  BY Zenon, <1>0, <1>2, OverRemembers DEF Memory, IInv
<1>11. Memory'
  BY Zenon, <1>0, <1>2, <1>10, MemoryKeeps DEF IInv
<1>12. Answers'
  BY Zenon, <1>0, <1>2, <1>5, <1>10, AnswersKeep DEF IInv
<1> QED
  BY Zenon, <1>4, <1>7, <1>8, <1>9, <1>11, <1>12 DEF Ownership, IInv

\* Cancel publishes a cancelation: one that signals the execution in progress,
\* or one that runs on its own.
Published(d, t) ==
    /\ can[d].pc = "idle" /\ cancelations[t] = None
    /\ cancelations' = [cancelations EXCEPT ![t] = d]
    /\ can' = [can EXCEPT ![d] = [pc |-> "waiting", on |-> executions[t], awaits |-> d]]
    /\ run' = [run EXCEPT ![d] = NewRun(t, IF executions[t] = None THEN "setup" ELSE "signal")]
    /\ UNCHANGED <<executions, quota, store, req>>

\* The cancelation a call of Cancel publishes is its own.
LEMMA PublishedKeeps ==
    ASSUME IInv, NEW d \in Cancels, NEW t \in Tasks, Published(d, t)
    PROVE  IInv'
<1> DEFINE e == executions[t]
           s == IF e = None THEN "setup" ELSE "signal"
           z == [pc |-> "waiting", on |-> e, awaits |-> d]
<1>0. /\ UNCHANGED <<executions, quota, store, req>> /\ d \in Runs /\ d \notin Requests /\ d # None
      /\ can[d].pc = "idle" /\ run[d].stage = "off" /\ cancelations[t] = None
  BY Zenon, NamesAssumption DEF Published, Runs, Ownership, OwnsCancelation, IInv
<1>t. e \in Requests \cup {None} /\ s \in {"setup", "signal"}
  BY Zenon DEF TypeOK, IInv
<1>1. cancelations' = [cancelations EXCEPT ![t] = d] /\ can' = [can EXCEPT ![d] = z] /\ run' = [run EXCEPT ![d] = NewRun(t, s)]
  BY Zenon DEF Published
<1>2. run' \in [Runs -> RunStates] /\ OnlyRun(d) /\ NewAt(d, t, s)
  BY <1>0, <1>1, <1>t, NewMove, Zenon DEF IInv
<1>3. can' \in [Cancels -> CancelCalls] /\ can'[d] = z /\ \A c \in Cancels \ {d} : can'[c] = can[c]
  <2>1. z \in CancelCalls
    BY Zenon, <1>t DEF CancelCalls
  <2> QED
    BY Zenon, <1>1, <2>1 DEF TypeOK, IInv
<1>z. can'[d].pc = "waiting" /\ can'[d].on = e /\ can'[d].awaits = d
  BY <1>3
<1>4. TypeOK'
  BY Zenon, <1>0, <1>1, <1>2, <1>3 DEF TypeOK, IInv
<1>5. run'[d].tid = t /\ run'[d].stage = s
  BY Zenon, <1>2 DEF NewAt
<1>s. (s = "setup" /\ e = None) \/ (s = "signal" /\ e # None)
  <2>1. CASE e = None
    BY Zenon, <2>1
  <2>2. CASE e # None
    BY Zenon, <2>2
  <2> QED
    BY Zenon, <2>1, <2>2
<1>6. \A v \in Runs : v # d => run'[v].tid = run[v].tid /\ run'[v].stage = run[v].stage
  BY Zenon, <1>2 DEF OnlyRun, SameRun
<1>e. cancelations'[t] = d /\ \A u \in Tasks : u # t => cancelations'[u] = cancelations[u]
  BY Zenon, <1>1 DEF TypeOK, IInv
<1>o. e # None => e \in Runs /\ e # d /\ run[e].tid = t /\ run[e].stage \in Live
  <2>1. OwnedTask(t)
    BY Zenon DEF Ownership, IInv
  <2> QED
    BY Zenon, <1>0, <1>t, <2>1 DEF OwnedTask, Runs
<1> HIDE DEF s, z
<1>7. ASSUME NEW q \in Requests PROVE OwnsExecution(q)'
  <2>0. OwnsExecution(q) /\ q \in Runs /\ q # d
    BY Zenon, <1>0 DEF Ownership, Runs, IInv
  <2> QED
    BY Zenon, <1>0, <1>6, <2>0 DEF OwnsExecution
<1>8. ASSUME NEW c \in Cancels PROVE OwnsCancelation(c)'
  <2>1. CASE c = d
    <3>1. e # None => run'[e].stage # "off" /\ run'[e].tid = t
      BY Zenon, <1>6, <1>o DEF Live, Before
    <3> QED
      BY Zenon, <1>5, <1>z, <1>s, <1>e, <2>1, <3>1 DEF OwnsCancelation
  <2>2. CASE c # d
    <3>0. OwnsCancelation(c) /\ c \in Runs /\ (can[c].on # None => can[c].on \in Runs /\ can[c].on # d) /\ c # None
      BY Zenon, <1>0, NamesAssumption DEF Ownership, Runs, TypeOK, CancelCalls, IInv
    <3>1. run[c].stage \in Live => run[c].tid \in Tasks /\ cancelations[run[c].tid] = c
      BY Zenon, <3>0 DEF OwnsCancelation, Live, Before
    <3>2. run[c].stage \in Live => cancelations'[run[c].tid] = c
      BY <1>0, <1>e, <3>0, <3>1, Zenon
    <3>3. can'[c] = can[c]
      BY Zenon, <1>3, <2>2
    <3> QED
      BY Zenon, <1>0, <1>6, <2>2, <3>0, <3>2, <3>3 DEF OwnsCancelation
  <2> QED
    BY Zenon, <2>1, <2>2
<1>9. ASSUME NEW u \in Tasks PROVE OwnedTask(u)'
  <2>1. OwnedTask(u) /\ executions[u] \in Requests \cup {None} /\ cancelations[u] \in Cancels \cup {None}
    BY Zenon DEF Ownership, TypeOK, IInv
  <2>2. executions[u] # None => executions[u] \in Runs /\ executions[u] # d
    BY Zenon, <1>0, <2>1 DEF Runs
  <2>3. CASE u = t
    <3>1. run'[d].stage \in Live
      BY Zenon, <1>5, <1>s DEF Live, Before
    <3> QED
      BY Zenon, <1>0, <1>5, <1>6, <1>z, <1>e, <2>1, <2>2, <2>3, <3>1 DEF OwnedTask
  <2>4. CASE u # t
    <3>1. cancelations[u] # None => cancelations[u] \in Runs /\ cancelations[u] # d /\ can'[cancelations[u]] = can[cancelations[u]]
      BY Zenon, <1>0, <1>3, <2>1, <2>4 DEF OwnedTask, Runs, Live, Before
    <3> QED
      BY Zenon, <1>0, <1>6, <1>e, <2>1, <2>2, <2>4, <3>1 DEF OwnedTask
  <2> QED
    BY Zenon, <2>3, <2>4
<1>10. Remembers(d)' /\ ~Canceled(d)' /\ CancelsOnce(d)'
  BY Zenon, <1>0, <1>2, <1>s, NewRemembers
<1>11. Memory'
  BY Zenon, <1>0, <1>2, <1>3, <1>10, MemoryKeeps DEF IInv
<1>12. Answers'
  <2>1. ~Canceled(d)
    BY Zenon, <1>0 DEF Canceled
  <2>2. ASSUME NEW c \in Cancels, can'[c].pc = "canceled" PROVE can[c].pc = "canceled" /\ can'[c].awaits = can[c].awaits
    BY Zenon, <1>3, <1>z, <2>2
  <2> QED
    BY Zenon, <1>0, <1>2, <1>5, <1>s, <1>10, <2>1, <2>2, AnswersKeep DEF IInv
<1> QED
  BY Zenon, <1>4, <1>7, <1>8, <1>9, <1>11, <1>12 DEF Ownership, IInv

-----------------------------------------------------------------------------
(* The invariant, and what follows from it. *)

\* The invariant holds of a manager with nothing published.
LEMMA InvInit == Init => IInv
<1> SUFFICES ASSUME Init PROVE IInv
  BY Zenon
<1>1. TypeOK
  BY Zenon, TypeInit
<1>2. \A w \in Runs : /\ run[w].stage = "off" /\ run[w].last = NoTask /\ run[w].result = "none"
                      /\ run[w].consumer = "off" /\ run[w].event = "none" /\ run[w].done = FALSE
  BY Zenon DEF Init, NewRun
<1>3. /\ \A r \in Requests : req[r].pc = "idle" /\ r \in Runs
      /\ \A c \in Cancels : can[c].pc = "idle" /\ can[c].on = None /\ c \in Runs
      /\ \A t \in Tasks : executions[t] = None /\ cancelations[t] = None /\ store[t] = NoTask
  BY Zenon DEF Init, Runs
<1>4. Ownership
  BY Zenon, <1>2, <1>3 DEF Ownership, OwnsExecution, OwnsCancelation, OwnedTask, Live, Before
<1>5. Memory
  <2>1. ASSUME NEW w \in Runs PROVE Remembers(w)
    BY Zenon, <1>2 DEF Remembers
  <2>2. ASSUME NEW c \in Cancels PROVE CancelsOnce(c)
    BY Zenon, <1>2, <1>3 DEF CancelsOnce
  <2> QED
    BY Zenon, <1>3, <2>1, <2>2 DEF Memory
<1>6. Answers
  BY Zenon, <1>2, <1>3 DEF Answers, Canceled
<1> QED
  BY Zenon, <1>1, <1>4, <1>5, <1>6 DEF IInv

\* What a step of the manager is: a call moves, a run moves, or a run is
\* published, started or cleaned up.
LEMMA StepKind ==
    ASSUME IInv, Next
    PROVE  \/ \E r \in Requests : CallMoves(r) \/ (createExecution(r) /\ Admitted(r)) \/ Spawn(r) \/ cleanupExecution(r)
           \/ \E c \in Cancels : WaitMoves(c) \/ cleanupCancelation(c) \/ \E t \in Tasks : Published(c, t)
           \/ \E w \in Runs : Kinds(w)
<1>0. TypeOK /\ Ownership /\ Memory
  BY Zenon DEF IInv
<1>1. ASSUME NEW r \in Requests, ExecuteStep(r) \/ TimedOut(r) \/ \E t \in Tasks, fresh \in BOOLEAN : SendMessage(r, t, fresh)
      PROVE  CallMoves(r) \/ (createExecution(r) /\ Admitted(r)) \/ Spawn(r)
  BY Zenon, <1>0, <1>1, ExecuteMoves DEF ExecuteStep
<1>2. ASSUME NEW c \in Cancels, Answered(c) \/ GiveUp(c) PROVE WaitMoves(c)
  BY Zenon, <1>0, <1>2, CancelMoves
<1>3. ASSUME NEW c \in Cancels, NEW t \in Tasks, Cancel(c, t) PROVE WaitMoves(c) \/ Published(c, t)
  <2>1. CASE cancelations[t] # None
    BY Zenon, <1>0, <1>3, <2>1, CancelMoves
  <2>2. CASE cancelations[t] = None
    BY Zenon, <1>3, <2>2 DEF Cancel, Published
  <2> QED
    BY Zenon, <2>1, <2>2
<1>4. ASSUME NEW w \in Runs, HandlerStep(w) \/ ProducerStep(w) \/ ConsumerStep(w)
      PROVE  Kinds(w) \/ (w \in Requests /\ cleanupExecution(w)) \/ (w \in Cancels /\ cleanupCancelation(w))
  BY Zenon, <1>0, <1>4, RunKind
<1> QED
  BY Zenon, <1>1, <1>2, <1>3, <1>4 DEF Next

\* Every step keeps the invariant.
LEMMA InvStep == IInv /\ [Next]_vars => IInv'
<1> SUFFICES ASSUME IInv, [Next]_vars PROVE IInv'
  BY Zenon
<1>1. CASE UNCHANGED vars
  <2>1. TypeOK'
    BY Zenon, <1>1 DEF vars, IInv, TypeOK
  <2>2. Ownership'
    BY Zenon, <1>1 DEF vars, IInv, Ownership, OwnsExecution, OwnsCancelation, OwnedTask
  <2>3. Memory'
    BY Zenon, <1>1 DEF vars, IInv, Memory, Remembers, CancelsOnce
  <2>4. Answers'
    BY Zenon, <1>1 DEF vars, IInv, Answers, Canceled, Settled
  <2> QED
    BY Zenon, <2>1, <2>2, <2>3, <2>4 DEF IInv
<1>2. ASSUME NEW w \in Runs, Kinds(w) PROVE IInv'
  BY Zenon, <1>2, KindType, KindOwnership, KindMemory, KindAnswers DEF IInv
<1> QED
  BY Zenon, <1>1, <1>2, StepKind, CallKeeps, CreateKeeps, SpawnKeeps, CleanupExecutionKeeps,
     WaitKeeps, CleanupCancelationKeeps, PublishedKeeps

\* The invariant holds in every state.
LEMMA Invariant == Spec => []IInv
<1>1. Init => IInv
  BY Zenon, InvInit
<1>2. IInv /\ [Next]_vars => IInv'
  BY Zenon, InvStep
<1> QED
  BY <1>1, <1>2, PTL DEF Spec

\* Every variable of the execution manager keeps its type.
THEOREM TaskTypeCorrect == Spec => []TypeOK
<1>1. IInv => TypeOK
  BY Zenon DEF IInv
<1> QED
  BY <1>1, Invariant, PTL

\* An execution, or a cancelation that runs on its own, remembers the stored
\* version of its task until it is cleaned up: whatever the interleaving of
\* executions, cancelations and their goroutines, the store's check for
\* concurrent modification never fails.
THEOREM OneWriter == Spec => []SingleWriter
<1>1. IInv => SingleWriter
  <2> SUFFICES ASSUME IInv, NEW w \in Runs, Active(w) PROVE run[w].last = store[run[w].tid]
    BY Zenon DEF SingleWriter
  <2>1. Remembers(w)
    BY Zenon DEF IInv, Memory
  <2> QED
    BY Zenon, <2>1 DEF Remembers, Active
<1> QED
  BY <1>1, Invariant, PTL

\* A task that a call of Cancel was told is canceled is canceled, and no later
\* execution of it changes that.
THEOREM CanceledStays == Spec => []AnswerStands
<1>1. IInv => AnswerStands
  <2> SUFFICES ASSUME IInv, NEW c \in Cancels, can[c].pc = "canceled"
               PROVE  store[run[can[c].awaits].tid].state = "canceled"
    BY Zenon DEF AnswerStands
  <2>1. Canceled(can[c].awaits) /\ can[c].awaits \in Runs
    BY Zenon DEF IInv, Answers, Ownership, OwnsCancelation, Runs
  <2> QED
    BY Zenon, <2>1 DEF IInv, Answers, Settled
<1> QED
  BY <1>1, Invariant, PTL

=============================================================================
