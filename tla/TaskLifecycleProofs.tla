------------------------ MODULE TaskLifecycleProofs -------------------------
(***************************************************************************)
(* The execution manager implements TaskLifecycle, and its limiter counts  *)
(* its executions exactly, for any number of tasks, requests and           *)
(* cancelations, and every limit.                                          *)
(***************************************************************************)
EXTENDS TaskExecProofs, FiniteSetTheorems

(* The manager implements TaskLifecycle. *)

\* The task t is held.
HeldAt(t) ==
    \/ executions[t] # None /\ (Finished(t) => run[executions[t]].last = store[t])
    \/ cancelations[t] # None /\ can[cancelations[t]].on = None /\ ~Finished(t)

\* A step that changes no status, and lets go of one task at most or takes one
\* that is not finished, is a step of TaskLifecycle or a stutter.
LEMMA TakeOrRelease ==
    ASSUME NEW t \in Tasks, \A u \in Tasks : store'[u].state = store[u].state,
           \A u \in Tasks \ {t} : HeldAt(u)' <=> HeldAt(u),
           HeldAt(t)' => HeldAt(t) \/ ~Finished(t)
    PROVE  [Lifecycle!Next]_(Lifecycle!vars)
<1> DEFINE status == [u \in Tasks |-> store[u].state]
<1>1. status' = status /\ status[t] = store[t].state
  BY Zenon
<1>2. Held = { u \in Tasks : HeldAt(u) } /\ Held' = { u \in Tasks : HeldAt(u)' }
  BY Zenon DEF Held, HeldAt
<1>3. CASE HeldAt(t)' <=> HeldAt(t)
  <2>1. Held' = Held
    BY Zenon, <1>2, <1>3
  <2> QED
    BY Zenon, <1>1, <2>1 DEF Lifecycle!vars
<1>4. CASE HeldAt(t)' /\ ~HeldAt(t)
  <2>1. t \notin Held /\ Held' = Held \cup {t} /\ ~Finished(t)
    BY Zenon, <1>2, <1>4
  <2> QED
    BY Zenon, <1>1, <2>1 DEF Lifecycle!Next, Lifecycle!Take, Lifecycle!Terminal, Finished, Terminal
<1>5. CASE ~HeldAt(t)' /\ HeldAt(t)
  <2>1. t \in Held /\ Held' = Held \ {t}
    BY Zenon, <1>2, <1>5
  <2> QED
    BY Zenon, <1>1, <2>1 DEF Lifecycle!Next, Lifecycle!Release
<1> QED
  BY Zenon, <1>3, <1>4, <1>5

\* A step that stores one task's status.
LEMMA StoreStatus ==
    ASSUME TypeOK, NEW t \in Tasks, NEW l \in Stored, store' = [store EXCEPT ![t] = l]
    PROVE  /\ [u \in Tasks |-> store[u].state]' = [[u \in Tasks |-> store[u].state] EXCEPT ![t] = l.state]
           /\ store'[t] = l /\ \A u \in Tasks \ {t} : store'[u] = store[u]
BY Zenon DEF TypeOK

\* The runs that publish a task, and what they remember, decide whether it is held.
LEMMA HeldSame ==
    ASSUME NEW u \in Tasks, store'[u] = store[u], executions'[u] = executions[u], cancelations'[u] = cancelations[u],
           executions[u] # None => run'[executions[u]].last = run[executions[u]].last,
           cancelations[u] # None => can'[cancelations[u]].on = can[cancelations[u]].on
    PROVE  HeldAt(u)' <=> HeldAt(u)
BY Zenon DEF HeldAt, Finished

\* A step of a run that stores no new status changes neither what is stored of a
\* task nor whether it is held.
LEMMA QuietKind ==
    ASSUME IInv, NEW w \in Runs, Kinds(w), ~Writes(w), NEW t \in Tasks
    PROVE  store'[t].state = store[t].state /\ (HeldAt(t)' <=> HeldAt(t))
<1> DEFINE a == run[w].tid
<1>0. /\ TypeOK /\ Ownership /\ Memory /\ executions' = executions /\ cancelations' = cancelations /\ can' = can
      /\ \A v \in Runs : v # w => run'[v].last = run[v].last
  BY Zenon DEF IInv, Kinds, outside, manager, Moves, OnlyRun, SameRun
<1>1. executions[t] \in Requests \cup {None} /\ (executions[t] # None => executions[t] \in Runs /\ run[executions[t]].tid = t)
  BY <1>0 DEF TypeOK, Runs, Ownership, OwnedTask
<1>2. Remembers(w) /\ (w \in Requests => OwnsExecution(w)) /\ (w \in Cancels => OwnsCancelation(w))
  BY Zenon, <1>0 DEF Memory, Ownership
<1>3. CASE store' = store /\ run'[w].last = run[w].last
  BY Zenon, <1>0, <1>1, <1>3, HeldSame
<1>4. CASE w \in Cancels /\ store' = store
  <2>1. executions[t] # w
    BY Zenon, <1>1, <1>4, NamesAssumption
  <2> QED
    BY Zenon, <1>0, <1>1, <1>4, <2>1, HeldSame
<1>5. ASSUME w \in Requests, run[w].stage \in Live, ~Finished(a),
             \/ store' = store
             \/ \E l \in Stored : l.state = store[a].state /\ store' = [store EXCEPT ![a] = l]
      PROVE  store'[t].state = store[t].state /\ (HeldAt(t)' <=> HeldAt(t))
  <2>1. a \in Tasks /\ executions[a] = w
    BY Zenon, <1>2, <1>5 DEF OwnsExecution, Live, Before
  <2>2. store'[a].state = store[a].state /\ \A u \in Tasks \ {a} : store'[u] = store[u]
    BY <1>0, <1>5, <2>1, StoreStatus, Zenon
  <2>3. CASE t = a
    BY Zenon, <1>0, <1>5, <2>1, <2>2, <2>3 DEF HeldAt, Finished
  <2>4. CASE t # a
    <3>1. executions[t] # w
      BY Zenon, <1>1, <2>4, NamesAssumption DEF Runs
    <3> QED
      BY Zenon, <1>0, <1>1, <2>2, <2>4, <3>1, HeldSame
  <2> QED
    BY Zenon, <2>3, <2>4
<1>6. CASE Fails(w)
  <2>1. CASE run[w].stage = "history"
    <3>1. w \in Requests /\ run[w].last = store[a] /\ ~Finished(a)
      BY Zenon, <1>2, <2>1 DEF Remembers, OwnsCancelation, Runs, Resumable, Finished
    <3> QED
      BY Zenon, <1>5, <1>6, <2>1, <3>1 DEF Fails, Live
  <2>2. CASE run[w].stage # "history"
    <3>1. run[w].last = NoTask
      BY Zenon, <1>2, <1>6, <2>2 DEF Remembers, Fails, Before
    <3> QED
      BY Zenon, <1>3, <1>6, <2>2, <3>1 DEF Fails, Stages
  <2> QED
    BY Zenon, <2>1, <2>2
<1>7. CASE Begins(w)
  <2>1. CASE w \in Cancels
    BY Zenon, <1>4, <1>7, <2>1, NamesAssumption DEF Begins
  <2>2. CASE w \in Requests /\ run[w].stage = "setup"
    <3>1. store[a].state = "none" /\ store' = store
      BY Zenon, <1>7, <2>2, NamesAssumption DEF Begins
    <3> QED
      BY Zenon, <1>5, <2>2, <3>1 DEF Finished, Terminal, Live, Before
  <2>3. CASE w \in Requests /\ run[w].stage = "history"
    <3>1. run[w].last = store[a] /\ ~Finished(a)
      BY Zenon, <1>2, <2>3 DEF Remembers, Resumable, Finished
    <3>2. \E l \in Stored : l.state = store[a].state /\ store' = [store EXCEPT ![a] = l]
      BY Zenon, <1>7, <2>3, <3>1, NamesAssumption DEF Begins
    <3> QED
      BY <1>5, <2>3, <3>1, <3>2, Zenon DEF Live
  <2> QED
    BY Zenon, <1>7, <2>1, <2>2, <2>3 DEF Begins
<1>8. CASE TakesUp(w)
  <2>1. w \in Requests /\ run[w].stage \in Live /\ ~Finished(a) /\ store' = store
    BY Zenon, <1>8 DEF TakesUp, Resumable, Finished, Live, Before
  <2> QED
    BY <1>5, <2>1, Zenon
<1>9. CASE Ends(w) \/ Shares(w) \/ Works(w) \/ Reads(w) \/ Goes(w)
  BY Zenon, <1>3, <1>9 DEF Ends, Shares, Works, Reads, Goes, Stages, Signals, Produces, Consumes
<1> QED
  BY Zenon, <1>6, <1>7, <1>8, <1>9 DEF Kinds

\* What a run stores, it stores of a task it holds: an execution moves it on, or
\* fails it, and holds it still; a cancelation finishes it and lets go.
LEMMA WritesLifecycle ==
    ASSUME IInv, NEW w \in Runs, Kinds(w), Writes(w), NEW a, a = run[w].tid
    PROVE  Lifecycle!Next
<1> DEFINE status == [u \in Tasks |-> store[u].state]
<1>0. /\ TypeOK /\ Ownership /\ Memory /\ executions' = executions /\ cancelations' = cancelations /\ can' = can
      /\ \A v \in Runs : v # w => run'[v].last = run[v].last
  BY Zenon DEF IInv, Kinds, outside, manager, Moves, OnlyRun, SameRun
<1>1. PICK s \in Statuses \ {"none"} :
         /\ Saves(w, s)
         /\ w \in Cancels => s \in Terminal /\ run[w].last.state \notin Terminal
         /\ run[w].last.state \in Terminal => s = "failed"
  BY Zenon DEF Writes
<1>2. run[w].stage = "running" /\ Remembers(w) /\ (w \in Requests => OwnsExecution(w)) /\ (w \in Cancels => OwnsCancelation(w))
  BY Zenon, <1>0 DEF Writes, Memory, Ownership
<1>3. a \in Tasks /\ run[w].last = store[a]
  BY Zenon, <1>2 DEF Remembers, OwnsExecution, OwnsCancelation, Runs
<1>4. Version(w, s) \in Stored /\ Version(w, s).state = s
  BY Zenon, <1>0, <1>1, VersionType DEF Version
<1>5. PICK l \in Stored : l.state = s /\ store' = [store EXCEPT ![a] = l] /\ run'[w].last = l
  BY <1>1, <1>4, Zenon DEF Saves
<1>6. status' = [status EXCEPT ![a] = s] /\ store'[a] = l /\ \A u \in Tasks \ {a} : store'[u] = store[u]
  <2>1. store \in [Tasks -> Stored]
    BY Zenon, <1>0 DEF TypeOK
  <2> QED
    BY <1>3, <1>5, <2>1, Zenon
<1>7. status[a] = store[a].state
  BY Zenon, <1>3
<1>8. Held = { u \in Tasks : HeldAt(u) } /\ Held' = { u \in Tasks : HeldAt(u)' }
  BY Zenon DEF Held, HeldAt
<1>9. ASSUME NEW u \in Tasks \ {a} PROVE HeldAt(u)' <=> HeldAt(u)
  <2>1. executions[u] # None => executions[u] \in Runs /\ executions[u] # w
    BY <1>0, <1>9 DEF TypeOK, Runs, Ownership, OwnedTask
  <2> QED
    BY Zenon, <1>0, <1>6, <2>1, HeldSame
<1>10. CASE w \in Requests
  <2>1. executions[a] = w /\ w # None
    BY Zenon, <1>2, <1>10, NamesAssumption DEF OwnsExecution, Live
  <2>2. HeldAt(a) /\ HeldAt(a)'
    BY Zenon, <1>0, <1>3, <1>5, <1>6, <2>1 DEF HeldAt
  <2>3. Held' = Held /\ a \in Held
    BY Zenon, <1>3, <1>8, <1>9, <2>2
  <2>4. CASE store[a].state \notin Terminal
    <3>1. Lifecycle!Move(a)
      BY <1>6, <1>7, <2>3, <2>4, Zenon DEF Lifecycle!Move, Lifecycle!Terminal, Lifecycle!States, Terminal, Statuses
    <3> QED
      BY Zenon, <1>3, <3>1 DEF Lifecycle!Next
  <2>5. CASE store[a].state \in Terminal
    <3>1. s = "failed"
      BY Zenon, <1>1, <1>3, <2>5
    <3>2. Lifecycle!Spoil(a)
      BY Zenon, <1>6, <1>7, <2>3, <2>5, <3>1 DEF Lifecycle!Spoil, Lifecycle!Terminal, Terminal
    <3> QED
      BY Zenon, <1>3, <3>2 DEF Lifecycle!Next
  <2> QED
    BY Zenon, <2>4, <2>5
<1>11. CASE w \in Cancels
  <2>1. cancelations[a] = w /\ can[w].on = None /\ w # None
    BY Zenon, <1>2, <1>11, NamesAssumption DEF OwnsCancelation, Live
  <2>2. executions[a] = None
    BY Zenon, <1>0, <1>3, <2>1 DEF Ownership, OwnedTask
  <2>3. s \in Terminal /\ store[a].state \notin Terminal
    BY Zenon, <1>1, <1>3, <1>11
  <2>4. HeldAt(a) /\ ~HeldAt(a)'
    BY Zenon, <1>0, <1>5, <1>6, <2>1, <2>2, <2>3 DEF HeldAt, Finished, Terminal
  <2>5. a \in Held /\ Held' = Held \ {a}
    BY Zenon, <1>3, <1>8, <1>9, <2>4
  <2>6. Lifecycle!Finish(a)
    BY Zenon, <1>6, <1>7, <2>3, <2>5 DEF Lifecycle!Finish, Lifecycle!Terminal, Terminal
  <2> QED
    BY Zenon, <1>3, <2>6 DEF Lifecycle!Next
<1> QED
  BY Zenon, <1>10, <1>11 DEF Runs

\* Publishing and cleaning up take a task that is not finished, or let one go.
LEMMA PublishLifecycle ==
    ASSUME IInv, NEW w \in Runs, NEW t \in Tasks, OnlyRun(w), store' = store,
           \A u \in Tasks \ {t} : executions'[u] = executions[u] /\ cancelations'[u] = cancelations[u],
           \A c \in Cancels : c # w => can'[c].on = can[c].on,
           run[w].stage = "off" \/ run[w].tid = t,
           HeldAt(t)' => HeldAt(t) \/ ~Finished(t)
    PROVE  [Lifecycle!Next]_(Lifecycle!vars)
<1>1. ASSUME NEW u \in Tasks \ {t} PROVE HeldAt(u)' <=> HeldAt(u)
  <2>1. OwnedTask(u) /\ executions[u] \in Requests \cup {None} /\ cancelations[u] \in Cancels \cup {None}
    BY Zenon DEF IInv, TypeOK, Ownership
  <2>2. executions[u] # None => executions[u] \in Runs /\ executions[u] # w
    BY Zenon, <2>1 DEF OwnedTask, Runs, Live, Before
  <2>3. cancelations[u] # None => cancelations[u] \in Cancels /\ cancelations[u] # w
    BY Zenon, <2>1 DEF OwnedTask, Live, Before
  <2>4. executions[u] # None => run'[executions[u]].last = run[executions[u]].last
    BY Zenon, <2>2 DEF OnlyRun, SameRun
  <2> QED
    BY Zenon, <2>3, <2>4, HeldSame
<1> QED
  BY Zenon, <1>1, TakeOrRelease

\* Every step of the manager is a step of TaskLifecycle or changes nothing of it.
LEMMA LifecycleStep == IInv /\ [Next]_vars => [Lifecycle!Next]_(Lifecycle!vars)
<1> SUFFICES ASSUME IInv, [Next]_vars PROVE [Lifecycle!Next]_(Lifecycle!vars)
  BY Zenon
<1>0. TypeOK /\ Ownership
  BY Zenon DEF IInv
<1>1. CASE UNCHANGED vars
  BY Zenon, <1>1 DEF vars, Lifecycle!vars, Held, Finished
<1>2. ASSUME NEW r \in Requests, CallMoves(r) PROVE UNCHANGED Lifecycle!vars
  BY Zenon, <1>2 DEF CallMoves, manager, Lifecycle!vars, Held, Finished
<1>3. ASSUME NEW r \in Requests, createExecution(r), Admitted(r), NEW t, t = req[r].tid
      PROVE  [Lifecycle!Next]_(Lifecycle!vars)
  <2>1. /\ t \in Tasks /\ run[r].stage = "off" /\ executions[t] = None /\ cancelations[t] = None
        /\ UNCHANGED <<cancelations, store, can>> /\ r \in Runs
    BY Zenon, <1>0, <1>3 DEF createExecution, Creating, Admitted, Ownership, OwnsExecution, Runs
  <2>2. executions' = [executions EXCEPT ![t] = r] /\ run' = [run EXCEPT ![r] = NewRun(t, "new")]
    BY Zenon, <1>3 DEF createExecution
  <2>3. OnlyRun(r) /\ run'[r].last = NoTask
    BY <1>0, <2>1, <2>2, NewMove, Zenon DEF NewAt
  <2>4. executions'[t] = r /\ \A u \in Tasks \ {t} : executions'[u] = executions[u] /\ cancelations'[u] = cancelations[u]
    BY Zenon, <1>0, <2>1, <2>2 DEF TypeOK
  <2>5. HeldAt(t)' => HeldAt(t) \/ ~Finished(t)
    BY <2>1, <2>3, <2>4 DEF HeldAt, Finished, NoTask, Terminal
  <2> QED
    BY Zenon, <2>1, <2>3, <2>4, <2>5, PublishLifecycle
<1>4. ASSUME NEW r \in Requests, Spawn(r), NEW t, t = req[r].tid PROVE [Lifecycle!Next]_(Lifecycle!vars)
  <2>1. t \in Tasks /\ r \in Runs /\ UNCHANGED <<executions, cancelations, store, can>>
    BY Zenon, <1>0, <1>4 DEF Spawn, manager, Runs, Ownership, OwnsExecution
  <2>2. OnlyRun(r) /\ run'[r].last = run[r].last
    BY <1>0, <1>4, <2>1, SpawnMove, Zenon DEF Spawn, Moves, Stages
  <2>3. ASSUME NEW u \in Tasks PROVE HeldAt(u)' <=> HeldAt(u)
    <3>1. executions[u] # None => executions[u] \in Runs
      BY Zenon, <1>0 DEF TypeOK, Runs
    <3>2. executions[u] # None => run'[executions[u]].last = run[executions[u]].last
      BY Zenon, <2>2, <3>1 DEF OnlyRun, SameRun
    <3> QED
      BY Zenon, <2>1, <3>2, HeldSame
  <2> QED
    BY Zenon, <2>1, <2>3, TakeOrRelease
<1>5. ASSUME NEW r \in Requests, cleanupExecution(r), NEW t, t = run[r].tid PROVE [Lifecycle!Next]_(Lifecycle!vars)
  <2>1. t \in Tasks /\ executions[t] = r /\ r # None /\ r \in Runs /\ UNCHANGED <<cancelations, store, can>>
    BY Zenon, <1>0, <1>5, NamesAssumption DEF cleanupExecution, Runs, Ownership, OwnsExecution, Live
  <2>2. OnlyRun(r)
    BY Zenon, <1>0, <1>5, <2>1, OverMove DEF cleanupExecution
  <2>3. executions'[t] = None /\ \A u \in Tasks \ {t} : executions'[u] = executions[u] /\ cancelations'[u] = cancelations[u]
    BY Zenon, <1>0, <1>5, <2>1 DEF cleanupExecution, TypeOK
  <2>4. cancelations[t] # None => can[cancelations[t]].on # None
    BY Zenon, <1>0, <2>1 DEF Ownership, OwnedTask
  <2>5. ~HeldAt(t)'
    BY Zenon, <2>1, <2>3, <2>4 DEF HeldAt
  <2> QED
    BY Zenon, <1>5, <2>1, <2>2, <2>3, <2>5, PublishLifecycle
<1>6. ASSUME NEW c \in Cancels, WaitMoves(c) PROVE [Lifecycle!Next]_(Lifecycle!vars)
  <2>1. UNCHANGED <<executions, cancelations, store, run>> /\ \A d \in Cancels : can'[d].on = can[d].on
    BY Zenon, <1>6 DEF WaitMoves, manager
  <2>2. \A t \in Tasks : cancelations[t] # None => can'[cancelations[t]].on = can[cancelations[t]].on
    BY Zenon, <1>0, <2>1 DEF TypeOK
  <2>3. \A t \in Tasks : HeldAt(t)' <=> HeldAt(t)
    BY Zenon, <2>1, <2>2, HeldSame
  <2>4. Held' = Held
    BY Zenon, <2>3 DEF Held, HeldAt
  <2> QED
    BY Zenon, <2>1, <2>4 DEF Lifecycle!vars
<1>7. ASSUME NEW c \in Cancels, cleanupCancelation(c), NEW t, t = run[c].tid PROVE [Lifecycle!Next]_(Lifecycle!vars)
  <2>1. t \in Tasks /\ cancelations[t] = c /\ c # None /\ c \in Runs /\ UNCHANGED <<executions, store, can>>
    BY Zenon, <1>0, <1>7, NamesAssumption DEF cleanupCancelation, Runs, Ownership, OwnsCancelation, Live
  <2>2. OnlyRun(c)
    BY Zenon, <1>0, <1>7, <2>1, OverMove DEF cleanupCancelation
  <2>3. cancelations'[t] = None /\ \A u \in Tasks \ {t} : executions'[u] = executions[u] /\ cancelations'[u] = cancelations[u]
    BY Zenon, <1>0, <1>7, <2>1 DEF cleanupCancelation, TypeOK
  <2>4. executions[t] # None => executions[t] \in Runs /\ executions[t] # c
    BY Zenon, <1>0, <2>1, NamesAssumption DEF TypeOK, Runs
  <2>5. executions[t] # None => run'[executions[t]].last = run[executions[t]].last
    BY Zenon, <2>2, <2>4 DEF OnlyRun, SameRun
  <2>6. HeldAt(t)' => HeldAt(t)
    BY Zenon, <2>1, <2>3, <2>5 DEF HeldAt, Finished
  <2> QED
    BY Zenon, <1>7, <2>1, <2>2, <2>3, <2>6, PublishLifecycle
<1>8. ASSUME NEW c \in Cancels, NEW t \in Tasks, Published(c, t) PROVE [Lifecycle!Next]_(Lifecycle!vars)
  <2>1. run[c].stage = "off" /\ cancelations[t] = None /\ c \in Runs /\ c # None /\ UNCHANGED <<executions, store>>
    BY Zenon, <1>0, <1>8, NamesAssumption DEF Published, Runs, Ownership, OwnsCancelation
  <2>2. OnlyRun(c)
    <3>1. run' = [run EXCEPT ![c] = NewRun(t, IF executions[t] = None THEN "setup" ELSE "signal")]
      BY Zenon, <1>8 DEF Published
    <3> QED
      BY <1>0, <2>1, <3>1, NewMove, Zenon
  <2>3. cancelations'[t] = c /\ \A u \in Tasks \ {t} : executions'[u] = executions[u] /\ cancelations'[u] = cancelations[u]
    BY Zenon, <1>0, <1>8, <2>1 DEF Published, TypeOK
  <2>4. can'[c].on = executions[t] /\ \A d \in Cancels : d # c => can'[d].on = can[d].on
    BY Zenon, <1>0, <1>8 DEF Published, TypeOK
  <2>5. executions[t] # None => executions[t] \in Runs /\ executions[t] # c
    BY Zenon, <1>0, <2>1, NamesAssumption DEF TypeOK, Runs
  <2>6. executions[t] # None => run'[executions[t]].last = run[executions[t]].last
    BY Zenon, <2>2, <2>5 DEF OnlyRun, SameRun
  <2>7. HeldAt(t)' => HeldAt(t) \/ ~Finished(t)
    BY Zenon, <2>1, <2>3, <2>4, <2>6 DEF HeldAt, Finished
  <2> QED
    BY Zenon, <2>1, <2>2, <2>3, <2>4, <2>7, PublishLifecycle
<1>9. ASSUME NEW w \in Runs, Kinds(w) PROVE [Lifecycle!Next]_(Lifecycle!vars)
  <2>1. CASE Writes(w)
    BY Zenon, <1>9, <2>1, WritesLifecycle
  <2>2. CASE ~Writes(w)
    <3>1. \A t \in Tasks : store'[t].state = store[t].state /\ (HeldAt(t)' <=> HeldAt(t))
      BY Zenon, <1>9, <2>2, QuietKind
    <3>2. Held' = Held
      BY Zenon, <3>1 DEF Held, HeldAt
    <3> QED
      BY Zenon, <3>1, <3>2 DEF Lifecycle!vars
  <2> QED
    BY Zenon, <2>1, <2>2
<1> QED
  BY Zenon, <1>1, <1>2, <1>3, <1>4, <1>5, <1>6, <1>7, <1>8, <1>9, StepKind

\* The execution manager implements TaskLifecycle: a task is changed only by the
\* execution or the cancelation that holds it, and the terminal status a run
\* leaves behind is never changed again.
THEOREM LifecycleKept == Spec => KeepsLifecycle
<1>1. Init => Lifecycle!Init
  BY DEF Init, Lifecycle!Init, Held, NoTask
<1>2. IInv /\ [Next]_vars => [Lifecycle!Next]_(Lifecycle!vars)
  BY Zenon, LifecycleStep
<1> QED
  BY <1>1, <1>2, Invariant, PTL DEF Spec, KeepsLifecycle, Lifecycle!Spec

-----------------------------------------------------------------------------
(* The quota. *)

\* A step that publishes no execution and removes none leaves the quota alone.
LEMMA QuotaSame ==
    ASSUME IInv, [Next]_vars,
           \A r \in Requests : ~(createExecution(r) /\ Admitted(r)) /\ ~cleanupExecution(r)
    PROVE  UNCHANGED <<executions, quota>>
<1>1. CASE UNCHANGED vars
  BY Zenon, <1>1 DEF vars
<1>2. ASSUME NEW r \in Requests, CallMoves(r) \/ Spawn(r) PROVE UNCHANGED <<executions, quota>>
  BY Zenon, <1>2 DEF CallMoves, Spawn, manager
<1>3. ASSUME NEW c \in Cancels, WaitMoves(c) \/ cleanupCancelation(c) \/ \E t \in Tasks : Published(c, t)
      PROVE  UNCHANGED <<executions, quota>>
  BY Zenon, <1>3 DEF WaitMoves, cleanupCancelation, Published, manager
<1>4. ASSUME NEW w \in Runs, Kinds(w) PROVE UNCHANGED <<executions, quota>>
  BY Zenon, <1>4 DEF Kinds, outside, manager
<1> QED
  BY Zenon, <1>1, <1>2, <1>3, <1>4, StepKind

\* The limiter's count moves with the published executions.
LEMMA QuotaStep == IInv /\ QuotaExact /\ [Next]_vars => QuotaExact'
<1> SUFFICES ASSUME IInv, QuotaExact, [Next]_vars PROVE QuotaExact'
  BY Zenon
<1> DEFINE P == { t \in Tasks : executions[t] # None }
<1>0. IsFiniteSet(P) /\ Cardinality(P) \in Nat /\ quota = Cardinality(P) /\ (MaxExecutions > 0 => quota <= MaxExecutions)
  BY Zenon, NamesAssumption, FS_Subset, FS_CardinalityType DEF QuotaExact
<1>1. CASE UNCHANGED <<executions, quota>>
  BY Zenon, <1>1 DEF QuotaExact
<1>2. ASSUME NEW r \in Requests, createExecution(r), Admitted(r) PROVE QuotaExact'
  <2> DEFINE t == req[r].tid
  <2>1. t \in Tasks /\ executions[t] = None /\ executions' = [executions EXCEPT ![t] = r] /\ quota' = quota + 1 /\ r # None
    BY Zenon, <1>2, NamesAssumption DEF createExecution, Creating, IInv, Ownership, OwnsExecution
  <2>2. P' = P \cup {t} /\ t \notin P
    BY Zenon, <2>1 DEF IInv, TypeOK
  <2>3. Cardinality(P') = Cardinality(P) + 1
    BY Zenon, <1>0, <2>2, FS_AddElement
  <2>4. MaxExecutions > 0 => quota < MaxExecutions
    BY <1>2, LimitsAssumption DEF Admitted, QuotaLeft
  <2>5. MaxExecutions > 0 => quota' <= MaxExecutions
    BY <1>0, <2>1, <2>4, LimitsAssumption
  <2> QED
    BY Zenon, <1>0, <2>1, <2>3, <2>5 DEF QuotaExact
<1>3. ASSUME NEW r \in Requests, cleanupExecution(r) PROVE QuotaExact'
  <2> DEFINE t == run[r].tid
  <2>1. t \in Tasks /\ executions[t] = r /\ executions' = [executions EXCEPT ![t] = None] /\ quota' = quota - 1 /\ r # None
    BY Zenon, <1>3, NamesAssumption DEF cleanupExecution, IInv, Ownership, OwnsExecution, Live
  <2>2. P' = P \ {t} /\ t \in P
    BY Zenon, <2>1 DEF IInv, TypeOK
  <2>3. \A S : IsFiniteSet(S) /\ t \in S => Cardinality(S \ {t}) = Cardinality(S) - 1
    BY Zenon, FS_RemoveElement
  <2>4. Cardinality(P') = Cardinality(P) - 1
    BY <1>0, <2>2, <2>3, Zenon
  <2> QED
    BY <1>0, <2>1, <2>4, LimitsAssumption DEF QuotaExact
<1> QED
  BY Zenon, <1>1, <1>2, <1>3, QuotaSame

\* The limiter counts the published executions exactly, and never lets more in
\* than MaxExecutions: no way an execution ends releases its place twice or
\* keeps it.
THEOREM QuotaKept == Spec => []QuotaExact
<1>1. Init => QuotaExact
  <2> SUFFICES ASSUME Init PROVE QuotaExact
    BY Zenon
  <2>1. { t \in Tasks : executions[t] # None } = {} /\ quota = 0
    BY Zenon DEF Init
  <2> QED
    BY <2>1, FS_EmptySet, LimitsAssumption DEF QuotaExact
<1>2. IInv /\ QuotaExact /\ [Next]_vars => QuotaExact'
  BY Zenon, QuotaStep
<1> QED
  BY <1>1, <1>2, Invariant, PTL DEF Spec

=============================================================================
