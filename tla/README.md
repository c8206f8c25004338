# A TLA+ verification of mcpkit

mcpkit is a Go toolkit for building MCP servers: a tool registry with middleware,
a dispatcher of tool calls, resilience primitives, a gateway to other servers, a
bridge to the A2A protocol, a pool of git worktrees, a workflow engine and an
autonomous loop with its research-and-development cycle.
This directory holds TLA+ models of its concurrent and crash-prone parts, the TLC
configurations that check them, and TLAPS proofs of their main invariants.

A module of proofs covers one or two components; components that share a module of
proofs name their specifications apart (`BreakerSpec`, `WorkflowSpec`, `CycleSpec`,
`GatewaySpec` beside `Spec`).

Every module is translated from the Go source; `PROJECT.json` maps each definition
to its lines. The models keep the control of the code (guards, early returns, error
paths and critical sections) and abstract its data to what the properties tell apart;
the paths they leave out are listed under *Known gaps*. Definitions whose name contains an underscore (`release_KeepsLast`) are
faulty variants: replacing the definition that follows by one of them must break a
property, which shows that the property looks at that piece of code.

## The system and its inventory

A call enters through a transport, reaches a handler wrapped by
`registry.wrapHandler` (which recovers panics) and by middleware, may be queued by
the dispatcher, may go through a circuit breaker, a cache or the gateway to an
upstream server, and may start long work: an asynchronous task, a workflow run, a
ralph loop, a perpetual cycle.

| Part | State | Operations | What is hard |
|---|---|---|---|
| dispatcher | heap of jobs, group counters, worker states, closed flag, counters | Submit, Shutdown, worker loop | wake-ups, slots given back exactly once, draining, order under saturated groups |
| resilience circuit breaker | state, three counters, time of the last failure | canExecute, recordResult, Reset | results that arrive after the state changed, panicking probes |
| resilience caches | entries, LRU order, one mutex per key | GetOrFetch, Set, Invalidate | single flight while entries expire and are evicted |
| workflow | position, step, state, compensation stack, checkpoint store | Run, Resume | crashes between node and checkpoint, roll-back over resumptions |
| ralph | progress in memory and on disk, breaker, governor | Run, Stop, iterations | an arbitrary model's decisions, crashes, restarts |
| rdcycle | current orchestrator, cycle count, breaker, governor, spec files | start, stop, Run, RunOneCycle | starts that race, failures recorded in some places only |
| gateway | upstreams and their connections, health loops, closed flag, list of dynamic upstreams | AddUpstream, RemoveUpstream, Close, health loop, Add and Remove of the registry | checks made before connecting and used after; loops started after publication; two locks written one after the other |
| worktree pool | idle worktrees per repository, closed flag | Acquire, Release, Warm, Drain, CleanupStale, Close | release and warm racing close, git failing half-way |
| registry tasks, approvals, finops enforcement | task states and results; requests and answers; spend and fired alerts | task middleware and Cancel; submit, respond, poll; check and record | two writers of the final state, an answer racing the timeout, check-then-act across concurrent calls |
| a2a bridge on a2a-go | stored tasks, executions, cancelations, quota, event pipes | Execute, Cancel, the producer and the consumer of a run | a cancelation meeting an execution, waits on one another, the quota on every way out |
| session | sessions with expiry, threads, checkpoints | create, get, refresh, evict, close | refresh of an evicted session |
| lifecycle | status, shutdown hooks | Run, OnShutdown | hooks run beside a server that is not waited for |
| orchestrator | results of parallel stages | FanOut, Pipeline, Swarm | fail-fast with bounded concurrency |

The other packages (transports, bridges, auth, handlers, prompts, resources,
inventories, device, research, commands) are translation, text processing or I/O;
`PROJECT.json` lists them with the reason they are not modelled.

## Modules

**JobHeap, Dispatcher, DispatcherMC, DispatcherProofs** (`dispatcher/`).
`JobHeap` gives `container/heap`'s Push and Remove on the array that `dequeue` scans
(external code, modelled without recursion so that it can be proved about);
`JobHeapMC` writes the same loops out as the library has them and an ASSUME compares
the two on every heap of up to six jobs. `Dispatcher` has three kinds of processes:
callers of Submit, workers and callers of Shutdown. Each critical section of `d.mu`
is one step; between them a worker takes separate steps for starting the handler, its
return, the counters, the send of the result and the release of the group, so that
every interleaving the Go code allows at these points is a behaviour. `sync.Cond` is
the set of workers in state "waiting"; Broadcast makes them "idle".

**CircuitBreaker, ResilienceMC, ResilienceProofs** (`resilience/circuit.go`).
canExecute and recordResult are atomic; the function runs between them and may fail,
succeed or panic (the panic is recovered above, in `registry.wrapHandler`). `age` is
the time since the last failure, cut off at the timeout. Which running call is a
probe of the present half-open period, and how many probes panicked, are history.

**Workflow, WorkflowMC, RunProofs** (`workflow/engine.go`, `compensate.go`).
One run over any number of attempts. A State is abstracted to the target its data
makes the edges choose. A crash may come at every step and loses all but the
checkpoint; a save or a delete may fail; Resume is possible after a crash, a stop, a
failure or a lost delete. `log` records what nodes and compensations did outside.

**KeyedCache, ResilienceMC, ResilienceProofs** (`resilience/cache.go`). get, set, lockFor and
Invalidate are atomic; a call of GetOrFetch is five steps. A fetch returns (a value or
an error, both of which are stored) or panics: then the deferred unlock releases the
key's mutex and nothing is stored. The mutexes are objects, because eviction replaces a
key's mutex while callers hold or wait for the old one. How often a key was fetched,
lost a fresh entry, was evicted or saw its fetch panic is history. `ResilienceMC` checks
breaker and cache, which share no state, in one run: each behaviour moves one of them.

**RalphLoop, RalphLoopMC, RunProofs** (`ralph/`). One action per section of `Loop.Run`: stop and
breaker checks, the sampler with its retries, rejection, completion with the exit
gate, tools, marking and decomposition, recording and saving, the guards. Decisions
are arbitrary. The variable `config`, chosen in Init, holds the options that change
the control (exit gate, forced restart, ...). Progress exists twice, in memory and in
the file; a crash loses the first. SaveProgress writes a temporary file and renames it,
so it takes effect or leaves the file as it was; it may fail at any of its calls, and the
loop ignores that, as the code does. `unsaved` counts the saves of the present Run that
have failed since the last good one, `faults` the crashes and failed saves so far; both
are history. A task id the model names need not be one of the spec's. Run may be called
again, with the old breaker and governor when the process survived.

**RDCycle, RDCycleMC, FleetProofs** (`rdcycle/`). The start and stop tools and any number of
orchestrators, each with its own breaker and governor; a cycle is scan, plan,
synthesis and ralph loop, each of which succeeds or fails. The spec file, named by the
cycle number alone, is the one thing two orchestrators share.

**Gateway, GatewayMC, ServingProofs** (`gateway/gateway.go`, `upstream.go`,
`dynamic.go`). A call of AddUpstream is its first critical section, the connection,
the second critical section with the second look at the name, the start of the health
loop and the entry in the registry's list, each a step of its own; RemoveUpstream and
Close likewise. An upstream and its connection are named by the AddUpstream that made
them, so that two connections under one name can be told apart. `managed`, chosen in
Init, says whether the server goes through DynamicUpstreamRegistry. `late` is
history: the AddUpstreams that were past their test of `closed` when Close came.

**WorktreePool, WorktreePoolMC, FleetProofs** (`worktree/pool.go`). Sessions
acquire, use and release worktrees; keepers warm, drain and clean up the pool; Close
ends it. Each git command and each removal is a step outside the locks and may fail:
a removal that fails, and a `git worktree add` that fails half-way, leave a directory
that the pool has forgotten (`disk` = "left"). A session is taken to release a worktree
once and not to use it afterwards: Release does not check this, and a path released
twice would be idle twice.
Close replaces the map of repoPools, so a call that Close overtook may still hold the
old repoPool, or make a new one: the model has both. `disk` says what each worktree
is on disk, which the pool does not know.

**ToolCalls, ToolCallsMC, ServingProofs** (`registry/tasks/`, `hitools/`,
`finops/enforcement.go`). The composition of three middlewares that the repository
provides to be stacked: a call may run as a task in a goroutine, waits for a human
behind it, and is checked against and recorded in the budget. Cancel of the task,
answers, deadlines and Cleanup come from outside at any step. A call is made again
when it has ended, so behaviours are infinite and every interleaving of two calls,
old and new, is reached. The approval store may fail when it is asked (the call is then
refused), and a policy that blocks keeps the alerts of the policies after it from firing
in Check, though not in RecordCost.

**TaskLifecycle, TaskExec, TaskExecMC, TaskRunProofs, TaskExecProofs, TaskLifecycleProofs**
(`bridge/a2a/executor.go` and the packages of `_reference/a2a-go` that run it). `TaskExec` has the callers of Execute and
Cancel and, per run, its handler, its producer (the tool call) and its consumer, with
the event pipe between the two and the store below. `TaskLifecycle` is the abstract
specification of what the manager keeps to: no run takes a finished task, and only the
run that holds a task changes it. `TaskExec` is checked and proved to implement it under
the mapping that takes the stored states (`Lifecycle`, `KeepsLifecycle`). It is weaker
than the comment on TaskState.Terminal, since a run may still fail the task it has
finished (`Spoil`); the comment is `TerminalImmutable`, which the code violates. The
store may fail to take any task.

## What the runs check

| Run | Instance | Result |
|---|---|---|
| `dispatcher` | 3 calls, 2 workers, 1 shutdown, a group with limit 1, queue of 2 | group counters exact, no job lost or run or answered twice, no lost wake-up, the first job is never overtaken when it may run; every accepted job is run, shutdown completes |
| `resilience` | breaker: 4 calls, thresholds 2, 1 permit; cache: 2 callers, 2 keys, size 1, 4 calls | breaker: permits accounted for, only a panicking probe latches it, a healthy service closes it for good; cache: fetches serialized but for evictions and shared but for evictions, lost entries and panics, calls return |
| `cache_serialized` | the cache of `resilience` | *violated*: after an eviction two fetches of a key run at once |
| `workflow` | a cyclic graph of 3 nodes, 2 compensable, MaxSteps 4, 3 attempts | checkpoint current, compensations in reverse and complete within an attempt, every call returns |
| `ralph_loop` | 2 tasks, one decomposed, 3 iterations, 2 calls of Run, 2 crashes or failed saves | dependency order; at risk are the iteration under way and those whose save failed; outcome on disk unless the last save failed; work bounded over restarts, progress never lost, every Run returns |
| `rdcycle` | 2 orchestrators, 3 cycles, thresholds 2 | failed probes reopen, failures capped, one orchestrator unless starts raced, every orchestrator returns |
| `gateway` | 2 names, 3 adds, 2 removes, 1 close | no connection forgotten, the registry lists published names only, after Close only what Close overtook stays open |
| `worktree_pool` | 4 worktrees, 2 sessions, 1 keeper, pool of 2 | a worktree has one home; before Close none is lost on disk but by a creation or removal that fails |
| `worktree_clean` | the same | *violated*: Acquire hands out the changes of the session before when git fails on Release and again on Acquire |
| `tool_calls` | 2 calls in flight, 1 cancel, limit 2, cost up to 2 | overspend bounded by the calls in flight, no alert missed, every task settles |
| `task_exec` | 2 tasks, 3 requests, 2 cancels, quota 1, 2 tries, pipe of 1 | one writer per task, exact quota, a client told "canceled" is not contradicted by later runs, the abstract lifecycle is kept, every run and every call ends |
| `task_terminal` | the same | *violated*: a canceled task becomes failed when the interrupted tool panics before the cancelation is broadcast |

Each violated property states a sentence of the repository's own comments;
`PROJECT.json` quotes it under `findings`.

### Bounds

* Dispatcher: with a queue of 2 and 3 calls a caller is refused, and the group with
  limit 1 is saturated while another worker idles, which is what the wake-up and
  order properties need. Priorities 0 and 2 include the value the code replaces. `MCBound`
  has calls made in order, and at most one handler fail or caller give up and one urgent
  job at a time: it cuts off alternatives of a step, never all of them. A queue of 2 is
  sifted up on Push and hardly down; deeper heaps, and all that `MCBound` leaves out, are
  covered by the theorems on the safety properties and by JobHeapMC.
* CircuitBreaker: 4 calls let ordinary calls admitted before the breaker opened
  finish in the next half-open period beside its probes; a success threshold above the
  number of permits is the case in which permits have to be returned. The proofs cover
  every other configuration.
* Workflow: the graph has a cycle and a choice; MaxSteps 4 ends some runs and lets
  others complete; 3 attempts are a run and two resumptions.
* KeyedCache: size 1 makes every second key evict; `MaxCalls` bounds the calls of
  GetOrFetch that miss and of Set. With 4 of them a key is fetched, evicted by
  another call and fetched again beside the first. A call that has begun always ends
  within the bound.
* RalphLoop: 3 iterations, breaker thresholds of 2 and 3 and a governor window of 2, so
  that each guard can end the loop; `MaxRuns` is a first run and a restart. `MaxFaults` 2
  is two failed saves in a row, or a failed save and a crash. `MCBound` takes faults only
  without a forced restart (which discards the file they may lose) and with no task done
  in the spec.
* RDCycle: threshold 2 and 3 cycles give a trip, a cooldown and a probe; `MaxStarts`
  2 gives the race of two starts; costs are one below and one above the alarm.
* Gateway: 3 adds on 2 names give a race for a name and a second upstream, 2 removes
  race one another and the adds. `UnhealthyThreshold` 1 lets a single ping change the
  health. Names, adds and removes are symmetric.
* WorktreePool: 4 worktrees fill the pool of 2 and leave 2 in the hands of sessions;
  each worktree is created once, so 4 also bounds the creations.
* ToolCalls: 2 calls are the smallest overspend by concurrency; cost and limit of 2
  let a call reach one threshold, both or the limit.
* TaskExec: two tasks are needed to run into the quota of 1, two cancels to join a
  cancelation in progress, three requests for one to use up its `MaxRetries` (2 here, 3
  in the code) behind the others. `MCBound` explores each of these but no two at once,
  with one cancelation among two requests, and has names used in order. It only keeps calls from coming, and no call is bound to
  come, so it cuts off no step that fairness asks for.

CHECK_DEADLOCK is FALSE where the modelled system may stop: all calls made, the run
ended, the bound on starts reached. The tool calls never stop and are checked for
deadlock.

### Fairness

* Dispatcher: weak fairness of each worker's next step (goroutines run, handlers
  return) and of a caller or closer receiving what has been sent to it.
* CircuitBreaker: calls keep coming, each function returns, the clock advances.
* Workflow: the engine steps on; a node returns at the latest on its timeout.
* KeyedCache: strong fairness of each caller, since Go's mutexes do not starve a
  waiter for ever (starvation mode); fetches return or panic.
* RalphLoop, RDCycle: the loop's goroutine runs; samplers, tools and ralph loops
  return. Neither the cooldown nor a stop is assumed to happen.
* ToolCalls: handlers and the callers of Cancel step on, and tools return. A deadline
  passes (strong fairness of `Expire`): a poll that finds nothing goes back to wait,
  so the wait for the timer is interrupted for ever but never ended by it. No human is
  assumed to answer.
* TaskExec: the goroutines of the manager run, tools return, subscribers read.
  Neither a cancel nor the end of a caller's context is assumed to come.

## What is proved

The theorems hold for every value of the constants under the named assumptions
(finite sets of processes, natural bounds, distinct model values); none restricts a
configuration the code accepts, except where stated. Every safety invariant and every
action property that a passing run checks has a theorem; `PROJECT.json` lists which
states which. The invariants a proof is by induction on are defined at the end of the
component's module, or before their use in the proofs.

**DispatcherProofs** (Dispatcher, JobHeap)

* `TypeCorrect` needs that sifting, Push and Remove return sequences of jobs of the
  right length. `GroupsExact` and `GroupsLimited` come from one inductive invariant:
  `GroupAccounting` (a group's counter is the number of workers that hold a job of it)
  with `GroupBound` (the counter is within the limit). The accounting alone is
  inductive but says nothing of limits; the bound needs the accounting, because the
  floor at 0 in `release` would otherwise hide a lost slot. `WakeupsNotLost` is
  inductive with the type invariant: a step that makes a queued job eligible, or closes
  the dispatcher, also wakes every worker.
* `QueueStaysHeap`: the queue is a heap after every step (`QueueOrdered`).
  `container/heap` has loops, and the prover has no induction over an array; JobHeap
  therefore describes a loop by the path it takes. `Ancestors(k)` is the least set of
  positions that holds k and with each position its parent; to show that all ancestors
  have some property, one instantiates that set with those that do. `DisplacedPath` and
  `RisenPath` say which positions `up` and `down` move; `UpOrdered` and `DownOrdered`
  say that they repair a heap with one element out of place; `RemoveOrdered` that
  heap.Remove at any position leaves a heap, whether the moved element sinks or rises.
* `FirstJobTaken`: no job goes before the root in the order of Less (the root is an
  ancestor of all), so when the first job may run, the scan of `dequeue` finds it.
* `OneHomeEach`: a call's jobs in the queue, the workers that hold one and the result
  sent add up to one from acceptance on. Accepting, dequeuing and sending each move one
  job from one count to the next. That a heap operation neither loses nor copies a job
  is `UpRearranges` and `DownRearranges`: the array after is the array before read
  through a bijection of its positions, so each call keeps its number of jobs.

**ResilienceProofs** (CircuitBreaker, KeyedCache)

* `ProbeAccounting` is the breaker's inductive invariant: the permits in use lie between
  the running probes less the successes counted, and the running probes plus the
  panicked ones. The slack is needed because a success of an ordinary call returns a
  permit. `ProbesBounded` and `NeverLatched` follow from it by arithmetic; the latter
  assumes `HalfOpenMaxCalls > 0`, without which a half-open breaker has no permit to give.
* `FetchesSerialized` rests on `Holding` (a call between Lock and Unlock holds its mutex)
  and `MutexesCounted`: of the mutexes in use for a key, all but the one in `c.fetching`
  are there because of an eviction. Two fetches of a key hold different mutexes, so there
  is an injection from the fetches into the mutexes. The counting is needed because an
  evicted key leaves no trace in the cache of the mutexes that are still held.
* `FlightsShared` uses that bound: while an entry is not fresh, the fetches begun since
  it was lost still run, so they are no more than the mutexes, or have panicked, which is
  counted apart (`Accounted`). `FlightStep` reduces each
  step to what it does to a key's counts, and the rest is arithmetic.

**RunProofs** (Workflow, RalphLoop)

* `CheckpointInv` strengthens `CheckpointCurrent` and `StepsBounded` by what holds
  between the save and the next iteration (`SavedCurrent`), before the first attempt
  (`IdleFresh`) and without a store (`NoStoreNoCheckpoint`): a crash may come in any of
  these places, and Resume starts from the checkpoint alone. `CheckpointsCurrent` and
  `RunBounded` follow, for any graph and any number of crashes and resumptions.
* `CompensationReversed` and `FailureRolledBack` need `StackFollowsLog`, which ties the
  compensation stack to what the nodes did: it is in the order of the steps and holds
  every compensable node completed and not yet compensated.
* `DependenciesFirst`, `OutcomesRecorded`, `OneIterationLost`, `WorkLimited` and
  `ProgressNeverLost` of the ralph loop come from one invariant, for any list of tasks
  and whatever the model decides: `FileBehind` (how far the file is behind memory at
  each place of the loop, by the iteration under way and the failed saves),
  `StatusRunning` (a run recorded as completed does not run) and `WorkCounted` (the
  iterations that ran tools are those counted in the file and those that a crash or a
  failed save kept out of it).

**FleetProofs** (WorktreePool, RDCycle)

* `NeverShared` classifies the steps first: each takes a worktree out of one pool or one
  hand and puts it into at most one other (`Moves`). `NeverOverfull` follows because both
  places that append test the length under the lock, however old the number is that Warm
  computed. `NothingLost` needs `OnePool` (until Close every call works on the map's
  repoPool) and `HandsCounted` (which steps of a call have a worktree in hand); what a
  failed creation or removal leaves is in no pool and no hand from then on.
* `FailedProbeReopens`: the breaker is closed exactly while its count is below the
  threshold, also after the cooldown, where the count is kept. `OneOrchestrator` needs
  `OthersEnded` (without a race every orchestrator but the last has ended) and `OwnSpec`
  (a ralph loop finds the spec its own cycle wrote). `FailuresStopped` needs
  `RoomToFail`: a stage runs only while the streak is below the cap, because the governor
  is asked at the head of each cycle.

**ServingProofs** (Gateway, ToolCalls)

* `NoneForgotten` needs `Placed`: what is published under a name was added under that
  name by a call past its second critical section, so that a removal takes out the
  upstream it closes. `OnlyLateStayOpen` adds `LateKnown`: a closed gateway knows every
  call that may still publish. `ListedIsPublished` rests on `ManagedInv`: a listed name is
  published by an add that is over, a remove takes a name off the list before it takes it
  out of the map, and no two removes have the same name, because only one of them found
  it on the list.
* `SpendWithinReach` needs `Headroom`: each call that is past the check and has not
  recorded its cost keeps room for one cost below the bound. The bound itself is not
  inductive, since it does not say who may still spend. `NoAlertMissed` needs `AlertsDue`:
  a threshold the spend has reached has fired, or some call has still to read the spend,
  or has read enough of it to fire. `CompletedHasResult` needs `ResultFirst`: the
  goroutine stores the result before it reports.

**TaskRunProofs, TaskExecProofs, TaskLifecycleProofs** (TaskExec, TaskLifecycle)

* The invariant is `TypeOK`, `Ownership` (the manager's maps and the runs agree on who
  has which task, and an exclusive cancelation keeps executions out), `Memory` (what a run
  remembers of its task is the stored version) and `Answers` (a run that ended by
  canceling its task left it canceled, and nobody has taken it up since). TaskRunProofs
  shows it for the steps of a run between publication and cleanup, which it first sorts
  into nine kinds; TaskExecProofs for the calls, publication and cleanup.
* `OneWriter` and `CanceledStays` are read off the invariant. `QuotaKept` counts the
  published executions: each step publishes or cleans up at most one.
* `LifecycleKept` is the refinement: the initial states of TaskExec map to one of
  TaskLifecycle, and every step to a step of it or a stutter, under the mapping that
  takes the stored states and the set `Held`. A second write to a finished task, by the run
  that finished it, is a `Spoil`. It needs the invariant: that a write to a
  task comes from the run that holds it is `Ownership` and `Memory`.

Only model-checked:

* liveness (`EveryJobRuns`, `ShutdownCompletes`, `Recovers`, `CallsReturn`, `RunReturns`,
  `RunsEnd`, `CallsEnd`, `TasksSettle`, both `Terminates`): fairness and ENABLED are
  outside the prover's fragment;
* the agreement of JobHeap with the loops of `container/heap`, which JobHeapMC writes as
  recursive operators; what the loops compute for every array is an induction over data.

Proved but in no run, since the theorem covers every instance: `QueueOrdered`,
`GroupLimit`, `ProbeBound`, `StepsBounded`, `IdleBounded`, `ResultKept` and the type
invariants.

## What the models show beside the properties

The models have these behaviours because the code has them; the properties above are
stated so that they hold beside them.

* dispatcher: past a first job whose group is saturated, `dequeue` goes on in array
  order, and may run an eligible job before one of higher priority
  (`dispatcher/dispatcher.go:237`, against the priority order of `queue.go:4`).
* circuit breaker: a probe that panics keeps its half-open permit
  (`resilience/circuit.go:98`); with all permits lost only Reset lets calls
  in again. `OnlyPanicLatches` says that nothing else does it.
* caches: evicting a key drops its mutex while a fetch of it runs, and lets a second
  fetch run beside the first (`resilience/cache.go:247`, against the comment at 193; run
  `cache_serialized`). After a fetch that panics, each waiting caller fetches in turn.
* workflow: a resumed run that fails does not roll back what earlier attempts did
  (`workflow/engine.go:242`, against `doc.go:12`); a failed and compensated run keeps
  its checkpoint, and Resume continues after nodes that were undone.
* ralph: the error of SaveProgress is ignored (`ralph/loop.go:98`, 518 and 532); after
  failed saves Run may return with an older status in the file, and a restart repeats the
  iterations that were not saved.
* rdcycle: a second start before the first orchestrator's goroutine has run makes a second
  orchestrator (`rdcycle/perpetual.go:98`). Run goes on while the breaker is open, in cycles that are refused
  (`rdcycle/orchestrator.go:111`, against the comment at 84-85).
* gateway: a health loop that starts after its upstream was removed or closed is never
  stopped (`gateway/gateway.go:110`); an upstream whose AddUpstream Close overtook is
  published in the closed gateway.
* worktree pool: a worktree that is released while Close runs goes into a pool nobody
  empties, and stays on disk; `NoneLost` speaks of the time before Close. A directory that
  os.RemoveAll fails to remove (`worktree/pool.go:503`) or that a failing
  `git worktree add` leaves (403-405) is forgotten.
* a2a-go: the run that ended a task may still mark it failed, when its tool panics before
  the last event is broadcast (`Spoil` in TaskLifecycle; run `task_terminal`), although
  `a2a/core.go:326-327` calls terminal tasks immutable; once the run is over the status
  stands. Execute waits for the execution before it, up to maxRetries times, where the
  comment at `local_manager.go:47` has it rejected.
* tasks: Cancel and the goroutine's report may overwrite each other's terminal status;
  the last writer wins.

## Known gaps in the modelled parts

* dispatcher: nested Submit from a handler, and a panicking handler, are not
  behaviours of the model; Stats reads its numbers one by one.
* circuit breaker: `Configure` on a live breaker writes the thresholds without the
  lock; OnCircuitOpen runs with the lock held.
* caches: a hit reads value and error after the lock is released; CacheEntry, one
  slot with the same discipline, is not modelled (an Invalidate during a fetch is
  undone by it).
* workflow: forks, durable sleep (one key for the targets of all sleeps), node
  middleware.
* ralph: the race of two starts, history checkpoints, stuck detection
  (its hint only shapes the next decision).
* rdcycle: the results and the last error, which only the status tool reads.
* gateway: proxied calls and the names of tools; `toolMap` is written with `upstreams`
  and taken as a function of it.
* worktree pool: one repository; a worktree released twice, or used after its release.
* tool calls: one policy that blocks (the others may be any); the start of a new budget
  period.
* a2a-go: subscriptions beside the caller's own, push notifications, the limit per scope
  (`limiter.go:56-65`, which the bridge does not configure; `QuotaExact` is about the
  global one), a second copy that fails right after the store has made the first
  (`taskupdate/manager.go:231`), and the recovery from a concurrent modification, which
  `SingleWriter` shows not to happen.
* gateway: the health counters are kept although no property is about them.

## Not modelled

* **a2a server** (`a2a/server.go`): a smaller server of tasks than a2a-go's, in which each
  transition is one critical section; TaskExec has the same lifecycle with harder
  concurrency.
* **gateway resilience and affinity**: a cache, a limit and a breaker around each call,
  which are modelled on their own; an affinity table under one lock, whose middleware
  computes an upstream it does not use (`gateway/session_affinity.go:76-120`, where
  72-73 says that it rewrites the call).
* **sessions, finops tracking, registry, handoff, memory**: maps under one lock, each
  operation one critical section; expiry and windows are over real time.
* **rate limiter**: a token bucket over real time, of which a discrete model keeps
  nothing that matters.
* **lifecycle, orchestrator patterns**: a wait and callbacks supplied by the program;
  what they do to one another is not in the repository.
* **everything that is translation, text processing or I/O**: transports, auth, bridges'
  formats, prompts, synthesis, reports, inventories, devices, commands.

`PROJECT.json` lists each of them with its files and the reason.
