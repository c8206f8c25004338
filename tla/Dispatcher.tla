---------------------------- MODULE Dispatcher ----------------------------
(***************************************************************************)
(* dispatcher/: a fixed pool of workers runs tool calls from a bounded     *)
(* priority queue, under per-group concurrency limits.                     *)
(*                                                                         *)
(* Processes: the callers of Submit (Calls, one call each), the worker     *)
(* goroutines (Workers) and the callers of Shutdown (Closers).  Everything *)
(* done under d.mu is one step; sync.Cond is the set of workers whose      *)
(* state is "waiting", which a Broadcast makes "idle" again.               *)
(***************************************************************************)
EXTENDS JobHeap, FiniteSets

CONSTANTS Workers,         \* the worker goroutines New starts
          Calls,           \* the calls of Submit
          Closers,         \* the calls of Shutdown
          Groups,          \* the concurrency groups, besides the empty name
          NoGroup,         \* the empty group name
          Limits,          \* Config.GroupLimits; 0 where a group is absent
          QueueSize,       \* Config.QueueSize
          Priorities,      \* the values of Job.Priority callers use
          HasPriorityFunc, \* Config.PriorityFunc # nil
          DefaultPriority, \* Config.DefaultPriority, as New leaves it
          None             \* no job

ASSUME WorkersAssumption == IsFiniteSet(Workers) /\ Workers # {}

ASSUME QueueSizeAssumption == QueueSize \in Nat \ {0}

ASSUME LimitsAssumption == Limits \in [Groups -> Int] /\ NoGroup \notin Groups

\* New replaces a zero DefaultPriority by PriorityNormal when there is no
\* PriorityFunc.
ASSUME PriorityAssumption ==
    /\ Priorities \subseteq Nat
    /\ DefaultPriority \in Nat
    /\ ~HasPriorityFunc => DefaultPriority # 0

Job == [call : Calls, priority : Nat, group : Groups \cup {NoGroup}, seq : Nat]

ASSUME NoneAssumption == None \notin Job

Outcomes == {"ok", "err"}

VARIABLES
    queue,          \* d.queue, the heap array
    seq,            \* d.seq
    closed,         \* d.closed
    active,         \* groupManager.active
    submitted,      \* d.submitted
    completed,      \* d.completed
    failed,         \* d.failed
    activeWorkers,  \* d.activeWorkers
    worker,         \* where each worker goroutine is
    job,            \* the local variable job of each worker
    result,         \* the handler's outcome, held by the worker
    chan,           \* job.result, the buffered channel of each call
    call,           \* where each call of Submit is, and what it returned
    closer          \* where each call of Shutdown is, and what it returned

pool     == <<queue, seq, closed, active>>
counters == <<submitted, completed, failed, activeWorkers>>
workers  == <<worker, job, result>>
callers  == <<chan, call, closer>>

vars == <<pool, counters, workers, callers>>

WorkerStates ==
    {"idle", "waiting", "dequeued", "running", "returned", "counted", "sent",
     "exited"}

Init ==
    /\ queue = <<>>
    /\ seq = 0
    /\ closed = FALSE
    /\ active = [g \in Groups |-> 0]
    /\ submitted = 0 /\ completed = 0 /\ failed = 0
    /\ activeWorkers = 0
    /\ worker = [w \in Workers |-> "idle"]
    /\ job = [w \in Workers |-> None]
    /\ result = [w \in Workers |-> "ok"]
    /\ chan = [c \in Calls |-> "empty"]
    /\ call = [c \in Calls |-> "new"]
    /\ closer = [s \in Closers |-> "new"]

-----------------------------------------------------------------------------
(* groups.go *)

canAcquire(g) ==
    \/ g = NoGroup
    \/ Limits[g] <= 0
    \/ active[g] < Limits[g]

acquire(g) ==
    active' = IF g = NoGroup THEN active ELSE [active EXCEPT ![g] = @ + 1]

\* Faulty variant: the floor is off by one and the last slot is never freed.
release_KeepsLast(g) ==
    active' = IF g = NoGroup \/ active[g] <= 1
              THEN active ELSE [active EXCEPT ![g] = @ - 1]

release(g) ==
    active' = IF g = NoGroup \/ active[g] = 0
              THEN active ELSE [active EXCEPT ![g] = @ - 1]

-----------------------------------------------------------------------------
(* dispatcher.go *)

\* cond.Broadcast: every waiting worker will contend for d.mu again.
Awake == [w \in Workers |-> IF worker[w] = "waiting" THEN "idle" ELSE worker[w]]

\* Submit's choice of priority: a PriorityFunc decides alone; otherwise a
\* zero Priority stands for DefaultPriority.
ResolvePriority(p) ==
    IF ~HasPriorityFunc /\ p = 0 THEN DefaultPriority ELSE p

Full == Len(queue) >= QueueSize

\* Submit, up to the select, when the job is turned away.
SubmitRejected(c) ==
    /\ call[c] = "new"
    /\ \/ closed /\ call' = [call EXCEPT ![c] = "shut down"]
       \/ ~closed /\ Full /\ call' = [call EXCEPT ![c] = "full"]
    /\ UNCHANGED <<pool, counters, workers, chan, closer>>

\* Submit, up to the select, when the job is accepted.
SubmitAccepted(c, p, g) ==
    /\ call[c] = "new"
    /\ ~closed /\ ~Full
    /\ seq' = seq + 1
    /\ queue' = Push(queue, [call |-> c, priority |-> ResolvePriority(p),
                             group |-> g, seq |-> seq + 1])
    /\ submitted' = submitted + 1
    /\ worker' = Awake
    /\ call' = [call EXCEPT ![c] = "waiting"]
    /\ UNCHANGED <<closed, active, completed, failed, activeWorkers, job, result, chan, closer>>

\* Submit's select: the result arrives ...
SubmitReturns(c) ==
    /\ call[c] = "waiting"
    /\ chan[c] # "empty"
    /\ call' = [call EXCEPT ![c] = chan[c]]
    /\ chan' = [chan EXCEPT ![c] = "empty"]
    /\ UNCHANGED <<pool, counters, workers, closer>>

\* ... or ctx is done first; the job stays where it is.
SubmitCancelled(c) ==
    /\ call[c] = "waiting"
    /\ call' = [call EXCEPT ![c] = "cancelled"]
    /\ UNCHANGED <<pool, counters, workers, chan, closer>>

\* Faulty variant: no Broadcast when closing.
Shutdown_Silent(s) ==
    /\ closer[s] = "new"
    /\ closed' = TRUE
    /\ closer' = [closer EXCEPT ![s] = "waiting"]
    /\ UNCHANGED <<queue, seq, active, counters, workers, chan, call>>

\* Shutdown, up to the select.
Shutdown(s) ==
    /\ closer[s] = "new"
    /\ closed' = TRUE
    /\ worker' = Awake
    /\ closer' = [closer EXCEPT ![s] = "waiting"]
    /\ UNCHANGED <<queue, seq, active, counters, job, result, chan, call>>

\* Shutdown's select: wg.Wait returned ...
ShutdownReturns(s) ==
    /\ closer[s] = "waiting"
    /\ \A w \in Workers : worker[w] = "exited"
    /\ closer' = [closer EXCEPT ![s] = "drained"]
    /\ UNCHANGED <<pool, counters, workers, chan, call>>

\* ... or ctx is done first.
ShutdownCancelled(s) ==
    /\ closer[s] = "waiting"
    /\ closer' = [closer EXCEPT ![s] = "cancelled"]
    /\ UNCHANGED <<pool, counters, workers, chan, call>>

\* The positions of the array dequeue may take, which scans it from the front.
Eligible == { i \in 1..Len(queue) : canAcquire(queue[i].group) }

\* worker: dequeue finds a job; its group is acquired before d.mu is released.
Dequeue(w) ==
    /\ worker[w] = "idle"
    /\ \E i \in Eligible :
         /\ \A k \in Eligible : i <= k
         /\ queue' = Remove(queue, i)
         /\ job' = [job EXCEPT ![w] = queue[i]]
         /\ acquire(queue[i].group)
    /\ worker' = [worker EXCEPT ![w] = "dequeued"]
    /\ UNCHANGED <<seq, closed, counters, result, callers>>

Drained == closed /\ queue = <<>>

\* worker: dequeue finds none, and the pool is not drained.
Wait(w) ==
    /\ worker[w] = "idle"
    /\ Eligible = {}
    /\ ~Drained
    /\ worker' = [worker EXCEPT ![w] = "waiting"]
    /\ UNCHANGED <<pool, counters, job, result, callers>>

\* worker: dequeue finds none, the dispatcher is closed and its queue empty.
Exit(w) ==
    /\ worker[w] = "idle"
    /\ Eligible = {} /\ Drained
    /\ worker' = [worker EXCEPT ![w] = "exited"]
    /\ UNCHANGED <<pool, counters, job, result, callers>>

\* worker: the activeWorkers increment; the handler now runs.
HandlerStarts(w) ==
    /\ worker[w] = "dequeued"
    /\ activeWorkers' = activeWorkers + 1
    /\ worker' = [worker EXCEPT ![w] = "running"]
    /\ UNCHANGED <<pool, submitted, completed, failed, job, result, callers>>

\* worker: the handler returned; the activeWorkers decrement.
HandlerReturns(w, r) ==
    /\ worker[w] = "running"
    /\ activeWorkers' = activeWorkers - 1
    /\ result' = [result EXCEPT ![w] = r]
    /\ worker' = [worker EXCEPT ![w] = "returned"]
    /\ UNCHANGED <<pool, submitted, completed, failed, job, callers>>

\* worker: completed is incremented.
Count(w) ==
    /\ worker[w] = "returned"
    /\ completed' = completed + 1
    /\ worker' = [worker EXCEPT ![w] = "counted"]
    /\ UNCHANGED <<pool, submitted, failed, activeWorkers, job, result, callers>>

\* Faulty variant: a failed job is counted but not answered.
Send_OkOnly(w) ==
    /\ worker[w] = "counted"
    /\ failed' = IF result[w] = "err" THEN failed + 1 ELSE failed
    /\ chan' = IF result[w] = "err" THEN chan ELSE [chan EXCEPT ![job[w].call] = "ok"]
    /\ worker' = [worker EXCEPT ![w] = "sent"]
    /\ UNCHANGED <<pool, submitted, completed, activeWorkers, job, result, call, closer>>

\* worker: failed is incremented for an error, and the result is sent.
Send(w) ==
    /\ worker[w] = "counted"
    /\ failed' = IF result[w] = "err" THEN failed + 1 ELSE failed
    /\ chan' = [chan EXCEPT ![job[w].call] = result[w]]
    /\ worker' = [worker EXCEPT ![w] = "sent"]
    /\ UNCHANGED <<pool, submitted, completed, activeWorkers, job, result, call, closer>>

\* Faulty variant: no Broadcast after the release.
Release_Silent(w) ==
    /\ worker[w] = "sent"
    /\ release(job[w].group)
    /\ job' = [job EXCEPT ![w] = None]
    /\ result' = [result EXCEPT ![w] = "ok"]
    /\ worker' = [worker EXCEPT ![w] = "idle"]
    /\ UNCHANGED <<queue, seq, closed, counters, callers>>

\* worker: the group is released and the other workers are woken.
Release(w) ==
    /\ worker[w] = "sent"
    /\ release(job[w].group)
    /\ job' = [job EXCEPT ![w] = None]
    /\ result' = [result EXCEPT ![w] = "ok"]
    /\ worker' = [Awake EXCEPT ![w] = "idle"]
    /\ UNCHANGED <<queue, seq, closed, counters, callers>>

-----------------------------------------------------------------------------
WorkerStep(w) ==
    \/ Dequeue(w) \/ Wait(w) \/ Exit(w)
    \/ HandlerStarts(w)
    \/ \E r \in Outcomes : HandlerReturns(w, r)
    \/ Count(w) \/ Send(w) \/ Release(w)

CallStep(c) ==
    \/ SubmitRejected(c)
    \/ \E p \in Priorities, g \in Groups \cup {NoGroup} : SubmitAccepted(c, p, g)
    \/ SubmitReturns(c)
    \/ SubmitCancelled(c)

CloserStep(s) == Shutdown(s) \/ ShutdownReturns(s) \/ ShutdownCancelled(s)

Next ==
    \/ \E w \in Workers : WorkerStep(w)
    \/ \E c \in Calls : CallStep(c)
    \/ \E s \in Closers : CloserStep(s)

Spec == Init /\ [][Next]_vars

\* Goroutines are scheduled and handlers return; a caller whose result is
\* there takes it, and Shutdown sees wg.Wait return.  No caller is obliged to
\* submit, to shut down or to cancel.
Fairness ==
    /\ \A w \in Workers : WF_vars(WorkerStep(w))
    /\ \A c \in Calls : WF_vars(SubmitReturns(c))
    /\ \A s \in Closers : WF_vars(ShutdownReturns(s))

FairSpec == Spec /\ Fairness

-----------------------------------------------------------------------------
(* Safety *)

\* The queue holds jobs, never more than QueueSize.
QueueOK == queue \in Seq(Job) /\ Len(queue) <= QueueSize

CountersOK ==
    /\ seq \in Nat /\ submitted \in Nat /\ completed \in Nat /\ failed \in Nat
    /\ activeWorkers \in Int
    /\ active \in [Groups -> Nat]

\* A worker has a job exactly from dequeue to release.
WorkersOK ==
    /\ worker \in [Workers -> WorkerStates]
    /\ job \in [Workers -> Job \cup {None}]
    /\ \A w \in Workers :
          job[w] = None <=> worker[w] \in {"idle", "waiting", "exited"}
    /\ result \in [Workers -> Outcomes]

CallsOK ==
    /\ closed \in BOOLEAN
    /\ chan \in [Calls -> Outcomes \cup {"empty"}]
    /\ call \in [Calls -> Outcomes \cup
                    {"new", "waiting", "shut down", "full", "cancelled"}]
    /\ closer \in [Closers -> {"new", "waiting", "drained", "cancelled"}]

\* Every variable of the Dispatcher holds a value of its Go type, the queue
\* is within QueueSize, and a worker has a job exactly from dequeue to release.
TypeOK == QueueOK /\ CountersOK /\ WorkersOK /\ CallsOK

\* The workers that hold a job of group g.
Holders(g) == { w \in Workers : job[w] # None /\ job[w].group = g }

\* groupManager.active counts exactly the workers between dequeue and
\* release of a job of the group: no release is lost or made twice, on any
\* interleaving, so the floor at 0 in release is never needed.
GroupAccounting == \A g \in Groups : active[g] = Cardinality(Holders(g))

\* GroupLimits: the handlers of a group that run at one time never exceed
\* its limit, however submissions, completions and wake-ups interleave.
GroupLimit ==
    \A g \in Groups : Limits[g] > 0 => Cardinality(Holders(g)) <= Limits[g]

\* The counter itself stays within the limit, which canAcquire ensures and
\* GroupLimit needs.
GroupBound == \A g \in Groups : Limits[g] > 0 => active[g] <= Limits[g]

Accepted(c) == call[c] \notin {"new", "shut down", "full"}

Queued(c) == { i \in 1..Len(queue) : queue[i].call = c }

HeldBy(c) == { w \in Workers : /\ job[w] # None /\ job[w].call = c
                               /\ worker[w] # "sent" }

Delivered(c) == chan[c] # "empty" \/ call[c] \in Outcomes

\* An accepted job is in the queue once, or held by one worker, or its one
\* result has been sent: none is lost, run twice or answered twice, also when
\* its caller gave up; a rejected call leaves nothing behind.
OneHome ==
    \A c \in Calls :
      Cardinality(Queued(c)) + Cardinality(HeldBy(c)) + (IF Delivered(c) THEN 1 ELSE 0)
        = IF Accepted(c) THEN 1 ELSE 0

\* No wake-up is lost: a worker sleeps in cond.Wait only while no queued job
\* is eligible, and if the pool is already drained then some worker still
\* holds a job, whose release will wake it.
NoLostWakeup ==
    \A w \in Workers : worker[w] = "waiting" =>
        /\ Eligible = {}
        /\ Drained => \E v \in Workers : job[v] # None

\* A worker takes the job at position i.
Takes(w, i) == job[w] = None /\ job'[w] = queue[i]

\* What FirstJobFirst rests on: the array is a heap between any two steps.
QueueOrdered == HeapOrdered(queue)

FirstTaken ==
    \A w \in Workers, i, k \in 1..Len(queue) :
        /\ Takes(w, i)
        /\ \A m \in 1..Len(queue) : m = k \/ Less(queue[k], queue[m])
        /\ canAcquire(queue[k].group)
        => i = k

\* When the first job in the order of Less may run, it is the one a worker
\* takes: no later job overtakes it.
FirstJobFirst == [][FirstTaken]_vars

-----------------------------------------------------------------------------
(* Liveness *)

\* Every accepted job is run and its result sent, whatever its priority and
\* group, also after Shutdown and when its caller gave up.
EveryJobRuns == \A c \in Calls : Accepted(c) ~> Delivered(c)

\* Once the dispatcher is closed every worker exits, and a Shutdown whose ctx
\* does not end returns.
ShutdownCompletes ==
    /\ closed ~> \A w \in Workers : worker[w] = "exited"
    /\ \A s \in Closers : closer[s] = "waiting" ~> closer[s] # "waiting"

=============================================================================
