----------------------------- MODULE ToolCalls -----------------------------
(***************************************************************************)
(* A tool called through three middlewares, outermost first: TaskMiddleware*)
(* (registry/tasks), which may run the rest in a goroutine and report to a *)
(* task; ApprovalMiddleware (hitools), which waits for a human; and        *)
(* EnforcementMiddleware (finops), which checks the budget before the call *)
(* and records the cost after it.  Tasks are canceled, requests answered   *)
(* and deadlines passed by others meanwhile.                               *)
(*                                                                         *)
(* Calls are the calls that may be in flight at once; each is made again   *)
(* and again.  Costs are counted in a small unit, and Thresholds are those *)
(* of every policy, as amounts; Limit is that of the policy that blocks.   *)
(***************************************************************************)
EXTENDS Integers, FiniteSets

CONSTANTS Calls, Cancels,
          Limit, MaxCost, Thresholds

ASSUME BudgetAssumption ==
    Limit \in Nat \ {0} /\ MaxCost \in Nat /\ Thresholds \subseteq Nat \ {0} /\ IsFiniteSet(Calls)

VARIABLES
    pc,        \* where each call is
    status,    \* the status of the call's task, none without task parameters
    result,    \* the calls whose task has its result
    listed,    \* the calls whose task is in the manager's map
    cancelFn,  \* the calls whose task has its CancelFn
    done,      \* the waiting calls whose context, or approval deadline, has ended
    response,  \* what the human answered to each waiting call
    spend,     \* internalCost
    seen,      \* the spend each call read last
    fired,     \* firedThresholds
    cancel     \* where each call of Manager.Cancel is, and on which task

taskVars == <<status, result, listed, cancelFn>>
approvalVars == <<done, response>>
budgetVars == <<spend, seen, fired>>

vars == <<pc, taskVars, approvalVars, budgetVars, cancel>>

Init ==
    /\ pc = [c \in Calls |-> "idle"]
    /\ status = [c \in Calls |-> "none"]
    /\ result = {} /\ listed = {} /\ cancelFn = {} /\ done = {}
    /\ response = [c \in Calls |-> "none"]
    /\ spend = 0 /\ seen = [c \in Calls |-> 0] /\ fired = {}
    /\ cancel = [x \in Cancels |-> [pc |-> "idle", task |-> {}]]

Goto(c, to) == pc' = [pc EXCEPT ![c] = to]

IsTerminal(c) == status[c] \in {"completed", "failed", "cancelled"}

-----------------------------------------------------------------------------
(* TaskMiddleware, up to the next handler. *)

\* A call without task parameters.  The entry of the task before it is no
\* longer looked at.
Plain(c) ==
    /\ Goto(c, "submit")
    /\ status' = [status EXCEPT ![c] = "none"]
    /\ listed' = listed \ {c}

\* Manager.Create: the entry is in the map before it has its CancelFn.
Create(c) ==
    /\ Goto(c, "created")
    /\ status' = [status EXCEPT ![c] = "working"]
    /\ listed' = listed \cup {c}

TaskMiddleware(c) ==
    /\ pc[c] = "idle" /\ \A x \in Cancels : c \notin cancel[x].task
    /\ Plain(c) \/ Create(c)
    /\ result' = result \ {c} /\ cancelFn' = cancelFn \ {c}
    /\ UNCHANGED <<approvalVars, budgetVars, cancel>>

\* CancelFn is set, and the handler runs asynchronously from here on.
Launch(c) ==
    /\ pc[c] = "created"
    /\ cancelFn' = cancelFn \cup {c}
    /\ Goto(c, "submit")
    /\ UNCHANGED <<status, result, listed, approvalVars, budgetVars, cancel>>

-----------------------------------------------------------------------------
(* ApprovalMiddleware. *)

Waits(c) == pc[c] \in {"submit", "poll", "select"}

\* The context of a call that waits, or the deadline of its approval, ends.
Ends(c) ==
    /\ Waits(c) /\ c \notin done
    /\ done' = done \cup {c}
    /\ UNCHANGED <<pc, taskVars, response, budgetVars, cancel>>

\* The middleware goes on to the next handler, or returns an error result.
Leave(c, to) ==
    /\ Goto(c, to)
    /\ done' = done \ {c}
    /\ response' = [response EXCEPT ![c] = "none"]

\* The tool needs no approval, or the store fails, or the request is submitted.
Submit(c) ==
    /\ pc[c] = "submit"
    /\ \/ Leave(c, "check") \/ Leave(c, "refused")
       \/ Goto(c, "poll") /\ UNCHANGED approvalVars
    /\ UNCHANGED <<taskVars, budgetVars, cancel>>

\* ApprovalStore.Respond: the first answer counts.  The store also takes an
\* answer that nobody waits for any more, which nothing reads.
Respond(c, decision) ==
    /\ pc[c] \in {"poll", "select"} /\ response[c] = "none"
    /\ response' = [response EXCEPT ![c] = decision]
    /\ UNCHANGED <<pc, taskVars, done, budgetVars, cancel>>

\* waitForApproval asks the store, which answers or fails: a failure refuses the
\* call, whatever the human has answered.
Poll(c) ==
    /\ pc[c] = "poll"
    /\ \/ response[c] = "none" /\ Goto(c, "select") /\ UNCHANGED approvalVars
       \/ response[c] = "approved" /\ Leave(c, "check")
       \/ Leave(c, "refused")
    /\ UNCHANGED <<taskVars, budgetVars, cancel>>

\* The end of the wait is final even if an answer has come since the last poll.
Expire(c) ==
    /\ pc[c] = "select" /\ c \in done
    /\ Leave(c, "refused")
    /\ UNCHANGED <<taskVars, budgetVars, cancel>>

After(c) ==
    /\ pc[c] = "select"
    /\ Goto(c, "poll")
    /\ UNCHANGED <<taskVars, approvalVars, budgetVars, cancel>>

-----------------------------------------------------------------------------
(* EnforcementMiddleware. *)

\* Check reads the spend.
Check(c) ==
    /\ pc[c] = "check"
    /\ seen' = [seen EXCEPT ![c] = spend]
    /\ Goto(c, "decide")
    /\ UNCHANGED <<taskVars, approvalVars, spend, fired, cancel>>

fireAlerts(c, thresholds) == fired' = fired \cup { th \in thresholds : seen[c] >= th }

\* Faulty variant: a spend of exactly the limit passes.
Exceeded_AtLimit(c) == seen[c] > Limit

Exceeded(c) == seen[c] >= Limit

\* The policies are gone through in order: the one that blocks keeps the alerts
\* of those after it from firing.
Decide(c) ==
    /\ pc[c] = "decide"
    /\ \/ Exceeded(c) /\ Goto(c, "refused") /\ \E reached \in SUBSET Thresholds : fireAlerts(c, reached)
       \/ ~Exceeded(c) /\ Goto(c, "run") /\ fireAlerts(c, Thresholds)
    /\ seen' = [seen EXCEPT ![c] = 0]
    /\ UNCHANGED <<taskVars, approvalVars, spend, cancel>>

\* The tool runs, and its cost is recorded, whatever it returns.
RecordCost(c) ==
    /\ pc[c] = "run"
    /\ \E cost \in 0 .. MaxCost : spend' = spend + cost
    /\ Goto(c, "recorded")
    /\ UNCHANGED <<taskVars, approvalVars, seen, fired, cancel>>

\* Faulty variant: the alerts fire for the spend the check read.
ReadSpend_Stale(c) == seen[c]

ReadSpend(c) == spend

AfterRecord(c) ==
    /\ pc[c] = "recorded"
    /\ seen' = [seen EXCEPT ![c] = ReadSpend(c)]
    /\ Goto(c, "alert")
    /\ UNCHANGED <<taskVars, approvalVars, spend, fired, cancel>>

Alert(c) ==
    /\ pc[c] = "alert"
    /\ fireAlerts(c, Thresholds)
    /\ \E out \in {"ok", "refused", "error"} : Goto(c, out)
    /\ seen' = [seen EXCEPT ![c] = 0]
    /\ UNCHANGED <<taskVars, approvalVars, spend, cancel>>

-----------------------------------------------------------------------------
(* The goroutine of TaskMiddleware reports. *)

\* A plain call returns to its caller.
ReturnPlain(c) ==
    /\ pc[c] \in {"ok", "refused", "error"} /\ status[c] = "none"
    /\ Goto(c, "idle")
    /\ UNCHANGED <<taskVars, approvalVars, budgetVars, cancel>>

\* Faulty variant: an error the handler returns is not reported.
TaskError_Silent(c) ==
    /\ pc[c] = "error" /\ status[c] # "none"
    /\ Goto(c, "idle")
    /\ UNCHANGED <<taskVars, approvalVars, budgetVars, cancel>>

TaskError(c) ==
    /\ pc[c] = "error" /\ status[c] # "none"
    /\ status' = [status EXCEPT ![c] = "failed"]
    /\ Goto(c, "idle")
    /\ UNCHANGED <<result, listed, cancelFn, approvalVars, budgetVars, cancel>>

SetResult(c) ==
    /\ pc[c] \in {"ok", "refused"} /\ status[c] # "none"
    /\ result' = result \cup {c}
    /\ Goto(c, IF pc[c] = "ok" THEN "complete" ELSE "fail")
    /\ UNCHANGED <<status, listed, cancelFn, approvalVars, budgetVars, cancel>>

Update(c) ==
    /\ pc[c] \in {"complete", "fail"}
    /\ status' = [status EXCEPT ![c] = IF pc[c] = "complete" THEN "completed" ELSE "failed"]
    /\ Goto(c, "idle")
    /\ UNCHANGED <<result, listed, cancelFn, approvalVars, budgetVars, cancel>>

-----------------------------------------------------------------------------
(* Manager.Cancel and Manager.Cleanup. *)

\* A task that is found and was not terminal in the snapshot.
Cancel(x, c) ==
    /\ cancel[x].pc = "idle" /\ c \in listed /\ ~IsTerminal(c)
    /\ cancel' = [cancel EXCEPT ![x] = [pc |-> "update", task |-> {c}]]
    /\ UNCHANGED <<pc, taskVars, approvalVars, budgetVars>>

CancelUpdate(x) ==
    /\ cancel[x].pc = "update"
    /\ status' = [c \in Calls |-> IF c \in cancel[x].task THEN "cancelled" ELSE status[c]]
    /\ cancel' = [cancel EXCEPT ![x].pc = "fn"]
    /\ UNCHANGED <<pc, result, listed, cancelFn, approvalVars, budgetVars>>

CallCancelFn(x) ==
    /\ cancel[x].pc = "fn"
    /\ done' = done \cup { c \in cancel[x].task \cap cancelFn : Waits(c) }
    /\ cancel' = [cancel EXCEPT ![x] = [pc |-> "idle", task |-> {}]]
    /\ UNCHANGED <<pc, taskVars, response, budgetVars>>

\* The task's time to live is over, and Cleanup finds it.
Cleanup(c) ==
    /\ c \in listed
    /\ listed' = listed \ {c}
    /\ UNCHANGED <<pc, status, result, cancelFn, approvalVars, budgetVars, cancel>>

-----------------------------------------------------------------------------

Handler(c) ==
    \/ Launch(c) \/ Submit(c) \/ Poll(c) \/ After(c)
    \/ Check(c) \/ Decide(c) \/ RecordCost(c) \/ AfterRecord(c) \/ Alert(c)
    \/ ReturnPlain(c) \/ TaskError(c) \/ SetResult(c) \/ Update(c)

CancelStep(x) == CancelUpdate(x) \/ CallCancelFn(x)

Next ==
    \/ \E c \in Calls : TaskMiddleware(c) \/ Handler(c) \/ Expire(c) \/ Ends(c) \/ Cleanup(c)
    \/ \E c \in Calls, decision \in {"approved", "denied"} : Respond(c, decision)
    \/ \E x \in Cancels : CancelStep(x) \/ \E c \in Calls : Cancel(x, c)

Spec == Init /\ [][Next]_vars

\* The goroutines run and tools return.  With a Timeout every approval has a
\* deadline that passes, and the select of waitForApproval takes it in the end,
\* since a timer of 50 ms or more is not ready when the wait begins.
FairSpec ==
    /\ Spec
    /\ \A c \in Calls : WF_vars(Handler(c)) /\ SF_vars(Expire(c)) /\ WF_vars(Ends(c))
    /\ \A x \in Cancels : WF_vars(CancelStep(x))

-----------------------------------------------------------------------------
(* Properties. *)

Steps == {"idle", "created", "submit", "poll", "select", "check", "decide", "run", "recorded", "alert",
          "ok", "refused", "error", "complete", "fail"}

\* The variables have their types.
TypeOK ==
    /\ pc \in [Calls -> Steps]
    /\ status \in [Calls -> {"none", "working", "completed", "failed", "cancelled"}]
    /\ result \subseteq Calls /\ listed \subseteq Calls /\ cancelFn \subseteq Calls /\ done \subseteq Calls
    /\ response \in [Calls -> {"none", "approved", "denied"}]
    /\ spend \in Nat /\ seen \in [Calls -> Nat] /\ fired \subseteq Thresholds
    /\ cancel \in [Cancels -> [pc : {"idle", "update", "fn"}, task : SUBSET Calls]]

\* The calls the check has let through and whose cost is not recorded.
Admitted == { c \in Calls : pc[c] = "run" \/ (pc[c] = "decide" /\ seen[c] < Limit) }

\* SpendBounded: with a policy that blocks, the spend exceeds the limit by less
\* than the cost of the calls that may be in flight at once, however many calls
\* are made: each was let through by a check that still saw room.
SpendBounded == spend < Limit + MaxCost * Cardinality(Calls)

\* AlertsFired: every threshold the spend has reached has fired, unless a call
\* that recorded its cost has still to fire its alerts.
AlertsFired ==
    \A th \in Thresholds : spend >= th => th \in fired \/ \E c \in Calls : pc[c] \in {"recorded", "alert"}

\* ResultKept: a task whose status is completed has its result, although the two
\* are written in two critical sections and cancels come between.
ResultKept == \A c \in Calls : status[c] = "completed" => c \in result

\* TasksSettle: every task ends with a terminal status, whether its handler
\* answers, fails or is refused, and whether or not a human ever answers.
TasksSettle == \A c \in Calls : status[c] = "working" ~> IsTerminal(c)

-----------------------------------------------------------------------------
(* What the properties rest on. *)

\* SpendBounded: a call that is let through takes the room its cost may fill.
Headroom == spend < Limit + MaxCost * (Cardinality(Calls) - Cardinality(Admitted))

\* AlertsFired: some call has still to read the spend, or has read enough of it.
AlertsDue ==
    \A th \in Thresholds : spend >= th =>
        \/ th \in fired
        \/ \E c \in Calls : pc[c] = "recorded" \/ (pc[c] = "alert" /\ seen[c] >= th)

\* ResultKept: the goroutine stores the result before it reports.
ResultFirst == \A c \in Calls : status[c] = "completed" \/ pc[c] \in {"complete", "fail"} => c \in result

=============================================================================
