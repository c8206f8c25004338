--------------------------- MODULE TaskLifecycle ---------------------------
(***************************************************************************)
(* What the execution manager keeps to about the tasks it stores, apart    *)
(* from how it runs them: no run takes a finished task, a task is changed  *)
(* only by the one run that holds it, and so the terminal status a run     *)
(* leaves behind is never changed again.  It is less than a2a/core.go asks *)
(* for: the run that finished a task may still fail it while it holds it   *)
(* (Spoil; see TerminalImmutable in TaskExec).                             *)
(***************************************************************************)
CONSTANT Tasks

VARIABLES status,  \* the stored state of each task
          held     \* the tasks that some run holds

vars == <<status, held>>

Terminal == {"completed", "failed", "canceled"}

States == Terminal \cup {"none", "submitted", "working"}

Init == status = [t \in Tasks |-> "none"] /\ held = {}

\* A run takes a task that is not finished.
Take(t) ==
    /\ t \notin held /\ status[t] \notin Terminal
    /\ held' = held \cup {t}
    /\ UNCHANGED status

\* The run that holds t moves it on.
Move(t) ==
    /\ t \in held /\ status[t] \notin Terminal
    /\ \E s \in States \ {"none"} : status' = [status EXCEPT ![t] = s]
    /\ UNCHANGED held

\* The run that holds t fails it although its status is terminal already.
Spoil(t) ==
    /\ t \in held /\ status[t] \in Terminal
    /\ status' = [status EXCEPT ![t] = "failed"]
    /\ UNCHANGED held

\* The run that holds t finishes it and lets go at once.
Finish(t) ==
    /\ t \in held /\ status[t] \notin Terminal
    /\ \E s \in Terminal : status' = [status EXCEPT ![t] = s]
    /\ held' = held \ {t}

Release(t) == t \in held /\ held' = held \ {t} /\ UNCHANGED status

Next == \E t \in Tasks : Take(t) \/ Move(t) \/ Spoil(t) \/ Finish(t) \/ Release(t)

Spec == Init /\ [][Next]_vars

\* No run holds a task for ever.
Released == \A t \in Tasks : t \in held ~> t \notin held

=============================================================================
