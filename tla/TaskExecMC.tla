----------------------------- MODULE TaskExecMC -----------------------------
(***************************************************************************)
(* Two tasks are needed to run into the limit on executions, two calls of  *)
(* Cancel to join a cancelation, three requests for one of them to find    *)
(* its task taken again and again: the constraint explores each of these,  *)
(* but no two at once, and one cancelation among two requests for one      *)
(* task.  Requests, calls and tasks are used in order, which loses         *)
(* nothing: the names are interchangeable, and no call is bound to come.   *)
(***************************************************************************)
EXTENDS TaskExec

CONSTANTS t1, t2, r1, r2, r3, c1, c2

Named == { req[r].tid : r \in Requests } \cup { run[w].tid : w \in Runs }

InOrder ==
    /\ req[r2].pc # "idle" => req[r1].pc # "idle"
    /\ req[r3].pc # "idle" => req[r2].pc # "idle"
    /\ can[c2].pc # "idle" => can[c1].pc # "idle"
    /\ t2 \in Named => t1 \in Named

OneTask == Named \subseteq {t1, None}

MCBound ==
    /\ InOrder
    /\ OneTask \/ (can[c2].pc = "idle" /\ (req[r2].pc = "idle" \/ can[c1].pc = "idle"))
    /\ req[r2].pc = "idle" \/ can[c2].pc = "idle" \/ can[c2].awaits = c1
    /\ req[r3].pc = "idle" \/ (OneTask /\ can[c1].pc = "idle")

=============================================================================
