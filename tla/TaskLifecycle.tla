--------------------------- MODULE TaskLifecycle ---------------------------
(***************************************************************************)
(* What the scheduler promises its clients, with no queue, no tokens and   *)
(* no worker: at most one task is active, a task that starts was queued, a *)
(* task that was cancelled does not complete, a task that is active is     *)
(* neither queued again nor removed, and an interrupted task ends failed   *)
(* or cancelled.                                                           *)
(***************************************************************************)
CONSTANTS Tasks

VARIABLES
    state,      \* what clients read of each task
    active      \* the tasks an engine works on

vars == <<state, active>>

Done == {"completed", "failed", "cancelled"}

Init ==
    /\ state = [t \in Tasks |-> "absent"]
    /\ active = {}

Enqueue(t) ==
    /\ state[t] = "absent"
    /\ state' = [state EXCEPT ![t] = "queued"]
    /\ UNCHANGED active

\* A cancelled task may be active still: its engine has yet to notice.
Cancel(t) ==
    /\ state[t] \in {"queued", "running"}
    /\ state' = [state EXCEPT ![t] = "cancelled"]
    /\ UNCHANGED active

Requeue(t) ==
    /\ state[t] \in Done \ {"completed"}
    /\ t \notin active
    /\ state' = [state EXCEPT ![t] = "queued"]
    /\ UNCHANGED active

Remove(t) ==
    /\ state[t] \in Done
    /\ t \notin active
    /\ state' = [state EXCEPT ![t] = "absent"]
    /\ UNCHANGED active

Begin(t) ==
    /\ active = {}
    /\ state[t] = "queued"
    /\ state' = [state EXCEPT ![t] = "running"]
    /\ active' = {t}

\* A completed task may queue a follow-up.
Complete(t) ==
    /\ t \in active
    /\ state[t] = "running"
    /\ active' = active \ {t}
    /\ \/ state' = [state EXCEPT ![t] = "completed"]
       \/ \E e \in Tasks \ {t} :
            /\ state[e] = "absent"
            /\ state' = [state EXCEPT ![t] = "completed", ![e] = "queued"]

\* Also of a task that was cancelled: its engine may raise before it notices.
Stop(t, st) ==
    /\ t \in active
    /\ st = "cancelled" => state[t] = "cancelled"
    /\ state' = [state EXCEPT ![t] = st]
    /\ active' = active \ {t}

\* The engine is gone, with or without a trace in the state.
Interrupt ==
    /\ active' = {}
    /\ \/ UNCHANGED state
       \/ state' = [t \in Tasks |-> IF t \in active THEN "cancelled" ELSE state[t]]

\* Tasks that seem to run and are not active are found to have failed.
Recover ==
    /\ active = {}
    /\ state' = [t \in Tasks |-> IF state[t] = "running" THEN "failed" ELSE state[t]]
    /\ UNCHANGED active

Next ==
    \/ \E t \in Tasks :
        \/ Enqueue(t) \/ Cancel(t) \/ Requeue(t) \/ Remove(t)
        \/ Begin(t) \/ Complete(t)
        \/ \E st \in {"failed", "cancelled"} : Stop(t, st)
    \/ Interrupt
    \/ Recover

Spec == Init /\ [][Next]_vars

===========================================================================
