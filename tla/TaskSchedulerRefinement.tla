----------------------- MODULE TaskSchedulerRefinement -----------------------
(***************************************************************************)
(* Proofs that the scheduler implements the life cycle of TaskLifecycle    *)
(* and never reports a cancelled task as completed.  Both rest on the      *)
(* inductive invariant of TaskSchedulerProofs.                             *)
(***************************************************************************)
EXTENDS TaskSchedulerProofs

\* A step of the life cycle, or none.
LStep == Lifecycle!Next \/ UNCHANGED <<status, inFlight>>

\* What the invariant says of the task in flight.
LEMMA InFlightLemma ==
    ASSUME IInv
    PROVE  /\ status \in [Tasks -> Statuses \cup {"absent"}]
           /\ inFlight \subseteq Tasks
           /\ \A t \in inFlight : inFlight = {t} /\ worker = "busy"
           /\ \A t \in inFlight : status[t] = "cancelled" <=> tokens[t] = "cancelled"
           /\ \A t \in inFlight : status[t] \in {"running", "cancelled"}
<1>1. TypeOK /\ WorkerState /\ OneTaskRuns /\ CancelReachesEngine
  BY DEF IInv
<1> QED
  BY <1>1 DEF TypeOK, WorkerState, OneTaskRuns, CancelReachesEngine

\* A task id that was never given has no row.
LEMMA NewTaskLemma ==
    ASSUME IInv, NEW t \in Tasks, created[t] = 0
    PROVE  status[t] = "absent"
  BY DEF IInv, CreationOrder

\* The handlers of clients.
LEMMA ClientLemma ==
    ASSUME IInv, NEW t \in Tasks, Client(t)
    PROVE  LStep
<1>1. CASE \E kd \in SubmitKinds, p \in Priorities : Submit(t, kd, p)
  <2>1. status[t] = "absent"
    BY <1>1, NewTaskLemma DEF Submit, Insert
  <2>2. Lifecycle!Enqueue(t)
    BY <1>1, <2>1 DEF Submit, Insert, Lifecycle!Enqueue
  <2> QED
    BY <2>2 DEF LStep, Lifecycle!Next
<1>2. CASE Cancel(t)
  <2>1. Lifecycle!Cancel(t) \/ UNCHANGED <<status, inFlight>>
    BY <1>2 DEF Cancel, Lifecycle!Cancel
  <2> QED
    BY <2>1 DEF LStep, Lifecycle!Next
<1>3. CASE DeleteTask(t)
  <2>1. Lifecycle!Remove(t)
    BY <1>3 DEF DeleteTask, NotInFlight, Terminal, Lifecycle!Remove, Lifecycle!Done
  <2> QED
    BY <2>1 DEF LStep, Lifecycle!Next
<1>4. CASE \E p \in Priorities : UpdateQueuedPriority(t, p)
  BY <1>4 DEF UpdateQueuedPriority, LStep
<1>5. CASE \E p \in Priorities : ContinueLoraTraining(t, p)
  <2>1. Lifecycle!Requeue(t)
    BY <1>5 DEF ContinueLoraTraining, NotInFlight, Lifecycle!Requeue, Lifecycle!Done
  <2> QED
    BY <2>1 DEF LStep, Lifecycle!Next
<1> QED
  BY <1>1, <1>2, <1>3, <1>4, <1>5 DEF Client

\* The worker starts a queued task when no other is in flight.
LEMMA WorkerTakesLemma ==
    ASSUME IInv, NEW t \in Tasks, WorkerTakes(t)
    PROVE  LStep
<1>1. inFlight = {}
  BY DEF IInv, WorkerState, WorkerTakes
<1>2. CASE status[t] # "queued"
  BY <1>2 DEF WorkerTakes, LStep
<1>3. CASE status[t] = "queued"
  <2>1. tokens[t] # "cancelled"
    BY <1>3 DEF IInv, QueuedTokenIsLive
  <2>2. Lifecycle!Begin(t)
    BY <1>1, <1>3, <2>1 DEF WorkerTakes, Lifecycle!Begin
  <2> QED
    BY <2>2 DEF LStep, Lifecycle!Next
<1> QED
  BY <1>2, <1>3

\* The ends of an execution.
LEMMA EngineLemma ==
    ASSUME IInv, NEW t \in Tasks, Engine(t)
    PROVE  LStep
<1>1. t \in inFlight
  BY DEF Engine, EndCancelled, EndCompleted, EndWithEvaluation, EndFailed, Executing
<1>2. CASE EndCancelled(t)
  <2>1. status[t] = "cancelled"
    BY <1>1, <1>2, InFlightLemma DEF EndCancelled
  <2>2. Lifecycle!Stop(t, "cancelled")
    BY <1>1, <1>2, <2>1 DEF EndCancelled, End, Leaves, Lifecycle!Stop
  <2> QED
    BY <2>2 DEF LStep, Lifecycle!Next
<1>3. CASE EndCompleted(t)
  <2>1. status[t] = "running"
    BY <1>1, <1>3, InFlightLemma DEF EndCompleted
  <2>2. Lifecycle!Complete(t)
    BY <1>1, <1>3, <2>1 DEF EndCompleted, End, Leaves, Lifecycle!Complete
  <2> QED
    BY <2>2 DEF LStep, Lifecycle!Next
<1>4. CASE \E e \in Tasks : EndWithEvaluation(t, e)
  <2>1. PICK e \in Tasks : EndWithEvaluation(t, e)
    BY <1>4
  <2>2. status[t] = "running"
    BY <1>1, <2>1, InFlightLemma DEF EndWithEvaluation
  <2>3. status[e] = "absent"
    BY <2>1, NewTaskLemma DEF EndWithEvaluation, Insert
  <2>4. status' = [status EXCEPT ![t] = "completed", ![e] = "queued"]
    BY <2>1 DEF EndWithEvaluation, Insert
  <2>5. inFlight' = inFlight \ {t}
    BY <2>1 DEF EndWithEvaluation, Leaves
  <2>6. e \in Tasks \ {t}
    BY <2>2, <2>3
  <2>7. Lifecycle!Complete(t)
    BY <1>1, <2>2, <2>3, <2>4, <2>5, <2>6 DEF Lifecycle!Complete
  <2> QED
    BY <2>7 DEF LStep, Lifecycle!Next
<1>5. CASE EndFailed(t)
  <2>1. Lifecycle!Stop(t, "failed")
    BY <1>1, <1>5 DEF EndFailed, End, Leaves, Lifecycle!Stop
  <2> QED
    BY <2>1 DEF LStep, Lifecycle!Next
<1> QED
  BY <1>2, <1>3, <1>4, <1>5 DEF Engine

\* Faults of the worker and the ends of the process interrupt; the start recovers.
LEMMA ProcessLemma ==
    ASSUME IInv, (\E t \in Tasks : Fault(t)) \/ Crash \/ Shutdown \/ Start
    PROVE  LStep
<1>1. CASE \E t \in Tasks : WorkerFaultBefore(t)
  BY <1>1 DEF WorkerFaultBefore, table, LStep
<1>2. CASE \E t \in Tasks : WorkerFaultAfter(t)
  <2>1. inFlight' = {}
    BY <1>2, InFlightLemma DEF WorkerFaultAfter, Executing
  <2>2. Lifecycle!Interrupt
    BY <1>2, <2>1 DEF WorkerFaultAfter, table, Lifecycle!Interrupt
  <2> QED
    BY <2>2 DEF LStep, Lifecycle!Next
<1>3. CASE Crash
  BY <1>3 DEF Crash, MemoryLost, LStep, Lifecycle!Next, Lifecycle!Interrupt
<1>4. CASE Shutdown
  <2>1. status' = [t \in Tasks |-> IF t \in inFlight THEN "cancelled" ELSE status[t]]
    BY <1>4, InFlightLemma DEF Shutdown
  <2>2. Lifecycle!Interrupt
    BY <1>4, <2>1 DEF Shutdown, MemoryLost, Lifecycle!Interrupt
  <2> QED
    BY <2>2 DEF LStep, Lifecycle!Next
<1>5. CASE Start
  <2>1. inFlight = {} /\ inFlight' = inFlight
    BY <1>5 DEF Start, IInv, WorkerState
  <2>2. status' = [t \in Tasks |-> IF status[t] = "running" THEN "failed" ELSE status[t]]
    BY <1>5, OrphansLemma DEF Start
  <2>3. Lifecycle!Recover
    BY <2>1, <2>2 DEF Lifecycle!Recover
  <2> QED
    BY <2>3 DEF LStep, Lifecycle!Next
<1> QED
  BY <1>1, <1>2, <1>3, <1>4, <1>5 DEF Fault

\* Every step of the scheduler is a step of the life cycle or a stutter.
LEMMA LifecycleStep == ASSUME IInv, [Next]_vars PROVE LStep
<1>1. CASE ToggleImageFirst \/ UNCHANGED vars
  BY <1>1 DEF ToggleImageFirst, vars, table, memory, LStep
<1> QED
  BY <1>1, ClientLemma, WorkerTakesLemma, EngineLemma, ProcessLemma DEF Next

\* The scheduler, with its heap, its tokens, its faults and restarts, does to every
\* task only what the life cycle allows.
THEOREM Refinement == Spec => ImplementsLifecycle
<1>1. Init => Lifecycle!Init
  BY DEF Init, Lifecycle!Init
<1>2. IInv /\ [Next]_vars => [Lifecycle!Next]_(Lifecycle!vars)
  BY LifecycleStep DEF LStep, Lifecycle!vars
<1> QED
  BY <1>1, <1>2, Invariance, PTL DEF Spec, ImplementsLifecycle, Lifecycle!Spec

\* In the life cycle, no step leads from "cancelled" to "completed".
LEMMA NoCompletion ==
    ASSUME IInv, LStep
    PROVE  \A t \in Tasks : status[t] = "cancelled" => status'[t] # "completed"
<1>1. status \in [Tasks -> Statuses \cup {"absent"}]
  BY InFlightLemma
<1>2. CASE \E u \in Tasks : Lifecycle!Enqueue(u) \/ Lifecycle!Cancel(u)
                           \/ Lifecycle!Requeue(u) \/ Lifecycle!Remove(u)
  BY <1>1, <1>2 DEF Lifecycle!Enqueue, Lifecycle!Cancel, Lifecycle!Requeue, Lifecycle!Remove
<1>3. CASE \E u \in Tasks : Lifecycle!Begin(u) \/ Lifecycle!Complete(u)
  BY <1>1, <1>3 DEF Lifecycle!Begin, Lifecycle!Complete
<1>4. CASE \E u \in Tasks, st \in {"failed", "cancelled"} : Lifecycle!Stop(u, st)
  BY <1>1, <1>4 DEF Lifecycle!Stop
<1>5. CASE Lifecycle!Interrupt \/ Lifecycle!Recover \/ UNCHANGED <<status, inFlight>>
  BY <1>1, <1>5 DEF Lifecycle!Interrupt, Lifecycle!Recover
<1> QED
  BY <1>2, <1>3, <1>4, <1>5 DEF LStep, Lifecycle!Next

\* A task the user cancelled is not reported as completed, in whatever order the
\* cancellation, the engine's return, a fault and a restart happen.
THEOREM CancelHolds == Spec => CancelledNeverCompletes
<1>1. IInv /\ [Next]_vars =>
        [\A t \in Tasks : status[t] = "cancelled" => status'[t] # "completed"]_vars
  BY LifecycleStep, NoCompletion
<1> QED
  BY <1>1, Invariance, PTL DEF Spec, CancelledNeverCompletes

=============================================================================
