--------------------------- MODULE TaskScheduler ---------------------------
(***************************************************************************)
(* The global single-worker task scheduler:                                *)
(* src/backend/scheduler/task_scheduler.py over the task table of          *)
(* src/backend/persistence/v3_task_store.py.                               *)
(*                                                                         *)
(* Every handler of the scheduler is a coroutine of one event loop, and    *)
(* none of them suspends: the heap lock is never contended, a put on an    *)
(* unbounded PriorityQueue returns at once, and the engines' cancel()      *)
(* returns at once.  Each handler is therefore one action.  The worker     *)
(* suspends in two places, waiting for the queue and waiting for the       *)
(* engine, so an execution is two actions: WorkerTakes and one of the      *)
(* engine's outcomes.  The table survives a crash; the heap, the in-flight *)
(* set and the cancel tokens do not.                                       *)
(***************************************************************************)
EXTENDS Naturals, Sequences, FiniteSets

CONSTANTS
    Tasks,           \* task ids; a new_task_id() is never used twice
    SubmitKinds,     \* the kinds clients submit
    QueryLimit,      \* the LIMIT 500 of the table queries of a rebuild and a recovery
    MaxContinues,    \* bound: in-place continuations of LoRA trainings
    MaxFaults,       \* bound: exceptions that escape the worker loop
    MaxRestarts      \* bound: crashes and shutdowns of the process

\* Image kinds stand for audio and tools kinds too: the scheduler treats them alike.
Kinds == {"image", "video", "training", "evaluation"}
Statuses == {"queued", "running", "completed", "failed", "cancelled"}
Terminal == {"completed", "failed", "cancelled"}
Priorities == {"high", "normal"}
Bands == 0..2

ASSUME TasksAssumption == IsFiniteSet(Tasks)
ASSUME KindsAssumption == SubmitKinds \subseteq Kinds
ASSUME LimitAssumption == QueryLimit \in Nat \ {0}
ASSUME BoundsAssumption == {MaxContinues, MaxFaults, MaxRestarts} \subseteq Nat

VARIABLES
    \* The tasks table.
    status,       \* status of each row; "absent" where there is no row
    kind,         \* kind of each row
    priority,     \* priority of each row: 50 is "high", 100 is "normal"
    created,      \* created_at of each row as its place in the order of submissions
    clock,        \* the latest created_at
    \* The memory of the process.
    heap,         \* _pq: for each band the task ids in the order of their sequence numbers
    inFlight,     \* _in_flight
    tokens,       \* _tokens: the cancel token of each task, if it has one
    worker,       \* the _worker coroutine; "down" when the process does not run
    \* The configuration file, and the counters that bound the model.
    imageFirst,   \* queue_image_first
    continues, faults, restarts

table == <<status, kind, priority, created, clock>>
memory == <<heap, inFlight, tokens, worker>>
bounds == <<continues, faults, restarts>>
vars == <<table, memory, imageFirst, bounds>>

Up == worker # "down"
Queued(st) == {t \in Tasks : st[t] = "queued"}

---------------------------------------------------------------------------
(* The heap.                                                               *)

\* Mutant: the band of videos before the priority.
VideoBandFirst(k, p) ==
    IF imageFirst /\ k = "video" THEN 2 ELSE IF p = "high" THEN 0 ELSE 1

QueueBand(k, p) ==
    IF p = "high" THEN 0 ELSE IF imageFirst /\ k = "video" THEN 2 ELSE 1

\* An entry put now has the largest sequence number of its band.
Put(h, band, t) == [h EXCEPT ![band] = Append(@, t)]

\* list_tasks: the newest n rows of a set of rows.
Newest(S, n) ==
    {t \in S : Cardinality({u \in S : created[u] > created[t]}) < n}

\* rows.sort(key=_queued_row_sort_key) within one band.  The key is (band,
\* priority, created_at), and all the rows of a band have one priority.
Sorted(S) ==
    CHOOSE s \in [1..Cardinality(S) -> S] :
        \A i, j \in DOMAIN s : i < j => created[s[i]] < created[s[j]]

\* Mutant: no rebuild after the change of a row.
HeapKept(st, pr, flying) == heap

\* Mutant: the heap is not drained before the rows are put.
RebuiltUndrained(st, pr, flying) ==
    [b \in Bands |-> heap[b] \o
        Sorted({t \in Queued(st) \ flying : QueueBand(kind[t], pr[t]) = b})]

\* _rebuild_queued_heap, on the rows as the caller has just left them.
Rebuilt(st, pr, flying) ==
    LET rows == Newest(Queued(st), QueryLimit) \ flying
    IN  [b \in Bands |-> Sorted({t \in rows : QueueBand(kind[t], pr[t]) = b})]

NonEmpty == {b \in Bands : heap[b] # <<>>}

---------------------------------------------------------------------------
(* Rows and tokens.                                                        *)

\* insert_task, the token and the put of submit(), with p the priority.
Insert(st, k, t, kd, p) ==
    /\ created[t] = 0
    /\ clock' = clock + 1
    /\ created' = [created EXCEPT ![t] = clock + 1]
    /\ status' = [st EXCEPT ![t] = "queued"]
    /\ kind' = [kind EXCEPT ![t] = kd]
    /\ priority' = [priority EXCEPT ![t] = p]
    /\ tokens' = [k EXCEPT ![t] = "live"]
    /\ heap' = Put(heap, QueueBand(kd, p), t)

\* Mutant: only the row is cancelled.
TokenUntouched(t) == tokens

TokenCancelled(t) ==
    [tokens EXCEPT ![t] = IF @ = "none" THEN "none" ELSE "cancelled"]

\* Mutant: setdefault, as in the worker.
TokenReused(t) == [tokens EXCEPT ![t] = IF @ = "none" THEN "live" ELSE @]

TokenRenewed(t) == [tokens EXCEPT ![t] = "live"]

\* Mutant: the row is asked instead of the in-flight set.
RowIsTerminal(t) == status[t] \in Terminal

\* delete_task() and continue_lora_training() raise when the worker still executes
\* the task, whose row may be cancelled already.
NotInFlight(t) == t \notin inFlight

NoTokens == [t \in Tasks |-> "none"]
EmptyHeap == [b \in Bands |-> <<>>]

Init ==
    /\ status = [t \in Tasks |-> "absent"]
    /\ kind = [t \in Tasks |-> "image"]
    /\ priority = [t \in Tasks |-> "normal"]
    /\ created = [t \in Tasks |-> 0]
    /\ clock = 0
    /\ heap = EmptyHeap
    /\ inFlight = {}
    /\ tokens = NoTokens
    /\ worker = "idle"
    /\ imageFirst \in BOOLEAN
    /\ continues = 0
    /\ faults = 0
    /\ restarts = 0

---------------------------------------------------------------------------
(* The handlers clients call.                                              *)

\* POST of a generation, an edit, a training ...: submit().
Submit(t, kd, p) ==
    /\ Up
    /\ Insert(status, tokens, t, kd, p)
    /\ UNCHANGED <<inFlight, worker, imageFirst, bounds>>

\* cancel(): the token first, then what the row's status calls for.
Cancel(t) ==
    /\ Up
    /\ status[t] # "absent"
    /\ tokens' = TokenCancelled(t)
    /\ \/ /\ status[t] = "queued"
          /\ status' = [status EXCEPT ![t] = "cancelled"]
          /\ heap' = Rebuilt(status', priority, inFlight)
       \/ /\ status[t] = "running"
          /\ status' = [status EXCEPT ![t] = "cancelled"]
          /\ UNCHANGED heap
       \/ /\ status[t] \in Terminal      \* "not_cancellable"
          /\ UNCHANGED <<status, heap>>
    /\ UNCHANGED <<kind, priority, created, clock, inFlight, worker, imageFirst, bounds>>

\* delete_task(), as its only callers use it: for a LoRA training or an
\* evaluation whose row is terminal.  In flight it raises "task is still running".
DeleteTask(t) ==
    /\ Up
    /\ kind[t] \in {"training", "evaluation"}
    /\ status[t] \in Terminal
    /\ NotInFlight(t)
    /\ status' = [status EXCEPT ![t] = "absent"]
    /\ tokens' = [tokens EXCEPT ![t] = "none"]
    /\ UNCHANGED <<kind, priority, created, clock, heap, inFlight, worker, imageFirst, bounds>>

\* update_queued_priority()
UpdateQueuedPriority(t, p) ==
    /\ Up
    /\ status[t] = "queued"
    /\ priority[t] # p
    /\ priority' = [priority EXCEPT ![t] = p]
    /\ heap' = Rebuilt(status, priority', inFlight)
    /\ UNCHANGED <<status, kind, created, clock, inFlight, tokens, worker, imageFirst, bounds>>

\* continue_lora_training(), of a training with a checkpoint to resume from.
ContinueLoraTraining(t, p) ==
    /\ Up
    /\ kind[t] = "training"
    /\ status[t] \in {"cancelled", "failed"}
    /\ NotInFlight(t)
    /\ continues < MaxContinues
    /\ continues' = continues + 1
    /\ status' = [status EXCEPT ![t] = "queued"]
    /\ priority' = [priority EXCEPT ![t] = p]
    /\ tokens' = TokenRenewed(t)
    /\ heap' = Rebuilt(status', priority', inFlight)
    /\ UNCHANGED <<kind, created, clock, inFlight, worker, imageFirst, faults, restarts>>

\* A settings update; it leaves the heap as it is.
ToggleImageFirst ==
    /\ Up
    /\ imageFirst' = ~imageFirst
    /\ UNCHANGED <<table, memory, bounds>>

---------------------------------------------------------------------------
(* The worker.                                                             *)

\* The lowest band that holds an entry, and the entry the worker pops.
FirstBand == CHOOSE b \in NonEmpty : \A c \in NonEmpty : b <= c
Popped == [heap EXCEPT ![FirstBand] = Tail(@)]

\* _worker_loop and _execute up to the await of dispatch_task: the early returns
\* for a row that is not queued, mark_running, and the check of the token.
WorkerTakes(t) ==
    /\ worker = "idle"
    /\ NonEmpty # {}
    /\ t = Head(heap[FirstBand])
    /\ heap' = Popped
    /\ IF status[t] # "queued"
       THEN UNCHANGED <<status, tokens, inFlight, worker>>
       ELSE IF tokens[t] = "cancelled"
            THEN /\ status' = [status EXCEPT ![t] = "cancelled"]
                 /\ tokens' = [tokens EXCEPT ![t] = "none"]
                 /\ UNCHANGED <<inFlight, worker>>
            ELSE /\ status' = [status EXCEPT ![t] = "running"]
                 /\ tokens' = [tokens EXCEPT ![t] = "live"]
                 /\ inFlight' = inFlight \cup {t}
                 /\ worker' = "busy"
    /\ UNCHANGED <<kind, priority, created, clock, imageFirst, bounds>>

\* Mutants: no discard from the in-flight set; no further turn of the loop.
LeavesInFlight(t) == worker' = "idle" /\ UNCHANGED <<inFlight, imageFirst, bounds>>
LeavesForGood(t) ==
    inFlight' = inFlight \ {t} /\ worker' = "dead" /\ UNCHANGED <<imageFirst, bounds>>

\* The finally blocks of _execute and _worker_loop.
Leaves(t) ==
    /\ inFlight' = inFlight \ {t}
    /\ worker' = "idle"
    /\ UNCHANGED <<imageFirst, bounds>>

End(t, st) ==
    /\ status' = [status EXCEPT ![t] = st]
    /\ tokens' = [tokens EXCEPT ![t] = "none"]
    /\ Leaves(t)
    /\ UNCHANGED <<kind, priority, created, clock, heap>>

Executing(t) == worker = "busy" /\ t \in inFlight

\* The engine returns, or notices the token and raises CancelledError, and the token
\* is cancelled.
EndCancelled(t) == Executing(t) /\ tokens[t] = "cancelled" /\ End(t, "cancelled")

\* Mutant: the token is not looked at once the engine has returned.
EndUnchecked(t) == Executing(t) /\ End(t, "completed")

\* The engine returns a result.
EndCompleted(t) == Executing(t) /\ tokens[t] # "cancelled" /\ End(t, "completed")

\* A training returns candidates: _maybe_enqueue_lora_evaluation submits e.
EndWithEvaluation(t, e) ==
    /\ Executing(t)
    /\ tokens[t] # "cancelled"
    /\ kind[t] = "training"
    /\ Insert([status EXCEPT ![t] = "completed"], [tokens EXCEPT ![t] = "none"],
              e, "evaluation", "normal")
    /\ Leaves(t)

\* The engine raises: mark_failed, whatever the row and the token say.
EndFailed(t) == Executing(t) /\ End(t, "failed")

\* An exception outside the try of _execute (the work directory, the database)
\* ends the worker coroutine; nobody starts another.
WorkerFaultBefore(t) ==
    /\ faults < MaxFaults
    /\ faults' = faults + 1
    /\ worker = "idle"
    /\ NonEmpty # {}
    /\ t = Head(heap[FirstBand])
    /\ heap' = Popped
    /\ tokens' = [tokens EXCEPT ![t] = IF @ = "none" THEN "live" ELSE @]
    /\ worker' = "dead"
    /\ UNCHANGED <<table, inFlight, imageFirst, continues, restarts>>

\* The same in the handling of an outcome: the row keeps its status.
WorkerFaultAfter(t) ==
    /\ faults < MaxFaults
    /\ faults' = faults + 1
    /\ Executing(t)
    /\ tokens' = [tokens EXCEPT ![t] = "none"]
    /\ inFlight' = inFlight \ {t}
    /\ worker' = "dead"
    /\ UNCHANGED <<table, heap, imageFirst, continues, restarts>>

---------------------------------------------------------------------------
(* The process.                                                            *)

MemoryLost ==
    /\ worker' = "down"
    /\ heap' = EmptyHeap
    /\ inFlight' = {}
    /\ tokens' = NoTokens
    /\ UNCHANGED <<kind, priority, created, clock, imageFirst, continues, faults>>

Crash ==
    /\ Up
    /\ restarts < MaxRestarts
    /\ restarts' = restarts + 1
    /\ MemoryLost
    /\ UNCHANGED status

\* shutdown(): the cancelled coroutine marks the row it executes.
Shutdown ==
    /\ Up
    /\ restarts < MaxRestarts
    /\ restarts' = restarts + 1
    /\ status' = [t \in Tasks |->
           IF worker = "busy" /\ t \in inFlight THEN "cancelled" ELSE status[t]]
    /\ MemoryLost

\* start(): _recover_orphaned_running, _rebuild_queued_heap, a new worker.
Start ==
    /\ worker = "down"
    /\ LET orphans == Newest({t \in Tasks : status[t] = "running"}, QueryLimit)
       IN  /\ status' = [t \in Tasks |-> IF t \in orphans THEN "failed" ELSE status[t]]
           /\ tokens' = [t \in Tasks |-> IF t \in orphans THEN "none" ELSE tokens[t]]
    /\ heap' = Rebuilt(status', priority, inFlight)
    /\ worker' = "idle"
    /\ UNCHANGED <<kind, priority, created, clock, inFlight, imageFirst, bounds>>

---------------------------------------------------------------------------

Client(t) ==
    \/ \E kd \in SubmitKinds, p \in Priorities : Submit(t, kd, p)
    \/ Cancel(t)
    \/ DeleteTask(t)
    \/ \E p \in Priorities : UpdateQueuedPriority(t, p)
    \/ \E p \in Priorities : ContinueLoraTraining(t, p)

Engine(t) ==
    \/ EndCancelled(t)
    \/ EndCompleted(t)
    \/ \E e \in Tasks : EndWithEvaluation(t, e)
    \/ EndFailed(t)

Fault(t) == WorkerFaultBefore(t) \/ WorkerFaultAfter(t)

Next ==
    \/ \E t \in Tasks : Client(t) \/ WorkerTakes(t) \/ Engine(t) \/ Fault(t)
    \/ ToggleImageFirst
    \/ Crash
    \/ Shutdown
    \/ Start

Spec == Init /\ [][Next]_vars

\* The event loop runs a ready coroutine, and an engine call ends.
Fairness ==
    /\ WF_vars(\E t \in Tasks : WorkerTakes(t))
    /\ WF_vars(\E t \in Tasks : Engine(t))

FairSpec == Spec /\ Fairness

---------------------------------------------------------------------------
(* Properties.                                                             *)

\* Every variable has its type: the columns and the process memory hold what the
\* code puts in them.
TypeOK ==
    /\ status \in [Tasks -> Statuses \cup {"absent"}]
    /\ kind \in [Tasks -> Kinds]
    /\ priority \in [Tasks -> Priorities]
    /\ created \in [Tasks -> Nat]
    /\ clock \in Nat
    /\ heap \in [Bands -> Seq(Tasks)]
    /\ inFlight \subseteq Tasks
    /\ tokens \in [Tasks -> {"none", "live", "cancelled"}]
    /\ worker \in {"down", "idle", "busy", "dead"}
    /\ imageFirst \in BOOLEAN
    /\ continues \in Nat /\ faults \in Nat /\ restarts \in Nat

Working == worker \in {"idle", "busy"}

\* While the worker lives, a row says "running" only of the one task the worker
\* executes, across cancellations, restarts and continuations.
OneTaskRuns ==
    /\ \A t, u \in inFlight : t = u
    /\ Working => \A t \in Tasks : status[t] = "running" => Executing(t)

InHeap(t) == \E b \in Bands : \E i \in DOMAIN heap[b] : heap[b][i] = t

\* While the worker lives, the heap holds the queued rows, all of them and nothing
\* else: no queued task is stranded and no other is executed.
HeapIsTheQueue ==
    Working => \A t \in Tasks : status[t] = "queued" <=> InHeap(t)

\* No task is in the heap twice, or there while the worker executes it: one
\* submission or continuation is one execution.
NoDuplicates ==
    /\ \A b, c \in Bands : \A i \in DOMAIN heap[b], j \in DOMAIN heap[c] :
           heap[b][i] = heap[c][j] => b = c /\ i = j
    /\ \A t \in inFlight : ~InHeap(t)

\* A queued task is not cancelled by a token of an earlier life: the token of a
\* task that was cancelled in the queue stays in _tokens, and the continuation
\* replaces it.
QueuedTokenIsLive ==
    \A t \in Tasks : status[t] = "queued" => tokens[t] # "cancelled"

\* The engine of a cancelled task can learn of the cancellation.
CancelReachesEngine ==
    \A t \in inFlight : status[t] = "cancelled" <=> tokens[t] = "cancelled"

\* Band 0 is the high-priority rows, and every band is in the order of creation,
\* whatever was submitted, re-prioritised, continued or toggled in between.
HeapOrder ==
    \A b \in Bands : \A i \in DOMAIN heap[b] :
        /\ b = 0 <=> priority[heap[b][i]] = "high"
        /\ \A j \in DOMAIN heap[b] : i < j => created[heap[b][i]] < created[heap[b][j]]

\* A task the user cancelled is not reported as completed later, unless it was
\* queued again in between.
CancelledNeverCompletes ==
    [][\A t \in Tasks : status[t] = "cancelled" => status'[t] # "completed"]_vars

\* A queued task is not overtaken by a task that starts: a normal one does not start
\* before a high one, nor a high one before an older high one, nor a normal image
\* before an older normal image.
Overtakes(t, u) ==
    \/ priority[t] = "normal" /\ priority[u] = "high"
    \/ /\ priority[t] = priority[u]
       /\ priority[t] = "normal" => "video" \notin {kind[t], kind[u]}
       /\ created[u] < created[t]

StartsInOrder ==
    [][\A t \in Tasks : (t \notin inFlight /\ t \in inFlight') =>
          \A u \in Queued(status) \ {t} : ~Overtakes(t, u)]_vars

\* The scheduler implements the life cycle clients rely on.
Lifecycle == INSTANCE TaskLifecycle WITH state <- status, active <- inFlight
ImplementsLifecycle == Lifecycle!Spec

\* Every queued task is taken from the queue, provided that no exception kills the
\* worker, the process lives on, and trainings are continued finitely often.
QueuedIsTaken ==
    \A t \in Tasks : status[t] = "queued" ~> status[t] # "queued"

---------------------------------------------------------------------------
(* What the properties above rest on, for the proofs.                      *)

\* created_at tells the rows apart, and every row has one.
CreationOrder ==
    /\ \A t \in Tasks : created[t] <= clock
    /\ \A t \in Tasks : status[t] # "absent" => created[t] # 0
    /\ \A t, u \in Tasks : created[t] = created[u] /\ created[t] # 0 => t = u

\* Only a busy worker has a task in flight, and that task is running or cancelled.
\* A dead worker may leave one row running.
WorkerState ==
    /\ worker # "busy" => inFlight = {}
    /\ \A t \in inFlight : status[t] \in {"running", "cancelled"} /\ tokens[t] # "none"
    /\ \A t, u \in Tasks : status[t] = "running" /\ status[u] = "running" => t = u

HeapIsQueued == \A t \in Tasks : InHeap(t) => status[t] = "queued"

IInv ==
    /\ TypeOK
    /\ CreationOrder
    /\ WorkerState
    /\ OneTaskRuns
    /\ CancelReachesEngine
    /\ QueuedTokenIsLive
    /\ HeapIsQueued
    /\ NoDuplicates
    /\ HeapOrder

===========================================================================
