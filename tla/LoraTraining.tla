--------------------------- MODULE LoraTraining ---------------------------
(***************************************************************************)
(* LoRA trainings, the evaluation of their checkpoints, the registration   *)
(* of one of them and the removal of the result:                           *)
(* src/backend/api/routes/loras.py, src/backend/engine/training/ and the   *)
(* follow-up handlers of src/backend/scheduler/task_scheduler.py.          *)
(*                                                                         *)
(* The rows of the tasks are the scheduler's: every change of a row is an  *)
(* action of TaskLifecycle, which TaskSchedulerRefinement proves the       *)
(* scheduler to implement.  Four kinds of actors share the files of a      *)
(* training: the handlers on the event loop, one at a time (Loop); the     *)
(* trainers, processes of their own that outlive the server; the thread of *)
(* an evaluation; and the threads that serve registrations and removals    *)
(* of adapters, which read a file in one step and write it in another.     *)
(***************************************************************************)
EXTENDS Naturals, FiniteSets

CONSTANTS
    Trainings, Evaluations,  \* task ids of the two kinds
    Procs,                   \* trainer processes
    Requests,                \* calls of register and of remove_user_adapter;
                             \* an adapter is named after the call that published it
    None,
    EarlyFailures,           \* whether an evaluation may fail before it generates
    MaxLives                 \* bound: crashes and shutdowns of the server

ASSUME IdsAssumption == Trainings \cap Evaluations = {}
ASSUME NoneAssumption == None \notin Evaluations \cup Procs \cup Requests \cup Trainings
ASSUME ProcsAssumption == IsFiniteSet(Procs)
ASSUME ParametersAssumption == EarlyFailures \in BOOLEAN /\ MaxLives \in Nat

VARIABLES
    state, active,   \* the rows and the tasks an engine works on (TaskLifecycle)
    issued,          \* the training ids in use or used: ids are never used twice
    resumes,         \* whose checkpoint the row of each training names to resume from
    evalOf,          \* params.training_task_id of each evaluation
    forced,          \* the evaluations submitted with force
    \* The work directory of each training.
    dirs,            \* the directories that exist
    saved,           \* the trainings with a checkpoint on disk
    manifest,        \* candidate_evaluation.json
    result,          \* lora_worker_result.json
    \* The actors.
    proc,            \* what each trainer process works on
    awaited,         \* the process the server waits for
    thread,          \* the thread of each evaluation
    req,             \* the thread of each request
    deletion,        \* delete_training_result as it proceeds
    up,              \* the server runs
    lives,           \* how often it was interrupted
    \* config/user_loras.json.
    registry,        \* the adapters listed
    removed,         \* the adapters a removal has reported as removed
    clobbered        \* a write of the registry undid one it had not seen

rows == <<state, active, issued, resumes, evalOf, forced>>
disk == <<dirs, saved, manifest, result>>
actors == <<proc, awaited, thread, req, deletion>>
server == <<up, lives>>
list == <<registry, removed, clobbered>>
vars == <<rows, disk, actors, server, list>>

Sched == INSTANCE TaskLifecycle WITH Tasks <- Trainings \cup Evaluations

Open == {"queued", "running"}
Done == {"completed", "failed", "cancelled"}

Manifests == [status : {"none", "pending_evaluation", "evaluating", "failed", "ready",
                        "registered"},
              eval : Evaluations \cup {None}, lora : Requests \cup {None}]
Manifest(st, e, q) == [status |-> st, eval |-> e, lora |-> q]
NoManifest == Manifest("none", None, None)

NoProc == [of |-> None, pc |-> "idle", from |-> None]
NoReq == [of |-> None, pc |-> "idle", regs |-> {}, lora |-> None, seen |-> NoManifest]
NoDeletion == [of |-> None, pc |-> "idle", regs |-> {}, loras |-> {}, lora |-> None]

\* An execution whose checkpoint is gone holds the event loop until it has failed.
NoTrainer == awaited = None /\ active \cap Trainings # {}

\* The event loop is free for a handler.
Loop == up /\ deletion.pc = "idle" /\ ~NoTrainer

Init ==
    /\ Sched!Init
    /\ issued = {} /\ forced = {}
    /\ resumes = [r \in Trainings |-> None]
    /\ evalOf = [e \in Evaluations |-> None]
    /\ dirs = {} /\ saved = {}
    /\ manifest = [r \in Trainings |-> NoManifest]
    /\ result = [r \in Trainings |-> "none"]
    /\ proc = [p \in Procs |-> NoProc]
    /\ awaited = None
    /\ thread = [e \in Evaluations |-> "none"]
    /\ req = [q \in Requests |-> NoReq]
    /\ deletion = NoDeletion
    /\ up = TRUE /\ lives = 0
    /\ registry = {} /\ removed = {} /\ clobbered = FALSE

---------------------------------------------------------------------------
(* The manifest.                                                           *)

\* mark_evaluation_queued, which keeps what else the manifest says.
Queued(r, e) == [manifest EXCEPT ![r].status = "evaluating", ![r].eval = e]

\* mark_evaluation_aborted, for the training of e.
Aborted(e) ==
    LET r == evalOf[e]
        m == manifest[r]
    IN  IF m.status \in {"none", "ready", "registered"} \/ m.eval \notin {None, e}
        THEN manifest
        ELSE [manifest EXCEPT ![r].status = "failed", ![r].eval = e]

\* save_candidate_evaluation: write_text fails where there is no directory.
Saved(r, m) == IF r \in dirs THEN [manifest EXCEPT ![r] = m] ELSE manifest

---------------------------------------------------------------------------
(* Trainings: submit_training, the trainer, the end of the execution.      *)

\* _resolve_resume_adapter: a training may resume from the checkpoint of another one,
\* whose removal does not ask who names it.
SubmitTraining(r) ==
    /\ Loop
    /\ r \notin issued
    /\ Sched!Enqueue(r)
    /\ issued' = issued \cup {r}
    /\ \E s \in saved \cup {None} : resumes' = [resumes EXCEPT ![r] = s]
    /\ UNCHANGED <<evalOf, forced, disk, actors, server, list>>

\* The file that a row, or a trainer, names is there.
Readable(s) == s # None => s \in saved

\* The worker takes the task; run_lora_training_subprocess copies the checkpoint of
\* another training into the directory, unlinks the last result and starts a process.
BeginTraining(r, p) ==
    /\ Loop
    /\ Sched!Begin(r)
    /\ Readable(resumes[r])
    /\ proc[p].pc = "idle"
    /\ proc' = [proc EXCEPT ![p] = [of |-> r, pc |-> "starting", from |-> resumes[r]]]
    /\ awaited' = p
    /\ dirs' = dirs \cup {r}
    /\ saved' = IF resumes[r] = None THEN saved ELSE saved \cup {r}
    /\ result' = [result EXCEPT ![r] = "none"]
    /\ UNCHANGED <<issued, resumes, evalOf, forced, manifest,
                   thread, req, deletion, server, list>>

\* It is gone: there is an execution without a process ...
BeginTrainless(r) ==
    /\ Loop
    /\ Sched!Begin(r)
    /\ ~Readable(resumes[r])
    /\ dirs' = dirs \cup {r}
    /\ UNCHANGED <<issued, resumes, evalOf, forced, saved, manifest, result,
                   actors, server, list>>

\* ... which fails.
FailsTrainless(r) ==
    /\ up /\ deletion.pc = "idle"
    /\ NoTrainer
    /\ Sched!Stop(r, "failed")
    /\ dirs' = dirs \cup {r}
    /\ UNCHANGED <<issued, resumes, evalOf, forced, saved, manifest, result,
                   actors, server, list>>

TrainerLeaves(p) == proc' = [proc EXCEPT ![p] = NoProc]
Reports(r, what) == result' = IF r \in dirs THEN [result EXCEPT ![r] = what] ELSE result

\* load_training_checkpoint, of the file that the row named and not of its copy.
TrainerLoads(p) ==
    /\ proc[p].pc = "starting"
    /\ Readable(proc[p].from)
    /\ proc' = [proc EXCEPT ![p].pc = "training"]
    /\ UNCHANGED <<rows, disk, awaited, thread, req, deletion, server, list>>

TrainerSaves(p) ==
    /\ proc[p].pc = "training"
    /\ saved' = saved \cup {proc[p].of}
    /\ UNCHANGED <<rows, dirs, manifest, result, actors, server, list>>

\* Mutant: the result is written before the manifest.
FinishesUnlisted(p) ==
    /\ proc[p].pc = "training"
    /\ saved' = saved \cup {proc[p].of}
    /\ Reports(proc[p].of, "ok")
    /\ TrainerLeaves(p)
    /\ UNCHANGED <<rows, dirs, manifest, awaited, thread, req, deletion, server, list>>

\* finish_training_without_register, then the result.
TrainerFinishes(p) ==
    /\ proc[p].pc = "training"
    /\ LET r == proc[p].of
       IN  /\ saved' = saved \cup {r}
           /\ manifest' = [manifest EXCEPT ![r] = Manifest("pending_evaluation", None, None)]
           /\ Reports(r, "ok")
    /\ TrainerLeaves(p)
    /\ UNCHANGED <<rows, dirs, awaited, thread, req, deletion, server, list>>

\* DbBackedCancelToken reads the row: only a cancelled or missing row stops it.  Seeing
\* it and writing the result is one step.
TrainerStops(p) ==
    /\ proc[p].pc # "idle"
    /\ state[proc[p].of] \in {"cancelled", "absent"}
    /\ Reports(proc[p].of, "cancelled")
    /\ TrainerLeaves(p)
    /\ UNCHANGED <<rows, dirs, saved, manifest, awaited, thread, req, deletion, server, list>>

\* An exception, also of a trainer whose directory was removed.
TrainerFails(p) ==
    /\ proc[p].pc # "idle"
    /\ Reports(proc[p].of, "failed")
    /\ TrainerLeaves(p)
    /\ UNCHANGED <<rows, dirs, saved, manifest, awaited, thread, req, deletion, server, list>>

\* SIGKILL: no result.
TrainerKilled(p) ==
    /\ proc[p].pc # "idle"
    /\ TrainerLeaves(p)
    /\ UNCHANGED <<rows, disk, awaited, thread, req, deletion, server, list>>

\* _maybe_enqueue_lora_evaluation, whose submission may fail.
FollowUp(r) ==
    /\ Sched!Complete(r)
    /\ \/ /\ state' = [state EXCEPT ![r] = "completed"]
          /\ UNCHANGED <<evalOf, manifest>>
       \/ \E e \in Evaluations :
            /\ evalOf[e] = None
            /\ state' = [state EXCEPT ![r] = "completed", ![e] = "queued"]
            /\ evalOf' = [evalOf EXCEPT ![e] = r]
            /\ manifest' = Queued(r, e)

\* Mutant: the end of the execution without the end of the process.
Returned == awaited # None

\* communicate() returns when the process has ended.
Communicated == awaited # None /\ proc[awaited].pc = "idle"

\* What the result file says, whoever wrote it; finally, _work_dir makes the directory.
TrainingEnds(r) ==
    /\ Loop
    /\ r \in active
    /\ Communicated
    /\ awaited' = None
    /\ dirs' = dirs \cup {r}
    /\ \/ /\ result[r] = "ok"
          /\ state[r] # "cancelled"
          /\ FollowUp(r)
       \/ /\ \/ result[r] = "cancelled"
             \/ result[r] = "ok" /\ state[r] = "cancelled"
          /\ Sched!Stop(r, "cancelled")
          /\ UNCHANGED <<evalOf, manifest>>
       \/ /\ result[r] \in {"none", "failed"}
          /\ Sched!Stop(r, "failed")
          /\ UNCHANGED <<evalOf, manifest>>
    /\ UNCHANGED <<issued, resumes, forced, saved, result,
                   proc, thread, req, deletion, server, list>>

\* continue_lora_training: the same row, in the same directory.
Continue(r) ==
    /\ Loop
    /\ r \in saved
    /\ Sched!Requeue(r)
    /\ resumes' = [resumes EXCEPT ![r] = r]
    /\ dirs' = dirs \cup {r}
    /\ UNCHANGED <<issued, evalOf, forced, saved, manifest, result, actors, server, list>>

---------------------------------------------------------------------------
(* Evaluations: submit_checkpoint_evaluation and its thread.               *)

\* An evaluation that is open already is reused, unless the request forces another.
SubmitEvaluation(r, e, force) ==
    /\ Loop
    /\ state[r] = "completed"
    /\ LET last == manifest[r].eval
       IN  last # None /\ ~force => state[last] \notin Open
    /\ evalOf[e] = None
    /\ Sched!Enqueue(e)
    /\ evalOf' = [evalOf EXCEPT ![e] = r]
    /\ forced' = IF force THEN forced \cup {e} ELSE forced
    /\ dirs' = dirs \cup {r}
    /\ manifest' = Queued(r, e)
    /\ UNCHANGED <<issued, resumes, saved, result, actors, server, list>>

BeginEvaluation(e) ==
    /\ Loop
    /\ Sched!Begin(e)
    /\ thread' = [thread EXCEPT ![e] = "begun"]
    /\ UNCHANGED <<issued, resumes, evalOf, forced, disk,
                   proc, awaited, req, deletion, server, list>>

\* A matrix that is ready is returned as it is, unless forced.
Reusable(e) == manifest[evalOf[e]].status = "ready" /\ e \notin forced

\* run_lora_checkpoint_evaluation up to its first image.
EvaluationChecks(e) ==
    /\ thread[e] = "begun"
    /\ \E outcome \in {"ok", "generating", "failed"} :
        /\ outcome = "ok" => evalOf[e] \in dirs /\ Reusable(e)
        /\ outcome = "generating" => evalOf[e] \in saved /\ ~Reusable(e)
        /\ outcome = "failed" =>
               \/ evalOf[e] \notin dirs
               \/ ~Reusable(e) /\ (evalOf[e] \notin saved \/ EarlyFailures)
        /\ thread' = [thread EXCEPT ![e] = outcome]
    /\ UNCHANGED <<rows, disk, proc, awaited, req, deletion, server, list>>

\* Mutant: the matrix is returned, not written.
GeneratesUnsaved(e) ==
    /\ thread[e] = "generating"
    /\ thread' = [thread EXCEPT ![e] = "ok"]
    /\ UNCHANGED <<rows, disk, proc, awaited, req, deletion, server, list>>

\* Every image of the matrix is there.
EvaluationGenerates(e) ==
    /\ thread[e] = "generating"
    /\ manifest' = Saved(evalOf[e], Manifest("ready", e, None))
    /\ thread' = [thread EXCEPT ![e] = IF evalOf[e] \in dirs THEN "ok" ELSE "failed"]
    /\ UNCHANGED <<rows, dirs, saved, result, proc, awaited, req, deletion, server, list>>

\* An image fails.
CellFails(e) ==
    /\ thread[e] = "generating"
    /\ manifest' = Saved(evalOf[e], Manifest("failed", e, None))
    /\ thread' = [thread EXCEPT ![e] = "failed"]
    /\ UNCHANGED <<rows, dirs, saved, result, proc, awaited, req, deletion, server, list>>

\* raise_if_cancelled before an image; a shutdown does not set the token.
EvaluationStops(e) ==
    /\ up
    /\ thread[e] = "generating"
    /\ state[e] = "cancelled"
    /\ thread' = [thread EXCEPT ![e] = "cancelled"]
    /\ UNCHANGED <<rows, disk, proc, awaited, req, deletion, server, list>>

EvaluationEnds(e) ==
    /\ Loop
    /\ e \in active
    /\ thread[e] \in {"ok", "failed", "cancelled"}
    /\ thread' = [thread EXCEPT ![e] = "none"]
    /\ \/ /\ thread[e] = "ok"
          /\ Sched!Complete(e)
          /\ state' = [state EXCEPT ![e] = "completed"]
       \/ /\ thread[e] = "cancelled" \/ (thread[e] = "ok" /\ state[e] = "cancelled")
          /\ Sched!Stop(e, "cancelled")
       \/ /\ thread[e] = "failed"
          /\ Sched!Stop(e, "failed")
    /\ UNCHANGED <<issued, resumes, evalOf, forced, disk,
                   proc, awaited, req, deletion, server, list>>

\* cancel(), with _sync_lora_evaluation_aborted for an evaluation: _work_dir makes
\* the directory of its training.
Cancel(t) ==
    /\ Loop
    /\ Sched!Cancel(t)
    /\ IF t \in Evaluations
       THEN manifest' = Aborted(t) /\ dirs' = dirs \cup {evalOf[t]}
       ELSE UNCHANGED <<manifest, dirs>>
    /\ UNCHANGED <<issued, resumes, evalOf, forced, saved, result, actors, server, list>>

---------------------------------------------------------------------------
(* Registration: register_training_checkpoint, remove_user_adapter.        *)

Becomes(q, record) == req' = [req EXCEPT ![q] = record]
OnlyReq == UNCHANGED <<rows, disk, proc, awaited, thread, deletion, server>>

\* The checks: a checkpoint on disk, a completed row, a matrix that is ready.
RegisterChecks(q, r) ==
    /\ up
    /\ req[q].pc = "idle"
    /\ r \in saved
    /\ state[r] = "completed"
    /\ manifest[r].status = "ready"
    /\ Becomes(q, [req[q] EXCEPT !.of = r, !.pc = "checked"])
    /\ OnlyReq
    /\ UNCHANGED list

\* publish_trained_adapter copies the checkpoint, and register_user_lora loads the list.
Publishes(q) ==
    /\ req[q].pc = "checked"
    /\ req[q].of \in saved
    /\ Becomes(q, [req[q] EXCEPT !.pc = "registering", !.regs = registry])
    /\ OnlyReq
    /\ UNCHANGED list

\* The name is in use, or the checkpoint is gone: 409.
PublishFails(q) ==
    /\ req[q].pc = "checked"
    /\ Becomes(q, [req[q] EXCEPT !.pc = "refused"])
    /\ OnlyReq
    /\ UNCHANGED list

\* _save of user_loras.json, of a list that was loaded as seen.
Writes(seen, new) ==
    /\ registry' = new
    /\ clobbered' = (clobbered \/ seen # registry)

\* Mutant: the list is written with the new adapter alone.
RegistersAlone(q) ==
    /\ req[q].pc = "registering"
    /\ Writes(req[q].regs, {q})
    /\ Becomes(q, [req[q] EXCEPT !.pc = "published", !.regs = {}])
    /\ OnlyReq
    /\ UNCHANGED removed

Registers(q) ==
    /\ req[q].pc = "registering"
    /\ Writes(req[q].regs, req[q].regs \cup {q})
    /\ Becomes(q, [req[q] EXCEPT !.pc = "published", !.regs = {}])
    /\ OnlyReq
    /\ UNCHANGED removed

\* mark_selection loads the manifest ...
Selects(q) ==
    /\ req[q].pc = "published"
    /\ LET m == manifest[req[q].of]
       IN  Becomes(q, IF m.status = "ready"
                      THEN [req[q] EXCEPT !.pc = "selecting", !.seen = m]
                      ELSE [req[q] EXCEPT !.pc = "refused"])
    /\ OnlyReq
    /\ UNCHANGED list

\* ... and saves it.
SavesSelection(q) ==
    /\ req[q].pc = "selecting"
    /\ LET r == req[q].of
       IN  /\ manifest' = Saved(r, Manifest("registered", req[q].seen.eval, q))
           /\ Becomes(q, [req[q] EXCEPT !.pc = IF r \in dirs THEN "done" ELSE "refused",
                                        !.seen = NoManifest])
    /\ UNCHANGED <<rows, dirs, saved, result, proc, awaited, thread, deletion, server, list>>

\* delete_user_lora loads the list ...
Removes(q, a) ==
    /\ up
    /\ req[q].pc = "idle"
    /\ a \in registry
    /\ Becomes(q, [req[q] EXCEPT !.pc = "removing", !.regs = registry, !.lora = a])
    /\ OnlyReq
    /\ UNCHANGED list

\* ... and saves it.
SavesRemoval(q) ==
    /\ req[q].pc = "removing"
    /\ Writes(req[q].regs, req[q].regs \ {req[q].lora})
    /\ removed' = removed \cup {req[q].lora}
    /\ Becomes(q, [req[q] EXCEPT !.pc = "done", !.regs = {}])
    /\ OnlyReq

---------------------------------------------------------------------------
(* delete_training_result.  It holds the event loop to its end, but the    *)
(* trainers and the threads go on, and the server may crash in between.    *)

\* Mutant: a training that is queued again may be deleted.
NotRunning(r) == state[r] \in Done \cup {"queued"}

\* 409 evaluation_active, or RuntimeError of delete_task for one still in flight.
EvaluationOver(r) ==
    LET e == manifest[r].eval
    IN  e # None => state[e] \notin Open /\ e \notin active

Terminal(r) == state[r] \in Done

\* The checks, and the removal of the evaluation that the manifest names.
DeleteBegins(r) ==
    /\ Loop
    /\ Terminal(r)
    /\ EvaluationOver(r)
    /\ LET e == manifest[r].eval
       IN  IF e # None /\ state[e] \in Done
           THEN /\ Sched!Remove(e)
                /\ manifest' = Aborted(e)
                /\ dirs' = dirs \cup {r}
           ELSE UNCHANGED <<state, active, manifest, dirs>>
    /\ deletion' = [NoDeletion EXCEPT !.of = r, !.pc = "files"]
    /\ UNCHANGED <<issued, resumes, evalOf, forced, saved, result,
                   proc, awaited, thread, req, server, list>>

\* The adapters of the training are listed, then its directory is removed, under
\* whoever works in it.
DeleteFiles ==
    /\ deletion.pc = "files"
    /\ LET r == deletion.of
       IN  /\ deletion' = [deletion EXCEPT !.pc = "adapters",
                               !.loras = {q \in registry : req[q].of = r}]
           /\ dirs' = dirs \ {r}
           /\ saved' = saved \ {r}
           /\ manifest' = [manifest EXCEPT ![r] = NoManifest]
           /\ result' = [result EXCEPT ![r] = "none"]
           /\ proc' = [p \in Procs |->
                  IF proc[p].of = r THEN [proc[p] EXCEPT !.pc = "lost"] ELSE proc[p]]
    /\ UNCHANGED <<rows, awaited, thread, req, server, list>>

\* delete_user_lora of one of them: load and save; RuntimeError if it is not listed.
DeleteLoads(q) ==
    /\ deletion.pc = "adapters"
    /\ q \in deletion.loras
    /\ deletion' = IF q \in registry
                   THEN [deletion EXCEPT !.pc = "saving", !.regs = registry, !.lora = q]
                   ELSE NoDeletion
    /\ UNCHANGED <<rows, disk, proc, awaited, thread, req, server, list>>

DeleteSaves ==
    /\ deletion.pc = "saving"
    /\ Writes(deletion.regs, deletion.regs \ {deletion.lora})
    /\ removed' = removed \cup {deletion.lora}
    /\ deletion' = [NoDeletion EXCEPT !.of = deletion.of, !.pc = "adapters",
                                     !.loras = deletion.loras \ {deletion.lora}]
    /\ UNCHANGED <<rows, disk, proc, awaited, thread, req, server>>

\* delete_task: RuntimeError for a training still in flight, whose row stays.
DeleteRow ==
    /\ deletion.pc = "adapters"
    /\ deletion.loras = {}
    /\ IF deletion.of \in active
       THEN UNCHANGED <<state, active>>
       ELSE Sched!Remove(deletion.of)
    /\ deletion' = NoDeletion
    /\ UNCHANGED <<issued, resumes, evalOf, forced, disk,
                   proc, awaited, thread, req, server, list>>

\* training_artifacts makes the directory of any id it is asked for.
Look(r) ==
    /\ up
    /\ r \in issued
    /\ dirs' = dirs \cup {r}
    /\ UNCHANGED <<rows, saved, manifest, result, actors, server, list>>

---------------------------------------------------------------------------
(* The server.                                                             *)

Down ==
    /\ up
    /\ lives < MaxLives
    /\ lives' = lives + 1
    /\ up' = FALSE
    /\ awaited' = None
    /\ UNCHANGED <<issued, resumes, evalOf, forced, disk, proc, list>>

\* Threads and handlers end where they are; the trainers live on.
Crash ==
    /\ Down
    /\ active' = {}
    /\ UNCHANGED state
    /\ thread' = [e \in Evaluations |-> "none"]
    /\ req' = [q \in Requests |->
           IF req[q].pc \in {"idle", "done", "refused"} THEN req[q]
           ELSE [NoReq EXCEPT !.of = req[q].of, !.pc = "refused"]]
    /\ deletion' = NoDeletion

\* shutdown() cancels the execution, whose row becomes cancelled; uvicorn has waited
\* for the requests, and the thread of an evaluation goes on until it is joined.
Shutdown ==
    /\ Down
    /\ Loop
    /\ \A q \in Requests : req[q].pc \in {"idle", "done", "refused"}
    /\ active' = {}
    /\ state' = [t \in Trainings \cup Evaluations |->
           IF t \in active THEN "cancelled" ELSE state[t]]
    /\ UNCHANGED <<thread, req, deletion>>

\* A new process, once the threads of the last have ended.
Start ==
    /\ ~up
    /\ up' = TRUE
    /\ Sched!Recover
    /\ thread' = [e \in Evaluations |-> "none"]
    /\ UNCHANGED <<issued, resumes, evalOf, forced, disk,
                   proc, awaited, req, deletion, lives, list>>

---------------------------------------------------------------------------

Trainer(p) ==
    TrainerLoads(p) \/ TrainerSaves(p) \/ TrainerFinishes(p) \/ TrainerStops(p) \/ TrainerFails(p)
        \/ TrainerKilled(p)

EvaluationThread(e) ==
    EvaluationChecks(e) \/ EvaluationGenerates(e) \/ CellFails(e) \/ EvaluationStops(e)

Request(q) ==
    \/ \E r \in Trainings : RegisterChecks(q, r)
    \/ Publishes(q) \/ PublishFails(q) \/ Registers(q) \/ Selects(q) \/ SavesSelection(q)
    \/ \E a \in Requests : Removes(q, a)
    \/ SavesRemoval(q)

Deletes == DeleteFiles \/ (\E q \in Requests : DeleteLoads(q)) \/ DeleteSaves \/ DeleteRow

Next ==
    \/ \E r \in Trainings :
        \/ SubmitTraining(r) \/ BeginTrainless(r) \/ FailsTrainless(r) \/ TrainingEnds(r)
        \/ Continue(r) \/ DeleteBegins(r) \/ Look(r)
        \/ \E p \in Procs : BeginTraining(r, p)
        \/ \E e \in Evaluations, force \in BOOLEAN : SubmitEvaluation(r, e, force)
    \/ \E e \in Evaluations : BeginEvaluation(e) \/ EvaluationThread(e) \/ EvaluationEnds(e)
    \/ \E t \in Trainings \cup Evaluations : Cancel(t)
    \/ \E p \in Procs : Trainer(p)
    \/ \E q \in Requests : Request(q)
    \/ Deletes
    \/ Crash \/ Shutdown \/ Start

Spec == Init /\ [][Next]_vars

\* At most one execution is under way.
ExecutionEnds ==
    \/ \E r \in Trainings : TrainingEnds(r) \/ FailsTrainless(r)
    \/ \E e \in Evaluations : EvaluationEnds(e)

\* The handlers of the event loop and the threads run on, trainers and evaluations
\* end, and the worker takes every queued task in its turn, which TaskScheduler's
\* order of starts gives.
Fairness ==
    /\ \A e \in Evaluations : SF_vars(BeginEvaluation(e))
    /\ SF_vars(ExecutionEnds)
    /\ WF_vars(\E e \in Evaluations : EvaluationChecks(e))
    /\ WF_vars(\E e \in Evaluations :
           EvaluationGenerates(e) \/ CellFails(e) \/ EvaluationStops(e))
    /\ \A p \in Procs :
           WF_vars(TrainerFinishes(p) \/ TrainerStops(p) \/ TrainerFails(p) \/ TrainerKilled(p))
    /\ WF_vars(Deletes)

FairSpec == Spec /\ Fairness

---------------------------------------------------------------------------
(* Properties.                                                             *)

Busy(p) == proc[p].pc # "idle"

RowTypes ==
    /\ state \in [Trainings \cup Evaluations -> Open \cup Done \cup {"absent"}]
    /\ active \subseteq Trainings \cup Evaluations
    /\ issued \subseteq Trainings /\ resumes \in [Trainings -> Trainings \cup {None}]
    /\ evalOf \in [Evaluations -> Trainings \cup {None}]
    /\ forced \subseteq Evaluations

DiskTypes ==
    /\ dirs \subseteq Trainings /\ saved \subseteq Trainings
    /\ manifest \in [Trainings -> Manifests]
    /\ result \in [Trainings -> {"none", "ok", "cancelled", "failed"}]

ActorTypes ==
    /\ proc \in [Procs -> [of : Trainings \cup {None},
                          pc : {"idle", "starting", "training", "lost"},
                          from : Trainings \cup {None}]]
    /\ awaited \in Procs \cup {None}
    /\ thread \in [Evaluations -> {"none", "begun", "generating", "ok", "failed", "cancelled"}]
    /\ up \in BOOLEAN /\ lives \in Nat

RequestTypes ==
    req \in [Requests -> [of : Trainings \cup {None},
                          pc : {"idle", "checked", "registering", "published", "selecting",
                                "removing", "done", "refused"},
                          regs : SUBSET Requests, lora : Requests \cup {None},
                          seen : Manifests]]

DeletionTypes ==
    deletion \in [of : Trainings \cup {None}, pc : {"idle", "files", "adapters", "saving"},
                  regs : SUBSET Requests, loras : SUBSET Requests,
                  lora : Requests \cup {None}]

ListTypes ==
    registry \subseteq Requests /\ removed \subseteq Requests /\ clobbered \in BOOLEAN

\* Every variable has its type.
TypeOK ==
    RowTypes /\ DiskTypes /\ ActorTypes /\ RequestTypes /\ DeletionTypes /\ ListTypes

\* A life of the server leaves at most one trainer behind, and while it lasts works
\* with one: what an execution started has ended before the next one starts, whatever
\* was cancelled, continued or deleted in between.
TrainersCounted == Cardinality({p \in Procs : Busy(p) /\ p # awaited}) <= lives

\* A manifest that says an evaluation is under way names one of this training, and
\* not one that has completed: what the evaluation wrote, an abort by another one's
\* cancellation or a second submission never leave it waiting for nothing.
EvaluatingIsUnfinished ==
    \A r \in Trainings : manifest[r].status = "evaluating" =>
        /\ manifest[r].eval # None
        /\ evalOf[manifest[r].eval] = r
        /\ state[manifest[r].eval] # "completed"

\* A completed training whose checkpoints are on disk has a manifest to pick from,
\* although the trainer, the handlers and the removal write the two at different
\* times and the server may have missed it all.
CandidatesListed ==
    \A r \in Trainings :
        state[r] = "completed" /\ r \in saved => manifest[r].status # "none"

\* A training that is continued in place has the checkpoint its row names until it
\* is over: the removal of a result never meets a continuation. One that resumes from
\* another's has a copy of it from before its trainer starts until its own result is
\* removed, whatever becomes of the other; until then the other's may be removed.
ResumeHasCheckpoint ==
    /\ \A r \in Trainings : resumes[r] = r /\ state[r] \in Open => r \in saved
    /\ \A p \in Procs :
           proc[p].pc \in {"starting", "training"} /\ proc[p].from # None =>
               proc[p].of \in saved

\* As long as no two writers of the list of adapters overlap, an adapter that a
\* manifest calls registered is listed until somebody removes it, and one that was
\* removed does not come back.
RegistryIsTrue ==
    ~clobbered =>
        /\ registry \cap removed = {}
        /\ \A r \in Trainings :
               manifest[r].status = "registered" => manifest[r].lora \in registry \cup removed

\* An evaluation that is under way ends: the manifest is ready, failed or gone.
EvaluationsSettle ==
    \A r \in Trainings :
        manifest[r].status = "evaluating" ~> manifest[r].status # "evaluating"

===========================================================================
