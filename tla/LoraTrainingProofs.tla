------------------------- MODULE LoraTrainingProofs -------------------------
(***************************************************************************)
(* Proofs about LoraTraining, for any trainings, evaluations, trainer      *)
(* processes, requests and number of interruptions.                        *)
(***************************************************************************)
EXTENDS LoraTraining, FiniteSetTheorems, TLAPS

\* Who works on something names it.
Named ==
    /\ \A e \in Evaluations : state[e] # "absent" \/ thread[e] # "none" => evalOf[e] # None
    /\ \A p \in Procs : Busy(p) <=> proc[p].of # None
    /\ \A q \in Requests :
        /\ req[q].pc \in {"checked", "registering", "published", "selecting"} => req[q].of # None
        /\ req[q].pc = "removing" => req[q].lora # None
    /\ deletion.pc # "idle" => up /\ deletion.of # None
    /\ deletion.pc = "saving" => deletion.lora # None

\* A row that exists was issued, and what is active has a row.
IssuedInv ==
    /\ \A t \in active : state[t] # "absent"
    /\ \A r \in Trainings : state[r] # "absent" => r \in issued

\* The server waits for a trainer only while a training is active, and nothing else is.
AwaitedInv == awaited # None => \E r \in Trainings : active = {r}

\* A thread about to report a matrix is not the one its manifest waits for.
ThreadInv ==
    \A e \in Evaluations, r \in Trainings :
        thread[e] = "ok" =>
            ~(manifest[r].status = "evaluating" /\ manifest[r].eval = e)

\* Nothing is left of the training, and nobody writes to it.
NothingLeft(r) ==
    /\ r \notin saved
    /\ \A p \in Procs : proc[p].pc \in {"starting", "training"} => proc[p].of # r

\* A result that says ok, and a row that is completed, come with a manifest or after
\* the removal of the files.
ManifestInv ==
    \A r \in Trainings :
        /\ result[r] = "ok" => manifest[r].status # "none"
        /\ state[r] = "completed" => manifest[r].status # "none" \/ NothingLeft(r)

\* The result under removal is not of an open training.
DeletionInv == deletion.pc # "idle" => state[deletion.of] \notin Open

\* The calls whose adapter may be in a list.
Published == {q \in Requests : req[q].pc \in {"published", "selecting", "done", "refused"}}

\* Every list that is kept or held is of published adapters.
ListsInv ==
    /\ registry \cup removed \cup deletion.regs \cup deletion.loras \subseteq Published
    /\ deletion.lora \in Published \cup {None}
    /\ \A q \in Requests : req[q].regs \subseteq Published /\ req[q].lora \in Published \cup {None}

\* As long as no two writers overlapped, what was published is listed or removed.
ListedInv ==
    ~clobbered => \A q \in Requests :
        req[q].pc \in {"published", "selecting"} => q \in registry \cup removed

IInv ==
    /\ TypeOK /\ Named /\ IssuedInv /\ AwaitedInv
    /\ EvaluatingIsUnfinished /\ ThreadInv
    /\ ManifestInv /\ DeletionInv /\ ResumeHasCheckpoint
    /\ TrainersCounted
    /\ ListsInv /\ ListedInv /\ RegistryIsTrue

---------------------------------------------------------------------------
(* Types.                                                                  *)

LEMMA InitLemma == Init => IInv
<1> SUFFICES ASSUME Init PROVE IInv
  OBVIOUS
<1> USE NoneAssumption, ParametersAssumption DEF Init, Sched!Init
<1>1. NoManifest \in Manifests
  BY DEF NoManifest, Manifest, Manifests
<1>2. RowTypes /\ DiskTypes
  BY <1>1 DEF RowTypes, DiskTypes, Open, Done
<1>3. ActorTypes
  BY DEF ActorTypes, NoProc
<1>4. RequestTypes /\ DeletionTypes /\ ListTypes
  BY <1>1 DEF RequestTypes, DeletionTypes, ListTypes, NoReq, NoDeletion
<1>5. Named /\ IssuedInv /\ AwaitedInv
  BY DEF Named, IssuedInv, AwaitedInv, Busy, NoProc, NoReq, NoDeletion
<1>6. \A r \in Trainings : manifest[r].status = "none"
  BY DEF NoManifest, Manifest
<1>7. EvaluatingIsUnfinished /\ ThreadInv /\ ManifestInv
  BY <1>6 DEF EvaluatingIsUnfinished, ThreadInv, ManifestInv
<1>8. DeletionInv /\ ResumeHasCheckpoint
  BY DEF DeletionInv, ResumeHasCheckpoint, NoDeletion, NoProc
<1>9. TrainersCounted
  <2>1. {p \in Procs : Busy(p) /\ p # awaited} = {}
    BY DEF Busy, NoProc
  <2> QED
    BY <2>1, FS_EmptySet DEF TrainersCounted
<1>10. ListsInv /\ ListedInv
  BY DEF ListsInv, ListedInv, NoReq, NoDeletion
<1>11. RegistryIsTrue
  BY <1>6 DEF RegistryIsTrue
<1> QED
  BY <1>2, <1>3, <1>4, <1>5, <1>7, <1>8, <1>9, <1>10, <1>11 DEF IInv, TypeOK

\* The actions that change rows; every other one leaves the rows as they are.
RowStep ==
    \/ \E r \in Trainings :
        \/ SubmitTraining(r) \/ BeginTrainless(r) \/ FailsTrainless(r) \/ TrainingEnds(r)
        \/ Continue(r) \/ DeleteBegins(r)
        \/ \E p \in Procs : BeginTraining(r, p)
        \/ \E e \in Evaluations, force \in BOOLEAN : SubmitEvaluation(r, e, force)
    \/ \E e \in Evaluations : BeginEvaluation(e) \/ EvaluationEnds(e)
    \/ \E t \in Trainings \cup Evaluations : Cancel(t)
    \/ DeleteRow
    \/ Crash \/ Shutdown \/ Start

LEMMA RowFrame == Next => RowStep \/ UNCHANGED rows
BY DEF Next, RowStep, rows, Look, Trainer, TrainerLoads, TrainerSaves, TrainerFinishes,
       TrainerStops, TrainerFails, TrainerKilled, EvaluationThread, EvaluationChecks, EvaluationGenerates,
       CellFails, EvaluationStops, Request, RegisterChecks, Publishes, PublishFails,
       Registers, Selects, SavesSelection, Removes, SavesRemoval, OnlyReq, Deletes,
       DeleteFiles, DeleteLoads, DeleteSaves

LEMMA RowTypesStep == ASSUME IInv, Next PROVE RowTypes'
<1> USE DEF IInv, TypeOK, RowTypes, Open, Done
<1>1. ASSUME NEW r \in Trainings, SubmitTraining(r) PROVE RowTypes'
  BY <1>1 DEF SubmitTraining, Sched!Enqueue, DiskTypes
<1>2. ASSUME NEW r \in Trainings, TrainingEnds(r) PROVE RowTypes'
  <2>1. CASE FollowUp(r)
    BY <1>2, <2>1 DEF TrainingEnds, FollowUp, Sched!Complete
  <2>2. CASE UNCHANGED evalOf /\ \E st \in {"cancelled", "failed"} : Sched!Stop(r, st)
    BY <1>2, <2>2 DEF TrainingEnds, Sched!Stop
  <2> QED
    BY <1>2, <2>1, <2>2 DEF TrainingEnds
<1>3. ASSUME NEW r \in Trainings, Continue(r) \/ DeleteBegins(r) PROVE RowTypes'
  BY <1>3 DEF Continue, DeleteBegins, Sched!Requeue, Sched!Remove
<1>4. ASSUME NEW r \in Trainings,
             BeginTrainless(r) \/ FailsTrainless(r) \/ \E p \in Procs : BeginTraining(r, p)
      PROVE  RowTypes'
  BY <1>4 DEF BeginTraining, BeginTrainless, FailsTrainless, Sched!Begin, Sched!Stop
<1>5. ASSUME NEW r \in Trainings, NEW e \in Evaluations, NEW force \in BOOLEAN,
             SubmitEvaluation(r, e, force)
      PROVE  RowTypes'
  BY <1>5 DEF SubmitEvaluation, Sched!Enqueue
<1>6. ASSUME NEW e \in Evaluations, BeginEvaluation(e) PROVE RowTypes'
  BY <1>6 DEF BeginEvaluation, Sched!Begin
<1>7. ASSUME NEW e \in Evaluations, EvaluationEnds(e) PROVE RowTypes'
  BY <1>7 DEF EvaluationEnds, Sched!Complete, Sched!Stop
<1>8. ASSUME NEW t \in Trainings \cup Evaluations, Cancel(t) PROVE RowTypes'
  BY <1>8 DEF Cancel, Sched!Cancel
<1>9. CASE DeleteRow
  BY <1>9 DEF DeleteRow, Sched!Remove
<1>10. CASE Crash \/ Shutdown \/ Start
  BY <1>10 DEF Crash, Shutdown, Start, Down, Sched!Recover
<1>11. CASE UNCHANGED rows
  BY <1>11 DEF rows
<1> QED
  BY RowFrame, <1>1, <1>2, <1>3, <1>4, <1>5, <1>6, <1>7, <1>8, <1>9, <1>10, <1>11 DEF RowStep

\* The actions that change the files of a training.
DiskStep ==
    \/ \E r \in Trainings :
        \/ BeginTrainless(r) \/ FailsTrainless(r) \/ TrainingEnds(r) \/ Continue(r)
        \/ DeleteBegins(r) \/ Look(r)
        \/ \E p \in Procs : BeginTraining(r, p)
        \/ \E e \in Evaluations, force \in BOOLEAN : SubmitEvaluation(r, e, force)
    \/ \E e \in Evaluations : EvaluationGenerates(e) \/ CellFails(e)
    \/ \E t \in Trainings \cup Evaluations : Cancel(t)
    \/ \E p \in Procs :
        TrainerSaves(p) \/ TrainerFinishes(p) \/ TrainerStops(p) \/ TrainerFails(p)
    \/ \E q \in Requests : SavesSelection(q)
    \/ DeleteFiles

LEMMA DiskFrame == Next => DiskStep \/ UNCHANGED disk
BY DEF Next, DiskStep, disk, SubmitTraining, BeginEvaluation, EvaluationEnds,
       EvaluationThread, EvaluationChecks, EvaluationStops, Trainer, TrainerLoads,
       TrainerKilled, Request, RegisterChecks, Publishes, PublishFails, Registers, Selects, Removes,
       SavesRemoval, OnlyReq, Deletes, DeleteLoads, DeleteSaves, DeleteRow,
       Crash, Shutdown, Start, Down

\* What is written into a manifest is one.
LEMMA ManifestType ==
    ASSUME NEW e \in Evaluations \cup {None}, NEW q \in Requests \cup {None},
           NEW st \in {"none", "pending_evaluation", "evaluating", "failed", "ready",
                       "registered"}
    PROVE  /\ Manifest(st, e, q) \in Manifests
           /\ Manifest(st, e, q).status = st
           /\ Manifest(st, e, q).eval = e
           /\ Manifest(st, e, q).lora = q
BY DEF Manifest, Manifests

LEMMA QueuedType ==
    ASSUME TypeOK, NEW r \in Trainings, NEW e \in Evaluations
    PROVE  Queued(r, e) \in [Trainings -> Manifests]
<1>1. manifest \in [Trainings -> Manifests]
  BY DEF TypeOK, DiskTypes
<1>2. [manifest[r] EXCEPT !.status = "evaluating", !.eval = e] \in Manifests
  BY <1>1 DEF Manifests
<1>3. Queued(r, e) = [manifest EXCEPT ![r] =
                          [manifest[r] EXCEPT !.status = "evaluating", !.eval = e]]
  BY <1>1 DEF Queued
<1> QED
  BY <1>1, <1>2, <1>3

LEMMA AbortedType ==
    ASSUME TypeOK, NEW e \in Evaluations
    PROVE  Aborted(e) \in [Trainings -> Manifests]
<1> DEFINE r == evalOf[e]
           failed == [manifest[r] EXCEPT !.status = "failed", !.eval = e]
<1>1. manifest \in [Trainings -> Manifests]
  BY DEF TypeOK, DiskTypes
<1>2. r \in Trainings => failed \in Manifests
  BY <1>1 DEF Manifests
<1>3. \/ Aborted(e) = manifest
      \/ Aborted(e) = [manifest EXCEPT ![r] = failed]
  BY <1>1 DEF Aborted
<1> QED
  BY <1>1, <1>2, <1>3

LEMMA SavedType ==
    ASSUME TypeOK, NEW r \in Trainings, NEW m \in Manifests
    PROVE  Saved(r, m) \in [Trainings -> Manifests]
BY DEF TypeOK, DiskTypes, Saved

LEMMA DiskTypesStep == ASSUME IInv, Next PROVE DiskTypes'
<1> USE NoneAssumption DEF IInv, TypeOK
<1>1. ASSUME NEW r \in Trainings, TrainingEnds(r) PROVE DiskTypes'
  <2>1. manifest' \in [Trainings -> Manifests]
    <3>1. CASE FollowUp(r)
      BY <3>1, QueuedType DEF FollowUp, DiskTypes
    <3>2. CASE UNCHANGED manifest
      BY <3>2 DEF DiskTypes
    <3> QED
      BY <1>1, <3>1, <3>2 DEF TrainingEnds
  <2> QED
    BY <1>1, <2>1 DEF TrainingEnds, DiskTypes
<1>2. ASSUME NEW r \in Trainings,
             Continue(r) \/ Look(r) \/ BeginTrainless(r) \/ FailsTrainless(r)
      PROVE  DiskTypes'
  BY <1>2 DEF Continue, Look, BeginTrainless, FailsTrainless, DiskTypes
<1>3. ASSUME NEW r \in Trainings, DeleteBegins(r) PROVE DiskTypes'
  <2>1. manifest' \in [Trainings -> Manifests]
    <3>1. manifest[r].eval \in Evaluations \cup {None}
      BY DEF DiskTypes, Manifests
    <3> QED
      BY <1>3, <3>1, AbortedType DEF DeleteBegins, DiskTypes
  <2> QED
    BY <1>3, <2>1 DEF DeleteBegins, DiskTypes
<1>4. ASSUME NEW r \in Trainings, NEW p \in Procs, BeginTraining(r, p) PROVE DiskTypes'
  BY <1>4 DEF BeginTraining, DiskTypes
<1>5. ASSUME NEW r \in Trainings, NEW e \in Evaluations, NEW force \in BOOLEAN,
             SubmitEvaluation(r, e, force)
      PROVE  DiskTypes'
  BY <1>5, QueuedType DEF SubmitEvaluation, DiskTypes
<1>6. ASSUME NEW e \in Evaluations, EvaluationGenerates(e) \/ CellFails(e) PROVE DiskTypes'
  <2>1. evalOf[e] \in Trainings
    BY <1>6 DEF EvaluationGenerates, CellFails, Named, RowTypes
  <2>2. manifest' \in [Trainings -> Manifests]
    BY <1>6, <2>1, ManifestType, SavedType DEF EvaluationGenerates, CellFails
  <2> QED
    BY <1>6, <2>2 DEF EvaluationGenerates, CellFails, DiskTypes
<1>7. ASSUME NEW t \in Trainings \cup Evaluations, Cancel(t) PROVE DiskTypes'
  <2>1. CASE t \in Evaluations
    <3>1. evalOf[t] \in Trainings
      BY <1>7, <2>1 DEF Cancel, Sched!Cancel, Named, RowTypes
    <3> QED
      BY <1>7, <2>1, <3>1, AbortedType DEF Cancel, DiskTypes
  <2>2. CASE t \notin Evaluations
    BY <1>7, <2>2 DEF Cancel, DiskTypes
  <2> QED
    BY <2>1, <2>2
<1>8. ASSUME NEW p \in Procs,
             TrainerSaves(p) \/ TrainerFinishes(p) \/ TrainerStops(p) \/ TrainerFails(p)
      PROVE  DiskTypes'
  <2>1. proc[p].of \in Trainings
    BY <1>8 DEF TrainerSaves, TrainerFinishes, TrainerStops, TrainerFails, Named, Busy, ActorTypes
  <2>2. CASE TrainerFinishes(p)
    BY <2>1, <2>2, ManifestType DEF TrainerFinishes, Reports, DiskTypes
  <2>3. CASE TrainerSaves(p) \/ TrainerStops(p) \/ TrainerFails(p)
    BY <2>1, <2>3 DEF TrainerSaves, TrainerStops, TrainerFails, Reports, DiskTypes
  <2> QED
    BY <1>8, <2>2, <2>3
<1>9. ASSUME NEW q \in Requests, SavesSelection(q) PROVE DiskTypes'
  <2>1. req[q].of \in Trainings /\ req[q].seen.eval \in Evaluations \cup {None}
    BY <1>9 DEF SavesSelection, Named, RequestTypes, Manifests
  <2>2. manifest' \in [Trainings -> Manifests]
    BY <1>9, <2>1, ManifestType, SavedType DEF SavesSelection
  <2> QED
    BY <1>9, <2>2 DEF SavesSelection, DiskTypes
<1>10. CASE DeleteFiles
  BY <1>10, ManifestType DEF DeleteFiles, NoManifest, DiskTypes
<1>11. CASE UNCHANGED disk
  BY <1>11 DEF disk, DiskTypes
<1> QED
  BY DiskFrame, <1>1, <1>2, <1>3, <1>4, <1>5, <1>6, <1>7, <1>8, <1>9, <1>10, <1>11 DEF DiskStep

\* The actions of trainers, evaluation threads and the server.
ActorStep ==
    \/ \E r \in Trainings : TrainingEnds(r) \/ \E p \in Procs : BeginTraining(r, p)
    \/ \E e \in Evaluations :
        BeginEvaluation(e) \/ EvaluationThread(e) \/ EvaluationEnds(e)
    \/ \E p \in Procs :
        \/ TrainerLoads(p) \/ TrainerFinishes(p) \/ TrainerStops(p) \/ TrainerFails(p)
        \/ TrainerKilled(p)
    \/ DeleteFiles
    \/ Crash \/ Shutdown \/ Start

LEMMA ActorFrame == Next => ActorStep \/ UNCHANGED <<proc, awaited, thread, server>>
BY DEF Next, ActorStep, actors, SubmitTraining, BeginTrainless, FailsTrainless, Continue,
       DeleteBegins, Look,
       SubmitEvaluation, Cancel, Trainer, TrainerSaves, Request, RegisterChecks, Publishes,
       PublishFails, Registers, Selects, SavesSelection, Removes, SavesRemoval, OnlyReq,
       Deletes, DeleteLoads, DeleteSaves, DeleteRow

LEMMA ActorTypesStep == ASSUME IInv, Next PROVE ActorTypes'
<1> USE DEF IInv, TypeOK, ActorTypes
<1>1. ASSUME NEW r \in Trainings, TrainingEnds(r) PROVE ActorTypes'
  BY <1>1 DEF TrainingEnds, server
<1>2. ASSUME NEW r \in Trainings, NEW p \in Procs, BeginTraining(r, p) PROVE ActorTypes'
  BY <1>2 DEF BeginTraining, RowTypes, server
<1>3. ASSUME NEW e \in Evaluations, BeginEvaluation(e) \/ EvaluationEnds(e) PROVE ActorTypes'
  BY <1>3 DEF BeginEvaluation, EvaluationEnds, server
<1>4. ASSUME NEW e \in Evaluations, EvaluationThread(e) PROVE ActorTypes'
  <2>1. \E st \in {"ok", "generating", "failed", "cancelled"} : thread' = [thread EXCEPT ![e] = st]
    BY <1>4 DEF EvaluationThread, EvaluationChecks, EvaluationGenerates, CellFails, EvaluationStops
  <2>2. UNCHANGED <<proc, awaited, server>>
    BY <1>4 DEF EvaluationThread, EvaluationChecks, EvaluationGenerates, CellFails, EvaluationStops
  <2> QED
    BY <2>1, <2>2 DEF server
<1>5. ASSUME NEW p \in Procs,
             \/ TrainerLoads(p) \/ TrainerFinishes(p) \/ TrainerStops(p) \/ TrainerFails(p)
             \/ TrainerKilled(p)
      PROVE  ActorTypes'
  BY <1>5 DEF TrainerLoads, TrainerFinishes, TrainerStops, TrainerFails, TrainerKilled,
              TrainerLeaves, NoProc, server
<1>6. CASE DeleteFiles
  BY <1>6 DEF DeleteFiles, server
<1>7. CASE Crash \/ Shutdown
  <2>1. thread' \in [Evaluations -> {"none", "begun", "generating", "ok", "failed", "cancelled"}]
    BY <1>7 DEF Crash, Shutdown
  <2>2. /\ awaited' = None /\ up' = FALSE /\ UNCHANGED proc
    BY <1>7 DEF Crash, Shutdown, Down
  <2>3. lives' \in Nat
    <3>1. lives' = lives + 1
      BY <1>7, Zenon DEF Crash, Shutdown, Down
    <3> QED
      BY <3>1
  <2> QED
    BY <2>1, <2>2, <2>3
<1>8. CASE Start
  <2>1. /\ thread' = [e \in Evaluations |-> "none"] /\ up' = TRUE
        /\ UNCHANGED <<proc, awaited, lives>>
    BY <1>8 DEF Start
  <2> QED
    BY <2>1
<1>9. CASE UNCHANGED <<proc, awaited, thread, server>>
  BY <1>9 DEF server
<1> QED
  BY ActorFrame, <1>1, <1>2, <1>3, <1>4, <1>5, <1>6, <1>7, <1>8, <1>9 DEF ActorStep

\* The actions of requests and of a removal.
ListStep ==
    \/ \E r \in Trainings : DeleteBegins(r)
    \/ \E q \in Requests : Request(q)
    \/ Deletes
    \/ Crash

LEMMA ListFrame == Next => ListStep \/ UNCHANGED <<req, deletion, list>>
BY DEF Next, ListStep, actors, SubmitTraining, TrainingEnds, Continue, Look,
       BeginTraining, BeginTrainless, FailsTrainless, TrainerLoads, SubmitEvaluation, BeginEvaluation, EvaluationThread, EvaluationChecks,
       EvaluationGenerates, CellFails, EvaluationStops, EvaluationEnds, Cancel, Trainer,
       TrainerSaves, TrainerFinishes, TrainerStops, TrainerFails, TrainerKilled,
       Shutdown, Start, Down

Fields ==
    /\ NoReq = [of |-> None, pc |-> "idle", regs |-> {}, lora |-> None, seen |-> NoManifest]
    /\ NoDeletion = [of |-> None, pc |-> "idle", regs |-> {}, loras |-> {}, lora |-> None]
    /\ NoManifest \in Manifests

LEMMA FieldsLemma == Fields
BY NoneAssumption DEF Fields, NoReq, NoDeletion, NoManifest, Manifest, Manifests

ReqRecords == [of : Trainings \cup {None},
               pc : {"idle", "checked", "registering", "published", "selecting",
                     "removing", "done", "refused"},
               regs : SUBSET Requests, lora : Requests \cup {None}, seen : Manifests]

\* What a step of a request makes of its record; the records of the others stay.
LEMMA RequestStep ==
    ASSUME IInv, NEW q \in Requests, Request(q)
    PROVE  /\ req \in [Requests -> ReqRecords]
           /\ req' \in [Requests -> ReqRecords]
           /\ \A d \in Requests : d # q => req'[d] = req[d]
           /\ \A r \in Trainings : RegisterChecks(q, r) =>
                  /\ req[q].pc = "idle" /\ req'[q].pc = "checked" /\ req'[q].of = r
                  /\ req'[q].regs = req[q].regs /\ req'[q].lora = req[q].lora
           /\ Publishes(q) =>
                  /\ req[q].pc = "checked" /\ req'[q].pc = "registering"
                  /\ req'[q].of = req[q].of
                  /\ req'[q].regs = registry /\ req'[q].lora = req[q].lora
           /\ PublishFails(q) =>
                  /\ req[q].pc = "checked" /\ req'[q].pc = "refused" /\ req'[q].of = req[q].of
                  /\ req'[q].regs = req[q].regs /\ req'[q].lora = req[q].lora
           /\ Registers(q) =>
                  /\ req[q].pc = "registering" /\ req'[q].pc = "published"
                  /\ req'[q].of = req[q].of
                  /\ req'[q].regs = {} /\ req'[q].lora = req[q].lora
           /\ Selects(q) =>
                  /\ req[q].pc = "published" /\ req'[q].pc \in {"selecting", "refused"}
                  /\ req'[q].of = req[q].of
                  /\ req'[q].regs = req[q].regs /\ req'[q].lora = req[q].lora
           /\ SavesSelection(q) =>
                  /\ req[q].pc = "selecting" /\ req'[q].pc \in {"done", "refused"}
                  /\ req'[q].of = req[q].of
                  /\ req'[q].regs = req[q].regs /\ req'[q].lora = req[q].lora
           /\ \A a \in Requests : Removes(q, a) =>
                  /\ req[q].pc = "idle" /\ req'[q].pc = "removing" /\ req'[q].of = req[q].of
                  /\ req'[q].regs = registry /\ req'[q].lora = a
           /\ SavesRemoval(q) =>
                  /\ req[q].pc = "removing" /\ req'[q].pc = "done" /\ req'[q].of = req[q].of
                  /\ req'[q].regs = {} /\ req'[q].lora = req[q].lora
<1>1. /\ req \in [Requests -> ReqRecords]
      /\ registry \subseteq Requests
      /\ NoManifest \in Manifests
  BY FieldsLemma DEF Fields, IInv, TypeOK, RequestTypes, ListTypes, ReqRecords
<1>2. Selects(q) => manifest[req[q].of] \in Manifests
  BY DEF Selects, IInv, TypeOK, DiskTypes, RequestTypes, Named
<1>3. PICK v \in ReqRecords : req' = [req EXCEPT ![q] = v]
  <2> DEFINE Goal == \E v \in ReqRecords : req' = [req EXCEPT ![q] = v]
  <2>1. req[q] \in ReqRecords
    BY <1>1
  <2>2. ASSUME NEW r \in Trainings, RegisterChecks(q, r) PROVE Goal
    <3>1. [req[q] EXCEPT !.of = r, !.pc = "checked"] \in ReqRecords
      BY <2>1 DEF ReqRecords
    <3> QED
      BY <2>2, <3>1 DEF RegisterChecks, Becomes
  <2>3. CASE Publishes(q)
    <3>1. [req[q] EXCEPT !.pc = "registering", !.regs = registry] \in ReqRecords
      BY <1>1, <2>1 DEF ReqRecords
    <3> QED
      BY <2>3, <3>1 DEF Publishes, Becomes
  <2>4. [req[q] EXCEPT !.pc = "refused"] \in ReqRecords
    BY <2>1 DEF ReqRecords
  <2>5. CASE PublishFails(q)
    BY <2>4, <2>5 DEF PublishFails, Becomes
  <2>6. CASE Registers(q)
    <3>1. [req[q] EXCEPT !.pc = "published", !.regs = {}] \in ReqRecords
      BY <2>1 DEF ReqRecords
    <3> QED
      BY <2>6, <3>1 DEF Registers, Becomes
  <2>7. CASE Selects(q)
    <3>1. [req[q] EXCEPT !.pc = "selecting", !.seen = manifest[req[q].of]] \in ReqRecords
      BY <1>2, <2>1, <2>7 DEF ReqRecords
    <3> QED
      BY <2>4, <2>7, <3>1 DEF Selects, Becomes
  <2>8. CASE SavesSelection(q)
    <3>1. \A c \in {"done", "refused"} :
            [req[q] EXCEPT !.pc = c, !.seen = NoManifest] \in ReqRecords
      BY <1>1, <2>1 DEF ReqRecords
    <3> QED
      BY <2>8, <3>1 DEF SavesSelection, Becomes
  <2>9. ASSUME NEW a \in Requests, Removes(q, a) PROVE Goal
    <3>1. [req[q] EXCEPT !.pc = "removing", !.regs = registry, !.lora = a] \in ReqRecords
      BY <1>1, <2>1 DEF ReqRecords
    <3> QED
      BY <2>9, <3>1 DEF Removes, Becomes
  <2>10. CASE SavesRemoval(q)
    <3>1. [req[q] EXCEPT !.pc = "done", !.regs = {}] \in ReqRecords
      BY <2>1 DEF ReqRecords
    <3> QED
      BY <2>10, <3>1 DEF SavesRemoval, Becomes
  <2> QED
    BY <2>2, <2>3, <2>5, <2>6, <2>7, <2>8, <2>9, <2>10 DEF Request
<1>4. /\ req' \in [Requests -> ReqRecords]
      /\ \A d \in Requests : d # q => req'[d] = req[d]
  BY <1>1, <1>3
<1>5. req[q] \in ReqRecords /\ \A w : req' = [req EXCEPT ![q] = w] => req'[q] = w
  BY <1>1
<1> USE <1>5
<1>6. ASSUME NEW r \in Trainings, RegisterChecks(q, r)
      PROVE  /\ req[q].pc = "idle" /\ req'[q].pc = "checked" /\ req'[q].of = r
             /\ req'[q].regs = req[q].regs /\ req'[q].lora = req[q].lora
  <2>1. req'[q] = [req[q] EXCEPT !.of = r, !.pc = "checked"] /\ req[q].pc = "idle"
    BY <1>6 DEF RegisterChecks, Becomes
  <2> QED
    BY <2>1 DEF ReqRecords
<1>7. Publishes(q) =>
          /\ req[q].pc = "checked" /\ req'[q].pc = "registering" /\ req'[q].of = req[q].of
          /\ req'[q].regs = registry /\ req'[q].lora = req[q].lora
  BY DEF Publishes, Becomes, ReqRecords
<1>8. PublishFails(q) =>
          /\ req[q].pc = "checked" /\ req'[q].pc = "refused" /\ req'[q].of = req[q].of
          /\ req'[q].regs = req[q].regs /\ req'[q].lora = req[q].lora
  BY DEF PublishFails, Becomes, ReqRecords
<1>9. Registers(q) =>
          /\ req[q].pc = "registering" /\ req'[q].pc = "published" /\ req'[q].of = req[q].of
          /\ req'[q].regs = {} /\ req'[q].lora = req[q].lora
  BY DEF Registers, Becomes, ReqRecords
<1>10. Selects(q) =>
          /\ req[q].pc = "published" /\ req'[q].pc \in {"selecting", "refused"}
          /\ req'[q].of = req[q].of
          /\ req'[q].regs = req[q].regs /\ req'[q].lora = req[q].lora
  <2> SUFFICES ASSUME Selects(q)
               PROVE  /\ req[q].pc = "published" /\ req'[q].pc \in {"selecting", "refused"}
                      /\ req'[q].of = req[q].of
                      /\ req'[q].regs = req[q].regs /\ req'[q].lora = req[q].lora
    OBVIOUS
  <2>1. req[q].pc = "published" /\ \E m : req'[q] \in {[req[q] EXCEPT !.pc = "selecting", !.seen = m],
                                                    [req[q] EXCEPT !.pc = "refused"]}
    BY DEF Selects, Becomes
  <2> QED
    BY <2>1 DEF ReqRecords
<1>11. SavesSelection(q) =>
          /\ req[q].pc = "selecting" /\ req'[q].pc \in {"done", "refused"}
          /\ req'[q].of = req[q].of
          /\ req'[q].regs = req[q].regs /\ req'[q].lora = req[q].lora
  <2> SUFFICES ASSUME SavesSelection(q)
               PROVE  /\ req[q].pc = "selecting" /\ req'[q].pc \in {"done", "refused"}
                      /\ req'[q].of = req[q].of
                      /\ req'[q].regs = req[q].regs /\ req'[q].lora = req[q].lora
    OBVIOUS
  <2>1. req[q].pc = "selecting" /\ \E c \in {"done", "refused"} :
            req'[q] = [req[q] EXCEPT !.pc = c, !.seen = NoManifest]
    BY DEF SavesSelection, Becomes
  <2> QED
    BY <2>1 DEF ReqRecords
<1>12. ASSUME NEW a \in Requests, Removes(q, a)
       PROVE  /\ req[q].pc = "idle" /\ req'[q].pc = "removing" /\ req'[q].of = req[q].of
              /\ req'[q].regs = registry /\ req'[q].lora = a
  <2>1. /\ req'[q] = [req[q] EXCEPT !.pc = "removing", !.regs = registry, !.lora = a]
        /\ req[q].pc = "idle"
    BY <1>12 DEF Removes, Becomes
  <2> QED
    BY <2>1 DEF ReqRecords
<1>13. SavesRemoval(q) =>
          /\ req[q].pc = "removing" /\ req'[q].pc = "done" /\ req'[q].of = req[q].of
          /\ req'[q].regs = {} /\ req'[q].lora = req[q].lora
  BY DEF SavesRemoval, Becomes, ReqRecords
<1> QED
  BY <1>1, <1>4, <1>6, <1>7, <1>8, <1>9, <1>10, <1>11, <1>12, <1>13

\* A crash refuses what had not ended.
LEMMA CrashRequests ==
    ASSUME IInv, Crash
    PROVE  /\ req' \in [Requests -> ReqRecords]
           /\ \A q \in Requests :
                \/ req'[q] = req[q] /\ req[q].pc \in {"idle", "done", "refused"}
                \/ /\ req'[q].pc = "refused" /\ req'[q].of = req[q].of
                   /\ req'[q].regs = {} /\ req'[q].lora = None
<1>1. req \in [Requests -> ReqRecords]
  BY DEF IInv, TypeOK, RequestTypes, ReqRecords
<1>2. req' = [q \in Requests |->
           IF req[q].pc \in {"idle", "done", "refused"} THEN req[q]
           ELSE [NoReq EXCEPT !.of = req[q].of, !.pc = "refused"]]
  BY DEF Crash
<1>3. ASSUME NEW q \in Requests
      PROVE  LET v == [NoReq EXCEPT !.of = req[q].of, !.pc = "refused"]
             IN  /\ v \in ReqRecords /\ v.pc = "refused" /\ v.of = req[q].of
                 /\ v.regs = {} /\ v.lora = None
  BY <1>1, FieldsLemma, NoneAssumption DEF Fields, ReqRecords
<1> QED
  BY <1>1, <1>2, <1>3

LEMMA RequestTypesStep == ASSUME IInv, Next PROVE RequestTypes'
<1>1. ASSUME NEW q \in Requests, Request(q) PROVE RequestTypes'
  BY <1>1, RequestStep DEF RequestTypes, ReqRecords
<1>2. CASE Crash
  BY <1>2, CrashRequests DEF RequestTypes, ReqRecords
<1>3. CASE UNCHANGED req
  BY <1>3 DEF IInv, TypeOK, RequestTypes
<1> QED
  BY ListFrame, <1>1, <1>2, <1>3
     DEF ListStep, Deletes, DeleteBegins, DeleteFiles, DeleteLoads, DeleteSaves, DeleteRow

LEMMA DeletionTypesStep == ASSUME IInv, Next PROVE DeletionTypes'
<1>0. DeletionTypes
  BY DEF IInv, TypeOK
<1> USE <1>0, FieldsLemma, NoneAssumption DEF DeletionTypes, Fields
<1>1. ASSUME NEW r \in Trainings, DeleteBegins(r) PROVE DeletionTypes'
  BY <1>1 DEF DeleteBegins
<1>2. CASE DeleteFiles
  BY <1>2 DEF DeleteFiles, IInv, TypeOK, ListTypes
<1>3. ASSUME NEW q \in Requests, DeleteLoads(q) PROVE DeletionTypes'
  BY <1>3 DEF DeleteLoads, IInv, TypeOK, ListTypes
<1>4. CASE DeleteSaves
  <2> DEFINE x == deletion.loras \ {deletion.lora}
  <2>1. deletion' = [of |-> deletion.of, pc |-> "adapters", regs |-> {}, loras |-> x,
                     lora |-> None]
    BY <1>4 DEF DeleteSaves
  <2>2. deletion.of \in Trainings \cup {None} /\ x \in SUBSET Requests
    OBVIOUS
  <2> HIDE DEF x
  <2> QED
    BY <2>1, <2>2
<1>5. CASE DeleteRow \/ Crash
  <2>1. deletion' = NoDeletion
    BY <1>5, Zenon DEF DeleteRow, Crash
  <2> QED
    BY <2>1
<1>6. CASE UNCHANGED deletion
  BY <1>6
<1> QED
  BY ListFrame, <1>1, <1>2, <1>3, <1>4, <1>5, <1>6
     DEF ListStep, Request, Deletes, RegisterChecks, Publishes, PublishFails, Registers,
         Selects, SavesSelection, Removes, SavesRemoval, OnlyReq

LEMMA ListTypesStep == ASSUME IInv, Next PROVE ListTypes'
<1>0. ListTypes
  BY DEF IInv, TypeOK
<1> USE <1>0 DEF ListTypes
<1>1. ASSUME NEW q \in Requests, Registers(q) PROVE ListTypes'
  <2>1. req[q].regs \subseteq Requests
    BY DEF IInv, TypeOK, RequestTypes
  <2> QED
    BY <1>1, <2>1 DEF Registers, Writes
<1>2. ASSUME NEW q \in Requests, SavesRemoval(q) PROVE ListTypes'
  <2>1. req[q].regs \subseteq Requests /\ req[q].lora \in Requests
    BY <1>2 DEF SavesRemoval, IInv, TypeOK, RequestTypes, Named
  <2> QED
    BY <1>2, <2>1 DEF SavesRemoval, Writes
<1>3. CASE DeleteSaves
  <2>1. deletion.regs \subseteq Requests /\ deletion.lora \in Requests
    BY <1>3 DEF DeleteSaves, IInv, TypeOK, DeletionTypes, Named
  <2> QED
    BY <1>3, <2>1 DEF DeleteSaves, Writes
<1>4. CASE UNCHANGED list
  BY <1>4 DEF list
<1> QED
  BY ListFrame, <1>1, <1>2, <1>3, <1>4
     DEF ListStep, Request, Deletes, RegisterChecks, Publishes, PublishFails, Selects,
         SavesSelection, Removes, DeleteBegins, DeleteFiles, DeleteLoads, DeleteRow,
         Crash, Down, list

---------------------------------------------------------------------------
(* Rows.                                                                   *)

\* The training of an evaluation never changes, and no row of an evaluation comes
\* without one.
LEMMA EvalOfStep ==
    ASSUME IInv, Next
    PROVE  \A e \in Evaluations :
               /\ evalOf[e] # None => evalOf'[e] = evalOf[e]
               /\ state'[e] # "absent" => state[e] # "absent" \/ evalOf'[e] # None
<1> DEFINE Kept == \A e \in Evaluations :
               /\ evalOf[e] # None => evalOf'[e] = evalOf[e]
               /\ state'[e] # "absent" => state[e] # "absent" \/ evalOf'[e] # None
<1> USE IdsAssumption, NoneAssumption DEF IInv, TypeOK, RowTypes, IssuedInv
<1>1. ASSUME NEW r \in Trainings, SubmitTraining(r) PROVE Kept
  BY <1>1 DEF SubmitTraining, Sched!Enqueue
<1>2. ASSUME NEW r \in Trainings, TrainingEnds(r) PROVE Kept
  <2>1. CASE FollowUp(r)
    BY <2>1 DEF FollowUp
  <2>2. CASE UNCHANGED evalOf /\ \E st \in {"cancelled", "failed"} : Sched!Stop(r, st)
    BY <2>2 DEF Sched!Stop
  <2> QED
    BY <1>2, <2>1, <2>2 DEF TrainingEnds
<1>3. ASSUME NEW r \in Trainings, Continue(r) \/ DeleteBegins(r) PROVE Kept
  BY <1>3 DEF Continue, DeleteBegins, Sched!Requeue, Sched!Remove
<1>4. ASSUME NEW r \in Trainings,
             BeginTrainless(r) \/ FailsTrainless(r) \/ \E p \in Procs : BeginTraining(r, p)
      PROVE  Kept
  BY <1>4 DEF BeginTraining, BeginTrainless, FailsTrainless, Sched!Begin, Sched!Stop
<1>5. ASSUME NEW r \in Trainings, NEW e \in Evaluations, NEW force \in BOOLEAN,
             SubmitEvaluation(r, e, force)
      PROVE  Kept
  BY <1>5 DEF SubmitEvaluation, Sched!Enqueue
<1>6. ASSUME NEW e \in Evaluations, BeginEvaluation(e) PROVE Kept
  BY <1>6 DEF BeginEvaluation, Sched!Begin
<1>7. ASSUME NEW e \in Evaluations, EvaluationEnds(e) PROVE Kept
  BY <1>7 DEF EvaluationEnds, Sched!Complete, Sched!Stop
<1>8. ASSUME NEW t \in Trainings \cup Evaluations, Cancel(t) PROVE Kept
  BY <1>8 DEF Cancel, Sched!Cancel
<1>9. CASE DeleteRow
  BY <1>9 DEF DeleteRow, Sched!Remove
<1>10. CASE Crash \/ Shutdown \/ Start
  BY <1>10 DEF Crash, Shutdown, Start, Down, Sched!Recover
<1>11. CASE UNCHANGED rows
  BY <1>11 DEF rows
<1> QED
  BY RowFrame, <1>1, <1>2, <1>3, <1>4, <1>5, <1>6, <1>7, <1>8, <1>9, <1>10, <1>11 DEF RowStep

LEMMA IssuedStep == ASSUME IInv, Next PROVE IssuedInv'
<1> USE IdsAssumption DEF IInv, TypeOK, RowTypes, IssuedInv, Sched!Done
<1>1. ASSUME NEW r \in Trainings, SubmitTraining(r) PROVE IssuedInv'
  BY <1>1 DEF SubmitTraining, Sched!Enqueue
<1>2. ASSUME NEW r \in Trainings, TrainingEnds(r) PROVE IssuedInv'
  <2>1. state[r] # "absent" \/ \A u \in Trainings : state'[u] = state[u]
    BY <1>2 DEF TrainingEnds, FollowUp, Sched!Complete, Sched!Stop
  <2> QED
    BY <1>2, <2>1 DEF TrainingEnds, FollowUp, Sched!Complete, Sched!Stop
<1>3. ASSUME NEW r \in Trainings, Continue(r) \/ DeleteBegins(r) PROVE IssuedInv'
  BY <1>3 DEF Continue, DeleteBegins, Sched!Requeue, Sched!Remove
<1>4. ASSUME NEW r \in Trainings,
             BeginTrainless(r) \/ FailsTrainless(r) \/ \E p \in Procs : BeginTraining(r, p)
      PROVE  IssuedInv'
  BY <1>4 DEF BeginTraining, BeginTrainless, FailsTrainless, Sched!Begin, Sched!Stop
<1>5. ASSUME NEW r \in Trainings, NEW e \in Evaluations, NEW force \in BOOLEAN,
             SubmitEvaluation(r, e, force)
      PROVE  IssuedInv'
  BY <1>5 DEF SubmitEvaluation, Sched!Enqueue
<1>6. ASSUME NEW e \in Evaluations, BeginEvaluation(e) PROVE IssuedInv'
  BY <1>6 DEF BeginEvaluation, Sched!Begin
<1>7. ASSUME NEW e \in Evaluations, EvaluationEnds(e) PROVE IssuedInv'
  BY <1>7 DEF EvaluationEnds, Sched!Complete, Sched!Stop
<1>8. ASSUME NEW t \in Trainings \cup Evaluations, Cancel(t) PROVE IssuedInv'
  BY <1>8 DEF Cancel, Sched!Cancel
<1>9. CASE DeleteRow
  BY <1>9 DEF DeleteRow, Sched!Remove
<1>10. CASE Crash \/ Shutdown \/ Start
  BY <1>10 DEF Crash, Shutdown, Start, Down, Sched!Recover
<1>11. CASE UNCHANGED rows
  BY <1>11 DEF rows
<1> QED
  BY RowFrame, <1>1, <1>2, <1>3, <1>4, <1>5, <1>6, <1>7, <1>8, <1>9, <1>10, <1>11 DEF RowStep

\* At most one task is active: what AwaitedInv says of active needs no more.
LEMMA AwaitedStep == ASSUME IInv, Next PROVE AwaitedInv'
<1> USE IdsAssumption DEF IInv, TypeOK, RowTypes, AwaitedInv
<1>1. ASSUME NEW r \in Trainings, TrainingEnds(r) PROVE AwaitedInv'
  BY <1>1 DEF TrainingEnds
<1>2. ASSUME NEW r \in Trainings, NEW p \in Procs, BeginTraining(r, p) PROVE AwaitedInv'
  BY <1>2 DEF BeginTraining, Sched!Begin
<1>3. ASSUME NEW e \in Evaluations, BeginEvaluation(e) \/ EvaluationEnds(e) PROVE AwaitedInv'
  <2>1. awaited = None /\ awaited' = None
    BY <1>3 DEF BeginEvaluation, EvaluationEnds, Sched!Begin
  <2> QED
    BY <2>1
<1>4. CASE Crash \/ Shutdown \/ Start
  BY <1>4 DEF Crash, Shutdown, Start, Down, Sched!Recover
<1>5. CASE UNCHANGED <<active, awaited>>
  BY <1>5
<1>6. RowStep => \/ \E r \in Trainings :
                        \/ TrainingEnds(r) \/ BeginTrainless(r) \/ FailsTrainless(r)
                        \/ \E p \in Procs : BeginTraining(r, p)
                 \/ \E e \in Evaluations : BeginEvaluation(e) \/ EvaluationEnds(e)
                 \/ Crash \/ Shutdown \/ Start
                 \/ UNCHANGED <<active, awaited>>
  BY DEF RowStep, SubmitTraining, Continue, DeleteBegins, SubmitEvaluation, Cancel, DeleteRow,
         Sched!Enqueue, Sched!Requeue, Sched!Remove, Sched!Cancel, actors
<1>7. ActorStep => \/ \E r \in Trainings : TrainingEnds(r) \/ \E p \in Procs : BeginTraining(r, p)
                   \/ \E e \in Evaluations : BeginEvaluation(e) \/ EvaluationEnds(e)
                   \/ Crash \/ Shutdown \/ Start
                   \/ UNCHANGED awaited
  BY DEF ActorStep, EvaluationThread, EvaluationChecks, EvaluationGenerates, CellFails,
         EvaluationStops, TrainerLoads, TrainerFinishes, TrainerStops, TrainerFails,
         TrainerKilled, DeleteFiles
<1>8. ASSUME NEW r \in Trainings, BeginTrainless(r) \/ FailsTrainless(r) PROVE AwaitedInv'
  <2>1. awaited = None /\ awaited' = None
    BY <1>8 DEF BeginTrainless, FailsTrainless, NoTrainer, Sched!Begin, actors
  <2> QED
    BY <2>1
<1> QED
  BY RowFrame, ActorFrame, <1>1, <1>2, <1>3, <1>4, <1>5, <1>6, <1>7, <1>8 DEF rows

---------------------------------------------------------------------------
(* What each actor names.                                                  *)

LEMMA EvaluationsNamed ==
    ASSUME IInv, Next
    PROVE  \A e \in Evaluations : state'[e] # "absent" \/ thread'[e] # "none" => evalOf'[e] # None
<1>1. \A e \in Evaluations : thread'[e] # "none" => thread[e] # "none" \/ state[e] # "absent"
  <2>1. ASSUME NEW e \in Evaluations, BeginEvaluation(e) \/ EvaluationEnds(e)
        PROVE  \A d \in Evaluations :
                   thread'[d] # "none" => thread[d] # "none" \/ state[d] # "absent"
    BY <2>1 DEF BeginEvaluation, EvaluationEnds, Sched!Begin, IInv, TypeOK, ActorTypes
  <2>2. ASSUME NEW e \in Evaluations, EvaluationThread(e)
        PROVE  \A d \in Evaluations :
                   thread'[d] # "none" => thread[d] # "none" \/ state[d] # "absent"
    BY <2>2 DEF EvaluationThread, EvaluationChecks, EvaluationGenerates, CellFails,
                EvaluationStops, IInv, TypeOK, ActorTypes
  <2>3. CASE UNCHANGED thread \/ thread' = [e \in Evaluations |-> "none"]
    BY <2>3
  <2> QED
    BY ActorFrame, <2>1, <2>2, <2>3
       DEF ActorStep, TrainingEnds, BeginTraining, TrainerLoads, TrainerFinishes, TrainerStops,
           TrainerFails, TrainerKilled, DeleteFiles, Crash, Shutdown, Start
<1> QED
  BY <1>1, EvalOfStep DEF IInv, Named

LEMMA ProcsNamed ==
    ASSUME IInv, Next
    PROVE  \A p \in Procs : proc'[p].pc # "idle" <=> proc'[p].of # None
<1> DEFINE Goal == \A p \in Procs : proc'[p].pc # "idle" <=> proc'[p].of # None
<1>1. CASE DeleteFiles
  <2>1. \A p \in Procs : proc'[p] = IF proc[p].of = deletion.of
                                     THEN [proc[p] EXCEPT !.pc = "lost"] ELSE proc[p]
    BY <1>1 DEF DeleteFiles
  <2>2. deletion.of # None
    BY <1>1 DEF DeleteFiles, IInv, Named
  <2>3. \A p \in Procs :
            proc[p] = [of |-> proc[p].of, pc |-> proc[p].pc, from |-> proc[p].from]
    BY DEF IInv, TypeOK, ActorTypes
  <2>4. \A p \in Procs : proc[p].pc # "idle" <=> proc[p].of # None
    BY DEF IInv, Named, Busy
  <2>5. ASSUME NEW p \in Procs PROVE proc'[p].pc # "idle" <=> proc'[p].of # None
    <3>1. CASE proc[p].of = deletion.of
      <4>1. proc'[p] = [of |-> proc[p].of, pc |-> "lost", from |-> proc[p].from]
        BY <2>1, <2>3, <3>1
      <4> QED
        BY <2>2, <3>1, <4>1
    <3>2. CASE proc[p].of # deletion.of
      BY <2>1, <2>4, <3>2
    <3> QED
      BY <3>1, <3>2
  <2> QED
    BY <2>5
<1> USE NoneAssumption DEF IInv, TypeOK, ActorTypes, Named, Busy
<1>2. ASSUME NEW r \in Trainings, NEW p \in Procs, BeginTraining(r, p) PROVE Goal
  BY <1>2 DEF BeginTraining
<1>3. ASSUME NEW p \in Procs,
             \/ TrainerLoads(p) \/ TrainerFinishes(p) \/ TrainerStops(p) \/ TrainerFails(p)
             \/ TrainerKilled(p)
      PROVE  Goal
  BY <1>3 DEF TrainerLoads, TrainerFinishes, TrainerStops, TrainerFails, TrainerKilled, TrainerLeaves, NoProc
<1>4. CASE UNCHANGED proc
  BY <1>4
<1> QED
  BY ActorFrame, <1>1, <1>2, <1>3, <1>4
     DEF ActorStep, TrainingEnds, BeginEvaluation, EvaluationEnds, EvaluationThread,
         EvaluationChecks, EvaluationGenerates, CellFails, EvaluationStops, Crash, Shutdown,
         Start, Down

LEMMA RequestsNamed ==
    ASSUME IInv, Next
    PROVE  \A q \in Requests :
        /\ req'[q].pc \in {"checked", "registering", "published", "selecting"} =>
               req'[q].of # None
        /\ req'[q].pc = "removing" => req'[q].lora # None
<1> DEFINE Goal == \A q \in Requests :
        /\ req'[q].pc \in {"checked", "registering", "published", "selecting"} =>
               req'[q].of # None
        /\ req'[q].pc = "removing" => req'[q].lora # None
<1>1. ASSUME NEW q \in Requests, Request(q) PROVE Goal
  <2>1. \A d \in Requests : d # q => req'[d] = req[d]
    BY <1>1, RequestStep
  <2>2. /\ req'[q].pc \in {"checked", "registering", "published", "selecting"} =>
               req'[q].of # None
        /\ req'[q].pc = "removing" => req'[q].lora # None
    BY <1>1, RequestStep, NoneAssumption DEF Request, IInv, Named
  <2> QED
    BY <2>1, <2>2 DEF IInv, Named
<1>2. CASE Crash
  BY <1>2, CrashRequests
<1>3. CASE UNCHANGED req
  BY <1>3 DEF IInv, Named
<1> QED
  BY ListFrame, <1>1, <1>2, <1>3
     DEF ListStep, Deletes, DeleteBegins, DeleteFiles, DeleteLoads, DeleteSaves, DeleteRow

LEMMA DeletionNamed ==
    ASSUME IInv, Next
    PROVE  /\ deletion'.pc # "idle" => up' /\ deletion'.of # None
           /\ deletion'.pc = "saving" => deletion'.lora # None
<1> DEFINE Goal == /\ deletion'.pc # "idle" => up' /\ deletion'.of # None
                   /\ deletion'.pc = "saving" => deletion'.lora # None
<1> USE NoneAssumption, FieldsLemma DEF IInv, TypeOK, DeletionTypes, Named, Fields
<1>1. ASSUME NEW r \in Trainings, DeleteBegins(r) PROVE Goal
  BY <1>1 DEF DeleteBegins, Loop, server
<1>2. CASE DeleteFiles \/ DeleteSaves
  BY <1>2 DEF DeleteFiles, DeleteSaves, server
<1>3. ASSUME NEW q \in Requests, DeleteLoads(q) PROVE Goal
  BY <1>3 DEF DeleteLoads, server
<1>4. CASE DeleteRow \/ Crash
  <2>1. deletion' = NoDeletion
    BY <1>4, Zenon DEF DeleteRow, Crash
  <2> QED
    BY <2>1
<1>5. CASE UNCHANGED <<deletion, server>>
  BY <1>5 DEF server
<1>6. CASE Shutdown \/ Start
  BY <1>6 DEF Shutdown, Start, Loop
<1>7. ListStep => \/ \E r \in Trainings : DeleteBegins(r)
                  \/ DeleteFiles \/ DeleteSaves \/ DeleteRow \/ Crash
                  \/ \E q \in Requests : DeleteLoads(q)
                  \/ UNCHANGED <<deletion, server>>
  BY DEF ListStep, Request, Deletes, RegisterChecks, Publishes, PublishFails, Registers,
         Selects, SavesSelection, Removes, SavesRemoval, OnlyReq
<1>8. ActorStep => Crash \/ Shutdown \/ Start \/ UNCHANGED server
  BY DEF ActorStep, TrainingEnds, BeginTraining, BeginEvaluation, EvaluationEnds,
         EvaluationThread, EvaluationChecks, EvaluationGenerates, CellFails, EvaluationStops,
         TrainerLoads, TrainerFinishes, TrainerStops, TrainerFails, TrainerKilled, DeleteFiles
<1> QED
  BY ListFrame, ActorFrame, <1>1, <1>2, <1>3, <1>4, <1>5, <1>6, <1>7, <1>8

LEMMA NamedStep == ASSUME IInv, Next PROVE Named'
BY EvaluationsNamed, ProcsNamed, RequestsNamed, DeletionNamed DEF Named, Busy

---------------------------------------------------------------------------
(* The manifest and the evaluation it waits for.                           *)

\* A manifest starts to wait for an evaluation as this evaluation is submitted, is
\* emptied by the removal of the files only, and names an adapter by the call that
\* selects it only.
ManifestMoves(r) ==
    /\ manifest'[r].status = "evaluating" =>
        \/ manifest[r].status = "evaluating" /\ manifest'[r].eval = manifest[r].eval
        \/ \E e \in Evaluations :
            /\ manifest'[r].eval = e
            /\ evalOf[e] = None /\ evalOf'[e] = r
            /\ state'[e] = "queued"
    /\ manifest'[r].status = "none" =>
        \/ manifest[r].status = "none"
        \/ DeleteFiles /\ deletion.of = r
    /\ manifest'[r].status = "registered" =>
        \/ manifest[r].status = "registered" /\ manifest'[r].lora = manifest[r].lora
        \/ \E q \in Requests : SavesSelection(q) /\ manifest'[r].lora = q

LEMMA QueuedMoves ==
    ASSUME IInv, NEW u \in Trainings, NEW e \in Evaluations, manifest' = Queued(u, e),
           evalOf[e] = None, evalOf' = [evalOf EXCEPT ![e] = u], state'[e] = "queued"
    PROVE  \A r \in Trainings : ManifestMoves(r)
<1>1. \A r \in Trainings : r # u => manifest'[r] = manifest[r]
  BY DEF Queued, IInv, TypeOK, DiskTypes
<1>2. manifest'[u].status = "evaluating" /\ manifest'[u].eval = e
  BY DEF Queued, IInv, TypeOK, DiskTypes, Manifests
<1>3. evalOf'[e] = u
  BY DEF IInv, TypeOK, RowTypes
<1> QED
  BY <1>1, <1>2, <1>3 DEF ManifestMoves

LEMMA AbortedMoves ==
    ASSUME IInv, NEW e \in Evaluations, manifest' = Aborted(e)
    PROVE  \A r \in Trainings : ManifestMoves(r)
<1>1. CASE manifest' = manifest
  BY <1>1 DEF ManifestMoves
<1>2. CASE manifest' # manifest
  <2> DEFINE u == evalOf[e]
  <2>1. manifest' = [manifest EXCEPT ![u].status = "failed", ![u].eval = e]
    BY <1>2 DEF Aborted
  <2>2. \A r \in Trainings : r # u => manifest'[r] = manifest[r]
    BY <2>1 DEF IInv, TypeOK, DiskTypes
  <2>3. u \in Trainings => manifest'[u].status = "failed"
    BY <2>1 DEF IInv, TypeOK, DiskTypes, Manifests
  <2> QED
    BY <2>2, <2>3 DEF ManifestMoves
<1> QED
  BY <1>1, <1>2

LEMMA SavedMoves ==
    ASSUME IInv, NEW u \in Trainings, NEW m \in Manifests,
           m.status \notin {"none", "evaluating"}, manifest' = Saved(u, m),
           m.status = "registered" => \E q \in Requests : SavesSelection(q) /\ m.lora = q
    PROVE  \A r \in Trainings : ManifestMoves(r)
BY DEF Saved, ManifestMoves, IInv, TypeOK, DiskTypes

LEMMA ManifestStep == ASSUME IInv, Next PROVE \A r \in Trainings : ManifestMoves(r)
<1> DEFINE Goal == \A r \in Trainings : ManifestMoves(r)
<1>1. ASSUME NEW u \in Trainings, TrainingEnds(u) PROVE Goal
  <2>1. CASE UNCHANGED manifest
    BY <2>1 DEF ManifestMoves
  <2>2. ASSUME NEW e \in Evaluations, evalOf[e] = None,
               state' = [state EXCEPT ![u] = "completed", ![e] = "queued"],
               evalOf' = [evalOf EXCEPT ![e] = u], manifest' = Queued(u, e)
        PROVE  Goal
    <3>1. state'[e] = "queued"
      BY <2>2, IdsAssumption DEF IInv, TypeOK, RowTypes
    <3> QED
      BY <2>2, <3>1, QueuedMoves
  <2> QED
    BY <1>1, <2>1, <2>2 DEF TrainingEnds, FollowUp
<1>2. ASSUME NEW u \in Trainings, NEW e \in Evaluations, NEW force \in BOOLEAN,
             SubmitEvaluation(u, e, force)
      PROVE  Goal
  <2>1. state'[e] = "queued"
    BY <1>2 DEF SubmitEvaluation, Sched!Enqueue, IInv, TypeOK, RowTypes
  <2> QED
    BY <1>2, <2>1, QueuedMoves DEF SubmitEvaluation
<1>3. ASSUME NEW u \in Trainings, DeleteBegins(u) PROVE Goal
  <2>1. manifest[u].eval \in Evaluations \cup {None}
    BY DEF IInv, TypeOK, DiskTypes, Manifests
  <2>2. UNCHANGED manifest \/ \E e \in Evaluations : manifest' = Aborted(e)
    BY <1>3, <2>1 DEF DeleteBegins
  <2> QED
    BY <2>2, AbortedMoves DEF ManifestMoves
<1>4. ASSUME NEW t \in Trainings \cup Evaluations, Cancel(t) PROVE Goal
  <2>1. UNCHANGED manifest \/ \E e \in Evaluations : manifest' = Aborted(e)
    BY <1>4 DEF Cancel
  <2> QED
    BY <2>1, AbortedMoves DEF ManifestMoves
<1>5. ASSUME NEW e \in Evaluations, EvaluationGenerates(e) \/ CellFails(e) PROVE Goal
  <2>1. evalOf[e] \in Trainings
    BY <1>5 DEF EvaluationGenerates, CellFails, IInv, TypeOK, Named, RowTypes
  <2>2. \E st \in {"ready", "failed"} : manifest' = Saved(evalOf[e], Manifest(st, e, None))
    BY <1>5 DEF EvaluationGenerates, CellFails
  <2> QED
    BY <2>1, <2>2, SavedMoves, ManifestType
<1>6. ASSUME NEW q \in Requests, SavesSelection(q) PROVE Goal
  <2>1. req[q].of \in Trainings /\ req[q].seen.eval \in Evaluations \cup {None}
    BY <1>6 DEF SavesSelection, IInv, TypeOK, Named, RequestTypes, Manifests
  <2> DEFINE m == Manifest("registered", req[q].seen.eval, q)
  <2>2. m \in Manifests /\ m.status = "registered" /\ m.lora = q
    BY <2>1 DEF Manifest, Manifests
  <2>3. manifest' = Saved(req[q].of, m)
    BY <1>6 DEF SavesSelection
  <2> HIDE DEF m
  <2> QED
    BY <1>6, <2>1, <2>2, <2>3, SavedMoves
<1>7. ASSUME NEW p \in Procs, TrainerFinishes(p) PROVE Goal
  <2> DEFINE m == Manifest("pending_evaluation", None, None)
  <2>1. manifest' = [manifest EXCEPT ![proc[p].of] = m]
    BY <1>7 DEF TrainerFinishes
  <2>2. m.status = "pending_evaluation"
    BY ManifestType
  <2> HIDE DEF m
  <2> QED
    BY <2>1, <2>2 DEF ManifestMoves, IInv, TypeOK, DiskTypes
<1>8. CASE DeleteFiles
  <2>1. NoManifest.status = "none"
    BY ManifestType DEF NoManifest
  <2>2. manifest' = [manifest EXCEPT ![deletion.of] = NoManifest]
    BY <1>8 DEF DeleteFiles
  <2> QED
    BY <1>8, <2>1, <2>2 DEF ManifestMoves, IInv, TypeOK, DiskTypes
<1>9. CASE UNCHANGED manifest
  BY <1>9 DEF ManifestMoves
<1>10. DiskStep =>
         \/ \E u \in Trainings : TrainingEnds(u) \/ DeleteBegins(u)
         \/ \E u \in Trainings, e \in Evaluations, force \in BOOLEAN :
                SubmitEvaluation(u, e, force)
         \/ \E t \in Trainings \cup Evaluations : Cancel(t)
         \/ \E e \in Evaluations : EvaluationGenerates(e) \/ CellFails(e)
         \/ \E q \in Requests : SavesSelection(q)
         \/ \E p \in Procs : TrainerFinishes(p)
         \/ DeleteFiles
         \/ UNCHANGED manifest
  BY DEF DiskStep, Continue, Look, BeginTraining, BeginTrainless, FailsTrainless, TrainerSaves,
         TrainerStops, TrainerFails
<1> QED
  BY DiskFrame, <1>1, <1>2, <1>3, <1>4, <1>5, <1>6, <1>7, <1>8, <1>9, <1>10 DEF disk

\* An evaluation completes when its thread has a matrix, and the thread has one when
\* the manifest is ready.
LEMMA ThreadStep ==
    ASSUME IInv, Next
    PROVE  \A e \in Evaluations :
               /\ state'[e] = "completed" => state[e] = "completed" \/ thread[e] = "ok"
               /\ thread'[e] = "ok" =>
                      \/ thread[e] = "ok"
                      \/ thread[e] # "none" /\ manifest'[evalOf[e]].status = "ready"
<1>1. \A e \in Evaluations : state'[e] = "completed" => state[e] = "completed" \/ thread[e] = "ok"
  <2> DEFINE Goal == \A e \in Evaluations :
                         state'[e] = "completed" => state[e] = "completed" \/ thread[e] = "ok"
  <2> USE IdsAssumption DEF IInv, TypeOK, RowTypes
  <2>1. ASSUME NEW r \in Trainings, TrainingEnds(r) PROVE Goal
    BY <2>1 DEF TrainingEnds, FollowUp, Sched!Stop
  <2>2. ASSUME NEW r \in Trainings,
               SubmitTraining(r) \/ Continue(r) \/ DeleteBegins(r)
        PROVE  Goal
    BY <2>2 DEF SubmitTraining, Continue, DeleteBegins, Sched!Enqueue, Sched!Requeue, Sched!Remove
  <2>3. ASSUME NEW r \in Trainings,
               BeginTrainless(r) \/ FailsTrainless(r) \/ \E p \in Procs : BeginTraining(r, p)
        PROVE  Goal
    BY <2>3 DEF BeginTraining, BeginTrainless, FailsTrainless, Sched!Begin, Sched!Stop
  <2>4. ASSUME NEW r \in Trainings, NEW e \in Evaluations, NEW force \in BOOLEAN,
               SubmitEvaluation(r, e, force)
        PROVE  Goal
    BY <2>4 DEF SubmitEvaluation, Sched!Enqueue
  <2>5. ASSUME NEW e \in Evaluations, BeginEvaluation(e) \/ EvaluationEnds(e) PROVE Goal
    BY <2>5 DEF BeginEvaluation, EvaluationEnds, Sched!Begin, Sched!Complete, Sched!Stop
  <2>6. ASSUME NEW t \in Trainings \cup Evaluations, Cancel(t) PROVE Goal
    BY <2>6 DEF Cancel, Sched!Cancel
  <2>7. CASE DeleteRow \/ Crash \/ Shutdown \/ Start
    BY <2>7 DEF DeleteRow, Crash, Shutdown, Start, Down, Sched!Remove, Sched!Recover
  <2>8. CASE UNCHANGED rows
    BY <2>8 DEF rows
  <2> QED
    BY RowFrame, <2>1, <2>2, <2>3, <2>4, <2>5, <2>6, <2>7, <2>8 DEF RowStep
<1>2. \A e \in Evaluations : thread'[e] = "ok" =>
          \/ thread[e] = "ok"
          \/ thread[e] # "none" /\ manifest'[evalOf[e]].status = "ready"
  <2> DEFINE Goal == \A e \in Evaluations : thread'[e] = "ok" =>
                         \/ thread[e] = "ok"
                         \/ thread[e] # "none" /\ manifest'[evalOf[e]].status = "ready"
  <2> USE DEF IInv, TypeOK, ActorTypes
  <2>1. ASSUME NEW d \in Evaluations, BeginEvaluation(d) \/ EvaluationEnds(d) PROVE Goal
    BY <2>1 DEF BeginEvaluation, EvaluationEnds
  <2>2. ASSUME NEW d \in Evaluations, EvaluationChecks(d) PROVE Goal
    BY <2>2 DEF EvaluationChecks, Reusable, disk
  <2>3. ASSUME NEW d \in Evaluations, EvaluationGenerates(d) PROVE Goal
    <3>1. evalOf[d] \in Trainings
      BY <2>3 DEF EvaluationGenerates, Named, RowTypes
    <3>2. Manifest("ready", d, None).status = "ready"
      BY ManifestType
    <3>3. evalOf[d] \in dirs => manifest'[evalOf[d]].status = "ready"
      BY <2>3, <3>1, <3>2 DEF EvaluationGenerates, Saved, DiskTypes
    <3> QED
      BY <2>3, <3>3 DEF EvaluationGenerates
  <2>4. ASSUME NEW d \in Evaluations, CellFails(d) \/ EvaluationStops(d) PROVE Goal
    BY <2>4 DEF CellFails, EvaluationStops
  <2>5. CASE UNCHANGED thread \/ thread' = [e \in Evaluations |-> "none"]
    BY <2>5
  <2> QED
    BY ActorFrame, <2>1, <2>2, <2>3, <2>4, <2>5
       DEF ActorStep, EvaluationThread, TrainingEnds, BeginTraining, TrainerLoads,
           TrainerFinishes, TrainerStops, TrainerFails, TrainerKilled, DeleteFiles, Crash, Shutdown, Start
<1> QED
  BY <1>1, <1>2

LEMMA EvaluatingStep == ASSUME IInv, Next PROVE EvaluatingIsUnfinished' /\ ThreadInv'
<1>1. EvaluatingIsUnfinished'
  <2> SUFFICES ASSUME NEW r \in Trainings, manifest'[r].status = "evaluating"
               PROVE  /\ manifest'[r].eval # None
                      /\ evalOf'[manifest'[r].eval] = r
                      /\ state'[manifest'[r].eval] # "completed"
    BY DEF EvaluatingIsUnfinished
  <2>1. CASE manifest[r].status = "evaluating" /\ manifest'[r].eval = manifest[r].eval
    <3> DEFINE e == manifest[r].eval
    <3>1. e \in Evaluations /\ evalOf[e] = r /\ state[e] # "completed" /\ thread[e] # "ok"
      BY <2>1 DEF IInv, TypeOK, DiskTypes, Manifests, EvaluatingIsUnfinished, ThreadInv
    <3> QED
      BY <2>1, <3>1, EvalOfStep, ThreadStep, NoneAssumption
  <2>2. CASE \E e \in Evaluations : /\ manifest'[r].eval = e /\ evalOf'[e] = r
                                    /\ state'[e] = "queued"
    BY <2>2, NoneAssumption
  <2> QED
    BY <2>1, <2>2, ManifestStep DEF ManifestMoves
<1>2. ThreadInv'
  <2> SUFFICES ASSUME NEW e \in Evaluations, NEW r \in Trainings, thread'[e] = "ok",
                      manifest'[r].status = "evaluating", manifest'[r].eval = e
               PROVE  FALSE
    BY DEF ThreadInv
  <2>1. thread[e] # "none" /\ evalOf[e] # None
    BY ThreadStep DEF IInv, Named
  <2>2. manifest[r].status = "evaluating" /\ manifest[r].eval = e
    BY <2>1, ManifestStep DEF ManifestMoves
  <2>3. evalOf[e] = r /\ thread[e] # "ok"
    BY <2>2 DEF IInv, EvaluatingIsUnfinished, ThreadInv
  <2> QED
    BY <2>3, ThreadStep
<1> QED
  BY <1>1, <1>2

---------------------------------------------------------------------------
(* Checkpoints, results and the removal of both.                           *)

\* Every step that changes rows while a removal proceeds ends the removal.
LEMMA DeletionBlocks ==
    ASSUME IInv, Next, deletion.pc # "idle"
    PROVE  UNCHANGED state \/ deletion' = NoDeletion
<1>1. up /\ ~Loop
  BY DEF IInv, Named, Loop
<1>2. CASE DeleteRow \/ Crash
  BY <1>2, Zenon DEF DeleteRow, Crash
<1>3. RowStep => DeleteRow \/ Crash
  BY <1>1 DEF RowStep, SubmitTraining, TrainingEnds, Continue, DeleteBegins, BeginTraining,
              BeginTrainless, FailsTrainless, SubmitEvaluation, BeginEvaluation, EvaluationEnds, Cancel, Shutdown, Start
<1> QED
  BY RowFrame, <1>2, <1>3 DEF rows

LEMMA DeletionStep == ASSUME IInv, Next PROVE DeletionInv'
<1> USE DEF DeletionInv
<1>1. ASSUME deletion.pc # "idle" PROVE DeletionInv'
  <2>1. CASE deletion' = NoDeletion
    BY <2>1, FieldsLemma DEF Fields
  <2>2. CASE UNCHANGED state /\ deletion' # NoDeletion
    <3>1. deletion'.of = deletion.of
      <4>1. CASE DeleteFiles \/ DeleteSaves
        BY <4>1, FieldsLemma DEF DeleteFiles, DeleteSaves, Fields, IInv, TypeOK, DeletionTypes
      <4>2. ASSUME NEW q \in Requests, DeleteLoads(q) PROVE deletion'.of = deletion.of
        BY <2>2, <4>2 DEF DeleteLoads, IInv, TypeOK, DeletionTypes
      <4>3. CASE UNCHANGED deletion
        BY <4>3
      <4>4. ListStep => \/ DeleteFiles \/ DeleteSaves
                        \/ \E q \in Requests : DeleteLoads(q)
                        \/ UNCHANGED deletion \/ deletion' = NoDeletion
        <5>1. Crash \/ DeleteRow => deletion' = NoDeletion
          BY Zenon DEF Crash, DeleteRow
        <5>2. \A r \in Trainings : ~DeleteBegins(r)
          BY <1>1 DEF DeleteBegins, Loop
        <5>3. \A q \in Requests : Request(q) => UNCHANGED deletion
          BY DEF Request, RegisterChecks, Publishes, PublishFails, Registers, Selects,
                 SavesSelection, Removes, SavesRemoval, OnlyReq
        <5> QED
          BY <5>1, <5>2, <5>3 DEF ListStep, Deletes
      <4> QED
        BY <2>2, <4>1, <4>2, <4>3, <4>4, ListFrame
    <3> QED
      BY <1>1, <2>2, <3>1 DEF IInv
  <2> QED
    BY <1>1, <2>1, <2>2, DeletionBlocks
<1>2. ASSUME deletion.pc = "idle" PROVE DeletionInv'
  <2>1. ASSUME NEW r \in Trainings, DeleteBegins(r) PROVE DeletionInv'
    <3>1. deletion'.of = r
      BY <2>1, FieldsLemma DEF DeleteBegins, Fields
    <3>2. state[r] \in Done /\ (state' = state \/ \E e \in Evaluations : Sched!Remove(e))
      <4>1. manifest[r].eval \in Evaluations \cup {None}
        BY DEF IInv, TypeOK, DiskTypes, Manifests
      <4> QED
        BY <2>1, <4>1 DEF DeleteBegins, Terminal
    <3>3. state'[r] \notin Open
      BY <3>2, IdsAssumption DEF Sched!Remove, Done, Open, IInv, TypeOK, RowTypes
    <3> QED
      BY <3>1, <3>3
  <2>2. CASE deletion' = deletion
    BY <1>2, <2>2
  <2>3. CASE Crash
    <3>1. deletion' = NoDeletion
      BY <2>3, Zenon DEF Crash
    <3> QED
      BY <3>1, FieldsLemma DEF Fields
  <2>4. ListStep => (\E r \in Trainings : DeleteBegins(r)) \/ Crash \/ deletion' = deletion
    BY <1>2 DEF ListStep, Deletes, DeleteFiles, DeleteLoads, DeleteSaves, DeleteRow, Request,
                RegisterChecks, Publishes, PublishFails, Registers, Selects, SavesSelection,
                Removes, SavesRemoval, OnlyReq
  <2> QED
    BY ListFrame, <2>1, <2>2, <2>3, <2>4
<1> QED
  BY <1>1, <1>2

\* A row that names its own checkpoint is opened by a handler that saw it, and a
\* training completes on a result that says ok.
LEMMA TrainingMoves ==
    ASSUME IInv, Next
    PROVE  \A r \in Trainings :
               /\ resumes'[r] = r /\ state'[r] \in Open =>
                      \/ resumes[r] = r /\ state[r] \in Open
                      \/ r \in saved /\ UNCHANGED saved
               /\ state'[r] = "completed" =>
                      \/ state[r] = "completed"
                      \/ result[r] = "ok" /\ deletion.pc = "idle"
<1> DEFINE Goal == \A r \in Trainings :
               /\ resumes'[r] = r /\ state'[r] \in Open =>
                      \/ resumes[r] = r /\ state[r] \in Open
                      \/ r \in saved /\ UNCHANGED saved
               /\ state'[r] = "completed" =>
                      \/ state[r] = "completed"
                      \/ result[r] = "ok" /\ deletion.pc = "idle"
<1> USE IdsAssumption DEF IInv, TypeOK, RowTypes, Open
<1>1. ASSUME NEW u \in Trainings, SubmitTraining(u) PROVE Goal
  <2>1. PICK s \in saved \cup {None} : resumes' = [resumes EXCEPT ![u] = s]
    BY <1>1 DEF SubmitTraining
  <2>2. resumes'[u] = u => u \in saved
    BY <2>1, NoneAssumption
  <2>3. state' = [state EXCEPT ![u] = "queued"] /\ UNCHANGED saved
    BY <1>1 DEF SubmitTraining, Sched!Enqueue, disk
  <2> QED
    BY <2>1, <2>2, <2>3
<1>2. ASSUME NEW u \in Trainings, TrainingEnds(u) PROVE Goal
  <2>1. CASE result[u] = "ok" /\ FollowUp(u)
    BY <1>2, <2>1 DEF TrainingEnds, FollowUp, Loop
  <2>2. CASE \E st \in {"cancelled", "failed"} : Sched!Stop(u, st)
    BY <1>2, <2>2 DEF TrainingEnds, Sched!Stop
  <2> QED
    BY <1>2, <2>1, <2>2 DEF TrainingEnds
<1>3. ASSUME NEW u \in Trainings, Continue(u) PROVE Goal
  BY <1>3 DEF Continue, Sched!Requeue
<1>4. ASSUME NEW u \in Trainings, DeleteBegins(u) PROVE Goal
  BY <1>4 DEF DeleteBegins, Sched!Remove
<1>5. ASSUME NEW u \in Trainings,
             BeginTrainless(u) \/ FailsTrainless(u) \/ \E p \in Procs : BeginTraining(u, p)
      PROVE  Goal
  BY <1>5 DEF BeginTraining, BeginTrainless, FailsTrainless, Sched!Begin, Sched!Stop
<1>6. ASSUME NEW u \in Trainings, NEW e \in Evaluations, NEW force \in BOOLEAN,
             SubmitEvaluation(u, e, force)
      PROVE  Goal
  BY <1>6 DEF SubmitEvaluation, Sched!Enqueue
<1>7. ASSUME NEW e \in Evaluations, BeginEvaluation(e) \/ EvaluationEnds(e) PROVE Goal
  BY <1>7 DEF BeginEvaluation, EvaluationEnds, Sched!Begin, Sched!Complete, Sched!Stop
<1>8. ASSUME NEW t \in Trainings \cup Evaluations, Cancel(t) PROVE Goal
  BY <1>8 DEF Cancel, Sched!Cancel
<1>9. CASE DeleteRow \/ Crash \/ Shutdown \/ Start
  BY <1>9 DEF DeleteRow, Crash, Shutdown, Start, Down, Sched!Remove, Sched!Recover
<1>10. CASE UNCHANGED rows
  BY <1>10 DEF rows
<1> QED
  BY RowFrame, <1>1, <1>2, <1>3, <1>4, <1>5, <1>6, <1>7, <1>8, <1>9, <1>10 DEF RowStep

\* Checkpoints and results appear by the hand of a trainer that works on the training,
\* or by the copy made for it, and go with the files.
FilesMove(r) ==
    /\ r \in saved' =>
           \/ r \in saved
           \/ \E p \in Procs : proc[p].pc \in {"starting", "training"} /\ proc[p].of = r
           \/ state'[r] = "running"
    /\ r \in saved /\ r \notin saved' => DeleteFiles /\ deletion.of = r
    /\ result'[r] = "ok" => result[r] = "ok" \/ manifest'[r].status # "none"
    /\ \A p \in Procs : proc'[p].pc \in {"starting", "training"} /\ proc'[p].of = r =>
           \/ /\ proc[p].pc \in {"starting", "training"} /\ proc[p].of = r
              /\ proc'[p].from = proc[p].from
           \/ state'[r] = "running" /\ (proc'[p].from # None => r \in saved')
    /\ DeleteFiles /\ deletion.of = r =>
           /\ r \notin saved' /\ result'[r] = "none"
           /\ \A p \in Procs : proc'[p].pc \in {"starting", "training"} => proc'[p].of # r

LEMMA FilesStep == ASSUME IInv, Next PROVE \A r \in Trainings : FilesMove(r)
<1> DEFINE Goal == \A r \in Trainings : FilesMove(r)
<1> USE NoneAssumption DEF FilesMove
<1>0. deletion' = deletion => ~DeleteFiles
  BY DEF DeleteFiles, IInv, TypeOK, DeletionTypes
<1>1. ASSUME NEW p \in Procs, TrainerFinishes(p) PROVE Goal
  <2>1. ~DeleteFiles
    BY <1>0, <1>1 DEF TrainerFinishes
  <2>2. proc[p].of \in Trainings /\ saved' = saved \cup {proc[p].of} /\ proc[p].pc = "training"
    BY <1>1 DEF TrainerFinishes, IInv, TypeOK, ActorTypes, Named, Busy
  <2>3. \A r \in Trainings : result'[r] = "ok" => result[r] = "ok" \/ r = proc[p].of
    BY <1>1, <2>2 DEF TrainerFinishes, Reports, IInv, TypeOK, DiskTypes
  <2>4. manifest'[proc[p].of].status = "pending_evaluation"
    BY <1>1, <2>2, ManifestType DEF TrainerFinishes, IInv, TypeOK, DiskTypes
  <2>5. \A u \in Procs : proc'[u] = proc[u] \/ proc'[u].pc = "idle"
    BY <1>1 DEF TrainerFinishes, TrainerLeaves, NoProc, IInv, TypeOK, ActorTypes
  <2> QED
    BY <2>1, <2>2, <2>3, <2>4, <2>5
<1>2. ASSUME NEW p \in Procs, TrainerStops(p) \/ TrainerFails(p) \/ TrainerKilled(p) PROVE Goal
  <2>1. ~DeleteFiles
    BY <1>0, <1>2 DEF TrainerStops, TrainerFails, TrainerKilled
  <2>2. UNCHANGED saved
    BY <1>2 DEF TrainerStops, TrainerFails, TrainerKilled, disk
  <2>3. \A r \in Trainings : result'[r] = "ok" => result[r] = "ok"
    BY <1>2 DEF TrainerStops, TrainerFails, TrainerKilled, disk, Reports, IInv, TypeOK, DiskTypes
  <2>4. \A u \in Procs : proc'[u] = proc[u] \/ proc'[u].pc = "idle"
    BY <1>2 DEF TrainerStops, TrainerFails, TrainerKilled, TrainerLeaves, NoProc, IInv, TypeOK,
                ActorTypes
  <2> QED
    BY <2>1, <2>2, <2>3, <2>4
<1>3. ASSUME NEW p \in Procs, TrainerSaves(p) PROVE Goal
  BY <1>0, <1>3 DEF TrainerSaves, actors
<1>4. ASSUME NEW u \in Trainings, NEW p \in Procs, BeginTraining(u, p) PROVE Goal
  <2>1. /\ ~DeleteFiles
        /\ saved' = IF resumes[u] = None THEN saved ELSE saved \cup {u}
    BY <1>0, <1>4 DEF BeginTraining
  <2>2. \A r \in Trainings : result'[r] = "ok" => result[r] = "ok"
    BY <1>4 DEF BeginTraining, IInv, TypeOK, DiskTypes
  <2>3. \A d \in Procs :
            proc'[d] = proc[d] \/ (proc'[d].of = u /\ proc'[d].from = resumes[u])
    BY <1>4 DEF BeginTraining, IInv, TypeOK, ActorTypes
  <2>4. state'[u] = "running"
    BY <1>4 DEF BeginTraining, Sched!Begin, IInv, TypeOK, RowTypes
  <2> QED
    BY <2>1, <2>2, <2>3, <2>4
<1>5. CASE DeleteFiles
  <2>1. deletion.of \in Trainings
    BY <1>5 DEF DeleteFiles, IInv, TypeOK, DeletionTypes, Named
  <2>2. saved' = saved \ {deletion.of}
    BY <1>5 DEF DeleteFiles
  <2>3. result' = [result EXCEPT ![deletion.of] = "none"]
    BY <1>5 DEF DeleteFiles
  <2>4. result'[deletion.of] = "none" /\ \A r \in Trainings : result'[r] = "ok" => result[r] = "ok"
    BY <2>1, <2>3 DEF IInv, TypeOK, DiskTypes
  <2>5. proc' = [p \in Procs |->
            IF proc[p].of = deletion.of THEN [proc[p] EXCEPT !.pc = "lost"] ELSE proc[p]]
    BY <1>5 DEF DeleteFiles
  <2>6. \A p \in Procs : proc'[p].pc \in {"starting", "training"} =>
            proc'[p] = proc[p] /\ proc[p].of # deletion.of
    BY <2>5 DEF IInv, TypeOK, ActorTypes
  <2> QED
    BY <1>5, <2>1, <2>2, <2>4, <2>6
<1>6. CASE UNCHANGED <<saved, result, proc>> /\ ~DeleteFiles
  BY <1>6
<1>9. ASSUME NEW p \in Procs, TrainerLoads(p) PROVE Goal
  <2>1. ~DeleteFiles /\ UNCHANGED <<saved, result>>
    BY <1>0, <1>9 DEF TrainerLoads, disk
  <2>2. \A d \in Procs : \/ proc'[d] = proc[d]
                        \/ /\ proc[d].pc = "starting"
                           /\ proc'[d].of = proc[d].of /\ proc'[d].from = proc[d].from
    BY <1>9 DEF TrainerLoads, IInv, TypeOK, ActorTypes
  <2> QED
    BY <2>1, <2>2
<1>7. DiskStep => \/ \E p \in Procs : Trainer(p)
                  \/ \E u \in Trainings, p \in Procs : BeginTraining(u, p)
                  \/ DeleteFiles
                  \/ UNCHANGED <<saved, result>>
  BY DEF DiskStep, Trainer, TrainingEnds, Continue, DeleteBegins, Look, BeginTrainless,
         FailsTrainless, SubmitEvaluation, EvaluationGenerates, CellFails, Cancel, SavesSelection
<1>8. ActorStep => \/ \E p \in Procs : Trainer(p)
                   \/ \E u \in Trainings, p \in Procs : BeginTraining(u, p)
                   \/ DeleteFiles
                   \/ UNCHANGED proc
  BY DEF ActorStep, Trainer, TrainingEnds, BeginEvaluation, EvaluationThread, EvaluationChecks,
         EvaluationGenerates, CellFails, EvaluationStops, EvaluationEnds, Crash, Shutdown,
         Start, Down
<1> QED
  BY DiskFrame, ActorFrame, <1>1, <1>2, <1>3, <1>4, <1>5, <1>6, <1>7, <1>8, <1>9 DEF disk, Trainer

LEMMA ManifestInvStep == ASSUME IInv, Next PROVE ManifestInv'
<1> SUFFICES ASSUME NEW r \in Trainings
             PROVE  /\ result'[r] = "ok" => manifest'[r].status # "none"
                    /\ state'[r] = "completed" =>
                           \/ manifest'[r].status # "none"
                           \/ /\ r \notin saved'
                              /\ \A p \in Procs :
                                     proc'[p].pc \in {"starting", "training"} => proc'[p].of # r
  BY DEF ManifestInv, NothingLeft
<1>1. FilesMove(r) /\ ManifestMoves(r)
  BY FilesStep, ManifestStep
<1>2. result[r] = "ok" => manifest[r].status # "none"
  BY DEF IInv, ManifestInv
<1>3. result'[r] = "ok" => manifest'[r].status # "none"
  BY <1>1, <1>2 DEF FilesMove, ManifestMoves
<1>4. ASSUME state'[r] = "completed", manifest'[r].status = "none",
             ~(DeleteFiles /\ deletion.of = r)
      PROVE  /\ r \notin saved'
             /\ \A p \in Procs : proc'[p].pc \in {"starting", "training"} => proc'[p].of # r
  <2>1. manifest[r].status = "none" /\ result[r] # "ok"
    BY <1>1, <1>2, <1>4 DEF ManifestMoves
  <2>2. state[r] = "completed"
    BY <1>4, <2>1, TrainingMoves
  <2>3. NothingLeft(r)
    BY <2>1, <2>2 DEF IInv, ManifestInv
  <2> QED
    BY <1>1, <1>4, <2>3 DEF FilesMove, NothingLeft
<1> QED
  BY <1>1, <1>3, <1>4 DEF FilesMove

LEMMA ResumeStep == ASSUME IInv, Next PROVE ResumeHasCheckpoint'
<1>1. \A r \in Trainings : r \in saved => r \in saved' \/ (DeleteFiles /\ deletion.of = r)
  BY FilesStep DEF FilesMove
<1>2. ASSUME NEW r \in Trainings, resumes'[r] = r, state'[r] \in Open PROVE r \in saved'
  <2>1. CASE r \in saved /\ UNCHANGED saved
    BY <2>1
  <2>2. CASE resumes[r] = r /\ state[r] \in Open
    <3>1. r \in saved
      BY <2>2 DEF IInv, ResumeHasCheckpoint
    <3>2. ~(DeleteFiles /\ deletion.of = r)
      BY <2>2 DEF DeleteFiles, IInv, DeletionInv
    <3> QED
      BY <1>1, <3>1, <3>2
  <2> QED
    BY <1>2, <2>1, <2>2, TrainingMoves
<1>3. ASSUME NEW p \in Procs, proc'[p].pc \in {"starting", "training"}, proc'[p].from # None
      PROVE  proc'[p].of \in saved'
  <2> DEFINE r == proc'[p].of
  <2>1. r \in Trainings
    BY <1>3, ActorTypesStep, ProcsNamed DEF ActorTypes
  <2>2. CASE /\ proc[p].pc \in {"starting", "training"} /\ proc[p].of = r
             /\ proc'[p].from = proc[p].from
    <3>1. r \in saved
      BY <1>3, <2>2 DEF IInv, ResumeHasCheckpoint
    <3>2. ~(DeleteFiles /\ deletion.of = r)
      BY <1>3, <2>1, FilesStep DEF FilesMove
    <3> QED
      BY <1>1, <2>1, <3>1, <3>2
  <2> QED
    BY <1>3, <2>1, <2>2, FilesStep DEF FilesMove
<1> QED
  BY <1>2, <1>3 DEF ResumeHasCheckpoint

LEMMA CountedStep == ASSUME IInv, Next PROVE TrainersCounted'
<1> DEFINE X == {p \in Procs : Busy(p) /\ p # awaited}
           Y == {p \in Procs : proc'[p].pc # "idle" /\ p # awaited'}
<1>1. IsFiniteSet(X) /\ Cardinality(X) \in Nat /\ Cardinality(X) <= lives /\ lives \in Nat
  <2>1. IsFiniteSet(X)
    BY ProcsAssumption, FS_Subset
  <2> QED
    BY <2>1, FS_CardinalityType DEF IInv, TypeOK, ActorTypes, TrainersCounted
<1>2. ASSUME Y \subseteq X, lives' = lives PROVE TrainersCounted'
  <2>1. Cardinality(Y) \in Nat /\ Cardinality(Y) <= Cardinality(X)
    BY <1>1, <1>2, FS_Subset, FS_CardinalityType
  <2>2. Cardinality(Y) <= lives'
    BY <1>1, <1>2, <2>1
  <2> QED
    BY <2>2 DEF TrainersCounted, Busy
<1>3. ASSUME Y \subseteq X \cup {awaited}, lives' = lives + 1 PROVE TrainersCounted'
  <2>1. /\ IsFiniteSet(X \cup {awaited}) /\ Cardinality(X \cup {awaited}) \in Nat
        /\ Cardinality(X \cup {awaited}) <= Cardinality(X) + 1
    BY <1>1, FS_AddElement, FS_CardinalityType
  <2>2. Cardinality(Y) \in Nat /\ Cardinality(Y) <= Cardinality(X \cup {awaited})
    BY <1>3, <2>1, FS_Subset, FS_CardinalityType
  <2>3. Cardinality(Y) <= lives'
    BY <1>1, <1>3, <2>1, <2>2
  <2> QED
    BY <2>3 DEF TrainersCounted, Busy
<1> HIDE DEF X, Y
<1>4. ASSUME NEW r \in Trainings, NEW p \in Procs, BeginTraining(r, p) PROVE TrainersCounted'
  <2>1. awaited = None
    BY <1>4 DEF BeginTraining, Sched!Begin, IInv, AwaitedInv
  <2>2. \A d \in Procs : proc'[d] = proc[d] \/ d = p
    BY <1>4 DEF BeginTraining, IInv, TypeOK, ActorTypes
  <2>3. Y \subseteq X
    BY <1>4, <2>1, <2>2, NoneAssumption DEF X, Y, Busy, BeginTraining
  <2> QED
    BY <1>2, <1>4, <2>3 DEF BeginTraining, server
<1>5. ASSUME NEW r \in Trainings, TrainingEnds(r) PROVE TrainersCounted'
  <2>1. Y \subseteq X
    BY <1>5 DEF TrainingEnds, Communicated, X, Y, Busy
  <2> QED
    BY <1>2, <1>5, <2>1 DEF TrainingEnds, server
<1>6. ASSUME NEW p \in Procs, Trainer(p) PROVE TrainersCounted'
  <2>1. \A d \in Procs : proc'[d] = proc[d] \/ proc'[d].pc = "idle" \/ proc[d].pc = "starting"
    BY <1>6 DEF Trainer, TrainerLoads, TrainerSaves, TrainerFinishes, TrainerStops, TrainerFails,
                TrainerKilled, TrainerLeaves, NoProc, actors, IInv, TypeOK, ActorTypes
  <2>2. UNCHANGED <<awaited, server>>
    BY <1>6 DEF Trainer, TrainerLoads, TrainerSaves, TrainerFinishes, TrainerStops,
                TrainerFails, TrainerKilled, actors
  <2>3. Y \subseteq X
    BY <2>1, <2>2 DEF X, Y, Busy
  <2> QED
    BY <1>2, <2>2, <2>3 DEF server
<1>7. CASE DeleteFiles
  <2>1. proc' = [p \in Procs |->
            IF proc[p].of = deletion.of THEN [proc[p] EXCEPT !.pc = "lost"] ELSE proc[p]]
    BY <1>7 DEF DeleteFiles
  <2>2. deletion.of # None /\ UNCHANGED <<awaited, server>>
    BY <1>7 DEF DeleteFiles, IInv, Named
  <2>3. \A p \in Procs : proc[p].of = deletion.of => Busy(p)
    <3>1. \A p \in Procs : ~Busy(p) => proc[p].of = None
      BY DEF IInv, Named
    <3> QED
      BY <2>2, <3>1
  <2>4. Y \subseteq X
    BY <2>1, <2>2, <2>3 DEF X, Y, Busy
  <2> QED
    BY <1>2, <2>2, <2>4 DEF server
<1>8. CASE Crash \/ Shutdown
  <2>1. awaited' = None /\ UNCHANGED proc /\ lives' = lives + 1
    BY <1>8, Zenon DEF Crash, Shutdown, Down
  <2>2. Y \subseteq X \cup {awaited}
    BY <2>1 DEF X, Y, Busy
  <2> QED
    BY <1>3, <2>1, <2>2
<1>9. CASE UNCHANGED <<proc, awaited, lives>>
  BY <1>2, <1>9 DEF X, Y, Busy
<1>10. ActorStep =>
         \/ \E r \in Trainings : TrainingEnds(r) \/ \E p \in Procs : BeginTraining(r, p)
         \/ \E p \in Procs : Trainer(p)
         \/ DeleteFiles
         \/ Crash \/ Shutdown
         \/ UNCHANGED <<proc, awaited, lives>>
  BY DEF ActorStep, Trainer, BeginEvaluation, EvaluationThread, EvaluationChecks,
         EvaluationGenerates, CellFails, EvaluationStops, EvaluationEnds, Start, server
<1> QED
  BY ActorFrame, <1>4, <1>5, <1>6, <1>7, <1>8, <1>9, <1>10 DEF server

---------------------------------------------------------------------------
(* The list of adapters.                                                   *)

\* A call whose adapter may be listed never becomes another, and the adapter of a
\* call becomes one by its registration.
LEMMA PublishedStep ==
    ASSUME IInv, Next
    PROVE  /\ Published \subseteq Published'
           /\ \A q \in Requests :
                  req'[q].pc \in {"published", "selecting"} =>
                      req[q].pc \in {"published", "selecting"} \/ Registers(q)
           /\ \A q \in Requests : Registers(q) => q \in Published'
<1>1. ASSUME NEW q \in Requests, Request(q)
      PROVE  /\ Published \subseteq Published'
             /\ \A d \in Requests :
                    req'[d].pc \in {"published", "selecting"} =>
                        req[d].pc \in {"published", "selecting"} \/ Registers(d)
  <2>1. \A d \in Requests : d # q => req'[d] = req[d]
    BY <1>1, RequestStep
  <2>2. q \in Published => req'[q].pc \in {"published", "selecting", "done", "refused"}
    BY <1>1, RequestStep DEF Request, Published
  <2>3. req'[q].pc \in {"published", "selecting"} =>
            req[q].pc \in {"published", "selecting"} \/ Registers(q)
    BY <1>1, RequestStep DEF Request
  <2> QED
    BY <2>1, <2>2, <2>3 DEF Published
<1>2. ASSUME Crash
      PROVE  /\ Published \subseteq Published'
             /\ \A d \in Requests :
                    req'[d].pc \in {"published", "selecting"} =>
                        req[d].pc \in {"published", "selecting"} \/ Registers(d)
  <2>1. \A d \in Requests :
            \/ req'[d].pc = "refused"
            \/ /\ req'[d] = req[d]
               /\ req[d].pc \in {"idle", "done", "refused"}
    <3>1. \A d \in Requests :
              \/ req'[d] = req[d] /\ req[d].pc \in {"idle", "done", "refused"}
              \/ /\ req'[d].pc = "refused" /\ req'[d].of = req[d].of
                 /\ req'[d].regs = {} /\ req'[d].lora = None
      BY <1>2, CrashRequests
    <3> QED
      BY <3>1
  <2> QED
    BY <2>1 DEF Published
<1>3. ASSUME UNCHANGED req
      PROVE  /\ Published \subseteq Published'
             /\ \A d \in Requests :
                    req'[d].pc \in {"published", "selecting"} =>
                        req[d].pc \in {"published", "selecting"} \/ Registers(d)
  BY <1>3 DEF Published
<1>4. ASSUME NEW q \in Requests, Registers(q) PROVE q \in Published'
  <2>1. req'[q].pc = "published"
    BY <1>4, RequestStep DEF Request
  <2> QED
    BY <2>1 DEF Published
<1>5. (\E q \in Requests : Request(q)) \/ Crash \/ UNCHANGED req
  BY ListFrame
     DEF ListStep, Deletes, DeleteBegins, DeleteFiles, DeleteLoads, DeleteSaves, DeleteRow
<1>6. Published \subseteq Published'
  BY <1>1, <1>2, <1>3, <1>5
<1>7. \A d \in Requests :
          req'[d].pc \in {"published", "selecting"} =>
              req[d].pc \in {"published", "selecting"} \/ Registers(d)
  BY <1>1, <1>2, <1>3, <1>5
<1> QED
  BY <1>4, <1>6, <1>7

\* What a step does to the lists.
ListMoves ==
    \/ UNCHANGED list
    \/ \E q \in Requests : /\ Registers(q) /\ req[q].pc = "registering"
                           /\ Writes(req[q].regs, req[q].regs \cup {q})
                           /\ removed' = removed
    \/ \E q \in Requests : /\ Writes(req[q].regs, req[q].regs \ {req[q].lora})
                           /\ req[q].pc = "removing"
                           /\ removed' = removed \cup {req[q].lora}
    \/ /\ Writes(deletion.regs, deletion.regs \ {deletion.lora})
       /\ deletion.pc = "saving"
       /\ removed' = removed \cup {deletion.lora}

LEMMA ListMovesLemma == ASSUME IInv, Next PROVE ListMoves
BY ListFrame
   DEF ListMoves, ListStep, Request, Deletes, Registers, SavesRemoval, DeleteSaves,
       RegisterChecks, Publishes, PublishFails, Selects, SavesSelection, Removes,
       DeleteBegins, DeleteFiles, DeleteLoads, DeleteRow, Crash, Down

LEMMA ListsStep == ASSUME IInv, Next PROVE ListsInv'
<1>1. registry' \cup removed' \subseteq Published'
  <2>1. registry \cup removed \subseteq Published
    BY DEF IInv, ListsInv
  <2>2. CASE UNCHANGED list
    BY <2>1, <2>2, PublishedStep DEF list
  <2>3. ASSUME NEW q \in Requests, Registers(q),
               Writes(req[q].regs, req[q].regs \cup {q}), removed' = removed
        PROVE  registry' \cup removed' \subseteq Published'
    BY <2>1, <2>3, PublishedStep DEF Writes, IInv, ListsInv
  <2>4. ASSUME NEW q \in Requests, req[q].pc = "removing",
               Writes(req[q].regs, req[q].regs \ {req[q].lora}),
               removed' = removed \cup {req[q].lora}
        PROVE  registry' \cup removed' \subseteq Published'
    <3>1. req[q].lora \in Published /\ req[q].regs \subseteq Published
      BY <2>4 DEF IInv, ListsInv, Named
    <3> QED
      BY <2>1, <2>4, <3>1, PublishedStep DEF Writes
  <2>5. ASSUME Writes(deletion.regs, deletion.regs \ {deletion.lora}), deletion.pc = "saving",
               removed' = removed \cup {deletion.lora}
        PROVE  registry' \cup removed' \subseteq Published'
    <3>1. deletion.lora \in Published /\ deletion.regs \subseteq Published
      BY <2>5 DEF IInv, ListsInv, Named
    <3> QED
      BY <2>1, <2>5, <3>1, PublishedStep DEF Writes
  <2> QED
    BY ListMovesLemma, <2>2, <2>3, <2>4, <2>5 DEF ListMoves
<1>2. \A q \in Requests : req'[q].regs \subseteq Published' /\ req'[q].lora \in Published' \cup {None}
  <2>1. \A q \in Requests : req[q].regs \subseteq Published /\ req[q].lora \in Published \cup {None}
    BY DEF IInv, ListsInv
  <2>2. ASSUME NEW q \in Requests, Request(q)
        PROVE  /\ req'[q].regs \subseteq Published' /\ req'[q].lora \in Published' \cup {None}
               /\ \A d \in Requests : d # q => req'[d] = req[d]
    <3>1. req'[q].regs \in {req[q].regs, registry, {}}
      BY <2>2, RequestStep DEF Request
    <3>2. req'[q].lora = req[q].lora \/ req'[q].lora \in registry
      BY <2>2, RequestStep DEF Request, Removes
    <3>3. registry \subseteq Published
      BY DEF IInv, ListsInv
    <3> QED
      BY <2>1, <2>2, <3>1, <3>2, <3>3, PublishedStep, RequestStep
  <2>3. CASE Crash
    BY <2>1, <2>3, CrashRequests, PublishedStep
  <2>4. CASE UNCHANGED req
    BY <2>1, <2>4, PublishedStep
  <2> QED
    BY <2>1, <2>2, <2>3, <2>4, ListFrame, PublishedStep
       DEF ListStep, Deletes, DeleteBegins, DeleteFiles, DeleteLoads, DeleteSaves, DeleteRow
<1>3. /\ deletion'.regs \cup deletion'.loras \subseteq Published'
      /\ deletion'.lora \in Published' \cup {None}
  <2> DEFINE Goal == /\ deletion'.regs \cup deletion'.loras \subseteq Published'
                     /\ deletion'.lora \in Published' \cup {None}
  <2>1. /\ deletion.regs \cup deletion.loras \cup registry \subseteq Published
        /\ deletion.lora \in Published \cup {None}
    BY DEF IInv, ListsInv
  <2>2. deletion \in [of : Trainings \cup {None}, pc : {"idle", "files", "adapters", "saving"},
                      regs : SUBSET Requests, loras : SUBSET Requests,
                      lora : Requests \cup {None}]
    BY DEF IInv, TypeOK, DeletionTypes
  <2>3. CASE deletion' = NoDeletion
    BY <2>3, FieldsLemma DEF Fields
  <2>4. ASSUME NEW r \in Trainings, DeleteBegins(r) PROVE Goal
    BY <2>4, FieldsLemma DEF DeleteBegins, Fields
  <2>5. CASE DeleteFiles
    <3>1. deletion'.regs = deletion.regs /\ deletion'.lora = deletion.lora
          /\ deletion'.loras \subseteq registry
      BY <2>2, <2>5 DEF DeleteFiles
    <3> QED
      BY <2>1, <3>1, PublishedStep
  <2>6. ASSUME NEW q \in Requests, DeleteLoads(q) PROVE Goal
    <3>1. CASE q \in registry
      <4>1. /\ deletion'.regs = registry /\ deletion'.lora = q
            /\ deletion'.loras = deletion.loras
        BY <2>2, <2>6, <3>1 DEF DeleteLoads
      <4> QED
        BY <2>1, <3>1, <4>1, PublishedStep
    <3> QED
      BY <2>3, <2>6, <3>1 DEF DeleteLoads
  <2>7. CASE DeleteSaves
    <3>1. deletion' = [NoDeletion EXCEPT !.of = deletion.of, !.pc = "adapters",
                                         !.loras = deletion.loras \ {deletion.lora}]
      BY <2>7 DEF DeleteSaves
    <3>2. deletion'.regs = {} /\ deletion'.lora = None /\ deletion'.loras \subseteq deletion.loras
      BY <3>1, FieldsLemma DEF Fields
    <3> QED
      BY <2>1, <3>2, PublishedStep
  <2>8. CASE UNCHANGED deletion
    BY <2>1, <2>8, PublishedStep
  <2>9. Crash \/ DeleteRow => deletion' = NoDeletion
    BY Zenon DEF Crash, DeleteRow
  <2>10. \A q \in Requests : Request(q) => UNCHANGED deletion
    BY DEF Request, RegisterChecks, Publishes, PublishFails, Registers, Selects,
           SavesSelection, Removes, SavesRemoval, OnlyReq
  <2> QED
    BY ListFrame, <2>3, <2>4, <2>5, <2>6, <2>7, <2>8, <2>9, <2>10 DEF ListStep, Deletes
<1> QED
  BY <1>1, <1>2, <1>3 DEF ListsInv

\* Without two writers at once an adapter passes from the list to the removed ones,
\* and one that is registered was in neither.
LEMMA KeptStep ==
    ASSUME IInv, Next, ~clobbered'
    PROVE  /\ ~clobbered
           /\ registry \cup removed \subseteq registry' \cup removed'
           /\ \A q \in Requests : Registers(q) => q \in registry'
           /\ registry \cap removed = {} => registry' \cap removed' = {}
<1>1. \A q \in Requests : Registers(q) => q \in registry'
  BY DEF Registers, Writes
<1>2. CASE UNCHANGED list
  BY <1>1, <1>2 DEF list
<1>3. ASSUME NEW q \in Requests, req[q].pc = "registering",
             Writes(req[q].regs, req[q].regs \cup {q}), removed' = removed
      PROVE  /\ ~clobbered
             /\ registry \cup removed \subseteq registry' \cup removed'
             /\ registry \cap removed = {} => registry' \cap removed' = {}
  <2>1. ~clobbered /\ registry' = registry \cup {q}
    BY <1>3 DEF Writes, IInv, TypeOK, ListTypes
  <2>2. q \notin removed
    BY <1>3 DEF IInv, ListsInv, Published
  <2> QED
    BY <1>3, <2>1, <2>2
<1>4. ASSUME NEW a, NEW seen, Writes(seen, seen \ {a}), removed' = removed \cup {a}
      PROVE  /\ ~clobbered
             /\ registry \cup removed \subseteq registry' \cup removed'
             /\ registry \cap removed = {} => registry' \cap removed' = {}
  <2>1. ~clobbered /\ registry' = registry \ {a}
    BY <1>4 DEF Writes, IInv, TypeOK, ListTypes
  <2> QED
    BY <1>4, <2>1
<1> QED
  BY ListMovesLemma, <1>1, <1>2, <1>3, <1>4 DEF ListMoves

LEMMA ListedStep == ASSUME IInv, Next PROVE ListedInv' /\ RegistryIsTrue'
<1> SUFFICES ASSUME ~clobbered'
             PROVE  /\ \A q \in Requests :
                           req'[q].pc \in {"published", "selecting"} =>
                               q \in registry' \cup removed'
                    /\ registry' \cap removed' = {}
                    /\ \A r \in Trainings : manifest'[r].status = "registered" =>
                           manifest'[r].lora \in registry' \cup removed'
  BY DEF ListedInv, RegistryIsTrue
<1>1. /\ ~clobbered
      /\ registry \cup removed \subseteq registry' \cup removed'
      /\ \A q \in Requests : Registers(q) => q \in registry'
      /\ registry \cap removed = {} => registry' \cap removed' = {}
  BY KeptStep
<1>2. \A q \in Requests : req[q].pc \in {"published", "selecting"} => q \in registry \cup removed
  BY <1>1 DEF IInv, ListedInv
<1>3. /\ registry \cap removed = {}
      /\ \A r \in Trainings : manifest[r].status = "registered" =>
             manifest[r].lora \in registry \cup removed
  BY <1>1 DEF IInv, RegistryIsTrue
<1>4. \A q \in Requests : req'[q].pc \in {"published", "selecting"} => q \in registry' \cup removed'
  BY <1>1, <1>2, PublishedStep
<1>5. \A r \in Trainings : manifest'[r].status = "registered" =>
          manifest'[r].lora \in registry' \cup removed'
  <2>1. \A q \in Requests : SavesSelection(q) => req[q].pc = "selecting"
    BY DEF SavesSelection
  <2> QED
    BY <1>1, <1>2, <1>3, <2>1, ManifestStep DEF ManifestMoves
<1> QED
  BY <1>1, <1>3, <1>4, <1>5

---------------------------------------------------------------------------
(* The theorems.                                                           *)

LEMMA NextLemma == ASSUME IInv, [Next]_vars PROVE IInv'
<1>1. CASE Next
  <2>1. TypeOK'
    BY <1>1, RowTypesStep, DiskTypesStep, ActorTypesStep, RequestTypesStep, DeletionTypesStep,
       ListTypesStep DEF TypeOK
  <2>2. Named' /\ IssuedInv' /\ AwaitedInv'
    BY <1>1, NamedStep, IssuedStep, AwaitedStep
  <2>3. EvaluatingIsUnfinished' /\ ThreadInv' /\ ManifestInv' /\ DeletionInv'
    BY <1>1, EvaluatingStep, ManifestInvStep, DeletionStep
  <2>4. ResumeHasCheckpoint' /\ TrainersCounted'
    BY <1>1, ResumeStep, CountedStep
  <2>5. ListsInv' /\ ListedInv' /\ RegistryIsTrue'
    BY <1>1, ListsStep, ListedStep
  <2> QED
    BY <2>1, <2>2, <2>3, <2>4, <2>5 DEF IInv
<1>2. CASE UNCHANGED vars
  <2> USE <1>2 DEF IInv, vars, rows, disk, actors, server, list
  <2>1. TypeOK'
    BY DEF TypeOK, RowTypes, DiskTypes, ActorTypes, RequestTypes, DeletionTypes, ListTypes
  <2>2. Named' /\ IssuedInv' /\ AwaitedInv'
    BY DEF Named, IssuedInv, AwaitedInv, Busy
  <2>3. EvaluatingIsUnfinished' /\ ThreadInv' /\ ManifestInv' /\ DeletionInv'
    BY DEF EvaluatingIsUnfinished, ThreadInv, ManifestInv, NothingLeft, DeletionInv
  <2>4. ResumeHasCheckpoint' /\ TrainersCounted'
    BY DEF ResumeHasCheckpoint, TrainersCounted, Busy
  <2>5. ListsInv' /\ ListedInv' /\ RegistryIsTrue'
    BY DEF ListsInv, ListedInv, RegistryIsTrue, Published
  <2> QED
    BY <2>1, <2>2, <2>3, <2>4, <2>5
<1> QED
  BY <1>1, <1>2

\* The invariant that the others follow from.
THEOREM Invariance == Spec => []IInv
BY InitLemma, NextLemma, PTL DEF Spec

\* Every variable has its type.
THEOREM TypeCorrect == Spec => []TypeOK
<1>1. IInv => TypeOK
  BY DEF IInv
<1> QED
  BY <1>1, Invariance, PTL

\* A life of the server leaves at most one trainer behind (task_scheduler.py, _execute:
\* communicate() returns before the next task is taken).
THEOREM FewTrainers == Spec => []TrainersCounted
<1>1. IInv => TrainersCounted
  BY DEF IInv
<1> QED
  BY <1>1, Invariance, PTL

\* A manifest that waits, waits for an evaluation of its training that has not completed
\* (lora_checkpoint_evaluation.py, mark_evaluation_queued and the end of the run).
THEOREM WaitsForSomething == Spec => []EvaluatingIsUnfinished
<1>1. IInv => EvaluatingIsUnfinished
  BY DEF IInv
<1> QED
  BY <1>1, Invariance, PTL

\* The checkpoints of a completed training can be picked from
\* (lora_checkpoint_evaluation.py, finish_training_without_register).
THEOREM CompletedIsListed == Spec => []CandidatesListed
<1>1. IInv => CandidatesListed
  BY DEF IInv, ManifestInv, NothingLeft, CandidatesListed
<1> QED
  BY <1>1, Invariance, PTL

\* A continued training finds its checkpoint, and one that resumes from another's has
\* its copy as long as a trainer works on it (task_scheduler.py, continue_lora_training,
\* and subprocess_runner.py, run_lora_training_subprocess, against loras.py,
\* submit_training and delete_training_result).
THEOREM ResumeIsSafe == Spec => []ResumeHasCheckpoint
<1>1. IInv => ResumeHasCheckpoint
  BY DEF IInv
<1> QED
  BY <1>1, Invariance, PTL

\* Without overlapping writers the list of adapters and the manifests agree
\* (user_lora_registry.py, register_user_lora and delete_user_lora).
THEOREM RegistryAgrees == Spec => []RegistryIsTrue
<1>1. IInv => RegistryIsTrue
  BY DEF IInv
<1> QED
  BY <1>1, Invariance, PTL

---------------------------------------------------------------------------
(* The rows follow the life cycle of TaskLifecycle.                        *)

Tasks == Trainings \cup Evaluations

\* A step of the life cycle, or none.
LStep == Sched!Next \/ UNCHANGED <<state, active>>

\* The ends of a training: completed, with a follow-up or without, cancelled or failed.
LEMMA EndsLemma == ASSUME NEW r \in Trainings, TrainingEnds(r) PROVE LStep
<1>1. CASE FollowUp(r)
  <2>1. Sched!Complete(r)
    BY <1>1 DEF FollowUp
  <2> QED
    BY <2>1 DEF LStep, Sched!Next
<1>2. CASE \E st \in {"cancelled", "failed"} : Sched!Stop(r, st)
  BY <1>2 DEF LStep, Sched!Next
<1> QED
  BY <1>1, <1>2 DEF TrainingEnds

LEMMA EvaluationEndsLemma == ASSUME NEW e \in Evaluations, EvaluationEnds(e) PROVE LStep
<1>1. Sched!Complete(e) \/ \E st \in {"cancelled", "failed"} : Sched!Stop(e, st)
  BY DEF EvaluationEnds
<1> QED
  BY <1>1 DEF LStep, Sched!Next

\* A removal removes the row of the evaluation that the manifest names, then that of
\* the training.
LEMMA RemovalLemma ==
    ASSUME IInv, DeleteRow \/ \E r \in Trainings : DeleteBegins(r)
    PROVE  LStep
<1>1. CASE DeleteRow
  <2>1. deletion.of \in Trainings
    BY <1>1 DEF DeleteRow, IInv, Named, TypeOK, DeletionTypes
  <2>2. Sched!Remove(deletion.of) \/ UNCHANGED <<state, active>>
    BY <1>1 DEF DeleteRow
  <2> QED
    BY <2>1, <2>2 DEF LStep, Sched!Next
<1>2. ASSUME NEW r \in Trainings, DeleteBegins(r) PROVE LStep
  <2>1. manifest[r].eval \in Evaluations \cup {None}
    BY DEF IInv, TypeOK, DiskTypes, Manifests
  <2>2. \/ manifest[r].eval # None /\ Sched!Remove(manifest[r].eval)
        \/ UNCHANGED <<state, active>>
    BY <1>2 DEF DeleteBegins
  <2> QED
    BY <2>1, <2>2 DEF LStep, Sched!Next
<1> QED
  BY <1>1, <1>2

\* The interruptions of the server and its start.
LEMMA ServerLemma == ASSUME Crash \/ Shutdown \/ Start PROVE LStep
<1>1. CASE Crash
  <2>1. Sched!Interrupt
    BY <1>1 DEF Crash, Sched!Interrupt
  <2> QED
    BY <2>1 DEF LStep, Sched!Next
<1>2. CASE Shutdown
  <2>1. Sched!Interrupt
    BY <1>2 DEF Shutdown, Sched!Interrupt
  <2> QED
    BY <2>1 DEF LStep, Sched!Next
<1>3. CASE Start
  <2>1. Sched!Recover
    BY <1>3 DEF Start
  <2> QED
    BY <2>1 DEF LStep, Sched!Next
<1> QED
  BY <1>1, <1>2, <1>3

LEMMA LifecycleStep == ASSUME IInv, [Next]_vars PROVE LStep
<1>1. ASSUME NEW r \in Trainings, SubmitTraining(r) \/ Continue(r) PROVE LStep
  <2>1. Sched!Enqueue(r) \/ Sched!Requeue(r)
    BY <1>1 DEF SubmitTraining, Continue
  <2> QED
    BY <2>1 DEF LStep, Sched!Next
<1>2. ASSUME NEW r \in Trainings,
             BeginTrainless(r) \/ FailsTrainless(r) \/ \E p \in Procs : BeginTraining(r, p)
      PROVE  LStep
  <2>1. Sched!Begin(r) \/ Sched!Stop(r, "failed")
    BY <1>2 DEF BeginTraining, BeginTrainless, FailsTrainless
  <2> QED
    BY <2>1 DEF LStep, Sched!Next
<1>3. ASSUME NEW r \in Trainings, NEW e \in Evaluations, NEW force \in BOOLEAN,
             SubmitEvaluation(r, e, force)
      PROVE  LStep
  <2>1. Sched!Enqueue(e)
    BY <1>3 DEF SubmitEvaluation
  <2> QED
    BY <2>1 DEF LStep, Sched!Next
<1>4. ASSUME NEW e \in Evaluations, BeginEvaluation(e) PROVE LStep
  <2>1. Sched!Begin(e)
    BY <1>4 DEF BeginEvaluation
  <2> QED
    BY <2>1 DEF LStep, Sched!Next
<1>5. ASSUME NEW t \in Trainings \cup Evaluations, Cancel(t) PROVE LStep
  <2>1. Sched!Cancel(t)
    BY <1>5 DEF Cancel
  <2> QED
    BY <2>1 DEF LStep, Sched!Next
<1>6. CASE UNCHANGED rows \/ UNCHANGED vars
  BY <1>6 DEF LStep, rows, vars
<1> QED
  BY <1>1, <1>2, <1>3, <1>4, <1>5, <1>6, RowFrame, EndsLemma, EvaluationEndsLemma, RemovalLemma,
     ServerLemma DEF RowStep

\* What the handlers, trainers, threads and interruptions of a training do to the rows
\* of tasks is what the scheduler does to them: the guards of loras.py and of the
\* follow-up handlers let nothing else through.
THEOREM FollowsLifecycle == Spec => Sched!Spec
<1>1. Init => Sched!Init
  BY DEF Init
<1>2. IInv /\ [Next]_vars => [Sched!Next]_(Sched!vars)
  BY LifecycleStep DEF LStep, Sched!vars
<1> QED
  BY <1>1, <1>2, Invariance, PTL DEF Spec, Sched!Spec

\* In the life cycle, no step leads from "cancelled" to "completed".
LEMMA NoCompletion ==
    ASSUME IInv, LStep
    PROVE  \A t \in Tasks : state[t] = "cancelled" => state'[t] # "completed"
<1>1. state \in [Tasks -> Open \cup Done \cup {"absent"}]
  BY DEF IInv, TypeOK, RowTypes, Tasks
<1> USE <1>1 DEF Tasks
<1>2. CASE \E u \in Tasks : Sched!Enqueue(u) \/ Sched!Cancel(u) \/ Sched!Requeue(u) \/ Sched!Remove(u)
  BY <1>2 DEF Sched!Enqueue, Sched!Cancel, Sched!Requeue, Sched!Remove
<1>3. CASE \E u \in Tasks : Sched!Begin(u) \/ Sched!Complete(u)
  BY <1>3 DEF Sched!Begin, Sched!Complete
<1>4. CASE \E u \in Tasks, st \in {"failed", "cancelled"} : Sched!Stop(u, st)
  BY <1>4 DEF Sched!Stop
<1>5. CASE Sched!Interrupt \/ Sched!Recover \/ UNCHANGED <<state, active>>
  BY <1>5 DEF Sched!Interrupt, Sched!Recover
<1> QED
  BY <1>2, <1>3, <1>4, <1>5 DEF LStep, Sched!Next

\* A training or an evaluation that the user cancelled is not reported as completed, whatever
\* its trainer or thread writes and in whatever order it ends (task_scheduler.py,
\* _execute; the result file of the trainer).
THEOREM CancelHolds ==
    Spec => [][\A t \in Tasks : state[t] = "cancelled" => state'[t] # "completed"]_vars
<1>1. IInv /\ [Next]_vars =>
        [\A t \in Tasks : state[t] = "cancelled" => state'[t] # "completed"]_vars
  BY LifecycleStep, NoCompletion
<1> QED
  BY <1>1, Invariance, PTL DEF Spec

===========================================================================
