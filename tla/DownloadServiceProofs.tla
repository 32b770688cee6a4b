------------------------ MODULE DownloadServiceProofs ------------------------
(***************************************************************************)
(* Proofs about DownloadService, for every set of downloads and of models, *)
(* whatever the models need.                                               *)
(***************************************************************************)
EXTENDS DownloadService, TLAPS

\* What EndsForGood says of one step.
StaysEnded ==
    \A t \in Tasks :
        /\ status[t] = "completed" => status'[t] \in {"completed", "cancelled", "deleted"}
        /\ status[t] = "deleted" => status'[t] = "deleted"

Preserves == DInv' /\ StaysEnded

Statuses == Listed \cup Gone

\* The invariant holds at the start.
LEMMA InitLemma == Init => DInv
<1> SUFFICES ASSUME Init PROVE DInv
  OBVIOUS
<1> USE NoTaskAssumption, NoModelAssumption DEF Init, registers
<1>1. TypeOK
  BY DEF TypeOK, Listed, Open, Gone
<1>2. WorkersInv
  BY DEF WorkersInv, RunningHasWorker
<1>3. CallersInv
  BY DEF CallersInv, ChainIsAwaited
<1>4. RegistersInv
  BY DEF RegistersInv, ActiveIsOpen
<1>5. SavedInv /\ CompletedIsInstalled
  BY DEF SavedInv, CompletedIsInstalled
<1> QED
  BY <1>1, <1>2, <1>3, <1>4, <1>5 DEF DInv

---------------------------------------------------------------------------
(* The start of a download.                                                *)

\* A worker is started on a row that is new, or can be resumed, for nobody or for a
\* worker that waits for nobody else.
LEMMA WorkStep ==
    ASSUME DInv, NEW m \in Models, NEW t \in Tasks, NEW c \in Tasks \cup {NoTask},
           status[t] = "new" \/ (status[t] \in Resumable /\ of[t] = m),
           Work(m, t, c),
           c = NoTask => chain' = chain,
           c # NoTask => /\ worker[c] = "resolving" /\ m \notin chain
                         /\ \A u \in Tasks : caller[u] # c
                         /\ chain' = chain \cup {m},
           UNCHANGED <<cancelled, saved, installed>>
    PROVE  Preserves
<1> USE NoTaskAssumption, NoModelAssumption
<1>1. /\ worker[t] = "none" /\ caller[t] = NoTask /\ c # t
      /\ \A u \in Tasks : caller[u] # t
  <2>1. worker[t] = "none"
    BY DEF DInv, WorkersInv
  <2> QED
    BY <2>1 DEF DInv, CallersInv, TypeOK
<1>2. /\ status' = [status EXCEPT ![t] = "running"]
      /\ of' = [of EXCEPT ![t] = m]
      /\ active' = [active EXCEPT ![m] = t]
      /\ inflight' = inflight \cup {m}
      /\ worker' = [worker EXCEPT ![t] = "resolving"]
      /\ caller' = [caller EXCEPT ![t] = c]
  BY DEF Work
<1>3. TypeOK'
  <2>1. chain' \subseteq Models
    BY DEF DInv, TypeOK
  <2> QED
    BY <1>2, <2>1 DEF DInv, TypeOK, Listed, Open, Gone
<1>4. WorkersInv'
  BY <1>2 DEF DInv, TypeOK, WorkersInv, RunningHasWorker, Resumable
<1>5. CallersInv'
  <2>1. \A u \in Tasks : caller'[u] # NoTask =>
          worker'[u] # "none" /\ worker'[caller'[u]] = "resolving" /\ caller'[u] # u
    BY <1>1, <1>2 DEF DInv, TypeOK, CallersInv
  <2>2. \A u \in Tasks : caller[u] # NoTask => of[u] \in chain /\ of'[u] = of[u]
    BY <1>1, <1>2 DEF DInv, TypeOK, CallersInv, ChainIsAwaited
  <2>3. \A u, v \in Tasks : caller'[u] # NoTask /\ caller'[v] # NoTask =>
          (caller'[u] = caller'[v] \/ of'[u] = of'[v] => u = v)
    BY <1>1, <1>2, <2>2 DEF DInv, TypeOK, CallersInv
  <2>4. ChainIsAwaited'
    BY <1>1, <1>2, <2>2 DEF DInv, TypeOK, CallersInv, ChainIsAwaited
  <2> QED
    BY <2>1, <2>3, <2>4 DEF CallersInv
<1>6. RegistersInv'
  BY <1>2 DEF DInv, TypeOK, RegistersInv, ActiveIsOpen, Open, Resumable
<1>7. SavedInv'
  BY <1>2 DEF DInv, TypeOK, SavedInv, Resumable
<1>8. CompletedIsInstalled'
  BY <1>2 DEF DInv, TypeOK, CompletedIsInstalled
<1>9. StaysEnded
  BY <1>2 DEF DInv, TypeOK, StaysEnded, Resumable
<1> QED
  BY <1>3, <1>4, <1>5, <1>6, <1>7, <1>8, <1>9 DEF Preserves, DInv

\* What a start of a worker comes down to.
LEMMA StartsLemma ==
    ASSUME DInv, NEW m \in Models, NEW c \in Tasks \cup {NoTask}, Starts(m, c)
    PROVE  \E t \in Tasks : /\ status[t] = "new" \/ (status[t] \in Resumable /\ of[t] = m)
                            /\ Work(m, t, c)
<1>1. PICK f \in Found(m) :
        \/ f # NoTask /\ status[f] \in Resumable /\ Work(m, f, c)
        \/ f = NoTask /\ \E t \in Tasks : status[t] = "new" /\ Work(m, t, c)
  BY DEF Starts
<1>2. f # NoTask => f \in Tasks /\ of[f] = m
  BY DEF Found, Candidates
<1> QED
  BY <1>1, <1>2

\* A download started by a client.
LEMMA DownloadStep == ASSUME DInv, NEW m \in Models, Download(m) PROVE Preserves
<1>1. PICK t \in Tasks : /\ status[t] = "new" \/ (status[t] \in Resumable /\ of[t] = m)
                         /\ Work(m, t, NoTask)
  BY StartsLemma DEF Download
<1> QED
  BY <1>1, WorkStep, NoTaskAssumption DEF Download

\* A download resumed by a client.
LEMMA ResumeStep == ASSUME DInv, NEW u \in Tasks, Resume(u) PROVE Preserves
<1>1. of[u] \in Models
  BY DEF DInv, TypeOK, Resume, Resumable
<1>2. PICK t \in Tasks : /\ status[t] = "new" \/ (status[t] \in Resumable /\ of[t] = of[u])
                         /\ Work(of[u], t, NoTask)
  BY <1>1, StartsLemma DEF Resume
<1> QED
  BY <1>1, <1>2, WorkStep, NoTaskAssumption DEF Resume

\* A worker that runs waits for nobody.
LEMMA RunsLemma ==
    ASSUME DInv, NEW t \in Tasks, Runs(t)
    PROVE  worker[t] = "resolving" /\ \A u \in Tasks : caller[u] # t
BY NoTaskAssumption DEF DInv, CallersInv, Runs, Suspended, Awaits

\* A dependency started by a worker.
LEMMA DependencyStartedStep ==
    ASSUME DInv, NEW c \in Tasks, DependencyStarted(c) PROVE Preserves
<1>1. PICK d \in Unready(c) \ chain : Starts(d, c) /\ chain' = chain \cup {d}
  BY DEF DependencyStarted
<1>2. worker[c] = "resolving" /\ \A u \in Tasks : caller[u] # c
  BY RunsLemma DEF DependencyStarted
<1>3. of[c] \in Models
  BY <1>2 DEF DInv, TypeOK, WorkersInv
<1>4. d \in Models
  BY <1>1, <1>3, NeedsAssumption DEF Unready
<1>5. PICK t \in Tasks : /\ status[t] = "new" \/ (status[t] \in Resumable /\ of[t] = d)
                         /\ Work(d, t, c)
  BY <1>1, <1>4, StartsLemma
<1> QED
  BY <1>1, <1>2, <1>4, <1>5, WorkStep, NoTaskAssumption DEF DependencyStarted

---------------------------------------------------------------------------
(* The end of a worker.                                                    *)

\* A worker that waits for nobody ends; the model and what it needs are there if it ends
\* well.
LEMMA EndStep ==
    ASSUME DInv, NEW t \in Tasks, NEW st \in {"completed", "failed", "cancelled"},
           worker[t] # "none",
           \A u \in Tasks : caller[u] # t,
           st = "completed" => of[t] \in installed /\ Needs[of[t]] \subseteq installed,
           End(t, st)
    PROVE  Preserves
<1> USE NoTaskAssumption, NoModelAssumption
<1> DEFINE p == caller[t]
<1>1. /\ status[t] \in {"running", "cancelled", "failed", "paused", "deleted"} \ Resumable
      /\ of[t] \in Models
      /\ p # t
      /\ p # NoTask => p \in Tasks /\ worker[p] = "resolving"
  BY DEF DInv, TypeOK, WorkersInv, CallersInv, Listed, Open, Gone, Resumable
<1>2. /\ status' = Ends(t, st)
      /\ saved' = status'
      /\ active' = IF st = "failed" THEN active ELSE [active EXCEPT ![of[t]] = NoTask]
      /\ inflight' = inflight \ {of[t]}
      /\ chain' = IF p = NoTask THEN chain ELSE chain \ {of[t]}
      /\ caller' = [caller EXCEPT ![t] = NoTask]
      /\ worker' = [u \in Tasks |->
            IF u = t THEN "none" ELSE IF u = p THEN Continuation(st) ELSE worker[u]]
      /\ of' = of /\ cancelled' = cancelled /\ installed' = installed
  BY DEF End, Unregistered, Leaves, ChainLeft
<1>3. /\ status' \in [Tasks -> Statuses]
      /\ \A u \in Tasks \ {t} : status'[u] = status[u]
      /\ status'[t] = IF status[t] = "deleted" THEN "deleted" ELSE st
  BY <1>2 DEF Ends, DInv, TypeOK, Statuses, Listed, Open, Gone
<1>4. Continuation(st) \in {"resolving", "failing", "cancelling"}
  BY DEF Continuation
<1>5. TypeOK'
  <2>1. worker' \in [Tasks -> {"none", "resolving", "failing", "cancelling", "fetching"}]
    BY <1>2, <1>4 DEF DInv, TypeOK
  <2>2. active' \in [Models -> Tasks \cup {NoTask}]
    BY <1>1, <1>2 DEF DInv, TypeOK
  <2>3. \A u \in Tasks : of'[u] = NoModel <=> status'[u] = "new"
    BY <1>1, <1>2, <1>3 DEF DInv, TypeOK
  <2> QED
    BY <1>2, <1>3, <2>1, <2>2, <2>3 DEF DInv, TypeOK, Statuses
<1>6. WorkersInv'
  <2>1. \A u \in Tasks \ {t} : worker'[u] = "none" <=> worker[u] = "none"
    BY <1>1, <1>2, <1>4
  <2>2. RunningHasWorker'
    BY <1>3, <2>1 DEF DInv, WorkersInv, RunningHasWorker
  <2>3. \A u \in Tasks :
          status'[u] \in Resumable \cup {"new", "completed"} => worker'[u] = "none"
    BY <1>2, <1>3, <2>1 DEF DInv, WorkersInv
  <2>4. \A u \in Tasks : worker'[u] = "fetching" => worker[u] = "fetching"
    BY <1>2, <1>4
  <2> QED
    BY <1>2, <2>2, <2>3, <2>4 DEF DInv, WorkersInv
<1>7. CallersInv'
  <2>1. \A u \in Tasks : caller'[u] # NoTask => u # t /\ caller'[u] = caller[u]
    BY <1>2 DEF DInv, TypeOK
  <2>2. \A u \in Tasks : caller'[u] # NoTask => (caller[u] # p /\ of[u] # of[t]) \/ p = NoTask
    BY <2>1 DEF DInv, CallersInv
  <2>3. \A u \in Tasks : caller'[u] # NoTask =>
          worker'[u] # "none" /\ worker'[caller'[u]] = "resolving" /\ caller'[u] # u
    <3> SUFFICES ASSUME NEW u \in Tasks, caller'[u] # NoTask
                 PROVE  /\ worker'[u] # "none"
                        /\ worker'[caller[u]] = "resolving"
                        /\ caller[u] # u
      BY <2>1
    <3>1. /\ u # t /\ caller[u] # NoTask /\ caller[u] \in Tasks
          /\ caller[u] # t /\ caller[u] # p
      BY <2>1, <2>2 DEF DInv, TypeOK
    <3>2. worker[u] # "none" /\ worker[caller[u]] = "resolving" /\ caller[u] # u
      BY <3>1 DEF DInv, CallersInv
    <3> QED
      BY <1>2, <1>4, <3>1, <3>2
  <2>4. ChainIsAwaited'
    <3>1. \A u \in Tasks \ {t} : caller'[u] = caller[u]
      BY <1>2 DEF DInv, TypeOK
    <3>2. caller'[t] = NoTask
      BY <1>2 DEF DInv, TypeOK
    <3>3. chain = {of[u] : u \in {v \in Tasks : caller[v] # NoTask}}
      BY DEF DInv, CallersInv, ChainIsAwaited
    <3>4. p # NoTask => \A u \in Tasks : u # t /\ caller[u] # NoTask => of[u] # of[t]
      BY <2>1, <2>2, <3>1
    <3> QED
      BY <1>2, <3>1, <3>2, <3>3, <3>4 DEF ChainIsAwaited
  <2> QED
    BY <1>2, <2>1, <2>3, <2>4 DEF DInv, CallersInv
<1>8. RegistersInv'
  BY <1>1, <1>2, <1>3 DEF DInv, TypeOK, RegistersInv, ActiveIsOpen, Open
<1>9. SavedInv'
  BY <1>2 DEF SavedInv
<1>10. CompletedIsInstalled'
  BY <1>2, <1>3 DEF DInv, CompletedIsInstalled
<1>11. StaysEnded
  BY <1>1, <1>3 DEF DInv, StaysEnded, WorkersInv
<1> QED
  BY <1>5, <1>6, <1>7, <1>8, <1>9, <1>10, <1>11 DEF Preserves, DInv

\* The steps of a worker that does not wait.
LEMMA WorkerStepStep == ASSUME DInv, NEW t \in Tasks, WorkerStep(t) PROVE Preserves
<1>1. worker[t] \in {"failing", "cancelling", "fetching"} =>
        \A u \in Tasks : caller[u] # t
  BY NoTaskAssumption DEF DInv, CallersInv
<1>2. CASE Fails(t)
  BY <1>1, <1>2, EndStep DEF Fails
<1>3. CASE Cancels(t)
  BY <1>1, <1>3, EndStep DEF Cancels
<1>4. CASE Circular(t)
  BY <1>4, RunsLemma, EndStep DEF Circular
<1>5. CASE DependencyBusy(t)
  BY <1>5, RunsLemma, EndStep DEF DependencyBusy
<1>6. CASE DependencyStarted(t)
  BY <1>6, DependencyStartedStep
<1>7. CASE AlreadyInstalled(t)
  BY <1>7, RunsLemma, EndStep DEF AlreadyInstalled, Unready
<1>8. CASE StartFetch(t)
  <2>1. worker[t] = "resolving" /\ \A u \in Tasks : caller[u] # t
    BY <1>8, RunsLemma DEF StartFetch
  <2>2. /\ worker' = [worker EXCEPT ![t] = "fetching"]
        /\ Needs[of[t]] \subseteq installed
        /\ cancelled' \subseteq cancelled
        /\ UNCHANGED <<status, of, active, inflight, chain, caller, saved, installed>>
    BY <1>8 DEF StartFetch, Unready
  <2>3. TypeOK'
    BY <2>2 DEF DInv, TypeOK
  <2>4. WorkersInv'
    BY <2>1, <2>2 DEF DInv, TypeOK, WorkersInv, RunningHasWorker
  <2>5. CallersInv'
    BY <2>1, <2>2 DEF DInv, TypeOK, CallersInv, ChainIsAwaited
  <2>6. /\ RegistersInv' /\ SavedInv' /\ CompletedIsInstalled' /\ StaysEnded
    BY <2>2 DEF DInv, RegistersInv, ActiveIsOpen, SavedInv, CompletedIsInstalled, StaysEnded
  <2> QED
    BY <2>3, <2>4, <2>5, <2>6 DEF Preserves, DInv
<1> QED
  BY <1>2, <1>3, <1>4, <1>5, <1>6, <1>7, <1>8 DEF WorkerStep

\* The outcomes of a fetch.
LEMMA FetchStep == ASSUME DInv, NEW t \in Tasks, Fetch(t) PROVE Preserves
<1>1. /\ worker[t] = "fetching"
      /\ \A u \in Tasks : caller[u] # t
      /\ of[t] \in Models
      /\ Needs[of[t]] \subseteq installed
  <2>1. worker[t] = "fetching"
    BY DEF Fetch, FilesArrive, Tick, FetchEnds, Fetched, FetchFails, Aborted, Fetching
  <2> QED
    BY <2>1, NoTaskAssumption DEF DInv, CallersInv, TypeOK, WorkersInv
<1>2. CASE FilesArrive(t)
  <2>1. /\ installed' = installed \cup {of[t]}
        /\ UNCHANGED <<status, of, active, inflight, chain, cancelled, worker, caller, saved>>
    BY <1>2 DEF FilesArrive, registers
  <2>2. TypeOK' /\ WorkersInv'
    BY <1>1, <2>1 DEF DInv, TypeOK, WorkersInv, RunningHasWorker
  <2>3. CallersInv' /\ RegistersInv'
    BY <2>1 DEF DInv, CallersInv, ChainIsAwaited, RegistersInv, ActiveIsOpen
  <2>4. SavedInv' /\ CompletedIsInstalled' /\ StaysEnded
    BY <2>1 DEF DInv, SavedInv, CompletedIsInstalled, StaysEnded
  <2> QED
    BY <2>2, <2>3, <2>4 DEF Preserves, DInv
<1>3. CASE Tick(t)
  <2>1. /\ saved' = status
        /\ UNCHANGED <<status, of, active, inflight, chain, cancelled, worker, caller, installed>>
    BY <1>3 DEF Tick, registers
  <2>2. TypeOK' /\ WorkersInv'
    BY <2>1 DEF DInv, TypeOK, WorkersInv, RunningHasWorker
  <2>3. CallersInv' /\ RegistersInv'
    BY <2>1 DEF DInv, CallersInv, ChainIsAwaited, RegistersInv, ActiveIsOpen
  <2>4. SavedInv' /\ CompletedIsInstalled' /\ StaysEnded
    BY <2>1 DEF DInv, SavedInv, CompletedIsInstalled, StaysEnded
  <2> QED
    BY <2>2, <2>3, <2>4 DEF Preserves, DInv
<1>4. CASE FetchEnds(t)
  BY <1>1, <1>4, EndStep DEF FetchEnds, Fetched, FetchFails, Aborted
<1> QED
  BY <1>2, <1>3, <1>4 DEF Fetch

---------------------------------------------------------------------------
(* The requests that stop a download.                                      *)

\* cancel_download and delete_download change the row and drop the registration.
LEMMA StopStep ==
    ASSUME DInv, NEW t \in Tasks, NEW st \in {"cancelled", "deleted"},
           status[t] \in Listed,
           st = "cancelled" \/ st = "deleted",
           cancelled' \subseteq Tasks,
           status' = [status EXCEPT ![t] = st],
           active' = [active EXCEPT ![of[t]] = NoTask],
           saved' = status',
           UNCHANGED <<of, inflight, chain, worker, caller, installed>>
    PROVE  Preserves
<1> USE NoTaskAssumption, NoModelAssumption
<1>1. of[t] \in Models
  BY DEF DInv, TypeOK, Listed, Open
<1>2. TypeOK'
  BY <1>1 DEF DInv, TypeOK, Listed, Open, Gone
<1>3. WorkersInv'
  BY DEF DInv, TypeOK, WorkersInv, RunningHasWorker, Resumable
<1>4. CallersInv'
  BY DEF DInv, CallersInv, ChainIsAwaited
<1>5. RegistersInv'
  BY <1>1 DEF DInv, TypeOK, RegistersInv, ActiveIsOpen
<1>6. SavedInv' /\ CompletedIsInstalled'
  BY DEF DInv, TypeOK, SavedInv, CompletedIsInstalled
<1>7. StaysEnded
  BY DEF DInv, TypeOK, StaysEnded, Listed, Open
<1> QED
  BY <1>2, <1>3, <1>4, <1>5, <1>6, <1>7 DEF Preserves, DInv

\* The requests of clients.
LEMMA ClientStep == ASSUME DInv, Client PROVE Preserves
<1>1. ASSUME NEW t \in Tasks, Cancel(t) PROVE Preserves
  <2>1. cancelled' \subseteq Tasks
    BY <1>1 DEF Cancel, DInv, TypeOK
  <2> QED
    BY <1>1, <2>1, StopStep DEF Cancel
<1>2. ASSUME NEW t \in Tasks, Delete(t) PROVE Preserves
  <2>1. cancelled' \subseteq Tasks
    BY <1>2 DEF Delete, DInv, TypeOK
  <2> QED
    BY <1>2, <2>1, StopStep DEF Delete
<1> QED
  BY <1>1, <1>2, DownloadStep, ResumeStep DEF Client

---------------------------------------------------------------------------
(* The next process.                                                       *)

\* A process that loads a file with no more rows over than the table has, and with those
\* that the table has.
LEMMA LoadStep ==
    ASSUME DInv, NEW file \in [Tasks -> Statuses],
           \A t \in Tasks :
              /\ status[t] = "new" => file[t] = "new"
              /\ status[t] = "completed" => file[t] \in {"completed", "deleted"}
              /\ status[t] = "deleted" => file[t] \in {"new", "deleted"}
              /\ file[t] = "completed" => status[t] = "completed",
           Load(file),
           installed \subseteq installed', installed' \subseteq Models
    PROVE  Preserves
<1> USE NoTaskAssumption, NoModelAssumption
<1> DEFINE loaded == [t \in Tasks |-> Loaded(file, t)]
           Rivals(m) == {t \in Tasks : of[t] = m /\ loaded[t] \in Resumable}
<1>1. /\ active' \in [Models -> Tasks \cup {NoTask}]
      /\ \A m \in Models :
            IF Rivals(m) = {} THEN active'[m] = NoTask ELSE active'[m] \in Rivals(m)
      /\ status' = [t \in Tasks |->
            IF loaded[t] \in Resumable /\ active'[of[t]] # t THEN "deleted" ELSE loaded[t]]
      /\ saved' = IF status' = loaded THEN file ELSE status'
      /\ inflight' = {} /\ chain' = {} /\ cancelled' = {}
      /\ worker' = [t \in Tasks |-> "none"]
      /\ caller' = [t \in Tasks |-> NoTask]
      /\ of' = of
  BY DEF Load
<1>2. \A t \in Tasks :
        /\ loaded[t] \in Statuses \ {"running"}
        /\ loaded[t] = "new" <=> status[t] = "new"
        /\ loaded[t] = "completed" => status[t] = "completed"
        /\ status[t] = "completed" => loaded[t] \in {"completed", "deleted"}
        /\ status[t] = "deleted" => loaded[t] = "deleted"
        /\ loaded[t] = "completed" <=> file[t] = "completed"
        /\ loaded[t] = "cancelled" <=> file[t] = "cancelled"
        /\ loaded[t] = "deleted" <=> file[t] \in {"new", "deleted"} /\ status[t] # "new"
        /\ file[t] = "new" \/ loaded[t] \in Resumable \/ file[t] = loaded[t]
  BY DEF Loaded, Statuses, Listed, Open, Gone, Resumable
<1> HIDE DEF loaded
<1>3. \A t \in Tasks : status'[t] = loaded[t] \/ (status'[t] = "deleted" /\ loaded[t] \in Resumable)
  BY <1>1
<1>4. TypeOK'
  <2>1. status' \in [Tasks -> Statuses]
    BY <1>1, <1>2 DEF Statuses, Gone
  <2>2. \A t \in Tasks : of'[t] = NoModel <=> status'[t] = "new"
    BY <1>1, <1>2, <1>3 DEF DInv, TypeOK, Resumable
  <2>3. saved' \in [Tasks -> Statuses]
    BY <1>1, <2>1
  <2> QED
    BY <1>1, <2>1, <2>2, <2>3 DEF DInv, TypeOK, Statuses
<1>5. WorkersInv'
  <2>1. \A t \in Tasks : status'[t] # "running"
    BY <1>2, <1>3
  <2> QED
    BY <1>1, <2>1 DEF WorkersInv, RunningHasWorker
<1>6. CallersInv'
  BY <1>1 DEF CallersInv, ChainIsAwaited
<1>7. RegistersInv'
  <2>1. ASSUME NEW m \in Models, active'[m] # NoTask
        PROVE  of'[active'[m]] = m /\ status'[active'[m]] \in Open
    <3>1. active'[m] \in Rivals(m)
      BY <1>1, <2>1
    <3>2. status'[active'[m]] = loaded[active'[m]]
      BY <1>1, <3>1
    <3> QED
      BY <1>1, <3>1, <3>2 DEF Open, Resumable
  <2> QED
    BY <1>1, <2>1 DEF RegistersInv, ActiveIsOpen
<1>8. SavedInv'
  <2>1. CASE status' = loaded
    BY <1>1, <1>2, <2>1 DEF SavedInv, Resumable, Statuses, Listed, Open, Gone
  <2>2. CASE status' # loaded
    BY <1>1, <2>2 DEF SavedInv
  <2> QED
    BY <2>1, <2>2
<1>9. CompletedIsInstalled'
  BY <1>1, <1>2, <1>3 DEF DInv, CompletedIsInstalled
<1>10. StaysEnded
  BY <1>2, <1>3 DEF StaysEnded
<1> QED
  BY <1>4, <1>5, <1>6, <1>7, <1>8, <1>9, <1>10 DEF Preserves, DInv

\* The three ends of a process.
LEMMA ProcessStep == ASSUME DInv, Process PROVE Preserves
<1>1. CASE Crash
  BY <1>1, LoadStep DEF Crash, DInv, TypeOK, SavedInv, Statuses
<1>2. CASE CrashInSave
  <2> DEFINE file == [t \in Tasks |-> IF status[t] = "new" THEN "new" ELSE "deleted"]
  <2>1. /\ file \in [Tasks -> Statuses]
        /\ \A t \in Tasks :
              /\ status[t] = "new" => file[t] = "new"
              /\ status[t] = "completed" => file[t] \in {"completed", "deleted"}
              /\ status[t] = "deleted" => file[t] \in {"new", "deleted"}
              /\ file[t] = "completed" => status[t] = "completed"
    BY DEF Statuses, Gone
  <2>2. Load(file) /\ installed' = installed
    BY <1>2 DEF CrashInSave
  <2> HIDE DEF file
  <2> QED
    BY <2>1, <2>2, LoadStep DEF DInv, TypeOK
<1>3. CASE Shutdown
  <2> DEFINE file == [t \in Tasks |->
                IF worker[t] = "none" THEN saved[t] ELSE Ends(t, "cancelled")[t]]
  <2>1. \A t \in Tasks : file[t] \in {saved[t], "deleted", "cancelled"}
    BY DEF Ends, DInv, TypeOK
  <2>2. \A t \in Tasks : status[t] \in {"new", "completed"} => file[t] = saved[t]
    BY DEF DInv, WorkersInv
  <2>3. \A t \in Tasks : status[t] = "deleted" => file[t] \in {saved[t], "deleted"}
    BY DEF Ends
  <2>4. file \in [Tasks -> Statuses]
    BY <2>1 DEF DInv, TypeOK, Statuses, Listed, Gone
  <2>5. Load(file)
    BY <1>3 DEF Shutdown
  <2>6. installed \subseteq installed' /\ installed' \subseteq Models
    <3>1. \A t \in Tasks : worker[t] = "fetching" => of[t] \in Models
      BY DEF DInv, TypeOK, WorkersInv
    <3> QED
      BY <1>3, <3>1 DEF Shutdown, DInv, TypeOK
  <2> HIDE DEF file
  <2> QED
    BY <2>1, <2>2, <2>3, <2>4, <2>5, <2>6, LoadStep DEF DInv, SavedInv
<1> QED
  BY <1>1, <1>2, <1>3 DEF Process

---------------------------------------------------------------------------
(* The theorems.                                                           *)

\* A step that changes nothing.
LEMMA StutterStep == ASSUME DInv, UNCHANGED vars PROVE Preserves
<1>1. UNCHANGED <<status, of, active, inflight, chain, cancelled, worker, caller, saved, installed>>
  BY DEF vars, registers
<1>2. TypeOK' /\ WorkersInv'
  BY <1>1 DEF DInv, TypeOK, WorkersInv, RunningHasWorker
<1>3. CallersInv' /\ RegistersInv'
  BY <1>1 DEF DInv, CallersInv, ChainIsAwaited, RegistersInv, ActiveIsOpen
<1>4. SavedInv' /\ CompletedIsInstalled' /\ StaysEnded
  BY <1>1 DEF DInv, SavedInv, CompletedIsInstalled, StaysEnded
<1> QED
  BY <1>2, <1>3, <1>4 DEF Preserves, DInv

\* Every step keeps the invariant and leaves what has ended alone.
LEMMA NextLemma == ASSUME DInv, [Next]_vars PROVE Preserves
BY ClientStep, WorkerStepStep, FetchStep, ProcessStep, StutterStep DEF Next

\* The inductive invariant: which rows have a worker, who awaits whom, what the registers
\* say of both, and what the file says of the rows that are over.
THEOREM Invariance == Spec => []DInv
<1>1. Init => DInv
  BY InitLemma
<1>2. DInv /\ [Next]_vars => DInv'
  BY NextLemma DEF Preserves
<1> QED
  BY <1>1, <1>2, PTL DEF Spec

\* Type correctness of the table, the registers and the workers.
THEOREM TypeCorrect == Spec => []TypeOK
<1>1. DInv => TypeOK
  BY DEF DInv
<1> QED
  BY <1>1, Invariance, PTL

\* Every running download has a worker, through cancellations, failures and restarts.
THEOREM NobodyIsStuck == Spec => []RunningHasWorker
<1>1. DInv => RunningHasWorker
  BY DEF DInv, WorkersInv
<1> QED
  BY <1>1, Invariance, PTL

\* A resumption never meets a worker of the same row.
THEOREM ResumptionIsAlone == Spec => []ResumableIsIdle
<1>1. DInv => ResumableIsIdle
  BY DEF DInv, WorkersInv, ResumableIsIdle
<1> QED
  BY <1>1, Invariance, PTL

\* The registered download of a model is one of that model, and open.
THEOREM RegistrationIsOpen == Spec => []ActiveIsOpen
<1>1. DInv => ActiveIsOpen
  BY DEF DInv, RegistersInv
<1> QED
  BY <1>1, Invariance, PTL

\* A caller that joins a download joins one that a worker works on.
THEOREM JoiningIsSafe == Spec => []JoinedIsAlive
<1>1. DInv => JoinedIsAlive
  BY DEF DInv, RegistersInv, WorkersInv, RunningHasWorker, JoinedIsAlive, Joined, TypeOK
<1> QED
  BY <1>1, Invariance, PTL

\* The chain is exactly the dependencies that are awaited.
THEOREM ChainIsExact == Spec => []ChainIsAwaited
<1>1. DInv => ChainIsAwaited
  BY DEF DInv, CallersInv
<1> QED
  BY <1>1, Invariance, PTL

\* A completed download has its model and all that the model needs.
THEOREM CompletionIsReal == Spec => []CompletedIsInstalled
<1>1. DInv => CompletedIsInstalled
  BY DEF DInv
<1> QED
  BY <1>1, Invariance, PTL

\* What is completed is not taken up again, and what is deleted does not come back.
THEOREM EndIsDurable == Spec => EndsForGood
<1>1. DInv /\ [Next]_vars => [StaysEnded]_vars
  BY NextLemma DEF Preserves
<1>2. Spec => [][StaysEnded]_vars
  BY <1>1, Invariance, PTL DEF Spec
<1> QED
  BY <1>2, PTL DEF StaysEnded, EndsForGood

---------------------------------------------------------------------------
(* Who waits for whom.                                                     *)

\* A step adds at most one wait, for a worker that waits for nobody.
Waits ==
    \/ \A t, u \in Tasks : Awaits(t, u)' => Awaits(t, u)
    \/ \E n \in Tasks :
          /\ \A u \in Tasks : ~Awaits(n, u)'
          /\ \A t \in Tasks : \A u \in Tasks \ {n} : Awaits(t, u)' => Awaits(t, u)

\* A worker that is started waits for nobody yet.
LEMMA WorkWaits ==
    ASSUME DInv, NEW m \in Models, NEW t \in Tasks, NEW c \in Tasks \cup {NoTask},
           status[t] = "new" \/ status[t] \in Resumable,
           c # NoTask => worker[c] = "resolving",
           Work(m, t, c)
    PROVE  Waits
<1>1. worker[t] = "none"
  BY DEF DInv, WorkersInv
<1>2. c # t
  BY <1>1, NoTaskAssumption
<1>3. \A u \in Tasks : caller[u] # t
  BY <1>1, NoTaskAssumption DEF DInv, CallersInv
<1>4. /\ caller'[t] = c
      /\ \A u \in Tasks \ {t} : caller'[u] = caller[u] /\ worker'[u] = worker[u]
  BY DEF Work, DInv, TypeOK
<1>5. \A u \in Tasks : ~Awaits(t, u)'
  BY <1>2, <1>3, <1>4 DEF Awaits
<1>6. \A s \in Tasks : \A u \in Tasks \ {t} : Awaits(s, u)' => Awaits(s, u)
  BY <1>4 DEF Awaits
<1> QED
  BY <1>5, <1>6 DEF Waits

\* A worker that ends is not waited for any more, and starts none.
LEMMA EndWaits ==
    ASSUME DInv, NEW t \in Tasks, NEW st, End(t, st)
    PROVE  Waits
<1>1. /\ caller' = [caller EXCEPT ![t] = NoTask]
      /\ worker' = [u \in Tasks |->
            IF u = t THEN "none" ELSE IF u = caller[t] THEN Continuation(st) ELSE worker[u]]
  BY DEF End
<1>2. ASSUME NEW s \in Tasks, NEW u \in Tasks, Awaits(s, u)' PROVE Awaits(s, u)
  <2>1. caller'[u] = s /\ worker'[u] # "none"
    BY <1>2 DEF Awaits
  <2>2. u # t
    BY <1>1, <2>1
  <2>3. caller[u] = s
    BY <1>1, <2>1, <2>2 DEF DInv, TypeOK
  <2>4. worker[u] # "none"
    BY <2>3, NoTaskAssumption DEF DInv, CallersInv
  <2> QED
    BY <2>3, <2>4 DEF Awaits
<1> QED
  BY <1>2 DEF Waits

\* The same for every step.
LEMMA NextWaits == ASSUME DInv, [Next]_vars PROVE Waits
<1>1. ASSUME UNCHANGED <<worker, caller>> PROVE Waits
  BY <1>1 DEF Waits, Awaits
<1>2. CASE UNCHANGED vars
  BY <1>1, <1>2 DEF vars
<1>3. ASSUME NEW m \in Models, Starts(m, NoTask) PROVE Waits
  BY <1>3, StartsLemma, WorkWaits
<1>4. CASE Client
  <2>1. ASSUME NEW m \in Models, Download(m) PROVE Waits
    BY <1>3, <2>1 DEF Download
  <2>2. ASSUME NEW t \in Tasks, Resume(t) PROVE Waits
    <3>1. of[t] \in Models
      BY <2>2 DEF DInv, TypeOK, Resume, Resumable
    <3> QED
      BY <1>3, <2>2, <3>1 DEF Resume
  <2>3. ASSUME NEW t \in Tasks, Cancel(t) \/ Delete(t) PROVE Waits
    BY <1>1, <2>3 DEF Cancel, Delete
  <2> QED
    BY <1>4, <2>1, <2>2, <2>3 DEF Client
<1>5. ASSUME NEW t \in Tasks, WorkerStep(t) PROVE Waits
  <2>1. CASE DependencyStarted(t)
    <3>1. PICK d \in Unready(t) \ chain : Starts(d, t)
      BY <2>1 DEF DependencyStarted
    <3>2. worker[t] = "resolving"
      BY <2>1 DEF DependencyStarted, Runs
    <3>3. d \in Models
      BY <3>1, <3>2, NeedsAssumption DEF DInv, TypeOK, WorkersInv, Unready
    <3>4. PICK u \in Tasks : /\ status[u] = "new" \/ (status[u] \in Resumable /\ of[u] = d)
                             /\ Work(d, u, t)
      BY <3>1, <3>3, StartsLemma
    <3> QED
      BY <3>2, <3>3, <3>4, WorkWaits
  <2>2. CASE StartFetch(t)
    <3>1. worker' = [worker EXCEPT ![t] = "fetching"] /\ caller' = caller
          /\ worker[t] = "resolving"
      BY <2>2 DEF StartFetch, Runs
    <3>2. \A u \in Tasks : worker'[u] # "none" => worker[u] # "none"
      BY <3>1 DEF DInv, TypeOK
    <3> QED
      BY <3>1, <3>2 DEF Waits, Awaits
  <2>3. CASE \E st : End(t, st)
    BY <2>3, EndWaits
  <2> QED
    BY <1>5, <2>1, <2>2, <2>3
       DEF WorkerStep, Fails, Cancels, Circular, DependencyBusy, AlreadyInstalled
<1>6. ASSUME NEW t \in Tasks, Fetch(t) PROVE Waits
  <2>1. CASE FilesArrive(t) \/ Tick(t)
    BY <1>1, <2>1 DEF FilesArrive, Tick
  <2>2. CASE FetchEnds(t)
    BY <2>2, EndWaits DEF FetchEnds, Fetched, FetchFails, Aborted
  <2> QED
    BY <1>6, <2>1, <2>2 DEF Fetch
<1>7. CASE Process
  <2>1. worker' = [t \in Tasks |-> "none"]
    BY <1>7 DEF Process, Crash, CrashInSave, Shutdown, Load
  <2> QED
    BY <2>1 DEF Waits, Awaits
<1> QED
  BY <1>2, <1>4, <1>5, <1>6, <1>7 DEF Next

LEMMA CirclesLemma == ASSUME NoCircularWait, Waits PROVE NoCircularWait'
<1> SUFFICES ASSUME NEW S \in SUBSET Tasks, S # {}
             PROVE  \E t \in S : \A u \in S : ~Awaits(t, u)'
  BY DEF NoCircularWait
<1>1. PICK t \in S : \A u \in S : ~Awaits(t, u)
  BY DEF NoCircularWait
<1>2. CASE \A s, u \in Tasks : Awaits(s, u)' => Awaits(s, u)
  BY <1>1, <1>2
<1>3. ASSUME NEW n \in Tasks,
             \A u \in Tasks : ~Awaits(n, u)',
             \A s \in Tasks : \A u \in Tasks \ {n} : Awaits(s, u)' => Awaits(s, u)
      PROVE  \E s \in S : \A u \in S : ~Awaits(s, u)'
  <2>1. CASE n \in S
    BY <1>3, <2>1
  <2>2. CASE n \notin S
    BY <1>1, <1>3, <2>2
  <2> QED
    BY <2>1, <2>2
<1> QED
  BY <1>2, <1>3 DEF Waits

\* However models need each other, no workers wait for each other in a circle
\* (download_service.py, _ensure_dependencies_installed: a dependency that is in hand is not
\* waited for, only one whose worker was just started).
THEOREM NoCircles == Spec => []NoCircularWait
<1>1. Init => NoCircularWait
  BY DEF Init, NoCircularWait, Awaits
<1>2. DInv /\ NoCircularWait /\ [Next]_vars => NoCircularWait'
  BY NextWaits, CirclesLemma
<1> QED
  BY <1>1, <1>2, Invariance, PTL DEF Spec

\* As long as there are workers one of them does not wait for another: the downloads
\* cannot come to a halt by themselves.
THEOREM NoHalt == Spec => []SomebodyGoesOn
<1>1. DInv /\ NoCircularWait => SomebodyGoesOn
  <2> SUFFICES ASSUME DInv, NoCircularWait, NEW w \in Tasks, worker[w] # "none"
               PROVE  \E t \in Tasks : worker[t] = "fetching" \/ ~Suspended(t)
    BY DEF SomebodyGoesOn
  <2> DEFINE S == {t \in Tasks : worker[t] # "none"}
  <2>1. PICK t \in S : \A u \in S : ~Awaits(t, u)
    BY DEF NoCircularWait
  <2>2. \A u \in Tasks : ~Awaits(t, u)
    BY <2>1 DEF Awaits
  <2> QED
    BY <2>1, <2>2 DEF Suspended
<1> QED
  BY <1>1, Invariance, NoCircles, PTL

===========================================================================
