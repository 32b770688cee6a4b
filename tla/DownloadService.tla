--------------------------- MODULE DownloadService ---------------------------
(***************************************************************************)
(* Downloads of registry models: src/backend/services/download_service.py. *)
(*                                                                         *)
(* Each call of download_model() is a worker, a coroutine of the event     *)
(* loop.  It suspends only while an executor thread or an HTTP session     *)
(* fetches files, and while it awaits the worker of a dependency; the lock *)
(* and the progress callbacks never make it wait.  So a worker that has    *)
(* not reached such a point runs on before anything else happens: the      *)
(* actions of everybody else require that the workers are Settled.         *)
(*                                                                         *)
(* The table of downloads is in memory, and the code saves all of it to a  *)
(* JSON file at the points that say so here.  A model is a pair of a       *)
(* registry name and a version, the key of the deduplication.              *)
(***************************************************************************)
EXTENDS Naturals, FiniteSets

CONSTANTS
    Tasks,           \* ids of downloads; a uuid4() is never used twice
    Models,          \* pairs of a model name and a version
    Needs,           \* the dependencies of each model in the registry
    Interruptible,   \* models fetched over HTTP as one file: their cancellation is seen
    NoTask,          \* no download
    NoModel          \* the model of an id that is not used yet

ASSUME NeedsAssumption == Needs \in [Models -> SUBSET Models]
ASSUME InterruptibleAssumption == Interruptible \subseteq Models
ASSUME NoTaskAssumption == NoTask \notin Tasks
ASSUME NoModelAssumption == NoModel \notin Models

\* What _find_active_model_download and resume_download look for.
Open == {"running", "paused", "failed"}
Resumable == {"paused", "failed"}
Listed == Open \cup {"completed", "cancelled"}
Gone == {"new", "deleted"}

VARIABLES
    status,       \* _downloads: the status of each download; "new" before, "deleted" after
    of,           \* the model of each download
    active,       \* _active_model_downloads
    inflight,     \* _inflight_model_downloads
    chain,        \* _dependency_install_chain
    cancelled,    \* _cancelled_downloads and the set of the HTTP downloader
    worker,       \* what the worker of each download does, "none" when it has ended
    caller,       \* the download whose worker awaits this one as a dependency
    saved,        \* the statuses in the JSON file, .download_tasks.json
    installed     \* the models whose files are complete on disk

registers == <<active, inflight, chain, cancelled>>
vars == <<status, of, registers, worker, caller, saved, installed>>

Init ==
    /\ status = [t \in Tasks |-> "new"]
    /\ of = [t \in Tasks |-> NoModel]
    /\ active = [m \in Models |-> NoTask]
    /\ inflight = {}
    /\ chain = {}
    /\ cancelled = {}
    /\ worker = [t \in Tasks |-> "none"]
    /\ caller = [t \in Tasks |-> NoTask]
    /\ saved = status
    /\ installed = {}

Awaits(t, u) == caller[u] = t /\ worker[u] # "none"
Suspended(t) ==
    \/ worker[t] \in {"none", "fetching"}
    \/ worker[t] = "resolving" /\ \E u \in Tasks : Awaits(t, u)
Settled == \A t \in Tasks : Suspended(t)

---------------------------------------------------------------------------
(* The start of a download.                                                *)

Candidates(m) == {t \in Tasks : of[t] = m /\ status[t] \in Open}

\* _find_active_model_download: the registered download of the model, or else the one
\* with the most bytes, which may be any.
Found(m) ==
    IF active[m] \in Candidates(m) THEN {active[m]}
    ELSE IF Candidates(m) = {} THEN {NoTask} ELSE Candidates(m)

\* A caller is given a download that a worker has in hand already.
Joined(m) == m \in inflight /\ active[m] # NoTask /\ status[active[m]] \in Listed

\* The locked section of download_model for a download t of m, awaited by c.
Work(m, t, c) ==
    /\ status' = [status EXCEPT ![t] = "running"]
    /\ of' = [of EXCEPT ![t] = m]
    /\ active' = [active EXCEPT ![m] = t]
    /\ inflight' = inflight \cup {m}
    /\ worker' = [worker EXCEPT ![t] = "resolving"]
    /\ caller' = [caller EXCEPT ![t] = c]

\* The worker that a call of download_model starts, unless it joins another: on the
\* paused or failed download it finds, whichever the caller asked for, or on a new one.
Starts(m, c) ==
    /\ ~Joined(m)
    /\ \E f \in Found(m) :
        \/ f # NoTask /\ status[f] \in Resumable /\ Work(m, f, c)
        \/ f = NoTask /\ \E t \in Tasks : status[t] = "new" /\ Work(m, t, c)

Joins(m) ==
    Joined(m) \/ \E f \in Found(m) : f # NoTask /\ status[f] = "running"

---------------------------------------------------------------------------
(* The end of a worker.                                                    *)

\* What the worker that awaited a dependency does when that one ends: the dependency's
\* exception, or its cancellation, is raised in the caller.
Continuation(st) ==
    CASE st = "completed" -> "resolving"
      [] st = "failed" -> "failing"
      [] st = "cancelled" -> "cancelling"

\* Mutant: a worker that fails stays registered (the discard is not in the finally).
LeavesIfWell(t, st) == IF st = "failed" THEN inflight ELSE inflight \ {of[t]}

Leaves(t, st) == inflight \ {of[t]}

\* A deleted download is not in the table any more, so its worker changes nothing there.
Ends(t, st) == IF status[t] = "deleted" THEN status ELSE [status EXCEPT ![t] = st]

\* The worker drops the registration of its model, which may be another download's by now,
\* unless it failed.
Unregistered(t, st) == IF st = "failed" THEN active ELSE [active EXCEPT ![of[t]] = NoTask]

\* Mutant: the dependency is discarded only after it is installed (not in a finally).
ChainIfInstalled(t, st) ==
    IF caller[t] = NoTask \/ st # "completed" THEN chain ELSE chain \ {of[t]}

ChainLeft(t, st) == IF caller[t] = NoTask THEN chain ELSE chain \ {of[t]}

\* The worker of t ends with status st, and the one that awaited it goes on.
End(t, st) ==
    /\ status' = Ends(t, st)
    /\ saved' = status'
    /\ active' = Unregistered(t, st)
    /\ inflight' = Leaves(t, st)
    /\ chain' = ChainLeft(t, st)
    /\ caller' = [caller EXCEPT ![t] = NoTask]
    /\ worker' = [u \in Tasks |->
          IF u = t THEN "none" ELSE IF u = caller[t] THEN Continuation(st) ELSE worker[u]]
    /\ UNCHANGED <<of, cancelled, installed>>

---------------------------------------------------------------------------
(* The steps of a worker that is not suspended.                            *)

Runs(t) == worker[t] = "resolving" /\ ~Suspended(t)
Unready(t) == Needs[of[t]] \ installed

Fails(t) == worker[t] = "failing" /\ End(t, "failed")
Cancels(t) == worker[t] = "cancelling" /\ End(t, "cancelled")

\* A dependency that is being installed on behalf of any download counts as a loop.
Circular(t) ==
    /\ Runs(t)
    /\ Unready(t) \cap chain # {}
    /\ End(t, "failed")

\* Mutant: the worker asks again until the dependency is not in hand any more.
AsksAgain(t) ==
    /\ Runs(t)
    /\ \E d \in Unready(t) \ chain : Joins(d)
    /\ UNCHANGED vars

\* A dependency that somebody else downloads is not waited for: download_model returns
\* at once, and the dependency is still missing.
DependencyBusy(t) ==
    /\ Runs(t)
    /\ \E d \in Unready(t) \ chain : Joins(d)
    /\ End(t, "failed")

DependencyStarted(t) ==
    /\ Runs(t)
    /\ \E d \in Unready(t) \ chain : Starts(d, t) /\ chain' = chain \cup {d}
    /\ UNCHANGED <<cancelled, saved, installed>>

AlreadyInstalled(t) ==
    /\ Runs(t)
    /\ Unready(t) = {}
    /\ of[t] \in installed
    /\ End(t, "completed")

\* Mutant: the dependencies are not looked at again after their downloads returned.
FetchesAnyway(t) ==
    /\ Runs(t)
    /\ Unready(t) = {} \/ \E d \in Unready(t) : Joins(d)
    /\ worker' = [worker EXCEPT ![t] = "fetching"]
    /\ UNCHANGED <<status, of, registers, caller, saved, installed>>

\* The files are fetched, or the install hooks of complete files are run, in a thread.
\* The HTTP downloader forgets an earlier cancellation when it begins.
StartFetch(t) ==
    /\ Runs(t)
    /\ Unready(t) = {}
    /\ worker' = [worker EXCEPT ![t] = "fetching"]
    /\ cancelled' = cancelled \ {u \in {t} : of[u] \in Interruptible}
    /\ UNCHANGED <<status, of, active, inflight, chain, caller, saved, installed>>

WorkerStep(t) ==
    \/ Fails(t)
    \/ Cancels(t)
    \/ Circular(t)
    \/ DependencyBusy(t)
    \/ DependencyStarted(t)
    \/ AlreadyInstalled(t)
    \/ StartFetch(t)

---------------------------------------------------------------------------
(* The outcomes of a fetch.                                                *)

Fetching(t) == Settled /\ worker[t] = "fetching"

\* The thread has all the files; the worker notices at its next look.
FilesArrive(t) ==
    /\ Fetching(t)
    /\ of[t] \notin installed
    /\ installed' = installed \cup {of[t]}
    /\ UNCHANGED <<status, of, registers, worker, caller, saved>>

\* The worker does not look whether the download was cancelled.
Fetched(t) ==
    /\ Fetching(t)
    /\ of[t] \in installed
    /\ End(t, "completed")

\* An error of the network or the disk, a hook that fails, or the session that a
\* cancellation closed under the HTTP downloader.
FetchFails(t) ==
    /\ Fetching(t)
    /\ End(t, "failed")

\* The HTTP downloader sees the cancellation between two chunks.
Aborted(t) ==
    /\ Fetching(t)
    /\ of[t] \in Interruptible
    /\ t \in cancelled
    /\ End(t, "cancelled")

\* A progress report saves the table.  Only the loop over a hub download looks at
\* _cancelled_downloads, and stops reporting.
Tick(t) ==
    /\ Fetching(t)
    /\ t \notin cancelled
    /\ saved' = status
    /\ UNCHANGED <<status, of, registers, worker, caller, installed>>

FetchEnds(t) == Fetched(t) \/ FetchFails(t) \/ Aborted(t)

---------------------------------------------------------------------------
(* The requests of clients.                                                *)

\* start_model_install.
Download(m) ==
    /\ Settled
    /\ Starts(m, NoTask)
    /\ UNCHANGED <<chain, cancelled, saved, installed>>

\* resume_download.  The download that goes on is the one download_model finds.
Resume(t) ==
    /\ Settled
    /\ status[t] \in Resumable
    /\ Starts(of[t], NoTask)
    /\ UNCHANGED <<chain, cancelled, saved, installed>>

\* Mutant: a cancellation pauses the download.
CancelPauses(t) ==
    /\ Settled
    /\ status[t] \in Listed
    /\ cancelled' = cancelled \cup {t}
    /\ status' = [status EXCEPT ![t] = "paused"]
    /\ saved' = status'
    /\ UNCHANGED <<of, active, inflight, chain, worker, caller, installed>>

\* cancel_download: the worker lives on, and the model may be downloaded again.
Cancel(t) ==
    /\ Settled
    /\ status[t] \in Listed
    /\ cancelled' = cancelled \cup {t}
    /\ status' = [status EXCEPT ![t] = "cancelled"]
    /\ active' = [active EXCEPT ![of[t]] = NoTask]
    /\ saved' = status'
    /\ UNCHANGED <<of, inflight, chain, worker, caller, installed>>

\* Mutant: the file keeps the deleted download.
DeleteUnsaved(t) ==
    /\ Settled
    /\ status[t] \in Listed
    /\ cancelled' = IF status[t] = "running" THEN cancelled \cup {t} ELSE cancelled
    /\ status' = [status EXCEPT ![t] = "deleted"]
    /\ active' = [active EXCEPT ![of[t]] = NoTask]
    /\ UNCHANGED <<of, inflight, chain, worker, caller, saved, installed>>

\* delete_download: the worker of a running download lives on without a row.
Delete(t) ==
    /\ Settled
    /\ status[t] \in Listed
    /\ cancelled' = IF status[t] = "running" THEN cancelled \cup {t} ELSE cancelled
    /\ status' = [status EXCEPT ![t] = "deleted"]
    /\ active' = [active EXCEPT ![of[t]] = NoTask]
    /\ saved' = status'
    /\ UNCHANGED <<of, inflight, chain, worker, caller, installed>>

---------------------------------------------------------------------------
(* The end of the process, and the next one.                               *)

\* Mutant: a download is loaded as it was saved.
LoadedAsSaved(file, t) ==
    IF file[t] = "new" /\ status[t] # "new" THEN "deleted" ELSE file[t]

\* _load_persisted_downloads.  A download that was never saved is gone.
Loaded(file, t) ==
    IF file[t] = "running" THEN "paused"
    ELSE IF file[t] = "new" /\ status[t] # "new" THEN "deleted"
    ELSE file[t]

\* A new process loads the file, and _reconcile_duplicate_model_downloads keeps, of the
\* downloads of a model that can be resumed, the one with the most bytes.
Load(file) ==
    LET loaded == [t \in Tasks |-> Loaded(file, t)]
        Rivals(m) == {t \in Tasks : of[t] = m /\ loaded[t] \in Resumable}
    IN  /\ active' \in [Models -> Tasks \cup {NoTask}]
        /\ \A m \in Models :
              IF Rivals(m) = {} THEN active'[m] = NoTask ELSE active'[m] \in Rivals(m)
        /\ status' = [t \in Tasks |->
              IF loaded[t] \in Resumable /\ active'[of[t]] # t THEN "deleted" ELSE loaded[t]]
        /\ saved' = IF status' = loaded THEN file ELSE status'
        /\ inflight' = {} /\ chain' = {} /\ cancelled' = {}
        /\ worker' = [t \in Tasks |-> "none"]
        /\ caller' = [t \in Tasks |-> NoTask]
        /\ UNCHANGED of

Crash == Load(saved) /\ UNCHANGED installed

\* A crash while the table is written leaves a file that is not JSON.
CrashInSave ==
    /\ Load([t \in Tasks |-> IF status[t] = "new" THEN "new" ELSE "deleted"])
    /\ UNCHANGED installed

\* When the server is interrupted from the keyboard, asyncio cancels the workers before it
\* closes the loop, and they save that; the threads of the executor are waited for.  A
\* server that is terminated by a signal ends like in a crash.
Shutdown ==
    /\ Settled
    /\ Load([t \in Tasks |->
          IF worker[t] = "none" THEN saved[t] ELSE Ends(t, "cancelled")[t]])
    /\ \E done \in SUBSET {of[t] : t \in {u \in Tasks : worker[u] = "fetching"}} :
          installed' = installed \cup done

---------------------------------------------------------------------------
(* The specification.                                                      *)

Client ==
    \/ \E m \in Models : Download(m)
    \/ \E t \in Tasks : Resume(t)
    \/ \E t \in Tasks : Cancel(t)
    \/ \E t \in Tasks : Delete(t)

Fetch(t) == FilesArrive(t) \/ Tick(t) \/ FetchEnds(t)

Process == Crash \/ CrashInSave \/ Shutdown

Next ==
    \/ Client
    \/ \E t \in Tasks : WorkerStep(t)
    \/ \E t \in Tasks : Fetch(t)
    \/ Process

Spec == Init /\ [][Next]_vars

\* The event loop runs every worker that can run, and takes up the end of every fetch in
\* its turn, however busy the others keep it; that a fetch ends is assumed of the network.
Fairness ==
    /\ \A t \in Tasks : WF_vars(WorkerStep(t))
    /\ \A t \in Tasks : SF_vars(FetchEnds(t))

FairSpec == Spec /\ Fairness

---------------------------------------------------------------------------
(* Properties.                                                             *)

\* The type invariant: the table, the registers of the service, and its workers.
TypeOK ==
    /\ status \in [Tasks -> Listed \cup Gone]
    /\ of \in [Tasks -> Models \cup {NoModel}]
    /\ \A t \in Tasks : of[t] = NoModel <=> status[t] = "new"
    /\ active \in [Models -> Tasks \cup {NoTask}]
    /\ inflight \subseteq Models
    /\ chain \subseteq Models
    /\ cancelled \subseteq Tasks
    /\ worker \in [Tasks -> {"none", "resolving", "failing", "cancelling", "fetching"}]
    /\ caller \in [Tasks -> Tasks \cup {NoTask}]
    /\ saved \in [Tasks -> Listed \cup Gone]
    /\ installed \subseteq Models

\* A download shown as running has a worker.  It could neither be resumed nor started
\* again otherwise: every request for its model would be given this download.
RunningHasWorker == \A t \in Tasks : status[t] = "running" => worker[t] # "none"

\* A download that may be resumed has no worker any more, so that a resumption never
\* puts a second worker on the same row.
ResumableIsIdle == \A t \in Tasks : status[t] \in Resumable => worker[t] = "none"

\* The registered download of a model is a download of that model that a new request
\* joins or resumes, although workers of cancelled and deleted downloads of the model
\* drop the registration of their successor when they end.
ActiveIsOpen ==
    \A m \in Models : active[m] # NoTask => of[active[m]] = m /\ status[active[m]] \in Open

\* A caller that is given the download another caller started gets one that a worker
\* really works on: the register of the workers and the one of the downloads are two.
JoinedIsAlive ==
    \A m \in Models : Joined(m) => worker[active[m]] # "none" /\ status[active[m]] = "running"

\* The dependencies being installed are those of the workers that wait for one, each for
\* one of its own: a loop is never suspected after the installation has ended.
ChainIsAwaited ==
    chain = {of[u] : u \in {v \in Tasks : caller[v] # NoTask}}

\* A download ends completed only when the model and all of its dependencies are there,
\* whatever became of the downloads of the dependencies in the meantime.
CompletedIsInstalled ==
    \A t \in Tasks :
        status[t] = "completed" => of[t] \in installed /\ Needs[of[t]] \subseteq installed

\* A download that is completed is never taken up again, and a deleted one never comes
\* back, not even by a crash and the table the next process loads.
EndsForGood ==
    [][\A t \in Tasks :
         /\ status[t] = "completed" => status'[t] \in {"completed", "cancelled", "deleted"}
         /\ status[t] = "deleted" => status'[t] = "deleted"]_vars

\* No workers wait for each other in a circle, although models may need each other: of
\* any workers one waits for none of the others.
NoCircularWait ==
    \A S \in SUBSET Tasks : S # {} => \E t \in S : \A u \in S : ~Awaits(t, u)

\* As long as a worker has not ended, there is one that fetches or can go on at once.
SomebodyGoesOn ==
    (\E t \in Tasks : worker[t] # "none") =>
        \E t \in Tasks : worker[t] = "fetching" \/ ~Suspended(t)

OutOfIds == \A t \in Tasks : status[t] # "new"

\* Every worker ends, unless the instance has no id left for a dependency: no loop among
\* the dependencies, and no pair of downloads that need each other, makes workers wait
\* for each other for ever.
WorkersEnd == \A t \in Tasks : worker[t] # "none" ~> worker[t] = "none" \/ OutOfIds

---------------------------------------------------------------------------
(* What the properties above rest on, for the proofs.                      *)

\* Which rows have a worker.
WorkersInv ==
    /\ RunningHasWorker
    /\ \A t \in Tasks :
          status[t] \in Resumable \cup {"new", "completed"} => worker[t] = "none"
    /\ \A t \in Tasks : worker[t] = "fetching" => Needs[of[t]] \subseteq installed

\* A worker waits for one dependency at most, each dependency has one worker that was
\* started for it, and the chain holds these dependencies.
CallersInv ==
    /\ \A t \in Tasks : caller[t] # NoTask =>
          worker[t] # "none" /\ worker[caller[t]] = "resolving" /\ caller[t] # t
    /\ \A t, u \in Tasks : caller[t] # NoTask /\ caller[u] # NoTask =>
          (caller[t] = caller[u] \/ of[t] = of[u] => t = u)
    /\ ChainIsAwaited

\* The two registers.
RegistersInv ==
    /\ ActiveIsOpen
    /\ \A m \in inflight : active[m] # NoTask => status[active[m]] = "running"

\* What the file says of the downloads that are new or over.
SavedInv ==
    \A t \in Tasks :
        /\ status[t] = "new" => saved[t] = "new"
        /\ status[t] \in {"completed", "cancelled"} => saved[t] = status[t]
        /\ status[t] = "deleted" => saved[t] \in {"new", "deleted"}
        /\ saved[t] \in {"completed", "cancelled", "deleted"} => status[t] = saved[t]

DInv ==
    /\ TypeOK
    /\ WorkersInv
    /\ CallersInv
    /\ RegistersInv
    /\ SavedInv
    /\ CompletedIsInstalled

===========================================================================
