# danmo-make: a TLA+ model

danmo-make is a local studio for images, video, audio and LoRA training. A
FastAPI server (`src/backend/`) keeps its state in SQLite and JSON files and
drives the MLX engines; a Vue client, a command line, an MCP bridge and a
desktop shell use it. Most of the repository is numerical code. This directory
models what remains when the numbers are taken away and is hard to test: the
queue of tasks, the downloads of models, LoRA training with its evaluations,
the event stream of a task, the cache of loaded models, the constrained
decoding of a language model, and the tiled decoding of a video into an ffmpeg
process. The models are checked with TLC, their invariants proved with TLAPS.

`PROJECT.json` lists the components, the runs, the mutants that show that each
property can fail, the source lines behind every definition, the findings, the
hazards and the theorems.

## The system

| part | state | operations | interacts with |
|---|---|---|---|
| Task scheduler (`scheduler/task_scheduler.py`, `persistence/v3_task_store.py`) | the `tasks` table; in memory the heap `_pq`, `_in_flight`, `_tokens`, the worker coroutine | submit, cancel, delete_task, update_queued_priority, continue_lora_training, start, shutdown, the worker loop | routes call it; it calls `dispatch_task`; reads `queue_image_first` at each submission |
| Downloads (`services/download_service.py`, `core/downloaders.py`) | `_downloads`, the registers of active and in-flight models, the chain of dependencies, the cancelled ids; `.download_tasks.json`; the model directories | download_model, cancel, delete, resume, load at start | routes and batch install call it; executor threads and HTTP sessions fetch |
| LoRA training and evaluation (`api/routes/loras.py`, `engine/training/*`) | a work directory per training with its checkpoints, manifest and worker result; the trainer process; `config/user_loras.json` | train, continue, evaluate, select, register, delete | submits to the scheduler, whose handlers write the manifest on completion and cancellation |
| Task event stream (`api/routes/tasks.py`) | a bounded queue per execution, a generator per client | stream; progress and logs | the engine thread reports, the event loop delivers, clients read the table and the queue |
| Model cache (`engine/cache.py`) | entries with size and time of last use, a running total | get, put, evict, purge_idle, unload_all | engines in threads; the purge and the settings on the event loop |
| ACE-Step language model (`engine/families/ace_step/lm/*`) | one logits processor for all requests: state, position, injection, counts | configure, mask, update_state; the two generations of format_sample | the model chooses among the tokens left over |
| LTX video decoding (`engine/families/ltx/vae_mlx.py`) | the previous chunk of frames; the ffmpeg process and its pipes | tile, decode, blend, yield, write, close | ffmpeg reads the frames and writes its status |
| LLM sidecar (`engine/llm/sidecar_manager.py`, `backend_llm/lifecycle.py`) | the child process, the pid file | ensure_running, stop, health | lifespan and settings routes |
| Canvas sessions, assets, settings | rows and files | read, update, delete | routes |
| Engines, catalogue, observability, routes, MCP, CLI, frontend, desktop | none that other parts decide on | | - |

Hard behaviours: handlers and the worker interleave on one event loop, at its
suspension points only; engines run in threads and see a cancellation late or
never; trainers are processes that outlive the server; two records that must
agree (the database and the heap, the rows and the registers, the manifest and
the tasks) are written at different points; the process may crash or shut down
in the middle of anything; cancelled work lives on beside its successor;
bounded queues and pipes fill up; one processor object carries state from one
request to the next; off-by-one arithmetic decides which frame two tiles share.

What makes each part correct:

- Scheduler: one task runs at a time; what is queued in the table is what is in
  the heap, once; tasks start in order; a cancelled task never ends completed
  and a continued one is not cancelled by its past; nothing is queued or
  removed under an engine; queued tasks are eventually taken.
- Downloads: a download that is shown as running has a worker, one that can be
  resumed has none; a caller that joins a download joins a live one; completed
  means that the model and what it needs are there; what is over stays over,
  also across a crash; workers never wait for each other for ever.
- LoRA training: a manifest waits only for an evaluation that can still end;
  a completed training with checkpoints offers them; a continuation has its
  checkpoint, and a training that started from another's its copy; trainers do
  not pile up; what is registered is listed.
- Stream: a client that is told of the end has seen all of the progress and the
  logs; the report shown with the progress of a row does not lag behind it; the
  stream of a finished task ends.
- Cache: every model is at one place and none is lost unreleased; slots and
  budget are kept; the least recently used goes first.
- Language model: values are whole and from their trees, or the user's own;
  fields come in order; a duration gets exactly its codes.
- Video: what is written is the video, frame by frame, as far as there is sound;
  seams are invisible; decoding ends, also when ffmpeg dies.

## Modules

| module | what it is |
|---|---|
| `TaskLifecycle` | abstract: what the scheduler promises, with a state per task and the set of active tasks only |
| `TaskScheduler` | the scheduler over its table, heap, tokens and worker |
| `TaskSchedulerProofs`, `TaskSchedulerRefinement` | its invariants; that it implements `TaskLifecycle` |
| `DownloadService`, `DownloadServiceProofs` | the downloads of registry models; its invariants |
| `LoraTraining`, `LoraTrainingProofs` | trainings, evaluations, registration and removal, over `TaskLifecycle`; its invariants, and that its rows follow `TaskLifecycle` |
| `TaskStream`, `TaskStreamProofs` | the event stream of one task against its executions; its invariants, and that its row follows `TaskLifecycle` |
| `ModelLifecycle` | abstract: what the cache promises of each model it is given, with no keys, slots or budget |
| `ModelCache`, `ModelCacheProofs` | the cache and the threads that use it; its invariants, and that it implements `ModelLifecycle` |
| `ConstrainedLm`, `ConstrainedLmProofs` | constrained decoding, token by token; its invariants |
| `VideoDecode`, `VideoDecodeProofs` | tiles, blending and the ffmpeg process; its invariants |
| `MC...` | instances of the modules for TLC |

### TaskScheduler

A row of the table is `status[t]`, `kind[t]`, `priority[t]` and `created[t]`;
the memory of the process is `heap`, `inFlight`, `tokens` and `worker`. None of
the handlers suspends (the heap lock is never contended, the queue is
unbounded), so each is one action: `Submit`, `Cancel`, `DeleteTask`,
`UpdateQueuedPriority`, `ContinueLoraTraining`, each with the rebuild of the
heap it ends with. The worker suspends when it waits for the queue and when it
waits for the engine: `WorkerTakes` is one step, and `EndCancelled`,
`EndCompleted`, `EndWithEvaluation` and `EndFailed` are the ways an execution
ends. An exception outside the `try` of `_execute` ends the worker coroutine
(`WorkerFaultBefore`, `WorkerFaultAfter`); nothing restarts it before the
process does. `Crash` loses the memory and keeps the table, `Shutdown` cancels
the task in flight first, `Start` is the recovery of orphans and the rebuild.

The heap is a sequence of task ids per band, in the order of their sequence
numbers, instead of triples (band, number, id): numbers are only compared.
Image tasks stand for audio and tools tasks too, which the scheduler treats
alike. Traces and activity records are left out: the scheduler decides nothing
on them. Whether an engine notices a cancellation is left to it: after one it
may return (then `EndCancelled`) or raise.

### DownloadService

A worker is one call of `download_model`. It suspends only while a thread or an
HTTP session fetches and while it awaits the worker of a dependency; between
those points it runs on before anything else does, so the actions of everybody
else require `Settled`. `Download`, `Resume`, `Cancel` and `Delete` are the
requests; `StartFetch`, `DependencyStarted`, `DependencyBusy`, `Circular`,
`AlreadyInstalled`, `Fails` and `Cancels` the steps of a worker; `FilesArrive`,
`Fetched`, `FetchFails`, `Aborted` and `Tick` what happens during a fetch;
`Crash`, `CrashInSave` and `Shutdown` end the process, and the next one loads
the file and keeps one resumable download per model.

`saved` is what the file says; it changes where the code writes the file and
nowhere else. `Interruptible` models are fetched over HTTP as one file, the
only case in which the cancellation reaches the fetch; hub downloads and lists
of files go on to their end. Byte counts are left out: where the code chooses
the download with the most bytes, any may be chosen. `installed` is what the
code finds complete on disk. The order of the dependencies of a model is open.

### LoraTraining

The rows of the tasks are the scheduler's: each of their changes is a step of
`Sched == INSTANCE TaskLifecycle`, which `TaskSchedulerRefinement` proves the
scheduler to implement, so the two compose through the abstract specification:
`FollowsLifecycle` proves that `LoraTraining` allows the rows nothing else.
The rest is what is on disk (`dirs`, `saved`, `manifest`, `result`), the trainer
processes (`proc`, and the one the server waits for, `awaited`), the thread of
each evaluation, the threads of registrations and removals (`req`), a removal
of a result as it proceeds (`deletion`) and the list of adapters (`registry`).
Functions that load a file, change it and write it back are two actions, so
that another actor comes between: `Writes` notes in `clobbered` that a write of
the list undid one it had not seen. `Crash`, `Shutdown` and `Start` interrupt
the server; trainers live on. `Look` is the reconciliation that reading the
artifacts of a training does. Adapters are named after the request that
published them. Data sets, captions and the training loop are left out.

A training may start from a checkpoint: of its own, when it is continued
(`Continue`), or of another training, which `SubmitTraining` finds on disk and
the row names from then on (`resumes`). The removal of the other does not ask
who names it. `BeginTraining` needs the file: it copies it into the directory of
the training. Without it there is an execution that never starts a trainer
(`BeginTrainless`) and fails before the event loop does anything else
(`FailsTrainless`, `NoTrainer`). The trainer loads the file that the row named,
not the copy (`TrainerLoads`), so that it may still find it gone and fail.

### TaskStream

One task, its executions one after another, and clients. `Begins`,
`Progresses`, `Reports`, `Delivers`, `Logs`, `Closes` and the ends are the
execution: the engine's thread writes the table, makes the report known (`meta`)
and hands it to the event loop, which puts it into a bounded queue and drops
what does not fit. A training is a process: it writes the table too, but its
report goes to `training_progress.json` (`Files`, `filed`) and none into the
queue; it may be killed while it writes (`Dies`). `ProgressMeta` is what
`get_progress_meta` makes of the two, and `Requeue`, all of
`continue_lora_training`, clears the one in memory and leaves the file. A
generator (`pc[c]`) takes one step per await: `Reads` the row
and sends the logs, `Looks` for the queue, `Drains` it, sends the progress of
the row with the report known by then (`SendsRow`, `shown`), its `Status`, then
waits, takes an item and puts it back. `Cancel`, `Requeue` and `Delete`
come between; a training is deleted only when it is over, so that the row goes
through the steps of `TaskLifecycle` (`Lifecycle`). A report is its execution
and its progress; trace events, which take the same queue, are left out.

### ModelCache

What a call does under the lock is one action; the release of the models it
took out follows outside the lock, one by one (`Releases`), and the steps of
others come between. A thread that misses loads and then puts; the event loop
purges (`PurgeIdle`) and, when settings change, unloads all, which reads the
keys under the lock and evicts one by one (`Asks`, `Evicts`, `Unloaded`). The
order of `_cache` is kept as `older[k]`, the keys before k. `loaded`,
`released`, `dropped` and `fresh` record what happened to the models. Time is
`Tick`, capped at `MaxIdle`, beyond every time to live.

`Place` maps this state to `ModelLifecycle`: a model that is under a key is kept,
one that a call has taken out is leaving, and one that was loaded and is nowhere
is lost, which the abstract specification allows only where another model is
put in its place. What `Put` does to several keys at once is there one step for
the new model, those that leave and the one it replaces.

### ConstrainedLm

A step is one token. The processor masks the scores, the model takes any token
left, and `update_state` follows: `WritesFixed` for names and tags, `WritesValue`
and `EndsValue` along the prefix tree of a field, `StartsInjection`, `Injects`
and `Injected` for what the user provides, `WritesCaption`, `NamesFreely` and
`NamesField` for the free caption after which the model may write the name of a
field itself, `WritesGenres`, and `WritesCode`, `EndsCodes` for audio codes.
`FormatSample` and `PlanCodes` configure the one processor for the two
generations of a request; `Fails` and `Cut` end a generation in the middle, and
`Reset` is what the next one starts from. Which tokens spell a value, the
scores and the temperatures are left out; a text is a marker, because only its
length and whether it follows a newline are looked at.

The vocabulary of genres is looked for beside the module, in `lm/data/`, and
lies in `ace_step/data/`, so that genres are free text in the program as it is,
and in the model. The target duration is always given, because
`generation_mlx.py:353` bounds it.

### VideoDecode

`TileFrames` to `Shown` are the arithmetic of the tiling, in latent frames and
frames, for any memory room, rate and length. A frame is the set of what was
added up for it: which tile, which frame of the video that tile showed, with
which weight. `DecodeAtOnce`, `DecodeFirst`, `DecodeNext` and `YieldLast` are the
generator, which keeps one chunk back; `Write`, `WriteFails`, `NextChunk`,
`GiveUp`, `Close` and `Return` are `decode_and_stream`; `Encode`, `Report`,
`Finish` and `Die` are ffmpeg, which waits when nobody reads its status. The one
caller always passes audio, and with it `-shortest`: ffmpeg ends at the end of
its input, or once it has as many frames as the audio lasts (`cfg.heard`,
`AudioOver`), with frames in the pipe and its input still open. Tiles
are cut in time only, as `_compute_decode_tiling` never gives a spatial
configuration. The layers of the decoder are abstracted to how many frames they
make of how many.

## Runs

| run | instance | question | states |
|---|---|---|---|
| `scheduler` | 3 tasks, image, video and training, one continuation, one fault, one crash or shutdown | do table, heap, tokens and flight agree; do tasks start in order; is it a `TaskLifecycle` | 1 767 846 |
| `scheduler_live` | 3 tasks, image and training, one continuation, no fault, no restart | is every queued task taken | 544 358 |
| `downloads` | 3 downloads of 3 models, two of which need each other and one a third, interruptible, model | do rows, registers, workers and file agree; does every worker end | 102 695 |
| `lora` | 1 training, 2 evaluations, 2 trainers, 2 requests, 1 interruption | do manifest, files, tasks and adapters agree | 862 800 |
| `lora_live` | 2 trainings, 2 evaluations, 1 trainer, no requests, no restart, no early failure | do continued and derived trainings have their checkpoint; does every announced evaluation settle | 892 903 |
| `stream` | 2 clients, a queue of one, pages of one line | what has a client seen when its stream ends | 3 840 349 |
| `stream_live` | 1 client, 2 executions, a queue of one and three reports | does the report shown fit the progress; does every stream end | 188 812 |
| `cache` | 3 keys of 1, 2 and 3 GB, 2 slots, a budget of 4, one engine thread and the event loop | is every model at one place and released; slots, budget, order; is it a `ModelLifecycle` | 98 242 |
| `constrained` | trees of two values per field, user values in and out of them, 2 durations | what do the two generations write | 66 427 |
| `constrained_names` | the same | finding | - |
| `video` | room for 1, 4 and 8 latent frames, rates 7 and 24, videos of 1, 6 and 10 latent frames, audio for 40 or 73 frames, an ffmpeg that may die | is the file the video; does decoding end | 30 924 |
| `video_hang` | an ffmpeg that writes more status than its pipe holds | finding | - |

Each property has a mutant in `PROJECT.json`: an operator of the module, marked
as such, that changes one definition the way a plausible bug would, under which
TLC finds the property violated.

Type invariants are proved and not run again by TLC.

### Bounds

- `scheduler`: three tasks give every pair of actors plus a bystander: a running
  task, a cancelled one and one queued, continued or deleted under them, and
  two entries of one band beside one of another. A `QueryLimit` of 3 is never
  exceeded by three tasks, which is the case of at most 500 queued rows.
  `MaxContinues`, `MaxFaults` and `MaxRestarts` of 1 let each meet everything
  else; the proofs hold for every number.
- `downloads`: nothing is counted; failures, cancellations, resumptions, crashes
  and restarts are unbounded and only the ids are finite. Three ids give two
  downloads of one model beside a third, or a pair that need each other.
- `lora`: two evaluations are the follow-up and a forced one, or two forced
  ones; two trainers are the one in use and the one an interruption left
  behind; two requests are two registrations, or one and a removal. `MaxLives`
  bounds the interruptions. `lora_live` has a second training, whose row may
  name the checkpoint of the first while that is removed; interruptions of it
  are left to the theorem `ResumeIsSafe`.
- `stream`: a queue of one and a page of one overflow at the second item; `Full`
  of 2 gives one report before the last. Two clients are needed to take each
  other's items; in `stream_live` one suffices: three reports into a queue of
  one refill it while the client holds an item. `MaxRuns` of 2 is a
  continuation, and three reports let a report of the run before be far from
  the row.
- `cache`: two slots with a budget make both evictions happen; three models let
  a put evict two. The key of three gigabytes exceeds the budget beside any
  other but not alone. One engine thread is what the server has (the worker of
  the scheduler); the proofs hold for any number, and `NothingDropped` for one.
- `constrained`: a value that begins another, keys of two tokens, languages of
  one and two, user values in no tree. A name of two tokens has a first and a
  last; a `CaptionLimit` of 2 is reached.
- `video`: against the three rooms, the lengths are decoded at once, in two tiles
  and in many; tiles have no overlap, one latent frame or two of it, and a
  last tile of full or smaller size. `PipeRoom` of 1 makes the writer wait at
  every frame. The videos have 1, 41 and 73 frames: audio for 40 cuts one off,
  or many, audio for 73 none.

Symmetry is used on ids that are only compared for equality, in runs without
liveness. Deadlock is checked except in `lora`, `lora_live`, `stream`,
`stream_live`, `video` and `video_hang`, where everything may be over, or hang,
which there is what the run is about.

### Fairness

- `QueuedIsTaken`: weak fairness of the worker and of the engine: asyncio runs
  every ready coroutine and an engine call is assumed to end. Faults and
  restarts are excluded, as a worker that died is not restarted and nothing
  could be taken.
- `WorkersEnd`: weak fairness of the steps of a worker and strong fairness of
  the end of each fetch: the ready queue of asyncio is first in, first out, so
  a finished fetch gets its turn however busy others keep the loop. That a
  fetch ends at all is assumed of the network; the HTTP downloader sets no time
  limit. The property has an escape for an instance that has run out of ids.
- `EvaluationsSettle`: strong fairness that a queued evaluation begins, as others
  may go first but none is passed over for ever (`QueuedIsTaken`, which the
  scheduler is shown to keep); strong fairness of the end of an execution whose
  work is over, as the event loop runs what is ready in turn, also where the
  user tries again and again to remove a training that is in flight; weak
  fairness of the ends of a trainer, of the evaluation's thread and of a removal
  that has begun; without interruptions and without failures before the
  manifest is loaded, after which the code does leave a manifest evaluating (see
  below). No training need ever begin.
- `StreamsEnd`: weak fairness of each generator: the loop runs every coroutine
  that can go on. The execution owes nothing: the property is about tasks that
  are over. It leaves out, by name, the one generator that cannot end: `Stuck`,
  which the run reaches, waits to put an item back into a queue that was
  refilled to its limit and that nobody empties any more (see below).
- `Released`: weak fairness of the release and of the steps of unload_all: a
  call that has begun goes on.
- `DecodeEnds`: weak fairness of the producer and of ffmpeg, and that the status
  lines fit the pipe (`MaxReports <= StderrRoom`); `video_hang` drops the latter.

## Findings

Two findings have a run in which TLC violates the property.

- `constrained_names`: genres that end because a newline is the likeliest token
  change the state before the newline is generated; the newline then counts as
  the first token of the next name, which is written without its own
  (`constrained_lm.py:2049`, against the comment at 2316).
- `video_hang`: ffmpeg's standard error is a pipe nobody reads; when it is full,
  ffmpeg stops reading frames and `decode_and_stream` never returns
  (`vae_mlx.py:1111`). `minimax_h3/vae_mlx.py:1427` has the same pattern.

Others were met while modelling. The models do what the code does, so the
properties are stated around them:

- Scheduler. A rebuild reads the newest 500 queued rows, so beyond them every
  cancellation or change of priority drops the oldest from the heap
  (`task_scheduler.py:337`).
- Downloads. Two workers of one model run at once after a cancellation and a new
  request (`download_service.py:2203`, against the comment at 455). A cancelled
  hub download ends completed (1979). Of two failed downloads of a model,
  resuming one restarts the other under its own id (1435, against 2238). A
  server interrupted from the keyboard saves running downloads as cancelled,
  not paused, and they cannot be resumed (1986, against 495).
- LoRA. A shutdown, a crash or an early failure leaves the manifest evaluating
  (`task_scheduler.py:85`, 515). A result can be deleted while a second
  evaluation is queued (`loras.py:817`, against 824), and the files go under a
  cancelled trainer that still works (803). A restart marks a training failed
  while its trainer goes on. A later evaluation that fails makes a registered
  manifest say that nothing was registered
  (`lora_checkpoint_evaluation.py:307`). Overlapping writers of the list of
  adapters undo each other (`user_lora_registry.py:57`). A queued training may
  name the checkpoint of another (`loras.py:368`, 437), whose removal does not ask
  for it (792): the queued one then fails. So does one whose checkpoint was
  copied already (`subprocess_runner.py:184`), as its trainer loads the original
  (`lora_train_loop_mlx.py:140`).
- Cache. A model in use for longer than its time to live is purged as idle: only
  `get` renews it (`cache.py:131`, 181).
- Stream. The last pass sends one page of 200 lines (`tasks.py:231`). Putting an
  item back into a queue that has filled up meanwhile waits for ever (325) unless
  another client empties it. Until a continued training files its first report,
  a client is shown the step, the total and the message of the run before, with
  the progress of 0: `get_progress_meta` falls back to a file that the
  continuation leaves (`task_scheduler.py:266`, against the reset of the progress
  at 644).
- Language model. `</think>` is never generated with `stop_at_reasoning`; the
  limit of the caption is not a hard one; a field the model names after the
  caption may skip others; the flags of the caption survive a jump.
- Video. Later tiles decode one latent frame more than the budget allows
  (against the note at `vae_mlx.py:1063`); the exit code of ffmpeg is not looked
  at, so a truncated file is returned as a success; after a broken pipe one more
  tile is decoded and dropped. With `-shortest` (`vae_mlx.py:1108`) audio that is
  shorter than the video costs its last frames, and it usually is, being a whole
  number of tokens decoded to three mel frames less than four for each.

## Proofs

All theorems hold for every value of the constants: any sets of tasks, models,
threads, clients and tokens, any dependencies, trees, sizes, rates and bounds.
The assumptions are the named ASSUMEs of the modules, which TLC evaluates in
every run: sets that are counted are finite, limits are naturals, the values
that stand for "none" are none of the others. Each module of proofs has one
theorem that an invariant holds
initially and is kept by every action, one lemma per action, and the properties
as its consequences.

- `TaskSchedulerProofs`. `IInv` adds that `created` tells rows apart
  (`CreationOrder`), what a busy and a dead worker leave behind (`WorkerState`),
  and that the heap holds queued rows only (`HeapIsQueued`). Lemmas say what a
  sort, a query, a rebuild, a put and a pop do to a heap. That nothing queued is
  stranded is false in general; `NothingStranded` proves it as long as no more
  rows are queued than a rebuild reads. Under the same condition
  `NobodyIsOvertaken` proves `StartsInOrder`, with the invariant `VideosLast`
  that only videos are in the last band.
- `TaskSchedulerRefinement`. Every step is one of `TaskLifecycle` or changes
  neither a status nor the tasks in flight; `CancelHolds` is the action property
  that a cancelled task does not complete.
- `DownloadServiceProofs`. `DInv` adds which rows have no worker (`WorkersInv`),
  that a worker awaits at most one other and each model is awaited at most once
  (`CallersInv`), that a registered download of a model in flight is running
  (`RegistersInv`), and what the file says of rows that are new or over
  (`SavedInv`). One lemma covers all starts of a worker, one all ends, one the
  three ends of the process. `NoCircles` and `NoHalt` are what of `WorkersEnd` can
  be proved: a step adds at most one wait, for a worker that waits for nobody
  (`Waits`), so that no circle closes, and whoever the waiting ends with goes on.
- `LoraTrainingProofs`. `IInv` adds who names what (`Named`), that the server
  waits for a trainer only while its training is the one active task
  (`AwaitedInv`), that a thread about to report is not the one its manifest
  waits for (`ThreadInv`), that a worker result and a completed row come with a
  manifest unless nothing is left of the training (`ManifestInv`), that a result
  under removal is not of an open training (`DeletionInv`), and that every list
  of adapters, kept or held, is of published ones (`ListsInv`, `ListedInv`).
  `FewTrainers` is a count: an interruption adds at most one trainer to those
  left behind. `FollowsLifecycle` shows the rows to be those of a `TaskLifecycle`,
  handler by handler: a trainer or a thread reports on a task only while the
  invariant says that it is the active one. `CancelHolds` follows. `ResumeIsSafe`
  needs `DeletionInv`, as a continuation and a removal both ask for the row, and
  that whoever works on a training loses it with the directory (`FilesMove`).
- `TaskStreamProofs`. `IInv` adds that an open queue is that of the row's
  execution (`ExecutionInv`), that what a client has read is not newer than the
  row and, once over, is the row (`SeenInv`), and what it has sent at each point
  of its pass (`PassInv`), which is why the end of a stream shows the full
  progress however reports were dropped or taken by others. `ReportInv` says that
  the report known has caught up with the row when none is under way, and lies
  at most one behind whatever a client has read. `KeepsToLifecycle`
  is about the steps only, as a stream begins with a task that is queued.
- `ModelCacheProofs`. First the gigabytes of a set of keys. `Gb` is a fold,
  which the library defines by recursion over the set, and the induction
  theorems are out of the provers' reach. `Units` gives the sum another form,
  the number of pairs of a key and one of its gigabytes, whose laws are those
  of cardinalities (`UnitsOfUnion`). `GbIsUnits` shows the two equal: both
  satisfy the recursion, and a smallest set on which they differ would leave
  them equal on the set without the element the recursion takes away.
  `GbLemma` then says what the actions need: the sum of a part, of what is
  left, and of one more key. `IInv` adds that `older` is a transitive order of
  the cached keys (`Ordered`) and that a lone thread loads what is not cached
  (`Loading`), which is what `NothingDropped` rests on. `BudgetKept` is the
  hard one: `KeptLemma` shows that what a put keeps is closed under younger
  entries, so its oldest entry is the one whose condition bounds the whole
  sum. `Refinement` follows the place of each model through every action.
- `ConstrainedLmProofs`. `IInv` adds that what was injected and what is queued
  make up the user's value (`InjectionInv`), that fields are skipped only in the
  phase that writes none (`PhaseInv`), which fields are written before which
  (`ProgressInv`), and how codes are counted (`CodesInv`).
- `VideoDecodeProofs`. First the geometry: division lemmas, then that tiles
  follow each other with the same overlap, that the last one ends with the
  video, that no frame is reached by three tiles, and that two ramps add up to
  one (`Geometry`, `Masks`). `IInv` then says that the chunk held back is its
  tile with what the tiles before it contribute (`Held`) and that file, pipe
  and chunk continue one another (`Ordered`). `NoStandstill` proves of
  `DecodeEnds` that neither process waits for the other, on the condition that
  `video_hang` drops. `FinishesWhole` is the end of ffmpeg, by its input or by the
  audio. The run covers 36 configurations, the theorem every length, budget,
  rate and audio.

Only model-checked: liveness (`QueuedIsTaken`, `WorkersEnd`, `EvaluationsSettle`,
`StreamsEnd`, `Released`, `DecodeEnds`), as fairness and ENABLED are out of the
prover's reach. Every safety property of a passing run is a theorem, `HeapIsTheQueue` and
`StartsInOrder` under the condition above. Conversely `FollowsLifecycle`,
`KeepsToLifecycle`, `CancelHolds` of `LoraTraining`, `NoCircles`, `NoHalt` and
`NoStandstill` are proved and not part of a run.

## Not modelled

The models map a few percent of the repository's lines, and cannot map many
more: the bulk is tensor code in `engine/families/`, `engine/pipelines/` and
`engine/common/`, straight-line arithmetic over arrays whose correctness is
numerical; then routes that validate and pass on, static data with its loaders,
and the client. Of the parts with state or control of their own:

- The LLM sidecar: what start, stop and health check guarantee holds only if no
  two calls of `ensure_running` overlap and nothing crashes, and the code
  excludes neither (`sidecar_manager.py:78`); what is left is sequential.
- Canvas sessions: the routes are coroutines that call the store synchronously,
  so that each read-modify-write is atomic on the event loop.
- Batch install: requests to `DownloadService` in an order that its run covers,
  where requests come in any.
- In the downloads: `delete_model`, single LoRA files (no registration, no
  dependencies) and conversions.
- The spatial tiling of the Wan and Hunyuan decoders: loops over a grid without
  a generator or a process.
- Asset store, settings, catalogue, observability, command line, MCP bridge,
  bundle assembly, frontend and desktop shell: no state that the modelled parts
  decide on; `queue_image_first` is an action of the scheduler, and the desktop
  shell is `Crash` and `Shutdown`.
