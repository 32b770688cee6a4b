---------------------------- MODULE TaskStream ----------------------------
(***************************************************************************)
(* The event stream of one task: src/backend/api/routes/tasks.py,          *)
(* stream_task, against the execution that reports to it:                  *)
(* src/backend/scheduler/task_scheduler.py, _execute.                      *)
(*                                                                         *)
(* An engine is a thread: it writes progress and logs to the table and     *)
(* hands each report to the event loop, which puts it into the queue of    *)
(* the execution.  A training is a process: it writes the table too, and   *)
(* its report to a file, src/backend/engine/training/lora_worker.py.       *)
(* A client's generator suspends whenever it yields, so                    *)
(* each thing it sends is a step, and in asyncio.wait_for (of Python 3.11, *)
(* which the build uses) the item is taken by another coroutine than the   *)
(* one that puts it back.                                                  *)
(***************************************************************************)
EXTENDS Naturals, Sequences

CONSTANTS
    Clients,
    Full,        \* bound: the reports of an execution; this one says 1.0
    QueueMax,    \* maxsize of the queue
    LogLimit,    \* the logs a pass asks for
    MaxLogs,     \* bound: log lines
    MaxRuns      \* bound: executions

ASSUME BoundsAssumption ==
    /\ Full \in Nat \ {0} /\ QueueMax \in Nat \ {0} /\ LogLimit \in Nat \ {0}
    /\ MaxLogs \in Nat /\ MaxRuns \in Nat \ {0}

VARIABLES
    row,      \* kind, status and progress in the table, and the number of the execution
    logs,     \* how many lines the table has
    meta,     \* _progress_meta: the report an engine made known last, or None
    filed,    \* training_progress.json: the report a training made known last, or None
    queues,   \* the queue of each execution
    open,     \* the execution whose queue is in _realtime_queues, or 0
    engine,   \* what the thread or the process that does the work is doing
    calls,    \* reports handed to the event loop
    pc, seen, \* where each client's generator is; the row it read
    held,     \* the queue it uses, by its execution, or 0
    item,     \* what wait_for has taken out of it
    last,     \* the progress it sent last
    shown,    \* the report it has just sent with the progress of the row, or None
    sent,     \* how many log lines it sent
    page      \* the lines sent in its present pass

table == <<row, logs>>
execution == <<meta, filed, queues, open, engine, calls>>
clients == <<pc, seen, held, item, last, shown, sent, page>>
vars == <<table, execution, clients>>

Final == {"completed", "failed", "cancelled"}
Kinds == {"training", "other"}
Row(k, st, p, n) == [kind |-> k, status |-> st, progress |-> p, run |-> n]

\* A report: the execution that made it and how far that was.
Report(n, p) == [run |-> n, progress |-> p]
None == Report(0, 0)

Least(m, n) == IF m <= n THEN m ELSE n

Init ==
    /\ \E k \in Kinds : row = Row(k, "queued", 0, 1)
    /\ logs = 0
    /\ meta = None /\ filed = None /\ queues = [n \in 1..MaxRuns |-> <<>>] /\ open = 0
    /\ engine = "idle" /\ calls = <<>>
    /\ pc = [c \in Clients |-> "off"]
    /\ seen = [c \in Clients |-> row]
    /\ held = [c \in Clients |-> 0] /\ item = [c \in Clients |-> 0]
    /\ last = [c \in Clients |-> 0] /\ shown = [c \in Clients |-> None]
    /\ sent = [c \in Clients |-> 0] /\ page = [c \in Clients |-> 0]

---------------------------------------------------------------------------
(* The execution.                                                          *)

\* _execute up to the call of the engine.
Begins ==
    /\ row.status = "queued" /\ open = 0
    /\ row' = [row EXCEPT !.status = "running", !.progress = 0]
    /\ open' = row.run
    /\ engine' = "busy"
    /\ UNCHANGED <<logs, meta, filed, queues, calls, clients>>

\* on_progress: first the table ...
Progresses ==
    /\ engine = "busy"
    /\ row.status # "completed" /\ row.progress < Full
    /\ row' = [row EXCEPT !.progress = @ + 1]
    /\ engine' = "reporting"
    /\ UNCHANGED <<logs, meta, filed, queues, open, calls, clients>>

\* ... then the rest, for an engine in memory and to the event loop ...
Reports ==
    /\ engine = "reporting" /\ row.kind = "other"
    /\ meta' = Report(row.run, row.progress)
    /\ calls' = Append(calls, row.progress)
    /\ engine' = "busy"
    /\ UNCHANGED <<table, filed, queues, open, clients>>

\* ... and for a training, in its file.
Files ==
    /\ engine = "reporting" /\ row.kind = "training"
    /\ filed' = Report(row.run, row.progress)
    /\ engine' = "busy"
    /\ UNCHANGED <<table, meta, queues, open, calls, clients>>

\* _put_rt on the event loop, which drops what does not fit.
Delivers ==
    /\ calls # <<>>
    /\ calls' = Tail(calls)
    /\ queues' = IF open # 0 /\ Len(queues[open]) < QueueMax
                 THEN [queues EXCEPT ![open] = Append(@, Head(calls))]
                 ELSE queues
    /\ UNCHANGED <<table, meta, filed, open, engine, clients>>

Logs ==
    /\ engine = "busy" /\ logs < MaxLogs
    /\ logs' = logs + 1
    /\ UNCHANGED <<row, execution, clients>>

\* The end of _execute.  What the thread handed over came before its return.
Closes == meta' = None /\ open' = 0 /\ engine' = "idle" /\ UNCHANGED <<queues, calls>>

Completes ==
    /\ engine = "busy" /\ calls = <<>>
    /\ row.status = "running"
    /\ row' = [row EXCEPT !.status = "completed", !.progress = Full]
    /\ Closes
    /\ UNCHANGED <<logs, filed, clients>>

\* The engine raises an error, which is logged, whether or not the task was cancelled.
Fails ==
    /\ engine = "busy" /\ calls = <<>> /\ logs < MaxLogs
    /\ row' = [row EXCEPT !.status = "failed"]
    /\ logs' = logs + 1
    /\ Closes
    /\ UNCHANGED <<filed, clients>>

\* The process of a training is killed while it writes its report.
Dies ==
    /\ engine = "reporting" /\ row.kind = "training" /\ logs < MaxLogs
    /\ row' = [row EXCEPT !.status = "failed"]
    /\ logs' = logs + 1
    /\ filed' \in {filed, None}
    /\ Closes
    /\ UNCHANGED clients

EndsCancelled ==
    /\ engine = "busy" /\ calls = <<>>
    /\ row.status = "cancelled"
    /\ Closes
    /\ UNCHANGED <<table, filed, clients>>

Cancel ==
    /\ row.status \in {"queued", "running"}
    /\ row' = [row EXCEPT !.status = "cancelled"]
    /\ UNCHANGED <<logs, execution, clients>>

\* Mutant: a continued training keeps the progress of the run before.
RequeuesFurther ==
    /\ row.kind = "training" /\ row.status \in {"cancelled", "failed"} /\ engine = "idle"
    /\ row.run < MaxRuns /\ logs < MaxLogs
    /\ row' = Row(row.kind, "queued", row.progress, row.run + 1)
    /\ logs' = logs + 1
    /\ meta' = None /\ open' = 0
    /\ UNCHANGED <<filed, queues, engine, calls, clients>>

\* continue_lora_training of a training that is over, which says so in the logs and
\* leaves the file of the run before.
Requeue ==
    /\ row.kind = "training" /\ row.status \in {"cancelled", "failed"} /\ engine = "idle"
    /\ row.run < MaxRuns /\ logs < MaxLogs
    /\ row' = Row(row.kind, "queued", 0, row.run + 1)
    /\ logs' = logs + 1
    /\ meta' = None /\ open' = 0
    /\ UNCHANGED <<filed, queues, engine, calls, clients>>

\* delete_training_result, of a task that is over, and its delete_task.
Delete ==
    /\ row.status \in Final /\ engine = "idle"
    /\ row' = [row EXCEPT !.status = "absent"]
    /\ logs' = 0 /\ meta' = None /\ filed' = None /\ open' = 0
    /\ UNCHANGED <<queues, engine, calls, clients>>

---------------------------------------------------------------------------
(* The generator of a client.                                              *)

Goes(c, to) == pc' = [pc EXCEPT ![c] = to]
Sends(c, p) == last' = [last EXCEPT ![c] = p]

Connect(c) ==
    /\ pc[c] = "off"
    /\ Goes(c, "row")
    /\ UNCHANGED <<table, execution, seen, held, item, last, shown, sent, page>>

\* Mutant: a task that is gone is taken for one that is not there yet.
ReadsPatiently(c) ==
    /\ pc[c] = "row" /\ row.status # "absent"
    /\ seen' = [seen EXCEPT ![c] = row]
    /\ Goes(c, "queue")
    /\ LET n == IF logs > sent[c] THEN Least(logs - sent[c], LogLimit) ELSE 0
       IN  sent' = [sent EXCEPT ![c] = @ + n] /\ page' = [page EXCEPT ![c] = n]
    /\ held' = [held EXCEPT ![c] = 0]
    /\ UNCHANGED <<table, execution, item, last, shown>>

\* Mutant: a task that is over has its logs already.
ReadsRunning(c) ==
    /\ pc[c] = "row"
    /\ seen' = [seen EXCEPT ![c] = row]
    /\ Goes(c, IF row.status = "absent" THEN "done" ELSE "queue")
    /\ LET n == IF row.status \notin Final \cup {"absent"} /\ logs > sent[c]
                THEN Least(logs - sent[c], LogLimit) ELSE 0
       IN  sent' = [sent EXCEPT ![c] = @ + n] /\ page' = [page EXCEPT ![c] = n]
    /\ held' = [held EXCEPT ![c] = 0]
    /\ UNCHANGED <<table, execution, item, last, shown>>

\* The row and a page of logs.
Reads(c) ==
    /\ pc[c] = "row"
    /\ seen' = [seen EXCEPT ![c] = row]
    /\ Goes(c, IF row.status = "absent" THEN "done" ELSE "queue")
    /\ LET n == IF row.status # "absent" /\ logs > sent[c]
                THEN Least(logs - sent[c], LogLimit) ELSE 0
       IN  sent' = [sent EXCEPT ![c] = @ + n] /\ page' = [page EXCEPT ![c] = n]
    /\ held' = [held EXCEPT ![c] = 0]
    /\ UNCHANGED <<table, execution, item, last, shown>>

\* The logs are sent; the queue is looked up.
Looks(c) ==
    /\ pc[c] = "queue"
    /\ held' = [held EXCEPT ![c] = open]
    /\ Goes(c, "drain")
    /\ UNCHANGED <<table, execution, seen, item, last, shown, sent, page>>

Waiting(c) == held[c] # 0 /\ queues[held[c]] # <<>>

Drains(c) ==
    /\ pc[c] = "drain" /\ Waiting(c)
    /\ Sends(c, Head(queues[held[c]]))
    /\ queues' = [queues EXCEPT ![held[c]] = Tail(@)]
    /\ UNCHANGED <<table, meta, filed, open, engine, calls, pc, seen, held, item, shown, sent, page>>

\* get_progress_meta; a file that is being written is not one of JSON.
ProgressMeta == IF meta # None THEN meta ELSE filed
Readable == IF engine = "reporting" /\ row.kind = "training" THEN {filed, None} ELSE {ProgressMeta}

\* The progress of the row, with the report made known last.
SendsRow(c) ==
    /\ pc[c] = "drain" /\ ~Waiting(c)
    /\ Sends(c, seen[c].progress)
    /\ \E r \in Readable : shown' = [shown EXCEPT ![c] = r]
    /\ Goes(c, "status")
    /\ UNCHANGED <<table, execution, seen, held, item, sent, page>>

\* Mutant: the status is read again when it is sent.
StatusReread(c) ==
    /\ pc[c] = "status"
    /\ Goes(c, IF row.status \in Final THEN "done" ELSE "wait")
    /\ seen' = [seen EXCEPT ![c] = row]
    /\ shown' = [shown EXCEPT ![c] = None]
    /\ UNCHANGED <<table, execution, held, item, last, sent, page>>

Status(c) ==
    /\ pc[c] = "status"
    /\ Goes(c, IF seen[c].status \in Final THEN "done" ELSE "wait")
    /\ shown' = [shown EXCEPT ![c] = None]
    /\ UNCHANGED <<table, execution, seen, held, item, last, sent, page>>

\* wait_for of 0.3 seconds, or the sleep of 0.1: an item is taken ...
Takes(c) ==
    /\ pc[c] = "wait" /\ Waiting(c)
    /\ item' = [item EXCEPT ![c] = Head(queues[held[c]])]
    /\ queues' = [queues EXCEPT ![held[c]] = Tail(@)]
    /\ Goes(c, "taken")
    /\ UNCHANGED <<table, meta, filed, open, engine, calls, seen, held, last, shown, sent, page>>

\* ... and put back, for which the generator waits until there is room ...
PutsBack(c) ==
    /\ pc[c] = "taken" /\ Len(queues[held[c]]) < QueueMax
    /\ queues' = [queues EXCEPT ![held[c]] = Append(@, item[c])]
    /\ item' = [item EXCEPT ![c] = 0]
    /\ Goes(c, "row")
    /\ UNCHANGED <<table, meta, filed, open, engine, calls, seen, held, last, shown, sent, page>>

\* ... or none comes.
TimesOut(c) ==
    /\ pc[c] = "wait" /\ ~Waiting(c)
    /\ Goes(c, "row")
    /\ UNCHANGED <<table, execution, seen, held, item, last, shown, sent, page>>

Disconnects(c) ==
    /\ pc[c] \notin {"off", "done", "gone"}
    /\ Goes(c, "gone")
    /\ item' = [item EXCEPT ![c] = 0]
    /\ UNCHANGED <<table, execution, seen, held, last, shown, sent, page>>

---------------------------------------------------------------------------
Execution ==
    Progresses \/ Reports \/ Files \/ Delivers \/ Logs \/ Completes \/ Fails \/ Dies
        \/ EndsCancelled
Generator(c) ==
    Reads(c) \/ Looks(c) \/ Drains(c) \/ SendsRow(c) \/ Status(c) \/ Takes(c) \/ PutsBack(c)
        \/ TimesOut(c)

Next ==
    \/ Begins \/ Execution
    \/ Cancel \/ Requeue \/ Delete
    \/ \E c \in Clients : Connect(c) \/ Generator(c) \/ Disconnects(c)

Spec == Init /\ [][Next]_vars

\* The loop runs every coroutine that can go on.
Fairness == \A c \in Clients : WF_vars(Generator(c))
FairSpec == Spec /\ Fairness

---------------------------------------------------------------------------
(* Properties.                                                             *)

\* The task of the stream among the tasks of the scheduler.
Lifecycle == INSTANCE TaskLifecycle WITH
    Tasks <- {1},
    state <- [t \in {1} |-> row.status],
    active <- IF open = 0 THEN {} ELSE {1}

\* What happens to the row is what the scheduler promises of a task.
FollowsLifecycle == [][Lifecycle!Next]_(Lifecycle!vars)

Rows == [kind : Kinds, status : {"queued", "running", "absent", "completed", "failed", "cancelled"},
         progress : 0..Full, run : 1..MaxRuns]
Reported == [run : 0..MaxRuns, progress : 0..Full]

TableTypes == row \in Rows /\ logs \in 0..MaxLogs

QueueTypes ==
    queues \in [1..MaxRuns -> Seq(1..Full)] /\ \A n \in 1..MaxRuns : Len(queues[n]) <= QueueMax

ExecutionTypes ==
    /\ meta \in Reported /\ filed \in Reported /\ open \in 0..MaxRuns
    /\ engine \in {"idle", "busy", "reporting"} /\ calls \in Seq(1..Full)

ClientTypes ==
    /\ pc \in [Clients -> {"off", "row", "queue", "drain", "status", "wait", "taken", "done",
                           "gone"}]
    /\ seen \in [Clients -> Rows]
    /\ held \in [Clients -> 0..MaxRuns] /\ item \in [Clients -> 0..Full]
    /\ last \in [Clients -> 0..Full] /\ shown \in [Clients -> Reported]
    /\ sent \in [Clients -> 0..MaxLogs]
    /\ page \in [Clients -> 0..LogLimit]

\* Every variable has its type, and no queue exceeds its limit.
TypeOK == TableTypes /\ QueueTypes /\ ExecutionTypes /\ ClientTypes

\* A client that is told of the completion was last shown all of the progress, however
\* many reports were dropped, taken by another client or put back out of order.
CompletedShowsFull ==
    \A c \in Clients : pc[c] = "done" /\ seen[c].status = "completed" => last[c] = Full

\* A client that is told of the end has every line that was written before it, the error
\* among them, unless its last page was full.
LogsCaughtUp ==
    \A c \in Clients :
        pc[c] = "done" /\ seen[c].status \in {"completed", "failed"} /\ row = seen[c] =>
            sent[c] = logs \/ page[c] = LogLimit

\* A report is at most one behind a row, or of a later execution; the progress of a row
\* that is completed is no report.
Fits(r, seenRow) ==
    \/ r = None \/ seenRow.status = "completed" \/ seenRow.progress <= 1
    \/ r.run > seenRow.run
    \/ r.run = seenRow.run /\ r.progress + 1 >= seenRow.progress

\* With the progress of a row a client is shown no report that lies more than one behind
\* it, however many actors come between the two reads: in particular the report of a run
\* before, which a continued training leaves in its file, is shown only until the present
\* run has filed its first.
ReportFitsProgress == \A c \in Clients : pc[c] = "status" => Fits(shown[c], seen[c])

\* A generator that has taken an item out of a queue that was refilled to its limit.
Stuck(c) == pc[c] = "taken" /\ Len(queues[held[c]]) = QueueMax

\* Every stream of a task that is over, or gone, ends, but that of a generator that can
\* never put back what it took.
StreamsEnd ==
    \A c \in Clients :
        (pc[c] \notin {"off", "gone"} /\ row.status \in Final \cup {"absent"})
            ~> (pc[c] \in {"done", "gone"} \/ row.status \in {"queued", "running"}
                    \/ []Stuck(c))

===========================================================================
