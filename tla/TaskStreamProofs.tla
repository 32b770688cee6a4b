------------------------- MODULE TaskStreamProofs -------------------------
(***************************************************************************)
(* The invariants of TaskStream, for every set of clients, every number of *)
(* reports, lines and executions, and every size of the queue and a page.  *)
(***************************************************************************)
EXTENDS TaskStream, TLAPS

\* An execution is under way as long as its queue is open, and belongs to the row.
ExecutionInv ==
    /\ engine = "idle" <=> open = 0
    /\ open # 0 => open = row.run /\ row.status \in {"running", "cancelled"}
    /\ engine = "reporting" => row.progress >= 1
    /\ row.status = "running" => open # 0
    /\ row.status = "completed" => row.progress = Full

\* What a client has read is of the present execution or an earlier one, and once over
\* an execution changes no more.
SeenInv ==
    \A c \in Clients :
        /\ seen[c].run <= row.run
        /\ seen[c].status = "completed" => seen[c].progress = Full
        /\ seen[c].status \in {"completed", "failed"} /\ seen[c].run = row.run =>
               row = seen[c] \/ row.status = "absent"
        /\ row.status # "absent" => sent[c] <= logs

\* What a client has done of its present pass.
PassInv ==
    \A c \in Clients :
        /\ pc[c] = "status" \/ (pc[c] = "done" /\ seen[c].status # "absent") =>
               last[c] = seen[c].progress
        /\ pc[c] \in {"queue", "drain", "status", "done"}
              /\ seen[c].status \in {"completed", "failed"} /\ row = seen[c] =>
                  sent[c] = logs \/ page[c] = LogLimit
        /\ pc[c] = "taken" => held[c] # 0 /\ item[c] # 0

StreamInv == TypeOK /\ ExecutionInv /\ SeenInv /\ PassInv

\* What get_progress_meta returns has caught up with the row when no report is under way,
\* and lies at most one behind all that a client has read of the row.
ReportInv ==
    /\ row.kind = "training" => meta = None
    /\ row.kind = "other" => filed = None
    /\ row.status = "queued" => row.progress = 0
    /\ engine = "busy" =>
           \/ ProgressMeta = None \/ row.progress = 0
           \/ ProgressMeta.run = row.run /\ ProgressMeta.progress = row.progress
    /\ Fits(ProgressMeta, row)
    /\ \A c \in Clients :
           /\ seen[c].run = row.run => seen[c].progress <= row.progress
           /\ Fits(ProgressMeta, seen[c])
           /\ pc[c] = "status" => Fits(shown[c], seen[c])

IInv == StreamInv /\ ReportInv

\* No report is one.
LEMMA NoneLemma == None \in Reported
BY BoundsAssumption DEF None, Report, Reported

LEMMA InitLemma == Init => IInv
<1> SUFFICES ASSUME Init PROVE IInv
  OBVIOUS
<1> USE BoundsAssumption
<1>1. PICK k \in Kinds : row = Row(k, "queued", 0, 1)
  BY DEF Init
<1>2. row \in Rows
  BY <1>1 DEF Row, Rows
<1>3. TypeOK
  BY <1>2, NoneLemma DEF Init, TypeOK, TableTypes, QueueTypes, ExecutionTypes, ClientTypes
<1>4. ExecutionInv /\ SeenInv /\ PassInv
  BY <1>1, <1>2 DEF Init, ExecutionInv, SeenInv, PassInv, Row, Rows
<1>5. ReportInv
  BY <1>1, <1>2 DEF Init, ReportInv, ProgressMeta, Fits, Row, Rows
<1> QED
  BY <1>3, <1>4, <1>5 DEF IInv, StreamInv

\* A queue that has room takes a report.
LEMMA PutLemma ==
    ASSUME QueueTypes, NEW n \in 1..MaxRuns, NEW p \in 1..Full, Len(queues[n]) < QueueMax,
           queues' = [queues EXCEPT ![n] = Append(@, p)]
    PROVE  QueueTypes'
<1>1. queues[n] \in Seq(1..Full) /\ Len(queues[n]) \in Nat
  BY DEF QueueTypes
<1>2. Append(queues[n], p) \in Seq(1..Full) /\ Len(Append(queues[n], p)) = Len(queues[n]) + 1
  BY <1>1
<1>3. Len(Append(queues[n], p)) <= QueueMax
  BY <1>1, <1>2, BoundsAssumption
<1> QED
  BY <1>2, <1>3 DEF QueueTypes

\* A page brings a client up to date, or is full.
LEMMA PageLemma ==
    ASSUME NEW l \in Nat, NEW s \in Nat, NEW m \in Nat, s <= l
    PROVE  LET n == IF l > s THEN Least(l - s, m) ELSE 0
           IN  s + n <= l /\ (s + n = l \/ n = m)
BY DEF Least

\* What a client knows is as good as before when only the execution goes on.
LEMMA UntouchedLemma ==
    ASSUME SeenInv, PassInv, UNCHANGED <<table, clients>>
    PROVE  SeenInv' /\ PassInv'
<1>1. UNCHANGED <<row, logs, pc, seen, held, item, last, sent, page>>
  BY DEF table, clients
<1>2. SeenInv'
  BY <1>1 DEF SeenInv
<1>3. PassInv'
  BY <1>1 DEF PassInv
<1> QED
  BY <1>2, <1>3

\* A step of the execution or of a request: the clients stay where they are.
LEMMA BeginsStep == ASSUME StreamInv, Begins PROVE StreamInv'
<1> USE BoundsAssumption DEF StreamInv, Begins, clients
<1>1. row' = [kind |-> row.kind, status |-> "running", progress |-> 0, run |-> row.run]
  BY DEF TypeOK, TableTypes, QueueTypes, ExecutionTypes, ClientTypes, Rows
<1>2. TypeOK'
  <2>1. TableTypes'
    BY <1>1 DEF TypeOK, TableTypes, Rows
  <2>2. QueueTypes'
    BY <1>1 DEF TypeOK, QueueTypes
  <2>3. ExecutionTypes'
    BY <1>1 DEF TypeOK, ExecutionTypes, TableTypes, Rows
  <2>4. ClientTypes'
    BY <1>1 DEF TypeOK, ClientTypes, Rows
  <2> QED
    BY <2>1, <2>2, <2>3, <2>4 DEF TypeOK
<1>3. ExecutionInv'
  BY <1>1 DEF ExecutionInv, TypeOK, TableTypes, QueueTypes, ExecutionTypes, ClientTypes, Rows
<1>4. SeenInv'
  BY <1>1 DEF SeenInv, TypeOK, TableTypes, QueueTypes, ExecutionTypes, ClientTypes, Rows
<1>5. PassInv'
  BY <1>1 DEF PassInv
<1> QED
  BY <1>2, <1>3, <1>4, <1>5

LEMMA ProgressesStep == ASSUME StreamInv, Progresses PROVE StreamInv'
<1> USE BoundsAssumption DEF StreamInv, Progresses, clients
<1>1. row' = [kind |-> row.kind, status |-> row.status, progress |-> row.progress + 1, run |-> row.run]
  BY DEF TypeOK, TableTypes, QueueTypes, ExecutionTypes, ClientTypes, Rows
<1>2. row.status \in {"running", "cancelled"} /\ open # 0
  BY DEF ExecutionInv
<1>3. TypeOK'
  <2>1. TableTypes'
    BY <1>1 DEF TypeOK, TableTypes, Rows
  <2>2. QueueTypes'
    BY <1>1 DEF TypeOK, QueueTypes
  <2>3. ExecutionTypes'
    BY <1>1 DEF TypeOK, ExecutionTypes
  <2>4. ClientTypes'
    BY <1>1 DEF TypeOK, ClientTypes, Rows
  <2> QED
    BY <2>1, <2>2, <2>3, <2>4 DEF TypeOK
<1>4. ExecutionInv'
  BY <1>1, <1>2 DEF ExecutionInv, TypeOK, TableTypes, QueueTypes, ExecutionTypes, ClientTypes, Rows
<1>5. SeenInv'
  BY <1>1, <1>2 DEF SeenInv, TypeOK, TableTypes, QueueTypes, ExecutionTypes, ClientTypes, Rows
<1>6. PassInv'
  BY <1>1, <1>2 DEF PassInv
<1> QED
  BY <1>3, <1>4, <1>5, <1>6

LEMMA ReportsStep == ASSUME StreamInv, Reports PROVE StreamInv'
<1> USE BoundsAssumption DEF StreamInv, Reports, clients, table
<1>1. row.progress \in 1..Full
  BY DEF ExecutionInv, TypeOK, TableTypes, QueueTypes, ExecutionTypes, ClientTypes, Rows
<1>2. calls' \in Seq(1..Full) /\ meta' \in Reported
  BY <1>1 DEF TypeOK, TableTypes, ExecutionTypes, Rows, Report, Reported
<1>3. TypeOK'
  <2>1. TableTypes'
    BY <1>1, <1>2 DEF TypeOK, TableTypes, Rows
  <2>2. QueueTypes'
    BY <1>1, <1>2 DEF TypeOK, QueueTypes
  <2>3. ExecutionTypes'
    BY <1>1, <1>2 DEF TypeOK, ExecutionTypes
  <2>4. ClientTypes'
    BY <1>1, <1>2 DEF TypeOK, ClientTypes, Rows
  <2> QED
    BY <2>1, <2>2, <2>3, <2>4 DEF TypeOK
<1>4. ExecutionInv'
  BY DEF ExecutionInv
<1>5. SeenInv' /\ PassInv'
  BY UntouchedLemma
<1> QED
  BY <1>3, <1>4, <1>5

LEMMA FilesStep == ASSUME StreamInv, Files PROVE StreamInv'
<1>1. /\ engine = "reporting" /\ filed' = Report(row.run, row.progress) /\ engine' = "busy"
      /\ UNCHANGED <<table, meta, queues, open, calls, clients>>
  BY DEF Files
<1>2. TableTypes /\ QueueTypes /\ ExecutionTypes /\ ClientTypes
  BY DEF StreamInv, TypeOK
<1>3. filed' \in Reported
  BY <1>1, <1>2, BoundsAssumption DEF TableTypes, Rows, Report, Reported
<1>4. TableTypes' /\ QueueTypes' /\ ExecutionTypes' /\ ClientTypes'
  BY <1>1, <1>2, <1>3 DEF TableTypes, QueueTypes, ExecutionTypes, ClientTypes, table, clients
<1>5. ExecutionInv'
  BY <1>1 DEF StreamInv, ExecutionInv, table
<1>6. SeenInv' /\ PassInv'
  BY <1>1, UntouchedLemma DEF StreamInv
<1> QED
  BY <1>4, <1>5, <1>6 DEF StreamInv, TypeOK

LEMMA DeliversStep == ASSUME StreamInv, Delivers PROVE StreamInv'
<1> USE BoundsAssumption
<1>1. /\ calls # <<>> /\ calls' = Tail(calls)
      /\ queues' = IF open # 0 /\ Len(queues[open]) < QueueMax
                   THEN [queues EXCEPT ![open] = Append(@, Head(calls))]
                   ELSE queues
      /\ UNCHANGED <<table, meta, filed, open, engine, clients>>
  BY DEF Delivers
<1>2. TableTypes /\ QueueTypes /\ ExecutionTypes /\ ClientTypes
  BY DEF StreamInv, TypeOK
<1>3. Head(calls) \in 1..Full /\ calls' \in Seq(1..Full)
  BY <1>1, <1>2 DEF ExecutionTypes
<1>4. QueueTypes'
  <2>1. CASE open # 0 /\ Len(queues[open]) < QueueMax
    <3>1. open \in 1..MaxRuns
      BY <1>2, <2>1 DEF ExecutionTypes
    <3> QED
      BY <1>1, <1>2, <1>3, <2>1, <3>1, PutLemma
  <2>2. CASE ~(open # 0 /\ Len(queues[open]) < QueueMax)
    BY <1>1, <1>2, <2>2 DEF QueueTypes
  <2> QED
    BY <2>1, <2>2
<1>5. TableTypes'
  BY <1>1, <1>2 DEF TableTypes, table, Rows
<1>6. ExecutionTypes'
  BY <1>1, <1>2, <1>3 DEF ExecutionTypes
<1>7. ClientTypes'
  BY <1>1, <1>2 DEF ClientTypes, clients, Rows
<1>8. ExecutionInv'
  BY <1>1 DEF StreamInv, ExecutionInv, table
<1>9. SeenInv' /\ PassInv'
  BY <1>1, UntouchedLemma DEF StreamInv
<1> QED
  BY <1>4, <1>5, <1>6, <1>7, <1>8, <1>9 DEF StreamInv, TypeOK

LEMMA LogsStep == ASSUME StreamInv, Logs PROVE StreamInv'
<1> USE BoundsAssumption
<1>1. logs < MaxLogs /\ logs' = logs + 1 /\ engine = "busy" /\ UNCHANGED <<row, execution, clients>>
  BY DEF Logs
<1>2. TableTypes /\ QueueTypes /\ ExecutionTypes /\ ClientTypes
  BY DEF StreamInv, TypeOK
<1>3. row.status \in {"running", "cancelled"}
  BY <1>1 DEF StreamInv, ExecutionInv
<1>4. logs \in Nat /\ logs' \in 0..MaxLogs
  BY <1>1, <1>2 DEF TableTypes
<1>5. TableTypes'
  BY <1>1, <1>2, <1>4 DEF TableTypes, Rows
<1>6. QueueTypes' /\ ExecutionTypes'
  BY <1>1, <1>2 DEF QueueTypes, ExecutionTypes, execution
<1>7. ClientTypes'
  BY <1>1, <1>2 DEF ClientTypes, clients, Rows
<1>8. ExecutionInv'
  BY <1>1 DEF StreamInv, ExecutionInv, execution
<1>9. \A c \in Clients : sent[c] \in Nat
  BY <1>2 DEF ClientTypes
<1>10. SeenInv'
  BY <1>1, <1>4, <1>9 DEF StreamInv, SeenInv, clients
<1>11. PassInv'
  BY <1>1, <1>3 DEF StreamInv, PassInv, clients
<1> QED
  BY <1>5, <1>6, <1>7, <1>8, <1>10, <1>11 DEF StreamInv, TypeOK

\* The four ends of an execution or of a row leave it over, or gone.
LEMMA CompletesStep == ASSUME StreamInv, Completes PROVE StreamInv'
<1> USE BoundsAssumption DEF StreamInv, Completes, Closes, clients
<1>1. row' = [kind |-> row.kind, status |-> "completed", progress |-> Full, run |-> row.run]
  BY DEF TypeOK, TableTypes, QueueTypes, ExecutionTypes, ClientTypes, Rows
<1>2. TypeOK'
  <2>1. TableTypes'
    BY <1>1 DEF TypeOK, TableTypes, Rows, Final
  <2>2. QueueTypes'
    BY <1>1 DEF TypeOK, QueueTypes
  <2>3. ExecutionTypes'
    BY <1>1, NoneLemma DEF TypeOK, ExecutionTypes
  <2>4. ClientTypes'
    BY <1>1 DEF TypeOK, ClientTypes, Rows
  <2> QED
    BY <2>1, <2>2, <2>3, <2>4 DEF TypeOK
<1>3. ExecutionInv'
  BY <1>1 DEF ExecutionInv
<1>4. \A c \in Clients : seen[c].status \in {"completed", "failed"} => seen[c].run # row.run
  BY DEF SeenInv
<1>5. SeenInv'
  BY <1>1, <1>4 DEF SeenInv, TypeOK, TableTypes, QueueTypes, ExecutionTypes, ClientTypes, Rows
<1>6. PassInv'
  BY <1>1, <1>4 DEF PassInv
<1> QED
  BY <1>2, <1>3, <1>5, <1>6

LEMMA FailsStep == ASSUME StreamInv, Fails \/ Dies PROVE StreamInv'
<1> USE BoundsAssumption DEF StreamInv, clients
<1>0. /\ engine # "idle" /\ logs < MaxLogs
      /\ row' = [row EXCEPT !.status = "failed"] /\ logs' = logs + 1
      /\ filed' \in {filed, None} /\ meta' = None /\ open' = 0 /\ engine' = "idle"
      /\ UNCHANGED <<queues, clients>>
      /\ calls' = calls
  BY DEF Fails, Dies, Closes
<1>1. row' = [kind |-> row.kind, status |-> "failed", progress |-> row.progress, run |-> row.run]
  BY <1>0 DEF TypeOK, TableTypes, QueueTypes, ExecutionTypes, ClientTypes, Rows
<1>2. TypeOK'
  <2>1. TableTypes'
    BY <1>0, <1>1 DEF TypeOK, TableTypes, Rows, Final
  <2>2. QueueTypes'
    BY <1>0, <1>1 DEF TypeOK, QueueTypes
  <2>3. ExecutionTypes'
    BY <1>0, <1>1, NoneLemma DEF TypeOK, ExecutionTypes
  <2>4. ClientTypes'
    BY <1>0, <1>1 DEF TypeOK, ClientTypes, Rows
  <2> QED
    BY <2>1, <2>2, <2>3, <2>4 DEF TypeOK
<1>3. ExecutionInv'
  BY <1>0, <1>1 DEF ExecutionInv
<1>4. \A c \in Clients : seen[c].status \in {"completed", "failed"} => seen[c].run # row.run
  BY <1>0 DEF SeenInv, ExecutionInv
<1>5. SeenInv'
  <2>1. logs' = logs + 1 /\ UNCHANGED <<seen, sent>>
    BY <1>0
  <2>2. logs \in Nat /\ \A c \in Clients : sent[c] \in Nat
    BY DEF TypeOK, TableTypes, ClientTypes
  <2>3. \A c \in Clients : sent[c] <= logs'
    <3>1. row.status # "absent"
      BY <1>0 DEF ExecutionInv
    <3> QED
      BY <2>1, <2>2, <3>1 DEF SeenInv
  <2> QED
    BY <1>0, <1>1, <1>4, <2>1, <2>3 DEF SeenInv
<1>6. PassInv'
  BY <1>0, <1>1, <1>4 DEF PassInv
<1> QED
  BY <1>2, <1>3, <1>5, <1>6

LEMMA EndsCancelledStep == ASSUME StreamInv, EndsCancelled PROVE StreamInv'
<1> USE BoundsAssumption DEF StreamInv, EndsCancelled, Closes, clients, table
<1>1. TypeOK'
  <2>1. TableTypes'
    BY DEF TypeOK, TableTypes, Rows
  <2>2. QueueTypes'
    BY DEF TypeOK, QueueTypes
  <2>3. ExecutionTypes'
    BY NoneLemma DEF TypeOK, ExecutionTypes
  <2>4. ClientTypes'
    BY DEF TypeOK, ClientTypes, Rows
  <2> QED
    BY <2>1, <2>2, <2>3, <2>4 DEF TypeOK
<1>2. ExecutionInv'
  BY DEF ExecutionInv
<1> QED
  BY <1>1, <1>2 DEF SeenInv, PassInv

LEMMA CancelStep == ASSUME StreamInv, Cancel PROVE StreamInv'
<1> USE BoundsAssumption DEF StreamInv, Cancel, clients, execution
<1>1. row' = [kind |-> row.kind, status |-> "cancelled", progress |-> row.progress, run |-> row.run]
  BY DEF TypeOK, TableTypes, QueueTypes, ExecutionTypes, ClientTypes, Rows
<1>2. TypeOK'
  <2>1. TableTypes'
    BY <1>1 DEF TypeOK, TableTypes, Rows, Final
  <2>2. QueueTypes'
    BY <1>1 DEF TypeOK, QueueTypes
  <2>3. ExecutionTypes'
    BY <1>1 DEF TypeOK, ExecutionTypes
  <2>4. ClientTypes'
    BY <1>1 DEF TypeOK, ClientTypes, Rows
  <2> QED
    BY <2>1, <2>2, <2>3, <2>4 DEF TypeOK
<1>3. ExecutionInv'
  BY <1>1 DEF ExecutionInv
<1>4. SeenInv'
  BY <1>1 DEF SeenInv
<1>5. PassInv'
  BY <1>1 DEF PassInv
<1> QED
  BY <1>2, <1>3, <1>4, <1>5

LEMMA RequeueStep == ASSUME StreamInv, Requeue PROVE StreamInv'
<1> USE BoundsAssumption
<1>1. /\ row' = [kind |-> row.kind, status |-> "queued", progress |-> 0, run |-> row.run + 1]
      /\ engine = "idle" /\ row.status \in {"cancelled", "failed"}
      /\ row.run < MaxRuns /\ logs < MaxLogs
      /\ logs' = logs + 1 /\ meta' = None /\ open' = 0
      /\ UNCHANGED <<filed, queues, engine, calls, clients>>
  BY DEF Requeue, Row
<1>2. TableTypes /\ QueueTypes /\ ExecutionTypes /\ ClientTypes
  BY DEF StreamInv, TypeOK
<1>3. row.kind \in Kinds /\ row.run \in Nat /\ logs \in Nat
      /\ \A c \in Clients : seen[c].run \in Nat /\ sent[c] \in Nat
  BY <1>2 DEF TableTypes, ClientTypes, Rows
<1>4. TableTypes'
  <2>1. row' \in Rows
    BY <1>1, <1>2, <1>3 DEF TableTypes, Rows
  <2> QED
    BY <1>1, <1>3, <2>1 DEF TableTypes
<1>5. QueueTypes' /\ ExecutionTypes' /\ ClientTypes'
  BY <1>1, <1>2, NoneLemma DEF QueueTypes, ExecutionTypes, ClientTypes, clients
<1>6. ExecutionInv'
  BY <1>1 DEF StreamInv, ExecutionInv
<1>7. SeenInv'
  BY <1>1, <1>3 DEF StreamInv, SeenInv, clients
<1>8. PassInv'
  <2>1. \A c \in Clients : seen[c].status \in {"completed", "failed"} => row' # seen[c]
    BY <1>1
  <2> QED
    BY <1>1, <2>1 DEF StreamInv, PassInv, clients
<1> QED
  BY <1>4, <1>5, <1>6, <1>7, <1>8 DEF StreamInv, TypeOK

LEMMA DeleteStep == ASSUME StreamInv, Delete PROVE StreamInv'
<1> USE BoundsAssumption DEF StreamInv, Delete, clients
<1>1. row' = [kind |-> row.kind, status |-> "absent", progress |-> row.progress, run |-> row.run]
  BY DEF TypeOK, TableTypes, QueueTypes, ExecutionTypes, ClientTypes, Rows
<1>2. TypeOK'
  <2>1. TableTypes'
    BY <1>1 DEF TypeOK, TableTypes, Rows, Final
  <2>2. QueueTypes'
    BY <1>1 DEF TypeOK, QueueTypes
  <2>3. ExecutionTypes'
    BY <1>1, NoneLemma DEF TypeOK, ExecutionTypes
  <2>4. ClientTypes'
    BY <1>1 DEF TypeOK, ClientTypes, Rows
  <2> QED
    BY <2>1, <2>2, <2>3, <2>4 DEF TypeOK
<1>3. ExecutionInv'
  BY <1>1 DEF ExecutionInv
<1>4. SeenInv'
  BY <1>1 DEF SeenInv
<1>5. PassInv'
  BY <1>1 DEF PassInv
<1> QED
  BY <1>2, <1>3, <1>4, <1>5

---------------------------------------------------------------------------
(* The steps of a client.                                                  *)

LEMMA ReadsStep == ASSUME StreamInv, NEW c \in Clients, Reads(c) PROVE StreamInv'
<1> USE BoundsAssumption DEF StreamInv, Reads, Goes, table, execution
<1> DEFINE n == IF row.status # "absent" /\ logs > sent[c]
                THEN Least(logs - sent[c], LogLimit) ELSE 0
<1>1. /\ seen' = [seen EXCEPT ![c] = row]
      /\ sent' = [sent EXCEPT ![c] = @ + n] /\ page' = [page EXCEPT ![c] = n]
      /\ held' = [held EXCEPT ![c] = 0]
      /\ pc' = [pc EXCEPT ![c] = IF row.status = "absent" THEN "done" ELSE "queue"]
      /\ UNCHANGED <<table, execution, item, last, shown>>
  OBVIOUS
<1>2. n \in 0..LogLimit /\ sent[c] + n \in 0..MaxLogs
  <2>1. logs \in 0..MaxLogs /\ sent[c] \in 0..MaxLogs
    BY DEF TypeOK, TableTypes, ClientTypes
  <2> QED
    BY <2>1, BoundsAssumption DEF Least
<1>3. row.status # "absent" => sent[c] + n <= logs /\ (sent[c] + n = logs \/ n = LogLimit)
  <2>1. logs \in Nat /\ sent[c] \in Nat /\ LogLimit \in Nat
    BY DEF TypeOK, TableTypes, ClientTypes
  <2>2. row.status # "absent" => sent[c] <= logs
    BY DEF SeenInv
  <2> QED
    BY <2>1, <2>2, PageLemma
<1> HIDE DEF n
<1>4. TypeOK'
  <2>1. TableTypes'
    BY <1>1, <1>2 DEF TypeOK, TableTypes, Rows
  <2>2. QueueTypes'
    BY <1>1, <1>2 DEF TypeOK, QueueTypes
  <2>3. ExecutionTypes'
    BY <1>1, <1>2 DEF TypeOK, ExecutionTypes
  <2>4. ClientTypes'
    <3>1. row \in Rows
      BY DEF TypeOK, TableTypes
    <3>2. seen' \in [Clients -> Rows]
      BY <1>1, <3>1 DEF TypeOK, ClientTypes
    <3>3. sent' \in [Clients -> 0..MaxLogs] /\ page' \in [Clients -> 0..LogLimit]
      BY <1>1, <1>2 DEF TypeOK, ClientTypes
    <3> QED
      BY <1>1, <3>2, <3>3 DEF TypeOK, ClientTypes
  <2> QED
    BY <2>1, <2>2, <2>3, <2>4 DEF TypeOK
<1>5. SeenInv'
  <2>1. \A d \in Clients : d # c => seen'[d] = seen[d] /\ sent'[d] = sent[d]
    BY <1>1 DEF TypeOK, TableTypes, QueueTypes, ExecutionTypes, ClientTypes, Rows
  <2>2. seen'[c] = row /\ sent'[c] = sent[c] + n
    BY <1>1 DEF TypeOK, ClientTypes
  <2>3. row.run \in Nat
    BY DEF TypeOK, TableTypes, Rows
  <2> QED
    BY <1>1, <1>3, <2>1, <2>2, <2>3 DEF SeenInv, ExecutionInv
<1>6. PassInv'
  <2>1. \A d \in Clients : d # c =>
            /\ seen'[d] = seen[d] /\ sent'[d] = sent[d] /\ pc'[d] = pc[d] /\ page'[d] = page[d]
            /\ held'[d] = held[d]
    BY <1>1 DEF TypeOK, TableTypes, QueueTypes, ExecutionTypes, ClientTypes, Rows
  <2>2. /\ seen'[c] = row /\ sent'[c] = sent[c] + n /\ page'[c] = n
        /\ pc'[c] = IF row.status = "absent" THEN "done" ELSE "queue"
    BY <1>1 DEF TypeOK, TableTypes, QueueTypes, ExecutionTypes, ClientTypes, Rows
  <2> QED
    BY <1>1, <1>3, <2>1, <2>2 DEF PassInv
<1> QED
  BY <1>1, <1>4, <1>5, <1>6 DEF ExecutionInv

LEMMA LooksStep == ASSUME StreamInv, NEW c \in Clients, Looks(c) PROVE StreamInv'
<1> USE BoundsAssumption
<1>1. /\ pc[c] = "queue" /\ held' = [held EXCEPT ![c] = open] /\ pc' = [pc EXCEPT ![c] = "drain"]
      /\ UNCHANGED <<table, execution, seen, item, last, shown, sent, page>>
  BY DEF Looks, Goes
<1>2. TableTypes /\ QueueTypes /\ ExecutionTypes /\ ClientTypes
  BY DEF StreamInv, TypeOK
<1>3. TableTypes' /\ QueueTypes' /\ ExecutionTypes'
  BY <1>1, <1>2 DEF TableTypes, QueueTypes, ExecutionTypes, table, execution, Rows
<1>4. ClientTypes'
  BY <1>1, <1>2 DEF ClientTypes, ExecutionTypes
<1>6. PassInv'
  <2>1. \A d \in Clients : d # c => pc'[d] = pc[d] /\ held'[d] = held[d]
    BY <1>1, <1>2 DEF ClientTypes
  <2>2. pc'[c] = "drain" /\ held'[c] = open
    BY <1>1, <1>2 DEF ClientTypes
  <2> QED
    BY <1>1, <2>1, <2>2 DEF StreamInv, PassInv, table
<1>7. ExecutionInv' /\ SeenInv'
  BY <1>1 DEF StreamInv, ExecutionInv, SeenInv, table, execution
<1> QED
  BY <1>3, <1>4, <1>6, <1>7 DEF StreamInv, TypeOK

\* The head of a queue that is not empty, and what is left.
LEMMA WaitingLemma ==
    ASSUME StreamInv, NEW c \in Clients, Waiting(c),
           queues' = [queues EXCEPT ![held[c]] = Tail(@)]
    PROVE  /\ Head(queues[held[c]]) \in 1..Full
           /\ queues' \in [1..MaxRuns -> Seq(1..Full)]
           /\ \A n \in 1..MaxRuns : Len(queues'[n]) <= QueueMax
<1>1. held[c] \in 1..MaxRuns /\ queues[held[c]] \in Seq(1..Full) /\ queues[held[c]] # <<>>
  BY DEF StreamInv, TypeOK, TableTypes, QueueTypes, ExecutionTypes, ClientTypes, Rows, Waiting
<1>2. Head(queues[held[c]]) \in 1..Full /\ Tail(queues[held[c]]) \in Seq(1..Full)
      /\ Len(Tail(queues[held[c]])) <= QueueMax
  <2>1. Len(queues[held[c]]) <= QueueMax
    BY <1>1 DEF StreamInv, TypeOK, QueueTypes
  <2>2. Len(queues[held[c]]) \in Nat /\ Len(Tail(queues[held[c]])) = Len(queues[held[c]]) - 1
    BY <1>1
  <2>3. ASSUME NEW S, NEW q \in Seq(S), q # <<>> PROVE Head(q) \in S /\ Tail(q) \in Seq(S)
    BY <2>3
  <2>4. Head(queues[held[c]]) \in 1..Full /\ Tail(queues[held[c]]) \in Seq(1..Full)
    BY <1>1, <2>3
  <2> QED
    BY <2>1, <2>2, <2>4, BoundsAssumption
<1> QED
  BY <1>1, <1>2 DEF StreamInv, TypeOK, TableTypes, QueueTypes, ExecutionTypes, ClientTypes, Rows

LEMMA DrainsStep == ASSUME StreamInv, NEW c \in Clients, Drains(c) PROVE StreamInv'
<1> USE BoundsAssumption
<1>1. /\ pc[c] = "drain" /\ Waiting(c)
      /\ last' = [last EXCEPT ![c] = Head(queues[held[c]])]
      /\ queues' = [queues EXCEPT ![held[c]] = Tail(@)]
      /\ UNCHANGED <<row, logs, meta, filed, open, engine, calls, pc, seen, held, item, shown, sent, page>>
  BY DEF Drains, Sends, table
<1>2. TableTypes /\ QueueTypes /\ ExecutionTypes /\ ClientTypes
  BY DEF StreamInv, TypeOK
<1>3. QueueTypes'
  BY <1>1, WaitingLemma DEF QueueTypes
<1>4. PICK p \in 1..Full : last' = [last EXCEPT ![c] = p]
  BY <1>1, WaitingLemma
<1>5. TableTypes' /\ ExecutionTypes'
  BY <1>1, <1>2 DEF TableTypes, ExecutionTypes, Rows
<1>6. ClientTypes'
  BY <1>1, <1>2, <1>4 DEF ClientTypes
<1>7. PassInv'
  <2>1. \A d \in Clients : d # c => last'[d] = last[d]
    BY <1>1, <1>2 DEF ClientTypes
  <2> QED
    BY <1>1, <2>1 DEF StreamInv, PassInv
<1>8. ExecutionInv' /\ SeenInv'
  BY <1>1 DEF StreamInv, ExecutionInv, SeenInv
<1> QED
  BY <1>3, <1>5, <1>6, <1>7, <1>8 DEF StreamInv, TypeOK

LEMMA SendsRowStep == ASSUME StreamInv, NEW c \in Clients, SendsRow(c) PROVE StreamInv'
<1> USE BoundsAssumption DEF StreamInv, SendsRow, Sends, Goes, table, execution
<1>1. TypeOK'
  <2>1. TableTypes'
    BY DEF TypeOK, TableTypes, Rows
  <2>2. QueueTypes'
    BY DEF TypeOK, QueueTypes
  <2>3. ExecutionTypes'
    BY DEF TypeOK, ExecutionTypes
  <2>4. ClientTypes'
    <3>1. Readable \subseteq Reported
      BY NoneLemma DEF Readable, ProgressMeta, TypeOK, ExecutionTypes
    <3>2. PICK r \in Reported : shown' = [shown EXCEPT ![c] = r]
      BY <3>1
    <3>3. shown' \in [Clients -> Reported]
      BY <3>2 DEF TypeOK, ClientTypes
    <3>4. last' \in [Clients -> 0..Full] /\ pc' = [pc EXCEPT ![c] = "status"]
      BY DEF TypeOK, ClientTypes, Rows
    <3> QED
      BY <3>3, <3>4 DEF TypeOK, ClientTypes
  <2> QED
    BY <2>1, <2>2, <2>3, <2>4 DEF TypeOK
<1>2. PassInv'
  BY DEF PassInv, TypeOK, TableTypes, QueueTypes, ExecutionTypes, ClientTypes, Rows
<1> QED
  BY <1>1, <1>2 DEF ExecutionInv, SeenInv

LEMMA StatusStep == ASSUME StreamInv, NEW c \in Clients, Status(c) PROVE StreamInv'
<1> USE BoundsAssumption DEF StreamInv, Status, Goes, table, execution
<1>1. TypeOK'
  <2>1. TableTypes'
    BY DEF TypeOK, TableTypes, Rows
  <2>2. QueueTypes'
    BY DEF TypeOK, QueueTypes
  <2>3. ExecutionTypes'
    BY DEF TypeOK, ExecutionTypes
  <2>4. ClientTypes'
    BY NoneLemma DEF TypeOK, ClientTypes
  <2> QED
    BY <2>1, <2>2, <2>3, <2>4 DEF TypeOK
<1>2. PassInv'
  BY DEF PassInv, TypeOK, TableTypes, QueueTypes, ExecutionTypes, ClientTypes, Rows
<1> QED
  BY <1>1, <1>2 DEF ExecutionInv, SeenInv

LEMMA TakesStep == ASSUME StreamInv, NEW c \in Clients, Takes(c) PROVE StreamInv'
<1> USE BoundsAssumption
<1>1. /\ pc[c] = "wait" /\ Waiting(c)
      /\ item' = [item EXCEPT ![c] = Head(queues[held[c]])]
      /\ queues' = [queues EXCEPT ![held[c]] = Tail(@)]
      /\ pc' = [pc EXCEPT ![c] = "taken"]
      /\ UNCHANGED <<row, logs, meta, filed, open, engine, calls, seen, held, last, shown, sent, page>>
  BY DEF Takes, Goes, table
<1>2. TableTypes /\ QueueTypes /\ ExecutionTypes /\ ClientTypes
  BY DEF StreamInv, TypeOK
<1>3. QueueTypes'
  BY <1>1, WaitingLemma DEF QueueTypes
<1>4. PICK p \in 1..Full : item' = [item EXCEPT ![c] = p]
  BY <1>1, WaitingLemma
<1>5. TableTypes' /\ ExecutionTypes'
  BY <1>1, <1>2 DEF TableTypes, ExecutionTypes, Rows
<1>6. ClientTypes'
  BY <1>1, <1>2, <1>4 DEF ClientTypes
<1>7. PassInv'
  <2>1. \A d \in Clients : d # c => pc'[d] = pc[d] /\ item'[d] = item[d]
    BY <1>1, <1>2 DEF ClientTypes
  <2>2. pc'[c] = "taken" /\ item'[c] = p /\ held[c] # 0
    BY <1>1, <1>2, <1>4 DEF ClientTypes, Waiting
  <2>3. item'[c] # 0
    BY <2>2
  <2> QED
    BY <1>1, <2>1, <2>2, <2>3 DEF StreamInv, PassInv
<1>8. ExecutionInv' /\ SeenInv'
  BY <1>1 DEF StreamInv, ExecutionInv, SeenInv
<1> QED
  BY <1>3, <1>5, <1>6, <1>7, <1>8 DEF StreamInv, TypeOK

LEMMA PutsBackStep == ASSUME StreamInv, NEW c \in Clients, PutsBack(c) PROVE StreamInv'
<1> USE BoundsAssumption
<1>1. /\ pc[c] = "taken" /\ Len(queues[held[c]]) < QueueMax
      /\ queues' = [queues EXCEPT ![held[c]] = Append(@, item[c])]
      /\ item' = [item EXCEPT ![c] = 0]
      /\ pc' = [pc EXCEPT ![c] = "row"]
      /\ UNCHANGED <<row, logs, meta, filed, open, engine, calls, seen, held, last, shown, sent, page>>
  BY DEF PutsBack, Goes, table
<1>2. TableTypes /\ QueueTypes /\ ExecutionTypes /\ ClientTypes
  BY DEF StreamInv, TypeOK
<1>3. held[c] \in 1..MaxRuns /\ item[c] \in 1..Full
  <2>1. held[c] \in 0..MaxRuns /\ item[c] \in 0..Full
    BY <1>2 DEF ClientTypes
  <2>2. held[c] # 0 /\ item[c] # 0
    BY <1>1 DEF StreamInv, PassInv
  <2> QED
    BY <2>1, <2>2
<1>4. QueueTypes'
  BY <1>1, <1>2, <1>3, PutLemma
<1>5. TableTypes' /\ ExecutionTypes'
  BY <1>1, <1>2 DEF TableTypes, ExecutionTypes, Rows
<1>6. ClientTypes'
  BY <1>1, <1>2 DEF ClientTypes
<1>7. PassInv'
  <2>1. pc'[c] = "row" /\ \A d \in Clients : d # c => pc'[d] = pc[d] /\ item'[d] = item[d]
    BY <1>1, <1>2 DEF ClientTypes
  <2> QED
    BY <1>1, <2>1 DEF StreamInv, PassInv
<1>8. ExecutionInv' /\ SeenInv'
  BY <1>1 DEF StreamInv, ExecutionInv, SeenInv
<1> QED
  BY <1>4, <1>5, <1>6, <1>7, <1>8 DEF StreamInv, TypeOK

LEMMA OthersStep ==
    ASSUME StreamInv, NEW c \in Clients, Connect(c) \/ TimesOut(c) \/ Disconnects(c)
    PROVE  StreamInv'
<1> USE BoundsAssumption DEF StreamInv, Connect, TimesOut, Disconnects, Goes
<1>1. /\ \/ pc' = [pc EXCEPT ![c] = "row"]
         \/ pc' = [pc EXCEPT ![c] = "gone"]
      /\ \/ item' = item
         \/ item' = [item EXCEPT ![c] = 0] /\ pc' = [pc EXCEPT ![c] = "gone"]
      /\ UNCHANGED <<table, execution, seen, held, last, shown, sent, page>>
  OBVIOUS
<1>2. pc'[c] \in {"row", "gone"}
      /\ \A d \in Clients : d # c => pc'[d] = pc[d] /\ item'[d] = item[d]
  BY <1>1 DEF TypeOK, ClientTypes
<1>3. pc' \in [Clients -> {"off", "row", "queue", "drain", "status", "wait", "taken", "done",
                          "gone"}]
      /\ item' \in [Clients -> 0..Full]
  BY <1>1 DEF TypeOK, ClientTypes
<1>4. TypeOK'
  BY <1>1, <1>3 DEF TypeOK, TableTypes, QueueTypes, ExecutionTypes, ClientTypes, table, execution
<1>5. PassInv'
  BY <1>1, <1>2 DEF PassInv, table
<1> QED
  BY <1>1, <1>4, <1>5 DEF ExecutionInv, SeenInv, table, execution

LEMMA StreamStep == ASSUME StreamInv, [Next]_vars PROVE StreamInv'
<1>1. CASE UNCHANGED vars
  BY <1>1 DEF StreamInv, TypeOK, TableTypes, QueueTypes, ExecutionTypes, ClientTypes, ExecutionInv,
     SeenInv, PassInv, vars, table, execution, clients
<1>2. CASE Next
  BY <1>2, BeginsStep, ProgressesStep, ReportsStep, FilesStep, DeliversStep, LogsStep,
     CompletesStep, FailsStep, EndsCancelledStep, CancelStep, RequeueStep, DeleteStep, ReadsStep,
     LooksStep, DrainsStep, SendsRowStep, StatusStep, TakesStep, PutsBackStep, OthersStep
     DEF Next, Execution, Generator
<1> QED
  BY <1>1, <1>2

---------------------------------------------------------------------------
(* The reports that are shown.                                             *)

\* A client's step that reads nothing of the row and sends no report; other steps that
\* change neither the row nor the report.
LEMMA IdleLemma ==
    ASSUME ReportInv, UNCHANGED <<row, meta, filed, engine, seen>>,
           \A d \in Clients : pc'[d] = "status" => pc[d] = "status" /\ shown'[d] = shown[d]
    PROVE  ReportInv'
BY DEF ReportInv, ProgressMeta, Fits

\* A row that is cancelled, over or gone keeps its run and its progress, or is complete.
LEMMA OverLemma ==
    ASSUME IInv, UNCHANGED clients, row'.kind = row.kind, row'.run = row.run,
           row'.status # "queued", meta' \in {meta, None}, filed' \in {filed, None},
           row'.progress = row.progress \/ row' = [row EXCEPT !.status = "completed", !.progress = Full],
           row.status # "completed" \/ (meta' = None /\ filed' = None),
           engine' = "busy" => engine = "busy" /\ UNCHANGED <<meta, filed, row.progress>>
    PROVE  ReportInv'
<1>1. row \in Rows /\ \A c \in Clients : seen[c] \in Rows
  BY DEF IInv, StreamInv, TypeOK, TableTypes, ClientTypes
<1>2. UNCHANGED <<pc, seen, shown>>
  BY DEF clients
<1>3. ProgressMeta' \in {ProgressMeta, None}
  BY <1>1 DEF IInv, ReportInv, ProgressMeta, Rows, Kinds
<1>4. /\ row'.kind = "training" => meta' = None
      /\ row'.kind = "other" => filed' = None
  BY DEF IInv, ReportInv
<1>5. Fits(ProgressMeta', row')
  <2>1. CASE row'.progress = row.progress
    BY <1>3, <2>1 DEF IInv, ReportInv, Fits, ProgressMeta
  <2>2. CASE row' = [row EXCEPT !.status = "completed", !.progress = Full]
    BY <1>1, <2>2 DEF Fits, Rows
  <2> QED
    BY <2>1, <2>2
<1>6. row.progress \in Nat /\ row'.progress \in Nat /\ row'.progress >= row.progress
  <2>1. row.progress \in 0..Full /\ Full \in Nat
    BY <1>1, BoundsAssumption DEF Rows
  <2>2. row'.progress = row.progress \/ row'.progress = Full
    BY <1>1 DEF Rows
  <2> QED
    BY <2>1, <2>2
<1>7. ASSUME NEW c \in Clients
      PROVE  /\ seen[c].run = row'.run => seen[c].progress <= row'.progress
             /\ Fits(ProgressMeta', seen[c])
             /\ pc[c] = "status" => Fits(shown[c], seen[c])
  <2>1. seen[c].progress \in Nat
    BY <1>1 DEF Rows
  <2>2. Fits(None, seen[c])
    BY DEF Fits
  <2> QED
    BY <1>3, <1>6, <2>1, <2>2 DEF IInv, ReportInv
<1>8. engine' = "busy" =>
          \/ ProgressMeta' = None \/ row'.progress = 0
          \/ ProgressMeta'.run = row'.run /\ ProgressMeta'.progress = row'.progress
  BY DEF IInv, ReportInv, ProgressMeta
<1> QED
  BY <1>2, <1>4, <1>5, <1>7, <1>8 DEF ReportInv

\* A report of the present run is not behind anything that was read.
LEMMA FreshLemma ==
    ASSUME IInv, UNCHANGED <<row, clients>>, engine = "reporting", engine' = "busy",
           \/ row.kind = "other" /\ meta' = Report(row.run, row.progress) /\ filed' = filed
           \/ row.kind = "training" /\ filed' = Report(row.run, row.progress) /\ meta' = meta
    PROVE  ReportInv'
<1>1. row \in Rows /\ \A c \in Clients : seen[c] \in Rows
  BY DEF IInv, StreamInv, TypeOK, TableTypes, ClientTypes
<1>2. row.progress >= 1 /\ row.status # "queued"
  BY DEF IInv, StreamInv, ExecutionInv
<1>3. ProgressMeta' = Report(row.run, row.progress)
  BY <1>1, <1>2 DEF ProgressMeta, IInv, ReportInv, None, Report, Rows
<1>4. ProgressMeta'.run = row.run /\ ProgressMeta'.progress = row.progress
  BY <1>3 DEF Report
<1>5. \A c \in Clients : Fits(ProgressMeta', seen[c])
  <2>1. ASSUME NEW c \in Clients PROVE Fits(ProgressMeta', seen[c])
    <3>1. seen[c].run <= row.run /\ seen[c].run \in Nat /\ row.run \in Nat
      BY <1>1 DEF IInv, StreamInv, SeenInv, Rows
    <3>2. seen[c].progress \in Nat /\ row.progress \in Nat
      BY <1>1 DEF Rows
    <3>3. seen[c].run = row.run => row.progress + 1 >= seen[c].progress
      BY <3>2 DEF IInv, ReportInv
    <3> QED
      BY <1>4, <3>1, <3>3 DEF Fits
  <2> QED
    BY <2>1
<1>6. Fits(ProgressMeta', row)
  BY <1>1, <1>4 DEF Fits, Rows
<1>7. UNCHANGED <<pc, seen, shown>>
  BY DEF clients
<1> QED
  BY <1>1, <1>2, <1>4, <1>5, <1>6, <1>7 DEF IInv, ReportInv, Kinds, Rows

LEMMA ExecutionReports ==
    ASSUME IInv, Begins \/ Execution \/ Cancel \/ Requeue \/ Delete
    PROVE  ReportInv'
<1>1. row \in Rows /\ \A c \in Clients : seen[c] \in Rows
  BY DEF IInv, StreamInv, TypeOK, TableTypes, ClientTypes
<1>2. CASE Begins
  <2>1. /\ row' = [row EXCEPT !.status = "running", !.progress = 0] /\ row.progress = 0
        /\ UNCHANGED <<meta, filed, clients>>
    BY <1>2 DEF Begins, IInv, ReportInv
  <2>2. row'.kind = row.kind /\ row'.run = row.run /\ row'.progress = 0 /\ row'.status = "running"
    BY <1>1, <2>1 DEF Rows
  <2>3. UNCHANGED <<pc, seen, shown>>
    BY <2>1 DEF clients
  <2> QED
    BY <2>1, <2>2, <2>3 DEF IInv, ReportInv, ProgressMeta, Fits
<1>3. CASE Progresses
  <2>1. /\ row' = [row EXCEPT !.progress = @ + 1] /\ engine = "busy" /\ engine' = "reporting"
        /\ row.status # "queued"
        /\ UNCHANGED <<meta, filed, clients>>
    BY <1>3 DEF Progresses, IInv, StreamInv, ExecutionInv
  <2>2. /\ row'.kind = row.kind /\ row'.run = row.run /\ row'.progress = row.progress + 1
        /\ row'.status = row.status /\ row.progress \in Nat
    BY <1>1, <2>1 DEF Rows
  <2>3. UNCHANGED <<pc, seen, shown>>
    BY <2>1 DEF clients
  <2>4. Fits(ProgressMeta, row')
    BY <2>1, <2>2 DEF IInv, ReportInv, Fits
  <2>5. ProgressMeta' = ProgressMeta
    BY <2>1 DEF ProgressMeta
  <2>6. ASSUME NEW c \in Clients, seen[c].run = row'.run PROVE seen[c].progress <= row'.progress
    BY <1>1, <2>2, <2>6 DEF IInv, ReportInv, Rows
  <2>7. Fits(ProgressMeta', row')
    BY <2>4, <2>5
  <2>8. \A c \in Clients : Fits(ProgressMeta', seen[c])
    BY <2>5 DEF IInv, ReportInv
  <2> QED
    BY <2>1, <2>2, <2>3, <2>6, <2>7, <2>8 DEF IInv, ReportInv
<1>4. CASE Reports \/ Files
  BY <1>4, FreshLemma DEF Reports, Files, table
<1>5. CASE Delivers \/ Logs
  BY <1>5, IdleLemma DEF Delivers, Logs, IInv, table, execution, clients
<1>6. CASE Completes
  <2>1. row'.kind = row.kind /\ row'.run = row.run /\ row'.status = "completed"
    BY <1>1, <1>6 DEF Completes, Rows
  <2> QED
    BY <1>6, <2>1, OverLemma DEF Completes, Closes
<1>7. CASE Fails \/ Dies
  <2>1. /\ row'.kind = row.kind /\ row'.run = row.run /\ row'.status = "failed"
        /\ row'.progress = row.progress
    BY <1>1, <1>7 DEF Fails, Dies, Rows
  <2>2. row.status # "completed"
    BY <1>7 DEF Fails, Dies, IInv, StreamInv, ExecutionInv
  <2> QED
    BY <1>7, <2>1, <2>2, OverLemma DEF Fails, Dies, Closes
<1>8. CASE EndsCancelled
  BY <1>8, OverLemma DEF EndsCancelled, Closes, table
<1>9. CASE Cancel
  <2>1. /\ row'.kind = row.kind /\ row'.run = row.run /\ row'.status = "cancelled"
        /\ row'.progress = row.progress
    BY <1>1, <1>9 DEF Cancel, Rows
  <2> QED
    BY <1>9, <2>1, OverLemma DEF Cancel, execution
<1>10. CASE Requeue
  <2>1. /\ row.kind = "training" /\ row' = Row(row.kind, "queued", 0, row.run + 1)
        /\ engine' = "idle" /\ meta' = None /\ UNCHANGED <<filed, clients>>
    BY <1>10 DEF Requeue
  <2>2. row'.kind = "training" /\ row'.run = row.run + 1 /\ row'.progress = 0
    BY <2>1 DEF Row
  <2>3. UNCHANGED <<pc, seen, shown>>
    BY <2>1 DEF clients
  <2>4. ProgressMeta' = ProgressMeta
    BY <2>1 DEF ProgressMeta, IInv, ReportInv
  <2>5. \A c \in Clients : seen[c].run # row'.run
    <3>1. row.run \in Nat /\ \A c \in Clients : seen[c].run \in Nat
      BY <1>1 DEF Rows
    <3> QED
      BY <2>2, <3>1 DEF IInv, StreamInv, SeenInv
  <2>6. Fits(ProgressMeta', row')
    BY <2>2 DEF Fits
  <2>7. \A c \in Clients : Fits(ProgressMeta', seen[c])
    BY <2>4 DEF IInv, ReportInv
  <2> QED
    BY <2>1, <2>2, <2>3, <2>5, <2>6, <2>7 DEF IInv, ReportInv
<1>11. CASE Delete
  <2>1. /\ row'.kind = row.kind /\ row'.run = row.run /\ row'.status = "absent"
        /\ row'.progress = row.progress
    BY <1>1, <1>11 DEF Delete, Rows
  <2> QED
    BY <1>11, <2>1, OverLemma DEF Delete
<1> QED
  BY <1>2, <1>3, <1>4, <1>5, <1>6, <1>7, <1>8, <1>9, <1>10, <1>11 DEF Execution

LEMMA ClientReports ==
    ASSUME IInv, NEW c \in Clients, Connect(c) \/ Generator(c) \/ Disconnects(c)
    PROVE  ReportInv'
<1>1. ClientTypes
  BY DEF IInv, StreamInv, TypeOK
<1>2. CASE Reads(c)
  <2>1. /\ seen' = [seen EXCEPT ![c] = row] /\ UNCHANGED <<row, meta, filed, engine, shown>>
        /\ pc' = [pc EXCEPT ![c] = IF row.status = "absent" THEN "done" ELSE "queue"]
    BY <1>2 DEF Reads, Goes, table, execution
  <2>2. seen'[c] = row /\ pc'[c] # "status" /\ row.progress \in Nat
    BY <1>1, <2>1 DEF ClientTypes, IInv, StreamInv, TypeOK, TableTypes, Rows
  <2>3. \A d \in Clients : d # c => seen'[d] = seen[d] /\ pc'[d] = pc[d]
    BY <1>1, <2>1 DEF ClientTypes
  <2>4. ProgressMeta' = ProgressMeta
    BY <2>1 DEF ProgressMeta
  <2>5. ASSUME NEW d \in Clients
        PROVE  /\ seen'[d].run = row'.run => seen'[d].progress <= row'.progress
               /\ Fits(ProgressMeta', seen'[d])
               /\ pc'[d] = "status" => Fits(shown'[d], seen'[d])
    <3>1. CASE d = c
      BY <2>1, <2>2, <2>4, <3>1 DEF IInv, ReportInv
    <3>2. CASE d # c
      BY <2>1, <2>3, <2>4, <3>2 DEF IInv, ReportInv
    <3> QED
      BY <3>1, <3>2
  <2>6. Fits(ProgressMeta', row')
    BY <2>1, <2>4 DEF IInv, ReportInv
  <2> QED
    BY <2>1, <2>4, <2>5, <2>6 DEF IInv, ReportInv
<1>3. CASE SendsRow(c)
  <2>1. /\ UNCHANGED <<row, meta, filed, engine, seen>> /\ pc' = [pc EXCEPT ![c] = "status"]
        /\ \E r \in Readable : shown' = [shown EXCEPT ![c] = r]
    BY <1>3 DEF SendsRow, Goes, table, execution
  <2>2. Readable \subseteq {ProgressMeta, None}
    BY DEF Readable, ProgressMeta, IInv, ReportInv
  <2>3. shown'[c] \in {ProgressMeta, None}
    BY <1>1, <2>1, <2>2 DEF ClientTypes
  <2>4. \A d \in Clients : d # c => shown'[d] = shown[d] /\ pc'[d] = pc[d]
    BY <1>1, <2>1 DEF ClientTypes
  <2>5. Fits(shown'[c], seen[c])
    BY <2>3 DEF Fits, IInv, ReportInv
  <2>6. \A d \in Clients : pc'[d] = "status" => Fits(shown'[d], seen[d])
    BY <2>4, <2>5 DEF IInv, ReportInv
  <2>7. ProgressMeta' = ProgressMeta
    BY <2>1 DEF ProgressMeta
  <2>8. Fits(ProgressMeta', row') /\ \A d \in Clients : Fits(ProgressMeta', seen'[d])
    BY <2>1, <2>7 DEF IInv, ReportInv
  <2> QED
    BY <2>1, <2>6, <2>7, <2>8 DEF IInv, ReportInv
<1>4. CASE Connect(c) \/ Looks(c) \/ Drains(c) \/ Status(c) \/ Takes(c) \/ PutsBack(c)
              \/ TimesOut(c) \/ Disconnects(c)
  <2>1. UNCHANGED <<row, meta, filed, engine, seen>>
    BY <1>4 DEF Connect, Looks, Drains, Status, Takes, PutsBack, TimesOut, Disconnects, table,
       execution
  <2>2. \A d \in Clients : pc'[d] = "status" => pc[d] = "status" /\ shown'[d] = shown[d]
    BY <1>1, <1>4 DEF Connect, Looks, Drains, Status, Takes, PutsBack, TimesOut, Disconnects, Goes,
       ClientTypes
  <2> QED
    BY <2>1, <2>2, IdleLemma DEF IInv
<1> QED
  BY <1>2, <1>3, <1>4 DEF Generator

LEMMA NextLemma == ASSUME IInv, [Next]_vars PROVE IInv'
<1>1. StreamInv'
  BY StreamStep DEF IInv
<1>2. ReportInv'
  <2>1. CASE UNCHANGED vars
    BY <2>1, IdleLemma DEF IInv, vars, table, execution, clients
  <2>2. CASE Next
    BY <2>2, ExecutionReports, ClientReports DEF Next
  <2> QED
    BY <2>1, <2>2
<1> QED
  BY <1>1, <1>2 DEF IInv

\* The invariant that the others follow from.
THEOREM Invariance == Spec => []IInv
BY InitLemma, NextLemma, PTL DEF Spec

\* Every variable has its type: no queue exceeds its limit.
THEOREM TypeCorrect == Spec => []TypeOK
<1>1. IInv => TypeOK
  BY DEF IInv, StreamInv
<1> QED
  BY <1>1, Invariance, PTL

\* A stream that ends with the completion shows all of the progress last (tasks.py,
\* stream_task: the row is read before the queue is drained, and sent after it).
THEOREM FullAtTheEnd == Spec => []CompletedShowsFull
<1>1. IInv => CompletedShowsFull
  BY DEF IInv, StreamInv, CompletedShowsFull, SeenInv, PassInv
<1> QED
  BY <1>1, Invariance, PTL

\* A stream that ends has sent every line, or a full page (tasks.py, stream_task: the
\* logs are read after the row; task_scheduler.py, _execute: nothing is logged later).
THEOREM NoLogMissed == Spec => []LogsCaughtUp
<1>1. IInv => LogsCaughtUp
  BY DEF IInv, StreamInv, LogsCaughtUp, PassInv
<1> QED
  BY <1>1, Invariance, PTL

\* The report shown with the progress of a row lies at most one behind it (tasks.py,
\* stream_task: the row is read first; on_progress of task_scheduler.py and lora_worker.py:
\* the table is written first; requeue_task: the progress of a continued row is 0).
THEOREM ReportsInStep == Spec => []ReportFitsProgress
<1>1. IInv => ReportFitsProgress
  BY DEF IInv, ReportInv, ReportFitsProgress
<1> QED
  BY <1>1, Invariance, PTL

---------------------------------------------------------------------------
(* The row goes through the life of a task.                                *)

LStep == Lifecycle!Next \/ UNCHANGED Lifecycle!vars

\* The mapped variables, which say no more than the status and whether a queue is open.
State == [t \in {1} |-> row.status]
Active == IF open = 0 THEN {} ELSE {1}

LEMMA SameLemma == ASSUME row'.status = row.status, open' = open PROVE LStep
<1>1. State' = State /\ Active' = Active
  BY DEF State, Active
<1> QED
  BY <1>1 DEF LStep, Lifecycle!vars, State, Active

LEMMA LifecycleStep == ASSUME IInv, [Next]_vars PROVE LStep
<1> DEFINE to(st) == State' = [State EXCEPT ![1] = st]
<1>1. \A st : row'.status = st => to(st)
  BY DEF State
<1>2. row \in Rows /\ State[1] = row.status
  BY DEF IInv, StreamInv, TypeOK, TableTypes, State
<1> HIDE DEF to
<1>3. CASE Begins
  <2>1. Lifecycle!Begin(1)
    <3>1. to("running")
      BY <1>1, <1>2, <1>3 DEF Begins, Rows
    <3>2. open = 0 /\ open' # 0
      BY <1>2, <1>3, BoundsAssumption DEF Begins, Rows
    <3> QED
      BY <1>2, <1>3, <3>1, <3>2 DEF Lifecycle!Begin, Begins, to, State
  <2> QED
    BY <2>1 DEF LStep, Lifecycle!Next
<1>4. CASE Completes
  <2>1. Lifecycle!Complete(1)
    <3>1. to("completed")
      BY <1>1, <1>2, <1>4 DEF Completes, Rows
    <3>2. open # 0 /\ open' = 0
      BY <1>4 DEF IInv, StreamInv, ExecutionInv, Completes, Closes
    <3> QED
      BY <1>2, <1>4, <3>1, <3>2 DEF Lifecycle!Complete, Completes, to, State
  <2> QED
    BY <2>1 DEF LStep, Lifecycle!Next
<1>5. CASE Fails \/ Dies
  <2>1. Lifecycle!Stop(1, "failed")
    <3>1. to("failed")
      BY <1>1, <1>2, <1>5 DEF Fails, Dies, Rows
    <3>2. open # 0 /\ open' = 0
      BY <1>5 DEF IInv, StreamInv, ExecutionInv, Fails, Dies, Closes
    <3> QED
      BY <3>1, <3>2 DEF Lifecycle!Stop, to, State
  <2> QED
    BY <2>1 DEF LStep, Lifecycle!Next
<1>6. CASE EndsCancelled
  <2>1. Lifecycle!Stop(1, "cancelled")
    <3>1. to("cancelled")
      BY <1>1, <1>2, <1>6 DEF EndsCancelled, table
    <3>2. open # 0 /\ open' = 0
      BY <1>6 DEF IInv, StreamInv, ExecutionInv, EndsCancelled, Closes
    <3> QED
      BY <1>2, <1>6, <3>1, <3>2 DEF Lifecycle!Stop, EndsCancelled, to, State
  <2> QED
    BY <2>1 DEF LStep, Lifecycle!Next
<1>7. CASE Cancel
  <2>1. Lifecycle!Cancel(1)
    <3>1. to("cancelled") /\ open' = open
      BY <1>1, <1>2, <1>7 DEF Cancel, Rows, execution
    <3> QED
      BY <1>2, <1>7, <3>1 DEF Lifecycle!Cancel, Cancel, to, State
  <2> QED
    BY <2>1 DEF LStep, Lifecycle!Next
<1>8. CASE Requeue
  <2>1. Lifecycle!Requeue(1)
    <3>1. to("queued") /\ open' = open /\ open = 0
      BY <1>1, <1>8 DEF Requeue, Row, execution, IInv, StreamInv, ExecutionInv
    <3> QED
      BY <1>2, <1>8, <3>1 DEF Lifecycle!Requeue, Lifecycle!Done, Requeue, to, State
  <2> QED
    BY <2>1 DEF LStep, Lifecycle!Next
<1>9. CASE Delete
  <2>1. Lifecycle!Remove(1)
    <3>1. to("absent") /\ open' = open /\ open = 0
      BY <1>1, <1>2, <1>9 DEF Delete, Rows, IInv, StreamInv, ExecutionInv
    <3> QED
      BY <1>2, <1>9, <3>1 DEF Lifecycle!Remove, Lifecycle!Done, Delete, Final, to, State
  <2> QED
    BY <2>1 DEF LStep, Lifecycle!Next
<1>10. CASE Progresses
  <2>1. row'.status = row.status /\ open' = open
    BY <1>2, <1>10 DEF Progresses, Rows
  <2> QED
    BY <2>1, SameLemma
<1>11. CASE Reports \/ Files \/ Delivers \/ Logs \/ UNCHANGED vars
  BY <1>11, SameLemma DEF Reports, Files, Delivers, Logs, vars, table, execution
<1>12. ASSUME NEW c \in Clients, Connect(c) \/ Generator(c) \/ Disconnects(c)
       PROVE  LStep
  BY <1>12, SameLemma DEF Connect, Generator, Disconnects, Reads, Looks, Drains, SendsRow, Status,
     Takes, PutsBack, TimesOut, table, execution
<1> QED
  BY <1>3, <1>4, <1>5, <1>6, <1>7, <1>8, <1>9, <1>10, <1>11, <1>12 DEF Next, Execution

\* The row of a streamed task goes only through the steps the scheduler promises of a
\* task (task_scheduler.py, _execute and cancel; loras.py, continue_lora_training_task and
\* delete_training_result): the engine's thread brings no row that is over or gone back.
THEOREM KeepsToLifecycle == Spec => FollowsLifecycle
<1>1. IInv /\ [Next]_vars => LStep
  BY LifecycleStep
<1>2. LStep => [Lifecycle!Next]_(Lifecycle!vars)
  BY DEF LStep
<1> QED
  BY <1>1, <1>2, Invariance, PTL DEF Spec, FollowsLifecycle

===========================================================================
