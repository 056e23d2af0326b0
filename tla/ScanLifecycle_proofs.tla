----------------------- MODULE ScanLifecycle_proofs -----------------------
(***************************************************************************)
(* What holds of ScanLifecycle for any number of scans, clients, workers,  *)
(* requests and faults, on either database.                                *)
(***************************************************************************)
EXTENDS ScanLifecycle, TLAPS

-----------------------------------------------------------------------------
(* Type correctness *)

LEMMA InitTypeOK == Init => TypeOK
<1> SUFFICES ASSUME Init PROVE TypeOK
  OBVIOUS
<1>1. RowsOK /\ StoresOK /\ CountersOK
  BY DEF Init, RowsOK, StoresOK, CountersOK, Stages
<1>2. RequestsOK
  BY DEF Init, RequestsOK, IdleRequest, Requests, RequestSteps
<1>3. TasksOK
  BY DEF Init, TasksOK, IdleWorker, Tasks, WorkerSteps, Trying
<1>4. QED
  BY <1>1, <1>2, <1>3 DEF TypeOK

LEMMA RecordOK ==
  ASSUME RowsOK, NEW s \in Scans, NEW st \in Live \cup Terminal, NEW stage \in Stages,
         Record(s, st, stage)
  PROVE  /\ status' \in [Scans -> Live \cup Terminal \cup {"absent", "deleted"}]
         /\ log' \in [Scans -> Seq(Stages)]
  BY DEF RowsOK, Record

\* A session that leaves the status out of its UPDATE still adds the event.
LEMMA RecordIfCases ==
  ASSUME NEW changes, NEW s, NEW st, NEW stage, RecordIf(changes, s, st, stage)
  PROVE  \/ Record(s, st, stage)
         \/ ~changes /\ log' = [log EXCEPT ![s] = Append(@, stage)] /\ UNCHANGED status
<1>1. CASE changes
  BY <1>1 DEF RecordIf
<1>2. CASE ~changes
  BY <1>2 DEF RecordIf
<1>3. QED
  BY <1>1, <1>2

LEMMA RecordIfOK ==
  ASSUME RowsOK, NEW s \in Scans, NEW st \in Live \cup Terminal, NEW stage \in Stages,
         NEW changes, RecordIf(changes, s, st, stage), UNCHANGED <<key, origin>>
  PROVE  RowsOK'
<1>1. CASE Record(s, st, stage)
  BY <1>1, RecordOK DEF RowsOK
<1>2. CASE log' = [log EXCEPT ![s] = Append(@, stage)] /\ UNCHANGED status
  BY <1>2 DEF RowsOK
<1>3. QED
  BY <1>1, <1>2, RecordIfCases

LEMMA LeaveOK ==
  ASSUME RequestsOK, NEW c \in Clients, Leave(c)
  PROVE  RequestsOK'
  BY DEF RequestsOK, Leave, IdleRequest, Requests, RequestSteps

LEMMA InsertRowOK ==
  ASSUME RowsOK, RequestsOK, NEW c \in Clients, NEW s \in Scans, NEW k \in Keys \cup {None},
         NEW action \in {"create", "rescan"}, InsertRow(c, s, k, action)
  PROVE  RowsOK' /\ RequestsOK'
<1>1. RowsOK'
  <2>1. /\ status' \in [Scans -> Live \cup Terminal \cup {"absent", "deleted"}]
        /\ log' \in [Scans -> Seq(Stages)]
    BY RecordOK DEF InsertRow, Live, Stages
  <2>2. QED
    BY <2>1 DEF InsertRow, RowsOK
<1>2. RequestsOK'
  BY DEF RequestsOK, InsertRow, IdleRequest, Requests, RequestSteps
<1>3. QED
  BY <1>1, <1>2

LEMMA GotoOK ==
  ASSUME TasksOK, NEW w \in Workers, worker[w].step # "idle", cbom' = cbom,
         NEW step \in WorkerSteps \ {"reply", "ingest"}, Goto(w, step)
  PROVE  TasksOK'
  BY DEF TasksOK, Goto, Tasks

LEMMA LoadOK ==
  ASSUME TasksOK, NEW w \in Workers, worker[w].step # "idle", cbom' = cbom,
         NEW step \in WorkerSteps \ {"reply", "ingest"}, NEW changes \in BOOLEAN,
         Load(w, step, changes)
  PROVE  TasksOK'
  BY DEF TasksOK, Load, Tasks

LEMMA SeenOK ==
  ASSUME TasksOK, NEW w \in Workers, worker[w].step # "idle", cbom' = cbom,
         NEW step \in WorkerSteps \ {"reply", "ingest"}, NEW n \in Nat,
         worker' = [worker EXCEPT ![w].step = step, ![w].seen = n]
  PROVE  TasksOK'
  BY DEF TasksOK, Tasks

LEMMA ScanningEventOK ==
  ASSUME RowsOK, NEW s \in Scans, log' = [log EXCEPT ![s] = Append(@, "scanning")],
         UNCHANGED <<status, key, origin>>
  PROVE  RowsOK'
  BY DEF RowsOK, Stages

LEMMA RequestTypeOK ==
  ASSUME TypeOK, NEW c \in Clients, RequestStep(c)
  PROVE  TypeOK'
<1> USE DEF TypeOK
<1>0. request[c] \in Requests /\ (request[c].step # "idle" => request[c].scan \in Scans)
  BY DEF RequestsOK
<1>1. CASE CreateInsert(c)
  <2>1. RowsOK' /\ RequestsOK'
    BY <1>0, <1>1, InsertRowOK, LeaveOK DEF CreateInsert, Requests, RowsOK, db, rows
  <2>2. QED
    BY <1>1, <2>1 DEF CreateInsert, InsertRow, StoresOK, CountersOK, TasksOK, db, rows, scanner, env
<1>2. CASE Dispatch(c)
  <2>1. RequestsOK'
    BY <1>0, <1>2, LeaveOK DEF Dispatch, RequestsOK, Requests, RequestSteps
  <2>2. ready' \in [Scans -> Nat]
    BY <1>0, <1>2 DEF Dispatch, StoresOK
  <2>3. QED
    BY <1>2, <2>1, <2>2 DEF Dispatch, RowsOK, StoresOK, CountersOK, TasksOK, db, rows, scanner, env
<1>3. CASE FailDispatch(c)
  <2>1. RequestsOK'
    BY <1>3, LeaveOK DEF FailDispatch
  <2>2. RowsOK'
    BY <1>0, <1>3, RecordOK DEF FailDispatch, RowsOK, rows, Terminal, Stages
  <2>3. QED
    BY <1>3, <2>1, <2>2 DEF FailDispatch, StoresOK, CountersOK, TasksOK, rows, scanner, env
<1>4. CASE CancelCommit(c)
  <2>1. RequestsOK'
    BY <1>4, LeaveOK DEF CancelCommit
  <2>2. RowsOK'
    BY <1>0, <1>4, RecordOK DEF CancelCommit, RowsOK, rows, Terminal, Stages
  <2>3. QED
    BY <1>4, <2>1, <2>2 DEF CancelCommit, StoresOK, CountersOK, TasksOK, rows, scanner, env
<1>5. QED
  BY <1>1, <1>2, <1>3, <1>4 DEF RequestStep

LEMMA ClientTypeOK ==
  ASSUME TypeOK, NEW c \in Clients, ClientNext(c)
  PROVE  TypeOK'
<1> USE DEF TypeOK
<1>1. ASSUME NEW k \in Keys \cup {None}, NEW s \in Scans, CreateLookup(c, k, s)
      PROVE  TypeOK'
  <2>1. RequestsOK'
    BY <1>1 DEF CreateLookup, RequestsOK, Requests, RequestSteps
  <2>2. QED
    BY <1>1, <2>1 DEF CreateLookup, Issue, RowsOK, StoresOK, CountersOK, TasksOK, db, rows, scanner, env
<1>2. ASSUME NEW original \in Scans, NEW s \in Scans, Rescan(c, original, s)
      PROVE  TypeOK'
  <2>1. RowsOK' /\ RequestsOK'
    BY <1>2, InsertRowOK DEF Rescan
  <2>2. QED
    BY <1>2, <2>1 DEF Rescan, Issue, InsertRow, StoresOK, CountersOK, TasksOK, scanner, env
<1>3. ASSUME NEW s \in Scans, CancelRead(c, s)
      PROVE  TypeOK'
  <2>1. RequestsOK'
    BY <1>3 DEF CancelRead, IdleRequest, RequestsOK, Requests, RequestSteps
  <2>2. QED
    BY <1>3, <2>1 DEF CancelRead, Issue, RowsOK, StoresOK, CountersOK, TasksOK, db, rows, scanner, env
<1>4. ASSUME NEW s \in Scans, Delete(c, s)
      PROVE  TypeOK'
  <2>1. RowsOK'
    BY <1>4 DEF Delete, RowsOK
  <2>2. owner' \in [Assets -> Scans \cup {None}]
    BY <1>4 DEF Delete, OwnersWithout, StoresOK
  <2>3. QED
    BY <1>4, <2>1, <2>2 DEF Delete, Issue, StoresOK, CountersOK, RequestsOK, TasksOK, scanner, env
<1>5. CASE RequestStep(c)
  BY <1>5, RequestTypeOK
<1>6. ASSUME NEW v \in Workers, RequestLosesSequence(c, v)
      PROVE  TypeOK'
  <2>1. RequestsOK'
    BY <1>6, LeaveOK DEF RequestLosesSequence
  <2>2. RowsOK'
    BY <1>6, ScanningEventOK DEF RequestLosesSequence, RequestsOK, rows
  <2>3. TasksOK'
    BY <1>6 DEF RequestLosesSequence, Contends, TasksOK, Tasks, WorkerSteps, Trying, scanner
  <2>4. QED
    BY <1>6, <2>1, <2>2, <2>3 DEF RequestLosesSequence, StoresOK, CountersOK, rows, scanner, env
<1>7. CASE ApiCrash(c)
  <2>1. RequestsOK' /\ request[c].scan \in Scans
    BY <1>7, LeaveOK DEF ApiCrash, RequestsOK
  <2>2. CountersOK'
    BY <1>7, <2>1 DEF ApiCrash, Fault, Lose, CountersOK
  <2>3. QED
    BY <1>7, <2>1, <2>2 DEF ApiCrash, RowsOK, StoresOK, TasksOK, db, rows, scanner
<1>8. QED
  BY <1>1, <1>2, <1>3, <1>4, <1>5, <1>6, <1>7 DEF ClientNext

LEMMA TaskTypeOK ==
  ASSUME TypeOK, NEW w \in Workers, WorkerStep(w)
  PROVE  TypeOK'
<1> USE DEF TypeOK
<1> DEFINE s == worker[w].scan
<1> USE DEF WorkerSteps, Trying
<1>0. worker[w].step # "idle" => s \in Scans
  BY DEF TasksOK
<1>1. CASE Claim(w)
  <2>1. RowsOK'
    BY <1>0, <1>1, RecordIfOK DEF Claim, RowsOK, rows, Live, Stages
  <2>2. TasksOK'
    BY <1>1, LoadOK DEF Claim, scanner
  <2>3. QED
    BY <1>1, <2>1, <2>2 DEF Claim, StoresOK, CountersOK, RequestsOK, rows, scanner, api, env
<1>2. CASE BeginScanning(w)
  <2>1. TasksOK'
    <3>1. CASE ~Exists(s)
      BY <1>2, <3>1, GotoOK DEF BeginScanning, scanner
    <3>2. CASE Exists(s)
      <4>1. Len(log[s]) \in Nat
        BY <1>0, <1>2 DEF BeginScanning, RowsOK
      <4>2. QED
        BY <1>2, <3>2, <4>1, SeenOK DEF BeginScanning, scanner
    <3>3. QED
      BY <3>1, <3>2
  <2>2. QED
    BY <1>2, <2>1 DEF BeginScanning, RowsOK, StoresOK, CountersOK, RequestsOK, db, rows, scanner, api, env
<1>3. CASE PublishScanning(w)
  <2>1. TasksOK'
    <3>1. \E step \in {"scanning", "failing"} :
            worker' = [worker EXCEPT ![w].step = step, ![w].seen = 0]
      BY <1>3 DEF PublishScanning
    <3>2. QED
      BY <1>3, <3>1, SeenOK DEF PublishScanning, scanner
  <2>2. RowsOK'
    <3>1. \/ log' = [log EXCEPT ![s] = Append(@, "scanning")]
          \/ UNCHANGED log
      BY <1>3 DEF PublishScanning
    <3>2. QED
      BY <1>0, <1>3, <3>1, ScanningEventOK DEF PublishScanning, RowsOK, rows
  <2>3. QED
    BY <1>3, <2>1, <2>2 DEF PublishScanning, StoresOK, CountersOK, RequestsOK, rows, scanner, api, env
<1>4. CASE CallScanner(w)
  <2>1. TasksOK'
    BY <1>0, <1>4 DEF CallScanner, Goto, StoresOK, TasksOK, Tasks, scanner
  <2>2. QED
    BY <1>4, <2>1 DEF CallScanner, RowsOK, StoresOK, CountersOK, RequestsOK, db, rows, scanner, api, env
<1>5. CASE ScannerReplies(w)
  <2>1. PICK d \in Documents : cbom' = [cbom EXCEPT ![s] = d]
    BY <1>5 DEF ScannerReplies
  <2>2. cbom' \in [Scans -> Documents \cup {None}]
    BY <1>0, <1>5, <2>1 DEF ScannerReplies, StoresOK
  <2>3. TasksOK'
    BY <1>0, <1>5, <2>1 DEF ScannerReplies, Goto, StoresOK, TasksOK, Tasks
  <2>4. QED
    BY <1>5, <2>2, <2>3 DEF ScannerReplies, RowsOK, StoresOK, CountersOK, RequestsOK, db, rows, api, env
<1>6. CASE ReadReply(w)
  <2>1. TasksOK'
    <3>1. CASE worker' = [worker EXCEPT ![w].step = "ingest", ![w].doc = cbom[s]]
      BY <1>0, <1>6, <3>1 DEF ReadReply, TasksOK, Tasks, scanner
    <3>2. CASE Goto(w, "failing") \/ Goto(w, "done")
      BY <1>6, <3>2, GotoOK DEF ReadReply, scanner
    <3>3. QED
      BY <1>6, <3>1, <3>2 DEF ReadReply
  <2>2. QED
    BY <1>6, <2>1 DEF ReadReply, RowsOK, StoresOK, CountersOK, RequestsOK, db, rows, scanner, api, env
<1>7. CASE Ingest(w)
  <2>1. TasksOK'
    BY <1>7 DEF Ingest, TasksOK, Tasks, scanner
  <2>2. status' \in [Scans -> Live \cup Terminal \cup {"absent", "deleted"}] /\ log' \in [Scans -> Seq(Stages)]
    BY <1>0, <1>7, RecordOK DEF Ingest, RowsOK, Terminal, Stages
  <2>3. owner' \in [Assets -> Scans \cup {None}]
    BY <1>0, <1>7 DEF Ingest, StoresOK
  <2>4. QED
    BY <1>7, <2>1, <2>2, <2>3 DEF Ingest, RowsOK, StoresOK, CountersOK, RequestsOK, scanner, api, env
<1>8. CASE Raise(w)
  <2>1. TasksOK'
    BY <1>0, <1>8 DEF Raise, CaughtAt, IdleWorker, TasksOK, Tasks
  <2>2. stray' \in [Scans -> Nat]
    BY <1>0, <1>8 DEF Raise, StoresOK
  <2>3. QED
    BY <1>8, <2>1, <2>2 DEF Raise, RowsOK, StoresOK, CountersOK, RequestsOK, db, rows, api, env
<1>9. CASE Fail(w)
  <2>1. RowsOK'
    BY <1>0, <1>9, RecordIfOK DEF Fail, RowsOK, rows, Terminal, Stages
  <2>2. TasksOK'
    BY <1>9, LoadOK DEF Fail, scanner
  <2>3. QED
    BY <1>9, <2>1, <2>2 DEF Fail, StoresOK, CountersOK, RequestsOK, rows, scanner, api, env
<1>10. CASE Ack(w)
  <2>1. TasksOK'
    BY <1>10 DEF Ack, IdleWorker, TasksOK, Tasks, scanner
  <2>2. QED
    BY <1>10, <2>1 DEF Ack, RowsOK, StoresOK, CountersOK, RequestsOK, db, rows, scanner, api, env
<1>11. CASE LoadToFail(w)
  <2>1. TasksOK'
    BY <1>11, GotoOK, LoadOK DEF LoadToFail, scanner
  <2>2. QED
    BY <1>11, <2>1 DEF LoadToFail, RowsOK, StoresOK, CountersOK, RequestsOK, db, rows, scanner, api, env
<1>12. QED
  BY <1>1, <1>2, <1>3, <1>4, <1>5, <1>6, <1>7, <1>8, <1>9, <1>10, <1>11 DEF WorkerStep

LEMMA WorkerTypeOK ==
  ASSUME TypeOK, NEW w \in Workers, WorkerNext(w)
  PROVE  TypeOK'
<1> USE DEF TypeOK
<1>0. worker[w].step # "idle" => worker[w].scan \in Scans
  BY DEF TasksOK
<1>1. ASSUME NEW s \in Scans, Deliver(w, s)
      PROVE  TypeOK'
  <2>1. ready' \in [Scans -> Nat]
    BY <1>1 DEF Deliver, HasMessage, StoresOK
  <2>2. TasksOK'
    <3>1. \/ \E changes \in BOOLEAN : worker' = [worker EXCEPT ![w] =
               [step |-> "claim", scan |-> s, seen |-> 0, doc |-> None, changes |-> changes]]
          \/ UNCHANGED worker
      <4>1. (status[s] # "running") \in BOOLEAN
        OBVIOUS
      <4>2. QED
        BY <1>1, <4>1 DEF Deliver, IdleWorker
    <3>2. QED
      BY <1>1, <3>1 DEF Deliver, TasksOK, Tasks, WorkerSteps, scanner
  <2>3. QED
    BY <1>1, <2>1, <2>2 DEF Deliver, RowsOK, StoresOK, CountersOK, RequestsOK, db, rows, scanner, api, env
<1>2. CASE WorkerStep(w)
  BY <1>2, TaskTypeOK
<1>3. ASSUME NEW v \in Workers, WorkerLosesSequence(w, v)
      PROVE  TypeOK'
  <2>1. RowsOK'
    BY <1>0, <1>3, ScanningEventOK DEF WorkerLosesSequence, rows
  <2>2. \E step \in {"failing", "done"} :
          worker' = [worker EXCEPT ![w] = [@ EXCEPT !.step = step, !.doc = None, !.changes = FALSE],
                                   ![v] = [@ EXCEPT !.step = "scanning", !.seen = 0]]
    <3>1. CASE worker[w].step = "ingest"
      BY <1>3, <3>1 DEF WorkerLosesSequence
    <3>2. CASE worker[w].step # "ingest"
      BY <1>3, <3>2 DEF WorkerLosesSequence
    <3>3. QED
      BY <3>1, <3>2
  <2>3. TasksOK'
    <3>1. PICK step \in {"failing", "done"} :
            worker' = [worker EXCEPT ![w] = [@ EXCEPT !.step = step, !.doc = None, !.changes = FALSE],
                                     ![v] = [@ EXCEPT !.step = "scanning", !.seen = 0]]
      BY <2>2
    <3>2. worker'[w] = [worker[w] EXCEPT !.step = step, !.doc = None, !.changes = FALSE]
      BY <1>3, <3>1 DEF WorkerLosesSequence, TasksOK
    <3>3. worker'[v] = [worker[v] EXCEPT !.step = "scanning", !.seen = 0]
      BY <1>3, <3>1 DEF WorkerLosesSequence, TasksOK
    <3>4. \A u \in Workers \ {v, w} : worker'[u] = worker[u]
      BY <3>1 DEF TasksOK
    <3>5. worker' = [u \in Workers |-> worker'[u]]
      BY <3>1 DEF TasksOK
    <3>6. worker[w] \in Tasks /\ worker[v] \in Tasks
      BY DEF TasksOK
    <3>7. /\ worker'[w] \in Tasks
          /\ worker'[w].step = step
          /\ worker'[w].scan = worker[w].scan
      BY <3>2, <3>6 DEF Tasks, WorkerSteps
    <3>8. /\ worker'[v] \in Tasks
          /\ worker'[v].step = "scanning"
          /\ worker'[v].scan = worker[v].scan
      <4>1. worker'[v] = [step |-> "scanning", scan |-> worker[v].scan, seen |-> 0, doc |-> worker[v].doc,
                          changes |-> worker[v].changes]
        BY <3>3, <3>6 DEF Tasks
      <4>2. QED
        BY <3>6, <4>1 DEF Tasks, WorkerSteps, Trying
    <3>9. worker' \in [Workers -> Tasks]
      <4>1. \A u \in Workers : worker'[u] \in Tasks
        BY <3>4, <3>7, <3>8 DEF TasksOK
      <4>2. QED
        BY <3>5, <4>1
    <3>10. worker[w].scan \in Scans /\ worker[v].scan \in Scans
      BY <1>0, <1>3 DEF WorkerLosesSequence, Contends
    <3>11. cbom' = cbom
      BY <1>3 DEF WorkerLosesSequence, scanner
    <3>12. QED
      BY <3>4, <3>7, <3>8, <3>9, <3>10, <3>11 DEF TasksOK
  <2>4. QED
    BY <1>3, <2>1, <2>3 DEF WorkerLosesSequence, StoresOK, CountersOK, RequestsOK, rows, scanner, api, env
<1>4. CASE Redeliver(w)
  <2>1. ready' \in [Scans -> Nat] /\ faults' \in Nat
    BY <1>0, <1>4 DEF Redeliver, Fault, StoresOK, CountersOK
  <2>2. QED
    BY <1>4, <2>1 DEF Redeliver, RowsOK, StoresOK, CountersOK, RequestsOK, TasksOK, db, rows, scanner, api
<1>5. ASSUME Abandon(w), cbom' = cbom
      PROVE  TasksOK' /\ stray' \in [Scans -> Nat]
  <2>1. TasksOK'
    BY <1>5 DEF Abandon, IdleWorker, TasksOK, Tasks, WorkerSteps
  <2>2. stray' \in [Scans -> Nat]
    BY <1>0, <1>5 DEF Abandon, StoresOK
  <2>3. QED
    BY <2>1, <2>2
<1>6. CASE WorkerCrash(w)
  <2>1. ready' \in [Scans -> Nat] /\ faults' \in Nat
    BY <1>0, <1>6 DEF WorkerCrash, Restored, Abandon, Fault, StoresOK, CountersOK
  <2>2. QED
    BY <1>5, <1>6, <2>1 DEF WorkerCrash, RowsOK, StoresOK, CountersOK, RequestsOK, db, rows, api
<1>7. CASE ChildKilled(w)
  <2>1. CountersOK'
    BY <1>0, <1>7 DEF ChildKilled, Abandon, Fault, Lose, CountersOK, api
  <2>2. QED
    BY <1>5, <1>7, <2>1 DEF ChildKilled, RowsOK, StoresOK, RequestsOK, db, rows, api
<1>8. CASE StoreError(w)
  <2>1. CountersOK'
    BY <1>0, <1>8 DEF StoreError, Fault, Lose, CountersOK, api
  <2>2. TasksOK'
    BY <1>8, LoadOK DEF StoreError, WorkerSteps, scanner
  <2>3. QED
    BY <1>8, <2>1, <2>2 DEF StoreError, RowsOK, StoresOK, RequestsOK, db, rows, scanner, api
<1>9. QED
  BY <1>1, <1>2, <1>3, <1>4, <1>6, <1>7, <1>8 DEF WorkerNext

LEMMA StrayTypeOK ==
  ASSUME TypeOK, NEW s \in Scans, StrayEnds(s)
  PROVE  TypeOK'
<1> USE DEF TypeOK
<1>1. PICK d \in Documents \cup {cbom[s]} : cbom' = [cbom EXCEPT ![s] = d]
  BY DEF StrayEnds
<1>2. StoresOK'
  <2>1. stray' \in [Scans -> Nat]
    BY DEF StrayEnds, StoresOK
  <2>2. QED
    BY <1>1, <2>1 DEF StrayEnds, StoresOK, db, rows
<1>3. TasksOK'
  BY <1>1 DEF StrayEnds, StoresOK, TasksOK
<1>4. QED
  BY <1>2, <1>3 DEF StrayEnds, RowsOK, CountersOK, RequestsOK, db, rows, api, env

\* Every reachable state is well typed: in particular no number of pending
\* messages or stray scanner runs becomes negative, no actor works without a
\* scan, and a task past its scanner call always finds a published document.
THEOREM Typing == Spec => []TypeOK
<1>1. ASSUME TypeOK, [Next]_vars
      PROVE  TypeOK'
  <2>1. CASE UNCHANGED vars
    BY <1>1, <2>1 DEF TypeOK, RowsOK, StoresOK, CountersOK, RequestsOK, TasksOK, vars
  <2>2. CASE Next
    BY <1>1, <2>2, ClientTypeOK, WorkerTypeOK, StrayTypeOK DEF Next
  <2>3. QED
    BY <1>1, <2>1, <2>2
<1>2. QED
  BY InitTypeOK, <1>1, PTL DEF Spec

-----------------------------------------------------------------------------
(* No live scan is stranded *)

\* A step of one task keeps a scan in hand unless the task lets go of it.
LEMMA TaskFrame ==
  ASSUME NEW w \in Workers, NEW s \in Scans, InHand(s), ready' = ready, request' = request,
         \A v \in Workers \ {w} : worker'[v] = worker[v],
         Handles(w, s) => Handles(w, s)'
  PROVE  InHand(s)'
  BY DEF InHand, Promises, Handles

\* So does a step of one request.
LEMMA RequestFrame ==
  ASSUME NEW c \in Clients, NEW s \in Scans, InHand(s), ready' = ready, worker' = worker,
         \A b \in Clients \ {c} : request'[b] = request[b],
         Promises(c, s) => Promises(c, s)'
  PROVE  InHand(s)'
  BY DEF InHand, Promises, Handles

LEMMA TaskInHand ==
  ASSUME TypeOK, LiveScansAreInHand, NEW w \in Workers, WorkerStep(w),
         NEW s \in Scans, status'[s] \in Live
  PROVE  InHand(s)' \/ s \in lost'
<1> DEFINE mine == worker[w].scan
<1>0. /\ status \in [Scans -> Live \cup Terminal \cup {"absent", "deleted"}]
      /\ worker \in [Workers -> Tasks]
      /\ worker[w].step # "idle" => mine \in Scans
  BY DEF TypeOK, RowsOK, TasksOK
<1>1. ready' = ready /\ request' = request /\ lost' = lost
  BY DEF WorkerStep, Claim, BeginScanning, PublishScanning, CallScanner, ScannerReplies, ReadReply,
     Ingest, Raise, LoadToFail, Fail, Ack, api, env
<1>2. /\ \A v \in Workers \ {w} : worker'[v] = worker[v]
      /\ Handles(w, s) => Handles(w, s)'
      /\ status[s] \in Live \/ Handles(w, s)'
  <2> USE <1>0 DEF Handles, Trying, Tasks
  <2>1. CASE Claim(w)
    <3>1. CASE Exists(mine) /\ RecordIf(worker[w].changes, mine, "running", "preparing")
      <4>1. \A r \in Scans \ {mine} : status'[r] = status[r]
        BY <3>1, RecordIfCases DEF Record
      <4>2. worker'[w].step = "prepare" /\ worker'[w].scan = mine
        <5>1. Load(w, "prepare", FALSE)
          BY <2>1, <3>1 DEF Claim
        <5>2. QED
          BY <5>1 DEF Load
      <4>3. QED
        BY <2>1, <4>1, <4>2 DEF Claim, Load
    <3>2. CASE ~Exists(mine) /\ Load(w, "done", FALSE) /\ UNCHANGED <<status, log>>
      BY <3>2 DEF Load, Exists, Live
    <3>3. QED
      BY <2>1, <3>1, <3>2 DEF Claim
  <2>2. CASE BeginScanning(w)
    BY <2>2 DEF BeginScanning, Goto, Exists, Live, Terminal, db
  <2>3. CASE PublishScanning(w)
    BY <2>3 DEF PublishScanning
  <2>4. CASE CallScanner(w)
    BY <2>4 DEF CallScanner, Goto, db
  <2>5. CASE ScannerReplies(w)
    BY <2>5 DEF ScannerReplies, Goto, db
  <2>6. CASE ReadReply(w)
    BY <2>6 DEF ReadReply, Unfinished, Goto, db
  <2>7. CASE Ingest(w)
    BY <2>7 DEF Ingest, Record, Live, Terminal
  <2>8. CASE Raise(w)
    BY <2>8 DEF Raise, CaughtAt, IdleWorker, db
  <2>9. CASE Fail(w)
    BY <2>9 DEF Fail, Record, RecordIf, Load, Exists, Live, Terminal
  <2>10. CASE Ack(w)
    BY <2>10 DEF Ack, db
  <2>11. CASE LoadToFail(w)
    <3>1. CASE Exists(mine) /\ Load(w, "fail", status[mine] # "failed")
      <4>1. /\ status' = status
            /\ worker[w].step = "failing"
            /\ \A v \in Workers \ {w} : worker'[v] = worker[v]
            /\ worker'[w].scan = mine
            /\ worker'[w].step = "fail"
            /\ worker'[w].changes = (status[mine] # "failed")
        BY <2>11, <3>1 DEF LoadToFail, Load, db
      <4>2. CASE s = mine
        <5>1. worker'[w].changes
          BY <4>1, <4>2 DEF Live
        <5>2. QED
          BY <4>1, <4>2, <5>1
      <4>3. CASE s # mine
        BY <4>1, <4>3
      <4>4. QED
        BY <4>2, <4>3
    <3>2. CASE ~Exists(mine) /\ Goto(w, "done")
      BY <2>11, <3>2 DEF LoadToFail, Goto, Exists, Live, db
    <3>3. QED
      BY <2>11, <3>1, <3>2 DEF LoadToFail
  <2>12. QED
    BY <2>1, <2>2, <2>3, <2>4, <2>5, <2>6, <2>7, <2>8, <2>9, <2>10, <2>11 DEF WorkerStep
<1>3. CASE Handles(w, s)'
  BY <1>3 DEF InHand, Handles
<1>4. CASE status[s] \in Live
  BY <1>1, <1>2, <1>4, TaskFrame DEF LiveScansAreInHand
<1>5. QED
  BY <1>2, <1>3, <1>4

LEMMA ClientInHand ==
  ASSUME TypeOK, LiveScansAreInHand, NEW c \in Clients, ClientNext(c),
         NEW s \in Scans, status'[s] \in Live
  PROVE  InHand(s)' \/ s \in lost'
<1> DEFINE mine == request[c].scan
<1>0. /\ status \in [Scans -> Live \cup Terminal \cup {"absent", "deleted"}]
      /\ ready \in [Scans -> Nat]
      /\ request \in [Clients -> Requests]
      /\ request[c].step # "idle" => mine \in Scans
  BY DEF TypeOK, RowsOK, StoresOK, RequestsOK
<1>1. ASSUME NEW r \in Scans, NEW k, NEW action, InsertRow(c, r, k, action),
             worker' = worker, ready' = ready, lost' = lost, Promises(c, s) => r = s
      PROVE  InHand(s)' \/ s \in lost'
  <2>1. request'[c].scan = r /\ request'[c].step = "dispatch"
    BY <1>0, <1>1 DEF InsertRow, IdleRequest
  <2>2. CASE r = s
    BY <2>1, <2>2 DEF InHand, Promises
  <2>3. CASE r # s
    <3>1. status[s] \in Live /\ ~Promises(c, s)
      BY <1>0, <1>1, <2>3 DEF InsertRow, Record
    <3>2. \A b \in Clients \ {c} : request'[b] = request[b]
      BY <1>0, <1>1 DEF InsertRow
    <3>3. QED
      BY <1>1, <3>1, <3>2, RequestFrame DEF LiveScansAreInHand
  <2>4. QED
    BY <2>2, <2>3
<1>2. ASSUME worker' = worker, ready' = ready, lost' = lost, status[s] \in Live,
             \A b \in Clients \ {c} : request'[b] = request[b],
             Promises(c, s) => Promises(c, s)'
      PROVE  InHand(s)' \/ s \in lost'
  BY <1>2, RequestFrame DEF LiveScansAreInHand
<1>3. ASSUME NEW k \in Keys \cup {None}, NEW r \in Scans, CreateLookup(c, k, r)
      PROVE  InHand(s)' \/ s \in lost'
  <2>1. /\ worker' = worker /\ ready' = ready /\ lost' = lost /\ status[s] \in Live
        /\ \A b \in Clients \ {c} : request'[b] = request[b]
        /\ ~Promises(c, s)
    BY <1>0, <1>3 DEF CreateLookup, Issue, Promises, db, env
  <2>2. QED
    BY <1>2, <2>1
<1>4. ASSUME NEW original \in Scans, NEW r \in Scans, Rescan(c, original, r)
      PROVE  InHand(s)' \/ s \in lost'
  BY <1>1, <1>4 DEF Rescan, Issue, Promises, env
<1>5. ASSUME NEW r \in Scans, CancelRead(c, r)
      PROVE  InHand(s)' \/ s \in lost'
  <2>1. /\ worker' = worker /\ ready' = ready /\ lost' = lost /\ status[s] \in Live
        /\ \A b \in Clients \ {c} : request'[b] = request[b]
        /\ ~Promises(c, s)
    BY <1>0, <1>5 DEF CancelRead, Issue, Promises, db, env
  <2>2. QED
    BY <1>2, <2>1
<1>6. ASSUME NEW r \in Scans, Delete(c, r)
      PROVE  InHand(s)' \/ s \in lost'
  <2>1. worker' = worker /\ ready' = ready /\ request' = request /\ lost' = lost /\ status[s] \in Live
    BY <1>0, <1>6 DEF Delete, Live, env
  <2>2. QED
    BY <1>2, <2>1 DEF Promises
<1>7. CASE CreateInsert(c)
  <2>1. ~Promises(c, s) /\ worker' = worker /\ ready' = ready /\ lost' = lost /\ mine \in Scans
    BY <1>0, <1>7 DEF CreateInsert, Promises, env
  <2>2. CASE InsertRow(c, mine, request[c].key, "create")
    BY <1>1, <2>1, <2>2
  <2>3. CASE Leave(c) /\ UNCHANGED db
    BY <1>0, <1>2, <2>1, <2>3 DEF Leave, db
  <2>4. QED
    BY <1>7, <2>2, <2>3 DEF CreateInsert
<1>8. CASE Dispatch(c)
  <2>1. PICK accepted, raised \in BOOLEAN :
          /\ accepted \/ raised
          /\ ready' = IF accepted THEN [ready EXCEPT ![mine] = @ + 1] ELSE ready
          /\ IF raised THEN request' = [request EXCEPT ![c].step = "undispatched"] ELSE Leave(c)
    BY <1>8 DEF Dispatch
  <2>2. worker' = worker /\ lost' = lost /\ status' = status /\ mine \in Scans
    BY <1>0, <1>8 DEF Dispatch, db, env
  <2>3. CASE accepted
    <3>1. ready'[mine] > 0 /\ ready'[s] >= ready[s]
      BY <1>0, <2>1, <2>2, <2>3
    <3>2. CASE mine = s
      BY <3>1, <3>2 DEF InHand
    <3>3. CASE mine # s
      <4>1. /\ \A b \in Clients \ {c} : request'[b] = request[b]
            /\ ready'[s] = ready[s]
        BY <1>0, <2>1, <2>2, <2>3, <3>3 DEF Leave
      <4>2. QED
        BY <2>2, <3>3, <4>1 DEF LiveScansAreInHand, InHand, Promises, Handles
    <3>4. QED
      BY <3>2, <3>3
  <2>4. CASE ~accepted
    <3>1. /\ ready' = ready
          /\ request' = [request EXCEPT ![c].step = "undispatched"]
      BY <2>1, <2>4
    <3>2. /\ \A b \in Clients \ {c} : request'[b] = request[b]
          /\ request'[c].scan = mine /\ request'[c].step = "undispatched"
      BY <1>0, <3>1 DEF Requests
    <3>3. QED
      BY <1>2, <2>2, <3>1, <3>2 DEF Promises
  <2>5. QED
    BY <2>3, <2>4
<1>9. CASE FailDispatch(c)
  <2>1. /\ worker' = worker /\ ready' = ready /\ lost' = lost
        /\ \A b \in Clients \ {c} : request'[b] = request[b]
    BY <1>0, <1>9 DEF FailDispatch, Leave, env
  <2>2. status[s] \in Live /\ ~Promises(c, s)
    BY <1>0, <1>9 DEF FailDispatch, Record, Exists, Promises, Live, Terminal
  <2>3. QED
    BY <1>2, <2>1, <2>2
<1>10. CASE CancelCommit(c)
  <2>1. /\ worker' = worker /\ ready' = ready /\ lost' = lost
        /\ \A b \in Clients \ {c} : request'[b] = request[b]
    BY <1>0, <1>10 DEF CancelCommit, Leave, env
  <2>2. status[s] \in Live /\ ~Promises(c, s)
    BY <1>0, <1>10 DEF CancelCommit, Record, Exists, Promises, Live, Terminal
  <2>3. QED
    BY <1>2, <2>1, <2>2
<1>11. ASSUME NEW v \in Workers, RequestLosesSequence(c, v)
       PROVE  InHand(s)' \/ s \in lost'
  <2>1. /\ worker \in [Workers -> Tasks]
        /\ ready' = ready /\ lost' = lost /\ status' = status
        /\ \A b \in Clients \ {c} : request'[b] = request[b]
    BY <1>0, <1>11 DEF RequestLosesSequence, Leave, TypeOK, TasksOK, env
  <2>2. /\ \A u \in Workers \ {v} : worker'[u] = worker[u]
        /\ worker'[v].scan = mine /\ worker'[v].step = "scanning"
    BY <1>11, <2>1 DEF RequestLosesSequence, Contends, Tasks
  <2>3. CASE s = mine
    BY <2>2, <2>3 DEF InHand, Handles, Trying
  <2>4. CASE s # mine
    BY <1>11, <2>1, <2>2, <2>4 DEF LiveScansAreInHand, InHand, Promises, Handles, RequestLosesSequence, Contends
  <2>5. QED
    BY <2>3, <2>4
<1>12. CASE ApiCrash(c)
  <2>1. /\ worker' = worker /\ ready' = ready /\ status' = status
        /\ lost' = lost \cup {mine}
        /\ \A b \in Clients \ {c} : request'[b] = request[b]
    BY <1>0, <1>12 DEF ApiCrash, Fault, Lose, Leave, db
  <2>2. QED
    BY <2>1 DEF LiveScansAreInHand, InHand, Promises, Handles
<1>13. QED
  BY <1>3, <1>4, <1>5, <1>6, <1>7, <1>8, <1>9, <1>10, <1>11, <1>12 DEF ClientNext, RequestStep

LEMMA WorkerInHand ==
  ASSUME TypeOK, LiveScansAreInHand, NEW w \in Workers, WorkerNext(w),
         NEW s \in Scans, status'[s] \in Live
  PROVE  InHand(s)' \/ s \in lost'
<1> DEFINE mine == worker[w].scan
<1>0. /\ ready \in [Scans -> Nat]
      /\ worker \in [Workers -> Tasks]
      /\ worker[w].step # "idle" => mine \in Scans
  BY DEF TypeOK, StoresOK, TasksOK
<1>1. ASSUME NEW r \in Scans, Deliver(w, r)
      PROVE  InHand(s)' \/ s \in lost'
  <2>1. /\ request' = request /\ lost' = lost /\ status' = status
        /\ ~Handles(w, s)
        /\ \A v \in Workers \ {w} : worker'[v] = worker[v]
    BY <1>0, <1>1 DEF Deliver, Handles, Trying, db, api, env
  <2>2. CASE r # s
    <3>1. ready'[s] = ready[s]
      BY <1>0, <1>1, <2>2 DEF Deliver
    <3>2. QED
      BY <2>1, <3>1 DEF LiveScansAreInHand, InHand, Promises, Handles
  <2>3. CASE r = s
    <3>1. worker'[w].scan = s /\ worker'[w].step = "claim"
      BY <1>0, <1>1, <2>1, <2>3 DEF Deliver, Unfinished, IdleWorker
    <3>2. QED
      BY <3>1 DEF InHand, Handles
  <2>4. QED
    BY <2>2, <2>3
<1>2. CASE WorkerStep(w)
  BY <1>2, TaskInHand
<1>3. ASSUME NEW v \in Workers, WorkerLosesSequence(w, v)
      PROVE  InHand(s)' \/ s \in lost'
  <2>1. ready' = ready /\ request' = request /\ lost' = lost /\ status' = status
    BY <1>3 DEF WorkerLosesSequence, api, env
  <2>2. /\ \A u \in Workers \ {v, w} : worker'[u] = worker[u]
        /\ worker'[v].scan = mine /\ worker'[v].step = "scanning"
    BY <1>0, <1>3 DEF WorkerLosesSequence, Contends, Tasks
  <2>3. CASE s = mine
    BY <2>2, <2>3 DEF InHand, Handles, Trying
  <2>4. CASE s # mine
    BY <1>3, <2>1, <2>2, <2>4 DEF LiveScansAreInHand, InHand, Promises, Handles, WorkerLosesSequence, Contends
  <2>5. QED
    BY <2>3, <2>4
<1>4. CASE Redeliver(w)
  <2>1. /\ worker' = worker /\ request' = request /\ lost' = lost /\ status' = status
        /\ ready[s] > 0 => ready'[s] > 0
    BY <1>0, <1>4 DEF Redeliver, db, api
  <2>2. QED
    BY <2>1 DEF LiveScansAreInHand, InHand, Promises, Handles
<1>5. CASE WorkerCrash(w)
  <2>1. /\ request' = request /\ lost' = lost /\ status' = status
        /\ \A v \in Workers \ {w} : worker'[v] = worker[v]
        /\ ready[s] > 0 \/ mine = s => ready'[s] > 0
    BY <1>0, <1>5 DEF WorkerCrash, Abandon, Restored, db, api
  <2>2. QED
    BY <2>1 DEF LiveScansAreInHand, InHand, Promises, Handles
<1>6. CASE ChildKilled(w)
  <2>1. /\ request' = request /\ lost' = lost \cup {mine} /\ status' = status /\ ready' = ready
        /\ \A v \in Workers \ {w} : worker'[v] = worker[v]
    BY <1>0, <1>6 DEF ChildKilled, Abandon, Lose, db, api
  <2>2. QED
    BY <2>1 DEF LiveScansAreInHand, InHand, Promises, Handles
<1>7. CASE StoreError(w)
  <2>1. /\ request' = request /\ lost' = lost \cup {mine} /\ status' = status /\ ready' = ready
        /\ \A v \in Workers \ {w} : worker'[v] = worker[v]
    BY <1>0, <1>7 DEF StoreError, Lose, Load, db, api
  <2>2. QED
    BY <2>1 DEF LiveScansAreInHand, InHand, Promises, Handles
<1>8. QED
  BY <1>1, <1>2, <1>3, <1>4, <1>5, <1>6, <1>7 DEF WorkerNext

\* LiveScansAreInHand, for every number of requests, tasks and faults: QUEUED and
\* RUNNING scans always have somebody who will act on them, except after the three
\* deaths that the history variable lost names.
THEOREM NoScanIsStranded == Spec => []LiveScansAreInHand
<1>1. Init => LiveScansAreInHand
  BY DEF Init, LiveScansAreInHand, Live
<1>2. ASSUME TypeOK, LiveScansAreInHand, [Next]_vars
      PROVE  LiveScansAreInHand'
  <2>1. SUFFICES ASSUME NEW s \in Scans, status'[s] \in Live
                 PROVE  InHand(s)' \/ s \in lost'
    BY DEF LiveScansAreInHand
  <2>2. CASE UNCHANGED vars
    BY <1>2, <2>1, <2>2 DEF LiveScansAreInHand, InHand, Promises, Handles, vars
  <2>3. ASSUME NEW r \in Scans, StrayEnds(r)
        PROVE  InHand(s)' \/ s \in lost'
    BY <1>2, <2>1, <2>3 DEF LiveScansAreInHand, InHand, Promises, Handles, StrayEnds, db, api, env
  <2>4. QED
    BY <1>2, <2>1, <2>2, <2>3, ClientInHand, WorkerInHand DEF Next
<1>3. QED
  BY <1>1, <1>2, Typing, PTL DEF Spec

-----------------------------------------------------------------------------
(***************************************************************************)
(* What a scan row, its progress log and its artefacts may go through.     *)
(* All theorems from here on rest on one classification: RowStep says what *)
(* one step of the system can do to the row and the log of one scan.       *)
(***************************************************************************)

SameKey(s) == key'[s] = key[s] /\ origin'[s] = origin[s]

\* A client whose id is s, or who has just drawn it, inserts the row.
InsertedBy(c, s) ==
  /\ \/ Fresh(s)
     \/ request[c].step = "insert" /\ request[c].scan = s
  /\ request'[c].step = "dispatch"

\* The row is inserted, with a key no row has; no other row changes.
Inserted(s) ==
  /\ \E c \in Clients : InsertedBy(c, s)
  /\ status'[s] = "queued"
  /\ log'[s] = Append(log[s], "queued")
  /\ key'[s] = None \/ ~KeyTaken(key'[s])
  /\ \A t \in Scans \ {s} : status'[t] = status[t] /\ key'[t] = key[t]
  /\ owner' = owner

Deleted(s) == Exists(s) /\ status'[s] = "deleted" /\ owner' = OwnersWithout(s)

\* A status and its event are recorded.
Recorded(s) ==
  /\ Exists(s)
  /\ \E st \in Live \cup Terminal :
       status'[s] = st /\ log'[s] = Append(log[s], RecordedStage[st])
  /\ SameKey(s)

\* The rescan request fails its own row without an event.
FailedSilently(s) ==
  /\ Exists(s)
  /\ origin[s] = "rescan"
  /\ status'[s] = "failed"
  /\ log'[s] = log[s]
  /\ SameKey(s)

ScanningPublished(s) ==
  /\ Exists(s)
  /\ status'[s] = status[s]
  /\ log'[s] = Append(log[s], "scanning")
  /\ SameKey(s)

\* w has loaded the row in the status it is about to assign: its UPDATE will
\* leave the status out, and its event e is an echo.
Echoing(w, s, e) ==
  /\ worker[w].scan = s
  /\ ~worker[w].changes
  /\ \/ worker[w].step = "claim" /\ e = "preparing"
     \/ worker[w].step = "fail" /\ e = "failed"

Echoed(s) ==
  /\ Exists(s)
  /\ status'[s] = status[s]
  /\ \E w \in Workers, e \in {"preparing", "failed"} :
       Echoing(w, s, e) /\ log'[s] = Append(log[s], e)
  /\ SameKey(s)

Untouched(s) == status'[s] = status[s] /\ log'[s] = log[s] /\ SameKey(s)

RowChange(s) ==
  \/ Inserted(s)
  \/ Deleted(s)
  \/ Recorded(s)
  \/ FailedSilently(s)
  \/ ScanningPublished(s)
  \/ Echoed(s)
  \/ Untouched(s)

-----------------------------------------------------------------------------
LEMMA DbUntouched ==
  ASSUME NEW s \in Scans, UNCHANGED db
  PROVE  RowChange(s)
  BY DEF db, rows, RowChange, Untouched, SameKey

LEMMA RecordChange ==
  ASSUME RowsOK, NEW r \in Scans, NEW st \in Live \cup Terminal, Exists(r),
         Record(r, st, RecordedStage[st]), UNCHANGED <<key, origin>>, NEW s \in Scans
  PROVE  RowChange(s)
  BY DEF RowsOK, Record, RowChange, Recorded, Untouched, SameKey

LEMMA ScanningChange ==
  ASSUME RowsOK, NEW r \in Scans, Exists(r), log' = [log EXCEPT ![r] = Append(@, "scanning")],
         UNCHANGED <<status, key, origin>>, NEW s \in Scans
  PROVE  RowChange(s)
  BY DEF RowsOK, RowChange, ScanningPublished, Untouched, SameKey

LEMMA InsertChange ==
  ASSUME RowsOK, NEW c \in Clients, NEW r \in Scans, NEW k, NEW action,
         InsertRow(c, r, k, action), k = None \/ ~KeyTaken(k), NEW s \in Scans,
         request \in [Clients -> Requests],
         Fresh(r) \/ (request[c].step = "insert" /\ request[c].scan = r)
  PROVE  RowChange(s)
<1>1. InsertedBy(c, r)
  BY DEF InsertRow, InsertedBy, IdleRequest
<1>2. QED
  BY <1>1 DEF RowsOK, InsertRow, Record, RowChange, Inserted, Untouched, SameKey

\* A task that assigns a status: recorded, or an echo.
LEMMA RecordIfChange ==
  ASSUME RowsOK, NEW w \in Workers, NEW st \in {"running", "failed"},
         worker[w].scan \in Scans, Exists(worker[w].scan),
         RecordIf(worker[w].changes, worker[w].scan, st, RecordedStage[st]),
         worker[w].changes \/ Echoing(w, worker[w].scan, RecordedStage[st]),
         UNCHANGED <<key, origin>>, NEW s \in Scans
  PROVE  RowChange(s)
<1> DEFINE mine == worker[w].scan
<1>1. CASE Record(mine, st, RecordedStage[st])
  BY <1>1, RecordChange DEF Live, Terminal
<1>2. CASE ~worker[w].changes /\ log' = [log EXCEPT ![mine] = Append(@, RecordedStage[st])] /\ UNCHANGED status
  <2>1. RecordedStage[st] \in {"preparing", "failed"}
    BY DEF RecordedStage
  <2>2. CASE s = mine
    <3>1. Echoing(w, s, RecordedStage[st])
      BY <1>2, <2>2
    <3>2. log'[s] = Append(log[s], RecordedStage[st]) /\ status'[s] = status[s] /\ SameKey(s)
      BY <1>2, <2>2 DEF RowsOK, SameKey
    <3>3. QED
      BY <2>1, <2>2, <3>1, <3>2 DEF RowChange, Echoed
  <2>3. CASE s # mine
    BY <1>2, <2>3 DEF RowsOK, RowChange, Untouched, SameKey
  <2>4. QED
    BY <2>2, <2>3
<1>3. QED
  BY <1>1, <1>2, RecordIfCases

LEMMA ClientRowStep ==
  ASSUME TypeOK, NEW c \in Clients, ClientNext(c), NEW s \in Scans
  PROVE  RowChange(s)
<1> DEFINE mine == request[c].scan
<1>0. /\ RowsOK
      /\ request \in [Clients -> Requests]
      /\ request[c] \in Requests
      /\ request[c].step # "idle" => mine \in Scans
  BY DEF TypeOK, RequestsOK
<1>1. ASSUME NEW k \in Keys \cup {None}, NEW r \in Scans, CreateLookup(c, k, r)
      PROVE  RowChange(s)
  BY <1>1, DbUntouched DEF CreateLookup
<1>2. ASSUME NEW original \in Scans, NEW r \in Scans, Rescan(c, original, r)
      PROVE  RowChange(s)
  <2>1. InsertRow(c, r, None, "rescan")
    BY <1>2 DEF Rescan
  <2>2. Fresh(r)
    BY <1>2 DEF Rescan
  <2>3. QED
    BY <1>0, <2>1, <2>2, InsertChange
<1>3. ASSUME NEW r \in Scans, CancelRead(c, r)
      PROVE  RowChange(s)
  BY <1>3, DbUntouched DEF CancelRead
<1>4. ASSUME NEW r \in Scans, Delete(c, r)
      PROVE  RowChange(s)
  BY <1>0, <1>4 DEF Delete, RowsOK, RowChange, Deleted, Untouched, SameKey
<1>5. CASE CreateInsert(c)
  <2>1. CASE UNCHANGED db
    BY <2>1, DbUntouched
  <2>2. CASE ~UniqueIndexRefuses(request[c].key) /\ InsertRow(c, mine, request[c].key, "create")
    BY <1>0, <1>5, <2>2, InsertChange DEF CreateInsert, UniqueIndexRefuses
  <2>3. QED
    BY <1>5, <2>1, <2>2 DEF CreateInsert
<1>6. CASE Dispatch(c)
  BY <1>6, DbUntouched DEF Dispatch
<1>7. CASE FailDispatch(c)
  <2>1. CASE Exists(mine) /\ Record(mine, "failed", "failed")
    <3>1. RecordedStage["failed"] = "failed" /\ "failed" \in Live \cup Terminal
      BY DEF RecordedStage, Terminal
    <3>2. QED
      BY <1>0, <1>7, <2>1, <3>1, RecordChange DEF FailDispatch, rows
  <2>2. CASE /\ Exists(mine) /\ origin[mine] = "rescan"
             /\ status' = [status EXCEPT ![mine] = "failed"]
             /\ UNCHANGED log
    BY <1>0, <1>7, <2>2 DEF FailDispatch, RowsOK, RowChange, FailedSilently, Untouched, SameKey, rows
  <2>3. CASE UNCHANGED <<status, log>>
    BY <1>7, <2>3, DbUntouched DEF FailDispatch, db
  <2>4. QED
    BY <1>7, <2>1, <2>2, <2>3 DEF FailDispatch
<1>8. CASE CancelCommit(c)
  <2>1. CASE Exists(mine) /\ Record(mine, "cancelled", "cancelled")
    <3>1. RecordedStage["cancelled"] = "cancelled" /\ "cancelled" \in Live \cup Terminal
      BY DEF RecordedStage, Terminal
    <3>2. QED
      BY <1>0, <1>8, <2>1, <3>1, RecordChange DEF CancelCommit, rows
  <2>2. CASE UNCHANGED <<status, log>>
    BY <1>8, <2>2, DbUntouched DEF CancelCommit, db
  <2>3. QED
    BY <1>8, <2>1, <2>2 DEF CancelCommit
<1>9. ASSUME NEW v \in Workers, RequestLosesSequence(c, v)
      PROVE  RowChange(s)
  BY <1>0, <1>9, ScanningChange DEF RequestLosesSequence, Contends, rows
<1>10. CASE ApiCrash(c)
  BY <1>10, DbUntouched DEF ApiCrash
<1>11. QED
  BY <1>1, <1>2, <1>3, <1>4, <1>5, <1>6, <1>7, <1>8, <1>9, <1>10 DEF ClientNext, RequestStep

LEMMA WorkerRowStep ==
  ASSUME TypeOK, NEW w \in Workers, WorkerNext(w), NEW s \in Scans
  PROVE  RowChange(s)
<1> DEFINE mine == worker[w].scan
<1>0. RowsOK /\ (worker[w].step # "idle" => mine \in Scans)
  BY DEF TypeOK, TasksOK
<1>1. ASSUME NEW r \in Scans, Deliver(w, r)
      PROVE  RowChange(s)
  BY <1>1, DbUntouched DEF Deliver
<1>2. CASE Claim(w)
  <2>1. CASE Exists(mine) /\ RecordIf(worker[w].changes, mine, "running", "preparing")
    <3>1. RecordedStage["running"] = "preparing"
      BY DEF RecordedStage
    <3>2. worker[w].changes \/ Echoing(w, mine, "preparing")
      BY <1>2 DEF Claim, Echoing
    <3>3. UNCHANGED <<key, origin>> /\ mine \in Scans
      BY <1>0, <1>2 DEF Claim, rows
    <3>4. QED
      BY <1>0, <2>1, <3>1, <3>2, <3>3, RecordIfChange
  <2>2. CASE UNCHANGED <<status, log>>
    BY <1>2, <2>2, DbUntouched DEF Claim, db
  <2>3. QED
    BY <1>2, <2>1, <2>2 DEF Claim
<1>3. CASE BeginScanning(w)
  BY <1>3, DbUntouched DEF BeginScanning
<1>4. CASE PublishScanning(w)
  <2>1. CASE Exists(mine) /\ log' = [log EXCEPT ![mine] = Append(@, "scanning")]
    BY <1>0, <1>4, <2>1, ScanningChange DEF PublishScanning, rows
  <2>2. CASE UNCHANGED log
    BY <1>4, <2>2, DbUntouched DEF PublishScanning, db
  <2>3. QED
    BY <1>4, <2>1, <2>2 DEF PublishScanning
<1>5. CASE CallScanner(w) \/ ScannerReplies(w) \/ ReadReply(w) \/ Raise(w) \/ LoadToFail(w) \/ Ack(w)
  BY <1>5, DbUntouched DEF CallScanner, ScannerReplies, ReadReply, Raise, LoadToFail, Ack
<1>6. CASE Ingest(w)
  <2>1. CASE MayIngest(mine) /\ \E st \in {"succeeded", "partial"} : Record(mine, st, "completed")
    <3>1. PICK st \in {"succeeded", "partial"} : Record(mine, st, "completed")
      BY <2>1
    <3>2. RecordedStage[st] = "completed" /\ st \in Live \cup Terminal
      BY DEF RecordedStage, Terminal
    <3>3. QED
      BY <1>0, <1>6, <2>1, <3>1, <3>2, RecordChange DEF Ingest, MayIngest
  <2>2. CASE UNCHANGED <<status, log, owner>>
    BY <1>6, <2>2, DbUntouched DEF Ingest, db, rows
  <2>3. QED
    BY <1>6, <2>1, <2>2 DEF Ingest
<1>7. CASE Fail(w)
  <2>1. CASE Exists(mine) /\ RecordIf(worker[w].changes, mine, "failed", "failed")
    <3>1. RecordedStage["failed"] = "failed"
      BY DEF RecordedStage
    <3>2. worker[w].changes \/ Echoing(w, mine, "failed")
      BY <1>7 DEF Fail, Echoing
    <3>3. UNCHANGED <<key, origin>> /\ mine \in Scans
      BY <1>0, <1>7 DEF Fail, rows
    <3>4. QED
      BY <1>0, <2>1, <3>1, <3>2, <3>3, RecordIfChange
  <2>2. CASE UNCHANGED <<status, log>>
    BY <1>7, <2>2, DbUntouched DEF Fail, db
  <2>3. QED
    BY <1>7, <2>1, <2>2 DEF Fail
<1>8. ASSUME NEW v \in Workers, WorkerLosesSequence(w, v)
      PROVE  RowChange(s)
  BY <1>0, <1>8, ScanningChange DEF WorkerLosesSequence, Contends, rows
<1>9. CASE Redeliver(w) \/ WorkerCrash(w) \/ ChildKilled(w) \/ StoreError(w)
  BY <1>9, DbUntouched DEF Redeliver, WorkerCrash, ChildKilled, StoreError
<1>10. QED
  BY <1>1, <1>2, <1>3, <1>4, <1>5, <1>6, <1>7, <1>8, <1>9 DEF WorkerNext, WorkerStep

\* One step of the system does one of seven things to the row of a scan.
LEMMA RowStep ==
  ASSUME TypeOK, [Next]_vars, NEW s \in Scans
  PROVE  RowChange(s)
<1>1. CASE UNCHANGED vars
  BY <1>1, DbUntouched DEF vars, db, rows
<1>2. ASSUME NEW r \in Scans, StrayEnds(r)
      PROVE  RowChange(s)
  BY <1>2, DbUntouched DEF StrayEnds
<1>3. QED
  BY <1>1, <1>2, ClientRowStep, WorkerRowStep DEF Next

-----------------------------------------------------------------------------
\* KeysUnique, however many requests race with the same Idempotency-Key: the
\* unique index is enough, the lookup before it is not needed for it.
THEOREM IdempotencyKeysAreUnique == Spec => []KeysUnique
<1>1. Init => KeysUnique
  BY DEF Init, KeysUnique, Exists, Live, Terminal
<1>2. ASSUME TypeOK, KeysUnique, [Next]_vars
      PROVE  KeysUnique'
  <2>1. SUFFICES ASSUME NEW s \in Scans, NEW t \in Scans, Exists(s)', Exists(t)',
                        key'[s] = key'[t], key'[s] # None, s # t
                 PROVE  FALSE
    BY DEF KeysUnique
  <2>2. \A r \in Scans : Exists(r)' => Inserted(r) \/ (Exists(r) /\ key'[r] = key[r])
    BY <1>2, RowStep DEF RowChange, Deleted, Recorded, FailedSilently, ScanningPublished,
       Echoed, Untouched, SameKey, Exists, Live, Terminal
  <2>3. CASE Inserted(s)
    BY <2>1, <2>3 DEF Inserted, KeyTaken, Exists
  <2>4. CASE Inserted(t)
    BY <2>1, <2>4 DEF Inserted, KeyTaken, Exists
  <2>5. CASE ~Inserted(s) /\ ~Inserted(t)
    BY <1>2, <2>1, <2>2, <2>5 DEF KeysUnique
  <2>6. QED
    BY <2>3, <2>4, <2>5
<1>3. QED
  BY <1>1, <1>2, Typing, PTL DEF Spec

-----------------------------------------------------------------------------
(* The progress log *)

\* The event at i of a log tells stage; from is the request that inserted the row.
Told(events, stage, from, i) ==
  /\ events[i] = stage
  /\ \A j \in (i + 1)..Len(events) :
       \/ events[j] = "scanning"
       \/ /\ events[j] \in {"preparing", "failed"}
          /\ \/ \E k \in 1..(i - 1) : events[k] = events[j]
             \/ events[j] = "failed" /\ from = "rescan"

Silent(stage, from) == stage = "failed" /\ from = "rescan"

Agrees(events, stage, from) ==
  Silent(stage, from) \/ \E i \in 1..Len(events) : Told(events, stage, from, i)

\* The event e may be appended to the log without hiding the event that tells
\* stage: it is old news, or it is that event.
Known(events, stage, from, e) ==
  \/ e = "failed" /\ from = "rescan"
  \/ \E k \in 1..Len(events) :
       /\ events[k] = e
       /\ \/ stage = e
          \/ Silent(stage, from)
          \/ \E i \in (k + 1)..Len(events) : Told(events, stage, from, i)

LEMMA AppendFacts ==
  ASSUME NEW events \in Seq(Stages), NEW e \in Stages
  PROVE  /\ Len(events) \in Nat
         /\ Len(Append(events, e)) = Len(events) + 1
         /\ Append(events, e)[Len(events) + 1] = e
         /\ \A i \in 1..Len(events) : Append(events, e)[i] = events[i]
  OBVIOUS

\* The event of a new status tells it, and what was known stays known.
LEMMA NewStatusAgrees ==
  ASSUME NEW events \in Seq(Stages), NEW stage \in Stages, NEW from
  PROVE  /\ Agrees(Append(events, stage), stage, from)
         /\ \A e, old : Known(events, old, from, e) => Known(Append(events, stage), stage, from, e)
<1> DEFINE longer == Append(events, stage)
           n == Len(events)
<1>1. /\ n \in Nat
      /\ Len(longer) = n + 1
      /\ longer[n + 1] = stage
      /\ \A i \in 1..n : longer[i] = events[i]
  BY AppendFacts
<1> HIDE DEF longer, n
<1>2. Told(longer, stage, from, n + 1)
  BY <1>1 DEF Told
<1>3. Agrees(longer, stage, from)
  BY <1>1, <1>2 DEF Agrees
<1>4. ASSUME NEW e, NEW old, Known(events, old, from, e)
      PROVE  Known(longer, stage, from, e)
  <2>1. CASE e = "failed" /\ from = "rescan"
    BY <2>1 DEF Known
  <2>2. CASE \E k \in 1..n : events[k] = e
    <3>1. PICK k \in 1..n : events[k] = e
      BY <2>2
    <3>2. /\ k \in 1..Len(longer)
          /\ longer[k] = e
          /\ n + 1 \in (k + 1)..Len(longer)
      BY <1>1, <3>1
    <3>3. QED
      BY <1>2, <3>2 DEF Known
  <2>3. QED
    BY <1>4, <2>1, <2>2 DEF Known, n
<1>5. QED
  BY <1>3, <1>4 DEF longer

\* An event that hides nothing: the scanning event, or one that is old news for
\* the event at i.
LEMMA StillTold ==
  ASSUME NEW events \in Seq(Stages), NEW stage, NEW from, NEW e \in Stages,
         NEW i \in 1..Len(events), Told(events, stage, from, i),
         \/ e = "scanning"
         \/ /\ e \in {"preparing", "failed"}
            /\ (\E k \in 1..(i - 1) : events[k] = e) \/ (e = "failed" /\ from = "rescan")
  PROVE  Told(Append(events, e), stage, from, i)
<1> DEFINE longer == Append(events, e)
           n == Len(events)
<1>1. /\ n \in Nat
      /\ Len(longer) = n + 1
      /\ longer[n + 1] = e
      /\ \A j \in 1..n : longer[j] = events[j]
  BY AppendFacts
<1> HIDE DEF longer
<1>2. \A k \in 1..(i - 1) : longer[k] = events[k]
  BY <1>1
<1>3. longer[i] = stage
  BY <1>1 DEF Told
<1>4. ASSUME NEW j \in (i + 1)..Len(longer)
      PROVE  \/ longer[j] = "scanning"
             \/ /\ longer[j] \in {"preparing", "failed"}
                /\ \/ \E k \in 1..(i - 1) : longer[k] = longer[j]
                   \/ longer[j] = "failed" /\ from = "rescan"
  <2>1. CASE j = n + 1
    BY <1>1, <1>2, <2>1
  <2>2. CASE j # n + 1
    <3>1. j \in (i + 1)..n /\ longer[j] = events[j]
      BY <1>1, <2>2
    <3>2. QED
      BY <1>2, <3>1 DEF Told
  <2>3. QED
    BY <2>1, <2>2
<1>5. Told(longer, stage, from, i)
  BY <1>3, <1>4 DEF Told
<1>6. QED
  BY <1>5 DEF longer

\* An event that leaves every telling event told leaves what is known known.
LEMMA StillKnown ==
  ASSUME NEW events \in Seq(Stages), NEW stage, NEW from, NEW e \in Stages, NEW old,
         Known(events, stage, from, old),
         \/ Silent(stage, from)
         \/ \A k \in 1..Len(events) :
              (\E i \in (k + 1)..Len(events) : Told(events, stage, from, i)) =>
                \E i \in (k + 1)..(Len(events) + 1) : Told(Append(events, e), stage, from, i)
  PROVE  Known(Append(events, e), stage, from, old)
<1> DEFINE longer == Append(events, e)
           n == Len(events)
<1>1. /\ n \in Nat
      /\ Len(longer) = n + 1
      /\ \A j \in 1..n : longer[j] = events[j]
  BY AppendFacts
<1>2. CASE old = "failed" /\ from = "rescan"
  BY <1>2 DEF Known
<1>3. ASSUME NEW k \in 1..n, events[k] = old,
             \/ stage = old
             \/ Silent(stage, from)
             \/ \E i \in (k + 1)..n : Told(events, stage, from, i)
      PROVE  Known(longer, stage, from, old)
  <2>1. k \in 1..Len(longer) /\ longer[k] = old
    BY <1>1, <1>3
  <2>2. \/ stage = old
        \/ Silent(stage, from)
        \/ \E i \in (k + 1)..Len(longer) : Told(longer, stage, from, i)
    BY <1>1, <1>3
  <2>3. QED
    BY <2>1, <2>2 DEF Known
<1>4. QED
  BY <1>2, <1>3 DEF Known

\* The scanning event hides nothing.
LEMMA ScanningHidesNothing ==
  ASSUME NEW events \in Seq(Stages), NEW stage, NEW from
  PROVE  /\ Agrees(events, stage, from) => Agrees(Append(events, "scanning"), stage, from)
         /\ \A e : Known(events, stage, from, e) => Known(Append(events, "scanning"), stage, from, e)
<1> DEFINE longer == Append(events, "scanning")
           n == Len(events)
<1>1. "scanning" \in Stages
  BY DEF Stages
<1>2. n \in Nat /\ Len(longer) = n + 1
  BY <1>1, AppendFacts
<1>3. \A i \in 1..n : Told(events, stage, from, i) => Told(longer, stage, from, i)
  BY <1>1, StillTold
<1>4. Agrees(events, stage, from) => Agrees(longer, stage, from)
  BY <1>2, <1>3 DEF Agrees
<1>5. \A k \in 1..n :
        (\E i \in (k + 1)..n : Told(events, stage, from, i)) =>
          \E i \in (k + 1)..(n + 1) : Told(longer, stage, from, i)
  BY <1>2, <1>3
<1>6. QED
  BY <1>1, <1>4, <1>5, StillKnown

\* Neither does an echo of what is known.
LEMMA EchoHidesNothing ==
  ASSUME NEW events \in Seq(Stages), NEW stage, NEW from, NEW e \in {"preparing", "failed"},
         Known(events, stage, from, e)
  PROVE  /\ Agrees(events, stage, from) => Agrees(Append(events, e), stage, from)
         /\ \A old : Known(events, stage, from, old) => Known(Append(events, e), stage, from, old)
<1> DEFINE longer == Append(events, e)
           n == Len(events)
<1>1. e \in Stages
  BY DEF Stages
<1>2. n \in Nat /\ Len(longer) = n + 1
  BY <1>1, AppendFacts
<1>3. ASSUME \A i \in 1..n : Told(events, stage, from, i) =>
               \E m \in i..n : Told(longer, stage, from, m)
      PROVE  /\ Agrees(events, stage, from) => Agrees(longer, stage, from)
             /\ \A old : Known(events, stage, from, old) => Known(longer, stage, from, old)
  <2>1. Agrees(events, stage, from) => Agrees(longer, stage, from)
    <3>1. SUFFICES ASSUME NEW i \in 1..n, Told(events, stage, from, i)
                   PROVE  \E m \in 1..Len(longer) : Told(longer, stage, from, m)
      BY DEF Agrees
    <3>2. PICK m \in i..n : Told(longer, stage, from, m)
      BY <1>3, <3>1
    <3>3. m \in 1..Len(longer)
      BY <1>2, <3>2
    <3>4. QED
      BY <3>2, <3>3
  <2>2. ASSUME NEW k \in 1..n, NEW i \in (k + 1)..n, Told(events, stage, from, i)
        PROVE  \E m \in (k + 1)..(n + 1) : Told(longer, stage, from, m)
    <3>1. i \in 1..n
      BY <1>2, <2>2
    <3>2. PICK m \in i..n : Told(longer, stage, from, m)
      BY <1>3, <2>2, <3>1
    <3>3. m \in (k + 1)..(n + 1)
      BY <1>2, <2>2, <3>2
    <3>4. QED
      BY <3>2, <3>3
  <2>3. QED
    BY <1>1, <2>1, <2>2, StillKnown
<1>4. CASE e = "failed" /\ from = "rescan"
  <2>1. \A i \in 1..n : Told(events, stage, from, i) => Told(longer, stage, from, i)
    BY <1>1, <1>4, StillTold
  <2>2. \A i \in 1..n : i \in i..n
    BY <1>2
  <2>3. QED
    BY <1>3, <2>1, <2>2
<1>5. CASE stage = e
  BY <1>1, <1>5, NewStatusAgrees
<1>6. CASE Silent(stage, from)
  BY <1>1, <1>6, StillKnown DEF Agrees
<1>7. ASSUME NEW k \in 1..n, events[k] = e, NEW i \in (k + 1)..n, Told(events, stage, from, i)
      PROVE  /\ Agrees(events, stage, from) => Agrees(longer, stage, from)
             /\ \A old : Known(events, stage, from, old) => Known(longer, stage, from, old)
  <2>1. SUFFICES ASSUME NEW h \in 1..n, Told(events, stage, from, h)
                 PROVE  \E m \in h..n : Told(longer, stage, from, m)
    BY <1>3
  <2>2. CASE h > k
    <3>1. k \in 1..(h - 1) /\ h \in h..n
      BY <1>2, <2>2
    <3>2. Told(longer, stage, from, h)
      BY <1>1, <1>7, <2>1, <3>1, StillTold
    <3>3. QED
      BY <3>1, <3>2
  <2>3. CASE h <= k
    <3>1. k \in 1..(i - 1) /\ i \in h..n /\ i \in 1..n
      BY <1>2, <1>7, <2>3
    <3>2. Told(longer, stage, from, i)
      BY <1>1, <1>7, <3>1, StillTold
    <3>3. QED
      BY <3>1, <3>2
  <2>4. QED
    BY <1>2, <2>2, <2>3
<1>8. QED
  BY <1>4, <1>5, <1>6, <1>7 DEF Known

\* The silent FAILED of a rescan excuses the log, and forgets nothing.
LEMMA SilenceHidesNothing ==
  ASSUME NEW events, NEW old, NEW stage, NEW from, Silent(stage, from)
  PROVE  /\ Agrees(events, stage, from)
         /\ \A e : Known(events, old, from, e) => Known(events, stage, from, e)
  BY DEF Agrees, Known

LEMMA AgreesWithRow ==
  ASSUME NEW events, NEW st \in Live \cup Terminal, NEW from
  PROVE  Agrees(events, RecordedStage[st], from) <=>
           (~(st = "failed" /\ from = "rescan") =>
              \E i \in 1..Len(events) : Told(events, RecordedStage[st], from, i))
<1>1. RecordedStage[st] = "failed" <=> st = "failed"
  BY DEF RecordedStage, Live, Terminal
<1>2. QED
  BY <1>1 DEF Agrees, Silent

-----------------------------------------------------------------------------
\* The id a request is about to insert has never had a row and is nobody else's.
DrawnIdsAreNew ==
  \A c \in Clients : request[c].step = "insert" =>
    /\ status[request[c].scan] = "absent"
    /\ \A b \in Clients \ {c} : request[b].scan # request[c].scan

\* What may happen to the scan of a request.
ScanChange(c) ==
  \/ /\ request'[c].scan \in {request[c].scan, None}
     /\ request'[c].step = "insert" => request'[c] = request[c]
  \/ /\ Fresh(request'[c].scan) \/ status[request'[c].scan] \in Live
     /\ request'[c].step # "insert"
  \/ /\ Fresh(request'[c].scan)
     /\ UNCHANGED status
     /\ \A b \in Clients \ {c} : request'[b] = request[b]

LEMMA ScanChanges ==
  ASSUME TypeOK, [Next]_vars, NEW c \in Clients
  PROVE  ScanChange(c)
<1>0. request \in [Clients -> Requests]
  BY DEF TypeOK, RequestsOK
<1>1. CASE request'[c] = request[c]
  BY <1>1 DEF ScanChange
<1>2. CASE ClientNext(c)
  <2>1. ASSUME NEW k \in Keys \cup {None}, NEW r \in Scans, CreateLookup(c, k, r)
        PROVE  ScanChange(c)
    BY <1>0, <2>1 DEF CreateLookup, ScanChange, db
  <2>2. ASSUME NEW original \in Scans, NEW r \in Scans, Rescan(c, original, r)
        PROVE  ScanChange(c)
    BY <1>0, <2>2 DEF Rescan, InsertRow, IdleRequest, ScanChange
  <2>3. ASSUME NEW r \in Scans, CancelRead(c, r)
        PROVE  ScanChange(c)
    BY <1>0, <2>3 DEF CancelRead, IdleRequest, ScanChange
  <2>4. ASSUME NEW r \in Scans, Delete(c, r)
        PROVE  ScanChange(c)
    BY <1>1, <2>4 DEF Delete
  <2>5. CASE Leave(c)
    BY <1>0, <2>5 DEF Leave, IdleRequest, ScanChange
  <2>6. CASE CreateInsert(c)
    BY <1>0, <2>5, <2>6 DEF CreateInsert, InsertRow, IdleRequest, ScanChange
  <2>7. CASE Dispatch(c)
    BY <1>0, <2>5, <2>7 DEF Dispatch, Requests, ScanChange
  <2>8. CASE FailDispatch(c) \/ CancelCommit(c) \/ ApiCrash(c) \/ \E v \in Workers : RequestLosesSequence(c, v)
    BY <2>5, <2>8 DEF FailDispatch, CancelCommit, ApiCrash, RequestLosesSequence
  <2>9. QED
    BY <1>2, <2>1, <2>2, <2>3, <2>4, <2>6, <2>7, <2>8 DEF ClientNext, RequestStep
<1>3. ASSUME NEW b \in Clients, b # c, ClientNext(b)
      PROVE  request'[c] = request[c]
  BY <1>0, <1>3 DEF ClientNext, RequestStep, CreateLookup, Rescan, CancelRead, Delete, CreateInsert,
     InsertRow, Dispatch, FailDispatch, CancelCommit, RequestLosesSequence, ApiCrash, Leave
<1>4. ASSUME NEW w \in Workers, WorkerNext(w)
      PROVE  request' = request
  BY <1>4 DEF WorkerNext, WorkerStep, Deliver, Claim, BeginScanning, PublishScanning, CallScanner,
     ScannerReplies, ReadReply, Ingest, Raise, LoadToFail, Fail, Ack, WorkerLosesSequence, Redeliver,
     WorkerCrash, ChildKilled, StoreError, api
<1>5. CASE UNCHANGED vars \/ \E s \in Scans : StrayEnds(s)
  BY <1>1, <1>5 DEF vars, StrayEnds, api
<1>6. QED
  BY <1>1, <1>2, <1>3, <1>4, <1>5 DEF Next

LEMMA DrawnIdsStayNew ==
  ASSUME TypeOK, DrawnIdsAreNew, [Next]_vars
  PROVE  DrawnIdsAreNew'
<1>1. SUFFICES ASSUME NEW c \in Clients, request'[c].step = "insert"
               PROVE  /\ status'[request'[c].scan] = "absent"
                      /\ \A b \in Clients \ {c} : request'[b].scan # request'[c].scan
  BY DEF DrawnIdsAreNew
<1>2. CASE request'[c] = request[c]
  <2> DEFINE t == request[c].scan
  <2>1. /\ t \in Scans /\ t # None
        /\ status[t] = "absent"
        /\ \A b \in Clients \ {c} : request[b].scan # t
    BY <1>1, <1>2, ConstantsAssumption DEF DrawnIdsAreNew, TypeOK, RequestsOK
  <2>2. ~Fresh(t) /\ status[t] \notin Live /\ ~Exists(t)
    BY <2>1 DEF Fresh, Exists, Live, Terminal
  <2>3. status'[t] = "absent"
    <3>1. ~Inserted(t)
      BY <1>1, <1>2, <2>1, <2>2 DEF Inserted, InsertedBy
    <3>2. ~Deleted(t)
      BY <2>2 DEF Deleted
    <3>3. QED
      BY <2>1, <2>2, <3>1, <3>2, RowStep DEF RowChange, Recorded, FailedSilently, ScanningPublished,
         Echoed, Untouched
  <2>4. ASSUME NEW b \in Clients \ {c}
        PROVE  request'[b].scan # t
    BY <1>1, <1>2, <2>1, <2>2, ScanChanges DEF ScanChange
  <2>5. QED
    BY <1>2, <2>3, <2>4
<1>3. CASE request'[c] # request[c]
  BY <1>1, <1>3, ScanChanges DEF ScanChange, Fresh
<1>4. QED
  BY <1>2, <1>3

\* A row is inserted once: its id was never used before.
LEMMA InsertedFromAbsent ==
  ASSUME DrawnIdsAreNew, NEW s \in Scans, Inserted(s)
  PROVE  status[s] = "absent"
  BY DEF DrawnIdsAreNew, Inserted, InsertedBy, Fresh

-----------------------------------------------------------------------------
\* The echo e of scan s is harmless whenever it comes.
Noted(s, e) ==
  \/ status[s] = "deleted"
  \/ Exists(s) /\ Known(log[s], RecordedStage[status[s]], origin[s], e)

EchoesAreKnown ==
  \A w \in Workers, s \in Scans, e \in {"preparing", "failed"} : Echoing(w, s, e) => Noted(s, e)

\* An echo begins when a task loads the row in the status it is about to assign.
LEMMA EchoBegins ==
  ASSUME TypeOK, [Next]_vars, NEW w \in Workers, NEW s \in Scans, NEW e, Echoing(w, s, e)'
  PROVE  \/ Echoing(w, s, e)
         \/ /\ Exists(s)
            /\ RecordedStage[status[s]] = e
            /\ UNCHANGED <<status, log, key, origin>>
<1> DEFINE Loaded == /\ Exists(s)
                     /\ RecordedStage[status[s]] = e
                     /\ UNCHANGED <<status, log, key, origin>>
<1>0. /\ worker \in [Workers -> Tasks]
      /\ \A u \in Workers : worker[u] \in Tasks
  BY DEF TypeOK, TasksOK
<1>1. CASE worker'[w] = worker[w]
  BY <1>1 DEF Echoing
<1>2. worker'[w].step \in {"claim", "fail"} /\ worker'[w].scan = s /\ ~worker'[w].changes
  BY DEF Echoing
<1>3. CASE worker'[w] # worker[w]
  <2>1. ~UNCHANGED vars /\ ~\E r \in Scans : StrayEnds(r)
    BY <1>3 DEF vars, StrayEnds
  <2>2. ASSUME NEW c \in Clients, ClientNext(c)
        PROVE  FALSE
    <3>1. ASSUME NEW v \in Workers, RequestLosesSequence(c, v)
          PROVE  FALSE
      BY <1>0, <1>2, <1>3, <3>1 DEF RequestLosesSequence, Tasks
    <3>2. QED
      BY <1>3, <2>2, <3>1 DEF ClientNext, RequestStep, CreateLookup, Rescan, CancelRead, Delete,
         CreateInsert, Dispatch, FailDispatch, CancelCommit, ApiCrash
  <2>3. ASSUME NEW u \in Workers, NEW v \in Workers, WorkerLosesSequence(u, v)
        PROVE  FALSE
    BY <1>0, <1>2, <1>3, <2>3 DEF WorkerLosesSequence, Tasks
  <2>4. ASSUME NEW u \in Workers, u # w, WorkerNext(u)
        PROVE  FALSE
    BY <1>0, <1>3, <2>3, <2>4 DEF WorkerNext, WorkerStep, Deliver, Claim, BeginScanning, PublishScanning,
       CallScanner, ScannerReplies, ReadReply, Ingest, Raise, LoadToFail, Fail, Ack, Redeliver,
       WorkerCrash, ChildKilled, StoreError, Abandon, Goto, Load
  <2>5. CASE WorkerNext(w)
    <3>1. ASSUME NEW r \in Scans, Deliver(w, r)
          PROVE  Loaded
      <4>1. worker' = [worker EXCEPT ![w] =
               [IdleWorker EXCEPT !.step = "claim", !.scan = r, !.changes = status[r] # "running"]]
        BY <1>3, <3>1 DEF Deliver
      <4>2. worker'[w].scan = r /\ worker'[w].step = "claim" /\ worker'[w].changes = (status[r] # "running")
        BY <1>0, <4>1 DEF IdleWorker
      <4>3. s = r /\ status[s] = "running" /\ e = "preparing"
        BY <1>2, <4>2 DEF Echoing
      <4>4. QED
        BY <3>1, <4>3 DEF Deliver, Exists, Live, RecordedStage, db, rows
    <3>2. CASE LoadToFail(w)
      <4>1. Exists(worker[w].scan) /\ Load(w, "fail", status[worker[w].scan] # "failed")
        BY <1>0, <1>2, <3>2 DEF LoadToFail, Goto, Tasks
      <4>2. /\ worker'[w].scan = worker[w].scan
            /\ worker'[w].step = "fail"
            /\ worker'[w].changes = (status[worker[w].scan] # "failed")
        BY <1>0, <4>1 DEF Load, Tasks
      <4>3. worker[w].scan = s /\ status[s] = "failed" /\ e = "failed"
        BY <1>2, <4>2 DEF Echoing
      <4>4. QED
        BY <3>2, <4>1, <4>3 DEF LoadToFail, RecordedStage, db, rows
    <3>3. ASSUME NEW step \in WorkerSteps \ {"claim", "fail"}, NEW changes,
                 Goto(w, step) \/ Load(w, step, changes)
          PROVE  FALSE
      <4>1. worker'[w].step = step
        BY <1>0, <3>3 DEF Goto, Load, Tasks
      <4>2. QED
        BY <1>2, <3>3, <4>1
    <3>4. CASE Claim(w) \/ Fail(w) \/ StoreError(w)
      <4>1. Load(w, "prepare", FALSE) \/ Load(w, "done", FALSE)
        BY <3>4 DEF Claim, Fail, StoreError
      <4>2. QED
        BY <3>3, <4>1 DEF WorkerSteps, Trying
    <3>5. CASE BeginScanning(w) \/ PublishScanning(w) \/ Ingest(w)
      BY <1>0, <1>2, <3>5 DEF BeginScanning, PublishScanning, Ingest, Goto, Tasks
    <3>6. CASE CallScanner(w) \/ ScannerReplies(w)
      <4>1. Goto(w, "engine") \/ Goto(w, "reply")
        BY <3>6 DEF CallScanner, ScannerReplies
      <4>2. QED
        BY <3>3, <4>1 DEF WorkerSteps, Trying
    <3>7. CASE ReadReply(w) \/ Raise(w) \/ Ack(w)
      <4>1. CASE ReadReply(w)
        BY <1>0, <1>2, <4>1 DEF ReadReply, Goto, Tasks
      <4>2. CASE Raise(w)
        BY <1>0, <1>2, <4>2 DEF Raise, CaughtAt, IdleWorker
      <4>3. CASE Ack(w)
        BY <1>0, <1>2, <4>3 DEF Ack, IdleWorker
      <4>4. QED
        BY <3>7, <4>1, <4>2, <4>3
    <3>8. CASE Redeliver(w) \/ WorkerCrash(w) \/ ChildKilled(w)
      BY <1>0, <1>2, <1>3, <3>8 DEF Redeliver, WorkerCrash, ChildKilled, Abandon, IdleWorker
    <3>9. QED
      BY <2>3, <2>5, <3>1, <3>2, <3>4, <3>5, <3>6, <3>7, <3>8 DEF WorkerNext, WorkerStep
  <2>6. QED
    BY <2>1, <2>2, <2>4, <2>5 DEF Next
<1>4. QED
  BY <1>1, <1>3

\* What one step does to the row, its log agrees with, and it hides no event that
\* a task may still repeat.
LEMMA RowKeepsTelling ==
  ASSUME TypeOK, DrawnIdsAreNew, EchoesAreKnown, [Next]_vars, NEW s \in Scans,
         Exists(s) => Agrees(log[s], RecordedStage[status[s]], origin[s])
  PROVE  /\ Exists(s)' => Agrees(log'[s], RecordedStage[status'[s]], origin'[s])
         /\ \A e \in {"preparing", "failed"} : Noted(s, e) => Noted(s, e)'
<1>0. /\ log[s] \in Seq(Stages)
      /\ \A st \in Live \cup Terminal : RecordedStage[st] \in Stages
  BY DEF TypeOK, RowsOK, RecordedStage, Live, Terminal, Stages
<1>1. CASE Inserted(s)
  <2>1. status[s] = "absent" /\ ~Exists(s)
    BY <1>1, InsertedFromAbsent DEF Exists, Live, Terminal
  <2>2. log'[s] = Append(log[s], "queued") /\ RecordedStage[status'[s]] = "queued"
    BY <1>1 DEF Inserted, RecordedStage
  <2>3. QED
    BY <1>0, <2>1, <2>2, NewStatusAgrees DEF Noted, Stages
<1>2. CASE Deleted(s)
  BY <1>2 DEF Deleted, Exists, Live, Terminal, Noted
<1>3. CASE Recorded(s)
  <2>1. PICK st \in Live \cup Terminal : status'[s] = st /\ log'[s] = Append(log[s], RecordedStage[st])
    BY <1>3 DEF Recorded
  <2>2. Exists(s) /\ Exists(s)' /\ status[s] # "deleted" /\ origin'[s] = origin[s]
    BY <1>3, <2>1 DEF Recorded, SameKey, Exists, Live, Terminal
  <2>3. QED
    BY <1>0, <2>1, <2>2, NewStatusAgrees DEF Noted
<1>4. CASE FailedSilently(s)
  <2>1. Exists(s) /\ Exists(s)' /\ status[s] # "deleted" /\ origin'[s] = origin[s] /\ log'[s] = log[s]
    BY <1>4 DEF FailedSilently, SameKey, Exists, Live, Terminal
  <2>2. Silent(RecordedStage[status'[s]], origin[s])
    BY <1>4 DEF FailedSilently, Silent, RecordedStage
  <2>3. QED
    BY <2>1, <2>2, SilenceHidesNothing DEF Noted
<1>5. CASE ScanningPublished(s)
  <2>1. /\ Exists(s) /\ status[s] # "deleted" /\ status'[s] = status[s]
        /\ origin'[s] = origin[s] /\ log'[s] = Append(log[s], "scanning")
    BY <1>5 DEF ScanningPublished, SameKey, Exists, Live, Terminal
  <2>2. QED
    BY <1>0, <2>1, ScanningHidesNothing DEF Noted, Exists
<1>6. CASE Echoed(s)
  <2>1. PICK w \in Workers, e \in {"preparing", "failed"} :
          Echoing(w, s, e) /\ log'[s] = Append(log[s], e)
    BY <1>6 DEF Echoed
  <2>2. Exists(s) /\ status[s] # "deleted" /\ status'[s] = status[s] /\ origin'[s] = origin[s]
    BY <1>6 DEF Echoed, SameKey, Exists, Live, Terminal
  <2>3. Known(log[s], RecordedStage[status[s]], origin[s], e)
    BY <2>1, <2>2 DEF EchoesAreKnown, Noted
  <2>4. QED
    BY <1>0, <2>1, <2>2, <2>3, EchoHidesNothing DEF Noted, Exists
<1>7. CASE Untouched(s)
  BY <1>7 DEF Untouched, SameKey, Noted, Exists
<1>8. QED
  BY <1>1, <1>2, <1>3, <1>4, <1>5, <1>6, <1>7, RowStep DEF RowChange

\* LogAgreesWithStatus, whatever requests and tasks interleave on one scan: the
\* log holds the event of the row's status, and after it only the scanning event
\* and echoes.  The invariant behind it says that a task that will leave the
\* status out of its UPDATE can only repeat an event that is already older than
\* the one that counts.
THEOREM LogTellsStatus == Spec => []LogAgreesWithStatus
<1> DEFINE Inv == DrawnIdsAreNew /\ LogAgreesWithStatus /\ EchoesAreKnown
<1>1. Init => Inv
  BY DEF Init, LogAgreesWithStatus, Exists, Live, Terminal, DrawnIdsAreNew, IdleRequest,
     EchoesAreKnown, Echoing, IdleWorker
<1>2. ASSUME TypeOK, Inv, [Next]_vars
      PROVE  Inv'
  <2>1. DrawnIdsAreNew'
    BY <1>2, DrawnIdsStayNew
  <2>2. \A s \in Scans : Exists(s) => Agrees(log[s], RecordedStage[status[s]], origin[s])
    BY <1>2, AgreesWithRow DEF LogAgreesWithStatus, SilentlyFailed, Tells, Repeats, Told, Exists
  <2>3. \A s \in Scans :
          /\ Exists(s)' => Agrees(log'[s], RecordedStage[status'[s]], origin'[s])
          /\ \A e \in {"preparing", "failed"} : Noted(s, e) => Noted(s, e)'
    BY <1>2, <2>2, RowKeepsTelling
  <2>4. LogAgreesWithStatus'
    <3>1. SUFFICES ASSUME NEW s \in Scans, Exists(s)', ~SilentlyFailed(s)'
                   PROVE  \E i \in 1..Len(log'[s]) : Tells(s, i)'
      BY DEF LogAgreesWithStatus
    <3>2. /\ status'[s] \in Live \cup Terminal
          /\ ~(status'[s] = "failed" /\ origin'[s] = "rescan")
      BY <3>1 DEF Exists, SilentlyFailed
    <3>3. \E i \in 1..Len(log'[s]) : Told(log'[s], RecordedStage[status'[s]], origin'[s], i)
      BY <2>3, <3>1, <3>2, AgreesWithRow
    <3>4. QED
      BY <3>3 DEF Tells, Repeats, Told
  <2>5. EchoesAreKnown'
    <3>1. SUFFICES ASSUME NEW w \in Workers, NEW s \in Scans, NEW e \in {"preparing", "failed"},
                          Echoing(w, s, e)'
                   PROVE  Noted(s, e)'
      BY DEF EchoesAreKnown
    <3>2. CASE Echoing(w, s, e)
      BY <1>2, <2>3, <3>2 DEF EchoesAreKnown
    <3>3. CASE Exists(s) /\ RecordedStage[status[s]] = e /\ UNCHANGED <<status, log, key, origin>>
      <4>1. Known(log[s], RecordedStage[status[s]], origin[s], e)
        BY <2>2, <3>3 DEF Agrees, Silent, Known, Told
      <4>2. QED
        BY <3>3, <4>1 DEF Noted, Exists
    <3>4. QED
      BY <1>2, <3>1, <3>2, <3>3, EchoBegins
  <2>6. QED
    BY <2>1, <2>4, <2>5
<1>3. QED
  BY <1>1, <1>2, Typing, PTL DEF Spec

-----------------------------------------------------------------------------
(* Artefacts *)

\* Artefact rows are inserted or moved only by the ingestion of a document, and
\* removed only with their scan.
Ingested(s, d) ==
  /\ MayIngest(s)
  /\ cbom[s] # None /\ UNCHANGED cbom
  /\ owner' = [a \in Assets |-> IF a \in d.found THEN s ELSE owner[a]]
  /\ log'[s] = Append(log[s], "completed")
  /\ status' = [status EXCEPT ![s] = status'[s]]
  /\ status'[s] \in Terminal

LEMMA OwnerStep ==
  ASSUME TypeOK, [Next]_vars
  PROVE  \/ UNCHANGED owner
         \/ \E s \in Scans : Deleted(s)
         \/ \E s \in Scans, d \in Documents : Ingested(s, d)
<1>1. CASE UNCHANGED vars
  BY <1>1 DEF vars
<1>2. ASSUME NEW s \in Scans, StrayEnds(s)
      PROVE  UNCHANGED owner
  BY <1>2 DEF StrayEnds, db, rows
<1>3. ASSUME NEW c \in Clients, ClientNext(c)
      PROVE  UNCHANGED owner \/ \E s \in Scans : Deleted(s)
  <2>1. CASE \E s \in Scans : Delete(c, s)
    BY <2>1 DEF Delete, Deleted, TypeOK, RowsOK
  <2>2. CASE ~\E s \in Scans : Delete(c, s)
    BY <1>3, <2>2 DEF ClientNext, RequestStep, CreateLookup, Rescan, CancelRead, CreateInsert, InsertRow,
       Dispatch, FailDispatch, CancelCommit, RequestLosesSequence, ApiCrash, db, rows
  <2>3. QED
    BY <2>1, <2>2
<1>4. ASSUME NEW w \in Workers, WorkerNext(w)
      PROVE  UNCHANGED owner \/ \E s \in Scans, d \in Documents : Ingested(s, d)
  <2>1. CASE Ingest(w)
    <3> DEFINE s == worker[w].scan
               d == worker[w].doc
    <3>1. s \in Scans /\ d \in Documents /\ cbom[s] # None
      BY <2>1, ConstantsAssumption DEF Ingest, TypeOK, TasksOK
    <3>2. CASE UNCHANGED owner
      BY <3>2
    <3>3. CASE MayIngest(s) /\ owner' = [a \in Assets |-> IF a \in d.found THEN s ELSE owner[a]]
               /\ \E st \in {"succeeded", "partial"} : Record(s, st, "completed")
      <4>1. PICK st \in {"succeeded", "partial"} : Record(s, st, "completed")
        BY <3>3
      <4>2. status' = [status EXCEPT ![s] = st] /\ status'[s] = st /\ log'[s] = Append(log[s], "completed")
        BY <3>1, <4>1 DEF Record, TypeOK, RowsOK
      <4>3. st \in Terminal /\ UNCHANGED cbom
        BY <2>1 DEF Ingest, Terminal, scanner
      <4>4. QED
        BY <3>1, <3>3, <4>2, <4>3 DEF Ingested
    <3>4. QED
      BY <2>1, <3>2, <3>3 DEF Ingest
  <2>2. CASE ~Ingest(w)
    BY <1>4, <2>2 DEF WorkerNext, WorkerStep, Deliver, Claim, BeginScanning, PublishScanning, CallScanner,
       ScannerReplies, ReadReply, Raise, LoadToFail, Fail, Ack, WorkerLosesSequence, Redeliver, WorkerCrash,
       ChildKilled, StoreError, db, rows
  <2>3. QED
    BY <2>1, <2>2
<1>5. QED
  BY <1>1, <1>2, <1>3, <1>4 DEF Next

\* A published document is never withdrawn.
LEMMA PublishedStays ==
  ASSUME TypeOK, [Next]_vars, NEW s \in Scans, cbom[s] # None
  PROVE  cbom'[s] # None
<1>1. CASE UNCHANGED cbom
  BY <1>1
<1>2. ASSUME NEW r \in Scans, NEW d \in Documents \cup {cbom[r]}, cbom' = [cbom EXCEPT ![r] = d]
      PROVE  cbom'[s] # None
  BY <1>2, ConstantsAssumption DEF TypeOK, StoresOK
<1>3. ASSUME NEW w \in Workers, ScannerReplies(w)
      PROVE  cbom'[s] # None
  BY <1>2, <1>3 DEF ScannerReplies, TypeOK, TasksOK
<1>4. ASSUME NEW r \in Scans, StrayEnds(r)
      PROVE  cbom'[s] # None
  BY <1>2, <1>4 DEF StrayEnds
<1>5. CASE UNCHANGED vars
  BY <1>1, <1>5 DEF vars
<1>6. ASSUME NEW c \in Clients, ClientNext(c)
      PROVE  UNCHANGED cbom
  BY <1>6 DEF ClientNext, RequestStep, CreateLookup, Rescan, CancelRead, Delete, CreateInsert, Dispatch,
     FailDispatch, CancelCommit, RequestLosesSequence, ApiCrash, scanner
<1>7. ASSUME NEW w \in Workers, WorkerNext(w), ~ScannerReplies(w)
      PROVE  UNCHANGED cbom
  BY <1>7 DEF WorkerNext, WorkerStep, Deliver, Claim, BeginScanning, PublishScanning, CallScanner,
     ReadReply, Ingest, Raise, LoadToFail, Fail, Ack, WorkerLosesSequence, Redeliver, WorkerCrash,
     ChildKilled, StoreError, scanner
<1>8. QED
  BY <1>1, <1>3, <1>4, <1>5, <1>6, <1>7 DEF Next

\* NoSecondInsert, for all documents and every redelivery: the artefacts of a
\* scan never mix two documents.
THEOREM ArtefactsFromOneDocument == Spec => []NoSecondInsert
<1>1. Init => NoSecondInsert
  BY ConstantsAssumption DEF Init, NoSecondInsert, ArtefactsOf
<1>2. ASSUME TypeOK, NoSecondInsert, [Next]_vars
      PROVE  NoSecondInsert'
  <2>1. SUFFICES ASSUME NEW t \in Scans, ArtefactsOf(t)' # {}
                 PROVE  \E d \in Documents : ArtefactsOf(t)' \subseteq d.found
    BY DEF NoSecondInsert
  <2>2. CASE ArtefactsOf(t)' \subseteq ArtefactsOf(t)
    BY <1>2, <2>1, <2>2 DEF NoSecondInsert
  <2>3. ASSUME NEW s \in Scans, NEW d \in Documents, Ingested(s, d)
        PROVE  \E e \in Documents : ArtefactsOf(t)' \subseteq e.found
    <3>1. CASE t = s
      BY <2>3, <3>1 DEF Ingested, MayIngest, ArtefactsOf
    <3>2. CASE t # s
      BY <2>2, <2>3, <3>2 DEF Ingested, ArtefactsOf
    <3>3. QED
      BY <3>1, <3>2
  <2>4. CASE \E s \in Scans : Deleted(s)
    BY <2>2, <2>4, ConstantsAssumption DEF Deleted, OwnersWithout, ArtefactsOf
  <2>5. QED
    BY <1>2, <2>2, <2>3, <2>4, OwnerStep DEF ArtefactsOf
<1>3. QED
  BY <1>1, <1>2, Typing, PTL DEF Spec

\* ArtefactsAccountedFor, for every interleaving of ingestion, cancellation,
\* rescans and deletion: no artefact row is left without its scan, its completed
\* event and its document.
THEOREM ArtefactsHaveAScan == Spec => []ArtefactsAccountedFor
<1> DEFINE Completed(events) == \E i \in 1..Len(events) : events[i] = "completed"
<1>0. ASSUME NEW events \in Seq(Stages), NEW stage \in Stages
      PROVE  /\ Completed(events) => Completed(Append(events, stage))
             /\ Completed(Append(events, "completed"))
  <2>1. /\ Len(events) \in Nat
        /\ Len(Append(events, stage)) = Len(events) + 1
        /\ \A i \in 1..Len(events) : Append(events, stage)[i] = events[i]
    OBVIOUS
  <2>2. /\ Len(Append(events, "completed")) = Len(events) + 1
        /\ Append(events, "completed")[Len(events) + 1] = "completed"
    BY DEF Stages
  <2>3. Completed(Append(events, "completed"))
    BY <2>1, <2>2
  <2>4. Completed(events) => Completed(Append(events, stage))
    BY <2>1
  <2>5. QED
    BY <2>3, <2>4
<1>1. Init => ArtefactsAccountedFor
  BY ConstantsAssumption DEF Init, ArtefactsAccountedFor, ArtefactsOf
<1>2. ASSUME TypeOK, ArtefactsAccountedFor, [Next]_vars
      PROVE  ArtefactsAccountedFor'
  <2> HIDE DEF Completed
  <2>1. SUFFICES ASSUME NEW s \in Scans, ArtefactsOf(s)' # {}
                 PROVE  Exists(s)' /\ cbom'[s] # None /\ Completed(log'[s])
    BY DEF ArtefactsAccountedFor, Completed
  <2>2. log[s] \in Seq(Stages) /\ \A st \in Live \cup Terminal : RecordedStage[st] \in Stages
    BY <1>2 DEF TypeOK, RowsOK, RecordedStage, Live, Terminal, Stages
  <2>3. CASE \E d \in Documents : Ingested(s, d)
    <3>1. Exists(s)' /\ cbom'[s] # None
      BY <1>2, <2>3 DEF Ingested, Exists, TypeOK, RowsOK
    <3>2. Completed(log'[s])
      BY <1>0, <2>2, <2>3 DEF Ingested, Stages
    <3>3. QED
      BY <3>1, <3>2
  <2>4. CASE ArtefactsOf(s)' \subseteq ArtefactsOf(s) /\ ~Deleted(s)
    <3>1. Exists(s) /\ cbom[s] # None /\ Completed(log[s])
      BY <1>2, <2>1, <2>4 DEF ArtefactsAccountedFor, Completed
    <3>2. Exists(s)'
      BY <1>2, <2>4, <3>1, RowStep DEF RowChange, Inserted, Recorded, FailedSilently, ScanningPublished,
         Echoed, Untouched, Exists, Live, Terminal
    <3>3. cbom'[s] # None
      BY <1>2, <3>1, PublishedStays
    <3>4. \/ log'[s] = log[s]
          \/ \E stage \in Stages : log'[s] = Append(log[s], stage)
      BY <1>2, <2>2, <2>4, RowStep DEF RowChange, Inserted, Recorded, FailedSilently, ScanningPublished,
         Untouched, Echoed, Stages
    <3>5. Completed(log'[s])
      BY <1>0, <2>2, <3>1, <3>4
    <3>6. QED
      BY <3>2, <3>3, <3>5
  <2>5. CASE Deleted(s)
    BY <2>1, <2>5, ConstantsAssumption DEF Deleted, OwnersWithout, ArtefactsOf
  <2>6. \/ \E d \in Documents : Ingested(s, d)
        \/ ArtefactsOf(s)' \subseteq ArtefactsOf(s)
    <3>1. CASE UNCHANGED owner
      BY <3>1 DEF ArtefactsOf
    <3>2. CASE \E t \in Scans : Deleted(t)
      BY <3>2, ConstantsAssumption DEF Deleted, OwnersWithout, ArtefactsOf
    <3>3. CASE \E t \in Scans, d \in Documents : Ingested(t, d)
      BY <3>3 DEF Ingested, ArtefactsOf
    <3>4. QED
      BY <1>2, <3>1, <3>2, <3>3, OwnerStep
  <2>7. QED
    BY <2>3, <2>4, <2>5, <2>6
<1>3. QED
  BY <1>1, <1>2, Typing, PTL DEF Spec

-----------------------------------------------------------------------------
(* Finished scans *)

Stays(s) == Settled(s)' /\ status'[s] = status[s] /\ log'[s] = log[s]

\* A step that leaves the row of s alone, of a client that does not turn to s.
LEMMA ClientElsewhere ==
  ASSUME NEW s \in Scans, Settled(s), NEW c \in Clients, worker' = worker,
         status'[s] = status[s], log'[s] = log[s],
         \A b \in Clients \ {c} : request'[b] = request[b],
         request'[c].scan = s => request'[c].step = "idle"
  PROVE  Stays(s)
  BY DEF Stays, Settled

LEMMA WorkerElsewhere ==
  ASSUME NEW s \in Scans, Settled(s), NEW w \in Workers, request' = request,
         status'[s] = status[s], log'[s] = log[s],
         \A v \in Workers \ {w} : worker'[v] = worker[v],
         worker'[w].scan = s => worker'[w].step \in {"idle", "done"}
  PROVE  Stays(s)
  BY DEF Stays, Settled

LEMMA ClientSettled ==
  ASSUME TypeOK, NEW s \in Scans, Settled(s), NEW c \in Clients, ClientNext(c)
  PROVE  Stays(s) \/ status'[s] = "deleted"
<1> DEFINE mine == request[c].scan
<1>0. /\ RowsOK
      /\ request \in [Clients -> Requests]
      /\ request[c].step # "idle" => mine \in Scans /\ mine # s
      /\ status[s] \in Terminal
      /\ None # s
  BY ConstantsAssumption DEF TypeOK, RequestsOK, Settled
<1>1. ASSUME NEW k \in Keys \cup {None}, NEW r \in Scans, CreateLookup(c, k, r)
      PROVE  Stays(s)
  <2>1. /\ request'[c].scan = r /\ r # s
        /\ \A b \in Clients \ {c} : request'[b] = request[b]
    BY <1>0, <1>1 DEF CreateLookup, Fresh, Terminal
  <2>2. QED
    BY <1>1, <2>1, ClientElsewhere DEF CreateLookup, db
<1>2. ASSUME NEW r \in Scans, NEW k, NEW action, InsertRow(c, r, k, action), r # s, worker' = worker
      PROVE  Stays(s)
  <2>1. /\ request'[c].scan = r
        /\ \A b \in Clients \ {c} : request'[b] = request[b]
        /\ status'[s] = status[s] /\ log'[s] = log[s]
    BY <1>0, <1>2 DEF InsertRow, IdleRequest, Record, RowsOK
  <2>2. QED
    BY <1>2, <2>1, ClientElsewhere
<1>3. ASSUME NEW original \in Scans, NEW r \in Scans, Rescan(c, original, r)
      PROVE  Stays(s)
  BY <1>0, <1>2, <1>3 DEF Rescan, Fresh, Terminal
<1>4. ASSUME NEW r \in Scans, CancelRead(c, r)
      PROVE  Stays(s)
  <2>1. /\ request'[c].scan = r /\ r # s
        /\ \A b \in Clients \ {c} : request'[b] = request[b]
    BY <1>0, <1>4 DEF CancelRead, IdleRequest, Live, Terminal
  <2>2. QED
    BY <1>4, <2>1, ClientElsewhere DEF CancelRead, db
<1>5. ASSUME NEW r \in Scans, Delete(c, r)
      PROVE  Stays(s) \/ status'[s] = "deleted"
  <2>1. CASE r = s
    BY <1>0, <1>5, <2>1 DEF Delete, RowsOK
  <2>2. CASE r # s
    BY <1>0, <1>5, <2>2 DEF Delete, RowsOK, Stays, Settled
  <2>3. QED
    BY <2>1, <2>2
<1>6. CASE CreateInsert(c)
  <2>1. CASE InsertRow(c, mine, request[c].key, "create")
    BY <1>0, <1>2, <1>6, <2>1 DEF CreateInsert
  <2>2. CASE Leave(c) /\ UNCHANGED db
    BY <1>0, <1>6, <2>2, ClientElsewhere DEF CreateInsert, Leave, IdleRequest, db
  <2>3. QED
    BY <1>6, <2>1, <2>2 DEF CreateInsert
<1>7. CASE Dispatch(c)
  <2>1. /\ \A b \in Clients \ {c} : request'[b] = request[b]
        /\ request'[c].scan # s \/ request'[c].step = "idle"
    BY <1>0, <1>7 DEF Dispatch, Leave, IdleRequest, Requests
  <2>2. QED
    BY <1>7, <2>1, ClientElsewhere DEF Dispatch, db
<1>8. ASSUME Leave(c), request[c].step # "idle", worker' = worker,
             status'[s] = status[s], log'[s] = log[s]
      PROVE  Stays(s)
  BY <1>0, <1>8, ClientElsewhere DEF Leave, IdleRequest
<1>9. CASE FailDispatch(c)
  <2>1. status'[s] = status[s] /\ log'[s] = log[s]
    BY <1>0, <1>9 DEF FailDispatch, Record, RowsOK
  <2>2. QED
    BY <1>8, <1>9, <2>1 DEF FailDispatch
<1>10. CASE CancelCommit(c)
  <2>1. status'[s] = status[s] /\ log'[s] = log[s]
    BY <1>0, <1>10 DEF CancelCommit, Record, RowsOK
  <2>2. QED
    BY <1>8, <1>10, <2>1 DEF CancelCommit
<1>11. ASSUME NEW v \in Workers, RequestLosesSequence(c, v)
       PROVE  Stays(s)
  <2>1. status'[s] = status[s] /\ log'[s] = log[s]
    BY <1>0, <1>11 DEF RequestLosesSequence, RowsOK
  <2>2. \A u \in Workers : worker'[u].scan = s => worker'[u].step \in {"idle", "done"}
    BY <1>0, <1>11 DEF RequestLosesSequence, Contends, TypeOK, TasksOK, Tasks, Settled
  <2>3. \A b \in Clients : request'[b].scan = s => request'[b].step = "idle"
    BY <1>0, <1>11 DEF RequestLosesSequence, Leave, IdleRequest, Settled
  <2>4. QED
    BY <2>1, <2>2, <2>3 DEF Stays, Settled
<1>12. CASE ApiCrash(c)
  BY <1>8, <1>12 DEF ApiCrash, db
<1>13. QED
  BY <1>1, <1>3, <1>4, <1>5, <1>6, <1>7, <1>9, <1>10, <1>11, <1>12 DEF ClientNext, RequestStep

LEMMA WorkerSettled ==
  ASSUME TypeOK, NEW s \in Scans, Settled(s), NEW w \in Workers, WorkerNext(w)
  PROVE  Stays(s)
<1> DEFINE mine == worker[w].scan
<1>0. /\ RowsOK
      /\ worker \in [Workers -> Tasks]
      /\ worker[w].step \notin {"idle", "done"} => mine \in Scans /\ mine # s
      /\ status[s] \in Terminal
  BY DEF TypeOK, TasksOK, Settled
<1>1. ASSUME NEW r \in Scans, Deliver(w, r)
      PROVE  Stays(s)
  <2>1. CASE UNCHANGED worker
    BY <1>1, <2>1 DEF Deliver, Stays, Settled, db, api
  <2>2. CASE /\ Unfinished(r)
             /\ worker' = [worker EXCEPT ![w] =
                  [IdleWorker EXCEPT !.step = "claim", !.scan = r, !.changes = status[r] # "running"]]
    <3>1. r # s
      BY <1>0, <2>2 DEF Unfinished, Live, Terminal
    <3>2. worker'[w].scan = r /\ \A v \in Workers \ {w} : worker'[v] = worker[v]
      BY <1>0, <2>2 DEF IdleWorker
    <3>3. QED
      BY <1>1, <3>1, <3>2, WorkerElsewhere DEF Deliver, db, api
  <2>3. QED
    BY <1>1, <2>1, <2>2 DEF Deliver
<1>2. CASE WorkerStep(w)
  <2>1. /\ request' = request
        /\ status'[s] = status[s] /\ log'[s] = log[s]
        /\ \A v \in Workers \ {w} : worker'[v] = worker[v]
        /\ worker'[w].scan # s \/ worker'[w].step \in {"idle", "done"}
    <3> USE <1>0 DEF RowsOK, Tasks, db, api
    <3>1. CASE Claim(w)
      <4>1. CASE Exists(mine) /\ RecordIf(worker[w].changes, mine, "running", "preparing")
        <5>0. /\ mine \in Scans /\ mine # s
              /\ \/ Record(mine, "running", "preparing")
                 \/ log' = [log EXCEPT ![mine] = Append(@, "preparing")] /\ UNCHANGED status
          BY <3>1, <4>1, RecordIfCases DEF Claim
        <5>1. status'[s] = status[s] /\ log'[s] = log[s]
          BY <5>0 DEF Record
        <5>2. Load(w, "prepare", FALSE) /\ request' = request
          BY <3>1, <4>1 DEF Claim
        <5>3. QED
          BY <5>0, <5>1, <5>2 DEF Load
      <4>2. CASE UNCHANGED <<status, log>>
        BY <3>1, <4>2 DEF Claim, Load
      <4>3. QED
        BY <3>1, <4>1, <4>2 DEF Claim
    <3>2. CASE BeginScanning(w)
      BY <3>2 DEF BeginScanning, Goto
    <3>3. CASE PublishScanning(w)
      BY <3>3 DEF PublishScanning
    <3>4. CASE CallScanner(w)
      BY <3>4 DEF CallScanner, Goto
    <3>5. CASE ScannerReplies(w)
      BY <3>5 DEF ScannerReplies, Goto
    <3>6. CASE ReadReply(w)
      BY <3>6 DEF ReadReply, Goto
    <3>7. CASE Ingest(w)
      BY <3>7 DEF Ingest, Record
    <3>8. CASE Raise(w)
      BY <3>8 DEF Raise, Trying, CaughtAt, IdleWorker
    <3>9. CASE Fail(w)
      BY <3>9, RecordIfCases DEF Fail, Record, Load
    <3>10. CASE Ack(w)
      BY <3>10 DEF Ack, IdleWorker
    <3>11. CASE LoadToFail(w)
      <4>1. UNCHANGED <<db, api>>
        BY <3>11 DEF LoadToFail
      <4>2. request' = request /\ status' = status /\ log' = log
        BY <4>1
      <4>3. CASE Load(w, "fail", status[mine] # "failed")
        BY <3>11, <4>2, <4>3 DEF LoadToFail, Load
      <4>4. CASE Goto(w, "done")
        BY <3>11, <4>2, <4>4 DEF LoadToFail, Goto
      <4>5. QED
        BY <3>11, <4>3, <4>4 DEF LoadToFail
    <3>12. QED
      BY <1>2, <3>1, <3>2, <3>3, <3>4, <3>5, <3>6, <3>7, <3>8, <3>9, <3>10, <3>11 DEF WorkerStep
  <2>2. QED
    BY <2>1, WorkerElsewhere
<1>3. ASSUME NEW v \in Workers, WorkerLosesSequence(w, v)
      PROVE  Stays(s)
  <2>1. request' = request /\ status'[s] = status[s] /\ log'[s] = log[s]
    BY <1>0, <1>3 DEF WorkerLosesSequence, RowsOK, api
  <2>2. \A u \in Workers : worker'[u].scan = s => worker'[u].step \in {"idle", "done"}
    <3>1. /\ worker'[v].scan = mine /\ worker'[w].scan = mine
          /\ \A u \in Workers \ {v, w} : worker'[u] = worker[u]
      BY <1>0, <1>3 DEF WorkerLosesSequence, Contends, Tasks
    <3>2. QED
      BY <1>0, <1>3, <3>1 DEF WorkerLosesSequence, Settled
  <2>3. QED
    BY <2>1, <2>2 DEF Stays, Settled
<1>4. CASE Redeliver(w)
  BY <1>4 DEF Redeliver, Stays, Settled, db, api
<1>5. ASSUME Abandon(w), UNCHANGED <<db, api>>
      PROVE  Stays(s)
  BY <1>0, <1>5, WorkerElsewhere DEF Abandon, IdleWorker, db, api
<1>6. CASE WorkerCrash(w) \/ ChildKilled(w)
  BY <1>5, <1>6 DEF WorkerCrash, ChildKilled
<1>7. CASE StoreError(w)
  BY <1>0, <1>7, WorkerElsewhere DEF StoreError, Load, db, api
<1>8. QED
  BY <1>1, <1>2, <1>3, <1>4, <1>6, <1>7 DEF WorkerNext

\* SettledStaysSettled: once the actors that were past their check of a finished
\* scan are gone, no delivery, request or fault ever changes its status or log
\* again, short of deleting it.
THEOREM FinishedScansStayFinished == Spec => SettledStaysSettled
<1> DEFINE Action == \A s \in Scans : Settled(s) =>
                       \/ status'[s] = "deleted"
                       \/ Settled(s)' /\ status'[s] = status[s] /\ log'[s] = log[s]
<1>1. ASSUME TypeOK, [Next]_vars
      PROVE  [Action]_vars
  <2>1. SUFFICES ASSUME NEW s \in Scans, Settled(s), Next
                 PROVE  Stays(s) \/ status'[s] = "deleted"
    BY <1>1 DEF Stays
  <2>2. ASSUME NEW r \in Scans, StrayEnds(r)
        PROVE  Stays(s)
    BY <2>1, <2>2 DEF StrayEnds, Stays, Settled, db, api
  <2>3. QED
    BY <1>1, <2>1, <2>2, ClientSettled, WorkerSettled DEF Next
<1>2. QED
  BY <1>1, Typing, PTL DEF Spec, SettledStaysSettled

=============================================================================
