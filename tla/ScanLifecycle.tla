--------------------------- MODULE ScanLifecycle ---------------------------
(***************************************************************************)
(* The life of a scan row, from POST /scans to a terminal status.          *)
(*                                                                         *)
(* Four kinds of processes share one database, one broker queue and one    *)
(* artifact store:                                                         *)
(*   - API requests (api/routes.py: create, rescan, cancel, delete);       *)
(*   - Celery workers running execute_scan (services/scan_orchestrator.py) *)
(*   - scanner services that publish one CBOM document per scan id;        *)
(*   - the environment: crashes, redeliveries, failing store writes.       *)
(*                                                                         *)
(* Granularity.  A SELECT takes no lock, so every "read, then decide" of   *)
(* the code is a step of its own.  The first flush of a session (the       *)
(* autoflushed UPDATE before publish_progress reads max(sequence)) takes   *)
(* the row lock or the database lock, so UPDATE .. INSERT .. COMMIT is one *)
(* step.  The progress event of the scanning stage updates no row first:   *)
(* its read of max(sequence) and its INSERT are two steps.                 *)
(*                                                                         *)
(* An UPDATE names the columns whose value differs from the loaded one: a  *)
(* session that loaded the row as RUNNING and assigns RUNNING leaves the   *)
(* status alone that another session committed meanwhile.                  *)
(***************************************************************************)
EXTENDS Naturals, Sequences

CONSTANTS
  Scans,       \* scan ids; an id is used by at most one INSERT
  Clients,     \* concurrent API requests
  Workers,     \* Celery pool processes
  Assets,      \* deterministic artefact ids of the one target all scans share
  Keys,        \* Idempotency-Key values of the one requester
  Documents,   \* CBOM documents a scanner may publish
  None,        \* no scan, no document, no key
  PostgreSQL,  \* TRUE: PostgreSQL (row locks, foreign keys); FALSE: SQLite
  Faults,      \* kinds of environment faults that may happen
  MaxFaults,   \* how many of them may happen in one behaviour
  MaxRequests  \* how many mutating API requests one behaviour has

FaultKinds == {"redelivered", "worker_crash", "child_killed", "api_crash", "store_error"}

ASSUME ConstantsAssumption ==
  /\ None \notin Scans /\ None \notin Keys /\ None \notin Documents
  /\ Documents \subseteq [found : SUBSET Assets, quality : {"clean", "gaps", "invalid"}]
  /\ PostgreSQL \in BOOLEAN
  /\ Faults \subseteq FaultKinds
  /\ MaxRequests \in Nat
  /\ MaxFaults \in Nat

VARIABLES
  status,   \* scans.status; "absent" before the INSERT, "deleted" after the DELETE
  log,      \* scan_progress_events of a scan: the stage at each sequence number
  key,      \* scans.idempotency_key
  origin,   \* audit_logs: the request that inserted a scan
  owner,    \* artefacts.scan_id, None when there is no such artefact row
  cbom,     \* the document at artifact-store/cbom/<scan id>.json
  stray,    \* scanner runs whose HTTP caller has gone away
  ready,    \* deliverable copies of a scan's task message
  request,  \* API request in progress of each client
  issued,   \* API requests so far
  worker,   \* task in progress of each worker
  faults,   \* environment faults so far
  lost      \* history: scans whose handler or task died for good

rows == <<key, origin, owner>>
db == <<status, log, rows>>
api == <<request, issued>>
scanner == <<cbom, stray>>
env == <<faults, lost>>
vars == <<status, log, key, origin, owner, cbom, stray, ready, request, issued, worker, faults, lost>>

-----------------------------------------------------------------------------
Live == {"queued", "running"}
Terminal == {"succeeded", "partial", "failed", "cancelled"}
Stages == {"queued", "preparing", "scanning", "completed", "failed", "cancelled"}

RequestSteps == {"idle", "insert", "dispatch", "undispatched", "cancel"}
\* The steps of execute_scan whose exceptions its except clause catches.
Trying == {"prepare", "publish", "scanning", "engine", "reply", "ingest"}
WorkerSteps == {"idle", "claim", "failing", "fail", "done"} \cup Trying

IdleRequest == [step |-> "idle", scan |-> None, key |-> None]
IdleWorker == [step |-> "idle", scan |-> None, seen |-> 0, doc |-> None, changes |-> FALSE]

Exists(s) == status[s] \in Live \cup Terminal
ArtefactsOf(s) == {a \in Assets : owner[a] = s}

\* Variant: the status is committed without its progress event.
RecordSilently(s, st, stage) ==
  /\ stage \in Stages
  /\ status' = [status EXCEPT ![s] = st]
  /\ UNCHANGED log

\* A status update and its progress event, committed together.
Record(s, st, stage) ==
  /\ status' = [status EXCEPT ![s] = st]
  /\ log' = [log EXCEPT ![s] = Append(@, stage)]

\* A status update of a session that assigns st: its UPDATE names the status
\* only when the loaded row had another one.
RecordIf(changes, s, st, stage) ==
  IF changes
    THEN Record(s, st, stage)
    ELSE log' = [log EXCEPT ![s] = Append(@, stage)] /\ UNCHANGED status

Goto(w, step) == worker' = [worker EXCEPT ![w].step = step]

\* The row is loaded and will be written: whether that changes its status.
Load(w, step, changes) ==
  worker' = [worker EXCEPT ![w] = [@ EXCEPT !.step = step, !.changes = changes]]
Leave(c) == request' = [request EXCEPT ![c] = IdleRequest]

Fault(kind) ==
  /\ kind \in Faults
  /\ faults < MaxFaults
  /\ faults' = faults + 1

Lose(s) == lost' = lost \cup {s}

-----------------------------------------------------------------------------
(* API requests                                                            *)

\* An idle client sends a request.
Issue(c) ==
  /\ request[c].step = "idle"
  /\ issued < MaxRequests
  /\ issued' = issued + 1

KeyTaken(k) == k # None /\ \E s \in Scans : Exists(s) /\ key[s] = k

\* Variant: no unique index on (requested_by, idempotency_key).
NoUniqueIndex(k) == FALSE

\* uq_scans_requester_idempotency refuses the INSERT.
UniqueIndexRefuses(k) == KeyTaken(k)

\* A new uuid: neither inserted nor drawn by another request.
Fresh(s) == status[s] = "absent" /\ \A c \in Clients : request[c].scan # s

\* create_scan up to its idempotency lookup.  A hit returns the existing row
\* and changes nothing, so only the miss is a step.
CreateLookup(c, k, s) ==
  /\ Issue(c)
  /\ ~KeyTaken(k)
  /\ Fresh(s)
  /\ request' = [request EXCEPT ![c] = [step |-> "insert", scan |-> s, key |-> k]]
  /\ UNCHANGED <<db, scanner, ready, worker, env>>

\* The row, its first event and its audit entry, committed together.
InsertRow(c, s, k, action) ==
  /\ Record(s, "queued", "queued")
  /\ key' = [key EXCEPT ![s] = k]
  /\ origin' = [origin EXCEPT ![s] = action]
  /\ request' = [request EXCEPT ![c] = [IdleRequest EXCEPT !.step = "dispatch", !.scan = s]]
  /\ UNCHANGED owner

\* The INSERT of create_scan: a key another request inserted meanwhile is a 500.
CreateInsert(c) ==
  /\ request[c].step = "insert"
  /\ \/ /\ ~UniqueIndexRefuses(request[c].key)
        /\ InsertRow(c, request[c].scan, request[c].key, "create")
     \/ /\ UniqueIndexRefuses(request[c].key)
        /\ Leave(c)
        /\ UNCHANGED db
  /\ UNCHANGED <<issued, scanner, ready, worker, env>>

Rescan(c, original, s) ==
  /\ Issue(c)
  /\ Exists(original)
  /\ Fresh(s)
  /\ InsertRow(c, s, None, "rescan")
  /\ UNCHANGED <<scanner, ready, worker, env>>

\* send_task after the commit.  When it raises, the broker may or may not have
\* stored the message.
Dispatch(c) ==
  /\ request[c].step = "dispatch"
  /\ \E accepted, raised \in BOOLEAN :
       /\ accepted \/ raised
       /\ ready' = IF accepted THEN [ready EXCEPT ![request[c].scan] = @ + 1] ELSE ready
       /\ IF raised THEN request' = [request EXCEPT ![c].step = "undispatched"] ELSE Leave(c)
  /\ UNCHANGED <<issued, db, scanner, worker, env>>

\* The QueueUnavailableError branches.  create_scan records a progress event,
\* rescan does not; neither reads the row again.
FailDispatch(c) ==
  LET s == request[c].scan IN
  /\ request[c].step = "undispatched"
  /\ \/ Exists(s) /\ origin[s] = "create" /\ Record(s, "failed", "failed")
     \/ /\ Exists(s) /\ origin[s] = "rescan"
        /\ status' = [status EXCEPT ![s] = "failed"]
        /\ UNCHANGED log
     \/ ~Exists(s) /\ UNCHANGED <<status, log>>
  /\ Leave(c)
  /\ UNCHANGED <<issued, rows, scanner, ready, worker, env>>

CancelRead(c, s) ==
  /\ Issue(c)
  /\ status[s] \in Live
  /\ request' = [request EXCEPT ![c] = [IdleRequest EXCEPT !.step = "cancel", !.scan = s]]
  /\ UNCHANGED <<db, scanner, ready, worker, env>>

\* The write of cancel_scan; the UPDATE of a deleted row fails the request.
CancelCommit(c) ==
  LET s == request[c].scan IN
  /\ request[c].step = "cancel"
  /\ IF Exists(s) THEN Record(s, "cancelled", "cancelled") ELSE UNCHANGED <<status, log>>
  /\ Leave(c)
  /\ UNCHANGED <<issued, rows, scanner, ready, worker, env>>

\* Variant: the DELETE leaves the artefact rows behind.
OwnersKept(s) == owner

OwnersWithout(s) == [a \in Assets |-> IF owner[a] = s THEN None ELSE owner[a]]

\* DELETE cascades to the artefact and progress rows; the task message and the
\* published document stay.
Delete(c, s) ==
  /\ Issue(c)
  /\ Exists(s)
  /\ status' = [status EXCEPT ![s] = "deleted"]
  /\ log' = [log EXCEPT ![s] = <<>>]
  /\ key' = [key EXCEPT ![s] = None]
  /\ owner' = OwnersWithout(s)
  /\ UNCHANGED <<origin, scanner, ready, request, worker, env>>

ApiCrash(c) ==
  /\ Fault("api_crash")
  /\ request[c].step \in {"dispatch", "undispatched"}
  /\ Lose(request[c].scan)
  /\ Leave(c)
  /\ UNCHANGED <<issued, db, scanner, ready, worker>>

-----------------------------------------------------------------------------
(* execute_scan                                                            *)

\* Variant: a worker starts a task that no message asked for.
UnpromptedTask(s) == s \in Scans

HasMessage(s) == ready[s] > 0

\* Variant: the early return checks only that the row exists.
RowFound(s) == Exists(s)

\* execute_scan goes on only with a scan that exists and is not terminal.
Unfinished(s) == status[s] \in Live

\* Delivery of a task message and the first read of the row: a missing or
\* terminal scan returns at once and the message is acknowledged.
Deliver(w, s) ==
  /\ worker[w].step = "idle"
  /\ HasMessage(s)
  /\ ready' = [ready EXCEPT ![s] = @ - 1]
  /\ \/ /\ Unfinished(s)
        /\ worker' = [worker EXCEPT ![w] =
             [IdleWorker EXCEPT !.step = "claim", !.scan = s, !.changes = status[s] # "running"]]
     \/ /\ ~Unfinished(s)
        /\ UNCHANGED worker
  /\ UNCHANGED <<db, scanner, api, env>>

\* status = RUNNING, without a second look at the row; a redelivered task that
\* loaded it as RUNNING writes started_at and the event only.  The UPDATE of a
\* row deleted meanwhile raises outside the try block.
Claim(w) ==
  LET s == worker[w].scan IN
  /\ worker[w].step = "claim"
  /\ \/ Exists(s) /\ RecordIf(worker[w].changes, s, "running", "preparing") /\ Load(w, "prepare", FALSE)
     \/ ~Exists(s) /\ Load(w, "done", FALSE) /\ UNCHANGED <<status, log>>
  /\ UNCHANGED <<rows, scanner, ready, api, env>>

\* Second session: target preparation, then the read of max(sequence).
BeginScanning(w) ==
  LET s == worker[w].scan IN
  /\ worker[w].step = "prepare"
  /\ \/ Exists(s) /\ worker' = [worker EXCEPT ![w].step = "publish", ![w].seen = Len(log[s])]
     \/ ~Exists(s) /\ Goto(w, "done")
  /\ UNCHANGED <<db, scanner, ready, api, env>>

\* INSERT of the scanning event: uq_scan_progress_sequence refuses a sequence
\* number taken meanwhile; PostgreSQL refuses an event of a deleted scan, SQLite
\* (foreign keys off) accepts it.
PublishScanning(w) ==
  LET s == worker[w].scan IN
  /\ worker[w].step = "publish"
  /\ \/ /\ Exists(s) /\ Len(log[s]) = worker[w].seen
        /\ log' = [log EXCEPT ![s] = Append(@, "scanning")]
        /\ worker' = [worker EXCEPT ![w].step = "scanning", ![w].seen = 0]
     \/ /\ ~Exists(s) /\ ~PostgreSQL
        /\ worker' = [worker EXCEPT ![w].step = "scanning", ![w].seen = 0]
        /\ UNCHANGED log
     \/ /\ IF Exists(s) THEN Len(log[s]) # worker[w].seen ELSE PostgreSQL
        /\ worker' = [worker EXCEPT ![w].step = "failing", ![w].seen = 0]
        /\ UNCHANGED log
  /\ UNCHANGED <<status, rows, scanner, ready, api, env>>

\* The scanner answers from the store when the document is already published.
CallScanner(w) ==
  /\ worker[w].step = "scanning"
  /\ Goto(w, IF cbom[worker[w].scan] = None THEN "engine" ELSE "reply")
  /\ UNCHANGED <<db, scanner, ready, api, env>>

\* The engines finish and WriteCBOM publishes.  Its exists-check and rename are
\* not atomic, so a second run that started early enough can replace a document.
ScannerReplies(w) ==
  /\ worker[w].step = "engine"
  /\ \E d \in Documents : cbom' = [cbom EXCEPT ![worker[w].scan] = d]
  /\ Goto(w, "reply")
  /\ UNCHANGED <<db, stray, ready, api, env>>

\* Read and validate the document, then re-read the row in a third session: a
\* terminal status (a cancellation that arrived meanwhile) ends the task.
ReadReply(w) ==
  LET s == worker[w].scan IN
  /\ worker[w].step = "reply"
  /\ \/ cbom[s].quality = "invalid" /\ Goto(w, "failing")
     \/ cbom[s].quality # "invalid" /\ ~Unfinished(s) /\ Goto(w, "done")
     \/ /\ cbom[s].quality # "invalid" /\ Unfinished(s)
        /\ worker' = [worker EXCEPT ![w].step = "ingest", ![w].doc = cbom[s]]
  /\ UNCHANGED <<db, scanner, ready, api, env>>

\* Variant: nothing looks for the rows of an earlier ingestion.
NotIngestedBefore(s) == Exists(s)

\* Whether the ingesting transaction of s can commit: its row is still there,
\* and the query for existing artefacts finds none (a row it finds has no
\* __bool__ method, which raises).
MayIngest(s) == Exists(s) /\ ArtefactsOf(s) = {}

\* Ingestion.  Rows whose deterministic id already exists are moved to this
\* scan.  When the scan already has artefacts, or its row is gone, the
\* transaction raises and rolls back.
Ingest(w) ==
  LET s == worker[w].scan
      d == worker[w].doc
  IN
  /\ worker[w].step = "ingest"
  /\ \/ /\ MayIngest(s)
        /\ owner' = [a \in Assets |-> IF a \in d.found THEN s ELSE owner[a]]
        /\ Record(s, IF d.quality = "gaps" THEN "partial" ELSE "succeeded", "completed")
        /\ worker' = [worker EXCEPT ![w].step = "done", ![w].doc = None]
     \/ /\ ~MayIngest(s)
        /\ worker' = [worker EXCEPT ![w].step = "failing", ![w].doc = None]
        /\ UNCHANGED <<status, log, owner>>
  /\ UNCHANGED <<key, origin, scanner, ready, api, env>>

\* Variant: an exception inside the try block ends the task.
UncaughtAt(s) == [IdleWorker EXCEPT !.step = "done", !.scan = s]

\* Every exception reaches the except clause.
CaughtAt(s) == [IdleWorker EXCEPT !.step = "failing", !.scan = s]

\* Any exception inside the try block: clone failure, scanner error, soft time
\* limit, rejected transaction.  An HTTP timeout leaves the scanner running.
Raise(w) ==
  /\ worker[w].step \in Trying
  /\ worker' = [worker EXCEPT ![w] = CaughtAt(worker[w].scan)]
  /\ \/ UNCHANGED stray
     \/ worker[w].step = "engine" /\ stray' = [stray EXCEPT ![worker[w].scan] = @ + 1]
  /\ UNCHANGED <<db, cbom, ready, api, env>>

\* The except clause reads the row in a session of its own.
LoadToFail(w) ==
  LET s == worker[w].scan IN
  /\ worker[w].step = "failing"
  /\ \/ Exists(s) /\ Load(w, "fail", status[s] # "failed")
     \/ ~Exists(s) /\ Goto(w, "done")
  /\ UNCHANGED <<db, scanner, ready, api, env>>

\* It writes FAILED whatever the row says by now; the UPDATE of a row deleted
\* meanwhile raises out of the task.
Fail(w) ==
  LET s == worker[w].scan IN
  /\ worker[w].step = "fail"
  /\ IF Exists(s)
       THEN RecordIf(worker[w].changes, s, "failed", "failed")
       ELSE UNCHANGED <<status, log>>
  /\ Load(w, "done", FALSE)
  /\ UNCHANGED <<rows, scanner, ready, api, env>>

\* acks_late: the message is acknowledged when the task has returned or raised.
Ack(w) ==
  /\ worker[w].step = "done"
  /\ worker' = [worker EXCEPT ![w] = IdleWorker]
  /\ UNCHANGED <<db, scanner, ready, api, env>>

-----------------------------------------------------------------------------
(* PostgreSQL lets the scanning event of one session and the event of a    *)
(* session that holds the row lock be inserted with the same number; the   *)
(* second of them waits for the first commit and is then refused.  Here the *)
(* scanning event came first, and the whole other transaction rolls back.  *)

Contends(v, s) ==
  /\ PostgreSQL
  /\ worker[v].step = "publish"
  /\ worker[v].scan = s
  /\ Exists(s)
  /\ worker[v].seen = Len(log[s])

WorkerLosesSequence(w, v) ==
  LET s == worker[w].scan
      outcome == IF worker[w].step = "ingest" THEN "failing" ELSE "done"
  IN
  /\ w # v
  /\ worker[w].step \in {"claim", "ingest", "fail"}
  /\ Contends(v, s)
  /\ log' = [log EXCEPT ![s] = Append(@, "scanning")]
  /\ worker' = [worker EXCEPT
       ![w] = [@ EXCEPT !.step = outcome, !.doc = None, !.changes = FALSE],
       ![v] = [@ EXCEPT !.step = "scanning", !.seen = 0]]
  /\ UNCHANGED <<status, rows, scanner, ready, api, env>>

RequestLosesSequence(c, v) ==
  LET s == request[c].scan IN
  /\ \/ request[c].step = "cancel"
     \/ request[c].step = "undispatched" /\ origin[s] = "create"
  /\ Contends(v, s)
  /\ log' = [log EXCEPT ![s] = Append(@, "scanning")]
  /\ worker' = [worker EXCEPT ![v].step = "scanning", ![v].seen = 0]
  /\ Leave(c)
  /\ UNCHANGED <<issued, status, rows, scanner, ready, env>>

-----------------------------------------------------------------------------
(* Environment                                                             *)

\* An abandoned scanner run ends, with or without publishing.
StrayEnds(s) ==
  /\ stray[s] > 0
  /\ stray' = [stray EXCEPT ![s] = @ - 1]
  /\ \E d \in Documents \cup {cbom[s]} : cbom' = [cbom EXCEPT ![s] = d]
  /\ UNCHANGED <<db, ready, api, worker, env>>

\* The broker's visibility timeout expires while the task is still running.
Redeliver(w) ==
  /\ Fault("redelivered")
  /\ worker[w].step # "idle"
  /\ ready' = [ready EXCEPT ![worker[w].scan] = @ + 1]
  /\ UNCHANGED <<db, scanner, api, worker, lost>>

Abandon(w) ==
  /\ worker[w].step # "idle"
  /\ worker' = [worker EXCEPT ![w] = IdleWorker]
  /\ stray' = IF worker[w].step = "engine" THEN [stray EXCEPT ![worker[w].scan] = @ + 1] ELSE stray

\* Variant: the broker forgot the message when it delivered it.
AckedEarly(s) == ready

\* acks_late: an unacknowledged message becomes deliverable again.
Restored(s) == [ready EXCEPT ![s] = @ + 1]

\* The worker container dies; the unacknowledged message becomes visible again.
WorkerCrash(w) ==
  /\ Fault("worker_crash")
  /\ Abandon(w)
  /\ ready' = Restored(worker[w].scan)
  /\ UNCHANGED <<db, cbom, api, lost>>

\* One pool process is killed (out of memory, hard time limit); the parent
\* acknowledges its message, because task_reject_on_worker_lost is not set.
ChildKilled(w) ==
  /\ Fault("child_killed")
  /\ Abandon(w)
  /\ Lose(worker[w].scan)
  /\ UNCHANGED <<db, cbom, ready, api>>

\* A database error outside the try block escapes execute_scan.
StoreError(w) ==
  /\ Fault("store_error")
  /\ worker[w].step \in {"claim", "failing", "fail"}
  /\ Lose(worker[w].scan)
  /\ Load(w, "done", FALSE)
  /\ UNCHANGED <<db, scanner, ready, api>>

-----------------------------------------------------------------------------
Init ==
  /\ status = [s \in Scans |-> "absent"]
  /\ log = [s \in Scans |-> <<>>]
  /\ key = [s \in Scans |-> None]
  /\ origin = [s \in Scans |-> None]
  /\ owner = [a \in Assets |-> None]
  /\ cbom = [s \in Scans |-> None]
  /\ stray = [s \in Scans |-> 0]
  /\ ready = [s \in Scans |-> 0]
  /\ request = [c \in Clients |-> IdleRequest]
  /\ issued = 0
  /\ worker = [w \in Workers |-> IdleWorker]
  /\ faults = 0
  /\ lost = {}

\* Steps an API request in progress takes until it returns.
RequestStep(c) ==
  \/ CreateInsert(c)
  \/ Dispatch(c)
  \/ FailDispatch(c)
  \/ CancelCommit(c)

\* Steps a task in progress takes until it is acknowledged.
WorkerStep(w) ==
  \/ Claim(w)
  \/ BeginScanning(w)
  \/ PublishScanning(w)
  \/ CallScanner(w)
  \/ ScannerReplies(w)
  \/ ReadReply(w)
  \/ Ingest(w)
  \/ Raise(w)
  \/ LoadToFail(w)
  \/ Fail(w)
  \/ Ack(w)

ClientNext(c) ==
  \/ \E k \in Keys \cup {None}, s \in Scans : CreateLookup(c, k, s)
  \/ \E original, s \in Scans : Rescan(c, original, s)
  \/ \E s \in Scans : CancelRead(c, s)
  \/ \E s \in Scans : Delete(c, s)
  \/ RequestStep(c)
  \/ \E v \in Workers : RequestLosesSequence(c, v)
  \/ ApiCrash(c)

WorkerNext(w) ==
  \/ \E s \in Scans : Deliver(w, s)
  \/ WorkerStep(w)
  \/ \E v \in Workers : WorkerLosesSequence(w, v)
  \/ Redeliver(w)
  \/ WorkerCrash(w)
  \/ ChildKilled(w)
  \/ StoreError(w)

Next ==
  \/ \E c \in Clients : ClientNext(c)
  \/ \E w \in Workers : WorkerNext(w)
  \/ \E s \in Scans : StrayEnds(s)

Spec == Init /\ [][Next]_vars

\* A handler or a task that is not killed goes on (every external call of a
\* task has a timeout), and a free worker takes the messages that wait.
Fairness ==
  /\ \A c \in Clients : WF_vars(RequestStep(c))
  /\ \A w \in Workers : WF_vars(WorkerStep(w))
  /\ \A s \in Scans : WF_vars(\E w \in Workers : Deliver(w, s))

FairSpec == Spec /\ Fairness

-----------------------------------------------------------------------------
(* Properties                                                              *)

Requests == [step : RequestSteps, scan : Scans \cup {None}, key : Keys \cup {None}]
Tasks ==
  [step : WorkerSteps, scan : Scans \cup {None}, seen : Nat, doc : Documents \cup {None}, changes : BOOLEAN]

RowsOK ==
  /\ status \in [Scans -> Live \cup Terminal \cup {"absent", "deleted"}]
  /\ log \in [Scans -> Seq(Stages)]
  /\ key \in [Scans -> Keys \cup {None}]
  /\ origin \in [Scans -> {None, "create", "rescan"}]

StoresOK ==
  /\ owner \in [Assets -> Scans \cup {None}]
  /\ cbom \in [Scans -> Documents \cup {None}]
  /\ stray \in [Scans -> Nat]
  /\ ready \in [Scans -> Nat]

CountersOK ==
  /\ issued \in Nat
  /\ faults \in Nat
  /\ lost \subseteq Scans

RequestsOK ==
  /\ request \in [Clients -> Requests]
  /\ \A c \in Clients : request[c].step # "idle" => request[c].scan \in Scans

TasksOK ==
  /\ worker \in [Workers -> Tasks]
  /\ \A w \in Workers :
       /\ worker[w].step # "idle" => worker[w].scan \in Scans
       /\ worker[w].step = "ingest" => worker[w].doc \in Documents
       /\ worker[w].step \in {"reply", "ingest"} => cbom[worker[w].scan] \in Documents

\* Every variable has its type, an actor that is at work has a scan, and a task
\* whose scanner has answered finds a published document.
TypeOK == RowsOK /\ StoresOK /\ CountersOK /\ RequestsOK /\ TasksOK

Promises(c, s) == request[c].scan = s /\ request[c].step \in {"dispatch", "undispatched"}
Handles(w, s) ==
  /\ worker[w].scan = s
  /\ \/ worker[w].step \in Trying \cup {"claim", "failing"}
     \/ worker[w].step = "fail" /\ worker[w].changes

\* Somebody still has to act on the scan: the broker that holds its message, the
\* request that is about to dispatch it, or a task that has not returned.
InHand(s) ==
  \/ ready[s] > 0
  \/ \E c \in Clients : Promises(c, s)
  \/ \E w \in Workers : Handles(w, s)

\* No early return, exception, rejected transaction, lost race or restored
\* message strands a scan in QUEUED or RUNNING (models/enums.py: "A scan must
\* always reach a terminal state"): only the death of its API process before the
\* dispatch, of a pool process whose message is then acknowledged, or a failing
\* write outside the try block does.
LiveScansAreInHand == \A s \in Scans : status[s] \in Live => InHand(s) \/ s \in lost

\* The event that records a status in the progress log.
RecordedStage ==
  [queued |-> "queued", running |-> "preparing", succeeded |-> "completed",
   partial |-> "completed", failed |-> "failed", cancelled |-> "cancelled"]

\* An event at j after the one at i that may have left the status alone: a claim
\* or a failure that repeats an earlier one, or the failure of a rescan, whose
\* row the failed dispatch had already set to FAILED without an event.
Repeats(s, i, j) ==
  /\ log[s][j] \in {"preparing", "failed"}
  /\ \/ \E k \in 1..(i - 1) : log[s][k] = log[s][j]
     \/ log[s][j] = "failed" /\ origin[s] = "rescan"

\* The event at i recorded the current status, and no event after it is new.
Tells(s, i) ==
  /\ log[s][i] = RecordedStage[status[s]]
  /\ \A j \in (i + 1)..Len(log[s]) : log[s][j] = "scanning" \/ Repeats(s, i, j)

SilentlyFailed(s) == status[s] = "failed" /\ origin[s] = "rescan"

\* A client that replays the progress log learns the status of the row, however
\* the writers interleave: the event of the current status is in the log, and
\* what follows it is the scanning event or an echo, the claim or failure of an
\* overlapping task that found the row RUNNING or FAILED and so wrote its event
\* and not the status (a cancelled scan whose log ends "cancelled", "preparing").
\* The FAILED of a rescan that could not be dispatched has no event at all.
LogAgreesWithStatus ==
  \A s \in Scans :
    Exists(s) /\ ~SilentlyFailed(s) => \E i \in 1..Len(log[s]) : Tells(s, i)

\* Artefact rows never outlive their scan and never come from an ingestion that
\* did not commit: their scan exists, has a completed event and a published
\* document.
ArtefactsAccountedFor ==
  \A s \in Scans :
    ArtefactsOf(s) # {} =>
      /\ Exists(s)
      /\ cbom[s] # None
      /\ \E i \in 1..Len(log[s]) : log[s][i] = "completed"

\* "The same idempotency key never creates a second scan", also when two
\* requests miss the lookup together.
KeysUnique ==
  \A s, t \in Scans :
    Exists(s) /\ Exists(t) /\ key[s] = key[t] /\ key[s] # None => s = t

\* "Existing artefact rows prevent a second insert": the artefacts of a scan are
\* never a mixture of two documents, although two tasks of one scan may each read
\* a document of their own and both pass the check of its status.
NoSecondInsert ==
  \A s \in Scans : ArtefactsOf(s) # {} => \E d \in Documents : ArtefactsOf(s) \subseteq d.found

\* No actor is past its check of the status of s.
Settled(s) ==
  /\ status[s] \in Terminal
  /\ \A c \in Clients : request[c].scan = s => request[c].step = "idle"
  /\ \A w \in Workers : worker[w].scan = s => worker[w].step \in {"idle", "done"}

\* Re-delivery is safe once nobody is past its check: whatever is delivered or
\* requested again, a finished scan stays settled and keeps its status and log
\* until it is deleted.
SettledStaysSettled ==
  [][\A s \in Scans : Settled(s) =>
       \/ status'[s] = "deleted"
       \/ Settled(s)' /\ status'[s] = status[s] /\ log'[s] = log[s]]_vars

\* "A scan must always reach a terminal state": it does, unless it is deleted or
\* one of the deaths above hit it, through any crash of worker containers and
\* any redelivery.
EveryScanEnds ==
  \A s \in Scans : status[s] \in Live ~> status[s] \notin Live \/ s \in lost

-----------------------------------------------------------------------------
(* What the repository says and this code does not do                      *)

\* The scan's only task waits for the scanner.
ScannerCallInFlight(s) ==
  \E w \in Workers :
    /\ worker[w].scan = s /\ worker[w].step = "engine"
    /\ \A v \in Workers \ {w} : worker[v].scan # s
NoRequestOn(s) == \A c \in Clients : request[c].scan = s => request[c].step = "idle"

\* scan_orchestrator.py: "A cancellation that arrives while a scanner call is in
\* flight wins": a scan that was RUNNING during the call, and then CANCELLED
\* during it, stays CANCELLED until it is deleted.
CancellationWins ==
  \A s \in Scans :
    [](ScannerCallInFlight(s) /\ status[s] = "running" =>
         [](ScannerCallInFlight(s) /\ status[s] = "cancelled" /\ NoRequestOn(s) =>
              [](status[s] \in {"cancelled", "deleted"})))

\* enums.py: "the worker guarantees a transition to FAILED on any unhandled
\* error"; "full architecher.md": "A scan never hangs at running forever".
NeverHangsRunning ==
  \A s \in Scans : status[s] = "running" ~> status[s] # "running"

\* models/tables.py: "Re-scanning inserts a new row; nothing is overwritten":
\* the artefacts of a scan stay with it until it is deleted.
RescanOverwritesNothing ==
  [][\A s \in Scans : ArtefactsOf(s) \subseteq ArtefactsOf(s)' \/ status'[s] = "deleted"]_vars

\* execute_scan: "Re-delivery is safe: an already ingested scan returns
\* immediately, and existing artefact rows prevent a second insert": with no
\* request in progress and no task between its first read and its claim, an
\* ingested scan stays ingested.
RedeliveryIsSafe ==
  [][\A s \in Scans :
       /\ status[s] \in {"succeeded", "partial"}
       /\ \A c \in Clients : request[c].scan = s => request[c].step = "idle"
       /\ \A w \in Workers : worker[w].scan = s => worker[w].step # "claim"
       => status'[s] \in {status[s], "deleted"}]_vars

=============================================================================
