# Trinetra: a TLA+ model of the scan pipeline, the engines and the platform around them

Trinetra scans repositories, images, endpoints and cloud accounts for cryptographic
assets. A browser or the CLI asks the API for a scan; a Celery worker runs it; a scanner
service writes one CBOM document per scan into a shared volume; the worker ingests the
document into the database, where risk assessments, recommendations and reports start.

This directory models three things: the part where those processes meet (the life of a scan
row from `POST /scans` to a terminal status, and the scanner service with its artifact
store); the pure engines between a scanner's document and a decision (ingest, risk,
recommendation, waves, exports, the CI gate); and the mechanisms of the platform around
them (risk records under concurrent calls, report files, progress streams, the rate limiter,
target directories). Everything is translated from the code; where a comment or a document
says otherwise, a run shows the difference (section *Disagreements*).

## Inventory

| Component | State | Operations | Correct when |
|---|---|---|---|
| Scan API, `backend/app/api/routes.py` | rows of `scans`, `audit_logs` | create (Idempotency-Key), cancel, rescan, delete | one key makes one scan; no request strands a scan |
| Worker, `backend/app/worker.py`, `services/scan_orchestrator.py` | Celery message, scan row, artefact rows, target directory | `execute_scan`: claim, prepare, scan, ingest, fail | every scan reaches one terminal status, once; ingestion happens at most once |
| Progress log, `repositories/__init__.py` | `scan_progress_events` with dense sequence numbers | `record_progress`, `progress_since`, SSE, WebSocket | a client that replays the log learns the status |
| Scanner services, `scanners/{source,container,cloudhsm}` | HTTP calls in progress | exists-check, engines, build, validate, publish | a document says what was scanned and what was not |
| Artifact store, `scanners/cbom-go/artifactstore` | one file per scan id | `Exists`, `WriteCBOM`, `Reference` | readers see whole documents, references resolve |
| CBOM library and ingest, `scanners/cbom-go/cbom`, `services/cbom_ingest.py` | none | dedupe, merge, validate, component to artefact | nothing is dropped without a gap |
| Incremental cache, `services/cache.py` | artefact rows of earlier scans | lookup by content hash, clone | a clone equals its source, no row changes owner |
| Target preparation, `prepare_scan_target` | directory per scan id | clone, copy, reuse | the scanner reads a whole tree |
| Risk settings, `services/risk_assessment.py` | setting versions, assessments | activate, rescore | one active version per project, newest assessment under it |
| Context and review, `routes.py` | context rows, reviews | patch, bulk review, import | no lost update of a reviewed field |
| Reports, `routes.py`, `exporters/` | report rows and files | create (Idempotency-Key), download | row and file agree |
| Risk engines, `engines/` | none | classification, Mosca, resources, context, recommendation | agree with their definitions, also at the boundaries |
| Migration planner, `engines/migration_planner.py` | none | waves | prerequisites first, cycles refused |
| Rate limiter, `api/main.py` | deque of times per client | admit or refuse | never more than the limit in a window |
| Authentication, tenancy, `api/security.py`, `dependencies.py` | users, memberships, tokens | login, restore, roles | no read or write outside a project |
| Observed-versus-declared, `services/observed_comparison.py` | none | compare protocols by version | every observation is counted once |
| CLI, `cli.py` | none | `trinetra scan`, exit code | a looser gate never passes what a stricter one fails |
| Schemas and mapping, `schemas/mapping.py` | none | object to row and back | a stored verdict is the verdict |
| Observability, migrations, frontend, deployment, rules | - | - | see `PROJECT.json` for why they are left out |

How they interact: the API and the workers share the database and the broker's queue; the
worker calls a scanner over HTTP (600 s timeout) and afterwards reads the file the answer
names; scanners never touch the database. Nothing is locked across two statements, so the
hard behaviours are interleavings of sessions (cancel, delete or a second delivery between
a read and a write), redelivery after crashes and timeouts, a caller that gives up while its
scanner goes on, the sequence numbers two sessions compute alike, and crashes between a
commit and the dispatch or between a write and a rename. `PROJECT.json` lists each at its
line with the properties that watch it.

## Modules

```
ScanLifecycle ............ scan rows, broker, workers, API requests, scanner outcome
  MCScanLifecycle ........ its instances for TLC
  ScanLifecycle_proofs ... types, stranded scans; log, keys, artefacts, settled scans
InventoryRegister ........ what the artifact store promises (abstract)
ScannerService ........... Scanner.Scan and WriteCBOM; implements InventoryRegister
  MCScannerService ....... its instances for TLC
  ScannerService_proofs .. whole documents, references, refinement

Absence .................. Python's None
  RiskEngines ............ classify_risk: Mosca, quantum resources, factors, validators
    Recommendations ...... evidence profiles and recommend_replacement
      RowMapping ......... verdicts, contexts, artefacts to rows and back
      CommandLine ........ the scan command's exit code
  CbomIngest ............. CycloneDX document to artefacts, skips and gaps
    MCCbomIngest ......... its documents for TLC
    Exports .............. report formats, re-ingestion, diffs
ObservedComparison ....... protocols declared and protocols seen
MigrationWaves ........... the planner's walk of the dependency graph
ContextInheritance ....... criticality along dependencies
  DependencyGraph_proofs . waves and cycles; the highest ancestor governs
Engines .................. all engines, asked about any values of their schemas
  EngineQuestions ........ samples of those values for TLC
    MCEngines ............ the samples with the documents of MCCbomIngest
  Engines_proofs ......... what the engines promise, for every value

RiskRecords .............. presets, context PATCHes and ingestions of one database
  RiskRecords_proofs ..... one preset, agreeing verdicts, named fields
ReportFiles .............. report rows and report files
  ReportFiles_proofs ..... answered reports can be downloaded
ProgressStream ........... the progress log and its SSE and WebSocket readers
  ProgressStream_proofs .. streams skip nothing
RateLimiter .............. the sliding window of each client host
TargetDirectory .......... clone, copy and reuse of input_root/<scan id>
MCPlatform ............... the five of them, for TLC
  Platform_proofs ........ limiter, target directory, and the five together
```

### ScanLifecycle

| Variable | In the code |
|---|---|
| `status`, `key`, `origin` | `scans.status`, `scans.idempotency_key`, the audit action that inserted the row |
| `log` | stages of `scan_progress_events`, by sequence number |
| `owner` | `artefacts.scan_id`, by deterministic artefact id |
| `cbom` | the document at `artifact-store/cbom/<scan id>.json` |
| `ready` | deliverable copies of the task message in the broker |
| `request`, `worker` | the handler or task in progress, by the statement it stands before |
| `stray` | scanner runs whose caller is gone |
| `lost`, `faults`, `issued` | history of deaths, and the counters of the bounds |

*Granularity.* A SELECT locks nothing, so every "read, then decide" is two steps:
`CreateLookup`/`CreateInsert`, `CancelRead`/`CancelCommit`, `Deliver`/`Claim`,
`ReadReply`/`Ingest`. SQLAlchemy's autoflush sends the pending UPDATE before
`record_progress` reads `max(sequence)`, and that UPDATE takes the row lock (PostgreSQL) or
the database lock (SQLite); UPDATE, event INSERT and COMMIT are therefore one step. The
`scanning` event updates no row first: its read and its INSERT are two steps
(`BeginScanning`, `PublishScanning`), and on PostgreSQL it may collide with the event of a
session that holds the row lock; the action `PublishScanning` has the case where the other
side wins, `WorkerLosesSequence` and `RequestLosesSequence` the case where the scanning
event wins and the other session's whole transaction rolls back.

*Databases.* `PostgreSQL` selects the differences that matter here: foreign keys are
enforced or (SQLite as configured) not, and whether two writers can be open at once.

*Rows as they were loaded.* A session writes only what differs from the row it loaded. The
claim and the except clause load the row in one statement and write it in a later one
(`Deliver`/`Claim`, `LoadToFail`/`Fail`), so `worker.changes` keeps whether the write will
change the status as loaded, and `RecordIf` records the event with or without it. A task
that loaded a RUNNING row claims it with an event and no status: if the scan was cancelled or
ingested meanwhile, it stays so, and "preparing" follows the terminal event in its log.
Requests and `Ingest` always write a status other than the one they loaded.

*Exceptions.* `Raise` stands for every exception inside the try block of `execute_scan`,
the soft time limit included; `LoadToFail` and `Fail` are its except clause, a session of
its own. `StoreError` is a database error outside the try block.

*Celery* is external and modelled from how `worker.py` configures it: `acks_late` gives the
message back when the container dies (`WorkerCrash`), a pool process killed on its own is
acknowledged (`ChildKilled`, `task_reject_on_worker_lost` is not set), and the visibility
timeout may deliver a message whose task still runs (`Redeliver`).

*Artefacts.* All scans of the model have one target, so that two scans may find the same
asset and derive the same artefact id. A document is the set of assets it names and its
quality: clean, with gaps (PARTIAL), or rejected by ingest.

The incremental-cache branch of `execute_scan` is left out. The worker passes no content hash
and a fresh row has none. A live row has a hash only on one path: a second delivery loads the
row QUEUED, the first one ingests it, the second claims it (RUNNING again, now with the hash)
and dies; if another scan of the target found the same content, the next delivery copies that
scan's result. In the model that delivery claims the scan and runs it.

### ScannerService and InventoryRegister

One scan id, any number of calls for it. `call` is where each call stands in `Scanner.Scan`
and `Store.WriteCBOM` with what its engines returned; `file` is the state of its temporary
file (each call has its own name from `CreateTemp`); `dest` says whose file
`cbom/<scan id>.json` is; `kept` is what the disk's directory has. Every fallible system
call of `WriteCBOM` is an action with a failing branch, which runs the deferred clean-up.
`CallerLeaves` cancels the request's context: subprocess engines fail from then on, engines
inside the process go on, and the publication does not look at the context. `ServiceCrash`
ends the calls and keeps the files; `PowerLoss` also takes `dest` back to `kept` and tears
what was not synced.

`InventoryRegister` is the promise: a register that is empty or holds one whole inventory,
that only a writer who opened it while it was empty may set, and that a power loss takes
back to the value on disk. The refinement maps the register's value to the document behind
`dest` (`tools` of the run that wrote it; "torn" if it is not whole, which is no inventory),
its kept value to the one behind `kept`, and its open writers to the calls past the
exists-check of `WriteCBOM`.

The lifecycle uses the scanner through `CallScanner`, `ScannerReplies` and `StrayEnds`: an
existing document is answered, a run publishes some document, and an abandoned run may
still publish or replace one. Those are the steps the register allows while the host keeps
its power.

### The engines

*RiskEngines* is operators, as the code is functions: `Classify` follows `classify_risk`
through policy, both tracks, the seven contributions and the band, and answers "raised" where
a validator of `RiskAssessment` refuses what was built. A name is what the code compares it
by (normalised token, prefix, digits, place in the policy lists), points are counted in
halves, gates in millions. *Recommendations* has the loader's acceptance of every profile and
the choice of a parameter set; *RowMapping* has what each column keeps, `x or None` included.

*CbomIngest* is a machine: `ValidateDocument`, then one of `SkipComponent`, `RecordGap` and
`KeepArtefact` per component, as the loop does, then perhaps `RescanTarget` with another
document. A property or field has the JSON type the code expects of it, except where another
type is refused later and the difference matters: a parameter set that is no text (`quoted`).
Dates are kept as what their comparison gives: ordered, inverted, or raising because only one
has a zone. `sha256` is modelled as injective: an artefact id is the tuple that is hashed.

*MigrationWaves* keeps the recursion's call stack (`stack`), its visiting set and its memo
table (`wave`); a frame asks for its prerequisites in any order, because the code iterates
over a set of strings. *ContextInheritance* keeps the work queue, filled in any order of the
roots. Both end in the state the function returns from.

*Engines* puts one question per behaviour (an artefact with a context, a profile, a build for
the gate, an inventory, two inventories) or starts one machine, the others parked. What may be
asked are its constants: any records of the schemas (`ArtefactRecords`, `ContextRecords`,
`ProfileRecords`, `InventoryRecords`, ...), as the named assumptions say. A property of
*Engines* puts a statement that stands, with its source, in the engine's own module
(`TracksAgree`, `GateIsMonotone`, `FormatsAgree`, ...) to the question at hand. *EngineQuestions*
has the samples that TLC asks about; the theorems speak of every value.

### The platform

*RiskRecords* numbers the calls in the order in which they begin. `set_risk_preset` is
`PresetBegins` (its UPDATE takes the rows its snapshot shows active, of every project),
`PresetReads` (after the row locks are free) and `PresetCommits`, with everything rolled back
when an artefact cannot be rated; `update_context` is `PatchReads` and `PatchCommits`, where
the unit of work writes the columns that differ from what was loaded; the ingestion of an
artefact is `IngestReads` and `IngestCommits`. A verdict says which context it rates and
under which settings, and *RiskEngines* says what follows from those.

*ReportFiles* has the lookup of the Idempotency-Key, rendering, the file in two halves, the
INSERT against the unique index and the scan's foreign key, deletion of a scan and the death
of the API process. *ProgressStream* has sessions that read `max(sequence)` and insert the
next, and the two handlers that poll for what comes after their last sequence and send it
event by event. *RateLimiter* has one step per request, because nothing is awaited between
the reading of the clock and the end of the deque's update. *TargetDirectory* has each
delivery's attempts to clone (branch, checkout, default branch) or to copy, the reuse of a
local copy, and crashes.

`MCPlatform` runs one of the five per behaviour. Each works on rows and files of its own; the
deletion of a scan, on which a report depends, is an action of *ReportFiles*. The events that
`ProgressStream` delivers are those `ScanLifecycle` records: its `Record` and
`PublishScanning` are the writers' `CommitEvent`, its lost sequences their refused insert.

## Runs

| Run | Question | Bounds |
|---|---|---|
| `lifecycle_safety` | Safety under every interleaving of API, worker, scanner and faults | 1 scan, 2 clients, 2 workers, 2 assets, 4 unlike documents, PostgreSQL, 3 requests, 1 fault of any of the 5 kinds |
| `two_scans_live` | Idempotency keys, and whether every scan ends | 2 scans, 2 clients, 1 worker, 1 asset and document, SQLite, 2 requests, 1 redelivery or worker crash, fairness |
| `cancellation_wins`, `never_hangs_running`, `rescan_overwrites`, `redelivery_is_safe` | Disagreements, below | the least that shows them, fairness |
| `scanner_store` | Whole documents, resolving references, refinement of the register | 2 calls, 2 engines of which 1 is a subprocess, 2 crashes |
| `published_stands`, `gaps_reach_the_reader` | Disagreements, below | 2 calls or 1 call, 2 engines, no crash |
| `engines` | Do the pure engines keep their promises on every kind of input? | 57 artefacts, 65 contexts, 2 horizons, 3 scenarios; 16 profiles; builds and inventories of 0 to 2 findings; documents of 0 to 2 components, 2 scans; graphs of 3 candidates and 1 artefact outside, and of 3 nodes with criticality 0 to 2 |
| `platform` | Which promises of the shared records survive every overlap? | 2 projects, 2 artefacts, 2 fields, 3 calls; 2 reports, 2 keys, 2 scans; 2 writers, 1 client of each stream, 3 events, 2 connections; limit 2 in a window of 3, clock to 5, 2 hosts; 2 deliveries, 2 crashes |
| `identity_is_stable` | Disagreement, below | 2 scans, documents of any of 3 findings |

*Why the bounds are enough.* Interference in the lifecycle is between a request or task and
one other that acts on the same row between its read and its write; two workers and two
clients give every such pair, three requests give create, then two of cancel, delete and a
further attempt at once. One scan suffices for `lifecycle_safety` because every invariant
it checks is about one scan, except for the artefact rows scans take from each other, which
`rescan_overwrites` and the proofs cover with two and with any number; two documents with
different assets are needed to tell one ingestion from a mixture of two. One fault per
behaviour is each fault at every point of every interleaving. The bounds `MaxFaults` and
`MaxRequests` (and `MaxCrashes` in the scanner) are guards of the model alone; the theorems
hold for every value of them. `CHECK_DEADLOCK FALSE` appears because a system whose
requests are used up and whose queue is empty has stopped, rightly. Symmetry is declared
only in the two safety runs.

The engines are functions of one artefact, one context and one profile at a time; their
inputs have one member of every kind a condition of the code tells apart and the values on
both sides of each boundary (key sizes at the attack models, lifetimes below, at and above
the horizon, gaps in the capability curve). Inventories of two findings give the only
conflicts a join can have: two of one id, two assessments of one finding. Three candidates
and three nodes give every shape the walk or the queue distinguishes: a chain, a shared
prerequisite, a cycle with and without an entrance, a weaker value on the way; what a fourth
adds for the waves is the theorem. The platform's mechanisms are disturbed by one other call
between a read and a write; the third call of `RiskRecords` gives a preset after, or between,
the two. Two connections give a resumption, three events one that is missed in the middle,
and a clock of 5 a window that begins after the first request has left it. `CHECK_DEADLOCK
FALSE` is in these two runs because a question is answered, a plan is made, and calls are used up.

*Fairness* (`FairSpec`) is weak fairness of three things: the next step of a request in
progress, the next step of a task in progress, and the delivery of each waiting message to
some worker. The code justifies it by the timeouts on everything a task waits for
(`urlopen` 600 s, `git clone` 600 s, soft time limit 3300 s) and by Celery's prefetch of one;
nothing is assumed of clients, faults, or abandoned scanner runs.

`StreamFairness` is weak fairness of each stream's handler, which loops for as long as its
client is connected; nothing is assumed of the sessions that record or of clients that leave.
Weak fairness of `Plan` and of `Inherit` in `EnginesSpec` says that a single-threaded function
that can take a step takes one.

### What the passing runs check

- `LiveScansAreInHand`: a QUEUED or RUNNING scan has a message, a request about to dispatch
  it, or a task, unless one of three deaths hit it (API process between commit and
  dispatch, a killed pool process, a failing write outside the try block).
- `LogAgreesWithStatus`: the event of the row's status is in its log, and what follows it is
  the scanning event or an echo: the claim or failure of an overlapping task that wrote its
  event and no status, repeating an event that came before. So a client that takes the last
  event for the status is wrong after such an overlap (`cancelled`, `preparing`), and one that
  looks for the terminal event is right. One status has no event: `rescan` writes FAILED
  silently when the queue is down.
- `ArtefactsAccountedFor`: artefact rows have a scan, a completed event and a document.
- `NoSecondInsert`: the artefacts of a scan come from one document.
- `SettledStaysSettled`: a terminal scan nobody is past the check of never changes again. It is
  about later deliveries and requests; a task past its check may still wake the scan up.
- `KeysUnique`, `EveryScanEnds`: an Idempotency-Key names one scan; every scan ends.
- `DocumentsAreWhole`, `ReferencesResolve`, `ImplementsRegister`: the artifact store.
- `EveryArtefactIsClassified`: what ingest stores never makes `classify_risk` raise.
- `CapabilityNeverHelps`, `LifetimeNeverHelps`: a stronger adversary, a longer lifetime or one
  more piece of evidence never lowers a score.
- `TracksNeverContradict`: harvestable data is past its Mosca date (unless the organisation
  set its own horizon), and no verdict is surer than its tracks.
- `VerdictsSurviveStorage`: a verdict read back from its row, or made anew from the rows, is
  the verdict that was made.
- `AcceptedProfilesNeverRaise`: a profile the loader accepts never breaks a recommendation.
- `GateNeverRelaxes`: a threshold that reaches further down, or one context more, never lets a
  failing build pass.
- `ObservationsAccounted`, `ExportsAgree`, `DiffsReconcile`: every protocol counted once; all
  formats tell the same of a finding; a diff adds up in both directions.
- `NothingDroppedSilently`, `SoundComponentsSurvive`: every component is an artefact, a skip or
  a gap, and a named, located one is refused only for a reason the property lists: an absolute
  path, a certificate whose dates are inverted or cannot be compared (one with a zone, one
  without), or a parameter set that is kept and is no text.
- `ReexportKeepsTheFinding`: an export ingested again keeps type, name, algorithm, primitive,
  mode and places, and the one number CycloneDX has room for: the parameter set if there is
  one, else the key size. A key size beside a parameter set, a certificate's validity and the
  position in the document do not come back, and the property does not claim it.
- `WavesInOrder`, `RaisesExactlyOnCycles`, `WavesEnd`; `HighestAncestorGoverns`,
  `CriticalitySettles`: the planner and the inheritance agree with their definitions on every
  graph, and end. The definitions (`Needs`, `Ancestors`) are least closed sets, not walks.
- `TypeOK`, `EnginesTypeOK`, `PlatformTyped`: the type invariants of the compositions.
- `QuietRecordsAgree`: without overlapping calls, the newest verdict rates the stored context
  (or, from an ingestion without one, values nobody stored); if a preset made it, its settings
  are active or a later preset has begun. That a PATCH and an ingestion rate under the default
  settings is modelled and not part of the property.
- `OnePresetInForce`: one active version over all projects unless presets overlap, as
  `tables.py:564` says; that a preset deactivates other projects' versions is taken as it is.
- `NamedFieldsOnly`: a PATCH changes no field it did not name, whatever it overlaps.
- `AnswersAreDownloadable`: an answered report has its row and its whole file.
- `NoEventSkipped`, `EventsArrive`: a reader that resumes misses nothing, and gets the rest.
- `LimitHoldsInEveryWindow`: never more than the limit in any window, and no refusal in one
  that is not full.
- `PreparedTreesAreWhole`: the scanner reads a whole tree at the wanted reference, except in
  three cases the property names: overlapping deliveries, a copy cut short by a crash, or by
  an error.

### Disagreements

Each is a run that must find a violation, with the quotation in `PROJECT.json`.

1. A cancellation does not win: a RUNNING scan is cancelled while its only task waits for the
   scanner, the call or the handling of its answer raises, and the except clause writes FAILED.
2. A scan can hang at RUNNING: a killed pool process is acknowledged and never redelivered.
3. A rescan overwrites: it takes the artefact rows of the original scan.
4. An overlapping redelivery turns SUCCEEDED into FAILED: the second task claims the RUNNING
   scan, the first ingests it, and the second raises into its except clause.
5. A published document can be replaced: exists-check and rename are not atomic.
6. Gaps of the engines do not reach the document, so a scan that missed an engine succeeds.
7. A finding does not keep its identity: its position in the document is hashed into its id.

Met while modelling, without a run: `ErrAlreadyExists` is documented as "resume at ingest"
and handled as `write_failed`; nothing syncs the directory after the rename, so a power loss
can take back an answered document (the register has the step); retries, task ids and the
visibility timeout of the architecture document are not configured.

From the lifecycle: a task that loaded its row QUEUED wakes a scan cancelled or ingested
meanwhile, and one that loaded it RUNNING leaves a "preparing" event at one percent behind the
terminal one; an API process that dies before `send_task` strands its row. They are in the
model, and no property forbids them.

From the engines: names that spell their curve (`X25519`, `ED25519`) get the key size 25519
and need context for ever; `ML-KEM-768` is not the policy list's `mlkem`; `mismatched` of the
protocol comparison is always 0, so counting it adds nothing to `ObservationsAccounted`; the CI gate ignores findings that could not be scored;
`engines/__main__.py` hands the result of ingest to functions that want an inventory and
fails. From the platform: the settings of a preset reach neither a later PATCH nor a later
ingestion, which both rate under the defaults; setting one project's preset deactivates
every other project's; an artefact ingested without a context is scored on assumed values and
loses its score at the next preset or PATCH; overlapping PATCHes keep each other's fields and
lose each other's provenance; a key repeated for another scan or format is answered with the
first report; no report file is ever removed; a missing reference silently becomes the
default branch; an `EventSource` that reconnects by itself repeats its first `after`, so a
browser may see events twice; the demo seed writes rows that cannot be read back.

## Proofs

Every invariant and action property of the passing runs, and the refinement, is a theorem that
TLAPS checks: for every number of scans, clients, workers, assets, documents, keys, calls,
engines, requests, faults, projects, streams, events, hosts and deliveries, for every finite
dependency graph, and for every artefact, context, profile, build, inventory and document of
the schemas. The theorems assume nothing but the named assumptions on the constants, which TLC
evaluates in the runs:

| Assumption | Why the code justifies it |
|---|---|
| `ConstantsAssumption`, the four of `ScannerService`, `StreamBounds`, `ScansBounded` | bounds are numbers, placeholders are no members, a service has an engine |
| `ReportNames` | the placeholder for "no answer" is no report |
| `LimiterConstants` | the limiter has a limit and a window (60 s in the code), and the clock's bound is a number |
| `CandidatesFinite`, `NodesFinite` | both functions get lists |
| `DocumentsParsed` | a parsed document is a sequence of components; Python reads any integer |
| `RiskInputs`, `AdviceInputs`, `ComparisonInputs` | what the pydantic schemas admit; a stored `not_applicable` is a library's, because ingest alone writes labels (`StoredLabel`) |
| `GateInputs` | the command loads, and so accepts, its profile before it runs an engine |
| `ReportInputs` | a recommendation of an inventory belongs to an assessment that was actionable, the only kind the orchestrator asks about |

`ShippedProfilesLoad` is a fact about the repository that TLC evaluates and no proof uses.

| Theorem | Argument |
|---|---|
| `Typing` | `TypeOK` is inductive once it says that a task past the scanner's answer finds a document of `Documents` (else `ReadReply` could hand on `None`). |
| `NoScanIsStranded` | `LiveScansAreInHand` is inductive given `TypeOK`: each action that ends a request or task either settles the scan, restores its message or adds it to `lost`. |
| `LogTellsStatus`, `IdempotencyKeysAreUnique`, `ArtefactsHaveAScan`, `ArtefactsFromOneDocument`, `FinishedScansStayFinished` | One lemma, `RowStep`, classifies what any step does to the row of one scan (inserted, deleted, recorded, echoed, failed silently, scanning event added, untouched); the invariants follow from the classes, and `OwnerStep` and `PublishedStays` from those of artefacts and documents. `LogAgreesWithStatus` needs to know beside itself that a task which will leave the status alone repeats an event that is in the log already (`EchoesAreKnown`), and that an id drawn for an insert has no log (`DrawnIdsAreNew`). |
| `ServiceTyping`, `ReadersSeeWholeDocuments`, `AnsweredReferencesResolve` | The inductive invariant `StoreInv` adds to the types what each system call establishes: a call past `EnginesDone` ran an engine, one before its rename has synced, and a published name belongs to an answered call. It is needed because a torn file is only harmless while no name leads to it. |
| `StoreImplementsRegister` | Step simulation: the exists-check is `Open`, the rename `Publish`, a failure or crash `Close`, power loss itself; everything else stutters, because an answered call's inventory no longer changes. |
| `StreamTypes`, `StreamsSkipNothing` | The inductive invariant says the log is 1..n without a gap, that every session about to insert holds a number of at most n + 1, and that a client's poll is the part of the log after its last sequence as it stood at some moment. The middle part is what makes it true: a number handed out is either the next one or already refused by the unique index. |
| `ReportTypes`, `AnsweredReportsDownload` | The invariant ties each row to the call that wrote it: a row's call is answered with itself and its file is whole; an answer of another call names a row that was there when it was looked up; rows leave only with their scan. |
| `PlanTypes`, `WavesFollowPrerequisites`, `NoMoreWavesThanArtefacts` | A finished artefact has all its prerequisites finished; the frame on top returns one more than the maximum of theirs, which is above each and directly above one. The invariant also bounds every wave by the number of finished artefacts, which is what keeps the next one within the number of candidates. |
| `RaisesForCycles` | `CycleInv`: each frame of the stack is needed by every frame below it, so an artefact met while it is being visited needs itself; and what is finished needs only what is finished, in earlier waves, so a complete plan has no cycle. |
| `InheritanceKeepsItsTypes`, `HighestGoverns` | The value at a node is its own or one that some ancestor sent (`Sent`, `BestOK`), and along every edge the larger value has arrived, is in the queue or is being offered (`Flowing`). With the queue empty only "arrived" is left, so the nodes whose value is at least a given ancestor's are closed under edges and contain the node. |
| `RecordsKeepTheirTypes`, `PresetInForce`, `QuietRecords`, `OnlyNamedFields` | Every step is a move of one call (`Moves`) or one of three commits. Agreement of a quiet artefact is not inductive: what a call under way has read must still be what is stored (`Agreeing`), which holds because calls that overlapped once have overlapped for good (`OverlapStays`), and every verdict is traced to the call that made it (`Traced`). |
| `LimiterTyped`, `LimitHolds` | A trim forgets moments, so the bound on a window is not inductive. The invariant keeps every admission in a history, the deque as its end, and says that the admission `Limit` places after another came a whole window later (`Spread`); a window with more than `Limit` admissions would hold two that are `Limit` places apart. |
| `TargetKeepsItsTypes`, `TreesAreWhole` | While no two deliveries have met, one at a time is under way, a clone's directory is its own, and only a running or interrupted copy is half. |
| `PlatformKeepsItsTypes`, `PlatformPromises` | The composition implements each mechanism's own specification (`PlatformRuns`: a step of another leaves its variables alone), so each theorem carries over. |
| `IngestAccountsForAll`, `SoundComponentsAreKept`, `ReexportsReturn`, `EnginesKeepTheirTypes` | `IngestInv`: every artefact and gap is traced to the component it comes from (the fifth part of an id is that component's position, so no id meets another), and the counts of artefacts, gaps and skips add up at every position. The rest is about the operators: no detail that `BuildDetail` makes trips a validator, and what an export writes reads back as the same type, name, algorithm, mode and exported number. |
| `NoLabelRaises`, `CapabilityRaisesScores`, `LifetimeRaisesScores`, `VerdictsAreConsistent` | The question never changes, so each property is a lemma about operators. `Crossing` moves to an earlier year with the scenario, `ResolveX` grows with lifetime and evidence, each contribution is monotone and bounded by its weight, whether a verdict is scored does not depend on either, and a weaker confidence is picked from a finite set that has a least rank. |
| `RowsKeepVerdicts` | Column by column: what is written as NULL comes back as the empty value it was (`ColumnReturns`), the row of an artefact or a context returns it (`ArtefactReturns`, `ContextReturns`), the `resolved` flag that has no column follows from the values that have one, and the label ingest stores changes nothing that is decided (`LabelledArtefact`). |
| `LoadedProfilesAreSafe`, `GateIsHonest` | A set is cited only when exactly one fits (`SetFits`), and acceptance gives each set the sizes its citation needs. A scored verdict has one of three bands, whose ranks agree under both spellings, and an artefact without context is never scored (`UnknownUnscored`), so a context can only add a violation. |
| `SightingsAreCounted`, `ReportsTellOneStory`, `DiffsAddUp` | Keys partition the findings, and the counts of a partition of finite sets add up; every exporter's lookup picks the last assessment of a finding, and the recommendation of that one. |
| `GraphAnswersStand` | The composition implements `PlanSpec` and `InheritSpec`. |

A least element of a set of numbers comes from `WFMin` of the library's well-founded relations
(`LeastNat`), which replaces induction here. The operators that proofs speak of are defined by
CHOOSE, by sets and by sums written out, not by a fold, because a lemma about a fold would have to be
instantiated with an operator: `PopThrough`, for one, is the suffix the popleft loop leaves.

*Only model-checked:* the liveness properties `EveryScanEnds`, `EventsArrive`, `WavesEnd` and
`CriticalitySettles`, because fairness and ENABLED are beyond the prover, and the violations.

## Not modelled, and what is left

What could still be added, in this order:

1. Bulk review and the import of applications, as further calls of `RiskRecords`.
2. Deduplication and merging of findings in the CBOM library, against a reference definition.
3. An abstract life of a scan (queued, running, one terminal status, deleted) that
   `ScanLifecycle` implements outside the overlaps its violations show.

Left out, with the reasons `PROJECT.json` gives for each:

- *Authentication and tenancy:* guards at the head of each handler; the models' requests are
  from a user who may make them.
- *Incremental cache:* reached only on the path described under *ScanLifecycle*; *transitive
  scanning:* no caller of this commit reaches it.
- *Binary and egress scanners:* they use a store interface that does not exist here.
- *What engines detect, how reports are laid out* (PDF, HTML, column widths), texts of notes
  and rationales: data and wording.
- *Dashboards and lists:* reads that keep no state.
- *Demo seed, observability, migrations, frontend, deployment, rules and knowledge base.*
