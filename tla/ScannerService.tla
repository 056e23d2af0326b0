--------------------------- MODULE ScannerService ---------------------------
(***************************************************************************)
(* A scanner service (source, container, cloudhsm) answering the calls for *)
(* one scan id, and the artifact store it publishes into.                  *)
(*                                                                         *)
(* Calls overlap when a caller gave up (HTTP timeout, killed worker,       *)
(* redelivered task) while its scan is still running.  A call is Scanner.  *)
(* Scan: the exists-check, Registry.RunAll engine by engine, Build and     *)
(* Validate, then WriteCBOM system call by system call.  Each call writes  *)
(* a temporary file of its own, so a file is named by its call.            *)
(*                                                                         *)
(* The file system is POSIX: what was written is torn by a power loss      *)
(* unless it was synced, and a rename survives one only once the directory *)
(* reached the disk (nothing in the code syncs the directory).             *)
(***************************************************************************)
EXTENDS Naturals

CONSTANTS
  Calls,       \* HTTP calls for the scan id
  EngineCount, \* engines of the registry, run in the order 1..EngineCount
  Subprocess,  \* engines run through exec.CommandContext
  None,        \* no call
  MaxCrashes   \* how many crashes one behaviour has

Engines == 1..EngineCount

ASSUME EngineCountAssumption == EngineCount \in Nat \ {0}
ASSUME SubprocessAssumption == Subprocess \subseteq Engines
ASSUME NoneAssumption == None \notin Calls
ASSUME MaxCrashesAssumption == MaxCrashes \in Nat

VARIABLES
  call,     \* the progress of each call
  file,     \* the file written by each call
  dest,     \* the call whose file is cbom/<scan id>.json
  kept,     \* the same, as the directory on the disk has it
  crashes,  \* crashes so far
  powered   \* history: FALSE once the host has lost its power

vars == <<call, file, dest, kept, crashes, powered>>
store == <<dest, kept>>
host == <<crashes, powered>>

-----------------------------------------------------------------------------
Writing == {"create", "write", "sync", "rename"}
InProgress == {"engines", "check"} \cup Writing
Ended == {"answered", "failed", "dead"}
CallSteps == {"idle"} \cup InProgress \cup Ended
FileStates == {"none", "empty", "written", "synced", "torn"}

IdleCall == [step |-> "idle", next |-> 1, tools |-> {}, gaps |-> {}, cancelled |-> FALSE]

\* cbom.Build gets the findings and the tools of the engines that ran.  The gaps
\* RunAll collected are not handed on.
Build(c) == [tools |-> call[c].tools, gaps |-> {}]

\* Store.Exists.
Exists == dest # None

At(c, step) == call[c].step = step
Goto(c, step) == call' = [call EXCEPT ![c].step = step]

\* An error after CreateTemp: the deferred Remove, then write_failed.
CleanUp(c) ==
  /\ Goto(c, "failed")
  /\ file' = [file EXCEPT ![c] = "none"]
  /\ UNCHANGED <<store, host>>

-----------------------------------------------------------------------------
(* Scanner.Scan                                                            *)

\* A published document answers the call at once; an unusable target fails it.
Begin(c) ==
  /\ At(c, "idle")
  /\ \E step \in IF Exists THEN {"answered"} ELSE {"engines", "failed"} : Goto(c, step)
  /\ UNCHANGED <<file, store, host>>

\* The HTTP caller disconnects, which cancels the request's context.
CallerLeaves(c) ==
  /\ call[c].step \in InProgress
  /\ ~call[c].cancelled
  /\ call' = [call EXCEPT ![c].cancelled = TRUE]
  /\ UNCHANGED <<file, store, host>>

\* Variant: the loop runs once too often.
OneRoundMore(c) == call[c].next <= EngineCount + 1

MoreEngines(c) == call[c].next \in Engines

\* One round of RunAll.  An engine that is unavailable or fails leaves a gap, one
\* that runs may leave gaps too; a cancelled context kills a subprocess.
RunEngine(c) ==
  LET e == call[c].next IN
  /\ At(c, "engines")
  /\ MoreEngines(c)
  /\ \E ran, gap \in BOOLEAN :
       /\ ran \/ gap
       /\ ran => ~(call[c].cancelled /\ e \in Subprocess)
       /\ call' = [call EXCEPT
            ![c].next = @ + 1,
            ![c].tools = IF ran THEN @ \cup {e} ELSE @,
            ![c].gaps = IF gap THEN @ \cup {e} ELSE @]
  /\ UNCHANGED <<file, store, host>>

\* RunAll returns an error when no engine ran.
SomeEngineRan(c) == call[c].tools # {}

\* RunAll returns; Build, Validate and Marshal touch nothing shared.
EnginesDone(c) ==
  /\ At(c, "engines")
  /\ ~MoreEngines(c)
  /\ \/ SomeEngineRan(c) /\ Goto(c, "check")
     \/ Goto(c, "failed")
  /\ UNCHANGED <<file, store, host>>

-----------------------------------------------------------------------------
(* Store.WriteCBOM                                                         *)

\* Variant: WriteCBOM relies on the check its caller made.
CheckedByCaller(c) == TRUE

MayWrite(c) == ~Exists

\* The exists-check; ErrAlreadyExists becomes write_failed.
CheckExists(c) ==
  /\ At(c, "check")
  /\ Goto(c, IF MayWrite(c) THEN "create" ELSE "failed")
  /\ UNCHANGED <<file, store, host>>

\* MkdirAll and CreateTemp.
CreateTemp(c) ==
  /\ At(c, "create")
  /\ \/ /\ Goto(c, "write")
        /\ file' = [file EXCEPT ![c] = "empty"]
     \/ Goto(c, "failed") /\ UNCHANGED file
  /\ UNCHANGED <<store, host>>

Write(c) ==
  /\ At(c, "write")
  /\ \/ /\ Goto(c, "sync")
        /\ file' = [file EXCEPT ![c] = "written"]
        /\ UNCHANGED <<store, host>>
     \/ CleanUp(c)

\* Variant: no fsync before the rename.
NotSynced(c) == file[c]

AfterSync(c) == "synced"

Sync(c) ==
  /\ At(c, "sync")
  /\ \/ /\ Goto(c, "rename")
        /\ file' = [file EXCEPT ![c] = AfterSync(c)]
        /\ UNCHANGED <<store, host>>
     \/ CleanUp(c)

\* Variant: the error of WriteCBOM is dropped.
ErrorDropped(c) ==
  /\ Goto(c, "answered")
  /\ file' = [file EXCEPT ![c] = "none"]
  /\ UNCHANGED <<store, host>>

RenameFails(c) == CleanUp(c)

\* Close, Rename and Chmod.  The rename replaces a file that appeared at dest since
\* the exists-check.
Rename(c) ==
  /\ At(c, "rename")
  /\ \/ /\ dest' = c
        /\ Goto(c, "answered")
        /\ UNCHANGED <<file, kept, host>>
     \/ RenameFails(c)

-----------------------------------------------------------------------------
(* Environment                                                             *)

Crash ==
  /\ crashes < MaxCrashes
  /\ crashes' = crashes + 1
  /\ call' = [c \in Calls |->
       IF call[c].step \in InProgress THEN [call[c] EXCEPT !.step = "dead"] ELSE call[c]]

\* The service dies, or is cut off 30 s after SIGTERM; the files stay.
ServiceCrash ==
  /\ Crash
  /\ UNCHANGED <<file, store, powered>>

\* The operating system writes the directory back.
DirectoryFlushed ==
  /\ kept' = dest
  /\ UNCHANGED <<call, file, dest, host>>

PowerLoss ==
  /\ Crash
  /\ powered' = FALSE
  /\ dest' = kept
  /\ file' = [c \in Calls |-> IF file[c] \in {"empty", "written"} THEN "torn" ELSE file[c]]
  /\ UNCHANGED kept

-----------------------------------------------------------------------------
Init ==
  /\ call = [c \in Calls |-> IdleCall]
  /\ file = [c \in Calls |-> "none"]
  /\ dest = None
  /\ kept = None
  /\ crashes = 0
  /\ powered = TRUE

CallNext(c) ==
  \/ Begin(c)
  \/ CallerLeaves(c)
  \/ RunEngine(c)
  \/ EnginesDone(c)
  \/ CheckExists(c)
  \/ CreateTemp(c)
  \/ Write(c)
  \/ Sync(c)
  \/ Rename(c)

Next ==
  \/ \E c \in Calls : CallNext(c)
  \/ ServiceCrash
  \/ DirectoryFlushed
  \/ PowerLoss

Spec == Init /\ [][Next]_vars

-----------------------------------------------------------------------------
(* Properties                                                              *)

CallRecords ==
  [step : CallSteps, next : 1..(EngineCount + 1), tools : SUBSET Engines,
   gaps : SUBSET Engines, cancelled : BOOLEAN]

\* Every variable has its type.
TypeOK ==
  /\ call \in [Calls -> CallRecords]
  /\ file \in [Calls -> FileStates]
  /\ dest \in Calls \cup {None}
  /\ kept \in Calls \cup {None}
  /\ crashes \in Nat
  /\ powered \in BOOLEAN

\* "A reader never observes a half-written document", and a power loss cannot
\* "leave a renamed but empty file": a file a reader finds, now or after the next
\* power loss, is whole and on the disk, whichever calls overlap or die.
DocumentsAreWhole ==
  /\ dest # None => file[dest] = "synced"
  /\ kept # None => file[kept] = "synced"

\* A reference handed back to the backend resolves: while the host keeps its
\* power, an answered call has a document at dest, whatever the calls that
\* overlapped it, failed or died after it did to the file.
ReferencesResolve ==
  powered /\ (\E c \in Calls : call[c].step = "answered") => dest # None

Inventory(c) == IF file[c] = "synced" THEN Build(c) ELSE "torn"
Seen(c) == IF c = None THEN None ELSE Inventory(c)

Register == INSTANCE InventoryRegister WITH
  Writers <- Calls,
  Inventories <- [tools : (SUBSET Engines) \ {{}}, gaps : {{}}],
  visible <- Seen(dest),
  kept <- Seen(kept),
  open <- {c \in Calls : call[c].step \in Writing}

\* The store implements the register: readers see whole inventories of at least
\* one engine, and a document is only ever written or replaced by a call whose
\* WriteCBOM found none, never by a call that came to its check later.
ImplementsRegister == Register!Spec

-----------------------------------------------------------------------------
(* What the repository says and this code does not do                      *)

\* artifactstore.go: "Writes are atomic and immutable": without a power loss a
\* published document stays.
PublishedStands == [][dest # None /\ powered' => dest' = dest]_vars

\* engine.go: an engine that cannot run is "reported as a coverage gap -- never
\* silently ignored": a published inventory names the gaps of its run.
GapsReachTheReader == dest # None => Build(dest).gaps = call[dest].gaps

=============================================================================
