----------------------- MODULE ScannerService_proofs -----------------------
(***************************************************************************)
(* What holds of a scanner service and its store for any number of calls,  *)
(* engines and crashes.                                                    *)
(***************************************************************************)
EXTENDS ScannerService, TLAPS

\* A call that published is answered, ran an engine and synced its file.
Published(c) ==
  /\ call[c].step = "answered"
  /\ call[c].tools # {}
  /\ file[c] = "synced"

\* What the system calls of WriteCBOM establish, one after the other.
WritersReady ==
  \A c \in Calls :
    /\ call[c].step \in {"check"} \cup Writing => call[c].tools # {}
    /\ call[c].step = "rename" => file[c] = "synced"

NamesPublished ==
  /\ dest # None => Published(dest)
  /\ kept # None => Published(kept)

\* The inductive invariant.
StoreInv == TypeOK /\ WritersReady /\ NamesPublished /\ ReferencesResolve

-----------------------------------------------------------------------------
LEMMA TypeInit == Init => TypeOK
<1>1. 1 \in 1..(EngineCount + 1)
  BY EngineCountAssumption
<1>. QED BY <1>1, NoneAssumption
     DEF Init, TypeOK, IdleCall, CallRecords, CallSteps, FileStates

LEMMA EngineRoundTyped ==
  ASSUME TypeOK, NEW c \in Calls,
         NEW n \in 1..(EngineCount + 1), NEW T \in SUBSET Engines, NEW G \in SUBSET Engines
  PROVE  [call EXCEPT ![c].next = n, ![c].tools = T, ![c].gaps = G] \in [Calls -> CallRecords]
<1>. QED BY DEF TypeOK, CallRecords

LEMMA CrashTyped ==
  ASSUME TypeOK, Crash
  PROVE  call' \in [Calls -> CallRecords] /\ crashes' \in Nat
<1>. DEFINE ended(c) == [call[c] EXCEPT !.step = "dead"]
<1>1. \A c \in Calls : call[c] \in CallRecords
  BY DEF TypeOK
<1>2. \A c \in Calls : ended(c) \in CallRecords
  BY <1>1 DEF CallRecords, CallSteps, Ended
<1>3. call' = [c \in Calls |-> IF call[c].step \in InProgress THEN ended(c) ELSE call[c]]
  BY DEF Crash
<1>. HIDE DEF ended
<1>4. call' \in [Calls -> CallRecords]
  BY <1>1, <1>2, <1>3
<1>. QED BY <1>4 DEF Crash, TypeOK

LEMMA TypeStep == TypeOK /\ [Next]_vars => TypeOK'
<1>. SUFFICES ASSUME TypeOK, [Next]_vars PROVE TypeOK'
  OBVIOUS
<1>. USE EngineCountAssumption, MaxCrashesAssumption
     DEF TypeOK, CallRecords, CallSteps, InProgress, Writing, Ended, FileStates, store, host
<1>1. ASSUME NEW c \in Calls, Begin(c) PROVE TypeOK'
  BY <1>1 DEF Begin, At, Goto
<1>2. ASSUME NEW c \in Calls, CallerLeaves(c) PROVE TypeOK'
  BY <1>2 DEF CallerLeaves
<1>3. ASSUME NEW c \in Calls, RunEngine(c) PROVE TypeOK'
  <2>1. call[c].next + 1 \in 1..(EngineCount + 1)
    BY <1>3 DEF RunEngine, MoreEngines, Engines
  <2>2. PICK ran, gap \in BOOLEAN :
          call' = [call EXCEPT ![c].next = @ + 1,
                               ![c].tools = IF ran THEN @ \cup {call[c].next} ELSE @,
                               ![c].gaps = IF gap THEN @ \cup {call[c].next} ELSE @]
    BY <1>3 DEF RunEngine
  <2>. DEFINE T == IF ran THEN call[c].tools \cup {call[c].next} ELSE call[c].tools
              G == IF gap THEN call[c].gaps \cup {call[c].next} ELSE call[c].gaps
  <2>3. T \in SUBSET Engines /\ G \in SUBSET Engines
    BY <1>3 DEF RunEngine, MoreEngines
  <2>4. call' = [call EXCEPT ![c].next = call[c].next + 1, ![c].tools = T, ![c].gaps = G]
    BY <2>2
  <2>. HIDE DEF T, G
  <2>5. call' \in [Calls -> CallRecords]
    BY <2>1, <2>3, <2>4, EngineRoundTyped
  <2>. QED BY <1>3, <2>5 DEF RunEngine
<1>4. ASSUME NEW c \in Calls, EnginesDone(c) PROVE TypeOK'
  BY <1>4 DEF EnginesDone, At, Goto
<1>5. ASSUME NEW c \in Calls, CheckExists(c) PROVE TypeOK'
  BY <1>5 DEF CheckExists, At, Goto
<1>6. ASSUME NEW c \in Calls, CreateTemp(c) PROVE TypeOK'
  BY <1>6 DEF CreateTemp, At, Goto
<1>7. ASSUME NEW c \in Calls, Write(c) PROVE TypeOK'
  BY <1>7 DEF Write, At, Goto, CleanUp
<1>8. ASSUME NEW c \in Calls, Sync(c) PROVE TypeOK'
  BY <1>8 DEF Sync, AfterSync, At, Goto, CleanUp
<1>9. ASSUME NEW c \in Calls, Rename(c) PROVE TypeOK'
  BY <1>9 DEF Rename, RenameFails, At, Goto, CleanUp
<1>10. CASE ServiceCrash
  BY <1>10, CrashTyped DEF ServiceCrash
<1>11. CASE DirectoryFlushed
  BY <1>11 DEF DirectoryFlushed
<1>12. CASE PowerLoss
  <2>1. call' \in [Calls -> CallRecords] /\ crashes' \in Nat
    BY <1>12, CrashTyped DEF PowerLoss
  <2>2. file' \in [Calls -> FileStates]
    BY <1>12 DEF PowerLoss
  <2>. QED BY <1>12, <2>1, <2>2 DEF PowerLoss
<1>13. CASE UNCHANGED vars
  BY <1>13 DEF vars
<1>. QED BY <1>1, <1>2, <1>3, <1>4, <1>5, <1>6, <1>7, <1>8, <1>9, <1>10, <1>11, <1>12, <1>13
     DEF Next, CallNext

-----------------------------------------------------------------------------
LEMMA StoreInit == Init => StoreInv
<1>. SUFFICES ASSUME Init PROVE StoreInv
  OBVIOUS
<1>1. WritersReady /\ NamesPublished /\ ReferencesResolve
  BY DEF Init, WritersReady, NamesPublished, ReferencesResolve, IdleCall, Writing
<1>. QED BY <1>1, TypeInit DEF StoreInv

\* Each system call keeps what the earlier ones of its call established.
LEMMA StoreStep == StoreInv /\ [Next]_vars => StoreInv'
<1>. SUFFICES ASSUME StoreInv, [Next]_vars PROVE StoreInv'
  OBVIOUS
<1>0. TypeOK'
  BY TypeStep DEF StoreInv
<1>. USE <1>0 DEF StoreInv, TypeOK, CallRecords, WritersReady, NamesPublished, ReferencesResolve,
                  Published, InProgress, Writing, store, host
<1>1. ASSUME NEW c \in Calls, Begin(c) PROVE StoreInv'
  BY <1>1 DEF Begin, At, Goto, Exists
<1>2. ASSUME NEW c \in Calls, CallerLeaves(c) PROVE StoreInv'
  BY <1>2 DEF CallerLeaves
<1>3. ASSUME NEW c \in Calls, RunEngine(c) PROVE StoreInv'
  BY <1>3 DEF RunEngine, MoreEngines, At
<1>4. ASSUME NEW c \in Calls, EnginesDone(c) PROVE StoreInv'
  BY <1>4 DEF EnginesDone, SomeEngineRan, At, Goto
<1>5. ASSUME NEW c \in Calls, CheckExists(c) PROVE StoreInv'
  BY <1>5 DEF CheckExists, At, Goto
<1>6. ASSUME NEW c \in Calls, CreateTemp(c) PROVE StoreInv'
  BY <1>6 DEF CreateTemp, At, Goto
<1>. DEFINE Failing(c) == call[c].step \in Writing /\ CleanUp(c)
<1>f. ASSUME NEW c \in Calls, Failing(c) PROVE StoreInv'
  <2>1. /\ dest # c /\ kept # c
    BY <1>f, NoneAssumption
  <2>2. /\ call' = [call EXCEPT ![c].step = "failed"]
        /\ file' = [file EXCEPT ![c] = "none"]
        /\ UNCHANGED <<dest, kept, powered>>
    BY <1>f DEF CleanUp, Goto, host
  <2>3. NamesPublished' /\ ReferencesResolve'
    BY <2>1, <2>2
  <2>4. WritersReady'
    BY <2>2
  <2>. QED BY <2>3, <2>4
<1>7. ASSUME NEW c \in Calls, Write(c) PROVE StoreInv'
  <2>1. CASE Failing(c)
    BY <2>1, <1>f
  <2>2. CASE Goto(c, "sync") /\ file' = [file EXCEPT ![c] = "written"] /\ UNCHANGED <<store, host>>
    BY <1>7, <2>2 DEF Write, At, Goto
  <2>. QED BY <1>7, <2>1, <2>2 DEF Write, At
<1>8. ASSUME NEW c \in Calls, Sync(c) PROVE StoreInv'
  <2>1. CASE Failing(c)
    BY <2>1, <1>f
  <2>2. CASE Goto(c, "rename") /\ file' = [file EXCEPT ![c] = "synced"] /\ UNCHANGED <<store, host>>
    BY <1>8, <2>2 DEF Sync, At, Goto
  <2>. QED BY <1>8, <2>1, <2>2 DEF Sync, AfterSync, At
<1>9. ASSUME NEW c \in Calls, Rename(c) PROVE StoreInv'
  <2>1. CASE Failing(c)
    BY <2>1, <1>f
  <2>2. CASE dest' = c /\ Goto(c, "answered") /\ UNCHANGED <<file, kept, host>>
    BY <1>9, <2>2, NoneAssumption DEF Rename, At, Goto
  <2>. QED BY <1>9, <2>1, <2>2 DEF Rename, RenameFails, At
<1>10. CASE ServiceCrash
  BY <1>10 DEF ServiceCrash, Crash
<1>11. CASE DirectoryFlushed
  BY <1>11 DEF DirectoryFlushed
<1>12. CASE PowerLoss
  BY <1>12 DEF PowerLoss, Crash
<1>13. CASE UNCHANGED vars
  BY <1>13 DEF vars
<1>. QED BY <1>1, <1>2, <1>3, <1>4, <1>5, <1>6, <1>7, <1>8, <1>9, <1>10, <1>11, <1>12, <1>13
     DEF Next, CallNext

\* The invariant that carries the three theorems below.
LEMMA StoreInvariant == Spec => []StoreInv
<1>. QED BY StoreInit, StoreStep, PTL DEF Spec

\* Every variable of the service keeps its type.
THEOREM ServiceTyping == Spec => []TypeOK
<1>1. StoreInv => TypeOK
  BY DEF StoreInv
<1>. QED BY <1>1, StoreInvariant, PTL

\* No overlap of calls, no crash and no power loss lets a reader find a torn
\* document (WriteCBOM syncs, then renames).
THEOREM ReadersSeeWholeDocuments == Spec => []DocumentsAreWhole
<1>1. StoreInv => DocumentsAreWhole
  BY DEF StoreInv, NamesPublished, Published, DocumentsAreWhole
<1>. QED BY <1>1, StoreInvariant, PTL

\* A reference Scan handed to the backend names a published document for as long
\* as the host keeps its power.
THEOREM AnsweredReferencesResolve == Spec => []ReferencesResolve
<1>1. StoreInv => ReferencesResolve
  BY DEF StoreInv
<1>. QED BY <1>1, StoreInvariant, PTL

-----------------------------------------------------------------------------
(* The store implements the register of whole inventories.                 *)

Open == {c \in Calls : call[c].step \in Writing}
registerVars == <<Seen(dest), Seen(kept), Open>>

LEMMA AnsweredKeepTools ==
  ASSUME TypeOK, [Next]_vars, NEW d \in Calls, call[d].step = "answered"
  PROVE  call'[d].tools = call[d].tools
<1>. USE DEF TypeOK, CallRecords, At, Goto, CleanUp, InProgress, Writing
<1>1. ASSUME NEW c \in Calls, CallNext(c) PROVE call'[d].tools = call[d].tools
  <2>1. c # d => call'[d] = call[d]
    BY <1>1 DEF CallNext, Begin, CallerLeaves, RunEngine, EnginesDone, CheckExists, CreateTemp,
                Write, Sync, Rename, RenameFails
  <2>2. ~RunEngine(d)
    BY DEF RunEngine
  <2>3. CASE c = d
    BY <1>1, <2>2, <2>3 DEF CallNext, Begin, CallerLeaves, EnginesDone, CheckExists, CreateTemp,
                Write, Sync, Rename, RenameFails
  <2>. QED BY <2>1, <2>3
<1>2. CASE ServiceCrash \/ PowerLoss
  BY <1>2 DEF ServiceCrash, PowerLoss, Crash
<1>3. CASE DirectoryFlushed \/ UNCHANGED vars
  BY <1>3 DEF DirectoryFlushed, vars
<1>. QED BY <1>1, <1>2, <1>3 DEF Next

\* What a reader finds under a published name does not change with time.
LEMMA SeenKept ==
  ASSUME StoreInv, StoreInv', [Next]_vars, NEW d \in Calls \cup {None},
         d # None => Published(d) /\ Published(d)'
  PROVE  Seen(d)' = Seen(d)
<1>1. CASE d = None
  BY <1>1 DEF Seen
<1>2. CASE d # None
  <2>1. call'[d].tools = call[d].tools
    BY <1>2, AnsweredKeepTools DEF StoreInv, Published
  <2>. QED BY <1>2, <2>1 DEF Seen, Inventory, Build, Published
<1>. QED BY <1>1, <1>2

LEMMA RegisterStep ==
  ASSUME StoreInv, StoreInv', [Next]_vars
  PROVE  Register!Next \/ UNCHANGED registerVars
<1>. DEFINE Stutter == UNCHANGED registerVars
            Goal == Register!Next \/ Stutter
<1>. USE DEF StoreInv, TypeOK, CallRecords, NamesPublished, store, host, At, Goto, Writing
<1>a. dest' = dest => Seen(dest)' = Seen(dest)
  BY SeenKept
<1>b. kept' = kept => Seen(kept)' = Seen(kept)
  BY SeenKept
<1>c. ASSUME dest' = dest, kept' = kept, NEW ws \in SUBSET Calls, Open' = Open \ ws PROVE Goal
  <2>1. Register!Close(ws)
    BY <1>a, <1>b, <1>c DEF Register!Close, Open
  <2>. QED BY <2>1 DEF Register!Next
<1>d. ASSUME dest' = dest, kept' = kept, Open' = Open PROVE Goal
  BY <1>a, <1>b, <1>d DEF registerVars
<1>1. ASSUME NEW c \in Calls, Begin(c) PROVE Goal
  BY <1>1, <1>d DEF Begin, Open
<1>2. ASSUME NEW c \in Calls, CallerLeaves(c) PROVE Goal
  BY <1>2, <1>d DEF CallerLeaves, Open
<1>3. ASSUME NEW c \in Calls, RunEngine(c) PROVE Goal
  BY <1>3, <1>d DEF RunEngine, Open
<1>4. ASSUME NEW c \in Calls, EnginesDone(c) PROVE Goal
  BY <1>4, <1>d DEF EnginesDone, Open
<1>5. ASSUME NEW c \in Calls, CheckExists(c) PROVE Goal
  <2>1. CASE dest = None
    <3>1. Open' = Open \cup {c} /\ UNCHANGED <<dest, kept>>
      BY <1>5, <2>1 DEF CheckExists, MayWrite, Exists, Open
    <3>2. Register!Open(c)
      BY <2>1, <3>1, <1>a, <1>b DEF Register!Open, Open, Seen
    <3>. QED BY <3>2 DEF Register!Next
  <2>2. CASE dest # None
    BY <1>5, <2>2, <1>d DEF CheckExists, MayWrite, Exists, Open
  <2>. QED BY <2>1, <2>2
<1>f. ASSUME NEW c \in Calls, call' = [call EXCEPT ![c].step = "failed"], UNCHANGED store
      PROVE Goal
  <2>1. Open' = Open \ {c}
    BY <1>f DEF Open
  <2>2. {c} \in SUBSET Calls /\ dest' = dest /\ kept' = kept
    BY <1>f
  <2>. HIDE DEF Goal
  <2>. QED BY <2>1, <2>2, <1>c
<1>6. ASSUME NEW c \in Calls, CreateTemp(c) PROVE Goal
  <2>1. CASE Goto(c, "write")
    BY <1>6, <2>1, <1>d DEF CreateTemp, Open
  <2>2. CASE Goto(c, "failed")
    BY <1>6, <2>2, <1>f DEF CreateTemp
  <2>. QED BY <1>6, <2>1, <2>2 DEF CreateTemp
<1>7. ASSUME NEW c \in Calls, Write(c) PROVE Goal
  <2>1. CASE Goto(c, "sync") /\ UNCHANGED store
    BY <1>7, <2>1, <1>d DEF Write, Open
  <2>2. CASE CleanUp(c)
    BY <2>2, <1>f DEF CleanUp
  <2>. QED BY <1>7, <2>1, <2>2 DEF Write
<1>8. ASSUME NEW c \in Calls, Sync(c) PROVE Goal
  <2>1. CASE Goto(c, "rename") /\ UNCHANGED store
    BY <1>8, <2>1, <1>d DEF Sync, Open
  <2>2. CASE CleanUp(c)
    BY <2>2, <1>f DEF CleanUp
  <2>. QED BY <1>8, <2>1, <2>2 DEF Sync
<1>9. ASSUME NEW c \in Calls, Rename(c) PROVE Goal
  <2>1. CASE dest' = c /\ Goto(c, "answered") /\ UNCHANGED <<file, kept, host>>
    <3>1. c \in Open /\ Open' = Open \ {c}
      BY <1>9, <2>1 DEF Rename, Open
    <3>2. Seen(dest)' = [tools |-> call'[c].tools, gaps |-> {}]
      BY <2>1, NoneAssumption DEF Seen, Inventory, Build, Published
    <3>3. call'[c].tools \in (SUBSET Engines) \ {{}}
      BY <2>1, NoneAssumption DEF Published
    <3>4. Register!Publish(c)
      BY <2>1, <3>1, <3>2, <3>3, <1>b DEF Register!Publish, Open
    <3>. QED BY <3>4 DEF Register!Next
  <2>2. CASE CleanUp(c)
    BY <2>2, <1>f DEF CleanUp
  <2>. QED BY <1>9, <2>1, <2>2 DEF Rename, RenameFails
<1>10. CASE ServiceCrash
  <2>1. Open' = Open \ Calls
    BY <1>10 DEF ServiceCrash, Crash, Open, InProgress
  <2>. QED BY <1>10, <2>1, <1>c DEF ServiceCrash
<1>11. CASE DirectoryFlushed
  <2>1. Register!Keep
    BY <1>11, <1>a DEF DirectoryFlushed, Register!Keep
  <2>. QED BY <2>1 DEF Register!Next
<1>12. CASE PowerLoss
  <2>1. Open' = {}
    BY <1>12 DEF PowerLoss, Crash, Open, InProgress
  <2>2. Register!PowerLoss
    BY <1>12, <2>1, <1>b DEF PowerLoss, Register!PowerLoss, Open
  <2>. QED BY <2>2 DEF Register!Next
<1>13. CASE UNCHANGED vars
  BY <1>13, <1>d DEF vars, Open
<1>. QED BY <1>1, <1>2, <1>3, <1>4, <1>5, <1>6, <1>7, <1>8, <1>9, <1>10, <1>11, <1>12, <1>13
     DEF Next, CallNext

\* Scanner.Scan and WriteCBOM implement the register: readers see whole
\* inventories of at least one engine, and only a call whose WriteCBOM found no
\* document publishes or replaces one.
THEOREM StoreImplementsRegister == Spec => ImplementsRegister
<1>1. Init => Register!Init
  BY DEF Init, Register!Init, Seen, IdleCall, Writing
<1>2. StoreInv /\ StoreInv' /\ [Next]_vars =>
        [Register!Next]_<<Seen(dest), Seen(kept), {c \in Calls : call[c].step \in Writing}>>
  BY RegisterStep DEF registerVars, Open
<1>. QED BY <1>1, <1>2, StoreInvariant, PTL DEF Spec, ImplementsRegister, Register!Spec

=============================================================================
