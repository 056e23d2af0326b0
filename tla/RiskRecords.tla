----------------------------- MODULE RiskRecords -----------------------------
(***************************************************************************)
(* Risk settings, artefact contexts and verdicts under concurrent calls:   *)
(* a preset (set_risk_preset), a context PATCH (update_context) and the    *)
(* ingestion of a scan.  Each call reads, classifies, and commits          *)
(* everything it writes in one transaction; PostgreSQL reads committed     *)
(* rows, and an UPDATE waits for the rows another transaction has updated. *)
(*                                                                         *)
(* Calls are numbered in the order in which they begin.  A verdict says    *)
(* which context it rates and under which settings; how a score follows    *)
(* from those is RiskEngines.                                              *)
(***************************************************************************)
EXTENDS Integers, FiniteSets

CONSTANTS Projects, Artefacts, Fields,
          Home,         \* the project of each artefact
          MaxCalls      \* bound: calls of a behaviour

VARIABLES present,      \* artefacts that have a row
          unratable,    \* artefacts classify_risk raises for
          context,      \* the context row of each artefact
          active,       \* calls whose setting version has is_active
          verdicts,     \* per artefact, the appended assessments
          call,         \* the calls so far
          now           \* a clock: every step takes a moment of its own
recordVars == <<present, unratable, context, active, verdicts, call, now>>

NoRow == [row |-> FALSE, value |-> [f \in Fields |-> 0], sourced |-> {}]
Default == 0                      \* RiskSettings(); a preset is its number
Assumed == "assumed"              \* the context ingest makes up and drops

Blank == [kind |-> "none", pc |-> "none", began |-> 0, done |-> 0, of |-> {}, named |-> {}, value |-> 0,
          seen |-> {}, read |-> << >>]
RecordsInit ==
  /\ present \in {P \in SUBSET Artefacts : Cardinality(P) = 1} /\ unratable \in SUBSET (Artefacts \ present)
  /\ context \in [Artefacts -> {NoRow}]
  /\ active = {} /\ verdicts = [a \in Artefacts |-> {}]
  /\ call = [r \in 1..MaxCalls |-> Blank]
  /\ now = 1

Calls == {r \in 1..MaxCalls : call[r].kind # "none"}
InFlight(r) == call[r].pc \in {"began", "read"}
Tick == now' = now + 1
Become(r, c) == call' = [call EXCEPT ![r] = c]
Verdict(at, by, settings, rates) == [at |-> at, by |-> by, settings |-> settings, rates |-> rates]

(* The next call begins; `first' is what its first step records. *)
Begins(r, first) ==
  /\ r \notin Calls /\ \A q \in 1..(r - 1) : q \in Calls
  /\ Become(r, first)
  /\ Tick
  /\ UNCHANGED <<present, unratable, context, active, verdicts>>

(* A raise rolls everything back. *)
FailsWith(r) ==
  /\ Become(r, [call[r] EXCEPT !.pc = "failed", !.done = now])
  /\ Tick
  /\ UNCHANGED <<present, unratable, context, active, verdicts>>

-----------------------------------------------------------------------------
(* set_risk_preset.  The UPDATE clears is_active in every version its      *)
(* snapshot shows as active, whatever the project, and the new row is      *)
(* added; assessed_at is taken first.                                      *)

(* Mutant: the versions of the call's own project. *)
OwnVersions(p) == {v \in active : call[v].of = {p}}

VersionsCleared(p) == active

PresetBegins(r) == \E p \in Projects :
  Begins(r, [Blank EXCEPT !.kind = "preset", !.pc = "began", !.began = now, !.of = {p},
                          !.seen = VersionsCleared(p)])

(* Row locks: an earlier UPDATE of one of the same rows ends first. *)
Waits(r) == \E q \in Calls \ {r} : /\ call[q].kind = "preset" /\ InFlight(q) /\ call[q].began < call[r].began
                                   /\ call[q].seen \cap call[r].seen # {}
ToRescore(r) == {a \in present : Home[a] \in call[r].of}
PresetReads(r) ==
  /\ call[r].kind = "preset" /\ call[r].pc = "began" /\ ~Waits(r)
  /\ ToRescore(r) \cap unratable = {}
  /\ Become(r, [call[r] EXCEPT !.pc = "read", !.read = [a \in ToRescore(r) |-> context[a]]])
  /\ Tick
  /\ UNCHANGED <<present, unratable, context, active, verdicts>>
PresetRaises(r) ==
  /\ call[r].kind = "preset" /\ call[r].pc = "began" /\ ~Waits(r)
  /\ ToRescore(r) \cap unratable # {}
  /\ FailsWith(r)

PresetCommits(r) ==
  /\ call[r].kind = "preset" /\ call[r].pc = "read"
  /\ active' = (active \ call[r].seen) \cup {r}
  /\ verdicts' = [a \in Artefacts |-> IF a \notin DOMAIN call[r].read THEN verdicts[a]
       ELSE verdicts[a] \cup {Verdict(call[r].began, "preset", r, call[r].read[a].value)}]
  /\ Become(r, [call[r] EXCEPT !.pc = "done", !.done = now])
  /\ Tick
  /\ UNCHANGED <<present, unratable, context>>

-----------------------------------------------------------------------------
(* update_context.  The call works on the row it read; the unit of work    *)
(* then writes the columns that differ from what was loaded, and the whole *)
(* provenance document when that differs.                                  *)

Updated(c) ==
  [row |-> TRUE, sourced |-> c.read.sourced \cup c.named,
   value |-> [f \in Fields |-> IF f \in c.named THEN c.value ELSE c.read.value[f]]]

PatchReads(r) == \E a \in present, named \in SUBSET Fields \ {{}}, v \in {1, 2} :
  Begins(r, [Blank EXCEPT !.kind = "patch", !.pc = IF a \in unratable THEN "failed" ELSE "read",
               !.began = now, !.done = IF a \in unratable THEN now ELSE 0, !.of = {a},
               !.named = named, !.value = v, !.read = context[a]])

(* Mutants: every column is written; the verdict rates the row as read. *)
AllColumns(stored, c) == Updated(c)
RatesAsRead(c) == c.read.value

ChangedColumns(stored, c) ==
  [row |-> TRUE,
   sourced |-> IF Updated(c).sourced # c.read.sourced THEN Updated(c).sourced ELSE stored.sourced,
   value |-> [f \in Fields |-> IF Updated(c).value[f] # c.read.value[f]
                               THEN Updated(c).value[f] ELSE stored.value[f]]]
RatesOf(c) == Updated(c).value

PatchCommits(r) ==
  /\ call[r].kind = "patch" /\ call[r].pc = "read"
  /\ \E a \in call[r].of :
       /\ context[a].row => call[r].read.row      \* else the INSERT meets the unique artefact_id
       /\ context' = [context EXCEPT ![a] = IF call[r].read.row THEN ChangedColumns(@, call[r])
                                            ELSE Updated(call[r])]
       /\ verdicts' = [verdicts EXCEPT ![a] = @ \cup {Verdict(call[r].began, "patch", Default, RatesOf(call[r]))}]
  /\ Become(r, [call[r] EXCEPT !.pc = "done", !.done = now])
  /\ Tick
  /\ UNCHANGED <<present, unratable, active>>
PatchRefused(r) ==
  /\ call[r].kind = "patch" /\ call[r].pc = "read" /\ ~call[r].read.row
  /\ \E a \in call[r].of : context[a].row
  /\ FailsWith(r)

-----------------------------------------------------------------------------
(* execute_scan's ingestion of one artefact, new or found again.  Without  *)
(* a context row it rates a context of assumed values that it does not     *)
(* store; an artefact it cannot classify is kept without a verdict.        *)

IngestReads(r) == \E a \in Artefacts :
  Begins(r, [Blank EXCEPT !.kind = "ingest", !.pc = "read", !.began = now, !.of = {a}, !.read = context[a]])
IngestCommits(r) ==
  /\ call[r].kind = "ingest" /\ call[r].pc = "read"
  /\ present' = present \cup call[r].of
  /\ verdicts' = [a \in Artefacts |->
       IF a \in unratable \/ a \notin call[r].of THEN verdicts[a]
       ELSE verdicts[a] \cup {Verdict(call[r].began, "ingest", Default,
                                      IF call[r].read.row THEN call[r].read.value ELSE Assumed)}]
  /\ Become(r, [call[r] EXCEPT !.pc = "done", !.done = now])
  /\ Tick
  /\ UNCHANGED <<unratable, context, active>>

RecordsNext == \E r \in 1..MaxCalls :
  \/ PresetBegins(r) \/ PresetReads(r) \/ PresetRaises(r) \/ PresetCommits(r)
  \/ PatchReads(r) \/ PatchCommits(r) \/ PatchRefused(r)
  \/ IngestReads(r) \/ IngestCommits(r)
RecordsSpec == RecordsInit /\ [][RecordsNext]_recordVars

-----------------------------------------------------------------------------
RecordsTypeOK ==
  /\ present \subseteq Artefacts /\ active \subseteq Calls
  /\ \A a \in Artefacts : context[a].sourced \subseteq Fields /\ (context[a].row => a \in present)
  /\ \A a \in Artefacts : \A v, w \in verdicts[a] : v.at = w.at => v = w
  /\ \A r \in Calls : call[r].pc \in {"began", "read", "done", "failed"}

Touches(r, a) == a \in call[r].of \/ Home[a] \in call[r].of
Overlap(q, r) == /\ q # r /\ (InFlight(r) \/ call[q].began < call[r].done)
                 /\ (InFlight(q) \/ call[r].began < call[q].done)
Newest(a) == CHOOSE v \in verdicts[a] : \A w \in verdicts[a] : w.at <= v.at

(* Unless two calls on it overlapped, what is stored of an artefact        *)
(* agrees: its newest verdict rates its stored context -- or, from an      *)
(* ingestion without one, the assumed context --, if a preset made it then *)
(* under settings still active or followed by a later preset, and every    *)
(* known field has its provenance (tables.py:385).  It takes as they are   *)
(* the default settings a PATCH and an ingestion rate under                *)
(* (routes.py:1114, scan_orchestrator.py:493), and says nothing of an      *)
(* artefact whose calls overlapped.                                        *)
QuietRecordsAgree ==
  \A a \in present :
    (\A q, r \in Calls : Touches(q, a) /\ Touches(r, a) => ~Overlap(q, r)) =>
      /\ verdicts[a] # {} /\ (\A r \in Calls : Touches(r, a) => ~InFlight(r)) =>
           /\ Newest(a).rates = IF Newest(a).by = "ingest" /\ ~context[a].row THEN Assumed
                                ELSE context[a].value
           /\ Newest(a).by = "preset" => Newest(a).settings \in active
                \/ \E r \in Calls : call[r].kind = "preset" /\ call[r].began > Newest(a).at
      /\ \A f \in Fields : context[a].value[f] # 0 => f \in context[a].sourced

(* "Immutable configuration versions; exactly one active" (tables.py:564): *)
(* so it is from the first preset on, over all projects, unless presets    *)
(* overlap; the last to commit is active in any case, and a version that   *)
(* was committed has rescored every artefact that its project had.         *)
Presets == {r \in Calls : call[r].kind = "preset" /\ call[r].pc = "done"}
OnePresetInForce ==
  /\ \A r \in Presets : (\A q \in Presets : call[q].done <= call[r].done) => r \in active
  /\ \A r, q \in active : r # q => Overlap(q, r)
  /\ \A r \in Presets : \A a \in DOMAIN call[r].read : \E v \in verdicts[a] : v.settings = r

(* A call never changes a context field that its PATCH did not name,       *)
(* although it works on a copy of the row it read earlier                  *)
(* (routes.py:1073-1107).                                                  *)
NamedFieldsOnly ==
  [][\A a \in Artefacts, f \in Fields : context'[a].value[f] # context[a].value[f] =>
       \E r \in Calls : InFlight(r) /\ call[r].of = {a} /\ f \in call[r].named]_recordVars
=============================================================================
