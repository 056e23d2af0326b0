------------------------------- MODULE Engines -------------------------------
(***************************************************************************)
(* The engines together.  A behaviour asks one question of one of the pure *)
(* engines, or lets one of the three stateful ones (ingest, migration      *)
(* waves, inherited criticality) run while the others stand at their       *)
(* start.  What may be asked are the CONSTANTS: any values of the schemas. *)
(***************************************************************************)
EXTENDS RowMapping, CommandLine, ObservedComparison, Exports, MigrationWaves, ContextInheritance

CONSTANTS
  Artefacts, Contexts, Horizons, Lifetimes,  \* of the risk engines
  Profiles, Requirements,                    \* of the recommendation engine
  Builds,                                    \* [found, contexts, profile] of the gate
  Sightings,                                 \* sequences of protocol findings
  Inventories, Snapshots                     \* to be exported, to be compared

ASSUME RiskInputs ==
  /\ Artefacts \subseteq ArtefactRecords /\ Contexts \subseteq ContextRecords
  /\ Horizons \subseteq Nat \cup {Absent} /\ Lifetimes \subseteq Nat

RequirementRecords == [category : {1, 3, 5, Absent}, hybrid : BOOLEAN, stateless : {"yes", "no"}]
ASSUME AdviceInputs == Profiles \subseteq ProfileRecords /\ Requirements \subseteq RequirementRecords

(* The command loads its profile before it runs an engine.  *)
ASSUME GateInputs == \A b \in Builds :
  /\ b.found \in Seq(ArtefactRecords)
  /\ DOMAIN b.contexts \subseteq DOMAIN b.found
  /\ \A i \in DOMAIN b.contexts : b.contexts[i] \in ContextRecords
  /\ b.profile \in ProfileRecords /\ EvidenceProfileAccepted(b.profile)

SightingRecords ==
  [type : STRING, detail : BOOLEAN, protocol : STRING, version : STRING, observed : BOOLEAN]
ASSUME ComparisonInputs == Sightings \subseteq Seq(SightingRecords)

(* A recommendation names an algorithm and belongs to an assessment that   *)
(* was actionable, which is the only kind the orchestrator asks about.     *)
FindingRecords ==
  [id : Nat, type : STRING, name : STRING, algorithm : STRING, primitive : STRING,
   vulnerability : STRING, path : STRING]
AssessmentRecords ==
  [artefact : Nat, verdict : [score : Nat \cup {Absent}, priority : {"p0", "p1", "p2", "none"},
                              status : STRING, urgent : BOOLEAN, id : STRING \ {""}]]
AdviceRecords ==
  [assessment : STRING, advice : [algorithm : STRING, set : STRING, hybrid : BOOLEAN]]
InventoryRecords ==
  {inv \in [findings : Seq(FindingRecords), assessments : Seq(AssessmentRecords),
            recommendations : Seq(AdviceRecords)] :
     \A r \in DOMAIN inv.recommendations : \A i \in DOMAIN inv.assessments :
       inv.assessments[i].verdict.id = inv.recommendations[r].assessment
         => inv.assessments[i].verdict.priority \in {"p0", "p1"}}
ASSUME ReportInputs == Inventories \subseteq InventoryRecords /\ Snapshots \subseteq InventoryRecords

VARIABLES question, answer
engineVars == <<question, answer, ingestVars, planVars, inheritVars>>

Open == << >>
Scenarios == DOMAIN ScenarioScale
Scored(p) == [status |-> "scored", priority |-> p]

RiskQuestions == [kind : {"risk"}, artefact : Artefacts, context : Contexts, horizon : Horizons]
AdviceQuestions ==
  [kind : {"advice"}, artefact : Artefacts, verdict : {Scored(p) : p \in {"p0", "p2"}},
   requirements : Requirements, profile : Profiles]
GateQuestions == [kind : {"gate"}, build : Builds]
ComparisonQuestions == [kind : {"comparison"}, findings : Sightings]
ExportQuestions == [kind : {"export"}, inventory : Inventories]
DiffQuestions == [kind : {"diff"}, old : Snapshots, new : Snapshots]
Pure ==
  \/ question \in RiskQuestions \/ question \in AdviceQuestions \/ question \in GateQuestions
  \/ question \in ComparisonQuestions \/ question \in ExportQuestions \/ question \in DiffQuestions

IngestParked == document = (CHOOSE d \in Documents : TRUE) /\ IngestInit
PlanParked == edges = {} /\ PlanInit
InheritParked == graph = {} /\ own = [n \in Nodes |-> 0] /\ InheritInit

EnginesInit ==
  /\ answer = Open
  /\ \/ Pure /\ IngestParked /\ PlanParked /\ InheritParked
     \/ question = [kind |-> "ingest"] /\ IngestInit /\ PlanParked /\ InheritParked
     \/ question = [kind |-> "waves"] /\ PlanInit /\ IngestParked /\ InheritParked
     \/ question = [kind |-> "inherit"] /\ InheritInit /\ IngestParked /\ PlanParked

Asked(kind) == question.kind = kind /\ answer = Open /\ UNCHANGED <<question, ingestVars, planVars, inheritVars>>

Assess == Asked("risk") /\ answer' =
            <<[s \in Scenarios |-> Classify(question.artefact, question.context, question.horizon, s)]>>
Advise == Asked("advice") /\ answer' =
            <<Recommend(question.artefact, question.verdict, question.requirements, question.profile)>>
Gate == Asked("gate") /\ answer' =
          <<[t \in Thresholds \cup {"off"} |->
               ExitCode(RunEngines(question.build.found, question.build.contexts, DefaultHorizon,
                                   question.build.profile), t)]>>
Compare == Asked("comparison") /\ answer' = <<CompareObservedDeclared(question.findings)>>
Export == Asked("export") /\ answer' = <<CsvRows(question.inventory)>>
Diff == Asked("diff") /\ answer' = <<ComputeDiff(question.old, question.new)>>

Asking == UNCHANGED <<question, answer>>
Ingest == question.kind = "ingest" /\ IngestNext /\ Asking /\ UNCHANGED <<planVars, inheritVars>>
Plan == question.kind = "waves" /\ PlanNext /\ Asking /\ UNCHANGED <<ingestVars, inheritVars>>
Inherit == question.kind = "inherit" /\ InheritNext /\ Asking /\ UNCHANGED <<ingestVars, planVars>>

EnginesNext == Assess \/ Advise \/ Gate \/ Compare \/ Export \/ Diff \/ Ingest \/ Plan \/ Inherit

(* Each engine is one thread of one interpreter, which goes on. *)
EnginesSpec == EnginesInit /\ [][EnginesNext]_engineVars /\ WF_engineVars(Plan) /\ WF_engineVars(Inherit)

-----------------------------------------------------------------------------
Answered(kind) == question.kind = kind /\ answer # Open

(* Each property puts the statement of an engine's module, where it is     *)
(* spelled out with its source, to the question or machine at hand.        *)

(* No stored label makes classify_risk raise. *)
EveryArtefactIsClassified ==
  Answered("risk") => \A s \in Scenarios :
    EveryArtefactClassifies(question.artefact, question.context, question.horizon, s)
(* A more capable adversary never lowers a score. *)
CapabilityNeverHelps ==
  Answered("risk") => MoreCapabilityNeverLowersScore(question.artefact, question.context, question.horizon)
(* Data that must stay secret longer never lowers a score. *)
LifetimeNeverHelps ==
  Answered("risk") => \A years \in Lifetimes :
    LongerLifetimeNeverLowersScore(question.artefact, question.context, question.horizon, "baseline", years)
(* Mosca timing, harvest-now-decrypt-later and confidence fit together. *)
TracksNeverContradict ==
  Answered("risk") => \A s \in Scenarios :
    TracksAgree(Classify(question.artefact, question.context, question.horizon, s))
(* A verdict read back from its row, or made anew from the rows, is the    *)
(* verdict that was made.                                                  *)
VerdictsSurviveStorage ==
  Answered("risk") => \A s \in Scenarios :
    /\ StoredVerdictIsRebuilt(Classify(question.artefact, question.context, question.horizon, s))
    /\ RescoreFromRowsAgrees(question.artefact, question.context, question.horizon, s)
(* What the profile loader lets through cannot break the recommendation. *)
AcceptedProfilesNeverRaise ==
  Answered("advice") => AcceptedProfileNeverRaises(question.artefact, question.verdict,
                                                   question.requirements, question.profile)
(* A weaker gate or more context never turns a failed build into a passed  *)
(* one.                                                                    *)
GateNeverRelaxes ==
  Answered("gate") => GateIsMonotone(question.build.found, question.build.contexts, DefaultHorizon,
                                     question.build.profile)
(* Every protocol finding is counted once, under its own key. *)
ObservationsAccounted == Answered("comparison") => ObservationsAreAccountedFor(question.findings)
(* All report formats tell one story about a finding. *)
ExportsAgree == Answered("export") => FormatsAgree(question.inventory)
(* The posture of a diff adds up, both ways. *)
DiffsReconcile == Answered("diff") => DiffReconciles(question.old, question.new)
(* The stateful engines keep their types. *)
EnginesTypeOK == IngestTypeOK /\ PlanTypeOK /\ InheritTypeOK
(* The planner ends, whatever the graph. *)
WavesEnd == question.kind = "waves" ~> planner \in {"planned", "raised"}
(* Criticality stops travelling, also round cycles. *)
CriticalitySettles == question.kind = "inherit" ~> Propagated
=============================================================================
