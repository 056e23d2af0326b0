------------------------------- MODULE Exports -------------------------------
(***************************************************************************)
(* What leaves the platform: one inventory with its assessments and        *)
(* recommendations, written in each of the report formats, and the         *)
(* difference of two inventories.                                          *)
(*                                                                         *)
(* An inventory is [findings, assessments, recommendations], sequences in  *)
(* the order the database returned them; a finding may have several        *)
(* assessments and an assessment at most one recommendation.               *)
(***************************************************************************)
EXTENDS CbomIngest, SequencesExt

NotGiven == [score |-> Absent, priority |-> "", status |-> "", urgent |-> "", id |-> ""]
NoAdvice == [algorithm |-> "", set |-> "", hybrid |-> ""]

(* ScanResult.deduplicated: one entry per identity, the first seen, which  *)
(* keeps its place in the order.  The evidence of later ones is added      *)
(* behind its own; a finding here has the path of its first evidence only. *)
FirstSeen(inv) ==
  {i \in DOMAIN inv.findings : \A j \in 1..(i - 1) : inv.findings[j].id # inv.findings[i].id}
Deduplicated(inv) == [i \in FirstSeen(inv) |-> inv.findings[i]]

(* Each exporter's two dictionaries: a later assessment of the same        *)
(* artefact replaces an earlier one, and a recommendation is only ever     *)
(* looked up by the assessment that won.                                   *)
AssessmentOf(inv, f) ==
  LET i == SelectLastInSeq(inv.assessments, LAMBDA a : a.artefact = f.id)
  IN IF i = 0 THEN NotGiven ELSE inv.assessments[i].verdict
(* Mutant: the recommendation of any assessment of the finding. *)
AdviceOfAny(inv, f) ==
  LET ids == {inv.assessments[k].verdict.id : k \in {k \in DOMAIN inv.assessments :
                                                       inv.assessments[k].artefact = f.id}}
      i == SelectLastInSeq(inv.recommendations, LAMBDA r : r.assessment \in ids)
  IN IF i = 0 THEN NoAdvice ELSE inv.recommendations[i].advice

AdviceOf(inv, f) ==
  LET id == AssessmentOf(inv, f).id
      i  == SelectLastInSeq(inv.recommendations, LAMBDA r : r.assessment = id)
  IN IF id = "" \/ i = 0 THEN NoAdvice ELSE inv.recommendations[i].advice

-----------------------------------------------------------------------------
(* The formats.  Each entry is what the format says of one finding. *)

FlattenArtefact(inv, f) ==
  [id |-> f.id, type |-> f.type, algorithm |-> f.algorithm, vulnerability |-> f.vulnerability,
   path |-> f.path, score |-> AssessmentOf(inv, f).score, priority |-> AssessmentOf(inv, f).priority,
   status |-> AssessmentOf(inv, f).status, urgent |-> AssessmentOf(inv, f).urgent,
   recommended |-> AdviceOf(inv, f).algorithm, set |-> AdviceOf(inv, f).set]
CsvRows(inv) == [i \in DOMAIN Deduplicated(inv) |-> FlattenArtefact(inv, Deduplicated(inv)[i])]

(* The workbook's summary sheet counts its rows twice over. *)
CountBy(rows, field) ==
  [v \in {rows[i][field] : i \in DOMAIN rows} |-> Cardinality({i \in DOMAIN rows : rows[i][field] = v})]
ExcelSummary(inv) == [total |-> Cardinality(DOMAIN CsvRows(inv)), byType |-> CountBy(CsvRows(inv), "type"),
                      byPriority |-> CountBy(CsvRows(inv), "priority")]

LevelOf(priority) == CASE priority = "p0" -> "error" [] priority = "p1" -> "warning" [] OTHER -> "note"
SarifRule(f) == <<f.type, f.vulnerability>>
SarifResult(inv, f) ==
  [rule |-> SarifRule(f), level |-> LevelOf(AssessmentOf(inv, f).priority),
   score |-> AssessmentOf(inv, f).score, fix |-> AdviceOf(inv, f).algorithm, fingerprint |-> f.id]
SarifRun(inv) ==
  [results |-> [i \in DOMAIN Deduplicated(inv) |-> SarifResult(inv, Deduplicated(inv)[i])],
   rules |-> {SarifRule(Deduplicated(inv)[i]) : i \in DOMAIN Deduplicated(inv)}]

(* SPDX states a priority only next to a score.  (A snippet is named by    *)
(* the first sixteen digits of the id; the name is left out.)              *)
SpdxSnippet(inv, f) ==
  [type |-> f.type, vulnerability |-> f.vulnerability,
   score |-> AssessmentOf(inv, f).score,
   priority |-> IF AssessmentOf(inv, f).score = Absent THEN "" ELSE AssessmentOf(inv, f).priority,
   recommended |-> AdviceOf(inv, f).algorithm]

NativeEntry(inv, f) ==
  [id |-> f.id, assessment |-> AssessmentOf(inv, f), recommendation |-> AdviceOf(inv, f)]
NativeSummary(inv) ==
  [total |-> Cardinality(FirstSeen(inv)), assessed |-> Len(inv.assessments),
   vulnerable |-> Cardinality({i \in DOMAIN Deduplicated(inv) :
      Deduplicated(inv)[i].vulnerability \in {"shor_broken", "grover_weakened"}})]

CycloneDxProperties(inv, f) ==
  [hint |-> IF NeedsHint(f.type) THEN f.type ELSE "none", algorithm |-> f.algorithm,
   vulnerability |-> f.vulnerability, score |-> AssessmentOf(inv, f).score,
   priority |-> AssessmentOf(inv, f).priority, urgent |-> AssessmentOf(inv, f).urgent,
   recommended |-> AdviceOf(inv, f).algorithm]

-----------------------------------------------------------------------------
(* The CycloneDX component of an ingested artefact, in the terms in which  *)
(* CbomIngest reads one.  What the exporter does not write is absent, and  *)
(* so is what ingest looks for under another key: the two dates of a       *)
(* certificate.                                                            *)

(* A parameter set is written first and keeps a key size from being        *)
(* written: nothing else on the wire carries the number.                   *)
ExportedParameterSet(d) ==
  IF d.type # "algorithm" THEN Absent ELSE FirstKnown(d.set, d.size)
(* Mutant: the shared wire spelling goes out alone. *)
NoHint(t) == "none"

ExportedHint(t) == IF NeedsHint(t) THEN t ELSE "none"
ExportedOccurrences(a) ==
  [i \in DOMAIN a.evidence |-> [path |-> a.evidence[i].path, line |-> a.evidence[i].line]]
ExportComponent(a) ==
  [kind |-> "cryptographic-asset", name |-> a.name, quoted |-> TRUE, wire |-> WireType(a.type),
   hint |-> ExportedHint(a.type), algorithm |-> a.algorithm,
   primitive |-> a.primitive, keySize |-> Absent, parameterSet |-> ExportedParameterSet(a.detail),
   mode |-> IF a.detail.type = "algorithm" THEN a.detail.mode ELSE "none",
   validity |-> "none", observed |-> "none", management |-> "none",
   method |-> "none", confidence |-> "none", places |-> ExportedOccurrences(a)]

(* What of a finding is read back from its own export (cyclonedx.py:181-   *)
(* 283 against cbom_ingest.py:214-300): the type that shares a wire        *)
(* spelling, the algorithm, the primitive and every place.  Of the two     *)
(* numbers of an algorithm one survives: the key size if no parameter set  *)
(* was kept beside it, else the parameter set, which is read as the key    *)
(* size when it is a number.  (The validity of a certificate, the size of  *)
(* a key, the settings of a cloud service and whether a protocol was       *)
(* observed do not survive.)                                               *)
ReexportKeepsTheFinding ==
  \A id \in DOMAIN artefacts :
    LET a == artefacts[id]
        b == Artefact(ExportComponent(a), 1)
    IN /\ ArtefactAccepted(b)
       /\ <<b.type, b.name, b.algorithm, b.primitive>> = <<a.type, a.name, a.algorithm, a.primitive>>
       /\ ExportedOccurrences(b) = ExportedOccurrences(a)
       /\ a.detail.type = "algorithm" =>
            /\ b.detail.type = "algorithm" /\ b.detail.mode = a.detail.mode
            /\ FirstKnown(b.detail.set, b.detail.size) = FirstKnown(a.detail.set, a.detail.size)
            /\ a.detail.set = Absent => b.detail.size = a.detail.size

-----------------------------------------------------------------------------
(* The difference of two inventories, by identity. *)

FindingAt(inv, id) == Deduplicated(inv)[CHOOSE i \in FirstSeen(inv) : inv.findings[i].id = id]
IdsOf(inv) == {inv.findings[i].id : i \in DOMAIN inv.findings}
Vulnerable(inv) == {id \in IdsOf(inv) :
                      FindingAt(inv, id).vulnerability \in {"shor_broken", "grover_weakened"}}

(* Mutant: a finding is compared by its names. *)
ComparedByName(f) == <<f.name, f.algorithm>>

Compared(f) == <<f.name, f.algorithm, f.vulnerability, f.primitive>>
Differs(old, new, id) ==
  LET f == FindingAt(old, id)  g == FindingAt(new, id)
      v == AssessmentOf(old, f)  w == AssessmentOf(new, g)
  IN \/ Compared(f) # Compared(g)
     \/ IF v # NotGiven /\ w # NotGiven
        THEN <<v.score, v.priority, v.urgent>> # <<w.score, w.priority, w.urgent>>
        ELSE v.score # w.score

ComputeDiff(old, new) ==
  LET common == IdsOf(old) \cap IdsOf(new)
      changed == {id \in common : Differs(old, new, id)}
  IN [added |-> IdsOf(new) \ IdsOf(old), removed |-> IdsOf(old) \ IdsOf(new), changed |-> changed,
      unchanged |-> Cardinality(common \ changed),
      before |-> Cardinality(IdsOf(old)), after |-> Cardinality(IdsOf(new)),
      vulnerableBefore |-> Cardinality(Vulnerable(old)), vulnerableAfter |-> Cardinality(Vulnerable(new))]

(* Every format tells the same story of a finding: the same verdict, and   *)
(* the recommendation of that verdict rather than of an older assessment;  *)
(* the totals are the number of identities, and what one format counts the *)
(* other lists: a workbook's P0 row is the number of SARIF errors.         *)
FormatsAgree(inv) ==
  LET rows == CsvRows(inv)  fs == Deduplicated(inv)  sums == ExcelSummary(inv)
      results == SarifRun(inv).results
      counted(priority) == IF priority \in DOMAIN sums.byPriority THEN sums.byPriority[priority] ELSE 0
      level(name) == Cardinality({i \in DOMAIN results : results[i].level = name})
  IN /\ \A i \in DOMAIN fs :
          LET r == rows[i]  c == CycloneDxProperties(inv, fs[i])  n == NativeEntry(inv, fs[i])
              s == results[i]  x == SpdxSnippet(inv, fs[i])
          IN /\ r.score = c.score /\ r.score = s.score /\ r.score = x.score /\ r.score = n.assessment.score
             /\ r.priority = c.priority /\ r.priority = n.assessment.priority
             /\ x.priority \in {"", r.priority} /\ s.level = LevelOf(r.priority)
             /\ r.recommended = c.recommended /\ r.recommended = s.fix
             /\ r.recommended = x.recommended /\ r.recommended = n.recommendation.algorithm
             /\ r.recommended # "" => r.priority \in {"p0", "p1"}
             /\ s.rule \in SarifRun(inv).rules
     /\ counted("p0") = level("error") /\ counted("p1") = level("warning")
     /\ sums.total = NativeSummary(inv).total /\ sums.total = Cardinality(IdsOf(inv))

(* The posture of a diff adds up, read in either direction, and a finding  *)
(* whose vulnerability moved is never counted as unchanged.                *)
Reconciles(old, new, d, r) ==
  /\ d.after = d.before + Cardinality(d.added) - Cardinality(d.removed)
  /\ d.before = Cardinality(d.removed) + Cardinality(d.changed) + d.unchanged
  /\ d.added = r.removed /\ d.removed = r.added /\ d.changed = r.changed
  /\ \A id \in IdsOf(old) \cap IdsOf(new) :
       (id \in Vulnerable(old)) # (id \in Vulnerable(new)) => id \in d.changed
DiffReconciles(old, new) == Reconciles(old, new, ComputeDiff(old, new), ComputeDiff(new, old))
=============================================================================
