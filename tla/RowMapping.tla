------------------------------ MODULE RowMapping ------------------------------
(***************************************************************************)
(* How verdicts, contexts, artefacts and recommendations become database   *)
(* rows and are rebuilt from them, which is what every rescore, what-if    *)
(* and export works from.  A JSON column holds Null for an empty value     *)
(* because the code writes `x or None'.                                    *)
(***************************************************************************)
EXTENDS Recommendations

Null == << >>                  \* a column that holds v is <<v>>
OrNull(v, empty) == IF v = empty THEN Null ELSE <<v>>
OrEmpty(column, empty) == IF column = Null THEN empty ELSE column[1]

ArtefactToRow(a) ==
  [type |-> a.type, name |-> a.name, primitive |-> a.primitive, purpose |-> OrNull(a.purposes, {}),
   quantum_vulnerability |-> a.vulnerability, key_size_bits |-> a.size,
   detail_json |-> [size |-> a.size, supportsPqc |-> a.supportsPqc, providerManaged |-> a.providerManaged]]
ArtefactFromRow(row) ==   \* the detail, never the flattened key_size_bits
  [type |-> row.type, name |-> row.name, primitive |-> row.primitive,
   purposes |-> OrEmpty(row.purpose, {}), vulnerability |-> row.quantum_vulnerability,
   size |-> row.detail_json.size, supportsPqc |-> row.detail_json.supportsPqc,
   providerManaged |-> row.detail_json.providerManaged]

(* Mutant: the evidence column is not written. *)
ContextToRowUnsourced(c) ==
  [columns |-> [f \in DOMAIN c \ {"retention"} |-> c[f]], retention_evidence_json |-> Null]

ContextToRow(c) ==
  [columns |-> [f \in DOMAIN c \ {"retention"} |-> c[f]],
   retention_evidence_json |-> OrNull(c.retention, {})]
ContextFromRow(row) ==
  [f \in DOMAIN row.columns \cup {"retention"} |->
     IF f = "retention" THEN OrEmpty(row.retention_evidence_json, {}) ELSE row.columns[f]]

(* The confidence of Track A has no column of its own. *)
AssessmentToRow(v) ==
  [status |-> v.status, final_score |-> v.score, final_confidence |-> v.confidence,
   priority |-> v.priority,
   mosca |-> [f \in {"x", "y", "z", "basis", "urgent", "shortfall"} |-> v.mosca[f]],
   resource_m_years |-> v.resource.m, quantum_projection_status |-> v.resource.status,
   attack_threshold_json |-> OrNull([confidence |-> v.resource.confidence], [confidence |-> "none"]),
   score_contributions_json |-> OrNull(v.points, << >>), missing_fields_json |-> OrNull(v.missing, {})]
AssessmentFromRow(row) ==
  [status |-> row.status, score |-> row.final_score, confidence |-> row.final_confidence,
   priority |-> row.priority,
   mosca |-> [f \in DOMAIN row.mosca \cup {"resolved", "confidence"} |->
     CASE f = "resolved" -> Known(row.mosca.x) /\ Known(row.mosca.y) /\ Known(row.mosca.z)
       [] f = "confidence" -> row.final_confidence
       [] OTHER -> row.mosca[f]],
   resource |-> ResourceTrack(row.quantum_projection_status, row.resource_m_years,
     OrEmpty(row.attack_threshold_json, [confidence |-> "none"]).confidence),
   points |-> OrEmpty(row.score_contributions_json, << >>),
   missing |-> OrEmpty(row.missing_fields_json, {})]

RecommendationToRow(r) ==
  [recommended |-> [f \in DOMAIN r \ {"facts"} |-> r[f]],
   fit_breakdown_json |-> [fit_score |-> Null, published_facts |-> r.facts]]
RecommendationFromRow(row) ==
  [f \in DOMAIN row.recommended \cup {"facts"} |->
     IF f = "facts" THEN row.fit_breakdown_json.published_facts ELSE row.recommended[f]]

(* "object -> row -> object" (mapping.py:4-6): a rebuilt verdict passes    *)
(* its validators again and says what the stored one said; only Track A's  *)
(* confidence changes, to the final one, and that is never a stronger one. *)
StoredVerdictIsRebuilt(v) ==
  LET w == AssessmentFromRow(AssessmentToRow(v))
  IN /\ AssessmentAccepted(w)
     /\ <<w.status, w.score, w.priority, w.confidence, w.points, w.missing, w.resource>>
          = <<v.status, v.score, v.priority, v.confidence, v.points, v.missing, v.resource>>
     /\ \A f \in {"x", "y", "z", "basis", "urgent", "shortfall", "resolved"} : w.mosca[f] = v.mosca[f]
     /\ w.mosca.confidence = "none"
        \/ ConfidenceRank[w.mosca.confidence] >= ConfidenceRank[v.mosca.confidence]

(* A rescore works from the rows: with the label ingest stored in place of *)
(* the scanner's, it reaches the verdict the first assessment reached.     *)
RescoreFromRowsAgrees(a, c, horizon, scenario) ==
  LET labelled == [a EXCEPT !.vulnerability = StoredLabel(a)]
  IN Classify(ArtefactFromRow(ArtefactToRow(labelled)), ContextFromRow(ContextToRow(c)), horizon, scenario)
       = Classify(labelled, c, horizon, scenario)
     /\ Classify(labelled, c, horizon, scenario).score = Classify(a, c, horizon, scenario).score
=============================================================================
