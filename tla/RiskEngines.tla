------------------------------ MODULE RiskEngines ------------------------------
(***************************************************************************)
(* The two-track risk verdict: Track A (Mosca timing), Track B (quantum    *)
(* resources), the seven score factors, and the rules a RiskAssessment     *)
(* must satisfy to be constructed at all.  The engines are pure, so the    *)
(* module is operators only.                                               *)
(*                                                                         *)
(* Points are counted in halves (the only fraction the weights produce is  *)
(* half of 25), gates in millions, years as whole numbers.                 *)
(***************************************************************************)
EXTENDS Absence, Integers, FiniteSetsExt, SequencesExt

-----------------------------------------------------------------------------
(* Confidence: three levels, combined by the weaker and lowered by a step. *)

ConfidenceRank == [high |-> 0, medium |-> 1, low |-> 2]
Weaker(values) ==
  CHOOSE c \in values : \A d \in values : ConfidenceRank[d] <= ConfidenceRank[c]
Downgrade(c) == IF c = "high" THEN "medium" ELSE "low"

-----------------------------------------------------------------------------
(* What the engines are given.  Ingestion leaves the vulnerability unknown *)
(* or labels it (StoredLabel), so that "not applicable" is a library's.    *)

Names == [compact : STRING, prefix : STRING, digits : Nat \cup {Absent},
          policy : {"broken", "resistant", "neither"}]
Vulnerabilities == {"unknown", "shor_broken", "grover_weakened", "quantum_safe",
                    "classically_broken", "not_applicable"}
ArtefactRecords ==
  {a \in [type : STRING, name : Names, size : Nat \cup {Absent}, primitive : STRING,
           vulnerability : Vulnerabilities, purposes : SUBSET STRING,
           supportsPqc : {"yes", "no", "unknown"}, providerManaged : BOOLEAN] :
     a.vulnerability = "not_applicable" => a.type = "library"}

Tiers == {"user", "scanner_evidence", "org_preset", "unknown"}
EvidenceRecords == [source : {"user", "scanner", "org_policy", "legal_profile"}, lifetime : Nat]
ContextRecords ==
  {c \in [classification : {"restricted", "confidential", "internal", "public", "unknown"},
           category : STRING \cup {"none"}, categoryTier : Tiers,
           lifetime : Nat \cup {Absent}, lifetimeTier : Tiers,
           retention : SUBSET EvidenceRecords, migration : Nat \cup {Absent}, migrationTier : Tiers,
           criticality : {"critical", "high", "medium", "low", "unknown"},
           exposure : {"internet", "partner", "internal", "isolated", "unknown"}] :
     IsFiniteSet(c.retention)}

-----------------------------------------------------------------------------
(* What the scanner's name for an algorithm resolves to.  A name is its    *)
(* compact spelling, the family prefix it starts with, the first run of    *)
(* three to five digits in it, and the entry of the current-security       *)
(* policy it equals.                                                       *)

Normalise(n) ==
  CASE n.prefix = "rsa" -> "rsa"
    [] n.compact \in {"x25519", "curve25519"} -> "x25519"
    [] n.compact = "ed25519" -> "ed25519"
    [] n.prefix \in {"ecdh", "ecdsa"} -> n.prefix
    [] n.prefix = "ec" -> "ecc"
    [] OTHER -> n.compact

KeySizeBits(a) ==
  CASE Known(a.size) -> a.size
    [] ~Known(a.size) /\ Known(a.name.digits) -> a.name.digits
    [] ~Known(a.size) /\ ~Known(a.name.digits)
       /\ Normalise(a.name) \in {"x25519", "ed25519"} -> 255
    [] OTHER -> Absent

PublicKeyPrimitives == {"pke", "signature", "key_agreement", "kem"}
SymmetricPrimitives == {"block_cipher", "stream_cipher", "hash", "mac", "aead"}

EffectiveVulnerability(a) ==
  CASE a.vulnerability # "unknown" -> a.vulnerability
    [] a.vulnerability = "unknown" /\ a.primitive \in PublicKeyPrimitives -> "shor_broken"
    [] a.vulnerability = "unknown" /\ a.primitive \in SymmetricPrimitives -> "grover_weakened"
    [] OTHER -> "unknown"

(* The label ingest stores: the policy first, then the derived class. *)
StoredLabel(a) ==
  CASE a.type = "library" -> "not_applicable"
    [] a.type # "library"
       /\ (a.vulnerability = "classically_broken" \/ a.name.policy = "broken") -> "classically_broken"
    [] a.type # "library" /\ a.vulnerability # "classically_broken" /\ a.name.policy # "broken"
       /\ (a.vulnerability = "quantum_safe" \/ a.name.policy = "resistant") -> "quantum_safe"
    [] OTHER -> EffectiveVulnerability(a)

(* Mutant: the list alone decides, not what the scanner stated. *)
PolicyStatusByList(a) ==
  CASE a.type = "library" -> "dependency_only"
    [] a.type # "library" /\ a.name.policy = "broken" -> "policy_decided"
    [] a.type # "library" /\ a.name.policy = "resistant" -> "not_applicable"
    [] OTHER -> "undecided"

PolicyStatus(a) ==
  CASE a.type = "library" -> "dependency_only"
    [] a.type # "library"
       /\ (a.vulnerability = "classically_broken" \/ a.name.policy = "broken") -> "policy_decided"
    [] a.type # "library" /\ a.vulnerability # "classically_broken" /\ a.name.policy # "broken"
       /\ (a.vulnerability = "quantum_safe" \/ a.name.policy = "resistant") -> "not_applicable"
    [] OTHER -> "undecided"

-----------------------------------------------------------------------------
(* Track B.  Only complete capability points count; the scenario scales    *)
(* capability, never the requirement.  Scale is doubled: 1/2, 1, 2.        *)

ReferenceYear == 2026
ScenarioScale == [conservative |-> 1, baseline |-> 2, aggressive |-> 4]

Point(y, q, g, c) == [year |-> y, qubits |-> q, gates |-> g, confidence |-> c]
CapabilityCurve ==
  << Point(2026, 100, 1, "roadmap"),        Point(2027, 160, 2, "moderate"),
     Point(2028, 250, 6, "roadmap"),        Point(2029, 400, 15, "moderate"),
     Point(2030, 650, 40, "roadmap"),       Point(2031, 1000, 100, "moderate"),
     Point(2032, 1600, 300, "moderate"),    Point(2033, 2800, 800, "moderate"),
     Point(2034, 4500, Absent, "low"),      Point(2035, 6000, 2400, "low"),
     Point(2036, 7000, 3000, "low"),        Point(2037, 10000, 6000, "low"),
     Point(2038, 18000, 15000, "low"),      Point(2039, 30000, 40000, "low"),
     Point(2040, 50000, 120000, "low"),     Point(2041, 75000, 300000, "low"),
     Point(2042, 100000, 700000, "low"),    Point(2043, 150000, 1500000, "low"),
     Point(2044, 250000, 4000000, "low"),   Point(2045, 400000, 10000000, "low") >>

Model(alg, size, q, g) == [algorithm |-> alg, size |-> size, qubits |-> q, gates |-> g]
(* One requirement per family of the profile, and its two extremes. *)
AttackModels ==
  { Model("rsa", 1024, 3093, 327), Model("rsa", 2048, 6190, 2624),
    Model("rsa", 15360, 46508, 1112362), Model("ecc", 521, 4719, 1150212),
    Model("ecdh", 256, 2330, 128748), Model("ecc", 256, 2330, 128748),
    Model("ecdsa", 256, 2330, 128748), Model("x25519", 255, 2321, 127203) }

(* A family-specific model is preferred to the generic curve model. *)
ModelsFor(a) ==
  LET alg == Normalise(a.name)
      of(name) == {m \in AttackModels : m.algorithm = name /\ m.size = KeySizeBits(a)}
  IN IF of(alg) # {} \/ alg \notin {"ecdh", "ecdsa", "x25519", "ed25519"}
     THEN of(alg) ELSE of("ecc")

(* Mutant: the scenario scales the requirement. *)
CrossesScaledModel(point, model, scale) ==
  /\ Known(point.qubits) /\ Known(point.gates)
  /\ 2 * point.qubits >= scale * model.qubits /\ 2 * point.gates >= scale * model.gates

Crosses(point, model, scale) ==
  /\ Known(point.qubits) /\ Known(point.gates)
  /\ point.qubits * scale >= 2 * model.qubits
  /\ point.gates * scale >= 2 * model.gates

ResourceTrack(status, m, confidence) == [status |-> status, m |-> m, confidence |-> confidence]

(* The first complete point of the curve that crosses, 0: none. *)
Crossing(model, scale) == SelectInSeq(CapabilityCurve, LAMBDA p : Crosses(p, model, scale))
TrackCrossingAt(first) ==
  IF first = 0 THEN ResourceTrack("beyond_horizon", Absent, "low")
  ELSE ResourceTrack("calculated", CapabilityCurve[first].year - ReferenceYear,
         IF CapabilityCurve[first].confidence = "low" THEN "low" ELSE "medium")

EvaluateResources(a, scenario) ==
  IF a.vulnerability \in {"quantum_safe", "not_applicable"}
  THEN ResourceTrack("not_required", Absent, "none")
  ELSE IF ModelsFor(a) = {} THEN ResourceTrack("model_unavailable", Absent, "none")
  ELSE TrackCrossingAt(Crossing(CHOOSE m \in ModelsFor(a) : TRUE, ScenarioScale[scenario]))

-----------------------------------------------------------------------------
(* Track A.  X comes from the strongest source that says anything; among   *)
(* equals the longest lifetime governs.  Y is only ever supplied.          *)

SourceRank == [user |-> 0, scanner |-> 1, org_policy |-> 2, legal_profile |-> 3]
SourceConfidence == [user |-> "high", scanner |-> "medium", org_policy |-> "high",
                     legal_profile |-> "low"]
SourceForTier(tier) ==
  CASE tier = "user" -> "user" [] tier = "scanner_evidence" -> "scanner"
    [] tier = "org_preset" -> "org_policy" [] OTHER -> "legal_profile"

(* Two entries of the retention profile: what a category implies. *)
Categories == [biometric |-> [lifetime |-> 30, sensitivity |-> "restricted"],
               tax_record |-> [lifetime |-> 6, sensitivity |-> "confidential"]]

Evidence(source, lifetime) == [source |-> source, lifetime |-> lifetime]

DirectEvidence(c) ==
  IF Known(c.lifetime) /\ c.lifetimeTier \in {"user", "org_preset"}
  THEN {Evidence(SourceForTier(c.lifetimeTier), c.lifetime)} ELSE {}

CategoryEvidence(c) ==
  IF c.category \in DOMAIN Categories
  THEN {Evidence(SourceForTier(c.categoryTier), Categories[c.category].lifetime)} ELSE {}

RawEvidence(c) == c.retention \cup DirectEvidence(c) \cup CategoryEvidence(c)
Strongest(raw) == {e \in raw : \A f \in raw : SourceRank[e.source] <= SourceRank[f.source]}
ResolveX(c) ==
  LET strongest == Strongest(RawEvidence(c))
  IN IF strongest = {} THEN [years |-> Absent, confidence |-> "none"]
     ELSE [years |-> Max({e.lifetime : e \in strongest}),
           confidence |-> SourceConfidence[(CHOOSE e \in strongest : TRUE).source]]

ResolveZ(horizon, resource) ==
  IF Known(horizon) THEN [years |-> horizon, basis |-> "org_horizon", conf |-> "high"]
  ELSE IF resource.status = "calculated"
  THEN [years |-> resource.m, basis |-> "resource_model", conf |-> resource.confidence]
  ELSE [years |-> Absent, basis |-> "unavailable", conf |-> "none"]
MoscaTrack(c, x, z) ==
  LET yConfidence == IF c.migrationTier \in {"user", "org_preset"} THEN "high" ELSE "low"
      resolved == Known(x.years) /\ Known(c.migration) /\ Known(z.years)
  IN [x |-> x.years, y |-> c.migration, z |-> z.years, basis |-> z.basis,
      resolved   |-> resolved,
      shortfall  |-> IF resolved THEN x.years + c.migration - z.years ELSE 0,
      urgent     |-> resolved /\ x.years + c.migration - z.years > 0,
      confidence |-> IF resolved THEN Weaker({x.confidence, yConfidence, z.conf}) ELSE "none"]
EvaluateMosca(c, horizon, resource) == MoscaTrack(c, ResolveX(c), ResolveZ(horizon, resource))

-----------------------------------------------------------------------------
(* The seven contributions, in half points. *)

FactorWeights == [algorithm |-> 25, mosca |-> 20, resource |-> 15, data |-> 12,
                  criticality |-> 10, exposure |-> 10, migration |-> 8]

Measured(points) == [halves |-> points, evidence |-> TRUE]
Unmeasured == [halves |-> 0, evidence |-> FALSE]

AlgorithmPoints(a) ==
  CASE EffectiveVulnerability(a) = "shor_broken" -> Measured(2 * FactorWeights.algorithm)
    [] EffectiveVulnerability(a) = "grover_weakened" -> Measured(FactorWeights.algorithm)
    [] OTHER -> Unmeasured

PointsPerShortfallYear == 4
(* Mutant: no cap at the weight. *)
MoscaPointsUncapped(mosca) ==
  IF ~mosca.resolved THEN Unmeasured
  ELSE Measured(2 * PointsPerShortfallYear * Max({0, mosca.shortfall}))

MoscaPoints(mosca) ==
  IF ~mosca.resolved THEN Unmeasured
  ELSE Measured(Min({2 * FactorWeights.mosca,
                     2 * PointsPerShortfallYear * Max({0, mosca.shortfall})}))

ResourcePoints(resource) ==
  CASE resource.status = "beyond_horizon" -> Measured(0)
    [] resource.status = "calculated" ->
         Measured(2 * (CASE resource.m <= 5 -> 15 [] resource.m \in 6..10 -> 8
                         [] resource.m \in 11..15 -> 4 [] OTHER -> 1))
    [] OTHER -> Unmeasured

(* A category stands in for a classification nobody gave. *)
Sensitivity(c) ==
  IF c.classification = "unknown" /\ c.category \in DOMAIN Categories
  THEN Categories[c.category].sensitivity ELSE c.classification
DataPoints(c) ==
  LET table == [restricted |-> 12, confidential |-> 8, internal |-> 4, public |-> 0]
  IN IF Sensitivity(c) = "unknown" THEN Unmeasured ELSE Measured(2 * table[Sensitivity(c)])

ContextEnumPoints(value, table) ==
  IF value = "unknown" THEN Unmeasured ELSE Measured(2 * table[value])
CriticalityPoints == [critical |-> 10, high |-> 7, medium |-> 4, low |-> 1]
ExposureLevelPoints == [internet |-> 7, partner |-> 5, internal |-> 2, isolated |-> 0]

MigrationPoints(a) ==
  CASE a.type = "hardware_module" /\ a.supportsPqc = "no"  -> Measured(2 * 8)
    [] a.type = "hardware_module" /\ a.supportsPqc = "yes" -> Measured(2 * 2)
    [] a.type # "hardware_module" /\ a.providerManaged     -> Measured(2 * 6)
    [] a.type = "algorithm" /\ ~a.providerManaged          -> Measured(2 * 4)
    [] OTHER -> Unmeasured

Contributions(a, c, mosca, resource) ==
  [algorithm |-> AlgorithmPoints(a), mosca |-> MoscaPoints(mosca),
   resource |-> ResourcePoints(resource), data |-> DataPoints(c),
   criticality |-> ContextEnumPoints(c.criticality, CriticalityPoints),
   exposure |-> ContextEnumPoints(c.exposure, ExposureLevelPoints),
   migration |-> MigrationPoints(a)]

(* Mutant: data that lives just as long counts. *)
OutlivesOrMeets(x, m) == x >= m

Outlives(x, m) == x > m

(* Only sensitive transit under a Shor-broken exchange can be harvested. *)
Hndl(a, c, x, m) ==
  LET signatureOnly == a.purposes # {} /\ a.purposes \subseteq {"digital_signature", "verify"}
      transit   == a.purposes \cap {"key_agreement", "key_encapsulation"} # {}
      sensitive == c.classification \in {"restricted", "confidential"}
  IN CASE signatureOnly -> "authenticity_at_crqc"
       [] ~signatureOnly /\ (~transit \/ ~sensitive \/ EffectiveVulnerability(a) # "shor_broken")
            -> "not_demonstrated"
       [] OTHER -> IF ~Known(x) \/ ~Known(m) THEN "needs_context"
                   ELSE IF Outlives(x, m) THEN "harvest_now_decrypt_later" ELSE "not_long_lived"

-----------------------------------------------------------------------------
(* The verdict, and the validators a RiskAssessment runs when it is built: *)
(* one that refuses makes classify_risk raise.                             *)

BandForScore(halves) ==
  CASE halves >= 2 * 75 -> "p0" [] halves < 2 * 50 -> "p2" [] OTHER -> "p1"

MissingTrackFields(mosca, resource) ==
  (IF Known(mosca.x) THEN {} ELSE {"data_lifetime_years"}) \cup
  (IF Known(mosca.y) THEN {} ELSE {"migration_time_years"}) \cup
  (IF Known(mosca.z) THEN {} ELSE {"threat_horizon_years"}) \cup
  (IF resource.status = "model_unavailable" THEN {"quantum_resource_model"} ELSE {})

ResourceResolved(resource) == resource.status \in {"calculated", "beyond_horizon"}

ContributionAccepted(f, points) ==
  /\ ~points.evidence => points.halves = 0
  /\ points.halves <= 2 * FactorWeights[f]

AssessmentAccepted(v) ==
  /\ Known(v.score) => /\ v.mosca.resolved /\ ResourceResolved(v.resource)
                       /\ v.score \in 0..200
  /\ v.mosca.urgent => v.mosca.resolved      \* FALSE also stands for no verdict
  /\ v.status = "scored" <=> Known(v.score)
  /\ v.status = "needs_context" => v.missing # {}
  /\ v.priority = IF Known(v.score) THEN BandForScore(v.score) ELSE "none"
  /\ \A f \in DOMAIN v.points : ContributionAccepted(f, v.points[f])

NoMosca == [x |-> Absent, y |-> Absent, z |-> Absent, basis |-> "unavailable",
            resolved |-> FALSE, shortfall |-> 0, urgent |-> FALSE, confidence |-> "none"]
Raised == [status |-> "raised", score |-> Absent, priority |-> "none"]

Total(points) ==
  points.algorithm.halves + points.mosca.halves + points.resource.halves + points.data.halves
  + points.criticality.halves + points.exposure.halves + points.migration.halves

(* What the points and the missing fields amount to. *)
Judged(a, c, mosca, resource, points, missing) ==
  LET scored == missing = {}
      score  == IF scored THEN Total(points) ELSE Absent
      both   == Weaker({mosca.confidence, resource.confidence} \ {"none"})
  IN [status |-> IF scored THEN "scored" ELSE "needs_context",
      score |-> score, priority |-> IF scored THEN BandForScore(score) ELSE "none",
      mosca |-> mosca, resource |-> resource, points |-> points, missing |-> missing,
      confidence |-> IF ~scored THEN "none"
                     ELSE IF \E f \in DOMAIN points : ~points[f].evidence
                     THEN Downgrade(both) ELSE both,
      hndl |-> IF scored THEN Hndl(a, c, mosca.x, resource.m) ELSE "none"]
DecidedByPolicy(a) ==
  [status |-> PolicyStatus(a), score |-> Absent, priority |-> "none", mosca |-> NoMosca,
   resource |-> ResourceTrack("model_unavailable", Absent, "none"),
   points |-> << >>, missing |-> {}, confidence |-> "none", hndl |-> "none"]
Built(v) == IF AssessmentAccepted(v) THEN v ELSE Raised
JudgedByTracks(a, c, mosca, resource) ==
  Judged(a, c, mosca, resource, Contributions(a, c, mosca, resource), MissingTrackFields(mosca, resource))

Classify(a, c, horizon, scenario) ==
  LET resource == EvaluateResources(a, scenario)
  IN Built(IF PolicyStatus(a) # "undecided" THEN DecidedByPolicy(a)
           ELSE JudgedByTracks(a, c, EvaluateMosca(c, horizon, resource), resource))

-----------------------------------------------------------------------------
(* What the label ingest stores always leads to a verdict: classify_risk   *)
(* raises for a quantum-safe artefact that reaches the scoring, so the     *)
(* policy and the label have to agree for every artefact                   *)
(* (final_risk_engine.py:412-516, scan_orchestrator.py:445-466).           *)
EveryArtefactClassifies(a, c, horizon, scenario) ==
  Classify([a EXCEPT !.vulnerability = StoredLabel(a)], c, horizon, scenario).status # "raised"

(* A more capable adversary never lowers a score or turns a scored         *)
(* artefact into one that needs context, gaps in the curve included        *)
(* (resource_engine.py:77-127).                                            *)
MoreCapabilityNeverLowersScore(a, c, horizon) ==
  LET score(s) == Classify(a, c, horizon, s).score
  IN score("conservative") <= score("baseline") /\ score("baseline") <= score("aggressive")

(* Data that lives longer is never less urgent: raising a stated lifetime, *)
(* or adding evidence from a source no stronger than those already heard,  *)
(* never lowers a score.  (A stronger source may: it overrules the rest.)  *)
(* The code behind it is mosca_engine.py:85-184.                           *)
LongerLifetimeNeverLowersScore(a, c, horizon, scenario, years) ==
  LET score(d) == Classify(a, d, horizon, scenario).score
  IN /\ Known(c.lifetime) /\ c.lifetime <= years => score(c) <= score([c EXCEPT !.lifetime = years])
     /\ \A source \in DOMAIN SourceRank :
          (\A e \in RawEvidence(c) : SourceRank[e.source] <= SourceRank[source])
            => score(c) <= score([c EXCEPT !.retention = @ \cup {Evidence(source, years)}])

(* The two tracks do not contradict each other: what can be harvested now  *)
(* and decrypted later is also past its Mosca date, unless the             *)
(* organisation replaced the modelled horizon by its own; and a verdict is *)
(* no more certain than the weakest of its two tracks                      *)
(* (final_risk_engine.py:123-172, 493-505).                                *)
TracksAgree(v) ==
  /\ v.hndl = "harvest_now_decrypt_later" /\ v.mosca.basis = "resource_model" => v.mosca.urgent
  /\ v.status = "scored" =>
       /\ ConfidenceRank[v.confidence] >= ConfidenceRank[v.mosca.confidence]
       /\ ConfidenceRank[v.confidence] >= ConfidenceRank[v.resource.confidence]
=============================================================================
