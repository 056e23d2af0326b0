--------------------------- MODULE Recommendations ---------------------------
(***************************************************************************)
(* Which replacement an actionable assessment is given, and the rules a    *)
(* PQC evidence profile must satisfy before the loader hands it to the     *)
(* recommendation engine.  A profile is a parameter of every operator, so  *)
(* what the loader accepts can be compared with what the engine survives.  *)
(***************************************************************************)
EXTENDS RiskEngines

Facts(sizes) == sizes # {}     \* at least one published object size
StandardFor == [x \in {"ml-kem", "ml-dsa", "slh-dsa", "aes"} |->
  CASE x = "ml-kem" -> "fips-203" [] x = "ml-dsa" -> "fips-204"
    [] x = "slh-dsa" -> "fips-205" [] x = "aes" -> "fips-197"]

ParameterSetRecords ==
  [algorithm : DOMAIN StandardFor, name : STRING, category : {1, 3, 5, Absent}, sizes : SUBSET STRING,
   source : STRING]
RuleRecords ==
  [algorithms : SUBSET STRING, purposes : SUBSET STRING, recommended : DOMAIN StandardFor,
   size : Nat \cup {Absent}, stateless : {"yes", "no", "any"}]
ProfileRecords ==
  [sources : SUBSET STRING, policyCategory : {1, 3, 5}, parameterSets : Seq(ParameterSetRecords),
   rules : SUBSET RuleRecords]

(* Mutant: a set without published sizes is accepted. *)
AnySetAccepted(p) == TRUE

ParameterSetAccepted(p) == Facts(p.sizes)

EvidenceProfileAccepted(profile) ==
  LET sets == profile.parameterSets
      key(p) == <<p.algorithm, p.name, p.category>>
  IN /\ profile.sources # {} /\ sets # << >> /\ profile.rules # {}
     /\ \A i \in DOMAIN sets :
          /\ ParameterSetAccepted(sets[i])
          /\ sets[i].source \in profile.sources
          /\ sets[i].source = StandardFor[sets[i].algorithm]
     /\ "liboqs" \in profile.sources
     /\ \A i, j \in DOMAIN sets : i # j => key(sets[i]) # key(sets[j])
     /\ \A alg \in {"ml-kem", "ml-dsa"} : \E i \in DOMAIN sets :
          sets[i].algorithm = alg /\ sets[i].category = profile.policyCategory

(* A curve the resource engine may walk: each year once, in order. *)
CapabilityCurveAccepted(curve) ==
  \A i, j \in DOMAIN curve : i < j => curve[i].year < curve[j].year

(* Weights are the canonical seven, which total the band maximum. *)
WeightsAccepted(weights) ==
  /\ weights = FactorWeights
  /\ MapThenSumSet(LAMBDA f : weights[f], DOMAIN weights) = 100

(* Each category cites a source, keeps its caveat, and the two assumed     *)
(* categories are labelled as such.                                        *)
RetentionAccepted(profile) ==
  /\ \A k \in DOMAIN profile.categories : LET c == profile.categories[k] IN
       /\ c.source \in profile.sources
       /\ c.basis = "regulatory_minimum" => c.caveat
  /\ profile.warned
  /\ \A k \in {"biometric", "credential_secret"} :
       k \in DOMAIN profile.categories /\ profile.categories[k].basis = "assumption"

(* load_profile: an old name resolves to its successor, and the file must  *)
(* declare the version it was asked for.                                   *)
CanonicalVersion(v) ==
  CASE v = "builtin-0.1.0" -> "current-security-2026.1"
    [] v = "quantum-capability-2026.1" -> "quantum-capability-2026.2"
    [] OTHER -> v
LoadProfile(v, files, accepted) ==
  LET name == CanonicalVersion(v)
  IN IF name \notin DOMAIN files \/ ~accepted \/ files[name] # name THEN "refused" ELSE name

-----------------------------------------------------------------------------
ManualReview == [kind |-> "manual", algorithm |-> "none", set |-> "none", category |-> Absent,
                 hybrid |-> FALSE, partner |-> "none", facts |-> FALSE]

RuleMatches(rule, a, requirements) ==
  /\ Normalise(a.name) \in rule.algorithms
  /\ a.purposes \cap rule.purposes # {}
  /\ Known(rule.size) => KeySizeBits(a) = rule.size
  /\ rule.stateless = "any" \/ rule.stateless = requirements.stateless

(* The one set of that algorithm and category; two are as good as none. *)
ParameterSetFor(profile, algorithm, category) ==
  LET fits == {i \in DOMAIN profile.parameterSets :
                 LET p == profile.parameterSets[i]
                 IN p.algorithm = algorithm /\ p.category = category}
  IN IF Cardinality(fits) = 1 THEN CHOOSE i \in fits : TRUE ELSE 0

RecommendationAccepted(r) ==
  IF r.kind = "manual" THEN r.algorithm = "none" /\ ~r.facts
  ELSE r.algorithm # "none" /\ r.facts /\ (r.hybrid => r.partner # "none")

Recommend(a, verdict, requirements, profile) ==
  LET choices  == {r.recommended : r \in {r \in profile.rules : RuleMatches(r, a, requirements)}}
      chosen   == CHOOSE alg \in choices : TRUE
      category == IF chosen = "aes" THEN Absent
                  ELSE IF Known(requirements.category) THEN requirements.category
                  ELSE profile.policyCategory
      i        == ParameterSetFor(profile, chosen, category)
      cited    == profile.parameterSets[i]
      r        == [kind |-> "automatic", algorithm |-> chosen, set |-> cited.name,
                   category |-> category, hybrid |-> requirements.hybrid,
                   partner |-> IF requirements.hybrid THEN "X25519" ELSE "none",
                   facts |-> Facts(cited.sizes)]
  IN CASE verdict.status # "scored" \/ verdict.priority \notin {"p0", "p1"} -> [kind |-> "nothing"]
       [] OTHER ->
          IF \/ Normalise(a.name) = "" \/ Cardinality(choices) # 1 \/ i = 0
             \/ requirements.hybrid /\ chosen # "ml-kem"
          THEN ManualReview
          ELSE IF cited.source \notin profile.sources \/ ~RecommendationAccepted(r)
          THEN [kind |-> "raised"] ELSE r

(* A profile the loader accepts cannot make the engine raise, and what the *)
(* engine recommends is a parameter set of that profile with a source: no  *)
(* rule, request or stripped profile leads to an uncited recommendation    *)
(* (recommendation_engine.py:113-215, loader.py:207-271).                  *)
AcceptedProfileNeverRaises(a, verdict, requirements, profile) ==
  EvidenceProfileAccepted(profile) =>
    LET r == Recommend(a, verdict, requirements, profile)
    IN /\ r.kind # "raised"
       /\ r.kind = "automatic" =>
            \E i \in DOMAIN profile.parameterSets :
              LET p == profile.parameterSets[i]
              IN /\ <<p.algorithm, p.name, p.category>> = <<r.algorithm, r.set, r.category>>
                 /\ p.source = StandardFor[p.algorithm] /\ p.sizes # {}
=============================================================================
