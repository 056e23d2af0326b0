--------------------------- MODULE EngineQuestions ---------------------------
(* The artefacts, contexts, profiles, findings and inventories the engines  *)
(* are asked about, each small and one of every kind they tell apart.       *)
EXTENDS Engines

Name(compact, prefix, digits, policy) ==
  [compact |-> compact, prefix |-> prefix, digits |-> digits, policy |-> policy]
Rsa(bits)  == [compact |-> "rsa", prefix |-> "rsa", digits |-> bits, policy |-> "neither"]
Ecdh       == Name("ecdh", "ecdh", Absent, "neither")
Curve      == Name("curve", "ec", 521, "neither")
X25519     == Name("x25519", "none", 25519, "neither")
Md5        == Name("md5", "none", Absent, "broken")
Mlkem      == Name("mlkem", "none", Absent, "resistant")
Mlkem768   == Name("mlkem768", "none", 768, "neither")
Aes        == Name("aes128", "none", 128, "neither")

Base == [type |-> "algorithm", name |-> Rsa(2048), size |-> Absent, primitive |-> "pke",
         vulnerability |-> "unknown", purposes |-> {"digital_signature"}, supportsPqc |-> "unknown",
         providerManaged |-> FALSE]
Exchange == [Base EXCEPT !.primitive = "key_agreement", !.purposes = {"key_agreement"}]

SampleArtefacts ==
  { [Base EXCEPT !.name = Rsa(bits), !.purposes = ps] :
      bits \in {Absent, 1024, 2048, 4096}, ps \in {{}, {"digital_signature"}, {"key_encapsulation"}} }
  \cup { [Base EXCEPT !.name = n, !.primitive = p] :
      n \in {Md5, Mlkem, Mlkem768, Aes}, p \in {"kem", "hash", "unknown"} }
  \cup { [Exchange EXCEPT !.name = n, !.size = s] : n \in {Ecdh, Curve, X25519}, s \in {Absent, 255, 256} }
  \cup { [Exchange EXCEPT !.vulnerability = v] :
      v \in {"shor_broken", "grover_weakened", "classically_broken", "quantum_safe"} }
  \cup { [Exchange EXCEPT !.type = t, !.supportsPqc = s, !.providerManaged = m] :
      t \in {"hardware_module", "cloud_service", "key"}, s \in {"yes", "no", "unknown"}, m \in BOOLEAN }
  \cup { [Base EXCEPT !.type = "library", !.name = Name("openssl", "none", Absent, "neither"),
                      !.primitive = p] : p \in {"unknown", "hash"} }

Context == [NoContext EXCEPT !.classification = "restricted", !.lifetime = 5, !.lifetimeTier = "user",
                             !.migration = 2, !.migrationTier = "user"]
SampleContexts ==
  { [Context EXCEPT !.lifetime = l, !.lifetimeTier = t, !.migration = y] :
      l \in {Absent, 0, 10, 30}, t \in {"user", "unknown"}, y \in {Absent, 0, 2} }
  \cup { [NoContext EXCEPT !.category = k, !.categoryTier = t, !.migration = 2, !.lifetime = l,
                           !.lifetimeTier = u] :
      k \in {"none", "biometric", "tax_record"}, t \in {"user", "scanner_evidence", "unknown"},
      l \in {Absent, 9}, u \in {"org_preset"} }
  \cup { [Context EXCEPT !.retention = r, !.lifetime = l] : l \in {Absent, 5},
      r \in SUBSET {Evidence("scanner", 12), Evidence("user", 3), Evidence("legal_profile", 40)} }
  \cup { [Context EXCEPT !.criticality = k, !.exposure = e, !.classification = d] :
      k \in {"critical", "unknown"}, e \in {"internet", "unknown"}, d \in {"public", "unknown"} }

SampleHorizons == {Absent, 8}
SampleLifetimes == {5, 30}

-----------------------------------------------------------------------------
ParameterSet(alg, name, category, source) ==
  [algorithm |-> alg, name |-> name, category |-> category, sizes |-> {"public_key"}, source |-> source]
Rule(algs, purposes, recommended) ==
  [algorithms |-> algs, purposes |-> purposes, recommended |-> recommended, size |-> Absent,
   stateless |-> "any"]
Profile ==
  [sources |-> {"liboqs", "fips-203", "fips-204", "fips-205", "fips-197"}, policyCategory |-> 3,
   parameterSets |-> << ParameterSet("ml-kem", "ML-KEM-768", 3, "fips-203"),
                        ParameterSet("ml-dsa", "ML-DSA-65", 3, "fips-204"),
                        ParameterSet("slh-dsa", "SLH-DSA-192s", 3, "fips-205"),
                        ParameterSet("slh-dsa", "SLH-DSA-192f", 3, "fips-205"),
                        ParameterSet("aes", "AES-256", Absent, "fips-197") >>,
   rules |-> { Rule({"rsa", "ecdh"}, {"key_agreement", "key_encapsulation"}, "ml-kem"),
               [Rule({"rsa", "ecdsa"}, {"digital_signature"}, "ml-dsa") EXCEPT !.stateless = "no"],
               [Rule({"rsa", "ecdsa"}, {"digital_signature"}, "slh-dsa") EXCEPT !.stateless = "yes"],
               [Rule({"aes128"}, {"digital_signature"}, "aes") EXCEPT !.size = 128] }]
(* What a wrong edit of the evidence file looks like. *)
SampleProfiles ==
  {Profile, [Profile EXCEPT !.policyCategory = 5], [Profile EXCEPT !.rules = {}],
   [Profile EXCEPT !.rules = @ \cup {Rule({"rsa"}, {"digital_signature"}, "aes")}]}
  \cup { [Profile EXCEPT !.sources = @ \ {s}] : s \in Profile.sources }
  \cup { [Profile EXCEPT !.parameterSets = SelectSeq(@, LAMBDA p : p.name # n)] :
           n \in {"ML-KEM-768", "SLH-DSA-192f"} }
  \cup { [Profile EXCEPT !.parameterSets[i].source = "fips-205"] : i \in {1, 5} }
  \cup { [Profile EXCEPT !.parameterSets[i].sizes = {}] : i \in {2, 3} }
  \cup { [Profile EXCEPT !.parameterSets = Append(@, @[1])] }
SampleRequirements ==
  { [category |-> c, hybrid |-> h, stateless |-> s] :
      c \in {Absent, 3, 5}, h \in BOOLEAN, s \in {"yes", "no"} }

(* Builds for the gate: up to two findings, some with a context, assessed  *)
(* with the shipped profile.                                               *)
Weak == [Exchange EXCEPT !.name = Rsa(2048), !.purposes = {"key_encapsulation"}]
GateArtefacts == {Weak, [Exchange EXCEPT !.name = Aes], [Base EXCEPT !.name = Md5],
                  [Base EXCEPT !.type = "library"]}
GateContexts == {Context, [Context EXCEPT !.lifetime = 30, !.criticality = "critical",
                                          !.exposure = "internet"],
                 [NoContext EXCEPT !.lifetime = 0, !.lifetimeTier = "user", !.migration = 0]}
ContextsOf(found) == UNION {[D -> GateContexts] : D \in SUBSET DOMAIN found}
SampleBuilds ==
  UNION { {[found |-> found, contexts |-> c, profile |-> Profile] : c \in ContextsOf(found)} :
            found \in UNION {[1..n -> GateArtefacts] : n \in 0..2} }

-----------------------------------------------------------------------------
(* The shipped profiles load, also under the names older scans recorded.    *)
Retained(source, basis, caveat) == [source |-> source, basis |-> basis, caveat |-> caveat]
ShippedRetention ==
  [warned |-> TRUE, sources |-> {"uidai-act", "companies-act", "income-tax-act", "planning"},
   categories |-> [aadhaar_pii |-> Retained("uidai-act", "assumption", TRUE),
                   financial_record |-> Retained("companies-act", "legal", FALSE),
                   tax_record |-> Retained("income-tax-act", "regulatory_minimum", TRUE),
                   biometric |-> Retained("planning", "assumption", TRUE),
                   credential_secret |-> Retained("planning", "assumption", TRUE)]]
Shipped == [v \in {"current-security-2026.1", "quantum-capability-2026.2"} |-> v]
ASSUME ShippedProfilesLoad ==
  /\ CapabilityCurveAccepted(CapabilityCurve) /\ WeightsAccepted(FactorWeights)
  /\ RetentionAccepted(ShippedRetention)
  /\ \A old \in {"builtin-0.1.0", "quantum-capability-2026.1"} : LoadProfile(old, Shipped, TRUE) \in DOMAIN Shipped

-----------------------------------------------------------------------------
Seen(protocol, version, observed) ==
  [type |-> "protocol", detail |-> TRUE, protocol |-> protocol, version |-> version, observed |-> observed]
ProtocolFindings == { Seen(p, v, o) : p \in {"tls", "sslv3"}, v \in {"", "1.0", "1.3"}, o \in BOOLEAN }
             \cup {[Seen("tls", "1.0", TRUE) EXCEPT !.type = "library"],
                   [Seen("tls", "1.0", TRUE) EXCEPT !.detail = FALSE]}
SampleSightings == UNION {[1..n -> ProtocolFindings] : n \in 0..2}
              \cup {<<s, t, u>> : s \in {Seen("tls", "1.0", FALSE), Seen("tls", "", FALSE)},
                                  t \in ProtocolFindings, u \in ProtocolFindings}

Listed(id, type, vulnerability) ==
  [id |-> id, type |-> type, name |-> "RSA", algorithm |-> "rsa", primitive |-> "pke",
   vulnerability |-> vulnerability, path |-> "src"]
Findings == {Listed(1, "key", "shor_broken"), Listed(1, "key", "quantum_safe"),
             Listed(2, "algorithm", "shor_broken"), Listed(3, "library", "unknown")}
Verdict(score, priority, id) ==
  [score |-> score, priority |-> priority, status |-> IF Known(score) THEN "scored" ELSE "needs_context",
   urgent |-> Known(score), id |-> id]
Verdicts(id) == {Verdict(160, "p0", id), Verdict(60, "p2", id), Verdict(Absent, "none", id)}
AssessmentLists ==
  {<< >>} \cup {<<[artefact |-> f, verdict |-> v]>> : f \in {1, 2}, v \in Verdicts("first")}
  \cup {<<[artefact |-> 1, verdict |-> v], [artefact |-> f, verdict |-> w]>> :
          v \in Verdicts("first"), f \in {1, 2}, w \in Verdicts("second")}
(* Each actionable assessment was given its recommendation. *)
AdviceFor(assessments) ==
  LET actionable == SelectSeq(assessments, LAMBDA a : a.verdict.priority \in {"p0", "p1"})
  IN [i \in DOMAIN actionable |->
        [assessment |-> actionable[i].verdict.id,
         advice |-> [algorithm |-> IF actionable[i].verdict.id = "first" THEN "ml-kem" ELSE "ml-dsa",
                     set |-> "768", hybrid |-> FALSE]]]
InventoriesOf(findings, lists) ==
  { [findings |-> f, assessments |-> l, recommendations |-> AdviceFor(l)] :
      f \in findings, l \in lists }
SampleInventories == InventoriesOf(UNION {[1..n -> Findings] : n \in 0..2}, AssessmentLists)
SampleSnapshots == InventoriesOf({<< >>} \cup {<<f>> : f \in Findings} \cup {<<f, g>> : f \in Findings, g \in Findings},
                           {l \in AssessmentLists : Len(l) <= 1})
=============================================================================
