----------------------------- MODULE CommandLine -----------------------------
(***************************************************************************)
(* The `trinetra scan' command and its CI gate: ingest, classify and       *)
(* recommend every artefact, export, then fail when a scored finding is at *)
(* or above the --fail-on threshold.                                       *)
(***************************************************************************)
EXTENDS Recommendations

(* Mutant: two bands swapped. *)
SwappedRank == [critical |-> 0, p0 |-> 0, high |-> 1, p1 |-> 2, medium |-> 2, p2 |-> 1,
                low |-> 3, none |-> 4]

PriorityRank == [critical |-> 0, p0 |-> 0, high |-> 1, p1 |-> 1, medium |-> 2, p2 |-> 2,
                 low |-> 3, none |-> 4]

Thresholds == {"critical", "high", "medium", "p0", "p1", "p2"}
NoContext == [classification |-> "unknown", category |-> "none", categoryTier |-> "unknown",
              lifetime |-> Absent, lifetimeTier |-> "unknown", retention |-> {},
              migration |-> Absent, migrationTier |-> "unknown",
              criticality |-> "unknown", exposure |-> "unknown"]
ContextFor(contexts, i) == IF i \in DOMAIN contexts THEN contexts[i] ELSE NoContext
DefaultHorizon == 8
PlainRequirements == [category |-> Absent, hybrid |-> FALSE, stateless |-> "no"]

(* Artefacts without a supplied context are assessed with an empty one. *)
WithAdvice(a, verdict, profile) ==
  [verdict |-> verdict, advice |-> Recommend(a, verdict, PlainRequirements, profile)]
RunEngines(found, contexts, horizon, profile) ==
  [i \in DOMAIN found |->
     WithAdvice(found[i], Classify(found[i], ContextFor(contexts, i), horizon, "baseline"), profile)]

Violating(results, threshold) ==
  {i \in DOMAIN results : /\ results[i].verdict.status = "scored"
                          /\ PriorityRank[results[i].verdict.priority] <= PriorityRank[threshold]}

(* Exit status: 0 the run passed; 1 the gate failed, or an engine raised   *)
(* and nothing in the command caught it, which ends the process with 1.    *)
ExitCode(results, threshold) ==
  IF \/ \E i \in DOMAIN results : results[i].verdict.status = "raised" \/ results[i].advice.kind = "raised"
     \/ threshold # "off" /\ Violating(results, threshold) # {}
  THEN 1 ELSE 0

(* A weaker threshold fails whenever a stricter one does, a build that     *)
(* fails names a finding with a replacement decision when the threshold is *)
(* an actionable priority, and learning one more context can turn a pass   *)
(* into a failure but never a failure into a pass.                         *)
GateIsMonotone(found, contexts, horizon, profile) ==
  LET results(known) == RunEngines(found, known, horizon, profile)
      all == results(contexts)
  IN /\ \A s, t \in Thresholds : PriorityRank[s] <= PriorityRank[t] =>
          /\ Violating(all, s) \subseteq Violating(all, t)
          /\ ExitCode(all, s) <= ExitCode(all, t)
     /\ \A i \in Violating(all, "p1") : all[i].advice.kind \in {"automatic", "manual"}
     /\ \A i \in DOMAIN contexts, t \in Thresholds :
          ExitCode(results([j \in DOMAIN contexts \ {i} |-> contexts[j]]), t) <= ExitCode(all, t)
=============================================================================
