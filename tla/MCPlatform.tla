------------------------------ MODULE MCPlatform ------------------------------
(* One instance of the platform's five mechanisms; a behaviour runs one of   *)
(* them, the subject, and the others stay in one initial state.              *)
EXTENDS RiskRecords, ReportFiles, ProgressStream, RateLimiter, TargetDirectory

VARIABLE subject
platformVars == <<subject, recordVars, reportVars, streamVars, limiterVars, targetVars>>

(* Two projects, and every artefact but "a" in the second one. *)
HomeOf == [x \in Artefacts |-> IF x = "a" THEN "p" ELSE "q"]

Init ==
  /\ subject \in {"records", "reports", "stream", "limiter", "target"}
  /\ RecordsInit /\ ReportsInit /\ StreamInit /\ LimiterInit /\ TargetInit
  /\ "a" \in present
  /\ subject # "records" => unratable = {}
  /\ subject # "target" => source.kind = "local" /\ source.exists

Next ==
  /\ UNCHANGED subject
  /\ \/ subject = "records" /\ RecordsNext /\ UNCHANGED <<reportVars, streamVars, limiterVars, targetVars>>
     \/ subject = "reports" /\ ReportsNext /\ UNCHANGED <<recordVars, streamVars, limiterVars, targetVars>>
     \/ subject = "stream" /\ StreamNext /\ UNCHANGED <<recordVars, reportVars, limiterVars, targetVars>>
     \/ subject = "limiter" /\ LimiterNext /\ UNCHANGED <<recordVars, reportVars, streamVars, targetVars>>
     \/ subject = "target" /\ TargetNext /\ UNCHANGED <<recordVars, reportVars, streamVars, limiterVars>>

Spec == Init /\ [][Next]_platformVars /\ StreamFairness

-----------------------------------------------------------------------------
(* The five machines keep their types. *)
PlatformTyped == RecordsTypeOK /\ ReportsTypeOK /\ StreamTypeOK /\ LimiterTypeOK /\ TargetTypeOK
=============================================================================
