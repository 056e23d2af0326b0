----------------------------- MODULE ReportFiles -----------------------------
(***************************************************************************)
(* Report generation: look the Idempotency-Key up, render, write the file, *)
(* insert the row.  A report is named by the call that makes it (a fresh   *)
(* uuid4); the file store and the database share no transaction.           *)
(***************************************************************************)
EXTENDS FiniteSets

CONSTANTS Reports, ScanIds, Keys, NoKey

ASSUME ReportNames == "none" \notin Reports

VARIABLES request,      \* per call: where it is, what it is for, its answer
          file,         \* "none", "part" or "whole", per report
          rows,         \* the rows [id, scan, key] of the table reports
          scansLeft     \* scans that exist
reportVars == <<request, file, rows, scansLeft>>

NoAnswer == "none"
Unasked == [pc |-> "idle", scan |-> "none", key |-> NoKey, answer |-> NoAnswer]
ReportsInit ==
  /\ request = [r \in Reports |-> Unasked]
  /\ file = [r \in Reports |-> "none"]
  /\ rows = {} /\ scansLeft = ScanIds

Goes(r, pc) == request' = [request EXCEPT ![r].pc = pc]
WithKey(k) == {row \in rows : k # NoKey /\ row.key = k}

(* A known key is answered with its report, whatever scan and format the   *)
(* repeated request names.                                                 *)
AskReport(r) == \E s \in scansLeft, k \in Keys \cup {NoKey} :
  /\ request[r] = Unasked
  /\ \/ \E row \in WithKey(k) :
          request' = [request EXCEPT ![r] = [pc |-> "answered", scan |-> s, key |-> k, answer |-> row.id]]
     \/ /\ WithKey(k) = {}
        /\ \E pc \in {"rendered", "unavailable"} :     \* export may raise: 503
             request' = [request EXCEPT ![r] = [Unasked EXCEPT !.pc = pc, !.scan = s, !.key = k]]
  /\ UNCHANGED <<file, rows, scansLeft>>

StartFile(r) ==
  /\ request[r].pc = "rendered" /\ file[r] = "none"
  /\ file' = [file EXCEPT ![r] = "part"]
  /\ UNCHANGED <<request, rows, scansLeft>>
FinishFile(r) ==
  /\ request[r].pc = "rendered" /\ file[r] = "part"
  /\ \/ file' = [file EXCEPT ![r] = "whole"] /\ Goes(r, "written")
     \/ Goes(r, "failed") /\ UNCHANGED file            \* the disk is full
  /\ UNCHANGED <<rows, scansLeft>>

(* Mutant: the row goes in before its file. *)
MayInsertEarly(r) == request[r].pc = "written" \/ (request[r].pc = "rendered" /\ file[r] = "part")

MayInsert(r) == request[r].pc = "written"

(* Mutant: the scan need only have existed. *)
ScanWasThere(r) == request[r].scan \in ScanIds

ScanStands(r) == request[r].scan \in scansLeft

(* The unique index on (requester, key) and the scan's foreign key decide. *)
InsertReport(r) ==
  /\ MayInsert(r)
  /\ IF WithKey(request[r].key) = {} /\ ScanStands(r)
     THEN /\ rows' = rows \cup {[id |-> r, scan |-> request[r].scan, key |-> request[r].key]}
          /\ request' = [request EXCEPT ![r].pc = "answered", ![r].answer = r]
     ELSE Goes(r, "failed") /\ UNCHANGED rows
  /\ UNCHANGED <<file, scansLeft>>

(* The rows go with the scan; nobody removes a file. *)
RemoveScan(s) ==
  /\ s \in scansLeft
  /\ scansLeft' = scansLeft \ {s}
  /\ rows' = {row \in rows : row.scan # s}
  /\ UNCHANGED <<request, file>>

ApiDies ==
  /\ \E r \in Reports : request[r].pc \in {"rendered", "written"}
  /\ request' = [r \in Reports |-> IF request[r].pc \in {"rendered", "written"}
                                   THEN [request[r] EXCEPT !.pc = "died"] ELSE request[r]]
  /\ UNCHANGED <<file, rows, scansLeft>>

ReportsNext ==
  \/ \E r \in Reports : AskReport(r) \/ StartFile(r) \/ FinishFile(r) \/ InsertReport(r)
  \/ \E s \in ScanIds : RemoveScan(s)
  \/ ApiDies
ReportsSpec == ReportsInit /\ [][ReportsNext]_reportVars

-----------------------------------------------------------------------------
ReportsTypeOK ==
  /\ \A r \in Reports : file[r] \in {"none", "part", "whole"} /\ request[r].answer \in Reports \cup {NoAnswer}
  /\ \A row \in rows : row.id \in Reports /\ row.scan \in scansLeft

(* download_report's two conditions. *)
Downloadable(id) == file[id] = "whole" /\ \E row \in rows : row.id = id
Answered(r) == request[r].answer # NoAnswer

(* An answered report can be downloaded until its scan is deleted, however *)
(* calls overlap or die: its row and its complete file are both there.     *)
(* Two calls with one key are answered with one report while that report   *)
(* is listed, and a file no row names is left only by a call that failed   *)
(* or died, or by a deleted scan (routes.py:1523-1618).                    *)
AnswersAreDownloadable ==
  /\ \A row \in rows : Downloadable(row.id)
  /\ \A row, other \in rows : row.key # NoKey /\ row.key = other.key => row = other
  /\ \A q, r \in Reports :
       /\ Answered(r) /\ request[request[r].answer].scan \in scansLeft => Downloadable(request[r].answer)
       /\ request[q].key # NoKey /\ request[q].key = request[r].key
            /\ Answered(q) /\ Downloadable(request[q].answer) /\ Answered(r) /\ Downloadable(request[r].answer)
            => request[q].answer = request[r].answer
       /\ file[r] # "none" /\ ~(\E row \in rows : row.id = r) =>
            \/ request[r].pc \in {"rendered", "written", "failed", "died"}
            \/ request[r].scan \notin scansLeft
=============================================================================
