------------------------- MODULE ReportFiles_proofs -------------------------
(***************************************************************************)
(* A report that was answered can be downloaded, for any number of calls,  *)
(* scans and keys.                                                         *)
(*                                                                         *)
(* AnswersAreDownloadable speaks of answers, rows and files; what connects *)
(* them in every step is the request of the call that made the report: a   *)
(* row carries its key and scan, an answer leads to a call that answered   *)
(* itself, and a file exists only past the step that wrote it.             *)
(***************************************************************************)
EXTENDS ReportFiles, TLAPS

Steps == {"idle", "rendered", "unavailable", "written", "answered", "failed", "died"}
Requests == [pc : Steps, scan : ScanIds \cup {"none"}, key : Keys \cup {NoKey},
             answer : Reports \cup {NoAnswer}]

TypesOK ==
  /\ request \in [Reports -> Requests]
  /\ file \in [Reports -> {"none", "part", "whole"}]
  /\ rows \subseteq [id : Reports, scan : scansLeft, key : Keys \cup {NoKey}]
  /\ scansLeft \subseteq ScanIds

\* A call has an answer when it is answered, and a file once it began one.
CallsOK == \A r \in Reports :
  /\ request[r].pc = "answered" <=> request[r].answer # NoAnswer
  /\ request[r].pc \in {"rendered", "written"} => request[r].scan \in ScanIds
  /\ request[r].pc = "written" => file[r] = "whole"
  /\ file[r] # "none" => \/ request[r].pc \in {"rendered", "written", "failed", "died"}
                         \/ request[r].answer = r

\* A row is its call's.
RowOK(row) ==
  /\ file[row.id] = "whole"
  /\ request[row.id].answer = row.id
  /\ request[row.id].key = row.key /\ request[row.id].scan = row.scan
KeysDiffer == \A row, other \in rows : row.key # NoKey /\ row.key = other.key => row = other

\* An answer leads to a call that answered itself.
AnswerOK(r) ==
  /\ request[request[r].answer].answer = request[r].answer
  /\ request[request[r].answer].key = request[r].key
  /\ request[request[r].answer].scan \in scansLeft => \E row \in rows : row.id = request[r].answer

ReportsInv ==
  /\ TypesOK /\ CallsOK
  /\ \A row \in rows : RowOK(row)
  /\ KeysDiffer
  /\ \A r \in Reports : request[r].answer # NoAnswer => AnswerOK(r)

-----------------------------------------------------------------------------
LEMMA InvImpliesDownloadable == ReportsInv => AnswersAreDownloadable
<1> SUFFICES ASSUME ReportsInv PROVE AnswersAreDownloadable
  OBVIOUS
<1> USE DEF ReportsInv, Answered
<1>1. \A row \in rows : Downloadable(row.id)
  BY DEF RowOK, Downloadable
<1>2. \A row, other \in rows : row.key # NoKey /\ row.key = other.key => row = other
  BY DEF KeysDiffer
<1>3. ASSUME NEW r \in Reports, Answered(r), request[request[r].answer].scan \in scansLeft
      PROVE  Downloadable(request[r].answer)
  <2>1. PICK row \in rows : row.id = request[r].answer
    BY <1>3 DEF AnswerOK
  <2>2. QED
    BY <1>1, <2>1
<1>4. ASSUME NEW q \in Reports, NEW r \in Reports, request[q].key # NoKey, request[q].key = request[r].key,
             Answered(q), Downloadable(request[q].answer), Answered(r), Downloadable(request[r].answer)
      PROVE  request[q].answer = request[r].answer
  <2>1. PICK row \in rows : row.id = request[q].answer
    BY <1>4 DEF Downloadable
  <2>2. PICK other \in rows : other.id = request[r].answer
    BY <1>4 DEF Downloadable
  <2>3. row.key = request[q].key /\ other.key = request[r].key
    BY <1>4, <2>1, <2>2 DEF RowOK, AnswerOK
  <2>4. QED
    BY <1>2, <1>4, <2>1, <2>2, <2>3
<1>5. ASSUME NEW r \in Reports, file[r] # "none", ~(\E row \in rows : row.id = r)
      PROVE  request[r].pc \in {"rendered", "written", "failed", "died"} \/ request[r].scan \notin scansLeft
  <2>1. CASE request[r].answer = r
    BY <1>5, <2>1, ReportNames DEF AnswerOK, NoAnswer
  <2>2. QED
    BY <1>5, <2>1 DEF CallsOK
<1>6. QED
  BY <1>1, <1>2, <1>3, <1>4, <1>5 DEF AnswersAreDownloadable

LEMMA InvInit == ReportsInit => ReportsInv
  BY DEF ReportsInit, ReportsInv, TypesOK, CallsOK, KeysDiffer, Unasked, Requests, Steps, NoAnswer

\* Another pc, and no answer: nothing but the call's own files is at stake.
LEMMA GoesKeepsInv ==
  ASSUME ReportsInv, NEW r \in Reports, NEW pc \in Steps \ {"answered"}, request[r].pc # "answered", Goes(r, pc),
         NEW content \in {"none", "part", "whole"}, file' = [file EXCEPT ![r] = content],
         pc \in {"rendered", "written"} => request[r].scan \in ScanIds,
         pc = "written" => content = "whole",
         content # "none" => pc \in {"rendered", "written", "failed", "died"},
         UNCHANGED <<rows, scansLeft>>
  PROVE  ReportsInv'
<1> USE DEF ReportsInv
<1>1. \A q \in Reports : /\ request'[q].answer = request[q].answer /\ request'[q].key = request[q].key
                         /\ request'[q].scan = request[q].scan
                         /\ request'[q].pc = IF q = r THEN pc ELSE request[q].pc
                         /\ file'[q] = IF q = r THEN content ELSE file[q]
  BY DEF Goes, TypesOK, Requests
<1>2. TypesOK'
  BY DEF Goes, TypesOK, Requests
<1>3. request[r].answer = NoAnswer
  BY DEF CallsOK
<1>4. CallsOK'
  BY <1>1, <1>3 DEF CallsOK
<1>5. \A row \in rows : row.id \in Reports /\ row.id # r
  BY <1>3, ReportNames DEF RowOK, TypesOK, NoAnswer
<1>6. \A row \in rows' : RowOK(row)'
  BY <1>1, <1>5 DEF RowOK
<1>7. KeysDiffer'
  BY DEF KeysDiffer
<1>8. \A q \in Reports : request'[q].answer # NoAnswer => AnswerOK(q)'
  <2> SUFFICES ASSUME NEW q \in Reports, request'[q].answer # NoAnswer PROVE AnswerOK(q)'
    OBVIOUS
  <2>1. request[q].answer \in Reports /\ AnswerOK(q)
    BY <1>1 DEF TypesOK, Requests
  <2>2. QED
    BY <1>1, <2>1 DEF AnswerOK
<1>9. QED
  BY <1>2, <1>4, <1>6, <1>7, <1>8

\* A new call, answered with a listed report of its key or not at all.
LEMMA NewCallKeepsInv ==
  ASSUME ReportsInv, NEW r \in Reports, request[r] = Unasked, NEW new \in Requests,
         request' = [request EXCEPT ![r] = new], UNCHANGED <<file, rows, scansLeft>>,
         new.pc = "answered" <=> new.answer # NoAnswer,
         new.scan \in ScanIds, new.pc # "written",
         new.answer # NoAnswer => \E row \in rows : row.id = new.answer /\ row.key = new.key
  PROVE  ReportsInv'
<1> USE DEF ReportsInv
<1>1. TypesOK'
  BY DEF TypesOK
<1>2. \A q \in Reports : request'[q] = IF q = r THEN new ELSE request[q]
  BY DEF TypesOK
<1>3. request[r].answer = NoAnswer /\ request[r].pc = "idle" /\ r # NoAnswer
  BY ReportNames DEF Unasked, NoAnswer
<1>4. file[r] = "none"
  BY <1>3 DEF CallsOK
<1>5. CallsOK'
  BY <1>2, <1>4 DEF CallsOK
<1>6. \A row \in rows : row.id \in Reports /\ row.id # r
  BY <1>3 DEF RowOK, TypesOK
<1>7. \A row \in rows' : RowOK(row)'
  BY <1>2, <1>6 DEF RowOK
<1>8. KeysDiffer'
  BY DEF KeysDiffer
<1>9. \A q \in Reports : request'[q].answer # NoAnswer => AnswerOK(q)'
  <2> SUFFICES ASSUME NEW q \in Reports, request'[q].answer # NoAnswer PROVE AnswerOK(q)'
    OBVIOUS
  <2>1. CASE q = r
    <3>1. PICK row \in rows : row.id = new.answer /\ row.key = new.key
      BY <1>2, <2>1
    <3>2. request'[q] = new /\ request'[row.id] = request[row.id]
      BY <1>2, <1>6, <2>1
    <3>3. QED
      BY <3>1, <3>2 DEF AnswerOK, RowOK
  <2>2. CASE q # r
    <3>1. request[q].answer # NoAnswer /\ request[q].answer \in Reports /\ AnswerOK(q)
      BY <1>2, <2>2 DEF TypesOK, Requests
    <3>2. request[q].answer # r
      BY <1>3, <3>1 DEF AnswerOK
    <3>3. request'[q] = request[q] /\ request'[request[q].answer] = request[request[q].answer]
      BY <1>2, <2>2, <3>1, <3>2
    <3>4. QED
      BY <3>1, <3>3 DEF AnswerOK
  <2>3. QED
    BY <2>1, <2>2
<1>10. QED
  BY <1>1, <1>5, <1>7, <1>8, <1>9

LEMMA AskKeepsInv ==
  ASSUME ReportsInv, NEW r \in Reports, AskReport(r)
  PROVE  ReportsInv'
<1>0. PICK s \in scansLeft, k \in Keys \cup {NoKey} :
        /\ request[r] = Unasked
        /\ \/ \E row \in WithKey(k) :
                request' = [request EXCEPT ![r] = [pc |-> "answered", scan |-> s, key |-> k, answer |-> row.id]]
           \/ \E pc \in {"rendered", "unavailable"} :
                request' = [request EXCEPT ![r] = [Unasked EXCEPT !.pc = pc, !.scan = s, !.key = k]]
  BY DEF AskReport
<1>1. s \in ScanIds /\ UNCHANGED <<file, rows, scansLeft>>
  BY DEF AskReport, ReportsInv, TypesOK
<1>2. ASSUME NEW row \in WithKey(k),
             request' = [request EXCEPT ![r] = [pc |-> "answered", scan |-> s, key |-> k, answer |-> row.id]]
      PROVE  ReportsInv'
  <2> DEFINE new == [pc |-> "answered", scan |-> s, key |-> k, answer |-> row.id]
  <2>1. row \in rows /\ row.key = k /\ row.id \in Reports
    BY DEF WithKey, ReportsInv, TypesOK
  <2>2. new \in Requests /\ new.answer # NoAnswer
    BY <1>1, <2>1, ReportNames DEF Requests, Steps, NoAnswer
  <2>3. new.pc = "answered" /\ new.scan = s /\ new.answer = row.id /\ new.key = k
    OBVIOUS
  <2> HIDE DEF new
  <2>4. request' = [request EXCEPT ![r] = new]
    BY <1>2 DEF new
  <2>5. QED
    BY <1>0, <1>1, <2>1, <2>2, <2>3, <2>4, NewCallKeepsInv
<1>3. ASSUME NEW pc \in {"rendered", "unavailable"},
             request' = [request EXCEPT ![r] = [Unasked EXCEPT !.pc = pc, !.scan = s, !.key = k]]
      PROVE  ReportsInv'
  <2> DEFINE new == [Unasked EXCEPT !.pc = pc, !.scan = s, !.key = k]
  <2>1. new \in Requests /\ new.pc = pc /\ new.scan = s /\ new.answer = NoAnswer
    BY <1>1 DEF Requests, Steps, Unasked
  <2> HIDE DEF new
  <2>2. request' = [request EXCEPT ![r] = new]
    BY <1>3 DEF new
  <2>3. QED
    BY <1>0, <1>1, <2>1, <2>2, NewCallKeepsInv
<1>4. QED
  BY <1>0, <1>2, <1>3

LEMMA FileKeepsInv ==
  ASSUME ReportsInv, NEW r \in Reports, StartFile(r) \/ FinishFile(r)
  PROVE  ReportsInv'
<1>0. request[r].pc = "rendered" /\ request[r].scan \in ScanIds /\ file[r] \in {"none", "part", "whole"}
  BY DEF StartFile, FinishFile, ReportsInv, CallsOK, TypesOK
<1>1. CASE StartFile(r)
  <2>1. Goes(r, "rendered")
    BY <1>0, <1>1 DEF StartFile, Goes, ReportsInv, TypesOK, Requests
  <2>2. file' = [file EXCEPT ![r] = "part"] /\ UNCHANGED <<rows, scansLeft>>
    BY <1>1 DEF StartFile
  <2>3. QED
    BY <1>0, <2>1, <2>2, GoesKeepsInv DEF Steps
<1>2. CASE FinishFile(r) /\ file' = [file EXCEPT ![r] = "whole"] /\ Goes(r, "written")
  <2>1. UNCHANGED <<rows, scansLeft>>
    BY <1>2 DEF FinishFile
  <2>2. QED
    BY <1>0, <1>2, <2>1, GoesKeepsInv DEF Steps
<1>3. CASE FinishFile(r) /\ Goes(r, "failed") /\ UNCHANGED file
  <2>1. UNCHANGED <<rows, scansLeft>>
    BY <1>3 DEF FinishFile
  <2>2. file' = [file EXCEPT ![r] = file[r]]
    BY <1>3 DEF ReportsInv, TypesOK
  <2> DEFINE content == file[r]
  <2>3. content \in {"none", "part", "whole"} /\ file' = [file EXCEPT ![r] = content]
    BY <1>0, <2>2
  <2> HIDE DEF content
  <2>4. Goes(r, "failed")
    BY <1>3
  <2> DEFINE failed == "failed"
  <2>5. /\ failed \in Steps \ {"answered"} /\ request[r].pc # "answered" /\ Goes(r, failed)
        /\ failed \notin {"rendered", "written"} /\ failed # "written"
        /\ failed \in {"rendered", "written", "failed", "died"}
    BY <1>0, <2>4 DEF Steps
  <2> HIDE DEF failed
  <2>6. QED
    BY <2>1, <2>3, <2>5, GoesKeepsInv
<1>4. QED
  BY <1>1, <1>2, <1>3 DEF FinishFile

LEMMA InsertKeepsInv ==
  ASSUME ReportsInv, NEW r \in Reports, InsertReport(r)
  PROVE  ReportsInv'
<1> USE DEF ReportsInv
<1>0. request[r].pc = "written" /\ file[r] = "whole" /\ request[r].answer = NoAnswer /\ r # NoAnswer
  BY ReportNames DEF InsertReport, MayInsert, CallsOK, NoAnswer
<1>1. CASE ~(WithKey(request[r].key) = {} /\ ScanStands(r))
  <2>1. Goes(r, "failed") /\ UNCHANGED <<rows, scansLeft>> /\ file' = [file EXCEPT ![r] = "whole"]
    BY <1>0, <1>1 DEF InsertReport, TypesOK
  <2>2. QED
    BY <1>0, <2>1, GoesKeepsInv DEF Steps
<1>2. CASE WithKey(request[r].key) = {} /\ ScanStands(r)
  <2> DEFINE new == [id |-> r, scan |-> request[r].scan, key |-> request[r].key]
  <2>0. request' = [request EXCEPT ![r] = [request[r] EXCEPT !.pc = "answered", !.answer = r]]
    BY <1>2 DEF InsertReport, TypesOK
  <2>1. rows' = rows \cup {new} /\ file' = file /\ scansLeft' = scansLeft
    BY <1>2 DEF InsertReport
  <2>2. \A q \in Reports : /\ request'[q].answer = IF q = r THEN r ELSE request[q].answer
                           /\ request'[q].key = request[q].key /\ request'[q].scan = request[q].scan
                           /\ request'[q].pc = IF q = r THEN "answered" ELSE request[q].pc
    BY <2>0 DEF TypesOK, Requests
  <2>3. TypesOK'
    <3>1. new \in [id : Reports, scan : scansLeft, key : Keys \cup {NoKey}]
      BY <1>2 DEF ScanStands, TypesOK, Requests
    <3> HIDE DEF new
    <3>2. [request[r] EXCEPT !.pc = "answered", !.answer = r] \in Requests
      BY DEF TypesOK, Requests, Steps
    <3>3. QED
      BY <2>0, <2>1, <3>1, <3>2 DEF TypesOK
  <2>4. CallsOK'
    BY <1>0, <2>1, <2>2 DEF CallsOK
  <2>5. \A row \in rows : row.id \in Reports /\ row.id # r
    BY <1>0 DEF RowOK, TypesOK
  <2>6. new.id = r /\ new.key = request[r].key /\ new.scan = request[r].scan
    OBVIOUS
  <2> HIDE DEF new
  <2>7. \A row \in rows' : RowOK(row)'
    BY <1>0, <2>1, <2>2, <2>5, <2>6 DEF RowOK
  <2>8. KeysDiffer'
    BY <1>2, <2>1, <2>6 DEF KeysDiffer, WithKey
  <2>9. \A q \in Reports : request'[q].answer # NoAnswer => AnswerOK(q)'
    <3> SUFFICES ASSUME NEW q \in Reports, request'[q].answer # NoAnswer PROVE AnswerOK(q)'
      OBVIOUS
    <3>1. CASE q = r
      BY <2>1, <2>2, <2>6, <3>1 DEF AnswerOK
    <3>2. CASE q # r
      <4>1. request[q].answer \in Reports /\ AnswerOK(q) /\ request[q].answer # r
        BY <1>0, <2>2, <3>2 DEF TypesOK, Requests, AnswerOK
      <4>2. QED
        BY <2>1, <2>2, <3>2, <4>1 DEF AnswerOK
    <3>3. QED
      BY <3>1, <3>2
  <2>10. QED
    BY <2>3, <2>4, <2>7, <2>8, <2>9
<1>3. QED
  BY <1>1, <1>2

LEMMA RemoveScanKeepsInv ==
  ASSUME ReportsInv, NEW s \in ScanIds, RemoveScan(s)
  PROVE  ReportsInv'
<1> USE DEF ReportsInv, RemoveScan
<1>1. TypesOK'
  BY DEF TypesOK
<1>2. CallsOK' /\ (\A row \in rows' : RowOK(row)') /\ KeysDiffer'
  BY DEF CallsOK, RowOK, KeysDiffer
<1>3. \A q \in Reports : request'[q].answer # NoAnswer => AnswerOK(q)'
  <2> SUFFICES ASSUME NEW q \in Reports, request[q].answer # NoAnswer PROVE AnswerOK(q)'
    OBVIOUS
  <2>1. AnswerOK(q)
    OBVIOUS
  <2>2. ASSUME request[request[q].answer].scan \in scansLeft \ {s}
        PROVE  \E row \in rows' : row.id = request[q].answer
    <3>1. PICK row \in rows : row.id = request[q].answer
      BY <2>1, <2>2 DEF AnswerOK
    <3>2. row.scan # s
      BY <2>2, <3>1 DEF RowOK
    <3>3. QED
      BY <3>1, <3>2
  <2>3. QED
    BY <2>1, <2>2 DEF AnswerOK
<1>4. QED
  BY <1>1, <1>2, <1>3

LEMMA ApiDiesKeepsInv ==
  ASSUME ReportsInv, ApiDies
  PROVE  ReportsInv'
<1> USE DEF ReportsInv, ApiDies
<1>1. \A q \in Reports :
        /\ request'[q].answer = request[q].answer /\ request'[q].key = request[q].key
        /\ request'[q].scan = request[q].scan
        /\ request'[q].pc = IF request[q].pc \in {"rendered", "written"} THEN "died" ELSE request[q].pc
  BY DEF TypesOK, Requests
<1>2. TypesOK'
  <2>1. \A q \in Reports : [request[q] EXCEPT !.pc = "died"] \in Requests
    BY DEF TypesOK, Requests, Steps
  <2>2. QED
    BY <2>1 DEF TypesOK
<1>3. CallsOK'
  BY <1>1 DEF CallsOK
<1>4. \A row \in rows' : RowOK(row)'
  BY <1>1 DEF RowOK, TypesOK
<1>5. KeysDiffer'
  BY DEF KeysDiffer
<1>6. \A q \in Reports : request'[q].answer # NoAnswer => AnswerOK(q)'
  <2> SUFFICES ASSUME NEW q \in Reports, request'[q].answer # NoAnswer PROVE AnswerOK(q)'
    OBVIOUS
  <2>1. request[q].answer \in Reports /\ AnswerOK(q)
    BY <1>1 DEF TypesOK, Requests
  <2>2. QED
    BY <1>1, <2>1 DEF AnswerOK
<1>7. QED
  BY <1>2, <1>3, <1>4, <1>5, <1>6

LEMMA InvInductive ==
  ASSUME ReportsInv, [ReportsNext]_reportVars
  PROVE  ReportsInv'
<1>1. ASSUME NEW r \in Reports, AskReport(r) \/ StartFile(r) \/ FinishFile(r) \/ InsertReport(r)
      PROVE  ReportsInv'
  BY <1>1, AskKeepsInv, FileKeepsInv, InsertKeepsInv
<1>2. ASSUME NEW s \in ScanIds, RemoveScan(s) PROVE ReportsInv'
  BY <1>2, RemoveScanKeepsInv
<1>3. CASE UNCHANGED reportVars
  BY <1>3 DEF reportVars, ReportsInv, TypesOK, CallsOK, RowOK, KeysDiffer, AnswerOK
<1>4. QED
  BY <1>1, <1>2, <1>3, ApiDiesKeepsInv DEF ReportsNext

-----------------------------------------------------------------------------
(* Rows name scans that exist, for every instance. *)
THEOREM ReportTypes == ReportsSpec => []ReportsTypeOK
<1>1. ReportsInv => ReportsTypeOK
  BY DEF ReportsInv, TypesOK, Requests, ReportsTypeOK
<1>2. QED
  BY <1>1, InvInit, InvInductive, PTL DEF ReportsSpec

(* An answered report stands with its complete file until its scan goes,   *)
(* and one key has one report, whatever calls overlap, fail or die         *)
(* (routes.py:1523-1618).                                                  *)
THEOREM AnsweredReportsDownload == ReportsSpec => []AnswersAreDownloadable
  BY InvImpliesDownloadable, InvInit, InvInductive, PTL DEF ReportsSpec
=============================================================================
