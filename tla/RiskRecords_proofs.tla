-------------------------- MODULE RiskRecords_proofs --------------------------
(***************************************************************************)
(* Risk settings, contexts and verdicts, for any number of calls, projects *)
(* and artefacts.                                                          *)
(*                                                                         *)
(* Every step is first shown to be a move of one call (Moves), so that the *)
(* rest of the proof speaks of moves and of the three commits only.  The   *)
(* agreement of a quiet artefact is not inductive: what a call under way   *)
(* has read must still be what is stored (Agreeing), which holds because   *)
(* calls that overlapped once have overlapped for good (OverlapStays) and  *)
(* every verdict can be traced to the call that made it (Traced).          *)
(***************************************************************************)
EXTENDS RiskRecords, WellFoundedInduction, TLAPS

\* The smaller number first: for WFMin, which gives a set of numbers its least.
Below == {p \in Nat \X Nat : p[1] < p[2]}

LEMMA LeastNat ==
  ASSUME NEW S \in SUBSET Nat, S # {}
  PROVE  \E m \in S : \A n \in S : m <= n
<1>1. IsWellFoundedOn(Below, Nat)
  BY NatLessThanWellFounded DEF OpToRel, Below
<1>2. PICK m \in S : \A y \in S : <<y, m>> \notin Below
  BY <1>1, WFMin
<1>3. ASSUME NEW n \in S, ~(m <= n) PROVE FALSE
  <2>1. <<n, m>> \in Below
    BY <1>3 DEF Below
  <2>2. QED
    BY <2>1, <1>2
<1>4. QED
  BY <1>3

-----------------------------------------------------------------------------
Rows == [row : BOOLEAN, value : [Fields -> Nat], sourced : SUBSET Fields]
Reads == Rows \cup UNION {[P -> Rows] : P \in SUBSET Artefacts}
CallRecord ==
  [kind : {"none", "preset", "patch", "ingest"}, pc : {"none", "began", "read", "done", "failed"},
   began : Nat, done : Nat, of : SUBSET (Artefacts \cup Projects), named : SUBSET Fields, value : {0, 1, 2},
   seen : SUBSET (1..MaxCalls),
   read : Reads]
VerdictRecord ==
  [at : Nat, by : {"preset", "patch", "ingest"}, settings : {Default} \cup 1..MaxCalls,
   rates : [Fields -> Nat] \cup {Assumed}]

RecordsTyped ==
  /\ present \in SUBSET Artefacts /\ unratable \in SUBSET Artefacts
  /\ context \in [Artefacts -> Rows]
  /\ active \in SUBSET (1..MaxCalls)
  /\ verdicts \in [Artefacts -> SUBSET VerdictRecord]
  /\ call \in [1..MaxCalls -> CallRecord]
  /\ now \in Nat

\* A row that is not there shows nothing, and rows are of artefacts there are.
RowOf(a) == (context[a].row => a \in present) /\ (~context[a].row => context[a] = NoRow)

\* What a call has read, by kind.
ReadOf(r) ==
  /\ call[r].kind = "none" <=> call[r].pc = "none"
  /\ call[r].kind \in {"patch", "ingest"} =>
       /\ call[r].pc # "began"
       /\ call[r].read \in Rows /\ (~call[r].read.row => call[r].read = NoRow)
       /\ \E a \in Artefacts : call[r].of = {a}
       /\ call[r].kind = "patch" => call[r].of \subseteq present
  /\ call[r].kind = "preset" =>
       \E P \in SUBSET {a \in Artefacts : Home[a] \in call[r].of} : DOMAIN call[r].read = P
            /\ \A a \in P : call[r].read[a] \in Rows

\* Every step has a moment of its own.
Clocked ==
  /\ \A r \in Calls : call[r].began < now /\ call[r].done < now
  /\ \A r \in Calls : call[r].pc = "done" => call[r].began < call[r].done
  /\ \A q, r \in Calls : call[q].began = call[r].began => q = r

\* A version that is active was committed; one that a preset did not see
\* active was committed after it began.
Versions ==
  /\ \A r \in active : call[r].kind = "preset" /\ call[r].pc = "done"
  /\ \A r \in Calls : \A q \in call[r].seen : call[r].kind = "preset" /\ q \in Presets /\ call[q].began < call[r].began
  /\ \A r \in Calls : call[r].kind = "preset" /\ InFlight(r)
       => \A q \in active \ call[r].seen : call[r].began < call[q].done

\* Every verdict is some committed call's on the artefact.
MadeBy(v, a, q) ==
  /\ q \in Calls /\ call[q].pc = "done" /\ call[q].began = v.at /\ Touches(q, a)
  /\ v.by = "preset" => /\ q \in Presets /\ v.settings = q
                        /\ q \in active \/ \E r \in Calls : call[r].kind = "preset" /\ call[q].began < call[r].began
Traced == \A a \in Artefacts : \A v \in verdicts[a] : \E q \in Calls : MadeBy(v, a, q)
OneVerdictEach == \A a \in Artefacts : \A v, w \in verdicts[a] : v.at = w.at => v = w

Quiet(a) == \A q, r \in Calls : Touches(q, a) /\ Touches(r, a) => ~Overlap(q, r)
Rates(v, a) == v.rates = IF v.by = "ingest" /\ ~context[a].row THEN Assumed ELSE context[a].value
Agreeing(a) ==
  /\ \A r \in Calls : call[r].pc = "read" =>
       /\ call[r].kind \in {"patch", "ingest"} /\ a \in call[r].of => call[r].read = context[a]
       /\ call[r].kind = "preset" /\ a \in DOMAIN call[r].read => call[r].read[a] = context[a]
  /\ \A v \in verdicts[a] : (\A w \in verdicts[a] : w.at <= v.at) => Rates(v, a)
  /\ \A f \in Fields : context[a].value[f] # 0 => f \in context[a].sourced

RecordsInv ==
  /\ RecordsTyped /\ (\A a \in Artefacts : RowOf(a)) /\ (\A r \in 1..MaxCalls : ReadOf(r))
  /\ Clocked /\ Versions /\ OnePresetInForce /\ Traced /\ OneVerdictEach
  /\ \A a \in Artefacts : Quiet(a) => Agreeing(a)

-----------------------------------------------------------------------------
\* What every step does to the calls: one call begins or goes on.
Began(r) ==
  /\ r \notin Calls /\ call'[r].kind # "none" /\ call'[r].began = now
  /\ call'[r].pc \in {"began", "read", "failed"} /\ call'[r].done \in {0, now}
  /\ call'[r].pc = "failed" => call'[r].done = now
  /\ call'[r].seen = IF call'[r].kind = "preset" THEN active ELSE {}
  /\ UNCHANGED <<present, context, active, verdicts>>
GoesOn(r) ==
  /\ r \in Calls /\ InFlight(r)
  /\ call'[r].kind = call[r].kind /\ call'[r].began = call[r].began /\ call'[r].of = call[r].of
  /\ call'[r].seen = call[r].seen /\ call'[r].named = call[r].named
  /\ call'[r].pc \in {"read", "done", "failed"}
  /\ call'[r].done = IF call'[r].pc = "read" THEN call[r].done ELSE now
Moves(r) ==
  /\ r \in 1..MaxCalls /\ now' = now + 1
  /\ call' \in [1..MaxCalls -> CallRecord]
  /\ \A q \in 1..MaxCalls \ {r} : call'[q] = call[q]
  /\ Began(r) \/ GoesOn(r)

LEMMA BlankRecord == Blank \in CallRecord
<1>1. << >> \in Reads
  <2>1. << >> \in [{} -> Rows] /\ {} \in SUBSET Artefacts
    OBVIOUS
  <2>2. QED
    BY <2>1 DEF Reads
<1>2. QED
  BY <1>1 DEF Blank, CallRecord

LEMMA BeginMoves ==
  ASSUME RecordsTyped, NEW r \in 1..MaxCalls, NEW first \in CallRecord, Begins(r, first),
         first.kind # "none", first.began = now, first.pc \in {"began", "read", "failed"},
         first.done \in {0, now}, first.pc = "failed" => first.done = now,
         first.seen = IF first.kind = "preset" THEN active ELSE {}
  PROVE  Moves(r) /\ call'[r] = first
<1>1. call \in [1..MaxCalls -> CallRecord]
  BY DEF RecordsTyped
<1>2. /\ r \notin Calls /\ call' = [call EXCEPT ![r] = first] /\ now' = now + 1
      /\ UNCHANGED <<present, unratable, context, active, verdicts>>
  BY DEF Begins, Become, Tick
<1>3. /\ call' \in [1..MaxCalls -> CallRecord] /\ call'[r] = first
      /\ \A q \in 1..MaxCalls \ {r} : call'[q] = call[q]
  BY <1>1, <1>2
<1>4. Began(r)
  BY <1>2, <1>3 DEF Began
<1>5. QED
  BY <1>2, <1>3, <1>4 DEF Moves

LEMMA GoOnMoves ==
  ASSUME RecordsTyped, NEW r \in 1..MaxCalls, call[r].kind # "none", InFlight(r),
         NEW pc \in {"read", "done", "failed"},
         NEW read \in Reads,
         NEW done, done = IF pc = "read" THEN call[r].done ELSE now,
         call' = [call EXCEPT ![r] = [call[r] EXCEPT !.pc = pc, !.done = done, !.read = read]],
         now' = now + 1
  PROVE  Moves(r) /\ call'[r].pc = pc /\ call'[r].read = read /\ call'[r].done = done
<1>1. call \in [1..MaxCalls -> CallRecord] /\ call[r] \in CallRecord /\ now \in Nat
  BY DEF RecordsTyped
<1>2. call[r].done \in Nat
  BY <1>1 DEF CallRecord
<1> DEFINE c == [call[r] EXCEPT !.pc = pc, !.done = done, !.read = read]
<1>3. c \in CallRecord /\ c.pc = pc /\ c.read = read /\ c.done = done /\ c.kind = call[r].kind
      /\ c.began = call[r].began /\ c.of = call[r].of /\ c.seen = call[r].seen /\ c.named = call[r].named
  BY <1>1, <1>2 DEF CallRecord
<1> HIDE DEF c
<1>4. /\ call' \in [1..MaxCalls -> CallRecord] /\ call'[r] = c
      /\ \A q \in 1..MaxCalls \ {r} : call'[q] = call[q]
  BY <1>1, <1>3 DEF c
<1>5. r \in Calls
  BY DEF Calls
<1>6. GoesOn(r)
  BY <1>3, <1>4, <1>5 DEF GoesOn
<1>7. QED
  BY <1>3, <1>4, <1>6 DEF Moves

Quietly == UNCHANGED <<present, unratable, context, active, verdicts>>

\* Each action, as a move.
LEMMA PresetBeginsMoves ==
  ASSUME RecordsTyped, NEW r \in 1..MaxCalls, PresetBegins(r)
  PROVE  Moves(r) /\ Quietly /\ call'[r].kind = "preset" /\ call'[r].pc = "began" /\ call'[r].read = << >>
<1>1. PICK p \in Projects :
        Begins(r, [Blank EXCEPT !.kind = "preset", !.pc = "began", !.began = now, !.of = {p}, !.seen = active])
  BY DEF PresetBegins, VersionsCleared
<1> DEFINE c == [Blank EXCEPT !.kind = "preset", !.pc = "began", !.began = now, !.of = {p}, !.seen = active]
<1>2. now \in Nat /\ active \in SUBSET (1..MaxCalls)
  BY DEF RecordsTyped
<1>3. /\ c \in CallRecord /\ c.kind = "preset" /\ c.pc = "began" /\ c.began = now /\ c.done = 0
      /\ c.seen = active /\ c.read = << >>
  BY <1>2, BlankRecord DEF Blank, CallRecord
<1> HIDE DEF c
<1>4. Begins(r, c)
  BY <1>1 DEF c
<1>5. Quietly
  BY <1>4 DEF Begins, Quietly
<1>6. QED
  BY <1>3, <1>4, <1>5, BeginMoves

LEMMA PatchReadsMoves ==
  ASSUME RecordsTyped, NEW r \in 1..MaxCalls, PatchReads(r)
  PROVE  /\ Moves(r) /\ Quietly /\ call'[r].kind = "patch" /\ call'[r].pc \in {"read", "failed"}
         /\ \E a \in present : call'[r].of = {a} /\ call'[r].read = context[a]
<1>1. PICK a \in present, named \in SUBSET Fields \ {{}}, v \in {1, 2} :
        Begins(r, [Blank EXCEPT !.kind = "patch", !.pc = IF a \in unratable THEN "failed" ELSE "read",
               !.began = now, !.done = IF a \in unratable THEN now ELSE 0, !.of = {a},
               !.named = named, !.value = v, !.read = context[a]])
  BY DEF PatchReads
<1> DEFINE c == [Blank EXCEPT !.kind = "patch", !.pc = IF a \in unratable THEN "failed" ELSE "read",
               !.began = now, !.done = IF a \in unratable THEN now ELSE 0, !.of = {a},
               !.named = named, !.value = v, !.read = context[a]]
<1>2. now \in Nat /\ a \in Artefacts /\ context[a] \in Reads
  BY DEF RecordsTyped, Reads
<1>3. /\ c \in CallRecord /\ c.kind = "patch" /\ c.pc = (IF a \in unratable THEN "failed" ELSE "read") /\ c.began = now
      /\ c.done = (IF a \in unratable THEN now ELSE 0)
      /\ c.seen = {} /\ c.read = context[a] /\ c.of = {a}
  BY <1>2, BlankRecord DEF Blank, CallRecord
<1> HIDE DEF c
<1>4. Begins(r, c)
  BY <1>1 DEF c
<1>5. Quietly
  BY <1>4 DEF Begins, Quietly
<1>6. Moves(r) /\ call'[r] = c
  BY <1>3, <1>4, BeginMoves
<1>7. QED
  BY <1>3, <1>5, <1>6

LEMMA IngestReadsMoves ==
  ASSUME RecordsTyped, NEW r \in 1..MaxCalls, IngestReads(r)
  PROVE  /\ Moves(r) /\ Quietly /\ call'[r].kind = "ingest" /\ call'[r].pc = "read"
         /\ \E a \in Artefacts : call'[r].of = {a} /\ call'[r].read = context[a]
<1>1. PICK a \in Artefacts :
        Begins(r, [Blank EXCEPT !.kind = "ingest", !.pc = "read", !.began = now, !.of = {a}, !.read = context[a]])
  BY DEF IngestReads
<1> DEFINE c == [Blank EXCEPT !.kind = "ingest", !.pc = "read", !.began = now, !.of = {a}, !.read = context[a]]
<1>2. now \in Nat /\ context[a] \in Reads
  BY DEF RecordsTyped, Reads
<1>3. /\ c \in CallRecord /\ c.kind = "ingest" /\ c.pc = "read" /\ c.began = now /\ c.done = 0
      /\ c.seen = {} /\ c.read = context[a] /\ c.of = {a}
  BY <1>2, BlankRecord DEF Blank, CallRecord
<1> HIDE DEF c
<1>4. Begins(r, c)
  BY <1>1 DEF c
<1>5. Quietly
  BY <1>4 DEF Begins, Quietly
<1>6. Moves(r) /\ call'[r] = c
  BY <1>3, <1>4, BeginMoves
<1>7. QED
  BY <1>3, <1>5, <1>6

LEMMA PresetReadsMoves ==
  ASSUME RecordsTyped, NEW r \in 1..MaxCalls, PresetReads(r)
  PROVE  /\ Moves(r) /\ Quietly /\ call[r].kind = "preset" /\ call[r].pc = "began" /\ GoesOn(r)
         /\ call'[r].pc = "read" /\ call'[r].read = [a \in ToRescore(r) |-> context[a]]
<1> DEFINE read == [a \in ToRescore(r) |-> context[a]]
<1>1. ToRescore(r) \in SUBSET Artefacts /\ \A a \in ToRescore(r) : context[a] \in Rows
  BY DEF RecordsTyped, ToRescore
<1>2. read \in Reads
  <2>1. read \in [ToRescore(r) -> Rows]
    BY <1>1
  <2>2. QED
    BY <1>1, <2>1 DEF Reads
<1>3. /\ call[r].kind = "preset" /\ call[r].pc = "began" /\ Quietly /\ now' = now + 1
      /\ call' = [call EXCEPT ![r] = [call[r] EXCEPT !.pc = "read", !.read = read]]
  BY DEF PresetReads, Become, Tick, Quietly
<1> HIDE DEF read
<1>4. call[r] \in CallRecord
  BY DEF RecordsTyped
<1>5. [call[r] EXCEPT !.pc = "read", !.read = read]
        = [call[r] EXCEPT !.pc = "read", !.done = call[r].done, !.read = read]
  BY <1>4 DEF CallRecord
<1>6. InFlight(r)
  BY <1>3 DEF InFlight
<1>7. Moves(r) /\ call'[r].pc = "read" /\ call'[r].read = read
  <2>1. call' = [call EXCEPT ![r] = [call[r] EXCEPT !.pc = "read", !.done = call[r].done, !.read = read]]
    BY <1>3, <1>5
  <2>2. call[r].kind # "none" /\ now' = now + 1
    BY <1>3
  <2>3. "read" \in {"read", "done", "failed"} /\ call[r].done = IF "read" = "read" THEN call[r].done ELSE now
    OBVIOUS
  <2>4. QED
    BY <1>2, <1>6, <2>1, <2>2, <2>3, GoOnMoves
<1>8. GoesOn(r)
  BY <1>3, <1>7 DEF Moves, Began, Calls
<1>9. QED
  BY <1>3, <1>7, <1>8 DEF read

\* A raise and a commit both end the call.
LEMMA EndMoves ==
  ASSUME RecordsTyped, NEW r \in 1..MaxCalls, call[r].kind # "none", InFlight(r),
         NEW pc \in {"done", "failed"}, Become(r, [call[r] EXCEPT !.pc = pc, !.done = now]), Tick
  PROVE  Moves(r) /\ GoesOn(r) /\ call'[r].pc = pc /\ call'[r].read = call[r].read
<1>1. call[r] \in CallRecord /\ call[r].read \in Reads
  BY DEF RecordsTyped, CallRecord
<1>2. call' = [call EXCEPT ![r] = [call[r] EXCEPT !.pc = pc, !.done = now, !.read = call[r].read]]
  <2>1. [call[r] EXCEPT !.pc = pc, !.done = now] = [call[r] EXCEPT !.pc = pc, !.done = now, !.read = call[r].read]
    BY <1>1 DEF CallRecord
  <2>2. QED
    BY <2>1 DEF Become
<1>3. now' = now + 1
  BY DEF Tick
<1>4. pc \in {"read", "done", "failed"} /\ now = IF pc = "read" THEN call[r].done ELSE now
  OBVIOUS
<1>5. Moves(r) /\ call'[r].pc = pc /\ call'[r].read = call[r].read
  BY <1>1, <1>2, <1>3, <1>4, GoOnMoves
<1>6. GoesOn(r)
  BY <1>5 DEF Moves, Began, Calls
<1>7. QED
  BY <1>5, <1>6

LEMMA RaisesMoves ==
  ASSUME RecordsTyped, NEW r \in 1..MaxCalls, PresetRaises(r) \/ PatchRefused(r)
  PROVE  Moves(r) /\ Quietly /\ GoesOn(r) /\ call'[r].pc = "failed" /\ call'[r].read = call[r].read
<1>1. /\ call[r].kind # "none" /\ InFlight(r) /\ Quietly
      /\ Become(r, [call[r] EXCEPT !.pc = "failed", !.done = now]) /\ Tick
  BY DEF PresetRaises, PatchRefused, FailsWith, InFlight, Quietly
<1>2. QED
  BY <1>1, EndMoves

LEMMA CommitsMoves ==
  ASSUME RecordsTyped, NEW r \in 1..MaxCalls, PresetCommits(r) \/ PatchCommits(r) \/ IngestCommits(r)
  PROVE  Moves(r) /\ GoesOn(r) /\ call[r].pc = "read" /\ call'[r].pc = "done" /\ call'[r].read = call[r].read
<1>1. /\ call[r].kind # "none" /\ InFlight(r) /\ call[r].pc = "read"
      /\ Become(r, [call[r] EXCEPT !.pc = "done", !.done = now]) /\ Tick
  BY DEF PresetCommits, PatchCommits, IngestCommits, InFlight
<1>2. QED
  BY <1>1, EndMoves

-----------------------------------------------------------------------------
LEMMA CallsAfter ==
  ASSUME RecordsTyped, NEW r \in 1..MaxCalls, Moves(r)
  PROVE  Calls' = Calls \cup {r}
<1>1. call'[r].kind # "none"
  BY DEF Moves, Began, GoesOn, Calls
<1>2. \A q \in 1..MaxCalls \ {r} : call'[q].kind = call[q].kind
  BY DEF Moves
<1>3. QED
  BY <1>1, <1>2 DEF Calls

LEMMA KeepsClocked ==
  ASSUME RecordsTyped, Clocked, NEW r \in 1..MaxCalls, Moves(r)
  PROVE  Clocked'
<1>1. now \in Nat /\ now' = now + 1 /\ call' \in [1..MaxCalls -> CallRecord] /\ call \in [1..MaxCalls -> CallRecord]
      /\ \A q \in 1..MaxCalls \ {r} : call'[q] = call[q]
  BY DEF RecordsTyped, Moves
<1>2. \A q \in Calls : call[q].began < now /\ call[q].done < now
  BY DEF Clocked
<1>3. \A q \in 1..MaxCalls : call[q].began \in Nat /\ call[q].done \in Nat
  BY <1>1 DEF CallRecord
<1>4. Calls' = Calls \cup {r} /\ Calls \subseteq 1..MaxCalls
  BY CallsAfter DEF Calls
<1>5. /\ call'[r].done \in {0, now} \/ (r \in Calls /\ call'[r].done = call[r].done)
      /\ call'[r].began = IF r \in Calls THEN call[r].began ELSE now
      /\ call'[r].pc = "done" => r \in Calls /\ call'[r].done = now
  BY DEF Moves, Began, GoesOn
<1>6. \A q \in Calls' : call'[q].began < now + 1 /\ call'[q].done < now + 1
  <2>1. call'[r].began < now + 1 /\ call'[r].done < now + 1
    BY <1>1, <1>2, <1>3, <1>5
  <2>2. \A q \in Calls \ {r} : call'[q].began < now + 1 /\ call'[q].done < now + 1
    BY <1>1, <1>2, <1>3, <1>4
  <2>3. QED
    BY <1>4, <2>1, <2>2
<1>7. \A q \in Calls' : call'[q].pc = "done" => call'[q].began < call'[q].done
  <2>1. call'[r].pc = "done" => call'[r].began < call'[r].done
    BY <1>2, <1>5
  <2>2. \A q \in Calls \ {r} : call'[q].pc = "done" => call'[q].began < call'[q].done
    BY <1>1, <1>4 DEF Clocked
  <2>3. QED
    BY <1>4, <2>1, <2>2
<1>8. \A q, s \in Calls' : call'[q].began = call'[s].began => q = s
  <2>1. \A q \in Calls \ {r} : call'[q].began = call[q].began
    BY <1>1, <1>4
  <2>2. \A q \in Calls \ {r} : call'[q].began # call'[r].began
    BY <2>1, <1>2, <1>3, <1>4, <1>5 DEF Clocked
  <2>3. \A q, s \in Calls \ {r} : call'[q].began = call'[s].began => q = s
    BY <2>1 DEF Clocked
  <2>4. QED
    BY <1>4, <2>2, <2>3
<1>9. QED
  BY <1>1, <1>6, <1>7, <1>8 DEF Clocked

\* Calls that overlapped once have overlapped for good.
LEMMA OverlapStays ==
  ASSUME RecordsTyped, Clocked, NEW r \in 1..MaxCalls, Moves(r), NEW q \in Calls, NEW s \in Calls, Overlap(q, s)
  PROVE  Overlap(q, s)'
<1> DEFINE Late(x, y) == InFlight(x) \/ call[y].began < call[x].done
<1>1. ASSUME NEW x \in Calls, NEW y \in Calls, Late(x, y) PROVE Late(x, y)'
  <2>1. /\ \A z \in Calls : call'[z].began = call[z].began
        /\ \A z \in Calls : InFlight(z) => InFlight(z)' \/ call'[z].done = now
        /\ \A z \in Calls : ~InFlight(z) => call'[z].done = call[z].done
    <3>1. \A z \in Calls \ {r} : call'[z] = call[z]
      BY DEF Moves, Calls
    <3>2. r \in Calls => /\ call'[r].began = call[r].began /\ InFlight(r)
                         /\ InFlight(r)' \/ call'[r].done = now
      BY DEF Moves, GoesOn, Began, InFlight
    <3>3. QED
      BY <3>1, <3>2 DEF InFlight
  <2>2. call[y].began < now
    BY DEF Clocked
  <2>3. QED
    BY <1>1, <2>1, <2>2
<1>2. q # s /\ Late(s, q) /\ Late(q, s)
  BY DEF Overlap
<1>3. Late(s, q)' /\ Late(q, s)'
  BY <1>1, <1>2
<1>4. QED
  BY <1>2, <1>3 DEF Overlap

LEMMA QuietBefore ==
  ASSUME RecordsTyped, Clocked, NEW r \in 1..MaxCalls, Moves(r), NEW a, Quiet(a)'
  PROVE  Quiet(a)
<1> SUFFICES ASSUME NEW q \in Calls, NEW s \in Calls, Touches(q, a), Touches(s, a), Overlap(q, s)
             PROVE  FALSE
  BY DEF Quiet
<1>1. \A z \in Calls : call'[z].of = call[z].of
  BY DEF Moves, Began, GoesOn, Calls
<1>2. Touches(q, a)' /\ Touches(s, a)'
  BY <1>1 DEF Touches
<1>3. q \in Calls' /\ s \in Calls'
  BY CallsAfter
<1>4. Overlap(q, s)'
  BY OverlapStays
<1>5. QED
  BY <1>2, <1>3, <1>4 DEF Quiet

\* While an artefact is quiet, a call on it that is under way is the only one
\* and the last to begin.
LEMMA QuietAlone ==
  ASSUME RecordsTyped, Clocked, NEW a, Quiet(a), NEW r \in Calls, InFlight(r), Touches(r, a)
  PROVE  \A q \in Calls : Touches(q, a) /\ q # r =>
           ~InFlight(q) /\ (call[q].pc = "done" => call[q].began < call[r].began)
<1> SUFFICES ASSUME NEW q \in Calls, Touches(q, a), q # r
             PROVE  ~InFlight(q) /\ (call[q].pc = "done" => call[q].began < call[r].began)
  OBVIOUS
<1>1. ~Overlap(q, r)
  BY DEF Quiet
<1>2. ~(InFlight(q) \/ call[r].began < call[q].done)
  BY <1>1 DEF Overlap
<1>3. call[q].began \in Nat /\ call[q].done \in Nat /\ call[r].began \in Nat
  BY DEF RecordsTyped, CallRecord, Calls
<1>4. call[q].pc = "done" => call[q].began < call[q].done
  BY DEF Clocked
<1>5. QED
  BY <1>2, <1>3, <1>4

-----------------------------------------------------------------------------
RowsAndReads == (\A a \in Artefacts : RowOf(a)) /\ \A r \in 1..MaxCalls : ReadOf(r)

LEMMA QuietlyTyped ==
  ASSUME RecordsTyped, NEW r \in 1..MaxCalls, Moves(r), Quietly
  PROVE  RecordsTyped'
  BY DEF RecordsTyped, Moves, Quietly

\* The row a PATCH writes.
LEMMA PatchedRow ==
  ASSUME RecordsTyped, NEW r \in 1..MaxCalls, call[r].read \in Rows, NEW a \in Artefacts
  PROVE  /\ Updated(call[r]) \in Rows /\ Updated(call[r]).row
         /\ ChangedColumns(context[a], call[r]) \in Rows /\ ChangedColumns(context[a], call[r]).row
         /\ RatesOf(call[r]) \in [Fields -> Nat]
<1>1. call[r].named \in SUBSET Fields /\ call[r].value \in Nat /\ context[a] \in Rows
  BY DEF RecordsTyped, CallRecord
<1>2. /\ call[r].read.sourced \in SUBSET Fields /\ call[r].read.value \in [Fields -> Nat]
      /\ context[a].sourced \in SUBSET Fields /\ context[a].value \in [Fields -> Nat]
  BY <1>1 DEF Rows
<1>3. Updated(call[r]) \in Rows /\ Updated(call[r]).row
  BY <1>1, <1>2 DEF Updated, Rows
<1>4. Updated(call[r]).sourced \in SUBSET Fields /\ Updated(call[r]).value \in [Fields -> Nat]
  BY <1>3 DEF Rows
<1>5. ChangedColumns(context[a], call[r]) \in Rows /\ ChangedColumns(context[a], call[r]).row
  BY <1>2, <1>4 DEF ChangedColumns, Rows
<1>6. QED
  BY <1>3, <1>4, <1>5 DEF RatesOf

LEMMA CommitsTyped ==
  ASSUME RecordsTyped, RowsAndReads, NEW r \in 1..MaxCalls, PresetCommits(r) \/ PatchCommits(r) \/ IngestCommits(r)
  PROVE  RecordsTyped'
<1>0. /\ present \in SUBSET Artefacts /\ unratable \in SUBSET Artefacts /\ context \in [Artefacts -> Rows]
      /\ active \in SUBSET (1..MaxCalls) /\ verdicts \in [Artefacts -> SUBSET VerdictRecord] /\ now \in Nat
      /\ call[r].began \in Nat
  BY DEF RecordsTyped, CallRecord
<1>1. Moves(r)
  BY CommitsMoves
<1>2. call' \in [1..MaxCalls -> CallRecord] /\ now' \in Nat
  BY <1>0, <1>1 DEF Moves
<1>3. CASE PresetCommits(r)
  <2>1. active' \in SUBSET (1..MaxCalls) /\ UNCHANGED <<present, unratable, context>>
    BY <1>0, <1>3 DEF PresetCommits
  <2>2. ASSUME NEW a \in Artefacts, a \in DOMAIN call[r].read
        PROVE  Verdict(call[r].began, "preset", r, call[r].read[a].value) \in VerdictRecord
    <3>1. call[r].read[a] \in Rows
      BY <1>3, <2>2 DEF RowsAndReads, ReadOf, PresetCommits
    <3>2. call[r].read[a].value \in [Fields -> Nat]
      BY <3>1 DEF Rows
    <3>3. QED
      BY <3>2, <1>0 DEF Verdict, VerdictRecord
  <2>3. verdicts' = [a \in Artefacts |-> IF a \notin DOMAIN call[r].read THEN verdicts[a]
          ELSE verdicts[a] \cup {Verdict(call[r].began, "preset", r, call[r].read[a].value)}]
    BY <1>3 DEF PresetCommits
  <2>4. verdicts' \in [Artefacts -> SUBSET VerdictRecord]
    BY <1>0, <2>2, <2>3
  <2>5. QED
    BY <1>0, <1>2, <2>1, <2>4 DEF RecordsTyped
<1>4. CASE PatchCommits(r)
  <2>1. PICK a \in call[r].of :
          /\ context[a].row => call[r].read.row
          /\ context' = [context EXCEPT ![a] = IF call[r].read.row THEN ChangedColumns(@, call[r])
                                               ELSE Updated(call[r])]
          /\ verdicts' = [verdicts EXCEPT ![a] = @ \cup {Verdict(call[r].began, "patch", Default, RatesOf(call[r]))}]
    BY <1>4 DEF PatchCommits
  <2>2. a \in Artefacts /\ call[r].read \in Rows
    BY <1>4 DEF PatchCommits, RowsAndReads, ReadOf
  <2>3. context' \in [Artefacts -> Rows]
    BY <2>1, <2>2, <1>0, PatchedRow
  <2>4. Verdict(call[r].began, "patch", Default, RatesOf(call[r])) \in VerdictRecord
    BY <2>2, <1>0, PatchedRow DEF Verdict, VerdictRecord
  <2>5. verdicts' \in [Artefacts -> SUBSET VerdictRecord]
    BY <2>1, <2>2, <2>4, <1>0
  <2>6. UNCHANGED <<present, unratable, active>>
    BY <1>4 DEF PatchCommits
  <2>7. QED
    BY <1>0, <1>2, <2>3, <2>5, <2>6 DEF RecordsTyped
<1>5. CASE IngestCommits(r)
  <2>1. call[r].read \in Rows /\ call[r].of \in SUBSET Artefacts
    BY <1>5 DEF IngestCommits, RowsAndReads, ReadOf
  <2>2. (IF call[r].read.row THEN call[r].read.value ELSE Assumed) \in [Fields -> Nat] \cup {Assumed}
    BY <2>1 DEF Rows
  <2>3. Verdict(call[r].began, "ingest", Default, IF call[r].read.row THEN call[r].read.value ELSE Assumed)
          \in VerdictRecord
    BY <2>2, <1>0 DEF Verdict, VerdictRecord
  <2>4. verdicts' = [a \in Artefacts |->
           IF a \in unratable \/ a \notin call[r].of THEN verdicts[a]
           ELSE verdicts[a] \cup {Verdict(call[r].began, "ingest", Default,
                                          IF call[r].read.row THEN call[r].read.value ELSE Assumed)}]
    BY <1>5 DEF IngestCommits
  <2>5. verdicts' \in [Artefacts -> SUBSET VerdictRecord]
    BY <1>0, <2>3, <2>4
  <2>6. present' \in SUBSET Artefacts /\ UNCHANGED <<unratable, context, active>>
    BY <1>0, <1>5, <2>1 DEF IngestCommits
  <2>7. QED
    BY <1>0, <1>2, <2>5, <2>6 DEF RecordsTyped
<1>6. QED
  BY <1>3, <1>4, <1>5

\* Calls that do not move keep what they have read; artefacts stay.
LEMMA OthersReads ==
  ASSUME RecordsTyped, RowsAndReads, NEW r \in 1..MaxCalls, Moves(r), present \subseteq present'
  PROVE  \A q \in 1..MaxCalls \ {r} : ReadOf(q)'
<1> SUFFICES ASSUME NEW q \in 1..MaxCalls \ {r} PROVE ReadOf(q)'
  OBVIOUS
<1>1. call'[q] = call[q] /\ ReadOf(q)
  BY DEF Moves, RowsAndReads
<1>2. QED
  BY <1>1 DEF ReadOf

\* A call that ends keeps what it has read.
LEMMA EndedRead ==
  ASSUME RecordsTyped, RowsAndReads, NEW r \in 1..MaxCalls, Moves(r), GoesOn(r), present \subseteq present',
         call'[r].read = call[r].read, call'[r].pc \in {"done", "failed"}
  PROVE  ReadOf(r)'
<1>1. ReadOf(r) /\ call'[r].kind = call[r].kind /\ call'[r].of = call[r].of /\ call[r].kind # "none"
  BY DEF RowsAndReads, GoesOn, Calls
<1>2. QED
  BY <1>1 DEF ReadOf

LEMMA KeepsRowsAndReads ==
  ASSUME RecordsTyped, RowsAndReads, NEW r \in 1..MaxCalls,
         \/ PresetBegins(r) \/ PresetReads(r) \/ PresetRaises(r) \/ PresetCommits(r)
         \/ PatchReads(r) \/ PatchCommits(r) \/ PatchRefused(r)
         \/ IngestReads(r) \/ IngestCommits(r)
  PROVE  RowsAndReads'
<1>0. (\A a \in Artefacts : RowOf(a)) /\ ReadOf(r) /\ context \in [Artefacts -> Rows]
  BY DEF RowsAndReads, RecordsTyped
<1>1. ASSUME Quietly PROVE \A a \in Artefacts : RowOf(a)'
  BY <1>0, <1>1 DEF Quietly, RowOf
<1>2. ASSUME Quietly, Moves(r), ReadOf(r)' PROVE RowsAndReads'
  BY <1>1, <1>2, OthersReads DEF RowsAndReads, Quietly
<1>3. CASE PresetBegins(r)
  <2>1. Moves(r) /\ Quietly /\ call'[r].kind = "preset" /\ call'[r].pc = "began" /\ call'[r].read = << >>
    BY <1>3, PresetBeginsMoves
  <2>2. {} \in SUBSET {a \in Artefacts : Home[a] \in call'[r].of} /\ DOMAIN << >> = {}
    OBVIOUS
  <2>3. ReadOf(r)'
    BY <2>1, <2>2 DEF ReadOf
  <2>4. QED
    BY <2>1, <2>3, <1>2
<1>4. CASE PresetReads(r)
  <2>1. /\ Moves(r) /\ Quietly /\ call[r].kind = "preset" /\ GoesOn(r)
        /\ call'[r].pc = "read" /\ call'[r].read = [a \in ToRescore(r) |-> context[a]]
    BY <1>4, PresetReadsMoves
  <2>2. /\ ToRescore(r) \in SUBSET {a \in Artefacts : Home[a] \in call'[r].of}
        /\ DOMAIN call'[r].read = ToRescore(r) /\ \A a \in ToRescore(r) : call'[r].read[a] \in Rows
    BY <2>1, <1>0 DEF RecordsTyped, ToRescore, GoesOn
  <2>3. call'[r].kind = "preset"
    BY <2>1 DEF GoesOn
  <2>4. ReadOf(r)'
    BY <2>1, <2>2, <2>3 DEF ReadOf
  <2>5. QED
    BY <2>1, <2>4, <1>2
<1>5. CASE PresetRaises(r) \/ PatchRefused(r)
  <2>1. Moves(r) /\ Quietly /\ GoesOn(r) /\ call'[r].pc = "failed" /\ call'[r].read = call[r].read
    BY <1>5, RaisesMoves
  <2>2. ReadOf(r)'
    BY <2>1, EndedRead DEF Quietly
  <2>3. QED
    BY <2>1, <2>2, <1>2
<1>6. CASE PatchReads(r)
  <2>1. Moves(r) /\ Quietly /\ call'[r].kind = "patch" /\ call'[r].pc \in {"read", "failed"}
    BY <1>6, PatchReadsMoves
  <2>2. PICK a \in present : call'[r].of = {a} /\ call'[r].read = context[a]
    BY <1>6, PatchReadsMoves
  <2>3. a \in Artefacts /\ context[a] \in Rows /\ (~context[a].row => context[a] = NoRow) /\ present' = present
    BY <2>1, <2>2, <1>0 DEF RecordsTyped, RowOf, Quietly
  <2>4. ReadOf(r)'
    BY <2>1, <2>2, <2>3 DEF ReadOf, NoRow
  <2>5. QED
    BY <2>1, <2>4, <1>2
<1>7. CASE IngestReads(r)
  <2>1. Moves(r) /\ Quietly /\ call'[r].kind = "ingest" /\ call'[r].pc = "read"
    BY <1>7, IngestReadsMoves
  <2>2. PICK a \in Artefacts : call'[r].of = {a} /\ call'[r].read = context[a]
    BY <1>7, IngestReadsMoves
  <2>3. context[a] \in Rows /\ (~context[a].row => context[a] = NoRow)
    BY <1>0 DEF RowOf
  <2>4. ReadOf(r)'
    BY <2>1, <2>2, <2>3 DEF ReadOf, NoRow
  <2>5. QED
    BY <2>1, <2>4, <1>2
<1>8. CASE PresetCommits(r) \/ PatchCommits(r) \/ IngestCommits(r)
  <2>1. Moves(r) /\ GoesOn(r) /\ call[r].pc = "read" /\ call'[r].pc = "done" /\ call'[r].read = call[r].read
    BY <1>8, CommitsMoves
  <2>2. present \subseteq present'
    BY <1>8 DEF PresetCommits, PatchCommits, IngestCommits
  <2>3. \A q \in 1..MaxCalls : ReadOf(q)'
    BY <2>1, <2>2, OthersReads, EndedRead
  <2>4. \A a \in Artefacts : RowOf(a)'
    <3>1. CASE PresetCommits(r) \/ IngestCommits(r)
      BY <3>1, <2>2, <1>0 DEF PresetCommits, IngestCommits, RowOf
    <3>2. CASE PatchCommits(r)
      <4>1. PICK b \in call[r].of :
              context' = [context EXCEPT ![b] = IF call[r].read.row THEN ChangedColumns(@, call[r])
                                                ELSE Updated(call[r])]
        BY <3>2 DEF PatchCommits
      <4>2. b \in Artefacts /\ b \in present /\ call[r].read \in Rows
        BY <3>2, <4>1, <1>0 DEF PatchCommits, ReadOf
      <4>3. context'[b].row /\ \A a \in Artefacts \ {b} : context'[a] = context[a]
        BY <4>1, <4>2, <1>0, PatchedRow
      <4>4. QED
        BY <4>2, <4>3, <2>2, <1>0 DEF RowOf
    <3>3. QED
      BY <1>8, <3>1, <3>2
  <2>5. QED
    BY <2>3, <2>4 DEF RowsAndReads
<1>9. QED
  BY <1>3, <1>4, <1>5, <1>6, <1>7, <1>8

-----------------------------------------------------------------------------
\* Which versions are in force.
LEMMA KeepsVersions ==
  ASSUME RecordsTyped, RowsAndReads, Clocked, Versions, NEW r \in 1..MaxCalls, Moves(r),
         \/ Quietly \/ (GoesOn(r) /\ UNCHANGED active /\ call[r].kind # "preset")
         \/ (GoesOn(r) /\ PresetCommits(r) /\ call'[r].pc = "done")
  PROVE  Versions'
<1>0. /\ active \in SUBSET (1..MaxCalls) /\ now \in Nat /\ Calls' = Calls \cup {r} /\ Calls \subseteq 1..MaxCalls
      /\ \A q \in 1..MaxCalls \ {r} : call'[q] = call[q]
  BY CallsAfter DEF RecordsTyped, Calls, Moves
<1>1. active \subseteq Presets /\ Presets \subseteq Calls
  BY <1>0 DEF Versions, Presets, Calls
<1>2. \A q \in Presets : q \in Presets' /\ call'[q] = call[q] /\ q # r
  BY <1>0 DEF Presets, Moves, Began, GoesOn, InFlight
<1>3. \A q \in Calls : call[q].began < now /\ call[q].done < now
  BY DEF Clocked
<1>4. active' = active \/ (active' = (active \ call[r].seen) \cup {r} /\ r \in Presets' /\ call'[r].done = now)
  <2>1. PresetCommits(r) /\ GoesOn(r) /\ call'[r].pc = "done" => r \in Presets' /\ call'[r].done = now
    BY <1>0 DEF PresetCommits, Presets, GoesOn
  <2>2. QED
    BY <2>1 DEF Quietly, PresetCommits
<1>5. \A q \in active' : call'[q].kind = "preset" /\ call'[q].pc = "done"
  BY <1>1, <1>2, <1>4 DEF Presets
<1>6. \A s \in Calls' : \A q \in call'[s].seen :
        call'[s].kind = "preset" /\ q \in Presets' /\ call'[q].began < call'[s].began
  <2>1. \A s \in Calls \ {r} : \A q \in call'[s].seen :
          call'[s].kind = "preset" /\ q \in Presets' /\ call'[q].began < call'[s].began
    BY <1>0, <1>2 DEF Versions
  <2>2. CASE GoesOn(r)
    <3>1. r \in Calls /\ call'[r].seen = call[r].seen /\ call'[r].kind = call[r].kind /\ call'[r].began = call[r].began
      BY <2>2 DEF GoesOn
    <3>2. QED
      BY <2>1, <3>1, <1>0, <1>2 DEF Versions
  <2>3. CASE Began(r)
    <3>1. call'[r].seen = (IF call'[r].kind = "preset" THEN active ELSE {}) /\ call'[r].began = now
      BY <2>3 DEF Began
    <3>2. QED
      BY <2>1, <3>1, <1>0, <1>1, <1>2, <1>3
  <2>4. QED
    BY <2>2, <2>3 DEF Moves
<1>7. \A s \in Calls' : call'[s].kind = "preset" /\ InFlight(s)' =>
        \A q \in active' \ call'[s].seen : call'[s].began < call'[q].done
  <2> SUFFICES ASSUME NEW s \in Calls', call'[s].kind = "preset", InFlight(s)',
                      NEW q \in active', q \notin call'[s].seen
               PROVE  call'[s].began < call'[q].done
    OBVIOUS
  <2>1. CASE s = r /\ Began(r)
    <3>1. active' = active /\ call'[r].seen = active
      BY <2>1 DEF Began
    <3>2. QED
      BY <2>1, <3>1
  <2>2. CASE s # r \/ GoesOn(r)
    <3>1. /\ s \in Calls /\ call'[s].began = call[s].began /\ call'[s].seen = call[s].seen
          /\ call'[s].kind = call[s].kind /\ InFlight(s)
      BY <2>2, <1>0 DEF GoesOn, InFlight
    <3>2. CASE q \in active
      BY <3>1, <3>2, <1>1, <1>2 DEF Versions
    <3>3. CASE q \notin active
      BY <3>1, <3>3, <1>3, <1>4
    <3>4. QED
      BY <3>2, <3>3
  <2>3. QED
    BY <2>1, <2>2 DEF Moves
<1>8. QED
  BY <1>5, <1>6, <1>7 DEF Versions

LEMMA KeepsOnePreset ==
  ASSUME RecordsTyped, RowsAndReads, Clocked, Versions, OnePresetInForce, NEW r \in 1..MaxCalls, Moves(r),
         \A a \in Artefacts : verdicts[a] \subseteq verdicts'[a],
         \/ (Quietly /\ call'[r].pc # "done") \/ (GoesOn(r) /\ UNCHANGED active /\ call[r].kind # "preset")
         \/ (GoesOn(r) /\ PresetCommits(r) /\ call'[r].pc = "done" /\ call'[r].read = call[r].read)
  PROVE  OnePresetInForce'
<1>0. /\ active \in SUBSET (1..MaxCalls) /\ now \in Nat /\ Calls' = Calls \cup {r} /\ Calls \subseteq 1..MaxCalls
      /\ \A q \in 1..MaxCalls \ {r} : call'[q] = call[q]
  BY CallsAfter DEF RecordsTyped, Calls, Moves
<1>1. active \subseteq Presets /\ Presets \subseteq Calls
  BY <1>0 DEF Versions, Presets, Calls
<1>2. \A q \in Presets : q \in Presets' /\ call'[q] = call[q] /\ q # r
  BY <1>0 DEF Presets, Moves, Began, GoesOn, InFlight
<1>3. \A q \in Calls : call[q].began < now /\ call[q].done < now
  BY DEF Clocked
<1>4. \A s, q \in active : s # q => Overlap(q, s)'
  BY <1>1, OverlapStays DEF OnePresetInForce
<1>5. CASE PresetCommits(r) /\ GoesOn(r) /\ call'[r].pc = "done" /\ call'[r].read = call[r].read
  <2>1. /\ call'[r].done = now /\ call'[r].began = call[r].began
        /\ call[r].kind = "preset" /\ r \in Calls /\ InFlight(r)
        /\ active' = (active \ call[r].seen) \cup {r} /\ ~InFlight(r)'
    BY <1>5 DEF PresetCommits, GoesOn, InFlight
  <2>2. Presets' = Presets \cup {r}
    BY <1>0, <1>2, <1>5 DEF Presets, PresetCommits, GoesOn
  <2>3. ASSUME NEW q \in Presets', \A s \in Presets' : call'[s].done <= call'[q].done PROVE q \in active'
    <3>1. CASE q = r
      BY <3>1, <2>1
    <3>2. CASE q # r
      <4>1. q \in Presets /\ call'[q].done < now /\ call'[q].done \in Nat
        BY <3>2, <2>2, <1>1, <1>2, <1>3 DEF RecordsTyped, CallRecord, Presets, Calls
      <4>2. call'[r].done <= call'[q].done
        BY <2>2, <2>3
      <4>3. QED
        BY <4>1, <4>2, <2>1, <1>0
    <3>3. QED
      BY <3>1, <3>2
  <2>4. ASSUME NEW q \in active \ call[r].seen PROVE Overlap(q, r)' /\ Overlap(r, q)'
    <3>1. call[r].began < call[q].done /\ q # r /\ call'[q] = call[q]
      BY <2>1, <1>1, <1>2 DEF Versions
    <3>2. call[q].began < now
      BY <1>1, <1>3
    <3>3. QED
      BY <3>1, <3>2, <2>1 DEF Overlap
  <2>5. \A s, q \in active' : s # q => Overlap(q, s)'
    BY <2>1, <2>4, <1>4
  <2>6. ASSUME NEW q \in Presets', NEW a \in DOMAIN call'[q].read PROVE \E v \in verdicts'[a] : v.settings = q
    <3>1. CASE q # r
      <4>1. q \in Presets /\ call'[q] = call[q]
        BY <3>1, <2>2, <1>2
      <4>2. a \in Artefacts /\ \E v \in verdicts[a] : v.settings = q
        BY <4>1, <1>0, <1>1 DEF OnePresetInForce, RowsAndReads, ReadOf, Presets
      <4>3. QED
        BY <4>2
    <3>2. CASE q = r
      <4>1. a \in Artefacts /\ a \in DOMAIN call[r].read
        BY <3>2, <2>1, <1>5 DEF RowsAndReads, ReadOf
      <4>2. verdicts'[a] = verdicts[a] \cup {Verdict(call[r].began, "preset", r, call[r].read[a].value)}
        BY <4>1, <1>5 DEF PresetCommits
      <4>3. Verdict(call[r].began, "preset", r, call[r].read[a].value).settings = r
        BY DEF Verdict
      <4>4. QED
        BY <3>2, <4>2, <4>3
    <3>3. QED
      BY <3>1, <3>2
  <2>7. QED
    BY <2>3, <2>5, <2>6 DEF OnePresetInForce
<1>6. CASE active' = active /\ ~(call'[r].kind = "preset" /\ call'[r].pc = "done")
  <2>1. Presets' = Presets
    BY <1>0, <1>2, <1>6 DEF Presets
  <2>2. ASSUME NEW q \in Presets, \A s \in Presets : call'[s].done <= call'[q].done PROVE q \in active
    BY <2>2, <1>2 DEF OnePresetInForce
  <2>3. ASSUME NEW q \in Presets, NEW a \in DOMAIN call'[q].read PROVE \E v \in verdicts'[a] : v.settings = q
    <3>1. a \in DOMAIN call[q].read /\ q \in Calls
      BY <1>1, <1>2
    <3>2. a \in Artefacts /\ \E v \in verdicts[a] : v.settings = q
      BY <3>1, <1>0 DEF OnePresetInForce, RowsAndReads, ReadOf, Presets
    <3>3. QED
      BY <3>2
  <2>4. QED
    BY <2>1, <2>2, <2>3, <1>4, <1>6 DEF OnePresetInForce
<1>7. QED
  <2>1. GoesOn(r) /\ call[r].kind # "preset" => call'[r].kind # "preset"
    BY DEF GoesOn
  <2>2. QED
    BY <1>5, <1>6, <2>1 DEF Quietly

-----------------------------------------------------------------------------
\* What a commit adds to the verdicts of one artefact.
Adds(r, a) ==
  \/ verdicts'[a] = verdicts[a]
  \/ \E v : /\ verdicts'[a] = verdicts[a] \cup {v}
            /\ v.at = call[r].began /\ Touches(r, a)
            /\ v.by = "preset" => call[r].kind = "preset" /\ v.settings = r

LEMMA CommitAdds ==
  ASSUME RecordsTyped, RowsAndReads, NEW r \in 1..MaxCalls,
         PresetCommits(r) \/ PatchCommits(r) \/ IngestCommits(r), NEW a \in Artefacts
  PROVE  Adds(r, a)
<1>1. CASE PresetCommits(r)
  <2> DEFINE v == Verdict(call[r].began, "preset", r, call[r].read[a].value)
  <2>1. verdicts'[a] = IF a \notin DOMAIN call[r].read THEN verdicts[a] ELSE verdicts[a] \cup {v}
    BY <1>1 DEF PresetCommits
  <2>2. v.at = call[r].began /\ v.settings = r
    BY DEF Verdict
  <2>3. call[r].kind = "preset" /\ (a \in DOMAIN call[r].read => Touches(r, a))
    BY <1>1 DEF PresetCommits, RowsAndReads, ReadOf, Touches
  <2> HIDE DEF v
  <2>4. QED
    BY <2>1, <2>2, <2>3 DEF Adds
<1>2. CASE PatchCommits(r)
  <2> DEFINE v == Verdict(call[r].began, "patch", Default, RatesOf(call[r]))
  <2>1. PICK b \in call[r].of : verdicts' = [verdicts EXCEPT ![b] = @ \cup {v}]
    BY <1>2 DEF PatchCommits
  <2>2. v.at = call[r].began /\ v.by = "patch"
    BY DEF Verdict
  <2> HIDE DEF v
  <2>3. verdicts'[a] = IF a = b THEN verdicts[a] \cup {v} ELSE verdicts[a]
    BY <2>1 DEF RecordsTyped
  <2>4. QED
    BY <2>1, <2>2, <2>3 DEF Adds, Touches
<1>3. CASE IngestCommits(r)
  <2> DEFINE v == Verdict(call[r].began, "ingest", Default, IF call[r].read.row THEN call[r].read.value ELSE Assumed)
  <2>1. verdicts'[a] = IF a \in unratable \/ a \notin call[r].of THEN verdicts[a] ELSE verdicts[a] \cup {v}
    BY <1>3 DEF IngestCommits
  <2>2. v.at = call[r].began /\ v.by = "ingest"
    BY DEF Verdict
  <2> HIDE DEF v
  <2>3. QED
    BY <2>1, <2>2 DEF Adds, Touches
<1>4. QED
  BY <1>1, <1>2, <1>3

LEMMA KeepsTraced ==
  ASSUME RecordsTyped, RowsAndReads, Clocked, Versions, Traced, OneVerdictEach, NEW r \in 1..MaxCalls, Moves(r),
         \/ Quietly
         \/ /\ PresetCommits(r) \/ PatchCommits(r) \/ IngestCommits(r)
            /\ GoesOn(r) /\ call'[r].pc = "done"
  PROVE  Traced' /\ OneVerdictEach'
<1>0. /\ Calls' = Calls \cup {r} /\ Calls \subseteq 1..MaxCalls /\ \A q \in 1..MaxCalls \ {r} : call'[q] = call[q]
  BY CallsAfter DEF Calls, Moves
<1>1. ASSUME NEW a \in Artefacts, NEW v \in verdicts[a], NEW q \in Calls, MadeBy(v, a, q)
      PROVE  MadeBy(v, a, q)'
  <2>1. q # r /\ call'[q] = call[q] /\ q \in Calls'
    BY <1>0, <1>1 DEF MadeBy, Moves, Began, GoesOn, InFlight
  <2>2. \A s \in Calls : s \in Calls' /\ call'[s].began = call[s].began /\ call'[s].kind = call[s].kind
    BY <1>0 DEF Moves, Began, GoesOn
  <2>3. v.by = "preset" /\ q \in active => q \in active' \/ \E s \in Calls' : call'[s].kind = "preset"
                                                                      /\ call'[q].began < call'[s].began
    <3>1. CASE active' = active
      BY <3>1
    <3>2. CASE PresetCommits(r) /\ GoesOn(r)
      <4>1. active' = (active \ call[r].seen) \cup {r} /\ r \in Calls /\ call[r].kind = "preset"
        BY <3>2 DEF PresetCommits, GoesOn
      <4>2. q \in call[r].seen => call[q].began < call[r].began
        BY <4>1 DEF Versions
      <4>3. QED
        BY <4>1, <4>2, <2>1, <2>2
    <3>3. QED
      BY <3>1, <3>2 DEF Quietly, PatchCommits, IngestCommits
  <2>4. v.by = "preset" => q \in Presets' /\ v.settings = q
    BY <1>1, <2>1 DEF MadeBy, Presets
  <2>5. v.by = "preset" =>
          q \in active' \/ \E s \in Calls' : call'[s].kind = "preset" /\ call'[q].began < call'[s].began
    BY <1>1, <2>1, <2>2, <2>3 DEF MadeBy
  <2>6. QED
    BY <1>1, <2>1, <2>4, <2>5 DEF MadeBy, Touches
<1>2. CASE Quietly
  <2>1. verdicts' = verdicts
    BY <1>2 DEF Quietly
  <2>2. Traced'
    BY <2>1, <1>0, <1>1 DEF Traced
  <2>3. QED
    BY <2>1, <2>2 DEF OneVerdictEach
<1>3. CASE (PresetCommits(r) \/ PatchCommits(r) \/ IngestCommits(r)) /\ GoesOn(r) /\ call'[r].pc = "done"
  <2>1. /\ r \in Calls /\ call'[r].kind = call[r].kind /\ call'[r].began = call[r].began /\ call'[r].of = call[r].of
        /\ InFlight(r) /\ r \in Calls'
    BY <1>3, <1>0 DEF GoesOn
  <2>2. ASSUME NEW a \in Artefacts
        PROVE  /\ \A v \in verdicts'[a] : \E q \in Calls' : MadeBy(v, a, q)'
               /\ \A v, w \in verdicts'[a] : v.at = w.at => v = w
    <3>1. \A v \in verdicts[a] : \E q \in Calls' : MadeBy(v, a, q)'
      BY <1>0, <1>1 DEF Traced
    <3>2. CASE verdicts'[a] = verdicts[a]
      BY <3>1, <3>2 DEF OneVerdictEach
    <3>3. ASSUME NEW v, verdicts'[a] = verdicts[a] \cup {v}, v.at = call[r].began, Touches(r, a),
                 v.by = "preset" => call[r].kind = "preset" /\ v.settings = r
          PROVE  /\ \A w \in verdicts'[a] : \E q \in Calls' : MadeBy(w, a, q)'
                 /\ \A u, w \in verdicts'[a] : u.at = w.at => u = w
      <4>1. v.by = "preset" => r \in active' /\ r \in Presets'
        <5>1. v.by = "preset" => PresetCommits(r)
          BY <3>3, <1>3 DEF PatchCommits, IngestCommits
        <5>2. QED
          BY <5>1, <3>3, <2>1, <1>3 DEF PresetCommits, Presets
      <4>2. MadeBy(v, a, r)'
        BY <3>3, <4>1, <2>1, <1>3 DEF MadeBy, Touches
      <4>3. ASSUME NEW w \in verdicts[a] PROVE w.at # v.at
        <5>1. PICK q \in Calls : MadeBy(w, a, q)
          BY DEF Traced
        <5>2. q # r /\ call[q].began = w.at
          BY <5>1, <2>1 DEF MadeBy, InFlight
        <5>3. QED
          BY <5>2, <2>1, <3>3 DEF Clocked
      <4>4. QED
        BY <3>1, <3>3, <4>2, <4>3, <2>1 DEF OneVerdictEach
    <3>4. Adds(r, a)
      BY <1>3, CommitAdds
    <3>5. QED
      BY <3>2, <3>3, <3>4 DEF Adds
  <2>3. QED
    BY <2>2 DEF Traced, OneVerdictEach
<1>4. QED
  BY <1>2, <1>3

-----------------------------------------------------------------------------
\* A quiet artefact agrees, whatever the move.
LEMMA QuietlyAgreeing ==
  ASSUME RecordsTyped, Clocked, NEW r \in 1..MaxCalls, Moves(r), Quietly, NEW a \in Artefacts, Agreeing(a),
         \/ call'[r].pc # "read"
         \/ call'[r].kind = "preset" /\ call'[r].read = [x \in ToRescore(r) |-> context[x]]
         \/ call'[r].kind # "preset" /\ \E x \in Artefacts : call'[r].of = {x} /\ call'[r].read = context[x]
  PROVE  Agreeing(a)'
<1>1. /\ context' = context /\ verdicts' = verdicts
      /\ Calls' = Calls \cup {r} /\ Calls \subseteq 1..MaxCalls /\ \A q \in 1..MaxCalls \ {r} : call'[q] = call[q]
  BY CallsAfter DEF Calls, Moves, Quietly
<1>2. ASSUME NEW q \in Calls', call'[q].pc = "read"
      PROVE  /\ call'[q].kind \in {"patch", "ingest"} /\ a \in call'[q].of => call'[q].read = context[a]
             /\ call'[q].kind = "preset" /\ a \in DOMAIN call'[q].read => call'[q].read[a] = context[a]
  <2>1. CASE q # r
    BY <2>1, <1>1, <1>2 DEF Agreeing
  <2>2. CASE q = r
    BY <2>2, <1>2
  <2>3. QED
    BY <2>1, <2>2
<1>3. \A v \in verdicts[a] : Rates(v, a)' <=> Rates(v, a)
  BY <1>1 DEF Rates
<1>4. QED
  BY <1>1, <1>2, <1>3 DEF Agreeing

\* What one commit makes of an artefact it is the only call on.
LEMMA CommitAgreeing ==
  ASSUME RecordsTyped, RowsAndReads, Clocked, Traced, NEW r \in 1..MaxCalls, Moves(r), GoesOn(r),
         PresetCommits(r) \/ PatchCommits(r) \/ IngestCommits(r), call[r].pc = "read", call'[r].pc = "done",
         NEW a \in Artefacts, Quiet(a), Agreeing(a)
  PROVE  Agreeing(a)'
<1>0. /\ Calls' = Calls \cup {r} /\ Calls \subseteq 1..MaxCalls /\ \A q \in 1..MaxCalls \ {r} : call'[q] = call[q]
      /\ r \in Calls /\ InFlight(r) /\ call[r].kind # "none"
      /\ context \in [Artefacts -> Rows] /\ context[a] \in Rows
  BY CallsAfter DEF Calls, Moves, GoesOn, RecordsTyped
<1>touches. a \in call[r].of \/ (a \in DOMAIN call[r].read /\ call[r].kind = "preset") => Touches(r, a)
  BY DEF Touches, RowsAndReads, ReadOf
<1>1. ASSUME Touches(r, a), NEW q \in Calls, q # r, Touches(q, a)
      PROVE  ~InFlight(q) /\ (call[q].pc = "done" => call[q].began < call[r].began)
  BY <1>0, <1>1, QuietAlone
\* Whatever others have read of the artefact stays what it is.
<1>2. ASSUME NEW q \in Calls', call'[q].pc = "read", context'[a] = context[a] \/ a \in call[r].of
      PROVE  /\ call'[q].kind \in {"patch", "ingest"} /\ a \in call'[q].of => call'[q].read = context'[a]
             /\ call'[q].kind = "preset" /\ a \in DOMAIN call'[q].read => call'[q].read[a] = context'[a]
  <2>1. q # r /\ q \in Calls /\ call'[q] = call[q] /\ InFlight(q)
    BY <1>0, <1>2 DEF InFlight
  <2>2. CASE a \in call[r].of
    <3>1. ~Touches(q, a)
      BY <2>1, <2>2, <1>1, <1>touches
    <3>2. QED
      BY <3>1, <2>1, <1>0 DEF Touches, RowsAndReads, ReadOf
  <2>3. CASE context'[a] = context[a]
    BY <2>1, <2>3, <1>2 DEF Agreeing
  <2>4. QED
    BY <2>2, <2>3, <1>2
\* The new verdict is the newest.
<1>3. ASSUME NEW v, verdicts'[a] = verdicts[a] \cup {v}, v.at = call[r].began, Rates(v, a)',
             Touches(r, a)
      PROVE  \A u \in verdicts'[a] : (\A w \in verdicts'[a] : w.at <= u.at) => Rates(u, a)'
  <2>1. ASSUME NEW u \in verdicts[a] PROVE ~(v.at <= u.at)
    <3>1. PICK q \in Calls : MadeBy(u, a, q)
      BY DEF Traced
    <3>2. q # r /\ call[q].pc = "done" /\ Touches(q, a) /\ call[q].began = u.at
      BY <3>1, <1>0 DEF MadeBy, InFlight
    <3>3. call[q].began < call[r].began
      BY <3>2, <1>1, <1>3
    <3>4. call[q].began \in Nat /\ call[r].began \in Nat
      BY <1>0 DEF RecordsTyped, CallRecord
    <3>5. QED
      BY <3>2, <3>3, <3>4, <1>3
  <2>2. QED
    BY <2>1, <1>3
<1>4. CASE PresetCommits(r)
  <2>1. context' = context /\ call[r].kind = "preset"
    BY <1>4 DEF PresetCommits
  <2>2. \A v : Rates(v, a)' <=> Rates(v, a)
    BY <2>1 DEF Rates
  <2>0. PICK v : v = Verdict(call[r].began, "preset", r, call[r].read[a].value)
    OBVIOUS
  <2>3. verdicts'[a] = IF a \notin DOMAIN call[r].read THEN verdicts[a] ELSE verdicts[a] \cup {v}
    BY <2>0, <1>4 DEF PresetCommits
  <2>4. \A u \in verdicts'[a] : (\A w \in verdicts'[a] : w.at <= u.at) => Rates(u, a)'
    <3>1. CASE a \notin DOMAIN call[r].read
      BY <3>1, <2>2, <2>3 DEF Agreeing
    <3>2. CASE a \in DOMAIN call[r].read
      <4>1. call[r].read[a] = context[a]
        BY <3>2, <2>1, <1>0 DEF Agreeing
      <4>2. v.at = call[r].began /\ v.by = "preset" /\ v.rates = context[a].value
        BY <2>0, <4>1 DEF Verdict
      <4>3. Rates(v, a)
        BY <4>2 DEF Rates
      <4>4. QED
        BY <4>2, <4>3, <3>2, <2>1, <2>2, <2>3, <1>3, <1>touches
    <3>3. QED
      BY <3>1, <3>2
  <2>5. QED
    BY <2>1, <2>4, <1>2 DEF Agreeing
<1>5. CASE PatchCommits(r)
  <2>0. PICK v : v = Verdict(call[r].began, "patch", Default, RatesOf(call[r]))
    OBVIOUS
  <2>1. PICK b \in call[r].of :
          /\ context[b].row => call[r].read.row
          /\ context' = [context EXCEPT ![b] = IF call[r].read.row THEN ChangedColumns(@, call[r])
                                               ELSE Updated(call[r])]
          /\ verdicts' = [verdicts EXCEPT ![b] = @ \cup {v}]
    BY <2>0, <1>5 DEF PatchCommits
  <2>2. call[r].kind = "patch" /\ call[r].read \in Rows /\ call[r].of = {b} /\ b \in Artefacts
    BY <2>1, <1>5 DEF PatchCommits, RowsAndReads, ReadOf
  <2>3. CASE a # b
    <3>1. context'[a] = context[a] /\ verdicts'[a] = verdicts[a]
      BY <2>1, <2>2, <2>3, <1>0 DEF RecordsTyped
    <3>2. \A u : Rates(u, a)' <=> Rates(u, a)
      BY <3>1 DEF Rates
    <3>3. QED
      BY <3>1, <3>2, <1>2 DEF Agreeing
  <2>4. CASE a = b
    <3>1. call[r].read = context[a] /\ a \in call[r].of
      BY <2>2, <2>4, <1>0 DEF Agreeing
    <3>2. context'[a] = (IF call[r].read.row THEN ChangedColumns(context[a], call[r]) ELSE Updated(call[r]))
          /\ verdicts'[a] = verdicts[a] \cup {v}
      BY <2>1, <2>4, <1>0 DEF RecordsTyped
    <3>3. /\ context[a].value \in [Fields -> Nat] /\ context[a].sourced \subseteq Fields
          /\ Updated(call[r]).value \in [Fields -> Nat]
      BY <2>2, <1>0, PatchedRow DEF Rows, RatesOf
    <3>4. context'[a].value = Updated(call[r]).value
      <4>1. ChangedColumns(context[a], call[r]).value = Updated(call[r]).value
        BY <3>1, <3>3 DEF ChangedColumns
      <4>2. QED
        BY <3>2, <4>1
    <3>5. context'[a].sourced = Updated(call[r]).sourced
      <4>1. ChangedColumns(context[a], call[r]).sourced = Updated(call[r]).sourced
        BY <3>1 DEF ChangedColumns
      <4>2. QED
        BY <3>2, <4>1
    <3>6. v.at = call[r].began /\ v.by = "patch" /\ v.rates = Updated(call[r]).value
      BY <2>0 DEF Verdict, RatesOf
    <3>7. \A f \in Fields : context'[a].value[f] # 0 => f \in context'[a].sourced
      <4>1. \A f \in Fields : context[a].value[f] # 0 => f \in context[a].sourced
        BY DEF Agreeing
      <4>2. \A f \in Fields : Updated(call[r]).value[f] # 0 => f \in Updated(call[r]).sourced
        BY <3>1, <4>1 DEF Updated
      <4>3. QED
        BY <3>4, <3>5, <4>2
    <3>8. Rates(v, a)'
      BY <3>4, <3>6 DEF Rates
    <3>9. \A u \in verdicts'[a] : (\A w \in verdicts'[a] : w.at <= u.at) => Rates(u, a)'
      BY <3>1, <3>2, <3>6, <3>8, <1>3, <1>touches
    <3>10. QED
      BY <3>1, <3>7, <3>9, <1>2 DEF Agreeing
  <2>5. QED
    BY <2>3, <2>4
<1>6. CASE IngestCommits(r)
  <2>0. PICK v : v = Verdict(call[r].began, "ingest", Default,
                             IF call[r].read.row THEN call[r].read.value ELSE Assumed)
    OBVIOUS
  <2>1. context' = context /\ call[r].kind = "ingest"
    BY <1>6 DEF IngestCommits
  <2>2. \A u : Rates(u, a)' <=> Rates(u, a)
    BY <2>1 DEF Rates
  <2>3. verdicts'[a] = IF a \in unratable \/ a \notin call[r].of THEN verdicts[a] ELSE verdicts[a] \cup {v}
    BY <2>0, <1>6 DEF IngestCommits
  <2>4. \A u \in verdicts'[a] : (\A w \in verdicts'[a] : w.at <= u.at) => Rates(u, a)'
    <3>1. CASE a \in unratable \/ a \notin call[r].of
      BY <3>1, <2>2, <2>3 DEF Agreeing
    <3>2. CASE ~(a \in unratable \/ a \notin call[r].of)
      <4>1. call[r].read = context[a]
        BY <3>2, <2>1, <1>0 DEF Agreeing
      <4>2. /\ v.at = call[r].began /\ v.by = "ingest"
            /\ v.rates = IF context[a].row THEN context[a].value ELSE Assumed
        BY <2>0, <4>1 DEF Verdict
      <4>3. Rates(v, a)
        BY <4>2 DEF Rates
      <4>4. QED
        BY <4>2, <4>3, <3>2, <2>2, <2>3, <1>3, <1>touches
    <3>3. QED
      BY <3>1, <3>2
  <2>5. QED
    BY <2>1, <2>4, <1>2 DEF Agreeing
<1>7. QED
  BY <1>4, <1>5, <1>6

-----------------------------------------------------------------------------
LEMMA RecordsInvInit == RecordsInit => RecordsInv
<1> SUFFICES ASSUME RecordsInit PROVE RecordsInv
  OBVIOUS
<1>1. NoRow \in Rows
  BY DEF NoRow, Rows
<1>2. RecordsTyped
  BY <1>1, BlankRecord DEF RecordsInit, RecordsTyped
<1>3. Calls = {}
  BY DEF RecordsInit, Calls, Blank
<1>4. \A a \in Artefacts : RowOf(a)
  BY DEF RecordsInit, RowOf, NoRow
<1>5. \A r \in 1..MaxCalls : ReadOf(r)
  BY DEF RecordsInit, ReadOf, Blank
<1>6. Clocked /\ Versions /\ OnePresetInForce /\ Traced /\ OneVerdictEach
  BY <1>3 DEF RecordsInit, Clocked, Versions, OnePresetInForce, Presets, Traced, OneVerdictEach
<1>7. \A a \in Artefacts : Agreeing(a)
  BY <1>3 DEF RecordsInit, Agreeing, NoRow
<1>8. QED
  BY <1>2, <1>4, <1>5, <1>6, <1>7 DEF RecordsInv

LEMMA RecordsInvStep == RecordsInv /\ [RecordsNext]_recordVars => RecordsInv'
<1> SUFFICES ASSUME RecordsInv, [RecordsNext]_recordVars PROVE RecordsInv'
  OBVIOUS
<1>0. /\ RecordsTyped /\ RowsAndReads /\ Clocked /\ Versions /\ OnePresetInForce /\ Traced /\ OneVerdictEach
      /\ \A a \in Artefacts : Quiet(a) => Agreeing(a)
  BY DEF RecordsInv, RowsAndReads
\* All but the agreement, for a step that moves.
<1>1. ASSUME NEW r \in 1..MaxCalls, Moves(r), RecordsTyped', RowsAndReads',
             \A a \in Artefacts : verdicts[a] \subseteq verdicts'[a],
             \/ Quietly /\ call'[r].pc # "done"
             \/ /\ PresetCommits(r) \/ PatchCommits(r) \/ IngestCommits(r)
                /\ GoesOn(r) /\ call'[r].pc = "done" /\ call'[r].read = call[r].read,
             \A a \in Artefacts : Quiet(a)' => Agreeing(a)'
      PROVE  RecordsInv'
  <2>1. PatchCommits(r) \/ IngestCommits(r) => UNCHANGED active /\ call[r].kind # "preset"
    BY DEF PatchCommits, IngestCommits
  <2>2. Clocked'
    BY <1>0, <1>1, KeepsClocked
  <2>3. Versions'
    BY <1>0, <1>1, <2>1, KeepsVersions
  <2>4. OnePresetInForce'
    BY <1>0, <1>1, <2>1, KeepsOnePreset
  <2>5. Traced' /\ OneVerdictEach'
    BY <1>0, <1>1, KeepsTraced
  <2>6. QED
    BY <1>1, <2>2, <2>3, <2>4, <2>5 DEF RecordsInv, RowsAndReads
<1>2. ASSUME NEW r \in 1..MaxCalls, Moves(r), Quietly, RowsAndReads', call'[r].pc # "done",
             \/ call'[r].pc # "read"
             \/ call'[r].kind = "preset" /\ call'[r].read = [x \in ToRescore(r) |-> context[x]]
             \/ call'[r].kind # "preset" /\ \E x \in Artefacts : call'[r].of = {x} /\ call'[r].read = context[x]
      PROVE  RecordsInv'
  <2>1. RecordsTyped'
    BY <1>0, <1>2, QuietlyTyped
  <2>2. \A a \in Artefacts : Quiet(a)' => Agreeing(a)'
    BY <1>0, <1>2, QuietBefore, QuietlyAgreeing
  <2>3. \A a \in Artefacts : verdicts[a] \subseteq verdicts'[a]
    BY <1>2 DEF Quietly
  <2>4. QED
    BY <1>1, <1>2, <2>1, <2>2, <2>3
<1>3. ASSUME NEW r \in 1..MaxCalls, PresetBegins(r) PROVE RecordsInv'
  BY <1>0, <1>2, <1>3, PresetBeginsMoves, KeepsRowsAndReads
<1>4. ASSUME NEW r \in 1..MaxCalls, PresetReads(r) PROVE RecordsInv'
  <2>1. call'[r].kind = "preset"
    BY <1>0, <1>4, PresetReadsMoves DEF GoesOn
  <2>2. QED
    BY <1>0, <1>2, <1>4, <2>1, PresetReadsMoves, KeepsRowsAndReads
<1>5. ASSUME NEW r \in 1..MaxCalls, PresetRaises(r) \/ PatchRefused(r) PROVE RecordsInv'
  BY <1>0, <1>2, <1>5, RaisesMoves, KeepsRowsAndReads
<1>6. ASSUME NEW r \in 1..MaxCalls, PatchReads(r) PROVE RecordsInv'
  <2>1. \E x \in Artefacts : call'[r].of = {x} /\ call'[r].read = context[x]
    BY <1>0, <1>6, PatchReadsMoves DEF RecordsTyped
  <2>2. QED
    BY <1>0, <1>2, <1>6, <2>1, PatchReadsMoves, KeepsRowsAndReads
<1>7. ASSUME NEW r \in 1..MaxCalls, IngestReads(r) PROVE RecordsInv'
  BY <1>0, <1>2, <1>7, IngestReadsMoves, KeepsRowsAndReads
<1>8. ASSUME NEW r \in 1..MaxCalls, PresetCommits(r) \/ PatchCommits(r) \/ IngestCommits(r) PROVE RecordsInv'
  <2>1. Moves(r) /\ GoesOn(r) /\ call[r].pc = "read" /\ call'[r].pc = "done" /\ call'[r].read = call[r].read
    BY <1>0, <1>8, CommitsMoves
  <2>2. RecordsTyped' /\ RowsAndReads'
    BY <1>0, <1>8, CommitsTyped, KeepsRowsAndReads
  <2>3. \A a \in Artefacts : verdicts[a] \subseteq verdicts'[a]
    BY <1>0, <1>8, CommitAdds DEF Adds
  <2>4. \A a \in Artefacts : Quiet(a)' => Agreeing(a)'
    BY <1>0, <1>8, <2>1, QuietBefore, CommitAgreeing
  <2>5. QED
    BY <1>1, <1>8, <2>1, <2>2, <2>3, <2>4
<1>9. CASE UNCHANGED recordVars
  BY <1>9 DEF recordVars, RecordsInv, RecordsTyped, RowOf, ReadOf, Clocked, Versions, OnePresetInForce, Traced,
              OneVerdictEach, Quiet, Agreeing, Rates, MadeBy, Presets, Overlap, Touches, InFlight, Calls
<1>10. QED
  BY <1>3, <1>4, <1>5, <1>6, <1>7, <1>8, <1>9 DEF RecordsNext

-----------------------------------------------------------------------------
\* There is a newest verdict, of those there are.
LEMMA NewestIs ==
  ASSUME RecordsTyped, Clocked, Traced, NEW a \in Artefacts, verdicts[a] # {}
  PROVE  Newest(a) \in verdicts[a] /\ \A w \in verdicts[a] : w.at <= Newest(a).at
<1> DEFINE S == {now - v.at : v \in verdicts[a]}
<1>1. ASSUME NEW v \in verdicts[a] PROVE v.at \in Nat /\ v.at < now
  <2>1. PICK q \in Calls : call[q].began = v.at
    BY DEF Traced, MadeBy
  <2>2. QED
    BY <2>1 DEF Clocked, RecordsTyped, CallRecord, Calls
<1>2. now \in Nat
  BY DEF RecordsTyped
<1>3. S \in SUBSET Nat /\ S # {}
  BY <1>1, <1>2
<1>4. PICK m \in S : \A n \in S : m <= n
  BY <1>3, LeastNat
<1>5. PICK v \in verdicts[a] : m = now - v.at
  BY <1>4
<1>6. ASSUME NEW w \in verdicts[a] PROVE w.at <= v.at
  <2>1. now - v.at <= now - w.at
    BY <1>4, <1>5
  <2>2. v.at \in Nat /\ w.at \in Nat
    BY <1>1
  <2>3. QED
    BY <2>1, <2>2, <1>2
<1>7. QED
  BY <1>6 DEF Newest

(* Rows, versions, verdicts and calls keep their types, and no two verdicts *)
(* of an artefact have one moment.                                          *)
THEOREM RecordsKeepTheirTypes == RecordsSpec => []RecordsTypeOK
<1>1. RecordsInv => RecordsTypeOK
  <2> SUFFICES ASSUME RecordsInv PROVE RecordsTypeOK
    OBVIOUS
  <2>1. RecordsTyped /\ Versions /\ OneVerdictEach /\ (\A a \in Artefacts : RowOf(a))
        /\ \A r \in 1..MaxCalls : ReadOf(r)
    BY DEF RecordsInv
  <2>2. active \subseteq Calls
    BY <2>1 DEF Versions, Calls, RecordsTyped
  <2>3. \A r \in Calls : call[r].pc \in {"began", "read", "done", "failed"}
    BY <2>1 DEF Calls, ReadOf, RecordsTyped, CallRecord
  <2>4. \A a \in Artefacts : context[a].sourced \subseteq Fields /\ (context[a].row => a \in present)
    BY <2>1 DEF RecordsTyped, Rows, RowOf
  <2>5. QED
    BY <2>1, <2>2, <2>3, <2>4 DEF RecordsTyped, OneVerdictEach, RecordsTypeOK
<1>2. QED
  BY <1>1, RecordsInvInit, RecordsInvStep, PTL DEF RecordsSpec

(* For any number of overlapping presets, PATCHes and ingestions: the last *)
(* preset to commit is in force, two versions are active only when their   *)
(* presets overlapped, and a version that is committed has its verdicts.   *)
THEOREM PresetInForce == RecordsSpec => []OnePresetInForce
<1>1. RecordsInv => OnePresetInForce
  BY DEF RecordsInv
<1>2. QED
  BY <1>1, RecordsInvInit, RecordsInvStep, PTL DEF RecordsSpec

(* An artefact that no two overlapping calls touched agrees with itself,   *)
(* whatever happened to the others.                                        *)
THEOREM QuietRecords == RecordsSpec => []QuietRecordsAgree
<1>1. RecordsInv => QuietRecordsAgree
  <2> SUFFICES ASSUME RecordsInv, NEW a \in present, Quiet(a)
               PROVE  /\ verdicts[a] # {} =>
                           /\ Newest(a).rates = IF Newest(a).by = "ingest" /\ ~context[a].row THEN Assumed
                                                ELSE context[a].value
                           /\ Newest(a).by = "preset" => Newest(a).settings \in active
                                \/ \E r \in Calls : call[r].kind = "preset" /\ call[r].began > Newest(a).at
                      /\ \A f \in Fields : context[a].value[f] # 0 => f \in context[a].sourced
    BY DEF QuietRecordsAgree, Quiet
  <2>1. RecordsTyped /\ Clocked /\ Traced /\ a \in Artefacts /\ Agreeing(a)
    BY DEF RecordsInv, RecordsTyped
  <2>2. ASSUME verdicts[a] # {}
        PROVE  /\ Newest(a).rates = IF Newest(a).by = "ingest" /\ ~context[a].row THEN Assumed ELSE context[a].value
               /\ Newest(a).by = "preset" => Newest(a).settings \in active
                    \/ \E r \in Calls : call[r].kind = "preset" /\ call[r].began > Newest(a).at
    <3>1. PICK v : v = Newest(a)
      OBVIOUS
    <3>2. v \in verdicts[a] /\ \A w \in verdicts[a] : w.at <= v.at
      BY <2>1, <2>2, <3>1, NewestIs
    <3>3. Rates(v, a)
      BY <2>1, <3>2 DEF Agreeing
    <3>4. PICK q \in Calls : MadeBy(v, a, q)
      BY <2>1, <3>2 DEF Traced
    <3>5. v.by = "preset" => v.settings \in active \/ \E r \in Calls : call[r].kind = "preset" /\ v.at < call[r].began
      BY <3>4 DEF MadeBy
    <3>6. v.at \in Nat /\ \A r \in Calls : call[r].began \in Nat
      BY <2>1, <3>4 DEF MadeBy, RecordsTyped, CallRecord, Calls
    <3>7. v.by = "preset" => v.settings \in active \/ \E r \in Calls : call[r].kind = "preset" /\ call[r].began > v.at
      BY <3>5, <3>6
    <3>8. QED
      BY <3>1, <3>3, <3>7 DEF Rates
  <2>3. QED
    BY <2>1, <2>2 DEF Agreeing
<1>2. QED
  BY <1>1, RecordsInvInit, RecordsInvStep, PTL DEF RecordsSpec

(* No call changes a field of a context that its PATCH did not name, also  *)
(* when it works on a row that another call has changed since.             *)
THEOREM OnlyNamedFields == RecordsSpec => NamedFieldsOnly
<1> DEFINE Named == \A a \in Artefacts, f \in Fields : context'[a].value[f] # context[a].value[f] =>
                      \E r \in Calls : InFlight(r) /\ call[r].of = {a} /\ f \in call[r].named
<1>1. RecordsInv /\ [RecordsNext]_recordVars => [Named]_recordVars
  <2> SUFFICES ASSUME RecordsInv, RecordsNext, NEW a \in Artefacts, NEW f \in Fields,
                      context'[a].value[f] # context[a].value[f]
               PROVE  \E r \in Calls : InFlight(r) /\ call[r].of = {a} /\ f \in call[r].named
    BY Zenon DEF Named
  <2>0. RecordsTyped /\ RowsAndReads /\ RowOf(a)
    BY DEF RecordsInv, RowsAndReads
  <2>1. PICK r \in 1..MaxCalls : PatchCommits(r)
    <3>1. PICK r \in 1..MaxCalls :
            \/ PresetBegins(r) \/ PresetReads(r) \/ PresetRaises(r) \/ PresetCommits(r)
            \/ PatchReads(r) \/ PatchCommits(r) \/ PatchRefused(r)
            \/ IngestReads(r) \/ IngestCommits(r)
      BY DEF RecordsNext
    <3>2. context' # context
      OBVIOUS
    <3>3. CASE PresetBegins(r) \/ PatchReads(r) \/ IngestReads(r)
      BY <3>2, <3>3, <2>0, PresetBeginsMoves, PatchReadsMoves, IngestReadsMoves DEF Quietly
    <3>4. CASE PresetReads(r) \/ PresetRaises(r) \/ PatchRefused(r)
      BY <3>2, <3>4, <2>0, PresetReadsMoves, RaisesMoves DEF Quietly
    <3>5. CASE PresetCommits(r) \/ IngestCommits(r)
      BY <3>2, <3>5 DEF PresetCommits, IngestCommits
    <3>6. QED
      BY <3>1, <3>3, <3>4, <3>5
  <2>2. PICK b \in call[r].of :
          /\ context[b].row => call[r].read.row
          /\ context' = [context EXCEPT ![b] = IF call[r].read.row THEN ChangedColumns(@, call[r])
                                               ELSE Updated(call[r])]
    BY <2>1 DEF PatchCommits
  <2>3. /\ call[r].of = {b} /\ b \in Artefacts /\ r \in Calls /\ InFlight(r)
        /\ call[r].read \in Rows /\ (~call[r].read.row => call[r].read = NoRow)
    BY <2>0, <2>1, <2>2 DEF PatchCommits, RowsAndReads, ReadOf, Calls, InFlight
  <2>4. a = b /\ context'[a] = IF call[r].read.row THEN ChangedColumns(context[a], call[r]) ELSE Updated(call[r])
    BY <2>0, <2>2, <2>3 DEF RecordsTyped
  <2>5. CASE call[r].read.row
    BY <2>3, <2>4, <2>5 DEF ChangedColumns, Updated
  <2>6. CASE ~call[r].read.row
    <3>1. context[a] = NoRow /\ call[r].read = NoRow
      BY <2>0, <2>2, <2>3, <2>4, <2>6 DEF RowOf
    <3>2. QED
      BY <2>3, <2>4, <2>6, <3>1 DEF Updated, NoRow
  <2>7. QED
    BY <2>5, <2>6
<1>2. QED
  BY <1>1, RecordsInvInit, RecordsInvStep, PTL DEF RecordsSpec, NamedFieldsOnly
=============================================================================
