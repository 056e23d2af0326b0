----------------------- MODULE DependencyGraph_proofs -----------------------
(***************************************************************************)
(* What the two walks of the dependency graph promise, for any artefacts   *)
(* and any edges between them.                                             *)
(*                                                                         *)
(* Migration waves: that a prerequisite's wave is final when it is read    *)
(* needs the artefacts on the call stack to be distinct and without a      *)
(* wave; that the largest wave exists, and so that the next one is above   *)
(* it, needs the waves to be bounded: by the number of artefacts that have *)
(* one.  That the planner raises exactly for cycles needs the stack to be  *)
(* a chain of artefacts each of which is needed by all below it.           *)
(*                                                                         *)
(* Inherited criticality: that the highest value has arrived when the      *)
(* queue is empty needs to know, at every moment and for every edge, that  *)
(* it has arrived there or is announced in the queue or being offered      *)
(* (Flowing).                                                              *)
(***************************************************************************)
EXTENDS MigrationWaves, ContextInheritance, FiniteSetTheorems, SequenceTheorems, WellFoundedInduction, TLAPS

\* Artefacts that have a wave.
Placed == {a \in Candidates : wave[a] # 0}

StackOK ==
  /\ visiting = {stack[i] : i \in 1..Len(stack)}
  /\ \A i, j \in 1..Len(stack) : stack[i] = stack[j] => i = j
  /\ visiting \cap Placed = {}

WavesBounded == \A a \in Candidates : wave[a] <= Cardinality(Placed)

PlanInv == PlanTypeOK /\ StackOK /\ WavesBounded /\ PrerequisitesFirst /\ WavesAreTight

-----------------------------------------------------------------------------
LEMMA PrefixOfStack ==
  ASSUME NEW s \in Seq(Candidates), NEW m \in Nat, m < Len(s)
  PROVE  Len(SubSeq(s, 1, m)) = m /\ \A i \in 1..m : SubSeq(s, 1, m)[i] = s[i]
<1>1. \A i \in 1..m : s[i] \in Candidates
  OBVIOUS
<1> DEFINE p == SubSeq(s, 1, m)
<1>2. Len(p) = (IF 1 <= m THEN m - 1 + 1 ELSE 0) /\ \A i \in 1..(m - 1 + 1) : p[i] = s[1 + i - 1]
  BY <1>1, SubSeqProperties
<1> HIDE DEF p
<1>3. Len(p) = m /\ \A i \in 1..m : p[i] = s[i]
  BY <1>2
<1>4. QED
  BY <1>3 DEF p

LEMMA MaxOfBounded ==
  ASSUME NEW T \in SUBSET Nat, T # {}, NEW N \in Nat, \A y \in T : y <= N
  PROVE  \E x \in T : \A y \in T : y <= x
<1> DEFINE Above == {u \in Nat : \A y \in T : y <= u}
<1>1. Above \subseteq Nat /\ N \in Above
  OBVIOUS
<1>2. PICK x \in Above : \A y \in Above : ~ (<<y, x>> \in OpToRel(<, Nat))
  <2> HIDE DEF Above
  <2>1. Above # {}
    BY <1>1
  <2>2. QED
    BY <1>1, <2>1, NatLessThanWellFounded, WFMin
<1>3. x \in Nat /\ (\A y \in T : y <= x) /\ \A y \in Above : ~(y < x)
  BY <1>1, <1>2 DEF OpToRel
<1>4. CASE x \in T
  BY <1>3, <1>4
<1>5. CASE x \notin T
  <2>1. \A y \in T : y < x
    BY <1>3, <1>5
  <2>2. x - 1 \in Nat /\ \A y \in T : y <= x - 1
    <3>1. PICK y \in T : y \in Nat /\ y < x
      BY <2>1
    <3>2. x > 0
      BY <1>3, <3>1
    <3> HIDE DEF Above
    <3>3. \A z \in T : z \in Nat /\ z < x
      BY <2>1
    <3>4. QED
      BY <1>3, <3>2, <3>3
  <2>3. x - 1 \in Above /\ x - 1 < x
    BY <1>3, <2>2
  <2>4. QED
    BY <1>3, <2>3
<1>6. QED
  BY <1>4, <1>5

\* The next wave is one above the largest of the prerequisites', or 1.
LEMMA WaveAfterIsNext ==
  ASSUME PlanTypeOK, WavesBounded, NEW a \in Candidates
  PROVE  /\ WaveAfter(a) \in Nat \ {0}
         /\ WaveAfter(a) <= Cardinality(Placed) + 1
         /\ \A b \in Prerequisites(a) : wave[b] < WaveAfter(a)
         /\ WaveAfter(a) > 1 => \E b \in Prerequisites(a) : wave[b] = WaveAfter(a) - 1
<1> DEFINE T == {wave[b] : b \in Prerequisites(a)}
<1>0. Cardinality(Placed) \in Nat
  <2>1. IsFiniteSet(Placed)
    BY CandidatesFinite, FS_Subset DEF Placed
  <2>2. QED
    BY <2>1, FS_CardinalityType
<1>1. T \in SUBSET Nat /\ \A y \in T : y <= Cardinality(Placed)
  BY DEF PlanTypeOK, WavesBounded, Prerequisites
<1>2. CASE Prerequisites(a) = {}
  BY <1>0, <1>2 DEF WaveAfter
<1>3. CASE Prerequisites(a) # {}
  <2> DEFINE Largest(n) == \A b \in Prerequisites(a) : wave[b] <= n
             m == CHOOSE n \in T : Largest(n)
  <2>1. T # {}
    BY <1>3
  <2>2. \E x \in T : \A y \in T : y <= x
    <3> HIDE DEF T
    <3>1. QED
      BY <1>0, <1>1, <2>1, MaxOfBounded
  <2>3. \E x \in T : Largest(x)
    BY <2>2
  <2>4. m \in T /\ Largest(m)
    BY <2>3
  <2>5. WaveAfter(a) = 1 + m
    BY <1>3 DEF WaveAfter
  <2>6. m \in Nat /\ m <= Cardinality(Placed) /\ \A b \in Prerequisites(a) : wave[b] <= m /\ wave[b] \in Nat
    BY <1>1, <2>4 DEF PlanTypeOK, Prerequisites
  <2>7. \E b \in Prerequisites(a) : wave[b] = m
    BY <2>4
  <2> HIDE DEF m
  <2>8. QED
    BY <1>0, <2>5, <2>6, <2>7
<1>4. QED
  BY <1>2, <1>3

-----------------------------------------------------------------------------
LEMMA PlanInvInit == PlanInit => PlanInv
<1> SUFFICES ASSUME PlanInit PROVE PlanInv
  OBVIOUS
<1>1. PlanTypeOK
  BY DEF PlanInit, PlanTypeOK
<1>2. Placed = {} /\ Cardinality({}) = 0
  BY FS_EmptySet DEF PlanInit, Placed
<1>3. StackOK
  BY <1>2 DEF PlanInit, StackOK
<1>4. WavesBounded /\ PrerequisitesFirst /\ WavesAreTight
  BY <1>2 DEF PlanInit, WavesBounded, PrerequisitesFirst, WavesAreTight
<1>5. QED
  BY <1>1, <1>3, <1>4 DEF PlanInv

\* An artefact is pushed that is neither on the stack nor has a wave.
LEMMA PushKeepsInv ==
  ASSUME PlanInv, NEW b \in Candidates, b \notin visiting, wave[b] = 0,
         stack' = Append(stack, b), visiting' = visiting \cup {b}, UNCHANGED <<edges, wave, planner>>
  PROVE  PlanInv'
<1> USE DEF PlanInv
<1>1. PlanTypeOK'
  BY DEF PlanTypeOK
<1>2. Placed' = Placed /\ WavesBounded' /\ PrerequisitesFirst' /\ WavesAreTight'
  BY DEF Placed, WavesBounded, PrerequisitesFirst, WavesAreTight, Prerequisites
<1>3. Len(stack') = Len(stack) + 1 /\ Len(stack) \in Nat
      /\ (\A i \in 1..Len(stack) : stack'[i] = stack[i]) /\ stack'[Len(stack) + 1] = b
  BY DEF PlanTypeOK
<1>4. \A i \in 1..Len(stack) : stack[i] # b
  BY DEF StackOK
<1>5. visiting' = {stack'[i] : i \in 1..Len(stack')}
  BY <1>3 DEF StackOK
<1>6. \A i, j \in 1..Len(stack') : stack'[i] = stack'[j] => i = j
  BY <1>3, <1>4 DEF StackOK
<1>7. visiting' \cap Placed' = {}
  BY <1>2 DEF StackOK, Placed
<1>8. QED
  BY <1>1, <1>2, <1>5, <1>6, <1>7 DEF StackOK

LEMMA CallTopKeepsInv ==
  ASSUME PlanInv, CallTop
  PROVE  PlanInv'
<1>1. PICK a \in Candidates : wave[a] = 0 /\ stack' = <<a>> /\ visiting' = {a}
  BY DEF CallTop
<1>2. stack = << >> /\ visiting = {}
  BY DEF CallTop, PlanInv, StackOK
<1>3. stack' = Append(stack, a) /\ visiting' = visiting \cup {a}
  BY <1>1, <1>2
<1>4. QED
  BY <1>1, <1>2, <1>3, PushKeepsInv DEF CallTop

LEMMA CallPrerequisiteKeepsInv ==
  ASSUME PlanInv, CallPrerequisite
  PROVE  PlanInv'
<1>1. PICK b \in Unanswered(Top) : b \notin visiting /\ stack' = Append(stack, b) /\ visiting' = visiting \cup {b}
  BY DEF CallPrerequisite
<1>2. b \in Candidates /\ wave[b] = 0
  BY <1>1 DEF Unanswered, Prerequisites
<1>3. QED
  BY <1>1, <1>2, PushKeepsInv DEF CallPrerequisite

LEMMA ReturnWaveKeepsInv ==
  ASSUME PlanInv, ReturnWave
  PROVE  PlanInv'
<1> DEFINE n == Len(stack)
           t == Top
           v == WaveAfter(t)
<1> USE DEF PlanInv
<1>1. n \in Nat /\ n >= 1 /\ t = stack[n] /\ t \in Candidates /\ t \in visiting
  BY DEF PlanTypeOK, StackOK, ReturnWave, Top
<1>2. wave[t] = 0 /\ t \notin Placed
  BY <1>1 DEF StackOK, Placed, PlanTypeOK
<1>3. /\ v \in Nat \ {0} /\ v <= Cardinality(Placed) + 1
      /\ \A b \in Prerequisites(t) : wave[b] < v
      /\ v > 1 => \E b \in Prerequisites(t) : wave[b] = v - 1
  BY <1>1, WaveAfterIsNext
<1>4. wave' = [wave EXCEPT ![t] = v] /\ visiting' = visiting \ {t} /\ stack' = SubSeq(stack, 1, n - 1)
      /\ edges' = edges /\ planner' = planner
  BY DEF ReturnWave
<1> HIDE DEF v, t
<1>5. PlanTypeOK'
  BY <1>1, <1>3, <1>4 DEF PlanTypeOK
<1>6. Len(stack') = n - 1 /\ \A i \in 1..(n - 1) : stack'[i] = stack[i]
  <2>1. stack \in Seq(Candidates)
    BY DEF PlanTypeOK
  <2>2. n - 1 \in Nat /\ n - 1 < Len(stack)
    BY <1>1
  <2> HIDE DEF n
  <2>3. Len(SubSeq(stack, 1, n - 1)) = n - 1 /\ \A i \in 1..(n - 1) : SubSeq(stack, 1, n - 1)[i] = stack[i]
    BY <2>1, <2>2, PrefixOfStack
  <2>4. QED
    BY <1>4, <2>3
<1>7. Placed' = Placed \cup {t}
  BY <1>1, <1>3, <1>4 DEF PlanTypeOK, Placed
<1>8. StackOK'
  <2>1. visiting' = {stack'[i] : i \in 1..Len(stack')}
    BY <1>1, <1>4, <1>6 DEF StackOK
  <2>2. \A i, j \in 1..Len(stack') : stack'[i] = stack'[j] => i = j
    BY <1>1, <1>6 DEF StackOK
  <2>3. visiting' \cap Placed' = {}
    BY <1>4, <1>7 DEF StackOK
  <2>4. QED
    BY <2>1, <2>2, <2>3 DEF StackOK
<1>9. WavesBounded'
  <2>1. IsFiniteSet(Placed)
    BY CandidatesFinite, FS_Subset DEF Placed
  <2>2. Cardinality(Placed') = Cardinality(Placed) + 1 /\ Cardinality(Placed) \in Nat
    BY <1>2, <1>7, <2>1, FS_AddElement, FS_CardinalityType
  <2>3. QED
    BY <1>1, <1>3, <1>4, <2>2 DEF WavesBounded, PlanTypeOK
<1>10. \A a \in Candidates : Prerequisites(a)' = Prerequisites(a)
  BY <1>4 DEF Prerequisites
<1>11. \A b \in Prerequisites(t) : wave[b] # 0 /\ b # t /\ b \in Candidates
  BY <1>2 DEF ReturnWave, Unanswered, Prerequisites, t
<1>12. \A a \in Candidates : wave'[a] = IF a = t THEN v ELSE wave[a]
  BY <1>4 DEF PlanTypeOK
<1>13. \A a \in Candidates : a # t /\ wave[a] # 0 => t \notin Prerequisites(a)
  BY <1>2 DEF PrerequisitesFirst
<1>14. PrerequisitesFirst'
  <2> SUFFICES ASSUME NEW a \in Candidates, wave'[a] # 0, NEW b \in Prerequisites(a)
               PROVE  wave'[b] # 0 /\ wave'[b] < wave'[a]
    BY <1>10 DEF PrerequisitesFirst
  <2>0. b \in Candidates
    BY DEF Prerequisites
  <2>1. CASE a = t
    BY <1>3, <1>11, <1>12, <2>0, <2>1
  <2>2. CASE a # t
    BY <1>12, <1>13, <2>0, <2>2 DEF PrerequisitesFirst
  <2>3. QED
    BY <2>1, <2>2
<1>15. WavesAreTight'
  <2> SUFFICES ASSUME NEW a \in Candidates, wave'[a] > 1
               PROVE  \E b \in Prerequisites(a) : wave'[b] = wave'[a] - 1
    BY <1>10 DEF WavesAreTight
  <2>1. CASE a = t
    BY <1>3, <1>11, <1>12, <2>1
  <2>2. CASE a # t
    <3>1. wave[a] > 1 /\ wave'[a] = wave[a] /\ wave[a] # 0
      BY <1>12, <2>2 DEF PlanTypeOK
    <3>2. PICK b \in Prerequisites(a) : wave[b] = wave[a] - 1
      BY <3>1 DEF WavesAreTight
    <3>3. b # t /\ b \in Candidates
      BY <1>13, <2>2, <3>1 DEF Prerequisites
    <3>4. QED
      BY <1>12, <3>1, <3>2, <3>3
  <2>3. QED
    BY <2>1, <2>2
<1>16. QED
  BY <1>5, <1>8, <1>9, <1>14, <1>15

LEMMA PlanInvInductive ==
  ASSUME PlanInv, [PlanNext]_planVars
  PROVE  PlanInv'
<1>1. CASE CallTop
  BY <1>1, CallTopKeepsInv
<1>2. CASE CallPrerequisite
  BY <1>2, CallPrerequisiteKeepsInv
<1>3. CASE ReturnWave
  BY <1>3, ReturnWaveKeepsInv
<1>4. CASE MeetCycle \/ BuildItems \/ UNCHANGED planVars
  <2>1. UNCHANGED <<edges, stack, visiting, wave>> /\ planner' \in {planner, "raised", "planned"}
    BY <1>4 DEF MeetCycle, BuildItems, planVars
  <2>2. Placed' = Placed /\ \A a \in Candidates : Prerequisites(a)' = Prerequisites(a)
    BY <2>1 DEF Placed, Prerequisites
  <2>3. PlanTypeOK' /\ StackOK'
    BY <2>1, <2>2 DEF PlanInv, PlanTypeOK, StackOK
  <2>4. WavesBounded'
    BY <2>1, <2>2 DEF PlanInv, WavesBounded
  <2>5. PrerequisitesFirst' /\ WavesAreTight'
    BY <2>1, <2>2 DEF PlanInv, PrerequisitesFirst, WavesAreTight
  <2>6. QED
    BY <2>3, <2>4, <2>5 DEF PlanInv
<1>5. QED
  BY <1>1, <1>2, <1>3, <1>4 DEF PlanNext

LEMMA PlanInvHolds == PlanSpec => []PlanInv
  BY PlanInvInit, PlanInvInductive, PTL DEF PlanSpec

-----------------------------------------------------------------------------
\* Cycles: each call on the stack was made for one that needs it.
Chained == \A j \in 1..Len(stack) : \A i \in 1..(j - 1) : stack[j] \in Needs(stack[i])

CycleInv ==
  /\ Chained
  /\ planner = "raised" => \E a \in Candidates : a \in Needs(a)
  /\ planner = "planned" => \A a \in Candidates : wave[a] # 0

LEMMA NeedsGrow ==
  ASSUME NEW a \in Candidates, NEW x \in Candidates, x = a \/ x \in Needs(a), NEW y \in Prerequisites(x)
  PROVE  y \in Needs(a)
<1> SUFFICES ASSUME NEW S \in SUBSET Candidates, Prerequisites(a) \subseteq S,
                    \A c \in S : Prerequisites(c) \subseteq S
             PROVE  y \in S
  BY DEF Needs, Prerequisites
<1>1. CASE x = a
  BY <1>1
<1>2. CASE x \in Needs(a)
  <2>1. x \in S
    BY <1>2 DEF Needs
  <2>2. QED
    BY <2>1
<1>3. QED
  BY <1>1, <1>2

LEMMA NeedsLeast ==
  ASSUME NEW a \in Candidates, NEW S \in SUBSET Candidates, Prerequisites(a) \subseteq S,
         \A c \in S : Prerequisites(c) \subseteq S
  PROVE  Needs(a) \subseteq S
  BY DEF Needs

LEMMA NeedsStay ==
  ASSUME edges' = edges
  PROVE  \A a \in Candidates : Needs(a)' = Needs(a) /\ Prerequisites(a)' = Prerequisites(a)
  BY DEF Needs, Prerequisites

LEMMA CycleInvInductive ==
  ASSUME PlanInv, CycleInv, [PlanNext]_planVars
  PROVE  CycleInv'
<1>1. stack \in Seq(Candidates) /\ Len(stack) \in Nat /\ \A i \in 1..Len(stack) : stack[i] \in Candidates
  BY DEF PlanInv, PlanTypeOK
<1>2. CASE CallTop
  <2>1. PICK a \in Candidates : stack' = <<a>>
    BY <1>2 DEF CallTop
  <2>2. Len(stack') = 1
    BY <2>1
  <2>3. Chained'
    BY <2>2 DEF Chained
  <2>4. QED
    BY <1>2, <2>3 DEF CallTop, CycleInv
<1>3. CASE CallPrerequisite
  <2>1. PICK b \in Unanswered(Top) : stack' = Append(stack, b)
    BY <1>3 DEF CallPrerequisite
  <2>2. b \in Candidates /\ b \in Prerequisites(Top) /\ stack # << >> /\ edges' = edges /\ planner' = planner
    BY <1>3, <2>1 DEF CallPrerequisite, Unanswered, Prerequisites
  <2>3. Len(stack) >= 1 /\ Top = stack[Len(stack)] /\ Top \in Candidates
    BY <1>1, <2>2 DEF Top
  <2>4. Len(stack') = Len(stack) + 1 /\ stack'[Len(stack) + 1] = b /\ \A i \in 1..Len(stack) : stack'[i] = stack[i]
    BY <1>1, <2>1, <2>2
  <2>5. ASSUME NEW j \in 1..Len(stack'), NEW i \in 1..(j - 1) PROVE stack'[j] \in Needs(stack[i])'
    <3>1. i \in 1..Len(stack) /\ stack'[i] = stack[i] /\ stack[i] \in Candidates
      BY <1>1, <2>4
    <3>2. Needs(stack[i])' = Needs(stack[i])
      BY <2>2, <3>1, NeedsStay
    <3>3. CASE j = Len(stack) + 1
      <4>1. Top = stack[i] \/ Top \in Needs(stack[i])
        <5>1. i = Len(stack) \/ i \in 1..(Len(stack) - 1)
          BY <1>1, <3>1
        <5>2. Len(stack) \in 1..Len(stack)
          BY <1>1, <2>3
        <5>3. QED
          BY <2>3, <5>1, <5>2 DEF CycleInv, Chained
      <4>2. b \in Needs(stack[i])
        BY <2>2, <2>3, <3>1, <4>1, NeedsGrow
      <4>3. QED
        BY <2>4, <3>2, <3>3, <4>2
    <3>4. CASE j # Len(stack) + 1
      <4>1. j \in 1..Len(stack) /\ stack'[j] = stack[j]
        BY <1>1, <2>4, <3>4
      <4>2. stack[j] \in Needs(stack[i])
        BY <4>1 DEF CycleInv, Chained
      <4>3. QED
        BY <3>2, <4>1, <4>2
    <3>5. QED
      BY <3>3, <3>4
  <2>6. Chained'
    BY <2>5 DEF Chained
  <2>7. QED
    BY <1>3, <2>2, <2>6, NeedsStay DEF CallPrerequisite, CycleInv
<1>4. CASE MeetCycle
  <2>1. PICK b \in Unanswered(Top) \cap visiting : TRUE
    BY <1>4 DEF MeetCycle
  <2>2. b \in Candidates /\ b \in Prerequisites(Top) /\ stack # << >>
    BY <1>4, <2>1 DEF MeetCycle, Unanswered, Prerequisites
  <2>3. Len(stack) >= 1 /\ Top = stack[Len(stack)] /\ Top \in Candidates
    BY <1>1, <2>2 DEF Top
  <2>4. PICK i \in 1..Len(stack) : stack[i] = b
    BY <2>1 DEF PlanInv, StackOK
  <2>5. Top = b \/ Top \in Needs(b)
    <3>1. i = Len(stack) \/ i \in 1..(Len(stack) - 1)
      BY <1>1
    <3>2. Len(stack) \in 1..Len(stack)
      BY <1>1, <2>3
    <3>3. QED
      BY <2>3, <2>4, <3>1, <3>2 DEF CycleInv, Chained
  <2>6. b \in Needs(b)
    BY <2>2, <2>3, <2>5, NeedsGrow
  <2>7. UNCHANGED <<edges, stack>> /\ planner' = "raised"
    BY <1>4 DEF MeetCycle
  <2>8. Chained'
    BY <1>1, <2>7, NeedsStay DEF CycleInv, Chained
  <2>9. b \in Needs(b)'
    BY <2>2, <2>6, <2>7, NeedsStay
  <2>10. QED
    BY <2>2, <2>7, <2>8, <2>9 DEF CycleInv
<1>5. CASE ReturnWave
  <2>1. stack' = SubSeq(stack, 1, Len(stack) - 1) /\ Len(stack) >= 1 /\ edges' = edges /\ planner' = planner
        /\ planner = "walking"
    BY <1>1, <1>5 DEF ReturnWave
  <2>2. Len(stack) - 1 \in Nat /\ Len(stack) - 1 < Len(stack)
    BY <1>1, <2>1
  <2>3. Len(stack') = Len(stack) - 1 /\ \A i \in 1..(Len(stack) - 1) : stack'[i] = stack[i]
    BY <1>1, <2>1, <2>2, PrefixOfStack
  <2>4. ASSUME NEW j \in 1..Len(stack'), NEW i \in 1..(j - 1) PROVE stack'[j] \in Needs(stack[i])'
    <3>1. /\ j \in 1..Len(stack) /\ i \in 1..Len(stack) /\ stack'[j] = stack[j] /\ stack'[i] = stack[i]
          /\ stack[i] \in Candidates
      BY <1>1, <2>2, <2>3
    <3>2. Needs(stack[i])' = Needs(stack[i])
      BY <2>1, <3>1, NeedsStay
    <3>3. QED
      BY <3>1, <3>2 DEF CycleInv, Chained
  <2>5. Chained'
    BY <2>4 DEF Chained
  <2>6. QED
    BY <2>1, <2>5 DEF CycleInv
<1>6. CASE BuildItems \/ UNCHANGED planVars
  <2>1. UNCHANGED <<edges, stack, wave>>
    BY <1>6 DEF BuildItems, planVars
  <2>2. Chained'
    BY <1>1, <2>1, NeedsStay DEF CycleInv, Chained
  <2>3. CASE BuildItems
    BY <2>2, <2>3 DEF BuildItems, CycleInv
  <2>4. CASE UNCHANGED planVars
    BY <2>1, <2>2, <2>4, NeedsStay DEF planVars, CycleInv
  <2>5. QED
    BY <1>6, <2>3, <2>4
<1>7. QED
  BY <1>2, <1>3, <1>4, <1>5, <1>6 DEF PlanNext

LEMMA CycleInvHolds == PlanSpec => [](PlanInv /\ CycleInv)
<1>1. PlanInit => CycleInv
  <2> SUFFICES ASSUME PlanInit PROVE CycleInv
    OBVIOUS
  <2>1. Len(stack) = 0 /\ planner = "walking"
    BY DEF PlanInit
  <2>2. QED
    BY <2>1 DEF CycleInv, Chained
<1>2. PlanInv /\ CycleInv /\ [PlanNext]_planVars => PlanInv' /\ CycleInv'
  BY PlanInvInductive, CycleInvInductive
<1>3. QED
  BY <1>1, <1>2, PlanInvInit, PTL DEF PlanSpec

-----------------------------------------------------------------------------
(* The walk keeps its types, for every set of candidates. *)
THEOREM PlanTypes == PlanSpec => []PlanTypeOK
  BY PlanInvHolds, PTL DEF PlanInv

(* At every moment of the walk, whatever the edges and the order in which  *)
(* the sets are walked, an artefact that has a wave comes strictly after   *)
(* all it depends on, and waits for nothing else                           *)
(* (migration_planner.py:80-104).                                          *)
THEOREM WavesFollowPrerequisites == PlanSpec => []WavesInOrder
  BY PlanInvHolds, PTL DEF PlanInv, WavesInOrder

(* The planner raises only for a graph with a cycle among the candidates,  *)
(* and plans only a graph without one (migration_planner.py:104-121).      *)
THEOREM RaisesForCycles == PlanSpec => []RaisesExactlyOnCycles
<1>1. PlanInv /\ CycleInv => RaisesExactlyOnCycles
  <2> SUFFICES ASSUME PlanInv, CycleInv, planner = "planned", NEW a \in Candidates, a \in Needs(a) PROVE FALSE
    BY DEF CycleInv, RaisesExactlyOnCycles
  <2> DEFINE S == {c \in Candidates : wave[c] < wave[a]}
  <2>1. \A c \in Candidates : wave[c] \in Nat /\ wave[c] # 0
    BY DEF PlanInv, PlanTypeOK, CycleInv
  <2>2. \A c \in Candidates : \A b \in Prerequisites(c) : b \in Candidates /\ wave[b] < wave[c]
    BY <2>1 DEF PlanInv, PrerequisitesFirst, Prerequisites
  <2>3. S \in SUBSET Candidates /\ Prerequisites(a) \subseteq S
    BY <2>2
  <2>4. \A c \in S : Prerequisites(c) \subseteq S
    BY <2>1, <2>2
  <2>5. a \notin S
    BY <2>1
  <2> HIDE DEF S
  <2>6. QED
    BY <2>3, <2>4, <2>5, NeedsLeast
<1>2. QED
  BY <1>1, CycleInvHolds, PTL

(* A plan of n artefacts never needs more than n waves. *)
THEOREM NoMoreWavesThanArtefacts == PlanSpec => [](\A a \in Candidates : wave[a] <= Cardinality(Candidates))
<1>1. PlanInv => \A a \in Candidates : wave[a] <= Cardinality(Candidates)
  <2> SUFFICES ASSUME PlanInv, NEW a \in Candidates PROVE wave[a] <= Cardinality(Candidates)
    OBVIOUS
  <2>1. /\ Cardinality(Placed) \in Nat /\ Cardinality(Candidates) \in Nat
        /\ Cardinality(Placed) <= Cardinality(Candidates)
    BY CandidatesFinite, FS_Subset, FS_CardinalityType DEF Placed
  <2>2. QED
    BY <2>1 DEF PlanInv, WavesBounded, PlanTypeOK
<1>2. QED
  BY <1>1, PlanInvHolds, PTL

-----------------------------------------------------------------------------
(* Criticality along the graph. *)

Entries == [node : Nodes, rank : 1..MaxRank, root : Nodes]

\* A root passes on its own criticality, to itself or to what it reaches.
Sent(rank, root, n) == own[root] = rank /\ (root = n \/ root \in Ancestors(n))

InheritTyped ==
  /\ own \in [Nodes -> 0..MaxRank]
  /\ graph \subseteq Nodes \X Nodes
  /\ best \in [Nodes -> [rank : {NoCandidate} \cup 1..MaxRank, root : Nodes]]
  /\ inherited \subseteq Nodes
  /\ queue \in Seq(Entries)
  /\ pending \in [targets : SUBSET Nodes, rank : 0..MaxRank, root : Nodes \cup {"none"}]
  /\ pending.targets # {} => pending.rank \in 1..MaxRank /\ pending.root \in Nodes

\* A candidate is the node's own, or a larger one of an ancestor.
BestOK(n) ==
  /\ n \notin inherited => best[n] = [rank |-> IF own[n] > 0 THEN own[n] ELSE NoCandidate, root |-> n]
  /\ n \in inherited => /\ best[n].rank \in 1..MaxRank /\ best[n].rank > own[n]
                        /\ best[n].root \in Ancestors(n) /\ own[best[n].root] = best[n].rank

Announced(n) == \E i \in DOMAIN queue : queue[i].node = n /\ queue[i].rank >= best[n].rank
OfferedTo(n, m) == m \in pending.targets /\ pending.rank >= best[n].rank

\* Along an edge criticality has arrived, or is on its way.
Flowing(n, m) == best[n].rank > 0 => best[m].rank >= best[n].rank \/ Announced(n) \/ OfferedTo(n, m)

InheritInv ==
  /\ InheritTyped
  /\ \A n \in Nodes : BestOK(n)
  /\ \A i \in DOMAIN queue : Sent(queue[i].rank, queue[i].root, queue[i].node)
  /\ \A m \in pending.targets : Sent(pending.rank, pending.root, m)
  /\ \A n \in Nodes : \A m \in Successors(n) : Flowing(n, m)

-----------------------------------------------------------------------------
\* What an ancestor reaches, or the node itself, is an ancestor of its targets.
LEMMA AncestorsGrow ==
  ASSUME NEW n \in Nodes, NEW k \in Successors(n), NEW m \in Nodes, m = n \/ m \in Ancestors(n)
  PROVE  m \in Ancestors(k)
<1> SUFFICES ASSUME NEW S \in SUBSET Nodes, Sources(k) \subseteq S, \A j \in S : Sources(j) \subseteq S
             PROVE  m \in S
  BY DEF Ancestors
<1>1. n \in S
  BY DEF Sources
<1>2. Sources(n) \subseteq S
  BY <1>1
<1>3. QED
  BY <1>1, <1>2 DEF Ancestors

\* A set that is closed and holds the sources holds all ancestors.
LEMMA AncestorsLeast ==
  ASSUME NEW n \in Nodes, NEW S \in SUBSET Nodes, Sources(n) \subseteq S, \A k \in S : Sources(k) \subseteq S
  PROVE  Ancestors(n) \subseteq S
  BY DEF Ancestors

LEMMA SeqOfAllIsOnto ==
  ASSUME NEW S, IsFiniteSet(S), NEW s \in SetToSeqs(S)
  PROVE  s \in Seq(S) /\ \A n \in S : \E i \in DOMAIN s : s[i] = n
<1> DEFINE D == 1..Cardinality(S)
<1>1. Cardinality(S) \in Nat
  BY FS_CardinalityType
<1>2. IsFiniteSet(D) /\ Cardinality(D) = Cardinality(S)
  BY <1>1, FS_Interval
<1>3. s \in [D -> S] /\ \A i, j \in D : i # j => s[i] # s[j]
  BY DEF SetToSeqs
<1>4. s \in Injection(D, S)
  BY <1>3 DEF Injection, IsInjective
<1>5. s \in Surjection(D, S)
  <2> HIDE DEF D
  <2>1. QED
    BY <1>2, <1>4, FS_Injection
<1>6. \A n \in S : \E i \in D : s[i] = n
  BY <1>5 DEF Surjection
<1>7. QED
  BY <1>1, <1>3, <1>6

-----------------------------------------------------------------------------
LEMMA InheritInvInit == InheritInit => InheritInv
<1> SUFFICES ASSUME InheritInit PROVE InheritInv
  OBVIOUS
<1> DEFINE S == {n \in Nodes : own[n] > 0}
<1>1. PICK s \in SetToSeqs(S) :
        queue = [i \in DOMAIN s |-> [node |-> s[i], rank |-> own[s[i]], root |-> s[i]]]
  BY DEF InheritInit
<1>2. s \in Seq(S) /\ \A n \in S : \E i \in DOMAIN s : s[i] = n
  <2>1. IsFiniteSet(S)
    BY NodesFinite, FS_Subset
  <2>2. QED
    BY <1>1, <2>1, SeqOfAllIsOnto
<1>3. \A i \in DOMAIN s : s[i] \in Nodes /\ own[s[i]] \in 1..MaxRank
  BY <1>2, NodesFinite DEF InheritInit
<1>4. queue \in Seq(Entries) /\ DOMAIN queue = DOMAIN s
  <2>1. \A i \in 1..Len(s) : [node |-> s[i], rank |-> own[s[i]], root |-> s[i]] \in Entries
    BY <1>2, <1>3 DEF Entries
  <2>2. DOMAIN s = 1..Len(s) /\ Len(s) \in Nat
    BY <1>2
  <2>3. queue = [i \in 1..Len(s) |-> [node |-> s[i], rank |-> own[s[i]], root |-> s[i]]]
    BY <1>1, <2>2
  <2>4. QED
    BY <2>1, <2>2, <2>3, IsASeq
<1>5. \A i \in DOMAIN queue : queue[i] = [node |-> s[i], rank |-> own[s[i]], root |-> s[i]]
  BY <1>1, <1>4
<1>6. pending.targets = {} /\ inherited = {}
  BY DEF InheritInit, Idle
<1>7. InheritTyped
  <2>1. own \in [Nodes -> 0..MaxRank] /\ graph \subseteq Nodes \X Nodes
    BY DEF InheritInit
  <2>2. \A n \in Nodes : own[n] > 0 => own[n] \in 1..MaxRank
    BY <2>1, NodesFinite
  <2>3. best \in [Nodes -> [rank : {NoCandidate} \cup 1..MaxRank, root : Nodes]]
    BY <2>2 DEF InheritInit
  <2>4. pending \in [targets : SUBSET Nodes, rank : 0..MaxRank, root : Nodes \cup {"none"}]
    BY NodesFinite DEF InheritInit, Idle
  <2>5. QED
    BY <1>4, <1>6, <2>1, <2>3, <2>4 DEF InheritTyped
<1>8. \A n \in Nodes : BestOK(n)
  BY <1>6 DEF InheritInit, BestOK
<1>9. \A i \in DOMAIN queue : Sent(queue[i].rank, queue[i].root, queue[i].node)
  BY <1>5 DEF Sent
<1>10. ASSUME NEW n \in Nodes, NEW m \in Successors(n), best[n].rank > 0 PROVE Announced(n)
  <2>1. best[n].rank = own[n] /\ n \in S
    BY <1>10, NodesFinite DEF InheritInit, NoCandidate
  <2>2. PICK i \in DOMAIN s : s[i] = n
    BY <1>2, <2>1
  <2>3. own[n] \in Nat
    BY NodesFinite DEF InheritInit
  <2>4. queue[i].node = n /\ queue[i].rank >= best[n].rank
    BY <1>4, <1>5, <2>1, <2>2, <2>3
  <2>5. QED
    BY <1>4, <2>4 DEF Announced
<1>11. QED
  BY <1>6, <1>7, <1>8, <1>9, <1>10 DEF InheritInv, Flowing

LEMMA Numbers ==
  ASSUME InheritInv
  PROVE  /\ \A i \in DOMAIN queue : /\ queue[i] \in Entries /\ queue[i].node \in Nodes
                                   /\ queue[i].rank \in 1..MaxRank
         /\ \A n \in Nodes : /\ best[n].rank \in Int /\ (best[n].rank = -1 \/ best[n].rank >= 1)
                            /\ own[n] \in Int /\ own[n] >= 0
<1>1. queue \in Seq(Entries)
  BY DEF InheritInv, InheritTyped
<1>2. ASSUME NEW i \in DOMAIN queue PROVE queue[i] \in Entries
  BY <1>1
<1>3. \A e \in Entries : e.node \in Nodes /\ e.rank \in 1..MaxRank
  BY DEF Entries
<1>4. ASSUME NEW n \in Nodes
      PROVE  /\ best[n].rank \in Int /\ (best[n].rank = -1 \/ best[n].rank >= 1)
             /\ own[n] \in Int /\ own[n] >= 0
  <2>1. best[n] \in [rank : {NoCandidate} \cup 1..MaxRank, root : Nodes] /\ own[n] \in 0..MaxRank
    BY DEF InheritInv, InheritTyped
  <2>2. best[n].rank \in {NoCandidate} \cup 1..MaxRank
    BY <2>1
  <2>3. QED
    BY <2>1, <2>2, NodesFinite DEF NoCandidate
<1>5. QED
  BY <1>2, <1>3, <1>4

LEMMA TakeNextKeepsInv ==
  ASSUME InheritInv, TakeNext
  PROVE  InheritInv'
<1> DEFINE h == queue[1]
<1>1. queue \in Seq(Entries) /\ Len(queue) \in Nat /\ Len(queue) >= 1 /\ h \in Entries
  BY DEF InheritInv, InheritTyped, TakeNext
<1>2. /\ pending.targets = {}
      /\ pending' = [targets |-> Successors(h.node), rank |-> h.rank, root |-> h.root]
      /\ queue' = Tail(queue)
      /\ UNCHANGED <<own, graph, best, inherited>>
  BY DEF TakeNext
<1>3. queue' \in Seq(Entries) /\ Len(queue') = Len(queue) - 1
      /\ \A i \in 1..(Len(queue) - 1) : queue'[i] = queue[i + 1]
  BY <1>1, <1>2
<1>4. h.node \in Nodes /\ h.rank \in 1..MaxRank /\ h.root \in Nodes
  BY <1>1 DEF Entries
<1>5. \A n \in Nodes : Ancestors(n)' = Ancestors(n) /\ Successors(n)' = Successors(n)
  BY <1>2 DEF Ancestors, Sources, Successors
<1>6. InheritTyped'
  BY <1>2, <1>3, <1>4 DEF InheritInv, InheritTyped, Successors
<1>7. \A n \in Nodes : BestOK(n)'
  BY <1>2, <1>5 DEF InheritInv, BestOK
<1>8. ASSUME NEW i \in DOMAIN queue' PROVE Sent(queue[i].rank, queue[i].root, queue[i].node)'
  <2>1. i \in 1..(Len(queue) - 1) /\ i + 1 \in DOMAIN queue
    BY <1>1, <1>3
  <2>2. queue'[i] = queue[i + 1] /\ queue[i + 1] \in Entries
    BY <1>1, <1>3, <2>1
  <2>3. Sent(queue[i + 1].rank, queue[i + 1].root, queue[i + 1].node)
    BY <2>1 DEF InheritInv
  <2>4. queue[i + 1].node \in Nodes
    BY <2>2 DEF Entries
  <2>5. QED
    BY <1>2, <1>5, <2>2, <2>3, <2>4 DEF Sent
<1>9. ASSUME NEW m \in pending'.targets PROVE Sent(pending.rank, pending.root, m)'
  <2>1. Sent(h.rank, h.root, h.node)
    BY <1>1 DEF InheritInv
  <2>2. m \in Successors(h.node) /\ m \in Nodes
    BY <1>2 DEF Successors
  <2>3. h.root \in Ancestors(m)
    BY <1>4, <2>1, <2>2, AncestorsGrow DEF Sent
  <2>4. QED
    BY <1>2, <1>5, <2>1, <2>2, <2>3 DEF Sent
<1>10. ASSUME NEW n \in Nodes, NEW m \in Successors(n)', best'[n].rank > 0
       PROVE  best'[m].rank >= best'[n].rank \/ Announced(n)' \/ OfferedTo(n, m)'
  <2>1. m \in Successors(n) /\ m \in Nodes /\ Flowing(n, m) /\ best[n].rank > 0
    BY <1>2, <1>5, <1>10 DEF InheritInv, Successors
  <2>2. CASE best[m].rank >= best[n].rank
    BY <1>2, <2>2
  <2>3. CASE Announced(n)
    <3>1. PICK i \in DOMAIN queue : queue[i].node = n /\ queue[i].rank >= best[n].rank
      BY <2>3 DEF Announced
    <3>2. CASE i = 1
      BY <1>2, <2>1, <3>1, <3>2 DEF OfferedTo
    <3>3. CASE i # 1
      <4>1. i - 1 \in DOMAIN queue' /\ queue'[i - 1] = queue[i]
        BY <1>1, <1>3, <3>1, <3>3
      <4>2. QED
        BY <1>2, <3>1, <4>1 DEF Announced
    <3>4. QED
      BY <3>2, <3>3
  <2>4. CASE OfferedTo(n, m)
    BY <1>2, <2>4 DEF OfferedTo
  <2>5. QED
    BY <2>1, <2>2, <2>3, <2>4 DEF Flowing
<1>11. QED
  BY <1>6, <1>7, <1>8, <1>9, <1>10 DEF InheritInv, Flowing

LEMMA OfferKeepsInv ==
  ASSUME InheritInv, NEW m \in Nodes, OfferTo(m)
  PROVE  InheritInv'
<1>1. /\ m \in pending.targets /\ pending.rank \in 1..MaxRank /\ pending.root \in Nodes
      /\ Sent(pending.rank, pending.root, m)
  BY DEF InheritInv, InheritTyped, OfferTo
<1>2. /\ pending' = [pending EXCEPT !.targets = @ \ {m}]
      /\ UNCHANGED <<own, graph>>
  BY DEF OfferTo
<1>3. \A n \in Nodes : Ancestors(n)' = Ancestors(n) /\ Successors(n)' = Successors(n)
  BY <1>2 DEF Ancestors, Sources, Successors
<1>4. /\ pending'.targets = pending.targets \ {m} /\ pending'.rank = pending.rank /\ pending'.root = pending.root
      /\ pending' \in [targets : SUBSET Nodes, rank : 0..MaxRank, root : Nodes \cup {"none"}]
  BY <1>2 DEF InheritInv, InheritTyped
<1>5. best \in [Nodes -> [rank : {NoCandidate} \cup 1..MaxRank, root : Nodes]] /\ queue \in Seq(Entries)
      /\ \A n \in Nodes : best[n].rank \in {NoCandidate} \cup 1..MaxRank
  BY DEF InheritInv, InheritTyped
<1>6. \A t \in pending'.targets : Sent(pending.rank, pending.root, t)'
  BY <1>2, <1>3, <1>4 DEF InheritInv, InheritTyped, Sent
<1>7. CASE Governed(m)
  <2>1. UNCHANGED <<best, inherited, queue>>
    BY <1>7 DEF OfferTo
  <2>2. InheritTyped'
    BY <1>2, <1>4, <2>1 DEF InheritInv, InheritTyped
  <2>3. \A n \in Nodes : BestOK(n)'
    BY <1>2, <1>3, <2>1 DEF InheritInv, BestOK
  <2>4. \A i \in DOMAIN queue' : Sent(queue[i].rank, queue[i].root, queue[i].node)'
    <3>1. \A i \in DOMAIN queue : queue[i].node \in Nodes
      BY Numbers
    <3>2. QED
      BY <1>2, <1>3, <2>1, <3>1 DEF InheritInv, Sent
  <2>5. ASSUME NEW n \in Nodes, NEW t \in Successors(n)' PROVE Flowing(n, t)'
    <3>1. t \in Successors(n) /\ t \in Nodes /\ Flowing(n, t)
      BY <1>3, <2>5 DEF InheritInv, Successors
    <3>2. CASE t # m \/ ~OfferedTo(n, t)
      BY <1>4, <2>1, <3>1, <3>2 DEF Flowing, Announced, OfferedTo
    <3>3. CASE t = m /\ OfferedTo(n, t)
      <4>1. best[m].rank >= pending.rank /\ pending.rank >= best[n].rank
        BY <1>7, <3>3 DEF Governed, OfferedTo
      <4>2. best[m].rank >= best[n].rank
        BY <1>1, <1>5, <4>1, NodesFinite DEF NoCandidate
      <4>3. QED
        BY <2>1, <3>3, <4>2 DEF Flowing
    <3>4. QED
      BY <3>2, <3>3
  <2>6. QED
    BY <1>6, <2>2, <2>3, <2>4, <2>5 DEF InheritInv
<1>8. CASE ~Governed(m)
  <2> DEFINE e == [node |-> m, rank |-> pending.rank, root |-> pending.root]
  <2>1. /\ best' = [best EXCEPT ![m] = [rank |-> pending.rank, root |-> pending.root]]
        /\ inherited' = inherited \cup {m}
        /\ queue' = Append(queue, e)
    BY <1>8 DEF OfferTo
  <2>2. best[m].rank < pending.rank /\ pending.rank \in Int
    <3>1. best[m].rank \in Int /\ pending.rank \in Int
      BY <1>1, Numbers
    <3>2. QED
      BY <1>8, <3>1 DEF Governed
  <2>3. e \in Entries
    BY <1>1 DEF Entries
  <2>4. /\ queue' \in Seq(Entries) /\ Len(queue') = Len(queue) + 1 /\ Len(queue) \in Nat
        /\ queue'[Len(queue) + 1] = e
        /\ \A i \in 1..Len(queue) : queue'[i] = queue[i]
    BY <1>5, <2>1, <2>3
  <2>5. /\ best'[m] = [rank |-> pending.rank, root |-> pending.root]
        /\ \A n \in Nodes : n # m => best'[n] = best[n]
    BY <1>5, <2>1
  <2>6. InheritTyped'
    <3>1. best' \in [Nodes -> [rank : {NoCandidate} \cup 1..MaxRank, root : Nodes]]
      BY <1>1, <1>5, <2>1
    <3>2. QED
      BY <1>1, <1>2, <1>4, <2>1, <2>4, <3>1 DEF InheritInv, InheritTyped
  <2>7. own[m] <= best[m].rank \/ own[m] = 0
    <3>1. own[m] \in 0..MaxRank /\ BestOK(m)
      BY DEF InheritInv, InheritTyped
    <3>2. QED
      BY <1>5, <3>1, NodesFinite DEF BestOK, NoCandidate
  <2>8. own[m] < pending.rank /\ pending.root # m /\ pending.root \in Ancestors(m) /\ own[pending.root] = pending.rank
    <3>1. own[m] \in 0..MaxRank
      BY DEF InheritInv, InheritTyped
    <3>2. own[m] < pending.rank
      BY <1>1, <1>5, <2>2, <2>7, <3>1, NodesFinite DEF NoCandidate
    <3>3. QED
      BY <1>1, <3>1, <3>2, NodesFinite DEF Sent
  <2>9. ASSUME NEW n \in Nodes PROVE BestOK(n)'
    <3>1. CASE n = m
      BY <1>1, <1>2, <1>3, <2>1, <2>5, <2>8, <3>1 DEF BestOK
    <3>2. CASE n # m
      BY <1>2, <1>3, <2>1, <2>5, <3>2 DEF BestOK, InheritInv
    <3>3. QED
      BY <3>1, <3>2
  <2>10. ASSUME NEW i \in DOMAIN queue' PROVE Sent(queue[i].rank, queue[i].root, queue[i].node)'
    <3>1. CASE i = Len(queue) + 1
      BY <1>1, <1>2, <1>3, <2>4, <3>1 DEF Sent
    <3>2. CASE i # Len(queue) + 1
      <4>1. i \in DOMAIN queue /\ queue'[i] = queue[i]
        BY <2>4, <3>2
      <4>2. queue[i].node \in Nodes
        BY <4>1, Numbers
      <4>3. QED
        BY <1>2, <1>3, <4>1, <4>2 DEF InheritInv, Sent
    <3>3. QED
      BY <3>1, <3>2
  <2>11. ASSUME NEW n \in Nodes, NEW t \in Successors(n)' PROVE Flowing(n, t)'
    <3>1. t \in Successors(n) /\ t \in Nodes /\ Flowing(n, t)
      BY <1>3, <2>11 DEF InheritInv, Successors
    <3>2. CASE n = m
      <4>1. Len(queue) + 1 \in DOMAIN queue' /\ queue'[Len(queue) + 1].node = m
            /\ queue'[Len(queue) + 1].rank = best'[m].rank /\ best'[m].rank = pending.rank
        BY <2>4, <2>5
      <4>2. queue'[Len(queue) + 1].rank >= best'[m].rank
        BY <1>1, <4>1, NodesFinite
      <4>3. QED
        BY <3>2, <4>1, <4>2 DEF Flowing, Announced
    <3>3. CASE n # m /\ Announced(n)
      <4>1. PICK i \in DOMAIN queue : queue[i].node = n /\ queue[i].rank >= best[n].rank
        BY <3>3 DEF Announced
      <4>2. i \in DOMAIN queue' /\ queue'[i] = queue[i]
        <5>1. i \in 1..Len(queue)
          BY <1>5, <4>1
        <5>2. QED
          BY <2>4, <5>1
      <4>3. QED
        BY <2>5, <3>3, <4>1, <4>2 DEF Flowing, Announced
    <3>4. CASE n # m /\ OfferedTo(n, t) /\ t # m
      BY <1>4, <2>5, <3>4 DEF Flowing, OfferedTo
    <3>5. CASE n # m /\ OfferedTo(n, t) /\ t = m
      BY <1>4, <2>5, <3>5 DEF Flowing, OfferedTo
    <3>6. CASE n # m /\ best[t].rank >= best[n].rank
      <4>0. best[t].rank \in Int /\ best[n].rank \in Int
        BY <3>1, Numbers
      <4>1. best'[n].rank = best[n].rank /\ best'[t].rank >= best[t].rank
        BY <2>2, <2>5, <3>1, <3>6, <4>0
      <4>2. best'[t].rank \in Int
        BY <2>2, <2>5, <3>1, <4>0
      <4>3. QED
        BY <3>6, <4>0, <4>1, <4>2 DEF Flowing
    <3>7. CASE ~(best[n].rank > 0) /\ n # m
      BY <2>5, <3>7 DEF Flowing
    <3>8. QED
      BY <3>1, <3>2, <3>3, <3>4, <3>5, <3>6, <3>7 DEF Flowing
  <2>12. QED
    BY <1>6, <2>6, <2>9, <2>10, <2>11 DEF InheritInv
<1>9. QED
  BY <1>7, <1>8

LEMMA InheritInvHolds == InheritSpec => []InheritInv
<1>1. InheritInv /\ [InheritNext]_inheritVars => InheritInv'
  <2> SUFFICES ASSUME InheritInv, [InheritNext]_inheritVars PROVE InheritInv'
    OBVIOUS
  <2>1. CASE TakeNext
    BY <2>1, TakeNextKeepsInv
  <2>2. CASE \E m \in Nodes : OfferTo(m)
    BY <2>2, OfferKeepsInv
  <2>3. CASE UNCHANGED inheritVars
    <3>1. \A n \in Nodes : Ancestors(n)' = Ancestors(n) /\ Successors(n)' = Successors(n)
      BY <2>3 DEF inheritVars, Ancestors, Sources, Successors
    <3>2. \A i \in DOMAIN queue : queue[i].node \in Nodes
      BY Numbers
    <3>3. InheritTyped' /\ \A n \in Nodes : BestOK(n)'
      BY <2>3, <3>1 DEF inheritVars, InheritInv, InheritTyped, BestOK
    <3>4. \A n \in Nodes : \A m \in Successors(n)' : Flowing(n, m)'
      BY <2>3, <3>1 DEF inheritVars, InheritInv, Flowing, Announced, OfferedTo
    <3>5. (\A i \in DOMAIN queue' : Sent(queue[i].rank, queue[i].root, queue[i].node)')
          /\ \A m \in pending'.targets : Sent(pending.rank, pending.root, m)'
      BY <2>3, <3>1, <3>2 DEF inheritVars, InheritInv, InheritTyped, Sent
    <3>6. QED
      BY <3>3, <3>4, <3>5 DEF InheritInv
  <2>4. QED
    BY <2>1, <2>2, <2>3 DEF InheritNext
<1>2. QED
  BY <1>1, InheritInvInit, PTL DEF InheritSpec

-----------------------------------------------------------------------------
(* The queue and the candidates keep their types. *)
THEOREM InheritanceKeepsItsTypes == InheritSpec => []InheritTypeOK
<1>1. InheritInv => InheritTypeOK
  BY Numbers DEF InheritInv, InheritTyped, InheritTypeOK
<1>2. QED
  BY <1>1, InheritInvHolds, PTL

(* Whatever the graph, round cycles and in every queue order: once         *)
(* criticality has stopped travelling, a supplied value stands, a missing  *)
(* one is the highest of all ancestors, and the root cited for it has it   *)
(* (context_engine.py:21-80).                                              *)
THEOREM HighestGoverns == InheritSpec => []HighestAncestorGoverns
<1>1. InheritInv => HighestAncestorGoverns
  <2> SUFFICES ASSUME InheritInv, Propagated, NEW n \in Nodes
               PROVE  /\ own[n] > 0 => Resolved(n) = own[n]
                      /\ own[n] = 0 => /\ \A m \in Ancestors(n) : own[m] <= Resolved(n)
                                       /\ Resolved(n) > 0 => /\ RootOf(n) \in Ancestors(n)
                                                             /\ own[RootOf(n)] = Resolved(n)
    BY DEF HighestAncestorGoverns
  <2>1. /\ \A k \in Nodes : /\ own[k] \in 0..MaxRank /\ best[k].rank \in {NoCandidate} \cup 1..MaxRank
                            /\ BestOK(k)
        /\ \A k \in Nodes : \A m \in Successors(k) : Flowing(k, m)
    BY DEF InheritInv, InheritTyped
  <2>2. \A k \in Nodes : ~Announced(k) /\ \A m \in Nodes : ~OfferedTo(k, m)
    BY DEF Propagated, Announced, OfferedTo
  <2> DEFINE S == {k \in Nodes : best[k].rank <= best[n].rank}
  <2>3. \A k \in Nodes : \A m \in Sources(k) : m \in Nodes /\ best[m].rank <= best[k].rank
    <3> SUFFICES ASSUME NEW k \in Nodes, NEW m \in Nodes, k \in Successors(m)
                 PROVE  best[m].rank <= best[k].rank
      BY DEF Sources
    <3>1. best[m].rank > 0 => best[k].rank >= best[m].rank
      BY <2>1, <2>2 DEF Flowing
    <3>2. QED
      BY <2>1, <3>1, NodesFinite DEF NoCandidate
  <2>4. Sources(n) \subseteq S /\ \A k \in S : Sources(k) \subseteq S
    <3>1. Sources(n) \subseteq S
      BY <2>3
    <3>2. ASSUME NEW k \in Nodes, best[k].rank <= best[n].rank, NEW m \in Sources(k) PROVE m \in S
      <4>1. m \in Nodes /\ best[m].rank <= best[k].rank
        BY <2>3
      <4>2. QED
        BY <2>1, <3>2, <4>1, NodesFinite DEF NoCandidate
    <3>3. QED
      BY <3>1, <3>2
  <2>5. Ancestors(n) \subseteq S
    <3>1. S \in SUBSET Nodes
      OBVIOUS
    <3> HIDE DEF S
    <3>2. QED
      BY <2>4, <3>1, AncestorsLeast
  <2>6. \A m \in Nodes : own[m] <= best[m].rank \/ own[m] = 0
    <3> SUFFICES ASSUME NEW m \in Nodes PROVE own[m] <= best[m].rank \/ own[m] = 0
      OBVIOUS
    <3>1. own[m] \in 0..MaxRank /\ best[m].rank \in {NoCandidate} \cup 1..MaxRank /\ BestOK(m)
      BY <2>1
    <3>2. QED
      BY <3>1, NodesFinite DEF BestOK, NoCandidate
  <2>7. own[n] > 0 => Resolved(n) = own[n]
    BY DEF Resolved
  <2>8. ASSUME own[n] = 0, NEW m \in Ancestors(n) PROVE own[m] <= Resolved(n)
    <3>1. m \in Nodes /\ best[m].rank <= best[n].rank
      BY <2>5
    <3>2. CASE n \in inherited
      <4>1. Resolved(n) = best[n].rank
        BY <2>8, <3>2, Numbers DEF Resolved
      <4>2. BestOK(n) /\ best[n].rank > 0
        BY <2>1, <2>8, <3>2, NodesFinite DEF BestOK
      <4>3. own[m] \in Int /\ best[m].rank \in Int /\ best[n].rank \in Int
        BY <3>1, Numbers
      <4>4. QED
        BY <2>6, <3>1, <4>1, <4>2, <4>3
    <3>3. CASE n \notin inherited
      <4>1. best[n].rank = -1
        <5>1. ~(own[n] > 0)
          BY <2>8
        <5>2. best[n] = [rank |-> NoCandidate, root |-> n]
          BY <2>1, <3>3, <5>1 DEF BestOK
        <5>3. QED
          BY <5>2 DEF NoCandidate
      <4>2. own[m] = 0
        <5>1. own[m] \in Int /\ own[m] >= 0 /\ best[m].rank \in Int
          BY <3>1, Numbers
        <5>2. QED
          BY <2>6, <3>1, <4>1, <5>1
      <4>3. QED
        BY <2>8, <3>3, <4>2 DEF Resolved
    <3>4. QED
      BY <3>2, <3>3
  <2>9. ASSUME own[n] = 0, Resolved(n) > 0 PROVE RootOf(n) \in Ancestors(n) /\ own[RootOf(n)] = Resolved(n)
    <3>1. n \in inherited
      BY <2>9 DEF Resolved
    <3>2. ~(own[n] > 0) /\ BestOK(n)
      BY <2>1, <2>9
    <3>3. Resolved(n) = best[n].rank /\ RootOf(n) = best[n].root
      BY <2>9, <3>1, <3>2 DEF Resolved, RootOf
    <3>4. QED
      BY <3>1, <3>2, <3>3 DEF BestOK
  <2>10. QED
    BY <2>7, <2>8, <2>9
<1>2. QED
  BY <1>1, InheritInvHolds, PTL
=============================================================================
