--------------------------- MODULE MigrationWaves ---------------------------
(***************************************************************************)
(* plan_migration_waves: a depth-first walk of the dependency graph gives  *)
(* each candidate a wave after those of its prerequisites, and raises when *)
(* the walk meets an artefact it is still visiting.                        *)
(*                                                                         *)
(* The call stack of wave_for is the sequence `stack'; the waves of the    *)
(* prerequisites already answered are those of `wave'.  A frame asks for   *)
(* its prerequisites in any order, because the code iterates over a set of *)
(* strings.                                                                *)
(***************************************************************************)
EXTENDS Integers, Sequences, FiniteSets

CONSTANTS Candidates,   \* artefacts with an actionable recommendation
          Outside       \* artefacts an edge may name that are no candidate

ASSUME CandidatesFinite == IsFiniteSet(Candidates)

VARIABLES edges,        \* the dependency edges <<source, target>> of the plan
          stack,        \* active calls of wave_for, the innermost last
          visiting,     \* the set of that name
          wave,         \* wave_by_artefact: 0 until it is known
          planner       \* "walking", "planned" or "raised"
planVars == <<edges, stack, visiting, wave, planner>>

(* Edges that leave the candidates are dropped; the target goes first. *)
Prerequisites(a) == {b \in Candidates : <<a, b>> \in edges}

PlanInit ==
  /\ edges \in SUBSET {e \in (Candidates \cup Outside) \X (Candidates \cup Outside) : e[1] # e[2]}
  /\ stack = << >> /\ visiting = {}
  /\ wave = [a \in Candidates |-> 0]
  /\ planner = "walking"

Top == stack[Len(stack)]
Unanswered(a) == {b \in Prerequisites(a) : wave[b] = 0}

(* Mutant: an artefact goes with the last of its prerequisites. *)
WaveWith(a) ==
  IF Prerequisites(a) = {} THEN 1
  ELSE CHOOSE n \in {wave[b] : b \in Prerequisites(a)} :
         \A b \in Prerequisites(a) : wave[b] <= n

(* 1 + the largest wave of the prerequisites, 1 when there is none. *)
WaveAfter(a) ==
  IF Prerequisites(a) = {} THEN 1
  ELSE 1 + (CHOOSE n \in {wave[b] : b \in Prerequisites(a)} :
              \A b \in Prerequisites(a) : wave[b] <= n)

(* The outer loop calls wave_for for each candidate that has no wave yet. *)
CallTop ==
  /\ planner = "walking" /\ stack = << >>
  /\ \E a \in Candidates :
       /\ wave[a] = 0
       /\ stack' = <<a>> /\ visiting' = {a}
  /\ UNCHANGED <<edges, wave, planner>>

CallPrerequisite ==
  /\ planner = "walking" /\ stack # << >>
  /\ \E b \in Unanswered(Top) :
       /\ b \notin visiting
       /\ stack' = Append(stack, b) /\ visiting' = visiting \cup {b}
  /\ UNCHANGED <<edges, wave, planner>>

(* Mutants: a shared prerequisite is taken for a cycle; no cycle is seen. *)
MeetShared ==
  /\ planner = "walking" /\ stack # << >>
  /\ Prerequisites(Top) \cap (visiting \cup {b \in Candidates : wave[b] # 0}) # {}
  /\ planner' = "raised"
  /\ UNCHANGED <<edges, stack, visiting, wave>>
MissCycle == planner = "raised" /\ UNCHANGED planVars

MeetCycle ==
  /\ planner = "walking" /\ stack # << >>
  /\ Unanswered(Top) \cap visiting # {}
  /\ planner' = "raised"
  /\ UNCHANGED <<edges, stack, visiting, wave>>

ReturnWave ==
  /\ planner = "walking" /\ stack # << >>
  /\ Unanswered(Top) = {}
  /\ wave' = [wave EXCEPT ![Top] = WaveAfter(Top)]
  /\ visiting' = visiting \ {Top}
  /\ stack' = SubSeq(stack, 1, Len(stack) - 1)
  /\ UNCHANGED <<edges, planner>>

BuildItems ==
  /\ planner = "walking" /\ stack = << >>
  /\ \A a \in Candidates : wave[a] # 0
  /\ planner' = "planned"
  /\ UNCHANGED <<edges, stack, visiting, wave>>

PlanNext == CallTop \/ CallPrerequisite \/ MeetCycle \/ ReturnWave \/ BuildItems
PlanSpec == PlanInit /\ [][PlanNext]_planVars

-----------------------------------------------------------------------------
PlanTypeOK ==
  /\ edges \subseteq (Candidates \cup Outside) \X (Candidates \cup Outside)
  /\ stack \in Seq(Candidates) /\ visiting \subseteq Candidates
  /\ wave \in [Candidates -> Nat]
  /\ planner \in {"walking", "planned", "raised"}

(* "dependency-first waves": at every moment of the walk, whatever has a   *)
(* wave comes strictly after every in-scope artefact it depends on         *)
(* (migration_planner.py:80-84).                                           *)
PrerequisitesFirst ==
  \A a \in Candidates : wave[a] # 0 =>
    \A b \in Prerequisites(a) : wave[b] # 0 /\ wave[b] < wave[a]

(* The artefacts a depends on, directly or not: the smallest set with its  *)
(* prerequisites and theirs.                                               *)
Needs(a) ==
  {b \in Candidates : \A S \in SUBSET Candidates :
     Prerequisites(a) \subseteq S /\ (\A c \in S : Prerequisites(c) \subseteq S) => b \in S}

(* "A dependency cycle cannot safely be given an automatic sequence, so it *)
(* raises rather than returning a plausible but wrong plan" -- and it only *)
(* raises then, in whatever order the sets are walked.                     *)
RaisesExactlyOnCycles ==
  /\ planner = "raised"  => \E a \in Candidates : a \in Needs(a)
  /\ planner = "planned" => \A a \in Candidates : a \notin Needs(a)

(* No wave is left empty below another: an artefact waits for its deepest  *)
(* prerequisite and for nothing else.                                      *)
WavesAreTight ==
  \A a \in Candidates : wave[a] > 1 => \E b \in Prerequisites(a) : wave[b] = wave[a] - 1

WavesInOrder == PrerequisitesFirst /\ WavesAreTight
=============================================================================
