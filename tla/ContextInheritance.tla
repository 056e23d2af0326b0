------------------------- MODULE ContextInheritance -------------------------
(***************************************************************************)
(* inherit_dependency_criticality: known criticalities flow down the       *)
(* dependency edges through a work queue, and an artefact that has none of *)
(* its own takes the highest that reaches it, with the root it came from.  *)
(* Criticality is its rank, 0 when unknown.                                *)
(***************************************************************************)
EXTENDS Integers, Sequences, FiniteSets, SequencesExt

CONSTANTS Nodes, MaxRank

ASSUME NodesFinite == IsFiniteSet(Nodes) /\ MaxRank \in Nat

VARIABLES own,          \* directly supplied criticality of each node
          graph,        \* edges <<source, target>>
          best,         \* candidates: [rank, root] per node, rank -1 when absent
          inherited,    \* the nodes of the dict `inherited'
          queue,        \* entries <<node, rank, root>>
          pending       \* targets of the entry just taken, with its rank and root
inheritVars == <<own, graph, best, inherited, queue, pending>>

Successors(n) == {m \in Nodes : <<n, m>> \in graph}
NoCandidate == -1
Idle == [targets |-> {}, rank |-> 0, root |-> "none"]

InheritInit ==
  /\ own \in [Nodes -> 0..MaxRank]
  /\ graph \in SUBSET {e \in Nodes \X Nodes : e[1] # e[2]}
  /\ best = [n \in Nodes |-> [rank |-> IF own[n] > 0 THEN own[n] ELSE NoCandidate, root |-> n]]
  /\ queue \in {[i \in DOMAIN s |-> [node |-> s[i], rank |-> own[s[i]], root |-> s[i]]] :
                  s \in SetToSeqs({n \in Nodes : own[n] > 0})}
  /\ inherited = {} /\ pending = Idle

TakeNext ==
  /\ pending.targets = {} /\ queue # << >>
  /\ pending' = [targets |-> Successors(Head(queue).node), rank |-> Head(queue).rank,
                 root |-> Head(queue).root]
  /\ queue' = Tail(queue)
  /\ UNCHANGED <<own, graph, best, inherited>>

(* Mutants: the first value to arrive stays; an equal one replaces it. *)
FirstGoverns(m) == best[m].rank # NoCandidate
EqualReplaces(m) == best[m].rank > pending.rank

Governed(m) == best[m].rank >= pending.rank

(* One target of the entry: kept when it already has as much. *)
OfferTo(m) ==
  /\ m \in pending.targets
  /\ pending' = [pending EXCEPT !.targets = @ \ {m}]
  /\ IF Governed(m)
     THEN UNCHANGED <<best, inherited, queue>>
     ELSE /\ best' = [best EXCEPT ![m] = [rank |-> pending.rank, root |-> pending.root]]
          /\ inherited' = inherited \cup {m}
          /\ queue' = Append(queue, [node |-> m, rank |-> pending.rank, root |-> pending.root])
  /\ UNCHANGED <<own, graph>>

InheritNext == TakeNext \/ \E m \in Nodes : OfferTo(m)
InheritSpec == InheritInit /\ [][InheritNext]_inheritVars

InheritTypeOK ==
  /\ inherited \subseteq Nodes
  /\ \A i \in DOMAIN queue : queue[i].node \in Nodes /\ queue[i].rank \in 1..MaxRank
  /\ \A n \in Nodes : best[n].rank \in {NoCandidate} \cup 1..MaxRank

Propagated == queue = << >> /\ pending.targets = {}

(* The resolved context: a supplied value stands, an inherited one fills. *)
Resolved(n) == IF own[n] > 0 THEN own[n] ELSE IF n \in inherited THEN best[n].rank ELSE 0
RootOf(n) == IF own[n] = 0 /\ n \in inherited THEN best[n].root ELSE n

(* The smallest set with the sources of n and the sources of its members. *)
Sources(n) == {m \in Nodes : n \in Successors(m)}
Ancestors(n) ==
  {m \in Nodes : \A S \in SUBSET Nodes :
     Sources(n) \subseteq S /\ (\A k \in S : Sources(k) \subseteq S) => m \in S}

(* "among inherited paths, the highest known criticality governs", even    *)
(* through nodes with a lower value of their own, round cycles and in      *)
(* every queue order; "a directly supplied value is never overwritten";    *)
(* and the recorded root really has the criticality it is cited for.       *)
HighestAncestorGoverns ==
  Propagated => \A n \in Nodes :
    /\ own[n] > 0 => Resolved(n) = own[n]
    /\ own[n] = 0 => /\ \A m \in Ancestors(n) : own[m] <= Resolved(n)
                     /\ Resolved(n) > 0 => /\ RootOf(n) \in Ancestors(n)
                                           /\ own[RootOf(n)] = Resolved(n)
=============================================================================
