-------------------------- MODULE ObservedComparison --------------------------
(***************************************************************************)
(* Declared protocol configuration against protocols seen on the wire,     *)
(* grouped by protocol and version.  A finding is [type, detail, protocol, *)
(* version, observed]; its version is "" when the detail has none.         *)
(***************************************************************************)
EXTENDS Integers, Sequences, FiniteSets

(* Mutant: versions are not told apart. *)
ProtocolOnly(f) == <<f.protocol>>

ProtocolKey(f) == IF f.version = "" THEN <<f.protocol>> ELSE <<f.protocol, f.version>>
Compares(f) == f.type = "protocol" /\ f.detail
WithKey(findings, key, observed) ==
  {i \in DOMAIN findings : /\ Compares(findings[i]) /\ findings[i].observed = observed
                           /\ ProtocolKey(findings[i]) = key}

WeakProtocol(key) == key \in {<<"tls", "1.0">>, <<"tls", "1.1">>} \/ key[1] \in {"ssl", "sslv3", "sslv2"}

CompareProtocolKey(findings, key) ==
  LET declared == Cardinality(WithKey(findings, key, FALSE))
      observed == Cardinality(WithKey(findings, key, TRUE))
  IN [declared |-> declared, observed |-> observed, matched |-> declared > 0 /\ observed > 0,
      severity |-> IF declared = 0 /\ observed > 0 THEN "critical" ELSE "info",
      weak |-> declared = 0 /\ observed > 0 /\ WeakProtocol(key)]

CompareObservedDeclared(findings) ==
  LET keys == {ProtocolKey(findings[i]) : i \in {i \in DOMAIN findings : Compares(findings[i])}}
      at == [k \in keys |-> CompareProtocolKey(findings, k)]
      count(P(_)) == Cardinality({k \in keys : P(at[k])})
  IN [total |-> Cardinality(keys), comparisons |-> at,
      matched |-> count(LAMBDA c : c.matched),
      mismatched |-> count(LAMBDA c : ~c.matched /\ c.declared > 0 /\ c.observed > 0),
      observed_only |-> count(LAMBDA c : c.declared = 0 /\ c.observed > 0),
      declared_only |-> count(LAMBDA c : c.observed = 0 /\ c.declared > 0),
      critical |-> {k \in keys : at[k].severity = "critical"}]

(* Every protocol seen on the wire is accounted for: it matches a          *)
(* declaration of the same protocol and version or it is critical; the     *)
(* counts partition the protocols (of the four, `mismatched' is 0 in every *)
(* answer, here as in the code); and dropping the declarations of a        *)
(* protocol can only make the report more alarming.                        *)
ObservationsAreAccountedFor(findings) ==
  LET s == CompareObservedDeclared(findings)
      undeclared == [i \in {i \in DOMAIN findings : findings[i].observed} |-> findings[i]]
  IN /\ s.total = s.matched + s.mismatched + s.observed_only + s.declared_only
     /\ \A i \in DOMAIN findings : Compares(findings[i]) /\ findings[i].observed =>
          \/ ProtocolKey(findings[i]) \in s.critical
          \/ \E j \in DOMAIN findings :
               /\ Compares(findings[j]) /\ ~findings[j].observed
               /\ <<findings[j].protocol, findings[j].version>>
                    = <<findings[i].protocol, findings[i].version>>
     /\ s.critical \subseteq CompareObservedDeclared(undeclared).critical
=============================================================================
