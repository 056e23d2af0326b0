-------------------------- MODULE MCScanLifecycle --------------------------
(* Instances of ScanLifecycle for TLC. *)
EXTENDS ScanLifecycle, TLC

\* Every run finds the same assets.
OneDocument == {[found |-> Assets, quality |-> "clean"]}

\* Runs of the scanner may differ: one asset each, a gap, or an invalid document.
UnlikeDocuments ==
  {[found |-> {a}, quality |-> "clean"] : a \in Assets}
    \cup {[found |-> {}, quality |-> "gaps"], [found |-> {}, quality |-> "invalid"]}

Symmetry ==
  Permutations(Scans) \cup Permutations(Clients) \cup Permutations(Workers) \cup Permutations(Assets)
=============================================================================
