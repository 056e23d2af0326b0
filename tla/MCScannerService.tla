-------------------------- MODULE MCScannerService --------------------------
(* Instances of ScannerService for TLC. *)
EXTENDS ScannerService, TLC

\* The first engine is a subprocess, the others run inside the service.
FirstIsSubprocess == {1}

Symmetry == Permutations(Calls)
=============================================================================
