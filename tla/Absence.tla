-------------------------------- MODULE Absence --------------------------------
(* None, for a field whose values are otherwise numbers from 0 up. *)
EXTENDS Integers

Absent == -1
Known(v) == v # Absent
=============================================================================
