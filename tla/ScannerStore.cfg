\* Two overlapping calls, two engines, two crashes.
SPECIFICATION Spec
CONSTANTS
  Calls = {c1, c2}
  EngineCount = 2
  Subprocess <- FirstIsSubprocess
  None = None
  MaxCrashes = 2
SYMMETRY Symmetry
CHECK_DEADLOCK FALSE
INVARIANTS TypeOK DocumentsAreWhole ReferencesResolve
PROPERTIES ImplementsRegister
