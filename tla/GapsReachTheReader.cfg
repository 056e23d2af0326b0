\* One call, no crash.
SPECIFICATION Spec
CONSTANTS
  Calls = {c1}
  EngineCount = 2
  Subprocess <- FirstIsSubprocess
  None = None
  MaxCrashes = 0
CHECK_DEADLOCK FALSE
INVARIANTS GapsReachTheReader
