\* Two overlapping calls, no crash.
SPECIFICATION Spec
CONSTANTS
  Calls = {c1, c2}
  EngineCount = 2
  Subprocess <- FirstIsSubprocess
  None = None
  MaxCrashes = 0
CHECK_DEADLOCK FALSE
PROPERTIES PublishedStands
