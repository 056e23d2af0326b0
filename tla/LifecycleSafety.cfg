SPECIFICATION Spec
CONSTANTS
  s1 = s1
  c1 = c1
  c2 = c2
  w1 = w1
  w2 = w2
  a1 = a1
  a2 = a2
  k1 = k1
  None = None
  Scans = {s1}
  Clients = {c1, c2}
  Workers = {w1, w2}
  Assets = {a1, a2}
  Keys = {k1}
  Documents <- UnlikeDocuments
  PostgreSQL = TRUE
  Faults = {"redelivered", "worker_crash", "child_killed", "api_crash", "store_error"}
  MaxFaults = 1
  MaxRequests = 3
SYMMETRY Symmetry
CHECK_DEADLOCK FALSE
INVARIANTS
  TypeOK
  LiveScansAreInHand
  LogAgreesWithStatus
  ArtefactsAccountedFor
  NoSecondInsert
PROPERTIES
  SettledStaysSettled
