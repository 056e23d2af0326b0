SPECIFICATION FairSpec
CONSTANTS
  s1 = s1
  c1 = c1
  w1 = w1
  a1 = a1
  k1 = k1
  None = None
  Scans = {s1}
  Clients = {c1}
  Workers = {w1}
  Assets = {a1}
  Keys = {k1}
  Documents <- OneDocument
  PostgreSQL = FALSE
  Faults = {"child_killed"}
  MaxFaults = 1
  MaxRequests = 1
CHECK_DEADLOCK FALSE
PROPERTIES
  NeverHangsRunning
