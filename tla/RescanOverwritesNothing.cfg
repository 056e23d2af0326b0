SPECIFICATION FairSpec
CONSTANTS
  s1 = s1
  s2 = s2
  c1 = c1
  w1 = w1
  a1 = a1
  k1 = k1
  None = None
  Scans = {s1, s2}
  Clients = {c1}
  Workers = {w1}
  Assets = {a1}
  Keys = {k1}
  Documents <- OneDocument
  PostgreSQL = FALSE
  Faults = {}
  MaxFaults = 0
  MaxRequests = 2
CHECK_DEADLOCK FALSE
PROPERTIES
  RescanOverwritesNothing
