\* Risk records, reports, the progress stream, the limiter and target directories, one at a time.
SPECIFICATION Spec
CONSTANTS
  Projects = {"p", "q"}
  Artefacts = {"a", "b"}
  Fields = {"criticality", "lifetime"}
  Home <- HomeOf
  MaxCalls = 3
  Reports = {r1, r2}
  ScanIds = {s1, s2}
  Keys = {k1, k2}
  NoKey = NoKey
  Writers = {w1, w2}
  Sse = {c1}
  Ws = {c2}
  MaxEvents = 3
  MaxConnects = 2
  Hosts = {h1, h2}
  Limit = 2
  Window = 3
  MaxTime = 5
  Tasks = {t1, t2}
  MaxCrashes = 2
CHECK_DEADLOCK FALSE
INVARIANTS
  PlatformTyped QuietRecordsAgree OnePresetInForce AnswersAreDownloadable
  NoEventSkipped LimitHoldsInEveryWindow PreparedTreesAreWhole
PROPERTIES
  NamedFieldsOnly EventsArrive
