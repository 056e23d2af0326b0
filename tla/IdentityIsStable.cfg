\* Two scans of one target, documents that name no place twice.
SPECIFICATION IngestSpec
CONSTANTS
  Documents <- GrowingDocuments
  MaxScans = 2
CHECK_DEADLOCK FALSE
INVARIANTS IdentitySurvivesRescan
