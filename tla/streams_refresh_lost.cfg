SPECIFICATION Spec
CONSTANTS
  Targets = {t1, t2}
  MaxTargets = 2
  ConflictsOf <- NoConflicts
  StorageFailures = FALSE
  Expiry = TRUE
  FailingCalls = {"verify"}
INVARIANT UniqueIdentifiers
