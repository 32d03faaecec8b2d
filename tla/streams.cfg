SPECIFICATION Spec
CONSTANTS
  Targets = {t1, t2, t3}
  MaxTargets = 2
  ConflictsOf <- NoConflicts
  StorageFailures = TRUE
  Expiry = TRUE
  FailingCalls <- CallsOfOpenAndClose
SYMMETRY TargetSymmetry
INVARIANTS UniqueIdentifiers IdentifierAvailable
PROPERTIES ImplementsLease
