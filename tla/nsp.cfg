SPECIFICATION FairSpec
CONSTANTS
  Targets = {k1, k2}
  MaxTargets = 1
  ConflictsOf <- AllConflict
  StorageFailures = TRUE
  MaxFailures = 1
  Contexts = {c1, c2, c3}
  NoContext = none
  EntryTimeout = 2
  lb = lb
  Watchers = {lb}
  Selector <- WatchSelector
INVARIANTS EveryRowHasTimer WatchersCurrent
PROPERTIES NeverExpiresEarly UnrefreshedRemoved ImplementsRegistry
