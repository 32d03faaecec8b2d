SPECIFICATION ChangesSpec
CONSTANTS
  Histories <- SomeHistories
  MaxWatches = 2
  EventCap = 2
  ChanCap = 1
  NoHistory <- EmptyHistory
  Conduits = {"c1", "c2"}
  Groups = {"g1", "g2"}
  Starts <- SomeStarts
  NoStart <- EmptyStart
CHECK_DEADLOCK FALSE
INVARIANTS DeliveredResolved UpdatesSerialized
PROPERTIES WatchersServed UpdatesComplete
