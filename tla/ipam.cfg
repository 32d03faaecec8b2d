SPECIFICATION FairSpec
CONSTANTS
  Conduits = {"c1", "c2", "c3"}
  Children <- MCChildren
  Bridge = "bridge"
  Callers = {"p1", "p2"}
  Watcher = "watcher"
  Sizes <- MCSizes
  Base = 4
  Bytes = 2
  Scenes <- MCScenes
INVARIANTS RowsConsistent
PROPERTIES  ServiceSettles
CHECK_DEADLOCK FALSE
