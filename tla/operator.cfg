CONSTANTS
  Children <- MCChildren
  Specs <- MCSpecs
  ClusterScoped = TRUE
  Scenes <- MCScenes
SPECIFICATION Spec
CHECK_DEADLOCK FALSE
INVARIANTS AttractorsDisjoint
PROPERTIES NoLostEdit Converges
