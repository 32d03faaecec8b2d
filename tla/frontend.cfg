SPECIFICATION FairSpec
CONSTANTS
  s1 = s1
  none = none
  Configs <- PlainAndDual
  Secrets = {s1}
  NoSecret = none
  Families = {4, 6}
  AuthChCapacity = 1
  MaxSessionErrors = 0
  Budgets <- Scenes
INVARIANTS RoutingFollowsConfig
PROPERTIES ConfigApplied AnnouncementsFollow
CHECK_DEADLOCK FALSE
