SPECIFICATION LBSpec
CONSTANTS
  Streams = {s1, s2, s3}
  NoStream = none
  Limits = {0, 1, 2}
  Start = 1
  MaxInt = 6
  LimitsImmutable = TRUE
  Identifiers = {i1, i2}
  Addresses = {a1, a2}
  None = none
  MaxWatchers = 2
  Served = {s1, s2}
  Links = {l1, l2}
  SubnetOf <- MCSubnetOf
  StreamsBudgets <- MCStreamsBudgets
  LinksBudget <- MCLinksBudget
  s1 = s1
  s2 = s2
  l1 = l1
  l2 = l2
   
PROPERTIES PendingBecomesActive ChangesDelivered ProcessFollows
CHECK_DEADLOCK FALSE
