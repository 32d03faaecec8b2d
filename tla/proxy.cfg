SPECIFICATION ProxySpec
INVARIANTS AddressesConsistent RoutesConsistent 
PROPERTIES ConnectionsServed  ReadinessFollows
CHECK_DEADLOCK FALSE
