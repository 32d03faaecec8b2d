------------------------------- MODULE MCProxy -------------------------------
(* Five parts of a proxy that share no state: the addresses of its         *)
(* connections (ProxyAddresses), its bridge, routes and rules              *)
(* (ProxyRoutes), the connections to the load balancers (FullMesh), the    *)
(* interface names (InterfaceNames) and its health (Health).  A behaviour  *)
(* is one of one of them; the others rest in a state without a budget.     *)
EXTENDS Naturals

VARIABLES
  part,
  lease, wire, conn, setter, spawned, releaser, closer, forced, left, overtaken, late, skipped,
  links, nextIndex, events, route, rules, nsmConn, pending, linked, nexthops, vips, flushed, wanted,
  bounds, abandoned, ghosts, unsynced, failedRules,
  present, feed, pc, target, back, expired, known, client, mu, meshCloser, visiting, stopped,
  serviceClosed, nsm, orphans, crashed, budget,
  interfaceNames, interfaceNamesInUse, usedNames, goroutines, mechanism, asked, proposal, names,
  renamed, raced,
  probeToSubServices, status, peer, link, seen, monitor, connIds, endpoint, probe, halted, health

addressVars == <<lease, wire, conn, setter, spawned, releaser, closer, forced, left, overtaken, late,
                 skipped>>
routeVars == <<links, nextIndex, events, route, rules, nsmConn, pending, linked, nexthops, vips,
               flushed, wanted, bounds, abandoned, ghosts, unsynced, failedRules>>
meshVars == <<present, feed, pc, target, back, expired, known, client, mu, meshCloser, visiting, stopped,
              serviceClosed, nsm, orphans, crashed, budget>>
nameVars == <<interfaceNames, interfaceNamesInUse, usedNames, goroutines, mechanism, asked, proposal,
              names, renamed, raced>>
healthVars == <<probeToSubServices, status, peer, link, seen, monitor, connIds, endpoint, probe, halted,
                health>>
allVars == <<part, addressVars, routeVars, meshVars, nameVars, healthVars>>

(* A target and a load balancer, alone with a fault and two closes, alone  *)
(* until the process ends, or both.                                        *)
Resting == [ids |-> {}, requests |-> 0, closes |-> 0, faults |-> 0, stops |-> 0]
AddressBudgets ==
  {Resting,
   [ids |-> {"t1"}, requests |-> 2, closes |-> 2, faults |-> 1, stops |-> 0],
   [ids |-> {"l1"}, requests |-> 3, closes |-> 1, faults |-> 1, stops |-> 0],
   [ids |-> {"l1"}, requests |-> 2, closes |-> 2, faults |-> 1, stops |-> 1],
   [ids |-> {"t1", "l1"}, requests |-> 3, closes |-> 1, faults |-> 0, stops |-> 0]}

(* One connection with every disturbance, two that come and go, and VIPs   *)
(* over a restart.                                                         *)
NoRoutes == [conns |-> {}, links |-> 0, faults |-> 0, restarts |-> 0, updates |-> 0, closes |-> 0, vips |-> 0]
RouteScenes ==
  {NoRoutes,
   [NoRoutes EXCEPT !.conns = {"l1"}, !.links = 3, !.faults = 1, !.restarts = 1, !.updates = 1, !.closes = 1],
   [NoRoutes EXCEPT !.conns = {"l1", "l2"}, !.links = 2, !.closes = 1],
   [NoRoutes EXCEPT !.faults = 2, !.restarts = 1, !.vips = 4]}

(* Endpoints that come, go and stop the proxy; endpoints whose changes are *)
(* not reported.                                                           *)
NoMesh == [start |-> {}, changes |-> 0, lost |-> 0, faults |-> 0, stops |-> 0]
MeshScenes ==
  {NoMesh,
   [start |-> {"e1"}, changes |-> 3, lost |-> 0, faults |-> 1, stops |-> 1],
   [start |-> {"e1"}, changes |-> 1, lost |-> 2, faults |-> 1, stops |-> 0]}

NoNames == [requests |-> 0, closes |-> 0, failures |-> 0, restarts |-> 0]
NameScenes == {NoNames, [requests |-> 4, closes |-> 2, failures |-> 1, restarts |-> 1]}

NoHealth == [breaks |-> 0, changes |-> 0, stops |-> 0]
HealthScenes ==
  {NoHealth, [breaks |-> 2, changes |-> 1, stops |-> 0], [breaks |-> 0, changes |-> 3, stops |-> 1]}

Addresses == INSTANCE ProxyAddresses WITH
  Targets <- {"t1"}, LoadBalancers <- {"l1"}, Pool <- 1..4, Stale <- {11, 12}, Vip <- 20,
  Gateway <- 9, OldGateway <- 19, Budgets <- AddressBudgets

Routes == INSTANCE ProxyRoutes WITH
  Conns <- {"l1", "l2"}, Neighbor <- [c \in {"l1", "l2"} |-> IF c = "l1" THEN {1, 2} ELSE {3}],
  Vips <- {"v1", "v2"}, MaxIndex <- 3, Scenes <- RouteScenes, conn <- nsmConn, left <- bounds

Mesh == INSTANCE FullMesh WITH Endpoints <- {"e1", "e2"}, closer <- meshCloser

InterfaceNamesOf == INSTANCE InterfaceNames WITH Users <- {"a", "b"}, LastName <- 2

HealthOf == INSTANCE Health WITH Clients <- {"IPAMCli", "NSPCli"}, Balancers <- {"l1", "l2"}

ProxyInit ==
  /\ part \in {"addresses", "routes", "mesh", "names", "health"}
  /\ Addresses!Init /\ ((part = "addresses") <=> (left # Resting))
  /\ Routes!Init /\ ((part = "routes") <=> (bounds # NoRoutes))
  /\ Mesh!Init /\ ((part = "mesh") <=> (budget # NoMesh))
  /\ InterfaceNamesOf!Init /\ ((part = "names") <=> (names # NoNames))
  /\ HealthOf!Init /\ ((part = "health") <=> (health # NoHealth))
  /\ part # "health" => \A c \in {"IPAMCli", "NSPCli"} : peer[c]

AddressesOnly == part = "addresses" /\ UNCHANGED <<part, routeVars, meshVars, nameVars, healthVars>>
RoutesOnly == part = "routes" /\ UNCHANGED <<part, addressVars, meshVars, nameVars, healthVars>>
MeshOnly == part = "mesh" /\ ~crashed /\ UNCHANGED <<part, addressVars, routeVars, nameVars, healthVars>>
NamesOnly == part = "names" /\ UNCHANGED <<part, addressVars, routeVars, meshVars, healthVars>>
HealthOnly == part = "health" /\ UNCHANGED <<part, addressVars, routeVars, meshVars, nameVars>>

ProxyNext ==
  \/ AddressesOnly /\ Addresses!Next
  \/ RoutesOnly /\ Routes!Next
  \/ MeshOnly /\ Mesh!Next
  \/ NamesOnly /\ InterfaceNamesOf!Next
  \/ HealthOnly /\ HealthOf!Next

(* The fairness of the five specifications, each in its own behaviours. *)
ProxyFairness ==
  /\ WF_allVars(\/ AddressesOnly /\ Addresses!Proceed
                \/ NamesOnly /\ InterfaceNamesOf!Proceed
                \/ RoutesOnly /\ (Routes!Monitor \/ Routes!Forwarder)
                \/ MeshOnly /\ Mesh!Discover
                \/ HealthOnly /\ HealthOf!Probing)
  /\ WF_allVars(\/ RoutesOnly /\ Routes!Chain("l1")
                \/ MeshOnly /\ Mesh!Closing
                \/ HealthOnly /\ HealthOf!Watching("IPAMCli"))
  /\ WF_allVars(\/ RoutesOnly /\ Routes!Chain("l2")
                \/ MeshOnly /\ Mesh!Clients
                \/ HealthOnly /\ HealthOf!Watching("NSPCli"))

ProxySpec == ProxyInit /\ [][ProxyNext]_allVars /\ ProxyFairness

(* The addresses of an established connection stay reserved in the IPAM,   *)
(* are the ones in its context, and belong to no other connection, although *)
(* a release that was delayed may race with the next request.              *)
AddressesConsistent ==
  Addresses!TypeOK /\ Addresses!ConnectedReserved /\ Addresses!ContextCurrent /\ Addresses!AddressesDistinct

(* The nexthops are the neighbors of linked interfaces, the kernel's route *)
(* has exactly them, and the source rules are those of the VIPs, however   *)
(* the events of NSM, the kernel and the configuration overtake each other. *)
RoutesConsistent ==
  Routes!TypeOK /\ Routes!NexthopsLinked /\ Routes!LinkedExist /\ Routes!RouteMatches /\ Routes!RulesFollow

(* What a connection holds follows it: while its link is there it is again *)
(* and again a nexthop, and when it is gone its addresses and its          *)
(* interface name are released.                                            *)
ConnectionsServed ==
  Routes!ConnectedRouted /\ Addresses!ReleasedEventually /\ InterfaceNamesOf!NamesReleased

(* The proxy's connections follow the endpoints of the network service,    *)
(* each belongs to a client, Close returns, and then nothing is connected. *)
MeshFollows ==
  /\ Mesh!MeshFollows /\ Mesh!CloseReturns
  /\ [](Mesh!TypeOK /\ Mesh!ConnectionsOwned /\ Mesh!ClosedForGood)

(* Two connections do not have the same interface name, an established one *)
(* keeps its name, and the cache, its index and the generator agree.       *)
NamesConsistent ==
  InterfaceNamesOf!TypeOK /\ InterfaceNamesOf!NamesDistinct /\ InterfaceNamesOf!NamesKept /\ InterfaceNamesOf!CacheInSync

(* The probes are the conjunction of their subservices, and readiness      *)
(* comes to say what is the case.                                          *)
ReadinessFollows ==
  HealthOf!ReadinessFollows /\ [](HealthOf!TypeOK /\ HealthOf!ProbeFollows)
=============================================================================
