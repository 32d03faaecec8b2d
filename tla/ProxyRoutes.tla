----------------------------- MODULE ProxyRoutes -----------------------------
(***************************************************************************)
(* How a proxy's bridge, nexthop route and source rules follow the NSM     *)
(* interfaces towards the load balancers and the VIPs.  Two parties report *)
(* an interface: the NSM chain, which knows the connection and looks for   *)
(* the link by name, and the kernel, whose events are handled one by one   *)
(* after the link came or went.  Netlink calls may fail, and the process   *)
(* may restart while links, rules and the route stay in the kernel.        *)
(*                                                                         *)
(* One neighbor address per interface at a time; one IP family.            *)
(***************************************************************************)
EXTENDS Naturals, Sequences, FiniteSets

CONSTANTS
  Conns,          \* connections to load balancers; each has its interface name
  Neighbor,       \* Neighbor[c]: addresses the far end of c may have
  Vips,
  MaxIndex,       \* bound: links the kernel creates
  Scenes          \* [conns: connections in use, links, faults, restarts, updates, closes of each
                  \* connection, vips: updates of the VIPs]


VARIABLES
  links,          \* kernel: index -> connection whose interface it is
  nextIndex,
  events,         \* kernel events the monitor has not handled
  route,          \* nexthops of the route in the kernel's table
  rules,          \* VIPs with a source rule in the kernel
  conn,           \* conn[c] = [state, ip, step, index, fresh, closed]: NSM's side of it, where
                  \* its request is, the index found, the link of this request, closes done
  pending,        \* pendingInterfaces: connection -> address, 0 when absent
  linked,         \* Bridge.linkedInterfaces: set of <<index, address>>
  nexthops,       \* NexthopRoute.nexthops
  vips,           \* Proxy.vips
  flushed,        \* the rules of an earlier process have been flushed
  wanted,         \* the VIPs of the last update
  left,
  abandoned,      \* addresses replaced on a linked interface
  ghosts,         \* links reported created after they were gone
  unsynced,       \* the last change of the route failed, or the process is new
  failedRules     \* VIPs whose rule a failed netlink call left wrong

kernel == <<links, nextIndex, events>>
routing == <<route, nexthops, linked, abandoned, ghosts, unsynced>>
vipVars == <<rules, vips, flushed, wanted, failedRules>>
vars == <<links, nextIndex, events, route, rules, conn, pending, linked, nexthops, vips, flushed,
          wanted, left, abandoned, ghosts, unsynced, failedRules>>

NewConn(ip) == [state |-> "new", ip |-> ip, step |-> "idle", index |-> 0, fresh |-> 0, closed |-> 0]

Init ==
  /\ links = <<>> /\ nextIndex = 1 /\ events = <<>>
  /\ route = {} /\ rules \in SUBSET Vips
  /\ conn = [c \in Conns |-> NewConn(CHOOSE a \in Neighbor[c] : TRUE)]
  /\ pending = [c \in Conns |-> 0]
  /\ linked = {} /\ nexthops = {} /\ vips = {} /\ flushed = FALSE /\ wanted = {}
  /\ left \in Scenes
  /\ left.vips = 0 => rules = {}
  /\ abandoned = {} /\ ghosts = {} /\ unsynced = FALSE /\ failedRules = {}

Spend(what) == left[what] > 0 /\ left' = [left EXCEPT ![what] = @ - 1]

(* A netlink call works, or fails within the bound. *)
Netlink(ok) == IF ok THEN UNCHANGED left ELSE Spend("faults")

LinkOf(c) == {i \in DOMAIN links : links[i] = c}

-----------------------------------------------------------------------------
(* The kernel and NSM's forwarder. *)

(* The forwarder moves the interface of a connection into the pod; names   *)
(* are unique, so the link it replaces has to go first.                    *)
Plug(c) ==
  /\ conn[c].state \in {"requesting", "up"} /\ conn[c].fresh = 0
  /\ nextIndex <= left.links
  /\ LinkOf(c) = {}
  /\ links' = [i \in DOMAIN links \union {nextIndex} |-> IF i = nextIndex THEN c ELSE links[i]]
  /\ nextIndex' = nextIndex + 1
  /\ events' = Append(events, [new |-> TRUE, index |-> nextIndex])
  /\ conn' = [conn EXCEPT ![c].fresh = nextIndex]
  /\ UNCHANGED <<routing, vipVars, pending, left>>

(* A link whose connection was closed goes. *)
Unplug(i) ==
  /\ i \in DOMAIN links
  /\ conn[links[i]].fresh # i
  /\ links' = [j \in DOMAIN links \ {i} |-> links[j]]
  /\ events' = Append(events, [new |-> FALSE, index |-> i])
  /\ UNCHANGED <<nextIndex, routing, vipVars, conn, pending, left>>

-----------------------------------------------------------------------------
(* NexthopRoute and Bridge. *)

(* updateRoute, and removeRoute for the last nexthop: the kernel's route   *)
(* gets the nexthops of the list.                                          *)
UpdateRoute(list, ok) ==
  /\ Netlink(ok)
  /\ route' = IF ok THEN list ELSE route

(* AddNexthop: a failed update takes the nexthop from the list again. *)
AddNexthop(ip, ok) ==
  IF ip \in nexthops
  THEN ok /\ UNCHANGED <<nexthops, route, unsynced, left>>
  ELSE /\ UpdateRoute(nexthops \union {ip}, ok)
       /\ nexthops' = IF ok THEN nexthops \union {ip} ELSE nexthops
       /\ unsynced' = IF ok THEN FALSE ELSE unsynced

(* Mutant: the route is replaced before the list changes. *)
RemoveNexthopStale(ip, ok) ==
  IF ip \notin nexthops
  THEN ok /\ UNCHANGED <<nexthops, route, unsynced, left>>
  ELSE /\ UpdateRoute(nexthops, ok)
       /\ nexthops' = nexthops \ {ip}
       /\ unsynced' = ~ok

(* RemoveNexthop: the nexthop is off the list even when the route could    *)
(* not be replaced or, for the last one, deleted.                          *)
RemoveNexthop(ip, ok) ==
  IF ip \notin nexthops
  THEN ok /\ UNCHANGED <<nexthops, route, unsynced, left>>
  ELSE /\ UpdateRoute(nexthops \ {ip}, ok)
       /\ nexthops' = nexthops \ {ip}
       /\ unsynced' = ~ok

FindLinkedInterfaceByIndex(index) == {l \in linked : l[1] = index}

(* LinkInterface: a linked interface of the same index is replaced. *)
LinkInterface(index, ip) == (linked \ FindLinkedInterfaceByIndex(index)) \union {<<index, ip>>}

(* UnLinkInterface: only an interface with these very addresses is found. *)
UnLinkInterface(index, ip) == linked \ {<<index, ip>>}

(* Mutant: an interface that is linked already is not looked at again. *)
InterfaceCreatedOnce(index, ip, ok) ==
  IF <<index, ip>> \in linked THEN ok /\ UNCHANGED <<routing, left>>
  ELSE /\ linked' = LinkInterface(index, ip)
       /\ AddNexthop(ip, ok)
       /\ abandoned' = (abandoned \union {l[2] : l \in linked \ linked'}) \ {ip}
       /\ ghosts' = IF index \in DOMAIN links THEN ghosts ELSE ghosts \union {index}

(* Proxy.InterfaceCreated for an interface of type NSC: it is linked and   *)
(* its neighbor becomes a nexthop, on every refresh of the connection.     *)
InterfaceCreated(index, ip, ok) ==
  /\ linked' = LinkInterface(index, ip)
  /\ AddNexthop(ip, ok)
  /\ abandoned' = (abandoned \union {l[2] : l \in linked \ linked'}) \ {ip}
  /\ ghosts' = IF index \in DOMAIN links THEN ghosts ELSE ghosts \union {index}

(* Proxy.InterfaceDeleted: only an interface linked with these addresses   *)
(* is unlinked, but its neighbor is removed from the nexthops in any case. *)
InterfaceDeleted(index, ip, ok) ==
  /\ linked' = UnLinkInterface(index, ip)
  /\ RemoveNexthop(ip, ok)
  /\ abandoned' = abandoned \ {ip}
  /\ UNCHANGED ghosts

-----------------------------------------------------------------------------
(* The interface monitor: the NSM chain. *)

StartRequest(c) ==
  /\ c \in left.conns
  /\ conn[c].state \in {"new", "closed"}
  /\ conn' = [conn EXCEPT ![c].state = "requesting"]
  /\ UNCHANGED <<kernel, routing, vipVars, pending, left>>

(* The request returns; a refresh may bring another address. *)
Returned(c) ==
  /\ conn[c].step = "idle"
  /\ conn[c].state \in {"requesting", "up"}
  /\ \E ip \in Neighbor[c] :
       /\ IF ip = conn[c].ip THEN UNCHANGED left ELSE Spend("updates")
       /\ conn' = [conn EXCEPT ![c].state = "up", ![c].ip = ip, ![c].step = "lookup"]
  /\ UNCHANGED <<kernel, routing, vipVars, pending>>

(* ConnectionRequested looks for the link by its name.  An interface it    *)
(* finds is reported; another is stored until the kernel reports it.       *)
Lookup(c) ==
  /\ conn[c].step = "lookup"
  /\ conn' = [conn EXCEPT
       ![c].step = IF LinkOf(c) = {} THEN "store" ELSE "report",
       ![c].index = IF LinkOf(c) = {} THEN 0 ELSE CHOOSE i \in LinkOf(c) : TRUE]
  /\ UNCHANGED <<kernel, routing, vipVars, pending, left>>

Report(c, ok) ==
  /\ conn[c].step = "report"
  /\ InterfaceCreated(conn[c].index, conn[c].ip, ok)
  /\ conn' = [conn EXCEPT ![c].step = "idle", ![c].index = 0]
  /\ UNCHANGED <<kernel, vipVars, pending>>

Store(c) ==
  /\ conn[c].step = "store"
  /\ pending' = [pending EXCEPT ![c] = conn[c].ip]
  /\ conn' = [conn EXCEPT ![c].step = "idle"]
  /\ UNCHANGED <<kernel, routing, vipVars, left>>

(* ConnectionClosed, before NSM removes the link: without a link nothing   *)
(* is reported.                                                            *)
Close(c, ok) ==
  /\ conn[c].state = "up" /\ conn[c].step = "idle" /\ conn[c].closed < left.closes
  /\ IF LinkOf(c) = {}
     THEN ok /\ UNCHANGED <<routing, left>>
     ELSE \E i \in LinkOf(c) : InterfaceDeleted(i, conn[c].ip, ok)
  /\ conn' = [conn EXCEPT ![c].state = "closed", ![c].fresh = 0, ![c].closed = @ + 1]
  /\ UNCHANGED <<kernel, vipVars, pending>>

(* The interface monitor: the kernel's events.  The name of a new link is  *)
(* looked up when its event is handled, and may be gone by then.           *)
HandleCreated(ok) ==
  /\ events # <<>> /\ Head(events).new
  /\ events' = Tail(events)
  /\ LET i == Head(events).index
     IN  IF i \in DOMAIN links /\ pending[links[i]] # 0
         THEN /\ InterfaceCreated(i, pending[links[i]], ok)
              /\ pending' = [pending EXCEPT ![links[i]] = 0]
         ELSE ok /\ UNCHANGED <<routing, pending, left>>
  /\ UNCHANGED <<links, nextIndex, vipVars, conn>>

(* A removed link is found among the linked interfaces by its index. *)
HandleDeleted(ok) ==
  /\ events # <<>> /\ ~Head(events).new
  /\ events' = Tail(events)
  /\ LET found == FindLinkedInterfaceByIndex(Head(events).index)
     IN  IF found = {}
         THEN ok /\ UNCHANGED <<routing, left>>
         ELSE \E l \in found : InterfaceDeleted(l[1], l[2], ok)
  /\ UNCHANGED <<links, nextIndex, vipVars, conn, pending>>

-----------------------------------------------------------------------------
(* VIPs. *)

(* flushRules, by the first SetVIPs: no rule of the proxy's table is left. *)
FlushRules(fails) == IF flushed \/ fails THEN rules ELSE {}

(* newVirtualIP: the VIPs that get their rule.  One that is there already  *)
(* makes adding it fail.                                                   *)
NewVirtualIPs(new, existing, noAdd) == ((new \ vips) \ noAdd) \ existing

(* virtualIP.Delete: the VIPs whose rule goes. *)
DeletedVirtualIPs(new, noDel) == (vips \ new) \ noDel

(* SetVIPs: a VIP is off the list even when its rule could not be deleted. *)
(* The arguments other than new are the netlink calls that fail.           *)
SetVIPs(new, noAdd, noDel, noFlush) ==
  LET old == FlushRules(noFlush)
      added == NewVirtualIPs(new, old, noAdd)
      deleted == DeletedVirtualIPs(new, noDel)
  IN  /\ Spend("vips")
      /\ noAdd \subseteq new \ vips /\ noDel \subseteq vips \ new /\ (noFlush => ~flushed)
      /\ Cardinality(noAdd) + Cardinality(noDel) + (IF noFlush THEN 1 ELSE 0) <= left.faults
      /\ flushed' = TRUE /\ wanted' = new
      /\ rules' = (old \union added) \ deleted
      /\ vips' = (vips \union added) \intersect new
      /\ failedRules' = (failedRules \ (added \union deleted))
                          \union noAdd \union noDel \union (IF noFlush THEN rules ELSE {})
      /\ UNCHANGED <<kernel, routing, conn, pending>>

(* The process restarts: its lists are empty, the kernel keeps its state,  *)
(* and NSM's connections are requested anew.                               *)
Restart ==
  /\ Spend("restarts")
  /\ conn' = [c \in Conns |-> [NewConn(conn[c].ip) EXCEPT !.closed = conn[c].closed]]
  /\ pending' = [c \in Conns |-> 0] /\ linked' = {} /\ nexthops' = {} /\ abandoned' = {} /\ ghosts' = {}
  /\ unsynced' = TRUE /\ events' = <<>>
  /\ vips' = {} /\ flushed' = FALSE /\ failedRules' = {} /\ wanted' = {}
  /\ UNCHANGED <<links, nextIndex, route, rules>>

Chain(c) == Returned(c) \/ Lookup(c) \/ Store(c) \/ \E ok \in BOOLEAN : Report(c, ok)

Monitor == \E ok \in BOOLEAN : HandleCreated(ok) \/ HandleDeleted(ok)

Forwarder == (\E c \in Conns : Plug(c)) \/ (\E i \in 1..MaxIndex : Unplug(i))

Next ==
  \/ \E c \in Conns : StartRequest(c) \/ Chain(c) \/ \E ok \in BOOLEAN : Close(c, ok)
  \/ Monitor \/ Forwarder
  \/ \E new \in SUBSET Vips : \E noAdd, noDel \in SUBSET Vips, noFlush \in BOOLEAN :
       SetVIPs(new, noAdd, noDel, noFlush)
  \/ Restart

(* The monitor handles events, the forwarder plugs and removes links, and  *)
(* NSM refreshes every connection again and again.                         *)
Spec ==
  /\ Init /\ [][Next]_vars
  /\ WF_vars(Monitor \/ Forwarder)
  /\ \A c \in Conns : WF_vars(Chain(c))

-----------------------------------------------------------------------------
(* Properties. *)

TypeOK ==
  /\ DOMAIN links \subseteq 1..MaxIndex /\ nextIndex \in 1..(MaxIndex + 1)
  /\ \A i \in DOMAIN links : links[i] \in Conns
  /\ linked \subseteq (1..MaxIndex) \X UNION {Neighbor[c] : c \in Conns}
  /\ \A c \in Conns : /\ conn[c].state \in {"new", "requesting", "up", "closed"}
                      /\ conn[c].step \in {"idle", "lookup", "store", "report"}
                      /\ pending[c] \in Neighbor[c] \union {0}
  /\ nexthops \union abandoned \subseteq UNION {Neighbor[c] : c \in Conns}
  /\ vips \union rules \union wanted \union failedRules \subseteq Vips

(* Every nexthop is the neighbor of an interface linked to the bridge, so  *)
(* that losing the interface takes it from the route.  The exception is    *)
(* the address an interface had before its connection was refreshed with   *)
(* another: nothing removes it.                                            *)
NexthopsLinked == nexthops \subseteq {l[2] : l \in linked} \union abandoned

(* An interface the bridge takes for linked is one the kernel has, or      *)
(* whose removal is still to be handled, or one that went between the      *)
(* moment a request found it and the moment it reported it.                *)
LinkedExist ==
  \A l \in linked :
    \/ l[1] \in DOMAIN links
    \/ l[1] \in ghosts
    \/ \E k \in 1..Len(events) : events[k] = [new |-> FALSE, index |-> l[1]]

(* The kernel's route goes through the listed nexthops, unless the last    *)
(* change of it failed or the process is new.                              *)
RouteMatches == ~unsynced => route = nexthops

(* After an update of the VIPs exactly they have source rules, whatever    *)
(* was there before; only a failed netlink call leaves a rule wrong.       *)
RulesFollow == flushed => rules \ failedRules = wanted \ failedRules

(* Whatever was lost on the way, an established connection whose link is   *)
(* there is again and again a nexthop of the route: the refresh of the     *)
(* connection repairs what a failed or misplaced report left.              *)
ConnectedRouted ==
  []<>(\A c \in Conns :
         (conn[c].state = "up" /\ conn[c].fresh \in DOMAIN links) => conn[c].ip \in route)

=============================================================================
