--------------------------- MODULE ProxyAddresses ---------------------------
(***************************************************************************)
(* The addresses of a proxy's connections.  A request on a connection sets *)
(* its IP context from two addresses the IPAM keeps for its id, a close    *)
(* releases them in a goroutine after a delay, and a request that comes in *)
(* between cancels that release.  NSM serializes the requests and closes   *)
(* of one connection; everything else overlaps.  A release the IPAM was    *)
(* sent may run after its caller gave up.                                  *)
(*                                                                         *)
(* Targets are connections of type NSE, load balancers of type NSC.  One   *)
(* IP family; the IPAM reserves the first free address of the node.        *)
(***************************************************************************)
EXTENDS Naturals, FiniteSets, FiniteSetsExt

CONSTANTS
  Targets,
  LoadBalancers,
  Pool,           \* addresses the IPAM has for this node
  Stale,          \* addresses of another node's subnet
  Vip,            \* a VIP among a target's addresses
  Gateway,        \* the bridge's address
  OldGateway,     \* the bridge of the other subnet
  Budgets         \* [ids: connections in use, requests, closes, faults, stops]

Ids == Targets \union LoadBalancers
Sides == {"src", "dst"}
Free == 0         \* no address
NoContext == [src |-> {}, dst |-> {}, gateways |-> {}, hops |-> {}]

VARIABLES
  lease,          \* the IPAM's reservation: lease[id][side], or Free
  wire,           \* releases <<id, side>> sent and not yet run
  conn,           \* conn[id] = [state, context], NSM's side of a connection
  setter,         \* the SetIPContext that holds the mutex
  spawned,        \* spawned[id]: release goroutines that have not started
  releaser,       \* the connectionToReleaseMap entry, with where its goroutine is
  closer,         \* Proxy.Close: "open", "closing" or "closed"
  forced,         \* what Close still releases: id -> side
  left,           \* budgets
  overtaken,      \* ids whose request was served before their release goroutine started
  late,           \* ids whose request was served while a release of theirs was on the wire
  skipped         \* ids one of whose releases will not be done

vars == <<lease, wire, conn, setter, spawned, releaser, closer, forced, left, overtaken, late,
          skipped>>

NoSetter == [id |-> "none", at |-> "idle", src |-> Free, clean |-> FALSE]
NoReleaser == [at |-> "none", cancelled |-> FALSE]

(* A target may come with the context another proxy gave it. *)
OldContext == [src |-> {Min(Stale), Vip}, dst |-> {Max(Stale)}, gateways |-> {OldGateway},
               hops |-> {OldGateway}]

Init ==
  /\ left \in Budgets
  /\ lease = [i \in Ids |-> [s \in Sides |-> Free]]
  /\ wire = {}
  /\ conn \in [Ids -> {[state |-> "new", context |-> c] : c \in {NoContext, OldContext}}]
  /\ \A i \in Ids : i \notin Targets \intersect left.ids => conn[i].context = NoContext
  /\ setter = NoSetter
  /\ spawned = [i \in Ids |-> 0]
  /\ releaser = [i \in Ids |-> NoReleaser]
  /\ closer = "open"
  /\ forced = [i \in Ids |-> "none"]
  /\ overtaken = {} /\ late = {} /\ skipped = {}

Spend(what) == left[what] > 0 /\ left' = [left EXCEPT ![what] = @ - 1]

-----------------------------------------------------------------------------
(* The IPAM. *)

Used == {lease[i][s] : i \in Ids, s \in Sides}

(* Allocate answers the address reserved for the child, or a new one. *)
Allocated(id, side) ==
  IF lease[id][side] # Free THEN lease[id][side] ELSE Min(Pool \ Used)

Reserve(id, side) == lease' = [lease EXCEPT ![id][side] = Allocated(id, side)]

-----------------------------------------------------------------------------
(* SetIPContext. *)

(* A request arrives and takes the mutex. *)
Request(id) ==
  /\ Spend("requests") /\ closer = "open" /\ id \in left.ids
  /\ setter = NoSetter
  /\ setter' = [id |-> id, at |-> "cancel", src |-> Free, clean |-> FALSE]
  /\ UNCHANGED <<lease, wire, conn, spawned, releaser, closer, forced, overtaken, late, skipped>>

(* Mutant: the release in progress is not cancelled. *)
CancelReleaseMissing ==
  LET id == setter.id
      sent == forced[id] # "none" \/ \E s \in Sides : <<id, s>> \in wire
  IN  /\ setter.at = "cancel"
      /\ setter' = [setter EXCEPT !.at = "src", !.clean = ~sent /\ spawned[id] = 0]
      /\ overtaken' = IF spawned[id] > 0 THEN overtaken \union {id} ELSE overtaken
      /\ late' = IF sent THEN late \union {id} ELSE late
      /\ skipped' = skipped \ {id}
      /\ UNCHANGED <<lease, wire, conn, spawned, releaser, closer, forced, left>>

(* A release in progress for the id is cancelled. *)
CancelRelease ==
  LET id == setter.id
      sent == forced[id] # "none" \/ \E s \in Sides : <<id, s>> \in wire
  IN  /\ setter.at = "cancel"
      /\ releaser' = IF releaser[id].at = "none" THEN releaser
                     ELSE [releaser EXCEPT ![id].cancelled = TRUE]
      /\ setter' = [setter EXCEPT !.at = "src", !.clean = ~sent /\ spawned[id] = 0]
      /\ overtaken' = IF spawned[id] > 0 THEN overtaken \union {id} ELSE overtaken
      /\ late' = IF sent THEN late \union {id} ELSE late
      /\ skipped' = skipped \ {id}
      /\ UNCHANGED <<lease, wire, conn, spawned, closer, forced, left>>

(* setNSEIpContext: a context that has the addresses and the gateway is    *)
(* left alone.  Another loses the addresses of its gateways' subnet, gets  *)
(* the new ones, and its policy routes go through the new gateway.         *)
NSEContext(c, src, dst) ==
  LET subnet == IF OldGateway \in c.gateways THEN Stale
                ELSE IF Gateway \in c.gateways THEN Pool ELSE {}
  IN  IF c.src = {} /\ c.dst = {}
      THEN [c EXCEPT !.src = {src}, !.dst = {dst}, !.gateways = {Gateway}]
      ELSE IF src \in c.src /\ dst \in c.dst /\ Gateway \in c.gateways
      THEN c
      ELSE [src |-> (c.src \ subnet) \union {src}, dst |-> (c.dst \ subnet) \union {dst},
            gateways |-> {Gateway}, hops |-> IF c.hops = {} THEN {} ELSE {Gateway}]

(* Towards a load balancer the proxy is the client, and the sides swap. *)
Context(id, src, dst) ==
  IF id \in Targets THEN NSEContext(conn[id].context, src, dst)
  ELSE [conn[id].context EXCEPT !.src = {dst}, !.dst = {src}]

(* The first address is allocated, then the second, and the context set.   *)
(* The request goes on through the chain; what it returns for a load       *)
(* balancer's connection decides if the connection is established.         *)
AllocateSrc ==
  /\ setter.at = "src"
  /\ Reserve(setter.id, "src")
  /\ setter' = [setter EXCEPT !.at = "dst", !.src = Allocated(setter.id, "src")]
  /\ UNCHANGED <<wire, conn, spawned, releaser, closer, forced, left, overtaken, late, skipped>>

AllocateDst ==
  LET id == setter.id
  IN  /\ setter.at = "dst"
      /\ Reserve(id, "dst")
      /\ conn' = [conn EXCEPT ![id].context = Context(id, setter.src, Allocated(id, "dst")),
                              ![id].state = "up"]
      /\ setter' = NoSetter
      /\ LET recovered == IF setter.clean /\ closer = "open" THEN {id} ELSE {}
         IN  overtaken' = overtaken \ recovered /\ late' = late \ recovered
      /\ UNCHANGED <<wire, spawned, releaser, closer, forced, left, skipped>>

(* An Allocate fails, before or after the IPAM ran it, or the rest of the  *)
(* chain does.  When the request carries no mechanism, as a first one or   *)
(* one that heals, the ipcontext client releases what was allocated; the   *)
(* server does not.                                                        *)
RequestFails(mechanism) ==
  LET id == setter.id
      unset == id \in LoadBalancers /\ ~mechanism
  IN  /\ Spend("faults")
      /\ setter.at \in Sides
      /\ mechanism => conn[id].state = "up"
      /\ (UNCHANGED lease \/ Reserve(id, setter.at))
      /\ setter' = NoSetter
      /\ spawned' = IF unset THEN [spawned EXCEPT ![id] = @ + 1] ELSE spawned
      /\ conn' = IF unset THEN [conn EXCEPT ![id].state = "closed"] ELSE conn
      /\ skipped' = IF unset THEN skipped ELSE skipped \union {id}
      /\ UNCHANGED <<wire, releaser, closer, forced, overtaken, late>>

-----------------------------------------------------------------------------
(* UnsetIPContext and ipReleaser. *)

(* A close starts a goroutine and does not wait for it. *)
Close(id) ==
  /\ Spend("closes") /\ closer = "open" /\ id \in left.ids
  /\ setter.id # id
  /\ spawned' = [spawned EXCEPT ![id] = @ + 1]
  /\ conn' = [conn EXCEPT ![id] = [state |-> "closed", context |-> NoContext]]
  /\ UNCHANGED <<lease, wire, setter, releaser, closer, forced, overtaken, late, skipped>>

(* The goroutine enters itself in the map, unless another is there, even   *)
(* one that was cancelled.                                                 *)
Register(id) ==
  /\ closer # "closed"
  /\ spawned[id] > 0
  /\ spawned' = [spawned EXCEPT ![id] = @ - 1]
  /\ IF releaser[id].at = "none"
     THEN releaser' = [releaser EXCEPT ![id] = [at |-> "delay", cancelled |-> FALSE]]
          /\ UNCHANGED skipped
     ELSE skipped' = (IF releaser[id].cancelled \/ id \in overtaken THEN skipped \union {id} ELSE skipped)
          /\ UNCHANGED releaser
  /\ UNCHANGED <<lease, wire, conn, setter, closer, forced, left, overtaken, late>>

(* After the delay both addresses are released, one call after the other. *)
DelayOver(id) ==
  /\ closer # "closed"
  /\ releaser[id] = [at |-> "delay", cancelled |-> FALSE]
  /\ releaser' = [releaser EXCEPT ![id].at = "src"]
  /\ wire' = wire \union {<<id, "src">>}
  /\ UNCHANGED <<lease, conn, setter, spawned, closer, forced, left, overtaken, late, skipped>>

(* The IPAM runs a release; the goroutine that waits for it goes on. *)
Run(id, side) ==
  /\ <<id, side>> \in wire
  /\ lease' = [lease EXCEPT ![id][side] = Free]
  /\ IF releaser[id] # [at |-> side, cancelled |-> FALSE] \/ closer = "closed"
     THEN wire' = wire \ {<<id, side>>} /\ UNCHANGED releaser
     ELSE IF side = "src"
     THEN wire' = (wire \ {<<id, "src">>}) \union {<<id, "dst">>}
          /\ releaser' = [releaser EXCEPT ![id].at = "dst"]
     ELSE wire' = wire \ {<<id, "dst">>}
          /\ releaser' = [releaser EXCEPT ![id] = NoReleaser]
  /\ UNCHANGED <<conn, setter, spawned, closer, forced, left, overtaken, late, skipped>>

(* The call fails or times out, and the IPAM may run it later all the      *)
(* same: both releases are tried again.                                    *)
ReleaseFails(id) ==
  /\ Spend("faults") /\ closer # "closed"
  /\ releaser[id].at \in Sides /\ ~releaser[id].cancelled
  /\ releaser' = [releaser EXCEPT ![id].at = "src"]
  /\ \E w \in {wire, wire \ {<<id, releaser[id].at>>}} : wire' = w \union {<<id, "src">>}
  /\ UNCHANGED <<lease, conn, setter, spawned, closer, forced, overtaken, late, skipped>>

(* A cancelled goroutine gives up wherever it is and leaves the map. *)
Cancelled(id) ==
  /\ closer # "closed"
  /\ releaser[id].cancelled
  /\ releaser' = [releaser EXCEPT ![id] = NoReleaser]
  /\ UNCHANGED <<lease, wire, conn, setter, spawned, closer, forced, left, overtaken, late, skipped>>

-----------------------------------------------------------------------------
(* Proxy.Close. *)

(* Every release in the map is cancelled and done by Close, also one that  *)
(* a request has cancelled already.                                        *)
CloseProxy ==
  LET pending == {i \in Ids : releaser[i].at # "none"}
  IN  /\ Spend("stops") /\ closer = "open"
      /\ closer' = "closing"
      /\ releaser' = [i \in Ids |-> IF i \in pending THEN [releaser[i] EXCEPT !.cancelled = TRUE]
                                    ELSE releaser[i]]
      /\ forced' = [i \in Ids |-> IF i \in pending THEN "src" ELSE "none"]
      /\ late' = late \union {i \in pending : conn[i].state = "up" \/ setter.id = i}
      /\ UNCHANGED <<lease, wire, conn, setter, spawned, overtaken, skipped>>

ForceRelease(id) ==
  /\ forced[id] # "none"
  /\ lease' = [lease EXCEPT ![id][forced[id]] = Free]
  /\ forced' = [forced EXCEPT ![id] = IF @ = "src" THEN "dst" ELSE "none"]
  /\ UNCHANGED <<wire, conn, setter, spawned, releaser, closer, left, overtaken, late, skipped>>

(* Close's context ends while the IPAM does not answer. *)
ForceGivesUp(id) ==
  /\ Spend("faults")
  /\ forced[id] # "none"
  /\ forced' = [forced EXCEPT ![id] = "none"]
  /\ skipped' = skipped \union {id}
  /\ UNCHANGED <<lease, wire, conn, setter, spawned, releaser, closer, overtaken, late>>

(* The process ends; goroutines that have not released anything are gone. *)
Exit ==
  /\ closer = "closing" /\ setter = NoSetter
  /\ \A i \in Ids : forced[i] = "none"
  /\ closer' = "closed"
  /\ skipped' = skipped \union {i \in Ids : spawned[i] > 0 \/ releaser[i].at = "delay"
                                                          \/ releaser[i] \in
                                     {[at |-> s, cancelled |-> FALSE] : s \in Sides}}
  /\ UNCHANGED <<lease, wire, conn, setter, spawned, releaser, forced, left, overtaken, late>>

Proceed ==
  \/ CancelRelease \/ AllocateSrc \/ AllocateDst
  \/ \E mechanism \in BOOLEAN : RequestFails(mechanism)
  \/ \E id \in Ids : Register(id) \/ DelayOver(id) \/ ReleaseFails(id) \/ Cancelled(id)
  \/ \E id \in Ids, side \in Sides : Run(id, side)
  \/ Exit
  \/ \E id \in Ids : ForceRelease(id) \/ ForceGivesUp(id)

Next ==
  \/ \E id \in Ids : Request(id) \/ Close(id)
  \/ CloseProxy
  \/ Proceed

(* Goroutines are scheduled, the IPAM runs what it was sent, and calls     *)
(* return or time out.  No request, close or stop need ever come.          *)
Spec == Init /\ [][Next]_vars /\ WF_vars(Proceed)

-----------------------------------------------------------------------------
(* Properties. *)

Addresses == Pool \union Stale \union {Vip}

TypeOK ==
  /\ lease \in [Ids -> [Sides -> Pool \union {Free}]]
  /\ wire \subseteq Ids \X Sides
  /\ \A i \in Ids :
       /\ conn[i].state \in {"new", "up", "closed"}
       /\ conn[i].context.src \union conn[i].context.dst \subseteq Addresses
       /\ spawned[i] \in Nat
       /\ releaser[i].at \in {"none", "delay"} \union Sides
       /\ forced[i] \in {"none"} \union Sides
  /\ setter.id \in Ids \union {"none"} /\ setter.at \in {"idle", "cancel"} \union Sides
  /\ closer \in {"open", "closing", "closed"}
  /\ overtaken \union late \union skipped \subseteq Ids

Reserved(id) == lease[id]["src"] # Free /\ lease[id]["dst"] # Free

(* The addresses of an established connection stay reserved in the IPAM:   *)
(* the delayed release of an earlier close does not take them from under   *)
(* it.  It does only when its request came before the release goroutine    *)
(* had entered the map, or while a release was on its way to the IPAM,     *)
(* which cancelling does not stop.                                         *)
ConnectedReserved ==
  \A id \in Ids : (conn[id].state = "up" /\ id \notin overtaken \union late) => Reserved(id)

(* The addresses in an established connection's context are the ones the   *)
(* IPAM keeps for it: those of another subnet are gone from a target's     *)
(* context, its VIPs stay, and its routes go through this bridge.          *)
ContextCurrent ==
  \A id \in Ids :
    LET c == conn[id].context
    IN  (conn[id].state = "up" /\ Reserved(id) /\ id \notin overtaken \union late) =>
          IF id \in Targets
          THEN /\ c.src \ {Vip} = {lease[id]["src"]} /\ c.dst = {lease[id]["dst"]}
               /\ c.gateways = {Gateway} /\ c.hops \subseteq {Gateway}
          ELSE c.src = {lease[id]["dst"]} /\ c.dst = {lease[id]["src"]}

(* No two connections are given the same address, unless one of them lost  *)
(* its reservation that way.                                               *)
AddressesDistinct ==
  \A i, j \in Ids :
    LET mine == (conn[i].context.src \union conn[i].context.dst) \intersect Pool
        other == (conn[j].context.src \union conn[j].context.dst) \intersect Pool
    IN  ( /\ i # j /\ conn[i].state = "up" /\ conn[j].state = "up"
          /\ {i, j} \intersect (overtaken \union late) = {} ) => mine \intersect other = {}

(* The addresses of a closed connection are released in the end, by the    *)
(* goroutine or by the proxy's Close.  They leak only when the release was *)
(* asked for while a cancelled one was still in the map, or the process    *)
(* ended before the goroutine entered it.                                  *)
ReleasedEventually ==
  []<>(\A id \in Ids :
         (conn[id].state = "closed" /\ id \notin skipped) => \A s \in Sides : lease[id][s] = Free)

=============================================================================
