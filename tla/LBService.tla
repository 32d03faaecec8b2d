----------------------------- MODULE LBService -----------------------------
(***************************************************************************)
(* The process of the stateless load balancer around its streams:          *)
(* FrontendNetworkService (cmd/stateless-lb/egress.go) follows the local   *)
(* frontend in the registry, tells SimpleNetworkService (main.go) to serve *)
(* or to stop, and registers or removes the NSM endpoint the proxies       *)
(* connect to.  SimpleNetworkService starts a watcher of the configured    *)
(* streams each time it is allowed to serve, evicts every stream each time *)
(* it is blocked, and keeps one usable interface for each proxy.           *)
(*                                                                         *)
(* updateStreams takes no lock: a watcher cancelled while it is inside     *)
(* runs on, beside the eviction and beside the next watcher.  `overlap'    *)
(* remembers that this happened; `skipped' remembers streams that could    *)
(* not be created, and `unregistered' a registration that failed, none of  *)
(* which the code tries again before the next event.  `raced' holds the     *)
(* links whose creation overlapped a block or the creation of another link *)
(* of the subnet, or that a crash made the process forget.                 *)
(***************************************************************************)
EXTENDS Integers, Sequences, FiniteSets

CONSTANTS
    Streams,      \* stream names of the conduit
    Links,        \* interfaces towards the proxies
    SubnetOf,     \* the subnet of each link's first local prefix
    Budgets,      \* bounds of one execution: how often the frontend comes or
                  \* goes, the streams change, a link is requested, and a call
                  \* or the process fails
    MaxWatchers   \* bound: stream watchers one process runs

VARIABLES
    configured,    \* streams of the conduit in the NSP's configuration
    frontend,      \* the registry holds the entry of the local frontend
    feInbox,       \* answers of the frontend watch not yet received
    feAnnounced,   \* FrontendNetworkService.feAnnounced
    rpc,           \* where recv is
    nse,           \* NSM has the load balancer's endpoint
    refreshing,    \* the registry client of the process keeps it alive
    egressSvc,     \* health service EgressSvc is serving
    blocked,       \* simpleNetworkServiceBlocked
    cpc,           \* where the goroutine reading serviceCtrCh is
    evict,         \* evictStreams: the keys it found, the keys it deleted
    running,       \* streamWatcherRunning
    watchers,      \* the goroutines running watchStreams
    streams,       \* keys of SimpleNetworkService.streams
    instances,     \* LoadBalancers created and not deleted, by stream
    hpc,           \* where InterfaceCreated is, by link
    stored,        \* SimpleNetworkService.interfaces
    up,            \* links that exist and are not set down
    budget,        \* what the bounds leave
    overlap, skipped, unregistered, raced  \* history, see above

feVars    == <<frontend, feInbox, feAnnounced, rpc>>
nsmVars   == <<nse, refreshing, egressSvc>>
ctlVars   == <<blocked, cpc, evict, running>>
strmVars  == <<configured, watchers, streams, instances, skipped>>
linkVars  == <<hpc, stored, up, raced>>
vars == <<feVars, nsmVars, ctlVars, strmVars, linkVars, budget, overlap, unregistered>>

Generations == 1..MaxWatchers
NoWatcher == [pc |-> "none", live |-> FALSE, inbox |-> <<>>, todo |-> {}, left |-> {}, cur |-> {}]

Spend(kind) ==
    /\ budget[kind] > 0
    /\ budget' = [budget EXCEPT ![kind] = @ - 1]

Updating(g) == watchers[g].pc \in {"scan", "adding", "delete"}

Init ==
    /\ configured \in {{}, Streams}
    /\ frontend = FALSE /\ feInbox = <<FALSE>> /\ feAnnounced = FALSE /\ rpc = "recv"
    /\ nse = FALSE /\ refreshing = FALSE /\ egressSvc = FALSE
    /\ blocked = TRUE /\ cpc = "idle" /\ evict = [found |-> {}, gone |-> {}] /\ running = FALSE
    /\ watchers = [g \in Generations |-> NoWatcher]
    /\ streams = {} /\ instances = [s \in Streams |-> 0]
    /\ hpc = [l \in Links |-> "none"] /\ stored = {} /\ up = {}
    /\ budget \in Budgets
    /\ overlap = FALSE /\ skipped = {} /\ unregistered = FALSE /\ raced = {}

-----------------------------------------------------------------------------
(* FrontendNetworkService                                                  *)

(* The frontend registers itself in the NSP, or its entry goes. *)
FrontendChanges ==
    /\ Spend("flaps")
    /\ frontend' = ~frontend
    /\ feInbox' = Append(feInbox, frontend')
    /\ UNCHANGED <<feAnnounced, rpc, nsmVars, ctlVars, strmVars, linkVars, overlap, unregistered>>

(* The watch ends with an error; retry.Do watches again and is sent the *)
(* current list first.                                                  *)
FrontendWatchBreaks ==
    /\ rpc = "recv"
    /\ Spend("faults")
    /\ feInbox' = <<frontend>>
    /\ UNCHANGED <<frontend, feAnnounced, rpc, nsmVars, ctlVars, strmVars, linkVars, overlap, unregistered>>

(* recv: a list that does not change the local frontend's presence is skipped. *)
RecvFrontends ==
    /\ rpc = "recv" /\ feInbox # <<>>
    /\ feInbox' = Tail(feInbox)
    /\ feAnnounced' = Head(feInbox)
    /\ rpc' = IF feAnnounced' = feAnnounced THEN "recv" ELSE "dispatch"
    /\ UNCHANGED <<frontend, nsmVars, ctlVars, strmVars, linkVars, budget, overlap, unregistered>>

(* Dispatch sends on an unbuffered channel: it completes when the control  *)
(* goroutine is back at its receive, which then holds sns.mu until it is   *)
(* done.                                                                   *)
Dispatch ==
    /\ rpc = "dispatch" /\ cpc = "idle"
    /\ rpc' = "endpoint"
    /\ blocked' = ~feAnnounced
    /\ cpc' = IF feAnnounced THEN "start" ELSE "evict"
    /\ evict' = [found |-> streams, gone |-> {}]
    /\ overlap' = (overlap \/ (blocked' /\ \E g \in Generations : Updating(g)))
    /\ raced' = raced \union {l \in Links : blocked' /\ hpc[l] \in {"replace", "store"}}
    /\ UNCHANGED <<frontend, feInbox, feAnnounced, running, nsmVars, strmVars, hpc, stored, up, budget, unregistered>>

(* Endpoint.register, which the registry client follows by refreshing the *)
(* entry; a failure is not tried again.                                   *)
Register ==
    \/ /\ nse' = TRUE /\ refreshing' = TRUE /\ egressSvc' = TRUE /\ unregistered' = FALSE
       /\ UNCHANGED budget
    \/ /\ Spend("faults")
       /\ unregistered' = TRUE
       /\ UNCHANGED nsmVars

(* Endpoint.unregister, which ends the refreshing even if the call fails. *)
Unregister ==
    /\ refreshing' = FALSE /\ egressSvc' = FALSE
    /\ \/ nse' = FALSE /\ UNCHANGED budget
       \/ UNCHANGED nse /\ Spend("faults")

(* recv announces or denounces the endpoint and waits for the next list. *)
Endpoint ==
    /\ rpc = "endpoint" /\ rpc' = "recv"
    /\ \/ feAnnounced /\ Register
       \/ ~feAnnounced /\ Unregister /\ UNCHANGED unregistered
    /\ UNCHANGED <<frontend, feInbox, feAnnounced, ctlVars, strmVars, linkVars, overlap>>

(* NSM drops an endpoint nobody refreshes. *)
EndpointExpires ==
    /\ nse /\ ~refreshing
    /\ nse' = FALSE
    /\ UNCHANGED <<refreshing, egressSvc, feVars, ctlVars, strmVars, linkVars, budget, overlap, unregistered>>

-----------------------------------------------------------------------------
(* SimpleNetworkService: the goroutine reading serviceCtrCh                *)

(* Mutant: the watcher is not started again once one has been started. *)
StartStreamWatcherOnce ==
    /\ cpc = "start" /\ cpc' = "idle"
    /\ IF running \/ \E g \in Generations : watchers[g].pc # "none"
       THEN UNCHANGED <<running, watchers>>
       ELSE /\ running' = TRUE
            /\ watchers' = [watchers EXCEPT ![1] = [NoWatcher EXCEPT !.pc = "watch", !.live = TRUE, !.inbox = <<configured>>]]
    /\ UNCHANGED <<blocked, evict, feVars, nsmVars, configured, streams, instances, skipped, linkVars, budget, overlap, unregistered>>

(* startStreamWatcher: the first answer of a new watch is the current list. *)
StartStreamWatcher ==
    /\ cpc = "start" /\ cpc' = "idle"
    /\ IF running
       THEN UNCHANGED <<running, watchers>>
       ELSE /\ running' = TRUE
            /\ \E g \in Generations :
                 /\ watchers[g].pc = "none"
                 /\ \A h \in Generations : h < g => watchers[h].pc # "none"
                 /\ watchers' = [watchers EXCEPT ![g] = [NoWatcher EXCEPT !.pc = "watch", !.live = TRUE, !.inbox = <<configured>>]]
    /\ UNCHANGED <<blocked, evict, feVars, nsmVars, configured, streams, instances, skipped, linkVars, budget, overlap, unregistered>>

(* evictStreams deletes the LoadBalancers it meets in the map; a key added *)
(* while it iterates is met or not.                                        *)
EvictStream(s) ==
    /\ cpc = "evict" /\ s \in streams \ evict.gone
    /\ evict' = [evict EXCEPT !.gone = @ \union {s}]
    /\ instances' = [instances EXCEPT ![s] = @ - 1]
    /\ UNCHANGED <<blocked, cpc, running, feVars, nsmVars, configured, watchers, streams, skipped, linkVars, budget, overlap, unregistered>>

(* It then replaces the map. *)
ForgetStreams ==
    /\ cpc = "evict" /\ evict.found \intersect streams \subseteq evict.gone
    /\ streams' = {}
    /\ evict' = [found |-> {}, gone |-> {}]
    /\ cpc' = "disable"
    /\ UNCHANGED <<blocked, running, feVars, nsmVars, configured, watchers, instances, skipped, linkVars, budget, overlap, unregistered>>

DisableInterfaces ==
    /\ cpc = "disable" /\ cpc' = "cancel"
    /\ up' = up \ stored
    /\ stored' = {}
    /\ UNCHANGED <<blocked, evict, running, feVars, nsmVars, strmVars, hpc, raced, budget, overlap, unregistered>>

CancelStreamWatcher ==
    /\ cpc = "cancel" /\ cpc' = "idle"
    /\ running' = FALSE
    /\ watchers' = [g \in Generations |-> [watchers[g] EXCEPT !.live = FALSE]]
    /\ UNCHANGED <<blocked, evict, feVars, nsmVars, configured, streams, instances, skipped, linkVars, budget, overlap, unregistered>>

-----------------------------------------------------------------------------
(* SimpleNetworkService: watchStreams and updateStreams                    *)

(* A stream is created or deleted in the NSP; its watchers get the new list. *)
StreamsEdited ==
    /\ Spend("edits")
    /\ \E s \in Streams : configured' = (configured \ {s}) \union ({s} \ configured)
    /\ watchers' = [g \in Generations |->
          IF watchers[g].live THEN [watchers[g] EXCEPT !.inbox = Append(@, configured')] ELSE watchers[g]]
    /\ UNCHANGED <<streams, instances, skipped, feVars, nsmVars, ctlVars, linkVars, overlap, unregistered>>

(* The watch breaks (retry.Do opens it again), or its context is cancelled   *)
(* and the goroutine ends.                                                   *)
StreamWatchEnds(g) ==
    /\ watchers[g].pc = "watch"
    /\ \/ /\ watchers[g].live /\ Spend("faults")
          /\ watchers' = [watchers EXCEPT ![g].inbox = <<configured>>]
       \/ /\ ~watchers[g].live
          /\ watchers' = [watchers EXCEPT ![g] = NoWatcher]
          /\ UNCHANGED budget
    /\ UNCHANGED <<configured, streams, instances, skipped, feVars, nsmVars, ctlVars, linkVars, overlap, unregistered>>

(* Recv may still return an answer that arrived before the cancellation. *)
BeginUpdate(g) ==
    /\ watchers[g].pc = "watch" /\ watchers[g].inbox # <<>>
    /\ watchers' = [watchers EXCEPT ![g].pc = "scan", ![g].inbox = Tail(@),
                                    ![g].todo = Head(watchers[g].inbox), ![g].left = streams]
    /\ overlap' = (overlap \/ blocked \/ ~watchers[g].live)
    /\ UNCHANGED <<configured, streams, instances, skipped, feVars, nsmVars, ctlVars, linkVars, budget, unregistered>>

(* One stream of the list: kept when it is in the map, else addStream. *)
ScanStream(g, s) ==
    /\ watchers[g].pc = "scan" /\ s \in watchers[g].todo
    /\ watchers' = [watchers EXCEPT ![g].todo = @ \ {s},
            ![g].pc   = IF s \in streams THEN "scan" ELSE "adding",
            ![g].left = IF s \in streams THEN @ \ {s} ELSE @,
            ![g].cur  = IF s \in streams THEN {} ELSE {s}]
    /\ UNCHANGED <<configured, streams, instances, skipped, feVars, nsmVars, ctlVars, linkVars, budget, overlap, unregistered>>

(* addStream: the LoadBalancer is created by calls that take time; the map *)
(* entry, possibly one another watcher just made, is then overwritten.     *)
AddStream(g) ==
    \E s \in watchers[g].cur :
    /\ watchers[g].pc = "adding"
    /\ watchers' = [watchers EXCEPT ![g].pc = "scan", ![g].cur = {}]
    /\ \/ /\ streams' = streams \union {s}
          /\ instances' = [instances EXCEPT ![s] = @ + 1]
          /\ evict' = [evict EXCEPT !.gone = @ \ {s}]
          /\ skipped' = skipped \ {s}
          /\ UNCHANGED budget
       \/ /\ Spend("faults")
          /\ skipped' = skipped \union {s}
          /\ UNCHANGED <<streams, instances, evict>>
    /\ UNCHANGED <<configured, blocked, cpc, running, feVars, nsmVars, linkVars, overlap, unregistered>>

(* deleteStream for what the list no longer has. *)
DeleteStream(g, s) ==
    /\ watchers[g].pc \in {"scan", "delete"} /\ watchers[g].todo = {} /\ s \in watchers[g].left
    /\ watchers' = [watchers EXCEPT ![g].pc = "delete", ![g].left = @ \ {s}]
    /\ instances' = [instances EXCEPT ![s] = IF s \in streams \ evict.gone THEN @ - 1 ELSE @]
    /\ streams' = streams \ {s}
    /\ UNCHANGED <<configured, evict, skipped, blocked, cpc, running, feVars, nsmVars, linkVars, budget, overlap, unregistered>>

EndUpdate(g) ==
    /\ watchers[g].pc \in {"scan", "delete"} /\ watchers[g].todo = {} /\ watchers[g].left = {}
    /\ watchers' = [watchers EXCEPT ![g].pc = "watch"]
    /\ UNCHANGED <<configured, streams, instances, skipped, feVars, nsmVars, ctlVars, linkVars, budget, overlap, unregistered>>

-----------------------------------------------------------------------------
(* SimpleNetworkService: interface events                                  *)

SameSubnet(l) == {k \in Links \ {l} : SubnetOf[k] = SubnetOf[l]}

(* NSM made a link for a proxy's request, or refreshes one the service uses. *)
Requested(l) ==
    /\ hpc[l] = "none" /\ (l \in up => l \in stored \union raced)
    /\ Spend("requests")
    /\ hpc' = [hpc EXCEPT ![l] = "created"]
    /\ up' = up \union {l}
    /\ UNCHANGED <<stored, raced, feVars, nsmVars, ctlVars, strmVars, overlap, unregistered>>

(* Mutant: InterfaceCreated does not look at the flag. *)
CheckBlockedNever(l) ==
    /\ hpc[l] = "created" /\ cpc = "idle"
    /\ hpc' = [hpc EXCEPT ![l] = "replace"]
    /\ raced' = raced \union IF \E k \in SameSubnet(l) : hpc[k] \in {"replace", "store"} THEN {l} ELSE {}
    /\ UNCHANGED <<stored, up, feVars, nsmVars, ctlVars, strmVars, budget, overlap, unregistered>>

(* InterfaceCreated asks serviceBlocked, which waits for sns.mu. *)
CheckBlocked(l) ==
    /\ hpc[l] = "created" /\ cpc = "idle"
    /\ hpc' = [hpc EXCEPT ![l] = IF blocked THEN "none" ELSE "replace"]
    /\ up' = IF blocked THEN up \ {l} ELSE up
    /\ raced' = raced \union IF ~blocked /\ (\E k \in SameSubnet(l) : hpc[k] \in {"replace", "store"})
                             THEN {l} ELSE {}
    /\ UNCHANGED <<stored, feVars, nsmVars, ctlVars, strmVars, budget, overlap, unregistered>>

(* Links of the same subnet in the list are set down and forgotten. *)
ReplaceOlder(l) ==
    /\ hpc[l] = "replace"
    /\ hpc' = [hpc EXCEPT ![l] = "store"]
    /\ up' = up \ (stored \intersect SameSubnet(l))
    /\ stored' = stored \ SameSubnet(l)
    /\ UNCHANGED <<raced, feVars, nsmVars, ctlVars, strmVars, budget, overlap, unregistered>>

StoreInterface(l) ==
    /\ hpc[l] = "store"
    /\ hpc' = [hpc EXCEPT ![l] = "none"]
    /\ stored' = stored \union {l}
    /\ UNCHANGED <<up, raced, feVars, nsmVars, ctlVars, strmVars, budget, overlap, unregistered>>

(* InterfaceDeleted: NSM closed the connection and removed the link. *)
InterfaceDeleted(l) ==
    /\ hpc[l] = "none" /\ l \in up
    /\ up' = up \ {l} /\ stored' = stored \ {l} /\ raced' = raced \ {l}
    /\ UNCHANGED <<hpc, feVars, nsmVars, ctlVars, strmVars, budget, overlap, unregistered>>

-----------------------------------------------------------------------------
(* The process dies (a call to log.Fatal, or the runtime stopping a map   *)
(* written while evictStreams iterates it) and its container is started   *)
(* again; the links and the endpoint's registration outlive it.           *)
Crash ==
    /\ Spend("faults")
    /\ feInbox' = <<frontend>> /\ feAnnounced' = FALSE /\ rpc' = "recv"
    /\ refreshing' = FALSE /\ egressSvc' = FALSE
    /\ blocked' = TRUE /\ cpc' = "idle" /\ evict' = [found |-> {}, gone |-> {}] /\ running' = FALSE
    /\ watchers' = [g \in Generations |-> NoWatcher]
    /\ streams' = {} /\ instances' = [s \in Streams |-> 0]
    /\ hpc' = [l \in Links |-> "none"] /\ stored' = {} /\ raced' = raced \union up
    /\ overlap' = FALSE /\ skipped' = {} /\ unregistered' = FALSE
    /\ UNCHANGED <<frontend, nse, configured, up>>

Control ==
    \/ Dispatch \/ StartStreamWatcher \/ ForgetStreams \/ DisableInterfaces \/ CancelStreamWatcher
    \/ \E s \in Streams : EvictStream(s)

Watcher(g) ==
    \/ BeginUpdate(g) \/ AddStream(g) \/ EndUpdate(g)
    \/ \E s \in Streams : ScanStream(g, s) \/ DeleteStream(g, s)

Handler(l) == CheckBlocked(l) \/ ReplaceOlder(l) \/ StoreInterface(l)

Next ==
    \/ FrontendChanges \/ FrontendWatchBreaks \/ RecvFrontends \/ Endpoint \/ EndpointExpires
    \/ Control \/ StreamsEdited \/ Crash
    \/ \E g \in Generations : Watcher(g) \/ StreamWatchEnds(g)
    \/ \E l \in Links : Handler(l) \/ Requested(l) \/ InterfaceDeleted(l)

(* Every goroutine is scheduled, a cancelled watch ends, and NSM expires *)
(* endpoints; nothing else need ever happen.                             *)
Fairness ==
    /\ WF_vars(RecvFrontends) /\ WF_vars(Endpoint) /\ WF_vars(EndpointExpires) /\ WF_vars(Control)
    /\ \A g \in Generations :
         WF_vars(Watcher(g)) /\ WF_vars(StreamWatchEnds(g) /\ ~watchers[g].live)
    /\ \A l \in Links : SF_vars(Handler(l))

Spec == Init /\ [][Next]_vars /\ Fairness

-----------------------------------------------------------------------------
(* The state is well formed; in particular no LoadBalancer is deleted twice. *)
TypeOK ==
    /\ configured \subseteq Streams /\ streams \subseteq Streams /\ skipped \subseteq Streams
    /\ instances \in [Streams -> Nat]
    /\ rpc \in {"recv", "dispatch", "endpoint"}
    /\ cpc \in {"idle", "start", "evict", "disable", "cancel"}
    /\ hpc \in [Links -> {"none", "created", "replace", "store"}]
    /\ stored \subseteq Links /\ up \subseteq Links /\ raced \subseteq Links

(* Every LoadBalancer of the process is the one its stream's map entry      *)
(* points to, so that it can be deleted, as long as no updateStreams ran    *)
(* while the service was being blocked: updateStreams and evictStreams      *)
(* share the map without a lock.                                            *)
OneLoadBalancerPerStream ==
    ~overlap => \A s \in Streams :
        instances[s] = IF s \in streams \ evict.gone THEN 1 ELSE 0

(* While the service is blocked no LoadBalancer exists and no link to a      *)
(* proxy is up, but for an updateStreams or an InterfaceCreated that was     *)
(* past its last look at the flag when the block came.                       *)
BlockedServesNothing ==
    blocked /\ cpc = "idle" =>
        /\ ~overlap => \A s \in Streams : instances[s] = 0
        /\ \A l \in up : l \in raced \/ hpc[l] # "none"

(* A proxy that got a second link is reached over one of the two only, and *)
(* the service knows every link that is up, but for the overlaps above.    *)
OneLinkPerSubnet ==
    \A l \in up : hpc[l] = "none" /\ l \notin raced =>
        /\ l \in stored
        /\ \A k \in SameSubnet(l) \intersect up : k \in raced \/ hpc[k] # "none"

(* Once the frontend stays down, NSM does not keep the endpoint the proxies *)
(* send their egress traffic to.                                           *)
EndpointRemoved == <>[]~frontend => <>[](~nse /\ blocked /\ ~egressSvc)

(* Once the frontend stays up, the endpoint is registered, unless the last   *)
(* Register failed: recv does not try again before the frontend changes.     *)
EndpointRegistered == <>[]frontend => <>[]((nse /\ egressSvc) \/ unregistered)

(* Once the frontend stays up, the streams served are the configured ones, *)
(* unless creating one failed or a cancelled updateStreams interfered.     *)
StreamsServed ==
    <>[]frontend => <>[](overlap \/ (streams \subseteq configured /\ configured \subseteq streams \union skipped))

=============================================================================
