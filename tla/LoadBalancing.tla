---------------------------- MODULE LoadBalancing ----------------------------
(* Four parts of a load balancer: the routing tables of its streams           *)
(* (IdentifierOffsets), the targets of a stream (LoadBalancer), the           *)
(* availability it reports (ForwardingAvailability) and the process with its  *)
(* streams and its links to one proxy (LBService).  Each sees the others      *)
(* through calls that its own module models; a behaviour is one of one part.  *)
EXTENDS IdentifierOffsets

CONSTANTS
  Identifiers, Addresses, None,    \* of LoadBalancer
  MaxWatchers,                     \* clients of the availability, and watchers of LBService
  Served, Links, SubnetOf,         \* of LBService
  StreamsBudgets,   \* executions of the process that exercise the streams,
  LinksBudget       \* and its links, with no stream configured

ASSUME NoneAssumption == None \notin Addresses
ASSUME MaxWatchersAssumption == MaxWatchers \in Nat

VARIABLES
  part,
  failing, ctx, deleted, checker, lb, shm, links, latest,
  forwardingPlane, stopped, chan, pc, target, lastSentTarget, acks, poster,
  configured, frontend, feInbox, feAnnounced, rpc, nse, refreshing, egressSvc, blocked, cpc,
  evict, watcherRunning, watchers, streams, instances, hpc, stored, up, budget, overlap, skipped,
  unregistered, raced

targetsVars == <<failing, ctx, deleted, checker, lb, shm, links, latest>>
availVars == <<forwardingPlane, stopped, chan, pc, target, lastSentTarget, acks, poster>>
serviceVars ==
  <<configured, frontend, feInbox, feAnnounced, rpc, nse, refreshing, egressSvc, blocked, cpc,
    evict, watcherRunning, watchers, streams, instances, hpc, stored, up, budget, overlap, skipped,
    unregistered, raced>>
allVars == <<part, vars, targetsVars, availVars, serviceVars>>

Clients == 1..MaxWatchers

Targets == INSTANCE LoadBalancer WITH Failures <- BOOLEAN
Forwarding == INSTANCE ForwardingAvailability WITH Watchers <- Clients
Process == INSTANCE LBService WITH
  Streams <- Served, Budgets <- StreamsBudgets \union {LinksBudget}, running <- watcherRunning

LBInit ==
  /\ part \in {"tables", "targets", "availability", "process"}
  /\ Init
  /\ Targets!Init
  /\ part # "targets" => ~failing /\ links = {}
  /\ Forwarding!Init
  /\ Process!Init
  /\ part # "process" => budget = LinksBudget
  /\ budget = LinksBudget => configured = {}

TablesOnly == part = "tables" /\ UNCHANGED <<part, targetsVars, availVars, serviceVars>>
TargetsOnly == part = "targets" /\ UNCHANGED <<part, vars, availVars, serviceVars>>
AvailabilityOnly == part = "availability" /\ UNCHANGED <<part, vars, targetsVars, serviceVars>>
ProcessOnly == part = "process" /\ UNCHANGED <<part, vars, targetsVars, availVars>>

LBNext ==
  \/ TablesOnly /\ Next
  \/ TargetsOnly /\ Targets!Next
  \/ AvailabilityOnly /\ Forwarding!Next
  \/ ProcessOnly /\ Process!Next

(* The fairness of the four specifications, each in its own behaviours: the *)
(* part never changes, so that weak fairness of a disjunction of actions of *)
(* different parts is weak fairness of each.                                *)
LBFairness ==
  /\ WF_allVars(\/ ProcessOnly /\ Process!RecvFrontends
                \/ TablesOnly /\ (Found \/ NotFound \/ \E s \in Streams : Skip(s)))
  /\ WF_allVars((ProcessOnly /\ Process!Endpoint) \/ (TargetsOnly /\ Targets!StartLB))
  /\ WF_allVars((ProcessOnly /\ Process!EndpointExpires) \/ (TargetsOnly /\ Targets!Check))
  /\ WF_allVars(ProcessOnly /\ Process!Control)
  /\ \A w \in Clients :
       /\ WF_allVars((ProcessOnly /\ Process!Watcher(w)) \/ (AvailabilityOnly /\ Forwarding!Goroutine(w)))
       /\ WF_allVars(\/ ProcessOnly /\ Process!StreamWatchEnds(w) /\ ~watchers[w].live
                     \/ AvailabilityOnly /\ Forwarding!StopPost(w))
  /\ \A l \in Links : SF_allVars(ProcessOnly /\ Process!Handler(l))

LBSpec == LBInit /\ [][LBNext]_allVars /\ LBFairness

(* The configured and pending targets are those of the last list, the      *)
(* stream is announced exactly while it has one, and neither nfqlb nor the *)
(* kernel forwards to anything else.                                       *)
TargetsConsistent ==
  /\ Targets!TypeOK
  /\ Targets!TargetsAccountedFor
  /\ Targets!AvailabilityFollowsTargets
  /\ Targets!ActiveHaveTarget
  /\ Targets!DeletedForwardsNothing

(* A target that stays in the list with its interface up is forwarded to.  *)
PendingBecomesActive == Targets!PendingBecomesActive

(* A client of the availability service comes to know the last state,      *)
(* although updates are dropped while it is served an older one.           *)
ChangesDelivered == Forwarding!ChangesDelivered

(* Every stream has one LoadBalancer, a blocked service none and no link   *)
(* to a proxy, and a proxy is reached over one link, whatever updates,     *)
(* blocks and interface events overlap.                                    *)
ProcessConsistent ==
  /\ Process!TypeOK
  /\ Process!OneLoadBalancerPerStream
  /\ Process!BlockedServesNothing
  /\ Process!OneLinkPerSubnet

(* The endpoint for egress traffic and the streams served follow the       *)
(* frontend and the configuration once they stay, and the search for a     *)
(* routing table of a new stream returns.                                  *)
ProcessFollows ==
  /\ Process!EndpointRemoved /\ Process!EndpointRegistered /\ Process!StreamsServed
  /\ GenerateReturns
=============================================================================
