------------------------------ MODULE Frontend ------------------------------
(***************************************************************************)
(* The frontend (cmd/frontend): BIRD is configured from the attractor the  *)
(* NSP reports, from the secrets of its gateways and from the availability *)
(* of a local load balancer with targets; BIRD's sessions in turn decide   *)
(* whether the frontend is announced in the NSP and its VIPs are           *)
(* advertised.                                                             *)
(*                                                                         *)
(* Goroutines: the attractor watcher (SetNewConfig), the authentication    *)
(* agent, one goroutine per announceVIP/denounceVIP, the reconfiguration   *)
(* agent, the VIP agent, the monitor and the NSP refresh it starts, and    *)
(* one watch per secret.  cfgMu covers a change of the configuration up to *)
(* the moment the reconfiguration agent takes it from reconfCh.            *)
(***************************************************************************)
EXTENDS Naturals, FiniteSets

CONSTANTS
  Configs,          \* attractors: [vips : sets of VIPs, gateways : sets of Gateway]
  Secrets, NoSecret,
  Families,         \* IP families: a VIP or gateway v belongs to v.family
  AuthChCapacity,   \* of authCh, 10 in the code
  MaxSessionErrors,
  Budgets           \* bounds: [changes: of the attractor, events: of secrets, flaps: changes of
                    \* gateway sessions and of the local target, faults: failed writes, failed
                    \* or lost NSP calls, failed BIRD queries, reads of a truncated file and
                    \* container restarts]

ASSUME ConfigsAssumption ==
  \A c \in Configs : \A g \in c.gateways : g.secret \in Secrets \cup {NoSecret} /\ g.family \in Families
ASSUME CapacityAssumption == AuthChCapacity \in Nat \ {0}

Gateways == UNION {c.gateways : c \in Configs}
NoConfig == [vips |-> {}, gateways |-> {}]

VARIABLES
  config,           \* FrontEndService.vips and gateways
  advertiseVIP,
  rules,            \* the VIPs with source routing rules in the kernel
  gatewayNames,     \* gatewayNamesByFamily: the gateways of the last writeConfig
  conf, file, bird, \* the configuration being written, in the file, and in BIRD
  cfgMu,            \* who holds it, or "free"
  pc,               \* the step of each goroutine
  promoters,        \* announceVIP/denounceVIP goroutines that wait for cfgMu
  stale             \* (history) a failed write was not made up for

VARIABLES
  monitors,         \* ObjectMonitorManager.monitors
  storage,          \* the secrets in the Database
  ends,             \* secrets whose monitors SetNewConfig still has to stop
  blocked,          \* secret watches that wait to signal on authCh
  authCh            \* number of signals in the channel

VARIABLES
  sessions,         \* gateways that would hold their session with BIRD
  hasConnectivity, sessionErrors, denounce, refresh,   \* of Monitor
  entry,            \* the frontend is in the NSP registry
  inflight,         \* a cancelled Register request is still on its way
  localTarget,      \* the load balancer has a forwarding path
  availabilityMap,  \* of the VIP agent
  budget            \* (bounds) what the environment may still do

cfgVars == <<config, advertiseVIP, rules, gatewayNames, conf, file, bird, cfgMu, promoters, stale>>
authVars == <<monitors, storage, ends, blocked, authCh>>
nspVars == <<entry, inflight>>
monVars == <<hasConnectivity, sessionErrors, denounce, refresh>>
envVars == <<sessions, localTarget>>
vars == <<cfgVars, pc, authVars, envVars, monVars, nspVars, availabilityMap, budget>>

Goroutines == {"watch", "auth", "vip", "promoter", "agent", "monitor"}
Step(g, from, to) == pc[g] = from /\ pc' = [pc EXCEPT ![g] = to]
Spend(what) == budget[what] > 0 /\ budget' = [budget EXCEPT ![what] = @ - 1]
-----------------------------------------------------------------------------
(* writeConfig and its parts: the families that get kernel export and      *)
(* blackhole routes have a VIP, VIPs are static routes only if they are    *)
(* advertised, and a gateway whose secret is unknown is left out.          *)
FamiliesOf(S) == {v.family : v \in S}

writeConfigVips == IF advertiseVIP THEN config.vips ELSE {}

writeConfigGW == {g \in config.gateways : g.secret = NoSecret \/ g.secret \in storage}

writeConfigKernel == FamiliesOf(config.vips)

(* A family without VIPs needs no blackhole: nothing is routed by its rules. *)
writeConfigDropIfNoPeer == FamiliesOf(config.vips)

(* The common part, which includes a BFD protocol even without gateways, is *)
(* what an empty file lacks.                                                *)
writeConfigBase == [complete |-> TRUE]

Generated ==
  [vips |-> writeConfigVips, kernel |-> writeConfigKernel,
   blackhole |-> writeConfigDropIfNoPeer, protocols |-> writeConfigGW,
   complete |-> writeConfigBase.complete]

(* What os.Create leaves, and BIRD may read. *)
Truncated == [vips |-> {}, kernel |-> {}, blackhole |-> {}, protocols |-> {}, complete |-> FALSE]

Empty == [vips |-> {}, kernel |-> {}, blackhole |-> {}, protocols |-> {}, complete |-> TRUE]

(* NewFrontEndService, Init, Start: the first configuration is empty.  The *)
(* NSP may know the frontend from an earlier run of the container.         *)
Idle == [g \in Goroutines |-> IF g = "monitor" THEN "top" ELSE "idle"]

Init ==
  /\ config = NoConfig /\ advertiseVIP = FALSE /\ rules = {} /\ gatewayNames = {}
  /\ conf = Empty /\ file = Empty /\ bird = Empty
  /\ cfgMu = "free" /\ pc = Idle /\ promoters = 0 /\ stale = FALSE
  /\ monitors = {} /\ storage = {} /\ ends = {} /\ blocked = {} /\ authCh = 0
  /\ sessions = Gateways /\ localTarget = TRUE
  /\ hasConnectivity = FALSE /\ sessionErrors = 0 /\ denounce = TRUE /\ refresh = FALSE
  /\ entry = TRUE /\ inflight = FALSE
  /\ availabilityMap = [target |-> FALSE, connectivity |-> FALSE, overall |-> FALSE]
  /\ budget \in Budgets
-----------------------------------------------------------------------------
(* SetNewConfig: the kernel rules and the secrets to monitor follow the    *)
(* new attractor; cfgMu is held until the change is handed over.           *)
SetVIPRules(vips) == (rules \ (config.vips \ vips)) \cup (vips \ config.vips)

checkAuthentication(gateways) == {g.secret : g \in gateways} \ {NoSecret}

Difference(vips) == vips # config.vips

DiffGateways(gateways) == gateways # config.gateways

Manage(names) == monitors' = monitors \cup names /\ ends' = monitors \ names

setVIPs(vips) == [config EXCEPT !.vips = vips]

setGateways(old, gateways) == [old EXCEPT !.gateways = gateways]

SetNewConfig(c) ==
  /\ pc["watch"] = "idle" /\ cfgMu = "free"
  /\ Difference(c.vips) \/ DiffGateways(c.gateways)
  /\ config' = setGateways(setVIPs(c.vips), c.gateways)
  /\ rules' = SetVIPRules(c.vips)
  /\ cfgMu' = "watch" /\ pc' = [pc EXCEPT !["watch"] = "manage"]
  /\ Manage(checkAuthentication(c.gateways))
  /\ UNCHANGED <<advertiseVIP, gatewayNames, conf, file, bird, promoters, stale,
                 storage, blocked, authCh, envVars, monVars, nspVars, availabilityMap>>

watchAttractor == Spend("changes") /\ \E c \in Configs : SetNewConfig(c)

(* Mutant: the monitor of a secret that was never found is not let go. *)
ManageStopKnown(s) ==
  /\ pc["watch"] = "manage" /\ s \in ends
  /\ s \in storage => authCh < AuthChCapacity
  /\ authCh' = IF s \in storage THEN authCh + 1 ELSE authCh
  /\ storage' = storage \ {s}
  /\ ends' = ends \ (storage \cap {s}) /\ monitors' = monitors \ (storage \cap {s})
  /\ UNCHANGED <<cfgVars, pc, blocked, envVars, monVars, nspVars, availabilityMap, budget>>

(* ObjectMonitor.Stop, Database.End: the secret is forgotten, and the      *)
(* change is signalled if it was known.  The signal waits for a free slot. *)
ManageStop(s) ==
  /\ pc["watch"] = "manage" /\ s \in ends
  /\ s \in storage => authCh < AuthChCapacity
  /\ authCh' = IF s \in storage THEN authCh + 1 ELSE authCh
  /\ storage' = storage \ {s} /\ ends' = ends \ {s} /\ monitors' = monitors \ {s}
  /\ UNCHANGED <<cfgVars, pc, blocked, envVars, monVars, nspVars, availabilityMap, budget>>

(* writeConfig: generate, then open the file, which truncates it. *)
writeConfig == conf' = Generated /\ file' = Truncated /\ gatewayNames' = config.gateways

WatcherWrites ==
  /\ ends = {} /\ Step("watch", "manage", "apply") /\ writeConfig
  /\ UNCHANGED <<config, advertiseVIP, rules, bird, cfgMu, promoters, stale,
                 authVars, envVars, monVars, nspVars, availabilityMap, budget>>

(* promoteConfig of the authentication agent and of an announceVIP or      *)
(* denounceVIP goroutine.                                                  *)
AuthWrites ==
  /\ cfgMu = "free" /\ cfgMu' = "auth" /\ Step("auth", "promote", "apply") /\ writeConfig
  /\ UNCHANGED <<config, advertiseVIP, rules, bird, promoters, stale,
                 authVars, envVars, monVars, nspVars, availabilityMap, budget>>

PromoterWrites ==
  /\ promoters > 0 /\ promoters' = promoters - 1
  /\ cfgMu = "free" /\ cfgMu' = "promoter" /\ Step("promoter", "idle", "apply") /\ writeConfig
  /\ UNCHANGED <<config, advertiseVIP, rules, bird, stale,
                 authVars, envVars, monVars, nspVars, availabilityMap, budget>>

Writers == {"watch", "auth", "promoter"}

Apply(w) ==
  /\ Step(w, "apply", "send")
  /\ file' = conf /\ conf' = Empty /\ stale' = FALSE
  /\ UNCHANGED <<config, advertiseVIP, rules, gatewayNames, bird, cfgMu, promoters,
                 authVars, envVars, monVars, nspVars, availabilityMap, budget>>

(* The file cannot be opened, or not be written: SetNewConfig returns the  *)
(* error and the attractor is watched anew, but the configuration no       *)
(* longer differs from what the NSP reports.  (In the other goroutines a   *)
(* failed write ends the process: Restart.)                                *)
WriteFails ==
  /\ \/ pc["watch"] = "manage" /\ ends = {}
     \/ pc["watch"] = "apply"
  /\ Spend("faults")
  /\ pc' = [pc EXCEPT !["watch"] = "idle"]
  /\ gatewayNames' = config.gateways
  /\ cfgMu' = "free" /\ stale' = TRUE /\ conf' = Empty
  /\ UNCHANGED <<config, advertiseVIP, rules, file, bird, promoters,
                 authVars, envVars, monVars, nspVars, availabilityMap>>

(* reconfCh: the reconfiguration agent takes the change over. *)
Handover(w) ==
  /\ pc[w] = "send" /\ pc["agent"] = "idle"
  /\ pc' = [pc EXCEPT ![w] = "idle", !["agent"] = "configure"]
  /\ cfgMu' = "free"
  /\ UNCHANGED <<config, advertiseVIP, rules, gatewayNames, conf, file, bird, promoters, stale,
                 authVars, envVars, monVars, nspVars, availabilityMap, budget>>

Configure == bird' = file

(* reconfigure: BIRD reads the file as it is now, which the next writer    *)
(* may just have truncated; an error ends the process.                     *)
Reconfigure ==
  /\ Step("agent", "configure", "idle")
  /\ Configure
  /\ IF \E w \in Writers : pc[w] = "apply" THEN Spend("faults") ELSE UNCHANGED budget
  /\ UNCHANGED <<config, advertiseVIP, rules, gatewayNames, conf, file, cfgMu, promoters, stale,
                 authVars, envVars, monVars, nspVars, availabilityMap>>
-----------------------------------------------------------------------------
(* Database.Handle: a secret is added, modified or deleted; Database.signal*)
(* waits while the channel is full.                                        *)
update(s) == storage' = storage \cup {s}

delete(s) == s \in storage /\ storage' = storage \ {s}

Handle(s) == update(s) \/ delete(s)

SecretEvent(s) ==
  /\ s \in monitors \ blocked /\ Spend("events") /\ Handle(s)
  /\ IF authCh < AuthChCapacity
     THEN authCh' = authCh + 1 /\ blocked' = blocked
     ELSE authCh' = authCh /\ blocked' = blocked \cup {s}
  /\ UNCHANGED <<cfgVars, pc, monitors, ends, envVars, monVars, nspVars, availabilityMap>>

Signal(s) ==
  /\ s \in blocked /\ authCh < AuthChCapacity
  /\ authCh' = authCh + 1 /\ blocked' = blocked \ {s}
  /\ UNCHANGED <<cfgVars, pc, monitors, storage, ends, envVars, monVars, nspVars,
                 availabilityMap, budget>>

(* Mutant: a drained burst is taken for handled. *)
AuthDrainOnly ==
  /\ authCh > 0 /\ authCh' = 0 /\ UNCHANGED pc
  /\ UNCHANGED <<cfgVars, monitors, storage, ends, blocked, envVars, monVars, nspVars,
                 availabilityMap, budget>>

(* authenticationAgent: drain the channel, then rewrite the configuration. *)
AuthDrain ==
  /\ authCh > 0 /\ authCh' = 0 /\ Step("auth", "idle", "promote")
  /\ UNCHANGED <<cfgVars, monitors, storage, ends, blocked, envVars, monVars, nspVars,
                 availabilityMap, budget>>
-----------------------------------------------------------------------------
(* vipAgent: checkAvailabilityAction *)
SetAvailability(key, value) ==
  LET map == [availabilityMap EXCEPT ![key] = value]
      sum == map.target /\ map.connectivity IN
  /\ availabilityMap' = [map EXCEPT !.overall = sum]
  /\ pc' = [pc EXCEPT !["vip"] = CASE sum = availabilityMap.overall -> "idle"
                                   [] sum -> "announce"
                                   [] OTHER -> "denounce",
                      !["monitor"] = IF key = "connectivity" THEN "top" ELSE @]

ReceiveConnectivity ==
  /\ pc["vip"] = "idle" /\ pc["monitor"] = "send"
  /\ SetAvailability("connectivity", hasConnectivity)
  /\ UNCHANGED <<cfgVars, authVars, envVars, monVars, nspVars, budget>>

(* The stream of the load balancer's availability service reports the      *)
(* current state.                                                          *)
ReceiveTarget ==
  /\ pc["vip"] = "idle" /\ availabilityMap.target # localTarget
  /\ SetAvailability("target", localTarget)
  /\ UNCHANGED <<cfgVars, authVars, envVars, monVars, nspVars, budget>>

announceVIP ==
  /\ cfgMu = "free" /\ Step("vip", "announce", "idle")
  /\ advertiseVIP' = TRUE /\ promoters' = promoters + 1
  /\ UNCHANGED <<config, rules, gatewayNames, conf, file, bird, cfgMu, stale,
                 authVars, envVars, monVars, nspVars, availabilityMap, budget>>

denounceVIP ==
  /\ cfgMu = "free" /\ Step("vip", "denounce", "idle")
  /\ advertiseVIP' = FALSE
  /\ promoters' = IF advertiseVIP THEN promoters + 1 ELSE promoters
  /\ UNCHANGED <<config, rules, gatewayNames, conf, file, bird, cfgMu, stale,
                 authVars, envVars, monVars, nspVars, availabilityMap, budget>>
-----------------------------------------------------------------------------
(* parseStatusOutput, ConnectivityStatus: judged by the gateways of the    *)
(* last writeConfig and the sessions of the configuration BIRD runs.       *)
ProtocolDown(g) == g \notin sessions

Up == {g \in bird.protocols \cap gatewayNames : ~ProtocolDown(g)}

NoConnectivity ==
  \/ gatewayNames = {}
  \/ FamiliesOf(gatewayNames) \ FamiliesOf(Up) # {}

MustDenounce == denounce \/ sessionErrors > MaxSessionErrors

(* The outcome of a call to the NSP, given what it does when it succeeds. *)
Call(after) ==
  \/ entry' = after /\ UNCHANGED budget
  \/ Spend("faults") /\ entry' = entry

(* Mutant: the refresh is not cancelled. *)
MonitorDenounceKeepsRefresh ==
  /\ MustDenounce /\ Step("monitor", "top", "send")
  /\ denounce' = FALSE /\ sessionErrors' = 0 /\ hasConnectivity' = FALSE
  /\ Call(FALSE) /\ UNCHANGED <<inflight, refresh>>
  /\ UNCHANGED <<cfgVars, authVars, envVars, availabilityMap>>

(* Monitor, head of the loop: the refresh is cancelled, which does not     *)
(* recall a request on its way.                                            *)
MonitorDenounce ==
  /\ MustDenounce /\ Step("monitor", "top", "send")
  /\ denounce' = FALSE /\ sessionErrors' = 0 /\ hasConnectivity' = FALSE /\ refresh' = FALSE
  /\ Call(FALSE) /\ inflight' \in {inflight, inflight \/ refresh}
  /\ UNCHANGED <<cfgVars, authVars, envVars, availabilityMap>>

(* birdc fails, or reports no protocols at all. *)
MonitorError ==
  /\ pc["monitor"] = "top" /\ ~MustDenounce
  /\ \/ Spend("faults") /\ sessionErrors' = sessionErrors + 1 /\ UNCHANGED denounce
     \/ ~bird.complete /\ sessionErrors' = 0 /\ denounce' = TRUE /\ UNCHANGED budget
  /\ UNCHANGED <<cfgVars, pc, authVars, envVars, hasConnectivity, refresh, nspVars, availabilityMap>>

MonitorDown ==
  /\ pc["monitor"] = "top" /\ ~MustDenounce /\ bird.complete
  /\ NoConnectivity
  /\ sessionErrors' = 0 /\ denounce' = hasConnectivity
  /\ UNCHANGED <<cfgVars, pc, authVars, envVars, hasConnectivity, refresh, nspVars,
                 availabilityMap, budget>>

MonitorUp ==
  /\ pc["monitor"] = "top" /\ ~MustDenounce /\ bird.complete
  /\ ~NoConnectivity
  /\ sessionErrors' = 0 /\ hasConnectivity' = TRUE
  /\ IF hasConnectivity
     THEN UNCHANGED <<pc, refresh, entry, budget>>
     ELSE /\ pc' = [pc EXCEPT !["monitor"] = "send"]
          /\ refresh' = TRUE /\ Call(TRUE)
  /\ UNCHANGED <<cfgVars, authVars, envVars, denounce, inflight, availabilityMap>>

(* The refresh goroutine: announceFrontend again and again; while it       *)
(* fails, the entry may expire.                                            *)
Refresh ==
  /\ refresh
  /\ \/ ~entry /\ entry' = TRUE /\ UNCHANGED budget
     \/ entry /\ Spend("faults") /\ entry' = FALSE
  /\ UNCHANGED <<cfgVars, pc, authVars, envVars, monVars, inflight, availabilityMap>>

(* The NSP handles a request that was cancelled, or it is lost. *)
NSPLateRegister ==
  /\ inflight /\ inflight' = FALSE
  /\ entry' \in {entry, TRUE}
  /\ UNCHANGED <<cfgVars, pc, authVars, envVars, monVars, availabilityMap, budget>>

(* The NSP removes an entry that nobody refreshes. *)
EntryExpires ==
  /\ entry /\ ~refresh /\ ~inflight /\ entry' = FALSE
  /\ UNCHANGED <<cfgVars, pc, authVars, envVars, monVars, inflight, availabilityMap, budget>>
-----------------------------------------------------------------------------
(* Gateways and the local load balancer. *)
SessionsChange ==
  /\ Spend("flaps")
  /\ \/ \E S \in SUBSET Gateways : S # sessions /\ sessions' = S /\ UNCHANGED localTarget
     \/ localTarget' = ~localTarget /\ UNCHANGED sessions
  /\ UNCHANGED <<cfgVars, pc, authVars, monVars, nspVars, availabilityMap>>

CleanUp == rules' = rules \ config.vips

(* Monitor, when its context is done. *)
LastDenounce == entry' = (entry /\ ~hasConnectivity)

(* The container restarts, after a crash or after a clean stop: CleanUp    *)
(* removes the rules and Monitor denounces the frontend.                   *)
Restart ==
  /\ Spend("faults")
  /\ config' = NoConfig /\ advertiseVIP' = FALSE /\ gatewayNames' = {}
  /\ conf' = Empty /\ file' = Empty /\ bird' = Empty
  /\ cfgMu' = "free" /\ pc' = Idle /\ promoters' = 0 /\ stale' = FALSE
  /\ monitors' = {} /\ storage' = {} /\ ends' = {} /\ blocked' = {} /\ authCh' = 0
  /\ hasConnectivity' = FALSE /\ sessionErrors' = 0 /\ denounce' = TRUE /\ refresh' = FALSE
  /\ availabilityMap' = [target |-> FALSE, connectivity |-> FALSE, overall |-> FALSE]
  /\ \/ UNCHANGED <<rules, entry>>
     \/ CleanUp /\ LastDenounce
  /\ inflight' \in {inflight, inflight \/ refresh}
  /\ UNCHANGED envVars

Promote(w) == Apply(w) \/ Handover(w)
Watcher == Promote("watch") \/ WatcherWrites \/ \E s \in Secrets : ManageStop(s)
AuthAgent == AuthDrain \/ AuthWrites \/ Promote("auth")
Promoters == PromoterWrites \/ Promote("promoter")
VipAgent == ReceiveConnectivity \/ ReceiveTarget \/ announceVIP \/ denounceVIP
Monitor == MonitorDenounce \/ MonitorDown \/ MonitorUp \/ MonitorError
NSP == NSPLateRegister \/ EntryExpires

Next ==
  \/ watchAttractor
  \/ Watcher \/ WriteFails \/ AuthAgent \/ Promoters \/ Reconfigure \/ VipAgent
  \/ \E s \in Secrets : SecretEvent(s) \/ Signal(s)
  \/ Monitor \/ Refresh \/ NSP
  \/ SessionsChange \/ Restart

Spec == Init /\ [][Next]_vars

(* Every goroutine runs, the monitor's timer fires, and the NSP answers    *)
(* requests and expires entries.  Changes, faults and restarts are not     *)
(* fair; the bounds make them cease.                                       *)
Fairness ==
  /\ WF_vars(Watcher) /\ WF_vars(AuthAgent) /\ WF_vars(Promoters) /\ WF_vars(Reconfigure)
  /\ WF_vars(VipAgent) /\ \A s \in Secrets : WF_vars(Signal(s))
  /\ WF_vars(Monitor) /\ WF_vars(Refresh) /\ WF_vars(NSP)

FairSpec == Spec /\ Fairness
-----------------------------------------------------------------------------
TypeOK ==
  /\ config \in Configs \cup {NoConfig}
  /\ \A f \in {conf, file, bird} : f.vips \subseteq config.vips \cup UNION {c.vips : c \in Configs}
  /\ cfgMu \in Writers \cup {"free"}
  /\ \A w \in Writers : pc[w] \in {"manage", "apply", "send"} => cfgMu = w
  /\ authCh \in 0..AuthChCapacity

(* Nobody is about to change or apply the configuration. *)
Settled ==
  /\ cfgMu = "free" /\ promoters = 0
  /\ pc["agent"] = "idle" /\ pc["vip"] = "idle" /\ pc["auth"] = "idle"
  /\ authCh = 0 /\ blocked = {}

(* Whatever the order in which the attractor, the secrets and the          *)
(* availability change, BIRD ends up with the configuration generated from *)
(* all of them: no change is overtaken by an older one, although BIRD      *)
(* reads the file after cfgMu was released.  Only a failed write of the    *)
(* attractor watcher leaves BIRD behind until the next change.             *)
BirdFollowsConfig == Settled /\ ~stale => bird = Generated

(* Traffic from a VIP of the attractor is always routed by its rules. *)
RulesCoverVIPs == config.vips \subseteq rules

(* BIRD and the kernel do what the attractor, the secrets and the           *)
(* availability say.                                                       *)
RoutingFollowsConfig == BirdFollowsConfig /\ RulesCoverVIPs

(* The attractor watcher, which holds cfgMu, waits for a slot of authCh,   *)
(* and the authentication agent, which would empty it, waits for cfgMu.    *)
WaitForEachOther ==
  pc["watch"] = "manage" /\ ends \cap storage # {} /\ authCh = AuthChCapacity /\ pc["auth"] = "promote"

(* Every attractor that was received is handed to BIRD, unless more        *)
(* signals than authCh has slots come while the agent waits for cfgMu.     *)
ConfigApplied == pc["watch"] # "idle" ~> (pc["watch"] = "idle" \/ WaitForEachOther)

(* "Withdraw VIPs in case FE is considered down" (service.go:272): if the  *)
(* gateways stay down, BIRD advertises no VIP and the NSP has no entry,    *)
(* although calls to the NSP fail or arrive late.                          *)
DownIsWithdrawn ==
  <>[](sessions = {} /\ ~WaitForEachOther) => <>[](bird.vips = {} /\ ~entry)

(* If every family keeps a gateway with a session and the local load       *)
(* balancer keeps a target, the VIPs are advertised and the frontend is    *)
(* announced, whatever failed before.                                      *)
Reachable ==
  /\ config.gateways # {} /\ ~stale /\ localTarget /\ ~WaitForEachOther
  /\ FamiliesOf(config.gateways) \subseteq FamiliesOf(writeConfigGW \cap sessions)
UpIsAnnounced == <>[]Reachable => <>[](bird.vips = config.vips /\ entry)

(* The announcements, to the gateways and to the NSP, come to follow the   *)
(* state of the gateways.                                                  *)
AnnouncementsFollow == DownIsWithdrawn /\ UpIsAnnounced
=============================================================================
