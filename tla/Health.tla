------------------------------- MODULE Health -------------------------------
(***************************************************************************)
(* The health of a proxy.  The probes Kubernetes asks for (Readiness,      *)
(* Liveness) aggregate subservices, each reported by a goroutine or a      *)
(* chain element of its own: the state of a gRPC connection, the number of *)
(* connections to load balancers, a periodic query of the proxy's own      *)
(* endpoint.                                                               *)
(***************************************************************************)
EXTENDS Naturals, FiniteSets

CONSTANTS
  Clients,        \* gRPC connections, named by their subservice
  Balancers,      \* connections to load balancers
  HealthScenes    \* [breaks: changes of links and peers, changes: of the rest, stops]

VARIABLES
  probeToSubServices,
  status,         \* the health server: service -> unknown, serving or not
  peer,           \* does the other side of a gRPC connection answer?
  link,           \* its state: idle, down (connecting or failing) or ready
  seen,           \* the state its monitor read last
  monitor,        \* where the monitor is: start, set or wait
  connIds,        \* load balancers connected, as the health client counts them
  endpoint,       \* does the proxy's endpoint answer?
  probe,          \* the background probe: idle, its answer, or none
  halted,         \* the signal context is done
  health          \* budgets

vars == <<probeToSubServices, status, peer, link, seen, monitor, connIds, endpoint, probe, halted, health>>

Probes == {"Readiness", "Liveness"}
ProxyReadinessServices == Clients \union {"NSMEndpoint", "Egress"}
ProxyLivenessServices == {"NSMEndpoint"}
Services == Probes \union ProxyReadinessServices

Spend(what) == health[what] > 0 /\ health' = [health EXCEPT ![what] = @ - 1]

Serving(ok) == IF ok THEN "serving" ELSE "not"

-----------------------------------------------------------------------------
(* Checker. *)

(* RegisterServices: a subservice the server does not know is not serving, *)
(* and the probe serves when all its subservices do.                       *)
RegisterServices(registered, known, p, services) ==
  [registered |-> [registered EXCEPT ![p] = @ \union services],
   status |-> [s \in Services |->
     IF s = p THEN Serving(\A t \in services : known[t] = "serving")
     ELSE IF s \in services /\ known[s] = "unknown" THEN "not" ELSE known[s]]]

(* SetServingStatus of a subservice; the probes it belongs to follow. *)
SetServingStatus(service, ok) ==
  status' = [s \in Services |->
    IF s = service THEN Serving(ok)
    ELSE IF s \in Probes /\ service \in probeToSubServices[s]
    THEN Serving(ok /\ \A t \in probeToSubServices[s] \ {service} : status[t] = "serving")
    ELSE status[s]]

(* main registers readiness, then liveness, before anything reports. *)
Init ==
  /\ health \in HealthScenes
  /\ LET readiness == RegisterServices([p \in Probes |-> {}], [s \in Services |-> "unknown"],
                                       "Readiness", ProxyReadinessServices)
         liveness == RegisterServices(readiness.registered, readiness.status, "Liveness",
                                      ProxyLivenessServices)
     IN  probeToSubServices = liveness.registered /\ status = liveness.status
  /\ peer \in [Clients -> BOOLEAN]
  /\ link = [c \in Clients |-> "down"]
  /\ seen = [c \in Clients |-> "none"]
  /\ monitor = [c \in Clients |-> "start"]
  /\ connIds = {} /\ endpoint = TRUE /\ probe = "idle" /\ halted = FALSE

(* Check: what a probe, or a client of the server, is answered. *)
Check(service) == status[service] = "serving"

-----------------------------------------------------------------------------
(* gRPC connections: Monitor. *)

Connected(c) ==
  /\ link[c] = "down" /\ peer[c]
  /\ link' = [link EXCEPT ![c] = "ready"]
  /\ UNCHANGED <<probeToSubServices, status, peer, seen, monitor, connIds, endpoint, probe, halted, health>>

(* The peer goes or comes back, or a connection not in use becomes idle. *)
LinkBreaks(c) ==
  /\ Spend("breaks")
  /\ \/ /\ peer' = [peer EXCEPT ![c] = ~@]
        /\ link' = [link EXCEPT ![c] = IF peer[c] /\ @ = "ready" THEN "down" ELSE @]
     \/ link[c] = "ready" /\ link' = [link EXCEPT ![c] = "idle"] /\ UNCHANGED peer
  /\ UNCHANGED <<probeToSubServices, status, seen, monitor, connIds, endpoint, probe, halted>>

(* The monitor reads the state when it starts and when it has changed. *)
ReadState(c) ==
  /\ ~halted
  /\ monitor[c] = "start" \/ (monitor[c] = "wait" /\ link[c] # seen[c])
  /\ seen' = [seen EXCEPT ![c] = link[c]]
  /\ monitor' = [monitor EXCEPT ![c] = "set"]
  /\ UNCHANGED <<probeToSubServices, status, peer, link, connIds, endpoint, probe, halted, health>>

ReportState(c) ==
  /\ monitor[c] = "set"
  /\ SetServingStatus(c, seen[c] = "ready")
  /\ monitor' = [monitor EXCEPT ![c] = "wait"]
  /\ UNCHANGED <<probeToSubServices, peer, link, seen, connIds, endpoint, probe, halted, health>>

(* Mutant: the monitor only waits. *)
IdleTimeoutIgnored(c) ==
  /\ ~halted /\ monitor[c] = "wait" /\ seen[c] = "idle" /\ link[c] = "idle"
  /\ UNCHANGED vars

(* A connection that stays idle is told to connect. *)
IdleTimeout(c) ==
  /\ ~halted /\ monitor[c] = "wait" /\ seen[c] = "idle" /\ link[c] = "idle"
  /\ link' = [link EXCEPT ![c] = "down"]
  /\ UNCHANGED <<probeToSubServices, status, peer, seen, monitor, connIds, endpoint, probe, halted, health>>

-----------------------------------------------------------------------------
(* The connections to load balancers: healthServiceClient. *)

Request(id) ==
  /\ Spend("changes")
  /\ connIds' = connIds \union {id}
  /\ SetServingStatus("Egress", TRUE)
  /\ UNCHANGED <<probeToSubServices, peer, link, seen, monitor, endpoint, probe, halted>>

(* A close of any connection, also one that was not established. *)
Close(id) ==
  /\ Spend("changes")
  /\ connIds' = connIds \ {id}
  /\ IF connIds' = {} THEN SetServingStatus("Egress", FALSE) ELSE UNCHANGED status
  /\ UNCHANGED <<probeToSubServices, peer, link, seen, monitor, endpoint, probe, halted>>

-----------------------------------------------------------------------------
(* The background probe: CreateAndRunGRPCHealthProbe. *)

EndpointChanges ==
  /\ Spend("changes")
  /\ endpoint' = ~endpoint
  /\ UNCHANGED <<probeToSubServices, status, peer, link, seen, monitor, connIds, probe, halted>>

(* Creating the probe fails: it never runs. *)
ProbeNotCreated ==
  /\ Spend("changes") /\ probe = "idle" /\ status["NSMEndpoint"] = "not"
  /\ probe' = "none"
  /\ UNCHANGED <<probeToSubServices, status, peer, link, seen, monitor, connIds, endpoint, halted>>

(* A query takes a while: its answer may be old when it is reported. *)
ProbeRequest ==
  /\ ~halted /\ probe = "idle"
  /\ probe' = Serving(endpoint)
  /\ UNCHANGED <<probeToSubServices, status, peer, link, seen, monitor, connIds, endpoint, halted, health>>

ProbeReport ==
  /\ probe \in {"serving", "not"}
  /\ SetServingStatus("NSMEndpoint", probe = "serving")
  /\ probe' = "idle"
  /\ UNCHANGED <<probeToSubServices, peer, link, seen, monitor, connIds, endpoint, halted, health>>

(* A signal ends the monitors and the probe. *)
Halt ==
  /\ Spend("stops")
  /\ halted' = TRUE
  /\ UNCHANGED <<probeToSubServices, status, peer, link, seen, monitor, connIds, endpoint, probe>>

Watching(c) == Connected(c) \/ ReadState(c) \/ ReportState(c) \/ IdleTimeout(c)

Probing == ProbeRequest \/ ProbeReport

Next ==
  \/ \E c \in Clients : Watching(c) \/ LinkBreaks(c)
  \/ \E id \in Balancers : Request(id) \/ Close(id)
  \/ EndpointChanges \/ ProbeNotCreated \/ Probing \/ Halt

(* gRPC connects to a peer that answers; goroutines run. *)
Spec == Init /\ [][Next]_vars /\ WF_vars(Probing) /\ \A c \in Clients : WF_vars(Watching(c))

-----------------------------------------------------------------------------
(* Properties. *)

TypeOK ==
  /\ probeToSubServices \in [Probes -> SUBSET ProxyReadinessServices]
  /\ status \in [Services -> {"unknown", "serving", "not"}]
  /\ link \in [Clients -> {"idle", "down", "ready"}]
  /\ seen \in [Clients -> {"none", "idle", "down", "ready"}]
  /\ monitor \in [Clients -> {"start", "set", "wait"}]
  /\ connIds \subseteq Balancers /\ probe \in {"idle", "serving", "not", "none"}

(* A probe answers SERVING exactly when all its subservices serve, in any  *)
(* order of their reports.                                                 *)
ProbeFollows ==
  \A p \in Probes :
    Check(p) <=> \A s \in probeToSubServices[p] : Check(s)

(* Readiness does not stick: while the proxy runs it comes to say what is  *)
(* the case, that the peers answer, a load balancer is connected and the   *)
(* endpoint answers.  A connection gone idle does not keep it down; only a *)
(* background probe that could not be created does.                        *)
ReadinessFollows ==
  []<>( halted \/ probe = "none"
        \/ (Check("Readiness") <=>
              ((\A c \in Clients : peer[c]) /\ connIds # {} /\ endpoint)) )
=============================================================================
