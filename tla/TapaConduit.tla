---------------------------- MODULE TapaConduit ----------------------------
(***************************************************************************)
(* One conduit of the TAPA: conduit.go with its NSM connection, the        *)
(* connection monitor and the VIPs, manager.go with the streams and their  *)
(* open/refresh goroutines, and configuration.go, which brings the list of *)
(* streams.  What a stream says to the NSP is one step here (its protocol  *)
(* is in StreamRegistration); the locks are those of the code:             *)
(*   c.mu     connection and addresses: Connect, Disconnect, GetIPs,       *)
(*            SetVIPs, monitorConnection                                   *)
(*   sm.mu    the streams: AddStream, RemoveStream, SetStreams, Run, Stop  *)
(*   s.mu     one stream: Open (which calls GetIPs) and Close              *)
(***************************************************************************)
EXTENDS Integers, FiniteSets

CONSTANTS
    Streams,
    MaxGoroutines, \* goroutines of one stream on their way at a time
    Addresses,   \* the addresses NSM may give to the connection
    Budgets      \* how often each input may happen; others: a stream that
                 \* is left out here stays, and keeps the conduit

VARIABLES
    connected, localIPs, cmu,           \* Conduit
    monitor,     \* where monitorConnection is
    nsmIPs,      \* the addresses of the connection, according to NSM
    status, managed, conduitStreams, smu, \* streamManager
    closing,     \* streams the holder of sm.mu is closing
    handler,     \* streamHandler: where it is and the list it took
    configured, unread, \* the list of streams of the NSP
    goroutine,   \* stream -> slot -> the goroutine of an Open
    cancelOpen,  \* stream -> slot of the goroutine Close would cancel, or 0
    strmu,       \* stream -> holder of s.mu: a slot, or 0
    ips, identifier, \* stream -> s.ips, whether s.identifier is set
    rows,        \* the targets at the NSP: <<stream, address>>
    late,        \* registrations of cancelled calls that may still arrive
    shown,       \* the stream registry the user watches
    overtaken,   \* streams whose status was set by a cancelled goroutine
    tap,         \* what Tap.Close is doing
    budget

vars == <<connected, localIPs, cmu, monitor, nsmIPs, status, managed, conduitStreams, smu, closing,
          handler, configured, unread, goroutine, cancelOpen, strmu, ips, identifier, rows, late,
          shown, overtaken, tap, budget>>

conduit == <<connected, localIPs, cmu, monitor, nsmIPs>>
manager == <<status, managed, conduitStreams, smu, closing>>
config == <<handler, configured, unread>>
openers == <<goroutine, cancelOpen>>
stream == <<strmu, ips, identifier>>
nsp == <<rows, late>>
registry == <<shown, overtaken>>

None == "none"
Slots == 1..MaxGoroutines
Idle == [pc |-> "idle", ctx |-> "live", result |-> None]

(* The context of a goroutine: live, cancelled by Close, or orphan, when   *)
(* the stream it opens has been removed as well (a stream added again is a *)
(* new object with its own lock and identifier).                           *)
Live(s, j) == goroutine[s][j].ctx = "live"
Orphan(s, j) == goroutine[s][j].ctx = "orphan"

TypeOK ==
    /\ connected \in BOOLEAN /\ localIPs \in Addresses \union {None} /\ nsmIPs \in Addresses
    /\ cmu \in {"free", "monitor", "vips"}
    /\ monitor \in {"off", "recv", "stop", "closing", "run"}
    /\ status \in {"stopped", "running"} /\ managed \subseteq Streams /\ conduitStreams \subseteq Streams
    /\ smu \in {"free", "remove", "set", "monitor"} /\ closing \subseteq Streams
    /\ handler.pc \in {"idle", "wait"}
    /\ \A s \in Streams :
         /\ \A j \in Slots : goroutine[s][j].pc \in {"idle", "lock", "ips", "call", "status", "wait"}
         /\ cancelOpen[s] \in Slots \union {0} /\ strmu[s] \in Slots \union {0}
         /\ Cardinality({j \in Slots : goroutine[s][j].pc # "idle" /\ Live(s, j)}) <= 1
    /\ rows \subseteq Streams \X Addresses /\ late \subseteq Streams \X Addresses
    /\ tap \in {"idle", "removing", "disconnect", "gone"}

Init ==
    /\ connected = FALSE /\ localIPs = None /\ cmu = "free" /\ monitor = "off"
    /\ nsmIPs = (CHOOSE a \in Addresses : TRUE)
    /\ status = "stopped" /\ managed = {} /\ conduitStreams = {} /\ smu = "free" /\ closing = {}
    /\ handler = [pc |-> "idle", list |-> {}] /\ configured = Streams /\ unread = FALSE
    /\ goroutine = [s \in Streams |-> [j \in Slots |-> Idle]]
    /\ cancelOpen = [s \in Streams |-> 0]
    /\ strmu = [s \in Streams |-> 0] /\ ips = [s \in Streams |-> None]
    /\ identifier = [s \in Streams |-> FALSE]
    /\ rows = {} /\ late = {}
    /\ shown = [s \in Streams |-> None] /\ overtaken = {}
    /\ budget \in Budgets  \* calls, edits, addresses, vips, faults, others
    /\ tap = IF budget.calls = 0 THEN "gone" ELSE "idle"  \* without a stream no conduit

Spend(b) == budget[b] > 0 /\ budget' = [budget EXCEPT ![b] = @ - 1]

-----------------------------------------------------------------------------
(* streamRetry                                                             *)

FreeSlot(s) == CHOOSE j \in Slots : goroutine[s][j].pc = "idle"
SlotLeft(s) == \E j \in Slots : goroutine[s][j].pc = "idle"

(* Open: unless a previous Open has not been closed, a new goroutine.      *)
OpenStreams(S, g) ==
    LET new == {s \in S : cancelOpen[s] = 0}
    IN  /\ \A s \in new : SlotLeft(s)
        /\ goroutine' = [s \in Streams |-> IF s \in new THEN [g[s] EXCEPT ![FreeSlot(s)] = [Idle EXCEPT !.pc = "lock"]] ELSE g[s]]
        /\ cancelOpen' = [s \in Streams |-> IF s \in new THEN FreeSlot(s) ELSE cancelOpen[s]]

(* Close, first part: cancel the goroutine. *)
Cancelled(S) ==
    [s \in Streams |-> IF s \in S /\ cancelOpen[s] # 0
                       THEN [goroutine[s] EXCEPT ![cancelOpen[s]].ctx = "cancelled"] ELSE goroutine[s]]

(* Second part, with s.mu: Stream.Close unregisters the target it has an   *)
(* identifier for, which may fail; the stream forgets the identifier.      *)
StreamClose(s) ==
    /\ s \in closing /\ strmu[s] = 0
    /\ closing' = closing \ {s}
    /\ identifier' = [identifier EXCEPT ![s] = FALSE]
    /\ cancelOpen' = [cancelOpen EXCEPT ![s] = 0]
    /\ \/ rows' = (IF identifier[s] THEN rows \ {<<s, ips[s]>>} ELSE rows) /\ UNCHANGED budget
       \/ identifier[s] /\ Spend("faults") /\ UNCHANGED rows

-----------------------------------------------------------------------------
(* The goroutine of streamRetry.Open, around Stream.Open                   *)

GoTo(s, j, pc) == [goroutine EXCEPT ![s][j].pc = pc]

(* It locks s.mu ... *)
Lock(s, j) ==
    /\ goroutine[s][j].pc = "lock"
    /\ IF Orphan(s, j) THEN UNCHANGED strmu ELSE strmu[s] = 0 /\ strmu' = [strmu EXCEPT ![s] = j]
    /\ goroutine' = GoTo(s, j, "ips")
    /\ UNCHANGED <<conduit, manager, config, cancelOpen, ips, identifier, nsp, registry, tap, budget>>

Returns(s, j, result) ==
    /\ goroutine' = [goroutine EXCEPT ![s][j].pc = "status", ![s][j].result = result]
    /\ strmu' = IF Orphan(s, j) THEN strmu ELSE [strmu EXCEPT ![s] = 0]

(* ... and, holding it, c.mu in GetIPs.  Without addresses Open fails, and *)
(* so does the first call of a cancelled one.                              *)
GetIPs(s, j) ==
    /\ goroutine[s][j].pc = "ips" /\ cmu = "free"
    /\ ips' = IF Orphan(s, j) THEN ips ELSE [ips EXCEPT ![s] = IF connected THEN localIPs ELSE None]
    /\ IF connected /\ Live(s, j)
       THEN goroutine' = GoTo(s, j, "call") /\ UNCHANGED strmu
       ELSE Returns(s, j, "UNAVAILABLE")
    /\ UNCHANGED <<conduit, manager, config, cancelOpen, identifier, nsp, registry, tap, budget>>

(* The calls to the NSP: the target is registered; or a call fails, with   *)
(* or without effect at the NSP.  A call cancelled on its way fails here   *)
(* and may take effect there later.                                        *)
CallNSP(s, j) ==
    /\ goroutine[s][j].pc = "call"
    /\ \/ /\ Live(s, j)
          /\ Returns(s, j, "OPEN")
          /\ identifier' = [identifier EXCEPT ![s] = TRUE]
          /\ rows' = rows \union {<<s, ips[s]>>}
          /\ UNCHANGED <<late, budget>>
       \/ /\ Live(s, j) /\ Spend("faults")
          /\ Returns(s, j, "UNAVAILABLE")
          /\ \/ UNCHANGED <<identifier, rows>>
             \/ /\ identifier' = [identifier EXCEPT ![s] = TRUE]
                /\ rows' \in {rows, rows \union {<<s, ips[s]>>}}
          /\ UNCHANGED late
       \/ /\ ~Live(s, j)
          /\ Returns(s, j, "UNAVAILABLE")
          /\ identifier' \in {identifier, [identifier EXCEPT ![s] = TRUE]}
          /\ late' \in {late, late \union {<<s, ips[s]>>}}
          /\ UNCHANGED <<rows, budget>>
    /\ UNCHANGED <<conduit, manager, config, cancelOpen, ips, registry, tap>>

(* The result is shown, also when Close has been there in the meantime. *)
SetStatus(s, j) ==
    /\ goroutine[s][j].pc = "status"
    /\ goroutine' = GoTo(s, j, "wait")
    /\ shown' = [shown EXCEPT ![s] = goroutine[s][j].result]
    /\ overtaken' = IF Live(s, j) THEN overtaken \ {s} ELSE overtaken \union {s}
    /\ UNCHANGED <<conduit, manager, config, cancelOpen, stream, nsp, tap, budget>>

(* retry.Do: again after the delay, until cancelled. *)
Wait(s, j) ==
    /\ goroutine[s][j].pc = "wait"
    /\ goroutine' = IF Live(s, j) THEN GoTo(s, j, "lock") ELSE [goroutine EXCEPT ![s][j] = Idle]
    /\ UNCHANGED <<conduit, manager, config, cancelOpen, stream, nsp, registry, tap, budget>>

-----------------------------------------------------------------------------
(* streamManager; Tap.Open adds a stream, Tap.Close removes one            *)

AddStream(s) ==
    /\ tap = "idle" /\ smu = "free" /\ s \notin managed
    /\ Spend("calls")
    /\ managed' = managed \union {s}
    /\ IF status = "running" /\ s \in conduitStreams
       THEN OpenStreams({s}, goroutine) ELSE UNCHANGED openers
    /\ shown' = [shown EXCEPT ![s] = IF status = "stopped" THEN "UNAVAILABLE"
                                     ELSE IF s \notin conduitStreams THEN "UNDEFINED" ELSE "PENDING"]
    /\ overtaken' = overtaken \ {s}
    /\ UNCHANGED <<conduit, status, conduitStreams, smu, closing, config, stream, nsp, tap>>

RemoveStream(s) ==
    /\ tap = "idle" /\ smu = "free" /\ s \in managed
    /\ Spend("calls")
    /\ smu' = "remove" /\ closing' = {s}
    /\ goroutine' = Cancelled({s})
    /\ tap' = "removing"
    /\ UNCHANGED <<conduit, status, managed, conduitStreams, config, cancelOpen, stream, nsp, registry>>

(* The closed stream leaves the registry and the manager; after the last *)
(* one Tap.Close takes the conduit down.                                 *)
RemoveClosed(s) ==
    /\ smu = "remove" /\ StreamClose(s)
    /\ managed' = managed \ {s}
    /\ shown' = [shown EXCEPT ![s] = None]
    /\ overtaken' = overtaken \ {s}
    /\ goroutine' = [goroutine EXCEPT ![s] =
                       [j \in Slots |-> IF @[j].pc = "idle" THEN Idle ELSE [@[j] EXCEPT !.ctx = "orphan"]]]
    /\ smu' = "free"
    /\ tap' = IF managed' = {} /\ ~budget.others THEN "disconnect" ELSE "idle"
    /\ UNCHANGED <<conduit, status, conduitStreams, config, strmu, ips, late>>

(* SetStreams, called by streamHandler with the list it took: streams in  *)
(* the list are opened, the others closed.                                *)
SetStreams ==
    /\ handler.pc = "wait" /\ smu = "free"
    /\ conduitStreams' = handler.list
    /\ IF status = "stopped"
       THEN /\ handler' = [handler EXCEPT !.pc = "idle"]
            /\ UNCHANGED <<smu, closing, openers>>
       ELSE /\ smu' = "set" /\ closing' = managed \ handler.list
            /\ OpenStreams(managed \intersect handler.list, Cancelled(managed \ handler.list))
            /\ UNCHANGED handler
    /\ UNCHANGED <<conduit, status, managed, configured, unread, stream, nsp, registry, tap, budget>>

SetStreamsDone ==
    /\ smu = "set" /\ closing = {}
    /\ smu' = "free"
    /\ handler' = [handler EXCEPT !.pc = "idle"]
    /\ UNCHANGED <<conduit, status, managed, conduitStreams, closing, configured, unread, openers, stream, nsp, registry, tap, budget>>

(* A stream SetStreams or Stop closes is UNDEFINED, whatever Close said. *)
CloseUndefined(s) ==
    /\ smu \in {"set", "monitor"} /\ StreamClose(s)
    /\ shown' = [shown EXCEPT ![s] = "UNDEFINED"]
    /\ overtaken' = overtaken \ {s}
    /\ UNCHANGED <<conduit, status, managed, conduitStreams, smu, config, goroutine, strmu, ips, late, tap>>

(* Run opens the streams of the list. *)
Run ==
    /\ smu = "free"
    /\ OpenStreams(managed \intersect conduitStreams, goroutine)
    /\ shown' = [s \in Streams |-> IF s \in managed \ conduitStreams THEN "UNDEFINED" ELSE shown[s]]
    /\ overtaken' = overtaken \ (managed \ conduitStreams)
    /\ status' = "running"

-----------------------------------------------------------------------------
(* Conduit                                                                 *)

(* Connect, once NSM has given a connection (conduitConnect tries again    *)
(* until then): the addresses are read, the watch of the streams and the   *)
(* monitor are started, the streams opened.                                *)
Connect ==
    /\ tap # "gone" /\ ~connected /\ cmu = "free"
    /\ connected' = TRUE /\ localIPs' = nsmIPs
    /\ unread' = TRUE
    /\ monitor' = "recv"
    /\ Run
    /\ UNCHANGED <<cmu, nsmIPs, managed, conduitStreams, smu, closing, handler, configured, stream, nsp, tap, budget>>

(* Disconnect, with no stream left: the watch and the monitor are stopped, *)
(* the connection closed.                                                  *)
Disconnect ==
    /\ tap = "disconnect" /\ cmu = "free" /\ smu = "free"
    /\ connected' = FALSE /\ status' = "stopped" /\ monitor' = "off"
    /\ unread' = FALSE
    /\ tap' = "gone"
    /\ UNCHANGED <<localIPs, cmu, nsmIPs, managed, conduitStreams, smu, closing, handler, configured, openers, stream, nsp, registry, budget>>

(* SetVIPs holds c.mu while NSM answers; the answer brings the addresses. *)
SetVIPs ==
    /\ connected /\ cmu = "free"
    /\ Spend("vips")
    /\ cmu' = "vips"
    /\ UNCHANGED <<connected, localIPs, monitor, nsmIPs, manager, config, openers, stream, nsp, registry, tap>>

VIPsUpdated ==
    /\ cmu = "vips"
    /\ cmu' = "free"
    /\ \/ localIPs' = nsmIPs /\ UNCHANGED budget
       \/ Spend("faults") /\ UNCHANGED localIPs
    /\ UNCHANGED <<connected, monitor, nsmIPs, manager, config, openers, stream, nsp, registry, tap>>

(* monitorConnection receives an event and keeps c.mu until the streams    *)
(* have been closed and opened again, if the addresses are new ones.       *)
MonitorEvent ==
    /\ monitor = "recv" /\ connected /\ cmu = "free" /\ nsmIPs # localIPs
    /\ localIPs' = nsmIPs
    /\ cmu' = "monitor" /\ monitor' = "stop"
    /\ UNCHANGED <<connected, nsmIPs, manager, config, openers, stream, nsp, registry, tap, budget>>

MonitorStop ==
    /\ monitor = "stop" /\ smu = "free"
    /\ smu' = "monitor" /\ closing' = managed
    /\ goroutine' = Cancelled(managed)
    /\ monitor' = "closing"
    /\ UNCHANGED <<connected, localIPs, cmu, nsmIPs, status, managed, conduitStreams, config, cancelOpen, stream, nsp, registry, tap, budget>>

MonitorStopped ==
    /\ monitor = "closing" /\ closing = {}
    /\ status' = "stopped" /\ smu' = "free"
    /\ monitor' = "run"
    /\ UNCHANGED <<connected, localIPs, cmu, nsmIPs, managed, conduitStreams, closing, config, openers, stream, nsp, registry, tap, budget>>

(* Mutant: the streams are not opened again. *)
MonitorRunNot ==
    /\ monitor = "run" /\ smu = "free"
    /\ cmu' = "free" /\ monitor' = "recv"
    /\ UNCHANGED <<connected, localIPs, nsmIPs, manager, config, openers, stream, nsp, registry, tap, budget>>

MonitorRun ==
    /\ monitor = "run"
    /\ Run
    /\ cmu' = "free" /\ monitor' = "recv"
    /\ UNCHANGED <<connected, localIPs, nsmIPs, managed, conduitStreams, smu, closing, config, stream, nsp, tap, budget>>

-----------------------------------------------------------------------------
(* The list of streams; the channel holds the last one                     *)

TakeStreams ==
    /\ unread /\ handler.pc = "idle"
    /\ unread' = FALSE
    /\ handler' = [pc |-> "wait", list |-> configured]
    /\ UNCHANGED <<conduit, manager, configured, openers, stream, nsp, registry, tap, budget>>

(* An update may be about another attribute and leave the names as they were. *)
EditStreams ==
    /\ Spend("edits")
    /\ configured' \in SUBSET Streams
    /\ unread' = connected
    /\ UNCHANGED <<conduit, manager, handler, openers, stream, nsp, registry, tap>>

-----------------------------------------------------------------------------
(* NSM and the NSP                                                         *)

NewAddress ==
    /\ connected /\ Spend("addresses")
    /\ nsmIPs' \in Addresses \ {nsmIPs}
    /\ UNCHANGED <<connected, localIPs, cmu, monitor, manager, config, openers, stream, nsp, registry, tap>>

LateRegister(r) ==
    /\ r \in late
    /\ late' = late \ {r} /\ rows' = rows \union {r}
    /\ UNCHANGED <<conduit, manager, config, openers, stream, registry, tap, budget>>

(* A target nobody refreshes expires. *)
Expire(r) ==
    /\ r \in rows /\ ~(cancelOpen[r[1]] # 0 /\ ips[r[1]] = r[2])
    /\ rows' = rows \ {r}
    /\ UNCHANGED <<conduit, manager, config, openers, stream, late, registry, tap, budget>>

Rows == Streams \X Addresses

Step ==
    \/ \E s \in Streams : \/ RemoveClosed(s) \/ CloseUndefined(s)
                         \/ \E j \in Slots : Lock(s, j) \/ GetIPs(s, j) \/ CallNSP(s, j) \/ SetStatus(s, j) \/ Wait(s, j)
    \/ SetStreams \/ SetStreamsDone \/ Connect \/ Disconnect \/ VIPsUpdated
    \/ MonitorEvent \/ MonitorStop \/ MonitorStopped \/ MonitorRun \/ TakeStreams
    \/ \E r \in Rows : LateRegister(r) \/ Expire(r)

Next ==
    \/ \E s \in Streams : AddStream(s) \/ RemoveStream(s)
    \/ SetVIPs \/ EditStreams \/ NewAddress
    \/ Step

Spec == Init /\ [][Next]_vars

(* Goroutines run, and the timers of the refresh and of the NSP fire.  A   *)
(* goroutine that waits for s.mu while others take it in turn gets it in   *)
(* the end, as a Go mutex gives it to the one that has waited for long.    *)
Fairness ==
    /\ \A s \in Streams :
         /\ WF_vars(RemoveClosed(s)) /\ WF_vars(CloseUndefined(s))
         /\ \A j \in Slots : /\ SF_vars(Lock(s, j))
                             /\ WF_vars(GetIPs(s, j)) /\ WF_vars(CallNSP(s, j)) /\ WF_vars(SetStatus(s, j)) /\ WF_vars(Wait(s, j))
    /\ WF_vars(TakeStreams) /\ WF_vars(SetStreams) /\ WF_vars(SetStreamsDone)
    /\ WF_vars(Connect) /\ WF_vars(Disconnect) /\ WF_vars(VIPsUpdated)
    /\ WF_vars(MonitorEvent \/ MonitorStop \/ MonitorStopped \/ MonitorRun)
    /\ WF_vars(\E r \in Rows : LateRegister(r) \/ Expire(r))

FairSpec == Spec /\ Fairness

-----------------------------------------------------------------------------
(* Properties                                                              *)

(* monitorConnection, with c.mu, waits for a stream to be closed whose     *)
(* Open, with s.mu, waits for c.mu in GetIPs.  A mutex knows no timeout.   *)
Deadlocked ==
    /\ cmu = "monitor"
    /\ \E s \in closing : strmu[s] # 0 /\ goroutine[s][strmu[s]].pc = "ips"

(* The locks of the conduit and of the stream manager are always given     *)
(* back, also while calls fail and streams come and go, except in that one *)
(* situation.                                                              *)
LocksReleased ==
    /\ (cmu # "free") ~> (cmu = "free" \/ Deadlocked)
    /\ (smu # "free") ~> (smu = "free" \/ Deadlocked)

(* The user is shown the managed streams only, and OPEN only for a stream  *)
(* kept open, unless the last to speak was the goroutine of an Open that   *)
(* had been cancelled: setStatus is not told, and adds the stream again.   *)
ShownIsManaged ==
    \A s \in Streams \ overtaken :
        /\ (shown[s] # None) <=> (s \in managed)
        /\ shown[s] = "OPEN" => cancelOpen[s] # 0

(* A stream that stays added and configured ends up registered, and stays  *)
(* so, with the addresses the connection has; no target of a removed       *)
(* stream or of an old address stays, although unregistering may fail and  *)
(* a cancelled registration may arrive late.                               *)
TargetsSettle ==
    /\ \A s \in Streams : <>[](s \in managed /\ s \in configured) => <>[](<<s, localIPs>> \in rows \/ Deadlocked)
    /\ <>[]((\A r \in rows : r[1] \in managed \intersect configured /\ r[2] = nsmIPs) \/ Deadlocked)

(* The comment at the call of Stop: a timeout is there so as not to risk   *)
(* blocking indefinitely.                                                  *)
NeverBlocked == ~Deadlocked

=============================================================================
