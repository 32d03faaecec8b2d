--------------------------- MODULE Configuration ---------------------------
(***************************************************************************)
(* The configuration path of the NSP: the config map's monitor reads,      *)
(* converts and stores each version in the registry, one resource type at  *)
(* a time, and sends an event for each; the notifier sends the resources   *)
(* of the event's type to the channel of every watcher; the handler of a   *)
(* watch call relays its channel to the client.  Both kinds of channels    *)
(* are bounded and a send to a full one waits.  The registry has no lock.  *)
(*                                                                         *)
(* A resource is [name, parent, refs]: parent is the set of its parent (at *)
(* most one), refs the names it lists before and the resources after the   *)
(* conversion.  In a config map parent is the set of the parent's name.    *)
(***************************************************************************)
EXTENDS Naturals, Sequences, FiniteSets

CONSTANTS
  Histories,   \* the instances: [versions, wants, cancels]
  MaxWatches,  \* watch calls in any of them
  EventCap,    \* capacity of configurationEventChan
  ChanCap      \* channelBufferSize

VARIABLES
  history,     \* the instance; never changes
  published,   \* versions of the config map written so far
  handled,     \* the last one the monitor has taken up
  readable,    \* the last one of those that could be read
  monitor,     \* the handler of that version: [at, todo, conf]
  registry,    \* the resources by type
  torn,        \* the type being assigned, with the old value still readable
  events,      \* configurationEventChan
  notifier,    \* the notifier's goroutine: [at, type, due, w, val]
  watchers,    \* the registered watchers
  ch,          \* ch[w]: the channel of the watcher
  server,      \* server[w]: the handler of the watch call: [at, val]
  canceled,    \* clients that are gone
  got,         \* got[w]: what the client received last
  overtaken    \* watchers whose first value was queued behind a newer one

vars == <<history, published, handled, readable, monitor, registry, torn, events, notifier, watchers,
          ch, server, canceled, got, overtaken>>

(* A config map is that of one trench, and a stream or flow has one parent *)
(* at most; the clients watch the streams or the flows of a conduit.       *)
ConfigMapShape(raw) ==
  /\ \E t \in raw.trench : raw.trench = {t}
  /\ \A c \in raw.conduits : c.name # ""
  /\ \A r \in raw.streams \cup raw.flows : \A p1, p2 \in r.parent : p1 = p2

OfConduit(want) ==
  /\ want.conduit # ""
  /\ \/ want.type = "streams" /\ \A c \in want.toWatch.parent : c.name = want.conduit
     \/ want.type = "flows" /\ \A s \in want.toWatch.parent : \A c \in s.parent : c.name = want.conduit

ASSUME HistoriesAssumption ==
  \A h \in Histories :
    /\ Len(h.versions) \in Nat
    /\ \A v \in 1..Len(h.versions) : ConfigMapShape(h.versions[v])
    /\ \A w \in DOMAIN h.wants : OfConduit(h.wants[w])

(* eventHandler sets the types in this order. *)
SetOrder == <<"trench", "conduits", "streams", "flows", "vips", "attractors", "gateways">>
Types == {SetOrder[i] : i \in DOMAIN SetOrder}
Watching == DOMAIN history.wants

-----------------------------------------------------------------------------
(* The conversion. *)

Converted(r, parent, refs) == [name |-> r.name, parent |-> parent, refs |-> refs]
Named(rs, names) == {r \in rs : r.name \in names}

OfTrench(rs, trench) == {r \in rs : r.parent = {t.name : t \in trench}}

ConvertTrench(raw) == {Converted(t, {}, {}) : t \in raw.trench}

ConvertVips(raw, trench) == {Converted(v, trench, {}) : v \in OfTrench(raw.vips, trench)}

ConvertConduits(raw, trench, vips) ==
  {Converted(c, trench, Named(vips, c.refs)) : c \in OfTrench(raw.conduits, trench)}

ConvertStreams(raw, conduits) ==
  {Converted(s, Named(conduits, s.parent), {}) :
     s \in {s \in raw.streams : Named(conduits, s.parent) # {}}}

ConvertFlows(raw, streams, vips) ==
  {Converted(f, Named(streams, f.parent), Named(vips, f.refs)) :
     f \in {f \in raw.flows : Named(streams, f.parent) # {}}}

ConvertGateways(raw, trench) ==
  {Converted(g, trench, {}) : g \in OfTrench(raw.gateways, trench)}

ConvertAttractors(raw, trench, vips, gateways) ==
  {Converted(a, trench, Named(vips \cup gateways, a.refs)) :
     a \in OfTrench(raw.attractors, trench)}

ConvertAll(raw) ==
  LET trench == ConvertTrench(raw)
      vips == ConvertVips(raw, trench)
      conduits == ConvertConduits(raw, trench, vips)
      streams == ConvertStreams(raw, conduits)
      gateways == ConvertGateways(raw, trench)
  IN  [trench |-> trench, conduits |-> conduits, streams |-> streams,
       flows |-> ConvertFlows(raw, streams, vips), vips |-> vips,
       attractors |-> ConvertAttractors(raw, trench, vips, gateways), gateways |-> gateways]

-----------------------------------------------------------------------------
(* Equals of the API types: a missing name matches any, a missing parent   *)
(* none.                                                                   *)
NamesMatch(r1, r2) == r1.name = "" \/ r2.name = "" \/ r1.name = r2.name
Parents(r1, r2, Equals(_, _)) ==
  \E p1 \in r1.parent, p2 \in r2.parent : Equals(p1, p2)

TrenchEquals(t1, t2) == NamesMatch(t1, t2)
ConduitEquals(c1, c2) == NamesMatch(c1, c2) /\ Parents(c1, c2, TrenchEquals)

(* Mutant: streams of the same name are equal whatever their conduit. *)
StreamEqualsByName(s1, s2) == NamesMatch(s1, s2)

StreamEquals(s1, s2) == NamesMatch(s1, s2) /\ Parents(s1, s2, ConduitEquals)
FlowEquals(f1, f2) == NamesMatch(f1, f2) /\ Parents(f1, f2, StreamEquals)
VipEquals(v1, v2) == NamesMatch(v1, v2) /\ Parents(v1, v2, TrenchEquals)
AttractorEquals(a1, a2) == NamesMatch(a1, a2) /\ Parents(a1, a2, TrenchEquals)
GatewayEquals(g1, g2) == NamesMatch(g1, g2) /\ Parents(g1, g2, TrenchEquals)

(* GetTrench compares the names as they are; the others filter the list. *)
Get(want, rs) ==
  CASE want.type = "trench"     -> {t \in rs : t.name = want.toWatch.name}
    [] want.type = "conduits"   -> {c \in rs : ConduitEquals(c, want.toWatch)}
    [] want.type = "streams"    -> {s \in rs : StreamEquals(s, want.toWatch)}
    [] want.type = "flows"      -> {f \in rs : FlowEquals(f, want.toWatch)}
    [] want.type = "vips"       -> {v \in rs : VipEquals(v, want.toWatch)}
    [] want.type = "attractors" -> {a \in rs : AttractorEquals(a, want.toWatch)}
    [] want.type = "gateways"   -> {g \in rs : GatewayEquals(g, want.toWatch)}

(* A read during an assignment sees the old slice, the new one, or the     *)
(* start of either with the other's length.                                *)
Readable(type) ==
  IF torn = type /\ type # "trench"
  THEN (SUBSET registry[type]) \cup (SUBSET monitor.conf[type])
  ELSE IF torn = type THEN {registry[type], monitor.conf[type]}
  ELSE {registry[type]}

-----------------------------------------------------------------------------
(* checkResource and checkChannel: the type a watch call is for. *)
WatchedType(w) == history.wants[w].type

NoConf == [t \in Types |-> {}]
IdleMonitor == [at |-> "idle", todo |-> << >>, conf |-> NoConf]
IdleNotifier == [at |-> "idle", type |-> "", due |-> {}, w |-> 0, val |-> {}]

Init ==
  /\ history \in Histories
  /\ published = 0
  /\ handled = 0
  /\ readable = 0
  /\ monitor = IdleMonitor
  /\ registry = NoConf
  /\ torn = ""
  /\ events = << >>
  /\ notifier = IdleNotifier
  /\ watchers = {}
  /\ ch = [w \in Watching |-> << >>]
  /\ server = [w \in Watching |-> [at |-> "off", val |-> {}]]
  /\ canceled = {}
  /\ got = [w \in Watching |-> {}]
  /\ overtaken = {}

Publish ==
  /\ published < Len(history.versions)
  /\ published' = published + 1
  /\ UNCHANGED <<history, handled, readable, monitor, registry, torn, events, notifier, watchers, ch,
                 server, canceled, got, overtaken>>

-----------------------------------------------------------------------------
(* The monitor.  It sees every version, or, when its watch was closed and  *)
(* opened again, goes on with the latest.  A version that cannot be read   *)
(* is dropped whole.                                                       *)
MonitorUnchanged ==
  UNCHANGED <<history, published, notifier, watchers, ch, server, canceled, got, overtaken>>

(* Mutant: the version that directly follows is taken for the one handled. *)
HandleSkips(v) ==
  /\ monitor.at = "idle"
  /\ v \in {handled + 1, published} /\ v > handled + 1 /\ v <= published
  /\ handled' = v
  /\ LET raw == history.versions[v]
     IN  /\ readable' = IF raw.valid THEN v ELSE readable
         /\ monitor' = IF raw.valid
                       THEN [at |-> "set", todo |-> SetOrder, conf |-> ConvertAll(raw)]
                       ELSE monitor
  /\ UNCHANGED <<registry, torn, events>>
  /\ MonitorUnchanged

Handle(v) ==
  /\ monitor.at = "idle"
  /\ v \in {handled + 1, published} /\ v > handled /\ v <= published
  /\ handled' = v
  /\ LET raw == history.versions[v]
     IN  /\ readable' = IF raw.valid THEN v ELSE readable
         /\ monitor' = IF raw.valid
                       THEN [at |-> "set", todo |-> SetOrder, conf |-> ConvertAll(raw)]
                       ELSE monitor
  /\ UNCHANGED <<registry, torn, events>>
  /\ MonitorUnchanged

SetStart ==
  /\ monitor.at = "set"
  /\ torn' = Head(monitor.todo)
  /\ monitor' = [monitor EXCEPT !.at = "assign"]
  /\ UNCHANGED <<handled, readable, registry, events>>
  /\ MonitorUnchanged

SetDone ==
  /\ monitor.at = "assign"
  /\ registry' = [registry EXCEPT ![torn] = monitor.conf[torn]]
  /\ torn' = ""
  /\ monitor' = [monitor EXCEPT !.at = "notify"]
  /\ UNCHANGED <<handled, readable, events>>
  /\ MonitorUnchanged

Notify ==
  /\ monitor.at = "notify" /\ Len(events) < EventCap
  /\ events' = Append(events, Head(monitor.todo))
  /\ monitor' = IF Len(monitor.todo) = 1 THEN IdleMonitor
                ELSE [monitor EXCEPT !.at = "set", !.todo = Tail(@)]
  /\ UNCHANGED <<handled, readable, registry, torn>>
  /\ MonitorUnchanged

-----------------------------------------------------------------------------
(* The notifier: an event, and for every watcher of its type a read and a  *)
(* send that may have to wait.  Range visits a watcher that comes or goes  *)
(* meanwhile or not.                                                       *)
NotifierUnchanged ==
  UNCHANGED <<history, published, handled, readable, monitor, registry, torn, watchers, server,
              canceled, got>>

TakeEvent ==
  /\ notifier.at = "idle" /\ events # << >>
  /\ events' = Tail(events)
  /\ LET due == {w \in watchers : WatchedType(w) = Head(events)}
     IN  notifier' = IF due = {} THEN IdleNotifier
                     ELSE [IdleNotifier EXCEPT !.at = "range", !.type = Head(events), !.due = due]
  /\ UNCHANGED <<ch, overtaken>>
  /\ NotifierUnchanged

NotifierRead(w) ==
  /\ notifier.at = "range" /\ w \in notifier.due \cap watchers
  /\ \E rs \in Readable(notifier.type) :
       notifier' = [notifier EXCEPT !.at = "send", !.w = w, !.val = Get(history.wants[w], rs),
                                    !.due = @ \ {w}]
  /\ UNCHANGED <<events, ch, overtaken>>
  /\ NotifierUnchanged

NotifierSend ==
  /\ notifier.at = "send"
  /\ Len(ch[notifier.w]) < ChanCap
  /\ ch' = [ch EXCEPT ![notifier.w] = Append(@, notifier.val)]
  /\ overtaken' = IF server[notifier.w].at = "first" THEN overtaken \cup {notifier.w}
                  ELSE overtaken \ {notifier.w}
  /\ notifier' = [notifier EXCEPT !.at = "range"]
  /\ UNCHANGED events
  /\ NotifierUnchanged

RangeDone ==
  /\ notifier.at = "range" /\ notifier.due \cap watchers = {}
  /\ notifier' = IdleNotifier
  /\ UNCHANGED <<events, ch, overtaken>>
  /\ NotifierUnchanged

-----------------------------------------------------------------------------
(* A watch call. *)
ServerUnchanged ==
  UNCHANGED <<history, published, handled, readable, monitor, registry, torn, events, notifier>>

RegisterWatcher(w) ==
  /\ server[w].at = "off" /\ w \notin canceled
  /\ WatchedType(w) \in Types
  /\ watchers' = watchers \cup {w}
  /\ server' = [server EXCEPT ![w].at = "stored"]
  /\ UNCHANGED <<ch, canceled, got, overtaken>>
  /\ ServerUnchanged

FirstRead(w) ==
  /\ server[w].at = "stored"
  /\ \E rs \in Readable(WatchedType(w)) :
       server' = [server EXCEPT ![w] = [at |-> "first", val |-> Get(history.wants[w], rs)]]
  /\ UNCHANGED <<watchers, ch, canceled, got, overtaken>>
  /\ ServerUnchanged

FirstSend(w) ==
  /\ server[w].at = "first" /\ Len(ch[w]) < ChanCap
  /\ ch' = [ch EXCEPT ![w] = Append(@, server[w].val)]
  /\ server' = [server EXCEPT ![w] = [at |-> "loop", val |-> {}]]
  /\ UNCHANGED <<watchers, canceled, got, overtaken>>
  /\ ServerUnchanged

Receive(w) ==
  /\ server[w].at = "loop" /\ ch[w] # << >>
  /\ server' = [server EXCEPT ![w] = [at |-> "send", val |-> Head(ch[w])]]
  /\ ch' = [ch EXCEPT ![w] = Tail(@)]
  /\ UNCHANGED <<watchers, canceled, got, overtaken>>
  /\ ServerUnchanged

(* Sending to a client that is gone fails, and is only logged. *)
Send(w) ==
  /\ server[w].at = "send"
  /\ got' = IF w \in canceled THEN got ELSE [got EXCEPT ![w] = server[w].val]
  /\ server' = [server EXCEPT ![w] = [at |-> "loop", val |-> {}]]
  /\ UNCHANGED <<watchers, ch, canceled, overtaken>>
  /\ ServerUnchanged

Leave(w) ==
  /\ server[w].at = "loop" /\ w \in canceled
  /\ server' = [server EXCEPT ![w].at = "left"]
  /\ UNCHANGED <<watchers, ch, canceled, got, overtaken>>
  /\ ServerUnchanged

UnregisterWatcher(w) ==
  /\ server[w].at = "left"
  /\ watchers' = watchers \ {w}
  /\ server' = [server EXCEPT ![w].at = "off"]
  /\ UNCHANGED <<ch, canceled, got, overtaken>>
  /\ ServerUnchanged

Cancel(w) ==
  /\ w \notin canceled /\ server[w].at # "off"
  /\ Cardinality(canceled) < history.cancels
  /\ canceled' = canceled \cup {w}
  /\ UNCHANGED <<watchers, ch, server, got, overtaken>>
  /\ ServerUnchanged

-----------------------------------------------------------------------------
Monitor == (\E v \in 1..published : Handle(v)) \/ SetStart \/ SetDone \/ Notify
Notifier == TakeEvent \/ (\E w \in Watching : NotifierRead(w)) \/ NotifierSend \/ RangeDone
Server(w) ==
  \/ RegisterWatcher(w)
  \/ FirstRead(w)
  \/ FirstSend(w)
  \/ Receive(w)
  \/ Send(w)
  \/ Leave(w)
  \/ UnregisterWatcher(w)

Next ==
  \/ Publish
  \/ Monitor
  \/ Notifier
  \/ \E w \in Watching : Server(w) \/ Cancel(w)

(* The goroutines go on whenever they can, and clients read what they are  *)
(* sent.  A handler whose client is gone keeps receiving or leaves, as     *)
(* select chooses; it leaves in the end.                                   *)
ServerRuns(w) == w \in Watching /\ Server(w)
ServerLeaves(w) == w \in Watching /\ Leave(w)
Fairness ==
  /\ WF_vars(Monitor)
  /\ WF_vars(Notifier)
  /\ \A w \in 1..MaxWatches : WF_vars(ServerRuns(w)) /\ SF_vars(ServerLeaves(w))

Spec == Init /\ [][Next]_vars /\ Fairness

-----------------------------------------------------------------------------
(* The streams and the flows of a conduit in a version of the config map,  *)
(* from the names in it alone.                                             *)
StreamsOf(v, conduit) ==
  {s.name : s \in {s \in history.versions[v].streams :
     \E c \in history.versions[v].conduits, t \in history.versions[v].trench :
       s.parent = {c.name} /\ c.name = conduit /\ c.parent = {t.name}}}
FlowsOf(v, conduit) ==
  {f.name : f \in {f \in history.versions[v].flows : f.parent \subseteq StreamsOf(v, conduit)}}

(* The clients here watch the streams or the flows of one conduit.  What   *)
(* they are sent are streams or flows of that conduit, through a stream    *)
(* and a conduit of the trench, in one and the same version of the config  *)
(* map, however far the registry was overwritten when it was read.         *)
DeliveredResolved ==
  \A w \in Watching :
    LET names == {r.name : r \in got[w]}
        want == history.wants[w]
    IN  got[w] # {} =>
          \E v \in {v \in 1..published : history.versions[v].valid} :
            names \subseteq IF want.type = "streams" THEN StreamsOf(v, want.conduit)
                           ELSE FlowsOf(v, want.conduit)

(* A watch call waits to send its first value into a full channel, which   *)
(* only itself would empty.                                                *)
Wedged(w) == server[w].at = "first" /\ Len(ch[w]) = ChanCap

(* The notifier waits for room in a channel that nobody will empty.        *)
Stuck ==
  /\ notifier.at = "send"
  /\ Len(ch[notifier.w]) = ChanCap
  /\ server[notifier.w].at \in {"left", "off"} \/ Wedged(notifier.w)

Latest == IF readable = 0 THEN NoConf ELSE ConvertAll(history.versions[readable])
Current(w) == got[w] = Get(history.wants[w], Latest[WatchedType(w)])

(* In the end the monitor has taken up the latest version of the config    *)
(* map, and every client that stays has what the latest readable version   *)
(* holds for it, unless the notifier is stuck or the client's first value, *)
(* read before a change, was queued behind the change or finds the channel *)
(* full of changes.                                                        *)
LatestWins ==
  <>[](Stuck \/ (/\ handled = published
                /\ \A w \in Watching : w \notin canceled =>
                     Current(w) \/ w \in overtaken \/ Wedged(w)))

(* A watch whose client is gone is unregistered in the end, unless its     *)
(* channel was full before the first value was sent.                       *)
WatchersReleased == <>[](\A w \in canceled : w \notin watchers \/ Wedged(w))

(* Watchers are served while they stay and let go when they leave.         *)
WatchersServed == LatestWins /\ WatchersReleased
=============================================================================
