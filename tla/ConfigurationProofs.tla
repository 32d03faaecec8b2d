------------------------- MODULE ConfigurationProofs -------------------------
(***************************************************************************)
(* TLAPS proofs about ResourceChanges.  For every history of the config    *)
(* map, every number of watch calls and every capacity of the channels,    *)
(* what a client is sent belongs to its conduit; for every set of conduits *)
(* and update groups, the conduits of a group are updated one at a time.   *)
(***************************************************************************)
EXTENDS ResourceChanges, Integers, TLAPS

Names(rs) == {r.name : r \in rs}
IsSeq(s) == \E S : s \in Seq(S)

(* The versions of the config map the monitor may have read. *)
Valid == {v \in 1..published : history.versions[v].valid}

(* The resources of a type come from one version of the config map. *)
From(type, rs) ==
  rs = {} \/ \E v \in Valid : rs \subseteq ConvertAll(history.versions[v])[type]

(* What client w may be sent. *)
Wanted(v, want) ==
  IF want.type = "streams" THEN StreamsOf(v, want.conduit) ELSE FlowsOf(v, want.conduit)
Resolved(w, val) == val # {} => \E v \in Valid : Names(val) \subseteq Wanted(v, history.wants[w])

Shapes ==
  /\ history \in Histories /\ published \in Nat /\ published <= Len(history.versions)
  /\ monitor = [at |-> monitor.at, todo |-> monitor.todo, conf |-> monitor.conf]
  /\ notifier = [at |-> notifier.at, type |-> notifier.type, due |-> notifier.due,
                 w |-> notifier.w, val |-> notifier.val]
  /\ registry = [t \in Types |-> registry[t]]
  /\ ch = [w \in Watching |-> ch[w]] /\ got = [w \in Watching |-> got[w]]
  /\ server = [w \in Watching |-> server[w]]
  /\ \A w \in Watching : IsSeq(ch[w]) /\ server[w] = [at |-> server[w].at, val |-> server[w].val]

(* The registry and the configuration being stored. *)
Stored == \A type \in {"streams", "flows"} : From(type, registry[type]) /\ From(type, monitor.conf[type])

(* What is on its way to a client. *)
OnItsWay ==
  /\ \A w \in notifier.due : WatchedType(w) = notifier.type
  /\ notifier.at = "send" => Resolved(notifier.w, notifier.val)
  /\ \A w \in Watching :
       /\ \A i \in 1..Len(ch[w]) : Resolved(w, ch[w][i])
       /\ Resolved(w, server[w].val) /\ Resolved(w, got[w])

IndInv == Shapes /\ Stored /\ OnItsWay
-----------------------------------------------------------------------------
(* The conversion. *)

LEMMA ConduitsResolved ==
  ASSUME NEW raw, ConfigMapShape(raw), NEW c \in ConvertAll(raw).conduits
  PROVE  \E x \in raw.conduits, t \in raw.trench : x.name = c.name /\ x.parent = {t.name}
<1>1. PICK t \in raw.trench : raw.trench = {t}
  BY Zenon DEF ConfigMapShape
<1>2. ConvertAll(raw).conduits =
        ConvertConduits(raw, ConvertTrench(raw), ConvertVips(raw, ConvertTrench(raw)))
  BY DEF ConvertAll
<1>3. PICK x \in OfTrench(raw.conduits, ConvertTrench(raw)) :
        c = Converted(x, ConvertTrench(raw),
                      Named(ConvertVips(raw, ConvertTrench(raw)), x.refs))
  BY <1>2, Zenon DEF ConvertConduits
<1>4. c.name = x.name
  BY <1>3 DEF Converted
<1>5. {u.name : u \in ConvertTrench(raw)} = {t.name}
  <2>1. Converted(t, {}, {}).name = t.name
    BY DEF Converted
  <2>2. ConvertTrench(raw) = {Converted(t, {}, {})}
    BY <1>1 DEF ConvertTrench
  <2> QED BY <2>1, <2>2
<1>6. x \in raw.conduits /\ x.parent = {t.name}
  BY <1>3, <1>5 DEF OfTrench
<1> QED BY <1>4, <1>6

(* A stream below a conduit of the given name is one of that conduit. *)
LEMMA StreamsResolved ==
  ASSUME NEW v, NEW raw, raw = history.versions[v], ConfigMapShape(raw),
         NEW s \in ConvertAll(raw).streams, NEW c \in s.parent
  PROVE  s.name \in StreamsOf(v, c.name)
<1>1. ConvertAll(raw).streams = ConvertStreams(raw, ConvertAll(raw).conduits)
  BY DEF ConvertAll
<1>2. PICK x \in raw.streams : s = Converted(x, Named(ConvertAll(raw).conduits, x.parent), {})
  BY <1>1, Zenon DEF ConvertStreams
<1>3. s.name = x.name /\ s.parent = Named(ConvertAll(raw).conduits, x.parent)
  BY <1>2 DEF Converted
<1>4. c \in ConvertAll(raw).conduits /\ c.name \in x.parent
  BY <1>3 DEF Named
<1>5. x.parent = {c.name}
  <2>1. \A p1, p2 \in x.parent : p1 = p2
    BY Zenon DEF ConfigMapShape
  <2> QED BY <1>4, <2>1
<1>6. PICK y \in raw.conduits, t \in raw.trench : y.name = c.name /\ y.parent = {t.name}
  BY <1>4, ConduitsResolved
<1> QED BY <1>3, <1>5, <1>6 DEF StreamsOf

LEMMA FlowsResolved ==
  ASSUME NEW v, NEW raw, raw = history.versions[v], ConfigMapShape(raw),
         NEW f \in ConvertAll(raw).flows, NEW s \in f.parent, NEW c \in s.parent
  PROVE  f.name \in FlowsOf(v, c.name)
<1>1. ConvertAll(raw).flows =
        ConvertFlows(raw, ConvertAll(raw).streams, ConvertVips(raw, ConvertTrench(raw)))
  BY DEF ConvertAll
<1>2. PICK x \in raw.flows :
        f = Converted(x, Named(ConvertAll(raw).streams, x.parent),
                      Named(ConvertVips(raw, ConvertTrench(raw)), x.refs))
  BY <1>1, Zenon DEF ConvertFlows
<1>3. f.name = x.name /\ f.parent = Named(ConvertAll(raw).streams, x.parent)
  BY <1>2 DEF Converted
<1>4. s \in ConvertAll(raw).streams /\ s.name \in x.parent
  BY <1>3 DEF Named
<1>5. x.parent = {s.name}
  <2>1. \A p1, p2 \in x.parent : p1 = p2
    BY Zenon DEF ConfigMapShape
  <2> QED BY <1>4, <2>1
<1>6. s.name \in StreamsOf(v, c.name)
  BY <1>4, StreamsResolved
<1> QED BY <1>3, <1>5, <1>6 DEF FlowsOf

LEMMA StreamParents ==
  ASSUME NEW raw, NEW s \in ConvertAll(raw).streams
  PROVE  s.parent \subseteq ConvertAll(raw).conduits
<1>1. ConvertAll(raw).streams = ConvertStreams(raw, ConvertAll(raw).conduits)
  BY DEF ConvertAll
<1>2. PICK x \in raw.streams : s = Converted(x, Named(ConvertAll(raw).conduits, x.parent), {})
  BY <1>1, Zenon DEF ConvertStreams
<1> QED BY <1>2 DEF Converted, Named

LEMMA FlowParents ==
  ASSUME NEW raw, NEW f \in ConvertAll(raw).flows
  PROVE  f.parent \subseteq ConvertAll(raw).streams
<1>1. ConvertAll(raw).flows =
        ConvertFlows(raw, ConvertAll(raw).streams, ConvertVips(raw, ConvertTrench(raw)))
  BY DEF ConvertAll
<1>2. PICK x \in raw.flows :
        f = Converted(x, Named(ConvertAll(raw).streams, x.parent),
                      Named(ConvertVips(raw, ConvertTrench(raw)), x.refs))
  BY <1>1, Zenon DEF ConvertFlows
<1> QED BY <1>2 DEF Converted, Named

LEMMA ConduitsAreNamed ==
  ASSUME NEW raw, ConfigMapShape(raw), NEW c \in ConvertAll(raw).conduits
  PROVE  c.name # ""
<1>1. PICK x \in raw.conduits, t \in raw.trench : x.name = c.name /\ x.parent = {t.name}
  BY ConduitsResolved
<1> QED BY <1>1, Zenon DEF ConfigMapShape

LEMMA ConduitNamed ==
  ASSUME NEW raw, ConfigMapShape(raw), NEW c \in ConvertAll(raw).conduits, NEW d, d.name # "",
         ConduitEquals(c, d)
  PROVE  c.name = d.name
<1>1. c.name # ""
  BY ConduitsAreNamed, Zenon
<1>2. NamesMatch(c, d)
  BY Zenon DEF ConduitEquals
<1> QED BY <1>1, <1>2, Zenon DEF NamesMatch

(* What GetStreams and GetFlows filter from resources of one version. *)
LEMMA GetResolved ==
  ASSUME NEW v, ConfigMapShape(history.versions[v]), NEW want, OfConduit(want), NEW rs,
         rs \subseteq ConvertAll(history.versions[v])[want.type]
  PROVE  Names(Get(want, rs)) \subseteq Wanted(v, want)
<1> DEFINE raw == history.versions[v]
<1> SUFFICES ASSUME NEW r \in Get(want, rs) PROVE r.name \in Wanted(v, want)
  BY DEF Names
<1>1. CASE want.type = "streams"
  <2>1. r \in rs /\ StreamEquals(r, want.toWatch)
    BY <1>1 DEF Get
  <2>2. PICK c \in r.parent, d \in want.toWatch.parent : ConduitEquals(c, d)
    BY <2>1, Zenon DEF StreamEquals, Parents
  <2>3. d.name = want.conduit /\ want.conduit # ""
    BY <1>1, Zenon DEF OfConduit
  <2>4. r \in ConvertAll(raw).streams
    BY <1>1, <2>1 DEF ConvertAll
  <2>5. c \in ConvertAll(raw).conduits
    BY <2>2, <2>4, StreamParents
  <2>6. c.name = want.conduit
    BY <2>2, <2>3, <2>5, ConduitNamed, Zenon
  <2>7. r.name \in StreamsOf(v, want.conduit)
    BY <2>2, <2>4, <2>6, StreamsResolved
  <2> QED BY <1>1, <2>7 DEF Wanted
<1>2. CASE want.type = "flows"
  <2>1. r \in rs /\ FlowEquals(r, want.toWatch)
    BY <1>2 DEF Get
  <2>2. PICK s \in r.parent, e \in want.toWatch.parent : StreamEquals(s, e)
    BY <2>1, Zenon DEF FlowEquals, Parents
  <2>3. PICK c \in s.parent, d \in e.parent : ConduitEquals(c, d)
    BY <2>2, Zenon DEF StreamEquals, Parents
  <2>4. d.name = want.conduit /\ want.conduit # ""
    BY <1>2, <2>2, <2>3, Zenon DEF OfConduit
  <2>5. r \in ConvertAll(raw).flows
    BY <1>2, <2>1 DEF ConvertAll
  <2>6. s \in ConvertAll(raw).streams
    BY <2>2, <2>5, FlowParents
  <2>7. c \in ConvertAll(raw).conduits
    BY <2>3, <2>6, StreamParents
  <2>8. c.name = want.conduit
    BY <2>3, <2>4, <2>7, ConduitNamed, Zenon
  <2>9. r.name \in FlowsOf(v, want.conduit)
    BY <2>2, <2>3, <2>5, <2>8, FlowsResolved
  <2> QED BY <1>2, <2>9 DEF Wanted
<1> QED BY <1>1, <1>2, Zenon DEF OfConduit

(* Whatever the registry held or was being assigned, a watch call and the  *)
(* notifier read what belongs to the conduit.                              *)
LEMMA ReadResolved ==
  ASSUME IndInv, NEW w \in Watching, NEW type, type = WatchedType(w), NEW rs \in Readable(type)
  PROVE  Resolved(w, Get(history.wants[w], rs))
<1> DEFINE want == history.wants[w]
<1>1. OfConduit(want) /\ type = want.type /\ type \in {"streams", "flows"}
  BY HistoriesAssumption, Zenon DEF IndInv, Shapes, Watching, WatchedType, OfConduit
<1>2. rs \subseteq registry[type] \/ rs \subseteq monitor.conf[type]
  BY <1>1 DEF Readable
<1>3. rs = {} \/ \E v \in Valid : rs \subseteq ConvertAll(history.versions[v])[type]
  BY <1>1, <1>2 DEF IndInv, Stored, From
<1>4. CASE rs = {}
  <2>1. Get(want, rs) = {}
    BY <1>1, <1>4 DEF Get
  <2> QED BY <2>1 DEF Resolved
<1>5. ASSUME NEW v \in Valid, rs \subseteq ConvertAll(history.versions[v])[type]
      PROVE  Resolved(w, Get(want, rs))
  <2>1. ConfigMapShape(history.versions[v])
    BY HistoriesAssumption DEF Valid, IndInv, Shapes
  <2>2. Names(Get(want, rs)) \subseteq Wanted(v, want)
    BY <1>1, <1>5, <2>1, GetResolved
  <2> QED BY <2>2 DEF Resolved
<1> QED BY <1>3, <1>4, <1>5

LEMMA AppendOne ==
  ASSUME NEW s, IsSeq(s), NEW a
  PROVE  /\ IsSeq(Append(s, a)) /\ Len(s) \in Nat /\ Len(Append(s, a)) = Len(s) + 1
         /\ \A i \in 1..Len(s) : Append(s, a)[i] = s[i]
         /\ Append(s, a)[Len(s) + 1] = a
<1>1. PICK S : s \in Seq(S)
  BY DEF IsSeq
<1>2. s \in Seq(S \cup {a}) /\ Append(s, a) \in Seq(S \cup {a})
  BY <1>1
<1> QED BY <1>2 DEF IsSeq

LEMMA TailOf ==
  ASSUME NEW s, IsSeq(s), s # << >>
  PROVE  /\ IsSeq(Tail(s)) /\ Len(s) \in Nat /\ Len(s) > 0 /\ Len(Tail(s)) = Len(s) - 1
         /\ Head(s) = s[1]
         /\ \A i \in 1..Len(Tail(s)) : Tail(s)[i] = s[i + 1]
<1>1. PICK S : s \in Seq(S)
  BY DEF IsSeq
<1> QED BY <1>1 DEF IsSeq

-----------------------------------------------------------------------------
(* The steps. *)

USE DEF IdleMonitor, IdleNotifier

LEMMA WatchedTypes == {"streams", "flows"} \subseteq Types /\ \A t \in Types : NoConf[t] = {}
<1>1. SetOrder[3] = "streams" /\ SetOrder[4] = "flows" /\ {3, 4} \subseteq DOMAIN SetOrder
  BY DEF SetOrder
<1>2. Types = {SetOrder[i] : i \in DOMAIN SetOrder}
  BY DEF Types
<1>3. "streams" \in Types /\ "flows" \in Types
  BY <1>1, <1>2
<1> QED BY <1>3 DEF NoConf

LEMMA InitHolds == Init => IndInv
<1> SUFFICES ASSUME Init PROVE IndInv
  OBVIOUS
<1>1. Shapes
  <2>1. history \in Histories /\ published = 0 /\ Len(history.versions) \in Nat
    BY HistoriesAssumption, Zenon DEF Init
  <2>2. IsSeq(<< >>)
    BY DEF IsSeq
  <2>3. registry = [t \in Types |-> {}]
    BY Zenon DEF Init, NoConf
  <2>4. ch = [w \in Watching |-> << >>] /\ got = [w \in Watching |-> {}]
        /\ server = [w \in Watching |-> [at |-> "off", val |-> {}]]
    BY Zenon DEF Init
  <2>5. /\ monitor = [at |-> monitor.at, todo |-> monitor.todo, conf |-> monitor.conf]
        /\ notifier = [at |-> notifier.at, type |-> notifier.type, due |-> notifier.due,
                       w |-> notifier.w, val |-> notifier.val]
    BY Zenon DEF Init
  <2>6. registry = [t \in Types |-> registry[t]]
    BY <2>3
  <2>7. ch = [w \in Watching |-> ch[w]] /\ got = [w \in Watching |-> got[w]]
        /\ server = [w \in Watching |-> server[w]]
    BY <2>4
  <2>8. \A w \in Watching : IsSeq(ch[w]) /\ server[w] = [at |-> server[w].at, val |-> server[w].val]
    BY <2>2, <2>4
  <2> QED BY <2>1, <2>5, <2>6, <2>7, <2>8 DEF Shapes
<1>2. Stored
  BY WatchedTypes, Zenon DEF Init, Stored, From
<1>3. OnItsWay
  <2>1. notifier.due = {} /\ notifier.at = "idle"
    BY Zenon DEF Init
  <2>2. \A w \in Watching : ch[w] = << >> /\ server[w].val = {} /\ got[w] = {}
    BY Zenon DEF Init
  <2>3. Len(<< >>) = 0
    OBVIOUS
  <2> QED BY <2>1, <2>2, <2>3 DEF OnItsWay, Resolved
<1> QED BY <1>1, <1>2, <1>3 DEF IndInv

(* While the config map stays, what it resolves to does. *)
LEMMA Restated ==
  ASSUME UNCHANGED <<history, published>>,
         \A type \in {"streams", "flows"} : From(type, registry'[type]) /\ From(type, monitor'.conf[type]),
         \A w \in notifier'.due : WatchedType(w) = notifier'.type,
         notifier'.at = "send" => Resolved(notifier'.w, notifier'.val),
         \A w \in Watching :
           /\ \A i \in 1..Len(ch'[w]) : Resolved(w, ch'[w][i])
           /\ Resolved(w, server'[w].val) /\ Resolved(w, got'[w])
  PROVE  Stored' /\ OnItsWay'
<1>1. Stored'
  BY DEF Stored, From, Valid
<1>2. OnItsWay'
  <2>1. \A v, c : StreamsOf(v, c)' = StreamsOf(v, c)
    BY DEF StreamsOf
  <2>2. \A v, c : FlowsOf(v, c)' = FlowsOf(v, c)
    BY <2>1 DEF FlowsOf
  <2>3. \A v, want : Wanted(v, want)' = Wanted(v, want)
    BY <2>1, <2>2 DEF Wanted
  <2>4. Valid' = Valid /\ Watching' = Watching
    BY DEF Valid, Watching
  <2>5. \A w, val : Resolved(w, val)' <=> Resolved(w, val)
    BY <2>3, <2>4 DEF Resolved
  <2>6. \A w : WatchedType(w)' = WatchedType(w)
    BY DEF WatchedType
  <2> QED BY <2>4, <2>5, <2>6 DEF OnItsWay
<1> QED BY <1>1, <1>2

LEMMA PublishStep == IndInv /\ Publish => IndInv'
<1> SUFFICES ASSUME IndInv, Publish PROVE IndInv'
  OBVIOUS
<1>1. history' = history /\ published' = published + 1 /\ published' \in Nat
      /\ published' <= Len(history.versions)
  BY HistoriesAssumption DEF Publish, IndInv, Shapes
<1>2. UNCHANGED <<monitor, registry, notifier, ch, server, got>> /\ Watching' = Watching
  BY <1>1 DEF Publish, Watching
<1>3. Shapes'
  BY <1>1, <1>2 DEF IndInv, Shapes
<1>4. Valid \subseteq Valid'
  BY <1>1 DEF Valid, IndInv, Shapes
<1>5. Stored'
  BY <1>1, <1>2, <1>4 DEF IndInv, Stored, From
<1>6. OnItsWay'
  <2>1. \A v, c : StreamsOf(v, c)' = StreamsOf(v, c)
    BY <1>1 DEF StreamsOf
  <2>2. \A v, c : FlowsOf(v, c)' = FlowsOf(v, c)
    BY <1>1, <2>1 DEF FlowsOf
  <2>3. \A v, want : Wanted(v, want)' = Wanted(v, want)
    BY <2>1, <2>2 DEF Wanted
  <2>4. \A w, val : Resolved(w, val) => Resolved(w, val)'
    BY <1>1, <1>4, <2>3 DEF Resolved
  <2>5. \A w : WatchedType(w)' = WatchedType(w)
    BY <1>1 DEF WatchedType
  <2> QED BY <1>2, <2>4, <2>5 DEF OnItsWay, IndInv
<1> QED BY <1>3, <1>5, <1>6 DEF IndInv

LEMMA MonitorStep == IndInv /\ Monitor => IndInv'
<1> SUFFICES ASSUME IndInv, Monitor PROVE IndInv'
  OBVIOUS
<1> DEFINE Kept == /\ monitor' = [at |-> monitor'.at, todo |-> monitor'.todo, conf |-> monitor'.conf]
                   /\ registry' = [t \in Types |-> registry'[t]]
                   /\ \A type \in {"streams", "flows"} :
                        From(type, registry'[type]) /\ From(type, monitor'.conf[type])
<1>1. UNCHANGED <<history, published, notifier, ch, server, got>>
  BY Zenon DEF Monitor, Handle, SetStart, SetDone, Notify, MonitorUnchanged
<1>2. monitor = [at |-> monitor.at, todo |-> monitor.todo, conf |-> monitor.conf]
      /\ registry = [t \in Types |-> registry[t]]
  BY DEF IndInv, Shapes
<1>3. \A type \in {"streams", "flows"} : From(type, registry[type]) /\ From(type, monitor.conf[type])
  BY DEF IndInv, Stored
<1>4. ASSUME NEW v \in 1..published, Handle(v) PROVE Kept
  <2>1. registry' = registry
    BY <1>4 DEF Handle
  <2>2. CASE history.versions[v].valid
    <3>1. monitor' = [at |-> "set", todo |-> SetOrder, conf |-> ConvertAll(history.versions[v])]
      BY <1>4, <2>2 DEF Handle
    <3>2. monitor'.conf = ConvertAll(history.versions[v]) /\ v \in Valid
      BY <2>2, <3>1 DEF Valid
    <3>3. \A type : From(type, monitor'.conf[type])
      BY <3>2 DEF From
    <3> QED BY <1>2, <1>3, <2>1, <3>1, <3>3
  <2>3. CASE ~history.versions[v].valid
    <3>1. monitor' = monitor
      BY <1>4, <2>3 DEF Handle
    <3> QED BY <1>2, <1>3, <2>1, <3>1
  <2> QED BY <2>2, <2>3
<1>5. ASSUME SetStart PROVE Kept
  <2>1. registry' = registry
    BY <1>5 DEF SetStart
  <2>2. monitor' = [at |-> "assign", todo |-> monitor.todo, conf |-> monitor.conf]
    BY <1>2, <1>5 DEF SetStart
  <2>3. monitor'.conf = monitor.conf
    BY <2>2
  <2>4. \A type \in {"streams", "flows"} : From(type, registry'[type]) /\ From(type, monitor'.conf[type])
    BY <1>3, <2>1, <2>3
  <2> QED BY <1>2, <2>1, <2>2, <2>4
<1>6. ASSUME SetDone PROVE Kept
  <2>1. registry' = [registry EXCEPT ![torn] = monitor.conf[torn]]
    BY <1>6, Zenon DEF SetDone
  <2>2. monitor' = [at |-> "notify", todo |-> monitor.todo, conf |-> monitor.conf]
    BY <1>2, <1>6, Zenon DEF SetDone
  <2>3. monitor'.conf = monitor.conf
    BY <2>2
  <2>4. registry' = [t \in Types |-> IF t = torn THEN monitor.conf[t] ELSE registry[t]]
    BY <1>2, <2>1
  <2>5. \A t \in Types : registry'[t] = monitor.conf[t] \/ registry'[t] = registry[t]
    BY <2>4
  <2>6. \A type \in {"streams", "flows"} : From(type, registry'[type]) /\ From(type, monitor'.conf[type])
    BY <1>3, <2>3, <2>5, WatchedTypes
  <2>7. registry' = [t \in Types |-> registry'[t]]
    BY <2>4
  <2> QED BY <2>2, <2>6, <2>7
<1>7. ASSUME Notify PROVE Kept
  <2>1. registry' = registry
    BY <1>7 DEF Notify
  <2>2. CASE Len(monitor.todo) = 1
    <3>1. monitor' = IdleMonitor
      BY <1>7, <2>2 DEF Notify
    <3>2. \A type \in {"streams", "flows"} : monitor'.conf[type] = {}
      BY <3>1, WatchedTypes
    <3>3. \A type \in {"streams", "flows"} : From(type, registry'[type]) /\ From(type, monitor'.conf[type])
      BY <1>3, <2>1, <3>2 DEF From
    <3> QED BY <1>2, <2>1, <3>1, <3>3
  <2>3. CASE Len(monitor.todo) # 1
    <3>1. monitor' = [at |-> "set", todo |-> Tail(monitor.todo), conf |-> monitor.conf]
      BY <1>2, <1>7, <2>3, Zenon DEF Notify
    <3>2. monitor'.conf = monitor.conf
      BY <3>1
    <3>3. \A type \in {"streams", "flows"} : From(type, registry'[type]) /\ From(type, monitor'.conf[type])
      BY <1>3, <2>1, <3>2
    <3> QED BY <1>2, <2>1, <3>1, <3>3
  <2> QED BY <2>2, <2>3
<1>8. Kept
  <2> HIDE DEF Kept
  <2> QED BY <1>4, <1>5, <1>6, <1>7, Zenon DEF Monitor
<1>9. Stored' /\ OnItsWay'
  BY <1>1, <1>8, Restated DEF IndInv, OnItsWay
<1>10. Shapes'
  BY <1>1, <1>8, Zenon DEF IndInv, Shapes, Watching
<1> QED BY <1>9, <1>10 DEF IndInv

LEMMA NotifierStep == IndInv /\ Notifier => IndInv'
<1> SUFFICES ASSUME IndInv, Notifier PROVE IndInv'
  OBVIOUS
<1> DEFINE IsNotifier(n) == n = [at |-> n.at, type |-> n.type, due |-> n.due, w |-> n.w, val |-> n.val]
           Due == \A w \in notifier'.due : WatchedType(w) = notifier'.type
           Sent == notifier'.at = "send" => Resolved(notifier'.w, notifier'.val)
           Channels == /\ ch' = [w \in Watching |-> ch'[w]]
                       /\ \A w \in Watching :
                            IsSeq(ch'[w]) /\ \A i \in 1..Len(ch'[w]) : Resolved(w, ch'[w][i])
<1>1. UNCHANGED <<history, published, monitor, registry, server, got>>
  BY Zenon DEF Notifier, TakeEvent, NotifierRead, NotifierSend, RangeDone, NotifierUnchanged
<1>2. IsNotifier(notifier) /\ ch = [w \in Watching |-> ch[w]]
      /\ \A w \in Watching : IsSeq(ch[w]) /\ \A i \in 1..Len(ch[w]) : Resolved(w, ch[w][i])
  BY DEF IndInv, Shapes, OnItsWay
<1>3. \A w \in notifier.due : WatchedType(w) = notifier.type
  BY DEF IndInv, OnItsWay
<1>4. IdleNotifier.due = {} /\ IdleNotifier.at = "idle" /\ IsNotifier(IdleNotifier)
  OBVIOUS
<1>5. ASSUME TakeEvent PROVE IsNotifier(notifier') /\ Due /\ Sent /\ Channels
  <2> DEFINE due == {w \in watchers : WatchedType(w) = Head(events)}
  <2>1. Channels
    BY <1>2, <1>5, Zenon DEF TakeEvent
  <2>2. CASE due = {}
    <3>1. notifier' = IdleNotifier
      BY <1>5, <2>2, Zenon DEF TakeEvent
    <3> QED BY <1>4, <2>1, <3>1, Zenon
  <2>3. CASE due # {}
    <3>1. notifier' = [at |-> "range", type |-> Head(events), due |-> due, w |-> 0, val |-> {}]
      BY <1>5, <2>3, Zenon DEF TakeEvent
    <3>2. notifier'.at = "range" /\ notifier'.type = Head(events) /\ notifier'.due = due
      BY <3>1
    <3>3. IsNotifier(notifier')
      BY <3>1
    <3> QED BY <2>1, <3>2, <3>3
  <2> QED BY <2>2, <2>3
<1>6. ASSUME NEW w \in Watching, NotifierRead(w) PROVE IsNotifier(notifier') /\ Due /\ Sent /\ Channels
  <2>1. PICK rs \in Readable(notifier.type) :
          notifier' = [notifier EXCEPT !.at = "send", !.w = w, !.val = Get(history.wants[w], rs),
                                       !.due = @ \ {w}]
    BY <1>6, Zenon DEF NotifierRead
  <2>2. notifier' = [at |-> "send", type |-> notifier.type, due |-> notifier.due \ {w}, w |-> w,
                     val |-> Get(history.wants[w], rs)]
    BY <1>2, <2>1, Zenon
  <2>3. notifier'.due = notifier.due \ {w} /\ notifier'.type = notifier.type /\ notifier'.w = w
        /\ notifier'.val = Get(history.wants[w], rs)
    BY <2>2
  <2>4. notifier.type = WatchedType(w)
    BY <1>3, <1>6 DEF NotifierRead
  <2>5. Resolved(w, Get(history.wants[w], rs))
    BY <2>4, ReadResolved
  <2>6. Channels
    BY <1>2, <1>6 DEF NotifierRead
  <2>7. IsNotifier(notifier')
    BY <2>2
  <2> QED BY <1>3, <2>3, <2>5, <2>6, <2>7
<1>7. ASSUME NotifierSend PROVE IsNotifier(notifier') /\ Due /\ Sent /\ Channels
  <2>1. notifier' = [at |-> "range", type |-> notifier.type, due |-> notifier.due, w |-> notifier.w,
                     val |-> notifier.val]
    BY <1>2, <1>7 DEF NotifierSend
  <2>2. notifier'.due = notifier.due /\ notifier'.type = notifier.type /\ notifier'.at = "range"
    BY <2>1
  <2>3. IsNotifier(notifier')
    BY <2>1
  <2>4. ch' = [w \in Watching |-> IF w = notifier.w THEN Append(ch[w], notifier.val) ELSE ch[w]]
    BY <1>2, <1>7, Zenon DEF NotifierSend
  <2>5. Resolved(notifier.w, notifier.val)
    BY <1>7 DEF NotifierSend, IndInv, OnItsWay
  <2>6. Channels
    <3>1. ch' = [w \in Watching |-> ch'[w]]
      BY <2>4
    <3>2. ASSUME NEW w \in Watching
          PROVE  IsSeq(ch'[w]) /\ \A i \in 1..Len(ch'[w]) : Resolved(w, ch'[w][i])
      <4>1. CASE w = notifier.w
        <5>1. ch'[w] = Append(ch[w], notifier.val) /\ IsSeq(ch[w])
          BY <1>2, <2>4, <4>1
        <5>2. /\ IsSeq(ch'[w]) /\ Len(ch[w]) \in Nat /\ Len(ch'[w]) = Len(ch[w]) + 1
              /\ \A i \in 1..Len(ch[w]) : ch'[w][i] = ch[w][i]
              /\ ch'[w][Len(ch[w]) + 1] = notifier.val
          BY <5>1, AppendOne
        <5>3. \A i \in 1..Len(ch'[w]) : i \in 1..Len(ch[w]) \/ i = Len(ch[w]) + 1
          BY <5>2
        <5> QED BY <1>2, <2>5, <4>1, <5>2, <5>3
      <4>2. CASE w # notifier.w
        <5>1. ch'[w] = ch[w]
          BY <2>4, <4>2
        <5> QED BY <1>2, <5>1
      <4> QED BY <4>1, <4>2
    <3> QED BY <3>1, <3>2
  <2> QED BY <1>3, <2>2, <2>3, <2>6
<1>8. ASSUME RangeDone PROVE IsNotifier(notifier') /\ Due /\ Sent /\ Channels
  <2>1. notifier' = IdleNotifier /\ ch' = ch
    BY <1>8, Zenon DEF RangeDone
  <2> QED BY <1>2, <1>4, <2>1, Zenon
<1>9. IsNotifier(notifier') /\ Due /\ Sent /\ Channels
  <2> HIDE DEF IsNotifier, Due, Sent, Channels
  <2> QED BY <1>5, <1>6, <1>7, <1>8, Zenon DEF Notifier
<1>10. Stored' /\ OnItsWay'
  BY <1>1, <1>9, Restated DEF IndInv, Stored, OnItsWay
<1>11. Shapes'
  BY <1>1, <1>9, Zenon DEF IndInv, Shapes, Watching
<1> QED BY <1>10, <1>11 DEF IndInv

(* A step of the handler of one watch call touches its own state only. *)
LEMMA ServerKeeps ==
  ASSUME IndInv, NEW w \in Watching, UNCHANGED <<history, published, monitor, registry, notifier>>,
         NEW q, ch' = [ch EXCEPT ![w] = q], IsSeq(q), \A i \in 1..Len(q) : Resolved(w, q[i]),
         NEW at, NEW val, server' = [server EXCEPT ![w] = [at |-> at, val |-> val]], Resolved(w, val),
         NEW g, got' = [got EXCEPT ![w] = g], Resolved(w, g)
  PROVE  IndInv'
<1> DEFINE new == [at |-> at, val |-> val]
<1>1. new.at = at /\ new.val = val /\ new = [at |-> new.at, val |-> new.val]
  OBVIOUS
<1> HIDE DEF new
<1>2. ch = [x \in Watching |-> ch[x]] /\ got = [x \in Watching |-> got[x]]
      /\ server = [x \in Watching |-> server[x]]
  BY DEF IndInv, Shapes
<1>3. ch' = [x \in Watching |-> IF x = w THEN q ELSE ch[x]]
      /\ got' = [x \in Watching |-> IF x = w THEN g ELSE got[x]]
  BY <1>2, Zenon
<1>4. server' = [x \in Watching |-> IF x = w THEN new ELSE server[x]]
  BY <1>2 DEF new
<1>5. ASSUME NEW x \in Watching
      PROVE  /\ IsSeq(ch'[x]) /\ server'[x] = [at |-> server'[x].at, val |-> server'[x].val]
             /\ \A i \in 1..Len(ch'[x]) : Resolved(x, ch'[x][i])
             /\ Resolved(x, server'[x].val) /\ Resolved(x, got'[x])
  <2>1. CASE x = w
    <3>1. ch'[x] = q /\ server'[x] = new /\ got'[x] = g
      BY <1>3, <1>4, <2>1
    <3> QED BY <1>1, <2>1, <3>1
  <2>2. CASE x # w
    <3>1. ch'[x] = ch[x] /\ server'[x] = server[x] /\ got'[x] = got[x]
      BY <1>3, <1>4, <2>2
    <3> QED BY <3>1, Zenon DEF IndInv, Shapes, OnItsWay
  <2> QED BY <2>1, <2>2
<1>6. Stored' /\ OnItsWay'
  BY <1>5, Restated, Zenon DEF IndInv, Stored, OnItsWay
<1>7. ch' = [x \in Watching |-> ch'[x]] /\ got' = [x \in Watching |-> got'[x]]
      /\ server' = [x \in Watching |-> server'[x]]
  BY <1>3, <1>4, Zenon
<1>8. Shapes'
  BY <1>5, <1>7, Zenon DEF IndInv, Shapes, Watching
<1> QED BY <1>6, <1>8 DEF IndInv

LEMMA ServerStep == ASSUME NEW w \in Watching PROVE IndInv /\ (Server(w) \/ Cancel(w)) => IndInv'
<1> SUFFICES ASSUME IndInv, Server(w) \/ Cancel(w) PROVE IndInv'
  OBVIOUS
<1> DEFINE at == server[w].at
           val == server[w].val
<1>1. UNCHANGED <<history, published, monitor, registry, notifier>>
  BY DEF Server, RegisterWatcher, FirstRead, FirstSend, Receive, Send, Leave, UnregisterWatcher,
     Cancel, ServerUnchanged
<1>2. ch = [x \in Watching |-> ch[x]] /\ got = [x \in Watching |-> got[x]]
      /\ server = [x \in Watching |-> server[x]] /\ server[w] = [at |-> at, val |-> val] /\ IsSeq(ch[w])
  BY DEF IndInv, Shapes
<1>3. (\A i \in 1..Len(ch[w]) : Resolved(w, ch[w][i])) /\ Resolved(w, val) /\ Resolved(w, got[w])
  BY DEF IndInv, OnItsWay
<1>4. ch = [ch EXCEPT ![w] = ch[w]] /\ got = [got EXCEPT ![w] = got[w]]
      /\ server = [server EXCEPT ![w] = server[w]]
  BY <1>2, Zenon
<1>5. Resolved(w, {})
  BY DEF Resolved
<1>6. ASSUME NEW a, server' = [server EXCEPT ![w].at = a], ch' = ch, got' = got
      PROVE  IndInv'
  <2>1. [server[w] EXCEPT !.at = a] = [at |-> a, val |-> val]
    BY <1>2
  <2>2. server' = [server EXCEPT ![w] = [at |-> a, val |-> val]]
    BY <1>6, <2>1, Zenon
  <2>3. ch' = [ch EXCEPT ![w] = ch[w]] /\ got' = [got EXCEPT ![w] = got[w]]
    BY <1>4, <1>6
  <2> QED BY <1>1, <1>2, <1>3, <2>2, <2>3, ServerKeeps, Zenon
<1>7. CASE RegisterWatcher(w)
  BY <1>6, <1>7, Zenon DEF RegisterWatcher
<1>8. CASE FirstRead(w)
  <2>1. PICK rs \in Readable(WatchedType(w)) :
          server' = [server EXCEPT ![w] = [at |-> "first", val |-> Get(history.wants[w], rs)]]
    BY <1>8, Zenon DEF FirstRead
  <2>2. Resolved(w, Get(history.wants[w], rs))
    BY ReadResolved
  <2>3. ch' = [ch EXCEPT ![w] = ch[w]] /\ got' = [got EXCEPT ![w] = got[w]]
    BY <1>4, <1>8 DEF FirstRead
  <2> QED BY <1>1, <1>2, <1>3, <2>1, <2>2, <2>3, ServerKeeps, Zenon
<1>9. CASE FirstSend(w)
  <2> DEFINE q == Append(ch[w], val)
  <2>1. /\ IsSeq(q) /\ Len(ch[w]) \in Nat /\ Len(q) = Len(ch[w]) + 1
        /\ \A i \in 1..Len(ch[w]) : q[i] = ch[w][i]
        /\ q[Len(ch[w]) + 1] = val
    BY <1>2, AppendOne
  <2>2. ch' = [ch EXCEPT ![w] = q] /\ got' = [got EXCEPT ![w] = got[w]]
        /\ server' = [server EXCEPT ![w] = [at |-> "loop", val |-> {}]]
    BY <1>4, <1>9 DEF FirstSend
  <2> HIDE DEF q
  <2>3. \A i \in 1..Len(q) : i \in 1..Len(ch[w]) \/ i = Len(ch[w]) + 1
    BY <2>1
  <2>4. \A i \in 1..Len(q) : Resolved(w, q[i])
    BY <1>3, <2>1, <2>3
  <2> QED BY <1>1, <1>3, <1>5, <2>1, <2>2, <2>4, ServerKeeps, Zenon
<1>10. CASE Receive(w)
  <2> DEFINE q == Tail(ch[w])
  <2>1. /\ IsSeq(q) /\ Len(ch[w]) \in Nat /\ Len(ch[w]) > 0 /\ Len(q) = Len(ch[w]) - 1
        /\ Head(ch[w]) = ch[w][1]
        /\ \A i \in 1..Len(q) : q[i] = ch[w][i + 1]
    BY <1>2, <1>10, TailOf DEF Receive
  <2>2. ch' = [ch EXCEPT ![w] = q] /\ got' = [got EXCEPT ![w] = got[w]]
        /\ server' = [server EXCEPT ![w] = [at |-> "send", val |-> Head(ch[w])]]
    BY <1>4, <1>10 DEF Receive
  <2> HIDE DEF q
  <2>3. \A i \in 1..Len(q) : i + 1 \in 1..Len(ch[w])
    BY <2>1
  <2>4. \A i \in 1..Len(q) : Resolved(w, q[i])
    BY <1>3, <2>1, <2>3
  <2>5. 1 \in 1..Len(ch[w])
    BY <2>1
  <2>6. Resolved(w, Head(ch[w]))
    BY <1>3, <2>1, <2>5
  <2> QED BY <1>1, <1>3, <2>1, <2>2, <2>4, <2>6, ServerKeeps, Zenon
<1>11. CASE Send(w)
  <2> DEFINE g == IF w \in canceled THEN got[w] ELSE val
  <2>1. got' = [got EXCEPT ![w] = g] /\ Resolved(w, g)
    BY <1>3, <1>4, <1>11, Zenon DEF Send
  <2>2. ch' = [ch EXCEPT ![w] = ch[w]] /\ server' = [server EXCEPT ![w] = [at |-> "loop", val |-> {}]]
    BY <1>4, <1>11 DEF Send
  <2> HIDE DEF g
  <2> QED BY <1>1, <1>2, <1>3, <1>5, <2>1, <2>2, ServerKeeps, Zenon
<1>12. CASE Leave(w)
  BY <1>6, <1>12, Zenon DEF Leave
<1>13. CASE UnregisterWatcher(w)
  BY <1>6, <1>13, Zenon DEF UnregisterWatcher
<1>14. CASE Cancel(w)
  <2>1. ch' = [ch EXCEPT ![w] = ch[w]] /\ got' = [got EXCEPT ![w] = got[w]]
        /\ server' = [server EXCEPT ![w] = [at |-> at, val |-> val]]
    BY <1>2, <1>4, <1>14, Zenon DEF Cancel
  <2> QED BY <1>1, <1>2, <1>3, <2>1, ServerKeeps, Zenon
<1> QED BY <1>7, <1>8, <1>9, <1>10, <1>11, <1>12, <1>13, <1>14 DEF Server

LEMMA StutterStep == IndInv /\ UNCHANGED vars => IndInv'
<1> SUFFICES ASSUME IndInv, UNCHANGED vars PROVE IndInv'
  OBVIOUS
<1>1. UNCHANGED <<history, published, monitor, registry, notifier, ch, server, got>>
  BY DEF vars
<1>2. Stored' /\ OnItsWay'
  BY <1>1, Restated, Zenon DEF IndInv, Stored, OnItsWay
<1>3. Shapes'
  BY <1>1, Zenon DEF IndInv, Shapes, Watching
<1> QED BY <1>2, <1>3 DEF IndInv

(* The registry, the configuration the monitor is storing, the values on   *)
(* their way and those the clients have come, each, from one readable      *)
(* version of the config map.                                              *)
THEOREM InvariantHolds == Spec => []IndInv
<1>1. IndInv /\ [Next]_vars => IndInv'
  <2> SUFFICES ASSUME IndInv, [Next]_vars PROVE IndInv'
    OBVIOUS
  <2> QED BY PublishStep, MonitorStep, NotifierStep, ServerStep, StutterStep, Zenon DEF Next
<1> QED BY <1>1, InitHolds, PTL DEF Spec

(* What the NSP sends to a client that watches the streams or the flows of *)
(* a conduit are streams or flows of that conduit in one version of the    *)
(* config map, although the registry is read while it is overwritten       *)
(* without a lock.                                                         *)
THEOREM DeliveredAreResolved == Spec => []DeliveredResolved
<1>1. IndInv => DeliveredResolved
  BY Zenon DEF IndInv, OnItsWay, Resolved, Valid, Names, Wanted, DeliveredResolved
<1> QED BY <1>1, InvariantHolds, PTL

-----------------------------------------------------------------------------
(* The update locks. *)

Resource == [live : BOOLEAN, group : Groups \cup {Updates!NoGroup, Updates!None}, want : Int]
AreConduits(cs) == cs \in [Conduits -> Resource] /\ \A c \in Conduits : cs[c].live => cs[c].group # Updates!None

UpdatesShapes ==
  /\ AreConduits(conduit) /\ AreConduits(conduitSeen)
  /\ ds = [c \in Conduits |-> ds[c]] /\ under = [c \in Conduits |-> under[c]]
  /\ \A c \in Conduits : ds[c] = [phase |-> ds[c].phase, spec |-> ds[c].spec]
  /\ locks \in [Groups -> Conduits \cup {Updates!None}]
  /\ groups \in [Conduits -> Groups \cup {Updates!None}]
  /\ dsLag \subseteq Conduits

Queued == queue \in Seq(Conduits) /\ Updates!IsInjective(queue)

JobShape ==
  /\ job = [at |-> job.at, c |-> job.c, group |-> job.group, want |-> job.want, act |-> job.act,
            stale |-> job.stale, has |-> job.has, ok |-> job.ok, failed |-> job.failed]
  /\ job.at = "idle" <=> job.c = Updates!None
  /\ job.at # "idle" => job.c \in Conduits /\ job.group \in Groups \cup {Updates!NoGroup}
  /\ job.at \in {"acquire", "has"} \/ job.has \/ job.ok => job.group \in Groups

CleanupShape ==
  /\ cleanup = [at |-> cleanup.at, c |-> cleanup.c, group |-> cleanup.group, owner |-> cleanup.owner]
  /\ cleanup.at = "idle" <=> cleanup.c = Updates!None
  /\ cleanup.at # "idle" => cleanup.c \in Conduits /\ cleanup.group \in Groups \cup {Updates!None}

(* An update that runs under a lock has it, or lost it. *)
Covered ==
  \A c \in Conduits : Updates!Rolling(c) /\ c \notin unprotected =>
    under[c] = Updates!None \/ (under[c] \in Groups /\ locks[under[c]] = c)

(* A reconcile on its way to update the daemon set has the lock, or lost   *)
(* it, or the daemon set changed in the meantime; a lock is released when  *)
(* the rollout is over.                                                    *)
Armed ==
  /\ job.at \in {"has", "run"} /\ job.group # Updates!NoGroup /\ job.act = "update" /\ ~job.stale
       => locks[job.group] = job.c \/ job.c \in unprotected
  /\ job.at = "release" /\ job.ok => ~Updates!Rolling(job.c)

(* The conduit of a lock, as the operator knows it. *)
Owned ==
  \A g \in Groups : locks[g] # Updates!None =>
    \/ locks[g] \in late
    \/ conduitSeen[locks[g]].live /\ groups[locks[g]] = g
    \/ /\ cleanup.c = locks[g] /\ cleanup.group = g
       /\ cleanup.at = "release" => cleanup.owner = cleanup.c

(* A deleted conduit that is reconciled was taken up before. *)
Taken ==
  job.at # "idle" =>
    \/ job.c \in late
    \/ /\ conduitSeen[job.c].live
       /\ job.at # "manage" => groups[job.c] = IF job.group = Updates!NoGroup THEN Updates!None ELSE job.group

UpdatesInv == UpdatesShapes /\ Queued /\ JobShape /\ CleanupShape /\ Covered /\ Armed /\ Owned /\ Taken

-----------------------------------------------------------------------------
(* The queue. *)

LEMMA ListingsOf ==
  ASSUME NEW S \in SUBSET Conduits, NEW q \in Updates!Listings(S)
  PROVE  q \in Seq(Conduits) /\ Updates!IsInjective(q)
<1>0. q \in UNION {[1..n -> S] : n \in 0..Cardinality(Conduits)} /\ Updates!IsInjective(q)
  BY Zenon DEF Updates!Listings, Updates!Cardinality, Cardinality
<1>1. PICK n \in 0..Cardinality(Conduits) : q \in [1..n -> S]
  BY <1>0
<1>2. n \in Nat
  BY <1>1, StartsAssumption
<1>3. q \in [1..n -> Conduits]
  BY <1>1
<1> QED BY <1>0, <1>2, <1>3

LEMMA EnqueueKeeps ==
  ASSUME Queued, NEW c \in Conduits
  PROVE  Updates!Enqueue(queue, c) \in Seq(Conduits) /\ Updates!IsInjective(Updates!Enqueue(queue, c))
<1>1. CASE c \in Updates!Range(queue)
  BY <1>1 DEF Queued, Updates!Enqueue
<1>2. CASE c \notin Updates!Range(queue)
  <2>0. queue \in Seq(Conduits) /\ IsSeq(queue)
    BY DEF Queued, IsSeq
  <2> DEFINE q == Append(queue, c)
             n == Len(queue)
  <2>1. Len(q) = n + 1 /\ q[n + 1] = c /\ n \in Nat
        /\ \A i \in 1..n : q[i] = queue[i]
    BY <2>0, AppendOne
  <2>2. DOMAIN queue = 1..n /\ q \in Seq(Conduits) /\ DOMAIN q = 1..Len(q)
    BY <2>0
  <2>3. ASSUME NEW i \in 1..(n + 1), NEW j \in 1..(n + 1), q[i] = q[j] PROVE i = j
    <3>1. \A k \in 1..n : queue[k] # c
      BY <1>2, <2>2 DEF Updates!Range
    <3>2. \A k, l \in 1..n : queue[k] = queue[l] => k = l
      BY <2>2, Zenon DEF Queued, Updates!IsInjective
    <3> HIDE DEF q, n
    <3>3. i \in 1..n \/ i = n + 1
      BY <2>1
    <3>4. j \in 1..n \/ j = n + 1
      BY <2>1
    <3> QED BY <2>1, <2>3, <3>1, <3>2, <3>3, <3>4, Zenon
  <2>4. Updates!IsInjective(q)
    BY <2>1, <2>2, <2>3, Zenon DEF Updates!IsInjective
  <2> QED BY <1>2, <2>2, <2>4 DEF Updates!Enqueue
<1> QED BY <1>1, <1>2

LEMMA TailKeeps ==
  ASSUME Queued, queue # << >>
  PROVE  Tail(queue) \in Seq(Conduits) /\ Updates!IsInjective(Tail(queue)) /\ Head(queue) \in Conduits
<1> DEFINE q == Tail(queue)
           n == Len(queue)
<1>0. queue \in Seq(Conduits) /\ IsSeq(queue)
  BY DEF Queued, IsSeq
<1>1. n \in Nat /\ Len(q) = n - 1 /\ \A i \in 1..Len(q) : q[i] = queue[i + 1]
  BY <1>0, TailOf
<1>2. DOMAIN queue = 1..n /\ q \in Seq(Conduits) /\ DOMAIN q = 1..Len(q) /\ Head(queue) \in Conduits
  BY <1>0
<1>3. ASSUME NEW i \in 1..(n - 1), NEW j \in 1..(n - 1), q[i] = q[j] PROVE i = j
  <2>1. \A k, l \in 1..n : queue[k] = queue[l] => k = l
    BY <1>2, Zenon DEF Queued, Updates!IsInjective
  <2> HIDE DEF q, n
  <2>2. i + 1 \in 1..n /\ j + 1 \in 1..n
    BY <1>1
  <2>3. queue[i + 1] = queue[j + 1]
    BY <1>1, <1>3, Zenon
  <2>4. i + 1 = j + 1
    BY <2>1, <2>2, <2>3, Zenon
  <2> QED BY <2>4
<1>4. Updates!IsInjective(q)
  BY <1>1, <1>2, <1>3, Zenon DEF Updates!IsInjective
<1> QED BY <1>2, <1>4

-----------------------------------------------------------------------------
LEMMA NoGroupIsSomething == Updates!NoGroup # Updates!None
BY Zenon DEF Updates!NoGroup, Updates!None

LEMMA ResourceOf ==
  ASSUME NEW g \in Groups \cup {Updates!NoGroup, Updates!None}, NEW r, r = [live |-> g # Updates!None, group |-> g, want |-> 1]
  PROVE  r \in Resource /\ (r.live => r.group # Updates!None)
<1>1. (g # Updates!None) \in BOOLEAN /\ 1 \in Int
  OBVIOUS
<1>2. r \in Resource
  BY <1>1, Zenon DEF Resource
<1>3. r.group = g /\ r.live = (g # Updates!None)
  BY Zenon
<1> QED BY <1>2, <1>3, Zenon

LEMMA UpdatesInvInit == Updates!Init => UpdatesInv
<1> SUFFICES ASSUME Updates!Init PROVE UpdatesInv
  OBVIOUS
<1>1. UpdatesShapes
  <2>1. PICK s \in Starts : conduit = [c \in Conduits |-> [live |-> s.groups[c] # Updates!None,
                                                         group |-> s.groups[c], want |-> 1]]
    BY Zenon DEF Updates!Init
  <2>2. \A c \in Conduits : s.groups[c] \in Groups \cup {Updates!NoGroup, Updates!None}
    BY StartsAssumption
  <2>3. \A c \in Conduits : conduit[c] \in Resource /\ (conduit[c].live => conduit[c].group # Updates!None)
    BY <2>1, <2>2, ResourceOf
  <2>4. AreConduits(conduit)
    BY <2>1, <2>3, Zenon DEF AreConduits
  <2> QED BY <2>4 DEF UpdatesShapes, Updates!Init
<1>2. Queued
  BY ListingsOf DEF Queued, Updates!Init
<1>3. JobShape /\ CleanupShape
  BY Zenon DEF JobShape, CleanupShape, Updates!Init, Updates!NoJob, Updates!NoCleanup
<1>4. Covered /\ Armed /\ Owned /\ Taken
  BY Zenon DEF Covered, Updates!Rolling, Armed, Owned, Taken, Updates!Init, Updates!NoJob
<1> QED BY <1>1, <1>2, <1>3, <1>4 DEF UpdatesInv

-----------------------------------------------------------------------------
(* Users and Kubernetes. *)

LEMMA UserStep ==
  ASSUME UpdatesInv, NEW c \in Conduits, NEW g \in Groups \cup {Updates!NoGroup},
         Updates!Edit(c) \/ Updates!DeleteConduit(c) \/ Updates!Regroup(c, g)
  PROVE  UpdatesInv'
<1>1. Updates!UserUnchanged
  BY DEF Updates!Edit, Updates!DeleteConduit, Updates!Regroup
<1>2. AreConduits(conduit')
  <2> USE DEF AreConduits, Resource
  <2>0. AreConduits(conduit)
    BY DEF UpdatesInv, UpdatesShapes
  <2>1. CASE Updates!Edit(c)
    BY <2>0, <2>1 DEF Updates!Edit
  <2>2. CASE Updates!DeleteConduit(c)
    BY <2>0, <2>2 DEF Updates!DeleteConduit
  <2>3. CASE Updates!Regroup(c, g)
    <3>1. g # Updates!None
      BY StartsAssumption, NoGroupIsSomething
    <3> QED BY <2>0, <2>3, <3>1 DEF Updates!Regroup
  <2> QED BY <2>1, <2>2, <2>3
<1>3. UpdatesShapes'
  BY <1>1, <1>2 DEF UpdatesInv, UpdatesShapes, Updates!UserUnchanged, AreConduits
<1>4. Queued' /\ JobShape' /\ CleanupShape' /\ Covered' /\ Armed' /\ Owned' /\ Taken'
  BY <1>1 DEF UpdatesInv, Updates!UserUnchanged, Queued, JobShape, CleanupShape, Covered,
     Updates!Rolling, Armed, Owned, Taken
<1> QED BY <1>3, <1>4 DEF UpdatesInv

LEMMA DaemonSetStep ==
  ASSUME UpdatesInv, NEW c \in Conduits, NEW phase, NEW spec,
         Updates!DaemonSetChanges(c, [phase |-> phase, spec |-> spec]),
         \/ Updates!Rolling(c) /\ UNCHANGED <<under, unprotected>>
         \/ /\ phase \notin {"pushed", "rolling"}
            /\ under' = [under EXCEPT ![c] = Updates!None] /\ unprotected' = unprotected \ {c}
  PROVE  UpdatesInv'
<1>1. UpdatesShapes' /\ Queued' /\ CleanupShape'
  BY DEF UpdatesInv, UpdatesShapes, AreConduits, Queued, CleanupShape, Updates!DaemonSetChanges
<1>2. JobShape'
  BY Zenon DEF UpdatesInv, JobShape, Updates!DaemonSetChanges
<1>3. Covered'
  BY DEF UpdatesInv, UpdatesShapes, Covered, Updates!Rolling, Updates!DaemonSetChanges
<1>4. Armed'
  <2>1. CASE job.c = c
    <3>1. job'.stale /\ job'.c = c /\ job'.at = job.at /\ (job'.ok <=> job.ok)
      BY <2>1, Zenon DEF UpdatesInv, JobShape, Updates!DaemonSetChanges
    <3>2. job'.at = "release" /\ job'.ok => ~Updates!Rolling(c)'
      BY <2>1, <3>1 DEF UpdatesInv, UpdatesShapes, Armed, Updates!Rolling, Updates!DaemonSetChanges
    <3> QED BY <3>1, <3>2 DEF Armed
  <2>2. CASE job.c # c
    <3>1. UNCHANGED <<job, locks>> /\ ds' = [ds EXCEPT ![c] = [phase |-> phase, spec |-> spec]]
      BY <2>2 DEF Updates!DaemonSetChanges
    <3>2. job.c \in Conduits => ds'[job.c] = ds[job.c]
      BY <2>2, <3>1 DEF UpdatesInv, UpdatesShapes
    <3>3. job.c \in unprotected => job.c \in unprotected'
      BY <2>2
    <3>4. job.at # "idle" => job.c \in Conduits
      BY DEF UpdatesInv, JobShape
    <3> QED BY <3>1, <3>2, <3>3, <3>4 DEF UpdatesInv, Armed, Updates!Rolling
  <2> QED BY <2>1, <2>2
<1>5. Owned' /\ Taken'
  BY DEF UpdatesInv, JobShape, Owned, Taken, Updates!DaemonSetChanges
<1> QED BY <1>1, <1>2, <1>3, <1>4, <1>5 DEF UpdatesInv

LEMMA KubernetesStep ==
  ASSUME UpdatesInv, NEW c \in Conduits, Updates!Kubernetes(c)
  PROVE  UpdatesInv'
<1>1. ds[c] = [phase |-> ds[c].phase, spec |-> ds[c].spec]
  BY DEF UpdatesInv, UpdatesShapes
<1>2. CASE Updates!Observe(c)
  <2>1. [ds[c] EXCEPT !.phase = "rolling"] = [phase |-> "rolling", spec |-> ds[c].spec] /\ Updates!Rolling(c)
    BY <1>1, <1>2 DEF Updates!Observe, Updates!Rolling
  <2>2. Updates!DaemonSetChanges(c, [phase |-> "rolling", spec |-> ds[c].spec])
    BY <1>2, <2>1, Zenon DEF Updates!Observe
  <2> QED BY <1>2, <2>1, <2>2, DaemonSetStep, Zenon DEF Updates!Observe
<1>3. CASE Updates!RolloutDone(c)
  <2>1. /\ [ds[c] EXCEPT !.phase = "ready"] = [phase |-> "ready", spec |-> ds[c].spec]
        /\ "ready" \notin {"pushed", "rolling"}
    BY <1>1
  <2>2. Updates!DaemonSetChanges(c, [phase |-> "ready", spec |-> ds[c].spec])
    BY <1>3, <2>1, Zenon DEF Updates!RolloutDone
  <2> QED BY <1>3, <2>1, <2>2, DaemonSetStep, Zenon DEF Updates!RolloutDone
<1>4. CASE Updates!CollectGarbage(c)
  <2>1. "absent" \notin {"pushed", "rolling"}
    OBVIOUS
  <2> QED BY <1>4, <2>1, DaemonSetStep, Zenon DEF Updates!CollectGarbage
<1> QED BY <1>2, <1>3, <1>4 DEF Updates!Kubernetes
-----------------------------------------------------------------------------
(* The informers. *)

LEMMA DaemonSetEventStep ==
  ASSUME UpdatesInv, NEW c \in Conduits, Updates!DaemonSetEvent(c)
  PROVE  UpdatesInv'
<1>0. /\ UNCHANGED <<conduit, conduitSeen, ds, groups, locks, job, cleanup, left, under, unprotected,
                     late>>
      /\ dsLag' \subseteq dsLag /\ queue' = Updates!Enqueue(queue, c)
  BY Zenon DEF Updates!DaemonSetEvent
<1>1. UpdatesShapes'
  BY <1>0 DEF UpdatesInv, UpdatesShapes, AreConduits
<1>3. JobShape' /\ CleanupShape' /\ Covered' /\ Armed' /\ Owned' /\ Taken'
  BY <1>0, Zenon DEF UpdatesInv, JobShape, CleanupShape, Covered, Armed, Owned, Taken,
     Updates!Rolling
<1>2. Queued'
  BY <1>0, EnqueueKeeps DEF UpdatesInv, Queued
<1> QED BY <1>1, <1>2, <1>3 DEF UpdatesInv

LEMMA ConduitEventStep ==
  ASSUME UpdatesInv, NEW c \in Conduits, Updates!ConduitEvent(c)
  PROVE  UpdatesInv'
<1>0. UNCHANGED <<conduit, ds, dsSeen, dsLag, locks, job, left, under, unprotected>>
      /\ cleanup = Updates!NoCleanup /\ conduitSeen' = [conduitSeen EXCEPT ![c] = conduit[c]]
  BY Zenon DEF Updates!ConduitEvent
<1>1. UpdatesShapes'
  BY DEF Updates!ConduitEvent, UpdatesInv, UpdatesShapes, AreConduits
<1>2. Queued'
  BY EnqueueKeeps, Zenon DEF Updates!ConduitEvent, UpdatesInv, Queued
<1>3. JobShape' /\ Covered' /\ Armed'
  BY <1>0 DEF UpdatesInv, JobShape, Covered, Updates!Rolling, Armed
<1>4. CASE conduit[c].live
  <2>1. UNCHANGED <<groups, cleanup, late>>
    BY <1>4 DEF Updates!ConduitEvent
  <2>2. CleanupShape'
    BY <2>1 DEF UpdatesInv, CleanupShape
  <2>3. Owned' /\ Taken'
    BY <1>0, <1>4, <2>1 DEF UpdatesInv, UpdatesShapes, JobShape, Owned, Taken
  <2> QED BY <1>1, <1>2, <1>3, <2>2, <2>3 DEF UpdatesInv
<1>5. CASE ~conduit[c].live
  <2>1. /\ cleanup' = [at |-> "load", c |-> c, group |-> groups[c], owner |-> Updates!None]
        /\ groups' = [groups EXCEPT ![c] = Updates!None]
        /\ late' = IF job.c = c THEN late \cup {c} ELSE late
    BY <1>5 DEF Updates!ConduitEvent
  <2>2. CleanupShape'
    BY <2>1, StartsAssumption DEF UpdatesInv, UpdatesShapes, CleanupShape
  <2>3. ASSUME NEW g \in Groups, locks[g] # Updates!None
        PROVE  \/ locks[g] \in late'
               \/ conduitSeen'[locks[g]].live /\ groups'[locks[g]] = g
               \/ /\ cleanup'.c = locks[g] /\ cleanup'.group = g
                  /\ cleanup'.at = "release" => cleanup'.owner = cleanup'.c
    <3>0. cleanup.c = Updates!None
      BY <1>0 DEF Updates!NoCleanup
    <3>1. locks[g] \in late \/ (conduitSeen[locks[g]].live /\ groups[locks[g]] = g)
      BY <2>3, <3>0 DEF UpdatesInv, Owned
    <3>2. CASE locks[g] = c
      BY <2>1, <3>1, <3>2
    <3>3. CASE locks[g] # c
      BY <1>0, <2>1, <3>1, <3>3, <2>3 DEF UpdatesInv, UpdatesShapes
    <3> QED BY <3>2, <3>3, Zenon
  <2>4. Owned'
    BY <1>0, <2>3 DEF Owned
  <2>5. Taken'
    BY <1>0, <2>1 DEF UpdatesInv, UpdatesShapes, JobShape, Taken
  <2> QED BY <1>1, <1>2, <1>3, <2>2, <2>4, <2>5 DEF UpdatesInv
<1> QED BY <1>4, <1>5

LEMMA LoadLockStep ==
  ASSUME UpdatesInv, Updates!LoadLock
  PROVE  UpdatesInv'
<1>1. UpdatesShapes' /\ Queued' /\ JobShape' /\ Covered' /\ Armed' /\ Taken'
  BY DEF Updates!LoadLock, UpdatesInv, UpdatesShapes, AreConduits, Queued, JobShape, Covered,
     Updates!Rolling, Armed, Taken
<1>2. CleanupShape'
  BY Zenon DEF Updates!LoadLock, UpdatesInv, CleanupShape
<1>3. Owned'
  <2>1. /\ UNCHANGED <<conduitSeen, groups, locks, late>>
        /\ cleanup'.c = cleanup.c /\ cleanup'.group = cleanup.group
        /\ cleanup.group \in Groups => cleanup'.owner = locks[cleanup.group]
    BY StartsAssumption DEF Updates!LoadLock, UpdatesInv, CleanupShape
  <2> QED BY <2>1 DEF UpdatesInv, Owned
<1> QED BY <1>1, <1>2, <1>3 DEF UpdatesInv

(* The group's lock is deleted, or nothing is. *)
LEMMA Released ==
  ASSUME UpdatesInv, NEW g \in Groups \cup {Updates!None}, NEW owner, NEW caller, Updates!Release(g, owner, caller)
  PROVE  /\ locks' \in [Groups -> Conduits \cup {Updates!None}]
         /\ \A h \in Groups : locks'[h] = IF h = g /\ owner = caller THEN Updates!None ELSE locks[h]
BY StartsAssumption DEF UpdatesInv, UpdatesShapes, Updates!Release

LEMMA CleanupLockStep ==
  ASSUME UpdatesInv, Updates!CleanupLock
  PROVE  UpdatesInv'
<1>0. /\ cleanup' = Updates!NoCleanup /\ queue' = Updates!Enqueue(queue, cleanup.c)
      /\ UNCHANGED <<conduit, conduitSeen, ds, dsSeen, dsLag, groups, job, left, under, late>>
      /\ cleanup.at = "release" /\ Updates!Release(cleanup.group, cleanup.owner, cleanup.c)
  BY Zenon DEF Updates!CleanupLock
<1>10. cleanup.c \in Conduits /\ cleanup.group \in Groups \cup {Updates!None}
  BY <1>0 DEF UpdatesInv, CleanupShape
<1> DEFINE freed == cleanup.owner = cleanup.c
<1>1. /\ locks' \in [Groups -> Conduits \cup {Updates!None}]
      /\ \A h \in Groups : locks'[h] = IF h = cleanup.group /\ freed THEN Updates!None ELSE locks[h]
  <2>1. Updates!Release(cleanup.group, cleanup.owner, cleanup.c)
    BY <1>0
  <2> QED BY <1>10, <2>1, Released
<1>2. \A h \in Groups : locks'[h] = locks[h] \/ (locks'[h] = Updates!None /\ locks[h] \in unprotected')
  BY <1>1 DEF Updates!CleanupLock
<1>3. unprotected \subseteq unprotected'
  BY DEF Updates!CleanupLock
<1> HIDE DEF freed
<1>4. UpdatesShapes'
  BY <1>0, <1>1 DEF UpdatesInv, UpdatesShapes, AreConduits
<1>5. Queued'
  BY <1>0, <1>10, EnqueueKeeps DEF UpdatesInv, Queued
<1>6. JobShape' /\ CleanupShape' /\ Taken'
  BY <1>0 DEF UpdatesInv, JobShape, CleanupShape, Updates!NoCleanup, Taken
<1>7. Covered'
  BY <1>0, <1>2, <1>3, Zenon DEF UpdatesInv, Covered, Updates!Rolling
<1>8. Armed'
  BY <1>0, <1>2, <1>3 DEF UpdatesInv, JobShape, Armed, Updates!Rolling
<1>9. Owned'
  BY <1>0, <1>10, <1>1, Zenon DEF UpdatesInv, Owned, freed
<1> QED BY <1>4, <1>5, <1>6, <1>7, <1>8, <1>9 DEF UpdatesInv
-----------------------------------------------------------------------------
(* Reconcile. *)

LEMMA GetStep ==
  ASSUME UpdatesInv, Updates!Get
  PROVE  UpdatesInv'
<1> DEFINE c == Head(queue)
<1>0. /\ queue # << >> /\ queue' = Tail(queue)
      /\ UNCHANGED <<ds, dsLag, groups, locks, left, under, unprotected>> /\ Updates!JobUnchanged
  BY DEF Updates!Get
<1>1. c \in Conduits /\ Queued'
  BY <1>0, TailKeeps DEF UpdatesInv, Queued
<1>2. UpdatesShapes' /\ CleanupShape' /\ Covered' /\ Owned'
  BY <1>0 DEF UpdatesInv, UpdatesShapes, CleanupShape, Covered, Updates!Rolling, Owned,
     Updates!JobUnchanged
<1> HIDE DEF c
<1>3. \/ job' = Updates!NoJob
      \/ /\ job' = [Updates!NoJob EXCEPT !.at = "manage", !.c = c, !.group = conduitSeen[c].group,
                                 !.want = conduitSeen[c].want]
         /\ conduitSeen[c].live
  BY DEF Updates!Get, c
<1>4. conduitSeen[c].live => conduitSeen[c].group \in Groups \cup {Updates!NoGroup}
  BY <1>1 DEF UpdatesInv, UpdatesShapes, AreConduits, Resource
<1>5. CASE job' = Updates!NoJob
  <2>1. JobShape' /\ Armed' /\ Taken'
    BY <1>5 DEF JobShape, Armed, Taken, Updates!NoJob
  <2> QED BY <1>1, <1>2, <2>1 DEF UpdatesInv
<1>6. CASE /\ job' = [Updates!NoJob EXCEPT !.at = "manage", !.c = c, !.group = conduitSeen[c].group,
                                   !.want = conduitSeen[c].want]
           /\ conduitSeen[c].live
  <2>1. job' = [at |-> "manage", c |-> c, group |-> conduitSeen[c].group,
                want |-> conduitSeen[c].want, act |-> Updates!None, stale |-> FALSE, has |-> FALSE,
                ok |-> FALSE, failed |-> FALSE]
    BY <1>6, Zenon DEF Updates!NoJob
  <2>2. JobShape'
    <3>1. /\ job'.at = "manage" /\ job'.c = c /\ job'.group = conduitSeen[c].group
          /\ ~job'.has /\ ~job'.ok
      BY <2>1
    <3>2. job' = [at |-> job'.at, c |-> job'.c, group |-> job'.group, want |-> job'.want,
                  act |-> job'.act, stale |-> job'.stale, has |-> job'.has, ok |-> job'.ok,
                  failed |-> job'.failed]
      BY <2>1
    <3>3. c # Updates!None
      BY <1>1, StartsAssumption
    <3> QED BY <1>1, <1>4, <1>6, <3>1, <3>2, <3>3 DEF JobShape
  <2>3. Armed' /\ Taken'
    BY <1>0, <1>6, <2>1 DEF Armed, Taken, Updates!JobUnchanged
  <2> QED BY <1>1, <1>2, <2>2, <2>3 DEF UpdatesInv
<1> QED BY <1>3, <1>5, <1>6

LEMMA ManageStep ==
  ASSUME UpdatesInv, Updates!ManageUpdateSyncGroupChange
  PROVE  UpdatesInv'
<1> DEFINE former == groups[job.c]
           now == IF job.group = Updates!NoGroup THEN Updates!None ELSE job.group
<1>0. /\ job.c \in Conduits /\ job.group \in Groups \cup {Updates!NoGroup} /\ former \in Groups \cup {Updates!None}
      /\ now \in Groups \cup {Updates!None} /\ groups \in [Conduits -> Groups \cup {Updates!None}]
  BY DEF Updates!ManageUpdateSyncGroupChange, UpdatesInv, UpdatesShapes, JobShape
<1>1. /\ job' = [job EXCEPT !.at = "action"] /\ job.at = "manage"
      /\ UNCHANGED <<ds, dsLag, queue, left, under>> /\ Updates!JobUnchanged
  BY DEF Updates!ManageUpdateSyncGroupChange
<1>2. groups' = [groups EXCEPT ![job.c] = now]
  BY <1>0 DEF Updates!ManageUpdateSyncGroupChange
<1>3. /\ locks' \in [Groups -> Conduits \cup {Updates!None}] /\ unprotected \subseteq unprotected'
      /\ \A h \in Groups : \/ locks'[h] = locks[h] /\ (h = former /\ locks[h] = job.c => now = former)
                           \/ /\ h = former /\ locks[h] = job.c /\ locks'[h] = Updates!None
                              /\ Updates!Rolling(job.c) /\ under[job.c] # Updates!None => job.c \in unprotected'
  <2>1. CASE former = now
    <3>1. UNCHANGED <<locks, unprotected>>
      BY <2>1 DEF Updates!ManageUpdateSyncGroupChange
    <3> QED BY <2>1, <3>1 DEF UpdatesInv, UpdatesShapes
  <2>2. CASE former # now
    <3>1. /\ Updates!Release(former, IF former = Updates!None THEN Updates!None ELSE locks[former], job.c)
          /\ unprotected' = IF locks' = locks THEN unprotected ELSE unprotected \cup Updates!Exposed({job.c})
      BY <2>2 DEF Updates!ManageUpdateSyncGroupChange
    <3> HIDE DEF former, now
    <3>2. CASE former # Updates!None /\ locks[former] = job.c
      <4>1. locks' = [locks EXCEPT ![former] = Updates!None] /\ former \in Groups
        BY <1>0, <3>1, <3>2, Zenon DEF Updates!Release
      <4>2. locks' # locks
        BY <1>0, <3>2, <4>1, StartsAssumption DEF UpdatesInv, UpdatesShapes
      <4> QED BY <1>0, <3>1, <3>2, <4>1, <4>2, Zenon DEF UpdatesInv, UpdatesShapes, Updates!Exposed
    <3>3. CASE ~(former # Updates!None /\ locks[former] = job.c)
      <4>1. former # Updates!None => (IF former = Updates!None THEN Updates!None ELSE locks[former]) # job.c
        BY <3>3
      <4>2. UNCHANGED <<locks, unprotected>>
        BY <3>1, <4>1 DEF Updates!Release
      <4> QED BY <3>3, <4>2, StartsAssumption DEF UpdatesInv, UpdatesShapes
    <3> QED BY <3>2, <3>3
  <2> QED BY <2>1, <2>2
<1> HIDE DEF former
<1>4. UpdatesShapes'
  BY <1>0, <1>1, <1>2, <1>3 DEF UpdatesInv, UpdatesShapes, Updates!JobUnchanged
<1>5. Queued' /\ CleanupShape'
  BY <1>1 DEF UpdatesInv, Queued, CleanupShape, Updates!JobUnchanged
<1>6. JobShape' /\ Armed'
  BY <1>1 DEF UpdatesInv, JobShape, Armed
<1>7. Covered'
  BY <1>1, <1>3 DEF UpdatesInv, Covered, Updates!Rolling
<1>8. Owned'
  BY <1>0, <1>1, <1>2, <1>3 DEF UpdatesInv, UpdatesShapes, Owned, Updates!JobUnchanged, former
<1>9. Taken'
  BY <1>0, <1>1, <1>2 DEF UpdatesInv, JobShape, Taken, Updates!JobUnchanged
<1> QED BY <1>4, <1>5, <1>6, <1>7, <1>8, <1>9 DEF UpdatesInv

LEMMA ActionStep ==
  ASSUME UpdatesInv, Updates!ProxyGetAction
  PROVE  UpdatesInv'
<1>1. /\ UNCHANGED <<ds, dsLag, groups, locks, queue, left, under, unprotected>> /\ Updates!JobUnchanged
      /\ job.at = "action"
  BY DEF Updates!ProxyGetAction
<1>2. PICK act : job' = [job EXCEPT !.act = act, !.stale = job.c \in dsLag,
                            !.at = IF job.group = Updates!NoGroup THEN "run"
                                   ELSE IF act = "update" THEN "acquire" ELSE "has"]
  BY Zenon DEF Updates!ProxyGetAction
<1>3. UpdatesShapes' /\ Queued' /\ CleanupShape' /\ Covered' /\ Owned'
  BY <1>1, Zenon DEF UpdatesInv, UpdatesShapes, Queued, CleanupShape, Covered, Updates!Rolling,
     Owned, Updates!JobUnchanged
<1>4. JobShape'
  BY <1>1, <1>2, Zenon DEF UpdatesInv, JobShape
<1>5. Armed'
  BY <1>1, <1>2 DEF UpdatesInv, JobShape, Armed
<1>6. Taken'
  BY <1>1, <1>2 DEF UpdatesInv, JobShape, Taken, Updates!JobUnchanged
<1> QED BY <1>3, <1>4, <1>5, <1>6 DEF UpdatesInv

LEMMA AcquireStep ==
  ASSUME UpdatesInv, Updates!AcquireLock
  PROVE  UpdatesInv'
<1>1. /\ UNCHANGED <<ds, dsLag, groups, left, under, unprotected>> /\ Updates!JobUnchanged
      /\ job.at = "acquire"
  BY DEF Updates!AcquireLock
<1>2. job.c \in Conduits /\ job.group \in Groups
  BY <1>1 DEF UpdatesInv, JobShape
<1>3. CASE locks[job.group] \in {Updates!None, job.c}
  <2>1. locks' = [locks EXCEPT ![job.group] = job.c] /\ job' = [job EXCEPT !.at = "has"] /\ queue' = queue
    BY <1>3 DEF Updates!AcquireLock
  <2>2. UpdatesShapes' /\ Queued' /\ CleanupShape'
    BY <1>1, <1>2, <2>1 DEF UpdatesInv, UpdatesShapes, Queued, CleanupShape, Updates!JobUnchanged
  <2>3. JobShape' /\ Armed'
    BY <1>1, <1>2, <2>1 DEF UpdatesInv, UpdatesShapes, JobShape, Armed
  <2>4. Covered'
    BY <1>1, <1>2, <1>3, <2>1, StartsAssumption DEF UpdatesInv, UpdatesShapes, Covered,
       Updates!Rolling
  <2>5. Owned'
    <3>1. job.c \in late \/ (conduitSeen[job.c].live /\ groups[job.c] = job.group)
      BY <1>1, <1>2, StartsAssumption DEF UpdatesInv, Taken
    <3> QED BY <1>1, <1>2, <2>1, <3>1 DEF UpdatesInv, UpdatesShapes, Owned, Updates!JobUnchanged
  <2>6. Taken'
    BY <1>1, <2>1 DEF UpdatesInv, JobShape, Taken, Updates!JobUnchanged
  <2> QED BY <2>2, <2>3, <2>4, <2>5, <2>6 DEF UpdatesInv
<1>4. CASE locks[job.group] \notin {Updates!None, job.c}
  <2>1. locks' = locks /\ job' = Updates!NoJob /\ queue' = Updates!Enqueue(queue, job.c)
    BY <1>4 DEF Updates!AcquireLock
  <2>2. UpdatesShapes' /\ CleanupShape' /\ Covered' /\ Owned'
    BY <1>1, <2>1, Zenon DEF UpdatesInv, UpdatesShapes, CleanupShape, Covered, Updates!Rolling,
       Owned, Updates!JobUnchanged
  <2>3. JobShape' /\ Armed' /\ Taken'
    BY <2>1 DEF JobShape, Armed, Taken, Updates!NoJob
  <2>4. Queued'
    BY <1>2, <2>1, EnqueueKeeps DEF UpdatesInv, Queued
  <2> QED BY <2>2, <2>3, <2>4 DEF UpdatesInv
<1> QED BY <1>3, <1>4

LEMMA LookingStep ==
  ASSUME UpdatesInv, Updates!HasLock \/ Updates!IsReady
  PROVE  UpdatesInv'
<1>1. UNCHANGED <<ds, dsLag, groups, locks, queue, left, under, unprotected>> /\ Updates!JobUnchanged
  BY DEF Updates!HasLock, Updates!IsReady
<1>2. UpdatesShapes' /\ Queued' /\ CleanupShape' /\ Covered' /\ Owned'
  BY <1>1 DEF UpdatesInv, UpdatesShapes, Queued, CleanupShape, Covered, Updates!Rolling, Owned,
     Updates!JobUnchanged
<1>3. JobShape' /\ Taken'
  BY <1>1, Zenon DEF Updates!HasLock, Updates!IsReady, UpdatesInv, JobShape, Taken,
     Updates!JobUnchanged
<1>4. Armed'
  BY <1>1, Zenon DEF Updates!HasLock, Updates!IsReady, UpdatesInv, JobShape, Armed, Updates!Rolling
<1> QED BY <1>2, <1>3, <1>4 DEF UpdatesInv

LEMMA RunStep ==
  ASSUME UpdatesInv, Updates!RunActions
  PROVE  UpdatesInv'
<1>1. UNCHANGED <<groups, locks, queue, unprotected>> /\ Updates!JobUnchanged /\ job.at = "run"
  BY DEF Updates!RunActions
<1>2. PICK failed : job' = [job EXCEPT !.at = "ready", !.failed = failed]
  <2>1. job' = [job EXCEPT !.at = "ready"] \/ job' = [job EXCEPT !.at = "ready", !.failed = TRUE]
    BY DEF Updates!RunActions
  <2>2. [job EXCEPT !.at = "ready"] = [job EXCEPT !.at = "ready", !.failed = job.failed]
    BY Zenon DEF UpdatesInv, JobShape
  <2> QED BY <2>1, <2>2, Zenon
<1>3. job.c \in Conduits /\ job.group \in Groups \cup {Updates!NoGroup}
  BY <1>1 DEF UpdatesInv, JobShape
<1>4. \/ UNCHANGED <<ds, dsLag, under>>
      \/ /\ Updates!Push("pushed") /\ under' = [under EXCEPT ![job.c] = Updates!None]
      \/ /\ Updates!Push("pushed") /\ under' = [under EXCEPT ![job.c] = job.group]
         /\ job.act = "update" /\ ~job.stale /\ job.group \in Groups
  BY <1>3 DEF Updates!RunActions
<1>5. UpdatesShapes'
  BY <1>1, <1>3, <1>4 DEF UpdatesInv, UpdatesShapes, Updates!Push, Updates!JobUnchanged
<1>6. Queued' /\ CleanupShape' /\ Owned'
  BY <1>1 DEF UpdatesInv, Queued, CleanupShape, Owned, Updates!JobUnchanged
<1>7. JobShape' /\ Armed' /\ Taken'
  BY <1>1, <1>2, Zenon DEF UpdatesInv, JobShape, Armed, Taken, Updates!JobUnchanged
<1>8. Covered'
  <2>1. job.act = "update" /\ ~job.stale /\ job.group \in Groups
          => locks[job.group] = job.c \/ job.c \in unprotected
    BY <1>1, StartsAssumption DEF UpdatesInv, Armed
  <2> QED BY <1>1, <1>3, <1>4, <2>1 DEF UpdatesInv, UpdatesShapes, Covered, Updates!Rolling, Updates!Push
<1> QED BY <1>5, <1>6, <1>7, <1>8 DEF UpdatesInv

LEMMA ReleasingStep ==
  ASSUME UpdatesInv, Updates!ReleaseLock
  PROVE  UpdatesInv'
<1>1. /\ UNCHANGED <<ds, dsLag, groups, left, under, unprotected>> /\ Updates!JobUnchanged
      /\ job.at = "release" /\ job' = Updates!NoJob
      /\ queue' = IF job.failed THEN Updates!Enqueue(queue, job.c) ELSE queue
  BY Zenon DEF Updates!ReleaseLock
<1>2. job.c \in Conduits
  BY <1>1 DEF UpdatesInv, JobShape
<1>3. /\ locks' \in [Groups -> Conduits \cup {Updates!None}]
      /\ \A h \in Groups : locks'[h] = locks[h] \/ (locks'[h] = Updates!None /\ locks[h] = job.c /\ ~Updates!Rolling(job.c))
  <2>1. CASE job.ok
    <3>1. job.group \in Groups /\ ~Updates!Rolling(job.c) /\ Updates!Release(job.group, locks[job.group], job.c)
      BY <1>1, <2>1 DEF UpdatesInv, JobShape, Armed, Updates!ReleaseLock
    <3> QED BY <3>1, Released
  <2>2. CASE ~job.ok
    BY <2>2 DEF UpdatesInv, UpdatesShapes, Updates!ReleaseLock
  <2> QED BY <2>1, <2>2
<1>4. UpdatesShapes' /\ CleanupShape'
  BY <1>1, <1>3 DEF UpdatesInv, UpdatesShapes, CleanupShape, Updates!JobUnchanged
<1>5. Queued'
  BY <1>1, <1>2, EnqueueKeeps DEF UpdatesInv, Queued
<1>6. JobShape' /\ Armed' /\ Taken'
  BY <1>1 DEF JobShape, Armed, Taken, Updates!NoJob
<1>7. Covered'
  BY <1>1, <1>3 DEF UpdatesInv, Covered, Updates!Rolling
<1>8. Owned'
  <2>1. UNCHANGED <<conduitSeen, groups, cleanup, late>>
    BY <1>1 DEF Updates!JobUnchanged
  <2> QED BY <1>3, <2>1 DEF UpdatesInv, Owned
<1> QED BY <1>4, <1>5, <1>6, <1>7, <1>8 DEF UpdatesInv

LEMMA RestartStep ==
  ASSUME UpdatesInv, Updates!Restart
  PROVE  UpdatesInv'
<1>1. UpdatesShapes'
  BY DEF Updates!Restart, UpdatesInv, UpdatesShapes
<1>2. Queued'
  BY ListingsOf DEF Updates!Restart, Queued
<1>3. JobShape' /\ CleanupShape' /\ Armed' /\ Taken'
  BY DEF Updates!Restart, JobShape, CleanupShape, Armed, Taken, Updates!NoJob, Updates!NoCleanup
<1>4. Covered'
  <2>1. UNCHANGED <<ds, under>> /\ unprotected' = unprotected \cup Updates!Exposed(Conduits)
    BY DEF Updates!Restart
  <2> QED BY <2>1 DEF Covered, Updates!Rolling, Updates!Exposed
<1>5. Owned'
  <2>1. locks' = [g \in Groups |-> Updates!None]
    BY DEF Updates!Restart
  <2> QED BY <2>1 DEF Owned
<1> QED BY <1>1, <1>2, <1>3, <1>4, <1>5 DEF UpdatesInv
-----------------------------------------------------------------------------

LEMMA UpdatesInvStep == UpdatesInv /\ [Updates!Next]_Updates!vars => UpdatesInv'
<1> SUFFICES ASSUME UpdatesInv, [Updates!Next]_Updates!vars PROVE UpdatesInv'
  OBVIOUS
<1>1. CASE UNCHANGED Updates!vars
  BY <1>1, Zenon DEF Updates!vars, UpdatesInv, UpdatesShapes, Queued, JobShape, CleanupShape,
     Covered, Armed, Owned, Taken, Updates!Rolling
<1>2. CASE Updates!Worker
  BY <1>2, GetStep, ManageStep, ActionStep, AcquireStep, LookingStep, RunStep, ReleasingStep, Zenon
     DEF Updates!Worker
<1>3. ASSUME NEW c \in Conduits,
             \/ Updates!Edit(c)
             \/ Updates!DeleteConduit(c)
             \/ \E g \in Groups \cup {Updates!NoGroup} : Updates!Regroup(c, g)
             \/ Updates!Kubernetes(c)
             \/ Updates!DaemonSetEvent(c)
             \/ Updates!ConduitEvent(c)
      PROVE  UpdatesInv'
  <2>1. Updates!NoGroup \in Groups \cup {Updates!NoGroup}
    OBVIOUS
  <2> QED BY <1>3, <2>1, UserStep, KubernetesStep, DaemonSetEventStep, ConduitEventStep, Zenon
<1> QED BY <1>1, <1>2, <1>3, LoadLockStep, CleanupLockStep, RestartStep, Zenon DEF Updates!Next

LEMMA UpdatesInvImplies == UpdatesInv => Updates!UpdatesTypeOK /\ Updates!UpdatesSerialized /\ Updates!LocksHaveOwners
<1> SUFFICES ASSUME UpdatesInv PROVE Updates!UpdatesTypeOK /\ Updates!UpdatesSerialized /\ Updates!LocksHaveOwners
  OBVIOUS
<1>1. Updates!UpdatesTypeOK
  BY DEF UpdatesInv, UpdatesShapes, Queued, Updates!UpdatesTypeOK
<1>2. Updates!UpdatesSerialized
  BY DEF UpdatesInv, Covered, Updates!UpdatesSerialized
<1>3. Updates!LocksHaveOwners
  BY Zenon DEF UpdatesInv, Owned, Updates!LocksHaveOwners
<1> QED BY <1>1, <1>2, <1>3

(* The invariant of the update locks: an update that runs under the lock   *)
(* of a group still has it unless it lost it, a reconcile about to start   *)
(* one has taken it, and the owner of a lock is a conduit the operator     *)
(* still knows, or one whose deletion it is handling or handled too early. *)
THEOREM UpdatesInvariant == ChangesSpec => []UpdatesInv
<1>1. ChangesInit => UpdatesInv
  BY UpdatesInvInit DEF ChangesInit
<1>2. UpdatesInv /\ [ChangesNext]_<<vars, updateVars>> => UpdatesInv'
  <2>1. [ChangesNext]_<<vars, updateVars>> => [Updates!Next]_(Updates!vars)
    BY DEF ChangesNext, updateVars, Updates!vars
  <2> QED BY <2>1, UpdatesInvStep
<1> QED BY <1>1, <1>2, PTL DEF ChangesSpec

(* Two daemon sets of one update sync group are not updated at the same    *)
(* time under its lock unless one of the two updates lost the lock under   *)
(* way; and the owner of a lock is a conduit that is there, one whose      *)
(* deletion is being handled, or one reconciled on after it was.  This is  *)
(* so for any conduits, groups, edits, deletions, failures and restarts.   *)
THEOREM UpdatesAreSerialized == ChangesSpec => []UpdatesSerialized
<1>1. UpdatesInv => UpdatesSerialized
  BY UpdatesInvImplies DEF UpdatesSerialized
<1> QED BY <1>1, UpdatesInvariant, PTL
=============================================================================
