------------------------------ MODULE Operator ------------------------------
(***************************************************************************)
(* The operator: admission webhooks, the controllers of the custom         *)
(* resources, and the resources they manage, over a Kubernetes API server. *)
(* The controllers read an informer cache that lags behind the API server, *)
(* each has a work queue and one worker, and every write is a separate     *)
(* call that may meet an object changed since it was read.                 *)
(*                                                                         *)
(* An object is <<kind, name>>.  One trench; the other custom resources    *)
(* (the children) carry its label and, once their controller has run, an   *)
(* owner reference to it.  A version of an object is a record: uid (0 when *)
(* the object does not exist), owner (the uid of its owner, 0 for none)    *)
(* and val.  Resource versions are abstracted to who has read the latest   *)
(* one: lag holds the objects whose latest version the cache lacks,        *)
(* stale[w] those that worker w read and that have changed since.          *)
(***************************************************************************)
EXTENDS Naturals, Sequences, FiniteSets, Functions

CONSTANTS
  Children,        \* the custom resources below the trench
  Specs,           \* Specs[c]: the specs a user may give to c
  ClusterScoped,   \* WATCH_NAMESPACE is empty: one cache for all namespaces
  Scenes           \* the instances: the custom resources and the kinds of
                   \* resources in play, and how much users and faults may do

VARIABLES
  api,      \* the API server's objects
  cache,    \* the informers' copies
  lag,      \* objects whose latest version has not reached the cache
  owned,    \* those with an owner in a version that has not reached it
  queue,    \* queue[w]: the keys waiting for worker w, first in first out
  work,     \* work[w]: the reconcile in progress
  stale,    \* stale[w]: objects read by w that changed afterwards
  uids,     \* the last uid given to each custom resource
  scene,    \* the instance; never changes
  budget,   \* what users and faults may still do
  missed,   \* children whose deletion no event told the trench controller of
  raced     \* an attractor was admitted against a cache that lacked another

vars == <<api, cache, lag, owned, queue, work, stale, uids, scene, budget, missed,
          raced>>

Trench == <<"trench", "t">>
Kind(o) == o[1]

Workers == {"trench", "conduit", "attractor", "gateway", "vip", "stream", "flow"}

(* What the reconcile of a custom resource looks at: the resources it      *)
(* manages and, for a child, its own owner reference.                      *)
ReconcileAll == {"nsp", "nspsvc", "ipam", "ipamsvc", "cm"}

ConduitReconcile == {"proxy", "conduit"}

(* The NSE deployment is there for NSM VLAN attractors only. *)
AttractorReconcile(a) ==
  (IF a.type = "nsm-vlan" THEN {"nse"} ELSE {}) \cup {"lb", "pdb", "attractor"}

GatewayReconcile == {"gateway"}
VipReconcile == {"vip"}
StreamReconcile == {"stream"}
FlowReconcile == {"flow"}

Reconcile(k, version) ==
  (scene.resources \cup {Kind(k)}) \cap
    CASE Kind(k) = "trench"    -> ReconcileAll
      [] Kind(k) = "conduit"   -> ConduitReconcile
      [] Kind(k) = "attractor" -> AttractorReconcile(version.val)
      [] Kind(k) = "gateway"   -> GatewayReconcile
      [] Kind(k) = "vip"       -> VipReconcile
      [] Kind(k) = "stream"    -> StreamReconcile
      [] Kind(k) = "flow"      -> FlowReconcile

(* The order in which it does, the owner reference last. *)
Order == <<"nsp", "nspsvc", "ipam", "ipamsvc", "cm", "proxy", "nse", "lb", "pdb",
           "conduit", "attractor", "gateway", "vip", "stream", "flow">>

First(r, todo) ==
  \E i \in 1..Len(Order) : Order[i] = r /\ \A j \in 1..(i - 1) : Order[j] \notin todo

Owner(o) ==
  CASE o \in Children                         -> Trench
    [] Kind(o) = "proxy"                      -> <<"conduit", o[2]>>
    [] Kind(o) \in {"nse", "lb", "pdb"}       -> <<"attractor", o[2]>>
    [] OTHER                                  -> Trench

Keys == {Trench} \cup Children
Kinds == {"nsp", "nspsvc", "ipam", "ipamsvc", "cm", "proxy", "nse", "lb", "pdb"}
Managed == {<<r, k[2]>> : r \in Kinds, k \in Keys}
Objects == Keys \cup {m \in Managed : Owner(m) \in Keys /\ m[2] = Owner(m)[2]}
ObjectsInPlay ==
  {o \in Objects : o \in scene.children \cup {Trench} \/ Kind(o) \in scene.resources}

(* What tells two versions of a custom resource or of a resource apart: n  *)
(* is the editable content, kept what others add to a resource and the     *)
(* operator leaves alone, data the content of the config map.              *)
Blank == [n |-> 0, vips |-> {}, stream |-> "", conduit |-> "", type |-> "",
          trench |-> "", kept |-> 0, data |-> {}]

IsContent(v) ==
  v = [n |-> v.n, vips |-> v.vips, stream |-> v.stream, conduit |-> v.conduit, type |-> v.type,
       trench |-> v.trench, kept |-> v.kept, data |-> v.data]

ASSUME ChildrenAssumption ==
  IsFiniteSet(Children) /\ \A c \in Children : c = <<c[1], c[2]>> /\ c[1] \in Workers \ {"trench"}
ASSUME SpecsAssumption ==
  \A c \in Children : \A s \in Specs[c] : IsContent(s)
ASSUME ScenesAssumption ==
  \A s \in Scenes : s.children \subseteq Children /\ s.present \subseteq Keys

Absent == [uid |-> 0, owner |-> 0, val |-> Blank]
Exists(view, o) == view[o].uid > 0

Idle == [key |-> << >>, cr |-> Absent, trench |-> Absent, todo |-> {}, acts |-> << >>]
Busy(w) == work[w] # Idle

(* GetTrenchBySelector: an empty trench, never nil, when there is none. *)
TrenchName(t) == IF t.uid = 0 THEN "" ELSE Trench[2]

-----------------------------------------------------------------------------
(* The config map: the custom resources with the trench's label, read from *)
(* the cache.                                                              *)

Listed(view, kind) == {c \in Children : Kind(c) = kind /\ Exists(view, c)}
Entries(view, cs) == {<<c, view[c].val>> : c \in cs}

VipsData(view) == Entries(view, Listed(view, "vip"))
GatewaysData(view) == Entries(view, Listed(view, "gateway"))
AttractorsData(view) == Entries(view, Listed(view, "attractor"))
ConduitsData(view) == Entries(view, Listed(view, "conduit"))
StreamsData(view) ==
  Entries(view, {c \in Listed(view, "stream") : view[c].val.conduit # ""})
FlowsData(view) ==
  Entries(view, {c \in Listed(view, "flow") : view[c].val.stream # ""})

AllData(view) ==
  GatewaysData(view) \cup VipsData(view) \cup AttractorsData(view)
    \cup ConduitsData(view) \cup StreamsData(view) \cup FlowsData(view)

-----------------------------------------------------------------------------
(* What each resource is made from: insertParameters, over the model file  *)
(* for a new resource and over the current one otherwise, so that what     *)
(* others added to it stays.                                               *)

NspParameters(t, base) == [base EXCEPT !.trench = TrenchName(t), !.n = t.val.n]
NspServiceParameters(t, base) == [base EXCEPT !.trench = TrenchName(t), !.n = 0]
IpamParameters(t, base) == [base EXCEPT !.trench = TrenchName(t), !.n = t.val.n]
IpamServiceParameters(t, base) == [base EXCEPT !.trench = TrenchName(t), !.n = 0]
ProxyParameters(c, t, base) == [base EXCEPT !.trench = TrenchName(t), !.n = c.val.n]
NseParameters(a, t, base) ==
  [base EXCEPT !.trench = TrenchName(t), !.n = a.val.n, !.type = a.val.type]

LbEnvVars(a, t, base) == [base EXCEPT !.trench = TrenchName(t), !.conduit = a.val.conduit]

(* The network annotation only grows. *)
NetworkAnnotation(a, base) ==
  IF a.val.type = "network-attachment" THEN base.data \cup {a.val.type} ELSE base.data

(* Mutant: the current deployment is not the starting point. *)
LbParametersFromModel(a, t, base) ==
  [LbEnvVars(a, t, Blank) EXCEPT !.n = a.val.n, !.type = a.val.type,
                                 !.data = NetworkAnnotation(a, Blank)]

LbParameters(a, t, base) ==
  [LbEnvVars(a, t, base) EXCEPT !.n = a.val.n, !.type = a.val.type,
                                !.data = NetworkAnnotation(a, base)]
PdbParameters(base) == [base EXCEPT !.n = 0]
ConfigMapData(view, base) == [base EXCEPT !.n = 0, !.data = AllData(view)]

Desired(m, view, cr, t, base) ==
  CASE Kind(m) = "nsp"     -> NspParameters(t, base)
    [] Kind(m) = "nspsvc"  -> NspServiceParameters(t, base)
    [] Kind(m) = "ipam"    -> IpamParameters(t, base)
    [] Kind(m) = "ipamsvc" -> IpamServiceParameters(t, base)
    [] Kind(m) = "cm"      -> ConfigMapData(view, base)
    [] Kind(m) = "proxy"   -> ProxyParameters(cr, t, base)
    [] Kind(m) = "nse"     -> NseParameters(cr, t, base)
    [] Kind(m) = "lb"      -> LbParameters(cr, t, base)
    [] Kind(m) = "pdb"     -> PdbParameters(base)

-----------------------------------------------------------------------------
(* getAction of each resource: create it, update it, or nothing. *)

GetAction(m, run, current) ==
  LET Parameters(base) == Desired(m, cache, run.cr, run.trench, base) IN
  IF current.uid = 0
  THEN << [op |-> "create", obj |-> m, owner |-> run.cr.uid, val |-> Parameters(Blank)] >>
  ELSE IF Parameters(current.val) # current.val
       THEN << [op |-> "update", obj |-> m, owner |-> current.owner,
                val |-> Parameters(current.val)] >>
       ELSE << >>

NspAction(m, run) == GetAction(m, run, cache[m])
NspServiceAction(m, run) == GetAction(m, run, cache[m])
IpamAction(m, run) == GetAction(m, run, cache[m])
IpamServiceAction(m, run) == GetAction(m, run, cache[m])
ConfigMapAction(m, run) == GetAction(m, run, cache[m])
NseAction(m, run) == GetAction(m, run, cache[m])

(* These are looked up in the trench's namespace, which is empty for the   *)
(* empty trench.                                                           *)
Nowhere(m, t) == Kind(m) \in {"proxy", "lb", "pdb"} /\ t.uid = 0
InNamespace(m, t) == IF Nowhere(m, t) THEN Absent ELSE cache[m]

ProxyAction(m, run) == GetAction(m, run, InNamespace(m, run.trench))
LbAction(m, run) == GetAction(m, run, InNamespace(m, run.trench))
PdbAction(m, run) == GetAction(m, run, InNamespace(m, run.trench))

(* The child gets the trench as its owner. *)
OwnerActions(run) ==
  IF run.trench.uid = 0 \/ run.cr.owner # run.trench.uid
  THEN << [op |-> "update", obj |-> run.key, owner |-> run.trench.uid, val |-> run.cr.val] >>
  ELSE << >>

Actions(m, run) ==
  CASE Kind(m) = "nsp"     -> NspAction(m, run)
    [] Kind(m) = "nspsvc"  -> NspServiceAction(m, run)
    [] Kind(m) = "ipam"    -> IpamAction(m, run)
    [] Kind(m) = "ipamsvc" -> IpamServiceAction(m, run)
    [] Kind(m) = "cm"      -> ConfigMapAction(m, run)
    [] Kind(m) = "proxy"   -> ProxyAction(m, run)
    [] Kind(m) = "nse"     -> NseAction(m, run)
    [] Kind(m) = "lb"      -> LbAction(m, run)
    [] Kind(m) = "pdb"     -> PdbAction(m, run)
    [] OTHER               -> OwnerActions(run)

-----------------------------------------------------------------------------
(* Admission: the webhooks read the operator's cache, too. *)

SharesVipOrConduit(s1, s2) ==
  \/ s1.vips \cap s2.vips # {}
  \/ s1.conduit = s2.conduit

(* Mutant: only the conduits are compared. *)
ValidateAttractorVipsUnchecked(c, s) ==
  \A a \in Listed(cache, "attractor") \ {c} : s.conduit # cache[a].val.conduit

ValidateAttractor(c, s) ==
  \A a \in Listed(cache, "attractor") \ {c} : ~SharesVipOrConduit(s, cache[a].val)

ConduitOf(view, s) ==
  LET st == <<"stream", s.stream>>
  IN  IF st \in Listed(view, "stream") THEN view[st].val.conduit ELSE ""

(* Only conflicts between two flows whose streams are both known count. *)
ValidateFlowVips(c, s) ==
  LET current == ConduitOf(cache, s)
  IN  current # "" =>
        \A f \in Listed(cache, "flow") \ {c} :
          \/ <<"stream", cache[f].val.stream>> \notin Listed(cache, "stream")
          \/ ConduitOf(cache, cache[f].val) = current
          \/ s.vips \cap cache[f].val.vips = {}

Validate(c, s) ==
  CASE Kind(c) = "attractor" -> ValidateAttractor(c, s)
    [] Kind(c) = "flow"      -> ValidateFlowVips(c, s)
    [] OTHER                 -> TRUE

ValidateCreate(c, s) == Exists(cache, Trench) /\ Validate(c, s)

(* The interface of an attractor cannot be changed. *)
ValidateUpdate(c, old, s) ==
  /\ Kind(c) = "attractor" => s.type = old.type
  /\ Validate(c, s)

-----------------------------------------------------------------------------
(* What an informer lists, in some order. *)
Listing(S) == CHOOSE q \in [1..Cardinality(S) -> S] : IsInjective(q)

(* The operator has started and listed what there is: a trench or none,    *)
(* and admitted children with an owner reference.  The controllers of      *)
(* children without resources of their own have found nothing to do.       *)
Init ==
  /\ scene \in Scenes
  /\ budget = scene.budget
  /\ \E specs \in [scene.present \ {Trench} -> UNION {Specs[c] : c \in Children}] :
       /\ \A c \in DOMAIN specs : specs[c] \in Specs[c]
       /\ api = [o \in Objects |->
                   IF o = Trench /\ Trench \in scene.present
                   THEN [Absent EXCEPT !.uid = 1]
                   ELSE IF o \in DOMAIN specs
                   THEN [uid |-> 1, owner |-> 1, val |-> specs[o]]
                   ELSE Absent]
  /\ cache = api
  /\ \A c \in scene.present :
       Kind(c) = "attractor" => ValidateAttractor(c, api[c].val)
  /\ lag = {}
  /\ owned = {}
  /\ queue = [w \in Workers |-> 
                Listing({k \in scene.present :
                           Kind(k) = w /\ w \in {"trench", "conduit", "attractor"}})]
  /\ work = [w \in Workers |-> Idle]
  /\ stale = [w \in Workers |-> {}]
  /\ uids = [k \in Keys |-> api[k].uid]
  /\ missed = {}
  /\ raced = FALSE

(* The API server stores a version of an object. *)
Write(o, version) ==
  /\ api' = [api EXCEPT ![o] = version]
  /\ lag' = lag \cup {o}
  /\ owned' = IF api[o].owner # 0 \/ version.owner # 0 THEN owned \cup {o} ELSE owned

Outdated(o, others) ==
  [w \in Workers |-> IF w \in others /\ Busy(w) THEN stale[w] \cup {o} ELSE stale[w]]

Spend(what) ==
  /\ budget[what] > 0
  /\ budget' = [budget EXCEPT ![what] = @ - 1]

Enqueue(q, k) ==
  IF k \in Range(q[Kind(k)]) THEN q ELSE [q EXCEPT ![Kind(k)] = Append(@, k)]

-----------------------------------------------------------------------------
(* Users, other controllers and the garbage collector. *)

UserUnchanged == UNCHANGED <<cache, queue, work, missed>>

CreateTrench(n) ==
  /\ Spend("trench")
  /\ ~Exists(api, Trench)
  /\ Write(Trench, [Absent EXCEPT !.uid = uids[Trench] + 1, !.val.n = n])
  /\ uids' = [uids EXCEPT ![Trench] = @ + 1]
  /\ stale' = Outdated(Trench, Workers)
  /\ UNCHANGED raced
  /\ UserUnchanged

CreateChild(c, s) ==
  /\ Spend("user")
  /\ ~Exists(api, c)
  /\ ValidateCreate(c, s)
  /\ Write(c, [Absent EXCEPT !.uid = uids[c] + 1, !.val = s])
  /\ uids' = [uids EXCEPT ![c] = @ + 1]
  /\ stale' = Outdated(c, Workers)
  /\ raced' = (raced \/ (Kind(c) = "attractor" /\ \E a \in lag : Kind(a) = "attractor"))
  /\ UserUnchanged

EditChild(c, s) ==
  /\ Spend("user")
  /\ Exists(api, c) /\ api[c].val # s
  /\ ValidateUpdate(c, api[c].val, s)
  /\ Write(c, [api[c] EXCEPT !.val = s])
  /\ stale' = Outdated(c, Workers)
  /\ raced' = (raced \/ (Kind(c) = "attractor" /\ \E a \in lag : Kind(a) = "attractor"))
  /\ UNCHANGED uids
  /\ UserUnchanged

EditTrench(n) ==
  /\ Spend("user")
  /\ Exists(api, Trench) /\ api[Trench].val.n # n
  /\ Write(Trench, [api[Trench] EXCEPT !.val.n = n])
  /\ stale' = Outdated(Trench, Workers)
  /\ UNCHANGED <<uids, raced>>
  /\ UserUnchanged

Delete(k) ==
  /\ Spend(IF k = Trench THEN "trench" ELSE "user")
  /\ Exists(api, k)
  /\ Write(k, Absent)
  /\ stale' = Outdated(k, Workers)
  /\ UNCHANGED <<uids, raced>>
  /\ UserUnchanged

(* Someone else writes to a resource: deletes it, changes what the operator *)
(* sets, adds something of its own, or only updates its status.            *)
Meddle(m) ==
  /\ Spend("meddle")
  /\ m \notin Keys /\ Exists(api, m)
  /\ \E version \in {Absent, api[m], [api[m] EXCEPT !.val.n = 1 - @],
                     [api[m] EXCEPT !.val.kept = 1 - @]} : Write(m, version)
  /\ stale' = Outdated(m, Workers)
  /\ UNCHANGED <<uids, raced>>
  /\ UserUnchanged

CollectGarbage(o) ==
  /\ Exists(api, o) /\ api[o].owner # 0
  /\ api[Owner(o)].uid # api[o].owner
  /\ Write(o, Absent)
  /\ stale' = Outdated(o, Workers)
  /\ UNCHANGED <<uids, budget, raced>>
  /\ UserUnchanged

-----------------------------------------------------------------------------
(* An informer receives the versions of an object that it lacks and its    *)
(* handlers queue the keys: the object itself for a custom resource, and   *)
(* the owner that any of the versions names (EnqueueRequestForOwner).      *)
Sync(o) ==
  LET old == cache[o]
      new == api[o]
      self == IF o \in Keys THEN Enqueue(queue, o) ELSE queue
      tell == old.owner # 0 \/ o \in owned
  IN  /\ o \in lag
      /\ lag' = lag \ {o}
      /\ owned' = owned \ {o}
      /\ cache' = [cache EXCEPT ![o] = new]
      /\ queue' = IF tell THEN Enqueue(self, Owner(o)) ELSE self
      /\ missed' = IF /\ o \in Children
                      /\ ~tell
                      /\ old.uid > 0 /\ new.uid # old.uid
                   THEN missed \cup {o} ELSE missed
      /\ UNCHANGED <<api, work, stale, uids, budget, raced>>

(* The operator restarts: empty queues, a full listing, one event for      *)
(* every object.                                                           *)
Restart ==
  /\ Spend("restart")
  /\ cache' = api
  /\ lag' = {}
  /\ owned' = {}
  /\ work' = [w \in Workers |-> Idle]
  /\ stale' = [w \in Workers |-> {}]
  /\ queue' = [w \in Workers |->
                 Listing({k \in Keys : Kind(k) = w /\ Exists(api, k)})]
  /\ missed' = IF Exists(api, Trench) THEN {} ELSE missed
  /\ UNCHANGED <<api, uids, raced>>

-----------------------------------------------------------------------------
(* Reconcile. *)

(* The custom resource and, for a child, its trench are read; one that is  *)
(* gone needs nothing.                                                     *)
Start(w) ==
  /\ queue[w] # << >> /\ ~Busy(w)
  /\ LET k == Head(queue[w])
     IN  /\ queue' = [queue EXCEPT ![w] = Tail(@)]
         /\ work' = IF ~Exists(cache, k) THEN work
                    ELSE [work EXCEPT ![w] =
                            [key |-> k, cr |-> cache[k], trench |-> cache[Trench],
                             todo |-> Reconcile(k, cache[k]), acts |-> << >>]]
         /\ stale' = IF Exists(cache, k) THEN [stale EXCEPT ![w] = lag \cap {k}] ELSE stale
  /\ UNCHANGED <<api, cache, lag, owned, uids, budget, missed, raced>>

Done(w) ==
  /\ work' = [work EXCEPT ![w] = Idle]
  /\ queue' = queue

(* Mutant: the error is logged and the key forgotten. *)
FailForgets(w) ==
  /\ work' = [work EXCEPT ![w] = Idle]
  /\ queue' = queue

(* An error: the key is queued again. *)
Fail(w) ==
  /\ work' = [work EXCEPT ![w] = Idle]
  /\ queue' = Enqueue(queue, work[w].key)

Examine(w, r) ==
  LET run == work[w]
      m == <<r, run.key[2]>>
  IN  /\ r \in run.todo /\ First(r, run.todo)
      /\ IF Nowhere(m, run.trench) /\ ~ClusterScoped
         THEN Fail(w) /\ stale' = [stale EXCEPT ![w] = {}]
         ELSE LET left == [run EXCEPT !.todo = @ \ {r}, !.acts = @ \o Actions(m, run)]
                  finished == left.todo = {} /\ left.acts = << >>
              IN  /\ work' = [work EXCEPT ![w] = IF finished THEN Idle ELSE left]
                  /\ stale' = [stale EXCEPT ![w] =
                                 IF finished THEN {}
                                 ELSE IF m = run.key THEN @
                                 ELSE (@ \ {m}) \cup (lag \cap {m})]
                  /\ queue' = queue
      /\ missed' = IF Kind(m) = "cm" THEN {} ELSE missed
      /\ UNCHANGED <<api, cache, lag, owned, uids, budget, raced>>

(* The calls of RunActions, one by one.  A create that finds the object    *)
(* and an update that finds a newer version count as successes.            *)
Rejected(act, run) ==
  \/ /\ act.op = "create"
     /\ Kind(act.obj) = "proxy" /\ run.trench.uid = 0
  \/ /\ act.op = "update"
     /\ \/ ~Exists(api, act.obj)
        \/ /\ act.obj \notin stale[Kind(run.key)]
           /\ act.obj = run.key
           /\ \/ act.owner = 0
              \/ ~ValidateUpdate(act.obj, api[act.obj].val, act.val)

Takes(act, w) ==
  IF act.op = "create" THEN ~Exists(api, act.obj) ELSE act.obj \notin stale[w]

Perform(w) ==
  LET run == work[w]
      act == Head(run.acts)
  IN  /\ run.todo = {} /\ run.acts # << >>
      /\ ~Rejected(act, run)
      /\ IF Takes(act, w)
         THEN /\ Write(act.obj, [uid |-> IF act.op = "create" THEN 1 ELSE api[act.obj].uid,
                                 owner |-> act.owner, val |-> act.val])
              /\ stale' = [Outdated(act.obj, Workers \ {w}) EXCEPT
                             ![w] = IF Len(run.acts) = 1 THEN {} ELSE @]
         ELSE /\ UNCHANGED <<api, lag, owned>>
              /\ stale' = IF Len(run.acts) = 1 THEN [stale EXCEPT ![w] = {}] ELSE stale
      /\ IF Len(run.acts) = 1 THEN Done(w)
         ELSE /\ work' = [work EXCEPT ![w].acts = Tail(@)]
              /\ queue' = queue
      /\ UNCHANGED <<cache, uids, budget, missed, raced>>

PerformFails(w) ==
  /\ work[w].todo = {} /\ work[w].acts # << >>
  /\ IF Rejected(Head(work[w].acts), work[w]) THEN UNCHANGED budget ELSE Spend("fail")
  /\ Fail(w)
  /\ stale' = [stale EXCEPT ![w] = {}]
  /\ UNCHANGED <<api, cache, lag, owned, uids, missed, raced>>

-----------------------------------------------------------------------------
Users ==
  \/ \E n \in {0, 1} : CreateTrench(n) \/ EditTrench(n)
  \/ \E c \in scene.children : \E s \in Specs[c] : CreateChild(c, s) \/ EditChild(c, s)
  \/ \E k \in scene.children \cup {Trench} : Delete(k)
  \/ \E m \in ObjectsInPlay : Meddle(m)
  \/ Restart

Worker(w) ==
  \/ Start(w)
  \/ \E r \in work[w].todo : Examine(w, r)
  \/ Perform(w)
  \/ PerformFails(w)

Next ==
  /\ \/ Users
     \/ \E o \in ObjectsInPlay : CollectGarbage(o) \/ Sync(o)
     \/ \E w \in Workers : Worker(w)
  /\ UNCHANGED scene

Live(A) == A /\ UNCHANGED scene

(* Informers deliver, the garbage collector collects, workers work. *)
Fairness ==
  /\ \A o \in Objects : WF_vars(Live(CollectGarbage(o))) /\ WF_vars(Live(Sync(o)))
  /\ \A w \in Workers : WF_vars(Live(Worker(w)))

Spec == Init /\ [][Next]_vars /\ Fairness

-----------------------------------------------------------------------------
(* The type invariant. *)
TypeOK ==
  /\ lag \subseteq Objects
  /\ owned \subseteq lag
  /\ \A w \in Workers : stale[w] \subseteq Objects /\ IsInjective(queue[w])
  /\ \A o \in Objects : o \notin lag => cache[o] = api[o]
  /\ missed \subseteq Children

(* The operator writes back whole objects it read earlier.  Such a write   *)
(* never undoes what a user or another controller wrote in between: the    *)
(* spec of a custom resource and what others added to a resource stay as   *)
(* they are when a worker makes a call.                                    *)
NoLostEdit ==
  [][\A w \in Workers : work[w].todo = {} /\ work'[w] # work[w] /\ budget' = budget =>
       \A o \in Objects : Exists(api, o) /\ Exists(api', o) =>
         /\ o \in Children => api'[o].val = api[o].val
         /\ api'[o].val.kept = api[o].val.kept]_vars

(* No two attractors share a VIP or a conduit (validateAttractor), unless  *)
(* one of them was admitted while the webhook's cache did not hold the     *)
(* latest version of another.                                              *)
AttractorsDisjoint ==
  ~raced => \A a1, a2 \in Listed(api, "attractor") :
              a1 # a2 => ~SharesVipOrConduit(api[a1].val, api[a2].val)

(* Nothing is stuck on the way to the trench: once users stop, the config  *)
(* map stays equal to the custom resources of the trench, except for one   *)
(* that has no owner reference or was deleted before it had one: none of   *)
(* its events then reached the trench controller.                          *)
ConfigMapFollows ==
  <>[]("cm" \in scene.resources /\ Exists(api, Trench) =>
         LET cm == <<"cm", Trench[2]>>
         IN  /\ Exists(api, cm)
             /\ \A c \in Children :
                  \/ {e \in api[cm].val.data : e[1] = c} = {e \in AllData(api) : e[1] = c}
                  \/ c \in missed
                  \/ Exists(api, c) /\ api[c].owner # api[Trench].uid)

(* A child keeps its missing owner reference only while admission refuses  *)
(* the operator's own update of it.                                        *)
ChildrenOwned ==
  <>[](Exists(api, Trench) =>
         \A c \in Children : Exists(api, c) =>
           \/ api[c].owner = api[Trench].uid
           \/ ~Validate(c, api[c].val))

(* Every resource of a trench, and of every child of it that admission     *)
(* still accepts, is there in the end, made from the latest custom         *)
(* resources, whatever happened to it meanwhile.                           *)
ResourcesFollow ==
  <>[](Exists(api, Trench) =>
         \A m \in ObjectsInPlay \ Keys :
           LET k == Owner(m)
               cr == api[k]
           IN  /\ Exists(api, k)
               /\ Kind(m) # "cm"
               /\ Kind(m) \in Reconcile(k, cr)
               => /\ Exists(api, m)
                  /\ api[m].owner = cr.uid
                  /\ api[m].val = Desired(m, api, cr, api[Trench], api[m].val))

(* When the trench is gone, so are in the end all its resources and every  *)
(* child that had an owner reference, with the resources of that child.    *)
TrenchCleansUp ==
  <>[](~Exists(api, Trench) =>
         \A o \in Objects : Exists(api, o) =>
           IF o \in Children THEN api[o].owner = 0
           ELSE Owner(o) # Trench /\ Exists(api, Owner(o)))

(* Whatever was edited, deleted or failed, the cluster comes to be what    *)
(* the custom resources say.                                               *)
Converges == ConfigMapFollows /\ ChildrenOwned /\ ResourcesFollow /\ TrenchCleansUp
=============================================================================
