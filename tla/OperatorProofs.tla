--------------------------- MODULE OperatorProofs ---------------------------
(***************************************************************************)
(* TLAPS proofs about Operator, for every set of custom resources, every   *)
(* set of specs and every number of users' actions and faults: attractors  *)
(* stay disjoint and no worker undoes what others wrote.                   *)
(***************************************************************************)
EXTENDS Operator, FiniteSetTheorems, TLAPS

IsVersion(v) == v = [uid |-> v.uid, owner |-> v.owner, val |-> v.val] /\ IsContent(v.val)
IsSeq(s) == \E S : s \in Seq(S)
KeysOf(w) == {k \in Keys : Kind(k) = w}

(* The cache differs from the API server in lagging objects only. *)
Views ==
  /\ api = [o \in Objects |-> api[o]] /\ cache = [o \in Objects |-> cache[o]]
  /\ \A o \in Objects : IsVersion(api[o]) /\ IsVersion(cache[o])
  /\ \A o \in Objects \ lag : cache[o] = api[o]

Queues ==
  /\ queue = [w \in Workers |-> queue[w]]
  /\ \A w \in Workers : queue[w] \in Seq(KeysOf(w))

(* An intended call is for a resource of the custom resource, or for the   *)
(* owner reference of the custom resource itself; what it would overwrite  *)
(* is what was read, as long as that has not changed.                      *)
SoundAct(run, a, old, view) ==
  /\ a.obj \in Objects /\ IsContent(a.val) /\ a.op \in {"create", "update"}
  /\ a.obj = <<a.obj[1], a.obj[2]>> /\ a.obj[1] \notin run.todo
  /\ a.obj[1] \in Kinds \/ (a.obj = run.key /\ a.op = "update" /\ a.val = run.cr.val)
  /\ a.op = "update" /\ a.obj \notin old => a.val.kept = view[a.obj].val.kept

(* A reconcile of worker w that read objects of which old have changed.    *)
Sound(w, run, old, view) ==
  /\ run = [key |-> run.key, cr |-> run.cr, trench |-> run.trench, todo |-> run.todo,
            acts |-> run.acts]
  /\ run.key \in KeysOf(w) /\ IsVersion(run.cr)
  /\ \A r \in run.todo : r \in Kinds \cup {w} /\ r # "trench" /\ <<r, run.key[2]>> \in Objects
  /\ run.key \notin old => view[run.key].val = run.cr.val
  /\ IsSeq(run.acts)
  /\ \A i \in 1..Len(run.acts) : SoundAct(run, run.acts[i], old, view)
  /\ \A i, j \in 1..Len(run.acts) : i # j => run.acts[i].obj # run.acts[j].obj

Runs ==
  /\ work = [w \in Workers |-> work[w]] /\ stale = [w \in Workers |-> stale[w]]
  /\ \A w \in Workers : Busy(w) => Sound(w, work[w], stale[w], api)

IndInv == scene \in Scenes /\ Views /\ Queues /\ Runs /\ AttractorsDisjoint
-----------------------------------------------------------------------------
(* Objects. *)

LEMMA KeyShape ==
  ASSUME NEW k \in Keys
  PROVE  /\ k = <<Kind(k), k[2]>> /\ Kind(k) \in Workers /\ Kind(k) \notin Kinds
         /\ k # Trench => k \in Children /\ Kind(k) # "trench"
         /\ k \in Objects
  BY ChildrenAssumption DEF Keys, Trench, Kind, Workers, Kinds, Objects

LEMMA ManagedShape ==
  ASSUME NEW r \in Kinds, NEW name
  PROVE  <<r, name>> \notin Keys
<1> SUFFICES ASSUME NEW k \in Keys, k = <<r, name>>
             PROVE  FALSE
  OBVIOUS
<1>1. Kind(k) = r
  BY DEF Kind
<1> QED BY <1>1, KeyShape

LEMMA OwnerIsKey ==
  ASSUME NEW o \in Objects
  PROVE  Owner(o) \in Keys
<1>1. CASE o \in Children
  <2>1. Kind(o) \notin Kinds
    BY <1>1, KeyShape DEF Keys
  <2> QED BY <1>1, <2>1 DEF Owner, Keys, Kinds
<1>2. CASE o = Trench
  <2>1. Owner(o) = Trench
    BY <1>2 DEF Owner, Trench, Kind
  <2> QED BY <2>1 DEF Keys
<1> QED BY <1>1, <1>2 DEF Objects, Keys

LEMMA ReconcileObjects ==
  ASSUME NEW k \in Keys, NEW version, NEW r \in Reconcile(k, version)
  PROVE  r \in Kinds \cup {Kind(k)} /\ r # "trench" /\ <<r, k[2]>> \in Objects
<1>0. k = <<Kind(k), k[2]>> /\ Kind(k) \in Workers
  BY KeyShape
<1>1. CASE r = Kind(k)
  <2>1. r # "trench"
    BY <1>1 DEF Reconcile, ReconcileAll
  <2> QED BY <1>0, <1>1, <2>1, KeyShape
<1>2. CASE r # Kind(k)
  <2>1. \/ Kind(k) = "trench" /\ r \in {"nsp", "nspsvc", "ipam", "ipamsvc", "cm"}
        \/ Kind(k) = "conduit" /\ r = "proxy"
        \/ Kind(k) = "attractor" /\ r \in {"nse", "lb", "pdb"}
    BY <1>0, <1>2 DEF Reconcile, ReconcileAll, ConduitReconcile, AttractorReconcile,
       GatewayReconcile, VipReconcile, StreamReconcile, FlowReconcile, Workers
  <2>2. r \in Kinds /\ r # "trench"
    BY <2>1 DEF Kinds
  <2>3. <<r, k[2]>> \in Managed
    BY <2>2 DEF Managed
  <2>4. <<r, k[2]>> \notin Children
    BY <2>2, ManagedShape DEF Keys
  <2>5. Owner(<<r, k[2]>>) = k
    <3>1. CASE Kind(k) = "trench"
      <4>1. k = Trench
        BY <3>1, KeyShape
      <4> QED BY <2>1, <2>4, <3>1, <4>1 DEF Owner, Kind
    <3>2. CASE Kind(k) # "trench"
      BY <1>0, <2>1, <2>4, <3>2 DEF Owner, Kind
    <3> QED BY <3>1, <3>2
  <2> QED BY <2>2, <2>3, <2>5 DEF Objects
<1> QED BY <1>1, <1>2
-----------------------------------------------------------------------------
(* Contents and sequences. *)

LEMMA BlankIsContent == IsContent(Blank) /\ Blank.kept = 0
  BY DEF IsContent, Blank

(* Changing any other field leaves a content that keeps what others added. *)
KeepsContent(v, base) == IsContent(v) /\ v.kept = base.kept

LEMMA ContentExcept ==
  ASSUME NEW v, IsContent(v), NEW x
  PROVE  /\ KeepsContent([v EXCEPT !.n = x], v)
         /\ KeepsContent([v EXCEPT !.trench = x], v)
         /\ KeepsContent([v EXCEPT !.conduit = x], v)
         /\ KeepsContent([v EXCEPT !.type = x], v)
         /\ KeepsContent([v EXCEPT !.data = x], v)
         /\ IsContent([v EXCEPT !.kept = x])
  BY DEF IsContent, KeepsContent

LEMMA AppendOne ==
  ASSUME NEW s, IsSeq(s), NEW a
  PROVE  /\ IsSeq(s \o <<a>>) /\ Len(s) \in Nat /\ Len(s \o <<a>>) = Len(s) + 1
         /\ \A i \in 1..Len(s) : (s \o <<a>>)[i] = s[i]
         /\ (s \o <<a>>)[Len(s) + 1] = a
<1>1. PICK S : s \in Seq(S)
  BY DEF IsSeq
<1>2. s \in Seq(S \cup {a}) /\ <<a>> \in Seq(S \cup {a})
  BY <1>1
<1> QED BY <1>2 DEF IsSeq

LEMMA AppendNone ==
  ASSUME NEW s, IsSeq(s)
  PROVE  s \o << >> = s
  BY DEF IsSeq

LEMMA TailOf ==
  ASSUME NEW s, IsSeq(s), s # << >>
  PROVE  /\ IsSeq(Tail(s)) /\ Len(s) \in Nat /\ Len(s) > 0 /\ Len(Tail(s)) = Len(s) - 1
         /\ Head(s) = s[1]
         /\ \A i \in 1..Len(Tail(s)) : Tail(s)[i] = s[i + 1]
<1>1. PICK S : s \in Seq(S)
  BY DEF IsSeq
<1> QED BY <1>1 DEF IsSeq
-----------------------------------------------------------------------------
(* The calls a reconcile intends. *)

LEMMA ParametersKeep ==
  ASSUME NEW cr, NEW t, NEW view, NEW base, IsContent(base)
  PROVE  /\ KeepsContent(NspParameters(t, base), base)
         /\ KeepsContent(NspServiceParameters(t, base), base)
         /\ KeepsContent(IpamParameters(t, base), base)
         /\ KeepsContent(IpamServiceParameters(t, base), base)
         /\ KeepsContent(ConfigMapData(view, base), base)
         /\ KeepsContent(ProxyParameters(cr, t, base), base)
         /\ KeepsContent(NseParameters(cr, t, base), base)
         /\ KeepsContent(LbParameters(cr, t, base), base)
         /\ KeepsContent(PdbParameters(base), base)
<1>1. \A x, y : KeepsContent([base EXCEPT !.trench = x, !.n = y], base)
  <2> TAKE x, y
  <2>1. KeepsContent([base EXCEPT !.trench = x], base)
    BY ContentExcept, Zenon
  <2> QED BY <2>1, ContentExcept, Zenon DEF KeepsContent
<1>2. KeepsContent(ConfigMapData(view, base), base) /\ KeepsContent(PdbParameters(base), base)
  <2>1. KeepsContent([base EXCEPT !.n = 0], base)
    BY ContentExcept, Zenon
  <2> QED BY <2>1, ContentExcept, Zenon DEF KeepsContent, ConfigMapData, PdbParameters
<1>3. KeepsContent(NseParameters(cr, t, base), base)
  <2>1. KeepsContent([base EXCEPT !.trench = TrenchName(t), !.n = cr.val.n], base)
    BY <1>1, Zenon
  <2> QED BY <2>1, ContentExcept, Zenon DEF KeepsContent, NseParameters
<1>4. KeepsContent(LbParameters(cr, t, base), base)
  <2>1. KeepsContent([base EXCEPT !.trench = TrenchName(t)], base)
    BY ContentExcept, Zenon
  <2>2. KeepsContent(LbEnvVars(cr, t, base), base)
    BY <2>1, ContentExcept, Zenon DEF KeepsContent, LbEnvVars
  <2>3. \A x, y, z : KeepsContent([LbEnvVars(cr, t, base) EXCEPT !.n = x, !.type = y, !.data = z], base)
    <3> TAKE x, y, z
    <3>1. KeepsContent([LbEnvVars(cr, t, base) EXCEPT !.n = x], base)
      BY <2>2, ContentExcept, Zenon DEF KeepsContent
    <3>2. KeepsContent([LbEnvVars(cr, t, base) EXCEPT !.n = x, !.type = y], base)
      BY <3>1, ContentExcept, Zenon DEF KeepsContent
    <3> QED BY <3>2, ContentExcept, Zenon DEF KeepsContent
  <2> QED BY <2>3, Zenon DEF LbParameters
<1> QED BY <1>1, <1>2, <1>3, <1>4, Zenon DEF NspParameters, NspServiceParameters, IpamParameters,
      IpamServiceParameters, ProxyParameters

LEMMA DesiredKeeps ==
  ASSUME NEW m, Kind(m) \in Kinds, NEW view, NEW cr, NEW t, NEW base, IsContent(base)
  PROVE  KeepsContent(Desired(m, view, cr, t, base), base)
  BY ParametersKeep, Zenon DEF Desired, Kinds

(* Nothing, a creation, or an update that keeps what others added. *)
Keeps(m, acts, current) ==
  \/ acts = << >>
  \/ \E a : /\ acts = <<a>> /\ a.obj = m /\ IsContent(a.val)
            /\ \/ a.op = "create"
               \/ a.op = "update" /\ current.uid # 0 /\ a.val.kept = current.val.kept

LEMMA GetActionKeeps ==
  ASSUME NEW m, Kind(m) \in Kinds, NEW run, NEW current, IsContent(current.val)
  PROVE  Keeps(m, GetAction(m, run, current), current)
<1> DEFINE fresh == Desired(m, cache, run.cr, run.trench, Blank)
           changed == Desired(m, cache, run.cr, run.trench, current.val)
           create == [op |-> "create", obj |-> m, owner |-> run.cr.uid, val |-> fresh]
           update == [op |-> "update", obj |-> m, owner |-> current.owner, val |-> changed]
<1>0. KeepsContent(fresh, Blank) /\ KeepsContent(changed, current.val)
  BY DesiredKeeps, BlankIsContent
<1>1. create.op = "create" /\ create.obj = m /\ create.val = fresh
  OBVIOUS
<1>2. update.op = "update" /\ update.obj = m /\ update.val = changed
  OBVIOUS
<1>3. \/ GetAction(m, run, current) \in {<< >>, <<create>>}
      \/ GetAction(m, run, current) = <<update>> /\ current.uid # 0
  BY DEF GetAction
<1> HIDE DEF create, update, fresh, changed
<1> QED BY <1>0, <1>1, <1>2, <1>3, Zenon DEF Keeps, KeepsContent

LEMMA ManagedActions ==
  ASSUME NEW m \in Objects, Kind(m) \in Kinds, NEW run, IsVersion(cache[m])
  PROVE  Keeps(m, Actions(m, run), cache[m])
<1>1. IsContent(cache[m].val) /\ IsContent(Absent.val)
  BY BlankIsContent DEF IsVersion, Absent
<1>2. Actions(m, run) \in {GetAction(m, run, cache[m]), GetAction(m, run, Absent)}
  BY Zenon DEF Actions, Kinds, NspAction, NspServiceAction, IpamAction, IpamServiceAction,
     ConfigMapAction, NseAction, ProxyAction, LbAction, PdbAction, InNamespace
<1>3. /\ Keeps(m, GetAction(m, run, cache[m]), cache[m])
      /\ Keeps(m, GetAction(m, run, Absent), Absent)
  BY <1>1, GetActionKeeps
<1>4. \A acts : Keeps(m, acts, Absent) => Keeps(m, acts, cache[m])
  <2>1. Absent.uid = 0
    BY DEF Absent
  <2> QED BY <2>1, Zenon DEF Keeps
<1> QED BY <1>2, <1>3, <1>4
-----------------------------------------------------------------------------
(* Writes. *)

LEMMA SoundWrite ==
  ASSUME NEW w \in Workers, NEW run, NEW old, NEW view, view = [o \in Objects |-> view[o]],
         Sound(w, run, old, view), NEW o \in Objects, NEW version
  PROVE  Sound(w, run, old \cup {o}, [view EXCEPT ![o] = version])
<1> DEFINE after == [view EXCEPT ![o] = version]
<1>1. \A x \in Objects : x # o => after[x] = view[x]
  OBVIOUS
<1>2. run.key \in Objects
  BY KeyShape DEF Sound, KeysOf
<1> HIDE DEF after
<1>3. \A a : SoundAct(run, a, old, view) => SoundAct(run, a, old \cup {o}, after)
  BY <1>1 DEF SoundAct
<1>4. run.key \notin old \cup {o} => after[run.key].val = run.cr.val
  BY <1>1, <1>2 DEF Sound
<1>5. \A i \in 1..Len(run.acts) : SoundAct(run, run.acts[i], old \cup {o}, after)
  BY <1>3, Zenon DEF Sound
<1>6. Sound(w, run, old \cup {o}, after)
  BY <1>4, <1>5, Zenon DEF Sound
<1> QED BY <1>6 DEF after

LEMMA ViewsWrite ==
  ASSUME Views, NEW o \in Objects, NEW version, IsVersion(version), Write(o, version),
         UNCHANGED cache
  PROVE  Views'
  BY DEF Views, Write

(* Somebody other than the workers writes. *)
LEMMA ForeignWrite ==
  ASSUME IndInv, NEW o \in Objects, NEW version, IsVersion(version), Write(o, version),
         stale' = Outdated(o, Workers), UserUnchanged, UNCHANGED scene
  PROVE  scene' \in Scenes /\ Views' /\ Queues' /\ Runs'
<1>1. scene' \in Scenes /\ Views' /\ Queues'
  BY ViewsWrite DEF IndInv, UserUnchanged, Queues
<1>2. work' = work /\ api' = [api EXCEPT ![o] = version]
  BY DEF UserUnchanged, Write
<1>3. stale' = [w \in Workers |-> stale'[w]]
  BY DEF Outdated
<1>4. ASSUME NEW w \in Workers, Busy(w)'
      PROVE  Sound(w, work[w], stale'[w], api')
  <2>1. Busy(w) /\ stale'[w] = stale[w] \cup {o}
    BY <1>2, <1>4 DEF Outdated, Busy
  <2>2. Sound(w, work[w], stale[w], api) /\ api = [x \in Objects |-> api[x]]
    BY <2>1 DEF IndInv, Runs, Views
  <2>3. Sound(w, work[w], stale[w] \cup {o}, [api EXCEPT ![o] = version])
    BY <2>2, SoundWrite, Zenon
  <2> QED BY <1>2, <2>1, <2>3
<1>5. Runs'
  BY <1>2, <1>3, <1>4, Zenon DEF Runs, IndInv
<1> QED BY <1>1, <1>5

LEMMA FewerAttractors ==
  ASSUME AttractorsDisjoint, raced' = raced,
         \A a \in Children : Kind(a) = "attractor" /\ Exists(api', a) =>
           Exists(api, a) /\ api'[a].val = api[a].val
  PROVE  AttractorsDisjoint'
  BY DEF AttractorsDisjoint, Listed

LEMMA AbsentIsVersion == IsVersion(Absent) /\ ~(Absent.uid > 0)
  BY BlankIsContent DEF IsVersion, Absent

LEMMA VersionExcept ==
  ASSUME NEW v, IsVersion(v), NEW x, IsContent(x), NEW u
  PROVE  /\ IsVersion([v EXCEPT !.val = x]) /\ [v EXCEPT !.val = x].uid = v.uid
         /\ [v EXCEPT !.val = x].val = x
         /\ IsVersion([v EXCEPT !.uid = u])
  BY DEF IsVersion

(* An attractor that is admitted does not conflict with any other. *)
LEMMA AdmittedDisjoint ==
  ASSUME Views, AttractorsDisjoint, NEW c \in Children, NEW s, NEW version,
         Write(c, version), version.val = s, Validate(c, s),
         raced' = (raced \/ (Kind(c) = "attractor" /\ \E a \in lag : Kind(a) = "attractor"))
  PROVE  AttractorsDisjoint'
<1>0. c \in Objects /\ Children \subseteq Objects
  BY KeyShape DEF Keys
<1>1. api'[c].val = s /\ \A a \in Children : a # c => api'[a] = api[a]
  BY <1>0 DEF Write, Views
<1>2. CASE Kind(c) # "attractor"
  <2>1. \A a \in Children : Kind(a) = "attractor" => api'[a] = api[a]
    BY <1>1, <1>2
  <2> QED BY <1>2, <2>1, Zenon DEF AttractorsDisjoint, Listed, Exists
<1>3. CASE Kind(c) = "attractor"
  <2> SUFFICES ASSUME ~raced', NEW a1 \in Listed(api', "attractor"),
                      NEW a2 \in Listed(api', "attractor"), a1 # a2
               PROVE  ~SharesVipOrConduit(api'[a1].val, api'[a2].val)
    BY DEF AttractorsDisjoint
  <2>1. ~raced /\ \A a \in Children : Kind(a) = "attractor" => cache[a] = api[a]
    BY <1>0, <1>3, Zenon DEF Views
  <2>2. \A a \in Listed(api', "attractor") : a # c => a \in Listed(cache, "attractor")
    BY <1>1, <2>1 DEF Listed, Exists
  <2>3. \A a \in Listed(cache, "attractor") \ {c} : ~SharesVipOrConduit(s, api'[a].val)
    BY <1>1, <1>3, <2>1 DEF Validate, ValidateAttractor, Listed
  <2>4. CASE a1 = c
    BY <1>1, <2>2, <2>3, <2>4
  <2>5. CASE a2 = c
    BY <1>1, <2>2, <2>3, <2>5 DEF SharesVipOrConduit
  <2>6. CASE a1 # c /\ a2 # c
    BY <1>1, <2>1, <2>6 DEF AttractorsDisjoint, Listed, Exists
  <2> QED BY <2>4, <2>5, <2>6
<1> QED BY <1>2, <1>3

LEMMA OtherWrite ==
  ASSUME IndInv, NEW o \in Objects, NEW version, IsVersion(version), Write(o, version),
         stale' = Outdated(o, Workers), UserUnchanged, UNCHANGED <<scene, raced>>,
         o \notin Children \/ version = Absent
  PROVE  IndInv'
<1>1. scene' \in Scenes /\ Views' /\ Queues' /\ Runs'
  BY ForeignWrite
<1>2. \A a \in Children : Exists(api', a) => api'[a] = api[a]
  BY AbsentIsVersion, KeyShape DEF Exists, Write, IndInv, Views, Keys
<1>3. AttractorsDisjoint'
  BY <1>2, FewerAttractors DEF IndInv, Exists
<1> QED BY <1>1, <1>3 DEF IndInv

LEMMA UserStep ==
  ASSUME IndInv, Users \/ \E o \in ObjectsInPlay : CollectGarbage(o), ~Restart, UNCHANGED scene
  PROVE  IndInv'
<1>0. /\ Trench \in Objects /\ Trench \notin Children /\ Children \subseteq Objects
      /\ Keys = {Trench} \cup Children /\ ObjectsInPlay \subseteq Objects
      /\ scene.children \subseteq Children
      /\ IsVersion(api[Trench]) /\ IsContent(api[Trench].val)
  <2>1. Trench \in Keys /\ Kind(Trench) = "trench" /\ Children \subseteq Keys
    BY DEF Keys, Trench, Kind
  <2>2. Trench \notin Children
    BY ChildrenAssumption, <2>1 DEF Kind
  <2> QED BY <2>1, <2>2, KeyShape, ScenesAssumption DEF Keys, ObjectsInPlay, IndInv, Views, IsVersion
<1>1. ASSUME NEW n, CreateTrench(n) PROVE IndInv'
  <2>1. \A u : IsVersion([Absent EXCEPT !.uid = u, !.val.n = n])
    <3> TAKE u
    <3> DEFINE v == [Absent EXCEPT !.uid = u]
    <3>1. IsVersion(v) /\ IsContent(v.val)
      BY AbsentIsVersion, BlankIsContent, VersionExcept DEF IsVersion
    <3> HIDE DEF v
    <3>2. IsContent([v.val EXCEPT !.n = n])
      BY <3>1, ContentExcept, Zenon DEF KeepsContent
    <3>3. IsVersion([v EXCEPT !.val = [v.val EXCEPT !.n = n]])
      BY <3>1, <3>2, VersionExcept, Zenon
    <3> QED BY <3>3, Zenon DEF v
  <2> QED BY <1>0, <1>1, <2>1, OtherWrite, Zenon DEF CreateTrench
<1>2. ASSUME NEW n, EditTrench(n) PROVE IndInv'
  <2>1. IsVersion([api[Trench] EXCEPT !.val.n = n])
    <3>1. IsContent([api[Trench].val EXCEPT !.n = n])
      BY <1>0, ContentExcept, Zenon DEF KeepsContent
    <3>2. IsVersion([api[Trench] EXCEPT !.val = [api[Trench].val EXCEPT !.n = n]])
      BY <1>0, <3>1, VersionExcept, Zenon
    <3> QED BY <3>2, Zenon
  <2> QED BY <1>0, <1>2, <2>1, OtherWrite DEF EditTrench
<1>3. ASSUME NEW k \in Keys, Delete(k) PROVE IndInv'
  BY <1>0, <1>3, AbsentIsVersion, OtherWrite DEF Delete
<1>4. ASSUME NEW o \in Objects, CollectGarbage(o) PROVE IndInv'
  BY <1>4, AbsentIsVersion, OtherWrite DEF CollectGarbage
<1>5. ASSUME NEW m \in Objects, Meddle(m) PROVE IndInv'
  <2>1. PICK version \in {Absent, api[m], [api[m] EXCEPT !.val.n = 1 - @],
                          [api[m] EXCEPT !.val.kept = 1 - @]} : Write(m, version)
    BY <1>5 DEF Meddle
  <2>2. IsVersion(version)
    <3>1. IsVersion(api[m]) /\ IsContent(api[m].val)
      BY DEF IndInv, Views, IsVersion
    <3>2. \A x : /\ IsVersion([api[m] EXCEPT !.val = [api[m].val EXCEPT !.n = x]])
                 /\ IsVersion([api[m] EXCEPT !.val = [api[m].val EXCEPT !.kept = x]])
      <4> TAKE x
      <4>1. IsContent([api[m].val EXCEPT !.n = x]) /\ IsContent([api[m].val EXCEPT !.kept = x])
        BY <3>1, ContentExcept, Zenon DEF KeepsContent
      <4> QED BY <3>1, <4>1, VersionExcept, Zenon
    <3> QED BY <2>1, <3>1, <3>2, AbsentIsVersion, Zenon
  <2> QED BY <1>0, <1>5, <2>1, <2>2, OtherWrite DEF Meddle
<1>6. ASSUME NEW c \in Children, NEW s \in Specs[c], CreateChild(c, s) PROVE IndInv'
  <2> DEFINE version == [Absent EXCEPT !.uid = uids[c] + 1, !.val = s]
  <2>1. IsVersion(version) /\ version.val = s
    <3> DEFINE v == [Absent EXCEPT !.uid = uids[c] + 1]
    <3>1. IsVersion(v)
      BY AbsentIsVersion, BlankIsContent, VersionExcept, Zenon
    <3> HIDE DEF v
    <3>2. IsVersion([v EXCEPT !.val = s]) /\ [v EXCEPT !.val = s].val = s
      BY <3>1, SpecsAssumption, VersionExcept, Zenon
    <3> QED BY <3>2, Zenon DEF v
  <2>2. Write(c, version) /\ Validate(c, s)
    BY <1>6 DEF CreateChild, ValidateCreate
  <2> HIDE DEF version
  <2>3. scene' \in Scenes /\ Views' /\ Queues' /\ Runs'
    BY <1>0, <1>6, <2>1, <2>2, ForeignWrite DEF CreateChild
  <2>4. AttractorsDisjoint'
    BY <1>6, <2>1, <2>2, AdmittedDisjoint DEF CreateChild, IndInv
  <2> QED BY <2>3, <2>4 DEF IndInv
<1>7. ASSUME NEW c \in Children, NEW s \in Specs[c], EditChild(c, s) PROVE IndInv'
  <2> DEFINE version == [api[c] EXCEPT !.val = s]
  <2>1. IsVersion(version) /\ version.val = s
    BY <1>0, SpecsAssumption, VersionExcept, Zenon DEF IndInv, Views
  <2>2. Write(c, version) /\ Validate(c, s)
    BY <1>7 DEF EditChild, ValidateUpdate
  <2> HIDE DEF version
  <2>3. scene' \in Scenes /\ Views' /\ Queues' /\ Runs'
    BY <1>0, <1>7, <2>1, <2>2, ForeignWrite DEF EditChild
  <2>4. AttractorsDisjoint'
    BY <1>7, <2>1, <2>2, AdmittedDisjoint DEF EditChild, IndInv
  <2> QED BY <2>3, <2>4 DEF IndInv
<1> QED BY <1>0, <1>1, <1>2, <1>3, <1>4, <1>5, <1>6, <1>7 DEF Users
-----------------------------------------------------------------------------
(* The informers and a restart. *)

LEMMA EnqueueKeeps ==
  ASSUME NEW q, q = [w \in Workers |-> q[w]], \A w \in Workers : q[w] \in Seq(KeysOf(w)),
         NEW k \in Keys
  PROVE  /\ Enqueue(q, k) = [w \in Workers |-> Enqueue(q, k)[w]]
         /\ \A w \in Workers : Enqueue(q, k)[w] \in Seq(KeysOf(w))
<1>1. Kind(k) \in Workers /\ k \in KeysOf(Kind(k))
  BY KeyShape DEF KeysOf
<1>2. Append(q[Kind(k)], k) \in Seq(KeysOf(Kind(k)))
  BY <1>1
<1> QED BY <1>1, <1>2, Zenon DEF Enqueue

LEMMA SyncStep ==
  ASSUME IndInv, NEW o \in Objects, Sync(o), UNCHANGED scene
  PROVE  IndInv'
<1>1. Views'
  BY DEF IndInv, Views, Sync
<1>2. Queues'
  <2>1. \E self \in {queue, Enqueue(queue, o)} :
          /\ o \in Keys \/ self = queue
          /\ queue' \in {self, Enqueue(self, Owner(o))}
    BY Zenon DEF Sync
  <2>2. PICK self \in {queue, Enqueue(queue, o)} :
          /\ o \in Keys \/ self = queue
          /\ queue' \in {self, Enqueue(self, Owner(o))}
    BY <2>1
  <2>3. self = [w \in Workers |-> self[w]] /\ \A w \in Workers : self[w] \in Seq(KeysOf(w))
    BY <2>2, EnqueueKeeps DEF IndInv, Queues
  <2> QED BY <2>2, <2>3, EnqueueKeeps, OwnerIsKey DEF Queues
<1>3. Runs' /\ AttractorsDisjoint'
  BY DEF IndInv, Sync, Runs, Busy, AttractorsDisjoint
<1> QED BY <1>1, <1>2, <1>3 DEF IndInv

(* A full listing. *)
LEMMA ListingIsQueue ==
  ASSUME NEW S \in SUBSET Keys, NEW w \in Workers, S \subseteq KeysOf(w)
  PROVE  Listing(S) \in Seq(KeysOf(w))
<1>1. IsFiniteSet(S)
  <2>1. IsFiniteSet(Keys)
    BY ChildrenAssumption, FS_Singleton, FS_Union, Zenon DEF Keys
  <2> QED BY <2>1, FS_Subset
<1>2. Cardinality(S) \in Nat /\ ExistsBijection(1..Cardinality(S), S)
  BY <1>1, FS_CardinalityType
<1>3. PICK f \in [1..Cardinality(S) -> S] : IsInjective(f)
  BY <1>2 DEF ExistsBijection, Bijection, Injection, Surjection, IsInjective
<1>4. Listing(S) \in [1..Cardinality(S) -> S]
  BY <1>3 DEF Listing
<1> QED BY <1>2, <1>4

LEMMA RestartStep ==
  ASSUME IndInv, Restart, UNCHANGED scene
  PROVE  IndInv'
<1>1. Views'
  BY DEF IndInv, Views, Restart
<1>2. Queues'
  <2>1. \A w \in Workers : {k \in Keys : Kind(k) = w /\ Exists(api, k)} \subseteq KeysOf(w)
    BY DEF KeysOf
  <2> QED BY <2>1, ListingIsQueue DEF Restart, Queues
<1>3. Runs' /\ AttractorsDisjoint'
  BY DEF IndInv, Restart, Runs, Busy, AttractorsDisjoint
<1> QED BY <1>1, <1>2, <1>3 DEF IndInv
-----------------------------------------------------------------------------
(* The workers. *)

(* A worker goes on without a call. *)
LEMMA WorkerMoves ==
  ASSUME IndInv, NEW w \in Workers, NEW run, NEW old,
         work' = [work EXCEPT ![w] = run], stale' = [stale EXCEPT ![w] = old],
         run = Idle \/ Sound(w, run, old, api),
         Queues', UNCHANGED <<api, cache, lag, raced, scene>>
  PROVE  IndInv'
<1>1. Views' /\ AttractorsDisjoint' /\ scene' \in Scenes
  BY DEF IndInv, Views, AttractorsDisjoint
<1>2. work' = [v \in Workers |-> work'[v]] /\ stale' = [v \in Workers |-> stale'[v]]
  BY Zenon DEF IndInv, Runs
<1>3. work'[w] = run /\ stale'[w] = old
  BY DEF IndInv, Runs
<1>4. \A v \in Workers : v # w => work'[v] = work[v] /\ stale'[v] = stale[v]
  BY Zenon DEF IndInv, Runs
<1>5. Runs'
  BY <1>2, <1>3, <1>4 DEF IndInv, Runs, Busy
<1> QED BY <1>1, <1>5 DEF IndInv

LEMMA StartStep ==
  ASSUME IndInv, NEW w \in Workers, Start(w), UNCHANGED scene
  PROVE  IndInv'
<1> DEFINE k == Head(queue[w])
           run == [key |-> k, cr |-> cache[k], trench |-> cache[Trench],
                   todo |-> Reconcile(k, cache[k]), acts |-> << >>]
<1>1. k \in KeysOf(w) /\ Tail(queue[w]) \in Seq(KeysOf(w)) /\ k \in Keys /\ Kind(k) = w
  <2>1. queue[w] \in Seq(KeysOf(w)) /\ queue[w] # << >>
    BY DEF IndInv, Queues, Start
  <2> QED BY <2>1 DEF KeysOf
<1>2. queue' = [queue EXCEPT ![w] = Tail(@)]
  BY DEF Start
<1>3. Queues'
  BY <1>1, <1>2, Zenon DEF IndInv, Queues
<1>4. k \in Objects
  BY <1>1, KeyShape
<1>5. Sound(w, run, lag \cap {k}, api)
  <2>1. /\ run.key = k /\ run.cr = cache[k] /\ run.todo = Reconcile(k, cache[k])
        /\ run.acts = << >> /\ run.trench = cache[Trench]
    OBVIOUS
  <2>2. run = [key |-> run.key, cr |-> run.cr, trench |-> run.trench, todo |-> run.todo,
               acts |-> run.acts]
    OBVIOUS
  <2>3. \A r \in Reconcile(k, cache[k]) :
          r \in Kinds \cup {w} /\ r # "trench" /\ <<r, k[2]>> \in Objects
    BY <1>1, ReconcileObjects
  <2>4. IsVersion(cache[k]) /\ (k \notin lag => api[k] = cache[k])
    BY <1>4 DEF IndInv, Views
  <2>5. IsSeq(<< >>) /\ Len(<< >>) = 0
    BY DEF IsSeq
  <2>6. 1..0 = {}
    OBVIOUS
  <2> HIDE DEF run, k
  <2> QED BY <1>1, <2>1, <2>2, <2>3, <2>4, <2>5, <2>6 DEF Sound
<1>6. /\ work' = IF ~Exists(cache, k) THEN work ELSE [work EXCEPT ![w] = run]
      /\ stale' = IF Exists(cache, k) THEN [stale EXCEPT ![w] = lag \cap {k}] ELSE stale
      /\ UNCHANGED <<api, cache, lag, raced, scene>>
  BY DEF Start
<1> HIDE DEF run, k
<1>7. CASE Exists(cache, k)
  BY <1>3, <1>5, <1>6, <1>7, WorkerMoves, Zenon
<1>8. CASE ~Exists(cache, k)
  BY <1>3, <1>6, <1>8 DEF IndInv, Views, Runs, Busy, AttractorsDisjoint
<1> QED BY <1>7, <1>8

LEMMA BusyIsSound ==
  ASSUME IndInv, NEW w \in Workers, work[w].todo # {} \/ work[w].acts # << >>
  PROVE  Sound(w, work[w], stale[w], api) /\ work[w].key \in Keys
<1>1. Idle.todo = {} /\ Idle.acts = << >>
  BY DEF Idle
<1>2. Busy(w)
  BY <1>1 DEF Busy
<1>3. Sound(w, work[w], stale[w], api)
  BY <1>2 DEF IndInv, Runs
<1> QED BY <1>3 DEF Sound, KeysOf

LEMMA GiveUpStep ==
  ASSUME IndInv, NEW w \in Workers, work[w].todo # {} \/ work[w].acts # << >>, Fail(w),
         stale' = [stale EXCEPT ![w] = {}], UNCHANGED <<api, cache, lag, raced, scene>>
  PROVE  IndInv'
<1>1. Queues'
  <2>1. work[w].key \in Keys
    BY BusyIsSound
  <2>2. queue = [v \in Workers |-> queue[v]] /\ \A v \in Workers : queue[v] \in Seq(KeysOf(v))
    BY DEF IndInv, Queues
  <2>3. queue' = Enqueue(queue, work[w].key)
    BY DEF Fail
  <2>4. /\ Enqueue(queue, work[w].key) = [v \in Workers |-> Enqueue(queue, work[w].key)[v]]
        /\ \A v \in Workers : Enqueue(queue, work[w].key)[v] \in Seq(KeysOf(v))
    BY <2>1, <2>2, EnqueueKeeps, Zenon
  <2> QED BY <2>3, <2>4, Zenon DEF Queues
<1> QED BY <1>1, WorkerMoves, Zenon DEF Fail

(* A reconcile run that goes on to left, with r examined and acts intended. *)
Extends(left, run, r, acts) ==
  /\ left.key = run.key /\ left.cr = run.cr /\ left.todo = run.todo \ {r}
  /\ left.acts = run.acts \o acts
  /\ left = [key |-> left.key, cr |-> left.cr, trench |-> left.trench, todo |-> left.todo,
             acts |-> left.acts]

LEMMA RunExcept ==
  ASSUME NEW run, NEW x, NEW y, NEW left, left = [run EXCEPT !.todo = x, !.acts = y],
         run = [key |-> run.key, cr |-> run.cr, trench |-> run.trench, todo |-> run.todo,
                acts |-> run.acts]
  PROVE  /\ left.key = run.key /\ left.cr = run.cr /\ left.todo = x /\ left.acts = y
         /\ left = [key |-> left.key, cr |-> left.cr, trench |-> left.trench, todo |-> left.todo,
                    acts |-> left.acts]
  BY Zenon

LEMMA AddAct ==
  ASSUME NEW w \in Workers, NEW run, NEW old, NEW view, Sound(w, run, old, view),
         NEW r \in run.todo, NEW m, m = <<r, run.key[2]>>, NEW lags,
         NEW new, new = IF m = run.key THEN old ELSE (old \ {m}) \cup (lags \cap {m}),
         NEW acts, NEW left, Extends(left, run, r, acts),
         \/ acts = << >>
         \/ \E a : acts = <<a>> /\ a.obj = m /\ SoundAct(left, a, new, view)
  PROVE  Sound(w, left, new, view)
<1>1. /\ left.key = run.key /\ left.cr = run.cr /\ left.todo = run.todo \ {r}
      /\ left.acts = run.acts \o acts
      /\ left = [key |-> left.key, cr |-> left.cr, trench |-> left.trench, todo |-> left.todo,
                 acts |-> left.acts]
  BY DEF Extends
<1>2. \A i \in 1..Len(run.acts) :
        run.acts[i].obj # m /\ SoundAct(left, run.acts[i], new, view)
  <2> TAKE i \in 1..Len(run.acts)
  <2>1. SoundAct(run, run.acts[i], old, view)
    BY DEF Sound
  <2>2. run.acts[i].obj # m
    BY <2>1 DEF SoundAct
  <2> QED BY <1>1, <2>1, <2>2 DEF SoundAct
<1>3. run.key \notin new => view[run.key].val = run.cr.val
  BY DEF Sound
<1>4. /\ left.key \in KeysOf(w) /\ IsVersion(left.cr)
      /\ \A q \in left.todo : q \in Kinds \cup {w} /\ q # "trench" /\ <<q, left.key[2]>> \in Objects
      /\ left.key \notin new => view[left.key].val = left.cr.val
  BY <1>1, <1>3 DEF Sound
<1>5. IsSeq(run.acts) /\ \A i, j \in 1..Len(run.acts) : i # j => run.acts[i].obj # run.acts[j].obj
  BY DEF Sound
<1>6. CASE acts = << >>
  <2>1. left.acts = run.acts
    BY <1>1, <1>5, <1>6, AppendNone
  <2>2. /\ IsSeq(left.acts) /\ \A i \in 1..Len(left.acts) : SoundAct(left, left.acts[i], new, view)
        /\ \A i, j \in 1..Len(left.acts) : i # j => left.acts[i].obj # left.acts[j].obj
    BY <1>2, <1>5, <2>1, Zenon
  <2> QED BY <1>1, <1>4, <2>2, Zenon DEF Sound
<1>7. CASE acts # << >>
  <2>1. PICK a : acts = <<a>> /\ a.obj = m /\ SoundAct(left, a, new, view)
    BY <1>7, Zenon
  <2>2. /\ IsSeq(left.acts) /\ Len(run.acts) \in Nat /\ Len(left.acts) = Len(run.acts) + 1
        /\ \A i \in 1..Len(run.acts) : left.acts[i] = run.acts[i]
        /\ left.acts[Len(run.acts) + 1] = a
    <3>1. left.acts = run.acts \o <<a>>
      BY <1>1, <2>1
    <3> DEFINE all == run.acts \o <<a>>
    <3>2. /\ IsSeq(all) /\ Len(run.acts) \in Nat /\ Len(all) = Len(run.acts) + 1
          /\ \A i \in 1..Len(run.acts) : all[i] = run.acts[i]
          /\ all[Len(run.acts) + 1] = a
      BY <1>5, AppendOne, Zenon
    <3>3. left.acts = all
      BY <3>1
    <3> HIDE DEF all
    <3> QED BY <3>2, <3>3
  <2>3. \A i \in 1..Len(left.acts) : i \in 1..Len(run.acts) \/ i = Len(run.acts) + 1
    BY <2>2
  <2>4. \A i \in 1..Len(left.acts) : SoundAct(left, left.acts[i], new, view)
    BY <1>2, <2>1, <2>2, <2>3, Zenon
  <2>5. \A i, j \in 1..Len(left.acts) : i # j => left.acts[i].obj # left.acts[j].obj
    <3> TAKE i, j \in 1..Len(left.acts)
    <3> HAVE i # j
    <3>1. CASE i \in 1..Len(run.acts) /\ j \in 1..Len(run.acts)
      BY <1>5, <2>2, <3>1
    <3>2. CASE i = Len(run.acts) + 1
      <4>1. j \in 1..Len(run.acts)
        BY <2>3, <3>2
      <4> QED BY <1>2, <2>1, <2>2, <3>2, <4>1, Zenon
    <3>3. CASE j = Len(run.acts) + 1
      <4>1. i \in 1..Len(run.acts)
        BY <2>3, <3>3
      <4> QED BY <1>2, <2>1, <2>2, <3>3, <4>1
    <3> QED BY <2>3, <3>1, <3>2, <3>3
  <2> QED BY <1>1, <1>4, <2>2, <2>4, <2>5, Zenon DEF Sound
<1> QED BY <1>6, <1>7, Zenon

LEMMA ExamineStep ==
  ASSUME IndInv, NEW w \in Workers, NEW r \in work[w].todo, Examine(w, r), UNCHANGED scene
  PROVE  IndInv'
<1> DEFINE run == work[w]
           m == <<r, run.key[2]>>
           acts == Actions(m, run)
           left == [run EXCEPT !.todo = @ \ {r}, !.acts = @ \o acts]
           new == IF m = run.key THEN stale[w] ELSE (stale[w] \ {m}) \cup (lag \cap {m})
<1>0. /\ Sound(w, run, stale[w], api) /\ run.key \in Keys /\ Kind(run.key) = w
      /\ run.key = <<w, run.key[2]>>
  BY BusyIsSound, KeyShape DEF Sound, KeysOf
<1>1. UNCHANGED <<api, cache, lag, raced, scene>>
  BY DEF Examine
<1>2. CASE Nowhere(m, run.trench) /\ ~ClusterScoped
  BY <1>1, <1>2, GiveUpStep DEF Examine
<1>3. CASE ~(Nowhere(m, run.trench) /\ ~ClusterScoped)
  <2>0. Extends(left, run, r, acts)
    <3>1. run = [key |-> run.key, cr |-> run.cr, trench |-> run.trench, todo |-> run.todo,
                 acts |-> run.acts]
      BY <1>0 DEF Sound
    <3>2. left = [run EXCEPT !.todo = run.todo \ {r}, !.acts = run.acts \o acts]
      BY Zenon
    <3> HIDE DEF run, acts, left
    <3>3. /\ left.key = run.key /\ left.cr = run.cr /\ left.todo = run.todo \ {r}
          /\ left.acts = run.acts \o acts
          /\ left = [key |-> left.key, cr |-> left.cr, trench |-> left.trench, todo |-> left.todo,
                     acts |-> left.acts]
      BY <3>1, <3>2, RunExcept, Zenon
    <3> QED BY <3>3, Zenon DEF Extends
  <2>1. r \in Kinds \cup {w} /\ m \in Objects
    BY <1>0 DEF Sound
  <2>2. m[1] = r /\ Kind(m) = r /\ m = <<m[1], m[2]>>
    BY DEF Kind
  <2> HIDE DEF run, acts, left, new
  <2>3. \/ acts = << >>
        \/ \E a : acts = <<a>> /\ a.obj = m /\ SoundAct(left, a, new, api)
    <3>1. CASE r \in Kinds
      <4>1. Keeps(m, acts, cache[m])
        BY <2>1, <2>2, <3>1, ManagedActions DEF acts, IndInv, Views
      <4>2. m # run.key
        BY <1>0, <3>1, ManagedShape
      <4>3. m \notin new => cache[m] = api[m]
        BY <2>1, <4>2 DEF new, IndInv, Views
      <4>4. ASSUME NEW a, a.obj = m, IsContent(a.val),
                   \/ a.op = "create"
                   \/ a.op = "update" /\ a.val.kept = cache[m].val.kept
            PROVE  SoundAct(left, a, new, api)
        <5>1. m[1] \in Kinds /\ m[1] \notin left.todo /\ m = <<m[1], m[2]>>
          BY <2>0, <2>2, <3>1 DEF Extends
        <5>2. a.op = "update" /\ m \notin new => a.val.kept = api[m].val.kept
          BY <4>3, <4>4
        <5> HIDE DEF m
        <5> QED BY <2>1, <4>4, <5>1, <5>2 DEF SoundAct
      <4> QED BY <4>1, <4>4, Zenon DEF Keeps
    <3>2. CASE r \notin Kinds
      <4>1. r = w /\ m = run.key /\ r # "trench"
        BY <1>0, <2>1, <3>2 DEF Sound, run
      <4>2. acts = OwnerActions(run)
        BY <2>2, <3>2 DEF acts, Actions, Kinds
      <4> DEFINE a == [op |-> "update", obj |-> run.key, owner |-> run.trench.uid,
                       val |-> run.cr.val]
      <4>3. acts \in {<< >>, <<a>>}
        BY <4>2 DEF OwnerActions
      <4>4. a.op = "update" /\ a.obj = run.key /\ a.val = run.cr.val
        OBVIOUS
      <4> HIDE DEF a
      <4>5. new = stale[w]
        BY <4>1 DEF new
      <4>6. IsContent(run.cr.val) /\ (run.key \notin stale[w] => api[run.key].val = run.cr.val)
        BY <1>0 DEF Sound, IsVersion
      <4>7. SoundAct(left, a, new, api)
        BY <2>0, <2>1, <2>2, <4>1, <4>4, <4>5, <4>6, Zenon DEF SoundAct, Extends
      <4> QED BY <4>1, <4>3, <4>4, <4>7
    <3> QED BY <3>1, <3>2
  <2>4. Sound(w, left, new, api)
    <3>1. r \in run.todo
      BY DEF run
    <3>3. new = IF m = run.key THEN stale[w] ELSE (stale[w] \ {m}) \cup (lag \cap {m})
      BY DEF new
    <3> HIDE DEF m
    <3>4. m = <<r, run.key[2]>>
      BY DEF m
    <3> QED BY <1>0, <2>0, <2>3, <3>1, <3>3, <3>4, AddAct, Zenon
  <2>5. \E next, old :
          /\ work' = [work EXCEPT ![w] = next] /\ stale' = [stale EXCEPT ![w] = old]
          /\ next = Idle \/ (next = left /\ old = new)
    BY <1>3, Zenon DEF Examine, left, new, acts, run
  <2>6. Queues'
    BY <1>3 DEF Examine, IndInv, Queues, run
  <2> QED BY <1>1, <2>4, <2>5, <2>6, WorkerMoves, Zenon
<1> QED BY <1>2, <1>3

LEMMA PerformFailsStep ==
  ASSUME IndInv, NEW w \in Workers, PerformFails(w), UNCHANGED scene
  PROVE  IndInv'
  BY GiveUpStep, Zenon DEF PerformFails

(* The first intended call, and what it would overwrite. *)
LEMMA FirstAct ==
  ASSUME IndInv, NEW w \in Workers, work[w].acts # << >>
  PROVE  LET run == work[w]
             act == Head(run.acts)
         IN  /\ SoundAct(run, act, stale[w], api)
             /\ Sound(w, run, stale[w], api)
             /\ act.obj \in Children => act.obj = run.key /\ act.op = "update" /\ act.val = run.cr.val
             /\ IsSeq(Tail(run.acts)) /\ Len(run.acts) \in Nat /\ Len(Tail(run.acts)) = Len(run.acts) - 1
             /\ \A i \in 1..Len(Tail(run.acts)) :
                  /\ Tail(run.acts)[i] = run.acts[i + 1] /\ i + 1 \in 1..Len(run.acts)
                  /\ Tail(run.acts)[i].obj # act.obj
<1> DEFINE run == work[w]
           act == Head(run.acts)
<1>1. Sound(w, run, stale[w], api)
  BY BusyIsSound
<1> HIDE DEF run
<1>2. IsSeq(run.acts) /\ run.acts # << >>
  BY <1>1 DEF Sound, run
<1>3. /\ IsSeq(Tail(run.acts)) /\ Len(run.acts) \in Nat /\ Len(run.acts) > 0
      /\ Len(Tail(run.acts)) = Len(run.acts) - 1 /\ act = run.acts[1]
      /\ \A i \in 1..Len(Tail(run.acts)) : Tail(run.acts)[i] = run.acts[i + 1]
  BY <1>2, TailOf
<1> HIDE DEF act
<1>4. \A i \in 1..Len(Tail(run.acts)) : i + 1 \in 1..Len(run.acts) /\ i + 1 # 1
  BY <1>3
<1>5. 1 \in 1..Len(run.acts)
  BY <1>3
<1>6. SoundAct(run, act, stale[w], api)
  BY <1>1, <1>3, <1>5 DEF Sound
<1>7. \A i \in 1..Len(Tail(run.acts)) : Tail(run.acts)[i].obj # act.obj
  BY <1>1, <1>3, <1>4, <1>5 DEF Sound
<1>8. act.obj \in Children => act.obj = run.key /\ act.op = "update" /\ act.val = run.cr.val
  <2> HAVE act.obj \in Children
  <2>1. act.obj \in Keys /\ Kind(act.obj) \notin Kinds
    BY KeyShape DEF Keys
  <2> QED BY <1>6, <2>1 DEF SoundAct, Kind
<1>9. /\ SoundAct(run, act, stale[w], api)
      /\ Sound(w, run, stale[w], api)
      /\ act.obj \in Children => act.obj = run.key /\ act.op = "update" /\ act.val = run.cr.val
      /\ IsSeq(Tail(run.acts)) /\ Len(run.acts) \in Nat /\ Len(Tail(run.acts)) = Len(run.acts) - 1
      /\ \A i \in 1..Len(Tail(run.acts)) :
           /\ Tail(run.acts)[i] = run.acts[i + 1] /\ i + 1 \in 1..Len(run.acts)
           /\ Tail(run.acts)[i].obj # act.obj
  BY <1>1, <1>3, <1>4, <1>6, <1>7, <1>8
<1> QED BY <1>9, Zenon DEF run, act

(* A worker's call leaves the specs of custom resources and what others    *)
(* added to resources as they are.                                         *)
LEMMA PerformKeeps ==
  ASSUME IndInv, NEW w \in Workers, Perform(w), NEW o \in Objects, Exists(api', o)
  PROVE  /\ o \in Children => Exists(api, o) /\ api'[o].val = api[o].val
         /\ Exists(api, o) => api'[o].val.kept = api[o].val.kept
<1> DEFINE run == work[w]
           act == Head(run.acts)
           version == [uid |-> IF act.op = "create" THEN 1 ELSE api[act.obj].uid,
                       owner |-> act.owner, val |-> act.val]
<1>1. /\ SoundAct(run, act, stale[w], api)
      /\ Sound(w, run, stale[w], api)
      /\ act.obj \in Children => act.obj = run.key /\ act.op = "update" /\ act.val = run.cr.val
  BY FirstAct DEF Perform
<1>2. IF Takes(act, w) THEN api' = [api EXCEPT ![act.obj] = version] ELSE api' = api
  BY DEF Perform, Write
<1>3. version.val = act.val /\ version.uid = IF act.op = "create" THEN 1 ELSE api[act.obj].uid
  OBVIOUS
<1> HIDE DEF run, act, version
<1>4. CASE ~Takes(act, w) \/ o # act.obj
  <2>1. api'[o] = api[o]
    BY <1>2, <1>4 DEF IndInv, Views
  <2> QED BY <2>1 DEF Exists
<1>5. CASE Takes(act, w) /\ o = act.obj
  <2>1. api'[o] = version
    BY <1>2, <1>5 DEF IndInv, Views
  <2>2. CASE act.op = "create"
    BY <1>1, <1>5, <2>2 DEF Takes
  <2>3. CASE act.op # "create"
    <3>1. act.op = "update" /\ o \notin stale[w]
      BY <1>1, <1>5, <2>3 DEF Takes, SoundAct
    <3>2. Exists(api, o)
      BY <1>3, <1>5, <2>1, <2>3 DEF Exists
    <3>3. api'[o].val.kept = api[o].val.kept
      BY <1>1, <1>3, <1>5, <2>1, <3>1 DEF SoundAct
    <3>4. o \in Children => api'[o].val = api[o].val
      BY <1>1, <1>3, <1>5, <2>1, <3>1 DEF Sound
    <3> QED BY <3>2, <3>3, <3>4
  <2> QED BY <2>2, <2>3
<1> QED BY <1>4, <1>5

(* What is left of a reconcile after its first call. *)
LEMMA RestSound ==
  ASSUME IndInv, NEW w \in Workers, Perform(w), NEW next,
         next = [work[w] EXCEPT !.acts = Tail(work[w].acts)]
  PROVE  Sound(w, next, stale[w], api')
<1> DEFINE run == work[w]
           act == Head(run.acts)
           rest == Tail(run.acts)
<1>1. /\ SoundAct(run, act, stale[w], api)
      /\ Sound(w, run, stale[w], api)
      /\ act.obj \in Children => act.obj = run.key /\ act.op = "update" /\ act.val = run.cr.val
      /\ IsSeq(rest) /\ Len(run.acts) \in Nat /\ Len(rest) = Len(run.acts) - 1
      /\ \A i \in 1..Len(rest) :
           /\ rest[i] = run.acts[i + 1] /\ i + 1 \in 1..Len(run.acts)
           /\ rest[i].obj # act.obj
  BY FirstAct DEF Perform
<1>2. \A o \in Objects : o # act.obj => api'[o] = api[o]
  BY DEF Perform, Write, IndInv, Views
<1>3. next = [run EXCEPT !.acts = rest]
  OBVIOUS
<1>4. act.obj = run.key => api'[run.key].val = api[run.key].val \/ run.key \in stale[w]
  <2> SUFFICES ASSUME act.obj = run.key, run.key \notin stale[w]
               PROVE  api'[run.key].val = api[run.key].val
    OBVIOUS
  <2>1. run.key \in Objects /\ run.key \in Keys /\ Kind(run.key) \notin Kinds
    BY <1>1, KeyShape DEF Sound, KeysOf
  <2>2. act.op = "update" /\ act.val = run.cr.val
    BY <1>1, <2>1 DEF SoundAct, Kind
  <2>3. api[run.key].val = run.cr.val
    BY <1>1 DEF Sound
  <2>4. Takes(act, w)
    BY <2>2 DEF Takes
  <2>5. api' = [api EXCEPT ![act.obj] = [uid |-> api[act.obj].uid, owner |-> act.owner,
                                         val |-> act.val]]
    BY <2>2, <2>4 DEF Perform, Write
  <2>6. api'[run.key] = [uid |-> api[act.obj].uid, owner |-> act.owner, val |-> act.val]
    BY <2>1, <2>5 DEF IndInv, Views
  <2> QED BY <2>2, <2>3, <2>6
<1> HIDE DEF run, act, rest
<1>5. run = [key |-> run.key, cr |-> run.cr, trench |-> run.trench, todo |-> run.todo,
             acts |-> run.acts]
  BY <1>1 DEF Sound
<1>6. /\ next.key = run.key /\ next.cr = run.cr /\ next.todo = run.todo /\ next.acts = rest
      /\ next = [key |-> next.key, cr |-> next.cr, trench |-> next.trench, todo |-> next.todo,
                 acts |-> next.acts]
  BY <1>3, <1>5, Zenon
<1>7. /\ next.key \in KeysOf(w) /\ IsVersion(next.cr)
      /\ \A r \in next.todo : r \in Kinds \cup {w} /\ r # "trench" /\ <<r, next.key[2]>> \in Objects
  BY <1>1, <1>6 DEF Sound
<1>8. next.key \notin stale[w] => api'[next.key].val = next.cr.val
  <2>1. run.key \in Objects
    BY <1>1, KeyShape DEF Sound, KeysOf
  <2> QED BY <1>1, <1>2, <1>4, <1>6, <2>1 DEF Sound
<1>9. \A i \in 1..Len(next.acts) : SoundAct(next, next.acts[i], stale[w], api')
  <2> TAKE i \in 1..Len(next.acts)
  <2>1. next.acts[i] = run.acts[i + 1] /\ i + 1 \in 1..Len(run.acts) /\ next.acts[i].obj # act.obj
    BY <1>1, <1>6
  <2>2. SoundAct(run, next.acts[i], stale[w], api)
    BY <1>1, <2>1 DEF Sound
  <2> QED BY <1>2, <1>6, <2>1, <2>2, Zenon DEF SoundAct
<1>10. \A i, j \in 1..Len(next.acts) : i # j => next.acts[i].obj # next.acts[j].obj
  <2>1. \A i \in 1..Len(next.acts) : next.acts[i] = run.acts[i + 1] /\ i + 1 \in 1..Len(run.acts)
    BY <1>1, <1>6
  <2>2. \A i, j \in 1..Len(next.acts) : i # j => i + 1 # j + 1
    BY <1>1, <1>6
  <2> QED BY <1>1, <2>1, <2>2 DEF Sound
<1>11. IsSeq(next.acts)
  BY <1>1, <1>6, Zenon
<1> QED BY <1>6, <1>7, <1>8, <1>9, <1>10, <1>11, Zenon DEF Sound

LEMMA PerformStep ==
  ASSUME IndInv, NEW w \in Workers, Perform(w), UNCHANGED scene
  PROVE  IndInv'
<1> DEFINE run == work[w]
           act == Head(run.acts)
           version == [uid |-> IF act.op = "create" THEN 1 ELSE api[act.obj].uid,
                       owner |-> act.owner, val |-> act.val]
           next == [run EXCEPT !.acts = Tail(run.acts)]
<1>1. SoundAct(run, act, stale[w], api)
  BY FirstAct DEF Perform
<1>2. act.obj \in Objects /\ IsVersion(version)
  BY <1>1 DEF SoundAct, IsVersion
<1>3. Views'
  <2>1. CASE Takes(act, w)
    <3>1. Write(act.obj, version) /\ UNCHANGED cache
      BY <2>1 DEF Perform
    <3> HIDE DEF version
    <3> QED BY <1>2, <3>1, ViewsWrite DEF IndInv
  <2>2. CASE ~Takes(act, w)
    BY <2>2 DEF Perform, IndInv, Views
  <2> QED BY <2>1, <2>2
<1>4. Queues'
  BY DEF Perform, Done, IndInv, Queues
<1>5. AttractorsDisjoint'
  <2>1. Children \subseteq Objects /\ raced' = raced
    BY KeyShape DEF Keys, Perform
  <2>2. \A a \in Children : Exists(api', a) => Exists(api, a) /\ api'[a].val = api[a].val
    BY <2>1, PerformKeeps
  <2> QED BY <2>1, <2>2, FewerAttractors DEF IndInv
<1>6. work' = [work EXCEPT ![w] = Idle] \/ (work' = [work EXCEPT ![w] = next] /\ stale'[w] = stale[w])
  <2>1. CASE Len(run.acts) = 1
    BY <2>1 DEF Perform, Done
  <2>2. CASE Len(run.acts) # 1
    <3>1. work' = [work EXCEPT ![w].acts = Tail(@)]
      BY <2>2 DEF Perform
    <3>2. work' = [work EXCEPT ![w] = next]
      BY <3>1
    <3>3. stale'[w] = stale[w]
      BY <2>2 DEF Perform, Outdated, IndInv, Runs
    <3> QED BY <3>2, <3>3
  <2> QED BY <2>1, <2>2
<1>7. stale' = [v \in Workers |-> stale'[v]]
  BY DEF Perform, Outdated, IndInv, Runs
<1>8. ASSUME NEW v \in Workers, v # w, Busy(v)
      PROVE  Sound(v, work[v], stale'[v], api')
  <2>0. Sound(v, work[v], stale[v], api) /\ api = [x \in Objects |-> api[x]]
    BY <1>8 DEF IndInv, Runs, Views
  <2>1. CASE Takes(act, w)
    <3>1. api' = [api EXCEPT ![act.obj] = version]
      BY <2>1 DEF Perform, Write
    <3>2. stale'[v] = stale[v] \cup {act.obj}
      BY <1>8, <2>1, Zenon DEF Perform, Outdated
    <3> HIDE DEF version
    <3>3. Sound(v, work[v], stale[v] \cup {act.obj}, [api EXCEPT ![act.obj] = version])
      BY <1>2, <2>0, SoundWrite, Zenon
    <3> QED BY <3>1, <3>2, <3>3, Zenon
  <2>2. CASE ~Takes(act, w)
    <3>1. api' = api /\ stale'[v] = stale[v]
      BY <1>8, <2>2 DEF Perform, IndInv, Runs
    <3> QED BY <2>0, <3>1
  <2> QED BY <2>1, <2>2
<1>9. Sound(w, next, stale[w], api')
  BY RestSound
<1> HIDE DEF next
<1>10. /\ work' = [v \in Workers |-> work'[v]]
       /\ \A v \in Workers \ {w} : work'[v] = work[v]
       /\ work'[w] = Idle \/ (work'[w] = next /\ stale'[w] = stale[w])
  BY <1>6 DEF IndInv, Runs
<1>11. Runs'
  BY <1>7, <1>8, <1>9, <1>10 DEF Runs, Busy
<1> QED BY <1>3, <1>4, <1>5, <1>11 DEF IndInv
-----------------------------------------------------------------------------
LEMMA InitHolds == Init => IndInv
<1> SUFFICES ASSUME Init PROVE IndInv
  OBVIOUS
<1>0. scene \in Scenes /\ scene.present \subseteq Keys /\ Keys \subseteq Objects
  BY ScenesAssumption, KeyShape DEF Init
<1>1. PICK specs \in [scene.present \ {Trench} -> UNION {Specs[c] : c \in Children}] :
        /\ \A c \in DOMAIN specs : specs[c] \in Specs[c]
        /\ api = [o \in Objects |->
                    IF o = Trench /\ Trench \in scene.present
                    THEN [Absent EXCEPT !.uid = 1]
                    ELSE IF o \in DOMAIN specs
                    THEN [uid |-> 1, owner |-> 1, val |-> specs[o]]
                    ELSE Absent]
  BY DEF Init
<1>2. \A c \in DOMAIN specs : IsContent(specs[c])
  BY <1>0, <1>1, SpecsAssumption DEF Keys
<1>3. IsVersion([Absent EXCEPT !.uid = 1])
  BY AbsentIsVersion, BlankIsContent, VersionExcept, Zenon
<1>4. \A o \in Objects : IsVersion(api[o])
  <2> TAKE o \in Objects
  <2>1. CASE o \in DOMAIN specs
    <3>1. IsVersion([uid |-> 1, owner |-> 1, val |-> specs[o]])
      BY <1>2, <2>1 DEF IsVersion
    <3>2. o # Trench
      BY <2>1
    <3> QED BY <1>1, <2>1, <3>1, <3>2
  <2>2. CASE o \notin DOMAIN specs
    BY <1>1, <1>3, <2>2, AbsentIsVersion
  <2> QED BY <2>1, <2>2
<1>5. Views
  BY <1>1, <1>4 DEF Init, Views
<1>6. Queues
  <2>1. \A w \in Workers :
          {k \in scene.present : Kind(k) = w /\ w \in {"trench", "conduit", "attractor"}}
            \subseteq KeysOf(w)
    BY <1>0 DEF KeysOf
  <2> QED BY <1>0, <2>1, ListingIsQueue DEF Init, Queues
<1>7. Runs
  BY DEF Init, Runs, Busy
<1>8. AttractorsDisjoint
  <2>1. \A a \in Listed(api, "attractor") : a \in scene.present /\ Kind(a) = "attractor"
    BY <1>0, <1>1, AbsentIsVersion DEF Listed, Exists, Keys
  <2>2. cache = api /\ \A c \in scene.present : Kind(c) = "attractor" => ValidateAttractor(c, api[c].val)
    BY DEF Init
  <2> QED BY <2>1, <2>2 DEF AttractorsDisjoint, ValidateAttractor
<1> QED BY <1>0, <1>5, <1>6, <1>7, <1>8 DEF IndInv

LEMMA NextStep == IndInv /\ [Next]_vars => IndInv'
<1> SUFFICES ASSUME IndInv, [Next]_vars PROVE IndInv'
  OBVIOUS
<1>0. ObjectsInPlay \subseteq Objects
  BY DEF ObjectsInPlay
<1>1. CASE Next /\ Restart
  BY <1>1, RestartStep DEF Next
<1>2. CASE Next /\ ~Restart /\ (Users \/ \E o \in ObjectsInPlay : CollectGarbage(o))
  BY <1>2, UserStep DEF Next
<1>3. CASE Next /\ \E o \in ObjectsInPlay : Sync(o)
  BY <1>0, <1>3, SyncStep DEF Next
<1>4. CASE Next /\ \E w \in Workers : Worker(w)
  BY <1>4, StartStep, ExamineStep, PerformStep, PerformFailsStep DEF Next, Worker
<1>5. CASE UNCHANGED vars
  BY <1>5, Zenon DEF vars, IndInv, Views, Queues, Runs, Busy, AttractorsDisjoint
<1> QED BY <1>1, <1>2, <1>3, <1>4, <1>5 DEF Next

(* The inductive invariant of the operator. *)
THEOREM InvariantHolds == Spec => []IndInv
  BY InitHolds, NextStep, PTL DEF Spec

(* No two attractors share a VIP or a conduit, whatever users, faults and  *)
(* restarts do, unless the webhook judged one by a stale cache             *)
(* (validateAttractor).                                                    *)
THEOREM AttractorsStayDisjoint == Spec => []AttractorsDisjoint
<1>1. IndInv => AttractorsDisjoint
  BY DEF IndInv
<1> QED BY <1>1, InvariantHolds, PTL

(* No call of a controller undoes what a user or another controller wrote  *)
(* since the object was read (RunActions: the API server refuses an update *)
(* of an old version).                                                     *)
THEOREM EditsAreKept == Spec => NoLostEdit
<1>1. ASSUME IndInv, Next, NEW w \in Workers, work'[w] # work[w], NEW o \in Objects,
             Exists(api, o), Exists(api', o)
      PROVE  /\ o \in Children => api'[o].val = api[o].val
             /\ api'[o].val.kept = api[o].val.kept
  <2>1. CASE Restart \/ \E x \in ObjectsInPlay : Sync(x)
    BY <2>1 DEF Restart, Sync
  <2>2. CASE (Users /\ ~Restart) \/ \E x \in ObjectsInPlay : CollectGarbage(x)
    <3>1. work' = work
      BY <2>2, Zenon DEF Users, CreateTrench, CreateChild, EditTrench, EditChild, Delete, Meddle,
                  CollectGarbage, UserUnchanged
    <3> QED BY <1>1, <3>1
  <2>3. CASE \E v \in Workers : Worker(v)
    <3>1. PICK v \in Workers : Worker(v)
      BY <2>3
    <3>2. CASE Perform(v)
      BY <1>1, <3>2, PerformKeeps
    <3>3. CASE Start(v) \/ (\E r \in work[v].todo : Examine(v, r)) \/ PerformFails(v)
      BY <3>3, Zenon DEF Start, Examine, PerformFails
    <3> QED BY <3>1, <3>2, <3>3 DEF Worker
  <2> QED BY <1>1, <2>1, <2>2, <2>3 DEF Next
<1>2. IndInv /\ [Next]_vars =>
        [\A w \in Workers : work[w].todo = {} /\ work'[w] # work[w] /\ budget' = budget =>
           \A o \in Objects : Exists(api, o) /\ Exists(api', o) =>
             /\ o \in Children => api'[o].val = api[o].val
             /\ api'[o].val.kept = api[o].val.kept]_vars
  BY <1>1
<1> QED BY <1>2, InvariantHolds, PTL DEF Spec, NoLostEdit
=============================================================================
