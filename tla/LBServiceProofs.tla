------------------------ MODULE LBServiceProofs ------------------------
(*****************************************************************************)
(* Proofs about the process of a load balancer, for every set of streams and *)
(* links, every number of watchers and every budget.                         *)
(*****************************************************************************)
EXTENDS LoadBalancing, Sequences, TLAPS

(* The process starts in one of its own initial states, and a step of the  *)
(* load balancer is a step of the process or leaves it alone.              *)
LEMMA ProcessPart ==
  /\ LBInit => Process!Init
  /\ [LBNext]_allVars => [Process!Next]_serviceVars
BY DEF LBInit, LBNext, allVars, TablesOnly, TargetsOnly, AvailabilityOnly, ProcessOnly
-----------------------------------------------------------------------------

(* The state of a goroutine running watchStreams. *)
WatcherShape ==
  [pc : {"none", "watch", "scan", "adding", "delete"}, live : BOOLEAN, inbox : Seq(SUBSET Served),
   todo : SUBSET Served, left : SUBSET Served, cur : SUBSET Served]

(* Types, and what the place of the control goroutine says of the flag and *)
(* of the keys evictStreams deleted.                                       *)
Shapes ==
  /\ Process!TypeOK
  /\ watchers \in [Process!Generations -> WatcherShape]
  /\ evict \in [found : SUBSET Served, gone : SUBSET Served]
  /\ cpc # "evict" => evict.gone = {}
  /\ cpc \in {"evict", "disable", "cancel"} => blocked
  /\ cpc = "start" => ~blocked

(* One watch is live, and only while the flag says so. *)
OneWatcher ==
  /\ \A g \in Process!Generations : watchers[g].live => watcherRunning
  /\ \A g, h \in Process!Generations : watchers[g].live /\ watchers[h].live => g = h

(* A map entry that was not evicted has a LoadBalancer. *)
Counted == \A s \in streams \ evict.gone : instances[s] > 0

(* Without an overlap the goroutine inside updateStreams is the live one,  *)
(* the service is not blocked, the stream it adds is not in the map, and   *)
(* evictStreams iterates a map nobody changes.                             *)
Exclusive ==
  ~overlap =>
    /\ \A g \in Process!Generations : /\ Process!Updating(g) => ~blocked /\ watchers[g].live
                                      /\ watchers[g].pc = "adding" => watchers[g].cur \cap streams = {}
    /\ cpc = "evict" => streams \subseteq evict.found
    /\ blocked /\ cpc # "evict" => streams = {}

(* What the streams of the process keep. *)
StreamsInv == Shapes /\ OneWatcher /\ Counted /\ Exclusive /\ Process!OneLoadBalancerPerStream

(* A handler of l past its look at the flag. *)
Storing(l) == hpc[l] \in {"replace", "store"}
(* l is not a link the properties count on. *)
Settled(l) == l \in raced \/ hpc[l] # "none"

(* What the links keep: a handler that passed the flag before a block, and *)
(* the later of two handlers of a subnet, are known as raced.              *)
LinksInv ==
  /\ hpc \in [Links -> {"none", "created", "replace", "store"}]
  /\ stored \subseteq Links /\ up \subseteq Links /\ raced \subseteq Links
  /\ blocked => \A l \in Links : Storing(l) => l \in raced
  /\ blocked /\ cpc \in {"idle", "cancel"} => \A l \in up : Settled(l)
  /\ \A l \in Links, k \in Links :
       k # l /\ SubnetOf[k] = SubnetOf[l] /\ Storing(l) /\ Storing(k) => l \in raced \/ k \in raced
  /\ \A l \in Links : hpc[l] = "store" /\ l \notin raced =>
       \A k \in Process!SameSubnet(l) \intersect up : Settled(k)
  /\ Process!OneLinkPerSubnet

(* Steps of the frontend side touch neither. *)
LEMMA LinksUnchanged ==
  ASSUME LinksInv, UNCHANGED <<hpc, stored, up, raced, blocked, cpc>>
  PROVE  LinksInv'
BY DEF LinksInv, Storing, Settled, Process!OneLinkPerSubnet, Process!SameSubnet

(* A block marks the handlers that passed the flag. *)
LEMMA DispatchLinks ==
  ASSUME LinksInv, Process!Dispatch
  PROVE  LinksInv'
<1> USE DEF LinksInv, Storing, Settled, Process!OneLinkPerSubnet, Process!SameSubnet
<1>1. UNCHANGED <<hpc, stored, up>> /\ blocked' = ~feAnnounced
      /\ cpc' = IF feAnnounced THEN "start" ELSE "evict"
  BY DEF Process!Dispatch
<1>2. raced' = raced \union {l \in Links : blocked' /\ hpc[l] \in {"replace", "store"}}
  BY DEF Process!Dispatch
<1>3. cpc' \notin {"idle", "cancel"}
  BY <1>1
<1>4. raced \subseteq raced' /\ raced' \subseteq Links
  BY <1>2
<1>5. blocked' => \A l \in Links : Storing(l) => l \in raced'
  BY <1>2
<1> HIDE DEF Process!SameSubnet
<1> QED
  BY <1>1, <1>3, <1>4, <1>5 DEF Process!SameSubnet

(* disableInterfaces sets down every link the service knows. *)
LEMMA DisableLinks ==
  ASSUME LinksInv, Process!DisableInterfaces
  PROVE  LinksInv'
BY DEF LinksInv, Storing, Settled, Process!OneLinkPerSubnet, Process!SameSubnet,
   Process!DisableInterfaces, Process!ctlVars

(* The other steps of the control goroutine leave the links alone. *)
LEMMA ControlLinks ==
  ASSUME LinksInv, Shapes,
         Process!StartStreamWatcher \/ Process!ForgetStreams \/ Process!CancelStreamWatcher
  PROVE  LinksInv'
BY DEF LinksInv, Storing, Settled, Process!OneLinkPerSubnet, Process!SameSubnet,
   Process!StartStreamWatcher, Process!ForgetStreams, Process!CancelStreamWatcher,
   Process!linkVars, Shapes

(* A request puts a handler on its way. *)
LEMMA RequestedLinks ==
  ASSUME LinksInv, NEW l \in Links, Process!Requested(l)
  PROVE  LinksInv'
BY DEF LinksInv, Storing, Settled, Process!OneLinkPerSubnet, Process!SameSubnet,
   Process!Requested, Process!ctlVars

(* InterfaceCreated looks at the flag. *)
LEMMA CheckBlockedLinks ==
  ASSUME LinksInv, NEW l \in Links, Process!CheckBlocked(l)
  PROVE  LinksInv'
<1>1. CASE blocked
  BY <1>1 DEF LinksInv, Storing, Settled, Process!OneLinkPerSubnet, Process!SameSubnet,
     Process!CheckBlocked, Process!ctlVars
<1>2. CASE ~blocked
  BY <1>2 DEF LinksInv, Storing, Settled, Process!OneLinkPerSubnet, Process!SameSubnet,
     Process!CheckBlocked, Process!ctlVars
<1> QED
  BY <1>1, <1>2

(* The older links of the subnet go before the new one is stored. *)
LEMMA ReplaceOlderLinks ==
  ASSUME LinksInv, NEW l \in Links, Process!ReplaceOlder(l)
  PROVE  LinksInv'
BY DEF LinksInv, Storing, Settled, Process!OneLinkPerSubnet, Process!SameSubnet,
   Process!ReplaceOlder, Process!ctlVars

(* The handler ends: nothing else of the subnet is up. *)
LEMMA StoreInterfaceLinks ==
  ASSUME LinksInv, NEW l \in Links, Process!StoreInterface(l)
  PROVE  LinksInv'
BY DEF LinksInv, Storing, Settled, Process!OneLinkPerSubnet, Process!SameSubnet,
   Process!StoreInterface, Process!ctlVars

(* A link that goes takes its history with it. *)
LEMMA InterfaceDeletedLinks ==
  ASSUME LinksInv, NEW l \in Links, Process!InterfaceDeleted(l)
  PROVE  LinksInv'
BY DEF LinksInv, Storing, Settled, Process!OneLinkPerSubnet, Process!SameSubnet,
   Process!InterfaceDeleted, Process!ctlVars

(* After a crash the process knows none of the links that are up. *)
LEMMA CrashLinks ==
  ASSUME LinksInv, Process!Crash
  PROVE  LinksInv'
BY DEF LinksInv, Storing, Settled, Process!OneLinkPerSubnet, Process!SameSubnet, Process!Crash

(* A record of the shape, field by field. *)
LEMMA WatcherMade ==
  ASSUME NEW p \in {"none", "watch", "scan", "adding", "delete"}, NEW live \in BOOLEAN,
         NEW inbox \in Seq(SUBSET Served), NEW todo \in SUBSET Served,
         NEW left \in SUBSET Served, NEW cur \in SUBSET Served
  PROVE  [pc |-> p, live |-> live, inbox |-> inbox, todo |-> todo, left |-> left, cur |-> cur]
            \in WatcherShape
BY Zenon DEF WatcherShape

(* live is a Boolean. *)
LEMMA WatcherLive ==
  ASSUME NEW w \in WatcherShape PROVE w.live \in BOOLEAN
BY Zenon DEF WatcherShape

(* A cancelled goroutine. *)
LEMMA WatcherStopped ==
  ASSUME NEW old \in WatcherShape, NEW w, w = [old EXCEPT !.live = FALSE]
  PROVE  w \in WatcherShape /\ ~w.live /\ w.pc = old.pc /\ w.cur = old.cur
<1>1. w \in WatcherShape
  BY Zenon DEF WatcherShape
<1> QED
  BY <1>1 DEF WatcherShape

(* EndUpdate. *)
LEMMA WatcherEnds ==
  ASSUME NEW old \in WatcherShape, NEW w,
         w = [old EXCEPT !.pc = "watch"]
  PROVE  w \in WatcherShape /\ (w.live <=> old.live) /\ w.pc = "watch"
<1>1. /\ old.inbox \in Seq(SUBSET Served) /\ old.todo \in SUBSET Served
      /\ old.left \in SUBSET Served /\ old.cur \in SUBSET Served
  BY DEF WatcherShape
<1>3. w = [pc |-> "watch", live |-> old.live, inbox |-> old.inbox,
           todo |-> old.todo, left |-> old.left, cur |-> old.cur]
  BY DEF WatcherShape
<1>4. old.live \in BOOLEAN
  BY WatcherLive
<1>5. w \in WatcherShape
  BY <1>1, <1>3, <1>4, Zenon DEF WatcherShape
<1> QED
  BY <1>3, <1>5

(* retry.Do watches again. *)
LEMMA WatcherReopens ==
  ASSUME NEW old \in WatcherShape, NEW c \in SUBSET Served, NEW w,
         w = [old EXCEPT !.inbox = <<c>>]
  PROVE  w \in WatcherShape /\ (w.live <=> old.live) /\ w.pc = old.pc
<1>1. /\ old.inbox \in Seq(SUBSET Served) /\ old.todo \in SUBSET Served
      /\ old.left \in SUBSET Served /\ old.cur \in SUBSET Served
  BY DEF WatcherShape
<1>2. <<c>> \in Seq(SUBSET Served) /\ old.pc \in {"none", "watch", "scan", "adding", "delete"}
  BY DEF WatcherShape
<1>3. w = [pc |-> old.pc, live |-> old.live, inbox |-> <<c>>,
           todo |-> old.todo, left |-> old.left, cur |-> old.cur]
  BY DEF WatcherShape
<1>4. old.live \in BOOLEAN
  BY WatcherLive
<1>5. w \in WatcherShape
  BY <1>1, <1>2, <1>3, <1>4, Zenon DEF WatcherShape
<1> QED
  BY <1>3, <1>5

(* BeginUpdate, with the keys m of the map. *)
Begun(old, m) ==
  [old EXCEPT !.pc = "scan", !.inbox = Tail(@),
                        !.todo = Head(old.inbox), !.left = m]

(* updateStreams starts from a list of streams. *)
LEMMA WatcherBegins ==
  ASSUME NEW old \in WatcherShape, old.inbox # <<>>, NEW m \in SUBSET Served, NEW w,
         w = Begun(old, m)
  PROVE  w \in WatcherShape /\ (w.live <=> old.live) /\ w.pc = "scan"
<1>1. /\ old.inbox \in Seq(SUBSET Served) /\ old.todo \in SUBSET Served
      /\ old.left \in SUBSET Served /\ old.cur \in SUBSET Served
  BY DEF WatcherShape
<1>2. Tail(old.inbox) \in Seq(SUBSET Served) /\ Head(old.inbox) \in SUBSET Served
  BY <1>1
<1>3. w = [pc |-> "scan", live |-> old.live, inbox |-> Tail(old.inbox),
           todo |-> Head(old.inbox), left |-> m, cur |-> old.cur]
  BY Zenon DEF WatcherShape, Begun
<1>4. old.live \in BOOLEAN
  BY WatcherLive
<1>5. [pc |-> "scan", live |-> old.live, inbox |-> Tail(old.inbox),
           todo |-> Head(old.inbox), left |-> m, cur |-> old.cur]
         \in WatcherShape
  BY <1>1, <1>2, <1>4, WatcherMade, Zenon
<1>6. w \in WatcherShape
  BY <1>3, <1>5, Zenon
<1> QED
  BY <1>3, <1>6

(* ScanStream, with the keys m of the map. *)
Scanned(old, s, m) ==
  [old EXCEPT !.todo = @ \ {s},
                        !.pc = IF s \in m THEN "scan" ELSE "adding",
                        !.left = IF s \in m THEN @ \ {s} ELSE @,
                        !.cur = IF s \in m THEN {} ELSE {s}]

(* A stream that is to be added is not in the map. *)
LEMMA WatcherScans ==
  ASSUME NEW old \in WatcherShape, NEW s \in Served, NEW m \in SUBSET Served, NEW w,
         w = Scanned(old, s, m)
  PROVE  /\ w \in WatcherShape /\ (w.live <=> old.live)
         /\ w.pc \in {"scan", "adding"} /\ w.cur \cap m = {}
<1>1. /\ old.inbox \in Seq(SUBSET Served) /\ old.todo \in SUBSET Served
      /\ old.left \in SUBSET Served /\ old.cur \in SUBSET Served
  BY DEF WatcherShape
<1>2. /\ (IF s \in m THEN "scan" ELSE "adding") \in {"scan", "adding"}
      /\ old.todo \ {s} \in SUBSET Served
      /\ (IF s \in m THEN old.left \ {s} ELSE old.left) \in SUBSET Served
      /\ (IF s \in m THEN {} ELSE {s}) \in SUBSET Served
  BY <1>1
<1>3. w = [pc |-> IF s \in m THEN "scan" ELSE "adding", live |-> old.live, inbox |-> old.inbox,
           todo |-> old.todo \ {s}, left |-> IF s \in m THEN old.left \ {s} ELSE old.left,
           cur |-> IF s \in m THEN {} ELSE {s}]
  BY Zenon DEF WatcherShape, Scanned
<1>4. old.live \in BOOLEAN
  BY WatcherLive
<1>5. [pc |-> IF s \in m THEN "scan" ELSE "adding", live |-> old.live, inbox |-> old.inbox,
           todo |-> old.todo \ {s}, left |-> IF s \in m THEN old.left \ {s} ELSE old.left,
           cur |-> IF s \in m THEN {} ELSE {s}]
         \in WatcherShape
  BY <1>1, <1>2, <1>4, WatcherMade, Zenon
<1>6. w \in WatcherShape
  BY <1>3, <1>5, Zenon
<1> QED
  BY <1>3, <1>6

(* addStream is done. *)
LEMMA WatcherAdds ==
  ASSUME NEW old \in WatcherShape, NEW w,
         w = [old EXCEPT !.pc = "scan", !.cur = {}]
  PROVE  w \in WatcherShape /\ (w.live <=> old.live) /\ w.pc = "scan"
<1>1. /\ old.inbox \in Seq(SUBSET Served) /\ old.todo \in SUBSET Served
      /\ old.left \in SUBSET Served /\ old.cur \in SUBSET Served
  BY DEF WatcherShape
<1>2. {} \in SUBSET Served
  BY <1>1
<1>3. w = [pc |-> "scan", live |-> old.live, inbox |-> old.inbox,
           todo |-> old.todo, left |-> old.left, cur |-> {}]
  BY Zenon DEF WatcherShape
<1>4. old.live \in BOOLEAN
  BY WatcherLive
<1>5. w \in WatcherShape
  BY <1>1, <1>2, <1>3, <1>4, Zenon DEF WatcherShape
<1> QED
  BY <1>3, <1>5

(* DeleteStream. *)
Trimmed(old, s) ==
  [old EXCEPT !.pc = "delete", !.left = @ \ {s}]

(* A stream the list no longer has is crossed off. *)
LEMMA WatcherDeletes ==
  ASSUME NEW old \in WatcherShape, NEW s \in Served, NEW w,
         w = Trimmed(old, s)
  PROVE  w \in WatcherShape /\ (w.live <=> old.live) /\ w.pc = "delete"
<1>1. /\ old.inbox \in Seq(SUBSET Served) /\ old.todo \in SUBSET Served
      /\ old.left \in SUBSET Served /\ old.cur \in SUBSET Served
  BY DEF WatcherShape
<1>2. old.left \ {s} \in SUBSET Served
  BY <1>1
<1>3. w = [pc |-> "delete", live |-> old.live, inbox |-> old.inbox,
           todo |-> old.todo, left |-> old.left \ {s}, cur |-> old.cur]
  BY Zenon DEF WatcherShape, Trimmed
<1>4. old.live \in BOOLEAN
  BY WatcherLive
<1>5. [pc |-> "delete", live |-> old.live, inbox |-> old.inbox,
           todo |-> old.todo, left |-> old.left \ {s}, cur |-> old.cur]
         \in WatcherShape
  BY <1>1, <1>2, <1>4, WatcherMade, Zenon
<1>6. w \in WatcherShape
  BY <1>3, <1>5, Zenon
<1> QED
  BY <1>3, <1>6

(* A new list arrives. *)
LEMMA WatcherInformed ==
  ASSUME NEW old \in WatcherShape, NEW c \in SUBSET Served, NEW w,
         w = [old EXCEPT !.inbox = Append(@, c)]
  PROVE  w \in WatcherShape /\ (w.live <=> old.live) /\ w.pc = old.pc /\ w.cur = old.cur
<1>1. old.inbox \in Seq(SUBSET Served)
  BY DEF WatcherShape
<1>2. Append(old.inbox, c) \in Seq(SUBSET Served)
  BY <1>1
<1>3. w = [old EXCEPT !.inbox = Append(old.inbox, c)]
  OBVIOUS
<1>4. w \in WatcherShape
  BY <1>2, <1>3, Zenon DEF WatcherShape
<1> QED
  BY <1>4, Zenon DEF WatcherShape

(* Steps that touch neither the streams nor the control goroutine. *)
LEMMA StreamsUnchanged ==
  ASSUME StreamsInv, Process!TypeOK', UNCHANGED <<streams, instances, watchers, blocked, cpc,
                                                  evict, watcherRunning, overlap>>
  PROVE  StreamsInv'
BY DEF StreamsInv, Shapes, Process!TypeOK, OneWatcher, Counted, Exclusive,
   Process!OneLoadBalancerPerStream, Process!Updating

(* A block finds no updateStreams running, or is an overlap. *)
LEMMA DispatchStreams ==
  ASSUME StreamsInv, LinksInv', Process!Dispatch
  PROVE  StreamsInv'
<1>1. /\ UNCHANGED <<streams, instances, watchers, watcherRunning, configured, skipped>>
      /\ evict' = [found |-> streams, gone |-> {}]
      /\ cpc = "idle" /\ rpc' = "endpoint"
      /\ blocked' = ~feAnnounced
      /\ cpc' = IF feAnnounced THEN "start" ELSE "evict"
  BY DEF Process!Dispatch, Process!strmVars
<1>2. overlap' = (overlap \/ (blocked' /\ \E g \in Process!Generations : Process!Updating(g)))
  BY DEF Process!Dispatch
<1>3. /\ cpc' = "start" => ~blocked'
      /\ cpc' = "evict" => blocked'
      /\ cpc' \in {"start", "evict"}
  BY <1>1, Zenon
<1>4. ~overlap' => ~overlap /\ (blocked' => \A g \in Process!Generations : ~Process!Updating(g))
  BY <1>2, Zenon
<1>5. Process!TypeOK'
  BY <1>1, <1>3 DEF StreamsInv, Shapes, Process!TypeOK, LinksInv
<1>6. Shapes'
  BY <1>1, <1>3, <1>5 DEF StreamsInv, Shapes, Process!TypeOK
<1>7. evict.gone = {}
  BY <1>1 DEF StreamsInv, Shapes
<1>8. Counted' /\ OneWatcher' /\ Process!OneLoadBalancerPerStream'
  BY <1>1, <1>4, <1>7 DEF StreamsInv, Counted, OneWatcher, Process!OneLoadBalancerPerStream
<1>9. Exclusive'
  BY <1>1, <1>3, <1>4 DEF StreamsInv, Exclusive, Process!Updating
<1> QED
  BY <1>6, <1>8, <1>9 DEF StreamsInv

(* A new watcher starts when none is live. *)
LEMMA StartStreams ==
  ASSUME StreamsInv, Process!StartStreamWatcher
  PROVE  StreamsInv'
<1>1. /\ UNCHANGED <<streams, instances, blocked, evict, configured, skipped, overlap, rpc,
                     hpc, stored, up, raced>>
      /\ cpc = "start" /\ cpc' = "idle"
  BY DEF Process!StartStreamWatcher, Process!feVars, Process!linkVars
<1>2. CASE watcherRunning
  <2>1. UNCHANGED <<watcherRunning, watchers>>
    BY <1>2 DEF Process!StartStreamWatcher
  <2> QED
    BY <1>1, <2>1 DEF StreamsInv, Shapes, Process!TypeOK, OneWatcher, Counted, Exclusive,
       Process!OneLoadBalancerPerStream, Process!Updating
<1>3. CASE ~watcherRunning
  <2>1. PICK g \in Process!Generations :
          watchers' = [watchers EXCEPT ![g] =
            [Process!NoWatcher EXCEPT !.pc = "watch", !.live = TRUE, !.inbox = <<configured>>]]
    BY <1>3 DEF Process!StartStreamWatcher
  <2>2. PICK w : w = [Process!NoWatcher EXCEPT !.pc = "watch", !.live = TRUE, !.inbox = <<configured>>]
    OBVIOUS
  <2>3. w \in WatcherShape /\ w.pc = "watch" /\ w.live
    <3>1. configured \in SUBSET Served
      BY DEF StreamsInv, Shapes, Process!TypeOK
    <3>2. <<configured>> \in Seq(SUBSET Served)
      BY <3>1
    <3> QED
      BY <2>2, <3>2, Zenon DEF Process!NoWatcher, WatcherShape
  <2>4. watchers' = [watchers EXCEPT ![g] = w]
    BY <2>1, <2>2
  <2>5. watcherRunning'
    BY <1>3 DEF Process!StartStreamWatcher
  <2> QED
    BY <1>1, <1>3, <2>3, <2>4, <2>5 DEF StreamsInv, Shapes, Process!TypeOK, OneWatcher, Counted,
       Exclusive, Process!OneLoadBalancerPerStream, Process!Updating
<1> QED
  BY <1>2, <1>3

(* evictStreams deletes a LoadBalancer that exists. *)
LEMMA EvictKeeps ==
  ASSUME StreamsInv, NEW s \in Served, Process!EvictStream(s)
  PROVE  StreamsInv'
<1>1. instances[s] > 0 /\ instances[s] - 1 \in Nat
  BY DEF StreamsInv, Counted, Process!EvictStream, Shapes, Process!TypeOK
<1> QED
  BY <1>1 DEF StreamsInv, Shapes, Process!TypeOK, OneWatcher, Counted, Exclusive,
     Process!OneLoadBalancerPerStream, Process!Updating, Process!EvictStream, Process!feVars,
     Process!linkVars

(* The map it replaces holds only evicted streams. *)
LEMMA ForgetKeeps ==
  ASSUME StreamsInv, Process!ForgetStreams
  PROVE  StreamsInv'
BY DEF StreamsInv, Shapes, Process!TypeOK, OneWatcher, Counted, Exclusive,
   Process!OneLoadBalancerPerStream, Process!Updating, Process!ForgetStreams, Process!feVars,
   Process!linkVars

(* disableInterfaces touches no stream. *)
LEMMA DisableStreams ==
  ASSUME StreamsInv, Process!DisableInterfaces
  PROVE  StreamsInv'
BY DEF StreamsInv, Shapes, Process!TypeOK, OneWatcher, Counted, Exclusive,
   Process!OneLoadBalancerPerStream, Process!Updating, Process!DisableInterfaces,
   Process!feVars, Process!strmVars

(* The live watcher is cancelled. *)
LEMMA CancelStreams ==
  ASSUME StreamsInv, Process!CancelStreamWatcher
  PROVE  StreamsInv'
<1>1. watchers' = [g \in Process!Generations |-> [watchers[g] EXCEPT !.live = FALSE]]
  BY DEF Process!CancelStreamWatcher
<1>2. \A g \in Process!Generations : /\ watchers'[g] \in WatcherShape
                                     /\ watchers'[g].pc = watchers[g].pc /\ watchers'[g].cur = watchers[g].cur
                                     /\ ~watchers'[g].live
  BY <1>1, WatcherStopped DEF StreamsInv, Shapes
<1>3. watchers' \in [Process!Generations -> WatcherShape]
  BY <1>1, <1>2
<1> QED
  BY <1>2, <1>3 DEF StreamsInv, Shapes, Process!TypeOK, OneWatcher, Counted, Exclusive,
     Process!OneLoadBalancerPerStream, Process!Updating, Process!CancelStreamWatcher,
     Process!feVars, Process!linkVars

(* The configuration changes. *)
LEMMA EditedStreams ==
  ASSUME StreamsInv, Process!StreamsEdited
  PROVE  StreamsInv'
<1>1. watchers' = [g \in Process!Generations |->
          IF watchers[g].live THEN [watchers[g] EXCEPT !.inbox = Append(@, configured')] ELSE watchers[g]]
  BY DEF Process!StreamsEdited
<1>2. configured' \in SUBSET Served
  BY DEF Process!StreamsEdited, StreamsInv, Shapes, Process!TypeOK
<1>3. \A g \in Process!Generations : /\ watchers'[g] \in WatcherShape
                                     /\ watchers'[g].pc = watchers[g].pc /\ watchers'[g].cur = watchers[g].cur
                                     /\ (watchers'[g].live <=> watchers[g].live)
  <2> TAKE g \in Process!Generations
  <2>1. watchers[g] \in WatcherShape
    BY DEF StreamsInv, Shapes
  <2>2. CASE watchers[g].live
    <3>1. watchers'[g] = [watchers[g] EXCEPT !.inbox = Append(@, configured')]
      BY <1>1, <2>2
    <3>2. watchers'[g] \in WatcherShape
      BY <1>2, <2>1, <3>1, WatcherInformed, Zenon
    <3> QED
      BY <2>1, <3>1, <3>2, Zenon DEF WatcherShape
  <2>3. CASE ~watchers[g].live
    BY <1>1, <2>1, <2>3
  <2> QED
    BY <2>2, <2>3
<1>4. watchers' \in [Process!Generations -> WatcherShape]
  BY <1>1, <1>3
<1>5. UNCHANGED <<streams, instances, skipped, blocked, cpc, evict, watcherRunning, overlap,
                  rpc, hpc, stored, up, raced>>
  BY DEF Process!StreamsEdited, Process!feVars, Process!ctlVars, Process!linkVars
<1> QED
  BY <1>2, <1>3, <1>4, <1>5 DEF StreamsInv, Shapes, Process!TypeOK, OneWatcher, Counted,
     Exclusive, Process!OneLoadBalancerPerStream, Process!Updating

(* A goroutine that is not there. *)
LEMMA NoWatcherShape ==
  Process!NoWatcher \in WatcherShape /\ Process!NoWatcher.pc = "none" /\ ~Process!NoWatcher.live
BY DEF Process!NoWatcher, WatcherShape

(* A new process has no stream. *)
LEMMA CrashStreams ==
  ASSUME StreamsInv, LinksInv', Process!Crash
  PROVE  StreamsInv'
<1>1. Process!NoWatcher \in WatcherShape
  BY DEF Process!NoWatcher, WatcherShape
<1>2. \A g \in Process!Generations : watchers'[g].pc = "none" /\ ~watchers'[g].live
  BY DEF Process!Crash, Process!NoWatcher
<1> QED
  BY <1>1, <1>2 DEF StreamsInv, Shapes, Process!TypeOK, OneWatcher, Counted, Exclusive,
     Process!OneLoadBalancerPerStream, Process!Updating, Process!Crash, LinksInv

(* A goroutine in this state cannot meet another one, nor a blocked        *)
(* service, in the map.                                                    *)
Harmless(w) ==
  \/ w.pc \in {"none", "watch"}
  \/ ~blocked /\ w.live /\ (w.pc = "adding" => w.cur \cap streams = {})

(* One goroutine moves and leaves the map alone. *)
LEMMA WatcherMoves ==
  ASSUME StreamsInv, NEW g \in Process!Generations, NEW w \in WatcherShape,
         watchers' = [watchers EXCEPT ![g] = w],
         w.live => watchers[g].live,
         ~overlap' => ~overlap /\ Harmless(w),
         UNCHANGED <<configured, streams, instances, skipped, blocked, cpc, evict, watcherRunning,
                     rpc, hpc, stored, up, raced>>
  PROVE  StreamsInv'
<1>1. watchers'[g] = w /\ \A h \in Process!Generations \ {g} : watchers'[h] = watchers[h]
  BY DEF StreamsInv, Shapes
<1>2. Shapes'
  BY DEF StreamsInv, Shapes, Process!TypeOK
<1>3. OneWatcher'
  BY <1>1 DEF StreamsInv, OneWatcher
<1>4. Counted' /\ Process!OneLoadBalancerPerStream'
  BY DEF StreamsInv, Counted, Process!OneLoadBalancerPerStream
<1>5. Exclusive'
  BY <1>1 DEF StreamsInv, Exclusive, Process!Updating, Harmless
<1> QED
  BY <1>2, <1>3, <1>4, <1>5 DEF StreamsInv

(* A watch breaks or ends. *)
LEMMA WatchEndsStreams ==
  ASSUME StreamsInv, NEW g \in Process!Generations, Process!StreamWatchEnds(g)
  PROVE  StreamsInv'
<1>1. PICK w \in WatcherShape :
        /\ watchers' = [watchers EXCEPT ![g] = w]
        /\ w.live => watchers[g].live
        /\ w.pc \in {"none", "watch"}
  <2>1. CASE watchers[g].live
    <3>1. watchers' = [watchers EXCEPT ![g] = [watchers[g] EXCEPT !.inbox = <<configured>>]]
      BY <2>1 DEF Process!StreamWatchEnds
    <3>2. configured \in SUBSET Served
      BY DEF StreamsInv, Shapes, Process!TypeOK
    <3>3. <<configured>> \in Seq(SUBSET Served)
      BY <3>2
    <3>4. PICK w : w = [watchers[g] EXCEPT !.inbox = <<configured>>]
      BY Zenon
    <3>5. watchers[g] \in WatcherShape /\ watchers[g].pc = "watch"
      BY DEF StreamsInv, Shapes, Process!StreamWatchEnds
    <3>6. w \in WatcherShape
      BY <3>3, <3>4, <3>5, Zenon DEF WatcherShape
    <3>7. w.pc = "watch"
      BY <3>4, <3>5 DEF WatcherShape
    <3>8. watchers' = [watchers EXCEPT ![g] = w]
      BY <3>1, <3>4
    <3> QED
      BY <2>1, <3>6, <3>7, <3>8, Zenon
  <2>2. CASE ~watchers[g].live
    <3>1. watchers' = [watchers EXCEPT ![g] = Process!NoWatcher]
      BY <2>2 DEF Process!StreamWatchEnds
    <3> QED
      BY <3>1, NoWatcherShape, Zenon
  <2> QED
    BY <2>1, <2>2
<1>2. UNCHANGED <<configured, streams, instances, skipped, blocked, cpc, evict, watcherRunning,
                  overlap, rpc, hpc, stored, up, raced>>
  BY DEF Process!StreamWatchEnds, Process!feVars, Process!ctlVars, Process!linkVars
<1> QED
  BY <1>1, <1>2, WatcherMoves, Zenon DEF Harmless

(* An update that begins after a block or a cancellation is an overlap. *)
LEMMA BeginStreams ==
  ASSUME StreamsInv, NEW g \in Process!Generations, Process!BeginUpdate(g)
  PROVE  StreamsInv'
<1>1. PICK w \in WatcherShape :
        /\ watchers' = [watchers EXCEPT ![g] = w]
        /\ (w.live <=> watchers[g].live)
        /\ w.pc = "scan"
  <2>1. PICK w : w = Begun(watchers[g], streams)
    OBVIOUS
  <2>2. watchers' = [watchers EXCEPT ![g] = w]
    BY <2>1, Zenon DEF Begun, Process!BeginUpdate, StreamsInv, Shapes
  <2>3. watchers[g] \in WatcherShape /\ watchers[g].inbox # <<>> /\ streams \in SUBSET Served
    BY DEF Process!BeginUpdate, StreamsInv, Shapes, Process!TypeOK
  <2>4. w \in WatcherShape /\ (w.live <=> watchers[g].live) /\ w.pc = "scan"
    BY <2>1, <2>3, WatcherBegins
  <2> QED
    BY <2>2, <2>4, Zenon
<1>2. UNCHANGED <<configured, streams, instances, skipped, blocked, cpc, evict, watcherRunning,
                  rpc, hpc, stored, up, raced>>
  BY DEF Process!BeginUpdate, Process!feVars, Process!ctlVars, Process!linkVars
<1>3. ~overlap' => ~overlap /\ ~blocked /\ watchers[g].live
  BY Zenon DEF Process!BeginUpdate
<1> QED
  BY <1>1, <1>2, <1>3, WatcherMoves, Zenon DEF Harmless

(* The scan of one stream. *)
LEMMA ScanStreams ==
  ASSUME StreamsInv, NEW g \in Process!Generations, NEW s \in Served, Process!ScanStream(g, s)
  PROVE  StreamsInv'
<1>1. PICK w \in WatcherShape :
        /\ watchers' = [watchers EXCEPT ![g] = w]
        /\ (w.live <=> watchers[g].live)
        /\ w.pc \in {"scan", "adding"}
        /\ w.pc = "adding" => w.cur \cap streams = {}
  <2>1. PICK w : w = Scanned(watchers[g], s, streams)
    OBVIOUS
  <2>2. watchers' = [watchers EXCEPT ![g] = w]
    BY <2>1, Zenon DEF Scanned, Process!ScanStream, StreamsInv, Shapes
  <2>3. watchers[g] \in WatcherShape /\ streams \in SUBSET Served
    BY DEF Process!ScanStream, StreamsInv, Shapes, Process!TypeOK
  <2>4. w \in WatcherShape /\ (w.live <=> watchers[g].live) /\ w.pc \in {"scan", "adding"}
        /\ w.cur \cap streams = {}
    BY <2>1, <2>3, WatcherScans
  <2> QED
    BY <2>2, <2>4, Zenon
<1>2. UNCHANGED <<configured, streams, instances, skipped, blocked, cpc, evict, watcherRunning,
                  overlap, rpc, hpc, stored, up, raced>>
  BY DEF Process!ScanStream, Process!feVars, Process!ctlVars, Process!linkVars
<1>3. ~overlap => ~blocked /\ watchers[g].live
  BY DEF Process!ScanStream, Process!Updating, StreamsInv, Exclusive
<1> QED
  BY <1>1, <1>2, <1>3, WatcherMoves, Zenon DEF Harmless

(* updateStreams returns. *)
LEMMA EndStreams ==
  ASSUME StreamsInv, NEW g \in Process!Generations, Process!EndUpdate(g)
  PROVE  StreamsInv'
<1>1. PICK w \in WatcherShape :
        /\ watchers' = [watchers EXCEPT ![g] = w]
        /\ (w.live <=> watchers[g].live)
        /\ w.pc = "watch"
  <2>1. PICK w : w = [watchers[g] EXCEPT !.pc = "watch"]
    BY Zenon
  <2>2. watchers' = [watchers EXCEPT ![g] = w]
    BY <2>1 DEF Process!EndUpdate, StreamsInv, Shapes
  <2>3. watchers[g] \in WatcherShape
    BY DEF Process!EndUpdate, StreamsInv, Shapes, Process!TypeOK
  <2>4. w \in WatcherShape /\ (w.live <=> watchers[g].live) /\ w.pc = "watch"
    BY <2>1, <2>3, WatcherEnds
  <2> QED
    BY <2>2, <2>4, Zenon
<1>2. UNCHANGED <<configured, streams, instances, skipped, blocked, cpc, evict, watcherRunning,
                  overlap, rpc, hpc, stored, up, raced>>
  BY DEF Process!EndUpdate, Process!feVars, Process!ctlVars, Process!linkVars
<1> QED
  BY <1>1, <1>2, WatcherMoves, Zenon DEF Harmless

(* addStream: without an overlap the entry it writes is new, so that its   *)
(* LoadBalancer is the only one.                                           *)
LEMMA AddStreams ==
  ASSUME StreamsInv, NEW g \in Process!Generations, Process!AddStream(g)
  PROVE  StreamsInv'
<1>1. PICK s \in watchers[g].cur :
        \/ /\ streams' = streams \union {s}
           /\ instances' = [instances EXCEPT ![s] = @ + 1]
           /\ evict' = [evict EXCEPT !.gone = @ \ {s}]
           /\ skipped' = skipped \ {s}
        \/ /\ skipped' = skipped \union {s}
           /\ UNCHANGED <<streams, instances, evict>>
  BY DEF Process!AddStream
<1>2. PICK w \in WatcherShape :
        /\ watchers' = [watchers EXCEPT ![g] = w]
        /\ (w.live <=> watchers[g].live)
        /\ w.pc = "scan"
  <2>1. PICK w : w = [watchers[g] EXCEPT !.pc = "scan", !.cur = {}]
    OBVIOUS
  <2>2. watchers' = [watchers EXCEPT ![g] = w]
    BY <2>1, Zenon DEF Process!AddStream, StreamsInv, Shapes
  <2>3. watchers[g] \in WatcherShape
    BY DEF Process!AddStream, StreamsInv, Shapes, Process!TypeOK
  <2>4. w \in WatcherShape /\ (w.live <=> watchers[g].live) /\ w.pc = "scan"
    BY <2>1, <2>3, WatcherAdds, Zenon
  <2> QED
    BY <2>2, <2>4, Zenon
<1>3. UNCHANGED <<configured, blocked, cpc, watcherRunning, overlap, rpc, hpc, stored, up, raced>>
  BY DEF Process!AddStream, Process!feVars, Process!linkVars
<1>4. watchers[g].pc = "adding" /\ s \in Served
  BY DEF Process!AddStream, StreamsInv, Shapes, WatcherShape
<1>5. ~overlap => /\ ~blocked /\ s \notin streams
                  /\ \A h \in Process!Generations : h # g => ~Process!Updating(h)
  <2>1. Process!Updating(g)
    BY <1>4 DEF Process!Updating
  <2>2. ~overlap => watchers[g].live /\ ~blocked /\ watchers[g].cur \cap streams = {}
    BY <1>4, <2>1 DEF StreamsInv, Exclusive
  <2>3. ~overlap => \A h \in Process!Generations : Process!Updating(h) => h = g
    BY <2>2 DEF StreamsInv, Exclusive, OneWatcher
  <2> QED
    BY <2>2, <2>3
<1>6. CASE UNCHANGED <<streams, instances, evict>>
  BY <1>1, <1>2, <1>3, <1>4, <1>5, <1>6 DEF StreamsInv, Shapes, Process!TypeOK, OneWatcher,
     Counted, Exclusive, Process!OneLoadBalancerPerStream, Process!Updating
<1>7. CASE /\ streams' = streams \union {s}
           /\ instances' = [instances EXCEPT ![s] = @ + 1]
           /\ evict' = [evict EXCEPT !.gone = @ \ {s}]
           /\ skipped' = skipped \ {s}
  <2>1. Shapes'
    BY <1>2, <1>3, <1>4, <1>7 DEF StreamsInv, Shapes, Process!TypeOK
  <2>2. OneWatcher'
    BY <1>2, <1>3, <1>4 DEF StreamsInv, Shapes, OneWatcher
  <2>3. Counted' /\ Process!OneLoadBalancerPerStream'
    BY <1>3, <1>4, <1>5, <1>7 DEF StreamsInv, Shapes, Process!TypeOK, Counted,
       Process!OneLoadBalancerPerStream
  <2>4. Exclusive'
    BY <1>2, <1>3, <1>4, <1>5, <1>7 DEF StreamsInv, Shapes, Exclusive, Process!Updating
  <2> QED
    BY <2>1, <2>2, <2>3, <2>4 DEF StreamsInv
<1> QED
  BY <1>1, <1>6, <1>7

(* deleteStream deletes the LoadBalancer of an entry that was not evicted. *)
LEMMA DeleteStreams ==
  ASSUME StreamsInv, NEW g \in Process!Generations, NEW s \in Served, Process!DeleteStream(g, s)
  PROVE  StreamsInv'
<1>1. PICK w \in WatcherShape :
        /\ watchers' = [watchers EXCEPT ![g] = w]
        /\ (w.live <=> watchers[g].live)
        /\ w.pc = "delete"
  <2>1. PICK w : w = Trimmed(watchers[g], s)
    OBVIOUS
  <2>2. watchers' = [watchers EXCEPT ![g] = w]
    BY <2>1, Zenon DEF Trimmed, Process!DeleteStream, StreamsInv, Shapes
  <2>3. watchers[g] \in WatcherShape
    BY DEF Process!DeleteStream, StreamsInv, Shapes, Process!TypeOK
  <2>4. w \in WatcherShape /\ (w.live <=> watchers[g].live) /\ w.pc = "delete"
    BY <2>1, <2>3, WatcherDeletes
  <2> QED
    BY <2>2, <2>4, Zenon
<1>2. UNCHANGED <<configured, evict, skipped, blocked, cpc, watcherRunning, overlap, rpc, hpc,
                  stored, up, raced>>
  BY DEF Process!DeleteStream, Process!feVars, Process!linkVars
<1>3. /\ instances' = [instances EXCEPT ![s] = IF s \in streams \ evict.gone THEN @ - 1 ELSE @]
      /\ streams' = streams \ {s}
      /\ Process!Updating(g)
  BY DEF Process!DeleteStream, Process!Updating
<1>4. s \in streams \ evict.gone => instances[s] - 1 \in Nat
  BY DEF StreamsInv, Counted, Shapes, Process!TypeOK
<1>5. Shapes'
  BY <1>1, <1>2, <1>3, <1>4 DEF StreamsInv, Shapes, Process!TypeOK
<1>6. OneWatcher'
  BY <1>1, <1>2 DEF StreamsInv, Shapes, OneWatcher
<1>7. Counted' /\ Process!OneLoadBalancerPerStream'
  BY <1>2, <1>3, <1>4 DEF StreamsInv, Shapes, Process!TypeOK, Counted,
     Process!OneLoadBalancerPerStream
<1>8. Exclusive'
  <2>1. watchers'[g] = w /\ \A h \in Process!Generations \ {g} : watchers'[h] = watchers[h]
    BY <1>1 DEF StreamsInv, Shapes
  <2>2. ~overlap => ~blocked /\ watchers[g].live
    BY <1>3 DEF StreamsInv, Exclusive
  <2> QED
    BY <1>1, <1>2, <1>3, <2>1, <2>2 DEF StreamsInv, Exclusive, Process!Updating
<1> QED
  BY <1>5, <1>6, <1>7, <1>8 DEF StreamsInv

(* The inductive invariant of the process. *)
ProcessInv == StreamsInv /\ LinksInv

(* A new process serves nothing. *)
LEMMA ProcessInvInit == Process!Init => ProcessInv
<1> SUFFICES ASSUME Process!Init PROVE ProcessInv
  OBVIOUS
<1>1. /\ Process!NoWatcher \in WatcherShape
      /\ \A g \in Process!Generations : watchers[g].pc = "none" /\ ~watchers[g].live
  BY NoWatcherShape DEF Process!Init
<1>2. LinksInv
  BY DEF Process!Init, LinksInv, Storing, Settled, Process!OneLinkPerSubnet, Process!SameSubnet
<1>3. Shapes
  BY <1>1 DEF Process!Init, Shapes, Process!TypeOK
<1> QED
  BY <1>1, <1>2, <1>3 DEF Process!Init, ProcessInv, StreamsInv, OneWatcher, Counted, Exclusive,
     Process!OneLoadBalancerPerStream, Process!Updating

(* Every step of the process, its clients and its environment keeps it. *)
LEMMA ProcessInvStep == ProcessInv /\ [Process!Next]_serviceVars => ProcessInv'
<1> SUFFICES ASSUME StreamsInv, LinksInv, [Process!Next]_serviceVars PROVE StreamsInv' /\ LinksInv'
  BY DEF ProcessInv
<1>0. Shapes /\ Process!TypeOK
  BY DEF StreamsInv, Shapes
<1>1. CASE \/ Process!FrontendChanges \/ Process!FrontendWatchBreaks \/ Process!RecvFrontends
           \/ Process!Endpoint \/ Process!EndpointExpires
           \/ UNCHANGED serviceVars
  <2>0. UNCHANGED <<Process!ctlVars, Process!strmVars, Process!linkVars, overlap>>
    <3>1. CASE UNCHANGED serviceVars
      BY <3>1 DEF serviceVars, Process!ctlVars, Process!strmVars, Process!linkVars
    <3> QED
      BY <1>1, <3>1 DEF Process!FrontendChanges, Process!FrontendWatchBreaks,
         Process!RecvFrontends, Process!Endpoint, Process!EndpointExpires
  <2>1. UNCHANGED <<hpc, stored, up, raced, blocked, cpc, streams, instances, watchers, evict,
                    watcherRunning, overlap, configured, skipped>>
    BY <2>0 DEF Process!ctlVars, Process!strmVars, Process!linkVars
  <2>2. rpc' \in {"recv", "dispatch", "endpoint"}
    BY <1>0, <1>1 DEF Process!FrontendChanges, Process!FrontendWatchBreaks,
       Process!RecvFrontends, Process!Endpoint, Process!EndpointExpires, serviceVars,
       Process!feVars, Process!TypeOK
  <2>3. Process!TypeOK'
    BY <1>0, <2>1, <2>2 DEF Process!TypeOK
  <2>4. LinksInv'
    BY <2>1, LinksUnchanged
  <2> QED
    BY <2>1, <2>3, <2>4, StreamsUnchanged
<1>2. CASE Process!Dispatch
  BY <1>2, DispatchLinks, DispatchStreams
<1>3. CASE Process!StartStreamWatcher
  BY <1>0, <1>3, ControlLinks, StartStreams
<1>4. CASE Process!ForgetStreams
  BY <1>0, <1>4, ControlLinks, ForgetKeeps
<1>5. CASE Process!DisableInterfaces
  BY <1>5, DisableLinks, DisableStreams
<1>6. CASE Process!CancelStreamWatcher
  BY <1>0, <1>6, ControlLinks, CancelStreams
<1>7. ASSUME NEW s \in Served, Process!EvictStream(s) PROVE StreamsInv' /\ LinksInv'
  <2>1. UNCHANGED <<hpc, stored, up, raced, blocked, cpc>>
    BY <1>7 DEF Process!EvictStream, Process!linkVars
  <2> QED
    BY <1>7, <2>1, LinksUnchanged, EvictKeeps
<1>8. CASE Process!StreamsEdited
  <2>1. UNCHANGED <<hpc, stored, up, raced, blocked, cpc>>
    BY <1>8 DEF Process!StreamsEdited, Process!linkVars, Process!ctlVars
  <2> QED
    BY <1>8, <2>1, LinksUnchanged, EditedStreams
<1>9. CASE Process!Crash
  BY <1>9, CrashLinks, CrashStreams
<1>10. ASSUME NEW g \in Process!Generations, Process!Watcher(g) \/ Process!StreamWatchEnds(g)
       PROVE  StreamsInv' /\ LinksInv'
  <2>1. UNCHANGED <<hpc, stored, up, raced, blocked, cpc>>
    BY <1>10, Zenon DEF Process!Watcher, Process!StreamWatchEnds, Process!BeginUpdate,
       Process!AddStream, Process!EndUpdate, Process!ScanStream, Process!DeleteStream,
       Process!linkVars, Process!ctlVars
  <2>2. StreamsInv'
    BY <1>10, BeginStreams, AddStreams, EndStreams, ScanStreams, DeleteStreams, WatchEndsStreams
       DEF Process!Watcher
  <2> QED
    BY <2>1, <2>2, LinksUnchanged
<1>11. ASSUME NEW l \in Links, Process!Handler(l) \/ Process!Requested(l) \/ Process!InterfaceDeleted(l)
       PROVE  StreamsInv' /\ LinksInv'
  <2>1. LinksInv'
    BY <1>11, CheckBlockedLinks, ReplaceOlderLinks, StoreInterfaceLinks, RequestedLinks,
       InterfaceDeletedLinks, Zenon DEF Process!Handler
  <2>2. UNCHANGED <<blocked, cpc, streams, instances, watchers, evict, watcherRunning, overlap,
                    configured, skipped, rpc>>
    BY <1>11 DEF Process!Handler, Process!CheckBlocked, Process!ReplaceOlder,
       Process!StoreInterface, Process!Requested, Process!InterfaceDeleted, Process!ctlVars,
       Process!strmVars, Process!feVars
  <2>3. Process!TypeOK'
    BY <1>0, <2>1, <2>2 DEF Process!TypeOK, LinksInv
  <2> QED
    BY <2>1, <2>2, <2>3, StreamsUnchanged
<1> QED
  BY <1>1, <1>2, <1>3, <1>4, <1>5, <1>6, <1>7, <1>8, <1>9, <1>10, <1>11 DEF Process!Next,
     Process!Control

(* It implies what the run checks. *)
LEMMA ProcessInvImplies ==
  ProcessInv => /\ Process!TypeOK /\ Process!OneLoadBalancerPerStream
                /\ Process!BlockedServesNothing /\ Process!OneLinkPerSubnet
<1> SUFFICES ASSUME ProcessInv PROVE Process!BlockedServesNothing
  BY DEF ProcessInv, StreamsInv, Shapes, LinksInv
<1>1. blocked /\ cpc = "idle" /\ ~overlap => \A s \in Served : instances[s] = 0
  BY Zenon DEF ProcessInv, StreamsInv, Exclusive, Process!OneLoadBalancerPerStream
<1> QED
  BY <1>1 DEF Process!BlockedServesNothing, ProcessInv, LinksInv, Settled

(* The argument about the process holds in every behaviour of it. *)
THEOREM ProcessInvariant == LBSpec => []ProcessInv
<1>1. Process!Init => ProcessInv
  BY ProcessInvInit
<1>2. ProcessInv /\ [Process!Next]_serviceVars => ProcessInv'
  BY ProcessInvStep
<1> QED
  BY <1>1, <1>2, ProcessPart, PTL DEF LBSpec

(* Outside the overlaps the code admits, every LoadBalancer is one that a  *)
(* map entry points to and a blocked service has none; a link that is up   *)
(* is known to the service and is the only one of its subnet; and no       *)
(* LoadBalancer is ever deleted twice, whatever overlaps.                  *)
THEOREM ProcessStaysConsistent == LBSpec => []ProcessConsistent
<1>1. ProcessInv => ProcessConsistent
  BY ProcessInvImplies DEF ProcessConsistent
<1> QED
  BY <1>1, ProcessInvariant, PTL
=============================================================================
