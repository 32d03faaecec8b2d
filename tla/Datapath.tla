------------------------------ MODULE Datapath ------------------------------
(***************************************************************************)
(* How the stateless-lb process keeps the kernel and nfqlb in step with    *)
(* the configuration: the VIP sets (pkg/kernel/nftset.go below             *)
(* netfilter.go), the NAT chains (pkg/nat) and the flows of a stream       *)
(* (stream/loadbalancer.go, flow.go, nfqlb.go).  A list of the             *)
(* configuration reaches the process in one response of a watch; a batch   *)
(* or a command can fail; the process can restart, and the kernel's tables *)
(* then outlive what the process knew of them.                             *)
(***************************************************************************)
EXTENDS PacketRules, Functions

CONSTANTS
    VipLists,    \* the sets of VIP prefixes that may be configured
    NatLists,    \* the sets of port NATs that may be configured
    FlowLists,   \* the functions from flow names to flows that may be configured
    Budgets,     \* how often each input may happen: see Init
    Packets, Replies

NoEntries == [x \in {} |-> {}]

IsFlow(f) ==
    /\ f = [prio |-> f.prio, protos |-> f.protos, dsts |-> f.dsts, srcs |-> f.srcs,
            dports |-> f.dports, sports |-> f.sports]
    /\ \A x \in f.dsts \union f.srcs : IsSubnet(x)

ASSUME VipListsAssumption == {} \in VipLists /\ \A l \in VipLists : \A x \in l : IsSubnet(x)
ASSUME NatListsAssumption == {} \in NatLists
ASSUME FlowListsAssumption ==
    /\ NoEntries \in FlowLists
    /\ \A l \in FlowLists : l = [n \in DOMAIN l |-> l[n]] /\ \A n \in DOMAIN l : IsFlow(l[n])
ASSUME PacketsAssumption ==
    \A p \in Packets : p.family \in Families /\ p.src \in Addresses /\ p.sport \in Ports /\ p.dport \in Ports
ASSUME RepliesAssumption ==
    \A p \in Replies :
        /\ p.icmp /\ p.family \in Families
        /\ p = [family |-> p.family, src |-> p.src, dst |-> p.dst, inner |-> p.inner, mark |-> p.mark,
                toobig |-> p.toobig, icmp |-> p.icmp]

VARIABLES
    vips, nats, flows, \* the configuration
    unread,      \* what the process has not received yet
    vipset,      \* family -> known to the process, in the kernel
    natmap,      \* NAT name -> the VIPs its DestinationPortNat knows
    natK,        \* NAT name -> the VIPs in the sets of its chain
    lbflows,     \* flow name -> flow.Flow
    nfq,         \* flow name -> arguments it has in nfqlb
    flowSvc,     \* the FlowSvc health service
    refused,     \* what had a batch or a command fail since the process started
    skipped,     \* SetDestinationIPs returned before the IPv6 set
    restarted,   \* the process has restarted
    budget

vars == <<vips, nats, flows, unread, vipset, natmap, natK, lbflows, nfq, flowSvc,
          refused, skipped, restarted, budget>>

Kinds == {"vips", "nats", "flows"}

TypeOK ==
    /\ vips \in VipLists /\ nats \in NatLists /\ flows \in FlowLists
    /\ unread \subseteq Kinds
    /\ \A f \in Families : /\ vipset[f].known \subseteq InFamily(UNION VipLists, f)
                           /\ vipset[f].kernel \subseteq InFamily(UNION VipLists, f)
    /\ DOMAIN natmap \subseteq DOMAIN natK
    /\ flowSvc \in BOOLEAN /\ skipped \in BOOLEAN /\ restarted \in BOOLEAN
    /\ refused \subseteq Families \union {"nats", "set", "delete"}

Init ==
    /\ vips = {} /\ nats = {} /\ flows = NoEntries
    /\ unread = {}
    /\ vipset = [f \in Families |-> [known |-> {}, kernel |-> {}]]
    /\ natmap = NoEntries /\ natK = NoEntries
    /\ lbflows = NoEntries /\ nfq = NoEntries
    /\ flowSvc = FALSE
    /\ refused = {} /\ skipped = FALSE /\ restarted = FALSE
    /\ budget \in Budgets

Spend(b) == budget[b] > 0 /\ budget' = [budget EXCEPT ![b] = @ - 1]
Fault(fail) == IF fail = {} THEN UNCHANGED budget ELSE Spend("faults")

config == <<vips, nats, flows>>
nfset == <<vipset, skipped>>
nat == <<natmap, natK>>
flow == <<lbflows, nfq, flowSvc>>

-----------------------------------------------------------------------------
(* The configuration                                                       *)

EditVips ==
    /\ "vips" \notin unread /\ Spend("vips")
    /\ vips' \in VipLists \ {vips}
    /\ unread' = unread \union {"vips"}
    /\ UNCHANGED <<nats, flows, nfset, nat, flow, refused, restarted>>

(* Only lists the webhook of the conduit lets through. *)
EditNats ==
    /\ "nats" \notin unread /\ Spend("nats")
    /\ nats' \in {l \in NatLists : ValidPortNats(l)} \ {nats}
    /\ unread' = unread \union {"nats"}
    /\ UNCHANGED <<vips, flows, nfset, nat, flow, refused, restarted>>

EditFlows ==
    /\ "flows" \notin unread /\ Spend("flows")
    /\ flows' \in FlowLists \ {flows}
    /\ unread' = unread \union {"flows"}
    /\ UNCHANGED <<vips, nats, nfset, nat, flow, refused, restarted>>

-----------------------------------------------------------------------------
(* The VIP sets                                                            *)

(* Mutant: elements no longer wanted are left. *)
SetElementsOfKept(s, new, fail) ==
    LET ok == ~fail /\ BatchOK(s.kernel, {}, new \ s.known)
    IN  [set |-> [known |-> new, kernel |-> IF ok THEN s.kernel \union (new \ s.known) ELSE s.kernel], ok |-> ok]

(* setElements and setIPs: one batch with what differs from the previous   *)
(* list; the new list becomes the known one whether the batch was taken or *)
(* not.                                                                    *)
SetElementsOf(s, new, fail) ==
    LET del == s.known \ new
        add == new \ s.known
        ok == ~fail /\ BatchOK(s.kernel, del, add)
    IN  [set |-> [known |-> new, kernel |-> IF ok THEN (s.kernel \ del) \union add ELSE s.kernel], ok |-> ok]

(* IPv4, and IPv6 if that worked. *)
SetDestinationIPs(fail) ==
    LET v4 == SetElementsOf(vipset["ipv4"], InFamily(vips, "ipv4"), "ipv4" \in fail)
        v6 == SetElementsOf(vipset["ipv6"], InFamily(vips, "ipv6"), "ipv6" \in fail)
    IN  /\ vipset' = [vipset EXCEPT !["ipv4"] = v4.set, !["ipv6"] = IF v4.ok THEN v6.set ELSE @]
        /\ skipped' = ~v4.ok
        /\ refused' = refused \union (IF ~v4.ok THEN {"ipv4"} ELSE IF ~v6.ok THEN {"ipv6"} ELSE {})

(* watchVips receives the list; updateVips logs an error and goes on. *)
WatchVips(fail) ==
    /\ "vips" \in unread
    /\ SetDestinationIPs(fail)
    /\ unread' = unread \ {"vips"}
    /\ Fault(fail)
    /\ UNCHANGED <<config, nat, flow, restarted>>

-----------------------------------------------------------------------------
(* Port NAT                                                                *)

NatNames(list) == {NatName(n) : n \in list}
VipsOf(list, name) == UNION {n.vips : n \in {x \in list : NatName(x) = name}}

(* SetVips on the kernel's set k, by a NAT that knows `known'. *)
SetVips(k, known, new) ==
    LET ok == BatchOK(k, known \ new, new \ known)
    IN  [k |-> IF ok THEN (k \ (known \ new)) \union (new \ known) ELSE k, ok |-> ok]

(* PortNatDiff: the NATs that have no NAT of their name in the list. *)
NatsGone == DOMAIN natmap \ NatNames(nats)

(* deleteNat: forgotten first, then deleted from the kernel, which may fail. *)
DeleteNats(names, fail) ==
    [map |-> Restrict(natmap, DOMAIN natmap \ names), kernel |-> Restrict(natK, DOMAIN natK \ (names \ fail))]

(* The elements NewDestinationPortNat finds in the sets of its chain: init *)
(* keeps those of an earlier chain of the name.                            *)
Found(kernel, n) == IF n \in DOMAIN kernel THEN kernel[n] ELSE {}

(* setNat of every NAT of the list: an existing one gets its new VIPs, and *)
(* knows them even when the batch failed; a new one has its chain created, *)
(* gets its VIPs, and is stored only if that worked.                       *)
SetNat(m, kernel, fail) ==
    LET known(n) == IF n \in DOMAIN m THEN m[n] ELSE {}
        res == [n \in NatNames(nats) |-> SetVips(Found(kernel, n), known(n), VipsOf(nats, n))]
        worked == {n \in NatNames(nats) : n \notin fail /\ res[n].ok}
    IN  [map |-> [n \in DOMAIN m \union worked |-> VipsOf(nats, n)],
         kernel |-> [n \in DOMAIN kernel \union NatNames(nats) |->
                        IF n \in worked THEN res[n].k ELSE Found(kernel, n)],
         worked |-> worked]

(* What is not in the list is deleted, the rest set. *)
SetNats(fail) ==
    LET kept == DeleteNats(NatsGone, fail)
        set == SetNat(kept.map, kept.kernel, fail)
    IN  /\ natmap' = set.map
        /\ natK' = set.kernel
        /\ refused' = refused \union (IF fail \intersect NatsGone # {} \/ set.worked # NatNames(nats)
                                      THEN {"nats"} ELSE {})

(* watchConduit receives the conduit; an error of SetNats is logged. *)
WatchConduit(fail) ==
    /\ "nats" \in unread
    /\ SetNats(fail)
    /\ unread' = unread \ {"nats"}
    /\ Fault(fail)
    /\ UNCHANGED <<config, nfset, flow, restarted>>

-----------------------------------------------------------------------------
(* Flows                                                                   *)

(* flow.New, and flow.Update of a flow that differs, call SetFlow. *)
ToSet == {n \in DOMAIN flows : n \notin DOMAIN lbflows \/ lbflows[n] # flows[n]}

(* DeleteFlow of the flows that are gone, some of which may fail. *)
DeleteFlows(gone, fail) == DOMAIN nfq \ {n \in gone : <<"delete", n>> \notin fail}

(* A flow whose SetFlow fails is not stored, or, when it was there, is     *)
(* deleted as one not in the list.  A flow whose DeleteFlow fails is       *)
(* forgotten and stays in nfqlb.                                           *)
SetFlows(fail) ==
    LET failed == {n \in ToSet : <<"set", n>> \in fail}
        gone == (DOMAIN lbflows \ DOMAIN flows) \union (DOMAIN lbflows \intersect failed)
        undeleted == {n \in gone : <<"delete", n>> \in fail}
        left == DOMAIN flows \ failed
    IN  /\ lbflows' = Restrict(flows, left)
        /\ nfq' = [n \in DeleteFlows(gone, fail) \union left |->
                      IF n \in ToSet \ failed THEN FlowArgs(flows[n]) ELSE nfq[n]]
        /\ flowSvc' = (flowSvc \/ left # {})
        /\ refused' = (refused \ {"set"}) \union (IF failed = {} THEN {} ELSE {"set"})
                                          \union (IF undeleted = {} THEN {} ELSE {"delete"})

WatchFlows(fail) ==
    /\ "flows" \in unread
    /\ SetFlows(fail)
    /\ unread' = unread \ {"flows"}
    /\ Fault(fail)
    /\ UNCHANGED <<config, nfset, nat, restarted>>

-----------------------------------------------------------------------------
(* The process restarts in the same network namespace: the tables of the   *)
(* kernel stay, and the watches are made again.                            *)

(* NewNFSetIP finds its set and leaves the elements. *)
NewNFSets == [f \in Families |-> [vipset[f] EXCEPT !.known = {}]]

(* So does NewNatHandler with the table and its chains. *)
NewNatHandler == /\ natmap' = NoEntries
                 /\ UNCHANGED natK

(* A new nfqlb process has no flows. *)
StartNfqlb == NoEntries

Restart ==
    /\ Spend("restarts")
    /\ vipset' = NewNFSets
    /\ NewNatHandler
    /\ lbflows' = NoEntries /\ nfq' = StartNfqlb /\ flowSvc' = FALSE
    /\ unread' = Kinds
    /\ skipped' = FALSE /\ refused' = {} /\ restarted' = TRUE
    /\ UNCHANGED config

FlowCommands == {"set", "delete"} \X UNION {DOMAIN f : f \in FlowLists}
AtMostOne(S) == {{}} \union {{x} : x \in S}

Next ==
    \/ EditVips \/ EditNats \/ EditFlows
    \/ \E fail \in AtMostOne(Families) : WatchVips(fail)
    \/ \E fail \in AtMostOne(NatNames(nats) \union DOMAIN natmap) : WatchConduit(fail)
    \/ \E fail \in SUBSET FlowCommands : WatchFlows(fail)
    \/ Restart

Spec == Init /\ [][Next]_vars

-----------------------------------------------------------------------------
(* Properties                                                              *)

Disjoint(prefixes) == \A x, y \in prefixes : x # y => ~Overlap(x, y)

(* Once a list of VIPs has been taken in, the sets send to nfqlb the packets *)
(* to the configured VIPs, and no others unless the process restarted since  *)
(* (what was configured before then stays in the kernel).  This needs that   *)
(* no batch of the family has ever been refused in this run of the process   *)
(* (setIPs takes the list for known all the same, so that every later batch  *)
(* that removes one of its elements is refused too), and, for IPv6, that the *)
(* last IPv4 batch was not: SetDestinationIPs returns before IPv6.           *)
VipsQueued ==
    \A f \in Families :
        ("vips" \notin unread /\ f \notin refused /\ (f = "ipv6" => ~skipped)) =>
            \A a \in Addresses :
                LET p == [family |-> f, dst |-> a] IN
                /\ Contains(vips, f, a) => Queued(vipset[f].kernel, p)
                /\ ~restarted => (Queued(vipset[f].kernel, p) => Contains(vips, f, a))

(* An ICMP "too big" of this host about a packet to a VIP that nfqlb marked *)
(* leaves with the VIP as its source and goes on unmarked; an ICMP packet   *)
(* of this host to a VIP is given to nfqlb as it is.  The mark must have a  *)
(* low byte other than zero: the rule compares one byte of it.              *)
RepliesComeFromVip ==
    \A p \in Replies :
        LET k == vipset[p.family].kernel
            q == SnatLocal(k, p)
        IN  /\ (p.toobig /\ FirstByte(p.mark) # 0 /\ InVipSet(k, p.family, p.inner) /\ ~InVipSet(k, p.family, p.dst))
                    => InVipSet(k, p.family, q.src)
            /\ (p.mark = 0 \/ QueuedLocal(k, p)) => q = p

(* The NATs of the kernel are those of the configuration once the list has  *)
(* been taken in, if no batch was refused in this run of the process.  NATs *)
(* removed, and VIPs taken from a NAT, while it was down stay: NewNatHandler *)
(* does not look at the chains it finds.                                    *)
NatsInstalled ==
    ("nats" \notin unread /\ "nats" \notin refused) =>
        /\ \A n \in NatNames(nats) : n \in DOMAIN natK /\ VipsOf(nats, n) \subseteq natK[n]
        /\ ~restarted => natK = [n \in NatNames(nats) |-> VipsOf(nats, n)]

Orders(S) == {o \in [1..Cardinality(S) -> S] : \A i, j \in DOMAIN o : i # j => o[i] # o[j]}
Reply(p) == [p EXCEPT !.src = p.dst, !.dst = p.src, !.sport = p.dport, !.dport = p.sport]
ToTargetPort(p) == \E n \in DOMAIN natK : /\ n[3] = p.proto /\ n[2] = p.dport
                                          /\ InVipSet(natK[n], p.family, p.dst)

(* In whatever order the kernel runs the chains of a validated list of NATs, *)
(* a packet to a VIP gets one and the same port, and the target's reply      *)
(* comes back with the port the client used, unless the client itself used   *)
(* a target port.  TCP checksums stay right; a translated packet of another  *)
(* protocol has its checksum patched in the wrong place.                     *)
NatRoundTrip ==
    ("nats" \notin unread /\ "nats" \notin refused /\ ~restarted /\ Disjoint(UNION Range(natK))) =>
        \A p \in Packets, o \in Orders(DOMAIN natK) :
            LET q == Translate(o, natK, p)
                r == Translate(o, natK, [Reply(q) EXCEPT !.csum = TRUE])
            IN  /\ \A o2 \in Orders(DOMAIN natK) : Translate(o2, natK, p) = q
                /\ ~ToTargetPort(p) => [r EXCEPT !.csum = TRUE] = Reply(p)
                /\ (q.csum /\ r.csum) <=> (p.proto = "tcp" \/ (q.dport = p.dport /\ r.sport = q.dport))

(* After a list of flows none of whose SetFlow failed, nfqlb has every flow *)
(* of the list as it was configured, and others only if a DeleteFlow failed *)
(* in this run of the process.                                              *)
FlowsInstalled ==
    "flows" \notin unread =>
        /\ "set" \notin refused => \A n \in DOMAIN flows : n \in DOMAIN nfq /\ nfq[n] = FlowArgs(flows[n])
        /\ "delete" \notin refused => DOMAIN nfq \subseteq DOMAIN flows

(* What SetFlow leaves out does not change what a flow selects, if the flow *)
(* has a VIP and its sources, if given, name both families or are not all   *)
(* /0.  (With only one /0 the flow selects the other family as well.)       *)
SimplifiedFlowsSame ==
    \A n \in DOMAIN nfq \intersect DOMAIN lbflows :
        LET f == lbflows[n] IN
        (f.dsts # {} /\ (AnyIPRange(f.srcs) => f.srcs = {} \/ \A fam \in Families : InFamily(f.srcs, fam) # {})) =>
            \A p \in Packets : ArgsMatch(nfq[n], p) <=> FlowMatches(f, p)

(* A fragment to a VIP is reassembled before the rule that gives it to     *)
(* nfqlb, unless it comes from a target; what passes is not tracked (the   *)
(* chains of defrag.go against the kernel's -400, and conntrack's -200).   *)
FragmentsQueuedWhole ==
    \A f \in Families, a \in Addresses, fromTarget \in BOOLEAN :
        Queued(vipset[f].kernel, [family |-> f, dst |-> a]) =>
            /\ UntrackedBefore(DefragChains, "prerouting", fromTarget, KernelDefrag) <=> fromTarget
            /\ \A hook \in {"prerouting", "output"} : UntrackedBefore(DefragChains, hook, fromTarget, -200)

(* A packet to a VIP of the configuration, and no other, is given to nfqlb *)
(* whole.                                                                  *)
TrafficQueued == TypeOK /\ VipsQueued /\ FragmentsQueuedWhole

(* The NATs of the configuration are in the kernel and do what they say.   *)
NatsServed == NatsInstalled /\ NatRoundTrip

(* nfqlb has the flows of the configuration, and they select what the      *)
(* configured flows select.                                                *)
FlowsServed == FlowsInstalled /\ SimplifiedFlowsSame
=============================================================================
