--------------------------- MODULE DatapathProofs ---------------------------
(***************************************************************************)
(* TLAPS proofs about Datapath, for addresses and ports of any size and    *)
(* any lists of VIPs, port NATs and flows: what the kernel gives to nfqlb, *)
(* what ICMP replies of the host look like, and what nfqlb's flows select. *)
(***************************************************************************)
EXTENDS Datapath, TLAPS

(* The elements of an interval set, looked up as the kernel does. *)
Elements(S) == UNION {SetElements(x) : x \in S}

LEMMA NextAddress ==
  ASSUME NEW a \in Addresses
  PROVE  NextIP(a) = IF a = MaxAddress THEN 0 ELSE a + 1
  BY MaxAddressAssumption DEF NextIP, Addresses

(* The elements of a subnet: its first address, and the one after it. *)
LEMMA ElementsOf ==
  ASSUME NEW S, NEW e
  PROVE  e \in Elements(S) <=>
           \E x \in S : \/ e = [key |-> x.first, end |-> FALSE]
                        \/ e = [key |-> NextIP(Broadcast(x)), end |-> TRUE]
  BY DEF Elements, SetElements

(* The keys of the elements are natural numbers. *)
LEMMA KeysOf ==
  ASSUME NEW S, \A x \in S : IsSubnet(x), NEW e \in Elements(S)
  PROVE  e.key \in Nat
<1>1. PICK x \in S : \/ e = [key |-> x.first, end |-> FALSE]
                     \/ e = [key |-> NextIP(Broadcast(x)), end |-> TRUE]
  BY ElementsOf
<1>2. x.first \in Nat /\ Broadcast(x) \in Addresses
  BY MaxAddressAssumption DEF IsSubnet, Broadcast, Addresses
<1>3. NextIP(Broadcast(x)) \in Nat
  BY <1>2, NextAddress, MaxAddressAssumption DEF Addresses
<1> QED BY <1>1, <1>2, <1>3

(* A key above the start of a subnet is past it, if no other overlaps it. *)
LEMMA NothingInside ==
  ASSUME NEW S, Disjoint(S), \A x \in S : IsSubnet(x), NEW f, \A x \in S : x.family = f,
         NEW x \in S, NEW a \in AddressesOf(x), NEW e \in Elements(S), e.key <= a
  PROVE  e.key <= x.first
<1> SUFFICES ASSUME e.key > x.first PROVE FALSE
  BY KeysOf DEF IsSubnet
<1>1. PICK y \in S : \/ e = [key |-> y.first, end |-> FALSE]
                     \/ e = [key |-> NextIP(Broadcast(y)), end |-> TRUE]
  BY ElementsOf
<1>2. x.first \in Nat /\ x.size \in Nat /\ x.first + x.size <= MaxAddress + 1
      /\ y.first \in Nat /\ y.size \in Nat \ {0} /\ y.first + y.size <= MaxAddress + 1
      /\ x.family = y.family /\ a \in Nat /\ x.first <= a /\ a < x.first + x.size
      /\ MaxAddress \in Nat
  BY MaxAddressAssumption DEF IsSubnet, AddressesOf
<1>3. \A b : b \in AddressesOf(x) /\ b \in AddressesOf(y) => x = y
  BY <1>2 DEF Disjoint, Overlap
<1>4. CASE e = [key |-> y.first, end |-> FALSE]
  <2>1. y.first > x.first /\ y.first <= a
    BY <1>4
  <2>2. y.first \in AddressesOf(x) /\ y.first \in AddressesOf(y)
    BY <1>2, <2>1 DEF AddressesOf
  <2> QED BY <1>2, <1>3, <2>1, <2>2
<1>5. CASE e = [key |-> NextIP(Broadcast(y)), end |-> TRUE]
  <2>1. Broadcast(y) = y.first + y.size - 1 /\ Broadcast(y) \in Addresses
    BY <1>2 DEF Broadcast, Addresses
  <2>2. NextIP(Broadcast(y)) > x.first /\ NextIP(Broadcast(y)) <= a
    BY <1>5
  <2>3. NextIP(Broadcast(y)) = Broadcast(y) + 1
    BY <1>2, <2>1, <2>2, NextAddress
  <2>4. Broadcast(y) \in AddressesOf(x) /\ Broadcast(y) \in AddressesOf(y)
    <3> DEFINE b == y.first + y.size - 1
    <3>1. b \in Nat /\ x.first <= b /\ b < x.first + x.size /\ y.first <= b /\ b < y.first + y.size
      BY <1>2, <2>1, <2>2, <2>3
    <3>2. Broadcast(y) = b
      BY <2>1
    <3> HIDE DEF b
    <3>3. b \in AddressesOf(x) /\ b \in AddressesOf(y)
      BY <1>2, <3>1 DEF AddressesOf
    <3> QED BY <3>2, <3>3
  <2>5. x = y
    BY <1>3, <2>4
  <2> QED BY <1>2, <2>1, <2>2, <2>3, <2>5
<1> QED BY <1>1, <1>4, <1>5

(* Looking an address up in a set of disjoint subnets finds the addresses  *)
(* of the subnets and no others, at the end of the address space too.      *)
LEMMA LookupFinds ==
  ASSUME NEW S, Disjoint(S), \A x \in S : IsSubnet(x), NEW f, \A x \in S : x.family = f,
         NEW a \in Addresses
  PROVE  Lookup(Elements(S), a) <=> \E x \in S : a \in AddressesOf(x)
<1> DEFINE below == {e.key : e \in {d \in Elements(S) : d.key <= a}}
<1>1. Lookup(Elements(S), a) <=>
        \E k \in below : (\A j \in below : j <= k) /\ [key |-> k, end |-> FALSE] \in Elements(S)
  BY DEF Lookup
<1>2. a \in Nat /\ a <= MaxAddress /\ MaxAddress \in Nat
  BY MaxAddressAssumption DEF Addresses
<1>3. ASSUME NEW x \in S, a \in AddressesOf(x)
      PROVE  Lookup(Elements(S), a)
  <2>1. [key |-> x.first, end |-> FALSE] \in Elements(S)
    BY ElementsOf
  <2>2. x.first <= a
    BY <1>3 DEF AddressesOf, IsSubnet
  <2>3. x.first \in below
    BY <2>1, <2>2
  <2>4. \A j \in below : j <= x.first
    BY <1>3, NothingInside
  <2> QED BY <1>1, <2>1, <2>3, <2>4, Zenon
<1>4. ASSUME Lookup(Elements(S), a)
      PROVE  \E x \in S : a \in AddressesOf(x)
  <2>1. PICK k \in below : (\A j \in below : j <= k) /\ [key |-> k, end |-> FALSE] \in Elements(S)
    BY <1>1, <1>4, Zenon
  <2>2. PICK x \in S : \/ [key |-> k, end |-> FALSE] = [key |-> x.first, end |-> FALSE]
                       \/ [key |-> k, end |-> FALSE] = [key |-> NextIP(Broadcast(x)), end |-> TRUE]
    BY <2>1, ElementsOf, Zenon
  <2>3. k = x.first
    BY <2>2
  <2>4. k <= a /\ x.first \in Nat /\ x.size \in Nat \ {0} /\ x.first + x.size <= MaxAddress + 1
    BY <2>1, <2>3 DEF IsSubnet
  <2>5. CASE a >= x.first + x.size
    <3>1. Broadcast(x) = x.first + x.size - 1 /\ Broadcast(x) \in Addresses /\ Broadcast(x) # MaxAddress
      BY <1>2, <2>4, <2>5 DEF Broadcast, Addresses
    <3>2. NextIP(Broadcast(x)) = x.first + x.size
      BY <2>4, <3>1, NextAddress
    <3>3. [key |-> NextIP(Broadcast(x)), end |-> TRUE] \in Elements(S)
      BY ElementsOf
    <3>4. NextIP(Broadcast(x)) \in below
      BY <2>5, <3>2, <3>3
    <3>5. NextIP(Broadcast(x)) <= k
      BY <2>1, <3>4
    <3> QED BY <2>3, <2>4, <3>2, <3>5
  <2>6. CASE a < x.first + x.size
    BY <1>2, <2>3, <2>4, <2>6 DEF AddressesOf
  <2> QED BY <1>2, <2>4, <2>5, <2>6
<1> QED BY <1>3, <1>4

-----------------------------------------------------------------------------
(* What a set of VIPs holds                                                *)

(* The set the process last gave, what the kernel made of it, and what may *)
(* be said of the two before and after a refused batch.                    *)
VipsOK(f) ==
    LET known == vipset[f].known
        kernel == vipset[f].kernel
    IN  /\ vipset[f] = [known |-> known, kernel |-> kernel]
        /\ known \subseteq InFamily(UNION VipLists, f)
        /\ kernel \subseteq InFamily(UNION VipLists, f)
        /\ Disjoint(kernel)
        /\ f \notin refused => known \subseteq kernel /\ (~restarted => kernel = known)
        /\ ("vips" \notin unread /\ f \notin refused /\ (f = "ipv6" => ~skipped)) => known = InFamily(vips, f)

VipInv ==
    /\ vipset = [f \in Families |-> vipset[f]]
    /\ \A f \in Families : VipsOK(f)

(* The flows of the process are in nfqlb; what else is there was left by a *)
(* DeleteFlow that failed.                                                 *)
FlowInv ==
    /\ \A n \in DOMAIN lbflows : IsFlow(lbflows[n]) /\ n \in DOMAIN nfq /\ nfq[n] = FlowArgs(lbflows[n])
    /\ "flows" \notin unread => DOMAIN lbflows \subseteq DOMAIN flows
    /\ ("flows" \notin unread /\ "set" \notin refused) => lbflows = flows
    /\ "delete" \notin refused => DOMAIN nfq \subseteq DOMAIN lbflows

(* The NATs of the process are in the kernel; before a restart, no others. *)
NatInv ==
    /\ natmap = [n \in DOMAIN natmap |-> natmap[n]] /\ natK = [n \in DOMAIN natK |-> natK[n]]
    /\ DOMAIN natmap \subseteq DOMAIN natK
    /\ "nats" \notin refused => /\ \A n \in DOMAIN natmap : natmap[n] \subseteq natK[n]
                                /\ ~restarted => natK = natmap
    /\ ("nats" \notin unread /\ "nats" \notin refused) => natmap = [n \in NatNames(nats) |-> VipsOf(nats, n)]

Shapes ==
    /\ vips \in VipLists /\ nats \in NatLists /\ flows \in FlowLists
    /\ unread \subseteq Kinds
    /\ flowSvc \in BOOLEAN /\ skipped \in BOOLEAN /\ restarted \in BOOLEAN
    /\ refused \subseteq Families \union {"nats", "set", "delete"}

IndInv == Shapes /\ VipInv /\ FlowInv /\ NatInv

(* A batch leaves the prefixes of a set disjoint. *)
LEMMA BatchKeeps ==
  ASSUME NEW k, NEW del, NEW add, Disjoint(k), BatchOK(k, del, add)
  PROVE  Disjoint((k \ del) \union add)
<1> SUFFICES ASSUME NEW x \in (k \ del) \union add, NEW y \in (k \ del) \union add, x # y
             PROVE  ~Overlap(x, y)
  BY DEF Disjoint
<1>1. CASE x \in add
  BY <1>1 DEF BatchOK
<1>2. CASE y \in add
  <2>1. ~Overlap(y, x)
    BY <1>2 DEF BatchOK
  <2> QED BY <2>1 DEF Overlap
<1>3. CASE x \notin add /\ y \notin add
  BY <1>3 DEF Disjoint
<1> QED BY <1>1, <1>2, <1>3

LEMMA FamilyOf ==
  ASSUME NEW f, vips \in VipLists
  PROVE  InFamily(vips, f) \subseteq InFamily(UNION VipLists, f)
  BY DEF InFamily

(* What setIPs makes of the set of a family. *)
Outcome(f, fail) == SetElementsOf(vipset[f], InFamily(vips, f), f \in fail)

LEMMA SetElementsResult ==
  ASSUME NEW f, VipsOK(f), vips \in VipLists, NEW fail
  PROVE  /\ Outcome(f, fail).ok \in BOOLEAN
         /\ Outcome(f, fail).set = [known |-> InFamily(vips, f), kernel |-> Outcome(f, fail).set.kernel]
         /\ InFamily(vips, f) \subseteq InFamily(UNION VipLists, f)
         /\ Outcome(f, fail).set.kernel \subseteq InFamily(UNION VipLists, f)
         /\ Disjoint(Outcome(f, fail).set.kernel)
         /\ Outcome(f, fail).ok /\ f \notin refused =>
              /\ InFamily(vips, f) \subseteq Outcome(f, fail).set.kernel
              /\ ~restarted => InFamily(vips, f) = Outcome(f, fail).set.kernel
<1> DEFINE s == vipset[f]
           new == InFamily(vips, f)
           del == s.known \ new
           add == new \ s.known
           ok == f \notin fail /\ BatchOK(s.kernel, del, add)
           kernel == IF ok THEN (s.kernel \ del) \union add ELSE s.kernel
<1>0. /\ s.kernel \subseteq InFamily(UNION VipLists, f) /\ Disjoint(s.kernel)
      /\ f \notin refused => s.known \subseteq s.kernel /\ (~restarted => s.kernel = s.known)
  BY Zenon DEF VipsOK
<1>1. Outcome(f, fail) = [set |-> [known |-> new, kernel |-> kernel], ok |-> ok]
  BY DEF Outcome, SetElementsOf
<1>2. ok \in BOOLEAN
  BY DEF BatchOK
<1>3. new \subseteq InFamily(UNION VipLists, f)
  BY FamilyOf, Zenon
<1> HIDE DEF s, new
<1>4. Disjoint(kernel)
  BY <1>0, BatchKeeps
<1>5. kernel \subseteq InFamily(UNION VipLists, f)
  BY <1>0, <1>3, Zenon
<1>6. ok /\ f \notin refused => new \subseteq kernel /\ (~restarted => new = kernel)
  BY <1>0
<1> HIDE DEF ok, kernel
<1>7. Outcome(f, fail).ok = ok /\ Outcome(f, fail).set = [known |-> new, kernel |-> kernel]
      /\ Outcome(f, fail).set.kernel = kernel
  BY <1>1
<1> QED BY <1>2, <1>3, <1>4, <1>5, <1>6, <1>7, Zenon DEF new

(* Steps that change neither a set nor what was refused for it keep it. *)
LEMMA VipsKept ==
  ASSUME NEW f \in Families, VipsOK(f), vipset'[f] = vipset[f], restarted' = restarted,
         f \in refused' <=> f \in refused,
         \/ "vips" \in unread'
         \/ vips' = vips /\ skipped' = skipped /\ ("vips" \in unread' <=> "vips" \in unread)
         \/ f \in refused'
         \/ f = "ipv6" /\ skipped'
  PROVE  VipsOK(f)'
  BY Zenon DEF VipsOK

(* watchVips keeps what is said of the sets. *)
LEMMA WatchVipsKeeps ==
  ASSUME IndInv, NEW fail, WatchVips(fail)
  PROVE  VipInv' /\ skipped' \in BOOLEAN /\ refused' \subseteq Families \union {"nats", "set", "delete"}
<1> DEFINE v4 == Outcome("ipv4", fail)
           v6 == Outcome("ipv6", fail)
<1>0. vipset = [f \in Families |-> vipset[f]] /\ VipsOK("ipv4") /\ VipsOK("ipv6")
      /\ vips \in VipLists /\ refused \subseteq Families \union {"nats", "set", "delete"}
  BY DEF IndInv, VipInv, Shapes, Families
<1>1. /\ vipset' = [vipset EXCEPT !["ipv4"] = v4.set, !["ipv6"] = IF v4.ok THEN v6.set ELSE @]
      /\ skipped' = ~v4.ok
      /\ refused' = refused \union (IF ~v4.ok THEN {"ipv4"} ELSE IF ~v6.ok THEN {"ipv6"} ELSE {})
      /\ vips' = vips /\ restarted' = restarted
  BY DEF WatchVips, SetDestinationIPs, config, Outcome
<1>2. /\ v4.ok \in BOOLEAN
      /\ v4.set = [known |-> InFamily(vips, "ipv4"), kernel |-> v4.set.kernel]
      /\ InFamily(vips, "ipv4") \subseteq InFamily(UNION VipLists, "ipv4")
      /\ v4.set.kernel \subseteq InFamily(UNION VipLists, "ipv4") /\ Disjoint(v4.set.kernel)
      /\ v4.ok /\ "ipv4" \notin refused => /\ InFamily(vips, "ipv4") \subseteq v4.set.kernel
                                           /\ ~restarted => InFamily(vips, "ipv4") = v4.set.kernel
  BY <1>0, SetElementsResult, Zenon
<1>3. /\ v6.ok \in BOOLEAN
      /\ v6.set = [known |-> InFamily(vips, "ipv6"), kernel |-> v6.set.kernel]
      /\ InFamily(vips, "ipv6") \subseteq InFamily(UNION VipLists, "ipv6")
      /\ v6.set.kernel \subseteq InFamily(UNION VipLists, "ipv6") /\ Disjoint(v6.set.kernel)
      /\ v6.ok /\ "ipv6" \notin refused => /\ InFamily(vips, "ipv6") \subseteq v6.set.kernel
                                           /\ ~restarted => InFamily(vips, "ipv6") = v6.set.kernel
  BY <1>0, SetElementsResult, Zenon
<1> HIDE DEF v4, v6
<1>4. vipset' = [f \in Families |-> vipset'[f]] /\ vipset'["ipv4"] = v4.set
      /\ vipset'["ipv6"] = IF v4.ok THEN v6.set ELSE vipset["ipv6"]
  BY <1>0, <1>1, Zenon DEF Families
<1>5. VipsOK("ipv4")'
  <2>1. vipset'["ipv4"].known = InFamily(vips, "ipv4") /\ vipset'["ipv4"].kernel = v4.set.kernel
        /\ vipset'["ipv4"] = [known |-> InFamily(vips, "ipv4"), kernel |-> v4.set.kernel]
    BY <1>2, <1>4
  <2>2. "ipv4" \notin refused' => v4.ok /\ "ipv4" \notin refused
    BY <1>1, <1>2
  <2>3. "ipv4" \notin refused' => /\ InFamily(vips, "ipv4") \subseteq v4.set.kernel
                                  /\ ~restarted' => v4.set.kernel = InFamily(vips, "ipv4")
    BY <1>1, <1>2, <2>2
  <2> QED BY <1>1, <1>2, <2>1, <2>3, Zenon DEF VipsOK
<1>6. VipsOK("ipv6")'
  <2>1. CASE v4.ok
    <3>1. vipset'["ipv6"].known = InFamily(vips, "ipv6") /\ vipset'["ipv6"].kernel = v6.set.kernel
          /\ vipset'["ipv6"] = [known |-> InFamily(vips, "ipv6"), kernel |-> v6.set.kernel]
      BY <1>3, <1>4, <2>1
    <3>2. "ipv6" \notin refused' => v6.ok /\ "ipv6" \notin refused
      BY <1>1, <1>3, <2>1
    <3>3. "ipv6" \notin refused' => /\ InFamily(vips, "ipv6") \subseteq v6.set.kernel
                                    /\ ~restarted' => v6.set.kernel = InFamily(vips, "ipv6")
      BY <1>1, <1>3, <3>2
    <3> QED BY <1>1, <1>3, <3>1, <3>3, Zenon DEF VipsOK
  <2>2. CASE ~v4.ok
    <3>1. vipset'["ipv6"] = vipset["ipv6"] /\ skipped' /\ ("ipv6" \in refused' <=> "ipv6" \in refused)
      BY <1>1, <1>4, <2>2, Zenon
    <3> QED BY <1>0, <1>1, <3>1, VipsKept DEF Families
  <2> QED BY <1>2, <2>1, <2>2
<1>7. refused' \subseteq Families \union {"nats", "set", "delete"} /\ skipped' \in BOOLEAN
  BY <1>0, <1>1, <1>2 DEF Families
<1> QED BY <1>4, <1>5, <1>6, <1>7 DEF VipInv, Families
-----------------------------------------------------------------------------
(* Flows                                                                   *)

(* watchFlows keeps what is said of the flows. *)
LEMMA WatchFlowsKeeps ==
  ASSUME IndInv, NEW fail, WatchFlows(fail)
  PROVE  /\ FlowInv' /\ flowSvc' \in BOOLEAN
         /\ refused' \subseteq Families \union {"nats", "set", "delete"}
         /\ \A x \in Families \union {"nats"} : x \in refused' <=> x \in refused
<1> DEFINE failed == {n \in ToSet : <<"set", n>> \in fail}
           gone == (DOMAIN lbflows \ DOMAIN flows) \union (DOMAIN lbflows \intersect failed)
           undeleted == {n \in gone : <<"delete", n>> \in fail}
           left == DOMAIN flows \ failed
<1>0. /\ flows \in FlowLists /\ flowSvc \in BOOLEAN /\ refused \subseteq Families \union {"nats", "set", "delete"}
      /\ \A n \in DOMAIN lbflows : n \in DOMAIN nfq /\ nfq[n] = FlowArgs(lbflows[n])
      /\ "delete" \notin refused => DOMAIN nfq \subseteq DOMAIN lbflows
  BY DEF IndInv, FlowInv, Shapes
<1>1. /\ lbflows' = [n \in left |-> flows[n]]
      /\ nfq' = [n \in DeleteFlows(gone, fail) \union left |->
                    IF n \in ToSet \ failed THEN FlowArgs(flows[n]) ELSE nfq[n]]
      /\ flowSvc' = (flowSvc \/ left # {})
      /\ refused' = (refused \ {"set"}) \union (IF failed = {} THEN {} ELSE {"set"})
                                        \union (IF undeleted = {} THEN {} ELSE {"delete"})
      /\ flows' = flows
  BY DEF WatchFlows, SetFlows, config, Restrict
<1>2. flows = [n \in DOMAIN flows |-> flows[n]] /\ \A n \in DOMAIN flows : IsFlow(flows[n])
  BY <1>0, FlowListsAssumption
<1>3. ASSUME NEW n \in left
      PROVE  n \in DOMAIN nfq' /\ nfq'[n] = FlowArgs(flows[n])
  <2>1. CASE n \in ToSet
    BY <1>1, <2>1
  <2>2. CASE n \notin ToSet
    <3>1. n \in DOMAIN lbflows /\ lbflows[n] = flows[n]
      BY <2>2 DEF ToSet
    <3> QED BY <1>0, <1>1, <2>2, <3>1
  <2> QED BY <2>1, <2>2
<1>4. \A n \in DOMAIN lbflows' : IsFlow(lbflows'[n]) /\ n \in DOMAIN nfq' /\ nfq'[n] = FlowArgs(lbflows'[n])
  BY <1>1, <1>2, <1>3, Zenon
<1>5. "set" \notin refused' => lbflows' = flows'
  <2>1. "set" \notin refused' => failed = {}
    BY <1>1
  <2> QED BY <1>1, <1>2, <2>1, Zenon
<1>6. "delete" \notin refused' => DOMAIN nfq' \subseteq DOMAIN lbflows'
  <2> SUFFICES ASSUME "delete" \notin refused', NEW n \in DOMAIN nfq'
               PROVE  n \in left
    BY <1>1
  <2>1. undeleted = {} /\ "delete" \notin refused
    BY <1>1
  <2>2. CASE n \in DeleteFlows(gone, fail)
    <3>1. n \in DOMAIN lbflows /\ n \notin gone
      BY <1>0, <2>1, <2>2 DEF DeleteFlows
    <3> QED BY <3>1
  <2> QED BY <1>1, <2>2
<1>7. /\ refused' \subseteq Families \union {"nats", "set", "delete"}
      /\ \A x \in Families \union {"nats"} : x \in refused' <=> x \in refused
  BY <1>0, <1>1 DEF Families
<1>8. flowSvc' \in BOOLEAN
  BY <1>0, <1>1
<1>9. DOMAIN lbflows' \subseteq DOMAIN flows'
  BY <1>1
<1> QED BY <1>4, <1>5, <1>6, <1>7, <1>8, <1>9 DEF FlowInv

(* What SetFlow leaves out of a flow does not change the packets it selects. *)
LEMMA SimplifiedSame ==
  ASSUME NEW f, IsFlow(f), f.dsts # {},
         AnyIPRange(f.srcs) => f.srcs = {} \/ \A fam \in Families : InFamily(f.srcs, fam) # {},
         NEW p \in Packets
  PROVE  ArgsMatch(FlowArgs(f), p) <=> FlowMatches(f, p)
<1> DEFINE a == FlowArgs(f)
<1>0. p.family \in Families /\ p.src \in Addresses /\ p.sport \in Ports /\ p.dport \in Ports
  BY PacketsAssumption
<1>1. /\ a.protos = f.protos /\ a.dsts = f.dsts
      /\ a.srcs = IF AnyIPRange(f.srcs) THEN {} ELSE f.srcs
      /\ a.dports = IF AnyPortRange(f.dports) THEN {} ELSE f.dports
      /\ a.sports = IF AnyPortRange(f.sports) THEN {} ELSE f.sports
  BY DEF FlowArgs, IsFlow
<1> HIDE DEF a
<1>2. (a.srcs # {} => Contains(a.srcs, p.family, p.src)) <=> (f.srcs = {} \/ Contains(f.srcs, p.family, p.src))
  <2>1. CASE AnyIPRange(f.srcs) /\ f.srcs # {}
    <3>1. PICK x \in f.srcs : x.family = p.family
      BY <1>0, <2>1 DEF InFamily
    <3>2. x.size = MaxAddress + 1 /\ x.first \in Nat /\ x.first + x.size <= MaxAddress + 1
      BY <2>1 DEF AnyIPRange, IsFlow, IsSubnet
    <3>3. x.first = 0
      BY <3>2, MaxAddressAssumption
    <3>4. p.src \in AddressesOf(x)
      BY <1>0, <3>2, <3>3, MaxAddressAssumption DEF AddressesOf, Addresses
    <3> QED BY <1>1, <2>1, <3>1, <3>4 DEF Contains
  <2>2. CASE ~AnyIPRange(f.srcs) \/ f.srcs = {}
    BY <1>1, <2>2
  <2> QED BY <2>1, <2>2
<1>3. ASSUME NEW ranges, NEW port \in Ports, AnyPortRange(ranges)
      PROVE  InRanges(ranges, port)
  BY <1>3, MaxPortAssumption DEF AnyPortRange, AnyRange, InRanges, Ports
<1>4. (a.dports # {} => InRanges(a.dports, p.dport)) <=> (f.dports = {} \/ InRanges(f.dports, p.dport))
  BY <1>0, <1>1, <1>3
<1>5. (a.sports # {} => InRanges(a.sports, p.sport)) <=> (f.sports = {} \/ InRanges(f.sports, p.sport))
  BY <1>0, <1>1, <1>3
<1>6. ArgsMatch(a, p) <=> FlowMatches(f, p)
  BY <1>1, <1>2, <1>4, <1>5 DEF ArgsMatch, FlowMatches
<1> QED BY <1>6 DEF a

-----------------------------------------------------------------------------
(* Port NAT                                                                *)

(* watchConduit keeps what is said of the NATs. *)
LEMMA WatchConduitKeeps ==
  ASSUME IndInv, NEW fail, WatchConduit(fail)
  PROVE  /\ NatInv'
         /\ refused' \subseteq Families \union {"nats", "set", "delete"}
         /\ \A x \in Families \union {"set", "delete"} : x \in refused' <=> x \in refused
<1> DEFINE names == NatNames(nats)
           m == Restrict(natmap, DOMAIN natmap \ NatsGone)
           kernel == Restrict(natK, DOMAIN natK \ (NatsGone \ fail))
           known(n) == IF n \in DOMAIN m THEN m[n] ELSE {}
           res == [n \in names |-> SetVips(Found(kernel, n), known(n), VipsOf(nats, n))]
           worked == {n \in names : n \notin fail /\ res[n].ok}
<1>0. /\ natmap = [n \in DOMAIN natmap |-> natmap[n]] /\ natK = [n \in DOMAIN natK |-> natK[n]]
      /\ DOMAIN natmap \subseteq DOMAIN natK
      /\ "nats" \notin refused => /\ \A n \in DOMAIN natmap : natmap[n] \subseteq natK[n]
                                  /\ ~restarted => natK = natmap
      /\ refused \subseteq Families \union {"nats", "set", "delete"}
  BY DEF IndInv, NatInv, Shapes
<1>1. /\ natmap' = [n \in DOMAIN m \union worked |-> VipsOf(nats, n)]
      /\ natK' = [n \in DOMAIN kernel \union names |-> IF n \in worked THEN res[n].k ELSE Found(kernel, n)]
      /\ refused' = refused \union (IF fail \intersect NatsGone # {} \/ worked # names THEN {"nats"} ELSE {})
      /\ nats' = nats /\ restarted' = restarted
  BY Zenon DEF WatchConduit, SetNats, DeleteNats, SetNat, config
<1>2. DOMAIN m = DOMAIN natmap \intersect names /\ DOMAIN kernel = DOMAIN natK \ (NatsGone \ fail)
  BY DEF NatsGone, Restrict
<1>3. DOMAIN natmap' \subseteq DOMAIN natK'
  BY <1>0, <1>1, <1>2, Zenon DEF NatsGone
<1>4. ASSUME "nats" \notin refused'
      PROVE  /\ \A n \in DOMAIN natmap' : natmap'[n] \subseteq natK'[n]
             /\ ~restarted' => natK' = natmap'
             /\ natmap' = [n \in NatNames(nats)' |-> VipsOf(nats, n)']
  <2>1. "nats" \notin refused /\ fail \intersect NatsGone = {} /\ worked = names
    BY <1>1, <1>4, Zenon
  <2>2. natmap' = [n \in names |-> VipsOf(nats, n)]
    BY <1>1, <1>2, <2>1, Zenon
  <2>3. ASSUME NEW n \in names
        PROVE  /\ natK'[n] = res[n].k /\ n \in DOMAIN natK'
               /\ VipsOf(nats, n) \subseteq res[n].k
               /\ ~restarted => res[n].k = VipsOf(nats, n)
    <3> DEFINE new == VipsOf(nats, n)
               k == Found(kernel, n)
               old == known(n)
    <3>1. res[n].ok /\ natK'[n] = res[n].k /\ n \in DOMAIN natK'
      BY <1>1, <2>1, Zenon
    <3>2. res[n] = SetVips(k, old, new)
      OBVIOUS
    <3>3. old \subseteq k /\ (~restarted => k = old)
      <4>1. n \in DOMAIN natK => n \in DOMAIN kernel /\ kernel[n] = natK[n]
        BY <1>2 DEF NatsGone, Restrict
      <4>2. n \in DOMAIN natmap => n \in DOMAIN m /\ m[n] = natmap[n]
        BY <1>2 DEF NatsGone, Restrict
      <4>3. n \notin DOMAIN natmap => old = {}
        BY <1>2
      <4>4. n \notin DOMAIN natK => k = {}
        BY <1>2 DEF Found
      <4>5. n \in DOMAIN natK => k = natK[n]
        BY <4>1 DEF Found
      <4>6. n \in DOMAIN natmap => old = natmap[n]
        BY <4>2
      <4> HIDE DEF k, old
      <4> QED BY <1>0, <2>1, <4>3, <4>4, <4>5, <4>6
    <3> HIDE DEF res, k, old, new
    <3>4. res[n].k = (k \ (old \ new)) \union (new \ old)
      BY <3>1, <3>2 DEF SetVips
    <3>5. new \subseteq res[n].k /\ (~restarted => res[n].k = new)
      BY <3>3, <3>4
    <3> QED BY <3>1, <3>5 DEF new
  <2> HIDE DEF res
  <2>4. \A n \in DOMAIN natmap' : natmap'[n] \subseteq natK'[n]
    BY <2>2, <2>3
  <2>5. ~restarted' => natK' = natmap'
    <3> SUFFICES ASSUME ~restarted PROVE natK' = natmap'
      BY <1>1, Zenon
    <3>1. natK = natmap
      BY <1>0, <2>1
    <3>2. DOMAIN natK' = names
      BY <1>1, <1>2, <2>1, <3>1, Zenon DEF NatsGone
    <3>3. natK' = [n \in names |-> natK'[n]]
      BY <1>1, <3>2, Zenon
    <3> QED BY <2>2, <2>3, <3>3
  <2>6. natmap' = [n \in NatNames(nats)' |-> VipsOf(nats, n)']
    BY <1>1, <2>2, Zenon DEF NatNames, VipsOf
  <2> QED BY <2>4, <2>5, <2>6
<1>5. /\ refused' \subseteq Families \union {"nats", "set", "delete"}
      /\ \A x \in Families \union {"set", "delete"} : x \in refused' <=> x \in refused
  BY <1>0, <1>1 DEF Families
<1>6. natmap' = [n \in DOMAIN natmap' |-> natmap'[n]] /\ natK' = [n \in DOMAIN natK' |-> natK'[n]]
  BY <1>1, Zenon
<1> QED BY <1>3, <1>4, <1>5, <1>6 DEF NatInv
-----------------------------------------------------------------------------
(* The invariant                                                           *)

LEMMA InitInv == Init => IndInv
<1> SUFFICES ASSUME Init PROVE IndInv
  OBVIOUS
<1>1. Shapes
  BY VipListsAssumption, NatListsAssumption, FlowListsAssumption, Zenon DEF Init, Shapes
<1>2. VipInv
  BY DEF Init, VipInv, VipsOK, InFamily, Disjoint, Families
<1>3. FlowInv
  BY DEF Init, FlowInv, NoEntries
<1>4. NatInv
  BY DEF Init, NatInv, NoEntries, NatNames
<1> QED BY <1>1, <1>2, <1>3, <1>4 DEF IndInv

(* The sets are as they were: every step but those of watchVips and a restart. *)
LEMMA SetsKept ==
  ASSUME VipInv, UNCHANGED <<vipset, skipped, restarted>>,
         \A f \in Families : f \in refused' <=> f \in refused,
         \/ "vips" \in unread'
         \/ vips' = vips /\ ("vips" \in unread' <=> "vips" \in unread)
  PROVE  VipInv'
<1>1. \A f \in Families : VipsOK(f) /\ vipset'[f] = vipset[f]
  BY DEF VipInv
<1>2. ASSUME NEW f \in Families PROVE VipsOK(f)'
  BY <1>1, VipsKept
<1> QED BY <1>2 DEF VipInv

LEMMA FlowsKept ==
  ASSUME FlowInv, UNCHANGED flow, "set" \in refused' <=> "set" \in refused, "delete" \in refused' <=> "delete" \in refused,
         \/ "flows" \in unread'
         \/ flows' = flows /\ ("flows" \in unread' <=> "flows" \in unread)
  PROVE  FlowInv'
  BY DEF FlowInv, flow

LEMMA NatsKept ==
  ASSUME NatInv, UNCHANGED <<nat, restarted>>, "nats" \in refused' <=> "nats" \in refused,
         \/ "nats" \in unread'
         \/ nats' = nats /\ ("nats" \in unread' <=> "nats" \in unread)
  PROVE  NatInv'
  BY Zenon DEF NatInv, nat, NatNames, VipsOf

LEMMA RestartInv ==
  ASSUME IndInv, Restart
  PROVE  IndInv'
<1>0. /\ vipset' = [f \in Families |-> [vipset[f] EXCEPT !.known = {}]]
      /\ natmap' = NoEntries /\ natK' = natK
      /\ lbflows' = NoEntries /\ nfq' = NoEntries /\ flowSvc' = FALSE
      /\ unread' = Kinds /\ skipped' = FALSE /\ refused' = {} /\ restarted' = TRUE
      /\ vips' = vips /\ nats' = nats /\ flows' = flows
  BY DEF Restart, NewNFSets, NewNatHandler, StartNfqlb, config
<1>1. Shapes'
  BY <1>0, Zenon DEF IndInv, Shapes
<1>2. VipInv'
  <2>1. ASSUME NEW f \in Families
        PROVE  VipsOK(f)'
    <3>1. VipsOK(f)
      BY DEF IndInv, VipInv
    <3>2. vipset[f] = [known |-> vipset[f].known, kernel |-> vipset[f].kernel]
      BY <3>1 DEF VipsOK
    <3>3. vipset'[f] = [known |-> {}, kernel |-> vipset[f].kernel]
      BY <1>0, <3>2, Zenon
    <3>4. "vips" \in unread' /\ restarted'
      BY <1>0 DEF Kinds
    <3>5. vipset'[f].known = {} /\ vipset'[f].kernel = vipset[f].kernel
      BY <3>3
    <3> QED BY <3>1, <3>3, <3>4, <3>5, Zenon DEF VipsOK
  <2> QED BY <1>0, <2>1 DEF VipInv
<1>3. FlowInv'
  BY <1>0 DEF FlowInv, NoEntries, Kinds
<1>4. NatInv'
  <2>1. "nats" \in unread' /\ restarted'
    BY <1>0 DEF Kinds
  <2> QED BY <1>0, <2>1 DEF IndInv, NatInv, NoEntries
<1> QED BY <1>1, <1>2, <1>3, <1>4 DEF IndInv

LEMMA NextInv == IndInv /\ [Next]_vars => IndInv'
<1> SUFFICES ASSUME IndInv, [Next]_vars PROVE IndInv'
  OBVIOUS
<1>0. Shapes /\ VipInv /\ FlowInv /\ NatInv
  BY DEF IndInv
<1>1. CASE EditVips
  <2>1. /\ vips' \in VipLists /\ unread' = unread \union {"vips"}
        /\ UNCHANGED <<nats, flows, vipset, skipped, natmap, natK, lbflows, nfq, flowSvc, refused, restarted>>
    BY <1>1 DEF EditVips, nfset, nat, flow
  <2>2. Shapes'
    BY <1>0, <2>1 DEF Shapes, Kinds
  <2>3. VipInv' /\ FlowInv' /\ NatInv'
    BY <1>0, <2>1, SetsKept, FlowsKept, NatsKept DEF nat, flow
  <2> QED BY <2>2, <2>3 DEF IndInv
<1>2. CASE EditNats
  <2>1. /\ nats' \in NatLists /\ unread' = unread \union {"nats"}
        /\ UNCHANGED <<vips, flows, vipset, skipped, natmap, natK, lbflows, nfq, flowSvc, refused, restarted>>
    BY <1>2 DEF EditNats, nfset, nat, flow
  <2>2. Shapes'
    BY <1>0, <2>1 DEF Shapes, Kinds
  <2>3. VipInv' /\ FlowInv' /\ NatInv'
    BY <1>0, <2>1, SetsKept, FlowsKept, NatsKept DEF nat, flow
  <2> QED BY <2>2, <2>3 DEF IndInv
<1>3. CASE EditFlows
  <2>1. /\ flows' \in FlowLists /\ unread' = unread \union {"flows"}
        /\ UNCHANGED <<vips, nats, vipset, skipped, natmap, natK, lbflows, nfq, flowSvc, refused, restarted>>
    BY <1>3 DEF EditFlows, nfset, nat, flow
  <2>2. Shapes'
    BY <1>0, <2>1 DEF Shapes, Kinds
  <2>3. VipInv' /\ FlowInv' /\ NatInv'
    BY <1>0, <2>1, SetsKept, FlowsKept, NatsKept DEF nat, flow
  <2> QED BY <2>2, <2>3 DEF IndInv
<1>4. ASSUME NEW fail, WatchVips(fail)
      PROVE  IndInv'
  <2>1. VipInv' /\ skipped' \in BOOLEAN /\ refused' \subseteq Families \union {"nats", "set", "delete"}
    BY <1>4, WatchVipsKeeps
  <2>2. /\ unread' = unread \ {"vips"}
        /\ UNCHANGED <<vips, nats, flows, natmap, natK, lbflows, nfq, flowSvc, restarted>>
    BY <1>4 DEF WatchVips, config, nat, flow
  <2>3. \A x \in {"nats", "set", "delete"} : x \in refused' <=> x \in refused
    BY <1>4 DEF WatchVips, SetDestinationIPs
  <2>4. Shapes'
    BY <1>0, <2>1, <2>2 DEF Shapes
  <2>5. FlowInv' /\ NatInv'
    BY <1>0, <2>2, <2>3, FlowsKept, NatsKept DEF nat, flow
  <2> QED BY <2>1, <2>4, <2>5 DEF IndInv
<1>5. ASSUME NEW fail, WatchConduit(fail)
      PROVE  IndInv'
  <2>1. /\ NatInv' /\ refused' \subseteq Families \union {"nats", "set", "delete"}
        /\ \A x \in Families \union {"set", "delete"} : x \in refused' <=> x \in refused
    BY <1>5, WatchConduitKeeps
  <2>2. /\ unread' = unread \ {"nats"}
        /\ UNCHANGED <<vips, nats, flows, vipset, skipped, lbflows, nfq, flowSvc, restarted>>
    BY <1>5 DEF WatchConduit, config, nfset, flow
  <2>3. Shapes'
    BY <1>0, <2>1, <2>2 DEF Shapes
  <2>4. VipInv' /\ FlowInv'
    BY <1>0, <2>1, <2>2, SetsKept, FlowsKept DEF flow
  <2> QED BY <2>1, <2>3, <2>4 DEF IndInv
<1>6. ASSUME NEW fail, WatchFlows(fail)
      PROVE  IndInv'
  <2>1. /\ FlowInv' /\ flowSvc' \in BOOLEAN /\ refused' \subseteq Families \union {"nats", "set", "delete"}
        /\ \A x \in Families \union {"nats"} : x \in refused' <=> x \in refused
    BY <1>6, WatchFlowsKeeps
  <2>2. /\ unread' = unread \ {"flows"}
        /\ UNCHANGED <<vips, nats, flows, vipset, skipped, natmap, natK, restarted>>
    BY <1>6 DEF WatchFlows, config, nfset, nat
  <2>3. Shapes'
    BY <1>0, <2>1, <2>2 DEF Shapes
  <2>4. VipInv' /\ NatInv'
    BY <1>0, <2>1, <2>2, SetsKept, NatsKept DEF nat
  <2> QED BY <2>1, <2>3, <2>4 DEF IndInv
<1>7. CASE Restart
  BY <1>7, RestartInv
<1>8. CASE UNCHANGED vars
  <2>1. UNCHANGED <<vips, nats, flows, unread, vipset, skipped, natmap, natK, lbflows, nfq, flowSvc, refused, restarted>>
    BY <1>8 DEF vars
  <2>2. Shapes'
    BY <1>0, <2>1 DEF Shapes
  <2>3. VipInv' /\ FlowInv' /\ NatInv'
    BY <1>0, <2>1, SetsKept, FlowsKept, NatsKept DEF nat, flow
  <2> QED BY <2>2, <2>3 DEF IndInv
<1> QED BY <1>1, <1>2, <1>3, <1>4, <1>5, <1>6, <1>7, <1>8 DEF Next

(* The invariant holds: what the process knows of its sets, NATs and flows *)
(* is what the kernel and nfqlb have, up to the batches and commands that  *)
(* were refused and what a restart left behind.                            *)
THEOREM InvariantHolds == Spec => []IndInv
  BY InitInv, NextInv, PTL DEF Spec

(* A packet to a configured VIP, and before a restart no other, is given to *)
(* nfqlb whole, for prefixes up to the end of an address space of any size  *)
(* (setIPs, SetDestinationIPs, nextIP and the chains of defrag.go).         *)
THEOREM TrafficIsQueued == Spec => []TrafficQueued
<1>1. ASSUME IndInv PROVE TypeOK
  BY <1>1, Zenon DEF IndInv, Shapes, VipInv, VipsOK, NatInv, TypeOK
<1>2. ASSUME IndInv, NEW f \in Families, NEW a \in Addresses
      PROVE  InVipSet(vipset[f].kernel, f, a) <=> Contains(vipset[f].kernel, f, a)
  <2> DEFINE k == vipset[f].kernel
  <2>1. Disjoint(k) /\ k \subseteq InFamily(UNION VipLists, f)
    BY <1>2, Zenon DEF IndInv, VipInv, VipsOK
  <2>2. InFamily(k, f) = k /\ \A x \in k : IsSubnet(x) /\ x.family = f
    BY <2>1, VipListsAssumption DEF InFamily
  <2> HIDE DEF k
  <2>3. InVipSet(k, f, a) <=> Lookup(Elements(k), a)
    BY <2>2 DEF InVipSet, Elements
  <2>4. Lookup(Elements(k), a) <=> \E x \in k : a \in AddressesOf(x)
    BY <2>1, <2>2, LookupFinds
  <2>5. InVipSet(k, f, a) <=> Contains(k, f, a)
    BY <2>2, <2>3, <2>4 DEF Contains
  <2> QED BY <2>5 DEF k
<1>3. ASSUME IndInv PROVE VipsQueued
  <2> SUFFICES ASSUME NEW f \in Families, "vips" \notin unread, f \notin refused, f = "ipv6" => ~skipped,
                      NEW a \in Addresses
               PROVE  /\ Contains(vips, f, a) => InVipSet(vipset[f].kernel, f, a)
                      /\ ~restarted => (InVipSet(vipset[f].kernel, f, a) => Contains(vips, f, a))
    BY DEF VipsQueued, Queued
  <2>1. InFamily(vips, f) \subseteq vipset[f].kernel /\ (~restarted => vipset[f].kernel = InFamily(vips, f))
    BY <1>3 DEF IndInv, VipInv, VipsOK
  <2>2. InVipSet(vipset[f].kernel, f, a) <=> Contains(vipset[f].kernel, f, a)
    BY <1>2, <1>3
  <2> QED BY <2>1, <2>2 DEF Contains, InFamily
<1>4. FragmentsQueuedWhole
  BY DEF FragmentsQueuedWhole, UntrackedBefore, DefragChains, KernelDefrag
<1>5. IndInv => TrafficQueued
  BY <1>1, <1>3, <1>4 DEF TrafficQueued
<1> QED BY <1>5, InvariantHolds, PTL

(* An ICMP "too big" about a marked packet to a VIP leaves with the VIP as *)
(* its source, and other packets of the host pass the chain snat-local as  *)
(* they are, whatever the sets hold.                                       *)
THEOREM RepliesFromVip == Spec => []RepliesComeFromVip
<1>1. RepliesComeFromVip
  <2> SUFFICES ASSUME NEW p \in Replies, NEW k, NEW q, q = SnatLocal(k, p)
               PROVE  /\ (p.toobig /\ FirstByte(p.mark) # 0 /\ InVipSet(k, p.family, p.inner) /\ ~InVipSet(k, p.family, p.dst))
                             => InVipSet(k, p.family, q.src)
                      /\ (p.mark = 0 \/ QueuedLocal(k, p)) => q = p
    BY DEF RepliesComeFromVip
  <2>0. /\ p.icmp /\ p.family \in Families
        /\ p = [family |-> p.family, src |-> p.src, dst |-> p.dst, inner |-> p.inner, mark |-> p.mark,
                toobig |-> p.toobig, icmp |-> p.icmp]
    BY RepliesAssumption
  <2>1. p.mark = 0 => FirstByte(p.mark) = 0
    BY ByteAssumption DEF FirstByte
  <2>2. CASE ~SnatMatches(k, p)
    <3>1. q = p
      BY <2>2 DEF SnatLocal, SnatIPv4Rule, SnatIPv6Rule
    <3> QED BY <2>0, <2>2, <3>1 DEF SnatMatches
  <2>3. CASE SnatMatches(k, p)
    <3>1. q.src = p.inner
      BY <2>0, <2>3 DEF SnatLocal, SnatIPv4Rule, SnatIPv6Rule, Families
    <3>2. p.mark # 0 /\ ~QueuedLocal(k, p)
      BY <2>1, <2>3 DEF SnatMatches, QueuedLocal
    <3>3. InVipSet(k, p.family, p.inner)
      BY <2>3 DEF SnatMatches
    <3> QED BY <3>1, <3>2, <3>3
  <2> QED BY <2>2, <2>3
<1> QED BY <1>1, PTL

(* nfqlb has the flows of the configuration once none of their commands    *)
(* failed, and each selects what the configured flow selects (SetFlows,    *)
(* SetFlow, anyIPRange and anyPortRange).                                  *)
THEOREM FlowsAreServed == Spec => []FlowsServed
<1>1. ASSUME IndInv PROVE FlowsInstalled
  BY <1>1 DEF IndInv, FlowInv, FlowsInstalled
<1>2. ASSUME IndInv PROVE SimplifiedFlowsSame
  <2> SUFFICES ASSUME NEW n \in DOMAIN nfq \intersect DOMAIN lbflows, lbflows[n].dsts # {},
                      AnyIPRange(lbflows[n].srcs) =>
                          \/ lbflows[n].srcs = {}
                          \/ \A fam \in Families : InFamily(lbflows[n].srcs, fam) # {},
                      NEW p \in Packets
               PROVE  ArgsMatch(nfq[n], p) <=> FlowMatches(lbflows[n], p)
    BY DEF SimplifiedFlowsSame
  <2>1. IsFlow(lbflows[n]) /\ nfq[n] = FlowArgs(lbflows[n])
    BY <1>2 DEF IndInv, FlowInv
  <2> QED BY <2>1, SimplifiedSame
<1>3. IndInv => FlowsServed
  BY <1>1, <1>2 DEF FlowsServed
<1> QED BY <1>3, InvariantHolds, PTL

(* The kernel has the NATs of the configuration, and before a restart no   *)
(* others, once the list is taken in and no batch was refused (SetNats).   *)
THEOREM NatsAreInstalled == Spec => []NatsInstalled
<1>1. IndInv => NatsInstalled
  BY DEF IndInv, NatInv, NatsInstalled
<1> QED BY <1>1, InvariantHolds, PTL
=============================================================================
