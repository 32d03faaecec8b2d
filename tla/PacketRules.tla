---------------------------- MODULE PacketRules ----------------------------
(***************************************************************************)
(* What the kernel and nfqlb do to a packet, given the tables Meridio      *)
(* writes: the nftables sets and rules of pkg/loadbalancer/nfqlb and       *)
(* pkg/nat, the chains of pkg/loadbalancer/stream/defrag.go and the flows  *)
(* given to nfqlb.                                                         *)
(*                                                                         *)
(* An address is a number of 0..MaxAddress in one of two families, a       *)
(* prefix its first address and its size.  The kernel's side (how a set of *)
(* interval elements is looked up, when a batch is refused, how nfqlb      *)
(* matches a flow) is external.                                            *)
(***************************************************************************)
EXTENDS Integers, Sequences, FiniteSets

CONSTANTS
    MaxAddress,  \* the highest address of a family
    MaxPort,     \* the highest port: 65535
    Byte         \* number of values of a byte: 256

ASSUME MaxAddressAssumption == MaxAddress \in Nat
ASSUME MaxPortAssumption == MaxPort \in Nat
ASSUME ByteAssumption == Byte \in Nat \ {0}

Families == {"ipv4", "ipv6"}
Addresses == 0..MaxAddress
Ports == 0..MaxPort

IsSubnet(x) ==
    /\ x.family \in Families
    /\ x.first \in Nat /\ x.size \in Nat \ {0} /\ x.first + x.size <= MaxAddress + 1

AddressesOf(prefix) == prefix.first .. (prefix.first + prefix.size - 1)
Contains(prefixes, family, a) == \E x \in prefixes : x.family = family /\ a \in AddressesOf(x)
Overlap(x, y) == x.family = y.family /\ AddressesOf(x) \intersect AddressesOf(y) # {}
InFamily(prefixes, family) == {x \in prefixes : x.family = family}

-----------------------------------------------------------------------------
(* Sets of interval elements                                               *)

Broadcast(prefix) == prefix.first + prefix.size - 1

(* The address after a; the last one is followed by the first. *)
NextIP(a) == (a + 1) % (MaxAddress + 1)

(* The start of the interval and the first address after it. *)
SetElements(prefix) ==
    {[key |-> prefix.first, end |-> FALSE], [key |-> NextIP(Broadcast(prefix)), end |-> TRUE]}

(* Lookup: the element with the greatest key not above a is a start. *)
Lookup(elements, a) ==
    LET below == {e.key : e \in {x \in elements : x.key <= a}}
    IN  \E k \in below : /\ \A j \in below : j <= k
                         /\ [key |-> k, end |-> FALSE] \in elements

(* A batch of deletions, then additions, is applied as a whole or refused: *)
(* what is deleted must be there, what is added must not overlap the rest. *)
BatchOK(prefixes, del, add) ==
    /\ del \subseteq prefixes
    /\ \A x \in add, y \in (prefixes \ del) \union add : x # y => ~Overlap(x, y)

-----------------------------------------------------------------------------
(* The nfqlb table                                                         *)

InVipSet(vips, family, a) == Lookup(UNION {SetElements(v) : v \in InFamily(vips, family)}, a)

(* Chain nfqlb (prerouting): packets to a VIP go to the queues. *)
Queued(vips, p) == InVipSet(vips, p.family, p.dst)

(* Chain nfqlb-local (output): so do ICMP packets of this host. *)
QueuedLocal(vips, p) == p.icmp /\ InVipSet(vips, p.family, p.dst)

(* The first byte of a mark as a little-endian machine stores it. *)
FirstByte(mark) == mark % Byte

(* Mutant: replies about packets nfqlb has not marked match too. *)
SnatMatchesUnmarked(vips, p) ==
    /\ p.icmp /\ p.toobig
    /\ ~InVipSet(vips, p.family, p.dst) /\ ~InVipSet(vips, p.family, p.src)
    /\ InVipSet(vips, p.family, p.inner)

(* The matches common to the two rules of chain snat-local; the comparison *)
(* of the mark with zero has one byte of data.                             *)
SnatMatches(vips, p) ==
    /\ p.icmp /\ p.toobig
    /\ FirstByte(p.mark) # 0
    /\ ~InVipSet(vips, p.family, p.dst) /\ ~InVipSet(vips, p.family, p.src)
    /\ InVipSet(vips, p.family, p.inner)

SnatIPv4Rule(vips, p) ==
    IF p.family = "ipv4" /\ SnatMatches(vips, p) THEN [p EXCEPT !.src = p.inner, !.mark = 0] ELSE p

SnatIPv6Rule(vips, p) ==
    IF p.family = "ipv6" /\ SnatMatches(vips, p) THEN [p EXCEPT !.src = p.inner, !.mark = 0] ELSE p

(* Chain snat-local (output, before nfqlb-local). *)
SnatLocal(vips, p) == SnatIPv6Rule(vips, SnatIPv4Rule(vips, p))

-----------------------------------------------------------------------------
(* The defragmentation table.  Chains run by priority; the kernel          *)
(* reassembles, at -400, the fragments of packets no chain has untracked.  *)

KernelDefrag == -400

(* The chains of configure, each with the notrack rule setupRules gives it: *)
(* for the interfaces with the excluded prefix only, or for any packet.     *)
DefragChains ==
    {[name |-> "pre-defrag", hook |-> "prerouting", priority |-> -500, excluded |-> TRUE],
     [name |-> "in", hook |-> "prerouting", priority |-> -300, excluded |-> FALSE],
     [name |-> "out", hook |-> "output", priority |-> -300, excluded |-> FALSE]}

UntrackedBefore(chains, hook, fromTarget, priority) ==
    \E c \in chains : c.hook = hook /\ c.priority < priority /\ (c.excluded => fromTarget)

-----------------------------------------------------------------------------
(* Port NAT                                                                *)

NatName(nat) == <<nat.port, nat.target, nat.proto>>

(* encodePort keeps 16 bits. *)
EncodePort(port) == port % (MaxPort + 1)

(* buildSrcRule: a reply of a target gets the port the client used.  The  *)
(* checksum is patched where TCP has it.                                  *)
SrcRule(name, vips, p) ==
    IF InVipSet(vips, p.family, p.src) /\ p.proto = name[3] /\ p.sport = EncodePort(name[2])
    THEN [p EXCEPT !.sport = EncodePort(name[1]), !.csum = @ /\ p.proto = "tcp"] ELSE p

(* buildDestRule: a packet to a VIP gets the port of the targets. *)
DestRule(name, vips, p) ==
    IF InVipSet(vips, p.family, p.dst) /\ p.proto = name[3] /\ p.dport = EncodePort(name[1])
    THEN [p EXCEPT !.dport = EncodePort(name[2]), !.csum = @ /\ p.proto = "tcp"] ELSE p

(* The chain of one NAT: its destination rules, then its source rules. *)
NatChain(name, vips, p) == SrcRule(name, vips, DestRule(name, vips, p))

(* All NAT chains have one priority: they run in the order of `order'. *)
Translate(order, vipsOf, p) ==
    LET after[i \in 0..Len(order)] ==
          IF i = 0 THEN p ELSE NatChain(order[i], vipsOf[order[i]], after[i - 1])
    IN  after[Len(order)]

(* Mutant: the target port of one NAT may be the port of another. *)
ValidPortNatsNoCross(nats) ==
    \A m, n \in nats : m # n =>
        /\ NatName(m) # NatName(n)
        /\ (m.proto = n.proto /\ m.vips \intersect n.vips # {}) => (m.target # n.target /\ m.port # n.port)

(* validatePortNat: two NATs of one protocol that share a VIP have four      *)
(* different ports between them, and no two have the same name.              *)
ValidPortNats(nats) ==
    \A m, n \in nats : m # n =>
        /\ NatName(m) # NatName(n)
        /\ (m.proto = n.proto /\ m.vips \intersect n.vips # {}) => {m.port, m.target} \intersect {n.port, n.target} = {}

-----------------------------------------------------------------------------
(* Flows                                                                   *)

AnyRange == <<0, MaxPort>>

(* anyPortRange: some range is the range of all ports. *)
AnyPortRange(ranges) == AnyRange \in ranges

(* anyIPRange: every prefix is the prefix of all addresses. *)
AnyIPRange(prefixes) == \A x \in prefixes : x.size = MaxAddress + 1

(* Mutant: one prefix of all addresses is enough to drop the selector. *)
FlowArgsSomeRange(f) ==
    [f EXCEPT !.srcs = IF \E x \in @ : AnyIPRange({x}) THEN {} ELSE @,
              !.dports = IF AnyPortRange(@) THEN {} ELSE @,
              !.sports = IF AnyPortRange(@) THEN {} ELSE @]

(* What SetFlow gives to nfqlb; an empty selector is one left out. *)
FlowArgs(f) ==
    [f EXCEPT !.srcs = IF AnyIPRange(@) THEN {} ELSE @,
              !.dports = IF AnyPortRange(@) THEN {} ELSE @,
              !.sports = IF AnyPortRange(@) THEN {} ELSE @]

InRanges(ranges, port) == \E r \in ranges : port \in r[1]..r[2]

(* How nfqlb matches: by every selector it was given. *)
ArgsMatch(a, p) ==
    /\ p.proto \in a.protos
    /\ a.dsts # {} => Contains(a.dsts, p.family, p.dst)
    /\ a.srcs # {} => Contains(a.srcs, p.family, p.src)
    /\ a.dports # {} => InRanges(a.dports, p.dport)
    /\ a.sports # {} => InRanges(a.sports, p.sport)

(* What the flow of the configuration selects; sources and ports that are *)
(* not given may be any.                                                  *)
FlowMatches(f, p) ==
    /\ p.proto \in f.protos
    /\ Contains(f.dsts, p.family, p.dst)
    /\ f.srcs = {} \/ Contains(f.srcs, p.family, p.src)
    /\ f.dports = {} \/ InRanges(f.dports, p.dport)
    /\ f.sports = {} \/ InRanges(f.sports, p.sport)

=============================================================================
