---------------------------- MODULE MCDatapath ----------------------------
(* Two-bit addresses and ports, bytes of two bits. *)
EXTENDS Datapath

Prefix(f, first, size) == [family |-> f, first |-> first, size |-> size]
A == Prefix("ipv4", 0, 2)
B == Prefix("ipv4", 3, 1)
C == Prefix("ipv4", 1, 1)
D == Prefix("ipv6", 2, 2)
E == Prefix("ipv6", 0, 1)

SomeVipLists == {l \in SUBSET {A, B, C, D, E} : Cardinality(l) <= 2} \union {{A, B, D, E}, {B, C, D, E}}

PortNat(port, target, proto, v) == [port |-> port, target |-> target, proto |-> proto, vips |-> v]
SomeNatLists ==
    {l \in SUBSET {PortNat(1, 2, "tcp", {A}), PortNat(1, 2, "tcp", {A, B}), PortNat(2, 3, "tcp", {A}), PortNat(2, 3, "tcp", {B}),
                   PortNat(1, 3, "udp", {A, D}), PortNat(0, 3, "tcp", {C, B})} : Cardinality(l) <= 2}

Flow(prio, dsts, srcs, dports) ==
    [prio |-> prio, protos |-> {"tcp"}, dsts |-> dsts, srcs |-> srcs, dports |-> dports, sports |-> {<<0, 3>>}]
All4 == Prefix("ipv4", 0, 4)
All6 == Prefix("ipv6", 0, 4)
SomeFlows ==
    {Flow(1, {A, D}, {All4, All6}, {<<0, 3>>}), Flow(1, {A, D}, {All4, E}, {<<1, 1>>, <<0, 3>>}),
     Flow(1, {A}, {B}, {<<1, 2>>}), Flow(1, {A, D}, {}, {}), Flow(2, {D}, {All4}, {<<3, 3>>})}
SomeFlowLists == UNION {[S -> SomeFlows] : S \in SUBSET {"f1", "f2"}}

Budget(v, n, f) == [vips |-> v, nats |-> n, flows |-> f, faults |-> 1, restarts |-> 1]
OnePart == {Budget(3, 0, 0), Budget(0, 3, 0), Budget(0, 0, 2)}

SomePackets ==
    {[family |-> f, src |-> s, dst |-> d, proto |-> pr, sport |-> 0, dport |-> dp, csum |-> TRUE] :
        f \in Families, s \in {0, 2}, d \in {0, 1, 3}, pr \in {"tcp", "udp"}, dp \in Ports}
SomeReplies ==
    {[family |-> f, src |-> 2, dst |-> d, inner |-> i, mark |-> m, toobig |-> t, icmp |-> TRUE] :
        f \in Families, d \in {1, 3}, i \in {0, 3}, m \in {0, 3, 4, 5}, t \in BOOLEAN}
=============================================================================
