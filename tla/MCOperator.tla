----------------------------- MODULE MCOperator -----------------------------
(* The operator on small instances. *)
EXTENDS Operator

vip == <<"vip", "v1">>
gateway == <<"gateway", "g1">>
conduit == <<"conduit", "c1">>
attractor1 == <<"attractor", "a1">>
attractor2 == <<"attractor", "a2">>
stream1 == <<"stream", "s1">>
stream2 == <<"stream", "s2">>
flow1 == <<"flow", "f1">>
flow2 == <<"flow", "f2">>

MCChildren ==
  {vip, gateway, conduit, attractor1, attractor2, stream1, stream2, flow1, flow2}

(* The attractors share a VIP; the flows share one, too, and their streams *)
(* are in different conduits.                                              *)
Attractor(vips, c, type) == [Blank EXCEPT !.vips = vips, !.conduit = c, !.type = type]

MCSpecs ==
  [c \in MCChildren |->
     CASE c \in {vip, gateway, conduit} -> {Blank, [Blank EXCEPT !.n = 1]}
       [] c = attractor1 -> {Attractor({"v1"}, "c1", "nsm-vlan"), Attractor({}, "c1", "nsm-vlan")}
       [] c = attractor2 -> {Attractor({"v1"}, "c2", "network-attachment")}
       [] c = stream1 -> {[Blank EXCEPT !.conduit = "c1"]}
       [] c = stream2 -> {[Blank EXCEPT !.conduit = "c2"]}
       [] c = flow1 -> {[Blank EXCEPT !.stream = "s1", !.vips = {"v1"}]}
       [] c = flow2 -> {[Blank EXCEPT !.stream = "s2", !.vips = {"v1"}]}]

Budget(t, u, m, f, r) == [trench |-> t, user |-> u, meddle |-> m, fail |-> f, restart |-> r]
Scene(p, cs, rs, b) == [present |-> p, children |-> cs, resources |-> rs, budget |-> b]

(* One scene for each hazard: a child created, edited or deleted around    *)
(* failures, foreign writes and a restart; the trench deleted under a      *)
(* child, or deleted and created again; attractors and flows that compete; *)
(* and every kind of resource.                                             *)
MCScenes == {
  Scene({Trench}, {vip}, {"cm"}, Budget(1, 1, 0, 0, 0)),
  Scene({Trench}, {vip}, {"cm"}, Budget(0, 2, 0, 1, 0)),
  Scene({Trench, vip}, {vip}, {"cm"}, Budget(0, 1, 1, 0, 1)),
  Scene({Trench, vip}, {}, {"cm"}, Budget(2, 0, 0, 0, 0)),
  Scene({}, {gateway}, {"cm"}, Budget(1, 1, 0, 0, 0)),
  Scene({Trench}, {attractor1, attractor2}, {"lb"}, Budget(0, 2, 0, 0, 0)),
  Scene({Trench}, {attractor2}, {"lb"}, Budget(1, 1, 0, 0, 0)),
  Scene({Trench, attractor2}, {}, {"lb"}, Budget(0, 0, 1, 0, 0)),
  Scene({Trench, attractor1}, {attractor1}, {"nse", "pdb"}, Budget(0, 0, 1, 0, 0)),
  Scene({Trench}, {conduit}, {"proxy"}, Budget(1, 1, 0, 0, 0)),
  Scene({Trench, conduit}, {conduit}, {"proxy"}, Budget(0, 1, 1, 1, 0)),
  Scene({Trench, stream1, flow1}, {stream2, flow2}, {"cm"}, Budget(0, 2, 0, 0, 0)),
  Scene({Trench}, {}, {"nsp", "ipam"}, Budget(0, 1, 1, 0, 0)),
  Scene({Trench}, {}, {"nspsvc", "ipamsvc"}, Budget(0, 0, 1, 0, 0))
}
=============================================================================
