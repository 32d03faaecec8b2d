-------------------------- MODULE MCConfiguration --------------------------
(* Instances of ResourceChanges for TLC. *)
EXTENDS ResourceChanges

R(name, parent, refs) == [name |-> name, parent |-> parent, refs |-> refs]
Config(streams, valid) ==
  [valid |-> valid, trench |-> {R("t", {}, {})},
   conduits |-> {R("c", {"t"}, {"v"}), R("d", {"t"}, {})},
   streams |-> streams, flows |-> {R("f", {"s"}, {"v"}), R("f2", {"s2"}, {})},
   vips |-> {R("v", {"t"}, {})}, attractors |-> {R("a", {"t"}, {"v", "g"})},
   gateways |-> {R("g", {"t"}, {})}]
TwoStreams == {R("s", {"c"}, {}), R("s2", {"d"}, {})}

(* What the load balancer of conduit c watches. *)
ConduitC == R("c", {R("t", {}, {})}, {})
WatchStreams == [type |-> "streams", toWatch |-> R("", {ConduitC}, {}), conduit |-> "c"]
WatchFlows == [type |-> "flows", toWatch |-> R("", {R("", {ConduitC}, {})}, {}), conduit |-> "c"]

EmptyHistory == [versions |-> << >>, wants |-> << >>, cancels |-> 0]
SomeHistories ==
  {[versions |-> <<Config(TwoStreams, TRUE)>>, wants |-> <<WatchStreams, WatchFlows>>, cancels |-> 1],
   [versions |-> <<Config(TwoStreams, TRUE), Config({}, FALSE), Config({}, TRUE)>>,
    wants |-> <<WatchStreams>>, cancels |-> 1],
   EmptyHistory}

(* Two conduits in one group, and what else happens: an edit, a change of  *)
(* group, a deletion, or a restart and a failed write.                     *)
Start(edits, regroups, deletes, restarts, fails) ==
  [groups |-> [c1 |-> "g1", c2 |-> "g1"], edits |-> edits,
   regroups |-> regroups, deletes |-> deletes, restarts |-> restarts, fails |-> fails]
EmptyStart == [Start(0, 0, 0, 0, 0) EXCEPT !.groups = [c1 |-> "none", c2 |-> "none"]]
SomeStarts ==
  {Start(1, 0, 0, 0, 0), Start(0, 1, 0, 0, 0), Start(0, 0, 1, 0, 0), Start(0, 0, 0, 1, 1), EmptyStart}
=============================================================================
