--------------------------- MODULE MCNSPKeepAlive ---------------------------
(* Instances of NSPKeepAlive for TLC. *)
EXTENDS NSPKeepAlive

CONSTANTS lb

(* A load balancer watches the enabled targets; every two keys carry the   *)
(* same stream name in different conduits.                                 *)
WatchSelector == [w \in {lb} |-> [keys |-> Targets, statuses |-> {"ENABLED"}]]
AllConflict == [k \in Targets |-> Targets \ {k}]
=============================================================================
