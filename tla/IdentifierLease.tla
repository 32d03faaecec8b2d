--------------------------- MODULE IdentifierLease --------------------------
(***************************************************************************)
(* What the load balancers may assume of the targets of a stream: an       *)
(* identifier is held by at most one target, and a target changes its      *)
(* identifier only by giving it up first.  nfqlb maps a flow to an         *)
(* identifier, so two holders, or a silent move, would misdirect traffic.  *)
(***************************************************************************)
EXTENDS Naturals

CONSTANTS Targets, MaxTargets

VARIABLE lease      \* the identifier of each enabled target, 0 when not enabled

Init == lease = [t \in Targets |-> 0]

Grant(t, i) ==
  /\ lease[t] = 0
  /\ \A u \in Targets : lease[u] # i
  /\ lease' = [lease EXCEPT ![t] = i]

Revoke(t) == lease' = [lease EXCEPT ![t] = 0]

Next == \E t \in Targets : Revoke(t) \/ \E i \in 1..MaxTargets : Grant(t, i)

Spec == Init /\ [][Next]_lease
=============================================================================
