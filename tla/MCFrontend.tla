----------------------------- MODULE MCFrontend -----------------------------
(* Instances of Frontend for TLC. *)
EXTENDS Frontend

CONSTANTS s1, none
Vip4 == [name |-> "vip4", family |-> 4]
Vip6 == [name |-> "vip6", family |-> 6]
Gateway4 == [name |-> "gw4", family |-> 4, secret |-> none]
Gateway6 == [name |-> "gw6", family |-> 6, secret |-> s1]

(* A plain attractor, and a dual-stack one whose IPv6 gateway authenticates. *)
PlainAndDual ==
  {[vips |-> {Vip4}, gateways |-> {Gateway4}],
   [vips |-> {Vip4, Vip6}, gateways |-> {Gateway4, Gateway6}]}

(* A fault and a session change; or enough events of secrets to fill the   *)
(* channel of the authentication agent.                                    *)
Scenes == {[changes |-> 2, events |-> 1, flaps |-> 1, faults |-> 1],
           [changes |-> 2, events |-> 2, flaps |-> 0, faults |-> 0]}
=============================================================================
