------------------------ MODULE MCStreamRegistration ------------------------
(* Instances of StreamRegistration for TLC. *)
EXTENDS StreamRegistration, TLC

TargetSymmetry == Permutations(Targets)
NoConflicts == [t \in Targets |-> {}]
CallsOfOpenAndClose == Calls \ {"refresh", "verify"}
=============================================================================
