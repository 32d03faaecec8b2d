------------------------------- MODULE MCTapa -------------------------------
(* A conduit of the TAPA (TapaConduit) and the TAPA above its conduits (Tap), *)
(* each with inputs of its own; a behaviour has inputs for one of the two.    *)
EXTENDS TapaConduit

VARIABLES
    trench, nspConn, conduits, created, added, connect, nsm, closeCalls, closer, deleter,
    vips, wanted, reordered, overtook, panicked, calls

ConduitOf == [s1 |-> "c1", s2 |-> "c1", s3 |-> "c2"]
TrenchOf == [c1 |-> "t1", c2 |-> "t1"]
aboveVars == <<trench, nspConn, conduits, created, added, connect, nsm, closeCalls, closer, deleter,
               vips, wanted, reordered, overtook, panicked, calls>>

T(c, f, v, d) == [calls |-> c, faults |-> f, vips |-> v, delete |-> d]
NoTapCalls == T(0, 0, 0, 0)
SomeTapBudgets == {T(4, 0, 0, 0), T(2, 1, 1, 0), T(2, 1, 0, 1), NoTapCalls}

B(c, e, a, v, f, o) == [calls |-> c, edits |-> e, addresses |-> a, vips |-> v, faults |-> f, others |-> o]
NoCalls == B(0, 0, 0, 0, 0, FALSE)
SomeBudgets == {B(2, 1, 1, 0, 0, FALSE), B(2, 0, 1, 1, 1, FALSE), B(3, 0, 1, 0, 0, TRUE), NoCalls}

Above == INSTANCE Tap WITH Opened <- {"s1", "s2", "s3"}, Conduit <- ConduitOf, Trench <- TrenchOf,
                           Incarnations <- {1, 2}, TapBudgets <- SomeTapBudgets, overtaken <- overtook

TapaInit == Init /\ Above!Init /\ (budget = NoCalls) # (calls = NoTapCalls)

TapaNext ==
    \/ Next /\ UNCHANGED aboveVars
    \/ Above!TapNext /\ UNCHANGED vars

TapaSpec == TapaInit /\ [][TapaNext]_<<vars, aboveVars>>
TapaFairSpec == TapaSpec /\ Fairness /\ Above!TapFairness

(* A stream is open or closed as the last call said, what is kept has a    *)
(* conduit, the configuration that is watched is that of the conduit in    *)
(* use, and a trench is closed once.                                       *)
TapConsistent ==
  /\ Above!TypeOK /\ Above!LastCallWins /\ Above!KeptHasConduit /\ Above!WatchedIsCurrent
  /\ Above!ClosedOnce

(* Streams that are shown are managed, and their targets and the locks     *)
(* taken for them settle.                                                  *)
StreamsSettle == [](TypeOK /\ ShownIsManaged) /\ LocksReleased /\ TargetsSettle

(* Every conduit is in the end connected, with the latest VIPs, or gone.   *)
ConduitSettles == Above!ConduitSettles
=============================================================================
