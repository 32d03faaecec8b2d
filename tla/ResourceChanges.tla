-------------------------- MODULE ResourceChanges --------------------------
(* Two paths on which a changed custom resource takes effect, which share no *)
(* state: the configuration of a trench to its watchers (Configuration) and  *)
(* the proxies of the conduits, one at a time (ConduitUpdates).  A behaviour *)
(* is one of one of them.                                                    *)
EXTENDS Configuration

CONSTANTS
  Conduits, Groups, Starts,   \* of ConduitUpdates
  NoHistory, NoStart          \* nothing happens to the configuration, or to the conduits

VARIABLES
  conduit, conduitSeen, ds, dsSeen, dsLag, groups, locks, queue, job, cleanup, left, under,
  unprotected, late

updateVars == <<conduit, conduitSeen, ds, dsSeen, dsLag, groups, locks, queue, job, cleanup, left,
                under, unprotected, late>>

Updates == INSTANCE ConduitUpdates

(* A conduit is in a group, in none or not there. *)
ASSUME StartsAssumption ==
  /\ Cardinality(Conduits) \in Nat
  /\ Updates!None \notin Conduits \cup Groups /\ Updates!NoGroup \notin Groups
  /\ \A s \in Starts : s.groups \in [Conduits -> Groups \cup {Updates!NoGroup, Updates!None}]

ChangesInit ==
  /\ Init
  /\ Updates!Init
  /\ (left = NoStart) # (history = NoHistory)

ChangesNext ==
  \/ Next /\ UNCHANGED updateVars
  \/ Updates!Next /\ UNCHANGED vars

(* Both fairness conditions hold of a part with nothing to do. *)
ChangesSpec ==
  ChangesInit /\ [][ChangesNext]_<<vars, updateVars>> /\ Fairness /\ Updates!Fairness

(* Conduits of one group are updated one after the other as long as none   *)
(* loses its lock under way, and every lock has an owner that will release *)
(* it, or one that was reconciled on after its deletion was handled.       *)
UpdatesSerialized == Updates!UpdatesTypeOK /\ Updates!UpdatesSerialized /\ Updates!LocksHaveOwners

(* Every update is completed in the end.                                   *)
UpdatesComplete == Updates!UpdatesComplete
=============================================================================
