--------------------------- MODULE TargetRegistry ---------------------------
(***************************************************************************)
(* What the NSP target registry promises to its clients: a persistent      *)
(* table of targets (pkg/nsp/registry/sqlite) behind a keepalive           *)
(* middleware (pkg/nsp/registry/keepalive) that knows, in memory, which    *)
(* targets it monitors.  Every call runs under the middleware's mutex, so  *)
(* a call is one step.  Time, timers and watchers are in NSPKeepAlive,     *)
(* which implements this module.                                           *)
(*                                                                         *)
(* A target stands for the key GetTargetID computes from its addresses,    *)
(* type, stream, conduit and trench; the only payload kept is the          *)
(* load-balancer identifier of its context.                                *)
(***************************************************************************)
EXTENDS Naturals, FiniteSets

CONSTANTS
  Targets,          \* the keys that clients register
  MaxTargets,       \* identifiers are 1..MaxTargets
  ConflictsOf,      \* ConflictsOf[k]: keys of the same stream name in another conduit
  StorageFailures   \* whether a database statement may fail

ASSUME TargetsAssumption == IsFiniteSet(Targets)
ASSUME MaxTargetsAssumption == MaxTargets \in Nat \ {0}
ASSUME ConflictsAssumption ==
  /\ ConflictsOf \in [Targets -> SUBSET Targets]
  /\ \A k \in Targets : k \notin ConflictsOf[k]
ASSUME StorageFailuresAssumption == StorageFailures \in BOOLEAN

VARIABLES
  rows,             \* the table: the row of each target, or NoRow
  monitored         \* KeepAlive.targets: the keys the middleware holds in memory

registryVars == <<rows, monitored>>
-----------------------------------------------------------------------------
Identifiers == 1..MaxTargets
Statuses == {"DISABLED", "ENABLED"}
NoRow == [status |-> "NONE", id |-> 0]
Row == [status : Statuses, id : Identifiers] \cup {NoRow}

Present(k) == rows[k].status # "NONE"
PresentTargets == {k \in Targets : Present(k)}

RegistryTypeOK ==
  /\ rows \in [Targets -> Row]
  /\ monitored \in SUBSET Targets

RegistryInit ==
  /\ rows = [k \in Targets |-> NoRow]
  /\ monitored = {}
-----------------------------------------------------------------------------
(* KeepAlive.Set overwrites the status of a target it does not know. *)
StoredStatus(k, st) == IF k \in monitored THEN st ELSE "DISABLED"

(* The table once k is saved and the conflicting rows in C are cleared. *)
Saved(k, id, st, C) ==
  [j \in Targets |->
     IF j = k THEN [status |-> StoredStatus(k, st), id |-> id]
     ELSE IF j \in C THEN NoRow ELSE rows[j]]

(* Register: Create or Save the row, clear the conflicting rows (the       *)
(* middleware is not told of those), then monitor the target.              *)
Set(k, id, st) ==
  /\ rows' = Saved(k, id, st, ConflictsOf[k])
  /\ monitored' = monitored \cup {k}

(* Register fails: before the row is written, or after it was written and  *)
(* some of the conflicting rows were cleared.  The target is not added.    *)
SetFails(k, id, st) ==
  /\ StorageFailures
  /\ \/ rows' = rows
     \/ \E C \in SUBSET ConflictsOf[k] : rows' = Saved(k, id, st, C)
  /\ UNCHANGED monitored

Removed(k) == [rows EXCEPT ![k] = NoRow]

(* Unregister: the target leaves the middleware first, then the table. *)
Remove(k) ==
  /\ rows' = Removed(k)
  /\ monitored' = monitored \ {k}

RemoveFails(k) ==
  /\ StorageFailures
  /\ rows' \in {rows, Removed(k)}
  /\ monitored' = monitored \ {k}

(* The timer of a monitored target runs out. *)
Expire(k) ==
  /\ k \in monitored
  /\ Remove(k) \/ RemoveFails(k)

(* The NSP restarts: the middleware monitors what it finds in the table. *)
Restore ==
  /\ monitored' = PresentTargets
  /\ UNCHANGED rows

RegistryCall(k) ==
  \/ \E id \in Identifiers, st \in Statuses : Set(k, id, st)
  \/ \E id \in Identifiers, st \in Statuses : SetFails(k, id, st)
  \/ Remove(k)
  \/ RemoveFails(k)
  \/ Expire(k)

RegistryNext == (\E k \in Targets : RegistryCall(k)) \/ Restore

RegistrySpec == RegistryInit /\ [][RegistryNext]_registryVars
-----------------------------------------------------------------------------
(* A target cannot appear in the table as ENABLED: "it has first to be     *)
(* disabled and then to be updated as enabled" (the comment on             *)
(* KeepAlive.Set).  Clients rely on it to learn that they were removed.    *)
NewTargetsStartDisabled ==
  [][\A k \in Targets :
       ~Present(k) /\ Present(k)' => rows'[k].status = "DISABLED"]_registryVars
=============================================================================
