------------------------- MODULE StreamRegistration -------------------------
(***************************************************************************)
(* Targets of one stream, each run by a TAPA (pkg/ambassador/tap/stream),  *)
(* competing for the identifiers 1..MaxTargets through the NSP target      *)
(* registry.  There is no lock and no compare-and-set: a target registers  *)
(* an identifier as DISABLED, lists the others, and enables itself when    *)
(* nobody else holds the identifier.                                       *)
(*                                                                         *)
(* pc[t] names the remote call that Stream.Open or Stream.Close is about   *)
(* to make.  The call, and the local code that runs from its answer to the *)
(* next call, is one step; the other targets and the registry run between  *)
(* two calls.                                                              *)
(***************************************************************************)
EXTENDS TargetRegistry, Integers

CONSTANTS
  Expiry,           \* whether the NSP may expire a target that was not refreshed
  FailingCalls      \* the calls that may fail, seen from the TAPA

Calls == {"list", "register", "check", "unregisterFull", "unregister",
          "update", "enable", "refresh", "verify", "close"}

ASSUME ExpiryAssumption == Expiry \in BOOLEAN
ASSUME FailingCallsAssumption == FailingCalls \in SUBSET Calls
(* The targets of one stream share the conduit: no registration clears another. *)
ASSUME OneStreamAssumption == \A t \in Targets : ConflictsOf[t] = {}

VARIABLES
  pc,               \* the next call of the Open or Close in progress, or "idle"
  identifier,       \* Stream.identifier, -1 when there is none
  status            \* Stream.targetStatus

streamVars == <<pc, identifier, status>>
vars == <<rows, monitored, pc, identifier, status>>
-----------------------------------------------------------------------------
TypeOK ==
  /\ RegistryTypeOK
  /\ pc \in [Targets -> Calls \cup {"idle"}]
  /\ identifier \in [Targets -> Identifiers \cup {-1}]
  /\ status \in [Targets -> Statuses]

Init ==
  /\ RegistryInit
  /\ pc = [t \in Targets |-> "idle"]
  /\ identifier = [t \in Targets |-> -1]
  /\ status = [t \in Targets |-> "DISABLED"]

(* getIdentifiersInUse: rows of the other targets, whatever their status. *)
OthersOf(t) == {u \in Targets \ {t} : Present(u)}
InUse(t) == {rows[u].id : u \in OthersOf(t)}

(* Mutant: off by one. *)
FullBeyond(t) == Cardinality(OthersOf(t)) > MaxTargets

(* The list has as many entries as there are identifiers, repetitions included. *)
Full(t) == Cardinality(OthersOf(t)) >= MaxTargets

(* What setIdentifier may draw. *)
Free(t) == Identifiers \ InUse(t)

Goto(t, call) == pc' = [pc EXCEPT ![t] = call]
Choose(t, i) == identifier' = [identifier EXCEPT ![t] = i]
SetStatus(t, st) == status' = [status EXCEPT ![t] = st]
-----------------------------------------------------------------------------
(* Stream.Open: an enabled stream is refreshed, a disabled one is opened. *)
Open(t) ==
  /\ pc[t] = "idle"
  /\ \/ status[t] = "ENABLED" /\ identifier[t] \in Identifiers /\ Goto(t, "refresh")
     \/ status[t] = "DISABLED" /\ Goto(t, "list")
  /\ UNCHANGED <<rows, monitored, identifier, status>>

(* open, first list: give up when full; an identifier left from an earlier *)
(* attempt is kept, whoever uses it now.                                   *)
List(t) ==
  /\ pc[t] = "list"
  /\ \/ Full(t) /\ Goto(t, "idle") /\ UNCHANGED identifier
     \/ /\ ~Full(t)
        /\ IF identifier[t] <= 0 THEN \E i \in Free(t) : Choose(t, i)
                                 ELSE UNCHANGED identifier
        /\ Goto(t, "register")
  /\ UNCHANGED <<rows, monitored, status>>

Register(t) ==
  /\ pc[t] = "register"
  /\ Set(t, identifier[t], "DISABLED")
  /\ Goto(t, "check")
  /\ UNCHANGED <<identifier, status>>

(* open, loop: list again; leave when full, enable when there is no        *)
(* collision, otherwise move to an identifier free in this list.  (The     *)
(* registry ignores the identifier of an Unregister, so drawing the new    *)
(* one before that call is the same.)                                      *)
Check(t) ==
  /\ pc[t] = "check"
  /\ \/ /\ Full(t)
        /\ Goto(t, "unregisterFull")
        /\ UNCHANGED <<identifier, status>>
     \/ /\ ~Full(t) /\ identifier[t] \notin InUse(t)
        /\ SetStatus(t, "ENABLED")
        /\ Goto(t, "enable")
        /\ UNCHANGED identifier
     \/ /\ ~Full(t) /\ identifier[t] \in InUse(t)
        /\ \E i \in Free(t) : Choose(t, i)
        /\ Goto(t, "unregister")
        /\ UNCHANGED status
  /\ UNCHANGED <<rows, monitored>>

UnregisterFull(t) ==
  /\ pc[t] = "unregisterFull"
  /\ Remove(t)
  /\ Goto(t, "idle")
  /\ UNCHANGED <<identifier, status>>

Unregister(t) ==
  /\ pc[t] = "unregister"
  /\ Remove(t)
  /\ Goto(t, "update")
  /\ UNCHANGED <<identifier, status>>

Update(t) ==
  /\ pc[t] = "update"
  /\ Set(t, identifier[t], "DISABLED")
  /\ Goto(t, "check")
  /\ UNCHANGED <<identifier, status>>

Enable(t) ==
  /\ pc[t] = "enable"
  /\ Set(t, identifier[t], "ENABLED")
  /\ Goto(t, "idle")
  /\ UNCHANGED <<identifier, status>>

(* refresh: register as ENABLED, then look at what the NSP made of it. *)
Refresh(t) ==
  /\ pc[t] = "refresh"
  /\ Set(t, identifier[t], "ENABLED")
  /\ Goto(t, "verify")
  /\ UNCHANGED <<identifier, status>>

(* Mutant: the answer of the NSP is not looked at. *)
VerifyTrusting(t) ==
  /\ pc[t] = "verify"
  /\ Goto(t, "idle")
  /\ UNCHANGED <<rows, monitored, identifier, status>>

(* A target that comes back DISABLED had expired: open it again. *)
Verify(t) ==
  /\ pc[t] = "verify"
  /\ \/ rows[t].status = "ENABLED" /\ Goto(t, "idle") /\ UNCHANGED status
     \/ rows[t].status # "ENABLED" /\ Goto(t, "list") /\ SetStatus(t, "DISABLED")
  /\ UNCHANGED <<rows, monitored, identifier>>

-----------------------------------------------------------------------------
(* What became of the call of t when t does not get its answer: the NSP    *)
(* never ran it, ran it, or ran it and its database failed.                *)
CallEffect(t) ==
  \/ UNCHANGED registryVars
  \/ /\ pc[t] \in {"register", "update"}
     /\ \/ Set(t, identifier[t], "DISABLED")
        \/ SetFails(t, identifier[t], "DISABLED")
  \/ /\ pc[t] \in {"enable", "refresh"}
     /\ \/ Set(t, identifier[t], "ENABLED")
        \/ SetFails(t, identifier[t], "ENABLED")
  \/ /\ pc[t] \in {"unregister", "unregisterFull", "close"}
     /\ Remove(t) \/ RemoveFails(t)

Forget(t) == Choose(t, -1) /\ SetStatus(t, "DISABLED")

(* An error answer or the timeout of openCtx: Open returns, except that a  *)
(* failed Unregister of a colliding target is only logged.                 *)
Fail(t) ==
  /\ pc[t] \in FailingCalls \ {"close"}
  /\ CallEffect(t)
  /\ Goto(t, IF pc[t] = "unregister" THEN "update" ELSE "idle")
  /\ UNCHANGED <<identifier, status>>

(* streamRetry.Close cancels the Open in progress, whose call may still be *)
(* executed; Stream.Close then waits for the mutex of the stream.          *)
CloseStart(t) ==
  /\ pc[t] # "close"
  /\ IF pc[t] = "idle" THEN UNCHANGED registryVars ELSE CallEffect(t)
  /\ Goto(t, "close")
  /\ UNCHANGED <<identifier, status>>

(* Stream.Close: unregister unless there never was an identifier; the      *)
(* stream forgets its identifier even if that fails.                       *)
Close(t) ==
  /\ pc[t] = "close"
  /\ \/ identifier[t] < 0 /\ UNCHANGED registryVars
     \/ identifier[t] >= 0 /\ Remove(t)
     \/ identifier[t] >= 0 /\ "close" \in FailingCalls /\ CallEffect(t)
  /\ Goto(t, "idle")
  /\ Forget(t)

(* The TAPA dies and comes back with the same addresses. *)
Crash(t) ==
  /\ CallEffect(t)
  /\ Goto(t, "idle")
  /\ Forget(t)

(* The NSP expires a target whose last registration is older than the      *)
(* entry timeout (60s).  A call made by the same Open that registered the  *)
(* target is not that late: openCtx ends it after 15s.                     *)
NSPExpire(t) ==
  /\ Expiry
  /\ pc[t] \in {"idle", "list", "register", "refresh", "close"}
  /\ Expire(t)
  /\ UNCHANGED streamVars

NSPRestart == Restore /\ UNCHANGED streamVars

Step(t) ==
  \/ Open(t) \/ List(t) \/ Register(t) \/ Check(t)
  \/ UnregisterFull(t) \/ Unregister(t) \/ Update(t) \/ Enable(t)
  \/ Refresh(t) \/ Verify(t)
  \/ Fail(t) \/ CloseStart(t) \/ Close(t) \/ Crash(t)
  \/ NSPExpire(t)

Next == (\E t \in Targets : Step(t)) \/ NSPRestart

Spec == Init /\ [][Next]_vars
-----------------------------------------------------------------------------
EnabledTargets == {t \in Targets : rows[t].status = "ENABLED"}

(* Open registers the target "while avoiding the identifier collisions":   *)
(* no two targets that the load balancers see have the same identifier.    *)
UniqueIdentifiers ==
  \A t, u \in EnabledTargets : t # u => rows[t].id # rows[u].id

(* The identifiers bound the stream: never more enabled targets than       *)
(* max-targets, although every target decides alone.                       *)
EnabledWithinLimit == Cardinality(EnabledTargets) <= MaxTargets

(* setIdentifier draws until it hits an unused identifier, holding the     *)
(* mutex of the stream: there "must be at least one available" whenever    *)
(* the list is not full, although several rows may repeat an identifier.   *)
IdentifierAvailable == \A t \in Targets : ~Full(t) => Free(t) # {}

(* The promise to the load balancers: identifiers are leased one at a      *)
(* time, and a target keeps its identifier until it is disabled.           *)
leases == [t \in Targets |-> IF rows[t].status = "ENABLED" THEN rows[t].id ELSE 0]
Lease == INSTANCE IdentifierLease WITH lease <- leases
ImplementsLease == Lease!Spec
=============================================================================
