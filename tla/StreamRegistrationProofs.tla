---------------------- MODULE StreamRegistrationProofs ----------------------
(***************************************************************************)
(* TLAPS proofs about StreamRegistration, for every set of targets, every  *)
(* MaxTargets, with or without storage failures.                           *)
(***************************************************************************)
EXTENDS StreamRegistration, FiniteSetTheorems, TLAPS

(* The one combination that breaks the protocol is excluded: a target that *)
(* expired and whose refresh is cut off before it was verified.            *)
RefreshVerified == Expiry => FailingCalls \cap {"refresh", "verify"} = {}

(* What the position in Open or Close says about the stream itself. *)
Control(t) ==
  /\ pc[t] \in {"register", "check", "unregister", "update"} => identifier[t] \in Identifiers
  /\ pc[t] \in {"list", "register", "check", "unregister", "unregisterFull", "update"}
       => status[t] = "DISABLED"
  /\ pc[t] \in {"enable", "refresh", "verify"} => status[t] = "ENABLED"
  /\ status[t] = "ENABLED" => identifier[t] \in Identifiers

(* How the stream and its row in the registry agree. *)
Agreement(t) ==
  /\ t \in monitored => Present(t)
  /\ pc[t] \in {"check", "enable"} => t \in monitored /\ rows[t].id = identifier[t]
  /\ status[t] = "ENABLED" /\ Present(t) => rows[t].id = identifier[t]
  /\ ~Expiry /\ status[t] = "ENABLED" /\ pc[t] # "close" => t \in monitored
  /\ ~Expiry /\ pc[t] = "verify" => rows[t].status = "ENABLED"

(* t owns the identifier of its row: it is enabled, or will be without     *)
(* looking at the others again.  A refresh that is not yet verified owns   *)
(* nothing, since the NSP may have taken it for a new target.              *)
Owns(t) ==
  /\ Present(t)
  /\ \/ rows[t].status = "ENABLED"
     \/ status[t] = "ENABLED" /\ pc[t] \notin {"verify", "close"}

Exclusive == \A t, u \in Targets : t # u /\ Owns(t) /\ Owns(u) => rows[t].id # rows[u].id

IndInv ==
  /\ TypeOK
  /\ \A t \in Targets : Control(t)
  /\ \A t \in Targets : Agreement(t)
  /\ Exclusive
-----------------------------------------------------------------------------
(* What a call of t leaves alone: every other target, stream and row. *)
OnlyTouches(t) ==
  /\ \A u \in Targets \ {t} :
       /\ rows'[u] = rows[u] /\ pc'[u] = pc[u]
       /\ identifier'[u] = identifier[u] /\ status'[u] = status[u]
       /\ u \in monitored' <=> u \in monitored

(* t owns an identifier after the step only if it did before, or nobody    *)
(* else was registered with it.                                            *)
Justified(t) ==
  Owns(t)' => \/ Owns(t) /\ rows'[t].id = rows[t].id
              \/ rows'[t].id \notin InUse(t)

(* While t stays enabled its row keeps its identifier. *)
Keeps(t) ==
  rows[t].status = "ENABLED" /\ rows'[t].status = "ENABLED" => rows'[t].id = rows[t].id

GoodStep(t) ==
  /\ TypeOK'
  /\ OnlyTouches(t)
  /\ Control(t)'
  /\ Agreement(t)'
  /\ Justified(t)
  /\ Keeps(t)

(* Steps that are good leave the invariant standing: this is where the     *)
(* targets meet, the rest of the proof looks at one target at a time.      *)
LEMMA GoodStepSuffices ==
  ASSUME IndInv, NEW t \in Targets, GoodStep(t)
  PROVE  IndInv'
<1>1. TypeOK' BY DEF GoodStep
<1>2. \A u \in Targets : Control(u)'
  BY DEF GoodStep, OnlyTouches, IndInv, Control
<1>3. \A u \in Targets : Agreement(u)'
  BY DEF GoodStep, OnlyTouches, IndInv, Agreement, Present
<1>4. \A u \in Targets \ {t} : (Owns(u)' <=> Owns(u)) /\ rows'[u] = rows[u]
  BY DEF GoodStep, OnlyTouches, Owns, Present
<1>5. \A u \in Targets \ {t} : Owns(t)' /\ Owns(u) => rows'[t].id # rows[u].id
  BY DEF GoodStep, Justified, IndInv, Exclusive, InUse, OthersOf, Owns, Present
<1>6. Exclusive'
  BY <1>4, <1>5 DEF IndInv, Exclusive
<1> QED BY <1>1, <1>2, <1>3, <1>6 DEF IndInv
-----------------------------------------------------------------------------
(* KeepAlive.Set on the targets of one stream writes one row. *)
LEMMA SetWritesOneRow ==
  ASSUME RegistryTypeOK, NEW t \in Targets, NEW id \in Identifiers, NEW st \in Statuses,
         Set(t, id, st)
  PROVE  /\ RegistryTypeOK'
         /\ rows'[t] = [status |-> StoredStatus(t, st), id |-> id]
         /\ \A u \in Targets \ {t} : rows'[u] = rows[u]
         /\ monitored' = monitored \cup {t}
BY OneStreamAssumption DEF RegistryTypeOK, Set, Saved, StoredStatus, Row, Statuses

LEMMA SetFailsWritesAtMostOneRow ==
  ASSUME RegistryTypeOK, NEW t \in Targets, NEW id \in Identifiers, NEW st \in Statuses,
         SetFails(t, id, st)
  PROVE  /\ RegistryTypeOK'
         /\ \/ rows'[t] = rows[t]
            \/ rows'[t] = [status |-> StoredStatus(t, st), id |-> id]
         /\ \A u \in Targets \ {t} : rows'[u] = rows[u]
         /\ monitored' = monitored
BY OneStreamAssumption DEF RegistryTypeOK, SetFails, Saved, StoredStatus, Row, Statuses

LEMMA RemoveClearsOneRow ==
  ASSUME RegistryTypeOK, NEW t \in Targets, Remove(t) \/ RemoveFails(t)
  PROVE  /\ RegistryTypeOK'
         /\ rows'[t] \in {rows[t], NoRow}
         /\ Remove(t) => rows'[t] = NoRow
         /\ \A u \in Targets \ {t} : rows'[u] = rows[u]
         /\ monitored' = monitored \ {t}
BY DEF RegistryTypeOK, Remove, RemoveFails, Removed, Row
-----------------------------------------------------------------------------
(* A call that is executed although its caller never hears of it leaves    *)
(* the row absent, as it was, or as the call asked for.                    *)
Effect(t) ==
  /\ RegistryTypeOK'
  /\ \A u \in Targets \ {t} : rows'[u] = rows[u] /\ (u \in monitored' <=> u \in monitored)
  /\ t \in monitored' => rows'[t].status # "NONE"
  /\ \/ rows'[t] = rows[t] /\ (t \in monitored' <=> t \in monitored)
     \/ /\ pc[t] \in {"register", "update"}
        /\ rows'[t] = [status |-> "DISABLED", id |-> identifier[t]]
     \/ /\ pc[t] \in {"enable", "refresh"}
        /\ rows'[t] = [status |-> StoredStatus(t, "ENABLED"), id |-> identifier[t]]
        /\ t \in monitored => t \in monitored'
     \/ /\ pc[t] \in {"unregister", "unregisterFull", "close"}
        /\ rows'[t] \in {rows[t], NoRow}
        /\ t \notin monitored'

LEMMA CallEffectIsLocal ==
  ASSUME IndInv, NEW t \in Targets, CallEffect(t)
  PROVE  Effect(t)
<1> USE DEF IndInv, TypeOK, Control, Agreement, Effect
<1>1. CASE UNCHANGED registryVars
  BY <1>1 DEF registryVars, RegistryTypeOK, Present
<1>2. CASE /\ pc[t] \in {"register", "update"}
           /\ Set(t, identifier[t], "DISABLED") \/ SetFails(t, identifier[t], "DISABLED")
  BY <1>2, SetWritesOneRow, SetFailsWritesAtMostOneRow DEF Statuses, StoredStatus, Present
<1>3. CASE /\ pc[t] \in {"enable", "refresh"}
           /\ Set(t, identifier[t], "ENABLED") \/ SetFails(t, identifier[t], "ENABLED")
  BY <1>3, SetWritesOneRow, SetFailsWritesAtMostOneRow DEF Statuses, StoredStatus, Present
<1>4. CASE /\ pc[t] \in {"unregister", "unregisterFull", "close"}
           /\ Remove(t) \/ RemoveFails(t)
  BY <1>4, RemoveClearsOneRow DEF Present
<1> QED BY <1>1, <1>2, <1>3, <1>4 DEF CallEffect
-----------------------------------------------------------------------------
(* The local variables of a stream that takes a step. *)
Moves(t, call, i, st) ==
  /\ pc' = [pc EXCEPT ![t] = call]
  /\ identifier' = [identifier EXCEPT ![t] = i]
  /\ status' = [status EXCEPT ![t] = st]

LEMMA MovesFrame ==
  ASSUME IndInv, NEW t \in Targets, RegistryTypeOK',
         NEW call \in Calls \cup {"idle"}, NEW i \in Identifiers \cup {-1}, NEW st \in Statuses,
         Moves(t, call, i, st),
         \A u \in Targets \ {t} : rows'[u] = rows[u] /\ (u \in monitored' <=> u \in monitored)
  PROVE  /\ TypeOK'
         /\ OnlyTouches(t)
         /\ pc'[t] = call /\ identifier'[t] = i /\ status'[t] = st
BY DEF IndInv, TypeOK, Moves, OnlyTouches

(* What the invariant says of one target, in the form the steps use. *)
LEMMA OneTarget ==
  ASSUME IndInv, NEW t \in Targets
  PROVE  /\ RegistryTypeOK /\ rows[t] \in Row
         /\ pc[t] \in Calls \cup {"idle"}
         /\ identifier[t] \in Identifiers \cup {-1}
         /\ status[t] \in Statuses
         /\ Control(t)
         /\ Agreement(t)
         /\ identifier = [identifier EXCEPT ![t] = identifier[t]]
         /\ status = [status EXCEPT ![t] = status[t]]
BY DEF IndInv, TypeOK, RegistryTypeOK

(* Every step of the stream of t, of its calls and of its timer in the NSP *)
(* is good.                                                                *)
LEMMA StepIsGood ==
  ASSUME IndInv, RefreshVerified, NEW t \in Targets, Step(t)
  PROVE  GoodStep(t)
<1> USE OneTarget
<1>1. CASE Open(t)
  BY <1>1 DEF Open, GoodStep, OnlyTouches, Justified, Keeps, IndInv, TypeOK, Control, Agreement,
     Owns, Present, RegistryTypeOK, Goto, Choose, SetStatus, Calls
<1>2. CASE List(t)
  BY <1>2 DEF List, Free, GoodStep, OnlyTouches, Justified, Keeps, IndInv, TypeOK, Control,
     Agreement, Owns, Present, RegistryTypeOK, Goto, Choose, SetStatus, Calls
<1>3. CASE Register(t)
  <2>1. identifier[t] \in Identifiers
    BY <1>3 DEF Register, Control
  <2>2. /\ RegistryTypeOK'
        /\ rows'[t] = [status |-> StoredStatus(t, "DISABLED"), id |-> identifier[t]]
        /\ \A u \in Targets \ {t} : rows'[u] = rows[u]
        /\ monitored' = monitored \cup {t}
    BY <1>3, <2>1, SetWritesOneRow, Zenon DEF Register, Statuses
  <2>3. Moves(t, "check", identifier[t], status[t])
    BY <1>3 DEF Register, Moves, Goto
  <2>4. /\ TypeOK' /\ OnlyTouches(t)
        /\ pc'[t] = "check" /\ identifier'[t] = identifier[t] /\ status'[t] = status[t]
    BY <2>2, <2>3, MovesFrame DEF Calls
  <2> QED BY <1>3, <2>1, <2>2, <2>4 DEF Register, StoredStatus, GoodStep, Justified, Keeps, Control, Agreement, Owns, Present
<1>4. CASE Check(t)
  BY <1>4 DEF Check, Free, Statuses, GoodStep, OnlyTouches, Justified, Keeps, IndInv, TypeOK,
     Control, Agreement, Owns, Present, RegistryTypeOK, Goto, Choose, SetStatus, Calls
<1>5. CASE UnregisterFull(t)
  <2>1. Remove(t) /\ Moves(t, "idle", identifier[t], status[t])
    BY <1>5 DEF UnregisterFull, Moves, Goto
  <2>2. /\ TypeOK' /\ OnlyTouches(t)
        /\ pc'[t] = "idle" /\ identifier'[t] = identifier[t] /\ status'[t] = status[t]
    BY <2>1, RemoveClearsOneRow, MovesFrame DEF Calls
  <2> QED BY <1>5, <2>1, <2>2, RemoveClearsOneRow DEF UnregisterFull, NoRow, GoodStep, Justified, Keeps, Control, Agreement, Owns, Present
<1>6. CASE Unregister(t)
  <2>1. Remove(t) /\ Moves(t, "update", identifier[t], status[t])
    BY <1>6 DEF Unregister, Moves, Goto
  <2>2. /\ TypeOK' /\ OnlyTouches(t)
        /\ pc'[t] = "update" /\ identifier'[t] = identifier[t] /\ status'[t] = status[t]
    BY <2>1, RemoveClearsOneRow, MovesFrame DEF Calls
  <2> QED BY <1>6, <2>1, <2>2, RemoveClearsOneRow DEF Unregister, NoRow, GoodStep, Justified, Keeps, Control, Agreement, Owns, Present
<1>7. CASE Update(t)
  <2>1. identifier[t] \in Identifiers
    BY <1>7 DEF Update, Control
  <2>2. /\ RegistryTypeOK'
        /\ rows'[t] = [status |-> StoredStatus(t, "DISABLED"), id |-> identifier[t]]
        /\ \A u \in Targets \ {t} : rows'[u] = rows[u]
        /\ monitored' = monitored \cup {t}
    BY <1>7, <2>1, SetWritesOneRow, Zenon DEF Update, Statuses
  <2>3. Moves(t, "check", identifier[t], status[t])
    BY <1>7 DEF Update, Moves, Goto
  <2>4. /\ TypeOK' /\ OnlyTouches(t)
        /\ pc'[t] = "check" /\ identifier'[t] = identifier[t] /\ status'[t] = status[t]
    BY <2>2, <2>3, MovesFrame DEF Calls
  <2> QED BY <1>7, <2>1, <2>2, <2>4 DEF Update, StoredStatus, GoodStep, Justified, Keeps, Control, Agreement, Owns, Present
<1>8. CASE Enable(t)
  <2>1. identifier[t] \in Identifiers
    BY <1>8 DEF Enable, Control
  <2>2. /\ RegistryTypeOK'
        /\ rows'[t] = [status |-> StoredStatus(t, "ENABLED"), id |-> identifier[t]]
        /\ \A u \in Targets \ {t} : rows'[u] = rows[u]
        /\ monitored' = monitored \cup {t}
    BY <1>8, <2>1, SetWritesOneRow, Zenon DEF Enable, Statuses
  <2>3. Moves(t, "idle", identifier[t], status[t])
    BY <1>8 DEF Enable, Moves, Goto
  <2>4. /\ TypeOK' /\ OnlyTouches(t)
        /\ pc'[t] = "idle" /\ identifier'[t] = identifier[t] /\ status'[t] = status[t]
    BY <2>2, <2>3, MovesFrame DEF Calls
  <2> QED BY <1>8, <2>1, <2>2, <2>4 DEF Enable, StoredStatus, GoodStep, Justified, Keeps, Control, Agreement, Owns, Present
<1>9. CASE Refresh(t)
  <2>1. identifier[t] \in Identifiers
    BY <1>9 DEF Refresh, Control
  <2>2. /\ RegistryTypeOK'
        /\ rows'[t] = [status |-> StoredStatus(t, "ENABLED"), id |-> identifier[t]]
        /\ \A u \in Targets \ {t} : rows'[u] = rows[u]
        /\ monitored' = monitored \cup {t}
    BY <1>9, <2>1, SetWritesOneRow, Zenon DEF Refresh, Statuses
  <2>3. Moves(t, "verify", identifier[t], status[t])
    BY <1>9 DEF Refresh, Moves, Goto
  <2>4. /\ TypeOK' /\ OnlyTouches(t)
        /\ pc'[t] = "verify" /\ identifier'[t] = identifier[t] /\ status'[t] = status[t]
    BY <2>2, <2>3, MovesFrame DEF Calls
  <2> QED BY <1>9, <2>1, <2>2, <2>4 DEF Refresh, StoredStatus, GoodStep, Justified, Keeps, Control, Agreement, Owns, Present
<1>10. CASE Verify(t)
  BY <1>10 DEF Verify, Statuses, GoodStep, OnlyTouches, Justified, Keeps, IndInv, TypeOK,
     Control, Agreement, Owns, Present, RegistryTypeOK, Goto, Choose, SetStatus, Calls
<1>11. CASE Fail(t)
  <2> DEFINE call == IF pc[t] = "unregister" THEN "update" ELSE "idle"
  <2>1. Effect(t)
    BY <1>11, CallEffectIsLocal DEF Fail, CallEffect
  <2>2. Moves(t, call, identifier[t], status[t])
    BY <1>11 DEF Fail, Moves, Goto
  <2>3. call \in Calls \cup {"idle"}
    BY DEF Calls
  <2>4. /\ TypeOK' /\ OnlyTouches(t)
        /\ pc'[t] = call /\ identifier'[t] = identifier[t] /\ status'[t] = status[t]
    BY <2>1, <2>2, <2>3, MovesFrame DEF Effect, Statuses
  <2>5. Control(t)'
    BY <1>11, <2>4 DEF Fail, Control
  <2>6. Agreement(t)'
    BY <1>11, <2>1, <2>4 DEF Fail, RefreshVerified, Control, Agreement, Effect, NoRow,
       StoredStatus, Owns, Present
  <2>7. Justified(t) /\ Keeps(t)
    BY <1>11, <2>1, <2>4 DEF Fail, RefreshVerified, Control, Agreement, Justified, Keeps,
       Effect, NoRow, StoredStatus, Owns, Present
  <2> QED BY <2>4, <2>5, <2>6, <2>7 DEF GoodStep
<1>12. CASE CloseStart(t)
  <2>1. Effect(t)
    BY <1>12, CallEffectIsLocal DEF CloseStart, CallEffect
  <2>2. Moves(t, "close", identifier[t], status[t])
    BY <1>12 DEF CloseStart, Moves, Goto
  <2>3. "close" \in Calls \cup {"idle"}
    BY DEF Calls
  <2>4. /\ TypeOK' /\ OnlyTouches(t)
        /\ pc'[t] = "close" /\ identifier'[t] = identifier[t] /\ status'[t] = status[t]
    BY <2>1, <2>2, <2>3, MovesFrame DEF Effect, Statuses
  <2>5. Control(t)'
    BY <1>12, <2>4 DEF CloseStart, Control
  <2>6. Agreement(t)'
    BY <1>12, <2>1, <2>4 DEF Control, Agreement, Effect, NoRow, StoredStatus, Owns, Present
  <2>7. Justified(t) /\ Keeps(t)
    BY <1>12, <2>1, <2>4 DEF Control, Agreement, Justified, Keeps, Effect, NoRow, StoredStatus,
       Owns, Present
  <2> QED BY <2>4, <2>5, <2>6, <2>7 DEF GoodStep
<1>13. CASE Close(t)
  <2>1. Effect(t)
    BY <1>13, CallEffectIsLocal DEF Close, CallEffect
  <2>2. Moves(t, "idle", -1, "DISABLED")
    BY <1>13 DEF Close, Moves, Goto, Forget, Choose, SetStatus
  <2>3. "idle" \in Calls \cup {"idle"}
    BY DEF Calls
  <2>4. /\ TypeOK' /\ OnlyTouches(t)
        /\ pc'[t] = "idle" /\ identifier'[t] = -1 /\ status'[t] = "DISABLED"
    BY <2>1, <2>2, <2>3, MovesFrame DEF Effect, Statuses
  <2>5. Control(t)'
    BY <1>13, <2>4 DEF Close, Control
  <2>6. Agreement(t)'
    BY <1>13, <2>1, <2>4 DEF Control, Agreement, Effect, NoRow, StoredStatus, Owns, Present
  <2>7. Justified(t) /\ Keeps(t)
    BY <1>13, <2>1, <2>4 DEF Control, Agreement, Justified, Keeps, Effect, NoRow, StoredStatus,
       Owns, Present
  <2> QED BY <2>4, <2>5, <2>6, <2>7 DEF GoodStep
<1>14. CASE Crash(t)
  <2>1. Effect(t)
    BY <1>14, CallEffectIsLocal DEF Crash, CallEffect
  <2>2. Moves(t, "idle", -1, "DISABLED")
    BY <1>14 DEF Crash, Moves, Goto, Forget, Choose, SetStatus
  <2>3. "idle" \in Calls \cup {"idle"}
    BY DEF Calls
  <2>4. /\ TypeOK' /\ OnlyTouches(t)
        /\ pc'[t] = "idle" /\ identifier'[t] = -1 /\ status'[t] = "DISABLED"
    BY <2>1, <2>2, <2>3, MovesFrame DEF Effect, Statuses
  <2>5. Control(t)'
    BY <1>14, <2>4 DEF Crash, Control
  <2>6. Agreement(t)'
    BY <1>14, <2>1, <2>4 DEF Control, Agreement, Effect, NoRow, StoredStatus, Owns, Present
  <2>7. Justified(t) /\ Keeps(t)
    BY <1>14, <2>1, <2>4 DEF Control, Agreement, Justified, Keeps, Effect, NoRow, StoredStatus,
       Owns, Present
  <2> QED BY <2>4, <2>5, <2>6, <2>7 DEF GoodStep
<1>15. CASE NSPExpire(t)
  <2>1. /\ Remove(t) \/ RemoveFails(t)
        /\ UNCHANGED streamVars
    BY <1>15 DEF NSPExpire, Expire
  <2>2. TypeOK' /\ OnlyTouches(t)
    BY <2>1, RemoveClearsOneRow DEF streamVars, IndInv, TypeOK, OnlyTouches
  <2> QED BY <1>15, <2>1, <2>2, RemoveClearsOneRow DEF NSPExpire, streamVars, NoRow, GoodStep, Justified, Keeps, Control, Agreement, Owns, Present
<1> QED
  BY <1>1, <1>2, <1>3, <1>4, <1>5, <1>6, <1>7, <1>8, <1>9, <1>10, <1>11, <1>12, <1>13, <1>14, <1>15
  DEF Step
-----------------------------------------------------------------------------
LEMMA InitIsGood == Init => IndInv
BY MaxTargetsAssumption
   DEF Init, RegistryInit, IndInv, TypeOK, RegistryTypeOK, Row, NoRow, Statuses, Control, Agreement,
       Present, Exclusive, Owns

LEMMA NextIsGood ==
  ASSUME IndInv, RefreshVerified, [Next]_vars
  PROVE  IndInv'
<1>1. CASE \E t \in Targets : Step(t)
  BY <1>1, StepIsGood, GoodStepSuffices
<1>2. CASE NSPRestart
  BY <1>2 DEF NSPRestart, Restore, PresentTargets, streamVars, IndInv, TypeOK, RegistryTypeOK,
              Control, Agreement, Exclusive, Owns, Present
<1>3. CASE UNCHANGED vars
  BY <1>3 DEF vars, IndInv, TypeOK, RegistryTypeOK, Control, Agreement, Exclusive, Owns, Present
<1> QED BY <1>1, <1>2, <1>3 DEF Next

(* The protocol never leaves its inductive invariant. *)
THEOREM InvariantHolds ==
  ASSUME RefreshVerified
  PROVE  Spec => []IndInv
<1>1. IndInv /\ [Next]_vars => IndInv'
  BY NextIsGood
<1> QED BY InitIsGood, <1>1, PTL DEF Spec

(* The types of the registry table and of the streams: in particular no    *)
(* target is ever registered with an identifier outside 1..MaxTargets.     *)
THEOREM TypeCorrect ==
  ASSUME RefreshVerified
  PROVE  Spec => []TypeOK
BY InvariantHolds, PTL DEF IndInv

(* No two enabled targets share an identifier, whatever the number of      *)
(* targets, the interleaving of their calls, crashes, restarts of the NSP, *)
(* failed calls and database errors (stream.go, Open).                     *)
THEOREM IdentifiersAreUnique ==
  ASSUME RefreshVerified
  PROVE  Spec => []UniqueIdentifiers
<1>1. IndInv => UniqueIdentifiers
  BY DEF IndInv, Exclusive, Owns, Present, UniqueIdentifiers, EnabledTargets
<1> QED BY InvariantHolds, <1>1, PTL

(* At most max-targets targets are enabled at any time. *)
THEOREM LimitHolds ==
  ASSUME RefreshVerified
  PROVE  Spec => []EnabledWithinLimit
<1>1. ASSUME IndInv PROVE EnabledWithinLimit
  <2> DEFINE f == [t \in EnabledTargets |-> rows[t].id]
  <2>1. f \in [EnabledTargets -> Identifiers]
    BY <1>1 DEF IndInv, TypeOK, RegistryTypeOK, Row, NoRow, EnabledTargets
  <2>2. \A t, u \in EnabledTargets : f[t] = f[u] => t = u
    BY <1>1 DEF IndInv, Exclusive, Owns, Present, EnabledTargets
  <2>3. f \in Injection(EnabledTargets, Identifiers)
    BY <2>1, <2>2 DEF Injection, IsInjective
  <2>4. IsFiniteSet(Identifiers) /\ Cardinality(Identifiers) = MaxTargets
    BY MaxTargetsAssumption, FS_Interval DEF Identifiers
  <2> HIDE DEF f
  <2>5. Cardinality(EnabledTargets) <= Cardinality(Identifiers)
    BY <2>3, <2>4, FS_Injection
  <2> QED BY <2>4, <2>5 DEF EnabledWithinLimit
<1> QED BY InvariantHolds, <1>1, PTL

(* The loop of setIdentifier terminates: a list that is shorter than       *)
(* max-targets leaves an identifier free (the comment at its second use).  *)
THEOREM DrawTerminates ==
  ASSUME RefreshVerified
  PROVE  Spec => []IdentifierAvailable
<1>1. ASSUME IndInv, NEW t \in Targets, Free(t) = {} PROVE Full(t)
  <2> DEFINE g == [i \in Identifiers |-> CHOOSE u \in OthersOf(t) : rows[u].id = i]
  <2>1. \A i \in Identifiers : \E u \in OthersOf(t) : rows[u].id = i
    BY <1>1 DEF Free, InUse
  <2>2. \A i \in Identifiers : g[i] \in OthersOf(t) /\ rows[g[i]].id = i
    BY <2>1
  <2> HIDE DEF g
  <2>3. g \in [Identifiers -> OthersOf(t)]
    BY <2>2 DEF g
  <2>4. g \in Injection(Identifiers, OthersOf(t))
    BY <2>2, <2>3 DEF Injection, IsInjective
  <2>5. IsFiniteSet(OthersOf(t))
    BY TargetsAssumption, FS_Subset DEF OthersOf
  <2>6. Cardinality(Identifiers) = MaxTargets
    BY MaxTargetsAssumption, FS_Interval DEF Identifiers
  <2>7. Cardinality(Identifiers) <= Cardinality(OthersOf(t))
    BY <2>4, <2>5, FS_Injection
  <2>8. Cardinality(OthersOf(t)) \in Nat
    BY <2>5, FS_CardinalityType
  <2> QED BY <2>6, <2>7, <2>8, MaxTargetsAssumption DEF Full
<1>2. IndInv => IdentifierAvailable
  BY <1>1 DEF IdentifierAvailable
<1> QED BY InvariantHolds, <1>2, PTL
-----------------------------------------------------------------------------
(* Every step of the protocol grants one identifier, takes one back, or    *)
(* is invisible to the load balancers.                                     *)
LEMMA StepImplementsLease ==
  ASSUME IndInv, IndInv', NEW t \in Targets, GoodStep(t)
  PROVE  [Lease!Next]_leases
<1>1. \A u \in Targets : rows[u].status = "ENABLED" => rows[u].id \in 1..MaxTargets /\ rows[u].id # 0
  BY DEF IndInv, TypeOK, RegistryTypeOK, Row, NoRow, Identifiers
<1>2. \A u \in Targets : rows'[u].status = "ENABLED" => rows'[u].id \in 1..MaxTargets
  BY DEF IndInv, TypeOK, RegistryTypeOK, Row, NoRow, Identifiers
<1>3. leases' = [leases EXCEPT ![t] = leases'[t]]
  BY Zenon DEF leases, GoodStep, OnlyTouches
<1>4. CASE rows'[t].status # "ENABLED"
  <2>1. Lease!Revoke(t)
    BY <1>3, <1>4 DEF Lease!Revoke, leases
  <2> QED BY <2>1 DEF Lease!Next
<1>5. CASE rows'[t].status = "ENABLED" /\ rows[t].status = "ENABLED"
  <2>1. leases' = leases
    BY <1>3, <1>5, Zenon DEF leases, GoodStep, Keeps
  <2> QED BY <2>1
<1>6. CASE rows'[t].status = "ENABLED" /\ rows[t].status # "ENABLED"
  <2>1. \A u \in Targets \ {t} : rows[u].status = "ENABLED" => rows[u].id # rows'[t].id
    BY <1>6 DEF IndInv, Exclusive, Owns, Present, GoodStep, OnlyTouches
  <2>2. \A u \in Targets : leases[u] # rows'[t].id
    BY <1>2, <1>6, <2>1 DEF leases
  <2>3. Lease!Grant(t, rows'[t].id)
    BY <1>3, <1>6, <2>2, Zenon DEF Lease!Grant, leases
  <2> QED BY <1>2, <1>6, <2>3 DEF Lease!Next
<1> QED BY <1>4, <1>5, <1>6

(* The protocol implements IdentifierLease: for the load balancers, the    *)
(* calls, collisions, retries and expiries amount to identifiers that are  *)
(* granted when free and taken back before they change hands.              *)
THEOREM LeaseImplemented ==
  ASSUME RefreshVerified
  PROVE  Spec => ImplementsLease
<1>1. Init => Lease!Init
  BY DEF Init, RegistryInit, NoRow, Lease!Init, leases
<1>2. ASSUME IndInv, IndInv', [Next]_vars PROVE [Lease!Next]_leases
  <2>1. CASE \E t \in Targets : Step(t)
    BY <1>2, <2>1, StepIsGood, StepImplementsLease
  <2>2. CASE NSPRestart \/ UNCHANGED vars
    BY <2>2 DEF NSPRestart, Restore, vars, leases
  <2> QED BY <1>2, <2>1, <2>2 DEF Next
<1> QED BY <1>1, <1>2, InvariantHolds, PTL DEF Spec, ImplementsLease, Lease!Spec
=============================================================================
