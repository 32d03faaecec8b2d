--------------------------- MODULE FrontendProofs ---------------------------
(***************************************************************************)
(* TLAPS proofs about Frontend, for every set of attractors and secrets,   *)
(* every capacity of authCh and every number of changes and faults.        *)
(***************************************************************************)
EXTENDS Frontend, TLAPS

Steps == {"idle", "manage", "promote", "apply", "send", "configure", "announce", "denounce", "top"}

(* Where a writer holds cfgMu. *)
Critical == {"manage", "apply", "send"}

Types ==
  /\ config = [vips |-> config.vips, gateways |-> config.gateways]
  /\ promoters \in Nat /\ authCh \in Nat
  /\ pc \in [Goroutines -> Steps]
  /\ advertiseVIP \in BOOLEAN /\ stale \in BOOLEAN

(* cfgMu is held by the one writer in its critical section. *)
OneWriter ==
  /\ cfgMu \in Writers \cup {"free"}
  /\ \A w \in Writers : pc[w] \in Critical <=> cfgMu = w

(* Somebody is going to write the configuration. *)
WriteDue ==
  \/ authCh > 0 \/ blocked # {} \/ pc["auth"] = "promote"
  \/ promoters > 0 \/ pc["watch"] = "manage"

Writing == \E w \in Writers : pc[w] = "apply"

(* How far the last change has come: it is in the buffer while a writer    *)
(* writes the file, in the file until BIRD has read it, and in BIRD once   *)
(* nobody holds cfgMu and the agent is idle.                               *)
ChangeOnItsWay ==
  /\ ~WriteDue /\ Writing => conf = Generated
  /\ ~WriteDue /\ ~stale /\ ~Writing => file = Generated
  /\ ~WriteDue /\ ~stale /\ cfgMu = "free" /\ pc["agent"] = "idle" => bird = Generated

IndInv == Types /\ OneWriter /\ ChangeOnItsWay /\ RulesCoverVIPs

(* What the configuration is generated from. *)
SameInputs == UNCHANGED <<config, advertiseVIP, storage>>
-----------------------------------------------------------------------------
LEMMA GeneratedFromInputs ==
  ASSUME SameInputs
  PROVE  Generated' = Generated
  BY DEF SameInputs, Generated, writeConfigVips, writeConfigKernel, writeConfigDropIfNoPeer,
         writeConfigGW, FamiliesOf

(* What a goroutine that is no writer may do: nothing here changes. *)
LEMMA OthersStep ==
  ASSUME IndInv, UNCHANGED cfgVars, UNCHANGED <<storage, blocked, authCh>>,
         pc' \in [Goroutines -> Steps],
         \A g \in Writers \cup {"agent"} : pc'[g] = pc[g]
  PROVE  IndInv'
<1>1. Generated' = Generated
  BY GeneratedFromInputs DEF SameInputs, cfgVars
<1>2. Types' /\ OneWriter' /\ RulesCoverVIPs'
  BY DEF IndInv, Types, OneWriter, RulesCoverVIPs, cfgVars, Writers
<1>3. (WriteDue' <=> WriteDue) /\ (Writing' <=> Writing)
  BY DEF WriteDue, Writing, cfgVars, Writers
<1>4. ChangeOnItsWay'
  BY <1>1, <1>3 DEF IndInv, ChangeOnItsWay, cfgVars
<1> QED BY <1>2, <1>4 DEF IndInv

(* A change of the inputs is due to be written, by whoever noticed it. *)
LEMMA DueStep ==
  ASSUME IndInv, Types', OneWriter', RulesCoverVIPs', WriteDue'
  PROVE  IndInv'
  BY DEF IndInv, ChangeOnItsWay

(* SetNewConfig: the rules cover the VIPs of the new attractor. *)
LEMMA SetNewConfigStep ==
  ASSUME IndInv, NEW c \in Configs, SetNewConfig(c)
  PROVE  IndInv'
<1>1. config' = [vips |-> c.vips, gateways |-> c.gateways]
  BY Zenon DEF SetNewConfig, setGateways, setVIPs, IndInv, Types
<1>2. Types'
  BY <1>1 DEF SetNewConfig, IndInv, Types, Goroutines, Steps
<1>3. OneWriter'
  BY DEF SetNewConfig, IndInv, Types, OneWriter, Goroutines, Writers, Critical
<1>4. RulesCoverVIPs'
  BY <1>1 DEF SetNewConfig, SetVIPRules, IndInv, RulesCoverVIPs
<1>5. WriteDue'
  BY DEF SetNewConfig, IndInv, Types, Goroutines, WriteDue
<1> QED BY <1>2, <1>3, <1>4, <1>5, DueStep

(* The secrets and the availability: every change of them is signalled. *)
LEMMA SignalledStep ==
  ASSUME IndInv,
         \/ \E s \in Secrets : ManageStop(s) \/ SecretEvent(s) \/ Signal(s)
         \/ AuthDrain \/ announceVIP
  PROVE  IndInv'
<1>1. CASE \E s \in Secrets : ManageStop(s)
  BY <1>1, DueStep DEF ManageStop, cfgVars, IndInv, Types, OneWriter, RulesCoverVIPs, WriteDue
<1>2. CASE \E s \in Secrets : SecretEvent(s) \/ Signal(s)
  <2>1. authCh' \in Nat /\ (authCh' > 0 \/ blocked' # {})
    BY <1>2 DEF SecretEvent, Signal, IndInv, Types
  <2> QED
    BY <1>2, <2>1, DueStep DEF SecretEvent, Signal, cfgVars, IndInv, Types, OneWriter,
                               RulesCoverVIPs, WriteDue
<1>3. CASE AuthDrain
  BY <1>3, DueStep DEF AuthDrain, Step, cfgVars, IndInv, Types, OneWriter, RulesCoverVIPs, WriteDue,
                       Goroutines, Steps, Writers, Critical
<1>4. CASE announceVIP
  BY <1>4, DueStep DEF announceVIP, Step, authVars, IndInv, Types, OneWriter, RulesCoverVIPs,
                       WriteDue, Goroutines, Steps, Writers, Critical
<1> QED BY <1>1, <1>2, <1>3, <1>4

(* denounceVIP: without a promotion advertiseVIP was FALSE before. *)
LEMMA DenounceStep ==
  ASSUME IndInv, denounceVIP
  PROVE  IndInv'
<1>0. /\ pc' \in [Goroutines -> Steps]
      /\ \A g \in Writers \cup {"agent"} : pc'[g] = pc[g]
  BY DEF denounceVIP, Step, IndInv, Types, Goroutines, Steps, Writers
<1>1. CASE advertiseVIP
  <2>1. promoters' = promoters + 1 /\ promoters \in Nat
    BY <1>1 DEF denounceVIP, IndInv, Types
  <2>4. advertiseVIP' \in BOOLEAN /\ stale' = stale /\ config' = config /\ authCh' = authCh
    BY Zenon DEF denounceVIP, authVars
  <2>5. promoters' \in Nat /\ promoters' > 0
    BY <2>1
  <2>2. Types' /\ WriteDue'
    BY <1>0, <2>4, <2>5 DEF IndInv, Types, WriteDue
  <2>3. OneWriter' /\ RulesCoverVIPs'
    BY <1>0 DEF denounceVIP, IndInv, OneWriter, RulesCoverVIPs
  <2> QED BY <2>2, <2>3, DueStep
<1>2. CASE ~advertiseVIP
  <2>1. advertiseVIP' = advertiseVIP
    BY <1>2, Zenon DEF denounceVIP, IndInv, Types
  <2> QED BY <1>0, <1>2, <2>1, OthersStep DEF denounceVIP, authVars, cfgVars
<1> QED BY <1>1, <1>2

(* writeConfig, by whoever takes cfgMu or has it: the buffer is current. *)
LEMMA WriteStep ==
  ASSUME IndInv, WatcherWrites \/ AuthWrites \/ PromoterWrites
  PROVE  IndInv'
<1>1. /\ conf' = Generated /\ SameInputs
      /\ UNCHANGED <<rules, stale, authCh>>
  BY DEF WatcherWrites, AuthWrites, PromoterWrites, writeConfig, SameInputs, authVars
<1>2. Generated' = Generated
  BY <1>1, GeneratedFromInputs
<1>3. Types'
  BY <1>1 DEF WatcherWrites, AuthWrites, PromoterWrites, Step, SameInputs, IndInv, Types,
     Goroutines, Steps
<1>4. OneWriter' /\ Writing' /\ cfgMu' # "free"
  BY DEF WatcherWrites, AuthWrites, PromoterWrites, Step, IndInv, Types, OneWriter, Goroutines,
         Writers, Critical, Writing
<1>5. RulesCoverVIPs'
  BY <1>1 DEF SameInputs, IndInv, RulesCoverVIPs
<1>6. ChangeOnItsWay'
  BY <1>1, <1>2, <1>4 DEF ChangeOnItsWay
<1> QED BY <1>3, <1>4, <1>5, <1>6 DEF IndInv

(* The file gets what the buffer holds; no other writer is at work. *)
LEMMA ApplyStep ==
  ASSUME IndInv, NEW w \in Writers, Apply(w)
  PROVE  IndInv'
<1>1. Generated' = Generated
  BY GeneratedFromInputs DEF Apply, authVars, SameInputs
<1>2. Types'
  BY Zenon DEF Apply, Step, authVars, IndInv, Types, Goroutines, Steps, Writers
<1>3. /\ OneWriter' /\ cfgMu' # "free"
      /\ Writing /\ ~Writing'
      /\ WriteDue' <=> WriteDue
  BY DEF Apply, Step, authVars, IndInv, Types, OneWriter, Goroutines, Writers, Critical, Writing,
         WriteDue
<1>4. RulesCoverVIPs'
  BY DEF Apply, IndInv, RulesCoverVIPs
<1>5. ChangeOnItsWay'
  BY <1>1, <1>3 DEF Apply, IndInv, ChangeOnItsWay
<1> QED BY <1>2, <1>3, <1>4, <1>5 DEF IndInv

(* A failed write leaves nothing in the buffer and the change unwritten. *)
LEMMA WriteFailsStep ==
  ASSUME IndInv, WriteFails
  PROVE  IndInv'
<1>0. pc["watch"] \in Critical /\ cfgMu = "watch"
  BY DEF WriteFails, IndInv, OneWriter, Critical, Writers
<1>1. Types' /\ RulesCoverVIPs'
  BY DEF WriteFails, authVars, IndInv, Types, RulesCoverVIPs, Goroutines, Steps
<1>2. OneWriter' /\ ~Writing'
  BY <1>0 DEF WriteFails, IndInv, Types, OneWriter, Goroutines, Writers, Critical, Writing
<1>3. ChangeOnItsWay'
  BY <1>2 DEF WriteFails, ChangeOnItsWay
<1> QED BY <1>1, <1>2, <1>3 DEF IndInv

(* The agent takes the change over: the file stays current until BIRD has  *)
(* read it, although cfgMu is free.                                        *)
LEMMA HandoverStep ==
  ASSUME IndInv, NEW w \in Writers, Handover(w)
  PROVE  IndInv'
<1>0. cfgMu = w /\ ~Writing
  BY DEF Handover, IndInv, OneWriter, Critical, Writing
<1>1. Generated' = Generated
  BY GeneratedFromInputs DEF Handover, authVars, SameInputs
<1>2. Types' /\ RulesCoverVIPs'
  BY DEF Handover, authVars, IndInv, Types, RulesCoverVIPs, Goroutines, Steps, Writers
<1>3. /\ OneWriter' /\ ~Writing' /\ pc'["agent"] # "idle"
      /\ WriteDue' <=> WriteDue
  BY <1>0 DEF Handover, authVars, IndInv, Types, OneWriter, Goroutines, Writers, Critical, Writing,
              WriteDue
<1>4. ChangeOnItsWay'
  BY <1>0, <1>1, <1>3 DEF Handover, IndInv, ChangeOnItsWay
<1> QED BY <1>2, <1>3, <1>4 DEF IndInv

(* BIRD reads the file as it is.  Where a writer has truncated it, that    *)
(* writer holds cfgMu and will hand over after this.                       *)
LEMMA ReconfigureStep ==
  ASSUME IndInv, Reconfigure
  PROVE  IndInv'
<1>1. Generated' = Generated
  BY GeneratedFromInputs DEF Reconfigure, authVars, SameInputs
<1>2. Types' /\ RulesCoverVIPs'
  BY DEF Reconfigure, Step, authVars, IndInv, Types, RulesCoverVIPs, Goroutines, Steps
<1>3. /\ OneWriter'
      /\ Writing' <=> Writing
      /\ WriteDue' <=> WriteDue
  BY DEF Reconfigure, Step, authVars, IndInv, Types, OneWriter, Goroutines, Writers, Writing,
     WriteDue
<1>4. cfgMu = "free" => ~Writing
  BY DEF IndInv, OneWriter, Writing, Writers, Critical
<1>5. ChangeOnItsWay'
  BY <1>1, <1>3, <1>4 DEF Reconfigure, Configure, IndInv, ChangeOnItsWay
<1> QED BY <1>2, <1>3, <1>5 DEF IndInv

(* A fresh process: nothing is configured and BIRD runs the empty file. *)
LEMMA FreshState ==
  ASSUME config = NoConfig, advertiseVIP = FALSE, file = Empty, bird = Empty, cfgMu = "free",
         pc = Idle, promoters = 0, stale = FALSE, storage = {}, authCh = 0
  PROVE  IndInv
<1>1. Generated = Empty
  BY Zenon DEF Generated, Empty, NoConfig, writeConfigVips, writeConfigKernel,
     writeConfigDropIfNoPeer, writeConfigGW, writeConfigBase, FamiliesOf
<1>2. ~Writing
  BY DEF Writing, Idle, Writers, Goroutines
<1>3. Types /\ OneWriter /\ RulesCoverVIPs
  BY Zenon DEF Types, OneWriter, RulesCoverVIPs, NoConfig, Idle, Goroutines, Steps, Writers,
     Critical
<1> QED BY <1>1, <1>2, <1>3 DEF IndInv, ChangeOnItsWay

LEMMA RestartStep ==
  ASSUME IndInv, Restart
  PROVE  IndInv'
<1>1. Generated' = Empty
  BY Zenon DEF Restart, Generated, Empty, NoConfig, writeConfigVips, writeConfigKernel,
         writeConfigDropIfNoPeer, writeConfigGW, writeConfigBase, FamiliesOf
<1>2. ~Writing'
  BY DEF Restart, Writing, Idle, Writers, Goroutines
<1>3. Types' /\ OneWriter' /\ RulesCoverVIPs'
  BY Zenon DEF Restart, Types, OneWriter, RulesCoverVIPs, NoConfig, Idle, Goroutines, Steps,
     Writers, Critical
<1> QED BY <1>1, <1>2, <1>3 DEF Restart, IndInv, ChangeOnItsWay

(* The VIP agent takes up what it is sent. *)
LEMMA TakenUp ==
  ASSUME Types, NEW sum, NEW overall, NEW key,
         pc' = [pc EXCEPT !["vip"] = CASE sum = overall -> "idle"
                                       [] sum -> "announce"
                                       [] OTHER -> "denounce",
                          !["monitor"] = IF key = "connectivity" THEN "top" ELSE @]
  PROVE  /\ pc' \in [Goroutines -> Steps]
         /\ \A g \in Writers \cup {"agent"} : pc'[g] = pc[g]
<1>1. \E step \in Steps : pc' = [pc EXCEPT !["vip"] = step,
                          !["monitor"] = IF key = "connectivity" THEN "top" ELSE @]
  <2>1. (CASE sum = overall -> "idle" [] sum -> "announce" [] OTHER -> "denounce") \in Steps
    BY Zenon DEF Steps
  <2> QED BY <2>1, Zenon
<1>2. PICK step \in Steps : pc' = [pc EXCEPT !["vip"] = step,
                          !["monitor"] = IF key = "connectivity" THEN "top" ELSE @]
  BY <1>1, Zenon
<1> QED BY <1>2 DEF Types, Goroutines, Steps, Writers

(* The VIP agent, the monitor, the refresh, the NSP and the environment. *)
LEMMA BystanderStep ==
  ASSUME IndInv,
         \/ ReceiveConnectivity \/ ReceiveTarget
         \/ Monitor \/ Refresh \/ NSP \/ SessionsChange
         \/ UNCHANGED vars
  PROVE  IndInv'
<1>1. UNCHANGED cfgVars /\ UNCHANGED <<storage, blocked, authCh>>
  BY Zenon DEF ReceiveConnectivity, ReceiveTarget, Monitor, MonitorDenounce, MonitorDown, MonitorUp,
         MonitorError, Refresh, NSP, NSPLateRegister, EntryExpires, SessionsChange, vars, authVars,
         cfgVars
<1>2. /\ pc' \in [Goroutines -> Steps]
      /\ \A g \in Writers \cup {"agent"} : pc'[g] = pc[g]
  <2>1. CASE ReceiveConnectivity \/ ReceiveTarget
    <3>1. CASE ReceiveConnectivity
      BY <3>1, TakenUp, Zenon DEF ReceiveConnectivity, SetAvailability, IndInv
    <3>2. CASE ReceiveTarget
      BY <3>2, TakenUp, Zenon DEF ReceiveTarget, SetAvailability, IndInv
    <3> QED BY <2>1, <3>1, <3>2
  <2>2. CASE Monitor
    <3>1. pc' = pc \/ pc' = [pc EXCEPT !["monitor"] = "send"]
      BY <2>2, Zenon DEF Monitor, MonitorDenounce, MonitorDown, MonitorUp, MonitorError, Step
    <3> QED BY <3>1 DEF IndInv, Types, Goroutines, Steps, Writers
  <2>3. CASE Refresh \/ NSP \/ SessionsChange \/ UNCHANGED vars
    BY <2>3, Zenon DEF Refresh, NSP, NSPLateRegister, EntryExpires, SessionsChange, vars,
       IndInv, Types
  <2> QED BY <2>1, <2>2, <2>3
<1> QED BY <1>1, <1>2, OthersStep
-----------------------------------------------------------------------------
(* The inductive invariant of the frontend. *)
THEOREM InvariantHolds == Spec => []IndInv
<1>1. Init => IndInv
  BY FreshState, Zenon DEF Init
<1>2. IndInv /\ [Next]_vars => IndInv'
  <2> SUFFICES ASSUME IndInv, [Next]_vars PROVE IndInv'
    OBVIOUS
  <2>1. CASE watchAttractor
    BY <2>1, SetNewConfigStep DEF watchAttractor
  <2>2. CASE Watcher
    BY <2>2, WriteStep, ApplyStep, HandoverStep, SignalledStep DEF Watcher, Promote, Writers
  <2>3. CASE AuthAgent
    BY <2>3, WriteStep, ApplyStep, HandoverStep, SignalledStep DEF AuthAgent, Promote, Writers
  <2>4. CASE Promoters
    BY <2>4, WriteStep, ApplyStep, HandoverStep DEF Promoters, Promote, Writers
  <2>5. CASE VipAgent
    BY <2>5, BystanderStep, SignalledStep, DenounceStep DEF VipAgent
  <2>6. CASE \E s \in Secrets : SecretEvent(s) \/ Signal(s)
    BY <2>6, SignalledStep
  <2>7. CASE WriteFails \/ Reconfigure \/ Restart
    BY <2>7, WriteFailsStep, ReconfigureStep, RestartStep
  <2>8. CASE Monitor \/ Refresh \/ NSP \/ SessionsChange \/ UNCHANGED vars
    BY <2>8, BystanderStep
  <2> QED BY <2>1, <2>2, <2>3, <2>4, <2>5, <2>6, <2>7, <2>8 DEF Next
<1> QED BY <1>1, <1>2, PTL DEF Spec

(* At most one goroutine changes or writes the configuration (cfgMu). *)
THEOREM WritersExclude == Spec => []OneWriter
<1>1. IndInv => OneWriter
  BY DEF IndInv
<1> QED BY <1>1, InvariantHolds, PTL

(* Once everybody is at rest BIRD runs the configuration generated from    *)
(* the current attractor, secrets and availability, and the VIPs of the    *)
(* attractor always have their rules (promoteConfig, reconfigurationAgent, *)
(* setVIPRules).                                                           *)
THEOREM RoutingFollows == Spec => []RoutingFollowsConfig
<1>1. IndInv => RoutingFollowsConfig
  <2> SUFFICES ASSUME IndInv, Settled, ~stale
               PROVE  bird = Generated
    BY DEF IndInv, RoutingFollowsConfig, BirdFollowsConfig
  <2>1. ~WriteDue
    BY DEF Settled, WriteDue, IndInv, OneWriter, Writers, Critical
  <2> QED BY <2>1 DEF Settled, IndInv, ChangeOnItsWay
<1> QED BY <1>1, InvariantHolds, PTL
=============================================================================
