------------------------ MODULE LoadBalancingProofs ------------------------
(*****************************************************************************)
(* Proofs about the routing tables of the streams, the targets of a stream   *)
(* and the announcements of what is available, for every number of streams,  *)
(* targets, addresses and clients.                                           *)
(*****************************************************************************)
EXTENDS LoadBalancing, TLAPS

(* Every part starts in one of its own initial states. *)
LEMMA PartsInit == LBInit => Init /\ Targets!Init /\ Forwarding!Init
BY DEF LBInit

(* Every step is a step of each part or leaves it alone. *)
LEMMA PartsStep ==
  [LBNext]_allVars => /\ [Next]_vars
                      /\ [Targets!Next]_targetsVars
                      /\ [Forwarding!Next]_availVars
BY DEF LBNext, allVars, TablesOnly, TargetsOnly, AvailabilityOnly, ProcessOnly
-----------------------------------------------------------------------------
(* LoadBalancer                                                            *)

(* The kernel has at most the route of the configured target.              *)
Routed == \A i \in Identifiers : lb.route[i] \in {None, lb.targets[i]}

(* Before Start nothing was set, which is why Start may come first.        *)
Unstarted == ctx = "nil" => /\ lb.targets = Targets!EmptyTable /\ lb.pending = Targets!EmptyTable
                            /\ latest = Targets!EmptyTable

(* What a stream keeps: the properties, and the two facts above.           *)
TargetsInv ==
  /\ Targets!TypeOK /\ Targets!TargetsAccountedFor /\ Targets!AvailabilityFollowsTargets
  /\ Targets!ActiveHaveTarget /\ Targets!DeletedForwardsNothing /\ Routed /\ Unstarted

(* The record of the maps and of what they set up. *)
TargetsShape == [targets : Targets!Table, pending : Targets!Table, route : Targets!Table,
             active : SUBSET Identifiers, registered : BOOLEAN]

(* What removeTarget and AddTarget keep of it, also halfway through a call. *)
Consistent(st) ==
  /\ st \in TargetsShape
  /\ \A i \in Identifiers : st.route[i] \in {None, st.targets[i]}
  /\ ~failing => st.active \subseteq Targets!Ids(st.targets)

(* What removing S from st, with or without a report, leaves. *)
RemovalOf(st, S, update, new) ==
  /\ Consistent(new)
  /\ \A i \in Identifiers : /\ new.targets[i] = IF i \in S THEN None ELSE st.targets[i]
                            /\ new.pending[i] = IF i \in S THEN None ELSE st.pending[i]
  /\ new.registered <=>
       st.registered /\ ~(update /\ S \cap Targets!Ids(st.targets) # {} /\ Targets!Ids(new.targets) = {})

(* What adding list to st leaves, when ok succeed. *)
AdditionTo(st, list, ok, new) ==
  /\ Consistent(new)
  /\ \A i \in ok : i \in Identifiers /\ list[i] # None /\ st.targets[i] = None /\ shm
  /\ \A i \in Identifiers :
       /\ new.targets[i] = IF i \in ok THEN list[i] ELSE st.targets[i]
       /\ new.pending[i] = IF i \in ok THEN None
                           ELSE IF st.targets[i] = None /\ st.pending[i] = None THEN list[i]
                           ELSE st.pending[i]
  /\ new.registered <=> st.registered \/ ok # {}

(* removeTarget forgets a pending target and a configured one, the route   *)
(* with it, and reports the loss of the last one when asked to.            *)
LEMMA RemovedFacts ==
  ASSUME NEW st, Consistent(st), NEW S \in SUBSET Identifiers, NEW stuck \in Targets!Stuck(S),
         NEW update \in BOOLEAN, NEW new, new = Targets!Removed(st, S, stuck, update)
  PROVE  RemovalOf(st, S, update, new)
<1>1. new.targets \in Targets!Table /\ new.pending \in Targets!Table /\ new.route \in Targets!Table
  BY DEF Consistent, TargetsShape, Targets!Removed, Targets!Table, Targets!Ids
<1>2. new.active \in SUBSET Identifiers
  BY DEF Consistent, TargetsShape, Targets!Removed, Targets!Table, Targets!Ids
<1>3. new.registered =
        (st.registered /\ ~(update /\ S \cap Targets!Ids(st.targets) # {} /\ Targets!Ids(new.targets) = {}))
  BY Zenon DEF Targets!Removed
<1>4. new = [targets |-> new.targets, pending |-> new.pending, route |-> new.route,
             active |-> new.active, registered |-> new.registered]
  BY DEF Targets!Removed
<1>5. new.registered \in BOOLEAN
  BY <1>3, Zenon
<1>6. new \in TargetsShape
  BY <1>1, <1>2, <1>4, <1>5, Zenon DEF TargetsShape
<1>7. \A i \in Identifiers : /\ new.targets[i] = IF i \in S THEN None ELSE st.targets[i]
                             /\ new.pending[i] = IF i \in S THEN None ELSE st.pending[i]
  BY DEF Consistent, TargetsShape, Targets!Removed, Targets!Table, Targets!Ids
<1>8. \A i \in Identifiers : new.route[i] \in {None, new.targets[i]}
  BY DEF Consistent, TargetsShape, Targets!Removed, Targets!Table, Targets!Ids
<1>9. ~failing => new.active \subseteq Targets!Ids(new.targets)
  BY DEF Consistent, TargetsShape, Targets!Removed, Targets!Table, Targets!Ids, Targets!Stuck
<1> QED
  BY <1>3, <1>6, <1>7, <1>8, <1>9, Zenon DEF Consistent, RemovalOf

(* AddTarget configures what it can and makes the rest pending; it reports *)
(* the first target.                                                       *)
LEMMA AddedFacts ==
  ASSUME NEW st, Consistent(st), NEW list \in Targets!Table,
         NEW ok \in Targets!Outcomes(Targets!Addable(st, list)),
         NEW new, new = Targets!Added(st, list, ok)
  PROVE  AdditionTo(st, list, ok, new)
<1>1. \A i \in ok : i \in Identifiers /\ list[i] # None /\ st.targets[i] = None /\ shm
  BY DEF Targets!Outcomes, Targets!Addable, Targets!Ids
<1>2. new.targets \in Targets!Table /\ new.pending \in Targets!Table /\ new.route \in Targets!Table
  BY <1>1 DEF Consistent, TargetsShape, Targets!Added, Targets!Table, Targets!Ids
<1>3. new.active \in SUBSET Identifiers
  BY <1>1 DEF Consistent, TargetsShape, Targets!Added
<1>4. new.registered = (st.registered \/ ok # {})
  BY Zenon DEF Targets!Added
<1>5. new = [targets |-> new.targets, pending |-> new.pending, route |-> new.route,
             active |-> new.active, registered |-> new.registered]
  BY DEF Targets!Added
<1>6. new.registered \in BOOLEAN
  BY <1>4, Zenon
<1>7. new \in TargetsShape
  BY <1>2, <1>3, <1>5, <1>6, Zenon DEF TargetsShape
<1>8. \A i \in Identifiers :
        /\ new.targets[i] = IF i \in ok THEN list[i] ELSE st.targets[i]
        /\ new.pending[i] = IF i \in ok THEN None
                            ELSE IF st.targets[i] = None /\ st.pending[i] = None THEN list[i]
                            ELSE st.pending[i]
  BY <1>1 DEF Consistent, TargetsShape, Targets!Added, Targets!Table, Targets!Ids
<1>9. \A i \in Identifiers : new.route[i] \in {None, new.targets[i]}
  BY <1>1 DEF Consistent, TargetsShape, Targets!Added, Targets!Table, Targets!Ids
<1>10. ~failing => new.active \subseteq Targets!Ids(new.targets)
  BY <1>1 DEF Consistent, TargetsShape, Targets!Added, Targets!Table, Targets!Ids
<1> QED
  BY <1>1, <1>4, <1>7, <1>8, <1>9, <1>10, Zenon DEF Consistent, AdditionTo

(* The invariant has what the two lemmas need. *)
LEMMA TargetsFacts == TargetsInv => Consistent(lb)
BY DEF TargetsInv, Targets!TypeOK, Consistent, TargetsShape, Routed, Targets!ActiveHaveTarget

(* setTargets: what is stale goes from both maps before what is new comes, *)
(* so that the maps hold the list between them.                            *)
LEMMA SetTargetsKeeps ==
  ASSUME TargetsInv, NEW list \in Targets!Table, Targets!SetTargets(list)
  PROVE  TargetsInv'
<1> DEFINE known(i) == list[i] # None /\ list[i] \in {lb.pending[i], lb.targets[i]}
           stale == {i \in Targets!Ids(lb.pending) \cup Targets!Ids(lb.targets) : ~known(i)}
           new == [i \in Identifiers |-> IF known(i) THEN None ELSE list[i]]
<1>1. PICK stuck \in Targets!Stuck(stale) :
        LET kept == Targets!Removed(lb, stale, stuck, TRUE) IN
        \E ok \in Targets!Outcomes(Targets!Addable(kept, new)) : lb' = Targets!Added(kept, new, ok)
  BY Zenon DEF Targets!SetTargets
<1>2. PICK kept : kept = Targets!Removed(lb, stale, stuck, TRUE)
  BY Zenon
<1>3. PICK ok \in Targets!Outcomes(Targets!Addable(kept, new)) : lb' = Targets!Added(kept, new, ok)
  BY <1>1, <1>2, Zenon
<1>4. stale \in SUBSET Identifiers /\ new \in Targets!Table
  BY DEF Targets!Ids, Targets!Table
<1>a. \A i \in Identifiers :
        i \in stale <=> ~known(i) /\ (lb.pending[i] # None \/ lb.targets[i] # None)
  BY DEF Targets!Ids
<1>b. \A i \in Identifiers : new[i] = IF known(i) THEN None ELSE list[i]
  OBVIOUS
<1> HIDE DEF stale, new
<1>5. RemovalOf(lb, stale, TRUE, kept)
  BY <1>2, <1>4, TargetsFacts, RemovedFacts, Zenon
<1>6. AdditionTo(kept, new, ok, lb')
  BY <1>3, <1>4, <1>5, AddedFacts DEF RemovalOf
<1>7. /\ ctx = "running" /\ latest' = list
      /\ UNCHANGED <<failing, ctx, deleted, checker, shm, links>>
  BY DEF Targets!SetTargets
<1>8. Targets!TypeOK'
  BY <1>6, <1>7 DEF AdditionTo, TargetsInv, Targets!TypeOK, Consistent, TargetsShape
<1>9. Targets!TargetsAccountedFor'
  <2>1. \A i \in Identifiers : lb.targets[i] = None \/ lb.pending[i] = None
    BY <1>7 DEF TargetsInv, Targets!TargetsAccountedFor, Targets!Ids
  <2>2. \A i \in Identifiers :
          /\ lb'.targets[i] = None \/ lb'.pending[i] = None
          /\ list[i] = IF lb'.targets[i] # None THEN lb'.targets[i] ELSE lb'.pending[i]
    BY <1>a, <1>b, <1>5, <1>6, <2>1 DEF RemovalOf, AdditionTo
  <2> QED
    BY <1>7, <2>2 DEF Targets!TargetsAccountedFor, Targets!Ids
<1>10. Targets!AvailabilityFollowsTargets'
  <2>1. Targets!Ids(kept.targets) = Targets!Ids(lb.targets) \ stale
    BY <1>5 DEF Targets!Ids, RemovalOf
  <2>2. Targets!Ids(lb'.targets) = Targets!Ids(kept.targets) \cup ok
    BY <1>6 DEF Targets!Ids, AdditionTo
  <2> QED
    BY <1>5, <1>6, <2>1, <2>2 DEF TargetsInv, Targets!AvailabilityFollowsTargets, RemovalOf,
       AdditionTo
<1>11. Targets!ActiveHaveTarget' /\ Routed'
  BY <1>6, <1>7 DEF AdditionTo, Consistent, Targets!ActiveHaveTarget, Routed
<1>12. Targets!DeletedForwardsNothing'
  <2>1. ASSUME deleted, ~shm PROVE \A i \in Identifiers : lb'.targets[i] = None
    BY <2>1, <1>5, <1>6 DEF TargetsInv, Targets!DeletedForwardsNothing, Targets!Ids, RemovalOf,
       AdditionTo
  <2> QED
    BY <2>1, <1>7, <1>10, <1>11 DEF Targets!DeletedForwardsNothing,
       Targets!AvailabilityFollowsTargets, Routed, Targets!Ids
<1>13. Unstarted'
  BY <1>7 DEF Unstarted
<1> QED
  BY <1>8, <1>9, <1>10, <1>11, <1>12, <1>13 DEF TargetsInv

(* checkf: a target whose route is lost moves to the pending ones and from *)
(* there back; the caller reports what verifyTargets did not.              *)
LEMMA CheckKeeps ==
  ASSUME TargetsInv, Targets!Check
  PROVE  TargetsInv'
<1> DEFINE lost == {i \in Targets!Ids(lb.targets) : lb.route[i] # lb.targets[i]}
<1>1. PICK stuck \in Targets!Stuck(lost) :
        LET after == Targets!Verified(lb, lost, stuck) IN
        \E ok \in Targets!Outcomes(Targets!Addable(after, after.pending)) :
          lb' = Targets!Checked(lb, after, Targets!Added(after, after.pending, ok))
  BY DEF Targets!Check
<1>2. PICK after : after = Targets!Verified(lb, lost, stuck)
  OBVIOUS
<1>3. PICK ok \in Targets!Outcomes(Targets!Addable(after, after.pending)) :
        lb' = Targets!Checked(lb, after, Targets!Added(after, after.pending, ok))
  BY <1>1, <1>2
<1>4. PICK final : final = Targets!Added(after, after.pending, ok)
  OBVIOUS
<1>5. PICK kept : kept = Targets!Removed(lb, lost, stuck, FALSE)
  BY Zenon
<1>6. lost \in SUBSET Targets!Ids(lb.targets) /\ lost \in SUBSET Identifiers
  BY DEF Targets!Ids
<1> HIDE DEF lost
<1>7. RemovalOf(lb, lost, FALSE, kept)
  BY <1>5, <1>6, TargetsFacts, RemovedFacts, Zenon
<1>8. after = [kept EXCEPT !.pending =
                 [i \in Identifiers |-> IF i \in lost THEN lb.targets[i] ELSE lb.pending[i]]]
  BY <1>2, <1>5 DEF Targets!Verified
<1>9. /\ Consistent(after)
      /\ \A i \in Identifiers :
           /\ after.targets[i] = IF i \in lost THEN None ELSE lb.targets[i]
           /\ after.pending[i] = IF i \in lost THEN lb.targets[i] ELSE lb.pending[i]
      /\ after.registered = kept.registered
  <2>1. lb.targets \in Targets!Table /\ lb.pending \in Targets!Table
    BY DEF TargetsInv, Targets!TypeOK
  <2> QED
    BY <1>7, <1>8, <2>1 DEF RemovalOf, Consistent, TargetsShape, Targets!Table
<1>10. after.registered <=> lb.registered
  BY <1>7, <1>9 DEF RemovalOf
<1>11. AdditionTo(after, after.pending, ok, final)
  <2>1. after.pending \in Targets!Table
    BY <1>9 DEF Consistent, TargetsShape
  <2> QED
    BY <1>4, <1>9, <2>1, AddedFacts
<1>12. lb' = Targets!Checked(lb, after, final)
  BY <1>3, <1>4
<1>13. lb' = final \/ lb' = [final EXCEPT !.registered = FALSE]
  BY <1>12 DEF Targets!Checked
<1>14. Consistent(lb') /\ lb'.targets = final.targets /\ lb'.pending = final.pending
  BY <1>11, <1>13, Zenon DEF AdditionTo, Consistent, TargetsShape
<1>15. UNCHANGED <<failing, ctx, deleted, checker, shm, links, latest>>
  BY DEF Targets!Check
<1>16. Targets!Ids(final.targets) = (Targets!Ids(lb.targets) \ lost) \cup ok
  BY <1>9, <1>11 DEF AdditionTo, Targets!Ids
<1>17. Targets!TypeOK'
  BY <1>14, <1>15 DEF TargetsInv, Targets!TypeOK, Consistent, TargetsShape
<1>18. Targets!TargetsAccountedFor'
  <2>1. ASSUME ctx = "running"
        PROVE  \A i \in Identifiers :
                 /\ lb'.targets[i] = None \/ lb'.pending[i] = None
                 /\ latest[i] = IF lb'.targets[i] # None THEN lb'.targets[i] ELSE lb'.pending[i]
    <3>1. \A i \in Identifiers : lb.targets[i] = None \/ lb.pending[i] = None
      BY <2>1 DEF TargetsInv, Targets!TargetsAccountedFor, Targets!Ids
    <3>2. \A i \in Identifiers : latest[i] = IF lb.targets[i] # None THEN lb.targets[i] ELSE lb.pending[i]
      BY <2>1 DEF TargetsInv, Targets!TargetsAccountedFor
    <3>3. \A i \in lost : lb.targets[i] # None
      BY <1>6 DEF Targets!Ids
    <3> QED
      BY <1>9, <1>11, <1>14, <3>1, <3>2, <3>3 DEF AdditionTo
  <2> QED
    BY <1>15, <2>1 DEF Targets!TargetsAccountedFor, Targets!Ids
<1>19. Targets!AvailabilityFollowsTargets'
  <2>1. final.registered <=> lb.registered \/ ok # {}
    BY <1>10, <1>11 DEF AdditionTo
  <2>2. Targets!Ids(after.targets) = Targets!Ids(lb.targets) \ lost
    BY <1>9 DEF Targets!Ids
  <2>3. lb.registered <=> Targets!Ids(lb.targets) # {}
    BY DEF TargetsInv, Targets!AvailabilityFollowsTargets
  <2>4. CASE Targets!Ids(lb.targets) # {} /\ Targets!Ids(after.targets) = {} /\ Targets!Ids(final.targets) = {}
    <3>1. lb' = [final EXCEPT !.registered = FALSE]
      BY <1>12, <2>4 DEF Targets!Checked
    <3>2. ~lb'.registered
      BY <1>11, <3>1 DEF AdditionTo, Consistent, TargetsShape
    <3> QED
      BY <1>14, <2>4, <3>2 DEF Targets!AvailabilityFollowsTargets
  <2>5. CASE ~(Targets!Ids(lb.targets) # {} /\ Targets!Ids(after.targets) = {} /\ Targets!Ids(final.targets) = {})
    <3>1. lb' = final
      BY <1>12, <2>5 DEF Targets!Checked
    <3> QED
      BY <1>16, <2>1, <2>2, <2>3, <2>5, <3>1 DEF Targets!AvailabilityFollowsTargets
  <2> QED
    BY <2>4, <2>5
<1>20. Targets!ActiveHaveTarget' /\ Routed'
  BY <1>14, <1>15 DEF Consistent, Targets!ActiveHaveTarget, Routed
<1>21. Targets!DeletedForwardsNothing'
  <2>1. ASSUME deleted, ~shm PROVE \A i \in Identifiers : lb'.targets[i] = None
    BY <2>1, <1>9, <1>11, <1>14 DEF TargetsInv, Targets!DeletedForwardsNothing, Targets!Ids,
       AdditionTo
  <2> QED
    BY <2>1, <1>15, <1>19, <1>20 DEF Targets!DeletedForwardsNothing,
       Targets!AvailabilityFollowsTargets, Routed, Targets!Ids
<1>22. Unstarted'
  <2>1. ctx # "nil"
    BY DEF TargetsInv, Targets!TypeOK, Targets!Check
  <2> QED
    BY <1>15, <2>1 DEF Unstarted
<1> QED
  BY <1>17, <1>18, <1>19, <1>20, <1>21, <1>22 DEF TargetsInv

(* Delete removes every configured target and reports it. *)
LEMMA DeleteKeeps ==
  ASSUME TargetsInv, Targets!Delete
  PROVE  TargetsInv'
<1>1. PICK kept : kept = Targets!Removed(lb, Targets!Ids(lb.targets), {}, TRUE)
  BY Zenon
<1>2. RemovalOf(lb, Targets!Ids(lb.targets), TRUE, kept)
  <2>1. Targets!Ids(lb.targets) \in SUBSET Identifiers /\ {} \in Targets!Stuck(Targets!Ids(lb.targets))
    BY DEF Targets!Ids, Targets!Stuck
  <2> QED
    BY <1>1, <2>1, TargetsFacts, RemovedFacts, Zenon
<1>3. lb' = [kept EXCEPT !.active = {}]
  BY <1>1 DEF Targets!Delete
<1>4. Consistent(lb') /\ lb'.targets = kept.targets /\ lb'.registered = kept.registered
  BY <1>2, <1>3 DEF RemovalOf, Consistent, TargetsShape
<1>5. \A i \in Identifiers : lb'.targets[i] = None
  BY <1>2, <1>4 DEF RemovalOf, Targets!Ids
<1>6. Targets!Ids(lb'.targets) = {}
  BY <1>5 DEF Targets!Ids
<1>7. ~lb'.registered
  BY <1>2, <1>4, <1>6 DEF RemovalOf, TargetsInv, Targets!AvailabilityFollowsTargets
<1>8. /\ ctx' = IF ctx = "running" THEN "cancelled" ELSE ctx
      /\ deleted' = TRUE /\ shm' = FALSE
      /\ UNCHANGED <<failing, checker, links, latest>>
  BY DEF Targets!Delete
<1>9. Targets!TypeOK' /\ Targets!TargetsAccountedFor'
  BY <1>4, <1>8, Zenon DEF TargetsInv, Targets!TypeOK, Consistent, TargetsShape,
     Targets!TargetsAccountedFor
<1>10. Targets!AvailabilityFollowsTargets'
  BY <1>6, <1>7 DEF Targets!AvailabilityFollowsTargets
<1>11. Targets!ActiveHaveTarget' /\ Routed'
  BY <1>4, <1>8 DEF Consistent, Targets!ActiveHaveTarget, Routed
<1>12. Targets!DeletedForwardsNothing'
  BY <1>5, <1>6, <1>7, <1>11 DEF Targets!DeletedForwardsNothing, Routed
<1>13. Unstarted'
  <2>1. ASSUME ctx = "nil"
        PROVE  /\ lb'.targets = Targets!EmptyTable /\ lb'.pending = Targets!EmptyTable
               /\ latest' = Targets!EmptyTable
    <3>1. lb'.targets \in Targets!Table /\ lb'.pending \in Targets!Table
      BY <1>4 DEF Consistent, TargetsShape
    <3>2. \A i \in Identifiers : lb'.pending[i] = None
      BY <1>2, <1>3, <2>1 DEF RemovalOf, TargetsInv, Unstarted, Targets!EmptyTable, Consistent,
         TargetsShape, Targets!Ids
    <3> QED
      BY <1>5, <1>8, <2>1, <3>1, <3>2 DEF TargetsInv, Unstarted, Targets!EmptyTable, Targets!Table
  <2> QED
    BY <1>8, <2>1 DEF Unstarted
<1> QED
  BY <1>9, <1>10, <1>11, <1>12, <1>13 DEF TargetsInv

(* The kernel drops routes; the maps do not know yet. *)
LEMMA InterfaceDeletedKeeps ==
  ASSUME TargetsInv, NEW a \in Addresses, Targets!InterfaceDeleted(a)
  PROVE  TargetsInv'
<1>1. lb' = [lb EXCEPT !.route = [i \in Identifiers |-> IF lb.route[i] = a THEN None ELSE lb.route[i]]]
  BY DEF Targets!InterfaceDeleted
<1>2. UNCHANGED <<failing, ctx, deleted, checker, shm, latest>> /\ links' \in SUBSET Addresses
  BY DEF Targets!InterfaceDeleted, TargetsInv, Targets!TypeOK
<1>3. /\ lb' \in TargetsShape
      /\ lb'.targets = lb.targets /\ lb'.pending = lb.pending
      /\ lb'.registered = lb.registered /\ lb'.active = lb.active
      /\ \A i \in Identifiers : lb'.route[i] \in {None, lb.route[i]}
  BY <1>1 DEF TargetsInv, Targets!TypeOK, TargetsShape, Targets!Table
<1>4. Targets!TypeOK'
  BY <1>2, <1>3 DEF TargetsInv, Targets!TypeOK, TargetsShape
<1>5. Targets!TargetsAccountedFor' /\ Targets!AvailabilityFollowsTargets' /\ Targets!ActiveHaveTarget'
  BY <1>2, <1>3 DEF TargetsInv, Targets!TargetsAccountedFor, Targets!AvailabilityFollowsTargets,
     Targets!ActiveHaveTarget
<1>6. Targets!DeletedForwardsNothing' /\ Routed' /\ Unstarted'
  BY <1>2, <1>3 DEF TargetsInv, Targets!DeletedForwardsNothing, Routed, Unstarted
<1> QED
  BY <1>4, <1>5, <1>6 DEF TargetsInv

(* A new stream has no targets. *)
LEMMA TargetsInit == Targets!Init => TargetsInv
<1> SUFFICES ASSUME Targets!Init PROVE TargetsInv
  OBVIOUS
<1>1. Targets!EmptyTable \in Targets!Table /\ Targets!Ids(Targets!EmptyTable) = {}
  BY DEF Targets!EmptyTable, Targets!Table, Targets!Ids
<1>2. Targets!TypeOK
  BY <1>1, Zenon DEF Targets!Init, Targets!TypeOK
<1> QED
  BY <1>1, <1>2 DEF Targets!Init, TargetsInv, Targets!TargetsAccountedFor,
     Targets!AvailabilityFollowsTargets, Targets!ActiveHaveTarget,
     Targets!DeletedForwardsNothing, Routed, Unstarted, Targets!EmptyTable

(* Every step of a stream keeps the invariant. *)
LEMMA TargetsPreserved == TargetsInv /\ [Targets!Next]_targetsVars => TargetsInv'
<1> SUFFICES ASSUME TargetsInv, [Targets!Next]_targetsVars PROVE TargetsInv'
  OBVIOUS
<1>1. CASE Targets!StartLB
  BY <1>1 DEF Targets!StartLB, TargetsInv, Targets!TypeOK, Targets!TargetsAccountedFor,
     Targets!AvailabilityFollowsTargets, Targets!ActiveHaveTarget,
     Targets!DeletedForwardsNothing, Routed, Unstarted, Targets!EmptyTable, Targets!Ids
<1>2. CASE Targets!CheckerEnds
  BY <1>2 DEF Targets!CheckerEnds, TargetsInv, Targets!TypeOK, Targets!TargetsAccountedFor,
     Targets!AvailabilityFollowsTargets, Targets!ActiveHaveTarget,
     Targets!DeletedForwardsNothing, Routed, Unstarted
<1>3. CASE Targets!Recreate
  BY <1>3 DEF Targets!Recreate, TargetsInv, Targets!TypeOK, Targets!TargetsAccountedFor,
     Targets!AvailabilityFollowsTargets, Targets!ActiveHaveTarget,
     Targets!DeletedForwardsNothing, Routed, Unstarted
<1>4. CASE \E a \in Addresses : Targets!InterfaceCreated(a)
  BY <1>4 DEF Targets!InterfaceCreated, TargetsInv, Targets!TypeOK, Targets!TargetsAccountedFor,
     Targets!AvailabilityFollowsTargets, Targets!ActiveHaveTarget,
     Targets!DeletedForwardsNothing, Routed, Unstarted
<1>5. CASE UNCHANGED targetsVars
  BY <1>5 DEF targetsVars, TargetsInv, Targets!TypeOK, Targets!TargetsAccountedFor,
     Targets!AvailabilityFollowsTargets, Targets!ActiveHaveTarget,
     Targets!DeletedForwardsNothing, Routed, Unstarted
<1> QED
  BY <1>1, <1>2, <1>3, <1>4, <1>5, SetTargetsKeeps, CheckKeeps, DeleteKeeps,
     InterfaceDeletedKeeps DEF Targets!Next

(* The argument about the targets holds in every behaviour of a stream. *)
THEOREM TargetsInvariant == LBSpec => []TargetsInv
<1>1. Targets!Init => TargetsInv
  BY TargetsInit
<1>2. TargetsInv /\ [Targets!Next]_targetsVars => TargetsInv'
  BY TargetsPreserved
<1> QED
  BY <1>1, <1>2, PartsInit, PartsStep, PTL DEF LBSpec

(* Whatever lists, failures, interface events and retries follow each      *)
(* other, the two maps hold the last list, the stream is announced exactly *)
(* while it has a configured target, and a deleted stream whose nfqlb      *)
(* instance is gone forwards nothing.                                      *)
THEOREM TargetsStayConsistent == LBSpec => []TargetsConsistent
<1>1. TargetsInv => TargetsConsistent
  BY DEF TargetsInv, TargetsConsistent
<1> QED
  BY <1>1, TargetsInvariant, PTL
-----------------------------------------------------------------------------
(* ForwardingAvailability                                                  *)

(* Nobody owes w an update: its slot is empty and Stop has none for it. *)
UpToDate(w) == chan[w] = "empty" /\ poster[w] \notin {"posting", "timedout"}

(* What a watcher that owes nothing has read and sent is the state; and    *)
(* what belongs to Stop is there only after it.                            *)
AvailabilityInv ==
  /\ Forwarding!TypeOK
  /\ stopped => forwardingPlane = {}
  /\ \A w \in Clients :
       /\ UpToDate(w) /\ pc[w] = "send" => target[w] = Forwarding!Available
       /\ UpToDate(w) /\ pc[w] = "listen" => lastSentTarget[w] = Forwarding!Available
       /\ poster[w] # "none" \/ chan[w] = "stop" \/ acks[w] => stopped
       /\ acks[w] /\ pc[w] = "send" => target[w] = "unavailable"
       /\ poster[w] = "done" => /\ lastSentTarget[w] = "unavailable"
                                /\ pc[w] = "send" => target[w] = "unavailable"
-----------------------------------------------------------------------------
(* The invariant is inductive: a skipped update finds another one in the   *)
(* slot, and a watcher reads the state only after it emptied the slot.     *)
LEMMA AvailabilityPreserved == AvailabilityInv /\ [Forwarding!Next]_availVars => AvailabilityInv'
<1> SUFFICES ASSUME AvailabilityInv, [Forwarding!Next]_availVars PROVE AvailabilityInv'
    OBVIOUS
<1> USE DEF AvailabilityInv, Forwarding!TypeOK, UpToDate, Forwarding!Available,
         Forwarding!Availability, Forwarding!watcher
<1>1. ASSUME NEW s \in Streams, Forwarding!Register(s) PROVE AvailabilityInv'
  BY <1>1 DEF Forwarding!Register, Forwarding!Update
<1>2. ASSUME NEW s \in Streams, Forwarding!Unregister(s) PROVE AvailabilityInv'
  BY <1>2 DEF Forwarding!Unregister, Forwarding!Update
<1>3. CASE Forwarding!Stop
  BY <1>3 DEF Forwarding!Stop
<1>4. ASSUME NEW w \in Clients, Forwarding!StopPost(w) PROVE AvailabilityInv'
  BY <1>4 DEF Forwarding!StopPost
<1>5. ASSUME NEW w \in Clients, Forwarding!StopTimeout(w) PROVE AvailabilityInv'
  BY <1>5 DEF Forwarding!StopTimeout
<1>6. ASSUME NEW w \in Clients, Forwarding!Watch(w) PROVE AvailabilityInv'
  BY <1>6 DEF Forwarding!Watch
<1>7. ASSUME NEW w \in Clients, Forwarding!Read(w) PROVE AvailabilityInv'
  BY <1>7 DEF Forwarding!Read
<1>8. ASSUME NEW w \in Clients, Forwarding!Send(w) PROVE AvailabilityInv'
  BY <1>8 DEF Forwarding!Send, Forwarding!Feedback
<1>9. ASSUME NEW w \in Clients, Forwarding!SendFails(w) \/ Forwarding!Cancel(w) PROVE AvailabilityInv'
  <2>1. Forwarding!Leave(w)
    BY <1>9 DEF Forwarding!SendFails, Forwarding!Cancel
  <2>2. Forwarding!TypeOK'
    BY <2>1 DEF Forwarding!Leave
  <2>3. UNCHANGED <<forwardingPlane, stopped, Forwarding!Available>>
    BY <2>1 DEF Forwarding!Leave
  <2>4. pc'[w] = "off" /\ chan'[w] = "empty" /\ acks'[w] = FALSE /\ poster'[w] = "none"
    BY <2>1 DEF Forwarding!Leave
  <2>5. ASSUME NEW v \in Clients, v # w
        PROVE  /\ pc'[v] = pc[v] /\ chan'[v] = chan[v] /\ acks'[v] = acks[v]
               /\ poster'[v] = poster[v] /\ target'[v] = target[v]
               /\ lastSentTarget'[v] = lastSentTarget[v]
    BY <2>1, <2>5 DEF Forwarding!Leave
  <2> QED
    BY <2>2, <2>3, <2>4, <2>5
<1>10. ASSUME NEW w \in Clients, Forwarding!Receive(w) PROVE AvailabilityInv'
  BY <1>10 DEF Forwarding!Receive
<1>11. CASE UNCHANGED availVars
  BY <1>11 DEF availVars
<1> QED
  BY <1>1, <1>2, <1>3, <1>4, <1>5, <1>6, <1>7, <1>8, <1>9, <1>10, <1>11, Zenon DEF Forwarding!Next
-----------------------------------------------------------------------------
(* The invariant holds in every behaviour of the service. *)
THEOREM AvailabilityInvariant == LBSpec => []AvailabilityInv
<1>1. Forwarding!Init => AvailabilityInv
  <2> SUFFICES ASSUME Forwarding!Init PROVE AvailabilityInv
    OBVIOUS
  <2>1. Forwarding!TypeOK
    BY Zenon DEF Forwarding!Init, Forwarding!TypeOK
  <2>2. \A w \in Clients : /\ pc[w] = "off" /\ chan[w] = "empty"
                           /\ ~acks[w] /\ poster[w] = "none"
    BY DEF Forwarding!Init
  <2> QED
    BY <2>1, <2>2 DEF Forwarding!Init, AvailabilityInv
<1>2. AvailabilityInv /\ [Forwarding!Next]_availVars => AvailabilityInv'
  BY AvailabilityPreserved
<1> QED
  BY <1>1, <1>2, PartsInit, PartsStep, PTL DEF LBSpec

(* However many updates Register and Unregister skip because the slot is   *)
(* taken, a watcher at rest has sent the state as it is.                   *)
THEOREM SkippedUpdatesHarmless == LBSpec => []Forwarding!WatchersCurrent
<1>1. AvailabilityInv => Forwarding!WatchersCurrent
  BY DEF AvailabilityInv, Forwarding!WatchersCurrent, UpToDate
<1> QED
  BY <1>1, AvailabilityInvariant, PTL

(* A watcher whose feedback Stop received has told its client that nothing *)
(* is available.                                                           *)
THEOREM StopIsHeard == LBSpec => []Forwarding!StopActedUpon
<1>1. AvailabilityInv => Forwarding!StopActedUpon
  BY DEF AvailabilityInv, Forwarding!StopActedUpon
<1> QED
  BY <1>1, AvailabilityInvariant, PTL
-----------------------------------------------------------------------------
(* IdentifierOffsets                                                       *)
(* The saved ranges are disjoint, and a running stream that got its offset *)
(* from the search keeps it saved, with the size it was saved for.  The    *)
(* second part fails when a stream may come back with another limit.       *)
SavedDisjoint ==
  \A s, t \in saved :
    s # t => base[s] + size[s] <= base[t] \/ base[t] + size[t] <= base[s]

PlacedSaved ==
  \A s \in Placed : s \in saved /\ place[s] = base[s] /\ used[s] = size[s]

CallerNotSaved == caller # NoStream => caller \notin saved \cup running

OffsetsInv == TypeOK /\ NoOverflow /\ SavedDisjoint /\ CallerNotSaved /\ SearchSkipsNoGap
-----------------------------------------------------------------------------
(* The type invariant makes numbers of the values that Generate compares.  *)
LEMMA OffsetNumbers ==
  ASSUME TypeOK
  PROVE  /\ \A s \in Streams : base[s] \in Nat /\ size[s] \in Nat
         /\ want \in Nat /\ probe \in Nat /\ Start \in Nat
         /\ saved \subseteq Streams
<1>1. Limits \cup {0} \subseteq Nat
  BY LimitsAssumption
<1>2. \A s \in Streams : size[s] \in Limits \cup {0}
  BY DEF TypeOK
<1> QED
  BY <1>1, <1>2, StartAssumption DEF TypeOK

(* The initial state satisfies the invariant. *)
LEMMA OffsetsInit == Init => OffsetsInv /\ PlacedSaved
BY NoStreamAssumption, MaxIntAssumption DEF Init, OffsetsInv, NoOverflow, TypeOK, SavedDisjoint,
   PlacedSaved, Placed, CallerNotSaved, SearchSkipsNoGap

(* Every step of addStream, Generate, deleteStream and evictStreams keeps  *)
(* the types.                                                              *)
LEMMA OffsetsTypePreserved == TypeOK /\ [Next]_vars => TypeOK'
<1> SUFFICES ASSUME TypeOK, [Next]_vars PROVE TypeOK'
    OBVIOUS
<1> USE NoStreamAssumption, LimitsAssumption, StartAssumption DEF TypeOK
<1>1. ASSUME NEW s \in Streams, NEW n \in Limits, AddKnown(s, n) PROVE TypeOK'
  BY <1>1 DEF AddKnown, Run, generator, call
<1>2. ASSUME NEW s \in Streams, NEW n \in Limits, AddNew(s, n) PROVE TypeOK'
  BY <1>2 DEF AddNew, generator, service
<1>3. ASSUME NEW s \in Streams, Skip(s) PROVE TypeOK'
  BY <1>3, OffsetNumbers DEF Skip, generator, service
<1>4. ASSUME NEW s \in Streams, DeleteStream(s) PROVE TypeOK'
  BY <1>4 DEF DeleteStream, Release, call
<1>5. CASE Found
  BY <1>5 DEF Found, Run, service
<1>6. CASE NotFound
  BY <1>6 DEF NotFound, Run, service, generator
<1>7. CASE EvictStreams
  BY <1>7 DEF EvictStreams, generator, call
<1>8. CASE UNCHANGED vars
  BY <1>8 DEF vars
<1> QED
  BY <1>1, <1>2, <1>3, <1>4, <1>5, <1>6, <1>7, <1>8 DEF Next
-----------------------------------------------------------------------------
(* One jump of the search passes no offset that fits: every offset from    *)
(* the probe up to the end of a range that it meets also meets the range.  *)
LEMMA JumpPassesNoGap ==
  ASSUME TypeOK, NEW s \in saved, Overlaps(probe, want, s),
         NEW o \in Int, probe <= o, o < base[s] + size[s]
  PROVE  Overlaps(o, want, s)
BY OffsetNumbers DEF Overlaps

(* The search saves a range only if it ends at MaxInt or before, and jumps *)
(* only to such an end.                                                    *)
LEMMA OverflowPreserved == TypeOK /\ NoOverflow /\ [Next]_vars => NoOverflow'
<1> SUFFICES ASSUME TypeOK, NoOverflow, [Next]_vars PROVE NoOverflow'
    OBVIOUS
<1>t. /\ \A s \in Streams : base[s] \in Nat /\ size[s] \in Nat
      /\ want \in Nat /\ probe \in Nat /\ Start \in Nat
      /\ saved \subseteq Streams
  BY OffsetNumbers
<1> USE MaxIntAssumption DEF NoOverflow
<1>1. ASSUME NEW s \in Streams, NEW n \in Limits, AddKnown(s, n) PROVE NoOverflow'
  BY <1>1 DEF AddKnown, generator, call
<1>2. ASSUME NEW s \in Streams, NEW n \in Limits, AddNew(s, n) PROVE NoOverflow'
  BY <1>2 DEF AddNew, generator
<1>3. ASSUME NEW s \in Streams, Skip(s) PROVE NoOverflow'
  BY <1>3 DEF Skip, generator
<1>4. ASSUME NEW s \in Streams, DeleteStream(s) PROVE NoOverflow'
  BY <1>4, <1>t DEF DeleteStream, Release, call, TypeOK
<1>5. CASE Found
  <2>1. probe + want <= MaxInt
    BY <1>5, <1>t DEF Found, Exhausted
  <2> QED
    BY <1>5, <2>1, <1>t DEF Found, TypeOK
<1>6. CASE NotFound
  BY <1>6 DEF NotFound, generator
<1>7. CASE EvictStreams
  BY <1>7 DEF EvictStreams, generator, call
<1>8. CASE UNCHANGED vars
  BY <1>8 DEF vars
<1> QED
  BY <1>1, <1>2, <1>3, <1>4, <1>5, <1>6, <1>7, <1>8, Zenon DEF Next

(* The invariant is inductive. *)
LEMMA OffsetsPreserved == OffsetsInv /\ [Next]_vars => OffsetsInv'
<1> SUFFICES ASSUME OffsetsInv, [Next]_vars PROVE OffsetsInv'
    OBVIOUS
<1>0. TypeOK' /\ NoOverflow'
  BY OffsetsTypePreserved, OverflowPreserved DEF OffsetsInv
<1>t. /\ \A s \in Streams : base[s] \in Nat /\ size[s] \in Nat
      /\ want \in Nat /\ probe \in Nat /\ Start \in Nat
      /\ saved \subseteq Streams
  BY OffsetNumbers DEF OffsetsInv
<1>1. ASSUME NEW s \in Streams, NEW n \in Limits, AddKnown(s, n) PROVE OffsetsInv'
  BY <1>0, <1>1 DEF OffsetsInv, AddKnown, Run, generator, call,
     SavedDisjoint, CallerNotSaved, SearchSkipsNoGap, Fits, Overlaps
<1>2. ASSUME NEW s \in Streams, NEW n \in Limits, AddNew(s, n) PROVE OffsetsInv'
  BY <1>0, <1>2, <1>t DEF OffsetsInv, AddNew, generator, service,
     SavedDisjoint, CallerNotSaved, SearchSkipsNoGap, Fits, Overlaps
<1>3. ASSUME NEW s \in Streams, Skip(s) PROVE OffsetsInv'
  <2>1. SavedDisjoint' /\ CallerNotSaved'
    BY <1>3 DEF OffsetsInv, Skip, generator, service, SavedDisjoint, CallerNotSaved
  <2>2. ASSUME NEW o \in Start..(probe' - 1) PROVE ~Fits(o, want)
    <3>1. CASE o < probe
      BY <3>1, <1>3, <1>t DEF OffsetsInv, SearchSkipsNoGap, Skip
    <3>2. CASE probe <= o
      <4>1. Overlaps(o, want, s)
        BY <3>2, <1>3, <1>t, JumpPassesNoGap DEF OffsetsInv, Skip
      <4> QED
        BY <4>1, <1>3 DEF Fits, Skip
    <3> QED
      BY <3>1, <3>2, <1>t
  <2>3. SearchSkipsNoGap'
    BY <2>2, <1>3 DEF SearchSkipsNoGap, Fits, Overlaps, Skip, generator
  <2> QED
    BY <1>0, <2>1, <2>3 DEF OffsetsInv
<1>4. ASSUME NEW s \in Streams, DeleteStream(s) PROVE OffsetsInv'
  BY <1>0, <1>4, <1>t DEF OffsetsInv, DeleteStream, Release, call,
     SavedDisjoint, CallerNotSaved, SearchSkipsNoGap
<1>5. CASE Found
  <2>1. SavedDisjoint'
    <3> SUFFICES ASSUME NEW s \in saved', NEW t \in saved', s # t
                 PROVE  base'[s] + size'[s] <= base'[t] \/ base'[t] + size'[t] <= base'[s]
      BY Zenon DEF SavedDisjoint
    <3>1. /\ saved' = saved \cup {caller} /\ caller \in Streams /\ caller \notin saved
          /\ base' = [base EXCEPT ![caller] = probe]
          /\ size' = [size EXCEPT ![caller] = want]
          /\ base \in [Streams -> Nat] /\ size \in [Streams -> Limits \cup {0}]
      BY <1>5 DEF Found, OffsetsInv, TypeOK, CallerNotSaved
    <3>2. \A r \in saved : base'[r] = base[r] /\ size'[r] = size[r]
      BY <3>1, <1>t
    <3>3. base'[caller] = probe /\ size'[caller] = want
      BY <3>1
    <3>4. \A r \in saved : base[r] + size[r] <= probe \/ probe + want <= base[r]
      BY <1>5, <1>t DEF Found, Fits, Overlaps
    <3> QED
      BY <3>1, <3>2, <3>3, <3>4 DEF OffsetsInv, SavedDisjoint
  <2>2. CallerNotSaved' /\ SearchSkipsNoGap'
    BY <1>5 DEF Found, CallerNotSaved, SearchSkipsNoGap
  <2> QED
    BY <1>0, <2>1, <2>2 DEF OffsetsInv
<1>6. CASE NotFound
  BY <1>0, <1>6 DEF OffsetsInv, NotFound, generator, SavedDisjoint, CallerNotSaved, SearchSkipsNoGap
<1>7. CASE EvictStreams
  BY <1>0, <1>7 DEF OffsetsInv, EvictStreams, generator, call,
     SavedDisjoint, CallerNotSaved, SearchSkipsNoGap, Fits, Overlaps
<1>8. CASE UNCHANGED vars
  BY <1>0, <1>8 DEF OffsetsInv, vars, SavedDisjoint, CallerNotSaved, SearchSkipsNoGap, Fits,
     Overlaps
<1> QED
  BY <1>1, <1>2, <1>3, <1>4, <1>5, <1>6, <1>7, <1>8 DEF Next
-----------------------------------------------------------------------------
(* When no stream comes back with another limit, a placed stream keeps the *)
(* range that is saved for it.                                             *)
LEMMA PlacedPreserved ==
  ASSUME LimitsImmutable PROVE OffsetsInv /\ PlacedSaved /\ [Next]_vars => PlacedSaved'
<1> SUFFICES ASSUME OffsetsInv, PlacedSaved, [Next]_vars PROVE PlacedSaved'
    OBVIOUS
<1> USE DEF PlacedSaved, Placed
<1>t. TypeOK /\ CallerNotSaved
  BY DEF OffsetsInv
<1>1. ASSUME NEW s \in Streams, NEW n \in Limits, AddKnown(s, n) PROVE PlacedSaved'
  BY <1>1, <1>t DEF TypeOK, AddKnown, Run, generator
<1>2. ASSUME NEW s \in Streams, NEW n \in Limits, AddNew(s, n) PROVE PlacedSaved'
  BY <1>2 DEF AddNew, generator, service
<1>3. ASSUME NEW s \in Streams, Skip(s) PROVE PlacedSaved'
  BY <1>3 DEF Skip, generator, service
<1>4. ASSUME NEW s \in Streams, DeleteStream(s) PROVE PlacedSaved'
  BY <1>4, <1>t DEF TypeOK, DeleteStream, Release
<1>5. CASE Found
  BY <1>5, <1>t DEF TypeOK, CallerNotSaved, Found, Run, service
<1>6. CASE NotFound
  <2>1. CASE Run(caller, 0, want)
    <3>1. ~(0 >= Start)
      BY StartAssumption
    <3> QED
      BY <1>6, <2>1, <3>1, <1>t DEF TypeOK, NotFound, Run, generator
  <2>2. CASE UNCHANGED service
    BY <1>6, <2>2 DEF NotFound, service, generator
  <2> QED
    BY <1>6, <2>1, <2>2, Zenon DEF NotFound
<1>7. CASE EvictStreams
  BY <1>7 DEF EvictStreams
<1>8. CASE UNCHANGED vars
  BY <1>8 DEF vars
<1> QED
  BY <1>1, <1>2, <1>3, <1>4, <1>5, <1>6, <1>7, <1>8, Zenon DEF Next
-----------------------------------------------------------------------------
(* The types, the disjointness of the saved ranges and the search          *)
(* invariant hold in every behaviour of the generator and its callers.     *)
THEOREM OffsetsInvariant == LBSpec => []OffsetsInv
<1>1. Init => OffsetsInv
  BY OffsetsInit
<1>2. OffsetsInv /\ [Next]_vars => OffsetsInv'
  BY OffsetsPreserved
<1> QED
  BY <1>1, <1>2, PartsInit, PartsStep, PTL DEF LBSpec

(* Generate returns the least offset at which the stream fits: at no point *)
(* of the search an offset that fits was passed.                           *)
THEOREM LeastOffset == LBSpec => []SearchSkipsNoGap
<1>1. OffsetsInv => SearchSkipsNoGap
  BY DEF OffsetsInv
<1> QED
  BY <1>1, OffsetsInvariant, PTL

(* No sum that Generate computes overflows. *)
THEOREM OffsetsInRange == LBSpec => []NoOverflow
<1>1. OffsetsInv => NoOverflow
  BY DEF OffsetsInv
<1> QED
  BY <1>1, OffsetsInvariant, PTL

(* As long as a stream that comes back has the limit it had, no two        *)
(* running streams share a routing table, however additions, deletions,    *)
(* failures and evictions follow each other.                               *)
THEOREM StreamTablesDisjoint == ASSUME LimitsImmutable PROVE LBSpec => []TablesDisjoint
<1>1. Init => OffsetsInv /\ PlacedSaved
  BY OffsetsInit
<1>2. OffsetsInv /\ PlacedSaved /\ [Next]_vars => OffsetsInv' /\ PlacedSaved'
  BY OffsetsPreserved, PlacedPreserved, Zenon
<1>3. OffsetsInv /\ PlacedSaved => TablesDisjoint
  <2> SUFFICES ASSUME OffsetsInv, PlacedSaved, NEW s \in Placed, NEW t \in Placed, s # t
               PROVE  place[s] + used[s] <= place[t] \/ place[t] + used[t] <= place[s]
    BY DEF TablesDisjoint
  <2> QED
    BY DEF OffsetsInv, PlacedSaved, SavedDisjoint
<1> QED
  BY <1>1, <1>2, <1>3, PartsInit, PartsStep, PTL DEF LBSpec
=============================================================================
