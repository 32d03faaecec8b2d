---------------------------- MODULE LoadBalancer ----------------------------
(***************************************************************************)
(* The targets of one stream in the load balancer                          *)
(* (pkg/loadbalancer/stream/loadbalancer.go, target.go): the list of the   *)
(* NSP is turned into policy routes (pkg/kernel/fwmark.go) and identifiers *)
(* that are active in nfqlb.  What cannot be configured is pending and     *)
(* retried by a goroutine of its own.                                      *)
(*                                                                         *)
(* Everything below runs under LoadBalancer.mu, so each call is one step;  *)
(* targets are independent of each other, and the order in which a map is  *)
(* walked does not matter.                                                 *)
(***************************************************************************)
EXTENDS Naturals, FiniteSets

CONSTANTS
  Identifiers,
  Addresses,        \* the set of IPs of a target; each in a subnet of its own
  None,             \* no address
  Failures          \* whether nfqlb and netlink commands may fail: a set of Booleans

VARIABLES
  failing,          \* commands may fail in this behaviour; never changes
  ctx,              \* LoadBalancer.ctx: "nil", "running" or "cancelled"
  deleted,          \* (history) Delete was called
  checker,          \* processPendingTargets: "off", "on" or "ended"
  lb,               \* targets, pendingTargets and what they set up
  shm,              \* the shared memory of the nfqlb instance exists
  links,            \* the addresses for which an NSM interface is up
  latest            \* (history) the last list that setTargets applied

vars == <<failing, ctx, deleted, checker, lb, shm, links, latest>>

Table == [Identifiers -> Addresses \cup {None}]
EmptyTable == [i \in Identifiers |-> None]
Ids(t) == {i \in Identifiers : t[i] # None}

TypeOK ==
  /\ ctx \in {"nil", "running", "cancelled"}
  /\ checker = "off" <=> ctx = "nil"
  /\ deleted \in BOOLEAN /\ shm \in BOOLEAN
  /\ checker \in {"off", "on", "ended"}
  /\ lb \in [targets : Table, pending : Table, route : Table,
             active : SUBSET Identifiers, registered : BOOLEAN]
  /\ links \in SUBSET Addresses
  /\ latest \in Table

(* New starts the nfqlb instance. *)
Init ==
  /\ failing \in Failures
  /\ ctx = "nil" /\ deleted = FALSE /\ checker = "off" /\ shm = TRUE
  /\ lb = [targets |-> EmptyTable, pending |-> EmptyTable, route |-> EmptyTable,
           active |-> {}, registered |-> FALSE]
  /\ links \in SUBSET Addresses
  /\ latest = EmptyTable
-----------------------------------------------------------------------------
(* The targets of a list for which Configure (a rule and a route to a      *)
(* known subnet) and then Activate succeed.                                *)
Addable(st, new) == {i \in Ids(new) : st.targets[i] = None /\ new[i] \in links /\ shm}

Outcomes(S) == IF failing THEN SUBSET S ELSE {S}

(* AddTarget for each target of new; those in ok succeed, the others are   *)
(* pending and what was configured for them is deleted.                    *)
Added(st, new, ok) ==
  LET tried == {i \in Ids(new) : st.targets[i] = None} IN
  [targets |-> [i \in Identifiers |-> IF i \in ok THEN new[i] ELSE st.targets[i]],
   pending |-> [i \in Identifiers |->
                  CASE i \in ok -> None
                    [] i \in tried \ ok /\ st.pending[i] = None -> new[i]
                    [] OTHER -> st.pending[i]],
   route |-> [i \in Identifiers |->
                CASE i \in ok -> new[i]
                  [] i \in tried \ ok -> None
                  [] OTHER -> st.route[i]],
   active |-> st.active \cup ok,
   registered |-> st.registered \/ ok # {}]

(* Mutant: only targets that are configured are removed. *)
RemovedTargetsOnly(st, S, stuck, update) ==
  LET gone == S \cap Ids(st.targets)
      without(t, R) == [i \in Identifiers |-> IF i \in R THEN None ELSE t[i]]
      left == without(st.targets, gone) IN
  [targets |-> left, pending |-> st.pending, route |-> without(st.route, gone),
   active |-> st.active \ (gone \ stuck),
   registered |-> st.registered /\ ~(update /\ gone # {} /\ Ids(left) = {})]

(* removeTarget for each identifier of S: a pending one is forgotten, a    *)
(* configured one is deactivated (unless nfqlb refuses) and its route      *)
(* deleted.                                                                *)
Removed(st, S, stuck, update) ==
  LET gone == S \cap Ids(st.targets)
      without(t, R) == [i \in Identifiers |-> IF i \in R THEN None ELSE t[i]]
      left == without(st.targets, gone) IN
  [targets |-> left, pending |-> without(st.pending, S), route |-> without(st.route, gone),
   active |-> st.active \ (gone \ stuck),
   registered |-> st.registered /\ ~(update /\ gone # {} /\ Ids(left) = {})]

(* The identifiers whose Deactivate fails. *)
Stuck(S) == IF failing THEN SUBSET S ELSE {{}}
-----------------------------------------------------------------------------
(* Start runs in a goroutine of addStream, before or after Delete. *)
StartLB ==
  /\ ctx = "nil" /\ checker = "off"
  /\ ctx' = "running" /\ checker' = "on"
  /\ UNCHANGED <<failing, deleted, lb, shm, links, latest>>

(* setTargets *)
SetTargets(list) ==
  LET known(i) == list[i] # None /\ list[i] \in {lb.pending[i], lb.targets[i]}
      stale == {i \in Ids(lb.pending) \cup Ids(lb.targets) : ~known(i)}
      new == [i \in Identifiers |-> IF known(i) THEN None ELSE list[i]] IN
  /\ ctx = "running"
  /\ \E stuck \in Stuck(stale) :
       LET kept == Removed(lb, stale, stuck, TRUE) IN
       \E ok \in Outcomes(Addable(kept, new)) : lb' = Added(kept, new, ok)
  /\ latest' = list
  /\ UNCHANGED <<failing, ctx, deleted, checker, shm, links>>

(* Mutant: a target that lost its route is removed for good. *)
VerifiedForgetting(st, lost, stuck) == Removed(st, lost, stuck, FALSE)

(* verifyTargets: the targets whose route the kernel dropped are pending.  *)
(* Forwarding availability is left to the caller.                          *)
Verified(st, lost, stuck) ==
  [Removed(st, lost, stuck, FALSE) EXCEPT
     !.pending = [i \in Identifiers |-> IF i \in lost THEN st.targets[i] ELSE st.pending[i]]]

(* The end of checkf: a stream that lost all its targets is unregistered.  *)
Checked(before, after, final) ==
  IF Ids(before.targets) # {} /\ Ids(after.targets) = {} /\ Ids(final.targets) = {}
  THEN [final EXCEPT !.registered = FALSE] ELSE final

(* checkf, every 10 seconds and after interface events.  The goroutine may *)
(* still run it after the context is cancelled: it may have waited for the *)
(* mutex, and a select takes any branch that is ready.                     *)
Check ==
  LET lost == {i \in Ids(lb.targets) : lb.route[i] # lb.targets[i]} IN
  /\ checker = "on"
  /\ \E stuck \in Stuck(lost) :
       LET after == Verified(lb, lost, stuck) IN
       \E ok \in Outcomes(Addable(after, after.pending)) :
         lb' = Checked(lb, after, Added(after, after.pending, ok))
  /\ UNCHANGED <<failing, ctx, deleted, checker, shm, links, latest>>

(* processPendingTargets returns. *)
CheckerEnds ==
  /\ checker = "on" /\ ctx = "cancelled"
  /\ checker' = "ended"
  /\ UNCHANGED <<failing, ctx, deleted, lb, shm, links, latest>>

(* Delete: the pending targets stay in the map. *)
Delete ==
  /\ ~deleted
  /\ deleted' = TRUE
  /\ ctx' = IF ctx = "running" THEN "cancelled" ELSE ctx
  /\ lb' = [Removed(lb, Ids(lb.targets), {}, TRUE) EXCEPT !.active = {}]
  /\ shm' = FALSE
  /\ UNCHANGED <<failing, checker, links, latest>>

(* addStream creates the shared memory of this name again. *)
Recreate ==
  /\ deleted /\ ~shm
  /\ shm' = TRUE
  /\ UNCHANGED <<failing, ctx, deleted, checker, lb, links, latest>>

InterfaceCreated(a) ==
  /\ a \notin links
  /\ links' = links \cup {a}
  /\ UNCHANGED <<failing, ctx, deleted, checker, lb, shm, latest>>

(* The kernel drops the routes through an interface that goes away. *)
InterfaceDeleted(a) ==
  /\ a \in links
  /\ links' = links \ {a}
  /\ lb' = [lb EXCEPT !.route = [i \in Identifiers |-> IF @[i] = a THEN None ELSE @[i]]]
  /\ UNCHANGED <<failing, ctx, deleted, checker, shm, latest>>

Next ==
  \/ StartLB \/ Check \/ CheckerEnds \/ Delete \/ Recreate
  \/ \E list \in Table : SetTargets(list)
  \/ \E a \in Addresses : InterfaceCreated(a) \/ InterfaceDeleted(a)

Spec == Init /\ [][Next]_vars

(* The timer of processPendingTargets fires every 10 seconds. *)
FairSpec == Spec /\ WF_vars(StartLB) /\ WF_vars(Check)
-----------------------------------------------------------------------------
(* While the stream runs, every target of the last list is configured or   *)
(* pending, with the addresses of that list, and nothing else is: no       *)
(* target is lost between the two maps and none outlives the list as a     *)
(* "shadow" target (loadbalancer.go:425).                                  *)
TargetsAccountedFor ==
  ctx = "running" =>
    /\ Ids(lb.targets) \cap Ids(lb.pending) = {}
    /\ \A i \in Identifiers :
         latest[i] = IF lb.targets[i] # None THEN lb.targets[i] ELSE lb.pending[i]

(* The stream is announced as a forwarding path exactly while it has a     *)
(* configured target, although removals, verification and retries report   *)
(* to the availability service at different places.                        *)
AvailabilityFollowsTargets == lb.registered <=> Ids(lb.targets) # {}

(* nfqlb hands packets only to identifiers that have a target, as long as  *)
(* it does what it is told.                                                *)
ActiveHaveTarget == ~failing => lb.active \subseteq Ids(lb.targets)

(* "the known Targets and thus the associated routing must be force        *)
(* removed" (cmd/stateless-lb/main.go:582): a deleted stream forwards      *)
(* nothing and has no routes, even when Start or a retry comes after       *)
(* Delete, as long as no other instance of its name is there (with one,    *)
(* the retries of the deleted stream reach that instance).                 *)
DeletedForwardsNothing ==
  deleted /\ ~shm => /\ Ids(lb.targets) = {} /\ ~lb.registered
             /\ \A i \in Identifiers : lb.route[i] = None

(* A target that stays in the list and whose interface stays up is         *)
(* forwarded to in the end, whatever was lost before.                      *)
PendingBecomesActive ==
  \A i \in Identifiers, a \in Addresses :
    <>[](~failing /\ ~deleted /\ latest[i] = a /\ a \in links)
      => <>[](lb.targets[i] = a /\ lb.route[i] = a /\ i \in lb.active)
=============================================================================
