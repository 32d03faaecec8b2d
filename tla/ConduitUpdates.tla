--------------------------- MODULE ConduitUpdates ---------------------------
(***************************************************************************)
(* Update sync groups: the conduits of one group have their proxy daemon   *)
(* sets updated one at a time, under a lock the operator keeps in memory.  *)
(* The conduit controller's only worker takes and releases the lock; the   *)
(* informer's delete handler releases the lock of a deleted conduit, in    *)
(* its own goroutine.  A sync.Map access is one step; between two of them, *)
(* and between the reads, calls and checks of a reconcile, the others run. *)
(* Conduits here have a trench and their owner reference.                  *)
(***************************************************************************)
EXTENDS Naturals, Sequences, FiniteSets, Functions

CONSTANTS
  Conduits,
  Groups,
  Starts      \* the instances: [groups, edits, regroups, deletes, restarts, fails]

None == "none"
NoGroup == ""    \* no annotation

VARIABLES
  conduit,    \* API server: conduit[c] = [live, group, want]
  conduitSeen,\* the informer's copy
  ds,         \* API server: ds[c] = [phase, spec]; phase "absent", "pushed"
              \* (a generation not yet observed), "rolling" or "ready"
  dsSeen,     \* the informer's copy
  dsLag,      \* daemon sets that changed since the informer's copy
  groups,     \* updateSyncGroups: the group stored for a conduit, or None
  locks,      \* updateLocks: the owner of the group's lock, or None
  queue,
  job,        \* the reconcile in progress
  cleanup,    \* the delete handler in progress
  left,       \* what users and faults may still do
  under,      \* under[c]: the group whose lock covered c's running update
  unprotected,\* conduits that lost that lock before the update was complete
  late        \* conduits reconciled on after their deletion was handled

vars == <<conduit, conduitSeen, ds, dsSeen, dsLag, groups, locks, queue, job, cleanup,
          left, under, unprotected, late>>

NoJob == [at |-> "idle", c |-> None, group |-> None, want |-> 0, act |-> None,
          stale |-> FALSE, has |-> FALSE, ok |-> FALSE, failed |-> FALSE]
NoCleanup == [at |-> "idle", c |-> None, group |-> None, owner |-> None]

(* The informer lists what is there in any order. *)
Listings(S) ==
  {q \in UNION {[1..n -> S] : n \in 0..Cardinality(Conduits)} : IsInjective(q) /\ Range(q) = S}

(* An upgraded operator starts: every daemon set needs an update. *)
Init ==
  /\ left \in Starts
  /\ conduit = [c \in Conduits |-> [live |-> left.groups[c] # None,
                                    group |-> left.groups[c], want |-> 1]]
  /\ conduitSeen = conduit
  /\ ds = [c \in Conduits |-> [phase |-> IF conduit[c].live THEN "ready" ELSE "absent", spec |-> 0]]
  /\ dsSeen = ds
  /\ dsLag = {}
  /\ groups = [c \in Conduits |-> None]
  /\ locks = [g \in Groups |-> None]
  /\ queue \in Listings({c \in Conduits : conduit[c].live})
  /\ job = NoJob
  /\ cleanup = NoCleanup
  /\ under = [c \in Conduits |-> None]
  /\ unprotected = {}
  /\ late = {}

Enqueue(q, c) == IF c \in Range(q) THEN q ELSE Append(q, c)

Spend(what) ==
  /\ left[what] > 0
  /\ left' = [left EXCEPT ![what] = @ - 1]

-----------------------------------------------------------------------------
(* Users and Kubernetes. *)

UserUnchanged ==
  UNCHANGED <<conduitSeen, ds, dsSeen, dsLag, groups, locks, queue, job, cleanup, under,
              unprotected, late>>

(* What the daemon set is made from changes: a new image, another MTU. *)
Edit(c) ==
  /\ Spend("edits") /\ conduit[c].live
  /\ conduit' = [conduit EXCEPT ![c].want = 1 - @]
  /\ UserUnchanged

(* The update sync group annotation changes. *)
Regroup(c, g) ==
  /\ Spend("regroups") /\ conduit[c].live /\ conduit[c].group # g
  /\ conduit' = [conduit EXCEPT ![c].group = g]
  /\ UserUnchanged

DeleteConduit(c) ==
  /\ Spend("deletes") /\ conduit[c].live
  /\ conduit' = [conduit EXCEPT ![c] = [live |-> FALSE, group |-> None, want |-> 0]]
  /\ UserUnchanged

DaemonSetChanges(c, version) ==
  /\ ds' = [ds EXCEPT ![c] = version]
  /\ dsLag' = dsLag \cup {c}
  /\ job' = IF job.c = c THEN [job EXCEPT !.stale = TRUE] ELSE job
  /\ UNCHANGED <<conduit, conduitSeen, dsSeen, groups, locks, queue, cleanup, left, late>>

(* The daemon set controller observes the new generation, and in the end   *)
(* all pods are updated and ready.                                         *)
Observe(c) ==
  /\ ds[c].phase = "pushed"
  /\ DaemonSetChanges(c, [ds[c] EXCEPT !.phase = "rolling"])
  /\ UNCHANGED <<under, unprotected>>

RolloutDone(c) ==
  /\ ds[c].phase = "rolling"
  /\ DaemonSetChanges(c, [ds[c] EXCEPT !.phase = "ready"])
  /\ under' = [under EXCEPT ![c] = None]
  /\ unprotected' = unprotected \ {c}

CollectGarbage(c) ==
  /\ ds[c].phase # "absent" /\ ~conduit[c].live
  /\ DaemonSetChanges(c, [phase |-> "absent", spec |-> 0])
  /\ under' = [under EXCEPT ![c] = None]
  /\ unprotected' = unprotected \ {c}

-----------------------------------------------------------------------------
(* The informers. *)

DaemonSetEvent(c) ==
  /\ c \in dsLag
  /\ dsSeen' = [dsSeen EXCEPT ![c] = ds[c]]
  /\ dsLag' = dsLag \ {c}
  /\ queue' = Enqueue(queue, c)
  /\ UNCHANGED <<conduit, conduitSeen, ds, groups, locks, job, cleanup, left, under,
                 unprotected, late>>

(* A conduit event: the delete handler goes on with cleanupLock.  The      *)
(* handlers of one informer run one after the other.                       *)
ConduitEvent(c) ==
  /\ conduitSeen[c] # conduit[c] /\ cleanup = NoCleanup
  /\ conduitSeen' = [conduitSeen EXCEPT ![c] = conduit[c]]
  /\ IF conduit[c].live
     THEN /\ queue' = Enqueue(queue, c)
          /\ UNCHANGED <<groups, cleanup, late>>
     ELSE /\ cleanup' = [at |-> "load", c |-> c, group |-> groups[c], owner |-> None]
          /\ groups' = [groups EXCEPT ![c] = None]
          /\ late' = IF job.c = c THEN late \cup {c} ELSE late
          /\ UNCHANGED queue
  /\ UNCHANGED <<conduit, ds, dsSeen, dsLag, locks, job, left, under, unprotected>>

(* releaseLock, first half: the group's lock is loaded. *)
LoadLock ==
  /\ cleanup.at = "load"
  /\ cleanup' = [cleanup EXCEPT !.at = "release",
                 !.owner = IF cleanup.group = None THEN None ELSE locks[cleanup.group]]
  /\ UNCHANGED <<conduit, conduitSeen, ds, dsSeen, dsLag, groups, locks, queue, job, left,
                 under, unprotected, late>>

Rolling(c) == ds[c].phase \in {"pushed", "rolling"}
Exposed(cs) == {c \in cs : Rolling(c) /\ under[c] # None}

(* releaseLock, second half: the group's entry is deleted if the lock that *)
(* was loaded belongs to the caller.                                       *)
Release(g, owner, caller) ==
  IF g # None /\ owner = caller
  THEN locks' = [locks EXCEPT ![g] = None]
  ELSE UNCHANGED locks

CleanupLock ==
  /\ cleanup.at = "release"
  /\ Release(cleanup.group, cleanup.owner, cleanup.c)
  /\ unprotected' = IF locks' = locks THEN unprotected
                    ELSE unprotected \cup {cleanup.c, locks[cleanup.group]}
  /\ queue' = Enqueue(queue, cleanup.c)
  /\ cleanup' = NoCleanup
  /\ UNCHANGED <<conduit, conduitSeen, ds, dsSeen, dsLag, groups, job, left, under, late>>

-----------------------------------------------------------------------------
(* Reconcile, step by step. *)

JobUnchanged == UNCHANGED <<conduit, conduitSeen, dsSeen, cleanup, late>>

Get ==
  /\ job.at = "idle" /\ queue # << >>
  /\ LET c == Head(queue)
     IN  job' = IF ~conduitSeen[c].live THEN NoJob
                ELSE [NoJob EXCEPT !.at = "manage", !.c = c, !.group = conduitSeen[c].group,
                                   !.want = conduitSeen[c].want]
  /\ queue' = Tail(queue)
  /\ UNCHANGED <<ds, dsLag, groups, locks, left, under, unprotected>>
  /\ JobUnchanged

(* manageUpdateSyncGroupChange: the lock of the former group is released. *)
ManageUpdateSyncGroupChange ==
  /\ job.at = "manage"
  /\ LET former == groups[job.c]
         now == IF job.group = NoGroup THEN None ELSE job.group
     IN  IF former = now THEN UNCHANGED <<groups, locks, unprotected>>
         ELSE /\ groups' = [groups EXCEPT ![job.c] = now]
              /\ Release(former, IF former = None THEN None ELSE locks[former], job.c)
              /\ unprotected' = IF locks' = locks THEN unprotected
                                ELSE unprotected \cup Exposed({job.c})
  /\ job' = [job EXCEPT !.at = "action"]
  /\ UNCHANGED <<ds, dsLag, queue, left, under>>
  /\ JobUnchanged

(* getAction, from the cache; only the update of a daemon set that is      *)
(* there needs the lock.                                                   *)
ProxyGetAction ==
  /\ job.at = "action"
  /\ LET act == CASE dsSeen[job.c].phase = "absent"   -> "create"
                  [] dsSeen[job.c].phase # "absent"
                       /\ dsSeen[job.c].spec # job.want -> "update"
                  [] OTHER                            -> None
     IN  job' = [job EXCEPT !.act = act, !.stale = job.c \in dsLag,
                            !.at = IF job.group = NoGroup THEN "run"
                                   ELSE IF act = "update" THEN "acquire" ELSE "has"]
  /\ UNCHANGED <<ds, dsLag, groups, locks, queue, left, under, unprotected>>
  /\ JobUnchanged

(* Mutant: a conduit that cannot have the lock is not queued again. *)
AcquireLockGivesUp ==
  /\ job.at = "acquire"
  /\ IF locks[job.group] \in {None, job.c}
     THEN /\ locks' = [locks EXCEPT ![job.group] = job.c]
          /\ job' = [job EXCEPT !.at = "has"]
     ELSE job' = NoJob /\ UNCHANGED locks
  /\ UNCHANGED <<ds, dsLag, groups, queue, left, under, unprotected>>
  /\ JobUnchanged

(* acquireLock; a conduit that cannot have the lock is tried again later. *)
AcquireLock ==
  /\ job.at = "acquire"
  /\ IF locks[job.group] \in {None, job.c}
     THEN /\ locks' = [locks EXCEPT ![job.group] = job.c]
          /\ job' = [job EXCEPT !.at = "has"]
          /\ UNCHANGED queue
     ELSE /\ job' = NoJob
          /\ queue' = Enqueue(queue, job.c)
          /\ UNCHANGED locks
  /\ UNCHANGED <<ds, dsLag, groups, left, under, unprotected>>
  /\ JobUnchanged

HasLock ==
  /\ job.at = "has"
  /\ job' = [job EXCEPT !.at = "run", !.has = locks[job.group] = job.c]
  /\ UNCHANGED <<ds, dsLag, groups, locks, queue, left, under, unprotected>>
  /\ JobUnchanged

Push(phase) ==
  /\ ds' = [ds EXCEPT ![job.c] = [phase |-> phase, spec |-> job.want]]
  /\ dsLag' = dsLag \cup {job.c}

(* RunActions: a create that finds the daemon set and an update of an old  *)
(* version count as done.  An error does not keep the deferred check from  *)
(* running.                                                                *)
RunActions ==
  /\ job.at = "run"
  /\ \/ /\ job.act = "create" /\ ds[job.c].phase = "absent"
        /\ Push("pushed")
        /\ under' = [under EXCEPT ![job.c] = None]
        /\ UNCHANGED left
        /\ job' = [job EXCEPT !.at = "ready"]
     \/ /\ job.act = "update" /\ ~job.stale
        /\ Push("pushed")
        /\ under' = [under EXCEPT ![job.c] = IF job.group = NoGroup THEN None ELSE job.group]
        /\ UNCHANGED left
        /\ job' = [job EXCEPT !.at = "ready"]
     \/ /\ \/ job.act = None
           \/ job.act = "create" /\ ds[job.c].phase # "absent"
           \/ job.act = "update" /\ job.stale /\ ds[job.c].phase # "absent"
        /\ UNCHANGED <<ds, dsLag, left, under>>
        /\ job' = [job EXCEPT !.at = "ready"]
     \/ /\ job.act # None
        /\ IF job.act = "update" /\ ds[job.c].phase = "absent" THEN UNCHANGED left
           ELSE Spend("fails")
        /\ UNCHANGED <<ds, dsLag, under>>
        /\ job' = [job EXCEPT !.at = "ready", !.failed = TRUE]
  /\ UNCHANGED <<groups, locks, queue, unprotected>>
  /\ JobUnchanged

(* Mutant: the daemon set is read from the cache. *)
IsReadyCached ==
  /\ job.at = "ready"
  /\ job' = [job EXCEPT !.at = "release", !.ok = job.has /\ dsSeen[job.c].phase = "ready"]
  /\ UNCHANGED <<ds, dsLag, groups, locks, queue, left, under, unprotected>>
  /\ JobUnchanged

(* The deferred isProxyUpdateReady, from the API server. *)
IsReady ==
  /\ job.at = "ready"
  /\ job' = [job EXCEPT !.at = "release", !.ok = job.has /\ ds[job.c].phase = "ready"]
  /\ UNCHANGED <<ds, dsLag, groups, locks, queue, left, under, unprotected>>
  /\ JobUnchanged

ReleaseLock ==
  /\ job.at = "release"
  /\ IF job.ok THEN Release(job.group, locks[job.group], job.c) ELSE UNCHANGED locks
  /\ queue' = IF job.failed THEN Enqueue(queue, job.c) ELSE queue
  /\ job' = NoJob
  /\ UNCHANGED <<ds, dsLag, groups, left, under, unprotected>>
  /\ JobUnchanged

(* The operator crashes and starts again: the locks are gone. *)
Restart ==
  /\ Spend("restarts")
  /\ conduitSeen' = conduit
  /\ dsSeen' = ds
  /\ dsLag' = {}
  /\ groups' = [c \in Conduits |-> None]
  /\ locks' = [g \in Groups |-> None]
  /\ queue' \in Listings({c \in Conduits : conduit[c].live})
  /\ job' = NoJob
  /\ cleanup' = NoCleanup
  /\ unprotected' = unprotected \cup Exposed(Conduits)
  /\ UNCHANGED <<conduit, ds, under, late>>

-----------------------------------------------------------------------------
Worker ==
  \/ Get
  \/ ManageUpdateSyncGroupChange
  \/ ProxyGetAction
  \/ AcquireLock
  \/ HasLock
  \/ RunActions
  \/ IsReady
  \/ ReleaseLock

Kubernetes(c) == Observe(c) \/ RolloutDone(c) \/ CollectGarbage(c)

Next ==
  \/ \E c \in Conduits :
       \/ Edit(c)
       \/ DeleteConduit(c)
       \/ \E g \in Groups \cup {NoGroup} : Regroup(c, g)
       \/ Kubernetes(c)
       \/ DaemonSetEvent(c)
       \/ ConduitEvent(c)
  \/ LoadLock
  \/ CleanupLock
  \/ Worker
  \/ Restart

(* Rollouts complete, events arrive, the worker and the handler go on. *)
Fairness ==
  /\ WF_vars(Worker)
  /\ WF_vars(LoadLock \/ CleanupLock)
  /\ \A c \in Conduits : /\ WF_vars(Kubernetes(c))
                          /\ WF_vars(DaemonSetEvent(c))
                          /\ WF_vars(ConduitEvent(c))

Spec == Init /\ [][Next]_vars /\ Fairness

-----------------------------------------------------------------------------
(* The type invariant: a lock belongs to a conduit and to a group. *)
UpdatesTypeOK ==
  /\ \A g \in Groups : locks[g] \in Conduits \cup {None}
  /\ \A c \in Conduits : groups[c] \in Groups \cup {None}
  /\ IsInjective(queue)
  /\ dsLag \subseteq Conduits

(* What the groups are for: no two daemon sets of one group are being      *)
(* updated at the same time, unless one of the updates lost its lock under *)
(* way: its conduit changed group or was deleted, the operator restarted,  *)
(* or the handler of another conduit's deletion, which had loaded the lock *)
(* that the group had before, deleted the group's entry.                   *)
UpdatesSerialized ==
  \A c1, c2 \in Conduits :
    c1 # c2 /\ Rolling(c1) /\ Rolling(c2) /\ under[c1] # None /\ under[c1] = under[c2]
      => {c1, c2} \cap unprotected # {}

(* A lock covers a conduit that is there, or one whose deletion has not    *)
(* been handled yet, or one that was being reconciled when it was.         *)
LocksHaveOwners ==
  \A g \in Groups : locks[g] # None =>
    \/ conduitSeen[locks[g]].live
    \/ cleanup.c = locks[g]
    \/ locks[g] \in late

(* Every conduit is updated in the end, unless a deleted conduit holds the *)
(* lock of its group for ever: cleanupLock ran while a reconcile that had  *)
(* read the conduit before was on its way to take the lock.                *)
UpdatesComplete ==
  <>[](\A c \in Conduits : conduit[c].live =>
         \/ ds[c] = [phase |-> "ready", spec |-> conduit[c].want]
         \/ /\ conduit[c].group \in Groups
            /\ locks[conduit[c].group] \in late)
=============================================================================
