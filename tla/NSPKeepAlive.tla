---------------------------- MODULE NSPKeepAlive ----------------------------
(***************************************************************************)
(* The NSP target registry in detail: the keepalive middleware with one    *)
(* timer goroutine per registration (pkg/nsp/registry/keepalive), the      *)
(* SQLite table with its watchers (pkg/nsp/registry/sqlite, common) and    *)
(* the gRPC Watch streams (pkg/nsp/server.go).                             *)
(*                                                                         *)
(* Set, Remove and the end of a timer run under KeepAlive.mu; a watcher    *)
(* channel is read without it.  A timer whose registration was refreshed   *)
(* may still run out: it and the refresh race for the mutex.               *)
(***************************************************************************)
EXTENDS Naturals, Sequences, FiniteSets, Functions

CONSTANTS
  Targets, MaxTargets, ConflictsOf, StorageFailures,   \* as in TargetRegistry
  MaxFailures,      \* how many calls may fail
  Contexts,         \* the contexts of timer goroutines; bounds how many run at once
  NoContext,
  EntryTimeout,     \* ticks without a refresh after which a target is removed
  Watchers,         \* Watch streams
  Selector          \* Selector[w]: the keys and statuses that w asks for

ASSUME EntryTimeoutAssumption == EntryTimeout \in Nat \ {0}
ASSUME MaxFailuresAssumption == MaxFailures \in Nat
ASSUME NoContextAssumption == NoContext \notin Contexts

VARIABLES
  rows,             \* the table
  targets,          \* KeepAlive.targets: the context of each monitored key, or NoContext
  timers,           \* the timeout goroutines
  sinceSet,         \* (history) ticks since the last successful Set or restart, at most EntryTimeout
  watching,         \* the streams that are registered as watchers
  chan,             \* RegistryWatcher.c: the one-slot channel of each watcher
  sent,             \* (history) the last list sent on each stream
  failed,           \* (history) the keys whose last Set or removal failed
  unsent,           \* (history) the table changed and the watchers were not told
  failures          \* calls that failed so far

vars == <<rows, targets, timers, sinceSet, watching, chan, sent, failed, unsent, failures>>
monitoredKeys == {k \in Targets : targets[k] # NoContext}
Registry == INSTANCE TargetRegistry WITH monitored <- monitoredKeys

Timer == [target : Targets, ctx : Contexts, elapsed : 0..EntryTimeout, cancelled : BOOLEAN]

(* What a slot of one list holds. *)
Lists == {<<>>} \cup {<<table>> : table \in [Targets -> Registry!Row]}

TypeOK ==
  /\ rows \in [Targets -> Registry!Row]
  /\ targets \in [Targets -> Contexts \cup {NoContext}]
  /\ timers \in SUBSET Timer
  /\ sinceSet \in [Targets -> 0..EntryTimeout]
  /\ watching \in SUBSET Watchers
  /\ chan \in [Watchers -> Lists] /\ sent \in [Watchers -> Lists]
  /\ failed \in SUBSET Targets /\ unsent \in BOOLEAN /\ failures \in 0..MaxFailures

Init ==
  /\ rows = [k \in Targets |-> Registry!NoRow]
  /\ targets = [k \in Targets |-> NoContext]
  /\ timers = {}
  /\ sinceSet = [k \in Targets |-> 0]
  /\ watching = {}
  /\ chan = [w \in Watchers |-> <<>>]
  /\ sent = [w \in Watchers |-> <<>>]
  /\ failed = {} /\ unsent = FALSE /\ failures = 0
-----------------------------------------------------------------------------
(* common.Filter: the part of a table that a watcher selected. *)
Filter(w, table) ==
  [k \in Targets |->
     IF k \in Selector[w].keys /\ table[k].status \in Selector[w].statuses
     THEN table[k] ELSE Registry!NoRow]

(* Mutant: a list that was not read yet stays. *)
NotifyIfEmpty(w, table) == IF chan[w] = <<>> THEN <<Filter(w, table)>> ELSE chan[w]

(* RegistryWatcher.Notify: a list that was not read yet is replaced. *)
Notify(w, table) == <<Filter(w, table)>>

(* notifyAllWatchers. *)
Notified(table) ==
  [w \in Watchers |-> IF w \in watching THEN Notify(w, table) ELSE chan[w]]

FreeContexts == Contexts \ ({tm.ctx : tm \in timers} \cup Range(targets))

NewTimer(k, c) == [target |-> k, ctx |-> c, elapsed |-> 0, cancelled |-> FALSE]

(* KeepAlive.add: cancel the goroutine of the registration that is         *)
(* replaced, and start one for the new context.                            *)
Superseded(k) ==
  {IF tm.ctx = targets[k] THEN [tm EXCEPT !.cancelled = TRUE] ELSE tm : tm \in timers}

(* Mutant: a refresh starts no goroutine of its own. *)
AddOnce(k, c) ==
  /\ targets' = [targets EXCEPT ![k] = c]
  /\ timers' = Superseded(k) \cup (IF targets[k] = NoContext THEN {NewTimer(k, c)} ELSE {})

Add(k, c) ==
  /\ targets' = [targets EXCEPT ![k] = c]
  /\ timers' = Superseded(k) \cup {NewTimer(k, c)}

(* A statement of the database fails. *)
Fails ==
  /\ StorageFailures
  /\ failures < MaxFailures /\ failures' = failures + 1

(* Register. *)
Set(k, id, st) ==
  /\ rows' = Registry!Saved(k, id, st, ConflictsOf[k])
  /\ chan' = Notified(rows')
  /\ \E c \in FreeContexts : Add(k, c)
  /\ sinceSet' = [sinceSet EXCEPT ![k] = 0]
  /\ failed' = failed \ {k} /\ unsent' = FALSE
  /\ UNCHANGED <<watching, sent, failures>>

(* Register fails before it writes, while it clears conflicts, or while it *)
(* reads the table back for the watchers.                                  *)
SetFails(k, id, st) ==
  /\ Fails
  /\ \/ rows' = rows /\ chan' = chan /\ UNCHANGED unsent
     \/ \E C \in SUBSET ConflictsOf[k] :
          /\ rows' = Registry!Saved(k, id, st, C)
          /\ \/ chan' = chan /\ unsent' = TRUE
             \/ C # {} /\ chan' = Notified(rows') /\ unsent' = FALSE
  /\ failed' = failed \cup {k}
  /\ UNCHANGED <<targets, timers, sinceSet, watching, sent>>

(* KeepAlive.remove: the entry goes first; its context is not cancelled,   *)
(* so the goroutine lives on until its time is over.                       *)
RemoveEntry(k) ==
  /\ targets' = [targets EXCEPT ![k] = NoContext]
  /\ \/ rows' = Registry!Removed(k) /\ chan' = Notified(rows')
        /\ failed' = failed \ {k} /\ unsent' = FALSE /\ UNCHANGED failures
     \/ Fails /\ rows' \in {rows, Registry!Removed(k)} /\ chan' = chan
        /\ failed' = failed \cup {k} /\ unsent' = (unsent \/ rows' # rows)

(* Unregister. *)
Remove(k) ==
  /\ RemoveEntry(k)
  /\ UNCHANGED <<timers, sinceSet, watching, sent>>

(* Mutant: the contexts are not compared. *)
TimeoutAnyContext(tm) ==
  /\ tm.elapsed = EntryTimeout
  /\ timers' = timers \ {tm}
  /\ IF targets[tm.target] # NoContext
     THEN RemoveEntry(tm.target)
     ELSE UNCHANGED <<rows, targets, chan, failed, unsent, failures>>
  /\ UNCHANGED <<sinceSet, watching, sent>>

(* timeout: the time is over and the mutex is taken; only the goroutine of *)
(* the registration in force removes the target.                           *)
Timeout(tm) ==
  /\ tm.elapsed = EntryTimeout
  /\ timers' = timers \ {tm}
  /\ IF targets[tm.target] = tm.ctx
     THEN RemoveEntry(tm.target)
     ELSE UNCHANGED <<rows, targets, chan, failed, unsent, failures>>
  /\ UNCHANGED <<sinceSet, watching, sent>>

(* timeout: the context was cancelled by a refresh. *)
TimerCancelled(tm) ==
  /\ tm.cancelled
  /\ timers' = timers \ {tm}
  /\ UNCHANGED <<rows, targets, sinceSet, watching, chan, sent, failed, unsent, failures>>

Older(n) == IF n < EntryTimeout THEN n + 1 ELSE n

Tick ==
  /\ \E tm \in timers : tm.elapsed < EntryTimeout
  /\ timers' = {[tm EXCEPT !.elapsed = Older(@)] : tm \in timers}
  /\ sinceSet' = [k \in Targets |-> Older(sinceSet[k])]
  /\ UNCHANGED <<rows, targets, watching, chan, sent, failed, unsent, failures>>

(* Mutant: nothing is restored. *)
RestartEmpty ==
  /\ targets' = [k \in Targets |-> NoContext]
  /\ timers' = {}
  /\ sinceSet' = [k \in Targets |-> 0]
  /\ watching' = {}
  /\ chan' = [w \in Watchers |-> <<>>]
  /\ sent' = [w \in Watchers |-> <<>>]
  /\ failed' = {} /\ unsent' = FALSE
  /\ UNCHANGED <<rows, failures>>

(* The NSP restarts: the table is on disk, the rest is rebuilt (restore);  *)
(* the Watch streams break.                                                *)
Restart ==
  /\ \E f \in [Registry!PresentTargets -> Contexts] :
       /\ IsInjective(f)
       /\ targets' = [k \in Targets |-> IF k \in DOMAIN f THEN f[k] ELSE NoContext]
       /\ timers' = {NewTimer(k, f[k]) : k \in DOMAIN f}
  /\ sinceSet' = [k \in Targets |-> 0]
  /\ watching' = {}
  /\ chan' = [w \in Watchers |-> <<>>]
  /\ sent' = [w \in Watchers |-> <<>>]
  /\ failed' = {} /\ unsent' = FALSE
  /\ UNCHANGED <<rows, failures>>

-----------------------------------------------------------------------------
(* Server.Watch: register a watcher, which is given the table at once. *)
Watch(w) ==
  /\ w \notin watching
  /\ watching' = watching \cup {w}
  /\ chan' = [chan EXCEPT ![w] = Notify(w, rows)]
  /\ UNCHANGED <<rows, targets, timers, sinceSet, sent, failed, unsent, failures>>

(* Server.watcher: send what is in the channel. *)
Send(w) ==
  /\ w \in watching /\ chan[w] # <<>>
  /\ sent' = [sent EXCEPT ![w] = chan[w]]
  /\ chan' = [chan EXCEPT ![w] = <<>>]
  /\ UNCHANGED <<rows, targets, timers, sinceSet, watching, failed, unsent, failures>>

(* The client is gone: stop the watcher. *)
StopWatch(w) ==
  /\ w \in watching
  /\ watching' = watching \ {w}
  /\ chan' = [chan EXCEPT ![w] = <<>>]
  /\ sent' = [sent EXCEPT ![w] = <<>>]
  /\ UNCHANGED <<rows, targets, timers, sinceSet, failed, unsent, failures>>

Next ==
  \/ \E k \in Targets, id \in Registry!Identifiers, st \in Registry!Statuses :
       Set(k, id, st) \/ SetFails(k, id, st)
  \/ \E k \in Targets : Remove(k)
  \/ \E tm \in timers : Timeout(tm) \/ TimerCancelled(tm)
  \/ Tick
  \/ Restart
  \/ \E w \in Watchers : Watch(w) \/ Send(w) \/ StopWatch(w)

Spec == Init /\ [][Next]_vars

(* Time passes, a goroutine that waits for the mutex gets it, and a stream *)
(* whose client is there is served.                                        *)
TimerEnds(tm) == tm \in timers /\ Timeout(tm)
Fairness ==
  /\ WF_vars(Tick)
  /\ \A tm \in Timer : WF_vars(TimerEnds(tm))

FairSpec == Spec /\ Fairness
-----------------------------------------------------------------------------
(* The middleware with its timers implements the registry the clients are  *)
(* promised, storage failures and conflicting streams included.            *)
ImplementsRegistry == Registry!RegistrySpec

(* A timer removes a target only if no refresh of it succeeded during the  *)
(* whole entry timeout, although the timer of an older registration may    *)
(* run out while the refresh holds the mutex.                              *)
NeverExpiresEarly ==
  [][\A k \in Targets :
       /\ Registry!Present(k) /\ ~Registry!Present(k)'
       /\ timers' \subseteq timers /\ timers' # timers
       => sinceSet[k] = EntryTimeout]_vars

(* Every row has a goroutine that will remove it and that nobody           *)
(* cancelled, unless the last call for it failed half-way: then its entry  *)
(* was never added, or is gone, while the row stays.                       *)
EveryRowHasTimer ==
  \A k \in Registry!PresentTargets \ failed :
    \E tm \in timers : tm.target = k /\ tm.ctx = targets[k] /\ ~tm.cancelled

(* A watcher that reads its channel to the end knows the current table:    *)
(* replacing unread lists never loses the last one.  Only a call that      *)
(* fails after it wrote leaves the watchers behind, until the next one.    *)
WatchersCurrent ==
  ~unsent =>
    \A w \in watching :
      IF chan[w] = <<>> THEN sent[w] = <<Filter(w, rows)>> ELSE chan[w] = <<Filter(w, rows)>>

(* "the target registry removes the targets which are not refreshing":     *)
(* from some time on, a target that is not set again is gone, unless the   *)
(* removal or the last refresh failed.                                     *)
UnrefreshedRemoved ==
  \A k \in Targets : []<>(~Registry!Present(k) \/ sinceSet[k] = 0 \/ k \in failed)
=============================================================================
