------------------------- MODULE NSPKeepAliveProofs -------------------------
(***************************************************************************)
(* TLAPS proofs about NSPKeepAlive, for every set of targets, contexts and *)
(* watchers, every entry timeout and every pattern of storage failures.    *)
(***************************************************************************)
EXTENDS NSPKeepAlive, TLAPS

(* The goroutine tm belongs to the registration in force. *)
InForce(tm) == targets[tm.target] = tm.ctx

(* A context is used once: by one goroutine, and in one entry. *)
ContextsUnique ==
  /\ \A t1, t2 \in timers : t1.ctx = t2.ctx => t1 = t2
  /\ \A tm \in timers, k \in Targets : targets[k] = tm.ctx => tm.target = k
  /\ \A j, k \in Targets : targets[j] # NoContext /\ targets[j] = targets[k] => j = k

(* Every entry has its goroutine, and it counts from the last refresh. *)
EntriesTimed ==
  /\ \A k \in Targets : targets[k] # NoContext => \E tm \in timers : tm.ctx = targets[k]
  /\ \A tm \in timers : InForce(tm) => ~tm.cancelled /\ tm.elapsed = sinceSet[tm.target]

(* Every row has an entry, unless the last call for it failed. *)
RowsMonitored ==
  \A k \in Targets : Registry!Present(k) /\ k \notin failed => targets[k] # NoContext

IndInv == TypeOK /\ ContextsUnique /\ EntriesTimed /\ RowsMonitored /\ WatchersCurrent
-----------------------------------------------------------------------------
(* Rows, lists and contexts have their types whatever is written. *)
LEMMA SavedType ==
  ASSUME TypeOK, NEW k \in Targets, NEW id \in Registry!Identifiers,
         NEW st \in Registry!Statuses, NEW C
  PROVE  Registry!Saved(k, id, st, C) \in [Targets -> Registry!Row]
  BY DEF TypeOK, Registry!Saved, Registry!StoredStatus, Registry!Row, Registry!Identifiers,
         Registry!Statuses, Registry!NoRow

LEMMA RemovedType ==
  ASSUME TypeOK, NEW k \in Targets
  PROVE  /\ Registry!Removed(k) \in [Targets -> Registry!Row]
         /\ \A j \in Targets \ {k} : Registry!Removed(k)[j] = rows[j]
         /\ Registry!Removed(k)[k] = Registry!NoRow
  BY DEF TypeOK, Registry!Removed, Registry!Row, Registry!NoRow

LEMMA NotifiedType ==
  ASSUME TypeOK, NEW table \in [Targets -> Registry!Row]
  PROVE  /\ Notified(table) \in [Watchers -> Lists]
         /\ \A w \in watching : Notified(table)[w] = <<Filter(w, table)>>
         /\ \A w \in Watchers : <<Filter(w, table)>> \in Lists /\ <<Filter(w, table)>> # <<>>
<1>1. \A w \in Watchers : Filter(w, table) \in [Targets -> Registry!Row]
  BY DEF Filter, Registry!Row, Registry!NoRow
<1>2. \A w \in Watchers : <<Filter(w, table)>> \in Lists /\ <<Filter(w, table)>> # <<>>
  BY <1>1 DEF Lists
<1> QED
  BY <1>2 DEF Notified, Notify, TypeOK
-----------------------------------------------------------------------------
(* Register: a fresh context replaces the one in force. *)
LEMMA SetStep ==
  ASSUME IndInv, NEW k \in Targets, NEW id \in Registry!Identifiers,
         NEW st \in Registry!Statuses, Set(k, id, st)
  PROVE  IndInv'
<1> USE NoContextAssumption, EntryTimeoutAssumption
<1>0. PICK c \in FreeContexts : Add(k, c)
  BY DEF Set
<1>c. /\ c \in Contexts /\ c # NoContext
      /\ \A tm \in timers : tm.ctx # c
      /\ \A j \in Targets : targets[j] # c
  BY DEF FreeContexts, Range, IndInv, TypeOK
<1>r. rows' \in [Targets -> Registry!Row]
  BY SavedType DEF Set, IndInv
<1>n. NewTimer(k, c) \in Timer
  BY <1>c DEF NewTimer, Timer
<1>s. Superseded(k) \subseteq Timer
  <2>1. \A tm \in Timer : [tm EXCEPT !.cancelled = TRUE] \in Timer
    BY Zenon DEF Timer
  <2>2. timers \subseteq Timer
    BY DEF IndInv, TypeOK
  <2> QED BY <2>1, <2>2, Zenon DEF Superseded
<1>t. /\ targets' \in [Targets -> Contexts \cup {NoContext}]
      /\ targets'[k] = c
      /\ \A j \in Targets \ {k} : targets'[j] = targets[j]
  BY <1>0, <1>c DEF Add, IndInv, TypeOK
<1>1. TypeOK'
  <2>1. timers' \in SUBSET Timer
    BY <1>0, <1>n, <1>s DEF Add
  <2>2. chan' \in [Watchers -> Lists]
    BY <1>r, NotifiedType DEF Set, IndInv
  <2>3. sinceSet' \in [Targets -> 0..EntryTimeout]
    BY DEF Set, IndInv, TypeOK
  <2> QED
    BY <1>r, <1>t, <2>1, <2>2, <2>3, Zenon DEF Set, IndInv, TypeOK, Lists, Timer
<1>m. /\ NewTimer(k, c) \in timers'
      /\ NewTimer(k, c).ctx = c /\ NewTimer(k, c).target = k
      /\ NewTimer(k, c).elapsed = 0 /\ ~NewTimer(k, c).cancelled
  BY <1>0 DEF Add, NewTimer
(* An old goroutine keeps its context and, but for the mark, all else. *)
<1>o. \A tm \in timers' :
        \/ tm = NewTimer(k, c)
        \/ \E old \in timers : /\ tm.ctx = old.ctx /\ tm.target = old.target
                               /\ tm.elapsed = old.elapsed
                               /\ old.ctx # targets[k] => tm = old
                               /\ old.ctx = targets[k] => tm = [old EXCEPT !.cancelled = TRUE]
  BY <1>0 DEF Add, Superseded, IndInv, TypeOK, Timer
<1>2. ContextsUnique'
  <2>1. \A t1, t2 \in timers' : t1.ctx = t2.ctx => t1 = t2
    <3> SUFFICES ASSUME NEW t1 \in timers', NEW t2 \in timers', t1.ctx = t2.ctx
                 PROVE  t1 = t2
      OBVIOUS
    <3>1. CASE t1 = NewTimer(k, c) \/ t2 = NewTimer(k, c)
      BY <3>1, <1>o, <1>c, <1>m
    <3>2. CASE t1 # NewTimer(k, c) /\ t2 # NewTimer(k, c)
      <4>1. PICK o1 \in timers : /\ t1.ctx = o1.ctx
                                 /\ o1.ctx # targets[k] => t1 = o1
                                 /\ o1.ctx = targets[k] => t1 = [o1 EXCEPT !.cancelled = TRUE]
        BY <3>2, <1>o
      <4>2. PICK o2 \in timers : /\ t2.ctx = o2.ctx
                                 /\ o2.ctx # targets[k] => t2 = o2
                                 /\ o2.ctx = targets[k] => t2 = [o2 EXCEPT !.cancelled = TRUE]
        BY <3>2, <1>o
      <4>3. o1 = o2
        BY <4>1, <4>2, Zenon DEF ContextsUnique, IndInv
      <4> QED BY <4>1, <4>2, <4>3, Zenon
    <3> QED BY <3>1, <3>2
  <2>2. \A tm \in timers', j \in Targets : targets'[j] = tm.ctx => tm.target = j
    BY <1>o, <1>c, <1>m, <1>t DEF ContextsUnique, IndInv
  <2>3. \A i, j \in Targets : targets'[i] # NoContext /\ targets'[i] = targets'[j] => i = j
    BY <1>c, <1>t DEF ContextsUnique, IndInv
  <2> QED BY <2>1, <2>2, <2>3 DEF ContextsUnique
<1>3. EntriesTimed'
  <2>1. \A j \in Targets : targets'[j] # NoContext => \E tm \in timers' : tm.ctx = targets'[j]
    <3> SUFFICES ASSUME NEW j \in Targets, targets'[j] # NoContext
                 PROVE  \E tm \in timers' : tm.ctx = targets'[j]
      OBVIOUS
    <3>1. CASE j = k
      BY <3>1, <1>t, <1>m
    <3>2. CASE j # k
      <4>1. PICK old \in timers : old.ctx = targets[j]
        BY <3>2, <1>t DEF IndInv, EntriesTimed
      <4>2. old.ctx # targets[k]
        BY <4>1, <3>2, <1>t DEF IndInv, ContextsUnique
      <4> QED
        BY <4>1, <4>2, <3>2, <1>t, <1>0 DEF Add, Superseded
    <3> QED BY <3>1, <3>2
  <2>2. \A tm \in timers' : InForce(tm)' => ~tm.cancelled /\ tm.elapsed = sinceSet'[tm.target]
    <3> SUFFICES ASSUME NEW tm \in timers', InForce(tm)'
                 PROVE  ~tm.cancelled /\ tm.elapsed = sinceSet'[tm.target]
      OBVIOUS
    <3>1. CASE tm = NewTimer(k, c)
      BY <3>1, <1>m DEF Set, IndInv, TypeOK
    <3>2. CASE tm # NewTimer(k, c)
      <4>1. PICK old \in timers : /\ tm.ctx = old.ctx /\ tm.target = old.target
                                  /\ old.ctx # targets[k] => tm = old
        BY <3>2, <1>o
      <4>2. old.target \in Targets /\ old.ctx # NoContext
        BY DEF IndInv, TypeOK, Timer
      <4>3. old.target # k
        BY <4>1, <4>2, <1>t, <1>c DEF InForce
      <4>4. targets[old.target] = old.ctx
        BY <4>1, <4>2, <4>3, <1>t DEF InForce
      <4>5. tm = old
        BY <4>1, <4>2, <4>3, <4>4 DEF IndInv, ContextsUnique
      <4> QED
        BY <4>2, <4>3, <4>4, <4>5 DEF IndInv, EntriesTimed, InForce, Set, TypeOK
    <3> QED BY <3>1, <3>2
  <2> QED BY <2>1, <2>2 DEF EntriesTimed
<1>4. RowsMonitored'
  BY <1>t, <1>c DEF RowsMonitored, Set, Registry!Saved, Registry!Present, Registry!NoRow, IndInv
<1>5. WatchersCurrent'
  BY <1>r, NotifiedType, Zenon DEF WatchersCurrent, Set, IndInv, TypeOK
<1> QED BY <1>1, <1>2, <1>3, <1>4, <1>5 DEF IndInv
-----------------------------------------------------------------------------
(* Register fails: the entries and goroutines are those of before. *)
LEMMA SetFailsStep ==
  ASSUME IndInv, NEW k \in Targets, NEW id \in Registry!Identifiers,
         NEW st \in Registry!Statuses, SetFails(k, id, st)
  PROVE  IndInv'
<1>1. /\ rows' \in [Targets -> Registry!Row]
      /\ \A j \in Targets \ {k} : rows'[j] \in {rows[j], Registry!NoRow}
  BY SavedType DEF SetFails, IndInv, TypeOK, Registry!Saved
<1>2. chan' \in [Watchers -> Lists]
  BY <1>1, NotifiedType DEF SetFails, IndInv, TypeOK
<1>f. failures' \in 0..MaxFailures
  BY MaxFailuresAssumption DEF SetFails, Fails, IndInv, TypeOK
<1>u. unsent' \in BOOLEAN
  BY Zenon DEF SetFails, IndInv, TypeOK
<1>3. TypeOK'
  BY <1>1, <1>2, <1>f, <1>u DEF SetFails, IndInv, TypeOK, Lists, Timer
<1>4. ContextsUnique' /\ EntriesTimed'
  BY DEF SetFails, IndInv, ContextsUnique, EntriesTimed, InForce
<1>5. RowsMonitored'
  BY <1>1 DEF RowsMonitored, SetFails, Registry!Present, Registry!NoRow, IndInv
<1>6. WatchersCurrent'
  <2>1. CASE rows' = rows /\ chan' = chan /\ unsent' = unsent
    BY <2>1 DEF WatchersCurrent, SetFails, IndInv, Filter
  <2>2. CASE unsent'
    BY <2>2 DEF WatchersCurrent
  <2>3. CASE chan' = Notified(rows')
    BY <2>3, <1>1, NotifiedType, Zenon DEF WatchersCurrent, SetFails, IndInv, TypeOK
  <2> QED BY <2>1, <2>2, <2>3 DEF SetFails
<1> QED BY <1>3, <1>4, <1>5, <1>6 DEF IndInv

(* An entry goes, whether the row follows or not; the goroutine that takes *)
(* it away may be gone as well.                                            *)
LEMMA RemoveEntryStep ==
  ASSUME IndInv, NEW k \in Targets, RemoveEntry(k), timers' \subseteq timers,
         \A tm \in timers \ timers' : tm.target = k /\ InForce(tm),
         UNCHANGED <<sinceSet, watching, sent>>
  PROVE  IndInv'
<1>1. /\ rows' \in [Targets -> Registry!Row]
      /\ \A j \in Targets \ {k} : rows'[j] = rows[j]
      /\ rows'[k] = Registry!NoRow \/ k \in failed'
      /\ \A j \in Targets \ {k} : j \in failed' <=> j \in failed
  BY RemovedType DEF RemoveEntry, IndInv, TypeOK
<1>2. chan' \in [Watchers -> Lists]
  BY <1>1, NotifiedType DEF RemoveEntry, IndInv, TypeOK
<1>t. /\ targets' \in [Targets -> Contexts \cup {NoContext}]
      /\ targets'[k] = NoContext
      /\ \A j \in Targets \ {k} : targets'[j] = targets[j]
  BY DEF RemoveEntry, IndInv, TypeOK
<1>f. failures' \in 0..MaxFailures
  BY MaxFailuresAssumption DEF RemoveEntry, Fails, IndInv, TypeOK
<1>u. unsent' \in BOOLEAN
  BY Zenon DEF RemoveEntry, IndInv, TypeOK
<1>3. TypeOK'
  BY <1>1, <1>2, <1>t, <1>f, <1>u DEF RemoveEntry, IndInv, TypeOK, Lists, Timer
<1>c. \A tm \in timers : tm.target \in Targets /\ tm.ctx # NoContext
  BY NoContextAssumption DEF IndInv, TypeOK, Timer
<1>4. ContextsUnique'
  BY <1>t, <1>c DEF ContextsUnique, IndInv
<1>5. EntriesTimed'
  <2>1. \A j \in Targets : targets'[j] # NoContext => \E tm \in timers' : tm.ctx = targets'[j]
    <3> SUFFICES ASSUME NEW j \in Targets, targets'[j] # NoContext
                 PROVE  \E tm \in timers' : tm.ctx = targets'[j]
      OBVIOUS
    <3>1. PICK tm \in timers : tm.ctx = targets[j]
      BY <1>t DEF IndInv, EntriesTimed
    <3>2. tm \in timers'
      BY <3>1, <1>t, <1>c DEF IndInv, ContextsUnique, InForce
    <3> QED BY <3>1, <3>2, <1>t
  <2>2. \A tm \in timers' : InForce(tm)' => ~tm.cancelled /\ tm.elapsed = sinceSet'[tm.target]
    BY <1>t, <1>c DEF IndInv, EntriesTimed, InForce
  <2> QED BY <2>1, <2>2 DEF EntriesTimed
<1>6. RowsMonitored'
  BY <1>1, <1>t DEF RowsMonitored, Registry!Present, Registry!NoRow, IndInv
<1>7. WatchersCurrent'
  <2>1. CASE chan' = Notified(rows')
    <3>1. \A w \in watching : chan'[w] = <<Filter(w, rows')>> /\ chan'[w] # <<>>
      BY <1>1, <2>1, NotifiedType, Zenon DEF IndInv, TypeOK
    <3> QED BY <3>1, Zenon DEF WatchersCurrent
  <2>2. CASE chan' = chan /\ unsent' = (unsent \/ rows' # rows)
    <3>1. ~unsent' => rows' = rows /\ ~unsent
      BY <2>2, Zenon
    <3> QED BY <2>2, <3>1, Zenon DEF WatchersCurrent, IndInv
  <2> QED BY <2>1, <2>2, Zenon DEF RemoveEntry
<1> QED BY <1>3, <1>4, <1>5, <1>6, <1>7 DEF IndInv
-----------------------------------------------------------------------------
(* The goroutine in force removes the target, any other just ends. *)
LEMMA TimeoutStep ==
  ASSUME IndInv, NEW tm \in timers, Timeout(tm)
  PROVE  IndInv'
<1>0. tm.target \in Targets /\ tm.ctx # NoContext
  BY NoContextAssumption DEF IndInv, TypeOK, Timer
<1>1. CASE InForce(tm)
  BY <1>0, <1>1, RemoveEntryStep DEF Timeout, InForce
<1>2. CASE ~InForce(tm)
  <2>0. UNCHANGED <<rows, targets, chan, failed, unsent, failures, sinceSet, watching, sent>>
    BY <1>2 DEF Timeout, InForce
  <2>1. TypeOK' /\ ContextsUnique' /\ RowsMonitored' /\ WatchersCurrent'
    BY <2>0 DEF Timeout, IndInv, TypeOK, ContextsUnique, RowsMonitored, Registry!Present,
                WatchersCurrent, Filter, Lists, Timer
  <2>2. EntriesTimed'
    <3>1. \A k \in Targets : targets[k] # tm.ctx
      BY <1>0, <1>2 DEF InForce, IndInv, ContextsUnique
    <3> QED BY <2>0, <3>1 DEF Timeout, IndInv, EntriesTimed, InForce
  <2> QED BY <2>1, <2>2 DEF IndInv
<1> QED BY <1>1, <1>2

(* A goroutine that a refresh cancelled ends: no entry has its context. *)
LEMMA TimerCancelledStep ==
  ASSUME IndInv, NEW tm \in timers, TimerCancelled(tm)
  PROVE  IndInv'
<1>0. tm.target \in Targets
  BY DEF IndInv, TypeOK, Timer
<1>1. TypeOK' /\ ContextsUnique' /\ RowsMonitored' /\ WatchersCurrent'
  BY DEF TimerCancelled, IndInv, TypeOK, ContextsUnique, RowsMonitored, Registry!Present,
         WatchersCurrent, Filter, Lists, Timer
<1>2. EntriesTimed'
  <2>1. \A k \in Targets : targets[k] # tm.ctx
    BY <1>0 DEF TimerCancelled, InForce, IndInv, ContextsUnique, EntriesTimed
  <2> QED BY <2>1 DEF TimerCancelled, IndInv, EntriesTimed, InForce
<1> QED BY <1>1, <1>2 DEF IndInv

(* All clocks advance together. *)
LEMMA TickStep ==
  ASSUME IndInv, Tick
  PROVE  IndInv'
<1> USE EntryTimeoutAssumption
<1> DEFINE Aged(tm) == [tm EXCEPT !.elapsed = Older(@)]
<1>0. \A n \in 0..EntryTimeout : Older(n) \in 0..EntryTimeout
  BY DEF Older
<1>1. \A tm \in timers : /\ Aged(tm) \in Timer
                          /\ Aged(tm).ctx = tm.ctx /\ Aged(tm).target = tm.target
                          /\ Aged(tm).cancelled = tm.cancelled
                          /\ Aged(tm).elapsed = Older(tm.elapsed)
  BY <1>0 DEF IndInv, TypeOK, Timer
<1>2. timers' = {Aged(tm) : tm \in timers}
  BY DEF Tick
<1> HIDE DEF Aged
<1>3. TypeOK'
  <2>1. timers' \in SUBSET Timer
    BY <1>1, <1>2
  <2>2. sinceSet' \in [Targets -> 0..EntryTimeout]
    BY <1>0 DEF Tick, IndInv, TypeOK
  <2> QED BY <2>1, <2>2 DEF Tick, IndInv, TypeOK, Lists, Timer
<1>4. ContextsUnique'
  BY <1>1, <1>2 DEF Tick, IndInv, ContextsUnique
<1>5. EntriesTimed'
  <2>1. \A k \in Targets : targets'[k] # NoContext => \E tm \in timers' : tm.ctx = targets'[k]
    BY <1>1, <1>2 DEF Tick, IndInv, EntriesTimed
  <2>2. \A tm \in timers' : InForce(tm)' => ~tm.cancelled /\ tm.elapsed = sinceSet'[tm.target]
    <3> SUFFICES ASSUME NEW tm \in timers, InForce(Aged(tm))'
                 PROVE  ~Aged(tm).cancelled /\ Aged(tm).elapsed = sinceSet'[Aged(tm).target]
      BY <1>2
    <3>1. tm.target \in Targets
      BY DEF IndInv, TypeOK, Timer
    <3>2. InForce(tm)
      BY <1>1 DEF InForce, Tick
    <3> QED BY <3>1, <3>2, <1>1 DEF Tick, IndInv, EntriesTimed
  <2> QED BY <2>1, <2>2 DEF EntriesTimed
<1>6. RowsMonitored'
  BY DEF Tick, IndInv, RowsMonitored, Registry!Present
<1>7. WatchersCurrent'
  BY DEF Tick, IndInv, WatchersCurrent, Filter
<1> QED BY <1>3, <1>4, <1>5, <1>6, <1>7 DEF IndInv

(* A restart gives every row of the table an entry and a goroutine. *)
LEMMA RestartStep ==
  ASSUME IndInv, Restart
  PROVE  IndInv'
<1> USE NoContextAssumption, EntryTimeoutAssumption
<1>0. PICK f \in [Registry!PresentTargets -> Contexts] :
        /\ IsInjective(f)
        /\ targets' = [k \in Targets |-> IF k \in DOMAIN f THEN f[k] ELSE NoContext]
        /\ timers' = {NewTimer(k, f[k]) : k \in DOMAIN f}
  BY DEF Restart
<1>d. DOMAIN f = Registry!PresentTargets /\ DOMAIN f \subseteq Targets
  BY DEF Registry!PresentTargets
<1>i. \A j, k \in DOMAIN f : f[j] = f[k] => j = k
  BY <1>0 DEF IsInjective
<1>n. \A k \in DOMAIN f : /\ NewTimer(k, f[k]) \in Timer
                           /\ NewTimer(k, f[k]).ctx = f[k] /\ NewTimer(k, f[k]).target = k
                           /\ NewTimer(k, f[k]).elapsed = 0 /\ ~NewTimer(k, f[k]).cancelled
  BY <1>d DEF NewTimer, Timer
<1>t. \A k \in Targets : targets'[k] = IF k \in DOMAIN f THEN f[k] ELSE NoContext
  BY <1>0
<1>c. \A k \in DOMAIN f : f[k] \in Contexts /\ f[k] # NoContext
  OBVIOUS
<1>m. \A tm \in timers' : \E k \in DOMAIN f : tm = NewTimer(k, f[k])
  BY <1>0
<1>1. TypeOK'
  <2>1. timers' \in SUBSET Timer
    BY <1>m, <1>n
  <2>2. targets' \in [Targets -> Contexts \cup {NoContext}]
    BY <1>0, <1>c
  <2>3. sinceSet' \in [Targets -> 0..EntryTimeout]
    BY DEF Restart
  <2>4. chan' \in [Watchers -> Lists] /\ sent' \in [Watchers -> Lists]
    BY DEF Restart, Lists
  <2> QED BY <2>1, <2>2, <2>3, <2>4, Zenon DEF Restart, IndInv, TypeOK, Lists, Timer
<1>2. ContextsUnique'
  BY <1>m, <1>n, <1>t, <1>c, <1>d, <1>i DEF ContextsUnique
<1>3. EntriesTimed'
  <2>1. \A k \in Targets : targets'[k] # NoContext => \E tm \in timers' : tm.ctx = targets'[k]
    BY <1>0, <1>n, <1>t
  <2>2. \A tm \in timers' : ~tm.cancelled /\ tm.elapsed = sinceSet'[tm.target]
    <3>1. \A k \in Targets : sinceSet'[k] = 0
      BY DEF Restart
    <3> QED BY <3>1, <1>m, <1>n, <1>d
  <2> QED BY <2>1, <2>2 DEF EntriesTimed
<1>4. RowsMonitored'
  BY <1>t, <1>c, <1>d DEF RowsMonitored, Restart, Registry!Present, Registry!PresentTargets
<1>5. WatchersCurrent'
  BY DEF WatchersCurrent, Restart
<1> QED BY <1>1, <1>2, <1>3, <1>4, <1>5 DEF IndInv

(* The Watch streams touch their own slot only. *)
LEMMA WatcherStep ==
  ASSUME IndInv, NEW w \in Watchers, Watch(w) \/ Send(w) \/ StopWatch(w)
  PROVE  IndInv'
<1>0. UNCHANGED <<rows, targets, timers, sinceSet, failed, unsent, failures>>
  BY DEF Watch, Send, StopWatch
<1>1. <<Filter(w, rows)>> \in Lists /\ <<Filter(w, rows)>> # <<>> /\ <<>> \in Lists
  BY NotifiedType, Zenon DEF IndInv, TypeOK, Lists
<1>2. ContextsUnique' /\ EntriesTimed' /\ RowsMonitored'
  BY <1>0 DEF IndInv, ContextsUnique, EntriesTimed, InForce, RowsMonitored, Registry!Present
<1>3. TypeOK'
  <2>1. watching' \in SUBSET Watchers
    BY DEF Watch, Send, StopWatch, IndInv, TypeOK
  <2>2. chan' \in [Watchers -> Lists] /\ sent' \in [Watchers -> Lists]
    BY <1>1 DEF Watch, Send, StopWatch, Notify, IndInv, TypeOK
  <2> QED BY <1>0, <2>1, <2>2 DEF IndInv, TypeOK, Lists, Timer
<1>4. WatchersCurrent'
  <2>0. \A v \in Watchers : Filter(v, rows)' = Filter(v, rows)
    BY <1>0 DEF Filter
  <2>1. CASE Watch(w)
    BY <1>0, <1>1, <2>0, <2>1 DEF Watch, Notify, WatchersCurrent, IndInv, TypeOK
  <2>2. CASE Send(w)
    BY <1>0, <2>0, <2>2 DEF Send, WatchersCurrent, IndInv, TypeOK
  <2>3. CASE StopWatch(w)
    BY <1>0, <2>0, <2>3 DEF StopWatch, WatchersCurrent, IndInv, TypeOK
  <2> QED BY <2>1, <2>2, <2>3
<1> QED BY <1>2, <1>3, <1>4 DEF IndInv
-----------------------------------------------------------------------------
(* The inductive invariant of the registry. *)
THEOREM InvariantHolds == Spec => []IndInv
<1>1. Init => IndInv
  <2> SUFFICES ASSUME Init PROVE IndInv
    OBVIOUS
  <2>1. TypeOK
    <3>1. rows \in [Targets -> Registry!Row]
      BY DEF Init, Registry!Row
    <3>2. chan \in [Watchers -> Lists] /\ sent \in [Watchers -> Lists]
      BY DEF Init, Lists
    <3>3. sinceSet \in [Targets -> 0..EntryTimeout] /\ failures \in 0..MaxFailures
      BY EntryTimeoutAssumption, MaxFailuresAssumption DEF Init
    <3> QED BY <3>1, <3>2, <3>3, Zenon DEF Init, TypeOK
  <2>2. ContextsUnique /\ EntriesTimed /\ RowsMonitored /\ WatchersCurrent
    BY DEF Init, ContextsUnique, EntriesTimed, RowsMonitored, WatchersCurrent, Registry!Present,
           Registry!NoRow
  <2> QED BY <2>1, <2>2 DEF IndInv
<1>2. IndInv /\ [Next]_vars => IndInv'
  <2> SUFFICES ASSUME IndInv, [Next]_vars PROVE IndInv'
    OBVIOUS
  <2>1. CASE \E k \in Targets, id \in Registry!Identifiers, st \in Registry!Statuses :
               Set(k, id, st) \/ SetFails(k, id, st)
    BY <2>1, SetStep, SetFailsStep, Zenon
  <2>2. CASE \E k \in Targets : Remove(k)
    <3>1. PICK k \in Targets : Remove(k)
      BY <2>2
    <3> QED BY <3>1, RemoveEntryStep DEF Remove
  <2>3. CASE \E tm \in timers : Timeout(tm) \/ TimerCancelled(tm)
    BY <2>3, TimeoutStep, TimerCancelledStep, Zenon
  <2>4. CASE Tick
    BY <2>4, TickStep
  <2>5. CASE Restart
    BY <2>5, RestartStep
  <2>6. CASE \E w \in Watchers : Watch(w) \/ Send(w) \/ StopWatch(w)
    BY <2>6, WatcherStep, Zenon
  <2>7. CASE UNCHANGED vars
    <3>1. TypeOK'
      BY <2>7 DEF vars, IndInv, TypeOK, Lists, Timer
    <3>2. ContextsUnique' /\ EntriesTimed'
      BY <2>7 DEF vars, IndInv, ContextsUnique, EntriesTimed, InForce
    <3>3. RowsMonitored' /\ WatchersCurrent'
      BY <2>7 DEF vars, IndInv, RowsMonitored, Registry!Present, WatchersCurrent, Filter
    <3> QED BY <3>1, <3>2, <3>3 DEF IndInv
  <2> QED BY <2>1, <2>2, <2>3, <2>4, <2>5, <2>6, <2>7, Zenon DEF Next
<1> QED BY <1>1, <1>2, PTL DEF Spec

(* The types of the registry. *)
THEOREM TypeCorrect == Spec => []TypeOK
<1>1. IndInv => TypeOK
  BY DEF IndInv
<1> QED BY <1>1, InvariantHolds, PTL

(* Every row whose last call did not fail has a goroutine that will remove *)
(* it and that no refresh cancelled (KeepAlive.add, remove and timeout).   *)
THEOREM RowsAreTimed == Spec => []EveryRowHasTimer
<1>1. IndInv => EveryRowHasTimer
  <2> SUFFICES ASSUME IndInv, NEW k \in Registry!PresentTargets \ failed
               PROVE  \E tm \in timers : tm.target = k /\ tm.ctx = targets[k] /\ ~tm.cancelled
    BY DEF EveryRowHasTimer
  <2>1. k \in Targets /\ targets[k] # NoContext
    BY DEF Registry!PresentTargets, IndInv, RowsMonitored
  <2>2. PICK tm \in timers : tm.ctx = targets[k]
    BY <2>1 DEF IndInv, EntriesTimed
  <2>3. tm.target = k
    BY <2>1, <2>2 DEF IndInv, ContextsUnique
  <2> QED BY <2>2, <2>3 DEF IndInv, EntriesTimed, InForce
<1> QED BY <1>1, InvariantHolds, PTL

(* A watcher that has read its one-slot channel knows the current table,   *)
(* unless a call failed after it wrote (RegistryWatcher.Notify).           *)
THEOREM WatchersFollow == Spec => []WatchersCurrent
<1>1. IndInv => WatchersCurrent
  BY DEF IndInv
<1> QED BY <1>1, InvariantHolds, PTL

(* No timer, however late it gets the mutex, removes a target that was     *)
(* refreshed during the entry timeout (KeepAlive.timeout).                 *)
THEOREM RefreshedAreKept == Spec => NeverExpiresEarly
<1> DEFINE Kept ==
      \A k \in Targets : /\ Registry!Present(k) /\ ~Registry!Present(k)'
                         /\ timers' \subseteq timers /\ timers' # timers
                         => sinceSet[k] = EntryTimeout
<1>1. IndInv /\ [Next]_vars => [Kept]_vars
  <2> SUFFICES ASSUME IndInv, Next, NEW k \in Targets,
                      Registry!Present(k), ~Registry!Present(k)',
                      timers' \subseteq timers, timers' # timers
               PROVE  sinceSet[k] = EntryTimeout
    OBVIOUS
  <2>1. rows' # rows
    BY DEF Registry!Present
  <2>2. ASSUME NEW j \in Targets, NEW id \in Registry!Identifiers, NEW st \in Registry!Statuses,
               Set(j, id, st)
        PROVE  FALSE
    <3>1. PICK c \in FreeContexts : Add(j, c)
      BY <2>2 DEF Set
    <3>2. NewTimer(j, c) \in timers /\ NewTimer(j, c).ctx = c
      BY <3>1 DEF Add, NewTimer
    <3> QED BY <3>2 DEF FreeContexts
  <2>3. \A j \in Targets : /\ ~Remove(j)
                           /\ \A id \in Registry!Identifiers, st \in Registry!Statuses :
                                ~SetFails(j, id, st)
    BY DEF SetFails, Remove
  <2>4. ASSUME NEW tm \in timers, Timeout(tm)
        PROVE  sinceSet[k] = EntryTimeout
    <3>1. InForce(tm) /\ RemoveEntry(tm.target) /\ tm.elapsed = EntryTimeout
      BY <2>1, <2>4 DEF Timeout, InForce
    <3>2. tm.target \in Targets
      BY DEF IndInv, TypeOK, Timer
    <3>3. tm.target = k
      BY <3>1, <3>2, RemovedType DEF RemoveEntry, Registry!Present, IndInv
    <3> QED BY <3>1, <3>3 DEF IndInv, EntriesTimed
  <2>5. ~Tick /\ ~Restart /\ (\A tm \in timers : ~TimerCancelled(tm))
    BY <2>1 DEF Tick, Restart, TimerCancelled
  <2>6. \A w \in Watchers : ~Watch(w) /\ ~Send(w) /\ ~StopWatch(w)
    BY <2>1 DEF Watch, Send, StopWatch
  <2> QED BY <2>2, <2>3, <2>4, <2>5, <2>6 DEF Next
<1> QED BY <1>1, InvariantHolds, PTL DEF Spec, NeverExpiresEarly
-----------------------------------------------------------------------------
(* The middleware with its timers implements the registry its clients are  *)
(* promised: every call, timeout and restart is one step of it.            *)
THEOREM RegistryImplemented == Spec => ImplementsRegistry
<1>1. Init => Registry!RegistryInit
  BY DEF Init, Registry!RegistryInit, monitoredKeys
<1>2. IndInv /\ [Next]_vars => [Registry!RegistryNext]_(Registry!registryVars)
  <2> SUFFICES ASSUME IndInv, [Next]_vars
               PROVE  Registry!RegistryNext \/ UNCHANGED <<rows, monitoredKeys>>
    BY DEF Registry!registryVars
  <2> USE NoContextAssumption
  <2>1. ASSUME NEW k \in Targets, NEW id \in Registry!Identifiers, NEW st \in Registry!Statuses,
               Set(k, id, st)
        PROVE  Registry!Set(k, id, st)
    <3>1. PICK c \in FreeContexts : Add(k, c)
      BY <2>1 DEF Set
    <3>2. monitoredKeys' = monitoredKeys \cup {k}
      BY <3>1 DEF Add, FreeContexts, monitoredKeys, IndInv, TypeOK
    <3> QED BY <2>1, <3>2 DEF Set, Registry!Set
  <2>2. ASSUME NEW k \in Targets, NEW id \in Registry!Identifiers, NEW st \in Registry!Statuses,
               SetFails(k, id, st)
        PROVE  Registry!SetFails(k, id, st)
    BY <2>2 DEF SetFails, Fails, Registry!SetFails, monitoredKeys
  <2>3. ASSUME NEW k \in Targets, RemoveEntry(k)
        PROVE  Registry!Remove(k) \/ Registry!RemoveFails(k)
    <3>1. monitoredKeys' = monitoredKeys \ {k}
      BY <2>3 DEF RemoveEntry, monitoredKeys, IndInv, TypeOK
    <3> QED BY <2>3, <3>1 DEF RemoveEntry, Fails, Registry!Remove, Registry!RemoveFails
  <2>4. ASSUME NEW tm \in timers, Timeout(tm)
        PROVE  UNCHANGED <<rows, monitoredKeys>> \/ \E k \in Targets : Registry!Expire(k)
    <3>1. tm.target \in Targets /\ tm.ctx # NoContext
      BY DEF IndInv, TypeOK, Timer
    <3>2. CASE targets[tm.target] = tm.ctx
      <4>1. tm.target \in monitoredKeys
        BY <3>1, <3>2 DEF monitoredKeys
      <4>2. RemoveEntry(tm.target)
        BY <2>4, <3>2 DEF Timeout
      <4> QED BY <2>3, <3>1, <4>1, <4>2 DEF Registry!Expire
    <3>3. CASE targets[tm.target] # tm.ctx
      BY <2>4, <3>3 DEF Timeout, monitoredKeys
    <3> QED BY <3>2, <3>3
  <2>5. ASSUME Restart
        PROVE  Registry!Restore
    <3>1. PICK f \in [Registry!PresentTargets -> Contexts] :
            targets' = [k \in Targets |-> IF k \in DOMAIN f THEN f[k] ELSE NoContext]
      BY <2>5 DEF Restart
    <3>2. monitoredKeys' = Registry!PresentTargets
      BY <3>1 DEF monitoredKeys, Registry!PresentTargets
    <3> QED BY <2>5, <3>2 DEF Restart, Registry!Restore
  <2>6. ASSUME \/ \E tm \in timers : TimerCancelled(tm)
               \/ Tick
               \/ \E w \in Watchers : Watch(w) \/ Send(w) \/ StopWatch(w)
               \/ UNCHANGED vars
        PROVE  UNCHANGED <<rows, monitoredKeys>>
    BY <2>6 DEF TimerCancelled, Tick, Watch, Send, StopWatch, vars, monitoredKeys
  <2> QED
    BY <2>1, <2>2, <2>3, <2>4, <2>5, <2>6
       DEF Next, Remove, Registry!RegistryNext, Registry!RegistryCall
<1> QED BY <1>1, <1>2, InvariantHolds, PTL DEF Spec, ImplementsRegistry, Registry!RegistrySpec

(* Where no two streams of one name conflict, a row that a registration    *)
(* creates is DISABLED (KeepAlive.Set): a client that finds itself enabled *)
(* has been in the registry ever since it was enabled.                     *)
THEOREM NewTargetsAreDisabled ==
  ASSUME \A k \in Targets : ConflictsOf[k] = {}
  PROVE  Spec => Registry!NewTargetsStartDisabled
<1> DEFINE Known == /\ rows \in [Targets -> Registry!Row]
                    /\ \A k \in monitoredKeys : Registry!Present(k)
           Start == \A k \in Targets :
                      ~Registry!Present(k) /\ Registry!Present(k)' => rows'[k].status = "DISABLED"
<1>1. Registry!RegistryInit => Known
  BY DEF Registry!RegistryInit, Registry!Row
<1>2. Known /\ [Registry!RegistryNext]_(Registry!registryVars)
        => Known' /\ [Start]_(Registry!registryVars)
  <2> SUFFICES ASSUME Known, Registry!RegistryNext \/ UNCHANGED <<rows, monitoredKeys>>
               PROVE  Known' /\ (Start \/ UNCHANGED <<rows, monitoredKeys>>)
    BY DEF Registry!registryVars
  <2>1. ASSUME NEW k \in Targets, NEW id \in Registry!Identifiers, NEW st \in Registry!Statuses,
               Registry!Set(k, id, st) \/ Registry!SetFails(k, id, st)
        PROVE  Known' /\ Start
    <3>0. /\ monitoredKeys' \in {monitoredKeys, monitoredKeys \cup {k}}
          /\ \/ rows' = rows /\ monitoredKeys' = monitoredKeys
             \/ rows' = Registry!Saved(k, id, st, {})
      <4>1. ConflictsOf[k] = {} /\ SUBSET {} = {{}}
        OBVIOUS
      <4> QED BY <2>1, <4>1 DEF Registry!Set, Registry!SetFails
    <3>1. CASE rows' = rows /\ monitoredKeys' = monitoredKeys
      BY <3>1 DEF Registry!Present
    <3>2. CASE rows' = Registry!Saved(k, id, st, {})
      <4>1. /\ rows'[k] = [status |-> Registry!StoredStatus(k, st), id |-> id]
            /\ \A j \in Targets \ {k} : rows'[j] = rows[j]
            /\ rows' = [j \in Targets |-> rows'[j]]
        BY <3>2 DEF Registry!Saved
      <4>2. /\ rows'[k] \in Registry!Row
            /\ rows'[k].status = Registry!StoredStatus(k, st) /\ rows'[k].status # "NONE"
        BY <4>1 DEF Registry!StoredStatus, Registry!Row, Registry!Statuses
      <4>3. Known'
        BY <3>0, <4>1, <4>2 DEF Registry!Present, monitoredKeys
      <4>4. Start
        BY <4>1, <4>2 DEF Registry!Present, Registry!StoredStatus
      <4> QED BY <4>3, <4>4
    <3> QED BY <3>0, <3>1, <3>2
  <2>2. ASSUME NEW k \in Targets, Registry!Remove(k) \/ Registry!RemoveFails(k)
        PROVE  Known' /\ Start
    <3>1. /\ monitoredKeys' = monitoredKeys \ {k}
          /\ rows' \in [Targets -> Registry!Row]
          /\ \A j \in Targets \ {k} : rows'[j] = rows[j]
          /\ rows'[k] \in {rows[k], Registry!NoRow}
      BY <2>2 DEF Registry!Remove, Registry!RemoveFails, Registry!Removed, Registry!Row
    <3> QED BY <3>1 DEF Registry!Present, Registry!NoRow, monitoredKeys
  <2>3. ASSUME Registry!Restore
        PROVE  Known' /\ Start
    BY <2>3 DEF Registry!Restore, Registry!Present, Registry!PresentTargets
  <2>4. ASSUME UNCHANGED <<rows, monitoredKeys>>
        PROVE  Known'
    BY <2>4 DEF Registry!Present
  <2> QED
    BY <2>1, <2>2, <2>3, <2>4 DEF Registry!RegistryNext, Registry!RegistryCall, Registry!Expire
<1> QED
  BY <1>1, <1>2, RegistryImplemented, PTL
     DEF ImplementsRegistry, Registry!RegistrySpec, Registry!NewTargetsStartDisabled
=============================================================================
