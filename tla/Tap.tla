-------------------------------- MODULE Tap --------------------------------
(***************************************************************************)
(* The TAPA above its conduits: tap.go, which serves the user's Open and   *)
(* Close calls, trench.go with the conduits of the one trench the TAPA is  *)
(* in, trench/conduit.go, which connects a conduit in a goroutine, and     *)
(* trench/configuration.go, which brings the VIPs.  The inside of a        *)
(* conduit is in TapaConduit; here it is connected or not, and has streams.*)
(*                                                                         *)
(* A conduit that is closed and opened again is a new object (incarnation) *)
(* with the same NSM connection id.                                        *)
(***************************************************************************)
EXTENDS Integers, FiniteSets

CONSTANTS
    Opened,        \* the streams the user opens and closes
    Conduit,       \* the conduit of a stream
    Trench,        \* the trench of a conduit
    Incarnations,  \* 1..n
    TapBudgets     \* [calls, faults, vips, delete]: how often each may happen

VARIABLES
    trench,        \* currentTrench, or none
    nspConn,       \* of that trench: open, closed
    conduits,      \* conduit -> its incarnation in the trench, or 0
    created,       \* conduit -> number of incarnations so far
    added,         \* the streams added to the conduits of the trench
    connect,       \* conduit -> incarnation -> its connect goroutine
    nsm,           \* conduit -> its connection at NSM: none, kept, expiring
    closeCalls,    \* stream -> goroutines of Close waiting for tap.mu
    closer,        \* the Close goroutine that holds tap.mu
    deleter,       \* Tap.Delete, when the TAPA is stopped
    vips,          \* the VIPs of the flows, those on their way and those set
    wanted,        \* streams whose last call was Open
    reordered,     \* streams opened while a Close was waiting
    overtaken,     \* conduits whose disconnect came before their connect
    panicked,
    calls          \* what is left of the budget

tapVars == <<trench, nspConn, conduits, created, added, connect, nsm, closeCalls, closer, deleter,
             vips, wanted, reordered, overtaken, panicked, calls>>

None == "none"
Conduits == {Conduit[s] : s \in Opened}
NoConnect == [pc |-> "none", ctx |-> "live", connected |-> FALSE, watching |-> FALSE]
Idle == [pc |-> "idle", conduit |-> None]

TypeOK ==
    /\ trench \in {Trench[c] : c \in Conduits} \union {None} /\ nspConn \in {"open", "closed"}
    /\ \A c \in Conduits : conduits[c] \in 0..created[c] /\ created[c] \in 0..Cardinality(Incarnations)
    /\ \A s \in added : conduits[Conduit[s]] # 0
    /\ \A c \in Conduits : conduits[c] # 0 => Trench[c] = trench
    /\ \A c \in Conduits, i \in Incarnations :
         connect[c][i].pc \in {"none", "start", "try", "request", "wait", "after", "done"}
    /\ nsm \in [Conduits -> {"none", "kept", "expiring"}]
    /\ closer.pc \in {"idle", "disconnect", "closing", "check"}
    /\ deleter \in {"none", "read", "closing", "done"}
    /\ vips.listed \in 0..1 /\ vips.handled \in -1..1 /\ vips.set \in -1..1

Init ==
    /\ trench = None /\ nspConn = "closed"
    /\ conduits = [c \in Conduits |-> 0] /\ created = [c \in Conduits |-> 0]
    /\ added = {}
    /\ connect = [c \in Conduits |-> [i \in Incarnations |-> NoConnect]]
    /\ nsm = [c \in Conduits |-> "none"]
    /\ closeCalls = [s \in Opened |-> 0] /\ closer = Idle /\ deleter = "none"
    /\ vips = [listed |-> 0, unread |-> {}, handled |-> -1, set |-> -1]
    /\ wanted = {} /\ reordered = {} /\ overtaken = {} /\ panicked = FALSE
    /\ calls \in TapBudgets

Pay(b) == calls[b] > 0 /\ calls' = [calls EXCEPT ![b] = @ - 1]

TapFree == closer.pc = "idle" /\ ~panicked                      \* tap.mu
TrenchFree == closer.pc # "closing" /\ deleter # "closing"         \* t.mu
CtxFree(c, i) == conduits[c] = i => deleter # "closing" /\ closer # [pc |-> "closing", conduit |-> c]  \* cc.ctxMu

-----------------------------------------------------------------------------
(* The user's calls                                                        *)

(* setTrench: another trench than the current one is refused. *)
SetTrench(t) ==
    /\ trench \in {None, t}
    /\ trench' = t
    /\ nspConn' = IF trench = None THEN "open" ELSE nspConn

(* Trench.AddConduit: a new conduit is connected by a goroutine. *)
AddConduit(c) ==
    IF conduits[c] # 0 THEN UNCHANGED <<conduits, created, connect>>
    ELSE /\ created[c] + 1 \in Incarnations
         /\ conduits' = [conduits EXCEPT ![c] = created[c] + 1]
         /\ created' = [created EXCEPT ![c] = @ + 1]
         /\ connect' = [connect EXCEPT ![c][created[c] + 1].pc = "start"]

(* Mutant: a stream is added with its conduit only. *)
OpenConduit(s) ==
    /\ TapFree /\ TrenchFree /\ Pay("calls")
    /\ SetTrench(Trench[Conduit[s]])
    /\ AddConduit(Conduit[s])
    /\ added' = IF conduits[Conduit[s]] = 0 THEN added \union {s} ELSE added
    /\ wanted' = wanted \union {s}
    /\ reordered' = IF closeCalls[s] > 0 THEN reordered \union {s} ELSE reordered \ {s}
    /\ UNCHANGED <<nsm, closeCalls, closer, deleter, vips, overtaken, panicked>>

(* Open: set or get the trench, the conduit and the stream. *)
Open(s) ==
    /\ TapFree /\ TrenchFree /\ Pay("calls")
    /\ SetTrench(Trench[Conduit[s]])
    /\ AddConduit(Conduit[s])
    /\ added' = added \union {s}
    /\ wanted' = wanted \union {s}
    /\ reordered' = IF closeCalls[s] > 0 THEN reordered \union {s} ELSE reordered \ {s}
    /\ UNCHANGED <<nsm, closeCalls, closer, deleter, vips, overtaken, panicked>>

(* Close answers at once and leaves the work to a goroutine. *)
Close(s) ==
    /\ ~panicked /\ Pay("calls")
    /\ closeCalls' = [closeCalls EXCEPT ![s] = @ + 1]
    /\ wanted' = wanted \ {s}
    /\ reordered' = reordered \ {s}
    /\ UNCHANGED <<trench, nspConn, conduits, created, added, connect, nsm, closer, deleter, vips, overtaken, panicked>>

(* The goroutine removes the stream, and the conduit if it was the last.   *)
CloseStream(s) ==
    LET c == Conduit[s]
    IN  /\ closeCalls[s] > 0 /\ TapFree /\ TrenchFree
        /\ closeCalls' = [closeCalls EXCEPT ![s] = @ - 1]
        /\ IF trench # Trench[c] \/ conduits[c] = 0
           THEN UNCHANGED <<added, closer>>
           ELSE /\ added' = added \ {s}
                /\ closer' = IF \E r \in added' : Conduit[r] = c THEN Idle ELSE [pc |-> "disconnect", conduit |-> c]
        /\ UNCHANGED <<trench, nspConn, conduits, created, connect, nsm, deleter, vips, wanted, reordered, overtaken, panicked, calls>>

(* disconnect: cancel the connect goroutine, stop the watch of the VIPs ... *)
Cancelled(g) ==
    [g EXCEPT !.ctx = IF g.pc \in {"none", "start"} THEN @ ELSE "cancelled", !.watching = FALSE]

CancelConnect ==
    LET c == closer.conduit
    IN  /\ closer.pc = "disconnect" /\ deleter # "closing"
        /\ IF conduits[c] = 0
           THEN closer' = [closer EXCEPT !.pc = "check"] /\ UNCHANGED connect
           ELSE /\ connect' = [connect EXCEPT ![c][conduits[c]] = Cancelled(@)]
                /\ closer' = [closer EXCEPT !.pc = "closing"]
        /\ UNCHANGED <<trench, nspConn, conduits, created, added, nsm, closeCalls, deleter, vips, wanted, reordered, overtaken, panicked, calls>>

(* ... and, once Connect has given c.mu back, close the connection.  After *)
(* a failing Close it is not kept any more, and expires at NSM.            *)
Disconnected(c, i) ==
    /\ connect[c][i].pc # "request"
    /\ connect' = [connect EXCEPT ![c][i].connected = FALSE]
    /\ conduits' = [conduits EXCEPT ![c] = 0]
    /\ \/ nsm' = (IF connect[c][i].connected THEN [nsm EXCEPT ![c] = "none"] ELSE nsm) /\ UNCHANGED calls
       \/ connect[c][i].connected /\ Pay("faults") /\ nsm' = [nsm EXCEPT ![c] = "expiring"]

RemoveConduit ==
    /\ closer.pc = "closing" /\ Disconnected(closer.conduit, conduits[closer.conduit])
    /\ closer' = [closer EXCEPT !.pc = "check"]
    /\ UNCHANGED <<trench, nspConn, created, added, closeCalls, deleter, vips, wanted, reordered, overtaken, panicked>>

(* Without a conduit left the trench is deleted: its connection to the NSP *)
(* is closed, once (a second time it is nil).                              *)
CloseTrench ==
    /\ closer.pc = "check" /\ deleter # "closing"
    /\ closer' = Idle
    /\ IF \E c \in Conduits : conduits[c] # 0
       THEN UNCHANGED <<trench, nspConn, panicked>>
       ELSE /\ trench' = None /\ nspConn' = "closed"
            /\ panicked' = (nspConn = "closed")
    /\ UNCHANGED <<conduits, created, added, connect, nsm, closeCalls, deleter, vips, wanted, reordered, overtaken, calls>>

-----------------------------------------------------------------------------
(* The goroutine that connects a conduit                                   *)

Goroutine(c, i, pc) ==
    /\ connect[c][i].pc = pc /\ ~panicked
    /\ UNCHANGED <<trench, nspConn, conduits, created, added, closeCalls, closer, deleter, wanted, reordered, panicked>>

ConnectStart(c, i) ==
    /\ Goroutine(c, i, "start") /\ CtxFree(c, i)
    /\ connect' = [connect EXCEPT ![c][i].pc = "try"]
    /\ overtaken' = IF conduits[c] = i THEN overtaken ELSE overtaken \union {c}
    /\ UNCHANGED <<nsm, vips, calls>>

(* Connect asks NSM, holding c.mu, unless its context is over. *)
ConnectTry(c, i) ==
    /\ Goroutine(c, i, "try")
    /\ connect' = [connect EXCEPT ![c][i].pc = IF connect[c][i].ctx = "live" THEN "request" ELSE "wait"]
    /\ UNCHANGED <<nsm, vips, overtaken, calls>>

(* The answer, which may come as the context is cancelled; a request that  *)
(* fails may have left a connection at NSM.                                *)
ConnectAnswer(c, i) ==
    /\ Goroutine(c, i, "request")
    /\ \/ /\ connect' = [connect EXCEPT ![c][i].pc = "after", ![c][i].connected = TRUE]
          /\ nsm' = [nsm EXCEPT ![c] = "kept"]
          /\ UNCHANGED calls
       \/ /\ IF connect[c][i].ctx = "live" THEN Pay("faults") ELSE UNCHANGED calls
          /\ connect' = [connect EXCEPT ![c][i].pc = "wait"]
          /\ nsm' \in {nsm, [nsm EXCEPT ![c] = IF @ = "none" THEN "expiring" ELSE @]}
    /\ UNCHANGED <<vips, overtaken>>

ConnectWait(c, i) ==
    /\ Goroutine(c, i, "wait")
    /\ connect' = [connect EXCEPT ![c][i].pc = IF connect[c][i].ctx = "live" THEN "try" ELSE "after"]
    /\ UNCHANGED <<nsm, vips, overtaken, calls>>

(* Connected, the VIPs are watched, unless disconnect was there first. *)
ConnectAfter(c, i) ==
    /\ Goroutine(c, i, "after") /\ CtxFree(c, i)
    /\ connect' = [connect EXCEPT ![c][i].pc = "done", ![c][i].watching = (connect[c][i].ctx = "live")]
    /\ vips' = IF connect[c][i].ctx = "live" THEN [vips EXCEPT !.unread = @ \union {c}] ELSE vips
    /\ UNCHANGED <<nsm, overtaken, calls>>

-----------------------------------------------------------------------------
(* The VIPs of one conduit: the channel holds the last list; a list that   *)
(* was taken is set again and again until NSM accepts it, and only then    *)
(* the next one is taken.                                                  *)

Watched == {c \in Conduits : conduits[c] # 0 /\ connect[c][conduits[c]].watching}
Alone == CHOOSE c \in Conduits : TRUE   \* the conduit whose VIPs are followed

VipFrame == UNCHANGED <<trench, nspConn, conduits, created, added, connect, nsm, closeCalls, closer, deleter, wanted, reordered, overtaken, panicked>>

EditVips ==
    /\ Pay("vips") /\ VipFrame
    /\ vips' = [vips EXCEPT !.listed = 1 - @, !.unread = @ \union Watched]

TakeVips ==
    /\ VipFrame /\ Alone \in vips.unread \intersect Watched /\ vips.handled = -1 /\ nspConn = "open"
    /\ vips' = [vips EXCEPT !.handled = vips.listed, !.unread = @ \ {Alone}]
    /\ UNCHANGED calls

(* Mutant: a list NSM refuses is given up. *)
SetVipsOnce ==
    /\ VipFrame /\ vips.handled # -1 /\ Alone \in Watched
    /\ \/ vips' = [vips EXCEPT !.set = vips.handled, !.handled = -1] /\ UNCHANGED calls
       \/ Pay("faults") /\ vips' = [vips EXCEPT !.handled = -1]

SetVips ==
    /\ VipFrame /\ vips.handled # -1 /\ Alone \in Watched
    /\ \/ vips' = [vips EXCEPT !.set = vips.handled, !.handled = -1] /\ UNCHANGED calls
       \/ Pay("faults") /\ UNCHANGED vips

(* Stopped, the handler gives up; a new connection starts without VIPs. *)
StopVips ==
    /\ VipFrame /\ Alone \notin Watched /\ (vips.handled # -1 \/ vips.set # -1 \/ Alone \in vips.unread)
    /\ vips' = [vips EXCEPT !.handled = -1, !.set = -1, !.unread = @ \ {Alone}]
    /\ UNCHANGED calls

-----------------------------------------------------------------------------
(* The TAPA is stopped: Tap.Delete, without tap.mu, deletes the trench it  *)
(* finds; the calls are still served.                                      *)

DeleteRead ==
    /\ deleter = "none" /\ ~panicked /\ Pay("delete")
    /\ deleter' = IF trench = None THEN "done" ELSE "read"
    /\ UNCHANGED <<trench, nspConn, conduits, created, added, connect, nsm, closeCalls, closer, vips, wanted, reordered, overtaken, panicked>>

DeleteStreams ==
    /\ deleter = "read" /\ TrenchFree /\ ~panicked
    /\ deleter' = "closing"
    /\ added' = {}
    /\ connect' = [c \in Conduits |-> [i \in Incarnations |->
                     IF conduits[c] = i THEN Cancelled(connect[c][i]) ELSE connect[c][i]]]
    /\ UNCHANGED <<trench, nspConn, conduits, created, nsm, closeCalls, closer, vips, wanted, reordered, overtaken, panicked, calls>>

DeleteConduit(c) ==
    /\ deleter = "closing" /\ conduits[c] # 0 /\ Disconnected(c, conduits[c])
    /\ UNCHANGED <<trench, nspConn, created, added, closeCalls, closer, deleter, vips, wanted, reordered, overtaken, panicked>>

DeleteTrench ==
    /\ deleter = "closing" /\ \A c \in Conduits : conduits[c] = 0
    /\ deleter' = "done"
    /\ nspConn' = "closed" /\ panicked' = (nspConn = "closed")
    /\ UNCHANGED <<trench, conduits, created, added, connect, nsm, closeCalls, closer, vips, wanted, reordered, overtaken, calls>>

(* NSM: a connection nobody refreshes expires. *)
Expire(c) ==
    /\ nsm[c] = "expiring" /\ nsm' = [nsm EXCEPT ![c] = "none"]
    /\ UNCHANGED <<trench, nspConn, conduits, created, added, connect, closeCalls, closer, deleter, vips, wanted, reordered, overtaken, panicked, calls>>

-----------------------------------------------------------------------------
Connecting(c, i) ==
    ConnectStart(c, i) \/ ConnectTry(c, i) \/ ConnectAnswer(c, i) \/ ConnectWait(c, i) \/ ConnectAfter(c, i)

Closing == CancelConnect \/ RemoveConduit \/ CloseTrench
Deleting == DeleteStreams \/ (\E c \in Conduits : DeleteConduit(c)) \/ DeleteTrench
HandleVips == TakeVips \/ SetVips \/ StopVips

TapNext ==
    \/ \E s \in Opened : Open(s) \/ Close(s) \/ CloseStream(s)
    \/ Closing
    \/ \E c \in Conduits, i \in Incarnations : Connecting(c, i)
    \/ EditVips \/ HandleVips
    \/ DeleteRead \/ Deleting
    \/ \E c \in Conduits : Expire(c)

TapSpec == Init /\ [][TapNext]_tapVars

(* The goroutines run; those waiting for tap.mu get it. *)
TapFairness ==
    /\ \A s \in Opened : WF_tapVars(CloseStream(s))
    /\ WF_tapVars(Closing) /\ WF_tapVars(Deleting) /\ WF_tapVars(HandleVips)
    /\ \A c \in Conduits : WF_tapVars(Expire(c)) /\ \A i \in Incarnations : WF_tapVars(Connecting(c, i))

-----------------------------------------------------------------------------
(* Properties                                                              *)

(* When no Close is on its way, the streams added are those whose last     *)
(* call was Open, except for a stream opened while an earlier Close of it  *)
(* had not been carried out: Close answers before it has taken the lock,   *)
(* and may be carried out after the later Open.                            *)
LastCallWins ==
    closer = Idle /\ deleter = "none" /\ (\A s \in Opened : closeCalls[s] = 0)
        => \A s \in Opened \ reordered : s \in added <=> s \in wanted

(* A connection is kept at NSM only for a conduit of the trench, for one   *)
(* being removed, or for one whose disconnect came before the goroutine of *)
(* its connect had started: connect does not look whether it is too late.  *)
KeptHasConduit ==
    \A c \in Conduits : nsm[c] = "kept" => conduits[c] # 0 \/ c \in overtaken

(* Only the conduit in the trench has its VIPs followed, or none: connect  *)
(* does not start the watch after disconnect has stopped it.               *)
WatchedIsCurrent ==
    \A c \in Conduits, i \in Incarnations : connect[c][i].watching => conduits[c] = i \/ c \in overtaken

(* The connection to the NSP is closed twice only if Delete found a trench *)
(* a Close was about to delete, as Delete does not take tap.mu.            *)
ClosedOnce == panicked => deleter \in {"read", "done"}

(* A conduit that stays in the trench is connected in the end, and its     *)
(* VIPs are set to the last list although NSM may refuse a few times; a    *)
(* stream whose Close is the last call is removed in the end.              *)
ConduitSettles ==
    /\ \A c \in Conduits : <>[](conduits[c] # 0) => <>[](conduits[c] # 0 /\ connect[c][conduits[c]].connected)
    /\ <>[](Alone \in Watched /\ nspConn = "open") => <>[](vips.set = vips.listed)
    /\ \A s \in Opened : <>[](s \notin wanted) => <>[](s \notin added \/ panicked)

=============================================================================
