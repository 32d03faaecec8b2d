----------------------- MODULE ForwardingAvailability -----------------------
(***************************************************************************)
(* ForwardingAvailabilityService (pkg/loadbalancer/stream/availability.go) *)
(* tells its watchers, normally the frontend of the same pod, whether any  *)
(* stream of this load balancer has a target to forward to.                *)
(*                                                                         *)
(* Register and Unregister hold mu while they post an update, and a        *)
(* watcher takes mu to read the state: each of them is one step.  A        *)
(* watcher receives an update, reads the state and sends it in three.      *)
(***************************************************************************)
EXTENDS Naturals

CONSTANTS
  Streams,
  Watchers

VARIABLES
  forwardingPlane,  \* the streams with a target
  stopped,          \* forwardingPlane is nil
  chan,             \* the slot of updateCh: "empty", an "update" or the one of "stop"
  pc,               \* "off": not in watchStream
  target,           \* the local target of Watch
  lastSentTarget,
  acks,             \* the update that Watch handles is the one of Stop
  poster            \* the goroutine of Stop that informs a watcher

vars == <<forwardingPlane, stopped, chan, pc, target, lastSentTarget, acks, poster>>
watcher == <<pc, target, lastSentTarget, acks>>

Availability == {"available", "unavailable"}

TypeOK ==
  /\ forwardingPlane \in SUBSET Streams
  /\ stopped \in BOOLEAN
  /\ chan \in [Watchers -> {"empty", "update", "stop"}]
  /\ pc \in [Watchers -> {"off", "read", "send", "listen"}]
  /\ target \in [Watchers -> Availability \cup {"nil"}]
  /\ lastSentTarget \in [Watchers -> Availability \cup {"nil"}]
  /\ acks \in [Watchers -> BOOLEAN]
  /\ poster \in [Watchers -> {"none", "posting", "posted", "done", "timedout"}]

Init ==
  /\ forwardingPlane = {} /\ stopped = FALSE
  /\ chan = [w \in Watchers |-> "empty"]
  /\ pc = [w \in Watchers |-> "off"]
  /\ target = [w \in Watchers |-> "nil"]
  /\ lastSentTarget = [w \in Watchers |-> "nil"]
  /\ acks = [w \in Watchers |-> FALSE]
  /\ poster = [w \in Watchers |-> "none"]
-----------------------------------------------------------------------------
(* coreGetTarget *)
Available == IF forwardingPlane = {} THEN "unavailable" ELSE "available"

(* Mutant: a watcher that is busy gets no update. *)
UpdateListening ==
  chan' = [w \in Watchers |-> IF pc[w] = "listen" /\ chan[w] = "empty" THEN "update" ELSE chan[w]]

(* update: a slot that is taken stays as it is. *)
Update ==
  chan' = [w \in Watchers |-> IF pc[w] # "off" /\ chan[w] = "empty" THEN "update" ELSE chan[w]]

Register(s) ==
  /\ ~stopped /\ s \notin forwardingPlane
  /\ IF forwardingPlane = {} THEN Update ELSE UNCHANGED chan
  /\ forwardingPlane' = forwardingPlane \cup {s}
  /\ UNCHANGED <<stopped, watcher, poster>>

(* Also called for a stream that is not registered. *)
Unregister(s) ==
  /\ ~stopped
  /\ forwardingPlane' = forwardingPlane \ {s}
  /\ IF forwardingPlane' = {} THEN Update ELSE UNCHANGED chan
  /\ UNCHANGED <<stopped, watcher, poster>>

(* Stop starts one goroutine per watcher and waits for them. *)
Stop ==
  /\ ~stopped
  /\ stopped' = TRUE
  /\ forwardingPlane' = {}
  /\ poster' = [w \in Watchers |-> IF pc[w] # "off" THEN "posting" ELSE "none"]
  /\ UNCHANGED <<chan, watcher>>

StopPost(w) ==
  /\ poster[w] = "posting" /\ chan[w] = "empty"
  /\ chan' = [chan EXCEPT ![w] = "stop"]
  /\ poster' = [poster EXCEPT ![w] = "posted"]
  /\ UNCHANGED <<forwardingPlane, stopped, watcher>>

StopTimeout(w) ==
  /\ poster[w] \in {"posting", "posted"}
  /\ poster' = [poster EXCEPT ![w] = "timedout"]
  /\ UNCHANGED <<forwardingPlane, stopped, chan, watcher>>
-----------------------------------------------------------------------------
(* Watch is called: the channel is added first. *)
Watch(w) ==
  /\ pc[w] = "off"
  /\ pc' = [pc EXCEPT ![w] = "read"]
  /\ UNCHANGED <<forwardingPlane, stopped, chan, target, lastSentTarget, acks, poster>>

(* getTarget *)
Read(w) ==
  /\ pc[w] = "read"
  /\ target' = [target EXCEPT ![w] = Available]
  /\ pc' = [pc EXCEPT ![w] = "send"]
  /\ UNCHANGED <<forwardingPlane, stopped, chan, lastSentTarget, acks, poster>>

(* The feedback channel is closed: Stop waits for it in one case only. *)
Feedback(w) ==
  IF acks[w] /\ poster[w] = "posted" THEN [poster EXCEPT ![w] = "done"] ELSE poster

(* Sent, or skipped because the last one was equal. *)
Send(w) ==
  /\ pc[w] = "send"
  /\ lastSentTarget' = [lastSentTarget EXCEPT ![w] = target[w]]
  /\ pc' = [pc EXCEPT ![w] = "listen"]
  /\ poster' = Feedback(w)
  /\ acks' = [acks EXCEPT ![w] = FALSE]
  /\ UNCHANGED <<forwardingPlane, stopped, chan, target>>

(* Watch returns and its channel is gone.  A goroutine of Stop that posts  *)
(* to it or waits for feedback is left to its timeout.                     *)
Leave(w) ==
  /\ pc' = [pc EXCEPT ![w] = "off"]
  /\ chan' = [chan EXCEPT ![w] = "empty"]
  /\ target' = [target EXCEPT ![w] = "nil"]
  /\ lastSentTarget' = [lastSentTarget EXCEPT ![w] = "nil"]
  /\ acks' = [acks EXCEPT ![w] = FALSE]
  /\ poster' = [poster EXCEPT ![w] = "none"]
  /\ UNCHANGED <<forwardingPlane, stopped>>

(* Send fails, which needs something to send. *)
SendFails(w) ==
  /\ pc[w] = "send" /\ target[w] # lastSentTarget[w]
  /\ Leave(w)

(* The client cancelled the call. *)
Cancel(w) == pc[w] = "listen" /\ Leave(w)

Receive(w) ==
  /\ pc[w] = "listen" /\ chan[w] # "empty"
  /\ acks' = [acks EXCEPT ![w] = chan[w] = "stop"]
  /\ chan' = [chan EXCEPT ![w] = "empty"]
  /\ pc' = [pc EXCEPT ![w] = "read"]
  /\ UNCHANGED <<forwardingPlane, stopped, target, lastSentTarget, poster>>

Next ==
  \/ \E s \in Streams : Register(s) \/ Unregister(s)
  \/ Stop
  \/ \E w \in Watchers :
       \/ StopPost(w) \/ StopTimeout(w)
       \/ Watch(w) \/ Read(w) \/ Send(w) \/ SendFails(w) \/ Receive(w) \/ Cancel(w)

Spec == Init /\ [][Next]_vars

Goroutine(w) == Read(w) \/ Send(w) \/ Receive(w)

(* The goroutine of a watcher runs on, and so do those of Stop. *)
FairSpec == Spec /\ \A w \in Watchers : WF_vars(Goroutine(w)) /\ WF_vars(StopPost(w))
-----------------------------------------------------------------------------
(* "Buffered to ensure no changes go unnoticed" (availability.go:64): a    *)
(* watcher that waits with an empty slot last sent the state as it is,     *)
(* whatever updates were skipped while it was busy.                        *)
WatchersCurrent ==
  \A w \in Watchers :
    pc[w] = "listen" /\ chan[w] = "empty" /\ poster[w] \notin {"posting", "timedout"}
      => lastSentTarget[w] = Available

(* "Blocks until all watchers have processed and acted upon the stop       *)
(* request" (availability.go:164): when Stop got the feedback of a         *)
(* watcher, that watcher has told its client that nothing is available,    *)
(* and never tells anything else.                                          *)
StopActedUpon ==
  \A w \in Watchers :
    poster[w] = "done" =>
      /\ lastSentTarget[w] = "unavailable"
      /\ pc[w] = "send" => target[w] = "unavailable"

(* A state that lasts reaches every watcher that stays, unless Stop gave   *)
(* up on it.                                                               *)
ChangesDelivered ==
  \A w \in Watchers, a \in Availability :
    <>[](Available = a /\ pc[w] # "off" /\ poster[w] # "timedout") => <>[](lastSentTarget[w] = a)
=============================================================================
