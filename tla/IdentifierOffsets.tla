-------------------------- MODULE IdentifierOffsets --------------------------
(***************************************************************************)
(* The routing tables of the streams of one load balancer.  Every stream   *)
(* gets max-targets consecutive tables after an offset that                *)
(* IdentifierOffsetGenerator (cmd/stateless-lb/identifier.go) searches and *)
(* saves; addStream, deleteStream and evictStreams of SimpleNetworkService *)
(* (cmd/stateless-lb/main.go) use it.                                      *)
(*                                                                         *)
(* The search runs under the mutex of the generator.  It follows the       *)
(* iteration order of a Go map, which is any order.  Eviction runs in      *)
(* another goroutine and does not take that mutex.  Values that nothing    *)
(* reads any more (of a stream that is gone, of a call that is over) are   *)
(* set to 0.                                                               *)
(***************************************************************************)
EXTENDS Integers

CONSTANTS
  Streams,          \* names of streams
  NoStream,
  Limits,           \* values of max-targets
  Start,            \* IdentifierOffsetGenerator.Start
  MaxInt,           \* math.MaxInt
  LimitsImmutable   \* a stream comes back with the max-targets it had

ASSUME NoStreamAssumption == NoStream \notin Streams
ASSUME LimitsAssumption == Limits \subseteq Nat
ASSUME StartAssumption == Start \in Nat \ {0}
ASSUME MaxIntAssumption == MaxInt \in Nat /\ Start <= MaxInt

VARIABLES
  saved,            \* the streams that are keys of Streams
  base,             \* the saved offset of each of them
  size,             \* the max-targets of the key
  caller,           \* the stream that Generate runs for, or NoStream
  want,             \* its max-targets
  probe,            \* the local offset of Generate
  running,          \* SimpleNetworkService.streams
  place,            \* LoadBalancer.IdentifierOffset of each of them
  used              \* its max-targets

generator == <<saved, base, size>>
call == <<caller, want, probe>>
service == <<running, place, used>>
vars == <<saved, base, size, caller, want, probe, running, place, used>>

TypeOK ==
  /\ saved \in SUBSET Streams
  /\ base \in [Streams -> Nat]
  /\ size \in [Streams -> Limits \cup {0}]
  /\ caller \in Streams \cup {NoStream}
  /\ want \in Limits \cup {0}
  /\ probe \in Nat
  /\ running \in SUBSET Streams
  /\ place \in [Streams -> Nat]
  /\ used \in [Streams -> Limits \cup {0}]

Init ==
  /\ saved = {} /\ base = [s \in Streams |-> 0] /\ size = [s \in Streams |-> 0]
  /\ caller = NoStream /\ want = 0 /\ probe = 0
  /\ running = {} /\ place = [s \in Streams |-> 0] /\ used = [s \in Streams |-> 0]
-----------------------------------------------------------------------------
(* Mutant: the last table of a range is forgotten. *)
OverlapsShort(o, n, s) == o <= base[s] + size[s] - 2 /\ o + n - 1 >= base[s]

(* n tables from offset o meet those saved for s. *)
Overlaps(o, n, s) == o <= base[s] + size[s] - 1 /\ o + n - 1 >= base[s]

Fits(o, n) == \A s \in saved : ~Overlaps(o, n, s)

Exhausted == probe >= MaxInt - want + 1

Run(s, o, n) ==
  /\ running' = running \cup {s}
  /\ place' = [place EXCEPT ![s] = o]
  /\ used' = [used EXCEPT ![s] = n]

(* addStream for a stream with a saved offset; stream.New may fail. *)
AddKnown(s, n) ==
  /\ caller = NoStream
  /\ s \in saved \ running
  /\ LimitsImmutable => n = size[s]
  /\ Run(s, base[s], n)
  /\ UNCHANGED <<generator, call>>

(* addStream for a stream that has none: Generate starts to search. *)
AddNew(s, n) ==
  /\ caller = NoStream
  /\ s \notin saved \cup running
  /\ caller' = s /\ want' = n /\ probe' = Start
  /\ UNCHANGED <<generator, service>>

(* An iteration of the search that meets the range of s. *)
Skip(s) ==
  /\ s \in saved /\ caller # NoStream /\ ~Exhausted
  /\ Overlaps(probe, want, s)
  /\ probe' = base[s] + size[s]
  /\ UNCHANGED <<generator, service, caller, want>>

(* The search ends, the offset is saved and addStream goes on;             *)
(* stream.New may fail, which leaves the offset saved.                     *)
Found ==
  /\ caller # NoStream /\ ~Exhausted
  /\ Fits(probe, want)
  /\ saved' = saved \cup {caller}
  /\ base' = [base EXCEPT ![caller] = probe]
  /\ size' = [size EXCEPT ![caller] = want]
  /\ caller' = NoStream
  /\ Run(caller, probe, want) \/ UNCHANGED service
  /\ want' = 0 /\ probe' = 0

(* Generate returns 0 and an error; addStream tests another variable and   *)
(* goes on with 0.                                                         *)
NotFound ==
  /\ caller # NoStream /\ Exhausted
  /\ caller' = NoStream
  /\ Run(caller, 0, want) \/ UNCHANGED service
  /\ want' = 0 /\ probe' = 0
  /\ UNCHANGED generator

Release(s) ==
  /\ saved' = saved \ {s}
  /\ base' = [base EXCEPT ![s] = 0]
  /\ size' = [size EXCEPT ![s] = 0]

(* deleteStream: Release and Delete. *)
DeleteStream(s) ==
  /\ caller = NoStream
  /\ s \in running
  /\ Release(s)
  /\ running' = running \ {s}
  /\ place' = [place EXCEPT ![s] = 0]
  /\ used' = [used EXCEPT ![s] = 0]
  /\ UNCHANGED call

(* evictStreams keeps the offsets. *)
EvictStreams ==
  /\ running # {}
  /\ running' = {}
  /\ place' = [s \in Streams |-> 0]
  /\ used' = [s \in Streams |-> 0]
  /\ UNCHANGED <<generator, call>>

Next ==
  \/ \E s \in Streams, n \in Limits : AddKnown(s, n) \/ AddNew(s, n)
  \/ \E s \in Streams : Skip(s) \/ DeleteStream(s)
  \/ Found
  \/ NotFound
  \/ EvictStreams

Spec == Init /\ [][Next]_vars

(* The loop in Generate waits for nothing. *)
FairSpec == Spec /\ WF_vars(Found \/ NotFound \/ \E s \in Streams : Skip(s))
-----------------------------------------------------------------------------
(* Generate jumps from range to range without passing an offset at which   *)
(* the stream would fit: what it returns is the least free offset.         *)
SearchSkipsNoGap ==
  caller # NoStream => \A o \in Start..(probe - 1) : ~Fits(o, want)

(* Nothing that Generate adds up exceeds math.MaxInt: neither the offset   *)
(* it probes nor the end of a range that it saved.                         *)
NoOverflow ==
  /\ probe <= MaxInt
  /\ \A s \in saved : base[s] + size[s] <= MaxInt

(* The streams that run with an offset from the search. *)
Placed == {s \in running : place[s] >= Start}

(* "Generate returns an unused identifier offset for the routing tables to *)
(* not collide with the ones of the other streams" (identifier.go:40):     *)
(* the tables of a running stream s, place[s] + 1 .. place[s] + used[s],   *)
(* are its own, whatever was added, deleted and evicted before.            *)
TablesDisjoint ==
  \A s, t \in Placed :
    s # t => \/ place[s] + used[s] <= place[t]
             \/ place[t] + used[t] <= place[s]

(* Generate always returns, whatever the other streams occupy.             *)
GenerateReturns == []<>(caller = NoStream)
=============================================================================
