------------------------------ MODULE FullMesh ------------------------------
(***************************************************************************)
(* A proxy's connections to every load balancer of its conduit.  One       *)
(* goroutine follows the endpoints in NSM's registry and adds or deletes a *)
(* client per endpoint; each client requests its connection in a goroutine *)
(* of its own; Close deletes all clients when the proxy stops.  Streams of *)
(* the registry end and are reopened, removals get lost, and requests and  *)
(* closes fail.                                                            *)
(***************************************************************************)
EXTENDS Naturals, Sequences, FiniteSets, SequencesExt

CONSTANTS
  Endpoints,
  MeshScenes      \* [start: endpoints present, changes, lost, faults, stops]

VARIABLES
  present,        \* endpoints in NSM's registry
  feed,           \* responses of the open stream not yet received
  pc,             \* discovery goroutine: find, recv, add, delete, closing, expire, end
  target,         \* the endpoint it adds or deletes
  back,           \* where it goes on after that: recv or expire
  expired,        \* endpoints still to delete in the expiration check
  known,          \* networkServiceEndpoints: endpoint -> none, valid or outdated
  client,         \* networkServiceClients, with where the request of each is
  mu,             \* who holds the mutex: none, discovery or closer
  closer,         \* Close: idle, iterating, deleting, closing or done
  visiting,       \* the endpoint whose client Close deletes
  stopped,        \* main is on its way out
  serviceClosed,
  nsm,            \* endpoints NSM has a connection to
  orphans,        \* connections a cancelled request or a failed close left behind
  crashed,
  budget

vars == <<present, feed, pc, target, back, expired, known, client, mu, closer, visiting, stopped,
          serviceClosed, nsm, orphans, crashed, budget>>

discovery == <<pc, target, back, expired, known>>
closing == <<closer, visiting, stopped, serviceClosed>>
network == <<present, feed>>

Init ==
  /\ budget \in MeshScenes
  /\ present = budget.start /\ feed = <<>>
  /\ pc = "find" /\ target = "none" /\ back = "recv" /\ expired = {}
  /\ known = [e \in Endpoints |-> "none"]
  /\ client = [e \in Endpoints |-> "none"]
  /\ mu = "none" /\ closer = "idle" /\ visiting = "none"
  /\ stopped = FALSE /\ serviceClosed = FALSE
  /\ nsm = {} /\ orphans = {} /\ crashed = FALSE

(* The context of the mesh is cancelled when Close has returned. *)
Done == closer = "done"

Spend(what) == budget[what] > 0 /\ budget' = [budget EXCEPT ![what] = @ - 1]

-----------------------------------------------------------------------------
(* NSM's registry. *)

Open == pc = "recv" \/ (pc \in {"add", "delete", "closing"} /\ back = "recv")

Appear(e) ==
  /\ Spend("changes") /\ e \notin present
  /\ present' = present \union {e}
  /\ feed' = IF ~Open THEN feed ELSE Append(feed, [endpoint |-> e, deleted |-> FALSE])
  /\ UNCHANGED <<discovery, client, mu, closing, nsm, orphans, crashed>>

(* An endpoint leaves; the stream may not tell. *)
Vanish(e) ==
  /\ e \in present
  /\ present' = present \ {e}
  /\ \/ Spend("changes")
        /\ feed' = IF ~Open THEN feed ELSE Append(feed, [endpoint |-> e, deleted |-> TRUE])
     \/ Spend("lost") /\ UNCHANGED feed
  /\ UNCHANGED <<discovery, client, mu, closing, nsm, orphans, crashed>>

(* The registration the proxy knows of runs out: the endpoint is gone, or  *)
(* its renewals did not come through.                                      *)
Outdate(e) ==
  /\ known[e] = "valid"
  /\ IF e \in present THEN Spend("lost") ELSE UNCHANGED budget
  /\ known' = [known EXCEPT ![e] = "outdated"]
  /\ UNCHANGED <<network, pc, target, back, expired, client, mu, closing, nsm, orphans, crashed>>

-----------------------------------------------------------------------------
(* Discovery: Request, recv and the expiration check. *)

(* A new stream starts with the endpoints that are registered. *)
Find ==
  /\ pc = "find" /\ ~Done
  /\ feed' = [i \in 1..Cardinality(present) |->
                [endpoint |-> SetToSeq(present)[i], deleted |-> FALSE]]
  /\ pc' = "recv"
  /\ UNCHANGED <<present, target, back, expired, known, client, mu, closing, nsm, orphans, crashed, budget>>

Recv ==
  /\ pc = "recv" /\ feed # <<>>
  /\ feed' = Tail(feed)
  /\ LET e == Head(feed).endpoint
     IN  /\ target' = e
         /\ back' = "recv"
         /\ pc' = IF Head(feed).deleted THEN "delete" ELSE "add"
         /\ known' = [known EXCEPT ![e] = IF Head(feed).deleted THEN "none" ELSE "valid"]
  /\ UNCHANGED <<present, expired, client, mu, closing, nsm, orphans, crashed, budget>>

(* Mutant: endpoints are only deleted when the stream says so. *)
StreamEndsUnchecked ==
  /\ pc = "recv" /\ (feed = <<>> \/ Done)
  /\ pc' = "expire" /\ feed' = <<>> /\ expired' = {}
  /\ UNCHANGED <<present, target, back, known, client, mu, closing, nsm, orphans, crashed, budget>>

(* The stream ends, and the endpoints known are checked. *)
StreamEnds ==
  /\ pc = "recv" /\ (feed = <<>> \/ Done)
  /\ pc' = "expire" /\ feed' = <<>>
  /\ expired' = {e \in Endpoints : known[e] = "outdated"}
  /\ UNCHANGED <<present, target, back, known, client, mu, closing, nsm, orphans, crashed, budget>>

(* checkEndpointExpiration stops with the context; then so does Request. *)
Expire ==
  /\ pc = "expire"
  /\ IF Done \/ expired = {}
     THEN /\ pc' = IF Done THEN "end" ELSE "find"
          /\ expired' = {} /\ target' = "none" /\ UNCHANGED <<back, known>>
     ELSE \E e \in expired :
            /\ expired' = expired \ {e} /\ target' = e /\ pc' = "delete" /\ back' = "expire"
            /\ known' = [known EXCEPT ![e] = "none"]
  /\ UNCHANGED <<network, client, mu, closing, nsm, orphans, crashed, budget>>

(* Writing the map while Close walks it without the mutex is a data race:  *)
(* the runtime may stop the process.                                       *)
MapWrite == crashed' \in (IF closer = "iterating" THEN BOOLEAN ELSE {FALSE})

(* addNetworkServiceClient: one client per endpoint and none once closed.  *)
(* Its request takes over a connection NSM still has for the endpoint.     *)
AddClient ==
  /\ pc = "add" /\ mu = "none"
  /\ IF serviceClosed \/ client[target] # "none"
     THEN UNCHANGED <<client, orphans, crashed>>
     ELSE client' = [client EXCEPT ![target] = "starting"] /\ orphans' = orphans \ {target} /\ MapWrite
  /\ pc' = back
  /\ UNCHANGED <<network, target, back, expired, known, mu, closing, nsm, budget>>

(* deleteNetworkServiceClient takes the mutex and cancels the request. *)
StartDelete ==
  /\ pc = "delete" /\ mu = "none"
  /\ IF client[target] = "none"
     THEN pc' = back /\ UNCHANGED mu
     ELSE pc' = "closing" /\ mu' = "discovery"
  /\ UNCHANGED <<network, target, back, expired, known, client, closing, nsm, orphans, crashed, budget>>

-----------------------------------------------------------------------------
(* The client of an endpoint. *)

Cancelled(e) == (pc = "closing" /\ target = e) \/ (closer = "closing" /\ visiting = e)

StartRequest(e) ==
  /\ client[e] = "starting" /\ ~Cancelled(e)
  /\ client' = [client EXCEPT ![e] = "requesting"]
  /\ UNCHANGED <<network, discovery, mu, closing, nsm, orphans, crashed, budget>>

(* The request succeeds, or NSM has the connection and the answer is lost. *)
Connect(e) ==
  /\ client[e] = "requesting" /\ e \in present
  /\ nsm' = nsm \union {e}
  /\ \/ client' = [client EXCEPT ![e] = "connected"] /\ UNCHANGED budget
     \/ Spend("faults") /\ UNCHANGED client
  /\ UNCHANGED <<network, discovery, mu, closing, orphans, crashed>>

(* SimpleNetworkServiceClient.Close: the request is cancelled and waited   *)
(* for.  A connection it made is closed, with a timeout; one NSM made for  *)
(* a cancelled request, or could not close, stays with NSM.                *)
CloseClient(e) ==
  /\ client' = [client EXCEPT ![e] = "none"]
  /\ \/ client[e] = "connected" /\ nsm' = nsm \ {e} /\ UNCHANGED <<orphans, budget>>
     \/ client[e] = "connected" /\ Spend("faults") /\ orphans' = orphans \union {e} /\ UNCHANGED nsm
     \/ /\ client[e] # "connected"
        /\ orphans' = IF e \in nsm THEN orphans \union {e} ELSE orphans
        /\ UNCHANGED <<nsm, budget>>

FinishDelete ==
  /\ pc = "closing"
  /\ CloseClient(target)
  /\ MapWrite
  /\ mu' = "none" /\ pc' = back
  /\ UNCHANGED <<network, target, back, expired, known, closing>>

-----------------------------------------------------------------------------
(* The proxy stops: Close. *)

Stop ==
  /\ Spend("stops")
  /\ stopped' = TRUE
  /\ UNCHANGED <<network, discovery, client, mu, closer, visiting, serviceClosed, nsm, orphans, crashed>>

StartClose ==
  /\ stopped /\ closer = "idle" /\ mu = "none"
  /\ serviceClosed' = TRUE /\ closer' = "iterating"
  /\ UNCHANGED <<network, discovery, client, mu, visiting, stopped, nsm, orphans, crashed, budget>>

Iterate ==
  /\ closer = "iterating"
  /\ IF \A e \in Endpoints : client[e] = "none"
     THEN closer' = "done" /\ UNCHANGED visiting
     ELSE \E e \in {f \in Endpoints : client[f] # "none"} : closer' = "deleting" /\ visiting' = e
  /\ UNCHANGED <<network, discovery, client, mu, stopped, serviceClosed, nsm, orphans, crashed, budget>>

CloseDelete ==
  /\ closer = "deleting" /\ mu = "none"
  /\ IF client[visiting] = "none"
     THEN closer' = "iterating" /\ UNCHANGED mu
     ELSE closer' = "closing" /\ mu' = "closer"
  /\ UNCHANGED <<network, discovery, client, visiting, stopped, serviceClosed, nsm, orphans, crashed,
                 budget>>

CloseFinish ==
  /\ closer = "closing"
  /\ CloseClient(visiting)
  /\ closer' = "iterating" /\ mu' = "none"
  /\ UNCHANGED <<network, discovery, visiting, stopped, serviceClosed, crashed>>

Discover == Find \/ Recv \/ StreamEnds \/ Expire \/ AddClient \/ StartDelete \/ FinishDelete

Closing == StartClose \/ Iterate \/ CloseDelete \/ CloseFinish

Clients == \E e \in Endpoints : StartRequest(e) \/ Connect(e) \/ Outdate(e)

Next ==
  /\ ~crashed
  /\ \/ \E e \in Endpoints : Appear(e) \/ Vanish(e)
     \/ Clients \/ Discover \/ Stop \/ Closing

(* Streams end and are reopened, registrations run out, and a request      *)
(* succeeds when it is tried often enough.                                 *)
Spec ==
  /\ Init /\ [][Next]_vars
  /\ WF_vars(~crashed /\ Discover) /\ WF_vars(~crashed /\ Closing) /\ WF_vars(~crashed /\ Clients)

-----------------------------------------------------------------------------
(* Properties. *)

TypeOK ==
  /\ present \subseteq Endpoints /\ nsm \subseteq Endpoints /\ orphans \subseteq Endpoints
  /\ pc \in {"find", "recv", "add", "delete", "closing", "expire", "end"}
  /\ target \in Endpoints \union {"none"} /\ visiting \in Endpoints \union {"none"}
  /\ known \in [Endpoints -> {"none", "valid", "outdated"}]
  /\ client \in [Endpoints -> {"none", "starting", "requesting", "connected"}]
  /\ closer \in {"idle", "iterating", "deleting", "closing", "done"}
  /\ mu \in {"none", "discovery", "closer"}

(* A connection NSM has belongs to a client that will close it, unless its *)
(* request was cancelled when NSM had made it already or its close failed. *)
ConnectionsOwned == \A e \in nsm : client[e] # "none" \/ e \in orphans

(* Once Close has returned no client is left and none is added, also while *)
(* discovery still works on what it received before.                       *)
ClosedForGood == Done => \A e \in Endpoints : client[e] = "none"

(* While the proxy runs, an endpoint that has left for good does not keep  *)
(* its client, whether or not its removal was reported, and one that stays *)
(* has its connection again and again.                                     *)
MeshFollows ==
  []<>( crashed \/ stopped
        \/ \A e \in Endpoints : IF e \in present THEN client[e] = "connected" ELSE client[e] = "none" )

(* A proxy that stops gets through Close, unless the race on the map stops *)
(* it: a pending request or a deletion in progress does not block it.      *)
CloseReturns == []<>(stopped => crashed \/ Done)
=============================================================================
