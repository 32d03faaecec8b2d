--------------------------- MODULE InterfaceNames ---------------------------
(***************************************************************************)
(* The names of NSM interfaces.  A cache ties a name to a connection id,   *)
(* releases it a while after the connection was closed or its request      *)
(* failed, and keeps it when the connection is requested again before      *)
(* that.  A connection that was recovered from NSM brings the name it had. *)
(* The process may restart, which loses the cache but not the connections. *)
(***************************************************************************)
EXTENDS Naturals, FiniteSets, FiniteSetsExt

CONSTANTS
  Users,          \* connection ids
  LastName,       \* the generator's names are 0..LastName
  NameScenes      \* [requests, closes, failures, restarts]

Names == 0..LastName
NoName == LastName + 1

VARIABLES
  interfaceNames,       \* id -> [name, scheduled], name NoName when not cached
  interfaceNamesInUse,  \* name -> id, or "none"
  usedNames,            \* the generator's names in use
  goroutines,           \* delayed releases: [id, name, at, cancelled, run]
  mechanism,            \* id -> name of its established connection, or NoName
  asked,                \* id -> the request that is with NSM: "none", "first" or "again"
  proposal,             \* id -> the name its request carries
  names,                \* budget
  renamed,              \* recovered connections whose request for another name failed
  raced                 \* a release ran although its connection had been requested again

vars == <<interfaceNames, interfaceNamesInUse, usedNames, goroutines, mechanism, asked, proposal, names,
          renamed, raced>>

cache == <<interfaceNames, interfaceNamesInUse, usedNames>>

NotCached == [name |-> NoName, scheduled |-> FALSE]

Init ==
  /\ names \in NameScenes
  /\ interfaceNames = [i \in Users |-> NotCached]
  /\ interfaceNamesInUse = [n \in Names |-> "none"]
  /\ usedNames = {} /\ goroutines = {}
  /\ mechanism = [i \in Users |-> NoName]
  /\ asked = [i \in Users |-> "none"]
  /\ proposal = [i \in Users |-> NoName]
  /\ renamed = {} /\ raced = FALSE

Spend(what) == names[what] > 0 /\ names' = [names EXCEPT ![what] = @ - 1]

-----------------------------------------------------------------------------
(* The cache. *)

(* CounterGenerator: the first name not in use; the last one when all are. *)
Generated == IF Names \subseteq usedNames THEN LastName ELSE Min(Names \ usedNames)

(* The release of a cached name is cancelled. *)
CancelRelease(id) ==
  /\ interfaceNames' = [interfaceNames EXCEPT ![id].scheduled = FALSE]
  /\ goroutines' = {IF g.id = id /\ interfaceNames[id].scheduled THEN [g EXCEPT !.cancelled = TRUE] ELSE g :
                      g \in goroutines}

(* A name is stored for the id, and is in use. *)
Keep(id, name) ==
  /\ interfaceNames' = [interfaceNames EXCEPT ![id] = [name |-> name, scheduled |-> FALSE]]
  /\ interfaceNamesInUse' = [interfaceNamesInUse EXCEPT ![name] = id]
  /\ usedNames' = usedNames \union {name}
  /\ UNCHANGED goroutines

(* Generate, for the request of an id: proposal' is the name it gets. *)
Generate(id) ==
  LET cached == interfaceNames[id].name
  IN  IF cached # NoName
      THEN /\ CancelRelease(id)
           /\ proposal' = [proposal EXCEPT ![id] = cached]
           /\ UNCHANGED <<interfaceNamesInUse, usedNames>>
      ELSE /\ Keep(id, Generated)
           /\ proposal' = [proposal EXCEPT ![id] = Generated]

(* Mutant: a preferred name is taken whoever uses it. *)
CheckAndReserveAnyway(id, preferred) ==
  /\ Keep(id, preferred)
  /\ proposal' = [proposal EXCEPT ![id] = preferred]

(* CheckAndReserve, and Generate where the preferred name is another's. *)
CheckAndReserve(id, preferred) ==
  IF interfaceNames[id].name # NoName \/ interfaceNamesInUse[preferred] # "none"
  THEN Generate(id)
  ELSE /\ Keep(id, preferred)
       /\ proposal' = [proposal EXCEPT ![id] = preferred]

(* Release: one goroutine waits to release the name. *)
Release(id) ==
  IF interfaceNames[id].name = NoName \/ interfaceNames[id].scheduled
  THEN UNCHANGED <<interfaceNames, goroutines>>
  ELSE /\ interfaceNames' = [interfaceNames EXCEPT ![id].scheduled = TRUE]
       /\ goroutines' = goroutines \union
            {[id |-> id, name |-> interfaceNames[id].name, at |-> "waits", cancelled |-> FALSE,
              run |-> 1 + Max({0} \union {g.run : g \in goroutines})]}

-----------------------------------------------------------------------------
(* The requests and closes of connections. *)

(* A request without a mechanism: a first one, or one that reselects and   *)
(* prefers the name the connection had.                                    *)
Request(id) ==
  /\ Spend("requests")
  /\ asked[id] = "none" /\ mechanism[id] = NoName
  /\ asked' = [asked EXCEPT ![id] = "first"]
  /\ Generate(id)
  /\ UNCHANGED <<mechanism, renamed, raced>>

(* A connection recovered from NSM is requested again with its name as the *)
(* preferred one.                                                          *)
Recover(id) ==
  /\ Spend("requests")
  /\ asked[id] = "none" /\ mechanism[id] # NoName
  /\ asked' = [asked EXCEPT ![id] = "again"]
  /\ CheckAndReserve(id, mechanism[id])
  /\ UNCHANGED <<mechanism, renamed, raced>>

Established(id) ==
  /\ asked[id] # "none"
  /\ asked' = [asked EXCEPT ![id] = "none"]
  /\ mechanism' = [mechanism EXCEPT ![id] = proposal[id]]
  /\ renamed' = renamed \ {id}
  /\ UNCHANGED <<cache, goroutines, proposal, names, raced>>

(* UnsetInterfaceName: a failed first request gives its name back; that of *)
(* an established connection does not.                                     *)
RequestFails(id) ==
  /\ Spend("failures")
  /\ asked[id] # "none"
  /\ asked' = [asked EXCEPT ![id] = "none"]
  /\ IF asked[id] = "first" THEN Release(id) ELSE UNCHANGED <<interfaceNames, goroutines>>
  /\ renamed' = IF asked[id] = "again" /\ proposal[id] # mechanism[id] THEN renamed \union {id}
                ELSE renamed
  /\ UNCHANGED <<interfaceNamesInUse, usedNames, mechanism, proposal, raced>>

Close(id) ==
  /\ Spend("closes")
  /\ asked[id] = "none" /\ mechanism[id] # NoName
  /\ mechanism' = [mechanism EXCEPT ![id] = NoName]
  /\ Release(id)
  /\ UNCHANGED <<interfaceNamesInUse, usedNames, asked, proposal, renamed, raced>>

-----------------------------------------------------------------------------
(* pendingRelease. *)

(* The timeout passes, also when the release is being cancelled; then the  *)
(* goroutine waits for the mutex.                                          *)
Timeout(g) ==
  /\ g.at = "waits" /\ ~g.cancelled
  /\ goroutines' = (goroutines \ {g}) \union {[g EXCEPT !.at = "releases"]}
  /\ UNCHANGED <<cache, mechanism, asked, proposal, names, renamed, raced>>

ReleaseCancelled(g) ==
  /\ g.at = "waits" /\ g.cancelled
  /\ goroutines' = goroutines \ {g}
  /\ UNCHANGED <<cache, mechanism, asked, proposal, names, renamed, raced>>

(* release: with the mutex the goroutine does not look at its context, nor *)
(* at the name the id has by now.                                          *)
RunRelease(g) ==
  /\ g.at = "releases"
  /\ goroutines' = goroutines \ {g}
  /\ IF interfaceNames[g.id].name = NoName
     THEN UNCHANGED cache
     ELSE /\ interfaceNames' = [interfaceNames EXCEPT ![g.id] = NotCached]
          /\ interfaceNamesInUse' = [interfaceNamesInUse EXCEPT ![g.name] = "none"]
          /\ usedNames' = usedNames \ {g.name}
  /\ raced' = (raced \/ g.cancelled)
  /\ UNCHANGED <<mechanism, asked, proposal, names, renamed>>

(* A restart loses the cache; connections are recovered from NSM. *)
Restart ==
  /\ Spend("restarts")
  /\ \A i \in Users : asked[i] = "none"
  /\ interfaceNames' = [i \in Users |-> NotCached]
  /\ interfaceNamesInUse' = [n \in Names |-> "none"]
  /\ usedNames' = {} /\ goroutines' = {}
  /\ proposal' = [i \in Users |-> NoName]
  /\ UNCHANGED <<mechanism, asked, renamed, raced>>

Goroutine(g) == Timeout(g) \/ ReleaseCancelled(g) \/ RunRelease(g)

Proceed ==
  \/ \E id \in Users : Established(id) \/ RequestFails(id)
  \/ \E g \in goroutines : Goroutine(g)

Next ==
  \/ \E id \in Users : Request(id) \/ Recover(id) \/ Close(id)
  \/ Proceed
  \/ Restart

(* Timeouts pass and requests return. *)
Spec == Init /\ [][Next]_vars /\ WF_vars(Proceed)

-----------------------------------------------------------------------------
(* Properties. *)

TypeOK ==
  /\ \A i \in Users : /\ interfaceNames[i].name \in Names \union {NoName}
                      /\ mechanism[i] \in Names \union {NoName}
                      /\ proposal[i] \in Names \union {NoName}
                      /\ asked[i] \in {"none", "first", "again"}
  /\ \A n \in Names : interfaceNamesInUse[n] \in Users \union {"none"}
  /\ usedNames \subseteq Names

(* An interface name is used by one connection at a time: two connections  *)
(* of this process do not have the same.  Only a release that waited for   *)
(* the mutex while its connection was requested again, and was carried out *)
(* in spite of being cancelled, gives a name away that is in use.  A       *)
(* recovered connection whose name went to another in the meantime has it  *)
(* until its request for a new name succeeds.                              *)
NamesDistinct ==
  \A i, j \in Users :
    ( /\ i # j /\ ~raced /\ {i, j} \intersect renamed = {} /\ asked[i] # "again" /\ asked[j] # "again"
      /\ interfaceNames[i].name # NoName /\ interfaceNames[j].name # NoName
      /\ mechanism[i] # NoName /\ mechanism[j] # NoName ) => mechanism[i] # mechanism[j]

(* The cache, its index by name and the generator agree. *)
CacheInSync ==
  ~raced => /\ \A i \in Users : interfaceNames[i].name # NoName =>
                 interfaceNamesInUse[interfaceNames[i].name] = i
            /\ \A n \in Names : interfaceNamesInUse[n] # "none" =>
                 interfaceNames[interfaceNamesInUse[n]].name = n
            /\ usedNames = {n \in Names : interfaceNamesInUse[n] # "none"}

(* A connection that is established keeps its name in the cache until it   *)
(* is closed, so that no other is given it; a connection from before a     *)
(* restart has its name there once it was recovered.                       *)
NamesKept ==
  \A i \in Users :
    (mechanism[i] # NoName /\ asked[i] = "none" /\ interfaceNames[i].name # NoName /\ ~raced
       /\ i \notin renamed) =>
      interfaceNames[i].name = mechanism[i] /\ ~interfaceNames[i].scheduled

(* The name of a connection that is gone becomes free in the end. *)
NamesReleased ==
  []<>(raced \/ \A i \in Users : mechanism[i] = NoName => interfaceNames[i].name = NoName)
=============================================================================
