-------------------------------- MODULE IPAM --------------------------------
(***************************************************************************)
(* The IPAM of one trench and one IP family.  The trench's prefix is cut   *)
(* into conduits, a conduit into nodes, a node into single addresses, and  *)
(* every prefix given out is a row of one SQLite table.  Allocate and      *)
(* Release calls, and the watcher that follows the NSP's conduits, run     *)
(* concurrently; each store operation holds the store's mutex and is one   *)
(* step.  A garbage collector reaps the rows nobody refreshes.             *)
(*                                                                         *)
(* A row is named by its path: <<conduit>>, <<conduit, node>> or           *)
(* <<conduit, node, child>>.  Its CIDR is its first address, its size      *)
(* depends on its level only.  The trench's own row is always there.       *)
(***************************************************************************)
EXTENDS Naturals, Sequences, SequencesExt, FiniteSets, FiniteSetsExt, TLC

CONSTANTS
  Conduits,
  Children,     \* paths of addresses
  Bridge,       \* the name of a node's bridge child
  Callers,      \* the calls that may be in progress together
  Watcher,
  Sizes,        \* addresses of a trench, a conduit, a node, a child (levels 0 to 3)
  Base,         \* values of a byte: 256 in the code
  Bytes,        \* bytes of an address
  Scenes        \* [configs, children, calls, restarts]: versions of the NSP's conduits,
                \* the children calls are made for, budgets

None == "none"

VARIABLES
  db,           \* the table: path -> [cidr, exp, old]
  proc,         \* the calls in progress, and the watcher's
  adds,         \* SetConduits: conduits still to be added ...
  removes,      \* ... and then removed
  current,      \* currentConduits, in the watcher's memory
  got,          \* the version the watcher received last, 0 if none
  scene,        \* the scenario: rigid
  version,      \* the NSP's current version
  left,         \* budgets
  leases,       \* child path -> address, for the owners that hold one and refresh it
  raced,        \* leases whose row an overlapping call of the same child deleted
  torn,         \* conduits removed under a call that had already read them
  refused,      \* conduits whose last AddConduit found no free prefix
  forgotten     \* conduits stored when a restart emptied currentConduits

vars == <<db, proc, adds, removes, current, got, scene, version, left, leases, raced, torn,
          refused, forgotten>>

Procs == Callers \union {Watcher}
Nodes == {SubSeq(p, 1, 2) : p \in Children}
Paths == {<<c>> : c \in Conduits} \union Nodes \union Children
Size(level) == Sizes[level + 1]

Idle == [at |-> "idle", op |-> None, path |-> <<>>, level |-> 0, known |-> <<>>,
         cand |-> 0, seen |-> {}, conflict |-> FALSE]

Empty == [p \in {} |-> 0]
Without(f, S) == [x \in DOMAIN f \ S |-> f[x]]

Init ==
  /\ scene \in Scenes
  /\ left = [calls |-> scene.calls, restarts |-> scene.restarts]
  /\ version = 1
  /\ got = 0
  /\ db = Empty
  /\ proc = [q \in Procs |-> Idle]
  /\ adds = {} /\ removes = {} /\ current = {}
  /\ leases = Empty
  /\ raced = {} /\ torn = {} /\ refused = {} /\ forgotten = {}

-----------------------------------------------------------------------------
(* Prefix arithmetic, byte by byte as ip.go does it. *)

Byte(v, i) == (v \div Base^i) % Base

(* Mutant: the carry out of a byte is lost. *)
NextPrefixNoCarry(v, size) ==
  LET last == Byte(v, 0) + Byte(size - 1, 0) + 1
  IN  (v - Byte(v, 0)) + (last % Base)

(* The address after a prefix.  A byte that reaches its highest value      *)
(* carries too: the code compares the sum plus one.                        *)
NextPrefix(v, size) ==
  LET carry[i \in 0..Bytes] ==
        IF i = 0 THEN 1
        ELSE IF carry[i - 1] + Byte(size - 1, i - 1) = 0 THEN 0
        ELSE IF Byte(v, i - 1) + Byte(size - 1, i - 1) + carry[i - 1] + 1 > Base - 1 THEN 1
        ELSE 0
  IN  MapThenSumSet(LAMBDA i : ((Byte(v, i) + Byte(size - 1, i) + carry[i]) % Base) * Base^i,
                    0..(Bytes - 1))

(* LastIP, for the aligned prefixes of the table. *)
LastIP(v, size) == v + size - 1

(* A prefix of a level inside the parent's: aligned prefixes are nested or disjoint. *)
Inside(v, parent, level) ==
  /\ parent <= v
  /\ LastIP(v, Size(level)) <= LastIP(parent, Size(level - 1))

(* The prefixes of a level inside the parent's. *)
Candidates(parent, level) ==
  {v \in parent..LastIP(parent, Size(level - 1)) : (v - parent) % Size(level) = 0}

(* A node keeps its first and its last address. *)
Blocklist(parent, level) ==
  IF level = 3 THEN {parent, LastIP(parent, Size(2))} ELSE {}

(* The search of AllocateWithBlocklist, from a candidate on: the first     *)
(* prefix that is not taken, or None once it leaves the parent or is back  *)
(* at the parent's first.                                                  *)
Search(from, parent, level, taken) ==
  LET reach[n \in 0..Cardinality(Candidates(parent, level))] ==
        IF n = 0 THEN {from}
        ELSE {v \in {NextPrefix(u, Size(level)) : u \in reach[n - 1] \cap taken} :
                Inside(v, parent, level) /\ v # parent}
      found == UNION {reach[n] : n \in DOMAIN reach} \ taken
  IN  IF found = {} THEN {} ELSE {CHOOSE v \in found : TRUE}

-----------------------------------------------------------------------------
(* The table. *)

Parent(p) == Front(p)
ChildrenOf(p) == {r \in DOMAIN db : r # <<>> /\ Parent(r) = p}
Cidrs(S) == {db[r].cidr : r \in S}

(* The row and its descendants: what a delete removes. *)
Below(p) == {r \in DOMAIN db : IsPrefix(p, r)}

(* The unique index on parent and CIDR. *)
Taken(p, cidr) == \E r \in ChildrenOf(Parent(p)) \ {p} : db[r].cidr = cidr

(* Mutant: nodes do not expire. *)
ExpirableLeaves(p) == Len(p) = 3 /\ Last(p) # Bridge

(* Rows written by Add and Update expire when the context says so, and     *)
(* never when they are a bridge's.                                         *)
Expirable(p) == Len(p) >= 2 /\ Last(p) # Bridge

(* The ORM saves a row together with the parents it was built from; a      *)
(* parent that is there, or whose CIDR is taken, is left alone.            *)
WithParents(p, known) ==
  LET missing == {SubSeq(p, 1, l) : l \in 1..(Len(p) - 1)} \ DOMAIN db
      saved == {r \in missing : ~Taken(r, known[Len(r)])}
  IN  [r \in saved |-> [cidr |-> known[Len(r)], exp |-> FALSE, old |-> FALSE]] @@ db

Written(p, cidr, known) ==
  (p :> [cidr |-> cidr, exp |-> Expirable(p), old |-> FALSE]) @@ WithParents(p, known)


-----------------------------------------------------------------------------
(* The steps of a call.  A record of proc is the call's stack: the row it  *)
(* works on is its path cut at its level, known the CIDRs it has read.     *)

Goto(q, r) == proc' = [proc EXCEPT ![q] = r]
Row(r) == SubSeq(r.path, 1, r.level)
ParentCidr(r) == IF r.level = 1 THEN 0 ELSE r.known[r.level - 1]

HistoryUnchanged ==
  UNCHANGED <<adds, removes, current, got, scene, version, left, torn, forgotten>>

(* A prefix of the call's level was found or made: AddConduit and GetNode  *)
(* return it, Allocate answers with it.                                    *)
Obtained(q, cidr) ==
  LET r == proc[q]
  IN  /\ Goto(q, IF r.level = 2
                 THEN [Idle EXCEPT !.at = "child", !.op = r.op, !.path = r.path, !.level = 3,
                                   !.known = Append(r.known, cidr)]
                 ELSE Idle)
      /\ leases' = IF r.level = 3 THEN (r.path :> cidr) @@ leases ELSE leases
      /\ raced' = IF r.level = 3 THEN raced \ {r.path} ELSE raced
      /\ refused' = IF r.level = 1 THEN refused \ {r.path[1]} ELSE refused

(* A call ends without an address. *)
Failed(q) ==
  /\ Goto(q, Idle)
  /\ refused' = IF proc[q].level = 1 THEN refused \union {proc[q].path[1]} ELSE refused
  /\ UNCHANGED <<leases, raced>>

Moved(q, r) == Goto(q, r) /\ UNCHANGED <<leases, raced, refused>>

(* An owner asks for its address again, or for the first time. *)
Allocate(q, p) ==
  /\ proc[q].at = "idle" /\ left.calls > 0
  /\ left' = [left EXCEPT !.calls = @ - 1]
  /\ Goto(q, [Idle EXCEPT !.at = "conduit", !.op = "allocate", !.path = p, !.level = 1])
  /\ UNCHANGED <<db, adds, removes, current, got, scene, version, leases, raced, torn, refused,
                 forgotten>>

(* An owner gives its address up. *)
Release(q, p) ==
  /\ proc[q].at = "idle" /\ left.calls > 0
  /\ left' = [left EXCEPT !.calls = @ - 1]
  /\ Goto(q, [Idle EXCEPT !.at = "conduit", !.op = "release", !.path = p, !.level = 1])
  /\ leases' = Without(leases, {p})
  /\ raced' = raced \ {p}
  /\ UNCHANGED <<db, adds, removes, current, got, scene, version, torn, refused, forgotten>>

(* GetConduit.  Allocate asks again until the conduit is there; Release    *)
(* has nothing to do without it.                                           *)
GetConduit(q) ==
  LET r == proc[q] c == <<r.path[1]>>
  IN  /\ r.at = "conduit"
      /\ \/ /\ c \in DOMAIN db
            /\ Moved(q, [r EXCEPT !.at = "node", !.level = 2, !.known = <<db[c].cidr>>])
         \/ /\ c \notin DOMAIN db /\ r.op = "release"
            /\ Moved(q, Idle)
      /\ UNCHANGED db
      /\ HistoryUnchanged

(* The caller's context ends: only the wait for the conduit looks at it. *)
Expire(q) ==
  /\ proc[q].at = "conduit" /\ proc[q].op = "allocate"
  /\ Moved(q, Idle)
  /\ UNCHANGED db
  /\ HistoryUnchanged

(* GetNode, and the Get that opens node.Allocate and node.Release. *)
GetRow(q) ==
  LET r == proc[q] row == Row(r)
  IN  /\ r.at \in {"node", "child"}
      /\ \/ /\ row \in DOMAIN db
            /\ Moved(q, [r EXCEPT !.cand = db[row].cidr,
                                  !.at = IF r.op = "release" /\ r.level = 3
                                         THEN "delete" ELSE "update"])
         \/ /\ row \notin DOMAIN db
            /\ Moved(q, IF r.op = "release" /\ r.level = 3 THEN Idle
                        ELSE [r EXCEPT !.at = "list"])
      /\ UNCHANGED db
      /\ HistoryUnchanged

(* A node that was refreshed within the damping time is not written again. *)
ShouldUpdate(r) ==
  LET row == Row(r)
  IN  ~ /\ r.level = 2
        /\ row \in DOMAIN db
        /\ db[row] = [cidr |-> r.cand, exp |-> Expirable(row), old |-> FALSE]

(* Update: the refresh writes the row it read, even if it is gone by now. *)
Update(q) ==
  LET r == proc[q] row == Row(r)
  IN  /\ r.at = "update"
      /\ \/ /\ ~ShouldUpdate(r)
            /\ Obtained(q, r.cand) /\ UNCHANGED db
         \/ /\ ShouldUpdate(r) /\ Taken(row, r.cand)
            /\ Failed(q) /\ UNCHANGED db
         \/ /\ ShouldUpdate(r) /\ ~Taken(row, r.cand)
            /\ Obtained(q, r.cand)
            /\ db' = Written(row, r.cand, r.known)
      /\ HistoryUnchanged

(* The candidate to try next, given the children last listed. *)
TryNext(q, r, from, seen) ==
  LET parent == ParentCidr(r)
      found == Search(from, parent, r.level, seen \union Blocklist(parent, r.level))
  IN  \/ /\ found = {}
         /\ Failed(q)
      \/ \E v \in found : Moved(q, [r EXCEPT !.at = "add", !.cand = v, !.seen = {}])

Siblings(r) == ChildrenOf(Parent(Row(r)))

(* AllocateWithBlocklist: list the children and pick a candidate ... *)
List(q) ==
  /\ proc[q].at = "list"
  /\ TryNext(q, proc[q], ParentCidr(proc[q]), Cidrs(Siblings(proc[q])))
  /\ UNCHANGED db
  /\ HistoryUnchanged

(* ... add it.  A row of the same name fails the call; of the two          *)
(* constraints a duplicate row violates either may be the one reported.    *)
Add(q) ==
  LET r == proc[q] row == Row(r)
      sameId == row \in DOMAIN db
      sameCidr == Taken(row, r.cand) \/ (sameId /\ db[row].cidr = r.cand)
  IN  /\ r.at = "add"
      /\ \/ /\ ~sameId /\ ~sameCidr
            /\ db' = Written(row, r.cand, r.known)
            /\ Moved(q, [r EXCEPT !.at = "verify", !.conflict = FALSE])
         \/ /\ sameCidr
            /\ Moved(q, [r EXCEPT !.at = "verify", !.conflict = TRUE]) /\ UNCHANGED db
         \/ /\ sameId
            /\ Failed(q) /\ UNCHANGED db
      /\ HistoryUnchanged

(* ... and list again: the candidate is ours if our row alone has it. *)
Verify(q) ==
  LET r == proc[q] row == Row(r)
      hits == {s \in Siblings(r) : db[s].cidr = r.cand}
      seen == Cidrs(Siblings(r))
  IN  /\ r.at = "verify"
      /\ \/ /\ hits = {row} /\ Obtained(q, r.cand)
         \/ /\ hits # {row} /\ r.conflict /\ TryNext(q, r, r.cand, seen)
         \/ /\ hits # {row} /\ ~r.conflict /\ Moved(q, [r EXCEPT !.at = "undo", !.seen = seen])
      /\ UNCHANGED db
      /\ HistoryUnchanged

(* The row of a call's path is deleted by its name, whoever wrote it. *)
Erase(q, r) ==
  /\ db' = Without(db, Below(Row(proc[q])))
  /\ raced' = IF Row(proc[q]) \in DOMAIN leases THEN raced \union {Row(proc[q])} ELSE raced
  /\ Goto(q, r)
  /\ UNCHANGED <<leases, refused>>
  /\ HistoryUnchanged

(* A candidate that was added and is not alone is deleted ... *)
Undo(q) == proc[q].at = "undo" /\ Erase(q, [proc[q] EXCEPT !.at = "retry"])

(* ... and the search goes on. *)
Retry(q) ==
  /\ proc[q].at = "retry"
  /\ TryNext(q, proc[q], proc[q].cand, proc[q].seen)
  /\ UNCHANGED db
  /\ HistoryUnchanged

(* node.Release: the row, found a step ago, is deleted. *)
Delete(q) == proc[q].at = "delete" /\ Erase(q, Idle)

-----------------------------------------------------------------------------
(* The conduit watcher: SetConduits adds the conduits of a version, then   *)
(* removes those of the previous one that are gone.  Errors are ignored.   *)

Settled == proc[Watcher].at = "idle" /\ adds = {} /\ removes = {}

NewVersion ==
  /\ version < Len(scene.configs)
  /\ version' = version + 1
  /\ UNCHANGED <<db, proc, adds, removes, current, got, scene, left, leases, raced, torn, refused,
                 forgotten>>

(* A response of the watch: the watcher compares it with the last one. *)
Receive(v) ==
  /\ Settled /\ v \in (got + 1)..version
  /\ got' = v
  /\ adds' = scene.configs[v]
  /\ removes' = current \ scene.configs[v]
  /\ current' = scene.configs[v]
  /\ forgotten' = forgotten \ scene.configs[v]
  /\ UNCHANGED <<db, proc, scene, version, left, leases, raced, torn, refused>>

AddConduit(c) ==
  /\ proc[Watcher].at = "idle" /\ c \in adds
  /\ adds' = adds \ {c}
  /\ IF <<c>> \in DOMAIN db
     THEN UNCHANGED proc /\ refused' = refused \ {c}
     ELSE /\ Goto(Watcher, [Idle EXCEPT !.at = "list", !.op = "add", !.path = <<c>>, !.level = 1])
          /\ UNCHANGED refused
  /\ UNCHANGED <<db, removes, current, got, scene, version, left, leases, raced, torn, forgotten>>

RemoveConduit(c) ==
  /\ proc[Watcher].at = "idle" /\ adds = {} /\ c \in removes
  /\ removes' = removes \ {c}
  /\ IF <<c>> \in DOMAIN db
     THEN Goto(Watcher, [Idle EXCEPT !.at = "drop", !.op = "remove", !.path = <<c>>, !.level = 1])
     ELSE UNCHANGED proc
  /\ refused' = refused \ {c}
  /\ UNCHANGED <<db, adds, current, got, scene, version, left, leases, raced, torn, forgotten>>

(* The conduit's rows go with it, whoever is still using them. *)
DropConduit ==
  LET c == proc[Watcher].path[1]
      inUse == \E q \in Callers : proc[q].at \notin {"idle", "conduit"} /\ proc[q].path[1] = c
      owned == {p \in DOMAIN leases : p[1] = c}
  IN  /\ proc[Watcher].at = "drop"
      /\ db' = Without(db, Below(<<c>>))
      /\ leases' = Without(leases, owned)
      /\ raced' = raced \ owned
      /\ torn' = IF inUse THEN torn \union {c} ELSE torn
      /\ Goto(Watcher, Idle)
      /\ UNCHANGED <<adds, removes, current, got, scene, version, left, refused, forgotten>>

-----------------------------------------------------------------------------
(* Time, the garbage collector, and restarts. *)

EnvUnchanged ==
  UNCHANGED <<adds, removes, current, got, scene, version, left, torn, refused, forgotten>>

(* An owner stops refreshing its address without releasing it. *)
Abandon(p) ==
  /\ p \in DOMAIN leases
  /\ leases' = Without(leases, {p})
  /\ raced' = raced \ {p}
  /\ UNCHANGED <<db, proc>>
  /\ EnvUnchanged

(* A row passes the collector's threshold.  Owners refresh, and calls      *)
(* return, well within it.                                                 *)
Age(p) ==
  /\ p \in DOMAIN db /\ ~db[p].old /\ Len(p) >= 2
  /\ \A l \in DOMAIN leases : ~IsPrefix(p, l)
  /\ \A q \in Callers : proc[q].at = "idle" \/ ~IsPrefix(p, proc[q].path)
  /\ db' = [db EXCEPT ![p].old = TRUE]
  /\ UNCHANGED <<proc, leases, raced>>
  /\ EnvUnchanged

(* Mutant: the collector does not look at the age of a row. *)
ReapedAnyAge == {p \in DOMAIN db : \E r \in DOMAIN db : IsPrefix(r, p) /\ db[r].exp}

(* What garbageCollector deletes: expired rows, and all rows below them. *)
Reaped ==
  {p \in DOMAIN db : \E r \in DOMAIN db :
     IsPrefix(r, p) /\ db[r].exp /\ db[r].old /\ Last(r) # Bridge}

GarbageCollector ==
  /\ Reaped # {}
  /\ db' = Without(db, Reaped)
  /\ UNCHANGED <<proc, leases, raced>>
  /\ EnvUnchanged

(* migrate, at start-up: the rows of nodes and connections that do not     *)
(* expire, found from the conduits down, do from now on.                   *)
Migrated ==
  [p \in DOMAIN db |->
     IF /\ Expirable(p) /\ ~db[p].exp
        /\ \A l \in 1..Len(p) : SubSeq(p, 1, l) \in DOMAIN db
     THEN [db[p] EXCEPT !.exp = TRUE, !.old = FALSE]
     ELSE db[p]]

(* The process dies: calls and the watcher's memory are gone. *)
Restart ==
  /\ left.restarts > 0
  /\ left' = [left EXCEPT !.restarts = @ - 1]
  /\ db' = Migrated
  /\ proc' = [q \in Procs |-> Idle]
  /\ adds' = {} /\ removes' = {} /\ current' = {}
  /\ got' = 0
  /\ forgotten' = {c \in Conduits : <<c>> \in DOMAIN db}
  /\ refused' = {}
  /\ UNCHANGED <<scene, version, leases, raced, torn>>

Step(q) ==
  \/ GetRow(q) \/ Update(q) \/ List(q) \/ Add(q) \/ Verify(q) \/ Undo(q) \/ Retry(q)
  \/ Delete(q)

Watch ==
  \/ \E v \in 1..version : Receive(v)
  \/ \E c \in Conduits : AddConduit(c) \/ RemoveConduit(c)
  \/ DropConduit
  \/ Step(Watcher)

Next ==
  \/ \E q \in Callers, p \in scene.children : Allocate(q, p) \/ Release(q, p)
  \/ \E q \in Callers : GetConduit(q) \/ Expire(q) \/ Step(q)
  \/ NewVersion \/ Watch
  \/ \E p \in Children : Abandon(p)
  \/ \E p \in Paths : Age(p)
  \/ GarbageCollector
  \/ Restart

Spec == Init /\ [][Next]_vars

(* The goroutines of the calls, the watcher and the collector keep         *)
(* running, and time passes.  One of two calls cannot go on for ever while *)
(* the other waits, so fairness to both together is fairness to each.      *)
Fairness ==
  /\ WF_vars(\E q \in Callers : GetConduit(q) \/ Step(q))
  /\ WF_vars(Watch)
  /\ WF_vars(GarbageCollector \/ \E p \in Paths : Age(p))

FairSpec == Spec /\ Fairness

-----------------------------------------------------------------------------
TypeOK ==
  /\ DOMAIN db \subseteq Paths
  /\ \A p \in DOMAIN db : db[p] \in [cidr : 0..(Size(0) - 1), exp : BOOLEAN, old : BOOLEAN]
  /\ \A q \in Procs : proc[q].at \in {"idle", "conduit", "node", "child", "update", "list", "add",
                                      "verify", "undo", "retry", "delete", "drop"}
  /\ adds \subseteq Conduits /\ removes \subseteq Conduits /\ current \subseteq Conduits
  /\ got \in 0..version
  /\ DOMAIN leases \subseteq Children /\ raced \subseteq DOMAIN leases

(* No two owners hold the same address, whatever calls, removals and       *)
(* collections ran together.  Out of scope are an address whose row was    *)
(* deleted by a Release of the same child that overlapped its Allocate, or *)
(* by an Allocate undoing what such a Release disturbed, and conduits that *)
(* were removed under a running call.                                      *)
LeasesDistinct ==
  \A p, r \in {l \in DOMAIN leases \ raced : l[1] \notin torn} :
     leases[p] = leases[r] => p = r

(* An address an owner refreshes stays reserved in the table under the     *)
(* owner's name, with the same exceptions.                                 *)
LeasesStored ==
  \A p \in DOMAIN leases \ raced :
     p[1] \in torn \/ (p \in DOMAIN db /\ db[p].cidr = leases[p])

(* Every prefix lies inside its parent's, and the parent's row is there,   *)
(* except below a conduit that was removed under a running call.           *)
RowsNested ==
  \A p \in DOMAIN db :
     \/ p[1] \in torn
     \/ Len(p) = 1
     \/ Parent(p) \in DOMAIN db /\ Inside(db[p].cidr, db[Parent(p)].cidr, Len(p))

(* Once the watcher has handled the latest version, the table has the      *)
(* conduits of that version and no others.  A conduit whose prefix did not *)
(* fit when it was added is missing, even if a removal then made room; a   *)
(* restart forgets what to remove; a running call may bring a removed      *)
(* conduit back.                                                           *)
ConduitsFollow ==
  LET stored == {c \in Conduits : <<c>> \in DOMAIN db}
  IN  Settled /\ got = version =>
        /\ scene.configs[version] \ stored \subseteq refused
        /\ stored \ scene.configs[version] \subseteq forgotten \union torn

(* The addresses that owners hold, the rows that reserve them and the      *)
(* configured conduits agree.                                              *)
RowsConsistent == TypeOK /\ LeasesDistinct /\ LeasesStored /\ RowsNested /\ ConduitsFollow

(* "No more prefix available" is answered to a fresh allocation only when  *)
(* every prefix of the parent is taken.                                    *)
RefusedWhenFull ==
  [][\A q \in Procs :
       /\ proc[q].at = "list" /\ proc'[q].at = "idle"
       /\ left'.restarts = left.restarts
       => LET r == proc[q] IN
            Candidates(ParentCidr(r), r.level) \subseteq
              Cidrs(Siblings(r)) \union Blocklist(ParentCidr(r), r.level)]_vars

(* A row of a node or connection that nobody refreshes any more, and no    *)
(* call is about, is reaped in the end.  Bridges go with their node.  Rows that a running call      *)
(* brought back after their conduit was removed are out of scope: they do  *)
(* not expire before a restart.                                            *)
LeaksReaped ==
  []<>(\A p \in DOMAIN db :
         \/ Len(p) = 1 \/ Last(p) = Bridge \/ p[1] \in torn
         \/ \E l \in DOMAIN leases : IsPrefix(p, l)
         \/ \E q \in Callers : proc[q].at # "idle" /\ IsPrefix(p, proc[q].path))

(* Every call is answered, or waits for a conduit that is not stored.      *)
(* Out of scope are calls that add the same row together: once a Release   *)
(* or a removal of the conduit has deleted it between them, each may keep  *)
(* undoing what the other added.                                           *)
CallsAnswered ==
  LET adding(q) == proc[q].at \in {"add", "verify", "undo", "retry"}
  IN  []<>(\A q \in Callers :
             \/ proc[q].at = "idle"
             \/ proc[q].at = "conduit" /\ <<proc[q].path[1]>> \notin DOMAIN db
             \/ \E o \in Callers \ {q} : adding(q) /\ adding(o) /\ Row(proc[o]) = Row(proc[q]))

(* Calls are answered and what nobody needs any more is reaped.            *)
ServiceSettles == LeaksReaped /\ CallsAnswered
=============================================================================
