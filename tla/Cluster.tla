------------------------------ MODULE Cluster ------------------------------
(***************************************************************************)
(* The cluster as its clients see it: nginx passes each request to one of  *)
(* the masters, the master looks the key up and forwards the request to a  *)
(* cache node (cmd/master/main.go), the node reads or changes its cache    *)
(* (cmd/auxiliary/main.go).  Every master has a registry and a ring of its *)
(* own, which only the nodes that registered with it are in.               *)
(*                                                                         *)
(* A handler of a master looks up the number of nodes, the ring and the    *)
(* map one after the other and holds no lock in between or afterwards.     *)
(* Meanwhile nodes start, register with a master that nginx picks, stop,   *)
(* deregister with one that nginx picks, and crash; masters crash and      *)
(* forget everything; a request that timed out may still be carried out.   *)
(*                                                                         *)
(* A PUT carries its key in JSON, all the way to the node.  For a GET or a *)
(* DELETE the master puts the key into a URL as it is, and the node parses *)
(* that URL: what it reads as the key may be another one (PathKey).        *)
(*                                                                         *)
(* Other modules have the detail of the parts: ConsistentHash of the ring, *)
(* MasterRegistry of overlapping edits of one node, Rebalance and          *)
(* BackupRestore of what these do to a cache.  Caches do not evict here.   *)
(***************************************************************************)
EXTENDS Naturals, FiniteSets

CONSTANTS
  Master,     \* the masters
  Node,       \* the cache nodes
  Key,        \* the keys
  Value,      \* the values that clients put
  Absent,     \* what a cache holds for a key that it does not have
  read,       \* what a GET makes of a key; a PUT its value, a DELETE Absent
  nobody,     \* no node, no master, no key
  Request,    \* requests that are served at the same time
  Distance,   \* Distance[k][n]: clockwise from the hash of k to the next of n
  PathKey,    \* PathKey[k]: what a node reads as the key in /data/k, or nobody
  MaxLate,    \* bound: forwarded writes that nobody waits for any more
  MaxChanges  \* bound: starts, stops, crashes, rebalances and restores

ASSUME ClusterAssumption ==
  /\ Absent \notin Value /\ read \notin Value \cup {Absent}
  /\ nobody \notin Node \cup Master \cup Key
  /\ Distance \in [Key -> [Node -> Nat]]
  /\ PathKey \in [Key -> Key \cup {nobody}]
  /\ MaxLate \in Nat /\ MaxChanges \in Nat

Content == Value \cup {Absent}

VARIABLES
  running,    \* the masters that are running
  auxNodes,   \* of every master: the nodes in its map
  ring,       \* of every master: the nodes in its HashRing
  route,      \* of every master: what HashRing.Get returns for each key
  disturbed,  \* the masters whose HashRing has seen a Remove
  phase,      \* of every node: "down", "joining", "serving" or "leaving"
  edit,       \* what a master is about to do to the registration of each node
  store,      \* of every node: its Cache
  moving,     \* nodes that are running a rebalance or a restore
  req,        \* what every request is about to do
  late,       \* forwarded writes that may yet be carried out
  changes,    \* how much has started, stopped, crashed or been moved so far
  may         \* history: what a GET through a master may find for a key

vars == <<running, auxNodes, ring, route, disturbed, phase, edit, store, moving,
          req, late, changes, may>>

Nothing == [k \in Key |-> Absent]
Edit(at, m) == [at |-> at, master |-> m]
NoEdit == Edit("none", nobody)

(***************************************************************************)
(* A request knows its key and what it makes of it, the master it is with, *)
(* the masters that nginx has tried, the name that the ring gave, and the  *)
(* answer of the node.  Its histories are                                  *)
(*   seen:  what other requests may have made of the key since the master  *)
(*          took this one up and, for a GET, what the key may have been    *)
(*          before;                                                        *)
(*   fresh: nothing but client requests can have changed since what the    *)
(*          master finds for the key (otherwise seen does not matter);     *)
(*   calm:  nobody has touched the registry of the master since, and the   *)
(*          lookups are not over.                                          *)
(***************************************************************************)
Idle == [at |-> "idle", what |-> read, key |-> nobody, master |-> nobody, tried |-> {},
         name |-> nobody, gave |-> Absent, seen |-> {}, fresh |-> FALSE, calm |-> FALSE]

Open(c) == req[c].at # "idle"
Writing(c) == Open(c) /\ req[c].what # read

Becomes(c, r) == req' = [req EXCEPT ![c] = r]
Changes == changes < MaxChanges /\ changes' = changes + 1

(***************************************************************************)
(* The key of the cache that a request of a client for k reaches.  In the  *)
(* URL of a GET or a DELETE "?" and "#" end the key, "%41" is an "A", and  *)
(* "a%2F%2Fb" is the path a//b, which the node redirects to a/b; the URL   *)
(* may also be none, or its path have no key or one that is too long.      *)
(***************************************************************************)
Reached(w, k) == IF w \in Value THEN k ELSE PathKey[k]

Plain(k) == PathKey[k] = k

(* What clients are making of k, and may be making of it without waiting.  *)
InFlight(k) ==
  {req[c].what : c \in {d \in Request : Writing(d) /\ Reached(req[d].what, req[d].key) = k}}
    \cup {p.value : p \in {q \in late : q.key = k}}

(* The node accepts requests. *)
Serving(n) == phase[n] \in {"serving", "leaving"}

(* Map and ring of m agree, and the ring is intact. *)
Settled(m) ==
  /\ auxNodes[m] = ring[m] /\ ring[m] # {}
  /\ m \notin disturbed

(***************************************************************************)
(* From now on a GET may find anything for a key through a master, where   *)
(* lost has the pair; and the registries of the masters in touched have    *)
(* changed.                                                                *)
(***************************************************************************)
Forgets(lost, touched) ==
  /\ may' = [m \in Master |-> [k \in Key |-> IF <<m, k>> \in lost THEN Content ELSE may[m][k]]]
  /\ req' = [c \in Request |->
               LET r == req[c]
                   fresh == r.fresh /\ <<r.master, r.key>> \notin lost
               IN  [r EXCEPT !.fresh = fresh,
                             !.seen = IF fresh THEN @ ELSE {},
                             !.calm = @ /\ r.master \notin touched]]

(* The masters that look on some node of N for a key of K, with the key.   *)
Reaching(N, K) == {p \in Master \X K : route[p[1]][p[2]] \in N}

-----------------------------------------------------------------------------
Init ==
  /\ running = Master
  /\ auxNodes = [m \in Master |-> {}]
  /\ ring = [m \in Master |-> {}]
  /\ route = [m \in Master |-> [k \in Key |-> nobody]]
  /\ disturbed = {}
  /\ phase = [n \in Node |-> "down"]
  /\ edit = [n \in Node |-> NoEdit]
  /\ store = [n \in Node |-> Nothing]
  /\ moving = {}
  /\ req = [c \in Request |-> Idle]
  /\ late = {}
  /\ changes = 0
  /\ may = [m \in Master |-> [k \in Key |-> Content]]

-----------------------------------------------------------------------------
(* Requests for a key *)

clusterOnly == <<running, auxNodes, ring, route, disturbed, phase, edit, moving,
                 changes>>

(* The first lookup of a handler: are there any nodes?  What a PUT or a    *)
(* DELETE makes of the key that it reaches is in flight from now on.       *)
Counted(k, w, m, tried) ==
  [at |-> "counted", what |-> w, key |-> k, master |-> m, tried |-> tried, name |-> nobody,
   gave |-> Absent, seen |-> InFlight(k) \cup (IF w = read THEN may[m][k] ELSE {}),
   fresh |-> TRUE, calm |-> Settled(m)]

Sees(r, w) == [r EXCEPT !.seen = @ \cup {w}]

CountNodes(c, k, w, m, tried) ==
  IF auxNodes[m] = {} THEN Becomes(c, Idle) /\ UNCHANGED may
  ELSE /\ req' = [d \in Request |->
                    IF d = c THEN Counted(k, w, m, tried)
                    ELSE IF w # read /\ req[d].fresh /\ req[d].key = Reached(w, k)
                    THEN Sees(req[d], w) ELSE req[d]]
       /\ may' = IF w = read THEN may
                 ELSE [n \in Master |-> [j \in Key |->
                         may[n][j] \cup IF j = Reached(w, k) THEN {w} ELSE {}]]

Arrives(c, k, w, m) ==
  /\ ~ Open(c)
  /\ m \in running
  /\ CountNodes(c, k, w, m, {m})
  /\ UNCHANGED <<clusterOnly, store, late>>

handleData(c, k, v, m) == Arrives(c, k, v, m)
handleGetRequest(c, k, m) == Arrives(c, k, read, m)
handleDeleteRequest(c, k, m) == Arrives(c, k, Absent, m)

(* Mutant: the empty name is not checked. *)
mutRingGet(c) ==
  /\ req[c].at = "counted"
  /\ Becomes(c, [req[c] EXCEPT !.at = "named", !.name = route[req[c].master][req[c].key]])
  /\ UNCHANGED <<clusterOnly, store, late, may>>

RingGet(c) ==
  /\ req[c].at = "counted"
  /\ LET n == route[req[c].master][req[c].key]
     IN  Becomes(c, IF n = nobody THEN Idle
                    ELSE [req[c] EXCEPT !.at = "named", !.name = n])
  /\ UNCHANGED <<clusterOnly, store, late, may>>

FindNode(c) ==
  /\ req[c].at = "named"
  /\ Becomes(c, IF req[c].name \in auxNodes[req[c].master]
                THEN [req[c] EXCEPT !.at = "sent", !.calm = FALSE] ELSE Idle)
  /\ UNCHANGED <<clusterOnly, store, late, may>>

(* The handler of the node.  When the node redirects a request because of  *)
(* its path, the client of the master follows with a GET, and a DELETE     *)
(* does nothing.                                                           *)
Handled(c) ==
  LET r == req[c]
      k == Reached(r.what, r.key)
  IN  /\ r.at = "sent" /\ Serving(r.name) /\ k # nobody
      /\ \/ r.what # read /\ store' = [store EXCEPT ![r.name][k] = r.what]
         \/ /\ r.what = read \/ (r.what = Absent /\ ~ Plain(r.key))
            /\ UNCHANGED store
      /\ Becomes(c, [r EXCEPT !.at = "handled",
                              !.gave = IF r.what = read THEN store[r.name][k] ELSE Absent])
      /\ UNCHANGED <<clusterOnly, late, may>>

(* The client has its answer.  After a PUT or a DELETE its key, if that is *)
(* the key it reached, is what this one made of it, or another that was    *)
(* not over when it arrived.                                               *)
Settles(r) == r.what # read /\ r.fresh /\ Reached(r.what, r.key) = r.key

Replied(c) ==
  LET r == req[c]
  IN  /\ r.at = "handled"
      /\ Becomes(c, Idle)
      /\ may' = IF ~ Settles(r) THEN may
                ELSE [may EXCEPT ![r.master][r.key] = @ \cap ({r.what} \cup r.seen)]
      /\ UNCHANGED <<clusterOnly, store, late>>

(* Mutant: the client is told that it went well. *)
mutForwardFails(c) ==
  /\ req[c].at \in {"sent", "handled"}
  /\ Becomes(c, Idle)
  /\ may' = IF ~ Settles(req[c]) THEN may
            ELSE [may EXCEPT ![req[c].master][req[c].key] = @ \cap ({req[c].what} \cup req[c].seen)]
  /\ UNCHANGED <<clusterOnly, store, late>>

(* The URL is none, there is no connection, the node refuses, or there is  *)
(* no answer for 5 seconds: an error for the client.                       *)
ForwardFails(c) ==
  /\ req[c].at \in {"sent", "handled"}
  /\ Becomes(c, Idle)
  /\ UNCHANGED <<clusterOnly, store, late, may>>

Forwarded(c) ==
  [to |-> req[c].name, key |-> Reached(req[c].what, req[c].key), value |-> req[c].what]

(* c has been forwarded, and may change a cache after c has ended. *)
Outlives(c) == req[c].at = "sent" /\ Writing(c) /\ Forwarded(c).key # nobody

ForwardGivenUp(c) ==
  /\ Outlives(c)
  /\ Cardinality(late) < MaxLate
  /\ late' = late \cup {Forwarded(c)}
  /\ Becomes(c, Idle)
  /\ UNCHANGED <<clusterOnly, store, may>>

LateHandled ==
  \E p \in late :
    /\ Serving(p.to)
    /\ late' = late \ {p}
    /\ store' = [store EXCEPT ![p.to][p.key] = p.value]
    /\ UNCHANGED <<clusterOnly, req, may>>

(* nginx has lost the connection to the master: it tries each other master *)
(* once (unless the method is POST) or answers with an error.              *)
Retry(c, m) ==
  /\ req[c].at = "lost"
  /\ m \in running \ req[c].tried
  /\ CountNodes(c, req[c].key, req[c].what, m, req[c].tried \cup {m})
  /\ UNCHANGED <<clusterOnly, store, late>>

RetryEnds(c) ==
  /\ req[c].at = "lost"
  /\ Becomes(c, Idle)
  /\ UNCHANGED <<clusterOnly, store, late, may>>

-----------------------------------------------------------------------------
(* Masters and nodes *)

(* The handlers of a crashed master are gone, but what they have forwarded *)
(* may still be carried out.  nginx passes a deregistration on to another  *)
(* master, but not a registration, which is a POST.                        *)
MasterCrashes(m) ==
  LET its == {c \in Request : Open(c) /\ req[c].master = m}
  IN  /\ m \in running /\ Changes
      /\ running' = running \ {m}
      /\ auxNodes' = [auxNodes EXCEPT ![m] = {}]
      /\ ring' = [ring EXCEPT ![m] = {}]
      /\ route' = [route EXCEPT ![m] = [k \in Key |-> nobody]]
      /\ disturbed' = disturbed \ {m}
      /\ \E o \in (running \ {m}) \cup {nobody} :
           edit' = [n \in Node |->
                      IF edit[n].master # m THEN edit[n]
                      ELSE IF edit[n].at \in {"remove", "delete"} /\ o # nobody /\ n \in auxNodes[o]
                      THEN Edit("remove", o) ELSE NoEdit]
      /\ \E S \in SUBSET {c \in its : Outlives(c)} :
           /\ late' = late \cup {Forwarded(c) : c \in S}
           /\ Cardinality(late') <= MaxLate
      /\ req' = [c \in Request |->
                   IF c \in its
                   THEN [Idle EXCEPT !.at = "lost", !.what = req[c].what, !.key = req[c].key,
                                     !.tried = req[c].tried]
                   ELSE req[c]]
      /\ may' = [may EXCEPT ![m] = [k \in Key |-> Content]]
      /\ UNCHANGED <<phase, store, moving>>

MasterStarts(m) ==
  /\ m \notin running
  /\ running' = running \cup {m}
  /\ UNCHANGED <<auxNodes, ring, route, disturbed, phase, edit, store, moving, req, late,
                 changes, may>>

(***************************************************************************)
(* HashRing.Get gives the node of the ring that is next from the key's     *)
(* hash on.  Once a node has been removed it gives any node of the ring,   *)
(* or none; ConsistentHash has the reason, and that this is what it does.  *)
(***************************************************************************)
HashRing == INSTANCE Routing WITH none <- nobody

RingBecomes(m, N) ==
  /\ ring' = [ring EXCEPT ![m] = N]
  /\ \E r \in HashRing!Routes(Distance, N, m \notin disturbed') :
       /\ route' = [route EXCEPT ![m] = r]
       /\ Forgets({<<m, k>> : k \in {j \in Key : r[j] # route[m][j]}}, {m})

(***************************************************************************)
(* A node restores a backup, then registers with the master that nginx     *)
(* picks, once: if that fails it goes on unregistered.  Its handlers begin *)
(* to serve when the registration has been answered or has timed out.      *)
(***************************************************************************)
Starts(n) ==
  /\ phase[n] = "down" /\ edit[n] = NoEdit /\ Changes
  /\ phase' = [phase EXCEPT ![n] = "joining"]
  /\ \E data \in [Key -> Content] : store' = [store EXCEPT ![n] = data]
  /\ \/ UNCHANGED edit
     \/ \E m \in running :
          n \notin auxNodes[m] /\ edit' = [edit EXCEPT ![n] = Edit("add", m)]
  /\ Forgets(Reaching({n}, Key), {})
  /\ UNCHANGED <<running, auxNodes, ring, route, disturbed, moving, late>>

RegisterAdd(n) ==
  LET m == edit[n].master
  IN  /\ edit[n].at = "add"
      /\ edit' = [edit EXCEPT ![n] = Edit("write", m)]
      /\ UNCHANGED disturbed
      /\ RingBecomes(m, ring[m] \cup {n})
      /\ UNCHANGED <<running, auxNodes, phase, store, moving, late, changes>>

RegisterWrite(n) ==
  LET m == edit[n].master
  IN  /\ edit[n].at = "write"
      /\ edit' = [edit EXCEPT ![n] = NoEdit]
      /\ auxNodes' = [auxNodes EXCEPT ![m] = @ \cup {n}]
      /\ Forgets({}, {m})
      /\ UNCHANGED <<running, ring, route, disturbed, phase, store, moving, late, changes>>

Serves(n) ==
  /\ phase[n] = "joining"
  /\ phase' = [phase EXCEPT ![n] = "serving"]
  /\ UNCHANGED <<running, auxNodes, ring, route, disturbed, edit, store, moving, req, late,
                 changes, may>>

(* SIGTERM: it deregisters from the master that nginx picks, which refuses *)
(* if it does not know the node, and goes on serving meanwhile.            *)
Leaves(n) ==
  /\ phase[n] = "serving" /\ edit[n] = NoEdit /\ Changes
  /\ phase' = [phase EXCEPT ![n] = "leaving"]
  /\ \/ UNCHANGED edit
     \/ \E m \in running :
          n \in auxNodes[m] /\ edit' = [edit EXCEPT ![n] = Edit("remove", m)]
  /\ UNCHANGED <<running, auxNodes, ring, route, disturbed, store, moving, req, late,
                 may>>

DeregisterRing(n) ==
  LET m == edit[n].master
  IN  /\ edit[n].at = "remove"
      /\ edit' = [edit EXCEPT ![n] = Edit("delete", m)]
      /\ disturbed' = disturbed \cup {m}
      /\ RingBecomes(m, ring[m] \ {n})
      /\ UNCHANGED <<running, auxNodes, phase, store, moving, late, changes>>

DeregisterDelete(n) ==
  LET m == edit[n].master
  IN  /\ edit[n].at = "delete"
      /\ edit' = [edit EXCEPT ![n] = NoEdit]
      /\ auxNodes' = [auxNodes EXCEPT ![m] = @ \ {n}]
      /\ Forgets({}, {m})
      /\ UNCHANGED <<running, ring, route, disturbed, phase, store, moving, late, changes>>

(* It has shut down, or crashes.  What it has posted to other nodes for a  *)
(* rebalance may yet be stored.                                            *)
Gone(n) ==
  /\ phase' = [phase EXCEPT ![n] = "down"]
  /\ store' = [store EXCEPT ![n] = Nothing]
  /\ late' = {p \in late : p.to # n}
  /\ Forgets(Reaching({n}, Key), {})
  /\ UNCHANGED <<running, auxNodes, ring, route, disturbed, edit, moving>>

Exits(n) == phase[n] = "leaving" /\ UNCHANGED changes /\ Gone(n)

Crashes(n) == phase[n] \in {"joining", "serving"} /\ Changes /\ Gone(n)

(***************************************************************************)
(* triggerRebalance and triggerRestore ask nodes that the master knows.    *)
(* While a node is at it, its entries and those of other nodes may change  *)
(* at any time; Rebalance and BackupRestore have what really happens.      *)
(***************************************************************************)
TriggerMoves(m) ==
  /\ m \in running /\ Changes
  /\ \E S \in SUBSET {n \in auxNodes[m] : Serving(n)} : moving' = moving \cup S
  /\ UNCHANGED <<running, auxNodes, ring, route, disturbed, phase, edit, store, req, late,
                 may>>

MovesKey(n) ==
  /\ n \in moving
  /\ \E t \in Node, k \in Key, v \in Content :
       /\ Serving(t) /\ (t = n \/ v # Absent)
       /\ store' = [store EXCEPT ![t][k] = v]
       /\ Forgets(Reaching({t}, {k}), {})
  /\ UNCHANGED <<running, auxNodes, ring, route, disturbed, phase, edit, moving, late,
                 changes>>

MovesEnd(n) ==
  /\ n \in moving
  /\ moving' = moving \ {n}
  /\ UNCHANGED <<running, auxNodes, ring, route, disturbed, phase, edit, store, req, late,
                 changes, may>>

-----------------------------------------------------------------------------
GoesOn(c) ==
  \/ RingGet(c) \/ FindNode(c) \/ Handled(c) \/ Replied(c)
  \/ ForwardFails(c) \/ ForwardGivenUp(c)
  \/ RetryEnds(c) \/ \E m \in Master : Retry(c, m)

Changed(n) ==
  \/ Starts(n) \/ RegisterAdd(n) \/ RegisterWrite(n) \/ Serves(n)
  \/ Leaves(n) \/ DeregisterRing(n) \/ DeregisterDelete(n) \/ Exits(n) \/ Crashes(n)
  \/ MovesKey(n) \/ MovesEnd(n)

Next ==
  \/ \E c \in Request, k \in Key, m \in Master :
       \/ handleGetRequest(c, k, m) \/ handleDeleteRequest(c, k, m)
       \/ \E v \in Value : handleData(c, k, v, m)
  \/ \E c \in Request : GoesOn(c)
  \/ LateHandled
  \/ \E m \in Master : MasterCrashes(m) \/ MasterStarts(m) \/ TriggerMoves(m)
  \/ \E n \in Node : Changed(n)

Spec == Init /\ [][Next]_vars

-----------------------------------------------------------------------------
Requests == [at : {"idle", "counted", "named", "sent", "handled", "lost"},
             what : Content \cup {read}, key : Key \cup {nobody},
             master : Master \cup {nobody}, tried : SUBSET Master, name : Node \cup {nobody},
             gave : Content, seen : SUBSET Content, fresh : BOOLEAN, calm : BOOLEAN]

RequestOK(r) ==
  /\ r.at # "idle" => r.key \in Key
  /\ r.at \notin {"idle", "lost"} => r.master \in running
  /\ r.at \in {"named", "sent", "handled"} => r.name \in Node

TypeOK ==
  /\ running \subseteq Master
  /\ auxNodes \in [Master -> SUBSET Node]
  /\ ring \in [Master -> SUBSET Node]
  /\ route \in [Master -> [Key -> Node \cup {nobody}]]
  /\ disturbed \subseteq Master
  /\ phase \in [Node -> {"down", "joining", "serving", "leaving"}]
  /\ edit \in [Node -> [at : {"none", "add", "write", "remove", "delete"},
                        master : Master \cup {nobody}]]
  /\ \A n \in Node : edit[n] = NoEdit \/ (edit[n].at # "none" /\ edit[n].master \in running)
  /\ store \in [Node -> [Key -> Content]]
  /\ moving \subseteq Node
  /\ req \in [Request -> Requests]
  /\ \A c \in Request : RequestOK(req[c])
  /\ late \subseteq [to : Node, key : Key, value : Content]
  /\ changes \in 0 .. MaxChanges
  /\ may \in [Master -> [Key -> SUBSET Content]]

(***************************************************************************)
(* What a client may rely on for a key that a URL says as it is.  A GET    *)
(* that is answered gives what the last PUT or DELETE that was answered    *)
(* through the same master made of the key, or one that was not over by    *)
(* then, also a DELETE of another key whose URL says this one, whatever    *)
(* requests interleave, fail or are carried out late.  It is void where    *)
(* the master's ring gives the key another node, where that node starts or *)
(* ends, and where a rebalance or a restore touches the key there.         *)
(***************************************************************************)
Found(c) == req[c].at = "handled" /\ req[c].what = read /\ req[c].fresh

ReadRegular ==
  \A c \in Request : Found(c) /\ Plain(req[c].key) => req[c].gave \in req[c].seen

(***************************************************************************)
(* The three lookups are made at different times (master/main.go 1042-1067 *)
(* and the like).  A request is turned away before it is forwarded only if *)
(* the registry of its master was incomplete when it arrived, or had lost  *)
(* a node before, or was changed while it was being served.                *)
(***************************************************************************)
RefusedOnlyUnsettled ==
  [][\A c \in Request :
       req[c].at \in {"counted", "named"} /\ req'[c] = Idle => ~ req[c].calm]_vars

(***************************************************************************)
(* When no registration is under way, every running master knows the same  *)
(* nodes: README.md 75 has "ZooKeeper for node registration", and after a  *)
(* "Master Node Failure" the "Load balancer routes to healthy masters"     *)
(* (262).  The code breaks it: a node registers with the master that nginx *)
(* picks, once (auxiliary/main.go 626-677), and no master tells another.   *)
(***************************************************************************)
EveryMasterKnows ==
  (\A n \in Node : edit[n] = NoEdit) =>
    \A m1, m2 \in running : auxNodes[m1] = auxNodes[m2]

=============================================================================
