--------------------------- MODULE MasterRegistry ---------------------------
(***************************************************************************)
(* The node registry of one master server (cmd/master/main.go): the map of *)
(* registered cache nodes, the hash ring that requests are routed by, the  *)
(* gauge that monitoring reads, and the goroutines that change them: the   *)
(* handlers of /nodes, the health checks and the triggered rebalances.     *)
(*                                                                         *)
(* The map has a lock, and so has the ring, but a handler takes each of    *)
(* them several times and for one step only.  Every such step is an        *)
(* action, and a goroutine's place between two of them is its job.         *)
(*                                                                         *)
(* The ring is its set of nodes here; module ConsistentHash has the rest.  *)
(* NodeInfo objects have an identity because updateNodeStatus writes to    *)
(* one that it looked up earlier.  The cache nodes and the network are the *)
(* environment: a node may crash, and a probe may fail for a live node.    *)
(***************************************************************************)
EXTENDS Naturals, FiniteSets

CONSTANTS
  NodeId,     \* the cache nodes
  none,       \* no node; no gauge
  Info,       \* NodeInfo objects; one that nothing refers to is used again
  nil,        \* the nil *NodeInfo
  Handler,    \* goroutines that serve /nodes requests
  MaxChecks,  \* bound: health checks of one node that may overlap
  MaxDue      \* bound: waiting rebalances; any more run together with the last

ASSUME RegistryAssumption ==
  /\ none \notin NodeId \cup {"up", "down"}
  /\ nil \notin Info
  /\ IsFiniteSet(Info)
  /\ MaxChecks \in Nat
  /\ MaxDue \in Nat \ {0}
  /\ Handler \cap (NodeId \X (1 .. MaxChecks)) = {}

Status == {"up", "down"}
Checker == NodeId \X (1 .. MaxChecks)
Worker == Handler \cup Checker

VARIABLES
  auxNodes,   \* auxNodes: the NodeInfo of every registered node
  status,     \* NodeInfo.Status
  ringNodes,  \* the nodes of HashRing
  gauge,      \* nodeStatusGauge, none where it has no such label
  job,        \* what every goroutine is about to do
  due,        \* goroutines that are about to run triggerRebalance
  alive,      \* environment: the nodes that are running
  crossed,    \* history: nodes of which two edits have overlapped
  mixed,      \* history: nodes of which any two jobs have overlapped
  asked       \* history: has the node been asked to rebalance since the ring changed?

vars == <<auxNodes, status, ringNodes, gauge, job, due, alive, crossed, mixed, asked>>

Registered == {n \in NodeId : auxNodes[n] # nil}
Up == {n \in Registered : status[auxNodes[n]] = "up"}

Idle == [at |-> "idle", node |-> none, info |-> nil, says |-> "up"]
Edits == {"update", "add", "write", "unring", "delete"}
Places == Edits \cup {"idle", "ungauge", "status", "probe", "healthy", "failed",
                      "gauge", "announce"}
Jobs == [at : Places, node : NodeId \cup {none}, info : Info \cup {nil}, says : Status]

(* No goroutine is at work on n. *)
Quiet(n) == \A w \in Worker : job[w].node # n

Job(place, n, p, s) == [at |-> place, node |-> n, info |-> p, says |-> s]
Becomes(w, j) == job' = [job EXCEPT ![w] = j]
Moves(w, place) == Becomes(w, Job(place, job[w].node, job[w].info, job[w].says))

(* w starts to work on n; the histories record whom it overlaps with. *)
Starts(w, j) ==
  /\ job[w].at = "idle"
  /\ Becomes(w, j)
  /\ mixed' = IF Quiet(j.node) THEN mixed ELSE mixed \cup {j.node}
  /\ crossed' = IF /\ j.at \in Edits
                   /\ \E v \in Worker : job[v].node = j.node /\ job[v].at \in Edits
                THEN crossed \cup {j.node} ELSE crossed

Histories == <<crossed, mixed>>

(* &models.NodeInfo{... Status: up} becomes the entry of n. *)
PutsNewInfo(n) ==
  \E p \in Info :
    /\ \A m \in NodeId : auxNodes[m] # p
    /\ \A w \in Worker : job[w].info # p
    /\ auxNodes' = [auxNodes EXCEPT ![n] = p]
    /\ status' = [status EXCEPT ![p] = "up"]

(* go s.triggerRebalance(...); to run twice in a row is to run once. *)
Spawns == due' = IF due < MaxDue THEN due + 1 ELSE due

RingBecomes(N) ==
  /\ ringNodes' = N
  /\ asked' = IF N = ringNodes THEN asked ELSE [n \in NodeId |-> "no"]

-----------------------------------------------------------------------------
Init ==
  /\ auxNodes = [n \in NodeId |-> nil]
  /\ status = [p \in Info |-> "up"]
  /\ ringNodes = {}
  /\ gauge = [n \in NodeId |-> none]
  /\ job = [w \in Worker |-> Idle]
  /\ due = 0
  /\ alive = NodeId
  /\ crossed = {}
  /\ mixed = {}
  /\ asked = [n \in NodeId |-> "no"]

(* registerNode: the check under the read lock decides the branch. *)
RegisterCheck(h, n) ==
  /\ Starts(h, Job(IF n \in Registered THEN "update" ELSE "add", n, nil, "up"))
  /\ UNCHANGED <<auxNodes, status, ringNodes, gauge, due, alive, asked>>

RegisterUpdate(h) ==
  /\ job[h].at = "update"
  /\ PutsNewInfo(job[h].node)
  /\ Becomes(h, Idle)
  /\ UNCHANGED <<ringNodes, gauge, due, alive, Histories, asked>>

RegisterAdd(h) ==
  /\ job[h].at = "add"
  /\ RingBecomes(ringNodes \cup {job[h].node})
  /\ Moves(h, "write")
  /\ UNCHANGED <<auxNodes, status, gauge, due, alive, Histories>>

mutRegisterWrite(h) ==  \* the gauge of a new node is forgotten, and its rebalance
  /\ job[h].at = "write"
  /\ PutsNewInfo(job[h].node)
  /\ Becomes(h, Idle)
  /\ UNCHANGED <<ringNodes, gauge, due, alive, Histories, asked>>

RegisterWrite(h) ==
  /\ job[h].at = "write"
  /\ PutsNewInfo(job[h].node)
  /\ Moves(h, "announce")
  /\ UNCHANGED <<ringNodes, gauge, due, alive, Histories, asked>>

(* deregisterNode; a node that is not registered is refused at once. *)
DeregisterCheck(h, n) ==
  /\ n \in Registered
  /\ Starts(h, Job("unring", n, nil, "up"))
  /\ UNCHANGED <<auxNodes, status, ringNodes, gauge, due, alive, asked>>

mutDeregisterRing(h) ==  \* the node stays in the ring
  /\ job[h].at = "unring"
  /\ Moves(h, "delete")
  /\ UNCHANGED <<auxNodes, status, ringNodes, gauge, due, alive, Histories, asked>>

DeregisterRing(h) ==
  /\ job[h].at = "unring"
  /\ RingBecomes(ringNodes \ {job[h].node})
  /\ Moves(h, "delete")
  /\ UNCHANGED <<auxNodes, status, gauge, due, alive, Histories>>

DeregisterDelete(h) ==
  /\ job[h].at = "delete"
  /\ auxNodes' = [auxNodes EXCEPT ![job[h].node] = nil]
  /\ Moves(h, "ungauge")
  /\ UNCHANGED <<status, ringNodes, gauge, due, alive, Histories, asked>>

mutDeregisterGauge(h) ==  \* the label is kept
  /\ job[h].at = "ungauge"
  /\ Spawns
  /\ Becomes(h, Idle)
  /\ UNCHANGED <<auxNodes, status, ringNodes, gauge, alive, Histories, asked>>

DeregisterGauge(h) ==
  /\ job[h].at = "ungauge"
  /\ gauge' = [gauge EXCEPT ![job[h].node] = none]
  /\ Spawns
  /\ Becomes(h, Idle)
  /\ UNCHANGED <<auxNodes, status, ringNodes, alive, Histories, asked>>

(* updateNodeStatus; the NodeInfo it has found may have left the map when  *)
(* it writes to it.                                                        *)
mutStatusCheck(h, n, s) ==  \* an unknown node is not refused
  /\ Starts(h, Job("status", n, auxNodes[n], s))
  /\ UNCHANGED <<auxNodes, status, ringNodes, gauge, due, alive, asked>>

StatusCheck(h, n, s) ==
  /\ n \in Registered
  /\ Starts(h, Job("status", n, auxNodes[n], s))
  /\ UNCHANGED <<auxNodes, status, ringNodes, gauge, due, alive, asked>>

StatusWrite(h) ==
  /\ job[h].at = "status"
  /\ status' = [status EXCEPT ![job[h].info] = job[h].says]
  /\ Moves(h, "gauge")
  /\ UNCHANGED <<auxNodes, ringNodes, gauge, due, alive, Histories, asked>>

(* The Set of the gauge that ends most jobs; registering a new node and    *)
(* losing one also start a rebalance.                                      *)
SetGauge(w) ==
  /\ job[w].at \in {"gauge", "announce"}
  /\ gauge' = [gauge EXCEPT ![job[w].node] = job[w].says]
  /\ IF job[w].at = "announce" THEN Spawns ELSE UNCHANGED due
  /\ Becomes(w, Idle)
  /\ UNCHANGED <<auxNodes, status, ringNodes, alive, Histories, asked>>

-----------------------------------------------------------------------------
(* checkAllNodes starts a check of every registered node. *)
CheckStart(c) ==
  /\ c[1] \in Registered
  /\ Starts(c, Job("probe", c[1], nil, "up"))
  /\ UNCHANGED <<auxNodes, status, ringNodes, gauge, due, alive, asked>>

(* The answer of a running node always says "up". *)
CheckAnswered(c) ==
  /\ job[c].at = "probe"
  /\ c[1] \in alive
  /\ Moves(c, "healthy")
  /\ UNCHANGED <<auxNodes, status, ringNodes, gauge, due, alive, Histories, asked>>

(* No connection, an error, or no answer within 5 seconds. *)
mutCheckFailed(c) ==  \* no timeout: a probe waits as long as it takes
  /\ job[c].at = "probe"
  /\ c[1] \in alive
  /\ Moves(c, "failed")
  /\ UNCHANGED <<auxNodes, status, ringNodes, gauge, due, alive, Histories, asked>>

CheckFailed(c) ==
  /\ job[c].at = "probe"
  /\ Moves(c, "failed")
  /\ UNCHANGED <<auxNodes, status, ringNodes, gauge, due, alive, Histories, asked>>

CheckUp(c) ==
  /\ job[c].at = "healthy"
  /\ status' = IF c[1] \in Registered THEN [status EXCEPT ![auxNodes[c[1]]] = "up"]
               ELSE status
  /\ Moves(c, "gauge")
  /\ UNCHANGED <<auxNodes, ringNodes, gauge, due, alive, Histories, asked>>

markNodeDown(c) ==
  /\ job[c].at = "failed"
  /\ IF c[1] \in Registered
     THEN /\ status' = [status EXCEPT ![auxNodes[c[1]]] = "down"]
          /\ Becomes(c, Job(IF c[1] \in Up THEN "announce" ELSE "gauge", c[1], nil, "down"))
     ELSE Becomes(c, Idle) /\ UNCHANGED status
  /\ UNCHANGED <<auxNodes, ringNodes, gauge, due, alive, Histories, asked>>

-----------------------------------------------------------------------------
(* handleRebalance, and the rebalance that ends triggerRestore *)
ManualRebalance ==
  /\ Spawns
  /\ UNCHANGED <<auxNodes, status, ringNodes, gauge, job, alive, Histories, asked>>

(* It asks every node that is up when it reads the registry. *)
mutTriggerRebalance ==  \* as long as some node is down, none is asked
  /\ due > 0
  /\ due' = due - 1
  /\ asked' = IF Up = Registered THEN [n \in NodeId |-> IF n \in Up THEN "yes" ELSE asked[n]]
              ELSE asked
  /\ UNCHANGED <<auxNodes, status, ringNodes, gauge, job, alive, Histories>>

triggerRebalance ==
  /\ due > 0
  /\ due' = due - 1
  /\ asked' = [n \in NodeId |->
                 IF n \in Up THEN "yes"
                 ELSE IF n \in Registered /\ asked[n] = "no" THEN "skipped"
                 ELSE asked[n]]
  /\ UNCHANGED <<auxNodes, status, ringNodes, gauge, job, alive, Histories>>

Crash(n) ==
  /\ n \in alive
  /\ alive' = alive \ {n}
  /\ UNCHANGED <<auxNodes, status, ringNodes, gauge, job, due, Histories, asked>>

Restart(n) ==
  /\ n \notin alive
  /\ alive' = alive \cup {n}
  /\ UNCHANGED <<auxNodes, status, ringNodes, gauge, job, due, Histories, asked>>

Serves(h) ==
  \/ RegisterUpdate(h) \/ RegisterAdd(h) \/ RegisterWrite(h)
  \/ DeregisterRing(h) \/ DeregisterDelete(h) \/ DeregisterGauge(h)
  \/ StatusWrite(h) \/ SetGauge(h)

Checks(c) ==
  CheckAnswered(c) \/ CheckFailed(c) \/ CheckUp(c) \/ markNodeDown(c) \/ SetGauge(c)

Next ==
  \/ \E h \in Handler, n \in NodeId :
       \/ RegisterCheck(h, n) \/ DeregisterCheck(h, n)
       \/ \E s \in Status : StatusCheck(h, n, s)
  \/ \E h \in Handler : Serves(h)
  \/ \E c \in Checker : CheckStart(c) \/ Checks(c)
  \/ ManualRebalance \/ triggerRebalance
  \/ \E n \in NodeId : Crash(n) \/ Restart(n)

Spec == Init /\ [][Next]_vars

(***************************************************************************)
(* Goroutines are scheduled, the ticker of runHealthChecks goes on, and a  *)
(* probe ends within its timeout.  Nothing is assumed of clients, of nodes *)
(* or of what a probe of a live node yields.                               *)
(***************************************************************************)
Fairness ==
  /\ \A h \in Handler : WF_vars(Serves(h))
  /\ \A c \in Checker : WF_vars(CheckStart(c)) /\ WF_vars(Checks(c))
  /\ WF_vars(triggerRebalance)

FairSpec == Spec /\ Fairness

-----------------------------------------------------------------------------
JobOK(w, j) ==
  /\ (j.at = "idle") <=> (j.node = none)
  /\ j.at = "status" => j.info # nil
  /\ w \in Checker /\ j.at # "idle" => j.node = w[1]

TypeOK ==
  /\ auxNodes \in [NodeId -> Info \cup {nil}]
  /\ status \in [Info -> Status]
  /\ ringNodes \subseteq NodeId
  /\ gauge \in [NodeId -> Status \cup {none}]
  /\ job \in [Worker -> Jobs]
  /\ \A w \in Worker : JobOK(w, job[w])
  /\ due \in 0 .. MaxDue
  /\ alive \subseteq NodeId
  /\ crossed \subseteq NodeId
  /\ mixed \subseteq NodeId
  /\ asked \in [NodeId -> {"yes", "skipped", "no"}]

(***************************************************************************)
(* The map and the ring are changed under two locks, one after the other.  *)
(* As long as no two registrations or deregistrations of a node overlap,   *)
(* it is routed to exactly if it is registered once they are over, however *)
(* they interleave with those of other nodes, with status updates and with *)
(* health checks (main.go 663-708, 765-788).                               *)
(***************************************************************************)
RegistryMatchesRing ==
  \A n \in NodeId \ crossed : Quiet(n) => (n \in ringNodes <=> n \in Registered)

(***************************************************************************)
(* The gauge is set without any lock.  As long as no two jobs of a node    *)
(* overlap, it has a label for the node exactly if the node is registered  *)
(* once they are over (main.go 702, 783, 302-306, 828-832).                *)
(***************************************************************************)
GaugeForRegistered ==
  \A n \in NodeId \ mixed : Quiet(n) => (gauge[n] # none <=> n \in Registered)

(***************************************************************************)
(* Every change of the ring is followed by a rebalance that considers each *)
(* registered node: when everything has come to rest, each of them has     *)
(* been asked to move its data since, or was passed over because it was    *)
(* down (main.go 462-519, 707, 788).                                       *)
(***************************************************************************)
RebalanceFollowsChange ==
  (due = 0 /\ \A n \in NodeId : Quiet(n)) =>
    \A n \in Registered \ crossed : asked[n] # "no"

(***************************************************************************)
(* A node that has crashed for good and stays registered is marked down,   *)
(* again and again if clients or late answers say otherwise (251-332).     *)
(***************************************************************************)
CrashDetected ==
  \A n \in NodeId :
    <>[](n \notin alive /\ n \in Registered) => []<>(n \in Registered \ Up)

(***************************************************************************)
(* What the documentation promises: "Concurrent request handling with      *)
(* proper synchronization" (README.md 16).  The registry and the ring      *)
(* agree at rest, whatever requests have overlapped.                       *)
(***************************************************************************)
RegistryAlwaysMatchesRing ==
  \A n \in NodeId : Quiet(n) => (n \in ringNodes <=> n \in Registered)

=============================================================================
