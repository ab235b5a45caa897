------------------------ MODULE MasterRegistryProofs ------------------------
(***************************************************************************)
(* Proofs about MasterRegistry, for any number of nodes, handlers and      *)
(* overlapping health checks.                                              *)
(***************************************************************************)
EXTENDS MasterRegistry, TLAPS

Editor(w, n) == job[w].node = n /\ job[w].at \in Edits

(* Where the one goroutine that edits n is, and what it has done so far.   *)
EditStage(w, n) ==
  /\ job[w].at \in {"update", "unring"} => n \in Registered /\ n \in ringNodes
  /\ job[w].at = "add" => n \notin Registered /\ n \notin ringNodes
  /\ job[w].at = "write" => n \notin Registered /\ n \in ringNodes
  /\ job[w].at = "delete" => n \in Registered /\ n \notin ringNodes

NodeOK(n) ==
  /\ \A v, w \in Worker : Editor(v, n) /\ Editor(w, n) => v = w
  /\ \A w \in Worker : Editor(w, n) => EditStage(w, n)
  /\ (\A w \in Worker : ~ Editor(w, n)) => (n \in Registered <=> n \in ringNodes)

EditsOK == \A n \in NodeId \ crossed : NodeOK(n)

RegistryInv == TypeOK /\ EditsOK

-----------------------------------------------------------------------------
(* Types *)

LEMMA CheckerNode ==
  ASSUME NEW c \in Checker
  PROVE  c \in Worker /\ c[1] \in NodeId
BY DEF Checker, Worker

LEMMA HandlerWorker ==
  ASSUME NEW h \in Handler
  PROVE  h \in Worker /\ h \notin Checker
BY RegistryAssumption DEF Checker, Worker

JobsOK ==
  /\ job \in [Worker -> Jobs]
  /\ \A w \in Worker : JobOK(w, job[w])

LEMMA JobsStayOK ==
  ASSUME JobsOK, NEW w \in Worker, NEW j \in Jobs, JobOK(w, j), Becomes(w, j)
  PROVE  JobsOK'
<1>1. job' \in [Worker -> Jobs] /\ \A v \in Worker : job'[v] = IF v = w THEN j ELSE job[v]
  BY DEF JobsOK, Becomes
<1>2. \A v \in Worker : JobOK(v, job'[v])
  BY <1>1 DEF JobsOK
<1> QED
  BY <1>1, <1>2 DEF JobsOK, JobOK

LEMMA IdleOK ==
  ASSUME NEW w \in Worker
  PROVE  Idle \in Jobs /\ JobOK(w, Idle)
BY DEF Idle, Jobs, JobOK, Places, Edits, Status

(* The same node, info and status at another place. *)
LEMMA MovesOK ==
  ASSUME JobsOK, NEW w \in Worker, job[w].at # "idle",
         NEW place \in Places \ {"idle", "status"}, Moves(w, place)
  PROVE  JobsOK'
<1> DEFINE j == Job(place, job[w].node, job[w].info, job[w].says)
<1>1. job[w] \in Jobs /\ JobOK(w, job[w])
  BY DEF JobsOK
<1>2. j \in Jobs /\ JobOK(w, j)
  BY <1>1 DEF Job, Jobs, JobOK
<1> QED
  BY <1>2, JobsStayOK DEF Moves

LEMMA StartsOK ==
  ASSUME TypeOK, NEW w \in Worker, NEW n \in NodeId, NEW s \in Status,
         NEW place \in Places \ {"idle"}, NEW p \in Info \cup {nil},
         place = "status" => p # nil, w \in Checker => n = w[1],
         Starts(w, Job(place, n, p, s))
  PROVE  JobsOK' /\ crossed' \subseteq NodeId /\ mixed' \subseteq NodeId
<1> DEFINE j == Job(place, n, p, s)
<1>1. j \in Jobs /\ JobOK(w, j) /\ j.node = n
  BY RegistryAssumption DEF Job, Jobs, JobOK
<1>2. JobsOK'
  BY <1>1, JobsStayOK DEF Starts, TypeOK, JobsOK
<1> QED
  BY <1>1, <1>2 DEF Starts, TypeOK

LEMMA PutsNewInfoOK ==
  ASSUME TypeOK, NEW n \in NodeId, PutsNewInfo(n)
  PROVE  /\ auxNodes' \in [NodeId -> Info \cup {nil}]
         /\ status' \in [Info -> Status]
         /\ Registered' = Registered \cup {n}
<1>1. PICK p \in Info : /\ auxNodes' = [auxNodes EXCEPT ![n] = p]
                        /\ status' = [status EXCEPT ![p] = "up"]
  BY DEF PutsNewInfo
<1>2. /\ auxNodes' \in [NodeId -> Info \cup {nil}]
      /\ \A m \in NodeId : auxNodes'[m] = IF m = n THEN p ELSE auxNodes[m]
  BY <1>1 DEF TypeOK
<1>3. status' \in [Info -> Status]
  BY <1>1 DEF TypeOK, Status
<1>4. Registered' = Registered \cup {n}
  BY <1>2, RegistryAssumption DEF Registered
<1> QED
  BY <1>2, <1>3, <1>4

LEMMA RingBecomesOK ==
  ASSUME TypeOK, NEW N \in SUBSET NodeId, RingBecomes(N)
  PROVE  /\ ringNodes' = N
         /\ asked' \in [NodeId -> {"yes", "skipped", "no"}]
BY DEF TypeOK, RingBecomes

LEMMA SpawnsOK ==
  ASSUME due \in 0 .. MaxDue, Spawns
  PROVE  due' \in 0 .. MaxDue
BY RegistryAssumption DEF Spawns

(* A worker that is not idle has a node. *)
LEMMA BusyNode ==
  ASSUME TypeOK, NEW w \in Worker, job[w].at # "idle"
  PROVE  /\ job[w] \in Jobs
         /\ job[w].node \in NodeId
         /\ job[w].at = "status" => job[w].info \in Info
         /\ w \in Checker => job[w].node = w[1]
BY DEF TypeOK, Jobs, JobOK

-----------------------------------------------------------------------------
LEMMA TypeInit == Init => TypeOK
<1> SUFFICES ASSUME Init PROVE TypeOK
  OBVIOUS
<1>1. \A w \in Worker : Idle \in Jobs /\ JobOK(w, Idle)
  BY IdleOK
<1> QED
  BY <1>1, RegistryAssumption DEF Init, TypeOK, Status

LEMMA StartTyped ==
  ASSUME TypeOK, NEW h \in Handler, NEW n \in NodeId,
         \/ RegisterCheck(h, n) \/ DeregisterCheck(h, n)
         \/ \E s \in Status : StatusCheck(h, n, s)
  PROVE  TypeOK'
<1> h \in Worker /\ h \notin Checker
  BY HandlerWorker
<1>1. CASE RegisterCheck(h, n)
  <2> DEFINE place == IF n \in Registered THEN "update" ELSE "add"
  <2>1. place \in Places \ {"idle", "status"} /\ "up" \in Status
    BY DEF Places, Edits, Status
  <2>2. JobsOK' /\ crossed' \subseteq NodeId /\ mixed' \subseteq NodeId
    BY <1>1, <2>1, StartsOK DEF RegisterCheck
  <2> QED
    BY <1>1, <2>2 DEF RegisterCheck, TypeOK, JobsOK
<1>2. CASE DeregisterCheck(h, n)
  <2>1. "unring" \in Places \ {"idle", "status"} /\ "up" \in Status
    BY DEF Places, Edits, Status
  <2>2. JobsOK' /\ crossed' \subseteq NodeId /\ mixed' \subseteq NodeId
    BY <1>2, <2>1, StartsOK DEF DeregisterCheck
  <2> QED
    BY <1>2, <2>2 DEF DeregisterCheck, TypeOK, JobsOK
<1>3. ASSUME NEW s \in Status, StatusCheck(h, n, s) PROVE TypeOK'
  <2>1. "status" \in Places \ {"idle"}
    BY DEF Places, Edits
  <2>2. auxNodes[n] \in Info /\ auxNodes[n] # nil
    BY <1>3 DEF StatusCheck, Registered, TypeOK
  <2>3. JobsOK' /\ crossed' \subseteq NodeId /\ mixed' \subseteq NodeId
    BY <1>3, <2>1, <2>2, StartsOK DEF StatusCheck
  <2> QED
    BY <1>3, <2>3 DEF StatusCheck, TypeOK, JobsOK
<1> QED
  BY <1>1, <1>2, <1>3

LEMMA ServesTyped ==
  ASSUME TypeOK, NEW w \in Worker, Serves(w)
  PROVE  TypeOK'
<1> DEFINE n == job[w].node
<1>0. job[w].at # "idle"
  BY DEF Serves, RegisterUpdate, RegisterAdd, RegisterWrite, DeregisterRing,
         DeregisterDelete, DeregisterGauge, StatusWrite, SetGauge
<1>1. /\ job[w] \in Jobs
      /\ n \in NodeId
      /\ job[w].at = "status" => job[w].info \in Info
      /\ JobsOK
      /\ Idle \in Jobs /\ JobOK(w, Idle)
  BY <1>0, BusyNode, IdleOK DEF TypeOK, JobsOK
<1>2. {"write", "announce", "delete", "ungauge", "gauge"} \subseteq Places \ {"idle", "status"}
  BY DEF Places, Edits
<1>3. CASE RegisterUpdate(w)
  <2>1. JobsOK'
    BY <1>1, <1>3, JobsStayOK DEF RegisterUpdate
  <2>2. auxNodes' \in [NodeId -> Info \cup {nil}] /\ status' \in [Info -> Status]
    BY <1>1, <1>3, PutsNewInfoOK DEF RegisterUpdate
  <2> QED
    BY <1>3, <2>1, <2>2 DEF RegisterUpdate, Histories, TypeOK, JobsOK
<1>4. CASE RegisterAdd(w)
  <2>1. JobsOK'
    BY <1>0, <1>1, <1>2, <1>4, MovesOK DEF RegisterAdd
  <2>2. ringNodes \cup {n} \in SUBSET NodeId
    BY <1>1 DEF TypeOK
  <2>3. ringNodes' \subseteq NodeId /\ asked' \in [NodeId -> {"yes", "skipped", "no"}]
    BY <1>4, <2>2, RingBecomesOK DEF RegisterAdd
  <2> QED
    BY <1>4, <2>1, <2>3 DEF RegisterAdd, Histories, TypeOK, JobsOK
<1>5. CASE RegisterWrite(w)
  <2>1. JobsOK'
    BY <1>0, <1>1, <1>2, <1>5, MovesOK DEF RegisterWrite
  <2>2. auxNodes' \in [NodeId -> Info \cup {nil}] /\ status' \in [Info -> Status]
    BY <1>1, <1>5, PutsNewInfoOK DEF RegisterWrite
  <2> QED
    BY <1>5, <2>1, <2>2 DEF RegisterWrite, Histories, TypeOK, JobsOK
<1>6. CASE DeregisterRing(w)
  <2>1. JobsOK'
    BY <1>0, <1>1, <1>2, <1>6, MovesOK DEF DeregisterRing
  <2>2. ringNodes \ {n} \in SUBSET NodeId
    BY DEF TypeOK
  <2>3. ringNodes' \subseteq NodeId /\ asked' \in [NodeId -> {"yes", "skipped", "no"}]
    BY <1>6, <2>2, RingBecomesOK DEF DeregisterRing
  <2> QED
    BY <1>6, <2>1, <2>3 DEF DeregisterRing, Histories, TypeOK, JobsOK
<1>7. CASE DeregisterDelete(w)
  <2>1. JobsOK'
    BY <1>0, <1>1, <1>2, <1>7, MovesOK DEF DeregisterDelete
  <2>2. auxNodes' \in [NodeId -> Info \cup {nil}]
    BY <1>7 DEF DeregisterDelete, TypeOK
  <2> QED
    BY <1>7, <2>1, <2>2 DEF DeregisterDelete, Histories, TypeOK, JobsOK
<1>8. CASE DeregisterGauge(w)
  <2>1. JobsOK'
    BY <1>1, <1>8, JobsStayOK DEF DeregisterGauge
  <2>2. due' \in 0 .. MaxDue
    BY <1>8, SpawnsOK DEF DeregisterGauge, TypeOK
  <2>3. gauge' \in [NodeId -> Status \cup {none}]
    BY <1>8 DEF DeregisterGauge, TypeOK
  <2> QED
    BY <1>8, <2>1, <2>2, <2>3 DEF DeregisterGauge, Histories, TypeOK, JobsOK
<1>9. CASE StatusWrite(w)
  <2>1. JobsOK'
    BY <1>0, <1>1, <1>2, <1>9, MovesOK DEF StatusWrite
  <2>2. job[w].says \in Status
    BY <1>1 DEF Jobs
  <2>3. status' \in [Info -> Status]
    BY <1>9, <2>2 DEF StatusWrite, TypeOK
  <2> QED
    BY <1>9, <2>1, <2>3 DEF StatusWrite, Histories, TypeOK, JobsOK
<1>10. CASE SetGauge(w)
  <2>1. JobsOK'
    BY <1>1, <1>10, JobsStayOK DEF SetGauge
  <2>2. due' \in 0 .. MaxDue
    BY <1>10, SpawnsOK DEF SetGauge, TypeOK
  <2>3. job[w].says \in Status
    BY <1>1 DEF Jobs
  <2>4. gauge' \in [NodeId -> Status \cup {none}]
    BY <1>10, <2>3 DEF SetGauge, TypeOK
  <2> QED
    BY <1>10, <2>1, <2>2, <2>4 DEF SetGauge, Histories, TypeOK, JobsOK
<1> QED
  BY <1>3, <1>4, <1>5, <1>6, <1>7, <1>8, <1>9, <1>10 DEF Serves

LEMMA ChecksTyped ==
  ASSUME TypeOK, NEW c \in Checker, CheckStart(c) \/ Checks(c)
  PROVE  TypeOK'
<1>1. c \in Worker /\ c[1] \in NodeId
  BY CheckerNode
<1>2. JobsOK /\ Idle \in Jobs /\ JobOK(c, Idle)
  BY <1>1, IdleOK DEF TypeOK, JobsOK
<1>3. {"probe", "healthy", "failed", "gauge"} \subseteq Places \ {"idle", "status"}
  BY DEF Places, Edits
<1>4. CASE CheckStart(c)
  <2>1. JobsOK' /\ crossed' \subseteq NodeId /\ mixed' \subseteq NodeId
    BY <1>1, <1>3, <1>4, StartsOK DEF CheckStart, Status
  <2> QED
    BY <1>4, <2>1 DEF CheckStart, TypeOK, JobsOK
<1>5. CASE CheckAnswered(c)
  <2>1. JobsOK'
    BY <1>1, <1>2, <1>3, <1>5, MovesOK DEF CheckAnswered
  <2> QED
    BY <1>5, <2>1 DEF CheckAnswered, Histories, TypeOK, JobsOK
<1>6. CASE CheckFailed(c)
  <2>1. JobsOK'
    BY <1>1, <1>2, <1>3, <1>6, MovesOK DEF CheckFailed
  <2> QED
    BY <1>6, <2>1 DEF CheckFailed, Histories, TypeOK, JobsOK
<1>7. CASE CheckUp(c)
  <2>1. JobsOK'
    BY <1>1, <1>2, <1>3, <1>7, MovesOK DEF CheckUp
  <2>2. status' \in [Info -> Status]
    BY <1>7 DEF CheckUp, TypeOK, Status
  <2> QED
    BY <1>7, <2>1, <2>2 DEF CheckUp, Histories, TypeOK, JobsOK
<1>8. CASE markNodeDown(c)
  <2> DEFINE j == Job(IF c[1] \in Up THEN "announce" ELSE "gauge", c[1], nil, "down")
  <2>1. j \in Jobs /\ JobOK(c, j)
    BY <1>1, RegistryAssumption DEF Job, Jobs, JobOK, Places, Edits, Status
  <2>2. JobsOK'
    BY <1>1, <1>2, <1>8, <2>1, JobsStayOK DEF markNodeDown
  <2>3. status' \in [Info -> Status]
    BY <1>8 DEF markNodeDown, TypeOK, Status
  <2> QED
    BY <1>8, <2>2, <2>3 DEF markNodeDown, Histories, TypeOK, JobsOK
<1>9. CASE SetGauge(c)
  BY <1>1, <1>9, ServesTyped DEF Serves
<1> QED
  BY <1>4, <1>5, <1>6, <1>7, <1>8, <1>9 DEF Checks

LEMMA TypeStep == TypeOK /\ [Next]_vars => TypeOK'
<1> SUFFICES ASSUME TypeOK, [Next]_vars PROVE TypeOK'
  OBVIOUS
<1>1. CASE \E h \in Handler, n \in NodeId :
             \/ RegisterCheck(h, n) \/ DeregisterCheck(h, n)
             \/ \E s \in Status : StatusCheck(h, n, s)
  BY <1>1, StartTyped
<1>2. CASE \E h \in Handler : Serves(h)
  BY <1>2, HandlerWorker, ServesTyped
<1>3. CASE \E c \in Checker : CheckStart(c) \/ Checks(c)
  BY <1>3, ChecksTyped
<1>4. CASE ManualRebalance
  BY <1>4, SpawnsOK DEF ManualRebalance, Histories, TypeOK
<1>5. CASE triggerRebalance
  <2>1. due' \in 0 .. MaxDue
    BY <1>5, RegistryAssumption DEF triggerRebalance, TypeOK
  <2>2. asked' \in [NodeId -> {"yes", "skipped", "no"}]
    BY <1>5 DEF triggerRebalance, TypeOK
  <2> QED
    BY <1>5, <2>1, <2>2 DEF triggerRebalance, Histories, TypeOK
<1>6. CASE \E n \in NodeId : Crash(n) \/ Restart(n)
  BY <1>6 DEF Crash, Restart, Histories, TypeOK
<1>7. CASE UNCHANGED vars
  BY <1>7 DEF vars, TypeOK
<1> QED
  BY <1>1, <1>2, <1>3, <1>4, <1>5, <1>6, <1>7 DEF Next

(* Every variable keeps its type, for any number of nodes and goroutines.  *)
THEOREM RegistryTypeCorrect == Spec => []TypeOK
BY TypeInit, TypeStep, PTL DEF Spec

-----------------------------------------------------------------------------
(* The map and the ring *)

(* What a step may do to n without touching the edits of n.                *)
LEMMA EditsUntouched ==
  ASSUME NEW n \in NodeId, NodeOK(n),
         \A w \in Worker : /\ Editor(w, n)' <=> Editor(w, n)
                           /\ Editor(w, n) => job'[w].at = job[w].at,
         n \in Registered' <=> n \in Registered,
         n \in ringNodes' <=> n \in ringNodes
  PROVE  NodeOK(n)'
BY DEF NodeOK, EditStage

(* A worker that edits n alone moves on to another stage, or stops.        *)
LEMMA EditGoesOn ==
  ASSUME NEW n \in NodeId, NodeOK(n), NEW u \in Worker, Editor(u, n),
         \A v \in Worker \ {u} : job'[v] = job[v],
         Editor(u, n)' => EditStage(u, n)',
         ~ Editor(u, n)' => (n \in Registered' <=> n \in ringNodes')
  PROVE  NodeOK(n)'
<1>1. \A v \in Worker \ {u} : ~ Editor(v, n) /\ ~ Editor(v, n)'
  BY DEF NodeOK, Editor
<1> QED
  BY <1>1 DEF NodeOK

LEMMA JobSteps ==
  ASSUME TypeOK, NEW w \in Worker, NEW j, Becomes(w, j)
  PROVE  \A v \in Worker : job'[v] = IF v = w THEN j ELSE job[v]
BY DEF TypeOK, Becomes

(* Starting on n: no other worker edits it, or it has become crossed.      *)
LEMMA EditStarts ==
  ASSUME RegistryInv, NEW w \in Worker, NEW j, Starts(w, j),
         UNCHANGED <<auxNodes, ringNodes>>,
         j.at \in Edits =>
           \/ j.at \in {"update", "unring"} /\ j.node \in Registered
           \/ j.at = "add" /\ j.node \notin Registered
  PROVE  EditsOK'
<1>1. \A v \in Worker : job'[v] = IF v = w THEN j ELSE job[v]
  BY JobSteps DEF Starts, RegistryInv
<1>2. \A n : ~ Editor(w, n)
  BY DEF Starts, Editor, Edits
<1>3. Registered' = Registered
  BY DEF Registered
<1>4. crossed \subseteq crossed'
  BY DEF Starts
<1> SUFFICES ASSUME NEW n \in NodeId, n \notin crossed' PROVE NodeOK(n)'
  BY DEF EditsOK
<1>5. NodeOK(n)
  BY <1>4 DEF RegistryInv, EditsOK
<1>6. CASE j.node = n /\ j.at \in Edits
  <2>1. \A v \in Worker : ~ Editor(v, n)
    BY <1>6 DEF Starts, Editor
  <2>2. n \in Registered <=> n \in ringNodes
    BY <1>5, <2>1 DEF NodeOK
  <2>3. \A v \in Worker : Editor(v, n)' => v = w
    BY <1>1, <2>1 DEF Editor
  <2>4. EditStage(w, n)' /\ Editor(w, n)'
    BY <1>1, <1>3, <1>6, <2>2 DEF EditStage, Editor
  <2> QED
    BY <2>3, <2>4 DEF NodeOK
<1>7. CASE ~ (j.node = n /\ j.at \in Edits)
  <2>1. \A v \in Worker : /\ Editor(v, n)' <=> Editor(v, n)
                          /\ Editor(v, n) => job'[v].at = job[v].at
    BY <1>1, <1>2, <1>7 DEF Editor
  <2> QED
    BY <1>3, <1>5, <2>1, EditsUntouched
<1> QED
  BY <1>6, <1>7

(* A step of w's job that is not an edit, and does not become one. *)
LEMMA NoEdit ==
  ASSUME RegistryInv, NEW w \in Worker, NEW j, Becomes(w, j),
         job[w].at \notin Edits, j.at \notin Edits,
         UNCHANGED <<auxNodes, ringNodes, crossed>>
  PROVE  EditsOK'
<1>1. \A v \in Worker : job'[v] = IF v = w THEN j ELSE job[v]
  BY JobSteps DEF RegistryInv
<1>2. Registered' = Registered
  BY DEF Registered
<1> SUFFICES ASSUME NEW n \in NodeId \ crossed PROVE NodeOK(n)'
  BY DEF EditsOK
<1>3. NodeOK(n)
  BY DEF RegistryInv, EditsOK
<1>4. \A v \in Worker : /\ Editor(v, n)' <=> Editor(v, n)
                        /\ Editor(v, n) => job'[v].at = job[v].at
  BY <1>1 DEF Editor
<1> QED
  BY <1>2, <1>3, <1>4, EditsUntouched

(* A step of w's edit of one node: other nodes do not notice.              *)
LEMMA OneEdit ==
  ASSUME RegistryInv, NEW w \in Worker, NEW j, Becomes(w, j),
         job[w].at \in Edits,
         j.node = job[w].node \/ j.at \notin Edits,
         UNCHANGED crossed,
         \A m \in NodeId \ {job[w].node} :
           (m \in Registered' <=> m \in Registered) /\ (m \in ringNodes' <=> m \in ringNodes),
         LET n == job[w].node
         IN  EditStage(w, n) =>
               IF j.at \in Edits THEN EditStage(w, n)'
               ELSE n \in Registered' <=> n \in ringNodes'
  PROVE  EditsOK'
<1> DEFINE e == job[w].node
<1>1. \A v \in Worker : job'[v] = IF v = w THEN j ELSE job[v]
  BY JobSteps DEF RegistryInv
<1> SUFFICES ASSUME NEW n \in NodeId \ crossed PROVE NodeOK(n)'
  BY DEF EditsOK
<1>2. NodeOK(n)
  BY DEF RegistryInv, EditsOK
<1>3. CASE n = e
  <2>1. Editor(w, n) /\ EditStage(w, n)
    BY <1>2, <1>3 DEF NodeOK, Editor
  <2>2. Editor(w, n)' <=> j.at \in Edits
    BY <1>1, <1>3 DEF Editor
  <2> QED
    BY <1>1, <1>2, <1>3, <2>1, <2>2, EditGoesOn
<1>4. CASE n # e
  <2>1. \A v \in Worker : /\ Editor(v, n)' <=> Editor(v, n)
                          /\ Editor(v, n) => job'[v].at = job[v].at
    BY <1>1, <1>4 DEF Editor
  <2> QED
    BY <1>2, <1>4, <2>1, EditsUntouched
<1> QED
  BY <1>3, <1>4

LEMMA EditServes ==
  ASSUME RegistryInv, NEW w \in Worker, Serves(w)
  PROVE  EditsOK'
<1> DEFINE n == job[w].node
<1>0. TypeOK
  BY DEF RegistryInv
<1>1. job[w].at # "idle"
  BY DEF Serves, RegisterUpdate, RegisterAdd, RegisterWrite, DeregisterRing,
         DeregisterDelete, DeregisterGauge, StatusWrite, SetGauge
<1>2. n \in NodeId
  BY <1>0, <1>1, BusyNode
<1>3. CASE RegisterUpdate(w)
  <2>1. Registered' = Registered \cup {n} /\ UNCHANGED <<ringNodes, crossed>>
    BY <1>0, <1>2, <1>3, PutsNewInfoOK DEF RegisterUpdate, Histories
  <2>2. EditStage(w, n) => (n \in Registered' <=> n \in ringNodes')
    BY <1>3, <2>1 DEF RegisterUpdate, EditStage
  <2> QED
    BY <1>3, <2>1, <2>2, OneEdit DEF RegisterUpdate, Idle, Edits
<1>4. CASE RegisterAdd(w)
  <2> DEFINE j == Job("write", n, job[w].info, job[w].says)
  <2>1. Registered' = Registered /\ ringNodes' = ringNodes \cup {n} /\ UNCHANGED crossed
    BY <1>4 DEF RegisterAdd, RingBecomes, Registered, Histories
  <2>2. Becomes(w, j) /\ job'[w] = j
    BY <1>0, <1>4, JobSteps DEF RegisterAdd, Moves
  <2>3. EditStage(w, n) => EditStage(w, n)'
    BY <1>4, <2>1, <2>2 DEF RegisterAdd, EditStage, Job
  <2> QED
    BY <1>4, <2>1, <2>2, <2>3, OneEdit DEF RegisterAdd, Job, Edits
<1>5. CASE RegisterWrite(w)
  <2> DEFINE j == Job("announce", n, job[w].info, job[w].says)
  <2>1. Registered' = Registered \cup {n} /\ UNCHANGED <<ringNodes, crossed>>
    BY <1>0, <1>2, <1>5, PutsNewInfoOK DEF RegisterWrite, Histories
  <2>2. EditStage(w, n) => (n \in Registered' <=> n \in ringNodes')
    BY <1>5, <2>1 DEF RegisterWrite, EditStage
  <2> QED
    BY <1>5, <2>1, <2>2, OneEdit DEF RegisterWrite, Moves, Job, Edits
<1>6. CASE DeregisterRing(w)
  <2> DEFINE j == Job("delete", n, job[w].info, job[w].says)
  <2>1. Registered' = Registered /\ ringNodes' = ringNodes \ {n} /\ UNCHANGED crossed
    BY <1>6 DEF DeregisterRing, RingBecomes, Registered, Histories
  <2>2. Becomes(w, j) /\ job'[w] = j
    BY <1>0, <1>6, JobSteps DEF DeregisterRing, Moves
  <2>3. EditStage(w, n) => EditStage(w, n)'
    BY <1>6, <2>1, <2>2 DEF DeregisterRing, EditStage, Job
  <2> QED
    BY <1>6, <2>1, <2>2, <2>3, OneEdit DEF DeregisterRing, Job, Edits
<1>7. CASE DeregisterDelete(w)
  <2> DEFINE j == Job("ungauge", n, job[w].info, job[w].says)
  <2>1. Registered' = Registered \ {n} /\ UNCHANGED <<ringNodes, crossed>>
    BY <1>0, <1>2, <1>7 DEF DeregisterDelete, Registered, Histories, TypeOK
  <2>2. EditStage(w, n) => (n \in Registered' <=> n \in ringNodes')
    BY <1>7, <2>1 DEF DeregisterDelete, EditStage
  <2> QED
    BY <1>7, <2>1, <2>2, OneEdit DEF DeregisterDelete, Moves, Job, Edits
<1>8. CASE DeregisterGauge(w) \/ StatusWrite(w) \/ SetGauge(w)
  <2>1. PICK j : Becomes(w, j) /\ j.at \in {"idle", "gauge"}
    BY <1>8 DEF DeregisterGauge, StatusWrite, SetGauge, Moves, Job, Idle
  <2>2. job[w].at \notin Edits /\ UNCHANGED <<auxNodes, ringNodes, crossed>>
    BY <1>8 DEF DeregisterGauge, StatusWrite, SetGauge, Edits, Histories
  <2> QED
    BY <2>1, <2>2, NoEdit DEF Edits
<1> QED
  BY <1>3, <1>4, <1>5, <1>6, <1>7, <1>8 DEF Serves

LEMMA EditChecks ==
  ASSUME RegistryInv, NEW c \in Checker, CheckStart(c) \/ Checks(c)
  PROVE  EditsOK'
<1>1. c \in Worker
  BY CheckerNode
<1>2. CASE CheckStart(c)
  BY <1>1, <1>2, EditStarts DEF CheckStart, Job, Edits
<1>3. CASE Checks(c)
  <2>1. PICK j : Becomes(c, j) /\ j.at \in {"idle", "gauge", "announce", "healthy", "failed"}
    BY <1>3 DEF Checks, CheckAnswered, CheckFailed, CheckUp, markNodeDown, SetGauge,
                Moves, Job, Idle
  <2>2. job[c].at \notin Edits /\ UNCHANGED <<auxNodes, ringNodes, crossed>>
    BY <1>3 DEF Checks, CheckAnswered, CheckFailed, CheckUp, markNodeDown, SetGauge,
                Edits, Histories
  <2> QED
    BY <1>1, <2>1, <2>2, NoEdit DEF Edits
<1> QED
  BY <1>2, <1>3

LEMMA EditStart ==
  ASSUME RegistryInv, NEW h \in Handler, NEW n \in NodeId,
         \/ RegisterCheck(h, n) \/ DeregisterCheck(h, n)
         \/ \E s \in Status : StatusCheck(h, n, s)
  PROVE  EditsOK'
<1>1. h \in Worker
  BY HandlerWorker
<1>2. CASE RegisterCheck(h, n)
  BY <1>1, <1>2, EditStarts DEF RegisterCheck, Job, Edits
<1>3. CASE DeregisterCheck(h, n)
  BY <1>1, <1>3, EditStarts DEF DeregisterCheck, Job, Edits
<1>4. CASE \E s \in Status : StatusCheck(h, n, s)
  BY <1>1, <1>4, EditStarts DEF StatusCheck, Job, Edits
<1> QED
  BY <1>2, <1>3, <1>4

LEMMA EditsStep == RegistryInv /\ [Next]_vars => EditsOK'
<1> SUFFICES ASSUME RegistryInv, [Next]_vars PROVE EditsOK'
  OBVIOUS
<1>1. CASE \E h \in Handler, n \in NodeId :
             \/ RegisterCheck(h, n) \/ DeregisterCheck(h, n)
             \/ \E s \in Status : StatusCheck(h, n, s)
  BY <1>1, EditStart
<1>2. CASE \E h \in Handler : Serves(h)
  BY <1>2, HandlerWorker, EditServes
<1>3. CASE \E c \in Checker : CheckStart(c) \/ Checks(c)
  BY <1>3, EditChecks
<1>4. CASE UNCHANGED <<auxNodes, ringNodes, job, crossed>>
  BY <1>4 DEF RegistryInv, EditsOK, NodeOK, Editor, EditStage, Registered
<1>5. CASE \/ ManualRebalance \/ triggerRebalance
           \/ \E n \in NodeId : Crash(n) \/ Restart(n)
           \/ UNCHANGED vars
  BY <1>4, <1>5 DEF ManualRebalance, triggerRebalance, Crash, Restart, vars, Histories
<1> QED
  BY <1>1, <1>2, <1>3, <1>5 DEF Next

LEMMA RegistryInit == Init => RegistryInv
<1> SUFFICES ASSUME Init PROVE EditsOK
  BY TypeInit DEF RegistryInv
<1>1. \A w \in Worker, n \in NodeId : ~ Editor(w, n)
  BY DEF Init, Idle, Editor, Edits
<1>2. \A n \in NodeId : n \notin Registered /\ n \notin ringNodes
  BY DEF Init, Registered
<1> QED
  BY <1>1, <1>2 DEF EditsOK, NodeOK

(* Registrations and deregistrations of a node that do not overlap leave   *)
(* the map and the ring in agreement about it, for any number of nodes and *)
(* of goroutines and whatever else they do meanwhile (main.go 663-708,     *)
(* 765-788).                                                               *)
THEOREM RegistryAgreesWithRing == Spec => []RegistryMatchesRing
<1>1. RegistryInv /\ [Next]_vars => RegistryInv'
  BY TypeStep, EditsStep DEF RegistryInv
<1>2. RegistryInv => RegistryMatchesRing
  BY DEF RegistryInv, EditsOK, NodeOK, RegistryMatchesRing, Quiet, Editor
<1> QED
  BY RegistryInit, <1>1, <1>2, PTL DEF Spec

-----------------------------------------------------------------------------
(* One handler at a time *)

OneHandler == \A g, h \in Handler : g = h

NoneCrossed ==
  /\ TypeOK
  /\ crossed = {}
  /\ \A c \in Checker : job[c].at \notin Edits

LEMMA NoneCrossedStep == OneHandler /\ NoneCrossed /\ [Next]_vars => NoneCrossed'
<1> SUFFICES ASSUME OneHandler, NoneCrossed, [Next]_vars PROVE NoneCrossed'
  OBVIOUS
<1>1. TypeOK /\ TypeOK'
  BY TypeStep DEF NoneCrossed
<1>2. CASE UNCHANGED <<job, crossed>>
  BY <1>1, <1>2 DEF NoneCrossed
<1>3. ASSUME NEW w \in Worker, NEW j, Starts(w, j), w \in Checker => j.at \notin Edits
      PROVE  NoneCrossed'
  <2>1. \A v \in Worker : job'[v] = IF v = w THEN j ELSE job[v]
    BY <1>1, <1>3, JobSteps DEF Starts
  <2>2. \A c \in Checker : c \in Worker
    BY CheckerNode
  <2>3. \A v \in Worker : v = w \/ v \in Checker \/ w \in Checker
    BY DEF OneHandler, Worker
  <2>4. \A v \in Worker : j.at \in Edits => job[v].at \notin Edits
    BY <1>3, <2>3 DEF NoneCrossed, Starts, Edits
  <2>5. crossed' = {}
    BY <1>3, <2>4 DEF NoneCrossed, Starts
  <2> QED
    BY <1>1, <1>3, <2>1, <2>2, <2>5 DEF NoneCrossed
<1>4. ASSUME NEW w \in Worker, NEW j, Becomes(w, j), UNCHANGED crossed,
             w \in Checker => j.at \notin Edits
      PROVE  NoneCrossed'
  BY <1>1, <1>4, JobSteps, CheckerNode DEF NoneCrossed
<1>5. ASSUME NEW h \in Handler, NEW n \in NodeId,
             \/ RegisterCheck(h, n) \/ DeregisterCheck(h, n)
             \/ \E s \in Status : StatusCheck(h, n, s)
      PROVE  NoneCrossed'
  BY <1>3, <1>5, HandlerWorker DEF RegisterCheck, DeregisterCheck, StatusCheck
<1>6. ASSUME NEW h \in Handler, Serves(h) PROVE NoneCrossed'
  <2>1. h \in Worker /\ h \notin Checker
    BY HandlerWorker
  <2>2. UNCHANGED crossed /\ \E j : Becomes(h, j)
    BY <1>6 DEF Serves, RegisterUpdate, RegisterAdd, RegisterWrite, DeregisterRing,
       DeregisterDelete, DeregisterGauge, StatusWrite, SetGauge, Moves, Histories
  <2> QED
    BY <1>4, <2>1, <2>2
<1>7. ASSUME NEW c \in Checker, CheckStart(c) PROVE NoneCrossed'
  BY <1>3, <1>7, CheckerNode DEF CheckStart, Job, Edits
<1>8. ASSUME NEW c \in Checker, Checks(c) PROVE NoneCrossed'
  <2>1. c \in Worker
    BY CheckerNode
  <2>2. UNCHANGED crossed /\ \E j : Becomes(c, j) /\ j.at \notin Edits
    <3>1. ASSUME NEW p \in {"healthy", "failed", "gauge"}, Moves(c, p)
          PROVE \E j : Becomes(c, j) /\ j.at \notin Edits
      BY <3>1 DEF Moves, Job, Edits
    <3>2. ASSUME markNodeDown(c) PROVE \E j : Becomes(c, j) /\ j.at \notin Edits
      BY <3>2 DEF markNodeDown, Job, Idle, Edits
    <3>3. ASSUME SetGauge(c) PROVE \E j : Becomes(c, j) /\ j.at \notin Edits
      BY <3>3 DEF SetGauge, Idle, Edits
    <3> QED
      BY <1>8, <3>1, <3>2, <3>3 DEF Checks, CheckAnswered, CheckFailed, CheckUp,
         markNodeDown, SetGauge, Histories
  <2> QED
    BY <1>4, <2>1, <2>2
<1>9. ManualRebalance \/ triggerRebalance \/ (\E n \in NodeId : Crash(n) \/ Restart(n))
      \/ UNCHANGED vars => UNCHANGED <<job, crossed>>
  BY DEF ManualRebalance, triggerRebalance, Crash, Restart, Histories, vars
<1> QED
  BY <1>2, <1>5, <1>6, <1>7, <1>8, <1>9 DEF Next

(* What the documentation promises of concurrent requests (README.md 16)   *)
(* holds when they come one at a time: the map and the ring agree about    *)
(* every node at rest, whatever the health checks, the rebalances and the  *)
(* other nodes do meanwhile.                                               *)
THEOREM RegistryRightAlone ==
  ASSUME OneHandler
  PROVE  Spec => []RegistryAlwaysMatchesRing
<1>1. Init => NoneCrossed
  BY TypeInit, CheckerNode DEF Init, NoneCrossed, Idle, Edits
<1>2. NoneCrossed /\ [Next]_vars => NoneCrossed'
  BY NoneCrossedStep
<1>3. NoneCrossed /\ RegistryMatchesRing => RegistryAlwaysMatchesRing
  BY DEF NoneCrossed, RegistryMatchesRing, RegistryAlwaysMatchesRing
<1> QED
  BY <1>1, <1>2, <1>3, RegistryAgreesWithRing, PTL DEF Spec

-----------------------------------------------------------------------------
(* The rebalance that follows a change *)

(* Somebody is on the way to start a rebalance. *)
Coming == \E w \in Worker : job[w].at \in {"write", "announce", "delete", "ungauge"}

AskedOK == \A n \in Registered \ crossed : asked[n] = "no" => due > 0 \/ Coming

AskedInv == RegistryInv /\ AskedOK

(* Nobody new is registered, and nobody who is coming has come. *)
LEMMA AskedStays ==
  ASSUME AskedInv, due' = due, Coming => Coming',
         Registered' \ crossed' \subseteq Registered \ crossed,
         asked' = asked
  PROVE  AskedOK'
BY DEF AskedInv, AskedOK

LEMMA ComesNow ==
  ASSUME TypeOK', Coming' \/ due' > 0
  PROVE  AskedOK'
BY DEF AskedOK

LEMMA SpawnsDue ==
  ASSUME due \in 0 .. MaxDue, Spawns
  PROVE  due' > 0
BY RegistryAssumption DEF Spawns

(* A worker that is not on the way takes a step of its own. *)
LEMMA StillComing ==
  ASSUME TypeOK, NEW w \in Worker, NEW j, Becomes(w, j),
         job[w].at \notin {"write", "announce", "delete", "ungauge"}, Coming
  PROVE  Coming'
<1>1. \A v \in Worker : job'[v] = IF v = w THEN j ELSE job[v]
  BY JobSteps
<1>2. PICK v \in Worker : job[v].at \in {"write", "announce", "delete", "ungauge"}
  BY DEF Coming
<1> QED
  BY <1>1, <1>2 DEF Coming

LEMMA AskedServes ==
  ASSUME AskedInv, TypeOK', NEW w \in Worker, Serves(w)
  PROVE  AskedOK'
<1> DEFINE n == job[w].node
<1>0. TypeOK /\ EditsOK /\ due \in 0 .. MaxDue
  BY DEF AskedInv, RegistryInv, TypeOK
<1>1. CASE RegisterUpdate(w)
  <2>1. n \in NodeId
    BY <1>0, <1>1, BusyNode DEF RegisterUpdate
  <2>2. Registered' = Registered \cup {n} /\ UNCHANGED <<due, crossed, asked>>
    BY <1>0, <1>1, <2>1, PutsNewInfoOK DEF RegisterUpdate, Histories
  <2>3. n \in crossed \/ n \in Registered
    BY <1>0, <1>1, <2>1 DEF RegisterUpdate, EditsOK, NodeOK, Editor, EditStage, Edits
  <2>4. Coming => Coming'
    BY <1>0, <1>1, StillComing DEF RegisterUpdate
  <2> QED
    BY <2>2, <2>3, <2>4, AskedStays
<1>2. CASE RegisterAdd(w) \/ RegisterWrite(w) \/ DeregisterRing(w) \/ DeregisterDelete(w)
  <2>1. PICK place \in {"write", "announce", "delete", "ungauge"} : Moves(w, place)
    BY <1>2 DEF RegisterAdd, RegisterWrite, DeregisterRing, DeregisterDelete
  <2>2. job'[w].at = place
    BY <1>0, <2>1, JobSteps DEF Moves, Job
  <2> QED
    BY <2>1, <2>2, ComesNow DEF Coming
<1>3. CASE DeregisterGauge(w)
  BY <1>0, <1>3, SpawnsDue, ComesNow DEF DeregisterGauge
<1>4. CASE StatusWrite(w)
  <2>1. Registered' = Registered /\ UNCHANGED <<due, crossed, asked>>
    BY <1>4 DEF StatusWrite, Registered, Histories
  <2>2. Coming => Coming'
    BY <1>0, <1>4, StillComing DEF StatusWrite, Moves
  <2> QED
    BY <2>1, <2>2, AskedStays
<1>5. CASE SetGauge(w)
  <2>1. CASE job[w].at = "announce"
    BY <1>0, <1>5, <2>1, SpawnsDue, ComesNow DEF SetGauge
  <2>2. CASE job[w].at # "announce"
    <3>1. Registered' = Registered /\ UNCHANGED <<due, crossed, asked>>
      BY <1>5, <2>2 DEF SetGauge, Registered, Histories
    <3>2. Coming => Coming'
      BY <1>0, <1>5, <2>2, StillComing DEF SetGauge
    <3> QED
      BY <3>1, <3>2, AskedStays
  <2> QED
    BY <2>1, <2>2
<1> QED
  BY <1>1, <1>2, <1>3, <1>4, <1>5 DEF Serves

LEMMA AskedStep == AskedInv /\ TypeOK' /\ [Next]_vars => AskedOK'
<1> SUFFICES ASSUME AskedInv, TypeOK', [Next]_vars PROVE AskedOK'
  OBVIOUS
<1>0. TypeOK /\ due \in 0 .. MaxDue
  BY DEF AskedInv, RegistryInv, TypeOK
<1>1. ASSUME NEW w \in Worker, NEW j, Starts(w, j), UNCHANGED <<auxNodes, due, asked>>
      PROVE  AskedOK'
  <2>1. Registered' = Registered /\ crossed \subseteq crossed'
    BY <1>1 DEF Registered, Starts
  <2>2. Coming => Coming'
    BY <1>0, <1>1, StillComing DEF Starts
  <2> QED
    BY <1>1, <2>1, <2>2, AskedStays
<1>2. ASSUME NEW h \in Handler, NEW n \in NodeId,
             \/ RegisterCheck(h, n) \/ DeregisterCheck(h, n)
             \/ \E s \in Status : StatusCheck(h, n, s)
      PROVE  AskedOK'
  BY <1>1, <1>2, HandlerWorker DEF RegisterCheck, DeregisterCheck, StatusCheck
<1>3. CASE \E h \in Handler : Serves(h)
  BY <1>3, HandlerWorker, AskedServes
<1>4. ASSUME NEW c \in Checker, CheckStart(c)
      PROVE  AskedOK'
  BY <1>1, <1>4, CheckerNode DEF CheckStart
<1>5. ASSUME NEW c \in Checker, Checks(c)
      PROVE  AskedOK'
  <2>1. c \in Worker
    BY CheckerNode
  <2>2. CASE SetGauge(c)
    BY <2>1, <2>2, AskedServes DEF Serves
  <2>3. CASE CheckAnswered(c) \/ CheckFailed(c) \/ CheckUp(c) \/ markNodeDown(c)
    <3>1. Registered' = Registered /\ UNCHANGED <<due, crossed, asked>>
      BY <2>3 DEF CheckAnswered, CheckFailed, CheckUp, markNodeDown, Registered, Histories
    <3>2. job[c].at \in {"probe", "healthy", "failed"} /\ \E j : Becomes(c, j)
      BY <2>3 DEF CheckAnswered, CheckFailed, CheckUp, markNodeDown, Moves
    <3>3. Coming => Coming'
      BY <1>0, <2>1, <3>2, StillComing
    <3> QED
      BY <3>1, <3>3, AskedStays
  <2> QED
    BY <1>5, <2>2, <2>3 DEF Checks
<1>6. CASE ManualRebalance
  BY <1>0, <1>6, SpawnsDue, ComesNow DEF ManualRebalance
<1>7. CASE triggerRebalance
  <2>1. \A n \in Registered : asked'[n] # "no"
    BY <1>0, <1>7 DEF triggerRebalance, Registered, TypeOK
  <2>2. Registered' = Registered
    BY <1>7 DEF triggerRebalance, Registered
  <2> QED
    BY <2>1, <2>2 DEF AskedOK
<1>8. CASE UNCHANGED <<auxNodes, job, due, crossed, asked>>
  BY <1>8, AskedStays DEF Registered, Coming
<1>9. CASE (\E n \in NodeId : Crash(n) \/ Restart(n)) \/ UNCHANGED vars
  BY <1>8, <1>9 DEF Crash, Restart, Histories, vars
<1> QED
  BY <1>2, <1>3, <1>4, <1>5, <1>6, <1>7, <1>9 DEF Next

(* Every change of the ring is followed by a rebalance that considers each *)
(* registered node, for any number of nodes, of goroutines and of          *)
(* rebalances that wait (main.go 462-519, 707, 788).                       *)
THEOREM RebalanceFollows == Spec => []RebalanceFollowsChange
<1>1. Init => AskedInv
  BY RegistryInit DEF Init, AskedInv, AskedOK, Registered
<1>2. AskedInv /\ [Next]_vars => AskedInv'
  BY TypeStep, EditsStep, AskedStep DEF AskedInv, RegistryInv
<1>3. ASSUME AskedInv, due = 0, \A n \in NodeId : Quiet(n)
      PROVE  \A n \in Registered \ crossed : asked[n] # "no"
  <2>1. \A w \in Worker : job[w].at = "idle"
    BY <1>3, BusyNode DEF AskedInv, RegistryInv, Quiet
  <2> QED
    BY <1>3, <2>1 DEF AskedInv, AskedOK, Coming
<1>4. AskedInv => RebalanceFollowsChange
  BY <1>3 DEF RebalanceFollowsChange
<1> QED
  BY <1>1, <1>2, <1>4, PTL DEF Spec

-----------------------------------------------------------------------------
(* The gauge *)

(* What the one goroutine that is at work on n has found or done so far.   *)
GaugeStage(w, n) ==
  /\ job[w].at \in {"add", "write"} => n \notin Registered /\ gauge[n] = none
  /\ job[w].at = "ungauge" => n \notin Registered
  /\ job[w].at \in {"gauge", "announce"} => n \in Registered
  /\ job[w].at \in {"update", "unring", "delete", "status", "probe", "healthy", "failed"} =>
       n \in Registered /\ gauge[n] # none

GaugeOK(n) ==
  /\ \A v, w \in Worker : job[v].node = n /\ job[w].node = n => v = w
  /\ \A w \in Worker : job[w].node = n => GaugeStage(w, n)
  /\ Quiet(n) => (gauge[n] # none <=> n \in Registered)

GaugeInv == TypeOK /\ \A n \in NodeId \ mixed : GaugeOK(n)

(* A step that is not about n. *)
LEMMA GaugeUntouched ==
  ASSUME NEW n \in NodeId, GaugeOK(n), NEW u \in Worker, NEW j,
         \A v \in Worker : job'[v] = IF v = u THEN j ELSE job[v],
         job[u].node # n, j.node # n,
         n \in Registered' <=> n \in Registered, gauge'[n] = gauge[n]
  PROVE  GaugeOK(n)'
<1>1. \A v \in Worker : /\ job'[v].node = n <=> job[v].node = n
                        /\ job[v].node = n => job'[v] = job[v]
  OBVIOUS
<1> QED
  BY <1>1 DEF GaugeOK, GaugeStage, Quiet

(* A step of u, which works on n alone. *)
LEMMA GaugeGoesOn ==
  ASSUME NEW n \in NodeId, NEW u \in Worker, NEW j,
         \A v \in Worker \ {u} : job[v].node # n,
         \A v \in Worker : job'[v] = IF v = u THEN j ELSE job[v],
         j.node = n => GaugeStage(u, n)',
         j.node # n => (gauge'[n] # none <=> n \in Registered')
  PROVE  GaugeOK(n)'
<1>1. \A v \in Worker : job'[v].node = n => v = u /\ j.node = n
  OBVIOUS
<1>2. job'[u] = j
  OBVIOUS
<1> QED
  BY <1>1, <1>2 DEF GaugeOK, Quiet

(* A job starts: nobody else works on its node, or it has become mixed.    *)
LEMMA GaugeStarts ==
  ASSUME GaugeInv, NEW w \in Worker, NEW j, Starts(w, j), j.node \in NodeId,
         UNCHANGED <<auxNodes, gauge>>,
         IF j.at = "add" THEN j.node \notin Registered
         ELSE j.at \in {"update", "unring", "status", "probe"} /\ j.node \in Registered
  PROVE  \A n \in NodeId \ mixed' : GaugeOK(n)'
<1> SUFFICES ASSUME NEW n \in NodeId, n \notin mixed' PROVE GaugeOK(n)'
  OBVIOUS
<1>1. \A v \in Worker : job'[v] = IF v = w THEN j ELSE job[v]
  BY JobSteps DEF Starts, GaugeInv
<1>2. GaugeOK(n) /\ Registered' = Registered
  BY DEF Starts, GaugeInv, Registered
<1>3. job[w].node # n
  BY RegistryAssumption DEF Starts, GaugeInv, TypeOK, JobOK
<1>4. CASE j.node # n
  BY <1>1, <1>2, <1>3, <1>4, GaugeUntouched
<1>5. CASE j.node = n
  <2>1. Quiet(n)
    BY <1>5 DEF Starts
  <2>2. GaugeStage(w, n)'
    BY <1>1, <1>2, <1>5, <2>1 DEF GaugeOK, GaugeStage
  <2> QED
    BY <1>1, <1>5, <2>1, <2>2, GaugeGoesOn DEF Quiet
<1> QED
  BY <1>4, <1>5

(* A job goes on or ends: its node is its own, or mixed. *)
LEMMA GaugeMoves ==
  ASSUME GaugeInv, NEW w \in Worker, NEW j, Becomes(w, j),
         NEW own \in NodeId, job[w].node = own, j.node \in {own, none}, UNCHANGED mixed,
         \A m \in NodeId \ {own} :
           (m \in Registered' <=> m \in Registered) /\ gauge'[m] = gauge[m],
         GaugeStage(w, own) =>
           IF j.node = own THEN GaugeStage(w, own)'
           ELSE gauge'[own] # none <=> own \in Registered'
  PROVE  \A n \in NodeId \ mixed' : GaugeOK(n)'
<1> SUFFICES ASSUME NEW n \in NodeId \ mixed PROVE GaugeOK(n)'
  OBVIOUS
<1>1. \A v \in Worker : job'[v] = IF v = w THEN j ELSE job[v]
  BY JobSteps DEF GaugeInv
<1>2. GaugeOK(n)
  BY DEF GaugeInv
<1>3. CASE job[w].node # n
  <2>1. j.node # n
    BY <1>3, RegistryAssumption
  <2> QED
    BY <1>1, <1>2, <1>3, <2>1, GaugeUntouched
<1>4. CASE job[w].node = n
  <2>1. GaugeStage(w, n) /\ \A v \in Worker \ {w} : job[v].node # n
    BY <1>2, <1>4 DEF GaugeOK
  <2> QED
    BY <1>1, <1>4, <2>1, GaugeGoesOn
<1> QED
  BY <1>3, <1>4

(* The steps of a job that go on with the same node. *)
LEMMA GaugeServes ==
  ASSUME GaugeInv, NEW w \in Worker, Serves(w)
  PROVE  \A m \in NodeId \ mixed' : GaugeOK(m)'
<1> DEFINE at(place) == Job(place, job[w].node, job[w].info, job[w].says)
           same == \A m \in NodeId : (m \in Registered' <=> m \in Registered)
                                     /\ gauge'[m] = gauge[m]
<1>0. TypeOK
  BY DEF GaugeInv
<1>1. job[w].at # "idle"
  BY DEF Serves, RegisterUpdate, RegisterAdd, RegisterWrite, DeregisterRing,
         DeregisterDelete, DeregisterGauge, StatusWrite, SetGauge
<1>2. PICK n \in NodeId : job[w].node = n /\ job[w].says \in Status
  BY <1>0, <1>1, BusyNode DEF Jobs
<1>3. Idle.node = none /\ none # n /\ job[w].says # none
  BY <1>2, RegistryAssumption DEF Idle, Status
<1>4. \A place : at(place).node = n /\ at(place).at = place
  BY <1>2 DEF Job
<1>5. ASSUME NEW place, Moves(w, place)
      PROVE  Becomes(w, at(place)) /\ job'[w].at = place
  BY <1>0, <1>5, <1>4, JobSteps DEF Moves
<1>6. auxNodes' = auxNodes /\ gauge' = gauge => same
  BY DEF Registered
<1>7. CASE RegisterUpdate(w)
  <2>1. Registered' = Registered \cup {n} /\ gauge' = gauge /\ mixed' = mixed
    BY <1>0, <1>2, <1>7, PutsNewInfoOK DEF RegisterUpdate, Histories
  <2>2. GaugeStage(w, n) => gauge'[n] # none /\ n \in Registered'
    BY <1>7, <2>1 DEF GaugeStage, RegisterUpdate
  <2> QED
    BY <1>2, <1>3, <1>7, <2>1, <2>2, GaugeMoves DEF RegisterUpdate
<1>8. CASE RegisterAdd(w)
  <2>1. Becomes(w, at("write")) /\ job'[w].at = "write" /\ same /\ mixed' = mixed
    BY <1>5, <1>6, <1>8 DEF RegisterAdd, Histories
  <2>2. GaugeStage(w, n) => GaugeStage(w, n)'
    BY <1>2, <1>8, <2>1 DEF GaugeStage, RegisterAdd
  <2> QED
    BY <1>2, <1>4, <2>1, <2>2, GaugeMoves
<1>9. CASE RegisterWrite(w)
  <2>1. Becomes(w, at("announce")) /\ job'[w].at = "announce" /\ mixed' = mixed
    BY <1>5, <1>9 DEF RegisterWrite, Histories
  <2>2. Registered' = Registered \cup {n} /\ gauge' = gauge
    BY <1>0, <1>2, <1>9, PutsNewInfoOK DEF RegisterWrite
  <2>3. GaugeStage(w, n)'
    BY <2>1, <2>2 DEF GaugeStage
  <2> QED
    BY <1>2, <1>4, <2>1, <2>2, <2>3, GaugeMoves
<1>10. CASE DeregisterRing(w)
  <2>1. Becomes(w, at("delete")) /\ job'[w].at = "delete" /\ same /\ mixed' = mixed
    BY <1>5, <1>6, <1>10 DEF DeregisterRing, Histories
  <2>2. GaugeStage(w, n) => GaugeStage(w, n)'
    BY <1>2, <1>10, <2>1 DEF GaugeStage, DeregisterRing
  <2> QED
    BY <1>2, <1>4, <2>1, <2>2, GaugeMoves
<1>11. CASE DeregisterDelete(w)
  <2>1. Becomes(w, at("ungauge")) /\ job'[w].at = "ungauge" /\ mixed' = mixed
    BY <1>5, <1>11 DEF DeregisterDelete, Histories
  <2>2. gauge' = gauge /\ \A m \in NodeId : m \in Registered' <=> m \in Registered \ {n}
    BY <1>0, <1>2, <1>11 DEF DeregisterDelete, Registered, TypeOK
  <2>3. GaugeStage(w, n)'
    BY <1>2, <2>1, <2>2 DEF GaugeStage
  <2> QED
    BY <1>2, <1>4, <2>1, <2>2, <2>3, GaugeMoves
<1>12. CASE DeregisterGauge(w)
  <2>1. Registered' = Registered /\ mixed' = mixed
    BY <1>12 DEF DeregisterGauge, Histories, Registered
  <2>2. \A m \in NodeId : gauge'[m] = IF m = n THEN none ELSE gauge[m]
    BY <1>0, <1>2, <1>12 DEF DeregisterGauge, TypeOK
  <2>3. GaugeStage(w, n) => (gauge'[n] # none <=> n \in Registered')
    BY <1>2, <1>12, <2>1, <2>2 DEF GaugeStage, DeregisterGauge
  <2> QED
    BY <1>2, <1>3, <1>12, <2>1, <2>2, <2>3, GaugeMoves DEF DeregisterGauge
<1>13. CASE StatusWrite(w)
  <2>1. Becomes(w, at("gauge")) /\ job'[w].at = "gauge" /\ same /\ mixed' = mixed
    BY <1>5, <1>6, <1>13 DEF StatusWrite, Histories
  <2>2. GaugeStage(w, n) => GaugeStage(w, n)'
    BY <1>2, <1>13, <2>1 DEF GaugeStage, StatusWrite
  <2> QED
    BY <1>2, <1>4, <2>1, <2>2, GaugeMoves
<1>14. CASE SetGauge(w)
  <2>1. Registered' = Registered /\ mixed' = mixed
    BY <1>14 DEF SetGauge, Histories, Registered
  <2>2. \A m \in NodeId : gauge'[m] = IF m = n THEN job[w].says ELSE gauge[m]
    BY <1>0, <1>2, <1>14 DEF SetGauge, TypeOK
  <2>3. GaugeStage(w, n) => (gauge'[n] # none <=> n \in Registered')
    BY <1>2, <1>3, <1>14, <2>1, <2>2 DEF GaugeStage, SetGauge
  <2> QED
    BY <1>2, <1>3, <1>14, <2>1, <2>2, <2>3, GaugeMoves DEF SetGauge
<1> QED
  BY <1>7, <1>8, <1>9, <1>10, <1>11, <1>12, <1>13, <1>14 DEF Serves

LEMMA GaugeHandles ==
  ASSUME GaugeInv, NEW h \in Handler, NEW n \in NodeId,
         \/ RegisterCheck(h, n) \/ DeregisterCheck(h, n)
         \/ \E s \in Status : StatusCheck(h, n, s)
  PROVE  \A m \in NodeId \ mixed' : GaugeOK(m)'
<1>1. h \in Worker
  BY HandlerWorker
<1>2. \A place, p, s : Job(place, n, p, s).node = n /\ Job(place, n, p, s).at = place
  BY DEF Job
<1>3. CASE RegisterCheck(h, n)
  BY <1>1, <1>2, <1>3, GaugeStarts DEF RegisterCheck
<1>4. CASE DeregisterCheck(h, n)
  BY <1>1, <1>2, <1>4, GaugeStarts DEF DeregisterCheck
<1>5. ASSUME NEW s \in Status, StatusCheck(h, n, s)
      PROVE  \A m \in NodeId \ mixed' : GaugeOK(m)'
  BY <1>1, <1>2, <1>5, GaugeStarts DEF StatusCheck
<1> QED
  BY <1>3, <1>4, <1>5

LEMMA GaugeChecks ==
  ASSUME GaugeInv, NEW c \in Checker, CheckStart(c) \/ Checks(c)
  PROVE  \A m \in NodeId \ mixed' : GaugeOK(m)'
<1> DEFINE n == c[1]
           at(place) == Job(place, job[c].node, job[c].info, job[c].says)
<1>1. TypeOK /\ c \in Worker /\ n \in NodeId /\ n # none
  BY CheckerNode, RegistryAssumption DEF GaugeInv
<1>2. \A place, m, p, s : Job(place, m, p, s).node = m /\ Job(place, m, p, s).at = place
  BY DEF Job
<1>3. CASE CheckStart(c)
  BY <1>1, <1>2, <1>3, GaugeStarts DEF CheckStart
<1>4. ASSUME NEW place \in {"healthy", "failed"}, job[c].at = "probe", Moves(c, place),
             UNCHANGED <<auxNodes, gauge, mixed>>
      PROVE  \A m \in NodeId \ mixed' : GaugeOK(m)'
  <2>1. job[c].node = n
    BY <1>1, <1>4, BusyNode
  <2>2. Becomes(c, at(place)) /\ job'[c].at = place /\ Registered' = Registered
    BY <1>1, <1>2, <1>4, JobSteps DEF Moves, Registered
  <2>3. GaugeStage(c, n) => GaugeStage(c, n)'
    BY <1>4, <2>2 DEF GaugeStage
  <2> QED
    BY <1>1, <1>2, <1>4, <2>1, <2>2, <2>3, GaugeMoves
<1>5. CASE CheckUp(c)
  <2>1. job[c].node = n
    BY <1>1, <1>5, BusyNode DEF CheckUp
  <2>2. Becomes(c, at("gauge")) /\ job'[c].at = "gauge" /\ Registered' = Registered
    BY <1>1, <1>2, <1>5, JobSteps DEF CheckUp, Moves, Registered
  <2>3. GaugeStage(c, n) => GaugeStage(c, n)'
    BY <1>5, <2>2 DEF GaugeStage, CheckUp
  <2> QED
    BY <1>1, <1>2, <1>5, <2>1, <2>2, <2>3, GaugeMoves DEF CheckUp, Histories
<1>6. CASE markNodeDown(c)
  <2> DEFINE j == Job(IF n \in Up THEN "announce" ELSE "gauge", n, nil, "down")
  <2>1. job[c].node = n
    BY <1>1, <1>6, BusyNode DEF markNodeDown
  <2>2. Registered' = Registered /\ gauge' = gauge /\ mixed' = mixed
    BY <1>6 DEF markNodeDown, Registered, Histories
  <2>3. CASE n \in Registered
    <3>1. Becomes(c, j) /\ job'[c].at \in {"announce", "gauge"}
      BY <1>1, <1>2, <1>6, <2>3, JobSteps DEF markNodeDown
    <3>2. GaugeStage(c, n)'
      BY <2>2, <2>3, <3>1 DEF GaugeStage
    <3> QED
      BY <1>1, <1>2, <2>1, <2>2, <3>1, <3>2, GaugeMoves
  <2>4. CASE n \notin Registered
    <3>1. GaugeStage(c, n) => FALSE
      BY <1>6, <2>4 DEF GaugeStage, markNodeDown
    <3>2. Becomes(c, Idle) /\ Idle.node = none
      BY <1>6, <2>4 DEF markNodeDown, Idle
    <3> QED
      BY <1>1, <2>1, <2>2, <3>1, <3>2, GaugeMoves
  <2> QED
    BY <2>3, <2>4
<1>7. CASE SetGauge(c)
  BY <1>1, <1>7, GaugeServes DEF Serves
<1> QED
  BY <1>3, <1>4, <1>5, <1>6, <1>7 DEF Checks, CheckAnswered, CheckFailed, Histories

LEMMA GaugeStep == GaugeInv /\ [Next]_vars => GaugeInv'
<1> SUFFICES ASSUME GaugeInv, [Next]_vars PROVE \A m \in NodeId \ mixed' : GaugeOK(m)'
  BY TypeStep DEF GaugeInv
<1>1. CASE \E h \in Handler, n \in NodeId :
             \/ RegisterCheck(h, n) \/ DeregisterCheck(h, n)
             \/ \E s \in Status : StatusCheck(h, n, s)
  BY <1>1, GaugeHandles
<1>2. CASE \E h \in Handler : Serves(h)
  BY <1>2, HandlerWorker, GaugeServes
<1>3. CASE \E c \in Checker : CheckStart(c) \/ Checks(c)
  BY <1>3, GaugeChecks
<1>4. CASE UNCHANGED <<auxNodes, gauge, job, mixed>>
  BY <1>4 DEF GaugeInv, GaugeOK, GaugeStage, Quiet, Registered
<1>5. ManualRebalance \/ triggerRebalance \/ (\E n \in NodeId : Crash(n) \/ Restart(n))
      \/ UNCHANGED vars => UNCHANGED <<auxNodes, gauge, job, mixed>>
  BY DEF ManualRebalance, triggerRebalance, Crash, Restart, Histories, vars
<1> QED
  BY <1>1, <1>2, <1>3, <1>4, <1>5 DEF Next

(* The gauge has a label for exactly the registered nodes whenever no job  *)
(* is at work on them, unless jobs of the node have overlapped.            *)
THEOREM GaugeFollowsRegistry == Spec => []GaugeForRegistered
<1>1. Init => GaugeInv
  <2> SUFFICES ASSUME Init PROVE \A n \in NodeId : GaugeOK(n)
    BY TypeInit DEF GaugeInv
  <2>1. \A w \in Worker : job[w].node = none
    BY DEF Init, Idle
  <2>2. \A n \in NodeId : n # none /\ n \notin Registered /\ gauge[n] = none
    BY RegistryAssumption DEF Init, Registered
  <2> QED
    BY <2>1, <2>2 DEF GaugeOK
<1>2. GaugeInv => GaugeForRegistered
  BY DEF GaugeInv, GaugeOK, GaugeForRegistered
<1> QED
  BY <1>1, <1>2, GaugeStep, PTL DEF Spec

=============================================================================
