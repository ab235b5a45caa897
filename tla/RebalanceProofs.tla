--------------------------- MODULE RebalanceProofs ---------------------------
(***************************************************************************)
(* Proofs about Rebalance, for any number of nodes, keys, values and       *)
(* overlapping rebalances.                                                 *)
(***************************************************************************)
EXTENDS Rebalance, TLAPS

RunsOK == run \in [Mover -> Runs] /\ \A m \in Mover : RunOK(m, run[m])

(* The keys that m takes to be at another node. *)
Moved(m) == run[m].keysToRemove \cup (IF run[m].at = "stored" THEN {run[m].key} ELSE {})

(* They are, except that a client may have deleted one at its owner.       *)
Copied(m, k) ==
  \/ wanted[k] = Absent /\ owner[k] # m[1]
  \/ \E n \in Node \ {m[1]} : store[n][k] # Absent

AloneOK ==
  /\ \A m, other \in Busy : m[1] = other[1]
  /\ \A m \in Mover : \A k \in Moved(m) : Copied(m, k)
  /\ \A k \in Key : wanted[k] # Absent => Somewhere(k)

AloneInv == TypeOK /\ (~ overlap => AloneOK)

-----------------------------------------------------------------------------
(* Types *)

LEMMA MoverNode ==
  ASSUME NEW m \in Mover
  PROVE  m[1] \in Node
BY DEF Mover

LEMMA NothingOK == Nothing \in Contents /\ Held(Nothing) = {}
BY DEF Nothing, Contents, Held

LEMMA RunFields ==
  ASSUME NEW at, NEW data, NEW nodes, NEW todo, NEW key, NEW target, NEW moved
  PROVE  LET r == Run(at, data, nodes, todo, key, target, moved)
         IN  /\ r.at = at
             /\ r.cacheData = data
             /\ r.nodeMap = nodes
             /\ r.todo = todo
             /\ r.key = key
             /\ r.target = target
             /\ r.keysToRemove = moved
BY DEF Run

LEMMA RunTyped ==
  ASSUME NEW at \in {"idle", "listing", "posting", "sent", "stored"}, NEW data \in Contents,
         NEW nodes \in SUBSET Node, NEW todo \in SUBSET Key, NEW key \in Key \cup {Absent},
         NEW target \in Node \cup {Absent}, NEW moved \in SUBSET Key
  PROVE  Run(at, data, nodes, todo, key, target, moved) \in Runs
BY DEF Run, Runs

LEMMA BecomesOK ==
  ASSUME RunsOK, NEW m \in Mover, NEW r \in Runs, RunOK(m, r), Becomes(m, r)
  PROVE  RunsOK' /\ \A v \in Mover : run'[v] = IF v = m THEN r ELSE run[v]
<1>1. run' \in [Mover -> Runs] /\ \A v \in Mover : run'[v] = IF v = m THEN r ELSE run[v]
  BY DEF RunsOK, Becomes
<1> QED
  BY <1>1 DEF RunsOK, RunOK

LEMMA NoRunOK ==
  ASSUME NEW m \in Mover
  PROVE  NoRun \in Runs /\ RunOK(m, NoRun) /\ NoRun.at = "idle" /\ NoRun.keysToRemove = {}
<1>1. NoRun \in Runs
  BY NothingOK, RunTyped DEF NoRun
<1>2. NoRun.at = "idle" /\ NoRun.todo = {} /\ NoRun.keysToRemove = {}
  BY RunFields DEF NoRun
<1> QED
  BY <1>1, <1>2 DEF RunOK

(* The rounds of the loop change the place, what is left to do and the     *)
(* post of the moment.                                                     *)
LEMMA RoundOK ==
  ASSUME RunsOK, NEW m \in Mover, run[m].at # "idle",
         NEW at \in {"posting", "sent", "stored"},
         NEW todo \in SUBSET run[m].todo, NEW k \in Key \cup {Absent}, NEW n \in Node \cup {Absent},
         at # "posting" => k \in Held(run[m].cacheData) /\ n \in Node \ {m[1]},
         Round(m, at, todo, k, n)
  PROVE  /\ RunsOK'
         /\ \A v \in Mover \ {m} : run'[v] = run[v]
         /\ run'[m].at = at /\ run'[m].key = k /\ run'[m].keysToRemove = run[m].keysToRemove
<1> DEFINE r == Run(at, run[m].cacheData, run[m].nodeMap, todo, k, n, run[m].keysToRemove)
<1>1. run[m] \in Runs /\ RunOK(m, run[m])
  BY DEF RunsOK
<1>2. r \in Runs
  BY <1>1, RunTyped DEF Runs
<1>3. /\ r.at = at /\ r.key = k /\ r.target = n /\ r.todo = todo
      /\ r.cacheData = run[m].cacheData /\ r.keysToRemove = run[m].keysToRemove
  BY RunFields
<1>4. RunOK(m, r)
  BY <1>1, <1>3 DEF RunOK
<1> HIDE DEF r
<1>5. Becomes(m, r)
  BY DEF Round, r
<1> QED
  BY <1>2, <1>3, <1>4, <1>5, BecomesOK

LEMMA BackToLoopOK ==
  ASSUME RunsOK, NEW m \in Mover, run[m].at # "idle",
         NEW moved \in SUBSET Held(run[m].cacheData), BackToLoop(m, moved)
  PROVE  /\ RunsOK'
         /\ \A v \in Mover \ {m} : run'[v] = run[v]
         /\ run'[m].at = "posting" /\ run'[m].keysToRemove = moved
<1> DEFINE r == Run("posting", run[m].cacheData, run[m].nodeMap, run[m].todo, Absent, Absent, moved)
<1>1. run[m] \in Runs /\ RunOK(m, run[m]) /\ moved \in SUBSET Key
  BY DEF RunsOK, Held
<1>2. r \in Runs
  BY <1>1, RunTyped DEF Runs
<1>3. /\ r.at = "posting" /\ r.todo = run[m].todo
      /\ r.cacheData = run[m].cacheData /\ r.keysToRemove = moved
  BY RunFields
<1>4. RunOK(m, r)
  BY <1>1, <1>3 DEF RunOK
<1> HIDE DEF r
<1>5. Becomes(m, r)
  BY DEF BackToLoop, r
<1> QED
  BY <1>2, <1>3, <1>4, <1>5, BecomesOK

(* A cache after a Put or a Remove. *)
Puts(n, k, v) == store' = [store EXCEPT ![n][k] = v]

LEMMA StoreOK ==
  ASSUME TypeOK, NEW n \in Node, NEW k \in Key, NEW v \in Value \cup {Absent}, Puts(n, k, v)
  PROVE  /\ store' \in [Node -> Contents]
         /\ \A o \in Node, l \in Key :
              store'[o][l] = IF o = n /\ l = k THEN v ELSE store[o][l]
<1>1. store[n] \in Contents /\ [store[n] EXCEPT ![k] = v] \in Contents
  BY DEF TypeOK, Contents
<1>2. store' = [store EXCEPT ![n] = [store[n] EXCEPT ![k] = v]]
  BY <1>1 DEF Puts
<1>3. \A o \in Node : store'[o] = IF o = n THEN [store[n] EXCEPT ![k] = v] ELSE store[o]
  BY <1>2 DEF TypeOK
<1> QED
  BY <1>1, <1>2, <1>3 DEF TypeOK, Contents

LEMMA TypeInit == Init => TypeOK
<1> SUFFICES ASSUME Init PROVE TypeOK
  OBVIOUS
<1>1. \A m \in Mover : NoRun \in Runs /\ RunOK(m, NoRun)
  BY NoRunOK
<1> QED
  BY <1>1, NothingOK DEF Init, TypeOK

LEMMA ClientTyped ==
  ASSUME TypeOK, NEW k \in Key, NEW v \in Value \cup {Absent}, ClientWrites(k, v)
  PROVE  /\ TypeOK'
         /\ \A o \in Node, l \in Key :
              store'[o][l] = IF o = owner[k] /\ l = k THEN v ELSE store[o][l]
         /\ \A l \in Key : wanted'[l] = IF l = k THEN v ELSE wanted[l]
<1>1. PICK n \in Node : n = owner[k]
  BY DEF TypeOK
<1>2. /\ store' \in [Node -> Contents]
      /\ \A o \in Node, l \in Key :
           store'[o][l] = IF o = owner[k] /\ l = k THEN v ELSE store[o][l]
  <2>1. Puts(n, k, v)
    BY <1>1 DEF ClientWrites, Puts
  <2>2. /\ store' \in [Node -> Contents]
        /\ \A o \in Node, l \in Key :
             store'[o][l] = IF o = n /\ l = k THEN v ELSE store[o][l]
    BY <2>1, StoreOK
  <2> QED
    BY <1>1, <2>2
<1>3. wanted' \in Contents /\ \A l \in Key : wanted'[l] = IF l = k THEN v ELSE wanted[l]
  BY DEF ClientWrites, TypeOK, Contents
<1> QED
  BY <1>2, <1>3 DEF ClientWrites, TypeOK

(* A step of m that leaves every cache alone. *)
Local(m) ==
  \/ ListFails(m) \/ TakeSnapshot(m) \/ KeyStays(m) \/ PostKey(m)
  \/ PostConfirmed(m) \/ PostFails(m) \/ PostGivenUp(m) \/ EndRebalance(m)

LEMMA LocalStep ==
  ASSUME TypeOK, NEW m \in Mover, Local(m)
  PROVE  /\ TypeOK'
         /\ \A v \in Mover \ {m} : run'[v] = run[v]
         /\ run[m].at # "idle" /\ Moved(m)' \subseteq Moved(m)
         /\ UNCHANGED <<owner, store, wanted, overlap>>
<1>1. run[m].at # "idle" /\ UNCHANGED <<owner, store, wanted, overlap>>
  BY DEF Local, ListFails, TakeSnapshot, KeyStays, PostKey, PostConfirmed, PostFails,
         PostGivenUp, EndRebalance
<1>2. RunsOK /\ run[m] \in Runs /\ RunOK(m, run[m]) /\ m[1] \in Node
  BY MoverNode DEF TypeOK, RunsOK
<1>3. NoRun \in Runs /\ RunOK(m, NoRun) /\ NoRun.at = "idle" /\ NoRun.keysToRemove = {}
  BY NoRunOK
<1> DEFINE ends == /\ RunsOK'
                   /\ \A v \in Mover \ {m} : run'[v] = run[v]
                   /\ Moved(m)' \subseteq Moved(m)
<1>4. ASSUME Becomes(m, NoRun) PROVE ends
  <2>1. RunsOK' /\ \A v \in Mover : run'[v] = IF v = m THEN NoRun ELSE run[v]
    BY <1>2, <1>3, <1>4, BecomesOK
  <2> QED
    BY <1>3, <2>1 DEF Moved
<1>5. ASSUME NEW moved \in SUBSET Held(run[m].cacheData), BackToLoop(m, moved),
             moved \subseteq Moved(m)
      PROVE  ends
  <2>1. /\ RunsOK' /\ \A v \in Mover \ {m} : run'[v] = run[v]
        /\ run'[m].at = "posting" /\ run'[m].keysToRemove = moved
    BY <1>1, <1>2, <1>5, BackToLoopOK
  <2> QED
    BY <1>5, <2>1 DEF Moved
<1>6. ASSUME NEW at \in {"posting", "sent"}, NEW todo \in SUBSET run[m].todo,
             NEW k \in Key \cup {Absent}, NEW n \in Node \cup {Absent},
             at # "posting" => k \in Held(run[m].cacheData) /\ n \in Node \ {m[1]},
             Round(m, at, todo, k, n)
      PROVE  ends
  <2>1. /\ RunsOK' /\ \A v \in Mover \ {m} : run'[v] = run[v]
        /\ run'[m].at = at /\ run'[m].keysToRemove = run[m].keysToRemove
    BY <1>1, <1>2, <1>6, RoundOK
  <2> QED
    BY <1>6, <2>1 DEF Moved
<1> HIDE DEF ends
<1>7. ends /\ UNCHANGED late => TypeOK' /\ ends
  BY <1>1 DEF ends, TypeOK, RunsOK
<1> SUFFICES TypeOK' /\ ends
  BY <1>1 DEF ends
<1>8. CASE ListFails(m)
  BY <1>4, <1>7, <1>8 DEF ListFails
<1>9. CASE TakeSnapshot(m)
  <2>1. UNCHANGED late
    BY <1>9 DEF TakeSnapshot
  <2>2. CASE Becomes(m, NoRun)
    BY <1>4, <1>7, <2>1, <2>2
  <2>3. ASSUME NEW up \in SUBSET Node, NEW data, data = store[m[1]],
               Becomes(m, Run("posting", data, up, Held(data), Absent, Absent, {}))
        PROVE  ends
    <3> DEFINE r == Run("posting", data, up, Held(data), Absent, Absent, {})
    <3>1. data \in Contents /\ Held(data) \in SUBSET Key
      BY <1>2, <2>3 DEF TypeOK, Held
    <3>2. r \in Runs
      BY <3>1, RunTyped
    <3>3. r.at = "posting" /\ r.todo = Held(r.cacheData) /\ r.keysToRemove = {}
      BY RunFields
    <3>4. RunOK(m, r)
      BY <3>3 DEF RunOK
    <3> HIDE DEF r
    <3>5. Becomes(m, r)
      BY <2>3 DEF r
    <3>6. RunsOK' /\ \A v \in Mover : run'[v] = IF v = m THEN r ELSE run[v]
      BY <1>2, <3>2, <3>4, <3>5, BecomesOK
    <3> QED
      BY <3>3, <3>6 DEF ends, Moved
  <2> QED
    BY <1>7, <1>9, <2>1, <2>2, <2>3 DEF TakeSnapshot
<1>10. CASE KeyStays(m)
  <2>1. PICK k \in run[m].todo : Round(m, "posting", run[m].todo \ {k}, Absent, Absent)
    BY <1>10 DEF KeyStays
  <2> QED
    BY <1>6, <1>7, <1>10, <2>1 DEF KeyStays
<1>11. CASE PostKey(m)
  <2>1. PICK k \in run[m].todo, n \in run[m].nodeMap \ {m[1]} :
          Round(m, "sent", run[m].todo \ {k}, k, n)
    BY <1>11 DEF PostKey
  <2>2. k \in Held(run[m].cacheData) /\ k \in Key /\ n \in Node \ {m[1]}
    BY <1>2 DEF Runs, RunOK, Held
  <2> QED
    BY <1>6, <1>7, <1>11, <2>1, <2>2 DEF PostKey
<1>12. run[m].keysToRemove \subseteq Held(run[m].cacheData) /\ run[m].keysToRemove \subseteq Moved(m)
  BY <1>2 DEF RunOK, Moved
<1>13. CASE PostConfirmed(m)
  <2>1. run[m].key \in Held(run[m].cacheData) /\ run[m].key \in Moved(m)
    BY <1>2, <1>13 DEF PostConfirmed, RunOK, Moved
  <2> QED
    BY <1>5, <1>7, <1>12, <1>13, <2>1 DEF PostConfirmed
<1>14. CASE PostFails(m)
  BY <1>5, <1>7, <1>12, <1>14 DEF PostFails
<1>15. CASE PostGivenUp(m)
  <2>1. ends
    BY <1>5, <1>12, <1>15 DEF PostGivenUp
  <2>2. /\ run[m].key \in Key /\ run[m].target \in Node
        /\ run[m].cacheData[run[m].key] \in Value
    BY <1>2, <1>15 DEF PostGivenUp, RunOK, Runs, Held, Contents
  <2>3. late' \subseteq [to : Node, key : Key, value : Value]
    BY <1>15, <2>2 DEF PostGivenUp, TypeOK
  <2> QED
    BY <1>1, <2>1, <2>3 DEF ends, TypeOK, RunsOK
<1>16. CASE EndRebalance(m)
  BY <1>4, <1>7, <1>16 DEF EndRebalance
<1> QED
  BY <1>1, <1>7, <1>8, <1>9, <1>10, <1>11, <1>13, <1>14, <1>15, <1>16 DEF Local

LEMMA StoredStep ==
  ASSUME TypeOK, NEW m \in Mover, PostStored(m)
  PROVE  /\ TypeOK'
         /\ \A v \in Mover \ {m} : run'[v] = run[v]
         /\ run[m].at # "idle" /\ Moved(m)' = Moved(m) \cup {run[m].key}
         /\ \A o \in Node, l \in Key : store[o][l] # Absent => store'[o][l] # Absent
         /\ run[m].key \in Key
         /\ \E n \in Node \ {m[1]} : store'[n][run[m].key] # Absent
         /\ UNCHANGED <<owner, wanted, overlap>>
<1>1. run[m].at = "sent" /\ UNCHANGED <<owner, wanted, overlap, late>>
  BY DEF PostStored
<1>2. RunsOK /\ run[m] \in Runs /\ RunOK(m, run[m])
  BY DEF TypeOK, RunsOK
<1>3. PICK k \in Key, n \in Node \ {m[1]}, v \in Value :
        k = run[m].key /\ n = run[m].target /\ v = run[m].cacheData[run[m].key]
              /\ k \in Held(run[m].cacheData)
  BY <1>1, <1>2 DEF RunOK, Runs, Held, Contents
<1>4. Puts(n, k, v)
  BY <1>3 DEF PostStored, Puts
<1>5. /\ store' \in [Node -> Contents]
      /\ \A o \in Node, l \in Key :
           store'[o][l] = IF o = n /\ l = k THEN v ELSE store[o][l]
  BY <1>4, StoreOK
<1>6. v # Absent
  BY RebalanceAssumption
<1>7. Round(m, "stored", run[m].todo, k, n)
  BY <1>3 DEF PostStored
<1>8. /\ RunsOK' /\ \A w \in Mover \ {m} : run'[w] = run[w]
      /\ run'[m].at = "stored" /\ run'[m].key = k /\ run'[m].keysToRemove = run[m].keysToRemove
  BY <1>1, <1>2, <1>3, <1>7, RoundOK
<1>9. TypeOK'
  BY <1>1, <1>5, <1>8 DEF TypeOK, RunsOK
<1> QED
  BY <1>1, <1>3, <1>5, <1>6, <1>8, <1>9 DEF Moved

LEMMA RemoveStep ==
  ASSUME TypeOK, NEW m \in Mover, RemoveMoved(m)
  PROVE  /\ TypeOK'
         /\ \A v \in Mover \ {m} : run'[v] = run[v]
         /\ run[m].at # "idle" /\ Moved(m)' \subseteq Moved(m)
         /\ \E k \in Moved(m) \cap Key : \A o \in Node, l \in Key :
              store'[o][l] = IF o = m[1] /\ l = k THEN Absent ELSE store[o][l]
         /\ UNCHANGED <<owner, wanted, overlap>>
<1>1. run[m].at = "posting" /\ UNCHANGED <<owner, wanted, overlap, late>>
  BY DEF RemoveMoved
<1>2. RunsOK /\ run[m] \in Runs /\ RunOK(m, run[m])
  BY DEF TypeOK, RunsOK
<1>3. PICK n \in Node : n = m[1]
  BY MoverNode
<1>4. PICK k \in run[m].keysToRemove :
        Puts(n, k, Absent) /\ BackToLoop(m, run[m].keysToRemove \ {k})
  BY <1>3 DEF RemoveMoved, Puts
<1>5. k \in Key /\ run[m].keysToRemove \ {k} \in SUBSET Held(run[m].cacheData)
  BY <1>2 DEF Runs, RunOK
<1>6. /\ store' \in [Node -> Contents]
      /\ \A o \in Node, l \in Key :
           store'[o][l] = IF o = n /\ l = k THEN Absent ELSE store[o][l]
  BY <1>4, <1>5, StoreOK
<1>7. /\ RunsOK' /\ \A w \in Mover \ {m} : run'[w] = run[w]
      /\ run'[m].at = "posting" /\ run'[m].keysToRemove = run[m].keysToRemove \ {k}
  BY <1>1, <1>2, <1>4, <1>5, BackToLoopOK
<1>8. TypeOK'
  BY <1>1, <1>6, <1>7 DEF TypeOK, RunsOK
<1>9. k \in Moved(m) /\ Moved(m)' \subseteq Moved(m)
  BY <1>7 DEF Moved
<1> QED
  BY <1>1, <1>3, <1>5, <1>6, <1>7, <1>8, <1>9

LEMMA StartStep ==
  ASSUME TypeOK, NEW m \in Mover, StartRebalance(m)
  PROVE  /\ TypeOK'
         /\ \A v \in Mover \ {m} : run'[v] = run[v]
         /\ Moved(m)' = {}
         /\ ~ overlap' => ~ overlap /\ \A other \in Busy : other[1] = m[1]
         /\ UNCHANGED <<owner, store, wanted>>
<1> DEFINE r == Run("listing", Nothing, {}, {}, Absent, Absent, {})
<1>1. r \in Runs
  BY NothingOK, RunTyped
<1>2. r.at = "listing" /\ r.todo = {} /\ r.keysToRemove = {}
  BY RunFields
<1>3. RunOK(m, r)
  BY <1>2 DEF RunOK
<1> HIDE DEF r
<1>4. Becomes(m, r)
  BY DEF StartRebalance, r
<1>5. RunsOK' /\ \A v \in Mover : run'[v] = IF v = m THEN r ELSE run[v]
  BY <1>1, <1>3, <1>4, BecomesOK DEF TypeOK, RunsOK
<1>6. TypeOK'
  BY <1>5 DEF StartRebalance, TypeOK, RunsOK
<1> QED
  BY <1>2, <1>5, <1>6 DEF StartRebalance, Moved

LEMMA LateStep ==
  ASSUME TypeOK, LateStored
  PROVE  /\ TypeOK'
         /\ \A o \in Node, l \in Key : store[o][l] # Absent => store'[o][l] # Absent
         /\ UNCHANGED <<owner, run, wanted, overlap>>
<1>1. PICK p \in late : /\ late' = late \ {p}
                        /\ store' = [store EXCEPT ![p.to][p.key] = p.value]
                        /\ UNCHANGED <<owner, run, wanted, overlap>>
  BY DEF LateStored
<1>2. PICK n \in Node, k \in Key, v \in Value : n = p.to /\ k = p.key /\ v = p.value
  BY DEF TypeOK
<1>3. Puts(n, k, v)
  BY <1>1, <1>2 DEF Puts
<1>4. /\ store' \in [Node -> Contents]
      /\ \A o \in Node, l \in Key :
           store'[o][l] = IF o = n /\ l = k THEN v ELSE store[o][l]
  BY <1>3, StoreOK
<1> QED
  BY <1>1, <1>4, RebalanceAssumption DEF TypeOK

LEMMA ClientStep ==
  ASSUME TypeOK, NEW k \in Key, NEW v \in Value \cup {Absent},
         handleData(k, v) \/ (v = Absent /\ handleDelete(k))
  PROVE  ClientWrites(k, v)
BY DEF handleData, handleDelete

LEMMA TypeStep == TypeOK /\ [Next]_vars => TypeOK'
<1> SUFFICES ASSUME TypeOK, [Next]_vars PROVE TypeOK'
  OBVIOUS
<1>1. ASSUME NEW k \in Key, handleDelete(k) PROVE TypeOK'
  BY <1>1, ClientStep, ClientTyped
<1>2. ASSUME NEW k \in Key, NEW v \in Value, handleData(k, v) PROVE TypeOK'
  BY <1>2, ClientStep, ClientTyped
<1>3. ASSUME NEW m \in Mover, StartRebalance(m) PROVE TypeOK'
  BY <1>3, StartStep
<1>4. ASSUME NEW m \in Mover, Rebalances(m) PROVE TypeOK'
  BY <1>4, LocalStep, StoredStep, RemoveStep DEF Rebalances, Local
<1>5. CASE LateStored
  BY <1>5, LateStep
<1>6. CASE UNCHANGED vars
  BY <1>6 DEF vars, TypeOK
<1> QED
  BY <1>1, <1>2, <1>3, <1>4, <1>5, <1>6 DEF Next

(* Every variable keeps its type, whatever rebalances, clients and late    *)
(* posts do, for any number of them.                                       *)
THEOREM RebalanceTypeCorrect == Spec => []TypeOK
BY TypeInit, TypeStep, PTL DEF Spec

-----------------------------------------------------------------------------
(* A rebalance alone *)

(* Nobody else loses k, and its owner neither unless a client deletes it.  *)
LEMMA CopiedKept ==
  ASSUME NEW m \in Mover, NEW k \in Key, Copied(m, k), UNCHANGED <<owner, wanted>>,
         \A n \in Node \ {m[1]} : store[n][k] # Absent => store'[n][k] # Absent
  PROVE  Copied(m, k)'
BY DEF Copied

LEMMA MovedKeys ==
  ASSUME TypeOK, NEW m \in Mover
  PROVE  /\ Moved(m) \subseteq Key
         /\ run[m].at = "idle" => Moved(m) = {}
<1>1. run[m] \in Runs /\ RunOK(m, run[m]) /\ NoRun.keysToRemove = {}
  BY NoRunOK DEF TypeOK
<1> QED
  BY <1>1 DEF Moved, RunOK, Runs, Held

(* A step of m after which no cache holds less than before, except m's own *)
(* for one key that is elsewhere.                                          *)
LEMMA MoverAlone ==
  ASSUME TypeOK, AloneOK, NEW m \in Mover,
         \A v \in Mover \ {m} : run'[v] = run[v],
         \A other \in Busy : other[1] = m[1],
         \A k \in Moved(m)' \ Moved(m) : Copied(m, k)',
         UNCHANGED <<owner, wanted>>,
         \A n \in Node, l \in Key :
           store[n][l] # Absent => store'[n][l] # Absent \/ (n = m[1] /\ l \in Moved(m)),
         TypeOK'
  PROVE  AloneOK'
<1>1. \A v, other \in Busy' : v[1] = other[1]
  BY DEF Busy
<1>2. ASSUME NEW v \in Mover, NEW k \in Moved(v), v[1] = m[1] PROVE k \in Key /\ Copied(v, k)'
  <2>1. k \in Key /\ Copied(v, k)
    BY MovedKeys DEF AloneOK
  <2>2. \A n \in Node \ {v[1]} : store[n][k] # Absent => store'[n][k] # Absent
    BY <1>2, <2>1
  <2> QED
    BY <2>1, <2>2, CopiedKept
<1>3. ASSUME NEW v \in Mover, NEW k \in Moved(v)' PROVE Copied(v, k)'
  <2>1. CASE v # m
    <3>1. Moved(v)' = Moved(v)
      BY <2>1 DEF Moved
    <3>2. v[1] = m[1]
      BY <1>3, <3>1, MovedKeys DEF Busy
    <3> QED
      BY <1>2, <3>1, <3>2
  <2> QED
    BY <1>2, <2>1
<1>4. ASSUME NEW k \in Key, wanted'[k] # Absent PROVE Somewhere(k)'
  <2>1. PICK n \in Node : store[n][k] # Absent
    BY <1>4 DEF AloneOK, Somewhere
  <2>2. CASE k \in Moved(m)
    <3>1. PICK o \in Node \ {m[1]} : store[o][k] # Absent
      BY <1>4, <2>2 DEF AloneOK, Copied
    <3> QED
      BY <3>1 DEF Somewhere
  <2> QED
    BY <2>1, <2>2 DEF Somewhere
<1> QED
  BY <1>1, <1>3, <1>4 DEF AloneOK

(* A client's request leaves every run alone. *)
LEMMA ClientAlone ==
  ASSUME TypeOK, AloneOK, NEW k \in Key, NEW v \in Value \cup {Absent}, ClientWrites(k, v)
  PROVE  AloneOK'
<1>1. /\ \A o \in Node, l \in Key :
           store'[o][l] = IF o = owner[k] /\ l = k THEN v ELSE store[o][l]
      /\ \A l \in Key : wanted'[l] = IF l = k THEN v ELSE wanted[l]
      /\ UNCHANGED <<owner, run>>
  BY ClientTyped DEF ClientWrites
<1>2. owner[k] \in Node
  BY DEF TypeOK
<1>3. \A m \in Mover : Moved(m)' = Moved(m)
  BY <1>1 DEF Moved
<1>4. ASSUME NEW m \in Mover, NEW l \in Moved(m) PROVE Copied(m, l)'
  <2>1. l \in Key /\ Copied(m, l)
    BY MovedKeys DEF AloneOK
  <2>2. CASE l # k
    BY <1>1, <2>1, <2>2 DEF Copied
  <2>3. CASE l = k /\ owner[k] = m[1]
    BY <1>1, <2>1, <2>3 DEF Copied
  <2>4. CASE l = k /\ owner[k] # m[1]
    BY <1>1, <1>2, <2>1, <2>4 DEF Copied
  <2> QED
    BY <2>2, <2>3, <2>4
<1>5. ASSUME NEW l \in Key, wanted'[l] # Absent PROVE Somewhere(l)'
  <2>1. CASE l = k
    BY <1>1, <1>2, <1>5, <2>1 DEF Somewhere
  <2>2. CASE l # k
    BY <1>1, <1>5, <2>2 DEF AloneOK, Somewhere
  <2> QED
    BY <2>1, <2>2
<1> QED
  BY <1>1, <1>3, <1>4, <1>5 DEF AloneOK, Busy

LEMMA AloneStep == AloneInv /\ [Next]_vars => AloneInv'
<1> SUFFICES ASSUME AloneInv, [Next]_vars, ~ overlap' PROVE AloneOK'
  BY TypeStep DEF AloneInv
<1>0. TypeOK /\ TypeOK' /\ (~ overlap => AloneOK)
  BY TypeStep DEF AloneInv
<1>1. ASSUME NEW k \in Key, handleDelete(k) PROVE AloneOK'
  BY <1>0, <1>1, ClientStep, ClientAlone DEF ClientWrites
<1>2. ASSUME NEW k \in Key, NEW v \in Value, handleData(k, v) PROVE AloneOK'
  BY <1>0, <1>2, ClientStep, ClientAlone DEF ClientWrites
<1>3. ASSUME NEW m \in Mover, StartRebalance(m) PROVE AloneOK'
  BY <1>0, <1>3, StartStep, MoverAlone
<1>4. ASSUME NEW m \in Mover, Rebalances(m) PROVE AloneOK'
  <2>1. overlap' = overlap /\ AloneOK /\ m \in Busy
    BY <1>0, <1>4, LocalStep, StoredStep, RemoveStep DEF Rebalances, Local, Busy
  <2>2. \A other \in Busy : other[1] = m[1]
    BY <2>1 DEF AloneOK
  <2>3. CASE Local(m)
    BY <1>0, <2>1, <2>2, <2>3, LocalStep, MoverAlone
  <2>4. CASE PostStored(m)
    <3>1. \A k \in Moved(m)' \ Moved(m) : Copied(m, k)'
      BY <1>0, <2>4, StoredStep DEF Copied
    <3> QED
      BY <1>0, <2>1, <2>2, <2>4, <3>1, StoredStep, MoverAlone
  <2>5. CASE RemoveMoved(m)
    <3>1. \A n \in Node, l \in Key :
            store[n][l] # Absent => store'[n][l] # Absent \/ (n = m[1] /\ l \in Moved(m))
      BY <1>0, <2>5, RemoveStep
    <3> QED
      BY <1>0, <2>1, <2>2, <2>5, <3>1, RemoveStep, MoverAlone
  <2> QED
    BY <1>4, <2>3, <2>4, <2>5 DEF Rebalances, Local
<1>5. CASE LateStored
  <2>1. /\ AloneOK /\ UNCHANGED <<owner, run, wanted>>
        /\ \A o \in Node, l \in Key : store[o][l] # Absent => store'[o][l] # Absent
    BY <1>0, <1>5, LateStep
  <2>2. ASSUME NEW m \in Mover, NEW k \in Moved(m) PROVE Copied(m, k)'
    BY <1>0, <2>1, MovedKeys, CopiedKept DEF AloneOK
  <2>3. \A k \in Key : Somewhere(k) => Somewhere(k)'
    BY <2>1 DEF Somewhere
  <2> QED
    BY <2>1, <2>2, <2>3 DEF AloneOK, Moved, Busy
<1>6. CASE UNCHANGED vars
  BY <1>0, <1>6 DEF vars, AloneOK, Moved, Busy, Copied, Somewhere
<1> QED
  BY <1>1, <1>2, <1>3, <1>4, <1>5, <1>6 DEF Next

(* As long as no two nodes rebalance at the same time, no key is lost, for *)
(* any number of nodes, keys and overlapping rebalances of one node.       *)
THEOREM NoKeyLostAlone == Spec => []KeysSurviveAlone
<1>1. Init => AloneInv
  <2> SUFFICES ASSUME Init PROVE AloneOK
    BY TypeInit DEF AloneInv
  <2>1. \A m \in Mover : run[m].at = "idle" /\ Moved(m) = {}
    BY NoRunOK DEF Init, Moved
  <2> QED
    BY <2>1 DEF AloneOK, Busy, Init, Nothing
<1>2. AloneInv => KeysSurviveAlone
  BY DEF AloneInv, AloneOK, KeysSurviveAlone
<1> QED
  BY <1>1, <1>2, AloneStep, PTL DEF Spec

=============================================================================
