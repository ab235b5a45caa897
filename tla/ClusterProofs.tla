--------------------------- MODULE ClusterProofs ---------------------------
(***************************************************************************)
(* Proofs about Cluster, for any number of masters, nodes, keys, values    *)
(* and requests, however often these start, stop and crash.                *)
(***************************************************************************)
EXTENDS Cluster, TLAPS

(* What a GET finds through m is among what it may find. *)
FoundOK ==
  \A m \in Master, k \in Key :
    route[m][k] \in Node => store[route[m][k]][k] \in may[m][k]

(* What may still be written is among it, too. *)
PendingOK == \A m \in Master, k \in Key : InFlight(k) \subseteq may[m][k]

(* A request of which nothing but client requests has interfered. *)
FreshAt(r, m, k) ==
  /\ InFlight(k) \subseteq {r.what} \cup r.seen
  /\ r.what = read => may[m][k] \subseteq r.seen
  /\ r.at \in {"named", "sent", "handled"} => r.name = route[m][k]
  /\ r.at = "handled" /\ Reached(r.what, k) = k =>
       IF r.what = read THEN r.gave \in r.seen
       ELSE store[route[m][k]][k] \in {r.what} \cup r.seen

FreshOK(c) ==
  /\ req[c].fresh => req[c].at \notin {"idle", "lost"}
  /\ \A m \in Master, k \in Key :
       req[c].fresh /\ req[c].master = m /\ req[c].key = k => FreshAt(req[c], m, k)

ReadInv == TypeOK /\ FoundOK /\ PendingOK /\ \A c \in Request : FreshOK(c)

(* An intact ring that is not empty gives one of its nodes for every key. *)
RouteOK ==
  \A m \in Master \ disturbed, k \in Key : ring[m] # {} => route[m][k] \in ring[m]

CalmOK(c) ==
  req[c].calm =>
    /\ req[c].at \in {"counted", "named"}
    /\ Settled(req[c].master)
    /\ req[c].at = "named" => req[c].name \in auxNodes[req[c].master]

CalmInv == TypeOK /\ RouteOK /\ \A c \in Request : CalmOK(c)

-----------------------------------------------------------------------------
(* Types *)

RequestsOK ==
  /\ req \in [Request -> Requests]
  /\ \A c \in Request : RequestOK(req[c])

LEMMA IdleOK == Idle \in Requests /\ RequestOK(Idle)
BY DEF Idle, Requests, RequestOK, Content

LEMMA BecomesOK ==
  ASSUME TypeOK, NEW c \in Request, NEW r \in Requests, RequestOK(r), Becomes(c, r),
         running' = running
  PROVE  RequestsOK'
BY DEF TypeOK, RequestsOK, RequestOK, Becomes

LEMMA ForgetsOK ==
  ASSUME TypeOK, NEW lost, NEW touched, Forgets(lost, touched), running' = running
  PROVE  /\ RequestsOK'
         /\ may' \in [Master -> [Key -> SUBSET Content]]
<1>1. may' \in [Master -> [Key -> SUBSET Content]]
  BY DEF TypeOK, Forgets
<1>2. \A c \in Request :
         /\ req'[c] \in Requests
         /\ req'[c].at = req[c].at /\ req'[c].key = req[c].key
         /\ req'[c].master = req[c].master /\ req'[c].name = req[c].name
  <2> SUFFICES ASSUME NEW c \in Request
               PROVE  /\ req'[c] \in Requests
                      /\ req'[c].at = req[c].at /\ req'[c].key = req[c].key
                      /\ req'[c].master = req[c].master /\ req'[c].name = req[c].name
    OBVIOUS
  <2>1. req[c] \in Requests
    BY DEF TypeOK
  <2>2. PICK f \in BOOLEAN, h \in BOOLEAN, s \in {{}, req[c].seen} :
          req'[c] = [req[c] EXCEPT !.fresh = f, !.seen = s, !.calm = h]
    <3>1. /\ (req[c].fresh /\ <<req[c].master, req[c].key>> \notin lost) \in BOOLEAN
          /\ (req[c].calm /\ req[c].master \notin touched) \in BOOLEAN
      BY <2>1 DEF Requests
    <3> QED
      BY <3>1 DEF Forgets
  <2> QED
    BY <2>1, <2>2 DEF Requests
<1>3. req' \in [Request -> Requests]
  BY <1>2 DEF Forgets
<1>4. \A c \in Request : RequestOK(req[c])'
  BY <1>2 DEF TypeOK, RequestOK
<1> QED
  BY <1>1, <1>3, <1>4 DEF RequestsOK

LEMMA ReachedOK ==
  ASSUME NEW k \in Key, NEW w \in Content \cup {read}
  PROVE  /\ Reached(w, k) \in Key \cup {nobody}
         /\ w = read => Reached(w, k) = PathKey[k]
BY ClusterAssumption DEF Reached

LEMMA InFlightType ==
  ASSUME TypeOK, NEW k \in Key
  PROVE  InFlight(k) \subseteq Content
BY DEF TypeOK, InFlight, Writing, Open, Requests, Idle

LEMMA CountedOK ==
  ASSUME TypeOK, NEW k \in Key, NEW w \in Content \cup {read}, NEW m \in running,
         NEW tried \in SUBSET Master
  PROVE  Counted(k, w, m, tried) \in Requests /\ RequestOK(Counted(k, w, m, tried))
<1>1. InFlight(k) \subseteq Content /\ may[m][k] \subseteq Content
  BY InFlightType DEF TypeOK
<1>2. Settled(m) \in BOOLEAN
  BY DEF Settled
<1> QED
  BY <1>1, <1>2 DEF TypeOK, Counted, Requests, RequestOK, Content

LEMMA CountNodesOK ==
  ASSUME TypeOK, NEW c \in Request, NEW k \in Key, NEW w \in Content \cup {read},
         NEW m \in running, NEW tried \in SUBSET Master,
         CountNodes(c, k, w, m, tried), running' = running
  PROVE  /\ RequestsOK'
         /\ may' \in [Master -> [Key -> SUBSET Content]]
<1>1. CASE auxNodes[m] = {}
  <2>1. Becomes(c, Idle) /\ may' = may
    BY <1>1 DEF CountNodes
  <2> QED
    BY <2>1, IdleOK, BecomesOK DEF TypeOK
<1>2. CASE auxNodes[m] # {}
  <2>1. \A d \in Request : req[d] \in Requests /\ RequestOK(req[d])
    BY DEF TypeOK
  <2>2. \A d \in Request : w # read => Sees(req[d], w) \in Requests /\ RequestOK(Sees(req[d], w))
    BY <2>1 DEF Requests, RequestOK, Sees
  <2>3. /\ req'[c] = Counted(k, w, m, tried)
        /\ \A d \in Request \ {c} : req'[d] = req[d] \/ (w # read /\ req'[d] = Sees(req[d], w))
    BY <1>2 DEF CountNodes
  <2>4. \A d \in Request \ {c} : req'[d] \in Requests /\ RequestOK(req'[d])
    BY <2>1, <2>2, <2>3
  <2>5. \A d \in Request : req'[d] \in Requests /\ RequestOK(req[d])'
    BY <2>3, <2>4, CountedOK DEF RequestOK
  <2>6. req' = [d \in Request |-> req'[d]]
    BY <1>2 DEF CountNodes
  <2>7. may' \in [Master -> [Key -> SUBSET Content]]
    BY <1>2 DEF CountNodes, TypeOK
  <2> QED
    BY <2>5, <2>6, <2>7 DEF RequestsOK
<1> QED
  BY <1>1, <1>2

RestOK ==
  /\ auxNodes \in [Master -> SUBSET Node]
  /\ ring \in [Master -> SUBSET Node]
  /\ route \in [Master -> [Key -> Node \cup {nobody}]]
  /\ disturbed \subseteq Master
  /\ phase \in [Node -> {"down", "joining", "serving", "leaving"}]
  /\ edit \in [Node -> [at : {"none", "add", "write", "remove", "delete"},
                        master : Master \cup {nobody}]]
  /\ \A n \in Node : edit[n] = NoEdit \/ (edit[n].at # "none" /\ edit[n].master \in running)
  /\ moving \subseteq Node
  /\ changes \in 0 .. MaxChanges

DataOK ==
  /\ store \in [Node -> [Key -> Content]]
  /\ late \subseteq [to : Node, key : Key, value : Content]
  /\ may \in [Master -> [Key -> SUBSET Content]]

LEMMA TypeParts ==
  TypeOK <=> running \subseteq Master /\ RestOK /\ DataOK /\ RequestsOK
BY DEF TypeOK, RestOK, DataOK, RequestsOK

LEMMA TypeInit == Init => TypeOK
BY ClusterAssumption, IdleOK
   DEF Init, TypeOK, NoEdit, Edit, Nothing, RequestOK, Idle, Requests, Content

(* Where the rest is unchanged, the requests, stores and writes remain. *)
LEMMA RestKept ==
  ASSUME TypeOK, UNCHANGED clusterOnly, RequestsOK', DataOK'
  PROVE  TypeOK'
<1>1. running' \subseteq Master /\ RestOK'
  BY DEF TypeOK, RestOK, clusterOnly
<1> QED
  BY <1>1 DEF TypeOK, RestOK, DataOK, RequestsOK

LEMMA TypeArrives ==
  ASSUME TypeOK, NEW c \in Request, NEW k \in Key, NEW w \in Content \cup {read},
         NEW m \in Master, Arrives(c, k, w, m)
  PROVE  TypeOK'
<1>1. m \in running /\ {m} \in SUBSET Master /\ CountNodes(c, k, w, m, {m})
  BY DEF Arrives
<1>2. UNCHANGED clusterOnly /\ UNCHANGED <<store, late>> /\ running' = running
  BY DEF Arrives, clusterOnly
<1>3. RequestsOK' /\ may' \in [Master -> [Key -> SUBSET Content]]
  BY <1>1, <1>2, CountNodesOK
<1> QED
  BY <1>2, <1>3, RestKept DEF TypeOK, DataOK

LEMMA TypeGoesOn ==
  ASSUME TypeOK, NEW c \in Request, GoesOn(c)
  PROVE  TypeOK'
<1> DEFINE r == req[c]
<1>1. r \in Requests /\ RequestOK(r) /\ DataOK
  BY DEF TypeOK, DataOK
<1>2. UNCHANGED clusterOnly => running' = running
  BY DEF clusterOnly
<1>3. CASE RingGet(c)
  <2> DEFINE n == route[r.master][r.key]
             q == IF n = nobody THEN Idle ELSE [r EXCEPT !.at = "named", !.name = n]
  <2>1. r.at = "counted" /\ UNCHANGED clusterOnly /\ DataOK'
    BY <1>1, <1>3 DEF RingGet, DataOK
  <2>2. n \in Node \cup {nobody}
    BY <1>1, <2>1 DEF TypeOK, RequestOK
  <2>3. q \in Requests /\ RequestOK(q)
    BY <1>1, <2>1, <2>2, IdleOK DEF Requests, RequestOK
  <2>4. Becomes(c, q)
    BY <1>3 DEF RingGet
  <2> HIDE DEF q
  <2> QED
    BY <1>2, <2>1, <2>3, <2>4, BecomesOK, RestKept
<1>4. CASE FindNode(c)
  <2> DEFINE q == IF r.name \in auxNodes[r.master]
                  THEN [r EXCEPT !.at = "sent", !.calm = FALSE] ELSE Idle
  <2>1. r.at = "named" /\ UNCHANGED clusterOnly /\ DataOK'
    BY <1>1, <1>4 DEF FindNode, DataOK
  <2>2. q \in Requests /\ RequestOK(q)
    BY <1>1, <2>1, IdleOK DEF Requests, RequestOK
  <2>3. Becomes(c, q)
    BY <1>4 DEF FindNode
  <2> HIDE DEF q
  <2> QED
    BY <1>2, <2>1, <2>2, <2>3, BecomesOK, RestKept
<1>5. CASE Handled(c)
  <2> DEFINE k == Reached(r.what, r.key)
             g == IF r.what = read THEN store[r.name][k] ELSE Absent
             q == [r EXCEPT !.at = "handled", !.gave = g]
  <2>1. r.at = "sent" /\ UNCHANGED clusterOnly /\ k # nobody
    BY <1>5 DEF Handled
  <2>2. r.name \in Node /\ r.key \in Key /\ r.what \in Content \cup {read} /\ k \in Key
    BY <1>1, <2>1, ReachedOK DEF Requests, RequestOK
  <2>7. \/ r.what # read /\ store' = [store EXCEPT ![r.name][k] = r.what]
        \/ UNCHANGED store
    BY <1>5 DEF Handled
  <2>6. g \in Content
    BY <1>1, <2>2 DEF DataOK, Content
  <2> HIDE DEF g
  <2>3. q \in Requests /\ RequestOK(q)
    BY <1>1, <2>1, <2>2, <2>6 DEF Requests, RequestOK
  <2>4. Becomes(c, q)
    BY <1>5 DEF Handled, g
  <2>5. DataOK'
    <3>1. UNCHANGED <<late, may>>
      BY <1>5 DEF Handled
    <3> HIDE DEF k, q
    <3>2. store' \in [Node -> [Key -> Content]]
      <4>1. store \in [Node -> [Key -> Content]] /\ (r.what # read => r.what \in Content)
        BY <1>1, <2>2 DEF DataOK
      <4> QED
        BY <2>2, <2>7, <4>1
    <3> QED
      BY <1>1, <3>1, <3>2 DEF DataOK
  <2> HIDE DEF q
  <2> QED
    BY <1>2, <2>1, <2>3, <2>4, <2>5, BecomesOK, RestKept
<1>6. CASE Replied(c)
  <2>1. UNCHANGED clusterOnly /\ Becomes(c, Idle) /\ DataOK'
    BY <1>1, <1>6 DEF Replied, DataOK
  <2> QED
    BY <1>2, <2>1, IdleOK, BecomesOK, RestKept
<1>7. CASE ForwardFails(c) \/ RetryEnds(c)
  <2>1. UNCHANGED clusterOnly /\ Becomes(c, Idle) /\ DataOK'
    BY <1>1, <1>7 DEF ForwardFails, RetryEnds, DataOK
  <2> QED
    BY <1>2, <2>1, IdleOK, BecomesOK, RestKept
<1>8. CASE ForwardGivenUp(c)
  <2>1. r.name \in Node /\ r.key \in Key /\ r.what \in Content /\ Forwarded(c).key # nobody
    BY <1>1, <1>8 DEF ForwardGivenUp, Outlives, Writing, Open, Requests, RequestOK
  <2>2. Forwarded(c) \in [to : Node, key : Key, value : Content]
    BY <2>1, ReachedOK DEF Forwarded
  <2>3. UNCHANGED clusterOnly /\ Becomes(c, Idle) /\ DataOK'
    BY <1>1, <1>8, <2>2 DEF ForwardGivenUp, DataOK
  <2> QED
    BY <1>2, <2>3, IdleOK, BecomesOK, RestKept
<1>9. ASSUME NEW m \in Master, Retry(c, m)
      PROVE  TypeOK'
  <2>1. r.at = "lost" /\ m \in running /\ CountNodes(c, r.key, r.what, m, r.tried \cup {m})
    BY <1>9 DEF Retry
  <2>2. r.key \in Key /\ r.what \in Content \cup {read} /\ r.tried \cup {m} \in SUBSET Master
    BY <1>1, <2>1 DEF Requests, RequestOK
  <2>3. UNCHANGED clusterOnly /\ UNCHANGED <<store, late>>
    BY <1>9 DEF Retry
  <2>4. RequestsOK' /\ may' \in [Master -> [Key -> SUBSET Content]]
    BY <1>2, <2>1, <2>2, <2>3, CountNodesOK
  <2> QED
    BY <2>3, <2>4, RestKept DEF TypeOK, DataOK
<1> QED
  BY <1>3, <1>4, <1>5, <1>6, <1>7, <1>8, <1>9 DEF GoesOn

LEMMA TypeLate ==
  ASSUME TypeOK, LateHandled
  PROVE  TypeOK'
<1>1. RequestsOK' /\ DataOK'
  BY DEF TypeOK, LateHandled, RequestsOK, RequestOK, DataOK, clusterOnly
<1> QED
  BY <1>1, RestKept DEF LateHandled

LEMMA TypeMasterCrashes ==
  ASSUME TypeOK, NEW m \in Master, MasterCrashes(m)
  PROVE  TypeOK'
<1> DEFINE its == {c \in Request : Open(c) /\ req[c].master = m}
           gone(c) == [Idle EXCEPT !.at = "lost", !.what = req[c].what, !.key = req[c].key,
                                   !.tried = req[c].tried]
<1>1. running' = running \ {m}
  BY DEF MasterCrashes
<1>2. \A c \in Request : req[c] \in Requests /\ RequestOK(req[c])
  BY DEF TypeOK
<1>3. \A c \in its : gone(c) \in Requests /\ gone(c).at = "lost" /\ gone(c).key \in Key
  BY <1>2 DEF Open, Idle, Requests, RequestOK, Content
<1>4. req' = [c \in Request |-> IF c \in its THEN gone(c) ELSE req[c]]
  BY DEF MasterCrashes
<1>5. \A c \in Request \ its : RequestOK(req[c])'
  BY <1>1, <1>2, <1>4 DEF RequestOK, Open
<1> HIDE DEF gone
<1>6. RequestsOK'
  <2>1. \A c \in its : req'[c] \in Requests /\ RequestOK(req[c])'
    BY <1>3, <1>4 DEF RequestOK
  <2>2. \A c \in Request \ its : req'[c] \in Requests /\ RequestOK(req[c])'
    BY <1>2, <1>4, <1>5
  <2> QED
    BY <1>4, <2>1, <2>2 DEF RequestsOK
<1>7. DataOK'
  <2>1. \A c \in Request : Writing(c) => req[c].what \in Content
    BY <1>2 DEF Writing, Requests
  <2>2. \A c \in Request : Outlives(c) => Forwarded(c) \in [to : Node, key : Key, value : Content]
    <3> SUFFICES ASSUME NEW c \in Request, Outlives(c)
                 PROVE  Forwarded(c) \in [to : Node, key : Key, value : Content]
      OBVIOUS
    <3>1. /\ req[c].name \in Node /\ req[c].key \in Key /\ req[c].what \in Content
          /\ Forwarded(c).key # nobody
      BY <1>2, <2>1 DEF RequestOK, Outlives
    <3> QED
      BY <3>1, ReachedOK DEF Forwarded
  <2>3. PICK S \in SUBSET {c \in its : Outlives(c)} :
          late' = late \cup {Forwarded(c) : c \in S}
    BY DEF MasterCrashes
  <2>4. late' \subseteq [to : Node, key : Key, value : Content]
    <3>1. late \subseteq [to : Node, key : Key, value : Content]
      BY DEF TypeOK
    <3> HIDE DEF its
    <3>2. \A c \in S : Forwarded(c) \in [to : Node, key : Key, value : Content]
      BY <2>2 DEF its
    <3> QED
      BY <2>3, <3>1, <3>2
  <2> QED
    BY <2>4 DEF MasterCrashes, TypeOK, DataOK
<1>8. /\ edit' \in [Node -> [at : {"none", "add", "write", "remove", "delete"},
                              master : Master \cup {nobody}]]
      /\ \A n \in Node : (edit[n] = NoEdit \/ (edit[n].at # "none" /\ edit[n].master \in running))'
  <2>1. PICK o \in (running \ {m}) \cup {nobody} :
          edit' = [n \in Node |->
                     IF edit[n].master # m THEN edit[n]
                     ELSE IF edit[n].at \in {"remove", "delete"} /\ o # nobody /\ n \in auxNodes[o]
                     THEN Edit("remove", o) ELSE NoEdit]
    BY DEF MasterCrashes
  <2> QED
    BY <1>1, <2>1 DEF TypeOK, NoEdit, Edit
<1>9. changes' \in 0 .. MaxChanges
  <2>1. changes < MaxChanges /\ changes' = changes + 1
    BY DEF MasterCrashes, Changes
  <2> QED
    BY <2>1, ClusterAssumption DEF TypeOK
<1> QED
  BY <1>1, <1>6, <1>7, <1>8, <1>9, ClusterAssumption DEF MasterCrashes, TypeOK, RequestsOK, DataOK

(* What the rest of the lemmas use of an action on a registry or a node. *)
LEMMA TypeRing ==
  ASSUME TypeOK, NEW m \in Master, NEW N \in SUBSET Node, RingBecomes(m, N), running' = running
  PROVE  /\ ring' \in [Master -> SUBSET Node]
         /\ route' \in [Master -> [Key -> Node \cup {nobody}]]
         /\ RequestsOK'
         /\ may' \in [Master -> [Key -> SUBSET Content]]
<1>1. PICK r \in [Key -> N \cup {nobody}] :
        route' = [route EXCEPT ![m] = r] /\ \E lost : Forgets(lost, {m})
  BY DEF RingBecomes, HashRing!Routes
<1>2. RequestsOK' /\ may' \in [Master -> [Key -> SUBSET Content]]
  BY <1>1, ForgetsOK
<1>3. ring' \in [Master -> SUBSET Node]
  BY DEF RingBecomes, TypeOK
<1>4. r \in [Key -> Node \cup {nobody}]
  BY <1>1
<1>5. route' \in [Master -> [Key -> Node \cup {nobody}]]
  BY <1>1, <1>4 DEF TypeOK
<1> QED
  BY <1>2, <1>3, <1>5

LEMMA EditBecomes ==
  ASSUME TypeOK, NEW n \in Node, running' = running, NEW e, edit' = [edit EXCEPT ![n] = e],
         \/ e = NoEdit
         \/ \E at \in {"add", "write", "remove", "delete"}, m \in running : e = Edit(at, m)
  PROVE  /\ edit' \in [Node -> [at : {"none", "add", "write", "remove", "delete"},
                                master : Master \cup {nobody}]]
         /\ \A o \in Node :
              (edit[o] = NoEdit \/ (edit[o].at # "none" /\ edit[o].master \in running))'
<1>1. /\ e \in [at : {"none", "add", "write", "remove", "delete"}, master : Master \cup {nobody}]
      /\ e = NoEdit \/ (e.at # "none" /\ e.master \in running)
  BY DEF TypeOK, Edit, NoEdit
<1>2. edit'[n] = e /\ \A o \in Node \ {n} : edit'[o] = edit[o]
  BY DEF TypeOK
<1>3. \A o \in Node : (edit[o] = NoEdit \/ (edit[o].at # "none" /\ edit[o].master \in running))
  BY DEF TypeOK
<1>4. edit' \in [Node -> [at : {"none", "add", "write", "remove", "delete"},
                          master : Master \cup {nobody}]]
  BY <1>1 DEF TypeOK
<1>5. NoEdit' = NoEdit
  BY DEF NoEdit, Edit
<1> QED
  BY <1>1, <1>2, <1>3, <1>4, <1>5

LEMMA TypeChanged ==
  ASSUME TypeOK, NEW n \in Node, Changed(n)
  PROVE  TypeOK'
<1>1. Changes => changes' \in 0 .. MaxChanges
  BY ClusterAssumption DEF Changes, TypeOK
<1>2. edit[n].at # "none" => edit[n].master \in running /\ edit[n].master \in Master
  BY DEF TypeOK, NoEdit, Edit
<1>3. CASE Starts(n)
  <2>1. running' = running /\ Forgets(Reaching({n}, Key), {})
    BY <1>3 DEF Starts
  <2>2. RequestsOK' /\ may' \in [Master -> [Key -> SUBSET Content]]
    BY <2>1, ForgetsOK
  <2>3. store' \in [Node -> [Key -> Content]]
    BY <1>3 DEF Starts, TypeOK
  <2>5. \E e : /\ edit' = [edit EXCEPT ![n] = e]
               /\ \/ e = NoEdit
                  \/ \E at \in {"add", "write", "remove", "delete"}, m \in running : e = Edit(at, m)
    BY <1>3 DEF Starts, TypeOK
  <2>4. RestOK'
    BY <1>1, <1>3, <2>1, <2>5, EditBecomes DEF Starts, TypeOK, RestOK
  <2> QED
    BY <1>3, <2>1, <2>2, <2>3, <2>4 DEF Starts, TypeOK, RestOK, RequestsOK
<1>4. CASE RegisterAdd(n)
  <2> DEFINE m == edit[n].master
  <2>1. m \in Master /\ m \in running /\ running' = running
    BY <1>2, <1>4 DEF RegisterAdd
  <2>2. ring[m] \cup {n} \in SUBSET Node /\ RingBecomes(m, ring[m] \cup {n})
    BY <1>4, <2>1 DEF RegisterAdd, TypeOK
  <2>3. /\ ring' \in [Master -> SUBSET Node] /\ route' \in [Master -> [Key -> Node \cup {nobody}]]
        /\ RequestsOK' /\ may' \in [Master -> [Key -> SUBSET Content]]
    BY <2>1, <2>2, TypeRing
  <2>4. RestOK'
    BY <1>4, <2>1, <2>3, EditBecomes DEF RegisterAdd, TypeOK, RestOK
  <2> QED
    BY <1>4, <2>3, <2>4 DEF RegisterAdd, TypeOK, RestOK, RequestsOK
<1>5. CASE RegisterWrite(n) \/ DeregisterDelete(n)
  <2>1. running' = running /\ Forgets({}, {edit[n].master})
    BY <1>5 DEF RegisterWrite, DeregisterDelete
  <2>2. RequestsOK' /\ may' \in [Master -> [Key -> SUBSET Content]]
    BY <2>1, ForgetsOK
  <2>4. edit' = [edit EXCEPT ![n] = NoEdit]
    BY <1>5 DEF RegisterWrite, DeregisterDelete
  <2>5. auxNodes' \in [Master -> SUBSET Node]
    <3>1. /\ auxNodes \in [Master -> SUBSET Node]
          /\ \E N \in SUBSET Node : auxNodes' = [auxNodes EXCEPT ![edit[n].master] = N]
      BY <1>2, <1>5 DEF RegisterWrite, DeregisterDelete, TypeOK
    <3> QED
      BY <3>1
  <2>3. RestOK'
    BY <1>5, <2>1, <2>4, <2>5, EditBecomes DEF RegisterWrite, DeregisterDelete, TypeOK, RestOK
  <2> QED
    BY <1>5, <2>2, <2>3 DEF RegisterWrite, DeregisterDelete, TypeOK, RestOK, RequestsOK
<1>6. CASE Serves(n)
  BY <1>6 DEF Serves, TypeOK, RequestOK
<1>7. CASE Leaves(n)
  <2>2. running' = running
    BY <1>7 DEF Leaves
  <2>3. \E e : /\ edit' = [edit EXCEPT ![n] = e]
               /\ \/ e = NoEdit
                  \/ \E at \in {"add", "write", "remove", "delete"}, m \in running : e = Edit(at, m)
    BY <1>7 DEF Leaves, TypeOK
  <2>1. RestOK'
    BY <1>1, <1>7, <2>2, <2>3, EditBecomes DEF Leaves, TypeOK, RestOK
  <2> QED
    BY <1>7, <2>1 DEF Leaves, TypeOK, RestOK, RequestOK
<1>8. CASE DeregisterRing(n)
  <2> DEFINE m == edit[n].master
  <2>1. m \in Master /\ m \in running /\ running' = running
    BY <1>2, <1>8 DEF DeregisterRing
  <2>2. ring[m] \ {n} \in SUBSET Node /\ RingBecomes(m, ring[m] \ {n})
    BY <1>8, <2>1 DEF DeregisterRing, TypeOK
  <2>3. /\ ring' \in [Master -> SUBSET Node] /\ route' \in [Master -> [Key -> Node \cup {nobody}]]
        /\ RequestsOK' /\ may' \in [Master -> [Key -> SUBSET Content]]
    BY <2>1, <2>2, TypeRing
  <2>4. RestOK'
    BY <1>8, <2>1, <2>3, EditBecomes DEF DeregisterRing, TypeOK, RestOK
  <2> QED
    BY <1>8, <2>3, <2>4 DEF DeregisterRing, TypeOK, RestOK, RequestsOK
<1>9. CASE Exits(n) \/ Crashes(n)
  <2>1. Gone(n) /\ (UNCHANGED changes \/ Changes)
    BY <1>9 DEF Exits, Crashes
  <2>2. running' = running /\ Forgets(Reaching({n}, Key), {})
    BY <2>1 DEF Gone
  <2>3. RequestsOK' /\ may' \in [Master -> [Key -> SUBSET Content]]
    BY <2>2, ForgetsOK
  <2>4. store' \in [Node -> [Key -> Content]]
    BY <2>1 DEF Gone, TypeOK, Nothing, Content
  <2>5. RestOK'
    BY <1>1, <2>1 DEF Gone, TypeOK, RestOK
  <2> QED
    BY <2>1, <2>2, <2>3, <2>4, <2>5 DEF Gone, TypeOK, RestOK, RequestsOK
<1>10. CASE MovesKey(n)
  <2>1. PICK t \in Node, k \in Key, v \in Content :
          store' = [store EXCEPT ![t][k] = v] /\ Forgets(Reaching({t}, {k}), {})
    BY <1>10 DEF MovesKey
  <2>2. running' = running
    BY <1>10 DEF MovesKey
  <2>3. RequestsOK' /\ may' \in [Master -> [Key -> SUBSET Content]]
    BY <2>1, <2>2, ForgetsOK
  <2>4. store' \in [Node -> [Key -> Content]]
    BY <2>1 DEF TypeOK
  <2> QED
    BY <1>10, <2>3, <2>4 DEF MovesKey, TypeOK, RequestsOK
<1>11. CASE MovesEnd(n)
  BY <1>11 DEF MovesEnd, TypeOK, RequestOK
<1> QED
  BY <1>3, <1>4, <1>5, <1>6, <1>7, <1>8, <1>9, <1>10, <1>11 DEF Changed

(* Types hold, and an open request has a key, a master that is running and *)
(* the name that it was given.                                             *)
THEOREM TypeCorrect == Spec => []TypeOK
<1>1. TypeOK /\ [Next]_vars => TypeOK'
  <2> SUFFICES ASSUME TypeOK, [Next]_vars
               PROVE  TypeOK'
    OBVIOUS
  <2>1. CASE \E c \in Request, k \in Key, m \in Master :
               \/ handleGetRequest(c, k, m) \/ handleDeleteRequest(c, k, m)
               \/ \E v \in Value : handleData(c, k, v, m)
    BY <2>1, TypeArrives DEF handleGetRequest, handleDeleteRequest, handleData, Content
  <2>2. CASE \E c \in Request : GoesOn(c)
    BY <2>2, TypeGoesOn
  <2>3. CASE LateHandled
    BY <2>3, TypeLate
  <2>4. ASSUME NEW m \in Master, MasterCrashes(m)
        PROVE  TypeOK'
    BY <2>4, TypeMasterCrashes
  <2>5. ASSUME NEW m \in Master, MasterStarts(m)
        PROVE  TypeOK'
    BY <2>5 DEF MasterStarts, TypeOK, RequestOK
  <2>6. ASSUME NEW m \in Master, TriggerMoves(m)
        PROVE  TypeOK'
    <3>1. moving' \subseteq Node /\ changes' \in 0 .. MaxChanges
      BY <2>6, ClusterAssumption DEF TriggerMoves, Changes, TypeOK
    <3> QED
      BY <2>6, <3>1 DEF TriggerMoves, TypeOK, RequestOK
  <2>7. CASE \E n \in Node : Changed(n)
    BY <2>7, TypeChanged
  <2>8. CASE UNCHANGED vars
    BY <2>8 DEF vars, TypeOK, RequestOK
  <2> QED
    BY <2>1, <2>2, <2>3, <2>4, <2>5, <2>6, <2>7, <2>8 DEF Next
<1> QED
  BY <1>1, TypeInit, PTL DEF Spec

-----------------------------------------------------------------------------
(* What a GET gives *)

LEMMA InFlightIs ==
  ASSUME NEW k, NEW v
  PROVE  v \in InFlight(k) <=>
           \/ \E c \in Request :
                Writing(c) /\ Reached(req[c].what, req[c].key) = k /\ req[c].what = v
           \/ \E p \in late : p.key = k /\ p.value = v
BY DEF InFlight

(* Whatever is written, clients had asked for: only requests end. *)
LEMMA InFlightShrinks ==
  ASSUME \A c \in Request : Writing(c)' =>
           Writing(c) /\ req'[c].key = req[c].key /\ req'[c].what = req[c].what,
         \A p \in late' :
           p \in late \/ \E c \in Request : Writing(c) /\ p = Forwarded(c),
         NEW k
  PROVE  InFlight(k)' \subseteq InFlight(k)
<1> SUFFICES ASSUME NEW v, v \in InFlight(k)'
             PROVE  v \in InFlight(k)
  OBVIOUS
<1>1. CASE \E c \in Request :
             Writing(c)' /\ Reached(req'[c].what, req'[c].key) = k /\ req'[c].what = v
  BY <1>1, InFlightIs
<1>2. CASE \E p \in late' : p.key = k /\ p.value = v
  BY <1>2, InFlightIs DEF Forwarded
<1>3. \/ \E c \in Request :
           Writing(c)' /\ Reached(req'[c].what, req'[c].key) = k /\ req'[c].what = v
      \/ \E p \in late' : p.key = k /\ p.value = v
  BY DEF InFlight, Reached
<1> QED
  BY <1>1, <1>2, <1>3

LEMMA FreshTypes ==
  ASSUME ReadInv, NEW c \in Request, req[c].fresh
  PROVE  req[c].master \in Master /\ req[c].key \in Key
BY DEF ReadInv, FreshOK, TypeOK, RequestOK

(* Where a pair is lost anything may be found, and elsewhere what could be *)
(* found before.                                                           *)
LEMMA LosesOK ==
  ASSUME ReadInv, TypeOK', NEW lost,
         \A k \in Key : InFlight(k)' \subseteq InFlight(k),
         \A m \in Master, k \in Key :
           IF <<m, k>> \in lost THEN may'[m][k] = Content
           ELSE /\ may'[m][k] = may[m][k] /\ route'[m][k] = route[m][k]
                /\ route[m][k] \in Node => store'[route[m][k]][k] = store[route[m][k]][k],
         \A c \in Request : req'[c].fresh =>
           /\ req[c].fresh /\ <<req[c].master, req[c].key>> \notin lost
           /\ req'[c].at = req[c].at /\ req'[c].what = req[c].what
           /\ req'[c].key = req[c].key /\ req'[c].master = req[c].master
           /\ req'[c].name = req[c].name /\ req'[c].gave = req[c].gave
           /\ req'[c].seen = req[c].seen
  PROVE  ReadInv'
<1>1. \A m \in Master, k \in Key : may[m][k] \subseteq Content
  BY DEF ReadInv, TypeOK
<1>2. FoundOK'
  <2> SUFFICES ASSUME NEW m \in Master, NEW k \in Key, route'[m][k] \in Node
               PROVE  store'[route'[m][k]][k] \in may'[m][k]
    BY DEF FoundOK
  <2>1. store'[route'[m][k]][k] \in Content
    BY DEF TypeOK
  <2>2. CASE <<m, k>> \in lost
    BY <2>1, <2>2
  <2>3. CASE <<m, k>> \notin lost
    BY <2>3 DEF ReadInv, FoundOK
  <2> QED
    BY <2>2, <2>3
<1>3. PendingOK'
  <2> SUFFICES ASSUME NEW m \in Master, NEW k \in Key
               PROVE  InFlight(k)' \subseteq may'[m][k]
    BY DEF PendingOK
  <2>1. InFlight(k) \subseteq may[m][k] /\ InFlight(k)' \subseteq InFlight(k)
    BY DEF ReadInv, PendingOK
  <2> HIDE DEF InFlight
  <2>2. may[m][k] \subseteq may'[m][k]
    BY <1>1
  <2> QED
    BY <2>1, <2>2
<1>4. ASSUME NEW c \in Request
      PROVE  FreshOK(c)'
  <2>1. req'[c].fresh => req'[c].at \notin {"idle", "lost"}
    BY DEF ReadInv, FreshOK
  <2>2. ASSUME NEW m \in Master, NEW k \in Key,
               req'[c].fresh, req'[c].master = m, req'[c].key = k
        PROVE  FreshAt(req[c], m, k)'
    <3>1. FreshAt(req[c], m, k) /\ <<m, k>> \notin lost
      BY <2>2 DEF ReadInv, FreshOK
    <3>2. /\ may'[m][k] = may[m][k] /\ route'[m][k] = route[m][k]
          /\ route[m][k] \in Node => store'[route[m][k]][k] = store[route[m][k]][k]
      BY <3>1
    <3>3. req[c].at = "handled" => route[m][k] \in Node
      BY <3>1 DEF FreshAt, ReadInv, TypeOK, RequestOK
    <3>4. InFlight(k)' \subseteq {req[c].what} \cup req[c].seen
      BY <3>1 DEF FreshAt
    <3> QED
      BY <2>2, <3>1, <3>2, <3>3, <3>4 DEF FreshAt
  <2> QED
    BY <2>1, <2>2 DEF FreshOK
<1> QED
  BY <1>2, <1>3, <1>4 DEF ReadInv

LEMMA ForgetsReads ==
  ASSUME ReadInv, TypeOK', NEW lost, NEW touched, Forgets(lost, touched), late' \subseteq late,
         \A m \in Master, k \in Key :
           <<m, k>> \notin lost =>
             /\ route'[m][k] = route[m][k]
             /\ route[m][k] \in Node => store'[route[m][k]][k] = store[route[m][k]][k]
  PROVE  ReadInv'
<1>1. \A c \in Request :
        /\ req'[c].at = req[c].at /\ req'[c].what = req[c].what /\ req'[c].key = req[c].key
        /\ req'[c].master = req[c].master /\ req'[c].name = req[c].name
        /\ req'[c].gave = req[c].gave
        /\ req'[c].fresh =>
             /\ req[c].fresh /\ <<req[c].master, req[c].key>> \notin lost
             /\ req'[c].seen = req[c].seen
  <2>1. \A c \in Request : req[c] \in Requests
    BY DEF ReadInv, TypeOK
  <2> SUFFICES ASSUME NEW c \in Request
               PROVE  /\ req'[c].at = req[c].at /\ req'[c].what = req[c].what
                      /\ req'[c].key = req[c].key /\ req'[c].master = req[c].master
                      /\ req'[c].name = req[c].name /\ req'[c].gave = req[c].gave
                      /\ req'[c].fresh =>
                           /\ req[c].fresh /\ <<req[c].master, req[c].key>> \notin lost
                           /\ req'[c].seen = req[c].seen
    OBVIOUS
  <2> DEFINE f == req[c].fresh /\ <<req[c].master, req[c].key>> \notin lost
             h == req[c].calm /\ req[c].master \notin touched
  <2>2. req'[c] = [req[c] EXCEPT !.fresh = f, !.seen = IF f THEN @ ELSE {}, !.calm = h]
    BY DEF Forgets
  <2> QED
    BY <2>1, <2>2 DEF Requests
<1>2. \A k \in Key : InFlight(k)' \subseteq InFlight(k)
  BY <1>1, InFlightShrinks DEF Writing, Open
<1>3. \A m \in Master, k \in Key :
        may'[m][k] = IF <<m, k>> \in lost THEN Content ELSE may[m][k]
  BY DEF Forgets
<1> QED
  BY <1>1, <1>2, <1>3, LosesOK

(* A client's value is written, or nothing is: the other requests stand.   *)
LEMMA OthersStand ==
  ASSUME ReadInv, TypeOK', UNCHANGED <<route, may>>,
         \/ UNCHANGED store
         \/ \E n \in Node, k \in Key, v \in Content :
              v \in InFlight(k) /\ store' = [store EXCEPT ![n][k] = v],
         \A k \in Key : InFlight(k)' \subseteq InFlight(k)
  PROVE  /\ FoundOK' /\ PendingOK'
         /\ \A d \in Request : req'[d] = req[d] => FreshOK(d)'
<1>1. \A n \in Node, k \in Key : store'[n][k] = store[n][k] \/ store'[n][k] \in InFlight(k)
  <2>1. store \in [Node -> [Key -> Content]]
    BY DEF ReadInv, TypeOK
  <2> QED
    BY <2>1
<1>2. FoundOK'
  BY <1>1 DEF ReadInv, FoundOK, PendingOK
<1>3. PendingOK'
  BY DEF ReadInv, PendingOK
<1>4. ASSUME NEW d \in Request, req'[d] = req[d]
      PROVE  FreshOK(d)'
  <2>1. req'[d].fresh => req'[d].at \notin {"idle", "lost"}
    BY <1>4 DEF ReadInv, FreshOK
  <2>2. ASSUME NEW m \in Master, NEW k \in Key,
               req[d].fresh, req[d].master = m, req[d].key = k
        PROVE  FreshAt(req[d], m, k)'
    <3>1. FreshAt(req[d], m, k)
      BY <2>2 DEF ReadInv, FreshOK
    <3>2. req[d].at = "handled" => route[m][k] \in Node
      BY <3>1 DEF FreshAt, ReadInv, TypeOK, RequestOK
    <3>3. InFlight(k)' \subseteq {req[d].what} \cup req[d].seen
      BY <3>1 DEF FreshAt
    <3> QED
      BY <1>1, <1>4, <3>1, <3>2, <3>3 DEF FreshAt
  <2> QED
    BY <1>4, <2>1, <2>2 DEF FreshOK
<1> QED
  BY <1>2, <1>3, <1>4

LEMMA CountNodesReads ==
  ASSUME ReadInv, TypeOK', NEW c \in Request, NEW k \in Key, NEW w \in Content \cup {read},
         NEW m \in Master, NEW tried, CountNodes(c, k, w, m, tried),
         UNCHANGED <<route, store, late>>
  PROVE  ReadInv'
<1> USE DEF ReadInv
<1>1. CASE auxNodes[m] = {}
  <2>1. /\ req'[c] = Idle /\ \A d \in Request \ {c} : req'[d] = req[d]
        /\ may' = may
    BY <1>1 DEF CountNodes, Becomes, TypeOK
  <2>2. \A j \in Key : InFlight(j)' \subseteq InFlight(j)
    BY <2>1, InFlightShrinks DEF Writing, Open, Idle
  <2>3. FreshOK(c)'
    BY <2>1 DEF FreshOK, Idle
  <2> QED
    BY <2>1, <2>2, <2>3, OthersStand
<1>2. CASE auxNodes[m] # {}
  <2> DEFINE more(j) == IF w # read /\ j = Reached(w, k) THEN {w} ELSE {}
  <2>1. /\ req'[c] = Counted(k, w, m, tried)
        /\ \A d \in Request \ {c} :
             req'[d] = IF w # read /\ req[d].fresh /\ req[d].key = Reached(w, k)
                       THEN Sees(req[d], w) ELSE req[d]
    BY <1>2 DEF CountNodes
  <2>2. \A n \in Master, j \in Key : may'[n][j] = may[n][j] \cup more(j)
    <3>1. CASE w = read
      BY <1>2, <3>1 DEF CountNodes
    <3>2. CASE w # read
      BY <1>2, <3>2 DEF CountNodes
    <3> QED
      BY <3>1, <3>2
  <2>3. \A d \in Request \ {c} :
          /\ req'[d].at = req[d].at /\ req'[d].what = req[d].what /\ req'[d].key = req[d].key
          /\ req'[d].master = req[d].master /\ req'[d].name = req[d].name
          /\ req'[d].gave = req[d].gave /\ req'[d].fresh = req[d].fresh
          /\ req[d].fresh => req'[d].seen = req[d].seen \cup more(req[d].key)
    <3>1. \A d \in Request : req[d] \in Requests
      BY DEF TypeOK
    <3> QED
      BY <2>1, <3>1 DEF Sees, Requests
  <2>4. /\ req'[c].at = "counted" /\ req'[c].what = w /\ req'[c].key = k
        /\ req'[c].master = m /\ req'[c].fresh
        /\ req'[c].seen = InFlight(k) \cup (IF w = read THEN may[m][k] ELSE {})
    BY <2>1 DEF Counted
  <2>5. ASSUME NEW j \in Key
        PROVE  InFlight(j)' \subseteq InFlight(j) \cup more(j)
    <3> SUFFICES ASSUME NEW v, v \in InFlight(j)', v \notin more(j)
                 PROVE  v \in InFlight(j)
      OBVIOUS
    <3>1. \/ \E d \in Request :
               Writing(d)' /\ Reached(req'[d].what, req'[d].key) = j /\ req'[d].what = v
          \/ \E p \in late' : p.key = j /\ p.value = v
      BY DEF InFlight, Reached
    <3>2. \A d \in Request :
            Writing(d)' /\ Reached(req'[d].what, req'[d].key) = j /\ req'[d].what = v => d # c
      BY <2>4 DEF Writing
    <3>3. \A d \in Request \ {c} : Writing(d)' => Writing(d)
      BY <2>3 DEF Writing, Open
    <3> QED
      BY <2>3, <3>1, <3>2, <3>3, InFlightIs
  <2>6. FoundOK'
    BY <2>2 DEF FoundOK
  <2>7. PendingOK'
    <3> SUFFICES ASSUME NEW n \in Master, NEW j \in Key
                 PROVE  InFlight(j)' \subseteq may'[n][j]
      BY DEF PendingOK
    <3>1. InFlight(j) \subseteq may[n][j]
      BY DEF PendingOK
    <3> QED
      BY <2>2, <2>5, <3>1
  <2>8. FreshOK(c)'
    <3>1. InFlight(k)' \subseteq {req'[c].what} \cup req'[c].seen
      BY <2>4, <2>5
    <3>2. w = read => may'[m][k] \subseteq req'[c].seen
      BY <2>2, <2>4
    <3> QED
      BY <2>4, <3>1, <3>2 DEF FreshOK, FreshAt
  <2>9. ASSUME NEW d \in Request \ {c}
        PROVE  FreshOK(d)'
    <3>1. req'[d].fresh => req'[d].at \notin {"idle", "lost"}
      BY <2>3 DEF FreshOK
    <3>2. ASSUME NEW n \in Master, NEW j \in Key,
                 req[d].fresh, req[d].master = n, req[d].key = j
          PROVE  FreshAt(req[d], n, j)'
      <4>1. FreshAt(req[d], n, j)
        BY <3>2 DEF FreshOK
      <4>2. InFlight(j)' \subseteq {req'[d].what} \cup req'[d].seen
        BY <2>3, <2>5, <3>2, <4>1 DEF FreshAt
      <4>3. req'[d].what = read => may'[n][j] \subseteq req'[d].seen
        BY <2>2, <2>3, <3>2, <4>1 DEF FreshAt
      <4> QED
        BY <2>3, <3>2, <4>1, <4>2, <4>3 DEF FreshAt
    <3> QED
      BY <2>3, <3>1, <3>2 DEF FreshOK
  <2> QED
    BY <2>6, <2>7, <2>8, <2>9
<1> QED
  BY <1>1, <1>2

(* The request that moves is c; nothing more becomes of any key. *)
LEMMA OneMoves ==
  ASSUME TypeOK, NEW c \in Request, NEW q, Becomes(c, q), late' \subseteq late,
         q.at # "idle" => Open(c) /\ q.what = req[c].what /\ q.key = req[c].key
  PROVE  /\ req'[c] = q /\ \A d \in Request \ {c} : req'[d] = req[d]
         /\ \A k \in Key : InFlight(k)' \subseteq InFlight(k)
<1>1. req'[c] = q /\ \A d \in Request \ {c} : req'[d] = req[d]
  BY DEF TypeOK, Becomes
<1>2. \A d \in Request : Writing(d)' =>
        Writing(d) /\ req'[d].key = req[d].key /\ req'[d].what = req[d].what
  BY <1>1 DEF Writing, Open
<1> QED
  BY <1>1, <1>2, InFlightShrinks

LEMMA LookupReads ==
  ASSUME ReadInv, TypeOK', NEW c \in Request, RingGet(c) \/ FindNode(c)
  PROVE  ReadInv'
<1> DEFINE r == req[c]
<1> USE DEF ReadInv
<1>1. PICK q : /\ Becomes(c, q)
               /\ \/ q = Idle
                  \/ /\ q.at \in {"named", "sent"} /\ q.what = r.what /\ q.key = r.key
                     /\ q.master = r.master /\ q.seen = r.seen /\ q.fresh = r.fresh
                     /\ q.name = route[r.master][r.key] \/ (q.name = r.name /\ r.at = "named")
  <2>1. r \in Requests
    BY DEF TypeOK
  <2>2. CASE RingGet(c)
    <3> DEFINE n == route[r.master][r.key]
               p == IF n = nobody THEN Idle ELSE [r EXCEPT !.at = "named", !.name = n]
    <3>1. Becomes(c, p)
      BY <2>2 DEF RingGet
    <3>2. \/ p = Idle
          \/ /\ p.at = "named" /\ p.what = r.what /\ p.key = r.key /\ p.master = r.master
             /\ p.seen = r.seen /\ p.fresh = r.fresh /\ p.name = n
      BY <2>1 DEF Requests
    <3> HIDE DEF p
    <3> QED
      BY <3>1, <3>2
  <2>3. CASE FindNode(c)
    <3> DEFINE p == IF r.name \in auxNodes[r.master]
                    THEN [r EXCEPT !.at = "sent", !.calm = FALSE] ELSE Idle
    <3>1. Becomes(c, p) /\ r.at = "named"
      BY <2>3 DEF FindNode
    <3>2. \/ p = Idle
          \/ /\ p.at = "sent" /\ p.what = r.what /\ p.key = r.key /\ p.master = r.master
             /\ p.seen = r.seen /\ p.fresh = r.fresh /\ p.name = r.name
      BY <2>1 DEF Requests
    <3> HIDE DEF p
    <3> QED
      BY <3>1, <3>2
  <2> QED
    BY <2>2, <2>3
<1>2. UNCHANGED <<route, store, late, may>> /\ r.at # "idle"
  BY DEF RingGet, FindNode, clusterOnly
<1>3. /\ req'[c] = q /\ \A d \in Request \ {c} : req'[d] = req[d]
      /\ \A k \in Key : InFlight(k)' \subseteq InFlight(k)
  BY <1>1, <1>2, OneMoves DEF Open, Idle
<1>4. FreshOK(c)'
  <2> SUFFICES ASSUME NEW m \in Master, NEW k \in Key, q.fresh, q.master = m, q.key = k, q # Idle
               PROVE  FreshAt(req[c], m, k)'
    BY <1>1, <1>3 DEF FreshOK, Idle
  <2>1. FreshAt(r, m, k)
    BY <1>1 DEF FreshOK
  <2>2. InFlight(k)' \subseteq {q.what} \cup q.seen
    BY <1>1, <1>3, <2>1 DEF FreshAt
  <2> QED
    BY <1>1, <1>2, <1>3, <2>1, <2>2 DEF FreshAt
<1> QED
  BY <1>2, <1>3, <1>4, OthersStand

LEMMA HandledReads ==
  ASSUME ReadInv, TypeOK', NEW c \in Request, Handled(c)
  PROVE  ReadInv'
<1> DEFINE r == req[c]
           h == Reached(r.what, r.key)
           g == IF r.what = read THEN store[r.name][h] ELSE Absent
           q == [r EXCEPT !.at = "handled", !.gave = g]
<1> USE DEF ReadInv
<1>1. /\ r.at = "sent" /\ h # nobody /\ Becomes(c, q) /\ UNCHANGED <<route, late, may>>
      /\ \/ r.what # read /\ store' = [store EXCEPT ![r.name][h] = r.what]
         \/ (r.what = read \/ (r.what = Absent /\ ~ Plain(r.key))) /\ UNCHANGED store
  BY DEF Handled, clusterOnly
<1>2. /\ q.at = "handled" /\ q.gave = g /\ q.what = r.what /\ q.key = r.key
      /\ q.master = r.master /\ q.name = r.name /\ q.seen = r.seen /\ q.fresh = r.fresh
  BY DEF TypeOK, Requests
<1>3. r.name \in Node /\ r.key \in Key /\ r.what \in Content \cup {read} /\ h \in Key
  BY <1>1, ReachedOK DEF TypeOK, Requests, RequestOK
<1> HIDE DEF q
<1>4. /\ req'[c] = q /\ \A d \in Request \ {c} : req'[d] = req[d]
      /\ \A k \in Key : InFlight(k)' \subseteq InFlight(k)
  BY <1>1, <1>2, OneMoves DEF Open
<1>5. r.what # read => r.what \in Content /\ r.what \in InFlight(h)
  BY <1>1, <1>3, InFlightIs DEF Writing, Open
<1>6. \/ UNCHANGED store
      \/ \E n \in Node, k \in Key, v \in Content :
           v \in InFlight(k) /\ store' = [store EXCEPT ![n][k] = v]
  BY <1>1, <1>3, <1>5
<1>7. FreshOK(c)'
  <2> SUFFICES ASSUME NEW m \in Master, NEW k \in Key, q.fresh, q.master = m, q.key = k
               PROVE  FreshAt(req[c], m, k)'
    BY <1>2, <1>4 DEF FreshOK
  <2>1. FreshAt(r, m, k)
    BY <1>2 DEF FreshOK
  <2>2. InFlight(k)' \subseteq {q.what} \cup q.seen
    BY <1>2, <1>4, <2>1 DEF FreshAt
  <2>3. r.name = route[m][k] /\ r.key = k
    BY <1>1, <1>2, <2>1 DEF FreshAt
  <2>4. CASE h # k
    BY <1>1, <1>2, <1>4, <2>1, <2>2, <2>3, <2>4 DEF FreshAt, Reached
  <2>5. CASE r.what = read /\ h = k
    <3>1. g = store[route[m][k]][k] /\ g \in may[m][k] /\ UNCHANGED store
      BY <1>1, <1>3, <2>3, <2>5 DEF FoundOK
    <3> QED
      BY <1>1, <1>2, <1>4, <2>1, <2>2, <2>3, <2>5, <3>1 DEF FreshAt
  <2>6. CASE r.what # read /\ h = k
    <3>1. r.what = Absent => Plain(r.key)
      BY <2>3, <2>6, ClusterAssumption DEF Reached, Plain
    <3>2. store'[route[m][k]][k] = r.what
      BY <1>1, <1>3, <2>3, <2>6, <3>1 DEF TypeOK
    <3> QED
      BY <1>1, <1>2, <1>4, <2>1, <2>2, <2>3, <2>6, <3>2 DEF FreshAt
  <2> QED
    BY <2>4, <2>5, <2>6
<1> QED
  BY <1>1, <1>4, <1>6, <1>7, OthersStand

LEMMA LateReads ==
  ASSUME ReadInv, TypeOK', LateHandled
  PROVE  ReadInv'
<1> USE DEF ReadInv
<1>1. PICK p \in late : /\ late' = late \ {p}
                        /\ store' = [store EXCEPT ![p.to][p.key] = p.value]
                        /\ UNCHANGED <<route, req, may>>
  BY DEF LateHandled, clusterOnly
<1>2. p.to \in Node /\ p.key \in Key /\ p.value \in Content
  BY DEF TypeOK
<1>3. p.value \in InFlight(p.key)
  BY InFlightIs
<1>4. \A k \in Key : InFlight(k)' \subseteq InFlight(k)
  BY <1>1, InFlightShrinks DEF Writing, Open
<1>5. UNCHANGED <<route, may>> /\ \A d \in Request : req'[d] = req[d]
  BY <1>1
<1>6. \E n \in Node, k \in Key, v \in Content :
        v \in InFlight(k) /\ store' = [store EXCEPT ![n][k] = v]
  BY <1>1, <1>2, <1>3
<1> QED
  BY <1>4, <1>5, <1>6, OthersStand

(* The client has an error, or none that it is told of. *)
LEMMA EndsReads ==
  ASSUME ReadInv, TypeOK', NEW c \in Request,
         ForwardFails(c) \/ ForwardGivenUp(c) \/ RetryEnds(c)
  PROVE  ReadInv'
<1> USE DEF ReadInv
<1>1. /\ Becomes(c, Idle) /\ UNCHANGED <<route, store, may>>
      /\ late' = late \/ (late' = late \cup {Forwarded(c)} /\ Writing(c))
  BY DEF ForwardFails, ForwardGivenUp, Outlives, RetryEnds, clusterOnly
<1>2. req'[c] = Idle /\ \A d \in Request \ {c} : req'[d] = req[d]
  BY <1>1 DEF TypeOK, Becomes
<1>3. \A k \in Key : InFlight(k)' \subseteq InFlight(k)
  BY <1>1, <1>2, InFlightShrinks DEF Writing, Open, Idle
<1>4. FreshOK(c)'
  BY <1>2 DEF FreshOK, Idle
<1> QED
  BY <1>1, <1>2, <1>3, <1>4, OthersStand

LEMMA RepliedReads ==
  ASSUME ReadInv, TypeOK', NEW c \in Request, Replied(c)
  PROVE  ReadInv'
<1> DEFINE r == req[c]
           left == {r.what} \cup r.seen
<1> USE DEF ReadInv
<1>1. r.at = "handled" /\ Becomes(c, Idle) /\ UNCHANGED <<route, store, late>>
  BY DEF Replied, clusterOnly
<1>2. /\ req'[c] = Idle /\ \A d \in Request \ {c} : req'[d] = req[d]
      /\ \A k \in Key : InFlight(k)' \subseteq InFlight(k)
  BY <1>1, OneMoves DEF Idle
<1>3. FreshOK(c)'
  BY <1>2 DEF FreshOK, Idle
<1>4. CASE ~ Settles(r)
  BY <1>1, <1>2, <1>3, <1>4, OthersStand DEF Replied
<1>5. CASE Settles(r)
  <2>1. /\ r.master \in Master /\ r.key \in Key /\ FreshAt(r, r.master, r.key)
        /\ r.what # read /\ Reached(r.what, r.key) = r.key
    BY <1>5, FreshTypes DEF FreshOK, Settles
  <2>2. \A m \in Master, k \in Key :
          may'[m][k] = IF m = r.master /\ k = r.key THEN may[m][k] \cap left ELSE may[m][k]
    BY <1>5, <2>1 DEF Replied, TypeOK
  <2>3. FoundOK'
    BY <1>1, <1>5, <2>1, <2>2 DEF FoundOK, FreshAt
  <2>4. ASSUME NEW m \in Master, NEW k \in Key
        PROVE  InFlight(k)' \subseteq may'[m][k]
    <3>1. InFlight(k) \subseteq may[m][k] /\ InFlight(k)' \subseteq InFlight(k)
      BY <1>2 DEF PendingOK
    <3>2. k = r.key => InFlight(k) \subseteq left
      BY <2>1 DEF FreshAt
    <3> QED
      BY <2>2, <3>1, <3>2
  <2>5. PendingOK'
    BY <2>4 DEF PendingOK
  <2>6. ASSUME NEW d \in Request \ {c}
        PROVE  FreshOK(d)'
    <3>1. req'[d].fresh => req'[d].at \notin {"idle", "lost"}
      BY <1>2 DEF FreshOK
    <3>2. ASSUME NEW m \in Master, NEW k \in Key,
                 req[d].fresh, req[d].master = m, req[d].key = k
          PROVE  FreshAt(req[d], m, k)'
      <4>1. FreshAt(req[d], m, k)
        BY <3>2 DEF FreshOK
      <4>2. InFlight(k)' \subseteq {req[d].what} \cup req[d].seen
        BY <1>2, <4>1 DEF FreshAt
      <4>3. may'[m][k] \subseteq may[m][k]
        BY <2>2
      <4> QED
        BY <1>1, <1>2, <4>1, <4>2, <4>3 DEF FreshAt
    <3> QED
      BY <1>2, <3>1, <3>2 DEF FreshOK
  <2> QED
    BY <1>3, <2>3, <2>5, <2>6
<1> QED
  BY <1>4, <1>5

LEMMA MasterCrashesReads ==
  ASSUME ReadInv, TypeOK', NEW m \in Master, MasterCrashes(m)
  PROVE  ReadInv'
<1> DEFINE its == {c \in Request : Open(c) /\ req[c].master = m}
           lost == {m} \X Key
<1> USE DEF ReadInv
<1>1. \A c \in its : /\ req'[c].at = "lost" /\ req'[c].what = req[c].what
                      /\ req'[c].key = req[c].key /\ ~ req'[c].fresh
  BY DEF MasterCrashes, Idle
<1>2. \A c \in Request \ its : req'[c] = req[c]
  BY DEF MasterCrashes
<1>3. \A k \in Key : InFlight(k)' \subseteq InFlight(k)
  <2>1. \A c \in Request : Writing(c)' =>
          Writing(c) /\ req'[c].key = req[c].key /\ req'[c].what = req[c].what
    BY <1>1, <1>2 DEF Writing, Open
  <2>2. \A p \in late' : p \in late \/ \E c \in Request : Writing(c) /\ p = Forwarded(c)
    BY DEF MasterCrashes, Outlives
  <2> QED
    BY <2>1, <2>2, InFlightShrinks
<1>4. \A n \in Master, k \in Key :
        IF <<n, k>> \in lost THEN may'[n][k] = Content
        ELSE may'[n][k] = may[n][k] /\ route'[n][k] = route[n][k] /\ store' = store
  BY DEF MasterCrashes, TypeOK
<1>5. \A c \in Request : req'[c].fresh =>
        req[c].fresh /\ <<req[c].master, req[c].key>> \notin lost /\ req'[c] = req[c]
  <2> SUFFICES ASSUME NEW c \in Request, req'[c].fresh
               PROVE  req[c].fresh /\ <<req[c].master, req[c].key>> \notin lost /\ req'[c] = req[c]
    OBVIOUS
  <2>1. c \notin its /\ req'[c] = req[c]
    BY <1>1, <1>2
  <2>2. Open(c)
    BY <2>1 DEF FreshOK, Open
  <2> QED
    BY <2>1, <2>2
<1> HIDE DEF lost
<1>6. \A n \in Master, k \in Key :
        IF <<n, k>> \in lost THEN may'[n][k] = Content
        ELSE /\ may'[n][k] = may[n][k] /\ route'[n][k] = route[n][k]
             /\ route[n][k] \in Node => store'[route[n][k]][k] = store[route[n][k]][k]
  BY <1>4
<1> QED
  BY <1>3, <1>5, <1>6, LosesOK

LEMMA RingReads ==
  ASSUME ReadInv, TypeOK', NEW m \in Master, NEW N, RingBecomes(m, N), UNCHANGED <<store, late>>
  PROVE  ReadInv'
<1>1. PICK q \in [Key -> N \cup {nobody}] :
        /\ route' = [route EXCEPT ![m] = q]
        /\ Forgets({<<m, k>> : k \in {j \in Key : q[j] # route[m][j]}}, {m})
  BY DEF RingBecomes, HashRing!Routes
<1> DEFINE lost == {<<m, k>> : k \in {j \in Key : q[j] # route[m][j]}}
<1>2. \A o \in Master, k \in Key : <<o, k>> \notin lost => route'[o][k] = route[o][k]
  <2> SUFFICES ASSUME NEW o \in Master, NEW k \in Key, <<o, k>> \notin lost
               PROVE  route'[o][k] = route[o][k]
    OBVIOUS
  <2>1. CASE o = m
    <3>1. q[k] = route[m][k]
      BY <2>1
    <3> QED
      BY <1>1, <2>1, <3>1 DEF ReadInv, TypeOK
  <2>2. CASE o # m
    BY <1>1, <2>2 DEF ReadInv, TypeOK
  <2> QED
    BY <2>1, <2>2
<1>3. Forgets(lost, {m})
  BY <1>1
<1> HIDE DEF lost
<1> QED
  BY <1>2, <1>3, ForgetsReads

(* What happens to the Cache of one node, nobody relies on any more.       *)
LEMMA NodeReads ==
  ASSUME ReadInv, TypeOK', NEW n \in Node, NEW K \in SUBSET Key,
         Forgets(Reaching({n}, K), {}), UNCHANGED route, late' \subseteq late,
         \A o \in Node, k \in Key : o # n \/ k \notin K => store'[o][k] = store[o][k]
  PROVE  ReadInv'
<1>1. \A m \in Master, k \in Key :
        <<m, k>> \notin Reaching({n}, K) => route[m][k] # n \/ k \notin K
  BY DEF Reaching
<1>2. \A m \in Master, k \in Key :
        <<m, k>> \notin Reaching({n}, K) =>
          /\ route'[m][k] = route[m][k]
          /\ route[m][k] \in Node => store'[route[m][k]][k] = store[route[m][k]][k]
  BY <1>1
<1> DEFINE lost == Reaching({n}, K)
           touched == {}
<1>3. Forgets(lost, touched)
  OBVIOUS
<1>4. \A m \in Master, k \in Key :
        <<m, k>> \notin lost =>
          /\ route'[m][k] = route[m][k]
          /\ route[m][k] \in Node => store'[route[m][k]][k] = store[route[m][k]][k]
  BY <1>2
<1> HIDE DEF lost, touched
<1> QED
  BY <1>3, <1>4, ForgetsReads

LEMMA ChangedReads ==
  ASSUME ReadInv, TypeOK', NEW n \in Node, Changed(n)
  PROVE  ReadInv'
<1> USE DEF ReadInv
<1>1. edit[n].at # "none" => edit[n].master \in Master
  BY DEF TypeOK, NoEdit, Edit
<1>2. CASE Starts(n)
  <2>1. Forgets(Reaching({n}, Key), {}) /\ UNCHANGED <<route, late>>
    BY <1>2 DEF Starts
  <2>2. \A o \in Node, k \in Key : o # n \/ k \notin Key => store'[o][k] = store[o][k]
    BY <1>2 DEF Starts, TypeOK
  <2> QED
    BY <2>1, <2>2, NodeReads
<1>3. CASE RegisterAdd(n)
  BY <1>1, <1>3, RingReads DEF RegisterAdd
<1>4. CASE RegisterWrite(n) \/ DeregisterDelete(n)
  <2>1. Forgets({}, {edit[n].master}) /\ UNCHANGED <<route, store, late>>
    BY <1>4 DEF RegisterWrite, DeregisterDelete
  <2> QED
    BY <2>1, ForgetsReads
<1>5. CASE DeregisterRing(n)
  BY <1>1, <1>5, RingReads DEF DeregisterRing
<1>6. CASE Exits(n) \/ Crashes(n)
  <2>1. Gone(n)
    BY <1>6 DEF Exits, Crashes
  <2>2. Forgets(Reaching({n}, Key), {}) /\ UNCHANGED route /\ late' \subseteq late
    BY <2>1 DEF Gone
  <2>3. \A o \in Node, k \in Key : o # n \/ k \notin Key => store'[o][k] = store[o][k]
    BY <2>1 DEF Gone, TypeOK
  <2> QED
    BY <2>2, <2>3, NodeReads
<1>7. CASE MovesKey(n)
  <2>1. PICK t \in Node, k \in Key, v \in Content :
          store' = [store EXCEPT ![t][k] = v] /\ Forgets(Reaching({t}, {k}), {})
    BY <1>7 DEF MovesKey
  <2>2. UNCHANGED <<route, late>>
    BY <1>7 DEF MovesKey
  <2>3. \A o \in Node, j \in Key : o # t \/ j \notin {k} => store'[o][j] = store[o][j]
    BY <2>1 DEF TypeOK
  <2>4. {k} \in SUBSET Key
    OBVIOUS
  <2> QED
    BY <2>1, <2>2, <2>3, <2>4, NodeReads
<1>8. CASE Serves(n) \/ Leaves(n) \/ MovesEnd(n)
  <2>1. UNCHANGED <<route, store, req, late, may>>
    BY <1>8 DEF Serves, Leaves, MovesEnd
  <2>2. \A k \in Key : InFlight(k)' \subseteq InFlight(k)
    BY <2>1, InFlightShrinks DEF Writing, Open
  <2> QED
    BY <2>1, <2>2, OthersStand
<1> QED
  BY <1>2, <1>3, <1>4, <1>5, <1>6, <1>7, <1>8 DEF Changed

LEMMA ReadInit == Init => ReadInv
<1> SUFFICES ASSUME Init
             PROVE  ReadInv
  OBVIOUS
<1>1. TypeOK
  BY TypeInit
<1>2. FoundOK
  BY ClusterAssumption DEF Init, FoundOK
<1>3. PendingOK
  BY DEF Init, PendingOK, InFlight, Writing, Open, Idle
<1>4. \A c \in Request : FreshOK(c)
  BY DEF Init, FreshOK, Idle
<1> QED
  BY <1>1, <1>2, <1>3, <1>4 DEF ReadInv

LEMMA ReadNext == ReadInv /\ TypeOK' /\ [Next]_vars => ReadInv'
<1> SUFFICES ASSUME ReadInv, TypeOK', [Next]_vars
             PROVE  ReadInv'
  OBVIOUS
<1>1. ASSUME NEW c \in Request, NEW k \in Key, NEW m \in Master,
             NEW w \in Content \cup {read}, Arrives(c, k, w, m)
      PROVE  ReadInv'
  <2>1. CountNodes(c, k, w, m, {m}) /\ UNCHANGED <<route, store, late>>
    BY <1>1 DEF Arrives, clusterOnly
  <2> QED
    BY <2>1, CountNodesReads
<1>2. ASSUME NEW c \in Request, NEW m \in Master, Retry(c, m)
      PROVE  ReadInv'
  <2>1. /\ CountNodes(c, req[c].key, req[c].what, m, req[c].tried \cup {m})
        /\ UNCHANGED <<route, store, late>> /\ req[c].at = "lost"
    BY <1>2 DEF Retry, clusterOnly
  <2>2. req[c].key \in Key /\ req[c].what \in Content \cup {read}
    BY <2>1 DEF ReadInv, TypeOK, Requests, RequestOK
  <2> QED
    BY <2>1, <2>2, CountNodesReads
<1>3. ASSUME NEW c \in Request, GoesOn(c)
      PROVE  ReadInv'
  BY <1>2, <1>3, LookupReads, HandledReads, RepliedReads, EndsReads DEF GoesOn
<1>4. ASSUME NEW m \in Master, MasterStarts(m) \/ TriggerMoves(m)
      PROVE  ReadInv'
  <2>1. UNCHANGED <<route, store, req, late, may>>
    BY <1>4 DEF MasterStarts, TriggerMoves
  <2>2. \A k \in Key : InFlight(k)' \subseteq InFlight(k)
    BY <2>1, InFlightShrinks DEF Writing, Open
  <2> QED
    BY <2>1, <2>2, OthersStand DEF ReadInv
<1>5. CASE UNCHANGED vars
  <2>1. UNCHANGED <<route, store, req, late, may>>
    BY <1>5 DEF vars
  <2>2. \A k \in Key : InFlight(k)' \subseteq InFlight(k)
    BY <2>1, InFlightShrinks DEF Writing, Open
  <2> QED
    BY <2>1, <2>2, OthersStand DEF ReadInv
<1> QED
  BY <1>1, <1>3, <1>4, <1>5, LateReads, MasterCrashesReads, ChangedReads
     DEF Next, handleGetRequest, handleDeleteRequest, handleData, Content

(* A GET of a key that a URL says as it is gives what the last PUT or      *)
(* DELETE that was answered through the same master made of the key, or    *)
(* one that was not over by then, DELETEs of keys whose URL says this one  *)
(* included, unless what the master finds for the key has changed.         *)
THEOREM ReadsAreRegular == Spec => []ReadRegular
<1>1. ASSUME ReadInv, NEW c \in Request, Found(c), Plain(req[c].key)
      PROVE  req[c].gave \in req[c].seen
  <2>1. FreshAt(req[c], req[c].master, req[c].key) /\ req[c].key \in Key
    BY <1>1, FreshTypes DEF ReadInv, FreshOK, Found
  <2>2. Reached(req[c].what, req[c].key) = req[c].key
    BY <1>1, <2>1, ReachedOK DEF Found, Plain
  <2> QED
    BY <1>1, <2>1, <2>2 DEF FreshAt, Found
<1>2. ReadInv => ReadRegular
  BY <1>1 DEF ReadRegular
<1> QED
  BY <1>2, ReadInit, ReadNext, TypeCorrect, PTL DEF Spec

-----------------------------------------------------------------------------
(* When a request is refused *)

(* Registries that nobody touches stay as they were. *)
LEMMA CalmKept ==
  ASSUME CalmInv, TypeOK', NEW T,
         \A m \in Master \ T :
           /\ auxNodes'[m] = auxNodes[m] /\ ring'[m] = ring[m] /\ route'[m] = route[m]
           /\ m \in disturbed' <=> m \in disturbed,
         \A m \in Master \cap T, k \in Key :
           m \notin disturbed' /\ ring'[m] # {} => route'[m][k] \in ring'[m]
  PROVE  /\ RouteOK'
         /\ \A c \in Request :
              (req'[c].calm =>
                /\ req[c].calm /\ req[c].master \notin T /\ req'[c].at = req[c].at
                /\ req'[c].master = req[c].master /\ req'[c].name = req[c].name)
              => CalmOK(c)'
<1>1. RouteOK'
  BY DEF CalmInv, RouteOK
<1>2. ASSUME NEW c \in Request, req'[c].calm,
             req[c].calm /\ req[c].master \notin T /\ req'[c].at = req[c].at
               /\ req'[c].master = req[c].master /\ req'[c].name = req[c].name
      PROVE  CalmOK(c)'
  <2>1. CalmOK(c) /\ req[c].master \in Master
    BY <1>2 DEF CalmInv, CalmOK, TypeOK, RequestOK
  <2> QED
    BY <1>2, <2>1 DEF CalmOK, Settled
<1> QED
  BY <1>1, <1>2 DEF CalmOK

LEMMA CalmStays ==
  ASSUME CalmInv, TypeOK', UNCHANGED <<auxNodes, ring, route, disturbed>>
  PROVE  /\ RouteOK'
         /\ \A c \in Request :
              (req'[c].calm =>
                /\ req[c].calm /\ req'[c].at = req[c].at
                /\ req'[c].master = req[c].master /\ req'[c].name = req[c].name)
              => CalmOK(c)'
<1> DEFINE T == {}
<1>1. /\ \A m \in Master \ T :
           /\ auxNodes'[m] = auxNodes[m] /\ ring'[m] = ring[m] /\ route'[m] = route[m]
           /\ m \in disturbed' <=> m \in disturbed
      /\ \A m : m \notin T
  OBVIOUS
<1> HIDE DEF T
<1> QED
  BY <1>1, CalmKept

LEMMA ForgetsCalm ==
  ASSUME CalmInv, NEW lost, NEW touched, Forgets(lost, touched), NEW c \in Request
  PROVE  req'[c].calm =>
           /\ req[c].calm /\ req[c].master \notin touched /\ req'[c].at = req[c].at
           /\ req'[c].master = req[c].master /\ req'[c].name = req[c].name
<1> DEFINE f == req[c].fresh /\ <<req[c].master, req[c].key>> \notin lost
           h == req[c].calm /\ req[c].master \notin touched
<1>1. req'[c] = [req[c] EXCEPT !.fresh = f, !.seen = IF f THEN @ ELSE {}, !.calm = h]
  BY DEF Forgets
<1>2. req[c] \in Requests
  BY DEF CalmInv, TypeOK
<1>3. h \in BOOLEAN /\ (h => req[c].calm /\ req[c].master \notin touched)
  BY <1>2 DEF Requests
<1> HIDE DEF f, h
<1> QED
  BY <1>1, <1>2, <1>3 DEF Requests

LEMMA CountNodesCalm ==
  ASSUME CalmInv, TypeOK', NEW c \in Request, NEW k, NEW w, NEW m \in Master, NEW tried,
         CountNodes(c, k, w, m, tried), UNCHANGED clusterOnly
  PROVE  CalmInv'
<1>1. /\ RouteOK'
      /\ \A d \in Request :
           (req'[d].calm =>
             /\ req[d].calm /\ req'[d].at = req[d].at /\ req'[d].master = req[d].master
             /\ req'[d].name = req[d].name)
           => CalmOK(d)'
  BY CalmStays DEF clusterOnly
<1>2. \A d \in Request : req[d] \in Requests
  BY DEF CalmInv, TypeOK
<1>3. ASSUME NEW d \in Request \ {c}
      PROVE  CalmOK(d)'
  <2>1. req'[d] = req[d] \/ req'[d] = Sees(req[d], w)
    BY DEF CountNodes, Becomes, CalmInv, TypeOK
  <2> QED
    BY <1>1, <1>2, <2>1 DEF Sees, Requests
<1>4. CalmOK(c)'
  <2>1. CASE auxNodes[m] = {}
    <3>1. req'[c] = Idle
      BY <2>1 DEF CountNodes, Becomes, CalmInv, TypeOK
    <3> QED
      BY <3>1 DEF CalmOK, Idle
  <2>2. CASE auxNodes[m] # {}
    <3>1. req'[c] = Counted(k, w, m, tried)
      BY <2>2 DEF CountNodes
    <3> QED
      BY <3>1 DEF Counted, CalmOK, Settled, clusterOnly
  <2> QED
    BY <2>1, <2>2
<1> QED
  BY <1>1, <1>3, <1>4 DEF CalmInv

(* A request ends, or is forwarded: it is not calm any more. *)
LEMMA GoesOnCalm ==
  ASSUME CalmInv, TypeOK', NEW c \in Request, GoesOn(c)
  PROVE  CalmInv'
<1> DEFINE r == req[c]
<1>1. r \in Requests /\ RequestOK(r) /\ CalmOK(c)
  BY DEF CalmInv, TypeOK
<1>2. ASSUME NEW m \in Master, Retry(c, m)
      PROVE  CalmInv'
  BY <1>2, CountNodesCalm DEF Retry
<1>3. ASSUME NEW q, Becomes(c, q), UNCHANGED clusterOnly,
             q.calm => /\ r.calm /\ q.at = "named" /\ q.master = r.master
                       /\ q.name = route[r.master][r.key]
                       /\ r.master \in Master /\ r.key \in Key
      PROVE  CalmInv'
  <2>1. req'[c] = q /\ \A d \in Request \ {c} : req'[d] = req[d]
    BY <1>3 DEF Becomes, CalmInv, TypeOK
  <2>2. /\ RouteOK'
        /\ \A d \in Request : req'[d] = req[d] => CalmOK(d)'
    BY <1>3, CalmStays DEF clusterOnly
  <2>3. CalmOK(c)'
    <3> SUFFICES ASSUME q.calm
                 PROVE  CalmOK(c)'
      BY <2>1 DEF CalmOK
    <3>1. Settled(r.master) /\ route[r.master][r.key] \in ring[r.master]
      BY <1>1, <1>3 DEF CalmOK, Settled, CalmInv, RouteOK
    <3> QED
      BY <1>3, <2>1, <3>1 DEF CalmOK, Settled, clusterOnly
  <2> QED
    BY <2>1, <2>2, <2>3 DEF CalmInv
<1>4. CASE RingGet(c)
  <2> DEFINE n == route[r.master][r.key]
             q == IF n = nobody THEN Idle ELSE [r EXCEPT !.at = "named", !.name = n]
  <2>1. Becomes(c, q) /\ UNCHANGED clusterOnly /\ r.at = "counted"
    BY <1>4 DEF RingGet
  <2>2. r.master \in Master /\ r.key \in Key
    BY <1>1, <2>1 DEF RequestOK, CalmInv, TypeOK
  <2>3. q.calm => r.calm /\ q.at = "named" /\ q.master = r.master /\ q.name = n
    BY <1>1 DEF Idle, Requests
  <2> HIDE DEF q
  <2> QED
    BY <1>3, <2>1, <2>2, <2>3
<1>5. CASE FindNode(c)
  <2> DEFINE q == IF r.name \in auxNodes[r.master]
                  THEN [r EXCEPT !.at = "sent", !.calm = FALSE] ELSE Idle
  <2>1. Becomes(c, q) /\ UNCHANGED clusterOnly /\ ~ q.calm
    BY <1>1, <1>5 DEF FindNode, Idle, Requests
  <2> HIDE DEF q
  <2> QED
    BY <1>3, <2>1
<1>6. CASE Handled(c)
  <2> DEFINE q == [r EXCEPT !.at = "handled",
                            !.gave = IF r.what = read THEN store[r.name][Reached(r.what, r.key)]
                                     ELSE Absent]
  <2>1. Becomes(c, q) /\ UNCHANGED clusterOnly /\ r.at = "sent"
    BY <1>6 DEF Handled
  <2>2. ~ q.calm
    BY <1>1, <2>1 DEF CalmOK, Requests
  <2> HIDE DEF q
  <2> QED
    BY <1>3, <2>1, <2>2
<1>7. CASE Replied(c) \/ ForwardFails(c) \/ ForwardGivenUp(c) \/ RetryEnds(c)
  <2>1. Becomes(c, Idle) /\ UNCHANGED clusterOnly /\ ~ Idle.calm
    BY <1>7 DEF Replied, ForwardFails, ForwardGivenUp, RetryEnds, Idle
  <2> QED
    BY <1>3, <2>1
<1> QED
  BY <1>2, <1>4, <1>5, <1>6, <1>7 DEF GoesOn

LEMMA ForgetsTouched ==
  ASSUME CalmInv, TypeOK', NEW lost, NEW T, Forgets(lost, T),
         \A m \in Master \ T :
           /\ auxNodes'[m] = auxNodes[m] /\ ring'[m] = ring[m] /\ route'[m] = route[m]
           /\ m \in disturbed' <=> m \in disturbed,
         \A m \in Master \cap T, k \in Key :
           m \notin disturbed' /\ ring'[m] # {} => route'[m][k] \in ring'[m]
  PROVE  CalmInv'
<1>1. \A c \in Request :
        req'[c].calm =>
          /\ req[c].calm /\ req[c].master \notin T /\ req'[c].at = req[c].at
          /\ req'[c].master = req[c].master /\ req'[c].name = req[c].name
  BY ForgetsCalm
<1> QED
  BY <1>1, CalmKept DEF CalmInv

LEMMA RingCalm ==
  ASSUME CalmInv, TypeOK', NEW m \in Master, NEW N, RingBecomes(m, N), UNCHANGED auxNodes,
         disturbed' \in {disturbed, disturbed \cup {m}}
  PROVE  CalmInv'
<1>1. PICK q \in [Key -> N \cup {nobody}] :
        /\ m \notin disturbed' /\ N # {} =>
             \A k \in Key : q[k] \in HashRing!Nearest(Distance, N, k)
        /\ route' = [route EXCEPT ![m] = q] /\ \E lost : Forgets(lost, {m})
  BY DEF RingBecomes, HashRing!Routes
<1>2. \A o \in Master \ {m} :
        /\ auxNodes'[o] = auxNodes[o] /\ ring'[o] = ring[o] /\ route'[o] = route[o]
        /\ o \in disturbed' <=> o \in disturbed
  BY <1>1 DEF RingBecomes, CalmInv, TypeOK
<1>3. \A o \in Master \cap {m}, k \in Key :
        o \notin disturbed' /\ ring'[o] # {} => route'[o][k] \in ring'[o]
  <2>1. ring'[m] = N /\ route'[m] = q
    BY <1>1 DEF RingBecomes, CalmInv, TypeOK
  <2> QED
    BY <1>1, <2>1 DEF HashRing!Nearest
<1> QED
  BY <1>1, <1>2, <1>3, ForgetsTouched

LEMMA ChangedCalm ==
  ASSUME CalmInv, TypeOK', NEW n \in Node, Changed(n)
  PROVE  CalmInv'
<1> USE DEF CalmInv
<1>1. edit[n].at # "none" => edit[n].master \in Master
  BY DEF TypeOK, NoEdit, Edit
<1>2. ASSUME NEW lost, Forgets(lost, {}), UNCHANGED <<auxNodes, ring, route, disturbed>>
      PROVE  CalmInv'
  <2>1. \A c \in Request :
          req'[c].calm =>
            /\ req[c].calm /\ req'[c].at = req[c].at
            /\ req'[c].master = req[c].master /\ req'[c].name = req[c].name
    BY <1>2, ForgetsCalm
  <2> QED
    BY <1>2, <2>1, CalmStays
<1>3. CASE Starts(n)
  BY <1>2, <1>3 DEF Starts
<1>4. CASE RegisterAdd(n)
  BY <1>1, <1>4, RingCalm DEF RegisterAdd
<1>5. CASE RegisterWrite(n) \/ DeregisterDelete(n)
  <2> DEFINE m == edit[n].master
  <2>1. m \in Master /\ Forgets({}, {m}) /\ UNCHANGED <<ring, route, disturbed>>
    BY <1>1, <1>5 DEF RegisterWrite, DeregisterDelete
  <2>2. \A o \in Master \ {m} : auxNodes'[o] = auxNodes[o]
    BY <1>5 DEF RegisterWrite, DeregisterDelete, TypeOK
  <2>3. \A o \in Master \cap {m}, k \in Key :
          o \notin disturbed' /\ ring'[o] # {} => route'[o][k] \in ring'[o]
    BY <2>1 DEF RouteOK
  <2> QED
    BY <2>1, <2>2, <2>3, ForgetsTouched
<1>6. CASE DeregisterRing(n)
  BY <1>1, <1>6, RingCalm DEF DeregisterRing
<1>7. CASE Exits(n) \/ Crashes(n)
  BY <1>2, <1>7 DEF Exits, Crashes, Gone
<1>8. CASE MovesKey(n)
  BY <1>2, <1>8 DEF MovesKey
<1>9. CASE Serves(n) \/ Leaves(n) \/ MovesEnd(n)
  <2>1. UNCHANGED <<auxNodes, ring, route, disturbed, req>>
    BY <1>9 DEF Serves, Leaves, MovesEnd
  <2> QED
    BY <2>1, CalmStays
<1> QED
  BY <1>3, <1>4, <1>5, <1>6, <1>7, <1>8, <1>9 DEF Changed

LEMMA MasterCrashesCalm ==
  ASSUME CalmInv, TypeOK', NEW m \in Master, MasterCrashes(m)
  PROVE  CalmInv'
<1> DEFINE its == {c \in Request : Open(c) /\ req[c].master = m}
<1> USE DEF CalmInv
<1>1. /\ \A o \in Master \ {m} :
           /\ auxNodes'[o] = auxNodes[o] /\ ring'[o] = ring[o] /\ route'[o] = route[o]
           /\ o \in disturbed' <=> o \in disturbed
      /\ ring'[m] = {}
  BY DEF MasterCrashes, TypeOK
<1>2. /\ \A c \in its : ~ req'[c].calm
      /\ \A c \in Request \ its : req'[c] = req[c]
  BY DEF MasterCrashes, Idle
<1>3. \A c \in Request : req'[c].calm => req'[c] = req[c] /\ req[c].calm /\ req[c].master # m
  <2> SUFFICES ASSUME NEW c \in Request, req'[c].calm
               PROVE  req'[c] = req[c] /\ req[c].calm /\ req[c].master # m
    OBVIOUS
  <2>1. c \notin its /\ req'[c] = req[c]
    BY <1>2
  <2>2. Open(c)
    BY <2>1 DEF CalmOK, Open
  <2> QED
    BY <2>1, <2>2
<1> DEFINE T == {m}
<1>4. /\ \A o \in Master \ T :
           /\ auxNodes'[o] = auxNodes[o] /\ ring'[o] = ring[o] /\ route'[o] = route[o]
           /\ o \in disturbed' <=> o \in disturbed
      /\ \A o \in Master \cap T, k \in Key :
           o \notin disturbed' /\ ring'[o] # {} => route'[o][k] \in ring'[o]
      /\ \A c \in Request : req'[c].calm => req'[c] = req[c] /\ req[c].calm /\ req[c].master \notin T
  BY <1>1, <1>3
<1> HIDE DEF T
<1> QED
  BY <1>4, CalmKept

LEMMA CalmInit == Init => CalmInv
BY TypeInit DEF Init, CalmInv, RouteOK, CalmOK, Idle

LEMMA CalmNext == CalmInv /\ TypeOK' /\ [Next]_vars => CalmInv'
<1> SUFFICES ASSUME CalmInv, TypeOK', [Next]_vars
             PROVE  CalmInv'
  OBVIOUS
<1>1. ASSUME NEW c \in Request, NEW k \in Key, NEW m \in Master, NEW w, Arrives(c, k, w, m)
      PROVE  CalmInv'
  BY <1>1, CountNodesCalm DEF Arrives
<1>2. ASSUME UNCHANGED <<auxNodes, ring, route, disturbed, req>>
      PROVE  CalmInv'
  BY <1>2, CalmStays DEF CalmInv
<1>3. CASE LateHandled
  BY <1>2, <1>3 DEF LateHandled, clusterOnly
<1>4. ASSUME NEW m \in Master, MasterStarts(m) \/ TriggerMoves(m)
      PROVE  CalmInv'
  BY <1>2, <1>4 DEF MasterStarts, TriggerMoves
<1>5. CASE UNCHANGED vars
  BY <1>2, <1>5 DEF vars
<1> QED
  BY <1>1, <1>3, <1>4, <1>5, GoesOnCalm, MasterCrashesCalm, ChangedCalm
     DEF Next, handleGetRequest, handleDeleteRequest, handleData

(* Nothing but its own lookups ends a request that is not forwarded yet.   *)
LEMMA NotEndedByOthers ==
  ASSUME TypeOK, [Next]_vars, NEW c \in Request, req[c].at \in {"counted", "named"},
         ~ RingGet(c), ~ FindNode(c)
  PROVE  req'[c].at # "idle"
<1>1. req[c] \in Requests
  BY DEF TypeOK
<1>2. ASSUME NEW d \in Request \ {c}, NEW k, NEW w, NEW m, NEW tried, CountNodes(d, k, w, m, tried)
      PROVE  req'[c].at = req[c].at
  <2>1. req'[c] = req[c] \/ req'[c] = Sees(req[c], w)
    BY <1>2 DEF CountNodes, Becomes, TypeOK
  <2> QED
    BY <1>1, <2>1 DEF Sees, Requests
<1>3. ASSUME NEW d \in Request, NEW k, NEW w, NEW m, Arrives(d, k, w, m)
      PROVE  req'[c].at # "idle"
  BY <1>2, <1>3 DEF Arrives, Open
<1>4. ASSUME NEW d \in Request, GoesOn(d)
      PROVE  req'[c].at # "idle"
  <2>1. CASE d = c
    BY <1>4, <2>1 DEF GoesOn, Handled, Replied, ForwardFails, ForwardGivenUp, Outlives,
       RetryEnds, Retry
  <2>2. CASE d # c
    <3>1. ASSUME NEW m \in Master, Retry(d, m)
          PROVE  req'[c].at = req[c].at
      BY <1>2, <2>2, <3>1 DEF Retry
    <3>2. ASSUME NEW q, Becomes(d, q)
          PROVE  req'[c] = req[c]
      BY <2>2, <3>2 DEF Becomes, TypeOK
    <3> QED
      BY <1>4, <3>1, <3>2
         DEF GoesOn, RingGet, FindNode, Handled, Replied, ForwardFails, ForwardGivenUp, RetryEnds
  <2> QED
    BY <2>1, <2>2
<1>5. ASSUME NEW lost, NEW touched, Forgets(lost, touched)
      PROVE  req'[c].at = req[c].at
  <2> DEFINE f == req[c].fresh /\ <<req[c].master, req[c].key>> \notin lost
             h == req[c].calm /\ req[c].master \notin touched
  <2>1. req'[c] = [req[c] EXCEPT !.fresh = f, !.seen = IF f THEN @ ELSE {}, !.calm = h]
    BY <1>5 DEF Forgets
  <2> QED
    BY <1>1, <2>1 DEF Requests
<1>6. ASSUME NEW n \in Node, Changed(n)
      PROVE  req'[c].at = req[c].at
  BY <1>5, <1>6 DEF Changed, Starts, RegisterAdd, RegisterWrite, RingBecomes, Serves, Leaves,
     DeregisterRing, DeregisterDelete, Exits, Crashes, Gone, MovesKey, MovesEnd
<1>7. ASSUME NEW m \in Master, MasterCrashes(m)
      PROVE  req'[c].at # "idle"
  BY <1>7 DEF MasterCrashes, Idle
<1>8. ASSUME req' = req
      PROVE  req'[c].at # "idle"
  BY <1>8
<1> QED
  BY <1>3, <1>4, <1>6, <1>7, <1>8 DEF Next, handleGetRequest, handleDeleteRequest, handleData,
     LateHandled, MasterStarts, TriggerMoves, vars

(* A request is turned away before it is forwarded only if the registry of *)
(* its master was incomplete, or had lost a node, or changed meanwhile.    *)
THEOREM RefusalsExplained == Spec => RefusedOnlyUnsettled
<1>1. ASSUME CalmInv, [Next]_vars, NEW c \in Request,
             req[c].at \in {"counted", "named"}, req[c].calm
      PROVE  req'[c] # Idle
  <2> DEFINE r == req[c]
             m == req[c].master
             k == req[c].key
  <2>1. /\ m \in Master /\ k \in Key
        /\ Settled(m) /\ (r.at = "named" => r.name \in auxNodes[m])
        /\ route[m][k] \in ring[m] /\ ring[m] \subseteq Node
    BY <1>1 DEF CalmInv, CalmOK, RouteOK, Settled, TypeOK, RequestOK
  <2>2. r \in Requests /\ req \in [Request -> Requests]
    BY <1>1 DEF CalmInv, TypeOK
  <2>3. CASE RingGet(c)
    <3>1. route[m][k] # nobody
      BY <2>1, ClusterAssumption
    <3>2. req' = [req EXCEPT ![c] = [r EXCEPT !.at = "named", !.name = route[m][k]]]
      BY <2>3, <3>1 DEF RingGet, Becomes
    <3> QED
      BY <2>2, <3>2 DEF Requests, Idle
  <2>4. CASE FindNode(c)
    <3>1. req' = [req EXCEPT ![c] = [r EXCEPT !.at = "sent", !.calm = FALSE]]
      BY <2>1, <2>4 DEF FindNode, Becomes
    <3> QED
      BY <2>2, <3>1 DEF Requests, Idle
  <2>5. CASE ~ RingGet(c) /\ ~ FindNode(c)
    BY <1>1, <2>5, NotEndedByOthers DEF CalmInv, Idle
  <2> QED
    BY <2>3, <2>4, <2>5
<1>2. CalmInv /\ [Next]_vars =>
        [\A c \in Request :
           req[c].at \in {"counted", "named"} /\ req'[c] = Idle => ~ req[c].calm]_vars
  BY <1>1
<1> QED
  BY <1>2, CalmInit, CalmNext, TypeCorrect, PTL DEF Spec, RefusedOnlyUnsettled

=============================================================================
