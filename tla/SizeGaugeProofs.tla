-------------------------- MODULE SizeGaugeProofs --------------------------
(***************************************************************************)
(* Proofs about SizeGauge, for any number of goroutines, any finite set of *)
(* keys and any capacity.                                                  *)
(***************************************************************************)
EXTENDS SizeGauge, FiniteSetTheorems, TLAPS

Busy(w) == job[w].at # "idle"

(* While updates do not overlap, what has been read is still the size.     *)
AloneOK ==
  ~ mixed =>
    /\ \A v, w \in Worker : Busy(v) /\ Busy(w) => v = w
    /\ \A w \in Worker : job[w].at = "measured" => job[w].size = Size
    /\ AtRest => gauge = Size

(* Until something is removed no size that anyone has read was larger.     *)
GrowsOK ==
  ~ shrunk => /\ gauge <= Size
              /\ \A w \in Worker : job[w].at = "measured" => job[w].size <= Size

GaugeInv == TypeOK /\ AloneOK /\ GrowsOK

Record == [at : Places, todo : SUBSET Key, size : 0 .. Cardinality(Key)]

-----------------------------------------------------------------------------
(* Sizes *)

LEMMA SizeOf ==
  ASSUME NEW S \in SUBSET Key
  PROVE  IsFiniteSet(S) /\ Cardinality(S) \in Nat
BY GaugeAssumption, FS_Subset, FS_CardinalityType

LEMMA SmallerSize ==
  ASSUME NEW S \in SUBSET Key, NEW T \in SUBSET S
  PROVE  T \in SUBSET Key /\ Cardinality(T) <= Cardinality(S)
<1>1. IsFiniteSet(S)
  BY SizeOf
<1> QED
  BY <1>1, FS_Subset

LEMMA KeysMost ==
  /\ Cardinality(Key) \in Nat
  /\ \A S \in SUBSET Key : Cardinality(S) \in 0 .. Cardinality(Key)
<1>1. Key \in SUBSET Key
  OBVIOUS
<1>2. Cardinality(Key) \in Nat
  BY <1>1, SizeOf
<1>3. ASSUME NEW S \in SUBSET Key
      PROVE  Cardinality(S) \in 0 .. Cardinality(Key)
  BY <1>1, <1>2, SizeOf, SmallerSize
<1> QED
  BY <1>2, <1>3

(* A Put takes no entry away without a new one. *)
LEMMA PutsOK ==
  ASSUME TypeOK, NEW k \in Key, Puts(k)
  PROVE  cached' \in SUBSET Key /\ Size <= Size'
<1> DEFINE grown == cached \cup {k}
<1>1. /\ cached \in SUBSET Key /\ IsFiniteSet(cached) /\ Size \in Nat
      /\ grown \in SUBSET Key /\ IsFiniteSet(grown) /\ Cardinality(grown) \in Nat
  BY SizeOf DEF TypeOK, Size
<1>2. Cardinality(grown) = IF k \in cached THEN Size ELSE Size + 1
  BY <1>1, FS_AddElement DEF Size
<1>3. CASE cached' = grown
  BY <1>1, <1>2, <1>3 DEF Size
<1>4. ASSUME NEW old \in grown, k \notin cached, cached' = grown \ {old}
      PROVE  cached' \in SUBSET Key /\ Size <= Size'
  <2>1. Cardinality(grown \ {old}) = Cardinality(grown) - 1
    BY <1>1, <1>4, FS_RemoveElement
  <2> QED
    BY <1>1, <1>2, <1>4, <2>1 DEF Size
<1> QED
  BY <1>3, <1>4 DEF Puts

-----------------------------------------------------------------------------
(* One update *)

LEMMA JobOK ==
  ASSUME TypeOK, NEW w \in Worker, NEW j \in Record, Becomes(w, j)
  PROVE  /\ job' \in [Worker -> Record]
         /\ \A v \in Worker : job'[v] = IF v = w THEN j ELSE job[v]
BY DEF TypeOK, Becomes, Record

LEMMA JobFields ==
  ASSUME NEW place \in Places, NEW keys \in SUBSET Key, NEW n \in 0 .. Cardinality(Key)
  PROVE  LET j == Job(place, keys, n)
         IN  j \in Record /\ j.at = place /\ j.todo = keys /\ j.size = n
BY DEF Job, Record

(* A step of w that changes the cache: it is at work afterwards, and has   *)
(* not measured yet; it was at work before, or began.                      *)
LEMMA ChangeOK ==
  ASSUME GaugeInv, NEW w \in Worker, NEW j \in Record, Becomes(w, j),
         j.at \in {"changed", "restores", "rebalances"},
         cached' \in SUBSET Key,
         ~ shrunk' => ~ shrunk /\ Size <= Size', shrunk' \in BOOLEAN,
         UNCHANGED gauge,
         \/ Busy(w) /\ UNCHANGED mixed
         \/ mixed' = ~ AtRest
  PROVE  GaugeInv'
<1>1. /\ job' \in [Worker -> Record]
      /\ \A v \in Worker : job'[v] = IF v = w THEN j ELSE job[v]
  BY JobOK DEF GaugeInv
<1>2. mixed' \in BOOLEAN
  BY DEF GaugeInv, TypeOK, AtRest
<1>3. TypeOK'
  BY <1>1, <1>2 DEF GaugeInv, TypeOK, Record
<1>4. Size \in Nat /\ Size' \in Nat /\ gauge \in Nat
      /\ \A v \in Worker : job[v].size \in Nat
  BY SizeOf, KeysMost DEF GaugeInv, TypeOK, Size
<1>5. AloneOK'
  <2> SUFFICES ASSUME ~ mixed' PROVE \A v \in Worker \ {w} : ~ Busy(v)
    BY <1>1 DEF AloneOK, Busy, AtRest
  <2> QED
    BY DEF GaugeInv, AloneOK, Busy, AtRest
<1>6. GrowsOK'
  BY <1>1, <1>4 DEF GaugeInv, GrowsOK
<1> QED
  BY <1>3, <1>5, <1>6 DEF GaugeInv

LEMMA StartOK ==
  ASSUME GaugeInv, NEW w \in Worker, NEW keys \in SUBSET Key,
         NEW place \in {"changed", "restores", "rebalances"}, Starts(w, place, keys),
         cached' \in SUBSET Key,
         ~ shrunk' => ~ shrunk /\ Size <= Size', shrunk' \in BOOLEAN, UNCHANGED gauge
  PROVE  GaugeInv'
<1>1. place \in Places /\ 0 \in 0 .. Cardinality(Key)
  BY KeysMost DEF Places
<1>2. Job(place, keys, 0) \in Record /\ Job(place, keys, 0).at = place
  BY <1>1, JobFields
<1> QED
  BY <1>2, ChangeOK DEF Starts

LEMMA UpdateStep ==
  ASSUME GaugeInv, NEW w \in Worker,
         \/ \E k \in Key : handleData(w, k) \/ handleDelete(w, k)
         \/ \E K \in SUBSET Key : RestoreClears(w, K) \/ RebalanceMoves(w, K)
         \/ RestorePuts(w) \/ RemoveMoved(w) \/ Measures(w) \/ UpdateCacheSize(w)
  PROVE  GaugeInv'
<1>0. /\ TypeOK /\ cached \in SUBSET Key /\ Size \in 0 .. Cardinality(Key)
      /\ Cardinality(Key) \in Nat /\ gauge \in Nat /\ shrunk \in BOOLEAN
      /\ job[w] \in Record /\ {} \in SUBSET Key /\ 0 \in 0 .. Cardinality(Key)
  BY KeysMost DEF GaugeInv, TypeOK, Size, Record
<1>1. \A k : cached \ {k} \in SUBSET Key
  BY <1>0
<1>2. ASSUME NEW k \in Key, handleData(w, k) PROVE GaugeInv'
  BY <1>0, <1>2, PutsOK, StartOK DEF handleData
<1>3. ASSUME NEW k \in Key, handleDelete(w, k) PROVE GaugeInv'
  BY <1>0, <1>1, <1>3, StartOK DEF handleDelete
<1>4. ASSUME NEW K \in SUBSET Key, RestoreClears(w, K) PROVE GaugeInv'
  <2>1. cached' \in SUBSET Key /\ shrunk'
    BY <1>0, <1>4 DEF RestoreClears
  <2> QED
    BY <1>4, <2>1, StartOK DEF RestoreClears
<1>5. ASSUME NEW K \in SUBSET Key, RebalanceMoves(w, K) PROVE GaugeInv'
  BY <1>0, <1>5, StartOK DEF RebalanceMoves, Size
<1>6. CASE RestorePuts(w)
  <2>1. PICK k \in job[w].todo : Puts(k) /\ Becomes(w, Job("restores", job[w].todo \ {k}, 0))
    BY <1>6 DEF RestorePuts
  <2>2. k \in Key /\ job[w].todo \ {k} \in SUBSET Key /\ "restores" \in Places
    BY <1>0 DEF Record, Places
  <2> DEFINE j == Job("restores", job[w].todo \ {k}, 0)
  <2>3. j \in Record /\ j.at = "restores"
    BY <1>0, <2>2, JobFields
  <2> HIDE DEF j
  <2>4. Becomes(w, j)
    BY <2>1 DEF j
  <2>5. cached' \in SUBSET Key /\ Size <= Size'
    BY <1>0, <2>1, <2>2, PutsOK
  <2> QED
    BY <1>0, <1>6, <2>3, <2>4, <2>5, ChangeOK DEF RestorePuts, Busy
<1>7. CASE RemoveMoved(w)
  <2>1. PICK k \in job[w].todo :
          cached' = cached \ {k} /\ Becomes(w, Job("rebalances", job[w].todo \ {k}, 0))
    BY <1>7 DEF RemoveMoved
  <2>2. job[w].todo \ {k} \in SUBSET Key /\ "rebalances" \in Places
    BY <1>0 DEF Record, Places
  <2> DEFINE j == Job("rebalances", job[w].todo \ {k}, 0)
  <2>3. j \in Record /\ j.at = "rebalances"
    BY <1>0, <2>2, JobFields
  <2> HIDE DEF j
  <2>4. Becomes(w, j)
    BY <2>1 DEF j
  <2> QED
    BY <1>1, <1>7, <2>1, <2>3, <2>4, ChangeOK DEF RemoveMoved, Busy
<1>8. CASE Measures(w)
  <2> DEFINE j == Job("measured", {}, Size)
  <2>1. j \in Record /\ j.at = "measured" /\ j.size = Size
    BY <1>0, JobFields DEF Places
  <2> HIDE DEF j
  <2>2. Becomes(w, j) /\ Busy(w) /\ UNCHANGED <<cached, gauge, mixed, shrunk>>
    BY <1>8 DEF Measures, j, Busy
  <2>3. /\ job' \in [Worker -> Record]
        /\ \A v \in Worker : job'[v] = IF v = w THEN j ELSE job[v]
    BY <1>0, <2>1, <2>2, JobOK
  <2>4. TypeOK' /\ Size' = Size
    BY <1>0, <2>2, <2>3 DEF TypeOK, Size, Record
  <2>5. AloneOK'
    BY <2>1, <2>2, <2>3, <2>4 DEF GaugeInv, AloneOK, Busy, AtRest
  <2>6. GrowsOK'
    BY <1>0, <2>1, <2>2, <2>3, <2>4 DEF GaugeInv, GrowsOK
  <2> QED
    BY <2>4, <2>5, <2>6 DEF GaugeInv
<1>9. CASE UpdateCacheSize(w)
  <2>1. Idle \in Record /\ Idle.at = "idle"
    BY <1>0, JobFields DEF Idle, Places
  <2>2. /\ Becomes(w, Idle) /\ Busy(w) /\ job[w].at = "measured"
        /\ gauge' = job[w].size /\ UNCHANGED <<cached, mixed, shrunk>>
    BY <1>9 DEF UpdateCacheSize, Busy
  <2>3. /\ job' \in [Worker -> Record]
        /\ \A v \in Worker : job'[v] = IF v = w THEN Idle ELSE job[v]
    BY <1>0, <2>1, <2>2, JobOK
  <2>4. TypeOK' /\ Size' = Size
    BY <1>0, <2>2, <2>3 DEF TypeOK, Size, Record
  <2>5. AloneOK'
    BY <2>1, <2>2, <2>3, <2>4 DEF GaugeInv, AloneOK, Busy, AtRest
  <2>6. GrowsOK'
    BY <2>1, <2>2, <2>3, <2>4 DEF GaugeInv, GrowsOK
  <2> QED
    BY <2>4, <2>5, <2>6 DEF GaugeInv
<1> QED
  BY <1>2, <1>3, <1>4, <1>5, <1>6, <1>7, <1>8, <1>9

LEMMA GaugeInit == Init => GaugeInv
<1> SUFFICES ASSUME Init PROVE GaugeInv
  OBVIOUS
<1>1. Size = 0 /\ 0 \in 0 .. Cardinality(Key)
  BY KeysMost, FS_EmptySet DEF Init, Size
<1>2. Idle \in Record /\ Idle.at = "idle"
  BY <1>1, JobFields DEF Idle, Places
<1>3. TypeOK
  BY <1>1, <1>2 DEF Init, TypeOK, Record
<1>4. gauge = 0 /\ \A w \in Worker : job[w].at = "idle"
  BY <1>2 DEF Init
<1>5. AloneOK
  BY <1>1, <1>4 DEF AloneOK, Busy
<1>6. GrowsOK
  BY <1>1, <1>4 DEF GrowsOK
<1> QED
  BY <1>3, <1>5, <1>6 DEF GaugeInv

LEMMA GaugeStep == GaugeInv /\ [Next]_vars => GaugeInv'
<1>1. GaugeInv /\ Next => GaugeInv'
  BY UpdateStep DEF Next
<1>2. GaugeInv /\ UNCHANGED vars => GaugeInv'
  BY DEF vars, GaugeInv, TypeOK, AloneOK, GrowsOK, Busy, AtRest, Size
<1> QED
  BY <1>1, <1>2

(* Types hold: neither the gauge nor a size on its way to it is ever a     *)
(* number of entries that no cache of these keys can have.  The capacity   *)
(* is no such bound; see CapacityHeld of LRUCache.                         *)
THEOREM GaugeTypeCorrect == Spec => []TypeOK
<1>1. GaugeInv => TypeOK
  BY DEF GaugeInv
<1> QED
  BY <1>1, GaugeInit, GaugeStep, PTL DEF Spec

(* The gauge is the size at rest unless updates have overlapped since the  *)
(* rest before, for any number of updates of any kind.                     *)
THEOREM GaugeRightAtRest == Spec => []GaugeAtRest
<1>1. GaugeInv => GaugeAtRest
  BY DEF GaugeInv, AloneOK, GaugeAtRest
<1> QED
  BY <1>1, GaugeInit, GaugeStep, PTL DEF Spec

(* Until something is removed the gauge is never ahead of the cache.       *)
THEOREM GaugeNeverAhead == Spec => []GaugeNotAhead
<1>1. GaugeInv => GaugeNotAhead
  BY DEF GaugeInv, GrowsOK, GaugeNotAhead
<1> QED
  BY <1>1, GaugeInit, GaugeStep, PTL DEF Spec

-----------------------------------------------------------------------------
(* A cache whose updates never overlap, because one goroutine makes them   *)
(* all, has a gauge that is right whenever that goroutine is at rest.       *)
THEOREM GaugeRightAlone ==
  ASSUME \A v, w \in Worker : v = w
  PROVE  Spec => [](AtRest => gauge = Size)
<1>1. Init => ~ mixed
  BY DEF Init
<1>2. ~ mixed /\ [Next]_vars => ~ mixed'
  BY DEF Next, vars, Starts, AtRest, handleData, handleDelete, RestoreClears,
         RebalanceMoves, RestorePuts, RemoveMoved, Measures, UpdateCacheSize
<1>3. GaugeAtRest /\ ~ mixed => (AtRest => gauge = Size)
  BY DEF GaugeAtRest
<1> QED
  BY <1>1, <1>2, <1>3, GaugeRightAtRest, PTL DEF Spec

=============================================================================
