----------------------------- MODULE SizeGauge -----------------------------
(***************************************************************************)
(* The gauge that says how many entries a cache has.  Every operation that *)
(* changes a cache ends by reading its size under the read lock and by     *)
(* setting the gauge under no lock at all, so that the sizes of operations *)
(* that overlap may be published in another order than they were read in.  *)
(*                                                                         *)
(* This is how a cache node does it after a PUT, a DELETE, a restore and a *)
(* rebalance (cmd/auxiliary/main.go), and how the stand-alone key-value    *)
(* server does it after a PUT (main.go, pkg/metrics.go).  That server only *)
(* puts, and never evicts: a Capacity that is as large as Key.             *)
(*                                                                         *)
(* A cache is the set of its keys here.  A PUT of a new key into a full    *)
(* cache evicts any entry, that of the new key included, or none: LRUCache *)
(* has the reason, a GET that moved a node which had left the map, and     *)
(* LRUCacheProofs the proof that this is all a cache does (CacheIsMap).  A *)
(* GET changes neither.  When the process ends the gauge goes with the     *)
(* cache, and the next one is in Init again.                               *)
(***************************************************************************)
EXTENDS Naturals, FiniteSets

CONSTANTS
  Worker,   \* the goroutines that serve requests, restore or rebalance
  Key,      \* the keys
  Capacity  \* CACHE_SIZE

ASSUME GaugeAssumption ==
  /\ IsFiniteSet(Key)
  /\ Capacity \in Nat \ {0}

VARIABLES
  cached,   \* the keys of the cache
  gauge,    \* cacheSize
  job,      \* what every goroutine still has to do
  mixed,    \* history: have updates overlapped since all were last at rest?
  shrunk    \* history: has a key been removed or the cache been cleared?

vars == <<cached, gauge, job, mixed, shrunk>>

Size == Cardinality(cached)

Job(place, keys, n) == [at |-> place, todo |-> keys, size |-> n]
Idle == Job("idle", {}, 0)
Becomes(w, j) == job' = [job EXCEPT ![w] = j]

AtRest == \A w \in Worker : job[w].at = "idle"

(* w makes the first change of an update; some of it may be left to do.    *)
Starts(w, place, keys) ==
  /\ job[w].at = "idle"
  /\ Becomes(w, Job(place, keys, 0))
  /\ mixed' = ~ AtRest

-----------------------------------------------------------------------------
Init ==
  /\ cached = {}
  /\ gauge = 0
  /\ job = [w \in Worker |-> Idle]
  /\ mixed = FALSE
  /\ shrunk = FALSE

(* Cache.Put; cache[key] = value *)
Puts(k) ==
  \/ cached' = cached \cup {k}
  \/ /\ k \notin cached /\ Size >= Capacity
     /\ \E old \in cached \cup {k} : cached' = (cached \cup {k}) \ {old}

handleData(w, k) ==
  /\ Starts(w, "changed", {})
  /\ Puts(k)
  /\ UNCHANGED <<gauge, shrunk>>

mutHandleDelete(w, k) ==  \* only a PUT sets the gauge
  /\ job[w].at = "idle"
  /\ cached' = cached \ {k}
  /\ shrunk' = TRUE
  /\ UNCHANGED <<gauge, job, mixed>>

handleDelete(w, k) ==
  /\ Starts(w, "changed", {})
  /\ cached' = cached \ {k}
  /\ shrunk' = TRUE
  /\ UNCHANGED gauge

(* restoreFromSpecificBackup: Clear, and a Put per entry of the backup. *)
RestoreClears(w, K) ==
  /\ Starts(w, "restores", K)
  /\ cached' = {}
  /\ shrunk' = TRUE
  /\ UNCHANGED gauge

RestorePuts(w) ==
  /\ job[w].at = "restores"
  /\ \E k \in job[w].todo : Puts(k) /\ Becomes(w, Job("restores", job[w].todo \ {k}, 0))
  /\ UNCHANGED <<gauge, mixed, shrunk>>

(* rebalanceCache, from its loop over keysToRemove on: a Remove per key.   *)
RebalanceMoves(w, K) ==
  /\ Starts(w, "rebalances", K)
  /\ UNCHANGED <<cached, gauge, shrunk>>

RemoveMoved(w) ==
  /\ job[w].at = "rebalances"
  /\ \E k \in job[w].todo :
       cached' = cached \ {k} /\ Becomes(w, Job("rebalances", job[w].todo \ {k}, 0))
  /\ shrunk' = TRUE
  /\ UNCHANGED <<gauge, mixed>>

(* Cache.Size(); updateCacheMetrics up to RUnlock *)
Measures(w) ==
  /\ job[w].at \in {"changed", "restores", "rebalances"}
  /\ job[w].todo = {}
  /\ Becomes(w, Job("measured", {}, Size))
  /\ UNCHANGED <<cached, gauge, mixed, shrunk>>

(* cacheSize.Set; UpdateCacheSize *)
mutUpdateCacheSize(w) ==  \* every update counts one entry
  /\ job[w].at = "measured"
  /\ gauge' = gauge + 1
  /\ Becomes(w, Idle)
  /\ UNCHANGED <<cached, mixed, shrunk>>

UpdateCacheSize(w) ==
  /\ job[w].at = "measured"
  /\ gauge' = job[w].size
  /\ Becomes(w, Idle)
  /\ UNCHANGED <<cached, mixed, shrunk>>

Next ==
  \E w \in Worker :
    \/ \E k \in Key : handleData(w, k) \/ handleDelete(w, k)
    \/ \E K \in SUBSET Key : RestoreClears(w, K) \/ RebalanceMoves(w, K)
    \/ RestorePuts(w) \/ RemoveMoved(w) \/ Measures(w) \/ UpdateCacheSize(w)

Spec == Init /\ [][Next]_vars

-----------------------------------------------------------------------------
Places == {"idle", "changed", "restores", "rebalances", "measured"}

TypeOK ==
  /\ cached \in SUBSET Key
  /\ gauge \in 0 .. Cardinality(Key)
  /\ job \in [Worker -> [at : Places, todo : SUBSET Key, size : 0 .. Cardinality(Key)]]
  /\ mixed \in BOOLEAN
  /\ shrunk \in BOOLEAN

(***************************************************************************)
(* When all updates are over the gauge is the size, unless two of them     *)
(* have overlapped since all were last at rest: whatever went wrong before *)
(* that, the next update that runs alone repairs it (cmd/auxiliary/main.go *)
(* 385-386, 471-472, 872-880, 1013-1018; main.go 59-65).                   *)
(***************************************************************************)
GaugeAtRest == AtRest /\ ~ mixed => gauge = Size

(***************************************************************************)
(* As long as nothing has been removed the gauge is never ahead of the     *)
(* cache, in whatever order overlapping updates publish what they have     *)
(* read and however often an entry is evicted for another.  It holds for   *)
(* ever on the stand-alone server, which removes nothing (main.go 59-65).  *)
(***************************************************************************)
GaugeNotAhead == ~ shrunk => gauge <= Size

=============================================================================
