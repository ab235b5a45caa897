# Verification of the distributed cache

TLA+ models of the distributed cache in this repository, the TLC runs that check
them on small instances, and theorems about them that TLAPS proves for every
instance. `PROJECT.json` lists the components, the runs, the lines of code behind
every definition, the hazards of the code and the theorems.

## The system

A client talks to nginx, which passes each request to one of three **masters**
(`src/cmd/master`). A master keeps a registry of **cache nodes**
(`src/cmd/auxiliary`) and a **consistent hash ring** (`src/internal/hashing`) of
their names, and forwards a request for a key to the node the ring gives. A cache
node keeps its entries in an **LRU cache** (`src/internal/cache`), writes backups of
it to files, and redistributes it when a master asks. All of them are Go programs
that serve every request in a goroutine of its own.

| Component | State | Operations | Called by |
|---|---|---|---|
| LRU cache | map, doubly linked list, one RWMutex | Get, Put, Remove, Clear, GetAll, Size | handlers, backups and rebalances of a cache node |
| Hash ring | `ring`, `sortedHashes`, `nodes`, factor, one RWMutex | Add, Remove, Get, Rebalance, SetReplicationFactor | handlers of a master; the last two only by users of the package |
| Registry of a master | `auxNodes` with its RWMutex, `nodeStatusGauge` without a lock | register, deregister, update status; health check, mark down, trigger rebalance | cache nodes, operators, a ticker |
| Routing of a master | none of its own | three lookups (number of nodes, ring, registry), then a forward with a timeout | nginx, for clients |
| nginx | none | picks a master for each request, tries another one if the connection to it is lost | clients, cache nodes |
| Rebalancing of a cache node | a copy of the cache, the keys to remove | list nodes, post keys one by one, remove them | the masters |
| Backup and restore of a cache node | backup files | create, restore a given one, restore the latest at start, back up before the end | a ticker, the masters, start and shutdown |
| Size gauge of a cache node | a gauge, set under no lock | set after every operation that changes the cache | the handlers, restores and rebalances |
| Stand-alone server (`src/main.go`) | a map, a mutex, a size gauge | put, get | clients; not part of the cluster |

What is hard about it:

* **Interleaving.** Most handlers take a lock for one step, release it, and take it or
  another one again: Get of the cache, registering and deregistering, status
  updates, SetReplicationFactor, every setting of a gauge. A master serves a request
  with three lookups and a forward and holds nothing in between. A rebalance and a
  restore take the cache's lock once per key.
* **Failure.** Requests between the programs time out after 5 to 30 seconds and are
  not repeated; a request that timed out may still be served. Nodes crash; only
  backup files survive, and one that was being written survives incomplete. Masters
  crash, and their registries survive nowhere.
* **Ordering.** Health checks, rebalances and backups run in goroutines that nothing
  orders with each other or with the requests that caused them.
* **Data structures.** The linked list and the sorted list of hashes are only right
  if many small steps are; an error shows up several calls later.

What makes each component correct: the cache is an atomic LRU cache of bounded size; the
ring is a consistent hash of exactly its members; the registry, the ring and the gauge of a
master agree once it is at rest, every change is followed by a rebalance and every crash is
noticed; a client reads what was last written, and is turned away only with a reason;
redistributing loses no key and ends; a restart has what was backed up; the gauges say how
many entries there are. The code keeps some of these promises always, some under conditions
that the models name, and breaks some: see *Disagreements*.

## The modules

| Module | Models | Against |
|---|---|---|
| `LRUCache` | `internal/cache/lru.go`, one action per critical section | `LRUSpec`, the atomic LRU cache; `MapSpec`, a map that loses an entry when it is full |
| `ConsistentHash` | `internal/hashing/consistent.go`, one action per critical section | `RingSpec`, consistent hashing; `RouteSpec`, a ring as `Cluster` takes it |
| `MasterRegistry` | registry, gauge, health checks and rebalance trigger of one master | |
| `Rebalance` | `rebalanceCache` on all cache nodes, with their clients | |
| `BackupRestore` | files, start, stop and crash of one cache node, with its clients | |
| `Cluster` | clients, nginx, the masters with their registries and rings, the cache nodes: a request from one end to the other | a history of what a client may read |
| `Routing` | what `HashRing.Get` may answer, whole list or not | used by `Cluster` and `RouteSpec` alike |
| `SizeGauge` | the gauge of a cache node, and of the stand-alone server | |
| `LRUCacheProofs`, `RingListProofs`, `ConsistentHashProofs`, `MasterRegistryProofs`, `RebalanceProofs`, `BackupRestoreProofs`, `ClusterProofs`, `SizeGaugeProofs` | theorems and proofs | |
| `MC...` | the small instances for TLC | |

**LRUCache.** `cacheMap` and `list` are the map and the pointers, over node objects
numbered as `Put` allocates them; objects that have left the list keep their fields,
which is what a stale pointer sees. `Get` is `GetLookup` (read lock) followed by
`GetMove` or `GetGone` (write lock); the other methods are one action. `older` is a
history of the recency order, `seen` of the values a pending Get may return, and
`staleMove` says that some Get has moved an object that the map no longer held. Keys
of a miss, and calls that change nothing, are stutters. There are two specifications
above it. `LRUSpec` says which entry an eviction takes; the code implements it until a
stale move. `MapSpec` leaves that open and says only that the cache changes as
its callers ask, which is what the handlers, the backups and the rebalances of a cache
node rely on; the code implements it always. There a Get takes time (`pendingGets`)
and changes nothing.

**ConsistentHash.** A key is its hash, so the keys are the positions of the ring.
`hashKey` is chosen from a set of functions at the start. `Search` is the binary
search itself, because its result on an unsorted list depends on the comparisons it
makes. `Search` and `Without` are recursive functions, so that they can be proved about
(`RingListProofs`). `Remaining` is the loop of `Remove` with its repeated rebuilding. `pending`
marks the gap in `SetReplicationFactor`; `disturbed` records that the list may no
longer be the sorted list of the ring's hashes: after a `Remove` with more than one
virtual node, after a `Remove` of a node that shares a hash, and between a changed
factor and the next `Rebalance`, which repairs it. `GetNeverStrays` is what a lookup
still guarantees then: it does not answer a node that is gone. There are two specifications
above it. `RingSpec` says which keys move; the ring implements it while it is undisturbed
and free of collisions. `RouteSpec` says only what lookups may answer as nodes come and go
(`Routing`), and the ring implements it as long as nobody changes the factor. No master
does: they call `Add`, `Remove` and `Get` only.

**MasterRegistry.** Every step between two lock operations is an action, and `job`
says where each goroutine is. `HashRing` is its set of nodes here, with `Add` and
`Remove` atomic as in `ConsistentHash`. `Info` are the NodeInfo objects: a status
update writes to the one it found, which may have left the map. A status other than
"up" counts as "down". `due` counts triggered rebalances. `crossed` and `mixed` record
nodes whose edits, or any of whose jobs, have overlapped; `asked` records whether a
node has been asked to rebalance since the ring last changed. Registered nodes are
probed at any time, a probe of a live node may fail, and a node that was probed
before a crash may have answered.

**Rebalance.** One node may run several rebalances. Each is the state of its local
variables and the place in its loop. `owner` is the node the master forwards a key
to, a constant of the behaviour: what goes wrong here does so with a ring that does not
change. The target of a post is any other node of `nodeMap`, because the code indexes
a slice filled in map iteration order with the sum of the key's characters. A post can fail
before or after it is stored, and can be stored after it was given up (`late`).
`wanted` is what clients last asked for. The caches do not evict here; eviction is the
subject of `LRUCache`.

**BackupRestore.** `file` is the state of each backup file, `job` the place of each
goroutine in `createBackup` or `restoreFromSpecificBackup`. Backups are numbered by
the time in their names, which is read before the contents are. `os.WriteFile`
creates the file before it is complete. Any goroutine may back up or restore while
the server runs, whether the ticker or a request made it. `Crashes` may come at any
moment. `calm` and `expected` are the histories behind `CalmStopKeepsAll`;
`StartRestoresNewest` needs none.

**Cluster.** This composes the parts, each as simple as the composition allows. A master is
a set of nodes in its map, a set of nodes in its ring, and `route`, what `HashRing.Get`
gives for each key: the next node on the circle until the ring has seen a Remove, and any of
its nodes or none afterwards. These are the answers of `Routing`, which the theorem
`RingRoutes` gets from the code of the ring. A registration and a deregistration keep the
two steps of `MasterRegistry`. A key is what the handler of the master has for it. A PUT
carries it to the node in JSON. For a GET or a DELETE the master puts it into a URL without
escaping, and the node reads the path of that URL: `PathKey` is the key that results,
`nobody` if there is none, and `Reached` the key that a request gets to. `a?b` and `a#b`
read as `a`, `%41` as `A`; `Plain` keys read as they are. A node may redirect a request
because of its path, and the DELETE then does nothing. A request goes through `CountNodes`
(the check for an empty registry), `RingGet` and `FindNode`, which read `auxNodes`, `route`
and `auxNodes` again, each at its own time; then the node carries it out (`Handled`) and the
client is told (`Replied`), or the forward fails before or after that (`ForwardFails`), or
it is given up and carried out later (`ForwardGivenUp`, `LateHandled`). nginx picks any
running master for a request, and another one (`Retry`) when the first crashes under it;
what the first had forwarded may still be carried out. A node registers once, when it
starts, with any master; if that fails it goes on (`UNCHANGED edit` in `Starts`), and the
master may carry the registration out after the node has given it up (`Serves`). It
deregisters, before it ends, from any master. `TriggerMoves` to `MovesEnd` stand for a
rebalance or a restore: while one runs on a node, entries of it and of others change as they
like, also by posts of a node that has crashed since; `Rebalance` and `BackupRestore` say
how. The histories are `may` (for each master and key, what a read may find), and in each
request `seen`, `fresh` and `calm`, explained in the module. `ReadRegular` and
`RefusedOnlyUnsettled` are about one master, because masters tell each other nothing
(`EveryMasterKnows` fails): a read through one of them owes nothing to a write through
another. `ReadRegular` is about plain keys, with the DELETEs of other keys whose URL says
the same counted as writes; for other keys it fails (see *Disagreements*).

**SizeGauge.** A cache is the set of its keys. Each goroutine has a `job`: the keys it
has still to put or to remove, then the size it has read and not published yet. PUT and
DELETE change one key; a restore clears the cache and puts back what it has read; a
rebalance removes what it has moved. A PUT of a new key into a full cache costs any one
entry, its own included, or none: after a stale Get an eviction may fail or take another
key, and `CacheIsMap` proves that this is all it can do. So the capacity bounds
neither the size nor the gauge. `mixed` records that updates have overlapped since
all were last at rest, `shrunk` that something has been removed. The stand-alone
server is the case in which only `handleData` happens and nothing is evicted.

## The runs

All bounds are constants of the modules, set in the `.cfg` files.

| Run | Instance | Shows |
|---|---|---|
| `LRUThreads` | 3 keys, 2 values, 2 goroutines, capacity 2, 4 allocations | `ListIntact`, `SizeBounded`, `ImplementsWhileFresh` until a stale move; `GetRegular`, `NodesOwned`, `ImplementsMap` always |
| `LRUCapacity` | the same with 1 value, 5 allocations | violation of `CapacityHeld` |
| `RingChanges` | 3 nodes, factors 1 and 2, 6 positions, list of at most 6 hashes after a Remove | `RingSound`, `RingListed`, `GetNeverStrays` always; `RoutesWhileFactorKept` between changes of the factor; `ListExact`, `GetIsSuccessor`, `ConsistentWhileUndisturbed` until disturbed |
| `RingLookup` | 2 nodes, 5 positions | violation of `GetFindsNode` |
| `RegistryOneNode` | 1 node, 2 handlers, 1 health check at a time, 2 NodeInfo objects | `RegistryMatchesRing`, `GaugeForRegistered`, `RebalanceFollowsChange`, and `CrashDetected` under fairness |
| `RebalanceEnds` | 2 nodes, 2 keys, 1 rebalance per node, 1 late post | `KeysSurviveAlone`, and `RebalanceEnds` under fairness |
| `RebalanceLosesKey` | 2 nodes, 1 key | violation of `KeysSurvive` |
| `BackupRestarts` | 2 keys, 1 worker besides main, 3 backups | `RestoreRegular`, `CalmStopKeepsAll`, `StartRestoresNewest`, and `StopEnds` under fairness |
| `BackupTorn` | 1 key, 2 backups | violation of `StartRestoresBackup` |
| `ClusterServes` | 2 masters, 2 nodes, 2 requests at a time, 1 key, 1 value, 1 late write, 3 changes | `ReadRegular`, `RefusedOnlyUnsettled` |
| `ClusterKnows` | 2 masters, 1 node | violation of `EveryMasterKnows` |
| `GaugeUpdates` | 3 goroutines, 3 keys, capacity 2 | `GaugeAtRest`, `GaugeNotAhead` |

Why the bounds are enough for the cases that matter:

* *LRU.* Capacity 2 is the least at which head and tail differ, three keys force an
  eviction, and the stale move needs two goroutines and a key that is put, removed
  and put again: 4 allocations leave room for it and one eviction. The theorems
  cover every other instance.
* *Ring.* Six positions hold three nodes with two virtual nodes each without a
  collision; in these functions a node's first hash is the lower of its two.
  The colliding functions send all six to two positions. Six hashes after a Remove
  allow the removal from a ring of two nodes, whose list it makes longer than it was.
* *Registry.* All hazards are of two goroutines at work on one node, or of one
  rebalance triggered for another node. Rebalances that have been triggered and not
  run are counted up to `MaxDue`; two in a row do what one does. With two NodeInfo
  objects, a registration waits while both are still referred to. That nodes do not
  affect each other's entries is left to the theorems, which are about any number.
* *Rebalance.* Keys do not affect each other's fate, except that one rebalance treats
  them in turn; hence two. The constraint `OneOwner` lets one node own both keys: the
  owner only decides where clients write. The theorems cover more
  nodes, several rebalances of one node and more late posts.
* *Backup.* Three backups are a completed one, one that is overtaken and one that is
  torn; the second key makes half-done restores visible.
* *Cluster.* A change is a start, the beginning of a stop, a crash, or a trigger of a
  rebalance. Three of them fit two starts and a stop, a crash or a rebalance, so that a
  registry is edited and a node goes away under a request. Keys meet in the ring, which one
  key and two distances exercise, and in the URLs: the key of the run is a plain one, and
  what keys do that are not plain is left to the theorem `ReadsAreRegular`, which holds for
  any `PathKey`. A DELETE is the second content that a write may leave beside the value.
* *Gauge.* Two goroutines publish in the wrong order while a third runs through; a
  capacity below the number of keys makes an eviction possible.

Symmetry over keys, values, nodes, masters, requests and goroutines is used for safety only.
No run disables the deadlock check.

**Fairness.** Assumed only where the code gives it: goroutines that can go on do
(`WF` of the steps of each), the ticker of the health checks fires again, a probe or
post ends by its timeout, and `server.Shutdown` by the shutdown timeout. Nothing is
assumed of clients, of crashes, of which answer a live node gives, or that any post
succeeds.

## The proofs

All are for arbitrary sets of keys, values, nodes, masters, requests and goroutines, from
the named assumptions of the modules: markers for "nothing" are not ordinary values, the
capacity is positive, bounds are natural numbers, the sets that the code can only
build finite are finite.

* **LRUCache.** The inductive invariant is `CacheInv == TypeOK /\ NodesOwned /\ FiniteCache
  /\ ListIntact /\ SizeBounded`. `ListIntact` states the list locally (`NextToOlder`,
  `PrevToYounger`, `EndsCached`, over the recency order `older`), so that a step can be
  shown to preserve it by looking at a node and its neighbours; no reachability or induction
  over the list is needed. Lemmas give what `removeNode`, `pushFront`, `insertNew` and
  `dropTail` do to a list that is intact. Owning (`NodesOwned`) is needed because an
  eviction deletes by the key of the tail, types because an unallocated node must be blank
  when it is linked in, and finiteness for the counting of `SizeBounded`. `GetIsRegular`
  needs owning as well, and no intact list: a Get's answer is right even when it damages the
  list. `ImplementsSpecWhileFresh` maps every step to one of `LRUSpec` or a stutter;
  `FreshIsSpec` is the refinement for a whole behaviour in which no Get moves a stale
  object. `AloneIsSpec` and `CapacityHeldAlone` show that one goroutine never does: between
  the halves of its Get the map still has the object it found (`AloneInv`). So the violation
  of `LRUCapacity` is one of concurrency alone. `CacheIsMap` is the refinement of `MapSpec`,
  with no proviso. It needs owning and finiteness, and of the list nothing: an eviction
  takes the key of some object, in the map or not.
* **ConsistentHash.** `RingInv == TypeOK /\ RingSound /\ RingListed /\ (pending =>
  disturbed) /\ (~ disturbed => ListComplete)`. `RingSound` alone is not inductive without
  the types: a rebuild starts from an empty ring, and that a rebuilt ring has a last writer
  for each hash rests on the least element of a set of numbers. `ListComplete` says that the
  list is in order and has the hashes of the nodes and no others; `RingListed` is what
  `Remove` leaves of that when it leaves removed hashes in the list.

  `RingListProofs` has what the operators on lists do, for every list: `SortedOK`
  (sorted, and the same elements), `WithoutOK` (one hash less, in the same order),
  `FlattenOK`, and `SearchOK` (on a list in order the search ends between the
  hashes below the one sought and the others; on any list it ends within
  bounds). The induction is over numbers, with the set of the indexes up to which a
  statement holds in place of a predicate (`UpTo`), because the induction theorems of
  the library take an operator. That a recursive definition has a solution at all is
  proved too (`RecursionExists`, `BisectExists`): a CHOOSE says nothing otherwise.

  From these: a lookup reads the ring at some listed position (`GetNeverStrays`); while
  undisturbed it ends at the first hash clockwise (`Follows`, which at most one hash
  satisfies), so that `GetFindsSuccessor`. `GetFindsNearest` restates this as a distance.
  Together they are `RoutesKept`, step by step, and `RingRoutes`, for whole behaviours: a
  ring whose factor is never changed implements `RouteSpec`, whatever `Remove` does to its
  list and however hashes collide. The only hypothesis is that `SetReplicationFactor` is not
  called (`[](~ pending)`). `Cluster` uses the same operator (`Routes` of `Routing`) for the
  rings of its masters, so what it assumes of them is what is proved here. A key whose first
  hash clockwise is there before and after a change keeps its node (`OwnerKept`), which
  gives `RingConsistent`, and from it `RingIsSpec`: a ring that is never disturbed and has
  no collisions implements `RingSpec`.

  `ListStaysExact` counts. `ListComplete` is about the set of hashes and would allow a
  list that grows; `ListExact` with `RingInv` is inductive. `SortedCount`, `ConcatCount`,
  `WithoutCount` and `FlattenCount` say how often a hash is in what the operators on
  lists return, for every list; `HashesCount` puts the hashes of a node and its virtual nodes
  in a bijection. Then `AddExact` adds the virtual nodes of one node, `RebalanceExact` those of
  disjoint nodes, and `RemoveExact` takes away the one that a node has where `Remove` does
  not disturb.
* **MasterRegistry.** `RegistryInv == TypeOK /\ EditsOK`. `EditsOK` says of each node
  whose edits have not overlapped that at most one goroutine edits it and that map and
  ring are as that goroutine's place says (a registration between its two steps: in the
  ring and not in the map, and so on); with no editor they agree. `AskedInv` adds that
  where a registered node has not been asked, a rebalance is due or a goroutine is on its way
  to trigger one; that goroutine may be at work on another node, which is why
  one instance of one node shows little. `RegistryRightAlone`: with one handler no edits
  overlap (`NoneCrossed`; health checks edit nothing), so map and ring agree about every
  node at rest. `GaugeInv` is `EditsOK` for the gauge, with the
  health checks among the goroutines.
* **Rebalance.** `AloneInv == TypeOK /\ (~ overlap => AloneOK)`. As long as one node at
  a time has rebalanced, each key that it takes to be at another node (`Moved`) is there,
  unless a client deleted it at its owner (`Copied`). Removing the
  key from the node that posted it then loses nothing.
* **BackupRestore.** `Typed` adds to the types that no file has a name that has not been
  given out. `RestoreOK`: restores that have not overlapped are one at a time, and each
  key is as the restore left it or as something has written it since. `StopInv` follows a
  calm stop: its copy stays true until the file is complete, that file stays the latest
  through starts that crash, and what a start has put so far is what it has read.
  `StartOK` says of any start, after whatever crashes, that what it has read is the whole
  file with the latest name, and that the cache is empty or what it has put; hence
  `StartsRestoreNewest`.
* **Cluster.** `ReadInv`: what a read through a master finds is in `may` (`FoundOK`), and
  so is what writes in flight would make of it (`PendingOK`); an undisturbed request is
  with the node that the ring gives, and its `seen` has everything that others are doing
  (`FreshOK`). A write that has been answered may narrow `may` because of that.
  `CalmInv`: an undisturbed ring gives a node it has, and as long as nobody edits the
  registry, map and ring agree between the lookups. Both are for any
  `PathKey`: a write counts for the key it reaches (`Reached`), while the node and the
  history of a request are those of the key it was made for; `ReadRegular` needs the two to
  be the same.
* **SizeGauge.** `GaugeInv == TypeOK /\ AloneOK /\ GrowsOK`: no more keys are cached than
  there are (`KeysMost`); of updates that do not overlap, a size that was read is still the
  size; until something is removed, no size that was ever read is larger than the cache.
  `GaugeRightAlone`: with one goroutine none overlap.

Every safety property that a run shows to hold, and every action property, is proved. Only
model-checked is liveness (`CrashDetected`, `RebalanceEnds`, `StopEnds`): fairness and
ENABLED are outside what the prover does. The theorems named "alone" have a hypothesis on a
constant, that a set of goroutines has one member; it is what separates them from the runs
that expect a violation. No module declares a RECURSIVE operator.

## Disagreements

Five runs expect a violation; each checks what a comment or the documentation says,
and `PROJECT.json` quotes the line.

1. `LRUCapacity`: G1 looks a key up; G2 removes it and puts it again; G1 moves the old
   object to the front. Unlinking it by the neighbours it had sets the Prev of the one behind
   it to nil, although the new object is in front of that one. When that one, the tail, is
   removed, Tail becomes nil while Head is not. Putting a new key sets Tail for an empty list
   only, and `removeLRU` returns without evicting (`lru.go:200`): the cache outgrows its
   capacity.
2. `RingLookup`: `Remove` keeps removed hashes in the list when a node has more than
   one virtual node, and Get answers "" for keys that hash before them.
3. `RebalanceLosesKey`: two nodes post a key to each other and both remove it.
4. `BackupTorn`: a start after a crash tries the latest file only, which the crash
   may have left incomplete.
5. `ClusterKnows`: a node registers once, with the master that nginx picks, and masters
   never share their registries. The others turn its keys away or give them to other nodes,
   a deregistration that reaches another master is refused, and the nodes of a master that
   crashed are known to none. `README.md:75` has ZooKeeper for node registration, and
   `README.md:262` routes around a failed master.

Also seen while modelling, and not carried by a run:

* `lru.go:51` says the second check is for a node removed meanwhile; it tests the key
  (the cause of 1). `consistent.go:81` says the list is rebuilt without the removed
  node's hashes (the cause of 2). `Remove` also multiplies the list by about the factor.
* `master/main.go:80` calls the gauge the status of the nodes; a node that registers
  again is "up" in the registry, and its gauge stays 0 until the next health check.
* When a registration and a deregistration of one node overlap, each checks the map, changes
  the ring and changes the map in steps of its own (`master/main.go:663-699`, `763-780`), and
  the node may stay registered and unreachable, or routed to and unknown, though
  `README.md:16` promises proper synchronization. `RegistryMatchesRing` names these nodes
  (`crossed`), and `RegistryRightAlone` is the promise for requests that come one at a time.
* The key of a GET or a DELETE is put into a URL without escaping (`master/main.go:553` and
  `1190`) and read from its path (`auxiliary/main.go:409`), that of a PUT is sent in JSON:
  `a?b` is put as `a?b`, and read and deleted as `a`. So the GET of such a key does not give
  what was put (`master/main.go:1158`: "GET requests for a specific key"); `ReadRegular`
  is about the others.
* A node that is down stays in the ring, and rebalances run among the others, so its
  keys fail until it deregisters (`README.md:261` promises that operations continue).
* A rebalance moves the value of its copy, so an update made since is removed with
  the key (`auxiliary/main.go:1005`), and it moves keys to nodes that the master's
  ring does not give (`auxiliary/main.go:968`).
* Writes that are accepted after the copy for the shutdown backup
  (`auxiliary/main.go:239`) are lost.
* A registration that fails is only logged (`auxiliary/main.go:198`).
* `pkg/metrics.go:52` calls the gauge "the current number of items"; after updates that
  overlapped it may be wrong until the next update.
* `handleBackup` answers with the size of the cache after the backup
  (`auxiliary/main.go:552`), not with the number of entries in it.

## Not modelled

* `Size`, `GetAll`, `GetNodes`, `handleHealth` and the other reads change nothing;
  they appear as state functions where a property needs them.
* Which nodes a master asks to back up: it selects by a status that nothing else
  depends on, and `BackupRestore` has requests come at any time.
* How nginx and a master decode the URL of a client: `Cluster` begins with the key that
  the master's handler has. A URL that a node answers with no entry whatever is put (its
  path has no key, or leaves `/data/`) counts as one that reaches no key.
* Eviction in `Rebalance`, `BackupRestore` and `Cluster`: there a full cache would only
  add that any key may vanish. Entries do not expire in this code.
* Message contents, validation of requests, logging, counters and histograms,
  configuration; `pkg/models` holds plain structs.
* Prometheus, Grafana, Docker and ZooKeeper are configuration; no code uses ZooKeeper. Of
  nginx only its choice of a master and its retries are modelled. The load test is a client.

## Plan

Done, in this order: LRU cache (on which everything rests), ring, registry,
rebalancing, backup; then the cluster that composes them, the gauge, and the proofs of
every safety property. What is left:

1. Under which order of triggers rebalances never overlap, so that `KeysSurviveAlone`
   speaks about a whole cluster; the masters promise no such order.
2. Liveness of a request in `Cluster`: it is answered or refused. This holds by the
   timeouts alone, so it is last.
