--------------------------- MODULE ConsistentHash ---------------------------
(***************************************************************************)
(* The hash ring of internal/hashing/consistent.go.  A node has one        *)
(* virtual node per unit of the replication factor; ring maps the hash of  *)
(* a virtual node to its node, and sortedHashes lists those hashes for the *)
(* binary search of Get.                                                   *)
(*                                                                         *)
(* Every method holds the mutex throughout, except SetReplicationFactor,   *)
(* which releases it before it calls Rebalance: it is two actions, and in  *)
(* between other calls meet a ring that does not have the new factor.      *)
(*                                                                         *)
(* A hash is a position of the ring and a key is looked up by its own hash *)
(* alone, so the keys of the model are the positions.  hashKey, MD5 in the *)
(* code, is any of the functions in Hashing, collisions included.          *)
(***************************************************************************)
EXTENDS Integers, Sequences, FiniteSets, Functions

Seqs == INSTANCE SequencesExt

CONSTANTS
  Node,       \* the node names
  none,       \* "", the name that Get returns for no node
  MaxHash,    \* hashes are 0 .. MaxHash
  MaxFactor,  \* bound: replication factors are 1 .. MaxFactor
  Default,    \* the replication factor that replaces one below 1
  Hashing,    \* the functions hashKey may be
  MaxLen      \* bound: Remove may make sortedHashes this long

Position == 0 .. MaxHash
Factor == 1 .. MaxFactor
VirtualNode == Node \X (0 .. MaxFactor - 1)

ASSUME RingAssumption ==
  /\ none \notin Node
  /\ IsFiniteSet(Node)
  /\ MaxHash \in Nat
  /\ MaxFactor \in Nat \ {0}
  /\ Default \in Factor
  /\ MaxLen \in Nat
  /\ Hashing \subseteq [VirtualNode -> Position]

VARIABLES
  hashKey,            \* the hash of every virtual node; never changes
  ring,               \* ConsistentHash.ring; none where it has no entry
  sortedHashes,       \* ConsistentHash.sortedHashes
  nodes,              \* ConsistentHash.nodes
  replicationFactor,  \* ConsistentHash.replicationFactor
  pending,            \* a SetReplicationFactor has not called Rebalance yet
  disturbed           \* history: see Remove and SetFactor

vars == <<hashKey, ring, sortedHashes, nodes, replicationFactor, pending, disturbed>>

-----------------------------------------------------------------------------
(* The hashes of n's virtual nodes, in the order the loops visit them. *)
HashesOf(n) == [i \in 1 .. replicationFactor |-> hashKey[<<n, i - 1>>]]

(* A factor below 1 is replaced by the default. *)
mutChecked(r) == r  \* it is not

Checked(r) == IF r < 1 THEN Default ELSE r

mutSorted(s) == s  \* appended, not sorted

(* sort.Slice: the i-th smallest element at index i. *)
Sorted(s) ==
  [i \in DOMAIN s |->
     CHOOSE x \in Range(s) :
       /\ Cardinality({j \in DOMAIN s : s[j] < x}) < i
       /\ i <= Cardinality({j \in DOMAIN s : s[j] <= x})]

(* s without h, as a loop that appends what it keeps *)
Without(s, h) ==
  LET kept[i \in 0 .. Len(s)] ==
        IF i = 0 THEN <<>>
        ELSE IF s[i] = h THEN kept[i - 1] ELSE Append(kept[i - 1], s[i])
  IN  kept[Len(s)]

(* sort.Search for the first index, from 0, whose element is >= h: a binary *)
(* search, which on an unsorted s ends wherever its comparisons lead it.    *)
mutSearch(s, h) ==  \* the first index whose element is > h
  Cardinality({i \in DOMAIN s : s[i] <= h})

Search(s, h) ==
  LET bisect[ij \in (0 .. Len(s)) \X (0 .. Len(s))] ==
        LET m == (ij[1] + ij[2]) \div 2
        IN  IF ij[1] >= ij[2] THEN ij[1]
            ELSE IF s[m + 1] >= h THEN bisect[<<ij[1], m>>] ELSE bisect[<<m + 1, ij[2]>>]
  IN  bisect[<<0, Len(s)>>]

Get(h) ==
  IF \A p \in Position : ring[p] = none THEN none
  ELSE LET idx == Search(sortedHashes, h)
       IN  ring[sortedHashes[IF idx = Len(sortedHashes) THEN 1 ELSE idx + 1]]

(* Two nodes have a hash in common. *)
Collide(m, n) == Range(HashesOf(m)) \cap Range(HashesOf(n)) # {}

-----------------------------------------------------------------------------
Init ==
  /\ hashKey \in Hashing
  /\ ring = [p \in Position |-> none]
  /\ sortedHashes = <<>>
  /\ nodes = {}
  /\ \E r \in 0 .. MaxFactor : replicationFactor = Checked(r)
  /\ pending = FALSE
  /\ disturbed = FALSE

mutAdd(n) ==  \* a node that is there is added once more
  /\ nodes' = nodes \cup {n}
  /\ ring' = [p \in Position |-> IF p \in Range(HashesOf(n)) THEN n ELSE ring[p]]
  /\ sortedHashes' = Sorted(sortedHashes \o HashesOf(n))
  /\ UNCHANGED <<hashKey, replicationFactor, pending, disturbed>>

Add(n) ==
  /\ n \notin nodes
  /\ nodes' = nodes \cup {n}
  /\ ring' = [p \in Position |-> IF p \in Range(HashesOf(n)) THEN n ELSE ring[p]]
  /\ sortedHashes' = Sorted(sortedHashes \o HashesOf(n))
  /\ UNCHANGED <<hashKey, replicationFactor, pending, disturbed>>

(***************************************************************************)
(* The list is rebuilt once per virtual node, each time from all of the    *)
(* old list and after what the previous rounds have appended.  With one    *)
(* virtual node that is the list without the node's hash; disturbed        *)
(* records the Removes of which that cannot be said, and those that delete *)
(* a hash which a remaining node shares.                                   *)
(***************************************************************************)
Remaining(n) ==
  Seqs!FlattenSeq([i \in 1 .. replicationFactor |-> Without(sortedHashes, HashesOf(n)[i])])

mutRemove(n) ==  \* only the first virtual node leaves the ring
  /\ n \in nodes
  /\ nodes' = nodes \ {n}
  /\ ring' = [p \in Position |-> IF p = HashesOf(n)[1] THEN none ELSE ring[p]]
  /\ sortedHashes' = Remaining(n)
  /\ Len(sortedHashes') <= MaxLen
  /\ disturbed' = (\/ disturbed
                   \/ replicationFactor > 1
                   \/ \E m \in nodes \ {n} : Collide(m, n))
  /\ UNCHANGED <<hashKey, replicationFactor, pending>>

Remove(n) ==
  /\ n \in nodes
  /\ nodes' = nodes \ {n}
  /\ ring' = [p \in Position |-> IF p \in Range(HashesOf(n)) THEN none ELSE ring[p]]
  /\ sortedHashes' = Remaining(n)
  /\ Len(sortedHashes') <= MaxLen
  /\ disturbed' = (\/ disturbed
                   \/ replicationFactor > 1
                   \/ \E m \in nodes \ {n} : Collide(m, n))
  /\ UNCHANGED <<hashKey, replicationFactor, pending>>

(* The first critical section of SetReplicationFactor. *)
SetFactor(r) ==
  /\ replicationFactor' = Checked(r)
  /\ pending' = TRUE
  /\ disturbed' = TRUE
  /\ UNCHANGED <<hashKey, ring, sortedHashes, nodes>>

(* Nodes are added again in the order of a map iteration, which is any     *)
(* order: the last node with a hash keeps it.  order lists them from the   *)
(* last to the first.                                                      *)
Rebuilt(order) ==
  [p \in Position |->
     LET at == {i \in DOMAIN order : p \in Range(HashesOf(order[i]))}
     IN  IF at = {} THEN none
         ELSE order[CHOOSE i \in at : \A j \in at : i <= j]]

mutRebalance ==  \* the list is not rebuilt
  /\ \E order \in Seqs!SetToSeqs(nodes) : ring' = Rebuilt(order)
  /\ pending' = FALSE
  /\ disturbed' = FALSE
  /\ UNCHANGED <<hashKey, sortedHashes, nodes, replicationFactor>>

Rebalance ==
  /\ \E order \in Seqs!SetToSeqs(nodes) : ring' = Rebuilt(order)
  /\ sortedHashes' = Sorted(Seqs!FlattenSeq([i \in 1 .. Cardinality(nodes) |->
                                          HashesOf(Seqs!SetToSeq(nodes)[i])]))
  /\ pending' = FALSE
  /\ disturbed' = FALSE
  /\ UNCHANGED <<hashKey, nodes, replicationFactor>>

Next ==
  \/ \E n \in Node : Add(n) \/ Remove(n)
  \/ \E r \in 0 .. MaxFactor : SetFactor(r)
  \/ Rebalance

Spec == Init /\ [][Next]_vars

-----------------------------------------------------------------------------
TypeOK ==
  /\ hashKey \in Hashing
  /\ ring \in [Position -> Node \cup {none}]
  /\ sortedHashes \in Seq(Position)
  /\ nodes \subseteq Node
  /\ replicationFactor \in Factor
  /\ pending \in BOOLEAN
  /\ disturbed \in BOOLEAN

(***************************************************************************)
(* Unless a changed replication factor waits for its Rebalance, the ring   *)
(* sends keys only to nodes that have been added and not removed, and only *)
(* at their own hashes, whatever was added, removed and rebuilt before and *)
(* whichever nodes collide (consistent.go 35-90, 149-192).                 *)
(***************************************************************************)
RingSound ==
  ~ pending =>
    \A p \in Position :
      ring[p] # none => ring[p] \in nodes /\ p \in Range(HashesOf(ring[p]))

(***************************************************************************)
(* Every entry of the ring is in the list that Get searches, so Get never  *)
(* indexes an empty list, however often Remove has mangled it and whatever *)
(* the replication factor was at the time (consistent.go 97-114).          *)
(***************************************************************************)
RingListed ==
  \A p \in Position : ring[p] # none => p \in Range(sortedHashes)

(* The places of p in the list s. *)
Occurs(s, p) == {i \in DOMAIN s : s[i] = p}

(***************************************************************************)
(* Until a Remove has disturbed the list, and again after a Rebalance, it  *)
(* has each hash as often as the nodes have virtual nodes with that hash:  *)
(* it neither keeps what was removed nor grows as nodes come and go        *)
(* (consistent.go 52-62, 82-89, 165-176).                                  *)
(***************************************************************************)
ListExact ==
  ~ disturbed =>
    \A p \in Position :
      Cardinality(Occurs(sortedHashes, p)) =
        Cardinality({v \in nodes \X (0 .. replicationFactor - 1) : hashKey[v] = p})

(***************************************************************************)
(* Unless a changed replication factor waits for its Rebalance, a lookup   *)
(* ends with a node that has been added and not removed, or with none:     *)
(* never with a removed node, however often Remove has mangled the list    *)
(* and wherever that leads the binary search (consistent.go 92-115).       *)
(***************************************************************************)
GetNeverStrays == ~ pending => \A h \in Position : Get(h) \in nodes \cup {none}

(* The first hash clockwise from h that belongs to a node of the ring.     *)
Successor(h) ==
  LET used == UNION {Range(HashesOf(n)) : n \in nodes}
      from == {p \in used : p >= h}
      near == IF from = {} THEN used ELSE from
  IN  CHOOSE p \in near : \A q \in near : p <= q

(***************************************************************************)
(* Until a Remove has disturbed the list, and again after a Rebalance, the *)
(* binary search of Get finds a node that owns the next hash clockwise,    *)
(* wrapping around at the end (consistent.go 92-115).                      *)
(***************************************************************************)
GetIsSuccessor ==
  ~ disturbed =>
    \A h \in Position :
      IF nodes = {} THEN Get(h) = none
      ELSE Get(h) \in nodes /\ Successor(h) \in Range(HashesOf(Get(h)))

(***************************************************************************)
(* While the list is undisturbed and no two nodes collide, the ring is a   *)
(* consistent hash: adding a node moves keys to that node only, removing   *)
(* one moves its keys only, and a rebuilt ring gives every key the owner   *)
(* it had.                                                                 *)
(***************************************************************************)
owner == [h \in Position |-> Get(h)]

Abstract == INSTANCE RingSpec WITH Key <- Position, members <- nodes

NoCollisions == \A m, n \in Node : m # n => ~ Collide(m, n)

ConsistentWhileUndisturbed ==
  [][~ disturbed /\ ~ disturbed' /\ NoCollisions =>
       [Abstract!Next]_<<nodes, owner>>]_vars

(***************************************************************************)
(* Between two changes of the replication factor the ring is what Cluster  *)
(* takes the HashRing of a master for: nodes join and leave, and whatever  *)
(* has become of the list, a lookup answers one of them or none, and the   *)
(* nearest clockwise while no Remove has disturbed the list; so it does    *)
(* after a Rebalance (consistent.go 35-115, 149-176; cmd/master/main.go    *)
(* 685, 775, 1052).                                                        *)
(***************************************************************************)
Away(h, p) == IF p >= h THEN p - h ELSE p - h + MaxHash + 1

away ==
  [h \in Position |-> [n \in Node |->
     LET ways == {Away(h, p) : p \in Range(HashesOf(n))}
     IN  CHOOSE d \in ways : \A e \in ways : d <= e]]

Routed == INSTANCE RouteSpec
            WITH Key <- Position, members <- nodes, distance <- away, route <- owner,
                 whole <- ~ disturbed

RoutesWhileFactorKept ==
  [][~ pending /\ ~ pending' => [Routed!Next]_<<nodes, away, owner, ~ disturbed>>]_vars

(***************************************************************************)
(* What the comment promises without exception: Get "returns the node that *)
(* should handle the given key" (consistent.go 92), which is one of those  *)
(* that have been added and not removed, if there is any.                  *)
(***************************************************************************)
GetFindsNode == nodes # {} => \A h \in Position : Get(h) \in nodes

=============================================================================
