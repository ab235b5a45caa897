------------------------------ MODULE LRUCache ------------------------------
(***************************************************************************)
(* The LRU cache of internal/cache/lru.go: a map from keys to the nodes of *)
(* a doubly linked list whose head is the most and whose tail is the least *)
(* recently used entry, guarded by one RWMutex.                            *)
(*                                                                         *)
(* Every critical section of the mutex is one action.  Put, Remove and     *)
(* Clear hold the write lock throughout.  Get does not: it looks the node  *)
(* up under the read lock, releases it, and takes the write lock to move   *)
(* the node to the front.  It is two actions, and in between other threads *)
(* may remove the node, and even give its key a new one.                   *)
(*                                                                         *)
(* Nodes are numbered in the order Put allocates them; 0 is the nil        *)
(* pointer.  A node keeps its fields after it leaves the list, as a Go     *)
(* object does while a goroutine still refers to it.                       *)
(***************************************************************************)
EXTENDS Naturals, FiniteSets

CONSTANTS
  Key,       \* the keys
  Value,     \* the values
  Absent,    \* "no value", "no key": what a thread or a map slot without one holds
  Capacity,  \* the configured number of entries
  Thread,    \* the goroutines that use the cache
  MaxNodes   \* bound: how many nodes Put may allocate

ASSUME LRUAssumption ==
  /\ Absent \notin Value
  /\ Absent \notin Key
  /\ Capacity \in Nat \ {0}
  /\ MaxNodes \in Nat

VARIABLES
  cacheMap,   \* LRUCache.Cache: the node of each cached key, nil for the others
  list,       \* LRUCache.Head and Tail, and the Prev and Next of every node
  nodeKey,    \* Node.Key
  nodeValue,  \* Node.Value
  allocated,  \* how many nodes exist
  getKey,     \* the key of a thread between the two halves of Get
  getNode,    \* the node it found under the read lock
  older,      \* history: the cached keys last used before each key
  seen,       \* history: the values a pending Get's key has had during the call
  staleMove   \* history: some Get has moved a node the map no longer holds

vars == <<cacheMap, list, nodeKey, nodeValue, allocated, getKey, getNode,
          older, seen, staleMove>>

nil == 0
Node == 1 .. MaxNodes
Pointer == Node \cup {nil}

Cached == {k \in Key : cacheMap[k] # nil}

(* The value the map gives to each key: what GetAll returns. *)
contents ==
  [k \in Key |-> IF cacheMap[k] = nil THEN Absent ELSE nodeValue[cacheMap[k]]]

(***************************************************************************)
(* What the list promises, and the refinement mapping: the specification   *)
(* sees the value of each key and the recency history.                     *)
(***************************************************************************)
Abstract == INSTANCE LRUSpec WITH store <- contents

-----------------------------------------------------------------------------
(***************************************************************************)
(* The list operations, as functions from a list to a list.                *)
(***************************************************************************)

(* field f of the object behind p set to q, guarded by "if p != nil" *)
Link(f, p, q) == IF p = nil THEN f ELSE [f EXCEPT ![p] = q]

mutRemoveNode(L, n) ==  \* the tail is not updated
  LET p == L.prev[n]
      q == L.next[n]
  IN  [head |-> IF n = L.head THEN q ELSE L.head,
       tail |-> L.tail,
       prev |-> Link(L.prev, q, p),
       next |-> Link(L.next, p, q)]

removeNode(L, n) ==
  LET p == L.prev[n]
      q == L.next[n]
  IN  [head |-> IF n = L.head THEN q ELSE L.head,
       tail |-> IF n = L.tail THEN p ELSE L.tail,
       prev |-> Link(L.prev, q, p),
       next |-> Link(L.next, p, q)]

pushFront(L, n) ==
  [head |-> n,
   tail |-> IF L.tail = nil THEN n ELSE L.tail,
   prev |-> Link([L.prev EXCEPT ![n] = nil], L.head, n),
   next |-> [L.next EXCEPT ![n] = L.head]]

mutMoveToFront(L, n) == L  \* first in, first out

moveToFront(L, n) ==
  IF n = L.head THEN L ELSE pushFront(removeNode(L, n), n)

(* Put's own insertion of a new node tests Head where moveToFront tests Tail *)
insertNew(L, n) ==
  IF L.head = nil
  THEN [head |-> n, tail |-> n, prev |-> L.prev, next |-> L.next]
  ELSE [head |-> n,
        tail |-> L.tail,
        prev |-> [L.prev EXCEPT ![L.head] = n],
        next |-> [L.next EXCEPT ![n] = L.head]]

dropTail(L) ==
  LET p == L.prev[L.tail]
  IN  [head |-> IF p = nil THEN nil ELSE L.head,
       tail |-> p,
       prev |-> L.prev,
       next |-> Link(L.next, p, nil)]

-----------------------------------------------------------------------------
(* NewLRUCache *)
Init ==
  /\ cacheMap = [k \in Key |-> nil]
  /\ list = [head |-> nil, tail |-> nil,
             prev |-> [n \in Node |-> nil], next |-> [n \in Node |-> nil]]
  /\ nodeKey = [n \in Node |-> Absent]
  /\ nodeValue = [n \in Node |-> Absent]
  /\ allocated = 0
  /\ getKey = [t \in Thread |-> Absent]
  /\ getNode = [t \in Thread |-> nil]
  /\ older = [k \in Key |-> {}]
  /\ seen = [t \in Thread |-> {}]
  /\ staleMove = FALSE

Idle(t) == getNode[t] = nil

(* Get up to RUnlock, on a hit.  A miss returns at once and changes nothing. *)
mutGetLookup(t, k) ==  \* a miss is not returned at once
  /\ Idle(t)
  /\ getKey' = [getKey EXCEPT ![t] = k]
  /\ getNode' = [getNode EXCEPT ![t] = cacheMap[k]]
  /\ UNCHANGED <<cacheMap, list, nodeKey, nodeValue, allocated, older, staleMove>>

GetLookup(t, k) ==
  /\ Idle(t)
  /\ cacheMap[k] # nil
  /\ getKey' = [getKey EXCEPT ![t] = k]
  /\ getNode' = [getNode EXCEPT ![t] = cacheMap[k]]
  /\ UNCHANGED <<cacheMap, list, nodeKey, nodeValue, allocated, older, staleMove>>

GetReturns(t) ==
  /\ getKey' = [getKey EXCEPT ![t] = Absent]
  /\ getNode' = [getNode EXCEPT ![t] = nil]

mutGetMove(t) ==  \* the node that was found goes back into the map
  /\ ~ Idle(t)
  /\ cacheMap[getKey[t]] # nil
  /\ cacheMap' = [cacheMap EXCEPT ![getKey[t]] = getNode[t]]
  /\ list' = moveToFront(list, getNode[t])
  /\ older' = Abstract!Used(older, getKey[t], Cached)
  /\ staleMove' = (staleMove \/ getNode[t] # cacheMap[getKey[t]])
  /\ GetReturns(t)
  /\ UNCHANGED <<nodeKey, nodeValue, allocated>>

(* Get under the write lock: the key must still be there, whatever its node *)
GetMove(t) ==
  /\ ~ Idle(t)
  /\ cacheMap[getKey[t]] # nil
  /\ list' = moveToFront(list, getNode[t])
  /\ older' = Abstract!Used(older, getKey[t], Cached)
  /\ staleMove' = (staleMove \/ getNode[t] # cacheMap[getKey[t]])
  /\ GetReturns(t)
  /\ UNCHANGED <<cacheMap, nodeKey, nodeValue, allocated>>

GetGone(t) ==
  /\ ~ Idle(t)
  /\ cacheMap[getKey[t]] = nil
  /\ GetReturns(t)
  /\ UNCHANGED <<cacheMap, list, nodeKey, nodeValue, allocated, older, staleMove>>

PutExisting(t, k, v) ==
  /\ Idle(t)
  /\ cacheMap[k] # nil
  /\ nodeValue' = [nodeValue EXCEPT ![cacheMap[k]] = v]
  /\ list' = moveToFront(list, cacheMap[k])
  /\ older' = Abstract!Used(older, k, Cached)
  /\ UNCHANGED <<cacheMap, nodeKey, allocated, getKey, getNode, staleMove>>

(* The object that &Node{} gives Put. *)
mutNewNode ==  \* a pool hands out nodes that have left the map
  LET free == {n \in 1 .. allocated : \A k \in Key : cacheMap[k] # n}
  IN  IF free = {} THEN allocated + 1 ELSE CHOOSE n \in free : TRUE

newNode == allocated + 1

(* len(c.Cache) > c.Capacity *)
mutExceeds(C) == Cardinality(C) > Capacity + 1  \* off by one

exceeds(C) == Cardinality(C) > Capacity

(* A new node is linked in first; only then is an excess entry removed. *)
PutNew(t, k, v) ==
  LET n     == newNode
      grown == [cacheMap EXCEPT ![k] = n]
      L     == insertNew(list, n)
      keys  == [nodeKey EXCEPT ![n] = k]
      order == Abstract!Used(older, k, Cached)
  IN  /\ Idle(t)
      /\ cacheMap[k] = nil
      /\ allocated < MaxNodes
      /\ allocated' = n
      /\ nodeKey' = keys
      /\ nodeValue' = [nodeValue EXCEPT ![n] = v]
      /\ IF exceeds(Cached \cup {k}) /\ L.tail # nil
         THEN /\ cacheMap' = [grown EXCEPT ![keys[L.tail]] = nil]
              /\ list' = dropTail(L)
              /\ older' = Abstract!Dropped(order, keys[L.tail])
         ELSE /\ cacheMap' = grown
              /\ list' = L
              /\ older' = order
      /\ UNCHANGED <<getKey, getNode, staleMove>>

mutRemove(t, k) ==  \* the removed node is wiped
  /\ Idle(t)
  /\ cacheMap[k] # nil
  /\ list' = removeNode(list, cacheMap[k])
  /\ cacheMap' = [cacheMap EXCEPT ![k] = nil]
  /\ nodeKey' = [nodeKey EXCEPT ![cacheMap[k]] = Absent]
  /\ older' = Abstract!Dropped(older, k)
  /\ UNCHANGED <<nodeValue, allocated, getKey, getNode, staleMove>>

(* Remove of a cached key.  The removed node keeps its own Prev and Next. *)
Remove(t, k) ==
  /\ Idle(t)
  /\ cacheMap[k] # nil
  /\ list' = removeNode(list, cacheMap[k])
  /\ cacheMap' = [cacheMap EXCEPT ![k] = nil]
  /\ older' = Abstract!Dropped(older, k)
  /\ UNCHANGED <<nodeKey, nodeValue, allocated, getKey, getNode, staleMove>>

Clear(t) ==
  /\ Idle(t)
  /\ cacheMap' = [k \in Key |-> nil]
  /\ list' = [head |-> nil, tail |-> nil, prev |-> list.prev, next |-> list.next]
  /\ older' = Abstract!NoOrder
  /\ UNCHANGED <<nodeKey, nodeValue, allocated, getKey, getNode, staleMove>>

(* The values the key of a pending Get has had since its lookup. *)
RecordSeen ==
  seen' = [t \in Thread |->
             IF getNode'[t] = nil THEN {} ELSE seen[t] \cup {contents'[getKey'[t]]}]

Step(t) ==
  \/ \E k \in Key : GetLookup(t, k) \/ Remove(t, k)
  \/ \E k \in Key, v \in Value : PutExisting(t, k, v) \/ PutNew(t, k, v)
  \/ GetMove(t) \/ GetGone(t) \/ Clear(t)

Next == \E t \in Thread : Step(t) /\ RecordSeen

Spec == Init /\ [][Next]_vars

-----------------------------------------------------------------------------
(***************************************************************************)
(* Types.  A pointer never refers to a node that Put has not allocated,    *)
(* and such a node is as blank as the object Put is going to make of it.   *)
(***************************************************************************)
Linked(a, L) ==
  /\ L \in [head : 0 .. a, tail : 0 .. a,
            prev : [Node -> 0 .. a], next : [Node -> 0 .. a]]
  /\ \A n \in Node : n > a => L.prev[n] = nil /\ L.next[n] = nil

TypeOK ==
  /\ allocated \in 0 .. MaxNodes
  /\ cacheMap \in [Key -> 0 .. allocated]
  /\ Linked(allocated, list)
  /\ nodeKey \in [Node -> Key \cup {Absent}]
  /\ nodeValue \in [Node -> Value \cup {Absent}]
  /\ \A n \in 1 .. allocated : nodeKey[n] \in Key /\ nodeValue[n] \in Value
  /\ getKey \in [Thread -> Key \cup {Absent}]
  /\ getNode \in [Thread -> 0 .. allocated]
  /\ \A t \in Thread : (getKey[t] = Absent) <=> (getNode[t] = nil)
  /\ older \in [Key -> SUBSET Key]
  /\ seen \in [Thread -> SUBSET (Value \cup {Absent})]
  /\ staleMove \in BOOLEAN

(* A cached key's node carries that key, and so does the node that a       *)
(* pending Get holds, in the map or not.                                   *)
NodesOwned ==
  /\ \A k \in Cached : nodeKey[cacheMap[k]] = k
  /\ \A t \in Thread : getNode[t] # nil => nodeKey[getNode[t]] = getKey[t]

(***************************************************************************)
(* A pending Get returns node.Value of the node it found under the read    *)
(* lock.  Whatever other goroutines have done to the key since, that value *)
(* is one the key has had during the call (lru.go 38-58).                  *)
(***************************************************************************)
GetRegular ==
  \A t \in Thread : getNode[t] # nil => nodeValue[getNode[t]] \in seen[t]

(***************************************************************************)
(* The list and the map agree, stated locally: recency is a strict total   *)
(* order of the cached keys, the tail is the key with nothing older, the   *)
(* head the key with nothing younger, and every Next leads to the key that *)
(* was used just before and is undone by that key's Prev.                  *)
(***************************************************************************)
TotalOrder(C, ord) ==
  /\ \A k \in Key \ C : ord[k] = {}
  /\ \A k \in C : ord[k] \subseteq C \ {k}
  /\ \A j, k \in C : j # k => (j \in ord[k] \/ k \in ord[j])
  /\ \A j, k \in C : j \in ord[k] => ord[j] \subseteq ord[k] /\ k \notin ord[j]

NextToOlder(C, N, L, ord) ==
  \A k \in C :
    IF ord[k] = {}
    THEN L.tail = N[k] /\ L.next[N[k]] = nil
    ELSE \E j \in C : /\ L.next[N[k]] = N[j]
                      /\ L.prev[N[j]] = N[k]
                      /\ ord[k] = ord[j] \cup {j}

PrevToYounger(C, N, L, ord) ==
  \A k \in C :
    IF ord[k] = C \ {k}
    THEN L.head = N[k] /\ L.prev[N[k]] = nil
    ELSE \E j \in C : /\ L.prev[N[k]] = N[j]
                      /\ L.next[N[j]] = N[k]
                      /\ ord[j] = ord[k] \cup {k}

EndsCached(C, N, L, ord) ==
  IF C = {} THEN L.head = nil /\ L.tail = nil
  ELSE /\ \E k \in C : L.tail = N[k] /\ ord[k] = {}
       /\ \E k \in C : L.head = N[k] /\ ord[k] = C \ {k}

ListOf(C, N, L, ord) ==
  /\ TotalOrder(C, ord)
  /\ NextToOlder(C, N, L, ord)
  /\ PrevToYounger(C, N, L, ord)
  /\ EndsCached(C, N, L, ord)

(***************************************************************************)
(* As long as no Get has moved a node that had left the map, the linked    *)
(* list holds exactly the cached keys, from the most to the least recently *)
(* used one, whatever the goroutines interleave (lru.go 154-217).          *)
(***************************************************************************)
ListIntact == ~ staleMove => ListOf(Cached, cacheMap, list, older)

(* As long as no Get has moved a stale node, Put keeps the cache within    *)
(* its capacity (lru.go 96-99).                                            *)
SizeBounded == ~ staleMove => Cardinality(Cached) <= Capacity

(***************************************************************************)
(* The cache starts like the atomic one and, as long as no Get has moved a *)
(* stale node, every step is one of that or changes nothing it shows: Put  *)
(* evicts the least recently used key and no other, Remove removes its key *)
(* only, a Get is one use.  A single goroutine never moves a stale node.   *)
(***************************************************************************)
ImplementsWhileFresh ==
  /\ Abstract!Init
  /\ [][~ staleMove' => [Abstract!Next]_<<contents, older>>]_vars

(***************************************************************************)
(* Whatever stale Gets have made of the list, the cache remains a map that *)
(* changes only as its callers ask: no Get brings an entry back, removes   *)
(* or alters one, and a Put costs at most one entry, and none unless the   *)
(* key is new and the cache full (lru.go 38-100, 207-216).                 *)
(***************************************************************************)
pendingGets == {t \in Thread : ~ Idle(t)}

Map == INSTANCE MapSpec WITH store <- contents, reading <- pendingGets

ImplementsMap == Map!Spec

(***************************************************************************)
(* What the comments promise of any number of goroutines: "a thread-safe   *)
(* LRU cache with configurable capacity" (lru.go 15), in which Put removes *)
(* the least recently used item at capacity (lru.go 62).                   *)
(***************************************************************************)
CapacityHeld == Cardinality(Cached) <= Capacity

=============================================================================
