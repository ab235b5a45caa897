------------------------------ MODULE LRUSpec ------------------------------
(***************************************************************************)
(* What an LRU cache promises, with every operation atomic: a partial map  *)
(* from keys to values that never holds more than Capacity keys, and that  *)
(* makes room for a new key by dropping the least recently used one.       *)
(*                                                                         *)
(* The recency order is kept as older: older[k] is the set of the cached   *)
(* keys that were last used before k was.  The least recently used key is  *)
(* the cached key with older[k] = {}.                                      *)
(***************************************************************************)
EXTENDS Naturals, FiniteSets

CONSTANTS
  Key,      \* the keys
  Value,    \* the values
  Absent,   \* the value of a key that is not cached; not in Value
  Capacity  \* the configured number of entries, at least 1

VARIABLES
  store,  \* store[k]: the cached value of k, or Absent
  older   \* older[k]: the cached keys used less recently than k

specVars == <<store, older>>

Stored == {k \in Key : store[k] # Absent}

(***************************************************************************)
(* The recency order after k becomes the most recent of the keys in C, and *)
(* after k leaves the cache.                                               *)
(***************************************************************************)
Used(ord, k, C) ==
  [j \in Key |-> IF j = k THEN C \ {k} ELSE ord[j] \ {k}]

Dropped(ord, k) ==
  [j \in Key |-> IF j = k THEN {} ELSE ord[j] \ {k}]

NoOrder == [k \in Key |-> {}]

Init ==
  /\ store = [k \in Key |-> Absent]
  /\ older = NoOrder

(* A hit makes k the most recent key; a miss changes nothing. *)
Get(k) ==
  /\ k \in Stored
  /\ older' = Used(older, k, Stored)
  /\ UNCHANGED store

Update(k, v) ==
  /\ k \in Stored
  /\ store' = [store EXCEPT ![k] = v]
  /\ older' = Used(older, k, Stored)

Insert(k, v) ==
  /\ k \notin Stored
  /\ Cardinality(Stored) < Capacity
  /\ store' = [store EXCEPT ![k] = v]
  /\ older' = Used(older, k, Stored)

(* A full cache drops a key than which no cached key is older. *)
InsertEvict(k, v) ==
  /\ k \notin Stored
  /\ Cardinality(Stored) = Capacity
  /\ \E e \in Stored :
       /\ older[e] = {}
       /\ store' = [store EXCEPT ![k] = v, ![e] = Absent]
       /\ older' = Dropped(Used(older, k, Stored), e)

Remove(k) ==
  /\ k \in Stored
  /\ store' = [store EXCEPT ![k] = Absent]
  /\ older' = Dropped(older, k)

Clear ==
  /\ store' = [k \in Key |-> Absent]
  /\ older' = NoOrder

Next ==
  \/ \E k \in Key : Get(k) \/ Remove(k)
  \/ \E k \in Key, v \in Value : Update(k, v) \/ Insert(k, v) \/ InsertEvict(k, v)
  \/ Clear

Spec == Init /\ [][Next]_specVars

=============================================================================
