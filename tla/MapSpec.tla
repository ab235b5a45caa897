------------------------------ MODULE MapSpec ------------------------------
(***************************************************************************)
(* What the handlers, backups and rebalances of a cache node rely on when  *)
(* they use its cache, which does not say in what order entries leave: a   *)
(* partial map that changes only as its callers ask, except that a Put of  *)
(* a new key into a full map may cost one entry, its own included.  A Get  *)
(* may take its time and changes nothing.                                  *)
(***************************************************************************)
EXTENDS Naturals, FiniteSets

CONSTANTS
  Key,       \* the keys
  Value,     \* the values
  Absent,    \* the value of a key that is not in the map; not in Value
  Capacity,  \* how many entries there are before a Put costs one
  Thread     \* the callers

VARIABLES
  store,   \* store[k]: the value of k, or Absent
  reading  \* the callers whose Get has begun and not ended

mapVars == <<store, reading>>

Present == {k \in Key : store[k] # Absent}

Init ==
  /\ store = [k \in Key |-> Absent]
  /\ reading = {}

GetBegins(t) ==
  /\ t \notin reading
  /\ reading' = reading \cup {t}
  /\ UNCHANGED store

GetEnds(t) ==
  /\ t \in reading
  /\ reading' = reading \ {t}
  /\ UNCHANGED store

Put(k, v) == store' = [store EXCEPT ![k] = v]

PutInFull(k, v, e) ==
  /\ k \notin Present
  /\ Cardinality(Present) >= Capacity
  /\ store' = [store EXCEPT ![k] = v, ![e] = Absent]

Remove(k) == store' = [store EXCEPT ![k] = Absent]

Clear == store' = [k \in Key |-> Absent]

Changes ==
  /\ \/ \E k \in Key, v \in Value : Put(k, v) \/ \E e \in Key : PutInFull(k, v, e)
     \/ \E k \in Key : Remove(k)
     \/ Clear
  /\ UNCHANGED reading

Next == Changes \/ \E t \in Thread : GetBegins(t) \/ GetEnds(t)

Spec == Init /\ [][Next]_mapVars

=============================================================================
