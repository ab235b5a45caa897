----------------------------- MODULE Rebalance -----------------------------
(***************************************************************************)
(* The redistribution of keys between the cache nodes: rebalanceCache of   *)
(* cmd/auxiliary/main.go, which every node that is up runs in a goroutine  *)
(* of its own each time the master triggers a rebalance, while clients go  *)
(* on putting and deleting keys through the master.                        *)
(*                                                                         *)
(* A rebalance works on a copy of the cache.  It posts each key to a node  *)
(* that it picks by the position of a node in the iteration order of a map *)
(* (any node, and not always the same), and at its end removes the keys    *)
(* whose post was confirmed.  A post may fail, be stored without its       *)
(* answer coming back in time, or be stored after the sender gave it up.   *)
(*                                                                         *)
(* The ring of the master and the nodes' addresses do not change here, and *)
(* the caches are large enough not to evict: what is lost or misplaced is  *)
(* so because of the redistribution alone.                                 *)
(***************************************************************************)
EXTENDS Naturals, FiniteSets

CONSTANTS
  Node,    \* the cache nodes
  Key,     \* the keys
  Value,   \* the values clients put
  Absent,  \* what a cache holds for a key that it does not have
  MaxRuns, \* bound: rebalances of one node that may overlap
  MaxLate  \* bound: posts that were given up and may still be stored

ASSUME RebalanceAssumption ==
  /\ Absent \notin Value
  /\ MaxRuns \in Nat
  /\ MaxLate \in Nat

Mover == Node \X (1 .. MaxRuns)  \* goroutines; m[1] is the node it runs on
Contents == [Key -> Value \cup {Absent}]

VARIABLES
  owner,    \* the node that the master's ring gives each key to; constant
  store,    \* Cache of every node
  run,      \* the state of every rebalance
  late,     \* posts that were given up and may still be stored
  wanted,   \* history: what the clients' latest request made of each key
  overlap   \* history: rebalances of different nodes have overlapped

vars == <<owner, store, run, late, wanted, overlap>>

Nothing == [k \in Key |-> Absent]
Held(data) == {k \in Key : data[k] # Absent}

Run(at, data, nodes, todo, key, target, moved) ==
  [at |-> at, cacheData |-> data, nodeMap |-> nodes, todo |-> todo,
   key |-> key, target |-> target, keysToRemove |-> moved]

NoRun == Run("idle", Nothing, {}, {}, Absent, Absent, {})

Becomes(m, r) == run' = [run EXCEPT ![m] = r]
Busy == {m \in Mover : run[m].at # "idle"}

-----------------------------------------------------------------------------
Init ==
  /\ owner \in [Key -> Node]
  /\ store = [n \in Node |-> Nothing]
  /\ run = [m \in Mover |-> NoRun]
  /\ late = {}
  /\ wanted = Nothing
  /\ overlap = FALSE

(* A client's PUT or DELETE, which the master forwards to the key's owner. *)
ClientWrites(k, v) ==
  /\ store' = [store EXCEPT ![owner[k]][k] = v]
  /\ wanted' = [wanted EXCEPT ![k] = v]
  /\ UNCHANGED <<owner, run, late, overlap>>

handleData(k, v) == ClientWrites(k, v)

handleDelete(k) == store[owner[k]][k] # Absent /\ ClientWrites(k, Absent)

(* handleRebalance starts the goroutine, which asks the master for the     *)
(* nodes that are up: any of them, at that moment.  With none it returns,  *)
(* as it does with an empty cache.                                         *)
StartRebalance(m) ==
  /\ run[m] = NoRun
  /\ Becomes(m, Run("listing", Nothing, {}, {}, Absent, Absent, {}))
  /\ overlap' = (overlap \/ \E other \in Busy : other[1] # m[1])
  /\ UNCHANGED <<owner, store, late, wanted>>

ListFails(m) ==
  /\ run[m].at = "listing"
  /\ Becomes(m, NoRun)
  /\ UNCHANGED <<owner, store, late, wanted, overlap>>

TakeSnapshot(m) ==
  /\ run[m].at = "listing"
  /\ LET data == store[m[1]]
     IN  IF Held(data) = {} THEN Becomes(m, NoRun)
         ELSE \E up \in SUBSET Node :
                Becomes(m, Run("posting", data, up, Held(data), Absent, Absent, {}))
  /\ UNCHANGED <<owner, store, late, wanted, overlap>>

(* One round of the loop over the copy: the picked node is m's own, or there *)
(* is none.                                                                  *)
Round(m, at, todo, k, n) ==
  Becomes(m, Run(at, run[m].cacheData, run[m].nodeMap, todo, k, n, run[m].keysToRemove))

KeyStays(m) ==
  /\ run[m].at = "posting"
  /\ run[m].nodeMap = {} \/ m[1] \in run[m].nodeMap
  /\ \E k \in run[m].todo : Round(m, "posting", run[m].todo \ {k}, Absent, Absent)
  /\ UNCHANGED <<owner, store, late, wanted, overlap>>

mutPostKey(m) ==  \* the target may be the node itself
  /\ run[m].at = "posting"
  /\ \E k \in run[m].todo, n \in run[m].nodeMap :
       Round(m, "sent", run[m].todo \ {k}, k, n)
  /\ UNCHANGED <<owner, store, late, wanted, overlap>>

PostKey(m) ==
  /\ run[m].at = "posting"
  /\ \E k \in run[m].todo, n \in run[m].nodeMap \ {m[1]} :
       Round(m, "sent", run[m].todo \ {k}, k, n)
  /\ UNCHANGED <<owner, store, late, wanted, overlap>>

(* The target's handleData. *)
PostStored(m) ==
  LET r == run[m]
  IN  /\ r.at = "sent"
      /\ store' = [store EXCEPT ![r.target][r.key] = r.cacheData[r.key]]
      /\ Round(m, "stored", r.todo, r.key, r.target)
      /\ UNCHANGED <<owner, late, wanted, overlap>>

BackToLoop(m, moved) ==
  Becomes(m, Run("posting", run[m].cacheData, run[m].nodeMap, run[m].todo,
                 Absent, Absent, moved))

PostConfirmed(m) ==
  /\ run[m].at = "stored"
  /\ BackToLoop(m, run[m].keysToRemove \cup {run[m].key})
  /\ UNCHANGED <<owner, store, late, wanted, overlap>>

(* errorCount++; continue: no connection, or no answer for 5 seconds *)
mutPostFails(m) ==  \* an error does not keep the key
  /\ run[m].at \in {"sent", "stored"}
  /\ BackToLoop(m, run[m].keysToRemove \cup {run[m].key})
  /\ UNCHANGED <<owner, store, late, wanted, overlap>>

mutPostAgain(m) ==  \* a key is tried until it is moved
  /\ run[m].at \in {"sent", "stored"}
  /\ Round(m, "posting", run[m].todo \cup {run[m].key}, Absent, Absent)
  /\ UNCHANGED <<owner, store, late, wanted, overlap>>

PostFails(m) ==
  /\ run[m].at \in {"sent", "stored"}
  /\ BackToLoop(m, run[m].keysToRemove)
  /\ UNCHANGED <<owner, store, late, wanted, overlap>>

PostGivenUp(m) ==
  LET r == run[m]
  IN  /\ r.at = "sent"
      /\ Cardinality(late) < MaxLate
      /\ late' = late \cup {[to |-> r.target, key |-> r.key, value |-> r.cacheData[r.key]]}
      /\ BackToLoop(m, r.keysToRemove)
      /\ UNCHANGED <<owner, store, wanted, overlap>>

LateStored ==
  \E p \in late :
    /\ late' = late \ {p}
    /\ store' = [store EXCEPT ![p.to][p.key] = p.value]
    /\ UNCHANGED <<owner, run, wanted, overlap>>

(* The loop is over; one Remove per key that was moved. *)
RemoveMoved(m) ==
  /\ run[m].at = "posting" /\ run[m].todo = {}
  /\ \E k \in run[m].keysToRemove :
       /\ store' = [store EXCEPT ![m[1]][k] = Absent]
       /\ BackToLoop(m, run[m].keysToRemove \ {k})
  /\ UNCHANGED <<owner, late, wanted, overlap>>

EndRebalance(m) ==
  /\ run[m].at = "posting" /\ run[m].todo = {} /\ run[m].keysToRemove = {}
  /\ Becomes(m, NoRun)
  /\ UNCHANGED <<owner, store, late, wanted, overlap>>

Rebalances(m) ==
  \/ ListFails(m) \/ TakeSnapshot(m) \/ KeyStays(m) \/ PostKey(m)
  \/ PostStored(m) \/ PostConfirmed(m) \/ PostFails(m) \/ PostGivenUp(m)
  \/ RemoveMoved(m) \/ EndRebalance(m)

Next ==
  \/ \E k \in Key : handleDelete(k) \/ \E v \in Value : handleData(k, v)
  \/ \E m \in Mover : StartRebalance(m) \/ Rebalances(m)
  \/ LateStored

Spec == Init /\ [][Next]_vars

(* The goroutines of a rebalance are scheduled, and its requests end with  *)
(* their timeouts.                                                         *)
FairSpec == Spec /\ \A m \in Mover : WF_vars(Rebalances(m))

-----------------------------------------------------------------------------
Runs == [at : {"idle", "listing", "posting", "sent", "stored"}, cacheData : Contents,
         nodeMap : SUBSET Node, todo : SUBSET Key, key : Key \cup {Absent},
         target : Node \cup {Absent}, keysToRemove : SUBSET Key]

RunOK(m, r) ==
  /\ r.at = "idle" => r = NoRun
  /\ r.at \in {"sent", "stored"} => r.key \in Held(r.cacheData) /\ r.target \in Node \ {m[1]}
  /\ r.todo \cup r.keysToRemove \subseteq Held(r.cacheData)

TypeOK ==
  /\ owner \in [Key -> Node]
  /\ store \in [Node -> Contents]
  /\ run \in [Mover -> Runs]
  /\ \A m \in Mover : RunOK(m, run[m])
  /\ late \subseteq [to : Node, key : Key, value : Value]
  /\ wanted \in Contents
  /\ overlap \in BOOLEAN

Somewhere(k) == \E n \in Node : store[n][k] # Absent

(***************************************************************************)
(* As long as no two nodes rebalance at the same time, no key is lost: one *)
(* that a client has put and not deleted is in some cache, whatever posts  *)
(* fail, are confirmed too late or stored too late, and whatever clients   *)
(* and other rebalances of the same node do meanwhile (main.go 887-1021).  *)
(***************************************************************************)
KeysSurviveAlone ==
  ~ overlap => \A k \in Key : wanted[k] # Absent => Somewhere(k)

(* Every rebalance ends, however much is put and moved while it runs       *)
(* (main.go 965-1015).                                                     *)
RebalanceEnds == \A m \in Mover : run[m].at # "idle" ~> run[m].at = "idle"

(***************************************************************************)
(* What the comment promises: the keys that a rebalance removes "were      *)
(* moved to other nodes" (main.go 1012).  They are not lost.               *)
(***************************************************************************)
KeysSurvive == \A k \in Key : wanted[k] # Absent => Somewhere(k)

=============================================================================
