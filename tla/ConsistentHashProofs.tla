------------------------ MODULE ConsistentHashProofs ------------------------
(***************************************************************************)
(* Proofs about ConsistentHash, for any set of nodes, any hash function,   *)
(* any ring size and any replication factors: its types, what Get answers  *)
(* whatever has become of the list, and that it is a consistent hash while *)
(* the list is undisturbed.                                                *)
(***************************************************************************)
EXTENDS RingListProofs

-----------------------------------------------------------------------------
(* The hashes of a node *)

(* The types of the variables but the list, without the set Hashing. *)
RingTyped ==
  /\ hashKey \in [VirtualNode -> Position]
  /\ ring \in [Position -> Node \cup {none}]
  /\ nodes \in SUBSET Node
  /\ replicationFactor \in Factor
  /\ pending \in BOOLEAN

LEMMA HashesOK ==
  ASSUME RingTyped, NEW n \in Node
  PROVE  /\ HashesOf(n) \in [1 .. replicationFactor -> Position]
         /\ HashesOf(n) \in Seq(Position)
         /\ Range(HashesOf(n)) \subseteq Position
         /\ HashesOf(n)[1] \in Range(HashesOf(n))
         /\ replicationFactor = 1 => Range(HashesOf(n)) = {HashesOf(n)[1]}
<1>1. replicationFactor \in Nat /\ replicationFactor >= 1 /\ replicationFactor <= MaxFactor
  BY RingAssumption DEF RingTyped, Factor
<1>2. \A i \in 1 .. replicationFactor : <<n, i - 1>> \in VirtualNode
  BY <1>1, RingAssumption DEF VirtualNode
<1>3. HashesOf(n) \in [1 .. replicationFactor -> Position]
  BY <1>2 DEF HashesOf, RingTyped
<1>4. HashesOf(n) \in Seq(Position)
  BY <1>1, <1>3
<1>5. DOMAIN HashesOf(n) = 1 .. replicationFactor /\ 1 \in 1 .. replicationFactor
  BY <1>1, <1>3
<1>6. replicationFactor = 1 => \A i \in 1 .. replicationFactor : i = 1
  OBVIOUS
<1> QED
  BY <1>3, <1>4, <1>5, <1>6 DEF Range

-----------------------------------------------------------------------------
(* Orders *)

LEMMA SameCardinality == \A S : Seqs!Cardinality(S) = Cardinality(S)
BY DEF Seqs!Cardinality, Cardinality

(* Every element of a finite set is in each list of the set. *)
LEMMA OrderOnto ==
  ASSUME NEW S, IsFiniteSet(S), NEW f \in [1 .. Cardinality(S) -> S],
         \A i, j \in 1 .. Cardinality(S) : i # j => f[i] # f[j]
  PROVE  \A x \in S : \E i \in 1 .. Cardinality(S) : f[i] = x
<1> DEFINE D == 1 .. Cardinality(S)
<1>1. Cardinality(S) \in Nat
  BY FS_CardinalityType
<1>2. Cardinality(D) = Cardinality(S)
  BY <1>1, CardinalityUpTo
<1>3. f \in Injection(D, S)
  BY DEF Injection, IsInjective
<1> HIDE DEF D
<1>4. f \in Surjection(D, S)
  BY <1>2, <1>3, FS_Injection
<1> QED
  BY <1>4 DEF Surjection, D

LEMMA FiniteNodes == ASSUME RingTyped PROVE IsFiniteSet(nodes) /\ Cardinality(nodes) \in Nat
<1>1. nodes \in SUBSET Node
  BY DEF RingTyped
<1> QED
  BY <1>1, FS_Subset, FS_CardinalityType, RingAssumption

LEMMA ListOK ==
  ASSUME RingTyped
  PROVE  LET order == Seqs!SetToSeq(nodes)
         IN  /\ order \in [1 .. Cardinality(nodes) -> nodes]
             /\ \A n \in nodes : \E i \in 1 .. Cardinality(nodes) : order[i] = n
             /\ \A i, j \in 1 .. Cardinality(nodes) : i # j => order[i] # order[j]
<1> DEFINE D == 1 .. Cardinality(nodes)
           order == Seqs!SetToSeq(nodes)
<1>1. IsFiniteSet(nodes)
  BY FiniteNodes
<1>2. PICK f : f \in [D -> nodes] /\ IsInjective(f)
  <2>1. ExistsBijection(D, nodes)
    BY <1>1, FS_CardinalityType
  <2> QED
    BY <2>1 DEF ExistsBijection, Bijection, Injection
<1>3. Seqs!IsInjective(f)
  BY <1>2 DEF Seqs!IsInjective, IsInjective
<1>4. order \in [D -> nodes] /\ Seqs!IsInjective(order)
  <2> HIDE DEF order, D
  <2>1. order = CHOOSE g \in [D -> nodes] : Seqs!IsInjective(g)
    BY SameCardinality DEF Seqs!SetToSeq, order, D
  <2> QED
    BY <1>2, <1>3, <2>1
<1> HIDE DEF order
<1>5. \A i, j \in D : i # j => order[i] # order[j]
  BY <1>4 DEF Seqs!IsInjective
<1>6. \A x \in nodes : \E i \in D : order[i] = x
  BY <1>1, <1>4, <1>5, OrderOnto
<1> QED
  BY <1>4, <1>5, <1>6 DEF order

(* Every hash of a node has an entry in a rebuilt ring, and a node that has *)
(* the hash gets it, whatever the order. *)
LEMMA RebuiltOK ==
  ASSUME NEW order \in Seqs!SetToSeqs(nodes), RingTyped
  PROVE  /\ Rebuilt(order) \in [Position -> nodes \cup {none}]
         /\ \A p \in Position : Rebuilt(order)[p] # none =>
              p \in Range(HashesOf(Rebuilt(order)[p]))
         /\ \A n \in nodes : \A p \in Range(HashesOf(n)) : Rebuilt(order)[p] # none
<1>1. /\ DOMAIN order = 1 .. Cardinality(nodes)
      /\ \A i \in DOMAIN order : order[i] \in nodes
      /\ \A n \in nodes : \E i \in DOMAIN order : order[i] = n
  <2>1. /\ order \in [1 .. Cardinality(nodes) -> nodes]
        /\ \A i, j \in 1 .. Cardinality(nodes) : i # j => order[i] # order[j]
    BY SameCardinality DEF Seqs!SetToSeqs
  <2>2. IsFiniteSet(nodes)
    BY FiniteNodes
  <2>3. \A n \in nodes : \E i \in 1 .. Cardinality(nodes) : order[i] = n
    BY <2>1, <2>2, OrderOnto
  <2> QED
    BY <2>1, <2>3
<1> DEFINE at(p) == {i \in DOMAIN order : p \in Range(HashesOf(order[i]))}
           first(p) == CHOOSE i \in at(p) : \A j \in at(p) : i <= j
<1>2. ASSUME NEW p \in Position
      PROVE  Rebuilt(order)[p] = IF at(p) = {} THEN none ELSE order[first(p)]
  BY DEF Rebuilt
<1>3. ASSUME NEW p, at(p) # {} PROVE first(p) \in at(p)
  <2>1. at(p) \in SUBSET Nat
    BY <1>1
  <2>2. \E x \in at(p) : \A y \in at(p) : x <= y
    BY <1>3, <2>1, LeastElement
  <2> QED
    BY <2>2
<1> HIDE DEF first
<1>4. ASSUME NEW p \in Position
      PROVE  \/ Rebuilt(order)[p] = none
             \/ /\ Rebuilt(order)[p] \in nodes
                /\ p \in Range(HashesOf(Rebuilt(order)[p]))
  BY <1>1, <1>2, <1>3
<1>5. ASSUME NEW n \in nodes, NEW p \in Range(HashesOf(n))
      PROVE  Rebuilt(order)[p] # none
  <2>1. p \in Position
    BY HashesOK DEF RingTyped
  <2>2. at(p) # {}
    BY <1>1
  <2>3. Rebuilt(order)[p] \in nodes
    BY <1>1, <1>2, <1>3, <2>1, <2>2
  <2>4. none \notin nodes
    BY RingAssumption DEF RingTyped
  <2> QED
    BY <2>3, <2>4
<1>6. Rebuilt(order) \in [Position -> nodes \cup {none}]
  BY <1>4 DEF Rebuilt
<1> QED
  BY <1>4, <1>5, <1>6

-----------------------------------------------------------------------------
(* The invariant *)

InUse(p) == \E n \in nodes : p \in Range(HashesOf(n))

(* The list is in order and has the hashes of all nodes and no others, each *)
(* with an entry in the ring.                                               *)
ListComplete ==
  /\ Ascending(sortedHashes)
  /\ \A p \in Position : p \in Range(sortedHashes) <=> InUse(p)
  /\ \A p \in Position : InUse(p) => ring[p] # none

RingInv ==
  /\ TypeOK
  /\ RingSound
  /\ RingListed
  /\ pending => disturbed
  /\ ~ disturbed => ListComplete

LEMMA Typed == TypeOK => RingTyped
BY RingAssumption DEF TypeOK, RingTyped

LEMMA RingInit == Init => RingInv
<1> SUFFICES ASSUME Init PROVE RingInv
  OBVIOUS
<1>1. replicationFactor \in Factor
  BY RingAssumption DEF Init, Checked, Factor
<1>2. <<>> \in Seq(Position) /\ Range(<<>>) = {} /\ Ascending(<<>>)
  BY DEF Range, Ascending
<1>3. TypeOK
  BY <1>1, <1>2 DEF Init, TypeOK
<1>4. \A p \in Position : ring[p] = none /\ ~ InUse(p)
  BY DEF Init, InUse
<1>5. RingSound /\ RingListed
  BY <1>4 DEF RingSound, RingListed
<1>6. ListComplete
  BY <1>2, <1>4 DEF Init, ListComplete
<1> QED
  BY <1>3, <1>5, <1>6 DEF Init, RingInv

LEMMA AddKeeps == ASSUME RingInv, NEW n \in Node, Add(n) PROVE RingInv'
<1> USE RingAssumption
<1>1. TypeOK /\ RingTyped
  BY Typed DEF RingInv
<1>2. \A m : HashesOf(m)' = HashesOf(m)
  BY DEF Add, HashesOf
<1> DEFINE hs == HashesOf(n)
           s == sortedHashes \o hs
<1>3. /\ hs \in Seq(Position) /\ Range(hs) \subseteq Position
      /\ sortedHashes \in Seq(Position)
  BY <1>1, HashesOK DEF TypeOK
<1>4. s \in Seq(Position) /\ Range(s) = Range(sortedHashes) \cup Range(hs)
  BY <1>3, ConcatOK
<1>5. /\ sortedHashes' = Sorted(s)
      /\ sortedHashes' \in Seq(Position)
      /\ Range(sortedHashes') = Range(sortedHashes) \cup Range(hs)
      /\ Ascending(sortedHashes')
  <2>1. sortedHashes' = Sorted(s)
    BY DEF Add
  <2> HIDE DEF s
  <2> QED
    BY <1>4, <2>1, SortedOK
<1> HIDE DEF s
<1>6. \A p \in Position : ring'[p] = IF p \in Range(hs) THEN n ELSE ring[p]
  BY DEF Add
<1>7. nodes' = nodes \cup {n} /\ pending' = pending /\ disturbed' = disturbed
  BY DEF Add
<1>8. TypeOK'
  BY <1>1, <1>5 DEF TypeOK, Add
<1>9. RingSound'
  BY <1>2, <1>6, <1>7 DEF RingInv, RingSound
<1>10. RingListed'
  BY <1>5, <1>6 DEF RingInv, RingListed
<1>11. \A p : InUse(p)' <=> InUse(p) \/ p \in Range(hs)
  BY <1>2, <1>7 DEF InUse
<1>12. ListComplete => ListComplete'
  BY <1>5, <1>6, <1>11 DEF ListComplete
<1> QED
  BY <1>7, <1>8, <1>9, <1>10, <1>12 DEF RingInv

(* What a Remove leaves in the list. *)
LEMMA RemainingOK ==
  ASSUME TypeOK, NEW n \in Node
  PROVE  /\ Remaining(n) \in Seq(Position)
         /\ \A p \in Range(sortedHashes) :
              p \notin Range(HashesOf(n)) => p \in Range(Remaining(n))
         /\ replicationFactor = 1 =>
              /\ Range(Remaining(n)) = Range(sortedHashes) \ Range(HashesOf(n))
              /\ Ascending(sortedHashes) => Ascending(Remaining(n))
<1> DEFINE hs == HashesOf(n)
           parts == [i \in 1 .. replicationFactor |-> Without(sortedHashes, hs[i])]
<1>1. /\ hs \in [1 .. replicationFactor -> Position]
      /\ hs[1] \in Range(hs)
      /\ replicationFactor = 1 => Range(hs) = {hs[1]}
  BY Typed, HashesOK
<1>2. sortedHashes \in Seq(Position)
  BY DEF TypeOK
<1>3. replicationFactor \in Nat /\ 1 \in 1 .. replicationFactor
  BY RingAssumption DEF TypeOK, Factor
<1> HIDE DEF hs
<1>4. \A i \in 1 .. replicationFactor :
        /\ parts[i] \in Seq(Position)
        /\ Range(parts[i]) = Range(sortedHashes) \ {hs[i]}
        /\ Ascending(sortedHashes) => Ascending(parts[i])
  BY <1>1, <1>2, WithoutOK
<1>5. parts \in [1 .. replicationFactor -> Seq(Position)]
  BY <1>4
<1>6. Remaining(n) = Seqs!FlattenSeq(parts)
  BY DEF Remaining, hs
<1> HIDE DEF parts
<1>7. /\ Remaining(n) \in Seq(Position)
      /\ \A p : p \in Range(Remaining(n)) <=>
                  \E i \in 1 .. replicationFactor : p \in Range(parts[i])
      /\ replicationFactor = 1 => Remaining(n) = parts[1]
  BY <1>3, <1>5, <1>6, FlattenOK
<1>8. ASSUME NEW p \in Range(sortedHashes), p \notin Range(hs)
      PROVE  p \in Range(Remaining(n))
  BY <1>1, <1>3, <1>4, <1>7, <1>8
<1>9. replicationFactor = 1 =>
        /\ Range(Remaining(n)) = Range(sortedHashes) \ Range(hs)
        /\ Ascending(sortedHashes) => Ascending(Remaining(n))
  BY <1>1, <1>3, <1>4, <1>7
<1> QED
  BY <1>7, <1>8, <1>9 DEF hs

LEMMA RemoveKeeps == ASSUME RingInv, NEW n \in Node, Remove(n) PROVE RingInv'
<1>1. TypeOK /\ RingTyped
  BY Typed DEF RingInv
<1>2. \A m : HashesOf(m)' = HashesOf(m)
  BY DEF Remove, HashesOf
<1>3. \A p \in Position : ring'[p] = IF p \in Range(HashesOf(n)) THEN none ELSE ring[p]
  BY DEF Remove
<1>4. nodes' = nodes \ {n} /\ pending' = pending /\ (disturbed => disturbed')
  BY DEF Remove
<1>5. sortedHashes' = Remaining(n)
  BY DEF Remove
<1>6. TypeOK'
  <2>1. sortedHashes' \in Seq(Position)
    BY <1>1, <1>5, RemainingOK
  <2>2. ring' \in [Position -> Node \cup {none}]
    BY <1>1 DEF TypeOK, Remove
  <2>3. disturbed' \in BOOLEAN
    BY <1>1 DEF TypeOK, Remove
  <2> QED
    BY <1>1, <2>1, <2>2, <2>3 DEF TypeOK, Remove
<1>7. RingSound'
  BY <1>2, <1>3, <1>4 DEF RingInv, RingSound
<1>8. RingListed'
  <2>1. ASSUME NEW p \in Position, ring'[p] # none PROVE p \in Range(sortedHashes')
    <3>1. p \notin Range(HashesOf(n)) /\ ring[p] # none
      BY <1>3, <2>1
    <3>2. p \in Range(sortedHashes)
      BY <3>1 DEF RingInv, RingListed
    <3> QED
      BY <1>1, <1>5, <3>1, <3>2, RemainingOK
  <2> QED
    BY <2>1 DEF RingListed
<1>9. ASSUME ~ disturbed' PROVE ListComplete'
  <2>1. /\ ~ disturbed /\ ~ (replicationFactor > 1)
        /\ \A m \in nodes \ {n} : ~ Collide(m, n)
    BY <1>9 DEF Remove
  <2>2. replicationFactor = 1
    BY <1>1, <2>1, RingAssumption DEF TypeOK, Factor
  <2>3. ListComplete
    BY <2>1 DEF RingInv
  <2>4. /\ Range(sortedHashes') = Range(sortedHashes) \ Range(HashesOf(n))
        /\ Ascending(sortedHashes')
    BY <1>1, <1>5, <2>2, <2>3, RemainingOK DEF ListComplete
  <2>5. \A p : InUse(p)' <=> InUse(p) /\ p \notin Range(HashesOf(n))
    <3>1. \A p : InUse(p)' <=> \E m \in nodes \ {n} : p \in Range(HashesOf(m))
      BY <1>2, <1>4 DEF InUse
    <3>2. \A m \in nodes \ {n} : \A p \in Range(HashesOf(m)) : p \notin Range(HashesOf(n))
      BY <2>1 DEF Collide
    <3> QED
      BY <3>1, <3>2 DEF InUse
  <2> QED
    BY <1>3, <2>3, <2>4, <2>5 DEF ListComplete
<1>10. (pending => disturbed)'
  BY <1>4 DEF RingInv
<1> QED
  BY <1>6, <1>7, <1>8, <1>9, <1>10 DEF RingInv

LEMMA SetFactorKeeps ==
  ASSUME RingInv, NEW r \in 0 .. MaxFactor, SetFactor(r) PROVE RingInv'
<1>1. Checked(r) \in Factor
  BY RingAssumption DEF Checked, Factor
<1>2. TypeOK'
  BY <1>1 DEF RingInv, TypeOK, SetFactor
<1> QED
  BY <1>2 DEF RingInv, SetFactor, RingSound, RingListed

LEMMA RebalanceKeeps == ASSUME RingInv, Rebalance PROVE RingInv'
<1>1. TypeOK /\ RingTyped
  BY Typed DEF RingInv
<1>2. \A m : HashesOf(m)' = HashesOf(m)
  BY DEF Rebalance, HashesOf
<1>3. nodes' = nodes /\ nodes \subseteq Node /\ pending' = FALSE /\ disturbed' = FALSE
  BY <1>1 DEF Rebalance, TypeOK
<1>4. PICK order \in Seqs!SetToSeqs(nodes) : ring' = Rebuilt(order)
  BY DEF Rebalance
<1>5. /\ ring' \in [Position -> nodes \cup {none}]
      /\ \A p \in Position : ring'[p] # none => p \in Range(HashesOf(ring'[p]))
      /\ \A n \in nodes : \A p \in Range(HashesOf(n)) : ring'[p] # none
  BY <1>1, <1>4, RebuiltOK
<1>6. /\ sortedHashes' \in Seq(Position)
      /\ \A p : p \in Range(sortedHashes') <=> InUse(p)
      /\ Ascending(sortedHashes')
  <2> DEFINE k == Cardinality(nodes)
             list == Seqs!SetToSeq(nodes)
             parts == [i \in 1 .. k |-> HashesOf(list[i])]
             s == Seqs!FlattenSeq(parts)
  <2>1. k \in Nat
    BY <1>1, FiniteNodes
  <2>2. list \in [1 .. k -> nodes] /\ \A n \in nodes : \E i \in 1 .. k : list[i] = n
    BY <1>1, ListOK
  <2>3. sortedHashes' = Sorted(s)
    BY DEF Rebalance
  <2> HIDE DEF k, list
  <2>4. \A i \in 1 .. k : list[i] \in Node
    BY <1>3, <2>2
  <2>5. parts \in [1 .. k -> Seq(Position)] /\ \A i \in 1 .. k : parts[i] = HashesOf(list[i])
    BY <1>1, <2>4, HashesOK
  <2> HIDE DEF parts
  <2>6. /\ s \in Seq(Position)
        /\ \A p : p \in Range(s) <=> \E i \in 1 .. k : p \in Range(parts[i])
    BY <2>1, <2>5, FlattenOK
  <2> HIDE DEF s
  <2>7. \A p : (\E i \in 1 .. k : p \in Range(parts[i])) <=> InUse(p)
    BY <2>2, <2>5 DEF InUse
  <2> QED
    BY <2>3, <2>6, <2>7, SortedOK
<1>7. \A p : InUse(p)' <=> InUse(p)
  BY <1>2, <1>3 DEF InUse
<1>8. TypeOK'
  <2>1. ring' \in [Position -> Node \cup {none}]
    BY <1>3, <1>5
  <2> QED
    BY <1>1, <1>6, <2>1 DEF TypeOK, Rebalance
<1>9. RingSound'
  BY <1>2, <1>3, <1>5 DEF RingSound
<1>10. RingListed'
  <2>1. ASSUME NEW p \in Position, ring'[p] # none PROVE InUse(p)
    <3>1. ring'[p] \in nodes /\ p \in Range(HashesOf(ring'[p]))
      BY <1>5, <2>1
    <3> QED
      BY <3>1 DEF InUse
  <2> QED
    BY <1>6, <2>1 DEF RingListed
<1>11. ListComplete'
  <2>1. \A p : InUse(p) => ring'[p] # none
    BY <1>5 DEF InUse
  <2> QED
    BY <1>6, <1>7, <2>1 DEF ListComplete
<1> QED
  BY <1>3, <1>8, <1>9, <1>10, <1>11 DEF RingInv

LEMMA RingStep == RingInv /\ [Next]_vars => RingInv'
<1> SUFFICES ASSUME RingInv, [Next]_vars PROVE RingInv'
  OBVIOUS
<1>1. CASE UNCHANGED vars
  BY <1>1 DEF vars, RingInv, TypeOK, RingSound, RingListed, ListComplete, InUse, HashesOf
<1> QED
  BY <1>1, AddKeeps, RemoveKeeps, SetFactorKeeps, RebalanceKeeps DEF Next

LEMMA RingAlways == Spec => []RingInv
BY RingInit, RingStep, PTL DEF Spec

-----------------------------------------------------------------------------
(* Looking up *)

(* p is the first element of U clockwise from h. *)
Follows(U, h, p) ==
  /\ p \in U
  /\ \A q \in U : IF p >= h THEN q >= h => p <= q ELSE q < h /\ p <= q

LEMMA FollowsUnique ==
  ASSUME NEW U \in SUBSET Position, NEW h \in Position,
         NEW p, Follows(U, h, p), NEW q, Follows(U, h, q)
  PROVE  p = q
BY RingAssumption DEF Follows, Position

LEMMA FollowsSubset ==
  ASSUME NEW U, NEW V \in SUBSET U, NEW h, NEW p \in V, Follows(U, h, p)
  PROVE  Follows(V, h, p)
BY DEF Follows

Used == UNION {Range(HashesOf(n)) : n \in nodes}

LEMMA UsedOK ==
  ASSUME TypeOK
  PROVE  /\ Used \in SUBSET Position
         /\ \A p : p \in Used <=> InUse(p)
         /\ nodes # {} => Used # {}
<1>1. \A p : p \in Used <=> InUse(p)
  BY DEF Used, InUse
<1>2. \A n \in nodes : Range(HashesOf(n)) \subseteq Position /\ Range(HashesOf(n)) # {}
  BY Typed, HashesOK DEF TypeOK
<1> QED
  BY <1>1, <1>2 DEF InUse

LEMMA SuccessorFollows ==
  ASSUME TypeOK, nodes # {}, NEW h \in Position
  PROVE  Follows(Used, h, Successor(h))
<1> DEFINE from == {p \in Used : p >= h}
           near == IF from = {} THEN Used ELSE from
           first == CHOOSE p \in near : \A q \in near : p <= q
<1>1. Used \in SUBSET Position /\ Used # {}
  BY UsedOK
<1>2. near \in SUBSET Nat /\ near # {} /\ near \in SUBSET Used
  <2>1. Position \in SUBSET Nat
    BY RingAssumption DEF Position
  <2>2. from \in SUBSET Used
    OBVIOUS
  <2> HIDE DEF from
  <2>3. near \in SUBSET Used /\ near # {}
    BY <1>1, <2>2
  <2> QED
    BY <1>1, <2>1, <2>3
<1>3. first \in near /\ \A q \in near : first <= q
  <2> HIDE DEF near
  <2>1. \E p \in near : \A q \in near : p <= q
    BY <1>2, LeastElement
  <2> QED
    BY <2>1
<1>4. Successor(h) = first
  BY DEF Successor, Used
<1> HIDE DEF first
<1>5. first \in Used /\ \A q \in Used : q \in Nat /\ h \in Nat
  BY <1>1, <1>2, <1>3, RingAssumption DEF Position
<1>6. Follows(Used, h, first)
  <2>1. CASE from = {}
    <3>1. \A q \in Used : q < h /\ first <= q
      BY <1>3, <1>5, <2>1
    <3> QED
      BY <1>5, <3>1 DEF Follows
  <2>2. CASE from # {}
    <3>1. first >= h /\ \A q \in Used : q >= h => first <= q
      BY <1>3, <1>5, <2>2
    <3> QED
      BY <1>5, <3>1 DEF Follows
  <2> QED
    BY <2>1, <2>2
<1> QED
  BY <1>4, <1>6

(* Get reads the entry of a position, whatever has become of the list. *)
LEMMA GetReads ==
  ASSUME TypeOK, RingListed, NEW h \in Position, \E p \in Position : ring[p] # none
  PROVE  LET idx == Search(sortedHashes, h)
             i == IF idx = Len(sortedHashes) THEN 1 ELSE idx + 1
         IN  /\ i \in DOMAIN sortedHashes
             /\ sortedHashes[i] \in Position
             /\ Get(h) = ring[sortedHashes[i]]
<1> DEFINE n == Len(sortedHashes)
           idx == Search(sortedHashes, h)
           i == IF idx = n THEN 1 ELSE idx + 1
<1>1. /\ n \in Nat /\ DOMAIN sortedHashes = 1 .. n
      /\ \A j \in 1 .. n : sortedHashes[j] \in Position
  BY DEF TypeOK
<1>2. n # 0
  <2>1. Range(sortedHashes) # {}
    BY DEF RingListed
  <2> QED
    BY <1>1, <2>1 DEF Range
<1>3. idx \in 0 .. n
  BY SearchOK DEF TypeOK
<1>4. Get(h) = ring[sortedHashes[i]]
  BY DEF Get
<1> HIDE DEF n, idx
<1>5. i \in 1 .. n
  BY <1>1, <1>2, <1>3
<1> QED
  BY <1>1, <1>4, <1>5 DEF n, idx

LEMMA GetFollows ==
  ASSUME RingInv, ~ disturbed, nodes # {}, NEW h \in Position
  PROVE  \E p \in Position :
           /\ Follows(Used, h, p)
           /\ Get(h) = ring[p]
           /\ Get(h) \in nodes
           /\ p \in Range(HashesOf(Get(h)))
<1> DEFINE s == sortedHashes
           n == Len(s)
           idx == Search(s, h)
           i == IF idx = n THEN 1 ELSE idx + 1
           p == s[i]
<1>1. TypeOK /\ RingListed /\ ListComplete /\ s \in Seq(Position) /\ ~ pending
  BY DEF RingInv, TypeOK
<1>2. Used \in SUBSET Position /\ Used # {} /\ \A q : q \in Used <=> InUse(q)
  BY <1>1, UsedOK
<1>3. \A q : q \in Used <=> \E k \in 1 .. n : s[k] = q
  <2>1. \A q \in Position : q \in Range(s) <=> q \in Used
    BY <1>1, <1>2 DEF ListComplete
  <2>2. \A q \in Range(s) : q \in Position
    BY <1>1 DEF Range
  <2> QED
    BY <1>1, <1>2, <2>1, <2>2 DEF Range
<1>4. i \in 1 .. n /\ p \in Position /\ Get(h) = ring[p]
  <2>1. \E q \in Position : ring[q] # none
    BY <1>1, <1>2 DEF ListComplete
  <2>2. i \in DOMAIN s /\ p \in Position /\ Get(h) = ring[p]
    BY <1>1, <2>1, GetReads
  <2> QED
    BY <1>1, <2>2
<1>5. p \in Used /\ Get(h) # none
  <2>1. p \in Used
    BY <1>3, <1>4
  <2> QED
    BY <1>1, <1>2, <1>4, <2>1 DEF ListComplete
<1>6. Get(h) \in nodes /\ p \in Range(HashesOf(Get(h)))
  BY <1>1, <1>4, <1>5 DEF RingInv, RingSound
<1>7. /\ n \in Nat /\ idx \in 0 .. n
      /\ \A k \in 1 .. n : k <= idx <=> s[k] < h
      /\ \A k \in 1 .. n : s[k] \in Nat
      /\ \A k, l \in 1 .. n : k <= l => s[k] <= s[l]
      /\ h \in Nat
  <2>1. n \in Nat /\ DOMAIN s = 1 .. n /\ \A k \in DOMAIN s : s[k] \in Position
    BY <1>1
  <2>2. Position \subseteq Nat
    BY RingAssumption DEF Position
  <2>3. idx \in 0 .. n /\ \A k \in DOMAIN s : k <= idx <=> s[k] < h
    BY <1>1, SearchOK DEF ListComplete
  <2>4. \A k, l \in DOMAIN s : k <= l => s[k] <= s[l]
    BY <1>1 DEF ListComplete, Ascending
  <2> HIDE DEF n, idx
  <2> QED
    BY <2>1, <2>2, <2>3, <2>4
<1>8. i = (IF idx = n THEN 1 ELSE idx + 1) /\ p = s[i]
  OBVIOUS
<1> HIDE DEF s, n, idx, i, p
<1>9. Follows(Used, h, p)
  <2>1. CASE idx = n
    <3>1. i = 1 /\ \A k \in 1 .. n : s[k] < h /\ i <= k
      BY <1>7, <1>8, <2>1
    <3>2. \A q \in Used : q < h /\ p <= q
      BY <1>3, <1>4, <1>7, <1>8, <3>1
    <3>3. p < h /\ p \in Nat
      BY <1>4, <1>7, <1>8, <3>1
    <3> QED
      BY <1>5, <1>7, <3>2, <3>3 DEF Follows
  <2>2. CASE idx # n
    <3>1. i = idx + 1 /\ ~ (i <= idx)
      BY <1>7, <1>8, <2>2
    <3>2. p >= h
      BY <1>4, <1>7, <1>8, <3>1
    <3>3. ASSUME NEW k \in 1 .. n, s[k] >= h PROVE p <= s[k]
      <4>1. ~ (k <= idx)
        BY <1>7, <3>3
      <4>2. i <= k
        BY <1>7, <3>1, <4>1
      <4> QED
        BY <1>4, <1>7, <1>8, <4>2
    <3>4. \A q \in Used : q >= h => p <= q
      BY <1>3, <3>3
    <3> QED
      BY <1>5, <3>2, <3>4 DEF Follows
  <2> QED
    BY <2>1, <2>2
<1> QED
  BY <1>4, <1>6, <1>9

(* With no nodes, the ring has no entries. *)
LEMMA GetNone ==
  ASSUME RingInv, ~ pending, nodes = {}, NEW h \in Position
  PROVE  Get(h) = none
<1>1. \A p \in Position : ring[p] = none
  BY DEF RingInv, RingSound
<1> QED
  BY <1>1 DEF Get

LEMMA RingInvSuccessor == RingInv => GetIsSuccessor
<1> SUFFICES ASSUME RingInv, ~ disturbed, NEW h \in Position
             PROVE  IF nodes = {} THEN Get(h) = none
                    ELSE Get(h) \in nodes /\ Successor(h) \in Range(HashesOf(Get(h)))
  BY DEF GetIsSuccessor
<1>1. TypeOK /\ ~ pending
  BY DEF RingInv
<1>2. CASE nodes = {}
  BY <1>1, <1>2, GetNone
<1>3. CASE nodes # {}
  <2>1. PICK p : /\ Follows(Used, h, p)
                 /\ Get(h) \in nodes
                 /\ p \in Range(HashesOf(Get(h)))
    BY <1>3, GetFollows
  <2>2. Successor(h) = p
    <3>1. Follows(Used, h, Successor(h)) /\ Used \in SUBSET Position
      BY <1>1, <1>3, SuccessorFollows, UsedOK
    <3> QED
      BY <2>1, <3>1, FollowsUnique
  <2> QED
    BY <1>3, <2>1, <2>2
<1> QED
  BY <1>2, <1>3

(* With or without a mangled list, Get answers a node of the ring or none.  *)
LEMMA RingInvNeverStrays == RingInv => GetNeverStrays
<1> SUFFICES ASSUME RingInv, ~ pending, NEW h \in Position
             PROVE  Get(h) \in nodes \cup {none}
  BY DEF GetNeverStrays
<1>1. CASE \A p \in Position : ring[p] = none
  BY <1>1 DEF Get
<1>2. CASE \E p \in Position : ring[p] # none
  <2>1. \E p \in Position : Get(h) = ring[p]
    BY <1>2, GetReads DEF RingInv
  <2> QED
    BY <2>1 DEF RingInv, RingSound
<1> QED
  BY <1>1, <1>2

GetIsNearest ==
  ~ disturbed /\ nodes # {} =>
    \A h \in Position :
      /\ Get(h) \in nodes
      /\ \E p \in Range(HashesOf(Get(h))) :
           \A n \in nodes : \A q \in Range(HashesOf(n)) : Away(h, p) <= Away(h, q)

LEMMA FollowsIsNearest ==
  ASSUME NEW U \in SUBSET Position, NEW h \in Position, NEW p, Follows(U, h, p)
  PROVE  \A q \in U : Away(h, p) <= Away(h, q)
BY RingAssumption DEF Follows, Away, Position

LEMMA RingInvNearest == RingInv => GetIsNearest
<1> SUFFICES ASSUME RingInv, ~ disturbed, nodes # {}, NEW h \in Position
             PROVE  /\ Get(h) \in nodes
                    /\ \E p \in Range(HashesOf(Get(h))) :
                         \A n \in nodes : \A q \in Range(HashesOf(n)) :
                           Away(h, p) <= Away(h, q)
  BY DEF GetIsNearest
<1>1. PICK p : /\ Follows(Used, h, p)
               /\ Get(h) \in nodes
               /\ p \in Range(HashesOf(Get(h)))
  BY GetFollows
<1>2. \A q \in Used : Away(h, p) <= Away(h, q)
  BY <1>1, UsedOK, FollowsIsNearest DEF RingInv
<1> QED
  BY <1>1, <1>2 DEF Used

-----------------------------------------------------------------------------
(* Consistency *)

(* The owner of h has the hash next from h on. *)
Owned(h) ==
  IF nodes = {} THEN Get(h) = none
  ELSE \E p : /\ Follows(Used, h, p)
              /\ Get(h) \in nodes
              /\ p \in Range(HashesOf(Get(h)))

AllOwned ==
  /\ Used \in SUBSET Position
  /\ \A h \in Position : Owned(h)

LEMMA RingInvOwned == RingInv /\ ~ disturbed => AllOwned
<1> SUFFICES ASSUME RingInv, ~ disturbed PROVE AllOwned
  OBVIOUS
<1>1. TypeOK /\ ~ pending
  BY DEF RingInv
<1>2. ASSUME NEW h \in Position PROVE Owned(h)
  <2>1. CASE nodes = {}
    BY <1>1, <2>1, GetNone DEF Owned
  <2>2. CASE nodes # {}
    BY <2>2, GetFollows DEF Owned
  <2> QED
    BY <2>1, <2>2
<1> QED
  BY <1>1, <1>2, UsedOK DEF AllOwned

LEMMA RingInvOwnedNext == RingInv' /\ ~ disturbed' => AllOwned'
BY RingInvOwned, PTL

(* A step that leaves the replication factor alone. *)
SameHashes == hashKey' = hashKey /\ replicationFactor' = replicationFactor

LEMMA SameHashesOf == ASSUME SameHashes PROVE \A m : HashesOf(m)' = HashesOf(m)
BY DEF SameHashes, HashesOf

(* Of two rings with the same hashes, one with fewer nodes: a key whose next *)
(* hash in the larger ring belongs to a node of the smaller one has the same *)
(* owner in both.                                                            *)
LEMMA OwnerKept ==
  ASSUME NoCollisions, NEW M \in SUBSET Node, NEW N \in SUBSET M,
         NEW h \in Position, NEW U \in SUBSET Position, NEW V \in SUBSET U,
         NEW a \in M, NEW p, Follows(U, h, p), p \in Range(HashesOf(a)),
         NEW b \in N, NEW q, Follows(V, h, q), q \in Range(HashesOf(b)),
         p \in V
  PROVE  a = b
<1>1. Follows(V, h, p) /\ V \in SUBSET Position
  BY FollowsSubset
<1>2. p = q
  BY <1>1, FollowsUnique
<1>3. a \in Node /\ b \in Node /\ (a # b => ~ Collide(a, b))
  BY DEF NoCollisions
<1> QED
  BY <1>2, <1>3 DEF Collide

OwnerTyped == owner \in [Position -> Abstract!Owners]

LEMMA AllOwnedTyped == AllOwned => OwnerTyped
BY DEF AllOwned, Owned, owner, OwnerTyped, Abstract!Owners

LEMMA AllOwnedTypedNext == AllOwned' => OwnerTyped'
BY AllOwnedTyped, PTL

LEMMA AddJoins ==
  ASSUME RingInv, AllOwned, AllOwned', NoCollisions, NEW n \in Node, Add(n)
  PROVE  Abstract!Join(n)
<1>1. /\ n \notin nodes /\ nodes' = nodes \cup {n} /\ nodes \in SUBSET Node
      /\ SameHashes
  BY DEF Add, RingInv, TypeOK, SameHashes
<1>2. \A m : HashesOf(m)' = HashesOf(m)
  BY <1>1, SameHashesOf
<1>3. Used \in SUBSET Used'
  BY <1>1, <1>2 DEF Used
<1>4. ASSUME NEW h \in Position, Get(h)' # Get(h) PROVE Get(h)' = n
  <2> DEFINE a == Get(h)'
             b == Get(h)
  <2>1. PICK p : Follows(Used', h, p) /\ a \in nodes' /\ p \in Range(HashesOf(a))
    BY <1>1, <1>2 DEF AllOwned, Owned
  <2>2. Used' \in SUBSET Position
    BY DEF AllOwned
  <2> HIDE DEF a
  <2>3. SUFFICES ASSUME a # n PROVE FALSE
    BY DEF a
  <2>4. a \in nodes /\ p \in Used
    BY <1>1, <2>1, <2>3 DEF Used
  <2>5. PICK q : Follows(Used, h, q) /\ b \in nodes /\ q \in Range(HashesOf(b))
    BY <2>4 DEF AllOwned, Owned
  <2> HIDE DEF b
  <2>6. a = b
    BY <1>1, <1>3, <2>1, <2>2, <2>4, <2>5, OwnerKept
  <2> QED
    BY <1>4, <2>6 DEF a, b
<1>5. \A h \in Position : owner[h] = Get(h) /\ owner'[h] = Get(h)'
  BY DEF owner
<1> QED
  BY <1>1, <1>4, <1>5, AllOwnedTypedNext DEF OwnerTyped, Abstract!Join

LEMMA RemoveLeaves ==
  ASSUME RingInv, AllOwned, AllOwned', NoCollisions, NEW n \in Node, Remove(n)
  PROVE  Abstract!Leave(n)
<1>1. /\ n \in nodes /\ nodes' = nodes \ {n} /\ nodes \in SUBSET Node
      /\ SameHashes
  BY DEF Remove, RingInv, TypeOK, SameHashes
<1>2. \A m : HashesOf(m)' = HashesOf(m)
  BY <1>1, SameHashesOf
<1>3. Used' \in SUBSET Used /\ Used \in SUBSET Position
  BY <1>1, <1>2 DEF Used, AllOwned
<1>4. ASSUME NEW h \in Position, Get(h)' # Get(h) PROVE Get(h) = n
  <2> DEFINE a == Get(h)
             b == Get(h)'
  <2>1. PICK p : Follows(Used, h, p) /\ a \in nodes /\ p \in Range(HashesOf(a))
    BY <1>1 DEF AllOwned, Owned
  <2> HIDE DEF a
  <2>2. SUFFICES ASSUME a # n PROVE FALSE
    BY DEF a
  <2>3. a \in nodes' /\ p \in Used'
    BY <1>1, <1>2, <2>1, <2>2 DEF Used
  <2>4. PICK q : Follows(Used', h, q) /\ b \in nodes' /\ q \in Range(HashesOf(b))
    BY <1>2, <2>3 DEF AllOwned, Owned
  <2> HIDE DEF b
  <2>5. a = b
    BY <1>1, <1>3, <2>1, <2>3, <2>4, OwnerKept
  <2> QED
    BY <1>4, <2>5 DEF a, b
<1>5. \A h \in Position : owner[h] = Get(h) /\ owner'[h] = Get(h)'
  BY DEF owner
<1> QED
  BY <1>1, <1>4, <1>5, AllOwnedTypedNext DEF OwnerTyped, Abstract!Leave

LEMMA RebalanceStutters ==
  ASSUME RingInv, AllOwned, AllOwned', NoCollisions, Rebalance
  PROVE  UNCHANGED <<nodes, owner>>
<1>1. nodes' = nodes /\ nodes \in SUBSET Node /\ SameHashes
  BY DEF Rebalance, RingInv, TypeOK, SameHashes
<1>2. \A m : HashesOf(m)' = HashesOf(m)
  BY <1>1, SameHashesOf
<1>3. Used' = Used /\ Used \in SUBSET Position
  BY <1>1, <1>2 DEF Used, AllOwned
<1>4. ASSUME NEW h \in Position PROVE Get(h)' = Get(h)
  <2>1. CASE nodes = {}
    BY <1>1, <2>1 DEF AllOwned, Owned
  <2>2. CASE nodes # {}
    <3> DEFINE a == Get(h)
               b == Get(h)'
    <3>1. PICK p : Follows(Used, h, p) /\ a \in nodes /\ p \in Range(HashesOf(a))
      BY <2>2 DEF AllOwned, Owned
    <3>2. PICK q : Follows(Used', h, q) /\ b \in nodes' /\ q \in Range(HashesOf(b))
      BY <1>1, <1>2, <2>2 DEF AllOwned, Owned
    <3> HIDE DEF a, b
    <3>3. a = b
      <4>1. Follows(Used, h, q) /\ b \in nodes /\ p \in Used
        BY <1>1, <1>3, <3>1, <3>2 DEF Follows
      <4> QED
        BY <1>1, <1>3, <3>1, <3>2, <4>1, OwnerKept
    <3> QED
      BY <3>3 DEF a, b
  <2> QED
    BY <2>1, <2>2
<1> QED
  BY <1>1, <1>4 DEF owner

LEMMA UndisturbedStep ==
  ASSUME RingInv, RingInv', [Next]_vars, ~ disturbed, ~ disturbed', NoCollisions
  PROVE  [Abstract!Next]_<<nodes, owner>>
<1>1. AllOwned /\ AllOwned'
  BY RingInvOwned, RingInvOwnedNext
<1>2. ASSUME NEW n \in Node, Add(n) PROVE Abstract!Next
  BY <1>1, <1>2, AddJoins DEF Abstract!Next
<1>3. ASSUME NEW n \in Node, Remove(n) PROVE Abstract!Next
  BY <1>1, <1>3, RemoveLeaves DEF Abstract!Next
<1>4. ASSUME NEW r \in 0 .. MaxFactor, SetFactor(r) PROVE FALSE
  BY <1>4 DEF SetFactor
<1>5. CASE UNCHANGED vars
  BY <1>5 DEF vars, owner, Get
<1> QED
  BY <1>1, <1>2, <1>3, <1>4, <1>5, RebalanceStutters DEF Next

LEMMA RingInitAbstract == Init => Abstract!Init
<1> SUFFICES ASSUME Init PROVE Abstract!Init
  OBVIOUS
<1>1. \A h \in Position : Get(h) = none
  BY DEF Init, Get
<1> QED
  BY <1>1 DEF Init, owner, Abstract!Init

-----------------------------------------------------------------------------
(* Routes *)

LEMMA AwayOK == \A h, p \in Position : Away(h, p) \in Nat
BY RingAssumption DEF Away, Position

(* away is the least way from a key to a hash of a node. *)
LEMMA AwayIsLeast ==
  ASSUME RingTyped, NEW h \in Position, NEW n \in Node
  PROVE  /\ away[h][n] \in Nat
         /\ \E p \in Range(HashesOf(n)) : away[h][n] = Away(h, p)
         /\ \A p \in Range(HashesOf(n)) : away[h][n] <= Away(h, p)
<1> DEFINE ways == {Away(h, p) : p \in Range(HashesOf(n))}
           least == CHOOSE d \in ways : \A e \in ways : d <= e
<1>1. Range(HashesOf(n)) \in SUBSET Position /\ Range(HashesOf(n)) # {}
  BY HashesOK
<1>2. ways \in SUBSET Nat /\ ways # {}
  BY <1>1, AwayOK
<1>3. least \in ways /\ \A e \in ways : least <= e
  <2> HIDE DEF ways
  <2>1. \E d \in ways : \A e \in ways : d <= e
    BY <1>2, LeastElement
  <2> QED
    BY <2>1
<1>4. away[h][n] = least
  BY DEF away
<1> HIDE DEF least
<1> QED
  BY <1>2, <1>3, <1>4

(* What Get answers for all keys is one of the routes of RouteSpec. *)
LEMMA RingInvRoutes ==
  RingInv /\ ~ pending => owner \in Routed!Routes(away, nodes, ~ disturbed)
<1> SUFFICES ASSUME RingInv, ~ pending
             PROVE  owner \in Routed!Routes(away, nodes, ~ disturbed)
  OBVIOUS
<1>1. RingTyped /\ nodes \in SUBSET Node
  BY Typed DEF RingInv, TypeOK
<1>2. owner \in [Position -> nodes \cup {none}]
  BY RingInvNeverStrays DEF GetNeverStrays, owner
<1>3. ASSUME ~ disturbed, nodes # {}, NEW h \in Position
      PROVE  owner[h] \in Routed!Nearest(away, nodes, h)
  <2> DEFINE a == Get(h)
  <2>1. PICK p \in Range(HashesOf(a)) :
          \A n \in nodes : \A q \in Range(HashesOf(n)) : Away(h, p) <= Away(h, q)
    BY <1>3, RingInvNearest DEF GetIsNearest
  <2>2. a \in nodes /\ owner[h] = a
    BY <1>3, RingInvNearest DEF GetIsNearest, owner
  <2> HIDE DEF a
  <2>3. p \in Position
    BY <1>1, <2>2, HashesOK
  <2>4. ASSUME NEW n \in nodes PROVE away[h][a] <= away[h][n]
    <3>1. a \in Node /\ n \in Node
      BY <1>1, <2>2
    <3>2. away[h][a] <= Away(h, p) /\ away[h][a] \in Nat /\ Away(h, p) \in Nat
      BY <1>1, <2>3, <3>1, AwayIsLeast, AwayOK
    <3>3. PICK q \in Range(HashesOf(n)) : away[h][n] = Away(h, q)
      BY <1>1, <3>1, AwayIsLeast
    <3>4. Away(h, p) <= away[h][n] /\ away[h][n] \in Nat
      BY <1>1, <2>1, <3>1, <3>3, AwayIsLeast
    <3> QED
      BY <3>2, <3>4
  <2> QED
    BY <2>2, <2>4 DEF Routed!Nearest
<1> QED
  BY <1>2, <1>3 DEF Routed!Routes

LEMMA RingInvRoutesNext ==
  RingInv' /\ ~ pending' => owner' \in Routed!Routes(away', nodes', ~ disturbed')
<1>1. (RingInv /\ ~ pending)' => (owner \in Routed!Routes(away, nodes, ~ disturbed))'
  BY RingInvRoutes, PTL
<1> QED
  BY <1>1

LEMMA FactorKeptStep ==
  ASSUME RingInv, RingInv', [Next]_vars, ~ pending, ~ pending'
  PROVE  [Routed!Next]_<<nodes, away, owner, ~ disturbed>>
<1>1. disturbed \in BOOLEAN /\ disturbed' \in BOOLEAN
  BY DEF RingInv, TypeOK
<1>2. owner' \in Routed!Routes(away', nodes', ~ disturbed')
  BY RingInvRoutesNext
<1>3. CASE UNCHANGED vars
  <2>1. UNCHANGED <<nodes, owner, disturbed>> /\ SameHashes
    BY <1>3 DEF vars, owner, Get, SameHashes
  <2>2. \A n : HashesOf(n)' = HashesOf(n)
    BY <2>1, SameHashesOf
  <2>3. away' = away
    BY <2>2 DEF away
  <2> QED
    BY <2>1, <2>3
<1>4. CASE Next
  <2>1. SameHashes
    BY <1>4 DEF Next, Add, Remove, SetFactor, Rebalance, SameHashes
  <2>2. away' = away
    <3>1. \A n : HashesOf(n)' = HashesOf(n)
      BY <2>1, SameHashesOf
    <3> QED
      BY <3>1 DEF away
  <2>3. ASSUME NEW n \in Node, Add(n) PROVE Routed!Join(n)
    BY <2>3 DEF Add, Routed!Join
  <2>4. ASSUME NEW n \in Node, Remove(n) PROVE Routed!Leave(n)
    <3>1. n \in nodes /\ nodes' = nodes \ {n} /\ (disturbed => disturbed')
      BY <2>4 DEF Remove
    <3>2. (~ disturbed') \in {~ disturbed, FALSE}
      BY <1>1, <3>1
    <3> QED
      BY <3>1, <3>2 DEF Routed!Leave
  <2>5. ASSUME Rebalance PROVE Routed!Rebuild
    BY <2>5 DEF Rebalance, Routed!Rebuild
  <2> QED
    BY <1>2, <1>4, <2>2, <2>3, <2>4, <2>5 DEF Next, SetFactor, Routed!Next
<1> QED
  BY <1>3, <1>4

LEMMA RingInitRoutes == Init => Routed!Init
<1> SUFFICES ASSUME Init PROVE Routed!Init
  OBVIOUS
<1>1. \A h \in Position : Get(h) = none
  BY DEF Init, Get
<1>2. owner = [h \in Position |-> none]
  BY <1>1 DEF owner
<1>3. RingTyped
  BY RingInit, Typed DEF RingInv
<1>4. away = [h \in Position |-> [n \in Node |-> away[h][n]]]
  BY DEF away
<1>5. \A h \in Position, n \in Node : away[h][n] \in Nat
  BY <1>3, AwayIsLeast
<1>6. away \in [Position -> [Node -> Nat]]
  BY <1>4, <1>5
<1> QED
  BY <1>2, <1>6 DEF Init, Routed!Init

-----------------------------------------------------------------------------
(* Counts *)

(* The virtual nodes of N with the hash p; Hashed(nodes, p) is counted in   *)
(* ListExact.                                                               *)
Hashed(N, p) == {v \in N \X (0 .. replicationFactor - 1) : hashKey[v] = p}

LEMMA HashedFinite ==
  ASSUME RingTyped, NEW N \in SUBSET Node, NEW p PROVE IsFiniteSet(Hashed(N, p))
<1> DEFINE V == 0 .. replicationFactor - 1
<1>1. replicationFactor \in Int /\ 0 \in Int /\ replicationFactor - 1 \in Int
  BY RingAssumption DEF RingTyped, Factor
<1>2. IsFiniteSet(V)
  <2> DEFINE m == replicationFactor - 1
  <2>1. m \in Int
    BY <1>1
  <2> HIDE DEF m
  <2>2. IsFiniteSet(0 .. m)
    BY <2>1, FS_Interval
  <2> QED
    BY <2>2 DEF m
<1>3. IsFiniteSet(N)
  BY FS_Subset, RingAssumption
<1> HIDE DEF V
<1>4. IsFiniteSet(N \X V)
  BY <1>2, <1>3, FS_Product
<1>5. Hashed(N, p) \in SUBSET (N \X V)
  BY DEF Hashed, V
<1> QED
  BY <1>4, <1>5, FS_Subset

(* The loops over a node's virtual nodes visit each once. *)
LEMMA HashesCount ==
  ASSUME RingTyped, NEW n \in Node, NEW p
  PROVE  Count(HashesOf(n), p) = Cardinality(Hashed({n}, p))
<1> DEFINE hs == HashesOf(n)
           S == Occurs(hs, p)
           T == Hashed({n}, p)
           f == [i \in S |-> <<n, i - 1>>]
<1>1. replicationFactor \in Nat
  BY RingAssumption DEF RingTyped, Factor
<1>2. DOMAIN hs = 1 .. replicationFactor
      /\ \A i \in 1 .. replicationFactor : hs[i] = hashKey[<<n, i - 1>>]
  BY DEF HashesOf
<1>3. hs \in Seq(Position)
  BY HashesOK
<1> HIDE DEF hs
<1>4. S \in SUBSET (1 .. replicationFactor)
  BY <1>2 DEF Occurs
<1>5. f \in [S -> T]
  <2> SUFFICES ASSUME NEW i \in S PROVE <<n, i - 1>> \in T
    OBVIOUS
  <2>1. i \in 1 .. replicationFactor /\ hashKey[<<n, i - 1>>] = p
    BY <1>2 DEF Occurs
  <2>2. i - 1 \in 0 .. replicationFactor - 1
    BY <1>1, <2>1
  <2> QED
    BY <2>1, <2>2 DEF Hashed
<1>6. ASSUME NEW v \in T PROVE \E i \in S : f[i] = v
  <2>1. PICK j \in 0 .. replicationFactor - 1 : v = <<n, j>> /\ hashKey[v] = p
    BY DEF Hashed
  <2>2. j + 1 \in 1 .. replicationFactor /\ (j + 1) - 1 = j
    BY <1>1, <2>1
  <2>3. j + 1 \in S
    BY <1>2, <2>1, <2>2 DEF Occurs
  <2> QED
    BY <2>1, <2>2, <2>3
<1>7. ASSUME NEW i \in S, NEW j \in S, f[i] = f[j] PROVE i = j
  <2>1. i \in Int /\ j \in Int
    BY <1>1, <1>4
  <2>2. f[i] = <<n, i - 1>> /\ f[j] = <<n, j - 1>>
    OBVIOUS
  <2> QED
    BY <1>7, <2>1, <2>2
<1> HIDE DEF f, T
<1>8. f \in Bijection(S, T)
  BY <1>5, <1>6, <1>7 DEF Bijection, Injection, Surjection, IsInjective
<1>9. ExistsBijection(S, T) /\ IsFiniteSet(S)
  BY <1>3, <1>8, OccursFinite DEF ExistsBijection
<1>10. Cardinality(S) = Cardinality(T)
  BY <1>9, FS_Bijection
<1> QED
  BY <1>10 DEF Count, hs, T

(* ListExact, with the names that its proof uses. *)
LEMMA ListExactIs ==
  ListExact <=>
    (~ disturbed =>
       \A p \in Position : Count(sortedHashes, p) = Cardinality(Hashed(nodes, p)))
BY DEF ListExact, Count, Hashed

LEMMA ListExactIsNext ==
  ListExact' <=>
    (~ disturbed' =>
       \A p \in Position : Count(sortedHashes, p)' = Cardinality(Hashed(nodes, p))')
BY DEF ListExact, Count, Hashed, Occurs

LEMMA InitExact == Init => ListExact
<1> SUFFICES ASSUME Init, NEW p \in Position
             PROVE  Count(sortedHashes, p) = Cardinality(Hashed(nodes, p))
  BY ListExactIs
<1>1. sortedHashes = <<>> /\ Hashed(nodes, p) = {}
  BY DEF Init, Hashed
<1>2. Occurs(<<>>, p) = {}
  BY DEF Occurs
<1> QED
  BY <1>1, <1>2 DEF Count

LEMMA AddExact ==
  ASSUME RingInv, ListExact, NEW n \in Node, Add(n) PROVE ListExact'
<1>1. RingTyped /\ sortedHashes \in Seq(Position) /\ nodes \in SUBSET Node
  BY Typed DEF RingInv, TypeOK
<1> DEFINE hs == HashesOf(n)
           s == sortedHashes \o hs
<1>2. /\ n \notin nodes /\ nodes' = nodes \cup {n} /\ sortedHashes' = Sorted(s)
      /\ hashKey' = hashKey /\ replicationFactor' = replicationFactor /\ disturbed' = disturbed
  BY DEF Add
<1>3. hs \in Seq(Position)
  BY <1>1, HashesOK
<1> SUFFICES ASSUME ~ disturbed, NEW p \in Position
             PROVE  Count(sortedHashes', p) = Cardinality(Hashed(nodes, p)')
  BY <1>2, ListExactIsNext DEF Count, Occurs
<1>4. Count(sortedHashes, p) = Cardinality(Hashed(nodes, p))
  BY ListExactIs
<1>5. Count(hs, p) = Cardinality(Hashed({n}, p))
  BY <1>1, HashesCount
<1> HIDE DEF hs
<1>6. Count(s, p) = Count(sortedHashes, p) + Count(hs, p) /\ s \in Seq(Position)
  BY <1>1, <1>3, ConcatCount
<1> HIDE DEF s
<1>7. Count(sortedHashes', p) = Count(s, p)
  BY <1>2, <1>6, SortedCount
<1>8. Hashed(nodes, p)' = Hashed(nodes, p) \cup Hashed({n}, p)
  BY <1>2 DEF Hashed
<1>9. \A v \in Hashed(nodes, p) : v \notin Hashed({n}, p)
  BY <1>2 DEF Hashed
<1>10. IsFiniteSet(Hashed(nodes, p)) /\ IsFiniteSet(Hashed({n}, p))
  BY <1>1, HashedFinite
<1>11. Cardinality(Hashed(nodes, p) \cup Hashed({n}, p)) =
         Cardinality(Hashed(nodes, p)) + Cardinality(Hashed({n}, p))
  BY <1>9, <1>10, DisjointUnion
<1> QED
  BY <1>4, <1>5, <1>6, <1>7, <1>8, <1>11

LEMMA RemoveExact ==
  ASSUME RingInv, ListExact, NEW n \in Node, Remove(n) PROVE ListExact'
<1>1. RingTyped /\ TypeOK /\ sortedHashes \in Seq(Position) /\ nodes \in SUBSET Node
  BY Typed DEF RingInv, TypeOK
<1>2. /\ nodes' = nodes \ {n} /\ sortedHashes' = Remaining(n)
      /\ hashKey' = hashKey /\ replicationFactor' = replicationFactor
  BY DEF Remove
<1> SUFFICES ASSUME ~ disturbed', NEW p \in Position
             PROVE  Count(sortedHashes', p) = Cardinality(Hashed(nodes, p)')
  BY ListExactIsNext DEF Count, Occurs
<1>3. /\ ~ disturbed /\ ~ (replicationFactor > 1)
      /\ \A m \in nodes \ {n} : ~ Collide(m, n)
  BY DEF Remove
<1>4. replicationFactor = 1
  BY <1>1, <1>3, RingAssumption DEF TypeOK, Factor
<1> DEFINE h == hashKey[<<n, 0>>]
<1>5. \A m \in Node : Range(HashesOf(m)) = {hashKey[<<m, 0>>]} /\ hashKey[<<m, 0>>] \in Position
  <2> TAKE m \in Node
  <2>1. HashesOf(m)[1] = hashKey[<<m, 0>>]
    BY <1>4 DEF HashesOf
  <2> QED
    BY <1>1, <1>4, <2>1, HashesOK
<1>6. Remaining(n) = Without(sortedHashes, h)
  <2> DEFINE seqs == [i \in 1 .. replicationFactor |-> Without(sortedHashes, HashesOf(n)[i])]
  <2>1. HashesOf(n)[1] = h
    BY <1>4 DEF HashesOf
  <2>2. \A i \in 1 .. replicationFactor : seqs[i] = Without(sortedHashes, h) /\ i = 1
    BY <1>4, <2>1
  <2>3. Without(sortedHashes, h) \in Seq(Position)
    BY <1>1, <1>5, WithoutOK
  <2>4. seqs \in [1 .. 1 -> Seq(Position)] /\ seqs[1] = Without(sortedHashes, h)
    BY <1>4, <2>2, <2>3
  <2>5. Remaining(n) = Seqs!FlattenSeq(seqs)
    BY DEF Remaining
  <2> HIDE DEF seqs
  <2>6. Seqs!FlattenSeq(seqs) = seqs[1]
    BY <2>4, FlattenOK
  <2> QED
    BY <2>4, <2>5, <2>6
<1>7. Count(sortedHashes', p) = IF p = h THEN 0 ELSE Count(sortedHashes, p)
  BY <1>1, <1>2, <1>5, <1>6, WithoutCount
<1>8. Count(sortedHashes, p) = Cardinality(Hashed(nodes, p))
  BY <1>3, ListExactIs
<1>9. Hashed(nodes, p)' = {v \in (nodes \ {n}) \X {0} : hashKey[v] = p}
  <2>1. 0 .. replicationFactor - 1 = {0}
    BY <1>4
  <2> QED
    BY <1>2, <2>1 DEF Hashed
<1>10. Hashed(nodes, p) = {v \in nodes \X {0} : hashKey[v] = p}
  <2>1. 0 .. replicationFactor - 1 = {0}
    BY <1>4
  <2> QED
    BY <2>1 DEF Hashed
<1>11. CASE p = h
  <2>1. \A m \in nodes \ {n} : hashKey[<<m, 0>>] # h
    BY <1>1, <1>3, <1>5 DEF Collide
  <2>2. Hashed(nodes, p)' = {}
    BY <1>9, <1>11, <2>1
  <2>3. Cardinality({}) = 0
    BY FS_EmptySet
  <2> QED
    BY <1>7, <1>11, <2>2, <2>3
<1>12. CASE p # h
  <2>1. Hashed(nodes, p)' = Hashed(nodes, p)
    BY <1>9, <1>10, <1>12
  <2> QED
    BY <1>7, <1>8, <1>12, <2>1
<1> QED
  BY <1>11, <1>12

LEMMA RebalanceExact == ASSUME RingInv, Rebalance PROVE ListExact'
<1>1. RingTyped /\ nodes \in SUBSET Node
  BY Typed DEF RingInv, TypeOK
<1> DEFINE k == Cardinality(nodes)
           list == Seqs!SetToSeq(nodes)
           seqs == [i \in 1 .. k |-> HashesOf(list[i])]
           s == Seqs!FlattenSeq(seqs)
<1>2. /\ nodes' = nodes /\ sortedHashes' = Sorted(s)
      /\ hashKey' = hashKey /\ replicationFactor' = replicationFactor
  BY DEF Rebalance
<1>3. k \in Nat
  BY <1>1, FiniteNodes
<1>4. /\ list \in [1 .. k -> nodes] /\ \A n \in nodes : \E i \in 1 .. k : list[i] = n
      /\ \A i, j \in 1 .. k : i # j => list[i] # list[j]
  BY <1>1, ListOK
<1> HIDE DEF k, list
<1>5. \A i \in 1 .. k : list[i] \in Node
  BY <1>1, <1>4
<1>6. seqs \in [1 .. k -> Seq(Position)] /\ \A i \in 1 .. k : seqs[i] = HashesOf(list[i])
  BY <1>1, <1>5, HashesOK
<1> HIDE DEF seqs
<1> SUFFICES ASSUME NEW p \in Position
             PROVE  Count(sortedHashes', p) = Cardinality(Hashed(nodes, p)')
  BY ListExactIsNext DEF Count, Occurs
<1> DEFINE part == [i \in 1 .. k |-> Hashed({list[i]}, p)]
<1>7. ASSUME NEW i \in 1 .. k
      PROVE  /\ IsFiniteSet(part[i])
             /\ Count(seqs[i], p) = Cardinality(part[i])
             /\ \A j \in 1 .. k, v \in part[i] : i # j => v \notin part[j]
  <2>1. list[i] \in Node /\ {list[i]} \in SUBSET Node /\ part[i] = Hashed({list[i]}, p)
    BY <1>5
  <2>2. IsFiniteSet(part[i]) /\ Count(seqs[i], p) = Cardinality(part[i])
    BY <1>1, <1>6, <2>1, HashedFinite, HashesCount
  <2>3. ASSUME NEW j \in 1 .. k, NEW v \in part[i], i # j PROVE v \notin part[j]
    BY <1>4, <2>3 DEF Hashed
  <2> QED
    BY <2>2, <2>3
<1>8. UNION {part[i] : i \in 1 .. k} = Hashed(nodes, p)
  <2>1. ASSUME NEW v \in Hashed(nodes, p) PROVE \E i \in 1 .. k : v \in part[i]
    <3>1. PICK n \in nodes, j \in 0 .. replicationFactor - 1 : v = <<n, j>> /\ hashKey[v] = p
      BY DEF Hashed
    <3>2. PICK i \in 1 .. k : list[i] = n
      BY <1>4
    <3> QED
      BY <3>1, <3>2 DEF Hashed
  <2>2. ASSUME NEW i \in 1 .. k, NEW v \in part[i] PROVE v \in Hashed(nodes, p)
    BY <1>4 DEF Hashed
  <2> HIDE DEF part
  <2> QED
    BY <2>1, <2>2
<1> HIDE DEF part
<1>9. Count(s, p) = Cardinality(Hashed(nodes, p))
  <2>1. CountedBy(part, seqs, k, p)
    BY <1>7 DEF CountedBy
  <2>2. seqs \in [1 .. k -> Seq(Position)]
    BY <1>6
  <2>3. Count(Seqs!FlattenSeq(seqs), p) = Cardinality(UNION {part[i] : i \in 1 .. k})
    BY <1>3, <2>1, <2>2, FlattenCount
  <2> QED
    BY <1>8, <2>3
<1>10. s \in Seq(Position)
  BY <1>3, <1>6, FlattenOK
<1> HIDE DEF s
<1>11. Count(sortedHashes', p) = Count(s, p)
  BY <1>2, <1>10, SortedCount
<1>12. Hashed(nodes, p)' = Hashed(nodes, p)
  BY <1>2 DEF Hashed
<1> QED
  BY <1>9, <1>11, <1>12

LEMMA ExactStep == RingInv /\ ListExact /\ [Next]_vars => ListExact'
<1> SUFFICES ASSUME RingInv, ListExact, [Next]_vars PROVE ListExact'
  OBVIOUS
<1>1. ASSUME NEW r \in 0 .. MaxFactor, SetFactor(r) PROVE ListExact'
  BY <1>1 DEF SetFactor, ListExact
<1>2. CASE UNCHANGED vars
  BY <1>2 DEF vars, ListExact, Occurs
<1> QED
  BY <1>1, <1>2, AddExact, RemoveExact, RebalanceExact DEF Next

-----------------------------------------------------------------------------
(* Theorems *)

(* The list has hashes only and the ring nodes only, and the replication    *)
(* factor is never below 1, for every hash function and any number of nodes *)
(* and virtual nodes (consistent.go 11-32, 179-182).                        *)
THEOREM RingTypes == Spec => []TypeOK
BY RingAlways, PTL DEF RingInv

(* Unless a changed replication factor waits for its Rebalance, no position *)
(* of the ring belongs to a node that is not one of the ring's nodes, for   *)
(* every hash function, however nodes come, go and collide.                 *)
THEOREM RingStaysSound == Spec => []RingSound
BY RingAlways, PTL DEF RingInv

(* Whatever Remove has done to the list, every entry of the ring is in it,  *)
(* so that Get never indexes an empty list (consistent.go 97-114).          *)
THEOREM RingStaysListed == Spec => []RingListed
BY RingAlways, PTL DEF RingInv

(* While the list is undisturbed, it has each hash exactly as often as the  *)
(* nodes have virtual nodes with it, for every hash function: Add and       *)
(* Rebalance list each virtual node once, and Remove, with one virtual node *)
(* per node and no collision, takes out that one (consistent.go 35-90,      *)
(* 149-176).                                                                *)
THEOREM ListStaysExact == Spec => []ListExact
BY RingAlways, InitExact, ExactStep, PTL DEF Spec

(* Get never answers a node that has been removed, even when the list it    *)
(* searches is out of order and full of removed hashes (consistent.go       *)
(* 92-115).                                                                 *)
THEOREM GetStaysInRing == Spec => []GetNeverStrays
BY RingAlways, RingInvNeverStrays, PTL

(* Until a Remove disturbs the list, and again after a Rebalance, the       *)
(* binary search of Get ends at the next hash clockwise, and Get answers a  *)
(* node that has it (consistent.go 92-115).                                 *)
THEOREM GetFindsSuccessor == Spec => []GetIsSuccessor
BY RingAlways, RingInvSuccessor, PTL

(* The same as a distance: the node that Get answers is nearest (consistent *)
(* .go 92-115).                                                             *)
THEOREM GetFindsNearest == Spec => []GetIsNearest
BY RingAlways, RingInvNearest, PTL

(* While the list is undisturbed and no two nodes collide, each step of the *)
(* ring is one of RingSpec: Add moves keys to the new node only, Remove the *)
(* keys of the removed node only, Rebalance none (consistent.go 35-90,      *)
(* 149-176).                                                                *)
THEOREM RingConsistent == Spec => ConsistentWhileUndisturbed
<1>1. RingInv /\ RingInv' /\ [Next]_vars =>
        [~ disturbed /\ ~ disturbed' /\ NoCollisions =>
           [Abstract!Next]_<<nodes, owner>>]_vars
  BY UndisturbedStep
<1> QED
  BY <1>1, RingAlways, PTL DEF Spec, ConsistentWhileUndisturbed

(* A ring that is never disturbed and has no collisions implements          *)
(* RingSpec: one that only grows does, and one whose nodes have a single    *)
(* virtual node each and whose replication factor is not changed.           *)
THEOREM RingIsSpec == Spec /\ [](~ disturbed /\ NoCollisions) => Abstract!Spec
<1>1. /\ [~ disturbed /\ ~ disturbed' /\ NoCollisions => [Abstract!Next]_<<nodes, owner>>]_vars
      /\ ~ disturbed /\ NoCollisions
      /\ (~ disturbed /\ NoCollisions)'
      /\ [Next]_vars
      => [Abstract!Next]_<<nodes, owner>>
  BY DEF vars, owner, Get
<1>2. Abstract!Spec <=> Abstract!Init /\ [][Abstract!Next]_<<nodes, owner>>
  BY DEF Abstract!Spec, Abstract!ringVars
<1> QED
  BY <1>1, <1>2, RingConsistent, RingInitAbstract, PTL DEF Spec, ConsistentWhileUndisturbed

(* Until the replication factor changes, each step of the ring is one that  *)
(* Cluster takes a HashRing to make, whatever becomes of the list           *)
(* (consistent.go 35-115, 149-176).                                         *)
THEOREM RoutesKept == Spec => RoutesWhileFactorKept
<1>1. RingInv /\ RingInv' /\ [Next]_vars =>
        [~ pending /\ ~ pending' => [Routed!Next]_<<nodes, away, owner, ~ disturbed>>]_vars
  BY FactorKeptStep
<1> QED
  BY <1>1, RingAlways, PTL DEF Spec, RoutesWhileFactorKept

(* A ring whose replication factor is never changed, like that of a master, *)
(* which only calls Add, Remove and Get (cmd/master/main.go 534, 685, 775,  *)
(* 1052, 1171), implements RouteSpec; no assumption about collisions or the *)
(* number of virtual nodes is needed.                                       *)
THEOREM RingRoutes == Spec /\ [](~ pending) => Routed!Spec
<1>1. /\ [~ pending /\ ~ pending' => [Routed!Next]_<<nodes, away, owner, ~ disturbed>>]_vars
      /\ ~ pending /\ ~ pending'
      /\ [Next]_vars
      => [Routed!Next]_<<nodes, away, owner, ~ disturbed>>
  <2>1. UNCHANGED vars => UNCHANGED <<nodes, away, owner, ~ disturbed>>
    BY DEF vars, owner, Get, away, HashesOf
  <2> QED
    BY <2>1
<1>2. Routed!Spec <=> Routed!Init /\ [][Routed!Next]_<<nodes, away, owner, ~ disturbed>>
  BY DEF Routed!Spec, Routed!routeVars
<1> QED
  BY <1>1, <1>2, RoutesKept, RingInitRoutes, PTL DEF Spec, RoutesWhileFactorKept

=============================================================================
