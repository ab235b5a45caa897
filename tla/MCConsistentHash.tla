-------------------------- MODULE MCConsistentHash --------------------------
(* Small rings.  Nodes are only compared for equality and Hashing is closed *)
(* under their permutations, so they are a symmetry.                        *)
EXTENDS ConsistentHash, TLC

CONSTANTS n1, n2, n3

TwoNodes == {n1, n2}
ThreeNodes == {n1, n2, n3}

(* No two virtual nodes have the same hash, and each node's first one has   *)
(* the lower of its two.                                                    *)
DistinctHashes ==
  {f \in [VirtualNode -> Position] :
     IsInjective(f) /\ \A n \in Node : f[<<n, 0>>] < f[<<n, 1>>]}

(* All of them have one of two hashes. *)
CollidingHashes == [VirtualNode -> 0 .. 1]

Hashes == DistinctHashes \cup CollidingHashes

Symmetry == Permutations(Node)

=============================================================================
