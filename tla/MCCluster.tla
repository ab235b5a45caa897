----------------------------- MODULE MCCluster -----------------------------
(* Small clusters of one key, which its URL says as it is: other keys are   *)
(* left to the proof.  n1 is the node next to it.                           *)
EXTENDS Cluster, TLC

CONSTANTS m1, m2, n1, n2, k1, v1, c1, c2, absent, read_, nobody_

TwoMasters == {m1, m2}
OneNode == {n1}
TwoNodes == {n1, n2}
OneKey == {k1}
OneValue == {v1}
OneRequest == {c1}
TwoRequests == {c1, c2}

FirstIsNearest == [k \in Key |-> [n \in Node |-> IF n = n1 THEN 0 ELSE 1]]
AsItIs == [k \in Key |-> k]

Symmetry == Permutations(Master) \cup Permutations(Request)

=============================================================================
