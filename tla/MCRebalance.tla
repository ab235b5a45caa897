---------------------------- MODULE MCRebalance ----------------------------
(* Two nodes that rebalance; the proofs are about any number of them. *)
EXTENDS Rebalance

CONSTANTS n1, n2, k1, k2, v1, absent

TwoNodes == {n1, n2}
OneKey == {k1}
TwoKeys == {k1, k2}
OneValue == {v1}

(* Who owns a key only decides where clients write it: let one node own all. *)
OneOwner == \A k \in Key : owner[k] = n1

=============================================================================
