----------------------------- MODULE MCLRUCache -----------------------------
(* Small instances of LRUCache.  Keys, values and threads are only compared *)
(* for equality, so any permutation of them is a symmetry.                  *)
EXTENDS LRUCache, TLC

CONSTANTS k1, k2, k3, v1, v2, t1, t2, absent

TwoKeys == {k1, k2}
ThreeKeys == {k1, k2, k3}
OneValue == {v1}
TwoValues == {v1, v2}
OneThread == {t1}
TwoThreads == {t1, t2}

Symmetry == Permutations(Key) \cup Permutations(Value) \cup Permutations(Thread)

=============================================================================
