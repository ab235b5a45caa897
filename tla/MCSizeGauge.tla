---------------------------- MODULE MCSizeGauge ----------------------------
(* A cache of two entries, three keys and three goroutines: two updates may *)
(* publish in the wrong order while a third runs through.  Goroutines and   *)
(* keys are only compared for equality.                                     *)
EXTENDS SizeGauge, TLC

CONSTANTS k1, k2, k3, w1, w2, w3

ThreeKeys == {k1, k2, k3}
ThreeWorkers == {w1, w2, w3}

Symmetry == Permutations(Key) \cup Permutations(Worker)

=============================================================================
