-------------------------- MODULE MCBackupRestore --------------------------
(* One node with few entries and backups.  Keys, values and workers are     *)
(* only compared for equality, so any permutation of them is a symmetry.    *)
EXTENDS BackupRestore, TLC

CONSTANTS k1, k2, v1, v2, w1, w2, main_, absent

OneKey == {k1}
TwoKeys == {k1, k2}
OneValue == {v1}
TwoValues == {v1, v2}
OneWorker == {w1}
TwoWorkers == {w1, w2}

Symmetry == Permutations(Key) \cup Permutations(Value) \cup Permutations(Worker)

=============================================================================
