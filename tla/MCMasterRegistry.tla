-------------------------- MODULE MCMasterRegistry --------------------------
(* Small registries of one node; the proofs are about any number of them.  *)
EXTENDS MasterRegistry

CONSTANTS n1, i1, i2, i3, h1, h2, none_, nil_

OneNode == {n1}
TwoInfos == {i1, i2}
ThreeInfos == {i1, i2, i3}
TwoHandlers == {h1, h2}

=============================================================================
