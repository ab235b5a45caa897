SPECIFICATION Spec
CONSTANTS
  n1 = n1  n2 = n2  n3 = n3
  none = none
  Node <- TwoNodes
  MaxHash = 4
  MaxFactor = 2
  Default = 2
  Hashing <- DistinctHashes
  MaxLen = 8
INVARIANTS GetFindsNode
