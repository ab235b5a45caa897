SPECIFICATION Spec
CONSTANTS
  n1 = n1  n2 = n2  n3 = n3
  none = none
  Node <- ThreeNodes
  MaxHash = 5
  MaxFactor = 2
  Default = 2
  Hashing <- Hashes
  MaxLen = 6
SYMMETRY Symmetry
INVARIANTS TypeOK RingSound RingListed GetNeverStrays GetIsSuccessor ListExact
PROPERTIES ConsistentWhileUndisturbed RoutesWhileFactorKept
