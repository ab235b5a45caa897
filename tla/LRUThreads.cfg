SPECIFICATION Spec
CONSTANTS
  k1 = k1  k2 = k2  k3 = k3
  v1 = v1  v2 = v2
  t1 = t1  t2 = t2
  absent = absent
  Absent = absent
  Key <- ThreeKeys
  Value <- TwoValues
  Thread <- TwoThreads
  Capacity = 2
  MaxNodes = 4
SYMMETRY Symmetry
INVARIANTS TypeOK NodesOwned GetRegular ListIntact SizeBounded
PROPERTIES ImplementsWhileFresh ImplementsMap
