SPECIFICATION Spec
CONSTANTS
  k1 = k1  k2 = k2  k3 = k3
  v1 = v1  v2 = v2
  t1 = t1  t2 = t2
  absent = absent
  Absent = absent
  Key <- ThreeKeys
  Value <- OneValue
  Thread <- TwoThreads
  Capacity = 2
  MaxNodes = 5
SYMMETRY Symmetry
INVARIANTS CapacityHeld
