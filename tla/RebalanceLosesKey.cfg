SPECIFICATION Spec
CONSTANTS
  n1 = n1  n2 = n2
  k1 = k1  k2 = k2
  v1 = v1
  absent = absent
  Absent = absent
  Node <- TwoNodes
  Key <- OneKey
  Value <- OneValue
  MaxRuns = 1
  MaxLate = 1
INVARIANTS KeysSurvive
