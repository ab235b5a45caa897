SPECIFICATION Spec
CONSTANTS
  m1 = m1  m2 = m2
  n1 = n1  n2 = n2
  k1 = k1
  v1 = v1
  c1 = c1  c2 = c2
  absent = absent  read_ = read_  nobody_ = nobody_
  Absent = absent
  read = read_
  nobody = nobody_
  Master <- TwoMasters
  Node <- OneNode
  Key <- OneKey
  Value <- OneValue
  Request <- OneRequest
  Distance <- FirstIsNearest
  PathKey <- AsItIs
  MaxLate = 0
  MaxChanges = 1
INVARIANTS EveryMasterKnows
