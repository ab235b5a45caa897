SPECIFICATION FairSpec
CONSTANTS
  k1 = k1  k2 = k2
  v1 = v1  v2 = v2
  w1 = w1  w2 = w2
  main_ = main_  absent = absent
  main = main_
  Absent = absent
  Key <- TwoKeys
  Value <- OneValue
  Worker <- OneWorker
  MaxBackups = 3
INVARIANTS TypeOK RestoreRegular
PROPERTIES CalmStopKeepsAll StartRestoresNewest StopEnds
