SPECIFICATION FairSpec
CONSTANTS
  n1 = n1
  i1 = i1  i2 = i2  i3 = i3
  h1 = h1  h2 = h2
  none_ = none_  nil_ = nil_
  none = none_
  nil = nil_
  NodeId <- OneNode
  Info <- TwoInfos
  Handler <- TwoHandlers
  MaxChecks = 1
  MaxDue = 1
INVARIANTS TypeOK RegistryMatchesRing GaugeForRegistered RebalanceFollowsChange
PROPERTIES CrashDetected
