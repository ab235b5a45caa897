SPECIFICATION Spec
CONSTANTS
  k1 = k1  k2 = k2  k3 = k3
  w1 = w1  w2 = w2  w3 = w3
  Key <- ThreeKeys
  Worker <- ThreeWorkers
  Capacity = 2
SYMMETRY Symmetry
INVARIANTS TypeOK GaugeAtRest GaugeNotAhead
