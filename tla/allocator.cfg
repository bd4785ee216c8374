SPECIFICATION AllocSpec
CONSTANTS
  Streams = {s1, s2}
  DeviceSize = 3
  Threshold = 3
  Requests = {1, 2, 3}
  GcLimit = 2
  MaxKernels = 1
SYMMETRY Symmetry
INVARIANTS AllocTypeOK Disjoint StatsExact
PROPERTIES NoEarlyReuse OomOnlyWhenExhausted
