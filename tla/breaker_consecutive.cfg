SPECIFICATION FairService
CONSTANTS
  Requests = {r1, r2, r3}
  MaxBatchSize = 2
  MaxQueueSize = 2
  MaxStops = 2
  Threshold = 2
CHECK_DEADLOCK FALSE
PROPERTY OpensConsecutive
