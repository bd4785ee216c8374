SPECIFICATION FairReducer
CONSTANTS
  N = 3
  Params <- MCParams
  Buckets <- MCBuckets
  SetOrder <- MCSetOrder
  Programs <- MCPrograms
  Configs <- MCConfigs
INVARIANTS ReducerTypeOK CollectivesMatch GradientsAveraged UnsyncedStaysLocal
PROPERTIES GroupPromise TrainingEnds
