SPECIFICATION ReducerSpec
CONSTANTS
  N = 2
  Params <- MCParams
  Buckets <- MCBuckets
  SetOrder <- MCSetOrder
  Programs <- MCAlike
  Configs <- MCConfigs
INVARIANT WritesAverage
