SPECIFICATION RunnerSpec
CONSTANTS
  Seqs <- MCSeqs
  Tokens = {1, 2}
  NumBlocks = 3
  BlockSize = 2
  SeqBlockSize = 2
  Prompts <- MCPrompts
  MaxNumSeqs = 2
  MaxBatchedTokens = 4
  MaxTokens = 3
  IgnoreEos = {2}
  Eos = 2
  WorldSize = 3
INVARIANTS TypeOK RefCounted Partitioned ArrivalOrder NoLeak Funded AppendAsserts Covered
  SlotMappingComplete SoleWriter CacheHoldsTokens
  CommandsOnce RanksAgree
