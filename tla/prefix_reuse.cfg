SPECIFICATION EngineSpec
CONSTANTS
  Seqs <- MCSeqs
  Tokens = {1, 2}
  NumBlocks = 3
  BlockSize = 2
  SeqBlockSize = 2
  Prompts <- MCPrompts
  MaxNumSeqs = 2
  MaxBatchedTokens = 4
  MaxTokens = 3
  IgnoreEos = {2}
  Eos = 2
INVARIANT PrefixReuse
