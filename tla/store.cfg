SPECIFICATION FairTCP
CONSTANTS
  NoValue = NoValue
  k1 = k1
  k2 = k2
  v1 = v1
  v2 = v2
  rank0 = rank0
  rank1 = rank1
  main = main
  helper = helper
  other = other
  Keys = {k1, k2}
  Values = {v1, v2}
  Clients = {rank0, rank1}
  Threads = {main, helper, other}
  ConnOf <- MCConnOf
  MaxCalls = 3
  Offered <- MCOffered
INVARIANT TCPTypeOK
PROPERTIES KeepsPromise StoreCallsEnd
