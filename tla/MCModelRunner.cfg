SPECIFICATION Spec
CONSTANTS
  BlockSize = 2
  DefaultBlockSize = 2
  Configs <- MCConfigs
  Requests <- MCRequests
  Text <- MCText
  PromptLength <- MCPromptLength
  MemoryReadings <- MCMemoryReadings
  MaxNumSeqs = 2
  MaxBatchedTokens = 2
  MaxModelLen = 3
  SmallBatches = {2}
  BatchStride = 4
  MaxGraphBatch = 8
INVARIANTS TypeOK AttendsOwnPrefix KvHoldsPrefix LoadedModelIsWhole
PROPERTIES WritesOnlyScheduled
CHECK_DEADLOCK FALSE
