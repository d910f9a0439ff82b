SPECIFICATION Spec
CONSTANTS
  BlockSize = 2
  DefaultBlockSize = 2
  Configs <- MCConfigs
  Requests <- MCShortRequests
  Text <- MCShortText
  PromptLength <- MCShortPromptLength
  MemoryReadings <- MCMemoryReadings
  MaxNumSeqs = 3
  MaxBatchedTokens = 3
  MaxModelLen = 3
  SmallBatches = {1, 2}
  BatchStride = 4
  MaxGraphBatch = 8
INVARIANTS EveryDecodeReplays
CHECK_DEADLOCK FALSE
