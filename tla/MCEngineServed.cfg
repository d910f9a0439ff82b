\* Separate steps, classic prefill, swap to three CPU blocks, no prefix cache; a pool of
\* three blocks that requests may outgrow, and forward passes that may run out of memory.
SPECIFICATION Spec
CONSTANTS
  t1 = t1
  t2 = t2
  r1 = r1
  r2 = r2
  r3 = r3
  Requests = {r1, r2, r3}
  Token = {t1, t2}
  BlockSize = 2
  NumKvBlocks = 3
  EnablePrefixCaching = FALSE
  NumCpuBlocks = 3
  MaxNumSeqs = 2
  MaxNumBatchedTokens = 4
  ChunkPrefillTokens = 0
  MaxModelLen = 7
  KvSwapEnabled = TRUE
  KvSwapMinTokens = 0
  MaxTokens = 3
  Eos = {t2}
  StepModes = {"separate"}
  OomAllowed = TRUE
  Prompts <- MCLongPrompts
INVARIANTS
  NoLeak
  NeverCrashes
  EndedIsReported
  CpuBlocksExclusive
PROPERTIES
  Served
  KeepsPromises
\* The engine stops when every request has ended.
CHECK_DEADLOCK FALSE
