\* Prefix sharing lets a request that has outgrown the pool be preempted.
SPECIFICATION Spec
CONSTANTS
  t1 = t1
  t2 = t2
  r1 = r1
  r2 = r2
  r3 = r3
  Requests = {r1, r2}
  Token = {t1, t2}
  BlockSize = 2
  NumKvBlocks = 2
  EnablePrefixCaching = TRUE
  NumCpuBlocks = 0
  MaxNumSeqs = 2
  MaxNumBatchedTokens = 4
  ChunkPrefillTokens = 0
  MaxModelLen = 4
  KvSwapEnabled = FALSE
  KvSwapMinTokens = 0
  MaxTokens = 3
  Eos = {}
  StepModes = {"separate"}
  OomAllowed = FALSE
  Prompts <- MCPrompts
INVARIANTS
  NeverCrashes
\* The engine stops when every request has ended.
CHECK_DEADLOCK FALSE
