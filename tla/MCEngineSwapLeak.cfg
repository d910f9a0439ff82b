\* A swapped-out request is admitted again by recomputation: chunked prefill, prefix
\* caching and swap together.
SPECIFICATION Spec
CONSTANTS
  t1 = t1
  t2 = t2
  r1 = r1
  r2 = r2
  r3 = r3
  Requests = {r1, r2}
  Token = {t1, t2}
  BlockSize = 2
  NumKvBlocks = 3
  EnablePrefixCaching = TRUE
  NumCpuBlocks = 3
  MaxNumSeqs = 2
  MaxNumBatchedTokens = 4
  ChunkPrefillTokens = 2
  MaxModelLen = 4
  KvSwapEnabled = TRUE
  KvSwapMinTokens = 0
  MaxTokens = 3
  Eos = {t2}
  StepModes = {"separate"}
  OomAllowed = FALSE
  Prompts <- MCSwapPrompts
SYMMETRY RequestSymmetry
INVARIANTS
  NoLeak
\* The engine stops when every request has ended.
CHECK_DEADLOCK FALSE
