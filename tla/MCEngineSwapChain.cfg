\* Prefix caching goes on after a swap-in.
SPECIFICATION Spec
CONSTANTS
  t1 = t1
  t2 = t2
  r1 = r1
  r2 = r2
  r3 = r3
  Requests = {r1, r2, r3}
  Token = {t1, t2}
  BlockSize = 2
  NumKvBlocks = 4
  EnablePrefixCaching = TRUE
  NumCpuBlocks = 3
  MaxNumSeqs = 2
  MaxNumBatchedTokens = 4
  ChunkPrefillTokens = 0
  MaxModelLen = 4
  KvSwapEnabled = TRUE
  KvSwapMinTokens = 0
  MaxTokens = 3
  Eos = {}
  StepModes = {"separate"}
  OomAllowed = FALSE
  Prompts <- MCPrompts
SYMMETRY RequestSymmetry
INVARIANTS
  IndexHoldsPrefix
\* The engine stops when every request has ended.
CHECK_DEADLOCK FALSE
