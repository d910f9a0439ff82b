\* A preempted request in front of a partly prefilled one.
SPECIFICATION Spec
CONSTANTS
  t1 = t1
  t2 = t2
  r1 = r1
  r2 = r2
  r3 = r3
  Requests = {r1, r2}
  Token = {t1, t2}
  BlockSize = 2
  NumKvBlocks = 4
  EnablePrefixCaching = TRUE
  NumCpuBlocks = 0
  MaxNumSeqs = 2
  MaxNumBatchedTokens = 4
  ChunkPrefillTokens = 1
  MaxModelLen = 4
  KvSwapEnabled = FALSE
  KvSwapMinTokens = 0
  MaxTokens = 3
  Eos = {}
  StepModes = {"combined"}
  OomAllowed = FALSE
  Prompts <- MCPrompts
PROPERTIES
  Served
\* The engine stops when every request has ended.
CHECK_DEADLOCK FALSE
