\* Every step mode with chunked prefill: three requests in a pool of four blocks; the
\* token budget leaves room for a part of a chunk only.
SPECIFICATION Spec
CONSTANTS
  t1 = t1
  t2 = t2
  r1 = r1
  r2 = r2
  r3 = r3
  Requests = {r1, r2, r3}
  Token = {t1, t2}
  BlockSize = 2
  NumKvBlocks = 4
  EnablePrefixCaching = TRUE
  NumCpuBlocks = 0
  MaxNumSeqs = 2
  MaxNumBatchedTokens = 3
  ChunkPrefillTokens = 2
  MaxModelLen = 4
  KvSwapEnabled = FALSE
  KvSwapMinTokens = 0
  MaxTokens = 3
  Eos = {}
  StepModes = {"separate", "combined", "unified"}
  OomAllowed = FALSE
  Prompts <- MCModesPrompts
SYMMETRY RequestSymmetry
INVARIANTS
  TypeOK
  ReadsOwnPrefix
  IndexHoldsPrefix
  WritesArePrivate
  OneQueue
  BatchWithinLimits
  HoldersFirst
  PickledWhole
PROPERTIES
  KeepsBlockProtocol
\* The engine stops when every request has ended.
CHECK_DEADLOCK FALSE
