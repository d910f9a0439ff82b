\* Two requests, three blocks of two tokens, prompts of one to three blocks.
SPECIFICATION Spec
CONSTANTS
  t1 = t1
  t2 = t2
  r1 = r1
  r2 = r2
  r3 = r3
  Requests = {r1, r2}
  Token = {t1, t2}
  BlockSize = 2
  NumKvBlocks = 3
  EnablePrefixCaching = TRUE
  Prompts <- MCPrompts
  MaxTokens = 5
SYMMETRY RequestSymmetry
INVARIANTS
  TypeOK
  FreeUsedAgree
  RefCountExact
  IndexNotStale
  PrefixSound
  WritesArePrivate
  AllocateNeverFails
  MirrorInSync
  IInv
\* A client may stop when every request has ended.
CHECK_DEADLOCK FALSE
