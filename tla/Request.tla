------------------------------ MODULE Request ------------------------------
(***************************************************************************)
(* The part of nanovllm/engine/sequence.py that the KV-cache bookkeeping   *)
(* reads: the tokens of a request, the physical blocks that hold its       *)
(* keys and values, and how far its computation has got.                   *)
(*                                                                         *)
(* Block indices are 1-based here and 0-based in the source: the block     *)
(* that the source calls block(i) is TokenBlock(r, i + 1).                 *)
(***************************************************************************)
EXTENDS Integers, Sequences, FiniteSets

CONSTANTS
  Requests,    \* the requests a client may submit
  Token,       \* the vocabulary
  BlockSize    \* tokens in one KV-cache block

\* Config.__post_init__ makes the block size a multiple of 256; all the model
\* needs is that it is more than one, for with blocks of one token the test
\* "len % block_size == 1" of may_append would never hold.
ASSUME BlockSizeAssumption == BlockSize \in Nat /\ BlockSize >= 2

VARIABLES
  tokenIds,      \* token_ids: the prompt, then the tokens sampled so far
  blockTable,    \* block_table: the physical block of every logical block
  numCached,     \* num_cached_tokens: positions whose KV is in the cache
  numScheduled   \* num_scheduled_tokens: positions the next forward computes

NumTokens(r) == Len(tokenIds[r])

\* How many blocks n tokens need.
BlocksFor(n) == (n + BlockSize - 1) \div BlockSize

NumBlocks(r) == BlocksFor(NumTokens(r))

\* The tokens of the i-th block; asked for full blocks only.
TokenBlock(r, i) == SubSeq(tokenIds[r], (i - 1) * BlockSize + 1, i * BlockSize)

\* Bug: the hash of a block covers its own tokens only.
ChainOfOneBlock(r, i) == TokenBlock(r, i)

\* The tokens of the first i blocks: what the chained hash of block i stands for.
Chain(r, i) == SubSeq(tokenIds[r], 1, i * BlockSize)

AppendToken(r, token) == tokenIds' = [tokenIds EXCEPT ![r] = Append(@, token)]

============================================================================
