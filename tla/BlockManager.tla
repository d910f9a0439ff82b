---------------------------- MODULE BlockManager ----------------------------
(***************************************************************************)
(* nanovllm/engine/block_manager.py: the pool of GPU KV-cache blocks, its  *)
(* prefix cache and its eviction order.                                    *)
(*                                                                         *)
(* The engine is one thread, so a call of the block manager runs to its    *)
(* end before anything else happens.  A call that loops over blocks is     *)
(* modelled by the variable call and one step per iteration; users of this *)
(* module take no other step while call.op # "none".                       *)
(*                                                                         *)
(* A chained hash is represented by what it is the hash of, the tokens of  *)
(* the chain: the hash function is taken to be injective.  The value -1 of *)
(* a block that has no hash is the empty chain.  Block.token_ids is then   *)
(* the last BlockSize tokens of the chain.                                 *)
(***************************************************************************)
EXTENDS Request

CONSTANTS
  NumKvBlocks,          \* num_blocks
  EnablePrefixCaching   \* enable_prefix_caching

ASSUME PoolAssumption ==
  /\ NumKvBlocks \in Nat \ {0}
  /\ EnablePrefixCaching \in BOOLEAN

VARIABLES
  freeList,        \* the LRU list of free blocks, first to be evicted first
  used,            \* used_block_ids
  refCount,        \* Block.ref_count
  blockHash,       \* Block.hash, a chain of tokens
  hashToBlock,     \* hash_to_block_id: the prefix-cache index
  reqToBlockIds,   \* req_to_block_ids; <<>> where the dict has no entry
  call             \* the looping call in progress

poolVars == <<freeList, used, refCount>>
cacheVars == <<blockHash, hashToBlock>>
bmVars == <<poolVars, cacheVars, reqToBlockIds, call>>

Blocks == 0 .. NumKvBlocks - 1
NoHash == << >>
NoCall == [op |-> "none"]
Idle == call = NoCall

InFree(b) == \E i \in 1 .. Len(freeList) : freeList[i] = b
FreeCount == Len(freeList)
PoolCapacity == FreeCount + Cardinality(used)

BlockManagerInit ==
  /\ freeList = [i \in 1 .. NumKvBlocks |-> i - 1]
  /\ used = {}
  /\ refCount = [b \in Blocks |-> 0]
  /\ blockHash = [b \in Blocks |-> NoHash]
  /\ hashToBlock = [h \in {} |-> 0]
  /\ reqToBlockIds = [r \in Requests |-> << >>]
  /\ call = NoCall

(***************************************************************************)
(* The free list: a cache hit splices a block out of the middle.           *)
(***************************************************************************)
\* Bug: a cache hit leaves the block on the free list.
LruRemoveForgotten(b) == UNCHANGED freeList

LruRemove(b) ==
  LET k == CHOOSE i \in 1 .. Len(freeList) : freeList[i] = b
  IN  freeList' = SubSeq(freeList, 1, k - 1) \o SubSeq(freeList, k + 1, Len(freeList))

\* Bug: the entry of an evicted block stays in the index.
IndexKept(h) == hashToBlock

IndexWithout(h) == [x \in DOMAIN hashToBlock \ {h} |-> hashToBlock[x]]

\* Bug: a block handed out fresh has no reference.
AllocateBlockUncounted(b) ==
  /\ freeList # << >>
  /\ b = Head(freeList)
  /\ freeList' = Tail(freeList)
  /\ used' = used \cup {b}
  /\ refCount' = [refCount EXCEPT ![b] = 0]
  /\ blockHash' = [blockHash EXCEPT ![b] = NoHash]
  /\ hashToBlock' = IndexWithout(blockHash[b])

\* _allocate_block: evict the least recently freed block b and forget what it cached.
AllocateBlock(b) ==
  /\ freeList # << >>
  /\ b = Head(freeList)
  /\ freeList' = Tail(freeList)
  /\ used' = used \cup {b}
  /\ refCount' = [refCount EXCEPT ![b] = 1]
  /\ blockHash' = [blockHash EXCEPT ![b] = NoHash]
  /\ hashToBlock' = IndexWithout(blockHash[b])

(***************************************************************************)
(* can_allocate.  CanAllocate(r, n) holds when the call returns n; when it *)
(* holds for no n the call returns -1.  The last block of a request is     *)
(* never looked up: at least one token has to be computed.                 *)
(***************************************************************************)
CachedTokens(b) ==
  IF blockHash[b] = NoHash THEN << >>
  ELSE SubSeq(blockHash[b], Len(blockHash[b]) - BlockSize + 1, Len(blockHash[b]))

IsHit(r, i) ==
  /\ Chain(r, i) \in DOMAIN hashToBlock
  /\ CachedTokens(hashToBlock[Chain(r, i)]) = TokenBlock(r, i)

CachedBlocks(r, n) ==
  IF EnablePrefixCaching
  THEN /\ \A i \in 1 .. n : IsHit(r, i)
       /\ n + 1 <= NumBlocks(r) - 1 => ~IsHit(r, n + 1)
  ELSE n = 0

\* Bug: a hit on a free block is taken to cost nothing, like one on a used block.
NewBlocksAllHits(r, n) == NumBlocks(r) - n

\* Hits on blocks some request is using cost nothing; a hit on a free block
\* takes that block off the free list like a new one.
NewBlocks(r, n) ==
  NumBlocks(r) - Cardinality({i \in 1 .. n : hashToBlock[Chain(r, i)] \in used})

CanAllocate(r, n) ==
  /\ n \in 0 .. NumBlocks(r) - 1
  /\ CachedBlocks(r, n)
  /\ FreeCount >= NewBlocks(r, n)

(***************************************************************************)
(* allocate(seq, num_cached_blocks) and allocate_fresh_blocks(n): a call   *)
(* that first takes the cached blocks, then evicts for the rest.           *)
(***************************************************************************)
CallAllocate(r, hits, target, cached) ==
  /\ Idle
  /\ call' = [op |-> "allocate", seq |-> r, hits |-> hits, target |-> target, cached |-> cached]

Allocate(r, n) ==
  /\ blockTable[r] = << >>
  /\ CallAllocate(r, n, NumBlocks(r), n * BlockSize)
  /\ UNCHANGED blockTable

\* The caller makes the new blocks the whole table, and cached its computed tokens.
AllocateFreshBlocks(r, n, cached) ==
  /\ CallAllocate(r, 0, n, cached)
  /\ blockTable' = [blockTable EXCEPT ![r] = << >>]

NextIndex(r) == Len(blockTable[r]) + 1

TakeCached ==
  /\ call.op = "allocate"
  /\ LET r == call.seq
         b == hashToBlock[Chain(r, NextIndex(r))]
     IN  /\ NextIndex(r) <= call.hits
         /\ refCount' = [refCount EXCEPT ![b] = @ + 1]
         /\ blockTable' = [blockTable EXCEPT ![r] = Append(@, b)]
         /\ IF InFree(b)
            THEN LruRemove(b) /\ used' = used \cup {b}
            ELSE UNCHANGED <<freeList, used>>
  /\ UNCHANGED <<cacheVars, reqToBlockIds, call, numCached>>

TakeFresh ==
  /\ call.op = "allocate"
  /\ LET r == call.seq
     IN  /\ NextIndex(r) > call.hits
         /\ NextIndex(r) <= call.target
         /\ AllocateBlock(Head(freeList))
         /\ blockTable' = [blockTable EXCEPT ![r] = Append(@, Head(freeList))]
  /\ UNCHANGED <<reqToBlockIds, call, numCached>>

AllocateReturn ==
  /\ call.op = "allocate"
  /\ Len(blockTable[call.seq]) = call.target
  /\ numCached' = [numCached EXCEPT ![call.seq] = call.cached]
  /\ reqToBlockIds' = [reqToBlockIds EXCEPT ![call.seq] = blockTable[call.seq]]
  /\ call' = NoCall
  /\ UNCHANGED <<poolVars, cacheVars, blockTable>>

(***************************************************************************)
(* deallocate(seq): release the blocks from the last one to the first, so  *)
(* that the tail of a prefix is evicted before its beginning.  The table   *)
(* itself shows how far the loop has got.                                  *)
(***************************************************************************)
Deallocate(r) ==
  /\ Idle
  /\ call' = [op |-> "deallocate", seq |-> r]

ReleaseBlock ==
  /\ call.op = "deallocate"
  /\ blockTable[call.seq] # << >>
  /\ LET r == call.seq
         n == Len(blockTable[r])
         b == blockTable[r][n]
     IN  /\ refCount' = [refCount EXCEPT ![b] = @ - 1]
         /\ blockTable' = [blockTable EXCEPT ![r] = SubSeq(@, 1, n - 1)]
         /\ IF refCount[b] = 1
            THEN /\ used' = used \ {b}
                 /\ freeList' = Append(freeList, b)
            ELSE UNCHANGED <<freeList, used>>
  /\ UNCHANGED <<cacheVars, reqToBlockIds, call, numCached>>

DeallocateReturn ==
  /\ call.op = "deallocate"
  /\ blockTable[call.seq] = << >>
  /\ numCached' = [numCached EXCEPT ![call.seq] = 0]
  /\ reqToBlockIds' = [reqToBlockIds EXCEPT ![call.seq] = << >>]
  /\ call' = NoCall
  /\ UNCHANGED <<poolVars, cacheVars, blockTable>>

\* The steps of the call in progress; they leave tokens and schedule alone.
CallStep ==
  /\ \/ TakeCached
     \/ TakeFresh
     \/ AllocateReturn
     \/ ReleaseBlock
     \/ DeallocateReturn
  /\ UNCHANGED <<tokenIds, numScheduled>>

(***************************************************************************)
(* A decoding request needs one more block when its newest token is the    *)
(* first of a block.                                                       *)
(***************************************************************************)
\* Bug: the block is asked for one token late.
NeedsBlockLate(r) == NumTokens(r) % BlockSize = 0

NeedsBlock(r) == NumTokens(r) % BlockSize = 1

CanAppend(r) == NeedsBlock(r) => FreeCount >= 1

\* Bug: the mirror is not brought up to date.
MayAppendUntracked(r) ==
  IF NeedsBlock(r)
  THEN /\ AllocateBlock(Head(freeList))
       /\ blockTable' = [blockTable EXCEPT ![r] = Append(@, Head(freeList))]
       /\ UNCHANGED reqToBlockIds
  ELSE UNCHANGED <<poolVars, cacheVars, blockTable, reqToBlockIds>>

MayAppend(r) ==
  IF NeedsBlock(r)
  THEN /\ AllocateBlock(Head(freeList))
       /\ blockTable' = [blockTable EXCEPT ![r] = Append(@, Head(freeList))]
       /\ reqToBlockIds' = [reqToBlockIds EXCEPT ![r] = blockTable'[r]]
  ELSE UNCHANGED <<poolVars, cacheVars, blockTable, reqToBlockIds>>

(***************************************************************************)
(* hash_blocks(seq): index the blocks the last forward pass has filled.    *)
(* The chain of the first of them goes on from the hash of the block       *)
(* before it.                                                              *)
(***************************************************************************)
FirstToHash(r) == numCached[r] \div BlockSize + 1

\* Bug: full blocks of tokens are indexed before their KV is computed.
LastToHashAll(r) == NumTokens(r) \div BlockSize

LastToHash(r) == (numCached[r] + numScheduled[r]) \div BlockSize

\* Bug: the chain starts anew in every pass.
SeedHashDropped(r) == NoHash

SeedHash(r) ==
  IF FirstToHash(r) = 1 THEN NoHash ELSE blockHash[blockTable[r][FirstToHash(r) - 1]]

ExtendedHash(r, i) ==
  SeedHash(r) \o SubSeq(tokenIds[r], (FirstToHash(r) - 1) * BlockSize + 1, i * BlockSize)

HashBlocks(r) ==
  LET filled == IF EnablePrefixCaching THEN FirstToHash(r) .. LastToHash(r) ELSE {}
      new == {ExtendedHash(r, i) : i \in filled}
      At(h) == CHOOSE i \in filled : ExtendedHash(r, i) = h
      Index(b) == CHOOSE i \in filled : blockTable[r][i] = b
  IN  /\ blockHash' = [b \in Blocks |->
           IF \E i \in filled : blockTable[r][i] = b
           THEN ExtendedHash(r, Index(b)) ELSE blockHash[b]]
      /\ hashToBlock' = [h \in DOMAIN hashToBlock \cup new |->
           IF h \in new THEN blockTable[r][At(h)] ELSE hashToBlock[h]]

============================================================================
