---------------------------- MODULE BlockClients ----------------------------
(***************************************************************************)
(* The block manager under any client that keeps the calling protocol of   *)
(* nanovllm/engine/scheduler.py: any request may be admitted, computed in  *)
(* chunks of any size, extended, preempted, aborted or finished, in any    *)
(* order, with none of the scheduler's policy (queues, budgets, victims).  *)
(* What holds here holds under every policy that keeps the protocol, the   *)
(* one in Scheduler.tla included.                                          *)
(***************************************************************************)
EXTENDS BlockManager

CONSTANTS
  Prompts,     \* the prompts a request may have
  MaxTokens    \* bound: no request grows past this many tokens

ASSUME ClientAssumption ==
  /\ Prompts \subseteq Seq(Token) \ {<< >>}
  /\ MaxTokens \in Nat
  /\ IsFiniteSet(Requests)

VARIABLE status   \* Sequence.status

vars == <<tokenIds, blockTable, numCached, numScheduled, bmVars, status>>

Init ==
  /\ tokenIds \in [Requests -> Prompts]
  /\ blockTable = [r \in Requests |-> << >>]
  /\ numCached = [r \in Requests |-> 0]
  /\ numScheduled = [r \in Requests |-> 0]
  /\ status = [r \in Requests |-> "waiting"]
  /\ BlockManagerInit

\* A waiting request gets blocks for all its tokens (prefill loops).
Admit(r) ==
  /\ status[r] = "waiting"
  /\ \E n \in 0 .. NumBlocks(r) - 1 : CanAllocate(r, n) /\ Allocate(r, n)
  /\ UNCHANGED <<tokenIds, numCached, numScheduled, status,
                 poolVars, cacheVars, reqToBlockIds>>

\* A waiting request that has its blocks is given a chunk of its prompt; the
\* chunk that reaches the last token makes it a running request.
ScheduleChunk(r) ==
  /\ Idle
  /\ status[r] = "waiting"
  /\ blockTable[r] # << >>
  /\ numScheduled[r] = 0
  /\ \E k \in 1 .. NumTokens(r) - numCached[r] :
       /\ numScheduled' = [numScheduled EXCEPT ![r] = k]
       /\ status' = IF numCached[r] + k = NumTokens(r)
                    THEN [status EXCEPT ![r] = "running"] ELSE status
  /\ UNCHANGED <<tokenIds, blockTable, numCached, bmVars>>

\* A running request takes a decode turn (_schedule_decode).
ScheduleDecode(r) ==
  /\ Idle
  /\ status[r] = "running"
  /\ numScheduled[r] = 0
  /\ CanAppend(r)
  /\ MayAppend(r)
  /\ numScheduled' = [numScheduled EXCEPT ![r] = 1]
  /\ UNCHANGED <<tokenIds, numCached, call, status>>

\* postprocess for one request: index what was computed, then take the token
\* if no prompt token is left, and perhaps finish.
Commit(r) ==
  /\ HashBlocks(r)
  /\ numCached' = [numCached EXCEPT ![r] = @ + numScheduled[r]]
  /\ numScheduled' = [numScheduled EXCEPT ![r] = 0]

PostprocessChunk(r) ==
  /\ Idle
  /\ numScheduled[r] > 0
  /\ status[r] = "waiting"
  /\ Commit(r)
  /\ UNCHANGED <<tokenIds, blockTable, poolVars, reqToBlockIds, call, status>>

PostprocessToken(r) ==
  /\ Idle
  /\ numScheduled[r] > 0
  /\ status[r] = "running"
  /\ NumTokens(r) < MaxTokens
  /\ Commit(r)
  /\ \E token \in Token : AppendToken(r, token)
  /\ UNCHANGED <<blockTable, poolVars, reqToBlockIds, call, status>>

PostprocessLast(r) ==
  /\ numScheduled[r] > 0
  /\ status[r] = "running"
  /\ Commit(r)
  /\ \E token \in Token : AppendToken(r, token)
  /\ status' = [status EXCEPT ![r] = "finished"]
  /\ Deallocate(r)
  /\ UNCHANGED <<blockTable, poolVars, reqToBlockIds>>

\* preempt: back to waiting, tokens kept, blocks released.
Preempt(r) ==
  /\ status[r] = "running"
  /\ numScheduled[r] = 0
  /\ status' = [status EXCEPT ![r] = "waiting"]
  /\ Deallocate(r)
  /\ UNCHANGED <<tokenIds, blockTable, numCached, numScheduled,
                 poolVars, cacheVars, reqToBlockIds>>

\* abort: of a running request that can get no block, or of any request of a
\* batch whose forward pass ran out of memory.
Abort(r) ==
  /\ status[r] \in {"waiting", "running"}
  /\ blockTable[r] # << >>
  /\ status' = [status EXCEPT ![r] = "finished"]
  /\ Deallocate(r)
  /\ UNCHANGED <<tokenIds, blockTable, numCached, numScheduled,
                 poolVars, cacheVars, reqToBlockIds>>

Next ==
  \/ CallStep /\ UNCHANGED status
  \/ \E r \in Requests :
       \/ Admit(r) \/ ScheduleChunk(r) \/ ScheduleDecode(r)
       \/ PostprocessChunk(r) \/ PostprocessToken(r) \/ PostprocessLast(r)
       \/ Preempt(r) \/ Abort(r)

Spec == Init /\ [][Next]_vars

----------------------------------------------------------------------------
(***************************************************************************)
(* Properties.                                                             *)
(***************************************************************************)

RequestTypeOK ==
  /\ tokenIds \in [Requests -> Seq(Token)]
  /\ blockTable \in [Requests -> Seq(Blocks)]
  /\ numCached \in [Requests -> Nat]
  /\ numScheduled \in [Requests -> Nat]
  /\ status \in [Requests -> {"waiting", "running", "finished"}]
  /\ reqToBlockIds \in [Requests -> Seq(Blocks)]

PoolTypeOK ==
  /\ freeList \in Seq(Blocks)
  /\ used \subseteq Blocks
  /\ refCount \in [Blocks -> Nat]

CacheTypeOK ==
  /\ blockHash \in [Blocks -> Seq(Token)]
  /\ DOMAIN hashToBlock \subseteq Seq(Token)
  /\ hashToBlock \in [DOMAIN hashToBlock -> Blocks]

CallTypeOK ==
  call \in {NoCall}
    \cup [op : {"allocate"}, seq : Requests, hits : Nat, target : Nat, cached : Nat]
    \cup [op : {"deallocate"}, seq : Requests]

TypeOK == RequestTypeOK /\ PoolTypeOK /\ CacheTypeOK /\ CallTypeOK

Holds(r, b) == \E i \in 1 .. Len(blockTable[r]) : blockTable[r][i] = b
Holders(b) == {r \in Requests : Holds(r, b)}

\* The three records of who owns a block agree at every step of every call: a
\* block is on the free list, once, exactly when its reference count is zero,
\* and in used_block_ids exactly when it is not.  The splicing of cache hits,
\* eviction, and release of shared blocks all have to keep them in step.
FreeUsedAgree ==
  /\ \A i, j \in 1 .. Len(freeList) : freeList[i] = freeList[j] => i = j
  /\ \A b \in Blocks : InFree(b) <=> refCount[b] = 0
  /\ \A b \in Blocks : b \in used <=> refCount[b] # 0

\* A reference count is the number of requests whose table has the block, and
\* no table has a block twice: nothing leaks and nothing is freed under a
\* request that still reads it.
RefCountExact ==
  /\ \A b \in Blocks : refCount[b] = Cardinality(Holders(b))
  /\ \A r \in Requests : \A i, j \in 1 .. Len(blockTable[r]) :
       blockTable[r][i] = blockTable[r][j] => i = j

\* The prefix-cache index never points at a block that has since been evicted
\* and reused for something else (block_manager.py:137).
IndexNotStale ==
  \A h \in DOMAIN hashToBlock : blockHash[hashToBlock[h]] = h

CallOf(r) == call.op # "none" /\ call.seq = r

\* Up to its computed tokens a request holds blocks whose chained hash is that
\* of its own tokens: a hit implies the whole prefix (block_manager.py:42).
PrefixSound ==
  EnablePrefixCaching =>
    \A r \in Requests : ~CallOf(r) =>
      \A i \in 1 .. numCached[r] \div BlockSize : blockHash[blockTable[r][i]] = Chain(r, i)

\* Blocks into which the request has positions left to compute are its own: a
\* write never reaches a block that another request reads.
WritesArePrivate ==
  \A r \in Requests : ~CallOf(r) =>
    \A i \in 1 .. Len(blockTable[r]) :
      i > numCached[r] \div BlockSize => Holders(blockTable[r][i]) = {r}

\* can_allocate's count is enough for allocate: the pool never runs dry in the
\* middle of a call ("no free blocks", block_manager.py:101), and the entries
\* that can_allocate found are still there when allocate takes them.
AllocateNeverFails ==
  call.op = "allocate" =>
    LET i == NextIndex(call.seq) IN
    /\ i <= call.hits => Chain(call.seq, i) \in DOMAIN hashToBlock
    /\ i > call.hits /\ i <= call.target => FreeCount > 0

\* The scheduler's view of a table and the block manager's mirror are the same
\* whenever no call is in progress.
MirrorInSync == Idle => reqToBlockIds = blockTable

----------------------------------------------------------------------------
(***************************************************************************)
(* The inductive invariant behind these properties (BlockClients_proofs).  *)
(***************************************************************************)

Allocating(r) == call.op = "allocate" /\ call.seq = r

\* The blocks of r, counted from the first, that may be hashed and shared.
HashedUpTo(r) == IF Allocating(r) THEN call.hits ELSE numCached[r] \div BlockSize

\* An allocate works on a waiting request that owns nothing yet, finds the
\* entries it has still to take, and leaves the last block to be computed.
CallOk ==
  /\ call.op = "allocate" =>
       /\ status[call.seq] = "waiting"
       /\ numCached[call.seq] = 0 /\ numScheduled[call.seq] = 0
       /\ call.target = NumBlocks(call.seq)
       /\ call.hits < call.target
       /\ call.cached = call.hits * BlockSize
       /\ Len(blockTable[call.seq]) <= call.target
       /\ EnablePrefixCaching \/ call.hits = 0
       /\ \A i \in 1 .. call.hits :
            i > Len(blockTable[call.seq]) => Chain(call.seq, i) \in DOMAIN hashToBlock
  /\ call.op = "deallocate" =>
       /\ status[call.seq] # "running"
       /\ status[call.seq] = "waiting" => numScheduled[call.seq] = 0

\* Outside of calls a table is as long as the tokens computed and scheduled need.
TableFits(r) ==
  /\ status[r] = "waiting" =>
       \/ blockTable[r] = << >> /\ numCached[r] = 0 /\ numScheduled[r] = 0
       \/ Len(blockTable[r]) = NumBlocks(r) /\ numCached[r] + numScheduled[r] < NumTokens(r)
  /\ status[r] = "running" =>
       \/ /\ numScheduled[r] > 0
          /\ Len(blockTable[r]) = NumBlocks(r)
          /\ numCached[r] + numScheduled[r] = NumTokens(r)
       \/ /\ numScheduled[r] = 0
          /\ Len(blockTable[r]) = BlocksFor(NumTokens(r) - 1)
          /\ numCached[r] = NumTokens(r) - 1
  /\ status[r] = "finished" => blockTable[r] = << >> /\ numCached[r] = 0

TablesFit == \A r \in Requests : NumTokens(r) > 0 /\ (~CallOf(r) => TableFits(r))

IndexSound == IndexNotStale /\ NoHash \notin DOMAIN hashToBlock

\* What may still be written has no hash and one holder.
TailsFresh ==
  \A r \in Requests : \A i \in 1 .. Len(blockTable[r]) :
    i > HashedUpTo(r) =>
      /\ blockHash[blockTable[r][i]] = NoHash
      /\ \A q \in Requests : Holds(q, blockTable[r][i]) => q = r

HeadsHashed ==
  EnablePrefixCaching =>
    \A r \in Requests : \A i \in 1 .. Len(blockTable[r]) :
      /\ i <= HashedUpTo(r)
      /\ ~(call.op = "deallocate" /\ call.seq = r)
      => blockHash[blockTable[r][i]] = Chain(r, i)

MirrorOk == \A r \in Requests : ~CallOf(r) => reqToBlockIds[r] = blockTable[r]

IInv ==
  /\ TypeOK /\ FreeUsedAgree /\ RefCountExact
  /\ CallOk /\ TablesFit /\ IndexSound /\ TailsFresh /\ HeadsHashed /\ MirrorOk

\* The entries an allocate has still to take whose block some request is using:
\* these cost the free list nothing.
UsedHits(r) ==
  {i \in NextIndex(r) .. call.hits : hashToBlock[Chain(r, i)] \in used}

\* What is left of an allocate can be paid for.
EnoughFree ==
  call.op = "allocate" =>
    FreeCount + Cardinality(UsedHits(call.seq)) >= call.target - Len(blockTable[call.seq])

============================================================================
