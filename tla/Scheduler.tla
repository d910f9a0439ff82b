----------------------------- MODULE Scheduler -----------------------------
(***************************************************************************)
(* nanovllm/engine/scheduler.py: the queues, admission, the prefill and    *)
(* decode loops, preemption with and without swap, abort, and what         *)
(* postprocess does with a computed batch.                                 *)
(*                                                                         *)
(* One action is one iteration of a loop, with the call it makes of the    *)
(* block manager (which runs to its end before the next action).  pc names *)
(* the loop; the engine, which chains the loops, gives every action that   *)
(* leaves a loop its exit.                                                 *)
(***************************************************************************)
EXTENDS BlockManager, CpuBlockManager, SequencesExt

CONSTANTS
  MaxNumSeqs,            \* max_num_seqs
  MaxNumBatchedTokens,   \* max_num_batched_tokens
  ChunkPrefillTokens,    \* chunk_prefill_tokens; 0 for the classic prefill loop
  MaxModelLen,           \* max_model_len
  KvSwapEnabled,         \* kv_swap_enabled
  KvSwapMinTokens,       \* kv_swap_min_tokens
  MaxTokens,             \* sampling_params.max_tokens, the same for all requests
  Eos,                   \* the tokens that end a request, {} under ignore_eos
  StepModes              \* the values of step_mode to consider

ASSUME SchedulerAssumption ==
  /\ MaxNumSeqs \in Nat \ {0}
  /\ MaxNumBatchedTokens \in Nat \ {0}
  /\ ChunkPrefillTokens \in 0 .. MaxNumBatchedTokens
  /\ MaxModelLen \in Nat
  /\ KvSwapEnabled \in BOOLEAN
  /\ KvSwapMinTokens \in Nat
  /\ MaxTokens \in Nat \ {0}
  /\ Eos \subseteq Token
  /\ StepModes \subseteq {"separate", "combined", "unified"}

VARIABLES
  status,         \* Sequence.status; "aborted" is FINISHED with aborted = True
  numPrompt,      \* num_prompt_tokens
  isPrefill,      \* Sequence.is_prefill: how the request is pickled for workers
  cpuTable,       \* cpu_block_table; swap_state is "swapped" when it is not empty
  numSwapped,     \* num_swapped_tokens
  waiting,        \* Scheduler.waiting
  running,        \* Scheduler.running
  pendingOuts,    \* pending_swap_outs: copies GPU to CPU
  pendingIns,     \* pending_swap_ins: copies CPU to GPU
  pendingAborts,  \* pending_aborts
  prefillBatch,   \* what the prefill loop has scheduled in this step
  decodeBatch,    \* what the decode loop has scheduled in this step
  numBatchTokens, \* num_batch_tokens of the prefill or unified loop; 0 outside of it
  pc,             \* the loop the engine is in
  stepMode        \* LLMEngine.step_mode: which loops a step is made of; never changes

swapVars == <<cpuFree, cpuTable, numSwapped, pendingOuts, pendingIns>>
batchVars == <<prefillBatch, decodeBatch, numBatchTokens>>

SchedulerInit ==
  /\ CpuInit
  /\ status = [r \in Requests |-> "new"]
  /\ numPrompt = [r \in Requests |-> NumTokens(r)]
  /\ isPrefill = [r \in Requests |-> TRUE]
  /\ cpuTable = [r \in Requests |-> << >>]
  /\ numSwapped = [r \in Requests |-> 0]
  /\ waiting = << >> /\ running = << >>
  /\ pendingOuts = << >> /\ pendingIns = << >> /\ pendingAborts = << >>
  /\ prefillBatch = << >> /\ decodeBatch = << >> /\ numBatchTokens = 0
  /\ pc = "idle"

IsFinished == waiting = << >> /\ running = << >>

At(label) == Idle /\ pc = label

(***************************************************************************)
(* add                                                                     *)
(***************************************************************************)
\* Bug: nothing is rejected.
TooLargeNever(r) == FALSE

TooLarge(r) ==
  \/ numPrompt[r] > MaxModelLen
  \/ NumBlocks(r) > PoolCapacity

Add(r) ==
  /\ status[r] = "new"
  /\ IF TooLarge(r)
     THEN /\ status' = [status EXCEPT ![r] = "rejected"]
          /\ UNCHANGED waiting
     ELSE /\ status' = [status EXCEPT ![r] = "waiting"]
          /\ waiting' = Append(waiting, r)
  /\ UNCHANGED <<tokenIds, blockTable, numCached, numScheduled, bmVars, numPrompt, isPrefill,
                 swapVars, running, pendingAborts, batchVars, pc>>

(***************************************************************************)
(* _schedule_swap_ins.  The free list only shrinks during the loop, so a   *)
(* request that was passed over stays passed over, and the loop is at the  *)
(* first request that can be restored.                                     *)
(***************************************************************************)
Restorable(r) == cpuTable[r] # << >> /\ FreeCount >= Len(cpuTable[r])

SwapIn(r) ==
  /\ Restorable(r)
  /\ AllocateFreshBlocks(r, Len(cpuTable[r]), numSwapped[r])
  /\ pendingIns' = Append(pendingIns,
       [cpu |-> cpuTable[r], gpu |-> SubSeq(freeList, 1, Len(cpuTable[r]))])
  /\ CpuDeallocate(cpuTable[r])
  /\ numScheduled' = [numScheduled EXCEPT ![r] = 0]
  /\ cpuTable' = [cpuTable EXCEPT ![r] = << >>]
  /\ numSwapped' = [numSwapped EXCEPT ![r] = 0]
  /\ status' = [status EXCEPT ![r] = "running"]
  /\ running' = Append(running, r)

SwapInNext ==
  /\ At("swapIns")
  /\ \E k \in 1 .. Len(waiting) :
       /\ SwapIn(waiting[k])
       /\ \A j \in 1 .. k - 1 : ~Restorable(waiting[j])
       /\ waiting' = RemoveAt(waiting, k)
  /\ UNCHANGED <<tokenIds, numCached, poolVars, cacheVars, reqToBlockIds, numPrompt,
                 isPrefill, pendingOuts, pendingAborts, batchVars, pc>>

SwapInDone(exit) ==
  /\ At("swapIns")
  /\ \A k \in 1 .. Len(waiting) : ~Restorable(waiting[k])
  /\ pc' = exit
  /\ UNCHANGED <<tokenIds, blockTable, numCached, numScheduled, bmVars, status, numPrompt,
                 isPrefill, swapVars, waiting, running, pendingAborts, batchVars>>

(***************************************************************************)
(* The prefill loops: classic, chunked, and the second half of unified.    *)
(* The requests already scheduled that stay in waiting are those given a   *)
(* chunk short of their last token, and come before the others; so the     *)
(* loop is at the first waiting request that is not in the batch, its      *)
(* candidate.                                                              *)
(***************************************************************************)
Scheduled == IF stepMode = "unified" THEN decodeBatch \o prefillBatch ELSE prefillBatch

Remaining == MaxNumBatchedTokens - numBatchTokens

\* Bug: requests are let past one that cannot get its blocks.
CandidateThatFits(r) ==
  LET Fits(q) == blockTable[q] # << >> \/ \E n \in 0 .. NumBlocks(q) - 1 : CanAllocate(q, n)
  IN  /\ Fits(r)
      /\ \E k \in DOMAIN waiting :
           /\ waiting[k] = r /\ ~Contains(prefillBatch, r)
           /\ \A j \in 1 .. k - 1 : Contains(prefillBatch, waiting[j]) \/ ~Fits(waiting[j])

Candidate(r) ==
  \E k \in DOMAIN waiting :
    /\ waiting[k] = r /\ ~Contains(prefillBatch, r)
    /\ \A j \in 1 .. k - 1 : Contains(prefillBatch, waiting[j])

\* num_tokens_todo of a request whose first n tokens are in the cache
Todo(r, n) == NumTokens(r) - n

\* Only the classic loop leaves a request that does not fit to the next step.
LeftForNextStep(todo) ==
  /\ stepMode # "unified" /\ ChunkPrefillTokens = 0
  /\ Remaining < todo
  /\ Scheduled # << >>

Chunk(todo) ==
  LET cap == IF ChunkPrefillTokens > 0 THEN ChunkPrefillTokens ELSE todo
  IN  Min({todo, Remaining, cap})

\* Bug: one request too many.
HasRoomForOneMore == Len(Scheduled) <= MaxNumSeqs /\ Remaining > 0

HasRoom == Len(Scheduled) < MaxNumSeqs /\ Remaining > 0

\* can_allocate has found room: allocate, then come back to the same request.
PrefillAllocate ==
  /\ At("prefill")
  /\ HasRoom
  /\ \E r \in Requests :
       /\ Candidate(r)
       /\ blockTable[r] = << >>
       /\ \E n \in 0 .. NumBlocks(r) - 1 :
            /\ CanAllocate(r, n)
            /\ ~LeftForNextStep(Todo(r, n * BlockSize))
            /\ Allocate(r, n)
  /\ UNCHANGED <<tokenIds, numCached, numScheduled, poolVars, cacheVars, reqToBlockIds, status,
                 numPrompt, isPrefill, swapVars, waiting, running, pendingAborts, batchVars, pc>>

ScheduleChunk(r, todo) ==
  /\ ~LeftForNextStep(todo)
  /\ numScheduled' = [numScheduled EXCEPT ![r] = Chunk(todo)]
  /\ numBatchTokens' = numBatchTokens + Chunk(todo)
  /\ prefillBatch' = Append(prefillBatch, r)
  /\ isPrefill' = IF stepMode = "unified" THEN [isPrefill EXCEPT ![r] = TRUE] ELSE isPrefill
  /\ IF Chunk(todo) = todo
     THEN /\ status' = [status EXCEPT ![r] = "running"]
          /\ running' = Append(running, r)
          /\ waiting' = RemoveFirst(waiting, r)
     ELSE UNCHANGED <<status, running, waiting>>

PrefillSchedule ==
  /\ At("prefill")
  /\ HasRoom
  /\ \E r \in Requests :
       /\ Candidate(r)
       /\ blockTable[r] # << >>
       /\ ScheduleChunk(r, Todo(r, numCached[r]))
  /\ UNCHANGED <<tokenIds, blockTable, numCached, bmVars, numPrompt,
                 swapVars, pendingAborts, decodeBatch, pc>>

PrefillBlocked(r) ==
  IF blockTable[r] = << >>
  THEN \A n \in 0 .. NumBlocks(r) - 1 :
         CanAllocate(r, n) => LeftForNextStep(Todo(r, n * BlockSize))
  ELSE LeftForNextStep(Todo(r, numCached[r]))

\* _schedule_unified returns one batch, the decode turns first.
PrefillDone(exit) ==
  /\ At("prefill")
  /\ HasRoom => \A r \in Requests : Candidate(r) => PrefillBlocked(r)
  /\ prefillBatch' = Scheduled
  /\ decodeBatch' = IF stepMode = "unified" THEN << >> ELSE decodeBatch
  /\ numBatchTokens' = 0
  /\ pc' = exit
  /\ UNCHANGED <<tokenIds, blockTable, numCached, numScheduled, bmVars, status, numPrompt,
                 isPrefill, swapVars, waiting, running, pendingAborts>>

(***************************************************************************)
(* preempt, with or without swapping the blocks out                        *)
(***************************************************************************)
ShouldSwap(r) ==
  /\ KvSwapEnabled
  /\ blockTable[r] # << >>
  /\ numCached[r] >= KvSwapMinTokens
  /\ Len(blockTable[r]) < PoolCapacity
  /\ \A i \in 1 .. Len(blockTable[r]) : refCount[blockTable[r][i]] = 1
  /\ CpuCanAllocate(Len(blockTable[r]))

SwapOut(r) ==
  LET ids == CpuTaken(Len(blockTable[r]))
  IN  /\ CpuAllocate(Len(blockTable[r]))
      /\ pendingOuts' = Append(pendingOuts, [gpu |-> blockTable[r], cpu |-> ids])
      /\ cpuTable' = [cpuTable EXCEPT ![r] = ids]
      /\ numSwapped' = [numSwapped EXCEPT ![r] = numCached[r]]
      /\ UNCHANGED pendingIns

\* Bug: a request to be recomputed is still pickled with its last token only.
PreemptStaysDecoding(r) ==
  /\ status' = [status EXCEPT ![r] = "waiting"]
  /\ waiting' = <<r>> \o waiting
  /\ IF ShouldSwap(r) THEN SwapOut(r) ELSE UNCHANGED swapVars
  /\ Deallocate(r)
  /\ UNCHANGED isPrefill

Preempt(r) ==
  /\ status' = [status EXCEPT ![r] = "waiting"]
  /\ waiting' = <<r>> \o waiting
  /\ IF ShouldSwap(r)
     THEN SwapOut(r) /\ UNCHANGED isPrefill
     ELSE isPrefill' = [isPrefill EXCEPT ![r] = TRUE] /\ UNCHANGED swapVars
  /\ Deallocate(r)

(***************************************************************************)
(* abort                                                                   *)
(***************************************************************************)
\* Bug: an aborted request keeps its blocks.
AbortKeepsBlocks(r) ==
  /\ status' = [status EXCEPT ![r] = "aborted"]
  /\ Idle /\ UNCHANGED call
  /\ waiting' = RemoveFirst(waiting, r)
  /\ pendingAborts' = Append(pendingAborts, r)

Abort(r) ==
  /\ status' = [status EXCEPT ![r] = "aborted"]
  /\ IF blockTable[r] # << >> THEN Deallocate(r) ELSE UNCHANGED call
  /\ waiting' = RemoveFirst(waiting, r)
  /\ pendingAborts' = Append(pendingAborts, r)

(***************************************************************************)
(* The decode loops: _schedule_decode and the first half of unified.  The  *)
(* loop is at the head of running, which counts as popped.                 *)
(***************************************************************************)
MoreDecode ==
  /\ running # << >>
  /\ stepMode = "unified" \/ Len(decodeBatch) < MaxNumSeqs

DecodeAdmit ==
  /\ At("decode")
  /\ MoreDecode
  /\ LET r == Head(running) IN
       /\ CanAppend(r)
       /\ MayAppend(r)
       /\ numScheduled' = [numScheduled EXCEPT ![r] = 1]
       /\ isPrefill' = [isPrefill EXCEPT ![r] = FALSE]
       /\ decodeBatch' = Append(decodeBatch, r)
       /\ running' = Tail(running)
       /\ numBatchTokens' = IF stepMode = "unified" THEN numBatchTokens + 1 ELSE numBatchTokens
  /\ UNCHANGED <<tokenIds, numCached, call, status, numPrompt, swapVars, waiting,
                 pendingAborts, prefillBatch, pc>>

NeedsVictim == At("decode") /\ MoreDecode /\ ~CanAppend(Head(running))

\* Another request is running: the last of them gives up its blocks.
DecodePreemptLast ==
  /\ NeedsVictim
  /\ Len(running) > 1
  /\ Preempt(Last(running))
  /\ running' = Front(running)
  /\ UNCHANGED <<tokenIds, blockTable, numCached, numScheduled, poolVars, cacheVars,
                 reqToBlockIds, numPrompt, pendingAborts, batchVars, pc>>

\* No other is running and the request holds the whole pool already.
FillsPoolNever(r) == FALSE   \* Bug: such a request preempts itself.

FillsPool(r) == Len(blockTable[r]) >= PoolCapacity

DecodeAbort(exit) ==
  /\ NeedsVictim
  /\ Len(running) = 1
  /\ FillsPool(running[1])
  /\ Abort(running[1])
  /\ running' = decodeBatch
  /\ pc' = exit
  /\ UNCHANGED <<tokenIds, blockTable, numCached, numScheduled, poolVars, cacheVars,
                 reqToBlockIds, numPrompt, isPrefill, swapVars, batchVars>>

\* Bug: the early return drops the requests already scheduled in this pass.
DecodePreemptSelfOrphans(exit) ==
  /\ NeedsVictim
  /\ Len(running) = 1
  /\ ~FillsPool(running[1])
  /\ Preempt(running[1])
  /\ running' = << >>
  /\ pc' = exit
  /\ UNCHANGED <<tokenIds, blockTable, numCached, numScheduled, poolVars, cacheVars,
                 reqToBlockIds, numPrompt, pendingAborts, batchVars>>

DecodePreemptSelf(exit) ==
  /\ NeedsVictim
  /\ Len(running) = 1
  /\ ~FillsPool(running[1])
  /\ Preempt(running[1])
  /\ running' = decodeBatch
  /\ pc' = exit
  /\ UNCHANGED <<tokenIds, blockTable, numCached, numScheduled, poolVars, cacheVars,
                 reqToBlockIds, numPrompt, pendingAborts, batchVars>>

\* "assert scheduled" stops the engine when there was nothing to decode.
DecodeDone(exit) ==
  /\ At("decode")
  /\ ~MoreDecode
  /\ running' = decodeBatch \o running
  /\ pc' = IF decodeBatch = << >> /\ stepMode # "unified" THEN "crashed" ELSE exit
  /\ UNCHANGED <<tokenIds, blockTable, numCached, numScheduled, bmVars, status, numPrompt,
                 isPrefill, swapVars, waiting, pendingAborts, batchVars>>

(***************************************************************************)
(* postprocess, for one request of a computed batch and its sampled token  *)
(***************************************************************************)
\* Bug: num_scheduled_tokens is not reset.
CommitKeepsSchedule(r) ==
  /\ HashBlocks(r)
  /\ numCached' = [numCached EXCEPT ![r] = @ + numScheduled[r]]
  /\ UNCHANGED numScheduled

Commit(r) ==
  /\ HashBlocks(r)
  /\ numCached' = [numCached EXCEPT ![r] = @ + numScheduled[r]]
  /\ numScheduled' = [numScheduled EXCEPT ![r] = 0]

HasTokensLeft(r) == numCached[r] + numScheduled[r] < NumTokens(r)

\* Bug: max_tokens is compared with the tokens before this one.
EndsRequestLate(r, token) ==
  \/ token \in Eos
  \/ NumTokens(r) - numPrompt[r] = MaxTokens

EndsRequest(r, token) ==
  \/ token \in Eos
  \/ NumTokens(r) + 1 - numPrompt[r] = MaxTokens

PostprocessChunk(r) ==
  /\ HasTokensLeft(r)
  /\ Commit(r)
  /\ UNCHANGED <<tokenIds, status, running, call>>

PostprocessToken(r, token) ==
  /\ ~EndsRequest(r, token)
  /\ Commit(r)
  /\ AppendToken(r, token)
  /\ UNCHANGED <<status, running, call>>

PostprocessLast(r, token) ==
  /\ EndsRequest(r, token)
  /\ Commit(r)
  /\ AppendToken(r, token)
  /\ status' = [status EXCEPT ![r] = "finished"]
  /\ running' = RemoveFirst(running, r)
  /\ Deallocate(r)

============================================================================
