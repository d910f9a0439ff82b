------------------------ MODULE EngineBlocks_proofs ------------------------
(***************************************************************************)
(* What TLAPS proves of the blocks of Engine. Without swap, with and       *)
(* without prefix caching and memory errors: the engine is a client of the *)
(* block manager that keeps the calling protocol of BlockClients, so that  *)
(* what is proved of every such client holds of the engine, in every step  *)
(* mode; every forward pass reads its own request's prefix, and the        *)
(* prefix-cache index leads to the content it promises.                    *)
(*                                                                         *)
(* With swap, but without the prefix cache and in separate steps: every    *)
(* block, on the GPU and on the CPU, has one owner, all come back, and a   *)
(* step always finds something to do. Both conditions are needed:          *)
(* otherwise a request that is swapped out may be admitted for             *)
(* recomputation while its CPU blocks stay taken.                          *)
(***************************************************************************)
EXTENDS EngineBatches_proofs

\* BC with the theorems about it.
BCP == INSTANCE BlockClients_proofs WITH
  status <- clientStatus,
  MaxTokens <- MaxModelLen + MaxTokens

\* The constants satisfy what BlockClients asks of them.
LEMMA EngineClientAssumption == BCP!ClientAssumption
BY EngineAssumption, SchedulerAssumption
DEF BCP!ClientAssumption, EngineAssumption, SchedulerAssumption, BCP!IsFiniteSet, IsFiniteSet

----------------------------------------------------------------------------
(***************************************************************************)
(* Every step of the engine is a step of a client, or none.                *)
(***************************************************************************)

ClientInv == BatchInv /\ ~KvSwapEnabled /\ BCP!IInv

\* What BlockClients calls the status of a request.
LEMMA StatusOfClient ==
  ASSUME QueueInv, NEW r \in Requests
  PROVE  /\ status[r] = "running" <=> clientStatus[r] = "running"
         /\ Ended(r) <=> clientStatus[r] = "finished"
         /\ status[r] = "waiting" => clientStatus[r] = "waiting"
BY DEF clientStatus, Ended

\* A request's new status is its new status as a client.
LEMMA StatusChanges ==
  ASSUME QueueInv, NEW r \in Requests,
         NEW s \in {"waiting", "running", "finished", "aborted"},
         status' = [status EXCEPT ![r] = s]
  PROVE  clientStatus' = [clientStatus EXCEPT ![r] = IF s = "aborted" THEN "finished" ELSE s]
<1>1. \A q \in Requests : status'[q] = IF q = r THEN s ELSE status[q]
  BY DEF QueueInv, ProgressTypes
<1> QED BY <1>1 DEF clientStatus, Ended

\* A step that changes nothing a client sees.
LEMMA ClientStutters ==
  ASSUME UNCHANGED <<tokenIds, blockTable, numCached, numScheduled, bmVars, clientStatus>>
  PROVE  UNCHANGED BCP!vars
BY DEF BCP!vars, bmVars, poolVars, cacheVars, BCP!bmVars, BCP!poolVars, BCP!cacheVars

\* What clients look at is unchanged.
LEMMA SameClientStatus ==
  ASSUME UNCHANGED status
  PROVE  UNCHANGED clientStatus
BY DEF clientStatus, Ended

\* A request that is not known yet stays a waiting client.
LEMMA AddRequestMaps ==
  ASSUME QueueInv, NEW r \in Requests, AddRequest(r)
  PROVE  UNCHANGED BCP!vars
<1>1. status[r] = "new" /\ UNCHANGED <<tokenIds, blockTable, numCached, numScheduled, bmVars>>
  BY DEF AddRequest, Add
<1>2. \/ status' = [status EXCEPT ![r] = "rejected"]
      \/ status' = [status EXCEPT ![r] = "waiting"]
  BY DEF AddRequest, Add
<1>3. clientStatus' = clientStatus
  BY <1>1, <1>2 DEF clientStatus, Ended, QueueInv, ProgressTypes
<1> QED BY <1>1, <1>3, ClientStutters

\* The block manager is the same.
LEMMA BlockManagerStepMaps ==
  ASSUME BlockManagerStep
  PROVE  BCP!Next
<1>1. CallStep /\ UNCHANGED clientStatus
  BY SameClientStatus DEF BlockManagerStep
<1>2. BCP!CallStep
  BY <1>1
  DEF CallStep, BCP!CallStep, TakeCached, BCP!TakeCached, TakeFresh, BCP!TakeFresh,
      AllocateReturn, BCP!AllocateReturn, ReleaseBlock, BCP!ReleaseBlock,
      DeallocateReturn, BCP!DeallocateReturn, NextIndex, BCP!NextIndex, Chain, BCP!Chain,
      InFree, BCP!InFree, LruRemove, BCP!LruRemove, AllocateBlock, BCP!AllocateBlock,
      IndexWithout, BCP!IndexWithout, NoHash, BCP!NoHash, NoCall, BCP!NoCall,
      poolVars, BCP!poolVars, cacheVars, BCP!cacheVars
<1> QED BY <1>1, <1>2 DEF BCP!Next

\* The prefill loops allocate for a waiting request ...
LEMMA PrefillAllocateMaps ==
  ASSUME ClientInv, PrefillAllocate
  PROVE  BCP!Next
<1>1. PICK r \in Requests : Candidate(r) /\ \E n \in 0 .. NumBlocks(r) - 1 :
                              CanAllocate(r, n) /\ Allocate(r, n)
  BY DEF PrefillAllocate
<1>2. status[r] = "waiting"
  BY <1>1, CandidateIsWaiting DEF PrefillAllocate, At, ClientInv, BatchInv
<1>3. UNCHANGED clientStatus /\ clientStatus[r] = "waiting"
  BY <1>2, SameClientStatus, StatusOfClient DEF PrefillAllocate, ClientInv, BatchInv
<1>4. /\ UNCHANGED <<tokenIds, numCached, numScheduled, poolVars, cacheVars, reqToBlockIds>>
  BY DEF PrefillAllocate
<1>5. PICK n \in 0 .. NumBlocks(r) - 1 : CanAllocate(r, n) /\ Allocate(r, n)
  BY <1>1
<1>6. BCP!CanAllocate(r, n)
  BY <1>5
  DEF CanAllocate, BCP!CanAllocate, CachedBlocks, BCP!CachedBlocks, NewBlocks, BCP!NewBlocks,
      NumBlocks, BCP!NumBlocks, BlocksFor, BCP!BlocksFor, NumTokens, BCP!NumTokens,
      IsHit, BCP!IsHit, Chain, BCP!Chain, CachedTokens, BCP!CachedTokens, NoHash, BCP!NoHash,
      TokenBlock, BCP!TokenBlock, FreeCount, BCP!FreeCount, Cardinality, BCP!Cardinality
<1>7. BCP!Allocate(r, n)
  BY <1>5
  DEF Allocate, BCP!Allocate, CallAllocate, BCP!CallAllocate, Idle, BCP!Idle, NoCall, BCP!NoCall,
      NumBlocks, BCP!NumBlocks, BlocksFor, BCP!BlocksFor, NumTokens, BCP!NumTokens
<1>8. n \in 0 .. BCP!NumBlocks(r) - 1
  BY DEF NumBlocks, BCP!NumBlocks, BlocksFor, BCP!BlocksFor, NumTokens, BCP!NumTokens
<1>9. BCP!Admit(r)
  BY <1>3, <1>4, <1>6, <1>7, <1>8
  DEF BCP!Admit, poolVars, BCP!poolVars, cacheVars, BCP!cacheVars
<1> QED BY <1>9 DEF BCP!Next


\* ... and give it a chunk of its tokens, the last of which makes it run.
LEMMA PrefillScheduleMaps ==
  ASSUME ClientInv, PrefillSchedule
  PROVE  BCP!Next
<1>1. PICK r \in Requests :
        Candidate(r) /\ blockTable[r] # << >> /\ ScheduleChunk(r, Todo(r, numCached[r]))
  BY DEF PrefillSchedule
<1>2. /\ Idle /\ pc = "prefill" /\ HasRoom
      /\ UNCHANGED <<tokenIds, blockTable, numCached, bmVars>>
  BY DEF PrefillSchedule, At
<1>3. status[r] = "waiting" /\ numScheduled[r] = 0
  BY <1>1, <1>2, CandidateIsWaiting DEF ClientInv, BatchInv
<1> DEFINE todo == Todo(r, numCached[r])
           k == Chunk(todo)
<1>4. /\ NumTokens(r) \in Nat /\ numCached[r] \in Nat /\ numCached[r] < NumTokens(r)
      /\ todo = NumTokens(r) - numCached[r] /\ todo \in Nat \ {0}
  BY DEF ClientInv, BatchInv, QueueInv, ProgressTypes, TokensLeft, NumTokens, Todo
<1>5. numScheduled' = [numScheduled EXCEPT ![r] = k]
      /\ status' = IF k = todo THEN [status EXCEPT ![r] = "running"] ELSE status
  BY <1>1 DEF ScheduleChunk
<1> HIDE DEF todo
<1>6. k \in 1 .. todo
  BY <1>2, <1>4, ChunkBounds DEF HasRoom, ClientInv, BatchInv, QueueInv, ProgressTypes
<1> HIDE DEF k
<1>7. clientStatus[r] = "waiting"
  BY <1>3, StatusOfClient DEF ClientInv, BatchInv
<1>8. clientStatus' = IF numCached[r] + k = NumTokens(r)
                      THEN [clientStatus EXCEPT ![r] = "running"] ELSE clientStatus
  <2>1. k = todo <=> numCached[r] + k = NumTokens(r) BY <1>4, <1>6
  <2>2. CASE k = todo
    BY <2>1, <2>2, <1>5, StatusChanges DEF ClientInv, BatchInv
  <2>3. CASE k # todo
    BY <2>1, <2>3, <1>5, SameClientStatus
  <2> QED BY <2>2, <2>3
<1>9. k \in 1 .. BCP!NumTokens(r) - numCached[r] /\ BCP!NumTokens(r) = NumTokens(r)
  BY <1>4, <1>6 DEF BCP!NumTokens, NumTokens
<1>10. BCP!Idle BY <1>2 DEF Idle, BCP!Idle, NoCall, BCP!NoCall
<1>11. BCP!ScheduleChunk(r)
  BY <1>1, <1>2, <1>3, <1>5, <1>7, <1>8, <1>9, <1>10
  DEF BCP!ScheduleChunk, bmVars, BCP!bmVars, poolVars, BCP!poolVars, cacheVars, BCP!cacheVars
<1> QED BY <1>11 DEF BCP!Next

\* A decode turn is taken by a running request that has none yet.
LEMMA DecodeAdmitMaps ==
  ASSUME ClientInv, DecodeAdmit
  PROVE  BCP!Next
<1> DEFINE r == Head(running)
<1>1. /\ pc = "decode" /\ Idle /\ running # << >> /\ CanAppend(r) /\ MayAppend(r)
      /\ numScheduled' = [numScheduled EXCEPT ![r] = 1]
      /\ UNCHANGED <<tokenIds, numCached, call, status>>
  BY DEF DecodeAdmit, At, MoreDecode
<1>2. r \in Requests /\ Contains(running, r)
  BY <1>1, InQueue DEF ClientInv, BatchInv, QueueInv, QueueTypes
<1> HIDE DEF r
<1>3. status[r] = "running" /\ ~InBatch(r) /\ numScheduled[r] = 0
  <2>1. prefillBatch = << >> BY <1>1 DEF ClientInv, BatchInv, QueueInv, BatchesInPhase
  <2>2. status[r] = "running" /\ ~InBatch(r)
    BY <1>1, <1>2, <2>1, EmptyQueue DEF ClientInv, BatchInv, QueueInv, QueueOfStatus, Runs, InBatch
  <2> QED BY <1>2, <2>2 DEF ClientInv, BatchInv, QueueInv, ScheduledInBatch, Live
<1>4. clientStatus[r] = "running" /\ UNCHANGED clientStatus
  BY <1>1, <1>2, <1>3, StatusOfClient, SameClientStatus DEF ClientInv, BatchInv
<1>5. BCP!Idle /\ BCP!CanAppend(r)
  BY <1>1 DEF Idle, BCP!Idle, NoCall, BCP!NoCall, CanAppend, BCP!CanAppend, NeedsBlock,
              BCP!NeedsBlock, NumTokens, BCP!NumTokens, FreeCount, BCP!FreeCount
<1>6. BCP!MayAppend(r)
  BY <1>1
  DEF MayAppend, BCP!MayAppend, NeedsBlock, BCP!NeedsBlock, NumTokens, BCP!NumTokens,
      AllocateBlock, BCP!AllocateBlock, IndexWithout, BCP!IndexWithout, NoHash, BCP!NoHash,
      poolVars, BCP!poolVars, cacheVars, BCP!cacheVars
<1>7. BCP!ScheduleDecode(r)
  BY <1>1, <1>3, <1>4, <1>5, <1>6 DEF BCP!ScheduleDecode
<1> QED BY <1>2, <1>7 DEF BCP!Next

\* preempt takes the blocks of a running request that has no turn.
LEMMA PreemptMaps ==
  ASSUME ClientInv, NEW r \in Requests, pc = "decode", Contains(running, r), Preempt(r),
         UNCHANGED <<tokenIds, blockTable, numCached, numScheduled, poolVars, cacheVars,
                     reqToBlockIds>>
  PROVE  BCP!Next
<1>1. status[r] = "running" /\ numScheduled[r] = 0
  <2>1. prefillBatch = << >> BY DEF ClientInv, BatchInv, QueueInv, BatchesInPhase
  <2>2. status[r] = "running" /\ ~InBatch(r)
    BY <2>1, EmptyQueue DEF ClientInv, BatchInv, QueueInv, QueueOfStatus, Runs, InBatch
  <2> QED BY <2>2 DEF ClientInv, BatchInv, QueueInv, ScheduledInBatch, Live
<1>2. status' = [status EXCEPT ![r] = "waiting"] /\ Deallocate(r)
  BY NoSwapOut DEF ClientInv, BatchInv
<1>3. clientStatus[r] = "running" /\ clientStatus' = [clientStatus EXCEPT ![r] = "waiting"]
  BY <1>1, <1>2, StatusOfClient, StatusChanges DEF ClientInv, BatchInv
<1>4. BCP!Deallocate(r)
  BY <1>2 DEF Deallocate, BCP!Deallocate, Idle, BCP!Idle, NoCall, BCP!NoCall
<1>5. BCP!Preempt(r)
  BY <1>1, <1>3, <1>4
  DEF BCP!Preempt, poolVars, BCP!poolVars, cacheVars, BCP!cacheVars
<1> QED BY <1>5 DEF BCP!Next

\* abort takes the blocks of a live request that has some.
LEMMA AbortMaps ==
  ASSUME ClientInv, NEW r \in Requests, Live(r), blockTable[r] # << >>, Abort(r),
         UNCHANGED <<tokenIds, blockTable, numCached, numScheduled, poolVars, cacheVars,
                     reqToBlockIds>>
  PROVE  BCP!Next
<1>1. status' = [status EXCEPT ![r] = "aborted"] /\ Deallocate(r)
  BY DEF Abort
<1>2. clientStatus' = [clientStatus EXCEPT ![r] = "finished"]
  BY <1>1, StatusChanges DEF ClientInv, BatchInv
<1>3. clientStatus[r] \in {"waiting", "running"}
  BY StatusOfClient DEF ClientInv, BatchInv, Live
<1>4. BCP!Deallocate(r)
  BY <1>1 DEF Deallocate, BCP!Deallocate, Idle, BCP!Idle, NoCall, BCP!NoCall
<1>5. BCP!Abort(r)
  BY <1>2, <1>3, <1>4
  DEF BCP!Abort, poolVars, BCP!poolVars, cacheVars, BCP!cacheVars
<1> QED BY <1>5 DEF BCP!Next

\* The table of a request between calls, as BlockClients has it.
LEMMA TableOf ==
  ASSUME ClientInv, Idle, NEW r \in Requests
  PROVE  /\ NumTokens(r) \in Nat \ {0} /\ numCached[r] \in Nat /\ numScheduled[r] \in Nat
         /\ blockTable[r] \in Seq(Blocks)
         /\ status[r] \in {"new", "rejected", "waiting"} =>
              \/ blockTable[r] = << >> /\ numCached[r] = 0 /\ numScheduled[r] = 0
              \/ /\ Len(blockTable[r]) = NumBlocks(r)
                 /\ numCached[r] + numScheduled[r] < NumTokens(r)
         /\ status[r] = "running" =>
              \/ /\ numScheduled[r] > 0
                 /\ Len(blockTable[r]) = NumBlocks(r)
                 /\ numCached[r] + numScheduled[r] = NumTokens(r)
              \/ /\ numScheduled[r] = 0
                 /\ Len(blockTable[r]) = BlocksFor(NumTokens(r) - 1)
                 /\ numCached[r] = NumTokens(r) - 1
         /\ Ended(r) => blockTable[r] = << >> /\ numCached[r] = 0
<1>1. BCP!NumTokens(r) = NumTokens(r) /\ BCP!NumBlocks(r) = NumBlocks(r)
      /\ BCP!BlocksFor(NumTokens(r) - 1) = BlocksFor(NumTokens(r) - 1) /\ BCP!Blocks = Blocks
  BY DEF BCP!NumTokens, NumTokens, BCP!NumBlocks, NumBlocks, BCP!BlocksFor, BlocksFor,
         BCP!Blocks, Blocks
<1>2. ~BCP!CallOf(r)
  BY DEF BCP!CallOf, Idle, NoCall
<1>3. NumTokens(r) > 0 /\ BCP!TableFits(r)
  BY <1>1, <1>2 DEF ClientInv, BatchInv, BCP!IInv, BCP!TablesFit
<1>4. NumTokens(r) \in Nat \ {0} /\ numCached[r] \in Nat /\ numScheduled[r] \in Nat
      /\ blockTable[r] \in Seq(Blocks)
  BY <1>1, <1>3 DEF ClientInv, BatchInv, QueueInv, ProgressTypes, NumTokens, BCP!IInv, BCP!TypeOK,
                    BCP!RequestTypeOK
<1>5. /\ status[r] \in {"new", "rejected", "waiting"} => clientStatus[r] = "waiting"
      /\ status[r] = "running" => clientStatus[r] = "running"
      /\ Ended(r) => clientStatus[r] = "finished"
  BY DEF clientStatus, Ended
<1> QED BY <1>1, <1>3, <1>4, <1>5 DEF BCP!TableFits

\* A request of a batch has all its blocks; it waits if prompt tokens are left
\* after this batch, and otherwise runs.
LEMMA InBatchTable ==
  ASSUME ClientInv, Idle, NEW r \in Requests, InBatch(r)
  PROVE  /\ Live(r) /\ numScheduled[r] > 0
         /\ Len(blockTable[r]) = NumBlocks(r) /\ blockTable[r] # << >>
         /\ HasTokensLeft(r) <=> status[r] = "waiting"
<1>1. Live(r) /\ numScheduled[r] > 0
  BY DEF ClientInv, BatchInv, QueueInv, ScheduledInBatch, QueueOfStatus, InBatch, Live
<1>2. NumTokens(r) \in Nat \ {0} /\ numCached[r] \in Nat /\ numScheduled[r] \in Nat
      /\ blockTable[r] \in Seq(Blocks)
  BY TableOf
<1>3. Len(blockTable[r]) = NumBlocks(r)
  BY <1>1, TableOf DEF Live
<1>4. HasTokensLeft(r) <=> status[r] = "waiting"
  <2>1. CASE status[r] = "waiting"
    BY <1>1, <1>2, <2>1, TableOf DEF HasTokensLeft
  <2>2. CASE status[r] = "running"
    BY <1>1, <1>2, <2>2, TableOf DEF HasTokensLeft
  <2> QED BY <1>1, <2>1, <2>2 DEF Live
<1>5. NumBlocks(r) > 0
  BY <1>2, BlockSizeAssumption DEF NumBlocks, BlocksFor
<1> QED BY <1>1, <1>2, <1>3, <1>4, <1>5

\* A request that fills the pool holds blocks: when none is free, some are used.
LEMMA DecodeAbortMaps ==
  ASSUME ClientInv, DecodeAbort(AfterDecode)
  PROVE  BCP!Next
<1> DEFINE r == running[1]
<1>1. /\ pc = "decode" /\ Idle /\ Len(running) = 1 /\ ~CanAppend(r) /\ FillsPool(r) /\ Abort(r)
      /\ UNCHANGED <<tokenIds, blockTable, numCached, numScheduled, poolVars, cacheVars,
                     reqToBlockIds>>
  <2>1. Head(running) = r /\ Len(running) = 1 BY DEF DecodeAbort
  <2> QED BY <2>1 DEF DecodeAbort, NeedsVictim, At
<1>2. r \in Requests /\ Contains(running, r)
  BY <1>1, OnlyOneRuns DEF ClientInv, BatchInv
<1> HIDE DEF r
<1>3. Live(r)
  BY <1>1, <1>2 DEF ClientInv, BatchInv, QueueInv, QueueOfStatus, Runs, Live
<1>4. blockTable[r] # << >>
  <2> SUFFICES ASSUME blockTable[r] = << >> PROVE FALSE
    OBVIOUS
  <2>1. /\ freeList \in Seq(Blocks) /\ used \subseteq Blocks /\ refCount \in [Blocks -> Nat]
        /\ InFree(0) <=> refCount[0] = 0
        /\ 0 \in used <=> refCount[0] # 0
    <3>1. 0 \in BCP!Blocks BY PoolAssumption DEF BCP!Blocks, PoolAssumption
    <3>2. BCP!PoolTypeOK /\ BCP!FreeUsedAgree BY DEF ClientInv, BatchInv, BCP!IInv, BCP!TypeOK
    <3> QED BY <3>1, <3>2 DEF BCP!PoolTypeOK, BCP!FreeUsedAgree, BCP!Blocks, Blocks,
                              BCP!InFree, InFree
  <2>2. FreeCount = 0
    BY <1>1, <2>1 DEF CanAppend, FreeCount
  <2>3. ~InFree(0) BY <2>2 DEF InFree, FreeCount
  <2>4. 0 \in used BY <2>1, <2>3
  <2>5. IsFiniteSet(used)
    <3>1. IsFiniteSet(Blocks) BY PoolAssumption, FS_Interval DEF Blocks, PoolAssumption
    <3> QED BY <2>1, <3>1, FS_Subset
  <2>6. Cardinality(used) \in Nat /\ Cardinality(used) # 0
    BY <2>4, <2>5, FS_CardinalityType, FS_EmptySet
  <2>7. Len(blockTable[r]) = 0 BY DEF FillsPool
  <2> QED BY <1>1, <2>2, <2>6, <2>7 DEF FillsPool, PoolCapacity
<1> QED BY <1>1, <1>2, <1>3, <1>4, AbortMaps

\* Forward passes that ran out of memory: the requests of the batch are aborted.
LEMMA AbortNextMaps ==
  ASSUME ClientInv, Idle, NEW prefill \in BOOLEAN,
         prefill => pc = "oomPrefill", ~prefill => pc = "oomDecode",
         AbortNext(prefill, IF prefill THEN prefillBatch ELSE decodeBatch)
  PROVE  BCP!Next
<1> DEFINE batch == IF prefill THEN prefillBatch ELSE decodeBatch
           r == Head(batch)
<1>1. /\ batch # << >> /\ TakeFromBatch(prefill) /\ Abort(r)
      /\ UNCHANGED <<tokenIds, blockTable, numCached, numScheduled, poolVars, cacheVars,
                     reqToBlockIds, pc, stepMode>>
  BY DEF AbortNext
<1>2. r \in Requests /\ InBatch(r) /\ Live(r)
  BY <1>1, TakenFromBatch DEF ClientInv, BatchInv
<1> HIDE DEF r
<1>3. blockTable[r] # << >>
  BY <1>2, InBatchTable
<1> QED BY <1>1, <1>2, <1>3, AbortMaps

\* Index what was computed, count it as computed.
LEMMA CommitMaps ==
  ASSUME NEW r, Commit(r)
  PROVE  BCP!Commit(r)
BY DEF Commit, BCP!Commit, HashBlocks, BCP!HashBlocks, FirstToHash, BCP!FirstToHash,
       LastToHash, BCP!LastToHash, SeedHash, BCP!SeedHash, ExtendedHash, BCP!ExtendedHash,
       NoHash, BCP!NoHash, Blocks, BCP!Blocks

\* postprocess, for the next request of a batch.
LEMMA PostprocessNextMaps ==
  ASSUME ClientInv, Idle, NEW prefill \in BOOLEAN,
         prefill => pc = "postPrefill", ~prefill => pc = "postDecode",
         PostprocessNext(prefill, IF prefill THEN prefillBatch ELSE decodeBatch)
  PROVE  BCP!Next
<1> DEFINE batch == IF prefill THEN prefillBatch ELSE decodeBatch
           r == Head(batch)
<1>1. /\ batch # << >> /\ TakeFromBatch(prefill)
      /\ UNCHANGED <<blockTable, poolVars, reqToBlockIds, pc, stepMode>>
      /\ \/ prefill /\ PostprocessChunk(r)
         \/ /\ prefill => ~HasTokensLeft(r)
            /\ \E token \in Token : PostprocessToken(r, token) \/ PostprocessLast(r, token)
  BY DEF PostprocessNext
<1>2. r \in Requests /\ InBatch(r) /\ (~prefill => status[r] = "running")
  BY <1>1, TakenFromBatch DEF ClientInv, BatchInv, Live
<1> HIDE DEF r
<1>3. /\ Live(r) /\ numScheduled[r] > 0
      /\ HasTokensLeft(r) <=> status[r] = "waiting"
  BY <1>2, InBatchTable
<1>4. BCP!Idle BY DEF Idle, BCP!Idle, NoCall, BCP!NoCall
<1>5. UNCHANGED <<blockTable, BCP!poolVars, reqToBlockIds>>
  BY <1>1 DEF poolVars, BCP!poolVars
<1>6. CASE prefill /\ PostprocessChunk(r)
  <2>1. clientStatus[r] = "waiting" /\ UNCHANGED clientStatus
    BY <1>2, <1>3, <1>6, StatusOfClient, SameClientStatus DEF PostprocessChunk, ClientInv, BatchInv
  <2>2. BCP!Commit(r) /\ UNCHANGED <<tokenIds, call>>
    BY <1>6, CommitMaps DEF PostprocessChunk
  <2>3. BCP!PostprocessChunk(r)
    BY <1>3, <1>4, <1>5, <2>1, <2>2 DEF BCP!PostprocessChunk
  <2> QED BY <1>2, <2>3 DEF BCP!Next
<1>7. ASSUME NEW token \in Token, prefill => ~HasTokensLeft(r),
             PostprocessToken(r, token) \/ PostprocessLast(r, token)
      PROVE  BCP!Next
  <2>1. status[r] = "running" /\ clientStatus[r] = "running"
    BY <1>2, <1>3, <1>7, StatusOfClient DEF Live, ClientInv, BatchInv
  <2>2. BCP!Commit(r) /\ BCP!AppendToken(r, token)
    BY <1>7, CommitMaps DEF PostprocessToken, PostprocessLast, AppendToken, BCP!AppendToken
  <2>3. CASE PostprocessToken(r, token)
    <3>1. UNCHANGED <<call, clientStatus>>
      BY <2>3, SameClientStatus DEF PostprocessToken
    <3>2. BCP!NumTokens(r) < MaxModelLen + MaxTokens
      <4>1. /\ NumTokens(r) - numPrompt[r] < MaxTokens /\ numPrompt[r] <= MaxModelLen
            /\ NumTokens(r) \in Nat /\ numPrompt[r] \in Nat
        BY <1>2, <1>3 DEF ClientInv, BatchInv, QueueInv, LengthBounds, ProgressTypes, NumTokens
      <4>2. NumTokens(r) < MaxModelLen + MaxTokens
        BY <4>1, SchedulerAssumption DEF SchedulerAssumption
      <4> QED BY <4>2 DEF BCP!NumTokens, NumTokens
    <3>3. BCP!PostprocessToken(r)
      BY <1>3, <1>4, <1>5, <2>1, <2>2, <3>1, <3>2 DEF BCP!PostprocessToken
    <3> QED BY <1>2, <3>3 DEF BCP!Next
  <2>4. CASE PostprocessLast(r, token)
    <3>1. /\ status' = [status EXCEPT ![r] = "finished"]
          /\ BCP!Deallocate(r)
      BY <2>4 DEF PostprocessLast, Deallocate, BCP!Deallocate, Idle, BCP!Idle, NoCall, BCP!NoCall
    <3>2. clientStatus' = [clientStatus EXCEPT ![r] = "finished"]
      BY <1>2, <3>1, StatusChanges DEF ClientInv, BatchInv
    <3>3. BCP!PostprocessLast(r)
      BY <1>3, <1>5, <2>1, <2>2, <3>1, <3>2 DEF BCP!PostprocessLast
    <3> QED BY <1>2, <3>3 DEF BCP!Next
  <2> QED BY <1>7, <2>3, <2>4
<1> QED BY <1>1, <1>6, <1>7

\* A step of the engine is a step of a client or nothing to the block manager.
LEMMA EngineNextMaps ==
  ASSUME ClientInv, [Next]_vars
  PROVE  [BCP!Next]_BCP!vars
<1>1. CASE \E r \in Requests : AddRequest(r)
  BY <1>1, AddRequestMaps DEF ClientInv, BatchInv
<1>2. CASE BlockManagerStep
  BY <1>2, BlockManagerStepMaps
<1>3. CASE UNCHANGED <<tokenIds, blockTable, numCached, numScheduled, bmVars, status>>
  BY <1>3, ClientStutters, SameClientStatus
<1>4. CASE ScheduleStep
  <2>1. CASE SwapInNext
    BY <2>1, NoSwapIn DEF ClientInv, BatchInv, QueueInv, QueueTypes
  <2>2. CASE PrefillAllocate BY <2>2, PrefillAllocateMaps
  <2>3. CASE PrefillSchedule BY <2>3, PrefillScheduleMaps
  <2>4. CASE DecodeAdmit BY <2>4, DecodeAdmitMaps
  <2>5. CASE DecodePreemptLast
    <3>1. /\ pc = "decode" /\ running # << >> /\ Preempt(Last(running))
          /\ UNCHANGED <<tokenIds, blockTable, numCached, numScheduled, poolVars, cacheVars,
                         reqToBlockIds>>
      BY <2>5 DEF DecodePreemptLast, NeedsVictim, MoreDecode, At
    <3>2. Last(running) \in Requests /\ Contains(running, Last(running))
      BY <3>1, PoppedLast DEF ClientInv, BatchInv, QueueInv, QueueTypes, NoDuplicates
    <3> QED BY <3>1, <3>2, PreemptMaps
  <2>6. CASE DecodePreemptSelf(AfterDecode)
    <3>1. /\ pc = "decode" /\ Len(running) = 1 /\ Preempt(running[1])
          /\ UNCHANGED <<tokenIds, blockTable, numCached, numScheduled, poolVars, cacheVars,
                         reqToBlockIds>>
      BY <2>6 DEF DecodePreemptSelf, NeedsVictim, At
    <3>2. running[1] \in Requests /\ Contains(running, running[1])
      BY <3>1, OnlyOneRuns DEF ClientInv, BatchInv
    <3> QED BY <3>1, <3>2, PreemptMaps
  <2>7. CASE DecodeAbort(AfterDecode) BY <2>7, DecodeAbortMaps
  <2>8. CASE SwapInDone(AfterSwapIns) \/ PrefillDone(AfterPrefill) \/ DecodeDone(AfterDecode)
    BY <1>3, <2>8 DEF SwapInDone, PrefillDone, DecodeDone
  <2> QED BY <1>4, <2>1, <2>2, <2>3, <2>4, <2>5, <2>6, <2>7, <2>8 DEF ScheduleStep
<1>5. CASE BatchStep
  <2>1. CASE At("postPrefill") /\ PostprocessNext(TRUE, prefillBatch)
    BY <2>1, PostprocessNextMaps DEF At
  <2>2. CASE At("postDecode") /\ PostprocessNext(FALSE, decodeBatch)
    BY <2>2, PostprocessNextMaps DEF At
  <2>3. CASE At("oomPrefill") /\ AbortNext(TRUE, prefillBatch)
    BY <2>3, AbortNextMaps DEF At
  <2>4. CASE At("oomDecode") /\ AbortNext(FALSE, decodeBatch)
    BY <2>4, AbortNextMaps DEF At
  <2> QED BY <1>5, <2>1, <2>2, <2>3, <2>4 DEF BatchStep
<1>6. CASE \/ StartStep \/ CopyOut \/ CopyIn \/ DrainAborts \/ RunPrefill \/ RunDecode
           \/ EndBatch \/ UNCHANGED vars
  BY <1>3, <1>6 DEF StartStep, CopyOut, CopyIn, DrainAborts, RunPrefill, RunDecode, Run,
     EndBatch, vars, requestVars
<1> QED BY <1>1, <1>2, <1>4, <1>5, <1>6 DEF Next, EngineStep

\* The engine starts as a client does.
LEMMA EngineInitMaps == Init => BCP!Init
<1> SUFFICES ASSUME Init PROVE BCP!Init
  OBVIOUS
<1>1. clientStatus = [r \in Requests |-> "waiting"]
  BY DEF clientStatus, Ended, Init, SchedulerInit
<1> QED
  BY <1>1 DEF Init, BCP!Init, BlockManagerInit, BCP!BlockManagerInit, Blocks, BCP!Blocks,
     NoHash, BCP!NoHash, NoCall, BCP!NoCall

\* The inductive invariant of BlockClients is one of the engine.
LEMMA InitClientInv == Init /\ ~KvSwapEnabled => ClientInv
BY InitBatchInv, EngineInitMaps, BCP!InitIInv, BlockSizeAssumption,
   PoolAssumption, EngineClientAssumption DEF ClientInv, BatchInv

\* ... and every step of the engine keeps it.
LEMMA NextClientInv == ClientInv /\ [Next]_vars => ClientInv'
<1> SUFFICES ASSUME ClientInv, [Next]_vars PROVE ClientInv'
  OBVIOUS
<1>1. BatchInv' BY NextBatchInv DEF ClientInv
<1>3. [BCP!Next]_BCP!vars BY EngineNextMaps
<1>4. BCP!IInv'
  BY <1>3, BCP!NextIInv, BlockSizeAssumption, PoolAssumption, EngineClientAssumption
  DEF ClientInv, BatchInv
<1> QED BY <1>1, <1>4 DEF ClientInv

----------------------------------------------------------------------------
(***************************************************************************)
(* The theorems.                                                           *)
(***************************************************************************)

\* The invariant of the block manager's clients holds of the engine without swap.
THEOREM ClientInvariance == ASSUME ~KvSwapEnabled PROVE Spec => []ClientInv
<1>1. Init => ClientInv BY InitClientInv
<1>2. ClientInv /\ [Next]_vars => ClientInv' BY NextClientInv
<1> QED BY <1>1, <1>2, PTL DEF Spec

\* Without swap the engine implements BlockClients: no loop of the scheduler calls
\* the block manager out of turn (scheduler.py:197, 240, llm_engine.py:117).
THEOREM EngineIsClient == ASSUME ~KvSwapEnabled PROVE Spec => KeepsBlockProtocol
<1>1. BCP!Init <=> BC!Init
  BY DEF BCP!Init, BC!Init, BCP!BlockManagerInit, BC!BlockManagerInit, BCP!Blocks, BC!Blocks,
         BCP!NoHash, BC!NoHash, BCP!NoCall, BC!NoCall
<1>2. BCP!vars = BC!vars /\ BCP!vars' = BC!vars'
  BY DEF BCP!vars, BC!vars, BCP!bmVars, BC!bmVars, BCP!poolVars, BC!poolVars, BCP!cacheVars,
         BC!cacheVars
<1>3. BCP!Next <=> BC!Next
  <2> USE DEF BCP!poolVars, BC!poolVars, BCP!cacheVars, BC!cacheVars, BCP!bmVars, BC!bmVars,
         BCP!NoHash, BC!NoHash, BCP!NoCall, BC!NoCall, BCP!Blocks, BC!Blocks,
         BCP!Idle, BC!Idle, BCP!NumTokens, BC!NumTokens, BCP!NumBlocks, BC!NumBlocks,
         BCP!BlocksFor, BC!BlocksFor, BCP!Chain, BC!Chain, BCP!NextIndex, BC!NextIndex,
         BCP!InFree, BC!InFree, BCP!FreeCount, BC!FreeCount, BCP!IndexWithout, BC!IndexWithout,
         BCP!AllocateBlock, BC!AllocateBlock, BCP!NeedsBlock, BC!NeedsBlock,
         BCP!Deallocate, BC!Deallocate
  <2>1. BCP!CallStep <=> BC!CallStep
    BY DEF BCP!CallStep, BC!CallStep, BCP!TakeCached, BC!TakeCached, BCP!TakeFresh,
           BC!TakeFresh, BCP!AllocateReturn, BC!AllocateReturn, BCP!ReleaseBlock,
           BC!ReleaseBlock, BCP!DeallocateReturn, BC!DeallocateReturn,
           BCP!LruRemove, BC!LruRemove
  <2>2. ASSUME NEW r \in Requests PROVE BCP!Admit(r) <=> BC!Admit(r)
    BY DEF BCP!Admit, BC!Admit, BCP!CanAllocate, BC!CanAllocate, BCP!CachedBlocks,
           BC!CachedBlocks, BCP!IsHit, BC!IsHit, BCP!CachedTokens, BC!CachedTokens,
           BCP!TokenBlock, BC!TokenBlock, BCP!NewBlocks, BC!NewBlocks, BCP!Allocate,
           BC!Allocate, BCP!CallAllocate, BC!CallAllocate, BCP!Cardinality, BC!Cardinality
  <2>3. ASSUME NEW r \in Requests
        PROVE  /\ BCP!ScheduleChunk(r) <=> BC!ScheduleChunk(r)
               /\ BCP!Preempt(r) <=> BC!Preempt(r)
               /\ BCP!Abort(r) <=> BC!Abort(r)
    BY DEF BCP!ScheduleChunk, BC!ScheduleChunk, BCP!Preempt, BC!Preempt, BCP!Abort, BC!Abort
  <2>4. ASSUME NEW r \in Requests PROVE BCP!ScheduleDecode(r) <=> BC!ScheduleDecode(r)
    BY DEF BCP!ScheduleDecode, BC!ScheduleDecode, BCP!CanAppend, BC!CanAppend,
           BCP!MayAppend, BC!MayAppend
  <2>5. ASSUME NEW r \in Requests PROVE BCP!Commit(r) <=> BC!Commit(r)
    BY DEF BCP!Commit, BC!Commit, BCP!HashBlocks, BC!HashBlocks, BCP!FirstToHash,
           BC!FirstToHash, BCP!LastToHash, BC!LastToHash, BCP!SeedHash, BC!SeedHash,
           BCP!ExtendedHash, BC!ExtendedHash
  <2>6. ASSUME NEW r \in Requests
        PROVE  /\ BCP!PostprocessChunk(r) <=> BC!PostprocessChunk(r)
               /\ BCP!PostprocessToken(r) <=> BC!PostprocessToken(r)
               /\ BCP!PostprocessLast(r) <=> BC!PostprocessLast(r)
    BY <2>5 DEF BCP!PostprocessChunk, BC!PostprocessChunk, BCP!PostprocessToken,
           BC!PostprocessToken, BCP!PostprocessLast, BC!PostprocessLast,
           BCP!AppendToken, BC!AppendToken
  <2> QED BY <2>1, <2>2, <2>3, <2>4, <2>6 DEF BCP!Next, BC!Next
<1>4. Init => BC!Init BY <1>1, EngineInitMaps
<1>5. ClientInv /\ [Next]_vars => [BC!Next]_BC!vars
  BY <1>2, <1>3, EngineNextMaps
<1> QED BY <1>4, <1>5, ClientInvariance, PTL DEF Spec, KeepsBlockProtocol, BC!Spec

----------------------------------------------------------------------------
(***************************************************************************)
(* The pool.                                                               *)
(***************************************************************************)

\* A list without duplicates has as many elements as its length says.
LEMMA CountedList ==
  ASSUME NEW S, NEW s \in Seq(S),
         \A i, j \in 1 .. Len(s) : s[i] = s[j] => i = j
  PROVE  LET T == {s[i] : i \in 1 .. Len(s)} IN
         IsFiniteSet(T) /\ Cardinality(T) = Len(s)
<1> DEFINE T == {s[i] : i \in 1 .. Len(s)}
<1>1. Len(s) \in Nat /\ s \in [1 .. Len(s) -> S] OBVIOUS
<1>2. s \in Bijection(1 .. Len(s), T)
  BY <1>1 DEF Bijection, Injection, Surjection, IsInjective
<1>3. ExistsBijection(1 .. Len(s), T) BY <1>2 DEF ExistsBijection
<1>4. Cardinality(T) = Len(s) BY <1>1, <1>3, FS_CountingElements
<1>5. IsFiniteSet(T) BY <1>1, <1>3, FS_NatBijection
<1> QED BY <1>4, <1>5

\* Free list, used set and reference counts in the engine.
LEMMA PoolOf ==
  ASSUME ClientInv
  PROVE  /\ freeList \in Seq(Blocks) /\ used \subseteq Blocks /\ refCount \in [Blocks -> Nat]
         /\ \A b \in Blocks : InFree(b) <=> refCount[b] = 0
         /\ \A b \in Blocks : b \in used <=> refCount[b] # 0
         /\ \A i, j \in 1 .. Len(freeList) : freeList[i] = freeList[j] => i = j
         /\ blockTable \in [Requests -> Seq(Blocks)]
         /\ \A r \in Requests : \A i, j \in 1 .. Len(blockTable[r]) :
              blockTable[r][i] = blockTable[r][j] => i = j
         /\ \A b \in Blocks : refCount[b] =
              Cardinality({r \in Requests :
                             \E i \in 1 .. Len(blockTable[r]) : blockTable[r][i] = b})
<1>1. BCP!Blocks = Blocks BY DEF BCP!Blocks, Blocks
<1>2. \A b \in Blocks : BCP!InFree(b) <=> InFree(b) BY DEF BCP!InFree, InFree
<1>3. \A b \in Blocks : BCP!Cardinality(BCP!Holders(b)) =
        Cardinality({r \in Requests : \E i \in 1 .. Len(blockTable[r]) : blockTable[r][i] = b})
  BY DEF BCP!Cardinality, Cardinality, BCP!Holders, BCP!Holds
<1> QED
  BY <1>1, <1>2, <1>3
  DEF ClientInv, BatchInv, BCP!IInv, BCP!TypeOK, BCP!PoolTypeOK, BCP!RequestTypeOK,
      BCP!FreeUsedAgree,
      BCP!RefCountExact

\* A table is no longer than the pool.
LEMMA TableInPool ==
  ASSUME ClientInv, NEW r \in Requests
  PROVE  blockTable[r] \in Seq(Blocks) /\ Len(blockTable[r]) <= NumKvBlocks
<1> DEFINE s == blockTable[r]
           T == {s[i] : i \in 1 .. Len(s)}
<1>1. s \in Seq(Blocks) /\ \A i, j \in 1 .. Len(s) : s[i] = s[j] => i = j
  BY PoolOf
<1>2. Cardinality(T) = Len(s) BY <1>1, CountedList
<1>3. T \subseteq Blocks BY <1>1
<1>4. IsFiniteSet(Blocks) /\ Cardinality(Blocks) = NumKvBlocks
  BY PoolAssumption, FS_Interval DEF Blocks, PoolAssumption
<1>5. Cardinality(T) <= Cardinality(Blocks) BY <1>3, <1>4, FS_Subset
<1> QED BY <1>1, <1>2, <1>4, <1>5

\* No block is ever lost: free and used ones add up to the pool.
LEMMA PoolComplete == ClientInv => PoolCapacity = NumKvBlocks
<1> SUFFICES ASSUME ClientInv PROVE PoolCapacity = NumKvBlocks
  OBVIOUS
<1> DEFINE free == {freeList[i] : i \in 1 .. Len(freeList)}
<1>1. IsFiniteSet(free) /\ Cardinality(free) = FreeCount
  BY PoolOf, CountedList DEF FreeCount
<1>2. IsFiniteSet(Blocks) /\ Cardinality(Blocks) = NumKvBlocks
  BY PoolAssumption, FS_Interval DEF Blocks, PoolAssumption
<1>3. IsFiniteSet(used) BY <1>2, PoolOf, FS_Subset
<1>4. \A b \in Blocks : b \in free <=> refCount[b] = 0
  BY PoolOf DEF InFree
<1>5. free \subseteq Blocks BY PoolOf
<1>6. free \cup used = Blocks /\ free \cap used = {}
  BY <1>4, <1>5, PoolOf
<1>7. Cardinality(Blocks) = Cardinality(free) + Cardinality(used) - Cardinality({})
  BY <1>1, <1>3, <1>6, FS_Union
<1>8. Cardinality({}) = 0 /\ Cardinality(used) \in Nat /\ Cardinality(free) \in Nat
  BY <1>1, <1>3, FS_EmptySet, FS_CardinalityType
<1> QED BY <1>1, <1>2, <1>7, <1>8 DEF PoolCapacity

\* Past its computed positions a request has blocks of its own, without a hash.
LEMMA TailIsPrivate ==
  ASSUME ClientInv, Idle, NEW r \in Requests, NEW i \in 1 .. Len(blockTable[r]),
         i > numCached[r] \div BlockSize
  PROVE  /\ refCount[blockTable[r][i]] = 1
         /\ blockHash[blockTable[r][i]] = NoHash
         /\ \A q \in Requests : \A j \in 1 .. Len(blockTable[q]) :
              blockTable[q][j] = blockTable[r][i] => q = r
<1> DEFINE b == blockTable[r][i]
           H == {q \in Requests : \E j \in 1 .. Len(blockTable[q]) : blockTable[q][j] = b}
<1>1. b \in Blocks
  BY TableOf
<1>2. BCP!HashedUpTo(r) = numCached[r] \div BlockSize
  BY DEF BCP!HashedUpTo, BCP!Allocating, Idle, NoCall
<1>3. blockHash[b] = NoHash /\ \A q \in Requests : BCP!Holds(q, b) => q = r
  BY <1>2 DEF ClientInv, BCP!IInv, BCP!TailsFresh, BCP!NoHash, NoHash
<1>4. \A q \in Requests : \A j \in 1 .. Len(blockTable[q]) : blockTable[q][j] = b => q = r
  BY <1>3 DEF BCP!Holds
<1>5. H = {r}
  BY <1>4
<1>6. Cardinality(H) = 1
  BY <1>5, FS_Singleton
<1>7. refCount[b] = Cardinality(H)
  BY <1>1, PoolOf
<1> QED BY <1>3, <1>4, <1>6, <1>7

\* A block's worth of tokens fills one more block.
LEMMA NextBlock ==
  ASSUME NEW n \in Nat
  PROVE  (n + BlockSize) \div BlockSize = n \div BlockSize + 1 /\ n \div BlockSize \in Nat
BY BlockSizeAssumption

\* What n positions need, and what comes after the first m < n of them.
LEMMA BlocksForBounds ==
  ASSUME NEW m \in Nat, NEW n \in Nat, m <= n
  PROVE  /\ BlocksFor(m) \in Nat /\ BlocksFor(n) \in Nat
         /\ BlocksFor(m) <= BlocksFor(n)
         /\ m < n => m \div BlockSize < BlocksFor(n)
         /\ m \div BlockSize \in Nat
BY BlockSizeAssumption DEF BlocksFor

\* A forward pass writes blocks that are in the table, past the full ones.
LEMMA WrittenInTable ==
  ASSUME ClientInv, Idle, NEW r \in Requests, InBatch(r), NEW kernel \in BOOLEAN,
         NEW i \in Written(r, kernel)
  PROVE  i \in 1 .. Len(blockTable[r]) /\ i > numCached[r] \div BlockSize
<1>1. /\ Len(blockTable[r]) = NumBlocks(r) /\ blockTable[r] # << >>
      /\ numCached[r] \in Nat /\ numScheduled[r] \in Nat /\ NumTokens(r) \in Nat
      /\ numCached[r] < NumTokens(r) /\ numCached[r] + numScheduled[r] <= NumTokens(r)
  BY InBatchTable, TableOf DEF ClientInv, BatchInv, QueueInv, TokensLeft
<1>2. /\ numCached[r] \div BlockSize < NumBlocks(r) /\ numCached[r] \div BlockSize \in Nat
      /\ BlocksFor(numCached[r] + numScheduled[r]) <= NumBlocks(r)
      /\ NumBlocks(r) \in Nat /\ BlocksFor(numCached[r] + numScheduled[r]) \in Nat
  <2> DEFINE n == numCached[r] + numScheduled[r]
  <2>1. n \in Nat /\ n <= NumTokens(r) BY <1>1
  <2> HIDE DEF n
  <2>2. /\ BlocksFor(n) \in Nat /\ BlocksFor(NumTokens(r)) \in Nat
        /\ BlocksFor(n) <= BlocksFor(NumTokens(r))
    BY <1>1, <2>1, BlocksForBounds
  <2>3. numCached[r] \div BlockSize < BlocksFor(NumTokens(r))
        /\ numCached[r] \div BlockSize \in Nat
    <3>1. numCached[r] \in Nat /\ NumTokens(r) \in Nat /\ numCached[r] <= NumTokens(r)
      BY <1>1
    <3> QED BY <1>1, <3>1, BlocksForBounds
  <2> QED BY <2>2, <2>3 DEF n, NumBlocks
<1> QED BY <1>1, <1>2 DEF Written

\* No forward pass writes a block that another request holds, nor past the end of
\* a table (model_runner.py:317-326, attention.py:57).
THEOREM ForwardWritesArePrivate == ASSUME ~KvSwapEnabled PROVE Spec => []WritesArePrivate
<1>1. ClientInv => WritesArePrivate
  <2> SUFFICES ASSUME ClientInv PROVE WritesArePrivate
    OBVIOUS
  <2>1. ASSUME Idle, NEW r \in Requests, InBatch(r), NEW kernel \in BOOLEAN,
               NEW i \in Written(r, kernel)
        PROVE  i <= Len(blockTable[r]) /\ refCount[blockTable[r][i]] = 1
    <3>1. i \in 1 .. Len(blockTable[r]) /\ i > numCached[r] \div BlockSize
      BY <2>1, WrittenInTable
    <3> QED BY <2>1, <3>1, TailIsPrivate
  <2>2. ASSUME At("runPrefill"), NEW k \in DOMAIN prefillBatch
        PROVE  \A i \in Written(prefillBatch[k], TRUE) :
                 /\ i <= Len(blockTable[prefillBatch[k]])
                 /\ refCount[blockTable[prefillBatch[k]][i]] = 1
    <3>1. prefillBatch[k] \in Requests /\ InBatch(prefillBatch[k])
      BY <2>2, InQueue DEF ClientInv, BatchInv, QueueInv, QueueTypes, InBatch
    <3> QED BY <2>1, <2>2, <3>1 DEF At
  <2>3. ASSUME At("runDecode"), NEW k \in DOMAIN decodeBatch
        PROVE  \A i \in Written(decodeBatch[k], FALSE) :
                 /\ i <= Len(blockTable[decodeBatch[k]])
                 /\ refCount[blockTable[decodeBatch[k]][i]] = 1
    <3>1. decodeBatch[k] \in Requests /\ InBatch(decodeBatch[k])
      BY <2>3, InQueue DEF ClientInv, BatchInv, QueueInv, QueueTypes, InBatch
    <3> QED BY <2>1, <2>3, <3>1 DEF At
  <2> QED BY <2>2, <2>3 DEF WritesArePrivate
<1> QED BY <1>1, ClientInvariance, PTL

\* When no request holds a block the whole pool is free.
LEMMA PoolIsFree ==
  ASSUME ClientInv, \A r \in Requests : blockTable[r] = << >>
  PROVE  FreeCount = NumKvBlocks
<1>1. ASSUME NEW b \in Blocks PROVE refCount[b] = 0
  <2>1. {r \in Requests : \E i \in 1 .. Len(blockTable[r]) : blockTable[r][i] = b} = {}
    OBVIOUS
  <2> QED BY <2>1, PoolOf, FS_EmptySet
<1>2. used = {} BY <1>1, PoolOf
<1>3. PoolCapacity = NumKvBlocks /\ FreeCount \in Nat
  BY PoolComplete, PoolOf DEF FreeCount
<1>4. Cardinality(used) = 0 BY <1>2, FS_EmptySet
<1> QED BY <1>3, <1>4 DEF PoolCapacity

\* When nothing is live no request holds a block, so the whole pool is free again
\* (block_manager.py:117, scheduler.py:453).
THEOREM PoolComesBack == ASSUME ~KvSwapEnabled PROVE Spec => []NoLeak
<1>1. ClientInv => NoLeak
  <2> SUFFICES ASSUME ClientInv, At("idle"), IsFinished
               PROVE  FreeCount = NumKvBlocks /\ Len(cpuFree) = NumCpuBlocks
    BY DEF NoLeak
  <2>1. ASSUME NEW r \in Requests PROVE blockTable[r] = << >>
    <3>1. status[r] \notin {"waiting", "running"}
      BY EmptyQueue DEF IsFinished, ClientInv, BatchInv, QueueInv, QueueOfStatus, Runs, At
    <3>2. CASE status[r] \in {"new", "rejected"}
      BY <3>2 DEF ClientInv, BatchInv, EmptyTables
    <3>3. CASE Ended(r)
      BY <3>3, TableOf DEF At
    <3> QED BY <3>1, <3>2, <3>3 DEF Ended, ClientInv, BatchInv, QueueInv, ProgressTypes
  <2>2. FreeCount = NumKvBlocks BY <2>1, PoolIsFree
  <2>3. Len(cpuFree) = NumCpuBlocks
    <3>1. cpuFree = [i \in 1 .. NumCpuBlocks |-> i - 1]
      BY DEF ClientInv, BatchInv, NothingSwapped
    <3> QED BY <3>1, CpuPoolAssumption DEF CpuPoolAssumption
  <2> QED BY <2>2, <2>3
<1> QED BY <1>1, ClientInvariance, PTL

----------------------------------------------------------------------------
(***************************************************************************)
(* The inductive invariant, on top of ClientInv.                           *)
(***************************************************************************)

KvTypes == gpuKv \in [Blocks -> Seq(Token)] /\ cpuKv \in [CpuBlocks -> Seq(Token)]

\* A block with a hash holds the whole prefix that the hash stands for.
HashedContent == \A b \in Blocks : blockHash[b] # NoHash => gpuKv[b] = blockHash[b]

\* The batch of r has been through the forward pass, and r not through postprocess.
Forwarded(r) ==
  \/ pc = "postPrefill" /\ Contains(prefillBatch, r)
  \/ pc = "postDecode" /\ Contains(decodeBatch, r)

\* How many positions of r have their keys and values in the cache.
Ready(r) == IF Forwarded(r) THEN numCached[r] + numScheduled[r] ELSE numCached[r]

Deallocating(r) == call.op = "deallocate" /\ call.seq = r

\* The blocks of a table hold the first n of the tokens, as PrefixIntact says.
HeldIn(kv, table, tokens, n) ==
  \A i \in 1 .. BlocksFor(n) :
    LET upTo == IF n < i * BlockSize THEN n ELSE i * BlockSize
    IN  /\ Len(kv[table[i]]) \in upTo .. i * BlockSize
        /\ SubSeq(kv[table[i]], 1, upTo) = SubSeq(tokens, 1, upTo)

\* Unless its blocks are being taken away, what is computed of r is in its blocks.
Computed ==
  \A r \in Requests :
    ~Deallocating(r) => HeldIn(gpuKv, blockTable[r], tokenIds[r], Ready(r))

\* A decode turn computes one position.
DecodeTurns == \A r \in Requests : Contains(decodeBatch, r) => numScheduled[r] = 1

KvInv == ClientInv /\ KvTypes /\ HashedContent /\ Computed /\ DecodeTurns

----------------------------------------------------------------------------
(***************************************************************************)
(* Prefixes in blocks.                                                     *)
(***************************************************************************)

\* The smaller of two numbers.
LEMMA MinOfTwo ==
  ASSUME NEW m \in Nat, NEW n \in Nat
  PROVE  Min({m, n}) = IF m < n THEN m ELSE n
<1>1. \E x \in {m, n} : \A y \in {m, n} : x =< y
  <2>1. CASE m =< n BY <2>1
  <2>2. CASE n =< m BY <2>2
  <2> QED BY <2>1, <2>2
<1>2. Min({m, n}) \in {m, n} /\ \A y \in {m, n} : Min({m, n}) =< y
  BY <1>1 DEF Min
<1> QED BY <1>2

\* A multiple of the block size is a number of tokens.
LEMMA WholeBlocks ==
  ASSUME NEW i \in Nat
  PROVE  i * BlockSize \in Nat /\ (i > 0 => i * BlockSize >= BlockSize)
BY BlockSizeAssumption

\* HeldIn is PrefixIntact.
LEMMA HeldIsIntact ==
  ASSUME NEW r, NEW n \in Nat
  PROVE  PrefixIntact(r, n) <=> HeldIn(gpuKv, blockTable[r], tokenIds[r], n)
<1>1. ASSUME NEW i \in 1 .. BlocksFor(n)
      PROVE  Min({n, i * BlockSize}) = IF n < i * BlockSize THEN n ELSE i * BlockSize
  <2>1. i * BlockSize \in Nat BY WholeBlocks
  <2> HIDE DEF BlocksFor
  <2> QED BY <2>1, MinOfTwo
<1> QED BY <1>1 DEF PrefixIntact, HeldIn

\* Nothing is needed to hold no token.
LEMMA NothingHeld ==
  ASSUME NEW kv, NEW table, NEW tokens
  PROVE  HeldIn(kv, table, tokens, 0)
<1>1. BlocksFor(0) = 0 BY BlockSizeAssumption DEF BlocksFor
<1> QED BY <1>1 DEF HeldIn

\* A prefix stays held while its blocks keep their content and their place in the
\* table, and its tokens stay.
LEMMA StillHeld ==
  ASSUME NEW kv, NEW kv2, NEW table, NEW table2, NEW tokens, NEW tokens2, NEW n \in Nat,
         HeldIn(kv, table, tokens, n),
         \A i \in 1 .. BlocksFor(n) : kv2[table2[i]] = kv[table[i]],
         \A k \in 0 .. n : SubSeq(tokens2, 1, k) = SubSeq(tokens, 1, k)
  PROVE  HeldIn(kv2, table2, tokens2, n)
<1> SUFFICES ASSUME NEW i \in 1 .. BlocksFor(n), NEW upTo,
                    upTo = IF n < i * BlockSize THEN n ELSE i * BlockSize
             PROVE  /\ Len(kv2[table2[i]]) \in upTo .. i * BlockSize
                    /\ SubSeq(kv2[table2[i]], 1, upTo) = SubSeq(tokens2, 1, upTo)
  BY DEF HeldIn
<1>1. i * BlockSize \in Nat BY WholeBlocks
<1>2. upTo \in 0 .. n BY <1>1
<1>3. /\ Len(kv[table[i]]) \in upTo .. i * BlockSize
      /\ SubSeq(kv[table[i]], 1, upTo) = SubSeq(tokens, 1, upTo)
  BY DEF HeldIn
<1> QED BY <1>2, <1>3

\* A block within the held prefix that is full holds all tokens up to its end.
LEMMA FullBlockHeld ==
  ASSUME NEW kv, NEW table, NEW tokens, NEW n \in Nat, HeldIn(kv, table, tokens, n),
         NEW i \in Nat \ {0}, i * BlockSize <= n, kv[table[i]] \in Seq(Token)
  PROVE  kv[table[i]] = SubSeq(tokens, 1, i * BlockSize)
<1>1. i \in 1 .. BlocksFor(n)
  <2>1. i * BlockSize \in Nat BY WholeBlocks
  <2>2. (i * BlockSize) \div BlockSize = i BY BCP!DivOfMultiple, BlockSizeAssumption
  <2>3. i <= n \div BlockSize
    BY <2>1, <2>2, BCP!DivMonotone, BlockSizeAssumption
  <2>4. n \div BlockSize <= BlocksFor(n) /\ BlocksFor(n) \in Nat /\ n \div BlockSize \in Nat
    BY BlockSizeAssumption DEF BlocksFor
  <2> QED BY <2>3, <2>4
<1>2. i * BlockSize \in Nat /\ ~(n < i * BlockSize) BY WholeBlocks
<1>3. /\ Len(kv[table[i]]) \in i * BlockSize .. i * BlockSize
      /\ SubSeq(kv[table[i]], 1, i * BlockSize) = SubSeq(tokens, 1, i * BlockSize)
  BY <1>1, <1>2 DEF HeldIn
<1>4. Len(kv[table[i]]) = i * BlockSize BY <1>2, <1>3
<1>5. SubSeq(kv[table[i]], 1, Len(kv[table[i]])) = kv[table[i]] OBVIOUS
<1> QED BY <1>3, <1>4, <1>5

----------------------------------------------------------------------------
(***************************************************************************)
(* The forward pass.                                                       *)
(***************************************************************************)

\* A forward pass gives every block it writes for a request of its batch the
\* content computed for it, and leaves the blocks it does not write alone.
LEMMA ForwardEffect ==
  ASSUME ClientInv, Idle, NEW batch \in Seq(Requests), NEW kernel \in BOOLEAN,
         Forward(batch, kernel),
         \A r \in Requests : Contains(batch, r) => InBatch(r)
  PROVE  /\ \A r \in Requests : Contains(batch, r) => \A i \in Written(r, kernel) :
              gpuKv'[blockTable[r][i]] = ContentOf(r, i, kernel)
         /\ \A b \in Blocks : gpuKv'[b] = gpuKv[b] \/
              \E r \in Requests : Contains(batch, r) /\ \E i \in Written(r, kernel) :
                blockTable[r][i] = b /\ gpuKv'[b] = ContentOf(r, i, kernel)
         /\ gpuKv' = [b \in Blocks |-> gpuKv'[b]]
<1> DEFINE Writers(b) == {w \in Range(batch) \X (1 .. NumKvBlocks) :
                            /\ w[2] \in Written(w[1], kernel)
                            /\ w[2] <= Len(blockTable[w[1]])
                            /\ blockTable[w[1]][w[2]] = b}
           Of(w) == ContentOf(w[1], w[2], kernel)
           Writer(b) == CHOOSE w \in Writers(b) : TRUE
           New(b) == IF Writers(b) = {} THEN gpuKv[b] ELSE Of(Writer(b))
<1>1. gpuKv' = [b \in Blocks |-> New(b)]
  BY DEF Forward
<1>2. Range(batch) \subseteq Requests /\ \A e : e \in Range(batch) <=> Contains(batch, e)
  BY DEF Range, Contains
<1>3. ASSUME NEW b, NEW w \in Writers(b)
      PROVE  /\ w[1] \in Requests /\ Contains(batch, w[1]) /\ w[2] \in Written(w[1], kernel)
             /\ blockTable[w[1]][w[2]] = b
             /\ w[2] \in 1 .. Len(blockTable[w[1]])
             /\ w[2] > numCached[w[1]] \div BlockSize
  <2>1. /\ w[1] \in Requests /\ Contains(batch, w[1]) /\ w[2] \in Written(w[1], kernel)
        /\ blockTable[w[1]][w[2]] = b
    BY <1>2
  <2> HIDE DEF Writers
  <2> QED BY <2>1, WrittenInTable
<1>4. ASSUME NEW b, Writers(b) # {} PROVE Writer(b) \in Writers(b)
  BY <1>4
<1>5. ASSUME NEW r \in Requests, Contains(batch, r), NEW i \in Written(r, kernel)
      PROVE  gpuKv'[blockTable[r][i]] = ContentOf(r, i, kernel)
  <2> DEFINE b == blockTable[r][i]
             w == Writer(b)
  <2>1. /\ i \in 1 .. Len(blockTable[r]) /\ i > numCached[r] \div BlockSize
        /\ blockTable[r] \in Seq(Blocks) /\ Len(blockTable[r]) <= NumKvBlocks
    BY <1>5, WrittenInTable, TableInPool
  <2>2. b \in Blocks /\ i \in 1 .. NumKvBlocks
    BY <2>1, PoolAssumption DEF PoolAssumption
  <2>3. <<r, i>> \in Writers(b)
    BY <1>2, <1>5, <2>1, <2>2
  <2>4. w \in Writers(b) BY <2>3, <1>4
  <2>5. /\ w[1] \in Requests /\ blockTable[w[1]][w[2]] = b
        /\ w[2] \in 1 .. Len(blockTable[w[1]])
    BY <2>4, <1>3
  <2>6. w[1] = r BY <2>1, <2>5, TailIsPrivate
  <2>7. w[2] = i BY <2>1, <2>5, <2>6, PoolOf
  <2>8. Of(w) = ContentOf(r, i, kernel) BY <2>6, <2>7
  <2> QED BY <1>1, <2>2, <2>3, <2>8
<1>6. ASSUME NEW b \in Blocks, gpuKv'[b] # gpuKv[b]
      PROVE  \E r \in Requests : Contains(batch, r) /\ \E i \in Written(r, kernel) :
               blockTable[r][i] = b /\ gpuKv'[b] = ContentOf(r, i, kernel)
  <2>1. Writers(b) # {} /\ gpuKv'[b] = Of(Writer(b))
    BY <1>1, <1>6
  <2>2. Writer(b) \in Writers(b) BY <2>1, <1>4
  <2> QED BY <2>1, <2>2, <1>3
<1> HIDE DEF New
<1>7. gpuKv' = [b \in Blocks |-> gpuKv'[b]] BY <1>1
<1> HIDE DEF Writers, Of, Writer
<1> QED BY <1>5, <1>6, <1>7

\* What is written is a prefix, or nothing that is of use.
LEMMA ContentType ==
  ASSUME ClientInv, Idle, NEW r \in Requests, NEW i \in Nat, NEW kernel \in BOOLEAN
  PROVE  ContentOf(r, i, kernel) \in Seq(Token)
<1>1. tokenIds[r] \in Seq(Token) /\ numCached[r] + numScheduled[r] \in 0 .. Len(tokenIds[r])
  BY TableOf DEF ClientInv, BatchInv, QueueInv, ProgressTypes, TokensLeft, NumTokens
<1> DEFINE n == numCached[r] + numScheduled[r]
           m == Min({n, i * BlockSize})
<1>2. m \in 0 .. Len(tokenIds[r])
  <2>1. i * BlockSize \in Nat /\ n \in Nat BY <1>1, WholeBlocks
  <2>2. m = IF n < i * BlockSize THEN n ELSE i * BlockSize BY <2>1, MinOfTwo
  <2> QED BY <1>1, <2>1, <2>2
<1> HIDE DEF m
<1>3. SubSeq(tokenIds[r], 1, m) \in Seq(Token) BY <1>1, <1>2
<1>4. Garbage \in Seq(Token) BY DEF Garbage
<1> QED BY <1>3, <1>4 DEF ContentOf, m

\* The blocks outside of what a pass writes for r keep their content.
LEMMA NotWritten ==
  ASSUME ClientInv, Idle, NEW batch \in Seq(Requests), NEW kernel \in BOOLEAN,
         Forward(batch, kernel),
         \A q \in Requests : Contains(batch, q) => InBatch(q),
         NEW r \in Requests, NEW i \in 1 .. Len(blockTable[r]),
         ~Contains(batch, r) \/ i \notin Written(r, kernel)
  PROVE  gpuKv'[blockTable[r][i]] = gpuKv[blockTable[r][i]]
<1> DEFINE b == blockTable[r][i]
<1>1. b \in Blocks BY TableInPool
<1> SUFFICES ASSUME gpuKv'[b] # gpuKv[b] PROVE FALSE
  OBVIOUS
<1>2. PICK q \in Requests : Contains(batch, q) /\ \E j \in Written(q, kernel) : blockTable[q][j] = b
  BY <1>1, ForwardEffect
<1>3. PICK j \in Written(q, kernel) : blockTable[q][j] = b BY <1>2
<1>4. j \in 1 .. Len(blockTable[q]) /\ j > numCached[q] \div BlockSize
  BY <1>2, WrittenInTable
<1>5. r = q BY <1>3, <1>4, TailIsPrivate
<1>6. i = j BY <1>3, <1>4, <1>5, PoolOf
<1> QED BY <1>2, <1>3, <1>5, <1>6

\* What the tables and the numbers of a request in a batch say of the positions
\* that the pass computes, and of the blocks that it writes.
LEMMA BatchNumbers ==
  ASSUME ClientInv, Idle, NEW r \in Requests, InBatch(r), NEW kernel \in BOOLEAN,
         ~kernel => numScheduled[r] = 1 /\ status[r] = "running"
  PROVE  /\ numCached[r] \in Nat /\ numScheduled[r] \in Nat /\ numScheduled[r] > 0
         /\ tokenIds[r] \in Seq(Token) /\ NumTokens(r) = Len(tokenIds[r]) /\ NumTokens(r) \in Nat
         /\ numCached[r] + numScheduled[r] <= NumTokens(r)
         /\ Len(blockTable[r]) = NumBlocks(r)
         /\ BlocksFor(numCached[r] + numScheduled[r]) <= Len(blockTable[r])
         /\ ~kernel => numCached[r] = NumTokens(r) - 1
         /\ \A i \in 1 .. BlocksFor(numCached[r] + numScheduled[r]) :
              i \in Written(r, kernel) \/ i * BlockSize <= numCached[r]
<1> DEFINE c == numCached[r]
           n == numCached[r] + numScheduled[r]
<1>1. /\ c \in Nat /\ numScheduled[r] \in Nat /\ numScheduled[r] > 0
      /\ tokenIds[r] \in Seq(Token) /\ NumTokens(r) = Len(tokenIds[r]) /\ NumTokens(r) \in Nat
      /\ n <= NumTokens(r) /\ n \in Nat /\ c < n
      /\ Len(blockTable[r]) = NumBlocks(r)
  BY InBatchTable, TableOf DEF ClientInv, BatchInv, QueueInv, TokensLeft, NumTokens, ProgressTypes
<1>2. ASSUME ~kernel PROVE c = NumTokens(r) - 1 /\ n = NumTokens(r)
  <2>1. numScheduled[r] = 1 /\ status[r] = "running" BY <1>2
  <2> QED BY <1>1, <2>1, TableOf
<1>3. BlocksFor(n) <= Len(blockTable[r]) /\ BlocksFor(n) \in Nat
  <2> HIDE DEF n
  <2> QED BY <1>1, BlocksForBounds DEF NumBlocks
<1>4. ASSUME NEW i \in 1 .. BlocksFor(n), i <= c \div BlockSize
      PROVE  i * BlockSize <= c
  <2>1. i \in Nat /\ c \div BlockSize \in Nat BY <1>1, <1>4, BCP!DivBounds, BlockSizeAssumption
  <2>2. i * BlockSize <= (c \div BlockSize) * BlockSize
    BY <1>4, <2>1, BCP!MulMonotone, BlockSizeAssumption
  <2>3. (c \div BlockSize) * BlockSize <= c
    BY <1>1, BCP!DivBounds, BlockSizeAssumption
  <2>4. i * BlockSize \in Nat /\ (c \div BlockSize) * BlockSize \in Nat
    BY <2>1, WholeBlocks
  <2> HIDE DEF c
  <2> QED BY <1>1, <2>2, <2>3, <2>4
<1>5. ASSUME NEW i \in 1 .. BlocksFor(n), i \notin Written(r, kernel)
      PROVE  i <= c \div BlockSize
  <2>1. CASE kernel
    <3>1. c \div BlockSize \in Nat
      <4>1. c \in Nat BY <1>1
      <4> QED BY <4>1, BCP!DivBounds, BlockSizeAssumption
    <3> QED BY <1>3, <1>5, <2>1, <3>1 DEF Written
  <2>2. CASE ~kernel
    <3>1. i # BlocksFor(n) BY <1>1, <1>2, <1>5, <2>2 DEF Written, NumBlocks
    <3>2. BlocksFor(n) = c \div BlockSize + 1 /\ c \div BlockSize \in Nat
      <4>1. n = c + 1 BY <1>1, <1>2, <2>2
      <4> HIDE DEF n
      <4>2. BlocksFor(c + 1) = (c + BlockSize) \div BlockSize
        <5>1. c \in Nat BY <1>1
        <5> HIDE DEF c
        <5>2. (c + 1) + BlockSize - 1 = c + BlockSize BY <5>1, BlockSizeAssumption
        <5> QED BY <5>2 DEF BlocksFor
      <4>3. (c + BlockSize) \div BlockSize = c \div BlockSize + 1 /\ c \div BlockSize \in Nat
        <5>1. c \in Nat BY <1>1
        <5> HIDE DEF c
        <5> QED BY <5>1, NextBlock
      <4> QED BY <4>1, <4>2, <4>3
    <3> HIDE DEF n, c
    <3> QED BY <1>5, <3>1, <3>2
  <2> QED BY <2>1, <2>2
<1> HIDE DEF n
<1>6. \A i \in 1 .. BlocksFor(n) : i \in Written(r, kernel) \/ i * BlockSize <= c
  BY <1>4, <1>5
<1> QED BY <1>1, <1>2, <1>3, <1>6 DEF n

\* A request that went through the pass with sound inputs has one more stretch of
\* its tokens in its blocks.
LEMMA BatchHeld ==
  ASSUME ClientInv, KvTypes, Idle, NEW batch \in Seq(Requests), NEW kernel \in BOOLEAN,
         Forward(batch, kernel),
         \A q \in Requests : Contains(batch, q) =>
           InBatch(q) /\ (~kernel => numScheduled[q] = 1 /\ status[q] = "running"),
         NEW r \in Requests, Contains(batch, r),
         HeldIn(gpuKv, blockTable[r], tokenIds[r], numCached[r])
  PROVE  HeldIn(gpuKv', blockTable[r], tokenIds[r], numCached[r] + numScheduled[r])
<1> DEFINE n == numCached[r] + numScheduled[r]
<1>1. /\ numCached[r] \in Nat /\ numScheduled[r] \in Nat /\ n \in Nat
      /\ tokenIds[r] \in Seq(Token) /\ NumTokens(r) = Len(tokenIds[r]) /\ n <= Len(tokenIds[r])
      /\ Len(blockTable[r]) = NumBlocks(r) /\ BlocksFor(n) <= Len(blockTable[r])
      /\ ~kernel => numCached[r] = NumTokens(r) - 1
      /\ \A i \in 1 .. BlocksFor(n) : i \in Written(r, kernel) \/ i * BlockSize <= numCached[r]
  BY BatchNumbers
<1>2. InputsOk(r, kernel)
  <2>1. PrefixIntact(r, numCached[r]) BY <1>1, HeldIsIntact
  <2>2. NumBlocks(r) <= Len(blockTable[r]) /\ Len(blockTable[r]) = NumBlocks(r)
    <3>1. Len(blockTable[r]) \in Nat BY TableInPool
    <3> QED BY <1>1, <3>1
  <2>3. CASE kernel BY <2>1, <2>2, <2>3 DEF InputsOk
  <2>4. CASE ~kernel
    <3>1. numCached[r] = NumTokens(r) - 1 BY <1>1, <2>4
    <3> QED BY <2>1, <2>2, <2>4, <3>1 DEF InputsOk
  <2> QED BY <2>3, <2>4
<1> HIDE DEF n
<1>3. BlocksFor(n) \in Nat BY <1>1, BlocksForBounds
<1> SUFFICES ASSUME NEW i \in 1 .. BlocksFor(n), NEW upTo,
                    upTo = IF n < i * BlockSize THEN n ELSE i * BlockSize
             PROVE  /\ Len(gpuKv'[blockTable[r][i]]) \in upTo .. i * BlockSize
                    /\ SubSeq(gpuKv'[blockTable[r][i]], 1, upTo) = SubSeq(tokenIds[r], 1, upTo)
  BY DEF HeldIn, n
<1>4. i * BlockSize \in Nat /\ i \in Nat \ {0} BY <1>3, WholeBlocks
<1>5. upTo \in 0 .. Len(tokenIds[r]) /\ upTo <= i * BlockSize
  BY <1>1, <1>4
<1>6. CASE i \in Written(r, kernel)
  <2>1. gpuKv'[blockTable[r][i]] = ContentOf(r, i, kernel)
    BY <1>6, ForwardEffect
  <2>2. Min({n, i * BlockSize}) = upTo BY <1>1, <1>4, MinOfTwo
  <2>3. ContentOf(r, i, kernel) = SubSeq(tokenIds[r], 1, upTo)
    BY <1>2, <2>2 DEF ContentOf, n
  <2>4. Len(SubSeq(tokenIds[r], 1, upTo)) = upTo
        /\ SubSeq(SubSeq(tokenIds[r], 1, upTo), 1, upTo) = SubSeq(tokenIds[r], 1, upTo)
    BY <1>1, <1>5
  <2> QED BY <2>1, <2>3, <2>4, <1>4, <1>5
<1>7. CASE i \notin Written(r, kernel)
  <2>1. i * BlockSize <= numCached[r] BY <1>1, <1>7
  <2>2. i \in 1 .. Len(blockTable[r]) /\ blockTable[r] \in Seq(Blocks)
    BY <1>1, <1>3, TableInPool
  <2>3. gpuKv'[blockTable[r][i]] = gpuKv[blockTable[r][i]]
    BY <1>7, <2>2, NotWritten
  <2>4. gpuKv[blockTable[r][i]] \in Seq(Token) BY <2>2 DEF KvTypes
  <2>5. gpuKv[blockTable[r][i]] = SubSeq(tokenIds[r], 1, i * BlockSize)
    <3>1. numCached[r] \in Nat BY <1>1
    <3> QED BY <1>4, <2>1, <2>4, <3>1, FullBlockHeld
  <2>6. upTo = i * BlockSize
    BY <1>1, <1>4, <2>1 DEF n
  <2>7. Len(SubSeq(tokenIds[r], 1, upTo)) = upTo
        /\ SubSeq(SubSeq(tokenIds[r], 1, upTo), 1, upTo) = SubSeq(tokenIds[r], 1, upTo)
    BY <1>1, <1>5
  <2> QED BY <2>3, <2>5, <2>6, <2>7, <1>4, <1>5
<1> QED BY <1>6, <1>7

----------------------------------------------------------------------------
(***************************************************************************)
(* Every part of the invariant is kept by every step.                      *)
(***************************************************************************)

\* The number of positions that are computed.
LEMMA ReadyType ==
  ASSUME KvInv, NEW r \in Requests
  PROVE  Ready(r) \in Nat /\ Ready(r) <= NumTokens(r) /\ numCached[r] \in Nat
BY DEF KvInv, ClientInv, BatchInv, QueueInv, ProgressTypes, TokensLeft, NumTokens, Ready

\* What is computed between calls is within the table.
LEMMA HeldInTable ==
  ASSUME ClientInv, Idle, NEW r \in Requests
  PROVE  /\ BlocksFor(numCached[r]) <= Len(blockTable[r])
         /\ BlocksFor(numCached[r]) \in Nat /\ Len(blockTable[r]) \in Nat
<1>1. /\ NumTokens(r) \in Nat \ {0} /\ numCached[r] \in Nat /\ Len(blockTable[r]) \in Nat
      /\ \/ Len(blockTable[r]) = 0 /\ numCached[r] = 0
         \/ Len(blockTable[r]) = NumBlocks(r) /\ numCached[r] <= NumTokens(r)
         \/ Len(blockTable[r]) = BlocksFor(NumTokens(r) - 1) /\ numCached[r] = NumTokens(r) - 1
  <2>1. NumTokens(r) \in Nat \ {0} /\ numCached[r] \in Nat /\ Len(blockTable[r]) \in Nat
        /\ numScheduled[r] \in Nat
    BY TableOf, TableInPool
  <2>2. status[r] \in {"new", "rejected", "waiting"} \/ status[r] = "running" \/ Ended(r)
    BY DEF Ended, ClientInv, BatchInv, QueueInv, ProgressTypes
  <2>3. Len(<< >>) = 0 OBVIOUS
  <2> QED BY <2>1, <2>2, <2>3, TableOf
<1>2. BlocksFor(0) = 0 BY BlockSizeAssumption DEF BlocksFor
<1>3. BlocksFor(numCached[r]) \in Nat
  <2>1. numCached[r] \in Nat /\ numCached[r] <= numCached[r] BY <1>1
  <2> QED BY <2>1, BlocksForBounds
<1>4. numCached[r] <= NumTokens(r) => BlocksFor(numCached[r]) <= NumBlocks(r)
  BY <1>1, BlocksForBounds DEF NumBlocks
<1> QED BY <1>1, <1>2, <1>3, <1>4

\* A forward pass adds the scheduled positions of its batch to what is computed,
\* and writes no block that has a hash.
LEMMA ForwardStep ==
  ASSUME KvInv, Idle, NEW batch \in Seq(Requests), NEW kernel \in BOOLEAN,
         Forward(batch, kernel),
         \A q \in Requests : Contains(batch, q) =>
           InBatch(q) /\ (~kernel => numScheduled[q] = 1 /\ status[q] = "running"),
         \A q \in Requests : ~Forwarded(q),
         \A q \in Requests : Forwarded(q)' <=> Contains(batch, q),
         UNCHANGED <<blockTable, tokenIds, numCached, numScheduled, blockHash, cpuKv>>
  PROVE  KvTypes' /\ HashedContent' /\ Computed'
<1>1. /\ \A b \in Blocks : gpuKv'[b] = gpuKv[b] \/
           \E r \in Requests : Contains(batch, r) /\ \E i \in Written(r, kernel) :
             blockTable[r][i] = b /\ gpuKv'[b] = ContentOf(r, i, kernel)
      /\ gpuKv' = [b \in Blocks |-> gpuKv'[b]]
  BY ForwardEffect DEF KvInv
<1>2. ASSUME NEW b \in Blocks, gpuKv'[b] # gpuKv[b]
      PROVE  gpuKv'[b] \in Seq(Token) /\ blockHash[b] = NoHash
  <2>1. PICK r \in Requests : Contains(batch, r) /\ \E i \in Written(r, kernel) :
               blockTable[r][i] = b /\ gpuKv'[b] = ContentOf(r, i, kernel)
    BY <1>1, <1>2
  <2>2. PICK i \in Written(r, kernel) :
               blockTable[r][i] = b /\ gpuKv'[b] = ContentOf(r, i, kernel)
    BY <2>1
  <2>3. i \in 1 .. Len(blockTable[r]) /\ i > numCached[r] \div BlockSize
    BY <2>1, WrittenInTable DEF KvInv
  <2>4. blockHash[b] = NoHash BY <2>2, <2>3, TailIsPrivate DEF KvInv
  <2>5. ContentOf(r, i, kernel) \in Seq(Token)
    <3>1. i \in Nat BY <2>3
    <3> QED BY <3>1, ContentType DEF KvInv
  <2> QED BY <2>2, <2>4, <2>5
<1>3. KvTypes' BY <1>1, <1>2 DEF KvInv, KvTypes
<1>4. HashedContent' BY <1>2 DEF KvInv, HashedContent
<1>5. ASSUME NEW r \in Requests
      PROVE  HeldIn(gpuKv', blockTable'[r], tokenIds'[r], Ready(r)')
  <2>1. HeldIn(gpuKv, blockTable[r], tokenIds[r], numCached[r])
    BY DEF KvInv, Computed, Ready, Deallocating, Idle, NoCall
  <2>2. CASE Contains(batch, r)
    <3>1. HeldIn(gpuKv', blockTable[r], tokenIds[r], numCached[r] + numScheduled[r])
      BY <2>1, <2>2, BatchHeld DEF KvInv
    <3>2. Ready(r)' = numCached[r] + numScheduled[r] BY <2>2 DEF Ready
    <3> QED BY <3>1, <3>2
  <2>3. CASE ~Contains(batch, r)
    <3>1. Ready(r)' = numCached[r] /\ numCached[r] \in Nat BY <2>3, ReadyType DEF Ready
    <3>2. \A i \in 1 .. BlocksFor(numCached[r]) :
            gpuKv'[blockTable'[r][i]] = gpuKv[blockTable[r][i]]
      <4> SUFFICES ASSUME NEW i \in 1 .. BlocksFor(numCached[r])
                   PROVE  gpuKv'[blockTable[r][i]] = gpuKv[blockTable[r][i]]
        OBVIOUS
      <4>1. i \in 1 .. Len(blockTable[r])
        BY HeldInTable DEF KvInv
      <4> QED BY <2>3, <4>1, NotWritten DEF KvInv
    <3>3. \A k \in 0 .. numCached[r] : SubSeq(tokenIds'[r], 1, k) = SubSeq(tokenIds[r], 1, k)
      OBVIOUS
    <3> QED BY <2>1, <3>1, <3>2, <3>3, StillHeld
  <2> QED BY <2>2, <2>3
<1>6. Computed' BY <1>5 DEF Computed
<1> QED BY <1>3, <1>4, <1>6

\* A step outside of forward passes that leaves cache, tables and tokens alone.
LEMMA QuietStep ==
  ASSUME KvInv, Idle, UNCHANGED <<gpuKv, cpuKv, blockTable, tokenIds, numCached, blockHash>>,
         \A r \in Requests : ~Forwarded(r) /\ ~Forwarded(r)'
  PROVE  KvTypes' /\ HashedContent' /\ Computed'
<1>1. ASSUME NEW r \in Requests
      PROVE  HeldIn(gpuKv', blockTable'[r], tokenIds'[r], Ready(r)')
  <2>1. HeldIn(gpuKv, blockTable[r], tokenIds[r], Ready(r))
    BY DEF KvInv, Computed, Deallocating, Idle, NoCall
  <2>2. Ready(r)' = Ready(r) BY DEF Ready
  <2> QED BY <2>1, <2>2
<1> QED BY <1>1 DEF KvInv, KvTypes, HashedContent, Computed

\* Every forward pass keeps the content sound, also one that runs out of memory.
LEMMA RunKvStep ==
  ASSUME KvInv, RunPrefill \/ RunDecode
  PROVE  KvTypes' /\ HashedContent' /\ Computed'
<1>1. ASSUME NEW batch \in Seq(Requests), NEW kernel \in BOOLEAN, NEW post, NEW oom,
             Run(batch, kernel, post, oom), Idle,
             pc = IF kernel THEN "runPrefill" ELSE "runDecode",
             post = IF kernel THEN "postPrefill" ELSE "postDecode",
             oom \in {"oomPrefill", "oomDecode"},
             batch = IF kernel THEN prefillBatch ELSE decodeBatch
      PROVE  KvTypes' /\ HashedContent' /\ Computed'
  <2>1. /\ UNCHANGED <<blockTable, tokenIds, numCached, numScheduled, blockHash, cpuKv,
                       prefillBatch, decodeBatch>>
        /\ \/ Forward(batch, kernel) /\ pc' = post
           \/ pc' = oom /\ UNCHANGED gpuKv
    BY <1>1 DEF Run, requestVars, bmVars, cacheVars, batchVars
  <2>2. \A r \in Requests : ~Forwarded(r) BY <1>1 DEF Forwarded
  <2>3. CASE Forward(batch, kernel) /\ pc' = post
    <3>1. \A q \in Requests : Forwarded(q)' <=> Contains(batch, q)
      BY <1>1, <2>1, <2>3 DEF Forwarded
    <3>2. \A q \in Requests : Contains(batch, q) =>
            InBatch(q) /\ (~kernel => numScheduled[q] = 1 /\ status[q] = "running")
      <4>1. CASE kernel
        BY <1>1, <4>1 DEF InBatch
      <4>2. CASE ~kernel
        BY <1>1, <4>2 DEF InBatch, KvInv, DecodeTurns, ClientInv, BatchInv, QueueInv,
                          QueueOfStatus
      <4> QED BY <4>1, <4>2
    <3> QED BY <1>1, <2>1, <2>2, <2>3, <3>1, <3>2, ForwardStep
  <2>4. CASE pc' = oom /\ UNCHANGED gpuKv
    <3>1. \A r \in Requests : ~Forwarded(r)' BY <1>1, <2>4 DEF Forwarded
    <3> QED BY <1>1, <2>1, <2>2, <2>4, <3>1, QuietStep
  <2> QED BY <2>1, <2>3, <2>4
<1>2. prefillBatch \in Seq(Requests) /\ decodeBatch \in Seq(Requests)
  BY DEF KvInv, ClientInv, BatchInv, QueueInv, QueueTypes
<1>3. CASE RunPrefill
  BY <1>1, <1>2, <1>3 DEF RunPrefill, At
<1>4. CASE RunDecode
  BY <1>1, <1>2, <1>4 DEF RunDecode, At
<1> QED BY <1>3, <1>4

\* Taking a block off the free list forgets its hash, and no other.
LEMMA EvictedContent ==
  ASSUME KvInv, NEW b, AllocateBlock(b), UNCHANGED gpuKv
  PROVE  HashedContent'
<1>1. blockHash' = [blockHash EXCEPT ![b] = NoHash] BY DEF AllocateBlock
<1>2. blockHash \in [Blocks -> Seq(Token)]
  BY DEF KvInv, ClientInv, BCP!IInv, BCP!TypeOK, BCP!CacheTypeOK, BCP!Blocks, Blocks
<1>3. \A c \in Blocks : blockHash'[c] = IF c = b THEN NoHash ELSE blockHash[c]
  BY <1>1, <1>2
<1> QED BY <1>3 DEF KvInv, HashedContent

\* A whole number of blocks is that many blocks.
LEMMA BlocksForWhole ==
  ASSUME NEW k \in Nat
  PROVE  BlocksFor(k * BlockSize) = k
<1>1. k * BlockSize \in Nat BY WholeBlocks
<1>2. (k * BlockSize) \div BlockSize = k BY BCP!DivOfMultiple, BlockSizeAssumption
<1> DEFINE n == k * BlockSize
<1>3. BlocksFor(n) \in Nat /\ n \div BlockSize <= BlocksFor(n)
  <2> HIDE DEF n
  <2> QED BY <1>1, BlockSizeAssumption DEF BlocksFor, n
<1>4. CASE n = 0
  <2>1. k = 0 BY <1>4, BlockSizeAssumption
  <2> QED BY <2>1, <1>4, BlockSizeAssumption DEF BlocksFor
<1>5. CASE n > 0
  <2>1. k < BlocksFor(n) => k * BlockSize < n
    BY <1>1, <1>5, LastBlockStarts
  <2> HIDE DEF n
  <2>2. ~(k * BlockSize < n) BY <1>1 DEF n
  <2>3. n \div BlockSize = k BY <1>2 DEF n
  <2> QED BY <1>3, <2>1, <2>2, <2>3 DEF n
<1> QED BY <1>1, <1>4, <1>5

\* What allocate takes from the prefix cache is the computed prefix of its request.
LEMMA HitsAreHeld ==
  ASSUME KvInv, call.op = "allocate", Len(blockTable[call.seq]) = call.target
  PROVE  HeldIn(gpuKv, blockTable[call.seq], tokenIds[call.seq], call.cached)
<1> DEFINE r == call.seq
<1>1. /\ r \in Requests /\ call.hits \in Nat /\ call.target \in Nat
      /\ BCP!HashedUpTo(r) = call.hits
      /\ \A i \in 1 .. call.hits :
           /\ Len(BCP!Chain(r, i)) = i * BlockSize
           /\ BCP!Chain(r, i) # BCP!NoHash
  BY BCP!AllocateFacts, BlockSizeAssumption, PoolAssumption, EngineClientAssumption
  DEF KvInv, ClientInv
<1>2. /\ call.cached = call.hits * BlockSize /\ call.hits < call.target
      /\ EnablePrefixCaching \/ call.hits = 0
  BY DEF KvInv, ClientInv, BCP!IInv, BCP!CallOk
<1>3. BlocksFor(call.cached) = call.hits /\ call.cached \in Nat
  BY <1>1, <1>2, BlocksForWhole, WholeBlocks
<1> SUFFICES ASSUME NEW i \in 1 .. call.hits, NEW upTo,
                    upTo = IF call.cached < i * BlockSize THEN call.cached ELSE i * BlockSize
             PROVE  /\ Len(gpuKv[blockTable[r][i]]) \in upTo .. i * BlockSize
                    /\ SubSeq(gpuKv[blockTable[r][i]], 1, upTo) = SubSeq(tokenIds[r], 1, upTo)
  BY <1>3 DEF HeldIn
<1>4. upTo = i * BlockSize /\ i * BlockSize \in Nat
  <2>1. i \in Nat /\ call.hits \in Nat /\ i <= call.hits BY <1>1
  <2>2. i * BlockSize <= call.hits * BlockSize
    BY <2>1, BCP!MulMonotone, BlockSizeAssumption
  <2>3. i * BlockSize \in Nat BY <2>1, WholeBlocks
  <2> QED BY <1>2, <1>3, <2>2, <2>3
<1>5. i \in 1 .. Len(blockTable[r]) /\ blockTable[r][i] \in Blocks
  <2>1. i \in 1 .. Len(blockTable[r]) BY <1>1, <1>2
  <2>2. blockTable[r] \in Seq(Blocks) BY <1>1, PoolOf DEF KvInv
  <2> QED BY <2>1, <2>2
<1>6. blockHash[blockTable[r][i]] = BCP!Chain(r, i)
  <2>1. EnablePrefixCaching BY <1>1, <1>2
  <2> QED BY <1>1, <1>5, <2>1 DEF KvInv, ClientInv, BCP!IInv, BCP!HeadsHashed
<1>7. gpuKv[blockTable[r][i]] = SubSeq(tokenIds[r], 1, i * BlockSize)
  <2>1. BCP!Chain(r, i) = SubSeq(tokenIds[r], 1, i * BlockSize) BY DEF BCP!Chain
  <2>2. blockHash[blockTable[r][i]] # NoHash BY <1>1, <1>6 DEF BCP!NoHash, NoHash
  <2> QED BY <1>5, <1>6, <2>1, <2>2 DEF KvInv, HashedContent
<1>8. Len(SubSeq(tokenIds[r], 1, i * BlockSize)) = i * BlockSize
  BY <1>1 DEF BCP!Chain
<1>9. SubSeq(SubSeq(tokenIds[r], 1, upTo), 1, upTo) = SubSeq(tokenIds[r], 1, upTo)
  <2>1. tokenIds[r] \in Seq(Token)
    BY <1>1 DEF KvInv, ClientInv, BatchInv, QueueInv, ProgressTypes
  <2>2. SubSeq(tokenIds[r], 1, upTo) \in Seq(Token)
    <3>1. gpuKv[blockTable[r][i]] \in Seq(Token) BY <1>5 DEF KvInv, KvTypes
    <3> QED BY <1>4, <1>7, <3>1
  <2> DEFINE s == SubSeq(tokenIds[r], 1, upTo)
  <2>3. s \in Seq(Token) /\ Len(s) = upTo BY <1>4, <1>8, <2>2
  <2> HIDE DEF s
  <2>4. SubSeq(s, 1, Len(s)) = s BY <2>3
  <2> QED BY <2>3, <2>4 DEF s
<1> QED BY <1>4, <1>7, <1>8, <1>9

\* The request that a call works on has no position that counts as computed.
LEMMA CallersNotReady ==
  ASSUME KvInv, call.op = "allocate"
  PROVE  call.seq \in Requests /\ Ready(call.seq) = 0 /\ ~Forwarded(call.seq)
<1>1. call.seq \in Requests
  BY DEF KvInv, ClientInv, BatchInv, QueueInv, ProgressTypes, NoCall
<1>2. ~InBatch(call.seq)
  BY DEF KvInv, ClientInv, BatchInv, QueueInv, CallOutsideBatch
<1>3. numCached[call.seq] = 0
  BY DEF KvInv, ClientInv, BCP!IInv, BCP!CallOk
<1> QED BY <1>1, <1>2, <1>3 DEF Ready, Forwarded, InBatch

\* A call of the block manager keeps the content sound: what it hands out fresh has
\* no hash any more, what it hands out as cached is computed.
LEMMA BlockManagerKvStep ==
  ASSUME KvInv, BlockManagerStep
  PROVE  KvTypes' /\ HashedContent' /\ Computed'
<1>0. PICK r : r = call.seq OBVIOUS
<1>1. /\ CallStep
      /\ UNCHANGED <<gpuKv, cpuKv, tokenIds, numScheduled, pc, prefillBatch, decodeBatch>>
  BY DEF BlockManagerStep, CallStep, kvVars, batchVars
<1>2. \A q \in Requests : Forwarded(q)' <=> Forwarded(q)
  BY <1>1 DEF Forwarded
<1>3. KvTypes' BY <1>1 DEF KvInv, KvTypes
<1>4. ASSUME NEW q \in Requests, ~Deallocating(q), blockTable'[q] = blockTable[q],
             numCached'[q] = numCached[q]
      PROVE  HeldIn(gpuKv', blockTable'[q], tokenIds'[q], Ready(q)')
  <2>1. Ready(q)' = Ready(q) BY <1>1, <1>2, <1>4 DEF Ready
  <2>2. HeldIn(gpuKv, blockTable[q], tokenIds[q], Ready(q))
    BY <1>4 DEF KvInv, Computed
  <2> QED BY <1>1, <1>4, <2>1, <2>2
<1>5. CASE TakeCached \/ TakeFresh
  <2>1. /\ call.op = "allocate" /\ UNCHANGED <<call, numCached>>
        /\ \E b : blockTable' = [blockTable EXCEPT ![r] = Append(@, b)]
    BY <1>0, <1>5 DEF TakeCached, TakeFresh
  <2>2. r \in Requests /\ Ready(r) = 0 /\ ~Forwarded(r) BY <1>0, <2>1, CallersNotReady
  <2>3. Ready(r)' = 0 BY <1>1, <1>2, <2>1, <2>2 DEF Ready
  <2>4. blockTable \in [Requests -> Seq(Blocks)] BY PoolOf DEF KvInv
  <2>5. \A q \in Requests : q # r => blockTable'[q] = blockTable[q]
    BY <2>1, <2>2, <2>4
  <2>6. HashedContent'
    <3>1. CASE TakeCached BY <1>1, <3>1 DEF TakeCached, cacheVars, KvInv, HashedContent
    <3>2. CASE TakeFresh BY <1>1, <3>2, EvictedContent DEF TakeFresh
    <3> QED BY <1>5, <3>1, <3>2
  <2>7. ASSUME NEW q \in Requests
        PROVE  HeldIn(gpuKv', blockTable'[q], tokenIds'[q], Ready(q)')
    <3>1. CASE q = r BY <2>3, <3>1, NothingHeld
    <3>2. CASE q # r
      <4>1. ~Deallocating(q) BY <2>1 DEF Deallocating
      <4> QED BY <1>4, <2>1, <2>5, <3>2, <4>1
    <3> QED BY <3>1, <3>2
  <2> QED BY <1>3, <2>6, <2>7 DEF Computed
<1>6. CASE AllocateReturn
  <2>1. /\ call.op = "allocate" /\ Len(blockTable[r]) = call.target
        /\ numCached' = [numCached EXCEPT ![r] = call.cached]
        /\ UNCHANGED <<blockTable, blockHash>>
    BY <1>0, <1>6 DEF AllocateReturn, cacheVars
  <2>2. r \in Requests /\ ~Forwarded(r) BY <1>0, <2>1, CallersNotReady
  <2>3. numCached \in [Requests -> Nat]
    BY DEF KvInv, ClientInv, BatchInv, QueueInv, ProgressTypes
  <2>4. numCached'[r] = call.cached /\ \A q \in Requests : q # r => numCached'[q] = numCached[q]
    BY <2>1, <2>2, <2>3
  <2>5. Ready(r)' = call.cached BY <1>2, <2>2, <2>4 DEF Ready
  <2>6. HeldIn(gpuKv, blockTable[r], tokenIds[r], call.cached) BY <1>0, <2>1, HitsAreHeld
  <2>7. ASSUME NEW q \in Requests
        PROVE  HeldIn(gpuKv', blockTable'[q], tokenIds'[q], Ready(q)')
    <3>1. CASE q = r BY <1>1, <2>1, <2>5, <2>6, <3>1
    <3>2. CASE q # r
      <4>1. ~Deallocating(q) BY <2>1 DEF Deallocating
      <4> QED BY <1>4, <2>1, <2>4, <3>2, <4>1
    <3> QED BY <3>1, <3>2
  <2>8. HashedContent' BY <1>1, <2>1 DEF KvInv, HashedContent
  <2> QED BY <1>3, <2>7, <2>8 DEF Computed
<1>7. CASE ReleaseBlock
  <2>1. /\ call.op = "deallocate" /\ UNCHANGED <<call, numCached, blockHash>>
        /\ \E t : blockTable' = [blockTable EXCEPT ![r] = t]
    BY <1>0, <1>7 DEF ReleaseBlock, cacheVars
  <2>2. r \in Requests BY <1>0, <2>1 DEF KvInv, ClientInv, BatchInv, QueueInv, ProgressTypes, NoCall
  <2>3. blockTable \in [Requests -> Seq(Blocks)] BY PoolOf DEF KvInv
  <2>4. \A q \in Requests : q # r => blockTable'[q] = blockTable[q]
    BY <2>1, <2>2, <2>3
  <2>5. ASSUME NEW q \in Requests, ~Deallocating(q)'
        PROVE  HeldIn(gpuKv', blockTable'[q], tokenIds'[q], Ready(q)')
    <3>1. q # r /\ ~Deallocating(q) BY <1>0, <2>1, <2>5 DEF Deallocating
    <3> QED BY <1>4, <2>1, <2>4, <3>1
  <2>6. HashedContent' BY <1>1, <2>1 DEF KvInv, HashedContent
  <2> QED BY <1>3, <2>5, <2>6 DEF Computed
<1>8. CASE DeallocateReturn
  <2>1. /\ call.op = "deallocate" /\ UNCHANGED <<blockTable, blockHash>>
        /\ numCached' = [numCached EXCEPT ![r] = 0]
    BY <1>0, <1>8 DEF DeallocateReturn, cacheVars
  <2>2. r \in Requests BY <1>0, <2>1 DEF KvInv, ClientInv, BatchInv, QueueInv, ProgressTypes, NoCall
  <2>3. numCached \in [Requests -> Nat]
    BY DEF KvInv, ClientInv, BatchInv, QueueInv, ProgressTypes
  <2>4. numCached'[r] = 0 /\ \A q \in Requests : q # r => numCached'[q] = numCached[q]
    BY <2>1, <2>2, <2>3
  <2>5. ~Forwarded(r)
    <3>1. ~InBatch(r) BY <1>0, <2>1 DEF KvInv, ClientInv, BatchInv, QueueInv, CallOutsideBatch
    <3> QED BY <3>1 DEF Forwarded, InBatch
  <2>6. Ready(r)' = 0 BY <1>2, <2>2, <2>4, <2>5 DEF Ready
  <2>7. ASSUME NEW q \in Requests
        PROVE  HeldIn(gpuKv', blockTable'[q], tokenIds'[q], Ready(q)')
    <3>1. CASE q = r BY <2>6, <3>1, NothingHeld
    <3>2. CASE q # r
      <4>1. ~Deallocating(q) BY <1>0, <2>1, <3>2 DEF Deallocating
      <4> QED BY <1>4, <2>1, <2>4, <3>2, <4>1
    <3> QED BY <3>1, <3>2
  <2>8. HashedContent' BY <1>1, <2>1 DEF KvInv, HashedContent
  <2> QED BY <1>3, <2>7, <2>8 DEF Computed
<1> QED BY <1>1, <1>5, <1>6, <1>7, <1>8 DEF CallStep

\* A decode turn may add a block at the end of the table, past what is computed.
LEMMA DecodeAdmitKvStep ==
  ASSUME KvInv, DecodeAdmit, UNCHANGED kvVars
  PROVE  KvTypes' /\ HashedContent' /\ Computed'
<1> DEFINE r == Head(running)
<1>1. /\ pc = "decode" /\ pc' = "decode" /\ Idle /\ running # << >> /\ MayAppend(r)
      /\ UNCHANGED <<tokenIds, numCached, call, gpuKv, cpuKv>>
  BY DEF DecodeAdmit, At, MoreDecode, kvVars
<1>2. r \in Requests
  BY <1>1, InQueue DEF KvInv, ClientInv, BatchInv, QueueInv, QueueTypes
<1> HIDE DEF r
<1>3. /\ blockTable \in [Requests -> Seq(Blocks)]
      /\ \/ blockTable' = blockTable
         \/ \E b : blockTable' = [blockTable EXCEPT ![r] = Append(@, b)]
  BY <1>1, PoolOf DEF MayAppend, KvInv
<1>4. \A q \in Requests : \A i \in 1 .. Len(blockTable[q]) : blockTable'[q][i] = blockTable[q][i]
  <2>1. CASE blockTable' = blockTable BY <2>1
  <2>2. ASSUME NEW b, blockTable' = [blockTable EXCEPT ![r] = Append(@, b)],
               NEW q \in Requests, NEW i \in 1 .. Len(blockTable[q])
        PROVE  blockTable'[q][i] = blockTable[q][i]
    <3>1. blockTable[q] \in Seq(Blocks) BY <1>3
    <3>2. CASE q = r
      <4>1. blockTable'[q] = Append(blockTable[q], b) BY <1>2, <1>3, <2>2, <3>2
      <4> QED BY <3>1, <4>1
    <3>3. CASE q # r BY <1>3, <2>2, <3>3
    <3> QED BY <3>2, <3>3
  <2> QED BY <1>3, <2>1, <2>2
<1>5. HashedContent'
  <2>1. CASE NeedsBlock(r)
    BY <1>1, <2>1, EvictedContent DEF MayAppend
  <2>2. CASE ~NeedsBlock(r)
    BY <1>1, <2>2 DEF MayAppend, cacheVars, KvInv, HashedContent
  <2> QED BY <2>1, <2>2
<1>6. ASSUME NEW q \in Requests
      PROVE  HeldIn(gpuKv', blockTable'[q], tokenIds'[q], Ready(q)')
  <2>1. Ready(q)' = numCached[q] /\ Ready(q) = numCached[q] /\ numCached[q] \in Nat
    BY <1>1, ReadyType DEF Ready, Forwarded
  <2>2. HeldIn(gpuKv, blockTable[q], tokenIds[q], numCached[q])
    BY <1>1, <2>1 DEF KvInv, Computed, Deallocating, Idle, NoCall
  <2>3. \A i \in 1 .. BlocksFor(numCached[q]) : gpuKv'[blockTable'[q][i]] = gpuKv[blockTable[q][i]]
    <3>1. BlocksFor(numCached[q]) <= Len(blockTable[q]) /\ BlocksFor(numCached[q]) \in Nat
          /\ Len(blockTable[q]) \in Nat
      BY <1>1, HeldInTable DEF KvInv
    <3> HIDE DEF BlocksFor
    <3> QED BY <1>1, <1>4, <3>1
  <2> QED BY <1>1, <2>1, <2>2, <2>3, StillHeld
<1> QED BY <1>1, <1>5, <1>6 DEF KvInv, KvTypes, Computed

\* Committing a computed stretch gives its full blocks the hash of what they hold.
LEMMA CommittedHashes ==
  ASSUME KvInv, Idle, NEW r \in Requests, InBatch(r), Forwarded(r), Commit(r), UNCHANGED gpuKv
  PROVE  HashedContent'
<1> DEFINE n == numCached[r] + numScheduled[r]
<1>1. /\ numCached[r] \in Nat /\ n \in Nat /\ n <= NumTokens(r)
      /\ Len(blockTable[r]) = NumBlocks(r) /\ blockTable[r] \in Seq(Blocks)
      /\ BlocksFor(n) <= Len(blockTable[r])
  <2>1. ASSUME NEW kernel \in BOOLEAN, kernel
        PROVE  /\ numCached[r] \in Nat /\ numScheduled[r] \in Nat /\ n <= NumTokens(r)
               /\ Len(blockTable[r]) = NumBlocks(r)
               /\ BlocksFor(n) <= Len(blockTable[r])
    BY <2>1, BatchNumbers DEF KvInv
  <2>2. TRUE \in BOOLEAN OBVIOUS
  <2>3. blockTable[r] \in Seq(Blocks) BY TableInPool DEF KvInv
  <2> HIDE DEF n
  <2>4. /\ numCached[r] \in Nat /\ numScheduled[r] \in Nat /\ n <= NumTokens(r)
        /\ Len(blockTable[r]) = NumBlocks(r)
        /\ BlocksFor(n) <= Len(blockTable[r])
    BY <2>1, <2>2
  <2> QED BY <2>3, <2>4 DEF n
<1>2. HeldIn(gpuKv, blockTable[r], tokenIds[r], n)
  BY DEF KvInv, Computed, Deallocating, Idle, NoCall, Ready
<1>3. /\ BCP!TypeOK /\ BCP!RefCountExact /\ BCP!IndexSound /\ BCP!TailsFresh
      /\ BCP!HeadsHashed /\ ~BCP!CallOf(r)
  BY DEF KvInv, ClientInv, BCP!IInv, BCP!CallOf, Idle, NoCall
<1>4. BCP!HashRange(r)
  <2>1. BCP!NumTokens(r) = NumTokens(r) /\ BCP!NumBlocks(r) = NumBlocks(r)
    BY DEF BCP!NumTokens, NumTokens, BCP!NumBlocks, NumBlocks, BCP!BlocksFor, BlocksFor
  <2> QED BY <1>1, <1>3, <2>1, BCP!HashRangeFits, BlockSizeAssumption, PoolAssumption,
       EngineClientAssumption
<1>5. EnablePrefixCaching => \A i \in FirstToHash(r) .. LastToHash(r) :
        blockHash'[blockTable[r][i]] = BCP!Chain(r, i)
  <2>1. BCP!HashBlocks(r) BY CommitMaps DEF BCP!Commit
  <2>2. BCP!FirstToHash(r) = FirstToHash(r) /\ BCP!LastToHash(r) = LastToHash(r)
    BY DEF FirstToHash, LastToHash, BCP!FirstToHash, BCP!LastToHash
  <2> QED
    BY <1>3, <1>4, <2>1, <2>2, BCP!HashedBlocks, BlockSizeAssumption, PoolAssumption,
       EngineClientAssumption
<1>6. ASSUME NEW b \in Blocks
      PROVE  \/ blockHash'[b] = blockHash[b]
             \/ /\ EnablePrefixCaching
                /\ \E i \in FirstToHash(r) .. LastToHash(r) : blockTable[r][i] = b
  BY DEF Commit, HashBlocks
<1>7. ASSUME NEW i \in FirstToHash(r) .. LastToHash(r)
      PROVE  i \in Nat \ {0} /\ i * BlockSize <= n /\ i \in 1 .. Len(blockTable[r])
  <2>1. FirstToHash(r) \in Nat \ {0} /\ LastToHash(r) \in Nat
    <3>1. numCached[r] \div BlockSize \in Nat /\ n \div BlockSize \in Nat
      <4> HIDE DEF n
      <4> QED BY <1>1, BCP!DivBounds, BlockSizeAssumption
    <3> QED BY <3>1 DEF FirstToHash, LastToHash
  <2>2. i \in Nat \ {0} /\ i <= LastToHash(r) BY <1>7, <2>1
  <2>3. i * BlockSize <= LastToHash(r) * BlockSize
    BY <2>1, <2>2, BCP!MulMonotone, BlockSizeAssumption
  <2>4. (n \div BlockSize) * BlockSize <= n
    <3> HIDE DEF n
    <3> QED BY <1>1, BCP!DivBounds, BlockSizeAssumption
  <2>5. LastToHash(r) = n \div BlockSize BY DEF LastToHash
  <2>6. i * BlockSize \in Nat /\ LastToHash(r) * BlockSize \in Nat BY <2>1, <2>2, WholeBlocks
  <2>7. LastToHash(r) <= BlocksFor(n) /\ BlocksFor(n) \in Nat
    <3> HIDE DEF n
    <3> QED BY <1>1, <2>5, BlockSizeAssumption DEF BlocksFor
  <2>8. Len(blockTable[r]) \in Nat BY <1>1
  <2> HIDE DEF n
  <2> QED BY <1>1, <2>1, <2>2, <2>3, <2>4, <2>5, <2>6, <2>7, <2>8
<1> SUFFICES ASSUME NEW b \in Blocks, blockHash'[b] # NoHash, blockHash'[b] # blockHash[b]
             PROVE  gpuKv[b] = blockHash'[b]
  BY DEF KvInv, HashedContent
<1>8. EnablePrefixCaching BY <1>6
<1>9. PICK i \in FirstToHash(r) .. LastToHash(r) : blockTable[r][i] = b BY <1>6
<1>10. gpuKv[b] = SubSeq(tokenIds[r], 1, i * BlockSize)
  <2>1. gpuKv[b] \in Seq(Token) BY DEF KvInv, KvTypes
  <2> HIDE DEF n
  <2> QED BY <1>1, <1>2, <1>7, <1>9, <2>1, FullBlockHeld
<1>11. blockHash'[b] = SubSeq(tokenIds[r], 1, i * BlockSize)
  BY <1>5, <1>8, <1>9 DEF BCP!Chain
<1> QED BY <1>10, <1>11

\* postprocess makes what was computed of a request of its batch count as computed.
LEMMA PostprocessKvStep ==
  ASSUME KvInv, Idle, NEW prefill \in BOOLEAN,
         pc = IF prefill THEN "postPrefill" ELSE "postDecode",
         PostprocessNext(prefill, IF prefill THEN prefillBatch ELSE decodeBatch)
  PROVE  KvTypes' /\ HashedContent' /\ Computed'
<1> DEFINE batch == IF prefill THEN prefillBatch ELSE decodeBatch
<1>0. PICK r : r = Head(batch) OBVIOUS
<1> HIDE DEF batch
<1>1. /\ TakeFromBatch(prefill) /\ batch # << >>
      /\ UNCHANGED <<blockTable, pc, stepMode, gpuKv, cpuKv>>
      /\ Commit(r)
      /\ \/ UNCHANGED <<tokenIds, call>>
         \/ \E token \in Token : AppendToken(r, token) /\ (UNCHANGED call \/ Deallocate(r))
  BY <1>0 DEF PostprocessNext, PostprocessChunk, PostprocessToken, PostprocessLast, kvVars, batch
<1>2. /\ QueueInv /\ ClientInv BY DEF KvInv, ClientInv, BatchInv
<1>3. /\ r \in Requests /\ InBatch(r)
      /\ \A q \in Requests : Contains(prefillBatch', q) <=> Contains(prefillBatch, q) /\ q # r
      /\ \A q \in Requests : Contains(decodeBatch', q) <=> Contains(decodeBatch, q) /\ q # r
  BY <1>0, <1>1, <1>2, TakenFromBatch DEF batch
<1>4. Forwarded(r) /\ ~Forwarded(r)'
  <2>1. prefillBatch \in Seq(Requests) /\ decodeBatch \in Seq(Requests)
    BY <1>2 DEF QueueInv, QueueTypes
  <2>2. Contains(batch, r) BY <1>0, <1>1, <2>1, InQueue DEF batch
  <2> QED BY <1>1, <1>3, <2>2 DEF Forwarded, batch
<1>5. \A q \in Requests : q # r => (Forwarded(q)' <=> Forwarded(q))
  BY <1>1, <1>3 DEF Forwarded
<1>6. HashedContent' BY <1>1, <1>3, <1>4, CommittedHashes
<1>7. \A q \in Requests : Ready(q)' = Ready(q)
  BY <1>1, <1>2, <1>3, <1>4, <1>5, CommitEffect DEF Ready
<1>8. ASSUME NEW q \in Requests, NEW k \in 0 .. Ready(q)
      PROVE  SubSeq(tokenIds'[q], 1, k) = SubSeq(tokenIds[q], 1, k)
  <2>1. tokenIds \in [Requests -> Seq(Token)] /\ Ready(q) \in Nat /\ Ready(q) <= Len(tokenIds[q])
    BY <1>2, ReadyType DEF QueueInv, ProgressTypes, NumTokens
  <2>2. ASSUME NEW token \in Token, AppendToken(r, token), q = r
        PROVE  tokenIds'[q] = Append(tokenIds[q], token)
    BY <2>1, <2>2 DEF AppendToken
  <2>3. ASSUME NEW token \in Token, tokenIds'[q] = Append(tokenIds[q], token)
        PROVE  SubSeq(tokenIds'[q], 1, k) = SubSeq(tokenIds[q], 1, k)
    BY <1>8, <2>1, <2>3
  <2>4. ASSUME NEW token \in Token, AppendToken(r, token), q # r
        PROVE  tokenIds'[q] = tokenIds[q]
    BY <2>1, <2>4 DEF AppendToken
  <2> QED BY <1>1, <2>2, <2>3, <2>4
<1>9. ASSUME NEW q \in Requests
      PROVE  HeldIn(gpuKv', blockTable'[q], tokenIds'[q], Ready(q)')
  <2>1. HeldIn(gpuKv, blockTable[q], tokenIds[q], Ready(q))
    BY DEF KvInv, Computed, Deallocating, Idle, NoCall
  <2>2. Ready(q) \in Nat BY ReadyType
  <2>3. HeldIn(gpuKv, blockTable[q], tokenIds'[q], Ready(q))
    BY <1>8, <2>1, <2>2, StillHeld
  <2> QED BY <1>1, <1>7, <2>3
<1> QED BY <1>1, <1>6, <1>9 DEF KvInv, KvTypes, Computed

\* A request is in the decode batch for one position until it is dealt with.
LEMMA DecodeTurnsStep ==
  ASSUME KvInv, [Next]_vars
  PROVE  DecodeTurns'
<1>0. /\ QueueInv /\ ~KvSwapEnabled
      /\ numScheduled \in [Requests -> Nat] /\ decodeBatch \in Seq(Requests)
  BY DEF KvInv, ClientInv, BatchInv, QueueInv, ProgressTypes, QueueTypes
<1>1. CASE UNCHANGED <<numScheduled, decodeBatch>>
  BY <1>1 DEF KvInv, DecodeTurns
<1>2. CASE DecodeAdmit
  <2>1. /\ running # << >>
        /\ numScheduled' = [numScheduled EXCEPT ![Head(running)] = 1]
        /\ decodeBatch' = Append(decodeBatch, Head(running))
    BY <1>2 DEF DecodeAdmit, MoreDecode
  <2>2. Head(running) \in Requests
    BY <1>0, <2>1, InQueue DEF QueueInv, QueueTypes
  <2>3. \A q \in Requests :
          numScheduled'[q] = IF q = Head(running) THEN 1 ELSE numScheduled[q]
    BY <1>0, <2>1, <2>2
  <2>4. \A q \in Requests :
          Contains(decodeBatch', q) => Contains(decodeBatch, q) \/ q = Head(running)
    BY <1>0, <2>1, <2>2, Appended
  <2> QED BY <2>3, <2>4 DEF KvInv, DecodeTurns
<1>3. CASE PrefillSchedule
  <2>1. PICK r \in Requests :
          ~InBatch(r) /\ \E k \in Nat : numScheduled' = [numScheduled EXCEPT ![r] = k]
    BY <1>0, <1>3, PrefillScheduleEffect
  <2>2. \A q \in Requests : q # r => numScheduled'[q] = numScheduled[q] BY <1>0, <2>1
  <2>3. decodeBatch' = decodeBatch BY <1>3 DEF PrefillSchedule
  <2> QED BY <2>1, <2>2, <2>3 DEF KvInv, DecodeTurns, InBatch
<1>4. CASE PrefillDone(AfterPrefill)
  <2>1. numScheduled' = numScheduled /\ (decodeBatch' = decodeBatch \/ decodeBatch' = << >>)
    BY <1>4 DEF PrefillDone
  <2> QED BY <1>1, <2>1, EmptyQueue DEF DecodeTurns
<1>5. CASE BatchStep
  <2>1. ASSUME NEW prefill \in BOOLEAN, NEW batch,
               batch = IF prefill THEN prefillBatch ELSE decodeBatch,
               PostprocessNext(prefill, batch) \/ AbortNext(prefill, batch),
               prefill => pc \in {"postPrefill", "oomPrefill"},
               ~prefill => pc \in {"postDecode", "oomDecode"}
        PROVE  DecodeTurns'
    <3>0. PICK r : r = Head(batch) OBVIOUS
    <3>1. /\ TakeFromBatch(prefill) /\ batch # << >> /\ pc' = pc /\ stepMode' = stepMode
          /\ Commit(r) \/ UNCHANGED numScheduled
      BY <2>1, <3>0 DEF PostprocessNext, PostprocessChunk, PostprocessToken, PostprocessLast,
                        AbortNext
    <3>2. /\ r \in Requests
          /\ \A q \in Requests : Contains(decodeBatch', q) <=> Contains(decodeBatch, q) /\ q # r
      BY <1>0, <2>1, <3>0, <3>1, TakenFromBatch
    <3>3. \A q \in Requests : q # r => numScheduled'[q] = numScheduled[q]
      BY <1>0, <3>1, <3>2, CommitEffect
    <3> QED BY <3>2, <3>3 DEF KvInv, DecodeTurns
  <2> QED BY <1>5, <2>1 DEF BatchStep, At
<1>6. CASE ScheduleStep
  <2>1. ~SwapInNext
    BY <1>0, NoSwapIn DEF KvInv, ClientInv, BatchInv, QueueInv, QueueTypes
  <2>2. CASE \/ SwapInDone(AfterSwapIns) \/ PrefillAllocate \/ DecodePreemptLast
             \/ DecodeAbort(AfterDecode) \/ DecodePreemptSelf(AfterDecode)
             \/ DecodeDone(AfterDecode)
    BY <1>1, <2>2 DEF SwapInDone, PrefillAllocate, DecodePreemptLast, DecodeAbort,
       DecodePreemptSelf, DecodeDone, batchVars
  <2> QED BY <1>2, <1>3, <1>4, <1>6, <2>1, <2>2 DEF ScheduleStep
<1>7. CASE \/ \E r \in Requests : AddRequest(r)
           \/ StartStep \/ BlockManagerStep \/ CopyOut \/ CopyIn \/ DrainAborts
           \/ RunPrefill \/ RunDecode \/ EndBatch \/ UNCHANGED vars
  BY <1>1, <1>7 DEF AddRequest, Add, StartStep, BlockManagerStep, CallStep, CopyOut, CopyIn,
     DrainAborts, RunPrefill, RunDecode, Run, EndBatch, vars, requestVars, batchVars
<1> QED BY <1>5, <1>6, <1>7 DEF Next, EngineStep

\* Every step keeps the content sound.
LEMMA ContentStep ==
  ASSUME KvInv, [Next]_vars
  PROVE  KvTypes' /\ HashedContent' /\ Computed'
<1>1. ASSUME Idle, UNCHANGED <<gpuKv, cpuKv, blockTable, tokenIds, numCached, blockHash>>,
             pc \notin {"postPrefill", "postDecode"}, pc' \notin {"postPrefill", "postDecode"}
      PROVE  KvTypes' /\ HashedContent' /\ Computed'
  BY <1>1, QuietStep DEF Forwarded
<1>2. CASE \E r \in Requests : AddRequest(r)
  BY <1>1, <1>2 DEF AddRequest, Add, At, bmVars, cacheVars, kvVars
<1>3. CASE StartStep
  BY <1>1, <1>3 DEF StartStep, At, requestVars, bmVars, cacheVars, kvVars
<1>4. CASE ScheduleStep
  <2>0. UNCHANGED kvVars BY <1>4 DEF ScheduleStep
  <2>1. ~SwapInNext
    BY NoSwapIn DEF KvInv, ClientInv, BatchInv, QueueInv, QueueTypes
  <2>2. CASE SwapInDone(AfterSwapIns)
    BY <1>1, <2>0, <2>2 DEF SwapInDone, AfterSwapIns, At, bmVars, cacheVars, kvVars, KvInv,
       ClientInv, BatchInv, QueueInv, QueueTypes
  <2>3. CASE PrefillAllocate
    BY <1>1, <2>0, <2>3 DEF PrefillAllocate, Allocate, At, cacheVars, kvVars
  <2>4. CASE PrefillSchedule
    BY <1>1, <2>0, <2>4 DEF PrefillSchedule, At, bmVars, cacheVars, kvVars
  <2>5. CASE PrefillDone(AfterPrefill)
    BY <1>1, <2>0, <2>5 DEF PrefillDone, AfterPrefill, At, bmVars, cacheVars, kvVars
  <2>6. CASE DecodeAdmit BY <2>0, <2>6, DecodeAdmitKvStep
  <2>7. CASE DecodePreemptLast
    BY <1>1, <2>0, <2>7 DEF DecodePreemptLast, NeedsVictim, At, cacheVars, kvVars
  <2>8. CASE DecodeAbort(AfterDecode) \/ DecodePreemptSelf(AfterDecode)
    BY <1>1, <2>0, <2>8 DEF DecodeAbort, DecodePreemptSelf, NeedsVictim, AfterDecode, At,
       cacheVars, kvVars
  <2>9. CASE DecodeDone(AfterDecode)
    BY <1>1, <2>0, <2>9 DEF DecodeDone, AfterDecode, At, bmVars, cacheVars, kvVars
  <2> QED BY <1>4, <2>1, <2>2, <2>3, <2>4, <2>5, <2>6, <2>7, <2>8, <2>9 DEF ScheduleStep
<1>5. CASE BlockManagerStep BY <1>5, BlockManagerKvStep
<1>6. CASE CopyOut \/ CopyIn
  BY <1>6 DEF CopyOut, CopyIn, KvInv, ClientInv, BatchInv, NothingSwapped
<1>7. CASE DrainAborts
  BY <1>1, <1>7 DEF DrainAborts, At, requestVars, bmVars, cacheVars, kvVars
<1>8. CASE RunPrefill \/ RunDecode BY <1>8, RunKvStep
<1>9. CASE EndBatch
  <2>1. /\ Idle /\ UNCHANGED <<gpuKv, cpuKv, blockTable, tokenIds, numCached, blockHash>>
        /\ \/ pc # "postDecode" /\ prefillBatch = << >> /\ pc' = "runDecode"
           \/ pc # "postPrefill" /\ decodeBatch = << >> /\ pc' = "idle"
    BY <1>9 DEF EndBatch, requestVars, bmVars, cacheVars, kvVars
  <2>2. \A r \in Requests : ~Forwarded(r) /\ ~Forwarded(r)'
    BY <2>1, EmptyQueue DEF Forwarded
  <2> QED BY <2>1, <2>2, QuietStep
<1>10. CASE BatchStep
  <2>1. CASE At("postPrefill") /\ PostprocessNext(TRUE, prefillBatch)
    BY <2>1, PostprocessKvStep DEF At
  <2>2. CASE At("postDecode") /\ PostprocessNext(FALSE, decodeBatch)
    BY <2>2, PostprocessKvStep DEF At
  <2>3. CASE \/ At("oomPrefill") /\ AbortNext(TRUE, prefillBatch)
             \/ At("oomDecode") /\ AbortNext(FALSE, decodeBatch)
    BY <1>1, <2>3 DEF At, AbortNext, cacheVars, kvVars
  <2> QED BY <1>10, <2>1, <2>2, <2>3 DEF BatchStep
<1>11. CASE UNCHANGED vars
  <2>1. UNCHANGED <<gpuKv, cpuKv, blockTable, tokenIds, numCached, numScheduled, blockHash,
                    prefillBatch, decodeBatch, pc, call>>
    BY <1>11 DEF vars, requestVars, bmVars, cacheVars, batchVars, kvVars
  <2>2. \A r \in Requests : Ready(r)' = Ready(r) /\ Deallocating(r)' = Deallocating(r)
    BY <2>1 DEF Ready, Forwarded, Deallocating
  <2> QED BY <2>1, <2>2 DEF KvInv, KvTypes, HashedContent, Computed
<1> QED
  BY <1>2, <1>3, <1>4, <1>5, <1>6, <1>7, <1>8, <1>9, <1>10, <1>11 DEF Next, EngineStep

\* The invariant holds of an engine that starts ...
LEMMA InitKvInv == Init /\ ~KvSwapEnabled => KvInv
<1> SUFFICES ASSUME Init, ~KvSwapEnabled PROVE KvInv
  OBVIOUS
<1>1. ClientInv BY InitClientInv
<1>2. KvTypes BY DEF Init, KvTypes, Garbage
<1>3. HashedContent BY DEF Init, BlockManagerInit, HashedContent
<1>4. /\ pc = "idle" /\ decodeBatch = << >> /\ numCached = [r \in Requests |-> 0]
  BY DEF Init, SchedulerInit
<1>5. \A r \in Requests : Ready(r) = 0 BY <1>4 DEF Ready, Forwarded
<1>6. Computed BY <1>5, NothingHeld DEF Computed
<1>7. DecodeTurns BY <1>4, EmptyQueue DEF DecodeTurns
<1> QED BY <1>1, <1>2, <1>3, <1>6, <1>7 DEF KvInv

\* ... and after every step.
LEMMA NextKvInv == KvInv /\ [Next]_vars => KvInv'
BY NextClientInv, ContentStep, DecodeTurnsStep DEF KvInv

----------------------------------------------------------------------------
(***************************************************************************)
(* The theorems.                                                           *)
(***************************************************************************)

\* The invariant of the KV cache holds of the engine without swap.
THEOREM KvInvariance == ASSUME ~KvSwapEnabled PROVE Spec => []KvInv
<1>1. Init => KvInv BY InitKvInv
<1>2. KvInv /\ [Next]_vars => KvInv' BY NextKvInv
<1> QED BY <1>1, <1>2, PTL DEF Spec

\* What a forward pass reads for a request, prefix-cache hits included, is the KV of
\* the request's own prefix (model_runner.py:300-340, block_manager.py:42-46).
THEOREM ForwardReadsOwnPrefix == ASSUME ~KvSwapEnabled PROVE Spec => []ReadsOwnPrefix
<1>1. KvInv => ReadsOwnPrefix
  <2> SUFFICES ASSUME KvInv PROVE ReadsOwnPrefix
    OBVIOUS
  <2>1. ASSUME Idle, NEW r \in Requests, InBatch(r), NEW kernel \in BOOLEAN,
               ~kernel => numScheduled[r] = 1 /\ status[r] = "running",
               pc \in {"runPrefill", "runDecode"}
        PROVE  InputsOk(r, kernel)
    <3>1. HeldIn(gpuKv, blockTable[r], tokenIds[r], numCached[r])
      BY <2>1 DEF KvInv, Computed, Deallocating, Idle, NoCall, Ready, Forwarded
    <3>2. /\ numCached[r] \in Nat /\ Len(blockTable[r]) = NumBlocks(r)
          /\ ~kernel => numCached[r] = NumTokens(r) - 1
      BY <2>1, BatchNumbers DEF KvInv
    <3>3. PrefixIntact(r, numCached[r]) BY <3>1, <3>2, HeldIsIntact
    <3>4. Len(blockTable[r]) \in Nat BY TableInPool DEF KvInv
    <3>5. NumBlocks(r) <= Len(blockTable[r]) BY <3>2, <3>4
    <3>6. CASE kernel BY <3>3, <3>5, <3>6 DEF InputsOk
    <3>7. CASE ~kernel
      <4>1. PrefixIntact(r, NumTokens(r) - 1) BY <3>2, <3>3, <3>7
      <4> QED BY <3>2, <3>5, <3>7, <4>1 DEF InputsOk
    <3> QED BY <3>6, <3>7
  <2>2. ASSUME At("runPrefill"), NEW k \in DOMAIN prefillBatch
        PROVE  InputsOk(prefillBatch[k], TRUE)
    <3>1. prefillBatch[k] \in Requests /\ InBatch(prefillBatch[k])
      BY <2>2, InQueue DEF KvInv, ClientInv, BatchInv, QueueInv, QueueTypes, InBatch
    <3> QED BY <2>1, <2>2, <3>1 DEF At
  <2>3. ASSUME At("runDecode"), NEW k \in DOMAIN decodeBatch
        PROVE  InputsOk(decodeBatch[k], FALSE)
    <3>1. /\ decodeBatch[k] \in Requests /\ InBatch(decodeBatch[k])
          /\ Contains(decodeBatch, decodeBatch[k])
      BY <2>3, InQueue DEF KvInv, ClientInv, BatchInv, QueueInv, QueueTypes, InBatch
    <3>2. numScheduled[decodeBatch[k]] = 1 /\ status[decodeBatch[k]] = "running"
      BY <3>1 DEF KvInv, DecodeTurns, ClientInv, BatchInv, QueueInv, QueueOfStatus
    <3> QED BY <2>1, <2>3, <3>1, <3>2 DEF At
  <2> QED BY <2>2, <2>3 DEF ReadsOwnPrefix
<1> QED BY <1>1, KvInvariance, PTL

\* An entry of the prefix-cache index leads to a block that holds the KV of the whole
\* prefix the entry stands for (block_manager.py:42-46).
THEOREM IndexLeadsToPrefix == ASSUME ~KvSwapEnabled PROVE Spec => []IndexHoldsPrefix
<1>1. KvInv => IndexHoldsPrefix
  <2> SUFFICES ASSUME KvInv, NEW h \in DOMAIN hashToBlock
               PROVE  gpuKv[hashToBlock[h]] = h
    BY DEF IndexHoldsPrefix
  <2>1. /\ BCP!IndexNotStale /\ BCP!NoHash \notin DOMAIN hashToBlock /\ BCP!TypeOK
    BY DEF KvInv, ClientInv, BCP!IInv, BCP!IndexSound
  <2>2. hashToBlock[h] \in Blocks /\ blockHash[hashToBlock[h]] = h /\ h # NoHash
    BY <2>1 DEF BCP!IndexNotStale, BCP!TypeOK, BCP!CacheTypeOK, BCP!Blocks, Blocks, BCP!NoHash,
                NoHash
  <2> QED BY <2>2 DEF KvInv, HashedContent
<1> QED BY <1>1, KvInvariance, PTL

\* Every variable of the engine keeps its type.
THEOREM EngineTypeCorrect == ASSUME ~KvSwapEnabled PROVE Spec => []TypeOK
<1>1. KvInv => TypeOK
  <2> SUFFICES ASSUME KvInv PROVE TypeOK
    OBVIOUS
  <2>1. ClientInv /\ QueueTypes /\ ProgressTypes /\ NothingSwapped /\ ~KvSwapEnabled
    BY DEF KvInv, ClientInv, BatchInv, QueueInv
  <2>2. blockTable \in [Requests -> Seq(Blocks)] /\ refCount \in [Blocks -> Nat]
    BY <2>1, PoolOf
  <2>3. cpuFree \in Seq(CpuBlocks)
    <3>1. cpuFree = [i \in 1 .. NumCpuBlocks |-> i - 1] BY <2>1 DEF NothingSwapped
    <3>2. NumCpuBlocks \in Nat /\ \A i \in 1 .. NumCpuBlocks : i - 1 \in CpuBlocks
      BY CpuPoolAssumption DEF CpuPoolAssumption, CpuBlocks
    <3> QED BY <3>1, <3>2
  <2>4. cpuTable \in [Requests -> Seq(CpuBlocks)]
    <3>1. cpuTable = [r \in Requests |-> << >>] BY <2>1 DEF NothingSwapped
    <3>2. << >> \in Seq(CpuBlocks) OBVIOUS
    <3> QED BY <3>1, <3>2
  <2> QED BY <2>1, <2>2, <2>3, <2>4 DEF TypeOK, QueueTypes, ProgressTypes, KvTypes, KvInv
<1> QED BY <1>1, KvInvariance, PTL
----------------------------------------------------------------------------
(***************************************************************************)
(* With swap, without the prefix cache: whose blocks are on the GPU and on *)
(* the CPU, and why a step always finds something to do.                   *)
(***************************************************************************)

\* Every block is in the free list or in the table of one request, and only once.
Exclusive(free, table, S) ==
  /\ free \in Seq(S) /\ table \in [Requests -> Seq(S)]
  /\ IsInjective(free) /\ \A r \in Requests : IsInjective(table[r])
  /\ \A b \in S :
       /\ Contains(free, b) \/ \E r \in Requests : Contains(table[r], b)
       /\ Contains(free, b) => \A r \in Requests : ~Contains(table[r], b)
       /\ \A q, r \in Requests : Contains(table[q], b) /\ Contains(table[r], b) => q = r

\* Blocks move between the free list and one table.
LEMMA BlocksMoved ==
  ASSUME NEW S, NEW free, NEW table, Exclusive(free, table, S), NEW r \in Requests,
         NEW left \in Seq(S), NEW new \in Seq(S), IsInjective(left), IsInjective(new),
         \A b \in S : /\ Contains(left, b) \/ Contains(new, b)
                           <=> Contains(free, b) \/ Contains(table[r], b)
                      /\ ~(Contains(left, b) /\ Contains(new, b))
  PROVE  Exclusive(left, [table EXCEPT ![r] = new], S)
<1> DEFINE t == [table EXCEPT ![r] = new]
<1>1. /\ t \in [Requests -> Seq(S)] /\ t[r] = new
      /\ \A q \in Requests : q # r => t[q] = table[q]
  BY DEF Exclusive
<1> HIDE DEF t
<1>2. \A q \in Requests : IsInjective(t[q]) BY <1>1 DEF Exclusive
<1>3. ASSUME NEW b \in S
      PROVE  /\ Contains(left, b) \/ \E q \in Requests : Contains(t[q], b)
             /\ Contains(left, b) => \A q \in Requests : ~Contains(t[q], b)
             /\ \A p, q \in Requests : Contains(t[p], b) /\ Contains(t[q], b) => p = q
  <2>1. /\ Contains(free, b) \/ \E q \in Requests : Contains(table[q], b)
        /\ Contains(free, b) => \A q \in Requests : ~Contains(table[q], b)
        /\ \A p, q \in Requests : Contains(table[p], b) /\ Contains(table[q], b) => p = q
    BY DEF Exclusive
  <2> QED BY <1>1, <2>1, Zenon
<1> QED BY <1>1, <1>2, <1>3 DEF Exclusive, t

\* The two parts of a list cut in two.
LEMMA CutInTwo ==
  ASSUME NEW R, NEW s \in Seq(R), IsInjective(s), NEW n \in 0 .. Len(s)
  PROVE  LET a == SubSeq(s, 1, n)
             b == SubSeq(s, n + 1, Len(s))
         IN  /\ a \in Seq(R) /\ b \in Seq(R) /\ IsInjective(a) /\ IsInjective(b)
             /\ Len(a) = n
             /\ \A e : Contains(a, e) \/ Contains(b, e) <=> Contains(s, e)
             /\ \A e : ~(Contains(a, e) /\ Contains(b, e))
<1> DEFINE a == SubSeq(s, 1, n)
           b == SubSeq(s, n + 1, Len(s))
<1>1. /\ a \in Seq(R) /\ Len(a) = n /\ DOMAIN a = 1 .. n
      /\ \A i \in 1 .. n : a[i] = s[i]
  OBVIOUS
<1>2. /\ b \in Seq(R) /\ Len(b) = Len(s) - n /\ DOMAIN b = 1 .. Len(s) - n
      /\ \A i \in 1 .. Len(s) - n : b[i] = s[n + i]
  OBVIOUS
<1>3. Len(s) \in Nat /\ n \in Nat /\ DOMAIN s = 1 .. Len(s) OBVIOUS
<1> HIDE DEF a, b
<1>4. IsInjective(a) BY <1>1, <1>3 DEF IsInjective
<1>5. IsInjective(b)
  <2> SUFFICES ASSUME NEW i \in 1 .. Len(s) - n, NEW j \in 1 .. Len(s) - n, b[i] = b[j]
               PROVE  i = j
    BY <1>2 DEF IsInjective
  <2>1. n + i \in DOMAIN s /\ n + j \in DOMAIN s /\ s[n + i] = s[n + j] BY <1>2, <1>3
  <2>2. n + i = n + j BY <2>1 DEF IsInjective
  <2> QED BY <2>2, <1>3
<1>6. ASSUME NEW e PROVE Contains(a, e) \/ Contains(b, e) <=> Contains(s, e)
  <2>1. Contains(a, e) => Contains(s, e) BY <1>1, <1>3 DEF Contains
  <2>2. Contains(b, e) => Contains(s, e)
    <3> SUFFICES ASSUME NEW i \in 1 .. Len(b), b[i] = e PROVE Contains(s, e)
      BY DEF Contains
    <3>1. n + i \in 1 .. Len(s) /\ s[n + i] = e BY <1>2, <1>3
    <3> QED BY <3>1 DEF Contains
  <2>3. ASSUME NEW i \in 1 .. Len(s), s[i] = e PROVE Contains(a, e) \/ Contains(b, e)
    <3>1. CASE i <= n
      <4>1. i \in 1 .. Len(a) /\ a[i] = e BY <1>1, <1>3, <2>3, <3>1
      <4> QED BY <4>1 DEF Contains
    <3>2. CASE i > n
      <4>1. i - n \in 1 .. Len(b) /\ n + (i - n) = i BY <1>2, <1>3, <3>2
      <4>2. b[i - n] = e BY <1>2, <2>3, <4>1
      <4> QED BY <4>1, <4>2 DEF Contains
    <3> QED BY <3>1, <3>2, <1>3
  <2> QED BY <2>1, <2>2, <2>3 DEF Contains
<1>7. ASSUME NEW e, Contains(a, e), Contains(b, e) PROVE FALSE
  <2>1. PICK i \in 1 .. Len(a) : a[i] = e BY <1>7 DEF Contains
  <2>2. PICK j \in 1 .. Len(b) : b[j] = e BY <1>7 DEF Contains
  <2>3. i \in DOMAIN s /\ n + j \in DOMAIN s /\ s[i] = s[n + j] /\ i # n + j
    BY <2>1, <2>2, <1>1, <1>2, <1>3
  <2> QED BY <2>3 DEF IsInjective
<1> QED BY <1>1, <1>2, <1>4, <1>5, <1>6, <1>7 DEF a, b

\* The first n free blocks become the table of a request that had none.
LEMMA FrontTaken ==
  ASSUME NEW S, NEW free, NEW table, Exclusive(free, table, S), NEW r \in Requests,
         table[r] = << >>, NEW n \in 0 .. Len(free)
  PROVE  /\ Len(SubSeq(free, 1, n)) = n
         /\ Exclusive(SubSeq(free, n + 1, Len(free)),
                      [table EXCEPT ![r] = SubSeq(free, 1, n)], S)
<1>1. free \in Seq(S) /\ IsInjective(free) BY DEF Exclusive
<1> DEFINE a == SubSeq(free, 1, n)
           b == SubSeq(free, n + 1, Len(free))
<1>2. /\ a \in Seq(S) /\ b \in Seq(S) /\ IsInjective(a) /\ IsInjective(b) /\ Len(a) = n
      /\ \A e : Contains(a, e) \/ Contains(b, e) <=> Contains(free, e)
      /\ \A e : ~(Contains(a, e) /\ Contains(b, e))
  BY <1>1, CutInTwo
<1> HIDE DEF a, b
<1>3. \A e : ~Contains(table[r], e) BY EmptyQueue
<1>4. Exclusive(b, [table EXCEPT ![r] = a], S) BY <1>2, <1>3, BlocksMoved
<1> QED BY <1>2, <1>4 DEF a, b

\* The blocks of a table go back to the end of the free list.
LEMMA TableGivenBack ==
  ASSUME NEW S, NEW free, NEW table, Exclusive(free, table, S), NEW r \in Requests
  PROVE  Exclusive(free \o table[r], [table EXCEPT ![r] = << >>], S)
<1>1. /\ free \in Seq(S) /\ IsInjective(free) /\ table[r] \in Seq(S) /\ IsInjective(table[r])
      /\ \A b \in S : ~(Contains(free, b) /\ Contains(table[r], b))
  BY DEF Exclusive
<1> DEFINE s == free \o table[r]
<1>2. /\ s \in Seq(S) /\ IsInjective(s)
      /\ \A b : Contains(s, b) <=> Contains(free, b) \/ Contains(table[r], b)
  BY <1>1, Joined
<1> HIDE DEF s
<1>3. << >> \in Seq(S) /\ IsInjective(<< >>) /\ \A b : ~Contains(<< >>, b) BY EmptyQueue
<1>4. Exclusive(s, [table EXCEPT ![r] = << >>], S) BY <1>2, <1>3, BlocksMoved
<1> QED BY <1>4 DEF s

\* The first free block is appended to a table.
LEMMA OneTaken ==
  ASSUME NEW S, NEW free, NEW table, Exclusive(free, table, S), NEW r \in Requests,
         free # << >>
  PROVE  /\ Head(free) \in S
         /\ Exclusive(Tail(free), [table EXCEPT ![r] = Append(@, Head(free))], S)
         /\ \A b : Contains(Tail(free), b) <=> Contains(free, b) /\ b # Head(free)
<1>1. /\ free \in Seq(S) /\ IsInjective(free) /\ table[r] \in Seq(S) /\ IsInjective(table[r])
      /\ \A b \in S : ~(Contains(free, b) /\ Contains(table[r], b))
  BY DEF Exclusive
<1> DEFINE h == Head(free)
           t == Tail(free)
           s == Append(table[r], h)
<1>2. /\ t \in Seq(S) /\ h \in S /\ Contains(free, h) /\ ~Contains(t, h) /\ IsInjective(t)
      /\ \A b : Contains(t, b) <=> Contains(free, b) /\ b # h
  BY <1>1, Popped
<1> HIDE DEF h, t
<1>3. /\ s \in Seq(S) /\ \A b : Contains(s, b) <=> Contains(table[r], b) \/ b = h
      /\ IsInjective(s)
  BY <1>1, <1>2, Appended
<1> HIDE DEF s
<1>4. Exclusive(t, [table EXCEPT ![r] = s], S) BY <1>1, <1>2, <1>3, BlocksMoved
<1> QED BY <1>2, <1>4 DEF h, t, s

\* The last block of a table goes back to the free list.
LEMMA LastGivenBack ==
  ASSUME NEW S, NEW free, NEW table, Exclusive(free, table, S), NEW r \in Requests,
         table[r] # << >>, NEW n, n = Len(table[r])
  PROVE  /\ table[r][n] \in S /\ ~Contains(free, table[r][n])
         /\ Exclusive(Append(free, table[r][n]),
                      [table EXCEPT ![r] = SubSeq(@, 1, n - 1)], S)
         /\ \A b : Contains(Append(free, table[r][n]), b)
                     <=> Contains(free, b) \/ b = table[r][n]
<1>1. /\ free \in Seq(S) /\ IsInjective(free) /\ table[r] \in Seq(S) /\ IsInjective(table[r])
      /\ \A b \in S : ~(Contains(free, b) /\ Contains(table[r], b))
  BY DEF Exclusive
<1> DEFINE t == table[r]
           l == Last(t)
           s == Front(t)
           f == Append(free, l)
<1>2. /\ s \in Seq(S) /\ l \in S /\ Contains(t, l) /\ IsInjective(s)
      /\ \A b : Contains(s, b) <=> Contains(t, b) /\ b # l
  BY <1>1, PoppedLast
<1>3. l = t[n] /\ s = SubSeq(t, 1, n - 1) BY DEF Last, Front
<1> HIDE DEF l, s
<1>4. /\ f \in Seq(S) /\ \A b : Contains(f, b) <=> Contains(free, b) \/ b = l
      /\ IsInjective(f)
  BY <1>1, <1>2, Appended
<1> HIDE DEF f
<1>5. Exclusive(f, [table EXCEPT ![r] = s], S) BY <1>1, <1>2, <1>4, BlocksMoved
<1>6. ~Contains(free, l) BY <1>1, <1>2
<1> QED BY <1>2, <1>3, <1>4, <1>5, <1>6 DEF f

----------------------------------------------------------------------------
(***************************************************************************)
(* The inductive invariant.                                                *)
(***************************************************************************)

Pools ==
  /\ Exclusive(freeList, blockTable, Blocks)
  /\ Exclusive(cpuFree, cpuTable, CpuBlocks)
  /\ refCount = [b \in Blocks |-> IF Contains(freeList, b) THEN 0 ELSE 1]
  /\ used = {b \in Blocks : ~Contains(freeList, b)}

Calling(r) == call.op # "none" /\ call.seq = r

\* How many tokens the table of r has room for.
Covered(r) == IF status[r] = "running" /\ ~InBatch(r) THEN NumTokens(r) - 1 ELSE NumTokens(r)

\* A table is complete, or it is empty and r does not run.
TableExact(r) ==
  /\ status[r] = "running" => Covered(r) > 0
  /\ ~Calling(r) =>
       \/ Len(blockTable[r]) = BlocksFor(Covered(r))
       \/ status[r] # "running" /\ ~InBatch(r) /\ blockTable[r] = << >>
  /\ ~Live(r) => blockTable[r] = << >> \/ Calling(r)
  /\ Contains(prefillBatch, r) /\ status[r] = "running" =>
       numCached[r] + numScheduled[r] = NumTokens(r)

\* What the call in progress is about.
CallExact ==
  /\ call.op = "allocate" =>
       /\ call.hits = 0 /\ call.target = BlocksFor(Covered(call.seq))
       /\ Len(blockTable[call.seq]) <= call.target
       /\ cpuTable[call.seq] = << >>
       /\ pc \in {"swapIns", "prefill"}
  /\ call.op = "deallocate" =>
       /\ status[call.seq] # "running"
       /\ pc \notin {"idle", "swapIns", "prefill"}

\* A request that is swapped out waits, with CPU blocks for its computed tokens; the
\* prefill loop is entered only when there is no room to restore it.
SwapExact(r) ==
  cpuTable[r] # << >> =>
    /\ status[r] = "waiting"
    /\ blockTable[r] = << >> \/ (call.op = "deallocate" /\ call.seq = r)
    /\ Len(cpuTable[r]) = BlocksFor(NumTokens(r) - 1)
    /\ pc = "prefill" => FreeCount < Len(cpuTable[r])

Accounts == Pools /\ CallExact /\ \A r \in Requests : TableExact(r) /\ SwapExact(r)

Exact == BatchInv /\ ~EnablePrefixCaching /\ stepMode = "separate" /\ Accounts

\* More tokens need no fewer blocks, and none need none.
LEMMA BlocksForSome ==
  ASSUME NEW n \in Nat
  PROVE  /\ BlocksFor(n) \in Nat /\ (BlocksFor(n) > 0 <=> n > 0)
         /\ n > 0 => BlocksFor(n) = IF n % BlockSize = 1 THEN BlocksFor(n - 1) + 1
                                                       ELSE BlocksFor(n - 1)
<1>1. n > 0 => BlocksFor(n) = IF n % BlockSize = 1 THEN BlocksFor(n - 1) + 1
                                                   ELSE BlocksFor(n - 1)
  BY BlockSizeAssumption DEF BlocksFor
<1>2. BlocksFor(n) \in Nat BY BlocksForBounds, n <= n
<1>3. n > 0 => BlocksFor(n) > 0
  <2>1. n > 0 => 0 \div BlockSize < BlocksFor(n) /\ 0 \div BlockSize \in Nat
    BY BlocksForBounds, 0 <= n
  <2> HIDE DEF BlocksFor
  <2> QED BY <2>1, <1>2
<1>4. BlocksFor(0) = 0 BY BlockSizeAssumption DEF BlocksFor
<1> HIDE DEF BlocksFor
<1> QED BY <1>1, <1>2, <1>3, <1>4

\* What the invariant says of the variables' types.
LEMMA ExactTypes ==
  ASSUME Exact
  PROVE  /\ QueueInv /\ blockTable \in [Requests -> Seq(Blocks)]
         /\ cpuTable \in [Requests -> Seq(CpuBlocks)]
         /\ status \in [Requests -> {"new", "rejected", "waiting", "running", "finished",
                                     "aborted"}]
         /\ tokenIds \in [Requests -> Seq(Token)]
         /\ numCached \in [Requests -> Nat] /\ numScheduled \in [Requests -> Nat]
         /\ \A r \in Requests : NumTokens(r) \in Nat \ {0}
         /\ running \in Seq(Requests) /\ waiting \in Seq(Requests)
         /\ freeList \in Seq(Blocks) /\ cpuFree \in Seq(CpuBlocks)
         /\ call = NoCall \/ (call.op \in {"allocate", "deallocate"} /\ call.seq \in Requests)
         /\ Idle => \A r : ~Calling(r)
<1>1. QueueInv BY DEF Exact, BatchInv
<1>2. \A r \in Requests : NumTokens(r) \in Nat \ {0}
  BY <1>1 DEF QueueInv, ProgressTypes, TokensLeft, NumTokens
<1>3. call = NoCall \/ (call.op \in {"allocate", "deallocate"} /\ call.seq \in Requests)
  BY <1>1 DEF QueueInv, ProgressTypes
<1>4. Idle => \A r : ~Calling(r) BY DEF Idle, NoCall, Calling
<1> QED BY <1>1, <1>2, <1>3, <1>4 DEF Exact, Accounts, Pools, Exclusive, QueueInv, ProgressTypes,
           QueueTypes

----------------------------------------------------------------------------
(***************************************************************************)
(* What a step leaves alone.                                               *)
(***************************************************************************)

\* Nothing about the table of r changes.
LEMMA TableKept ==
  ASSUME NEW r, TableExact(r),
         status'[r] = status[r], blockTable'[r] = blockTable[r], tokenIds'[r] = tokenIds[r],
         Contains(prefillBatch', r) <=> Contains(prefillBatch, r),
         Contains(decodeBatch', r) <=> Contains(decodeBatch, r),
         \/ numCached'[r] + numScheduled'[r] = numCached[r] + numScheduled[r]
         \/ ~Contains(prefillBatch, r),
         Calling(r)' <=> Calling(r)
  PROVE  TableExact(r)'
BY DEF TableExact, Covered, InBatch, NumTokens, Live

\* Nothing about the CPU blocks of r changes, and its table is still empty.
LEMMA SwapKept ==
  ASSUME NEW r, SwapExact(r),
         cpuTable'[r] = cpuTable[r],
         cpuTable[r] # << >> =>
           /\ status'[r] = status[r] /\ tokenIds'[r] = tokenIds[r]
           /\ \/ blockTable'[r] = << >>
              \/ call'.op = "deallocate" /\ call'.seq = r
           /\ pc' = "prefill" => FreeCount' < Len(cpuTable[r])
  PROVE  SwapExact(r)'
BY DEF SwapExact, NumTokens

\* The steps that neither move blocks nor touch a request.
LEMMA AccountsKept ==
  ASSUME Exact,
         UNCHANGED <<poolVars, blockTable, cpuFree, cpuTable, status, tokenIds, call,
                     prefillBatch, decodeBatch, numCached, numScheduled>>,
         pc' = pc \/ Idle,
         pc' = "prefill" => pc = "prefill" \/
           \A r \in Requests : cpuTable[r] # << >> => FreeCount < Len(cpuTable[r])
  PROVE  Accounts'
<1>1. Pools' BY DEF Exact, Accounts, Pools, poolVars
<1>2. CallExact'
  <2>1. CASE Idle BY <2>1 DEF CallExact, Idle, NoCall
  <2>2. CASE pc' = pc
    <3>1. Covered(call.seq)' = Covered(call.seq) BY DEF Covered, InBatch, NumTokens
    <3> QED BY <2>2, <3>1 DEF Exact, Accounts, CallExact
  <2> QED BY <2>1, <2>2
<1>3. ASSUME NEW r \in Requests PROVE TableExact(r)' /\ SwapExact(r)'
  <2>1. TableExact(r) /\ SwapExact(r) BY DEF Exact, Accounts
  <2>2. Calling(r)' <=> Calling(r) BY DEF Calling
  <2>3. TableExact(r)' BY <2>1, <2>2, TableKept
  <2>4. SwapExact(r)' BY <2>1 DEF SwapExact, NumTokens, FreeCount, poolVars
  <2> QED BY <2>3, <2>4
<1> QED BY <1>1, <1>2, <1>3 DEF Accounts

----------------------------------------------------------------------------
(***************************************************************************)
(* The block manager.                                                      *)
(***************************************************************************)

\* A fresh block goes from the free list to the table of r.
LEMMA BlockTaken ==
  ASSUME Pools, NEW r \in Requests, AllocateBlock(Head(freeList)),
         blockTable' = [blockTable EXCEPT ![r] = Append(@, Head(freeList))],
         UNCHANGED <<cpuFree, cpuTable>>
  PROVE  /\ Pools'
         /\ FreeCount' = FreeCount - 1 /\ FreeCount \in Nat
         /\ Len(blockTable'[r]) = Len(blockTable[r]) + 1
         /\ \A q \in Requests : q # r => blockTable'[q] = blockTable[q]
<1> DEFINE b == Head(freeList)
<1>0. /\ freeList # << >> /\ freeList' = Tail(freeList)
      /\ used' = used \cup {b} /\ refCount' = [refCount EXCEPT ![b] = 1]
  BY DEF AllocateBlock
<1>1. freeList \in Seq(Blocks) /\ blockTable \in [Requests -> Seq(Blocks)]
      /\ Exclusive(freeList, blockTable, Blocks) /\ Exclusive(cpuFree, cpuTable, CpuBlocks)
  BY DEF Pools, Exclusive
<1>2. /\ b \in Blocks /\ Exclusive(freeList', blockTable', Blocks)
      /\ \A c : Contains(freeList', c) <=> Contains(freeList, c) /\ c # b
  BY <1>0, <1>1, OneTaken
<1>3. FreeCount' = FreeCount - 1 /\ FreeCount \in Nat BY <1>0, <1>1 DEF FreeCount
<1> HIDE DEF b
<1>4. refCount' = [c \in Blocks |-> IF Contains(freeList', c) THEN 0 ELSE 1]
  <2>1. refCount = [c \in Blocks |-> IF Contains(freeList, c) THEN 0 ELSE 1] BY DEF Pools
  <2> QED BY <1>0, <1>2, <2>1
<1>5. used' = {c \in Blocks : ~Contains(freeList', c)}
  <2>1. used = {c \in Blocks : ~Contains(freeList, c)} BY DEF Pools
  <2> QED BY <1>0, <1>2, <2>1
<1>6. Pools' BY <1>1, <1>2, <1>4, <1>5 DEF Pools
<1>7. Len(blockTable'[r]) = Len(blockTable[r]) + 1
  <2>1. b \in Blocks /\ blockTable[r] \in Seq(Blocks) BY <1>1, <1>2
  <2>2. blockTable'[r] = Append(blockTable[r], b) BY <1>1 DEF b
  <2> QED BY <2>1, <2>2
<1>8. \A q \in Requests : q # r => blockTable'[q] = blockTable[q] BY <1>1
<1> QED BY <1>3, <1>6, <1>7, <1>8

\* One iteration or the return of the call in progress.
LEMMA BlockManagerExact ==
  ASSUME Exact, BlockManagerStep
  PROVE  Accounts'
<1>r. PICK r : r = call.seq OBVIOUS
<1>0. /\ QueueInv /\ Accounts /\ ~EnablePrefixCaching
      /\ UNCHANGED <<status, cpuFree, cpuTable, prefillBatch, decodeBatch, pc, tokenIds,
                     numScheduled>>
      /\ blockTable \in [Requests -> Seq(Blocks)] /\ numCached \in [Requests -> Nat]
  BY ExactTypes DEF BlockManagerStep, CallStep, swapVars, batchVars, Exact
<1>1. /\ call.op \in {"allocate", "deallocate"} /\ r \in Requests /\ call # NoCall
      /\ ~InBatch(r)
      /\ call.op = "allocate" => Live(r)
  <2>1. call.op \in {"allocate", "deallocate"}
    BY DEF BlockManagerStep, CallStep, TakeCached, TakeFresh, AllocateReturn, ReleaseBlock,
           DeallocateReturn
  <2>2. r \in Requests BY <1>r, <2>1, ExactTypes DEF NoCall
  <2> QED BY <1>r, <1>0, <2>1, <2>2 DEF QueueInv, CallOutsideBatch, NoCall
<1>2. Covered(r)' = Covered(r) /\ InBatch(r)' = InBatch(r) /\ NumTokens(r)' = NumTokens(r)
      /\ Live(r)' = Live(r)
  BY <1>0 DEF Covered, InBatch, NumTokens, Live
<1>3. \A q \in Requests : TableExact(q) /\ SwapExact(q) BY <1>0 DEF Accounts
<1>4. Len(blockTable[r]) \in Nat BY <1>0, <1>1
<1>5. CASE TakeCached
  <2>1. call.op = "allocate" /\ NextIndex(r) <= call.hits BY <1>r, <1>5 DEF TakeCached
  <2>2. call.hits = 0 BY <1>0, <2>1 DEF Accounts, CallExact
  <2> QED BY <1>4, <2>1, <2>2 DEF NextIndex
<1>6. CASE TakeFresh
  <2>1. /\ call.op = "allocate" /\ NextIndex(r) <= call.target
        /\ AllocateBlock(Head(freeList))
        /\ blockTable' = [blockTable EXCEPT ![r] = Append(@, Head(freeList))]
        /\ UNCHANGED <<call, numCached>>
    BY <1>r, <1>6 DEF TakeFresh
  <2>2. /\ Pools'
        /\ FreeCount' = FreeCount - 1 /\ FreeCount \in Nat
        /\ Len(blockTable'[r]) = Len(blockTable[r]) + 1
        /\ \A q \in Requests : q # r => blockTable'[q] = blockTable[q]
    BY <1>0, <1>1, <2>1, BlockTaken DEF Accounts
  <2>3. /\ call.hits = 0 /\ call.target = BlocksFor(Covered(r)) /\ cpuTable[r] = << >>
        /\ pc \in {"swapIns", "prefill"}
    BY <1>r, <1>0, <2>1 DEF Accounts, CallExact
  <2>4. CallExact'
    <3>1. Len(blockTable[r]) + 1 <= call.target BY <2>1 DEF NextIndex
    <3> QED BY <1>r, <1>0, <1>2, <2>1, <2>2, <2>3, <3>1 DEF CallExact
  <2>5. ASSUME NEW q \in Requests PROVE TableExact(q)' /\ SwapExact(q)'
    <3>1. Calling(q)' <=> Calling(q) BY <2>1 DEF Calling
    <3>2. TableExact(q)'
      <4>1. CASE q = r
        <5>1. Calling(r) BY <1>r, <2>1 DEF Calling
        <5> QED BY <1>0, <1>2, <1>3, <3>1, <4>1, <5>1, <2>1, <1>1 DEF TableExact
      <4>2. CASE q # r BY <1>0, <1>3, <2>1, <2>2, <3>1, <4>2, TableKept
      <4> QED BY <4>1, <4>2
    <3>3. SwapExact(q)'
      <4>1. cpuTable[q] # << >> => q # r /\ blockTable[q] = << >>
        BY <1>3, <2>1, <2>3 DEF SwapExact
      <4>2. pc = "prefill" /\ cpuTable[q] # << >> => FreeCount' < Len(cpuTable[q])
        <5>1. Len(cpuTable[q]) \in Nat BY ExactTypes
        <5> QED BY <1>3, <2>2, <5>1 DEF SwapExact
      <4> QED BY <1>0, <1>3, <2>2, <4>1, <4>2, SwapKept
    <3> QED BY <3>2, <3>3
  <2> QED BY <2>2, <2>4, <2>5 DEF Accounts
<1>7. CASE ReleaseBlock
  <2> DEFINE n == Len(blockTable[r])
             b == blockTable[r][n]
  <2>1. /\ call.op = "deallocate" /\ blockTable[r] # << >>
        /\ refCount' = [refCount EXCEPT ![b] = @ - 1]
        /\ blockTable' = [blockTable EXCEPT ![r] = SubSeq(@, 1, n - 1)]
        /\ IF refCount[b] = 1
           THEN used' = used \ {b} /\ freeList' = Append(freeList, b)
           ELSE UNCHANGED <<freeList, used>>
        /\ UNCHANGED <<call, numCached>>
    BY <1>r, <1>7 DEF ReleaseBlock
  <2>2. /\ b \in Blocks /\ ~Contains(freeList, b)
        /\ Exclusive(Append(freeList, b), [blockTable EXCEPT ![r] = SubSeq(@, 1, n - 1)], Blocks)
        /\ \A c : Contains(Append(freeList, b), c) <=> Contains(freeList, c) \/ c = b
    BY <1>0, <1>1, <2>1, LastGivenBack DEF Accounts, Pools
  <2> HIDE DEF n, b
  <2>3. refCount = [c \in Blocks |-> IF Contains(freeList, c) THEN 0 ELSE 1]
        /\ used = {c \in Blocks : ~Contains(freeList, c)}
        /\ Exclusive(cpuFree, cpuTable, CpuBlocks)
    BY <1>0 DEF Accounts, Pools
  <2>4. refCount[b] = 1 BY <2>2, <2>3
  <2>5. freeList' = Append(freeList, b) /\ used' = used \ {b} BY <2>1, <2>4
  <2>6. refCount' = [c \in Blocks |-> IF Contains(freeList', c) THEN 0 ELSE 1]
    <3>1. refCount' = [refCount EXCEPT ![b] = 0] BY <2>1, <2>4
    <3> QED BY <3>1, <2>2, <2>3, <2>5
  <2>7. used' = {c \in Blocks : ~Contains(freeList', c)} BY <2>2, <2>3, <2>5
  <2>8. Pools' BY <1>0, <2>1, <2>2, <2>3, <2>5, <2>6, <2>7 DEF Pools
  <2>9. status[r] # "running" /\ pc \notin {"idle", "swapIns", "prefill"}
    BY <1>r, <1>0, <2>1 DEF Accounts, CallExact
  <2>10. CallExact' BY <1>r, <1>0, <2>1, <2>9 DEF CallExact
  <2>11. \A q \in Requests : q # r => blockTable'[q] = blockTable[q] BY <1>0, <2>1
  <2>12. ASSUME NEW q \in Requests PROVE TableExact(q)' /\ SwapExact(q)'
    <3>1. Calling(q)' <=> Calling(q) BY <2>1 DEF Calling
    <3>2. TableExact(q)'
      <4>1. CASE q = r
        <5>1. Calling(r) BY <1>r, <2>1 DEF Calling
        <5> QED BY <1>0, <1>1, <1>2, <1>3, <2>1, <2>9, <3>1, <4>1, <5>1 DEF TableExact, InBatch
      <4>2. CASE q # r BY <1>0, <1>3, <2>1, <2>11, <3>1, <4>2, TableKept
      <4> QED BY <4>1, <4>2
    <3>3. SwapExact(q)'
      <4>1. cpuTable[q] # << >> => blockTable'[q] = << >> \/ q = r
        BY <1>r, <1>3, <2>1, <2>11 DEF SwapExact
      <4> QED BY <1>r, <1>0, <1>3, <2>1, <2>9, <4>1, SwapKept
    <3> QED BY <3>2, <3>3
  <2> QED BY <2>8, <2>10, <2>12 DEF Accounts
<1>8. CASE AllocateReturn \/ DeallocateReturn
  <2>1. /\ call' = NoCall /\ UNCHANGED <<poolVars, blockTable>>
        /\ \/ call.op = "allocate" /\ Len(blockTable[r]) = call.target
           \/ call.op = "deallocate" /\ blockTable[r] = << >>
        /\ \E c : numCached' = [numCached EXCEPT ![r] = c]
    BY <1>r, <1>8 DEF AllocateReturn, DeallocateReturn
  <2>2. Pools' BY <1>0, <2>1 DEF Accounts, Pools, poolVars
  <2>3. CallExact' BY <2>1 DEF CallExact, NoCall
  <2>4. ASSUME NEW q \in Requests PROVE TableExact(q)' /\ SwapExact(q)'
    <3>0. ~Calling(q)' BY <2>1 DEF Calling, NoCall
    <3>1. CASE q = r
      <4>1. \/ Len(blockTable[r]) = BlocksFor(Covered(r)) /\ Live(r) /\ cpuTable[r] = << >>
            \/ status[r] # "running" /\ blockTable[r] = << >>
        BY <1>r, <1>0, <1>1, <2>1 DEF Accounts, CallExact
      <4>2. ~Contains(prefillBatch, r) BY <1>1 DEF InBatch
      <4>3. TableExact(r)'
        BY <1>0, <1>1, <1>2, <1>3, <2>1, <3>0, <3>1, <4>1, <4>2 DEF TableExact
      <4>4. SwapExact(r)'
        BY <1>0, <1>1, <1>2, <1>3, <2>1, <4>1 DEF SwapExact, FreeCount, poolVars, NoCall
      <4> QED BY <3>1, <4>3, <4>4
    <3>2. CASE q # r
      <4>1. ~Calling(q) BY <1>r, <3>2 DEF Calling
      <4>2. numCached'[q] = numCached[q] BY <1>0, <2>1, <3>2
      <4>3. TableExact(q)' BY <1>0, <1>3, <2>1, <3>0, <4>1, <4>2, TableKept
      <4>4. FreeCount' = FreeCount BY <2>1 DEF FreeCount, poolVars
      <4>5. cpuTable[q] # << >> => blockTable[q] = << >> BY <1>r, <1>3, <3>2 DEF SwapExact
      <4>6. cpuTable[q] # << >> /\ pc = "prefill" => FreeCount < Len(cpuTable[q])
        BY <1>3 DEF SwapExact
      <4>7. SwapExact(q)' BY <1>0, <1>3, <2>1, <4>4, <4>5, <4>6, SwapKept
      <4> QED BY <4>3, <4>7
    <3> QED BY <3>1, <3>2
  <2> QED BY <2>2, <2>3, <2>4 DEF Accounts
<1> QED BY <1>5, <1>6, <1>7, <1>8 DEF BlockManagerStep, CallStep

----------------------------------------------------------------------------
(***************************************************************************)
(* The scheduler.                                                          *)
(***************************************************************************)

\* A request is restored: its CPU blocks are free again, its GPU blocks are asked for.
LEMMA SwapInExact ==
  ASSUME Exact, SwapInNext, UNCHANGED stepMode
  PROVE  Accounts'
<1>0. /\ QueueInv /\ Accounts /\ Idle /\ pc = "swapIns" /\ pc' = pc
      /\ waiting \in Seq(Requests)
      /\ UNCHANGED <<tokenIds, numCached, freeList, used, refCount, prefillBatch, decodeBatch>>
      /\ \A q : ~Calling(q)
  BY ExactTypes DEF SwapInNext, At, poolVars, batchVars, Exact
<1>1. PICK k \in 1 .. Len(waiting) : SwapIn(waiting[k]) BY DEF SwapInNext
<1>r. PICK r \in Requests : r = waiting[k] BY <1>0
<1>2. /\ cpuTable[r] # << >>
      /\ call' = [op |-> "allocate", seq |-> r, hits |-> 0, target |-> Len(cpuTable[r]),
                  cached |-> numSwapped[r]]
      /\ blockTable' = [blockTable EXCEPT ![r] = << >>]
      /\ cpuFree' = cpuFree \o cpuTable[r]
      /\ cpuTable' = [cpuTable EXCEPT ![r] = << >>]
      /\ status' = [status EXCEPT ![r] = "running"]
      /\ numScheduled' = [numScheduled EXCEPT ![r] = 0]
  BY <1>r, <1>1 DEF SwapIn, Restorable, AllocateFreshBlocks, CallAllocate, CpuDeallocate
<1>3. \A q \in Requests : TableExact(q) /\ SwapExact(q) BY <1>0 DEF Accounts
<1>4. /\ status[r] = "waiting" /\ blockTable[r] = << >>
      /\ Len(cpuTable[r]) = BlocksFor(NumTokens(r) - 1)
  BY <1>0, <1>2, <1>3 DEF SwapExact, Idle, NoCall
<1>5. /\ blockTable \in [Requests -> Seq(Blocks)] /\ cpuTable \in [Requests -> Seq(CpuBlocks)]
      /\ status \in [Requests -> {"new", "rejected", "waiting", "running", "finished", "aborted"}]
      /\ NumTokens(r) \in Nat \ {0}
  BY ExactTypes
<1>6. blockTable' = blockTable BY <1>2, <1>4, <1>5
<1>7. Pools'
  <2>1. Exclusive(cpuFree', cpuTable', CpuBlocks)
    BY <1>0, <1>2, TableGivenBack DEF Accounts, Pools
  <2> QED BY <1>0, <1>6, <2>1 DEF Accounts, Pools
<1>8. prefillBatch = << >> /\ decodeBatch = << >> BY <1>0 DEF QueueInv, BatchesInPhase
<1>9. \A q : ~InBatch(q)' /\ ~Contains(prefillBatch, q) BY <1>0, <1>8, EmptyQueue DEF InBatch
<1>10. status'[r] = "running" /\ NumTokens(r)' = NumTokens(r) BY <1>0, <1>2, <1>5 DEF NumTokens
<1>11. Covered(r)' = NumTokens(r) - 1 BY <1>9, <1>10 DEF Covered
<1>12. Len(cpuTable[r]) \in Nat \ {0} BY <1>2, <1>5
<1>13. NumTokens(r) - 1 > 0
  <2>1. PICK n \in Nat : n = NumTokens(r) - 1 BY <1>5
  <2>2. BlocksFor(n) > 0 BY <1>4, <1>12, <2>1
  <2> QED BY <2>1, <2>2, BlocksForSome
<1>14. CallExact'
  <2>1. Len(blockTable'[r]) = 0 /\ cpuTable'[r] = << >> BY <1>4, <1>5, <1>6, <1>2
  <2>2. /\ call'.op = "allocate" /\ call'.seq = r /\ call'.hits = 0
        /\ call'.target = Len(cpuTable[r])
    BY <1>2
  <2> QED BY <1>0, <1>4, <1>11, <1>12, <2>1, <2>2 DEF CallExact
<1>15. ASSUME NEW q \in Requests PROVE TableExact(q)' /\ SwapExact(q)'
  <2>1. Calling(q)' <=> q = r BY <1>2 DEF Calling
  <2>2. CASE q = r
    <3>1. TableExact(r)' BY <1>9, <1>10, <1>11, <1>13, <2>1, <2>2, <1>0 DEF TableExact, Live
    <3>2. SwapExact(r)' BY <1>2, <1>5 DEF SwapExact
    <3> QED BY <2>2, <3>1, <3>2
  <2>3. CASE q # r
    <3>1. status'[q] = status[q] /\ cpuTable'[q] = cpuTable[q] BY <1>2, <1>5, <2>3
    <3>2. TableExact(q)' BY <1>0, <1>3, <1>6, <1>9, <2>1, <2>3, <3>1, TableKept
    <3>3. cpuTable[q] # << >> => blockTable[q] = << >>
      BY <1>0, <1>3 DEF SwapExact, Idle, NoCall
    <3>4. SwapExact(q)' BY <1>0, <1>3, <1>6, <3>1, <3>3, SwapKept
    <3> QED BY <3>2, <3>4
  <2> QED BY <2>2, <2>3
<1> QED BY <1>7, <1>14, <1>15 DEF Accounts

\* The prefill loop is entered when no swapped request can be restored.
LEMMA SwapInDoneExact ==
  ASSUME Exact, SwapInDone(AfterSwapIns), UNCHANGED stepMode
  PROVE  Accounts'
<1>1. ASSUME NEW r \in Requests, cpuTable[r] # << >> PROVE FreeCount < Len(cpuTable[r])
  <2>1. status[r] = "waiting" BY <1>1 DEF Exact, Accounts, SwapExact
  <2>2. Contains(waiting, r) BY <2>1 DEF Exact, BatchInv, QueueInv, QueueOfStatus
  <2>3. ~Restorable(r) BY <2>2 DEF SwapInDone, Contains
  <2>4. Len(cpuTable[r]) \in Nat /\ FreeCount \in Nat BY ExactTypes DEF FreeCount
  <2> QED BY <1>1, <2>3, <2>4 DEF Restorable
<1> QED BY <1>1, AccountsKept DEF SwapInDone, At, bmVars, swapVars, batchVars

\* The prefill loop asks for blocks only for a request that is not swapped out.
LEMMA PrefillAllocateExact ==
  ASSUME Exact, PrefillAllocate, UNCHANGED stepMode
  PROVE  Accounts'
<1>0. /\ QueueInv /\ Accounts /\ Idle /\ pc = "prefill" /\ pc' = pc /\ ~EnablePrefixCaching
      /\ UNCHANGED <<tokenIds, numCached, numScheduled, freeList, used, refCount, status,
                     prefillBatch, decodeBatch, cpuFree, cpuTable>>
      /\ \A q : ~Calling(q)
  BY ExactTypes DEF PrefillAllocate, At, poolVars, batchVars, swapVars, Exact
<1>1. PICK r \in Requests, n \in Nat :
        /\ Candidate(r) /\ blockTable[r] = << >> /\ CanAllocate(r, n) /\ Allocate(r, n)
        /\ n \in 0 .. NumBlocks(r) - 1
  BY BlocksForSome, ExactTypes DEF PrefillAllocate, NumBlocks
<1>2. n = 0 BY <1>0, <1>1 DEF CanAllocate, CachedBlocks
<1>3. /\ call' = [op |-> "allocate", seq |-> r, hits |-> 0, target |-> NumBlocks(r),
                  cached |-> 0 * BlockSize]
      /\ UNCHANGED blockTable
  BY <1>1, <1>2 DEF Allocate, CallAllocate
<1>4. \A q \in Requests : TableExact(q) /\ SwapExact(q) BY <1>0 DEF Accounts
<1>5. status[r] = "waiting" BY <1>0, <1>1, CandidateIsWaiting
<1>6. NumTokens(r) \in Nat \ {0} BY ExactTypes
<1>7. BlocksFor(NumTokens(r)) \in Nat /\ BlocksFor(NumTokens(r) - 1) \in Nat
      /\ BlocksFor(NumTokens(r) - 1) <= BlocksFor(NumTokens(r))
  <2>1. PICK m \in Nat : m = NumTokens(r) /\ m - 1 \in Nat /\ m - 1 <= m BY <1>6
  <2>2. BlocksFor(m) \in Nat /\ BlocksFor(m - 1) \in Nat /\ BlocksFor(m - 1) <= BlocksFor(m)
    BY <2>1, BlocksForBounds
  <2> QED BY <2>1, <2>2
<1>8. FreeCount >= NumBlocks(r)
  <2>1. {i \in 1 .. 0 : hashToBlock[Chain(r, i)] \in used} = {} OBVIOUS
  <2>2. NewBlocks(r, 0) = NumBlocks(r) BY <1>7, <2>1, FS_EmptySet DEF NewBlocks, NumBlocks
  <2> QED BY <1>1, <1>2, <2>2 DEF CanAllocate
<1>9. cpuTable[r] = << >>
  <2> SUFFICES ASSUME cpuTable[r] # << >> PROVE FALSE
    OBVIOUS
  <2>1. FreeCount < BlocksFor(NumTokens(r) - 1) BY <1>0, <1>4 DEF SwapExact
  <2>2. FreeCount \in Nat BY ExactTypes DEF FreeCount
  <2> QED BY <1>7, <1>8, <2>1, <2>2 DEF NumBlocks
<1>10. Covered(r)' = NumTokens(r) BY <1>0, <1>5 DEF Covered, NumTokens
<1>11. CallExact'
  <2>1. /\ call'.op = "allocate" /\ call'.seq = r /\ call'.hits = 0
        /\ call'.target = BlocksFor(NumTokens(r)) /\ Len(blockTable'[r]) = 0
    BY <1>1, <1>3 DEF NumBlocks
  <2> QED BY <1>0, <1>7, <1>9, <1>10, <2>1 DEF CallExact
<1>12. ASSUME NEW q \in Requests PROVE TableExact(q)' /\ SwapExact(q)'
  <2>1. Calling(q)' <=> q = r BY <1>3 DEF Calling
  <2>2. TableExact(q)'
    <3>1. CASE q = r
      BY <1>0, <1>1, <1>3, <1>4, <1>5, <2>1, <3>1 DEF TableExact, Live
    <3>2. CASE q # r BY <1>0, <1>3, <1>4, <2>1, <3>2, TableKept
    <3> QED BY <3>1, <3>2
  <2>3. cpuTable[q] # << >> => blockTable[q] = << >> /\ FreeCount < Len(cpuTable[q])
    BY <1>0, <1>4 DEF SwapExact, Idle, NoCall
  <2>4. SwapExact(q)' BY <1>0, <1>3, <1>4, <2>3, SwapKept DEF FreeCount
  <2> QED BY <2>2, <2>4
<1>13. Pools' BY <1>0, <1>3 DEF Accounts, Pools
<1> QED BY <1>11, <1>12, <1>13 DEF Accounts

\* A chunk of a waiting request is scheduled; it runs when the chunk is all it had left.
LEMMA PrefillScheduleExact ==
  ASSUME Exact, PrefillSchedule, UNCHANGED stepMode
  PROVE  Accounts'
<1>0. /\ QueueInv /\ Accounts /\ Idle /\ pc = "prefill" /\ pc' = pc
      /\ UNCHANGED <<tokenIds, numCached, freeList, used, refCount, blockTable, call,
                     decodeBatch, cpuFree, cpuTable>>
      /\ \A q : ~Calling(q)
      /\ prefillBatch \in Seq(Requests) /\ numCached \in [Requests -> Nat]
      /\ numScheduled \in [Requests -> Nat]
      /\ status \in [Requests -> {"new", "rejected", "waiting", "running", "finished", "aborted"}]
  BY ExactTypes DEF PrefillSchedule, At, bmVars, poolVars, swapVars, Exact, QueueInv, QueueTypes
<1>1. PICK r \in Requests :
        Candidate(r) /\ blockTable[r] # << >> /\ ScheduleChunk(r, Todo(r, numCached[r]))
  BY DEF PrefillSchedule
<1>2. /\ status[r] = "waiting" /\ ~InBatch(r) BY <1>0, <1>1, CandidateIsWaiting
<1>3. /\ numScheduled' = [numScheduled EXCEPT ![r] = Chunk(Todo(r, numCached[r]))]
      /\ prefillBatch' = Append(prefillBatch, r)
      /\ \/ /\ Chunk(Todo(r, numCached[r])) = Todo(r, numCached[r])
            /\ status' = [status EXCEPT ![r] = "running"]
         \/ UNCHANGED status
  BY <1>1 DEF ScheduleChunk
<1>4. \A q \in Requests : TableExact(q) /\ SwapExact(q) BY <1>0 DEF Accounts
<1>5. /\ \A q : Contains(prefillBatch', q) <=> Contains(prefillBatch, q) \/ q = r
  BY <1>0, <1>3, Appended
<1>6. cpuTable[r] = << >> BY <1>0, <1>1, <1>4 DEF SwapExact, Idle, NoCall
<1>7. ASSUME NEW q \in Requests PROVE TableExact(q)' /\ SwapExact(q)'
  <2>1. ~Calling(q)' BY <1>0 DEF Calling
  <2>2. CASE q = r
    <3>1. NumTokens(r) \in Nat \ {0} /\ NumTokens(r)' = NumTokens(r)
      BY <1>0, ExactTypes DEF NumTokens
    <3>2. InBatch(r)' BY <1>5 DEF InBatch
    <3>3. Covered(r) = NumTokens(r) /\ Covered(r)' = NumTokens(r)
      BY <1>2, <3>1, <3>2 DEF Covered
    <3>4. Len(blockTable[r]) = BlocksFor(NumTokens(r)) BY <1>0, <1>1, <1>4, <3>3 DEF TableExact
    <3>5. status'[r] = "running" => numCached'[r] + numScheduled'[r] = NumTokens(r)
      <4>1. SUFFICES ASSUME status'[r] = "running"
                     PROVE  numCached[r] + numScheduled'[r] = NumTokens(r)
        BY <1>0
      <4>2. numScheduled'[r] = NumTokens(r) - numCached[r]
        BY <1>0, <1>2, <1>3, <4>1 DEF Todo
      <4>3. numCached[r] \in Nat BY <1>0
      <4> QED BY <3>1, <4>2, <4>3
    <3>6. Live(r)' BY <1>0, <1>2, <1>3 DEF Live
    <3>7. TableExact(r)' BY <1>0, <2>1, <3>1, <3>3, <3>4, <3>5, <3>6 DEF TableExact
    <3>8. SwapExact(r)' BY <1>0, <1>6 DEF SwapExact
    <3> QED BY <2>2, <3>7, <3>8
  <2>3. CASE q # r
    <3>1. /\ status'[q] = status[q] /\ numScheduled'[q] = numScheduled[q]
          /\ Contains(prefillBatch', q) <=> Contains(prefillBatch, q)
      BY <1>0, <1>3, <1>5, <2>3
    <3>2. TableExact(q)' BY <1>0, <1>4, <2>1, <3>1, TableKept
    <3>3. cpuTable[q] # << >> => blockTable[q] = << >> /\ FreeCount < Len(cpuTable[q])
      BY <1>0, <1>4 DEF SwapExact, Idle, NoCall
    <3>4. SwapExact(q)' BY <1>0, <1>4, <3>1, <3>3, SwapKept DEF FreeCount
    <3> QED BY <3>2, <3>4
  <2> QED BY <2>2, <2>3
<1>8. Pools' BY <1>0 DEF Accounts, Pools
<1>9. CallExact' BY <1>0 DEF CallExact, Idle, NoCall
<1> QED BY <1>7, <1>8, <1>9 DEF Accounts

\* A decoding request gets the block of its next token when that is a new one.
LEMMA DecodeAdmitExact ==
  ASSUME Exact, DecodeAdmit, UNCHANGED stepMode
  PROVE  Accounts'
<1>0. /\ QueueInv /\ Accounts /\ Idle /\ pc = "decode" /\ pc' = pc
      /\ UNCHANGED <<tokenIds, numCached, call, status, prefillBatch, cpuFree, cpuTable>>
      /\ \A q : ~Calling(q)
      /\ running \in Seq(Requests) /\ running # << >>
      /\ decodeBatch \in Seq(Requests) /\ prefillBatch = << >>
  BY ExactTypes DEF DecodeAdmit, MoreDecode, At, swapVars, Exact, QueueInv, QueueTypes,
     BatchesInPhase
<1>1. PICK r \in Requests : r = Head(running) BY <1>0
<1>2. Contains(running, r) BY <1>0, <1>1, InQueue
<1>3. MayAppend(r) /\ decodeBatch' = Append(decodeBatch, r)
  BY <1>1 DEF DecodeAdmit
<1>4. \A q \in Requests : TableExact(q) /\ SwapExact(q) BY <1>0 DEF Accounts
<1>5. \A q : ~Contains(prefillBatch, q) BY <1>0, EmptyQueue
<1>6. status[r] = "running" /\ ~InBatch(r) /\ InBatch(r)'
  <2>1. status[r] = "running" /\ ~Contains(decodeBatch, r)
    BY <1>0, <1>2 DEF QueueInv, QueueOfStatus, Runs
  <2>2. Contains(decodeBatch', r) BY <1>0, <1>3, Appended
  <2> QED BY <1>5, <2>1, <2>2 DEF InBatch
<1>7. \A q : q # r => (Contains(decodeBatch', q) <=> Contains(decodeBatch, q))
  BY <1>0, <1>3, Appended
<1>8. PICK n \in Nat : n = NumTokens(r) /\ n > 0 BY ExactTypes
<1>9. n - 1 > 0 /\ Len(blockTable[r]) = BlocksFor(n - 1)
  BY <1>0, <1>4, <1>6, <1>8 DEF TableExact, Covered
<1>10. /\ Pools' /\ Len(blockTable'[r]) = BlocksFor(n)
       /\ \A q \in Requests : q # r => blockTable'[q] = blockTable[q]
  <2>1. CASE NeedsBlock(r)
    <3>1. /\ AllocateBlock(Head(freeList))
          /\ blockTable' = [blockTable EXCEPT ![r] = Append(@, Head(freeList))]
      BY <1>3, <2>1 DEF MayAppend
    <3>2. /\ Pools' /\ Len(blockTable'[r]) = Len(blockTable[r]) + 1
          /\ \A q \in Requests : q # r => blockTable'[q] = blockTable[q]
      BY <1>0, <3>1, BlockTaken DEF Accounts
    <3>3. n % BlockSize = 1 BY <1>8, <2>1 DEF NeedsBlock
    <3> QED BY <1>8, <1>9, <3>2, <3>3, BlocksForSome
  <2>2. CASE ~NeedsBlock(r)
    <3>1. UNCHANGED <<freeList, used, refCount, blockTable>>
      BY <1>3, <2>2 DEF MayAppend, poolVars
    <3>2. n % BlockSize # 1 BY <1>8, <2>2 DEF NeedsBlock
    <3>3. BlocksFor(n) = BlocksFor(n - 1) BY <1>8, <3>2, BlocksForSome
    <3> QED BY <1>0, <1>9, <3>1, <3>3 DEF Accounts, Pools
  <2> QED BY <2>1, <2>2
<1>11. ASSUME NEW q \in Requests PROVE TableExact(q)' /\ SwapExact(q)'
  <2>1. ~Calling(q)' BY <1>0 DEF Calling
  <2>2. CASE q = r
    <3>1. NumTokens(r)' = n BY <1>0, <1>8 DEF NumTokens
    <3>2. Covered(r)' = n BY <1>6, <3>1 DEF Covered
    <3>3. ~Contains(prefillBatch', r) /\ Live(r)' BY <1>0, <1>5, <1>6 DEF Live
    <3>4. TableExact(r)' BY <2>1, <1>10, <1>8, <3>2, <3>3 DEF TableExact
    <3>5. cpuTable[r] = << >> BY <1>4, <1>6 DEF SwapExact
    <3>6. SwapExact(r)' BY <1>0, <3>5 DEF SwapExact
    <3> QED BY <2>2, <3>4, <3>6
  <2>3. CASE q # r
    <3>1. TableExact(q)' BY <1>0, <1>4, <1>5, <1>7, <1>10, <2>1, <2>3, TableKept
    <3>2. cpuTable[q] # << >> => blockTable[q] = << >>
      BY <1>0, <1>4 DEF SwapExact, Idle, NoCall
    <3>3. SwapExact(q)' BY <1>0, <1>4, <1>10, <2>3, <3>2, SwapKept
    <3> QED BY <3>1, <3>3
  <2> QED BY <2>2, <2>3
<1>12. CallExact' BY <1>0 DEF CallExact, Idle, NoCall
<1> QED BY <1>10, <1>11, <1>12 DEF Accounts

\* A running request gives up its GPU blocks, for CPU blocks when it is swapped out.
LEMMA PreemptExact ==
  ASSUME Exact, Idle, pc = "decode", pc' \in {"decode", "drain"},
         NEW r \in Requests, Contains(running, r), Preempt(r),
         UNCHANGED <<tokenIds, blockTable, numCached, numScheduled, poolVars, batchVars>>
  PROVE  Accounts'
<1>0. /\ QueueInv /\ Accounts /\ \A q : ~Calling(q)
      /\ UNCHANGED <<freeList, used, refCount, prefillBatch, decodeBatch>>
      /\ status \in [Requests -> {"new", "rejected", "waiting", "running", "finished", "aborted"}]
      /\ cpuTable \in [Requests -> Seq(CpuBlocks)] /\ cpuFree \in Seq(CpuBlocks)
      /\ Len(blockTable[r]) \in Nat
  BY ExactTypes DEF poolVars, batchVars, Exact
<1>1. /\ status' = [status EXCEPT ![r] = "waiting"]
      /\ call' = [op |-> "deallocate", seq |-> r]
      /\ \/ ShouldSwap(r) /\ SwapOut(r)
         \/ UNCHANGED <<cpuFree, cpuTable>>
  BY DEF Preempt, Deallocate, swapVars
<1>2. status[r] = "running" /\ ~InBatch(r)
  <2>1. prefillBatch = << >> BY <1>0 DEF QueueInv, BatchesInPhase
  <2>2. ~Contains(prefillBatch, r) BY <2>1, EmptyQueue
  <2> QED BY <1>0, <2>2 DEF InBatch, QueueInv, QueueOfStatus, Runs
<1>3. \A q \in Requests : TableExact(q) /\ SwapExact(q) BY <1>0 DEF Accounts
<1>4. cpuTable[r] = << >> /\ Len(blockTable[r]) = BlocksFor(NumTokens(r) - 1)
  BY <1>0, <1>2, <1>3 DEF SwapExact, TableExact, Covered
<1>5. /\ Exclusive(cpuFree', cpuTable', CpuBlocks)
      /\ \A q \in Requests : q # r => cpuTable'[q] = cpuTable[q]
      /\ cpuTable'[r] # << >> => Len(cpuTable'[r]) = Len(blockTable[r])
  <2>1. CASE UNCHANGED <<cpuFree, cpuTable>> BY <1>0, <1>4, <2>1 DEF Accounts, Pools
  <2>2. CASE ShouldSwap(r) /\ SwapOut(r)
    <3> DEFINE n == Len(blockTable[r])
    <3>1. n \in 0 .. Len(cpuFree)
      <4>1. Len(cpuFree) >= n BY <2>2 DEF ShouldSwap, CpuCanAllocate
      <4>2. Len(cpuFree) \in Nat BY <1>0
      <4> QED BY <1>0, <4>1, <4>2
    <3>2. /\ cpuFree' = SubSeq(cpuFree, n + 1, Len(cpuFree))
          /\ cpuTable' = [cpuTable EXCEPT ![r] = SubSeq(cpuFree, 1, n)]
      BY <2>2 DEF SwapOut, CpuAllocate, CpuTaken
    <3> HIDE DEF n
    <3>3. Exclusive(cpuFree, cpuTable, CpuBlocks) BY <1>0 DEF Accounts, Pools
    <3>4. /\ Len(SubSeq(cpuFree, 1, n)) = n
          /\ Exclusive(SubSeq(cpuFree, n + 1, Len(cpuFree)),
                       [cpuTable EXCEPT ![r] = SubSeq(cpuFree, 1, n)], CpuBlocks)
      BY <1>4, <3>1, <3>3, FrontTaken
    <3>5. cpuTable'[r] = SubSeq(cpuFree, 1, n)
          /\ \A q \in Requests : q # r => cpuTable'[q] = cpuTable[q]
      BY <1>0, <3>2
    <3> QED BY <3>2, <3>4, <3>5 DEF n
  <2> QED BY <1>1, <2>1, <2>2
<1>6. Pools' BY <1>0, <1>5 DEF Accounts, Pools
<1>7. CallExact' BY <1>0, <1>1 DEF CallExact
<1>8. ASSUME NEW q \in Requests PROVE TableExact(q)' /\ SwapExact(q)'
  <2>1. Calling(q)' <=> q = r BY <1>1 DEF Calling
  <2>2. CASE q = r
    <3>1. status'[r] = "waiting" BY <1>0, <1>1
    <3>2. TableExact(r)' BY <2>1, <2>2, <3>1 DEF TableExact, Live
    <3>3. SwapExact(r)' BY <1>1, <1>4, <1>5, <3>1 DEF SwapExact, NumTokens
    <3> QED BY <2>2, <3>2, <3>3
  <2>3. CASE q # r
    <3>1. status'[q] = status[q] BY <1>0, <1>1, <2>3
    <3>2. TableExact(q)' BY <1>0, <1>3, <2>1, <2>3, <3>1, TableKept
    <3>3. cpuTable[q] # << >> => blockTable[q] = << >>
      BY <1>0, <1>3 DEF SwapExact, Idle, NoCall
    <3>4. SwapExact(q)' BY <1>0, <1>3, <1>5, <2>3, <3>1, <3>3, SwapKept
    <3> QED BY <3>2, <3>4
  <2> QED BY <2>2, <2>3
<1> QED BY <1>6, <1>7, <1>8 DEF Accounts

\* A request is aborted, in the decode loop or after a batch that ran out of memory.
LEMMA AbortExact ==
  ASSUME Exact, Idle, pc \notin {"idle", "swapIns", "prefill"},
         pc' \notin {"idle", "swapIns", "prefill"},
         NEW r \in Requests, Live(r), blockTable[r] # << >>,
         NEW s \in {"finished", "aborted"},
         status' = [status EXCEPT ![r] = s],
         call' = [op |-> "deallocate", seq |-> r],
         UNCHANGED <<blockTable, poolVars, cpuFree, cpuTable>>,
         \A q \in Requests : q # r =>
           /\ tokenIds'[q] = tokenIds[q]
           /\ numCached'[q] = numCached[q] /\ numScheduled'[q] = numScheduled[q]
           /\ Contains(prefillBatch', q) <=> Contains(prefillBatch, q)
           /\ Contains(decodeBatch', q) <=> Contains(decodeBatch, q)
  PROVE  Accounts'
<1>0. /\ QueueInv /\ Accounts /\ \A q : ~Calling(q)
      /\ UNCHANGED <<freeList, used, refCount>>
      /\ status \in [Requests -> {"new", "rejected", "waiting", "running", "finished", "aborted"}]
  BY ExactTypes DEF poolVars, Exact
<1>1. \A q \in Requests : TableExact(q) /\ SwapExact(q) BY <1>0 DEF Accounts
<1>2. Pools' BY <1>0 DEF Accounts, Pools
<1>3. status'[r] = s BY <1>0
<1>4. CallExact' BY <1>3 DEF CallExact
<1>5. ASSUME NEW q \in Requests PROVE TableExact(q)' /\ SwapExact(q)'
  <2>1. Calling(q)' <=> q = r BY DEF Calling
  <2>2. cpuTable[q] # << >> => blockTable[q] = << >>
    BY <1>0, <1>1 DEF SwapExact, Idle, NoCall
  <2>3. CASE q = r
    <3>1. TableExact(r)' BY <1>3, <2>1, <2>3 DEF TableExact, Live
    <3>2. SwapExact(r)' BY <2>2, <2>3 DEF SwapExact
    <3> QED BY <2>3, <3>1, <3>2
  <2>4. CASE q # r
    <3>1. status'[q] = status[q] BY <1>0, <2>4
    <3>2. TableExact(q)' BY <1>0, <1>1, <2>1, <2>4, <3>1, TableKept
    <3>3. SwapExact(q)' BY <1>1, <2>2, <2>4, <3>1, SwapKept
    <3> QED BY <3>2, <3>3
  <2> QED BY <2>3, <2>4
<1> QED BY <1>2, <1>4, <1>5 DEF Accounts

\* A computed request goes on: it leaves its batch with its positions committed.
LEMMA GoesOnExact ==
  ASSUME Exact, Idle, pc \in {"postPrefill", "postDecode"}, pc' = pc,
         NEW r \in Requests, InBatch(r), Live(r),
         ~Contains(prefillBatch', r), ~Contains(decodeBatch', r),
         \A q \in Requests : q # r =>
           /\ numCached'[q] = numCached[q] /\ numScheduled'[q] = numScheduled[q]
           /\ Contains(prefillBatch', q) <=> Contains(prefillBatch, q)
           /\ Contains(decodeBatch', q) <=> Contains(decodeBatch, q),
         UNCHANGED <<status, call, blockTable, poolVars, cpuFree, cpuTable>>,
         \/ Contains(prefillBatch, r) /\ HasTokensLeft(r) /\ UNCHANGED tokenIds
         \/ /\ status[r] = "running"
            /\ \E token \in Token : AppendToken(r, token)
  PROVE  Accounts'
<1>0. /\ QueueInv /\ Accounts /\ \A q : ~Calling(q)
      /\ UNCHANGED <<freeList, used, refCount>>
      /\ NumTokens(r) \in Nat \ {0}
      /\ prefillBatch \in Seq(Requests) /\ decodeBatch \in Seq(Requests)
  BY ExactTypes DEF poolVars, Exact, QueueInv, QueueTypes
<1>1. \A q \in Requests : TableExact(q) /\ SwapExact(q) BY <1>0 DEF Accounts
<1>2. Pools' BY <1>0 DEF Accounts, Pools
<1>3. CallExact' BY DEF CallExact, Idle, NoCall
<1>4. \A q : ~Calling(q)' BY <1>0 DEF Calling
<1>5. ~InBatch(r)' BY DEF InBatch
<1>6. Len(blockTable[r]) = BlocksFor(NumTokens(r))
  BY <1>0, <1>1 DEF TableExact, Covered
<1>7. blockTable[r] # << >> /\ cpuTable[r] = << >>
  <2>1. Len(blockTable[r]) > 0 BY <1>0, <1>6, BlocksForSome
  <2> QED BY <1>0, <1>1, <2>1 DEF SwapExact, Idle, NoCall
<1>8. Covered(r)' = NumTokens(r)
  <2>1. CASE Contains(prefillBatch, r) /\ HasTokensLeft(r) /\ UNCHANGED tokenIds
    <3>1. status[r] # "running"
      <4>1. status[r] = "running" => numCached[r] + numScheduled[r] = NumTokens(r)
        BY <1>1, <2>1 DEF TableExact
      <4>2. NumTokens(r) \in Nat /\ numCached[r] + numScheduled[r] # NumTokens(r)
        BY <1>0, <2>1 DEF HasTokensLeft
      <4> QED BY <4>1, <4>2
    <3> QED BY <2>1, <3>1 DEF Covered, NumTokens
  <2>2. CASE status[r] = "running" /\ \E token \in Token : AppendToken(r, token)
    <3>1. NumTokens(r)' = NumTokens(r) + 1 BY <1>0, <2>2, TokenAppended
    <3>2. Covered(r)' = NumTokens(r)' - 1 BY <1>5, <2>2 DEF Covered
    <3> QED BY <1>0, <3>1, <3>2
  <2> QED BY <2>1, <2>2
<1>9. \A q \in Requests : q # r => tokenIds'[q] = tokenIds[q]
  BY <1>0, TokenAppended
<1>10. ASSUME NEW q \in Requests PROVE TableExact(q)' /\ SwapExact(q)'
  <2>1. cpuTable[q] # << >> => blockTable[q] = << >>
    BY <1>0, <1>1 DEF SwapExact, Idle, NoCall
  <2>2. CASE q = r
    <3>1. TableExact(r)' BY <1>0, <1>4, <1>6, <1>8 DEF TableExact, Live
    <3>2. SwapExact(r)' BY <1>7 DEF SwapExact
    <3> QED BY <2>2, <3>1, <3>2
  <2>3. CASE q # r
    <3>1. TableExact(q)' BY <1>0, <1>1, <1>4, <1>9, <2>3, TableKept
    <3>2. SwapExact(q)' BY <1>1, <1>9, <2>1, <2>3, SwapKept
    <3> QED BY <3>1, <3>2
  <2> QED BY <2>2, <2>3
<1> QED BY <1>2, <1>3, <1>10 DEF Accounts

\* What a batch has computed is postprocessed, or aborted when it ran out of memory.
LEMMA BatchStepExact ==
  ASSUME Exact, BatchStep
  PROVE  Accounts'
<1>0. /\ QueueInv /\ Accounts
      /\ status \in [Requests -> {"new", "rejected", "waiting", "running", "finished", "aborted"}]
      /\ numCached \in [Requests -> Nat] /\ numScheduled \in [Requests -> Nat]
      /\ tokenIds \in [Requests -> Seq(Token)]
  BY ExactTypes DEF Exact
<1>1. ASSUME NEW prefill \in BOOLEAN, Idle, NEW batch,
             batch = IF prefill THEN prefillBatch ELSE decodeBatch,
             PostprocessNext(prefill, batch) \/ AbortNext(prefill, batch),
             prefill => pc \in {"postPrefill", "oomPrefill"},
             ~prefill => pc \in {"postDecode", "oomDecode"}
      PROVE  \E r \in Requests :
               /\ r = Head(batch) /\ InBatch(r) /\ Live(r) /\ blockTable[r] # << >>
               /\ prefill => Contains(prefillBatch, r)
               /\ status[r] = "waiting" =>
                    prefill /\ numCached[r] + numScheduled[r] < NumTokens(r)
               /\ ~Contains(prefillBatch', r) /\ ~Contains(decodeBatch', r)
               /\ \A q \in Requests : q # r =>
                    /\ Contains(prefillBatch', q) <=> Contains(prefillBatch, q)
                    /\ Contains(decodeBatch', q) <=> Contains(decodeBatch, q)
  <2>1. TakeFromBatch(prefill) /\ pc' = pc /\ stepMode' = stepMode /\ batch # << >>
    BY <1>1 DEF PostprocessNext, AbortNext
  <2>2. PICK r : r = Head(batch) OBVIOUS
  <2>3. /\ r \in Requests /\ InBatch(r) /\ Live(r)
        /\ status[r] = "waiting" =>
             prefill /\ numCached[r] + numScheduled[r] < NumTokens(r)
        /\ \A q \in Requests : Contains(prefillBatch', q) <=> Contains(prefillBatch, q) /\ q # r
        /\ \A q \in Requests : Contains(decodeBatch', q) <=> Contains(decodeBatch, q) /\ q # r
    BY <1>0, <1>1, <2>1, <2>2, TakenFromBatch
  <2>4. blockTable[r] # << >>
    <3>1. TableExact(r) /\ ~Calling(r) /\ NumTokens(r) \in Nat \ {0}
      BY <1>0, <1>1, <2>3, ExactTypes DEF Accounts
    <3>2. Len(blockTable[r]) = BlocksFor(NumTokens(r)) BY <2>3, <3>1 DEF TableExact, Covered
    <3>3. Len(blockTable[r]) > 0 BY <3>1, <3>2, BlocksForSome
    <3> QED BY <3>3
  <2>5. prefill => Contains(prefillBatch, r)
    BY <1>0, <1>1, <2>1, <2>2, InQueue DEF QueueInv, QueueTypes
  <2> QED BY <2>2, <2>3, <2>4, <2>5
<1>2. ASSUME NEW prefill \in BOOLEAN, Idle, NEW batch,
             batch = IF prefill THEN prefillBatch ELSE decodeBatch,
             PostprocessNext(prefill, batch),
             prefill => pc = "postPrefill", ~prefill => pc = "postDecode"
      PROVE  Accounts'
  <2>1. PICK r \in Requests :
          /\ r = Head(batch) /\ InBatch(r) /\ Live(r) /\ blockTable[r] # << >>
          /\ prefill => Contains(prefillBatch, r)
          /\ status[r] = "waiting" =>
               prefill /\ numCached[r] + numScheduled[r] < NumTokens(r)
          /\ ~Contains(prefillBatch', r) /\ ~Contains(decodeBatch', r)
          /\ \A q \in Requests : q # r =>
               /\ Contains(prefillBatch', q) <=> Contains(prefillBatch, q)
               /\ Contains(decodeBatch', q) <=> Contains(decodeBatch, q)
    BY <1>1, <1>2
  <2>2. /\ Commit(r) /\ pc' = pc /\ UNCHANGED <<blockTable, poolVars, cpuFree, cpuTable>>
        /\ \/ prefill /\ HasTokensLeft(r) /\ UNCHANGED <<tokenIds, status, call>>
           \/ /\ prefill => ~HasTokensLeft(r)
              /\ \E token \in Token : AppendToken(r, token)
              /\ \/ UNCHANGED <<status, call>>
                 \/ /\ status' = [status EXCEPT ![r] = "finished"]
                    /\ call' = [op |-> "deallocate", seq |-> r]
    BY <1>2, <2>1 DEF PostprocessNext, PostprocessChunk, PostprocessToken, PostprocessLast,
       Deallocate, swapVars
  <2>3. \A q \in Requests : q # r =>
          numCached'[q] = numCached[q] /\ numScheduled'[q] = numScheduled[q]
    BY <1>0, <2>2, CommitEffect
  <2>4. CASE prefill /\ HasTokensLeft(r) /\ UNCHANGED <<tokenIds, status, call>>
    BY <1>2, <2>1, <2>2, <2>3, <2>4, GoesOnExact
  <2>5. ASSUME prefill => ~HasTokensLeft(r), NEW token \in Token, AppendToken(r, token),
               \/ UNCHANGED <<status, call>>
               \/ /\ status' = [status EXCEPT ![r] = "finished"]
                  /\ call' = [op |-> "deallocate", seq |-> r]
        PROVE  Accounts'
    <3>1. status[r] = "running" BY <2>1, <2>5 DEF Live, HasTokensLeft
    <3>2. CASE UNCHANGED <<status, call>>
      BY <1>2, <2>1, <2>2, <2>3, <2>5, <3>1, <3>2, GoesOnExact
    <3>3. CASE /\ status' = [status EXCEPT ![r] = "finished"]
               /\ call' = [op |-> "deallocate", seq |-> r]
      <4>1. \A q \in Requests : q # r => tokenIds'[q] = tokenIds[q]
        BY <1>0, <2>5, TokenAppended
      <4>2. pc \notin {"idle", "swapIns", "prefill"} BY <1>2
      <4> QED BY <1>2, <2>1, <2>2, <2>3, <3>3, <4>1, <4>2, AbortExact
    <3> QED BY <2>5, <3>2, <3>3
  <2> QED BY <2>2, <2>4, <2>5
<1>3. ASSUME NEW prefill \in BOOLEAN, Idle, NEW batch,
             batch = IF prefill THEN prefillBatch ELSE decodeBatch,
             AbortNext(prefill, batch),
             prefill => pc = "oomPrefill", ~prefill => pc = "oomDecode"
      PROVE  Accounts'
  <2>1. PICK r \in Requests :
          /\ r = Head(batch) /\ InBatch(r) /\ Live(r) /\ blockTable[r] # << >>
          /\ \A q \in Requests : q # r =>
               /\ Contains(prefillBatch', q) <=> Contains(prefillBatch, q)
               /\ Contains(decodeBatch', q) <=> Contains(decodeBatch, q)
    BY <1>1, <1>3
  <2>2. /\ pc' = pc
        /\ UNCHANGED <<blockTable, poolVars, cpuFree, cpuTable, tokenIds, numCached, numScheduled>>
        /\ status' = [status EXCEPT ![r] = "aborted"]
        /\ call' = [op |-> "deallocate", seq |-> r]
    BY <1>3, <2>1 DEF AbortNext, Abort, Deallocate, swapVars
  <2>3. pc \notin {"idle", "swapIns", "prefill"} BY <1>3
  <2> QED BY <1>3, <2>1, <2>2, <2>3, AbortExact
<1>4. CASE At("postPrefill") /\ PostprocessNext(TRUE, prefillBatch) BY <1>2, <1>4 DEF At
<1>5. CASE At("postDecode") /\ PostprocessNext(FALSE, decodeBatch) BY <1>2, <1>5 DEF At
<1>6. CASE At("oomPrefill") /\ AbortNext(TRUE, prefillBatch) BY <1>3, <1>6 DEF At
<1>7. CASE At("oomDecode") /\ AbortNext(FALSE, decodeBatch) BY <1>3, <1>7 DEF At
<1> QED BY <1>4, <1>5, <1>6, <1>7 DEF BatchStep

\* add() puts a request without blocks into the queue, or rejects it.
LEMMA AddRequestExact ==
  ASSUME Exact, NEW r \in Requests, AddRequest(r)
  PROVE  Accounts'
<1>0. /\ QueueInv /\ Accounts /\ Idle /\ \A q : ~Calling(q)
      /\ pc = "idle" /\ pc' = pc
      /\ UNCHANGED <<tokenIds, blockTable, numCached, numScheduled, freeList, used, refCount, call,
                     cpuFree, cpuTable, prefillBatch, decodeBatch>>
      /\ status \in [Requests -> {"new", "rejected", "waiting", "running", "finished", "aborted"}]
  BY ExactTypes DEF AddRequest, Add, At, bmVars, poolVars, swapVars, batchVars, Exact
<1>1. /\ status[r] = "new"
      /\ \E s \in {"waiting", "rejected"} : status' = [status EXCEPT ![r] = s]
  BY DEF AddRequest, Add
<1>2. \A q \in Requests : TableExact(q) /\ SwapExact(q) BY <1>0 DEF Accounts
<1>3. blockTable[r] = << >> /\ cpuTable[r] = << >> /\ ~InBatch(r)
  <2>1. blockTable[r] = << >> BY <1>1 DEF Exact, BatchInv, EmptyTables
  <2>2. ~InBatch(r) BY <1>0, <1>1 DEF QueueInv, QueueOfStatus, InBatch, Live
  <2> QED BY <1>1, <1>2, <2>1, <2>2 DEF SwapExact
<1>4. ASSUME NEW q \in Requests PROVE TableExact(q)' /\ SwapExact(q)'
  <2>1. ~Calling(q)' BY <1>0 DEF Calling
  <2>2. CASE q = r
    <3>1. status'[r] # "running" /\ ~InBatch(r)' BY <1>0, <1>1, <1>3 DEF InBatch
    <3>2. TableExact(r)' BY <1>0, <1>3, <2>1, <3>1 DEF TableExact
    <3>3. SwapExact(r)' BY <1>0, <1>3 DEF SwapExact
    <3> QED BY <2>2, <3>2, <3>3
  <2>3. CASE q # r
    <3>1. status'[q] = status[q] BY <1>0, <1>1, <2>3
    <3>2. TableExact(q)' BY <1>0, <1>2, <2>1, <3>1, TableKept
    <3>3. cpuTable[q] # << >> => blockTable[q] = << >>
      BY <1>0, <1>2 DEF SwapExact, Idle, NoCall
    <3>4. SwapExact(q)' BY <1>0, <1>2, <3>1, <3>3, SwapKept
    <3> QED BY <3>2, <3>4
  <2> QED BY <2>2, <2>3
<1>5. Pools' BY <1>0 DEF Accounts, Pools
<1>6. CallExact' BY <1>0 DEF CallExact, Idle, NoCall
<1> QED BY <1>4, <1>5, <1>6 DEF Accounts

\* The steps of the decode loop that take blocks away.
LEMMA DecodeVictimExact ==
  ASSUME Exact, \/ DecodePreemptLast \/ DecodePreemptSelf(AfterDecode)
                \/ DecodeAbort(AfterDecode)
  PROVE  Accounts'
<1>0. /\ QueueInv /\ Accounts /\ Idle /\ pc = "decode" /\ stepMode = "separate"
      /\ running \in Seq(Requests) /\ IsInjective(running)
      /\ AfterDecode = "drain"
  BY ExactTypes DEF DecodePreemptLast, DecodePreemptSelf, DecodeAbort, NeedsVictim, At, Exact,
     AfterDecode, QueueInv, NoDuplicates
<1>1. CASE DecodePreemptLast
  <2>0. PICK r : r = Last(running) OBVIOUS
  <2>1. running # << >> BY <1>0, <1>1 DEF DecodePreemptLast
  <2>2. r \in Requests /\ Contains(running, r) BY <1>0, <2>0, <2>1, PoppedLast
  <2>3. Preempt(r) /\ pc' = pc
        /\ UNCHANGED <<tokenIds, blockTable, numCached, numScheduled, poolVars, batchVars>>
    BY <1>1, <2>0 DEF DecodePreemptLast
  <2> QED BY <1>0, <2>2, <2>3, PreemptExact
<1>2. CASE DecodePreemptSelf(AfterDecode)
  <2>0. PICK r : r = running[1] OBVIOUS
  <2>1. r \in Requests /\ Contains(running, r)
    BY <1>0, <1>2, <2>0, OnlyOneRuns DEF DecodePreemptSelf
  <2>2. Preempt(r) /\ pc' = "drain"
        /\ UNCHANGED <<tokenIds, blockTable, numCached, numScheduled, poolVars, batchVars>>
    BY <1>0, <1>2, <2>0 DEF DecodePreemptSelf
  <2> QED BY <1>0, <2>1, <2>2, PreemptExact
<1>3. CASE DecodeAbort(AfterDecode)
  <2>0. PICK r : r = running[1] OBVIOUS
  <2>1. r \in Requests /\ Contains(running, r)
    BY <1>0, <1>3, <2>0, OnlyOneRuns DEF DecodeAbort
  <2>2. Abort(r) /\ pc' = "drain"
        /\ UNCHANGED <<tokenIds, blockTable, numCached, numScheduled, poolVars, prefillBatch,
                       decodeBatch, cpuFree, cpuTable>>
    BY <1>0, <1>3, <2>0 DEF DecodeAbort, swapVars, batchVars
  <2>3. status[r] = "running" /\ ~InBatch(r)
    <3>1. prefillBatch = << >> BY <1>0 DEF QueueInv, BatchesInPhase
    <3>2. ~Contains(prefillBatch, r) BY <3>1, EmptyQueue
    <3> QED BY <1>0, <2>1, <3>2 DEF InBatch, QueueInv, QueueOfStatus, Runs
  <2>4. blockTable[r] # << >>
    <3>1. TableExact(r) /\ ~Calling(r) /\ NumTokens(r) \in Nat
      BY <1>0, <2>1, ExactTypes DEF Accounts
    <3>2. PICK n \in Nat : n = NumTokens(r) - 1 /\ n > 0
      BY <2>3, <3>1 DEF TableExact, Covered
    <3>3. Len(blockTable[r]) = BlocksFor(n)
      BY <2>3, <3>1, <3>2 DEF TableExact, Covered
    <3>4. Len(blockTable[r]) > 0 BY <3>2, <3>3, BlocksForSome
    <3> QED BY <3>4
  <2>5. status' = [status EXCEPT ![r] = "aborted"] /\ call' = [op |-> "deallocate", seq |-> r]
    BY <2>2, <2>4 DEF Abort, Deallocate
  <2> QED BY <1>0, <2>1, <2>2, <2>3, <2>4, <2>5, AbortExact DEF Live
<1> QED BY <1>1, <1>2, <1>3

\* Every step keeps the accounts.
LEMMA AccountsStep ==
  ASSUME Exact, [Next]_vars
  PROVE  Accounts'
<1>0. stepMode' = stepMode /\ stepMode = "separate" BY SameStepMode DEF Exact
<1>1. CASE ScheduleStep
  <2>1. CASE PrefillDone(AfterPrefill)
    <3>1. prefillBatch' = prefillBatch /\ decodeBatch' = decodeBatch
      BY <1>0, <2>1 DEF PrefillDone, Scheduled
    <3>2. pc' # "prefill" /\ Idle BY <2>1 DEF PrefillDone, AfterPrefill, At
    <3> QED BY <2>1, <3>1, <3>2, AccountsKept DEF PrefillDone, bmVars, swapVars
  <2>2. CASE DecodeDone(AfterDecode)
    <3>1. pc' # "prefill" /\ Idle BY <1>0, <2>2 DEF DecodeDone, AfterDecode, At
    <3> QED BY <2>2, <3>1, AccountsKept DEF DecodeDone, bmVars, swapVars, batchVars
  <2> QED
    BY <1>0, <1>1, <2>1, <2>2, SwapInExact, SwapInDoneExact, PrefillAllocateExact,
       PrefillScheduleExact, DecodeAdmitExact, DecodeVictimExact
    DEF ScheduleStep
<1>2. CASE StartStep
  BY <1>2, AccountsKept DEF StartStep, At, bmVars, requestVars, swapVars, batchVars
<1>3. CASE CopyOut \/ CopyIn \/ DrainAborts
  BY <1>3, AccountsKept
  DEF CopyOut, CopyIn, DrainAborts, At, bmVars, requestVars, swapVars, batchVars
<1>4. CASE RunPrefill \/ RunDecode
  <2>1. Idle /\ pc' # "prefill" BY <1>4 DEF RunPrefill, RunDecode, Run, At
  <2> QED BY <1>4, <2>1, AccountsKept
    DEF RunPrefill, RunDecode, Run, bmVars, requestVars, swapVars, batchVars
<1>5. CASE EndBatch
  BY <1>5, AccountsKept DEF EndBatch, bmVars, requestVars, swapVars, batchVars
<1>6. CASE UNCHANGED vars
  BY <1>6, AccountsKept DEF vars, bmVars, requestVars, swapVars, batchVars
<1> QED
  BY <1>1, <1>2, <1>3, <1>4, <1>5, <1>6, BatchStepExact, BlockManagerExact, AddRequestExact
  DEF Next, EngineStep

----------------------------------------------------------------------------
(***************************************************************************)
(* The pool is complete, so that what waits can be admitted.               *)
(***************************************************************************)

\* Who waits fits into an empty pool: preempt keeps what add has tested.
Fits == \A r \in Requests : status[r] = "waiting" => NumBlocks(r) <= NumKvBlocks

\* A separate step begins with something to do, and decodes only if there is
\* something to decode.
SomethingToDo ==
  /\ pc \in {"swapIns", "prefill"} => waiting # << >> \/ running # << >>
  /\ pc = "decode" => running # << >> \/ decodeBatch # << >>
  /\ pc # "crashed"

Progress == Exact /\ Fits /\ SomethingToDo

\* How many blocks there are.
LEMMA BlocksCounted ==
  /\ IsFiniteSet(Blocks) /\ Cardinality(Blocks) = NumKvBlocks
  /\ IsFiniteSet(CpuBlocks) /\ Cardinality(CpuBlocks) = NumCpuBlocks
<1>1. IsFiniteSet(Blocks) /\ Cardinality(Blocks) = NumKvBlocks
  BY PoolAssumption, FS_Interval DEF Blocks, PoolAssumption
<1>2. IsFiniteSet(CpuBlocks) /\ Cardinality(CpuBlocks) = NumCpuBlocks
  BY CpuPoolAssumption, FS_Interval DEF CpuBlocks, CpuPoolAssumption
<1> QED BY <1>1, <1>2

\* What a list without duplicates contains.
LEMMA ListCounted ==
  ASSUME NEW S, NEW s \in Seq(S), IsInjective(s)
  PROVE  LET T == {e \in S : Contains(s, e)} IN IsFiniteSet(T) /\ Cardinality(T) = Len(s)
<1> DEFINE T == {e \in S : Contains(s, e)}
           U == {s[i] : i \in 1 .. Len(s)}
<1>1. \A i, j \in 1 .. Len(s) : s[i] = s[j] => i = j BY DEF IsInjective
<1>2. IsFiniteSet(U) /\ Cardinality(U) = Len(s) BY <1>1, CountedList
<1>3. T = U BY DEF Contains
<1> QED BY <1>2, <1>3

\* Every block is free or in use.
LEMMA PoolExact == Pools => PoolCapacity = NumKvBlocks
<1> SUFFICES ASSUME Pools PROVE PoolCapacity = NumKvBlocks
  OBVIOUS
<1> DEFINE F == {b \in Blocks : Contains(freeList, b)}
<1>1. freeList \in Seq(Blocks) /\ IsInjective(freeList) BY DEF Pools, Exclusive
<1>2. IsFiniteSet(F) /\ Cardinality(F) = Len(freeList) BY <1>1, ListCounted
<1>3. used = Blocks \ F BY DEF Pools
<1>4. Blocks \cap F = F OBVIOUS
<1> HIDE DEF F
<1>5. Cardinality(used) = NumKvBlocks - Len(freeList)
  <2>1. Cardinality(Blocks \ F) = Cardinality(Blocks) - Cardinality(Blocks \cap F)
    BY BlocksCounted, FS_Difference
  <2> QED BY <1>2, <1>3, <1>4, <2>1, BlocksCounted
<1>6. Len(freeList) \in Nat BY <1>1
<1> QED BY <1>5, <1>6, PoolAssumption DEF PoolCapacity, FreeCount, PoolAssumption

\* When no request holds blocks the whole pool is free.
LEMMA PoolAllFree ==
  ASSUME NEW S, NEW free, NEW table, Exclusive(free, table, S),
         \A r \in Requests : table[r] = << >>
  PROVE  Len(free) = Cardinality(S)
<1>1. free \in Seq(S) /\ IsInjective(free) BY DEF Exclusive
<1>2. \A b \in S : Contains(free, b) BY EmptyQueue DEF Exclusive
<1>3. {b \in S : Contains(free, b)} = S BY <1>2
<1> QED BY <1>1, <1>3, ListCounted

\* A request holds less than the whole pool when another one holds a block too.
LEMMA OthersLeaveRoom ==
  ASSUME Pools, NEW q \in Requests, NEW r \in Requests, q # r, blockTable[q] # << >>
  PROVE  Len(blockTable[r]) < NumKvBlocks
<1> DEFINE T == {b \in Blocks : Contains(blockTable[r], b)}
           h == Head(blockTable[q])
<1>1. /\ blockTable[r] \in Seq(Blocks) /\ IsInjective(blockTable[r])
      /\ blockTable[q] \in Seq(Blocks)
  BY DEF Pools, Exclusive
<1>2. IsFiniteSet(T) /\ Cardinality(T) = Len(blockTable[r]) BY <1>1, ListCounted
<1>3. h \in Blocks /\ Contains(blockTable[q], h) BY <1>1, InQueue
<1>4. h \notin T BY <1>3 DEF Pools, Exclusive
<1>5. T \cup {h} \subseteq Blocks BY <1>3
<1> HIDE DEF T, h
<1>6. Cardinality(T \cup {h}) = Cardinality(T) + 1 BY <1>2, <1>4, FS_AddElement
<1>7. Cardinality(T \cup {h}) <= NumKvBlocks BY <1>5, BlocksCounted, FS_Subset
<1>8. Len(blockTable[r]) \in Nat BY <1>1
<1> QED BY <1>2, <1>6, <1>7, <1>8, PoolAssumption DEF PoolAssumption

\* A running request that is in no batch holds blocks, all that its tokens need or
\* one less.
LEMMA RunningTable ==
  ASSUME Exact, Idle, NEW r \in Requests, status[r] = "running", ~InBatch(r)
  PROVE  blockTable[r] # << >> /\ NumBlocks(r) <= Len(blockTable[r]) + 1
         /\ NumBlocks(r) \in Nat /\ Len(blockTable[r]) \in Nat
<1>1. PICK n \in Nat : n = NumTokens(r) /\ n > 0 BY ExactTypes
<1>2. TableExact(r) /\ ~Calling(r) /\ Len(blockTable[r]) \in Nat
  BY ExactTypes DEF Exact, Accounts
<1>3. n - 1 \in Nat /\ n - 1 > 0 /\ Len(blockTable[r]) = BlocksFor(n - 1)
  BY <1>1, <1>2 DEF TableExact, Covered
<1>4. BlocksFor(n - 1) > 0 BY <1>3, BlocksForSome
<1>5. BlocksFor(n) <= BlocksFor(n - 1) + 1 /\ BlocksFor(n) \in Nat
  <2>1. BlocksFor(n) \in Nat /\ BlocksFor(n - 1) \in Nat BY <1>3, BlocksForSome
  <2>2. BlocksFor(n) = BlocksFor(n - 1) + 1 \/ BlocksFor(n) = BlocksFor(n - 1)
    BY <1>1, BlocksForSome
  <2> HIDE DEF BlocksFor
  <2> QED BY <2>1, <2>2
<1>6. blockTable[r] # << >> BY <1>3, <1>4
<1> QED BY <1>1, <1>2, <1>3, <1>5, <1>6 DEF NumBlocks

\* A preempted request fits into an empty pool: somebody else holds a block, or it
\* has been seen not to fill the pool.
LEMMA PreemptedFits ==
  ASSUME Exact, Idle, pc = "decode", NEW r \in Requests, Contains(running, r),
         Len(blockTable[r]) < PoolCapacity \/ \E q \in Requests : q # r /\ Contains(running, q)
  PROVE  NumBlocks(r) <= NumKvBlocks
<1>0. QueueInv /\ Pools BY DEF Exact, Accounts, BatchInv
<1>1. ASSUME NEW q \in Requests, Contains(running, q)
      PROVE  status[q] = "running" /\ ~InBatch(q)
  <2>1. prefillBatch = << >> BY <1>0 DEF QueueInv, BatchesInPhase
  <2>2. ~Contains(prefillBatch, q) BY <2>1, EmptyQueue
  <2> QED BY <1>0, <1>1, <2>2 DEF InBatch, QueueInv, QueueOfStatus, Runs
<1>2. NumBlocks(r) <= Len(blockTable[r]) + 1 /\ NumBlocks(r) \in Nat /\ Len(blockTable[r]) \in Nat
  BY <1>1, RunningTable
<1>3. Len(blockTable[r]) < NumKvBlocks
  <2>1. ASSUME NEW q \in Requests, q # r, Contains(running, q)
        PROVE  Len(blockTable[r]) < NumKvBlocks
    BY <2>1, <1>0, <1>1, RunningTable, OthersLeaveRoom
  <2> QED BY <1>0, <2>1, PoolExact
<1> QED BY <1>2, <1>3, PoolAssumption DEF PoolAssumption

\* add rejects what does not fit, preempt puts back what does.
LEMMA FitsStep ==
  ASSUME Exact, Fits, [Next]_vars
  PROVE  Fits'
<1>0. /\ QueueInv /\ Pools /\ tokenIds \in [Requests -> Seq(Token)]
      /\ status \in [Requests -> {"new", "rejected", "waiting", "running", "finished", "aborted"}]
      /\ running \in Seq(Requests) /\ IsInjective(running)
  BY ExactTypes DEF Exact, Accounts, QueueInv, NoDuplicates
<1>1. CASE UNCHANGED <<status, tokenIds>>
  BY <1>1 DEF Fits, NumBlocks, NumTokens
<1>2. ASSUME UNCHANGED tokenIds, NEW r, NEW s, status' = [status EXCEPT ![r] = s],
             s # "waiting" \/ NumBlocks(r) <= NumKvBlocks
      PROVE  Fits'
  <2>1. \A q \in Requests :
          status'[q] = "waiting" => status[q] = "waiting" \/ (q = r /\ s = "waiting")
    BY <1>0, <1>2
  <2>2. \A q \in Requests : NumBlocks(q)' = NumBlocks(q) BY <1>2 DEF NumBlocks, NumTokens
  <2> QED BY <1>2, <2>1, <2>2 DEF Fits
<1>3. CASE \E r \in Requests : AddRequest(r)
  <2>1. PICK r \in Requests : AddRequest(r) BY <1>3
  <2>2. CASE TooLarge(r) BY <1>2, <2>1, <2>2 DEF AddRequest, Add
  <2>3. CASE ~TooLarge(r)
    <3>1. NumBlocks(r) <= NumKvBlocks
      <4>1. ~(NumBlocks(r) > NumKvBlocks) BY <1>0, <2>3, PoolExact DEF TooLarge
      <4>2. NumBlocks(r) \in Nat BY BlocksForSome, ExactTypes DEF NumBlocks
      <4> QED BY <4>1, <4>2, PoolAssumption DEF PoolAssumption
    <3> QED BY <1>2, <2>1, <2>3, <3>1 DEF AddRequest, Add
  <2> QED BY <2>2, <2>3
<1>4. CASE ScheduleStep
  <2>1. CASE SwapInNext
    <3>1. PICK k \in 1 .. Len(waiting) : SwapIn(waiting[k]) BY <2>1 DEF SwapInNext
    <3>2. status' = [status EXCEPT ![waiting[k]] = "running"] BY <3>1 DEF SwapIn
    <3>3. tokenIds' = tokenIds BY <2>1 DEF SwapInNext
    <3>4. PICK r : r = waiting[k] OBVIOUS
    <3> QED BY <1>2, <3>2, <3>3, <3>4
  <2>2. CASE PrefillSchedule
    <3>1. PICK r \in Requests : status' = [status EXCEPT ![r] = "running"] \/ UNCHANGED status
      BY <1>0, <2>2, PrefillScheduleEffect
    <3>2. tokenIds' = tokenIds BY <2>2 DEF PrefillSchedule
    <3> QED BY <1>1, <1>2, <3>1, <3>2
  <2>3. CASE DecodePreemptLast
    <3>0. PICK r : r = Last(running) OBVIOUS
    <3>1. /\ pc = "decode" /\ Idle /\ Len(running) > 1
          /\ status' = [status EXCEPT ![r] = "waiting"] /\ tokenIds' = tokenIds
      BY <2>3, <3>0 DEF DecodePreemptLast, NeedsVictim, At, Preempt
    <3>2. running # << >> BY <3>1
    <3>3. r \in Requests /\ Contains(running, r)
      BY <1>0, <3>0, <3>2, PoppedLast
    <3>4. Head(running) \in Requests /\ Contains(running, Head(running)) /\ Head(running) # r
      <4>1. r = running[Len(running)] /\ Head(running) = running[1]
            /\ 1 \in 1 .. Len(running) /\ Len(running) \in 1 .. Len(running)
        BY <1>0, <3>0, <3>1 DEF Last
      <4>2. running[1] # running[Len(running)] BY <1>0, <3>1, <4>1 DEF IsInjective
      <4> QED BY <1>0, <3>2, <4>1, <4>2, InQueue
    <3>5. NumBlocks(r) <= NumKvBlocks BY <3>1, <3>3, <3>4, PreemptedFits
    <3> QED BY <1>2, <3>1, <3>5
  <2>4. CASE DecodePreemptSelf(AfterDecode)
    <3>0. PICK r : r = running[1] OBVIOUS
    <3>1. /\ pc = "decode" /\ Idle /\ Len(running) = 1 /\ ~FillsPool(r)
          /\ status' = [status EXCEPT ![r] = "waiting"] /\ tokenIds' = tokenIds
      BY <2>4, <3>0 DEF DecodePreemptSelf, NeedsVictim, At, Preempt
    <3>2. r \in Requests /\ Contains(running, r) BY <1>0, <3>0, <3>1, OnlyOneRuns
    <3>3. Len(blockTable[r]) < PoolCapacity
      <4>1. Len(blockTable[r]) \in Nat /\ PoolCapacity = NumKvBlocks
        BY <1>0, <3>2, ExactTypes, PoolExact
      <4> QED BY <3>1, <4>1, PoolAssumption DEF FillsPool, PoolAssumption
    <3>4. NumBlocks(r) <= NumKvBlocks BY <3>1, <3>2, <3>3, PreemptedFits
    <3> QED BY <1>2, <3>1, <3>4
  <2>5. CASE DecodeAbort(AfterDecode)
    BY <1>2, <2>5 DEF DecodeAbort, Abort
  <2>6. CASE \/ SwapInDone(AfterSwapIns) \/ PrefillAllocate \/ DecodeAdmit
             \/ PrefillDone(AfterPrefill) \/ DecodeDone(AfterDecode)
    BY <1>1, <2>6 DEF SwapInDone, PrefillAllocate, DecodeAdmit, PrefillDone, DecodeDone
  <2> QED BY <1>4, <2>1, <2>2, <2>3, <2>4, <2>5, <2>6 DEF ScheduleStep
<1>5. CASE BatchStep
  <2>1. ASSUME NEW prefill \in BOOLEAN, NEW batch,
               batch = IF prefill THEN prefillBatch ELSE decodeBatch,
               Idle, PostprocessNext(prefill, batch),
               prefill => pc = "postPrefill", ~prefill => pc = "postDecode"
        PROVE  Fits'
    <3>0. PICK r : r = Head(batch) OBVIOUS
    <3>1. /\ TakeFromBatch(prefill) /\ batch # << >> /\ pc' = pc /\ stepMode' = stepMode
          /\ \/ UNCHANGED <<tokenIds, status>>
             \/ /\ prefill => ~HasTokensLeft(r)
                /\ \E token \in Token : AppendToken(r, token)
                /\ status' = status \/ status' = [status EXCEPT ![r] = "finished"]
      BY <2>1, <3>0 DEF PostprocessNext, PostprocessChunk, PostprocessToken, PostprocessLast
    <3>2. /\ r \in Requests /\ InBatch(r)
          /\ status[r] = "waiting" => prefill /\ numCached[r] + numScheduled[r] < NumTokens(r)
      BY <1>0, <2>1, <3>0, <3>1, TakenFromBatch
    <3>3. CASE UNCHANGED <<tokenIds, status>> BY <1>1, <3>3
    <3>4. CASE /\ prefill => ~HasTokensLeft(r)
               /\ \E token \in Token : AppendToken(r, token)
               /\ status' = status \/ status' = [status EXCEPT ![r] = "finished"]
      <4>1. status[r] # "waiting" BY <3>2, <3>4 DEF HasTokensLeft
      <4>2. \A q \in Requests : status'[q] = "waiting" => status[q] = "waiting" /\ q # r
        BY <1>0, <3>4, <4>1
      <4>3. \A q \in Requests : q # r => tokenIds'[q] = tokenIds[q]
        BY <1>0, <3>4 DEF AppendToken
      <4> QED BY <4>2, <4>3 DEF Fits, NumBlocks, NumTokens
    <3> QED BY <3>1, <3>3, <3>4
  <2>2. CASE At("postPrefill") /\ PostprocessNext(TRUE, prefillBatch) BY <2>1, <2>2 DEF At
  <2>3. CASE At("postDecode") /\ PostprocessNext(FALSE, decodeBatch) BY <2>1, <2>3 DEF At
  <2>4. CASE \/ At("oomPrefill") /\ AbortNext(TRUE, prefillBatch)
             \/ At("oomDecode") /\ AbortNext(FALSE, decodeBatch)
    <3>1. PICK r : status' = [status EXCEPT ![r] = "aborted"] /\ tokenIds' = tokenIds
      BY <2>4 DEF AbortNext, Abort
    <3> QED BY <1>2, <3>1
  <2> QED BY <1>5, <2>2, <2>3, <2>4 DEF BatchStep
<1>6. CASE \/ StartStep \/ BlockManagerStep \/ CopyOut \/ CopyIn \/ DrainAborts
           \/ RunPrefill \/ RunDecode \/ EndBatch \/ UNCHANGED vars
  BY <1>1, <1>6 DEF StartStep, BlockManagerStep, CallStep, CopyOut, CopyIn,
     DrainAborts, RunPrefill, RunDecode, Run, EndBatch, vars, requestVars
<1> QED BY <1>3, <1>4, <1>5, <1>6 DEF Next, EngineStep

\* The prefill loop leaves the step without a batch only when somebody runs: the
\* first who waits gets all the room there is when nobody does.
LEMMA PrefillFindsWork ==
  ASSUME Progress, PrefillDone(AfterPrefill), prefillBatch = << >>
  PROVE  running # << >>
<1> SUFFICES ASSUME running = << >> PROVE FALSE
  OBVIOUS
<1> DEFINE h == waiting[1]
<1>1. /\ pc = "prefill" /\ Idle /\ waiting # << >> /\ waiting \in Seq(Requests)
      /\ QueueInv /\ Exact /\ stepMode = "separate" /\ ~EnablePrefixCaching
  BY ExactTypes DEF PrefillDone, At, Progress, SomethingToDo, Exact
<1>2. h \in Requests /\ 1 \in DOMAIN waiting BY <1>1
<1>3. Candidate(h)
  <2>1. ~Contains(prefillBatch, h) BY EmptyQueue
  <2> QED BY <1>2, <2>1 DEF Candidate
<1>4. status[h] = "waiting" BY <1>1, <1>2, <1>3, CandidateIsWaiting
<1>5. Scheduled = << >> /\ Len(Scheduled) = 0 BY <1>1 DEF Scheduled
<1>6. numBatchTokens = 0
  <2>1. Costs(<< >>, numBatchTokens)
    BY <1>1, <1>5 DEF Exact, BatchInv, Budget
  <2> QED BY <2>1, NothingCosts DEF Costs
<1>7. HasRoom
  BY <1>5, <1>6, SchedulerAssumption DEF HasRoom, Remaining, SchedulerAssumption
<1>8. PrefillBlocked(h) BY <1>2, <1>3, <1>7 DEF PrefillDone
<1>9. \A todo : ~LeftForNextStep(todo) BY <1>5 DEF LeftForNextStep
<1>10. blockTable[h] = << >> /\ \A n \in 0 .. NumBlocks(h) - 1 : ~CanAllocate(h, n)
  BY <1>8, <1>9 DEF PrefillBlocked
<1>11. NumBlocks(h) \in Nat /\ NumBlocks(h) > 0 /\ NumBlocks(h) <= NumKvBlocks
  <2>1. PICK n \in Nat : n = NumTokens(h) /\ n > 0 BY <1>1, <1>2, ExactTypes
  <2>2. NumBlocks(h) \in Nat /\ NumBlocks(h) > 0 BY <2>1, BlocksForSome DEF NumBlocks
  <2> QED BY <1>2, <1>4, <2>2 DEF Progress, Fits
<1>12. ASSUME NEW r \in Requests PROVE blockTable[r] = << >>
  <2>1. status[r] # "running"
    BY <1>1, EmptyQueue DEF QueueInv, QueueOfStatus, Runs
  <2>2. CASE status[r] = "waiting"
    <3>1. ~Has(h) BY <1>1, <1>10 DEF Has, Idle, NoCall
    <3>2. PICK j \in 1 .. Len(waiting) : waiting[j] = r
      BY <1>1, <2>2 DEF QueueInv, QueueOfStatus, Contains
    <3>3. ComeFirst(Holding, waiting)
      BY <1>1 DEF Exact, BatchInv, Holders
    <3>4. r \notin Holding
      <4>1. 1 \in 1 .. j BY <3>2
      <4> QED BY <3>1, <3>2, <3>3, <4>1 DEF ComeFirst, Holding
    <3> QED BY <1>1, <3>4 DEF Holding, Has, Idle, NoCall
  <2>3. CASE ~Live(r)
    BY <1>1, <2>3, ExactTypes DEF Exact, Accounts, TableExact
  <2> QED BY <1>1, <2>1, <2>2, <2>3 DEF Live
<1>13. FreeCount = NumKvBlocks
  BY <1>1, <1>12, PoolAllFree, BlocksCounted DEF Exact, Accounts, Pools, FreeCount
<1>14. CanAllocate(h, 0)
  <2>1. {i \in 1 .. 0 : hashToBlock[Chain(h, i)] \in used} = {} OBVIOUS
  <2>2. NewBlocks(h, 0) = NumBlocks(h) BY <1>11, <2>1, FS_EmptySet DEF NewBlocks
  <2>3. CachedBlocks(h, 0) BY <1>1 DEF CachedBlocks
  <2> HIDE DEF h
  <2> QED BY <1>11, <1>13, <2>2, <2>3 DEF CanAllocate
<1>15. 0 \in 0 .. NumBlocks(h) - 1
  <2> HIDE DEF h
  <2> QED BY <1>11
<1> QED BY <1>10, <1>14, <1>15

\* A step that was started finds something to do in every loop it enters.
LEMMA SomethingToDoStep ==
  ASSUME Progress, [Next]_vars
  PROVE  SomethingToDo'
<1>1. /\ running \in Seq(Requests) /\ decodeBatch \in Seq(Requests) /\ waiting \in Seq(Requests)
      /\ QueueInv /\ stepMode = "separate"
  BY DEF Progress, Exact, BatchInv, QueueInv, QueueTypes
<1>2. CASE UNCHANGED <<pc, running, waiting, decodeBatch>>
  BY <1>2 DEF Progress, SomethingToDo
<1>3. CASE pc' \notin {"swapIns", "prefill", "decode", "crashed"}
  BY <1>3 DEF SomethingToDo
<1>4. CASE \E r \in Requests : AddRequest(r)
  BY <1>3, <1>4 DEF AddRequest, Add, At
<1>5. CASE StartStep
  BY <1>5 DEF StartStep, IsFinished, SomethingToDo
<1>6. CASE ScheduleStep
  <2>1. CASE SwapInNext
    <3>1. PICK k \in 1 .. Len(waiting) : SwapIn(waiting[k]) BY <2>1 DEF SwapInNext
    <3>2. running' = Append(running, waiting[k]) BY <3>1 DEF SwapIn
    <3>3. pc' = "swapIns" BY <2>1 DEF SwapInNext, At
    <3>4. running' # << >>
      <4>1. PICK r \in Requests : r = waiting[k] BY <1>1
      <4> QED BY <1>1, <3>2, <4>1
    <3> QED BY <3>3, <3>4 DEF SomethingToDo
  <2>2. CASE SwapInDone(AfterSwapIns)
    <3>1. pc = "swapIns" /\ pc' = "prefill" /\ UNCHANGED <<running, waiting>>
      BY <1>1, <2>2 DEF SwapInDone, At, AfterSwapIns
    <3> QED BY <3>1 DEF Progress, SomethingToDo
  <2>3. CASE PrefillAllocate
    BY <1>2, <2>3 DEF PrefillAllocate, batchVars
  <2>4. CASE PrefillSchedule
    <3>1. PICK r \in Requests : running' = Append(running, r) \/ UNCHANGED <<running, waiting>>
      BY <1>1, <2>4, PrefillScheduleEffect
    <3>2. pc = "prefill" /\ pc' = "prefill" BY <2>4 DEF PrefillSchedule, At
    <3>3. running' = Append(running, r) => running' # << >> BY <1>1
    <3> QED BY <3>1, <3>2, <3>3 DEF Progress, SomethingToDo
  <2>5. CASE PrefillDone(AfterPrefill)
    <3>1. pc' = AfterPrefill /\ running' = running BY <2>5 DEF PrefillDone
    <3>2. CASE prefillBatch = << >>
      <4>1. running # << >> BY <2>5, <3>2, PrefillFindsWork
      <4> QED BY <1>1, <3>1, <4>1 DEF AfterPrefill, SomethingToDo
    <3>3. CASE prefillBatch # << >> BY <1>3, <3>1, <3>3 DEF AfterPrefill
    <3> QED BY <3>2, <3>3
  <2>6. CASE DecodeAdmit
    <3>1. decodeBatch' = Append(decodeBatch, Head(running)) /\ pc' = "decode"
      BY <2>6 DEF DecodeAdmit, At
    <3>2. decodeBatch' # << >> BY <1>1, <3>1
    <3> QED BY <3>1, <3>2 DEF SomethingToDo
  <2>7. CASE DecodePreemptLast
    <3>1. Len(running) > 1 /\ running' = Front(running) /\ pc' = "decode"
      BY <2>7 DEF DecodePreemptLast, NeedsVictim, At
    <3>2. running' # << >> BY <1>1, <3>1, PoppedLast DEF QueueInv, NoDuplicates
    <3> QED BY <3>1, <3>2 DEF SomethingToDo
  <2>8. CASE DecodeAbort(AfterDecode) \/ DecodePreemptSelf(AfterDecode)
    <3>1. pc' = "drain" BY <1>1, <2>8 DEF DecodeAbort, DecodePreemptSelf, AfterDecode
    <3> QED BY <1>3, <3>1
  <2>9. CASE DecodeDone(AfterDecode)
    <3>1. /\ pc = "decode" /\ ~MoreDecode
          /\ pc' = IF decodeBatch = << >> THEN "crashed" ELSE "drain"
      BY <1>1, <2>9 DEF DecodeDone, At, AfterDecode
    <3>2. decodeBatch # << >>
      <4> SUFFICES ASSUME decodeBatch = << >> PROVE FALSE
        OBVIOUS
      <4>1. running # << >> BY <3>1 DEF Progress, SomethingToDo
      <4>2. Len(decodeBatch) = 0 OBVIOUS
      <4> QED BY <3>1, <4>1, <4>2, SchedulerAssumption DEF MoreDecode, SchedulerAssumption
    <3> QED BY <1>3, <3>1, <3>2
  <2> QED
    BY <1>6, <2>1, <2>2, <2>3, <2>4, <2>5, <2>6, <2>7, <2>8, <2>9 DEF ScheduleStep
<1>7. CASE BlockManagerStep \/ CopyOut \/ CopyIn \/ UNCHANGED vars
  BY <1>2, <1>7 DEF BlockManagerStep, CopyOut, CopyIn, vars, batchVars
<1>8. CASE DrainAborts \/ RunPrefill \/ RunDecode \/ EndBatch
  BY <1>3, <1>8 DEF DrainAborts, RunPrefill, RunDecode, Run, EndBatch
<1>9. CASE BatchStep
  BY <1>3, <1>9 DEF BatchStep, PostprocessNext, AbortNext, At
<1> QED BY <1>4, <1>5, <1>6, <1>7, <1>8, <1>9 DEF Next, EngineStep

----------------------------------------------------------------------------
(***************************************************************************)
(* The invariant of separate steps without the prefix cache, and what      *)
(* follows from it.                                                        *)
(***************************************************************************)

ProgressInv == BatchInv /\ (stepMode = "separate" => Progress)

\* At the start every block is in the free list.
LEMMA AllFree ==
  ASSUME NEW n \in Nat
  PROVE  Exclusive([i \in 1 .. n |-> i - 1], [r \in Requests |-> << >>], 0 .. n - 1)
<1> DEFINE free == [i \in 1 .. n |-> i - 1]
           table == [r \in Requests |-> << >>]
           S == 0 .. n - 1
<1>1. \A i \in 1 .. n : free[i] = i - 1 /\ free[i] \in S OBVIOUS
<1>2. DOMAIN free = 1 .. n /\ free \in Seq(S) /\ Len(free) = n
  <2>1. free \in [1 .. n -> S] BY <1>1
  <2> HIDE DEF S
  <2>2. free \in Seq(S) BY <2>1
  <2> QED BY <2>1, <2>2
<1> HIDE DEF free
<1>3. IsInjective(free) BY <1>1, <1>2 DEF IsInjective
<1>4. table \in [Requests -> Seq(S)] /\ \A r \in Requests : table[r] = << >> OBVIOUS
<1> HIDE DEF table
<1>5. \A r \in Requests : IsInjective(table[r]) /\ \A b : ~Contains(table[r], b)
  BY <1>4, EmptyQueue
<1>6. \A b \in S : Contains(free, b)
  <2> SUFFICES ASSUME NEW b \in S PROVE Contains(free, b)
    OBVIOUS
  <2>1. b + 1 \in 1 .. n /\ (b + 1) - 1 = b OBVIOUS
  <2>2. free[b + 1] = b BY <1>1, <2>1
  <2> QED BY <1>2, <2>1, <2>2 DEF Contains
<1> HIDE DEF S
<1>7. Exclusive(free, table, S) BY <1>2, <1>3, <1>4, <1>5, <1>6 DEF Exclusive
<1> QED BY <1>7 DEF free, table, S

\* The invariant holds of an engine that starts.
LEMMA InitProgress ==
  ASSUME Init, ~EnablePrefixCaching, stepMode = "separate"
  PROVE  Progress
<1>1. BatchInv BY InitBatchInv
<1>2. /\ freeList = [i \in 1 .. NumKvBlocks |-> i - 1] /\ used = {}
      /\ cpuFree = [i \in 1 .. NumCpuBlocks |-> i - 1]
      /\ blockTable = [r \in Requests |-> << >>] /\ cpuTable = [r \in Requests |-> << >>]
      /\ refCount = [b \in Blocks |-> 0] /\ pc = "idle" /\ call = NoCall
      /\ status = [r \in Requests |-> "new"]
      /\ prefillBatch = << >> /\ decodeBatch = << >>
  BY DEF Init, SchedulerInit, BlockManagerInit, CpuInit
<1>3. Pools
  <2>1. Exclusive(freeList, blockTable, Blocks)
    BY <1>2, AllFree, PoolAssumption DEF Blocks, PoolAssumption
  <2>2. Exclusive(cpuFree, cpuTable, CpuBlocks)
    BY <1>2, AllFree, CpuPoolAssumption DEF CpuBlocks, CpuPoolAssumption
  <2>3. \A b \in Blocks : Contains(freeList, b)
    <3>1. \A r \in Requests : ~\E b : Contains(blockTable[r], b) BY <1>2, EmptyQueue
    <3> QED BY <2>1, <3>1 DEF Exclusive
  <2>4. refCount = [b \in Blocks |-> IF Contains(freeList, b) THEN 0 ELSE 1] BY <1>2, <2>3
  <2>5. used = {b \in Blocks : ~Contains(freeList, b)} BY <1>2, <2>3
  <2> QED BY <2>1, <2>2, <2>4, <2>5 DEF Pools
<1>4. CallExact BY <1>2 DEF CallExact, NoCall
<1>5. \A r : ~InBatch(r) /\ ~Contains(prefillBatch, r) BY <1>2, EmptyQueue DEF InBatch
<1>6. \A r \in Requests : TableExact(r) /\ SwapExact(r)
  BY <1>2, <1>5 DEF TableExact, SwapExact
<1>7. Fits /\ SomethingToDo BY <1>2 DEF Fits, SomethingToDo
<1> QED BY <1>1, <1>3, <1>4, <1>6, <1>7 DEF Progress, Exact, Accounts

\* The invariant, with and without swap.
THEOREM ProgressInvariance == ASSUME ~EnablePrefixCaching PROVE Spec => []ProgressInv
<1>1. Init => ProgressInv BY InitBatchInv, InitProgress DEF ProgressInv
<1>2. ProgressInv /\ [Next]_vars => ProgressInv'
  <2> SUFFICES ASSUME ProgressInv, [Next]_vars PROVE ProgressInv'
    OBVIOUS
  <2>1. BatchInv' BY NextBatchInv DEF ProgressInv
  <2>2. stepMode' = stepMode BY SameStepMode
  <2>3. CASE stepMode = "separate"
    <3>1. Progress BY <2>3 DEF ProgressInv
    <3>2. Accounts' /\ Fits' /\ SomethingToDo'
      BY <3>1, AccountsStep, FitsStep, SomethingToDoStep DEF Progress
    <3> QED BY <2>1, <2>2, <2>3, <3>2 DEF ProgressInv, Progress, Exact
  <2>4. CASE stepMode # "separate" BY <2>1, <2>2, <2>4 DEF ProgressInv
  <2> QED BY <2>3, <2>4
<1> QED BY <1>1, <1>2, PTL DEF Spec

\* Without the prefix cache no step mode ever stops on "assert scheduled"
\* (scheduler.py:271), with and without swap: whatever is preempted can be admitted
\* again, recomputed or restored.
THEOREM StepsNeverCrash == ASSUME ~EnablePrefixCaching PROVE Spec => []NeverCrashes
<1>1. ProgressInv => NeverCrashes
  BY DEF ProgressInv, BatchInv, DecodesSomething, Progress, SomethingToDo, NeverCrashes
<1> QED BY <1>1, ProgressInvariance, PTL

\* In separate steps without the prefix cache, when nothing is live all GPU and CPU
\* blocks are free: restoring a request gives its CPU blocks back (scheduler.py:129), and
\* no request that is swapped out is admitted in another way.
THEOREM SwappedPoolComesBack ==
  ASSUME ~EnablePrefixCaching, StepModes \subseteq {"separate"}
  PROVE  Spec => []NoLeak
<1>1. ProgressInv => NoLeak
  <2> SUFFICES ASSUME ProgressInv, At("idle"), IsFinished
               PROVE  FreeCount = NumKvBlocks /\ Len(cpuFree) = NumCpuBlocks
    BY DEF NoLeak
  <2>1. Exact BY DEF ProgressInv, BatchInv, BatchLengths, Progress
  <2>2. ASSUME NEW r \in Requests PROVE blockTable[r] = << >> /\ cpuTable[r] = << >>
    <3>1. ~Live(r) /\ status[r] # "waiting"
      BY <2>1, EmptyQueue DEF IsFinished, Exact, BatchInv, QueueInv, QueueOfStatus, Runs, At, Live
    <3>2. ~Calling(r) BY DEF At, Idle, NoCall, Calling
    <3> QED BY <2>1, <3>1, <3>2 DEF Exact, Accounts, TableExact, SwapExact
  <2>3. FreeCount = NumKvBlocks
    BY <2>1, <2>2, PoolAllFree, BlocksCounted DEF Exact, Accounts, Pools, FreeCount
  <2>4. Len(cpuFree) = NumCpuBlocks
    BY <2>1, <2>2, PoolAllFree, BlocksCounted DEF Exact, Accounts, Pools
  <2> QED BY <2>3, <2>4
<1> QED BY <1>1, ProgressInvariance, PTL

\* What CpuBlocksExclusive says of one block.
LEMMA CpuBlockCounted ==
  ASSUME Exclusive(cpuFree, cpuTable, CpuBlocks), NEW c \in CpuBlocks
  PROVE  Cardinality({i \in DOMAIN cpuFree : cpuFree[i] = c})
         + Cardinality({w \in Requests \X (1 .. NumCpuBlocks) :
              w[2] <= Len(cpuTable[w[1]]) /\ cpuTable[w[1]][w[2]] = c}) = 1
<1> DEFINE F == {i \in DOMAIN cpuFree : cpuFree[i] = c}
           W == {w \in Requests \X (1 .. NumCpuBlocks) :
                   w[2] <= Len(cpuTable[w[1]]) /\ cpuTable[w[1]][w[2]] = c}
<1>1. /\ cpuFree \in Seq(CpuBlocks) /\ cpuTable \in [Requests -> Seq(CpuBlocks)]
      /\ IsInjective(cpuFree) /\ \A r \in Requests : IsInjective(cpuTable[r])
      /\ Contains(cpuFree, c) \/ \E r \in Requests : Contains(cpuTable[r], c)
      /\ Contains(cpuFree, c) => \A r \in Requests : ~Contains(cpuTable[r], c)
      /\ \A q, r \in Requests : Contains(cpuTable[q], c) /\ Contains(cpuTable[r], c) => q = r
  BY DEF Exclusive
<1>2. DOMAIN cpuFree = 1 .. Len(cpuFree) BY <1>1
<1>3. \A r \in Requests : Len(cpuTable[r]) \in Nat /\ Len(cpuTable[r]) <= NumCpuBlocks
                          /\ DOMAIN cpuTable[r] = 1 .. Len(cpuTable[r])
  <2> SUFFICES ASSUME NEW r \in Requests
               PROVE  Len(cpuTable[r]) \in Nat /\ Len(cpuTable[r]) <= NumCpuBlocks
                      /\ DOMAIN cpuTable[r] = 1 .. Len(cpuTable[r])
    OBVIOUS
  <2>1. cpuTable[r] \in Seq(CpuBlocks) /\ IsInjective(cpuTable[r]) BY <1>1
  <2> DEFINE T == {e \in CpuBlocks : Contains(cpuTable[r], e)}
  <2>2. Cardinality(T) = Len(cpuTable[r]) BY <2>1, ListCounted
  <2>3. T \subseteq CpuBlocks OBVIOUS
  <2> HIDE DEF T
  <2>4. Cardinality(T) <= NumCpuBlocks BY <2>3, BlocksCounted, FS_Subset
  <2> QED BY <2>1, <2>2, <2>4
<1>4. \A r \in Requests : Contains(cpuTable[r], c) <=>
        \E i \in 1 .. NumCpuBlocks : <<r, i>> \in W
  <2> SUFFICES ASSUME NEW r \in Requests
               PROVE  Contains(cpuTable[r], c) <=> \E i \in 1 .. NumCpuBlocks : <<r, i>> \in W
    OBVIOUS
  <2>1. ASSUME NEW i \in 1 .. Len(cpuTable[r]), cpuTable[r][i] = c
        PROVE  i \in 1 .. NumCpuBlocks /\ <<r, i>> \in W
    <3>1. i \in 1 .. NumCpuBlocks BY <1>3, CpuPoolAssumption DEF CpuPoolAssumption
    <3> QED BY <2>1, <3>1
  <2>2. ASSUME NEW i \in 1 .. NumCpuBlocks, <<r, i>> \in W PROVE Contains(cpuTable[r], c)
    <3>1. i \in 1 .. Len(cpuTable[r]) BY <2>2, <1>3
    <3> QED BY <2>2, <3>1 DEF Contains
  <2> QED BY <2>1, <2>2 DEF Contains
<1>5. CASE Contains(cpuFree, c)
  <2>1. PICK k \in 1 .. Len(cpuFree) : cpuFree[k] = c BY <1>5 DEF Contains
  <2>2. F = {k} BY <1>1, <1>2, <2>1 DEF IsInjective
  <2>3. W = {} BY <1>1, <1>4, <1>5
  <2> HIDE DEF F, W
  <2>4. Cardinality(F) = 1 BY <2>2, FS_Singleton
  <2>5. Cardinality(W) = 0 BY <2>3, FS_EmptySet
  <2> QED BY <2>4, <2>5 DEF F, W
<1>6. CASE ~Contains(cpuFree, c)
  <2>1. F = {} BY <1>2, <1>6 DEF Contains
  <2>2. PICK r \in Requests : Contains(cpuTable[r], c) BY <1>1, <1>6
  <2>3. PICK k \in 1 .. NumCpuBlocks : <<r, k>> \in W BY <1>4, <2>2
  <2>4. ASSUME NEW w \in W PROVE w = <<r, k>>
    <3>1. PICK q \in Requests, i \in 1 .. NumCpuBlocks : w = <<q, i>> OBVIOUS
    <3>2. q = r BY <1>1, <1>4, <2>2, <3>1
    <3>3. i \in DOMAIN cpuTable[r] /\ k \in DOMAIN cpuTable[r]
          /\ cpuTable[r][i] = c /\ cpuTable[r][k] = c
      BY <1>3, <2>3, <3>1, <3>2
    <3>4. i = k BY <1>1, <3>3 DEF IsInjective
    <3> QED BY <3>1, <3>2, <3>4
  <2> HIDE DEF F, W
  <2>5. W = {<<r, k>>} BY <2>3, <2>4
  <2>6. Cardinality(W) = 1 BY <2>5, FS_Singleton
  <2>7. Cardinality(F) = 0 BY <2>1, FS_EmptySet
  <2> QED BY <2>6, <2>7 DEF F, W
<1> QED BY <1>5, <1>6

\* Every CPU block is free or belongs to one request that is swapped out
\* (cpu_block_manager.py:7-11).
THEOREM CpuBlocksStayExclusive ==
  ASSUME ~KvSwapEnabled \/ (~EnablePrefixCaching /\ StepModes \subseteq {"separate"})
  PROVE  Spec => []CpuBlocksExclusive
<1>1. CASE ~KvSwapEnabled
  <2>1. BatchInv => CpuBlocksExclusive
    <3> SUFFICES ASSUME BatchInv PROVE CpuBlocksExclusive
      OBVIOUS
    <3>1. /\ cpuTable = [r \in Requests |-> << >>]
          /\ cpuFree = [i \in 1 .. NumCpuBlocks |-> i - 1]
      BY <1>1 DEF BatchInv, NothingSwapped
    <3>2. Exclusive(cpuFree, cpuTable, CpuBlocks)
      BY <3>1, AllFree, CpuPoolAssumption DEF CpuBlocks, CpuPoolAssumption
    <3>3. \A r \in Requests : cpuTable[r] = << >> BY <3>1
    <3> QED BY <3>2, <3>3, CpuBlockCounted DEF CpuBlocksExclusive
  <2> QED BY <2>1, BatchInvariance, PTL
<1>2. CASE ~EnablePrefixCaching /\ StepModes \subseteq {"separate"}
  <2>1. ProgressInv => CpuBlocksExclusive
    <3> SUFFICES ASSUME ProgressInv PROVE CpuBlocksExclusive
      OBVIOUS
    <3>1. Exact BY <1>2 DEF ProgressInv, BatchInv, BatchLengths, Progress
    <3>2. Exclusive(cpuFree, cpuTable, CpuBlocks) BY <3>1 DEF Exact, Accounts, Pools
    <3>3. Idle => \A r \in Requests :
            cpuTable[r] # << >> => status[r] = "waiting" /\ blockTable[r] = << >>
      BY <3>1 DEF Exact, Accounts, SwapExact, Idle, NoCall
    <3> QED BY <3>2, <3>3, CpuBlockCounted DEF CpuBlocksExclusive
  <2>2. ~EnablePrefixCaching BY <1>2
  <2> QED BY <2>1, <2>2, ProgressInvariance, PTL
<1> QED BY <1>1, <1>2

============================================================================
