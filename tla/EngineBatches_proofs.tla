------------------------ MODULE EngineBatches_proofs ------------------------
(***************************************************************************)
(* Proofs about what the loops of Engine schedule: the limits of a batch,  *)
(* who holds blocks while it waits, the assertion of the decode loop, and  *)
(* how the requests of a batch are pickled.                                *)
(***************************************************************************)
EXTENDS EngineQueues_proofs

----------------------------------------------------------------------------
(***************************************************************************)
(* The inductive invariant, on top of QueueInv.                            *)
(***************************************************************************)

\* Without swap nothing is ever swapped out.
NothingSwapped ==
  ~KvSwapEnabled =>
    /\ cpuTable = [r \in Requests |-> << >>]
    /\ cpuFree = [i \in 1 .. NumCpuBlocks |-> i - 1]
    /\ pendingOuts = << >> /\ pendingIns = << >>

\* In unified steps the decode loop has no limit of its own: what is running was
\* once in a batch of the prefill loop, and only swap-ins come on top of that.
BatchLengths ==
  /\ stepMode \in StepModes
  /\ stepMode # "unified" => Len(prefillBatch) <= MaxNumSeqs /\ Len(decodeBatch) <= MaxNumSeqs
  /\ stepMode = "unified" /\ ~KvSwapEnabled =>
       /\ Len(running) <= MaxNumSeqs
       /\ pc = "decode" => Len(decodeBatch) + Len(running) <= MaxNumSeqs
       /\ pc = "prefill" =>
            /\ Len(running) <= Len(Scheduled)
            /\ Len(Scheduled) <= MaxNumSeqs
       /\ pc \notin {"decode", "prefill"} => Len(prefillBatch) <= MaxNumSeqs

\* The budget of the loop is what its batch costs.
Costs(batch, n) ==
  IsFiniteSet(Positions(batch)) /\ Cardinality(Positions(batch)) = n

BudgetFits ==
  stepMode = "unified" => ~KvSwapEnabled /\ MaxNumSeqs <= MaxNumBatchedTokens

Budget ==
  /\ pc = "prefill" =>
       /\ Costs(Scheduled, numBatchTokens)
       /\ BudgetFits => numBatchTokens <= MaxNumBatchedTokens
  /\ pc = "decode" =>
       IF stepMode = "unified"
       THEN Costs(decodeBatch, numBatchTokens) /\ numBatchTokens = Len(decodeBatch)
       ELSE numBatchTokens = 0
  /\ pc \notin {"prefill", "decode"} => numBatchTokens = 0
  /\ pc \in {"drain", "runPrefill"} /\ BudgetFits =>
       Cardinality(Positions(prefillBatch)) <= MaxNumBatchedTokens

\* A request that is not in the engine yet holds no blocks.
EmptyTables ==
  /\ blockTable = [r \in Requests |-> blockTable[r]]
  /\ \A r \in Requests : blockTable[r] \in Seq(Range(blockTable[r]))
  /\ \A r \in Requests : status[r] \in {"new", "rejected"} => blockTable[r] = << >>
  /\ call.op = "allocate" /\ status[call.seq] = "waiting" => call.target # 0

\* r has blocks, or is being given some.
Has(r) ==
  \/ blockTable[r] # << >> /\ ~(call.op = "deallocate" /\ call.seq = r)
  \/ call.op = "allocate" /\ call.seq = r

Holding == {r \in Requests : Has(r)}

\* What is in H comes first in s.
ComeFirst(H, s) == \A j \in 1 .. Len(s) : \A i \in 1 .. j : s[j] \in H => s[i] \in H

\* Partially prefilled requests come first in waiting; in a step that decodes
\* there are none.
Holders ==
  stepMode = "separate" =>
    /\ ComeFirst(Holding, waiting)
    /\ \A r \in Requests : Contains(prefillBatch, r) => blockTable[r] # << >>
    /\ pc = "decode" => \A r \in Requests : Contains(waiting, r) => ~Has(r)

\* A combined step decodes only when there is something to decode.
DecodesSomething ==
  /\ pc = "decode" /\ stepMode = "combined" => running # << >> \/ decodeBatch # << >>
  /\ pc = "crashed" => stepMode = "separate"

\* Whoever still has a prompt to compute is pickled with all of its tokens.
PickledForPrefill ==
  /\ isPrefill \in [Requests -> BOOLEAN]
  /\ ~KvSwapEnabled => \A r \in Requests :
       /\ status[r] \in {"new", "waiting"} => isPrefill[r]
       /\ Contains(prefillBatch, r) /\ stepMode # "unified" => isPrefill[r]

BatchInv ==
  /\ QueueInv /\ NothingSwapped /\ BatchLengths /\ Budget /\ EmptyTables /\ Holders
  /\ DecodesSomething /\ PickledForPrefill


----------------------------------------------------------------------------
(***************************************************************************)
(* Every part of the invariant is kept by every step.                      *)
(***************************************************************************)

\* Without swap the swap-in loop never takes a request off waiting ...
LEMMA NoSwapIn ==
  ASSUME ~KvSwapEnabled, NothingSwapped, waiting \in Seq(Requests)
  PROVE  ~SwapInNext
<1>1. \A r \in Requests : cpuTable[r] = << >> BY DEF NothingSwapped
<1>2. \A k \in 1 .. Len(waiting) : cpuTable[waiting[k]] = << >> BY <1>1
<1> QED BY <1>2 DEF SwapInNext, SwapIn, Restorable

\* ... and preempt recomputes.
LEMMA NoSwapOut ==
  ASSUME ~KvSwapEnabled, NEW r, Preempt(r)
  PROVE  /\ status' = [status EXCEPT ![r] = "waiting"]
         /\ isPrefill' = [isPrefill EXCEPT ![r] = TRUE]
         /\ UNCHANGED swapVars
         /\ Deallocate(r)
BY DEF Preempt, ShouldSwap

\* What was not swapped stays that way.
LEMMA NothingSwappedStep ==
  ASSUME QueueInv, NothingSwapped, [Next]_vars
  PROVE  NothingSwapped'
<1> SUFFICES ASSUME ~KvSwapEnabled PROVE NothingSwapped'
  BY DEF NothingSwapped
<1>1. ~SwapInNext BY NoSwapIn DEF QueueInv, QueueTypes
<1>2. ~CopyOut /\ ~CopyIn BY DEF CopyOut, CopyIn, NothingSwapped
<1>3. CASE UNCHANGED swapVars
  BY <1>3 DEF swapVars, NothingSwapped
<1>4. CASE \E r \in Requests : AddRequest(r)
  BY <1>3, <1>4 DEF AddRequest, Add
<1>5. CASE ScheduleStep
  <2>1. CASE DecodePreemptLast \/ DecodePreemptSelf(AfterDecode)
    BY <1>3, <2>1, NoSwapOut DEF DecodePreemptLast, DecodePreemptSelf
  <2>2. CASE \/ SwapInDone(AfterSwapIns) \/ PrefillAllocate \/ PrefillSchedule
             \/ PrefillDone(AfterPrefill) \/ DecodeAdmit \/ DecodeAbort(AfterDecode)
             \/ DecodeDone(AfterDecode)
    BY <1>3, <2>2 DEF SwapInDone, PrefillAllocate, PrefillSchedule, PrefillDone, DecodeAdmit,
       DecodeAbort, DecodeDone
  <2> QED BY <1>1, <1>5, <2>1, <2>2 DEF ScheduleStep
<1>6. CASE BatchStep
  BY <1>3, <1>6 DEF BatchStep, PostprocessNext, AbortNext
<1>7. CASE \/ StartStep \/ BlockManagerStep \/ DrainAborts \/ RunPrefill \/ RunDecode
           \/ EndBatch \/ UNCHANGED vars
  BY <1>3, <1>7 DEF StartStep, BlockManagerStep, DrainAborts, RunPrefill, RunDecode, Run,
     EndBatch, vars
<1> QED BY <1>2, <1>4, <1>5, <1>6, <1>7 DEF Next, EngineStep

\* Once a combined step decodes, it decodes or keeps running at least one request.
LEMMA DecodesSomethingStep ==
  ASSUME QueueInv, DecodesSomething, [Next]_vars
  PROVE  DecodesSomething'
<1>1. running \in Seq(Requests) /\ decodeBatch \in Seq(Requests)
      /\ stepMode \in {"separate", "combined", "unified"}
  BY DEF QueueInv, QueueTypes
<1>2. stepMode' = stepMode
  BY DEF Next, EngineStep, AddRequest, StartStep, ScheduleStep, BlockManagerStep, CopyOut,
     CopyIn, DrainAborts, RunPrefill, RunDecode, Run, EndBatch, BatchStep, PostprocessNext,
     AbortNext, vars
<1>3. CASE UNCHANGED <<pc, running, decodeBatch>>
  BY <1>2, <1>3 DEF DecodesSomething
<1>4. CASE pc' \notin {"decode", "crashed"}
  BY <1>4 DEF DecodesSomething
<1>5. CASE ScheduleStep
  <2>1. CASE SwapInDone(AfterSwapIns)
    <3>1. pc' = AfterSwapIns /\ UNCHANGED <<running, decodeBatch>>
      BY <2>1 DEF SwapInDone, batchVars
    <3> QED BY <1>1, <1>2, <3>1 DEF AfterSwapIns, DecodesSomething
  <2>2. CASE PrefillDone(AfterPrefill)
    <3>1. pc' = AfterPrefill BY <2>2 DEF PrefillDone
    <3> QED BY <1>1, <1>2, <3>1 DEF AfterPrefill, DecodesSomething
  <2>3. CASE DecodeAdmit
    <3>1. decodeBatch' = Append(decodeBatch, Head(running)) /\ pc' = pc /\ pc = "decode"
      BY <2>3 DEF DecodeAdmit, At
    <3>2. decodeBatch' # << >> BY <1>1, <3>1
    <3> QED BY <3>1, <3>2 DEF DecodesSomething
  <2>4. CASE DecodePreemptLast
    <3>1. Len(running) > 1 /\ running' = Front(running) /\ pc' = pc /\ pc = "decode"
      BY <2>4 DEF DecodePreemptLast, NeedsVictim, At
    <3>2. running' # << >> BY <1>1, <3>1, PoppedLast DEF QueueInv, NoDuplicates
    <3> QED BY <3>1, <3>2 DEF DecodesSomething
  <2>5. CASE DecodeAbort(AfterDecode) \/ DecodePreemptSelf(AfterDecode)
    <3>1. pc' = AfterDecode BY <2>5 DEF DecodeAbort, DecodePreemptSelf
    <3> QED BY <1>1, <1>4, <3>1 DEF AfterDecode
  <2>6. CASE DecodeDone(AfterDecode)
    <3>1. /\ pc = "decode" /\ ~MoreDecode
          /\ pc' = IF decodeBatch = << >> /\ stepMode # "unified" THEN "crashed" ELSE AfterDecode
      BY <2>6 DEF DecodeDone, At
    <3>2. pc' # "decode" BY <3>1 DEF AfterDecode
    <3>3. ASSUME pc' = "crashed" PROVE stepMode = "separate"
      <4>1. decodeBatch = << >> /\ stepMode # "unified"
        BY <3>1, <3>3 DEF AfterDecode
      <4>2. Len(decodeBatch) = 0 BY <4>1
      <4>3. running = << >>
        BY <3>1, <4>1, <4>2, SchedulerAssumption DEF MoreDecode, SchedulerAssumption
      <4> QED BY <1>1, <3>1, <4>1, <4>3 DEF DecodesSomething
    <3> QED BY <1>2, <3>2, <3>3 DEF DecodesSomething
  <2>7. CASE SwapInNext \/ PrefillAllocate \/ PrefillSchedule
    <3>1. pc' = pc /\ pc \in {"swapIns", "prefill"}
      BY <2>7 DEF SwapInNext, PrefillAllocate, PrefillSchedule, At
    <3> QED BY <1>4, <3>1
  <2> QED BY <1>5, <2>1, <2>2, <2>3, <2>4, <2>5, <2>6, <2>7 DEF ScheduleStep
<1>6. CASE BatchStep
  <2>1. pc' = pc /\ pc \notin {"decode", "crashed"}
    BY <1>6 DEF BatchStep, PostprocessNext, AbortNext, At
  <2> QED BY <1>4, <2>1
<1>7. CASE (\E r \in Requests : AddRequest(r)) \/ BlockManagerStep \/ CopyOut \/ CopyIn
           \/ UNCHANGED vars
  BY <1>3, <1>7 DEF AddRequest, Add, BlockManagerStep, CopyOut, CopyIn, vars, batchVars
<1>8. CASE StartStep \/ DrainAborts \/ RunPrefill \/ RunDecode \/ EndBatch
  BY <1>4, <1>8 DEF StartStep, DrainAborts, RunPrefill, RunDecode, Run, EndBatch
<1> QED BY <1>5, <1>6, <1>7, <1>8 DEF Next, EngineStep

\* The step mode is a setting.
LEMMA SameStepMode == [Next]_vars => stepMode' = stepMode
BY DEF Next, EngineStep, AddRequest, StartStep, ScheduleStep, BlockManagerStep, CopyOut,
   CopyIn, DrainAborts, RunPrefill, RunDecode, Run, EndBatch, BatchStep, PostprocessNext,
   AbortNext, vars

\* Dealing with a computed request takes it off its batch, and off the queues if
\* this ends it.
LEMMA BatchStepEffect ==
  ASSUME QueueInv, BatchStep
  PROVE  /\ Idle /\ pc \in {"postPrefill", "postDecode", "oomPrefill", "oomDecode"}
         /\ UNCHANGED <<blockTable, isPrefill, numBatchTokens, pc, stepMode>>
         /\ \/ /\ pc \in {"postPrefill", "oomPrefill"} /\ prefillBatch # << >>
               /\ prefillBatch' = Tail(prefillBatch) /\ decodeBatch' = decodeBatch
            \/ /\ pc \in {"postDecode", "oomDecode"} /\ decodeBatch # << >>
               /\ decodeBatch' = Tail(decodeBatch) /\ prefillBatch' = prefillBatch
         /\ \E r \in Requests, prefill \in BOOLEAN :
              /\ r = Head(IF prefill THEN prefillBatch ELSE decodeBatch)
              /\ InBatch(r) /\ Live(r)
              /\ ~Contains(prefillBatch', r) /\ ~Contains(decodeBatch', r)
              /\ running' = running \/ running' = RemoveFirst(running, r)
              /\ \/ UNCHANGED <<status, waiting, call>>
                 \/ /\ \E s \in {"finished", "aborted"} : status' = [status EXCEPT ![r] = s]
                    /\ waiting' = waiting \/ waiting' = RemoveFirst(waiting, r)
                    /\ \/ call' = [op |-> "deallocate", seq |-> r]
                       \/ blockTable[r] = << >> /\ call' = call
<1>1. ASSUME NEW prefill \in BOOLEAN,
             LET batch == IF prefill THEN prefillBatch ELSE decodeBatch IN
               PostprocessNext(prefill, batch) \/ AbortNext(prefill, batch),
             prefill => At("postPrefill") \/ At("oomPrefill"),
             ~prefill => At("postDecode") \/ At("oomDecode")
      PROVE  /\ Idle /\ pc \in {"postPrefill", "postDecode", "oomPrefill", "oomDecode"}
             /\ UNCHANGED <<blockTable, isPrefill, numBatchTokens, pc, stepMode>>
             /\ \/ /\ pc \in {"postPrefill", "oomPrefill"} /\ prefillBatch # << >>
                   /\ prefillBatch' = Tail(prefillBatch) /\ decodeBatch' = decodeBatch
                \/ /\ pc \in {"postDecode", "oomDecode"} /\ decodeBatch # << >>
                   /\ decodeBatch' = Tail(decodeBatch) /\ prefillBatch' = prefillBatch
             /\ LET r == Head(IF prefill THEN prefillBatch ELSE decodeBatch) IN
                /\ r \in Requests /\ InBatch(r) /\ Live(r)
                /\ ~Contains(prefillBatch', r) /\ ~Contains(decodeBatch', r)
                /\ running' = running \/ running' = RemoveFirst(running, r)
                /\ \/ UNCHANGED <<status, waiting, call>>
                   \/ /\ \E s \in {"finished", "aborted"} : status' = [status EXCEPT ![r] = s]
                      /\ waiting' = waiting \/ waiting' = RemoveFirst(waiting, r)
                      /\ \/ call' = [op |-> "deallocate", seq |-> r]
                         \/ blockTable[r] = << >> /\ call' = call
  <2> DEFINE batch == IF prefill THEN prefillBatch ELSE decodeBatch
             r == Head(batch)
  <2>1. /\ batch # << >> /\ TakeFromBatch(prefill) /\ Idle
        /\ UNCHANGED <<blockTable, isPrefill, pc, stepMode>>
    BY <1>1 DEF PostprocessNext, AbortNext, At
  <2>2. /\ pc \in {"postPrefill", "postDecode", "oomPrefill", "oomDecode"}
        /\ prefill => pc \in {"postPrefill", "oomPrefill"}
        /\ ~prefill => pc \in {"postDecode", "oomDecode"}
    BY <1>1 DEF At
  <2>3. /\ r \in Requests /\ InBatch(r) /\ Live(r) /\ numBatchTokens' = numBatchTokens
        /\ ~Contains(prefillBatch', r) /\ ~Contains(decodeBatch', r)
    BY <2>1, <2>2, TakenFromBatch
  <2>4. \/ /\ prefill /\ prefillBatch # << >>
           /\ prefillBatch' = Tail(prefillBatch) /\ decodeBatch' = decodeBatch
        \/ /\ ~prefill /\ decodeBatch # << >>
           /\ decodeBatch' = Tail(decodeBatch) /\ prefillBatch' = prefillBatch
    BY <2>1 DEF TakeFromBatch
  <2>5. CASE PostprocessNext(prefill, batch)
    <3>1. /\ waiting' = waiting
          /\ \/ PostprocessChunk(r)
             \/ \E token \in Token : PostprocessToken(r, token) \/ PostprocessLast(r, token)
      BY <2>5 DEF PostprocessNext
    <3> HIDE DEF r, batch
    <3>2. /\ running' = running \/ running' = RemoveFirst(running, r)
          /\ \/ UNCHANGED <<status, waiting, call>>
             \/ /\ status' = [status EXCEPT ![r] = "finished"]
                /\ call' = [op |-> "deallocate", seq |-> r]
      BY <3>1 DEF PostprocessChunk, PostprocessToken, PostprocessLast, Deallocate
    <3> QED BY <2>1, <2>2, <2>3, <2>4, <3>1, <3>2 DEF r, batch
  <2>6. CASE AbortNext(prefill, batch)
    <3>1. Abort(r) /\ running' = RemoveFirst(running, r)
      BY <2>6 DEF AbortNext
    <3> HIDE DEF r, batch
    <3>2. /\ status' = [status EXCEPT ![r] = "aborted"]
          /\ waiting' = RemoveFirst(waiting, r)
          /\ \/ call' = [op |-> "deallocate", seq |-> r]
             \/ blockTable[r] = << >> /\ call' = call
      BY <3>1 DEF Abort, Deallocate
    <3> QED BY <2>1, <2>2, <2>3, <2>4, <3>1, <3>2 DEF r, batch
  <2> QED BY <1>1, <2>5, <2>6
<1>2. CASE At("postPrefill") /\ PostprocessNext(TRUE, prefillBatch)
  BY <1>1, <1>2
<1>3. CASE At("oomPrefill") /\ AbortNext(TRUE, prefillBatch)
  BY <1>1, <1>3
<1>4. CASE At("postDecode") /\ PostprocessNext(FALSE, decodeBatch)
  BY <1>1, <1>4
<1>5. CASE At("oomDecode") /\ AbortNext(FALSE, decodeBatch)
  BY <1>1, <1>5
<1> QED BY <1>2, <1>3, <1>4, <1>5 DEF BatchStep

\* Who is given a chunk waits and is not in the batch yet.
LEMMA PrefillScheduleEffect ==
  ASSUME QueueInv, PrefillSchedule
  PROVE  \E r \in Requests : \E k \in Nat \ {0} :
           /\ Candidate(r) /\ blockTable[r] # << >>
           /\ status[r] = "waiting" /\ Contains(waiting, r) /\ ~InBatch(r)
           /\ ~Contains(running, r) /\ numScheduled[r] = 0
           /\ k <= Remaining
           /\ numScheduled' = [numScheduled EXCEPT ![r] = k]
           /\ numBatchTokens' = numBatchTokens + k
           /\ prefillBatch' = Append(prefillBatch, r)
           /\ isPrefill' = IF stepMode = "unified" THEN [isPrefill EXCEPT ![r] = TRUE]
                           ELSE isPrefill
           /\ \/ /\ status' = [status EXCEPT ![r] = "running"]
                 /\ running' = Append(running, r)
                 /\ waiting' = RemoveFirst(waiting, r)
              \/ UNCHANGED <<status, running, waiting>>
<1>1. PICK r \in Requests :
        Candidate(r) /\ blockTable[r] # << >> /\ ScheduleChunk(r, Todo(r, numCached[r]))
  BY DEF PrefillSchedule
<1>2. pc = "prefill" /\ HasRoom
  BY DEF PrefillSchedule, At
<1>3. /\ status[r] = "waiting" /\ Contains(waiting, r) /\ ~InBatch(r)
      /\ ~Contains(running, r) /\ numScheduled[r] = 0
  BY <1>1, <1>2, CandidateIsWaiting
<1> DEFINE todo == Todo(r, numCached[r])
<1>4. todo \in Nat \ {0}
  BY DEF QueueInv, ProgressTypes, TokensLeft, NumTokens, Todo
<1> HIDE DEF todo
<1>5. Chunk(todo) \in 1 .. todo /\ Chunk(todo) <= Remaining
  BY <1>2, <1>4, ChunkBounds DEF HasRoom, QueueInv, ProgressTypes
<1>6. ScheduleChunk(r, todo) BY <1>1 DEF todo
<1>7. Chunk(todo) \in Nat \ {0} BY <1>4, <1>5
<1> QED BY <1>1, <1>3, <1>5, <1>6, <1>7 DEF ScheduleChunk

\* is_prefill is cleared only for a decode turn, and set again by preempt.
LEMMA PickledStep ==
  ASSUME QueueInv, PickledForPrefill, [Next]_vars, NothingSwapped
  PROVE  PickledForPrefill'
<1>1. stepMode' = stepMode BY SameStepMode
<1>2. /\ prefillBatch \in Seq(Requests) /\ IsInjective(prefillBatch)
      /\ isPrefill \in [Requests -> BOOLEAN]
      /\ status \in [Requests ->
           {"new", "rejected", "waiting", "running", "finished", "aborted"}]
  BY DEF QueueInv, QueueTypes, ProgressTypes, NoDuplicates, PickledForPrefill
<1>3. CASE UNCHANGED <<status, isPrefill, prefillBatch>>
  BY <1>1, <1>3 DEF PickledForPrefill
<1>4. CASE \E r \in Requests : AddRequest(r)
  <2>1. PICK r \in Requests : AddRequest(r) BY <1>4
  <2>2. /\ status[r] = "new" /\ UNCHANGED <<isPrefill, prefillBatch>>
        /\ \A q \in Requests : q # r => status'[q] = status[q]
    BY <1>2, <2>1 DEF AddRequest, Add, batchVars
  <2> QED BY <1>1, <2>2 DEF PickledForPrefill
<1>5. CASE ScheduleStep
  <2>1. CASE SwapInNext
    <3>1. KvSwapEnabled BY <2>1, NoSwapIn DEF QueueInv, QueueTypes
    <3>2. isPrefill' = isPrefill BY <2>1 DEF SwapInNext
    <3> QED BY <1>2, <3>1, <3>2 DEF PickledForPrefill
  <2>2. CASE \/ SwapInDone(AfterSwapIns) \/ PrefillAllocate \/ DecodeDone(AfterDecode)
    BY <1>3, <2>2 DEF SwapInDone, PrefillAllocate, DecodeDone, batchVars
  <2>3. CASE PrefillSchedule
    <3>1. PICK r \in Requests :
            /\ status[r] = "waiting" /\ prefillBatch' = Append(prefillBatch, r)
            /\ isPrefill' = IF stepMode = "unified" THEN [isPrefill EXCEPT ![r] = TRUE]
                            ELSE isPrefill
            /\ status' = [status EXCEPT ![r] = "running"] \/ status' = status
      BY <2>3, PrefillScheduleEffect
    <3>2. \A q : Contains(prefillBatch', q) <=> Contains(prefillBatch, q) \/ q = r
      BY <1>2, <3>1, Appended
    <3>4. \A q \in Requests : status'[q] \in {"new", "waiting"} => status[q] \in {"new", "waiting"}
      BY <1>2, <3>1
    <3>5. isPrefill' \in [Requests -> BOOLEAN]
          /\ \A q \in Requests : isPrefill[q] => isPrefill'[q]
      BY <1>2, <3>1
    <3>6. ~KvSwapEnabled => \A q \in Requests :
            (Contains(prefillBatch, q) \/ q = r) /\ stepMode # "unified" => isPrefill[q]
      BY <3>1 DEF PickledForPrefill
    <3>7. ~KvSwapEnabled => \A q \in Requests :
            Contains(prefillBatch', q) /\ stepMode # "unified" => isPrefill'[q]
      BY <3>2, <3>5, <3>6
    <3>8. ~KvSwapEnabled => \A q \in Requests : status'[q] \in {"new", "waiting"} => isPrefill'[q]
      BY <3>4, <3>5 DEF PickledForPrefill
    <3> QED BY <1>1, <3>5, <3>7, <3>8 DEF PickledForPrefill
  <2>4. CASE PrefillDone(AfterPrefill)
    <3>1. prefillBatch' = Scheduled /\ UNCHANGED <<status, isPrefill>>
      BY <2>4 DEF PrefillDone
    <3>2. stepMode # "unified" => prefillBatch' = prefillBatch
      BY <3>1 DEF Scheduled
    <3> QED BY <1>1, <3>1, <3>2 DEF PickledForPrefill
  <2>5. CASE DecodeAdmit
    <3> DEFINE r == Head(running)
    <3>1. /\ pc = "decode" /\ running # << >> /\ isPrefill' = [isPrefill EXCEPT ![r] = FALSE]
          /\ UNCHANGED <<status, prefillBatch>>
      BY <2>5 DEF DecodeAdmit, At, MoreDecode
    <3>2. r \in Requests /\ Contains(running, r)
      BY <3>1, InQueue DEF QueueInv, QueueTypes
    <3> HIDE DEF r
    <3>3. status[r] = "running" /\ prefillBatch = << >>
      BY <3>1, <3>2 DEF QueueInv, QueueOfStatus, Runs, BatchesInPhase
    <3>4. \A q \in Requests : ~Contains(prefillBatch', q)
      BY <3>1, <3>3, EmptyQueue
    <3>5. isPrefill' \in [Requests -> BOOLEAN]
          /\ \A q \in Requests : status[q] \in {"new", "waiting"} => isPrefill'[q] = isPrefill[q]
      BY <1>2, <3>1, <3>3
    <3> QED BY <3>1, <3>4, <3>5 DEF PickledForPrefill
  <2>6. CASE DecodePreemptLast \/ DecodePreemptSelf(AfterDecode)
    <3>1. PICK r : Preempt(r) /\ prefillBatch' = prefillBatch
      BY <2>6 DEF DecodePreemptLast, DecodePreemptSelf, batchVars
    <3>2. \/ isPrefill' = [isPrefill EXCEPT ![r] = TRUE]
          \/ KvSwapEnabled /\ isPrefill' = isPrefill
      BY <3>1 DEF Preempt, ShouldSwap
    <3>3. isPrefill' \in [Requests -> BOOLEAN]
          /\ \A q \in Requests : isPrefill[q] => isPrefill'[q]
      BY <1>2, <3>2
    <3>4. status' = [status EXCEPT ![r] = "waiting"] BY <3>1 DEF Preempt
    <3>5. ~KvSwapEnabled => \A q \in Requests : status'[q] \in {"new", "waiting"} => isPrefill'[q]
      BY <1>2, <3>2, <3>4 DEF PickledForPrefill
    <3> QED BY <1>1, <3>1, <3>3, <3>5 DEF PickledForPrefill
  <2>7. CASE DecodeAbort(AfterDecode)
    <3>1. status' = [status EXCEPT ![running[1]] = "aborted"]
          /\ UNCHANGED <<isPrefill, prefillBatch>>
      BY <2>7 DEF DecodeAbort, Abort, batchVars
    <3>2. \A q \in Requests : status'[q] \in {"new", "waiting"} => status[q] \in {"new", "waiting"}
      BY <3>1
    <3> QED BY <1>1, <3>1, <3>2 DEF PickledForPrefill
  <2> QED BY <1>5, <2>1, <2>2, <2>3, <2>4, <2>5, <2>6, <2>7 DEF ScheduleStep
<1>6. CASE BatchStep
  <2>0. PICK r \in Requests :
          \/ status' = status
          \/ \E s \in {"finished", "aborted"} : status' = [status EXCEPT ![r] = s]
    BY <1>6, BatchStepEffect
  <2>1. /\ isPrefill' = isPrefill
        /\ \/ prefillBatch' = prefillBatch
           \/ prefillBatch # << >> /\ prefillBatch' = Tail(prefillBatch)
    BY <1>6, BatchStepEffect
  <2>2. \A q : Contains(prefillBatch', q) => Contains(prefillBatch, q)
    BY <1>2, <2>1, Popped
  <2>3. \A q \in Requests : status'[q] \in {"new", "waiting"} => status[q] \in {"new", "waiting"}
    BY <1>2, <2>0
  <2> QED BY <1>1, <2>1, <2>2, <2>3 DEF PickledForPrefill
<1>7. CASE \/ StartStep \/ BlockManagerStep \/ CopyOut \/ CopyIn \/ DrainAborts \/ RunPrefill
           \/ RunDecode \/ EndBatch \/ UNCHANGED vars
  BY <1>3, <1>7 DEF StartStep, BlockManagerStep, CopyOut, CopyIn, DrainAborts, RunPrefill,
     RunDecode, Run, EndBatch, vars, requestVars, batchVars
<1> QED BY <1>4, <1>5, <1>6, <1>7 DEF Next, EngineStep

\* Two lists one after the other are as long as both together.
LEMMA JoinedLength ==
  ASSUME NEW R, NEW s \in Seq(R), NEW t \in Seq(R)
  PROVE  Len(s \o t) = Len(s) + Len(t) /\ Len(s) \in Nat /\ Len(t) \in Nat
OBVIOUS

\* No loop schedules more than max_num_seqs, and no more run than were scheduled.
LEMMA BatchLengthsStep ==
  ASSUME QueueInv, NothingSwapped, BatchLengths, [Next]_vars
  PROVE  BatchLengths'
<1>1. stepMode' = stepMode BY SameStepMode
<1>2. /\ prefillBatch \in Seq(Requests) /\ decodeBatch \in Seq(Requests)
      /\ running \in Seq(Requests) /\ waiting \in Seq(Requests)
      /\ IsInjective(prefillBatch) /\ IsInjective(decodeBatch) /\ IsInjective(running)
      /\ Len(prefillBatch) \in Nat /\ Len(decodeBatch) \in Nat /\ Len(running) \in Nat
      /\ MaxNumSeqs \in Nat /\ MaxNumSeqs > 0
  BY SchedulerAssumption DEF QueueInv, QueueTypes, NoDuplicates, SchedulerAssumption
<1>3. Len(<< >>) = 0 OBVIOUS
<1>4. CASE UNCHANGED <<pc, running, prefillBatch, decodeBatch>>
  BY <1>1, <1>4 DEF BatchLengths, Scheduled
<1>5. CASE ScheduleStep
  <2>1. CASE SwapInNext
    <3>1. KvSwapEnabled BY <2>1, NoSwapIn, <1>2
    <3>2. UNCHANGED <<prefillBatch, decodeBatch>> BY <2>1 DEF SwapInNext, batchVars
    <3> QED BY <1>1, <3>1, <3>2 DEF BatchLengths
  <2>2. CASE SwapInDone(AfterSwapIns)
    <3>1. /\ pc = "swapIns" /\ pc' = AfterSwapIns
          /\ UNCHANGED <<running, prefillBatch, decodeBatch>>
      BY <2>2 DEF SwapInDone, At, batchVars
    <3>2. prefillBatch = << >> /\ decodeBatch = << >>
      BY <3>1 DEF QueueInv, BatchesInPhase
    <3>3. stepMode = "unified" => pc' = "decode" BY <3>1 DEF AfterSwapIns
    <3>4. stepMode = "unified" /\ ~KvSwapEnabled => Len(running) <= MaxNumSeqs
      BY DEF BatchLengths
    <3>5. stepMode \in StepModes BY DEF BatchLengths
    <3> QED BY <1>1, <1>2, <1>3, <3>1, <3>2, <3>3, <3>4, <3>5 DEF BatchLengths
  <2>3. CASE PrefillAllocate
    BY <1>4, <2>3 DEF PrefillAllocate, batchVars
  <2>4. CASE PrefillSchedule
    <3>1. /\ pc = "prefill" /\ pc' = pc /\ decodeBatch' = decodeBatch
          /\ Len(Scheduled) < MaxNumSeqs
      BY <2>4 DEF PrefillSchedule, At, HasRoom
    <3>2. PICK r \in Requests :
            /\ prefillBatch' = Append(prefillBatch, r)
            /\ running' = Append(running, r) \/ running' = running
      BY <2>4, PrefillScheduleEffect
    <3>3. Len(prefillBatch') = Len(prefillBatch) + 1
          /\ Len(running') \in Nat /\ Len(running') <= Len(running) + 1
      BY <1>2, <3>2
    <3>4. prefillBatch' \in Seq(Requests) BY <1>2, <3>2
    <3>5. Len(Scheduled)' = Len(Scheduled) + 1 /\ Len(Scheduled) \in Nat
      <4>1. CASE stepMode = "unified"
        <5>1. Len(decodeBatch \o prefillBatch) = Len(decodeBatch) + Len(prefillBatch)
          BY <1>2, JoinedLength
        <5>2. Len(decodeBatch' \o prefillBatch') = Len(decodeBatch) + Len(prefillBatch')
          BY <1>2, <3>1, <3>4, JoinedLength
        <5> QED BY <1>1, <1>2, <3>3, <4>1, <5>1, <5>2 DEF Scheduled
      <4>2. CASE stepMode # "unified"
        BY <1>1, <1>2, <3>3, <4>2 DEF Scheduled
      <4> QED BY <4>1, <4>2
    <3>6. stepMode \in StepModes
          /\ (stepMode # "unified" => Len(decodeBatch) <= MaxNumSeqs)
          /\ (stepMode = "unified" /\ ~KvSwapEnabled => Len(running) <= Len(Scheduled))
      BY <3>1 DEF BatchLengths
    <3>7. stepMode # "unified" => Len(prefillBatch') <= MaxNumSeqs
      BY <1>2, <3>1, <3>3 DEF Scheduled
    <3>8. stepMode = "unified" /\ ~KvSwapEnabled =>
            Len(running') <= MaxNumSeqs /\ Len(running') <= Len(Scheduled)'
            /\ Len(Scheduled)' <= MaxNumSeqs
      BY <1>2, <3>1, <3>3, <3>5, <3>6
    <3> HIDE DEF Scheduled
    <3> QED BY <1>1, <3>1, <3>6, <3>7, <3>8 DEF BatchLengths
  <2>5. CASE PrefillDone(AfterPrefill)
    <3>1. /\ pc = "prefill" /\ pc' = AfterPrefill /\ prefillBatch' = Scheduled
          /\ running' = running
          /\ decodeBatch' = IF stepMode = "unified" THEN << >> ELSE decodeBatch
      BY <2>5 DEF PrefillDone, At
    <3>2. pc' \in {"decode", "drain"} /\ (stepMode = "unified" => pc' = "drain")
      BY <3>1 DEF AfterPrefill
    <3>3. stepMode # "unified" => prefillBatch' = prefillBatch BY <3>1 DEF Scheduled
    <3>4. CASE stepMode = "unified"
      <4>1. ~KvSwapEnabled => Len(running) <= MaxNumSeqs /\ Len(Scheduled) <= MaxNumSeqs
        BY <3>1, <3>4 DEF BatchLengths
      <4>2. stepMode \in StepModes BY DEF BatchLengths
      <4> QED BY <1>1, <3>1, <3>2, <3>4, <4>1, <4>2 DEF BatchLengths
    <3>5. CASE stepMode # "unified"
      BY <1>1, <3>1, <3>3, <3>5 DEF BatchLengths
    <3> QED BY <3>4, <3>5
  <2>6. CASE DecodeAdmit
    <3>1. /\ pc = "decode" /\ pc' = pc /\ prefillBatch' = prefillBatch /\ running # << >>
          /\ stepMode = "unified" \/ Len(decodeBatch) < MaxNumSeqs
          /\ decodeBatch' = Append(decodeBatch, Head(running)) /\ running' = Tail(running)
      BY <2>6 DEF DecodeAdmit, At, MoreDecode
    <3>2. Len(running') = Len(running) - 1 BY <1>2, <3>1, Popped
    <3>3. Len(decodeBatch') = Len(decodeBatch) + 1 BY <1>2, <3>1
    <3>4. /\ stepMode \in StepModes
          /\ stepMode # "unified" => Len(prefillBatch) <= MaxNumSeqs
          /\ stepMode = "unified" /\ ~KvSwapEnabled =>
               Len(running) <= MaxNumSeqs /\ Len(decodeBatch) + Len(running) <= MaxNumSeqs
      BY <3>1 DEF BatchLengths
    <3>5. stepMode # "unified" => Len(decodeBatch') <= MaxNumSeqs
      BY <1>2, <3>1, <3>3
    <3>6. stepMode = "unified" /\ ~KvSwapEnabled =>
               Len(running') <= MaxNumSeqs /\ Len(decodeBatch') + Len(running') <= MaxNumSeqs
      BY <1>2, <3>2, <3>3, <3>4
    <3> QED BY <1>1, <3>1, <3>4, <3>5, <3>6 DEF BatchLengths
  <2>7. CASE DecodePreemptLast
    <3>1. /\ pc = "decode" /\ pc' = pc /\ Len(running) > 1 /\ running' = Front(running)
          /\ UNCHANGED <<prefillBatch, decodeBatch>>
      BY <2>7 DEF DecodePreemptLast, NeedsVictim, At, batchVars
    <3>2. Len(running') = Len(running) - 1 BY <1>2, <1>3, <3>1, PoppedLast
    <3>3. stepMode = "unified" /\ ~KvSwapEnabled =>
            Len(running) <= MaxNumSeqs /\ Len(decodeBatch) + Len(running) <= MaxNumSeqs
      BY <3>1 DEF BatchLengths
    <3>4. stepMode = "unified" /\ ~KvSwapEnabled =>
            Len(running') <= MaxNumSeqs /\ Len(decodeBatch) + Len(running') <= MaxNumSeqs
      BY <1>2, <3>2, <3>3
    <3> QED BY <1>1, <3>1, <3>4 DEF BatchLengths
  <2>8. CASE \/ DecodeAbort(AfterDecode) \/ DecodePreemptSelf(AfterDecode)
             \/ DecodeDone(AfterDecode)
    <3>1. /\ pc = "decode" /\ pc' \in {"drain", "prefill", "crashed"}
          /\ stepMode = "unified" => pc' = "prefill"
          /\ UNCHANGED <<prefillBatch, decodeBatch>>
      BY <2>8 DEF DecodeAbort, DecodePreemptSelf, DecodeDone, NeedsVictim, At, AfterDecode,
         batchVars
    <3>2. stepMode = "unified" => running' = decodeBatch
      <4>1. CASE DecodeAbort(AfterDecode) \/ DecodePreemptSelf(AfterDecode)
        BY <4>1 DEF DecodeAbort, DecodePreemptSelf
      <4>2. CASE DecodeDone(AfterDecode)
        <5>1. running' = decodeBatch \o running /\ ~MoreDecode BY <4>2 DEF DecodeDone
        <5>2. stepMode = "unified" => running = << >> BY <5>1 DEF MoreDecode
        <5>3. decodeBatch \o << >> = decodeBatch BY <1>2
        <5> QED BY <5>1, <5>2, <5>3
      <4> QED BY <2>8, <4>1, <4>2
    <3>3. prefillBatch = << >> BY <3>1 DEF QueueInv, BatchesInPhase
    <3>4. CASE stepMode = "unified"
      <4>1. Scheduled' = decodeBatch /\ running' = decodeBatch
        <5>1. decodeBatch \o << >> = decodeBatch BY <1>2
        <5> QED BY <1>1, <3>1, <3>2, <3>3, <3>4, <5>1 DEF Scheduled
      <4>2. ~KvSwapEnabled => Len(decodeBatch) <= MaxNumSeqs
        <5>1. ~KvSwapEnabled => Len(decodeBatch) + Len(running) <= MaxNumSeqs
          BY <3>1, <3>4 DEF BatchLengths
        <5> QED BY <1>2, <5>1
      <4>3. stepMode \in StepModes /\ Len(Scheduled') = Len(decodeBatch)
        BY <4>1 DEF BatchLengths
      <4> QED BY <1>1, <1>2, <3>1, <3>4, <4>1, <4>2, <4>3 DEF BatchLengths
    <3>5. CASE stepMode # "unified"
      BY <1>1, <3>1, <3>5 DEF BatchLengths
    <3> QED BY <3>4, <3>5
  <2> QED BY <1>5, <2>1, <2>2, <2>3, <2>4, <2>5, <2>6, <2>7, <2>8 DEF ScheduleStep
<1>6. CASE BatchStep
  <2>1. /\ pc \notin {"decode", "prefill"} /\ pc' = pc
        /\ \/ /\ prefillBatch # << >>
              /\ prefillBatch' = Tail(prefillBatch) /\ decodeBatch' = decodeBatch
           \/ /\ decodeBatch # << >>
              /\ decodeBatch' = Tail(decodeBatch) /\ prefillBatch' = prefillBatch
        /\ running' = running \/ \E r : running' = RemoveFirst(running, r)
    BY <1>6, BatchStepEffect
  <2>2. Len(prefillBatch') <= Len(prefillBatch) /\ Len(decodeBatch') <= Len(decodeBatch)
        /\ Len(prefillBatch') \in Nat /\ Len(decodeBatch') \in Nat
    <3>1. prefillBatch # << >> => Len(Tail(prefillBatch)) = Len(prefillBatch) - 1
                                  /\ Len(prefillBatch) > 0
      BY <1>2, Popped
    <3>2. decodeBatch # << >> => Len(Tail(decodeBatch)) = Len(decodeBatch) - 1
                                 /\ Len(decodeBatch) > 0
      BY <1>2, Popped
    <3> QED BY <1>2, <2>1, <3>1, <3>2
  <2>3. Len(running') <= Len(running) /\ Len(running') \in Nat
    BY <1>2, <2>1, FirstRemoved
  <2>4. stepMode # "unified" => Len(prefillBatch') <= MaxNumSeqs /\ Len(decodeBatch') <= MaxNumSeqs
    BY <1>2, <2>2 DEF BatchLengths
  <2>5. stepMode = "unified" /\ ~KvSwapEnabled =>
          Len(running') <= MaxNumSeqs /\ Len(prefillBatch') <= MaxNumSeqs
    BY <1>2, <2>1, <2>2, <2>3 DEF BatchLengths
  <2>6. stepMode \in StepModes BY DEF BatchLengths
  <2> QED BY <1>1, <2>1, <2>4, <2>5, <2>6 DEF BatchLengths
<1>7. CASE (\E r \in Requests : AddRequest(r)) \/ BlockManagerStep \/ CopyOut \/ CopyIn
           \/ UNCHANGED vars
  BY <1>4, <1>7 DEF AddRequest, Add, BlockManagerStep, CopyOut, CopyIn, vars, batchVars
<1>8. CASE StartStep \/ DrainAborts \/ RunPrefill \/ RunDecode \/ EndBatch
  <2>1. /\ UNCHANGED <<running, prefillBatch, decodeBatch>>
        /\ pc \notin {"decode", "prefill"} /\ pc' \notin {"decode", "prefill"}
    BY <1>8 DEF StartStep, DrainAborts, RunPrefill, RunDecode, Run, EndBatch, At, batchVars
  <2> QED BY <1>1, <2>1 DEF BatchLengths
<1> QED BY <1>5, <1>6, <1>7, <1>8 DEF Next, EngineStep

----------------------------------------------------------------------------
(***************************************************************************)
(* The budget.                                                             *)
(***************************************************************************)

\* The positions that the requests of S compute when f says how many each.
PositionsOf(S, f) == UNION {{r} \X (1 .. f[r]) : r \in S}

\* What a batch computes depends on who is in it and on what they are scheduled.
LEMMA SamePositions ==
  ASSUME NEW S, NEW f, NEW g, \A r \in S : f[r] = g[r]
  PROVE  PositionsOf(S, f) = PositionsOf(S, g)
BY DEF PositionsOf

\* One more request adds as many positions as it is given.
LEMMA PositionsGrow ==
  ASSUME NEW S, NEW f, NEW r, r \notin S, NEW k \in Nat, f[r] = k,
         IsFiniteSet(PositionsOf(S, f))
  PROVE  /\ IsFiniteSet(PositionsOf(S \cup {r}, f))
         /\ Cardinality(PositionsOf(S \cup {r}, f)) = Cardinality(PositionsOf(S, f)) + k
<1> DEFINE P == PositionsOf(S, f)
           Q == {r} \X (1 .. k)
           h == [i \in 1 .. k |-> <<r, i>>]
<1>1. h \in Bijection(1 .. k, Q)
  <2>1. h \in [1 .. k -> Q] OBVIOUS
  <2>2. \A i, j \in 1 .. k : h[i] = h[j] => i = j OBVIOUS
  <2>3. \A q \in Q : \E i \in 1 .. k : h[i] = q OBVIOUS
  <2> HIDE DEF h, Q
  <2>4. h \in Injection(1 .. k, Q) BY <2>1, <2>2 DEF Injection, IsInjective
  <2> QED BY <2>1, <2>3, <2>4 DEF Bijection, Surjection
<1>2. ExistsBijection(1 .. k, Q) BY <1>1 DEF ExistsBijection
<1>3. IsFiniteSet(Q) /\ Cardinality(Q) = k
  BY <1>2, FS_NatBijection, FS_CountingElements
<1>4. P \cap Q = {} BY DEF PositionsOf
<1>5. PositionsOf(S \cup {r}, f) = P \cup Q BY DEF PositionsOf
<1>6. IsFiniteSet(P) OBVIOUS
<1> HIDE DEF P, Q
<1>7. /\ IsFiniteSet(P \cup Q)
      /\ Cardinality(P \cup Q) = Cardinality(P) + Cardinality(Q) - Cardinality({})
  BY <1>3, <1>4, <1>6, FS_Union
<1>8. Cardinality({}) = 0 /\ Cardinality(P) \in Nat
  BY <1>6, FS_EmptySet, FS_CardinalityType
<1>9. Cardinality(P \cup Q) = Cardinality(P) + k BY <1>3, <1>7, <1>8
<1> QED BY <1>5, <1>7, <1>9 DEF P

\* The budget of an empty batch.
LEMMA NothingCosts == Costs(<< >>, 0)
<1>1. Range(<< >>) = {} BY DEF Range
<1>2. Positions(<< >>) = {} BY <1>1 DEF Positions
<1> QED BY <1>2, FS_EmptySet DEF Costs

\* The budget used grows with the batch.
LEMMA CostsGrow ==
  ASSUME NEW s, IsFiniteSet(Positions(s)), NEW r, r \notin Range(s),
         NEW f, \A q \in Range(s) : f[q] = numScheduled[q], f[r] \in Nat
  PROVE  /\ IsFiniteSet(PositionsOf(Range(s) \cup {r}, f))
         /\ Cardinality(PositionsOf(Range(s) \cup {r}, f)) = Cardinality(Positions(s)) + f[r]
<1>1. Positions(s) = PositionsOf(Range(s), numScheduled) BY DEF Positions, PositionsOf
<1>2. PositionsOf(Range(s), numScheduled) = PositionsOf(Range(s), f)
  BY SamePositions
<1>3. IsFiniteSet(PositionsOf(Range(s), f)) BY <1>1, <1>2
<1> QED BY <1>1, <1>2, <1>3, PositionsGrow

\* Who is in a list, before and after Append and concatenation.
LEMMA RangeOf ==
  ASSUME NEW R, NEW s \in Seq(R), NEW t \in Seq(R), NEW r \in R
  PROVE  /\ Range(s) \subseteq R
         /\ \A e : e \in Range(s) <=> Contains(s, e)
         /\ Range(Append(s, r)) = Range(s) \cup {r}
         /\ Range(s \o t) = Range(s) \cup Range(t)
<1>1. \A u \in Seq(R) : \A e : e \in Range(u) <=> Contains(u, e)
  BY DEF Range, Contains
<1>2. Append(s, r) \in Seq(R) /\ s \o t \in Seq(R) OBVIOUS
<1>3. \A e : e \in Range(Append(s, r)) <=> e \in Range(s) \/ e = r
  BY <1>1, <1>2, Appended
<1>4. \A e : e \in Range(s \o t) <=> e \in Range(s) \/ e \in Range(t)
  <2>1. Len(s \o t) = Len(s) + Len(t) /\ Len(s) \in Nat /\ Len(t) \in Nat OBVIOUS
  <2>2. /\ \A i \in 1 .. Len(s) : (s \o t)[i] = s[i]
        /\ \A i \in 1 .. Len(t) : (s \o t)[Len(s) + i] = t[i]
    OBVIOUS
  <2>3. \A i \in 1 .. Len(s) + Len(t) : i > Len(s) => \E j \in 1 .. Len(t) : i = Len(s) + j
    <3>1. TAKE i \in 1 .. Len(s) + Len(t)
    <3>2. HAVE i > Len(s)
    <3>3. i - Len(s) \in 1 .. Len(t) /\ i = Len(s) + (i - Len(s)) BY <2>1, <3>2
    <3> QED BY <3>3
  <2>4. DOMAIN (s \o t) = 1 .. Len(s) + Len(t) /\ DOMAIN s = 1 .. Len(s) /\ DOMAIN t = 1 .. Len(t)
    BY <2>1
  <2>5. ASSUME NEW e, e \in Range(s \o t) PROVE e \in Range(s) \/ e \in Range(t)
    <3>1. PICK i \in 1 .. Len(s) + Len(t) : (s \o t)[i] = e BY <2>4, <2>5 DEF Range
    <3>2. CASE i <= Len(s)
      <4>1. i \in 1 .. Len(s) /\ s[i] = e BY <2>1, <2>2, <3>1, <3>2
      <4> QED BY <2>4, <4>1 DEF Range
    <3>3. CASE i > Len(s)
      <4>1. PICK j \in 1 .. Len(t) : i = Len(s) + j BY <2>3, <3>3
      <4>2. t[j] = e BY <2>2, <3>1, <4>1
      <4> QED BY <2>4, <4>2 DEF Range
    <3> QED BY <2>1, <3>2, <3>3
  <2>6. ASSUME NEW e, e \in Range(s) PROVE e \in Range(s \o t)
    <3>1. PICK i \in 1 .. Len(s) : s[i] = e BY <2>4, <2>6 DEF Range
    <3>2. i \in 1 .. Len(s) + Len(t) /\ (s \o t)[i] = e BY <2>1, <2>2, <3>1
    <3> QED BY <2>4, <3>2 DEF Range
  <2>7. ASSUME NEW e, e \in Range(t) PROVE e \in Range(s \o t)
    <3>1. PICK i \in 1 .. Len(t) : t[i] = e BY <2>4, <2>7 DEF Range
    <3>2. Len(s) + i \in 1 .. Len(s) + Len(t) /\ (s \o t)[Len(s) + i] = e BY <2>1, <2>2, <3>1
    <3> QED BY <2>4, <3>2 DEF Range
  <2> QED BY <2>5, <2>6, <2>7
<1>5. Range(s) \subseteq R BY DEF Range
<1> QED BY <1>1, <1>3, <1>4, <1>5

\* A batch that is left alone, and whose requests keep what they are scheduled.
LEMMA SameCosts ==
  ASSUME NEW s \in Seq(Requests), \A r \in Requests : Contains(s, r) =>
                                     numScheduled'[r] = numScheduled[r]
  PROVE  PositionsOf(Range(s), numScheduled') = Positions(s)
<1>1. \A r \in Range(s) : r \in Requests /\ Contains(s, r) BY DEF Range, Contains
<1>2. PositionsOf(Range(s), numScheduled') = PositionsOf(Range(s), numScheduled)
  BY <1>1, SamePositions
<1> QED BY <1>2 DEF Positions, PositionsOf

\* num_batch_tokens is what the batch computes, and stays within the budget.
LEMMA BudgetStep ==
  ASSUME QueueInv, QueueInv', BatchLengths, Budget, [Next]_vars
  PROVE  Budget'
<1>1. stepMode' = stepMode /\ (BudgetFits' <=> BudgetFits)
  BY SameStepMode DEF BudgetFits
<1>a. /\ prefillBatch \in Seq(Requests) /\ decodeBatch \in Seq(Requests)
      /\ running \in Seq(Requests) /\ stepMode \in {"separate", "combined", "unified"}
  BY DEF QueueInv, QueueTypes
<1>b. numScheduled \in [Requests -> Nat]
  BY DEF QueueInv, ProgressTypes
<1>c. MaxNumBatchedTokens \in Nat /\ MaxNumBatchedTokens > 0 /\ MaxNumSeqs \in Nat
  BY SchedulerAssumption DEF SchedulerAssumption
<1>d. Len(decodeBatch) \in Nat
  BY <1>a
<1>2. /\ Positions(Scheduled)' = PositionsOf(Range(Scheduled'), numScheduled')
      /\ Positions(decodeBatch)' = PositionsOf(Range(decodeBatch'), numScheduled')
      /\ Positions(prefillBatch)' = PositionsOf(Range(prefillBatch'), numScheduled')
  BY DEF Positions, PositionsOf
<1>3. Scheduled \in Seq(Requests)
  BY <1>a DEF Scheduled
<1>4. CASE /\ UNCHANGED <<pc, numBatchTokens, prefillBatch, decodeBatch>>
           /\ \A r \in Requests : InBatch(r) => numScheduled'[r] = numScheduled[r]
  <2>1. Scheduled' = Scheduled BY <1>1, <1>4 DEF Scheduled
  <2>2. \A r : Contains(Scheduled, r) => InBatch(r)
    <3>1. CASE stepMode = "unified"
      <4>1. IsInjective(decodeBatch) /\ IsInjective(prefillBatch)
            /\ \A r : ~(Contains(decodeBatch, r) /\ Contains(prefillBatch, r))
        BY <1>a, InQueue DEF QueueInv, NoDuplicates
      <4> QED BY <1>a, <3>1, <4>1, Joined DEF Scheduled, InBatch
    <3>2. CASE stepMode # "unified" BY <3>2 DEF Scheduled, InBatch
    <3> QED BY <3>1, <3>2
  <2>3. PositionsOf(Range(Scheduled), numScheduled') = Positions(Scheduled)
    BY <1>3, <1>4, <2>2, SameCosts
  <2>4. /\ PositionsOf(Range(decodeBatch), numScheduled') = Positions(decodeBatch)
        /\ PositionsOf(Range(prefillBatch), numScheduled') = Positions(prefillBatch)
    BY <1>a, <1>4, SameCosts DEF InBatch
  <2>5. /\ Positions(Scheduled)' = Positions(Scheduled)
        /\ Positions(decodeBatch)' = Positions(decodeBatch)
        /\ Positions(prefillBatch)' = Positions(prefillBatch)
    BY <1>2, <1>4, <2>1, <2>3, <2>4
  <2>6. /\ UNCHANGED <<pc, numBatchTokens, stepMode>> /\ Len(decodeBatch)' = Len(decodeBatch)
    BY <1>1, <1>4
  <2> QED BY <1>1, <2>5, <2>6 DEF Budget, Costs
<1>5. CASE /\ pc \notin {"prefill", "decode"} /\ pc' \notin {"prefill", "decode"}
           /\ numBatchTokens' = numBatchTokens
           /\ pc' \in {"drain", "runPrefill"} => pc \in {"drain", "runPrefill"}
                /\ prefillBatch' = prefillBatch /\ numScheduled' = numScheduled
  <2>1. numBatchTokens = 0 BY <1>5 DEF Budget
  <2>2. pc' \in {"drain", "runPrefill"} => Positions(prefillBatch)' = Positions(prefillBatch)
    BY <1>2, <1>5 DEF Positions, PositionsOf
  <2> QED BY <1>1, <1>5, <2>1, <2>2 DEF Budget
<1>6. CASE ScheduleStep
  <2>1. CASE SwapInNext
    <3>1. pc = "swapIns" /\ pc' = pc /\ numBatchTokens' = numBatchTokens
      BY <2>1 DEF SwapInNext, At, batchVars
    <3> QED BY <1>5, <3>1
  <2>2. CASE SwapInDone(AfterSwapIns)
    <3>1. /\ pc = "swapIns" /\ pc' = AfterSwapIns
          /\ UNCHANGED <<prefillBatch, decodeBatch, numBatchTokens>>
      BY <2>2 DEF SwapInDone, At, batchVars
    <3>2. prefillBatch = << >> /\ decodeBatch = << >> /\ numBatchTokens = 0
      BY <3>1 DEF QueueInv, BatchesInPhase, Budget
    <3>3. << >> \o << >> = << >> /\ Len(<< >>) = 0 OBVIOUS
    <3>4. Scheduled' = << >> BY <3>1, <3>2, <3>3 DEF Scheduled
    <3>5. Costs(<< >>, 0)' BY NothingCosts, PTL
    <3>6. pc' \in {"prefill", "decode"} BY <1>a, <3>1 DEF AfterSwapIns
    <3>7. Costs(Scheduled, numBatchTokens)' /\ Costs(decodeBatch, numBatchTokens)'
          /\ numBatchTokens' = 0 /\ Len(decodeBatch)' = 0
      BY <3>1, <3>2, <3>3, <3>4, <3>5 DEF Costs, Positions
    <3> QED BY <1>1, <1>c, <3>6, <3>7 DEF Budget
  <2>3. CASE PrefillAllocate
    BY <1>4, <2>3 DEF PrefillAllocate, batchVars
  <2>4. CASE PrefillSchedule
    <3>1. PICK r \in Requests, k \in Nat \ {0} :
            /\ ~InBatch(r) /\ k <= Remaining
            /\ numScheduled' = [numScheduled EXCEPT ![r] = k]
            /\ numBatchTokens' = numBatchTokens + k
            /\ prefillBatch' = Append(prefillBatch, r)
      BY <2>4, PrefillScheduleEffect
    <3>2. pc = "prefill" /\ pc' = pc /\ decodeBatch' = decodeBatch
      BY <2>4 DEF PrefillSchedule, At
    <3>3. prefillBatch' \in Seq(Requests) BY <1>a, <3>1
    <3>4. /\ Range(prefillBatch') = Range(prefillBatch) \cup {r}
          /\ Range(decodeBatch \o prefillBatch) = Range(decodeBatch) \cup Range(prefillBatch)
          /\ Range(decodeBatch \o prefillBatch') = Range(decodeBatch) \cup Range(prefillBatch')
          /\ r \notin Range(decodeBatch) /\ r \notin Range(prefillBatch)
      BY <1>a, <3>1, <3>3, RangeOf DEF InBatch
    <3>5. Range(Scheduled') = Range(Scheduled) \cup {r} /\ r \notin Range(Scheduled)
      BY <1>1, <3>2, <3>4 DEF Scheduled
    <3>6. Range(Scheduled) \subseteq Requests BY <1>3 DEF Range
    <3>7. Costs(Scheduled, numBatchTokens) /\ numBatchTokens \in Nat
      <4>1. Costs(Scheduled, numBatchTokens) BY <3>2 DEF Budget
      <4> QED BY <4>1, FS_CardinalityType DEF Costs
    <3>8. Costs(Scheduled, numBatchTokens)'
      <4> DEFINE P == PositionsOf(Range(Scheduled) \cup {r}, numScheduled')
      <4>1. IsFiniteSet(P) /\ Cardinality(P) = numBatchTokens + k
        <5>1. /\ numScheduled'[r] = k
              /\ \A q \in Requests : q # r => numScheduled'[q] = numScheduled[q]
          BY <1>b, <3>1
        <5>2. \A q \in Range(Scheduled) : numScheduled'[q] = numScheduled[q]
          BY <3>5, <3>6, <5>1
        <5>3. IsFiniteSet(Positions(Scheduled))
              /\ Cardinality(Positions(Scheduled)) = numBatchTokens
          BY <3>7 DEF Costs
        <5>4. /\ IsFiniteSet(P)
              /\ Cardinality(P) = Cardinality(Positions(Scheduled)) + numScheduled'[r]
          BY <3>5, <5>1, <5>2, <5>3, CostsGrow
        <5> QED BY <5>1, <5>3, <5>4
      <4>2. Positions(Scheduled)' = P BY <1>2, <3>5
      <4> QED BY <3>1, <4>1, <4>2 DEF Costs
    <3>9. numBatchTokens' <= MaxNumBatchedTokens
      BY <1>c, <3>1, <3>7 DEF Remaining
    <3> QED BY <1>1, <3>2, <3>8, <3>9 DEF Budget
  <2>5. CASE PrefillDone(AfterPrefill)
    <3>1. /\ pc = "prefill" /\ pc' = AfterPrefill /\ prefillBatch' = Scheduled
          /\ numBatchTokens' = 0 /\ numScheduled' = numScheduled
      BY <2>5 DEF PrefillDone, At
    <3>2. pc' \in {"decode", "drain"} /\ (stepMode # "separate" => pc' = "drain")
      BY <3>1 DEF AfterPrefill
    <3>3. BudgetFits => Cardinality(Positions(Scheduled)) <= MaxNumBatchedTokens
      BY <3>1 DEF Budget, Costs
    <3>4. Positions(prefillBatch)' = Positions(Scheduled)
      BY <3>1 DEF Positions
    <3> QED BY <1>1, <3>1, <3>2, <3>3, <3>4 DEF Budget
  <2>6. CASE DecodeAdmit
    <3> DEFINE r == Head(running)
    <3>1. /\ pc = "decode" /\ pc' = pc /\ running # << >> /\ decodeBatch' = Append(decodeBatch, r)
          /\ numScheduled' = [numScheduled EXCEPT ![r] = 1]
          /\ numBatchTokens' = IF stepMode = "unified" THEN numBatchTokens + 1 ELSE numBatchTokens
      BY <2>6 DEF DecodeAdmit, At, MoreDecode
    <3>2. r \in Requests /\ Contains(running, r)
      BY <1>a, <3>1, InQueue
    <3> HIDE DEF r
    <3>3. CASE stepMode # "unified"
      BY <1>1, <3>1, <3>3 DEF Budget
    <3>4. CASE stepMode = "unified"
      <4>1. Costs(decodeBatch, numBatchTokens) /\ numBatchTokens = Len(decodeBatch)
        BY <3>1, <3>4 DEF Budget
      <4>2. ~Contains(decodeBatch, r) BY <3>1, <3>2 DEF QueueInv, QueueOfStatus
      <4>3. /\ Range(decodeBatch') = Range(decodeBatch) \cup {r} /\ r \notin Range(decodeBatch)
            /\ Range(decodeBatch) \subseteq Requests
        BY <1>a, <3>1, <3>2, <4>2, RangeOf
      <4>4. Len(decodeBatch') = Len(decodeBatch) + 1 BY <1>a, <3>1
      <4> DEFINE P == PositionsOf(Range(decodeBatch) \cup {r}, numScheduled')
      <4>5. IsFiniteSet(P) /\ Cardinality(P) = numBatchTokens + 1
        <5>1. /\ numScheduled'[r] = 1
              /\ \A q \in Requests : q # r => numScheduled'[q] = numScheduled[q]
          BY <1>b, <3>1, <3>2
        <5>2. \A q \in Range(decodeBatch) : numScheduled'[q] = numScheduled[q]
          BY <4>3, <5>1
        <5>3. IsFiniteSet(Positions(decodeBatch))
              /\ Cardinality(Positions(decodeBatch)) = numBatchTokens
          BY <4>1 DEF Costs
        <5>4. /\ IsFiniteSet(P)
              /\ Cardinality(P) = Cardinality(Positions(decodeBatch)) + numScheduled'[r]
          BY <4>3, <5>1, <5>2, <5>3, CostsGrow
        <5> QED BY <5>1, <5>3, <5>4
      <4>6. Positions(decodeBatch)' = P BY <1>2, <4>3
      <4>7. Costs(decodeBatch, numBatchTokens)'
        BY <3>1, <3>4, <4>5, <4>6 DEF Costs
      <4>8. numBatchTokens' = Len(decodeBatch)' BY <1>d, <3>1, <3>4, <4>1, <4>4
      <4> QED BY <1>1, <3>1, <3>4, <4>7, <4>8 DEF Budget
    <3> QED BY <3>3, <3>4
  <2>7. CASE DecodePreemptLast
    BY <1>4, <2>7 DEF DecodePreemptLast, batchVars
  <2>8. CASE \/ DecodeAbort(AfterDecode) \/ DecodePreemptSelf(AfterDecode)
             \/ DecodeDone(AfterDecode)
    <3>1. /\ pc = "decode"
          /\ pc' = AfterDecode \/ (stepMode # "unified" /\ pc' = "crashed")
          /\ UNCHANGED <<prefillBatch, decodeBatch, numBatchTokens, numScheduled>>
      BY <2>8 DEF DecodeAbort, DecodePreemptSelf, DecodeDone, NeedsVictim, At, batchVars
    <3>2. prefillBatch = << >> /\ prefillBatch' = << >>
      BY <3>1 DEF QueueInv, BatchesInPhase
    <3>3. Positions(<< >>)' = Positions(<< >>) /\ Costs(<< >>, 0)
      BY NothingCosts, <3>1 DEF Positions
    <3>4. CASE stepMode # "unified"
      <4>0. pc = "decode" => (stepMode # "unified" => numBatchTokens = 0)
        BY DEF Budget
      <4>1. numBatchTokens' = 0 BY <3>1, <3>4, <4>0
      <4>2. Scheduled' = << >> BY <1>1, <3>2, <3>4 DEF Scheduled
      <4>3. Positions(Scheduled)' = Positions(<< >>) /\ Positions(prefillBatch)' = Positions(<< >>)
        BY <3>2, <4>2 , <3>1 DEF Positions
      <4>4. pc' \in {"drain", "prefill", "crashed"} BY <3>1 DEF AfterDecode
      <4>5. Cardinality(Positions(prefillBatch)') <= MaxNumBatchedTokens
        BY <1>c, <3>3, <4>3 DEF Costs
      <4>6. Costs(Scheduled, numBatchTokens)' BY <3>3, <4>1, <4>3 DEF Costs
      <4> QED BY <1>1, <1>c, <4>1, <4>4, <4>5, <4>6 DEF Budget
    <3>5. CASE stepMode = "unified"
      <4>1. pc' = "prefill" BY <3>1, <3>5 DEF AfterDecode
      <4>2. decodeBatch \o << >> = decodeBatch BY <1>a
      <4>3. Scheduled' = decodeBatch BY <1>1, <3>1, <3>2, <3>5, <4>2 DEF Scheduled
      <4>4. Costs(decodeBatch, numBatchTokens) /\ numBatchTokens = Len(decodeBatch)
        BY <3>1, <3>5 DEF Budget
      <4>5. Positions(Scheduled)' = Positions(decodeBatch) BY <3>1, <4>3 DEF Positions
      <4>6. Costs(Scheduled, numBatchTokens)' BY <3>1, <4>4, <4>5 DEF Costs
      <4>7. BudgetFits => Len(decodeBatch) <= MaxNumBatchedTokens
        <5>1. Len(running) \in Nat BY <1>a
        <5>2. BudgetFits => /\ MaxNumSeqs <= MaxNumBatchedTokens
                            /\ Len(decodeBatch) + Len(running) <= MaxNumSeqs
          BY <3>1, <3>5 DEF BudgetFits, BatchLengths
        <5> QED BY <1>c, <1>d, <5>1, <5>2
      <4> QED BY <1>1, <3>1, <4>1, <4>4, <4>6, <4>7 DEF Budget
    <3> QED BY <3>4, <3>5
  <2> QED BY <1>6, <2>1, <2>2, <2>3, <2>4, <2>5, <2>6, <2>7, <2>8 DEF ScheduleStep
<1>7. CASE BatchStep
  <2>1. /\ pc \in {"postPrefill", "postDecode", "oomPrefill", "oomDecode"}
        /\ UNCHANGED <<numBatchTokens, pc>>
    BY <1>7, BatchStepEffect
  <2> QED BY <1>5, <2>1
<1>8. CASE (\E r \in Requests : AddRequest(r)) \/ BlockManagerStep \/ CopyOut \/ CopyIn
           \/ UNCHANGED vars
  BY <1>4, <1>8
  DEF AddRequest, Add, BlockManagerStep, CallStep, CopyOut, CopyIn, vars, batchVars, requestVars
<1>9. CASE StartStep \/ DrainAborts \/ RunPrefill \/ RunDecode \/ EndBatch
  BY <1>5, <1>9 DEF StartStep, DrainAborts, RunPrefill, RunDecode, Run, EndBatch, At, batchVars,
     requestVars
<1> QED BY <1>6, <1>7, <1>8, <1>9 DEF Next, EngineStep

----------------------------------------------------------------------------
(***************************************************************************)
(* Who holds blocks while it waits.                                        *)
(***************************************************************************)

\* Taking a request out of a queue keeps the order of the others.
LEMMA FirstWithoutOne ==
  ASSUME NEW H, NEW R, NEW s \in Seq(R), ComeFirst(H, s), NEW k \in 1 .. Len(s)
  PROVE  ComeFirst(H, RemoveAt(s, k))
<1> DEFINE t == RemoveAt(s, k)
<1>0. /\ Len(t) = Len(s) - 1 /\ Len(s) \in Nat
      /\ \A i \in 1 .. k - 1 : t[i] = s[i]
      /\ \A i \in k .. Len(s) - 1 : t[i] = s[i + 1]
  BY MovedUp
<1>1. /\ Len(s) \in Nat /\ Len(t) = Len(s) - 1
      /\ \A i \in 1 .. Len(s) - 1 : t[i] = IF i < k THEN s[i] ELSE s[i + 1]
  BY <1>0
<1> HIDE DEF t
<1>2. ASSUME NEW j \in 1 .. Len(t), NEW i \in 1 .. j, t[j] \in H PROVE t[i] \in H
  <2>1. i \in 1 .. Len(s) - 1 /\ j \in 1 .. Len(s) - 1 BY <1>1
  <2>2. t[i] = (IF i < k THEN s[i] ELSE s[i + 1]) /\ t[j] = (IF j < k THEN s[j] ELSE s[j + 1])
    BY <1>1, <2>1
  <2>3. i \in 1 .. Len(s) /\ i + 1 \in 1 .. Len(s) /\ j \in 1 .. Len(s) /\ j + 1 \in 1 .. Len(s)
    BY <1>1, <2>1
  <2>4. i \in 1 .. j /\ i \in 1 .. j + 1 /\ i + 1 \in 1 .. j + 1 OBVIOUS
  <2> QED BY <1>2, <2>2, <2>3, <2>4 DEF ComeFirst
<1> QED BY <1>2 DEF ComeFirst, t

\* So do deque.remove and popping.
LEMMA FirstWithoutFirst ==
  ASSUME NEW H, NEW R, NEW s \in Seq(R), IsInjective(s), ComeFirst(H, s), NEW e
  PROVE  ComeFirst(H, RemoveFirst(s, e))
BY FirstRemoved, FirstWithoutOne

\* A request that does not hold blocks may come last.
LEMMA FirstBeforeOther ==
  ASSUME NEW H, NEW R, NEW s \in Seq(R), ComeFirst(H, s), NEW e, e \notin H
  PROVE  ComeFirst(H, Append(s, e))
<1>1. /\ Len(s) \in Nat /\ Len(Append(s, e)) = Len(s) + 1 /\ Append(s, e)[Len(s) + 1] = e
      /\ \A i \in 1 .. Len(s) : Append(s, e)[i] = s[i]
  OBVIOUS
<1> DEFINE t == Append(s, e)
<1>2. ASSUME NEW j \in 1 .. Len(t), NEW i \in 1 .. j, t[j] \in H PROVE t[i] \in H
  <2>1. j # Len(s) + 1 BY <1>1, <1>2
  <2>2. j \in 1 .. Len(s) /\ i \in 1 .. Len(s) BY <1>1, <2>1
  <2>3. s[j] \in H BY <1>1, <1>2, <2>2
  <2> QED BY <1>1, <2>2, <2>3 DEF ComeFirst
<1> QED BY <1>2 DEF ComeFirst

\* A list is a list of its own elements.
LEMMA ListOfItself ==
  ASSUME NEW R, NEW s \in Seq(R)
  PROVE  s \in Seq(Range(s))
BY DEF Range

\* A table stays a table with one more block or with one less.
LEMMA TableOneMore ==
  ASSUME NEW s, s \in Seq(Range(s)), NEW b
  PROVE  Append(s, b) \in Seq(Range(Append(s, b))) /\ Append(s, b) # << >>
<1>1. s \in Seq(Range(s) \cup {b}) OBVIOUS
<1>2. Append(s, b) \in Seq(Range(s) \cup {b}) BY <1>1
<1>3. Len(Append(s, b)) = Len(s) + 1 /\ Len(s) \in Nat /\ Len(<< >>) = 0 OBVIOUS
<1>4. Append(s, b) # << >> BY <1>3
<1> QED BY <1>2, <1>4, ListOfItself

\* Releasing the last block of a table changes no other table.
LEMMA TableOneLess ==
  ASSUME NEW s, s \in Seq(Range(s)), s # << >>
  PROVE  SubSeq(s, 1, Len(s) - 1) \in Seq(Range(SubSeq(s, 1, Len(s) - 1)))
<1>1. SubSeq(s, 1, Len(s) - 1) \in Seq(Range(s)) OBVIOUS
<1> QED BY <1>1, ListOfItself

\* The tables of the requests that are in no queue yet are empty.
LEMMA EmptyTablesStep ==
  ASSUME QueueInv, EmptyTables, [Next]_vars
  PROVE  EmptyTables'
<1>1. /\ blockTable = [r \in Requests |-> blockTable[r]]
      /\ \A r \in Requests : blockTable[r] \in Seq(Range(blockTable[r]))
      /\ \A r \in Requests : status[r] \in {"new", "rejected"} => blockTable[r] = << >>
      /\ call.op = "allocate" /\ status[call.seq] = "waiting" => call.target # 0
  BY DEF EmptyTables
<1>2. status \in [Requests ->
        {"new", "rejected", "waiting", "running", "finished", "aborted"}]
  BY DEF QueueInv, ProgressTypes
<1>3. NoCall.op = "none" /\ (Idle => call.op = "none") BY DEF NoCall, Idle
<1>4. CASE /\ UNCHANGED blockTable
           /\ \A r \in Requests : status'[r] \in {"new", "rejected"} => blockTable[r] = << >>
           /\ call'.op # "allocate"
  BY <1>1, <1>4 DEF EmptyTables
<1>5. CASE UNCHANGED <<blockTable, status, call>>
  BY <1>5 DEF EmptyTables
<1>6. CASE BlockManagerStep
  <2>1. status' = status BY <1>6 DEF BlockManagerStep
  <2>2. /\ call.op \in {"allocate", "deallocate"} => call.seq \in Requests
        /\ call.op = "allocate" => status[call.seq] \in {"waiting", "running"}
    BY <1>3 DEF QueueInv, ProgressTypes, CallOutsideBatch, Live
  <2> DEFINE r == call.seq
  <2>3. CASE TakeCached \/ TakeFresh
    <3>1. PICK b : /\ blockTable' = [blockTable EXCEPT ![r] = Append(@, b)]
                   /\ call' = call /\ call.op = "allocate"
      BY <2>3 DEF TakeCached, TakeFresh
    <3>2. r \in Requests /\ status[r] \in {"waiting", "running"} BY <2>2, <3>1
    <3>3. Append(blockTable[r], b) \in Seq(Range(Append(blockTable[r], b)))
      BY <1>1, <3>2, TableOneMore
    <3> HIDE DEF r
    <3>4. \A q \in Requests : blockTable'[q] =
            IF q = r THEN Append(blockTable[r], b) ELSE blockTable[q]
      BY <1>1, <3>1, <3>2
    <3>5. blockTable' = [q \in Requests |-> blockTable'[q]] BY <1>1, <3>1
    <3>6. \A q \in Requests : blockTable'[q] \in Seq(Range(blockTable'[q]))
      BY <1>1, <3>3, <3>4
    <3>7. \A q \in Requests : status[q] \in {"new", "rejected"} => blockTable'[q] = << >>
      BY <1>1, <3>2, <3>4
    <3> QED BY <1>1, <2>1, <3>1, <3>5, <3>6, <3>7 DEF EmptyTables
  <2>4. CASE AllocateReturn \/ DeallocateReturn
    <3>1. call' = NoCall /\ blockTable' = blockTable
      BY <2>4 DEF AllocateReturn, DeallocateReturn
    <3> QED BY <1>1, <1>3, <1>4, <2>1, <3>1
  <2>5. CASE ReleaseBlock
    <3>1. /\ call.op = "deallocate" /\ blockTable[r] # << >> /\ call' = call
          /\ blockTable' = [blockTable EXCEPT ![r] = SubSeq(@, 1, Len(blockTable[r]) - 1)]
      BY <2>5 DEF ReleaseBlock
    <3>2. r \in Requests /\ status[r] \notin {"new", "rejected"} BY <1>1, <2>2, <3>1
    <3> DEFINE t == SubSeq(blockTable[r], 1, Len(blockTable[r]) - 1)
    <3>3. t \in Seq(Range(t))
      BY <1>1, <3>1, <3>2, TableOneLess
    <3> HIDE DEF t, r
    <3>4. \A q \in Requests : blockTable'[q] = IF q = r THEN t ELSE blockTable[q]
      BY <1>1, <3>1, <3>2 DEF t
    <3>5. blockTable' = [q \in Requests |-> blockTable'[q]] BY <1>1, <3>1
    <3>6. \A q \in Requests : blockTable'[q] \in Seq(Range(blockTable'[q]))
      BY <1>1, <3>3, <3>4
    <3>7. \A q \in Requests : status[q] \in {"new", "rejected"} => blockTable'[q] = << >>
      BY <1>1, <3>2, <3>4
    <3> QED BY <1>1, <2>1, <3>1, <3>5, <3>6, <3>7 DEF EmptyTables
  <2> QED BY <1>6, <2>3, <2>4, <2>5 DEF BlockManagerStep, CallStep
<1>7. CASE \E r \in Requests : AddRequest(r)
  <2>1. PICK r \in Requests : AddRequest(r) BY <1>7
  <2>2. status[r] = "new" /\ \A q \in Requests : q # r => status'[q] = status[q]
    BY <1>2, <2>1 DEF AddRequest, Add
  <2>3. Idle /\ UNCHANGED <<blockTable, call>>
    BY <2>1 DEF AddRequest, Add, At, bmVars
  <2> QED BY <1>1, <1>3, <1>4, <2>2, <2>3
<1>8. CASE ScheduleStep
  <2>1. CASE SwapInNext
    <3>1. PICK k \in 1 .. Len(waiting) : SwapIn(waiting[k]) BY <2>1 DEF SwapInNext
    <3> DEFINE r == waiting[k]
    <3>2. /\ r \in Requests /\ blockTable' = [blockTable EXCEPT ![r] = << >>]
          /\ status' = [status EXCEPT ![r] = "running"] /\ call'.seq = r
      BY <3>1 DEF SwapIn, AllocateFreshBlocks, CallAllocate, QueueInv, QueueTypes
    <3> HIDE DEF r
    <3>3. << >> \in Seq(Range(<< >>)) OBVIOUS
    <3>4. /\ \A q \in Requests : blockTable'[q] = IF q = r THEN << >> ELSE blockTable[q]
          /\ blockTable' = [q \in Requests |-> blockTable'[q]]
      BY <1>1, <3>2
    <3>5. /\ \A q \in Requests : status'[q] = IF q = r THEN "running" ELSE status[q]
          /\ status'[call'.seq] # "waiting"
      BY <1>2, <3>2
    <3>6. \A q \in Requests : blockTable'[q] \in Seq(Range(blockTable'[q]))
      BY <1>1, <3>3, <3>4
    <3> QED BY <1>1, <3>4, <3>5, <3>6 DEF EmptyTables
  <2>2. CASE PrefillAllocate
    <3>1. PICK r \in Requests : \E n \in 0 .. NumBlocks(r) - 1 : Allocate(r, n)
      BY <2>2 DEF PrefillAllocate
    <3>2. UNCHANGED <<blockTable, status>> /\ call'.target = NumBlocks(r)
      BY <2>2, <3>1 DEF PrefillAllocate, Allocate, CallAllocate
    <3>3. 0 .. 0 - 1 = {} OBVIOUS
    <3>4. NumBlocks(r) # 0 BY <3>1, <3>3
    <3> QED BY <1>1, <3>2, <3>4 DEF EmptyTables
  <2>3. CASE PrefillSchedule
    <3>1. PICK r \in Requests :
            status' = [status EXCEPT ![r] = "running"] \/ status' = status
      BY <2>3, PrefillScheduleEffect
    <3>2. Idle /\ UNCHANGED <<blockTable, call>>
      BY <2>3 DEF PrefillSchedule, At, bmVars
    <3>3. \A q \in Requests :
            status'[q] \in {"new", "rejected"} => status[q] \in {"new", "rejected"}
      BY <1>2, <3>1
    <3> QED BY <1>1, <1>3, <1>4, <3>2, <3>3
  <2>4. CASE DecodeAdmit
    <3> DEFINE r == Head(running)
    <3>1. /\ Idle /\ call' = call /\ status' = status /\ running # << >> /\ MayAppend(r)
      BY <2>4 DEF DecodeAdmit, At, MoreDecode
    <3>2. r \in Requests /\ status[r] = "running"
      BY <3>1, InQueue DEF QueueInv, QueueTypes, QueueOfStatus, Runs
    <3> HIDE DEF r
    <3>3. CASE NeedsBlock(r)
      <4>1. PICK b : blockTable' = [blockTable EXCEPT ![r] = Append(@, b)]
        BY <3>1, <3>3 DEF MayAppend
      <4>2. Append(blockTable[r], b) \in Seq(Range(Append(blockTable[r], b)))
        BY <1>1, <3>2, TableOneMore
      <4>3. \A q \in Requests : blockTable'[q] =
              IF q = r THEN Append(blockTable[r], b) ELSE blockTable[q]
        BY <1>1, <3>2, <4>1
      <4>4. blockTable' = [q \in Requests |-> blockTable'[q]] BY <1>1, <4>1
      <4>5. \A q \in Requests : blockTable'[q] \in Seq(Range(blockTable'[q]))
        BY <1>1, <4>2, <4>3
      <4>6. \A q \in Requests : status[q] \in {"new", "rejected"} => blockTable'[q] = << >>
        BY <1>1, <3>2, <4>3
      <4> QED BY <1>3, <3>1, <4>4, <4>5, <4>6 DEF EmptyTables
    <3>4. CASE ~NeedsBlock(r)
      BY <1>5, <3>1, <3>4 DEF MayAppend
    <3> QED BY <3>3, <3>4
  <2>5. CASE DecodePreemptLast \/ DecodePreemptSelf(AfterDecode)
    <3>1. PICK r : /\ r \in Requests /\ Contains(running, r) /\ Preempt(r)
                   /\ blockTable' = blockTable
      <4>1. CASE DecodePreemptLast
        <5>1. running # << >> /\ Preempt(Last(running)) /\ blockTable' = blockTable
          BY <4>1 DEF DecodePreemptLast, NeedsVictim, MoreDecode
        <5> QED BY <5>1, PoppedLast DEF QueueInv, QueueTypes, NoDuplicates
      <4>2. CASE DecodePreemptSelf(AfterDecode)
        BY <4>2, OnlyOneRuns DEF DecodePreemptSelf
      <4> QED BY <2>5, <4>1, <4>2
    <3>2. status' = [status EXCEPT ![r] = "waiting"] /\ call'.op = "deallocate"
      BY <3>1 DEF Preempt, Deallocate
    <3>3. \A q \in Requests :
            status'[q] \in {"new", "rejected"} => status[q] \in {"new", "rejected"}
      BY <1>2, <3>2
    <3> QED BY <1>1, <1>4, <3>1, <3>2, <3>3
  <2>6. CASE DecodeAbort(AfterDecode)
    <3>1. /\ Idle /\ blockTable' = blockTable /\ status' = [status EXCEPT ![running[1]] = "aborted"]
          /\ call' = call \/ call' = [op |-> "deallocate", seq |-> running[1]]
      BY <2>6 DEF DecodeAbort, NeedsVictim, At, Abort, Deallocate
    <3>2. \A q \in Requests :
            status'[q] \in {"new", "rejected"} => status[q] \in {"new", "rejected"}
      BY <1>2, <3>1
    <3> QED BY <1>1, <1>3, <1>4, <3>1, <3>2
  <2>7. CASE SwapInDone(AfterSwapIns) \/ PrefillDone(AfterPrefill) \/ DecodeDone(AfterDecode)
    BY <1>5, <2>7 DEF SwapInDone, PrefillDone, DecodeDone, bmVars
  <2> QED BY <1>8, <2>1, <2>2, <2>3, <2>4, <2>5, <2>6, <2>7 DEF ScheduleStep
<1>9. CASE BatchStep
  <2>1. PICK r \in Requests :
          \/ UNCHANGED <<status, call>>
          \/ /\ \E s \in {"finished", "aborted"} : status' = [status EXCEPT ![r] = s]
             /\ call' = [op |-> "deallocate", seq |-> r] \/ call' = call
    BY <1>9, BatchStepEffect
  <2>2. Idle /\ blockTable' = blockTable BY <1>9, BatchStepEffect
  <2>3. call'.op # "allocate" BY <1>3, <2>1, <2>2
  <2>4. \A q \in Requests : status'[q] \in {"new", "rejected"} => status[q] \in {"new", "rejected"}
    BY <1>2, <2>1
  <2> QED BY <1>1, <1>4, <2>2, <2>3, <2>4
<1>10. CASE \/ StartStep \/ CopyOut \/ CopyIn \/ DrainAborts \/ RunPrefill
            \/ RunDecode \/ EndBatch \/ UNCHANGED vars
  BY <1>5, <1>10 DEF StartStep, CopyOut, CopyIn, DrainAborts, RunPrefill,
     RunDecode, Run, EndBatch, vars, requestVars, bmVars
<1> QED BY <1>6, <1>7, <1>8, <1>9, <1>10 DEF Next, EngineStep

\* What counts is who of the queue holds blocks.
LEMMA SameHolders ==
  ASSUME NEW H, NEW G, NEW R, NEW s \in Seq(R), ComeFirst(H, s),
         \A r : Contains(s, r) => (r \in H <=> r \in G)
  PROVE  ComeFirst(G, s)
<1>1. \A i \in 1 .. Len(s) : s[i] \in H <=> s[i] \in G BY InQueue
<1>2. ASSUME NEW j \in 1 .. Len(s), NEW i \in 1 .. j, s[j] \in G PROVE s[i] \in G
  <2>1. i \in 1 .. Len(s) OBVIOUS
  <2> QED BY <1>1, <1>2, <2>1 DEF ComeFirst
<1> QED BY <1>2 DEF ComeFirst

\* The block manager gives blocks to, or takes them from, the request it is called for.
LEMMA CallStepHolders ==
  ASSUME QueueInv, EmptyTables, BlockManagerStep, NEW r \in Requests, status[r] = "waiting"
  PROVE  Has(r)' <=> Has(r)
<1>1. NoCall.op = "none" BY DEF NoCall
<1>2. CASE call.seq # r
  <2>1. blockTable'[r] = blockTable[r]
    BY <1>2 DEF BlockManagerStep, CallStep, TakeCached, TakeFresh, AllocateReturn, ReleaseBlock,
       DeallocateReturn, EmptyTables
  <2>2. call' = call \/ call' = NoCall
    BY DEF BlockManagerStep, CallStep, TakeCached, TakeFresh, AllocateReturn, ReleaseBlock,
       DeallocateReturn
  <2> QED BY <1>1, <1>2, <2>1, <2>2 DEF Has
<1>3. CASE call.seq = r
  <2>1. CASE TakeCached \/ TakeFresh
    <3>1. call' = call /\ call.op = "allocate" BY <2>1 DEF TakeCached, TakeFresh
    <3> QED BY <1>3, <3>1 DEF Has
  <2>2. CASE AllocateReturn
    <3>1. /\ call.op = "allocate" /\ Len(blockTable[r]) = call.target /\ call' = NoCall
          /\ blockTable' = blockTable
      BY <1>3, <2>2 DEF AllocateReturn
    <3>2. call.target # 0 BY <1>3, <3>1 DEF EmptyTables
    <3>3. blockTable[r] # << >>
      <4>1. Len(<< >>) = 0 OBVIOUS
      <4> QED BY <3>1, <3>2, <4>1
    <3> QED BY <1>1, <1>3, <3>1, <3>3 DEF Has
  <2>3. CASE ReleaseBlock
    <3>1. call' = call /\ call.op = "deallocate" BY <2>3 DEF ReleaseBlock
    <3> QED BY <1>3, <3>1 DEF Has
  <2>4. CASE DeallocateReturn
    <3>1. call.op = "deallocate" /\ blockTable[r] = << >> /\ call' = NoCall
          /\ blockTable' = blockTable
      BY <1>3, <2>4 DEF DeallocateReturn
    <3> QED BY <1>1, <1>3, <3>1 DEF Has
  <2> QED BY <2>1, <2>2, <2>3, <2>4 DEF BlockManagerStep, CallStep
<1> QED BY <1>2, <1>3

\* Partially prefilled requests stay at the head of the queue, and are never left
\* there by a step that goes on to decode.
LEMMA HoldersStep ==
  ASSUME QueueInv, QueueInv', Budget, EmptyTables, Holders, [Next]_vars
  PROVE  Holders'
<1> SUFFICES ASSUME stepMode = "separate"
             PROVE  /\ ComeFirst(Holding', waiting')
                    /\ \A r \in Requests : Contains(prefillBatch', r) => blockTable'[r] # << >>
                    /\ pc' = "decode" => \A r \in Requests : Contains(waiting', r) => ~Has(r)'
  <2>1. stepMode' = stepMode BY SameStepMode
  <2> QED BY <2>1 DEF Holders, ComeFirst
<1>1. /\ ComeFirst(Holding, waiting)
      /\ \A r \in Requests : Contains(prefillBatch, r) => blockTable[r] # << >>
      /\ pc = "decode" => \A r \in Requests : Contains(waiting, r) => ~Has(r)
  BY DEF Holders
<1>2. /\ waiting \in Seq(Requests) /\ IsInjective(waiting)
      /\ waiting' \in Seq(Requests) /\ IsInjective(waiting')
      /\ prefillBatch \in Seq(Requests) /\ running \in Seq(Requests)
      /\ IsInjective(prefillBatch) /\ IsInjective(running)
  BY DEF QueueInv, QueueTypes, NoDuplicates
<1>3. /\ status \in [Requests ->
           {"new", "rejected", "waiting", "running", "finished", "aborted"}]
      /\ \A r \in Requests : Contains(waiting, r) <=> status[r] = "waiting"
      /\ \A r \in Requests : Contains(waiting', r) <=> status'[r] = "waiting"
  BY DEF QueueInv, ProgressTypes, QueueOfStatus
<1>4. NoCall.op = "none" /\ (Idle => call.op = "none") BY DEF NoCall, Idle
<1>5. CASE /\ \A r \in Requests : Contains(waiting', r) => (Has(r)' <=> Has(r))
           /\ waiting' = waiting \/ \E e : waiting' = RemoveFirst(waiting, e)
           /\ \A r \in Requests : Contains(prefillBatch', r) =>
                Contains(prefillBatch, r) /\ blockTable'[r] = blockTable[r]
           /\ pc' = pc \/ pc' # "decode"
  <2>1. ComeFirst(Holding, waiting') BY <1>1, <1>2, <1>5, FirstWithoutFirst
  <2>2. \A r : Contains(waiting', r) => r \in Requests /\ Contains(waiting, r)
    <3>1. \A e : \A r : Contains(RemoveFirst(waiting, e), r) => Contains(waiting, r)
      BY <1>2, FirstRemoved
    <3>2. \A r : Contains(waiting', r) => Contains(waiting, r) BY <1>5, <3>1
    <3> QED BY <1>2, <3>2, InQueue
  <2>3. \A r : Contains(waiting', r) => (r \in Holding <=> r \in Holding')
    BY <1>5, <2>2 DEF Holding
  <2>4. ComeFirst(Holding', waiting') BY <1>2, <2>1, <2>3, SameHolders
  <2>5. \A r \in Requests : Contains(prefillBatch', r) => blockTable'[r] # << >>
    BY <1>1, <1>5
  <2>6. pc' = "decode" => \A r \in Requests : Contains(waiting', r) => ~Has(r)'
    BY <1>1, <1>5, <2>2
  <2> QED BY <2>4, <2>5, <2>6
<1>6. CASE /\ UNCHANGED <<blockTable, call, waiting, prefillBatch>>
           /\ pc' = pc \/ pc' # "decode"
  BY <1>5, <1>6 DEF Has
<1>7. CASE BlockManagerStep
  <2>1. UNCHANGED <<status, waiting, prefillBatch, pc>> BY <1>7 DEF BlockManagerStep, batchVars
  <2>2. \A r \in Requests : Contains(waiting', r) => (Has(r)' <=> Has(r))
    BY <1>3, <1>7, <2>1, CallStepHolders
  <2>3. \A r \in Requests : Contains(prefillBatch', r) => blockTable'[r] = blockTable[r]
    <3>1. TAKE r \in Requests
    <3>2. HAVE Contains(prefillBatch', r)
    <3>3. call.op # "none" => call.seq # r
      BY <2>1, <3>2 DEF QueueInv, CallOutsideBatch, InBatch
    <3> QED
      BY <1>7, <3>3 DEF BlockManagerStep, CallStep, TakeCached, TakeFresh, AllocateReturn,
         ReleaseBlock, DeallocateReturn, EmptyTables
  <2> QED BY <1>5, <2>1, <2>2, <2>3
<1>8. CASE \E r \in Requests : AddRequest(r)
  <2>1. PICK r \in Requests : AddRequest(r) BY <1>8
  <2>2. /\ status[r] = "new" /\ Idle /\ UNCHANGED <<blockTable, call, prefillBatch, pc>>
        /\ pc = "idle"
        /\ waiting' = waiting \/ waiting' = Append(waiting, r)
    BY <2>1 DEF AddRequest, Add, At, bmVars, batchVars
  <2>3. ~Has(r) BY <1>4, <2>2 DEF EmptyTables, Has
  <2>4. ComeFirst(Holding, waiting')
    BY <1>1, <1>2, <2>2, <2>3, FirstBeforeOther DEF Holding
  <2>5. Holding' = Holding BY <2>2 DEF Holding, Has
  <2> QED BY <1>1, <2>2, <2>4, <2>5
<1>9. CASE ScheduleStep
  <2>1. CASE SwapInNext
    <3>1. PICK k \in 1 .. Len(waiting) :
            SwapIn(waiting[k]) /\ waiting' = RemoveAt(waiting, k)
      BY <2>1 DEF SwapInNext
    <3>2. pc = "swapIns" /\ pc' = pc /\ prefillBatch' = prefillBatch /\ Idle
      BY <2>1 DEF SwapInNext, At, batchVars
    <3> DEFINE r == waiting[k]
    <3>3. r \in Requests /\ Contains(waiting, r) BY <1>2, InQueue
    <3>4. /\ blockTable' = [blockTable EXCEPT ![r] = << >>]
          /\ call'.op = "allocate" /\ call'.seq = r
      BY <3>1 DEF SwapIn, AllocateFreshBlocks, CallAllocate
    <3>5. \A q : Contains(waiting', q) <=> Contains(waiting, q) /\ q # r
      BY <1>2, <3>1, Removed
    <3> HIDE DEF r
    <3>6. \A q \in Requests : q # r => blockTable'[q] = blockTable[q]
      BY <3>3, <3>4 DEF EmptyTables
    <3>7. \A q \in Requests : Contains(waiting', q) => (Has(q)' <=> Has(q))
      BY <1>4, <3>2, <3>4, <3>5, <3>6 DEF Has
    <3>8. ComeFirst(Holding, waiting') BY <1>1, <1>2, <3>1, FirstWithoutOne
    <3>9. \A q : Contains(waiting', q) => (q \in Holding <=> q \in Holding')
      BY <1>2, <3>5, <3>7, InQueue DEF Holding
    <3>10. ComeFirst(Holding', waiting') BY <1>2, <3>8, <3>9, SameHolders
    <3>11. \A q \in Requests : ~Contains(prefillBatch', q)
      BY <3>2, EmptyQueue DEF QueueInv, BatchesInPhase
    <3> QED BY <3>2, <3>10, <3>11
  <2>2. CASE SwapInDone(AfterSwapIns)
    <3>1. pc' = "prefill" /\ UNCHANGED <<blockTable, call, waiting, prefillBatch>>
      BY <2>2 DEF SwapInDone, AfterSwapIns, bmVars, batchVars
    <3> QED BY <1>6, <3>1
  <2>3. CASE PrefillAllocate
    <3>1. PICK r \in Requests : Candidate(r) /\ \E n \in 0 .. NumBlocks(r) - 1 : Allocate(r, n)
      BY <2>3 DEF PrefillAllocate
    <3>2. /\ UNCHANGED <<blockTable, waiting, prefillBatch, pc>> /\ pc = "prefill" /\ Idle
          /\ call'.op = "allocate" /\ call'.seq = r
      BY <2>3, <3>1 DEF PrefillAllocate, At, Allocate, CallAllocate, batchVars
    <3>3. PICK k \in 1 .. Len(waiting) :
            waiting[k] = r /\ \A j \in 1 .. k - 1 : Contains(prefillBatch, waiting[j])
      BY <1>2, <3>1 DEF Candidate
    <3>4. \A j \in 1 .. k - 1 : waiting[j] \in Holding
      <4>1. TAKE j \in 1 .. k - 1
      <4>2. j \in 1 .. Len(waiting) /\ waiting[j] \in Requests BY <1>2
      <4> QED BY <1>1, <1>4, <3>2, <3>3, <4>2 DEF Holding, Has
    <3>5. Holding' = Holding \cup {r}
      BY <1>4, <3>2 DEF Holding, Has
    <3>6. ASSUME NEW j \in 1 .. Len(waiting), NEW i \in 1 .. j, waiting[j] \in Holding'
          PROVE  waiting[i] \in Holding'
      <4>1. i \in 1 .. Len(waiting) BY <1>2
      <4>2. CASE waiting[j] \in Holding
        BY <1>1, <3>5, <4>2 DEF ComeFirst
      <4>3. CASE waiting[j] = r
        <5>1. j = k BY <1>2, <3>3, <4>3 DEF IsInjective
        <5>2. i = k \/ i \in 1 .. k - 1 BY <5>1
        <5> QED BY <3>3, <3>4, <3>5, <5>2
      <4> QED BY <3>5, <3>6, <4>2, <4>3
    <3>7. ComeFirst(Holding', waiting') BY <3>2, <3>6 DEF ComeFirst
    <3> QED BY <1>1, <3>2, <3>7
  <2>4. CASE PrefillSchedule
    <3>1. PICK r \in Requests :
            /\ blockTable[r] # << >> /\ prefillBatch' = Append(prefillBatch, r)
            /\ waiting' = RemoveFirst(waiting, r) \/ waiting' = waiting
      BY <2>4, PrefillScheduleEffect
    <3>2. pc = "prefill" /\ UNCHANGED <<blockTable, call, pc>>
      BY <2>4 DEF PrefillSchedule, At, bmVars
    <3>3. \A q : Contains(prefillBatch', q) <=> Contains(prefillBatch, q) \/ q = r
      BY <1>2, <3>1, Appended
    <3>4. Holding' = Holding BY <3>2 DEF Holding, Has
    <3>5. ComeFirst(Holding', waiting')
      BY <1>1, <1>2, <3>1, <3>4, FirstWithoutFirst
    <3> QED BY <1>1, <3>1, <3>2, <3>3, <3>5
  <2>5. CASE PrefillDone(AfterPrefill)
    <3>1. /\ pc = "prefill" /\ Idle /\ pc' = AfterPrefill /\ prefillBatch' = prefillBatch
          /\ UNCHANGED <<blockTable, call, waiting>>
          /\ HasRoom => \A r \in Requests : Candidate(r) => PrefillBlocked(r)
      BY <2>5 DEF PrefillDone, At, Scheduled, bmVars
    <3>2. CASE prefillBatch # << >>
      BY <1>6, <3>1, <3>2 DEF AfterPrefill
    <3>3. CASE prefillBatch = << >>
      <4>1. Scheduled = << >> /\ Len(Scheduled) = 0
        BY <3>3 DEF Scheduled
      <4>2. numBatchTokens = 0
        <5>1. Costs(<< >>, numBatchTokens) BY <3>1, <4>1 DEF Budget
        <5> QED BY <5>1, NothingCosts DEF Costs
      <4>3. HasRoom
        BY <4>1, <4>2, SchedulerAssumption DEF HasRoom, Remaining, SchedulerAssumption
      <4>4. \A q : ~Contains(prefillBatch, q) BY <3>3, EmptyQueue
      <4>5. ASSUME NEW q \in Requests, Contains(waiting, q) PROVE ~Has(q)
        <5> SUFFICES ASSUME Has(q) PROVE FALSE
          OBVIOUS
        <5>1. PICK j \in 1 .. Len(waiting) : waiting[j] = q
          BY <1>2, <4>5 DEF Contains
        <5>2. 1 \in 1 .. j /\ 1 \in 1 .. Len(waiting) BY <1>2, <5>1
        <5> DEFINE w == waiting[1]
        <5>3. w \in Holding BY <1>1, <5>1, <5>2 DEF ComeFirst, Holding
        <5>4. w \in Requests /\ blockTable[w] # << >>
          BY <1>4, <3>1, <5>3 DEF Holding, Has
        <5>5. Candidate(w)
          <6>1. 1 \in DOMAIN waiting /\ \A i \in 1 .. 1 - 1 : FALSE BY <1>2, <5>2
          <6> QED BY <4>4, <6>1 DEF Candidate
        <5> HIDE DEF w
        <5>6. ~PrefillBlocked(w) BY <4>1, <5>4 DEF PrefillBlocked, LeftForNextStep
        <5> QED BY <3>1, <4>3, <5>4, <5>5, <5>6
      <4>6. \A q \in Requests : Has(q)' <=> Has(q) BY <3>1 DEF Has
      <4>7. Holding' = Holding BY <4>6 DEF Holding
      <4> QED BY <1>1, <3>1, <4>5, <4>6, <4>7
    <3> QED BY <3>2, <3>3
  <2>6. CASE DecodeAdmit
    <3> DEFINE r == Head(running)
    <3>1. /\ pc = "decode" /\ Idle /\ call' = call /\ running # << >> /\ MayAppend(r)
          /\ UNCHANGED <<waiting, prefillBatch, pc>>
      BY <2>6 DEF DecodeAdmit, At, MoreDecode
    <3>2. r \in Requests /\ status[r] = "running"
      BY <3>1, InQueue DEF QueueInv, QueueTypes, QueueOfStatus, Runs
    <3> HIDE DEF r
    <3>3. \A q \in Requests : q # r => blockTable'[q] = blockTable[q]
      BY <3>1, <3>2 DEF MayAppend, EmptyTables
    <3>4. ~Contains(waiting, r) BY <1>3, <3>2
    <3>5. \A q \in Requests : Contains(waiting', q) => (Has(q)' <=> Has(q))
      BY <3>1, <3>3, <3>4 DEF Has
    <3>6. \A q \in Requests : ~Contains(prefillBatch', q)
      BY <3>1, EmptyQueue DEF QueueInv, BatchesInPhase
    <3> QED BY <1>5, <3>1, <3>5, <3>6
  <2>7. CASE DecodePreemptLast \/ DecodePreemptSelf(AfterDecode)
    <3>1. PICK r : Preempt(r)
      BY <2>7 DEF DecodePreemptLast, DecodePreemptSelf
    <3>2. /\ pc = "decode" /\ Idle /\ UNCHANGED <<blockTable, prefillBatch>>
      BY <2>7 DEF DecodePreemptLast, DecodePreemptSelf, NeedsVictim, At, batchVars
    <3>3. /\ call' = [op |-> "deallocate", seq |-> r] /\ waiting' = <<r>> \o waiting
          /\ status' = [status EXCEPT ![r] = "waiting"]
      BY <3>1 DEF Preempt, Deallocate
    <3>4. \A q \in Requests : Contains(waiting', q) => Contains(waiting, q) \/ q = r
      BY <1>3, <3>3
    <3>5. \A q \in Requests : Contains(waiting', q) => ~Has(q)'
      BY <1>1, <1>4, <3>2, <3>3, <3>4 DEF Has
    <3>6. ASSUME NEW j \in 1 .. Len(waiting') PROVE waiting'[j] \notin Holding'
      BY <1>2, <3>5, InQueue DEF Holding
    <3>7. ComeFirst(Holding', waiting') BY <3>6 DEF ComeFirst
    <3> QED BY <1>1, <3>2, <3>5, <3>7
  <2>8. CASE DecodeAbort(AfterDecode)
    <3>1. Abort(running[1]) /\ Len(running) = 1
      BY <2>8 DEF DecodeAbort
    <3>2. /\ pc = "decode" /\ Idle /\ UNCHANGED <<blockTable, prefillBatch>> /\ pc' = "drain"
      BY <2>8 DEF DecodeAbort, NeedsVictim, At, batchVars, AfterDecode
    <3>3. /\ call' = call \/ call' = [op |-> "deallocate", seq |-> running[1]]
          /\ waiting' = RemoveFirst(waiting, running[1])
      BY <3>1 DEF Abort, Deallocate
    <3>4. running[1] \in Requests /\ Contains(running, running[1]) BY <3>1, OnlyOneRuns
    <3>5. ~Contains(waiting', running[1]) BY <1>2, <3>3, FirstRemoved
    <3>6. \A q \in Requests : Contains(waiting', q) => (Has(q)' <=> Has(q))
      BY <1>4, <3>2, <3>3, <3>5 DEF Has
    <3> QED BY <1>5, <3>2, <3>3, <3>6
  <2>9. CASE DecodeDone(AfterDecode)
    <3>1. /\ pc' \in {"drain", "crashed"}
          /\ UNCHANGED <<blockTable, call, waiting, prefillBatch>>
      BY <2>9 DEF DecodeDone, AfterDecode, bmVars, batchVars
    <3> QED BY <1>6, <3>1
  <2> QED BY <1>9, <2>1, <2>2, <2>3, <2>4, <2>5, <2>6, <2>7, <2>8, <2>9 DEF ScheduleStep
<1>10. CASE BatchStep
  <2>1. PICK r \in Requests :
          \/ UNCHANGED <<status, waiting, call>>
          \/ /\ \E s \in {"finished", "aborted"} : status' = [status EXCEPT ![r] = s]
             /\ waiting' = waiting \/ waiting' = RemoveFirst(waiting, r)
             /\ call' = [op |-> "deallocate", seq |-> r] \/ call' = call
    BY <1>10, BatchStepEffect
  <2>2. /\ Idle /\ UNCHANGED <<blockTable, pc>>
        /\ \/ prefillBatch' = prefillBatch
           \/ prefillBatch # << >> /\ prefillBatch' = Tail(prefillBatch)
    BY <1>10, BatchStepEffect
  <2>3. \A q \in Requests : Contains(waiting', q) => (Has(q)' <=> Has(q))
    <3>1. CASE UNCHANGED <<status, waiting, call>>
      BY <2>2, <3>1 DEF Has
    <3>2. CASE \E s \in {"finished", "aborted"} : status' = [status EXCEPT ![r] = s]
      <4>1. status'[r] # "waiting" BY <1>3, <3>2
      <4>2. ~Contains(waiting', r) BY <1>3, <4>1
      <4> QED BY <1>4, <2>1, <2>2, <4>2 DEF Has
    <3> QED BY <2>1, <3>1, <3>2
  <2>4. \A q : Contains(prefillBatch', q) => Contains(prefillBatch, q)
    BY <1>2, <2>2, Popped
  <2> QED BY <1>5, <2>1, <2>2, <2>3, <2>4
<1>11. CASE \/ StartStep \/ CopyOut \/ CopyIn \/ DrainAborts \/ RunPrefill
            \/ RunDecode \/ EndBatch \/ UNCHANGED vars
  BY <1>6, <1>11 DEF StartStep, CopyOut, CopyIn, DrainAborts, RunPrefill,
     RunDecode, Run, EndBatch, vars, requestVars, bmVars, batchVars
<1> QED BY <1>7, <1>8, <1>9, <1>10, <1>11 DEF Next, EngineStep

----------------------------------------------------------------------------
(***************************************************************************)
(* The theorems.                                                           *)
(***************************************************************************)

\* The invariant holds before anything has been scheduled.
LEMMA InitBatchInv == Init => BatchInv
<1> SUFFICES ASSUME Init PROVE BatchInv
  OBVIOUS
<1>1. QueueInv BY InitQueueInv
<1>2. NothingSwapped BY DEF Init, SchedulerInit, CpuInit, NothingSwapped
<1>3. /\ pc = "idle" /\ running = << >> /\ waiting = << >> /\ prefillBatch = << >>
      /\ decodeBatch = << >> /\ numBatchTokens = 0 /\ stepMode \in StepModes
      /\ blockTable = [r \in Requests |-> << >>] /\ isPrefill = [r \in Requests |-> TRUE]
      /\ call = NoCall
  BY DEF Init, SchedulerInit, BlockManagerInit
<1>4. BatchLengths
  BY <1>3, SchedulerAssumption DEF BatchLengths, SchedulerAssumption
<1>5. Budget BY <1>3 DEF Budget
<1>6. EmptyTables
  <2>1. << >> \in Seq(Range(<< >>)) OBVIOUS
  <2> QED BY <1>3, <2>1 DEF EmptyTables, NoCall
<1>7. Holders
  BY <1>3, EmptyQueue DEF Holders, ComeFirst
<1>8. DecodesSomething BY <1>3 DEF DecodesSomething
<1>9. PickledForPrefill BY <1>3 DEF PickledForPrefill
<1> QED BY <1>1, <1>2, <1>4, <1>5, <1>6, <1>7, <1>8, <1>9 DEF BatchInv

\* Every step keeps it.
LEMMA NextBatchInv == BatchInv /\ [Next]_vars => BatchInv'
BY NextQueueInv, NothingSwappedStep, BatchLengthsStep, BudgetStep, EmptyTablesStep, HoldersStep,
   DecodesSomethingStep, PickledStep DEF BatchInv

\* The invariant holds in every configuration.
THEOREM BatchInvariance == Spec => []BatchInv
<1>1. Init => BatchInv BY InitBatchInv
<1>2. BatchInv /\ [Next]_vars => BatchInv' BY NextBatchInv
<1> QED BY <1>1, <1>2, PTL DEF Spec

\* No batch exceeds max_num_seqs or max_num_batched_tokens, schedules a request
\* without tokens, or schedules one twice (scheduler.py:173).  The decode half of a
\* unified step has no limit of its own: it is bounded by what earlier batches let
\* run, unless swap-ins come on top.
THEOREM BatchesAreLimited ==
  ASSUME "unified" \in StepModes => ~KvSwapEnabled /\ MaxNumSeqs <= MaxNumBatchedTokens
  PROVE  Spec => []BatchWithinLimits
<1>1. BatchInv => BatchWithinLimits
  <2> SUFFICES ASSUME BatchInv, At("runPrefill")
               PROVE  /\ Len(prefillBatch) <= MaxNumSeqs /\ Len(decodeBatch) <= MaxNumSeqs
                      /\ Cardinality(Positions(prefillBatch)) <= MaxNumBatchedTokens
                      /\ IsInjective(Batch)
                      /\ \A i \in DOMAIN Batch : numScheduled[Batch[i]] > 0
    BY DEF BatchWithinLimits
  <2>1. QueueInv /\ pc = "runPrefill" /\ MaxNumSeqs \in Nat
    BY SchedulerAssumption DEF BatchInv, At, SchedulerAssumption
  <2>2. BudgetFits
    <3>1. stepMode \in StepModes BY DEF BatchInv, BatchLengths
    <3> QED BY <3>1 DEF BudgetFits
  <2>3. Len(prefillBatch) <= MaxNumSeqs /\ Len(decodeBatch) <= MaxNumSeqs
    <3>1. CASE stepMode # "unified" BY <3>1 DEF BatchInv, BatchLengths
    <3>2. CASE stepMode = "unified"
      <4>1. Len(prefillBatch) <= MaxNumSeqs
        BY <2>1, <2>2, <3>2 DEF BatchInv, BatchLengths, BudgetFits
      <4>2. decodeBatch = << >> BY <2>1, <3>2 DEF QueueInv, BatchesInPhase
      <4>3. Len(decodeBatch) = 0 BY <4>2
      <4> QED BY <2>1, <4>1, <4>3
    <3> QED BY <3>1, <3>2
  <2>4. Cardinality(Positions(prefillBatch)) <= MaxNumBatchedTokens
    BY <2>1, <2>2 DEF BatchInv, Budget
  <2>5. /\ prefillBatch \in Seq(Requests) /\ decodeBatch \in Seq(Requests)
        /\ IsInjective(prefillBatch) /\ IsInjective(decodeBatch)
        /\ \A r \in Requests : ~(Contains(prefillBatch, r) /\ Contains(decodeBatch, r))
    BY <2>1 DEF QueueInv, QueueTypes, NoDuplicates
  <2>6. \A r : ~(Contains(prefillBatch, r) /\ Contains(decodeBatch, r))
    BY <2>5, InQueue
  <2>7. /\ Batch \in Seq(Requests) /\ IsInjective(Batch)
        /\ \A r : Contains(Batch, r) <=> Contains(prefillBatch, r) \/ Contains(decodeBatch, r)
    BY <2>5, <2>6, Joined DEF Batch
  <2>8. \A i \in DOMAIN Batch : Batch[i] \in Requests /\ Contains(Batch, Batch[i])
    BY <2>7 DEF Contains
  <2>9. \A i \in DOMAIN Batch : numScheduled[Batch[i]] > 0
    BY <2>1, <2>7, <2>8 DEF QueueInv, ScheduledInBatch, InBatch
  <2> QED BY <2>3, <2>4, <2>7, <2>9
<1> QED BY <1>1, BatchInvariance, PTL

\* A request that holds blocks never waits behind one that holds none.
THEOREM HoldersComeFirst == Spec => []HoldersFirst
<1>1. BatchInv => HoldersFirst
  <2> SUFFICES ASSUME BatchInv, Idle, stepMode = "separate",
                      NEW j \in DOMAIN waiting, NEW i \in 1 .. j, blockTable[waiting[j]] # << >>
               PROVE  blockTable[waiting[i]] # << >>
    BY DEF HoldersFirst, At
  <2>1. waiting \in Seq(Requests) BY DEF BatchInv, QueueInv, QueueTypes
  <2>2. call.op = "none" BY DEF Idle, NoCall
  <2>3. j \in 1 .. Len(waiting) /\ waiting[j] \in Requests BY <2>1
  <2>4. waiting[j] \in Holding BY <2>2, <2>3 DEF Holding, Has
  <2>5. waiting[i] \in Holding BY <2>3, <2>4 DEF BatchInv, Holders, ComeFirst
  <2> QED BY <2>2, <2>5 DEF Holding, Has
<1> QED BY <1>1, BatchInvariance, PTL

\* Combined and unified steps never stop on "assert scheduled" (scheduler.py:271):
\* the decode loop is entered with something to decode, or need not find anything.
THEOREM MixedStepsNeverCrash ==
  ASSUME "separate" \notin StepModes
  PROVE  Spec => []NeverCrashes
<1>1. BatchInv => NeverCrashes
  BY DEF BatchInv, BatchLengths, DecodesSomething, NeverCrashes
<1> QED BY <1>1, BatchInvariance, PTL

\* Without swap a request of a prefill batch is pickled with all of its tokens, also
\* when it was decoding before it was preempted (sequence.py:95).
THEOREM PrefillsArePickledWhole ==
  ASSUME ~KvSwapEnabled
  PROVE  Spec => []PickledWhole
<1>1. BatchInv => PickledWhole
  <2> SUFFICES ASSUME BatchInv, stepMode # "unified", NEW i \in DOMAIN prefillBatch
               PROVE  isPrefill[prefillBatch[i]]
    BY DEF PickledWhole
  <2>1. prefillBatch \in Seq(Requests) BY DEF BatchInv, QueueInv, QueueTypes
  <2>2. prefillBatch[i] \in Requests /\ Contains(prefillBatch, prefillBatch[i])
    BY <2>1 DEF Contains
  <2> QED BY <2>2 DEF BatchInv, PickledForPrefill
<1> QED BY <1>1, BatchInvariance, PTL
==============================================================================
