------------------------------- MODULE Engine -------------------------------
(***************************************************************************)
(* nanovllm/engine/llm_engine.py with the parts of model_runner.py it      *)
(* drives: one engine step chains the scheduler's loops (separate,         *)
(* combined or unified), executes the swap copies, runs the batches, and   *)
(* reports what ended.  Requests arrive between steps.                     *)
(*                                                                         *)
(* The content of a KV-cache block is the token prefix it was computed     *)
(* for: a block with content <<t1, ..., tn>> holds the keys and values of  *)
(* the last positions of that prefix, those that fall in its block.  Keys  *)
(* and values depend on the whole prefix, so this is what tells right      *)
(* content from wrong.  Content that is no prefix's is Garbage.            *)
(***************************************************************************)
EXTENDS Scheduler

CONSTANTS
  Prompts,    \* the prompts a request may have
  OomAllowed  \* may a forward pass run out of GPU memory?

ASSUME EngineAssumption ==
  /\ Prompts \subseteq Seq(Token) \ {<< >>}
  /\ OomAllowed \in BOOLEAN
  /\ IsFiniteSet(Requests)

VARIABLES
  gpuKv,     \* ModelRunner.kv_cache: content of every GPU block
  cpuKv,     \* ModelRunner.cpu_kv_cache
  reported   \* how often step() has returned the request in its outputs

kvVars == <<gpuKv, cpuKv>>
requestVars == <<tokenIds, blockTable, numCached, numScheduled, status, numPrompt, isPrefill>>
vars == <<requestVars, bmVars, swapVars, waiting, running, pendingAborts, batchVars, pc,
          kvVars, reported, stepMode>>

Garbage == << >>

Init ==
  /\ tokenIds \in [Requests -> Prompts]
  /\ blockTable = [r \in Requests |-> << >>]
  /\ numCached = [r \in Requests |-> 0]
  /\ numScheduled = [r \in Requests |-> 0]
  /\ BlockManagerInit
  /\ SchedulerInit
  /\ gpuKv = [b \in Blocks |-> Garbage]
  /\ cpuKv = [c \in CpuBlocks |-> Garbage]
  /\ reported = [r \in Requests |-> 0]
  /\ stepMode \in StepModes

AddRequest(r) ==
  /\ At("idle")
  /\ Add(r)
  /\ UNCHANGED <<kvVars, reported, stepMode>>

(***************************************************************************)
(* step(): which loop comes first and which comes next.                    *)
(***************************************************************************)
StartStep ==
  /\ At("idle")
  /\ ~IsFinished
  /\ pc' = "swapIns"
  /\ UNCHANGED <<requestVars, bmVars, swapVars, waiting, running, pendingAborts, batchVars,
                 kvVars, reported, stepMode>>

AfterSwapIns ==
  CASE stepMode = "separate" -> "prefill"
    [] stepMode = "combined" -> IF running # << >> THEN "decode" ELSE "prefill"
    [] stepMode = "unified"  -> "decode"

AfterPrefill ==
  IF stepMode = "separate" /\ prefillBatch = << >> THEN "decode" ELSE "drain"

AfterDecode == IF stepMode = "separate" THEN "drain" ELSE "prefill"

ScheduleStep ==
  /\ \/ SwapInNext
     \/ SwapInDone(AfterSwapIns)
     \/ PrefillAllocate
     \/ PrefillSchedule
     \/ PrefillDone(AfterPrefill)
     \/ DecodeAdmit
     \/ DecodePreemptLast
     \/ DecodeAbort(AfterDecode)
     \/ DecodePreemptSelf(AfterDecode)
     \/ DecodeDone(AfterDecode)
  /\ UNCHANGED <<kvVars, reported, stepMode>>

BlockManagerStep ==
  /\ CallStep
  /\ UNCHANGED <<status, numPrompt, isPrefill, swapVars, waiting, running, pendingAborts,
                 batchVars, pc, kvVars, reported, stepMode>>

(***************************************************************************)
(* _drain_swaps: every queued copy out, then every queued copy in, each a  *)
(* blocking call of the model runner; then drain_pending_aborts.           *)
(***************************************************************************)
Copied(from, fromIds, to, toIds) ==
  [b \in DOMAIN to |->
     IF Contains(toIds, b)
     THEN from[fromIds[CHOOSE i \in DOMAIN toIds : toIds[i] = b]]
     ELSE to[b]]

CopyOut ==
  /\ At("drain")
  /\ pendingOuts # << >>
  /\ LET copy == Head(pendingOuts)
     IN  cpuKv' = Copied(gpuKv, copy.gpu, cpuKv, copy.cpu)
  /\ pendingOuts' = Tail(pendingOuts)
  /\ UNCHANGED <<requestVars, bmVars, cpuFree, cpuTable, numSwapped, pendingIns, waiting,
                 running, pendingAborts, batchVars, pc, gpuKv, reported, stepMode>>

CopyIn ==
  /\ At("drain")
  /\ pendingOuts = << >>
  /\ pendingIns # << >>
  /\ LET copy == Head(pendingIns)
     IN  gpuKv' = Copied(cpuKv, copy.cpu, gpuKv, copy.gpu)
  /\ pendingIns' = Tail(pendingIns)
  /\ UNCHANGED <<requestVars, bmVars, cpuFree, cpuTable, numSwapped, pendingOuts, waiting,
                 running, pendingAborts, batchVars, pc, cpuKv, reported, stepMode>>

DrainAborts ==
  /\ At("drain")
  /\ pendingOuts = << >> /\ pendingIns = << >>
  /\ reported' = [r \in Requests |->
       reported[r] + Cardinality({i \in DOMAIN pendingAborts : pendingAborts[i] = r})]
  /\ pendingAborts' = << >>
  /\ pc' = "runPrefill"
  /\ UNCHANGED <<requestVars, bmVars, swapVars, waiting, running, batchVars, kvVars, stepMode>>

(***************************************************************************)
(* The forward pass of one request.  A batch that goes through the prefill *)
(* kernel computes the scheduled positions; the decode kernel computes the *)
(* last position and writes it at the end of the last block of the table   *)
(* (build_prefill_metadata, build_decode_metadata).                        *)
(***************************************************************************)
\* The first n positions of r are in the blocks where r looks for them.
PrefixIntact(r, n) ==
  \A i \in 1 .. BlocksFor(n) :
    LET kv == gpuKv[blockTable[r][i]]
        upTo == Min({n, i * BlockSize})
    IN  /\ Len(kv) \in upTo .. i * BlockSize
        /\ SubSeq(kv, 1, upTo) = SubSeq(tokenIds[r], 1, upTo)

InputsOk(r, prefillKernel) ==
  /\ NumBlocks(r) <= Len(blockTable[r])
  /\ IF prefillKernel THEN PrefixIntact(r, numCached[r])
     ELSE /\ Len(blockTable[r]) = NumBlocks(r)
          /\ PrefixIntact(r, NumTokens(r) - 1)

\* The blocks, by index in the table, that the pass writes for r.
Written(r, prefillKernel) ==
  IF prefillKernel
  THEN numCached[r] \div BlockSize + 1 .. BlocksFor(numCached[r] + numScheduled[r])
  ELSE {Len(blockTable[r])}

ContentOf(r, i, prefillKernel) ==
  IF InputsOk(r, prefillKernel)
  THEN SubSeq(tokenIds[r], 1, Min({numCached[r] + numScheduled[r], i * BlockSize}))
  ELSE Garbage

Forward(batch, prefillKernel) ==
  gpuKv' = [b \in Blocks |->
    LET writers == {w \in Range(batch) \X (1 .. NumKvBlocks) :
                      /\ w[2] \in Written(w[1], prefillKernel)
                      /\ w[2] <= Len(blockTable[w[1]])
                      /\ blockTable[w[1]][w[2]] = b}
    IN  IF writers = {} THEN gpuKv[b]
        ELSE LET w == CHOOSE w \in writers : TRUE
             IN  ContentOf(w[1], w[2], prefillKernel)]

Run(batch, prefillKernel, post, oom) ==
  /\ batch # << >>
  /\ \/ Forward(batch, prefillKernel) /\ pc' = post
     \/ OomAllowed /\ pc' = oom /\ UNCHANGED gpuKv
  /\ UNCHANGED <<requestVars, bmVars, swapVars, waiting, running, pendingAborts, batchVars,
                 cpuKv, reported, stepMode>>

RunPrefill == At("runPrefill") /\ Run(prefillBatch, TRUE, "postPrefill", "oomPrefill")
RunDecode == At("runDecode") /\ Run(decodeBatch, FALSE, "postDecode", "oomDecode")

\* There is no batch of this kind, or it has been dealt with to its last request.
EndBatch ==
  /\ Idle
  /\ \/ pc \in {"runPrefill", "postPrefill", "oomPrefill"} /\ prefillBatch = << >>
        /\ pc' = "runDecode"
     \/ pc \in {"runDecode", "postDecode", "oomDecode"} /\ decodeBatch = << >>
        /\ pc' = "idle"
  /\ UNCHANGED <<requestVars, bmVars, swapVars, waiting, running, pendingAborts, batchVars,
                 kvVars, reported, stepMode>>

(***************************************************************************)
(* postprocess and the report of what it finished, or abort_batch and the  *)
(* report of what it aborted: one request of the batch after the other.    *)
(***************************************************************************)
TakeFromBatch(prefill) ==
  /\ IF prefill THEN prefillBatch' = Tail(prefillBatch) /\ UNCHANGED decodeBatch
                ELSE decodeBatch' = Tail(decodeBatch) /\ UNCHANGED prefillBatch
  /\ UNCHANGED numBatchTokens

ReportDropped(r) == UNCHANGED reported   \* Bug: the output is dropped.

Report(r) == reported' = [reported EXCEPT ![r] = @ + 1]

PostprocessNext(prefill, batch) ==
  /\ batch # << >>
  /\ LET r == Head(batch) IN
       \/ prefill /\ PostprocessChunk(r) /\ UNCHANGED reported
       \/ /\ prefill => ~HasTokensLeft(r)
          /\ \E token \in Token :
               \/ PostprocessToken(r, token) /\ UNCHANGED reported
               \/ PostprocessLast(r, token) /\ Report(r)
  /\ TakeFromBatch(prefill)
  /\ UNCHANGED <<blockTable, poolVars, reqToBlockIds, numPrompt, isPrefill, swapVars, waiting,
                 pendingAborts, pc, kvVars, stepMode>>

AbortNext(prefill, batch) ==
  /\ batch # << >>
  /\ LET r == Head(batch) IN
       /\ Abort(r)
       /\ running' = RemoveFirst(running, r)
       /\ Report(r)
  /\ TakeFromBatch(prefill)
  /\ UNCHANGED <<tokenIds, blockTable, numCached, numScheduled, poolVars, cacheVars,
                 reqToBlockIds, numPrompt, isPrefill, swapVars, pc, kvVars, stepMode>>

BatchStep ==
  \/ At("postPrefill") /\ PostprocessNext(TRUE, prefillBatch)
  \/ At("postDecode") /\ PostprocessNext(FALSE, decodeBatch)
  \/ At("oomPrefill") /\ AbortNext(TRUE, prefillBatch)
  \/ At("oomDecode") /\ AbortNext(FALSE, decodeBatch)

----------------------------------------------------------------------------
EngineStep ==
  \/ StartStep \/ ScheduleStep \/ BlockManagerStep
  \/ CopyOut \/ CopyIn \/ DrainAborts
  \/ RunPrefill \/ RunDecode \/ EndBatch \/ BatchStep

Next == EngineStep \/ \E r \in Requests : AddRequest(r)

\* generate() calls step() for as long as a request is waiting or running.
Spec == Init /\ [][Next]_vars /\ WF_vars(EngineStep)

----------------------------------------------------------------------------
(***************************************************************************)
(* Properties.                                                             *)
(***************************************************************************)

Ended(r) == status[r] \in {"finished", "aborted"}
Batch == prefillBatch \o decodeBatch

TypeOK ==
  /\ tokenIds \in [Requests -> Seq(Token)]
  /\ blockTable \in [Requests -> Seq(Blocks)]
  /\ numCached \in [Requests -> Nat]
  /\ numScheduled \in [Requests -> Nat]
  /\ refCount \in [Blocks -> Nat]
  /\ status \in [Requests ->
       {"new", "rejected", "waiting", "running", "finished", "aborted"}]
  /\ waiting \in Seq(Requests) /\ running \in Seq(Requests)
  /\ prefillBatch \in Seq(Requests) /\ decodeBatch \in Seq(Requests)
  /\ pendingAborts \in Seq(Requests)
  /\ cpuFree \in Seq(CpuBlocks)
  /\ cpuTable \in [Requests -> Seq(CpuBlocks)]
  /\ gpuKv \in [Blocks -> Seq(Token)]
  /\ cpuKv \in [CpuBlocks -> Seq(Token)]
  /\ reported \in [Requests -> Nat]
  /\ pc \in {"idle", "swapIns", "prefill", "decode", "drain", "runPrefill", "postPrefill",
             "oomPrefill", "runDecode", "postDecode", "oomDecode", "crashed"}

\* What the forward pass reads for a request, prefix-cache hits and restored
\* blocks included, is the KV of that request's own prefix.
ReadsOwnPrefix ==
  /\ At("runPrefill") => \A i \in DOMAIN prefillBatch : InputsOk(prefillBatch[i], TRUE)
  /\ At("runDecode") => \A i \in DOMAIN decodeBatch : InputsOk(decodeBatch[i], FALSE)

\* An entry of the prefix-cache index leads to a block that really holds the KV
\* of the whole prefix the entry stands for, not just of its last block's tokens
\* (block_manager.py:42-46).
IndexHoldsPrefix == \A h \in DOMAIN hashToBlock : gpuKv[hashToBlock[h]] = h

\* No forward pass writes a block that another request holds.
WritesArePrivate ==
  LET Private(r, prefillKernel) ==
        \A i \in Written(r, prefillKernel) :
          /\ i <= Len(blockTable[r])
          /\ refCount[blockTable[r][i]] = 1
  IN  /\ At("runPrefill") => \A i \in DOMAIN prefillBatch : Private(prefillBatch[i], TRUE)
      /\ At("runDecode") => \A i \in DOMAIN decodeBatch : Private(decodeBatch[i], FALSE)

OccursOnce(r, queue) == Cardinality({i \in DOMAIN queue : queue[i] = r}) = 1

\* Between steps every live request is in exactly one queue, once, and in the
\* one its status names: no request is orphaned by an early return of the
\* decode loop (scheduler.py:253-257), duplicated, or left behind when it ends.
OneQueue ==
  At("idle") =>
    \A r \in Requests :
      /\ status[r] = "waiting" => OccursOnce(r, waiting)
      /\ status[r] = "running" => OccursOnce(r, running)
      /\ Contains(waiting, r) => status[r] = "waiting"
      /\ Contains(running, r) => status[r] = "running"

\* What a batch computes: of each of its requests, as many positions as scheduled.
Positions(batch) == UNION {{r} \X (1 .. numScheduled[r]) : r \in Range(batch)}

\* A batch exceeds neither limit, and no request is in it twice (scheduler.py:173).
BatchWithinLimits ==
  At("runPrefill") =>
    /\ Len(prefillBatch) <= MaxNumSeqs /\ Len(decodeBatch) <= MaxNumSeqs
    /\ Cardinality(Positions(prefillBatch)) <= MaxNumBatchedTokens
    /\ IsInjective(Batch)
    /\ \A i \in DOMAIN Batch : numScheduled[Batch[i]] > 0

\* When nothing is live the whole pool, GPU and CPU, is free again.
NoLeak ==
  At("idle") /\ IsFinished =>
    FreeCount = NumKvBlocks /\ Len(cpuFree) = NumCpuBlocks

\* Every CPU block is free or belongs to exactly one swapped-out request, which
\* is waiting and holds no GPU blocks (cpu_block_manager.py:7-11).
CpuBlocksExclusive ==
  /\ \A c \in CpuBlocks :
       Cardinality({i \in DOMAIN cpuFree : cpuFree[i] = c})
       + Cardinality({w \in Requests \X (1 .. NumCpuBlocks) :
            w[2] <= Len(cpuTable[w[1]]) /\ cpuTable[w[1]][w[2]] = c}) = 1
  /\ Idle => \A r \in Requests :
       cpuTable[r] # << >> => status[r] = "waiting" /\ blockTable[r] = << >>

\* The engine never stops on "assert scheduled" (scheduler.py:271).
NeverCrashes == pc # "crashed"

\* Between steps the requests reported to the caller are exactly those that
\* have ended: none is dropped silently (scheduler.py:26-28).
EndedIsReported ==
  At("idle") => \A r \in Requests : Ended(r) <=> reported[r] > 0

\* Partially prefilled requests are at the head of the queue: none holds blocks
\* while it waits behind a request that holds none and cannot get any.
HoldersFirst ==
  At("idle") /\ stepMode = "separate" =>
    \A j \in DOMAIN waiting : \A i \in 1 .. j :
      blockTable[waiting[j]] # << >> => blockTable[waiting[i]] # << >>

\* Every request that was accepted ends and is reported.
Served ==
  \A r \in Requests : status[r] = "waiting" ~> Ended(r) /\ reported[r] > 0

\* The engine, without swap, is one of the clients BlockClients describes, so
\* what is proved of every such client holds for the engine: no loop of the
\* scheduler calls the block manager out of turn.
clientStatus ==
  [r \in Requests |->
     IF status[r] = "running" THEN "running"
     ELSE IF Ended(r) THEN "finished" ELSE "waiting"]

BC == INSTANCE BlockClients WITH
  status <- clientStatus,
  MaxTokens <- MaxModelLen + MaxTokens

KeepsBlockProtocol == BC!Spec

\* The engine keeps the promises of Generation to its caller: preemption,
\* recomputation and swapping never lose, repeat or add a token of a request,
\* nor revive one that has ended (sequence.py:40, scheduler.py:453).
promptOf == [r \in Requests |-> SubSeq(tokenIds[r], 1, numPrompt[r])]
completionOf == [r \in Requests |-> SubSeq(tokenIds[r], numPrompt[r] + 1, NumTokens(r))]
outcomeOf ==
  [r \in Requests |-> IF status[r] \in {"waiting", "running"} THEN "accepted" ELSE status[r]]

Service == INSTANCE Generation WITH
  prompt <- promptOf, completion <- completionOf, outcome <- outcomeOf

KeepsPromises == Service!Spec

\* A request of a prefill batch is pickled for the worker ranks with all of its
\* tokens: its is_prefill is set, also after it was a decoding request before it
\* was preempted (sequence.py:95).  Unified batches break this: their decode turns
\* are pickled with the last token only.
PickledWhole ==
  At("runPrefill") /\ stepMode # "unified" =>
    \A i \in DOMAIN prefillBatch : isPrefill[prefillBatch[i]]

============================================================================
