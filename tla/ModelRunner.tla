----------------------------- MODULE ModelRunner -----------------------------
(***************************************************************************)
(* nanovllm/engine/model_runner.py: a runner loads its model, warms it up, *)
(* sizes the KV cache with what memory is left, captures CUDA graphs and   *)
(* then serves batches, eagerly or by replaying a graph over buffers that  *)
(* keep what earlier batches left in them.  With tensor parallelism every  *)
(* rank does so; they execute the same calls (TPChannel), here as one step.*)
(*                                                                         *)
(* The scheduler is external to this module: it holds the requests, gives  *)
(* them blocks, maybe shared ones, and chooses the batches.  What a model  *)
(* computes for a row is a matter of ParallelLayers; here it is the row    *)
(* itself, and what matters is which rows it attends to.                   *)
(***************************************************************************)
EXTENDS InputMetadata, ParallelLayers

CONSTANTS
  Configs,            \* the models and settings a runner may be started with
  Requests,           \* the requests that are served
  Text,               \* of every request: its prompt and what will be sampled
  PromptLength,       \* of every request
  MemoryReadings,     \* what the CUDA memory statistics may say after the warmup
  MaxNumSeqs,         \* max_num_seqs
  MaxBatchedTokens,   \* max_num_batched_tokens
  MaxModelLen,        \* max_model_len
  SmallBatches,       \* [1, 2, 4, 8], the first entries of graph_bs
  BatchStride,        \* 16, the distance of the others
  MaxGraphBatch       \* 512

\* The layers assert that heads, intermediate size and vocabulary are divided evenly among
\* the ranks; the attention kernels need as many query heads for every key head.
ASSUME RunnerAssumption ==
  /\ IsFiniteSet(Requests) /\ "warmup" \notin Requests
  /\ PromptLength \in [Requests -> Nat \ {0}]
  /\ \A r \in Requests : Text[r] \in Seq(ToSet(Text[r])) /\ PromptLength[r] <= Len(Text[r])
  /\ {MaxNumSeqs, MaxBatchedTokens, MaxModelLen, BatchStride, MaxGraphBatch} \subseteq Nat \ {0}
  /\ IsFiniteSet(SmallBatches) /\ SmallBatches \subseteq Nat \ {0}
  /\ \A memory \in MemoryReadings :
       {memory.usable, memory.used, memory.peak, memory.current} \subseteq Nat
  /\ \A c \in Configs :
       /\ c.tp \in Nat \ {0} /\ c.enforceEager \in BOOLEAN /\ c.unified \in BOOLEAN
       /\ {c.hf.numLayers, c.hf.headDim, c.hf.numHeads, c.hf.numKvHeads, c.hf.intermediate,
           c.hf.vocab} \subseteq Nat \ {0}
       /\ c.hf.numKvHeads % c.tp = 0 /\ c.hf.numHeads % c.hf.numKvHeads = 0
       /\ c.hf.intermediate % c.tp = 0 /\ c.hf.vocab % c.tp = 0

VARIABLES
  config,     \* Config and hf_config: the element of Configs that runs
  phase,      \* how far __init__ has got, or "serve"
  params,     \* of every rank: its parameters
  unread,     \* of every rank: the checkpoint tensors still to be loaded
  kv,         \* of every rank: kv_cache, the row stored in every slot
  graphs,     \* the batch sizes captured so far
  graphVars,  \* the static buffers that the graphs read
  stage,      \* where run() is: "idle", "prepared", or "computed": the rows are, not yet
              \* the logits and samples
  batch,      \* the requests of the call
  context,    \* of every rank: what prepare_* computed and set_context has set
  attended,   \* of every rank: per input row, the row and the rows it attended to
  failed,     \* the error that has stopped the runner, or "no"
  numTokens,  \* of every request: how many of its tokens are known
  table,      \* of every request: its block table
  numCached,  \* of every request: positions whose KV is in the cache
  prefilled   \* the requests whose prompt is computed: they decode

runnerVars == <<config, phase, params, unread, graphs, graphVars, failed>>
callVars == <<stage, batch, context, attended>>
requestVars == <<numTokens, table, numCached, prefilled>>
vars == <<runnerVars, kv, callVars, requestVars>>

AllRanks == Ranks(config.tp)
OnEveryRank(value) == [rank \in AllRanks |-> value]
Dirty == [token |-> "torch.empty", pos |-> 0]
Stale == -2
NumBlocks == IF kv[0] = << >> THEN 0 ELSE Cardinality(DOMAIN kv[0]) \div BlockSize
Serving == phase = "serve" /\ stage = "idle" /\ failed = "no"

Init ==
  /\ config \in Configs
  /\ phase = "load"
  /\ params = OnEveryRank(EmptyParameters(config.hf, config.tp))
  /\ unread = OnEveryRank(DOMAIN Checkpoint(config.hf))
  /\ kv = OnEveryRank(<< >>)
  /\ graphs = {} /\ graphVars = << >>
  /\ stage = "idle" /\ batch = << >> /\ context = << >> /\ attended = << >>
  /\ failed = "no"
  /\ numTokens = PromptLength
  /\ table = [r \in Requests |-> << >>]
  /\ numCached = [r \in Requests |-> 0]
  /\ prefilled = {}

(***************************************************************************)
(* load_model: the files and the tensors in them come in any order.  No    *)
(* rank looks at another, so they may be taken one after the other.        *)
(***************************************************************************)
LoadWeight(rank, w) ==
  /\ phase = "load"
  /\ \A earlier \in 0 .. rank - 1 : unread[earlier] = {}
  /\ w \in unread[rank]
  /\ unread' = [unread EXCEPT ![rank] = @ \ {w}]
  /\ params' = [params EXCEPT ![rank][ParameterName(w)] =
                  WeightLoader(config.hf, config.tp, rank, @, w)]
  /\ UNCHANGED <<config, phase, graphs, graphVars, failed, kv, callVars, requestVars>>

LoadDone ==
  /\ phase = "load"
  /\ \A rank \in AllRanks : unread[rank] = {}
  /\ phase' = "warmup"
  /\ UNCHANGED <<config, params, unread, graphs, graphVars, failed, kv, callVars, requestVars>>

(***************************************************************************)
(* prepare_prefill and prepare_decode, on every rank: rank 0 has the       *)
(* batch itself, the others what they unpickled.                           *)
(***************************************************************************)
Received(rank, seqs) ==
  [k \in DOMAIN seqs |-> IF rank = 0 THEN seqs[k] ELSE Pickled(seqs[k])]

PrefillContext(rank, seqs) ==
  LET meta == BuildPrefillMetadata(Received(rank, seqs))
  IN  [isPrefill |-> TRUE, meta |-> meta,
       blockTables |-> IF meta.needBlockTables THEN BuildBlockTables(seqs) ELSE << >>]

DecodeContext(rank, seqs) ==
  [isPrefill |-> FALSE, meta |-> BuildDecodeMetadata(Received(rank, seqs)),
   blockTables |-> BuildBlockTables(seqs)]

Prepare(seqs, isPrefill) ==
  /\ batch' = seqs
  /\ context' = [rank \in AllRanks |-> IF isPrefill THEN PrefillContext(rank, seqs)
                                                    ELSE DecodeContext(rank, seqs)]
  /\ stage' = "prepared"
  /\ UNCHANGED <<runnerVars, kv, attended, requestVars>>

\* warmup_model: requests without blocks, as many and as long as may be.
WarmupLen == Min({MaxBatchedTokens, MaxModelLen})
WarmupSequence ==
  [request |-> "warmup", tokenIds |-> [i \in 1 .. WarmupLen |-> "zero"],
   numTokens |-> WarmupLen, lastToken |-> "zero", numCached |-> 0,
   numScheduled |-> WarmupLen, isPrefill |-> TRUE, blockTable |-> << >>,
   blockSize |-> BlockSize]

Warmup ==
  /\ phase = "warmup" /\ stage = "idle"
  /\ LET numSeqs == Min({MaxBatchedTokens \div WarmupLen, MaxNumSeqs})
     IN  Prepare([i \in 1 .. numSeqs |-> WarmupSequence], TRUE)

\* allocate_kv_cache.  All ranks read the same: equal devices, equally free.
BlockBytes(hf, tp) == 2 * hf.numLayers * BlockSize * (hf.numKvHeads \div tp) * hf.headDim

AllocateKvCache(memory) ==
  /\ phase = "allocate" /\ failed = "no"
  /\ LET budget == memory.usable - memory.used - memory.peak + memory.current
         numBlocks == budget \div BlockBytes(config.hf, config.tp)
     IN  IF numBlocks > 0
         THEN /\ kv' = OnEveryRank([slot \in 0 .. numBlocks * BlockSize - 1 |-> Dirty])
              /\ phase' = IF config.enforceEager THEN "serve" ELSE "capture"
              /\ UNCHANGED failed
         ELSE failed' = "no memory for a block" /\ UNCHANGED <<kv, phase>>
  /\ UNCHANGED <<config, params, unread, graphs, graphVars, callVars, requestVars>>

(***************************************************************************)
(* capture_cudagraph, from the largest batch size to the smallest.  Before *)
(* it captures, it runs the model on the zeros of the new buffers.         *)
(***************************************************************************)
MaxBs == Min({MaxNumSeqs, MaxGraphBatch})
GraphBs == SmallBatches \cup {bs \in BatchStride .. MaxBs : bs % BatchStride = 0}
MaxNumBlocks == BlocksFor(MaxModelLen, BlockSize)

ZeroBuffers ==
  [inputIds |-> [i \in 1 .. MaxBs |-> "zero"],
   positions |-> [i \in 1 .. MaxBs |-> 0],
   slotMapping |-> [i \in 1 .. MaxBs |-> 0],
   contextLens |-> [i \in 1 .. MaxBs |-> 0],
   blockTables |-> [i \in 1 .. MaxBs |-> [c \in 1 .. MaxNumBlocks |-> 0]]]

\* The model on the first bs rows of the buffers: what it stores, what it attends to.
Rows(bufs, bs) == InputRows(SubSeq(bufs.inputIds, 1, bs), SubSeq(bufs.positions, 1, bs))
GraphStores(cache, bufs, bs) == StoreKvCache(cache, Rows(bufs, bs), SubSeq(bufs.slotMapping, 1, bs))
GraphAttends(cache, bufs, bs) ==
  KvCacheAttention(SubSeq(bufs.contextLens, 1, bs), bufs.blockTables, cache)

CaptureGraph(bs) ==
  /\ phase = "capture"
  /\ bs \in GraphBs \ graphs
  /\ \A other \in GraphBs \ graphs : other <= bs
  /\ graphs' = graphs \cup {bs}
  /\ graphVars' = OnEveryRank(ZeroBuffers)
  /\ kv' = [rank \in AllRanks |-> GraphStores(kv[rank], ZeroBuffers, Min({bs, MaxBs}))]
  /\ phase' = IF graphs' = GraphBs THEN "serve" ELSE phase
  /\ UNCHANGED <<config, params, unread, failed, callVars, requestVars>>

(***************************************************************************)
(* run_model.                                                              *)
(***************************************************************************)
BatchSize == Len(batch)
IsPrefill == context[0].isPrefill
UseGraph == ~(IsPrefill \/ config.enforceEager \/ BatchSize > MaxGraphBatch)

\* A rank whose rows and positions differ in number stops in the model.
RowsMatch(rank) ==
  LET meta == context[rank].meta IN Len(meta.inputIds) = Len(meta.positions)

StoredByRun(rank) ==
  LET meta == context[rank].meta
  IN  IF kv[rank] = << >> THEN kv[rank]
      ELSE StoreKvCache(kv[rank], InputRows(meta.inputIds, meta.positions), meta.slotMapping)

\* Eager: keys and values are stored first, attention reads them from the cache.
RunEager ==
  /\ stage = "prepared" /\ failed = "no"
  /\ ~UseGraph
  /\ \A rank \in AllRanks : RowsMatch(rank)
  /\ kv' = [rank \in AllRanks |-> StoredByRun(rank)]
  /\ attended' = [rank \in AllRanks |->
       LET ctx == context[rank]
           rows == InputRows(ctx.meta.inputIds, ctx.meta.positions)
           read == IF ctx.isPrefill
                   THEN VarlenAttention(ctx.meta, rows, kv'[rank], ctx.blockTables)
                   ELSE KvCacheAttention(ctx.meta.contextLens, ctx.blockTables, kv'[rank])
       IN  [i \in DOMAIN rows |-> [row |-> rows[i], keys |-> read[i]]]]
  /\ stage' = "computed"
  /\ UNCHANGED <<runnerVars, batch, context, requestVars>>

\* Overwrites the first entries of a buffer.
Overwritten(buffer, new) == [i \in DOMAIN buffer |-> IF i \in DOMAIN new THEN new[i] ELSE buffer[i]]

\* The entries of ids, positions and tables behind the batch are those of earlier
\* batches.  The model only says so: what reads them is wrong.
LeftOver(buffer, stale) == [i \in DOMAIN buffer |-> stale]

\* Bug: the slots of earlier, larger batches stay in the buffer.
FilledKeepsSlots(bufs, ctx) ==
  [inputIds |-> Overwritten(LeftOver(bufs.inputIds, "stale"), ctx.meta.inputIds),
   positions |-> Overwritten(LeftOver(bufs.positions, Stale), ctx.meta.positions),
   slotMapping |-> Overwritten(bufs.slotMapping, ctx.meta.slotMapping),
   contextLens |-> Overwritten([i \in DOMAIN bufs.contextLens |-> 0], ctx.meta.contextLens),
   blockTables |-> [k \in DOMAIN bufs.blockTables |->
      Overwritten(LeftOver(bufs.blockTables[k], Stale),
                  IF k \in DOMAIN ctx.blockTables THEN ctx.blockTables[k] ELSE << >>)]]

\* The buffers with this batch in their first rows.
Filled(bufs, ctx) ==
  [inputIds |-> Overwritten(LeftOver(bufs.inputIds, "stale"), ctx.meta.inputIds),
   positions |-> Overwritten(LeftOver(bufs.positions, Stale), ctx.meta.positions),
   slotMapping |-> Overwritten([i \in DOMAIN bufs.slotMapping |-> Unused], ctx.meta.slotMapping),
   contextLens |-> Overwritten([i \in DOMAIN bufs.contextLens |-> 0], ctx.meta.contextLens),
   blockTables |-> [k \in DOMAIN bufs.blockTables |->
      Overwritten(LeftOver(bufs.blockTables[k], Stale),
                  IF k \in DOMAIN ctx.blockTables THEN ctx.blockTables[k] ELSE << >>)]]

TableWidth == Len(context[0].blockTables[1])
HasGraph == \E bs \in graphs : bs >= BatchSize
GraphFits == HasGraph /\ TableWidth <= MaxNumBlocks

ReplayGraph ==
  /\ stage = "prepared" /\ failed = "no"
  /\ UseGraph
  /\ GraphFits
  /\ LET bs == Min({Min({size \in graphs : size >= BatchSize}), MaxBs})
     IN  /\ graphVars' = [rank \in AllRanks |-> Filled(graphVars[rank], context[rank])]
         /\ kv' = [rank \in AllRanks |-> GraphStores(kv[rank], graphVars'[rank], bs)]
         /\ attended' = [rank \in AllRanks |->
              LET rows == Rows(graphVars'[rank], BatchSize)
                  read == GraphAttends(kv'[rank], graphVars'[rank], bs)
              IN  [i \in 1 .. BatchSize |-> [row |-> rows[i], keys |-> read[i]]]]
  /\ stage' = "computed"
  /\ UNCHANGED <<config, phase, params, unread, graphs, failed, batch, context, requestVars>>

\* What nothing in the engine catches.
RunFails ==
  /\ stage = "prepared" /\ failed = "no"
  /\ \/ /\ UseGraph
        /\ ~GraphFits
        /\ failed' = IF HasGraph THEN "block tables wider than the buffer"
                     ELSE "no graph is large enough"
     \/ /\ \E rank \in AllRanks : ~RowsMatch(rank)
        /\ failed' = "inputs of different lengths"
  /\ UNCHANGED <<config, phase, params, unread, graphs, graphVars, kv, callVars, requestVars>>

(***************************************************************************)
(* What a block holds when no request holds it is nobody's business here:  *)
(* hits on cached blocks that are free are a matter of Engine.  So the     *)
(* model forgets it, and takes for a mistake whatever reads it.            *)
(***************************************************************************)
Forgotten(cache, tables) ==
  [slot \in DOMAIN cache |->
     IF \E r \in Requests : Contains(tables[r], slot \div BlockSize) THEN cache[slot] ELSE Dirty]

(***************************************************************************)
(* The end of run(), and what Scheduler.postprocess makes of it: the       *)
(* context is reset, what was scheduled is cached, and a request whose     *)
(* last token was computed gets another, until its text is complete.       *)
(***************************************************************************)
InBatch == {batch[k].request : k \in DOMAIN batch} \cap Requests
ScheduledOf(r) == batch[CHOOSE k \in DOMAIN batch : batch[k].request = r].numScheduled

\* Bug: the context of the call is not reset.
DoneKeepsContext ==
  /\ stage' = "idle" /\ batch' = << >> /\ context' = context /\ attended' = << >>

Done == /\ stage' = "idle" /\ batch' = << >> /\ context' = << >> /\ attended' = << >>

RunReturns ==
  /\ stage = "computed"
  /\ Done
  /\ phase' = IF phase = "warmup" THEN "allocate" ELSE phase
  /\ LET cached(r) == numCached[r] + ScheduledOf(r)
         complete == {r \in InBatch : cached(r) = numTokens[r]}
         ended == {r \in complete : numTokens[r] = Len(Text[r])}
     IN  /\ numTokens' = [r \in Requests |-> CASE r \in ended -> PromptLength[r]
                                               [] r \in complete \ ended -> numTokens[r] + 1
                                               [] OTHER -> numTokens[r]]
         /\ numCached' = [r \in Requests |-> CASE r \in ended -> 0
                                               [] r \in InBatch \ ended -> cached(r)
                                               [] OTHER -> numCached[r]]
         /\ table' = [r \in Requests |-> IF r \in ended THEN << >> ELSE table[r]]
         /\ prefilled' = (prefilled \cup complete) \ ended
  /\ kv' = [rank \in AllRanks |-> Forgotten(kv[rank], table')]
  /\ UNCHANGED <<config, params, unread, graphs, graphVars, failed>>

\* Out of memory, with and without a graph, before the rows of the batch are computed or
\* after that, for logits or samples: what is in the cache and in the buffers stays there,
\* the context is reset, and the engine aborts the whole batch.
RunOutOfMemory ==
  /\ phase = "serve" /\ stage # "idle" /\ failed = "no"
  /\ Done
  /\ numTokens' = [r \in Requests |-> IF r \in InBatch THEN PromptLength[r] ELSE numTokens[r]]
  /\ numCached' = [r \in Requests |-> IF r \in InBatch THEN 0 ELSE numCached[r]]
  /\ table' = [r \in Requests |-> IF r \in InBatch THEN << >> ELSE table[r]]
  /\ prefilled' = prefilled \ InBatch
  /\ kv' = [rank \in AllRanks |-> Forgotten(kv[rank], table')]
  /\ UNCHANGED runnerVars

(***************************************************************************)
(* The scheduler and the block manager, as far as run() can tell.          *)
(***************************************************************************)
FreeBlocks == (0 .. NumBlocks - 1) \ UNION {ToSet(table[r]) : r \in Requests}
Taken(n, blocks) == CHOOSE taken \in [1 .. n -> blocks] : IsInjective(taken)

\* A request gets blocks for all its tokens; the first may be a cached one of another's.
Admit(r) ==
  /\ Serving
  /\ table[r] = << >>
  /\ LET needed == BlocksFor(numTokens[r], BlockSize)
         Shareable(o) == /\ o # r /\ numCached[o] >= BlockSize /\ numTokens[r] > BlockSize
                         /\ SubSeq(Text[o], 1, BlockSize) = SubSeq(Text[r], 1, BlockSize)
     IN  \/ /\ needed <= Cardinality(FreeBlocks)
            /\ table' = [table EXCEPT ![r] = Taken(needed, FreeBlocks)]
            /\ UNCHANGED numCached
         \/ \E o \in Requests :
              /\ Shareable(o)
              /\ needed - 1 <= Cardinality(FreeBlocks)
              /\ table' = [table EXCEPT ![r] = <<table[o][1]>> \o Taken(needed - 1, FreeBlocks)]
              /\ numCached' = [numCached EXCEPT ![r] = BlockSize]
  /\ UNCHANGED <<runnerVars, kv, callVars, numTokens, prefilled>>

Preempt(r) ==
  /\ Serving
  /\ table[r] # << >>
  /\ table' = [table EXCEPT ![r] = << >>]
  /\ numCached' = [numCached EXCEPT ![r] = 0]
  /\ prefilled' = prefilled \ {r}
  /\ kv' = [rank \in AllRanks |-> Forgotten(kv[rank], table')]
  /\ UNCHANGED <<runnerVars, callVars, numTokens>>

\* The block of the newest token is appended before the request is scheduled.
HasBlocks(r) == table[r] # << >> /\ Len(table[r]) = BlocksFor(numTokens[r], BlockSize)

AppendBlock(r) ==
  /\ Serving
  /\ r \in prefilled
  /\ ~HasBlocks(r)
  /\ FreeBlocks # {}
  /\ table' = [table EXCEPT ![r] = Append(@, Min(FreeBlocks))]
  /\ UNCHANGED <<runnerVars, kv, callVars, numTokens, numCached, prefilled>>

SequenceOf(r, numScheduled) ==
  [request |-> r, tokenIds |-> SubSeq(Text[r], 1, numTokens[r]), numTokens |-> numTokens[r],
   lastToken |-> Text[r][numTokens[r]], numCached |-> numCached[r],
   numScheduled |-> numScheduled, isPrefill |-> r \notin prefilled, blockTable |-> table[r],
   blockSize |-> BlockSize]

\* A batch in the order of the queue, which is any.
PrepareDecode(rs) ==
  /\ Serving
  /\ \A k \in DOMAIN rs : rs[k] \in prefilled /\ HasBlocks(rs[k])
  /\ Prepare([k \in DOMAIN rs |-> SequenceOf(rs[k], 1)], FALSE)

\* Chunks of prompts; in unified steps decoding requests too, one token each.
PreparePrefill(rs, chunks) ==
  /\ Serving
  /\ \A k \in DOMAIN rs :
       /\ HasBlocks(rs[k])
       /\ rs[k] \in prefilled => config.unified
       /\ chunks[k] \in 1 .. numTokens[rs[k]] - numCached[rs[k]]
  /\ Prepare([k \in DOMAIN rs |-> SequenceOf(rs[k], chunks[k])], TRUE)

\* max_num_seqs bounds a batch, max_num_batched_tokens the tokens of a prefill.
PrepareBatch ==
  \E n \in 1 .. Min({MaxNumSeqs, Cardinality(Requests)}) : \E rs \in [1 .. n -> Requests] :
    /\ IsInjective(rs)
    /\ \/ PrepareDecode(rs)
       \/ \E chunks \in [1 .. n -> 1 .. MaxBatchedTokens] :
            /\ Last(Cumulated(chunks)) <= MaxBatchedTokens
            /\ PreparePrefill(rs, chunks)

Next ==
  \/ \E rank \in AllRanks, w \in DOMAIN Checkpoint(config.hf) : LoadWeight(rank, w)
  \/ LoadDone
  \/ Warmup
  \/ \E memory \in MemoryReadings : AllocateKvCache(memory)
  \/ \E bs \in GraphBs : CaptureGraph(bs)
  \/ \E r \in Requests : Admit(r) \/ Preempt(r) \/ AppendBlock(r)
  \/ PrepareBatch
  \/ RunEager \/ ReplayGraph \/ RunFails \/ RunOutOfMemory \/ RunReturns

Spec == Init /\ [][Next]_vars

(***************************************************************************)
(* Properties.                                                             *)
(***************************************************************************)
\* Values have the right type: a slot of the cache holds a row, a context is
\* there exactly during a call, and a request with cached positions has blocks.
TypeOK ==
  /\ phase \in {"load", "warmup", "allocate", "capture", "serve"}
  /\ stage \in {"idle", "prepared", "computed"}
  /\ (stage = "idle") = (batch = << >>) /\ (batch = << >>) = (context = << >>)
  /\ graphs \subseteq GraphBs
  /\ \A rank \in AllRanks : \A slot \in DOMAIN kv[rank] : DOMAIN kv[rank][slot] = {"token", "pos"}
  /\ \A r \in Requests : /\ numCached[r] \in 0 .. numTokens[r]
                        /\ numTokens[r] \in PromptLength[r] .. Len(Text[r])
                        /\ numCached[r] > 0 => table[r] # << >>

RowsOf(tokenIds, n) == [i \in 1 .. n |-> [token |-> tokenIds[i], pos |-> i - 1]]

\* Every row of a batch attends, on every rank, to exactly the tokens of its own
\* request up to itself, in their positions: in the warmup, in prompts computed
\* at once, in chunks or after a prefix-cache hit, in decode with and without a
\* graph, and in the mixed batches of unified steps; and the rows that tokens are
\* sampled from are the last of every request (model_runner.py:run_model,
\* input_metadata.py, attention.py, embed_head.py).
AttendsOwnPrefix ==
  stage = "computed" =>
    /\ IsPrefill => \A k \in DOMAIN batch :
         attended[0][LastRows(context[0].meta)[k]].row.pos
           = batch[k].numCached + batch[k].numScheduled - 1
    /\ \A rank \in AllRanks :
      attended[rank] =
        FlattenSeq([k \in DOMAIN batch |->
          [i \in 1 .. batch[k].numScheduled |->
             LET own == RowsOf(batch[k].tokenIds, batch[k].numCached + i)
             IN  [row |-> Last(own), keys |-> own]]])

\* On every rank the cache holds what the scheduler takes to be cached, also during a
\* call: behind the table of a request stand the rows of its first num_cached_tokens
\* tokens, whatever was captured, replayed, aborted before or after it was replayed, or
\* shared in the meantime (model_runner.py:run_model, run).
KvHoldsPrefix ==
  \A rank \in AllRanks, r \in Requests :
    CachedRows(kv[rank], table[r], numCached[r]) = RowsOf(Text[r], numCached[r])

\* A call writes the cache in the slots of the positions it computes and nowhere
\* else: padded rows of a graph write nothing (model_runner.py:run_model).
WritesOnlyScheduled ==
  [][phase = "serve" /\ stage' = "computed" =>
       \A rank \in AllRanks : \A slot \in DOMAIN kv[rank] :
         kv'[rank][slot] # kv[rank][slot] =>
           \E k \in DOMAIN batch : \E i \in 1 .. batch[k].numScheduled :
             slot = SlotOf(batch[k].blockTable, batch[k].numCached + i - 1, BlockSize)]_kv

\* When every tensor has been loaded, in whatever order, the ranks together
\* compute the transformer of the checkpoint: every product once, every head with
\* its own keys, every logit in its place (linear.py, embed_head.py, loader.py,
\* qwen3.py, llama.py).
LoadedModelIsWhole == phase = "warmup" /\ stage = "idle" => IsWhole(params, config.hf, config.tp)

\* docs/tutorial/10_cuda_graphs.md:88: "Decode batches with size at most 512 should
\* replay a graph bucket greater than or equal to the actual batch size."
EveryDecodeReplays ==
  stage = "prepared" /\ UseGraph /\ BatchSize <= MaxGraphBatch => HasGraph

===============================================================================
