# nano-vllm: TLA+ models of the engine

This directory models nano-vllm (`nanovllm/`) and the tools of its course
(`tools/`): how requests are admitted, scheduled, preempted, swapped and ended;
how the blocks of the paged KV cache are shared, indexed, evicted and written;
how tensor-parallel ranks are kept together; what a forward pass stores and
attends to, eagerly and under CUDA graphs; and how sharded weights are loaded.
TLC checks small instances; TLAPS proves the properties of the block manager,
of the scheduler and the engine, of the channel between ranks, of the runner
and of the course tools for every instance.

## The system

The engine is a single-threaded loop. `LLMEngine.generate` adds requests and
calls `step()` until none is waiting or running; a step asks the `Scheduler`
for batches, executes queued swap copies, runs each batch on the `ModelRunner`,
and commits or aborts it. The scheduler calls the `BlockManager` for GPU blocks
and the `CpuBlockManager` for swap space. With tensor parallelism, rank 0
repeats every runner call to worker processes through shared memory.

| Component | State | Operations | Hard behaviour |
| --- | --- | --- | --- |
| `BlockManager` | blocks with reference count and hash, LRU free list, used set, prefix-cache index, mirror of block tables | `can_allocate`, `allocate`, `allocate_fresh_blocks`, `deallocate`, `can_append`, `may_append`, `hash_blocks`, `track_request` | four records of ownership that must agree; blocks shared while requests write; free blocks that are still indexed; eviction against reuse |
| `Sequence` | tokens, block table, computed and scheduled counts, status, swap fields | `append_token`, `num_blocks`, `block`, pickling | what is computed lags what is sampled by one token |
| `CpuBlockManager` | free list of CPU blocks | `allocate`, `deallocate` | blocks are released when the copy in is queued, not when it is done |
| `Scheduler` | `waiting`, `running`, pending aborts and copies | `add`, three prefill loops, two decode loops, `preempt`, `abort`, swap-in, `postprocess` | early returns in the middle of a loop; victims chosen while others are half scheduled; head-of-line blocking by requests that hold blocks |
| `LLMEngine` | the scheduler, the outputs | `add_request`, three step modes | order of copies; out of memory in one batch of two; reports |
| `ModelRunner` | parameters, GPU and CPU KV caches, CUDA graphs and their buffers, context | `load_model`, `warmup_model`, `allocate_kv_cache`, `capture_cudagraph`, `run`, `swap_out`, `swap_in` | static graph buffers; padded rows; context that must not survive an error |
| `ModelRunner` across ranks | shared memory, one event per worker | `call`, `write_shm`, `read_shm`, `loop`, `exit` | a call channel without acknowledgement; collectives that every rank must enter |
| metadata builders, attention | the KV cache | `build_prefill_metadata`, `build_decode_metadata`, `build_block_tables`, `store_kvcache`, two kernels | slot arithmetic at block boundaries; three kinds of batch |
| layers, models, loader | parameters | `weight_loader`, `forward`, `load_model` | offsets of packed and sharded parameters; sums over ranks |
| course tools | source files, `.course_progress.json` | `run_milestone`, `course_status` | no locks; files are truncated before they are written |

What makes each correct: the block manager's records agree and the index only
promises what blocks hold; no write reaches a shared block; every forward pass
reads the KV of its own request's prefix; every live request is in exactly one
queue; batches keep their limits; every accepted request ends and is reported;
all blocks come back; every rank executes the same calls; what the ranks
compute together is what one device would; a milestone is recorded only when
its tests passed. `PROJECT.json` lists the hazards line by line.

## Modules

| Module | Models | Extends |
| --- | --- | --- |
| `Request` | `sequence.py` as far as KV bookkeeping reads it; `compute_hash` | |
| `BlockManager` | `block_manager.py` | `Request` |
| `BlockClients` | the block manager under the most general client that keeps the scheduler's calling protocol; the inductive invariant | `BlockManager` |
| `BlockClients_proofs` | lemmas and theorems about `BlockClients` | `BlockClients` |
| `CpuBlockManager` | `cpu_block_manager.py` | |
| `Scheduler` | `scheduler.py` | `BlockManager`, `CpuBlockManager` |
| `Generation` | what the engine promises a caller: the abstract specification | |
| `Engine` | `llm_engine.py`, with the swap copies and the KV content of forward passes | `Scheduler` |
| `EngineQueues_proofs` | queues, progress, reports, the refinement of `Generation`: every configuration | `Engine` |
| `EngineBatches_proofs` | limits and order of batches: every configuration | `EngineQueues_proofs` |
| `EngineBlocks_proofs` | without swap: the refinement of `BlockClients` and what follows from it, what blocks hold and forward passes read; with swap: who owns the blocks, and that a step finds something to do | `EngineBatches_proofs` |
| `TPChannel` | `model_runner.py` between processes: shared memory, events, collectives, start and exit | |
| `TPChannel_proofs` | the inductive invariant and the theorems about `TPChannel` | `TPChannel` |
| `InputMetadata` | `input_metadata.py`, pickling in `sequence.py`, `attention.py` | |
| `ParallelLayers` | `linear.py`, `embed_head.py`, `activation.py`, `layernorm.py`, `loader.py`, `qwen3.py`, `llama.py` | |
| `ModelRunner` | `model_runner.py` within a process: loading to serving | `InputMetadata`, `ParallelLayers` |
| `KernelLemmas` | what the inputs of a batch hold and the kernels make of them, for batches of any size; what the layers compute with loaded parameters, for models of any size | `InputMetadata`, `ParallelLayers` |
| `ModelRunner_proofs` | the inductive invariant and the theorems about `ModelRunner` | `ModelRunner`, `KernelLemmas` |
| `CourseTools` | `tools/course_lib.py`, `run_milestone.py`, `course_status.py` | |
| `CourseTools_proofs` | the inductive invariants and the theorems about the record and the sources of the course tools | `CourseTools` |
| `MCBlockClients`, `MCEngine`, `MCModelRunner`, `MCCourseTools` | values for TLC | |

### Scheduler and engine

**Time.** The engine has one thread, so atomicity is not what interleaves;
loops are. A loop of the source is one step per iteration. The loops of
`allocate` and `deallocate` are steps of the variable `call`, during which the
client takes no step, so invariants are checked in the middle of a call too.
The scheduler's loops and the engine's phases are values of `pc` (`swapIns`,
`prefill`, `decode`, `drain`, `runPrefill`, ...). Requests arrive only at
`pc = "idle"`, between steps, as `add_request` can only be called there.

**Data.** A chained hash is the token chain it was computed from: the hash is
taken to be injective, -1 is the empty chain. `Block.token_ids` is then the
last `BlockSize` tokens of the chain, and `can_allocate` still compares them.
The content of a KV block is the token prefix it was computed for, because keys
and values depend on the whole prefix; a forward pass that reads anything but
its own prefix writes `Garbage`. Block indices are 1-based. A request whose
`cpu_block_table` is not empty has `swap_state` "swapped": a table is never
swapped out empty. The sampled token is any token; `MaxTokens` bounds the
tokens sampled per request in `Scheduler` (it is `sampling_params.max_tokens`),
and the length of a request in `BlockClients`, where it is a bound of the model.

**Step modes.** `stepMode`, chosen once, is the order of the loops: separate
(swap-ins, prefill, decode only if no prefill was scheduled), combined
(swap-ins, decode if any is running, prefill), unified (swap-ins, decode,
prefill into one batch for the prefill kernel). `ChunkPrefillTokens = 0` is the
classic prefill loop (-1 in the configuration). The classic, chunked and
unified prefill loops share actions; they differ in `Scheduled`,
`LeftForNextStep` and `Chunk`.

### The channel between ranks

`TPChannel` gives every rank a `pc` and splits each call where another process
can look: the length in `buf[0:4]`, the data (`Torn` while it is written), one
event per worker; a worker reads the length, reads the data, clears the event,
executes. Data that is torn or longer than the length read may fail to unpickle
(the worker dies) or not. The collectives of a forward pass are queued on the
device: a rank enters one and goes on, so `entered` is the sequence of all a
rank has entered, and the i-th joins with the i-th of every other rank. Rank 0
waits in `tolist()` (`FetchTokens`) and at barriers. That wait is all that keeps
`write_shm` from overwriting an unread call, and `swap_out` and `swap_in` have
no collective. Hence the properties are stated under `Undisturbed`: no call
without collectives so far, and no out-of-memory error on a rank. The model has
both steps, and without that condition none of `SameCalls`, `CollectivesMatch`
and `AllReturn` holds.

### The runner within a process

`ModelRunner` goes from `torch.empty` parameters to serving: tensors of the
checkpoint are loaded in any order, the warmup batch runs without a cache, the
cache is sized from an arbitrary reading of the memory statistics, graphs are
captured from the largest to the smallest batch over one set of buffers, and
then batches of any composition that the scheduler may choose are prepared, run
eagerly or by replay, and committed or aborted: a pass of either kind may run out
of memory before or after its rows are stored (`prepare_*`, logits and sampler
allocate for a replayed graph too), and the blocks of its requests are given up
with whatever was stored. A row of input is
`[token, pos]`; the cache maps slots to rows; an attention kernel returns, for
every query, the rows it attended to. `AttendsOwnPrefix` compares that with the
definition, "the tokens of the request up to this one, at their positions", for
every kind of batch. The scheduler is external here: it admits requests, shares
a cached first block, preempts, and appends blocks, as `Engine` does in detail.

Abstractions: a block that no request holds is forgotten (`Dirty`), since hits
on free blocks are `Engine`'s; buffer entries behind a batch are marked stale,
so reading one is an error whatever it held; the ranks execute a call in one
step (`TPChannel` is about when that is justified); all ranks see the same
memory readings. A rank whose inputs differ in number, a batch without a graph
and a block table wider than the buffer end in `RunFails`.

`ParallelLayers` computes with terms instead of numbers: a weight is a sequence
of lines named by checkpoint tensor and row or column, a sum is a bag of terms.
`LoadedModelIsWhole` compares what the ranks compute together, attention, MLP,
embedding, logits and the residual stream, with the transformer on one device,
from the checkpoint. All decoder layers have the same parameters, so those of
any one are modelled.

### The course tools

A source file is a sequence of lines of the kinds the cleaning distinguishes
(marker, comment, raise, its argument, closing parenthesis, import, code). Two
tools and a student act at once; a tool may be interrupted between any two
steps, and every write truncates first. `damaged` records the files that a
tool left half written, found half written or empty, or wrote over another's
change; what the properties claim, they claim of the others, since nothing in the
tools prevents that. `CompleteWasTested` has no such exception. The tests of a milestone are external: they pass when the TODOs they
exercise work, and are atomic. The sources begin in the style that
`_remove_raises_for_todo` expects (`SourceAssumption`): the closing parenthesis of
a raise is on its own line, and a TODO that tests exercise has a raise where its
code is missing.

## Runs

`CHECK_DEADLOCK FALSE` stands where the system may stop: when every request has
ended, a runner has failed or has nothing to do, or every rank has exited.

| Run | Instance | Checks |
| --- | --- | --- |
| `block_clients` | 2 requests, 3 blocks, up to 5 tokens | `TypeOK`, `FreeUsedAgree`, `RefCountExact`, `IndexNotStale`, `PrefixSound`, `WritesArePrivate`, `AllocateNeverFails`, `MirrorInSync`, and the inductive invariant `IInv` |
| `engine_modes` | all three step modes, chunks of 2 in a budget of 3, 3 requests, 4 blocks, prefix cache, a prompt that is rejected for `max_model_len` alone | `TypeOK`, `ReadsOwnPrefix`, `IndexHoldsPrefix`, `WritesArePrivate`, `OneQueue`, `BatchWithinLimits`, `HoldersFirst`, `PickledWhole`, refinement `KeepsBlockProtocol` |
| `engine_served` | separate steps, swap with 3 CPU blocks, no prefix cache, 3 requests, 3 blocks, out of memory allowed, prompts that fill the pool, outgrow it or are rejected for its size alone | `NoLeak`, `NeverCrashes`, `EndedIsReported`, `CpuBlocksExclusive`, liveness `Served`, refinement `KeepsPromises` |
| `tp_channel` | 2 workers, 2 collectives in a forward pass, up to 2 calls and exit, `run` and `swap_in` | `TypeOK`, `SameCallsUndisturbed`, `WritesAlone`, `CollectivesMatch`, `ShmLifetime`, liveness `AllReturn` |
| `model_runner` | Qwen3 and Llama, 1 and 2 ranks, tied and untied embeddings, with and without biases, eager and graphs, unified or not; 2 requests that share a block, blocks of 2 | `TypeOK`, `AttendsOwnPrefix`, `KvHoldsPrefix`, `LoadedModelIsWhole`, `WritesOnlyScheduled` |
| `course_tools` | 2 tools, 2 milestones, 3 TODOs (one whose file is missing) and an unregistered id | `TypeOK`, `DoneIsImplemented`, `RecordKept`, `CleanedStaysDone`, `CompleteWasTested` |

**Engine instances.** Blocks have two tokens. Prompts share a first block,
differ in it, end on a block boundary and past one, so hits, misses, shared
tails and appended blocks all occur; pools are too small for all requests at
once, so eviction, blocking and preemption occur. Two requests are the least
that share a block, preempt each other and block each other; the third is a
victim or a candidate that is neither being scheduled nor scheduled already.
Three CPU blocks hold one swapped request and part of another. A token budget
that is no multiple of the chunk leaves a partial chunk.

**Channel.** Two workers are the least of which one is late while the other is
not; two calls the least of which the second overtakes the first; two
collectives the least of which one is not the last.

**Runner.** Two requests give mixed batches of a chunk and a decode, padded
graph batches (buckets of 2, batches of 1), and a shared first block. The first
request outgrows `max_model_len`, so tables wider than the graph's buffer
occur. The sizes of the graph buckets are scaled down with `SmallBatches`,
`BatchStride` and `MaxGraphBatch`.

**Symmetry** over requests or tools is used in runs without liveness only.

**Refinement.** `KeepsBlockProtocol` says that the engine, without swap,
implements `BlockClients` (requests that are new or rejected count as waiting).
It carries the theorems about `BlockClients` over to the engine, and
checks that no loop of the scheduler calls the block manager out of turn: for
instance that no request is scheduled twice before its result is committed.
Swap is outside it on purpose: `allocate_fresh_blocks` hands a request unhashed
blocks that count as computed, which breaks the protocol, and run `swap_chain`
shows what follows. `KeepsPromises` says that the engine, with swap, preemption
and out-of-memory errors, implements `Generation`: a request is answered once,
grows by one token at a time, ends at the first end-of-sequence token, with
`max_tokens` tokens or by an abort, and never changes again.

**Fairness.** `Spec` of `Engine` has weak fairness of `EngineStep`, which is
the loop `while not self.is_finished(): self.step()` of `generate`. Nothing is
assumed of arrivals, of which requests arrive, of sampled tokens, or of
out-of-memory errors. `Served` holds with that alone in `engine_served`.
`TPChannel` has weak fairness of each rank's own steps: each is a process that
keeps running. Which calls the engine makes, that it exits, and out of memory
are open.

## Where the code disagrees with its documentation

Six runs are expected to be violated; each shows one behaviour.

* `over_capacity` (`NeverCrashes`): with prefix sharing, a request that
  already fills the pool can run beside another one. Preempted when its newest
  token needs one more block, it can never be admitted again, and the engine
  stops at `assert scheduled` (`scheduler.py:271`). `add` (`scheduler.py:59-61`)
  says that no such request is left in `waiting`.
* `starved` (`Served`): in combined steps a preempted request goes to the head
  of `waiting`, before a partly prefilled one. The prefill loop stops at the
  head, which waits for the blocks the second one holds. `add`
  (`scheduler.py:59-61`) rejects what can never be served so that nothing waits for
  ever; these two requests could be served.
* `swap_order` (`ReadsOwnPrefix`): a swap-in releases its CPU blocks when the
  copy is queued; a preemption later in the step takes them, and
  `_drain_swaps` copies out first. The restored request reads another's KV.
* `swap_chain` (`IndexHoldsPrefix`): blocks restored by swap-in have no hash,
  so the next full block of the request starts a new chain and is indexed as
  the beginning of a prompt (`block_manager.py:246-248` against `42-46`).
* `swap_leak` (`NoLeak`): the prefill loops look at the block table only, so
  with prefix caching a swapped-out request may be admitted by recomputation
  while its CPU blocks stay taken (`scheduler.py:145`, against
  `tests/unit/test_kv_swap.py:162-165`). `CpuBlocksExclusive` holds in
  `engine_served`, without the prefix cache, since a request then needs at least
  as many blocks to be recomputed as to be swapped in.
* `graph_bucket` (`EveryDecodeReplays`): the largest captured batch is the last
  multiple of 16 not above `max_num_seqs`; a larger decode batch finds no graph
  and `next()` raises (`model_runner.py:250, 315`, against
  `docs/tutorial/10_cuda_graphs.md:88`).

One more disagreement has no run of its own. The docstring of `course_status`
(`course_status.py:4-6`) says that the absence of scaffolding in the source also
makes a milestone complete. The code does not: without `--run-tests` a milestone
is done only when its tests have been recorded as passed, as the comment there
says (`course_status.py:102-104`); scaffolding counts for TODOs only
(`todo_implemented`). `CompleteWasTested` states what code and comment say, and
so contradicts that docstring: in the model, as in the code, a milestone whose
TODOs have all been implemented and cleaned stays pending until it is tested.

Behaviours that no document promises to be otherwise are conditions of the
properties instead, each named at its hazard:

* calls without collectives on the tensor-parallel channel may overtake a
  worker (`Undisturbed`);
* a decode turn in a unified batch is pickled with its last token only, so with
  more than one rank the workers stop on inputs of different lengths
  (`PickledWhole` leaves unified steps out; `ModelRunner` fails there);
* workers keep the default block size of 256: the instances have
  `DefaultBlockSize = BlockSize`, and with two ranks and unequal sizes
  `AttendsOwnPrefix` does not hold;
* in a float32 model `float()` returns its argument, and `RMSNorm`'s in-place
  operations overwrite the residual: the instances have `dtype |-> "bfloat16"`,
  and with `"float32"` `LoadedModelIsWhole` does not hold;
* tests that skip count as passed in `run_milestone`: `DoneIsImplemented` is
  about TODOs that the tests exercise.

## Proofs

### The block manager

`BlockClients_proofs` proves, for any set of requests and tokens, any number of
blocks, any prompts and any block size of at least two:

| Theorem | States |
| --- | --- |
| `Invariance` | `Spec => []IInv` |
| `TypeCorrect` | `Spec => []TypeOK` |
| `FreeListAgrees`, `ReferencesExact` | the ownership records agree at every step of every call |
| `IndexNeverStale`, `PrefixesSound` | an index entry's block has that hash; computed blocks carry the hash of their prefix |
| `WritesStayPrivate` | blocks with positions left to compute have one holder |
| `MirrorsInSync` | the mirror equals the tables outside of calls |
| `AllocateSucceeds` | what `can_allocate` counted is enough: `allocate` never finds the free list empty or an entry gone |

Assumptions: `BlockSizeAssumption`, `PoolAssumption`, `ClientAssumption` (prompts
are non-empty, the set of requests is finite). TLC evaluates them.

**Why the properties are not inductive.** None of the properties above is
preserved by a step on its own. That writes are private needs that a block
beyond the computed ones has no hash (`TailsFresh`): were it indexed, a later
`allocate` could share it. That needs that `hash_blocks` stops at the computed
tokens and that an evicted block loses its hash. That a hit is not a block
already in the table needs that the blocks taken so far have the hashes of
shorter chains (`HeadsHashed`), for which the index must point where its hashes
are (`IndexSound`). That the block `may_append` adds is the one the newest token
needs, and that `hash_blocks` stays inside the table, need the relation of
table length, tokens, computed and scheduled counts in each status
(`TablesFit`), and what an allocate in progress knows of its request (`CallOk`).
`IInv` is their conjunction; TLC checks it in `block_clients`.

That `allocate` never fails needs one more invariant, `EnoughFree`: the free
blocks, together with the hits still to take whose block is in use, are at least
the blocks still missing. A hit on a free block takes one free block and leaves
every used hit in place; a hit on a used block is one of the counted; once the
hits are taken the count is of free blocks alone. `can_allocate`'s test is
`EnoughFree` of a call about to begin.

**Layout.** First the arithmetic of blocks, what splicing, popping
and pushing do to the free list, what adding and dropping a block do to the
holders, and what `hash_blocks` computes; then one lemma
per action, `InitIInv`, `NextIInv` and the theorems, then the same for
`EnoughFree`. `HashedUpTo` is what varies
between actions: the number of leading blocks of a request that may be shared.

### The scheduler and the engine

Three modules, each on top of the one before, prove for any set of requests and
tokens, any prompts, block size, pool and limits:

| Theorem | States | Asks for |
| --- | --- | --- |
| `RequestsInOneQueue` | `OneQueue`: no early return of a loop loses or doubles a request | |
| `EndsAreReported` | `EndedIsReported` | |
| `PromisesKept` | `KeepsPromises`: the engine implements `Generation` | |
| `HoldersComeFirst` | `HoldersFirst`: in separate steps who holds blocks comes first in `waiting` | |
| `BatchesAreLimited` | `BatchWithinLimits` | with unified steps: no swap, `MaxNumSeqs <= MaxNumBatchedTokens` |
| `PrefillsArePickledWhole` | `PickledWhole` | no swap |
| `MixedStepsNeverCrash` | `NeverCrashes` in combined and unified steps | no separate steps |
| `EngineIsClient` | `KeepsBlockProtocol`: the engine implements `BlockClients` | no swap |
| `ForwardWritesArePrivate` | `WritesArePrivate`: a forward pass writes no shared block | no swap |
| `PoolComesBack` | `NoLeak` | no swap |
| `StepsNeverCrash` | `NeverCrashes` | no prefix cache |
| `SwappedPoolComesBack` | `NoLeak`: GPU and CPU blocks | no prefix cache, separate steps |
| `CpuBlocksStayExclusive` | `CpuBlocksExclusive`: a CPU block is free or one swapped-out request's | no swap; or no prefix cache, separate steps |
| `ForwardReadsOwnPrefix` | `ReadsOwnPrefix` | no swap |
| `IndexLeadsToPrefix` | `IndexHoldsPrefix` | no swap |
| `EngineTypeCorrect` | `TypeOK` | no swap |

Where the last column is empty the theorem covers every configuration: swap,
prefix caching, all step modes and out-of-memory errors. The hypotheses are not
for convenience: without "no swap", `ReadsOwnPrefix`, `IndexHoldsPrefix` and
`NoLeak` are false (`swap_order`, `swap_chain`, `swap_leak`), and without "no
prefix cache" so is `NeverCrashes` (`over_capacity`). Swap is off by default
(`config.py:37`). `MaxNumSeqs <= MaxNumBatchedTokens` is not
enforced by `Config`; its defaults are 512 and 16384. The decode half of a
unified step takes one token per running request without looking at the budget,
so without the hypothesis a batch of decode turns alone may exceed it.
Otherwise only the named assumptions of the modules are used:
`BlockSizeAssumption`, `PoolAssumption`, `CpuPoolAssumption`,
`SchedulerAssumption` and `EngineAssumption`.

**The inductive invariants.** Each module adds to the invariant of the one
before. TLC checked each of them as an invariant of the engine instances before
its proof (`INVARIANT QueueInv` and so on, in a configuration like those of the
runs and an MC module that extends the proof module).

* `QueueInv`. `OneQueue` speaks of the time between steps; in the middle of the
  decode loop a running request is popped and only in `decodeBatch`, after an
  early return it is in both, and a partly prefilled one is in `waiting` and in
  `prefillBatch`. `QueueOfStatus` and `BatchesInPhase` say which of these may
  be at which `pc`. `ScheduledInBatch` says that exactly the requests of a batch
  have positions scheduled: a request scheduled twice would get its count
  overwritten. `CallOutsideBatch` is why a loop of the block manager in progress
  never touches a request of a batch. `TokensLeft` says that the last token is
  never computed ahead; a request always has something left to schedule.
  `Reports` says where an aborted request waits to be reported.
* `BatchInv`. The limits hold because of what the loops did before: with unified
  steps, that no more requests are running than a batch may hold
  (`BatchLengths`), and that `num_batch_tokens` is what the batch costs
  (`Budget`). `Holders` is `HoldersFirst` in the middle of a step: a preempted
  request goes to the head of `waiting` without blocks, and this is sound in
  separate steps because decode only runs when prefill found nothing to
  schedule, hence nobody in `waiting` holds blocks. `DecodesSomething` and
  `PickledForPrefill` are about the assertion and about `is_prefill`.
* `ClientInv` is `BatchInv` and `IInv` of `BlockClients`, under the mapping of
  `KeepsBlockProtocol`. Every action of the engine is mapped to an action of
  `BlockClients` or to a stutter, so `IInv` is kept by what was proved there
  (`BCP!NextIInv`), and all its consequences hold of the engine. That needs
  `QueueInv` at every turn: that what is scheduled, preempted or aborted is in
  the status, and outside of the calls, that the protocol asks for.
* `KvInv`. `HashedContent` says that a block with a hash holds the prefix the hash
  stands for, whoever has the block; `Computed` says that a request's own blocks hold
  what is computed, and after a forward pass what was scheduled as well. That
  one request's forward pass leaves the others' prefixes alone is
  `WritesArePrivate`; that a hit hands over the right content is `HashedContent`
  with `IndexNotStale`.
* `ProgressInv`, for the three theorems about swap: in separate steps without the
  prefix cache, every block, of the GPU and of the CPU, is free or in one table, once
  (`Pools`); a table is as long as its request's tokens need, or empty
  (`TableExact`); and a request that is swapped out waits, with CPU blocks for its
  computed tokens (`SwapExact`). A loop of the block manager in progress knows how
  far it must go (`CallExact`). The hard part is that the prefill loop, which does
  not look at `swap_state`, never admits such a request: what swap-in found too few
  free blocks for is still too large when the loop comes to it, since recomputing a
  request takes as many blocks as restoring it or more. Then a step that prefills
  nothing finds something to decode (`SomethingToDo`). Suppose nothing is running.
  Then no request holds a block, the pool is whole, and the head of `waiting`
  fits, restored or recomputed: `add` has tested it and `preempt` puts back only
  what still fits (`Fits`), because a request that is preempted beside another one
  does not fill the pool. Prefix caching breaks this, and `over_capacity` is the
  counterexample.

  `SwappedPoolComesBack` and `CpuBlocksStayExclusive` are false in combined and
  unified steps, where a decode loop stands between swap-in and prefill: if it
  aborts a request that has outgrown the pool, the freed blocks let the prefill loop
  admit a request that is swapped out, and its CPU blocks stay taken. Two requests
  and three blocks show it to TLC.

**Layout.** One lemma per part of the invariant or per action, depending on
which is shorter; the part about queues goes by what kind of step it is
(`AddRequest`, an iteration of a loop, an early return, a step of a batch). The
lemmas on `RemoveFirst`, `Front`, `Tail` and `Append` at the head of
`EngineQueues_proofs` say what queues lose and gain.

### The channel between ranks

`TPChannel_proofs` proves, for any number of workers, of collectives in a
forward pass and of calls:

| Theorem | States |
| --- | --- |
| `TypeCorrect` | `Spec => []TypeOK`, errors and swap calls included |
| `RanksTogether` | the invariant: `TypeInv`, and `Together` while `Undisturbed` |
| `CallsAgree` | every rank executes exactly the calls of rank 0, in order |
| `NoOverwriting` | rank 0 never writes what a worker has yet to read or acknowledge |
| `CollectivesAgree` | two ranks that join in a collective join in the same one |
| `SegmentLives` | the segment outlives its mappings; who reads has it mapped |

The only assumption is `ChannelAssumption`: at least one worker, at least one
collective in a forward pass, and `run`, `swap_out` and `swap_in` as methods.

**Why the properties are not inductive.** Nothing in `write_shm` waits for the
workers. When rank 0 returns from `tolist()`, all it knows is that the last
collective of the pass completed. `FetchTokens` has to conclude from this that
every worker took up the call, executed it, and cleared its event long before.
The invariant therefore counts. `RankOk` says that a rank that has finished k
calls has joined `Before(k)` collectives (the first barrier and those of k
passes), that one within a call has joined the first `joined[r]` more, and that
the i-th is the one `Place` names. So a worker that has joined as many
collectives as rank 0 at the end of a pass has taken up as many calls.
`Writing`, `Signalling` and `Working` say where workers can be at each place of
rank 0: all wait before and during the write (`Waits`); while events are set
one by one, those already signalled may take the call up, or may have finished
it (`Engaged`); later all of them are `Engaged`. The exit has its own barrier
instead of a pass: `CallsOk` (only the last call may be the exit), `Ending` and
`Segment` are about it. The condition is needed where it is used: a call without
collectives tells rank 0 nothing of the workers, and a rank that runs out of
memory joins fewer collectives than its calls have.

**Layout.** One lemma per action for types; then what each kind of step does to
the rank that takes it (`RankMoves`, `RankBegins`, `RankEnters`, ...) and to
others (`RankKept`); then one lemma per action and kind of rank for `Together`.
The lemma `WorkerMoves` has what all steps of workers share.

### The model runner

`ModelRunner_proofs` proves, for any requests and texts, any block size, limits,
bucket sizes and memory readings, any number of ranks:

| Theorem | States |
| --- | --- |
| `RunnerInvariance` | `Spec => []RunnerInv` |
| `RowsAttendOwnPrefix` | `AttendsOwnPrefix`: on every rank, in every kind of batch, with and without a graph |
| `CacheHoldsPrefix` | `KvHoldsPrefix`: what the scheduler takes to be cached is in the cache, on every rank, also during a call and when a call, eager or replayed, is aborted |
| `CallsWriteOnlyScheduled` | `WritesOnlyScheduled`: the padded rows of a graph write nothing |
| `RunnerTypeCorrect` | `TypeOK` |
| `LoadedIsTheModel` | `LoadedModelIsWhole`: when every tensor is loaded, the ranks together compute the transformer of the checkpoint |

All but the last have the hypothesis `EqualBlockSizes`: a configuration has one rank, or
`kvcache_block_size` is the default of `Sequence.block_size`. Rank 0 sets that
attribute in its own process only (`llm_engine.py:23`), and the theorems are false
without it: with two ranks and other block sizes a worker stores keys and values
in other slots than its block tables lead to. `Config` allows such a
configuration (`config.py:55`); it is listed as a hazard. `LoadedIsTheModel` has
the hypothesis `ReducedPrecision` instead: no configuration is a float32 model.
In one, `RMSNorm` overwrites the residual and the theorem is false; that is a hazard
too. Otherwise only `BlockSizeAssumption` and `RunnerAssumption` are used. The
latter says that texts are sequences that begin with a prompt, that heads,
intermediate size and vocabulary are divided evenly among the ranks, which the
layers assert, and that every key head has as many query heads, which the
attention kernels need.

**Why the properties are not inductive.** `AttendsOwnPrefix` speaks of the end of a
call and `KvHoldsPrefix` of the cached tokens. That the attention of a decode or
of a later chunk reads the right keys needs that the earlier calls left them
where the table leads now, and that the call itself stores the missing ones
before it reads. So `RunnerInv` adds: what is cached stands behind the table,
and after a run what that run computed as well (`CacheHolds`); two tables share a
block only if it is the first of both and full of cached tokens, so that no run
writes to a position another request has cached (`Ownership`); a request has
exactly the blocks that its tokens, or all but its newest token, need
(`RequestOK`), so that every slot lies inside its table; the context of a call is
that of its batch (`CallOK`), whatever the last call left; the buffers of the
graphs keep their sizes (`GraphsOK`), while nothing is said of what is in them
behind the batch. TLC checked `RunnerInv` as an invariant of the instance of
`model_runner`.

The longest part is the metadata. `KernelLemmas` says that the running sums
`cu_seqlens` cut a concatenation into the parts it was made of (`FlattenJoins`,
`Located`), that a slice of the tokens is complete for every request if there are
as many input ids as positions (`PrefillRows`), that a batch in which no sum differs
has no cached tokens, so that its rows are its keys (`SumsCompared`,
`VarlenReads`), and that the newest token of a request in decode lies in the
last slot of the last block (`DecodeSlot`). `ModelRunner_proofs` uses them once per
kind of run: `EagerWrites` and `EagerReads`, `ReplayRun`. For a replay, the rows of
the batch are in front (`FilledIs`), and a row behind it has no slot in the cache.

**The loaded model.** Tensors are read one at a time, in any order and
independently by every rank; q, k and v, and gate and up, are written into parts of
one parameter. `LoadInv` says that parameters have their size and that each tensor
already read is in its place; writing another one keeps it there because parts of
one parameter fit and do not overlap (`ShardsFit`, `ShardsApart`). TLC checked
`LoadInv` on the instance of `model_runner`. When the runner goes on, no tensor is
unread on any rank, so the model is `FullyLoaded`, and the rest is about operators
(`LoadedIsWhole`): the partial sums of the ranks are over disjoint columns, hence
all-reduce adds every product exactly once (`RowParallelIs`, by `AllReduceIs`);
the key head that a query head finds on its own rank is the one it has in the whole
model (`KeyHeadIs`), so that attention, MLP, embedding and logits are those of one
device (`AttentionIs`, `MlpIs`, `EmbedIs`, `LmHeadIs`); and after every layer
`hidden` and `residual` add up to the residual stream, so that the layers may be
stacked (`LayerIs`, `StackIs`). That is induction on the number of layers, for
which `Induction` is proved from finite sets, without the library's theorem.

### The course tools

`CourseTools_proofs` proves, for any milestones, TODOs and source files, and any
number of tools at once:

| Theorem | States |
| --- | --- |
| `CourseInvariance` | `Spec => []CourseInv` |
| `CompleteIsTested` | `CompleteWasTested`: only tested milestones are recorded, and everything is reported complete only after all tests passed |
| `RecordIsKept` | `RecordKept`: what is recorded stays recorded, unless the record was half written or written over |
| `CourseToolsTypeCorrect` | `TypeOK` |
| `CleanInvariance` | `Spec => []CleanInv` |
| `CleanedIsShown` | `CleanedStaysDone`: a cleaned TODO is complete without a record of it |
| `ShownIsImplemented` | `DoneIsImplemented`: what is shown as complete has the student's code |

The assumptions are `CourseAssumption` (there is a milestone, tests exercise
registered TODOs, the progress file is no source file, and neither its absence nor
a truncated file is a record) and, for the last three, `SourceAssumption`: a TODO
is listed in its own milestone, as in `milestones.yaml` and `todos.yaml`; sources
are in the scaffold style (`course_lib.py:130-131`); and a TODO that tests exercise
has a raise or its code in its source. A TODO with nothing but a marker would not
do: a marker comment that directly follows another TODO's comment is removed with
it (`_remove_todo_comment_blocks`, `course_lib.py:118-122`), and the TODO would look
done. The instance of `course_tools` has such a neighbour, and its raise keeps it.

**Why the properties are not inductive.** That a recorded milestone was tested
needs that a tool past the tests of a milestone is one that has seen them pass,
and that what a tool has read of the record, possibly long ago, was tested too
(`Going`). For the report of `course_status` it needs that what is neither tested
nor pending is still on its list; without `--run-tests` the report goes by the
record, hence by what was tested. `RecordKept` is about the time between the
truncation and the writing of the record: while the file is undamaged, one tool at
most is there, and it has in hand all that was recorded (`Recorded`). A second
tool that truncates then finds the file cut, and one that read before the first
wrote finds another record than it read: both damage the file. TLC checked
`CourseInv` and `CleanInv` on the instance of `course_tools`.

The two properties of the sources are about texts that a tool read some time ago.
While a source is undamaged either nobody is writing it and it is sound, or
exactly one tool is, the file is empty, and what that tool has read is sound
(`FileSound`): a tool that truncates finds the text it has read, which is not empty
because an empty text needs no cleaning (`NothingToClean`), so nobody else was
writing. A sound text shows no TODO that was cleaned, has the code that tests have
seen, and for each exercised TODO a raise or code (`Sound`). Cleaning keeps that
for the others (`CleanedText`), and takes the raise only of a TODO whose milestone
was tested, whose code is therefore there: `HandsSound` says so of what a tool has
yet to clean, and of what it reports as cleaned. About texts: `Ranks` and
`WithoutKeeps` say that removing lines keeps the others in order; from it follow, for
each of the three passes, that no part of a raise is left behind and that no TODO
comes to be marked (`CommentsRemoved`, `RaisesRemoved`, `ImportRemoved`), and for the
student's two ways of adding code, that it never separates a raise from its lines
(`CodeAdded`).

### Only model-checked

Liveness (`Served`, `AllReturn`), which is out of the prover's reach. Every other
property of a passing run is the statement of a theorem, in the configurations the
tables name. `CpuBlocksExclusive` with swap in combined and unified steps is false,
as said above; `TypeOK`, `WritesArePrivate` and `PickledWhole` of the engine are
neither run nor proved with swap.

## Not modelled

* Arithmetic: attention kernels, rotary frequencies and scaling, sampling
  temperatures, precision. What is stored, read, summed and masked is modelled.
* The experiments and examples: they call the engine and measure time, and
  keep no state of it.
* Tokenization, statistics, debug output, printed reports, downloads.
* What happens when one rank reads other memory statistics than rank 0, or
  finds the shared-memory segment of a crashed engine: listed as hazards.
* Out-of-memory errors in the warmup, and the memory a batch needs: any forward
  pass, eager or replayed, may run out of memory before or after its rows are
  stored instead.
* Hash collisions are excluded by the representation of hashes. A request that
  is submitted with `max_tokens = 0` is outside the model. Requests share one
  `max_tokens` and one end-of-sequence setting.
* Unified steps with swap: `BatchWithinLimits` is not claimed there.

## Plan

Done: all modules above, and the proofs about `BlockClients`, `TPChannel`, `Engine`,
`ModelRunner` and `CourseTools`. Next:

1. `LruFreeList`: the doubly linked list with its sentinels and node map,
   refining the sequence `freeList` of `BlockManager`.
