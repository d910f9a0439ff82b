---------------------------- MODULE InputMetadata ----------------------------
(***************************************************************************)
(* What a batch looks like to the kernels, and what the kernels make of    *)
(* it: nanovllm/engine/input_metadata.py, the pickling of sequence.py, and *)
(* nanovllm/layers/attention.py, as operators on values.                   *)
(*                                                                         *)
(* A request in a batch is a record with the fields of a Sequence.  What   *)
(* is computed for an input row is written [token, pos]: the token that    *)
(* was embedded and the position it was rotated to.  The KV cache maps a   *)
(* slot to the row whose key and value it holds.  An attention kernel      *)
(* gives every query the sequence of the rows it attends to.  Positions    *)
(* and slots are 0-based, as in the source; rows are numbered from 1.      *)
(***************************************************************************)
EXTENDS Integers, Sequences, SequencesExt

CONSTANTS
  BlockSize,         \* kvcache_block_size
  DefaultBlockSize   \* Sequence.block_size where LLMEngine.__init__ has not set it

ASSUME BlockSizeAssumption ==
  /\ BlockSize \in Nat \ {0}
  /\ DefaultBlockSize \in Nat \ {0}

Unused == -1   \* a padded entry of a block table, a slot that is not stored to

BlocksFor(n, size) == (n + size - 1) \div size

\* What a worker rank unpickles: a decoding request comes without its tokens;
\* block_size belongs to the class, which each process has for itself.
Pickled(seq) ==
  [seq EXCEPT !.tokenIds = IF seq.isPrefill THEN @ ELSE << >>,
              !.blockSize = DefaultBlockSize]

\* seq[start:end]; Python cuts a slice off at the end of the list.
Slice(seq, start, end) == SubSeq(seq.tokenIds, start + 1, Min({end, Len(seq.tokenIds)}))

Scheduled(seq) == [i \in 1 .. seq.numScheduled |-> seq.numCached + i - 1]

\* Bug: the slot is taken from the physical block of the next position.
SlotShifted(table, pos, size) ==
  table[Min({(pos + 1) \div size + 1, Len(table)})] * size + (pos % size)

SlotOf(table, pos, size) == table[pos \div size + 1] * size + (pos % size)

\* 0 and the running sums of lengths.
Cumulated(lengths) ==
  LET sum[k \in 0 .. Len(lengths)] == IF k = 0 THEN 0 ELSE sum[k - 1] + lengths[k]
  IN  [k \in 1 .. Len(lengths) + 1 |-> sum[k - 1]]

BuildBlockTables(seqs) ==
  LET width == Max({Len(seqs[k].blockTable) : k \in DOMAIN seqs})
  IN  [k \in DOMAIN seqs |->
         [c \in 1 .. width |-> IF c <= Len(seqs[k].blockTable)
                               THEN seqs[k].blockTable[c] ELSE Unused]]

\* The slots of what is scheduled; in the warmup there are none.
ScheduledSlots(seq) ==
  IF seq.blockTable = << >> THEN << >>
  ELSE [i \in 1 .. seq.numScheduled |->
          SlotOf(seq.blockTable, seq.numCached + i - 1, seq.blockSize)]

BuildPrefillMetadata(seqs) ==
  LET End(seq) == seq.numCached + seq.numScheduled
      cuQ == Cumulated([k \in DOMAIN seqs |-> seqs[k].numScheduled])
      cuK == Cumulated([k \in DOMAIN seqs |-> End(seqs[k])])
  IN  [inputIds |->
         FlattenSeq([k \in DOMAIN seqs |-> Slice(seqs[k], seqs[k].numCached, End(seqs[k]))]),
       positions |-> FlattenSeq([k \in DOMAIN seqs |-> Scheduled(seqs[k])]),
       cuSeqlensQ |-> cuQ,
       cuSeqlensK |-> cuK,
       slotMapping |-> FlattenSeq([k \in DOMAIN seqs |-> ScheduledSlots(seqs[k])]),
       needBlockTables |-> Last(cuQ) < Last(cuK)]

BuildDecodeMetadata(seqs) ==
  [inputIds |-> [k \in DOMAIN seqs |-> seqs[k].lastToken],
   positions |-> [k \in DOMAIN seqs |-> seqs[k].numTokens - 1],
   contextLens |-> [k \in DOMAIN seqs |-> seqs[k].numTokens],
   slotMapping |->
     [k \in DOMAIN seqs |->
        LET n == seqs[k].numTokens
            numBlocks == BlocksFor(n, seqs[k].blockSize)
            lastBlockNumTokens == n - (numBlocks - 1) * seqs[k].blockSize
        IN  Last(seqs[k].blockTable) * BlockSize + lastBlockNumTokens - 1]]

(***************************************************************************)
(* layers/attention.py.                                                    *)
(***************************************************************************)
InputRows(inputIds, positions) ==
  [i \in DOMAIN inputIds |-> [token |-> inputIds[i], pos |-> positions[i]]]

\* store_kvcache: one program per row; a row without a slot stores nothing.
StoreKvCache(kv, rows, slots) ==
  [slot \in DOMAIN kv |->
     IF Contains(slots, slot) THEN rows[CHOOSE i \in DOMAIN slots : slots[i] = slot]
     ELSE kv[slot]]

\* The keys a block table leads to: the rows of the first n positions.
CachedRows(kv, table, n) == [i \in 1 .. n |-> kv[SlotOf(table, i - 1, BlockSize)]]

\* Bug: the causal mask is aligned to the first key, not to the last.
VarlenMaskTopLeft(numQ, numK, q) == q

\* How many keys the q-th of numQ queries may see of numK: the last sees all.
VarlenMask(numQ, numK, q) == numK - numQ + q

\* flash_attn_varlen_func; without block tables the keys are the rows themselves.
VarlenAttention(meta, rows, kv, blockTables) ==
  FlattenSeq([k \in 1 .. Len(meta.cuSeqlensQ) - 1 |->
    LET numQ == meta.cuSeqlensQ[k + 1] - meta.cuSeqlensQ[k]
        numK == meta.cuSeqlensK[k + 1] - meta.cuSeqlensK[k]
    IN  [q \in 1 .. numQ |->
           LET n == VarlenMask(numQ, numK, q)
           IN  IF meta.needBlockTables THEN CachedRows(kv, blockTables[k], n)
               ELSE SubSeq(rows, meta.cuSeqlensK[k] + 1, meta.cuSeqlensK[k] + n)]])

\* flash_attn_with_kvcache: one query per row.
KvCacheAttention(contextLens, blockTables, kv) ==
  [k \in DOMAIN contextLens |-> CachedRows(kv, blockTables[k], contextLens[k])]

\* ParallelLMHead.forward: the rows of a prefill batch that get logits.
LastRows(meta) == [k \in 1 .. Len(meta.cuSeqlensQ) - 1 |-> meta.cuSeqlensQ[k + 1]]

==============================================================================
