-------------------------- MODULE ModelRunner_proofs --------------------------
(***************************************************************************)
(* What TLAPS proves of ModelRunner: on every rank a row attends to its own *)
(* request up to itself, the cache holds what the scheduler takes to be    *)
(* cached, and a call writes the slots of what it computes and no others,  *)
(* for any requests, texts, block size, limits, bucket sizes and memory, if *)
(* the workers count blocks as rank 0 does; and, whatever the order of the *)
(* files, the ranks together compute the transformer of the checkpoint once *)
(* it is loaded, in reduced precision.                                     *)
(***************************************************************************)
EXTENDS ModelRunner, KernelLemmas

(***************************************************************************)
(* The invariant.                                                          *)
(***************************************************************************)
\* Workers count blocks as rank 0 does: they leave Sequence.block_size as it is, which
\* is right when the configuration leaves it too, and there are none without tensor
\* parallelism.
EqualBlockSizes == \A c \in Configs : c.tp = 1 \/ DefaultBlockSize = BlockSize

BlocksOf(n) == BlocksFor(n, BlockSize)

\* The types of what the scheduler keeps of the requests.
TablesTyped ==
  /\ numTokens \in [Requests -> Nat] /\ numCached \in [Requests -> Nat]
  /\ prefilled \subseteq Requests
  /\ table \in [Requests -> Seq(0 .. NumBlocks - 1)]

\* Of a request: how many tokens it has, what of them is cached, how many blocks it has.
RequestOK(r) ==
  /\ PromptLength[r] <= numTokens[r] /\ numTokens[r] <= Len(Text[r])
  /\ r \in prefilled => numCached[r] = numTokens[r] - 1
  /\ table[r] = << >> => numCached[r] = 0 /\ r \notin prefilled
  /\ table[r] # << >> =>
       /\ phase = "serve"
       /\ numCached[r] < numTokens[r]
       /\ \/ Len(table[r]) = BlocksOf(numTokens[r])
          \/ r \in prefilled /\ Len(table[r]) = BlocksOf(numTokens[r] - 1)

\* Two tables share a block only if it is the first of both and full of cached tokens.
Ownership ==
  \A r, o \in Requests : \A i \in DOMAIN table[r], j \in DOMAIN table[o] :
    table[r][i] = table[o][j] =>
      \/ r = o /\ i = j
      \/ /\ i = 1 /\ j = 1
         /\ numCached[r] >= BlockSize /\ numCached[o] >= BlockSize

RequestsInv == TablesTyped /\ (\A r \in Requests : RequestOK(r)) /\ Ownership

\* There is a cache from its allocation on, equally large on every rank.
CacheShape ==
  /\ DOMAIN kv = AllRanks
  /\ phase \in {"load", "warmup", "allocate"} => \A rank \in AllRanks : kv[rank] = << >>
  /\ phase \in {"capture", "serve"} =>
       /\ NumBlocks \in Nat \ {0}
       /\ \A rank \in AllRanks : DOMAIN kv[rank] = 0 .. NumBlocks * BlockSize - 1
  /\ \A rank \in AllRanks : \A slot \in DOMAIN kv[rank] : DOMAIN kv[rank][slot] = {"token", "pos"}

TextOf(r) == [tokenIds |-> Text[r]]

\* The cache holds what the requests have cached and, after a run, what that computed.
CacheHolds ==
  \A rank \in AllRanks :
    /\ \A r \in Requests : Held(kv[rank], table[r], TextOf(r), numCached[r])
    /\ phase = "serve" /\ stage = "computed" => \A k \in DOMAIN batch :
         Held(kv[rank], batch[k].blockTable, TextOf(batch[k].request),
              batch[k].numCached + batch[k].numScheduled)

\* A request in a batch is as the scheduler has it.
EntryOK(seq) ==
  /\ seq.request \in Requests
  /\ HasBlocks(seq.request)
  /\ seq.numScheduled \in 1 .. numTokens[seq.request] - numCached[seq.request]
  /\ seq = SequenceOf(seq.request, seq.numScheduled)

ContextFor(isPrefill) ==
  [rank \in AllRanks |-> IF isPrefill THEN PrefillContext(rank, batch)
                                      ELSE DecodeContext(rank, batch)]

\* In a call there are requests, none twice, and the context is that of their batch.
CallOK ==
  /\ phase \in {"load", "warmup", "allocate", "capture", "serve"}
  /\ stage \in {"idle", "prepared", "computed"}
  /\ stage = "idle" => batch = << >> /\ context = << >>
  /\ stage # "idle" =>
       /\ phase \in {"warmup", "serve"}
       /\ Len(batch) \in Nat \ {0} /\ IsList(batch, Len(batch))
       /\ IsPrefill \in BOOLEAN /\ context = ContextFor(IsPrefill)
       /\ phase = "warmup" => IsPrefill /\ \A k \in 1 .. Len(batch) : batch[k] = WarmupSequence
       /\ phase = "serve" =>
            /\ Len(batch) <= MaxNumSeqs
            /\ \A k \in 1 .. Len(batch) : EntryOK(batch[k])
            /\ \A k, l \in 1 .. Len(batch) : batch[k].request = batch[l].request => k = l
            /\ ~IsPrefill => \A k \in 1 .. Len(batch) : batch[k].request \in prefilled

\* Buffers of graphs keep their sizes.
BuffersShaped(bufs) ==
  /\ IsList(bufs.inputIds, MaxBs) /\ IsList(bufs.positions, MaxBs)
  /\ IsList(bufs.slotMapping, MaxBs) /\ IsList(bufs.contextLens, MaxBs)
  /\ IsList(bufs.blockTables, MaxBs)
  /\ \A k \in 1 .. MaxBs : IsList(bufs.blockTables[k], MaxNumBlocks)

GraphsOK ==
  /\ graphs \subseteq GraphBs
  /\ graphs # {} => \A rank \in AllRanks : BuffersShaped(graphVars[rank])

RunnerInv ==
  /\ config \in Configs
  /\ RequestsInv /\ CacheShape /\ CacheHolds /\ CallOK /\ GraphsOK
  /\ AttendsOwnPrefix

(***************************************************************************)
(* What the invariant says of a request, of the cache and of a call.       *)
(***************************************************************************)
\* Rank 0 is a rank.
LEMMA RankZero ==
  ASSUME config \in Configs
  PROVE  0 \in AllRanks /\ AllRanks \subseteq Nat /\ config.tp \in Nat \ {0}
BY RunnerAssumption DEF AllRanks, Ranks

\* The text of a request is a sequence, and its prompt is a part of it.
LEMMA Texts ==
  ASSUME NEW r \in Requests
  PROVE  /\ Text[r] \in Seq(ToSet(Text[r])) /\ Len(Text[r]) \in Nat
         /\ PromptLength[r] \in Nat \ {0} /\ PromptLength[r] <= Len(Text[r])
BY RunnerAssumption

\* The blocks of a request are blocks of the cache.
LEMMA TableTyped ==
  ASSUME TablesTyped, NEW r \in Requests
  PROVE  /\ table[r] \in Seq(0 .. NumBlocks - 1)
         /\ Len(table[r]) \in Nat /\ DOMAIN table[r] = 1 .. Len(table[r])
         /\ \A i \in 1 .. Len(table[r]) : table[r][i] \in Nat /\ table[r][i] \in 0 .. NumBlocks - 1
         /\ numTokens[r] \in Nat /\ numCached[r] \in Nat
         /\ table[r] # << >> => Len(table[r]) > 0
<1>1. table[r] \in Seq(0 .. NumBlocks - 1) /\ numTokens[r] \in Nat /\ numCached[r] \in Nat
  BY DEF TablesTyped
<1> DEFINE S == 0 .. NumBlocks - 1
<1>2. \A x \in S : x \in Nat OBVIOUS
<1>3. table[r] \in Seq(S) BY <1>1
<1> HIDE DEF S
<1>4. /\ Len(table[r]) \in Nat /\ DOMAIN table[r] = 1 .. Len(table[r])
      /\ \A i \in 1 .. Len(table[r]) : table[r][i] \in S
      /\ table[r] # << >> => Len(table[r]) > 0
  BY <1>3
<1> QED BY <1>1, <1>2, <1>4 DEF S

\* A request with blocks has some for all positions that are cached.
LEMMA CachedInTable ==
  ASSUME TablesTyped, NEW r \in Requests, RequestOK(r), NEW p \in 0 .. numCached[r] - 1
  PROVE  p \div BlockSize + 1 \in 1 .. Len(table[r])
<1>1. numCached[r] \in Nat /\ numTokens[r] \in Nat BY DEF TablesTyped
<1>2. table[r] # << >> /\ numCached[r] < numTokens[r] BY <1>1 DEF RequestOK
<1>3. CASE Len(table[r]) = BlocksOf(numTokens[r])
  <2>1. numTokens[r] \in Nat \ {0} /\ p \in 0 .. numTokens[r] - 1 BY <1>1, <1>2
  <2> QED BY <1>3, <2>1, PositionInBlocks DEF BlocksOf
<1>4. CASE r \in prefilled /\ Len(table[r]) = BlocksOf(numTokens[r] - 1)
  <2>1. numTokens[r] - 1 \in Nat \ {0} /\ p \in 0 .. (numTokens[r] - 1) - 1
    BY <1>1, <1>4 DEF RequestOK
  <2> QED BY <1>4, <2>1, PositionInBlocks DEF BlocksOf
<1> QED BY <1>2, <1>3, <1>4 DEF RequestOK

\* The fields of a request in a batch.
LEMMA EntryFields ==
  ASSUME TablesTyped, NEW seq, EntryOK(seq), RequestOK(seq.request)
  PROVE  LET r == seq.request
         IN  /\ r \in Requests
             /\ seq.blockTable = table[r] /\ seq.blockTable # << >>
             /\ Len(seq.blockTable) = BlocksFor(numTokens[r], BlockSize)
             /\ seq.numCached = numCached[r] /\ seq.numCached \in Nat
             /\ seq.numTokens = numTokens[r] /\ numTokens[r] \in Nat \ {0}
             /\ seq.numScheduled \in Nat \ {0}
             /\ seq.numCached + seq.numScheduled <= numTokens[r]
             /\ Len(seq.tokenIds) = numTokens[r]
             /\ \A i \in 1 .. numTokens[r] : seq.tokenIds[i] = Text[r][i]
             /\ seq.lastToken = Text[r][numTokens[r]]
             /\ seq.isPrefill = (r \notin prefilled) /\ seq.blockSize = BlockSize
<1> DEFINE r == seq.request
<1>1. r \in Requests /\ seq = SequenceOf(r, seq.numScheduled) BY DEF EntryOK
<1>2. /\ seq.blockTable = table[r] /\ seq.numCached = numCached[r]
      /\ seq.numTokens = numTokens[r] /\ seq.lastToken = Text[r][numTokens[r]]
      /\ seq.tokenIds = SubSeq(Text[r], 1, numTokens[r])
      /\ seq.isPrefill = (r \notin prefilled) /\ seq.blockSize = BlockSize
  <2> DEFINE m == seq.numScheduled
  <2>1. /\ SequenceOf(r, m).blockTable = table[r] /\ SequenceOf(r, m).numCached = numCached[r]
        /\ SequenceOf(r, m).numTokens = numTokens[r]
        /\ SequenceOf(r, m).lastToken = Text[r][numTokens[r]]
        /\ SequenceOf(r, m).tokenIds = SubSeq(Text[r], 1, numTokens[r])
        /\ SequenceOf(r, m).isPrefill = (r \notin prefilled)
        /\ SequenceOf(r, m).blockSize = BlockSize
    BY DEF SequenceOf
  <2>2. seq = SequenceOf(r, m) BY <1>1
  <2> HIDE DEF r, m
  <2> QED BY <2>1, <2>2
<1>3. numTokens[r] \in Nat /\ numCached[r] \in Nat BY <1>1, TableTyped
<1>4. numTokens[r] <= Len(Text[r]) BY DEF RequestOK
<1>5. Text[r] \in Seq(ToSet(Text[r])) BY <1>1, Texts
<1>6. table[r] # << >> /\ Len(table[r]) = BlocksFor(numTokens[r], BlockSize)
  BY DEF EntryOK, HasBlocks
<1>7. numCached[r] < numTokens[r] BY <1>6 DEF RequestOK
<1>8. seq.numScheduled \in 1 .. numTokens[r] - numCached[r] BY DEF EntryOK
<1> HIDE DEF r
<1>9. /\ Len(seq.tokenIds) = numTokens[r]
      /\ \A i \in 1 .. numTokens[r] : seq.tokenIds[i] = Text[r][i]
  <2>1. Len(Text[r]) \in Nat BY <1>5
  <2> QED BY <1>2, <1>3, <1>4, <1>5, <2>1
<1>10. /\ numTokens[r] \in Nat \ {0} /\ seq.numScheduled \in Nat \ {0}
       /\ numCached[r] + seq.numScheduled <= numTokens[r]
  BY <1>3, <1>7, <1>8
<1> QED BY <1>1, <1>2, <1>3, <1>6, <1>9, <1>10 DEF r

\* Before its first KV cache the warmup runs requests without blocks.
LEMMA WarmupFields ==
  /\ WarmupLen \in Nat \ {0}
  /\ WarmupSequence.numCached = 0 /\ WarmupSequence.numScheduled = WarmupLen
  /\ WarmupSequence.blockTable = << >> /\ WarmupSequence.isPrefill = TRUE
  /\ WarmupSequence.blockSize = BlockSize /\ WarmupSequence.request = "warmup"
  /\ Len(WarmupSequence.tokenIds) = WarmupLen
<1>1. MaxBatchedTokens \in Nat \ {0} /\ MaxModelLen \in Nat \ {0} BY RunnerAssumption
<1>2. WarmupLen \in Nat \ {0} BY <1>1, MinOfTwo DEF WarmupLen
<1>3. Len([i \in 1 .. WarmupLen |-> "zero"]) = WarmupLen BY <1>2
<1> QED BY <1>2, <1>3 DEF WarmupSequence

\* Every request of a batch is computable, and no two are the same.
LEMMA BatchComputable ==
  ASSUME RunnerInv, stage # "idle"
  PROVE  /\ Len(batch) \in Nat \ {0} /\ IsList(batch, Len(batch))
         /\ DOMAIN batch = 1 .. Len(batch)
         /\ \A k \in 1 .. Len(batch) :
              /\ Computable(batch[k])
               /\ batch[k].numCached + batch[k].numScheduled <= Len(batch[k].tokenIds)
         /\ Lengths(batch) \in [1 .. Len(batch) -> Nat]
<1>1. /\ Len(batch) \in Nat \ {0} /\ IsList(batch, Len(batch))
      /\ DOMAIN batch = 1 .. Len(batch)
  BY ListLen DEF RunnerInv, CallOK
<1>2. ASSUME NEW k \in 1 .. Len(batch)
      PROVE  /\ Computable(batch[k])
             /\ batch[k].numCached + batch[k].numScheduled <= Len(batch[k].tokenIds)
  <2>1. CASE phase = "warmup"
    <3>1. batch[k] = WarmupSequence BY <2>1 DEF RunnerInv, CallOK
    <3> DEFINE seq == WarmupSequence
    <3>2. /\ seq.numCached = 0 /\ seq.numScheduled \in Nat \ {0} /\ seq.blockSize = BlockSize
          /\ Len(seq.tokenIds) \in Nat /\ seq.numScheduled = Len(seq.tokenIds)
      BY WarmupFields
    <3> HIDE DEF seq
    <3>3. Computable(seq) /\ seq.numCached + seq.numScheduled <= Len(seq.tokenIds)
      BY <3>2 DEF Computable
    <3> QED BY <3>1, <3>3 DEF seq
  <2>2. CASE phase = "serve"
    <3>1. EntryOK(batch[k]) /\ TablesTyped /\ RequestOK(batch[k].request)
      BY <2>2 DEF RunnerInv, CallOK, RequestsInv, EntryOK
    <3>2. /\ batch[k].numCached \in Nat /\ batch[k].numScheduled \in Nat \ {0}
          /\ Len(batch[k].tokenIds) = numTokens[batch[k].request]
          /\ numTokens[batch[k].request] \in Nat \ {0}
          /\ batch[k].numCached + batch[k].numScheduled <= numTokens[batch[k].request]
          /\ batch[k].blockSize = BlockSize
      BY <3>1, EntryFields
    <3> QED BY <3>2 DEF Computable
  <2> QED BY <2>1, <2>2 DEF RunnerInv, CallOK
<1>3. Lengths(batch) \in [1 .. Len(batch) -> Nat]
  <2>1. \A k \in 1 .. Len(batch) : batch[k].numScheduled \in Nat BY <1>2 DEF Computable
  <2> QED BY <1>1, <2>1 DEF Lengths
<1> QED BY <1>1, <1>2, <1>3

(***************************************************************************)
(* What a rank has received, and what running it stores and reads.         *)
(***************************************************************************)
\* What a rank receives of a request differs at most in its tokens, which it may lack.
LEMMA ReceivedFields ==
  ASSUME RunnerInv, stage # "idle", EqualBlockSizes, NEW rank \in AllRanks
  PROVE  LET got == Received(rank, batch)
         IN  /\ IsList(got, Len(batch)) /\ DOMAIN got = 1 .. Len(batch)
             /\ \A k \in 1 .. Len(batch) :
                  /\ got[k].numCached = batch[k].numCached
                  /\ got[k].numScheduled = batch[k].numScheduled
                  /\ got[k].numTokens = batch[k].numTokens
                  /\ got[k].lastToken = batch[k].lastToken
                  /\ got[k].blockTable = batch[k].blockTable
                  /\ got[k].blockSize = BlockSize
                  /\ got[k].tokenIds = batch[k].tokenIds \/ got[k].tokenIds = << >>
                  /\ Computable(got[k])
             /\ Lengths(got) = Lengths(batch)
<1> DEFINE got == Received(rank, batch)
<1>1. /\ IsList(batch, Len(batch)) /\ DOMAIN batch = 1 .. Len(batch)
      /\ \A k \in 1 .. Len(batch) : Computable(batch[k])
  BY BatchComputable
<1>2. IsList(got, Len(batch)) /\ DOMAIN got = 1 .. Len(batch)
  BY <1>1 DEF Received, IsList
<1>3. rank = 0 \/ DefaultBlockSize = BlockSize
  <2>1. config \in Configs BY DEF RunnerInv
  <2>2. config.tp = 1 => rank = 0 BY <2>1, RankZero DEF AllRanks, Ranks
  <2> QED BY <2>1, <2>2 DEF EqualBlockSizes
<1>4. ASSUME NEW k \in 1 .. Len(batch)
      PROVE  /\ got[k].numCached = batch[k].numCached
             /\ got[k].numScheduled = batch[k].numScheduled
             /\ got[k].numTokens = batch[k].numTokens
             /\ got[k].lastToken = batch[k].lastToken
             /\ got[k].blockTable = batch[k].blockTable
             /\ got[k].blockSize = BlockSize
             /\ got[k].tokenIds = batch[k].tokenIds \/ got[k].tokenIds = << >>
  <2>1. CASE rank = 0
    <3>1. got[k] = batch[k] BY <1>1, <2>1 DEF Received
    <3>2. batch[k].blockSize = BlockSize BY <1>1 DEF Computable
    <3> HIDE DEF got
    <3> QED BY <3>1, <3>2
  <2>2. CASE rank # 0
    <3> DEFINE seq == batch[k]
    <3>1. got[k] = Pickled(seq) BY <1>1, <2>2 DEF Received
    <3> HIDE DEF got
    <3>2. /\ "tokenIds" \in DOMAIN seq /\ "blockSize" \in DOMAIN seq
          /\ "numCached" \in DOMAIN seq /\ "numScheduled" \in DOMAIN seq
          /\ "numTokens" \in DOMAIN seq /\ "lastToken" \in DOMAIN seq
          /\ "blockTable" \in DOMAIN seq
      <4>1. CASE phase = "warmup"
        <5>1. seq = WarmupSequence BY <4>1 DEF RunnerInv, CallOK
        <5> QED BY <5>1 DEF WarmupSequence
      <4>2. CASE phase = "serve"
        <5>1. seq = SequenceOf(seq.request, seq.numScheduled)
          BY <4>2 DEF RunnerInv, CallOK, EntryOK
        <5>2. "tokenIds" \in DOMAIN SequenceOf(seq.request, seq.numScheduled)
              /\ "blockSize" \in DOMAIN SequenceOf(seq.request, seq.numScheduled)
              /\ "numCached" \in DOMAIN SequenceOf(seq.request, seq.numScheduled)
              /\ "numScheduled" \in DOMAIN SequenceOf(seq.request, seq.numScheduled)
              /\ "numTokens" \in DOMAIN SequenceOf(seq.request, seq.numScheduled)
              /\ "lastToken" \in DOMAIN SequenceOf(seq.request, seq.numScheduled)
              /\ "blockTable" \in DOMAIN SequenceOf(seq.request, seq.numScheduled)
          BY DEF SequenceOf
        <5> HIDE DEF seq
        <5> QED BY <5>1, <5>2
      <4> QED BY <4>1, <4>2 DEF RunnerInv, CallOK
    <3> HIDE DEF seq
    <3>3. /\ Pickled(seq).numCached = seq.numCached
          /\ Pickled(seq).numScheduled = seq.numScheduled
          /\ Pickled(seq).numTokens = seq.numTokens
          /\ Pickled(seq).lastToken = seq.lastToken
          /\ Pickled(seq).blockTable = seq.blockTable
          /\ Pickled(seq).blockSize = DefaultBlockSize
          /\ Pickled(seq).tokenIds = seq.tokenIds \/ Pickled(seq).tokenIds = << >>
      BY <3>2 DEF Pickled
    <3> QED BY <1>3, <2>2, <3>1, <3>3 DEF seq
  <2> QED BY <2>1, <2>2
<1> HIDE DEF got
<1>5. ASSUME NEW k \in 1 .. Len(batch) PROVE Computable(got[k])
  <2>1. Len(got[k].tokenIds) \in Nat
    <3>1. Len(batch[k].tokenIds) \in Nat BY <1>1 DEF Computable
    <3>2. got[k].tokenIds = batch[k].tokenIds \/ got[k].tokenIds = << >> BY <1>4
    <3> QED BY <3>1, <3>2
  <2> QED BY <1>1, <1>4, <2>1 DEF Computable
<1>6. Lengths(got) = Lengths(batch) BY <1>1, <1>2, <1>4 DEF Lengths
<1> QED BY <1>2, <1>4, <1>5, <1>6 DEF got

\* A slot of a scheduled position is in the cache, and no other cached position has it.
LEMMA ScheduledSlot ==
  ASSUME RunnerInv, stage # "idle", phase = "serve",
         NEW k \in 1 .. Len(batch),
         NEW p \in batch[k].numCached .. batch[k].numCached + batch[k].numScheduled - 1
  PROVE  LET slot == SlotOf(batch[k].blockTable, p, BlockSize)
         IN  /\ slot \in 0 .. NumBlocks * BlockSize - 1
             /\ p \div BlockSize + 1 \in 1 .. Len(batch[k].blockTable)
             /\ \A o \in Requests, x \in Nat :
                  /\ x \div BlockSize + 1 \in 1 .. Len(table[o])
                  /\ SlotOf(table[o], x, BlockSize) = slot
                  => o = batch[k].request /\ x = p
<1> DEFINE seq == batch[k]
           r == seq.request
           slot == SlotOf(seq.blockTable, p, BlockSize)
           b == p \div BlockSize + 1
<1>1. TablesTyped /\ EntryOK(seq) /\ RequestOK(r) /\ r \in Requests
  BY DEF RunnerInv, CallOK, RequestsInv, EntryOK
<1>2. /\ seq.blockTable = table[r] /\ Len(seq.blockTable) = BlocksFor(numTokens[r], BlockSize)
      /\ seq.numCached = numCached[r] /\ seq.numCached \in Nat /\ seq.numScheduled \in Nat \ {0}
      /\ numTokens[r] \in Nat \ {0} /\ seq.numCached + seq.numScheduled <= numTokens[r]
  BY <1>1, EntryFields
<1>3. p \in Nat /\ p \in 0 .. numTokens[r] - 1 /\ numCached[r] <= p BY <1>2
<1>4. b \in 1 .. Len(table[r]) BY <1>2, <1>3, PositionInBlocks
<1>5. /\ table[r][b] \in Nat /\ table[r][b] \in 0 .. NumBlocks - 1
      /\ DOMAIN table[r] = 1 .. Len(table[r])
  BY <1>1, <1>4, TableTyped
<1>6. slot = SlotOf(table[r], p, BlockSize) BY <1>2
<1>7. /\ SlotOf(table[r], p, BlockSize) \in Nat
      /\ SlotOf(table[r], p, BlockSize) \div BlockSize = table[r][b]
      /\ SlotOf(table[r], p, BlockSize) % BlockSize = p % BlockSize
  BY <1>3, <1>5, SlotLies
<1>8. NumBlocks \in Nat \ {0} BY DEF RunnerInv, CacheShape
<1> HIDE DEF seq, r, slot
<1>9. slot \in 0 .. NumBlocks * BlockSize - 1 BY <1>5, <1>6, <1>7, <1>8, SlotsOfBlocks
<1>10. ASSUME NEW o \in Requests, NEW x \in Nat,
              x \div BlockSize + 1 \in 1 .. Len(table[o]),
              SlotOf(table[o], x, BlockSize) = slot
       PROVE  o = r /\ x = p
  <2> DEFINE c == x \div BlockSize + 1
  <2>1. table[o][c] \in Nat /\ DOMAIN table[o] = 1 .. Len(table[o])
    BY <1>1, <1>10, TableTyped
  <2>2. slot \div BlockSize = table[o][c] /\ slot % BlockSize = x % BlockSize
    BY <1>10, <2>1, SlotLies
  <2>3. table[r][b] = table[o][c] /\ x % BlockSize = p % BlockSize BY <1>6, <1>7, <2>2
  <2>4. c \in DOMAIN table[o] /\ b \in DOMAIN table[r] BY <1>4, <1>5, <1>10, <2>1
  <2>5. \/ r = o /\ b = c
        \/ b = 1 /\ numCached[r] >= BlockSize
    <3> HIDE DEF b, c
    <3> QED BY <1>1, <2>3, <2>4 DEF RunnerInv, RequestsInv, Ownership
  <2>6. /\ p \div BlockSize \in Nat /\ p = (p \div BlockSize) * BlockSize + (p % BlockSize)
        /\ x \div BlockSize \in Nat /\ x = (x \div BlockSize) * BlockSize + (x % BlockSize)
        /\ p % BlockSize \in 0 .. BlockSize - 1
    BY <1>3, DivBounds
  <2>7. ~(b = 1 /\ numCached[r] >= BlockSize)
    <3> SUFFICES ASSUME b = 1, numCached[r] >= BlockSize PROVE FALSE OBVIOUS
    <3>1. p \div BlockSize = 0 BY <2>6
    <3>2. p < BlockSize BY <2>6, <3>1, BlockSizeAssumption
    <3>3. numCached[r] \in Nat /\ BlockSize \in Nat BY <1>2, BlockSizeAssumption
    <3> QED BY <1>3, <3>2, <3>3
  <2>8. p \div BlockSize = x \div BlockSize
    <3>1. b = c BY <2>5, <2>7
    <3> QED BY <2>6, <3>1
  <2>9. x = p BY <2>3, <2>6, <2>8
  <2> QED BY <2>5, <2>7, <2>9
<1> QED BY <1>2, <1>4, <1>9, <1>10 DEF seq, r, slot

\* What a run leaves behind: in the slots of the positions it computed their rows,
\* elsewhere what was there.
Writes(before, after) ==
  /\ DOMAIN after = DOMAIN before
  /\ \A slot \in DOMAIN after : DOMAIN after[slot] = {"token", "pos"}
  /\ \A k \in 1 .. Len(batch) : \A i \in 1 .. batch[k].numScheduled :
       after[SlotOf(batch[k].blockTable, batch[k].numCached + i - 1, BlockSize)]
         = RowAt(batch[k], batch[k].numCached + i - 1)
  /\ \A slot \in DOMAIN before : after[slot] # before[slot] =>
       \E k \in 1 .. Len(batch) : \E i \in 1 .. batch[k].numScheduled :
         slot = SlotOf(batch[k].blockTable, batch[k].numCached + i - 1, BlockSize)

\* The row of a request in a batch is the row of its text.
LEMMA RowOfText ==
  ASSUME TablesTyped, NEW seq, EntryOK(seq), RequestOK(seq.request),
         NEW p \in 0 .. (seq.numCached + seq.numScheduled) - 1
  PROVE  RowAt(seq, p) = RowAt(TextOf(seq.request), p)
<1>1. /\ numTokens[seq.request] \in Nat \ {0} /\ seq.numCached \in Nat
      /\ seq.numScheduled \in Nat \ {0}
      /\ seq.numCached + seq.numScheduled <= numTokens[seq.request]
      /\ \A i \in 1 .. numTokens[seq.request] : seq.tokenIds[i] = Text[seq.request][i]
  BY EntryFields
<1>2. p + 1 \in 1 .. numTokens[seq.request] BY <1>1
<1> QED BY <1>1, <1>2 DEF RowAt, TextOf

\* After a run the cache holds of the requests in the batch what was computed too, and
\* of all others what it held before.
LEMMA HeldAfterRun ==
  ASSUME RunnerInv, stage # "idle", phase = "serve", NEW rank \in AllRanks, NEW after,
         Writes(kv[rank], after)
  PROVE  /\ \A r \in Requests : Held(after, table[r], TextOf(r), numCached[r])
         /\ \A k \in 1 .. Len(batch) :
              Held(after, batch[k].blockTable, TextOf(batch[k].request),
                   batch[k].numCached + batch[k].numScheduled)
<1>1. TablesTyped /\ \A r \in Requests : RequestOK(r) BY DEF RunnerInv, RequestsInv
<1>2. \A k \in 1 .. Len(batch) : EntryOK(batch[k]) /\ batch[k].request \in Requests
  BY DEF RunnerInv, CallOK, EntryOK
<1>3. ASSUME NEW r \in Requests, NEW p \in 0 .. numCached[r] - 1
      PROVE  after[SlotOf(table[r], p, BlockSize)] = RowAt(TextOf(r), p)
  <2> DEFINE slot == SlotOf(table[r], p, BlockSize)
             b == p \div BlockSize + 1
  <2>1. kv[rank][slot] = RowAt(TextOf(r), p) BY DEF RunnerInv, CacheHolds, Held
  <2>2. b \in 1 .. Len(table[r]) BY <1>1, CachedInTable
  <2>3. numCached[r] \in Nat /\ p \in Nat BY <1>1 DEF TablesTyped
  <2>4. slot \in DOMAIN kv[rank]
    <3>1. table[r][b] \in Nat /\ table[r][b] \in 0 .. NumBlocks - 1 BY <1>1, <2>2, TableTyped
    <3>2. slot \in Nat /\ slot \div BlockSize = table[r][b] BY <2>3, <3>1, SlotLies
    <3>3. NumBlocks \in Nat /\ DOMAIN kv[rank] = 0 .. NumBlocks * BlockSize - 1
      BY DEF RunnerInv, CacheShape
    <3> HIDE DEF slot, b
    <3> QED BY <3>1, <3>2, <3>3, SlotsOfBlocks
  <2> SUFFICES ASSUME after[slot] # kv[rank][slot] PROVE FALSE BY <2>1
  <2>5. PICK k \in 1 .. Len(batch) : \E i \in 1 .. batch[k].numScheduled :
          slot = SlotOf(batch[k].blockTable, batch[k].numCached + i - 1, BlockSize)
    <3> HIDE DEF slot
    <3> QED BY <2>4 DEF Writes
  <2>6. PICK i \in 1 .. batch[k].numScheduled :
          slot = SlotOf(batch[k].blockTable, batch[k].numCached + i - 1, BlockSize)
    BY <2>5
  <2> DEFINE x == batch[k].numCached + i - 1
  <2>7. EntryOK(batch[k]) /\ RequestOK(batch[k].request) BY <1>1, <1>2
  <2>8. /\ batch[k].numCached = numCached[batch[k].request] /\ batch[k].numCached \in Nat
        /\ batch[k].numScheduled \in Nat
    BY <1>1, <2>7, EntryFields
  <2>9. x \in batch[k].numCached .. batch[k].numCached + batch[k].numScheduled - 1
    BY <2>8
  <2>10. r = batch[k].request /\ p = x
    <3> HIDE DEF x
    <3>1. SlotOf(table[r], p, BlockSize) = SlotOf(batch[k].blockTable, x, BlockSize)
      BY <2>6 DEF x
    <3> QED BY <2>2, <2>3, <2>9, <3>1, ScheduledSlot
  <2>11. x \in Int /\ numCached[r] <= x BY <2>8, <2>10
  <2> QED BY <2>3, <2>10, <2>11
<1>4. ASSUME NEW k \in 1 .. Len(batch),
             NEW p \in 0 .. (batch[k].numCached + batch[k].numScheduled) - 1
      PROVE  after[SlotOf(batch[k].blockTable, p, BlockSize)]
               = RowAt(TextOf(batch[k].request), p)
  <2>1. EntryOK(batch[k]) /\ RequestOK(batch[k].request) /\ batch[k].request \in Requests
    BY <1>1, <1>2
  <2>2. /\ batch[k].numCached = numCached[batch[k].request] /\ batch[k].numCached \in Nat
        /\ batch[k].numScheduled \in Nat /\ batch[k].blockTable = table[batch[k].request]
    BY <1>1, <2>1, EntryFields
  <2> DEFINE c == batch[k].numCached
             m == batch[k].numScheduled
  <2>5. c \in Nat /\ m \in Nat /\ p \in 0 .. c + m - 1 BY <2>2
  <2>3. CASE p < batch[k].numCached
    <3>1. p \in 0 .. numCached[batch[k].request] - 1 BY <2>2, <2>3
    <3> QED BY <1>3, <2>1, <2>2, <3>1
  <2>4. CASE p >= batch[k].numCached
    <3> DEFINE i == p - batch[k].numCached + 1
    <3>3. p >= c BY <2>4
    <3>4. (p - c + 1) \in 1 .. m /\ c + (p - c + 1) - 1 = p
      <4> HIDE DEF c, m
      <4> QED BY <2>5, <3>3
    <3>1. i \in 1 .. batch[k].numScheduled /\ batch[k].numCached + i - 1 = p BY <3>4
    <3> HIDE DEF i
    <3>2. after[SlotOf(batch[k].blockTable, p, BlockSize)] = RowAt(batch[k], p)
      BY <3>1 DEF Writes
    <3> QED BY <1>1, <2>1, <3>2, RowOfText
  <2>7. p < c \/ p >= c
    <3> HIDE DEF c, m
    <3> QED BY <2>5
  <2>6. p < batch[k].numCached \/ p >= batch[k].numCached BY <2>7
  <2> HIDE DEF c, m
  <2> QED BY <2>3, <2>4, <2>6
<1>5. ASSUME NEW r \in Requests PROVE Held(after, table[r], TextOf(r), numCached[r])
  BY <1>3 DEF Held
<1>6. ASSUME NEW k \in 1 .. Len(batch)
      PROVE  Held(after, batch[k].blockTable, TextOf(batch[k].request),
                  batch[k].numCached + batch[k].numScheduled)
  BY <1>4 DEF Held
<1> QED BY <1>5, <1>6

\* The slot and the row of the i-th token that is computed of the k-th request.
SlotAt(k, i) == SlotOf(batch[k].blockTable, batch[k].numCached + i - 1, BlockSize)
ComputedRow(k, i) == RowAt(batch[k], batch[k].numCached + i - 1)

\* If every slot of a run that is in the cache is one of a computed position, next to the
\* row of that position, and every computed position has its slot, then storing them
\* leaves behind what it should: no two computed positions have the same slot.
LEMMA StoreWrites ==
  ASSUME RunnerInv, stage # "idle", phase = "serve", NEW rank \in AllRanks,
         NEW m \in Nat, NEW slots, IsList(slots, m), NEW rows,
         \A j \in 1 .. m : slots[j] \in DOMAIN kv[rank] =>
           \E k \in 1 .. Len(batch) : \E i \in 1 .. batch[k].numScheduled :
             slots[j] = SlotAt(k, i) /\ rows[j] = ComputedRow(k, i),
         \A k \in 1 .. Len(batch) : \A i \in 1 .. batch[k].numScheduled :
           \E j \in 1 .. m : slots[j] = SlotAt(k, i)
  PROVE  Writes(kv[rank], StoreKvCache(kv[rank], rows, slots))
<1> DEFINE before == kv[rank]
           after == StoreKvCache(before, rows, slots)
<1>1. DOMAIN after = DOMAIN before BY DEF StoreKvCache
<1>2. ASSUME NEW slot \in DOMAIN before, \A j \in 1 .. m : slots[j] # slot
      PROVE  after[slot] = before[slot]
  BY <1>2, StoreLeaves
<1>11. ASSUME NEW slot \in DOMAIN before, NEW row, HasSlot(row, rows, slots, slot, m)
       PROVE  after[slot] = row
  BY <1>11, StorePuts
<1>3. ASSUME NEW k \in 1 .. Len(batch), NEW i \in 1 .. batch[k].numScheduled
      PROVE  /\ batch[k].numCached \in Nat /\ batch[k].numScheduled \in Nat
             /\ batch[k].blockTable = table[batch[k].request]
             /\ batch[k].request \in Requests
             /\ batch[k].numCached + i - 1 \in Nat
             /\ batch[k].numCached + i - 1
                  \in batch[k].numCached .. batch[k].numCached + batch[k].numScheduled - 1
  <2>1. TablesTyped /\ EntryOK(batch[k]) /\ RequestOK(batch[k].request)
    BY DEF RunnerInv, CallOK, RequestsInv, EntryOK
  <2>2. /\ batch[k].numCached \in Nat /\ batch[k].numScheduled \in Nat
        /\ batch[k].blockTable = table[batch[k].request]
        /\ batch[k].request \in Requests
    BY <2>1, EntryFields
  <2> DEFINE c == batch[k].numCached
             ns == batch[k].numScheduled
  <2>3. c \in Nat /\ ns \in Nat /\ i \in 1 .. ns BY <2>2
  <2>4. c + i - 1 \in Nat /\ c + i - 1 \in c .. c + ns - 1
    <3> HIDE DEF c, ns
    <3> QED BY <2>3
  <2> QED BY <2>2, <2>4
<1>4. ASSUME NEW k \in 1 .. Len(batch), NEW i \in 1 .. batch[k].numScheduled,
             NEW l \in 1 .. Len(batch), NEW h \in 1 .. batch[l].numScheduled,
             SlotAt(k, i) = SlotAt(l, h)
      PROVE  ComputedRow(k, i) = ComputedRow(l, h)
  <2> DEFINE p == batch[k].numCached + i - 1
             x == batch[l].numCached + h - 1
  <2>1. /\ p \in batch[k].numCached .. batch[k].numCached + batch[k].numScheduled - 1
        /\ x \in Nat
        /\ x \in batch[l].numCached .. batch[l].numCached + batch[l].numScheduled - 1
        /\ batch[l].request \in Requests /\ batch[l].blockTable = table[batch[l].request]
    BY <1>3
  <2> HIDE DEF p, x
  <2>2. SlotOf(batch[k].blockTable, p, BlockSize) = SlotOf(batch[l].blockTable, x, BlockSize)
    BY <1>4 DEF SlotAt, p, x
  <2>3. x \div BlockSize + 1 \in 1 .. Len(batch[l].blockTable)
    BY <2>1, ScheduledSlot
  <2>6. \A o \in Requests, y \in Nat :
          /\ y \div BlockSize + 1 \in 1 .. Len(table[o])
          /\ SlotOf(table[o], y, BlockSize) = SlotOf(batch[k].blockTable, p, BlockSize)
          => o = batch[k].request /\ y = p
    BY <2>1, ScheduledSlot
  <2>4. batch[l].request = batch[k].request /\ x = p
    BY <2>1, <2>2, <2>3, <2>6
  <2>5. k = l BY <2>4 DEF RunnerInv, CallOK
  <2> QED BY <2>4, <2>5 DEF ComputedRow, p, x
<1>5. ASSUME NEW k \in 1 .. Len(batch), NEW i \in 1 .. batch[k].numScheduled
      PROVE  SlotAt(k, i) \in DOMAIN before
  <2> DEFINE p == batch[k].numCached + i - 1
  <2>1. p \in batch[k].numCached .. batch[k].numCached + batch[k].numScheduled - 1 BY <1>3
  <2> HIDE DEF p
  <2>2. SlotOf(batch[k].blockTable, p, BlockSize) \in 0 .. NumBlocks * BlockSize - 1
    BY <2>1, ScheduledSlot
  <2>3. DOMAIN before = 0 .. NumBlocks * BlockSize - 1 BY DEF RunnerInv, CacheShape
  <2> QED BY <2>2, <2>3 DEF SlotAt, p
<1> HIDE DEF after
<1>6. ASSUME NEW k \in 1 .. Len(batch), NEW i \in 1 .. batch[k].numScheduled
      PROVE  after[SlotAt(k, i)] = ComputedRow(k, i)
  <2>1. \A j \in 1 .. m : slots[j] = SlotAt(k, i) => rows[j] = ComputedRow(k, i)
    <3> SUFFICES ASSUME NEW j \in 1 .. m, slots[j] = SlotAt(k, i)
                 PROVE  rows[j] = ComputedRow(k, i)
      OBVIOUS
    <3>1. slots[j] \in DOMAIN kv[rank] BY <1>5
    <3>2. PICK l \in 1 .. Len(batch) : \E h \in 1 .. batch[l].numScheduled :
            slots[j] = SlotAt(l, h) /\ rows[j] = ComputedRow(l, h)
      BY <3>1
    <3>3. PICK h \in 1 .. batch[l].numScheduled :
            slots[j] = SlotAt(l, h) /\ rows[j] = ComputedRow(l, h)
      BY <3>2
    <3>4. SlotAt(k, i) = SlotAt(l, h) BY <3>3
    <3>5. ComputedRow(k, i) = ComputedRow(l, h) BY <1>4, <3>2, <3>3, <3>4
    <3> QED BY <3>3, <3>5
  <2>2. \E j \in 1 .. m : slots[j] = SlotAt(k, i) OBVIOUS
  <2>3. HasSlot(ComputedRow(k, i), rows, slots, SlotAt(k, i), m) BY <2>1, <2>2 DEF HasSlot
  <2> QED BY <1>11, <1>5, <2>3
<1>7. ASSUME NEW slot \in DOMAIN before, after[slot] # before[slot]
      PROVE  \E k \in 1 .. Len(batch) : \E i \in 1 .. batch[k].numScheduled : slot = SlotAt(k, i)
  <2>1. PICK j \in 1 .. m : slots[j] = slot BY <1>2, <1>7
  <2> QED BY <2>1
<1>8. ASSUME NEW slot \in DOMAIN after PROVE DOMAIN after[slot] = {"token", "pos"}
  <2>1. CASE after[slot] = before[slot]
    <3>1. \A s \in DOMAIN before : DOMAIN before[s] = {"token", "pos"}
      BY DEF RunnerInv, CacheShape
    <3> QED BY <1>1, <2>1, <3>1
  <2>2. CASE after[slot] # before[slot]
    <3>1. PICK k \in 1 .. Len(batch) : \E i \in 1 .. batch[k].numScheduled : slot = SlotAt(k, i)
      BY <1>1, <1>7, <2>2
    <3>2. PICK i \in 1 .. batch[k].numScheduled : slot = SlotAt(k, i) BY <3>1
    <3>3. after[slot] = ComputedRow(k, i) BY <1>6, <3>2
    <3>4. DOMAIN ComputedRow(k, i) = {"token", "pos"} BY DEF ComputedRow, RowAt
    <3> QED BY <3>3, <3>4
  <2> QED BY <2>1, <2>2
<1>9. /\ \A k \in 1 .. Len(batch) : \A i \in 1 .. batch[k].numScheduled :
           after[SlotAt(k, i)] = ComputedRow(k, i)
      /\ \A slot \in DOMAIN before : after[slot] # before[slot] =>
           \E k \in 1 .. Len(batch) : \E i \in 1 .. batch[k].numScheduled : slot = SlotAt(k, i)
  BY <1>6, <1>7
<1>10. Writes(before, after)
  <2> HIDE DEF before
  <2> QED BY <1>1, <1>8, <1>9 DEF Writes, SlotAt, ComputedRow
<1> QED BY <1>10 DEF after

\* What a computed row attends to.
Computes(k, i) ==
  [row |-> ComputedRow(k, i), keys |-> PrefixRows(batch[k], batch[k].numCached + i)]
Computed(k) == [i \in 1 .. batch[k].numScheduled |-> Computes(k, i)]

\* Rows of which each attends to its own request up to itself are what is expected.
LEMMA AttendsExpected ==
  ASSUME RunnerInv, stage # "idle", NEW att,
         Joins(att, [k \in 1 .. Len(batch) |-> Computed(k)], Lengths(batch), Len(batch))
  PROVE  /\ att = FlattenSeq([k \in DOMAIN batch |->
                    [i \in 1 .. batch[k].numScheduled |->
                       LET own == RowsOf(batch[k].tokenIds, batch[k].numCached + i)
                       IN  [row |-> Last(own), keys |-> own]]])
         /\ \A k \in 1 .. Len(batch) :
              att[Cumulated(Lengths(batch))[k + 1]].row.pos
                = batch[k].numCached + batch[k].numScheduled - 1
<1> DEFINE n == Len(batch)
           L == Lengths(batch)
           want == [k \in 1 .. n |-> Computed(k)]
           Own(k, i) == LET own == RowsOf(batch[k].tokenIds, batch[k].numCached + i)
                        IN  [row |-> Last(own), keys |-> own]
           said == [k \in DOMAIN batch |-> [i \in 1 .. batch[k].numScheduled |-> Own(k, i)]]
<1>1. /\ n \in Nat /\ DOMAIN batch = 1 .. n /\ L \in [1 .. n -> Nat]
      /\ \A k \in 1 .. n : batch[k].numCached \in Nat /\ batch[k].numScheduled \in Nat \ {0}
  BY BatchComputable DEF Computable
<1>2. \A k \in 1 .. n : L[k] = batch[k].numScheduled BY <1>1 DEF Lengths
<1>3. ASSUME NEW k \in 1 .. n, NEW i \in 1 .. batch[k].numScheduled
      PROVE  Own(k, i) = Computes(k, i)
  <2> DEFINE c == batch[k].numCached
             own == RowsOf(batch[k].tokenIds, c + i)
             e == c + i
  <2>1. c \in Nat /\ i \in Nat \ {0} BY <1>1
  <2>2. e \in Nat \ {0} /\ e - 1 + 1 = e /\ c + i - 1 = e - 1
    <3> HIDE DEF c
    <3> QED BY <2>1
  <2> HIDE DEF e
  <2>3. own = [j \in 1 .. e |-> [token |-> batch[k].tokenIds[j], pos |-> j - 1]]
    BY DEF RowsOf, e
  <2>4. own = PrefixRows(batch[k], e)
    <3>1. \A j \in 1 .. e : j - 1 + 1 = j BY <2>2
    <3> QED BY <2>3, <3>1 DEF PrefixRows, RowAt
  <2>5. Last(own) = RowAt(batch[k], e - 1)
    <3> DEFINE f == [j \in 1 .. e |-> [token |-> batch[k].tokenIds[j], pos |-> j - 1]]
    <3>1. Len(f) = e BY <2>2
    <3>2. Last(f) = f[e] BY <3>1 DEF Last
    <3>3. f[e] = [token |-> batch[k].tokenIds[e], pos |-> e - 1] BY <2>2
    <3> HIDE DEF f
    <3>4. Last(own) = [token |-> batch[k].tokenIds[e], pos |-> e - 1]
      BY <2>3, <3>2, <3>3 DEF f
    <3> QED BY <2>2, <3>4 DEF RowAt
  <2>6. Own(k, i) = [row |-> Last(own), keys |-> own] OBVIOUS
  <2>7. Computes(k, i) = [row |-> RowAt(batch[k], e - 1), keys |-> PrefixRows(batch[k], e)]
    BY <2>2 DEF Computes, ComputedRow, e
  <2> HIDE DEF own, Own
  <2> QED BY <2>4, <2>5, <2>6, <2>7
<1>4. said = want
  <2>1. \A k \in 1 .. n : Computed(k) = [i \in 1 .. batch[k].numScheduled |-> Own(k, i)]
    <3> HIDE DEF Own
    <3> QED BY <1>3 DEF Computed
  <2> HIDE DEF Own
  <2> QED BY <1>1, <2>1
<1>5. IsList(want, n) /\ \A k \in 1 .. n : want[k] = Computed(k) BY DEF IsList
<1>6. \A k \in 1 .. n : IsList(Computed(k), L[k]) BY <1>2 DEF IsList, Computed
<1> HIDE DEF want, L, n, said
<1>7. Joins(FlattenSeq(want), want, L, n) BY <1>1, <1>5, <1>6, FlattenJoins
<1>8. Joins(att, want, L, n) BY DEF want, L, n
<1>9. att = FlattenSeq(said) BY <1>1, <1>4, <1>7, <1>8, JoinsUnique
<1>10. ASSUME NEW k \in 1 .. n
       PROVE  att[Cumulated(L)[k + 1]].row.pos = batch[k].numCached + batch[k].numScheduled - 1
  <2> DEFINE ns == batch[k].numScheduled
  <2>1. SumsOf(Cumulated(L), L, n) BY <1>1, RunningSums
  <2>2. Cumulated(L)[k + 1] = Cumulated(L)[k] + ns BY <1>2, <2>1 DEF SumsOf
  <2>3. ns \in 1 .. L[k] BY <1>1, <1>2
  <2>9. \A i \in 1 .. L[k] : att[Cumulated(L)[k] + i] = want[k][i]
    <3> HIDE DEF ns
    <3> QED BY <1>8 DEF Joins
  <2>4. att[Cumulated(L)[k] + ns] = want[k][ns]
    <3> HIDE DEF ns
    <3> QED BY <2>3, <2>9
  <2>10. Computed(k)[ns] = Computes(k, ns) BY <1>2, <2>3 DEF Computed
  <2>5. want[k][ns] = Computes(k, ns) BY <1>5, <2>10
  <2>6. Computes(k, ns).row.pos = batch[k].numCached + ns - 1
    BY DEF Computes, ComputedRow, RowAt
  <2> HIDE DEF ns
  <2>7. att[Cumulated(L)[k + 1]] = Computes(k, ns) BY <2>2, <2>4, <2>5
  <2>8. att[Cumulated(L)[k + 1]].row.pos = batch[k].numCached + ns - 1 BY <2>6, <2>7
  <2> QED BY <2>8 DEF ns
<1> QED BY <1>9, <1>10 DEF said, L, n

(***************************************************************************)
(* Runs.                                                                   *)
(***************************************************************************)
\* The rows of a request depend on its tokens and on what is scheduled of it.
LEMMA RowsAgree ==
  ASSUME NEW a, NEW b, a.tokenIds = b.tokenIds, a.numCached = b.numCached,
         a.numScheduled = b.numScheduled
  PROVE  /\ ScheduledRows(a) = ScheduledRows(b)
         /\ ScheduledReads(a) = ScheduledReads(b)
<1>1. \A p \in Int : RowAt(a, p) = RowAt(b, p) BY DEF RowAt
<1>2. ScheduledRows(a) = ScheduledRows(b) BY DEF ScheduledRows, RowAt
<1>3. ScheduledReads(a) = ScheduledReads(b) BY DEF ScheduledReads, PrefixRows, RowAt
<1> QED BY <1>2, <1>3

\* What is held behind the table of a request is held behind one that begins like it.
LEMMA HeldByTable ==
  ASSUME TablesTyped, NEW seq, EntryOK(seq), RequestOK(seq.request), NEW cache, NEW tab,
         Held(cache, seq.blockTable, TextOf(seq.request), seq.numCached + seq.numScheduled),
         \A c \in 1 .. Len(seq.blockTable) : tab[c] = seq.blockTable[c]
  PROVE  Held(cache, tab, seq, seq.numCached + seq.numScheduled)
<1> DEFINE n == seq.numCached + seq.numScheduled
<1>1. /\ numTokens[seq.request] \in Nat \ {0} /\ n \in Nat
      /\ n <= numTokens[seq.request]
      /\ Len(seq.blockTable) = BlocksFor(numTokens[seq.request], BlockSize)
  <2>1. /\ numTokens[seq.request] \in Nat \ {0} /\ seq.numCached \in Nat
        /\ seq.numScheduled \in Nat \ {0}
        /\ seq.numCached + seq.numScheduled <= numTokens[seq.request]
        /\ Len(seq.blockTable) = BlocksFor(numTokens[seq.request], BlockSize)
    BY EntryFields
  <2> QED BY <2>1
<1>2. ASSUME NEW p \in 0 .. n - 1
      PROVE  cache[SlotOf(tab, p, BlockSize)] = RowAt(seq, p)
  <2>1. p \in 0 .. numTokens[seq.request] - 1
    <3> HIDE DEF n
    <3> QED BY <1>1
  <2>2. p \div BlockSize + 1 \in 1 .. Len(seq.blockTable) BY <1>1, <2>1, PositionInBlocks
  <2>3. SlotOf(tab, p, BlockSize) = SlotOf(seq.blockTable, p, BlockSize) BY <2>2 DEF SlotOf
  <2>4. cache[SlotOf(seq.blockTable, p, BlockSize)] = RowAt(TextOf(seq.request), p) BY DEF Held
  <2>5. RowAt(seq, p) = RowAt(TextOf(seq.request), p) BY RowOfText
  <2> QED BY <2>3, <2>4, <2>5
<1> QED BY <1>2 DEF Held

\* The rows that were computed and what they read, joined request by request.
LEMMA JoinsComputed ==
  ASSUME RunnerInv, stage # "idle", NEW rows, NEW read,
         Joins(rows, [k \in 1 .. Len(batch) |-> ScheduledRows(batch[k])],
               Lengths(batch), Len(batch)),
         Joins(read, [k \in 1 .. Len(batch) |-> ScheduledReads(batch[k])],
               Lengths(batch), Len(batch)),
         NEW att, att = [i \in DOMAIN rows |-> [row |-> rows[i], keys |-> read[i]]]
  PROVE  Joins(att, [k \in 1 .. Len(batch) |-> Computed(k)], Lengths(batch), Len(batch))
<1> DEFINE n == Len(batch)
           L == Lengths(batch)
           cu == Cumulated(L)
           A == [k \in 1 .. n |-> ScheduledRows(batch[k])]
           B == [k \in 1 .. n |-> ScheduledReads(batch[k])]
           C == [k \in 1 .. n |-> Computed(k)]
<1>1. n \in Nat /\ L \in [1 .. n -> Nat] /\ DOMAIN batch = 1 .. n BY BatchComputable
<1>2. \A k \in 1 .. n : L[k] = batch[k].numScheduled BY <1>1 DEF Lengths
<1>3. ASSUME NEW k \in 1 .. n, NEW i \in 1 .. L[k]
      PROVE  C[k][i] = [row |-> A[k][i], keys |-> B[k][i]]
  <2>1. i \in 1 .. batch[k].numScheduled BY <1>2
  <2>2. Computed(k)[i] = Computes(k, i) BY <2>1 DEF Computed
  <2>3. ScheduledRows(batch[k])[i] = ComputedRow(k, i)
    BY <2>1 DEF ScheduledRows, ComputedRow
  <2>4. ScheduledReads(batch[k])[i] = PrefixRows(batch[k], batch[k].numCached + i)
    BY <2>1 DEF ScheduledReads
  <2> QED BY <2>2, <2>3, <2>4 DEF Computes
<1> HIDE DEF A, B, C, L, n
<1>4. Joins(rows, A, L, n) /\ Joins(read, B, L, n) BY DEF A, B, L, n
<1>5. DOMAIN rows = 1 .. cu[n + 1] BY <1>1, <1>4, JoinsLen
<1>6. att = [i \in 1 .. cu[n + 1] |-> [row |-> rows[i], keys |-> read[i]]] BY <1>5
<1>7. IsList(att, cu[n + 1])
  <2> HIDE DEF cu
  <2> QED BY <1>6 DEF IsList
<1>8. ASSUME NEW k \in 1 .. n, NEW i \in 1 .. L[k]
      PROVE  att[cu[k] + i] = C[k][i]
  <2>1. cu[k] + i \in 1 .. cu[n + 1] BY <1>1, Located
  <2>2. rows[cu[k] + i] = A[k][i] BY <1>4 DEF Joins
  <2>3. read[cu[k] + i] = B[k][i] BY <1>4 DEF Joins
  <2>4. att[cu[k] + i] = [row |-> rows[cu[k] + i], keys |-> read[cu[k] + i]]
    <3> HIDE DEF cu
    <3> QED BY <1>6, <2>1
  <2> HIDE DEF cu
  <2> QED BY <1>3, <2>2, <2>3, <2>4
<1>9. Joins(att, C, L, n) BY <1>7, <1>8 DEF Joins
<1> QED BY <1>9 DEF C, L, n

\* In a call that is prepared, a rank has the context of what it received.
LEMMA Prepared ==
  ASSUME RunnerInv, stage # "idle", NEW rank \in AllRanks
  PROVE  /\ IsPrefill \in BOOLEAN
         /\ IsPrefill => context[rank] = PrefillContext(rank, batch)
         /\ ~IsPrefill => context[rank] = DecodeContext(rank, batch)
         /\ context[rank].isPrefill = IsPrefill
         /\ phase = "serve" \/ (phase = "warmup" /\ IsPrefill)
<1>1. IsPrefill \in BOOLEAN /\ context = ContextFor(IsPrefill) BY DEF RunnerInv, CallOK
<1>2. /\ IsPrefill => context[rank] = PrefillContext(rank, batch)
      /\ ~IsPrefill => context[rank] = DecodeContext(rank, batch)
  BY <1>1 DEF ContextFor
<1>3. context[rank].isPrefill = IsPrefill
  <2>1. PrefillContext(rank, batch).isPrefill = TRUE BY DEF PrefillContext
  <2>2. DecodeContext(rank, batch).isPrefill = FALSE BY DEF DecodeContext
  <2>3. CASE IsPrefill BY <1>2, <2>1, <2>3
  <2>4. CASE ~IsPrefill BY <1>1, <1>2, <2>2, <2>4
  <2> QED BY <2>3, <2>4
<1>4. phase = "serve" \/ (phase = "warmup" /\ IsPrefill) BY DEF RunnerInv, CallOK
<1> QED BY <1>1, <1>2, <1>3, <1>4

\* Eagerly, a prefill computes the rows of what is scheduled: a rank that lacks the
\* tokens of a request does not get this far.
LEMMA PrefillRun ==
  ASSUME RunnerInv, stage = "prepared", EqualBlockSizes, NEW rank \in AllRanks,
         IsPrefill, RowsMatch(rank)
  PROVE  /\ \A k \in 1 .. Len(batch) :
              Received(rank, batch)[k].tokenIds = batch[k].tokenIds
         /\ context[rank].meta = BuildPrefillMetadata(Received(rank, batch))
         /\ Joins(InputRows(context[rank].meta.inputIds, context[rank].meta.positions),
                  [k \in 1 .. Len(batch) |-> ScheduledRows(batch[k])],
                  Lengths(batch), Len(batch))
<1> DEFINE n == Len(batch)
           got == Received(rank, batch)
           meta == context[rank].meta
<1>1. meta = BuildPrefillMetadata(got)
  <2>1. context[rank] = PrefillContext(rank, batch) BY Prepared
  <2> QED BY <2>1 DEF PrefillContext
<1>2. /\ n \in Nat /\ IsList(got, n) /\ Lengths(got) = Lengths(batch)
      /\ \A k \in 1 .. n :
           /\ got[k].numCached = batch[k].numCached
           /\ got[k].numScheduled = batch[k].numScheduled
           /\ got[k].tokenIds = batch[k].tokenIds \/ got[k].tokenIds = << >>
           /\ Computable(got[k])
  BY BatchComputable, ReceivedFields
<1>3. Len(meta.inputIds) = Len(meta.positions) BY DEF RowsMatch
<1> HIDE DEF got, meta, n
<1>4. /\ \A k \in 1 .. n : got[k].numCached + got[k].numScheduled <= Len(got[k].tokenIds)
      /\ Joins(InputRows(meta.inputIds, meta.positions),
               [k \in 1 .. n |-> ScheduledRows(got[k])], Lengths(got), n)
  BY <1>1, <1>2, <1>3, PrefillRows
<1>5. ASSUME NEW k \in 1 .. n PROVE got[k].tokenIds = batch[k].tokenIds
  <2>1. got[k].numCached \in Nat /\ got[k].numScheduled \in Nat \ {0}
    BY <1>2 DEF Computable
  <2>2. Len(got[k].tokenIds) # 0 BY <1>4, <2>1
  <2> QED BY <1>2, <2>2
<1>6. \A k \in 1 .. n : ScheduledRows(got[k]) = ScheduledRows(batch[k])
  BY <1>2, <1>5, RowsAgree
<1>7. [k \in 1 .. n |-> ScheduledRows(got[k])] = [k \in 1 .. n |-> ScheduledRows(batch[k])]
  BY <1>6
<1>8. Joins(InputRows(meta.inputIds, meta.positions),
            [k \in 1 .. n |-> ScheduledRows(batch[k])], Lengths(batch), n)
  BY <1>2, <1>4, <1>7
<1> QED BY <1>1, <1>5, <1>8 DEF got, meta, n

\* And attends to what it should, if the cache holds what was cached and is computed.
LEMMA PrefillReads ==
  ASSUME RunnerInv, stage = "prepared", EqualBlockSizes, NEW rank \in AllRanks,
         IsPrefill, RowsMatch(rank), NEW cache,
         phase = "serve" => \A k \in 1 .. Len(batch) :
           Held(cache, batch[k].blockTable, TextOf(batch[k].request),
                batch[k].numCached + batch[k].numScheduled)
  PROVE  Joins(VarlenAttention(context[rank].meta,
                 InputRows(context[rank].meta.inputIds, context[rank].meta.positions),
                 cache, context[rank].blockTables),
               [k \in 1 .. Len(batch) |-> ScheduledReads(batch[k])],
               Lengths(batch), Len(batch))
<1> DEFINE n == Len(batch)
           got == Received(rank, batch)
           meta == context[rank].meta
           rows == InputRows(meta.inputIds, meta.positions)
           tables == context[rank].blockTables
<1>1. /\ n \in Nat \ {0} /\ IsList(batch, n)
      /\ IsList(got, n) /\ Lengths(got) = Lengths(batch) /\ DOMAIN got = 1 .. n
      /\ \A k \in 1 .. n :
           /\ got[k].numCached = batch[k].numCached
           /\ got[k].numScheduled = batch[k].numScheduled
           /\ got[k].tokenIds = batch[k].tokenIds
           /\ Computable(got[k])
  BY BatchComputable, ReceivedFields, PrefillRun
<1>2. meta = BuildPrefillMetadata(got)
      /\ Joins(rows, [k \in 1 .. n |-> ScheduledRows(batch[k])], Lengths(batch), n)
  BY PrefillRun
<1>3. \A k \in 1 .. n : /\ ScheduledRows(got[k]) = ScheduledRows(batch[k])
                        /\ ScheduledReads(got[k]) = ScheduledReads(batch[k])
  BY <1>1, RowsAgree
<1>4. Joins(rows, [k \in 1 .. n |-> ScheduledRows(got[k])], Lengths(got), n)
  <2>1. [k \in 1 .. n |-> ScheduledRows(got[k])] = [k \in 1 .. n |-> ScheduledRows(batch[k])]
    BY <1>3
  <2> QED BY <1>1, <1>2, <2>1
<1>5. meta.needBlockTables => \A k \in 1 .. n :
        Held(cache, tables[k], got[k], got[k].numCached + got[k].numScheduled)
  <2>1. CASE phase = "warmup"
    <3>1. \A k \in 1 .. n : got[k].numCached = 0 /\ got[k].numScheduled \in Nat
      BY <1>1, <2>1, WarmupFields DEF RunnerInv, CallOK, Computable
    <3>2. Ends(got) = Lengths(got) BY <1>1, <3>1 DEF Ends, Lengths
    <3>3. meta.needBlockTables <=> Cumulated(Lengths(got))[n + 1] < Cumulated(Ends(got))[n + 1]
      BY <1>1, <1>2, PrefillParts
    <3>4. Cumulated(Lengths(got))[n + 1] \in Nat
      BY <1>1, BatchComputable, RunningSums DEF SumsOf
    <3> QED BY <3>2, <3>3, <3>4
  <2>2. CASE phase = "serve"
    <3> SUFFICES ASSUME meta.needBlockTables, NEW k \in 1 .. n
                 PROVE  Held(cache, tables[k], got[k], got[k].numCached + got[k].numScheduled)
      OBVIOUS
    <3>1. context[rank] = PrefillContext(rank, batch) BY Prepared
    <3>2. tables = BuildBlockTables(batch) BY <1>2, <3>1 DEF PrefillContext
    <3>3. TablesTyped /\ EntryOK(batch[k]) /\ RequestOK(batch[k].request)
      BY <2>2 DEF RunnerInv, CallOK, RequestsInv, EntryOK
    <3>4. \A l \in 1 .. n : Len(batch[l].blockTable) \in Nat
      <4> SUFFICES ASSUME NEW l \in 1 .. n PROVE Len(batch[l].blockTable) \in Nat OBVIOUS
      <4>1. EntryOK(batch[l]) /\ RequestOK(batch[l].request) /\ batch[l].request \in Requests
        BY <2>2 DEF RunnerInv, CallOK, RequestsInv, EntryOK
      <4>2. batch[l].blockTable = table[batch[l].request] BY <3>3, <4>1, EntryFields
      <4> QED BY <3>3, <4>1, <4>2, TableTyped
    <3> HIDE DEF tables, n
    <3>5. PICK width \in Nat : PaddedTo(BuildBlockTables(batch), batch, n, width)
      BY <1>1, <3>4, PaddedTables
    <3>6. \A c \in 1 .. Len(batch[k].blockTable) : tables[k][c] = batch[k].blockTable[c]
      BY <3>2, <3>5 DEF PaddedTo
    <3>7. Held(cache, batch[k].blockTable, TextOf(batch[k].request),
               batch[k].numCached + batch[k].numScheduled)
      BY <2>2 DEF n
    <3>8. Held(cache, tables[k], batch[k], batch[k].numCached + batch[k].numScheduled)
      BY <3>3, <3>6, <3>7, HeldByTable
    <3> QED BY <1>1, <3>8 DEF Held, RowAt
  <2> QED BY <2>1, <2>2, Prepared
<1> HIDE DEF n, got, meta, rows, tables
<1>6. Joins(VarlenAttention(meta, rows, cache, tables),
            [k \in 1 .. n |-> ScheduledReads(got[k])], Lengths(got), n)
  BY <1>1, <1>2, <1>4, <1>5, VarlenReads
<1>7. [k \in 1 .. n |-> ScheduledReads(got[k])] = [k \in 1 .. n |-> ScheduledReads(batch[k])]
  BY <1>3
<1>8. Joins(VarlenAttention(meta, rows, cache, tables),
            [k \in 1 .. n |-> ScheduledReads(batch[k])], Lengths(batch), n)
  BY <1>1, <1>6, <1>7
<1> QED BY <1>8 DEF n, meta, rows, tables

\* A decode computes the newest token of every request.
LEMMA DecodeRun ==
  ASSUME RunnerInv, stage = "prepared", EqualBlockSizes, NEW rank \in AllRanks, ~IsPrefill
  PROVE  LET meta == context[rank].meta
             n == Len(batch)
         IN  /\ phase = "serve"
             /\ IsList(meta.inputIds, n) /\ IsList(meta.positions, n)
             /\ IsList(meta.slotMapping, n) /\ IsList(meta.contextLens, n)
             /\ \A k \in 1 .. n :
                  /\ [token |-> meta.inputIds[k], pos |-> meta.positions[k]] = ComputedRow(k, 1)
                  /\ meta.slotMapping[k] = SlotAt(k, 1)
                  /\ meta.contextLens[k] = batch[k].numCached + 1
                  /\ batch[k].numScheduled = 1 /\ batch[k].numCached \in Nat
             /\ context[rank].blockTables = BuildBlockTables(batch)
             /\ \E width \in Nat : PaddedTo(BuildBlockTables(batch), batch, n, width)
<1> DEFINE n == Len(batch)
           got == Received(rank, batch)
           meta == context[rank].meta
<1>1. phase = "serve" /\ context[rank] = DecodeContext(rank, batch) BY Prepared
<1>2. meta = BuildDecodeMetadata(got) /\ context[rank].blockTables = BuildBlockTables(batch)
  BY <1>1 DEF DecodeContext
<1>3. /\ n \in Nat \ {0} /\ IsList(batch, n) /\ IsList(got, n)
      /\ \A k \in 1 .. n :
           /\ got[k].numCached = batch[k].numCached
           /\ got[k].numScheduled = batch[k].numScheduled
           /\ got[k].numTokens = batch[k].numTokens
           /\ got[k].lastToken = batch[k].lastToken
           /\ got[k].blockTable = batch[k].blockTable
           /\ Computable(got[k])
  BY BatchComputable, ReceivedFields
<1>4. ASSUME NEW k \in 1 .. n
      PROVE  /\ batch[k].numScheduled = 1 /\ batch[k].numCached \in Nat
             /\ batch[k].numTokens = batch[k].numCached + 1
             /\ batch[k].lastToken = batch[k].tokenIds[batch[k].numCached + 1]
             /\ Len(batch[k].blockTable) \in Nat
             /\ Len(batch[k].blockTable) = BlocksFor(batch[k].numTokens, BlockSize)
             /\ \A i \in 1 .. Len(batch[k].blockTable) : batch[k].blockTable[i] \in Nat
  <2> DEFINE r == batch[k].request
  <2>1. TablesTyped /\ EntryOK(batch[k]) /\ RequestOK(r) /\ r \in Requests /\ r \in prefilled
    BY <1>1 DEF RunnerInv, CallOK, RequestsInv, EntryOK
  <2>2. /\ batch[k].blockTable = table[r]
        /\ Len(batch[k].blockTable) = BlocksFor(numTokens[r], BlockSize)
        /\ batch[k].numCached = numCached[r] /\ batch[k].numCached \in Nat
        /\ batch[k].numTokens = numTokens[r] /\ numTokens[r] \in Nat \ {0}
        /\ batch[k].numScheduled \in Nat \ {0}
        /\ batch[k].numCached + batch[k].numScheduled <= numTokens[r]
        /\ \A i \in 1 .. numTokens[r] : batch[k].tokenIds[i] = Text[r][i]
        /\ batch[k].lastToken = Text[r][numTokens[r]]
    BY <2>1, EntryFields
  <2>3. numCached[r] = numTokens[r] - 1 BY <2>1 DEF RequestOK
  <2>4. /\ Len(table[r]) \in Nat
        /\ \A i \in 1 .. Len(table[r]) : table[r][i] \in Nat
    BY <2>1, TableTyped
  <2> DEFINE ns == batch[k].numScheduled
             c == batch[k].numCached
             t == numTokens[r]
  <2>5. ns \in Nat \ {0} /\ c \in Nat /\ t \in Nat \ {0} /\ c + ns <= t /\ c = t - 1
    BY <2>2, <2>3
  <2>6. ns = 1 /\ t = c + 1 /\ t \in 1 .. t
    <3> HIDE DEF ns, c, t
    <3> QED BY <2>5
  <2>7. batch[k].tokenIds[t] = Text[r][t]
    <3> HIDE DEF ns, c, r
    <3> QED BY <2>2, <2>6
  <2>8. batch[k].lastToken = batch[k].tokenIds[c + 1] BY <2>2, <2>6, <2>7
  <2>9. batch[k].numScheduled = 1 /\ batch[k].numTokens = batch[k].numCached + 1
    BY <2>2, <2>6
  <2> QED BY <2>2, <2>4, <2>8, <2>9
<1>5. \A k \in 1 .. n : Decodes(got[k]) BY <1>3, <1>4 DEF Decodes
<1> HIDE DEF got, meta, n
<1>6. /\ IsList(meta.inputIds, n) /\ IsList(meta.positions, n)
      /\ IsList(meta.slotMapping, n) /\ IsList(meta.contextLens, n)
      /\ \A k \in 1 .. n :
           /\ meta.inputIds[k] = got[k].lastToken
           /\ meta.positions[k] = got[k].numCached
           /\ meta.contextLens[k] = got[k].numCached + 1
           /\ meta.slotMapping[k] = SlotOf(got[k].blockTable, got[k].numCached, BlockSize)
  BY <1>2, <1>3, <1>5, DecodeParts
<1>7. ASSUME NEW k \in 1 .. n
      PROVE  /\ [token |-> meta.inputIds[k], pos |-> meta.positions[k]] = ComputedRow(k, 1)
             /\ meta.slotMapping[k] = SlotAt(k, 1)
             /\ meta.contextLens[k] = batch[k].numCached + 1
  <2>1. batch[k].numCached + 1 - 1 = batch[k].numCached BY <1>4
  <2>2. meta.inputIds[k] = batch[k].tokenIds[batch[k].numCached + 1]
    BY <1>3, <1>4, <1>6
  <2>3. meta.positions[k] = batch[k].numCached BY <1>3, <1>6
  <2>4. ComputedRow(k, 1) = [token |-> batch[k].tokenIds[batch[k].numCached + 1],
                             pos |-> batch[k].numCached]
    BY <2>1 DEF ComputedRow, RowAt
  <2>5. SlotAt(k, 1) = SlotOf(batch[k].blockTable, batch[k].numCached, BlockSize)
    BY <2>1 DEF SlotAt
  <2> QED BY <1>3, <1>6, <2>2, <2>3, <2>4, <2>5
<1>8. \E width \in Nat : PaddedTo(BuildBlockTables(batch), batch, n, width)
  BY <1>3, <1>4, PaddedTables
<1> QED BY <1>1, <1>2, <1>4, <1>6, <1>7, <1>8 DEF meta, n

\* Eagerly, a run stores what it should; there is no cache to store to in the warmup.
LEMMA EagerWrites ==
  ASSUME RunnerInv, stage = "prepared", EqualBlockSizes, NEW rank \in AllRanks,
         RowsMatch(rank)
  PROVE  /\ phase = "serve" => Writes(kv[rank], StoredByRun(rank))
         /\ phase = "warmup" => StoredByRun(rank) = kv[rank]
<1> DEFINE n == Len(batch)
           L == Lengths(batch)
           got == Received(rank, batch)
           meta == context[rank].meta
           rows == InputRows(meta.inputIds, meta.positions)
           slots == meta.slotMapping
<1>1. ASSUME phase = "warmup" PROVE StoredByRun(rank) = kv[rank]
  <2>1. kv[rank] = << >> BY <1>1 DEF RunnerInv, CacheShape
  <2> QED BY <2>1 DEF StoredByRun
<1> SUFFICES ASSUME phase = "serve" PROVE Writes(kv[rank], StoredByRun(rank)) BY <1>1
<1>2. kv[rank] # << >>
  <2>1. NumBlocks \in Nat \ {0} /\ DOMAIN kv[rank] = 0 .. NumBlocks * BlockSize - 1
    BY DEF RunnerInv, CacheShape
  <2>2. BlockSize \in Nat \ {0} BY BlockSizeAssumption
  <2>3. NumBlocks * BlockSize \in Nat \ {0} BY <2>1, <2>2
  <2>4. 0 \in DOMAIN kv[rank] BY <2>1, <2>3
  <2> QED BY <2>4
<1>3. StoredByRun(rank) = StoreKvCache(kv[rank], rows, slots) BY <1>2 DEF StoredByRun
<1>4. /\ n \in Nat /\ DOMAIN batch = 1 .. n /\ L \in [1 .. n -> Nat] BY BatchComputable
<1>5. \A k \in 1 .. n : L[k] = batch[k].numScheduled BY <1>4 DEF Lengths
<1>6. CASE IsPrefill
  <2> DEFINE cu == Cumulated(L)
             m == cu[n + 1]
             A == [k \in 1 .. n |-> ScheduledRows(batch[k])]
             B == [k \in 1 .. n |-> SlotsOf(got[k])]
  <2>1. /\ IsList(got, n) /\ Lengths(got) = L
        /\ \A k \in 1 .. n :
             /\ got[k].numCached = batch[k].numCached
             /\ got[k].numScheduled = batch[k].numScheduled
             /\ got[k].blockTable = batch[k].blockTable
             /\ Computable(got[k])
    BY ReceivedFields
  <2>2. meta = BuildPrefillMetadata(got) /\ Joins(rows, A, L, n) BY <1>6, PrefillRun
  <2>3. ASSUME NEW k \in 1 .. n PROVE got[k].blockTable # << >>
    <3>1. TablesTyped /\ EntryOK(batch[k]) /\ RequestOK(batch[k].request)
      BY DEF RunnerInv, CallOK, RequestsInv, EntryOK
    <3>2. batch[k].blockTable # << >> BY <3>1, EntryFields
    <3> QED BY <2>1, <3>2
  <2>4. ASSUME NEW k \in 1 .. n, NEW i \in 1 .. L[k]
        PROVE  A[k][i] = ComputedRow(k, i) /\ B[k][i] = SlotAt(k, i)
    <3>1. i \in 1 .. batch[k].numScheduled BY <1>5
    <3>2. ScheduledRows(batch[k])[i] = ComputedRow(k, i)
      BY <3>1 DEF ScheduledRows, ComputedRow
    <3>3. SlotsOf(got[k])[i] = SlotAt(k, i) BY <2>1, <3>1 DEF SlotsOf, SlotAt
    <3> QED BY <3>2, <3>3
  <2> HIDE DEF A, n, L, got, meta, rows
  <2>5. Joins(slots, B, L, n)
    <3>1. Joins(BuildPrefillMetadata(got).slotMapping, [k \in 1 .. n |-> SlotsOf(got[k])],
                Lengths(got), n)
      BY <1>4, <2>1, <2>3, PrefillSlots
    <3> QED BY <2>1, <2>2, <3>1
  <2> HIDE DEF B, slots
  <2>6. m \in Nat /\ IsList(slots, m)
    <3>1. m \in Nat BY <1>4, RunningSums DEF SumsOf
    <3> QED BY <2>5, <3>1 DEF Joins
  <2>7. ASSUME NEW k \in 1 .. n, NEW i \in 1 .. L[k]
        PROVE  rows[cu[k] + i] = ComputedRow(k, i) /\ slots[cu[k] + i] = SlotAt(k, i)
    <3>1. rows[cu[k] + i] = A[k][i] BY <2>2 DEF Joins
    <3>2. slots[cu[k] + i] = B[k][i] BY <2>5 DEF Joins
    <3> QED BY <2>4, <3>1, <3>2
  <2>8. ASSUME NEW j \in 1 .. m
        PROVE  \E k \in 1 .. n : \E i \in 1 .. batch[k].numScheduled :
                 slots[j] = SlotAt(k, i) /\ rows[j] = ComputedRow(k, i)
    <3>1. PICK k \in 1 .. n : \E i \in 1 .. L[k] : j = cu[k] + i BY <1>4, Located
    <3>2. PICK i \in 1 .. L[k] : j = cu[k] + i BY <3>1
    <3> HIDE DEF cu
    <3>3. slots[j] = SlotAt(k, i) /\ rows[j] = ComputedRow(k, i) BY <2>7, <3>1, <3>2
    <3> QED BY <1>5, <3>1, <3>2, <3>3
  <2>9. ASSUME NEW k \in 1 .. n, NEW i \in 1 .. batch[k].numScheduled
        PROVE  \E j \in 1 .. m : slots[j] = SlotAt(k, i)
    <3>1. i \in 1 .. L[k] BY <1>5
    <3>2. cu[k] + i \in 1 .. m BY <1>4, <3>1, Located
    <3> HIDE DEF cu, m
    <3> QED BY <2>7, <3>1, <3>2
  <2> HIDE DEF m
  <2>10. Writes(kv[rank], StoreKvCache(kv[rank], rows, slots))
    BY <2>6, <2>8, <2>9, StoreWrites DEF n
  <2> QED BY <1>3, <2>10
<1>7. CASE ~IsPrefill
  <2>1. /\ IsList(meta.inputIds, n) /\ IsList(slots, n)
        /\ \A k \in 1 .. n :
             /\ [token |-> meta.inputIds[k], pos |-> meta.positions[k]] = ComputedRow(k, 1)
             /\ slots[k] = SlotAt(k, 1)
             /\ batch[k].numScheduled = 1
    BY <1>7, DecodeRun
  <2>2. DOMAIN meta.inputIds = 1 .. n BY <1>4, <2>1, ListLen
  <2>3. \A k \in 1 .. n : rows[k] = ComputedRow(k, 1) BY <2>1, <2>2 DEF InputRows
  <2> HIDE DEF rows, slots, meta
  <2>4. \A j \in 1 .. n : \E k \in 1 .. n : \E i \in 1 .. batch[k].numScheduled :
          slots[j] = SlotAt(k, i) /\ rows[j] = ComputedRow(k, i)
    <3>1. ASSUME NEW j \in 1 .. n
          PROVE  1 \in 1 .. batch[j].numScheduled
                 /\ slots[j] = SlotAt(j, 1) /\ rows[j] = ComputedRow(j, 1)
      BY <2>1, <2>3
    <3> QED BY <3>1
  <2>5. ASSUME NEW k \in 1 .. n, NEW i \in 1 .. batch[k].numScheduled
        PROVE  \E j \in 1 .. n : slots[j] = SlotAt(k, i)
    <3>1. batch[k].numScheduled = 1 BY <2>1
    <3>2. i = 1 BY <3>1
    <3> QED BY <2>1, <3>2
  <2>6. Writes(kv[rank], StoreKvCache(kv[rank], rows, slots))
    BY <1>4, <2>1, <2>4, <2>5, StoreWrites
  <2> QED BY <1>3, <2>6
<1> QED BY <1>6, <1>7

\* What a decode reads through a table that begins like that of the request.
LEMMA DecodeReads ==
  ASSUME RunnerInv, stage = "prepared", EqualBlockSizes, ~IsPrefill,
         NEW rank \in AllRanks, NEW cache, Writes(kv[rank], cache),
         NEW k \in 1 .. Len(batch), NEW tab,
         \A c \in 1 .. Len(batch[k].blockTable) : tab[c] = batch[k].blockTable[c]
  PROVE  CachedRows(cache, tab, batch[k].numCached + 1)
           = PrefixRows(batch[k], batch[k].numCached + 1)
<1>1. phase = "serve" /\ batch[k].numScheduled = 1 /\ batch[k].numCached \in Nat
  BY DecodeRun
<1>2. Held(cache, batch[k].blockTable, TextOf(batch[k].request),
           batch[k].numCached + batch[k].numScheduled)
  BY <1>1, HeldAfterRun
<1>3. TablesTyped /\ EntryOK(batch[k]) /\ RequestOK(batch[k].request)
  BY <1>1 DEF RunnerInv, CallOK, RequestsInv, EntryOK
<1>4. Held(cache, tab, batch[k], batch[k].numCached + 1)
  <2>1. Held(cache, tab, batch[k], batch[k].numCached + batch[k].numScheduled)
    BY <1>2, <1>3, HeldByTable
  <2> QED BY <1>1, <2>1
<1>5. batch[k].numCached + 1 \in Nat BY <1>1
<1> QED BY <1>4, <1>5, HeldIsRead

\* The rows of a decode, one of every request.
LEMMA DecodeJoins ==
  ASSUME RunnerInv, stage = "prepared", EqualBlockSizes, ~IsPrefill, NEW att,
         IsList(att, Len(batch)),
         \A k \in 1 .. Len(batch) : att[k] = Computes(k, 1)
  PROVE  Joins(att, [k \in 1 .. Len(batch) |-> Computed(k)], Lengths(batch), Len(batch))
<1> DEFINE n == Len(batch)
           C == [k \in 1 .. n |-> Computed(k)]
<1>1. n \in Nat /\ DOMAIN batch = 1 .. n BY BatchComputable
<1>2. 0 \in AllRanks BY RankZero DEF RunnerInv
<1>3. \A k \in 1 .. n : batch[k].numScheduled = 1 BY <1>2, DecodeRun
<1>4. Lengths(batch) = [k \in 1 .. n |-> 1] BY <1>1, <1>3 DEF Lengths
<1>5. ASSUME NEW k \in 1 .. n PROVE att[k] = C[k][1]
  <2>1. Computed(k)[1] = Computes(k, 1) BY <1>3 DEF Computed
  <2> QED BY <2>1
<1> HIDE DEF C, n
<1>6. IsList(att, n) BY DEF n
<1>7. Joins(att, C, Lengths(batch), n) BY <1>1, <1>4, <1>5, <1>6, JoinsSingles
<1> QED BY <1>7 DEF C, n

\* What an eager run computes from a cache.
EagerAttended(rank, cache) ==
  LET ctx == context[rank]
      rows == InputRows(ctx.meta.inputIds, ctx.meta.positions)
      read == IF ctx.isPrefill
              THEN VarlenAttention(ctx.meta, rows, cache, ctx.blockTables)
              ELSE KvCacheAttention(ctx.meta.contextLens, ctx.blockTables, cache)
  IN  [i \in DOMAIN rows |-> [row |-> rows[i], keys |-> read[i]]]

\* Every row of an eager run attends to its own request up to itself.
LEMMA EagerReads ==
  ASSUME RunnerInv, stage = "prepared", EqualBlockSizes, NEW rank \in AllRanks,
         RowsMatch(rank)
  PROVE  Joins(EagerAttended(rank, StoredByRun(rank)),
               [k \in 1 .. Len(batch) |-> Computed(k)], Lengths(batch), Len(batch))
<1> DEFINE n == Len(batch)
           cache == StoredByRun(rank)
           ctx == context[rank]
           rows == InputRows(ctx.meta.inputIds, ctx.meta.positions)
           att == EagerAttended(rank, cache)
<1>1. ctx.isPrefill = IsPrefill /\ IsPrefill \in BOOLEAN BY Prepared
<1>2. phase = "serve" => Writes(kv[rank], cache) BY EagerWrites
<1>3. CASE IsPrefill
  <2> DEFINE read == VarlenAttention(ctx.meta, rows, cache, ctx.blockTables)
  <2>1. Joins(rows, [k \in 1 .. n |-> ScheduledRows(batch[k])], Lengths(batch), n)
    BY <1>3, PrefillRun
  <2>2. phase = "serve" => \A k \in 1 .. n :
          Held(cache, batch[k].blockTable, TextOf(batch[k].request),
               batch[k].numCached + batch[k].numScheduled)
    BY <1>2, HeldAfterRun
  <2>3. Joins(read, [k \in 1 .. n |-> ScheduledReads(batch[k])], Lengths(batch), n)
    BY <1>3, <2>2, PrefillReads
  <2>4. att = [i \in DOMAIN rows |-> [row |-> rows[i], keys |-> read[i]]]
    BY <1>1, <1>3 DEF EagerAttended
  <2> HIDE DEF rows, read, att
  <2>5. Joins(att, [k \in 1 .. n |-> Computed(k)], Lengths(batch), n)
    BY <2>1, <2>3, <2>4, JoinsComputed
  <2> QED BY <2>5 DEF att
<1>4. CASE ~IsPrefill
  <2> DEFINE meta == ctx.meta
             read == KvCacheAttention(meta.contextLens, ctx.blockTables, cache)
  <2>1. /\ phase = "serve"
        /\ IsList(meta.inputIds, n) /\ IsList(meta.contextLens, n)
        /\ \A k \in 1 .. n :
             /\ [token |-> meta.inputIds[k], pos |-> meta.positions[k]] = ComputedRow(k, 1)
             /\ meta.contextLens[k] = batch[k].numCached + 1
        /\ ctx.blockTables = BuildBlockTables(batch)
        /\ \E width \in Nat : PaddedTo(BuildBlockTables(batch), batch, n, width)
    BY <1>4, DecodeRun
  <2>2. n \in Nat BY BatchComputable
  <2>3. DOMAIN meta.inputIds = 1 .. n /\ DOMAIN meta.contextLens = 1 .. n
    BY <2>1, <2>2, ListLen
  <2>4. att = [i \in DOMAIN rows |-> [row |-> rows[i], keys |-> read[i]]]
    BY <1>1, <1>4 DEF EagerAttended
  <2>5. DOMAIN rows = 1 .. n /\ \A k \in 1 .. n : rows[k] = ComputedRow(k, 1)
    BY <2>1, <2>3 DEF InputRows
  <2>6. ASSUME NEW k \in 1 .. n
        PROVE  read[k] = PrefixRows(batch[k], batch[k].numCached + 1)
    <3>1. PICK width \in Nat : PaddedTo(BuildBlockTables(batch), batch, n, width) BY <2>1
    <3> DEFINE tab == ctx.blockTables[k]
    <3>2. \A c \in 1 .. Len(batch[k].blockTable) : tab[c] = batch[k].blockTable[c]
      BY <2>1, <3>1 DEF PaddedTo
    <3> HIDE DEF tab, cache
    <3>3. CachedRows(cache, tab, batch[k].numCached + 1)
            = PrefixRows(batch[k], batch[k].numCached + 1)
      BY <1>2, <1>4, <2>1, <3>2, DecodeReads
    <3>4. read[k] = CachedRows(cache, tab, meta.contextLens[k])
      BY <2>3 DEF KvCacheAttention, tab
    <3>5. meta.contextLens[k] = batch[k].numCached + 1 BY <2>1
    <3> QED BY <3>3, <3>4, <3>5
  <2> HIDE DEF att, rows, read
  <2>7. IsList(att, n) BY <2>4, <2>5 DEF IsList
  <2>8. \A k \in 1 .. n : att[k] = Computes(k, 1)
    BY <2>4, <2>5, <2>6 DEF Computes
  <2>9. Joins(att, [k \in 1 .. n |-> Computed(k)], Lengths(batch), n)
    BY <1>4, <2>7, <2>8, DecodeJoins
  <2> QED BY <2>9 DEF att
<1> QED BY <1>1, <1>3, <1>4

\* A buffer stays as long as it is, with the new entries in front.
LEMMA OverwrittenIs ==
  ASSUME NEW m \in Nat, NEW buffer, IsList(buffer, m), NEW new
  PROVE  /\ IsList(Overwritten(buffer, new), m)
         /\ \A n \in Nat : n <= m /\ DOMAIN new = 1 .. n =>
              /\ \A j \in 1 .. n : Overwritten(buffer, new)[j] = new[j]
              /\ \A j \in 1 .. m : j > n => Overwritten(buffer, new)[j] = buffer[j]
<1>1. DOMAIN buffer = 1 .. m BY ListLen
<1>2. Overwritten(buffer, new) =
        [i \in 1 .. m |-> IF i \in DOMAIN new THEN new[i] ELSE buffer[i]]
  BY <1>1 DEF Overwritten
<1>3. IsList(Overwritten(buffer, new), m) BY <1>2 DEF IsList
<1> QED BY <1>2, <1>3

\* Sizes of the graphs' buffers.
LEMMA BufferSizes ==
  /\ MaxBs \in Nat \ {0} /\ MaxBs <= MaxNumSeqs /\ MaxBs <= MaxGraphBatch
  /\ \A n \in Nat : n <= MaxNumSeqs /\ n <= MaxGraphBatch => n <= MaxBs
  /\ MaxNumBlocks \in Nat /\ GraphBs \subseteq Nat
<1>1. /\ MaxNumSeqs \in Nat \ {0} /\ MaxGraphBatch \in Nat \ {0}
      /\ MaxModelLen \in Nat \ {0} /\ BatchStride \in Nat \ {0}
      /\ SmallBatches \subseteq Nat
  BY RunnerAssumption
<1>2. MaxBs = IF MaxNumSeqs < MaxGraphBatch THEN MaxNumSeqs ELSE MaxGraphBatch
  BY <1>1, MinOfTwo DEF MaxBs
<1>3. MaxNumBlocks \in Nat BY <1>1, PositionInBlocks DEF MaxNumBlocks
<1>4. GraphBs \subseteq Nat
  <2>1. MaxBs \in Nat BY <1>1, <1>2
  <2>2. \A bs \in BatchStride .. MaxBs : bs \in Nat BY <1>1, <2>1
  <2>3. {bs \in BatchStride .. MaxBs : bs % BatchStride = 0} \subseteq Nat BY <2>2
  <2> QED BY <1>1, <2>3 DEF GraphBs
<1> QED BY <1>1, <1>2, <1>3, <1>4

\* The size of the graph that is replayed.
ReplaySize == Min({Min({size \in graphs : size >= BatchSize}), MaxBs})

\* It has room for the batch and is not larger than the buffers.
LEMMA ReplayFits ==
  ASSUME RunnerInv, stage = "prepared", UseGraph, GraphFits
  PROVE  /\ ~IsPrefill /\ phase = "serve"
         /\ Len(batch) \in Nat \ {0} /\ ReplaySize \in Nat
         /\ Len(batch) <= ReplaySize /\ ReplaySize <= MaxBs
         /\ \A rank \in AllRanks : BuffersShaped(graphVars[rank])
<1> DEFINE n == Len(batch)
           S == {size \in graphs : size >= n}
<1>1. ~IsPrefill /\ ~(n > MaxGraphBatch) BY DEF UseGraph, BatchSize
<1>2. 0 \in AllRanks BY RankZero DEF RunnerInv
<1>3. phase = "serve" BY <1>1, <1>2, Prepared
<1>4. n \in Nat \ {0} /\ n <= MaxNumSeqs BY <1>3, BatchComputable DEF RunnerInv, CallOK
<1>5. n <= MaxBs /\ MaxBs \in Nat /\ GraphBs \subseteq Nat
  <2>1. MaxGraphBatch \in Nat BY RunnerAssumption
  <2>2. n <= MaxGraphBatch
    <3> HIDE DEF n
    <3> QED BY <1>1, <1>4, <2>1
  <2> HIDE DEF n
  <2> QED BY <1>4, <2>2, BufferSizes
<1>6. S # {} BY DEF GraphFits, HasGraph, BatchSize
<1>7. S \in SUBSET Nat BY <1>5 DEF RunnerInv, GraphsOK
<1> HIDE DEF S
<1>8. Min(S) \in S BY <1>6, <1>7, Smallest
<1>9. Min(S) \in Nat /\ Min(S) >= n
  <2>1. Min(S) \in Nat BY <1>7, <1>8
  <2> QED BY <1>8, <2>1 DEF S
<1>10. ReplaySize = Min({Min(S), MaxBs}) BY DEF ReplaySize, BatchSize, S
<1>11. ReplaySize \in Nat /\ n <= ReplaySize /\ ReplaySize <= MaxBs
  <2> DEFINE x == Min(S)
             y == MaxBs
  <2>1. x \in Nat /\ y \in Nat /\ x >= n /\ n <= y BY <1>5, <1>9
  <2> HIDE DEF x, y, n
  <2>2. Min({x, y}) \in Nat /\ n <= Min({x, y}) /\ Min({x, y}) <= y
    BY <1>4, <2>1, MinOfTwo
  <2> QED BY <1>10, <2>2 DEF x, y
<1>12. \A rank \in AllRanks : BuffersShaped(graphVars[rank])
  BY DEF RunnerInv, GraphsOK, GraphFits, HasGraph
<1> QED BY <1>1, <1>3, <1>4, <1>11, <1>12

\* What the buffers hold of a batch: its rows in front, and no slots behind them.
LEMMA FilledIs ==
  ASSUME RunnerInv, stage = "prepared", EqualBlockSizes, UseGraph, GraphFits,
         NEW rank \in AllRanks, NEW bufs, bufs = Filled(graphVars[rank], context[rank])
  PROVE  /\ BuffersShaped(bufs)
         /\ \A k \in 1 .. Len(batch) :
              /\ [token |-> bufs.inputIds[k], pos |-> bufs.positions[k]] = ComputedRow(k, 1)
              /\ bufs.slotMapping[k] = SlotAt(k, 1)
              /\ bufs.contextLens[k] = batch[k].numCached + 1
              /\ batch[k].numScheduled = 1
              /\ \A c \in 1 .. Len(batch[k].blockTable) :
                   bufs.blockTables[k][c] = batch[k].blockTable[c]
         /\ \A j \in 1 .. MaxBs : j > Len(batch) => bufs.slotMapping[j] = Unused
<1> DEFINE n == Len(batch)
           old == graphVars[rank]
           ctx == context[rank]
           meta == ctx.meta
<1>1. /\ ~IsPrefill /\ phase = "serve" /\ BuffersShaped(old)
      /\ n \in Nat \ {0} /\ n <= MaxBs
  <2>1. /\ ~IsPrefill /\ phase = "serve" /\ BuffersShaped(old)
        /\ n \in Nat \ {0} /\ ReplaySize \in Nat /\ n <= ReplaySize /\ ReplaySize <= MaxBs
    BY ReplayFits
  <2>2. MaxBs \in Nat BY BufferSizes
  <2> HIDE DEF n
  <2> QED BY <2>1, <2>2
<1>2. /\ IsList(meta.inputIds, n) /\ IsList(meta.positions, n)
      /\ IsList(meta.slotMapping, n) /\ IsList(meta.contextLens, n)
      /\ \A k \in 1 .. n :
           /\ [token |-> meta.inputIds[k], pos |-> meta.positions[k]] = ComputedRow(k, 1)
           /\ meta.slotMapping[k] = SlotAt(k, 1)
           /\ meta.contextLens[k] = batch[k].numCached + 1
           /\ batch[k].numScheduled = 1
      /\ ctx.blockTables = BuildBlockTables(batch)
      /\ \E width \in Nat : PaddedTo(BuildBlockTables(batch), batch, n, width)
  BY <1>1, DecodeRun
<1>3. PICK width \in Nat : PaddedTo(ctx.blockTables, batch, n, width) BY <1>2
<1>4. width <= MaxNumBlocks
  <2>1. 0 \in AllRanks BY RankZero DEF RunnerInv
  <2>2. context[0].blockTables = ctx.blockTables BY <1>1, <1>2, <2>1, DecodeRun
  <2>3. 1 \in 1 .. n BY <1>1
  <2>4. IsList(ctx.blockTables[1], width) BY <1>3, <2>3 DEF PaddedTo
  <2>5. Len(ctx.blockTables[1]) = width BY <1>3, <2>4, ListLen
  <2>6. TableWidth = width BY <2>2, <2>5 DEF TableWidth
  <2> QED BY <2>6 DEF GraphFits
<1>5. MaxBs \in Nat /\ MaxNumBlocks \in Nat BY BufferSizes
<1>6. /\ IsList(old.inputIds, MaxBs) /\ IsList(old.positions, MaxBs)
      /\ IsList(old.slotMapping, MaxBs) /\ IsList(old.contextLens, MaxBs)
      /\ IsList(old.blockTables, MaxBs)
      /\ \A k \in 1 .. MaxBs : IsList(old.blockTables[k], MaxNumBlocks)
  BY <1>1 DEF BuffersShaped
<1> HIDE DEF n, old, meta
<1>7. /\ DOMAIN meta.inputIds = 1 .. n /\ DOMAIN meta.positions = 1 .. n
      /\ DOMAIN meta.slotMapping = 1 .. n /\ DOMAIN meta.contextLens = 1 .. n
  BY <1>1, <1>2, ListLen
<1> DEFINE ids == LeftOver(old.inputIds, "stale")
           poss == LeftOver(old.positions, Stale)
           slots == [i \in DOMAIN old.slotMapping |-> Unused]
           lens == [i \in DOMAIN old.contextLens |-> 0]
           newTable(k) == IF k \in DOMAIN ctx.blockTables THEN ctx.blockTables[k] ELSE << >>
           tabs == [k \in DOMAIN old.blockTables |->
                      Overwritten(LeftOver(old.blockTables[k], Stale), newTable(k))]
<1>8. /\ bufs.inputIds = Overwritten(ids, meta.inputIds)
      /\ bufs.positions = Overwritten(poss, meta.positions)
      /\ bufs.slotMapping = Overwritten(slots, meta.slotMapping)
      /\ bufs.contextLens = Overwritten(lens, meta.contextLens)
      /\ bufs.blockTables = tabs
  <2> DEFINE b == Filled(graphVars[rank], context[rank])
  <2>1. /\ b.inputIds = Overwritten(ids, meta.inputIds)
        /\ b.positions = Overwritten(poss, meta.positions)
        /\ b.slotMapping = Overwritten(slots, meta.slotMapping)
        /\ b.contextLens = Overwritten(lens, meta.contextLens)
        /\ b.blockTables = tabs
    BY DEF Filled, old, meta
  <2> HIDE DEF b, ids, poss, slots, lens, tabs
  <2>2. bufs = b BY DEF b
  <2> QED BY <2>1, <2>2
<1>9. /\ IsList(ids, MaxBs) /\ IsList(poss, MaxBs)
      /\ IsList(slots, MaxBs) /\ IsList(lens, MaxBs)
      /\ \A j \in 1 .. MaxBs : slots[j] = Unused
      /\ DOMAIN old.blockTables = 1 .. MaxBs
  <2>1. /\ DOMAIN old.inputIds = 1 .. MaxBs /\ DOMAIN old.positions = 1 .. MaxBs
        /\ DOMAIN old.slotMapping = 1 .. MaxBs /\ DOMAIN old.contextLens = 1 .. MaxBs
        /\ DOMAIN old.blockTables = 1 .. MaxBs
    BY <1>5, <1>6, ListLen
  <2> QED BY <2>1 DEF LeftOver, IsList
<1> HIDE DEF ids, poss, slots, lens, tabs
<1>10. /\ IsList(bufs.inputIds, MaxBs) /\ IsList(bufs.positions, MaxBs)
       /\ IsList(bufs.slotMapping, MaxBs) /\ IsList(bufs.contextLens, MaxBs)
  BY <1>5, <1>8, <1>9, OverwrittenIs
<1>11. ASSUME NEW k \in 1 .. n
       PROVE  /\ bufs.inputIds[k] = meta.inputIds[k] /\ bufs.positions[k] = meta.positions[k]
              /\ bufs.slotMapping[k] = meta.slotMapping[k]
              /\ bufs.contextLens[k] = meta.contextLens[k]
  BY <1>1, <1>5, <1>7, <1>8, <1>9, OverwrittenIs
<1>12. \A j \in 1 .. MaxBs : j > n => bufs.slotMapping[j] = Unused
  BY <1>1, <1>5, <1>7, <1>8, <1>9, OverwrittenIs
<1>13. IsList(bufs.blockTables, MaxBs)
  <2>1. tabs = [k \in 1 .. MaxBs |->
                  Overwritten(LeftOver(old.blockTables[k], Stale), newTable(k))]
    BY <1>9 DEF tabs
  <2> HIDE DEF newTable
  <2> QED BY <1>8, <2>1 DEF IsList
<1>14. ASSUME NEW k \in 1 .. MaxBs
       PROVE  /\ IsList(bufs.blockTables[k], MaxNumBlocks)
              /\ k \in 1 .. n => \A c \in 1 .. width :
                   bufs.blockTables[k][c] = ctx.blockTables[k][c]
  <2> DEFINE buffer == LeftOver(old.blockTables[k], Stale)
  <2>1. bufs.blockTables[k] = Overwritten(buffer, newTable(k)) BY <1>8, <1>9 DEF tabs
  <2>2. IsList(buffer, MaxNumBlocks)
    <3>1. DOMAIN old.blockTables[k] = 1 .. MaxNumBlocks BY <1>5, <1>6, ListLen
    <3> QED BY <3>1 DEF LeftOver, IsList
  <2> HIDE DEF buffer
  <2>3. ASSUME k \in 1 .. n
        PROVE  \A c \in 1 .. width : bufs.blockTables[k][c] = ctx.blockTables[k][c]
    <3>1. IsList(ctx.blockTables, n) /\ IsList(ctx.blockTables[k], width)
      BY <1>3, <2>3 DEF PaddedTo
    <3>2. DOMAIN ctx.blockTables = 1 .. n /\ DOMAIN ctx.blockTables[k] = 1 .. width
      BY <1>1, <1>3, <3>1, ListLen
    <3>3. newTable(k) = ctx.blockTables[k] BY <2>3, <3>2
    <3> HIDE DEF ctx, newTable
    <3> QED BY <1>3, <1>4, <1>5, <2>1, <2>2, <3>2, <3>3, OverwrittenIs
  <2> HIDE DEF newTable
  <2>4. IsList(Overwritten(buffer, newTable(k)), MaxNumBlocks) BY <1>5, <2>2, OverwrittenIs
  <2> QED BY <2>1, <2>3, <2>4
<1>15. BuffersShaped(bufs) BY <1>10, <1>13, <1>14 DEF BuffersShaped
<1>16. ASSUME NEW k \in 1 .. n
       PROVE  \A c \in 1 .. Len(batch[k].blockTable) :
                bufs.blockTables[k][c] = batch[k].blockTable[c]
  <2>1. /\ Len(batch[k].blockTable) <= width
        /\ \A c \in 1 .. Len(batch[k].blockTable) : ctx.blockTables[k][c] = batch[k].blockTable[c]
    BY <1>3 DEF PaddedTo
  <2>2. Len(batch[k].blockTable) \in Nat
    <3>1. EntryOK(batch[k]) /\ TablesTyped /\ batch[k].request \in Requests
          /\ RequestOK(batch[k].request)
      BY <1>1 DEF RunnerInv, CallOK, RequestsInv, EntryOK, n
    <3>2. batch[k].blockTable = table[batch[k].request] BY <3>1, EntryFields
    <3> QED BY <3>1, <3>2, TableTyped
  <2>3. k \in 1 .. MaxBs BY <1>1, <1>5
  <2>4. \A c \in 1 .. width : bufs.blockTables[k][c] = ctx.blockTables[k][c] BY <1>14, <2>3
  <2>5. \A c \in 1 .. Len(batch[k].blockTable) : c \in 1 .. width BY <1>3, <2>1, <2>2
  <2> HIDE DEF ctx
  <2> QED BY <2>1, <2>4, <2>5
<1>17. ASSUME NEW k \in 1 .. n
       PROVE  /\ [token |-> bufs.inputIds[k], pos |-> bufs.positions[k]] = ComputedRow(k, 1)
              /\ bufs.slotMapping[k] = SlotAt(k, 1)
              /\ bufs.contextLens[k] = batch[k].numCached + 1
              /\ batch[k].numScheduled = 1
  BY <1>2, <1>11
<1> QED BY <1>12, <1>15, <1>16, <1>17 DEF n

\* The first entries of a list.
LEMMA FirstOf ==
  ASSUME NEW s, NEW bs \in Nat
  PROVE  SubSeq(s, 1, bs) = [i \in 1 .. bs |-> s[i]]
<1>1. SubSeq(s, 1, bs) = [i \in 1 .. (1 + bs - 1) |-> s[i + 1 - 1]] BY SubSeqIs
<1>2. 1 + bs - 1 = bs OBVIOUS
<1>3. \A i \in 1 .. bs : i + 1 - 1 = i OBVIOUS
<1> QED BY <1>1, <1>2, <1>3

\* What a replay computes from the buffers and a cache.
GraphAttended(cache, bufs) ==
  [i \in 1 .. BatchSize |-> [row |-> Rows(bufs, BatchSize)[i],
                            keys |-> GraphAttends(cache, bufs, ReplaySize)[i]]]

\* A replay stores what it should and every row attends to its own request up to itself.
LEMMA ReplayRun ==
  ASSUME RunnerInv, stage = "prepared", EqualBlockSizes, UseGraph, GraphFits,
         NEW rank \in AllRanks, NEW bufs, bufs = Filled(graphVars[rank], context[rank])
  PROVE  /\ Writes(kv[rank], GraphStores(kv[rank], bufs, ReplaySize))
         /\ Joins(GraphAttended(GraphStores(kv[rank], bufs, ReplaySize), bufs),
                  [k \in 1 .. Len(batch) |-> Computed(k)], Lengths(batch), Len(batch))
<1> DEFINE n == Len(batch)
           bs == ReplaySize
           rows == Rows(bufs, bs)
           slots == SubSeq(bufs.slotMapping, 1, bs)
           cache == GraphStores(kv[rank], bufs, bs)
           att == GraphAttended(cache, bufs)
<1>1. /\ ~IsPrefill /\ phase = "serve" /\ n \in Nat \ {0}
      /\ bs \in Nat /\ n <= bs /\ bs <= MaxBs
  BY ReplayFits
<1>2. /\ \A k \in 1 .. n :
           /\ [token |-> bufs.inputIds[k], pos |-> bufs.positions[k]] = ComputedRow(k, 1)
           /\ bufs.slotMapping[k] = SlotAt(k, 1)
           /\ bufs.contextLens[k] = batch[k].numCached + 1
           /\ batch[k].numScheduled = 1
           /\ \A c \in 1 .. Len(batch[k].blockTable) :
                bufs.blockTables[k][c] = batch[k].blockTable[c]
      /\ \A j \in 1 .. MaxBs : j > n => bufs.slotMapping[j] = Unused
  BY FilledIs
<1>3. MaxBs \in Nat BY BufferSizes
<1>4. slots = [i \in 1 .. bs |-> bufs.slotMapping[i]] BY <1>1, FirstOf
<1>5. ASSUME NEW m \in Nat
      PROVE  Rows(bufs, m) = [i \in 1 .. m |->
               [token |-> bufs.inputIds[i], pos |-> bufs.positions[i]]]
  <2>1. /\ SubSeq(bufs.inputIds, 1, m) = [i \in 1 .. m |-> bufs.inputIds[i]]
        /\ SubSeq(bufs.positions, 1, m) = [i \in 1 .. m |-> bufs.positions[i]]
    BY FirstOf
  <2> QED BY <2>1 DEF Rows, InputRows
<1>6. IsList(slots, bs) BY <1>4 DEF IsList
<1>7. \A k \in 1 .. n : k \in 1 .. bs /\ slots[k] = SlotAt(k, 1) /\ rows[k] = ComputedRow(k, 1)
  <2>1. \A k \in 1 .. n : k \in 1 .. bs
    <3> HIDE DEF n, bs
    <3> QED BY <1>1
  <2>2. rows = [i \in 1 .. bs |-> [token |-> bufs.inputIds[i], pos |-> bufs.positions[i]]]
    <3> HIDE DEF bs
    <3> QED BY <1>1, <1>5
  <2> HIDE DEF n, bs, slots, rows
  <2>3. \A k \in 1 .. n : slots[k] = bufs.slotMapping[k] BY <1>4, <2>1
  <2>4. \A k \in 1 .. n : rows[k] = [token |-> bufs.inputIds[k], pos |-> bufs.positions[k]]
    BY <2>1, <2>2
  <2> QED BY <1>2, <2>1, <2>3, <2>4
<1>8. ASSUME NEW j \in 1 .. bs, slots[j] \in DOMAIN kv[rank]
      PROVE  j \in 1 .. n
  <2>1. DOMAIN kv[rank] = 0 .. NumBlocks * BlockSize - 1 BY <1>1 DEF RunnerInv, CacheShape
  <2>2. Unused \notin 0 .. NumBlocks * BlockSize - 1 BY DEF Unused
  <2>3. bufs.slotMapping[j] # Unused BY <1>4, <1>8, <2>1, <2>2
  <2>4. j \in 1 .. MaxBs
    <3> HIDE DEF bs
    <3> QED BY <1>1, <1>3
  <2>5. ~(j > n) BY <1>2, <2>3, <2>4
  <2> HIDE DEF n, bs, slots
  <2> QED BY <1>1, <2>5
<1>9. cache = StoreKvCache(kv[rank], rows, slots) BY DEF GraphStores
<1> HIDE DEF n, bs, rows, slots, cache
<1>10. \A j \in 1 .. bs : slots[j] \in DOMAIN kv[rank] =>
         \E k \in 1 .. n : \E i \in 1 .. batch[k].numScheduled :
           slots[j] = SlotAt(k, i) /\ rows[j] = ComputedRow(k, i)
  <2>1. ASSUME NEW j \in 1 .. bs, slots[j] \in DOMAIN kv[rank]
        PROVE  /\ j \in 1 .. n /\ 1 \in 1 .. batch[j].numScheduled
               /\ slots[j] = SlotAt(j, 1) /\ rows[j] = ComputedRow(j, 1)
    <3>1. j \in 1 .. n BY <1>8, <2>1
    <3> QED BY <1>2, <1>7, <3>1
  <2> QED BY <2>1
<1>11. ASSUME NEW k \in 1 .. n, NEW i \in 1 .. batch[k].numScheduled
       PROVE  \E j \in 1 .. bs : slots[j] = SlotAt(k, i)
  <2>1. batch[k].numScheduled = 1 BY <1>2
  <2>2. i = 1 BY <2>1
  <2> QED BY <1>7, <2>2
<1>12. Writes(kv[rank], cache)
  <2>1. Writes(kv[rank], StoreKvCache(kv[rank], rows, slots))
    BY <1>1, <1>6, <1>10, <1>11, StoreWrites DEF n
  <2> QED BY <1>9, <2>1
<1>13. att = [i \in 1 .. n |-> [row |-> Rows(bufs, n)[i],
                               keys |-> GraphAttends(cache, bufs, bs)[i]]]
  BY DEF GraphAttended, BatchSize, n, bs
<1>14. ASSUME NEW k \in 1 .. n PROVE att[k] = Computes(k, 1)
  <2>1. Rows(bufs, n)[k] = ComputedRow(k, 1) BY <1>1, <1>2, <1>5, ZenonT(40)
  <2>2. SubSeq(bufs.contextLens, 1, bs) = [i \in 1 .. bs |-> bufs.contextLens[i]]
    BY <1>1, FirstOf
  <2>3. k \in 1 .. bs BY <1>7
  <2>4. GraphAttends(cache, bufs, bs)[k]
          = CachedRows(cache, bufs.blockTables[k], bufs.contextLens[k])
    BY <2>2, <2>3 DEF GraphAttends, KvCacheAttention
  <2> DEFINE tab == bufs.blockTables[k]
  <2>5. \A c \in 1 .. Len(batch[k].blockTable) : tab[c] = batch[k].blockTable[c] BY <1>2
  <2> HIDE DEF tab
  <2>6. CachedRows(cache, tab, batch[k].numCached + 1)
          = PrefixRows(batch[k], batch[k].numCached + 1)
    BY <1>1, <1>12, <2>5, DecodeReads DEF n
  <2>7. GraphAttends(cache, bufs, bs)[k] = PrefixRows(batch[k], batch[k].numCached + 1)
    BY <1>2, <2>4, <2>6 DEF tab
  <2> HIDE DEF att
  <2>8. att[k] = [row |-> Rows(bufs, n)[k], keys |-> GraphAttends(cache, bufs, bs)[k]]
    BY <1>13
  <2> QED BY <2>1, <2>7, <2>8 DEF Computes
<1> HIDE DEF att
<1>15. IsList(att, n) BY <1>13 DEF IsList
<1>16. Joins(att, [k \in 1 .. n |-> Computed(k)], Lengths(batch), n)
  BY <1>1, <1>14, <1>15, DecodeJoins DEF n
<1> QED BY <1>12, <1>16 DEF att, cache, bs, n

(***************************************************************************)
(* Starting: loading, the warmup, the cache, the graphs.                   *)
(***************************************************************************)
\* A cache of so many slots counts so many blocks.
LEMMA BlocksCounted ==
  ASSUME NEW n \in Nat \ {0}, NEW cache, DOMAIN cache = 0 .. n * BlockSize - 1
  PROVE  cache # << >> /\ Cardinality(DOMAIN cache) \div BlockSize = n
<1>1. BlockSize \in Nat \ {0} BY BlockSizeAssumption
<1>2. n * BlockSize \in Nat \ {0} BY <1>1
<1>3. 0 \in DOMAIN cache BY <1>2
<1>4. Cardinality(0 .. n * BlockSize - 1) = n * BlockSize
  <2> DEFINE m == n * BlockSize
  <2>1. m \in Nat \ {0} BY <1>2
  <2> HIDE DEF m
  <2>2. Cardinality(0 .. m - 1) = (m - 1) - 0 + 1 BY <2>1, FS_Interval
  <2>3. Cardinality(0 .. m - 1) = m BY <2>1, <2>2
  <2> QED BY <2>3 DEF m
<1>5. (n * BlockSize + 0) \div BlockSize = n
  <2>1. 0 \in 0 .. BlockSize - 1 BY <1>1
  <2> QED BY <2>1, DivUnique
<1>6. n * BlockSize + 0 = n * BlockSize BY <1>2
<1>7. (n * BlockSize) \div BlockSize = n BY <1>5, <1>6
<1>8. Cardinality(DOMAIN cache) \div BlockSize = n BY <1>4, <1>7
<1>9. cache # << >>
  <2>1. 0 \notin DOMAIN << >> OBVIOUS
  <2> QED BY <1>3, <2>1, Zenon
<1> QED BY <1>8, <1>9

\* Steps that touch nothing the invariant speaks of.
LEMMA QuietStep ==
  ASSUME RunnerInv,
         UNCHANGED <<config, phase, kv, graphs, graphVars, callVars, requestVars>>
  PROVE  RunnerInv'
<1>1. /\ config' = config /\ phase' = phase /\ kv' = kv /\ graphs' = graphs
      /\ graphVars' = graphVars /\ stage' = stage /\ batch' = batch /\ context' = context
      /\ attended' = attended /\ numTokens' = numTokens /\ table' = table
      /\ numCached' = numCached /\ prefilled' = prefilled
  BY DEF callVars, requestVars
<1>2. NumBlocks' = NumBlocks /\ AllRanks' = AllRanks BY <1>1 DEF NumBlocks, AllRanks
<1>3. RequestsInv'
  BY <1>1, <1>2 DEF RunnerInv, RequestsInv, TablesTyped, RequestOK, Ownership
<1>4. CacheShape' BY <1>1, <1>2 DEF RunnerInv, CacheShape
<1>5. CacheHolds' BY <1>1, <1>2 DEF RunnerInv, CacheHolds
<1>6. CallOK'
  <2>1. IsPrefill' = IsPrefill BY <1>1 DEF IsPrefill
  <2>2. ContextFor(IsPrefill)' = ContextFor(IsPrefill) BY <1>1, <1>2, <2>1 DEF ContextFor
  <2>3. \A seq : EntryOK(seq) => EntryOK(seq)' BY <1>1 DEF EntryOK, HasBlocks, SequenceOf
  <2> QED BY <1>1, <2>1, <2>2, <2>3 DEF RunnerInv, CallOK
<1>7. GraphsOK' BY <1>1, <1>2 DEF RunnerInv, GraphsOK
<1>8. AttendsOwnPrefix' BY <1>1, <1>2 DEF RunnerInv, AttendsOwnPrefix, IsPrefill
<1> QED BY <1>1, <1>3, <1>4, <1>5, <1>6, <1>7, <1>8 DEF RunnerInv

\* Before the runner serves, no request has blocks and nothing runs but the warmup.
LEMMA NotYetServing ==
  ASSUME RunnerInv, phase # "serve"
  PROVE  /\ \A r \in Requests : table[r] = << >> /\ numCached[r] = 0 /\ r \notin prefilled
         /\ stage # "idle" => phase = "warmup"
BY DEF RunnerInv, RequestsInv, RequestOK, CallOK

\* What is left to show of a step before the runner serves, or of the last of those.
LEMMA StartingStep ==
  ASSUME RunnerInv, phase # "serve", UNCHANGED <<config, requestVars>>,
         CacheShape', CallOK', GraphsOK', stage' # "computed"
  PROVE  RunnerInv'
<1>1. \A r \in Requests : table[r] = << >> /\ numCached[r] = 0 /\ r \notin prefilled
  BY NotYetServing
<1>2. /\ config' = config /\ numTokens' = numTokens /\ table' = table
      /\ numCached' = numCached /\ prefilled' = prefilled
  BY DEF requestVars
<1>3. TablesTyped'
  <2>1. TablesTyped BY DEF RunnerInv, RequestsInv
  <2>2. table \in [Requests -> Seq(0 .. NumBlocks' - 1)]
    <3>1. table = [r \in Requests |-> table[r]] BY <2>1 DEF TablesTyped
    <3>3. << >> \in Seq(0 .. NumBlocks' - 1) OBVIOUS
    <3>2. \A r \in Requests : table[r] \in Seq(0 .. NumBlocks' - 1) BY <1>1, <3>3
    <3> QED BY <3>1, <3>2
  <2> QED BY <1>2, <2>1, <2>2 DEF TablesTyped
<1>4. ASSUME NEW r \in Requests PROVE RequestOK(r)'
  <2>1. RequestOK(r) BY DEF RunnerInv, RequestsInv
  <2> QED BY <1>1, <1>2, <2>1 DEF RequestOK
<1>5. Ownership'
  <2>1. \A r \in Requests : DOMAIN table[r] = {} BY <1>1
  <2> QED BY <1>2, <2>1 DEF Ownership
<1>6. CacheHolds'
  <2>1. \A r \in Requests, rank \in AllRanks' : Held(kv'[rank], table'[r], TextOf(r), numCached'[r])
    BY <1>1, <1>2 DEF Held
  <2> QED BY <2>1 DEF CacheHolds
<1>7. config' \in Configs /\ AttendsOwnPrefix' BY <1>2 DEF RunnerInv, AttendsOwnPrefix
<1> QED BY <1>3, <1>4, <1>5, <1>6, <1>7 DEF RunnerInv, RequestsInv

\* Loading ends.
LEMMA LoadDoneStep ==
  ASSUME RunnerInv, LoadDone
  PROVE  RunnerInv'
<1>1. phase = "load" /\ phase' = "warmup"
      /\ UNCHANGED <<config, kv, graphs, graphVars, callVars, requestVars>>
  BY DEF LoadDone
<1>2. stage = "idle" /\ batch = << >> /\ context = << >> /\ stage' = "idle"
      /\ batch' = << >> /\ context' = << >>
  BY <1>1 DEF RunnerInv, CallOK, callVars
<1>3. CacheShape' BY <1>1 DEF RunnerInv, CacheShape, AllRanks, NumBlocks
<1>4. CallOK' BY <1>1, <1>2 DEF CallOK
<1>5. GraphsOK' BY <1>1 DEF RunnerInv, GraphsOK, AllRanks
<1> QED BY <1>1, <1>2, <1>3, <1>4, <1>5, StartingStep

\* A number divided by one that is not larger.
LEMMA QuotientPositive ==
  ASSUME NEW a \in Nat, NEW b \in Nat \ {0}, b <= a
  PROVE  a \div b \in Nat \ {0}
<1>1. a \div b \in Int OBVIOUS
<1>2. a = b * (a \div b) + (a % b) /\ a % b \in 0 .. b - 1 OBVIOUS
<1> DEFINE q == a \div b
           m == a % b
<1>3. q \in Int /\ m \in 0 .. b - 1 /\ a = b * q + m BY <1>1, <1>2
<1> HIDE DEF q, m
<1>4. q > 0
  <2> SUFFICES ASSUME q <= 0 PROVE FALSE BY <1>3
  <2>1. b * q <= 0 BY <1>3
  <2>2. b * q \in Int BY <1>3
  <2> QED BY <1>3, <2>1, <2>2
<1> QED BY <1>3, <1>4 DEF q

\* The warmup begins: there is room for at least one of its requests.
LEMMA WarmupStep ==
  ASSUME RunnerInv, Warmup
  PROVE  RunnerInv'
<1> DEFINE numSeqs == Min({MaxBatchedTokens \div WarmupLen, MaxNumSeqs})
           seqs == [i \in 1 .. numSeqs |-> WarmupSequence]
<1>1. phase = "warmup" /\ stage = "idle" /\ Prepare(seqs, TRUE) BY DEF Warmup
<1>2. numSeqs \in Nat \ {0}
  <2>1. /\ MaxBatchedTokens \in Nat \ {0} /\ MaxModelLen \in Nat \ {0}
        /\ MaxNumSeqs \in Nat \ {0}
    BY RunnerAssumption
  <2>2. WarmupLen \in Nat \ {0} /\ WarmupLen <= MaxBatchedTokens
    BY <2>1, MinOfTwo DEF WarmupLen
  <2>3. MaxBatchedTokens \div WarmupLen \in Nat \ {0} BY <2>1, <2>2, QuotientPositive
  <2> DEFINE q == MaxBatchedTokens \div WarmupLen
  <2>4. q \in Nat \ {0} BY <2>3
  <2> HIDE DEF q
  <2>5. Min({q, MaxNumSeqs}) \in Nat \ {0} BY <2>1, <2>4, MinOfTwo
  <2> QED BY <2>5 DEF q
<1> HIDE DEF numSeqs
<1>3. /\ UNCHANGED <<config, phase, graphs, graphVars, kv, requestVars>>
      /\ batch' = seqs /\ stage' = "prepared"
      /\ context' = [rank \in AllRanks |-> PrefillContext(rank, seqs)]
  BY <1>1 DEF Prepare, runnerVars
<1>4. CacheShape' BY <1>3 DEF RunnerInv, CacheShape, AllRanks, NumBlocks
<1>5. GraphsOK' BY <1>3 DEF RunnerInv, GraphsOK, AllRanks
<1>6. CallOK'
  <2>1. Len(seqs) = numSeqs /\ IsList(seqs, numSeqs)
        /\ \A k \in 1 .. numSeqs : seqs[k] = WarmupSequence
    BY <1>2 DEF IsList
  <2> HIDE DEF seqs
  <2>2. 0 \in AllRanks BY RankZero DEF RunnerInv
  <2>3. context'[0].isPrefill = TRUE BY <1>3, <2>2 DEF PrefillContext
  <2>4. IsPrefill' = TRUE BY <2>3 DEF IsPrefill
  <2>5. context' = ContextFor(TRUE)' BY <1>3 DEF ContextFor, AllRanks
  <2>6. context' = ContextFor(IsPrefill)' BY <2>4, <2>5 DEF ContextFor
  <2> QED BY <1>1, <1>2, <1>3, <2>1, <2>4, <2>6 DEF CallOK
<1> QED BY <1>1, <1>3, <1>4, <1>5, <1>6, StartingStep

\* The cache is allocated: every rank has the same number of blocks, at least one.
LEMMA AllocateStep ==
  ASSUME RunnerInv, NEW memory \in MemoryReadings, AllocateKvCache(memory)
  PROVE  RunnerInv'
<1> DEFINE budget == memory.usable - memory.used - memory.peak + memory.current
           numBlocks == budget \div BlockBytes(config.hf, config.tp)
<1>1. /\ phase = "allocate" /\ UNCHANGED <<config, graphs, graphVars, callVars, requestVars>>
  BY DEF AllocateKvCache
<1>2. config \in Configs BY DEF RunnerInv
<1>3. numBlocks \in Int
  <2>1. /\ memory.usable \in Nat /\ memory.used \in Nat /\ memory.peak \in Nat
        /\ memory.current \in Nat
    BY RunnerAssumption
  <2>2. budget \in Int BY <2>1
  <2>3. BlockBytes(config.hf, config.tp) \in Nat \ {0}
    <3> DEFINE heads == config.hf.numKvHeads
               tp == config.tp
               share == heads \div tp
               layers == config.hf.numLayers
               dim == config.hf.headDim
    <3>1. /\ heads \in Nat \ {0} /\ tp \in Nat \ {0} /\ layers \in Nat \ {0}
          /\ dim \in Nat \ {0} /\ heads % tp = 0
      BY <1>2, RunnerAssumption
    <3>2. share \in Nat \ {0}
      <4> HIDE DEF heads, tp
      <4>1. tp <= heads BY <3>1
      <4> QED BY <3>1, <4>1, QuotientPositive
    <3> HIDE DEF share, heads, tp, layers, dim
    <3>3. BlockSize \in Nat \ {0} BY BlockSizeAssumption
    <3>4. 2 * layers \in Nat \ {0} BY <3>1
    <3>5. 2 * layers * BlockSize \in Nat \ {0} BY <3>3, <3>4
    <3>6. 2 * layers * BlockSize * share \in Nat \ {0} BY <3>2, <3>5
    <3>7. 2 * layers * BlockSize * share * dim \in Nat \ {0} BY <3>1, <3>6
    <3> QED BY <3>7 DEF BlockBytes, share, heads, tp, layers, dim
  <2> HIDE DEF budget
  <2> QED BY <2>2, <2>3
<1> HIDE DEF budget, numBlocks
<1>4. stage = "idle" /\ batch = << >> /\ context = << >> /\ stage' = "idle"
      /\ batch' = << >> /\ context' = << >>
  BY <1>1 DEF RunnerInv, CallOK, callVars
<1>5. CASE numBlocks > 0
  <2>1. /\ kv' = [rank \in AllRanks |-> [slot \in 0 .. numBlocks * BlockSize - 1 |-> Dirty]]
        /\ phase' = IF config.enforceEager THEN "serve" ELSE "capture"
    BY <1>5 DEF AllocateKvCache, OnEveryRank, budget, numBlocks
  <2>2. numBlocks \in Nat \ {0} BY <1>3, <1>5
  <2>3. AllRanks' = AllRanks BY <1>1 DEF AllRanks
  <2>4. 0 \in AllRanks BY <1>2, RankZero
  <2>5. \A rank \in AllRanks : DOMAIN kv'[rank] = 0 .. numBlocks * BlockSize - 1 BY <2>1
  <2>6. NumBlocks' = numBlocks
    <3>1. DOMAIN kv'[0] = 0 .. numBlocks * BlockSize - 1 BY <2>4, <2>5
    <3>2. kv'[0] # << >> /\ Cardinality(DOMAIN kv'[0]) \div BlockSize = numBlocks
      BY <2>2, <3>1, BlocksCounted
    <3> QED BY <3>2 DEF NumBlocks
  <2>7. \A rank \in AllRanks : \A slot \in DOMAIN kv'[rank] :
          DOMAIN kv'[rank][slot] = {"token", "pos"}
    BY <2>1, <2>5 DEF Dirty
  <2>8. phase' \in {"capture", "serve"} BY <2>1
  <2>9. CacheShape'
    <3>1. DOMAIN kv' = AllRanks BY <2>1
    <3> QED BY <2>2, <2>3, <2>5, <2>6, <2>7, <2>8, <3>1 DEF CacheShape
  <2>10. CallOK' BY <1>4, <2>8 DEF CallOK
  <2>11. GraphsOK' BY <1>1, <2>3 DEF RunnerInv, GraphsOK
  <2> QED BY <1>1, <1>4, <2>9, <2>10, <2>11, StartingStep
<1>6. CASE ~(numBlocks > 0)
  <2>1. kv' = kv /\ phase' = phase BY <1>6 DEF AllocateKvCache, budget, numBlocks
  <2> QED BY <1>1, <2>1, QuietStep
<1> QED BY <1>5, <1>6

\* What stands in the slots of a cache is a row, before and after something is stored.
LEMMA StoreShape ==
  ASSUME NEW m \in Nat, NEW slots, IsList(slots, m), NEW rows, NEW cache,
         \A i \in 1 .. m : DOMAIN rows[i] = {"token", "pos"},
         \A slot \in DOMAIN cache : DOMAIN cache[slot] = {"token", "pos"}
  PROVE  /\ DOMAIN StoreKvCache(cache, rows, slots) = DOMAIN cache
         /\ \A slot \in DOMAIN cache :
              DOMAIN StoreKvCache(cache, rows, slots)[slot] = {"token", "pos"}
<1>1. DOMAIN slots = 1 .. m BY ListLen
<1>2. ASSUME NEW slot \in DOMAIN cache
      PROVE  DOMAIN StoreKvCache(cache, rows, slots)[slot] = {"token", "pos"}
  <2>1. CASE Contains(slots, slot)
    <3> DEFINE i == CHOOSE i \in DOMAIN slots : slots[i] = slot
    <3>1. i \in 1 .. m BY <1>1, <2>1 DEF Contains
    <3>2. StoreKvCache(cache, rows, slots)[slot] = rows[i] BY <2>1 DEF StoreKvCache
    <3> HIDE DEF i
    <3> QED BY <3>1, <3>2
  <2>2. CASE ~Contains(slots, slot) BY <2>2 DEF StoreKvCache
  <2> QED BY <2>1, <2>2
<1> QED BY <1>2 DEF StoreKvCache

\* A graph is captured: what it stores is in slots that hold nothing yet.
LEMMA CaptureStep ==
  ASSUME RunnerInv, NEW bs \in GraphBs, CaptureGraph(bs)
  PROVE  RunnerInv'
<1>1. /\ phase = "capture" /\ UNCHANGED <<config, callVars, requestVars>>
      /\ graphs' = graphs \cup {bs}
      /\ graphVars' = [rank \in AllRanks |-> ZeroBuffers]
      /\ kv' = [rank \in AllRanks |-> GraphStores(kv[rank], ZeroBuffers, Min({bs, MaxBs}))]
      /\ phase' \in {"capture", "serve"}
  BY DEF CaptureGraph, OnEveryRank
<1>2. config \in Configs BY DEF RunnerInv
<1>3. 0 \in AllRanks /\ AllRanks' = AllRanks BY <1>1, <1>2, RankZero DEF AllRanks
<1>4. stage = "idle" /\ batch = << >> /\ context = << >> /\ stage' = "idle"
      /\ batch' = << >> /\ context' = << >>
  BY <1>1 DEF RunnerInv, CallOK, callVars
<1>5. MaxBs \in Nat /\ MaxNumBlocks \in Nat /\ bs \in Nat BY BufferSizes
<1>6. BuffersShaped(ZeroBuffers)
  <2> DEFINE tab == [c \in 1 .. MaxNumBlocks |-> 0]
             tabs == [i \in 1 .. MaxBs |-> tab]
  <2>1. IsList([i \in 1 .. MaxBs |-> "zero"], MaxBs) BY DEF IsList
  <2>2. IsList([i \in 1 .. MaxBs |-> 0], MaxBs) BY DEF IsList
  <2>3. IsList(tab, MaxNumBlocks) BY DEF IsList
  <2> HIDE DEF tab
  <2>4. IsList(tabs, MaxBs) /\ \A k \in 1 .. MaxBs : tabs[k] = tab BY DEF IsList
  <2> HIDE DEF tabs
  <2>5. /\ ZeroBuffers.inputIds = [i \in 1 .. MaxBs |-> "zero"]
        /\ ZeroBuffers.positions = [i \in 1 .. MaxBs |-> 0]
        /\ ZeroBuffers.slotMapping = [i \in 1 .. MaxBs |-> 0]
        /\ ZeroBuffers.contextLens = [i \in 1 .. MaxBs |-> 0]
        /\ ZeroBuffers.blockTables = tabs
    BY DEF ZeroBuffers, tabs, tab
  <2> QED BY <2>1, <2>2, <2>3, <2>4, <2>5 DEF BuffersShaped
<1>7. GraphsOK'
  <2>1. \A rank \in AllRanks : graphVars'[rank] = ZeroBuffers BY <1>1
  <2> QED BY <1>1, <1>3, <1>6, <2>1 DEF RunnerInv, GraphsOK
<1>8. ASSUME NEW rank \in AllRanks
      PROVE  /\ DOMAIN kv'[rank] = DOMAIN kv[rank]
             /\ \A slot \in DOMAIN kv'[rank] : DOMAIN kv'[rank][slot] = {"token", "pos"}
  <2> DEFINE m == Min({bs, MaxBs})
             rows == Rows(ZeroBuffers, m)
             slots == SubSeq(ZeroBuffers.slotMapping, 1, m)
  <2>1. m \in Nat BY <1>5, MinOfTwo
  <2>2. slots = [i \in 1 .. m |-> ZeroBuffers.slotMapping[i]] BY <2>1, FirstOf
  <2>3. /\ SubSeq(ZeroBuffers.inputIds, 1, m) = [i \in 1 .. m |-> ZeroBuffers.inputIds[i]]
        /\ SubSeq(ZeroBuffers.positions, 1, m) = [i \in 1 .. m |-> ZeroBuffers.positions[i]]
    BY <2>1, FirstOf
  <2> HIDE DEF m
  <2>4. IsList(slots, m) BY <2>2 DEF IsList
  <2>5. \A i \in 1 .. m : DOMAIN rows[i] = {"token", "pos"} BY <2>3 DEF Rows, InputRows
  <2>6. kv'[rank] = StoreKvCache(kv[rank], rows, slots) BY <1>1 DEF GraphStores, m
  <2>7. \A slot \in DOMAIN kv[rank] : DOMAIN kv[rank][slot] = {"token", "pos"}
    BY DEF RunnerInv, CacheShape
  <2> DEFINE cache == kv[rank]
             after == StoreKvCache(cache, rows, slots)
  <2>9. \A slot \in DOMAIN cache : DOMAIN cache[slot] = {"token", "pos"} BY <2>7
  <2> HIDE DEF rows, slots, cache
  <2>8. DOMAIN after = DOMAIN cache
        /\ \A slot \in DOMAIN cache : DOMAIN after[slot] = {"token", "pos"}
    BY <2>1, <2>4, <2>5, <2>9, StoreShape
  <2>10. kv'[rank] = after BY <2>6 DEF cache
  <2> HIDE DEF after
  <2> QED BY <2>8, <2>10 DEF cache
<1>9. NumBlocks \in Nat \ {0}
      /\ \A rank \in AllRanks : DOMAIN kv[rank] = 0 .. NumBlocks * BlockSize - 1
  BY <1>1 DEF RunnerInv, CacheShape
<1>10. NumBlocks' = NumBlocks
  <2>1. DOMAIN kv'[0] = 0 .. NumBlocks * BlockSize - 1 BY <1>3, <1>8, <1>9
  <2>2. kv'[0] # << >> /\ Cardinality(DOMAIN kv'[0]) \div BlockSize = NumBlocks
    BY <1>9, <2>1, BlocksCounted
  <2> QED BY <2>2 DEF NumBlocks
<1>11. CacheShape'
  <2>1. DOMAIN kv' = AllRanks BY <1>1
  <2> QED BY <1>1, <1>3, <1>8, <1>9, <1>10, <2>1 DEF CacheShape
<1>12. CallOK' BY <1>1, <1>4 DEF CallOK
<1> QED BY <1>1, <1>4, <1>7, <1>11, <1>12, StartingStep

(***************************************************************************)
(* The scheduler and the block manager, and the end of a call.             *)
(***************************************************************************)
\* What is left to show of a step after which the runner waits for a batch.
LEMMA ServingStep ==
  ASSUME RunnerInv, phase' = "serve", UNCHANGED <<config, graphs, graphVars>>,
         stage' = "idle", batch' = << >>, context' = << >>,
         TablesTyped', \A r \in Requests : RequestOK(r)', Ownership', CacheShape', CacheHolds'
  PROVE  RunnerInv'
<1>1. CallOK' BY DEF CallOK
<1>2. GraphsOK' BY DEF RunnerInv, GraphsOK, AllRanks
<1>3. config' \in Configs /\ AttendsOwnPrefix' BY DEF RunnerInv, AttendsOwnPrefix
<1> QED BY <1>1, <1>2, <1>3 DEF RunnerInv, RequestsInv

\* Requests that keep their blocks and have no less cached, or give up their blocks, own
\* what they have as before.
LEMMA OwnersStay ==
  ASSUME RunnerInv, numCached' \in [Requests -> Nat],
         \A r \in Requests : \/ table'[r] = << >>
                             \/ table'[r] = table[r] /\ numCached'[r] >= numCached[r]
  PROVE  Ownership'
<1> SUFFICES ASSUME NEW r \in Requests, NEW o \in Requests,
                    NEW i \in DOMAIN table'[r], NEW j \in DOMAIN table'[o],
                    table'[r][i] = table'[o][j]
             PROVE  \/ r = o /\ i = j
                    \/ i = 1 /\ j = 1 /\ numCached'[r] >= BlockSize /\ numCached'[o] >= BlockSize
  BY DEF Ownership
<1>1. DOMAIN << >> = {} OBVIOUS
<1>2. /\ table'[r] = table[r] /\ numCached'[r] >= numCached[r]
      /\ table'[o] = table[o] /\ numCached'[o] >= numCached[o]
  BY <1>1
<1>3. \/ r = o /\ i = j
      \/ i = 1 /\ j = 1 /\ numCached[r] >= BlockSize /\ numCached[o] >= BlockSize
  BY <1>2 DEF RunnerInv, RequestsInv, Ownership
<1>4. /\ numCached[r] \in Nat /\ numCached[o] \in Nat
      /\ numCached'[r] \in Nat /\ numCached'[o] \in Nat /\ BlockSize \in Nat
  BY BlockSizeAssumption DEF RunnerInv, RequestsInv, TablesTyped
<1> QED BY <1>2, <1>3, <1>4

\* The first n positions have blocks.
Fits(r, n) == \A p \in 0 .. n - 1 : p \div BlockSize + 1 \in 1 .. Len(table[r])

\* What is cached of requests that keep their blocks is not forgotten.
LEMMA NotForgotten ==
  ASSUME RunnerInv, phase = "serve", phase' = "serve", config' = config, stage' = "idle",
         NEW stored,
         \A rank \in AllRanks :
           /\ DOMAIN stored[rank] = DOMAIN kv[rank]
           /\ \A slot \in DOMAIN stored[rank] : DOMAIN stored[rank][slot] = {"token", "pos"},
         kv' = [rank \in AllRanks |-> Forgotten(stored[rank], table')],
         numCached' \in [Requests -> Nat],
         \A r \in Requests :
           \/ table'[r] = << >> /\ numCached'[r] = 0
           \/ /\ table'[r] = table[r] /\ Fits(r, numCached'[r])
              /\ \A rank \in AllRanks : Held(stored[rank], table[r], TextOf(r), numCached'[r])
  PROVE  NumBlocks' = NumBlocks /\ CacheShape' /\ CacheHolds'
<1>1. /\ NumBlocks \in Nat \ {0}
      /\ \A rank \in AllRanks : DOMAIN kv[rank] = 0 .. NumBlocks * BlockSize - 1
  BY DEF RunnerInv, CacheShape
<1>2. 0 \in AllRanks /\ AllRanks' = AllRanks BY RankZero DEF RunnerInv, AllRanks
<1>3. ASSUME NEW rank \in AllRanks
      PROVE  /\ DOMAIN kv'[rank] = 0 .. NumBlocks * BlockSize - 1
             /\ \A slot \in DOMAIN kv'[rank] : DOMAIN kv'[rank][slot] = {"token", "pos"}
  <2>1. kv'[rank] = Forgotten(stored[rank], table') OBVIOUS
  <2>2. DOMAIN kv'[rank] = DOMAIN stored[rank] BY <2>1 DEF Forgotten
  <2>3. ASSUME NEW slot \in DOMAIN stored[rank]
        PROVE  DOMAIN kv'[rank][slot] = {"token", "pos"}
    <3>1. kv'[rank][slot] = stored[rank][slot] \/ kv'[rank][slot] = Dirty
      BY <2>1 DEF Forgotten
    <3>2. DOMAIN Dirty = {"token", "pos"} BY DEF Dirty
    <3> QED BY <3>1, <3>2
  <2> QED BY <1>1, <2>2, <2>3
<1>4. NumBlocks' = NumBlocks
  <2>1. DOMAIN kv'[0] = 0 .. NumBlocks * BlockSize - 1 BY <1>2, <1>3
  <2>2. kv'[0] # << >> /\ Cardinality(DOMAIN kv'[0]) \div BlockSize = NumBlocks
    BY <1>1, <2>1, BlocksCounted
  <2> QED BY <2>2 DEF NumBlocks
<1>5. CacheShape'
  <2>1. DOMAIN kv' = AllRanks OBVIOUS
  <2> QED BY <1>1, <1>2, <1>3, <1>4, <2>1 DEF CacheShape
<1>6. ASSUME NEW rank \in AllRanks, NEW r \in Requests, NEW p \in 0 .. numCached'[r] - 1
      PROVE  kv'[rank][SlotOf(table'[r], p, BlockSize)] = RowAt(TextOf(r), p)
  <2>1. numCached'[r] \in Nat OBVIOUS
  <2>2. numCached'[r] # 0 /\ p \in Nat
    <3>1. \A n \in Nat : p \in 0 .. n - 1 => n # 0 /\ p \in Nat OBVIOUS
    <3> QED BY <2>1, <3>1
  <2>3. /\ table'[r] = table[r] /\ Fits(r, numCached'[r])
        /\ Held(stored[rank], table[r], TextOf(r), numCached'[r])
    BY <2>2
  <2> DEFINE b == p \div BlockSize + 1
             slot == SlotOf(table[r], p, BlockSize)
  <2>4. b \in 1 .. Len(table[r]) BY <2>3 DEF Fits
  <2>5. stored[rank][slot] = RowAt(TextOf(r), p) BY <2>3 DEF Held
  <2>6. /\ table[r][b] \in Nat /\ table[r][b] \in 0 .. NumBlocks - 1
        /\ DOMAIN table[r] = 1 .. Len(table[r])
    BY <2>4, TableTyped DEF RunnerInv, RequestsInv
  <2>7. slot \in Nat /\ slot \div BlockSize = table[r][b] BY <2>2, <2>6, SlotLies
  <2>8. slot \in DOMAIN stored[rank]
    <3>1. DOMAIN stored[rank] = 0 .. NumBlocks * BlockSize - 1 BY <1>1
    <3> HIDE DEF slot, b
    <3> QED BY <1>1, <2>6, <2>7, <3>1, SlotsOfBlocks
  <2>9. Contains(table'[r], slot \div BlockSize) BY <2>3, <2>4, <2>6, <2>7 DEF Contains
  <2>10. kv'[rank][slot] = stored[rank][slot]
    <3> HIDE DEF slot
    <3>1. \E o \in Requests : Contains(table'[o], slot \div BlockSize) BY <2>9
    <3>2. kv'[rank] = Forgotten(stored[rank], table') OBVIOUS
    <3> QED BY <2>8, <3>1, <3>2 DEF Forgotten
  <2> QED BY <2>3, <2>5, <2>10
<1>7. CacheHolds'
  <2>1. \A rank \in AllRanks, r \in Requests :
          Held(kv'[rank], table'[r], TextOf(r), numCached'[r])
    BY <1>6 DEF Held
  <2> QED BY <1>2, <2>1 DEF CacheHolds
<1> QED BY <1>4, <1>5, <1>7

\* A request gives up its blocks.
LEMMA PreemptStep ==
  ASSUME RunnerInv, NEW r \in Requests, Preempt(r)
  PROVE  RunnerInv'
<1>1. /\ phase = "serve" /\ stage = "idle"
      /\ table' = [table EXCEPT ![r] = << >>]
      /\ numCached' = [numCached EXCEPT ![r] = 0]
      /\ prefilled' = prefilled \ {r}
      /\ kv' = [rank \in AllRanks |-> Forgotten(kv[rank], table')]
      /\ UNCHANGED <<config, phase, graphs, graphVars, callVars, numTokens>>
  BY DEF Preempt, Serving, runnerVars
<1>2. TablesTyped /\ (\A o \in Requests : RequestOK(o)) BY DEF RunnerInv, RequestsInv
<1>3. /\ \A o \in Requests \ {r} : table'[o] = table[o] /\ numCached'[o] = numCached[o]
      /\ table'[r] = << >> /\ numCached'[r] = 0
      /\ numCached' \in [Requests -> Nat]
  BY <1>1, <1>2 DEF TablesTyped
<1>4. NumBlocks' = NumBlocks /\ CacheShape' /\ CacheHolds'
  <2>1. \A o \in Requests : Fits(o, numCached[o]) BY <1>2, CachedInTable DEF Fits
  <2>2. \A rank \in AllRanks : \A slot \in DOMAIN kv[rank] :
          DOMAIN kv[rank][slot] = {"token", "pos"}
    BY DEF RunnerInv, CacheShape
  <2>3. \A rank \in AllRanks : \A o \in Requests : Held(kv[rank], table[o], TextOf(o), numCached[o])
    BY DEF RunnerInv, CacheHolds
  <2>4. \A o \in Requests :
          \/ table'[o] = << >> /\ numCached'[o] = 0
          \/ /\ table'[o] = table[o] /\ Fits(o, numCached'[o])
             /\ \A rank \in AllRanks : Held(kv[rank], table[o], TextOf(o), numCached'[o])
    BY <1>3, <2>1, <2>3
  <2>5. phase' = "serve" /\ config' = config /\ stage' = "idle" BY <1>1 DEF callVars
  <2> QED BY <1>1, <1>3, <2>2, <2>4, <2>5, NotForgotten
<1>5. TablesTyped'
  <2>1. << >> \in Seq(0 .. NumBlocks - 1) OBVIOUS
  <2>2. table' \in [Requests -> Seq(0 .. NumBlocks - 1)] BY <1>1, <1>2, <2>1 DEF TablesTyped
  <2> QED BY <1>1, <1>2, <1>3, <1>4, <2>2 DEF TablesTyped
<1>6. ASSUME NEW o \in Requests PROVE RequestOK(o)'
  <2>1. RequestOK(o) BY <1>2
  <2>2. CASE o = r BY <1>1, <1>3, <2>1, <2>2 DEF RequestOK
  <2>3. CASE o # r
    <3>1. /\ table'[o] = table[o] /\ numCached'[o] = numCached[o]
          /\ (o \in prefilled' <=> o \in prefilled)
      BY <1>1, <1>3, <2>3
    <3> QED BY <1>1, <2>1, <3>1 DEF RequestOK
  <2> QED BY <2>2, <2>3
<1>7. Ownership'
  <2>1. \A o \in Requests : numCached[o] \in Nat BY <1>2 DEF TablesTyped
  <2>2. \A o \in Requests : \/ table'[o] = << >>
                            \/ table'[o] = table[o] /\ numCached'[o] >= numCached[o]
    BY <1>3, <2>1
  <2> QED BY <1>3, <2>2, OwnersStay
<1>8. phase' = "serve" /\ stage' = "idle" /\ batch' = << >> /\ context' = << >>
  BY <1>1 DEF RunnerInv, CallOK, callVars
<1> QED BY <1>1, <1>4, <1>5, <1>6, <1>7, <1>8, ServingStep

\* Of a request in a batch: what it has cached when its run is over.
CachedAfter(r) == numCached[r] + ScheduledOf(r)

\* The requests of a batch, when its run is over.
LEMMA InBatchIs ==
  ASSUME RunnerInv, stage # "idle", phase = "serve", NEW r \in InBatch
  PROVE  /\ r \in Requests /\ CachedAfter(r) \in Nat
         /\ numCached[r] < CachedAfter(r) /\ CachedAfter(r) <= numTokens[r]
         /\ r \in prefilled => CachedAfter(r) = numTokens[r]
         /\ table[r] # << >> /\ Len(table[r]) = BlocksOf(numTokens[r])
         /\ Fits(r, CachedAfter(r))
         /\ stage = "computed" => \A rank \in AllRanks :
              Held(kv[rank], table[r], TextOf(r), CachedAfter(r))
<1> DEFINE n == Len(batch)
<1>1. DOMAIN batch = 1 .. n BY BatchComputable
<1>2. PICK k \in 1 .. n : batch[k].request = r BY <1>1 DEF InBatch
<1>3. r \in Requests BY DEF InBatch
<1>4. ScheduledOf(r) = batch[k].numScheduled
  <2>1. \A l \in 1 .. n : batch[l].request = r => l = k BY <1>2 DEF RunnerInv, CallOK
  <2>2. (CHOOSE l \in DOMAIN batch : batch[l].request = r) = k BY <1>1, <1>2, <2>1
  <2> QED BY <2>2 DEF ScheduledOf
<1>5. TablesTyped /\ EntryOK(batch[k]) /\ RequestOK(r)
  BY <1>2, <1>3 DEF RunnerInv, CallOK, RequestsInv
<1>6. /\ batch[k].blockTable = table[r] /\ table[r] # << >>
      /\ Len(table[r]) = BlocksFor(numTokens[r], BlockSize)
      /\ batch[k].numCached = numCached[r] /\ numCached[r] \in Nat
      /\ numTokens[r] \in Nat \ {0} /\ batch[k].numScheduled \in Nat \ {0}
      /\ numCached[r] + batch[k].numScheduled <= numTokens[r]
  BY <1>2, <1>5, EntryFields
<1> DEFINE c == numCached[r]
           ns == batch[k].numScheduled
           t == numTokens[r]
<1>7. /\ CachedAfter(r) = c + ns /\ c + ns \in Nat /\ c < c + ns /\ c + ns <= t
      /\ r \in prefilled => c = t - 1
  BY <1>4, <1>5, <1>6 DEF CachedAfter, RequestOK
<1>8. r \in prefilled => c + ns = t
  <2>1. c \in Nat /\ ns \in Nat \ {0} /\ t \in Nat \ {0} BY <1>6
  <2> HIDE DEF c, ns, t
  <2> QED BY <1>7, <2>1
<1>9. Fits(r, CachedAfter(r))
  <2> SUFFICES ASSUME NEW p \in 0 .. (c + ns) - 1
               PROVE  p \div BlockSize + 1 \in 1 .. Len(table[r])
    BY <1>7 DEF Fits
  <2>1. p \in 0 .. t - 1
    <3>1. t \in Nat /\ c \in Nat /\ ns \in Nat BY <1>6
    <3> HIDE DEF c, ns, t
    <3> QED BY <1>7, <3>1
  <2> QED BY <1>6, <2>1, PositionInBlocks
<1>10. ASSUME stage = "computed", NEW rank \in AllRanks
       PROVE  Held(kv[rank], table[r], TextOf(r), CachedAfter(r))
  <2>1. Held(kv[rank], batch[k].blockTable, TextOf(batch[k].request),
             batch[k].numCached + batch[k].numScheduled)
    BY <1>1, <1>10 DEF RunnerInv, CacheHolds
  <2> QED BY <1>2, <1>6, <1>7, <2>1
<1> QED BY <1>3, <1>6, <1>7, <1>8, <1>9, <1>10 DEF BlocksOf

\* At the end of the warmup there are still no requests and no cache.
LEMMA WarmupReturns ==
  ASSUME RunnerInv, phase # "serve", RunReturns
  PROVE  RunnerInv'
<1>1. /\ stage = "computed" /\ stage' = "idle" /\ batch' = << >> /\ context' = << >>
      /\ UNCHANGED <<config, graphs, graphVars>>
      /\ kv' = [rank \in AllRanks |-> Forgotten(kv[rank], table')]
  BY DEF RunReturns, Done
<1>2. phase = "warmup" /\ phase' = "allocate"
  <2>1. phase = "warmup" BY <1>1, NotYetServing
  <2> QED BY <2>1 DEF RunReturns
<1>3. InBatch = {}
  <2>1. DOMAIN batch = 1 .. Len(batch) BY <1>1, BatchComputable
  <2>2. \A k \in DOMAIN batch : batch[k].request = "warmup"
    BY <1>1, <1>2, <2>1, WarmupFields DEF RunnerInv, CallOK
  <2>3. "warmup" \notin Requests BY RunnerAssumption
  <2> QED BY <2>2, <2>3 DEF InBatch
<1>4. UNCHANGED requestVars
  <2> DEFINE complete == {r \in InBatch : numCached[r] + ScheduledOf(r) = numTokens[r]}
             ended == {r \in complete : numTokens[r] = Len(Text[r])}
  <2>1. complete = {} /\ ended = {} BY <1>3
  <2>2. /\ numTokens' = [r \in Requests |-> CASE r \in ended -> PromptLength[r]
                                              [] r \in complete \ ended -> numTokens[r] + 1
                                              [] OTHER -> numTokens[r]]
        /\ numCached' = [r \in Requests |->
             CASE r \in ended -> 0
               [] r \in InBatch \ ended -> numCached[r] + ScheduledOf(r)
               [] OTHER -> numCached[r]]
        /\ table' = [r \in Requests |-> IF r \in ended THEN << >> ELSE table[r]]
        /\ prefilled' = (prefilled \cup complete) \ ended
    BY DEF RunReturns
  <2> HIDE DEF complete, ended
  <2>3. /\ numTokens' = [r \in Requests |-> numTokens[r]]
        /\ numCached' = [r \in Requests |-> numCached[r]]
        /\ table' = [r \in Requests |-> table[r]]
        /\ prefilled' = prefilled
    BY <1>3, <2>1, <2>2
  <2>4. TablesTyped BY DEF RunnerInv, RequestsInv
  <2> QED BY <2>3, <2>4 DEF TablesTyped, requestVars
<1>5. AllRanks' = AllRanks BY <1>1 DEF AllRanks
<1>6. \A rank \in AllRanks : kv[rank] = << >> BY <1>2 DEF RunnerInv, CacheShape
<1>7. CacheShape'
  <2>1. \A rank \in AllRanks : kv'[rank] = << >> /\ DOMAIN kv'[rank] = {}
    <3>1. Forgotten(<< >>, table') = << >> /\ DOMAIN << >> = {} BY DEF Forgotten
    <3> QED BY <1>1, <1>6, <3>1
  <2>2. DOMAIN kv' = AllRanks BY <1>1
  <2> QED BY <1>2, <1>5, <2>1, <2>2 DEF CacheShape
<1>8. CallOK' BY <1>1, <1>2 DEF CallOK
<1>9. GraphsOK' BY <1>1, <1>5 DEF RunnerInv, GraphsOK
<1> QED BY <1>1, <1>2, <1>4, <1>7, <1>8, <1>9, StartingStep

\* What is left to show of a step that ends a call: the blocks a request keeps still
\* are enough, and what it has cached is held.
LEMMA CallEnds ==
  ASSUME RunnerInv, phase = "serve", phase' = "serve", Done,
         UNCHANGED <<config, graphs, graphVars>>,
         NEW stored,
         \A rank \in AllRanks :
           /\ DOMAIN stored[rank] = DOMAIN kv[rank]
           /\ \A slot \in DOMAIN stored[rank] : DOMAIN stored[rank][slot] = {"token", "pos"},
         kv' = [rank \in AllRanks |-> Forgotten(stored[rank], table')],
         numTokens' \in [Requests -> Nat], numCached' \in [Requests -> Nat],
         prefilled' \subseteq Requests, DOMAIN table' = Requests,
         table' = [r \in Requests |-> table'[r]],
         \A r \in Requests :
           \/ table'[r] = << >> /\ numCached'[r] = 0
           \/ /\ table'[r] = table[r] /\ numCached'[r] >= numCached[r] /\ Fits(r, numCached'[r])
              /\ \A rank \in AllRanks : Held(stored[rank], table[r], TextOf(r), numCached'[r]),
         \A r \in Requests : RequestOK(r)'
  PROVE  RunnerInv'
<1>1. stage' = "idle" /\ batch' = << >> /\ context' = << >> BY DEF Done
<1>2. NumBlocks' = NumBlocks /\ CacheShape' /\ CacheHolds' BY <1>1, NotForgotten
<1>3. TablesTyped'
  <2>1. << >> \in Seq(0 .. NumBlocks - 1) OBVIOUS
  <2>2. \A r \in Requests : table[r] \in Seq(0 .. NumBlocks - 1)
    BY DEF RunnerInv, RequestsInv, TablesTyped
  <2>3. \A r \in Requests : table'[r] \in Seq(0 .. NumBlocks - 1) BY <2>1, <2>2
  <2> DEFINE S == Seq(0 .. NumBlocks - 1)
  <2>4. \A r \in Requests : table'[r] \in S BY <2>3
  <2> HIDE DEF S
  <2>5. table' \in [Requests -> S] BY <2>4
  <2> QED BY <1>2, <2>5 DEF TablesTyped, S
<1>4. Ownership' BY OwnersStay
<1> QED BY <1>1, <1>2, <1>3, <1>4, ServingStep

\* What every rank holds in a slot is a row.
LEMMA RowsInCache ==
  ASSUME RunnerInv, NEW rank \in AllRanks, NEW slot \in DOMAIN kv[rank]
  PROVE  DOMAIN kv[rank][slot] = {"token", "pos"}
BY DEF RunnerInv, CacheShape

\* A batch is over: its requests have what they computed, and go on or end.
LEMMA BatchReturns ==
  ASSUME RunnerInv, phase = "serve", RunReturns
  PROVE  RunnerInv'
<1> DEFINE complete == {r \in InBatch : CachedAfter(r) = numTokens[r]}
           ended == {r \in complete : numTokens[r] = Len(Text[r])}
<1>1. /\ stage = "computed" /\ Done /\ phase' = "serve"
      /\ UNCHANGED <<config, graphs, graphVars>>
      /\ kv' = [rank \in AllRanks |-> Forgotten(kv[rank], table')]
  BY DEF RunReturns
<1>2. /\ numTokens' = [r \in Requests |-> CASE r \in ended -> PromptLength[r]
                                            [] r \in complete \ ended -> numTokens[r] + 1
                                            [] OTHER -> numTokens[r]]
      /\ numCached' = [r \in Requests |-> CASE r \in ended -> 0
                                            [] r \in InBatch \ ended -> CachedAfter(r)
                                            [] OTHER -> numCached[r]]
      /\ table' = [r \in Requests |-> IF r \in ended THEN << >> ELSE table[r]]
      /\ prefilled' = (prefilled \cup complete) \ ended
  BY DEF RunReturns, CachedAfter
<1>3. TablesTyped /\ (\A r \in Requests : RequestOK(r)) BY DEF RunnerInv, RequestsInv
<1>4. ASSUME NEW r \in InBatch
      PROVE  /\ r \in Requests /\ CachedAfter(r) \in Nat
             /\ numCached[r] < CachedAfter(r) /\ CachedAfter(r) <= numTokens[r]
             /\ r \in prefilled => CachedAfter(r) = numTokens[r]
             /\ table[r] # << >> /\ Len(table[r]) = BlocksOf(numTokens[r])
             /\ Fits(r, CachedAfter(r))
             /\ \A rank \in AllRanks : Held(kv[rank], table[r], TextOf(r), CachedAfter(r))
  BY <1>1, InBatchIs
<1>5. ended \subseteq complete /\ complete \subseteq InBatch /\ InBatch \subseteq Requests
  BY DEF InBatch
<1>6. ASSUME NEW r \in Requests
      PROVE  /\ numTokens[r] \in Nat /\ numCached[r] \in Nat
             /\ PromptLength[r] \in Nat \ {0} /\ Len(Text[r]) \in Nat
             /\ PromptLength[r] <= Len(Text[r])
             /\ PromptLength[r] <= numTokens[r] /\ numTokens[r] <= Len(Text[r])
             /\ table[r] = << >> => numCached[r] = 0 /\ r \notin prefilled
  BY <1>3, Texts DEF TablesTyped, RequestOK
<1> HIDE DEF complete, ended
<1>7. ASSUME NEW r \in ended
      PROVE  /\ numTokens'[r] = PromptLength[r] /\ numCached'[r] = 0
             /\ table'[r] = << >> /\ r \notin prefilled'
  BY <1>2, <1>5
<1>8. ASSUME NEW r \in complete \ ended
      PROVE  /\ numTokens'[r] = numTokens[r] + 1 /\ numCached'[r] = numTokens[r]
             /\ table'[r] = table[r] /\ r \in prefilled'
             /\ numTokens[r] + 1 <= Len(Text[r])
  <2>1. r \in Requests /\ CachedAfter(r) = numTokens[r] /\ numTokens[r] # Len(Text[r])
    BY <1>5 DEF complete, ended
  <2>2. numTokens[r] + 1 <= Len(Text[r]) BY <1>6, <2>1
  <2> QED BY <1>2, <1>5, <2>1, <2>2
<1>9. ASSUME NEW r \in InBatch \ complete
      PROVE  /\ numTokens'[r] = numTokens[r] /\ numCached'[r] = CachedAfter(r)
             /\ table'[r] = table[r] /\ r \notin prefilled' /\ CachedAfter(r) < numTokens[r]
  <2>1. r \in Requests /\ CachedAfter(r) # numTokens[r] BY <1>5 DEF complete
  <2>2. CachedAfter(r) < numTokens[r] BY <1>4, <1>6, <2>1
  <2>3. r \notin prefilled BY <1>4, <2>1
  <2> QED BY <1>2, <1>5, <2>1, <2>2, <2>3
<1>10. ASSUME NEW r \in Requests \ InBatch
       PROVE  /\ numTokens'[r] = numTokens[r] /\ numCached'[r] = numCached[r]
              /\ table'[r] = table[r] /\ (r \in prefilled' <=> r \in prefilled)
  BY <1>2, <1>5
<1>11. \A r \in Requests : \/ r \in ended \/ r \in complete \ ended
                           \/ r \in InBatch \ complete \/ r \in Requests \ InBatch
  BY <1>5
<1>12. numTokens' \in [Requests -> Nat] /\ numCached' \in [Requests -> Nat]
  <2>1. ASSUME NEW r \in Requests PROVE numTokens'[r] \in Nat /\ numCached'[r] \in Nat
    <3>1. CASE r \in ended BY <1>6, <1>7, <3>1
    <3>2. CASE r \in complete \ ended BY <1>6, <1>8, <3>2
    <3>3. CASE r \in InBatch \ complete BY <1>4, <1>6, <1>9, <3>3
    <3>4. CASE r \in Requests \ InBatch BY <1>6, <1>10, <3>4
    <3> QED BY <1>11, <3>1, <3>2, <3>3, <3>4
  <2>2. numTokens' = [r \in Requests |-> numTokens'[r]]
        /\ numCached' = [r \in Requests |-> numCached'[r]]
    BY <1>2
  <2> QED BY <2>1, <2>2
<1>13. ASSUME NEW r \in Requests
       PROVE  \/ table'[r] = << >> /\ numCached'[r] = 0
              \/ /\ table'[r] = table[r] /\ numCached'[r] >= numCached[r]
                 /\ Fits(r, numCached'[r])
                 /\ \A rank \in AllRanks : Held(kv[rank], table[r], TextOf(r), numCached'[r])
  <2>1. CASE r \in ended BY <1>7, <2>1
  <2>2. CASE r \in complete \ ended
    <3>1. r \in InBatch /\ numCached'[r] = CachedAfter(r) BY <1>5, <1>8, <2>2 DEF complete
    <3>2. numCached'[r] >= numCached[r] BY <1>4, <1>6, <3>1
    <3> QED BY <1>4, <1>8, <2>2, <3>1, <3>2
  <2>3. CASE r \in InBatch \ complete
    <3>1. r \in InBatch /\ numCached'[r] = CachedAfter(r) BY <1>9, <2>3
    <3>2. numCached'[r] >= numCached[r] BY <1>4, <1>6, <3>1
    <3> QED BY <1>4, <1>9, <2>3, <3>1, <3>2
  <2>4. CASE r \in Requests \ InBatch
    <3>1. Fits(r, numCached[r]) BY <1>3, CachedInTable DEF Fits
    <3>2. \A rank \in AllRanks : Held(kv[rank], table[r], TextOf(r), numCached[r])
      BY DEF RunnerInv, CacheHolds
    <3>3. numCached'[r] >= numCached[r] BY <1>6, <1>10, <2>4
    <3> QED BY <1>10, <2>4, <3>1, <3>2, <3>3
  <2> QED BY <1>11, <2>1, <2>2, <2>3, <2>4
<1>14. ASSUME NEW r \in Requests PROVE RequestOK(r)'
  <2>1. CASE r \in ended BY <1>1, <1>6, <1>7, <2>1 DEF RequestOK
  <2>2. CASE r \in complete \ ended
    <3>1. r \in InBatch /\ r \in Requests BY <1>5, <2>2
    <3>2. numTokens'[r] - 1 = numTokens[r] /\ numCached'[r] < numTokens'[r]
          /\ PromptLength[r] <= numTokens'[r]
      <4>1. /\ numTokens[r] \in Nat /\ PromptLength[r] \in Nat
            /\ PromptLength[r] <= numTokens[r]
        BY <1>6, <3>1
      <4>2. numTokens'[r] = numTokens[r] + 1 /\ numCached'[r] = numTokens[r] BY <1>8, <2>2
      <4> QED BY <4>1, <4>2
    <3>3. table'[r] # << >> /\ Len(table'[r]) = BlocksOf(numTokens'[r] - 1)
      BY <1>4, <1>8, <2>2, <3>1, <3>2
    <3> QED BY <1>1, <1>8, <2>2, <3>2, <3>3 DEF RequestOK
  <2>3. CASE r \in InBatch \ complete
    <3>1. table'[r] # << >> /\ Len(table'[r]) = BlocksOf(numTokens'[r]) BY <1>4, <1>9, <2>3
    <3> QED BY <1>1, <1>6, <1>9, <2>3, <3>1 DEF RequestOK
  <2>4. CASE r \in Requests \ InBatch
    <3>1. RequestOK(r) BY <1>3
    <3> QED BY <1>1, <1>10, <2>4, <3>1 DEF RequestOK
  <2> QED BY <1>11, <2>1, <2>2, <2>3, <2>4
<1>15. prefilled' \subseteq Requests BY <1>2, <1>3, <1>5 DEF TablesTyped
<1>16. DOMAIN table' = Requests /\ table' = [r \in Requests |-> table'[r]] BY <1>2
<1>17. \A rank \in AllRanks : \A slot \in DOMAIN kv[rank] : DOMAIN kv[rank][slot] = {"token", "pos"}
  BY RowsInCache
<1> QED BY <1>1, <1>12, <1>13, <1>14, <1>15, <1>16, <1>17, CallEnds

\* A batch is aborted in the middle of its run.
LEMMA OutOfMemoryStep ==
  ASSUME RunnerInv, RunOutOfMemory
  PROVE  RunnerInv'
<1>1. /\ phase = "serve" /\ Done
      /\ UNCHANGED <<config, phase, graphs, graphVars>>
      /\ numTokens' = [r \in Requests |-> IF r \in InBatch THEN PromptLength[r] ELSE numTokens[r]]
      /\ numCached' = [r \in Requests |-> IF r \in InBatch THEN 0 ELSE numCached[r]]
      /\ table' = [r \in Requests |-> IF r \in InBatch THEN << >> ELSE table[r]]
      /\ prefilled' = prefilled \ InBatch
  BY DEF RunOutOfMemory, runnerVars
<1>2. kv' = [rank \in AllRanks |-> Forgotten(kv[rank], table')] BY DEF RunOutOfMemory
<1>3. TablesTyped /\ (\A r \in Requests : RequestOK(r)) BY DEF RunnerInv, RequestsInv
<1>4. ASSUME NEW rank \in AllRanks
      PROVE  /\ \A slot \in DOMAIN kv[rank] : DOMAIN kv[rank][slot] = {"token", "pos"}
             /\ \A r \in Requests : Held(kv[rank], table[r], TextOf(r), numCached[r])
  BY RowsInCache DEF RunnerInv, CacheHolds
<1>5. ASSUME NEW r \in Requests
      PROVE  /\ numTokens[r] \in Nat /\ numCached[r] \in Nat
             /\ PromptLength[r] \in Nat /\ PromptLength[r] <= Len(Text[r])
  BY <1>3, Texts DEF TablesTyped
<1>6. /\ numTokens' \in [Requests -> Nat] /\ numCached' \in [Requests -> Nat]
      /\ prefilled' \subseteq Requests /\ DOMAIN table' = Requests
      /\ table' = [r \in Requests |-> table'[r]]
  BY <1>1, <1>3, <1>5 DEF TablesTyped
<1>7. ASSUME NEW r \in Requests
      PROVE  \/ table'[r] = << >> /\ numCached'[r] = 0
             \/ /\ table'[r] = table[r] /\ numCached'[r] >= numCached[r]
                /\ Fits(r, numCached'[r])
                /\ \A rank \in AllRanks :
                     Held(kv[rank], table[r], TextOf(r), numCached'[r])
  <2>1. CASE r \in InBatch BY <1>1, <2>1
  <2>2. CASE r \notin InBatch
    <3>1. table'[r] = table[r] /\ numCached'[r] = numCached[r] BY <1>1, <2>2
    <3>2. Fits(r, numCached[r]) BY <1>3, CachedInTable DEF Fits
    <3> QED BY <1>4, <1>5, <3>1, <3>2
  <2> QED BY <2>1, <2>2
<1>8. ASSUME NEW r \in Requests PROVE RequestOK(r)'
  <2>1. RequestOK(r) BY <1>3
  <2>2. CASE r \in InBatch
    <3>1. /\ numTokens'[r] = PromptLength[r] /\ numCached'[r] = 0 /\ table'[r] = << >>
          /\ r \notin prefilled'
      BY <1>1, <2>2
    <3> QED BY <1>1, <1>5, <3>1 DEF RequestOK
  <2>3. CASE r \notin InBatch
    <3>1. /\ table'[r] = table[r] /\ numCached'[r] = numCached[r]
          /\ numTokens'[r] = numTokens[r] /\ (r \in prefilled' <=> r \in prefilled)
      BY <1>1, <2>3
    <3> QED BY <1>1, <2>1, <3>1 DEF RequestOK
  <2> QED BY <2>2, <2>3
<1> HIDE <1>1
<1>9. phase = "serve" /\ phase' = "serve" /\ Done /\ UNCHANGED <<config, graphs, graphVars>>
  BY <1>1
<1> QED BY <1>2, <1>4, <1>6, <1>7, <1>8, <1>9, CallEnds

\* As many blocks as there are can be taken, each once.
LEMMA TakenIs ==
  ASSUME NEW n \in Nat, NEW blocks, IsFiniteSet(blocks), n <= Cardinality(blocks)
  PROVE  /\ Taken(n, blocks) \in [1 .. n -> blocks]
         /\ \A i, j \in 1 .. n : Taken(n, blocks)[i] = Taken(n, blocks)[j] => i = j
<1>1. Cardinality(blocks) \in Nat /\ ExistsBijection(1 .. Cardinality(blocks), blocks)
  BY FS_CardinalityType
<1> DEFINE m == Cardinality(blocks)
<1>2. PICK f \in Bijection(1 .. m, blocks) : TRUE BY <1>1 DEF ExistsBijection
<1>3. /\ f \in [1 .. m -> blocks]
      /\ \A i, j \in 1 .. m : f[i] = f[j] => i = j
  BY <1>2 DEF Bijection, Injection, IsInjective
<1> HIDE DEF m
<1> DEFINE g == [i \in 1 .. n |-> f[i]]
<1>4. \A i \in 1 .. n : i \in 1 .. m BY <1>1 DEF m
<1>5. g \in [1 .. n -> blocks] BY <1>3, <1>4
<1>6. IsInjective(g) BY <1>3, <1>4 DEF IsInjective
<1>7. \E taken \in [1 .. n -> blocks] : IsInjective(taken) BY <1>5, <1>6
<1>8. Taken(n, blocks) \in [1 .. n -> blocks] /\ IsInjective(Taken(n, blocks))
  BY <1>7 DEF Taken
<1> QED BY <1>8 DEF IsInjective

\* Free blocks are blocks of the cache that no request has.
LEMMA FreeOnes ==
  ASSUME RunnerInv, phase = "serve"
  PROVE  /\ IsFiniteSet(FreeBlocks) /\ FreeBlocks \subseteq 0 .. NumBlocks - 1
         /\ \A b \in FreeBlocks, o \in Requests : \A j \in DOMAIN table[o] : table[o][j] # b
<1>1. NumBlocks \in Nat BY DEF RunnerInv, CacheShape
<1>2. FreeBlocks \subseteq 0 .. NumBlocks - 1 BY DEF FreeBlocks
<1>3. IsFiniteSet(0 .. NumBlocks - 1)
  <2> DEFINE m == NumBlocks
  <2>1. m \in Nat BY <1>1
  <2> HIDE DEF m
  <2>2. 0 \in Int /\ m - 1 \in Int BY <2>1
  <2>3. IsFiniteSet(0 .. m - 1) BY <2>2, FS_Interval
  <2> QED BY <2>3 DEF m
<1>4. IsFiniteSet(FreeBlocks) BY <1>2, <1>3, FS_Subset
<1>5. \A b \in FreeBlocks, o \in Requests : \A j \in DOMAIN table[o] : table[o][j] # b
  BY DEF FreeBlocks, ToSet
<1> QED BY <1>2, <1>4, <1>5

\* What is left to show of a step that gives blocks to a request: they are its own, but
\* for a first one that is shared, and what it has cached is in them.
LEMMA TableStep ==
  ASSUME RunnerInv, Serving, NEW r \in Requests, NEW t, NEW c \in Nat,
         t \in Seq(0 .. NumBlocks - 1), t # << >>,
         table' = [table EXCEPT ![r] = t], numCached' = [numCached EXCEPT ![r] = c],
         UNCHANGED <<config, phase, kv, graphs, graphVars, callVars, numTokens, prefilled>>,
         Len(t) = BlocksOf(numTokens[r]), c < numTokens[r], c >= numCached[r],
         r \in prefilled => c = numCached[r],
         \A i, j \in DOMAIN t : t[i] = t[j] => i = j,
         \A o \in Requests \ {r} : \A i \in DOMAIN t, j \in DOMAIN table[o] :
           t[i] = table[o][j] => i = 1 /\ j = 1 /\ c >= BlockSize /\ numCached[o] >= BlockSize,
         \A rank \in AllRanks : Held(kv[rank], t, TextOf(r), c)
  PROVE  RunnerInv'
<1>1. phase = "serve" /\ phase' = "serve" /\ stage = "idle" /\ stage' = "idle"
      /\ UNCHANGED <<config, graphs, graphVars>>
      /\ kv' = kv /\ numTokens' = numTokens /\ prefilled' = prefilled
  BY DEF Serving, callVars
<1>2. TablesTyped /\ (\A o \in Requests : RequestOK(o)) /\ Ownership
  BY DEF RunnerInv, RequestsInv
<1>3. NumBlocks' = NumBlocks /\ AllRanks' = AllRanks BY <1>1 DEF NumBlocks, AllRanks
<1>4. /\ \A o \in Requests \ {r} : table'[o] = table[o] /\ numCached'[o] = numCached[o]
      /\ table'[r] = t /\ numCached'[r] = c
  BY <1>2 DEF TablesTyped
<1>5. TablesTyped' BY <1>1, <1>2, <1>3 DEF TablesTyped
<1>6. ASSUME NEW o \in Requests PROVE RequestOK(o)'
  <2>1. RequestOK(o) BY <1>2
  <2>2. CASE o = r BY <1>1, <1>4, <2>1, <2>2 DEF RequestOK
  <2>3. CASE o # r BY <1>1, <1>4, <2>1, <2>3 DEF RequestOK
  <2> QED BY <2>2, <2>3
<1>7. Ownership'
  <2> SUFFICES ASSUME NEW p \in Requests, NEW o \in Requests,
                      NEW i \in DOMAIN table'[p], NEW j \in DOMAIN table'[o],
                      table'[p][i] = table'[o][j]
               PROVE  \/ p = o /\ i = j
                      \/ /\ i = 1 /\ j = 1
                         /\ numCached'[p] >= BlockSize /\ numCached'[o] >= BlockSize
    BY DEF Ownership
  <2>1. CASE p = r /\ o = r BY <1>4, <2>1
  <2>2. CASE p = r /\ o # r BY <1>4, <2>2
  <2>3. CASE p # r /\ o = r
    <3>1. t[j] = table[p][i] /\ j \in DOMAIN t /\ i \in DOMAIN table[p] BY <1>4, <2>3
    <3>2. i = 1 /\ j = 1 /\ c >= BlockSize /\ numCached[p] >= BlockSize BY <2>3, <3>1
    <3> QED BY <1>4, <2>3, <3>2
  <2>4. CASE p # r /\ o # r
    <3>1. table[p][i] = table[o][j] /\ i \in DOMAIN table[p] /\ j \in DOMAIN table[o]
      BY <1>4, <2>4
    <3> QED BY <1>2, <1>4, <2>4, <3>1 DEF Ownership
  <2> QED BY <2>1, <2>2, <2>3, <2>4
<1>8. CacheShape' BY <1>1, <1>3 DEF RunnerInv, CacheShape
<1>9. CacheHolds'
  <2>1. ASSUME NEW rank \in AllRanks, NEW o \in Requests
        PROVE  Held(kv'[rank], table'[o], TextOf(o), numCached'[o])
    <3>1. CASE o = r BY <1>1, <1>4, <3>1
    <3>2. CASE o # r BY <1>1, <1>4, <3>2 DEF RunnerInv, CacheHolds
    <3> QED BY <3>1, <3>2
  <2> QED BY <1>1, <1>3, <2>1 DEF CacheHolds
<1>10. batch' = << >> /\ context' = << >> BY <1>1 DEF RunnerInv, CallOK, callVars
<1> QED BY <1>1, <1>5, <1>6, <1>7, <1>8, <1>9, <1>10, ServingStep

\* A request in decode gets the block of its newest token.
LEMMA AppendStep ==
  ASSUME RunnerInv, NEW r \in Requests, AppendBlock(r)
  PROVE  RunnerInv'
<1> DEFINE b == Min(FreeBlocks)
           t == Append(table[r], b)
           c == numCached[r]
           m == numTokens[r]
<1>1. /\ Serving /\ r \in prefilled /\ ~HasBlocks(r) /\ FreeBlocks # {}
      /\ table' = [table EXCEPT ![r] = t]
      /\ UNCHANGED <<config, phase, kv, graphs, graphVars, callVars,
                     numTokens, numCached, prefilled>>
  BY DEF AppendBlock, runnerVars
<1>2. phase = "serve" BY <1>1 DEF Serving
<1>3. /\ FreeBlocks \subseteq 0 .. NumBlocks - 1
      /\ \A x \in FreeBlocks, o \in Requests : \A j \in DOMAIN table[o] : table[o][j] # x
  BY <1>2, FreeOnes
<1>4. b \in FreeBlocks
  <2>1. \A x \in 0 .. NumBlocks - 1 : x \in Nat OBVIOUS
  <2>2. FreeBlocks \in SUBSET Nat BY <1>3, <2>1
  <2> QED BY <1>1, <2>2, Smallest
<1>5. TablesTyped /\ RequestOK(r) BY DEF RunnerInv, RequestsInv
<1>6. /\ table[r] \in Seq(0 .. NumBlocks - 1) /\ Len(table[r]) \in Nat
      /\ DOMAIN table[r] = 1 .. Len(table[r])
      /\ m \in Nat /\ c \in Nat
  BY <1>5, TableTyped
<1>7. table[r] # << >> /\ c = m - 1 /\ Len(table[r]) # BlocksOf(m)
      /\ Len(table[r]) = BlocksOf(m - 1) /\ Len(table[r]) > 0
  <2>1. table[r] # << >> /\ c = m - 1 BY <1>1, <1>5 DEF RequestOK
  <2>2. Len(table[r]) # BlocksOf(m) BY <1>1, <2>1 DEF HasBlocks, BlocksOf
  <2>3. Len(table[r]) = BlocksOf(m - 1) BY <1>5, <2>1, <2>2 DEF RequestOK
  <2>4. Len(table[r]) > 0 BY <1>5, <2>1, TableTyped
  <2> QED BY <2>1, <2>2, <2>3, <2>4
<1> HIDE DEF b
<1>8. /\ t \in Seq(0 .. NumBlocks - 1) /\ t # << >> /\ Len(t) = Len(table[r]) + 1
      /\ DOMAIN t = 1 .. Len(table[r]) + 1
      /\ \A i \in 1 .. Len(table[r]) : t[i] = table[r][i]
      /\ t[Len(table[r]) + 1] = b
  <2> DEFINE S == 0 .. NumBlocks - 1
  <2>1. b \in S /\ table[r] \in Seq(S) BY <1>3, <1>4, <1>6
  <2> HIDE DEF S
  <2>2. /\ t \in Seq(S) /\ t # << >> /\ Len(t) = Len(table[r]) + 1
        /\ \A i \in 1 .. Len(table[r]) : t[i] = table[r][i]
        /\ t[Len(table[r]) + 1] = b
    BY <2>1
  <2>3. DOMAIN t = 1 .. Len(t) BY <2>2
  <2> QED BY <2>2, <2>3 DEF S
<1>9. Len(t) = BlocksOf(m)
  <2>1. BlockSize \in Nat \ {0} BY BlockSizeAssumption
  <2>2. m - 1 # 0
    <3> SUFFICES ASSUME m - 1 = 0 PROVE FALSE OBVIOUS
    <3>1. BlocksOf(m - 1) = (0 + BlockSize - 1) \div BlockSize BY DEF BlocksOf, BlocksFor
    <3>2. 0 + BlockSize - 1 = 0 * BlockSize + (BlockSize - 1)
          /\ BlockSize - 1 \in 0 .. BlockSize - 1
      BY <2>1
    <3>3. (0 * BlockSize + (BlockSize - 1)) \div BlockSize = 0 BY <3>2, DivUnique
    <3>4. BlocksOf(m - 1) = 0 BY <3>1, <3>2, <3>3
    <3> QED BY <1>7, <3>4
  <2>3. m \in Nat \ {0} /\ m - 1 \in Nat \ {0} BY <1>6, <1>7, <2>2
  <2>4. (m - 1) \div BlockSize + 1 = BlocksOf(m) BY <2>3, PositionInBlocks DEF BlocksOf
  <2>5. ((m - 1) - 1) \div BlockSize + 1 = BlocksOf(m - 1)
    BY <2>3, PositionInBlocks DEF BlocksOf
  <2>6. /\ (m - 1) \div BlockSize \in Nat
        /\ m - 1 = ((m - 1) \div BlockSize) * BlockSize + ((m - 1) % BlockSize)
        /\ (m - 1) % BlockSize \in 0 .. BlockSize - 1
    BY <2>3, DivBounds
  <2>7. (m - 1) - 1 \in Nat BY <2>3
  <2>8. /\ ((m - 1) - 1) \div BlockSize \in Nat
        /\ (m - 1) - 1 = (((m - 1) - 1) \div BlockSize) * BlockSize + (((m - 1) - 1) % BlockSize)
        /\ ((m - 1) - 1) % BlockSize \in 0 .. BlockSize - 1
    BY <2>7, DivBounds
  <2> DEFINE q == (m - 1) \div BlockSize
             x == (m - 1) % BlockSize
             p == ((m - 1) - 1) \div BlockSize
             y == ((m - 1) - 1) % BlockSize
             B == BlockSize
  <2>9. q = p \/ q = p + 1
    <3>1. /\ q \in Nat /\ p \in Nat /\ x \in 0 .. B - 1 /\ y \in 0 .. B - 1 /\ B \in Nat \ {0}
          /\ q * B + x = p * B + y + 1
      BY <2>1, <2>3, <2>6, <2>8
    <3> HIDE DEF q, p, x, y, B
    <3>2. (q - p) * B = y + 1 - x BY <3>1
    <3>3. y + 1 - x <= B /\ y + 1 - x > 0 - B BY <3>1
    <3>4. q - p <= 1
      <4> SUFFICES ASSUME q - p >= 2 PROVE FALSE BY <3>1
      <4>1. (q - p) * B >= 2 * B BY <3>1
      <4> QED BY <3>1, <3>2, <3>3, <4>1
    <3>5. q - p >= 0
      <4> SUFFICES ASSUME q - p <= -1 PROVE FALSE BY <3>1
      <4>1. (q - p) * B <= (-1) * B BY <3>1
      <4> QED BY <3>1, <3>2, <3>3, <4>1
    <3> QED BY <3>1, <3>4, <3>5
  <2>10. BlocksOf(m) = q + 1 /\ BlocksOf(m - 1) = p + 1 BY <2>4, <2>5
  <2>11. q \in Nat /\ p \in Nat BY <2>6, <2>8
  <2> HIDE DEF q, p
  <2> QED BY <1>7, <1>8, <2>9, <2>10, <2>11
<1>10. \A i, j \in DOMAIN t : t[i] = t[j] => i = j
  <2> SUFFICES ASSUME NEW i \in DOMAIN t, NEW j \in DOMAIN t, t[i] = t[j] PROVE i = j
    OBVIOUS
  <2>1. \A h \in 1 .. Len(table[r]) : t[h] # b BY <1>3, <1>4, <1>6, <1>8
  <2>2. \A h \in DOMAIN t : h \in 1 .. Len(table[r]) \/ h = Len(table[r]) + 1
    BY <1>6, <1>8
  <2>3. CASE i \in 1 .. Len(table[r]) /\ j \in 1 .. Len(table[r])
    <3>1. table[r][i] = table[r][j] /\ i \in DOMAIN table[r] /\ j \in DOMAIN table[r]
      BY <1>6, <1>8, <2>3
    <3>2. i = j BY <3>1 DEF RunnerInv, RequestsInv, Ownership
    <3> QED BY <3>2
  <2> HIDE DEF t
  <2> QED BY <1>8, <2>1, <2>2, <2>3
<1>11. \A o \in Requests \ {r} : \A i \in DOMAIN t, j \in DOMAIN table[o] :
         t[i] = table[o][j] => i = 1 /\ j = 1 /\ c >= BlockSize /\ numCached[o] >= BlockSize
  <2> SUFFICES ASSUME NEW o \in Requests \ {r}, NEW i \in DOMAIN t, NEW j \in DOMAIN table[o],
                      t[i] = table[o][j]
               PROVE  i = 1 /\ j = 1 /\ c >= BlockSize /\ numCached[o] >= BlockSize
    OBVIOUS
  <2>1. t[i] # b BY <1>3, <1>4
  <2>2. i \in 1 .. Len(table[r]) BY <1>6, <1>8, <2>1
  <2>3. table[r][i] = table[o][j] /\ i \in DOMAIN table[r] BY <1>6, <1>8, <2>2
  <2> QED BY <2>3 DEF RunnerInv, RequestsInv, Ownership
<1>12. ASSUME NEW rank \in AllRanks PROVE Held(kv[rank], t, TextOf(r), c)
  <2>1. Held(kv[rank], table[r], TextOf(r), c) BY DEF RunnerInv, CacheHolds
  <2>2. ASSUME NEW p \in 0 .. c - 1
        PROVE  SlotOf(t, p, BlockSize) = SlotOf(table[r], p, BlockSize)
    <3>1. p \div BlockSize + 1 \in 1 .. Len(table[r]) BY <1>5, CachedInTable
    <3> HIDE DEF t
    <3> QED BY <1>8, <3>1 DEF SlotOf
  <2> HIDE DEF t, c
  <2> QED BY <2>1, <2>2 DEF Held
<1>13. numCached' = [numCached EXCEPT ![r] = c] BY <1>1, <1>5 DEF TablesTyped
<1>14. c < m /\ c >= c BY <1>6, <1>7
<1> HIDE DEF t
<1> QED BY <1>1, <1>6, <1>8, <1>9, <1>10, <1>11, <1>12, <1>13, <1>14, TableStep

\* Blocks that are all its own.
LEMMA AdmitAlone ==
  ASSUME RunnerInv, Serving, NEW r \in Requests, table[r] = << >>,
         BlocksFor(numTokens[r], BlockSize) <= Cardinality(FreeBlocks),
         table' = [table EXCEPT ![r] = Taken(BlocksFor(numTokens[r], BlockSize), FreeBlocks)],
         UNCHANGED <<config, phase, kv, graphs, graphVars, callVars,
                     numTokens, numCached, prefilled>>
  PROVE  RunnerInv'
<1> DEFINE m == BlocksFor(numTokens[r], BlockSize)
           t == Taken(m, FreeBlocks)
<1>1. TablesTyped /\ RequestOK(r) BY DEF RunnerInv, RequestsInv
<1>2. numCached[r] = 0 /\ r \notin prefilled BY <1>1 DEF RequestOK
<1>3. numTokens[r] \in Nat \ {0}
  <2>1. numTokens[r] \in Nat /\ PromptLength[r] \in Nat \ {0} /\ PromptLength[r] <= numTokens[r]
    BY <1>1, Texts DEF TablesTyped, RequestOK
  <2> QED BY <2>1
<1>4. m \in Nat \ {0} BY <1>3, PositionInBlocks
<1>5. /\ IsFiniteSet(FreeBlocks) /\ FreeBlocks \subseteq 0 .. NumBlocks - 1
      /\ \A b \in FreeBlocks, o \in Requests : \A j \in DOMAIN table[o] : table[o][j] # b
  BY FreeOnes DEF Serving
<1>6. /\ t \in [1 .. m -> FreeBlocks]
      /\ \A i, j \in 1 .. m : t[i] = t[j] => i = j
  BY <1>4, <1>5, TakenIs
<1> HIDE DEF m, t
<1>7. t \in Seq(0 .. NumBlocks - 1) /\ Len(t) = m
  <2>1. t \in [1 .. m -> 0 .. NumBlocks - 1] BY <1>5, <1>6
  <2> QED BY <1>4, <2>1, SequenceOfLength
<1>8. t # << >> /\ DOMAIN t = 1 .. m
  <2>1. DOMAIN t = 1 .. m BY <1>6
  <2>2. Len(t) # 0 BY <1>4, <1>7
  <2> QED BY <2>1, <2>2
<1>9. \A i, j \in DOMAIN t : t[i] = t[j] => i = j BY <1>6, <1>8
<1> DEFINE c == 0
<1>13. /\ table' = [table EXCEPT ![r] = t] /\ Len(t) = BlocksOf(numTokens[r])
       /\ c < numTokens[r] /\ c >= numCached[r]
       /\ c \in Nat
  BY <1>2, <1>3, <1>7 DEF m, t, BlocksOf
<1>12. numCached' = [numCached EXCEPT ![r] = c] BY <1>1, <1>2 DEF TablesTyped
<1>11. \A rank \in AllRanks : Held(kv[rank], t, TextOf(r), c) BY DEF Held
<1> HIDE DEF c
<1>10. \A o \in Requests \ {r} : \A i \in DOMAIN t, j \in DOMAIN table[o] :
         t[i] = table[o][j] => i = 1 /\ j = 1 /\ c >= BlockSize /\ numCached[o] >= BlockSize
  BY <1>5, <1>6, <1>8
<1> QED BY <1>2, <1>7, <1>8, <1>9, <1>10, <1>11, <1>12, <1>13, TableStep

\* A first block that is shared with a request that has the same tokens in it.
LEMMA AdmitShared ==
  ASSUME RunnerInv, Serving, NEW r \in Requests, NEW o \in Requests, table[r] = << >>,
         o # r, numCached[o] >= BlockSize, numTokens[r] > BlockSize,
         SubSeq(Text[o], 1, BlockSize) = SubSeq(Text[r], 1, BlockSize),
         BlocksFor(numTokens[r], BlockSize) - 1 <= Cardinality(FreeBlocks),
         table' = [table EXCEPT ![r] =
           <<table[o][1]>> \o Taken(BlocksFor(numTokens[r], BlockSize) - 1, FreeBlocks)],
         numCached' = [numCached EXCEPT ![r] = BlockSize],
         UNCHANGED <<config, phase, kv, graphs, graphVars, callVars, numTokens, prefilled>>
  PROVE  RunnerInv'
<1> DEFINE m == BlocksFor(numTokens[r], BlockSize)
           x == table[o][1]
           s == Taken(m - 1, FreeBlocks)
           t == <<x>> \o s
<1>1. TablesTyped /\ RequestOK(r) /\ RequestOK(o) BY DEF RunnerInv, RequestsInv
<1>2. /\ numCached[r] = 0 /\ r \notin prefilled
      /\ numTokens[r] \in Nat /\ numCached[o] \in Nat /\ BlockSize \in Nat \ {0}
  BY <1>1, BlockSizeAssumption DEF RequestOK, TablesTyped
<1>3. numTokens[r] \in Nat \ {0} BY <1>2
<1>4. m \in Nat \ {0} BY <1>3, PositionInBlocks
<1>5. /\ IsFiniteSet(FreeBlocks) /\ FreeBlocks \subseteq 0 .. NumBlocks - 1
      /\ \A b \in FreeBlocks, q \in Requests : \A j \in DOMAIN table[q] : table[q][j] # b
  BY FreeOnes DEF Serving
<1>6. table[o] # << >>
  <2>1. numCached[o] # 0 BY <1>2
  <2> QED BY <1>1, <2>1 DEF RequestOK
<1>7. 1 \in DOMAIN table[o] /\ x \in 0 .. NumBlocks - 1
  <2>1. /\ Len(table[o]) \in Nat /\ DOMAIN table[o] = 1 .. Len(table[o]) /\ Len(table[o]) > 0
        /\ \A i \in 1 .. Len(table[o]) : table[o][i] \in 0 .. NumBlocks - 1
    BY <1>1, <1>6, TableTyped
  <2>2. 1 \in 1 .. Len(table[o]) BY <2>1
  <2> QED BY <2>1, <2>2
<1>8. /\ s \in [1 .. m - 1 -> FreeBlocks]
      /\ \A i, j \in 1 .. m - 1 : s[i] = s[j] => i = j
  <2> DEFINE k == m - 1
  <2>1. k \in Nat
    <3> HIDE DEF m
    <3> QED BY <1>4
  <2>2. k <= Cardinality(FreeBlocks) OBVIOUS
  <2> HIDE DEF k
  <2>3. /\ Taken(k, FreeBlocks) \in [1 .. k -> FreeBlocks]
        /\ \A i, j \in 1 .. k : Taken(k, FreeBlocks)[i] = Taken(k, FreeBlocks)[j] => i = j
    BY <1>5, <2>1, <2>2, TakenIs
  <2> QED BY <2>3 DEF k
<1> HIDE DEF m, s, x
<1>9. /\ t \in Seq(0 .. NumBlocks - 1) /\ Len(t) = m /\ DOMAIN t = 1 .. m
      /\ t[1] = x /\ \A i \in 2 .. m : t[i] = s[i - 1]
  <2> DEFINE S == 0 .. NumBlocks - 1
  <2>1. s \in [1 .. m - 1 -> S] /\ x \in S BY <1>5, <1>7, <1>8
  <2> HIDE DEF S
  <2>2. m - 1 \in Nat BY <1>4
  <2>3. s \in Seq(S) /\ Len(s) = m - 1 BY <2>1, <2>2, SequenceOfLength
  <2>4. <<x>> \in Seq(S) /\ Len(<<x>>) = 1 /\ <<x>>[1] = x BY <2>1
  <2> DEFINE f == <<x>>
  <2>5. f \in Seq(S) /\ Len(f) = 1 /\ f[1] = x BY <2>4
  <2> HIDE DEF f
  <2>6. /\ f \o s \in Seq(S) /\ Len(f \o s) = 1 + (m - 1)
        /\ (f \o s)[1] = x
        /\ \A i \in 2 .. m : (f \o s)[i] = s[i - 1]
    <3>1. /\ f \o s \in Seq(S) /\ Len(f \o s) = Len(f) + Len(s)
          /\ \A i \in 1 .. Len(f) + Len(s) :
               (f \o s)[i] = IF i <= Len(f) THEN f[i] ELSE s[i - Len(f)]
      BY <2>3, <2>5, ConcatProperties
    <3>2. \A i \in 1 .. 1 + (m - 1) :
            (f \o s)[i] = IF i <= 1 THEN f[i] ELSE s[i - 1]
      BY <2>3, <2>5, <3>1
    <3>3. 1 \in 1 .. 1 + (m - 1) BY <1>4
    <3>4. (f \o s)[1] = x BY <2>5, <3>2, <3>3
    <3>5. ASSUME NEW i \in 2 .. m PROVE (f \o s)[i] = s[i - 1]
      <4>1. i \in 1 .. 1 + (m - 1) /\ ~(i <= 1) BY <1>4
      <4> QED BY <3>2, <4>1
    <3> QED BY <2>3, <2>5, <3>1, <3>4, <3>5
  <2>7. 1 + (m - 1) = m BY <1>4
  <2>8. DOMAIN (f \o s) = 1 .. Len(f \o s) BY <2>6
  <2> QED BY <2>6, <2>7, <2>8 DEF f, S
<1>10. t # << >>
  <2>1. Len(t) # 0 BY <1>4, <1>9
  <2> QED BY <2>1
<1> HIDE DEF t
<1>11. \A i \in 1 .. m : i = 1 \/ (i \in 2 .. m /\ i - 1 \in 1 .. m - 1) BY <1>4
<1>12. \A i \in 2 .. m : t[i] \in FreeBlocks /\ t[i] # x
  <2> SUFFICES ASSUME NEW i \in 2 .. m PROVE t[i] \in FreeBlocks /\ t[i] # x OBVIOUS
  <2>1. i - 1 \in 1 .. m - 1 BY <1>4
  <2>2. t[i] = s[i - 1] /\ s[i - 1] \in FreeBlocks BY <1>8, <1>9, <2>1
  <2> QED BY <1>5, <1>7, <2>2 DEF x
<1>13. \A i, j \in DOMAIN t : t[i] = t[j] => i = j
  <2> SUFFICES ASSUME NEW i \in 1 .. m, NEW j \in 1 .. m, t[i] = t[j] PROVE i = j
    BY <1>9
  <2>1. CASE i = 1 BY <1>9, <1>11, <1>12, <2>1
  <2>2. CASE j = 1 BY <1>9, <1>11, <1>12, <2>2
  <2>3. CASE i # 1 /\ j # 1
    <3>1. i \in 2 .. m /\ i - 1 \in 1 .. m - 1 /\ j \in 2 .. m /\ j - 1 \in 1 .. m - 1
      BY <1>11, <2>3
    <3>2. s[i - 1] = s[j - 1] BY <1>9, <3>1
    <3>3. i - 1 = j - 1 BY <1>8, <3>1, <3>2
    <3> QED BY <3>3
  <2> QED BY <2>1, <2>2, <2>3
<1>14. \A q \in Requests \ {r} : \A i \in DOMAIN t, j \in DOMAIN table[q] :
         t[i] = table[q][j] =>
           i = 1 /\ j = 1 /\ BlockSize >= BlockSize /\ numCached[q] >= BlockSize
  <2> SUFFICES ASSUME NEW q \in Requests \ {r}, NEW i \in 1 .. m, NEW j \in DOMAIN table[q],
                      t[i] = table[q][j]
               PROVE  i = 1 /\ j = 1 /\ BlockSize >= BlockSize /\ numCached[q] >= BlockSize
    BY <1>9
  <2>1. i = 1 BY <1>5, <1>11, <1>12
  <2>2. table[o][1] = table[q][j] BY <1>9, <2>1 DEF x
  <2>3. j = 1 /\ numCached[q] >= BlockSize
    BY <1>7, <2>2 DEF RunnerInv, RequestsInv, Ownership
  <2> QED BY <1>2, <2>1, <2>3
<1>15. ASSUME NEW rank \in AllRanks PROVE Held(kv[rank], t, TextOf(r), BlockSize)
  <2> SUFFICES ASSUME NEW p \in 0 .. BlockSize - 1
               PROVE  kv[rank][SlotOf(t, p, BlockSize)] = RowAt(TextOf(r), p)
    BY DEF Held
  <2>1. p \in 0 .. numCached[o] - 1 /\ p \in Nat BY <1>2
  <2>2. p \div BlockSize = 0
    <3>1. (0 * BlockSize + p) \div BlockSize = 0 BY DivUnique
    <3>2. 0 * BlockSize + p = p BY <1>2, <2>1
    <3> QED BY <3>1, <3>2
  <2>3. SlotOf(t, p, BlockSize) = SlotOf(table[o], p, BlockSize)
    BY <1>9, <2>2 DEF SlotOf, x
  <2>4. kv[rank][SlotOf(table[o], p, BlockSize)] = RowAt(TextOf(o), p)
    BY <2>1 DEF RunnerInv, CacheHolds, Held
  <2>5. Text[o][p + 1] = Text[r][p + 1]
    <3>1. SubSeq(Text[o], 1, BlockSize) = [i \in 1 .. BlockSize |-> Text[o][i]]
          /\ SubSeq(Text[r], 1, BlockSize) = [i \in 1 .. BlockSize |-> Text[r][i]]
      BY <1>2, FirstOf
    <3>2. p + 1 \in 1 .. BlockSize BY <1>2
    <3>3. SubSeq(Text[o], 1, BlockSize)[p + 1] = Text[o][p + 1]
          /\ SubSeq(Text[r], 1, BlockSize)[p + 1] = Text[r][p + 1]
      BY <3>1, <3>2
    <3> QED BY <3>3
  <2> QED BY <2>3, <2>4, <2>5 DEF RowAt, TextOf
<1>16. /\ table' = [table EXCEPT ![r] = t] /\ Len(t) = BlocksOf(numTokens[r])
       /\ BlockSize < numTokens[r] /\ BlockSize >= numCached[r]
       /\ BlockSize \in Nat
  BY <1>2, <1>9 DEF m, s, x, t, BlocksOf
<1> QED BY <1>2, <1>9, <1>10, <1>13, <1>14, <1>15, <1>16, TableStep

\* A request gets its blocks.
LEMMA AdmitStep ==
  ASSUME RunnerInv, NEW r \in Requests, Admit(r)
  PROVE  RunnerInv'
<1>1. /\ Serving /\ table[r] = << >>
      /\ UNCHANGED <<config, phase, kv, graphs, graphVars, callVars, numTokens, prefilled>>
  BY DEF Admit, runnerVars
<1> DEFINE needed == BlocksFor(numTokens[r], BlockSize)
<1>2. CASE /\ needed <= Cardinality(FreeBlocks)
           /\ table' = [table EXCEPT ![r] = Taken(needed, FreeBlocks)]
           /\ UNCHANGED numCached
  BY <1>1, <1>2, AdmitAlone
<1>3. CASE \E o \in Requests :
             /\ o # r /\ numCached[o] >= BlockSize /\ numTokens[r] > BlockSize
             /\ SubSeq(Text[o], 1, BlockSize) = SubSeq(Text[r], 1, BlockSize)
             /\ needed - 1 <= Cardinality(FreeBlocks)
             /\ table' = [table EXCEPT ![r] = <<table[o][1]>> \o Taken(needed - 1, FreeBlocks)]
             /\ numCached' = [numCached EXCEPT ![r] = BlockSize]
  BY <1>1, <1>3, AdmitShared
<1> QED BY <1>2, <1>3 DEF Admit

\* A call is prepared for requests that have their blocks.
LEMMA PrepareStep ==
  ASSUME RunnerInv, Serving, NEW n \in Nat \ {0}, n <= MaxNumSeqs,
         NEW rs \in [1 .. n -> Requests], NEW chunks, NEW isPrefill \in BOOLEAN,
         \A k, l \in 1 .. n : rs[k] = rs[l] => k = l,
         \A k \in 1 .. n : /\ HasBlocks(rs[k])
                           /\ chunks[k] \in 1 .. numTokens[rs[k]] - numCached[rs[k]]
                           /\ ~isPrefill => rs[k] \in prefilled,
         Prepare([k \in 1 .. n |-> SequenceOf(rs[k], chunks[k])], isPrefill)
  PROVE  RunnerInv'
<1> DEFINE seqs == [k \in 1 .. n |-> SequenceOf(rs[k], chunks[k])]
<1>1. /\ phase = "serve" /\ phase' = "serve" /\ stage' = "prepared" /\ batch' = seqs
      /\ context' = [rank \in AllRanks |-> IF isPrefill THEN PrefillContext(rank, seqs)
                                                        ELSE DecodeContext(rank, seqs)]
      /\ config' = config /\ kv' = kv /\ graphs' = graphs /\ graphVars' = graphVars
      /\ numTokens' = numTokens /\ table' = table /\ numCached' = numCached
      /\ prefilled' = prefilled
  BY DEF Serving, Prepare, runnerVars, requestVars
<1>2. NumBlocks' = NumBlocks /\ AllRanks' = AllRanks BY <1>1 DEF NumBlocks, AllRanks
<1>3. RequestsInv'
  BY <1>1, <1>2 DEF RunnerInv, RequestsInv, TablesTyped, RequestOK, Ownership
<1>4. CacheShape' BY <1>1, <1>2 DEF RunnerInv, CacheShape
<1>5. CacheHolds' BY <1>1, <1>2 DEF RunnerInv, CacheHolds
<1>6. GraphsOK' BY <1>1, <1>2 DEF RunnerInv, GraphsOK
<1>7. /\ Len(seqs) = n /\ IsList(seqs, n)
      /\ \A k \in 1 .. n : seqs[k] = SequenceOf(rs[k], chunks[k])
  BY DEF IsList
<1> HIDE DEF seqs
<1>8. ASSUME NEW k \in 1 .. n
      PROVE  /\ seqs[k].request = rs[k] /\ seqs[k].numScheduled = chunks[k]
             /\ rs[k] \in Requests /\ seqs[k] = SequenceOf(rs[k], chunks[k])
  <2> DEFINE r == rs[k]
             h == chunks[k]
  <2>1. seqs[k] = SequenceOf(r, h) BY <1>7
  <2> HIDE DEF r, h
  <2>2. SequenceOf(r, h).request = r /\ SequenceOf(r, h).numScheduled = h BY DEF SequenceOf
  <2> QED BY <2>1, <2>2 DEF r, h
<1>9. \A r \in Requests : HasBlocks(r)' = HasBlocks(r) BY <1>1 DEF HasBlocks
<1>10. IsPrefill' = isPrefill
  <2>1. 0 \in AllRanks BY RankZero DEF RunnerInv
  <2>2. PrefillContext(0, seqs).isPrefill = TRUE /\ DecodeContext(0, seqs).isPrefill = FALSE
    BY DEF PrefillContext, DecodeContext
  <2>3. context'[0] = IF isPrefill THEN PrefillContext(0, seqs) ELSE DecodeContext(0, seqs)
    BY <1>1, <2>1
  <2>4. CASE isPrefill BY <2>2, <2>3, <2>4 DEF IsPrefill
  <2>5. CASE ~isPrefill
    <3>1. context'[0].isPrefill = FALSE BY <2>2, <2>3, <2>5
    <3> QED BY <2>5, <3>1 DEF IsPrefill
  <2> QED BY <2>4, <2>5
<1>11. context' = ContextFor(isPrefill)' BY <1>1, <1>2 DEF ContextFor
<1>12. context' = ContextFor(IsPrefill)' BY <1>10, <1>11 DEF ContextFor
<1>13. CallOK'
  <2>1. /\ phase' \in {"warmup", "serve"} /\ stage' \in {"idle", "prepared", "computed"}
        /\ stage' # "idle" /\ phase' = "serve"
    BY <1>1
  <2>2. /\ Len(batch') = n /\ IsList(batch', n) BY <1>1, <1>7
  <2>3. \A k \in 1 .. n : batch'[k].request = rs[k] BY <1>1, <1>8
  <2>6. ASSUME NEW k \in 1 .. n PROVE EntryOK(batch[k])'
    <3>1. batch'[k].request = rs[k] /\ batch'[k].numScheduled = chunks[k] /\ rs[k] \in Requests
      BY <1>1, <1>8
    <3>2. HasBlocks(rs[k])' BY <1>8, <1>9
    <3>3. chunks[k] \in 1 .. numTokens'[rs[k]] - numCached'[rs[k]] BY <1>1
    <3>4. batch'[k] = SequenceOf(rs[k], chunks[k])' BY <1>1, <1>8 DEF SequenceOf
    <3>5. (batch[k].request)' = rs[k] /\ (batch[k].numScheduled)' = chunks[k] BY <3>1
    <3>6. HasBlocks(batch[k].request)' BY <3>2, <3>5 DEF HasBlocks
    <3>7. batch'[k] = SequenceOf(batch[k].request, batch[k].numScheduled)'
      BY <3>4, <3>5 DEF SequenceOf
    <3> QED BY <3>1, <3>3, <3>5, <3>6, <3>7 DEF EntryOK
  <2>7. (\A k \in 1 .. Len(batch) : EntryOK(batch[k]))' BY <2>2, <2>6
  <2>4. (\A k, l \in 1 .. Len(batch) : batch[k].request = batch[l].request => k = l)'
    BY <2>2, <2>3
  <2>5. (~IsPrefill => \A k \in 1 .. Len(batch) : batch[k].request \in prefilled)'
    BY <1>1, <1>10, <2>2, <2>3
  <2>8. /\ Len(batch') \in Nat \ {0} /\ IsList(batch', Len(batch')) /\ Len(batch') <= MaxNumSeqs
        /\ IsPrefill' \in BOOLEAN
    BY <1>10, <2>2
  <2> QED BY <1>12, <2>1, <2>4, <2>5, <2>7, <2>8 DEF CallOK
<1>14. config' \in Configs /\ AttendsOwnPrefix' BY <1>1 DEF RunnerInv, AttendsOwnPrefix
<1> QED BY <1>3, <1>4, <1>5, <1>6, <1>13, <1>14 DEF RunnerInv

(***************************************************************************)
(* A run as a step.                                                        *)
(***************************************************************************)
\* The rows that tokens are sampled from stand where the running sums of the lengths end.
LEMMA LastRowsAre ==
  ASSUME RunnerInv, stage # "idle", EqualBlockSizes, IsPrefill
  PROVE  \A k \in 1 .. Len(batch) :
           LastRows(context[0].meta)[k] = Cumulated(Lengths(batch))[k + 1]
<1> DEFINE n == Len(batch)
           got == Received(0, batch)
           meta == context[0].meta
           cu == Cumulated(Lengths(batch))
<1>1. 0 \in AllRanks BY RankZero DEF RunnerInv
<1>2. n \in Nat \ {0} /\ Lengths(batch) \in [1 .. n -> Nat] /\ DOMAIN batch = 1 .. n
  BY BatchComputable
<1>3. IsList(got, n) /\ DOMAIN got = 1 .. n
      /\ \A k \in 1 .. n : Computable(got[k]) /\ got[k].numScheduled = batch[k].numScheduled
  BY <1>1, ReceivedFields
<1>4. Lengths(got) = Lengths(batch) BY <1>2, <1>3 DEF Lengths
<1>5. meta = BuildPrefillMetadata(got)
  <2>1. context[0] = PrefillContext(0, batch) BY <1>1, Prepared
  <2> QED BY <2>1 DEF PrefillContext
<1>6. meta.cuSeqlensQ = cu
  <2> HIDE DEF got, n, meta
  <2>1. BuildPrefillMetadata(got).cuSeqlensQ = Cumulated(Lengths(got))
    BY <1>2, <1>3, PrefillParts
  <2> QED BY <1>4, <1>5, <2>1
<1>7. Len(cu) = n + 1
  <2> HIDE DEF n
  <2> QED BY <1>2, RunningSums DEF SumsOf
<1> HIDE DEF n, got, meta, cu
<1>8. LastRows(meta) = [k \in 1 .. (n + 1) - 1 |-> cu[k + 1]] BY <1>6, <1>7 DEF LastRows
<1>9. 1 .. (n + 1) - 1 = 1 .. n BY <1>2
<1> QED BY <1>8, <1>9 DEF n, meta, cu

\* What is left to show of a run: what it stores and what its rows attend to.
LEMMA SampledStep ==
  ASSUME RunnerInv, stage = "prepared", EqualBlockSizes, stage' = "computed",
         UNCHANGED <<config, phase, graphs, batch, context, requestVars>>,
         DOMAIN kv' = AllRanks, GraphsOK',
         \A rank \in AllRanks :
           /\ phase = "serve" => Writes(kv[rank], kv'[rank])
           /\ phase = "warmup" => kv'[rank] = kv[rank]
           /\ Joins(attended'[rank], [k \in 1 .. Len(batch) |-> Computed(k)],
                    Lengths(batch), Len(batch))
  PROVE  RunnerInv'
<1>1. /\ config' = config /\ phase' = phase /\ graphs' = graphs /\ batch' = batch
      /\ context' = context /\ numTokens' = numTokens /\ table' = table
      /\ numCached' = numCached /\ prefilled' = prefilled
  BY DEF requestVars
<1>2. 0 \in AllRanks /\ AllRanks' = AllRanks BY <1>1, RankZero DEF RunnerInv, AllRanks
<1>3. phase = "serve" \/ phase = "warmup" BY DEF RunnerInv, CallOK
<1>4. NumBlocks' = NumBlocks
  <2>1. CASE phase = "serve"
    <3>1. DOMAIN kv'[0] = DOMAIN kv[0] BY <1>2, <2>1 DEF Writes
    <3>2. NumBlocks \in Nat \ {0} /\ DOMAIN kv[0] = 0 .. NumBlocks * BlockSize - 1
      BY <1>2, <2>1 DEF RunnerInv, CacheShape
    <3> DEFINE n == NumBlocks
    <3>3. n \in Nat \ {0} /\ DOMAIN kv[0] = 0 .. n * BlockSize - 1
          /\ DOMAIN kv'[0] = 0 .. n * BlockSize - 1
      BY <3>1, <3>2
    <3> HIDE DEF n
    <3>4. kv'[0] # << >> /\ Cardinality(DOMAIN kv'[0]) \div BlockSize = n
      BY <3>3, BlocksCounted
    <3>5. NumBlocks' = n BY <3>4 DEF NumBlocks
    <3> QED BY <3>5 DEF n
  <2>2. CASE phase = "warmup"
    <3>1. kv'[0] = kv[0] BY <1>2, <2>2
    <3> QED BY <3>1 DEF NumBlocks
  <2> QED BY <1>3, <2>1, <2>2
<1>5. RequestsInv'
  BY <1>1, <1>4 DEF RunnerInv, RequestsInv, TablesTyped, RequestOK, Ownership
<1>6. CacheShape'
  <2>1. CASE phase = "serve"
    BY <1>1, <1>2, <1>4, <2>1 DEF RunnerInv, CacheShape, Writes
  <2>2. CASE phase = "warmup" BY <1>1, <1>2, <2>2 DEF RunnerInv, CacheShape
  <2> QED BY <1>3, <2>1, <2>2
<1>7. CacheHolds'
  <2>1. ASSUME NEW rank \in AllRanks, phase = "serve"
        PROVE  /\ \A r \in Requests : Held(kv'[rank], table[r], TextOf(r), numCached[r])
               /\ \A k \in 1 .. Len(batch) :
                    Held(kv'[rank], batch[k].blockTable, TextOf(batch[k].request),
                         batch[k].numCached + batch[k].numScheduled)
    <3>1. Writes(kv[rank], kv'[rank]) BY <2>1
    <3> QED BY <2>1, <3>1, HeldAfterRun
  <2>2. DOMAIN batch = 1 .. Len(batch) BY BatchComputable
  <2>3. CASE phase = "serve"
    BY <1>1, <1>2, <2>1, <2>2, <2>3 DEF CacheHolds, TextOf
  <2>4. CASE phase = "warmup"
    BY <1>1, <1>2, <2>4 DEF RunnerInv, CacheHolds, TextOf
  <2> QED BY <1>3, <2>3, <2>4
<1>8. IsPrefill' = IsPrefill BY <1>1 DEF IsPrefill
<1>9. CallOK'
  <2>2. ContextFor(IsPrefill)' = ContextFor(IsPrefill) BY <1>1, <1>2, <1>8 DEF ContextFor
  <2>3. \A seq : EntryOK(seq) => EntryOK(seq)' BY <1>1 DEF EntryOK, HasBlocks, SequenceOf
  <2> QED BY <1>1, <1>8, <2>2, <2>3 DEF RunnerInv, CallOK
<1>10. AttendsOwnPrefix'
  <2>1. ASSUME NEW rank \in AllRanks
        PROVE  /\ attended'[rank] = FlattenSeq([k \in DOMAIN batch |->
                    [i \in 1 .. batch[k].numScheduled |->
                       LET own == RowsOf(batch[k].tokenIds, batch[k].numCached + i)
                       IN  [row |-> Last(own), keys |-> own]]])
               /\ \A k \in 1 .. Len(batch) :
                    attended'[rank][Cumulated(Lengths(batch))[k + 1]].row.pos
                      = batch[k].numCached + batch[k].numScheduled - 1
    <3> DEFINE att == attended'[rank]
    <3>1. Joins(att, [k \in 1 .. Len(batch) |-> Computed(k)], Lengths(batch), Len(batch))
      OBVIOUS
    <3> HIDE DEF att
    <3>2. /\ att = FlattenSeq([k \in DOMAIN batch |->
                    [i \in 1 .. batch[k].numScheduled |->
                       LET own == RowsOf(batch[k].tokenIds, batch[k].numCached + i)
                       IN  [row |-> Last(own), keys |-> own]]])
          /\ \A k \in 1 .. Len(batch) :
               att[Cumulated(Lengths(batch))[k + 1]].row.pos
                 = batch[k].numCached + batch[k].numScheduled - 1
      BY <3>1, AttendsExpected
    <3> QED BY <3>2 DEF att
  <2>2. DOMAIN batch = 1 .. Len(batch) BY BatchComputable
  <2>3. IsPrefill => \A k \in DOMAIN batch :
          attended'[0][LastRows(context[0].meta)[k]].row.pos
            = batch[k].numCached + batch[k].numScheduled - 1
    <3> SUFFICES ASSUME IsPrefill, NEW k \in 1 .. Len(batch)
                 PROVE  attended'[0][LastRows(context[0].meta)[k]].row.pos
                          = batch[k].numCached + batch[k].numScheduled - 1
      BY <2>2
    <3>1. LastRows(context[0].meta)[k] = Cumulated(Lengths(batch))[k + 1] BY LastRowsAre
    <3> QED BY <1>2, <2>1, <3>1
  <2>4. \A rank \in AllRanks' : attended'[rank] = FlattenSeq([k \in DOMAIN batch |->
                    [i \in 1 .. batch[k].numScheduled |->
                       LET own == RowsOf(batch[k].tokenIds, batch[k].numCached + i)
                       IN  [row |-> Last(own), keys |-> own]]])
    BY <1>2, <2>1
  <2> QED BY <1>1, <1>8, <2>3, <2>4 DEF AttendsOwnPrefix
<1> QED BY <1>1, <1>5, <1>6, <1>7, <1>9, <1>10 DEF RunnerInv

\* An eager run, of the warmup or of a batch.
LEMMA RunEagerStep ==
  ASSUME RunnerInv, EqualBlockSizes, RunEager
  PROVE  /\ RunnerInv'
         /\ phase = "serve" => \A rank \in AllRanks : Writes(kv[rank], kv'[rank])
<1>1. /\ stage = "prepared" /\ stage' = "computed"
      /\ \A rank \in AllRanks : RowsMatch(rank)
      /\ UNCHANGED <<config, phase, graphs, graphVars, batch, context, requestVars>>
      /\ kv' = [rank \in AllRanks |-> StoredByRun(rank)]
      /\ attended' = [rank \in AllRanks |-> EagerAttended(rank, kv'[rank])]
  BY DEF RunEager, runnerVars, EagerAttended
<1>2. \A rank \in AllRanks : kv'[rank] = StoredByRun(rank) BY <1>1
<1>3. ASSUME NEW rank \in AllRanks
      PROVE  /\ phase = "serve" => Writes(kv[rank], kv'[rank])
             /\ phase = "warmup" => kv'[rank] = kv[rank]
             /\ Joins(attended'[rank], [k \in 1 .. Len(batch) |-> Computed(k)],
                      Lengths(batch), Len(batch))
  <2>1. attended'[rank] = EagerAttended(rank, StoredByRun(rank)) BY <1>1, <1>2
  <2>2. kv'[rank] = StoredByRun(rank) BY <1>2
  <2>3. RowsMatch(rank) /\ stage = "prepared" BY <1>1
  <2> QED BY <2>1, <2>2, <2>3, EagerWrites, EagerReads
<1>4. GraphsOK' BY <1>1 DEF RunnerInv, GraphsOK, AllRanks
<1>5. DOMAIN kv' = AllRanks BY <1>1
<1>6. /\ stage = "prepared" /\ stage' = "computed"
      /\ UNCHANGED <<config, phase, graphs, batch, context, requestVars>>
  BY <1>1
<1> HIDE <1>1
<1> QED BY <1>3, <1>4, <1>5, <1>6, SampledStep

\* A replay of a graph.
LEMMA ReplayStep ==
  ASSUME RunnerInv, EqualBlockSizes, ReplayGraph
  PROVE  /\ RunnerInv'
         /\ \A rank \in AllRanks : Writes(kv[rank], kv'[rank])
<1> DEFINE bufs(rank) == Filled(graphVars[rank], context[rank])
<1>1. /\ stage = "prepared" /\ stage' = "computed" /\ UseGraph /\ GraphFits
      /\ UNCHANGED <<config, phase, graphs, batch, context, requestVars>>
      /\ graphVars' = [rank \in AllRanks |-> bufs(rank)]
      /\ kv' = [rank \in AllRanks |-> GraphStores(kv[rank], graphVars'[rank], ReplaySize)]
      /\ attended' = [rank \in AllRanks |-> GraphAttended(kv'[rank], graphVars'[rank])]
  BY DEF ReplayGraph, ReplaySize, GraphAttended
<1>2. \A rank \in AllRanks :
        /\ graphVars'[rank] = bufs(rank)
        /\ kv'[rank] = GraphStores(kv[rank], bufs(rank), ReplaySize)
        /\ attended'[rank]
             = GraphAttended(GraphStores(kv[rank], bufs(rank), ReplaySize), bufs(rank))
  BY <1>1
<1>3. phase = "serve" BY <1>1, ReplayFits
<1>4. ASSUME NEW rank \in AllRanks
      PROVE  /\ Writes(kv[rank], kv'[rank])
             /\ Joins(attended'[rank], [k \in 1 .. Len(batch) |-> Computed(k)],
                      Lengths(batch), Len(batch))
             /\ BuffersShaped(graphVars'[rank])
  <2> DEFINE b == bufs(rank)
  <2>1. b = Filled(graphVars[rank], context[rank]) OBVIOUS
  <2>2. /\ graphVars'[rank] = b
        /\ kv'[rank] = GraphStores(kv[rank], b, ReplaySize)
        /\ attended'[rank] = GraphAttended(GraphStores(kv[rank], b, ReplaySize), b)
    BY <1>2
  <2>3. stage = "prepared" /\ UseGraph /\ GraphFits BY <1>1
  <2> HIDE DEF b, bufs
  <2>4. /\ Writes(kv[rank], GraphStores(kv[rank], b, ReplaySize))
        /\ Joins(GraphAttended(GraphStores(kv[rank], b, ReplaySize), b),
                 [k \in 1 .. Len(batch) |-> Computed(k)], Lengths(batch), Len(batch))
    BY <2>1, <2>3, ReplayRun
  <2>5. BuffersShaped(b) BY <2>1, <2>3, FilledIs
  <2> QED BY <2>2, <2>4, <2>5
<1>5. GraphsOK'
  <2>1. AllRanks' = AllRanks BY <1>1 DEF AllRanks
  <2>2. ASSUME NEW rank \in AllRanks PROVE BuffersShaped(graphVars[rank])'
    <3>1. BuffersShaped(graphVars'[rank]) BY <1>4
    <3> QED BY <3>1 DEF BuffersShaped
  <2> QED BY <1>1, <2>1, <2>2 DEF RunnerInv, GraphsOK
<1>6. DOMAIN kv' = AllRanks BY <1>1
<1>7. /\ stage = "prepared" /\ stage' = "computed"
      /\ UNCHANGED <<config, phase, graphs, batch, context, requestVars>>
  BY <1>1
<1> HIDE <1>1
<1>8. phase # "warmup" BY <1>3
<1>9. RunnerInv' BY <1>4, <1>5, <1>6, <1>7, <1>8, SampledStep
<1> QED BY <1>4, <1>9

\* A batch of the scheduler, of prompts or of requests in decode.
LEMMA PrepareBatchStep ==
  ASSUME RunnerInv, PrepareBatch
  PROVE  RunnerInv'
<1>1. PICK n \in 1 .. Min({MaxNumSeqs, Cardinality(Requests)}) :
        \E rs \in [1 .. n -> Requests] :
          /\ IsInjective(rs)
          /\ \/ PrepareDecode(rs)
             \/ \E chunks \in [1 .. n -> 1 .. MaxBatchedTokens] : PreparePrefill(rs, chunks)
  BY DEF PrepareBatch
<1>2. n \in Nat \ {0} /\ n <= MaxNumSeqs
  <2>1. MaxNumSeqs \in Nat /\ Cardinality(Requests) \in Nat
    BY RunnerAssumption, FS_CardinalityType
  <2> DEFINE c == Cardinality(Requests)
  <2>2. c \in Nat BY <2>1
  <2>3. n \in 1 .. Min({MaxNumSeqs, c}) BY <1>1
  <2> HIDE DEF c
  <2>4. Min({MaxNumSeqs, c}) = IF MaxNumSeqs < c THEN MaxNumSeqs ELSE c
    BY <2>1, <2>2, MinOfTwo
  <2> QED BY <2>1, <2>2, <2>3, <2>4
<1>3. PICK rs \in [1 .. n -> Requests] :
        /\ IsInjective(rs)
        /\ \/ PrepareDecode(rs)
           \/ \E chunks \in [1 .. n -> 1 .. MaxBatchedTokens] : PreparePrefill(rs, chunks)
  BY <1>1
<1>4. rs \in [1 .. n -> Requests] /\ DOMAIN rs = 1 .. n BY <1>3
<1>5. \A k, l \in 1 .. n : rs[k] = rs[l] => k = l BY <1>3, <1>4 DEF IsInjective
<1>6. CASE PrepareDecode(rs)
  <2> DEFINE chunks == [k \in 1 .. n |-> 1]
  <2>1. /\ Serving
        /\ \A k \in 1 .. n : rs[k] \in prefilled /\ HasBlocks(rs[k])
        /\ Prepare([k \in 1 .. n |-> SequenceOf(rs[k], 1)], FALSE)
    BY <1>4, <1>6 DEF PrepareDecode
  <2>2. [k \in 1 .. n |-> SequenceOf(rs[k], 1)] = [k \in 1 .. n |-> SequenceOf(rs[k], chunks[k])]
    OBVIOUS
  <2>3. ASSUME NEW k \in 1 .. n
        PROVE  chunks[k] \in 1 .. numTokens[rs[k]] - numCached[rs[k]]
    <3>1. rs[k] \in Requests /\ rs[k] \in prefilled BY <1>4, <2>1
    <3>2. /\ numTokens[rs[k]] \in Nat /\ numCached[rs[k]] \in Nat
          /\ numCached[rs[k]] = numTokens[rs[k]] - 1
      BY <3>1 DEF RunnerInv, RequestsInv, TablesTyped, RequestOK
    <3>3. numTokens[rs[k]] - numCached[rs[k]] = 1 BY <3>2
    <3> QED BY <3>3
  <2> HIDE DEF chunks
  <2>4. Prepare([k \in 1 .. n |-> SequenceOf(rs[k], chunks[k])], FALSE) BY <2>1, <2>2
  <2> QED BY <1>2, <1>4, <1>5, <2>1, <2>3, <2>4, PrepareStep
<1>7. ASSUME NEW chunks \in [1 .. n -> 1 .. MaxBatchedTokens], PreparePrefill(rs, chunks)
      PROVE  RunnerInv'
  <2>1. /\ Serving
        /\ \A k \in 1 .. n : /\ HasBlocks(rs[k])
                             /\ chunks[k] \in 1 .. numTokens[rs[k]] - numCached[rs[k]]
        /\ Prepare([k \in 1 .. n |-> SequenceOf(rs[k], chunks[k])], TRUE)
    BY <1>4, <1>7 DEF PreparePrefill
  <2> QED BY <1>2, <1>4, <1>5, <2>1, PrepareStep
<1> QED BY <1>3, <1>6, <1>7

\* At the start nothing is cached, no request has blocks and no call is made.
LEMMA RunnerStarts ==
  ASSUME Init
  PROVE  RunnerInv
<1>1. /\ config \in Configs /\ phase = "load" /\ stage = "idle"
      /\ batch = << >> /\ context = << >> /\ graphs = {}
      /\ kv = [rank \in AllRanks |-> << >>]
      /\ numTokens = PromptLength
      /\ table = [r \in Requests |-> << >>]
      /\ numCached = [r \in Requests |-> 0]
      /\ prefilled = {}
  BY DEF Init, OnEveryRank
<1>2. PromptLength \in [Requests -> Nat] BY RunnerAssumption
<1>3. RequestsInv
  <2>1. TablesTyped BY <1>1, <1>2 DEF TablesTyped
  <2>2. ASSUME NEW r \in Requests PROVE RequestOK(r)
    BY <1>1, <1>2, Texts DEF RequestOK
  <2>3. Ownership BY <1>1 DEF Ownership
  <2> QED BY <2>1, <2>2, <2>3 DEF RequestsInv
<1>4. CacheShape BY <1>1 DEF CacheShape
<1>5. CacheHolds BY <1>1 DEF CacheHolds, Held
<1>6. CallOK BY <1>1 DEF CallOK
<1>7. GraphsOK BY <1>1 DEF GraphsOK
<1> QED BY <1>1, <1>3, <1>4, <1>5, <1>6, <1>7 DEF RunnerInv, AttendsOwnPrefix

\* Every step keeps what the runner relies on.
LEMMA RunnerSteps ==
  ASSUME RunnerInv, EqualBlockSizes, [Next]_vars
  PROVE  RunnerInv'
<1>1. CASE UNCHANGED vars
  BY <1>1, QuietStep DEF vars, runnerVars
<1>2. ASSUME NEW rank \in AllRanks, NEW w, LoadWeight(rank, w) PROVE RunnerInv'
  BY <1>2, QuietStep DEF LoadWeight
<1>3. CASE LoadDone BY <1>3, LoadDoneStep
<1>4. CASE Warmup BY <1>4, WarmupStep
<1>5. ASSUME NEW memory \in MemoryReadings, AllocateKvCache(memory) PROVE RunnerInv'
  BY <1>5, AllocateStep
<1>6. ASSUME NEW bs \in GraphBs, CaptureGraph(bs) PROVE RunnerInv' BY <1>6, CaptureStep
<1>7. ASSUME NEW r \in Requests, Admit(r) \/ Preempt(r) \/ AppendBlock(r) PROVE RunnerInv'
  BY <1>7, AdmitStep, PreemptStep, AppendStep
<1>8. CASE PrepareBatch BY <1>8, PrepareBatchStep
<1>9. CASE RunEager BY <1>9, RunEagerStep
<1>10. CASE ReplayGraph BY <1>10, ReplayStep
<1>11. CASE RunFails BY <1>11, QuietStep DEF RunFails
<1>12. CASE RunOutOfMemory BY <1>12, OutOfMemoryStep
<1>13. CASE RunReturns BY <1>13, WarmupReturns, BatchReturns
<1> QED BY <1>1, <1>2, <1>3, <1>4, <1>5, <1>6, <1>7, <1>8, <1>9, <1>10, <1>11, <1>12, <1>13
        DEF Next

\* The invariant, of every runner whose workers count blocks as rank 0 does.
THEOREM RunnerInvariance ==
  ASSUME EqualBlockSizes
  PROVE  Spec => []RunnerInv
<1>1. Init => RunnerInv BY RunnerStarts
<1>2. RunnerInv /\ [Next]_vars => RunnerInv' BY RunnerSteps
<1> QED BY <1>1, <1>2, PTL DEF Spec

\* Values have the right type: a context is there exactly during a call, a slot of the
\* cache holds a row, and a request with cached positions has blocks.
THEOREM RunnerTypeCorrect ==
  ASSUME EqualBlockSizes
  PROVE  Spec => []TypeOK
<1>1. ASSUME RunnerInv PROVE TypeOK
  <2>1. phase \in {"load", "warmup", "allocate", "capture", "serve"}
        /\ stage \in {"idle", "prepared", "computed"} /\ graphs \subseteq GraphBs
    BY <1>1 DEF RunnerInv, CallOK, GraphsOK
  <2>2. (stage = "idle") = (batch = << >>) /\ (batch = << >>) = (context = << >>)
    <3>1. CASE stage = "idle" BY <1>1, <3>1 DEF RunnerInv, CallOK
    <3>2. CASE stage # "idle"
      <4>1. 0 \in AllRanks BY <1>1, RankZero DEF RunnerInv
      <4>2. 1 \in DOMAIN batch
        <5>1. Len(batch) \in Nat \ {0} /\ DOMAIN batch = 1 .. Len(batch)
          BY <1>1, <3>2, BatchComputable
        <5> QED BY <5>1
      <4>3. 0 \in DOMAIN context
        BY <1>1, <3>2, <4>1 DEF RunnerInv, CallOK, ContextFor
      <4>4. DOMAIN << >> = {} OBVIOUS
      <4>5. batch # << >> /\ context # << >> BY <4>2, <4>3, <4>4, Zenon
      <4> QED BY <3>2, <4>5
    <3> QED BY <3>1, <3>2
  <2>3. \A rank \in AllRanks : \A slot \in DOMAIN kv[rank] :
          DOMAIN kv[rank][slot] = {"token", "pos"}
    BY <1>1, RowsInCache
  <2>4. ASSUME NEW r \in Requests
        PROVE  /\ numCached[r] \in 0 .. numTokens[r]
               /\ numTokens[r] \in PromptLength[r] .. Len(Text[r])
               /\ numCached[r] > 0 => table[r] # << >>
    <3>1. /\ numTokens[r] \in Nat /\ numCached[r] \in Nat /\ RequestOK(r)
      BY <1>1 DEF RunnerInv, RequestsInv, TablesTyped
    <3>2. PromptLength[r] \in Nat /\ Len(Text[r]) \in Nat BY Texts
    <3> QED BY <3>1, <3>2 DEF RequestOK
  <2> QED BY <2>1, <2>2, <2>3, <2>4 DEF TypeOK
<1> QED BY <1>1, RunnerInvariance, PTL

\* Every row of a batch attends, on every rank, to exactly the tokens of its own request
\* up to itself.
THEOREM RowsAttendOwnPrefix ==
  ASSUME EqualBlockSizes
  PROVE  Spec => []AttendsOwnPrefix
<1>1. RunnerInv => AttendsOwnPrefix BY DEF RunnerInv
<1> QED BY <1>1, RunnerInvariance, PTL

\* Behind the table of a request stand the rows of its first num_cached_tokens tokens.
THEOREM CacheHoldsPrefix ==
  ASSUME EqualBlockSizes
  PROVE  Spec => []KvHoldsPrefix
<1>1. ASSUME RunnerInv PROVE KvHoldsPrefix
  <2> SUFFICES ASSUME NEW rank \in AllRanks, NEW r \in Requests,
                      NEW n \in Nat, n = numCached[r]
               PROVE  CachedRows(kv[rank], table[r], n) = RowsOf(Text[r], n)
    <3>1. \A r \in Requests : numCached[r] \in Nat
      BY <1>1 DEF RunnerInv, RequestsInv, TablesTyped
    <3> QED BY <3>1 DEF KvHoldsPrefix
  <2>1. Held(kv[rank], table[r], TextOf(r), n) BY <1>1 DEF RunnerInv, CacheHolds
  <2>2. CachedRows(kv[rank], table[r], n) = PrefixRows(TextOf(r), n) BY <2>1, HeldIsRead
  <2>3. PrefixRows(TextOf(r), n) = RowsOf(Text[r], n)
    <3>1. \A i \in 1 .. n : (i - 1) + 1 = i OBVIOUS
    <3>2. \A i \in 1 .. n : RowAt(TextOf(r), i - 1) = [token |-> Text[r][i], pos |-> i - 1]
      BY <3>1 DEF RowAt, TextOf
    <3> QED BY <3>2 DEF PrefixRows, RowsOf
  <2> QED BY <2>2, <2>3
<1> QED BY <1>1, RunnerInvariance, PTL

\* A call writes the cache in the slots of the positions it computes and nowhere else.
THEOREM CallsWriteOnlyScheduled ==
  ASSUME EqualBlockSizes
  PROVE  Spec => WritesOnlyScheduled
<1> DEFINE A == phase = "serve" /\ stage' = "computed" =>
       \A rank \in AllRanks : \A slot \in DOMAIN kv[rank] :
         kv'[rank][slot] # kv[rank][slot] =>
           \E k \in DOMAIN batch : \E i \in 1 .. batch[k].numScheduled :
             slot = SlotOf(batch[k].blockTable, batch[k].numCached + i - 1, BlockSize)
<1>1. ASSUME RunnerInv, [Next]_vars, phase = "serve", stage' = "computed", kv' # kv
      PROVE  (RunEager \/ ReplayGraph) /\ stage = "prepared"
  <2>1. ~UNCHANGED vars BY <1>1 DEF vars
  <2>2. ~(\E rank \in AllRanks, w \in DOMAIN Checkpoint(config.hf) : LoadWeight(rank, w))
        /\ ~LoadDone /\ ~Warmup /\ ~(\E memory \in MemoryReadings : AllocateKvCache(memory))
        /\ ~(\E bs \in GraphBs : CaptureGraph(bs))
    BY <1>1 DEF LoadWeight, LoadDone, Warmup, AllocateKvCache, CaptureGraph
  <2>3. ~(\E r \in Requests : Admit(r) \/ Preempt(r) \/ AppendBlock(r))
    BY <1>1 DEF Admit, Preempt, AppendBlock, Serving, callVars
  <2>4. ~PrepareBatch
    BY <1>1 DEF PrepareBatch, PrepareDecode, PreparePrefill, Prepare
  <2>5. ~RunFails /\ ~RunOutOfMemory /\ ~RunReturns
    BY <1>1 DEF RunFails, RunOutOfMemory, RunReturns, Done
  <2>6. RunEager \/ ReplayGraph BY <1>1, <2>1, <2>2, <2>3, <2>4, <2>5 DEF Next
  <2> QED BY <2>6 DEF RunEager, ReplayGraph
<1>2. ASSUME RunnerInv, [Next]_vars, kv' # kv PROVE A
  <2> SUFFICES ASSUME phase = "serve", stage' = "computed", NEW rank \in AllRanks,
                      NEW slot \in DOMAIN kv[rank], kv'[rank][slot] # kv[rank][slot]
               PROVE  \E k \in DOMAIN batch : \E i \in 1 .. batch[k].numScheduled :
                        slot = SlotOf(batch[k].blockTable, batch[k].numCached + i - 1, BlockSize)
    OBVIOUS
  <2>1. (RunEager \/ ReplayGraph) /\ stage = "prepared" BY <1>1, <1>2
  <2>2. Writes(kv[rank], kv'[rank]) BY <1>2, <2>1, RunEagerStep, ReplayStep
  <2>3. DOMAIN batch = 1 .. Len(batch) BY <1>2, <2>1, BatchComputable
  <2> QED BY <2>2, <2>3 DEF Writes
<1>3. RunnerInv /\ [Next]_vars => [A]_kv BY <1>2
<1> HIDE DEF A
<1>4. Spec => [][A]_kv BY <1>3, RunnerInvariance, PTL DEF Spec
<1> QED BY <1>4 DEF A, WritesOnlyScheduled

(***************************************************************************)
(* Loading.                                                                *)
(***************************************************************************)
\* Reduced precision: the normalisation works on a copy of the residual.
ReducedPrecision == \A c \in Configs : c.hf.dtype # "float32"

\* Every parameter has its size; what was read is in its place; nothing is unread when the
\* runner has gone on.
LoadInv ==
  /\ config \in Configs
  /\ DOMAIN params = AllRanks /\ DOMAIN unread = AllRanks
  /\ \A rank \in AllRanks :
       /\ DOMAIN params[rank] = ParameterNames(config.hf)
       /\ \A p \in ParameterNames(config.hf) :
            IsList(params[rank][p], ParameterSize(config.hf, config.tp, p))
       /\ \A w \in DOMAIN Checkpoint(config.hf) \ unread[rank] :
            TensorLoaded(params[rank][ParameterName(w)], config.hf, config.tp, rank, w)
  /\ phase # "load" => \A rank \in AllRanks : unread[rank] = {}

\* Every configuration divides its sizes evenly.
LEMMA ConfigsDivide ==
  ASSUME NEW c \in Configs
  PROVE  EvenlyDivided(c.hf, c.tp)
BY RunnerAssumption DEF EvenlyDivided

\* In the beginning nothing is read.
LEMMA LoadStarts ==
  ASSUME Init
  PROVE  LoadInv
<1>1. config \in Configs /\ phase = "load" BY DEF Init
<1>2. params = [rank \in AllRanks |-> EmptyParameters(config.hf, config.tp)]
      /\ unread = [rank \in AllRanks |-> DOMAIN Checkpoint(config.hf)]
  BY DEF Init, OnEveryRank
<1>3. DOMAIN EmptyParameters(config.hf, config.tp) = ParameterNames(config.hf)
      /\ \A p \in ParameterNames(config.hf) :
           IsList(EmptyParameters(config.hf, config.tp)[p],
                  ParameterSize(config.hf, config.tp, p))
  BY DEF EmptyParameters, IsList
<1> QED BY <1>1, <1>2, <1>3 DEF LoadInv

\* A weight loader puts a tensor in its place and leaves the others in theirs.
LEMMA LoaderPuts ==
  ASSUME NEW hf, NEW tp, EvenlyDivided(hf, tp), NEW rank \in 0 .. tp - 1,
         NEW w \in DOMAIN Checkpoint(hf), NEW param,
         IsList(param, ParameterSize(hf, tp, ParameterName(w))),
         NEW new, new = WeightLoader(hf, tp, rank, param, w)
  PROVE  /\ IsList(new, ParameterSize(hf, tp, ParameterName(w)))
         /\ TensorLoaded(new, hf, tp, rank, w)
         /\ \A u \in DOMAIN Checkpoint(hf) :
              u # w /\ ParameterName(u) = ParameterName(w) /\ TensorLoaded(param, hf, tp, rank, u)
                => TensorLoaded(new, hf, tp, rank, u)
<1> DEFINE n == ParameterSize(hf, tp, ParameterName(w))
           size == ShardSize(hf, tp, w)
           offset == ShardOffset(hf, tp, w)
<1>1. size \in Nat /\ offset \in Nat /\ n \in Nat /\ offset + size <= n BY ShardsFit
<1>2. DOMAIN param = 1 .. n BY <1>1, ListLen
<1>3. new = [i \in 1 .. n |-> IF i - offset \in 1 .. size
                              THEN Line(w, rank * size + i - offset) ELSE param[i]]
  BY <1>2 DEF WeightLoader, ShardSize
<1> HIDE DEF n, size, offset
<1>4. IsList(new, n) BY <1>3 DEF IsList
<1>5. TensorLoaded(new, hf, tp, rank, w)
  <2> SUFFICES ASSUME NEW j \in 1 .. size PROVE new[offset + j] = Line(w, rank * size + j)
    BY DEF TensorLoaded, size, offset
  <2>1. offset + j \in 1 .. n /\ (offset + j) - offset = j BY <1>1
  <2>2. rank * size \in Int BY <1>1, ConfigsDivide DEF EvenlyDivided
  <2>3. rank * size + (offset + j) - offset = rank * size + j BY <1>1, <2>2
  <2> QED BY <1>3, <2>1, <2>3
<1>6. ASSUME NEW u \in DOMAIN Checkpoint(hf), u # w, ParameterName(u) = ParameterName(w),
             TensorLoaded(param, hf, tp, rank, u)
      PROVE  TensorLoaded(new, hf, tp, rank, u)
  <2> DEFINE s == ShardSize(hf, tp, u)
             o == ShardOffset(hf, tp, u)
  <2>1. s \in Nat /\ o \in Nat /\ o + s <= n BY <1>6, ShardsFit DEF n
  <2>2. offset + size <= o \/ o + s <= offset BY <1>6, ShardsApart DEF size, offset
  <2> HIDE DEF s, o
  <2>3. ASSUME NEW j \in 1 .. s PROVE new[o + j] = Line(u, rank * s + j)
    <3>1. o + j \in 1 .. n /\ (o + j) - offset \notin 1 .. size BY <1>1, <2>1, <2>2
    <3>2. new[o + j] = param[o + j] BY <1>3, <3>1
    <3>3. param[o + j] = Line(u, rank * s + j) BY <1>6 DEF TensorLoaded, s, o
    <3> QED BY <3>2, <3>3
  <2> QED BY <2>3 DEF TensorLoaded, s, o
<1> QED BY <1>4, <1>5, <1>6 DEF n

\* A tensor is read.
LEMMA LoadWeightStep ==
  ASSUME LoadInv, NEW rank \in AllRanks, NEW w \in DOMAIN Checkpoint(config.hf),
         LoadWeight(rank, w)
  PROVE  LoadInv'
<1> DEFINE hf == config.hf
           tp == config.tp
           name == ParameterName(w)
           new == WeightLoader(hf, tp, rank, params[rank][name], w)
<1>1. EvenlyDivided(hf, tp) BY ConfigsDivide DEF LoadInv
<1>2. config' = config /\ phase' = "load" /\ phase = "load" /\ AllRanks' = AllRanks
  BY DEF LoadWeight, AllRanks
<1>3. /\ unread' = [unread EXCEPT ![rank] = @ \ {w}]
      /\ params' = [params EXCEPT ![rank][name] = new]
  BY DEF LoadWeight
<1>4. name \in ParameterNames(hf) BY DEF ParameterNames
<1>5. /\ IsList(new, ParameterSize(hf, tp, name))
      /\ TensorLoaded(new, hf, tp, rank, w)
      /\ \A u \in DOMAIN Checkpoint(hf) :
           u # w /\ ParameterName(u) = name
             /\ TensorLoaded(params[rank][name], hf, tp, rank, u)
             => TensorLoaded(new, hf, tp, rank, u)
  <2>1. IsList(params[rank][name], ParameterSize(hf, tp, name)) BY <1>4 DEF LoadInv
  <2>2. rank \in 0 .. tp - 1 BY DEF AllRanks, Ranks
  <2> QED BY <1>1, <2>1, <2>2, LoaderPuts
<1> HIDE DEF new
<1>6. /\ DOMAIN params' = AllRanks /\ DOMAIN unread' = AllRanks
      /\ DOMAIN params'[rank] = ParameterNames(hf)
      /\ params'[rank][name] = new
      /\ \A p \in ParameterNames(hf) : p # name => params'[rank][p] = params[rank][p]
      /\ unread'[rank] = unread[rank] \ {w}
      /\ \A r \in AllRanks : r # rank => params'[r] = params[r] /\ unread'[r] = unread[r]
  BY <1>3, <1>4 DEF LoadInv
<1>7. ASSUME NEW r \in AllRanks
      PROVE  /\ DOMAIN params'[r] = ParameterNames(hf)
             /\ \A p \in ParameterNames(hf) : IsList(params'[r][p], ParameterSize(hf, tp, p))
             /\ \A u \in DOMAIN Checkpoint(hf) \ unread'[r] :
                  TensorLoaded(params'[r][ParameterName(u)], hf, tp, r, u)
  <2>1. CASE r # rank BY <1>6, <2>1 DEF LoadInv
  <2>2. CASE r = rank
    <3>1. \A p \in ParameterNames(hf) : IsList(params'[r][p], ParameterSize(hf, tp, p))
      BY <1>5, <1>6, <2>2 DEF LoadInv
    <3>2. ASSUME NEW u \in DOMAIN Checkpoint(hf) \ unread'[r]
          PROVE  TensorLoaded(params'[r][ParameterName(u)], hf, tp, r, u)
      <4>1. CASE u = w BY <1>5, <1>6, <2>2, <4>1
      <4>2. CASE u # w
        <5>1. u \in DOMAIN Checkpoint(hf) \ unread[rank] BY <1>6, <2>2, <4>2
        <5>2. TensorLoaded(params[rank][ParameterName(u)], hf, tp, rank, u)
          BY <5>1 DEF LoadInv
        <5>3. ParameterName(u) \in ParameterNames(hf) BY DEF ParameterNames
        <5>4. CASE ParameterName(u) = name BY <1>5, <1>6, <2>2, <4>2, <5>2, <5>4
        <5>5. CASE ParameterName(u) # name BY <1>6, <2>2, <5>2, <5>3, <5>5
        <5> QED BY <5>4, <5>5
      <4> QED BY <4>1, <4>2
    <3> QED BY <1>6, <2>2, <3>1, <3>2
  <2> QED BY <2>1, <2>2
<1> QED BY <1>2, <1>6, <1>7 DEF LoadInv

\* Every step keeps what is loaded.
LEMMA LoadSteps ==
  ASSUME LoadInv, [Next]_vars
  PROVE  LoadInv'
<1>1. ASSUME config' = config, params' = params, unread' = unread,
             phase' = phase \/ phase # "load" \/ \A rank \in AllRanks : unread[rank] = {}
      PROVE  LoadInv'
  BY <1>1 DEF LoadInv, AllRanks
<1>2. CASE UNCHANGED vars BY <1>1, <1>2 DEF vars, runnerVars
<1>3. ASSUME NEW rank \in AllRanks, NEW w \in DOMAIN Checkpoint(config.hf), LoadWeight(rank, w)
      PROVE  LoadInv'
  BY <1>3, LoadWeightStep
<1>4. CASE LoadDone BY <1>1, <1>4 DEF LoadDone
<1>5. CASE Warmup BY <1>1, <1>5 DEF Warmup, Prepare, runnerVars
<1>6. ASSUME NEW memory \in MemoryReadings, AllocateKvCache(memory) PROVE LoadInv'
  BY <1>1, <1>6 DEF AllocateKvCache
<1>7. ASSUME NEW bs \in GraphBs, CaptureGraph(bs) PROVE LoadInv'
  BY <1>1, <1>7 DEF CaptureGraph
<1>8. ASSUME NEW r \in Requests, Admit(r) \/ Preempt(r) \/ AppendBlock(r) PROVE LoadInv'
  BY <1>1, <1>8 DEF Admit, Preempt, AppendBlock, runnerVars
<1>9. CASE PrepareBatch
  BY <1>1, <1>9 DEF PrepareBatch, PrepareDecode, PreparePrefill, Prepare, runnerVars
<1>10. CASE RunEager BY <1>1, <1>10 DEF RunEager, runnerVars
<1>11. CASE ReplayGraph BY <1>1, <1>11 DEF ReplayGraph
<1>12. CASE RunFails BY <1>1, <1>12 DEF RunFails
<1>13. CASE RunOutOfMemory BY <1>1, <1>13 DEF RunOutOfMemory, runnerVars
<1>14. CASE RunReturns
  <2>1. /\ config' = config /\ params' = params /\ unread' = unread
        /\ phase' = phase \/ phase # "load"
    BY <1>14 DEF RunReturns
  <2> QED BY <1>1, <2>1
<1> QED BY <1>2, <1>3, <1>4, <1>5, <1>6, <1>7, <1>8, <1>9, <1>10, <1>11, <1>12, <1>13, <1>14
        DEF Next

\* When every tensor has been loaded, in whatever order, the ranks together compute the
\* transformer of the checkpoint, for any sizes that are divided evenly.
THEOREM LoadedIsTheModel ==
  ASSUME ReducedPrecision
  PROVE  Spec => []LoadedModelIsWhole
<1>1. Init => LoadInv BY LoadStarts
<1>2. LoadInv /\ [Next]_vars => LoadInv' BY LoadSteps
<1>3. ASSUME LoadInv PROVE LoadedModelIsWhole
  <2> SUFFICES ASSUME phase = "warmup" PROVE IsWhole(params, config.hf, config.tp)
    BY DEF LoadedModelIsWhole
  <2>1. EvenlyDivided(config.hf, config.tp) /\ config.hf.dtype # "float32"
    BY <1>3, ConfigsDivide DEF LoadInv, ReducedPrecision
  <2>2. FullyLoaded(params, config.hf, config.tp)
    BY <1>3 DEF LoadInv, FullyLoaded, AllRanks, Ranks
  <2> QED BY <2>1, <2>2, LoadedIsWhole
<1> QED BY <1>1, <1>2, <1>3, PTL DEF Spec

===============================================================================
