---------------------------- MODULE ParallelLayers ----------------------------
(***************************************************************************)
(* nanovllm/layers/linear.py, embed_head.py, utils/loader.py and the two   *)
(* models: which part of every checkpoint tensor a rank loads where, and   *)
(* what the ranks compute together.                                        *)
(*                                                                         *)
(* Arithmetic is symbolic.  A weight is a sequence of lines along the      *)
(* dimension that is sharded; a line is [weight, line], from which         *)
(* checkpoint tensor and which of its rows or columns.  A value is the     *)
(* term that computes it.  A sum is a bag of terms, so that a term that    *)
(* is left out or counted twice shows.  The decoder layers of a model are  *)
(* alike: the parameters are those of any one of them.                     *)
(*                                                                         *)
(* hf is the configuration of a model: its class, hidden_size aside the    *)
(* sizes that are divided among the ranks, and which tensors it has.       *)
(***************************************************************************)
EXTENDS Integers, Sequences, FiniteSets, Bags, SequencesExt

Ranks(tp) == 0 .. tp - 1

Line(weight, i) == [weight |-> weight, line |-> i]
NotLoaded == Line("torch.empty", 0)

(***************************************************************************)
(* Loading.                                                                *)
(***************************************************************************)
\* getattr(config, "attention_bias", ...): the default of Qwen3 is a bias.
QkvBias(hf) == IF "attention_bias" \in DOMAIN hf THEN hf.attention_bias
               ELSE hf.modelType = "qwen3"

HasQkNorm(hf) == hf.modelType = "qwen3" /\ ~QkvBias(hf)

QSize(hf) == hf.numHeads * hf.headDim
KvSize(hf) == hf.numKvHeads * hf.headDim

PackedModulesMapping ==
  [q_proj |-> "qkv_proj", k_proj |-> "qkv_proj", v_proj |-> "qkv_proj",
   q_bias |-> "qkv_bias", k_bias |-> "qkv_bias", v_bias |-> "qkv_bias",
   gate_proj |-> "gate_up_proj", up_proj |-> "gate_up_proj"]

\* The tensors of the checkpoint, with their sizes along the sharded dimension.
Checkpoint(hf) ==
  LET size == [q_proj |-> QSize(hf), k_proj |-> KvSize(hf), v_proj |-> KvSize(hf),
               q_bias |-> QSize(hf), k_bias |-> KvSize(hf), v_bias |-> KvSize(hf),
               o_proj |-> QSize(hf), gate_proj |-> hf.intermediate,
               up_proj |-> hf.intermediate, down_proj |-> hf.intermediate,
               embed_tokens |-> hf.vocab, lm_head |-> hf.vocab]
      absent == (IF QkvBias(hf) THEN {} ELSE {"q_bias", "k_bias", "v_bias"})
                \cup (IF hf.tieWordEmbeddings THEN {"lm_head"} ELSE {})
  IN  [w \in DOMAIN size \ absent |-> size[w]]

\* With tied embeddings lm_head.weight.data is embed_tokens.weight.data.
Storage(hf, name) ==
  IF name = "lm_head" /\ hf.tieWordEmbeddings THEN "embed_tokens" ELSE name

ParameterName(w) ==
  IF w \in DOMAIN PackedModulesMapping THEN PackedModulesMapping[w] ELSE w

\* The size of a rank's part of a parameter: the parts of packed tensors together.
ParameterSize(hf, tp, p) ==
  CASE p \in {"qkv_proj", "qkv_bias"} -> (QSize(hf) + 2 * KvSize(hf)) \div tp
    [] p = "gate_up_proj" -> (2 * hf.intermediate) \div tp
    [] OTHER -> Checkpoint(hf)[p] \div tp

ParameterNames(hf) == {ParameterName(w) : w \in DOMAIN Checkpoint(hf)}

\* torch.empty: every parameter of a rank before load_model.
EmptyParameters(hf, tp) ==
  [p \in ParameterNames(hf) |-> [i \in 1 .. ParameterSize(hf, tp, p) |-> NotLoaded]]

\* Bug: the values are placed where the keys are.
ShardOffsetSkipsKeys(hf, tp, w) ==
  CASE w \in {"k_proj", "k_bias"} -> QSize(hf) \div tp
    [] w \in {"v_proj", "v_bias"} -> QSize(hf) \div tp
    [] w = "up_proj" -> hf.intermediate \div tp
    [] OTHER -> 0

\* shard_offset of the weight loaders: where a tensor begins in its parameter.
ShardOffset(hf, tp, w) ==
  CASE w \in {"k_proj", "k_bias"} -> QSize(hf) \div tp
    [] w \in {"v_proj", "v_bias"} -> (QSize(hf) \div tp) + (KvSize(hf) \div tp)
    [] w = "up_proj" -> hf.intermediate \div tp
    [] OTHER -> 0

\* weight_loader: copy the rank's part of tensor w into its parameter.
WeightLoader(hf, tp, rank, param, w) ==
  LET shardSize == Checkpoint(hf)[w] \div tp
      offset == ShardOffset(hf, tp, w)
  IN  [i \in DOMAIN param |->
         IF i - offset \in 1 .. shardSize THEN Line(w, rank * shardSize + i - offset)
         ELSE param[i]]

(***************************************************************************)
(* The layers: params[rank] is what the rank has loaded.                   *)
(***************************************************************************)
\* F.linear of a column-parallel layer: one output per row of the weight.
ColumnParallel(weight, bias, x) ==
  [i \in DOMAIN weight |-> [row |-> weight[i], bias |-> bias[i], x |-> x]]

NoBias(weight) == [i \in DOMAIN weight |-> Line("none", 0)]

\* The sum over a rank's columns of its inputs.
PartialSum(weight, x) == ToBag([i \in DOMAIN x |-> [col |-> weight[i], x |-> x[i]]])

\* dist.all_reduce: every rank has the sum over the ranks.
AllReduce(partial, tp) ==
  LET sum[n \in 0 .. tp] == IF n = 0 THEN EmptyBag ELSE sum[n - 1] (+) partial[n - 1]
  IN  sum[tp]

RowParallel(weights, xs, tp) ==
  AllReduce([rank \in Ranks(tp) |-> PartialSum(weights[rank], xs[rank])], tp)

\* VocabParallelEmbedding.forward: token ids are 0-based.
Embed(params, hf, tp, token) ==
  LET perRank == hf.vocab \div tp
      Mask(rank) == token >= rank * perRank /\ token < (rank + 1) * perRank
      Row(rank) == params[rank].embed_tokens[(IF Mask(rank) THEN token - rank * perRank ELSE 0) + 1]
  IN  AllReduce([rank \in Ranks(tp) |->
                   IF tp = 1 \/ Mask(rank) THEN SetToBag({Row(rank)}) ELSE EmptyBag], tp)

\* ParallelLMHead.forward: the logits of all ranks, gathered in order on rank 0.
LmHead(params, hf, tp, x) ==
  LET logits(rank) == LET w == params[rank][Storage(hf, "lm_head")]
                      IN  ColumnParallel(w, NoBias(w), x)
  IN  FlattenSeq([i \in 1 .. tp |-> logits(i - 1)])

\* view(-1, heads, head_dim), for one token.
Heads(x, headDim) ==
  [h \in 1 .. Len(x) \div headDim |-> SubSeq(x, (h - 1) * headDim + 1, h * headDim)]

\* Attention kernels give consecutive query heads the same key and value head.
KvHead(h, numHeads, numKvHeads) == ((h - 1) \div (numHeads \div numKvHeads)) + 1

\* Qwen3Attention.forward, LlamaAttention.forward up to o_proj, on one rank.
AttentionOutput(params, hf, tp, x) ==
  LET weight == params.qkv_proj
      bias == IF QkvBias(hf) THEN params.qkv_bias ELSE NoBias(weight)
      qkv == ColumnParallel(weight, bias, x)
      qSize == QSize(hf) \div tp
      kvSize == KvSize(hf) \div tp
      Normed(head) == IF HasQkNorm(hf) THEN [norm |-> head] ELSE [plain |-> head]
      q == Heads(SubSeq(qkv, 1, qSize), hf.headDim)
      k == Heads(SubSeq(qkv, qSize + 1, qSize + kvSize), hf.headDim)
      v == Heads(SubSeq(qkv, qSize + kvSize + 1, qSize + 2 * kvSize), hf.headDim)
      Attend(h) == LET g == KvHead(h, Len(q), Len(k))
                   IN  [d \in 1 .. hf.headDim |->
                          [q |-> Normed(q[h]), k |-> Normed(k[g]), v |-> v[g][d]]]
  IN  FlattenSeq([h \in 1 .. Len(q) |-> Attend(h)])

Attention(params, hf, tp, x) ==
  RowParallel([rank \in Ranks(tp) |-> params[rank].o_proj],
              [rank \in Ranks(tp) |-> AttentionOutput(params[rank], hf, tp, x)], tp)

\* SiluAndMul: the first half is the gate.
SiluAndMul(x) ==
  LET half == Len(x) \div 2
  IN  [i \in 1 .. half |-> [silu |-> x[i], times |-> x[half + i]]]

Mlp(params, hf, tp, x) ==
  RowParallel([rank \in Ranks(tp) |-> params[rank].down_proj],
              [rank \in Ranks(tp) |->
                 SiluAndMul(ColumnParallel(params[rank].gate_up_proj,
                                           NoBias(params[rank].gate_up_proj), x))], tp)

(***************************************************************************)
(* The stack of layers.  Here a sublayer is one symbol, a hidden state the *)
(* bag of what has been added up.                                          *)
(***************************************************************************)
\* RMSNorm.forward: add the residual, keep the sum, normalise it.  The normalisation
\* works in place, on what float() returns: in float32 that is the sum itself.
AddNorm(hf, name, l, state) ==
  LET sum == state.hidden (+) state.residual
      normed == SetToBag({[norm |-> name, layer |-> l, x |-> sum]})
  IN  [hidden |-> normed, residual |-> IF hf.dtype = "float32" THEN normed ELSE sum]

Sublayer(name, l, state) ==
  [state EXCEPT !.hidden = SetToBag({[sublayer |-> name, layer |-> l, x |-> @]})]

\* Qwen3DecoderLayer.forward, LlamaDecoderLayer.forward; no residual is an empty one.
DecoderLayer(hf, state, l) ==
  LET attn == Sublayer("attention", l, AddNorm(hf, "input", l, state))
  IN  Sublayer("mlp", l, AddNorm(hf, "post_attention", l, attn))

\* Qwen3Model.forward, LlamaModel.forward.
ModelForward(hf, embedded) ==
  LET start == [hidden |-> embedded, residual |-> EmptyBag]
      state[l \in 0 .. hf.numLayers] == IF l = 0 THEN start ELSE DecoderLayer(hf, state[l - 1], l)
  IN  AddNorm(hf, "final", 0, state[hf.numLayers]).hidden

(***************************************************************************)
(* What the model should compute: the transformer on one device, from the  *)
(* checkpoint itself, with the residual added before each normalisation.   *)
(***************************************************************************)
WholeLinear(w, i, biasWeight, x) ==
  [row |-> Line(w, i), x |-> x,
   bias |-> IF biasWeight = "none" THEN Line("none", 0) ELSE Line(biasWeight, i)]

WholeAttention(hf, x) ==
  LET bias(w) == IF QkvBias(hf) THEN w ELSE "none"
      OneHead(w, b, h) == [d \in 1 .. hf.headDim |->
                             WholeLinear(w, (h - 1) * hf.headDim + d, bias(b), x)]
      Normed(head) == IF HasQkNorm(hf) THEN [norm |-> head] ELSE [plain |-> head]
      group == hf.numHeads \div hf.numKvHeads
      Output(g, j, d) ==   \* the j-th query head of key head g
        [q |-> Normed(OneHead("q_proj", "q_bias", (g - 1) * group + j)),
         k |-> Normed(OneHead("k_proj", "k_bias", g)),
         v |-> OneHead("v_proj", "v_bias", g)[d]]
  IN  SetToBag({[col |-> Line("o_proj", ((g - 1) * group + j - 1) * hf.headDim + d),
                 x |-> Output(g, j, d)] :
                  g \in 1 .. hf.numKvHeads, j \in 1 .. group, d \in 1 .. hf.headDim})

WholeMlp(hf, x) ==
  SetToBag({[col |-> Line("down_proj", i),
             x |-> [silu |-> WholeLinear("gate_proj", i, "none", x),
                    times |-> WholeLinear("up_proj", i, "none", x)]] :
              i \in 1 .. hf.intermediate})

WholeStack(hf, embedded) ==
  LET Normed(name, l, h) == SetToBag({[norm |-> name, layer |-> l, x |-> h]})
      Added(name, l, h, norm) ==
        h (+) SetToBag({[sublayer |-> name, layer |-> l, x |-> Normed(norm, l, h)]})
      stream[l \in 0 .. hf.numLayers] ==
        IF l = 0 THEN embedded
        ELSE Added("mlp", l, Added("attention", l, stream[l - 1], "input"), "post_attention")
  IN  Normed("final", 0, stream[hf.numLayers])

IsWhole(params, hf, tp) ==
  /\ \A token \in 0 .. hf.vocab - 1 :
       Embed(params, hf, tp, token) = SetToBag({Line("embed_tokens", token + 1)})
  /\ LmHead(params, hf, tp, "x") =
       [v \in 1 .. hf.vocab |-> WholeLinear(Storage(hf, "lm_head"), v, "none", "x")]
  /\ Attention(params, hf, tp, "x") = WholeAttention(hf, "x")
  /\ Mlp(params, hf, tp, "x") = WholeMlp(hf, "x")
  /\ LET embedded == SetToBag({[embedded |-> "tokens"]})
     IN  ModelForward(hf, embedded) = WholeStack(hf, embedded)

===============================================================================
