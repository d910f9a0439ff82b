---------------------------- MODULE MCModelRunner ----------------------------
(***************************************************************************)
(* Instances of ModelRunner for TLC.                                       *)
(***************************************************************************)
EXTENDS ModelRunner

\* A small Qwen3 with untied embeddings and norms of queries and keys.
MCQwen ==
  [modelType |-> "qwen3", dtype |-> "bfloat16", attention_bias |-> FALSE,
   numHeads |-> 4, numKvHeads |-> 2, headDim |-> 1, intermediate |-> 2, vocab |-> 4,
   numLayers |-> 2, tieWordEmbeddings |-> FALSE]

\* A small Llama with tied embeddings.
MCLlama ==
  [modelType |-> "llama", dtype |-> "bfloat16", numHeads |-> 4, numKvHeads |-> 2,
   headDim |-> 2, intermediate |-> 4, vocab |-> 2, numLayers |-> 1, tieWordEmbeddings |-> TRUE]

\* The same with a bias in its projections, in one process.
MCBiased == [MCLlama EXCEPT !.headDim = 1] @@ [attention_bias |-> TRUE]

MCConfigs ==
  {[hf |-> MCQwen, tp |-> 2, enforceEager |-> TRUE, unified |-> TRUE],
   [hf |-> MCLlama, tp |-> 2, enforceEager |-> TRUE, unified |-> FALSE],
   [hf |-> MCBiased, tp |-> 1, enforceEager |-> FALSE, unified |-> FALSE],
   [hf |-> MCBiased, tp |-> 1, enforceEager |-> TRUE, unified |-> TRUE]}

\* Two requests that share their first block; the first outgrows max_model_len.
MCRequests == {"r1", "r2"}
MCText == [r1 |-> <<"a", "b", "c", "d", "e">>, r2 |-> <<"a", "b", "f", "g">>]
MCPromptLength == [r1 |-> 3, r2 |-> 3]

\* Three requests, to be decoded in one batch.
MCShortRequests == {"r1", "r2", "r3"}
MCShortText == [r1 |-> <<"a", "b">>, r2 |-> <<"c", "d">>, r3 |-> <<"e", "f">>]
MCShortPromptLength == [r1 |-> 1, r2 |-> 1, r3 |-> 1]

MCMemoryReadings ==
  {[usable |-> 92, used |-> 30, peak |-> 40, current |-> 10],
   [usable |-> 40, used |-> 30, peak |-> 20, current |-> 10]}

==============================================================================
