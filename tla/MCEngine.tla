------------------------------ MODULE MCEngine ------------------------------
(***************************************************************************)
(* Instances of Engine for TLC.                                            *)
(***************************************************************************)
EXTENDS Engine, TLC

CONSTANTS t1, t2, r1, r2, r3

\* Two prompts that share a first block, one that does not share it, lengths on
\* and past a block boundary.
MCPrompts == {<<t1, t1>>, <<t1, t1, t2, t2>>, <<t2, t1, t1>>}

\* The same and a prompt that fits a pool of four blocks but is longer than max_model_len.
MCModesPrompts == MCPrompts \cup {<<t1, t1, t2, t2, t1>>}

\* A short prompt, one that outgrows a pool of three blocks, one that fills it, and one
\* that max_model_len allows but is larger than the pool.
MCLongPrompts ==
  {<<t1>>, <<t1, t1, t2, t2, t1>>, <<t1, t1, t2, t2, t1, t1>>, <<t1, t1, t2, t2, t1, t1, t2>>}

\* Prompts of one and of two blocks with the same first block.
MCSwapPrompts == {<<t1, t1>>, <<t1, t1, t2>>}

RequestSymmetry == Permutations(Requests)
============================================================================
