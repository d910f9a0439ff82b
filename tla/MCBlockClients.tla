--------------------------- MODULE MCBlockClients ---------------------------
(***************************************************************************)
(* Instances of BlockClients for TLC.                                      *)
(***************************************************************************)
EXTENDS BlockClients, TLC

CONSTANTS t1, t2, r1, r2, r3

\* Prompts that share a first block or differ in it, and end in or past it.
MCPrompts == {<<t1, t1, t2>>, <<t2, t1>>, <<t1, t1, t2, t2, t1>>}

RequestSymmetry == Permutations(Requests)
============================================================================
