-------------------------- MODULE CpuBlockManager --------------------------
(***************************************************************************)
(* nanovllm/engine/cpu_block_manager.py: the free list of the CPU blocks   *)
(* that preempted requests are swapped out to.                             *)
(***************************************************************************)
EXTENDS Integers, Sequences

CONSTANT NumCpuBlocks   \* num_cpu_kvcache_blocks

ASSUME CpuPoolAssumption == NumCpuBlocks \in Nat

VARIABLE cpuFree   \* free_block_ids, first to be handed out first

CpuBlocks == 0 .. NumCpuBlocks - 1

CpuInit == cpuFree = [i \in 1 .. NumCpuBlocks |-> i - 1]

CpuCanAllocate(n) == Len(cpuFree) >= n

\* The blocks the next allocate(n) returns.
CpuTaken(n) == SubSeq(cpuFree, 1, n)

CpuAllocate(n) == cpuFree' = SubSeq(cpuFree, n + 1, Len(cpuFree))

CpuDeallocateForgotten(ids) == UNCHANGED cpuFree   \* Bug: the blocks are lost.

CpuDeallocate(ids) == cpuFree' = cpuFree \o ids

============================================================================
