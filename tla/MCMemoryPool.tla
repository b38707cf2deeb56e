----------------------------- MODULE MCMemoryPool -----------------------------
(* Three threads over a pool of three blocks: exhaustion, refill in every     *)
(* order, and two threads queueing behind a third that holds pool_mutex.      *)
EXTENDS MemoryPool, TLC

Symmetry == Permutations(Threads)
================================================================================
