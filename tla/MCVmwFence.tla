----------------------------- MODULE MCVmwFence -----------------------------
(* The fence manager with few threads, fences and actions. *)
EXTENDS VmwFence, TLC

CONSTANTS t1, t2, p, f1, f2, a1, a2

Symmetry == Permutations(Threads) \cup Permutations(Fences) \cup Permutations(Actions)
=============================================================================
