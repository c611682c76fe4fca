----------------------------- MODULE MCMempool -----------------------------
(* Model values for checking Mempool: threads and pools are interchangeable. *)
EXTENDS Mempool, TLC

CONSTANTS t1, t2, p1, p2

Symmetry == Permutations(Threads) \cup Permutations(Pools)

=============================================================================
