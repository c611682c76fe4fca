----------------------------- MODULE MCRpcCore -----------------------------
EXTENDS RpcCore, TLC

\* How many requests each thread makes: one, or two for the threads that make
\* synchronous ones, so that a call meets the leftovers of the last.
OneEach == [c \in Callers |-> 1]
TwoSync == [c \in Callers |-> IF c \in SyncCallers THEN 2 ELSE 1]

\* The threads that make one synchronous request each are alike.
SyncAlike == Permutations(SyncCallers)
=============================================================================
