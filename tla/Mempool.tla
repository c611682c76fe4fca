------------------------------ MODULE Mempool ------------------------------
(***************************************************************************)
(* The memory pools of src/common/mempool: every transport buffer of the   *)
(* host and of the co-processor is a block of such a pool.  A pool is a    *)
(* singly linked list of free blocks, threaded through the blocks          *)
(* themselves, with a counter; all pools share one mutex, which is created *)
(* anew whenever a pool is created (OS_INIT_CRITICAL).  Any thread may     *)
(* take a block of a pool and put it back.  The statistic mp_min_free is   *)
(* left out.                                                               *)
(***************************************************************************)
EXTENDS Naturals, Sequences

CONSTANTS
    Threads,        \* the threads that allocate and free
    Pools,          \* the pools the program creates and destroys
    NumBlocks,      \* blocks of a pool
    MaxMutex,       \* bound: how often a pool is created
    CreateInUse,    \* may a pool be created while a thread is inside an operation?
    NoThread        \* the owner of a free mutex

ASSUME PoolAssumption == /\ NumBlocks \in Nat
                         /\ MaxMutex \in Nat
                         /\ CreateInUse \in BOOLEAN
                         /\ NoThread \notin Threads

Blocks == 1..NumBlocks

\* The null pointer.
Null == 0

VARIABLES
    hosted_port_mutex,  \* handle of the current mutex, 0 before the first
    owner,              \* owner of each mutex that was ever created
    created,            \* the pools that exist
    first,              \* SLIST_FIRST of each pool
    mb_next,            \* SLIST_NEXT of each block
    num_free,           \* mp_num_free of each pool
    pc, mp, block,      \* where a thread is, the pool and the block it works on
    handle,             \* the mutex a thread is waiting for
    held,               \* the blocks a thread was given and has not put back
    list                \* ghost: the free blocks of each pool, first to last

vars == <<hosted_port_mutex, owner, created, first, mb_next, num_free, pc, mp, block,
          handle, held, list>>

pool_vars == <<first, mb_next, num_free, list>>

Init ==
    /\ hosted_port_mutex = 0
    /\ owner = [h \in 1..MaxMutex |-> NoThread]
    /\ created = {}
    /\ first = [p \in Pools |-> Null]
    /\ mb_next = [p \in Pools |-> [b \in Blocks |-> Null]]
    /\ num_free = [p \in Pools |-> 0]
    /\ pc = [t \in Threads |-> "idle"]
    /\ mp \in [Threads -> Pools]
    /\ block = [t \in Threads |-> Null]
    /\ handle = [t \in Threads |-> 0]
    /\ held = [t \in Threads |-> {}]
    /\ list = [p \in Pools |-> <<>>]

-----------------------------------------------------------------------------
(* Creating and destroying pools.                                          *)

\* The chain a fresh pool starts with: each block points to the one behind it.
FreshChain == [b \in Blocks |-> IF b = NumBlocks THEN Null ELSE b + 1]

\* os_mempool_init_internal: a new mutex, then the list.  Nobody can use the pool before
\* the caller has its address, so only the mutex matters to other threads.
hosted_mempool_create(p) ==
    /\ p \notin created
    /\ hosted_port_mutex < MaxMutex
    /\ CreateInUse \/ \A t \in Threads : pc[t] = "idle"
    /\ hosted_port_mutex' = hosted_port_mutex + 1
    /\ created' = created \cup {p}
    /\ first' = [first EXCEPT ![p] = IF NumBlocks = 0 THEN Null ELSE 1]
    /\ mb_next' = [mb_next EXCEPT ![p] = FreshChain]
    /\ num_free' = [num_free EXCEPT ![p] = NumBlocks]
    /\ list' = [list EXCEPT ![p] = [i \in Blocks |-> i]]
    /\ UNCHANGED <<owner, pc, mp, block, handle, held>>

\* The owner of a pool destroys it when its blocks are back and nobody works on it (and, for
\* the bound's sake, only while a pool can still be created).
hosted_mempool_destroy(p) ==
    /\ p \in created
    /\ hosted_port_mutex < MaxMutex
    /\ \A t \in Threads : mp[t] = p => pc[t] = "idle"
    /\ \A t \in Threads, b \in Blocks : <<p, b>> \notin held[t]
    /\ created' = created \ {p}
    /\ UNCHANGED <<hosted_port_mutex, owner, first, mb_next, num_free, pc, mp, block,
                   handle, held, list>>

-----------------------------------------------------------------------------
(* The critical section.                                                   *)

Goto(t, l) == pc' = [pc EXCEPT ![t] = l]

\* OS_ENTER_CRITICAL, first half: the handle is read from the global.
ReadHandle(t) == handle' = [handle EXCEPT ![t] = hosted_port_mutex]

\* OS_ENTER_CRITICAL, second half: the thread waits until that mutex is free.
TakeMutex(t) ==
    /\ owner[handle[t]] = NoThread
    /\ owner' = [owner EXCEPT ![handle[t]] = t]

\* OS_EXIT_CRITICAL gives the mutex the global names now, whoever holds it.
GiveMutex(t) == owner' = [owner EXCEPT ![hosted_port_mutex] = NoThread]

-----------------------------------------------------------------------------
(* os_memblock_get.                                                        *)

GetCall(t, p) ==
    /\ pc[t] = "idle" /\ p \in created
    /\ mp' = [mp EXCEPT ![t] = p]
    /\ block' = [block EXCEPT ![t] = Null]
    /\ ReadHandle(t)
    /\ Goto(t, "get_enter")
    /\ UNCHANGED <<hosted_port_mutex, owner, created, pool_vars, held>>

\* Mutant: no critical section around the list.
GetEnterUnlocked(t) ==
    /\ pc[t] = "get_enter"
    /\ Goto(t, "get_head")
    /\ UNCHANGED <<hosted_port_mutex, owner, created, pool_vars, mp, block, handle, held>>

GetEnter(t) ==
    /\ pc[t] = "get_enter"
    /\ TakeMutex(t)
    /\ Goto(t, "get_head")
    /\ UNCHANGED <<hosted_port_mutex, created, pool_vars, mp, block, handle, held>>

\* Is there a free block?  Then it is the first of the list.
GetHead(t) ==
    /\ pc[t] = "get_head"
    /\ IF num_free[mp[t]] # 0
       THEN /\ block' = [block EXCEPT ![t] = first[mp[t]]]
            /\ Goto(t, "get_next")
       ELSE /\ Goto(t, "get_exit")
            /\ UNCHANGED block
    /\ UNCHANGED <<hosted_port_mutex, owner, created, pool_vars, mp, handle, held>>

\* The list now starts with the next block.
GetNext(t) ==
    /\ pc[t] = "get_next"
    /\ LET p == mp[t] IN
       /\ block[t] # Null
       /\ first' = [first EXCEPT ![p] = mb_next[p][block[t]]]
       /\ list' = [list EXCEPT ![p] = IF @ = <<>> THEN @ ELSE Tail(@)]
    /\ Goto(t, "get_count")
    /\ UNCHANGED <<hosted_port_mutex, owner, created, mb_next, num_free, mp, block, handle, held>>

GetCount(t) ==
    /\ pc[t] = "get_count"
    /\ num_free' = [num_free EXCEPT ![mp[t]] = @ - 1]
    /\ Goto(t, "get_exit")
    /\ UNCHANGED <<hosted_port_mutex, owner, created, first, mb_next, mp, block, handle, held, list>>

\* The caller gets the block, or NULL.
GetExit(t) ==
    /\ pc[t] = "get_exit"
    /\ GiveMutex(t)
    /\ held' = [held EXCEPT ![t] = IF block[t] = Null THEN @ ELSE @ \cup {<<mp[t], block[t]>>}]
    /\ Goto(t, "idle")
    /\ UNCHANGED <<hosted_port_mutex, created, pool_vars, mp, block, handle>>

-----------------------------------------------------------------------------
(* os_memblock_put.  A thread may put back any block it was given; a block *)
(* that was queued to another thread is put back by that thread.           *)

\* A buffer changes hands through one of the transports' queues.
PassOn(t, u, x) ==
    /\ t # u /\ pc[t] = "idle" /\ pc[u] = "idle"
    /\ x \in held[t]
    /\ held' = [held EXCEPT ![t] = @ \ {x}, ![u] = @ \cup {x}]
    /\ UNCHANGED <<hosted_port_mutex, owner, created, pool_vars, pc, mp, block, handle>>

PutCall(t, x) ==
    /\ pc[t] = "idle" /\ x \in held[t]
    /\ held' = [held EXCEPT ![t] = @ \ {x}]
    /\ mp' = [mp EXCEPT ![t] = x[1]]
    /\ block' = [block EXCEPT ![t] = x[2]]
    /\ ReadHandle(t)
    /\ Goto(t, "put_enter")
    /\ UNCHANGED <<hosted_port_mutex, owner, created, pool_vars>>

PutEnter(t) ==
    /\ pc[t] = "put_enter"
    /\ TakeMutex(t)
    /\ Goto(t, "put_link")
    /\ UNCHANGED <<hosted_port_mutex, created, pool_vars, mp, block, handle, held>>

\* Mutant: the block becomes the head without its link to the rest of the list.
PutLinkForgotten(t) ==
    /\ pc[t] = "put_link"
    /\ Goto(t, "put_head")
    /\ UNCHANGED <<hosted_port_mutex, owner, created, pool_vars, mp, block, handle, held>>

PutLink(t) ==
    /\ pc[t] = "put_link"
    /\ mb_next' = [mb_next EXCEPT ![mp[t]][block[t]] = first[mp[t]]]
    /\ Goto(t, "put_head")
    /\ UNCHANGED <<hosted_port_mutex, owner, created, first, num_free, list, mp, block, handle, held>>

PutHead(t) ==
    /\ pc[t] = "put_head"
    /\ first' = [first EXCEPT ![mp[t]] = block[t]]
    /\ list' = [list EXCEPT ![mp[t]] = <<block[t]>> \o @]
    /\ Goto(t, "put_count")
    /\ UNCHANGED <<hosted_port_mutex, owner, created, mb_next, num_free, mp, block, handle, held>>

PutCount(t) ==
    /\ pc[t] = "put_count"
    /\ num_free' = [num_free EXCEPT ![mp[t]] = @ + 1]
    /\ Goto(t, "put_exit")
    /\ UNCHANGED <<hosted_port_mutex, owner, created, first, mb_next, list, mp, block, handle, held>>

PutExit(t) ==
    /\ pc[t] = "put_exit"
    /\ GiveMutex(t)
    /\ Goto(t, "idle")
    /\ UNCHANGED <<hosted_port_mutex, created, pool_vars, mp, block, handle, held>>

-----------------------------------------------------------------------------

Get(t) == \/ \E p \in Pools : GetCall(t, p)
          \/ GetEnter(t) \/ GetHead(t) \/ GetNext(t) \/ GetCount(t) \/ GetExit(t)

Put(t) == \/ \E x \in held[t] : PutCall(t, x)
          \/ PutEnter(t) \/ PutLink(t) \/ PutHead(t) \/ PutCount(t) \/ PutExit(t)

Next ==
    \/ \E p \in Pools : hosted_mempool_create(p) \/ hosted_mempool_destroy(p)
    \/ \E t \in Threads : Get(t) \/ Put(t)
    \/ \E t, u \in Threads : \E x \in held[t] : PassOn(t, u, x)

Spec == Init /\ [][Next]_vars

-----------------------------------------------------------------------------
(* Properties.                                                             *)

\* What a thread has taken off the list and not yet put back into it.
Taken(t) ==
    IF \/ pc[t] \in {"get_count", "get_exit"} /\ block[t] # Null
       \/ pc[t] \in {"put_enter", "put_link", "put_head"}
    THEN {<<mp[t], block[t]>>} ELSE {}

Hands(t) == held[t] \cup Taken(t)

Free(p) == {list[p][i] : i \in 1..Len(list[p])}

\* "When the block has been removed from the free list the entire memory block is usable by
\* the caller" (src/common/mempool/mempool_ll.h): no block is in the hands of two threads,
\* and none that is in use is on the free list, from where it would be handed out again.
OneOwner ==
    /\ \A t, u \in Threads : t # u => Hands(t) \cap Hands(u) = {}
    /\ \A t \in Threads, p \in created : \A b \in Free(p) : <<p, b>> \notin Hands(t)

Chained(p) ==
    LET n == Len(list[p]) IN
    /\ first[p] = IF n = 0 THEN Null ELSE list[p][1]
    /\ \A i \in 1..n : mb_next[p][list[p][i]] = IF i = n THEN Null ELSE list[p][i + 1]
    /\ \A i, j \in 1..n : list[p][i] = list[p][j] => i = j

Between(p, l) == \E t \in Threads : mp[t] = p /\ pc[t] = l

CountRight(p) ==
    num_free[p] = Len(list[p]) + (IF Between(p, "get_count") THEN 1 ELSE 0)
                               - (IF Between(p, "put_count") THEN 1 ELSE 0)

\* The links threaded through the blocks form one chain without a cycle that ends in NULL, at
\* every step of every thread, and mp_num_free is its length except while a thread is between
\* changing one and the other.
FreeListIntact == \A p \in created : Chained(p) /\ CountRight(p)

\* No block is lost: it is on the free list or in somebody's hands, whatever the order in which
\* threads allocate, pass on and free.
NoBlockLost ==
    \A p \in created, b \in Blocks :
        b \in Free(p) \/ \E t \in Threads : <<p, b>> \in Hands(t)

=============================================================================
