--------------------------- MODULE MempoolProofs ---------------------------
(***************************************************************************)
(* The memory pools of src/common/mempool, for any number of threads,      *)
(* pools and blocks: as long as no pool is created while a thread is       *)
(* inside an operation, no block is handed out twice, none is lost and the *)
(* free list stays one chain.                                              *)
(***************************************************************************)
EXTENDS Mempool, Integers, SequenceTheorems, TLAPS

-----------------------------------------------------------------------------
(* The inductive invariant.                                                *)

\* The labels between OS_ENTER_CRITICAL and OS_EXIT_CRITICAL.
Inside == {"get_head", "get_next", "get_count", "get_exit",
           "put_link", "put_head", "put_count", "put_exit"}

Labels == Inside \cup {"idle", "get_enter", "put_enter"}

TypeOK ==
    /\ hosted_port_mutex \in 0..MaxMutex
    /\ owner \in [1..MaxMutex -> Threads \cup {NoThread}]
    /\ created \in SUBSET Pools
    /\ first \in [Pools -> Blocks \cup {Null}]
    /\ mb_next \in [Pools -> [Blocks -> Blocks \cup {Null}]]
    /\ num_free \in [Pools -> Int]
    /\ pc \in [Threads -> Labels]
    /\ mp \in [Threads -> Pools]
    /\ block \in [Threads -> Blocks \cup {Null}]
    /\ handle \in [Threads -> 0..MaxMutex]
    /\ held \in [Threads -> SUBSET (Pools \X Blocks)]
    /\ list \in [Pools -> Seq(Blocks)]

\* Every thread in an operation works with the current mutex, the one that is inside holds it,
\* and the mutexes to come are free.
Critical ==
    /\ \A t \in Threads :
        /\ pc[t] # "idle" => handle[t] = hosted_port_mutex /\ hosted_port_mutex # 0
        /\ pc[t] \in Inside => owner[hosted_port_mutex] = t
    /\ \A h \in 1..MaxMutex : h > hosted_port_mutex => owner[h] = NoThread

\* Nobody works on, or has a block of, a pool that does not exist; while a pool exists, so does
\* a mutex.
Live ==
    /\ created # {} => hosted_port_mutex # 0
    /\ \A t \in Threads :
        /\ pc[t] # "idle" => mp[t] \in created
        /\ \A p \in Pools, b \in Blocks : <<p, b>> \in held[t] => p \in created

\* The block a thread works on, label by label.
Works ==
    \A t \in Threads :
        /\ pc[t] \in {"get_enter", "get_head"} => block[t] = Null
        /\ pc[t] \in {"get_count", "put_enter", "put_link", "put_head"} => block[t] \in Blocks

\* The part that does not look into the lists.
Locked == TypeOK /\ Critical /\ Live /\ Works

\* What a thread in the middle of an operation relies on: the block it is taking is still the
\* first, and the one it puts back already points to the first.
Relies ==
    \A t \in Threads :
        /\ pc[t] = "get_next" => Len(list[mp[t]]) # 0 /\ block[t] = list[mp[t]][1]
        /\ pc[t] = "put_head" => mb_next[mp[t]][block[t]] = first[mp[t]]

\* A block a thread is about to give away or to get is not also one it keeps.
Apart == \A t \in Threads : Taken(t) \cap held[t] = {}

Lists == Relies /\ Apart /\ OneOwner /\ FreeListIntact /\ NoBlockLost

IInv == Locked /\ Lists

-----------------------------------------------------------------------------
(* Facts about sequences of blocks.                                        *)

LEMMA TailOf ==
    ASSUME NEW s \in Seq(Blocks), Len(s) # 0
    PROVE  /\ s # <<>> /\ Tail(s) \in Seq(Blocks) /\ Len(Tail(s)) = Len(s) - 1
           /\ \A i \in 1..(Len(s) - 1) : Tail(s)[i] = s[i + 1]
<1>1. s # <<>>
  OBVIOUS
<1> QED BY <1>1, HeadTailProperties

LEMMA ConsOf ==
    ASSUME NEW s \in Seq(Blocks), NEW b \in Blocks
    PROVE  /\ <<b>> \o s \in Seq(Blocks) /\ Len(<<b>> \o s) = Len(s) + 1
           /\ (<<b>> \o s)[1] = b
           /\ \A i \in 2..(Len(s) + 1) : (<<b>> \o s)[i] = s[i - 1]
<1>1. <<b>> \in Seq(Blocks) /\ Len(<<b>>) = 1 /\ <<b>>[1] = b
  OBVIOUS
<1>2. /\ <<b>> \o s \in Seq(Blocks) /\ Len(<<b>> \o s) = 1 + Len(s)
      /\ \A i \in 1..(1 + Len(s)) : (<<b>> \o s)[i] = IF i <= 1 THEN <<b>>[i] ELSE s[i - 1]
  BY <1>1, ConcatProperties
<1> QED BY <1>1, <1>2

\* The list a fresh pool starts with.
LEMMA FreshList ==
    /\ [i \in Blocks |-> i] \in Seq(Blocks)
    /\ Len([i \in Blocks |-> i]) = NumBlocks
    /\ \A i \in Blocks : [j \in Blocks |-> j][i] = i
BY PoolAssumption DEF Blocks

-----------------------------------------------------------------------------
(* Facts about chains.                                                     *)

\* Chained, for a head f, links nx and a list s.
IsChain(f, nx, s) ==
    /\ f = IF Len(s) = 0 THEN Null ELSE s[1]
    /\ \A i \in 1..Len(s) : nx[s[i]] = IF i = Len(s) THEN Null ELSE s[i + 1]
    /\ \A i, j \in 1..Len(s) : s[i] = s[j] => i = j

Elems(s) == {s[i] : i \in 1..Len(s)}

Links == [Blocks -> Blocks \cup {Null}]

LEMMA ChainTail ==
    ASSUME NEW s \in Seq(Blocks), Len(s) # 0, NEW nx \in Links, NEW f, IsChain(f, nx, s)
    PROVE  /\ IsChain(nx[s[1]], nx, Tail(s))
           /\ s[1] \in Elems(s) /\ Elems(Tail(s)) = Elems(s) \ {s[1]}
<1> DEFINE n == Len(s)
<1>1. /\ n \in Nat /\ n # 0 /\ Len(Tail(s)) = n - 1
      /\ \A i \in 1..(n - 1) : Tail(s)[i] = s[i + 1]
  BY TailOf
<1>2. /\ \A i \in 1..n : nx[s[i]] = IF i = n THEN Null ELSE s[i + 1]
      /\ \A i, j \in 1..n : s[i] = s[j] => i = j
  BY DEF IsChain
<1> HIDE DEF n
<1>3. nx[s[1]] = IF n - 1 = 0 THEN Null ELSE Tail(s)[1]
  BY <1>1, <1>2
<1>4. ASSUME NEW i \in 1..(n - 1)
      PROVE  nx[Tail(s)[i]] = IF i = n - 1 THEN Null ELSE Tail(s)[i + 1]
  BY <1>1, <1>2
<1>5. ASSUME NEW i \in 1..(n - 1), NEW j \in 1..(n - 1), Tail(s)[i] = Tail(s)[j]
      PROVE  i = j
  <2>1. i + 1 \in 1..n /\ j + 1 \in 1..n /\ s[i + 1] = s[j + 1]
    BY <1>1, <1>5
  <2> QED BY <2>1, <1>2
<1>6. IsChain(nx[s[1]], nx, Tail(s))
  BY <1>1, <1>3, <1>4, <1>5 DEF IsChain
<1>7. s[1] \in Elems(s)
  BY <1>1 DEF Elems, n
<1>8. ASSUME NEW x \in Elems(s) \ {s[1]} PROVE x \in Elems(Tail(s))
  <2>1. PICK i \in 1..n : x = s[i]
    BY DEF Elems, n
  <2>2. i - 1 \in 1..(n - 1) /\ Tail(s)[i - 1] = x
    BY <2>1, <1>8, <1>1
  <2> QED BY <2>2, <1>1 DEF Elems
<1>9. ASSUME NEW x \in Elems(Tail(s)) PROVE x \in Elems(s) \ {s[1]}
  <2>1. PICK i \in 1..(n - 1) : x = s[i + 1]
    BY <1>1 DEF Elems
  <2>2. i + 1 \in 1..n /\ 1 \in 1..n /\ i + 1 # 1
    BY <1>1
  <2> QED BY <2>1, <2>2, <1>2 DEF Elems, n
<1> QED BY <1>6, <1>7, <1>8, <1>9

LEMMA ChainCons ==
    ASSUME NEW s \in Seq(Blocks), NEW b \in Blocks, b \notin Elems(s), NEW nx \in Links,
           IsChain(nx[b], nx, s)
    PROVE  IsChain(b, nx, <<b>> \o s) /\ Elems(<<b>> \o s) = Elems(s) \cup {b}
<1> DEFINE n == Len(s)
           c == <<b>> \o s
<1>1. /\ n \in Nat /\ Len(c) = n + 1 /\ c[1] = b
      /\ \A i \in 2..(n + 1) : c[i] = s[i - 1]
  BY ConsOf
<1>2. /\ nx[b] = IF n = 0 THEN Null ELSE s[1]
      /\ \A i \in 1..n : nx[s[i]] = IF i = n THEN Null ELSE s[i + 1]
      /\ \A i, j \in 1..n : s[i] = s[j] => i = j
      /\ \A i \in 1..n : s[i] # b
  BY DEF IsChain, Elems
<1>3. Elems(s) = {s[i] : i \in 1..n} /\ Elems(c) = {c[i] : i \in 1..(n + 1)}
  BY <1>1 DEF Elems
<1> HIDE DEF n, c
<1>4. ASSUME NEW i \in 1..(n + 1)
      PROVE  nx[c[i]] = IF i = n + 1 THEN Null ELSE c[i + 1]
  <2>1. CASE i = 1
    BY <2>1, <1>1, <1>2
  <2>2. CASE i # 1
    <3>1. i - 1 \in 1..n /\ c[i] = s[i - 1] /\ (i # n + 1 => c[i + 1] = s[i])
      BY <2>2, <1>1
    <3> QED BY <3>1, <1>1, <1>2
  <2> QED BY <2>1, <2>2
<1>5. ASSUME NEW i \in 1..(n + 1), NEW j \in 1..(n + 1), c[i] = c[j]
      PROVE  i = j
  <2>1. \A k \in 1..(n + 1) : k # 1 => k - 1 \in 1..n /\ c[k] = s[k - 1] /\ c[k] # b
    BY <1>1, <1>2
  <2> QED BY <2>1, <1>1, <1>2, <1>5
<1>6. IsChain(b, nx, c)
  BY <1>1, <1>4, <1>5 DEF IsChain
<1>7. ASSUME NEW i \in 1..n PROVE s[i] \in Elems(c)
  <2>1. i + 1 \in 1..(n + 1) /\ c[i + 1] = s[i]
    BY <1>1
  <2> QED BY <2>1, <1>3
<1>8. ASSUME NEW i \in 1..(n + 1) PROVE c[i] \in Elems(s) \cup {b}
  <2>1. i # 1 => i - 1 \in 1..n /\ c[i] = s[i - 1]
    BY <1>1
  <2> QED BY <2>1, <1>1, <1>3
<1>9. b \in Elems(c)
  BY <1>1, <1>3
<1> QED BY <1>3, <1>6, <1>7, <1>8, <1>9 DEF c

\* A block that is not on the chain may point anywhere.
LEMMA ChainLink ==
    ASSUME NEW s \in Seq(Blocks), NEW b \in Blocks, b \notin Elems(s), NEW nx \in Links, NEW f,
           NEW g, IsChain(f, nx, s)
    PROVE  IsChain(f, [nx EXCEPT ![b] = g], s)
<1>1. \A i \in 1..Len(s) : s[i] \in Blocks /\ s[i] # b
  BY DEF Elems
<1> QED BY <1>1 DEF IsChain, Links

LEMMA ChainedIs ==
    \A p : /\ Chained(p) <=> IsChain(first[p], mb_next[p], list[p])
           /\ Chained(p)' <=> IsChain(first'[p], mb_next'[p], list'[p])
           /\ Free(p) = Elems(list[p]) /\ Free(p)' = Elems(list'[p])
BY DEF Chained, IsChain, Free, Elems

-----------------------------------------------------------------------------
(* The critical section.                                                   *)

\* Only one thread is inside the critical section.
LEMMA Alone ==
    ASSUME Locked, NEW t \in Threads, NEW u \in Threads, pc[t] \in Inside, pc[u] \in Inside
    PROVE  t = u
BY DEF Locked, Critical

LEMMA InitLocked == Init => Locked
BY PoolAssumption DEF Init, Locked, TypeOK, Critical, Live, Works, Inside, Labels, Blocks, Null

LEMMA NextLocked ==
    ASSUME ~CreateInUse, Locked, [Next]_vars
    PROVE  Locked'
<1> USE PoolAssumption DEF Locked, TypeOK, Critical, Live, Works, Inside, Labels, Blocks, Null
<1>1. ASSUME NEW p \in Pools, hosted_mempool_create(p) PROVE Locked'
  BY <1>1, FreshList DEF hosted_mempool_create, FreshChain
<1>2. ASSUME NEW p \in Pools, hosted_mempool_destroy(p) PROVE Locked'
  BY <1>2 DEF hosted_mempool_destroy
<1>3. ASSUME NEW t \in Threads, NEW p \in Pools, GetCall(t, p) PROVE Locked'
  BY <1>3 DEF GetCall, ReadHandle, Goto, pool_vars
<1>4. ASSUME NEW t \in Threads, GetEnter(t) PROVE Locked'
  <2>1. hosted_port_mutex \in 1..MaxMutex /\ handle[t] = hosted_port_mutex
    BY <1>4 DEF GetEnter, TakeMutex, Goto, pool_vars
  <2>2. \A u \in Threads : pc[u] \notin Inside
    BY <1>4, <2>1 DEF GetEnter, TakeMutex, Goto, pool_vars
  <2>3. TypeOK'
    BY <1>4 DEF GetEnter, TakeMutex, Goto, pool_vars
  <2>4. Critical'
    BY <1>4, <2>1, <2>2 DEF GetEnter, TakeMutex, Goto, pool_vars
  <2>5. Live' /\ Works'
    BY <1>4 DEF GetEnter, TakeMutex, Goto, pool_vars
  <2> QED BY <2>3, <2>4, <2>5
<1>5. ASSUME NEW t \in Threads, GetHead(t) PROVE Locked'
  <2>1. TypeOK'
    BY <1>5 DEF GetHead, Goto, pool_vars
  <2>2. Critical' /\ Live'
    BY <1>5 DEF GetHead, Goto, pool_vars
  <2>3. Works'
    BY <1>5 DEF GetHead, Goto, pool_vars
  <2> QED BY <2>1, <2>2, <2>3
<1>6. ASSUME NEW t \in Threads, GetNext(t) PROVE Locked'
  <2>1. mp[t] \in Pools /\ list[mp[t]] \in Seq(Blocks) /\ block[t] \in Blocks
    BY <1>6 DEF GetNext
  <2>2. list' \in [Pools -> Seq(Blocks)]
    <3>1. CASE list[mp[t]] = <<>>
      BY <1>6, <2>1, <3>1 DEF GetNext
    <3>2. CASE list[mp[t]] # <<>>
      <4>1. Tail(list[mp[t]]) \in Seq(Blocks)
        BY <2>1, <3>2, HeadTailProperties
      <4> QED BY <1>6, <2>1, <3>2, <4>1 DEF GetNext
    <3> QED BY <3>1, <3>2
  <2>3. TypeOK'
    BY <1>6, <2>1, <2>2 DEF GetNext, Goto
  <2>4. Critical' /\ Live' /\ Works'
    BY <1>6, <2>1 DEF GetNext, Goto
  <2> QED BY <2>3, <2>4
<1>7. ASSUME NEW t \in Threads, GetCount(t) PROVE Locked'
  BY <1>7 DEF GetCount, Goto
<1>8. ASSUME NEW t \in Threads, GetExit(t) PROVE Locked'
  BY <1>8 DEF GetExit, GiveMutex, Goto, pool_vars
<1>9. ASSUME NEW t \in Threads, NEW x \in held[t], PutCall(t, x) PROVE Locked'
  <2>1. PICK p \in Pools, b \in Blocks : x = <<p, b>>
    BY <1>9
  <2>2. x[1] = p /\ x[2] = b
    BY <2>1
  <2>3. p \in created /\ hosted_port_mutex # 0
    BY <1>9, <2>1
  <2>4. TypeOK'
    BY <1>9, <2>2 DEF PutCall, ReadHandle, Goto, pool_vars
  <2>5. Critical' /\ Works'
    BY <1>9, <2>2, <2>3 DEF PutCall, ReadHandle, Goto, pool_vars
  <2>6. Live'
    BY <1>9, <2>2, <2>3 DEF PutCall, ReadHandle, Goto, pool_vars
  <2> QED BY <2>4, <2>5, <2>6
<1>10. ASSUME NEW t \in Threads, PutEnter(t) PROVE Locked'
  <2>1. hosted_port_mutex \in 1..MaxMutex /\ handle[t] = hosted_port_mutex
    BY <1>10 DEF PutEnter, TakeMutex, Goto, pool_vars
  <2>2. \A u \in Threads : pc[u] \notin Inside
    BY <1>10, <2>1 DEF PutEnter, TakeMutex, Goto, pool_vars
  <2>3. TypeOK'
    BY <1>10 DEF PutEnter, TakeMutex, Goto, pool_vars
  <2>4. Critical'
    BY <1>10, <2>1, <2>2 DEF PutEnter, TakeMutex, Goto, pool_vars
  <2>5. Live' /\ Works'
    BY <1>10 DEF PutEnter, TakeMutex, Goto, pool_vars
  <2> QED BY <2>3, <2>4, <2>5
<1>11. ASSUME NEW t \in Threads, PutLink(t) PROVE Locked'
  BY <1>11 DEF PutLink, Goto
<1>12. ASSUME NEW t \in Threads, PutHead(t) PROVE Locked'
  BY <1>12, ConsOf DEF PutHead, Goto
<1>13. ASSUME NEW t \in Threads, PutCount(t) PROVE Locked'
  BY <1>13 DEF PutCount, Goto
<1>14. ASSUME NEW t \in Threads, PutExit(t) PROVE Locked'
  BY <1>14 DEF PutExit, GiveMutex, Goto, pool_vars
<1>15. ASSUME NEW t \in Threads, NEW u \in Threads, NEW x \in held[t], PassOn(t, u, x)
      PROVE  Locked'
  <2>3. x \in Pools \X Blocks /\ held[u] \cup {x} \in SUBSET (Pools \X Blocks)
        /\ held[t] \ {x} \in SUBSET (Pools \X Blocks)
    BY <1>15
  <2>1. held' \in [Threads -> SUBSET (Pools \X Blocks)]
    BY <1>15, <2>3 DEF PassOn
  <2>2. \A v \in Threads : held'[v] \subseteq held[v] \cup held[t]
    BY <1>15 DEF PassOn
  <2> QED BY <1>15, <2>1, <2>2 DEF PassOn, pool_vars
<1>16. CASE UNCHANGED vars
  BY <1>16 DEF vars
<1> QED
  BY <1>1, <1>2, <1>3, <1>4, <1>5, <1>6, <1>7, <1>8, <1>9, <1>10, <1>11, <1>12, <1>13, <1>14, <1>15, <1>16 DEF Next, Get, Put

-----------------------------------------------------------------------------
(* The free lists.                                                         *)

Counting == {"get_count", "put_count"}

\* A step that leaves the lists and the threads between list and counter alone.
LEMMA KeepLists ==
    ASSUME FreeListIntact, UNCHANGED pool_vars, created' \subseteq created,
           \A p \in created, l \in Counting : Between(p, l)' <=> Between(p, l)
    PROVE  FreeListIntact'
<1> SUFFICES ASSUME NEW p \in created' PROVE Chained(p)' /\ CountRight(p)'
  BY DEF FreeListIntact
<1>1. p \in created /\ Chained(p) /\ CountRight(p)
  BY DEF FreeListIntact
<1>2. Chained(p)'
  BY <1>1 DEF Chained, pool_vars
<1>3. /\ Between(p, "get_count")' <=> Between(p, "get_count")
      /\ Between(p, "put_count")' <=> Between(p, "put_count")
  BY <1>1 DEF Counting
<1>4. CountRight(p)'
  BY <1>1, <1>3 DEF CountRight, pool_vars
<1> QED BY <1>2, <1>4

\* A step by which no block changes hands.
LEMMA KeepOwners ==
    ASSUME OneOwner, NoBlockLost, UNCHANGED list, created' \subseteq created,
           \A u \in Threads : Hands(u)' = Hands(u)
    PROVE  OneOwner' /\ NoBlockLost'
BY DEF OneOwner, NoBlockLost, Free

\* Nobody but the thread inside is between list and counter.
LEMMA OnlyOne ==
    ASSUME Locked, NEW t \in Threads, pc[t] \in Inside, NEW p \in Pools, NEW l \in Inside
    PROVE  Between(p, l) <=> mp[t] = p /\ pc[t] = l
BY Alone DEF Between

LEMMA InitLists == Init => Lists
BY PoolAssumption DEF Init, Lists, Relies, Apart, OneOwner, FreeListIntact, NoBlockLost, Taken,
   Hands, Free, Null

LEMMA CreateLists ==
    ASSUME ~CreateInUse, Locked, Lists, NEW p \in Pools, hosted_mempool_create(p)
    PROVE  Lists'
<1>1. /\ \A t \in Threads : pc[t] = "idle" /\ pc'[t] = "idle"
      /\ created' = created \cup {p} /\ p \notin created
      /\ UNCHANGED <<mp, block, held, pc>>
  BY DEF hosted_mempool_create
<1>2. /\ list' = [list EXCEPT ![p] = [i \in Blocks |-> i]]
      /\ list'[p] = [i \in Blocks |-> i] /\ Len(list'[p]) = NumBlocks
      /\ \A i \in Blocks : list'[p][i] = i
      /\ \A q \in Pools : q # p => list'[q] = list[q]
  BY FreshList DEF hosted_mempool_create, Locked, TypeOK
<1>3. /\ first'[p] = IF NumBlocks = 0 THEN Null ELSE 1
      /\ mb_next'[p] = FreshChain
      /\ num_free'[p] = NumBlocks
      /\ \A q \in Pools : q # p => /\ first'[q] = first[q] /\ mb_next'[q] = mb_next[q]
                                   /\ num_free'[q] = num_free[q]
  BY DEF hosted_mempool_create, Locked, TypeOK
<1>4. Relies' /\ Apart'
  BY <1>1 DEF Relies, Apart, Taken
<1>5. \A t \in Threads : Hands(t)' = Hands(t)
  BY <1>1 DEF Hands, Taken
<1>6. Free(p)' = Blocks
  BY <1>2, PoolAssumption DEF Free, Blocks
<1>7. \A t \in Threads, b \in Blocks : <<p, b>> \notin Hands(t)
  BY <1>1 DEF Locked, Live, Hands, Taken
<1>8. \A q \in created : q \in Pools /\ q # p /\ Free(q)' = Free(q)
  BY <1>1, <1>2 DEF Free, Locked, TypeOK
<1>9. OneOwner'
  BY <1>1, <1>5, <1>6, <1>7, <1>8 DEF Lists, OneOwner
<1>10. NoBlockLost'
  BY <1>1, <1>5, <1>6, <1>8 DEF Lists, NoBlockLost
<1>11. \A q \in Pools, l \in Counting : ~Between(q, l) /\ ~Between(q, l)'
  BY <1>1 DEF Between, Counting
<1>12. Chained(p)' /\ CountRight(p)'
  <2>1. CountRight(p)'
    <3>1. num_free'[p] = NumBlocks /\ Len(list'[p]) = NumBlocks /\ NumBlocks \in Nat
          /\ ~Between(p, "get_count")' /\ ~Between(p, "put_count")'
      BY <1>2, <1>3, <1>11, PoolAssumption DEF Counting
    <3> QED BY <3>1 DEF CountRight
  <2>2. Chained(p)'
    BY <1>2, <1>3, PoolAssumption DEF Chained, FreshChain, Blocks
  <2> QED BY <2>1, <2>2
<1>13. ASSUME NEW q \in created PROVE Chained(q)' /\ CountRight(q)'
  <2>1. Chained(q) /\ CountRight(q) /\ q \in Pools /\ q # p
    BY <1>8 DEF Lists, FreeListIntact
  <2>2. Chained(q)'
    BY <2>1, <1>2, <1>3 DEF Chained
  <2>3. CountRight(q)'
    BY <2>1, <1>2, <1>3, <1>11 DEF CountRight, Counting
  <2> QED BY <2>2, <2>3
<1>14. FreeListIntact'
  BY <1>1, <1>12, <1>13 DEF FreeListIntact
<1> QED BY <1>4, <1>9, <1>10, <1>14 DEF Lists

\* The first block leaves the list and is in the hands of the thread.
LEMMA GetNextLists ==
    ASSUME Locked, Lists, NEW t \in Threads, GetNext(t)
    PROVE  Lists'
<1> SUFFICES ASSUME NEW p, p = mp[t], NEW b, b = block[t] PROVE Lists'
  OBVIOUS
<1>1. /\ p \in Pools /\ p \in created /\ b \in Blocks /\ list[p] \in Seq(Blocks)
      /\ Len(list[p]) # 0 /\ b = list[p][1] /\ mb_next[p] \in Links
      /\ pc[t] = "get_next" /\ pc[t] \in Inside /\ pc' = [pc EXCEPT ![t] = "get_count"]
      /\ mp' = mp /\ block' = block /\ held' = held /\ created' = created
      /\ mb_next' = mb_next /\ num_free' = num_free
  BY DEF Locked, TypeOK, Live, Lists, Relies, Inside, GetNext, Goto, Links
<1>2. /\ list'[p] = Tail(list[p]) /\ \A q \in Pools : q # p => list'[q] = list[q]
      /\ first'[p] = mb_next[p][b] /\ \A q \in Pools : q # p => first'[q] = first[q]
      /\ Len(list'[p]) = Len(list[p]) - 1 /\ Len(list[p]) \in Nat
  BY <1>1, TailOf DEF GetNext, Locked, TypeOK
<1>3. \A q \in created : Chained(q) /\ CountRight(q) /\ q \in Pools
  BY DEF Lists, FreeListIntact, Locked, TypeOK
<1>4. Chained(p)' /\ b \in Free(p) /\ Free(p)' = Free(p) \ {b}
  <2>1. IsChain(first[p], mb_next[p], list[p])
    BY <1>1, <1>3, ChainedIs
  <2>2. /\ IsChain(mb_next[p][b], mb_next[p], Tail(list[p]))
        /\ b \in Elems(list[p]) /\ Elems(Tail(list[p])) = Elems(list[p]) \ {b}
    BY <2>1, <1>1, ChainTail
  <2> QED BY <2>2, <1>1, <1>2, ChainedIs
<1>5. \A q \in Pools : q # p => Free(q)' = Free(q)
  BY <1>2, ChainedIs
<1>6. /\ Taken(t) = {} /\ Taken(t)' = {<<p, b>>}
      /\ \A u \in Threads : u # t => Taken(u)' = Taken(u)
  <2>1. b # Null
    BY <1>1, PoolAssumption DEF Blocks, Null
  <2>2. pc'[t] = "get_count" /\ \A u \in Threads : u # t => pc'[u] = pc[u]
    BY <1>1 DEF Locked, TypeOK
  <2>3. Taken(t) = {}
    BY <1>1 DEF Taken
  <2>4. Taken(t)' = {<<p, b>>}
    BY <1>1, <2>1, <2>2 DEF Taken
  <2>5. \A u \in Threads : u # t => Taken(u)' = Taken(u)
    BY <1>1, <2>2 DEF Taken
  <2> QED BY <2>3, <2>4, <2>5
<1>7. /\ Hands(t)' = Hands(t) \cup {<<p, b>>}
      /\ \A u \in Threads : u # t => Hands(u)' = Hands(u)
  BY <1>1, <1>6 DEF Hands
<1>8. \A u \in Threads : <<p, b>> \notin Hands(u)
  BY <1>1, <1>4 DEF Lists, OneOwner
<1>9. OneOwner'
  <2>1. \A u, v \in Threads : u # v => Hands(u)' \cap Hands(v)' = {}
    BY <1>7, <1>8 DEF Lists, OneOwner
  <2>2. ASSUME NEW u \in Threads, NEW q \in created, NEW c \in Free(q)'
        PROVE <<q, c>> \notin Hands(u)'
    <3>1. c \in Free(q) /\ <<q, c>> # <<p, b>>
      BY <2>2, <1>3, <1>4, <1>5
    <3> QED BY <3>1, <1>7 DEF Lists, OneOwner
  <2> QED BY <2>1, <2>2, <1>1 DEF OneOwner
<1>10. NoBlockLost'
  <2> SUFFICES ASSUME NEW q \in created, NEW c \in Blocks, c \notin Free(q)'
               PROVE \E u \in Threads : <<q, c>> \in Hands(u)'
    BY <1>1 DEF NoBlockLost
  <2>1. CASE c \in Free(q)
    <3>1. q = p /\ c = b
      BY <2>1, <1>3, <1>4, <1>5
    <3> QED BY <3>1, <1>7
  <2>2. CASE c \notin Free(q)
    <3>1. PICK u \in Threads : <<q, c>> \in Hands(u)
      BY <2>2 DEF Lists, NoBlockLost
    <3> QED BY <3>1, <1>7
  <2> QED BY <2>1, <2>2
<1>11. Apart'
  BY <1>1, <1>6, <1>8 DEF Lists, Apart, Hands
<1>12. \A u \in Threads : u # t => pc'[u] = pc[u] /\ pc[u] \notin Inside
  BY <1>1, Alone DEF Locked, TypeOK
<1>13. Relies'
  <2>1. \A u \in Threads : pc'[u] \notin {"get_next", "put_head"}
    BY <1>1, <1>12 DEF Locked, TypeOK, Inside
  <2> QED BY <2>1 DEF Relies
<1>14. \A q \in Pools : /\ ~Between(q, "get_count") /\ ~Between(q, "put_count")
                        /\ Between(q, "get_count")' <=> q = p
                        /\ ~Between(q, "put_count")'
  BY <1>1, <1>12 DEF Between, Inside, Locked, TypeOK
<1>15. ASSUME NEW q \in created PROVE CountRight(q)'
  <2>1. CASE q = p
    <3>1. CountRight(p) /\ ~Between(p, "get_count") /\ ~Between(p, "put_count")
      BY <1>1, <1>3, <1>14
    <3>2. Between(p, "get_count")' /\ ~Between(p, "put_count")'
      BY <1>1, <1>14
    <3>3. num_free[p] = Len(list[p]) /\ Len(list[p]) \in Nat
      BY <3>1, <1>2 DEF CountRight
    <3>4. num_free'[p] = Len(list'[p]) + 1 /\ Len(list'[p]) \in Nat
      BY <3>3, <1>1, <1>2
    <3> QED BY <2>1, <3>2, <3>4 DEF CountRight
  <2>2. CASE q # p
    BY <2>2, <1>1, <1>2, <1>3, <1>14 DEF CountRight
  <2> QED BY <2>1, <2>2
<1>16. ASSUME NEW q \in created PROVE Chained(q)'
  <2>1. CASE q # p
    BY <2>1, <1>1, <1>2, <1>3, ChainedIs
  <2> QED BY <2>1, <1>4
<1>17. FreeListIntact'
  BY <1>1, <1>15, <1>16 DEF FreeListIntact
<1> QED BY <1>9, <1>10, <1>11, <1>13, <1>17 DEF Lists

\* The block goes from the hands of the thread to the front of the list.
LEMMA PutHeadLists ==
    ASSUME Locked, Lists, NEW t \in Threads, PutHead(t)
    PROVE  Lists'
<1> SUFFICES ASSUME NEW p, p = mp[t], NEW b, b = block[t] PROVE Lists'
  OBVIOUS
<1>1. /\ p \in Pools /\ p \in created /\ b \in Blocks /\ list[p] \in Seq(Blocks)
      /\ mb_next[p][b] = first[p] /\ mb_next[p] \in Links
      /\ pc[t] = "put_head" /\ pc[t] \in Inside /\ pc' = [pc EXCEPT ![t] = "put_count"]
      /\ mp' = mp /\ block' = block /\ held' = held /\ created' = created
      /\ mb_next' = mb_next /\ num_free' = num_free
  BY DEF Locked, TypeOK, Live, Works, Lists, Relies, Inside, PutHead, Goto, Links
<1>2. /\ list'[p] = <<b>> \o list[p] /\ \A q \in Pools : q # p => list'[q] = list[q]
      /\ first'[p] = b /\ \A q \in Pools : q # p => first'[q] = first[q]
  BY <1>1 DEF PutHead, Locked, TypeOK
<1>3. Len(list'[p]) = Len(list[p]) + 1 /\ Len(list[p]) \in Nat
  BY <1>1, <1>2, ConsOf
<1>4. \A q \in created : Chained(q) /\ CountRight(q) /\ q \in Pools
  BY DEF Lists, FreeListIntact, Locked, TypeOK
<1>5. /\ Taken(t) = {<<p, b>>} /\ Taken(t)' = {}
      /\ \A u \in Threads : u # t => Taken(u)' = Taken(u)
  <2>1. pc'[t] = "put_count" /\ \A u \in Threads : u # t => pc'[u] = pc[u]
    BY <1>1 DEF Locked, TypeOK
  <2>2. Taken(t) = {<<p, b>>}
    BY <1>1 DEF Taken
  <2>3. Taken(t)' = {}
    BY <1>1, <2>1 DEF Taken
  <2>4. \A u \in Threads : u # t => Taken(u)' = Taken(u)
    BY <1>1, <2>1 DEF Taken
  <2> QED BY <2>2, <2>3, <2>4
<1>6. /\ Hands(t)' = Hands(t) \ {<<p, b>>} /\ <<p, b>> \in Hands(t)
      /\ \A u \in Threads : u # t => Hands(u)' = Hands(u)
  BY <1>1, <1>5 DEF Hands, Lists, Apart
<1>7. \A u \in Threads : <<p, b>> \notin Hands(u)'
  BY <1>6 DEF Lists, OneOwner
<1>8. b \notin Free(p)
  BY <1>1, <1>6 DEF Lists, OneOwner
<1>9. Chained(p)' /\ Free(p)' = Free(p) \cup {b}
  <2>1. IsChain(first[p], mb_next[p], list[p]) /\ b \notin Elems(list[p])
    BY <1>1, <1>4, <1>8, ChainedIs
  <2>2. /\ IsChain(b, mb_next[p], <<b>> \o list[p])
        /\ Elems(<<b>> \o list[p]) = Elems(list[p]) \cup {b}
    BY <2>1, <1>1, ChainCons
  <2> QED BY <2>2, <1>1, <1>2, ChainedIs
<1>10. \A q \in Pools : q # p => Free(q)' = Free(q)
  BY <1>2, ChainedIs
<1>11. OneOwner'
  <2>1. \A u, v \in Threads : u # v => Hands(u)' \cap Hands(v)' = {}
    BY <1>6 DEF Lists, OneOwner
  <2>2. ASSUME NEW u \in Threads, NEW q \in created, NEW c \in Free(q)'
        PROVE <<q, c>> \notin Hands(u)'
    <3>1. CASE q = p /\ c = b
      BY <3>1, <1>7
    <3>2. CASE ~(q = p /\ c = b)
      <4>1. c \in Free(q)
        BY <2>2, <3>2, <1>4, <1>9, <1>10
      <4> QED BY <4>1, <1>6 DEF Lists, OneOwner
    <3> QED BY <3>1, <3>2
  <2> QED BY <2>1, <2>2, <1>1 DEF OneOwner
<1>12. NoBlockLost'
  <2> SUFFICES ASSUME NEW q \in created, NEW c \in Blocks, c \notin Free(q)'
               PROVE \E u \in Threads : <<q, c>> \in Hands(u)'
    BY <1>1 DEF NoBlockLost
  <2>1. c \notin Free(q) /\ <<q, c>> # <<p, b>>
    BY <1>4, <1>9, <1>10
  <2>2. PICK u \in Threads : <<q, c>> \in Hands(u)
    BY <2>1 DEF Lists, NoBlockLost
  <2> QED BY <2>1, <2>2, <1>6
<1>13. Apart'
  BY <1>1, <1>5 DEF Lists, Apart
<1>14. \A u \in Threads : u # t => pc'[u] = pc[u] /\ pc[u] \notin Inside
  BY <1>1, Alone DEF Locked, TypeOK
<1>15. Relies'
  <2>1. \A u \in Threads : pc'[u] \notin {"get_next", "put_head"}
    BY <1>1, <1>14 DEF Locked, TypeOK, Inside
  <2> QED BY <2>1 DEF Relies
<1>16. \A q \in Pools : /\ ~Between(q, "get_count") /\ ~Between(q, "put_count")
                        /\ Between(q, "put_count")' <=> q = p
                        /\ ~Between(q, "get_count")'
  BY <1>1, <1>14 DEF Between, Inside, Locked, TypeOK
<1>17. ASSUME NEW q \in created PROVE CountRight(q)'
  <2>1. CASE q = p
    <3>1. CountRight(p) /\ ~Between(p, "get_count") /\ ~Between(p, "put_count")
      BY <1>1, <1>4, <1>16
    <3>2. Between(p, "put_count")' /\ ~Between(p, "get_count")'
      BY <1>1, <1>16
    <3>3. num_free[p] = Len(list[p]) /\ Len(list[p]) \in Nat
      BY <3>1, <1>3 DEF CountRight
    <3>4. num_free'[p] = Len(list'[p]) - 1 /\ Len(list'[p]) \in Nat
      BY <3>3, <1>1, <1>3
    <3> QED BY <2>1, <3>2, <3>4 DEF CountRight
  <2>2. CASE q # p
    BY <2>2, <1>1, <1>2, <1>4, <1>16 DEF CountRight
  <2> QED BY <2>1, <2>2
<1>18. ASSUME NEW q \in created PROVE Chained(q)'
  <2>1. CASE q # p
    BY <2>1, <1>1, <1>2, <1>4, ChainedIs
  <2> QED BY <2>1, <1>9
<1>19. FreeListIntact'
  BY <1>1, <1>17, <1>18 DEF FreeListIntact
<1> QED BY <1>11, <1>12, <1>13, <1>15, <1>19 DEF Lists

\* Steps by which no block changes hands and no list is touched.
LEMMA GetCallLists ==
    ASSUME Locked, Lists, NEW t \in Threads, NEW p \in Pools, GetCall(t, p)
    PROVE  Lists'
<1> USE DEF GetCall, ReadHandle, Goto, pool_vars
<1>1. \A k \in created, l \in Counting : Between(k, l)' <=> Between(k, l)
  BY DEF Between, Counting, Locked, TypeOK
<1>2. \A u \in Threads : Hands(u)' = Hands(u)
  BY PoolAssumption DEF Hands, Taken, Locked, TypeOK, Works, Blocks, Null
<1>3. Relies'
  BY Alone DEF Lists, Relies, Locked, TypeOK, Inside
<1>4. Apart'
  BY PoolAssumption DEF Lists, Apart, Taken, Locked, TypeOK, Works, Blocks, Null
<1>5. FreeListIntact' /\ OneOwner' /\ NoBlockLost'
  BY <1>1, <1>2, KeepLists, KeepOwners DEF Lists
<1> QED BY <1>3, <1>4, <1>5 DEF Lists

LEMMA GetEnterLists ==
    ASSUME Locked, Lists, NEW t \in Threads, GetEnter(t)
    PROVE  Lists'
<1> USE DEF GetEnter, TakeMutex, Goto, pool_vars
<1>1. \A p \in created, l \in Counting : Between(p, l)' <=> Between(p, l)
  BY DEF Between, Counting, Locked, TypeOK
<1>2. \A u \in Threads : Hands(u)' = Hands(u)
  BY PoolAssumption DEF Hands, Taken, Locked, TypeOK, Works, Blocks, Null
<1>3. Relies'
  BY Alone DEF Lists, Relies, Locked, TypeOK, Inside
<1>4. Apart'
  BY PoolAssumption DEF Lists, Apart, Taken, Locked, TypeOK, Works, Blocks, Null
<1>5. FreeListIntact' /\ OneOwner' /\ NoBlockLost'
  BY <1>1, <1>2, KeepLists, KeepOwners DEF Lists
<1> QED BY <1>3, <1>4, <1>5 DEF Lists

LEMMA PutEnterLists ==
    ASSUME Locked, Lists, NEW t \in Threads, PutEnter(t)
    PROVE  Lists'
<1> USE DEF PutEnter, TakeMutex, Goto, pool_vars
<1>1. \A p \in created, l \in Counting : Between(p, l)' <=> Between(p, l)
  BY DEF Between, Counting, Locked, TypeOK
<1>2. \A u \in Threads : Hands(u)' = Hands(u)
  BY PoolAssumption DEF Hands, Taken, Locked, TypeOK, Works, Blocks, Null
<1>3. Relies'
  BY Alone DEF Lists, Relies, Locked, TypeOK, Inside
<1>4. Apart'
  BY PoolAssumption DEF Lists, Apart, Taken, Locked, TypeOK, Works, Blocks, Null
<1>5. FreeListIntact' /\ OneOwner' /\ NoBlockLost'
  BY <1>1, <1>2, KeepLists, KeepOwners DEF Lists
<1> QED BY <1>3, <1>4, <1>5 DEF Lists

LEMMA GetHeadLists ==
    ASSUME Locked, Lists, NEW t \in Threads, GetHead(t)
    PROVE  Lists'
<1> USE DEF GetHead, Goto, pool_vars
<1>1. \A p \in created, l \in Counting : Between(p, l)' <=> Between(p, l)
  BY DEF Between, Counting, Locked, TypeOK
<1>2. \A u \in Threads : Hands(u)' = Hands(u)
  BY PoolAssumption DEF Hands, Taken, Locked, TypeOK, Works, Blocks, Null
<1>3. Relies'
  <2>1. \A u \in Threads : u # t => pc'[u] = pc[u] /\ pc[u] \notin Inside
    BY Alone DEF Locked, TypeOK, Inside
  <2>2. ASSUME NEW p, p = mp[t], num_free[p] # 0
        PROVE  Len(list[p]) # 0 /\ first[p] = list[p][1]
    <3>1. /\ p \in Pools /\ p \in created /\ Chained(p) /\ CountRight(p)
          /\ Len(list[p]) \in Nat
      BY <2>2 DEF Locked, TypeOK, Live, Lists, FreeListIntact
    <3>2. ~Between(p, "get_count") /\ ~Between(p, "put_count")
      BY <3>1, OnlyOne DEF Inside
    <3>3. num_free[p] = Len(list[p])
      BY <3>1, <3>2 DEF CountRight
    <3> QED BY <2>2, <3>1, <3>3 DEF Chained
  <2>3. pc'[t] = "get_next" => Len(list[mp[t]]) # 0 /\ block'[t] = list[mp[t]][1]
    BY <2>2 DEF Locked, TypeOK
  <2>4. pc'[t] # "put_head"
    BY DEF Locked, TypeOK
  <2> QED BY <2>1, <2>3, <2>4 DEF Relies, Inside
<1>4. Apart'
  BY PoolAssumption DEF Lists, Apart, Taken, Locked, TypeOK, Works, Blocks, Null
<1>5. FreeListIntact' /\ OneOwner' /\ NoBlockLost'
  BY <1>1, <1>2, KeepLists, KeepOwners DEF Lists
<1> QED BY <1>3, <1>4, <1>5 DEF Lists

LEMMA GetExitLists ==
    ASSUME Locked, Lists, NEW t \in Threads, GetExit(t)
    PROVE  Lists'
<1> USE DEF GetExit, GiveMutex, Goto, pool_vars
<1>1. \A p \in created, l \in Counting : Between(p, l)' <=> Between(p, l)
  BY DEF Between, Counting, Locked, TypeOK
<1>2. \A u \in Threads : Hands(u)' = Hands(u)
  BY PoolAssumption DEF Hands, Taken, Locked, TypeOK, Works, Blocks, Null
<1>3. Relies'
  BY Alone DEF Lists, Relies, Locked, TypeOK, Inside
<1>4. Apart'
  BY PoolAssumption DEF Lists, Apart, Taken, Locked, TypeOK, Works, Blocks, Null
<1>5. FreeListIntact' /\ OneOwner' /\ NoBlockLost'
  BY <1>1, <1>2, KeepLists, KeepOwners DEF Lists
<1> QED BY <1>3, <1>4, <1>5 DEF Lists

LEMMA PutExitLists ==
    ASSUME Locked, Lists, NEW t \in Threads, PutExit(t)
    PROVE  Lists'
<1> USE DEF PutExit, GiveMutex, Goto, pool_vars
<1>1. \A p \in created, l \in Counting : Between(p, l)' <=> Between(p, l)
  BY DEF Between, Counting, Locked, TypeOK
<1>2. \A u \in Threads : Hands(u)' = Hands(u)
  BY PoolAssumption DEF Hands, Taken, Locked, TypeOK, Works, Blocks, Null
<1>3. Relies'
  BY Alone DEF Lists, Relies, Locked, TypeOK, Inside
<1>4. Apart'
  BY PoolAssumption DEF Lists, Apart, Taken, Locked, TypeOK, Works, Blocks, Null
<1>5. FreeListIntact' /\ OneOwner' /\ NoBlockLost'
  BY <1>1, <1>2, KeepLists, KeepOwners DEF Lists
<1> QED BY <1>3, <1>4, <1>5 DEF Lists

LEMMA PutCallLists ==
    ASSUME Locked, Lists, NEW t \in Threads, NEW x \in held[t], PutCall(t, x)
    PROVE  Lists'
<1> USE DEF PutCall, ReadHandle, Goto, pool_vars
<1>1. x = <<x[1], x[2]>> /\ x[1] \in Pools /\ x[2] \in Blocks
  BY DEF Locked, TypeOK
<1>2. /\ pc'[t] = "put_enter" /\ mp'[t] = x[1] /\ block'[t] = x[2]
      /\ held'[t] = held[t] \ {x} /\ Taken(t) = {}
      /\ \A u \in Threads : u # t => /\ pc'[u] = pc[u] /\ mp'[u] = mp[u] /\ block'[u] = block[u]
                                     /\ held'[u] = held[u]
  BY <1>1 DEF Locked, TypeOK, Taken
<1>3. Taken(t)' = {x} /\ \A u \in Threads : u # t => Taken(u)' = Taken(u)
  BY <1>1, <1>2 DEF Taken
<1>4. \A p \in created, l \in Counting : Between(p, l)' <=> Between(p, l)
  BY DEF Between, Counting, Locked, TypeOK
<1>5. \A u \in Threads : Hands(u)' = Hands(u)
  BY <1>2, <1>3 DEF Hands
<1>6. Relies'
  BY Alone DEF Lists, Relies, Locked, TypeOK, Inside
<1>7. Apart'
  BY <1>2, <1>3 DEF Lists, Apart
<1>8. FreeListIntact' /\ OneOwner' /\ NoBlockLost'
  BY <1>4, <1>5, KeepLists, KeepOwners DEF Lists
<1> QED BY <1>6, <1>7, <1>8 DEF Lists

\* A buffer goes from the hands of one idle thread to those of another.
LEMMA PassOnLists ==
    ASSUME Locked, Lists, NEW t \in Threads, NEW u \in Threads, NEW x \in held[t],
           PassOn(t, u, x)
    PROVE  Lists'
<1>1. /\ t # u /\ pc[t] = "idle" /\ pc[u] = "idle"
      /\ held'[t] = held[t] \ {x} /\ held'[u] = held[u] \cup {x}
      /\ \A v \in Threads : v \notin {t, u} => held'[v] = held[v]
      /\ UNCHANGED <<created, pool_vars, pc, mp, block>>
  BY DEF PassOn, Locked, TypeOK
<1>2. Taken(t) = {} /\ Taken(u) = {} /\ \A v \in Threads : Taken(v)' = Taken(v)
  BY <1>1 DEF Taken
<1>3. /\ Hands(t)' = Hands(t) \ {x} /\ Hands(u)' = Hands(u) \cup {x} /\ x \in Hands(t)
      /\ \A v \in Threads : v \notin {t, u} => Hands(v)' = Hands(v)
  BY <1>1, <1>2 DEF Hands
<1>4. OneOwner'
  <2>1. \A v, w \in Threads : v # w => Hands(v)' \cap Hands(w)' = {}
    BY <1>1, <1>3 DEF Lists, OneOwner
  <2>2. \A v \in Threads : Hands(v)' \subseteq Hands(v) \cup Hands(t)
    BY <1>1, <1>3
  <2>3. list' = list /\ created' = created
    BY <1>1 DEF pool_vars
  <2>4. \A v \in Threads, p \in created : \A b \in Free(p)' : <<p, b>> \notin Hands(v)'
    <3>1. \A p : Free(p)' = Free(p)
      BY <2>3 DEF Free
    <3>2. \A v \in Threads, p \in created : \A b \in Free(p) : <<p, b>> \notin Hands(v)
      BY DEF Lists, OneOwner
    <3> QED BY <2>2, <3>1, <3>2
  <2> QED BY <2>1, <2>3, <2>4 DEF OneOwner
<1>5. NoBlockLost'
  <2>1. list' = list /\ created' = created
    BY <1>1 DEF pool_vars
  <2> SUFFICES ASSUME NEW q \in created, NEW c \in Blocks, c \notin Free(q)
               PROVE \E v \in Threads : <<q, c>> \in Hands(v)'
    BY <2>1 DEF NoBlockLost, Free
  <2>2. PICK v \in Threads : <<q, c>> \in Hands(v)
    BY DEF Lists, NoBlockLost
  <2> QED BY <1>1, <1>3, <2>2
<1>6. Apart'
  BY <1>1, <1>2 DEF Lists, Apart
<1>7. Relies'
  BY <1>1 DEF Lists, Relies, pool_vars
<1>8. \A p \in created, l \in Counting : Between(p, l)' <=> Between(p, l)
  BY <1>1 DEF Between
<1>9. FreeListIntact'
  BY <1>1, <1>8, KeepLists DEF Lists
<1> QED BY <1>4, <1>5, <1>6, <1>7, <1>9 DEF Lists

LEMMA DestroyLists ==
    ASSUME Locked, Lists, NEW p \in Pools, hosted_mempool_destroy(p)
    PROVE  Lists'
<1>1. UNCHANGED <<pool_vars, pc, mp, block, held>> /\ created' \subseteq created
  BY DEF hosted_mempool_destroy, pool_vars
<1>2. /\ \A q \in created, l \in Counting : Between(q, l)' <=> Between(q, l)
      /\ \A u \in Threads : Hands(u)' = Hands(u) /\ Taken(u)' = Taken(u)
  BY <1>1 DEF Between, Hands, Taken
<1>3. Relies' /\ Apart'
  BY <1>1, <1>2 DEF Lists, Relies, Apart, pool_vars
<1>4. FreeListIntact' /\ OneOwner' /\ NoBlockLost'
  BY <1>1, <1>2, KeepLists, KeepOwners DEF Lists, pool_vars
<1> QED BY <1>3, <1>4 DEF Lists

\* The block that is put back already points to the list, and nobody sees it yet.
LEMMA PutLinkLists ==
    ASSUME Locked, Lists, NEW t \in Threads, PutLink(t)
    PROVE  Lists'
<1> SUFFICES ASSUME NEW p, p = mp[t], NEW b, b = block[t] PROVE Lists'
  OBVIOUS
<1>1. /\ p \in Pools /\ p \in created /\ b \in Blocks /\ list[p] \in Seq(Blocks)
      /\ mb_next[p] \in Links /\ pc[t] = "put_link" /\ pc[t] \in Inside
      /\ pc'[t] = "put_head" /\ \A u \in Threads : u # t => pc'[u] = pc[u]
      /\ UNCHANGED <<created, first, num_free, list, mp, block, held>>
      /\ mb_next'[p] = [mb_next[p] EXCEPT ![b] = first[p]]
      /\ \A q \in Pools : q # p => mb_next'[q] = mb_next[q]
  BY DEF Locked, TypeOK, Live, Works, Inside, PutLink, Goto, Links
<1>2. /\ \A u \in Threads : Taken(u)' = Taken(u) /\ Hands(u)' = Hands(u)
      /\ <<p, b>> \in Hands(t)
  BY <1>1 DEF Taken, Hands
<1>3. b \notin Free(p)
  BY <1>1, <1>2 DEF Lists, OneOwner
<1>4. OneOwner' /\ NoBlockLost'
  BY <1>1, <1>2, KeepOwners DEF Lists
<1>5. Apart'
  BY <1>1, <1>2 DEF Lists, Apart
<1>6. \A u \in Threads : u # t => pc'[u] = pc[u] /\ pc[u] \notin Inside
  BY <1>1, Alone
<1>7. Relies'
  <2>1. mb_next'[p][b] = first[p]
    BY <1>1 DEF Links
  <2> QED BY <2>1, <1>1, <1>6 DEF Relies, Inside
<1>8. ASSUME NEW q \in created PROVE CountRight(q)'
  <2>1. /\ Between(q, "get_count")' <=> Between(q, "get_count")
        /\ Between(q, "put_count")' <=> Between(q, "put_count")
    BY <1>1 DEF Between
  <2>2. CountRight(q)
    BY DEF Lists, FreeListIntact
  <2> QED BY <2>1, <2>2, <1>1 DEF CountRight
<1>9. ASSUME NEW q \in created PROVE Chained(q)'
  <2>1. Chained(q) /\ q \in Pools
    BY DEF Lists, FreeListIntact, Locked, TypeOK
  <2>2. CASE q = p
    <3>1. IsChain(first[p], mb_next[p], list[p]) /\ b \notin Elems(list[p])
      BY <2>1, <2>2, <1>3, ChainedIs
    <3>2. IsChain(first[p], [mb_next[p] EXCEPT ![b] = first[p]], list[p])
      BY <3>1, <1>1, ChainLink
    <3> QED BY <2>2, <3>2, <1>1, ChainedIs
  <2>3. CASE q # p
    BY <2>1, <2>3, <1>1, ChainedIs
  <2> QED BY <2>2, <2>3
<1> QED BY <1>1, <1>4, <1>5, <1>7, <1>8, <1>9 DEF Lists, FreeListIntact

\* The counter catches up with the list.
LEMMA GetCountLists ==
    ASSUME Locked, Lists, NEW t \in Threads, GetCount(t)
    PROVE  Lists'
<1> SUFFICES ASSUME NEW p, p = mp[t] PROVE Lists'
  OBVIOUS
<1>1. /\ p \in Pools /\ p \in created /\ Len(list[p]) \in Nat
      /\ pc[t] = "get_count" /\ pc[t] \in Inside
      /\ pc'[t] = "get_exit" /\ \A u \in Threads : u # t => pc'[u] = pc[u]
      /\ UNCHANGED <<created, first, mb_next, list, mp, block, held>>
      /\ num_free'[p] = num_free[p] - 1 /\ \A q \in Pools : q # p => num_free'[q] = num_free[q]
  BY DEF Locked, TypeOK, Live, Inside, GetCount, Goto
<1>2. \A u \in Threads : Taken(u)' = Taken(u) /\ Hands(u)' = Hands(u)
  BY <1>1 DEF Taken, Hands
<1>3. OneOwner' /\ NoBlockLost' /\ Apart'
  BY <1>1, <1>2, KeepOwners DEF Lists, Apart
<1>4. \A u \in Threads : u # t => pc'[u] = pc[u] /\ pc[u] \notin Inside
  BY <1>1, Alone
<1>5. Relies'
  BY <1>1, <1>4 DEF Relies, Inside
<1>6. \A q \in Pools : /\ Between(q, "get_count") <=> q = p
                       /\ ~Between(q, "put_count")
                       /\ ~Between(q, "get_count")' /\ ~Between(q, "put_count")'
  BY <1>1, <1>4 DEF Between, Inside
<1>7. ASSUME NEW q \in created PROVE CountRight(q)'
  <2>1. CountRight(q) /\ q \in Pools
    BY DEF Lists, FreeListIntact, Locked, TypeOK
  <2>2. ~Between(q, "put_count") /\ ~Between(q, "get_count")' /\ ~Between(q, "put_count")'
    BY <2>1, <1>6
  <2>3. CASE q = p
    <3>1. Between(q, "get_count")
      BY <2>3, <1>1, <1>6
    <3>2. num_free[q] = Len(list[q]) + 1
      BY <2>1, <2>2, <2>3, <3>1, <1>1 DEF CountRight
    <3>3. num_free'[q] = Len(list'[q]) /\ Len(list'[q]) \in Nat
      BY <3>2, <2>3, <1>1
    <3> QED BY <3>3, <2>2 DEF CountRight
  <2>4. CASE q # p
    <3>1. ~Between(q, "get_count")
      BY <2>1, <2>4, <1>6
    <3> QED BY <3>1, <2>1, <2>2, <2>4, <1>1 DEF CountRight
  <2> QED BY <2>3, <2>4
<1>8. ASSUME NEW q \in created PROVE Chained(q)'
  <2>1. Chained(q) /\ q \in Pools
    BY DEF Lists, FreeListIntact, Locked, TypeOK
  <2> QED BY <2>1, <1>1, ChainedIs
<1> QED BY <1>1, <1>3, <1>5, <1>7, <1>8 DEF Lists, FreeListIntact

\* The same on the way back.
LEMMA PutCountLists ==
    ASSUME Locked, Lists, NEW t \in Threads, PutCount(t)
    PROVE  Lists'
<1> SUFFICES ASSUME NEW p, p = mp[t] PROVE Lists'
  OBVIOUS
<1>1. /\ p \in Pools /\ p \in created /\ Len(list[p]) \in Nat
      /\ pc[t] = "put_count" /\ pc[t] \in Inside
      /\ pc'[t] = "put_exit" /\ \A u \in Threads : u # t => pc'[u] = pc[u]
      /\ UNCHANGED <<created, first, mb_next, list, mp, block, held>>
      /\ num_free'[p] = num_free[p] + 1 /\ \A q \in Pools : q # p => num_free'[q] = num_free[q]
  BY DEF Locked, TypeOK, Live, Inside, PutCount, Goto
<1>2. \A u \in Threads : Taken(u)' = Taken(u) /\ Hands(u)' = Hands(u)
  BY <1>1 DEF Taken, Hands
<1>3. OneOwner' /\ NoBlockLost' /\ Apart'
  BY <1>1, <1>2, KeepOwners DEF Lists, Apart
<1>4. \A u \in Threads : u # t => pc'[u] = pc[u] /\ pc[u] \notin Inside
  BY <1>1, Alone
<1>5. Relies'
  BY <1>1, <1>4 DEF Relies, Inside
<1>6. \A q \in Pools : /\ Between(q, "put_count") <=> q = p
                       /\ ~Between(q, "get_count")
                       /\ ~Between(q, "get_count")' /\ ~Between(q, "put_count")'
  BY <1>1, <1>4 DEF Between, Inside
<1>7. ASSUME NEW q \in created PROVE CountRight(q)'
  <2>1. CountRight(q) /\ q \in Pools
    BY DEF Lists, FreeListIntact, Locked, TypeOK
  <2>2. ~Between(q, "get_count") /\ ~Between(q, "get_count")' /\ ~Between(q, "put_count")'
    BY <2>1, <1>6
  <2>3. CASE q = p
    <3>1. Between(q, "put_count")
      BY <2>3, <1>1, <1>6
    <3>2. num_free[q] = Len(list[q]) - 1
      BY <2>1, <2>2, <2>3, <3>1, <1>1 DEF CountRight
    <3>3. num_free'[q] = Len(list'[q]) /\ Len(list'[q]) \in Nat
      BY <3>2, <2>3, <1>1
    <3> QED BY <3>3, <2>2 DEF CountRight
  <2>4. CASE q # p
    <3>1. ~Between(q, "put_count")
      BY <2>1, <2>4, <1>6
    <3> QED BY <3>1, <2>1, <2>2, <2>4, <1>1 DEF CountRight
  <2> QED BY <2>3, <2>4
<1>8. ASSUME NEW q \in created PROVE Chained(q)'
  <2>1. Chained(q) /\ q \in Pools
    BY DEF Lists, FreeListIntact, Locked, TypeOK
  <2> QED BY <2>1, <1>1, ChainedIs
<1> QED BY <1>1, <1>3, <1>5, <1>7, <1>8 DEF Lists, FreeListIntact

LEMMA NextInv ==
    ASSUME ~CreateInUse, IInv, [Next]_vars
    PROVE  IInv'
<1>1. Locked'
  BY NextLocked DEF IInv
<1>2. CASE UNCHANGED vars
  <2>1. \A u \in Threads : Hands(u)' = Hands(u) /\ Taken(u)' = Taken(u)
    BY <1>2 DEF vars, Hands, Taken
  <2>2. \A q \in created, l \in Counting : Between(q, l)' <=> Between(q, l)
    BY <1>2 DEF vars, Between
  <2>3. FreeListIntact' /\ OneOwner' /\ NoBlockLost'
    BY <1>2, <2>1, <2>2, KeepLists, KeepOwners DEF vars, pool_vars, IInv, Lists
  <2>4. Relies' /\ Apart'
    BY <1>2, <2>1 DEF vars, IInv, Lists, Relies, Apart
  <2> QED BY <1>1, <2>3, <2>4 DEF IInv, Lists
<1>3. ASSUME NEW p \in Pools, hosted_mempool_create(p) \/ hosted_mempool_destroy(p)
      PROVE  Lists'
  BY <1>3, CreateLists, DestroyLists DEF IInv
<1>4. ASSUME NEW t \in Threads, Get(t) PROVE Lists'
  BY <1>4, GetCallLists, GetEnterLists, GetHeadLists, GetNextLists, GetCountLists, GetExitLists
     DEF IInv, Get
<1>5. ASSUME NEW t \in Threads, Put(t) PROVE Lists'
  BY <1>5, PutCallLists, PutEnterLists, PutLinkLists, PutHeadLists, PutCountLists, PutExitLists
     DEF IInv, Put
<1>6. ASSUME NEW t \in Threads, NEW u \in Threads, NEW x \in held[t], PassOn(t, u, x)
      PROVE  Lists'
  BY <1>6, PassOnLists DEF IInv
<1> QED BY <1>1, <1>2, <1>3, <1>4, <1>5, <1>6 DEF Next, IInv

LEMMA PoolInv == ASSUME CreateInUse = FALSE PROVE Spec => []IInv
<1>1. Init => IInv
  BY InitLocked, InitLists DEF IInv
<1>2. IInv /\ [Next]_vars => IInv'
  BY NextInv
<1> QED BY <1>1, <1>2, PTL DEF Spec

-----------------------------------------------------------------------------
(* The results: for any number of threads, pools and blocks, as long as    *)
(* pools are created only while no thread is inside an operation (every    *)
(* creation replaces the mutex all pools share).                           *)

\* os_memblock_get never hands out a block that a thread has or that is still on the free
\* list, and os_memblock_put makes none free that another thread has.
THEOREM NeverTwice == ASSUME CreateInUse = FALSE PROVE Spec => []OneOwner
<1>1. IInv => OneOwner
  BY DEF IInv, Lists
<1> QED BY <1>1, PoolInv, PTL

\* The links in the blocks form one chain without a cycle at every step of every thread, and
\* mp_num_free is its length but for the thread between the two assignments.
THEOREM ListsIntact == ASSUME CreateInUse = FALSE PROVE Spec => []FreeListIntact
<1>1. IInv => FreeListIntact
  BY DEF IInv, Lists
<1> QED BY <1>1, PoolInv, PTL

\* Every block of a pool is on its free list or in the hands of a thread.
THEOREM NothingLost == ASSUME CreateInUse = FALSE PROVE Spec => []NoBlockLost
<1>1. IInv => NoBlockLost
  BY DEF IInv, Lists
<1> QED BY <1>1, PoolInv, PTL

=============================================================================
