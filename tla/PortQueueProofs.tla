-------------------------- MODULE PortQueueProofs --------------------------
(***************************************************************************)
(* The queue of the JL port, for any number of senders and receivers and   *)
(* any capacity: as long as it is not reset in the middle of an operation  *)
(* its counts agree and it implements BoundedFifo.                         *)
(***************************************************************************)
EXTENDS PortQueue, FiniteSetTheorems, SequenceTheorems, TLAPS

-----------------------------------------------------------------------------
(* The inductive invariant.                                                *)

Locking == {"send_check", "send_add", "recv_read", "recv_remove"}

\* The mutex belongs to the thread that is inside the ring.
Holder == \A t \in Threads : pc[t] \in Locking <=> mutex = t

\* A thread is inside the operation its role calls.
Roles ==
    /\ \A t \in Senders : pc[t] \in {"idle", "send_lock", "send_check", "send_add",
                                     "send_signal", "send_wait"}
    /\ \A t \in Receivers : pc[t] \in {"idle", "recv_wait", "recv_lock", "recv_read",
                                       "recv_remove"}
    /\ \A t \in Receivers : pc[t] \in {"recv_wait", "recv_lock", "recv_read"} => item[t] = NoItem

\* The tail is count slots ahead of the head.
Ahead == tail = IF head + count < capacity THEN head + count ELSE head + count - capacity

\* What was copied into or out of the ring is still what the ring holds.
Copied ==
    \A t \in Threads :
        /\ pc[t] = "send_add" => count < capacity /\ buf[tail] = item[t]
        /\ pc[t] = "recv_remove" => item[t] = buf[head]

IInv == TypeOK /\ Holder /\ Roles /\ Ahead /\ Copied /\ SemCountsItems

-----------------------------------------------------------------------------
(* Facts about the helpers.                                                *)

LEMMA WrapValue ==
    ASSUME NEW i \in Slots
    PROVE  Wrap(i) = IF i + 1 < capacity THEN i + 1 ELSE 0
<1>1. CASE i + 1 < capacity
  BY <1>1, QueueAssumption DEF Wrap, Slots
<1>2. CASE i + 1 = capacity
  BY <1>2, QueueAssumption DEF Wrap, Slots
<1> QED BY <1>1, <1>2, QueueAssumption DEF Slots

LEMMA FiniteThreads ==
    /\ IsFiniteSet(Threads)
    /\ IsFiniteSet(Signalling) /\ IsFiniteSet(Taking)
    /\ Cardinality(Signalling) \in Nat /\ Cardinality(Taking) \in Nat
<1>1. IsFiniteSet(Threads)
  BY QueueAssumption, FS_Union DEF Threads
<1>2. Signalling \in SUBSET Threads /\ Taking \in SUBSET Threads
  BY DEF Signalling, Taking
<1>3. IsFiniteSet(Signalling) /\ IsFiniteSet(Taking)
  BY <1>1, <1>2, FS_Subset
<1> QED BY <1>1, <1>3, FS_CardinalityType

\* How the two groups of threads that stand between the counts change when one thread moves.
LEMMA Moves ==
    ASSUME TypeOK, NEW t \in Threads, NEW l, Goto(t, l)
    PROVE  /\ Cardinality(Signalling)' = Cardinality(Signalling)
                 + (IF l = "send_signal" THEN 1 ELSE 0) - (IF pc[t] = "send_signal" THEN 1 ELSE 0)
           /\ Cardinality(Taking)' = Cardinality(Taking)
                 + (IF l \in {"recv_lock", "recv_read", "recv_remove"} THEN 1 ELSE 0)
                 - (IF pc[t] \in {"recv_lock", "recv_read", "recv_remove"} THEN 1 ELSE 0)
<1> DEFINE inside == {"recv_lock", "recv_read", "recv_remove"}
<1>1. Signalling' = IF l = "send_signal" THEN Signalling \cup {t} ELSE Signalling \ {t}
  BY DEF Signalling, Goto, TypeOK
<1>2. Taking' = IF l \in inside THEN Taking \cup {t} ELSE Taking \ {t}
  BY DEF Taking, Goto, TypeOK
<1>3. (t \in Signalling <=> pc[t] = "send_signal") /\ (t \in Taking <=> pc[t] \in inside)
  BY DEF Signalling, Taking
<1>4. /\ Cardinality(Signalling \cup {t}) = IF t \in Signalling THEN Cardinality(Signalling)
                                                             ELSE Cardinality(Signalling) + 1
      /\ Cardinality(Signalling \ {t}) = IF t \in Signalling THEN Cardinality(Signalling) - 1
                                                           ELSE Cardinality(Signalling)
      /\ Cardinality(Taking \cup {t}) = IF t \in Taking THEN Cardinality(Taking)
                                                     ELSE Cardinality(Taking) + 1
      /\ Cardinality(Taking \ {t}) = IF t \in Taking THEN Cardinality(Taking) - 1
                                                   ELSE Cardinality(Taking)
  BY FiniteThreads, FS_AddElement, FS_RemoveElement
<1>5. Cardinality(Signalling)' = Cardinality(Signalling')
      /\ Cardinality(Taking)' = Cardinality(Taking')
  OBVIOUS
<1> HIDE DEF inside
<1>6. /\ Cardinality(Signalling)' = Cardinality(Signalling)
           + (IF l = "send_signal" THEN 1 ELSE 0) - (IF pc[t] = "send_signal" THEN 1 ELSE 0)
  BY <1>1, <1>3, <1>4, <1>5, FiniteThreads
<1>7. /\ Cardinality(Taking)' = Cardinality(Taking)
           + (IF l \in inside THEN 1 ELSE 0) - (IF pc[t] \in inside THEN 1 ELSE 0)
  BY <1>2, <1>3, <1>4, <1>5, FiniteThreads
<1> QED BY <1>6, <1>7 DEF inside

\* A thread in one of the two groups is counted.
LEMMA Counted ==
    ASSUME IInv, NEW t \in Threads
    PROVE  /\ count \in Nat /\ sem \in Nat /\ sem <= count
           /\ pc[t] = "send_signal" => sem < count
           /\ t \in Taking => count > 0 /\ sem < count
<1>1. (t \in Signalling => Cardinality(Signalling) # 0) /\ (t \in Taking => Cardinality(Taking) # 0)
  BY FiniteThreads, FS_EmptySet
<1>2. pc[t] = "send_signal" => t \in Signalling
  BY DEF Signalling
<1> QED BY <1>1, <1>2, FiniteThreads, QueueAssumption DEF IInv, SemCountsItems, TypeOK

-----------------------------------------------------------------------------
(* Every step keeps the invariant.                                         *)

LEMMA InitInv == Init => IInv
<1> SUFFICES ASSUME Init PROVE IInv
  OBVIOUS
<1>1. TypeOK /\ Holder /\ Roles /\ Ahead /\ Copied
  BY QueueAssumption DEF Init, TypeOK, Holder, Roles, Ahead, Copied, Locking, Labels, Timeouts,
                         Slots, Threads
<1>2. Signalling = {} /\ Taking = {}
  BY DEF Init, Signalling, Taking
<1>3. SemCountsItems
  BY <1>2, FS_EmptySet DEF Init, SemCountsItems
<1> QED BY <1>1, <1>3 DEF IInv

LEMMA SendCallInv ==
    ASSUME IInv, NEW t \in Senders, \E x \in Items, w \in Timeouts : SendCall(t, x, w)
    PROVE  IInv'
<1>0. t \in Threads
  BY DEF Threads
<1>1. Holder' /\ Roles'
  BY <1>0, QueueAssumption DEF IInv, TypeOK, Holder, Roles, Locking, Threads, ring,
     SendCall, Goto
<1>2. TypeOK' /\ Ahead'
  BY <1>0, Counted, QueueAssumption DEF IInv, TypeOK, Holder, Roles, Ahead, Copied, Locking, Labels,
     Timeouts, Slots, Taking, ring,
     SendCall, Goto
<1>3. Copied'
  BY <1>0, Counted, QueueAssumption DEF IInv, TypeOK, Holder, Copied, Ahead, Locking, Slots, Taking, ring,
     SendCall, Goto
<1>4. SemCountsItems'
  <2>1. Goto(t, "send_lock")
    BY DEF SendCall
  <2>2. /\ Cardinality(Signalling)' = Cardinality(Signalling)
             + (IF "send_lock" = "send_signal" THEN 1 ELSE 0) - (IF pc[t] = "send_signal" THEN 1 ELSE 0)
        /\ Cardinality(Taking)' = Cardinality(Taking)
             + (IF "send_lock" \in {"recv_lock", "recv_read", "recv_remove"} THEN 1 ELSE 0)
             - (IF pc[t] \in {"recv_lock", "recv_read", "recv_remove"} THEN 1 ELSE 0)
    BY <1>0, <2>1, Moves DEF IInv
  <2> QED BY <2>2, FiniteThreads DEF IInv, TypeOK, SemCountsItems, ring, SendCall
<1> QED BY <1>1, <1>2, <1>3, <1>4 DEF IInv

LEMMA SendLockInv ==
    ASSUME IInv, NEW t \in Senders, SendLock(t)
    PROVE  IInv'
<1>0. t \in Threads
  BY DEF Threads
<1>1. Holder' /\ Roles'
  BY <1>0, QueueAssumption DEF IInv, TypeOK, Holder, Roles, Locking, Threads, ring,
     SendLock, Acquire, Goto
<1>2. TypeOK' /\ Ahead'
  BY <1>0, Counted, QueueAssumption DEF IInv, TypeOK, Holder, Roles, Ahead, Copied, Locking, Labels,
     Timeouts, Slots, Taking, ring,
     SendLock, Acquire, Goto
<1>3. Copied'
  BY <1>0, Counted, QueueAssumption DEF IInv, TypeOK, Holder, Copied, Ahead, Locking, Slots, Taking, ring,
     SendLock, Acquire, Goto
<1>4. SemCountsItems'
  <2>1. Goto(t, "send_check")
    BY DEF SendLock
  <2>2. /\ Cardinality(Signalling)' = Cardinality(Signalling)
             + (IF "send_check" = "send_signal" THEN 1 ELSE 0) - (IF pc[t] = "send_signal" THEN 1 ELSE 0)
        /\ Cardinality(Taking)' = Cardinality(Taking)
             + (IF "send_check" \in {"recv_lock", "recv_read", "recv_remove"} THEN 1 ELSE 0)
             - (IF pc[t] \in {"recv_lock", "recv_read", "recv_remove"} THEN 1 ELSE 0)
    BY <1>0, <2>1, Moves DEF IInv
  <2> QED BY <2>2, FiniteThreads DEF IInv, TypeOK, SemCountsItems, ring, SendLock
<1> QED BY <1>1, <1>2, <1>3, <1>4 DEF IInv

LEMMA SendLockTimeoutInv ==
    ASSUME IInv, NEW t \in Senders, SendLockTimeout(t)
    PROVE  IInv'
<1>0. t \in Threads
  BY DEF Threads
<1>1. Holder' /\ Roles'
  BY <1>0, QueueAssumption DEF IInv, TypeOK, Holder, Roles, Locking, Threads, ring,
     SendLockTimeout, Goto
<1>2. TypeOK' /\ Ahead'
  BY <1>0, Counted, QueueAssumption DEF IInv, TypeOK, Holder, Roles, Ahead, Copied, Locking, Labels,
     Timeouts, Slots, Taking, ring,
     SendLockTimeout, Goto
<1>3. Copied'
  BY <1>0, Counted, QueueAssumption DEF IInv, TypeOK, Holder, Copied, Ahead, Locking, Slots, Taking, ring,
     SendLockTimeout, Goto
<1>4. SemCountsItems'
  <2>1. Goto(t, "idle")
    BY DEF SendLockTimeout
  <2>2. /\ Cardinality(Signalling)' = Cardinality(Signalling)
             + (IF "idle" = "send_signal" THEN 1 ELSE 0) - (IF pc[t] = "send_signal" THEN 1 ELSE 0)
        /\ Cardinality(Taking)' = Cardinality(Taking)
             + (IF "idle" \in {"recv_lock", "recv_read", "recv_remove"} THEN 1 ELSE 0)
             - (IF pc[t] \in {"recv_lock", "recv_read", "recv_remove"} THEN 1 ELSE 0)
    BY <1>0, <2>1, Moves DEF IInv
  <2> QED BY <2>2, FiniteThreads DEF IInv, TypeOK, SemCountsItems, ring, SendLockTimeout
<1> QED BY <1>1, <1>2, <1>3, <1>4 DEF IInv

LEMMA SendWriteInv ==
    ASSUME IInv, NEW t \in Senders, SendWrite(t)
    PROVE  IInv'
<1>0. t \in Threads
  BY DEF Threads
<1>1. Holder' /\ Roles'
  BY <1>0, QueueAssumption DEF IInv, TypeOK, Holder, Roles, Locking, Threads, ring,
     SendWrite, Goto
<1>2. TypeOK' /\ Ahead'
  BY <1>0, Counted, QueueAssumption DEF IInv, TypeOK, Holder, Roles, Ahead, Copied, Locking, Labels,
     Timeouts, Slots, Taking, ring,
     SendWrite, Goto
<1>3. Copied'
  BY <1>0, Counted, QueueAssumption DEF IInv, TypeOK, Holder, Copied, Ahead, Locking, Slots, Taking, ring,
     SendWrite, Goto
<1>4. SemCountsItems'
  <2>1. Goto(t, "send_add")
    BY DEF SendWrite
  <2>2. /\ Cardinality(Signalling)' = Cardinality(Signalling)
             + (IF "send_add" = "send_signal" THEN 1 ELSE 0) - (IF pc[t] = "send_signal" THEN 1 ELSE 0)
        /\ Cardinality(Taking)' = Cardinality(Taking)
             + (IF "send_add" \in {"recv_lock", "recv_read", "recv_remove"} THEN 1 ELSE 0)
             - (IF pc[t] \in {"recv_lock", "recv_read", "recv_remove"} THEN 1 ELSE 0)
    BY <1>0, <2>1, Moves DEF IInv
  <2> QED BY <2>2, FiniteThreads DEF IInv, TypeOK, SemCountsItems, ring, SendWrite
<1> QED BY <1>1, <1>2, <1>3, <1>4 DEF IInv

LEMMA SendAddInv ==
    ASSUME IInv, NEW t \in Senders, SendAdd(t)
    PROVE  IInv'
<1>0. t \in Threads
  BY DEF Threads
<1>1. Holder' /\ Roles'
  BY <1>0, QueueAssumption DEF IInv, TypeOK, Holder, Roles, Locking, Threads, ring,
     SendAdd, Release, Goto
<1>2. TypeOK' /\ Ahead'
  BY <1>0, Counted, WrapValue, QueueAssumption DEF IInv, TypeOK, Holder, Roles, Ahead, Copied, Locking, Labels,
     Timeouts, Slots, Taking, ring,
     SendAdd, Release, Goto
<1>3. Copied'
  BY <1>0, Counted, WrapValue, QueueAssumption DEF IInv, TypeOK, Holder, Copied, Ahead, Locking, Slots, Taking, ring,
     SendAdd, Release, Goto
<1>4. SemCountsItems'
  <2>1. Goto(t, "send_signal")
    BY DEF SendAdd
  <2>2. /\ Cardinality(Signalling)' = Cardinality(Signalling)
             + (IF "send_signal" = "send_signal" THEN 1 ELSE 0) - (IF pc[t] = "send_signal" THEN 1 ELSE 0)
        /\ Cardinality(Taking)' = Cardinality(Taking)
             + (IF "send_signal" \in {"recv_lock", "recv_read", "recv_remove"} THEN 1 ELSE 0)
             - (IF pc[t] \in {"recv_lock", "recv_read", "recv_remove"} THEN 1 ELSE 0)
    BY <1>0, <2>1, Moves DEF IInv
  <2> QED BY <2>2, FiniteThreads DEF IInv, TypeOK, SemCountsItems, ring, SendAdd
<1> QED BY <1>1, <1>2, <1>3, <1>4 DEF IInv

LEMMA SendSignalInv ==
    ASSUME IInv, NEW t \in Senders, SendSignal(t)
    PROVE  IInv'
<1>0. t \in Threads
  BY DEF Threads
<1>1. Holder' /\ Roles'
  BY <1>0, QueueAssumption DEF IInv, TypeOK, Holder, Roles, Locking, Threads, ring,
     SendSignal, Goto
<1>2. TypeOK' /\ Ahead'
  BY <1>0, Counted, QueueAssumption DEF IInv, TypeOK, Holder, Roles, Ahead, Copied, Locking, Labels,
     Timeouts, Slots, Taking, ring,
     SendSignal, Goto
<1>3. Copied'
  BY <1>0, Counted, QueueAssumption DEF IInv, TypeOK, Holder, Copied, Ahead, Locking, Slots, Taking, ring,
     SendSignal, Goto
<1>4. SemCountsItems'
  <2>1. Goto(t, "idle")
    BY DEF SendSignal
  <2>2. /\ Cardinality(Signalling)' = Cardinality(Signalling)
             + (IF "idle" = "send_signal" THEN 1 ELSE 0) - (IF pc[t] = "send_signal" THEN 1 ELSE 0)
        /\ Cardinality(Taking)' = Cardinality(Taking)
             + (IF "idle" \in {"recv_lock", "recv_read", "recv_remove"} THEN 1 ELSE 0)
             - (IF pc[t] \in {"recv_lock", "recv_read", "recv_remove"} THEN 1 ELSE 0)
    BY <1>0, <2>1, Moves DEF IInv
  <2> QED BY <2>2, FiniteThreads DEF IInv, TypeOK, SemCountsItems, ring, SendSignal
<1> QED BY <1>1, <1>2, <1>3, <1>4 DEF IInv

LEMMA SendFullInv ==
    ASSUME IInv, NEW t \in Senders, SendFull(t)
    PROVE  IInv'
<1>0. t \in Threads
  BY DEF Threads
<1>1. Holder' /\ Roles'
  BY <1>0, QueueAssumption DEF IInv, TypeOK, Holder, Roles, Locking, Threads, ring,
     SendFull, Release, Goto
<1>2. TypeOK' /\ Ahead'
  BY <1>0, Counted, QueueAssumption DEF IInv, TypeOK, Holder, Roles, Ahead, Copied, Locking, Labels,
     Timeouts, Slots, Taking, ring,
     SendFull, Release, Goto
<1>3. Copied'
  BY <1>0, Counted, QueueAssumption DEF IInv, TypeOK, Holder, Copied, Ahead, Locking, Slots, Taking, ring,
     SendFull, Release, Goto
<1>4. SemCountsItems'
  <2>1. Goto(t, "send_wait")
    BY DEF SendFull
  <2>2. /\ Cardinality(Signalling)' = Cardinality(Signalling)
             + (IF "send_wait" = "send_signal" THEN 1 ELSE 0) - (IF pc[t] = "send_signal" THEN 1 ELSE 0)
        /\ Cardinality(Taking)' = Cardinality(Taking)
             + (IF "send_wait" \in {"recv_lock", "recv_read", "recv_remove"} THEN 1 ELSE 0)
             - (IF pc[t] \in {"recv_lock", "recv_read", "recv_remove"} THEN 1 ELSE 0)
    BY <1>0, <2>1, Moves DEF IInv
  <2> QED BY <2>2, FiniteThreads DEF IInv, TypeOK, SemCountsItems, ring, SendFull
<1> QED BY <1>1, <1>2, <1>3, <1>4 DEF IInv

LEMMA SendGiveUpInv ==
    ASSUME IInv, NEW t \in Senders, SendGiveUp(t)
    PROVE  IInv'
<1>0. t \in Threads
  BY DEF Threads
<1>1. Holder' /\ Roles'
  BY <1>0, QueueAssumption DEF IInv, TypeOK, Holder, Roles, Locking, Threads, ring,
     SendGiveUp, Goto
<1>2. TypeOK' /\ Ahead'
  BY <1>0, Counted, QueueAssumption DEF IInv, TypeOK, Holder, Roles, Ahead, Copied, Locking, Labels,
     Timeouts, Slots, Taking, ring,
     SendGiveUp, Goto
<1>3. Copied'
  BY <1>0, Counted, QueueAssumption DEF IInv, TypeOK, Holder, Copied, Ahead, Locking, Slots, Taking, ring,
     SendGiveUp, Goto
<1>4. SemCountsItems'
  <2>1. Goto(t, "idle")
    BY DEF SendGiveUp
  <2>2. /\ Cardinality(Signalling)' = Cardinality(Signalling)
             + (IF "idle" = "send_signal" THEN 1 ELSE 0) - (IF pc[t] = "send_signal" THEN 1 ELSE 0)
        /\ Cardinality(Taking)' = Cardinality(Taking)
             + (IF "idle" \in {"recv_lock", "recv_read", "recv_remove"} THEN 1 ELSE 0)
             - (IF pc[t] \in {"recv_lock", "recv_read", "recv_remove"} THEN 1 ELSE 0)
    BY <1>0, <2>1, Moves DEF IInv
  <2> QED BY <2>2, FiniteThreads DEF IInv, TypeOK, SemCountsItems, ring, SendGiveUp
<1> QED BY <1>1, <1>2, <1>3, <1>4 DEF IInv

LEMMA SendRetryInv ==
    ASSUME IInv, NEW t \in Senders, SendRetry(t)
    PROVE  IInv'
<1>0. t \in Threads
  BY DEF Threads
<1>1. Holder' /\ Roles'
  BY <1>0, QueueAssumption DEF IInv, TypeOK, Holder, Roles, Locking, Threads, ring,
     SendRetry, Goto
<1>2. TypeOK' /\ Ahead'
  BY <1>0, Counted, QueueAssumption DEF IInv, TypeOK, Holder, Roles, Ahead, Copied, Locking, Labels,
     Timeouts, Slots, Taking, ring,
     SendRetry, Goto
<1>3. Copied'
  BY <1>0, Counted, QueueAssumption DEF IInv, TypeOK, Holder, Copied, Ahead, Locking, Slots, Taking, ring,
     SendRetry, Goto
<1>4. SemCountsItems'
  <2>1. Goto(t, "send_lock")
    BY DEF SendRetry
  <2>2. /\ Cardinality(Signalling)' = Cardinality(Signalling)
             + (IF "send_lock" = "send_signal" THEN 1 ELSE 0) - (IF pc[t] = "send_signal" THEN 1 ELSE 0)
        /\ Cardinality(Taking)' = Cardinality(Taking)
             + (IF "send_lock" \in {"recv_lock", "recv_read", "recv_remove"} THEN 1 ELSE 0)
             - (IF pc[t] \in {"recv_lock", "recv_read", "recv_remove"} THEN 1 ELSE 0)
    BY <1>0, <2>1, Moves DEF IInv
  <2> QED BY <2>2, FiniteThreads DEF IInv, TypeOK, SemCountsItems, ring, SendRetry
<1> QED BY <1>1, <1>2, <1>3, <1>4 DEF IInv

LEMMA RecvCallInv ==
    ASSUME IInv, NEW t \in Receivers, \E w \in Timeouts : RecvCall(t, w)
    PROVE  IInv'
<1>0. t \in Threads
  BY DEF Threads
<1>1. Holder' /\ Roles'
  BY <1>0, QueueAssumption DEF IInv, TypeOK, Holder, Roles, Locking, Threads, ring,
     RecvCall, Goto
<1>2. TypeOK' /\ Ahead'
  BY <1>0, Counted, QueueAssumption DEF IInv, TypeOK, Holder, Roles, Ahead, Copied, Locking, Labels,
     Timeouts, Slots, Taking, ring,
     RecvCall, Goto
<1>3. Copied'
  BY <1>0, Counted, QueueAssumption DEF IInv, TypeOK, Holder, Copied, Ahead, Locking, Slots, Taking, ring,
     RecvCall, Goto
<1>4. SemCountsItems'
  <2>1. Goto(t, "recv_wait")
    BY DEF RecvCall
  <2>2. /\ Cardinality(Signalling)' = Cardinality(Signalling)
             + (IF "recv_wait" = "send_signal" THEN 1 ELSE 0) - (IF pc[t] = "send_signal" THEN 1 ELSE 0)
        /\ Cardinality(Taking)' = Cardinality(Taking)
             + (IF "recv_wait" \in {"recv_lock", "recv_read", "recv_remove"} THEN 1 ELSE 0)
             - (IF pc[t] \in {"recv_lock", "recv_read", "recv_remove"} THEN 1 ELSE 0)
    BY <1>0, <2>1, Moves DEF IInv
  <2> QED BY <2>2, FiniteThreads DEF IInv, TypeOK, SemCountsItems, ring, RecvCall
<1> QED BY <1>1, <1>2, <1>3, <1>4 DEF IInv

LEMMA RecvTimeoutInv ==
    ASSUME IInv, NEW t \in Receivers, RecvTimeout(t)
    PROVE  IInv'
<1>0. t \in Threads
  BY DEF Threads
<1>1. Holder' /\ Roles'
  BY <1>0, QueueAssumption DEF IInv, TypeOK, Holder, Roles, Locking, Threads, ring,
     RecvTimeout, Goto
<1>2. TypeOK' /\ Ahead'
  BY <1>0, Counted, QueueAssumption DEF IInv, TypeOK, Holder, Roles, Ahead, Copied, Locking, Labels,
     Timeouts, Slots, Taking, ring,
     RecvTimeout, Goto
<1>3. Copied'
  BY <1>0, Counted, QueueAssumption DEF IInv, TypeOK, Holder, Copied, Ahead, Locking, Slots, Taking, ring,
     RecvTimeout, Goto
<1>4. SemCountsItems'
  <2>1. Goto(t, "idle")
    BY DEF RecvTimeout
  <2>2. /\ Cardinality(Signalling)' = Cardinality(Signalling)
             + (IF "idle" = "send_signal" THEN 1 ELSE 0) - (IF pc[t] = "send_signal" THEN 1 ELSE 0)
        /\ Cardinality(Taking)' = Cardinality(Taking)
             + (IF "idle" \in {"recv_lock", "recv_read", "recv_remove"} THEN 1 ELSE 0)
             - (IF pc[t] \in {"recv_lock", "recv_read", "recv_remove"} THEN 1 ELSE 0)
    BY <1>0, <2>1, Moves DEF IInv
  <2> QED BY <2>2, FiniteThreads DEF IInv, TypeOK, SemCountsItems, ring, RecvTimeout
<1> QED BY <1>1, <1>2, <1>3, <1>4 DEF IInv

LEMMA RecvWaitInv ==
    ASSUME IInv, NEW t \in Receivers, RecvWait(t)
    PROVE  IInv'
<1>0. t \in Threads
  BY DEF Threads
<1>1. Holder' /\ Roles'
  BY <1>0, QueueAssumption DEF IInv, TypeOK, Holder, Roles, Locking, Threads, ring,
     RecvWait, Goto
<1>2. TypeOK' /\ Ahead'
  BY <1>0, Counted, QueueAssumption DEF IInv, TypeOK, Holder, Roles, Ahead, Copied, Locking, Labels,
     Timeouts, Slots, Taking, ring,
     RecvWait, Goto
<1>3. Copied'
  BY <1>0, Counted, QueueAssumption DEF IInv, TypeOK, Holder, Copied, Ahead, Locking, Slots, Taking, ring,
     RecvWait, Goto
<1>4. SemCountsItems'
  <2>1. Goto(t, "recv_lock")
    BY DEF RecvWait
  <2>2. /\ Cardinality(Signalling)' = Cardinality(Signalling)
             + (IF "recv_lock" = "send_signal" THEN 1 ELSE 0) - (IF pc[t] = "send_signal" THEN 1 ELSE 0)
        /\ Cardinality(Taking)' = Cardinality(Taking)
             + (IF "recv_lock" \in {"recv_lock", "recv_read", "recv_remove"} THEN 1 ELSE 0)
             - (IF pc[t] \in {"recv_lock", "recv_read", "recv_remove"} THEN 1 ELSE 0)
    BY <1>0, <2>1, Moves DEF IInv
  <2> QED BY <2>2, FiniteThreads DEF IInv, TypeOK, SemCountsItems, ring, RecvWait
<1> QED BY <1>1, <1>2, <1>3, <1>4 DEF IInv

LEMMA RecvLockInv ==
    ASSUME IInv, NEW t \in Receivers, RecvLock(t)
    PROVE  IInv'
<1>0. t \in Threads
  BY DEF Threads
<1>1. Holder' /\ Roles'
  BY <1>0, QueueAssumption DEF IInv, TypeOK, Holder, Roles, Locking, Threads, ring,
     RecvLock, Acquire, Goto
<1>2. TypeOK' /\ Ahead'
  BY <1>0, Counted, QueueAssumption DEF IInv, TypeOK, Holder, Roles, Ahead, Copied, Locking, Labels,
     Timeouts, Slots, Taking, ring,
     RecvLock, Acquire, Goto
<1>3. Copied'
  BY <1>0, Counted, QueueAssumption DEF IInv, TypeOK, Holder, Copied, Ahead, Locking, Slots, Taking, ring,
     RecvLock, Acquire, Goto
<1>4. SemCountsItems'
  <2>1. Goto(t, "recv_read")
    BY DEF RecvLock
  <2>2. /\ Cardinality(Signalling)' = Cardinality(Signalling)
             + (IF "recv_read" = "send_signal" THEN 1 ELSE 0) - (IF pc[t] = "send_signal" THEN 1 ELSE 0)
        /\ Cardinality(Taking)' = Cardinality(Taking)
             + (IF "recv_read" \in {"recv_lock", "recv_read", "recv_remove"} THEN 1 ELSE 0)
             - (IF pc[t] \in {"recv_lock", "recv_read", "recv_remove"} THEN 1 ELSE 0)
    BY <1>0, <2>1, Moves DEF IInv
  <2> QED BY <2>2, FiniteThreads DEF IInv, TypeOK, SemCountsItems, ring, RecvLock
<1> QED BY <1>1, <1>2, <1>3, <1>4 DEF IInv

LEMMA RecvReadInv ==
    ASSUME IInv, NEW t \in Receivers, RecvRead(t)
    PROVE  IInv'
<1>0. t \in Threads
  BY DEF Threads
<1>1. Holder' /\ Roles'
  BY <1>0, QueueAssumption DEF IInv, TypeOK, Holder, Roles, Locking, Threads, ring,
     RecvRead, Goto
<1>2. TypeOK' /\ Ahead'
  BY <1>0, Counted, QueueAssumption DEF IInv, TypeOK, Holder, Roles, Ahead, Copied, Locking, Labels,
     Timeouts, Slots, Taking, ring,
     RecvRead, Goto
<1>3. Copied'
  BY <1>0, Counted, QueueAssumption DEF IInv, TypeOK, Holder, Copied, Ahead, Locking, Slots, Taking, ring,
     RecvRead, Goto
<1>4. SemCountsItems'
  <2>1. Goto(t, "recv_remove")
    BY DEF RecvRead
  <2>2. /\ Cardinality(Signalling)' = Cardinality(Signalling)
             + (IF "recv_remove" = "send_signal" THEN 1 ELSE 0) - (IF pc[t] = "send_signal" THEN 1 ELSE 0)
        /\ Cardinality(Taking)' = Cardinality(Taking)
             + (IF "recv_remove" \in {"recv_lock", "recv_read", "recv_remove"} THEN 1 ELSE 0)
             - (IF pc[t] \in {"recv_lock", "recv_read", "recv_remove"} THEN 1 ELSE 0)
    BY <1>0, <2>1, Moves DEF IInv
  <2> QED BY <2>2, FiniteThreads DEF IInv, TypeOK, SemCountsItems, ring, RecvRead
<1> QED BY <1>1, <1>2, <1>3, <1>4 DEF IInv

LEMMA RecvRemoveInv ==
    ASSUME IInv, NEW t \in Receivers, RecvRemove(t)
    PROVE  IInv'
<1>0. t \in Threads
  BY DEF Threads
<1>1. Holder' /\ Roles'
  BY <1>0, QueueAssumption DEF IInv, TypeOK, Holder, Roles, Locking, Threads, ring,
     RecvRemove, Release, Goto
<1>2. TypeOK' /\ Ahead'
  BY <1>0, Counted, WrapValue, QueueAssumption DEF IInv, TypeOK, Holder, Roles, Ahead, Copied, Locking, Labels,
     Timeouts, Slots, Taking, ring,
     RecvRemove, Release, Goto
<1>3. Copied'
  BY <1>0, Counted, WrapValue, QueueAssumption DEF IInv, TypeOK, Holder, Copied, Ahead, Locking, Slots, Taking, ring,
     RecvRemove, Release, Goto
<1>4. SemCountsItems'
  <2>1. Goto(t, "idle")
    BY DEF RecvRemove
  <2>2. /\ Cardinality(Signalling)' = Cardinality(Signalling)
             + (IF "idle" = "send_signal" THEN 1 ELSE 0) - (IF pc[t] = "send_signal" THEN 1 ELSE 0)
        /\ Cardinality(Taking)' = Cardinality(Taking)
             + (IF "idle" \in {"recv_lock", "recv_read", "recv_remove"} THEN 1 ELSE 0)
             - (IF pc[t] \in {"recv_lock", "recv_read", "recv_remove"} THEN 1 ELSE 0)
    BY <1>0, <2>1, Moves DEF IInv
  <2> QED BY <2>2, FiniteThreads DEF IInv, TypeOK, SemCountsItems, ring, RecvRemove
<1> QED BY <1>1, <1>2, <1>3, <1>4 DEF IInv

LEMMA ResetInv ==
    ASSUME IInv, ResetInUse = FALSE, jl_queue_reset
    PROVE  IInv'
<1>1. Signalling' = {} /\ Taking' = {}
  BY DEF jl_queue_reset, Signalling, Taking
<1>2. SemCountsItems'
  BY <1>1, FS_EmptySet DEF SemCountsItems, jl_queue_reset
<1>3. \A t \in Threads : pc[t] \notin Locking
  BY QueueAssumption DEF jl_queue_reset, IInv, Holder, Threads
<1>4. TypeOK' /\ Holder' /\ Roles' /\ Ahead' /\ Copied'
  BY <1>3, QueueAssumption DEF jl_queue_reset, IInv, TypeOK, Holder, Roles, Ahead, Copied, Locking, Slots
<1> QED BY <1>2, <1>4 DEF IInv

LEMMA StepInv ==
    ASSUME IInv, ResetInUse = FALSE, [Next]_vars
    PROVE  IInv'
<1>1. CASE UNCHANGED vars
  <2>1. Signalling' = Signalling /\ Taking' = Taking
    BY <1>1 DEF vars, Signalling, Taking
  <2> QED BY <1>1, <2>1 DEF vars, IInv, TypeOK, Holder, Roles, Ahead, Copied, SemCountsItems
<1>2. CASE Next
  BY <1>2, SendCallInv, SendLockInv, SendLockTimeoutInv, SendWriteInv, SendAddInv, SendSignalInv, SendFullInv, SendGiveUpInv,
     SendRetryInv, RecvCallInv, RecvTimeoutInv, RecvWaitInv, RecvLockInv, RecvReadInv, RecvRemoveInv, ResetInv
     DEF Next, Send, Recv
<1> QED BY <1>1, <1>2

\* The counts of the JL queue agree, whatever the number of threads: a receiver that was let past
\* the semaphore of jl_queue_recv finds an item, no item is left that nobody is told of, and no
\* unsigned count goes below 0.
THEOREM CountsAgree == ResetInUse = FALSE => (Spec => [](TypeOK /\ SemCountsItems))
<1> SUFFICES ASSUME ResetInUse = FALSE PROVE Spec => [](TypeOK /\ SemCountsItems)
  OBVIOUS
<1>1. Init => IInv
  BY InitInv
<1>2. IInv /\ [Next]_vars => IInv'
  BY StepInv
<1>3. IInv => TypeOK /\ SemCountsItems
  BY DEF IInv
<1> QED BY <1>1, <1>2, <1>3, PTL DEF Spec

-----------------------------------------------------------------------------
(* The refinement.                                                         *)

\* The ring's slot of the i-th oldest item.
SlotOf(h, i) == IF h + i - 1 < capacity THEN h + i - 1 ELSE h + i - 1 - capacity

LEMMA ContentsIs ==
    ASSUME IInv
    PROVE  /\ Contents \in Seq(Items \cup {NoItem})
           /\ Len(Contents) = count
           /\ \A i \in 1..count : Contents[i] = buf[SlotOf(head, i)]
           /\ \A i \in 1..count : SlotOf(head, i) \in Slots
<1>1. count \in Nat /\ head \in Nat /\ count <= capacity
  BY QueueAssumption DEF IInv, TypeOK, Slots
<1>2. \A i \in 1..count : SlotOf(head, i) \in Slots
  BY <1>1, QueueAssumption DEF SlotOf, IInv, TypeOK, Slots
<1>3. Contents = [i \in 1..count |-> buf[SlotOf(head, i)]]
  BY DEF Contents, SlotOf
<1>4. \A i \in 1..count : buf[SlotOf(head, i)] \in Items \cup {NoItem}
  BY <1>2 DEF IInv, TypeOK
<1> QED BY <1>1, <1>2, <1>3, <1>4

\* Adding: the ring after SendAdd holds one item more.
LEMMA AddAppends ==
    ASSUME IInv, IInv', NEW t \in Senders, SendAdd(t)
    PROVE  Contents' = Append(Contents, item[t]) /\ Len(Contents) < capacity
<1>0. t \in Threads /\ count \in Nat /\ head \in Slots
  BY QueueAssumption DEF Threads, IInv, TypeOK
<1>1. head' = head /\ count' = count + 1 /\ buf' = buf /\ count < capacity /\ buf[tail] = item[t]
  BY <1>0 DEF SendAdd, IInv, Copied
<1>2. SlotOf(head, count + 1) = tail
  BY <1>0, <1>1, QueueAssumption DEF SlotOf, IInv, Ahead, Slots
<1>3. Contents' = [i \in 1..(count + 1) |-> buf[SlotOf(head, i)]]
  BY <1>1 DEF Contents, SlotOf
<1> QED BY <1>0, <1>1, <1>2, <1>3, ContentsIs

\* Removing: the ring after RecvRemove holds the same items without the oldest.
LEMMA RemoveTakesHead ==
    ASSUME IInv, IInv', NEW t \in Receivers, RecvRemove(t)
    PROVE  Contents # <<>> /\ Contents' = Tail(Contents) /\ item[t] = Head(Contents)
<1>0. t \in Threads /\ count \in Nat /\ head \in Slots /\ pc[t] = "recv_remove"
  BY QueueAssumption DEF Threads, IInv, TypeOK, RecvRemove
<1>1. head' = Wrap(head) /\ count' = count - 1 /\ buf' = buf /\ item[t] = buf[head]
  BY <1>0 DEF RecvRemove, IInv, Copied
<1>2. count > 0
  BY <1>0, Counted DEF Taking
<1>3. SlotOf(head, 1) = head
  BY <1>0, QueueAssumption DEF SlotOf, Slots
<1>4. \A i \in 1..(count - 1) : SlotOf(Wrap(head), i) = SlotOf(head, i + 1)
  <2>1. Wrap(head) = IF head + 1 < capacity THEN head + 1 ELSE 0
    BY <1>0, WrapValue
  <2>2. head \in Nat /\ head < capacity /\ count <= capacity /\ capacity \in Nat
    BY <1>0, QueueAssumption DEF IInv, TypeOK, Slots
  <2> QED BY <1>0, <2>1, <2>2 DEF SlotOf
<1>5. Contents' = [i \in 1..(count - 1) |-> buf[SlotOf(Wrap(head), i)]]
  BY <1>1 DEF Contents, SlotOf
<1>6. Contents' = [i \in 1..(count - 1) |-> Contents[i + 1]]
  BY <1>0, <1>4, <1>5, ContentsIs
<1>7. Contents # <<>> /\ Head(Contents) = Contents[1]
  BY <1>0, <1>2, ContentsIs
<1>8. Contents' = Tail(Contents)
  <2>1. Contents \in Seq(Items \cup {NoItem}) /\ Len(Contents) = count
    BY ContentsIs
  <2>2. /\ Tail(Contents) \in Seq(Items \cup {NoItem}) /\ Len(Tail(Contents)) = count - 1
        /\ \A i \in 1..(count - 1) : Tail(Contents)[i] = Contents[i + 1]
    BY <1>7, <2>1, HeadTailProperties
  <2>3. Contents' \in Seq(Items \cup {NoItem}) /\ Len(Contents') = count - 1
    <3>1. \A i \in 1..(count - 1) : Contents[i + 1] \in Items \cup {NoItem}
      BY <1>0, <2>1
    <3> QED BY <1>0, <1>2, <1>6, <3>1
  <2>4. \A i \in 1..(count - 1) : Contents'[i] = Tail(Contents)[i]
    BY <1>6, <2>2
  <2> QED BY <2>2, <2>3, <2>4, SeqEqual
<1> QED BY <1>0, <1>1, <1>2, <1>3, <1>7, <1>8, ContentsIs

\* Writing: the slot behind the newest item is not one of the contents.
LEMMA WriteHidden ==
    ASSUME IInv, NEW t \in Senders, SendWrite(t)
    PROVE  Contents' = Contents
<1>1. /\ head \in Slots /\ tail \in Slots /\ count \in Nat /\ count < capacity
      /\ head' = head /\ count' = count /\ buf' = [buf EXCEPT ![tail] = item[t]]
  BY QueueAssumption DEF IInv, TypeOK, SendWrite
<1>2. \A i \in 1..count : SlotOf(head, i) # tail
  BY <1>1, QueueAssumption DEF SlotOf, IInv, Ahead, Slots
<1>3. Contents = [i \in 1..count |-> buf[SlotOf(head, i)]]
  BY DEF Contents, SlotOf
<1>4. Contents' = [i \in 1..count |-> buf'[SlotOf(head, i)]]
  BY <1>1 DEF Contents, SlotOf
<1>5. \A i \in 1..count : buf'[SlotOf(head, i)] = buf[SlotOf(head, i)]
  BY <1>1, <1>2, ContentsIs DEF IInv, TypeOK
<1> QED BY <1>3, <1>4, <1>5

\* The names of the refinement mapping.
Ops == [t \in Threads |-> Op(t)]

Args == [t \in Threads |-> IF pc[t] = "recv_remove" THEN NoItem ELSE item[t]]

LEMMA StepRefines ==
    ASSUME IInv, IInv', [Next]_vars, ResetInUse = FALSE
    PROVE  [Fifo!Next]_(Fifo!vars)
<1> DEFINE stutter == Contents' = Contents /\ Ops' = Ops /\ Args' = Args
<1>0. stutter => UNCHANGED Fifo!vars
  BY DEF Fifo!vars, Ops, Args
<1>a. Fifo!Threads = Threads
  BY DEF Fifo!Threads, Threads
<1>b. UNCHANGED ring => Contents' = Contents
  BY DEF ring, Contents
<1>1. CASE UNCHANGED vars
  <2>1. stutter
    BY <1>1 DEF vars, Contents, Ops, Args, Op
  <2> QED BY <2>1, <1>0
<1>2. ASSUME NEW t \in Senders, NEW x \in Items, NEW w \in Timeouts, SendCall(t, x, w)
      PROVE  Fifo!Next
  <2>1. Fifo!Call(t, "send", x)
    BY <1>2, <1>b DEF Fifo!Call, SendCall, Goto, IInv, TypeOK, Roles, Op, Threads
  <2> QED BY <2>1 DEF Fifo!Next
<1>3. ASSUME NEW t \in Senders, SendLock(t) \/ SendFull(t) \/ SendRetry(t)
      PROVE  stutter
  BY <1>3, <1>b DEF SendLock, SendFull, SendRetry, Goto, IInv, TypeOK, Roles, Op, Ops, Args, Threads
<1>4. ASSUME NEW t \in Senders, SendWrite(t)
      PROVE  stutter
  BY <1>4, WriteHidden DEF SendWrite, Goto, IInv, TypeOK, Roles, Op, Ops, Args, Threads
<1>5. ASSUME NEW t \in Senders, SendAdd(t)
      PROVE  Fifo!Next
  <2>1. Fifo!Send(t)
    BY <1>5, AddAppends DEF Fifo!Send, SendAdd, Goto, IInv, TypeOK, Roles, Op, Threads
  <2> QED BY <2>1 DEF Fifo!Next
<1>6. ASSUME NEW t \in Senders, SendSignal(t) \/ SendLockTimeout(t) \/ SendGiveUp(t)
      PROVE  Fifo!Next
  <2>1. Fifo!Return(t)
    BY <1>6, <1>b DEF Fifo!Return, SendSignal, SendLockTimeout, SendGiveUp, Goto, IInv, TypeOK, Roles, Op,
       Threads
  <2> QED BY <2>1, <1>a DEF Fifo!Next, Threads
<1>7. ASSUME NEW t \in Receivers, NEW w \in Timeouts, RecvCall(t, w)
      PROVE  Fifo!Next
  <2>1. Fifo!Call(t, "recv", NoItem)
    BY <1>7, <1>b, QueueAssumption DEF Fifo!Call, RecvCall, Goto, IInv, TypeOK, Roles, Op, Threads
  <2> QED BY <2>1 DEF Fifo!Next
<1>8. ASSUME NEW t \in Receivers, RecvTimeout(t)
      PROVE  Fifo!Next
  <2>1. Fifo!Return(t)
    BY <1>8, <1>b, QueueAssumption DEF Fifo!Return, RecvTimeout, Goto, IInv, TypeOK, Roles, Op, Threads
  <2> QED BY <2>1, <1>a DEF Fifo!Next, Threads
<1>9. ASSUME NEW t \in Receivers, RecvWait(t) \/ RecvLock(t) \/ RecvRead(t)
      PROVE  stutter
  BY <1>9, <1>b, QueueAssumption DEF RecvWait, RecvLock, RecvRead, Goto, IInv, TypeOK, Roles, Op, Ops, Args,
     Threads
<1>10. ASSUME NEW t \in Receivers, RecvRemove(t)
       PROVE  Fifo!Next
  <2>1. t \in Threads /\ t \notin Senders /\ pc[t] = "recv_remove" /\ pc' = [pc EXCEPT ![t] = "idle"]
        /\ item' = item
    BY <1>10, QueueAssumption DEF Threads, RecvRemove, Goto
  <2>2. Contents # <<>> /\ Contents' = Tail(Contents) /\ item[t] = Head(Contents)
    BY <1>10, RemoveTakesHead
  <2>3. Ops' = [Ops EXCEPT ![t] = "idle"] /\ Ops[t] = "recv"
    BY <2>1 DEF Ops, Op, IInv, TypeOK
  <2>4. Args' = [Args EXCEPT ![t] = item[t]]
    BY <2>1 DEF Args, IInv, TypeOK
  <2>5. Fifo!Recv(t)
    BY <2>2, <2>3, <2>4 DEF Fifo!Recv, Ops, Args
  <2> QED BY <2>5 DEF Fifo!Next
<1>11. CASE jl_queue_reset
  <2>1. Contents' = <<>>
    BY <1>11 DEF jl_queue_reset, Contents
  <2>2. Fifo!Reset
    BY <1>11, <2>1 DEF Fifo!Reset, jl_queue_reset, Op
  <2> QED BY <2>2 DEF Fifo!Next
<1> QED BY <1>0, <1>1, <1>2, <1>3, <1>4, <1>5, <1>6, <1>7, <1>8, <1>9, <1>10, <1>11
        DEF Next, Send, Recv

\* The ring with its mutex and its semaphore implements the bounded first-in first-out queue of
\* h_port_contract.h: jl_queue_send and jl_queue_recv lose, double and reorder nothing, whatever
\* the number of threads and the capacity.
THEOREM QueueIsFifo == ResetInUse = FALSE => (Spec => IsFifo)
<1> SUFFICES ASSUME ResetInUse = FALSE PROVE Spec => IsFifo
  OBVIOUS
<1>1. Init => IInv
  BY InitInv
<1>2. IInv /\ [Next]_vars => IInv'
  BY StepInv
<1>3. Init => Fifo!Init
  <2> SUFFICES ASSUME Init PROVE Fifo!Init
    OBVIOUS
  <2>1. Contents = <<>>
    BY DEF Init, Contents
  <2> QED BY <2>1 DEF Init, Fifo!Init, Fifo!Threads, Threads, Op
<1>4. IInv /\ IInv' /\ [Next]_vars => [Fifo!Next]_(Fifo!vars)
  BY StepRefines
<1> QED BY <1>1, <1>2, <1>3, <1>4, PTL DEF Spec, IsFifo, Fifo!Spec

=============================================================================
