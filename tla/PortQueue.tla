----------------------------- MODULE PortQueue -----------------------------
(***************************************************************************)
(* The queue of the JL port (src/host/port/jl/h_osal.c): a ring buffer     *)
(* under a mutex, and a semaphore that counts its items.  The semaphore is *)
(* posted after the mutex was released and taken before it is acquired, so *)
(* the two counts agree only between operations.  A sender that finds the  *)
(* ring full releases the mutex and polls.  Every queue of the host's core *)
(* is one of these.                                                        *)
(***************************************************************************)
EXTENDS Naturals, FiniteSets, Sequences

CONSTANTS
    Senders, Receivers, \* the threads that send, and the tasks that receive
    Items,              \* what is sent
    capacity,           \* slots of the ring
    ResetInUse,         \* may the queue be reset in the middle of an operation?
    NoItem, NoThread

ASSUME QueueAssumption ==
    /\ IsFiniteSet(Senders) /\ IsFiniteSet(Receivers)
    /\ Senders \cap Receivers = {}
    /\ capacity \in Nat \ {0}           \* jl_queue_create refuses an empty queue
    /\ ResetInUse \in BOOLEAN
    /\ NoThread \notin Senders \cup Receivers

VARIABLES
    buf, head, tail, count,     \* the ring
    mutex, sem,
    pc,
    item,       \* the item a thread sends, or the one it received
    timeout     \* how long a thread is ready to wait

vars == <<buf, head, tail, count, mutex, sem, pc, item, timeout>>

ring == <<buf, head, tail, count>>

Threads == Senders \cup Receivers

Slots == 0..(capacity - 1)

\* timeout_ms 0, positive, and negative.
Timeouts == {"none", "some", "forever"}

Goto(t, l) == pc' = [pc EXCEPT ![t] = l]

\* jl_queue_create
Init ==
    /\ buf = [i \in Slots |-> NoItem]
    /\ head = 0 /\ tail = 0 /\ count = 0
    /\ mutex = NoThread
    /\ sem = 0
    /\ pc = [t \in Threads |-> "idle"]
    /\ item = [t \in Threads |-> NoItem]
    /\ timeout = [t \in Threads |-> "forever"]

\* os_mutex_pend waits until the mutex is free, os_mutex_post gives it back.
Acquire(t) == mutex = NoThread /\ mutex' = t

Release == mutex' = NoThread

\* The slot behind another one.
Wrap(i) == (i + 1) % capacity

-----------------------------------------------------------------------------
(* jl_queue_send.                                                          *)

SendCall(t, x, w) ==
    /\ pc[t] = "idle"
    /\ item' = [item EXCEPT ![t] = x]
    /\ timeout' = [timeout EXCEPT ![t] = w]
    /\ Goto(t, "send_lock")
    /\ UNCHANGED <<ring, mutex, sem>>

SendLock(t) ==
    /\ pc[t] = "send_lock"
    /\ Acquire(t)
    /\ Goto(t, "send_check")
    /\ UNCHANGED <<ring, sem, item, timeout>>

\* The mutex does not come within the timeout.
SendLockTimeout(t) ==
    /\ pc[t] = "send_lock" /\ mutex # NoThread
    /\ timeout[t] # "forever"
    /\ Goto(t, "idle")
    /\ UNCHANGED <<ring, mutex, sem, item, timeout>>

SendWrite(t) ==
    /\ pc[t] = "send_check" /\ count < capacity
    /\ buf' = [buf EXCEPT ![tail] = item[t]]
    /\ Goto(t, "send_add")
    /\ UNCHANGED <<head, tail, count, mutex, sem, item, timeout>>

SendAdd(t) ==
    /\ pc[t] = "send_add"
    /\ tail' = Wrap(tail)
    /\ count' = count + 1
    /\ Release
    /\ Goto(t, "send_signal")
    /\ UNCHANGED <<buf, head, sem, item, timeout>>

\* Mutant: the semaphore is not posted.
SendSilent(t) ==
    /\ pc[t] = "send_signal"
    /\ Goto(t, "idle")
    /\ UNCHANGED <<ring, mutex, sem, item, timeout>>

SendSignal(t) ==
    /\ pc[t] = "send_signal"
    /\ sem' = sem + 1
    /\ Goto(t, "idle")
    /\ UNCHANGED <<ring, mutex, item, timeout>>

SendFull(t) ==
    /\ pc[t] = "send_check" /\ count >= capacity
    /\ Release
    /\ Goto(t, "send_wait")
    /\ UNCHANGED <<ring, sem, item, timeout>>

\* A sender with a timeout gives up, any other tries again a tick later.
SendGiveUp(t) ==
    /\ pc[t] = "send_wait" /\ timeout[t] # "forever"
    /\ Goto(t, "idle")
    /\ UNCHANGED <<ring, mutex, sem, item, timeout>>

SendRetry(t) ==
    /\ pc[t] = "send_wait" /\ timeout[t] # "none"
    /\ Goto(t, "send_lock")
    /\ UNCHANGED <<ring, mutex, sem, item, timeout>>

-----------------------------------------------------------------------------
(* jl_queue_recv.                                                          *)

RecvCall(t, w) ==
    /\ pc[t] = "idle"
    /\ item' = [item EXCEPT ![t] = NoItem]
    /\ timeout' = [timeout EXCEPT ![t] = w]
    /\ Goto(t, "recv_wait")
    /\ UNCHANGED <<ring, mutex, sem>>

RecvTimeout(t) ==
    /\ pc[t] = "recv_wait" /\ sem = 0
    /\ timeout[t] # "forever"
    /\ Goto(t, "idle")
    /\ UNCHANGED <<ring, mutex, sem, item, timeout>>

RecvWait(t) ==
    /\ pc[t] = "recv_wait" /\ sem > 0
    /\ sem' = sem - 1
    /\ Goto(t, "recv_lock")
    /\ UNCHANGED <<ring, mutex, item, timeout>>

\* Mutant: the ring is read without the mutex.
RecvUnlocked(t) ==
    /\ pc[t] = "recv_lock"
    /\ Goto(t, "recv_read")
    /\ UNCHANGED <<ring, mutex, sem, item, timeout>>

RecvLock(t) ==
    /\ pc[t] = "recv_lock"
    /\ Acquire(t)
    /\ Goto(t, "recv_read")
    /\ UNCHANGED <<ring, sem, item, timeout>>

RecvRead(t) ==
    /\ pc[t] = "recv_read"
    /\ item' = [item EXCEPT ![t] = buf[head]]
    /\ Goto(t, "recv_remove")
    /\ UNCHANGED <<ring, mutex, sem, timeout>>

RecvRemove(t) ==
    /\ pc[t] = "recv_remove"
    /\ head' = Wrap(head)
    /\ count' = count - 1
    /\ Release
    /\ Goto(t, "idle")
    /\ UNCHANGED <<buf, tail, sem, item, timeout>>

-----------------------------------------------------------------------------
(* jl_queue_reset.                                                         *)

Signalling == {t \in Threads : pc[t] = "send_signal"}

Taking == {t \in Threads : pc[t] \in {"recv_lock", "recv_read", "recv_remove"}}

\* Nothing but the mutex keeps a reset from a thread that has changed one of the two counts and
\* not yet the other.
jl_queue_reset ==
    /\ mutex = NoThread
    /\ ResetInUse \/ Signalling \cup Taking = {}
    /\ head' = 0 /\ tail' = 0 /\ count' = 0
    /\ sem' = 0
    /\ UNCHANGED <<buf, mutex, pc, item, timeout>>

-----------------------------------------------------------------------------

Send(t) ==
    \/ SendLock(t) \/ SendLockTimeout(t) \/ SendWrite(t) \/ SendAdd(t) \/ SendSignal(t)
    \/ SendFull(t) \/ SendGiveUp(t) \/ SendRetry(t)

Recv(t) ==
    RecvTimeout(t) \/ RecvWait(t) \/ RecvLock(t) \/ RecvRead(t) \/ RecvRemove(t)

Next ==
    \/ \E t \in Senders :
        \/ \E x \in Items, w \in Timeouts : SendCall(t, x, w)
        \/ Send(t)
    \/ \E t \in Receivers :
        \/ \E w \in Timeouts : RecvCall(t, w)
        \/ Recv(t)
    \/ jl_queue_reset

Spec == Init /\ [][Next]_vars

\* A thread inside an operation goes on, the mutex is handed to the threads that wait for it,
\* and a task that receives does so in a loop (transport_tx_task, rpc_rx_thread).
Fairness ==
    /\ \A t \in Senders : SF_vars(SendLock(t)) /\ WF_vars(Send(t))
    /\ \A t \in Receivers :
        /\ SF_vars(RecvLock(t)) /\ WF_vars(Recv(t))
        /\ WF_vars(\E w \in Timeouts : RecvCall(t, w))

FairSpec == Spec /\ Fairness

-----------------------------------------------------------------------------
(* Properties.                                                             *)

Labels == {"idle", "send_lock", "send_check", "send_add", "send_signal", "send_wait",
           "recv_wait", "recv_lock", "recv_read", "recv_remove"}

\* The indices stay inside the ring and no count leaves 0..capacity (they are unsigned in the
\* code: one step below 0 would make the queue full for ever).
TypeOK ==
    /\ buf \in [Slots -> Items \cup {NoItem}]
    /\ head \in Slots /\ tail \in Slots
    /\ count \in 0..capacity
    /\ mutex \in Threads \cup {NoThread}
    /\ sem \in 0..capacity
    /\ pc \in [Threads -> Labels]
    /\ item \in [Threads -> Items \cup {NoItem}]
    /\ timeout \in [Threads -> Timeouts]

\* The semaphore is short of count by exactly the threads that are between the two: a receiver
\* that gets past the semaphore always finds an item (jl_queue_recv does not look at count
\* again), and no item stays in the ring that no receiver will be told of.
SemCountsItems == count = sem + Cardinality(Signalling) + Cardinality(Taking)

\* What is in the ring, oldest first.
Contents ==
    [i \in 1..count |-> buf[IF head + i - 1 < capacity THEN head + i - 1
                                                       ELSE head + i - 1 - capacity]]

Op(t) == IF pc[t] = "idle" THEN "idle"
         ELSE IF pc[t] = "send_signal" THEN "sent"
         ELSE IF t \in Senders THEN "send" ELSE "recv"

Fifo == INSTANCE BoundedFifo WITH
    fifo <- Contents,
    op <- [t \in Threads |-> Op(t)],
    arg <- [t \in Threads |-> IF pc[t] = "recv_remove" THEN NoItem ELSE item[t]]

\* Seen from its callers, the ring with its mutex and its semaphore is a bounded first-in
\* first-out queue: nothing is lost, doubled or reordered, whatever the threads' steps.
IsFifo == Fifo!Spec

\* A full queue has room again: the sender that polls it with no timeout is not polling in
\* vain.
RoomAgain == count = capacity ~> count < capacity

=============================================================================
