---------------------------- MODULE BoundedFifo ----------------------------
(***************************************************************************)
(* What the core of the host expects of a queue of its port                *)
(* (src/host/port/include/h_port_contract.h, "Queue"): a first-in          *)
(* first-out queue of bounded length.  A send that fails has not added its *)
(* item, a receive that succeeds removes exactly the item it returns.      *)
(***************************************************************************)
EXTENDS Naturals, Sequences

CONSTANTS Senders, Receivers, Items, capacity, NoItem

VARIABLES
    fifo,   \* what is queued, oldest first
    op,     \* what each thread is doing
    arg     \* the item a thread sends, or the one it received last

vars == <<fifo, op, arg>>

Threads == Senders \cup Receivers

Init ==
    /\ fifo = <<>>
    /\ op = [t \in Threads |-> "idle"]
    /\ arg = [t \in Threads |-> NoItem]

Call(t, what, x) ==
    /\ op[t] = "idle"
    /\ op' = [op EXCEPT ![t] = what]
    /\ arg' = [arg EXCEPT ![t] = x]
    /\ UNCHANGED fifo

\* The item is queued; the call returns later.
Send(t) ==
    /\ op[t] = "send" /\ Len(fifo) < capacity
    /\ fifo' = Append(fifo, arg[t])
    /\ op' = [op EXCEPT ![t] = "sent"]
    /\ UNCHANGED arg

Recv(t) ==
    /\ op[t] = "recv" /\ fifo # <<>>
    /\ arg' = [arg EXCEPT ![t] = Head(fifo)]
    /\ fifo' = Tail(fifo)
    /\ op' = [op EXCEPT ![t] = "idle"]

\* A send returns, or a call gives up and has changed nothing.
Return(t) ==
    /\ op[t] # "idle"
    /\ op' = [op EXCEPT ![t] = "idle"]
    /\ UNCHANGED <<fifo, arg>>

Reset == fifo' = <<>> /\ UNCHANGED <<op, arg>>

Next ==
    \/ \E t \in Senders : \E x \in Items : Call(t, "send", x)
    \/ \E t \in Receivers : Call(t, "recv", NoItem) \/ Recv(t)
    \/ \E t \in Senders : Send(t)
    \/ \E t \in Threads : Return(t)
    \/ Reset

Spec == Init /\ [][Next]_vars

=============================================================================
