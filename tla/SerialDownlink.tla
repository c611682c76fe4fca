--------------------------- MODULE SerialDownlink ---------------------------
(***************************************************************************)
(* A message of the co-processor on its way to the RPC receive thread of   *)
(* the host (JL port): serial_write_data cuts it into fragments, the UART  *)
(* carries them, the RX task checks every packet and gives it to           *)
(* serial_ll_rx_handler, which puts the fragments together in r, queues    *)
(* the whole and posts read_semaphore; h_control_serial_drv_read takes the *)
(* semaphore and then the message.  The host does not look at the sequence *)
(* numbers, so a lost packet is noticed, if at all, from the length that   *)
(* the first fragment of a message announces.                              *)
(*                                                                         *)
(* A fragment is the number of its message, its place in the message and   *)
(* the number of fragments; all fragments are of one size.                 *)
(***************************************************************************)
EXTENDS Naturals, Sequences

CONSTANTS
    MaxMessages,    \* bound: messages the co-processor sends
    MaxFragments,   \* fragments of the longest message
    MaxRecv,        \* fragments that fit the buffer of rpc_rx_thread
    QueueSize,      \* TO_SERIAL_INFT_QUEUE_SIZE
    MaxLosses,      \* bound: times the input is thrown away
    MaxCloses       \* bound: times the interface is closed

ASSUME DownlinkAssumption ==
    /\ {MaxMessages, MaxLosses, MaxCloses} \subseteq Nat
    /\ {MaxFragments, MaxRecv, QueueSize} \subseteq Nat \ {0}

VARIABLES
    sent,       \* how many messages the co-processor has begun
    left,       \* the fragments of the current one it has still to send
    uart_in,    \* packets between the two
    r,          \* the fragments in r.data, r.len of them
    rx,         \* where the RX task is in serial_ll_rx_handler
    serial_buf, \* the message it is about to queue
    active,     \* serial_ll_if_g is open
    queue,      \* serial_ll_hdl->queue
    sem,        \* read_semaphore
    reader,     \* where the RPC receive thread is
    got,        \* the messages that arrived whole, in order of arrival
    spoiled,    \* how many it was given that no one has sent
    losses, closes

vars == <<sent, left, uart_in, r, rx, serial_buf, active, queue, sem, reader,
          got, spoiled, losses, closes>>

Init ==
    /\ sent = 0 /\ left = << >> /\ uart_in = << >>
    /\ r = << >>
    /\ rx = "read" /\ serial_buf = << >>
    /\ active = TRUE /\ queue = << >> /\ sem = 0 /\ reader = "take"
    /\ got = << >> /\ spoiled = 0
    /\ losses = 0 /\ closes = 0

-----------------------------------------------------------------------------
(* The co-processor: serial_write_data.                                    *)

Fragmented(m, n) == [i \in 1..n |-> [msg |-> m, at |-> i, of |-> n]]

SlaveBegin(n) ==
    /\ sent < MaxMessages /\ left = << >>
    /\ sent' = sent + 1
    /\ left' = Fragmented(sent + 1, n)
    /\ UNCHANGED <<uart_in, r, rx, serial_buf, active, queue, sem, reader,
                   got, spoiled, losses, closes>>

SlaveSend ==
    /\ left # << >>
    /\ uart_in' = Append(uart_in, Head(left))
    /\ left' = Tail(left)
    /\ UNCHANGED <<sent, r, rx, serial_buf, active, queue, sem, reader,
                   got, spoiled, losses, closes>>

-----------------------------------------------------------------------------
(* The RX task of the host: jl_uart_read_packet, serial_ll_rx_handler.     *)

More(f) == f.at < f.of

\* A header that is not valid, a checksum that does not match or a packet there
\* is no memory for: everything received so far is thrown away.
RxFlush ==
    /\ rx = "read"
    /\ uart_in # << >> /\ losses < MaxLosses
    /\ uart_in' = << >>
    /\ losses' = losses + 1
    /\ UNCHANGED <<sent, left, r, rx, serial_buf, active, queue, sem, reader,
                   got, spoiled, closes>>

\* The interface is closed: serial_buff_cleanup.
RxDiscard ==
    /\ rx = "read" /\ uart_in # << >>
    /\ ~active
    /\ uart_in' = Tail(uart_in)
    /\ r' = << >>
    /\ UNCHANGED <<sent, left, rx, serial_buf, active, queue, sem, reader,
                   got, spoiled, losses, closes>>

RxFragment ==
    /\ rx = "read" /\ uart_in # << >>
    /\ active /\ More(Head(uart_in))
    /\ uart_in' = Tail(uart_in)
    /\ r' = Append(r, Head(uart_in))
    /\ UNCHANGED <<sent, left, rx, serial_buf, active, queue, sem, reader,
                   got, spoiled, losses, closes>>

\* No or last fragment: a copy of what r holds is the message.
RxLast ==
    /\ rx = "read" /\ uart_in # << >>
    /\ active /\ ~More(Head(uart_in))
    /\ uart_in' = Tail(uart_in)
    /\ serial_buf' = Append(r, Head(uart_in))
    /\ r' = << >>
    /\ rx' = "enqueue"
    /\ UNCHANGED <<sent, left, active, queue, sem, reader, got, spoiled, losses, closes>>

\* A variant that puts the message before the ones already queued.
RxEnqueueFront ==
    /\ rx = "enqueue"
    /\ Len(queue) < QueueSize
    /\ queue' = <<serial_buf>> \o queue
    /\ serial_buf' = << >>
    /\ rx' = "indicate"
    /\ UNCHANGED <<sent, left, uart_in, r, active, sem, reader,
                   got, spoiled, losses, closes>>

RxEnqueue ==
    /\ rx = "enqueue"
    /\ Len(queue) < QueueSize
    /\ queue' = Append(queue, serial_buf)
    /\ serial_buf' = << >>
    /\ rx' = "indicate"
    /\ UNCHANGED <<sent, left, uart_in, r, active, sem, reader,
                   got, spoiled, losses, closes>>

\* A variant whose semaphore is one that is never above one.
RxIndicateBinary ==
    /\ rx = "indicate"
    /\ sem' = 1
    /\ rx' = "read"
    /\ UNCHANGED <<sent, left, uart_in, r, serial_buf, active, queue, reader,
                   got, spoiled, losses, closes>>

\* rpc_rx_indication
RxIndicate ==
    /\ rx = "indicate"
    /\ sem' = sem + 1
    /\ rx' = "read"
    /\ UNCHANGED <<sent, left, uart_in, r, serial_buf, active, queue, reader,
                   got, spoiled, losses, closes>>

-----------------------------------------------------------------------------
(* The RPC receive thread: h_serial_if_recv, h_control_serial_drv_read.    *)

ReadTake ==
    /\ reader = "take"
    /\ sem > 0 /\ sem' = sem - 1
    /\ reader' = "recv"
    /\ UNCHANGED <<sent, left, uart_in, r, rx, serial_buf, active, queue,
                   got, spoiled, losses, closes>>

\* A variant that does not compare the length with what was received.
ParsedUnchecked(buf) ==
    IF Head(buf).of <= MaxRecv THEN buf ELSE << >>

\* parse_tlv finds the length in the first fragment of a message and in no
\* other; what is longer than announced is cut, what is shorter is refused.
Parsed(buf) ==
    IF Head(buf).at = 1 /\ Len(buf) >= Head(buf).of /\ Head(buf).of <= MaxRecv
    THEN SubSeq(buf, 1, Head(buf).of)
    ELSE << >>

Whole(buf) == buf = Fragmented(Head(buf).msg, Len(buf))

ReadRecv ==
    /\ reader = "recv"
    /\ queue # << >>
    /\ queue' = Tail(queue)
    /\ LET buf == Parsed(Head(queue)) IN
       /\ got' = IF buf # << >> /\ Whole(buf) THEN Append(got, Head(buf).msg) ELSE got
       /\ spoiled' = IF buf # << >> /\ ~Whole(buf) THEN spoiled + 1 ELSE spoiled
    /\ reader' = "take"
    /\ UNCHANGED <<sent, left, uart_in, r, rx, serial_buf, active, sem, losses, closes>>

-----------------------------------------------------------------------------
(* rpc_core_deinit ends the thread, then the interface is closed and the   *)
(* semaphore deleted; rpc_core_init makes them again.  Between messages:   *)
(* serial_buff_cleanup would free r.data and keep the pointer.             *)

Close ==
    /\ active /\ closes < MaxCloses
    /\ rx = "read"
    /\ r = << >>
    /\ active' = FALSE /\ queue' = << >> /\ sem' = 0
    /\ reader' = "none"
    /\ closes' = closes + 1
    /\ UNCHANGED <<sent, left, uart_in, r, rx, serial_buf, got, spoiled, losses>>

Open ==
    /\ ~active
    /\ active' = TRUE
    /\ reader' = "take"
    /\ UNCHANGED <<sent, left, uart_in, r, rx, serial_buf, queue, sem,
                   got, spoiled, losses, closes>>

-----------------------------------------------------------------------------
RxTask == RxDiscard \/ RxFragment \/ RxLast \/ RxEnqueue \/ RxIndicate

Reader == ReadTake \/ ReadRecv

Next ==
    \/ \E n \in 1..MaxFragments : SlaveBegin(n)
    \/ SlaveSend
    \/ RxFlush \/ RxTask \/ Reader
    \/ Close \/ Open

Spec == Init /\ [][Next]_vars

\* The scheduler runs the tasks, and the co-processor sends what it has begun.
FairSpec == Spec /\ WF_vars(SlaveSend) /\ WF_vars(RxTask) /\ WF_vars(Reader)

-----------------------------------------------------------------------------
\* read_semaphore counts the messages in the queue, but for the one whose
\* callback is still to come and the one the thread has already been let in for:
\* the thread never waits in the queue for a message it was promised, and none
\* stays there unannounced.
SemCountsMessages ==
    Len(queue) = sem + (IF rx = "indicate" THEN 1 ELSE 0) + (IF reader = "recv" THEN 1 ELSE 0)

\* Whatever the link loses, each time the input is thrown away spoils at most
\* one of the messages that the RPC core is given; all others are as sent.
LossSpoilsOne == spoiled <= losses

\* Messages that arrive whole arrive in the order in which they were sent, and
\* once.
InOrder == \A i, j \in 1..Len(got) : i < j => got[i] < got[j]

\* What the host has of the stream ends with the end of a message: nothing is left in
\* r that the next message would be joined to.
AtBoundary == LET stream == r \o uart_in IN stream = << >> \/ ~More(stream[Len(stream)])

\* A message that fits the buffer of the thread, and is begun while the interface is
\* open and the stream is at the end of a message, arrives, unless a loss or a close
\* befalls it on its way: whatever was lost or closed before.  (A message behind a
\* message whose end was lost is joined to it and does not arrive; the one behind
\* that does.)
Arrives ==
    \A m \in 1..MaxMessages, k \in 0..(MaxLosses + MaxCloses) :
        /\ left # << >> /\ Head(left).msg = m /\ Head(left).at = 1 /\ Head(left).of <= MaxRecv
        /\ active /\ AtBoundary /\ losses + closes = k
        ~> losses + closes # k \/ \E i \in 1..Len(got) : got[i] = m

=============================================================================
