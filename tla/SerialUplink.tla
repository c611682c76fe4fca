---------------------------- MODULE SerialUplink ----------------------------
(***************************************************************************)
(* How an RPC request travels from the host to the co-processor over UART. *)
(* On the host, serial_ll_write cuts the request into fragments, every     *)
(* thread that transmits puts its packets into one of three priority       *)
(* queues and gives a counting semaphore, and h_uart_write_task sends      *)
(* them.  On the co-processor, uart_rx_task feeds three queues of the same *)
(* kind, recv_task puts the fragments of a request together in the one     *)
(* buffer r, and pserial_task takes the request out of it and handles it.  *)
(*                                                                         *)
(* Byte k of request m is the pair <<m, k>>.  Every request carries the    *)
(* sequence number 0 (no host code sets it), so the branch of              *)
(* process_serial_rx_pkt for a wrong sequence number is never taken.       *)
(***************************************************************************)
EXTENDS Naturals, Sequences, FiniteSets

CONSTANTS
    Writer,      \* the rpc_tx thread, in serial_ll_write
    Boot,        \* h_uart_process_rx_task, handling the INIT event
    Senders,     \* the other threads that transmit: network, Bluetooth
    SenderPrio,  \* [Senders -> 2 .. 3]: the queue their packets go to
    PktBudget,   \* how many packets each of them sends
    MaxMsgs,     \* how many requests the writer is given
    MsgSizes,    \* their lengths
    FragMax,     \* MAX_PAYLOAD_SIZE
    BufSize,     \* MAX_FRAGMENTABLE_PAYLOAD_SIZE, and the size of r.data
    TxQSize,     \* H_UART_TX_QUEUE_SIZE
    RxQSize,     \* HOSTED_UART_RX_QUEUE_SIZE
    ReqQSize,    \* REQ_Q_MAX
    MaxDrop,     \* how many packets may be lost between the two queues
    MaxOom,      \* how often data_ready may find no memory
    MaxEvents,   \* how many events the co-processor raises
    Tearing      \* TRUE: recv_task may run while r is released, between two writes

Threads == Senders \cup {Writer, Boot}
Prio    == 1 .. 3                   \* PRIO_Q_SERIAL, PRIO_Q_BT, PRIO_Q_OTHERS

ASSUME ThreadsAssumption ==
    /\ IsFiniteSet(Senders) /\ Writer \notin Senders /\ Boot \notin Senders
    /\ Writer # Boot /\ SenderPrio \in [Senders -> 2 .. 3]
ASSUME LinkAssumption ==
    /\ FragMax \in Nat \ {0} /\ BufSize \in Nat \ {0} /\ MsgSizes \subseteq Nat \ {0}
    /\ TxQSize \in Nat \ {0} /\ RxQSize \in Nat \ {0} /\ ReqQSize \in Nat \ {0}
ASSUME BoundsAssumption ==
    /\ PktBudget \in Nat /\ MaxMsgs \in Nat /\ MaxDrop \in Nat /\ MaxOom \in Nat
    /\ MaxEvents \in Nat /\ Tearing \in BOOLEAN

Byte   == Nat \X Nat
Packet == [prio : Prio, bytes : Seq(Byte), more : BOOLEAN, buf : Nat, free : Nat]
None   == [prio |-> 3, bytes |-> <<>>, more |-> FALSE, buf |-> 0, free |-> 0]

VARIABLES
    tx_ready,    \* transport_state >= TRANSPORT_TX_ACTIVE
    started,     \* uart_start_write_thread
    tpc, tpkt,   \* per transmitting thread: position and packet
    made,        \* [Threads -> Nat]: requests or packets a thread was given
    sent,        \* the requests serial_ll_write accepted, in order
    woff,        \* offset in serial_ll_write
    freed,       \* requests whose buffer was freed
    to_slave_queue, sem_to_slave_queue,
    txpc, txpkt, tx_needed,      \* h_uart_write_task
    wire,
    urpc, urpkt,                 \* uart_rx_task
    uart_rx_queue, uart_rx_sem,
    rcpc, rcpkt, rem_buff_size,  \* recv_task
    r_valid, r_data,             \* r; r.len is the length of r_data
    req_queue,   \* copies of announced requests, and events
    pspc, psarg, psbuf,          \* pserial_task
    got,         \* what was handed to rpc_req_handler, in order
    drops, ooms, events, torn

hostVars  == <<tx_ready, started, tpc, tpkt, made, sent, woff>>
queueVars == <<to_slave_queue, sem_to_slave_queue>>
writeVars == <<txpc, txpkt, tx_needed, freed>>
uartVars  == <<urpc, urpkt>>
rxqVars   == <<uart_rx_queue, uart_rx_sem>>
recvVars  == <<rcpc, rcpkt, rem_buff_size>>
rVars     == <<r_valid, r_data>>
psVars    == <<pspc, psarg, psbuf, got>>
vars == <<hostVars, queueVars, writeVars, wire, uartVars, rxqVars, recvVars, rVars, req_queue,
          psVars, drops, ooms, events, torn>>

Arg == [kind : {"request", "event"}, data : Seq(Byte)]

HostTypeOK ==
    /\ tx_ready \in BOOLEAN /\ started \in BOOLEAN
    /\ tpc \in [Threads -> {"idle", "check", "put", "give"}] /\ tpkt \in [Threads -> Packet]
    /\ made \in [Threads -> Nat] /\ sent \in Seq(Seq(Byte)) /\ woff \in Nat
    /\ freed \in SUBSET Nat
    /\ to_slave_queue \in [Prio -> Seq(Packet)] /\ sem_to_slave_queue \in Nat
    /\ txpc \in {"take", "recv", "write"} /\ txpkt \in Packet /\ tx_needed \in BOOLEAN
SlaveTypeOK ==
    /\ wire \in Seq(Packet) /\ urpc \in {"read", "put", "give"} /\ urpkt \in Packet
    /\ uart_rx_queue \in [Prio -> Seq(Packet)] /\ uart_rx_sem \in Nat
    /\ rcpc \in {"take", "recv", "serial", "ready"} /\ rcpkt \in Packet
    /\ rem_buff_size \in Nat /\ r_valid \in BOOLEAN /\ r_data \in Seq(Byte)
    /\ req_queue \in Seq(Arg) /\ pspc \in {"recv", "read", "release"}
    /\ psarg \in Seq(Byte) /\ psbuf \in Seq(Byte) /\ got \in Seq(Seq(Byte))
    /\ drops \in Nat /\ ooms \in Nat /\ events \in Nat /\ torn \in BOOLEAN

\* The values each variable ranges over.
TypeOK == HostTypeOK /\ SlaveTypeOK

\* bus_init_internal and h_uart_init have run, the INIT event is on its way.
Init ==
    /\ tx_ready = FALSE /\ started = FALSE
    /\ tpc = [t \in Threads |-> "idle"] /\ tpkt = [t \in Threads |-> None]
    /\ made = [t \in Threads |-> 0] /\ sent = <<>> /\ woff = 0 /\ freed = {}
    /\ to_slave_queue = [p \in Prio |-> <<>>] /\ sem_to_slave_queue = 0
    /\ txpc = "take" /\ txpkt = None /\ tx_needed = TRUE
    /\ wire = <<>> /\ urpc = "read" /\ urpkt = None
    /\ uart_rx_queue = [p \in Prio |-> <<>>] /\ uart_rx_sem = 0
    /\ rcpc = "take" /\ rcpkt = None /\ rem_buff_size = 0
    /\ r_valid = FALSE /\ r_data = <<>> /\ req_queue = <<>>
    /\ pspc = "recv" /\ psarg = <<>> /\ psbuf = <<>> /\ got = <<>>
    /\ drops = 0 /\ ooms = 0 /\ events = 0 /\ torn = FALSE
-----------------------------------------------------------------------------
(* Three queues and one semaphore, used the same way on both sides.        *)

Min2(a, b) == IF a < b THEN a ELSE b

Put(q, pkt) == [q EXCEPT ![pkt.prio] = Append(@, pkt)]

\* A give on the counting semaphore of three queues of the given size.
GiveSem(s, size) == IF s < 3 * size THEN s + 1 ELSE s

AllEmpty(q) == \A p \in Prio : q[p] = <<>>

\* Serial first, then Bluetooth, then the rest: the queue that is served.
First(q) ==
    IF q[1] # <<>> THEN 1 ELSE IF q[2] # <<>> THEN 2 ELSE 3

Get(q) == [q EXCEPT ![First(q)] = Tail(@)]
-----------------------------------------------------------------------------
(* The host: esp_hosted_tx in any thread, serial_ll_write in the writer.   *)

offHost == <<writeVars, wire, uartVars, rxqVars, recvVars, rVars, req_queue, psVars,
             drops, ooms, events, torn>>

Bytes(m, len) == [k \in 1 .. len |-> <<m, k>>]

\* Mutant of Fragment: the buffer goes with the first fragment.
FragmentFreesFirst(m, off) ==
    LET left == Len(sent[m]) - off
    IN  [prio |-> 1, bytes |-> SubSeq(sent[m], off + 1, off + Min2(left, FragMax)),
         more |-> left > FragMax, buf |-> m, free |-> IF off = 0 THEN m ELSE 0]

\* The fragment of request m at offset off; the last one takes the buffer along.
Fragment(m, off) ==
    LET left == Len(sent[m]) - off
    IN  [prio |-> 1, bytes |-> SubSeq(sent[m], off + 1, off + Min2(left, FragMax)),
         more |-> left > FragMax, buf |-> m, free |-> IF left > FragMax THEN 0 ELSE m]

\* serial_ll_write: a request that is too long is freed and refused.
SerialWrite(len) ==
    /\ tpc[Writer] = "idle" /\ made[Writer] < MaxMsgs
    /\ made' = [made EXCEPT ![Writer] = @ + 1] /\ woff' = 0
    /\ IF len <= BufSize
       THEN /\ sent' = Append(sent, Bytes(Len(sent) + 1, len))
            /\ tpc' = [tpc EXCEPT ![Writer] = "check"]
       ELSE UNCHANGED <<sent, tpc>>
    /\ UNCHANGED <<tx_ready, started, tpkt, queueVars, offHost>>

\* A packet of the network stack or of Bluetooth.
SendPacket(t) ==
    /\ t \in Senders /\ tpc[t] = "idle" /\ made[t] < PktBudget
    /\ made' = [made EXCEPT ![t] = @ + 1]
    /\ tpc' = [tpc EXCEPT ![t] = "check"]
    /\ UNCHANGED <<tx_ready, started, tpkt, sent, woff, queueVars, offHost>>

\* process_init_event: the transport is up, and send_slave_config is the first to use it.
InitEvent ==
    /\ tpc[Boot] = "idle" /\ made[Boot] = 0
    /\ tx_ready' = TRUE
    /\ made' = [made EXCEPT ![Boot] = @ + 1]
    /\ tpc' = [tpc EXCEPT ![Boot] = "check"]
    /\ UNCHANGED <<started, tpkt, sent, woff, queueVars, offHost>>

PacketOf(t) ==
    IF t = Writer THEN Fragment(Len(sent), woff)
    ELSE [None EXCEPT !.prio = IF t = Boot THEN 3 ELSE SenderPrio[t]]

\* esp_hosted_tx reads transport_up; before it is, a packet is freed and refused.
CheckTransport(t) ==
    /\ tpc[t] = "check"
    /\ IF tx_ready
       THEN /\ tpkt' = [tpkt EXCEPT ![t] = PacketOf(t)]
            /\ tpc' = [tpc EXCEPT ![t] = "put"] /\ UNCHANGED sent
       ELSE /\ tpc' = [tpc EXCEPT ![t] = "idle"] /\ UNCHANGED tpkt
            /\ sent' = IF t = Writer THEN SubSeq(sent, 1, Len(sent) - 1) ELSE sent
    /\ UNCHANGED <<tx_ready, started, made, woff, queueVars, offHost>>

\* Mutant of PutPacket: the semaphore is given here too.
PutAndGive(t) ==
    /\ tpc[t] = "put" /\ Len(to_slave_queue[tpkt[t].prio]) < TxQSize
    /\ to_slave_queue' = Put(to_slave_queue, tpkt[t])
    /\ sem_to_slave_queue' = GiveSem(sem_to_slave_queue, TxQSize)
    /\ tpc' = [tpc EXCEPT ![t] = "give"]
    /\ UNCHANGED <<tx_ready, started, tpkt, made, sent, woff, offHost>>

\* h_queue_send(to_slave_queue, H_BLOCK_MAX)
PutPacket(t) ==
    /\ tpc[t] = "put" /\ Len(to_slave_queue[tpkt[t].prio]) < TxQSize
    /\ to_slave_queue' = Put(to_slave_queue, tpkt[t])
    /\ tpc' = [tpc EXCEPT ![t] = "give"]
    /\ UNCHANGED <<tx_ready, started, tpkt, made, sent, woff, sem_to_slave_queue, offHost>>

\* h_sem_give, and the next turn of the loop in serial_ll_write.
GivePacket(t) ==
    /\ tpc[t] = "give"
    /\ sem_to_slave_queue' = GiveSem(sem_to_slave_queue, TxQSize)
    /\ tpkt' = [tpkt EXCEPT ![t] = None]
    /\ tpc' = [tpc EXCEPT ![t] = IF tpkt[t].more THEN "check" ELSE "idle"]
    /\ woff' = IF t = Writer THEN woff + Len(tpkt[t].bytes) ELSE woff
    /\ UNCHANGED <<tx_ready, started, made, sent, to_slave_queue, offHost>>

\* Back from process_priv_communication, the write task is let go.
StartWriting ==
    /\ tpc[Boot] = "idle" /\ made[Boot] = 1 /\ ~started
    /\ started' = TRUE
    /\ UNCHANGED <<tx_ready, tpc, tpkt, made, sent, woff, queueVars, offHost>>

Transmit(t) == CheckTransport(t) \/ PutPacket(t) \/ GivePacket(t)
-----------------------------------------------------------------------------
(* h_uart_write_task.                                                      *)

offWrite == <<hostVars, uartVars, rxqVars, recvVars, rVars, req_queue, psVars, ooms, events,
              torn>>

TakeToSlave ==
    /\ started /\ txpc = "take" /\ sem_to_slave_queue > 0
    /\ sem_to_slave_queue' = sem_to_slave_queue - 1
    /\ txpc' = "recv"
    /\ UNCHANGED <<offWrite, to_slave_queue, txpkt, tx_needed, freed, wire, drops>>

\* The packet of the highest priority; without one tx_needed is cleared, and
\* nothing ever sets it again.
RecvToSlave ==
    /\ txpc = "recv"
    /\ IF AllEmpty(to_slave_queue)
       THEN tx_needed' = FALSE /\ txpc' = "take" /\ UNCHANGED <<to_slave_queue, txpkt>>
       ELSE /\ txpkt' = Head(to_slave_queue[First(to_slave_queue)])
            /\ to_slave_queue' = Get(to_slave_queue)
            /\ txpc' = IF tx_needed THEN "write" ELSE "take"
            /\ UNCHANGED tx_needed
    /\ UNCHANGED <<offWrite, sem_to_slave_queue, freed, wire, drops>>

\* h_uart_write_packet; without a buffer the packet is lost and nothing is freed.
WritePacket ==
    /\ txpc = "write"
    /\ \/ /\ wire' = Append(wire, txpkt)
          /\ freed' = freed \cup ({txpkt.free} \ {0})
          /\ UNCHANGED drops
       \/ /\ drops < MaxDrop /\ drops' = drops + 1
          /\ UNCHANGED <<wire, freed>>
    /\ txpc' = "take" /\ txpkt' = None
    /\ UNCHANGED <<offWrite, queueVars, tx_needed>>

WriteTask == TakeToSlave \/ RecvToSlave \/ WritePacket
-----------------------------------------------------------------------------
(* The co-processor: uart_rx_task.                                         *)

offUart == <<hostVars, queueVars, writeVars, recvVars, rVars, req_queue, psVars, ooms, events,
             torn>>

\* A packet whose checksum is wrong is dropped.
UartRead ==
    /\ urpc = "read" /\ wire # <<>>
    /\ wire' = Tail(wire)
    /\ \/ urpkt' = Head(wire) /\ urpc' = "put" /\ UNCHANGED drops
       \/ drops < MaxDrop /\ drops' = drops + 1 /\ UNCHANGED <<urpkt, urpc>>
    /\ UNCHANGED <<offUart, rxqVars>>

UartPut ==
    /\ urpc = "put" /\ Len(uart_rx_queue[urpkt.prio]) < RxQSize
    /\ uart_rx_queue' = Put(uart_rx_queue, urpkt)
    /\ urpc' = "give"
    /\ UNCHANGED <<offUart, wire, urpkt, uart_rx_sem, drops>>

\* Mutant of UartGive: the semaphore of one queue, not of three.
GiveShort ==
    /\ urpc = "give"
    /\ uart_rx_sem' = IF uart_rx_sem < RxQSize THEN uart_rx_sem + 1 ELSE uart_rx_sem
    /\ urpc' = "read" /\ urpkt' = None
    /\ UNCHANGED <<offUart, wire, uart_rx_queue, drops>>

UartGive ==
    /\ urpc = "give"
    /\ uart_rx_sem' = GiveSem(uart_rx_sem, RxQSize)
    /\ urpc' = "read" /\ urpkt' = None
    /\ UNCHANGED <<offUart, wire, uart_rx_queue, drops>>

UartRxTask == UartRead \/ UartPut \/ UartGive
-----------------------------------------------------------------------------
(* recv_task: h_uart_read, process_rx_pkt and process_serial_rx_pkt.       *)

offRecv == <<hostVars, queueVars, writeVars, wire, uartVars, psVars, drops, events>>

\* Mutant of TakeRx: a timed wait that ends without the semaphore.
TakeRxTimeout ==
    /\ rcpc = "take"
    /\ uart_rx_sem' = uart_rx_sem - 1 /\ rcpc' = "recv"
    /\ UNCHANGED <<offRecv, uart_rx_queue, rcpkt, rem_buff_size, rVars, req_queue, ooms, torn>>

TakeRx ==
    /\ rcpc = "take" /\ uart_rx_sem > 0
    /\ uart_rx_sem' = uart_rx_sem - 1 /\ rcpc' = "recv"
    /\ UNCHANGED <<offRecv, uart_rx_queue, rcpkt, rem_buff_size, rVars, req_queue, ooms, torn>>

\* Mutant of RoomInR: what r already holds is forgotten.
RoomForgotten == BufSize

\* rem_buff_size, read before the wait for r.valid.
RoomInR == BufSize - Len(r_data)

\* Only serial packets concern r; the others go to the Wi-Fi or Bluetooth driver.
RecvRx ==
    /\ rcpc = "recv"
    /\ LET pkt == Head(uart_rx_queue[First(uart_rx_queue)]) IN
         IF ~AllEmpty(uart_rx_queue) /\ pkt.prio = 1
         THEN rcpc' = "serial" /\ rcpkt' = pkt /\ rem_buff_size' = RoomInR
         ELSE rcpc' = "take" /\ UNCHANGED <<rcpkt, rem_buff_size>>
    /\ uart_rx_queue' = IF AllEmpty(uart_rx_queue) THEN uart_rx_queue ELSE Get(uart_rx_queue)
    /\ UNCHANGED <<offRecv, uart_rx_sem, rVars, req_queue, ooms, torn>>

\* Mutant of CopyFragment: the wait for r.valid is gone.
CopyAtOnce ==
    /\ rcpc = "serial"
    /\ r_data' = r_data \o SubSeq(rcpkt.bytes, 1, Min2(Len(rcpkt.bytes), rem_buff_size))
    /\ r_valid' = (r_valid \/ ~rcpkt.more)
    /\ rcpc' = IF rcpkt.more THEN "take" ELSE "ready"
    /\ rcpkt' = None /\ rem_buff_size' = 0 /\ torn' = (torn \/ pspc = "release")
    /\ UNCHANGED <<offRecv, rxqVars, req_queue, ooms>>

\* Once r is free, the fragment is appended as far as rem_buff_size allows; the
\* last one makes r valid.
CopyFragment ==
    /\ rcpc = "serial" /\ ~r_valid /\ (Tearing \/ pspc # "release")
    /\ r_data' = r_data \o SubSeq(rcpkt.bytes, 1, Min2(Len(rcpkt.bytes), rem_buff_size))
    /\ r_valid' = ~rcpkt.more
    /\ rcpc' = IF rcpkt.more THEN "take" ELSE "ready"
    /\ rcpkt' = None /\ rem_buff_size' = 0 /\ torn' = (torn \/ pspc = "release")
    /\ UNCHANGED <<offRecv, rxqVars, req_queue, ooms>>

\* protocomm_pserial_data_ready copies the request; without memory for that it
\* stays in r for ever.
DataReady ==
    /\ rcpc = "ready"
    /\ \/ /\ Len(req_queue) < ReqQSize
          /\ req_queue' = Append(req_queue, [kind |-> "request", data |-> r_data])
          /\ UNCHANGED ooms
       \/ /\ r_data # <<>> /\ ooms < MaxOom /\ ooms' = ooms + 1 /\ UNCHANGED req_queue
    /\ rcpc' = "take"
    /\ UNCHANGED <<offRecv, rxqVars, rcpkt, rem_buff_size, rVars, torn>>

RecvTask == TakeRx \/ RecvRx \/ CopyFragment \/ DataReady
-----------------------------------------------------------------------------
(* pserial_task, and the tasks that raise events.                          *)

offSerial == <<hostVars, queueVars, writeVars, wire, uartVars, rxqVars, recvVars, drops, ooms,
               torn>>

RaiseEvent ==
    /\ events < MaxEvents /\ Len(req_queue) < ReqQSize
    /\ events' = events + 1
    /\ req_queue' = Append(req_queue, [kind |-> "event", data |-> <<>>])
    /\ UNCHANGED <<offSerial, rVars, psVars>>

\* An event is handled at once; a request is first read out of r.
PserialRecv ==
    /\ pspc = "recv" /\ req_queue # <<>>
    /\ req_queue' = Tail(req_queue)
    /\ IF Head(req_queue).kind = "event" THEN UNCHANGED <<pspc, psarg>>
       ELSE pspc' = "read" /\ psarg' = Head(req_queue).data
    /\ UNCHANGED <<offSerial, rVars, psbuf, got, events>>

\* rpc_req_handler is given a request that is not empty.
Handle(buf) == got' = IF buf = <<>> THEN got ELSE Append(got, buf)

\* serial_read_data copies the request over the copy that came with it, and gives
\* r free by clearing r.valid; if r were not valid, the copy would be handled.
SerialReadData ==
    /\ pspc = "read"
    /\ LET n == Min2(Len(psarg), Len(r_data)) IN
         IF r_valid
         THEN /\ psbuf' = SubSeq(r_data, 1, n) /\ r_valid' = FALSE
              /\ pspc' = "release" /\ UNCHANGED got
         ELSE /\ Handle(SubSeq(psarg, 1, n))
              /\ pspc' = "recv" /\ UNCHANGED <<r_valid, psbuf>>
    /\ psarg' = <<>>
    /\ UNCHANGED <<offSerial, r_data, req_queue, events>>

\* Mutant of ReleaseR: the length of the old request stays.
ReleaseKeepsLen ==
    /\ pspc = "release" /\ Handle(psbuf)
    /\ pspc' = "recv" /\ psbuf' = <<>>
    /\ UNCHANGED <<offSerial, rVars, req_queue, psarg, events>>

\* Only then it sets r.len to 0, and what it copied is handled.
ReleaseR ==
    /\ pspc = "release" /\ Handle(psbuf)
    /\ r_data' = <<>>
    /\ pspc' = "recv" /\ psbuf' = <<>>
    /\ UNCHANGED <<offSerial, r_valid, req_queue, psarg, events>>

\* The write of 0 falls into the middle of CopyFragment: between the copy and the
\* update of r.len, which then counts bytes of the old request, or between the
\* read and the write of that update, which undoes it.
TornCopy ==
    /\ Tearing /\ rcpc = "serial" /\ ~r_valid /\ pspc = "release" /\ Handle(psbuf)
    /\ LET n == Min2(Len(rcpkt.bytes), rem_buff_size)
           longer == r_data \o SubSeq(rcpkt.bytes, 1, n)
       IN  r_data' \in {SubSeq(longer, 1, n), longer}
    /\ r_valid' = ~rcpkt.more
    /\ rcpc' = IF rcpkt.more THEN "take" ELSE "ready"
    /\ rcpkt' = None /\ rem_buff_size' = 0 /\ torn' = TRUE
    /\ pspc' = "recv" /\ psbuf' = <<>>
    /\ UNCHANGED <<hostVars, queueVars, writeVars, wire, uartVars, rxqVars, req_queue, psarg,
                   drops, ooms, events>>

PserialTask == PserialRecv \/ SerialReadData \/ ReleaseR \/ TornCopy
-----------------------------------------------------------------------------
\* Every thread and task waits for work that nobody is going to give it ...
Quiet ==
    /\ \A t \in Threads : tpc[t] = "idle"
    /\ made[Writer] = MaxMsgs /\ made[Boot] = 1 /\ started
    /\ \A s \in Senders : made[s] = PktBudget
    /\ txpc = "take" /\ sem_to_slave_queue = 0 /\ wire = <<>> /\ urpc = "read"
    /\ rcpc = "take" /\ uart_rx_sem = 0 /\ req_queue = <<>> /\ pspc = "recv"
\* ... or recv_task waits for an r that nobody reads.
Wedged == ooms > 0 /\ r_valid /\ req_queue = <<>> /\ pspc = "recv"

Idle == (Quiet \/ Wedged) /\ UNCHANGED vars

Next ==
    \/ InitEvent \/ StartWriting
    \/ \E len \in MsgSizes : SerialWrite(len)
    \/ \E t \in Threads : SendPacket(t) \/ Transmit(t)
    \/ WriteTask \/ UartRxTask \/ RecvTask \/ RaiseEvent \/ PserialTask
    \/ Idle

Spec == Init /\ [][Next]_vars

-----------------------------------------------------------------------------
(* Properties.                                                             *)

\* A taken semaphore finds a packet, on the host ("Tx msg is present as per
\* sem") and on the co-processor, whatever the threads and the faults: otherwise
\* tx_needed is cleared and the host never transmits again.
WakeupsFindPackets ==
    /\ tx_needed
    /\ txpc = "recv" => ~AllEmpty(to_slave_queue)
    /\ rcpc = "recv" => ~AllEmpty(uart_rx_queue)

\* r.data is never overrun, although the room in it is computed before the wait
\* for r.valid and pserial_task may release r at any moment.
NoOverrun ==
    /\ Len(r_data) <= BufSize
    /\ rcpc = "serial" => Len(r_data) + Min2(Len(rcpkt.bytes), rem_buff_size) <= BufSize

\* A request that pserial_task is told of is in r and valid, and no other one is
\* announced before it is read: r is handed over, never shared.
OneOwnerOfR ==
    LET announced == Cardinality({k \in DOMAIN req_queue : req_queue[k].kind = "request"})
                       + (IF pspc = "read" THEN 1 ELSE 0)
    IN  announced <= 1 /\ (announced = 1 => r_valid /\ rcpc # "ready")

\* A queued fragment points into a buffer that is still allocated: the last
\* fragment frees it, after all the others were copied out.
FragmentsLive ==
    /\ \A p \in Prio : \A k \in DOMAIN to_slave_queue[p] : to_slave_queue[p][k].buf \notin freed
    /\ \A t \in Threads : tpc[t] = "put" => tpkt[t].buf \notin freed
    /\ txpkt.buf \notin freed

\* No packet was lost, r was not torn, and a whole fragment fits beside any request.
Undisturbed ==
    /\ drops = 0 /\ ~torn
    /\ \A m \in DOMAIN sent : Len(sent[m]) + FragMax <= BufSize

\* As long as nothing disturbs them, requests are handed to rpc_req_handler
\* whole, once, and in the order they were written, however the fragments are
\* interleaved with other traffic and with the handling of earlier requests.
RequestsInOrder ==
    Undisturbed => /\ Len(got) <= Len(sent)
                   /\ \A m \in DOMAIN got : got[m] = sent[m]

\* ... and none is left behind: when every task waits for work, no packet sits in
\* a queue without its wake-up and every accepted request was handed over.
SettledMeansArrived ==
    Quiet => /\ AllEmpty(to_slave_queue) /\ AllEmpty(uart_rx_queue)
             /\ Undisturbed /\ ooms = 0 => Len(got) = Len(sent)
=============================================================================
