------------------------------ MODULE SdioLink ------------------------------
(***************************************************************************)
(* The SDIO link (src/host/drivers/transport/sdio/sdio_drv.c and           *)
(* src/slave/main/sdio_slave_api.c, streaming mode).  Towards the co-      *)
(* processor the host may send one packet for each receive buffer it has   *)
(* loaded: a register counts the buffers ever loaded, the host counts the  *)
(* ones it has used, both modulo ESP_TX_BUFFER_MAX, and it keeps the       *)
(* difference in a cache.  Towards the host a register counts the bytes    *)
(* ever sent, modulo ESP_RX_BYTE_MAX, and an interrupt says that there are *)
(* new ones.  One lock serialises the two tasks of the host on the bus.    *)
(*                                                                         *)
(* A packet needs one buffer and is one unit long; what is told apart is   *)
(* its priority.                                                           *)
(***************************************************************************)
EXTENDS Integers

CONSTANTS
    TxMax, RxMax,       \* ESP_TX_BUFFER_MAX, ESP_RX_BYTE_MAX
    NumBuffers,         \* SDIO_NUM_RX_BUFFERS of the co-processor
    SendQueue,          \* SDIO_DRIVER_TX_QUEUE_SIZE of the co-processor
    QueueSize,          \* of the host's queues
    MaxRetries,         \* MAX_WRITE_BUF_RETRIES
    MaxWrites           \* MAX_SDIO_WRITE_RETRY

ASSUME SdioAssumption ==
    /\ {TxMax, RxMax, NumBuffers, SendQueue, QueueSize, MaxRetries, MaxWrites}
           \subseteq Nat \ {0}
    /\ NumBuffers < TxMax /\ SendQueue < RxMax

Prios == {"serial", "others"}

VARIABLES
    to_slave,               \* to_slave_queue, by priority
    w, pkt, retry, tries,   \* sdio_write_task
    buf_available, tx_buf_count,
    lock,                   \* sdio_bus_lock
    rd, regs, len,          \* sdio_read_task: the length register as read; what is to be read
    rx_byte_count,
    read_index, write_index, copying,   \* the double buffer; the one that is being copied
    s_free, token,          \* the co-processor's free receive buffers; the register
    sdio_rx_queue,          \* the packets received, by priority
    s_out, loaded, len_reg, \* its send queue; what the hardware holds of it
    new_packet,             \* the interrupt that says so
    overrun                 \* has a packet been written without a buffer for it?

host_tx == <<to_slave, w, pkt, retry, tries, buf_available, tx_buf_count>>
host_rx == <<rd, regs, len, rx_byte_count, read_index, write_index, copying>>
slave_rx == <<s_free, token, sdio_rx_queue>>
slave_tx == <<s_out, loaded, len_reg, new_packet>>

vars == <<host_tx, lock, host_rx, slave_rx, slave_tx, overrun>>

\* bus_init_internal, after the reset of the co-processor by ensure_slave_bus_ready.
Init ==
    /\ to_slave = [p \in Prios |-> 0]
    /\ w = "recv" /\ pkt = "none" /\ retry = 0 /\ tries = 0
    /\ buf_available = 0 /\ tx_buf_count = 0
    /\ lock = "free"
    /\ rd = "wait" /\ regs = 0 /\ len = 0
    /\ rx_byte_count = 0
    /\ read_index = -1 /\ write_index = 0 /\ copying = -1
    /\ s_free = NumBuffers /\ token = NumBuffers % TxMax /\ sdio_rx_queue = [p \in Prios |-> 0]
    /\ s_out = 0 /\ loaded = 0 /\ len_reg = 0 /\ new_packet = FALSE
    /\ overrun = FALSE

-----------------------------------------------------------------------------
(* The host sends: esp_hosted_tx, sdio_write_task.                         *)

Send(p) ==
    /\ to_slave[p] < QueueSize
    /\ to_slave' = [to_slave EXCEPT ![p] = @ + 1]
    /\ UNCHANGED <<w, pkt, retry, tries, buf_available, tx_buf_count, lock, host_rx, slave_rx,
                   slave_tx, overrun>>

Writing(from, to) ==
    /\ w = from /\ w' = to
    /\ UNCHANGED <<to_slave, host_rx, slave_tx>>

\* sem_to_slave_queue has let the task in; the queue of the serial packets first.
WRecv ==
    /\ w = "recv" /\ w' = "lock"
    /\ \E p \in Prios :
          /\ to_slave[p] > 0
          /\ p = "others" => to_slave["serial"] = 0
          /\ to_slave' = [to_slave EXCEPT ![p] = @ - 1]
          /\ pkt' = p
    /\ UNCHANGED <<retry, tries, buf_available, tx_buf_count, lock, host_rx, slave_rx, slave_tx,
                   overrun>>

WLock ==
    /\ Writing("lock", "buffers")
    /\ lock = "free" /\ lock' = "writer"
    /\ UNCHANGED <<pkt, retry, tries, buf_available, tx_buf_count, slave_rx, overrun>>

\* A variant that forgets the roll-over of the register.
TxBufferNumFlat == token + TxMax - tx_buf_count

\* sdio_get_tx_buffer_num
TxBufferNum == (token + TxMax - tx_buf_count) % TxMax

\* A variant that asks for as long as it takes.
WBuffersPatient ==
    /\ \/ /\ buf_available > 0
          /\ buf_available' = buf_available - 1
          /\ Writing("buffers", "write") /\ UNCHANGED <<retry, lock, pkt>>
       \/ /\ buf_available = 0
          /\ buf_available' = TxBufferNum
          /\ Writing("buffers", "buffers") /\ UNCHANGED <<retry, lock, pkt>>
    /\ UNCHANGED <<tries, tx_buf_count, slave_rx, overrun>>

\* sdio_is_write_buffer_available: the register is read when the cache is empty,
\* again and again with the bus locked; in the end the packet is dropped.
WBuffers ==
    /\ \/ /\ buf_available > 0
          /\ buf_available' = buf_available - 1
          /\ retry' = 0
          /\ Writing("buffers", "write") /\ UNCHANGED <<lock, pkt>>
       \/ /\ buf_available = 0 /\ retry < MaxRetries
          /\ buf_available' = TxBufferNum
          /\ retry' = retry + 1
          /\ Writing("buffers", "buffers") /\ UNCHANGED <<lock, pkt>>
       \/ /\ buf_available = 0 /\ retry = MaxRetries
          /\ lock' = "free" /\ pkt' = "none" /\ retry' = 0
          /\ Writing("buffers", "recv") /\ UNCHANGED buf_available
    /\ UNCHANGED <<tries, tx_buf_count, slave_rx, overrun>>

\* A write that fails and leaves nothing behind: once more, then the packet is
\* dropped.  What was taken from the cache is not put back.
WWriteFails ==
    /\ IF tries + 1 < MaxWrites
       THEN Writing("write", "write") /\ tries' = tries + 1 /\ UNCHANGED <<lock, pkt>>
       ELSE Writing("write", "recv") /\ tries' = 0 /\ lock' = "free" /\ pkt' = "none"
    /\ UNCHANGED <<retry, buf_available, tx_buf_count, slave_rx, overrun>>

\* h_sdio_write_block; without a loaded buffer the packet overruns the receiver.
WWrite ==
    /\ Writing("write", "recv")
    /\ IF s_free > 0
       THEN s_free' = s_free - 1 /\ UNCHANGED overrun
            /\ sdio_rx_queue' = [sdio_rx_queue EXCEPT ![pkt] = @ + 1]
       ELSE overrun' = TRUE /\ UNCHANGED <<s_free, sdio_rx_queue>>
    /\ tx_buf_count' = (tx_buf_count + 1) % TxMax
    /\ pkt' = "none" /\ tries' = 0
    /\ lock' = "free"
    /\ UNCHANGED <<retry, buf_available, token>>

-----------------------------------------------------------------------------
(* The host receives: sdio_read_task, sdio_data_to_rx_buf_task.            *)

Reading(from, to) ==
    /\ rd = from /\ rd' = to
    /\ UNCHANGED <<host_tx, slave_rx, overrun>>

\* h_sdio_wait_intr, the lock, then sdio_read_regs: the interrupts and the length
\* in one read.
RRegs ==
    /\ Reading("wait", "clear")
    /\ new_packet
    /\ lock = "free" /\ lock' = "reader"
    /\ regs' = len_reg
    /\ UNCHANGED <<len, rx_byte_count, read_index, write_index, copying, slave_tx>>

\* A variant that forgets the roll-over of the register.
LenFromSlaveFlat == IF regs >= rx_byte_count THEN regs - rx_byte_count ELSE regs

\* sdio_get_len_from_slave
LenFromSlave ==
    IF regs >= rx_byte_count THEN (regs + RxMax - rx_byte_count) % RxMax
    ELSE (RxMax - rx_byte_count) + regs

RClear ==
    /\ new_packet' = FALSE
    /\ IF LenFromSlave > 0
       THEN Reading("clear", "read") /\ len' = LenFromSlave /\ UNCHANGED lock
       ELSE Reading("clear", "wait") /\ lock' = "free" /\ UNCHANGED len
    /\ regs' = 0
    /\ UNCHANGED <<rx_byte_count, read_index, write_index, copying, s_out, loaded, len_reg>>

\* h_sdio_read_block into the buffer that is not being copied; the hardware of
\* the co-processor is then free for the next packets.
RRead ==
    /\ Reading("read", "count")
    /\ loaded' = 0
    /\ s_out' = s_out - loaded
    /\ lock' = "free"
    /\ UNCHANGED <<regs, len, rx_byte_count, read_index, write_index, copying, len_reg, new_packet>>

\* A read that fails is not done again, but its length is counted: the host takes
\* the bytes for read, the co-processor waits for them to be read.
RReadFails ==
    /\ Reading("read", "wait")
    /\ rx_byte_count' = (rx_byte_count + len) % RxMax
    /\ len' = 0
    /\ lock' = "free"
    /\ UNCHANGED <<regs, read_index, write_index, copying, slave_tx>>

\* A variant that hands the buffer over without asking whether the other one is
\* still being copied.
RCountHasty ==
    /\ Reading("count", "wait")
    /\ rx_byte_count' = (rx_byte_count + len) % RxMax
    /\ read_index' = write_index /\ write_index' = 1 - write_index
    /\ len' = 0
    /\ UNCHANGED <<lock, regs, copying, slave_tx>>

\* The buffer is handed over, or dropped when the other one is still in use.
RCount ==
    /\ Reading("count", "wait")
    /\ rx_byte_count' = (rx_byte_count + len) % RxMax
    /\ IF read_index < 0
       THEN read_index' = write_index /\ write_index' = 1 - write_index
       ELSE UNCHANGED <<read_index, write_index>>
    /\ len' = 0
    /\ UNCHANGED <<lock, regs, copying, slave_tx>>

\* sem_double_buf_xfer_data is posted with every buffer that is handed over.
CopyBegin ==
    /\ copying < 0 /\ read_index >= 0
    /\ copying' = read_index
    /\ UNCHANGED <<host_tx, lock, rd, regs, len, rx_byte_count, read_index,
                   write_index, slave_rx, slave_tx, overrun>>

\* All its packets are in from_slave_queue, which may have taken a while.
CopyEnd ==
    /\ copying >= 0
    /\ copying' = -1 /\ read_index' = -1
    /\ UNCHANGED <<host_tx, lock, rd, regs, len, rx_byte_count, write_index,
                   slave_rx, slave_tx, overrun>>

-----------------------------------------------------------------------------
(* The co-processor: sdio_rx_task and sdio_read, sdio_write, and what its  *)
(* hardware does with the send queue.                                      *)

\* recv_task: sdio_read, the serial packets first; the packet is handled and its
\* buffer loaded again.  A request is answered, which takes a place in the send
\* queue.
SdioRead ==
    \E p \in Prios :
        /\ sdio_rx_queue[p] > 0
        /\ p = "others" => sdio_rx_queue["serial"] = 0
        /\ sdio_rx_queue' = [sdio_rx_queue EXCEPT ![p] = @ - 1]
        /\ IF p = "serial" THEN s_out < SendQueue /\ s_out' = s_out + 1 ELSE UNCHANGED s_out
        /\ s_free' = s_free + 1
        /\ token' = (token + 1) % TxMax
        /\ UNCHANGED <<host_tx, lock, host_rx, loaded, len_reg, new_packet, overrun>>

\* sdio_write of a packet from the network.
SlaveSend ==
    /\ s_out < SendQueue
    /\ s_out' = s_out + 1
    /\ UNCHANGED <<host_tx, lock, host_rx, slave_rx, loaded, len_reg, new_packet, overrun>>

\* Once the host has read what was loaded, all that is queued is loaded.
SlaveLoad ==
    /\ loaded = 0 /\ s_out > 0
    /\ loaded' = s_out
    /\ len_reg' = (len_reg + s_out) % RxMax
    /\ new_packet' = TRUE
    /\ UNCHANGED <<host_tx, lock, host_rx, slave_rx, s_out, overrun>>

\* bus_deinit_internal, bus_init_internal and a reset of the co-processor.  The
\* cache is a static variable of a function, and stays.
Reinit ==
    /\ to_slave' = [p \in Prios |-> 0]
    /\ w' = "recv" /\ pkt' = "none" /\ retry' = 0 /\ tries' = 0
    /\ tx_buf_count' = 0
    /\ lock' = "free"
    /\ rd' = "wait" /\ regs' = 0 /\ len' = 0 /\ rx_byte_count' = 0
    /\ read_index' = -1 /\ write_index' = 0 /\ copying' = -1
    /\ s_free' = NumBuffers /\ token' = NumBuffers % TxMax /\ sdio_rx_queue' = [p \in Prios |-> 0]
    /\ s_out' = 0 /\ loaded' = 0 /\ len_reg' = 0 /\ new_packet' = FALSE
    /\ UNCHANGED <<buf_available, overrun>>

-----------------------------------------------------------------------------
WriteTask == WRecv \/ WLock \/ WBuffers \/ WWrite \/ WWriteFails

ReadTask == RRegs \/ RClear \/ RRead \/ RReadFails \/ RCount

Next ==
    \/ \E p \in Prios : Send(p)
    \/ WriteTask \/ ReadTask
    \/ CopyBegin \/ CopyEnd
    \/ SdioRead \/ SlaveSend \/ SlaveLoad
    \/ Reinit

Spec == Init /\ [][Next]_vars

\* The scheduler runs the two tasks on the bus.  Who gets the lock next is left
\* open: a mutex of the port is not handed to the task that waits for it, and the
\* writer may take it again at once.  Nothing is asked of the senders, the copying
\* task and the co-processor.
FairSpec == Spec /\ WF_vars(WriteTask) /\ WF_vars(ReadTask)

-----------------------------------------------------------------------------
\* The host never writes a packet for which the co-processor has no buffer,
\* through roll-overs of the counters, writes that fail, and a cache that is used
\* long after it was filled, restarts of the link in between.
NoOverrun == ~overrun

\* What the host is about to read is what the co-processor has loaded: neither
\* too little, which would leave the stream out of step, nor too much.
ReadsWhatWasLoaded == rd = "read" => len = loaded

\* The buffer being filled from the bus is not the one being copied.
BuffersApart == rd = "read" /\ copying >= 0 => write_index # copying

\* A read has failed, and the link stands still towards the host until it is started
\* again.
Torn == rd = "wait" /\ loaded > 0 /\ ~new_packet

\* What the co-processor has loaded is read in the end, or a read of it has failed,
\* although the write task holds the bus while it waits for a buffer, which the co-
\* processor may be unable to return until it is read: once there is nothing more
\* to write, since a writer with work may keep the bus from the reader for ever.
LoadedIsRead ==
    <>[](\A p \in Prios : to_slave[p] = 0) => (loaded > 0 ~> loaded = 0 \/ Torn)

=============================================================================
