---------------------------- MODULE SdioThrottle ----------------------------
(***************************************************************************)
(* The flow control of the SDIO link.  sdio_rx_task of the co-processor    *)
(* (src/slave/main/sdio_slave_api.c) asks the host to throttle when the    *)
(* queue of network packets is above a threshold, recv_task asks it to go  *)
(* on when it has brought the queue below another one.  Each request is    *)
(* one bit of the interrupt register, which the host                       *)
(* (src/host/drivers/transport/sdio/sdio_drv.c) reads, clears and then     *)
(* obeys; while it throttles, esp_hosted_tx drops the network's packets.   *)
(***************************************************************************)
EXTENDS Naturals

CONSTANTS
    NumBuffers,     \* SDIO_NUM_RX_BUFFERS
    High, Low       \* throttle_high_threshold, throttle_low_threshold, in packets

VARIABLES
    wifi_tx_throttling, rd, regs,   \* the host: does it throttle; sdio_read_task
    intr,                           \* the bits of the interrupt register that are set
    received, load,                 \* packets in the hardware; in the queue PRIO_Q_OTHERS
    rx, rv,                         \* sdio_rx_task, recv_task
    current_throttling              \* slv_state_g.current_throttling

vars == <<wifi_tx_throttling, rd, regs, intr, received, load, rx, rv, current_throttling>>

Init ==
    /\ wifi_tx_throttling = FALSE /\ rd = "wait" /\ regs = {} /\ intr = {}
    /\ received = 0 /\ load = 0
    /\ rx = "recv" /\ rv = "read"
    /\ current_throttling = FALSE

-----------------------------------------------------------------------------
(* The host.                                                               *)

\* esp_hosted_tx of a packet of the network; the link allows one for each buffer.
Send ==
    /\ ~wifi_tx_throttling
    /\ received + load < NumBuffers
    /\ received' = received + 1
    /\ UNCHANGED <<wifi_tx_throttling, rd, regs, intr, load, rx, rv, current_throttling>>

ReadRegs ==
    /\ rd = "wait" /\ intr # {}
    /\ regs' = intr
    /\ rd' = "clear"
    /\ UNCHANGED <<wifi_tx_throttling, intr, received, load, rx, rv, current_throttling>>

\* sdio_clear_intr of what was read; a bit that was set once more goes with it.
ClearIntr ==
    /\ rd = "clear" /\ rd' = "wait"
    /\ intr' = intr \ regs
    /\ wifi_tx_throttling' = IF "stop" \in regs THEN FALSE
                             ELSE wifi_tx_throttling \/ "start" \in regs
    /\ regs' = {}
    /\ UNCHANGED <<received, load, rx, rv, current_throttling>>

-----------------------------------------------------------------------------
(* The co-processor: start_ and stop_rx_data_throttling_if_needed.         *)

Loaded == ~current_throttling /\ load > High

\* It is noted before the host is told.
StartNote ==
    /\ rx = "recv" /\ received > 0 /\ Loaded
    /\ current_throttling' = TRUE
    /\ rx' = "tell"
    /\ UNCHANGED <<wifi_tx_throttling, rd, regs, intr, received, load, rv>>

\* The host is told if need be, and the packet queued.
Queue ==
    /\ received > 0
    /\ \/ rx = "tell" /\ intr' = intr \cup {"start"}
       \/ rx = "recv" /\ ~Loaded /\ UNCHANGED intr
    /\ received' = received - 1 /\ load' = load + 1
    /\ rx' = "recv"
    /\ UNCHANGED <<wifi_tx_throttling, rd, regs, rv, current_throttling>>

\* sdio_read: a packet leaves the queue, then the load is looked at.
Read ==
    /\ rv = "read" /\ load > 0
    /\ load' = load - 1
    /\ IF current_throttling /\ load' < Low
       THEN current_throttling' = FALSE /\ rv' = "tell"
       ELSE UNCHANGED <<current_throttling, rv>>
    /\ UNCHANGED <<wifi_tx_throttling, rd, regs, intr, received, rx>>

StopTell ==
    /\ rv = "tell" /\ rv' = "read"
    /\ intr' = intr \cup {"stop"}
    /\ UNCHANGED <<wifi_tx_throttling, rd, regs, received, load, rx, current_throttling>>

-----------------------------------------------------------------------------
Host == ReadRegs \/ ClearIntr

RxTask == StartNote \/ Queue

RecvTask == Read \/ StopTell

Next == Send \/ Host \/ RxTask \/ RecvTask

\* The scheduler runs every task.  Nothing makes an application send.
FairSpec ==
    Init /\ [][Next]_vars /\ WF_vars(Host) /\ WF_vars(RxTask) /\ WF_vars(RecvTask)

-----------------------------------------------------------------------------
\* A host that throttles is told to go on once the co-processor has worked off
\* its packets, as the help of the low threshold says (Kconfig:2300).
ThrottlingStops == wifi_tx_throttling ~> ~wifi_tx_throttling

=============================================================================
