--------------------------- MODULE HostLifecycle ---------------------------
(***************************************************************************)
(* Bringing the host up, connecting it to the co-processor and taking it   *)
(* down again, on the JL port: esp_hosted_init, esp_hosted_connect_to_     *)
(* slave and esp_hosted_deinit with the rollback of h_hosted_init, the     *)
(* transport's two tasks, the stop protocol that ends them, and the INIT   *)
(* event by which a booted co-processor makes the transport active.        *)
(*                                                                         *)
(* One application thread makes the calls.  What runs beside it: the TX    *)
(* task, the RX task (which handles the INIT event), the network stack and *)
(* the co-processor, which boots whenever it is reset.                     *)
(***************************************************************************)
EXTENDS Naturals, Sequences

CONSTANTS
    QueueSize,      \* TX_QUEUE_SIZE
    MaxRetry,       \* MAX_RETRY_TRANSPORT_ACTIVE
    ResetEvery,     \* retries between two resets of the co-processor (50)
    MayFail,        \* the steps of the initialisation that may fail
    Habits,         \* what the application does besides init, connect, deinit
    MaxReboots      \* bound: restarts of the co-processor by itself

ASSUME LifecycleAssumption ==
    /\ {QueueSize, MaxRetry, ResetEvery} \subseteq Nat \ {0}
    /\ MayFail \subseteq {"event", "bus", "rpc", "queue", "tasks", "memory"}
    /\ Habits \subseteq {"connect_down", "connect_again"}
    /\ MaxReboots \in Nat

VARIABLES
    app,                    \* where the application thread is
    hosted_initialized,     \* g_hosted_initialized
    init_done,              \* esp_hosted_init_done
    event_lock,             \* the event registry exists
    bus,                    \* bus_handle and g_uart_handle
    rpc, rpc_state,         \* the RPC core's threads and queues exist; its state
    chan,                   \* chan_arr[ESP_STA_IF]
    transport_state,
    transport_up,           \* esp_hosted_transport_up
    retry, gave_up,         \* retry_slave_connection; an attempt has failed
    queue,                  \* g_tx_queue: << >> also when there is none
    has_queue,
    tx_running, rx_running, tx_exited, rx_exited,
    tx, rx,                 \* where the two tasks are
    slave, uart_in, reboots \* the co-processor and what it has sent

app_vars == <<hosted_initialized, init_done, event_lock, bus, rpc, chan, retry, gave_up>>
task_vars == <<queue, has_queue, tx_running, rx_running, tx_exited, rx_exited, tx, rx>>
link_vars == <<transport_state, transport_up, rpc_state>>
slave_vars == <<slave, uart_in, reboots>>

vars == <<app, app_vars, task_vars, link_vars, slave_vars>>

Init ==
    /\ app = "idle"
    /\ hosted_initialized = FALSE /\ init_done = FALSE
    /\ event_lock = FALSE /\ bus = FALSE /\ rpc = FALSE /\ chan = FALSE
    /\ retry = 0 /\ gave_up = FALSE
    /\ rpc_state = "inactive"
    /\ transport_state = "inactive" /\ transport_up = FALSE
    /\ queue = << >> /\ has_queue = FALSE
    /\ tx_running = FALSE /\ rx_running = FALSE /\ tx_exited = FALSE /\ rx_exited = FALSE
    /\ tx = "none" /\ rx = "none"
    /\ slave = "up" /\ uart_in = 0 /\ reboots = 0

RxReady == transport_state \in {"rx_active", "tx_active"}

TxReady == transport_state = "tx_active"

At(l) == app = l

Goto(l) == app' = l

-----------------------------------------------------------------------------
(* esp_hosted_init: h_hosted_init with its rollback, the channels and      *)
(* setup_transport, which starts the tasks.                                *)

\* h_hosted_init is skipped when an earlier call got that far.
InitCall ==
    /\ At("idle") /\ ~init_done
    /\ Goto(IF hosted_initialized THEN "channels" ELSE "event_init")
    /\ UNCHANGED <<app_vars, task_vars, link_vars, slave_vars>>

EventInit ==
    /\ At("event_init")
    /\ \/ event_lock' = TRUE /\ Goto("bus_init")
       \/ "event" \in MayFail /\ ~event_lock /\ Goto("idle") /\ UNCHANGED event_lock
    /\ UNCHANGED <<hosted_initialized, init_done, bus, rpc, chan, retry, gave_up,
                   task_vars, link_vars, slave_vars>>

\* h_port_transport_init opens the UART only.
BusInit ==
    /\ At("bus_init")
    /\ \/ bus' = TRUE /\ Goto("rpc_init")
       \/ "bus" \in MayFail /\ ~bus /\ Goto("event_down") /\ UNCHANGED bus
    /\ UNCHANGED <<hosted_initialized, init_done, event_lock, rpc, chan, retry, gave_up,
                   task_vars, link_vars, slave_vars>>

\* rpc_core_init and rpc_core_start.  When a step fails after an earlier one
\* succeeded, rpc_core_deinit returns at once: the state is still inactive.
\* The init task of the port calls h_hosted_init alone, and is done here.
RpcInit ==
    /\ At("rpc_init")
    /\ \/ /\ rpc' = TRUE /\ rpc_state' = "ready"
          /\ hosted_initialized' = TRUE
          /\ Goto("channels") \/ Goto("idle")
       \/ /\ "rpc" \in MayFail
          /\ rpc' = (rpc_state = "inactive") /\ rpc_state' = "inactive"
          /\ Goto("stop_flags")
          /\ UNCHANGED hosted_initialized
    /\ UNCHANGED <<init_done, event_lock, bus, chan, retry, gave_up,
                   transport_state, transport_up, task_vars, slave_vars>>

\* add_esp_wifi_remote_channels; setup_transport reuses a transport that is not
\* inactive.
Channels ==
    /\ At("channels")
    /\ chan' = TRUE
    /\ IF transport_state # "inactive" \/ has_queue
       THEN Goto("idle") /\ init_done' = TRUE
       ELSE Goto("start") /\ UNCHANGED init_done
    /\ UNCHANGED <<hosted_initialized, event_lock, bus, rpc, retry, gave_up,
                   task_vars, link_vars, slave_vars>>

\* jl_uart_transport_start: without a queue it gives up silently, without the
\* RX task it stops what it has started; esp_hosted_init succeeds all the same.
Start ==
    /\ At("start")
    /\ tx_exited' = FALSE /\ rx_exited' = FALSE
    /\ \/ has_queue' = TRUE /\ tx' = "new" /\ rx' = "new" /\ Goto("idle") /\ init_done' = TRUE
       \/ "queue" \in MayFail /\ Goto("idle") /\ init_done' = TRUE /\ UNCHANGED <<has_queue, tx, rx>>
       \/ "tasks" \in MayFail /\ has_queue' = TRUE /\ tx' = "new" /\ Goto("stop_flags") /\ UNCHANGED <<rx, init_done>>
    /\ UNCHANGED <<hosted_initialized, event_lock, bus, rpc, chan, retry, gave_up,
                   queue, tx_running, rx_running, link_vars, slave_vars>>

-----------------------------------------------------------------------------
(* esp_hosted_connect_to_slave: transport_drv_reconfigure.  h_bus_ready    *)
(* resets the co-processor, drops what the UART has received and sleeps.   *)

Reset ==
    /\ slave' = "booting" /\ uart_in' = 0
    /\ UNCHANGED reboots

\* On this port esp_hosted_is_config_valid is always true: nothing stops a call
\* before esp_hosted_init or after esp_hosted_deinit.
ConnectCall ==
    /\ At("idle")
    /\ init_done \/ "connect_down" \in Habits
    /\ ~gave_up \/ "connect_again" \in Habits
    /\ IF TxReady
       THEN retry' = 0 /\ UNCHANGED <<app, slave_vars>>
       ELSE Goto("resetting") /\ Reset /\ UNCHANGED retry
    /\ UNCHANGED <<hosted_initialized, init_done, event_lock, bus, rpc, chan, gave_up,
                   task_vars, link_vars>>

\* After the sleep the receiver is let in.
Resetting ==
    /\ At("resetting")
    /\ Goto("waiting")
    /\ transport_state' = "rx_active"
    /\ UNCHANGED <<app_vars, task_vars, transport_up, rpc_state, slave_vars>>

Waiting ==
    /\ At("waiting")
    /\ \/ /\ TxReady
          /\ retry' = 0 /\ Goto("idle")
          /\ UNCHANGED <<gave_up, slave_vars>>
       \/ /\ ~TxReady /\ retry < MaxRetry
          /\ retry' = retry + 1
          /\ IF retry' % ResetEvery = 0 THEN Reset ELSE UNCHANGED slave_vars
          /\ UNCHANGED <<app, gave_up>>
       \/ /\ ~TxReady /\ retry = MaxRetry
          /\ gave_up' = TRUE /\ Goto("idle")
          /\ UNCHANGED <<retry, slave_vars>>
    /\ UNCHANGED <<hosted_initialized, init_done, event_lock, bus, rpc, chan,
                   task_vars, link_vars>>

-----------------------------------------------------------------------------
(* esp_hosted_deinit, and jl_uart_transport_stop, which the rollbacks of   *)
(* h_hosted_init and of jl_uart_transport_start run as well.               *)

\* remove_esp_wifi_remote_channels; the flag goes down before anything stops.
DeinitCall ==
    /\ At("idle")
    /\ hosted_initialized
    /\ chan' = FALSE /\ transport_up' = FALSE
    /\ Goto("rpc_down")
    /\ UNCHANGED <<hosted_initialized, init_done, event_lock, bus, rpc, retry, gave_up,
                   transport_state, rpc_state, task_vars, slave_vars>>

\* h_port_rpc_deinit: rpc_core_stop and rpc_core_deinit.
RpcDown ==
    /\ At("rpc_down")
    /\ rpc_state' = "inactive" /\ rpc' = FALSE
    /\ init_done' = FALSE
    /\ Goto("stop_flags")
    /\ UNCHANGED <<hosted_initialized, event_lock, bus, chan, retry, gave_up,
                   transport_state, transport_up, task_vars, slave_vars>>

\* The sentinel is sent without waiting: a full queue loses it.
StopFlags ==
    /\ At("stop_flags")
    /\ tx_running' = FALSE /\ rx_running' = FALSE
    /\ queue' = IF has_queue /\ Len(queue) < QueueSize THEN Append(queue, "sentinel") ELSE queue
    /\ Goto("stop_tx")
    /\ UNCHANGED <<app_vars, has_queue, tx_exited, rx_exited, tx, rx, link_vars, slave_vars>>

\* Waiting for tx_exited has a time limit, so it may end before the task does.
StopTx ==
    /\ At("stop_tx")
    /\ Goto("stop_rx")
    /\ UNCHANGED <<app_vars, task_vars, link_vars, slave_vars>>

\* A variant that waits for the task without a limit.
StopRxPatient ==
    /\ At("stop_rx")
    /\ Goto(IF rx_exited \/ rx = "none" THEN "kill" ELSE "stop_rx")
    /\ UNCHANGED <<app_vars, task_vars, link_vars, slave_vars>>

StopRx ==
    /\ At("stop_rx")
    /\ Goto("kill")
    /\ UNCHANGED <<app_vars, task_vars, link_vars, slave_vars>>

\* A variant that forgets to delete the RX task.
KillForgetful ==
    /\ At("kill")
    /\ tx' = "none"
    /\ Goto("delete_queue")
    /\ UNCHANGED <<app_vars, queue, has_queue, tx_running, rx_running, tx_exited,
                   rx_exited, rx, link_vars, slave_vars>>

\* h_thread_delete ends a task wherever it is.
Kill ==
    /\ At("kill")
    /\ tx' = "none" /\ rx' = "none"
    /\ Goto("delete_queue")
    /\ UNCHANGED <<app_vars, queue, has_queue, tx_running, rx_running, tx_exited,
                   rx_exited, link_vars, slave_vars>>

\* What was still queued is lost with the queue.  Back in jl_uart_transport_start
\* the initialisation goes on, in teardown_transport the bus comes next.
DeleteQueue ==
    /\ At("delete_queue")
    /\ queue' = << >> /\ has_queue' = FALSE
    /\ IF chan
       THEN Goto("idle") /\ init_done' = TRUE
       ELSE Goto("bus_down") /\ UNCHANGED init_done
    /\ UNCHANGED <<hosted_initialized, event_lock, bus, rpc, chan, retry, gave_up,
                   tx_running, rx_running, tx_exited, rx_exited, tx, rx,
                   link_vars, slave_vars>>

\* A variant that leaves the state of the transport as it was.
BusDownStale ==
    /\ At("bus_down")
    /\ bus' = FALSE /\ uart_in' = 0
    /\ Goto("event_down")
    /\ UNCHANGED <<hosted_initialized, init_done, event_lock, rpc, chan, retry, gave_up,
                   transport_state, transport_up, rpc_state, task_vars, slave, reboots>>

BusDown ==
    /\ At("bus_down")
    /\ bus' = FALSE /\ uart_in' = 0
    /\ transport_state' = "inactive"
    /\ Goto("event_down")
    /\ UNCHANGED <<hosted_initialized, init_done, event_lock, rpc, chan, retry, gave_up,
                   transport_up, rpc_state, task_vars, slave, reboots>>

EventDown ==
    /\ At("event_down")
    /\ event_lock' = FALSE
    /\ hosted_initialized' = FALSE
    /\ Goto("idle")
    /\ UNCHANGED <<init_done, bus, rpc, chan, retry, gave_up, task_vars, link_vars, slave_vars>>

-----------------------------------------------------------------------------
(* The tasks.  Each raises its own flag when it begins, whatever           *)
(* jl_uart_transport_stop has made of it.                                  *)

TxBegin ==
    /\ tx = "new"
    /\ tx_running' = TRUE /\ tx' = "loop"
    /\ UNCHANGED <<app, app_vars, queue, has_queue, rx_running, tx_exited, rx_exited, rx,
                   link_vars, slave_vars>>

\* A packet is written to the UART and its buffer freed.
TxLoop ==
    /\ tx = "loop"
    /\ \/ /\ tx_running /\ queue # << >>
          /\ queue' = Tail(queue)
          /\ tx' = IF Head(queue) = "sentinel" THEN "leaving" ELSE "loop"
       \/ /\ ~tx_running
          /\ tx' = "leaving"
          /\ UNCHANGED queue
    /\ UNCHANGED <<app, app_vars, has_queue, tx_running, rx_running, tx_exited, rx_exited, rx,
                   link_vars, slave_vars>>

TxLeave ==
    /\ tx = "leaving"
    /\ tx_exited' = TRUE /\ tx_running' = FALSE
    /\ tx' = "done"
    /\ UNCHANGED <<app, app_vars, queue, has_queue, rx_running, rx_exited, rx,
                   link_vars, slave_vars>>

RxBegin ==
    /\ rx = "new"
    /\ rx_running' = TRUE /\ rx' = "wait"
    /\ UNCHANGED <<app, app_vars, queue, has_queue, tx_running, tx_exited, rx_exited, tx,
                   link_vars, slave_vars>>

RxStep(from, to) ==
    /\ rx = from /\ rx' = to
    /\ UNCHANGED <<app, app_vars, has_queue, tx_running, rx_running, tx_exited, rx_exited, tx>>

\* Until the receiver is let in nothing is read.
RxWait ==
    /\ rx_running /\ RxReady
    /\ RxStep("wait", "read")
    /\ UNCHANGED <<queue, link_vars, slave_vars>>

\* A packet arrives: the INIT event of the co-processor.
RxRead ==
    /\ rx_running /\ uart_in > 0
    /\ uart_in' = uart_in - 1
    /\ RxStep("read", "up_cb")
    /\ UNCHANGED <<queue, link_vars, slave, reboots>>

\* transport_driver_event_handler: the callback first, then the state.
RxUpCallback ==
    /\ transport_up' = TRUE
    /\ RxStep("up_cb", "tx_active")
    /\ UNCHANGED <<queue, transport_state, rpc_state, slave_vars>>

\* A variant that is done once the callback has run.
RxTxActiveSkipped ==
    /\ RxStep("tx_active", "config")
    /\ UNCHANGED <<queue, link_vars, slave_vars>>

RxTxActive ==
    /\ transport_state' = "tx_active"
    /\ RxStep("tx_active", "config")
    /\ UNCHANGED <<queue, transport_up, rpc_state, slave_vars>>

\* send_slave_config waits for room in the queue; without memory nothing is
\* sent and the event has failed.
RxConfig ==
    /\ \/ /\ has_queue /\ Len(queue) < QueueSize
          /\ queue' = Append(queue, "packet")
          /\ RxStep("config", "rpc_start")
       \/ /\ "memory" \in MayFail
          /\ RxStep("config", "read")
          /\ UNCHANGED queue
    /\ UNCHANGED <<link_vars, slave_vars>>

\* transport_delayed_init: rpc_start makes the RPC core ready, whatever its state.
RxRpcStart ==
    /\ rpc_state' = "ready"
    /\ RxStep("rpc_start", "read")
    /\ UNCHANGED <<queue, transport_state, transport_up, slave_vars>>

RxLeave ==
    /\ rx \in {"wait", "read"} /\ ~rx_running
    /\ rx' = "done" /\ rx_exited' = TRUE
    /\ UNCHANGED <<app, app_vars, queue, has_queue, tx_running, rx_running, tx_exited, tx,
                   link_vars, slave_vars>>

\* transport_drv_sta_tx, while the application has not begun to tear down.
NetSend ==
    /\ TxReady /\ chan
    /\ has_queue /\ Len(queue) < QueueSize
    /\ queue' = Append(queue, "packet")
    /\ UNCHANGED <<app, app_vars, has_queue, tx_running, rx_running, tx_exited, rx_exited,
                   tx, rx, link_vars, slave_vars>>

\* The co-processor boots and announces itself; a UART that is closed loses it.
SlaveBoot ==
    /\ slave = "booting"
    /\ slave' = "up"
    /\ uart_in' = IF bus THEN uart_in + 1 ELSE uart_in
    /\ UNCHANGED <<app, app_vars, task_vars, link_vars, reboots>>

SlaveReboot ==
    /\ slave = "up" /\ reboots < MaxReboots
    /\ slave' = "booting" /\ reboots' = reboots + 1
    /\ UNCHANGED <<app, app_vars, task_vars, link_vars, uart_in>>

-----------------------------------------------------------------------------
AppStep ==
    \/ EventInit \/ BusInit \/ RpcInit \/ Channels \/ Start
    \/ Resetting \/ Waiting
    \/ RpcDown \/ StopFlags \/ StopTx \/ StopRx \/ Kill \/ DeleteQueue \/ BusDown \/ EventDown

TxTask == TxBegin \/ TxLoop \/ TxLeave

RxTask ==
    \/ RxBegin \/ RxWait \/ RxRead \/ RxUpCallback \/ RxTxActive \/ RxConfig \/ RxRpcStart
    \/ RxLeave

Next ==
    \/ InitCall \/ ConnectCall \/ DeinitCall \/ AppStep
    \/ TxTask \/ RxTask
    \/ NetSend \/ SlaveBoot \/ SlaveReboot

Spec == Init /\ [][Next]_vars

\* A call that was begun goes on, the scheduler runs the tasks, and a
\* co-processor that was reset boots.
FairSpec ==
    /\ Spec
    /\ WF_vars(AppStep) /\ WF_vars(TxTask) /\ WF_vars(RxTask) /\ WF_vars(SlaveBoot)

-----------------------------------------------------------------------------
Alive(t) == t \notin {"none", "done"}

\* While one of the two tasks can still take a step, the queue it sends to or
\* receives from, the UART and the event registry exist: jl_uart_transport_stop
\* deletes them after the tasks, even those that did not stop in time.
TasksHaveWhatTheyUse == Alive(tx) \/ Alive(rx) => has_queue /\ bus /\ event_lock

\* When the host is down and no call is running, whatever failed on the way, both
\* tasks, the queue, the UART, the event registry, the channel and the RPC core's
\* threads are gone, and the transport is inactive.  Three variables are not taken
\* down with them and may differ from those of the first esp_hosted_init: an INIT
\* event that is handled during esp_hosted_deinit raises transport_up and rpc_state
\* again, and retry keeps what the last attempt to connect has made of it.
DownIsReleased ==
    At("idle") /\ ~hosted_initialized =>
        /\ tx = "none" /\ rx = "none" /\ ~has_queue
        /\ ~bus /\ ~event_lock /\ ~chan /\ ~rpc
        /\ transport_state = "inactive"

\* Every call of the application returns: connecting gives up, and stopping does
\* not wait for a task that is stuck in a full queue.
CallsReturn == ~At("idle") ~> At("idle")

\* Once the application has been told that the transport is up, and while the
\* receiver is at work, it can send, or it is taking the host down.
UpBecomesReady ==
    (transport_up /\ Alive(rx) /\ rx \notin {"new", "wait"}) ~> (TxReady \/ ~chan)

=============================================================================
