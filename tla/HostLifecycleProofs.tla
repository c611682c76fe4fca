------------------------ MODULE HostLifecycleProofs ------------------------
(***************************************************************************)
(* Bringing the host up and taking it down, for any sizes and retries and  *)
(* with every step of the initialisation free to fail.                     *)
(***************************************************************************)
EXTENDS HostLifecycle, TLAPS

-----------------------------------------------------------------------------
(* The inductive invariant.                                                *)

TypeOK ==
    /\ hosted_initialized \in BOOLEAN /\ init_done \in BOOLEAN
    /\ event_lock \in BOOLEAN /\ bus \in BOOLEAN /\ rpc \in BOOLEAN /\ chan \in BOOLEAN
    /\ has_queue \in BOOLEAN

Initialising == {"event_init", "bus_init", "rpc_init"}

Starting == {"channels", "start", "rpc_down"}

Stopping == {"stop_flags", "stop_tx", "stop_rx", "kill", "delete_queue"}

Connecting == {"idle", "resetting", "waiting"}

NoTasks == tx = "none" /\ rx = "none"

\* Where the calls are, and the network's channel exists only in an initialised host.
Calls ==
    /\ app \in Initialising \cup Starting \cup Stopping \cup Connecting
                 \cup {"bus_down", "event_down"}
    /\ app \in Initialising => ~hosted_initialized
    /\ app \in Starting \/ chan => hosted_initialized
    /\ app \in Initialising \cup {"bus_down", "event_down"} => ~chan

\* There are tasks only between their start and their end.
Tasks ==
    /\ app \in Initialising => NoTasks /\ ~has_queue
    /\ app \in Connecting /\ ~hosted_initialized => NoTasks /\ ~has_queue
    /\ app \in {"delete_queue", "bus_down", "event_down"} => NoTasks
    /\ app \in {"bus_down", "event_down"} => ~has_queue
    /\ app = "start" => NoTasks
    /\ ~has_queue => NoTasks

\* The UART and the event registry are there from their initialisation until the tasks are gone.
Resources ==
    /\ app \in {"rpc_init"} \cup Starting \cup Stopping \cup {"bus_down"} => bus /\ event_lock
    /\ app = "bus_init" => event_lock
    /\ app \in Connecting /\ hosted_initialized => bus /\ event_lock

TaskInv == TypeOK /\ Calls /\ Tasks /\ Resources

\* What is left of a host that is down, or on its way up or down.
Rest ==
    /\ init_done => hosted_initialized
    /\ app \in Initialising \cup {"channels", "start", "bus_down", "event_down"} => ~init_done
    /\ app \in Stopping /\ ~chan => ~init_done /\ ~rpc
    /\ app \in Initialising \cup {"bus_down", "event_down"} => ~rpc
    /\ app \in {"resetting", "waiting"} => hosted_initialized
    /\ app \in Initialising \cup {"event_down"} => transport_state = "inactive"
    /\ app \in {"event_init", "bus_init", "event_down"} => ~bus
    /\ app = "event_init" => ~event_lock
    /\ app = "start" => chan

DownInv == TaskInv /\ Rest /\ DownIsReleased

-----------------------------------------------------------------------------
(* The tasks and what they use.                                            *)

LEMMA InitTasks == Init => TaskInv
BY DEF Init, TaskInv, TypeOK, Calls, Tasks, Resources, NoTasks, Initialising, Starting, Stopping,
       Connecting

LEMMA NextTasks == TaskInv /\ [Next]_vars => TaskInv'
<1> SUFFICES ASSUME TaskInv, [Next]_vars PROVE TaskInv'
  OBVIOUS
<1> USE DEF TaskInv, TypeOK, Calls, Tasks, Resources, NoTasks, Initialising, Starting, Stopping,
            Connecting, At, Goto, app_vars, task_vars
<1>1. CASE InitCall
  BY <1>1 DEF InitCall
<1>2. CASE EventInit
  BY <1>2 DEF EventInit
<1>3. CASE BusInit
  BY <1>3 DEF BusInit
<1>4. CASE RpcInit
  BY <1>4 DEF RpcInit
<1>5. CASE Channels
  BY <1>5 DEF Channels
<1>6. CASE Start
  BY <1>6 DEF Start
<1>7. CASE ConnectCall
  BY <1>7 DEF ConnectCall, Reset
<1>8. CASE Resetting
  BY <1>8 DEF Resetting
<1>9. CASE Waiting
  BY <1>9 DEF Waiting, Reset
<1>10. CASE DeinitCall
  BY <1>10 DEF DeinitCall
<1>11. CASE RpcDown
  BY <1>11 DEF RpcDown
<1>12. CASE StopFlags
  BY <1>12 DEF StopFlags
<1>13. CASE StopTx
  BY <1>13 DEF StopTx
<1>14. CASE StopRx
  BY <1>14 DEF StopRx
<1>15. CASE Kill
  BY <1>15 DEF Kill
<1>16. CASE DeleteQueue
  BY <1>16 DEF DeleteQueue
<1>17. CASE BusDown
  BY <1>17 DEF BusDown
<1>18. CASE EventDown
  BY <1>18 DEF EventDown
<1>19. CASE TxBegin
  BY <1>19 DEF TxBegin
<1>20. CASE TxLoop
  BY <1>20 DEF TxLoop
<1>21. CASE TxLeave
  BY <1>21 DEF TxLeave
<1>22. CASE RxBegin
  BY <1>22 DEF RxBegin
<1>23. CASE RxWait
  BY <1>23 DEF RxWait, RxStep
<1>24. CASE RxRead
  BY <1>24 DEF RxRead, RxStep
<1>25. CASE RxUpCallback
  BY <1>25 DEF RxUpCallback, RxStep
<1>26. CASE RxTxActive
  BY <1>26 DEF RxTxActive, RxStep
<1>27. CASE RxConfig
  BY <1>27 DEF RxConfig, RxStep
<1>28. CASE RxRpcStart
  BY <1>28 DEF RxRpcStart, RxStep
<1>29. CASE RxLeave
  BY <1>29 DEF RxLeave
<1>30. CASE NetSend
  BY <1>30 DEF NetSend
<1>31. CASE SlaveBoot
  BY <1>31 DEF SlaveBoot
<1>32. CASE SlaveReboot
  BY <1>32 DEF SlaveReboot
<1>33. CASE UNCHANGED vars
  BY <1>33 DEF vars
<1> QED
  BY <1>1, <1>2, <1>3, <1>4, <1>5, <1>6, <1>7, <1>8, <1>9, <1>10, <1>11, <1>12, <1>13,
     <1>14, <1>15, <1>16, <1>17, <1>18, <1>19, <1>20, <1>21, <1>22, <1>23, <1>24, <1>25,
     <1>26, <1>27, <1>28, <1>29, <1>30, <1>31, <1>32, <1>33 DEF Next, AppStep, TxTask,
     RxTask

LEMMA TaskInvHolds == Spec => []TaskInv
BY InitTasks, NextTasks, PTL DEF Spec

\* As long as a task of the transport can still run, the queue, the UART and the event registry it
\* uses exist, whichever step of the initialisation fails, whatever jl_uart_transport_stop waited
\* for in vain, and however the application connects.
THEOREM TasksAreSafe == Spec => []TasksHaveWhatTheyUse
<1>1. TaskInv => TasksHaveWhatTheyUse
  BY DEF TaskInv, TypeOK, Calls, Tasks, Resources, NoTasks, Initialising, Starting, Stopping,
         Connecting, TasksHaveWhatTheyUse, Alive
<1> QED BY <1>1, TaskInvHolds, PTL

-----------------------------------------------------------------------------
(* A host that is down.                                                    *)

LEMMA InitDown == Init => DownInv
BY InitTasks DEF Init, DownInv, Rest, DownIsReleased, Initialising, Stopping, At

LEMMA NextDown ==
    ASSUME "rpc" \notin MayFail, "connect_down" \notin Habits
    PROVE  DownInv /\ [Next]_vars => DownInv'
<1> SUFFICES ASSUME DownInv, [Next]_vars PROVE Rest' /\ DownIsReleased'
  BY NextTasks DEF DownInv
<1> USE DEF DownInv, Rest, DownIsReleased,
            TaskInv, TypeOK, Calls, Tasks, Resources, NoTasks, Initialising, Starting, Stopping,
            Connecting, At, Goto, app_vars, task_vars, link_vars
<1>1. CASE InitCall
  BY <1>1 DEF InitCall
<1>2. CASE EventInit
  BY <1>2 DEF EventInit
<1>3. CASE BusInit
  BY <1>3 DEF BusInit
<1>4. CASE RpcInit
  BY <1>4 DEF RpcInit
<1>5. CASE Channels
  BY <1>5 DEF Channels
<1>6. CASE Start
  BY <1>6 DEF Start
<1>7. CASE ConnectCall
  BY <1>7 DEF ConnectCall, Reset
<1>8. CASE Resetting
  BY <1>8 DEF Resetting
<1>9. CASE Waiting
  BY <1>9 DEF Waiting, Reset
<1>10. CASE DeinitCall
  BY <1>10 DEF DeinitCall
<1>11. CASE RpcDown
  BY <1>11 DEF RpcDown
<1>12. CASE StopFlags
  BY <1>12 DEF StopFlags
<1>13. CASE StopTx
  BY <1>13 DEF StopTx
<1>14. CASE StopRx
  BY <1>14 DEF StopRx
<1>15. CASE Kill
  BY <1>15 DEF Kill
<1>16. CASE DeleteQueue
  BY <1>16 DEF DeleteQueue
<1>17. CASE BusDown
  BY <1>17 DEF BusDown
<1>18. CASE EventDown
  BY <1>18 DEF EventDown
<1>19. CASE TxBegin
  BY <1>19 DEF TxBegin
<1>20. CASE TxLoop
  BY <1>20 DEF TxLoop
<1>21. CASE TxLeave
  BY <1>21 DEF TxLeave
<1>22. CASE RxBegin
  BY <1>22 DEF RxBegin
<1>23. CASE RxWait
  BY <1>23 DEF RxWait, RxStep
<1>24. CASE RxRead
  BY <1>24 DEF RxRead, RxStep
<1>25. CASE RxUpCallback
  BY <1>25 DEF RxUpCallback, RxStep
<1>26. CASE RxTxActive
  BY <1>26 DEF RxTxActive, RxStep
<1>27. CASE RxConfig
  BY <1>27 DEF RxConfig, RxStep
<1>28. CASE RxRpcStart
  BY <1>28 DEF RxRpcStart, RxStep
<1>29. CASE RxLeave
  BY <1>29 DEF RxLeave
<1>30. CASE NetSend
  BY <1>30 DEF NetSend
<1>31. CASE SlaveBoot
  BY <1>31 DEF SlaveBoot
<1>32. CASE SlaveReboot
  BY <1>32 DEF SlaveReboot
<1>33. CASE UNCHANGED vars
  BY <1>33 DEF vars
<1> QED
  BY <1>1, <1>2, <1>3, <1>4, <1>5, <1>6, <1>7, <1>8, <1>9, <1>10, <1>11, <1>12, <1>13,
     <1>14, <1>15, <1>16, <1>17, <1>18, <1>19, <1>20, <1>21, <1>22, <1>23, <1>24, <1>25,
     <1>26, <1>27, <1>28, <1>29, <1>30, <1>31, <1>32, <1>33 DEF Next, AppStep, TxTask,
     RxTask

\* A host that is down has neither tasks nor queue, UART, event registry, channel or RPC threads,
\* and its transport is inactive, whatever failed on the way, provided that rpc_core_init does not
\* fail half-way (its roll-back does nothing) and that nobody connects a host that is down (which
\* nothing prevents).  The flags transport_up and rpc_state and the count of retries are not part
\* of the statement: they outlive esp_hosted_deinit.
THEOREM DownReleases ==
    ASSUME "rpc" \notin MayFail, "connect_down" \notin Habits
    PROVE  Spec => []DownIsReleased
<1>1. DownInv => DownIsReleased
  BY DEF DownInv
<1>2. DownInv /\ [Next]_vars => DownInv'
  BY NextDown
<1> QED BY <1>1, <1>2, InitDown, PTL DEF Spec

=============================================================================
