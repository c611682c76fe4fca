------------------------------ MODULE RpcCore ------------------------------
(***************************************************************************)
(* The request/response engine of the host, host/core/src/h_rpc_core.c:    *)
(* application threads that issue synchronous or asynchronous requests,    *)
(* the rpc_tx thread that sends them, the rpc_rx thread that dispatches    *)
(* what the co-processor answers, and the timer task that expires          *)
(* asynchronous requests.  They share two queues, one counting semaphore   *)
(* and two tables that no lock protects, so every read and every write of  *)
(* a table slot another thread can get in between is a step of its own.    *)
(*                                                                         *)
(* A request (ctrl_cmd_t) is named by its uid, which is unique as long as  *)
(* fewer than UidMod - 1 requests are made.  Its response is named by the  *)
(* same uid; 0 is the uid of a response nobody numbered.                   *)
(***************************************************************************)
EXTENDS Naturals, Sequences, FiniteSets

CONSTANTS
    SyncCallers,   \* threads whose requests carry no rpc_rsp_cb
    AsyncCallers,  \* threads whose requests carry one
    CallBudget,    \* [Callers -> Nat]: how many requests a thread makes
    MaxSync,       \* MAX_SYNC_RPC_TRANSACTIONS
    MaxAsync,      \* MAX_ASYNC_RPC_TRANSACTIONS
    TxQSize,       \* RPC_TX_QUEUE_SIZE
    RxQSize,       \* RPC_RX_QUEUE_SIZE
    UidMod,        \* 2^32 in the code
    UidStart,      \* value of the uid counter when the behaviour starts
    MaxFail,       \* how many requests may fail in process_rpc_tx_msg
    MaxLoss,       \* how many requests the co-processor may leave unanswered
    MaxEvents,     \* how many events the co-processor sends
    MaxStops,      \* how often rpc_core_stop or a second rpc_core_init may run
    MayOom,        \* TRUE: a response or a semaphore may find no memory
    TimersApart,   \* TRUE: a timer is not handled during other work on its request
    MayDeinit      \* TRUE: rpc_core_deinit may run

Callers == SyncCallers \cup AsyncCallers
Uids    == 1 .. (UidMod - 1)
Uid0    == 0 .. (UidMod - 1)       \* 0: no uid, NULL
SSlots  == 1 .. MaxSync
ASlots  == 1 .. MaxAsync

ASSUME CallersAssumption ==
    /\ IsFiniteSet(SyncCallers) /\ IsFiniteSet(AsyncCallers)
    /\ SyncCallers \cap AsyncCallers = {}
    /\ CallBudget \in [Callers -> Nat]
ASSUME SizesAssumption ==
    /\ MaxSync \in Nat \ {0} /\ MaxAsync \in Nat \ {0}
    /\ TxQSize \in Nat \ {0} /\ RxQSize \in Nat \ {0}
    /\ TxQSize <= MaxSync + MaxAsync
    /\ UidMod \in Nat /\ UidMod > 1 /\ UidStart \in Uid0
ASSUME EnvironmentAssumption ==
    /\ MaxFail \in Nat /\ MaxLoss \in Nat /\ MaxEvents \in Nat /\ MaxStops \in Nat
    /\ MayOom \in BOOLEAN /\ TimersApart \in BOOLEAN /\ MayDeinit \in BOOLEAN

VARIABLES
    lib,        \* rpc_lib_ctxt.state
    uid,        \* the uid counter
    calls,      \* [Callers -> Nat]: requests made so far
    has_cb,     \* requests whose rpc_rsp_cb is not NULL
    cpc, creq, cslot, csem, cret, \* per caller: position, app_req, slot, semaphore, result
    cmsg,       \* per caller: uid of the response it dequeued
    sync_uid, sync_sem,           \* sync_rsp_table
    sem,        \* [Uid0 -> {"none", "empty", "full"}]: rx_sem of a request
    async,      \* async_rsp_table
    timers,     \* armed one-shot timers, by the request they carry
    freed,      \* [Uid0 -> Nat]: how often a request was handed to h_free
    rpc_tx_q, rpc_tx_sem, txpc, txreq, txslot, txsem,
    rpc_rx_q, rxpc, rxmsg, rxslot, rxsem,
    tmpc, tmreq, tmslot,             \* the timer task
    net_up,     \* requests on their way to the co-processor
    net_down,   \* responses on their way back; 0 is an event
    failed, lost, events, delivered, stops,
    notes,      \* [Uid0 -> Seq(Note)]: what the application was told
    crashed     \* an assertion or a NULL call stopped the host

numbering  == <<uid, calls, has_cb>>
locals     == <<creq, cslot, csem, cret, cmsg>>
callerVars == <<numbering, cpc, locals>>
syncVars   == <<sync_uid, sync_sem, sem>>
asyncVars  == <<async, timers>>
txVars     == <<rpc_tx_q, rpc_tx_sem, txpc, txreq, txslot, txsem>>
rxVars     == <<rxpc, rxmsg, rxslot, rxsem>>
timerVars  == <<tmpc, tmreq, tmslot>>
netVars    == <<net_up, net_down, lost, events, delivered>>
libVars    == <<lib, stops>>
vars == <<callerVars, syncVars, asyncVars, txVars, rpc_rx_q, rxVars, timerVars,
          netVars, libVars, freed, failed, notes, crashed>>

Note == {"resp", "other", "timeout", "fail", "error", "busy"}

CallerPc == {"idle", "scan", "setuid", "setsem", "enqueue", "ind", "lookup", "wait", "delete",
             "clruid", "clrsem", "recv", "free"}
TxPc    == {"poll", "sem", "recv", "compose", "timer", "setuid", "setcb", "send", "sent",
            "fail", "failpost", "failgive", "failfree", "dead"}
RxPc    == {"poll", "read", "classify", "find", "call", "clear1", "clear2", "clear3", "put", "post",
            "give", "dead"}
TimerPc == {"idle", "find", "clear1", "clear2", "clear3", "call"}

AsyncSlot == [uid : Uid0, cb : BOOLEAN, timer : Uid0, req : Uid0]

CallerTypeOK ==
    /\ uid \in Uid0 /\ calls \in [Callers -> Nat] /\ has_cb \in SUBSET Uids
    /\ cpc \in [Callers -> CallerPc] /\ creq \in [Callers -> Uid0]
    /\ cslot \in [Callers -> SSlots] /\ csem \in [Callers -> Uid0]
    /\ cret \in [Callers -> {"ok", "timeout", "error"}] /\ cmsg \in [Callers -> Uid0]
SyncTypeOK ==
    /\ sync_uid \in [SSlots -> Uid0] /\ sync_sem \in [SSlots -> Uid0]
    /\ sem \in [Uid0 -> {"none", "empty", "full"}]
AsyncTypeOK ==
    /\ async \in [ASlots -> AsyncSlot] /\ timers \in SUBSET Uid0
TxTypeOK ==
    /\ rpc_tx_q \in Seq(Uid0) /\ rpc_tx_sem \in Nat
    /\ txpc \in TxPc /\ txreq \in Uid0 /\ txslot \in ASlots /\ txsem \in Uid0
RxTypeOK ==
    /\ rpc_rx_q \in Seq(Uid0) /\ rxpc \in RxPc /\ rxmsg \in Uid0
    /\ rxslot \in ASlots /\ rxsem \in Uid0
TimerTypeOK ==
    /\ tmpc \in TimerPc /\ tmreq \in Uid0 /\ tmslot \in ASlots
NetTypeOK ==
    /\ net_up \in Seq(Uid0) /\ net_down \in Seq(Uid0) /\ lost \in SUBSET Uid0
    /\ events \in Nat /\ delivered \in Nat
FateTypeOK ==
    /\ lib \in {"inactive", "init", "ready"} /\ stops \in Nat
    /\ freed \in [Uid0 -> Nat] /\ failed \in SUBSET Uid0
    /\ notes \in [Uid0 -> Seq(Note)] /\ crashed \in BOOLEAN

\* The values each variable ranges over.
TypeOK ==
    /\ CallerTypeOK /\ SyncTypeOK /\ AsyncTypeOK /\ TxTypeOK /\ RxTypeOK
    /\ TimerTypeOK /\ NetTypeOK /\ FateTypeOK

Init ==
    /\ lib = "init" /\ stops = 0
    /\ uid = UidStart /\ calls = [c \in Callers |-> 0] /\ has_cb = {}
    /\ cpc = [c \in Callers |-> "idle"] /\ creq = [c \in Callers |-> 0]
    /\ cslot = [c \in Callers |-> 1] /\ csem = [c \in Callers |-> 0]
    /\ cret = [c \in Callers |-> "ok"] /\ cmsg = [c \in Callers |-> 0]
    /\ sync_uid = [i \in SSlots |-> 0] /\ sync_sem = [i \in SSlots |-> 0]
    /\ sem = [u \in Uid0 |-> "none"]
    /\ async = [i \in ASlots |-> [uid |-> 0, cb |-> FALSE, timer |-> 0, req |-> 0]]
    /\ timers = {} /\ freed = [u \in Uid0 |-> 0]
    /\ rpc_tx_q = <<>> /\ rpc_tx_sem = 0 /\ txpc = "poll" /\ txreq = 0
    /\ txslot = 1 /\ txsem = 0
    /\ rpc_rx_q = <<>> /\ rxpc = "poll" /\ rxmsg = 0 /\ rxslot = 1 /\ rxsem = 0
    /\ tmpc = "idle" /\ tmreq = 0 /\ tmslot = 1
    /\ net_up = <<>> /\ net_down = <<>>
    /\ failed = {} /\ lost = {} /\ events = 0 /\ delivered = 0
    /\ notes = [u \in Uid0 |-> <<>>] /\ crashed = FALSE
-----------------------------------------------------------------------------
(* What the threads share.                                                 *)

\* Mutant of NextUid: a rollover yields uid 0.
NextUidNoSkip(u) == IF u = UidMod - 1 THEN 0 ELSE u + 1

\* uid++, skipping 0 on rollover.
NextUid(u) ==
    LET next == IF u = UidMod - 1 THEN 0 ELSE u + 1
    IN  IF next = 0 THEN next + 1 ELSE next

\* First slot of a table whose uid is u, the way every scan of a table finds it.
FirstSync(i, u)  == sync_uid[i] = u /\ \A j \in SSlots : j < i => sync_uid[j] # u
FirstAsync(i, u) == async[i].uid = u /\ \A j \in ASlots : j < i => async[j].uid # u
InSync(u)  == \E i \in SSlots : sync_uid[i] = u
InAsync(u) == \E i \in ASlots : async[i].uid = u

\* h_free(app_req), and the application learning the fate of a request.
Free(u)    == freed' = [freed EXCEPT ![u] = @ + 1]
Tell(u, n) == notes' = [notes EXCEPT ![u] = Append(@, n)]

\* h_sem_give on a NULL or deleted semaphore is undefined: the ESP-IDF port
\* asserts, the JL port returns an error.
SemGive(s) ==
    IF s # 0 /\ sem[s] # "none"
    THEN sem' = [sem EXCEPT ![s] = "full"] /\ UNCHANGED crashed
    ELSE crashed' \in BOOLEAN /\ UNCHANGED sem
-----------------------------------------------------------------------------
(* rpc_send_req and rpc_wait_and_parse_sync_resp, in the caller's thread.  *)

offCaller == <<asyncVars, rxVars, timerVars, netVars, libVars, failed>>

Goto(c, p) == cpc' = [cpc EXCEPT ![c] = p]

\* The call returns: its locals are gone.
Return(c) ==
    /\ Goto(c, "idle")
    /\ creq' = [creq EXCEPT ![c] = 0] /\ cslot' = [cslot EXCEPT ![c] = 1]
    /\ csem' = [csem EXCEPT ![c] = 0] /\ cret' = [cret EXCEPT ![c] = "ok"]
    /\ cmsg' = [cmsg EXCEPT ![c] = 0]

\* uid_mutex makes the numbering one step.
AssignUid(c) ==
    /\ ~crashed /\ cpc[c] = "idle" /\ lib # "inactive" /\ calls[c] < CallBudget[c]
    /\ calls' = [calls EXCEPT ![c] = @ + 1]
    /\ uid' = NextUid(uid)
    /\ creq' = [creq EXCEPT ![c] = uid']
    /\ IF c \in SyncCallers
       THEN Goto(c, "scan") /\ UNCHANGED has_cb
       ELSE Goto(c, "enqueue") /\ has_cb' = has_cb \cup {uid'}
    /\ UNCHANGED <<cslot, csem, cret, cmsg, syncVars, txVars, rpc_rx_q, freed, notes,
                   crashed, offCaller>>

\* set_sync_resp_sem up to the slot it will take; no semaphore or a full table
\* ends the call.
ScanSyncTable(c) ==
    /\ ~crashed /\ cpc[c] = "scan"
    /\ \/ /\ \E i \in SSlots : FirstSync(i, 0) /\ cslot' = [cslot EXCEPT ![c] = i]
          /\ sem' = [sem EXCEPT ![creq[c]] = "empty"]
          /\ Goto(c, "setuid")
          /\ UNCHANGED <<creq, csem, cret, cmsg, freed, notes>>
       \/ /\ ~InSync(0) \/ MayOom
          /\ Free(creq[c]) /\ Tell(creq[c], "busy") /\ Return(c)
          /\ UNCHANGED sem
    /\ UNCHANGED <<numbering, sync_uid, sync_sem, txVars, rpc_rx_q, crashed, offCaller>>

SetSyncUid(c) ==
    /\ ~crashed /\ cpc[c] = "setuid"
    /\ sync_uid' = [sync_uid EXCEPT ![cslot[c]] = creq[c]]
    /\ Goto(c, "setsem")
    /\ UNCHANGED <<numbering, locals, sync_sem, sem, txVars, rpc_rx_q, freed, notes,
                   crashed, offCaller>>

SetSyncSem(c) ==
    /\ ~crashed /\ cpc[c] = "setsem"
    /\ sync_sem' = [sync_sem EXCEPT ![cslot[c]] = creq[c]]
    /\ Goto(c, "enqueue")
    /\ UNCHANGED <<numbering, locals, sync_uid, sem, txVars, rpc_rx_q, freed, notes,
                   crashed, offCaller>>

\* h_queue_send(rpc_tx_q) blocks while the queue is full.
EnqueueReq(c) ==
    /\ ~crashed /\ cpc[c] = "enqueue" /\ Len(rpc_tx_q) < TxQSize
    /\ rpc_tx_q' = Append(rpc_tx_q, creq[c])
    /\ Goto(c, "ind")
    /\ UNCHANGED <<numbering, locals, syncVars, rpc_tx_sem, txpc, txreq, txslot, txsem, rpc_rx_q,
                   freed, notes, crashed, offCaller>>

\* Mutant of rpc_tx_ind: the wake-up is lost.
tx_ind_lost == UNCHANGED rpc_tx_sem

\* A give on the counting semaphore, which saturates.
rpc_tx_ind ==
    rpc_tx_sem' = IF rpc_tx_sem < MaxSync + MaxAsync THEN rpc_tx_sem + 1 ELSE rpc_tx_sem

\* An asynchronous request returns after the wake-up, a synchronous one waits.
TxInd(c) ==
    /\ ~crashed /\ cpc[c] = "ind"
    /\ rpc_tx_ind
    /\ IF c \in SyncCallers
       THEN Goto(c, "lookup") /\ UNCHANGED <<creq, cslot, csem, cret, cmsg>>
       ELSE Return(c)
    /\ UNCHANGED <<numbering, syncVars, rpc_tx_q, txpc, txreq, txslot, txsem, rpc_rx_q, freed,
                   notes, crashed, offCaller>>

\* wait_for_sync_response finds the slot of its own uid and reads its semaphore.
LookupSyncSlot(c) ==
    /\ ~crashed /\ cpc[c] = "lookup"
    /\ \/ /\ \E i \in SSlots :
               /\ FirstSync(i, creq[c])
               /\ cslot' = [cslot EXCEPT ![c] = i]
               /\ csem' = [csem EXCEPT ![c] = sync_sem[i]]
          /\ Goto(c, "wait") /\ UNCHANGED cret
       \/ /\ ~InSync(creq[c])
          /\ cret' = [cret EXCEPT ![c] = "error"]
          /\ Goto(c, "free") /\ UNCHANGED <<cslot, csem>>
    /\ UNCHANGED <<numbering, creq, cmsg, syncVars, txVars, rpc_rx_q, freed, notes,
                   crashed, offCaller>>

\* h_sem_take: woken, timed out, or called with a NULL semaphore.  The timeout is in
\* seconds and h_sem_take counts milliseconds, so the default of 5 s is over after 5 ms
\* and may be over before the answer, the send or even the tx thread comes to it.
TakeSyncSem(c) ==
    /\ ~crashed /\ cpc[c] = "wait"
    /\ \/ /\ csem[c] # 0 /\ sem[csem[c]] = "full"
          /\ sem' = [sem EXCEPT ![csem[c]] = "empty"]
          /\ UNCHANGED <<cret, crashed>>
       \/ /\ csem[c] # 0 /\ sem[csem[c]] # "full"
          /\ cret' = [cret EXCEPT ![c] = "timeout"]
          /\ UNCHANGED <<sem, crashed>>
       \/ /\ csem[c] = 0
          /\ cret' = [cret EXCEPT ![c] = "error"]
          /\ crashed' \in BOOLEAN /\ UNCHANGED sem
    /\ Goto(c, "delete")
    /\ UNCHANGED <<numbering, creq, cslot, csem, cmsg, sync_uid, sync_sem, txVars,
                   rpc_rx_q, freed, notes, offCaller>>

\* h_sem_delete reads the slot again.
DeleteSyncSem(c) ==
    /\ ~crashed /\ cpc[c] = "delete"
    /\ LET s == sync_sem[cslot[c]] IN
         IF s # 0 THEN sem' = [sem EXCEPT ![s] = "none"] /\ UNCHANGED crashed
                  ELSE crashed' \in BOOLEAN /\ UNCHANGED sem
    /\ Goto(c, "clruid")
    /\ UNCHANGED <<numbering, locals, sync_uid, sync_sem, txVars, rpc_rx_q, freed, notes,
                   offCaller>>

\* Mutant of ClearSyncUid: a call that timed out keeps its slot.
ClearSyncUidIfOk(c) ==
    /\ ~crashed /\ cpc[c] = "clruid"
    /\ sync_uid' = [sync_uid EXCEPT ![cslot[c]] = IF cret[c] = "ok" THEN 0 ELSE @]
    /\ Goto(c, "clrsem")
    /\ UNCHANGED <<numbering, locals, sync_sem, sem, txVars, rpc_rx_q, freed, notes,
                   crashed, offCaller>>

ClearSyncUid(c) ==
    /\ ~crashed /\ cpc[c] = "clruid"
    /\ sync_uid' = [sync_uid EXCEPT ![cslot[c]] = 0]
    /\ Goto(c, "clrsem")
    /\ UNCHANGED <<numbering, locals, sync_sem, sem, txVars, rpc_rx_q, freed, notes,
                   crashed, offCaller>>

\* Mutant of ClearSyncSem: a call that timed out reads the queue all the same.
ClearSyncSemHopeful(c) ==
    /\ ~crashed /\ cpc[c] = "clrsem"
    /\ sync_sem' = [sync_sem EXCEPT ![cslot[c]] = 0]
    /\ Goto(c, IF cret[c] = "error" THEN "free" ELSE "recv")
    /\ UNCHANGED <<numbering, locals, sync_uid, sem, txVars, rpc_rx_q, freed, notes,
                   crashed, offCaller>>

ClearSyncSem(c) ==
    /\ ~crashed /\ cpc[c] = "clrsem"
    /\ sync_sem' = [sync_sem EXCEPT ![cslot[c]] = 0]
    /\ Goto(c, IF cret[c] = "ok" THEN "recv" ELSE "free")
    /\ UNCHANGED <<numbering, locals, sync_uid, sem, txVars, rpc_rx_q, freed, notes,
                   crashed, offCaller>>

\* get_response takes whatever response is first in rpc_rx_q.
DequeueResp(c) ==
    /\ ~crashed /\ cpc[c] = "recv" /\ rpc_rx_q # <<>>
    /\ cmsg' = [cmsg EXCEPT ![c] = Head(rpc_rx_q)]
    /\ rpc_rx_q' = Tail(rpc_rx_q)
    /\ Goto(c, "free")
    /\ UNCHANGED <<numbering, creq, cslot, csem, cret, syncVars, txVars, freed, notes,
                   crashed, offCaller>>

\* What the caller is told: its own response, a failure response, or another's.
Verdict(c) ==
    IF cret[c] # "ok" THEN cret[c]
    ELSE IF cmsg[c] = creq[c] THEN "resp"
    ELSE IF cmsg[c] = 0 THEN "fail" ELSE "other"

FreeReq(c) ==
    /\ ~crashed /\ cpc[c] = "free"
    /\ Free(creq[c]) /\ Tell(creq[c], Verdict(c)) /\ Return(c)
    /\ UNCHANGED <<numbering, syncVars, txVars, rpc_rx_q, crashed, offCaller>>

Caller(c) ==
    \/ AssignUid(c) \/ ScanSyncTable(c) \/ SetSyncUid(c) \/ SetSyncSem(c) \/ EnqueueReq(c)
    \/ TxInd(c) \/ LookupSyncSlot(c) \/ TakeSyncSem(c) \/ DeleteSyncSem(c)
    \/ ClearSyncUid(c) \/ ClearSyncSem(c) \/ DequeueResp(c) \/ FreeReq(c)
-----------------------------------------------------------------------------
(* rpc_tx_thread and process_rpc_tx_msg.                                   *)

offTx == <<callerVars, sync_uid, sync_sem, rxVars, timerVars, net_down, lost, events,
           delivered, libVars>>

\* Back to the head of the loop.
TxDone == txpc' = "poll" /\ txreq' = 0 /\ txslot' = 1 /\ txsem' = 0

\* is_rpc_lib_ready is looked at once, before the thread blocks.
TxPoll ==
    /\ ~crashed /\ txpc = "poll" /\ lib = "ready"
    /\ txpc' = "sem"
    /\ UNCHANGED <<offTx, sem, asyncVars, rpc_tx_q, rpc_tx_sem, txreq, txslot, txsem, rpc_rx_q,
                   net_up, freed, failed, notes, crashed>>

\* Mutant of TxTake: the thread does not wait for a wake-up.
TxTakeNoWait ==
    /\ ~crashed /\ txpc = "sem" /\ rpc_tx_q # <<>>
    /\ rpc_tx_sem' = rpc_tx_sem - 1 /\ txpc' = "recv"
    /\ UNCHANGED <<offTx, sem, asyncVars, rpc_tx_q, txreq, txslot, txsem, rpc_rx_q, net_up,
                   freed, failed, notes, crashed>>

TxTake ==
    /\ ~crashed /\ txpc = "sem" /\ rpc_tx_sem > 0
    /\ rpc_tx_sem' = rpc_tx_sem - 1 /\ txpc' = "recv"
    /\ UNCHANGED <<offTx, sem, asyncVars, rpc_tx_q, txreq, txslot, txsem, rpc_rx_q, net_up,
                   freed, failed, notes, crashed>>

TxRecv ==
    /\ ~crashed /\ txpc = "recv" /\ rpc_tx_q # <<>>
    /\ txreq' = Head(rpc_tx_q) /\ rpc_tx_q' = Tail(rpc_tx_q) /\ txpc' = "compose"
    /\ UNCHANGED <<offTx, sem, asyncVars, rpc_tx_sem, txslot, txsem, rpc_rx_q, net_up, freed,
                   failed, notes, crashed>>

\* A step of process_rpc_tx_msg that cannot go on jumps to fail_req.
FailReq == failed' = failed \cup {txreq} /\ txpc' = "fail"

MayFail == Cardinality(failed) < MaxFail

\* compose_rpc_req, the packed size and the allocation of tx_data.
TxCompose ==
    /\ ~crashed /\ txpc = "compose"
    /\ \/ /\ txpc' = IF txreq \in has_cb THEN "timer" ELSE "send"
          /\ UNCHANGED failed
       \/ MayFail /\ FailReq
    /\ UNCHANGED <<offTx, sem, asyncVars, rpc_tx_q, rpc_tx_sem, txreq, txslot, txsem, rpc_rx_q,
                   net_up, freed, notes, crashed>>

TxStartTimer ==
    /\ ~crashed /\ txpc = "timer"
    /\ \/ timers' = timers \cup {txreq} /\ txpc' = "setuid" /\ UNCHANGED failed
       \/ MayFail /\ FailReq /\ UNCHANGED timers
    /\ UNCHANGED <<offTx, sem, async, rpc_tx_q, rpc_tx_sem, txreq, txslot, txsem, rpc_rx_q,
                   net_up, freed, notes, crashed>>

\* set_async_resp_callback takes a slot; a full table leaves the timer armed.
TxSetUid ==
    /\ ~crashed /\ txpc = "setuid"
    /\ \/ /\ \E i \in ASlots :
               FirstAsync(i, 0) /\ txslot' = i /\ async' = [async EXCEPT ![i].uid = txreq]
          /\ txpc' = "setcb" /\ UNCHANGED failed
       \/ ~InAsync(0) /\ FailReq /\ UNCHANGED <<async, txslot>>
    /\ UNCHANGED <<offTx, sem, timers, rpc_tx_q, rpc_tx_sem, txreq, txsem, rpc_rx_q, net_up,
                   freed, notes, crashed>>

TxSetCb ==
    /\ ~crashed /\ txpc = "setcb"
    /\ async' = [async EXCEPT ![txslot] = [uid |-> @.uid, cb |-> TRUE, timer |-> txreq,
                                           req |-> txreq]]
    /\ txpc' = "send"
    /\ UNCHANGED <<offTx, sem, timers, rpc_tx_q, rpc_tx_sem, txreq, txslot, txsem, rpc_rx_q,
                   net_up, freed, failed, notes, crashed>>

\* Mutant of TxSend: the request is freed once it is on its way.
TxSendFrees ==
    /\ ~crashed /\ txpc = "send"
    /\ Free(txreq) /\ net_up' = Append(net_up, txreq) /\ txpc' = "sent"
    /\ UNCHANGED <<offTx, sem, asyncVars, rpc_tx_q, rpc_tx_sem, txreq, txslot, txsem, rpc_rx_q,
                   failed, notes, crashed>>

TxSend ==
    /\ ~crashed /\ txpc = "send"
    /\ \/ net_up' = Append(net_up, txreq) /\ txpc' = "sent" /\ UNCHANGED failed
       \/ MayFail /\ FailReq /\ UNCHANGED net_up
    /\ UNCHANGED <<offTx, sem, asyncVars, rpc_tx_q, rpc_tx_sem, txreq, txslot, txsem, rpc_rx_q,
                   freed, notes, crashed>>

\* After the send, app_req is read once more for its app_free_buff_func.
TxSent ==
    /\ ~crashed /\ txpc = "sent"
    /\ TxDone
    /\ UNCHANGED <<offTx, sem, asyncVars, rpc_tx_q, rpc_tx_sem, rpc_rx_q, net_up, freed,
                   failed, notes, crashed>>

\* fail_req: call the callback, or queue a response whose uid is still 0; without
\* memory for a response, neither.
TxFail ==
    /\ ~crashed /\ txpc = "fail"
    /\ \/ /\ txreq \in has_cb
          /\ Tell(txreq, "fail") /\ txpc' = "failfree" /\ UNCHANGED rpc_rx_q
       \/ /\ txreq \notin has_cb /\ Len(rpc_rx_q) < RxQSize
          /\ rpc_rx_q' = Append(rpc_rx_q, 0) /\ txpc' = "failpost" /\ UNCHANGED notes
       \/ MayOom /\ txpc' = "failfree" /\ UNCHANGED <<rpc_rx_q, notes>>
    /\ UNCHANGED <<offTx, sem, asyncVars, rpc_tx_q, rpc_tx_sem, txreq, txslot, txsem, net_up,
                   freed, failed, crashed>>

\* is_sync_resp_sem_available and post_sync_resp_sem with uid 0, which every empty
\* slot carries.
TxFailPost ==
    /\ ~crashed /\ txpc = "failpost"
    /\ \/ /\ \E i \in SSlots : FirstSync(i, 0) /\ txsem' = sync_sem[i]
          /\ txpc' = "failgive"
       \/ ~InSync(0) /\ txpc' = "failfree" /\ UNCHANGED txsem
    /\ UNCHANGED <<offTx, sem, asyncVars, rpc_tx_q, rpc_tx_sem, txreq, txslot, rpc_rx_q,
                   net_up, freed, failed, notes, crashed>>

TxFailGive ==
    /\ ~crashed /\ txpc = "failgive"
    /\ SemGive(txsem) /\ txpc' = "failfree" /\ txsem' = 0
    /\ UNCHANGED <<offTx, asyncVars, rpc_tx_q, rpc_tx_sem, txreq, txslot, rpc_rx_q, net_up,
                   freed, failed, notes>>

\* Cleanup reads app_req again, and frees it if it is asynchronous and no slot
\* refers to it.
TxFailFree ==
    /\ ~crashed /\ txpc = "failfree"
    /\ IF txreq \in has_cb /\ ~InAsync(txreq) THEN Free(txreq) ELSE UNCHANGED freed
    /\ TxDone
    /\ UNCHANGED <<offTx, sem, asyncVars, rpc_tx_q, rpc_tx_sem, rpc_rx_q, net_up, failed,
                   notes, crashed>>

TxThread ==
    \/ TxPoll \/ TxTake \/ TxRecv \/ TxCompose \/ TxStartTimer \/ TxSetUid \/ TxSetCb
    \/ TxSend \/ TxSent \/ TxFail \/ TxFailPost \/ TxFailGive \/ TxFailFree
-----------------------------------------------------------------------------
(* clear_async_resp_callback, as run by the rx thread and the timer task.  *)

\* Mutants of ClearStopFree and ClearUid: the timer is left running, and the slot
\* is not given back.
ClearFree(i) ==
    /\ Free(async[i].req)
    /\ async' = [async EXCEPT ![i].timer = 0] /\ UNCHANGED timers
ClearNoUid(i) == async' = [async EXCEPT ![i].timer = 0]

\* Stop the timer and free the request; the slot keeps the pointer to it.
ClearStopFree(i) ==
    /\ timers' = timers \ {async[i].timer}
    /\ Free(async[i].req)
    /\ async' = [async EXCEPT ![i].timer = 0]
ClearUid(i) == async' = [async EXCEPT ![i].uid = 0]
ClearCb(i)  == async' = [async EXCEPT ![i].cb = FALSE]
-----------------------------------------------------------------------------
(* rpc_rx_thread and process_rpc_rx_msg.                                   *)

offRx == <<callerVars, sync_uid, sync_sem, txVars, timerVars, net_up, lost, events, failed,
           libVars>>

\* Back to the head of the loop.
RxDone == rxpc' = "poll" /\ rxmsg' = 0 /\ rxslot' = 1

RxPoll ==
    /\ ~crashed /\ rxpc = "poll" /\ lib = "ready"
    /\ rxpc' = "read"
    /\ UNCHANGED <<offRx, net_down, delivered, sem, asyncVars, rpc_rx_q, rxmsg, rxslot, rxsem,
                   freed, notes, crashed>>

\* Events go to their callback at once, responses are looked up first; either is
\* dropped if there is no memory for it or it does not parse.
RxRead ==
    /\ ~crashed /\ rxpc = "read" /\ net_down # <<>>
    /\ TimersApart /\ tmpc # "idle" => Head(net_down) # tmreq
    /\ net_down' = Tail(net_down)
    /\ \/ Head(net_down) = 0 /\ delivered' = delivered + 1 /\ RxDone
       \/ /\ Head(net_down) # 0 /\ rxpc' = "classify" /\ rxmsg' = Head(net_down)
          /\ UNCHANGED <<delivered, rxslot>>
       \/ MayOom /\ RxDone /\ UNCHANGED delivered
    /\ UNCHANGED <<offRx, sem, asyncVars, rpc_rx_q, rxsem, freed, notes, crashed>>

\* is_async_resp_callback_available
RxClassify ==
    /\ ~crashed /\ rxpc = "classify"
    /\ rxpc' = IF InAsync(rxmsg) THEN "find" ELSE "put"
    /\ UNCHANGED <<offRx, net_down, delivered, sem, asyncVars, rpc_rx_q, rxmsg, rxslot, rxsem,
                   freed, notes, crashed>>

\* call_async_resp_callback scans the table again...
RxFind ==
    /\ ~crashed /\ rxpc = "find"
    /\ \/ /\ \E i \in ASlots : FirstAsync(i, rxmsg) /\ rxslot' = i
          /\ rxpc' = "call" /\ UNCHANGED rxmsg
       \/ ~InAsync(rxmsg) /\ RxDone
    /\ UNCHANGED <<offRx, net_down, delivered, sem, asyncVars, rpc_rx_q, rxsem, freed, notes,
                   crashed>>

\* ... and calls what it finds; a NULL callback stops the host.
RxCallback ==
    /\ ~crashed /\ rxpc = "call"
    /\ IF async[rxslot].cb
       THEN Tell(rxmsg, "resp") /\ rxpc' = "clear1" /\ UNCHANGED crashed
       ELSE crashed' = TRUE /\ UNCHANGED <<notes, rxpc>>
    /\ UNCHANGED <<offRx, net_down, delivered, sem, asyncVars, rpc_rx_q, rxmsg, rxslot, rxsem,
                   freed>>

RxClear ==
    /\ ~crashed
    /\ \/ /\ rxpc = "clear1" /\ async[rxslot].uid # 0
          /\ ClearStopFree(rxslot)
          /\ rxpc' = "clear2" /\ UNCHANGED <<rxmsg, rxslot>>
       \/ /\ rxpc = "clear2" /\ ClearUid(rxslot)
          /\ rxpc' = "clear3" /\ UNCHANGED <<rxmsg, rxslot, timers, freed>>
       \/ rxpc = "clear3" /\ ClearCb(rxslot) /\ RxDone /\ UNCHANGED <<timers, freed>>
       \/ rxpc = "clear1" /\ async[rxslot].uid = 0 /\ RxDone /\ UNCHANGED <<asyncVars, freed>>
    /\ UNCHANGED <<offRx, net_down, delivered, sem, rpc_rx_q, rxsem, notes, crashed>>

\* Mutant of RxPut: a full queue drops the response, whose caller is still woken.
RxPutDrop ==
    /\ ~crashed /\ rxpc = "put"
    /\ rpc_rx_q' = IF Len(rpc_rx_q) < RxQSize THEN Append(rpc_rx_q, rxmsg) ELSE rpc_rx_q
    /\ rxpc' = "post"
    /\ UNCHANGED <<offRx, net_down, delivered, sem, asyncVars, rxmsg, rxslot, rxsem, freed,
                   notes, crashed>>

\* h_queue_send(rpc_rx_q, H_BLOCK_MAX)
RxPut ==
    /\ ~crashed /\ rxpc = "put" /\ Len(rpc_rx_q) < RxQSize
    /\ rpc_rx_q' = Append(rpc_rx_q, rxmsg) /\ rxpc' = "post"
    /\ UNCHANGED <<offRx, net_down, delivered, sem, asyncVars, rxmsg, rxslot, rxsem, freed,
                   notes, crashed>>

\* is_sync_resp_sem_available and post_sync_resp_sem up to reading the semaphore.
RxPost ==
    /\ ~crashed /\ rxpc = "post"
    /\ \/ /\ \E i \in SSlots : FirstSync(i, rxmsg) /\ rxsem' = sync_sem[i]
          /\ rxpc' = "give" /\ UNCHANGED <<rxmsg, rxslot>>
       \/ ~InSync(rxmsg) /\ RxDone /\ UNCHANGED rxsem
    /\ UNCHANGED <<offRx, net_down, delivered, sem, asyncVars, rpc_rx_q, freed, notes,
                   crashed>>

RxGive ==
    /\ ~crashed /\ rxpc = "give"
    /\ SemGive(rxsem) /\ RxDone /\ rxsem' = 0
    /\ UNCHANGED <<offRx, net_down, delivered, asyncVars, rpc_rx_q, freed, notes>>

RxThread ==
    \/ RxPoll \/ RxRead \/ RxClassify \/ RxFind \/ RxCallback \/ RxClear
    \/ RxPut \/ RxPost \/ RxGive
-----------------------------------------------------------------------------
(* rpc_async_timeout_handler, in the timer task.                           *)

offTimer == <<callerVars, syncVars, txVars, rpc_rx_q, rxVars, netVars, failed, libVars,
              crashed>>

\* A timer runs for seconds: it may expire at any moment, but TimersApart leaves out
\* the moments at which the tx or the rx thread is at work on the same request.
TimerExpire(u) ==
    /\ ~crashed /\ tmpc = "idle" /\ u \in timers
    /\ TimersApart => u # txreq /\ u # rxmsg
    /\ timers' = timers \ {u}
    /\ tmreq' = u /\ tmpc' = "find"
    /\ UNCHANGED <<offTimer, async, tmslot, freed, notes>>

\* Without memory for a response the handler gives up before it looks for the slot.
TimerFind ==
    /\ ~crashed /\ tmpc = "find"
    /\ \/ /\ \E i \in ASlots : FirstAsync(i, tmreq) /\ tmslot' = i
          /\ tmpc' = "clear1" /\ UNCHANGED tmreq
       \/ ~InAsync(tmreq) /\ tmpc' = "call" /\ UNCHANGED <<tmreq, tmslot>>
       \/ MayOom /\ tmpc' = "idle" /\ tmreq' = 0 /\ UNCHANGED tmslot
    /\ UNCHANGED <<offTimer, asyncVars, freed, notes>>

TimerClear ==
    /\ ~crashed
    /\ \/ /\ tmpc = "clear1" /\ async[tmslot].uid # 0
          /\ ClearStopFree(tmslot)
          /\ tmpc' = "clear2" /\ UNCHANGED tmslot
       \/ /\ tmpc = "clear2" /\ ClearUid(tmslot)
          /\ tmpc' = "clear3" /\ UNCHANGED <<tmslot, timers, freed>>
       \/ /\ tmpc = "clear3" /\ ClearCb(tmslot)
          /\ tmpc' = "call" /\ tmslot' = 1 /\ UNCHANGED <<timers, freed>>
       \/ /\ tmpc = "clear1" /\ async[tmslot].uid = 0
          /\ tmpc' = "call" /\ tmslot' = 1 /\ UNCHANGED <<asyncVars, freed>>
    /\ UNCHANGED <<offTimer, tmreq, notes>>

TimerCall ==
    /\ ~crashed /\ tmpc = "call"
    /\ Tell(tmreq, "timeout")
    /\ tmpc' = "idle" /\ tmreq' = 0
    /\ UNCHANGED <<offTimer, asyncVars, tmslot, freed>>

TimerTask == (\E u \in Uid0 : TimerExpire(u)) \/ TimerFind \/ TimerClear \/ TimerCall
-----------------------------------------------------------------------------
(* The co-processor and the link, as far as this module sees them.         *)

offNet == <<callerVars, syncVars, asyncVars, txVars, rpc_rx_q, rxVars, timerVars, libVars,
            freed, failed, notes, crashed, delivered>>

SlaveAnswer ==
    /\ ~crashed /\ net_up # <<>>
    /\ net_down' = Append(net_down, Head(net_up)) /\ net_up' = Tail(net_up)
    /\ UNCHANGED <<offNet, lost, events>>

\* The request or its response never arrives.
SlaveLose ==
    /\ ~crashed /\ net_up # <<>> /\ Cardinality(lost) < MaxLoss
    /\ lost' = lost \cup {Head(net_up)} /\ net_up' = Tail(net_up)
    /\ UNCHANGED <<offNet, net_down, events>>

SlaveEvent ==
    /\ ~crashed /\ events < MaxEvents
    /\ events' = events + 1 /\ net_down' = Append(net_down, 0)
    /\ UNCHANGED <<offNet, net_up, lost>>

Slave == SlaveAnswer \/ SlaveLose \/ SlaveEvent
-----------------------------------------------------------------------------
(* Lifecycle.                                                              *)

offLib == <<numbering, timerVars, netVars, failed, notes, crashed>>

rpc_core_start ==
    /\ ~crashed /\ lib = "init" /\ lib' = "ready"
    /\ UNCHANGED <<offLib, cpc, locals, syncVars, asyncVars, txVars, rpc_rx_q, rxVars,
                   freed, stops>>

rpc_core_stop ==
    /\ ~crashed /\ lib = "ready" /\ stops < MaxStops
    /\ lib' = "init" /\ stops' = stops + 1
    /\ UNCHANGED <<offLib, cpc, locals, syncVars, asyncVars, txVars, rpc_rx_q, rxVars,
                   freed>>

\* How often cleanup frees a request: once per queued pointer and once per
\* slot that still points to it.
CleanupFrees(u) ==
    Cardinality({k \in DOMAIN rpc_tx_q : rpc_tx_q[k] = u})
      + Cardinality({i \in ASlots : async[i].req = u})

CleanupTimers == timers' = timers \ {async[i].timer : i \in ASlots}

\* The application calls it when none of its threads is inside a request. A
\* semaphore that is in no slot by then is leaked, and out of everybody's reach.
rpc_core_deinit ==
    /\ ~crashed /\ MayDeinit /\ lib # "inactive" /\ \A c \in Callers : cpc[c] = "idle"
    /\ lib' = "inactive"
    /\ rpc_rx_q' = <<>> /\ rpc_tx_q' = <<>> /\ rpc_tx_sem' = 0
    /\ CleanupTimers
    /\ freed' = [u \in Uid0 |-> freed[u] + CleanupFrees(u)]
    /\ async' = [i \in ASlots |-> [uid |-> 0, cb |-> FALSE, timer |-> 0, req |-> 0]]
    /\ sync_uid' = [i \in SSlots |-> 0] /\ sync_sem' = [i \in SSlots |-> 0]
    /\ sem' = [u \in Uid0 |-> "none"]
    /\ txpc' = "dead" /\ txreq' = 0 /\ txslot' = 1 /\ txsem' = 0
    /\ rxpc' = "dead" /\ rxmsg' = 0 /\ rxslot' = 1 /\ rxsem' = 0
    /\ UNCHANGED <<offLib, cpc, locals, stops>>

\* A second rpc_core_init: queues, semaphore and tables are as deinit left them,
\* and the uid goes on.
rpc_core_init ==
    /\ ~crashed /\ lib = "inactive" /\ stops < MaxStops
    /\ lib' = "init" /\ stops' = stops + 1
    /\ txpc' = "poll" /\ rxpc' = "poll"
    /\ UNCHANGED <<offLib, cpc, locals, syncVars, asyncVars, rpc_tx_q, rpc_tx_sem, txreq,
                   txslot, txsem, rpc_rx_q, rxmsg, rxslot, rxsem, freed>>

\* Every request is settled and nothing is left to do.
Quiet ==
    /\ \A c \in Callers : cpc[c] = "idle" /\ calls[c] = CallBudget[c]
    /\ rpc_tx_q = <<>> /\ net_up = <<>> /\ net_down = <<>>
    /\ txpc \in {"poll", "sem"} /\ rxpc \in {"poll", "read"} /\ tmpc = "idle" /\ timers = {}

Idle == (Quiet \/ crashed \/ lib = "inactive") /\ UNCHANGED vars

Next ==
    \/ \E c \in Callers : Caller(c)
    \/ TxThread \/ RxThread \/ TimerTask \/ Slave
    \/ rpc_core_init \/ rpc_core_start \/ rpc_core_stop \/ rpc_core_deinit
    \/ Idle

Spec == Init /\ [][Next]_vars

\* Every thread is scheduled, a started timer expires, the co-processor goes on,
\* and the transport reports ready again after a stop.
Fairness ==
    /\ \A c \in Callers : WF_vars(Caller(c))
    /\ WF_vars(TxThread) /\ WF_vars(RxThread)
    /\ WF_vars(TimerTask) /\ WF_vars(SlaveAnswer \/ SlaveLose)
    /\ WF_vars(rpc_core_start)

FairSpec == Spec /\ Fairness
-----------------------------------------------------------------------------
(* Properties that hold whatever the application, the link and the clock   *)
(* do: concurrent callers, failed sends, lost answers, early timeouts.     *)

\* Requests in progress at the same time are told apart by uids that differ
\* and are never 0, the mark of an empty slot, also when the counter rolls over.
UidsTellApart ==
    \A c \in Callers : cpc[c] # "idle" =>
        /\ creq[c] # 0
        /\ \A d \in Callers : d # c => creq[d] # creq[c]

Indicating == {c \in Callers : cpc[c] = "ind"}

\* rpc_tx_sem counts the queued requests: every request in rpc_tx_q has its own
\* wake-up, given or about to be given, and a taken wake-up finds its request.
TxWakeups ==
    Len(rpc_tx_q) = rpc_tx_sem + Cardinality(Indicating) + (IF txpc = "recv" THEN 1 ELSE 0)

\* A caller whose semaphore was given finds a response in rpc_rx_q: it never
\* blocks in the H_BLOCK_MAX receive of get_response.
WokenFindsResponse == \A c \in Callers : cpc[c] = "recv" => rpc_rx_q # <<>>

\* A taken slot of sync_rsp_table belongs to a call still in progress that will
\* clear it, so slots do not leak even when two callers race for the same one.
SyncSlotsOwned ==
    \A i \in SSlots : sync_uid[i] # 0 =>
        \E c \in SyncCallers :
            /\ creq[c] = sync_uid[i] /\ cslot[c] = i
            /\ cpc[c] \in {"setsem", "enqueue", "ind", "lookup", "wait", "delete", "clruid"}
-----------------------------------------------------------------------------
(* Properties of use in which sends succeed and the asynchronous requests  *)
(* fit their table: any callers, synchronous timeouts at any moment.       *)

\* No request is freed twice.
FreedOnce == \A u \in Uids : freed[u] <= 1

\* The requests waiting for the tx thread or for their timer.
Pending ==
    {rpc_tx_q[k] : k \in DOMAIN rpc_tx_q} \cup timers
      \cup (IF tmpc = "find" THEN {tmreq} ELSE {})

\* An asynchronous request is not freed while it is queued, while its timer is armed
\* or when the timeout handler starts to read it.
AsyncPendingNotFreed == \A u \in Pending \cap has_cb : freed[u] = 0

\* The application has handed the request over.
Issued(u) == u \in has_cb \/ notes[u] # <<>> \/ \E c \in Callers : creq[c] = u

\* When nothing is left to do, every request was settled exactly once and freed
\* exactly once, and both tables are empty again, also when callers gave up early
\* and answers came after the timeout.
QuietIsSettled ==
    Quiet /\ ~crashed =>
        /\ \A u \in Uids : Issued(u) => Len(notes[u]) = 1 /\ freed[u] = 1
        /\ \A i \in SSlots : sync_uid[i] = 0
        /\ \A i \in ASlots : async[i].uid = 0

\* Requests whose application was told that no response came.
GivenUp == {u \in Uids : \E k \in DOMAIN notes[u] : notes[u][k] \in {"timeout", "error"}}

\* What rpc_rx_q keeps for ever: one response for every request that was given up
\* although its answer came, and nothing else.
LateStay == Quiet /\ ~crashed => Len(rpc_rx_q) + Cardinality(lost) = Cardinality(GivenUp)
-----------------------------------------------------------------------------
(* The engine implements RpcService.                                       *)

\* The fate of a request as the application sees it; a second note is a fate the
\* service does not know.
Fate(u) ==
    IF notes[u] = <<>> THEN IF Issued(u) THEN "open" ELSE "none"
    ELSE IF Len(notes[u]) > 1 THEN "twice"
    ELSE IF notes[u][1] = "resp" THEN "answered"
    ELSE IF notes[u][1] = "other" THEN "mistaken" ELSE "abandoned"

Service == INSTANCE RpcService
    WITH Reqs <- Uids, fate <- [u \in Uids |-> Fate(u)], down <- crashed

\* Every request is settled exactly once and, unless the host stops, none stays open:
\* the promise of RpcService.
ServiceSpec == Service!FairSpec
-----------------------------------------------------------------------------
(* What comments in the code say.                                          *)

\* "uid to link between requests and responses": no caller is handed a response to
\* another request.
OwnResponse == \A u \in Uids : \A k \in DOMAIN notes[u] : notes[u][k] # "other"

\* "it is important to get some kind of acknowledgement to user when request is already
\* sent and success return to the caller": every asynchronous request is acknowledged
\* if its send fails, its answer is lost or its timer is early, as long as there is
\* memory for a response and nothing stops the host.
AsyncAcknowledged == \A u \in Uids : u \in has_cb ~> notes[u] # <<>> \/ crashed
=============================================================================
