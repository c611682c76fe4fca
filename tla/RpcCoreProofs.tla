--------------------------- MODULE RpcCoreProofs ---------------------------
(***************************************************************************)
(* Proofs about RpcCore, for every number of callers and every size of     *)
(* table and queue.  In any environment: type correctness, the two wake-up *)
(* counts, that uids tell requests apart and that no slot leaks.  If sends *)
(* succeed and a timer is not handled during other work on its request:    *)
(* that a request is freed once, and, if the asynchronous requests fit     *)
(* their table, not while it is pending.                                   *)
(***************************************************************************)
EXTENDS RpcCore, FiniteSetTheorems, TLAPS

USE DEF numbering, locals, callerVars, syncVars, asyncVars, txVars, rxVars, timerVars,
        netVars, libVars, offCaller, offTx, offRx, offTimer, offNet, offLib

\* What the proofs need to know about uids and slots: 0 is no uid, numbering
\* yields one, and a loop variable starts at a slot.
LEMMA IndexFacts ==
    /\ 0 \in Uid0 /\ 0 \notin Uids /\ Uids \subseteq Uid0
    /\ \A u \in Uid0 : u # 0 => u \in Uids
    /\ \A u \in Uid0 : NextUid(u) \in Uids
    /\ 1 \in SSlots /\ 1 \in ASlots
  BY SizesAssumption DEF Uid0, Uids, NextUid, SSlots, ASlots

\* The initial state is well typed.
LEMMA InitType == Init => TypeOK
  <1> SUFFICES ASSUME Init PROVE TypeOK
    OBVIOUS
  <1> USE IndexFacts, SizesAssumption DEF Init
  <1>1. CallerTypeOK
    BY DEF CallerTypeOK, CallerPc
  <1>2. SyncTypeOK
    BY DEF SyncTypeOK
  <1>3. AsyncTypeOK
    BY DEF AsyncTypeOK, AsyncSlot
  <1>4. TxTypeOK /\ RxTypeOK /\ TimerTypeOK
    BY DEF TxTypeOK, RxTypeOK, TimerTypeOK, TxPc, RxPc, TimerPc
  <1>5. NetTypeOK
    BY DEF NetTypeOK
  <1>6. FateTypeOK
    <2>1. <<>> \in Seq(Note)
      OBVIOUS
    <2>2. notes \in [Uid0 -> Seq(Note)]
      BY <2>1, Zenon
    <2> QED
      BY <2>2 DEF FateTypeOK
  <1> QED
    BY <1>1, <1>2, <1>3, <1>4, <1>5, <1>6 DEF TypeOK

\* Appending one of the notes to a request's history keeps the histories typed.
LEMMA TellType ==
    ASSUME NEW u \in Uid0, NEW n \in Note, notes \in [Uid0 -> Seq(Note)], Tell(u, n)
    PROVE  notes' \in [Uid0 -> Seq(Note)]
  <1>1. \A v \in Uid0 : Append(notes[v], n) \in Seq(Note)
    OBVIOUS
  <1> QED
    BY <1>1, Zenon DEF Tell

\* Freeing a request keeps the free counts typed.
LEMMA FreeType ==
    ASSUME NEW u \in Uid0, freed \in [Uid0 -> Nat], Free(u)
    PROVE  freed' \in [Uid0 -> Nat]
  BY DEF Free



\* Clearing a slot keeps the table typed, and frees a request that has a uid or 0.
LEMMA ClearType ==
    ASSUME NEW i \in ASlots, async \in [ASlots -> AsyncSlot], timers \in SUBSET Uid0,
           freed \in [Uid0 -> Nat]
    PROVE  /\ ClearStopFree(i) => /\ async' \in [ASlots -> AsyncSlot]
                                  /\ timers' \in SUBSET Uid0 /\ freed' \in [Uid0 -> Nat]
           /\ ClearUid(i) => async' \in [ASlots -> AsyncSlot]
           /\ ClearCb(i)  => async' \in [ASlots -> AsyncSlot]
  <1>1. async[i] \in AsyncSlot
    OBVIOUS
  <1>2. async[i].req \in Uid0
    BY <1>1 DEF AsyncSlot
  <1>3. ASSUME ClearStopFree(i)
        PROVE  async' \in [ASlots -> AsyncSlot] /\ timers' \in SUBSET Uid0
    BY <1>1, <1>3, IndexFacts DEF ClearStopFree, AsyncSlot
  <1>4. ASSUME ClearStopFree(i) PROVE freed' \in [Uid0 -> Nat]
    BY <1>2, <1>4, FreeType DEF ClearStopFree
  <1>5. ClearUid(i) => async' \in [ASlots -> AsyncSlot]
    BY <1>1, IndexFacts DEF ClearUid, AsyncSlot
  <1>6. ClearCb(i) => async' \in [ASlots -> AsyncSlot]
    BY <1>1 DEF ClearCb, AsyncSlot
  <1> QED
    BY <1>3, <1>4, <1>5, <1>6

\* A caller's step keeps every variable in its type.
LEMMA CallerType == ASSUME TypeOK, NEW c \in Callers, Caller(c) PROVE TypeOK'
  <1> USE IndexFacts DEF TypeOK
  <1>1. CASE AssignUid(c)
    <2>1. CallerTypeOK'
      BY <1>1 DEF CallerTypeOK, AssignUid, Goto, CallerPc
    <2>2. /\ SyncTypeOK' /\ AsyncTypeOK' /\ TxTypeOK' /\ RxTypeOK'
          /\ TimerTypeOK' /\ NetTypeOK' /\ FateTypeOK'
      BY <1>1 DEF SyncTypeOK, AsyncTypeOK, TxTypeOK, RxTypeOK, TimerTypeOK, NetTypeOK,
           FateTypeOK, AssignUid
    <2> QED
      BY <2>1, <2>2
  <1>2. CASE ScanSyncTable(c)
    <2>1. CallerTypeOK'
      BY <1>2 DEF CallerTypeOK, ScanSyncTable, Goto, Return, CallerPc
    <2>2. SyncTypeOK'
      BY <1>2 DEF SyncTypeOK, ScanSyncTable, CallerTypeOK
    <2>3. FateTypeOK'
      BY <1>2, FreeType, TellType DEF FateTypeOK, ScanSyncTable, CallerTypeOK, Note
    <2>4. AsyncTypeOK' /\ TxTypeOK' /\ RxTypeOK' /\ TimerTypeOK' /\ NetTypeOK'
      BY <1>2 DEF AsyncTypeOK, TxTypeOK, RxTypeOK, TimerTypeOK, NetTypeOK, ScanSyncTable
    <2> QED
      BY <2>1, <2>2, <2>3, <2>4
  <1>3. CASE SetSyncUid(c)
    <2>1. CallerTypeOK'
      BY <1>3 DEF CallerTypeOK, SetSyncUid, Goto, CallerPc
    <2>2. SyncTypeOK'
      BY <1>3 DEF SyncTypeOK, SetSyncUid, CallerTypeOK
    <2>3. /\ AsyncTypeOK' /\ TxTypeOK' /\ RxTypeOK'
          /\ TimerTypeOK' /\ NetTypeOK' /\ FateTypeOK'
      BY <1>3 DEF AsyncTypeOK, TxTypeOK, RxTypeOK, TimerTypeOK, NetTypeOK, FateTypeOK,
           SetSyncUid
    <2> QED
      BY <2>1, <2>2, <2>3
  <1>4. CASE SetSyncSem(c)
    <2>1. CallerTypeOK'
      BY <1>4 DEF CallerTypeOK, SetSyncSem, Goto, CallerPc
    <2>2. SyncTypeOK'
      BY <1>4 DEF SyncTypeOK, SetSyncSem, CallerTypeOK
    <2>3. /\ AsyncTypeOK' /\ TxTypeOK' /\ RxTypeOK'
          /\ TimerTypeOK' /\ NetTypeOK' /\ FateTypeOK'
      BY <1>4 DEF AsyncTypeOK, TxTypeOK, RxTypeOK, TimerTypeOK, NetTypeOK, FateTypeOK,
           SetSyncSem
    <2> QED
      BY <2>1, <2>2, <2>3
  <1>5. CASE EnqueueReq(c)
    <2>1. CallerTypeOK'
      BY <1>5 DEF CallerTypeOK, EnqueueReq, Goto, CallerPc
    <2>2. TxTypeOK'
      BY <1>5 DEF TxTypeOK, EnqueueReq, CallerTypeOK, TxPc
    <2>3. /\ SyncTypeOK' /\ AsyncTypeOK' /\ RxTypeOK'
          /\ TimerTypeOK' /\ NetTypeOK' /\ FateTypeOK'
      BY <1>5 DEF SyncTypeOK, AsyncTypeOK, RxTypeOK, TimerTypeOK, NetTypeOK, FateTypeOK,
           EnqueueReq
    <2> QED
      BY <2>1, <2>2, <2>3
  <1>6. CASE TxInd(c)
    <2>1. CallerTypeOK'
      BY <1>6 DEF CallerTypeOK, TxInd, Goto, Return, CallerPc
    <2>2. TxTypeOK'
      BY <1>6, SizesAssumption DEF TxTypeOK, TxInd, rpc_tx_ind, TxPc
    <2>3. /\ SyncTypeOK' /\ AsyncTypeOK' /\ RxTypeOK'
          /\ TimerTypeOK' /\ NetTypeOK' /\ FateTypeOK'
      BY <1>6 DEF SyncTypeOK, AsyncTypeOK, RxTypeOK, TimerTypeOK, NetTypeOK, FateTypeOK,
           TxInd
    <2> QED
      BY <2>1, <2>2, <2>3
  <1>7. CASE LookupSyncSlot(c)
    <2>1. CallerTypeOK'
      BY <1>7 DEF CallerTypeOK, LookupSyncSlot, Goto, SyncTypeOK, CallerPc
    <2>2. /\ SyncTypeOK' /\ AsyncTypeOK' /\ TxTypeOK' /\ RxTypeOK'
          /\ TimerTypeOK' /\ NetTypeOK' /\ FateTypeOK'
      BY <1>7 DEF SyncTypeOK, AsyncTypeOK, TxTypeOK, RxTypeOK, TimerTypeOK, NetTypeOK,
           FateTypeOK, LookupSyncSlot
    <2> QED
      BY <2>1, <2>2
  <1>8. CASE TakeSyncSem(c)
    <2>1. CallerTypeOK'
      BY <1>8 DEF CallerTypeOK, TakeSyncSem, Goto, CallerPc
    <2>2. SyncTypeOK'
      BY <1>8 DEF SyncTypeOK, TakeSyncSem, CallerTypeOK
    <2>3. FateTypeOK'
      BY <1>8 DEF FateTypeOK, TakeSyncSem
    <2>4. AsyncTypeOK' /\ TxTypeOK' /\ RxTypeOK' /\ TimerTypeOK' /\ NetTypeOK'
      BY <1>8 DEF AsyncTypeOK, TxTypeOK, RxTypeOK, TimerTypeOK, NetTypeOK, TakeSyncSem
    <2> QED
      BY <2>1, <2>2, <2>3, <2>4
  <1>9. CASE DeleteSyncSem(c)
    <2>1. CallerTypeOK'
      BY <1>9 DEF CallerTypeOK, DeleteSyncSem, Goto, CallerPc
    <2>2. SyncTypeOK'
      BY <1>9 DEF SyncTypeOK, DeleteSyncSem, CallerTypeOK
    <2>3. FateTypeOK'
      BY <1>9 DEF FateTypeOK, DeleteSyncSem
    <2>4. AsyncTypeOK' /\ TxTypeOK' /\ RxTypeOK' /\ TimerTypeOK' /\ NetTypeOK'
      BY <1>9 DEF AsyncTypeOK, TxTypeOK, RxTypeOK, TimerTypeOK, NetTypeOK, DeleteSyncSem
    <2> QED
      BY <2>1, <2>2, <2>3, <2>4
  <1>10. CASE ClearSyncUid(c)
    <2>1. CallerTypeOK'
      BY <1>10 DEF CallerTypeOK, ClearSyncUid, Goto, CallerPc
    <2>2. SyncTypeOK'
      BY <1>10 DEF SyncTypeOK, ClearSyncUid, CallerTypeOK
    <2>3. /\ AsyncTypeOK' /\ TxTypeOK' /\ RxTypeOK'
          /\ TimerTypeOK' /\ NetTypeOK' /\ FateTypeOK'
      BY <1>10 DEF AsyncTypeOK, TxTypeOK, RxTypeOK, TimerTypeOK, NetTypeOK, FateTypeOK,
           ClearSyncUid
    <2> QED
      BY <2>1, <2>2, <2>3
  <1>11. CASE ClearSyncSem(c)
    <2>1. CallerTypeOK'
      BY <1>11 DEF CallerTypeOK, ClearSyncSem, Goto, CallerPc
    <2>2. SyncTypeOK'
      BY <1>11 DEF SyncTypeOK, ClearSyncSem, CallerTypeOK
    <2>3. /\ AsyncTypeOK' /\ TxTypeOK' /\ RxTypeOK'
          /\ TimerTypeOK' /\ NetTypeOK' /\ FateTypeOK'
      BY <1>11 DEF AsyncTypeOK, TxTypeOK, RxTypeOK, TimerTypeOK, NetTypeOK, FateTypeOK,
           ClearSyncSem
    <2> QED
      BY <2>1, <2>2, <2>3
  <1>12. CASE DequeueResp(c)
    <2>1. CallerTypeOK'
      BY <1>12 DEF CallerTypeOK, DequeueResp, Goto, RxTypeOK, CallerPc
    <2>2. RxTypeOK'
      BY <1>12 DEF RxTypeOK, DequeueResp, RxPc
    <2>3. /\ SyncTypeOK' /\ AsyncTypeOK' /\ TxTypeOK'
          /\ TimerTypeOK' /\ NetTypeOK' /\ FateTypeOK'
      BY <1>12 DEF SyncTypeOK, AsyncTypeOK, TxTypeOK, TimerTypeOK, NetTypeOK, FateTypeOK,
           DequeueResp
    <2> QED
      BY <2>1, <2>2, <2>3
  <1>13. CASE FreeReq(c)
    <2>1. CallerTypeOK'
      BY <1>13 DEF CallerTypeOK, FreeReq, Goto, Return, CallerPc
    <2>2. FateTypeOK'
      BY <1>13, FreeType, TellType DEF FateTypeOK, FreeReq, CallerTypeOK, Note, Verdict
    <2>3. /\ SyncTypeOK' /\ AsyncTypeOK' /\ TxTypeOK'
          /\ RxTypeOK' /\ TimerTypeOK' /\ NetTypeOK'
      BY <1>13 DEF SyncTypeOK, AsyncTypeOK, TxTypeOK, RxTypeOK, TimerTypeOK, NetTypeOK,
           FreeReq
    <2> QED
      BY <2>1, <2>2, <2>3
  <1> QED
    BY <1>1, <1>2, <1>3, <1>4, <1>5, <1>6, <1>7, <1>8, <1>9, <1>10, <1>11, <1>12,
         <1>13 DEF Caller

\* A step of rpc_tx_thread keeps every variable in its type.
LEMMA TxType == ASSUME TypeOK, TxThread PROVE TypeOK'
  <1> USE IndexFacts DEF TypeOK
  <1>1. CASE TxPoll
    <2>1. TxTypeOK'
      BY <1>1 DEF TxTypeOK, TxPoll, TxPc
    <2>2. /\ CallerTypeOK' /\ SyncTypeOK' /\ AsyncTypeOK' /\ RxTypeOK'
          /\ TimerTypeOK' /\ NetTypeOK' /\ FateTypeOK'
      BY <1>1 DEF CallerTypeOK, SyncTypeOK, AsyncTypeOK, RxTypeOK, TimerTypeOK,
           NetTypeOK, FateTypeOK, TxPoll
    <2> QED
      BY <2>1, <2>2
  <1>2. CASE TxTake
    <2>1. TxTypeOK'
      BY <1>2 DEF TxTypeOK, TxTake, TxPc
    <2>2. /\ CallerTypeOK' /\ SyncTypeOK' /\ AsyncTypeOK' /\ RxTypeOK'
          /\ TimerTypeOK' /\ NetTypeOK' /\ FateTypeOK'
      BY <1>2 DEF CallerTypeOK, SyncTypeOK, AsyncTypeOK, RxTypeOK, TimerTypeOK,
           NetTypeOK, FateTypeOK, TxTake
    <2> QED
      BY <2>1, <2>2
  <1>3. CASE TxRecv
    <2>1. TxTypeOK'
      BY <1>3 DEF TxTypeOK, TxRecv, TxPc
    <2>2. /\ CallerTypeOK' /\ SyncTypeOK' /\ AsyncTypeOK' /\ RxTypeOK'
          /\ TimerTypeOK' /\ NetTypeOK' /\ FateTypeOK'
      BY <1>3 DEF CallerTypeOK, SyncTypeOK, AsyncTypeOK, RxTypeOK, TimerTypeOK,
           NetTypeOK, FateTypeOK, TxRecv
    <2> QED
      BY <2>1, <2>2
  <1>4. CASE TxCompose
    <2>1. TxTypeOK'
      BY <1>4 DEF TxTypeOK, TxCompose, FailReq, TxPc
    <2>2. FateTypeOK'
      BY <1>4 DEF FateTypeOK, TxCompose, FailReq, TxTypeOK
    <2>3. /\ CallerTypeOK' /\ SyncTypeOK' /\ AsyncTypeOK'
          /\ RxTypeOK' /\ TimerTypeOK' /\ NetTypeOK'
      BY <1>4 DEF CallerTypeOK, SyncTypeOK, AsyncTypeOK, RxTypeOK, TimerTypeOK,
           NetTypeOK, TxCompose
    <2> QED
      BY <2>1, <2>2, <2>3
  <1>5. CASE TxStartTimer
    <2>1. AsyncTypeOK'
      BY <1>5 DEF AsyncTypeOK, TxStartTimer, TxTypeOK
    <2>2. TxTypeOK'
      BY <1>5 DEF TxTypeOK, TxStartTimer, FailReq, TxPc
    <2>3. FateTypeOK'
      BY <1>5 DEF FateTypeOK, TxStartTimer, FailReq, TxTypeOK
    <2>4. CallerTypeOK' /\ SyncTypeOK' /\ RxTypeOK' /\ TimerTypeOK' /\ NetTypeOK'
      BY <1>5 DEF CallerTypeOK, SyncTypeOK, RxTypeOK, TimerTypeOK, NetTypeOK, TxStartTimer
    <2> QED
      BY <2>1, <2>2, <2>3, <2>4
  <1>6. CASE TxSetUid
    <2>1. AsyncTypeOK'
      BY <1>6 DEF AsyncTypeOK, TxSetUid, TxTypeOK, AsyncSlot
    <2>2. TxTypeOK'
      BY <1>6 DEF TxTypeOK, TxSetUid, FailReq, TxPc
    <2>3. FateTypeOK'
      BY <1>6 DEF FateTypeOK, TxSetUid, FailReq, TxTypeOK
    <2>4. CallerTypeOK' /\ SyncTypeOK' /\ RxTypeOK' /\ TimerTypeOK' /\ NetTypeOK'
      BY <1>6 DEF CallerTypeOK, SyncTypeOK, RxTypeOK, TimerTypeOK, NetTypeOK, TxSetUid
    <2> QED
      BY <2>1, <2>2, <2>3, <2>4
  <1>7. CASE TxSetCb
    <2>1. AsyncTypeOK'
      BY <1>7 DEF AsyncTypeOK, TxSetCb, TxTypeOK, AsyncSlot
    <2>2. TxTypeOK'
      BY <1>7 DEF TxTypeOK, TxSetCb, TxPc
    <2>3. /\ CallerTypeOK' /\ SyncTypeOK' /\ RxTypeOK'
          /\ TimerTypeOK' /\ NetTypeOK' /\ FateTypeOK'
      BY <1>7 DEF CallerTypeOK, SyncTypeOK, RxTypeOK, TimerTypeOK, NetTypeOK, FateTypeOK,
           TxSetCb
    <2> QED
      BY <2>1, <2>2, <2>3
  <1>8. CASE TxSend
    <2>1. TxTypeOK'
      BY <1>8 DEF TxTypeOK, TxSend, FailReq, TxPc
    <2>2. NetTypeOK'
      BY <1>8 DEF NetTypeOK, TxSend, TxTypeOK
    <2>3. FateTypeOK'
      BY <1>8 DEF FateTypeOK, TxSend, FailReq, TxTypeOK
    <2>4. CallerTypeOK' /\ SyncTypeOK' /\ AsyncTypeOK' /\ RxTypeOK' /\ TimerTypeOK'
      BY <1>8 DEF CallerTypeOK, SyncTypeOK, AsyncTypeOK, RxTypeOK, TimerTypeOK, TxSend
    <2> QED
      BY <2>1, <2>2, <2>3, <2>4
  <1>9. CASE TxSent
    <2>1. TxTypeOK'
      BY <1>9 DEF TxTypeOK, TxSent, TxDone, TxPc
    <2>2. /\ CallerTypeOK' /\ SyncTypeOK' /\ AsyncTypeOK' /\ RxTypeOK'
          /\ TimerTypeOK' /\ NetTypeOK' /\ FateTypeOK'
      BY <1>9 DEF CallerTypeOK, SyncTypeOK, AsyncTypeOK, RxTypeOK, TimerTypeOK,
           NetTypeOK, FateTypeOK, TxSent
    <2> QED
      BY <2>1, <2>2
  <1>10. CASE TxFail
    <2>1. TxTypeOK'
      BY <1>10 DEF TxTypeOK, TxFail, TxPc
    <2>2. RxTypeOK'
      BY <1>10 DEF RxTypeOK, TxFail, RxPc
    <2>3. FateTypeOK'
      BY <1>10, TellType DEF FateTypeOK, TxFail, TxTypeOK, Note
    <2>4. CallerTypeOK' /\ SyncTypeOK' /\ AsyncTypeOK' /\ TimerTypeOK' /\ NetTypeOK'
      BY <1>10 DEF CallerTypeOK, SyncTypeOK, AsyncTypeOK, TimerTypeOK, NetTypeOK, TxFail
    <2> QED
      BY <2>1, <2>2, <2>3, <2>4
  <1>11. CASE TxFailPost
    <2>1. TxTypeOK'
      BY <1>11 DEF TxTypeOK, TxFailPost, SyncTypeOK, TxPc
    <2>2. /\ CallerTypeOK' /\ SyncTypeOK' /\ AsyncTypeOK' /\ RxTypeOK'
          /\ TimerTypeOK' /\ NetTypeOK' /\ FateTypeOK'
      BY <1>11 DEF CallerTypeOK, SyncTypeOK, AsyncTypeOK, RxTypeOK, TimerTypeOK,
           NetTypeOK, FateTypeOK, TxFailPost
    <2> QED
      BY <2>1, <2>2
  <1>12. CASE TxFailGive
    <2>1. SyncTypeOK'
      BY <1>12 DEF SyncTypeOK, TxFailGive, TxTypeOK, SemGive
    <2>2. TxTypeOK'
      BY <1>12 DEF TxTypeOK, TxFailGive, TxPc
    <2>3. FateTypeOK'
      BY <1>12 DEF FateTypeOK, TxFailGive, SemGive
    <2>4. CallerTypeOK' /\ AsyncTypeOK' /\ RxTypeOK' /\ TimerTypeOK' /\ NetTypeOK'
      BY <1>12 DEF CallerTypeOK, AsyncTypeOK, RxTypeOK, TimerTypeOK, NetTypeOK, TxFailGive
    <2> QED
      BY <2>1, <2>2, <2>3, <2>4
  <1>13. CASE TxFailFree
    <2>1. TxTypeOK'
      BY <1>13 DEF TxTypeOK, TxFailFree, TxDone, TxPc
    <2>2. FateTypeOK'
      BY <1>13, FreeType DEF FateTypeOK, TxFailFree, TxTypeOK
    <2>3. /\ CallerTypeOK' /\ SyncTypeOK' /\ AsyncTypeOK'
          /\ RxTypeOK' /\ TimerTypeOK' /\ NetTypeOK'
      BY <1>13 DEF CallerTypeOK, SyncTypeOK, AsyncTypeOK, RxTypeOK, TimerTypeOK,
           NetTypeOK, TxFailFree
    <2> QED
      BY <2>1, <2>2, <2>3
  <1> QED
    BY <1>1, <1>2, <1>3, <1>4, <1>5, <1>6, <1>7, <1>8, <1>9, <1>10, <1>11, <1>12,
         <1>13 DEF TxThread

\* A step of rpc_rx_thread keeps every variable in its type.
LEMMA RxType == ASSUME TypeOK, RxThread PROVE TypeOK'
  <1> USE IndexFacts DEF TypeOK
  <1>1. CASE RxPoll
    <2>1. RxTypeOK'
      BY <1>1 DEF RxTypeOK, RxPoll, RxPc
    <2>2. /\ CallerTypeOK' /\ SyncTypeOK' /\ AsyncTypeOK' /\ TxTypeOK'
          /\ TimerTypeOK' /\ NetTypeOK' /\ FateTypeOK'
      BY <1>1 DEF CallerTypeOK, SyncTypeOK, AsyncTypeOK, TxTypeOK, TimerTypeOK,
           NetTypeOK, FateTypeOK, RxPoll
    <2> QED
      BY <2>1, <2>2
  <1>2. CASE RxRead
    <2>1. RxTypeOK'
      BY <1>2 DEF RxTypeOK, RxRead, NetTypeOK, RxDone, RxPc
    <2>2. NetTypeOK'
      BY <1>2 DEF NetTypeOK, RxRead
    <2>3. /\ CallerTypeOK' /\ SyncTypeOK' /\ AsyncTypeOK'
          /\ TxTypeOK' /\ TimerTypeOK' /\ FateTypeOK'
      BY <1>2 DEF CallerTypeOK, SyncTypeOK, AsyncTypeOK, TxTypeOK, TimerTypeOK,
           FateTypeOK, RxRead
    <2> QED
      BY <2>1, <2>2, <2>3
  <1>3. CASE RxClassify
    <2>1. RxTypeOK'
      BY <1>3 DEF RxTypeOK, RxClassify, RxPc
    <2>2. /\ CallerTypeOK' /\ SyncTypeOK' /\ AsyncTypeOK' /\ TxTypeOK'
          /\ TimerTypeOK' /\ NetTypeOK' /\ FateTypeOK'
      BY <1>3 DEF CallerTypeOK, SyncTypeOK, AsyncTypeOK, TxTypeOK, TimerTypeOK,
           NetTypeOK, FateTypeOK, RxClassify
    <2> QED
      BY <2>1, <2>2
  <1>4. CASE RxFind
    <2>1. RxTypeOK'
      BY <1>4 DEF RxTypeOK, RxFind, RxDone, RxPc
    <2>2. /\ CallerTypeOK' /\ SyncTypeOK' /\ AsyncTypeOK' /\ TxTypeOK'
          /\ TimerTypeOK' /\ NetTypeOK' /\ FateTypeOK'
      BY <1>4 DEF CallerTypeOK, SyncTypeOK, AsyncTypeOK, TxTypeOK, TimerTypeOK,
           NetTypeOK, FateTypeOK, RxFind
    <2> QED
      BY <2>1, <2>2
  <1>5. CASE RxCallback
    <2>1. RxTypeOK'
      BY <1>5 DEF RxTypeOK, RxCallback, RxPc
    <2>2. FateTypeOK'
      BY <1>5, TellType DEF FateTypeOK, RxCallback, RxTypeOK, Note
    <2>3. /\ CallerTypeOK' /\ SyncTypeOK' /\ AsyncTypeOK'
          /\ TxTypeOK' /\ TimerTypeOK' /\ NetTypeOK'
      BY <1>5 DEF CallerTypeOK, SyncTypeOK, AsyncTypeOK, TxTypeOK, TimerTypeOK,
           NetTypeOK, RxCallback
    <2> QED
      BY <2>1, <2>2, <2>3
  <1>6. CASE RxClear
    <2>1. AsyncTypeOK'
      BY <1>6, ClearType DEF AsyncTypeOK, RxClear, RxTypeOK, FateTypeOK
    <2>2. RxTypeOK'
      BY <1>6 DEF RxTypeOK, RxClear, RxDone, RxPc
    <2>3. FateTypeOK'
      BY <1>6, ClearType DEF FateTypeOK, RxClear, AsyncTypeOK, RxTypeOK
    <2>4. CallerTypeOK' /\ SyncTypeOK' /\ TxTypeOK' /\ TimerTypeOK' /\ NetTypeOK'
      BY <1>6 DEF CallerTypeOK, SyncTypeOK, TxTypeOK, TimerTypeOK, NetTypeOK, RxClear
    <2> QED
      BY <2>1, <2>2, <2>3, <2>4
  <1>7. CASE RxPut
    <2>1. RxTypeOK'
      BY <1>7 DEF RxTypeOK, RxPut, RxPc
    <2>2. /\ CallerTypeOK' /\ SyncTypeOK' /\ AsyncTypeOK' /\ TxTypeOK'
          /\ TimerTypeOK' /\ NetTypeOK' /\ FateTypeOK'
      BY <1>7 DEF CallerTypeOK, SyncTypeOK, AsyncTypeOK, TxTypeOK, TimerTypeOK,
           NetTypeOK, FateTypeOK, RxPut
    <2> QED
      BY <2>1, <2>2
  <1>8. CASE RxPost
    <2>1. RxTypeOK'
      BY <1>8 DEF RxTypeOK, RxPost, SyncTypeOK, RxDone, RxPc
    <2>2. /\ CallerTypeOK' /\ SyncTypeOK' /\ AsyncTypeOK' /\ TxTypeOK'
          /\ TimerTypeOK' /\ NetTypeOK' /\ FateTypeOK'
      BY <1>8 DEF CallerTypeOK, SyncTypeOK, AsyncTypeOK, TxTypeOK, TimerTypeOK,
           NetTypeOK, FateTypeOK, RxPost
    <2> QED
      BY <2>1, <2>2
  <1>9. CASE RxGive
    <2>1. SyncTypeOK'
      BY <1>9 DEF SyncTypeOK, RxGive, RxTypeOK, SemGive
    <2>2. RxTypeOK'
      BY <1>9 DEF RxTypeOK, RxGive, RxDone, RxPc
    <2>3. FateTypeOK'
      BY <1>9 DEF FateTypeOK, RxGive, SemGive
    <2>4. CallerTypeOK' /\ AsyncTypeOK' /\ TxTypeOK' /\ TimerTypeOK' /\ NetTypeOK'
      BY <1>9 DEF CallerTypeOK, AsyncTypeOK, TxTypeOK, TimerTypeOK, NetTypeOK, RxGive
    <2> QED
      BY <2>1, <2>2, <2>3, <2>4
  <1> QED
    BY <1>1, <1>2, <1>3, <1>4, <1>5, <1>6, <1>7, <1>8, <1>9 DEF RxThread

\* A step of the timer task keeps every variable in its type.
LEMMA TimerType == ASSUME TypeOK, TimerTask PROVE TypeOK'
  <1> USE IndexFacts DEF TypeOK
  <1>1. CASE TimerFind
    <2>1. TimerTypeOK'
      BY <1>1 DEF TimerTypeOK, TimerFind, TimerPc
    <2>2. /\ CallerTypeOK' /\ SyncTypeOK' /\ AsyncTypeOK' /\ TxTypeOK'
          /\ RxTypeOK' /\ NetTypeOK' /\ FateTypeOK'
      BY <1>1 DEF CallerTypeOK, SyncTypeOK, AsyncTypeOK, TxTypeOK, RxTypeOK, NetTypeOK,
           FateTypeOK, TimerFind
    <2> QED
      BY <2>1, <2>2
  <1>2. CASE TimerClear
    <2>1. AsyncTypeOK'
      BY <1>2, ClearType DEF AsyncTypeOK, TimerClear, TimerTypeOK, FateTypeOK
    <2>2. TimerTypeOK'
      BY <1>2 DEF TimerTypeOK, TimerClear, TimerPc
    <2>3. FateTypeOK'
      BY <1>2, ClearType DEF FateTypeOK, TimerClear, AsyncTypeOK, TimerTypeOK
    <2>4. CallerTypeOK' /\ SyncTypeOK' /\ TxTypeOK' /\ RxTypeOK' /\ NetTypeOK'
      BY <1>2 DEF CallerTypeOK, SyncTypeOK, TxTypeOK, RxTypeOK, NetTypeOK, TimerClear
    <2> QED
      BY <2>1, <2>2, <2>3, <2>4
  <1>3. CASE TimerCall
    <2>1. TimerTypeOK'
      BY <1>3 DEF TimerTypeOK, TimerCall, TimerPc
    <2>2. FateTypeOK'
      BY <1>3, TellType DEF FateTypeOK, TimerCall, TimerTypeOK, Note
    <2>3. /\ CallerTypeOK' /\ SyncTypeOK' /\ AsyncTypeOK'
          /\ TxTypeOK' /\ RxTypeOK' /\ NetTypeOK'
      BY <1>3 DEF CallerTypeOK, SyncTypeOK, AsyncTypeOK, TxTypeOK, RxTypeOK, NetTypeOK,
           TimerCall
    <2> QED
      BY <2>1, <2>2, <2>3
  <1>4. ASSUME NEW u \in Uid0, TimerExpire(u) PROVE TypeOK'
    <2>1. AsyncTypeOK' /\ TimerTypeOK'
      BY <1>4 DEF AsyncTypeOK, TimerTypeOK, TimerExpire, TimerPc
    <2>2. /\ CallerTypeOK' /\ SyncTypeOK' /\ TxTypeOK'
          /\ RxTypeOK' /\ NetTypeOK' /\ FateTypeOK'
      BY <1>4 DEF CallerTypeOK, SyncTypeOK, TxTypeOK, RxTypeOK, NetTypeOK, FateTypeOK,
           TimerExpire
    <2> QED
      BY <2>1, <2>2
  <1> QED
    BY <1>1, <1>2, <1>3, <1>4 DEF TimerTask

\* A step of the co-processor keeps every variable in its type.
LEMMA NetType == ASSUME TypeOK, Slave PROVE TypeOK'
  <1> USE IndexFacts DEF TypeOK
  <1>1. CASE SlaveAnswer
    <2>1. NetTypeOK'
      BY <1>1 DEF NetTypeOK, SlaveAnswer
    <2>2. /\ CallerTypeOK' /\ SyncTypeOK' /\ AsyncTypeOK' /\ TxTypeOK'
          /\ RxTypeOK' /\ TimerTypeOK' /\ FateTypeOK'
      BY <1>1 DEF CallerTypeOK, SyncTypeOK, AsyncTypeOK, TxTypeOK, RxTypeOK, TimerTypeOK,
           FateTypeOK, SlaveAnswer
    <2> QED
      BY <2>1, <2>2
  <1>2. CASE SlaveLose
    <2>1. NetTypeOK'
      BY <1>2 DEF NetTypeOK, SlaveLose
    <2>2. /\ CallerTypeOK' /\ SyncTypeOK' /\ AsyncTypeOK' /\ TxTypeOK'
          /\ RxTypeOK' /\ TimerTypeOK' /\ FateTypeOK'
      BY <1>2 DEF CallerTypeOK, SyncTypeOK, AsyncTypeOK, TxTypeOK, RxTypeOK, TimerTypeOK,
           FateTypeOK, SlaveLose
    <2> QED
      BY <2>1, <2>2
  <1>3. CASE SlaveEvent
    <2>1. NetTypeOK'
      BY <1>3 DEF NetTypeOK, SlaveEvent
    <2>2. /\ CallerTypeOK' /\ SyncTypeOK' /\ AsyncTypeOK' /\ TxTypeOK'
          /\ RxTypeOK' /\ TimerTypeOK' /\ FateTypeOK'
      BY <1>3 DEF CallerTypeOK, SyncTypeOK, AsyncTypeOK, TxTypeOK, RxTypeOK, TimerTypeOK,
           FateTypeOK, SlaveEvent
    <2> QED
      BY <2>1, <2>2
  <1> QED
    BY <1>1, <1>2, <1>3 DEF Slave

\* Cleanup frees a request a natural number of times.
LEMMA CleanupType == ASSUME TypeOK, NEW u \in Uid0 PROVE CleanupFrees(u) \in Nat
  <1>1. IsFiniteSet(1 .. Len(rpc_tx_q)) /\ IsFiniteSet(ASlots)
    BY FS_Interval, SizesAssumption DEF TypeOK, TxTypeOK, ASlots
  <1>2. DOMAIN rpc_tx_q = 1 .. Len(rpc_tx_q)
    BY DEF TypeOK, TxTypeOK
  <1>3. /\ IsFiniteSet({k \in DOMAIN rpc_tx_q : rpc_tx_q[k] = u})
        /\ IsFiniteSet({i \in ASlots : async[i].req = u})
    BY <1>1, <1>2, FS_Subset
  <1> QED
    BY <1>3, FS_CardinalityType DEF CleanupFrees

\* Starting, stopping and tearing down keep every variable in its type.
LEMMA LibType == ASSUME TypeOK,
  rpc_core_init \/ rpc_core_start \/ rpc_core_stop \/ rpc_core_deinit
    PROVE  TypeOK'
  <1> USE IndexFacts DEF TypeOK
  <1>1. CASE rpc_core_init
    <2>1. TxTypeOK'
      BY <1>1 DEF TxTypeOK, rpc_core_init, TxPc
    <2>2. RxTypeOK'
      BY <1>1 DEF RxTypeOK, rpc_core_init, RxPc
    <2>3. FateTypeOK'
      BY <1>1 DEF FateTypeOK, rpc_core_init
    <2>4. CallerTypeOK' /\ SyncTypeOK' /\ AsyncTypeOK' /\ TimerTypeOK' /\ NetTypeOK'
      BY <1>1 DEF CallerTypeOK, SyncTypeOK, AsyncTypeOK, TimerTypeOK, NetTypeOK,
           rpc_core_init
    <2> QED
      BY <2>1, <2>2, <2>3, <2>4
  <1>2. CASE rpc_core_start
    <2>1. FateTypeOK'
      BY <1>2 DEF FateTypeOK, rpc_core_start
    <2>2. /\ CallerTypeOK' /\ SyncTypeOK' /\ AsyncTypeOK' /\ TxTypeOK'
          /\ RxTypeOK' /\ TimerTypeOK' /\ NetTypeOK'
      BY <1>2 DEF CallerTypeOK, SyncTypeOK, AsyncTypeOK, TxTypeOK, RxTypeOK, TimerTypeOK,
           NetTypeOK, rpc_core_start
    <2> QED
      BY <2>1, <2>2
  <1>3. CASE rpc_core_stop
    <2>1. FateTypeOK'
      BY <1>3 DEF FateTypeOK, rpc_core_stop
    <2>2. /\ CallerTypeOK' /\ SyncTypeOK' /\ AsyncTypeOK' /\ TxTypeOK'
          /\ RxTypeOK' /\ TimerTypeOK' /\ NetTypeOK'
      BY <1>3 DEF CallerTypeOK, SyncTypeOK, AsyncTypeOK, TxTypeOK, RxTypeOK, TimerTypeOK,
           NetTypeOK, rpc_core_stop
    <2> QED
      BY <2>1, <2>2
  <1>4. CASE rpc_core_deinit
    <2>1. SyncTypeOK'
      BY <1>4 DEF SyncTypeOK, rpc_core_deinit
    <2>2. AsyncTypeOK'
      BY <1>4 DEF AsyncTypeOK, rpc_core_deinit, CleanupTimers, AsyncSlot
    <2>3. TxTypeOK'
      BY <1>4 DEF TxTypeOK, rpc_core_deinit, TxPc
    <2>4. RxTypeOK'
      BY <1>4 DEF RxTypeOK, rpc_core_deinit, RxPc
    <2>5. FateTypeOK'
      <3>1. \A u \in Uid0 : freed[u] + CleanupFrees(u) \in Nat
        <4> TAKE u \in Uid0
        <4>1. CleanupFrees(u) \in Nat
          BY CleanupType, Zenon
        <4>2. freed[u] \in Nat
          BY DEF FateTypeOK
        <4> QED
          BY <4>1, <4>2
      <3>2. freed' = [u \in Uid0 |-> freed[u] + CleanupFrees(u)]
        BY <1>4 DEF rpc_core_deinit
      <3>3. freed' \in [Uid0 -> Nat]
        BY <3>1, <3>2, Zenon
      <3> QED
        BY <1>4, <3>3 DEF FateTypeOK, rpc_core_deinit
    <2>6. CallerTypeOK' /\ TimerTypeOK' /\ NetTypeOK'
      BY <1>4 DEF CallerTypeOK, TimerTypeOK, NetTypeOK, rpc_core_deinit
    <2> QED
      BY <2>1, <2>2, <2>3, <2>4, <2>5, <2>6
  <1> QED
    BY <1>1, <1>2, <1>3, <1>4

\* Every step keeps every variable in its type.
LEMMA NextType == ASSUME TypeOK, [Next]_vars PROVE TypeOK'
  <1>1. CASE UNCHANGED vars
    BY <1>1 DEF vars, TypeOK, CallerTypeOK, SyncTypeOK, AsyncTypeOK, TxTypeOK, RxTypeOK,
         TimerTypeOK, NetTypeOK, FateTypeOK
  <1> QED
    BY <1>1, CallerType, TxType, RxType, TimerType, NetType, LibType DEF Next, Idle

\* h_rpc_core.c keeps its counters, tables and queues well formed whatever the
\* threads, the link and the clock do: no index, uid or count leaves its range.
THEOREM TypeCorrect == Spec => []TypeOK
  BY InitType, NextType, PTL DEF Spec

-----------------------------------------------------------------------------
(* Two counting arguments: the wake-ups of the tx thread and of a caller.  *)

\* The callers are finitely many, so the sets of callers counted below have a size.
LEMMA CallersFinite == IsFiniteSet(Callers)
  BY CallersAssumption, FS_Union DEF Callers

Lifecycle == rpc_core_init \/ rpc_core_start \/ rpc_core_stop \/ rpc_core_deinit

\* Once rpc_core_deinit has run, both threads are cancelled.
Stopped == lib = "inactive" => txpc = "dead" /\ rxpc = "dead"

\* Neither thread takes a step between rpc_core_deinit and the next rpc_core_init.
LEMMA StoppedHolds == Spec => []Stopped
  <1>1. Init => Stopped
    BY DEF Init, Stopped
  <1>2. Stopped /\ [Next]_vars => Stopped'
    <2> SUFFICES ASSUME Stopped, [Next]_vars PROVE Stopped'
      OBVIOUS
    <2> USE DEF Stopped
    <2>1. CASE \E c \in Callers : Caller(c)
      BY <2>1 DEF Caller, AssignUid, ScanSyncTable, SetSyncUid, SetSyncSem, EnqueueReq, TxInd,
           LookupSyncSlot, TakeSyncSem, DeleteSyncSem, ClearSyncUid, ClearSyncSem,
           DequeueResp, FreeReq
    <2>2. CASE TxThread
      BY <2>2 DEF TxThread, TxPoll, TxTake, TxRecv, TxCompose, TxStartTimer, TxSetUid, TxSetCb,
           TxSend, TxSent, TxFail, TxFailPost, TxFailGive, TxFailFree
    <2>3. CASE RxThread
      BY <2>3 DEF RxThread, RxPoll, RxRead, RxClassify, RxFind, RxCallback, RxClear, RxPut,
           RxPost, RxGive
    <2>4. CASE TimerTask \/ Slave
      BY <2>4 DEF TimerTask, TimerExpire, TimerFind, TimerClear, TimerCall, Slave,
           SlaveAnswer, SlaveLose, SlaveEvent
    <2>5. CASE Lifecycle
      BY <2>5 DEF Lifecycle, rpc_core_init, rpc_core_start, rpc_core_stop, rpc_core_deinit
    <2>6. CASE UNCHANGED vars
      BY <2>6 DEF vars
    <2> QED
      BY <2>1, <2>2, <2>3, <2>4, <2>5, <2>6 DEF Next, Idle, Lifecycle
  <1> QED
    BY <1>1, <1>2, PTL DEF Spec
-----------------------------------------------------------------------------
(* rpc_tx_sem counts rpc_tx_q.                                             *)

\* TxWakeups with the bound that keeps the semaphore from saturating.
TxCount == TxWakeups /\ Len(rpc_tx_q) <= TxQSize

\* The callers about to give rpc_tx_sem can be counted.
LEMMA IndicatingFinite == IsFiniteSet(Indicating) /\ Cardinality(Indicating) \in Nat
  BY CallersFinite, FS_Subset, FS_CardinalityType DEF Indicating

\* A caller that moves between two positions away from rpc_tx_ind changes no count.
LEMMA IndicatingKept ==
    ASSUME TypeOK, NEW c \in Callers, NEW p, cpc[c] # "ind", p # "ind", Goto(c, p)
    PROVE  Indicating' = Indicating
  BY DEF TypeOK, CallerTypeOK, Goto, Indicating

\* A caller queues its request before it gives the semaphore for it.
LEMMA TxCountCaller ==
    ASSUME TypeOK, TxCount, NEW c \in Callers, Caller(c)
    PROVE  TxCount'
  <1> USE IndicatingFinite, SizesAssumption DEF TxCount
  <1>1. CASE EnqueueReq(c)
    <2>1. Indicating' = Indicating \cup {c} /\ c \notin Indicating
      BY <1>1 DEF EnqueueReq, Goto, Indicating, TypeOK, CallerTypeOK
    <2>2. Cardinality(Indicating') = Cardinality(Indicating) + 1
      BY <2>1, FS_AddElement
    <2>3. Len(rpc_tx_q') = Len(rpc_tx_q) + 1 /\ Len(rpc_tx_q) \in Nat
      BY <1>1 DEF EnqueueReq, TypeOK, TxTypeOK, CallerTypeOK
    <2>4. UNCHANGED <<rpc_tx_sem, txpc>> /\ Len(rpc_tx_q) < TxQSize
      BY <1>1 DEF EnqueueReq
    <2> QED
      BY <2>2, <2>3, <2>4 DEF TxWakeups, TypeOK, TxTypeOK
  <1>2. CASE TxInd(c)
    <2>1. Indicating' = Indicating \ {c} /\ c \in Indicating
      BY <1>2 DEF TxInd, Goto, Return, Indicating, TypeOK, CallerTypeOK
    <2>2. Cardinality(Indicating') = Cardinality(Indicating) - 1
      BY <2>1, FS_RemoveElement
    <2>3. Cardinality(Indicating) # 0
      BY <2>1, FS_EmptySet
    <2>4. UNCHANGED <<rpc_tx_q, txpc>> /\ rpc_tx_ind
      BY <1>2 DEF TxInd
    <2> QED
      BY <2>2, <2>3, <2>4 DEF TxWakeups, rpc_tx_ind, TypeOK, TxTypeOK
  <1>3. ASSUME ~EnqueueReq(c), ~TxInd(c)
        PROVE  UNCHANGED <<rpc_tx_q, rpc_tx_sem, txpc>>
    BY <1>3 DEF Caller, AssignUid, ScanSyncTable, SetSyncUid, SetSyncSem, LookupSyncSlot,
         TakeSyncSem, DeleteSyncSem, ClearSyncUid, ClearSyncSem, DequeueResp, FreeReq
  <1>4. ASSUME ~EnqueueReq(c), ~TxInd(c)
        PROVE  Indicating' = Indicating
    <2>1. \E p : Goto(c, p) /\ cpc[c] # "ind" /\ p # "ind"
      <3>1. CASE AssignUid(c)
        BY <3>1 DEF AssignUid
      <3>2. CASE ScanSyncTable(c) \/ FreeReq(c)
        BY <3>2 DEF ScanSyncTable, FreeReq, Return
      <3>3. CASE SetSyncUid(c) \/ SetSyncSem(c) \/ DeleteSyncSem(c) \/ ClearSyncUid(c)
        BY <3>3 DEF SetSyncUid, SetSyncSem, DeleteSyncSem, ClearSyncUid
      <3>4. CASE LookupSyncSlot(c) \/ TakeSyncSem(c) \/ ClearSyncSem(c) \/ DequeueResp(c)
        BY <3>4 DEF LookupSyncSlot, TakeSyncSem, ClearSyncSem, DequeueResp
      <3> QED
        BY <1>4, <3>1, <3>2, <3>3, <3>4 DEF Caller
    <2> QED
      BY <2>1, IndicatingKept
  <1> QED
    BY <1>1, <1>2, <1>3, <1>4 DEF TxWakeups

\* The tx thread takes a unit of the semaphore before it dequeues a request.
LEMMA TxCountThread == ASSUME TypeOK, TxCount, TxThread PROVE TxCount'
  <1> USE IndicatingFinite, SizesAssumption DEF TxCount
  <1>0. Indicating' = Indicating
    <2>1. UNCHANGED cpc
      BY DEF TxThread, TxPoll, TxTake, TxRecv, TxCompose, TxStartTimer, TxSetUid, TxSetCb,
           TxSend, TxSent, TxFail, TxFailPost, TxFailGive, TxFailFree
    <2> QED
      BY <2>1 DEF Indicating
  <1>1. CASE TxTake
    BY <1>0, <1>1 DEF TxTake, TxWakeups, TypeOK, TxTypeOK
  <1>2. CASE TxRecv
    <2>1. Len(rpc_tx_q') = Len(rpc_tx_q) - 1 /\ Len(rpc_tx_q) \in Nat
      BY <1>2 DEF TxRecv, TypeOK, TxTypeOK
    <2>2. UNCHANGED rpc_tx_sem /\ txpc = "recv" /\ txpc' # "recv"
      BY <1>2 DEF TxRecv
    <2> QED
      BY <1>0, <2>1, <2>2 DEF TxWakeups, TypeOK, TxTypeOK
  <1>3. ASSUME ~TxTake, ~TxRecv
        PROVE  UNCHANGED <<rpc_tx_q, rpc_tx_sem>> /\ txpc # "recv" /\ txpc' # "recv"
    BY <1>3 DEF TxThread, TxPoll, TxCompose, TxStartTimer, TxSetUid, TxSetCb, TxSend,
         TxSent, TxFail, TxFailPost, TxFailGive, TxFailFree, FailReq, TxDone
  <1> QED
    BY <1>0, <1>1, <1>2, <1>3 DEF TxWakeups

\* The other threads touch neither rpc_tx_q nor rpc_tx_sem; deinit empties both.
LEMMA TxCountOthers ==
    ASSUME TypeOK, TxCount, Stopped, RxThread \/ TimerTask \/ Slave \/ Lifecycle
    PROVE  TxCount'
  <1>1. CASE rpc_core_deinit
    <2>1. Indicating' = {}
      BY <1>1 DEF rpc_core_deinit, Indicating
    <2>2. rpc_tx_q' = <<>> /\ rpc_tx_sem' = 0 /\ txpc' = "dead"
      BY <1>1 DEF rpc_core_deinit
    <2> QED
      BY <2>1, <2>2, FS_EmptySet, SizesAssumption DEF TxCount, TxWakeups
  <1>2. ASSUME ~rpc_core_deinit
        PROVE  UNCHANGED <<cpc, rpc_tx_q, rpc_tx_sem>> /\ (txpc' = "recv" <=> txpc = "recv")
    <2>1. CASE RxThread
      BY <2>1 DEF RxThread, RxPoll, RxRead, RxClassify, RxFind, RxCallback, RxClear, RxPut,
           RxPost, RxGive
    <2>2. CASE TimerTask \/ Slave
      BY <2>2 DEF TimerTask, TimerExpire, TimerFind, TimerClear, TimerCall, Slave,
           SlaveAnswer, SlaveLose, SlaveEvent
    <2>3. CASE rpc_core_init \/ rpc_core_start \/ rpc_core_stop
      BY <2>3 DEF rpc_core_init, rpc_core_start, rpc_core_stop, Stopped
    <2> QED
      BY <1>2, <2>1, <2>2, <2>3 DEF Lifecycle
  <1>3. ASSUME ~rpc_core_deinit PROVE Indicating' = Indicating
    BY <1>2, <1>3 DEF Indicating
  <1> QED
    BY <1>1, <1>2, <1>3 DEF TxCount, TxWakeups

\* Every request in rpc_tx_q has its own wake-up of the tx thread, and a taken
\* wake-up finds a request: the thread neither sleeps on a non-empty queue nor
\* blocks on an empty one.
THEOREM TxWakeupsHold == Spec => []TxWakeups
  <1>1. Init => TxCount
    <2> SUFFICES ASSUME Init PROVE TxCount
      OBVIOUS
    <2>1. Indicating = {} /\ rpc_tx_q = <<>> /\ rpc_tx_sem = 0 /\ txpc = "poll"
      BY DEF Init, Indicating
    <2> QED
      BY <2>1, FS_EmptySet, SizesAssumption DEF TxCount, TxWakeups
  <1>2. TypeOK /\ Stopped /\ TxCount /\ [Next]_vars => TxCount'
    <2> SUFFICES ASSUME TypeOK, Stopped, TxCount, [Next]_vars PROVE TxCount'
      OBVIOUS
    <2>1. CASE UNCHANGED vars
      BY <2>1 DEF vars, TxCount, TxWakeups, Indicating
    <2> QED
      BY <2>1, TxCountCaller, TxCountThread, TxCountOthers DEF Next, Idle, Lifecycle
  <1> QED
    BY <1>1, <1>2, TypeCorrect, StoppedHolds, PTL DEF Spec, TxCount
-----------------------------------------------------------------------------
(* rpc_rx_q holds a response for everybody who was, or is about to be, woken. *)

Full  == {u \in Uid0 : sem[u] = "full"}
Woken ==
    {c \in Callers : \/ cpc[c] = "recv"
                     \/ cpc[c] \in {"delete", "clruid", "clrsem"} /\ cret[c] = "ok"}
RxPromise == IF rxpc \in {"post", "give"} THEN 1 ELSE 0
TxPromise == IF txpc \in {"failpost", "failgive"} THEN 1 ELSE 0

\* A response is queued before a semaphore is given for it, and each give, each
\* take and each dequeue moves one unit of this sum.
RxCount ==
    Len(rpc_rx_q) >= Cardinality(Full) + Cardinality(Woken) + RxPromise + TxPromise

\* The semaphores that were given and not taken can be counted.
LEMMA FullFinite == IsFiniteSet(Full) /\ Cardinality(Full) \in Nat
  <1>1. IsFiniteSet(Uid0)
    BY FS_Interval, SizesAssumption DEF Uid0
  <1> QED
    BY <1>1, FS_Subset, FS_CardinalityType DEF Full

\* The callers on their way from the semaphore to the queue can be counted.
LEMMA WokenFinite == IsFiniteSet(Woken) /\ Cardinality(Woken) \in Nat
  BY CallersFinite, FS_Subset, FS_CardinalityType DEF Woken

\* A step that gives no semaphore does not raise the count of given ones.
LEMMA FewerFull ==
    ASSUME Full' \subseteq Full
    PROVE  Cardinality(Full') <= Cardinality(Full) /\ Cardinality(Full') \in Nat
  BY FullFinite, FS_Subset, FS_CardinalityType

\* A step that wakes nobody does not raise the count of woken callers.
LEMMA FewerWoken ==
    ASSUME Woken' \subseteq Woken
    PROVE  Cardinality(Woken') <= Cardinality(Woken) /\ Cardinality(Woken') \in Nat
  BY WokenFinite, FS_Subset, FS_CardinalityType

\* A step of one caller wakes at most that caller.
LEMMA OneMoreWoken ==
    ASSUME NEW c, Woken' \subseteq Woken \cup {c}
    PROVE  Cardinality(Woken') <= Cardinality(Woken) + 1 /\ Cardinality(Woken') \in Nat
  <1>0. /\ IsFiniteSet(Woken \cup {c})
        /\ \/ Cardinality(Woken \cup {c}) = Cardinality(Woken)
           \/ Cardinality(Woken \cup {c}) = Cardinality(Woken) + 1
    BY WokenFinite, FS_AddElement
  <1>1. /\ IsFiniteSet(Woken \cup {c})
        /\ Cardinality(Woken \cup {c}) <= Cardinality(Woken) + 1
        /\ Cardinality(Woken \cup {c}) \in Nat
    BY <1>0, WokenFinite
  <1>2. Cardinality(Woken') <= Cardinality(Woken \cup {c}) /\ Cardinality(Woken') \in Nat
    BY <1>1, FS_Subset, FS_CardinalityType
  <1> QED
    BY <1>1, <1>2, WokenFinite

\* A give makes at most one more semaphore full.
LEMMA GiveCount ==
    ASSUME TypeOK, NEW s \in Uid0, SemGive(s)
    PROVE  Cardinality(Full') <= Cardinality(Full) + 1 /\ Cardinality(Full') \in Nat
  <1>1. Full' \subseteq Full \cup {s}
    BY DEF SemGive, Full, TypeOK, SyncTypeOK
  <1>2. /\ IsFiniteSet(Full \cup {s})
        /\ Cardinality(Full \cup {s}) <= Cardinality(Full) + 1
        /\ Cardinality(Full \cup {s}) \in Nat
    BY FullFinite, FS_AddElement, FS_CardinalityType
  <1>3. Cardinality(Full') <= Cardinality(Full \cup {s}) /\ Cardinality(Full') \in Nat
    BY <1>1, <1>2, FS_Subset, FS_CardinalityType
  <1> QED
    BY <1>2, <1>3, FullFinite

\* A caller's take turns a given semaphore into a woken caller, its dequeue ends one.
LEMMA RxCountCaller ==
    ASSUME TypeOK, RxCount, NEW c \in Callers, Caller(c)
    PROVE  RxCount'
  <1> USE FullFinite, WokenFinite
  <1>1. UNCHANGED <<rxpc, txpc>>
    BY DEF Caller, AssignUid, ScanSyncTable, SetSyncUid, SetSyncSem, EnqueueReq, TxInd,
         LookupSyncSlot, TakeSyncSem, DeleteSyncSem, ClearSyncUid, ClearSyncSem,
         DequeueResp, FreeReq
  <1>2. /\ RxPromise' = RxPromise /\ TxPromise' = TxPromise
        /\ RxPromise \in Nat /\ TxPromise \in Nat /\ Len(rpc_rx_q) \in Nat
    BY <1>1 DEF RxPromise, TxPromise, TypeOK, RxTypeOK
  <1>3. CASE DequeueResp(c)
    <2>1. Full' = Full
      BY <1>3 DEF DequeueResp, Full
    <2>2. c \in Woken /\ Woken' = Woken \ {c}
      BY <1>3 DEF DequeueResp, Goto, Woken, TypeOK, CallerTypeOK
    <2>3. Cardinality(Woken') = Cardinality(Woken) - 1
      BY <2>2, FS_RemoveElement
    <2>4. Len(rpc_rx_q') = Len(rpc_rx_q) - 1
      BY <1>3 DEF DequeueResp, TypeOK, RxTypeOK
    <2> QED
      BY <1>2, <2>1, <2>3, <2>4 DEF RxCount
  <1>4. CASE TakeSyncSem(c) /\ sem' # sem
    <2>1. csem[c] \in Full /\ Full' = Full \ {csem[c]}
      BY <1>4 DEF TakeSyncSem, Full, TypeOK, SyncTypeOK, CallerTypeOK
    <2>2. Cardinality(Full') = Cardinality(Full) - 1
      BY <2>1, FS_RemoveElement
    <2>3. Woken' \subseteq Woken \cup {c}
      BY <1>4 DEF TakeSyncSem, Goto, Woken, TypeOK, CallerTypeOK
    <2>4. Cardinality(Woken') <= Cardinality(Woken) + 1 /\ Cardinality(Woken') \in Nat
      BY <2>3, OneMoreWoken
    <2>5. UNCHANGED rpc_rx_q
      BY <1>4 DEF TakeSyncSem
    <2> QED
      BY <1>2, <2>2, <2>4, <2>5 DEF RxCount
  <1>5. ASSUME ~DequeueResp(c), ~(TakeSyncSem(c) /\ sem' # sem)
        PROVE  Full' \subseteq Full /\ Woken' \subseteq Woken /\ UNCHANGED rpc_rx_q
    <2>1. CASE AssignUid(c) \/ SetSyncUid(c) \/ SetSyncSem(c) \/ EnqueueReq(c)
      BY <2>1 DEF AssignUid, SetSyncUid, SetSyncSem, EnqueueReq, Goto, Full, Woken, TypeOK,
           CallerTypeOK
    <2>2. CASE ScanSyncTable(c)
      <3>1. Full' \subseteq Full
        BY <2>2 DEF ScanSyncTable, Full, TypeOK, SyncTypeOK, CallerTypeOK
      <3>2. Woken' \subseteq Woken /\ UNCHANGED rpc_rx_q
        BY <2>2 DEF ScanSyncTable, Goto, Return, Woken, TypeOK, CallerTypeOK
      <3> QED
        BY <3>1, <3>2
    <2>3. CASE TxInd(c) \/ LookupSyncSlot(c) \/ FreeReq(c)
      BY <2>3 DEF TxInd, LookupSyncSlot, FreeReq, Return, Goto, Full, Woken, TypeOK,
           CallerTypeOK
    <2>4. CASE TakeSyncSem(c) /\ sem' = sem
      <3>1. \/ cret'[c] # "ok"
            \/ sem[csem[c]] = "full" /\ sem' = [sem EXCEPT ![csem[c]] = "empty"]
        BY <2>4 DEF TakeSyncSem, TypeOK, CallerTypeOK
      <3>2. cret'[c] # "ok"
        BY <2>4, <3>1 DEF TypeOK, SyncTypeOK, CallerTypeOK
      <3> QED
        BY <2>4, <3>2 DEF TakeSyncSem, Goto, Full, Woken, TypeOK, CallerTypeOK
    <2>5. CASE DeleteSyncSem(c)
      <3>1. Full' \subseteq Full
        BY <2>5 DEF DeleteSyncSem, Full, TypeOK, SyncTypeOK, CallerTypeOK
      <3>2. Woken' \subseteq Woken /\ UNCHANGED rpc_rx_q
        BY <2>5 DEF DeleteSyncSem, Goto, Woken, TypeOK, CallerTypeOK
      <3> QED
        BY <3>1, <3>2
    <2>6. CASE ClearSyncUid(c) \/ ClearSyncSem(c)
      BY <2>6 DEF ClearSyncUid, ClearSyncSem, Goto, Full, Woken, TypeOK, CallerTypeOK
    <2> QED
      BY <1>5, <2>1, <2>2, <2>3, <2>4, <2>5, <2>6 DEF Caller
  <1>6. ASSUME ~DequeueResp(c), ~(TakeSyncSem(c) /\ sem' # sem) PROVE RxCount'
    BY <1>2, <1>5, <1>6, FewerFull, FewerWoken DEF RxCount
  <1> QED
    BY <1>3, <1>4, <1>6

\* The failure path of the tx thread queues its response before it gives.
LEMMA RxCountTx == ASSUME TypeOK, RxCount, TxThread PROVE RxCount'
  <1> USE FullFinite, WokenFinite
  <1>1. UNCHANGED <<cpc, cret, rxpc>>
    BY DEF TxThread, TxPoll, TxTake, TxRecv, TxCompose, TxStartTimer, TxSetUid, TxSetCb,
         TxSend, TxSent, TxFail, TxFailPost, TxFailGive, TxFailFree
  <1>2. Woken' = Woken /\ RxPromise' = RxPromise /\ RxPromise \in Nat /\ Len(rpc_rx_q) \in Nat
    BY <1>1 DEF Woken, RxPromise, TypeOK, RxTypeOK
  <1>3. CASE TxFailGive
    <2>1. Cardinality(Full') <= Cardinality(Full) + 1 /\ Cardinality(Full') \in Nat
      BY <1>3, GiveCount DEF TxFailGive, TypeOK, TxTypeOK
    <2>2. TxPromise = 1 /\ TxPromise' = 0 /\ UNCHANGED rpc_rx_q
      BY <1>3 DEF TxFailGive, TxPromise
    <2> QED
      BY <1>2, <2>1, <2>2 DEF RxCount
  <1>4. ASSUME ~TxFailGive PROVE RxCount'
    <2>1. UNCHANGED sem
      BY <1>4 DEF TxThread, TxPoll, TxTake, TxRecv, TxCompose, TxStartTimer, TxSetUid, TxSetCb,
           TxSend, TxSent, TxFail, TxFailPost, TxFailFree
    <2>2. Full' = Full
      BY <2>1 DEF Full
    <2>3. \/ UNCHANGED rpc_rx_q /\ TxPromise' <= TxPromise
          \/ Len(rpc_rx_q') = Len(rpc_rx_q) + 1 /\ TxPromise = 0 /\ TxPromise' = 1
      <3>1. CASE TxFail
        BY <3>1 DEF TxFail, TxPromise, TypeOK, RxTypeOK
      <3>2. CASE TxFailPost
        BY <3>2 DEF TxFailPost, TxPromise
      <3>3. CASE TxPoll \/ TxTake \/ TxRecv \/ TxCompose \/ TxStartTimer \/ TxSetUid
                 \/ TxSetCb \/ TxSend \/ TxSent \/ TxFailFree
        BY <3>3 DEF TxPoll, TxTake, TxRecv, TxCompose, TxStartTimer, TxSetUid, TxSetCb,
             TxSend, TxSent, TxFailFree, FailReq, TxDone, TxPromise
      <3> QED
        BY <1>4, <3>1, <3>2, <3>3 DEF TxThread
    <2>4. TxPromise \in Nat /\ TxPromise' \in Nat
      BY DEF TxPromise
    <2> QED
      BY <1>2, <2>2, <2>3, <2>4 DEF RxCount
  <1> QED
    BY <1>3, <1>4

\* The rx thread queues a response before it gives.
LEMMA RxCountRx == ASSUME TypeOK, RxCount, RxThread PROVE RxCount'
  <1> USE FullFinite, WokenFinite
  <1>1. UNCHANGED <<cpc, cret, txpc>>
    BY DEF RxThread, RxPoll, RxRead, RxClassify, RxFind, RxCallback, RxClear, RxPut, RxPost,
         RxGive
  <1>2. Woken' = Woken /\ TxPromise' = TxPromise /\ TxPromise \in Nat /\ Len(rpc_rx_q) \in Nat
    BY <1>1 DEF Woken, TxPromise, TypeOK, RxTypeOK
  <1>3. CASE RxGive
    <2>1. Cardinality(Full') <= Cardinality(Full) + 1 /\ Cardinality(Full') \in Nat
      BY <1>3, GiveCount DEF RxGive, TypeOK, RxTypeOK
    <2>2. RxPromise = 1 /\ RxPromise' = 0 /\ UNCHANGED rpc_rx_q
      BY <1>3 DEF RxGive, RxDone, RxPromise
    <2> QED
      BY <1>2, <2>1, <2>2 DEF RxCount
  <1>4. ASSUME ~RxGive PROVE RxCount'
    <2>1. UNCHANGED sem
      BY <1>4 DEF RxThread, RxPoll, RxRead, RxClassify, RxFind, RxCallback, RxClear, RxPut,
           RxPost
    <2>2. Full' = Full
      BY <2>1 DEF Full
    <2>3. \/ UNCHANGED rpc_rx_q /\ RxPromise' <= RxPromise
          \/ Len(rpc_rx_q') = Len(rpc_rx_q) + 1 /\ RxPromise = 0 /\ RxPromise' = 1
      <3>1. CASE RxPut
        BY <3>1 DEF RxPut, RxPromise, TypeOK, RxTypeOK
      <3>2. CASE RxPost
        BY <3>2 DEF RxPost, RxDone, RxPromise
      <3>3. CASE RxPoll \/ RxRead \/ RxClassify \/ RxFind \/ RxCallback \/ RxClear
        BY <3>3 DEF RxPoll, RxRead, RxClassify, RxFind, RxCallback, RxClear, RxDone, RxPromise
      <3> QED
        BY <1>4, <3>1, <3>2, <3>3 DEF RxThread
    <2>4. RxPromise \in Nat /\ RxPromise' \in Nat
      BY DEF RxPromise
    <2> QED
      BY <1>2, <2>2, <2>3, <2>4 DEF RxCount
  <1> QED
    BY <1>3, <1>4

\* Timers and the co-processor change no part of the count; deinit empties all.
LEMMA RxCountOthers ==
    ASSUME TypeOK, RxCount, TimerTask \/ Slave \/ Lifecycle
    PROVE  RxCount'
  <1> USE FullFinite, WokenFinite, FS_EmptySet
  <1>1. CASE rpc_core_deinit
    <2>1. Full' = {} /\ Woken' = {} /\ RxPromise' = 0 /\ TxPromise' = 0 /\ rpc_rx_q' = <<>>
      BY <1>1 DEF rpc_core_deinit, Full, Woken, RxPromise, TxPromise
    <2> QED
      BY <2>1 DEF RxCount
  <1>2. ASSUME ~rpc_core_deinit
        PROVE  /\ UNCHANGED <<cpc, cret, sem, rpc_rx_q>>
               /\ RxPromise' <= RxPromise /\ TxPromise' <= TxPromise
    <2>1. CASE TimerTask \/ Slave
      BY <2>1 DEF TimerTask, TimerExpire, TimerFind, TimerClear, TimerCall, Slave,
           SlaveAnswer, SlaveLose, SlaveEvent, RxPromise, TxPromise
    <2>2. CASE rpc_core_init \/ rpc_core_start \/ rpc_core_stop
      BY <2>2 DEF rpc_core_init, rpc_core_start, rpc_core_stop, RxPromise, TxPromise
    <2> QED
      BY <1>2, <2>1, <2>2 DEF Lifecycle
  <1>3. ASSUME ~rpc_core_deinit PROVE RxCount'
    <2>1. Full' = Full /\ Woken' = Woken
      BY <1>2, <1>3 DEF Full, Woken
    <2>2. /\ RxPromise \in Nat /\ RxPromise' \in Nat /\ TxPromise \in Nat /\ TxPromise' \in Nat
          /\ Len(rpc_rx_q) \in Nat
      BY DEF RxPromise, TxPromise, TypeOK, RxTypeOK
    <2> QED
      BY <1>2, <1>3, <2>1, <2>2 DEF RxCount
  <1> QED
    BY <1>1, <1>3

\* A caller that was woken finds a response in rpc_rx_q: whoever gives a semaphore
\* has queued a response first, and only a woken caller takes one out.
THEOREM WokenFindsResponseHolds == Spec => []WokenFindsResponse
  <1>1. Init => RxCount
    <2> SUFFICES ASSUME Init PROVE RxCount
      OBVIOUS
    <2>1. Full = {} /\ Woken = {} /\ RxPromise = 0 /\ TxPromise = 0 /\ rpc_rx_q = <<>>
      BY DEF Init, Full, Woken, RxPromise, TxPromise
    <2> QED
      BY <2>1, FS_EmptySet DEF RxCount
  <1>2. TypeOK /\ RxCount /\ [Next]_vars => RxCount'
    <2> SUFFICES ASSUME TypeOK, RxCount, [Next]_vars PROVE RxCount'
      OBVIOUS
    <2>1. CASE UNCHANGED vars
      BY <2>1 DEF vars, RxCount, Full, Woken, RxPromise, TxPromise
    <2> QED
      BY <2>1, RxCountCaller, RxCountTx, RxCountRx, RxCountOthers DEF Next, Idle, Lifecycle
  <1>3. TypeOK /\ RxCount => WokenFindsResponse
    <2> SUFFICES ASSUME TypeOK, RxCount, NEW c \in Callers, cpc[c] = "recv"
                 PROVE  rpc_rx_q # <<>>
      BY DEF WokenFindsResponse
    <2>1. Cardinality(Woken) # 0
      <3>1. c \in Woken
        BY DEF Woken
      <3> QED
        BY <3>1, WokenFinite, FS_EmptySet
    <2>2. RxPromise \in Nat /\ TxPromise \in Nat
      BY DEF RxPromise, TxPromise
    <2> QED
      BY <2>1, <2>2, FullFinite, WokenFinite DEF RxCount
  <1> QED
    BY <1>1, <1>2, <1>3, TypeCorrect, PTL DEF Spec
-----------------------------------------------------------------------------
(* The uid counter numbers the calls, and two calls get the same uid only  *)
(* when the counter has gone all the way round between them.               *)

\* The calls made so far, and all the calls the application will ever make.
Made    == {p \in Callers \X (Nat \ {0}) : p[2] <= calls[p[1]]}
Planned == {p \in Callers \X (Nat \ {0}) : p[2] <= CallBudget[p[1]]}

\* The uid of the n-th call, for the first round of the counter.
Nth(n) == IF UidStart + n < UidMod THEN UidStart + n ELSE UidStart + n + 1 - UidMod

\* The counter has taken one step per call; a call in progress, and no other,
\* carries a uid, one the counter has yielded, and no two carry the same.
Numbered ==
    /\ \A c \in Callers : calls[c] <= CallBudget[c]
    /\ uid = Nth(Cardinality(Made))
    /\ \A c \in Callers : creq[c] = 0 <=> cpc[c] = "idle"
    /\ \A c \in Callers : creq[c] # 0 =>
         \E k \in 1 .. Cardinality(Made) : creq[c] = Nth(k)
    /\ UidsTellApart

\* The planned calls can be counted.
LEMMA PlannedFinite == IsFiniteSet(Planned) /\ Cardinality(Planned) \in Nat
  <1> DEFINE Of(c) == {c} \X (1 .. CallBudget[c])
             f == [c \in Callers |-> Of(c)]
             Parts == {Of(c) : c \in Callers}
  <1>1. \A c \in Callers : IsFiniteSet(Of(c))
    <2> TAKE c \in Callers
    <2>1. CallBudget[c] \in Int /\ 1 \in Int
      BY CallersAssumption
    <2>2. IsFiniteSet({c})
      BY FS_Singleton
    <2>3. IsFiniteSet(1 .. CallBudget[c])
      BY <2>1, FS_Interval
    <2> QED
      BY <2>2, <2>3, FS_Product
  <1>2. f \in Surjection(Callers, Parts)
    BY DEF Surjection
  <1>3. IsFiniteSet(Parts)
    <2> HIDE DEF f, Parts
    <2> QED
      BY <1>2, CallersFinite, FS_Surjection
  <1>4. IsFiniteSet(UNION Parts)
    BY <1>1, <1>3, FS_UNION
  <1>5. Planned \subseteq UNION Parts
    BY CallersAssumption DEF Planned
  <1> QED
    BY <1>4, <1>5, FS_Subset, FS_CardinalityType

\* So can the calls made, which are some of them.
LEMMA MadeFinite ==
    ASSUME TypeOK, \A c \in Callers : calls[c] <= CallBudget[c]
    PROVE  /\ IsFiniteSet(Made) /\ Cardinality(Made) \in Nat
           /\ Made \subseteq Planned /\ Cardinality(Made) <= Cardinality(Planned)
  <1>1. Made \subseteq Planned
    BY CallersAssumption DEF Made, Planned, TypeOK, CallerTypeOK
  <1> QED
    BY <1>1, PlannedFinite, FS_Subset, FS_CardinalityType

\* In its first round the counter goes on to a uid it has not yielded.
LEMMA FreshUid ==
    ASSUME NEW n \in Nat, n + 1 < UidMod
    PROVE  /\ NextUid(Nth(n)) = Nth(n + 1) /\ Nth(n + 1) # 0
           /\ \A k \in 1 .. n : Nth(k) # Nth(n + 1)
  BY SizesAssumption DEF NextUid, Nth, Uid0

\* A caller that is inside a call goes on with it or returns from it.
LEMMA CallerGoesOn ==
    ASSUME TypeOK, NEW c \in Callers, Caller(c), ~AssignUid(c)
    PROVE  /\ UNCHANGED numbering /\ cpc[c] # "idle"
           /\ \/ creq' = creq /\ \E p \in CallerPc \ {"idle"} : Goto(c, p)
              \/ Return(c)
  <1> USE DEF CallerPc
  <1>1. CASE ScanSyncTable(c)
    BY <1>1 DEF ScanSyncTable
  <1>2. CASE SetSyncUid(c) \/ SetSyncSem(c) \/ EnqueueReq(c)
    BY <1>2 DEF SetSyncUid, SetSyncSem, EnqueueReq
  <1>3. CASE TxInd(c)
    BY <1>3 DEF TxInd
  <1>4. CASE LookupSyncSlot(c) \/ TakeSyncSem(c) \/ DeleteSyncSem(c)
    BY <1>4 DEF LookupSyncSlot, TakeSyncSem, DeleteSyncSem
  <1>5. CASE ClearSyncUid(c) \/ ClearSyncSem(c) \/ DequeueResp(c)
    BY <1>5 DEF ClearSyncUid, ClearSyncSem, DequeueResp
  <1>6. CASE FreeReq(c)
    BY <1>6 DEF FreeReq
  <1> QED
    BY <1>1, <1>2, <1>3, <1>4, <1>5, <1>6 DEF Caller

\* Nobody else touches what a caller keeps.
LEMMA CallersAlone ==
    ASSUME TxThread \/ RxThread \/ TimerTask \/ Slave \/ Lifecycle
    PROVE  UNCHANGED <<uid, calls, creq, cpc, cslot, csem, cret, cmsg, has_cb>>
  <1>1. CASE TxThread
    BY <1>1 DEF TxThread, TxPoll, TxTake, TxRecv, TxCompose, TxStartTimer, TxSetUid, TxSetCb,
         TxSend, TxSent, TxFail, TxFailPost, TxFailGive, TxFailFree
  <1>2. CASE RxThread
    BY <1>2 DEF RxThread, RxPoll, RxRead, RxClassify, RxFind, RxCallback, RxClear, RxPut,
         RxPost, RxGive
  <1>3. CASE TimerTask \/ Slave
    BY <1>3 DEF TimerTask, TimerExpire, TimerFind, TimerClear, TimerCall, Slave,
         SlaveAnswer, SlaveLose, SlaveEvent
  <1>4. CASE Lifecycle
    BY <1>4 DEF Lifecycle, rpc_core_init, rpc_core_start, rpc_core_stop, rpc_core_deinit
  <1> QED
    BY <1>1, <1>2, <1>3, <1>4

\* Numbering a call yields the next uid of the first round.
LEMMA AssignFresh ==
    ASSUME Cardinality(Planned) < UidMod, TypeOK, TypeOK', Numbered,
           NEW c \in Callers, AssignUid(c)
    PROVE  /\ Cardinality(Made) \in Nat
           /\ Cardinality(Made') = Cardinality(Made) + 1
           /\ \A d \in Callers : calls'[d] <= CallBudget[d]
           /\ uid' = Nth(Cardinality(Made) + 1) /\ uid' # 0
           /\ \A k \in 1 .. Cardinality(Made) : Nth(k) # uid'
  <1> DEFINE n == Cardinality(Made)
  <1>1. n \in Nat /\ IsFiniteSet(Made)
    BY MadeFinite DEF Numbered
  <1>2. \A d \in Callers : calls'[d] <= CallBudget[d]
    <2>1. /\ calls \in [Callers -> Nat] /\ calls' = [calls EXCEPT ![c] = @ + 1]
          /\ calls[c] < CallBudget[c]
      BY DEF AssignUid, TypeOK, CallerTypeOK
    <2>2. \A d \in Callers : calls[d] <= CallBudget[d]
      BY DEF Numbered
    <2>3. calls'[c] = calls[c] + 1 /\ \A d \in Callers : d # c => calls'[d] = calls[d]
      BY <2>1
    <2>4. calls[c] \in Nat /\ CallBudget[c] \in Nat
      BY <2>1, CallersAssumption
    <2>5. calls[c] + 1 <= CallBudget[c]
      BY <2>1, <2>4
    <2> QED
      BY <2>2, <2>3, <2>5
  <1>3. Cardinality(Made') = n + 1
    <2> DEFINE x == <<c, calls[c] + 1>>
    <2>1. calls \in [Callers -> Nat] /\ calls' = [calls EXCEPT ![c] = @ + 1]
      BY DEF AssignUid, TypeOK, CallerTypeOK
    <2>2. x \notin Made /\ Made' = Made \cup {x}
      BY <2>1 DEF Made
    <2> HIDE DEF x
    <2> QED
      BY <1>1, <2>2, FS_AddElement
  <1>4. Made' \subseteq Planned
    BY <1>2, CallersAssumption DEF Made, Planned, TypeOK, CallerTypeOK
  <1>5. n + 1 < UidMod
    <2>1. Cardinality(Made') <= Cardinality(Planned)
      BY <1>4, PlannedFinite, FS_Subset
    <2> HIDE DEF n
    <2> QED
      BY <2>1, <1>1, <1>3, PlannedFinite, SizesAssumption
  <1> HIDE DEF n
  <1>6. uid' = Nth(n + 1) /\ Nth(n + 1) # 0 /\ \A k \in 1 .. n : Nth(k) # Nth(n + 1)
    BY <1>1, <1>5, FreshUid DEF Numbered, n, AssignUid
  <1> QED
    BY <1>1, <1>2, <1>3, <1>6 DEF n

\* Numbering a call, with a counter that has not gone round.
LEMMA NumberedAssign ==
    ASSUME Cardinality(Planned) < UidMod, TypeOK, TypeOK', Numbered,
           NEW c \in Callers, AssignUid(c)
    PROVE  Numbered'
  <1> DEFINE n == Cardinality(Made)
  <1> HIDE DEF n
  <1>1. /\ n \in Nat /\ Cardinality(Made') = n + 1
        /\ \A d \in Callers : calls'[d] <= CallBudget[d]
        /\ uid' = Nth(n + 1) /\ uid' # 0 /\ \A k \in 1 .. n : Nth(k) # uid'
    BY AssignFresh DEF n
  <1>7. /\ creq \in [Callers -> Uid0] /\ creq' = [creq EXCEPT ![c] = uid']
        /\ cpc \in [Callers -> CallerPc] /\ cpc[c] = "idle"
        /\ \E p \in {"scan", "enqueue"} : cpc' = [cpc EXCEPT ![c] = p]
    BY DEF AssignUid, Goto, TypeOK, CallerTypeOK
  <1>8. \A d \in Callers : creq[d] # 0 => \E k \in 1 .. n : creq[d] = Nth(k)
    BY DEF Numbered, n
  <1>9. \A d \in Callers : creq[d] # uid'
    BY <1>1, <1>8
  <1>10. \A d \in Callers : creq'[d] # 0 => \E k \in 1 .. (n + 1) : creq'[d] = Nth(k)
    <2> SUFFICES ASSUME NEW d \in Callers, creq'[d] # 0
                 PROVE  \E k \in 1 .. (n + 1) : creq'[d] = Nth(k)
      OBVIOUS
    <2>1. CASE d = c
      <3>1. n + 1 \in 1 .. (n + 1)
        BY <1>1
      <3> QED
        BY <2>1, <3>1, <1>1, <1>7
    <2>2. CASE d # c
      <3>1. PICK k \in 1 .. n : creq[d] = Nth(k)
        BY <2>2, <1>7, <1>8
      <3>2. k \in 1 .. (n + 1)
        BY <1>1
      <3> QED
        BY <2>2, <3>1, <3>2, <1>7
    <2> QED
      BY <2>1, <2>2
  <1>11. \A d \in Callers : creq'[d] = 0 <=> cpc'[d] = "idle"
    BY <1>1, <1>7 DEF Numbered
  <1>12. UidsTellApart'
    BY <1>1, <1>7, <1>9 DEF Numbered, UidsTellApart
  <1> QED
    BY <1>1, <1>10, <1>11, <1>12 DEF Numbered

\* Going on with a call, or returning from it, numbers nothing.
LEMMA NumberedGoesOn ==
    ASSUME TypeOK, Numbered, NEW c \in Callers, Caller(c), ~AssignUid(c)
    PROVE  Numbered'
  <1>1. /\ calls' = calls /\ uid' = uid /\ cpc[c] # "idle"
        /\ \/ creq' = creq /\ \E p \in CallerPc \ {"idle"} : Goto(c, p)
           \/ Return(c)
    BY CallerGoesOn
  <1>2. Made' = Made
    BY <1>1 DEF Made
  <1>3. creq \in [Callers -> Uid0] /\ cpc \in [Callers -> CallerPc]
    BY DEF TypeOK, CallerTypeOK
  <1>4. /\ \A d \in Callers : creq'[d] = creq[d] \/ creq'[d] = 0
        /\ \A d \in Callers : creq'[d] = 0 <=> cpc'[d] = "idle"
    BY <1>1, <1>3 DEF Numbered, Goto, Return
  <1>5. UidsTellApart'
    BY <1>4 DEF Numbered, UidsTellApart
  <1> QED
    BY <1>1, <1>2, <1>4, <1>5 DEF Numbered

\* Calls are numbered one by one as long as the counter does not go round.
LEMMA NumberedHolds ==
    ASSUME Cardinality(Planned) < UidMod
    PROVE  Spec => []Numbered
  <1>1. Init => Numbered
    <2> SUFFICES ASSUME Init PROVE Numbered
      OBVIOUS
    <2>1. calls = [c \in Callers |-> 0] /\ uid = UidStart /\ creq = [c \in Callers |-> 0]
          /\ cpc = [c \in Callers |-> "idle"]
      BY DEF Init
    <2>2. Made = {}
      BY <2>1 DEF Made
    <2>3. uid = Nth(Cardinality(Made))
      <3>1. Cardinality(Made) = 0
        BY <2>2, FS_EmptySet
      <3> QED
        BY <2>1, <3>1, SizesAssumption DEF Nth, Uid0
    <2>4. \A c \in Callers : calls[c] <= CallBudget[c]
      BY <2>1, CallersAssumption
    <2> QED
      BY <2>1, <2>3, <2>4 DEF Numbered, UidsTellApart
  <1>2. TypeOK /\ TypeOK' /\ Numbered /\ [Next]_vars => Numbered'
    <2> SUFFICES ASSUME TypeOK, TypeOK', Numbered, [Next]_vars PROVE Numbered'
      OBVIOUS
    <2>1. CASE UNCHANGED <<uid, calls, creq, cpc>>
      <3>1. Made' = Made
        BY <2>1 DEF Made
      <3> QED
        BY <2>1, <3>1 DEF Numbered, UidsTellApart
    <2>2. CASE \E c \in Callers : Caller(c)
      BY <2>2, NumberedAssign, NumberedGoesOn
    <2>3. CASE UNCHANGED vars
      BY <2>1, <2>3 DEF vars
    <2> QED
      BY <2>1, <2>2, <2>3, CallersAlone DEF Next, Idle, Lifecycle
  <1> QED
    BY <1>1, <1>2, TypeCorrect, PTL DEF Spec

\* uid_mutex and the skip over 0 tell requests apart: as long as the application
\* makes fewer than UidMod requests in all (2^32 in the code), wherever the counter
\* starts and also when it rolls over, no two calls in progress carry the same uid
\* and none carries 0.
THEOREM UidsAreApart ==
    ASSUME Cardinality(Planned) < UidMod
    PROVE  Spec => []UidsTellApart
  <1>1. Numbered => UidsTellApart
    BY DEF Numbered
  <1> QED
    BY <1>1, NumberedHolds, PTL
-----------------------------------------------------------------------------
(* Who clears a slot of sync_rsp_table.                                    *)

\* The positions at which a caller answers for the slot that carries its uid.
Owning == {"setsem", "enqueue", "ind", "lookup", "wait", "delete", "clruid"}

\* Caller c will clear slot i.
Owns(c, i) == creq[c] = sync_uid[i] /\ cslot[c] = i /\ cpc[c] \in Owning

\* A request with a callback never waits: its caller queues it and returns.
AsyncBrief == \A c \in Callers : c \notin SyncCallers => cpc[c] \in {"idle", "enqueue", "ind"}

\* Nothing but a step of an asynchronous caller could change that.
LEMMA AsyncBriefKept ==
    ASSUME TypeOK, AsyncBrief, NEW c \in Callers, Caller(c)
    PROVE  AsyncBrief'
  <1> SUFFICES ASSUME NEW d \in Callers, d \notin SyncCallers
               PROVE  cpc'[d] \in {"idle", "enqueue", "ind"}
    BY DEF AsyncBrief
  <1>1. cpc \in [Callers -> CallerPc] /\ cpc[d] \in {"idle", "enqueue", "ind"}
    BY DEF AsyncBrief, TypeOK, CallerTypeOK
  <1>2. CASE AssignUid(c) \/ ScanSyncTable(c) \/ SetSyncUid(c) \/ SetSyncSem(c)
    BY <1>1, <1>2 DEF AssignUid, ScanSyncTable, SetSyncUid, SetSyncSem, Goto, Return
  <1>3. CASE EnqueueReq(c) \/ TxInd(c) \/ LookupSyncSlot(c) \/ TakeSyncSem(c)
    BY <1>1, <1>3 DEF EnqueueReq, TxInd, LookupSyncSlot, TakeSyncSem, Goto, Return
  <1>4. CASE DeleteSyncSem(c) \/ ClearSyncUid(c) \/ ClearSyncSem(c) \/ DequeueResp(c)
             \/ FreeReq(c)
    BY <1>1, <1>4 DEF DeleteSyncSem, ClearSyncUid, ClearSyncSem, DequeueResp, FreeReq, Goto,
         Return
  <1> QED
    BY <1>2, <1>3, <1>4 DEF Caller

\* Only the caller with its uid in a slot owns it.
LEMMA OneOwnerOfSlot ==
    ASSUME Numbered, NEW c \in Callers, NEW d \in Callers, creq[c] = creq[d], creq[c] # 0
    PROVE  c = d
  BY DEF Numbered, UidsTellApart

\* A caller takes and gives back slots so that each one taken has an owner; the
\* owner of a slot that another caller overwrites owns nothing, and finds nothing.
LEMMA OwnedCaller ==
    ASSUME TypeOK, Numbered, AsyncBrief, SyncSlotsOwned, NEW c \in Callers, Caller(c)
    PROVE  SyncSlotsOwned'
  <1> SUFFICES ASSUME NEW i \in SSlots, sync_uid'[i] # 0
               PROVE  \E d \in SyncCallers : Owns(d, i)'
    BY DEF SyncSlotsOwned, Owns, Owning
  <1>1. /\ sync_uid \in [SSlots -> Uid0] /\ cslot \in [Callers -> SSlots]
        /\ creq \in [Callers -> Uid0] /\ cpc \in [Callers -> CallerPc]
        /\ SyncCallers \subseteq Callers
    BY DEF TypeOK, CallerTypeOK, SyncTypeOK, Callers
  <1>2. sync_uid[i] # 0 => \E d \in SyncCallers : Owns(d, i)
    BY DEF SyncSlotsOwned, Owns, Owning
  <1>3. ASSUME sync_uid' = sync_uid,
               \A d \in SyncCallers : d # c =>
                 creq'[d] = creq[d] /\ cslot'[d] = cslot[d] /\ cpc'[d] = cpc[d],
               c \in SyncCallers /\ Owns(c, i) => Owns(c, i)'
        PROVE  \E d \in SyncCallers : Owns(d, i)'
    BY <1>2, <1>3 DEF Owns
  <1>4. CASE AssignUid(c)
    <2>1. sync_uid' = sync_uid /\ ~Owns(c, i)
      BY <1>4 DEF AssignUid, Owns, Owning
    <2> QED
      BY <1>1, <1>3, <1>4, <2>1 DEF AssignUid, Goto
  <1>5. CASE ScanSyncTable(c)
    <2>1. sync_uid' = sync_uid /\ ~Owns(c, i)
      BY <1>5 DEF ScanSyncTable, Owns, Owning
    <2> QED
      BY <1>1, <1>3, <1>5, <2>1 DEF ScanSyncTable, Goto, Return
  <1>6. CASE SetSyncUid(c)
    <2>1. ~Owns(c, i)
      BY <1>6 DEF SetSyncUid, Owns, Owning
    <2>2. /\ sync_uid' = [sync_uid EXCEPT ![cslot[c]] = creq[c]]
          /\ creq' = creq /\ cslot' = cslot /\ cpc' = [cpc EXCEPT ![c] = "setsem"]
      BY <1>6 DEF SetSyncUid, Goto
    <2>3. c \in SyncCallers
      BY <1>6 DEF SetSyncUid, AsyncBrief
    <2>4. CASE i = cslot[c]
      BY <2>2, <2>3, <2>4, <1>1 DEF Owns, Owning
    <2>5. CASE i # cslot[c]
      BY <2>1, <2>2, <2>5, <1>1, <1>2 DEF Owns
    <2> QED
      BY <2>4, <2>5
  <1>7. CASE SetSyncSem(c) \/ EnqueueReq(c)
    <2>1. /\ sync_uid' = sync_uid /\ creq' = creq /\ cslot' = cslot
          /\ \E p \in Owning : cpc' = [cpc EXCEPT ![c] = p]
      BY <1>7 DEF SetSyncSem, EnqueueReq, Goto, Owning
    <2> QED
      BY <1>1, <1>3, <2>1 DEF Owns
  <1>8. CASE TxInd(c)
    <2>1. CASE c \in SyncCallers
      <3>1. /\ sync_uid' = sync_uid /\ creq' = creq /\ cslot' = cslot
            /\ \E p \in Owning : cpc' = [cpc EXCEPT ![c] = p]
        BY <1>8, <2>1 DEF TxInd, Goto, Owning
      <3> QED
        BY <1>1, <1>3, <3>1 DEF Owns
    <2>2. CASE c \notin SyncCallers
      BY <1>1, <1>3, <1>8, <2>2 DEF TxInd, Goto, Return
    <2> QED
      BY <2>1, <2>2
  <1>9. CASE LookupSyncSlot(c)
    <2>1. sync_uid' = sync_uid /\ creq' = creq
      BY <1>9 DEF LookupSyncSlot
    <2>2. ASSUME c \in SyncCallers, Owns(c, i) PROVE Owns(c, i)'
      <3>1. InSync(creq[c])
        BY <2>2 DEF Owns, InSync
      <3>2. PICK j \in SSlots : FirstSync(j, creq[c]) /\ cslot' = [cslot EXCEPT ![c] = j]
        BY <3>1, <1>9 DEF LookupSyncSlot
      <3>3. cpc' = [cpc EXCEPT ![c] = "wait"]
        BY <3>1, <1>9 DEF LookupSyncSlot, Goto
      <3>4. sync_uid[j] = creq[c] /\ creq[c] # 0
        BY <2>1, <2>2, <3>2 DEF FirstSync, Owns
      <3>5. PICK d \in SyncCallers : Owns(d, j)
        BY <3>4 DEF SyncSlotsOwned, Owns, Owning
      <3>6. d = c
        BY <1>1, <3>4, <3>5, OneOwnerOfSlot DEF Owns
      <3>7. j = i
        BY <2>2, <3>5, <3>6 DEF Owns
      <3> QED
        BY <1>1, <2>1, <2>2, <3>2, <3>3, <3>7 DEF Owns, Owning
    <2>3. \A d \in SyncCallers : d # c =>
            creq'[d] = creq[d] /\ cslot'[d] = cslot[d] /\ cpc'[d] = cpc[d]
      BY <1>1, <1>9 DEF LookupSyncSlot, Goto
    <2> QED
      BY <1>3, <2>1, <2>2, <2>3
  <1>10. CASE TakeSyncSem(c) \/ DeleteSyncSem(c)
    <2>1. /\ sync_uid' = sync_uid /\ creq' = creq /\ cslot' = cslot
          /\ \E p \in Owning : cpc' = [cpc EXCEPT ![c] = p]
      BY <1>10 DEF TakeSyncSem, DeleteSyncSem, Goto, Owning
    <2> QED
      BY <1>1, <1>3, <2>1 DEF Owns
  <1>11. CASE ClearSyncUid(c)
    <2>1. /\ sync_uid' = [sync_uid EXCEPT ![cslot[c]] = 0]
          /\ creq' = creq /\ cslot' = cslot /\ cpc' = [cpc EXCEPT ![c] = "clrsem"]
      BY <1>11 DEF ClearSyncUid, Goto
    <2>2. i # cslot[c] /\ sync_uid'[i] = sync_uid[i]
      BY <1>1, <2>1
    <2>3. ~Owns(c, i)
      BY <2>2 DEF Owns
    <2> QED
      BY <1>1, <1>2, <2>1, <2>2, <2>3 DEF Owns
  <1>12. CASE ClearSyncSem(c) \/ DequeueResp(c) \/ FreeReq(c)
    <2>1. sync_uid' = sync_uid /\ ~Owns(c, i)
      BY <1>12 DEF ClearSyncSem, DequeueResp, FreeReq, Owns, Owning
    <2> QED
      BY <1>1, <1>3, <1>12, <2>1 DEF ClearSyncSem, DequeueResp, FreeReq, Goto, Return
  <1> QED
    BY <1>4, <1>5, <1>6, <1>7, <1>8, <1>9, <1>10, <1>11, <1>12 DEF Caller

\* Nothing else fills a slot: rpc_core_deinit empties them all.
LEMMA OwnedOthers ==
    ASSUME SyncSlotsOwned, TxThread \/ RxThread \/ TimerTask \/ Slave \/ Lifecycle
    PROVE  SyncSlotsOwned'
  <1>1. UNCHANGED <<creq, cslot, cpc>>
    BY CallersAlone
  <1>2. CASE sync_uid' = sync_uid
    BY <1>1, <1>2 DEF SyncSlotsOwned
  <1>3. CASE TxThread \/ RxThread
    BY <1>2, <1>3 DEF TxThread, TxPoll, TxTake, TxRecv, TxCompose, TxStartTimer, TxSetUid,
         TxSetCb, TxSend, TxSent, TxFail, TxFailPost, TxFailGive, TxFailFree, RxThread, RxPoll,
         RxRead, RxClassify, RxFind, RxCallback, RxClear, RxPut, RxPost, RxGive
  <1>4. CASE TimerTask \/ Slave
    BY <1>2, <1>4 DEF TimerTask, TimerExpire, TimerFind, TimerClear, TimerCall, Slave,
         SlaveAnswer, SlaveLose, SlaveEvent
  <1>5. CASE rpc_core_init \/ rpc_core_start \/ rpc_core_stop
    BY <1>2, <1>5 DEF rpc_core_init, rpc_core_start, rpc_core_stop
  <1>6. CASE rpc_core_deinit
    <2>1. \A i \in SSlots : sync_uid'[i] = 0
      BY <1>6 DEF rpc_core_deinit
    <2> QED
      BY <2>1 DEF SyncSlotsOwned
  <1> QED
    BY <1>3, <1>4, <1>5, <1>6 DEF Lifecycle

\* No slot of sync_rsp_table leaks: whatever callers race for the same slot, a
\* taken slot belongs to a call in progress that will clear it, as long as the uid
\* counter tells the calls apart.
THEOREM SlotsAreOwned ==
    ASSUME Cardinality(Planned) < UidMod
    PROVE  Spec => []SyncSlotsOwned
  <1> DEFINE Inv == AsyncBrief /\ SyncSlotsOwned
  <1>1. Init => Inv
    BY DEF Init, AsyncBrief, SyncSlotsOwned
  <1>2. TypeOK /\ Numbered /\ Inv /\ [Next]_vars => Inv'
    <2> SUFFICES ASSUME TypeOK, Numbered, AsyncBrief, SyncSlotsOwned, [Next]_vars
                 PROVE  AsyncBrief' /\ SyncSlotsOwned'
      OBVIOUS
    <2>1. CASE \E c \in Callers : Caller(c)
      BY <2>1, AsyncBriefKept, OwnedCaller
    <2>2. CASE TxThread \/ RxThread \/ TimerTask \/ Slave \/ Lifecycle
      <3>1. cpc' = cpc
        BY <2>2, CallersAlone
      <3> QED
        BY <2>2, <3>1, OwnedOthers DEF AsyncBrief
    <2>3. CASE UNCHANGED vars
      BY <2>3 DEF vars, AsyncBrief, SyncSlotsOwned
    <2> QED
      BY <2>1, <2>2, <2>3 DEF Next, Idle, Lifecycle
  <1> HIDE DEF Inv
  <1>3. Inv => SyncSlotsOwned
    BY DEF Inv
  <1> QED
    BY <1>1, <1>2, <1>3, TypeCorrect, NumberedHolds, PTL DEF Spec
-----------------------------------------------------------------------------
(* Where a request is between its numbering and its end.                   *)

\* The uids given out so far.
Yielded == {Nth(k) : k \in 1 .. Cardinality(Made)}

In(u, q) == \E k \in 1 .. Len(q) : q[k] = u
NoDup(q) == \A k, l \in 1 .. Len(q) : q[k] = q[l] /\ q[k] # 0 => k = l

Preparing == {"scan", "setuid", "setsem", "enqueue"}
Sending   == {"compose", "timer", "setuid", "setcb", "send"}
Failing   == {"fail", "failpost", "failgive", "failfree"}

Places == {"caller", "queue", "tx", "up", "down", "rx", "lost", "failed"}

\* Request u, or the answer to it, is at place p.
At(p, u) ==
    \/ p = "caller" /\ \E c \in Callers : creq[c] = u /\ cpc[c] \in Preparing
    \/ p = "queue" /\ In(u, rpc_tx_q)
    \/ p = "tx" /\ txreq = u /\ txpc \in Sending
    \/ p = "up" /\ In(u, net_up)
    \/ p = "down" /\ In(u, net_down)
    \/ p = "rx" /\ rxmsg = u
    \/ p = "lost" /\ u \in lost
    \/ p = "failed" /\ u \in failed

\* The request u goes from p to q, and no other request moves.
Step(u, p, q) ==
    \A v \in Uids : \A r \in Places :
        At(r, v)' <=> (At(r, v) /\ ~(v = u /\ r = p)) \/ (v = u /\ r = q)

\* A request is in one place, once, and was numbered before it got there.
OnePlace == \A u \in Uids : \A p, q \in Places : At(p, u) /\ At(q, u) => p = q
Once     == NoDup(rpc_tx_q) /\ NoDup(net_up) /\ NoDup(net_down)
Known    == \A u \in Uids : \A p \in Places : At(p, u) => u \in Yielded

\* The requests with a callback are those of the asynchronous callers.
Kinds ==
    /\ has_cb \subseteq Yielded
    /\ \A c \in Callers : creq[c] # 0 => (creq[c] \in has_cb <=> c \notin SyncCallers)

\* What the threads have in hand is a request; only one with a callback gets a
\* timer, or fails, and one that failed is known to have.
InHand ==
    /\ ~In(0, rpc_tx_q) /\ ~In(0, net_up)
    /\ txpc \in Sending \cup Failing => txreq # 0
    /\ txpc \in {"timer", "setuid", "setcb"} \cup Failing => txreq \in has_cb
    /\ txpc \in Failing => txreq \in failed
    /\ rxmsg = 0 <=> rxpc \in {"poll", "read", "dead"}
    /\ lib # "inactive"

Placed == OnePlace /\ Once /\ Known /\ Kinds /\ InHand

\* Appending to a queue, and taking its head.
LEMMA InAppend ==
    ASSUME NEW S, NEW q \in Seq(S), NEW x \in S
    PROVE  /\ \A u : In(u, Append(q, x)) <=> In(u, q) \/ u = x
           /\ NoDup(q) /\ (x = 0 \/ ~In(x, q)) => NoDup(Append(q, x))
  <1>1. /\ Len(Append(q, x)) = Len(q) + 1 /\ Append(q, x)[Len(q) + 1] = x
        /\ \A k \in 1 .. Len(q) : Append(q, x)[k] = q[k]
        /\ Len(q) \in Nat
    OBVIOUS
  <1> QED
    BY <1>1 DEF In, NoDup

LEMMA InTail ==
    ASSUME NEW S, NEW q \in Seq(S), q # <<>>
    PROVE  /\ Head(q) \in S /\ Tail(q) \in Seq(S) /\ In(Head(q), q)
           /\ \A u : In(u, q) <=> u = Head(q) \/ In(u, Tail(q))
           /\ NoDup(q) => NoDup(Tail(q)) /\ (Head(q) # 0 => ~In(Head(q), Tail(q)))
  <1>1. /\ Len(q) \in Nat /\ Len(q) > 0 /\ Len(Tail(q)) = Len(q) - 1 /\ Head(q) = q[1]
        /\ \A k \in 1 .. Len(Tail(q)) : Tail(q)[k] = q[k + 1]
        /\ Head(q) \in S /\ Tail(q) \in Seq(S)
    OBVIOUS
  <1>2. In(Head(q), q)
    BY <1>1 DEF In
  <1>3. \A u : In(u, Tail(q)) => In(u, q)
    BY <1>1 DEF In
  <1>4. ASSUME NEW u, In(u, q), u # Head(q) PROVE In(u, Tail(q))
    <2>1. PICK k \in 1 .. Len(q) : q[k] = u
      BY <1>4 DEF In
    <2>2. k # 1 /\ k - 1 \in 1 .. Len(Tail(q)) /\ Tail(q)[k - 1] = u
      BY <1>1, <1>4, <2>1
    <2> QED
      BY <2>2 DEF In
  <1>5. ASSUME NoDup(q)
        PROVE  NoDup(Tail(q)) /\ (Head(q) # 0 => ~In(Head(q), Tail(q)))
    <2>1. NoDup(Tail(q))
      <3> SUFFICES ASSUME NEW k \in 1 .. Len(Tail(q)), NEW l \in 1 .. Len(Tail(q)),
                          Tail(q)[k] = Tail(q)[l], Tail(q)[k] # 0
                   PROVE  k = l
        BY DEF NoDup
      <3>1. k + 1 \in 1 .. Len(q) /\ l + 1 \in 1 .. Len(q) /\ q[k + 1] = q[l + 1]
            /\ q[k + 1] # 0
        BY <1>1
      <3>2. k + 1 = l + 1
        BY <1>5, <3>1 DEF NoDup
      <3> QED
        BY <3>2
    <2>2. ASSUME In(Head(q), Tail(q)), Head(q) # 0 PROVE FALSE
      <3>1. PICK k \in 1 .. Len(Tail(q)) : Tail(q)[k] = Head(q)
        BY <2>2 DEF In
      <3>2. 1 \in 1 .. Len(q) /\ k + 1 \in 1 .. Len(q) /\ q[k + 1] = q[1] /\ q[1] # 0
        BY <1>1, <2>2, <3>1
      <3>3. k + 1 = 1
        BY <1>5, <3>2 DEF NoDup
      <3> QED
        BY <3>3
    <2> QED
      BY <2>1, <2>2
  <1> QED
    BY <1>1, <1>2, <1>3, <1>4, <1>5

\* A request that moves, or is numbered, is afterwards in one place.
LEMMA OnePlaceStep ==
    ASSUME OnePlace, NEW u, NEW p, NEW q, Step(u, p, q),
           u \in Uids => (At(p, u) /\ p \in Places) \/ (\A r \in Places : ~At(r, u))
    PROVE  OnePlace'
  <1> SUFFICES ASSUME NEW v \in Uids, NEW r \in Places, NEW t \in Places, At(r, v)', At(t, v)'
               PROVE  r = t
    BY DEF OnePlace
  <1>1. /\ (At(r, v) /\ ~(v = u /\ r = p)) \/ (v = u /\ r = q)
        /\ (At(t, v) /\ ~(v = u /\ t = p)) \/ (v = u /\ t = q)
    BY DEF Step
  <1>2. CASE v # u
    BY <1>1, <1>2 DEF OnePlace
  <1>3. CASE v = u
    BY <1>1, <1>3 DEF OnePlace
  <1> QED
    BY <1>2, <1>3

\* Numbering a call gives out one more uid; nothing else does.
LEMMA YieldedStep ==
    ASSUME Cardinality(Planned) < UidMod, TypeOK, TypeOK', Numbered,
           NEW c \in Callers, AssignUid(c)
    PROVE  uid' \in Uids /\ uid' \notin Yielded /\ Yielded' = Yielded \cup {uid'}
  <1> DEFINE n == Cardinality(Made)
  <1> HIDE DEF n
  <1>1. /\ n \in Nat /\ Cardinality(Made') = n + 1
        /\ uid' = Nth(n + 1) /\ uid' # 0 /\ \A k \in 1 .. n : Nth(k) # uid'
    BY AssignFresh DEF n
  <1>2. uid' \in Uids
    BY <1>1, IndexFacts DEF TypeOK, CallerTypeOK
  <1>3. Yielded = {Nth(k) : k \in 1 .. n} /\ Yielded' = {Nth(k) : k \in 1 .. (n + 1)}
    BY <1>1 DEF Yielded, n, Nth
  <1>4. 1 .. (n + 1) = (1 .. n) \cup {n + 1}
    BY <1>1
  <1> QED
    BY <1>1, <1>2, <1>3, <1>4

LEMMA YieldedKept == ASSUME calls' = calls PROVE Yielded' = Yielded
  BY DEF Yielded, Made, Nth

\* A step of a caller that is not preparing a request, or goes on preparing it.
LEMMA CallerKept ==
    ASSUME TypeOK, Numbered, NEW c \in Callers, Caller(c), ~AssignUid(c),
           cpc[c] \in Preparing => creq'[c] = creq[c] /\ cpc'[c] \in Preparing,
           UNCHANGED <<rpc_tx_q, txreq, txpc, net_up, net_down, rxmsg, lost, failed>>
    PROVE  Step(0, "none", "none")
  <1> SUFFICES ASSUME NEW v \in Uids, NEW r \in Places PROVE At(r, v)' <=> At(r, v)
    BY IndexFacts DEF Step
  <1>1. creq \in [Callers -> Uid0] /\ cpc \in [Callers -> CallerPc]
    BY DEF TypeOK, CallerTypeOK
  <1>2. \/ creq' = creq /\ \E p : cpc' = [cpc EXCEPT ![c] = p]
        \/ creq' = [creq EXCEPT ![c] = 0] /\ cpc' = [cpc EXCEPT ![c] = "idle"]
    BY CallerGoesOn DEF Goto, Return
  <1>3. \A d \in Callers : d # c => creq'[d] = creq[d] /\ cpc'[d] = cpc[d]
    BY <1>1, <1>2
  <1>4. cpc[c] \notin Preparing => cpc'[c] \notin Preparing
    BY DEF Caller, ScanSyncTable, SetSyncUid, SetSyncSem, EnqueueReq, TxInd, LookupSyncSlot,
         TakeSyncSem, DeleteSyncSem, ClearSyncUid, ClearSyncSem, DequeueResp, FreeReq, Goto,
         Return, Preparing, TypeOK, CallerTypeOK
  <1>5. \A d \in Callers : (creq'[d] = v /\ cpc'[d] \in Preparing)
                             <=> (creq[d] = v /\ cpc[d] \in Preparing)
    BY <1>3, <1>4
  <1> QED
    BY <1>5 DEF At

\* Numbering a call puts its request in its caller's hands.
LEMMA AssignMoves ==
    ASSUME TypeOK, NEW c \in Callers, AssignUid(c)
    PROVE  Step(uid', "none", "caller")
  <1> SUFFICES ASSUME NEW v \in Uids, NEW r \in Places
               PROVE  At(r, v)' <=> At(r, v) \/ (v = uid' /\ r = "caller")
    BY DEF Step, Places
  <1>1. /\ creq \in [Callers -> Uid0] /\ cpc \in [Callers -> CallerPc] /\ cpc[c] = "idle"
        /\ creq' = [creq EXCEPT ![c] = uid']
        /\ \E p \in Preparing : cpc' = [cpc EXCEPT ![c] = p]
    BY DEF AssignUid, Goto, Preparing, TypeOK, CallerTypeOK
  <1>2. "idle" \notin Preparing
    BY DEF Preparing
  <1>3. UNCHANGED <<rpc_tx_q, txreq, txpc, net_up, net_down, rxmsg, lost, failed>>
    BY DEF AssignUid
  <1>4. (\E d \in Callers : creq'[d] = v /\ cpc'[d] \in Preparing)
          <=> (\E d \in Callers : creq[d] = v /\ cpc[d] \in Preparing) \/ v = uid'
    BY <1>1, <1>2
  <1> QED
    BY <1>3, <1>4 DEF At

\* A caller that ends its preparation alone has its uid, so the place is empty.
LEMMA CallerLeaves ==
    ASSUME TypeOK, Numbered, NEW c \in Callers, cpc[c] \in Preparing, NEW v \in Uids,
           \A d \in Callers : d # c => creq'[d] = creq[d] /\ cpc'[d] = cpc[d],
           cpc'[c] \notin Preparing
    PROVE  At("caller", v)' <=> At("caller", v) /\ v # creq[c]
  <1>1. creq[c] # 0 /\ \A d \in Callers : d # c => creq[d] # creq[c]
    BY DEF Numbered, UidsTellApart, Preparing
  <1>2. (\E d \in Callers : creq'[d] = v /\ cpc'[d] \in Preparing)
          <=> (\E d \in Callers : creq[d] = v /\ cpc[d] \in Preparing) /\ v # creq[c]
    BY <1>1
  <1> QED
    BY <1>2 DEF At

LEMMA EnqueueMoves ==
    ASSUME TypeOK, Numbered, NEW c \in Callers, EnqueueReq(c)
    PROVE  /\ Step(creq[c], "caller", "queue") /\ At("caller", creq[c])
           /\ creq[c] \in Uids /\ rpc_tx_q' = Append(rpc_tx_q, creq[c])
  <1>1. /\ creq \in [Callers -> Uid0] /\ cpc \in [Callers -> CallerPc] /\ cpc[c] = "enqueue"
        /\ creq' = creq /\ cpc' = [cpc EXCEPT ![c] = "ind"]
        /\ rpc_tx_q \in Seq(Uid0) /\ rpc_tx_q' = Append(rpc_tx_q, creq[c])
        /\ UNCHANGED <<txreq, txpc, net_up, net_down, rxmsg, lost, failed>>
    BY DEF EnqueueReq, Goto, TypeOK, CallerTypeOK, TxTypeOK
  <1>2. cpc[c] \in Preparing /\ cpc'[c] \notin Preparing
    BY <1>1 DEF Preparing
  <1>3. creq[c] \in Uids
    BY <1>1, IndexFacts DEF Numbered
  <1>4. \A v : In(v, rpc_tx_q') <=> In(v, rpc_tx_q) \/ v = creq[c]
    BY <1>1, InAppend
  <1>5. At("caller", creq[c])
    BY <1>2 DEF At
  <1>6. Step(creq[c], "caller", "queue")
    <2> SUFFICES ASSUME NEW v \in Uids, NEW r \in Places
                 PROVE  At(r, v)' <=> (At(r, v) /\ ~(v = creq[c] /\ r = "caller"))
                                        \/ (v = creq[c] /\ r = "queue")
      BY DEF Step
    <2>1. At("caller", v)' <=> At("caller", v) /\ v # creq[c]
      BY <1>1, <1>2, CallerLeaves
    <2>2. CASE r = "caller"
      BY <2>1, <2>2
    <2>3. CASE r # "caller"
      BY <1>1, <1>4, <2>3 DEF At
    <2> QED
      BY <2>2, <2>3
  <1> QED
    BY <1>1, <1>3, <1>5, <1>6

\* A request that finds the table full, or no memory, goes nowhere.
LEMMA BusyMoves ==
    ASSUME TypeOK, Numbered, NEW c \in Callers, ScanSyncTable(c), Return(c)
    PROVE  Step(creq[c], "caller", "none") /\ At("caller", creq[c])
  <1>1. /\ creq \in [Callers -> Uid0] /\ cpc \in [Callers -> CallerPc] /\ cpc[c] = "scan"
        /\ creq' = [creq EXCEPT ![c] = 0] /\ cpc' = [cpc EXCEPT ![c] = "idle"]
        /\ UNCHANGED <<rpc_tx_q, txreq, txpc, net_up, net_down, rxmsg, lost, failed>>
    BY DEF ScanSyncTable, Return, Goto, TypeOK, CallerTypeOK
  <1>2. cpc[c] \in Preparing /\ cpc'[c] \notin Preparing
    BY <1>1 DEF Preparing
  <1>3. At("caller", creq[c])
    BY <1>2 DEF At
  <1>4. Step(creq[c], "caller", "none")
    <2> SUFFICES ASSUME NEW v \in Uids, NEW r \in Places
                 PROVE  At(r, v)' <=> At(r, v) /\ ~(v = creq[c] /\ r = "caller")
      BY DEF Step, Places
    <2>1. At("caller", v)' <=> At("caller", v) /\ v # creq[c]
      BY <1>1, <1>2, CallerLeaves
    <2>2. CASE r = "caller"
      BY <2>1, <2>2
    <2>3. CASE r # "caller"
      BY <1>1, <2>3 DEF At
    <2> QED
      BY <2>2, <2>3
  <1> QED
    BY <1>3, <1>4

\* A step that neither takes a request in hand nor puts one down.
LEMMA StillKept ==
    ASSUME UNCHANGED <<creq, cpc, rpc_tx_q, net_up, net_down, rxmsg, lost, failed>>,
           \/ txreq' = txreq /\ (txpc' \in Sending <=> txpc \in Sending)
           \/ txpc \notin Sending /\ txpc' \notin Sending
    PROVE  Step(0, "none", "none")
  <1> SUFFICES ASSUME NEW v \in Uids, NEW r \in Places PROVE At(r, v)' <=> At(r, v)
    BY IndexFacts DEF Step
  <1> QED
    BY DEF At

LEMMA RecvMoves ==
    ASSUME TypeOK, Once, InHand, TxRecv
    PROVE  /\ Step(txreq', "queue", "tx") /\ At("queue", txreq') /\ txreq' \in Uids
           /\ NoDup(rpc_tx_q') /\ ~In(0, rpc_tx_q')
  <1>1. /\ rpc_tx_q \in Seq(Uid0) /\ rpc_tx_q # <<>> /\ rpc_tx_q' = Tail(rpc_tx_q)
        /\ txreq' = Head(rpc_tx_q) /\ txpc = "recv" /\ txpc' = "compose"
        /\ UNCHANGED <<creq, cpc, net_up, net_down, rxmsg, lost, failed>>
        /\ NoDup(rpc_tx_q) /\ ~In(0, rpc_tx_q)
    BY DEF TxRecv, TypeOK, TxTypeOK, Once, InHand
  <1>2. /\ In(txreq', rpc_tx_q) /\ txreq' \in Uid0
        /\ \A v : In(v, rpc_tx_q) <=> v = txreq' \/ In(v, rpc_tx_q')
        /\ NoDup(rpc_tx_q') /\ (txreq' # 0 => ~In(txreq', rpc_tx_q'))
    BY <1>1, InTail
  <1>3. txreq' \in Uids
    BY <1>1, <1>2, IndexFacts
  <1>4. txreq' # 0
    BY <1>3, IndexFacts
  <1>5. Step(txreq', "queue", "tx")
    <2>1. txpc \notin Sending /\ txpc' \in Sending
      BY <1>1 DEF Sending
    <2> QED
      BY <1>1, <1>2, <1>4, <2>1 DEF Step, At
  <1> QED
    BY <1>1, <1>2, <1>3, <1>5 DEF At

LEMMA SendMoves ==
    ASSUME TypeOK, InHand, TxSend, ~MayFail
    PROVE  /\ Step(txreq, "tx", "up") /\ At("tx", txreq) /\ txreq \in Uids
           /\ net_up' = Append(net_up, txreq)
  <1>1. /\ net_up \in Seq(Uid0) /\ txreq \in Uid0 /\ txpc = "send" /\ txreq # 0
        /\ net_up' = Append(net_up, txreq) /\ txpc' = "sent"
        /\ UNCHANGED <<creq, cpc, rpc_tx_q, txreq, net_down, rxmsg, lost, failed>>
    BY DEF TxSend, TypeOK, TxTypeOK, NetTypeOK, InHand, Sending
  <1>2. txpc \in Sending /\ txpc' \notin Sending
    BY <1>1 DEF Sending
  <1>3. \A v : In(v, net_up') <=> In(v, net_up) \/ v = txreq
    BY <1>1, InAppend
  <1>4. Step(txreq, "tx", "up")
    BY <1>1, <1>2, <1>3 DEF Step, At
  <1> QED
    BY <1>1, <1>2, <1>4, IndexFacts DEF At

LEMMA FailMoves ==
    ASSUME TypeOK, InHand, FailReq, txpc \in Sending,
           UNCHANGED <<creq, cpc, rpc_tx_q, txreq, net_up, net_down, rxmsg, lost>>
    PROVE  Step(txreq, "tx", "failed") /\ At("tx", txreq) /\ txreq \in Uids
  <1>1. txreq \in Uids
    BY IndexFacts DEF InHand, TypeOK, TxTypeOK
  <1>2. txpc' \notin Sending
    BY DEF FailReq, Sending
  <1>3. Step(txreq, "tx", "failed")
    BY <1>2 DEF Step, At, FailReq
  <1> QED
    BY <1>1, <1>3 DEF At

LEMMA ReadMoves ==
    ASSUME TypeOK, Once, RxRead, rxmsg = 0
    PROVE  /\ Head(net_down) \in Uid0 /\ At("down", Head(net_down)) /\ NoDup(net_down')
           /\ \/ rxmsg' = Head(net_down) /\ rxmsg' # 0 /\ rxpc' = "classify" /\ rxslot' = rxslot
                   /\ Step(rxmsg', "down", "rx")
              \/ rxmsg' = 0 /\ rxpc' = "poll" /\ rxslot' = 1
                   /\ Step(Head(net_down), "down", "none")
  <1>1. /\ net_down \in Seq(Uid0) /\ net_down # <<>> /\ net_down' = Tail(net_down)
        /\ NoDup(net_down)
        /\ UNCHANGED <<creq, cpc, rpc_tx_q, txreq, txpc, net_up, lost, failed>>
    BY DEF RxRead, TypeOK, NetTypeOK, Once
  <1> DEFINE u == Head(net_down)
  <1>2. /\ In(u, net_down) /\ u \in Uid0
        /\ \A v : In(v, net_down) <=> v = u \/ In(v, net_down')
        /\ NoDup(net_down') /\ (u # 0 => ~In(u, net_down'))
    BY <1>1, InTail
  <1>3. \/ rxmsg' = u /\ rxmsg' # 0 /\ rxpc' = "classify" /\ rxslot' = rxslot
        \/ rxmsg' = 0 /\ rxpc' = "poll" /\ rxslot' = 1
    BY DEF RxRead, RxDone
  <1> HIDE DEF u
  <1>4. ASSUME NEW v \in Uids, NEW r \in Places
        PROVE  /\ r \notin {"down", "rx"} => (At(r, v)' <=> At(r, v))
               /\ At("rx", v)' <=> rxmsg' = v
               /\ At("down", v)' <=> At("down", v) /\ v # u
               /\ At("down", u) /\ ~At("rx", v) /\ v # 0
    BY <1>1, <1>2, IndexFacts DEF At
  <1>5. /\ rxmsg' = u => Step(u, "down", "rx")
        /\ rxmsg' = 0 => Step(u, "down", "none")
    BY <1>4 DEF Step, Places
  <1>6. At("down", u)
    BY <1>2 DEF At
  <1> QED
    BY <1>2, <1>3, <1>5, <1>6 DEF u

LEMMA RxDoneMoves ==
    ASSUME rxmsg' = 0,
           UNCHANGED <<creq, cpc, rpc_tx_q, txreq, txpc, net_up, net_down, lost, failed>>
    PROVE  Step(rxmsg, "rx", "none") /\ At("rx", rxmsg)
  BY IndexFacts DEF Step, At, Places

LEMMA SlaveMoves ==
    ASSUME TypeOK, Once, InHand, SlaveAnswer \/ SlaveLose
    PROVE  /\ Head(net_up) \in Uids /\ At("up", Head(net_up))
           /\ NoDup(net_up') /\ ~In(0, net_up')
           /\ SlaveAnswer => Step(Head(net_up), "up", "down")
           /\ SlaveLose => Step(Head(net_up), "up", "lost")
  <1>1. /\ net_up \in Seq(Uid0) /\ net_up # <<>> /\ net_up' = Tail(net_up)
        /\ NoDup(net_up) /\ ~In(0, net_up) /\ net_down \in Seq(Uid0)
        /\ UNCHANGED <<creq, cpc, rpc_tx_q, txreq, txpc, rxmsg, failed>>
    BY DEF SlaveAnswer, SlaveLose, TypeOK, NetTypeOK, Once, InHand
  <1> DEFINE u == Head(net_up)
  <1>2. /\ In(u, net_up) /\ u \in Uid0
        /\ \A v : In(v, net_up) <=> v = u \/ In(v, net_up')
        /\ NoDup(net_up') /\ (u # 0 => ~In(u, net_up'))
    BY <1>1, InTail
  <1>3. u \in Uids /\ u # 0
    BY <1>1, <1>2, IndexFacts
  <1>4. ASSUME SlaveAnswer PROVE Step(u, "up", "down")
    <2>1. net_down' = Append(net_down, u) /\ lost' = lost
      BY <1>4 DEF SlaveAnswer
    <2>2. \A v : In(v, net_down') <=> In(v, net_down) \/ v = u
      BY <1>1, <1>2, <2>1, InAppend
    <2> HIDE DEF u
    <2> QED
      BY <1>1, <1>2, <1>3, <2>1, <2>2 DEF Step, At
  <1>5. ASSUME SlaveLose PROVE Step(u, "up", "lost")
    <2>1. net_down' = net_down /\ lost' = lost \cup {u}
      BY <1>5 DEF SlaveLose
    <2> HIDE DEF u
    <2> QED
      BY <1>1, <1>2, <1>3, <2>1 DEF Step, At
  <1> QED
    BY <1>1, <1>2, <1>3, <1>4, <1>5 DEF At

LEMMA EventMoves ==
    ASSUME TypeOK, Once, SlaveEvent
    PROVE  Step(0, "none", "none") /\ NoDup(net_down')
  <1>1. /\ net_down \in Seq(Uid0) /\ net_down' = Append(net_down, 0) /\ NoDup(net_down)
        /\ UNCHANGED <<creq, cpc, rpc_tx_q, txreq, txpc, net_up, rxmsg, lost, failed>>
    BY DEF SlaveEvent, TypeOK, NetTypeOK, Once
  <1>2. /\ \A v : In(v, net_down') <=> In(v, net_down) \/ v = 0
        /\ NoDup(net_down')
    BY <1>1, InAppend, IndexFacts
  <1> QED
    BY <1>1, <1>2, IndexFacts DEF Step, At
-----------------------------------------------------------------------------
(* Who frees a request, when sends succeed and timers keep apart.          *)

\* A timer is not handled during other work on its request, no send fails, the engine
\* is not torn down, and the application makes fewer requests than there are uids.
\* Any timeout may come before its answer, the asynchronous table may be full, answers
\* may be lost and memory short.
Punctual == TimersApart /\ MaxFail = 0 /\ ~MayDeinit /\ Cardinality(Planned) < UidMod

Ahead  == {"caller", "queue", "tx"}     \* places before the answer
Unsent == {"caller", "queue", "failed"} \* places of requests that have no slot

\* A timer is armed, or handled, for a request with a callback that has come as far as
\* the tx thread; the one that is handled is armed no more, and is in the hands of
\* neither the tx thread nor the rx thread.
Running == timers \cup (IF tmpc # "idle" THEN {tmreq} ELSE {})
Armed ==
    /\ Running \subseteq has_cb
    /\ \A u \in Running : ~At("caller", u) /\ ~At("queue", u)
    /\ tmpc # "idle" => tmreq \notin timers /\ tmreq # txreq /\ tmreq # rxmsg

\* A taken slot of async_rsp_table belongs to one request that is being sent or was
\* sent, and points to it from TxSetCb on; the thread that clears a slot looked it up
\* for its own request, and the slot still belongs to it.
Slots ==
    /\ \A i \in ASlots : \A u \in Uids : async[i].uid = u =>
         /\ u \in has_cb /\ \A p \in Unsent : ~At(p, u)
         /\ u = txreq => txpc \notin {"compose", "timer", "setuid"}
         /\ (txpc = "setcb" /\ txslot = i) \/ async[i].req = u
         /\ \A j \in ASlots : async[j].uid = u => i = j
    /\ txpc = "setcb" => async[txslot].uid = txreq
    /\ rxpc \in {"call", "clear1", "clear2"} => async[rxslot].uid = rxmsg
    /\ rxpc \in {"clear3", "put", "post", "give"} => \A i \in ASlots : async[i].uid # rxmsg
    /\ tmpc \in {"clear1", "clear2"} => async[tmslot].uid = tmreq

\* A request is freed once, and only one that was numbered.
SpentOnce == \A u \in Uids : freed[u] \in {0, 1} /\ (freed[u] # 0 => u \in Yielded)

\* A synchronous request is freed when its call returns.
SpentSync == \A c \in SyncCallers : creq[c] # 0 => freed[creq[c]] = 0

\* An asynchronous request is freed by the thread that clears its slot, which is then
\* about to give the slot back, or for want of one.
Past(u) ==
    /\ ~(txreq = u /\ txpc \in Failing)
    /\ \A i \in ASlots : async[i].uid = u =>
         (rxmsg = u /\ rxpc = "clear2") \/ (tmreq = u /\ tmpc = "clear2")
SpentAsync ==
    \A u \in Uids : u \in has_cb /\ freed[u] # 0 => Past(u) /\ \A p \in Ahead : ~At(p, u)

Home == Placed /\ Armed /\ Slots /\ SpentOnce /\ SpentSync /\ SpentAsync

\* With MaxFail = 0 no step of process_rpc_tx_msg fails but for a full table.
LEMMA NoSendFails == ASSUME TypeOK, MaxFail = 0 PROVE ~MayFail
  <1>1. failed \subseteq Uid0 /\ IsFiniteSet(Uid0)
    <2>1. 0 \in Int /\ UidMod - 1 \in Int
      BY SizesAssumption
    <2>2. IsFiniteSet(0 .. (UidMod - 1))
      BY <2>1, FS_Interval
    <2> QED
      BY <2>2 DEF TypeOK, FateTypeOK, Uid0
  <1>2. Cardinality(failed) \in Nat
    BY <1>1, FS_Subset, FS_CardinalityType
  <1> QED
    BY <1>2 DEF MayFail

\* A moving request was numbered, so every placed one still is.
LEMMA KnownStep ==
    ASSUME Known, NEW u, NEW p, NEW q, Step(u, p, q), Yielded \subseteq Yielded',
           u \in Uids => u \in Yielded'
    PROVE  Known'
  BY DEF Known, Step

\* Slots keep their owners, or lose them, while no request that has one comes to a
\* place where it has none.
LEMMA SlotsFewer ==
    ASSUME Slots, NEW u, NEW p, NEW q, Step(u, p, q),
           u \in Uids /\ q \in Unsent => \A i \in ASlots : async'[i].uid # u,
           has_cb \subseteq has_cb',
           \A i \in ASlots : \A v \in Uids :
               async'[i].uid = v => async[i].uid = v /\ async'[i].req = async[i].req,
           \A i \in ASlots : \A v \in Uids : async'[i].uid = v /\ v = txreq' =>
               txpc' \notin {"compose", "timer", "setuid"},
           UNCHANGED <<txpc, txslot>> \/ txpc # "setcb",
           txpc' = "setcb" => async'[txslot'].uid = txreq',
           rxpc' \in {"call", "clear1", "clear2"} => async'[rxslot'].uid = rxmsg',
           rxpc' \in {"clear3", "put", "post", "give"} =>
               \A i \in ASlots : async'[i].uid # rxmsg',
           tmpc' \in {"clear1", "clear2"} => async'[tmslot'].uid = tmreq'
    PROVE  Slots'
  <1>1. Unsent \subseteq Places
    BY DEF Unsent, Places
  <1>2. ASSUME NEW i \in ASlots, NEW v \in Uids, async'[i].uid = v
        PROVE  /\ v \in has_cb' /\ \A r \in Unsent : ~At(r, v)'
               /\ v = txreq' => txpc' \notin {"compose", "timer", "setuid"}
               /\ (txpc' = "setcb" /\ txslot' = i) \/ async'[i].req = v
               /\ \A j \in ASlots : async'[j].uid = v => i = j
    <2>1. async[i].uid = v /\ async'[i].req = async[i].req
      BY <1>2
    <2>2. /\ v \in has_cb /\ \A r \in Unsent : ~At(r, v)
          /\ (txpc = "setcb" /\ txslot = i) \/ async[i].req = v
          /\ \A j \in ASlots : async[j].uid = v => i = j
      BY <2>1 DEF Slots
    <2>3. \A r \in Unsent : ~At(r, v)'
      BY <1>1, <1>2, <2>2 DEF Step
    <2> QED
      BY <1>2, <2>1, <2>2, <2>3
  <1> QED
    BY <1>2 DEF Slots

\* Timers stay with requests that are past the queue.
LEMMA ArmedStep ==
    ASSUME Armed, NEW u, NEW p, NEW q, Step(u, p, q), has_cb \subseteq has_cb',
           timers' \subseteq timers, UNCHANGED <<tmpc, tmreq>>,
           u \in Uids /\ u \in Running => q \notin {"caller", "queue"},
           has_cb \subseteq Uids,
           tmpc # "idle" => txreq' \in {txreq, 0} \/ txreq' # tmreq,
           tmpc # "idle" => rxmsg' \in {rxmsg, 0} \/ rxmsg' # tmreq
    PROVE  Armed'
  <1>1. Running' \subseteq Running /\ Running \subseteq has_cb
    BY DEF Running, Armed
  <1>2. \A v \in Running' : ~At("caller", v)' /\ ~At("queue", v)'
    BY <1>1 DEF Step, Armed, Places
  <1>3. tmpc # "idle" => tmreq \in Uids /\ tmreq # 0
    BY <1>1, IndexFacts DEF Running
  <1> QED
    BY <1>1, <1>2, <1>3 DEF Armed

\* Freeing a request that nobody freed.
LEMMA FreeOnce ==
    ASSUME TypeOK, NEW u \in Uids, freed[u] = 0, Free(u)
    PROVE  freed'[u] = 1 /\ \A v \in Uids : v # u => freed'[v] = freed[v]
  BY IndexFacts DEF TypeOK, FateTypeOK, Free

\* What the callers do leaves the asynchronous side alone.
LEMMA CallerOff ==
    ASSUME NEW c \in Callers, Caller(c)
    PROVE  UNCHANGED <<async, timers, txreq, txpc, txslot, rxpc, rxmsg, rxslot, tmpc, tmreq,
                       tmslot, net_up, net_down, lost, failed, lib>>
  <1>1. CASE AssignUid(c) \/ ScanSyncTable(c) \/ SetSyncUid(c) \/ SetSyncSem(c)
    BY <1>1 DEF AssignUid, ScanSyncTable, SetSyncUid, SetSyncSem
  <1>2. CASE EnqueueReq(c) \/ TxInd(c) \/ LookupSyncSlot(c) \/ TakeSyncSem(c)
    BY <1>2 DEF EnqueueReq, TxInd, LookupSyncSlot, TakeSyncSem
  <1>3. CASE DeleteSyncSem(c) \/ ClearSyncUid(c) \/ ClearSyncSem(c) \/ DequeueResp(c)
             \/ FreeReq(c)
    BY <1>3 DEF DeleteSyncSem, ClearSyncUid, ClearSyncSem, DequeueResp, FreeReq
  <1> QED
    BY <1>1, <1>2, <1>3 DEF Caller

\* A caller's step, but for the frees: the request it moves, if any, was in its hands
\* or is new.
LEMMA HomeCallerMoves ==
    ASSUME Home, NEW c \in Callers, Caller(c), NEW u, NEW p, NEW q, Step(u, p, q),
           TypeOK, u \in Uids => u \in Yielded',
           u \in Uids => At(p, u) \/ (u \notin has_cb /\ \A r \in Places : ~At(r, u)),
           p \in {"none", "caller"}, NoDup(rpc_tx_q'), ~In(0, rpc_tx_q'), Kinds',
           has_cb \subseteq has_cb', Yielded \subseteq Yielded',
           \A v \in has_cb' \ has_cb : v = u,
           \A v \in Uids : v \in has_cb => freed'[v] = freed[v],
           u \in Uids /\ u \in has_cb' => freed'[u] = 0 /\ freed[u] = 0
    PROVE  Placed' /\ Armed' /\ Slots' /\ SpentAsync'
  <1>1. UNCHANGED <<async, timers, txreq, txpc, txslot, rxpc, rxmsg, rxslot, tmpc, tmreq,
                    tmslot, net_up, net_down, lost, failed, lib>>
    BY CallerOff
  <1>2. "caller" \in Places /\ Ahead \subseteq Places /\ "none" \notin Places
        /\ "caller" \in Unsent
    BY DEF Places, Unsent, Ahead
  <1>3. OnePlace'
    <2>1. u \in Uids => (At(p, u) /\ p \in Places) \/ \A r \in Places : ~At(r, u)
      <3>1. ~At("none", u)
        BY DEF At
      <3> QED
        BY <1>2, <3>1
    <2> QED
      BY <2>1, OnePlaceStep DEF Home, Placed
  <1>4. Known'
    BY KnownStep DEF Home, Placed
  <1>5. Once' /\ InHand'
    BY <1>1 DEF Home, Placed, Once, InHand
  <1>6. Armed'
    <2>1. u \in Uids /\ u \in Running => q \notin {"caller", "queue"}
      BY DEF Home, Armed, At
    <2> QED
      BY <1>1, <2>1, ArmedStep DEF Home, TypeOK, CallerTypeOK
  <1>7. Slots'
    <2>1. /\ txpc = "setcb" => async[txslot].uid = txreq
          /\ rxpc \in {"call", "clear1", "clear2"} => async[rxslot].uid = rxmsg
          /\ rxpc \in {"clear3", "put", "post", "give"} => \A i \in ASlots : async[i].uid # rxmsg
          /\ tmpc \in {"clear1", "clear2"} => async[tmslot].uid = tmreq
          /\ \A i \in ASlots : \A v \in Uids : async[i].uid = v /\ v = txreq =>
               txpc \notin {"compose", "timer", "setuid"}
      BY DEF Home, Slots
    <2>2. \A i \in ASlots : u \in Uids => async[i].uid # u
      BY <1>2 DEF Home, Slots, At
    <2> QED
      BY <1>1, <2>1, <2>2, SlotsFewer DEF Home
  <1>8. SpentAsync'
    <2> SUFFICES ASSUME NEW v \in Uids, v \in has_cb', freed'[v] # 0
                 PROVE  Past(v)' /\ \A r \in Ahead : ~At(r, v)'
      BY DEF SpentAsync
    <2>1. v # u /\ v \in has_cb /\ freed[v] # 0
      OBVIOUS
    <2>2. \A r \in Ahead : ~At(r, v)'
      BY <1>2, <2>1 DEF Step, Home, SpentAsync
    <2> QED
      BY <1>1, <2>1, <2>2 DEF Home, SpentAsync, Past
  <1> QED
    BY <1>3, <1>4, <1>5, <1>6, <1>7, <1>8 DEF Placed

\* Going on with a call numbers nothing.
LEMMA KindsGoesOn ==
    ASSUME TypeOK, Kinds, NEW c \in Callers, Caller(c), ~AssignUid(c)
    PROVE  /\ Kinds' /\ has_cb' = has_cb /\ Yielded' = Yielded
           /\ \A d \in Callers : creq'[d] \in {0, creq[d]}
  <1>1. UNCHANGED numbering /\ (creq' = creq \/ creq' = [creq EXCEPT ![c] = 0])
    BY CallerGoesOn DEF Return
  <1>2. Yielded' = Yielded
    BY <1>1, YieldedKept
  <1>3. \A d \in Callers : creq'[d] \in {0, creq[d]}
    BY <1>1 DEF TypeOK, CallerTypeOK
  <1> QED
    BY <1>1, <1>2, <1>3 DEF Kinds

\* The caller at the end of a call: only a synchronous one frees its request, which is
\* then in nobody's hands.
LEMMA SpentByCaller ==
    ASSUME TypeOK, Numbered, Home, NEW c \in Callers, c \in SyncCallers, creq[c] # 0,
           Free(creq[c]), Return(c), Yielded' = Yielded
    PROVE  /\ SpentOnce' /\ SpentSync' /\ creq[c] \notin has_cb
           /\ \A v \in Uids : v \in has_cb => freed'[v] = freed[v]
  <1>1. creq[c] \in Uids /\ creq \in [Callers -> Uid0] /\ SyncCallers \subseteq Callers
    BY IndexFacts DEF TypeOK, CallerTypeOK, Callers
  <1>2. freed[creq[c]] = 0 /\ creq[c] \notin has_cb
    BY DEF Home, SpentSync, Placed, Kinds
  <1>3. freed'[creq[c]] = 1 /\ \A v \in Uids : v # creq[c] => freed'[v] = freed[v]
    BY <1>1, <1>2, FreeOnce
  <1>4. creq[c] \in Yielded
    BY DEF Numbered, Yielded
  <1>5. SpentOnce'
    BY <1>3, <1>4 DEF Home, SpentOnce
  <1>6. SpentSync'
    <2> SUFFICES ASSUME NEW d \in SyncCallers, creq'[d] # 0 PROVE freed'[creq'[d]] = 0
      BY DEF SpentSync
    <2>1. d # c /\ creq'[d] = creq[d] /\ creq[d] \in Uids
      BY <1>1, IndexFacts DEF Return
    <2>2. creq[d] # creq[c]
      BY <1>1, <2>1, OneOwnerOfSlot
    <2> QED
      BY <1>3, <2>1, <2>2 DEF Home, SpentSync
  <1> QED
    BY <1>2, <1>3, <1>5, <1>6

\* A caller's step keeps requests where they belong.
LEMMA HomeCaller ==
    ASSUME Punctual, TypeOK, TypeOK', Numbered, AsyncBrief, Home, NEW c \in Callers, Caller(c)
    PROVE  Home'
  <1>1. /\ NoDup(rpc_tx_q) /\ ~In(0, rpc_tx_q) /\ Kinds /\ SpentOnce /\ SpentSync
        /\ OnePlace /\ Known
    BY DEF Home, Placed, Once, InHand
  <1>2. CASE AssignUid(c)
    <2>1. uid' \in Uids /\ uid' \notin Yielded /\ Yielded' = Yielded \cup {uid'}
      BY <1>2, YieldedStep DEF Punctual
    <2>2. Step(uid', "none", "caller")
      BY <1>2, AssignMoves
    <2>3. /\ freed' = freed /\ rpc_tx_q' = rpc_tx_q
          /\ creq \in [Callers -> Uid0] /\ creq' = [creq EXCEPT ![c] = uid']
          /\ has_cb' = IF c \in SyncCallers THEN has_cb ELSE has_cb \cup {uid'}
      BY <1>2 DEF AssignUid, TypeOK, CallerTypeOK
    <2>4. \A d \in Callers : creq[d] # 0 => creq[d] \in Yielded
      BY DEF Numbered, Yielded
    <2>5. Kinds'
      BY <1>1, <2>1, <2>3, <2>4 DEF Kinds
    <2>6. freed[uid'] = 0
      BY <1>1, <2>1 DEF SpentOnce
    <2>7. SpentOnce'
      BY <1>1, <2>1, <2>3 DEF SpentOnce
    <2>8. SpentSync'
      BY <1>1, <2>3, <2>6 DEF SpentSync, Callers
    <2>9. uid' \notin has_cb /\ \A r \in Places : ~At(r, uid')
      BY <1>1, <2>1 DEF Known, Kinds
    <2>10. /\ NoDup(rpc_tx_q') /\ ~In(0, rpc_tx_q') /\ has_cb \subseteq has_cb'
           /\ \A v \in has_cb' \ has_cb : v = uid'
      BY <1>1, <2>3
    <2>11. Placed' /\ Armed' /\ Slots' /\ SpentAsync'
      BY <2>1, <2>2, <2>3, <2>5, <2>6, <2>9, <2>10, HomeCallerMoves
    <2> QED
      BY <2>7, <2>8, <2>11 DEF Home
  <1>3. CASE ~AssignUid(c)
    <2>1. Kinds' /\ has_cb' = has_cb /\ Yielded' = Yielded
          /\ \A d \in Callers : creq'[d] \in {0, creq[d]}
      BY <1>1, <1>3, KindsGoesOn
    <2>2. ASSUME freed' = freed PROVE SpentOnce' /\ SpentSync'
      BY <1>1, <2>1, <2>2 DEF SpentOnce, SpentSync, Callers
    <2>3. CASE EnqueueReq(c)
      <3>1. /\ Step(creq[c], "caller", "queue") /\ At("caller", creq[c])
            /\ creq[c] \in Uids /\ rpc_tx_q' = Append(rpc_tx_q, creq[c])
        BY <2>3, EnqueueMoves
      <3>2. freed' = freed /\ rpc_tx_q \in Seq(Uid0)
        BY <2>3 DEF EnqueueReq, TypeOK, TxTypeOK
      <3>3. ~In(creq[c], rpc_tx_q)
        <4>1. ~At("queue", creq[c])
          BY <1>1, <3>1 DEF OnePlace, Places
        <4> QED
          BY <4>1 DEF At
      <3>4. NoDup(rpc_tx_q') /\ ~In(0, rpc_tx_q')
        BY <1>1, <3>1, <3>2, <3>3, InAppend, IndexFacts
      <3>5. creq[c] \in Yielded /\ (creq[c] \in has_cb => freed[creq[c]] = 0)
        BY <1>1, <3>1 DEF Known, Home, SpentAsync, Places, Ahead
      <3>6. Placed' /\ Armed' /\ Slots' /\ SpentAsync'
        BY <2>1, <3>1, <3>2, <3>4, <3>5, HomeCallerMoves
      <3> QED
        BY <2>2, <3>2, <3>6 DEF Home
    <2>4. CASE ScanSyncTable(c) /\ Return(c)
      <3>1. Step(creq[c], "caller", "none") /\ At("caller", creq[c])
        BY <2>4, BusyMoves
      <3>2. /\ c \in SyncCallers /\ creq[c] # 0 /\ cpc[c] = "scan" /\ rpc_tx_q' = rpc_tx_q
            /\ cpc \in [Callers -> CallerPc]
        BY <2>4 DEF ScanSyncTable, AsyncBrief, Numbered, TypeOK, CallerTypeOK
      <3>3. Free(creq[c])
        BY <2>4, <3>2 DEF ScanSyncTable, Return, Goto
      <3>4. /\ SpentOnce' /\ SpentSync' /\ creq[c] \notin has_cb
            /\ \A v \in Uids : v \in has_cb => freed'[v] = freed[v]
        BY <2>1, <2>4, <3>2, <3>3, SpentByCaller
      <3>5. creq[c] \in Yielded /\ NoDup(rpc_tx_q') /\ ~In(0, rpc_tx_q')
        BY <1>1, <3>2 DEF Numbered, Yielded
      <3>6. Placed' /\ Armed' /\ Slots' /\ SpentAsync'
        BY <2>1, <3>1, <3>4, <3>5, HomeCallerMoves
      <3> QED
        BY <3>4, <3>6 DEF Home
    <2>5. CASE FreeReq(c)
      <3>1. /\ c \in SyncCallers /\ creq[c] # 0 /\ cpc[c] = "free" /\ rpc_tx_q' = rpc_tx_q
            /\ Free(creq[c]) /\ Return(c)
        BY <2>5 DEF FreeReq, AsyncBrief, Numbered
      <3>2. Step(0, "none", "none")
        <4>1. cpc[c] \notin Preparing
          BY <3>1 DEF Preparing
        <4> QED
          BY <1>3, <3>1, <4>1, CallerKept, CallerOff
      <3>3. /\ SpentOnce' /\ SpentSync' /\ creq[c] \notin has_cb
            /\ \A v \in Uids : v \in has_cb => freed'[v] = freed[v]
        BY <2>1, <3>1, SpentByCaller
      <3>4. 0 \notin Uids /\ NoDup(rpc_tx_q') /\ ~In(0, rpc_tx_q')
        BY <1>1, <3>1, IndexFacts
      <3>5. Placed' /\ Armed' /\ Slots' /\ SpentAsync'
        BY <2>1, <3>2, <3>3, <3>4, HomeCallerMoves
      <3> QED
        BY <3>3, <3>5 DEF Home
    <2>6. CASE ~EnqueueReq(c) /\ ~FreeReq(c) /\ ~(ScanSyncTable(c) /\ Return(c))
      <3>1. freed' = freed /\ rpc_tx_q' = rpc_tx_q
            /\ (cpc[c] \in Preparing => creq'[c] = creq[c] /\ cpc'[c] \in Preparing)
        <4>1. cpc \in [Callers -> CallerPc]
          BY DEF TypeOK, CallerTypeOK
        <4> QED
          BY <4>1, <1>3, <2>6 DEF Caller, ScanSyncTable, SetSyncUid, SetSyncSem, TxInd,
               LookupSyncSlot, TakeSyncSem, DeleteSyncSem, ClearSyncUid, ClearSyncSem,
               DequeueResp, Goto, Preparing
      <3>2. Step(0, "none", "none")
        BY <1>3, <3>1, CallerKept, CallerOff
      <3>3. 0 \notin Uids /\ NoDup(rpc_tx_q') /\ ~In(0, rpc_tx_q')
        BY <1>1, <3>1, IndexFacts
      <3>4. Placed' /\ Armed' /\ Slots' /\ SpentAsync'
        BY <2>1, <3>1, <3>2, <3>3, HomeCallerMoves
      <3> QED
        BY <2>2, <3>1, <3>4 DEF Home
    <2> QED
      BY <2>3, <2>4, <2>5, <2>6
  <1> QED
    BY <1>2, <1>3

\* A step of a thread that frees nothing: what it moves it had in hand.
LEMMA ThreadMoves ==
    ASSUME Home, NEW u, NEW p, NEW q, Step(u, p, q), u \in Uids => At(p, u) /\ p \in Places,
           UNCHANGED <<calls, has_cb, creq, freed>>, Once', InHand',
           u \in Uids /\ q \in Ahead => p \in Ahead,
           \A v \in Uids : Past(v) /\ (\A r \in Ahead : ~At(r, v)) => Past(v)'
    PROVE  Placed' /\ SpentOnce' /\ SpentSync' /\ SpentAsync'
  <1>1. Yielded' = Yielded
    BY YieldedKept
  <1>2. OnePlace'
    BY OnePlaceStep DEF Home, Placed
  <1>3. Known'
    BY <1>1, KnownStep DEF Home, Placed, Known
  <1>4. Kinds'
    BY <1>1 DEF Home, Placed, Kinds
  <1>5. SpentOnce' /\ SpentSync'
    BY <1>1 DEF Home, SpentOnce, SpentSync
  <1>6. SpentAsync'
    <2> SUFFICES ASSUME NEW v \in Uids, v \in has_cb', freed'[v] # 0
                 PROVE  Past(v)' /\ \A r \in Ahead : ~At(r, v)'
      BY DEF SpentAsync
    <2>1. Past(v) /\ \A r \in Ahead : ~At(r, v)
      BY DEF Home, SpentAsync
    <2>2. \A r \in Ahead : ~At(r, v)'
      <3>1. Ahead \subseteq Places
        BY DEF Ahead, Places
      <3> QED
        BY <2>1, <3>1 DEF Step
    <2> QED
      BY <2>1, <2>2
  <1> QED
    BY <1>2, <1>3, <1>4, <1>5, <1>6 DEF Placed

\* What the tx thread leaves alone.
LEMMA TxOff ==
    ASSUME TxThread
    PROVE  UNCHANGED <<calls, has_cb, creq, cpc, rxpc, rxmsg, rxslot, tmpc, tmreq, tmslot,
                       net_down, lost, lib>>
  BY DEF TxThread, TxPoll, TxTake, TxRecv, TxCompose, TxStartTimer, TxSetUid, TxSetCb,
       TxSend, TxSent, TxFail, TxFailPost, TxFailGive, TxFailFree

\* A step of the tx thread that neither frees a request nor fills a slot.
LEMMA HomeTxMoves ==
    ASSUME Home, TypeOK, TxThread, NEW u, NEW p, NEW q, Step(u, p, q), UNCHANGED async,
           u \in Uids => At(p, u) /\ p \in Places, freed' = freed,
           q \in {"none", "tx", "up", "failed"},
           u \in Uids /\ q = "failed" => \A i \in ASlots : async[i].uid # u,
           u \in Uids /\ q = "tx" => p \in Ahead,
           Once', InHand', timers' = timers \/ (timers' = timers \cup {txreq} /\ At("tx", txreq)),
           txpc # "setcb", txpc' # "setcb",
           txreq' \in {0, txreq} \/ (txreq' \in Uids /\ At("queue", txreq')),
           txpc' \in Failing =>
               txreq' \in Uids /\ (At("tx", txreq') \/ (txpc \in Failing /\ txreq' = txreq)),
           txpc' \in {"compose", "timer", "setuid"} => \A i \in ASlots : async[i].uid # txreq',
           timers' # timers => txreq \in has_cb /\ txreq \in Uids
    PROVE  Home'
  <1>1. UNCHANGED <<calls, has_cb, creq, cpc, rxpc, rxmsg, rxslot, tmpc, tmreq, tmslot,
                    net_down, lost, lib>>
    BY TxOff
  <1>2. "tx" \in Ahead /\ Ahead \subseteq Places /\ "none" \notin Ahead /\ "up" \notin Ahead
        /\ "failed" \notin Ahead
    BY DEF Ahead, Places
  <1>3. \A v \in Uids : Past(v) /\ (\A r \in Ahead : ~At(r, v)) => Past(v)'
    BY <1>1, <1>2 DEF Past
  <1>4. Placed' /\ SpentOnce' /\ SpentSync' /\ SpentAsync'
    BY <1>1, <1>2, <1>3, ThreadMoves
  <1>5. Armed'
    <2>1. Armed /\ OnePlace /\ Running \subseteq Uids
      BY DEF Home, Placed, Armed, TypeOK, CallerTypeOK
    <2>2. Running' \subseteq Running \cup {txreq} /\ (timers' = timers => Running' = Running)
      BY <1>1 DEF Running
    <2>3. Running' \subseteq has_cb
      BY <2>1, <2>2 DEF Armed
    <2>4. ASSUME NEW v \in Running' PROVE ~At("caller", v)' /\ ~At("queue", v)'
      <3>1. v \in Uids
        BY <2>1, <2>2, <2>4
      <3>2. ~At("caller", v) /\ ~At("queue", v)
        BY <1>2, <2>1, <2>2, <2>4 DEF Armed, OnePlace, Places
      <3> QED
        BY <3>1, <3>2 DEF Step, Places
    <2>5. ASSUME tmpc # "idle"
          PROVE  tmreq \notin timers' /\ tmreq # txreq' /\ tmreq # rxmsg
      <3>1. tmreq \in Running /\ tmreq \notin timers /\ tmreq # txreq /\ tmreq # rxmsg
        BY <2>1, <2>5 DEF Running, Armed
      <3>2. tmreq # 0 /\ ~At("queue", tmreq)
        BY <2>1, <3>1, IndexFacts DEF Armed
      <3> QED
        BY <3>1, <3>2
    <2> QED
      BY <1>1, <2>3, <2>4, <2>5 DEF Armed
  <1>6. Slots'
    <2>1. /\ rxpc \in {"call", "clear1", "clear2"} => async[rxslot].uid = rxmsg
          /\ rxpc \in {"clear3", "put", "post", "give"} => \A i \in ASlots : async[i].uid # rxmsg
          /\ tmpc \in {"clear1", "clear2"} => async[tmslot].uid = tmreq
      BY DEF Home, Slots
    <2>2. q \in Unsent => q = "failed"
      BY DEF Unsent
    <2> QED
      BY <1>1, <2>1, <2>2, SlotsFewer DEF Home
  <1> QED
    BY <1>4, <1>5, <1>6 DEF Home

\* The request the tx thread has in hand.
LEMMA TxHas ==
    ASSUME TypeOK, InHand, txpc \in Sending
    PROVE  At("tx", txreq) /\ txreq \in Uids /\ "tx" \in Places
  BY IndexFacts DEF InHand, TypeOK, TxTypeOK, At, Places

\* Taking a slot for the request in hand.
LEMMA HomeSetUid ==
    ASSUME Home, TypeOK, TxSetUid, txpc' = "setcb"
    PROVE  Home'
  <1>1. /\ txpc = "setuid" /\ InHand /\ OnePlace /\ Slots /\ Armed
        /\ UNCHANGED <<txreq, rpc_tx_q, net_up, failed, freed, timers>>
    BY DEF TxSetUid, Home, Placed, FailReq
  <1>2. PICK i \in ASlots : /\ async[i].uid = 0 /\ txslot' = i
                            /\ async' = [async EXCEPT ![i].uid = txreq]
    BY DEF TxSetUid, FirstAsync, FailReq
  <1>3. UNCHANGED <<calls, has_cb, creq, cpc, rxpc, rxmsg, rxslot, tmpc, tmreq, tmslot,
                    net_down, lost, lib>>
    BY TxOff DEF TxThread
  <1>4. Step(0, "none", "none")
    BY <1>1, <1>3, StillKept DEF Sending
  <1>5. At("tx", txreq) /\ txreq \in Uids /\ "tx" \in Places /\ "tx" \in Ahead
        /\ "tx" \notin Unsent /\ Unsent \subseteq Places
    BY <1>1, TxHas DEF Sending, Ahead, Unsent, Places
  <1>6. txreq \in has_cb
    BY <1>1 DEF InHand
  <1>7. async \in [ASlots -> AsyncSlot] /\ txreq \in Uid0
    BY DEF TypeOK, AsyncTypeOK, TxTypeOK
  <1>8. /\ \A j \in ASlots : j # i => async'[j] = async[j]
        /\ async'[i].uid = txreq /\ async'[i].req = async[i].req
    BY <1>2, <1>7 DEF AsyncSlot
  <1>9. \A j \in ASlots : async[j].uid # txreq
    BY <1>1, <1>5 DEF Slots
  <1>10. Once' /\ InHand'
    BY <1>1, <1>3, <1>6 DEF Once, InHand, Home, Placed, Sending, Failing
  <1>11. 0 \notin Uids /\ has_cb \subseteq Uids
    BY IndexFacts DEF TypeOK, CallerTypeOK
  <1>12. \A v \in Uids : Past(v) /\ (\A r \in Ahead : ~At(r, v)) => Past(v)'
    BY <1>1, <1>2, <1>3, <1>5, <1>8, <1>11 DEF Past, Failing
  <1>13. Placed' /\ SpentOnce' /\ SpentSync' /\ SpentAsync'
    BY <1>1, <1>3, <1>4, <1>10, <1>11, <1>12, ThreadMoves
  <1>14. Armed'
    BY <1>1, <1>3, <1>4, <1>11, ArmedStep
  <1>15. Slots'
    <2>1. ASSUME NEW j \in ASlots, NEW v \in Uids, async'[j].uid = v
          PROVE  /\ v \in has_cb' /\ \A r \in Unsent : ~At(r, v)'
                 /\ v = txreq' => txpc' \notin {"compose", "timer", "setuid"}
                 /\ (txpc' = "setcb" /\ txslot' = j) \/ async'[j].req = v
                 /\ \A k \in ASlots : async'[k].uid = v => j = k
      <3>1. CASE j = i
        <4>1. v = txreq
          BY <1>8, <2>1, <3>1
        <4>2. \A r \in Unsent : ~At(r, v)'
          BY <1>1, <1>4, <1>5, <1>11, <4>1 DEF Step, OnePlace
        <4>3. \A k \in ASlots : async'[k].uid = v => j = k
          BY <1>8, <1>9, <3>1, <4>1
        <4> QED
          BY <1>2, <1>3, <1>5, <1>6, <3>1, <4>1, <4>2, <4>3
      <3>2. CASE j # i
        <4>1. async[j].uid = v /\ async'[j].req = async[j].req
          BY <1>8, <2>1, <3>2
        <4>2. /\ v \in has_cb /\ \A r \in Unsent : ~At(r, v)
              /\ async[j].req = v /\ \A k \in ASlots : async[k].uid = v => j = k
          BY <1>1, <4>1 DEF Slots
        <4>3. \A r \in Unsent : ~At(r, v)'
          BY <1>4, <1>5, <1>11, <4>2 DEF Step
        <4>4. v # txreq
          BY <1>9, <4>1
        <4>5. \A k \in ASlots : async'[k].uid = v => j = k
          BY <1>8, <4>2, <4>4
        <4> QED
          BY <1>1, <1>3, <4>1, <4>2, <4>3, <4>4, <4>5
      <3> QED
        BY <3>1, <3>2
    <2>2. rxpc \in {"call", "clear1", "clear2"} => async'[rxslot].uid = rxmsg
      BY <1>1, <1>2, <1>8 DEF Slots, InHand, TypeOK, RxTypeOK
    <2>3. rxpc \in {"clear3", "put", "post", "give"} =>
            \A j \in ASlots : async'[j].uid # rxmsg
      <3>1. rxmsg # txreq
        BY <1>1, <1>5 DEF OnePlace, At, Places
      <3> QED
        BY <1>1, <1>8, <3>1 DEF Slots
    <2>4. tmpc \in {"clear1", "clear2"} => async'[tmslot].uid = tmreq
      BY <1>1, <1>2, <1>8, <1>11 DEF Slots, Armed, Running, TypeOK, TimerTypeOK
    <2>5. txpc' = "setcb" => async'[txslot'].uid = txreq'
      BY <1>1, <1>2, <1>8
    <2> QED
      BY <1>3, <2>1, <2>2, <2>3, <2>4, <2>5 DEF Slots
  <1> QED
    BY <1>13, <1>14, <1>15 DEF Home

\* Filling the slot: from now on it points to the request it belongs to.
LEMMA HomeSetCb ==
    ASSUME Home, TypeOK, TxSetCb
    PROVE  Home'
  <1>1. /\ txpc = "setcb" /\ txpc' = "send" /\ InHand /\ OnePlace /\ Slots /\ Armed
        /\ UNCHANGED <<txreq, txslot, rpc_tx_q, net_up, failed, freed, timers>>
        /\ async' = [async EXCEPT ![txslot] = [uid |-> @.uid, cb |-> TRUE, timer |-> txreq,
                                               req |-> txreq]]
    BY DEF TxSetCb, Home, Placed
  <1>2. UNCHANGED <<calls, has_cb, creq, cpc, rxpc, rxmsg, rxslot, tmpc, tmreq, tmslot,
                    net_down, lost, lib>>
    BY TxOff DEF TxThread
  <1>3. Step(0, "none", "none")
    BY <1>1, <1>2, StillKept DEF Sending
  <1>4. async \in [ASlots -> AsyncSlot] /\ txreq \in Uid0 /\ txslot \in ASlots
    BY DEF TypeOK, AsyncTypeOK, TxTypeOK
  <1>5. /\ \A j \in ASlots : async'[j].uid = async[j].uid
        /\ \A j \in ASlots : j # txslot => async'[j].req = async[j].req
        /\ async'[txslot].req = txreq /\ async[txslot].uid = txreq
    BY <1>1, <1>4 DEF AsyncSlot, Slots
  <1>6. Once' /\ InHand'
    BY <1>1, <1>2 DEF Once, InHand, Home, Placed, Sending, Failing
  <1>7. 0 \notin Uids
    BY IndexFacts
  <1>8. \A v \in Uids : Past(v) /\ (\A r \in Ahead : ~At(r, v)) => Past(v)'
    BY <1>1, <1>2, <1>5 DEF Past, Failing
  <1>9. Placed' /\ SpentOnce' /\ SpentSync' /\ SpentAsync'
    BY <1>1, <1>2, <1>3, <1>6, <1>7, <1>8, ThreadMoves
  <1>10. Armed'
    BY <1>1, <1>2, <1>3, <1>7, ArmedStep DEF TypeOK, CallerTypeOK
  <1>11. Slots'
    <2>1. ASSUME NEW j \in ASlots, NEW v \in Uids, async'[j].uid = v
          PROVE  /\ v \in has_cb' /\ \A r \in Unsent : ~At(r, v)'
                 /\ v = txreq' => txpc' \notin {"compose", "timer", "setuid"}
                 /\ (txpc' = "setcb" /\ txslot' = j) \/ async'[j].req = v
                 /\ \A k \in ASlots : async'[k].uid = v => j = k
      <3>1. /\ v \in has_cb /\ \A r \in Unsent : ~At(r, v)
            /\ txslot = j \/ async[j].req = v
            /\ \A k \in ASlots : async[k].uid = v => j = k
        BY <1>1, <1>5, <2>1 DEF Slots
      <3>2. \A r \in Unsent : ~At(r, v)'
        BY <1>3, <1>7, <3>1 DEF Step, Unsent, Places
      <3>3. async'[j].req = v
        BY <1>5, <2>1, <3>1
      <3> QED
        BY <1>1, <1>2, <1>5, <3>1, <3>2, <3>3
    <2>2. /\ rxpc \in {"call", "clear1", "clear2"} => async'[rxslot].uid = rxmsg
          /\ rxpc \in {"clear3", "put", "post", "give"} => \A j \in ASlots : async'[j].uid # rxmsg
          /\ tmpc \in {"clear1", "clear2"} => async'[tmslot].uid = tmreq
      BY <1>1, <1>5 DEF Slots, TypeOK, RxTypeOK, TimerTypeOK
    <2> QED
      BY <1>1, <1>2, <2>1, <2>2 DEF Slots
  <1> QED
    BY <1>9, <1>10, <1>11 DEF Home

\* A thread frees a request whose way has ended, and which nobody freed before.
LEMMA SpentByThread ==
    ASSUME Home, TypeOK, Step(0, "none", "none"), UNCHANGED <<calls, has_cb, creq>>,
           NEW w \in Uids, w \in has_cb, freed'[w] \in {0, 1},
           \A v \in Uids : v # w => freed'[v] = freed[v],
           \A r \in Ahead : ~At(r, w), Past(w)', \A v \in Uids : v # w /\ Past(v) => Past(v)'
    PROVE  SpentOnce' /\ SpentSync' /\ SpentAsync'
  <1>1. Yielded' = Yielded /\ w \in Yielded
    BY YieldedKept DEF Home, Placed, Kinds
  <1>2. SpentOnce'
    BY <1>1 DEF Home, SpentOnce
  <1>3. SpentSync'
    <2> SUFFICES ASSUME NEW c \in SyncCallers, creq[c] # 0 PROVE freed'[creq[c]] = 0
      BY DEF SpentSync
    <2>1. creq[c] \in Uids /\ creq[c] \notin has_cb
      BY IndexFacts DEF Home, Placed, Kinds, TypeOK, CallerTypeOK, Callers
    <2> QED
      BY <2>1 DEF Home, SpentSync
  <1>4. SpentAsync'
    <2> SUFFICES ASSUME NEW v \in Uids, v \in has_cb, freed'[v] # 0
                 PROVE  Past(v)' /\ \A r \in Ahead : ~At(r, v)'
      BY DEF SpentAsync
    <2>1. Ahead \subseteq Places /\ v # 0
      BY IndexFacts DEF Ahead, Places
    <2>2. (\A r \in Ahead : ~At(r, v)) => \A r \in Ahead : ~At(r, v)'
      BY <2>1 DEF Step
    <2>3. CASE v = w
      BY <2>2, <2>3
    <2>4. CASE v # w
      BY <2>2, <2>4 DEF Home, SpentAsync
    <2> QED
      BY <2>3, <2>4
  <1> QED
    BY <1>2, <1>3, <1>4

\* fail_req frees the request that found the table full: it has no slot, so nobody
\* else will.
LEMMA HomeFailFree ==
    ASSUME Home, TypeOK, TxFailFree
    PROVE  Home'
  <1>1. /\ txpc = "failfree" /\ txpc' = "poll" /\ txreq' = 0
        /\ InHand /\ Armed /\ Slots /\ Once /\ Kinds /\ SpentOnce /\ SpentSync /\ SpentAsync
        /\ OnePlace /\ Known
        /\ UNCHANGED <<rpc_tx_q, net_up, failed, timers, async>>
    BY DEF TxFailFree, TxDone, Home, Placed
  <1>2. UNCHANGED <<calls, has_cb, creq, cpc, rxpc, rxmsg, rxslot, tmpc, tmreq, tmslot,
                    net_down, lost, lib>>
    BY TxOff DEF TxThread
  <1>3. Step(0, "none", "none")
    BY <1>1, <1>2, StillKept DEF Sending
  <1>4. txreq \in Uids /\ txreq \in has_cb /\ txreq \in failed /\ 0 \notin Uids
    BY <1>1, IndexFacts DEF InHand, Failing, TypeOK, CallerTypeOK
  <1>5. At("failed", txreq) /\ "failed" \in Places /\ "failed" \notin Ahead
    BY <1>4 DEF At, Places, Ahead
  <1>6. freed[txreq] = 0
    BY <1>1, <1>4 DEF SpentAsync, Past, Failing
  <1>7. /\ freed'[txreq] \in {0, 1} /\ \A v \in Uids : v # txreq => freed'[v] = freed[v]
    BY <1>4, <1>6, FreeOnce DEF TxFailFree
  <1>8. Yielded' = Yielded
    BY <1>2, YieldedKept
  <1>9. Placed'
    <2>1. OnePlace' /\ Known'
      BY <1>1, <1>3, <1>4, <1>8, OnePlaceStep, KnownStep
    <2>2. Once' /\ Kinds'
      BY <1>1, <1>2, <1>8 DEF Once, Kinds
    <2>3. InHand'
      BY <1>1, <1>2 DEF InHand, Sending, Failing
    <2> QED
      BY <2>1, <2>2, <2>3 DEF Placed
  <1>10. \A r \in Places : At(r, txreq) => r = "failed"
    BY <1>1, <1>4, <1>5 DEF OnePlace
  <1>11. \A r \in Ahead : ~At(r, txreq)
    BY <1>10 DEF Ahead, Places
  <1>12. \A v \in Uids : v = txreq \/ Past(v) => Past(v)'
    <2>1. \A i \in ASlots : async[i].uid # txreq
      BY <1>1, <1>4, <1>5 DEF Slots, Unsent
    <2> QED
      BY <1>1, <1>2, <2>1 DEF Past, Failing
  <1>13. SpentOnce' /\ SpentSync' /\ SpentAsync'
    <2>1. PICK w \in Uids : w = txreq
      BY <1>4
    <2> QED
      BY <1>2, <1>3, <1>4, <1>7, <1>11, <1>12, <2>1, SpentByThread
  <1>14. Armed'
    BY <1>1, <1>2, <1>3, <1>4, ArmedStep DEF TypeOK, CallerTypeOK
  <1>15. Slots'
    <2>2. /\ rxpc \in {"call", "clear1", "clear2"} => async[rxslot].uid = rxmsg
          /\ rxpc \in {"clear3", "put", "post", "give"} => \A i \in ASlots : async[i].uid # rxmsg
          /\ tmpc \in {"clear1", "clear2"} => async[tmslot].uid = tmreq
      BY <1>1 DEF Slots
    <2> QED
      BY <1>1, <1>2, <1>3, <1>4, <2>2, SlotsFewer
  <1> QED
    BY <1>9, <1>13, <1>14, <1>15 DEF Home

\* The tx thread keeps requests where they belong.
LEMMA HomeTx ==
    ASSUME Punctual, TypeOK, Home, TxThread
    PROVE  Home'
  <1>1. /\ InHand /\ Once /\ OnePlace /\ Slots /\ Armed /\ ~MayFail
    BY NoSendFails DEF Home, Placed, Punctual
  <1>2. UNCHANGED <<calls, has_cb, creq, cpc, rxpc, rxmsg, rxslot, tmpc, tmreq, tmslot,
                    net_down, lost, lib>>
    BY TxOff
  <1>3. 0 \notin Uids /\ has_cb \subseteq Uids
    BY IndexFacts DEF TypeOK, CallerTypeOK
  <1>4. CASE TxPoll \/ TxTake \/ TxSent
    <2>1. /\ UNCHANGED <<rpc_tx_q, net_up, failed, timers, async, freed>>
          /\ txpc \in {"poll", "sem", "sent"} /\ txpc' \in {"poll", "sem", "recv"}
          /\ txreq' \in {0, txreq}
      BY <1>4 DEF TxPoll, TxTake, TxSent, TxDone
    <2>2. Step(0, "none", "none")
      BY <1>2, <2>1, StillKept DEF Sending
    <2>3. Once' /\ InHand'
      BY <1>1, <1>2, <2>1 DEF Once, InHand, Sending, Failing
    <2> QED
      BY <1>3, <2>1, <2>2, <2>3, HomeTxMoves DEF Failing
  <1>5. CASE TxRecv
    <2>1. /\ Step(txreq', "queue", "tx") /\ At("queue", txreq') /\ txreq' \in Uids
          /\ NoDup(rpc_tx_q') /\ ~In(0, rpc_tx_q')
      BY <1>1, <1>5, RecvMoves
    <2>2. /\ UNCHANGED <<net_up, failed, timers, async, freed>>
          /\ txpc = "recv" /\ txpc' = "compose" /\ txreq' # 0
      BY <1>3, <1>5, <2>1 DEF TxRecv
    <2>3. Once' /\ InHand'
      BY <1>1, <1>2, <2>1, <2>2 DEF Once, InHand, Sending, Failing
    <2>4. "queue" \in Places /\ "queue" \in Unsent /\ "queue" \in Ahead
      BY DEF Places, Unsent, Ahead
    <2>5. \A i \in ASlots : async[i].uid # txreq'
      BY <1>1, <2>1, <2>4 DEF Slots
    <2> QED
      BY <2>1, <2>2, <2>3, <2>4, <2>5, HomeTxMoves DEF Failing
  <1>6. CASE TxCompose
    <2>1. /\ UNCHANGED <<rpc_tx_q, net_up, failed, timers, async, freed, txreq>>
          /\ txpc = "compose" /\ txpc' = IF txreq \in has_cb THEN "timer" ELSE "send"
      BY <1>1, <1>6 DEF TxCompose
    <2>2. Step(0, "none", "none")
      BY <1>2, <2>1, StillKept DEF Sending
    <2>3. Once' /\ InHand'
      BY <1>1, <1>2, <2>1 DEF Once, InHand, Sending, Failing
    <2>4. At("tx", txreq) /\ txreq \in Uids
      BY <1>1, <2>1, TxHas DEF Sending
    <2>5. \A i \in ASlots : async[i].uid # txreq
      BY <1>1, <2>1, <2>4 DEF Slots
    <2> QED
      BY <1>3, <2>1, <2>2, <2>3, <2>5, HomeTxMoves DEF Failing
  <1>7. CASE TxStartTimer
    <2>1. /\ UNCHANGED <<rpc_tx_q, net_up, failed, async, freed, txreq>>
          /\ txpc = "timer" /\ txpc' = "setuid" /\ timers' = timers \cup {txreq}
      BY <1>1, <1>7 DEF TxStartTimer
    <2>2. Step(0, "none", "none")
      BY <1>2, <2>1, StillKept DEF Sending
    <2>3. Once' /\ InHand'
      BY <1>1, <1>2, <2>1 DEF Once, InHand, Sending, Failing
    <2>4. At("tx", txreq) /\ txreq \in Uids /\ txreq \in has_cb
      BY <1>1, <2>1, TxHas DEF Sending, InHand
    <2>5. \A i \in ASlots : async[i].uid # txreq
      BY <1>1, <2>1, <2>4 DEF Slots
    <2> QED
      BY <1>3, <2>1, <2>2, <2>3, <2>4, <2>5, HomeTxMoves DEF Failing
  <1>8. CASE TxSetUid
    <2>1. CASE txpc' = "setcb"
      BY <1>8, <2>1, HomeSetUid
    <2>2. CASE txpc' # "setcb"
      <3>1. /\ UNCHANGED <<rpc_tx_q, net_up, timers, async, freed, txreq, txslot>>
            /\ txpc = "setuid" /\ txpc' = "fail" /\ FailReq /\ failed' = failed \cup {txreq}
        BY <1>8, <2>2 DEF TxSetUid, FailReq
      <3>2. Step(txreq, "tx", "failed") /\ At("tx", txreq) /\ txreq \in Uids
        BY <1>1, <1>2, <3>1, FailMoves DEF Sending
      <3>3. Once' /\ InHand'
        BY <1>1, <1>2, <3>1 DEF Once, InHand, Sending, Failing
      <3>4. \A i \in ASlots : async[i].uid # txreq
        BY <1>1, <3>1, <3>2 DEF Slots
      <3>5. "tx" \in Places /\ "failed" \notin Ahead
        BY DEF Places, Ahead
      <3> QED
        BY <3>1, <3>2, <3>3, <3>4, <3>5, HomeTxMoves
    <2> QED
      BY <2>1, <2>2
  <1>9. CASE TxSetCb
    BY <1>9, HomeSetCb
  <1>10. CASE TxSend
    <2>1. /\ Step(txreq, "tx", "up") /\ At("tx", txreq) /\ txreq \in Uids
          /\ net_up' = Append(net_up, txreq)
      BY <1>1, <1>10, SendMoves
    <2>2. /\ UNCHANGED <<rpc_tx_q, failed, timers, async, freed, txreq>>
          /\ txpc = "send" /\ txpc' = "sent" /\ net_up \in Seq(Uid0) /\ txreq \in Uid0
      BY <1>1, <1>10 DEF TxSend, TypeOK, TxTypeOK, NetTypeOK
    <2>3. ~At("up", txreq)
      BY <1>1, <2>1 DEF OnePlace, Places
    <2>4. ~In(txreq, net_up) /\ txreq # 0
      BY <1>3, <2>1, <2>3 DEF At
    <2>5. NoDup(net_up') /\ ~In(0, net_up')
      BY <1>1, <2>1, <2>2, <2>4, InAppend DEF Once, InHand
    <2>6. Once' /\ InHand'
      BY <1>1, <1>2, <2>2, <2>5 DEF Once, InHand, Sending, Failing
    <2>7. "tx" \in Places
      BY DEF Places
    <2> QED
      BY <2>1, <2>2, <2>6, <2>7, HomeTxMoves DEF Failing
  <1>11. CASE TxFail \/ TxFailPost \/ TxFailGive
    <2>1. /\ UNCHANGED <<rpc_tx_q, net_up, failed, timers, async, freed, txreq>>
          /\ txpc \in Failing /\ txpc' \in Failing
      BY <1>11 DEF TxFail, TxFailPost, TxFailGive, Failing
    <2>2. txpc \notin Sending /\ txpc' \notin Sending /\ txpc # "setcb" /\ txpc' # "setcb"
          /\ txpc' \notin {"compose", "timer", "setuid"}
      BY <2>1 DEF Sending, Failing
    <2>3. Step(0, "none", "none")
      BY <1>2, <2>1, <2>2, StillKept
    <2>4. Once' /\ InHand'
      BY <1>1, <1>2, <2>1, <2>2 DEF Once, InHand, Sending
    <2>5. txreq \in Uids
      BY <1>1, <1>3, <2>1 DEF InHand
    <2> QED
      BY <1>3, <2>1, <2>2, <2>3, <2>4, <2>5, HomeTxMoves
  <1>12. CASE TxFailFree
    BY <1>12, HomeFailFree
  <1> QED
    BY <1>4, <1>5, <1>6, <1>7, <1>8, <1>9, <1>10, <1>11, <1>12 DEF TxThread

\* What the rx thread leaves alone.
LEMMA RxOff ==
    ASSUME RxThread
    PROVE  UNCHANGED <<calls, has_cb, creq, cpc, txpc, txreq, txslot, tmpc, tmreq, tmslot,
                       rpc_tx_q, net_up, lost, failed, lib>>
  BY DEF RxThread, RxPoll, RxRead, RxClassify, RxFind, RxCallback, RxClear, RxPut, RxPost,
       RxGive

\* What the clauses about other threads say of the slots is so while slots keep their uids.
LEMMA SlotFacts ==
    ASSUME Slots
    PROVE  /\ txpc = "setcb" => async[txslot].uid = txreq
           /\ \A i \in ASlots : \A v \in Uids : async[i].uid = v /\ v = txreq =>
                txpc \notin {"compose", "timer", "setuid"}
           /\ rxpc \in {"call", "clear1", "clear2"} => async[rxslot].uid = rxmsg
           /\ rxpc \in {"clear3", "put", "post", "give"} => \A i \in ASlots : async[i].uid # rxmsg
           /\ tmpc \in {"clear1", "clear2"} => async[tmslot].uid = tmreq
  BY DEF Slots

\* A step of the rx thread that frees nothing and leaves the uids of the slots alone.
LEMMA HomeRxMoves ==
    ASSUME Home, TypeOK, RxThread, NEW u, NEW p, NEW q, Step(u, p, q),
           \A i \in ASlots : async'[i].uid = async[i].uid /\ async'[i].req = async[i].req,
           u \in Uids => At(p, u) /\ p \in Places, freed' = freed, timers' = timers,
           q \in {"none", "rx"}, NoDup(net_down'), rxpc # "clear2",
           rxmsg' = 0 <=> rxpc' \in {"poll", "read", "dead"},
           rxmsg' \in {0, rxmsg} \/ (tmpc # "idle" => rxmsg' # tmreq),
           rxpc' \in {"call", "clear1", "clear2"} => async[rxslot'].uid = rxmsg',
           rxpc' \in {"clear3", "put", "post", "give"} => \A i \in ASlots : async[i].uid # rxmsg',
           rxslot' \in ASlots
    PROVE  Home'
  <1>1. UNCHANGED <<calls, has_cb, creq, cpc, txpc, txreq, txslot, tmpc, tmreq, tmslot,
                    rpc_tx_q, net_up, lost, failed, lib>>
    BY RxOff
  <1>2. Once' /\ InHand'
    BY <1>1 DEF Home, Placed, Once, InHand
  <1>3. \A v \in Uids : Past(v) /\ (\A r \in Ahead : ~At(r, v)) => Past(v)'
    BY <1>1 DEF Past
  <1>4. "rx" \notin Ahead /\ "none" \notin Ahead /\ "rx" \notin Unsent /\ "none" \notin Unsent
    BY DEF Ahead, Unsent
  <1>5. Placed' /\ SpentOnce' /\ SpentSync' /\ SpentAsync'
    BY <1>1, <1>2, <1>3, <1>4, ThreadMoves
  <1>6. Armed'
    BY <1>1, ArmedStep DEF Home, TypeOK, CallerTypeOK
  <1>7. Slots'
    <2>1. txslot \in ASlots /\ tmslot \in ASlots
      BY DEF TypeOK, TxTypeOK, TimerTypeOK
    <2> QED
      BY <1>1, <1>4, <2>1, SlotFacts, SlotsFewer DEF Home
  <1> QED
    BY <1>5, <1>6, <1>7 DEF Home

\* The thread that clears slot i for request w stops its timer and frees it.
LEMMA HomeStopFree ==
    ASSUME Home, TypeOK, NEW w \in Uids, NEW i \in ASlots, async[i].uid = w,
           txpc \in Sending \cup Failing => txreq # w,
           ClearStopFree(i), freed[w] = 0, \A r \in Ahead : ~At(r, w),
           \/ rxpc = "clear1" /\ rxpc' = "clear2" /\ rxmsg = w /\ rxslot = i /\ tmpc' = tmpc
           \/ tmpc = "clear1" /\ tmpc' = "clear2" /\ tmreq = w /\ tmslot = i /\ rxpc' = rxpc,
           UNCHANGED <<calls, has_cb, creq, cpc, txpc, txreq, txslot, tmreq, tmslot, rxmsg,
                       rxslot, rpc_tx_q, net_up, net_down, lost, failed, lib>>
    PROVE  Home'
  <1>1. async[i].req = w /\ w \in has_cb /\ Slots /\ Armed /\ InHand /\ OnePlace
    BY DEF Home, Slots, Placed, Sending
  <1>2. freed'[w] = 1 /\ \A v \in Uids : v # w => freed'[v] = freed[v]
    BY <1>1, FreeOnce DEF ClearStopFree
  <1>3. \A j \in ASlots : async'[j].uid = async[j].uid /\ async'[j].req = async[j].req
    BY DEF ClearStopFree, TypeOK, AsyncTypeOK, AsyncSlot
  <1>4. Step(0, "none", "none")
    BY StillKept
  <1>5. timers' \subseteq timers /\ 0 \notin Uids
    BY IndexFacts DEF ClearStopFree
  <1>6. \A v \in Uids : Past(v) /\ v # w => Past(v)'
    BY <1>3 DEF Past
  <1>7. \A v \in Uids : v = w => Past(v)'
    BY <1>3 DEF Past
  <1>8. SpentOnce' /\ SpentSync' /\ SpentAsync'
    BY <1>1, <1>2, <1>4, <1>6, <1>7, SpentByThread
  <1>9. Placed'
    <2>1. Yielded' = Yielded
      BY YieldedKept
    <2>2. OnePlace' /\ Known'
      BY <1>1, <1>4, <1>5, <2>1, OnePlaceStep, KnownStep DEF Home, Placed
    <2>3. Once' /\ Kinds' /\ InHand'
      BY <2>1 DEF Home, Placed, Once, Kinds, InHand
    <2> QED
      BY <2>2, <2>3 DEF Placed
  <1>10. Armed'
    <2>1. Running' \subseteq Running /\ (tmpc' # "idle" <=> tmpc # "idle")
      BY <1>5 DEF Running
    <2>2. \A v \in Running' : ~At("caller", v)' /\ ~At("queue", v)'
      BY <1>1, <2>1 DEF Armed, At
    <2> QED
      BY <1>1, <1>5, <2>1, <2>2 DEF Armed
  <1>11. Slots'
    <2>1. txslot \in ASlots /\ tmslot \in ASlots /\ rxslot \in ASlots /\ "none" \notin Unsent
      BY DEF TypeOK, TxTypeOK, TimerTypeOK, RxTypeOK, Unsent
    <2> QED
      BY <1>1, <1>3, <1>4, <1>5, <2>1, SlotFacts, SlotsFewer
  <1> QED
    BY <1>8, <1>9, <1>10, <1>11 DEF Home

\* ... and gives the slot back.
LEMMA HomeClearUid ==
    ASSUME Home, TypeOK, NEW w \in Uids, NEW i \in ASlots, async[i].uid = w,
           txpc \in Sending \cup Failing => txreq # w,
           ClearUid(i),
           \/ rxpc = "clear2" /\ rxpc' = "clear3" /\ rxmsg = w /\ rxslot = i /\ tmpc' = tmpc
                /\ (tmpc # "idle" => tmreq # w)
           \/ tmpc = "clear2" /\ tmpc' = "clear3" /\ tmreq = w /\ tmslot = i /\ rxpc' = rxpc
                /\ rxmsg # w,
           UNCHANGED <<calls, has_cb, creq, cpc, txpc, txreq, txslot, tmreq, tmslot, rxmsg,
                       rxslot, rpc_tx_q, net_up, net_down, lost, failed, lib, timers, freed>>
    PROVE  Home'
  <1>1. Slots /\ Armed /\ InHand /\ OnePlace
    BY DEF Home, Placed
  <1>2. /\ \A j \in ASlots : j # i => async'[j].uid = async[j].uid
        /\ async'[i].uid = 0 /\ \A j \in ASlots : async'[j].req = async[j].req
    BY DEF ClearUid, TypeOK, AsyncTypeOK, AsyncSlot
  <1>3. Step(0, "none", "none") /\ 0 \notin Uids
    BY StillKept, IndexFacts
  <1>4. \A v \in Uids : Past(v) /\ (\A r \in Ahead : ~At(r, v)) => Past(v)'
    BY <1>1, <1>2, <1>3 DEF Past, Slots
  <1>5. Once' /\ InHand'
    BY DEF Home, Placed, Once, InHand
  <1>6. Placed' /\ SpentOnce' /\ SpentSync' /\ SpentAsync'
    BY <1>3, <1>4, <1>5, ThreadMoves
  <1>7. Armed'
    <2>1. Running' = Running
      BY DEF Running
    <2> QED
      BY <1>1, <2>1 DEF Armed, At
  <1>8. Slots'
    <2>1. txslot \in ASlots /\ tmslot \in ASlots /\ rxslot \in ASlots /\ "none" \notin Unsent
      BY DEF TypeOK, TxTypeOK, TimerTypeOK, RxTypeOK, Unsent
    <2>2. \A j \in ASlots : async[j].uid = w => i = j
      BY <1>1 DEF Slots
    <2>3. \A j \in ASlots : \A v \in Uids :
            async'[j].uid = v => async[j].uid = v /\ async'[j].req = async[j].req
      BY <1>2, <1>3
    <2>4. txpc = "setcb" => async'[txslot].uid = txreq
      BY <1>1, <1>2, <2>1, SlotFacts DEF Sending
    <2>5. rxpc' \in {"call", "clear1", "clear2"} => async'[rxslot].uid = rxmsg
      BY <1>1, <1>2, <2>1, SlotFacts
    <2>6. rxpc' \in {"clear3", "put", "post", "give"} => \A j \in ASlots : async'[j].uid # rxmsg
      BY <1>1, <1>2, <1>3, <2>2, SlotFacts DEF InHand
    <2>7. tmpc' \in {"clear1", "clear2"} => async'[tmslot].uid = tmreq
      BY <1>1, <1>2, <2>1, SlotFacts
    <2>8. \A j \in ASlots : \A v \in Uids : async'[j].uid = v /\ v = txreq =>
            txpc \notin {"compose", "timer", "setuid"}
      BY <1>1, <2>3, SlotFacts
    <2> QED
      BY <1>1, <1>3, <2>1, <2>3, <2>4, <2>5, <2>6, <2>7, <2>8, SlotsFewer
  <1> QED
    BY <1>6, <1>7, <1>8 DEF Home

\* The request whose slot a thread clears is not in the tx thread's hands.
LEMMA NotAtTx ==
    ASSUME Home, TypeOK, NEW w \in Uids, NEW i \in ASlots, async[i].uid = w,
           rxmsg = w \/ txreq # w
    PROVE  /\ txpc \in Sending \cup Failing => txreq # w
           /\ \A r \in Ahead : ~At(r, w)
           /\ w \in has_cb
  <1>1. OnePlace /\ InHand
    BY DEF Home, Placed
  <1>2. w \in has_cb /\ \A p \in Unsent : ~At(p, w)
    BY DEF Home, Slots
  <1>3. /\ "rx" \in Places /\ "tx" \in Places /\ "failed" \in Unsent
        /\ Ahead = {"caller", "queue", "tx"} /\ {"caller", "queue"} \subseteq Unsent
    BY DEF Places, Ahead, Unsent
  <1>4. ~At("tx", w)
    BY <1>1, <1>3 DEF OnePlace, At
  <1>5. txpc \in Failing => txreq # w
    BY <1>1, <1>2, <1>3 DEF InHand, At
  <1> QED
    BY <1>2, <1>3, <1>4, <1>5 DEF At

\* The rx thread keeps requests where they belong.
LEMMA HomeRx ==
    ASSUME Punctual, TypeOK, Home, RxThread
    PROVE  Home'
  <1>1. InHand /\ Once /\ OnePlace /\ Slots /\ SpentAsync /\ Armed
    BY DEF Home, Placed
  <1>2. UNCHANGED <<calls, has_cb, creq, cpc, txpc, txreq, txslot, tmpc, tmreq, tmslot,
                    rpc_tx_q, net_up, lost, failed, lib>>
    BY RxOff
  <1>3. /\ 0 \notin Uids /\ "rx" \in Places /\ "down" \in Places /\ 1 \in ASlots
        /\ rxmsg \in Uid0 /\ rxslot \in ASlots /\ NoDup(net_down) /\ rxpc \in RxPc
        /\ \A u \in Uid0 : u # 0 => u \in Uids
    BY <1>1, IndexFacts DEF Places, TypeOK, RxTypeOK, Once
  <1>4. CASE RxPoll \/ RxClassify \/ RxPut
    <2>1. /\ UNCHANGED <<async, timers, freed, net_down, rxmsg, rxslot>>
          /\ \/ rxpc = "poll" /\ rxpc' = "read"
             \/ rxpc = "classify" /\ rxpc' = "find"
             \/ rxpc = "classify" /\ rxpc' = "put" /\ ~InAsync(rxmsg)
             \/ rxpc = "put" /\ rxpc' = "post"
      BY <1>4 DEF RxPoll, RxClassify, RxPut
    <2>2. Step(0, "none", "none")
      BY <1>2, <2>1, StillKept
    <2>3. rxmsg' = 0 <=> rxpc' \in {"poll", "read", "dead"}
      BY <1>1, <2>1 DEF InHand
    <2>4. rxpc' \in {"clear3", "put", "post", "give"} => \A i \in ASlots : async[i].uid # rxmsg'
      BY <1>1, <2>1, SlotFacts DEF InAsync
    <2> QED
      BY <1>3, <2>1, <2>2, <2>3, <2>4, HomeRxMoves
  <1>5. CASE RxRead
    <2>1. rxmsg = 0 /\ rxpc = "read"
      BY <1>1, <1>5 DEF RxRead, InHand
    <2>2. /\ Head(net_down) \in Uid0 /\ At("down", Head(net_down)) /\ NoDup(net_down')
          /\ \/ rxmsg' = Head(net_down) /\ rxmsg' # 0 /\ rxpc' = "classify" /\ rxslot' = rxslot
                  /\ Step(rxmsg', "down", "rx")
             \/ rxmsg' = 0 /\ rxpc' = "poll" /\ rxslot' = 1
                  /\ Step(Head(net_down), "down", "none")
      BY <1>1, <1>5, <2>1, ReadMoves
    <2>3. UNCHANGED <<async, timers, freed>> /\ (tmpc # "idle" => Head(net_down) # tmreq)
      BY <1>5 DEF RxRead, Punctual
    <2> QED
      BY <1>3, <2>1, <2>2, <2>3, HomeRxMoves
  <1>6. CASE RxFind
    <2>1. /\ UNCHANGED <<async, timers, freed, net_down>> /\ rxpc = "find"
          /\ \/ rxpc' = "call" /\ rxmsg' = rxmsg /\ rxslot' \in ASlots
                  /\ async[rxslot'].uid = rxmsg
             \/ ~InAsync(rxmsg) /\ RxDone
      BY <1>6 DEF RxFind, FirstAsync
    <2>2. rxmsg # 0
      BY <1>1, <2>1 DEF InHand
    <2>3. CASE rxpc' = "call" /\ rxmsg' = rxmsg /\ rxslot' \in ASlots /\ async[rxslot'].uid = rxmsg
      <3>1. Step(0, "none", "none")
        BY <1>2, <2>1, <2>3, StillKept
      <3> QED
        BY <1>3, <2>1, <2>2, <2>3, <3>1, HomeRxMoves
    <2>4. CASE ~InAsync(rxmsg) /\ RxDone
      <3>1. Step(rxmsg, "rx", "none") /\ At("rx", rxmsg)
        BY <1>2, <2>1, <2>4, RxDoneMoves DEF RxDone
      <3> QED
        BY <1>3, <2>1, <2>4, <3>1, HomeRxMoves DEF RxDone, InAsync
    <2> QED
      BY <2>1, <2>3, <2>4
  <1>7. CASE RxCallback
    <2>1. /\ UNCHANGED <<async, timers, freed, net_down, rxmsg, rxslot>> /\ rxpc = "call"
          /\ rxpc' \in {"call", "clear1"}
      BY <1>7 DEF RxCallback
    <2>2. Step(0, "none", "none")
      BY <1>2, <2>1, StillKept
    <2>3. rxmsg # 0 /\ async[rxslot].uid = rxmsg
      BY <1>1, <2>1, SlotFacts DEF InHand
    <2> QED
      BY <1>3, <2>1, <2>2, <2>3, HomeRxMoves
  <1>8. CASE RxPost \/ RxGive
    <2>1. /\ UNCHANGED <<async, timers, freed, net_down>> /\ rxpc \in {"post", "give"}
          /\ \/ rxpc' = "give" /\ UNCHANGED <<rxmsg, rxslot>>
             \/ RxDone
      BY <1>8 DEF RxPost, RxGive
    <2>2. rxmsg # 0 /\ \A i \in ASlots : async[i].uid # rxmsg
      BY <1>1, <2>1, SlotFacts DEF InHand
    <2>3. CASE rxpc' = "give" /\ UNCHANGED <<rxmsg, rxslot>>
      <3>1. Step(0, "none", "none")
        BY <1>2, <2>1, <2>3, StillKept
      <3> QED
        BY <1>3, <2>1, <2>2, <2>3, <3>1, HomeRxMoves
    <2>4. CASE RxDone
      <3>1. Step(rxmsg, "rx", "none") /\ At("rx", rxmsg)
        BY <1>2, <2>1, <2>4, RxDoneMoves DEF RxDone
      <3> QED
        BY <1>3, <2>1, <2>2, <2>4, <3>1, HomeRxMoves DEF RxDone
    <2> QED
      BY <2>1, <2>3, <2>4
  <1>9. CASE RxClear
    <2>1. net_down' = net_down
      BY <1>9 DEF RxClear
    <2>2. CASE rxpc \in {"clear1", "clear2"}
      <3>1. rxmsg \in Uids /\ async[rxslot].uid = rxmsg /\ async[rxslot].uid # 0
        BY <1>1, <1>3, <2>2, SlotFacts DEF InHand
      <3>2. /\ txpc \in Sending \cup Failing => txreq # rxmsg
            /\ \A r \in Ahead : ~At(r, rxmsg)
            /\ rxmsg \in has_cb /\ (tmpc # "idle" => tmreq # rxmsg)
        BY <1>1, <1>3, <3>1, NotAtTx DEF Armed
      <3>3. CASE rxpc = "clear1"
        <4>1. ClearStopFree(rxslot) /\ rxpc' = "clear2" /\ UNCHANGED <<rxmsg, rxslot>>
          BY <1>9, <3>1, <3>3 DEF RxClear
        <4>2. freed[rxmsg] = 0
          <5>1. ~Past(rxmsg)
            BY <1>3, <3>1, <3>2, <3>3 DEF Past
          <5> QED
            BY <1>1, <3>1, <3>2, <5>1 DEF SpentAsync
        <4> QED
          BY <1>2, <1>3, <2>1, <3>1, <3>2, <3>3, <4>1, <4>2, HomeStopFree
      <3>4. CASE rxpc = "clear2"
        <4>1. /\ ClearUid(rxslot) /\ rxpc' = "clear3"
              /\ UNCHANGED <<rxmsg, rxslot, timers, freed>>
          BY <1>9, <3>4 DEF RxClear
        <4> QED
          BY <1>2, <1>3, <2>1, <3>1, <3>2, <3>4, <4>1, HomeClearUid
      <3> QED
        BY <2>2, <3>3, <3>4
    <2>3. CASE rxpc = "clear3"
      <3>1. ClearCb(rxslot) /\ RxDone /\ UNCHANGED <<timers, freed>>
        BY <1>9, <2>3 DEF RxClear
      <3>2. \A i \in ASlots : async'[i].uid = async[i].uid /\ async'[i].req = async[i].req
        BY <3>1 DEF ClearCb, TypeOK, AsyncTypeOK, AsyncSlot
      <3>3. Step(rxmsg, "rx", "none") /\ At("rx", rxmsg)
        BY <1>2, <2>1, <3>1, RxDoneMoves DEF RxDone
      <3>4. \A i \in ASlots : async[i].uid # rxmsg
        BY <1>1, <2>3, SlotFacts
      <3> QED
        BY <1>3, <2>1, <2>3, <3>1, <3>2, <3>3, <3>4, HomeRxMoves DEF RxDone
    <2> QED
      BY <1>9, <2>2, <2>3 DEF RxClear
  <1> QED
    BY <1>4, <1>5, <1>6, <1>7, <1>8, <1>9 DEF RxThread

\* The timer task goes on with its request, or is done with it.
LEMMA ArmedLess ==
    ASSUME Armed, UNCHANGED <<timers, has_cb, creq, cpc, rpc_tx_q, txreq, rxmsg>>,
           tmpc # "idle", tmpc' = "idle" \/ tmreq' = tmreq
    PROVE  Armed'
  <1>1. Running' \subseteq Running
    BY DEF Running
  <1> QED
    BY <1>1 DEF Armed, At

\* A step of the timer task that frees nothing and leaves the uids of the slots alone.
LEMMA HomeTimerMoves ==
    ASSUME Home, TypeOK, TimerTask,
           \A i \in ASlots : async'[i].uid = async[i].uid /\ async'[i].req = async[i].req,
           freed' = freed, Armed', timers' \subseteq timers, tmpc # "clear2",
           tmpc' \in {"clear1", "clear2"} => async'[tmslot'].uid = tmreq'
    PROVE  Home'
  <1>1. UNCHANGED <<calls, has_cb, creq, cpc, txpc, txreq, txslot, rxpc, rxmsg, rxslot,
                    rpc_tx_q, net_up, net_down, lost, failed, lib>>
    BY DEF TimerTask, TimerExpire, TimerFind, TimerClear, TimerCall
  <1>2. Step(0, "none", "none") /\ 0 \notin Uids /\ "none" \notin Unsent
    BY <1>1, StillKept, IndexFacts DEF Unsent
  <1>3. \A v \in Uids : Past(v) /\ (\A r \in Ahead : ~At(r, v)) => Past(v)'
    BY <1>1 DEF Past
  <1>4. Once' /\ InHand'
    BY <1>1 DEF Home, Placed, Once, InHand
  <1>5. Placed' /\ SpentOnce' /\ SpentSync' /\ SpentAsync'
    BY <1>1, <1>2, <1>3, <1>4, ThreadMoves
  <1>6. Slots'
    <2>1. txslot \in ASlots /\ rxslot \in ASlots
      BY DEF TypeOK, TxTypeOK, RxTypeOK
    <2> QED
      BY <1>1, <1>2, <2>1, SlotFacts, SlotsFewer DEF Home
  <1> QED
    BY <1>5, <1>6 DEF Home

\* The timer task keeps requests where they belong.
LEMMA HomeTimer ==
    ASSUME Punctual, TypeOK, Home, TimerTask
    PROVE  Home'
  <1>1. InHand /\ OnePlace /\ Slots /\ SpentAsync /\ Armed
    BY DEF Home, Placed
  <1>2. UNCHANGED <<calls, has_cb, creq, cpc, txpc, txreq, txslot, rxpc, rxmsg, rxslot,
                    rpc_tx_q, net_up, net_down, lost, failed, lib>>
    BY DEF TimerTask, TimerExpire, TimerFind, TimerClear, TimerCall
  <1>3. 0 \notin Uids /\ has_cb \subseteq Uids /\ tmslot \in ASlots
    BY IndexFacts DEF TypeOK, CallerTypeOK, TimerTypeOK
  <1>4. CASE \E u \in Uid0 : TimerExpire(u)
    <2>1. PICK u \in Uid0 : TimerExpire(u)
      BY <1>4
    <2>2. /\ u \in timers /\ timers' = timers \ {u} /\ tmreq' = u /\ tmpc' = "find"
          /\ u # txreq /\ u # rxmsg /\ tmpc = "idle" /\ UNCHANGED <<async, freed>>
      BY <2>1 DEF TimerExpire, Punctual
    <2>3. Armed'
      <3>1. Running' = Running
        BY <2>2 DEF Running
      <3> QED
        BY <1>1, <1>2, <2>2, <3>1 DEF Armed, At
    <2> QED
      BY <2>2, <2>3, HomeTimerMoves
  <1>5. CASE TimerFind
    <2>1. /\ tmpc = "find" /\ UNCHANGED <<async, timers, freed>>
          /\ \/ tmpc' = "clear1" /\ tmreq' = tmreq /\ async[tmslot'].uid = tmreq
             \/ tmpc' = "call" /\ tmreq' = tmreq
             \/ tmpc' = "idle"
      BY <1>5 DEF TimerFind, FirstAsync
    <2>2. Armed'
      BY <1>1, <1>2, <2>1, ArmedLess
    <2> QED
      BY <2>1, <2>2, HomeTimerMoves
  <1>6. CASE TimerCall
    <2>1. tmpc = "call" /\ tmpc' = "idle" /\ UNCHANGED <<async, timers, freed>>
      BY <1>6 DEF TimerCall
    <2>2. Armed'
      BY <1>1, <1>2, <2>1, ArmedLess
    <2> QED
      BY <2>1, <2>2, HomeTimerMoves
  <1>7. CASE TimerClear
    <2>1. tmpc \in {"clear1", "clear2", "clear3"} /\ tmreq' = tmreq
      BY <1>7 DEF TimerClear
    <2>2. /\ tmreq \in Uids /\ tmreq # 0 /\ tmreq # txreq /\ tmreq # rxmsg
          /\ tmreq \notin timers
      BY <1>1, <1>3, <2>1 DEF Armed, Running
    <2>3. CASE tmpc \in {"clear1", "clear2"}
      <3>1. async[tmslot].uid = tmreq
        BY <1>1, <2>3, SlotFacts
      <3>2. /\ txpc \in Sending \cup Failing => txreq # tmreq
            /\ \A r \in Ahead : ~At(r, tmreq)
            /\ tmreq \in has_cb
        BY <1>3, <2>2, <3>1, NotAtTx
      <3>3. CASE tmpc = "clear1"
        <4>1. ClearStopFree(tmslot) /\ tmpc' = "clear2" /\ UNCHANGED tmslot
          BY <1>7, <2>2, <3>1, <3>3 DEF TimerClear
        <4>2. freed[tmreq] = 0
          <5>1. ~Past(tmreq)
            BY <1>3, <2>2, <3>1, <3>3 DEF Past
          <5> QED
            BY <1>1, <2>2, <3>2, <5>1 DEF SpentAsync
        <4> QED
          BY <1>2, <1>3, <2>1, <2>2, <3>1, <3>2, <3>3, <4>1, <4>2, HomeStopFree
      <3>4. CASE tmpc = "clear2"
        <4>1. ClearUid(tmslot) /\ tmpc' = "clear3" /\ UNCHANGED <<tmslot, timers, freed>>
          BY <1>7, <3>4 DEF TimerClear
        <4> QED
          BY <1>2, <1>3, <2>1, <2>2, <3>1, <3>2, <3>4, <4>1, HomeClearUid
      <3> QED
        BY <2>3, <3>3, <3>4
    <2>4. CASE tmpc = "clear3"
      <3>1. ClearCb(tmslot) /\ tmpc' = "call" /\ UNCHANGED <<timers, freed>>
        BY <1>7, <2>4 DEF TimerClear
      <3>2. \A i \in ASlots : async'[i].uid = async[i].uid /\ async'[i].req = async[i].req
        BY <3>1 DEF ClearCb, TypeOK, AsyncTypeOK, AsyncSlot
      <3>3. Armed'
        BY <1>1, <1>2, <2>1, <2>4, <3>1, ArmedLess
      <3> QED
        BY <2>4, <3>1, <3>2, <3>3, HomeTimerMoves
    <2> QED
      BY <2>1, <2>3, <2>4
  <1> QED
    BY <1>4, <1>5, <1>6, <1>7 DEF TimerTask

\* The co-processor and the link answer a request, or lose it, and it stays sent.
LEMMA HomeSlave ==
    ASSUME TypeOK, Home, Slave
    PROVE  Home'
  <1>1. InHand /\ Once /\ OnePlace /\ Slots /\ Armed
    BY DEF Home, Placed
  <1>2. UNCHANGED <<calls, has_cb, creq, cpc, txpc, txreq, txslot, rxpc, rxmsg, rxslot, tmpc,
                    tmreq, tmslot, rpc_tx_q, failed, lib, async, timers, freed>>
    BY DEF Slave, SlaveAnswer, SlaveLose, SlaveEvent
  <1>3. \E u \in Uid0, p \in {"none", "up"}, q \in {"none", "down", "lost"} :
          /\ Step(u, p, q) /\ (u \in Uids => At(p, u) /\ p = "up")
          /\ Once' /\ InHand'
    <2>1. CASE SlaveEvent
      <3>1. Step(0, "none", "none") /\ NoDup(net_down')
        BY <1>1, <2>1, EventMoves
      <3>2. UNCHANGED <<net_up, lost>>
        BY <2>1 DEF SlaveEvent
      <3>3. Once' /\ InHand'
        BY <1>1, <1>2, <3>1, <3>2 DEF Once, InHand
      <3> QED
        BY <3>1, <3>2, <3>3, IndexFacts
    <2>2. CASE SlaveAnswer \/ SlaveLose
      <3> DEFINE u == Head(net_up)
      <3>1. /\ u \in Uids /\ At("up", u) /\ NoDup(net_up') /\ ~In(0, net_up')
            /\ SlaveAnswer => Step(u, "up", "down")
            /\ SlaveLose => Step(u, "up", "lost")
        BY <1>1, <2>2, SlaveMoves
      <3> HIDE DEF u
      <3>2. CASE SlaveAnswer
        <4>1. net_down' = Append(net_down, u) /\ lost' = lost /\ net_down \in Seq(Uid0)
          BY <3>2 DEF SlaveAnswer, u, TypeOK, NetTypeOK
        <4>2. ~At("down", u)
          BY <1>1, <3>1 DEF OnePlace, Places
        <4>3. ~In(u, net_down) /\ u \in Uid0
          BY <3>1, <4>2, IndexFacts DEF At
        <4>4. NoDup(net_down')
          BY <1>1, <4>1, <4>3, InAppend DEF Once
        <4>5. Once' /\ InHand'
          BY <1>1, <1>2, <3>1, <4>4 DEF Once, InHand
        <4> QED
          BY <3>1, <3>2, <4>1, <4>3, <4>5
      <3>3. CASE SlaveLose
        <4>1. net_down' = net_down /\ lost' = lost \cup {u}
          BY <3>3 DEF SlaveLose, u
        <4>2. Once' /\ InHand' /\ u \in Uid0
          BY <1>1, <1>2, <3>1, <4>1, IndexFacts DEF Once, InHand
        <4> QED
          BY <3>1, <3>3, <4>1, <4>2
      <3> QED
        BY <2>2, <3>2, <3>3
    <2> QED
      BY <2>1, <2>2 DEF Slave
  <1>4. PICK u \in Uid0, p \in {"none", "up"}, q \in {"none", "down", "lost"} :
          /\ Step(u, p, q) /\ (u \in Uids => At(p, u) /\ p = "up")
          /\ Once' /\ InHand'
    BY <1>3
  <1>5. "up" \in Places /\ {"none", "down", "lost"} \cap (Unsent \cup Ahead) = {}
    BY DEF Places, Ahead, Unsent
  <1>6. \A v \in Uids : Past(v) /\ (\A r \in Ahead : ~At(r, v)) => Past(v)'
    BY <1>2 DEF Past
  <1>7. Placed' /\ SpentOnce' /\ SpentSync' /\ SpentAsync'
    BY <1>2, <1>4, <1>5, <1>6, ThreadMoves
  <1>8. Armed'
    BY <1>1, <1>2, <1>4, ArmedStep DEF TypeOK, CallerTypeOK
  <1>9. Slots'
    BY <1>1, <1>2, <1>4, <1>5, SlotFacts, SlotsFewer
  <1> QED
    BY <1>7, <1>8, <1>9 DEF Home

\* Starting and stopping move nothing, and without rpc_core_deinit there is no second
\* rpc_core_init.
LEMMA HomeStutter ==
    ASSUME Home,
           UNCHANGED <<calls, has_cb, creq, cpc, txpc, txreq, txslot, rxpc, rxmsg, rxslot, tmpc,
                       tmreq, tmslot, rpc_tx_q, net_up, net_down, lost, failed, async, timers,
                       freed>>,
           lib' # "inactive"
    PROVE  Home'
  <1>1. Step(0, "none", "none") /\ 0 \notin Uids
    BY StillKept, IndexFacts
  <1>2. \A v \in Uids : Past(v) /\ (\A r \in Ahead : ~At(r, v)) => Past(v)'
    BY DEF Past
  <1>3. Once' /\ InHand'
    BY DEF Home, Placed, Once, InHand
  <1>4. Placed' /\ SpentOnce' /\ SpentSync' /\ SpentAsync'
    BY <1>1, <1>2, <1>3, ThreadMoves
  <1>5. Armed'
    BY DEF Home, Armed, Running, At
  <1>6. Slots'
    BY <1>1, SlotFacts, SlotsFewer DEF Home
  <1> QED
    BY <1>4, <1>5, <1>6 DEF Home

\* Requests are where they belong from the start.
LEMMA HomeInit == ASSUME Init PROVE Home
  <1>1. /\ lib = "init" /\ has_cb = {} /\ cpc = [c \in Callers |-> "idle"]
        /\ creq = [c \in Callers |-> 0] /\ freed = [u \in Uid0 |-> 0] /\ timers = {}
        /\ rpc_tx_q = <<>> /\ net_up = <<>> /\ net_down = <<>> /\ txpc = "poll" /\ txreq = 0
        /\ rxpc = "poll" /\ rxmsg = 0 /\ tmpc = "idle" /\ lost = {} /\ failed = {}
        /\ async = [i \in ASlots |-> [uid |-> 0, cb |-> FALSE, timer |-> 0, req |-> 0]]
    BY DEF Init
  <1>2. \A u : ~In(u, <<>>) /\ NoDup(<<>>)
    BY DEF In, NoDup
  <1>3. \A u \in Uids : \A p \in Places : ~At(p, u)
    BY <1>1, <1>2, IndexFacts DEF At, Places, Sending
  <1>4. OnePlace /\ Known
    BY <1>3 DEF OnePlace, Known
  <1>5. Once /\ Kinds /\ InHand
    BY <1>1, <1>2 DEF Once, Kinds, InHand, Sending, Failing
  <1>6. Armed /\ Slots
    BY <1>1, IndexFacts DEF Armed, Running, Slots
  <1>7. SpentOnce /\ SpentSync /\ SpentAsync
    BY <1>1, IndexFacts DEF SpentOnce, SpentSync, SpentAsync, Callers
  <1> QED
    BY <1>4, <1>5, <1>6, <1>7 DEF Home, Placed

\* Every step keeps them there.
LEMMA HomeNext ==
    ASSUME Punctual, TypeOK, TypeOK', Numbered, AsyncBrief, Home, [Next]_vars
    PROVE  Home'
  <1>1. CASE rpc_core_start \/ rpc_core_stop \/ UNCHANGED vars
    <2>1. lib' # "inactive"
      BY <1>1 DEF rpc_core_start, rpc_core_stop, vars, Home, Placed, InHand
    <2> QED
      BY <1>1, <2>1, HomeStutter DEF rpc_core_start, rpc_core_stop, vars
  <1>2. ~rpc_core_deinit
    BY DEF rpc_core_deinit, Punctual
  <1>3. ~rpc_core_init
    BY DEF rpc_core_init, Home, Placed, InHand
  <1> QED
    BY <1>1, <1>2, <1>3, HomeCaller, HomeTx, HomeRx, HomeTimer, HomeSlave DEF Next, Idle

\* So they are there for ever.
LEMMA HomeHolds ==
    ASSUME Punctual
    PROVE  Spec => [](AsyncBrief /\ Home)
  <1>1. Init => AsyncBrief /\ Home
    BY HomeInit DEF Init, AsyncBrief
  <1>2. TypeOK /\ TypeOK' /\ Numbered /\ AsyncBrief /\ Home /\ [Next]_vars
          => AsyncBrief' /\ Home'
    <2> SUFFICES ASSUME TypeOK, TypeOK', Numbered, AsyncBrief, Home, [Next]_vars
                 PROVE  AsyncBrief' /\ Home'
      OBVIOUS
    <2>1. AsyncBrief'
      <3>1. CASE cpc' = cpc
        BY <3>1 DEF AsyncBrief
      <3>2. CASE UNCHANGED vars
        BY <3>1, <3>2 DEF vars
      <3> QED
        BY <3>1, <3>2, AsyncBriefKept, CallersAlone DEF Next, Idle, Lifecycle
    <2> QED
      BY <2>1, HomeNext
  <1>3. Spec => []Numbered
    BY NumberedHolds DEF Punctual
  <1> QED
    BY <1>1, <1>2, <1>3, TypeCorrect, PTL DEF Spec

\* No request is freed twice: with sends that succeed and timers that keep apart from
\* the other work on their request, whatever the number of callers, however early the
\* timeouts and late the answers, whatever the interleaving of the tx thread, the rx
\* thread and the timer task on async_rsp_table, with a full table or missing memory,
\* rpc_core frees a request once at most.
THEOREM FreedOnlyOnce ==
    ASSUME Punctual
    PROVE  Spec => []FreedOnce
  <1>1. AsyncBrief /\ Home => FreedOnce
    BY DEF Home, SpentOnce, FreedOnce
  <1> QED
    BY <1>1, HomeHolds, PTL
-----------------------------------------------------------------------------
(* Which requests are still alive when nobody waits for them yet.          *)

\* The calls of the asynchronous callers, made and planned.
AsyncMade    == {p \in Made : p[1] \in AsyncCallers}
AsyncPlanned == {p \in Planned : p[1] \in AsyncCallers}

\* Punctual, with a slot of async_rsp_table for every asynchronous request.
Orderly == Punctual /\ Cardinality(AsyncPlanned) <= MaxAsync

\* One request with a callback per asynchronous call.
Room == IsFiniteSet(has_cb) /\ Cardinality(has_cb) = Cardinality(AsyncMade)

NoneFails == failed = {} /\ txpc \notin Failing

\* A freed request has no timer, because the slot that is cleared knows it, and the
\* timeout handler does not start with one.
TimerGone ==
    \A u \in Uids : u \in has_cb /\ freed[u] # 0 =>
        u \notin timers /\ ~(tmpc = "find" /\ tmreq = u)
SlotTimer ==
    \A i \in ASlots : \A u \in Uids : async[i].uid = u =>
        \/ txpc = "setcb" /\ txslot = i
        \/ rxpc = "clear2" /\ rxslot = i
        \/ tmpc = "clear2" /\ tmslot = i
        \/ async[i].timer = u

Neat == Room /\ NoneFails /\ TimerGone /\ SlotTimer

\* The asynchronous calls can be counted.
LEMMA AsyncMadeFinite ==
    ASSUME TypeOK, Numbered
    PROVE  /\ IsFiniteSet(AsyncMade) /\ Cardinality(AsyncMade) \in Nat
           /\ Cardinality(AsyncMade) <= Cardinality(AsyncPlanned)
           /\ Cardinality(AsyncPlanned) \in Nat
  <1>1. IsFiniteSet(Made) /\ Made \subseteq Planned
    BY MadeFinite DEF Numbered
  <1>2. AsyncMade \subseteq Made /\ AsyncMade \subseteq AsyncPlanned
    BY <1>1 DEF AsyncMade, AsyncPlanned
  <1>3. IsFiniteSet(AsyncPlanned)
    <2>1. AsyncPlanned \subseteq Planned
      BY DEF AsyncPlanned
    <2> QED
      BY <2>1, PlannedFinite, FS_Subset
  <1> QED
    BY <1>1, <1>2, <1>3, FS_Subset, FS_CardinalityType

\* A request that looks for a slot finds one: the others hold fewer than there are.
LEMMA SlotFree ==
    ASSUME Orderly, TypeOK, Numbered, Home, Room, txpc = "setuid"
    PROVE  InAsync(0)
  <1> SUFFICES ASSUME ~InAsync(0) PROVE FALSE
    OBVIOUS
  <1> DEFINE T == has_cb \ {txreq}
             f == [i \in ASlots |-> async[i].uid]
  <1>1. txreq \in has_cb /\ At("tx", txreq) /\ txreq \in Uids
    BY TxHas DEF Home, Placed, InHand, Sending
  <1>2. async \in [ASlots -> AsyncSlot] /\ \A i \in ASlots : async[i].uid \in Uids
    BY IndexFacts DEF InAsync, TypeOK, AsyncTypeOK, AsyncSlot
  <1>3. \A i \in ASlots : async[i].uid \in T
    BY <1>1, <1>2 DEF Home, Slots
  <1>4. \A i, j \in ASlots : async[i].uid = async[j].uid => i = j
    BY <1>2 DEF Home, Slots
  <1>5. f \in Injection(ASlots, T)
    BY <1>3, <1>4 DEF Injection, IsInjective
  <1>6. IsFiniteSet(T) /\ Cardinality(T) = Cardinality(has_cb) - 1 /\ Cardinality(has_cb) \in Nat
    BY <1>1, FS_RemoveElement, FS_CardinalityType DEF Room
  <1> HIDE DEF T, f
  <1>7. Cardinality(ASlots) <= Cardinality(T)
    BY <1>5, <1>6, FS_Injection
  <1>8. Cardinality(ASlots) = MaxAsync
    <2>1. 1 \in Int /\ MaxAsync \in Int /\ MaxAsync > 0
      BY SizesAssumption
    <2>2. Cardinality(1 .. MaxAsync) = IF 1 > MaxAsync THEN 0 ELSE MaxAsync - 1 + 1
      BY <2>1, FS_Interval
    <2> QED
      BY <2>1, <2>2 DEF ASlots
  <1>9. Cardinality(has_cb) <= Cardinality(AsyncPlanned)
    BY AsyncMadeFinite DEF Room
  <1>10. Cardinality(AsyncPlanned) <= MaxAsync /\ MaxAsync \in Nat
    BY SizesAssumption DEF Orderly
  <1> QED
    BY <1>6, <1>7, <1>8, <1>9, <1>10, AsyncMadeFinite

\* A call counts, and gets its callback, when it is numbered.
LEMMA RoomAssign ==
    ASSUME Punctual, TypeOK, TypeOK', Numbered, Home, Room, NEW c \in Callers, AssignUid(c)
    PROVE  Room'
  <1>1. uid' \in Uids /\ uid' \notin Yielded /\ has_cb \subseteq Yielded
    BY YieldedStep DEF Punctual, Home, Placed, Kinds
  <1>2. calls \in [Callers -> Nat] /\ calls' = [calls EXCEPT ![c] = @ + 1]
    BY DEF AssignUid, TypeOK, CallerTypeOK
  <1>3. CASE c \in SyncCallers
    <2>1. has_cb' = has_cb
      BY <1>3 DEF AssignUid
    <2>2. AsyncMade' = AsyncMade
      BY <1>2, <1>3, CallersAssumption DEF AsyncMade, Made
    <2> QED
      BY <2>1, <2>2 DEF Room
  <1>4. CASE c \notin SyncCallers
    <2> DEFINE x == <<c, calls[c] + 1>>
    <2>1. has_cb' = has_cb \cup {uid'}
      BY <1>4 DEF AssignUid
    <2>2. x \notin AsyncMade /\ AsyncMade' = AsyncMade \cup {x}
      <3>1. c \in AsyncCallers
        BY <1>4 DEF Callers
      <3> QED
        BY <1>2, <3>1 DEF AsyncMade, Made
    <2> HIDE DEF x
    <2>3. Cardinality(has_cb') = Cardinality(has_cb) + 1 /\ IsFiniteSet(has_cb')
      BY <1>1, <2>1, FS_AddElement DEF Room
    <2>4. Cardinality(AsyncMade') = Cardinality(AsyncMade) + 1
      BY <2>2, AsyncMadeFinite, FS_AddElement
    <2> QED
      BY <2>3, <2>4 DEF Room
  <1> QED
    BY <1>3, <1>4

LEMMA RoomKept == ASSUME Room, UNCHANGED <<calls, has_cb>> PROVE Room'
  BY DEF Room, AsyncMade, Made

\* A caller frees no request with a callback.
LEMMA CallerFrees ==
    ASSUME Punctual, TypeOK, TypeOK', Numbered, AsyncBrief, Home, NEW c \in Callers, Caller(c),
           NEW v \in Uids, v \in has_cb', freed'[v] # 0
    PROVE  v \in has_cb /\ freed[v] # 0
  <1>1. SpentOnce /\ Kinds
    BY DEF Home, Placed
  <1>2. CASE AssignUid(c)
    <2>1. uid' \in Uids /\ uid' \notin Yielded /\ freed' = freed /\ has_cb' \subseteq has_cb \cup {uid'}
      BY <1>2, YieldedStep DEF Punctual, AssignUid
    <2> QED
      BY <1>1, <2>1 DEF SpentOnce
  <1>3. CASE ~AssignUid(c)
    <2>1. has_cb' = has_cb
      BY <1>1, <1>3, KindsGoesOn
    <2>2. CASE freed' = freed
      BY <2>1, <2>2
    <2>3. CASE freed' # freed
      <3>1. Free(creq[c]) /\ cpc[c] \in {"scan", "free"}
        BY <1>3, <2>3 DEF Caller, ScanSyncTable, SetSyncUid, SetSyncSem, EnqueueReq, TxInd,
             LookupSyncSlot, TakeSyncSem, DeleteSyncSem, ClearSyncUid, ClearSyncSem,
             DequeueResp, FreeReq
      <3>2. c \in SyncCallers /\ creq[c] # 0 /\ creq[c] \in Uid0
        BY <3>1 DEF AsyncBrief, Numbered, TypeOK, CallerTypeOK
      <3>3. creq[c] # v
        BY <1>1, <2>1, <3>2 DEF Kinds
      <3>4. freed'[v] = freed[v]
        BY <3>1, <3>2, <3>3 DEF Free, TypeOK, FateTypeOK
      <3> QED
        BY <2>1, <3>4
    <2> QED
      BY <2>2, <2>3
  <1> QED
    BY <1>2, <1>3

\* A caller's step keeps the books.
LEMMA NeatCaller ==
    ASSUME Punctual, TypeOK, TypeOK', Numbered, AsyncBrief, Home, Neat, NEW c \in Callers,
           Caller(c)
    PROVE  Neat'
  <1>1. UNCHANGED <<async, timers, txreq, txpc, txslot, rxpc, rxmsg, rxslot, tmpc, tmreq,
                    tmslot, failed>>
    BY CallerOff
  <1>2. Room'
    <2>1. CASE AssignUid(c)
      BY <2>1, RoomAssign DEF Neat
    <2>2. CASE ~AssignUid(c)
      BY <2>2, CallerGoesOn, RoomKept DEF Neat
    <2> QED
      BY <2>1, <2>2
  <1>3. TimerGone'
    BY <1>1, CallerFrees DEF Neat, TimerGone
  <1>4. NoneFails' /\ SlotTimer'
    BY <1>1 DEF Neat, NoneFails, SlotTimer
  <1> QED
    BY <1>2, <1>3, <1>4 DEF Neat

\* The tx thread fails no request, and writes the timer into the slot it takes.
LEMMA NeatTx ==
    ASSUME Orderly, TypeOK, Numbered, Home, Neat, TxThread
    PROVE  Neat'
  <1>1. /\ Room /\ NoneFails /\ TimerGone /\ SlotTimer /\ ~MayFail /\ InHand /\ Slots
        /\ SpentAsync
    BY NoSendFails DEF Neat, Home, Placed, Orderly, Punctual
  <1>2. UNCHANGED <<calls, has_cb, rxpc, rxmsg, rxslot, tmpc, tmreq, tmslot>>
    BY TxOff
  <1>3. async \in [ASlots -> AsyncSlot] /\ txslot \in ASlots /\ txreq \in Uid0
    BY DEF TypeOK, AsyncTypeOK, TxTypeOK
  <1>4. Room'
    BY <1>1, <1>2, RoomKept
  <1>5. CASE TxStartTimer
    <2>1. /\ timers' = timers \cup {txreq} /\ txpc = "timer" /\ txpc' = "setuid"
          /\ UNCHANGED <<async, freed, failed>>
      BY <1>1, <1>5 DEF TxStartTimer
    <2>2. At("tx", txreq) /\ txreq \in Uids /\ txreq \in has_cb
      BY <1>1, <2>1, TxHas DEF Sending, InHand
    <2>3. freed[txreq] = 0
      BY <1>1, <2>2 DEF SpentAsync, Ahead
    <2>4. TimerGone'
      BY <1>1, <1>2, <2>1, <2>3 DEF TimerGone
    <2>5. NoneFails' /\ SlotTimer'
      BY <1>1, <1>2, <2>1 DEF NoneFails, SlotTimer, Failing
    <2> QED
      BY <1>4, <2>4, <2>5 DEF Neat
  <1>6. CASE TxSetUid
    <2>1. txpc = "setuid" /\ UNCHANGED <<timers, freed>>
      BY <1>6 DEF TxSetUid
    <2>2. InAsync(0)
      BY <1>1, <2>1, SlotFree
    <2>3. PICK i \in ASlots : /\ async[i].uid = 0 /\ txslot' = i /\ txpc' = "setcb"
                              /\ async' = [async EXCEPT ![i].uid = txreq] /\ failed' = failed
      BY <1>6, <2>2 DEF TxSetUid, FirstAsync
    <2>4. \A j \in ASlots : j # i => async'[j] = async[j]
      BY <1>3, <2>3
    <2>5. SlotTimer'
      BY <1>1, <1>2, <2>1, <2>3, <2>4 DEF SlotTimer
    <2>6. NoneFails' /\ TimerGone'
      BY <1>1, <1>2, <2>1, <2>3 DEF NoneFails, TimerGone, Failing
    <2> QED
      BY <1>4, <2>5, <2>6 DEF Neat
  <1>7. CASE TxSetCb
    <2>1. /\ txpc = "setcb" /\ txpc' = "send" /\ UNCHANGED <<timers, freed, failed>>
          /\ async' = [async EXCEPT ![txslot] = [uid |-> @.uid, cb |-> TRUE, timer |-> txreq,
                                                 req |-> txreq]]
      BY <1>7 DEF TxSetCb
    <2>2. /\ \A j \in ASlots : j # txslot => async'[j] = async[j]
          /\ async'[txslot].uid = txreq /\ async'[txslot].timer = txreq
      BY <1>1, <1>3, <2>1, SlotFacts
    <2>3. SlotTimer'
      BY <1>1, <1>2, <2>1, <2>2 DEF SlotTimer
    <2>4. NoneFails' /\ TimerGone'
      BY <1>1, <1>2, <2>1 DEF NoneFails, TimerGone, Failing
    <2> QED
      BY <1>4, <2>3, <2>4 DEF Neat
  <1>8. CASE TxPoll \/ TxTake \/ TxRecv \/ TxCompose \/ TxSend \/ TxSent
    <2>1. /\ UNCHANGED <<async, timers, freed, failed>> /\ txpc # "setcb" /\ txpc' \notin Failing
      BY <1>1, <1>8 DEF TxPoll, TxTake, TxRecv, TxCompose, TxSend, TxSent, TxDone, Failing
    <2>2. NoneFails' /\ TimerGone' /\ SlotTimer'
      BY <1>1, <1>2, <2>1 DEF NoneFails, TimerGone, SlotTimer
    <2> QED
      BY <1>4, <2>2 DEF Neat
  <1>9. ~(TxFail \/ TxFailPost \/ TxFailGive \/ TxFailFree)
    BY <1>1 DEF NoneFails, Failing, TxFail, TxFailPost, TxFailGive, TxFailFree
  <1> QED
    BY <1>5, <1>6, <1>7, <1>8, <1>9 DEF TxThread

\* Clearing slot i for request w stops the timer of w.
LEMMA NeatStopFree ==
    ASSUME Home, TypeOK, Neat, NEW w \in Uids, NEW i \in ASlots, async[i].uid = w,
           ClearStopFree(i), freed[w] = 0,
           txpc \in Sending \cup Failing => txreq # w,
           \/ rxpc = "clear1" /\ rxpc' = "clear2" /\ rxslot = i /\ tmpc' = tmpc
                /\ (tmpc # "idle" => tmreq # w)
           \/ tmpc = "clear1" /\ tmpc' = "clear2" /\ tmslot = i /\ rxpc' = rxpc
                /\ w \notin timers,
           UNCHANGED <<calls, has_cb, txpc, txreq, txslot, tmreq, tmslot, rxslot, failed>>
    PROVE  Neat'
  <1>1. Room /\ NoneFails /\ TimerGone /\ SlotTimer /\ Slots
    BY DEF Neat, Home
  <1>2. async[i].req = w
    BY <1>1, SlotFacts DEF Slots, Sending
  <1>3. \A v \in Uids : v # w => freed'[v] = freed[v]
    BY <1>2, FreeOnce DEF ClearStopFree
  <1>4. /\ \A j \in ASlots : j # i => async'[j] = async[j]
        /\ timers' = timers \ {async[i].timer}
    BY DEF ClearStopFree, TypeOK, AsyncTypeOK
  <1>5. w \notin timers'
    <2>1. CASE rxpc = "clear1"
      <3>1. (txpc = "setcb" => txslot # i) /\ (tmpc = "clear2" => tmslot # i \/ w \notin timers)
        BY <1>1, SlotFacts DEF Sending
      <3> QED
        BY <1>1, <1>4, <2>1, <3>1 DEF SlotTimer
    <2>2. CASE rxpc # "clear1"
      BY <1>4, <2>2
    <2> QED
      BY <2>1, <2>2
  <1>6. TimerGone'
    BY <1>1, <1>3, <1>4, <1>5 DEF TimerGone
  <1>7. SlotTimer'
    BY <1>1, <1>4 DEF SlotTimer
  <1>8. Room' /\ NoneFails'
    BY <1>1, RoomKept DEF NoneFails
  <1> QED
    BY <1>6, <1>7, <1>8 DEF Neat

\* A step of the rx thread or the timer task that frees nothing.
LEMMA NeatMoves ==
    ASSUME Neat, UNCHANGED <<calls, has_cb, txpc, txslot, failed, freed>>,
           timers' \subseteq timers,
           tmpc' = "find" => tmreq' \in timers \/ UNCHANGED <<tmpc, tmreq>>,
           \A i \in ASlots : \A u \in Uids : async'[i].uid = u =>
               async[i].uid = u /\ async'[i].timer = async[i].timer,
           \/ UNCHANGED <<rxpc, rxslot>> \/ rxpc # "clear2"
           \/ async'[rxslot].uid \notin Uids,
           \/ UNCHANGED <<tmpc, tmslot>> \/ tmpc # "clear2"
           \/ async'[tmslot].uid \notin Uids
    PROVE  Neat'
  <1>1. Room /\ NoneFails /\ TimerGone /\ SlotTimer
    BY DEF Neat
  <1>2. SlotTimer'
    BY <1>1 DEF SlotTimer
  <1>3. TimerGone' /\ NoneFails' /\ Room'
    BY <1>1, RoomKept DEF TimerGone, NoneFails
  <1> QED
    BY <1>2, <1>3 DEF Neat

LEMMA NeatRx ==
    ASSUME TypeOK, Home, Neat, RxThread
    PROVE  Neat'
  <1>1. InHand /\ Slots /\ SpentAsync /\ Armed
    BY DEF Home, Placed
  <1>2. UNCHANGED <<calls, has_cb, txpc, txreq, txslot, tmpc, tmreq, tmslot, failed>>
    BY RxOff
  <1>3. rxslot \in ASlots /\ rxmsg \in Uid0 /\ async \in [ASlots -> AsyncSlot] /\ 0 \notin Uids
    BY IndexFacts DEF TypeOK, RxTypeOK, AsyncTypeOK
  <1>4. CASE RxPoll \/ RxRead \/ RxClassify \/ RxFind \/ RxCallback \/ RxPut \/ RxPost \/ RxGive
    <2>1. UNCHANGED <<async, timers, freed>> /\ rxpc # "clear2"
      BY <1>4 DEF RxPoll, RxRead, RxClassify, RxFind, RxCallback, RxPut, RxPost, RxGive
    <2> QED
      BY <1>2, <2>1, NeatMoves
  <1>5. CASE RxClear /\ rxpc = "clear1"
    <2>1. rxmsg \in Uids /\ async[rxslot].uid = rxmsg /\ async[rxslot].uid # 0
      BY <1>1, <1>3, <1>5, SlotFacts, IndexFacts DEF InHand
    <2>2. /\ ClearStopFree(rxslot) /\ rxpc' = "clear2" /\ UNCHANGED rxslot
      BY <1>5, <2>1 DEF RxClear
    <2>3. /\ txpc \in Sending \cup Failing => txreq # rxmsg
          /\ rxmsg \in has_cb
      BY <1>3, <2>1, NotAtTx
    <2>4. tmpc # "idle" => tmreq # rxmsg
      BY <1>1 DEF Armed
    <2>5. freed[rxmsg] = 0
      <3>1. ~Past(rxmsg)
        BY <1>3, <1>5, <2>1, <2>4 DEF Past
      <3> QED
        BY <1>1, <2>1, <2>3, <3>1 DEF SpentAsync
    <2> QED
      BY <1>2, <1>3, <1>5, <2>1, <2>2, <2>3, <2>4, <2>5, NeatStopFree
  <1>6. CASE RxClear /\ rxpc = "clear2"
    <2>1. ClearUid(rxslot) /\ UNCHANGED <<timers, freed>>
      BY <1>6 DEF RxClear
    <2>2. /\ \A j \in ASlots : j # rxslot => async'[j] = async[j]
          /\ async'[rxslot].uid = 0
      BY <1>3, <2>1 DEF ClearUid, AsyncSlot
    <2> QED
      BY <1>2, <1>3, <2>1, <2>2, NeatMoves
  <1>7. CASE RxClear /\ rxpc = "clear3"
    <2>1. ClearCb(rxslot) /\ UNCHANGED <<timers, freed>>
      BY <1>7 DEF RxClear
    <2>2. \A j \in ASlots : async'[j].uid = async[j].uid /\ async'[j].timer = async[j].timer
      BY <1>3, <2>1 DEF ClearCb, AsyncSlot
    <2> QED
      BY <1>2, <1>7, <2>1, <2>2, NeatMoves
  <1> QED
    BY <1>4, <1>5, <1>6, <1>7 DEF RxThread, RxClear

LEMMA NeatTimer ==
    ASSUME TypeOK, Home, Neat, TimerTask
    PROVE  Neat'
  <1>1. InHand /\ Slots /\ SpentAsync /\ Armed
    BY DEF Home, Placed
  <1>2. UNCHANGED <<calls, has_cb, txpc, txreq, txslot, rxpc, rxmsg, rxslot, failed, lost>>
    BY DEF TimerTask, TimerExpire, TimerFind, TimerClear, TimerCall
  <1>3. /\ tmslot \in ASlots /\ async \in [ASlots -> AsyncSlot] /\ 0 \notin Uids
        /\ has_cb \subseteq Uids
    BY IndexFacts DEF TypeOK, TimerTypeOK, AsyncTypeOK, CallerTypeOK
  <1>4. CASE (\E u \in Uid0 : TimerExpire(u)) \/ TimerFind \/ TimerCall
    <2>1. /\ UNCHANGED <<async, freed>> /\ timers' \subseteq timers /\ tmpc # "clear2"
          /\ tmpc' = "find" => tmreq' \in timers \/ UNCHANGED <<tmpc, tmreq>>
      BY <1>4 DEF TimerExpire, TimerFind, TimerCall
    <2> QED
      BY <1>2, <2>1, NeatMoves
  <1>5. CASE TimerClear /\ tmpc = "clear1"
    <2>1. /\ tmreq \in Uids /\ async[tmslot].uid = tmreq /\ async[tmslot].uid # 0
          /\ tmreq # txreq /\ tmreq # rxmsg /\ tmreq \notin timers
      BY <1>1, <1>3, <1>5, SlotFacts, IndexFacts DEF Armed, Running
    <2>2. /\ ClearStopFree(tmslot) /\ tmpc' = "clear2" /\ UNCHANGED <<tmreq, tmslot>>
      BY <1>5, <2>1 DEF TimerClear
    <2>3. /\ txpc \in Sending \cup Failing => txreq # tmreq
          /\ tmreq \in has_cb
      BY <1>3, <2>1, NotAtTx
    <2>4. freed[tmreq] = 0
      <3>1. ~Past(tmreq)
        BY <1>3, <1>5, <2>1 DEF Past
      <3> QED
        BY <1>1, <2>1, <2>3, <3>1 DEF SpentAsync
    <2> QED
      BY <1>2, <1>3, <1>5, <2>1, <2>2, <2>3, <2>4, NeatStopFree
  <1>6. CASE TimerClear /\ tmpc = "clear2"
    <2>1. ClearUid(tmslot) /\ UNCHANGED <<timers, freed>> /\ tmpc' = "clear3"
      BY <1>6 DEF TimerClear
    <2>2. /\ \A j \in ASlots : j # tmslot => async'[j] = async[j]
          /\ async'[tmslot].uid = 0
      BY <1>3, <2>1 DEF ClearUid, AsyncSlot
    <2> QED
      BY <1>2, <1>3, <2>1, <2>2, NeatMoves
  <1>7. CASE TimerClear /\ tmpc = "clear3"
    <2>1. ClearCb(tmslot) /\ UNCHANGED <<timers, freed>> /\ tmpc' = "call"
      BY <1>7 DEF TimerClear
    <2>2. \A j \in ASlots : async'[j].uid = async[j].uid /\ async'[j].timer = async[j].timer
      BY <1>3, <2>1 DEF ClearCb, AsyncSlot
    <2> QED
      BY <1>2, <1>7, <2>1, <2>2, NeatMoves
  <1> QED
    BY <1>4, <1>5, <1>6, <1>7 DEF TimerTask, TimerClear

\* The link and the lifecycle free nothing.
LEMMA NeatRest ==
    ASSUME Neat, Slave \/ rpc_core_start \/ rpc_core_stop \/ UNCHANGED vars
    PROVE  Neat'
  <1>1. /\ UNCHANGED <<calls, has_cb, txpc, txslot, failed, freed, timers, async, rxpc, rxslot,
                       tmpc, tmreq, tmslot>>
    BY DEF Slave, SlaveAnswer, SlaveLose, SlaveEvent, rpc_core_start, rpc_core_stop, vars
  <1> QED
    BY <1>1, NeatMoves

LEMMA NeatInit == ASSUME Init PROVE Neat
  <1>1. /\ has_cb = {} /\ calls = [c \in Callers |-> 0]
        /\ timers = {} /\ failed = {} /\ txpc = "poll"
        /\ async = [i \in ASlots |-> [uid |-> 0, cb |-> FALSE, timer |-> 0, req |-> 0]]
    BY DEF Init
  <1>2. Room
    <2>1. AsyncMade = {}
      BY <1>1 DEF AsyncMade, Made
    <2> QED
      BY <1>1, <2>1, FS_EmptySet DEF Room
  <1>3. NoneFails /\ TimerGone /\ SlotTimer
    BY <1>1, IndexFacts DEF NoneFails, Failing, TimerGone, SlotTimer
  <1> QED
    BY <1>2, <1>3 DEF Neat

\* What holds in orderly use.
LEMMA OrderlyHolds ==
    ASSUME Orderly
    PROVE  Spec => [](TypeOK /\ Numbered /\ AsyncBrief /\ Home /\ Neat)
  <1>1. Init => Neat
    BY NeatInit
  <1>2. TypeOK /\ TypeOK' /\ Numbered /\ AsyncBrief /\ Home /\ Neat /\ [Next]_vars => Neat'
    <2> SUFFICES ASSUME TypeOK, TypeOK', Numbered, AsyncBrief, Home, Neat, [Next]_vars
                 PROVE  Neat'
      OBVIOUS
    <2>1. Punctual
      BY DEF Orderly
    <2>2. CASE \E c \in Callers : Caller(c)
      BY <2>1, <2>2, NeatCaller
    <2>3. CASE TxThread
      BY <2>1, <2>3, NeatTx
    <2>4. CASE RxThread
      BY <2>1, <2>4, NeatRx
    <2>5. CASE TimerTask
      BY <2>5, NeatTimer
    <2>6. CASE Slave \/ rpc_core_start \/ rpc_core_stop \/ UNCHANGED vars
      BY <2>6, NeatRest
    <2>7. ~rpc_core_deinit /\ ~rpc_core_init
      BY <2>1 DEF rpc_core_deinit, rpc_core_init, Punctual, Home, Placed, InHand
    <2> QED
      BY <2>2, <2>3, <2>4, <2>5, <2>6, <2>7 DEF Next, Idle
  <1>3. Spec => []Numbered
    BY NumberedHolds DEF Orderly, Punctual
  <1>4. Spec => [](AsyncBrief /\ Home)
    BY HomeHolds DEF Orderly
  <1> QED
    BY <1>1, <1>2, <1>3, <1>4, TypeCorrect, PTL DEF Spec

\* While every asynchronous request finds a slot, none is freed as long as it is queued,
\* its timer is armed or the timeout handler is about to read it: it is freed by the
\* thread that clears its slot, which stops its timer, however early that timer or late
\* the answer.
THEOREM PendingIsAlive ==
    ASSUME Orderly
    PROVE  Spec => []AsyncPendingNotFreed
  <1>1. TypeOK /\ Home /\ Neat => AsyncPendingNotFreed
    <2> SUFFICES ASSUME TypeOK, Home, Neat, NEW u \in Pending, u \in has_cb PROVE freed[u] = 0
      BY DEF AsyncPendingNotFreed
    <2>1. u \in Uids
      BY DEF TypeOK, CallerTypeOK
    <2>2. CASE \E k \in DOMAIN rpc_tx_q : rpc_tx_q[k] = u
      <3>1. In(u, rpc_tx_q)
        BY <2>2 DEF In, TypeOK, TxTypeOK
      <3>2. At("queue", u) /\ "queue" \in Ahead
        BY <3>1 DEF At, Ahead
      <3> QED
        BY <2>1, <3>2 DEF Home, SpentAsync
    <2>3. CASE u \in timers \/ (tmpc = "find" /\ u = tmreq)
      BY <2>1, <2>3 DEF Neat, TimerGone
    <2> QED
      BY <2>2, <2>3 DEF Pending
  <1> QED
    BY <1>1, OrderlyHolds, PTL
=============================================================================
