------------------------- MODULE SerialUplinkProofs -------------------------
(***************************************************************************)
(* What holds of SerialUplink for every number of transmitting threads and *)
(* every size of queue, fragment, request and buffer.  Whatever is lost or *)
(* torn: the types, that r.data is not overrun, that a taken semaphore     *)
(* finds a packet, that r is handed over and never shared, and that no     *)
(* queued fragment points into a freed buffer.  When nothing disturbs      *)
(* them: that requests arrive whole, once and in order, and that all of    *)
(* them have arrived when every task waits.                                *)
(***************************************************************************)
EXTENDS SerialUplink, SequenceTheorems, FiniteSetTheorems, TLAPS

USE DEF hostVars, queueVars, writeVars, uartVars, rxqVars, recvVars, rVars, psVars,
        offHost, offWrite, offUart, offRecv, offSerial

\* While serial_ll_write is in its loop, its offset lies inside the last request,
\* and the packet it transmits is the fragment at that offset.
WriterInv ==
    tpc[Writer] # "idle" =>
        /\ sent # <<>> /\ woff < Len(sent[Len(sent)])
        /\ tpc[Writer] \in {"put", "give"} => tpkt[Writer] = Fragment(Len(sent), woff)

\* Only the writer's packets have more fragments behind them.
OthersInv == \A t \in Threads : t # Writer => ~tpkt[t].more

\* The room computed for a fragment is still there when it is copied.
RoomInv ==
    /\ Len(r_data) <= BufSize
    /\ rcpc = "serial" => Len(r_data) + rem_buff_size <= BufSize

\* The inductive invariant behind the type invariant and NoOverrun.
LinkInv == TypeOK /\ WriterInv /\ OthersInv /\ RoomInv
-----------------------------------------------------------------------------
(* The operators the model is built from.                                  *)

\* A request has as many bytes as it was given.
LEMMA BytesType ==
  ASSUME NEW m \in Nat, NEW len \in Nat
  PROVE  Bytes(m, len) \in Seq(Byte) /\ Len(Bytes(m, len)) = len
  BY DEF Bytes, Byte

\* A stretch of a sequence that lies inside it.
LEMMA SubSeqType ==
  ASSUME NEW S, NEW s \in Seq(S), NEW a \in Nat, NEW b \in Nat, a + b <= Len(s)
  PROVE  SubSeq(s, a + 1, a + b) \in Seq(S) /\ Len(SubSeq(s, a + 1, a + b)) = b
  <1>1. \A i \in (a + 1) .. (a + b) : s[i] \in S
    BY LenProperties
  <1>2. a + 1 \in Int /\ a + b \in Int
    OBVIOUS
  <1>3. /\ SubSeq(s, a + 1, a + b) \in Seq(S)
        /\ Len(SubSeq(s, a + 1, a + b))
             = IF a + 1 <= a + b THEN (a + b) - (a + 1) + 1 ELSE 0
    BY <1>1, <1>2, SubSeqProperties
  <1> QED
    BY <1>3

\* A record of the right fields is a packet.
LEMMA PacketOfFields ==
  ASSUME NEW p \in Prio, NEW b \in Seq(Byte), NEW m \in BOOLEAN, NEW x \in Nat, NEW f \in Nat
  PROVE  [prio |-> p, bytes |-> b, more |-> m, buf |-> x, free |-> f] \in Packet
  BY DEF Packet

\* A fragment at an offset inside its request is a packet, and ends inside the
\* request if more fragments follow.
LEMMA FragmentType ==
  ASSUME NEW m \in Nat, NEW off \in Nat, sent[m] \in Seq(Byte), off < Len(sent[m])
  PROVE  /\ Fragment(m, off) \in Packet
         /\ Fragment(m, off).prio = 1
         /\ Fragment(m, off).more => off + Len(Fragment(m, off).bytes) < Len(sent[m])
  <1> DEFINE left  == Len(sent[m]) - off
             n     == Min2(left, FragMax)
             bytes == SubSeq(sent[m], off + 1, off + n)
             free  == IF left > FragMax THEN 0 ELSE m
  <1>1. Len(sent[m]) \in Nat
    BY LenProperties
  <1>2. left \in Nat /\ n \in Nat /\ off + n <= Len(sent[m]) /\ n <= FragMax /\ FragMax \in Nat
    BY <1>1, LinkAssumption DEF Min2
  <1>3. bytes \in Seq(Byte) /\ Len(bytes) = n
    <2> HIDE DEF n
    <2> QED
      BY <1>2, SubSeqType
  <1>4. Fragment(m, off) = [prio |-> 1, bytes |-> bytes, more |-> left > FragMax, buf |-> m,
                            free |-> free]
    BY DEF Fragment
  <1>5. free \in Nat /\ (left > FragMax) \in BOOLEAN
    BY <1>2
  <1>6. left > FragMax => off + Len(bytes) < Len(sent[m])
    BY <1>1, <1>2, <1>3
  <1> HIDE DEF bytes, free, left, n
  <1>7. Fragment(m, off) \in Packet
    <2>1. 1 \in Prio
      BY DEF Prio
    <2> QED
      BY <1>3, <1>4, <1>5, <2>1, PacketOfFields, Zenon
  <1>8. /\ Fragment(m, off).more = (left > FragMax) /\ Fragment(m, off).prio = 1
        /\ Fragment(m, off).bytes = bytes
    BY <1>4
  <1> QED
    BY <1>6, <1>7, <1>8

\* What is taken from the queues is a packet, and it leaves the queues as they were typed.
LEMMA GetType ==
  ASSUME NEW q \in [Prio -> Seq(Packet)], ~AllEmpty(q)
  PROVE  /\ First(q) \in Prio /\ q[First(q)] # <<>>
         /\ Head(q[First(q)]) \in Packet /\ Get(q) \in [Prio -> Seq(Packet)]
  <1>1. First(q) \in Prio /\ q[First(q)] # <<>>
    BY DEF First, AllEmpty, Prio
  <1> QED
    BY <1>1, HeadTailProperties DEF Get

\* Putting a packet keeps the queues typed.
LEMMA PutType ==
  ASSUME NEW q \in [Prio -> Seq(Packet)], NEW pkt \in Packet
  PROVE  Put(q, pkt) \in [Prio -> Seq(Packet)]
  <1>1. pkt.prio \in Prio
    BY DEF Packet
  <1> QED
    BY <1>1 DEF Put

\* The packet with nothing in it.
LEMMA NoneType == None \in Packet /\ ~None.more
  BY EmptySeq DEF None, Packet, Prio
-----------------------------------------------------------------------------
(* The invariant is inductive: one lemma per task.                         *)

LEMMA LinkInit == Init => LinkInv
  <1> SUFFICES ASSUME Init PROVE LinkInv
    OBVIOUS
  <1> USE DEF Init
  <1>1. HostTypeOK
    BY NoneType, EmptySeq DEF HostTypeOK
  <1>2. SlaveTypeOK
    BY NoneType, EmptySeq DEF SlaveTypeOK
  <1>3. WriterInv /\ OthersInv /\ RoomInv
    BY NoneType, EmptySeq, LinkAssumption DEF WriterInv, OthersInv, RoomInv, Threads
  <1> QED
    BY <1>1, <1>2, <1>3 DEF LinkInv, TypeOK

\* Handing over, checking, putting and giving packets, in any thread.
LEMMA LinkTransmit ==
  ASSUME LinkInv, NEW t \in Threads, SendPacket(t) \/ Transmit(t)
  PROVE  LinkInv'
  <1> USE DEF LinkInv, TypeOK
  <1>0. SlaveTypeOK' /\ RoomInv'
    BY DEF SendPacket, Transmit, CheckTransport, PutPacket, GivePacket, SlaveTypeOK, RoomInv
  <1>1. CASE SendPacket(t)
    <2>1. t # Writer
      BY <1>1, ThreadsAssumption DEF SendPacket
    <2>2. HostTypeOK'
      BY <1>1 DEF SendPacket, HostTypeOK
    <2>3. WriterInv' /\ OthersInv'
      BY <1>1, <2>1 DEF SendPacket, WriterInv, OthersInv, HostTypeOK, Fragment, Threads
    <2> QED
      BY <1>0, <2>2, <2>3
  <1>2. CASE CheckTransport(t) /\ tx_ready
    <2>1. CASE t = Writer
      <3>1. /\ sent # <<>> /\ sent \in Seq(Seq(Byte)) /\ Len(sent) \in Nat
            /\ sent[Len(sent)] \in Seq(Byte) /\ woff \in Nat /\ woff < Len(sent[Len(sent)])
        BY <1>2, <2>1, EmptySeq, ElementOfSeq, LenProperties
           DEF CheckTransport, WriterInv, HostTypeOK
      <3>2. PacketOf(t) \in Packet /\ PacketOf(t) = Fragment(Len(sent), woff)
        BY <2>1, <3>1, FragmentType DEF PacketOf
      <3>3. HostTypeOK'
        BY <1>2, <3>2 DEF CheckTransport, HostTypeOK
      <3>4. WriterInv'
        BY <1>2, <2>1, <3>1, <3>2 DEF CheckTransport, WriterInv, HostTypeOK, Fragment
      <3>5. OthersInv'
        BY <1>2, <2>1 DEF CheckTransport, OthersInv, HostTypeOK
      <3> QED
        BY <1>0, <3>3, <3>4, <3>5
    <2>2. CASE t # Writer
      <3>1. PacketOf(t) \in Packet /\ ~PacketOf(t).more
        <4>1. (IF t = Boot THEN 3 ELSE SenderPrio[t]) \in Prio
          BY <2>2, ThreadsAssumption DEF Threads, Prio
        <4> QED
          BY <2>2, <4>1, NoneType DEF PacketOf, Packet, None
      <3>2. HostTypeOK'
        BY <1>2, <3>1 DEF CheckTransport, HostTypeOK
      <3>3. WriterInv'
        BY <1>2, <2>2 DEF CheckTransport, WriterInv, HostTypeOK, Fragment, Threads
      <3>4. OthersInv'
        BY <1>2, <3>1 DEF CheckTransport, OthersInv, HostTypeOK
      <3> QED
        BY <1>0, <3>2, <3>3, <3>4
    <2> QED
      BY <2>1, <2>2
  <1>3. CASE CheckTransport(t) /\ ~tx_ready
    <2>1. sent' \in Seq(Seq(Byte))
      <3>1. CASE t = Writer
        <4>1. sent # <<>> /\ sent \in Seq(Seq(Byte)) /\ Len(sent) \in Nat /\ Len(sent) > 0
          BY <1>3, <3>1, EmptySeq, LenProperties DEF CheckTransport, WriterInv, HostTypeOK
        <4>2. 0 + (Len(sent) - 1) <= Len(sent) /\ Len(sent) - 1 \in Nat
          BY <4>1
        <4>3. SubSeq(sent, 0 + 1, 0 + (Len(sent) - 1)) \in Seq(Seq(Byte))
          BY <4>1, <4>2, SubSeqType
        <4>4. SubSeq(sent, 1, Len(sent) - 1) \in Seq(Seq(Byte))
          BY <4>1, <4>2, <4>3
        <4> QED
          BY <1>3, <3>1, <4>4 DEF CheckTransport
      <3>2. CASE t # Writer
        BY <1>3, <3>2 DEF CheckTransport, HostTypeOK
      <3> QED
        BY <3>1, <3>2
    <2>2. HostTypeOK'
      BY <1>3, <2>1 DEF CheckTransport, HostTypeOK
    <2>3. WriterInv' /\ OthersInv'
      BY <1>3 DEF CheckTransport, WriterInv, OthersInv, HostTypeOK, Fragment, Threads
    <2> QED
      BY <1>0, <2>2, <2>3
  <1>4. CASE PutPacket(t)
    <2>1. HostTypeOK'
      BY <1>4, PutType DEF PutPacket, HostTypeOK
    <2>2. WriterInv' /\ OthersInv'
      BY <1>4 DEF PutPacket, WriterInv, OthersInv, HostTypeOK, Fragment, Threads
    <2> QED
      BY <1>0, <2>1, <2>2
  <1>5. CASE GivePacket(t)
    <2>0. OthersInv'
      BY <1>5, NoneType DEF GivePacket, OthersInv, HostTypeOK
    <2>1. CASE t = Writer
      <3>1. /\ sent # <<>> /\ Len(sent) \in Nat /\ sent[Len(sent)] \in Seq(Byte)
            /\ woff \in Nat /\ woff < Len(sent[Len(sent)])
            /\ tpkt[t] = Fragment(Len(sent), woff)
        BY <1>5, <2>1, EmptySeq, ElementOfSeq, LenProperties
           DEF GivePacket, WriterInv, HostTypeOK
      <3>2. /\ tpkt[t] \in Packet /\ Len(tpkt[t].bytes) \in Nat
            /\ tpkt[t].more => woff + Len(tpkt[t].bytes) < Len(sent[Len(sent)])
        <4>1. tpkt[t] \in Packet /\ tpkt[t].bytes \in Seq(Byte)
          BY DEF HostTypeOK, Packet
        <4>2. Len(tpkt[t].bytes) \in Nat
          BY <4>1, LenProperties
        <4> QED
          BY <3>1, <4>1, <4>2, FragmentType
      <3>3. HostTypeOK'
        BY <1>5, <3>1, <3>2, NoneType, LinkAssumption DEF GivePacket, HostTypeOK, GiveSem
      <3>4. WriterInv'
        BY <1>5, <2>1, <3>1, <3>2 DEF GivePacket, WriterInv, HostTypeOK
      <3> QED
        BY <1>0, <2>0, <3>3, <3>4
    <2>2. CASE t # Writer
      <3>1. HostTypeOK'
        BY <1>5, <2>2, NoneType, LinkAssumption DEF GivePacket, HostTypeOK, GiveSem
      <3>2. WriterInv'
        BY <1>5, <2>2 DEF GivePacket, WriterInv, HostTypeOK, Fragment, Threads
      <3> QED
        BY <1>0, <2>0, <3>1, <3>2
    <2> QED
      BY <2>1, <2>2
  <1> QED
    BY <1>1, <1>2, <1>3, <1>4, <1>5 DEF Transmit

\* A request enters serial_ll_write, and the INIT event brings the transport up.
LEMMA LinkStart ==
  ASSUME LinkInv, InitEvent \/ StartWriting \/ \E len \in MsgSizes : SerialWrite(len)
  PROVE  LinkInv'
  <1> USE DEF LinkInv, TypeOK
  <1>0. SlaveTypeOK' /\ RoomInv'
    BY DEF InitEvent, StartWriting, SerialWrite, SlaveTypeOK, RoomInv
  <1>1. CASE InitEvent \/ StartWriting
    <2>0. Boot \in Threads
      BY DEF Threads
    <2>1. HostTypeOK'
      <3>1. CASE InitEvent
        BY <2>0, <3>1 DEF InitEvent, HostTypeOK
      <3>2. CASE StartWriting
        BY <3>2 DEF StartWriting, HostTypeOK
      <3> QED
        BY <1>1, <3>1, <3>2
    <2>2. WriterInv' /\ OthersInv'
      BY <1>1, ThreadsAssumption
         DEF InitEvent, StartWriting, WriterInv, OthersInv, HostTypeOK, Fragment, Threads
    <2> QED
      BY <1>0, <2>1, <2>2
  <1>2. ASSUME NEW len \in MsgSizes, SerialWrite(len) PROVE LinkInv'
    <2> DEFINE b == Bytes(Len(sent) + 1, len)
    <2>1. Len(sent) \in Nat /\ len \in Nat /\ len > 0
      BY LinkAssumption, LenProperties DEF HostTypeOK
    <2>2. b \in Seq(Byte) /\ Len(b) = len
      <3>1. Len(sent) + 1 \in Nat
        BY <2>1
      <3> QED
        BY <2>1, <3>1, BytesType
    <2> HIDE DEF b
    <2>3. Append(sent, b) \in Seq(Seq(Byte)) /\ Append(sent, b) # <<>>
          /\ Append(sent, b)[Len(Append(sent, b))] = b
      <3>1. sent \in Seq(Seq(Byte))
        BY DEF HostTypeOK
      <3> QED
        BY <2>1, <2>2, <3>1, AppendProperties, EmptySeq
    <2>4. HostTypeOK'
      <3>1. sent' \in Seq(Seq(Byte))
        BY <1>2, <2>3 DEF SerialWrite, HostTypeOK, b
      <3>2. Writer \in Threads
        BY DEF Threads
      <3>3. tpc' \in [Threads -> {"idle", "check", "put", "give"}] /\ made' \in [Threads -> Nat]
        <4>1. /\ \/ tpc' = [tpc EXCEPT ![Writer] = "check"]
                 \/ tpc' = tpc
              /\ made' = [made EXCEPT ![Writer] = @ + 1]
          BY <1>2 DEF SerialWrite
        <4>2. /\ tpc \in [Threads -> {"idle", "check", "put", "give"}]
              /\ made \in [Threads -> Nat]
          BY DEF HostTypeOK
        <4>3. tpc' \in [Threads -> {"idle", "check", "put", "give"}]
          BY <3>2, <4>1, <4>2
        <4>4. made' \in [Threads -> Nat]
          BY <3>2, <4>1, <4>2
        <4> QED
          BY <4>3, <4>4
      <3> QED
        BY <1>2, <3>1, <3>3 DEF SerialWrite, HostTypeOK
    <2>5. WriterInv'
      BY <1>2, <2>1, <2>2, <2>3 DEF SerialWrite, WriterInv, HostTypeOK, b, Threads
    <2>6. OthersInv'
      BY <1>2 DEF SerialWrite, OthersInv
    <2> QED
      BY <1>0, <2>4, <2>5, <2>6
  <1> QED
    BY <1>1, <1>2

\* h_uart_write_task touches nothing the writer's loop relies on.
LEMMA LinkWrite == ASSUME LinkInv, WriteTask PROVE LinkInv'
  <1> USE DEF LinkInv, TypeOK
  <1>1. WriterInv' /\ OthersInv' /\ RoomInv'
    BY DEF WriteTask, TakeToSlave, RecvToSlave, WritePacket, WriterInv, OthersInv, RoomInv,
           Fragment
  <1>2. CASE TakeToSlave
    BY <1>1, <1>2 DEF TakeToSlave, HostTypeOK, SlaveTypeOK
  <1>3. CASE RecvToSlave
    <2>1. HostTypeOK'
      BY <1>3, GetType DEF RecvToSlave, HostTypeOK
    <2>2. SlaveTypeOK'
      BY <1>3 DEF RecvToSlave, SlaveTypeOK
    <2> QED
      BY <1>1, <2>1, <2>2
  <1>4. CASE WritePacket
    <2>1. txpkt.free \in Nat
      BY DEF HostTypeOK, Packet
    <2>2. HostTypeOK'
      BY <1>4, <2>1, NoneType DEF WritePacket, HostTypeOK
    <2>3. SlaveTypeOK'
      <3>1. wire' \in Seq(Packet)
        <4>1. wire \in Seq(Packet) /\ txpkt \in Packet
          BY DEF SlaveTypeOK, HostTypeOK
        <4>2. wire' = Append(wire, txpkt) \/ wire' = wire
          BY <1>4 DEF WritePacket
        <4> QED
          BY <4>1, <4>2, AppendProperties
      <3> QED
        BY <1>4, <3>1 DEF WritePacket, SlaveTypeOK
    <2> QED
      BY <1>1, <2>2, <2>3
  <1> QED
    BY <1>2, <1>3, <1>4 DEF WriteTask

\* Neither does uart_rx_task.
LEMMA LinkUart == ASSUME LinkInv, UartRxTask PROVE LinkInv'
  <1> USE DEF LinkInv, TypeOK
  <1>1. HostTypeOK' /\ WriterInv' /\ OthersInv' /\ RoomInv'
    BY DEF UartRxTask, UartRead, UartPut, UartGive, HostTypeOK, WriterInv, OthersInv, RoomInv,
           Fragment
  <1>2. CASE UartRead
    BY <1>1, <1>2, HeadTailProperties DEF UartRead, SlaveTypeOK
  <1>3. CASE UartPut
    BY <1>1, <1>3, PutType DEF UartPut, SlaveTypeOK
  <1>4. CASE UartGive
    BY <1>1, <1>4, NoneType, LinkAssumption DEF UartGive, SlaveTypeOK, GiveSem
  <1> QED
    BY <1>2, <1>3, <1>4 DEF UartRxTask

\* The first n elements of a sequence that has them.
LEMMA PrefixType ==
  ASSUME NEW S, NEW s \in Seq(S), NEW n \in Nat, n <= Len(s)
  PROVE  SubSeq(s, 1, n) \in Seq(S) /\ Len(SubSeq(s, 1, n)) = n
  <1>1. SubSeq(s, 0 + 1, 0 + n) \in Seq(S) /\ Len(SubSeq(s, 0 + 1, 0 + n)) = n
    BY SubSeqType
  <1> QED
    BY <1>1

\* The stretch of a fragment that is copied, and r with it: both fit.
LEMMA CopiedFits ==
  ASSUME LinkInv, rcpc = "serial", NEW n, n = Min2(Len(rcpkt.bytes), rem_buff_size),
         NEW longer, longer = r_data \o SubSeq(rcpkt.bytes, 1, n)
  PROVE  /\ longer \in Seq(Byte) /\ Len(longer) <= BufSize
         /\ SubSeq(longer, 1, n) \in Seq(Byte) /\ Len(SubSeq(longer, 1, n)) <= BufSize
  <1>1. rcpkt.bytes \in Seq(Byte) /\ Len(rcpkt.bytes) \in Nat /\ rem_buff_size \in Nat
    BY LenProperties DEF LinkInv, TypeOK, SlaveTypeOK, Packet
  <1>2. n \in Nat /\ n <= Len(rcpkt.bytes) /\ n <= rem_buff_size
    BY <1>1 DEF Min2
  <1>3. SubSeq(rcpkt.bytes, 1, n) \in Seq(Byte) /\ Len(SubSeq(rcpkt.bytes, 1, n)) = n
    BY <1>1, <1>2, PrefixType
  <1>4. r_data \in Seq(Byte) /\ Len(r_data) \in Nat /\ BufSize \in Nat
    BY LenProperties, LinkAssumption DEF LinkInv, TypeOK, SlaveTypeOK
  <1>5. longer \in Seq(Byte) /\ Len(longer) = Len(r_data) + n
    BY <1>3, <1>4, ConcatProperties
  <1>6. SubSeq(longer, 1, n) \in Seq(Byte) /\ Len(SubSeq(longer, 1, n)) = n
    BY <1>2, <1>4, <1>5, PrefixType
  <1>7. Len(r_data) + rem_buff_size <= BufSize
    BY DEF LinkInv, RoomInv
  <1> QED
    BY <1>1, <1>2, <1>4, <1>5, <1>6, <1>7

\* recv_task appends no more to r than there is room for.
LEMMA LinkRecv == ASSUME LinkInv, RecvTask PROVE LinkInv'
  <1> USE DEF LinkInv, TypeOK
  <1>1. HostTypeOK' /\ WriterInv' /\ OthersInv'
    BY DEF RecvTask, TakeRx, RecvRx, CopyFragment, DataReady, HostTypeOK, WriterInv, OthersInv,
           Fragment
  <1>2. Len(r_data) \in Nat /\ BufSize \in Nat /\ RoomInR \in Nat /\ Len(r_data) + RoomInR <= BufSize
    BY LenProperties, LinkAssumption DEF SlaveTypeOK, RoomInv, RoomInR
  <1>3. CASE TakeRx
    BY <1>1, <1>3 DEF TakeRx, SlaveTypeOK, RoomInv
  <1>4. CASE RecvRx
    <2>1. SlaveTypeOK'
      BY <1>2, <1>4, GetType DEF RecvRx, SlaveTypeOK
    <2>2. RoomInv'
      BY <1>2, <1>4 DEF RecvRx, RoomInv
    <2> QED
      BY <1>1, <2>1, <2>2
  <1>5. CASE CopyFragment
    <2>1. rcpc = "serial" /\ r_data' = r_data \o SubSeq(rcpkt.bytes, 1,
                                                       Min2(Len(rcpkt.bytes), rem_buff_size))
      BY <1>5 DEF CopyFragment
    <2>2. r_data' \in Seq(Byte) /\ Len(r_data') <= BufSize
      BY <2>1, CopiedFits
    <2>3. SlaveTypeOK'
      BY <1>5, <2>2, NoneType DEF CopyFragment, SlaveTypeOK
    <2>4. RoomInv'
      BY <1>5, <2>2 DEF CopyFragment, RoomInv
    <2> QED
      BY <1>1, <2>3, <2>4
  <1>6. CASE DataReady
    <2>1. [kind |-> "request", data |-> r_data] \in Arg
      BY DEF Arg, SlaveTypeOK
    <2>2. req_queue' \in Seq(Arg)
      <3>1. req_queue \in Seq(Arg)
        BY DEF SlaveTypeOK
      <3>2. \/ req_queue' = Append(req_queue, [kind |-> "request", data |-> r_data])
            \/ req_queue' = req_queue
        BY <1>6 DEF DataReady
      <3> QED
        BY <2>1, <3>1, <3>2, AppendProperties
    <2> QED
      BY <1>1, <1>6, <2>2 DEF DataReady, SlaveTypeOK, RoomInv
  <1> QED
    BY <1>3, <1>4, <1>5, <1>6 DEF RecvTask

\* pserial_task empties r; what a torn release leaves in it still fits.
LEMMA LinkSerial == ASSUME LinkInv, RaiseEvent \/ PserialTask PROVE LinkInv'
  <1> USE DEF LinkInv, TypeOK
  <1>1. HostTypeOK' /\ WriterInv' /\ OthersInv'
    BY DEF RaiseEvent, PserialTask, PserialRecv, SerialReadData, ReleaseR, TornCopy, HostTypeOK,
           WriterInv, OthersInv, Fragment
  <1>0. ASSUME NEW buf \in Seq(Byte), Handle(buf), SlaveTypeOK PROVE got' \in Seq(Seq(Byte))
    BY <1>0, AppendProperties DEF Handle, SlaveTypeOK
  <1>2. CASE RaiseEvent
    <2>1. [kind |-> "event", data |-> <<>>] \in Arg
      BY EmptySeq DEF Arg
    <2>2. req_queue' \in Seq(Arg)
      BY <1>2, <2>1, AppendProperties DEF RaiseEvent, SlaveTypeOK
    <2> QED
      BY <1>1, <1>2, <2>2 DEF RaiseEvent, SlaveTypeOK, RoomInv
  <1>3. CASE PserialRecv
    <2>0. Head(req_queue) \in Arg
      BY <1>3, HeadTailProperties DEF PserialRecv, SlaveTypeOK
    <2>1. Head(req_queue).data \in Seq(Byte)
      BY <2>0 DEF Arg
    <2> QED
      BY <1>1, <1>3, <2>1, HeadTailProperties DEF PserialRecv, SlaveTypeOK, RoomInv
  <1>4. CASE SerialReadData
    <2> DEFINE n == Min2(Len(psarg), Len(r_data))
    <2>1. n \in Nat /\ n <= Len(r_data) /\ n <= Len(psarg)
      BY LenProperties DEF SlaveTypeOK, Min2
    <2>2. SubSeq(r_data, 1, n) \in Seq(Byte) /\ SubSeq(psarg, 1, n) \in Seq(Byte)
      <3> HIDE DEF n
      <3> QED
        BY <2>1, PrefixType DEF SlaveTypeOK
    <2>3. psbuf' \in Seq(Byte) /\ got' \in Seq(Seq(Byte)) /\ psarg' \in Seq(Byte)
      <3> HIDE DEF n
      <3>1. \/ psbuf' = SubSeq(r_data, 1, n) /\ got' = got
            \/ psbuf' = psbuf /\ Handle(SubSeq(psarg, 1, n))
        BY <1>4 DEF SerialReadData, n
      <3>2. got' \in Seq(Seq(Byte))
        BY <1>0, <2>2, <3>1 DEF SlaveTypeOK
      <3> QED
        BY <1>4, <2>2, <3>1, <3>2, EmptySeq DEF SerialReadData, SlaveTypeOK
    <2>4. r_valid' \in BOOLEAN /\ pspc' \in {"recv", "read", "release"}
      BY <1>4 DEF SerialReadData, SlaveTypeOK
    <2> QED
      BY <1>1, <1>4, <2>3, <2>4 DEF SerialReadData, SlaveTypeOK, RoomInv
  <1>5. CASE ReleaseR
    <2>0. got' \in Seq(Seq(Byte))
      BY <1>0, <1>5 DEF ReleaseR, SlaveTypeOK
    <2>1. SlaveTypeOK'
      BY <1>5, <2>0, EmptySeq DEF ReleaseR, SlaveTypeOK
    <2>2. Len(r_data') = 0 /\ Len(r_data) \in Nat
      BY <1>5, EmptySeq, LenProperties DEF ReleaseR, SlaveTypeOK
    <2>3. RoomInv'
      BY <1>5, <2>2, LinkAssumption DEF ReleaseR, RoomInv, SlaveTypeOK
    <2> QED
      BY <1>1, <2>1, <2>3
  <1>6. CASE TornCopy
    <2>0. got' \in Seq(Seq(Byte))
      BY <1>0, <1>6 DEF TornCopy, SlaveTypeOK
    <2> DEFINE n == Min2(Len(rcpkt.bytes), rem_buff_size)
               longer == r_data \o SubSeq(rcpkt.bytes, 1, n)
    <2>1. rcpc = "serial" /\ r_data' \in {SubSeq(longer, 1, n), longer}
      BY <1>6 DEF TornCopy
    <2>2. r_data' \in Seq(Byte) /\ Len(r_data') <= BufSize
      BY <2>1, CopiedFits
    <2>3. SlaveTypeOK'
      BY <1>6, <2>0, <2>2, NoneType, EmptySeq DEF TornCopy, SlaveTypeOK
    <2>4. RoomInv'
      BY <1>6, <2>2 DEF TornCopy, RoomInv
    <2> QED
      BY <1>1, <2>3, <2>4
  <1> QED
    BY <1>2, <1>3, <1>4, <1>5, <1>6 DEF PserialTask

\* Every step of either side preserves the invariant.
LEMMA LinkStep == LinkInv /\ [Next]_vars => LinkInv'
  <1> SUFFICES ASSUME LinkInv, [Next]_vars PROVE LinkInv'
    OBVIOUS
  <1>1. CASE InitEvent \/ StartWriting \/ \E len \in MsgSizes : SerialWrite(len)
    BY <1>1, LinkStart
  <1>2. CASE \E t \in Threads : SendPacket(t) \/ Transmit(t)
    BY <1>2, LinkTransmit
  <1>3. CASE WriteTask
    BY <1>3, LinkWrite
  <1>4. CASE UartRxTask
    BY <1>4, LinkUart
  <1>5. CASE RecvTask
    BY <1>5, LinkRecv
  <1>6. CASE RaiseEvent \/ PserialTask
    BY <1>6, LinkSerial
  <1>7. CASE UNCHANGED vars
    BY <1>7 DEF vars, LinkInv, TypeOK, HostTypeOK, SlaveTypeOK, WriterInv, OthersInv, RoomInv,
         Fragment
  <1> QED
    BY <1>1, <1>2, <1>3, <1>4, <1>5, <1>6, <1>7 DEF Next, Idle

\* The invariant holds of every behaviour of the uplink.
LEMMA LinkHolds == Spec => []LinkInv
  BY LinkInit, LinkStep, PTL DEF Spec

\* Every queue, counter and buffer of the uplink keeps its type.
THEOREM UplinkTypes == Spec => []TypeOK
  <1>1. LinkInv => TypeOK
    BY DEF LinkInv
  <1> QED
    BY <1>1, LinkHolds, PTL

\* process_serial_rx_pkt never writes past the end of r.data, although it
\* computes the room before it waits and pserial_task releases r without a lock.
THEOREM NoOverrunHolds == Spec => []NoOverrun
  <1>1. LinkInv => NoOverrun
    <2> SUFFICES ASSUME LinkInv PROVE NoOverrun
      OBVIOUS
    <2>1. rcpkt.bytes \in Seq(Byte) /\ Len(rcpkt.bytes) \in Nat /\ rem_buff_size \in Nat
      BY LenProperties DEF LinkInv, TypeOK, SlaveTypeOK, Packet
    <2>2. Min2(Len(rcpkt.bytes), rem_buff_size) <= rem_buff_size
          /\ Min2(Len(rcpkt.bytes), rem_buff_size) \in Nat
      BY <2>1 DEF Min2
    <2>3. Len(r_data) \in Nat /\ BufSize \in Nat
      BY LenProperties, LinkAssumption DEF LinkInv, TypeOK, SlaveTypeOK
    <2> QED
      BY <2>1, <2>2, <2>3 DEF LinkInv, RoomInv, NoOverrun
  <1> QED
    BY <1>1, LinkHolds, PTL
-----------------------------------------------------------------------------
(* The semaphores count the queues.                                        *)

Total(q) == Len(q[1]) + Len(q[2]) + Len(q[3])
One(b)   == IF b THEN 1 ELSE 0

\* The threads between their h_queue_send and their h_sem_give.
Giving == {t \in Threads : tpc[t] = "give"}

\* The host's semaphore counts the queued packets, less the wake-ups still to be
\* given and the one taken; the bound keeps the semaphore from saturating.
ToSlaveCount ==
    /\ Total(to_slave_queue) = sem_to_slave_queue + Cardinality(Giving) + One(txpc = "recv")
    /\ \A p \in Prio : Len(to_slave_queue[p]) <= TxQSize
    /\ tx_needed

\* The same of the co-processor's semaphore.
RxCount ==
    /\ Total(uart_rx_queue) = uart_rx_sem + One(urpc = "give") + One(rcpc = "recv")
    /\ \A p \in Prio : Len(uart_rx_queue[p]) <= RxQSize

\* The set of threads about to give can be counted.
LEMMA GivingFinite == IsFiniteSet(Giving) /\ Cardinality(Giving) \in Nat
  <1>1. IsFiniteSet(Threads)
    <2>1. IsFiniteSet(Senders \cup {Writer})
      BY ThreadsAssumption, FS_AddElement
    <2>2. IsFiniteSet((Senders \cup {Writer}) \cup {Boot})
      BY <2>1, FS_AddElement
    <2>3. Threads = (Senders \cup {Writer}) \cup {Boot}
      BY DEF Threads
    <2> QED
      BY <2>2, <2>3
  <1>2. Giving \in SUBSET Threads
    BY DEF Giving
  <1> QED
    BY <1>1, <1>2, FS_Subset, FS_CardinalityType

\* Three lengths within a bound add up to at most three times the bound.
LEMMA SumBound ==
  ASSUME NEW a \in Nat, NEW b \in Nat, NEW c \in Nat, NEW n \in Nat,
         a <= n, b <= n, c <= n
  PROVE  a + b + c <= 3 * n
  OBVIOUS

\* Typed queues have lengths that are numbers, and their total is one.
LEMMA TotalType ==
  ASSUME NEW q \in [Prio -> Seq(Packet)]
  PROVE  /\ Len(q[1]) \in Nat /\ Len(q[2]) \in Nat /\ Len(q[3]) \in Nat /\ Total(q) \in Nat
         /\ Total(q) = 0 <=> AllEmpty(q)
  <1>1. 1 \in Prio /\ 2 \in Prio /\ 3 \in Prio
    BY DEF Prio
  <1>2. /\ Len(q[1]) \in Nat /\ (q[1] = <<>> <=> Len(q[1]) = 0)
        /\ Len(q[2]) \in Nat /\ (q[2] = <<>> <=> Len(q[2]) = 0)
        /\ Len(q[3]) \in Nat /\ (q[3] = <<>> <=> Len(q[3]) = 0)
    BY <1>1, EmptySeq, LenProperties
  <1>3. AllEmpty(q) <=> q[1] = <<>> /\ q[2] = <<>> /\ q[3] = <<>>
    BY <1>1 DEF AllEmpty, Prio
  <1> DEFINE a == Len(q[1])
             b == Len(q[2])
             c == Len(q[3])
  <1>4. Total(q) = a + b + c /\ a \in Nat /\ b \in Nat /\ c \in Nat
    BY <1>2, Zenon DEF Total
  <1>5. Total(q) \in Nat /\ (Total(q) = 0 <=> a = 0 /\ b = 0 /\ c = 0)
    <2> HIDE DEF a, b, c
    <2> QED
      BY <1>4
  <1> QED
    BY <1>2, <1>3, <1>5, Zenon

\* A bound on every queue, spelled out.
LEMMA EachQueue ==
  ASSUME NEW q, NEW size
  PROVE  (\A p \in Prio : Len(q[p]) <= size)
           <=> Len(q[1]) <= size /\ Len(q[2]) <= size /\ Len(q[3]) <= size
  BY DEF Prio

\* Putting a packet adds one to one of the queues.
LEMMA PutCount ==
  ASSUME NEW q \in [Prio -> Seq(Packet)], NEW pkt \in Packet, NEW size \in Nat,
         \A p \in Prio : Len(q[p]) <= size, Len(q[pkt.prio]) < size
  PROVE  /\ Total(Put(q, pkt)) = Total(q) + 1
         /\ \A p \in Prio : Len(Put(q, pkt)[p]) <= size
  <1>1. pkt.prio \in Prio /\ 1 \in Prio /\ 2 \in Prio /\ 3 \in Prio
    BY DEF Packet, Prio
  <1>2. Len(Append(q[pkt.prio], pkt)) = Len(q[pkt.prio]) + 1
    BY <1>1, AppendProperties
  <1>3. \A p \in Prio : Put(q, pkt)[p] = IF p = pkt.prio THEN Append(q[p], pkt) ELSE q[p]
    BY <1>1 DEF Put
  <1>4. pkt.prio = 1 \/ pkt.prio = 2 \/ pkt.prio = 3
    BY <1>1 DEF Prio
  <1>5. \A p \in Prio : Len(Put(q, pkt)[p]) \in Nat /\ Len(Put(q, pkt)[p]) <= size
    <2> TAKE p \in Prio
    <2>1. CASE p = pkt.prio
      <3>1. Len(Put(q, pkt)[p]) = Len(q[pkt.prio]) + 1
        BY <1>2, <1>3, <2>1, Zenon
      <3>2. Len(q[pkt.prio]) \in Nat
        BY <1>1, LenProperties
      <3> QED
        BY <3>1, <3>2
    <2>2. CASE p # pkt.prio
      <3>1. Put(q, pkt)[p] = q[p] /\ Len(q[p]) \in Nat
        BY <1>3, <2>2, LenProperties
      <3> QED
        BY <3>1, Zenon
    <2> QED
      BY <2>1, <2>2
  <1>6. Total(Put(q, pkt)) = Total(q) + 1
    <2> DEFINE a == Len(q[1])
               b == Len(q[2])
               c == Len(q[3])
               x == Len(Put(q, pkt)[1])
               y == Len(Put(q, pkt)[2])
               z == Len(Put(q, pkt)[3])
    <2>1. a \in Nat /\ b \in Nat /\ c \in Nat
      BY TotalType, Zenon
    <2>2. 1 # 2 /\ 2 # 3 /\ 1 # 3
      OBVIOUS
    <2>3. CASE pkt.prio = 1
      <3>1. /\ x = a + 1 /\ y = b /\ z = c
        BY <1>1, <1>2, <1>3, <2>2, <2>3, Zenon
      <3>2. x + y + z = (a + b + c) + 1
        <4> HIDE DEF a, b, c, x, y, z
        <4> QED
          BY <2>1, <3>1
      <3> QED
        BY <3>2, Zenon DEF Total
    <2>4. CASE pkt.prio = 2
      <3>1. /\ x = a /\ y = b + 1 /\ z = c
        BY <1>1, <1>2, <1>3, <2>2, <2>4, Zenon
      <3>2. x + y + z = (a + b + c) + 1
        <4> HIDE DEF a, b, c, x, y, z
        <4> QED
          BY <2>1, <3>1
      <3> QED
        BY <3>2, Zenon DEF Total
    <2>5. CASE pkt.prio = 3
      <3>1. /\ x = a /\ y = b /\ z = c + 1
        BY <1>1, <1>2, <1>3, <2>2, <2>5, Zenon
      <3>2. x + y + z = (a + b + c) + 1
        <4> HIDE DEF a, b, c, x, y, z
        <4> QED
          BY <2>1, <3>1
      <3> QED
        BY <3>2, Zenon DEF Total
    <2> QED
      BY <1>4, <2>3, <2>4, <2>5
  <1> QED
    BY <1>5, <1>6, Zenon

\* Taking one from the queue that is served removes one.
LEMMA GetCount ==
  ASSUME NEW q \in [Prio -> Seq(Packet)], NEW size \in Nat, ~AllEmpty(q),
         \A p \in Prio : Len(q[p]) <= size
  PROVE  /\ Total(Get(q)) = Total(q) - 1
         /\ \A p \in Prio : Len(Get(q)[p]) <= size
  <1>1. First(q) \in Prio /\ q[First(q)] # <<>> /\ 1 \in Prio /\ 2 \in Prio /\ 3 \in Prio
    BY GetType DEF Prio
  <1>2. Len(Tail(q[First(q)])) = Len(q[First(q)]) - 1
    BY <1>1, HeadTailProperties
  <1>3. \A p \in Prio : Get(q)[p] = IF p = First(q) THEN Tail(q[p]) ELSE q[p]
    BY <1>1 DEF Get
  <1>4. First(q) = 1 \/ First(q) = 2 \/ First(q) = 3
    BY <1>1 DEF Prio
  <1>5. \A p \in Prio : Len(Get(q)[p]) <= size
    <2> TAKE p \in Prio
    <2>1. CASE p = First(q)
      <3>1. Len(Get(q)[p]) = Len(q[p]) - 1
        BY <1>2, <1>3, <2>1, Zenon
      <3>2. Len(q[p]) \in Nat /\ Len(q[p]) <= size
        BY LenProperties
      <3> QED
        BY <3>1, <3>2
    <2>2. CASE p # First(q)
      BY <1>3, <2>2, Zenon
    <2> QED
      BY <2>1, <2>2
  <1>6. Total(Get(q)) = Total(q) - 1
    <2> DEFINE a == Len(q[1])
               b == Len(q[2])
               c == Len(q[3])
               x == Len(Get(q)[1])
               y == Len(Get(q)[2])
               z == Len(Get(q)[3])
    <2>1. a \in Nat /\ b \in Nat /\ c \in Nat
      BY TotalType, Zenon
    <2>2. 1 # 2 /\ 2 # 3 /\ 1 # 3
      OBVIOUS
    <2>3. CASE First(q) = 1
      <3>1. /\ x = a - 1 /\ y = b /\ z = c
        BY <1>1, <1>2, <1>3, <2>2, <2>3, Zenon
      <3>2. x + y + z = (a + b + c) - 1
        <4> HIDE DEF a, b, c, x, y, z
        <4> QED
          BY <2>1, <3>1
      <3> QED
        BY <3>2, Zenon DEF Total
    <2>4. CASE First(q) = 2
      <3>1. /\ x = a /\ y = b - 1 /\ z = c
        BY <1>1, <1>2, <1>3, <2>2, <2>4, Zenon
      <3>2. x + y + z = (a + b + c) - 1
        <4> HIDE DEF a, b, c, x, y, z
        <4> QED
          BY <2>1, <3>1
      <3> QED
        BY <3>2, Zenon DEF Total
    <2>5. CASE First(q) = 3
      <3>1. /\ x = a /\ y = b /\ z = c - 1
        BY <1>1, <1>2, <1>3, <2>2, <2>5, Zenon
      <3>2. x + y + z = (a + b + c) - 1
        <4> HIDE DEF a, b, c, x, y, z
        <4> QED
          BY <2>1, <3>1
      <3> QED
        BY <3>2, Zenon DEF Total
    <2> QED
      BY <1>4, <2>3, <2>4, <2>5
  <1> QED
    BY <1>5, <1>6, Zenon

\* A semaphore below its queues' total is not full: the give counts.
LEMMA GiveCount ==
  ASSUME NEW q \in [Prio -> Seq(Packet)], NEW size \in Nat, NEW s \in Nat,
         \A p \in Prio : Len(q[p]) <= size, s < Total(q)
  PROVE  GiveSem(s, size) = s + 1
  <1>1. Len(q[1]) <= size /\ Len(q[2]) <= size /\ Len(q[3]) <= size
    BY EachQueue, Zenon
  <1>2. Total(q) <= 3 * size
    BY <1>1, TotalType, SumBound, Zenon DEF Total
  <1>3. Total(q) \in Nat
    BY TotalType, Zenon
  <1> HIDE DEF Total
  <1> QED
    BY <1>2, <1>3 DEF GiveSem

\* Types of what is counted on the host.
LEMMA HostCounts ==
  ASSUME TypeOK
  PROVE  /\ Total(to_slave_queue) \in Nat /\ sem_to_slave_queue \in Nat
         /\ Cardinality(Giving) \in Nat
         /\ Total(to_slave_queue) = 0 <=> AllEmpty(to_slave_queue)
  BY TotalType, GivingFinite DEF TypeOK, HostTypeOK

\* A thread that starts to transmit, or is refused, is not between queue and give.
LEMMA CountMoves ==
  ASSUME TypeOK, ToSlaveCount, NEW t \in Threads, NEW x \in {"idle", "check", "put"},
         tpc[t] # "give", tpc' = [tpc EXCEPT ![t] = x],
         UNCHANGED <<to_slave_queue, sem_to_slave_queue, txpc, tx_needed>>
  PROVE  ToSlaveCount'
  <1>1. Cardinality(Giving') = Cardinality(Giving)
    <2>1. Giving' = Giving
      BY DEF Giving, TypeOK, HostTypeOK
    <2> QED
      BY <2>1
  <1> QED
    BY <1>1 DEF ToSlaveCount, Total, One

\* Queueing a packet: one more in the queues, one more about to give.
LEMMA CountPut ==
  ASSUME TypeOK, ToSlaveCount, NEW t \in Threads, PutPacket(t) PROVE ToSlaveCount'
  <1>1. tpkt[t] \in Packet /\ to_slave_queue \in [Prio -> Seq(Packet)] /\ TxQSize \in Nat
    BY LinkAssumption DEF TypeOK, HostTypeOK
  <1>2. /\ Total(to_slave_queue') = Total(to_slave_queue) + 1
        /\ \A p \in Prio : Len(to_slave_queue'[p]) <= TxQSize
    BY <1>1, PutCount DEF PutPacket, ToSlaveCount
  <1>3. Cardinality(Giving') = Cardinality(Giving) + 1
    <2>1. Giving' = Giving \cup {t} /\ t \notin Giving
      BY DEF Giving, PutPacket, TypeOK, HostTypeOK
    <2> QED
      BY <2>1, GivingFinite, FS_AddElement
  <1>4. UNCHANGED <<sem_to_slave_queue, txpc, tx_needed>>
    BY DEF PutPacket
  <1>5. One(txpc = "recv") \in Nat
    BY DEF One
  <1>6. Total(to_slave_queue') = sem_to_slave_queue' + Cardinality(Giving') + One(txpc' = "recv")
    BY <1>2, <1>3, <1>4, <1>5, HostCounts DEF ToSlaveCount
  <1> QED
    BY <1>2, <1>4, <1>6 DEF ToSlaveCount

\* Giving the semaphore: it is not full, so it counts one more and the thread one less.
LEMMA CountGive ==
  ASSUME TypeOK, ToSlaveCount, NEW t \in Threads, GivePacket(t) PROVE ToSlaveCount'
  <1>1. to_slave_queue \in [Prio -> Seq(Packet)] /\ TxQSize \in Nat
    BY LinkAssumption DEF TypeOK, HostTypeOK
  <1> DEFINE x == IF tpkt[t].more THEN "check" ELSE "idle"
  <1>2. x \in {"idle", "check", "put", "give"} /\ x # "give"
    OBVIOUS
  <1>3. tpc[t] = "give" /\ tpc' = [tpc EXCEPT ![t] = x]
    BY DEF GivePacket
  <1>4. Giving' = Giving \ {t} /\ t \in Giving
    <2> HIDE DEF x
    <2> QED
      BY <1>2, <1>3 DEF Giving, TypeOK, HostTypeOK
  <1>5. Cardinality(Giving') = Cardinality(Giving) - 1
    BY <1>4, GivingFinite, FS_RemoveElement
  <1>6. Cardinality(Giving) # 0
    BY <1>4, GivingFinite, FS_EmptySet
  <1>7. One(txpc = "recv") \in Nat
    BY DEF One
  <1>8. sem_to_slave_queue < Total(to_slave_queue)
    BY <1>6, <1>7, HostCounts DEF ToSlaveCount
  <1>9. sem_to_slave_queue' = sem_to_slave_queue + 1
    BY <1>1, <1>8, GiveCount, HostCounts DEF GivePacket, ToSlaveCount
  <1>10. UNCHANGED <<to_slave_queue, txpc, tx_needed>>
    BY DEF GivePacket
  <1>11. Total(to_slave_queue) = sem_to_slave_queue' + Cardinality(Giving') + One(txpc = "recv")
    BY <1>5, <1>7, <1>9, HostCounts DEF ToSlaveCount
  <1> QED
    BY <1>10, <1>11 DEF ToSlaveCount, Total

\* The write task moves one wake-up, then one packet.
LEMMA CountWrite ==
  ASSUME TypeOK, ToSlaveCount, WriteTask PROVE ToSlaveCount'
  <1>1. Cardinality(Giving') = Cardinality(Giving)
    BY DEF WriteTask, TakeToSlave, RecvToSlave, WritePacket, Giving
  <1>2. CASE TakeToSlave
    <2>1. sem_to_slave_queue' = sem_to_slave_queue - 1 /\ sem_to_slave_queue > 0
          /\ UNCHANGED <<to_slave_queue, tx_needed>> /\ txpc = "take" /\ txpc' = "recv"
      BY <1>2 DEF TakeToSlave
    <2>2. One(txpc = "recv") = 0 /\ One(txpc' = "recv") = 1
      BY <2>1 DEF One
    <2>3. Total(to_slave_queue) = sem_to_slave_queue' + Cardinality(Giving') + One(txpc' = "recv")
      BY <1>1, <2>1, <2>2, HostCounts DEF ToSlaveCount
    <2> QED
      BY <2>1, <2>3 DEF ToSlaveCount, Total
  <1>3. CASE RecvToSlave
    <2>1. txpc = "recv" /\ One(txpc = "recv") = 1
      BY <1>3 DEF RecvToSlave, One
    <2>2. ~AllEmpty(to_slave_queue)
      BY <2>1, HostCounts DEF ToSlaveCount
    <2>3. /\ to_slave_queue' = Get(to_slave_queue) /\ UNCHANGED <<sem_to_slave_queue, tx_needed>>
          /\ One(txpc' = "recv") = 0
      BY <1>3, <2>2 DEF RecvToSlave, One
    <2>4. /\ Total(to_slave_queue') = Total(to_slave_queue) - 1
          /\ \A p \in Prio : Len(to_slave_queue'[p]) <= TxQSize
      BY <2>2, <2>3, GetCount, LinkAssumption DEF ToSlaveCount, TypeOK, HostTypeOK
    <2>5. Total(to_slave_queue') = sem_to_slave_queue' + Cardinality(Giving') + One(txpc' = "recv")
      BY <1>1, <2>1, <2>3, <2>4, HostCounts DEF ToSlaveCount
    <2> QED
      BY <2>3, <2>4, <2>5 DEF ToSlaveCount
  <1>4. CASE WritePacket
    <2>1. UNCHANGED <<to_slave_queue, sem_to_slave_queue, tx_needed>>
          /\ One(txpc = "recv") = 0 /\ One(txpc' = "recv") = 0
      BY <1>4 DEF WritePacket, One
    <2> QED
      BY <1>1, <2>1 DEF ToSlaveCount, Total
  <1> QED
    BY <1>2, <1>3, <1>4 DEF WriteTask

\* Of all steps only those of the transmitting threads and of the write task matter.
LEMMA ToSlaveStep ==
  ASSUME LinkInv, ToSlaveCount, [Next]_vars PROVE ToSlaveCount'
  <1>0. TypeOK
    BY DEF LinkInv
  <1>1. CASE InitEvent
    <2>1. Boot \in Threads
      BY DEF Threads
    <2> QED
      BY <1>0, <1>1, <2>1, CountMoves DEF InitEvent
  <1>2. CASE \E len \in MsgSizes : SerialWrite(len)
    <2> PICK len \in MsgSizes : SerialWrite(len)
      BY <1>2
    <2>1. Writer \in Threads
      BY DEF Threads
    <2>2. CASE len <= BufSize
      BY <1>0, <2>1, <2>2, CountMoves DEF SerialWrite
    <2>3. CASE ~(len <= BufSize)
      BY <2>3 DEF SerialWrite, ToSlaveCount, Total, One, Giving
    <2> QED
      BY <2>2, <2>3
  <1>3. CASE \E t \in Threads : SendPacket(t) \/ Transmit(t)
    <2> PICK t \in Threads : SendPacket(t) \/ Transmit(t)
      BY <1>3
    <2>1. CASE SendPacket(t)
      BY <1>0, <2>1, CountMoves DEF SendPacket
    <2>2. CASE CheckTransport(t)
      BY <1>0, <2>2, CountMoves DEF CheckTransport
    <2>3. CASE PutPacket(t)
      BY <1>0, <2>3, CountPut
    <2>4. CASE GivePacket(t)
      BY <1>0, <2>4, CountGive
    <2> QED
      BY <2>1, <2>2, <2>3, <2>4 DEF Transmit
  <1>4. CASE WriteTask
    BY <1>0, <1>4, CountWrite
  <1>5. ASSUME UNCHANGED <<tpc, to_slave_queue, sem_to_slave_queue, txpc, tx_needed>>
        PROVE  ToSlaveCount'
    BY <1>5 DEF ToSlaveCount, Total, One, Giving
  <1>6. CASE StartWriting \/ UartRxTask \/ RecvTask \/ RaiseEvent \/ PserialTask
    BY <1>5, <1>6 DEF StartWriting, UartRxTask, UartRead, UartPut, UartGive, RecvTask, TakeRx,
       RecvRx, CopyFragment, DataReady, RaiseEvent, PserialTask, PserialRecv, SerialReadData,
       ReleaseR, TornCopy
  <1>7. CASE UNCHANGED vars
    BY <1>5, <1>7 DEF vars
  <1> QED
    BY <1>1, <1>2, <1>3, <1>4, <1>6, <1>7 DEF Next, Idle

\* The co-processor's side: uart_rx_task gives what it queued, recv_task takes it.
LEMMA RxStep ==
  ASSUME LinkInv, RxCount, [Next]_vars PROVE RxCount'
  <1>0. /\ uart_rx_queue \in [Prio -> Seq(Packet)] /\ RxQSize \in Nat /\ uart_rx_sem \in Nat
        /\ urpkt \in Packet
    BY LinkAssumption DEF LinkInv, TypeOK, SlaveTypeOK
  <1>1. Total(uart_rx_queue) \in Nat /\ (Total(uart_rx_queue) = 0 <=> AllEmpty(uart_rx_queue))
    BY <1>0, TotalType
  <1>2. One(urpc = "give") \in {0, 1} /\ One(rcpc = "recv") \in {0, 1}
    BY DEF One
  <1>3. ASSUME UNCHANGED <<uart_rx_queue, uart_rx_sem>>,
               One(urpc' = "give") = One(urpc = "give"), One(rcpc' = "recv") = One(rcpc = "recv")
        PROVE  RxCount'
    BY <1>3 DEF RxCount, Total
  <1>4. CASE UartRead
    BY <1>3, <1>4 DEF UartRead, One
  <1>5. CASE UartPut
    <2>1. /\ Total(uart_rx_queue') = Total(uart_rx_queue) + 1
          /\ \A p \in Prio : Len(uart_rx_queue'[p]) <= RxQSize
      BY <1>0, <1>5, PutCount DEF UartPut, RxCount
    <2>2. /\ One(urpc = "give") = 0 /\ One(urpc' = "give") = 1
          /\ One(rcpc' = "recv") = One(rcpc = "recv") /\ uart_rx_sem' = uart_rx_sem
      BY <1>5 DEF UartPut, One
    <2>3. Total(uart_rx_queue') = uart_rx_sem' + One(urpc' = "give") + One(rcpc' = "recv")
      BY <1>0, <1>1, <1>2, <2>1, <2>2 DEF RxCount
    <2> QED
      BY <2>1, <2>3 DEF RxCount
  <1>6. CASE UartGive
    <2>1. /\ One(urpc = "give") = 1 /\ One(urpc' = "give") = 0
          /\ One(rcpc' = "recv") = One(rcpc = "recv") /\ uart_rx_queue' = uart_rx_queue
      BY <1>6 DEF UartGive, One
    <2>2. uart_rx_sem < Total(uart_rx_queue)
      BY <1>0, <1>1, <1>2, <2>1 DEF RxCount
    <2>3. uart_rx_sem' = uart_rx_sem + 1
      BY <1>0, <1>6, <2>2, GiveCount DEF UartGive, RxCount
    <2>4. Total(uart_rx_queue) = uart_rx_sem' + One(urpc' = "give") + One(rcpc' = "recv")
      BY <1>0, <1>1, <1>2, <2>1, <2>3 DEF RxCount
    <2> QED
      BY <2>1, <2>4 DEF RxCount, Total
  <1>7. CASE TakeRx
    <2>1. /\ One(rcpc = "recv") = 0 /\ One(rcpc' = "recv") = 1 /\ uart_rx_sem' = uart_rx_sem - 1
          /\ One(urpc' = "give") = One(urpc = "give") /\ uart_rx_queue' = uart_rx_queue
      BY <1>7 DEF TakeRx, One
    <2>2. Total(uart_rx_queue) = uart_rx_sem' + One(urpc' = "give") + One(rcpc' = "recv")
      BY <1>0, <1>1, <1>2, <2>1 DEF RxCount
    <2> QED
      BY <2>1, <2>2 DEF RxCount, Total
  <1>8. CASE RecvRx
    <2>1. One(rcpc = "recv") = 1
      BY <1>8 DEF RecvRx, One
    <2>2. ~AllEmpty(uart_rx_queue)
      BY <1>0, <1>1, <1>2, <2>1 DEF RxCount
    <2>3. /\ uart_rx_queue' = Get(uart_rx_queue) /\ uart_rx_sem' = uart_rx_sem
          /\ One(urpc' = "give") = One(urpc = "give")
      BY <1>8, <2>2 DEF RecvRx
    <2>4. One(rcpc' = "recv") = 0
      BY <1>8 DEF RecvRx, One
    <2>5. /\ Total(uart_rx_queue') = Total(uart_rx_queue) - 1
          /\ \A p \in Prio : Len(uart_rx_queue'[p]) <= RxQSize
      BY <1>0, <2>2, <2>3, GetCount DEF RxCount
    <2>6. Total(uart_rx_queue') = uart_rx_sem' + One(urpc' = "give") + One(rcpc' = "recv")
      BY <1>0, <1>1, <1>2, <2>1, <2>3, <2>4, <2>5 DEF RxCount
    <2> QED
      BY <2>5, <2>6 DEF RxCount
  <1>9. CASE CopyFragment \/ DataReady \/ TornCopy
    BY <1>3, <1>9 DEF CopyFragment, DataReady, TornCopy, One
  <1>10. CASE \/ InitEvent \/ StartWriting \/ \E len \in MsgSizes : SerialWrite(len)
              \/ \E t \in Threads : SendPacket(t) \/ Transmit(t)
              \/ WriteTask \/ RaiseEvent \/ PserialRecv \/ SerialReadData \/ ReleaseR
    <2>1. UNCHANGED <<uart_rx_queue, uart_rx_sem, urpc, rcpc>>
      BY <1>10 DEF InitEvent, StartWriting, SerialWrite, SendPacket, Transmit, CheckTransport,
         PutPacket, GivePacket, WriteTask, TakeToSlave, RecvToSlave, WritePacket, RaiseEvent,
         PserialRecv, SerialReadData, ReleaseR
    <2> QED
      BY <1>3, <2>1
  <1>11. CASE UNCHANGED vars
    BY <1>3, <1>11 DEF vars
  <1> QED
    BY <1>4, <1>5, <1>6, <1>7, <1>8, <1>9, <1>10, <1>11
       DEF Next, Idle, UartRxTask, RecvTask, PserialTask

\* Nothing is queued and nobody is about to give when the two sides start.
LEMMA CountInit == Init => ToSlaveCount /\ RxCount
  <1> SUFFICES ASSUME Init PROVE ToSlaveCount /\ RxCount
    OBVIOUS
  <1>1. Giving = {}
    BY DEF Init, Giving
  <1>2. Cardinality(Giving) = 0
    BY <1>1, FS_EmptySet
  <1> DEFINE q == [p \in Prio |-> <<>>]
  <1>3. q \in [Prio -> Seq(Packet)] /\ AllEmpty(q)
    BY EmptySeq DEF AllEmpty
  <1>4. Total(q) = 0
    BY <1>3, TotalType
  <1>5. \A p \in Prio : Len(q[p]) = 0
    BY EmptySeq
  <1>6. /\ to_slave_queue = q /\ uart_rx_queue = q /\ sem_to_slave_queue = 0 /\ uart_rx_sem = 0
        /\ One(txpc = "recv") = 0 /\ One(urpc = "give") = 0 /\ One(rcpc = "recv") = 0 /\ tx_needed
    BY DEF Init, One
  <1> HIDE DEF q
  <1> QED
    BY <1>2, <1>4, <1>5, <1>6, LinkAssumption DEF ToSlaveCount, RxCount

\* A thread that takes one of the semaphores finds a packet, on both sides and in
\* every interleaving, so h_uart_write_task never clears tx_needed and never
\* drops what it takes: no give is lost to a full semaphore and none comes early.
THEOREM WakeupsHold == Spec => []WakeupsFindPackets
  <1> DEFINE Inv == LinkInv /\ ToSlaveCount /\ RxCount
  <1>1. Init => Inv
    BY LinkInit, CountInit
  <1>2. Inv /\ [Next]_vars => Inv'
    BY LinkStep, ToSlaveStep, RxStep
  <1>3. Inv => WakeupsFindPackets
    <2> SUFFICES ASSUME LinkInv, ToSlaveCount, RxCount PROVE WakeupsFindPackets
      OBVIOUS
    <2>1. TypeOK /\ uart_rx_sem \in Nat
      BY DEF LinkInv, TypeOK, SlaveTypeOK
    <2>2. txpc = "recv" => ~AllEmpty(to_slave_queue)
      <3>1. SUFFICES ASSUME txpc = "recv" PROVE Total(to_slave_queue) # 0
        BY <2>1, HostCounts
      <3>2. One(txpc = "recv") = 1
        BY <3>1 DEF One
      <3> QED
        BY <2>1, <3>2, HostCounts DEF ToSlaveCount
    <2>3. rcpc = "recv" => ~AllEmpty(uart_rx_queue)
      <3>1. SUFFICES ASSUME rcpc = "recv" PROVE Total(uart_rx_queue) # 0
        BY TotalType DEF LinkInv, TypeOK, SlaveTypeOK
      <3>2. One(rcpc = "recv") = 1 /\ One(urpc = "give") \in {0, 1}
        BY <3>1 DEF One
      <3> QED
        BY <2>1, <3>2 DEF RxCount
    <2> QED
      BY <2>2, <2>3 DEF WakeupsFindPackets, ToSlaveCount
  <1> QED
    BY <1>1, <1>2, <1>3, PTL DEF Spec
-----------------------------------------------------------------------------
(* r is handed over.                                                       *)

IsRequest(k) == req_queue[k].kind = "request"
Announced    == \E k \in 1 .. Len(req_queue) : IsRequest(k)

\* One request at most is announced, being announced or being read, and r is valid
\* then; r is valid only for such a request, or for one that found no memory.
Handover ==
    /\ \A k, l \in 1 .. Len(req_queue) : IsRequest(k) /\ IsRequest(l) => k = l
    /\ Announced => r_valid /\ pspc # "read" /\ rcpc # "ready"
    /\ pspc = "read" => r_valid /\ rcpc # "ready"
    /\ rcpc = "ready" => r_valid
    /\ r_valid => ooms > 0 \/ Announced \/ pspc = "read" \/ rcpc = "ready"

\* Of the requests in a queue that one is appended to or taken from.
LEMMA AppendedArg ==
  ASSUME NEW q \in Seq(Arg), NEW a \in Arg
  PROVE  /\ Append(q, a) \in Seq(Arg) /\ Len(Append(q, a)) = Len(q) + 1 /\ Len(q) \in Nat
         /\ Append(q, a)[Len(q) + 1] = a
         /\ \A k \in 1 .. Len(q) : Append(q, a)[k] = q[k]
  BY AppendProperties, LenProperties

LEMMA TakenArg ==
  ASSUME NEW q \in Seq(Arg), q # <<>>
  PROVE  /\ Head(q) = q[1] /\ Len(q) \in Nat /\ 1 \in 1 .. Len(q)
         /\ Len(Tail(q)) \in Nat /\ Len(q) = Len(Tail(q)) + 1
         /\ \A k \in 1 .. Len(Tail(q)) : Tail(q)[k] = q[k + 1]
  BY HeadTailProperties, LenProperties, EmptySeq

LEMMA HandoverStep ==
  ASSUME TypeOK, Handover, [Next]_vars
  PROVE  Handover'
  <1>1. /\ req_queue \in Seq(Arg) /\ r_data \in Seq(Byte) /\ ooms \in Nat
        /\ pspc \in {"recv", "read", "release"} /\ r_valid \in BOOLEAN
        /\ rcpc \in {"take", "recv", "serial", "ready"} /\ rcpkt.more \in BOOLEAN
    BY DEF TypeOK, SlaveTypeOK, Packet
  <1>2. CASE CopyFragment \/ TornCopy
    <2>1. /\ ~r_valid /\ rcpc = "serial" /\ UNCHANGED <<req_queue, ooms>>
          /\ \/ rcpc' = "ready" /\ r_valid'
             \/ rcpc' = "take" /\ ~r_valid'
          /\ pspc' = pspc \/ pspc' = "recv"
      BY <1>1, <1>2 DEF CopyFragment, TornCopy
    <2>2. ~Announced /\ pspc # "read"
      BY <2>1 DEF Handover
    <2>3. ~Announced' /\ pspc' # "read"
      BY <2>1, <2>2 DEF Announced, IsRequest
    <2>4. \A k \in 1 .. Len(req_queue) : ~IsRequest(k)'
      BY <2>1, <2>3 DEF Announced
    <2> QED
      BY <1>1, <2>1, <2>3, <2>4 DEF Handover
  <1>3. CASE DataReady
    <2>1. /\ rcpc = "ready" /\ rcpc' = "take" /\ UNCHANGED <<r_valid, pspc>>
          /\ \/ /\ req_queue' = Append(req_queue, [kind |-> "request", data |-> r_data])
                /\ ooms' = ooms
             \/ req_queue' = req_queue /\ ooms' = ooms + 1
      BY <1>3 DEF DataReady
    <2>2. r_valid /\ ~Announced /\ pspc # "read"
      BY <2>1 DEF Handover
    <2>3. \A k \in 1 .. Len(req_queue) : ~IsRequest(k)
      BY <2>2 DEF Announced
    <2>4. CASE req_queue' = req_queue /\ ooms' = ooms + 1
      <3>1. \A k \in 1 .. Len(req_queue') : ~IsRequest(k)'
        BY <2>3, <2>4 DEF IsRequest
      <3>2. ~Announced' /\ ooms' > 0
        BY <1>1, <2>4, <3>1 DEF Announced
      <3> QED
        BY <2>1, <2>2, <3>1, <3>2 DEF Handover
    <2>5. CASE req_queue' = Append(req_queue, [kind |-> "request", data |-> r_data]) /\ ooms' = ooms
      <3>1. [kind |-> "request", data |-> r_data] \in Arg
        BY <1>1 DEF Arg
      <3>2. /\ Len(req_queue') = Len(req_queue) + 1 /\ Len(req_queue) \in Nat
            /\ req_queue'[Len(req_queue) + 1].kind = "request"
            /\ \A k \in 1 .. Len(req_queue) : req_queue'[k] = req_queue[k]
        BY <1>1, <2>5, <3>1, AppendedArg
      <3>3. \A k \in 1 .. Len(req_queue') : IsRequest(k)' <=> k = Len(req_queue) + 1
        BY <2>3, <3>2 DEF IsRequest
      <3>4. Announced'
        BY <3>2, <3>3 DEF Announced
      <3> QED
        BY <2>1, <2>2, <3>3, <3>4 DEF Handover
    <2> QED
      BY <2>1, <2>4, <2>5
  <1>4. CASE RaiseEvent
    <2>1. /\ req_queue' = Append(req_queue, [kind |-> "event", data |-> <<>>])
          /\ UNCHANGED <<r_valid, pspc, rcpc, ooms>>
      BY <1>4 DEF RaiseEvent
    <2>2. [kind |-> "event", data |-> <<>>] \in Arg
      BY EmptySeq DEF Arg
    <2>3. /\ Len(req_queue') = Len(req_queue) + 1 /\ Len(req_queue) \in Nat
          /\ req_queue'[Len(req_queue) + 1].kind = "event"
          /\ \A k \in 1 .. Len(req_queue) : req_queue'[k] = req_queue[k]
      BY <1>1, <2>1, <2>2, AppendedArg
    <2>4. \A k \in 1 .. Len(req_queue') : IsRequest(k)' <=> k \in 1 .. Len(req_queue) /\ IsRequest(k)
      BY <2>3 DEF IsRequest
    <2>5. Announced' <=> Announced
      BY <2>3, <2>4 DEF Announced
    <2> QED
      BY <2>1, <2>4, <2>5 DEF Handover
  <1>5. CASE PserialRecv
    <2>1. /\ req_queue # <<>> /\ req_queue' = Tail(req_queue) /\ pspc = "recv"
          /\ UNCHANGED <<r_valid, rcpc, ooms>>
          /\ pspc' = IF Head(req_queue).kind = "event" THEN pspc ELSE "read"
      BY <1>5 DEF PserialRecv
    <2>2. /\ Head(req_queue) = req_queue[1] /\ Len(req_queue) \in Nat /\ 1 \in 1 .. Len(req_queue)
          /\ Len(req_queue') \in Nat /\ Len(req_queue) = Len(req_queue') + 1
          /\ \A k \in 1 .. Len(req_queue') : req_queue'[k] = req_queue[k + 1]
      BY <1>1, <2>1, TakenArg
    <2>3. \A k \in 1 .. Len(req_queue') : k + 1 \in 1 .. Len(req_queue) /\ (IsRequest(k)' <=> IsRequest(k + 1))
      BY <2>2 DEF IsRequest
    <2>4. \A k, l \in 1 .. Len(req_queue') : IsRequest(k)' /\ IsRequest(l)' => k = l
      <3> TAKE k, l \in 1 .. Len(req_queue')
      <3>1. IsRequest(k)' /\ IsRequest(l)' => k + 1 = l + 1
        BY <2>3 DEF Handover
      <3> QED
        BY <2>2, <3>1
    <2>5. CASE IsRequest(1)
      <3>1. pspc' = "read"
        BY <2>1, <2>2, <2>5 DEF IsRequest
      <3>2. Announced
        BY <2>2, <2>5 DEF Announced
      <3>3. ~Announced'
        <4> SUFFICES ASSUME NEW k \in 1 .. Len(req_queue'), IsRequest(k)' PROVE FALSE
          BY DEF Announced
        <4>1. k + 1 = 1
          BY <2>2, <2>3, <2>5 DEF Handover
        <4> QED
          BY <2>2, <4>1
      <3> QED
        BY <2>1, <2>4, <3>1, <3>2, <3>3 DEF Handover
    <2>6. CASE ~IsRequest(1)
      <3>1. pspc' = "recv"
        <4>1. req_queue[1] \in Arg
          BY <1>1, <2>2, ElementOfSeq
        <4>2. req_queue[1].kind = "event"
          BY <2>6, <4>1 DEF IsRequest, Arg
        <4> QED
          BY <2>1, <2>2, <4>2
      <3>2. Announced' <=> Announced
        <4>1. Announced' => Announced
          BY <2>3 DEF Announced
        <4>2. ASSUME NEW k \in 1 .. Len(req_queue), IsRequest(k) PROVE Announced'
          <5>1. k # 1 /\ k - 1 \in 1 .. Len(req_queue') /\ (k - 1) + 1 = k
            BY <2>2, <2>6, <4>2
          <5> QED
            BY <2>3, <4>2, <5>1 DEF Announced
        <4> QED
          BY <4>1, <4>2 DEF Announced
      <3> QED
        BY <2>1, <2>4, <3>1, <3>2 DEF Handover
    <2> QED
      BY <2>5, <2>6
  <1>6. CASE SerialReadData
    <2>1. /\ pspc = "read" /\ UNCHANGED <<req_queue, rcpc, ooms>>
          /\ r_valid => ~r_valid' /\ pspc' = "release"
      BY <1>6 DEF SerialReadData
    <2>2. r_valid /\ ~Announced /\ rcpc # "ready"
      BY <2>1 DEF Handover
    <2>3. ~Announced' /\ \A k \in 1 .. Len(req_queue) : ~IsRequest(k)'
      BY <2>1, <2>2 DEF Announced, IsRequest
    <2> QED
      BY <2>1, <2>2, <2>3 DEF Handover
  <1>7. CASE ReleaseR
    <2>1. pspc = "release" /\ pspc' = "recv" /\ UNCHANGED <<req_queue, rcpc, ooms, r_valid>>
      BY <1>7 DEF ReleaseR
    <2> QED
      BY <2>1 DEF Handover, Announced, IsRequest
  <1>8. CASE TakeRx \/ RecvRx
    <2>1. /\ rcpc # "ready" /\ rcpc' # "ready" /\ UNCHANGED <<req_queue, r_valid, pspc, ooms>>
      BY <1>8 DEF TakeRx, RecvRx
    <2> QED
      BY <2>1 DEF Handover, Announced, IsRequest
  <1>9. ASSUME UNCHANGED <<req_queue, r_valid, pspc, rcpc, ooms>> PROVE Handover'
    BY <1>9 DEF Handover, Announced, IsRequest
  <1>10. CASE \/ InitEvent \/ StartWriting \/ \E len \in MsgSizes : SerialWrite(len)
              \/ \E t \in Threads : SendPacket(t) \/ Transmit(t)
              \/ WriteTask \/ UartRxTask
    BY <1>9, <1>10 DEF InitEvent, StartWriting, SerialWrite, SendPacket, Transmit, CheckTransport,
       PutPacket, GivePacket, WriteTask, TakeToSlave, RecvToSlave, WritePacket, UartRxTask,
       UartRead, UartPut, UartGive
  <1>11. CASE UNCHANGED vars
    BY <1>9, <1>11 DEF vars
  <1> QED
    BY <1>2, <1>3, <1>4, <1>5, <1>6, <1>7, <1>8, <1>10, <1>11
       DEF Next, Idle, RecvTask, PserialTask

LEMMA HandoverInit == Init => Handover
  BY EmptySeq DEF Init, Handover, Announced, IsRequest

\* recv_task and pserial_task hand r over through req_queue without a lock: a request
\* that is announced or being read is in r, which is valid, and no second one is
\* announced before it is read, also when a release is torn or memory is short.
THEOREM HandedOver == Spec => []OneOwnerOfR
  <1>1. LinkInv /\ Handover /\ [Next]_vars => Handover'
    BY HandoverStep DEF LinkInv
  <1>2. LinkInv /\ Handover => OneOwnerOfR
    <2> SUFFICES ASSUME LinkInv, Handover PROVE OneOwnerOfR
      OBVIOUS
    <2> DEFINE R == {k \in DOMAIN req_queue : req_queue[k].kind = "request"}
    <2>1. DOMAIN req_queue = 1 .. Len(req_queue)
      BY LenProperties DEF LinkInv, TypeOK, SlaveTypeOK
    <2>2. /\ Announced <=> R # {}
          /\ \A k, l \in R : k = l
      BY <2>1 DEF Handover, Announced, IsRequest
    <2>3. CASE R = {}
      <3>1. Cardinality(R) = 0
        BY <2>3, FS_EmptySet
      <3> QED
        BY <3>1 DEF Handover, OneOwnerOfR
    <2>4. CASE R # {}
      <3>1. PICK k : R = {k}
        BY <2>2, <2>4
      <3>2. Cardinality(R) = 1
        BY <3>1, FS_Singleton
      <3> QED
        BY <2>2, <2>4, <3>2 DEF Handover, OneOwnerOfR
    <2> QED
      BY <2>3, <2>4
  <1> QED
    BY <1>1, <1>2, HandoverInit, LinkHolds, PTL DEF Spec
-----------------------------------------------------------------------------
(* Where the fragments are.                                                *)

\* Only the packets of serial_ll_write carry a buffer, and they go to the first queue.
Sane(x)  == IF x.buf = 0 THEN x.prio # 1 /\ x.free = 0 ELSE x.prio = 1
Lanes(q) == \A p \in Prio : \A k \in 1 .. Len(q[p]) : q[p][k].prio = p /\ Sane(q[p][k])
Lined ==
    /\ Lanes(to_slave_queue) /\ Lanes(uart_rx_queue)
    /\ \A k \in 1 .. Len(wire) : Sane(wire[k])
    /\ Sane(txpkt) /\ Sane(urpkt)
    /\ txpc # "write" => txpkt = None
    /\ \A t \in Threads : Sane(tpkt[t]) /\ (t # Writer => tpkt[t].buf = 0)

\* What putting and getting do to each queue.
LEMMA PutAt ==
  ASSUME NEW q \in [Prio -> Seq(Packet)], NEW pkt \in Packet
  PROVE  /\ pkt.prio \in Prio
         /\ \A p \in Prio : Put(q, pkt)[p] = IF p = pkt.prio THEN Append(q[p], pkt) ELSE q[p]
  BY DEF Put, Packet

LEMMA GetAt ==
  ASSUME NEW q \in [Prio -> Seq(Packet)], ~AllEmpty(q)
  PROVE  /\ First(q) \in Prio /\ q[First(q)] # <<>>
         /\ \A p \in Prio : Get(q)[p] = IF p = First(q) THEN Tail(q[p]) ELSE q[p]
         /\ Head(q[First(q)]) = q[First(q)][1] /\ 1 \in 1 .. Len(q[First(q)])
         /\ Head(q[First(q)]) \in Packet
  <1>1. First(q) \in Prio /\ q[First(q)] # <<>> /\ q[First(q)] \in Seq(Packet)
    BY GetType
  <1>2. /\ Head(q[First(q)]) = q[First(q)][1] /\ 1 \in 1 .. Len(q[First(q)])
        /\ Head(q[First(q)]) \in Packet
    BY <1>1, HeadTailProperties, LenProperties, EmptySeq
  <1> QED
    BY <1>1, <1>2 DEF Get

\* The elements of a sequence of packets after an append, and after its head is gone.
LEMMA AppendedPkt ==
  ASSUME NEW q \in Seq(Packet), NEW a \in Packet
  PROVE  /\ Append(q, a) \in Seq(Packet) /\ Len(Append(q, a)) = Len(q) + 1 /\ Len(q) \in Nat
         /\ Append(q, a)[Len(q) + 1] = a
         /\ \A k \in 1 .. Len(q) : Append(q, a)[k] = q[k]
  BY AppendProperties, LenProperties

LEMMA TakenPkt ==
  ASSUME NEW q \in Seq(Packet), q # <<>>
  PROVE  /\ Head(q) = q[1] /\ Head(q) \in Packet /\ Len(q) \in Nat /\ 1 \in 1 .. Len(q)
         /\ Tail(q) \in Seq(Packet) /\ Len(Tail(q)) \in Nat /\ Len(q) = Len(Tail(q)) + 1
         /\ \A k \in 1 .. Len(Tail(q)) : Tail(q)[k] = q[k + 1]
  BY HeadTailProperties, LenProperties, EmptySeq

LEMMA LanesPut ==
  ASSUME NEW q \in [Prio -> Seq(Packet)], NEW pkt \in Packet, Sane(pkt), Lanes(q)
  PROVE  Lanes(Put(q, pkt))
  <1> SUFFICES ASSUME NEW p \in Prio, NEW k \in 1 .. Len(Put(q, pkt)[p])
               PROVE  Put(q, pkt)[p][k].prio = p /\ Sane(Put(q, pkt)[p][k])
    BY DEF Lanes
  <1>1. CASE p = pkt.prio
    <2>1. Put(q, pkt)[p] = Append(q[p], pkt) /\ q[p] \in Seq(Packet)
      BY <1>1, PutAt
    <2>2. CASE k = Len(q[p]) + 1
      BY <1>1, <2>1, <2>2, AppendedPkt
    <2>3. CASE k # Len(q[p]) + 1
      <3>1. k \in 1 .. Len(q[p]) /\ Put(q, pkt)[p][k] = q[p][k]
        BY <2>1, <2>3, AppendedPkt
      <3> QED
        BY <3>1 DEF Lanes
    <2> QED
      BY <2>2, <2>3
  <1>2. CASE p # pkt.prio
    <2>1. Put(q, pkt)[p] = q[p]
      BY <1>2, PutAt
    <2> QED
      BY <2>1 DEF Lanes
  <1> QED
    BY <1>1, <1>2

LEMMA LanesGet ==
  ASSUME NEW q \in [Prio -> Seq(Packet)], ~AllEmpty(q), Lanes(q)
  PROVE  /\ Lanes(Get(q)) /\ Sane(Head(q[First(q)])) /\ Head(q[First(q)]).prio = First(q)
  <1>1. Sane(Head(q[First(q)])) /\ Head(q[First(q)]).prio = First(q)
    BY GetAt DEF Lanes
  <1>2. ASSUME NEW p \in Prio, NEW k \in 1 .. Len(Get(q)[p])
        PROVE  Get(q)[p][k].prio = p /\ Sane(Get(q)[p][k])
    <2>1. CASE p = First(q)
      <3>1. Get(q)[p] = Tail(q[p]) /\ q[p] \in Seq(Packet) /\ q[p] # <<>>
        BY <2>1, GetAt
      <3>2. k + 1 \in 1 .. Len(q[p]) /\ Get(q)[p][k] = q[p][k + 1]
        BY <3>1, TakenPkt
      <3> QED
        BY <3>2 DEF Lanes
    <2>2. CASE p # First(q)
      <3>1. Get(q)[p] = q[p]
        BY <2>2, GetAt
      <3> QED
        BY <3>1 DEF Lanes
    <2> QED
      BY <2>1, <2>2
  <1> QED
    BY <1>1, <1>2 DEF Lanes

LEMMA SaneNone == Sane(None) /\ None.buf = 0
  BY DEF Sane, None

\* What a thread transmits goes to its lane.
LEMMA SanePacket ==
  ASSUME LinkInv, NEW t \in Threads, tpc[t] # "idle"
  PROVE  Sane(PacketOf(t)) /\ (t # Writer => PacketOf(t).buf = 0)
  <1>1. CASE t = Writer
    <2>1. PacketOf(t) = Fragment(Len(sent), woff)
      BY <1>1 DEF PacketOf
    <2>2. Len(sent) \in Nat /\ Len(sent) # 0
      BY <1>1, EmptySeq, LenProperties DEF LinkInv, TypeOK, HostTypeOK, WriterInv
    <2>3. Fragment(Len(sent), woff).buf = Len(sent) /\ Fragment(Len(sent), woff).prio = 1
      BY DEF Fragment
    <2> QED
      BY <1>1, <2>1, <2>2, <2>3 DEF Sane
  <1>2. CASE t # Writer
    <2>1. (IF t = Boot THEN 3 ELSE SenderPrio[t]) \in 2 .. 3
      BY <1>2, ThreadsAssumption DEF Threads
    <2>2. /\ PacketOf(t).buf = 0 /\ PacketOf(t).free = 0
          /\ PacketOf(t).prio = IF t = Boot THEN 3 ELSE SenderPrio[t]
      BY <1>2 DEF PacketOf, None
    <2> QED
      BY <2>1, <2>2 DEF Sane
  <1> QED
    BY <1>1, <1>2

LEMMA LinedStep ==
  ASSUME LinkInv, tx_needed, Lined, [Next]_vars
  PROVE  Lined'
  <1>1. /\ to_slave_queue \in [Prio -> Seq(Packet)] /\ uart_rx_queue \in [Prio -> Seq(Packet)]
        /\ tpkt \in [Threads -> Packet] /\ txpkt \in Packet /\ urpkt \in Packet
        /\ wire \in Seq(Packet)
    BY DEF LinkInv, TypeOK, HostTypeOK, SlaveTypeOK
  <1>2. ASSUME NEW t \in Threads, CheckTransport(t) PROVE Lined'
    <2>1. UNCHANGED <<to_slave_queue, uart_rx_queue, wire, txpkt, urpkt, txpc>>
      BY <1>2 DEF CheckTransport
    <2>2. tpkt' = tpkt \/ tpkt' = [tpkt EXCEPT ![t] = PacketOf(t)]
      BY <1>2 DEF CheckTransport
    <2>3. Sane(PacketOf(t)) /\ (t # Writer => PacketOf(t).buf = 0)
      BY <1>2, SanePacket DEF CheckTransport
    <2>4. \A u \in Threads : tpkt'[u] = tpkt[u] \/ (u = t /\ tpkt'[u] = PacketOf(t))
      BY <1>1, <2>2
    <2>5. \A u \in Threads : Sane(tpkt'[u]) /\ (u # Writer => tpkt'[u].buf = 0)
      BY <2>3, <2>4 DEF Lined
    <2> QED
      BY <2>1, <2>5 DEF Lined
  <1>3. ASSUME NEW t \in Threads, PutPacket(t) PROVE Lined'
    <2>1. /\ UNCHANGED <<tpkt, uart_rx_queue, wire, txpkt, urpkt, txpc>>
          /\ to_slave_queue' = Put(to_slave_queue, tpkt[t])
      BY <1>3 DEF PutPacket
    <2>2. Lanes(to_slave_queue')
      BY <1>1, <2>1, LanesPut DEF Lined
    <2> QED
      BY <2>1, <2>2 DEF Lined
  <1>4. ASSUME NEW t \in Threads, GivePacket(t) PROVE Lined'
    <2>1. /\ UNCHANGED <<to_slave_queue, uart_rx_queue, wire, txpkt, urpkt, txpc>>
          /\ tpkt' = [tpkt EXCEPT ![t] = None]
      BY <1>4 DEF GivePacket
    <2>2. \A u \in Threads : tpkt'[u] = tpkt[u] \/ tpkt'[u] = None
      BY <1>1, <2>1
    <2>3. \A u \in Threads : Sane(tpkt'[u]) /\ (u # Writer => tpkt'[u].buf = 0)
      BY <2>2, SaneNone DEF Lined
    <2> QED
      BY <2>1, <2>3 DEF Lined
  <1>5. CASE RecvToSlave
    <2>1. UNCHANGED <<tpkt, uart_rx_queue, wire, urpkt>>
      BY <1>5 DEF RecvToSlave
    <2>2. CASE AllEmpty(to_slave_queue)
      <3>1. UNCHANGED <<to_slave_queue, txpkt>> /\ txpc = "recv"
        BY <1>5, <2>2 DEF RecvToSlave
      <3> QED
        BY <2>1, <3>1 DEF Lined
    <2>3. CASE ~AllEmpty(to_slave_queue)
      <3>1. /\ to_slave_queue' = Get(to_slave_queue) /\ txpc' = "write"
            /\ txpkt' = Head(to_slave_queue[First(to_slave_queue)])
        BY <1>5, <2>3 DEF RecvToSlave
      <3>2. Lanes(to_slave_queue') /\ Sane(txpkt')
        BY <1>1, <2>3, <3>1, LanesGet DEF Lined
      <3> QED
        BY <2>1, <3>1, <3>2 DEF Lined
    <2> QED
      BY <2>2, <2>3
  <1>6. CASE WritePacket
    <2>1. /\ UNCHANGED <<tpkt, uart_rx_queue, to_slave_queue, urpkt>> /\ txpkt' = None
          /\ wire' = wire \/ wire' = Append(wire, txpkt)
      BY <1>6 DEF WritePacket
    <2>2. \A k \in 1 .. Len(wire') : Sane(wire'[k])
      <3>1. CASE wire' = wire
        BY <3>1 DEF Lined
      <3>2. CASE wire' = Append(wire, txpkt)
        <4> TAKE k \in 1 .. Len(wire')
        <4>1. (k \in 1 .. Len(wire) /\ wire'[k] = wire[k]) \/ wire'[k] = txpkt
          BY <1>1, <3>2, AppendedPkt
        <4> QED
          BY <4>1 DEF Lined
      <3> QED
        BY <2>1, <3>1, <3>2
    <2> QED
      BY <2>1, <2>2, SaneNone DEF Lined
  <1>7. CASE UartRead
    <2>1. /\ UNCHANGED <<tpkt, uart_rx_queue, to_slave_queue, txpkt, txpc>>
          /\ wire # <<>> /\ wire' = Tail(wire) /\ (urpkt' = urpkt \/ urpkt' = Head(wire))
      BY <1>7 DEF UartRead
    <2>2. /\ Head(wire) = wire[1] /\ 1 \in 1 .. Len(wire)
          /\ \A k \in 1 .. Len(wire') : k + 1 \in 1 .. Len(wire) /\ wire'[k] = wire[k + 1]
      BY <1>1, <2>1, TakenPkt
    <2>3. Sane(urpkt') /\ \A k \in 1 .. Len(wire') : Sane(wire'[k])
      BY <2>1, <2>2 DEF Lined
    <2> QED
      BY <2>1, <2>3 DEF Lined
  <1>8. CASE UartPut
    <2>1. /\ UNCHANGED <<tpkt, to_slave_queue, wire, txpkt, urpkt, txpc>>
          /\ uart_rx_queue' = Put(uart_rx_queue, urpkt)
      BY <1>8 DEF UartPut
    <2>2. Lanes(uart_rx_queue')
      BY <1>1, <2>1, LanesPut DEF Lined
    <2> QED
      BY <2>1, <2>2 DEF Lined
  <1>9. CASE UartGive
    BY <1>9, SaneNone DEF UartGive, Lined
  <1>10. CASE RecvRx
    <2>1. /\ UNCHANGED <<tpkt, to_slave_queue, wire, txpkt, urpkt, txpc>>
          /\ uart_rx_queue' = IF AllEmpty(uart_rx_queue) THEN uart_rx_queue ELSE Get(uart_rx_queue)
      BY <1>10 DEF RecvRx
    <2>2. Lanes(uart_rx_queue')
      BY <1>1, <2>1, LanesGet DEF Lined
    <2> QED
      BY <2>1, <2>2 DEF Lined
  <1>11. ASSUME UNCHANGED <<tpkt, to_slave_queue, uart_rx_queue, wire, txpkt, urpkt>>,
                txpc' = txpc \/ (txpc # "write" /\ txpc' # "write")
         PROVE  Lined'
    BY <1>11 DEF Lined
  <1>12. CASE \/ InitEvent \/ StartWriting \/ \E len \in MsgSizes : SerialWrite(len)
              \/ \E t \in Threads : SendPacket(t)
              \/ TakeToSlave \/ TakeRx \/ CopyFragment \/ DataReady \/ RaiseEvent \/ PserialTask
    BY <1>11, <1>12 DEF InitEvent, StartWriting, SerialWrite, SendPacket, TakeToSlave, TakeRx,
       CopyFragment, DataReady, RaiseEvent, PserialTask, PserialRecv, SerialReadData, ReleaseR,
       TornCopy
  <1>13. CASE UNCHANGED vars
    BY <1>11, <1>13 DEF vars
  <1> QED
    BY <1>2, <1>3, <1>4, <1>5, <1>6, <1>7, <1>8, <1>9, <1>10, <1>12, <1>13
       DEF Next, Idle, Transmit, WriteTask, UartRxTask, RecvTask

LEMMA LinedInit == Init => Lined
  <1> SUFFICES ASSUME Init PROVE Lined
    OBVIOUS
  <1>1. \A p \in Prio : Len(to_slave_queue[p]) = 0 /\ Len(uart_rx_queue[p]) = 0
    BY EmptySeq DEF Init
  <1>2. Lanes(to_slave_queue) /\ Lanes(uart_rx_queue)
    BY <1>1 DEF Lanes
  <1> QED
    BY <1>2, SaneNone, EmptySeq DEF Init, Lined
-----------------------------------------------------------------------------
(* Before the transport is up, and what serial_ll_write accepted.          *)

\* Until the INIT event nothing is transmitted, and a request that was accepted is
\* about to be refused.
Fresh ==
    ~tx_ready =>
        /\ \A t \in Threads : tpc[t] \in {"idle", "check"}
        /\ AllEmpty(to_slave_queue) /\ sem_to_slave_queue = 0 /\ txpc = "take" /\ freed = {}
        /\ wire = <<>> /\ urpc = "read" /\ AllEmpty(uart_rx_queue) /\ uart_rx_sem = 0
        /\ rcpc = "take" /\ ~r_valid /\ r_data = <<>> /\ pspc = "recv" /\ got = <<>>
        /\ ~Announced /\ woff = 0
        /\ Len(sent) = IF tpc[Writer] = "check" THEN 1 ELSE 0

\* Byte k of request m is the pair <<m, k>>.
SentOK == \A m \in 1 .. Len(sent) : Len(sent[m]) > 0 /\ sent[m] = Bytes(m, Len(sent[m]))

LEMMA FreshInit == Init => Fresh
  BY EmptySeq DEF Init, Fresh, AllEmpty, Announced, Threads

LEMMA FreshStep ==
  ASSUME LinkInv, Fresh, [Next]_vars
  PROVE  Fresh'
  <1> SUFFICES ASSUME ~tx_ready' PROVE Fresh'
    BY DEF Fresh
  <1>0. /\ tpc \in [Threads -> {"idle", "check", "put", "give"}] /\ Writer \in Threads
        /\ req_queue \in Seq(Arg) /\ sent \in Seq(Seq(Byte)) /\ Len(sent) \in Nat
        /\ tx_ready \in BOOLEAN
    BY LenProperties DEF LinkInv, TypeOK, HostTypeOK, SlaveTypeOK, Threads
  <1>1. ~tx_ready
    BY DEF Next, InitEvent, StartWriting, SerialWrite, SendPacket, Transmit, CheckTransport,
       PutPacket, GivePacket, WriteTask, TakeToSlave, RecvToSlave, WritePacket, UartRxTask,
       UartRead, UartPut, UartGive, RecvTask, TakeRx, RecvRx, CopyFragment, DataReady,
       RaiseEvent, PserialTask, PserialRecv, SerialReadData, ReleaseR, TornCopy, Idle, vars
  <1>2. ASSUME UNCHANGED <<tx_ready, tpc, to_slave_queue, sem_to_slave_queue, txpc, freed, wire,
                           urpc, uart_rx_queue, uart_rx_sem, rcpc, r_valid, r_data, pspc, got,
                           woff, sent>>, ~Announced'
        PROVE  Fresh'
    BY <1>2 DEF Fresh
  <1>3. ASSUME UNCHANGED <<tx_ready, to_slave_queue, sem_to_slave_queue, txpc, freed, wire,
                           urpc, uart_rx_queue, uart_rx_sem, rcpc, r_valid, r_data, pspc, got,
                           req_queue>>,
               \A t \in Threads : tpc'[t] \in {"idle", "check"}, woff' = 0,
               Len(sent') = IF tpc'[Writer] = "check" THEN 1 ELSE 0
        PROVE  Fresh'
    BY <1>1, <1>3 DEF Fresh, Announced, IsRequest
  <1>4. ASSUME NEW len \in MsgSizes, SerialWrite(len) PROVE Fresh'
    <2>1. /\ UNCHANGED <<tx_ready, to_slave_queue, sem_to_slave_queue, txpc, freed, wire,
                         urpc, uart_rx_queue, uart_rx_sem, rcpc, r_valid, r_data, pspc, got,
                         req_queue>>
          /\ woff' = 0 /\ tpc[Writer] = "idle"
      BY <1>4 DEF SerialWrite
    <2>2. CASE len <= BufSize
      <3>1. tpc' = [tpc EXCEPT ![Writer] = "check"] /\ \E b : sent' = Append(sent, b)
        BY <1>4, <2>2 DEF SerialWrite
      <3>2. Len(sent') = Len(sent) + 1
        BY <1>0, <3>1, AppendProperties, LenProperties
      <3>3. \A t \in Threads : tpc'[t] \in {"idle", "check"} /\ tpc'[Writer] = "check"
        BY <1>0, <1>1, <3>1 DEF Fresh
      <3>4. Len(sent) = 0
        BY <1>1, <2>1 DEF Fresh
      <3> QED
        BY <1>0, <1>3, <2>1, <3>2, <3>3, <3>4
    <2>3. CASE ~(len <= BufSize)
      <3>1. tpc' = tpc /\ sent' = sent
        BY <1>4, <2>3 DEF SerialWrite
      <3> QED
        BY <1>1, <1>3, <2>1, <3>1 DEF Fresh
    <2> QED
      BY <2>2, <2>3
  <1>5. ASSUME NEW t \in Threads, SendPacket(t) PROVE Fresh'
    <2>1. /\ UNCHANGED <<tx_ready, to_slave_queue, sem_to_slave_queue, txpc, freed, wire,
                         urpc, uart_rx_queue, uart_rx_sem, rcpc, r_valid, r_data, pspc, got,
                         req_queue, woff, sent>>
          /\ t # Writer /\ tpc' = [tpc EXCEPT ![t] = "check"]
      BY <1>5, ThreadsAssumption DEF SendPacket
    <2>2. \A u \in Threads : tpc'[u] \in {"idle", "check"}
      BY <1>0, <1>1, <2>1 DEF Fresh
    <2>3. tpc'[Writer] = tpc[Writer] /\ woff' = 0
      BY <1>0, <1>1, <2>1 DEF Fresh
    <2> QED
      BY <1>1, <1>3, <2>1, <2>2, <2>3 DEF Fresh
  <1>6. ASSUME NEW t \in Threads, CheckTransport(t) PROVE Fresh'
    <2>1. /\ UNCHANGED <<tx_ready, to_slave_queue, sem_to_slave_queue, txpc, freed, wire,
                         urpc, uart_rx_queue, uart_rx_sem, rcpc, r_valid, r_data, pspc, got,
                         req_queue, woff>>
          /\ tpc[t] = "check" /\ tpc' = [tpc EXCEPT ![t] = "idle"]
          /\ sent' = IF t = Writer THEN SubSeq(sent, 1, Len(sent) - 1) ELSE sent
      BY <1>1, <1>6 DEF CheckTransport
    <2>2. \A u \in Threads : tpc'[u] \in {"idle", "check"}
      BY <1>0, <1>1, <2>1 DEF Fresh
    <2>3. woff' = 0
      BY <1>1, <2>1 DEF Fresh
    <2>4. CASE t = Writer
      <3>1. Len(sent) = 1 /\ tpc'[Writer] = "idle"
        BY <1>0, <1>1, <2>1, <2>4 DEF Fresh
      <3>2. sent' = SubSeq(sent, 0 + 1, 0 + 0)
        BY <2>1, <2>4, <3>1
      <3>3. Len(sent') = 0
        BY <1>0, <3>1, <3>2, SubSeqType
      <3> QED
        BY <1>3, <2>1, <2>2, <2>3, <3>1, <3>3
    <2>5. CASE t # Writer
      <3>1. tpc'[Writer] = tpc[Writer] /\ sent' = sent
        BY <1>0, <2>1, <2>5
      <3> QED
        BY <1>1, <1>3, <2>1, <2>2, <2>3, <3>1 DEF Fresh
    <2> QED
      BY <2>4, <2>5
  <1>7. CASE RaiseEvent
    <2>1. /\ UNCHANGED <<tx_ready, tpc, to_slave_queue, sem_to_slave_queue, txpc, freed, wire,
                         urpc, uart_rx_queue, uart_rx_sem, rcpc, r_valid, r_data, pspc, got,
                         woff, sent>>
          /\ req_queue' = Append(req_queue, [kind |-> "event", data |-> <<>>])
      BY <1>7 DEF RaiseEvent
    <2>2. [kind |-> "event", data |-> <<>>] \in Arg
      BY EmptySeq DEF Arg
    <2>3. \A k \in 1 .. Len(req_queue') :
             \/ k \in 1 .. Len(req_queue) /\ req_queue'[k] = req_queue[k]
             \/ req_queue'[k] = [kind |-> "event", data |-> <<>>]
      BY <1>0, <2>1, <2>2, AppendedArg
    <2>4. ~Announced'
      BY <1>1, <2>3 DEF Fresh, Announced, IsRequest
    <2> QED
      BY <1>2, <2>1, <2>4
  <1>8. CASE PserialRecv
    <2>1. req_queue # <<>> /\ req_queue' = Tail(req_queue)
      BY <1>8 DEF PserialRecv
    <2>2. /\ Head(req_queue) = req_queue[1] /\ 1 \in 1 .. Len(req_queue)
          /\ \A k \in 1 .. Len(req_queue') :
                k + 1 \in 1 .. Len(req_queue) /\ req_queue'[k] = req_queue[k + 1]
      BY <1>0, <2>1, TakenArg
    <2>3. ~Announced' /\ Head(req_queue).kind # "request"
      BY <1>1, <2>2 DEF Fresh, Announced, IsRequest
    <2>4. Head(req_queue).kind = "event"
      <3>1. Head(req_queue) \in Arg
        BY <1>0, <2>1, HeadTailProperties
      <3> QED
        BY <2>3, <3>1 DEF Arg
    <2>5. UNCHANGED <<tx_ready, tpc, to_slave_queue, sem_to_slave_queue, txpc, freed, wire,
                      urpc, uart_rx_queue, uart_rx_sem, rcpc, r_valid, r_data, pspc, got,
                      woff, sent>>
      BY <1>8, <2>4 DEF PserialRecv
    <2> QED
      BY <1>2, <2>3, <2>5
  <1>9. CASE StartWriting \/ UNCHANGED vars
    <2>1. UNCHANGED <<tx_ready, tpc, to_slave_queue, sem_to_slave_queue, txpc, freed, wire,
                      urpc, uart_rx_queue, uart_rx_sem, rcpc, r_valid, r_data, pspc, got,
                      woff, sent, req_queue>>
      BY <1>9 DEF StartWriting, vars
    <2>2. ~Announced'
      BY <1>1, <2>1 DEF Fresh, Announced, IsRequest
    <2> QED
      BY <1>2, <2>1, <2>2
  <1>10. /\ ~InitEvent /\ ~WriteTask /\ ~UartRxTask /\ ~RecvTask
         /\ ~SerialReadData /\ ~ReleaseR /\ ~TornCopy
         /\ \A t \in Threads : ~PutPacket(t) /\ ~GivePacket(t)
    <2>1. /\ sem_to_slave_queue = 0 /\ txpc = "take" /\ wire = <<>> /\ urpc = "read"
          /\ uart_rx_sem = 0 /\ rcpc = "take" /\ pspc = "recv"
          /\ \A t \in Threads : tpc[t] \in {"idle", "check"}
      BY <1>1 DEF Fresh
    <2> QED
      BY <2>1 DEF InitEvent, WriteTask, TakeToSlave, RecvToSlave, WritePacket, UartRxTask,
         UartRead, UartPut, UartGive, RecvTask, TakeRx, RecvRx, CopyFragment, DataReady,
         SerialReadData, ReleaseR, TornCopy, PutPacket, GivePacket
  <1> QED
    BY <1>4, <1>5, <1>6, <1>7, <1>8, <1>9, <1>10 DEF Next, Idle, Transmit, PserialTask

LEMMA SentInit == Init => SentOK
  BY EmptySeq DEF Init, SentOK

\* A step leaves the accepted requests alone, adds one, or takes back the last one.
LEMMA SentMoves ==
  ASSUME LinkInv, [Next]_vars
  PROVE  \/ sent' = sent
         \/ \E len \in MsgSizes : sent' = Append(sent, Bytes(Len(sent) + 1, len))
         \/ sent # <<>> /\ ~tx_ready /\ ~tx_ready' /\ sent' = SubSeq(sent, 1, Len(sent) - 1)
  <1>1. ASSUME NEW t \in Threads, CheckTransport(t)
        PROVE  \/ sent' = sent
               \/ sent # <<>> /\ ~tx_ready /\ ~tx_ready' /\ sent' = SubSeq(sent, 1, Len(sent) - 1)
    <2>1. CASE t = Writer /\ ~tx_ready
      <3>1. sent # <<>>
        BY <1>1, <2>1 DEF CheckTransport, LinkInv, WriterInv
      <3> QED
        BY <1>1, <2>1, <3>1 DEF CheckTransport
    <2>2. CASE t # Writer \/ tx_ready
      BY <1>1, <2>2 DEF CheckTransport
    <2> QED
      BY <2>1, <2>2
  <1>2. ASSUME NEW len \in MsgSizes, SerialWrite(len)
        PROVE  sent' = sent \/ sent' = Append(sent, Bytes(Len(sent) + 1, len))
    BY <1>2 DEF SerialWrite
  <1> QED
    BY <1>1, <1>2 DEF Next, InitEvent, StartWriting, SendPacket, Transmit,
       PutPacket, GivePacket, WriteTask, TakeToSlave, RecvToSlave, WritePacket, UartRxTask,
       UartRead, UartPut, UartGive, RecvTask, TakeRx, RecvRx, CopyFragment, DataReady,
       RaiseEvent, PserialTask, PserialRecv, SerialReadData, ReleaseR, TornCopy, Idle, vars

LEMMA SentStep ==
  ASSUME LinkInv, SentOK, [Next]_vars
  PROVE  SentOK'
  <1>1. sent \in Seq(Seq(Byte)) /\ Len(sent) \in Nat
    BY LenProperties DEF LinkInv, TypeOK, HostTypeOK
  <1>2. CASE sent' = sent
    BY <1>2 DEF SentOK
  <1>3. ASSUME NEW len \in MsgSizes, sent' = Append(sent, Bytes(Len(sent) + 1, len))
        PROVE  SentOK'
    <2>1. len \in Nat /\ len > 0
      BY LinkAssumption
    <2>2. Bytes(Len(sent) + 1, len) \in Seq(Byte) /\ Len(Bytes(Len(sent) + 1, len)) = len
      <3>1. Len(sent) + 1 \in Nat
        BY <1>1
      <3> QED
        BY <2>1, <3>1, BytesType
    <2>3. /\ Len(sent') = Len(sent) + 1 /\ sent'[Len(sent) + 1] = Bytes(Len(sent) + 1, len)
          /\ \A m \in 1 .. Len(sent) : sent'[m] = sent[m]
      BY <1>1, <1>3, <2>2, AppendProperties
    <2> SUFFICES ASSUME NEW m \in 1 .. Len(sent')
                 PROVE  Len(sent'[m]) > 0 /\ sent'[m] = Bytes(m, Len(sent'[m]))
      BY DEF SentOK, Bytes
    <2>4. CASE m = Len(sent) + 1
      BY <2>1, <2>2, <2>3, <2>4
    <2>5. CASE m # Len(sent) + 1
      <3>1. m \in 1 .. Len(sent) /\ sent'[m] = sent[m]
        BY <1>1, <2>3, <2>5
      <3> QED
        BY <3>1 DEF SentOK
    <2> QED
      BY <2>4, <2>5
  <1>4. CASE sent # <<>> /\ sent' = SubSeq(sent, 1, Len(sent) - 1)
    <2>1. Len(sent) > 0 /\ Len(sent) - 1 \in Nat
      BY <1>1, <1>4, EmptySeq, LenProperties
    <2>2. \A i \in 1 .. (Len(sent) - 1) : sent[i] \in Seq(Byte)
      BY <1>1, ElementOfSeq
    <2>4. Len(sent') = Len(sent) - 1
      <3> DEFINE n == Len(sent) - 1
                 s == SubSeq(sent, 1, n)
      <3> HIDE DEF n
      <3>1. n \in Nat /\ \A i \in 1 .. n : sent[i] \in Seq(Byte)
        BY <2>1, <2>2 DEF n
      <3>2. Len(s) = IF 1 <= n THEN n - 1 + 1 ELSE 0
        BY <3>1, SubSeqProperties
      <3> HIDE DEF s
      <3>3. Len(s) = n
        BY <3>1, <3>2
      <3> QED
        BY <1>4, <3>3 DEF n, s
    <2>5. \A m \in 1 .. Len(sent') : m \in 1 .. Len(sent) /\ sent'[m] = sent[m]
      <3>2. \A i \in 1 .. (Len(sent) - 1) : SubSeq(sent, 1, Len(sent) - 1)[i] = sent[1 + i - 1]
        BY <1>1, <2>1, <2>2, SubSeqProperties
      <3> QED
        BY <1>1, <1>4, <2>1, <2>4, <3>2
    <2> QED
      BY <2>5 DEF SentOK, Bytes
  <1> QED
    BY <1>2, <1>3, <1>4, SentMoves
-----------------------------------------------------------------------------
(* The way of a fragment: seven places from serial_ll_write to recv_task.  *)

Has(q, x) == \E k \in 1 .. Len(q) : q[k] = x

\* x is a fragment at place s, counted from recv_task.
At(s, x) ==
    /\ x.buf # 0
    /\ \/ s = 1 /\ rcpc = "serial" /\ x = rcpkt
       \/ s = 2 /\ Has(uart_rx_queue[1], x)
       \/ s = 3 /\ urpc = "put" /\ x = urpkt
       \/ s = 4 /\ Has(wire, x)
       \/ s = 5 /\ txpc = "write" /\ x = txpkt
       \/ s = 6 /\ Has(to_slave_queue[1], x)
       \/ s = 7 /\ tpc[Writer] = "put" /\ x = tpkt[Writer]
Flying(x) == \E s \in 1 .. 7 : At(s, x)

\* The place of its first byte in the request, and the order of fragments.
Pos(x)    == x.bytes[1][2]
Lt(x, y)  == x.buf < y.buf \/ (x.buf = y.buf /\ x.more /\ Pos(x) < Pos(y))
Sorted(q) == \A k, l \in 1 .. Len(q) : k < l /\ q[k].buf # 0 /\ q[l].buf # 0 => Lt(q[k], q[l])

IsFragment(x) ==
    /\ x.buf \in 1 .. Len(sent)
    /\ \E off \in Nat : off < Len(sent[x.buf]) /\ x = Fragment(x.buf, off)

\* The request and the byte serial_ll_write transmits next.
Turned == tpc[Writer] = "idle" \/ (tpc[Writer] \in {"put", "give"} /\ ~tpkt[Writer].more)
Wm == IF Turned THEN Len(sent) + 1 ELSE Len(sent)
Wp == IF Turned THEN 1
      ELSE IF tpc[Writer] = "check" THEN woff + 1 ELSE woff + Len(tpkt[Writer].bytes) + 1
Behind(x) == x.buf < Wm \/ (x.buf = Wm /\ x.more /\ Pos(x) < Wp)

\* No fragment overtakes another, whatever else is in the queues.
StageOrder == \A s, t \in 1 .. 7, x, y \in Packet : s < t /\ At(s, x) /\ At(t, y) => Lt(x, y)
QueueOrder == Sorted(uart_rx_queue[1]) /\ Sorted(wire) /\ Sorted(to_slave_queue[1])
Fragments  == \A x \in Packet : Flying(x) => IsFragment(x) /\ Behind(x)
Ordered    == StageOrder /\ QueueOrder /\ Fragments /\ (rcpc = "serial" => rcpkt.buf # 0)

\* What a fragment consists of.
Parts(f, m, off) ==
    /\ f \in Packet /\ f.buf = m /\ Pos(f) = off + 1
    /\ (f.more => f.free = 0) /\ (~f.more => f.free = m)
    /\ Len(f.bytes) \in Nat /\ 0 < Len(f.bytes) /\ Len(f.bytes) <= FragMax
    /\ f.bytes = SubSeq(sent[m], off + 1, off + Len(f.bytes))
    /\ Len(sent[m]) \in Nat
    /\ f.more => off + Len(f.bytes) < Len(sent[m])
    /\ ~f.more => off + Len(f.bytes) = Len(sent[m])

LEMMA FragmentParts ==
  ASSUME sent \in Seq(Seq(Byte)), SentOK, NEW m \in 1 .. Len(sent), NEW off \in Nat,
         off < Len(sent[m])
  PROVE  Parts(Fragment(m, off), m, off)
  <1> DEFINE f     == Fragment(m, off)
             left  == Len(sent[m]) - off
             n     == Min2(left, FragMax)
             bytes == SubSeq(sent[m], off + 1, off + n)
  <1>1. /\ sent[m] \in Seq(Byte) /\ Len(sent[m]) \in Nat /\ m \in Nat
        /\ sent[m] = Bytes(m, Len(sent[m]))
    BY ElementOfSeq, LenProperties DEF SentOK
  <1>2. /\ left \in Nat /\ n \in Nat /\ n > 0 /\ off + n <= Len(sent[m]) /\ n <= FragMax
        /\ left > FragMax => off + n < Len(sent[m])
        /\ ~(left > FragMax) => off + n = Len(sent[m])
    <2>1. PICK L \in Nat : L = Len(sent[m])
      BY <1>1
    <2>2. L - off \in Nat /\ L - off > 0 /\ FragMax \in Nat /\ FragMax > 0
      BY <2>1, LinkAssumption
    <2>3. PICK d \in Nat : d = L - off /\ d > 0 /\ L = off + d
      BY <2>2
    <2>4. left = d /\ n = Min2(d, FragMax)
      BY <2>1, <2>3
    <2> HIDE DEF left, n
    <2> QED
      BY <2>1, <2>2, <2>3, <2>4 DEF Min2
  <1>3. bytes \in Seq(Byte) /\ Len(bytes) = n
    <2> HIDE DEF n
    <2> QED
      BY <1>1, <1>2, SubSeqType
  <1>4. f = [prio |-> 1, bytes |-> bytes, more |-> left > FragMax, buf |-> m,
             free |-> IF left > FragMax THEN 0 ELSE m]
    BY DEF Fragment
  <1>5. f \in Packet
    BY <1>1, FragmentType
  <1>6. bytes[1] = sent[m][off + 1]
    <2> HIDE DEF n, left
    <2>1. \A i \in (off + 1) .. (off + n) : sent[m][i] \in Byte
      BY <1>1, <1>2, ElementOfSeq
    <2>2. \A i \in 1 .. ((off + n) - (off + 1) + 1) : bytes[i] = sent[m][off + 1 + i - 1]
      BY <1>2, <2>1, SubSeqProperties
    <2>3. 1 \in 1 .. ((off + n) - (off + 1) + 1) /\ off + 1 + 1 - 1 = off + 1
      BY <1>2
    <2> HIDE DEF bytes
    <2> QED
      BY <2>2, <2>3
  <1>7. sent[m][off + 1] = <<m, off + 1>>
    <2>1. off + 1 \in 1 .. Len(sent[m])
      BY <1>1
    <2>2. Bytes(m, Len(sent[m]))[off + 1] = <<m, off + 1>>
      BY <2>1 DEF Bytes
    <2> QED
      BY <1>1, <2>2
  <1> HIDE DEF left, n, bytes, f
  <1>8. f.bytes = bytes /\ f.more = (left > FragMax) /\ f.buf = m
        /\ f.free = IF left > FragMax THEN 0 ELSE m
    BY <1>4
  <1>9. Pos(f) = off + 1
    BY <1>6, <1>7, <1>8 DEF Pos
  <1> QED
    BY <1>1, <1>2, <1>3, <1>5, <1>8, <1>9 DEF bytes, f, Parts

\* A fragment of the right request is typed and has a place in it.
LEMMA FragmentPos ==
  ASSUME LinkInv, SentOK, NEW x, IsFragment(x)
  PROVE  /\ x \in Packet /\ x.buf \in Nat \ {0} /\ Pos(x) \in Nat \ {0}
         /\ Len(x.bytes) \in Nat /\ 0 < Len(x.bytes) /\ Len(x.bytes) <= FragMax
         /\ (x.more => x.free = 0) /\ (~x.more => x.free = x.buf)
  <1>1. sent \in Seq(Seq(Byte)) /\ Len(sent) \in Nat
    BY LenProperties DEF LinkInv, TypeOK, HostTypeOK
  <1>2. PICK off \in Nat : off < Len(sent[x.buf]) /\ x = Fragment(x.buf, off)
    BY DEF IsFragment
  <1>3. x.buf \in 1 .. Len(sent)
    BY DEF IsFragment
  <1>4. /\ x \in Packet /\ Pos(x) = off + 1 /\ (x.more => x.free = 0) /\ (~x.more => x.free = x.buf)
        /\ Len(x.bytes) \in Nat /\ 0 < Len(x.bytes) /\ Len(x.bytes) <= FragMax
    <2>1. PICK m \in 1 .. Len(sent) : m = x.buf
      BY <1>3
    <2>2. off < Len(sent[m]) /\ x = Fragment(m, off)
      BY <1>2, <2>1
    <2>3. Parts(x, m, off)
      BY <1>1, <2>2, FragmentParts
    <2> QED
      BY <2>1, <2>3 DEF Parts
  <1> QED
    BY <1>1, <1>3, <1>4

\* Queues in order, when a packet is appended and when the head is taken.
LEMMA HasAppend ==
  ASSUME NEW q \in Seq(Packet), NEW a \in Packet
  PROVE  \A y : Has(Append(q, a), y) <=> Has(q, y) \/ y = a
  <1>1. /\ Len(Append(q, a)) = Len(q) + 1 /\ Len(q) \in Nat
        /\ Append(q, a)[Len(q) + 1] = a
        /\ \A k \in 1 .. Len(q) : Append(q, a)[k] = q[k]
    BY AppendedPkt
  <1> TAKE y
  <1>2. ASSUME Has(Append(q, a), y) PROVE Has(q, y) \/ y = a
    <2>1. PICK k \in 1 .. Len(q) + 1 : Append(q, a)[k] = y
      BY <1>1, <1>2 DEF Has
    <2>2. CASE k = Len(q) + 1
      BY <1>1, <2>1, <2>2
    <2>3. CASE k # Len(q) + 1
      <3>1. k \in 1 .. Len(q)
        BY <1>1, <2>3
      <3> QED
        BY <1>1, <2>1, <3>1 DEF Has
    <2> QED
      BY <2>2, <2>3
  <1>3. ASSUME Has(q, y) PROVE Has(Append(q, a), y)
    <2>1. PICK k \in 1 .. Len(q) : q[k] = y
      BY <1>3 DEF Has
    <2>2. k \in 1 .. Len(Append(q, a)) /\ Append(q, a)[k] = y
      BY <1>1, <2>1
    <2> QED
      BY <2>2 DEF Has
  <1>4. Has(Append(q, a), a)
    <2>1. Len(q) + 1 \in 1 .. Len(Append(q, a))
      BY <1>1
    <2> QED
      BY <1>1, <2>1 DEF Has
  <1> QED
    BY <1>2, <1>3, <1>4

LEMMA SortedAppend ==
  ASSUME NEW q \in Seq(Packet), NEW a \in Packet, Sorted(q),
         \A y \in Packet : Has(q, y) /\ y.buf # 0 /\ a.buf # 0 => Lt(y, a)
  PROVE  Sorted(Append(q, a))
  <1> DEFINE b == Append(q, a)
  <1>1. /\ Len(b) = Len(q) + 1 /\ Len(q) \in Nat /\ b[Len(q) + 1] = a
        /\ \A k \in 1 .. Len(q) : b[k] = q[k] /\ q[k] \in Packet
    BY AppendedPkt, ElementOfSeq
  <1> HIDE DEF b
  <1> SUFFICES ASSUME NEW k \in 1 .. Len(b), NEW l \in 1 .. Len(b), k < l,
                      b[k].buf # 0, b[l].buf # 0
               PROVE  Lt(b[k], b[l])
    BY DEF Sorted, b
  <1>2. k \in 1 .. Len(q) /\ b[k] = q[k] /\ q[k] \in Packet /\ Has(q, q[k])
    <2>1. k \in 1 .. Len(q)
      BY <1>1
    <2> QED
      BY <1>1, <2>1 DEF Has
  <1>3. CASE l = Len(q) + 1
    BY <1>1, <1>2, <1>3
  <1>4. CASE l # Len(q) + 1
    <2>1. l \in 1 .. Len(q) /\ b[l] = q[l]
      BY <1>1, <1>4
    <2> QED
      BY <1>2, <2>1 DEF Sorted
  <1> QED
    BY <1>3, <1>4

LEMMA SortedTail ==
  ASSUME NEW q \in Seq(Packet), q # <<>>, Sorted(q),
         \A y \in Packet : Has(q, y) /\ y.buf # 0 => Pos(y) \in Nat
  PROVE  /\ Sorted(Tail(q)) /\ Head(q) \in Packet /\ Has(q, Head(q))
         /\ \A y \in Packet : y.buf # 0 =>
               /\ Has(Tail(q), y) <=> Has(q, y) /\ y # Head(q)
               /\ Head(q).buf # 0 /\ Has(q, y) /\ y # Head(q) => Lt(Head(q), y)
  <1> DEFINE r == Tail(q)
  <1>1. /\ Head(q) = q[1] /\ Head(q) \in Packet /\ Len(q) \in Nat /\ 1 \in 1 .. Len(q)
        /\ Len(r) \in Nat /\ Len(q) = Len(r) + 1
        /\ \A k \in 1 .. Len(r) : r[k] = q[k + 1]
    BY TakenPkt
  <1> HIDE DEF r
  <1>2. \A k \in 1 .. Len(r) : k + 1 \in 1 .. Len(q) /\ 1 < k + 1
    BY <1>1
  <1>3. Sorted(r)
    <2> SUFFICES ASSUME NEW k \in 1 .. Len(r), NEW l \in 1 .. Len(r), k < l,
                        r[k].buf # 0, r[l].buf # 0
                 PROVE  Lt(r[k], r[l])
      BY DEF Sorted
    <2>1. k + 1 < l + 1 /\ k + 1 \in 1 .. Len(q) /\ l + 1 \in 1 .. Len(q)
      BY <1>2
    <2> QED
      BY <1>1, <2>1 DEF Sorted
  <1>4. ASSUME NEW y \in Packet, y.buf # 0
        PROVE  /\ Has(r, y) <=> Has(q, y) /\ y # Head(q)
               /\ Head(q).buf # 0 /\ Has(q, y) /\ y # Head(q) => Lt(Head(q), y)
    <2>1. ASSUME Has(r, y) PROVE Has(q, y) /\ y # Head(q)
      <3>1. PICK k \in 1 .. Len(r) : r[k] = y
        BY <2>1 DEF Has
      <3>2. k + 1 \in 1 .. Len(q) /\ 1 < k + 1 /\ q[k + 1] = y
        BY <1>1, <1>2, <3>1
      <3>3. Has(q, y)
        BY <3>2 DEF Has
      <3>4. SUFFICES ASSUME y = Head(q) PROVE FALSE
        BY <3>3
      <3>5. Lt(y, y)
        BY <1>1, <1>4, <3>2, <3>4 DEF Sorted
      <3>6. Pos(y) \in Nat /\ y.buf \in Nat
        BY <1>4, <3>3 DEF Packet
      <3> QED
        BY <3>5, <3>6 DEF Lt
    <2>2. ASSUME Has(q, y), y # Head(q) PROVE Has(r, y) /\ (Head(q).buf # 0 => Lt(Head(q), y))
      <3>1. PICK k \in 1 .. Len(q) : q[k] = y
        BY <2>2 DEF Has
      <3>2. k # 1
        BY <1>1, <2>2, <3>1
      <3>3. PICK j \in 1 .. Len(r) : k = j + 1
        <4>1. k - 1 \in 1 .. Len(r) /\ k = (k - 1) + 1
          BY <1>1, <3>2
        <4> QED
          BY <4>1
      <3>4. r[j] = y /\ 1 < k
        BY <1>1, <3>1, <3>3
      <3>5. Head(q).buf # 0 => Lt(Head(q), y)
        BY <1>1, <1>4, <3>1, <3>4 DEF Sorted
      <3> QED
        BY <3>4, <3>5 DEF Has
    <2> QED
      BY <2>1, <2>2
  <1>5. Has(q, Head(q))
    BY <1>1 DEF Has
  <1> QED
    BY <1>1, <1>3, <1>4, <1>5 DEF r

\* A step in which fragment h goes from place a to place b (8: it is new, 0: it leaves).
Still          == \A r \in 1 .. 7, y \in Packet : At(r, y)' <=> At(r, y)
Moves(h, a, b) ==
    \A r \in 1 .. 7, y \in Packet :
        At(r, y)' <=> (At(r, y) /\ ~(r = a /\ y = h)) \/ (r = b /\ y = h)
Leads(h, a) == At(a, h) /\ \A y \in Packet : At(a, y) /\ y # h => Lt(h, y)

\* Fragments that go one place at a time, the first of a queue first, stay in order.
LEMMA StageStill ==
  ASSUME StageOrder, Still
  PROVE  StageOrder'
  BY DEF StageOrder, Still

LEMMA StageMoves ==
  ASSUME StageOrder, NEW h \in Packet, NEW a \in 1 .. 7, NEW b \in 0 .. 6, b = 0 \/ b + 1 = a,
         Leads(h, a), Moves(h, a, b)
  PROVE  StageOrder'
  <1> SUFFICES ASSUME NEW s \in 1 .. 7, NEW t \in 1 .. 7, NEW x \in Packet, NEW y \in Packet,
                      s < t, At(s, x)', At(t, y)'
               PROVE  Lt(x, y)
    BY DEF StageOrder
  <1>1. /\ (At(s, x) /\ ~(s = a /\ x = h)) \/ (s = b /\ x = h)
        /\ (At(t, y) /\ ~(t = a /\ y = h)) \/ (t = b /\ y = h)
    BY DEF Moves
  <1>2. CASE At(s, x) /\ At(t, y)
    BY <1>2 DEF StageOrder
  <1>3. CASE s = b /\ x = h /\ At(t, y) /\ ~(t = a /\ y = h)
    <2>1. CASE t = a
      BY <1>3, <2>1 DEF Leads
    <2>2. CASE t # a
      <3>1. a < t /\ At(a, h)
        BY <1>3, <2>2 DEF Leads
      <3> QED
        BY <1>3, <3>1 DEF StageOrder
    <2> QED
      BY <2>1, <2>2
  <1>4. CASE At(s, x) /\ t = b /\ y = h
    <2>1. s < a /\ At(a, h)
      BY <1>4 DEF Leads
    <2> QED
      BY <1>4, <2>1 DEF StageOrder
  <1> QED
    BY <1>1, <1>2, <1>3, <1>4

LEMMA StageEnters ==
  ASSUME StageOrder, NEW h \in Packet, Moves(h, 8, 7), \A y \in Packet : Flying(y) => Lt(y, h)
  PROVE  StageOrder'
  <1> SUFFICES ASSUME NEW s \in 1 .. 7, NEW t \in 1 .. 7, NEW x \in Packet, NEW y \in Packet,
                      s < t, At(s, x)', At(t, y)'
               PROVE  Lt(x, y)
    BY DEF StageOrder
  <1>1. At(s, x) /\ (At(t, y) \/ y = h)
    BY DEF Moves
  <1> QED
    BY <1>1 DEF StageOrder, Flying
-----------------------------------------------------------------------------
(* How the fragments move in each step.                                    *)

SameR == /\ rcpc' = "serial" <=> rcpc = "serial"
         /\ rcpc = "serial" => rcpkt' = rcpkt
SameU == /\ urpc' = "put" <=> urpc = "put"
         /\ urpc = "put" => urpkt' = urpkt
SameT == /\ txpc' = "write" <=> txpc = "write"
         /\ txpc = "write" => txpkt' = txpkt
SameW == /\ tpc'[Writer] = "put" <=> tpc[Writer] = "put"
         /\ tpc[Writer] = "put" => tpkt'[Writer] = tpkt[Writer]
SameQ == /\ uart_rx_queue'[1] = uart_rx_queue[1] /\ wire' = wire
         /\ to_slave_queue'[1] = to_slave_queue[1]

\* Nothing moves; a fragment goes on by one place, or is lost; it is copied to r; or
\* serial_ll_write has a new one.
Advances ==
    \E h \in Packet, a \in 2 .. 7, b \in 0 .. 6 :
        Leads(h, a) /\ Moves(h, a, b) /\ (b + 1 = a \/ (b = 0 /\ drops' > 0))
Arrives  == (CopyFragment \/ TornCopy) /\ Leads(rcpkt, 1) /\ Moves(rcpkt, 1, 0)
Enters   == CheckTransport(Writer) /\ tx_ready /\ Moves(Fragment(Len(sent), woff), 8, 7)
Motion   == Still \/ Advances \/ Arrives \/ Enters
Settled  == QueueOrder /\ (rcpc = "serial" => rcpkt.buf # 0)

LEMMA StillWhen ==
  ASSUME SameR, SameU, SameT, SameW, SameQ
  PROVE  Still
  BY DEF SameR, SameU, SameT, SameW, SameQ, Still, At

LEMMA QueueStill == ASSUME QueueOrder, SameQ PROVE QueueOrder'
  BY DEF QueueOrder, SameQ, Sorted

LEMMA FlyingPos ==
  ASSUME LinkInv, SentOK, Ordered, NEW s \in 1 .. 7, NEW y \in Packet, At(s, y)
  PROVE  Pos(y) \in Nat
  BY FragmentPos DEF Ordered, Fragments, Flying

\* The queue of fragments, when a packet is taken from the three of them.
LEMMA MotionRecvToSlave ==
  ASSUME LinkInv, tx_needed, Lined, SentOK, Ordered, RecvToSlave
  PROVE  Motion /\ Settled'
  <1>1. /\ to_slave_queue \in [Prio -> Seq(Packet)] /\ 1 \in Prio
        /\ to_slave_queue[1] \in Seq(Packet)
    BY DEF LinkInv, TypeOK, HostTypeOK, Prio
  <1>2. /\ SameR /\ SameU /\ SameW /\ txpc = "recv" /\ uart_rx_queue' = uart_rx_queue
        /\ wire' = wire /\ rcpc' = rcpc /\ rcpkt' = rcpkt
    BY DEF RecvToSlave, SameR, SameU, SameW
  <1>3. CASE AllEmpty(to_slave_queue)
    <2>1. SameT /\ SameQ
      BY <1>2, <1>3 DEF RecvToSlave, SameT, SameQ
    <2> QED
      BY <1>2, <2>1, StillWhen, QueueStill DEF Motion, Settled, Ordered
  <1>4. CASE ~AllEmpty(to_slave_queue)
    <2> DEFINE q == to_slave_queue
               h == Head(q[First(q)])
    <2>1. txpkt' = h /\ txpc' = "write" /\ to_slave_queue' = Get(q)
      BY <1>4 DEF RecvToSlave
    <2>2. /\ \A p \in Prio : Get(q)[p] = IF p = First(q) THEN Tail(q[p]) ELSE q[p]
          /\ First(q) \in Prio /\ q[First(q)] # <<>> /\ h \in Packet
      BY <1>1, <1>4, GetAt
    <2>3. Sane(h) /\ h.prio = First(q)
      BY <1>1, <1>4, LanesGet DEF Lined
    <2>4. CASE First(q) = 1
      <3>1. h.buf # 0 /\ h = Head(q[1]) /\ to_slave_queue'[1] = Tail(q[1]) /\ q[1] # <<>>
        BY <1>1, <2>1, <2>2, <2>3, <2>4 DEF Sane
      <3>2. \A y \in Packet : Has(q[1], y) /\ y.buf # 0 => At(6, y) /\ Pos(y) \in Nat
        BY FlyingPos DEF At
      <3>3. Sorted(q[1])
        BY DEF Ordered, QueueOrder
      <3> HIDE DEF h
      <3>4. /\ Sorted(Tail(q[1])) /\ Has(q[1], h)
            /\ \A y \in Packet : y.buf # 0 =>
                  /\ Has(Tail(q[1]), y) <=> Has(q[1], y) /\ y # h
                  /\ Has(q[1], y) /\ y # h => Lt(h, y)
        BY <1>1, <3>1, <3>2, <3>3, SortedTail
      <3>5. Leads(h, 6)
        BY <3>1, <3>4 DEF Leads, At
      <3>6. Moves(h, 6, 5)
        BY <1>2, <2>1, <3>1, <3>4 DEF Moves, At, SameR, SameU, SameW
      <3>7. Advances
        BY <2>2, <3>5, <3>6 DEF Advances, h
      <3>8. QueueOrder'
        BY <1>2, <3>1, <3>4 DEF QueueOrder, Ordered, Sorted
      <3> QED
        BY <1>2, <3>7, <3>8 DEF Motion, Settled, Ordered
    <2>5. CASE First(q) # 1
      <3>1. to_slave_queue'[1] = q[1] /\ h.buf = 0
        BY <1>1, <2>1, <2>2, <2>3, <2>5 DEF Sane
      <3>2. Still
        BY <1>2, <2>1, <3>1 DEF Still, At, SameR, SameU, SameW
      <3>3. QueueOrder'
        BY <1>2, <3>1, QueueStill DEF SameQ, Ordered
      <3> QED
        BY <1>2, <3>2, <3>3 DEF Motion, Settled, Ordered
    <2> QED
      BY <2>4, <2>5
  <1> QED
    BY <1>3, <1>4

LEMMA MotionRecvRx ==
  ASSUME LinkInv, Lined, SentOK, Ordered, RecvRx
  PROVE  Motion /\ Settled'
  <1>1. /\ uart_rx_queue \in [Prio -> Seq(Packet)] /\ 1 \in Prio
        /\ uart_rx_queue[1] \in Seq(Packet)
    BY DEF LinkInv, TypeOK, SlaveTypeOK, Prio
  <1>2. /\ SameT /\ SameU /\ SameW /\ rcpc = "recv" /\ to_slave_queue' = to_slave_queue
        /\ wire' = wire
    BY DEF RecvRx, SameT, SameU, SameW
  <1>3. CASE AllEmpty(uart_rx_queue)
    <2>1. SameR /\ SameQ /\ rcpc' = "take"
      BY <1>2, <1>3 DEF RecvRx, SameR, SameQ
    <2> QED
      BY <1>2, <2>1, StillWhen, QueueStill DEF Motion, Settled, Ordered
  <1>4. CASE ~AllEmpty(uart_rx_queue)
    <2> DEFINE q == uart_rx_queue
               h == Head(q[First(q)])
    <2>1. /\ h.prio = 1 => rcpkt' = h /\ rcpc' = "serial"
          /\ h.prio # 1 => rcpc' = "take"
          /\ uart_rx_queue' = Get(q)
      BY <1>4 DEF RecvRx
    <2>2. /\ \A p \in Prio : Get(q)[p] = IF p = First(q) THEN Tail(q[p]) ELSE q[p]
          /\ First(q) \in Prio /\ q[First(q)] # <<>> /\ h \in Packet
      BY <1>1, <1>4, GetAt
    <2>3. Sane(h) /\ h.prio = First(q)
      BY <1>1, <1>4, LanesGet DEF Lined
    <2>4. CASE First(q) = 1
      <3>1. h.buf # 0 /\ h = Head(q[1]) /\ uart_rx_queue'[1] = Tail(q[1]) /\ q[1] # <<>>
        BY <1>1, <2>1, <2>2, <2>3, <2>4 DEF Sane
      <3>2. \A y \in Packet : Has(q[1], y) /\ y.buf # 0 => At(2, y) /\ Pos(y) \in Nat
        BY FlyingPos DEF At
      <3>3. Sorted(q[1])
        BY DEF Ordered, QueueOrder
      <3>0. rcpkt' = h /\ rcpc' = "serial"
        BY <2>1, <2>3, <2>4
      <3> HIDE DEF h
      <3>4. /\ Sorted(Tail(q[1])) /\ Has(q[1], h)
            /\ \A y \in Packet : y.buf # 0 =>
                  /\ Has(Tail(q[1]), y) <=> Has(q[1], y) /\ y # h
                  /\ Has(q[1], y) /\ y # h => Lt(h, y)
        BY <1>1, <3>1, <3>2, <3>3, SortedTail
      <3>5. Leads(h, 2)
        BY <3>1, <3>4 DEF Leads, At
      <3>6. Moves(h, 2, 1)
        BY <1>2, <3>0, <3>1, <3>4 DEF Moves, At, SameT, SameU, SameW
      <3>7. Advances
        BY <2>2, <3>5, <3>6 DEF Advances, h
      <3>8. QueueOrder'
        BY <1>2, <3>1, <3>4 DEF QueueOrder, Ordered, Sorted
      <3> QED
        BY <3>0, <3>1, <3>7, <3>8 DEF Motion, Settled
    <2>5. CASE First(q) # 1
      <3>1. uart_rx_queue'[1] = q[1] /\ rcpc' = "take"
        BY <1>1, <2>1, <2>2, <2>3, <2>5
      <3>2. SameR /\ SameQ
        BY <1>2, <3>1 DEF SameR, SameQ
      <3> QED
        BY <1>2, <3>1, <3>2, StillWhen, QueueStill DEF Motion, Settled, Ordered
    <2> QED
      BY <2>4, <2>5
  <1> QED
    BY <1>3, <1>4

LEMMA MotionUartRead ==
  ASSUME LinkInv, Lined, SentOK, Ordered, UartRead
  PROVE  Motion /\ Settled'
  <1> DEFINE h == Head(wire)
  <1>1. wire \in Seq(Packet) /\ drops \in Nat
    BY DEF LinkInv, TypeOK, SlaveTypeOK
  <1>2. /\ SameR /\ SameT /\ SameW /\ urpc = "read" /\ to_slave_queue' = to_slave_queue
        /\ uart_rx_queue' = uart_rx_queue /\ wire # <<>> /\ wire' = Tail(wire)
        /\ rcpc' = rcpc /\ rcpkt' = rcpkt
        /\ (urpkt' = h /\ urpc' = "put") \/ (urpc' = "read" /\ drops' = drops + 1)
    BY DEF UartRead, SameR, SameT, SameW
  <1>3. \A y \in Packet : Has(wire, y) /\ y.buf # 0 => At(4, y) /\ Pos(y) \in Nat
    BY FlyingPos DEF At
  <1>4. Sorted(wire)
    BY DEF Ordered, QueueOrder
  <1>5. /\ Sorted(Tail(wire)) /\ Has(wire, h) /\ h \in Packet
        /\ \A y \in Packet : y.buf # 0 =>
              /\ Has(Tail(wire), y) <=> Has(wire, y) /\ y # h
              /\ h.buf # 0 /\ Has(wire, y) /\ y # h => Lt(h, y)
    BY <1>1, <1>2, <1>3, <1>4, SortedTail
  <1> HIDE DEF h
  <1>6. QueueOrder'
    BY <1>2, <1>5 DEF QueueOrder, Ordered, Sorted
  <1>7. CASE h.buf = 0
    <2>1. Still
      BY <1>2, <1>5, <1>7 DEF Still, At, SameR, SameT, SameW
    <2> QED
      BY <1>2, <1>6, <2>1 DEF Motion, Settled, Ordered
  <1>8. CASE h.buf # 0
    <2>1. Leads(h, 4)
      BY <1>5, <1>8 DEF Leads, At
    <2>2. CASE urpkt' = h /\ urpc' = "put"
      <3>1. Moves(h, 4, 3)
        BY <1>2, <1>5, <1>8, <2>2 DEF Moves, At, SameR, SameT, SameW
      <3>2. Advances
        BY <1>5, <2>1, <3>1 DEF Advances
      <3> QED
        BY <1>2, <1>6, <3>2 DEF Motion, Settled, Ordered
    <2>3. CASE urpc' = "read" /\ drops' = drops + 1
      <3>1. Moves(h, 4, 0)
        BY <1>2, <1>5, <1>8, <2>3 DEF Moves, At, SameR, SameT, SameW
      <3>2. drops' > 0
        BY <1>1, <2>3
      <3>3. Advances
        BY <1>5, <2>1, <3>1, <3>2 DEF Advances
      <3> QED
        BY <1>2, <1>6, <3>3 DEF Motion, Settled, Ordered
    <2> QED
      BY <1>2, <2>2, <2>3
  <1> QED
    BY <1>7, <1>8

\* A fragment is appended behind all that are in the queue.
LEMMA MotionWritePacket ==
  ASSUME LinkInv, Lined, SentOK, Ordered, WritePacket
  PROVE  Motion /\ Settled'
  <1> DEFINE h == txpkt
  <1>1. wire \in Seq(Packet) /\ drops \in Nat /\ h \in Packet
    BY DEF LinkInv, TypeOK, SlaveTypeOK, HostTypeOK
  <1>2. /\ SameR /\ SameU /\ SameW /\ txpc = "write" /\ to_slave_queue' = to_slave_queue
        /\ uart_rx_queue' = uart_rx_queue /\ txpc' = "take"
        /\ rcpc' = rcpc /\ rcpkt' = rcpkt
        /\ wire' = Append(wire, h) \/ (wire' = wire /\ drops' = drops + 1)
    BY DEF WritePacket, SameR, SameU, SameW
  <1>3. ASSUME NEW y \in Packet, Has(wire, y), y.buf # 0, h.buf # 0 PROVE Lt(y, h)
    <2>1. At(4, y) /\ At(5, h)
      BY <1>2, <1>3 DEF At
    <2> QED
      BY <1>1, <2>1 DEF Ordered, StageOrder
  <1>4. \A y : Has(Append(wire, h), y) <=> Has(wire, y) \/ y = h
    BY <1>1, HasAppend
  <1>5. QueueOrder'
    <2>1. Sorted(wire)
      BY DEF Ordered, QueueOrder
    <2>2. Sorted(Append(wire, h))
      BY <1>1, <1>3, <2>1, SortedAppend
    <2>3. Sorted(wire')
      BY <1>2, <2>1, <2>2
    <2> QED
      BY <1>2, <2>3 DEF QueueOrder, Ordered, Sorted
  <1>6. CASE h.buf = 0
    <2>1. Still
      BY <1>2, <1>4, <1>6 DEF Still, At, SameR, SameU, SameW
    <2> QED
      BY <1>2, <1>5, <2>1 DEF Motion, Settled, Ordered
  <1>7. CASE h.buf # 0
    <2>1. Leads(h, 5)
      BY <1>2, <1>7 DEF Leads, At
    <2>2. CASE wire' = Append(wire, h)
      <3>1. Moves(h, 5, 4)
        BY <1>2, <1>4, <1>7, <2>2 DEF Moves, At, SameR, SameU, SameW
      <3>2. Advances
        BY <1>1, <2>1, <3>1 DEF Advances
      <3> QED
        BY <1>2, <1>5, <3>2 DEF Motion, Settled, Ordered
    <2>3. CASE wire' = wire /\ drops' = drops + 1
      <3>1. Moves(h, 5, 0)
        BY <1>2, <1>7, <2>3 DEF Moves, At, SameR, SameU, SameW
      <3>2. drops' > 0
        BY <1>1, <2>3
      <3>3. Advances
        BY <1>1, <2>1, <3>1, <3>2 DEF Advances
      <3> QED
        BY <1>2, <1>5, <3>3 DEF Motion, Settled, Ordered
    <2> QED
      BY <1>2, <2>2, <2>3
  <1> QED
    BY <1>6, <1>7

LEMMA MotionUartPut ==
  ASSUME LinkInv, Lined, SentOK, Ordered, UartPut
  PROVE  Motion /\ Settled'
  <1> DEFINE h == urpkt
             q == uart_rx_queue
  <1>1. q \in [Prio -> Seq(Packet)] /\ h \in Packet /\ 1 \in Prio /\ q[1] \in Seq(Packet)
    BY DEF LinkInv, TypeOK, SlaveTypeOK, Prio
  <1>2. /\ SameR /\ SameT /\ SameW /\ urpc = "put" /\ to_slave_queue' = to_slave_queue
        /\ uart_rx_queue' = Put(q, h) /\ urpc' = "give" /\ wire' = wire
        /\ rcpc' = rcpc /\ rcpkt' = rcpkt
    BY DEF UartPut, SameR, SameT, SameW
  <1>3. uart_rx_queue'[1] = IF 1 = h.prio THEN Append(q[1], h) ELSE q[1]
    BY <1>1, <1>2, PutAt
  <1>4. Sane(h)
    BY DEF Lined
  <1>5. CASE h.buf = 0
    <2>1. uart_rx_queue'[1] = q[1]
      BY <1>3, <1>4, <1>5 DEF Sane
    <2>2. Still
      BY <1>2, <1>5, <2>1 DEF Still, At, SameR, SameT, SameW
    <2>3. QueueOrder'
      BY <1>2, <2>1, QueueStill DEF Ordered, SameQ
    <2> QED
      BY <1>2, <2>2, <2>3 DEF Motion, Settled, Ordered
  <1>6. CASE h.buf # 0
    <2>1. uart_rx_queue'[1] = Append(q[1], h)
      BY <1>3, <1>4, <1>6 DEF Sane
    <2>2. ASSUME NEW y \in Packet, Has(q[1], y), y.buf # 0 PROVE Lt(y, h)
      <3>1. At(2, y) /\ At(3, h)
        BY <1>2, <1>6, <2>2 DEF At
      <3> QED
        BY <1>1, <3>1 DEF Ordered, StageOrder
    <2>3. \A y : Has(Append(q[1], h), y) <=> Has(q[1], y) \/ y = h
      BY <1>1, HasAppend
    <2>4. Sorted(q[1])
      BY DEF Ordered, QueueOrder
    <2>5. Sorted(Append(q[1], h))
      BY <1>1, <2>2, <2>4, SortedAppend
    <2>6. QueueOrder'
      BY <1>2, <2>1, <2>5 DEF QueueOrder, Ordered, Sorted
    <2>7. Leads(h, 3)
      BY <1>2, <1>6 DEF Leads, At
    <2>8. Moves(h, 3, 2)
      BY <1>2, <1>6, <2>1, <2>3 DEF Moves, At, SameR, SameT, SameW
    <2>9. Advances
      BY <1>1, <2>7, <2>8 DEF Advances
    <2> QED
      BY <1>2, <2>6, <2>9 DEF Motion, Settled, Ordered
  <1> QED
    BY <1>5, <1>6

LEMMA MotionPutPacket ==
  ASSUME LinkInv, Lined, SentOK, Ordered, NEW t \in Threads, PutPacket(t)
  PROVE  Motion /\ Settled'
  <1> DEFINE h == tpkt[t]
             q == to_slave_queue
  <1>1. /\ q \in [Prio -> Seq(Packet)] /\ h \in Packet /\ 1 \in Prio /\ q[1] \in Seq(Packet)
        /\ tpc \in [Threads -> {"idle", "check", "put", "give"}] /\ Writer \in Threads
    BY DEF LinkInv, TypeOK, HostTypeOK, Prio, Threads
  <1>2. /\ SameR /\ SameT /\ SameU /\ tpc[t] = "put" /\ uart_rx_queue' = uart_rx_queue
        /\ to_slave_queue' = Put(q, h) /\ wire' = wire /\ tpkt' = tpkt
        /\ rcpc' = rcpc /\ rcpkt' = rcpkt /\ tpc' = [tpc EXCEPT ![t] = "give"]
    BY DEF PutPacket, SameR, SameT, SameU
  <1>3. to_slave_queue'[1] = IF 1 = h.prio THEN Append(q[1], h) ELSE q[1]
    BY <1>1, <1>2, PutAt
  <1>4. Sane(h)
    BY DEF Lined
  <1>5. CASE t # Writer
    <2>1. h.buf = 0
      BY <1>5 DEF Lined
    <2>2. to_slave_queue'[1] = q[1] /\ SameW
      BY <1>1, <1>2, <1>3, <1>4, <1>5, <2>1 DEF Sane, SameW
    <2>3. SameQ
      BY <1>2, <2>2 DEF SameQ
    <2> QED
      BY <1>2, <2>2, <2>3, StillWhen, QueueStill DEF Motion, Settled, Ordered
  <1>6. CASE t = Writer
    <2>0. /\ h.buf # 0 /\ tpc[Writer] = "put" /\ tpc'[Writer] = "give" /\ h = tpkt[Writer]
      <3>1. sent # <<>> /\ h = Fragment(Len(sent), woff) /\ sent \in Seq(Seq(Byte))
        BY <1>2, <1>6 DEF LinkInv, WriterInv, TypeOK, HostTypeOK
      <3>2. Len(sent) # 0 /\ Fragment(Len(sent), woff).buf = Len(sent)
        BY <3>1, EmptySeq, LenProperties DEF Fragment
      <3>3. tpc'[Writer] = "give"
        BY <1>1, <1>2, <1>6
      <3> QED
        BY <1>2, <1>6, <3>1, <3>2, <3>3
    <2>1. to_slave_queue'[1] = Append(q[1], h)
      BY <1>3, <1>4, <2>0 DEF Sane
    <2> HIDE DEF h
    <2>2. ASSUME NEW y \in Packet, Has(q[1], y), y.buf # 0 PROVE Lt(y, h)
      <3>1. At(6, y) /\ At(7, h)
        BY <2>0, <2>2 DEF At
      <3> QED
        BY <1>1, <3>1 DEF Ordered, StageOrder
    <2>3. \A y : Has(Append(q[1], h), y) <=> Has(q[1], y) \/ y = h
      BY <1>1, HasAppend
    <2>4. Sorted(q[1])
      BY DEF Ordered, QueueOrder
    <2>5. Sorted(Append(q[1], h))
      BY <1>1, <2>2, <2>4, SortedAppend
    <2>6. QueueOrder'
      BY <1>2, <2>1, <2>5 DEF QueueOrder, Ordered, Sorted
    <2>7. Leads(h, 7)
      BY <2>0 DEF Leads, At
    <2>8. Moves(h, 7, 6)
      <3>1. SameR /\ SameT /\ SameU /\ uart_rx_queue' = uart_rx_queue /\ wire' = wire
        BY <1>2
      <3> QED
        BY <2>0, <2>1, <2>3, <3>1 DEF Moves, At, SameR, SameT, SameU
    <2>9. Advances
      BY <1>1, <2>7, <2>8 DEF Advances
    <2> QED
      BY <1>2, <2>6, <2>9 DEF Motion, Settled, Ordered
  <1> QED
    BY <1>5, <1>6

LEMMA MotionCheck ==
  ASSUME LinkInv, Ordered, NEW t \in Threads, CheckTransport(t)
  PROVE  Motion /\ Settled'
  <1>1. /\ tpc \in [Threads -> {"idle", "check", "put", "give"}] /\ Writer \in Threads
        /\ tpkt \in [Threads -> Packet]
    BY DEF LinkInv, TypeOK, HostTypeOK, Threads
  <1>2. /\ SameR /\ SameT /\ SameU /\ SameQ /\ rcpc' = rcpc /\ rcpkt' = rcpkt /\ tpc[t] = "check"
    BY DEF CheckTransport, SameR, SameT, SameU, SameQ
  <1>3. Settled'
    BY <1>2, QueueStill DEF Settled, Ordered
  <1>4. CASE ~tx_ready \/ t # Writer
    <2>1. SameW
      <3>1. CASE t # Writer
        <4>1. tpc'[Writer] = tpc[Writer] /\ tpkt'[Writer] = tpkt[Writer]
          BY <1>1, <3>1 DEF CheckTransport
        <4> QED
          BY <4>1 DEF SameW
      <3>2. CASE ~tx_ready /\ t = Writer
        <4>1. tpc'[Writer] = "idle" /\ tpc[Writer] = "check"
          BY <1>1, <1>2, <3>2 DEF CheckTransport
        <4> QED
          BY <4>1 DEF SameW
      <3> QED
        BY <1>4, <3>1, <3>2
    <2> QED
      BY <1>2, <1>3, <2>1, StillWhen DEF Motion
  <1>5. CASE tx_ready /\ t = Writer
    <2> DEFINE h == Fragment(Len(sent), woff)
    <2>1. tpc[Writer] = "check" /\ tpc'[Writer] = "put" /\ tpkt'[Writer] = h
      BY <1>1, <1>2, <1>5 DEF CheckTransport, PacketOf
    <2>2. h.buf # 0
      <3>1. sent # <<>> /\ sent \in Seq(Seq(Byte))
        BY <1>2, <1>5 DEF LinkInv, WriterInv, TypeOK, HostTypeOK
      <3> QED
        BY <3>1, EmptySeq, LenProperties DEF Fragment
    <2> HIDE DEF h
    <2>3. Moves(h, 8, 7)
      BY <1>2, <2>1, <2>2 DEF Moves, At, SameR, SameT, SameU, SameQ
    <2>4. Enters
      BY <1>5, <2>3 DEF Enters, h
    <2> QED
      BY <1>3, <2>4 DEF Motion
  <1> QED
    BY <1>4, <1>5

LEMMA MotionCopy ==
  ASSUME LinkInv, Ordered, CopyFragment \/ TornCopy
  PROVE  Arrives /\ Motion /\ Settled'
  <1>1. /\ SameU /\ SameT /\ SameW /\ SameQ /\ rcpc = "serial" /\ rcpc' # "serial"
    BY DEF CopyFragment, TornCopy, SameU, SameT, SameW, SameQ
  <1>2. Settled'
    BY <1>1, QueueStill DEF Settled, Ordered
  <1>3. Leads(rcpkt, 1)
    BY <1>1 DEF Leads, At, Ordered
  <1>4. Moves(rcpkt, 1, 0)
    BY <1>1 DEF Moves, At, SameU, SameT, SameW, SameQ
  <1> QED
    BY <1>2, <1>3, <1>4 DEF Motion, Arrives

LEMMA MotionNext ==
  ASSUME LinkInv, tx_needed, Lined, SentOK, Ordered, [Next]_vars
  PROVE  Motion /\ Settled'
  <1>0. tpc \in [Threads -> {"idle", "check", "put", "give"}] /\ Writer \in Threads
    BY DEF LinkInv, TypeOK, HostTypeOK, Threads
  <1>1. ASSUME SameR, SameU, SameT, SameW, SameQ PROVE Motion /\ Settled'
    BY <1>1, StillWhen, QueueStill DEF Motion, Settled, Ordered, SameR
  <1>2. ASSUME NEW t \in Threads, GivePacket(t) PROVE Motion /\ Settled'
    <2>1. SameR /\ SameU /\ SameT /\ SameQ
      BY <1>2 DEF GivePacket, SameR, SameU, SameT, SameQ
    <2>2. /\ tpc[t] = "give" /\ tpkt' = [tpkt EXCEPT ![t] = None] /\ tpkt \in [Threads -> Packet]
          /\ tpc' = [tpc EXCEPT ![t] = IF tpkt[t].more THEN "check" ELSE "idle"]
      BY <1>2 DEF GivePacket, LinkInv, TypeOK, HostTypeOK
    <2>3. SameW
      <3>1. CASE t = Writer
        <4>1. tpc[Writer] = "give" /\ tpc'[Writer] # "put"
          BY <1>0, <2>2, <3>1
        <4> QED
          BY <4>1 DEF SameW
      <3>2. CASE t # Writer
        <4>1. tpc'[Writer] = tpc[Writer] /\ tpkt'[Writer] = tpkt[Writer]
          BY <1>0, <2>2, <3>2
        <4> QED
          BY <4>1 DEF SameW
      <3> QED
        BY <3>1, <3>2
    <2> QED
      BY <1>1, <2>1, <2>3
  <1>3. ASSUME NEW len \in MsgSizes, SerialWrite(len) PROVE Motion /\ Settled'
    <2>1. SameR /\ SameU /\ SameT /\ SameQ
      BY <1>3 DEF SerialWrite, SameR, SameU, SameT, SameQ
    <2>2. tpc[Writer] = "idle" /\ tpc'[Writer] # "put"
      BY <1>0, <1>3 DEF SerialWrite
    <2> QED
      BY <1>1, <2>1, <2>2 DEF SameW
  <1>4. ASSUME NEW t \in Threads, SendPacket(t) PROVE Motion /\ Settled'
    <2>1. SameR /\ SameU /\ SameT /\ SameQ
      BY <1>4 DEF SendPacket, SameR, SameU, SameT, SameQ
    <2>2. tpc'[Writer] = tpc[Writer] /\ tpkt' = tpkt
      BY <1>0, <1>4, ThreadsAssumption DEF SendPacket
    <2> QED
      BY <1>1, <2>1, <2>2 DEF SameW
  <1>5. CASE InitEvent
    <2>1. SameR /\ SameU /\ SameT /\ SameQ
      BY <1>5 DEF InitEvent, SameR, SameU, SameT, SameQ
    <2>2. tpc'[Writer] = tpc[Writer] /\ tpkt' = tpkt
      BY <1>0, <1>5, ThreadsAssumption DEF InitEvent, Threads
    <2> QED
      BY <1>1, <2>1, <2>2 DEF SameW
  <1>6. CASE \/ StartWriting \/ TakeToSlave \/ UartGive \/ TakeRx \/ DataReady \/ RaiseEvent
             \/ PserialRecv \/ SerialReadData \/ ReleaseR \/ UNCHANGED vars
    BY <1>1, <1>6 DEF StartWriting, TakeToSlave, UartGive, TakeRx, DataReady, RaiseEvent,
       PserialRecv, SerialReadData, ReleaseR, vars, SameR, SameU, SameT, SameW, SameQ
  <1> QED
    BY <1>2, <1>3, <1>4, <1>5, <1>6, MotionRecvToSlave, MotionRecvRx, MotionUartRead,
       MotionWritePacket, MotionUartPut, MotionPutPacket, MotionCheck, MotionCopy
       DEF Next, Idle, Transmit, WriteTask, UartRxTask, RecvTask, PserialTask
-----------------------------------------------------------------------------
(* What serial_ll_write transmits next.                                    *)

LEMMA CursorType == ASSUME LinkInv PROVE Wm \in Nat /\ Wp \in Nat
  <1>1. sent \in Seq(Seq(Byte)) /\ woff \in Nat /\ tpkt[Writer] \in Packet
    BY DEF LinkInv, TypeOK, HostTypeOK, Threads
  <1>2. Len(sent) \in Nat /\ tpkt[Writer].bytes \in Seq(Byte)
    BY <1>1, LenProperties DEF Packet
  <1>3. Len(tpkt[Writer].bytes) \in Nat
    BY <1>2, LenProperties
  <1> QED
    BY <1>1, <1>2, <1>3 DEF Wm, Wp

LEMMA CursorStill ==
  ASSUME LinkInv, Fresh, [Next]_vars, ~(CheckTransport(Writer) /\ tx_ready)
  PROVE  Wm' = Wm /\ Wp' = Wp
  <1>0. /\ tpc \in [Threads -> {"idle", "check", "put", "give"}] /\ Writer \in Threads
        /\ tpkt \in [Threads -> Packet] /\ sent \in Seq(Seq(Byte)) /\ Len(sent) \in Nat
        /\ woff \in Nat
    BY LenProperties DEF LinkInv, TypeOK, HostTypeOK, Threads
  <1>1. ASSUME UNCHANGED <<tpc[Writer], tpkt[Writer], woff, sent>> PROVE Wm' = Wm /\ Wp' = Wp
    BY <1>1 DEF Wm, Wp, Turned
  <1>2. ASSUME NEW t \in Threads, CheckTransport(t) PROVE Wm' = Wm /\ Wp' = Wp
    <2>1. CASE t # Writer
      <3>1. UNCHANGED <<woff, sent>>
        BY <1>2, <2>1 DEF CheckTransport
      <3>2. tpc'[Writer] = tpc[Writer] /\ tpkt'[Writer] = tpkt[Writer]
        BY <1>0, <1>2, <2>1 DEF CheckTransport
      <3> QED
        BY <1>1, <3>1, <3>2
    <2>2. CASE t = Writer
      <3>1. /\ ~tx_ready /\ tpc[Writer] = "check" /\ woff' = woff
            /\ tpc' = [tpc EXCEPT ![Writer] = "idle"] /\ sent' = SubSeq(sent, 1, Len(sent) - 1)
        BY <1>2, <2>2 DEF CheckTransport
      <3>2. Len(sent) = 1 /\ woff = 0
        BY <3>1 DEF Fresh
      <3>3. sent' = SubSeq(sent, 0 + 1, 0 + 0) /\ 0 + 0 <= Len(sent)
        BY <3>1, <3>2
      <3>4. Len(sent') = 0
        BY <1>0, <3>3, SubSeqType
      <3>5. tpc'[Writer] = "idle"
        BY <1>0, <3>1
      <3> QED
        BY <3>1, <3>2, <3>4, <3>5 DEF Wm, Wp, Turned
    <2> QED
      BY <2>1, <2>2
  <1>3. ASSUME NEW t \in Threads, PutPacket(t) PROVE Wm' = Wm /\ Wp' = Wp
    <2>1. UNCHANGED <<woff, sent, tpkt>> /\ tpc[t] = "put" /\ tpc' = [tpc EXCEPT ![t] = "give"]
      BY <1>3 DEF PutPacket
    <2>2. CASE t = Writer
      <3>1. tpc[Writer] = "put" /\ tpc'[Writer] = "give"
        BY <1>0, <2>1, <2>2
      <3> QED
        BY <2>1, <3>1 DEF Wm, Wp, Turned
    <2>3. CASE t # Writer
      <3>1. tpc'[Writer] = tpc[Writer]
        BY <1>0, <2>1, <2>3
      <3> QED
        BY <1>1, <2>1, <3>1
    <2> QED
      BY <2>2, <2>3
  <1>4. ASSUME NEW t \in Threads, GivePacket(t) PROVE Wm' = Wm /\ Wp' = Wp
    <2>1. /\ sent' = sent /\ tpc[t] = "give" /\ tpkt' = [tpkt EXCEPT ![t] = None]
          /\ tpc' = [tpc EXCEPT ![t] = IF tpkt[t].more THEN "check" ELSE "idle"]
          /\ woff' = IF t = Writer THEN woff + Len(tpkt[t].bytes) ELSE woff
      BY <1>4 DEF GivePacket
    <2>2. CASE t = Writer
      <3>1. /\ tpc[Writer] = "give" /\ woff' = woff + Len(tpkt[Writer].bytes)
            /\ tpc'[Writer] = IF tpkt[Writer].more THEN "check" ELSE "idle"
        BY <1>0, <2>1, <2>2
      <3> QED
        BY <2>1, <3>1 DEF Wm, Wp, Turned
    <2>3. CASE t # Writer
      <3>1. tpc'[Writer] = tpc[Writer] /\ tpkt'[Writer] = tpkt[Writer] /\ woff' = woff
        BY <1>0, <2>1, <2>3
      <3> QED
        BY <1>1, <2>1, <3>1
    <2> QED
      BY <2>2, <2>3
  <1>5. ASSUME NEW len \in MsgSizes, SerialWrite(len) PROVE Wm' = Wm /\ Wp' = Wp
    <2>1. tpc[Writer] = "idle" /\ woff' = 0 /\ tpkt' = tpkt
      BY <1>5 DEF SerialWrite
    <2>2. CASE len <= BufSize
      <3>1. \E b : sent' = Append(sent, b)
        BY <1>5, <2>2 DEF SerialWrite
      <3>2. Len(sent') = Len(sent) + 1
        BY <1>0, <3>1, AppendProperties, LenProperties
      <3>3. tpc'[Writer] = "check"
        BY <1>0, <1>5, <2>2 DEF SerialWrite
      <3> QED
        BY <2>1, <3>2, <3>3 DEF Wm, Wp, Turned
    <2>3. CASE ~(len <= BufSize)
      <3>1. sent' = sent /\ tpc' = tpc
        BY <1>5, <2>3 DEF SerialWrite
      <3> QED
        BY <2>1, <3>1 DEF Wm, Wp, Turned
    <2> QED
      BY <2>2, <2>3
  <1>6. ASSUME NEW t \in Threads, SendPacket(t) PROVE Wm' = Wm /\ Wp' = Wp
    <2>1. UNCHANGED <<woff, sent, tpkt>>
      BY <1>6 DEF SendPacket
    <2>2. tpc'[Writer] = tpc[Writer]
      BY <1>0, <1>6, ThreadsAssumption DEF SendPacket
    <2> QED
      BY <1>1, <2>1, <2>2
  <1>7. CASE InitEvent
    <2>1. UNCHANGED <<woff, sent, tpkt>>
      BY <1>7 DEF InitEvent
    <2>2. tpc'[Writer] = tpc[Writer]
      BY <1>0, <1>7, ThreadsAssumption DEF InitEvent, Threads
    <2> QED
      BY <1>1, <2>1, <2>2
  <1>8. CASE UNCHANGED <<tpc, tpkt, woff, sent>>
    BY <1>1, <1>8
  <1> QED
    BY <1>2, <1>3, <1>4, <1>5, <1>6, <1>7, <1>8 DEF Next, StartWriting, Transmit, WriteTask,
       TakeToSlave, RecvToSlave, WritePacket, UartRxTask, UartRead, UartPut, UartGive, RecvTask,
       TakeRx, RecvRx, CopyFragment, DataReady, RaiseEvent, PserialTask, PserialRecv,
       SerialReadData, ReleaseR, TornCopy, Idle, vars

\* The new fragment starts there, and its end is where the next one starts.
LEMMA CursorTurn ==
  ASSUME LinkInv, SentOK, CheckTransport(Writer), tx_ready, NEW h, h = Fragment(Len(sent), woff)
  PROVE  /\ IsFragment(h) /\ h \in Packet /\ h.buf = Wm /\ Pos(h) = Wp /\ sent' = sent
         /\ Len(h.bytes) \in Nat /\ 0 < Len(h.bytes)
         /\ h.more => Wm' = Wm /\ Wp' = Wp + Len(h.bytes)
         /\ ~h.more => Wm' = Wm + 1 /\ Wp' = 1
  <1>1. /\ tpc \in [Threads -> {"idle", "check", "put", "give"}] /\ Writer \in Threads
        /\ tpkt \in [Threads -> Packet] /\ sent \in Seq(Seq(Byte)) /\ woff \in Nat
        /\ tpc[Writer] = "check" /\ sent # <<>> /\ woff < Len(sent[Len(sent)])
    BY DEF LinkInv, TypeOK, HostTypeOK, Threads, WriterInv, CheckTransport
  <1>2. Len(sent) \in 1 .. Len(sent) /\ Len(sent) \in Nat
    BY <1>1, EmptySeq, LenProperties
  <1>3. Parts(h, Len(sent), woff)
    BY <1>1, <1>2, FragmentParts
  <1>4. /\ tpkt' = [tpkt EXCEPT ![Writer] = h] /\ tpc' = [tpc EXCEPT ![Writer] = "put"]
        /\ sent' = sent /\ woff' = woff
    BY DEF CheckTransport, PacketOf
  <1>5. tpkt'[Writer] = h /\ tpc'[Writer] = "put"
    BY <1>1, <1>4
  <1>6. Wm = Len(sent) /\ Wp = woff + 1
    BY <1>1 DEF Wm, Wp, Turned
  <1>7. /\ h \in Packet /\ h.buf = Len(sent) /\ Pos(h) = woff + 1
        /\ Len(h.bytes) \in Nat /\ 0 < Len(h.bytes)
    BY <1>3 DEF Parts
  <1>8. h.more => Wm' = Len(sent) /\ Wp' = woff + Len(h.bytes) + 1
    BY <1>4, <1>5 DEF Wm, Wp, Turned
  <1>9. ~h.more => Wm' = Len(sent) + 1 /\ Wp' = 1
    BY <1>4, <1>5 DEF Wm, Wp, Turned
  <1>10. IsFragment(h)
    BY <1>1, <1>2, <1>7 DEF IsFragment
  <1>11. h.more => Wm' = Wm /\ Wp' = Wp + Len(h.bytes)
    <2>1. PICK n \in Nat : n = Len(h.bytes)
      BY <1>7
    <2>2. woff + n + 1 = (woff + 1) + n
      BY <1>1
    <2> QED
      BY <1>6, <1>8, <2>1, <2>2
  <1>12. ~h.more => Wm' = Wm + 1 /\ Wp' = 1
    BY <1>6, <1>9
  <1> QED
    BY <1>4, <1>6, <1>7, <1>10, <1>11, <1>12

LEMMA FreshEmpty ==
  ASSUME Fresh, ~tx_ready, NEW x
  PROVE  ~Flying(x)
  <1>1. /\ rcpc # "serial" /\ uart_rx_queue[1] = <<>> /\ urpc # "put" /\ wire = <<>>
        /\ txpc # "write" /\ to_slave_queue[1] = <<>> /\ tpc[Writer] # "put"
    BY DEF Fresh, AllEmpty, Prio, Threads
  <1>2. Len(<<>>) = 0
    BY EmptySeq
  <1>3. ~Has(<<>>, x)
    BY <1>2 DEF Has
  <1> QED
    BY <1>1, <1>3 DEF Flying, At

LEMMA FragmentStays ==
  ASSUME LinkInv, tx_ready, NEW x \in Packet, IsFragment(x), [Next]_vars
  PROVE  IsFragment(x)'
  <1>1. sent \in Seq(Seq(Byte)) /\ Len(sent) \in Nat
    BY LenProperties DEF LinkInv, TypeOK, HostTypeOK
  <1>2. CASE sent' = sent
    BY <1>2 DEF IsFragment, Fragment
  <1>3. ASSUME NEW len \in MsgSizes, sent' = Append(sent, Bytes(Len(sent) + 1, len))
        PROVE  IsFragment(x)'
    <2>1. Bytes(Len(sent) + 1, len) \in Seq(Byte)
      <3>1. Len(sent) + 1 \in Nat /\ len \in Nat
        BY <1>1, LinkAssumption
      <3> QED
        BY <3>1, BytesType
    <2>2. Len(sent') = Len(sent) + 1 /\ \A m \in 1 .. Len(sent) : sent'[m] = sent[m]
      BY <1>1, <1>3, <2>1, AppendProperties
    <2>3. x.buf \in 1 .. Len(sent') /\ sent'[x.buf] = sent[x.buf]
      BY <1>1, <2>2 DEF IsFragment
    <2>4. PICK off \in Nat : off < Len(sent[x.buf]) /\ x = Fragment(x.buf, off)
      BY DEF IsFragment
    <2>5. Fragment(x.buf, off)' = Fragment(x.buf, off)
      BY <2>3 DEF Fragment
    <2> QED
      BY <2>3, <2>4, <2>5 DEF IsFragment
  <1> QED
    BY <1>2, <1>3, SentMoves

\* In every motion what flies was flying, or is new.
LEMMA FlyingMotion ==
  ASSUME Motion, NEW y \in Packet, Flying(y)'
  PROVE  Flying(y) \/ (Enters /\ y = Fragment(Len(sent), woff))
  <1>1. PICK s \in 1 .. 7 : At(s, y)'
    BY DEF Flying
  <1>2. CASE Still
    BY <1>1, <1>2 DEF Still, Flying
  <1>3. CASE Advances
    <2>1. PICK h \in Packet, a \in 2 .. 7, b \in 0 .. 6 : Leads(h, a) /\ Moves(h, a, b)
      BY <1>3 DEF Advances
    <2>2. At(s, y) \/ y = h
      BY <1>1, <2>1 DEF Moves
    <2>3. At(a, h) /\ a \in 1 .. 7
      BY <2>1 DEF Leads
    <2> QED
      BY <2>2, <2>3 DEF Flying
  <1>4. CASE Arrives
    BY <1>1, <1>4 DEF Arrives, Moves, Flying
  <1>5. CASE Enters
    BY <1>1, <1>5 DEF Enters, Moves, Flying
  <1> QED
    BY <1>2, <1>3, <1>4, <1>5 DEF Motion

LEMMA OrderedStep ==
  ASSUME LinkInv, tx_needed, Lined, SentOK, Fresh, Ordered, [Next]_vars
  PROVE  Ordered'
  <1>1. Motion /\ Settled'
    BY MotionNext
  <1>2. Wm \in Nat /\ Wp \in Nat
    BY CursorType
  <1>3. ASSUME NEW y \in Packet, Flying(y)
        PROVE  tx_ready /\ IsFragment(y) /\ Behind(y) /\ y.buf \in Nat /\ Pos(y) \in Nat
    BY <1>3, FreshEmpty, FragmentPos DEF Ordered, Fragments
  <1>4. StageOrder'
    <2>1. CASE Still
      BY <2>1, StageStill DEF Ordered
    <2>2. CASE Advances
      <3>1. PICK h \in Packet, a \in 2 .. 7, b \in 0 .. 6 :
               Leads(h, a) /\ Moves(h, a, b) /\ (b + 1 = a \/ b = 0)
        BY <2>2 DEF Advances
      <3>2. a \in 1 .. 7 /\ StageOrder
        BY DEF Ordered
      <3> QED
        BY <3>1, <3>2, StageMoves
    <2>3. CASE Arrives
      <3>1. rcpkt \in Packet /\ Leads(rcpkt, 1) /\ Moves(rcpkt, 1, 0) /\ StageOrder
        BY <2>3 DEF Arrives, LinkInv, TypeOK, SlaveTypeOK, Ordered
      <3> QED
        BY <3>1, StageMoves
    <2>4. CASE Enters
      <3>1. PICK h : h = Fragment(Len(sent), woff)
        OBVIOUS
      <3>2. h \in Packet /\ h.buf = Wm /\ Pos(h) = Wp
        BY <2>4, <3>1, CursorTurn DEF Enters
      <3>3. \A y \in Packet : Flying(y) => Lt(y, h)
        BY <1>3, <3>2 DEF Behind, Lt
      <3> QED
        BY <2>4, <3>1, <3>2, <3>3, StageEnters DEF Enters, Ordered
    <2> QED
      BY <1>1, <2>1, <2>2, <2>3, <2>4 DEF Motion
  <1>5. ASSUME NEW y \in Packet, Flying(y)' PROVE IsFragment(y)' /\ Behind(y)'
    <2>1. CASE Flying(y)
      <3>1. IsFragment(y)'
        BY <1>3, <2>1, FragmentStays
      <3>2. CASE ~(CheckTransport(Writer) /\ tx_ready)
        <4>1. Wm' = Wm /\ Wp' = Wp
          BY <3>2, CursorStill
        <4> QED
          BY <1>3, <2>1, <3>1, <4>1 DEF Behind
      <3>3. CASE CheckTransport(Writer) /\ tx_ready
        <4>1. PICK h : h = Fragment(Len(sent), woff)
          OBVIOUS
        <4>2. /\ Len(h.bytes) \in Nat /\ 0 < Len(h.bytes)
              /\ h.more => Wm' = Wm /\ Wp' = Wp + Len(h.bytes)
              /\ ~h.more => Wm' = Wm + 1 /\ Wp' = 1
          BY <3>3, <4>1, CursorTurn
        <4>3. Behind(y)'
          BY <1>2, <1>3, <2>1, <4>2 DEF Behind
        <4> QED
          BY <3>1, <4>3
      <3> QED
        BY <3>2, <3>3
    <2>2. CASE Enters /\ y = Fragment(Len(sent), woff)
      <3>1. /\ IsFragment(y) /\ sent' = sent /\ y.buf = Wm /\ Pos(y) = Wp
            /\ Len(y.bytes) \in Nat /\ 0 < Len(y.bytes)
            /\ y.more => Wm' = Wm /\ Wp' = Wp + Len(y.bytes)
            /\ ~y.more => Wm' = Wm + 1 /\ Wp' = 1
        BY <2>2, CursorTurn DEF Enters
      <3>2. IsFragment(y)'
        BY <3>1 DEF IsFragment, Fragment
      <3>3. Behind(y)'
        BY <1>2, <3>1 DEF Behind
      <3> QED
        BY <3>2, <3>3
    <2> QED
      BY <1>1, <1>5, <2>1, <2>2, FlyingMotion
  <1> QED
    BY <1>1, <1>4, <1>5 DEF Ordered, Fragments, Settled

LEMMA OrderedInit == Init => Ordered
  <1> SUFFICES ASSUME Init PROVE Ordered
    OBVIOUS
  <1>1. \A x : ~Flying(x)
    BY FreshInit, FreshEmpty DEF Init
  <1>2. \A s \in 1 .. 7 : \A x : ~At(s, x)
    BY <1>1 DEF Flying
  <1>3. Len(uart_rx_queue[1]) = 0 /\ Len(wire) = 0 /\ Len(to_slave_queue[1]) = 0
    BY EmptySeq DEF Init, Prio
  <1> QED
    BY <1>1, <1>2, <1>3 DEF Ordered, StageOrder, QueueOrder, Fragments, Sorted, Init
-----------------------------------------------------------------------------
(* The buffer of a request outlives its fragments.                         *)

\* What was freed is a request all of whose fragments were written.
Live ==
    \A m \in freed : /\ m # 0 /\ m < Wm
                     /\ \A x \in Packet, s \in 5 .. 7 : At(s, x) => m < x.buf

LEMMA LiveStep ==
  ASSUME LinkInv, tx_needed, Lined, SentOK, Fresh, Ordered, Live, [Next]_vars
  PROVE  Live'
  <1>0. Wm \in Nat /\ Wm' \in Nat /\ Wm <= Wm' /\ freed \in SUBSET Nat
    <2>1. Wm \in Nat /\ freed \in SUBSET Nat
      BY CursorType DEF LinkInv, TypeOK, HostTypeOK
    <2>2. CASE ~(CheckTransport(Writer) /\ tx_ready)
      BY <2>1, <2>2, CursorStill
    <2>3. CASE CheckTransport(Writer) /\ tx_ready
      <3>1. PICK h : h = Fragment(Len(sent), woff)
        OBVIOUS
      <3>2. Wm' = Wm \/ Wm' = Wm + 1
        BY <2>3, <3>1, CursorTurn
      <3> QED
        BY <2>1, <3>2
    <2> QED
      BY <2>2, <2>3
  <1>1. Motion
    BY MotionNext
  <1>2. ASSUME NEW m \in freed
        PROVE  m # 0 /\ m < Wm' /\ \A x \in Packet, s \in 5 .. 7 : At(s, x)' => m < x.buf
    <2>1. m \in Nat /\ m # 0 /\ m < Wm
      BY <1>0, <1>2 DEF Live
    <2>2. m < Wm'
      BY <1>0, <2>1
    <2> SUFFICES ASSUME NEW x \in Packet, NEW s \in 5 .. 7, At(s, x)' PROVE m < x.buf
      BY <2>1, <2>2
    <2>3. ASSUME NEW t \in 5 .. 7, At(t, x) PROVE m < x.buf
      BY <1>2, <2>3 DEF Live
    <2>4. s \in 1 .. 7
      OBVIOUS
    <2>5. CASE Still
      BY <2>3, <2>4, <2>5 DEF Still
    <2>6. CASE Advances
      <3>1. PICK h \in Packet, a \in 2 .. 7, b \in 0 .. 6 :
               Leads(h, a) /\ Moves(h, a, b) /\ (b + 1 = a \/ b = 0)
        BY <2>6 DEF Advances
      <3>2. At(s, x) \/ (s = b /\ x = h)
        BY <2>4, <3>1 DEF Moves
      <3>3. CASE s = b /\ x = h
        <4>1. a \in 5 .. 7 /\ At(a, x)
          BY <3>1, <3>3 DEF Leads
        <4> QED
          BY <2>3, <4>1
      <3> QED
        BY <2>3, <3>2, <3>3
    <2>7. CASE Arrives
      BY <2>3, <2>4, <2>7 DEF Arrives, Moves
    <2>8. CASE Enters
      <3>1. PICK h : h = Fragment(Len(sent), woff)
        OBVIOUS
      <3>2. At(s, x) \/ x = h
        BY <2>4, <2>8, <3>1 DEF Enters, Moves
      <3>3. h.buf = Wm
        BY <2>8, <3>1, CursorTurn DEF Enters
      <3> QED
        BY <2>1, <2>3, <3>2, <3>3
    <2> QED
      BY <1>1, <2>5, <2>6, <2>7, <2>8 DEF Motion
  <1>3. CASE WritePacket
    <2>1. /\ freed' = freed \/ freed' = freed \cup ({txpkt.free} \ {0})
          /\ txpc = "write" /\ txpc' = "take" /\ tpc' = tpc /\ tpkt' = tpkt
          /\ to_slave_queue' = to_slave_queue
      BY <1>3 DEF WritePacket
    <2>2. ASSUME txpkt.free # 0
          PROVE  txpkt.free < Wm' /\ \A x \in Packet, s \in 5 .. 7 : At(s, x)' => txpkt.free < x.buf
      <3>1. txpkt \in Packet /\ txpkt.buf # 0
        BY <2>2 DEF Lined, Sane, LinkInv, TypeOK, HostTypeOK
      <3>2. At(5, txpkt) /\ Flying(txpkt)
        BY <2>1, <3>1 DEF At, Flying
      <3>3. IsFragment(txpkt) /\ Behind(txpkt)
        BY <3>1, <3>2 DEF Ordered, Fragments
      <3>4. ~txpkt.more /\ txpkt.free = txpkt.buf
        BY <2>2, <3>3, FragmentPos
      <3>5. txpkt.free < Wm'
        <4>1. txpkt.buf < Wm /\ txpkt.buf \in Nat
          BY <3>1, <3>3, <3>4 DEF Behind, Packet
        <4> QED
          BY <1>0, <3>4, <4>1
      <3>6. ASSUME NEW x \in Packet, NEW s \in 5 .. 7, At(s, x)' PROVE txpkt.free < x.buf
        <4>1. At(s, x) /\ s # 5
          BY <2>1, <3>6 DEF At
        <4>2. Lt(txpkt, x)
          <5>1. s \in 1 .. 7 /\ 5 < s /\ 5 \in 1 .. 7
            BY <4>1
          <5> QED
            BY <3>1, <3>2, <4>1, <5>1 DEF Ordered, StageOrder
        <4> QED
          BY <3>4, <4>2 DEF Lt
      <3> QED
        BY <3>5, <3>6
    <2>3. ASSUME NEW m \in freed' PROVE m \in freed \/ (m = txpkt.free /\ m # 0)
      BY <2>1, <2>3
    <2> QED
      BY <1>2, <2>2, <2>3 DEF Live
  <1>4. CASE freed' = freed
    BY <1>2, <1>4 DEF Live
  <1> QED
    BY <1>3, <1>4 DEF Next, InitEvent, StartWriting, SerialWrite, SendPacket, Transmit,
       CheckTransport, PutPacket, GivePacket, WriteTask, TakeToSlave, RecvToSlave, UartRxTask,
       UartRead, UartPut, UartGive, RecvTask, TakeRx, RecvRx, CopyFragment, DataReady,
       RaiseEvent, PserialTask, PserialRecv, SerialReadData, ReleaseR, TornCopy, Idle, vars

\* Everything about the way of the fragments, whatever is lost or torn.
WayInv == LinkInv /\ ToSlaveCount /\ Lined /\ SentOK /\ Fresh /\ Ordered /\ Live

LEMMA WayHolds == Spec => []WayInv
  <1>1. Init => WayInv
    <2> SUFFICES ASSUME Init PROVE WayInv
      OBVIOUS
    <2>1. Live
      BY DEF Init, Live
    <2> QED
      BY <2>1, LinkInit, CountInit, LinedInit, SentInit, FreshInit, OrderedInit DEF WayInv
  <1>2. WayInv /\ [Next]_vars => WayInv'
    <2> SUFFICES ASSUME WayInv, [Next]_vars PROVE WayInv'
      OBVIOUS
    <2>1. tx_needed /\ LinkInv /\ ToSlaveCount /\ Lined /\ SentOK /\ Fresh /\ Ordered /\ Live
      BY DEF WayInv, ToSlaveCount
    <2>2. LinkInv' /\ ToSlaveCount'
      BY <2>1, LinkStep, ToSlaveStep
    <2>3. Lined' /\ SentOK' /\ Fresh'
      BY <2>1, LinedStep, SentStep, FreshStep
    <2>4. Ordered' /\ Live'
      BY <2>1, OrderedStep, LiveStep
    <2> QED
      BY <2>2, <2>3, <2>4 DEF WayInv
  <1> QED
    BY <1>1, <1>2, PTL DEF Spec

\* The last fragment takes the buffer of its request along, and h_uart_write_task
\* frees it: no fragment in a queue or in the hands of a task points into a buffer
\* that is gone, whatever the priorities, the sizes and the losses.
THEOREM FragmentsStayLive == Spec => []FragmentsLive
  <1>1. WayInv => FragmentsLive
    <2> SUFFICES ASSUME WayInv PROVE FragmentsLive
      OBVIOUS
    <2> USE DEF WayInv
    <2>1. /\ to_slave_queue \in [Prio -> Seq(Packet)] /\ tpkt \in [Threads -> Packet]
          /\ txpkt \in Packet /\ freed \in SUBSET Nat
      BY DEF LinkInv, TypeOK, HostTypeOK
    <2>2. ASSUME NEW x \in Packet, x.buf \in freed, NEW s \in 5 .. 7, At(s, x) PROVE FALSE
      <3>1. x.buf < x.buf /\ x.buf \in Nat
        BY <2>2 DEF Live, Packet
      <3> QED
        BY <3>1
    <2>3. 0 \notin freed
      BY DEF Live
    <2>4. ASSUME NEW p \in Prio, NEW k \in DOMAIN to_slave_queue[p]
          PROVE  to_slave_queue[p][k].buf \notin freed
      <3> DEFINE x == to_slave_queue[p][k]
      <3>1. to_slave_queue[p] \in Seq(Packet)
        BY <2>1
      <3>2. k \in 1 .. Len(to_slave_queue[p]) /\ x \in Packet
        BY <3>1, ElementOfSeq, LenProperties
      <3>3. x.prio = p /\ Sane(x)
        BY <3>2 DEF Lined, Lanes
      <3>4. CASE x.buf = 0
        BY <2>3, <3>4
      <3>5. CASE x.buf # 0
        <4>1. p = 1
          BY <3>3, <3>5 DEF Sane
        <4>2. Has(to_slave_queue[1], x)
          BY <3>2, <4>1 DEF Has
        <4>3. At(6, x)
          BY <3>5, <4>2 DEF At
        <4> QED
          BY <2>2, <3>2, <4>3
      <3> QED
        BY <3>4, <3>5
    <2>5. ASSUME NEW t \in Threads, tpc[t] = "put" PROVE tpkt[t].buf \notin freed
      <3>1. CASE tpkt[t].buf = 0
        BY <2>3, <3>1
      <3>2. CASE tpkt[t].buf # 0
        <4>1. t = Writer
          BY <3>2 DEF Lined
        <4>2. At(7, tpkt[t]) /\ tpkt[t] \in Packet
          BY <2>1, <2>5, <3>2, <4>1 DEF At
        <4> QED
          BY <2>2, <4>2
      <3> QED
        BY <3>1, <3>2
    <2>6. txpkt.buf \notin freed
      <3>1. CASE txpkt.buf = 0
        BY <2>3, <3>1
      <3>2. CASE txpkt.buf # 0
        <4>1. txpc = "write"
          BY <3>2, SaneNone DEF Lined
        <4>2. At(5, txpkt)
          BY <3>2, <4>1 DEF At
        <4> QED
          BY <2>1, <2>2, <4>2
      <3> QED
        BY <3>1, <3>2
    <2> QED
      BY <2>4, <2>5, <2>6 DEF FragmentsLive
  <1> QED
    BY <1>1, WayHolds, PTL
-----------------------------------------------------------------------------
(* The fragments between r and serial_ll_write, without a gap.             *)

\* The request and the byte that r is to receive next.
Busy == r_valid \/ pspc = "release"
Cm   == IF Busy THEN Len(got) + 2 ELSE Len(got) + 1
Cp   == IF Busy THEN 1 ELSE Len(r_data) + 1

\* Fragment x ends where byte p of request m follows.
Follows(x, m, p) ==
    \/ x.more /\ m = x.buf /\ p = Pos(x) + Len(x.bytes)
    \/ ~x.more /\ m = x.buf + 1 /\ p = 1
Reached(m, p) == (m = Cm /\ p = Cp) \/ \E x \in Packet : Flying(x) /\ Follows(x, m, p)

\* Every fragment follows another one or what r has, and so does what is written next.
Chain == (\A y \in Packet : Flying(y) => Reached(y.buf, Pos(y))) /\ Reached(Wm, Wp)

\* A fragment precedes what follows it.
LEMMA FollowsLt ==
  ASSUME LinkInv, SentOK, NEW x, IsFragment(x), NEW y, Follows(x, y.buf, Pos(y))
  PROVE  Lt(x, y)
  <1>1. x.buf \in Nat /\ Pos(x) \in Nat /\ Len(x.bytes) \in Nat /\ 0 < Len(x.bytes)
    BY FragmentPos
  <1> QED
    BY <1>1 DEF Follows, Lt

\* The fragment recv_task holds is the one r is to receive.
LEMMA NextForR ==
  ASSUME LinkInv, SentOK, Ordered, Chain, rcpc = "serial"
  PROVE  /\ Flying(rcpkt) /\ IsFragment(rcpkt) /\ rcpkt.buf = Cm /\ Pos(rcpkt) = Cp
  <1>1. rcpkt \in Packet /\ At(1, rcpkt) /\ Flying(rcpkt)
    BY DEF LinkInv, TypeOK, SlaveTypeOK, Ordered, At, Flying
  <1>2. IsFragment(rcpkt) /\ Reached(rcpkt.buf, Pos(rcpkt))
    BY <1>1 DEF Ordered, Fragments, Chain
  <1>3. ASSUME NEW x \in Packet, Flying(x), Follows(x, rcpkt.buf, Pos(rcpkt)) PROVE FALSE
    <2>1. IsFragment(x)
      BY <1>3 DEF Ordered, Fragments
    <2>2. Lt(x, rcpkt)
      BY <1>3, <2>1, FollowsLt
    <2>3. PICK s \in 1 .. 7 : At(s, x)
      BY <1>3 DEF Flying
    <2>4. x = rcpkt \/ Lt(rcpkt, x)
      <3>1. CASE s = 1
        BY <2>3, <3>1 DEF At
      <3>2. CASE s # 1
        <4>1. 1 < s /\ 1 \in 1 .. 7
          BY <3>2
        <4> QED
          BY <1>1, <1>3, <2>3, <4>1 DEF Ordered, StageOrder
      <3> QED
        BY <3>1, <3>2
    <2>5. x.buf \in Nat /\ Pos(x) \in Nat /\ rcpkt.buf \in Nat /\ Pos(rcpkt) \in Nat
      BY <1>2, <2>1, FragmentPos
    <2> QED
      BY <2>2, <2>4, <2>5 DEF Lt
  <1> QED
    BY <1>1, <1>2, <1>3 DEF Reached

\* Without a loss what flies goes on flying, until it arrives.
LEMMA FlyingKept ==
  ASSUME Motion, ~(drops' > 0), NEW x \in Packet, Flying(x)
  PROVE  Flying(x)' \/ (Arrives /\ x = rcpkt)
  <1>1. PICK s \in 1 .. 7 : At(s, x)
    BY DEF Flying
  <1>2. CASE Still
    BY <1>1, <1>2 DEF Still, Flying
  <1>3. CASE Advances
    <2>1. PICK h \in Packet, a \in 2 .. 7, b \in 0 .. 6 : Moves(h, a, b) /\ b + 1 = a
      BY <1>3 DEF Advances
    <2>2. CASE s = a /\ x = h
      <3>1. b \in 1 .. 7 /\ At(b, x)'
        BY <2>1, <2>2 DEF Moves
      <3> QED
        BY <3>1 DEF Flying
    <2>3. CASE ~(s = a /\ x = h)
      <3>1. At(s, x)'
        BY <1>1, <2>1, <2>3 DEF Moves
      <3> QED
        BY <3>1 DEF Flying
    <2> QED
      BY <2>2, <2>3
  <1>4. CASE Arrives
    <2>1. SUFFICES ASSUME x # rcpkt PROVE Flying(x)'
      BY <1>4
    <2>2. At(s, x)'
      BY <1>1, <1>4, <2>1 DEF Arrives, Moves
    <2> QED
      BY <2>2 DEF Flying
  <1>5. CASE Enters
    <2>1. s # 8
      OBVIOUS
    <2>2. At(s, x)'
      BY <1>1, <1>5, <2>1 DEF Enters, Moves
    <2> QED
      BY <2>2 DEF Flying
  <1> QED
    BY <1>2, <1>3, <1>4, <1>5 DEF Motion

\* The chain when r keeps its place: fragments fly on, or a new one is attached.
LEMMA ChainKept ==
  ASSUME LinkInv, SentOK, Fresh, Motion, [Next]_vars, ~(drops' > 0), ~Arrives, Chain,
         Cm' = Cm, Cp' = Cp
  PROVE  Chain'
  <1>1. ASSUME NEW m, NEW p, Reached(m, p) PROVE Reached(m, p)'
    <2>1. CASE m = Cm /\ p = Cp
      BY <2>1 DEF Reached
    <2>2. CASE \E x \in Packet : Flying(x) /\ Follows(x, m, p)
      <3>1. PICK x \in Packet : Flying(x) /\ Follows(x, m, p)
        BY <2>2
      <3>2. Flying(x)'
        BY <3>1, FlyingKept
      <3> QED
        BY <3>1, <3>2 DEF Reached
    <2> QED
      BY <1>1, <2>1, <2>2 DEF Reached
  <1>2. CASE ~(CheckTransport(Writer) /\ tx_ready)
    <2>1. Wm' = Wm /\ Wp' = Wp
      BY <1>2, CursorStill
    <2>2. ASSUME NEW y \in Packet, Flying(y)' PROVE Reached(y.buf, Pos(y))'
      <3>1. Flying(y)
        BY <1>2, <2>2, FlyingMotion DEF Enters
      <3>2. Reached(y.buf, Pos(y))
        BY <3>1 DEF Chain
      <3> QED
        BY <1>1, <3>2
    <2>3. PICK m, p : m = Wm /\ p = Wp
      OBVIOUS
    <2>4. Reached(m, p)
      BY <2>3 DEF Chain
    <2>5. Reached(m, p)'
      BY <1>1, <2>4
    <2>6. Reached(Wm, Wp)'
      BY <2>1, <2>3, <2>5 DEF Reached
    <2> QED
      BY <2>2, <2>6 DEF Chain
  <1>3. CASE CheckTransport(Writer) /\ tx_ready
    <2>1. PICK h : h = Fragment(Len(sent), woff)
      OBVIOUS
    <2>2. /\ h \in Packet /\ h.buf = Wm /\ Pos(h) = Wp
          /\ h.more => Wm' = Wm /\ Wp' = Wp + Len(h.bytes)
          /\ ~h.more => Wm' = Wm + 1 /\ Wp' = 1
      BY <1>3, <2>1, CursorTurn
    <2>3. Reached(h.buf, Pos(h))
      BY <2>2 DEF Chain
    <2>4. ASSUME NEW y \in Packet, Flying(y)' PROVE Reached(y.buf, Pos(y))'
      <3>1. Flying(y) \/ y = h
        BY <2>1, <2>4, FlyingMotion
      <3>2. Reached(y.buf, Pos(y))
        BY <2>3, <3>1 DEF Chain
      <3> QED
        BY <1>1, <3>2
    <2>5. Flying(h)'
      <3>1. tpc'[Writer] = "put" /\ tpkt'[Writer] = h /\ h.buf # 0
        <4>1. /\ tpc \in [Threads -> {"idle", "check", "put", "give"}] /\ Writer \in Threads
              /\ tpkt \in [Threads -> Packet] /\ sent \in Seq(Seq(Byte)) /\ sent # <<>>
          BY <1>3 DEF LinkInv, TypeOK, HostTypeOK, Threads, WriterInv, CheckTransport
        <4>2. tpc'[Writer] = "put" /\ tpkt'[Writer] = h
          BY <1>3, <2>1, <4>1 DEF CheckTransport, PacketOf
        <4>3. h.buf # 0
          BY <2>1, <4>1, EmptySeq, LenProperties DEF Fragment
        <4> QED
          BY <4>2, <4>3
      <3>2. At(7, h)'
        BY <3>1 DEF At
      <3> QED
        BY <3>2 DEF Flying
    <2>6. Follows(h, Wm, Wp)'
      BY <2>2 DEF Follows
    <2>7. Reached(Wm, Wp)'
      BY <2>2, <2>5, <2>6 DEF Reached
    <2> QED
      BY <2>4, <2>7 DEF Chain
  <1> QED
    BY <1>2, <1>3

\* The chain when r receives a fragment and its place moves to the end of it.
LEMMA ChainArrives ==
  ASSUME LinkInv, SentOK, Ordered, Fresh, Motion, [Next]_vars, ~(drops' > 0), Arrives, Chain,
         Follows(rcpkt, Cm', Cp')
  PROVE  Chain'
  <1>1. rcpc = "serial" /\ rcpkt \in Packet /\ ~(CheckTransport(Writer) /\ tx_ready)
    BY DEF Arrives, CopyFragment, TornCopy, LinkInv, TypeOK, SlaveTypeOK, HostTypeOK,
       CheckTransport, Threads
  <1>2. IsFragment(rcpkt) /\ rcpkt.buf = Cm /\ Pos(rcpkt) = Cp /\ Behind(rcpkt)
    BY <1>1, NextForR DEF Ordered, Fragments
  <1>3. Wm' = Wm /\ Wp' = Wp /\ Wm \in Nat /\ Wp \in Nat
    BY <1>1, CursorStill, CursorType
  <1>4. rcpkt.buf \in Nat /\ Pos(rcpkt) \in Nat
    BY <1>2, FragmentPos
  <1>5. ASSUME NEW m, NEW p, Reached(m, p), ~(m = rcpkt.buf /\ p = Pos(rcpkt))
        PROVE  Reached(m, p)'
    <2>1. PICK x \in Packet : Flying(x) /\ Follows(x, m, p)
      BY <1>2, <1>5 DEF Reached
    <2>2. CASE x = rcpkt
      <3>1. m = Cm' /\ p = Cp'
        BY <2>1, <2>2 DEF Follows
      <3> QED
        BY <3>1 DEF Reached
    <2>3. CASE x # rcpkt
      <3>1. Flying(x)'
        BY <2>1, <2>3, FlyingKept
      <3> QED
        BY <2>1, <3>1 DEF Reached
    <2> QED
      BY <2>2, <2>3
  <1>6. ASSUME NEW y \in Packet, Flying(y)' PROVE Reached(y.buf, Pos(y))'
    <2>1. PICK s \in 1 .. 7 : At(s, y)'
      BY <1>6 DEF Flying
    <2>2. At(s, y) /\ ~(s = 1 /\ y = rcpkt)
      BY <2>1 DEF Arrives, Moves
    <2>3. s # 1
      BY <2>2 DEF At
    <2>4. Lt(rcpkt, y)
      <3>1. At(1, rcpkt) /\ 1 < s /\ 1 \in 1 .. 7
        BY <2>3 DEF Arrives, Leads
      <3> QED
        BY <1>1, <2>2, <3>1 DEF Ordered, StageOrder
    <2>5. ~(y.buf = rcpkt.buf /\ Pos(y) = Pos(rcpkt))
      BY <1>4, <2>4 DEF Lt
    <2>6. Reached(y.buf, Pos(y))
      BY <2>2 DEF Chain, Flying
    <2> QED
      BY <1>5, <2>5, <2>6
  <1>7. Reached(Wm, Wp)'
    <2>1. PICK m, p : m = Wm /\ p = Wp
      OBVIOUS
    <2>2. Reached(m, p)
      BY <2>1 DEF Chain
    <2>3. ~(m = rcpkt.buf /\ p = Pos(rcpkt))
      BY <1>2, <1>3, <1>4, <2>1 DEF Behind
    <2>4. Reached(m, p)'
      BY <1>5, <2>2, <2>3
    <2> QED
      BY <1>3, <2>1, <2>4 DEF Reached
  <1> QED
    BY <1>6, <1>7 DEF Chain
-----------------------------------------------------------------------------
(* What r, its copies and the handled requests consist of.                 *)

\* r holds the first bytes of the request after the handled ones; all of them when
\* it is valid or being released.
Collected ==
    /\ r_data = Bytes(Len(got) + 1, Len(r_data))
    /\ Busy => Len(got) + 1 <= Len(sent) /\ Len(r_data) = Len(sent[Len(got) + 1])
    /\ ~Busy /\ Len(r_data) > 0 =>
          Len(got) + 1 <= Len(sent) /\ Len(r_data) < Len(sent[Len(got) + 1])
\* The copies that were made of r are what it holds.
Copies ==
    /\ \A k \in 1 .. Len(req_queue) : IsRequest(k) => req_queue[k].data = r_data
    /\ pspc = "read" => psarg = r_data
    /\ pspc = "release" => ~r_valid /\ psbuf = r_data
Handled == Len(got) <= Len(sent) /\ \A m \in 1 .. Len(got) : got[m] = sent[m]
Fitting == rcpc = "serial" => Len(rcpkt.bytes) <= rem_buff_size
Content == Collected /\ Copies /\ Handled /\ Fitting

Flowing == Undisturbed => Chain /\ Content

\* The requests that were accepted stay.
Kept == /\ Len(sent') \in Nat /\ Len(sent) <= Len(sent')
        /\ \A m \in 1 .. Len(sent) : sent'[m] = sent[m]

\* A stretch of a request continues the bytes before it.
Joins(m, a, b, len) == Bytes(m, a) \o SubSeq(Bytes(m, len), a + 1, a + b) = Bytes(m, a + b)

LEMMA BytesJoin ==
  ASSUME NEW m \in Nat, NEW a \in Nat, NEW b \in Nat, NEW len \in Nat, a + b <= len
  PROVE  Joins(m, a, b, len)
  <1> DEFINE s == Bytes(m, a)
             t == SubSeq(Bytes(m, len), a + 1, a + b)
             u == Bytes(m, a + b)
  <1>1. s \in Seq(Byte) /\ Len(s) = a /\ Bytes(m, len) \in Seq(Byte) /\ Len(Bytes(m, len)) = len
    BY BytesType
  <1>2. u \in Seq(Byte) /\ Len(u) = a + b
    <2>1. a + b \in Nat
      OBVIOUS
    <2> QED
      BY <2>1, BytesType
  <1>3. t \in Seq(Byte) /\ Len(t) = b
    BY <1>1, SubSeqType
  <1>4. \A i \in 1 .. b : t[i] = <<m, a + i>>
    <2>1. \A i \in (a + 1) .. (a + b) : Bytes(m, len)[i] = <<m, i>> /\ Bytes(m, len)[i] \in Byte
      BY DEF Bytes, Byte
    <2>2. \A i \in 1 .. ((a + b) - (a + 1) + 1) : t[i] = Bytes(m, len)[a + 1 + i - 1]
      <3>1. a + 1 \in Int /\ a + b \in Int
        OBVIOUS
      <3> QED
        BY <2>1, <3>1, SubSeqProperties
    <2> HIDE DEF t
    <2> TAKE i \in 1 .. b
    <2>3. i \in 1 .. ((a + b) - (a + 1) + 1) /\ a + 1 + i - 1 = a + i /\ a + i \in (a + 1) .. (a + b)
      OBVIOUS
    <2> QED
      BY <2>1, <2>2, <2>3
  <1>5. \A i \in 1 .. a : s[i] = <<m, i>>
    BY DEF Bytes
  <1>6. \A i \in 1 .. (a + b) : u[i] = <<m, i>>
    BY DEF Bytes
  <1> HIDE DEF s, t, u
  <1>7. /\ s \o t \in Seq(Byte) /\ Len(s \o t) = Len(s) + Len(t)
        /\ \A i \in 1 .. Len(s) + Len(t) :
              (s \o t)[i] = IF i <= Len(s) THEN s[i] ELSE t[i - Len(s)]
    BY <1>1, <1>3, ConcatProperties
  <1>8. ASSUME NEW i \in 1 .. (a + b) PROVE (s \o t)[i] = u[i]
    <2>1. (s \o t)[i] = IF i <= a THEN s[i] ELSE t[i - a]
      BY <1>1, <1>3, <1>7
    <2>2. CASE i <= a
      <3>1. i \in 1 .. a
        BY <2>2
      <3>2. (s \o t)[i] = s[i] /\ s[i] = <<m, i>> /\ u[i] = <<m, i>>
        BY <1>5, <1>6, <2>1, <2>2, <3>1
      <3> QED
        BY <3>2
    <2>3. CASE ~(i <= a)
      <3>1. i - a \in 1 .. b /\ a + (i - a) = i
        BY <2>3
      <3> QED
        BY <1>4, <1>6, <2>1, <2>3, <3>1
    <2> QED
      BY <2>2, <2>3
  <1>9. Len(s \o t) = Len(u) /\ \A i \in 1 .. Len(s \o t) : (s \o t)[i] = u[i]
    BY <1>1, <1>2, <1>3, <1>7, <1>8
  <1>10. s \o t = u
    BY <1>2, <1>7, <1>9, SeqEqual
  <1> QED
    BY <1>10 DEF s, t, u, Joins

LEMMA CollectedKept ==
  ASSUME LinkInv, Collected, Kept, got' = got, r_data' = r_data, Busy' <=> Busy
  PROVE  Collected'
  <1>1. Len(got) \in Nat /\ Len(sent) \in Nat /\ Len(sent') \in Nat
    <2>1. got \in Seq(Seq(Byte)) /\ sent \in Seq(Seq(Byte))
      BY DEF LinkInv, TypeOK, HostTypeOK, SlaveTypeOK
    <2>2. Len(got) \in Nat /\ Len(sent) \in Nat
      BY <2>1, LenProperties
    <2> QED
      BY <2>2 DEF Kept
  <1> QED
    BY <1>1 DEF Collected, Kept, Bytes

\* A step that leaves r and its copies alone.
LEMMA ContentFrame ==
  ASSUME LinkInv, Content, Kept, UNCHANGED <<r_valid, r_data, req_queue, pspc, psarg, psbuf, got>>,
         Fitting'
  PROVE  Content' /\ Cm' = Cm /\ Cp' = Cp
  <1>1. Busy' <=> Busy
    BY DEF Busy
  <1>2. Collected'
    BY <1>1, CollectedKept DEF Content
  <1>3. Copies'
    BY DEF Content, Copies, IsRequest
  <1>4. Handled'
    <2>1. Len(got) \in Nat /\ Len(sent) \in Nat
      BY LenProperties DEF LinkInv, TypeOK, HostTypeOK, SlaveTypeOK
    <2> QED
      BY <2>1 DEF Content, Handled, Kept
  <1>5. Cm' = Cm /\ Cp' = Cp
    BY <1>1 DEF Cm, Cp
  <1> QED
    BY <1>2, <1>3, <1>4, <1>5 DEF Content

\* The room in r, seen when a fragment is taken, is enough for it.
LEMMA FittingRecvRx ==
  ASSUME LinkInv, Lined, SentOK, Ordered, Undisturbed, Collected, RecvRx
  PROVE  Fitting'
  <1> SUFFICES ASSUME rcpc' = "serial" PROVE Len(rcpkt'.bytes) <= rem_buff_size'
    BY DEF Fitting
  <1> DEFINE q == uart_rx_queue
             h == Head(q[First(q)])
  <1>1. q \in [Prio -> Seq(Packet)]
    BY DEF LinkInv, TypeOK, SlaveTypeOK
  <1>2. ~AllEmpty(q) /\ h.prio = 1 /\ rcpkt' = h /\ rem_buff_size' = BufSize - Len(r_data)
    BY DEF RecvRx, RoomInR
  <1>3. /\ Sane(h) /\ h.prio = First(q)
    BY <1>1, <1>2, LanesGet DEF Lined
  <1>4. h \in Packet /\ h = q[First(q)][1] /\ 1 \in 1 .. Len(q[First(q)])
    BY <1>1, <1>2, GetAt
  <1>5. At(2, h)
    <2>1. h.buf # 0 /\ First(q) = 1
      BY <1>2, <1>3 DEF Sane
    <2>2. Has(q[1], h)
      BY <1>4, <2>1 DEF Has
    <2> QED
      BY <2>1, <2>2 DEF At
  <1> HIDE DEF h
  <1>6. IsFragment(h)
    BY <1>4, <1>5 DEF Ordered, Fragments, Flying
  <1>7. h.buf \in 1 .. Len(sent) /\ Len(h.bytes) \in Nat /\ Len(h.bytes) <= FragMax
    BY <1>6, FragmentPos DEF IsFragment
  <1>8. /\ sent \in Seq(Seq(Byte)) /\ got \in Seq(Seq(Byte)) /\ r_data \in Seq(Byte)
        /\ BufSize \in Nat /\ FragMax \in Nat
    BY LinkAssumption DEF LinkInv, TypeOK, HostTypeOK, SlaveTypeOK
  <1>9. Len(sent) \in Nat /\ Len(got) \in Nat /\ Len(r_data) \in Nat /\ DOMAIN sent = 1 .. Len(sent)
    BY <1>8, LenProperties
  <1>10. \A m \in 1 .. Len(sent) : Len(sent[m]) \in Nat /\ Len(sent[m]) + FragMax <= BufSize
    <2> TAKE m \in 1 .. Len(sent)
    <2>1. sent[m] \in Seq(Byte)
      BY <1>8, ElementOfSeq
    <2> QED
      BY <1>9, <2>1, LenProperties DEF Undisturbed
  <1>11. Len(r_data) + FragMax <= BufSize
    <2>1. CASE Busy
      <3>1. Len(got) + 1 \in 1 .. Len(sent) /\ Len(r_data) = Len(sent[Len(got) + 1])
        BY <1>9, <2>1 DEF Collected
      <3> QED
        BY <1>10, <3>1
    <2>2. CASE ~Busy /\ Len(r_data) > 0
      <3>1. Len(got) + 1 \in 1 .. Len(sent) /\ Len(r_data) < Len(sent[Len(got) + 1])
        BY <1>9, <2>2 DEF Collected
      <3>2. PICK n \in Nat : n = Len(sent[Len(got) + 1]) /\ n + FragMax <= BufSize
        BY <1>10, <3>1
      <3> QED
        BY <1>8, <1>9, <3>1, <3>2
    <2>3. CASE Len(r_data) = 0
      <3>1. PICK n \in Nat : n + FragMax <= BufSize
        BY <1>7, <1>10
      <3> QED
        BY <1>8, <2>3, <3>1
    <2> QED
      BY <1>9, <2>1, <2>2, <2>3
  <1>12. Len(h.bytes) <= BufSize - Len(r_data)
    BY <1>7, <1>8, <1>9, <1>11
  <1> QED
    BY <1>2, <1>12

\* A fragment is copied to the place it belongs to.
LEMMA ContentCopy ==
  ASSUME LinkInv, Handover, SentOK, Ordered, Chain, Content, CopyFragment, pspc # "release"
  PROVE  Content' /\ Follows(rcpkt, Cm', Cp')
  <1> DEFINE m == Len(got) + 1
             off == Len(r_data)
             n == Len(rcpkt.bytes)
  <1>1. /\ rcpc = "serial" /\ ~r_valid /\ rcpc' # "serial" /\ r_valid' = ~rcpkt.more
        /\ r_data' = r_data \o SubSeq(rcpkt.bytes, 1, Min2(Len(rcpkt.bytes), rem_buff_size))
        /\ UNCHANGED <<req_queue, pspc, psarg, psbuf, got, sent>>
    BY DEF CopyFragment
  <1>2. ~Busy /\ Cm = m /\ Cp = off + 1
    BY <1>1 DEF Busy, Cm, Cp
  <1>3. IsFragment(rcpkt) /\ rcpkt.buf = m /\ Pos(rcpkt) = off + 1
    BY <1>1, <1>2, NextForR
  <1>4. /\ sent \in Seq(Seq(Byte)) /\ got \in Seq(Seq(Byte)) /\ r_data \in Seq(Byte)
        /\ rcpkt.bytes \in Seq(Byte) /\ rem_buff_size \in Nat
    BY DEF LinkInv, TypeOK, HostTypeOK, SlaveTypeOK, Packet
  <1>5. Len(sent) \in Nat /\ Len(got) \in Nat /\ off \in Nat /\ n \in Nat
    BY <1>4, LenProperties
  <1> HIDE DEF m, off, n
  <1>6. m \in 1 .. Len(sent) /\ m \in Nat /\ Parts(rcpkt, m, off)
    <2>1. PICK k \in Nat : k < Len(sent[m]) /\ rcpkt = Fragment(m, k)
      BY <1>3 DEF IsFragment
    <2>2. m \in 1 .. Len(sent)
      BY <1>3 DEF IsFragment
    <2>3. Parts(rcpkt, m, k)
      BY <1>4, <2>1, <2>2, FragmentParts
    <2>4. k + 1 = off + 1
      BY <1>3, <2>3 DEF Parts
    <2>5. k = off
      BY <1>5, <2>4
    <2> QED
      BY <1>5, <2>2, <2>3, <2>5
  <1>7. r_data' = r_data \o rcpkt.bytes
    <2>1. n <= rem_buff_size
      BY <1>1 DEF Content, Fitting, n
    <2>2. Min2(n, rem_buff_size) = n
      BY <1>4, <1>5, <2>1 DEF Min2
    <2>3. SubSeq(rcpkt.bytes, 1, n) = rcpkt.bytes
      BY <1>4, SubSeqFull DEF n
    <2> QED
      BY <1>1, <2>2, <2>3 DEF n
  <1>8. /\ rcpkt.bytes = SubSeq(sent[m], off + 1, off + n) /\ Len(sent[m]) \in Nat
        /\ rcpkt.more => off + n < Len(sent[m])
        /\ ~rcpkt.more => off + n = Len(sent[m])
        /\ 0 < n
    BY <1>6 DEF Parts, n
  <1>9. sent[m] = Bytes(m, Len(sent[m])) /\ r_data = Bytes(m, off)
    BY <1>6 DEF SentOK, Content, Collected, m, off
  <1>10. off + n <= Len(sent[m])
    BY <1>5, <1>8
  <1>11. r_data' = Bytes(m, off + n)
    <2>1. Bytes(m, off) \o SubSeq(Bytes(m, Len(sent[m])), off + 1, off + n) = Bytes(m, off + n)
      <3>1. Len(sent[m]) \in Nat /\ m \in Nat /\ off \in Nat /\ n \in Nat
        BY <1>5, <1>6, <1>8
      <3>2. Joins(m, off, n, Len(sent[m]))
        BY <1>10, <3>1, BytesJoin
      <3> QED
        BY <3>2 DEF Joins
    <2> QED
      BY <1>7, <1>8, <1>9, <2>1
  <1>12. Len(r_data') = off + n
    <2>1. off + n \in Nat
      BY <1>5
    <2> QED
      BY <1>6, <1>11, <2>1, BytesType
  <1>13. Busy' <=> ~rcpkt.more
    BY <1>1 DEF Busy
  <1>14. Collected'
    <2>1. Len(got') + 1 = m /\ sent' = sent /\ m <= Len(sent)
      BY <1>1, <1>6 DEF m
    <2>2. r_data' = Bytes(Len(got') + 1, Len(r_data'))
      BY <1>11, <1>12, <2>1
    <2>3. CASE rcpkt.more
      <3>1. Len(r_data') < Len(sent'[m]) /\ ~Busy'
        BY <1>8, <1>12, <1>13, <2>1, <2>3
      <3> QED
        BY <2>1, <2>2, <3>1 DEF Collected, Bytes
    <2>4. CASE ~rcpkt.more
      <3>1. Len(r_data') = Len(sent'[m]) /\ Busy'
        BY <1>8, <1>12, <1>13, <2>1, <2>4
      <3> QED
        BY <2>1, <2>2, <3>1 DEF Collected, Bytes
    <2> QED
      BY <2>3, <2>4
  <1>15. Copies'
    <2>1. ~Announced /\ pspc # "read"
      BY <1>1 DEF Handover
    <2> QED
      BY <1>1, <2>1 DEF Copies, Announced, IsRequest
  <1>16. Handled' /\ Fitting'
    BY <1>1 DEF Content, Handled, Fitting
  <1>17. Follows(rcpkt, Cm', Cp')
    <2>1. CASE rcpkt.more
      <3>1. Cm' = m /\ Cp' = off + n + 1
        BY <1>1, <1>12, <1>13, <2>1 DEF Cm, Cp, m
      <3>2. off + n + 1 = (off + 1) + n
        BY <1>5
      <3> QED
        BY <1>3, <2>1, <3>1, <3>2 DEF Follows, n
    <2>2. CASE ~rcpkt.more
      <3>1. Cm' = Len(got) + 2 /\ Cp' = 1
        BY <1>1, <1>13, <2>2 DEF Cm, Cp
      <3>2. Cm' = m + 1
        BY <1>5, <3>1 DEF m
      <3> QED
        BY <1>3, <2>2, <3>1, <3>2 DEF Follows
    <2> QED
      BY <2>1, <2>2
  <1> QED
    BY <1>14, <1>15, <1>16, <1>17 DEF Content

\* The steps that announce a request, read it, and release r.
LEMMA ContentReady ==
  ASSUME LinkInv, Handover, Content, DataReady
  PROVE  Content' /\ Cm' = Cm /\ Cp' = Cp
  <1>1. /\ rcpc = "ready" /\ rcpc' = "take"
        /\ UNCHANGED <<r_valid, r_data, pspc, psarg, psbuf, got, sent>>
        /\ \/ req_queue' = Append(req_queue, [kind |-> "request", data |-> r_data])
           \/ req_queue' = req_queue
    BY DEF DataReady
  <1>2. Busy' <=> Busy
    BY <1>1 DEF Busy
  <1>3. Collected' /\ Handled' /\ Fitting' /\ Cm' = Cm /\ Cp' = Cp
    BY <1>1, <1>2 DEF Content, Collected, Handled, Fitting, Cm, Cp, Bytes
  <1>4. Copies'
    <2>1. req_queue \in Seq(Arg) /\ [kind |-> "request", data |-> r_data] \in Arg
      BY DEF LinkInv, TypeOK, SlaveTypeOK, Arg
    <2>2. ASSUME NEW k \in 1 .. Len(req_queue')
          PROVE  \/ k \in 1 .. Len(req_queue) /\ req_queue'[k] = req_queue[k]
                 \/ req_queue'[k] = [kind |-> "request", data |-> r_data]
      <3>1. CASE req_queue' = req_queue
        BY <2>2, <3>1
      <3>2. CASE req_queue' = Append(req_queue, [kind |-> "request", data |-> r_data])
        BY <2>1, <2>2, <3>2, AppendedArg
      <3> QED
        BY <1>1, <3>1, <3>2
    <2> QED
      BY <1>1, <2>2 DEF Content, Copies, IsRequest
  <1> QED
    BY <1>3, <1>4 DEF Content

LEMMA ContentEvent ==
  ASSUME LinkInv, Content, RaiseEvent
  PROVE  Content' /\ Cm' = Cm /\ Cp' = Cp
  <1>1. /\ UNCHANGED <<r_valid, r_data, pspc, psarg, psbuf, got, sent, rcpc, rcpkt, rem_buff_size>>
        /\ req_queue' = Append(req_queue, [kind |-> "event", data |-> <<>>])
    BY DEF RaiseEvent
  <1>2. Busy' <=> Busy
    BY <1>1 DEF Busy
  <1>3. Collected' /\ Handled' /\ Fitting' /\ Cm' = Cm /\ Cp' = Cp
    BY <1>1, <1>2 DEF Content, Collected, Handled, Fitting, Cm, Cp, Bytes
  <1>4. Copies'
    <2>1. req_queue \in Seq(Arg) /\ [kind |-> "event", data |-> <<>>] \in Arg
      BY EmptySeq DEF LinkInv, TypeOK, SlaveTypeOK, Arg
    <2>2. \A k \in 1 .. Len(req_queue') :
             \/ k \in 1 .. Len(req_queue) /\ req_queue'[k] = req_queue[k]
             \/ req_queue'[k] = [kind |-> "event", data |-> <<>>]
      BY <1>1, <2>1, AppendedArg
    <2> QED
      BY <1>1, <2>2 DEF Content, Copies, IsRequest
  <1> QED
    BY <1>3, <1>4 DEF Content

LEMMA ContentRecv ==
  ASSUME LinkInv, Content, PserialRecv
  PROVE  Content' /\ Cm' = Cm /\ Cp' = Cp
  <1>1. /\ UNCHANGED <<r_valid, r_data, psbuf, got, sent, rcpc, rcpkt, rem_buff_size>>
        /\ pspc = "recv" /\ req_queue # <<>> /\ req_queue' = Tail(req_queue)
        /\ pspc' = "recv" \/ (pspc' = "read" /\ psarg' = Head(req_queue).data
                              /\ Head(req_queue).kind # "event")
    BY DEF PserialRecv
  <1>2. Busy' <=> Busy
    BY <1>1 DEF Busy
  <1>3. Collected' /\ Handled' /\ Fitting' /\ Cm' = Cm /\ Cp' = Cp
    BY <1>1, <1>2 DEF Content, Collected, Handled, Fitting, Cm, Cp, Bytes
  <1>4. Copies'
    <2>1. req_queue \in Seq(Arg)
      BY DEF LinkInv, TypeOK, SlaveTypeOK
    <2>2. /\ Head(req_queue) = req_queue[1] /\ 1 \in 1 .. Len(req_queue)
          /\ \A k \in 1 .. Len(req_queue') :
                k + 1 \in 1 .. Len(req_queue) /\ req_queue'[k] = req_queue[k + 1]
      BY <1>1, <2>1, TakenArg
    <2>3. req_queue[1] \in Arg
      BY <2>1, <2>2, ElementOfSeq
    <2>4. pspc' = "read" => psarg' = r_data'
      <3>1. SUFFICES ASSUME pspc' = "read" PROVE psarg' = r_data
        BY <1>1
      <3>2. IsRequest(1) /\ psarg' = req_queue[1].data
        BY <1>1, <2>2, <2>3, <3>1 DEF IsRequest, Arg
      <3> QED
        BY <2>2, <3>2 DEF Content, Copies
    <2>5. pspc' # "release"
      BY <1>1
    <2>6. \A k \in 1 .. Len(req_queue') : IsRequest(k)' => req_queue'[k].data = r_data'
      BY <1>1, <2>2 DEF Content, Copies, IsRequest
    <2> QED
      BY <2>4, <2>5, <2>6 DEF Copies, IsRequest
  <1> QED
    BY <1>3, <1>4 DEF Content

LEMMA ContentRead ==
  ASSUME LinkInv, Handover, Content, SerialReadData
  PROVE  Content' /\ Cm' = Cm /\ Cp' = Cp
  <1>1. pspc = "read" /\ r_valid /\ psarg = r_data
    BY DEF SerialReadData, Handover, Content, Copies
  <1>2. /\ UNCHANGED <<r_data, req_queue, got, sent, rcpc, rcpkt, rem_buff_size>>
        /\ pspc' = "release" /\ ~r_valid'
        /\ psbuf' = SubSeq(r_data, 1, Min2(Len(psarg), Len(r_data)))
    BY <1>1 DEF SerialReadData
  <1>3. psbuf' = r_data
    <2>1. r_data \in Seq(Byte)
      BY DEF LinkInv, TypeOK, SlaveTypeOK
    <2>2. Min2(Len(psarg), Len(r_data)) = Len(r_data)
      BY <1>1 DEF Min2
    <2>3. SubSeq(r_data, 1, Len(r_data)) = r_data
      BY <2>1, SubSeqFull
    <2> QED
      BY <1>2, <2>2, <2>3
  <1>4. Busy' /\ Busy
    BY <1>1, <1>2 DEF Busy
  <1>5. Collected' /\ Handled' /\ Fitting' /\ Cm' = Cm /\ Cp' = Cp
    BY <1>2, <1>4 DEF Content, Collected, Handled, Fitting, Cm, Cp, Bytes
  <1>6. Copies'
    BY <1>2, <1>3 DEF Content, Copies, IsRequest
  <1> QED
    BY <1>5, <1>6 DEF Content

LEMMA ContentRelease ==
  ASSUME LinkInv, Handover, SentOK, Content, ReleaseR
  PROVE  Content' /\ Cm' = Cm /\ Cp' = Cp
  <1> DEFINE m == Len(got) + 1
  <1>1. /\ pspc = "release" /\ ~r_valid /\ psbuf = r_data /\ Busy
    BY DEF ReleaseR, Content, Copies, Busy
  <1>2. /\ UNCHANGED <<r_valid, req_queue, sent, rcpc, rcpkt, rem_buff_size>>
        /\ pspc' = "recv" /\ r_data' = <<>>
        /\ got' = IF r_data = <<>> THEN got ELSE Append(got, r_data)
    BY <1>1 DEF ReleaseR, Handle
  <1>3. /\ sent \in Seq(Seq(Byte)) /\ got \in Seq(Seq(Byte)) /\ r_data \in Seq(Byte)
        /\ Len(sent) \in Nat /\ Len(got) \in Nat /\ Len(r_data) \in Nat
    BY LenProperties DEF LinkInv, TypeOK, HostTypeOK, SlaveTypeOK
  <1>4. m \in 1 .. Len(sent) /\ r_data = Bytes(m, Len(sent[m]))
    BY <1>1, <1>3 DEF Content, Collected
  <1>5. r_data = sent[m] /\ r_data # <<>>
    <2>1. sent[m] = Bytes(m, Len(sent[m])) /\ Len(sent[m]) > 0
      BY <1>4 DEF SentOK
    <2>2. Len(<<>>) = 0
      BY EmptySeq
    <2> QED
      BY <1>4, <2>1, <2>2
  <1>6. got' = Append(got, r_data)
    BY <1>2, <1>5
  <1>7. /\ Len(got') = m /\ got'[m] = r_data /\ \A k \in 1 .. Len(got) : got'[k] = got[k]
    BY <1>3, <1>6, AppendProperties
  <1>8. ~Busy' /\ Len(r_data') = 0
    BY <1>1, <1>2, EmptySeq DEF Busy
  <1>9. Collected'
    <2>1. \A k : Bytes(k, 0) = <<>>
      BY DEF Bytes
    <2> QED
      BY <1>2, <1>8, <2>1 DEF Collected, Bytes
  <1>10. Copies'
    <2>1. ~Announced
      BY <1>1 DEF Handover
    <2> QED
      BY <1>2, <2>1 DEF Copies, Announced, IsRequest
  <1>11. Handled'
    <2>1. Len(got') <= Len(sent')
      BY <1>2, <1>3, <1>4, <1>7
    <2>2. ASSUME NEW k \in 1 .. Len(got') PROVE got'[k] = sent'[k]
      <3>1. CASE k = m
        BY <1>2, <1>5, <1>7, <3>1
      <3>2. CASE k # m
        <4>1. k \in 1 .. Len(got)
          BY <1>3, <1>7, <3>2
        <4> QED
          BY <1>2, <1>7, <4>1 DEF Content, Handled
      <3> QED
        BY <3>1, <3>2
    <2> QED
      BY <2>1, <2>2 DEF Handled
  <1>12. Fitting'
    BY <1>2 DEF Content, Fitting
  <1>13. Cm' = Cm /\ Cp' = Cp
    BY <1>1, <1>3, <1>7, <1>8 DEF Cm, Cp
  <1> QED
    BY <1>9, <1>10, <1>11, <1>12, <1>13 DEF Content

\* Before the transport is up nothing has begun.
LEMMA FreshFlows == LinkInv /\ Fresh /\ ~tx_ready => Chain /\ Content
  <1> SUFFICES ASSUME LinkInv, Fresh, ~tx_ready PROVE Chain /\ Content
    OBVIOUS
  <1>1. /\ rcpc = "take" /\ ~r_valid /\ r_data = <<>> /\ pspc = "recv" /\ got = <<>>
        /\ ~Announced /\ woff = 0 /\ tpc[Writer] \in {"idle", "check"}
        /\ Len(sent) = IF tpc[Writer] = "check" THEN 1 ELSE 0
    BY DEF Fresh, Threads
  <1>2. Len(got) = 0 /\ Len(r_data) = 0 /\ ~Busy
    BY <1>1, EmptySeq DEF Busy
  <1>3. Cm = 1 /\ Cp = 1 /\ Wm = 1 /\ Wp = 1
    BY <1>1, <1>2 DEF Cm, Cp, Wm, Wp, Turned
  <1>4. Chain
    BY <1>3, FreshEmpty DEF Chain, Reached
  <1>5. Collected
    <2>1. \A k : Bytes(k, 0) = <<>>
      BY DEF Bytes
    <2> QED
      BY <1>1, <1>2, <2>1 DEF Collected
  <1>6. Copies /\ Fitting
    BY <1>1 DEF Copies, Fitting, Announced, IsRequest
  <1>7. Handled
    BY <1>1, <1>2 DEF Handled
  <1> QED
    BY <1>4, <1>5, <1>6, <1>7 DEF Content

LEMMA FreshFlowsNext == (LinkInv /\ Fresh /\ ~tx_ready => Chain /\ Content)'
  BY FreshFlows, PTL

\* A step that is not disturbed comes from a state that was not.
LEMMA UndisturbedStep ==
  ASSUME LinkInv, Undisturbed', tx_ready', [Next]_vars
  PROVE  /\ Undisturbed /\ Kept /\ ~(drops' > 0)
         /\ ~TornCopy /\ (CopyFragment => pspc # "release")
  <1>1. /\ drops \in Nat /\ torn \in BOOLEAN /\ sent \in Seq(Seq(Byte)) /\ Len(sent) \in Nat
        /\ DOMAIN sent = 1 .. Len(sent)
    BY LenProperties DEF LinkInv, TypeOK, HostTypeOK, SlaveTypeOK
  <1>2. drops' = drops \/ drops' = drops + 1
    BY DEF Next, InitEvent, StartWriting, SerialWrite, SendPacket, Transmit, CheckTransport,
       PutPacket, GivePacket, WriteTask, TakeToSlave, RecvToSlave, WritePacket, UartRxTask,
       UartRead, UartPut, UartGive, RecvTask, TakeRx, RecvRx, CopyFragment, DataReady,
       RaiseEvent, PserialTask, PserialRecv, SerialReadData, ReleaseR, TornCopy, Idle, vars
  <1>3. torn => torn'
    BY DEF Next, InitEvent, StartWriting, SerialWrite, SendPacket, Transmit, CheckTransport,
       PutPacket, GivePacket, WriteTask, TakeToSlave, RecvToSlave, WritePacket, UartRxTask,
       UartRead, UartPut, UartGive, RecvTask, TakeRx, RecvRx, CopyFragment, DataReady,
       RaiseEvent, PserialTask, PserialRecv, SerialReadData, ReleaseR, TornCopy, Idle, vars
  <1>4. ~torn' /\ drops' = 0 /\ \A m \in DOMAIN sent' : Len(sent'[m]) + FragMax <= BufSize
    BY DEF Undisturbed
  <1>5. drops = 0 /\ ~torn /\ ~(drops' > 0)
    BY <1>1, <1>2, <1>3, <1>4
  <1>6. ~TornCopy /\ (CopyFragment => pspc # "release")
    BY <1>4 DEF TornCopy, CopyFragment
  <1>7. Kept /\ \A m \in DOMAIN sent : m \in DOMAIN sent' /\ sent'[m] = sent[m]
    <2>1. CASE sent' = sent
      BY <1>1, <2>1 DEF Kept
    <2>2. ASSUME NEW len \in MsgSizes, sent' = Append(sent, Bytes(Len(sent) + 1, len))
          PROVE  Kept /\ \A m \in DOMAIN sent : m \in DOMAIN sent' /\ sent'[m] = sent[m]
      <3>1. Len(sent) + 1 \in Nat /\ len \in Nat
        BY <1>1, LinkAssumption
      <3>2. Bytes(Len(sent) + 1, len) \in Seq(Byte)
        BY <3>1, BytesType
      <3>3. /\ sent' \in Seq(Seq(Byte)) /\ Len(sent') = Len(sent) + 1
            /\ \A m \in 1 .. Len(sent) : sent'[m] = sent[m]
        BY <1>1, <2>2, <3>2, AppendProperties
      <3>4. DOMAIN sent' = 1 .. Len(sent')
        BY <3>3, LenProperties
      <3> QED
        BY <1>1, <3>3, <3>4 DEF Kept
    <2> QED
      BY <2>1, <2>2, SentMoves
  <1> QED
    BY <1>4, <1>5, <1>6, <1>7 DEF Undisturbed

LEMMA FlowingStep ==
  ASSUME LinkInv, LinkInv', tx_needed, Handover, Lined, SentOK, Fresh, Fresh', Ordered, Flowing,
         [Next]_vars
  PROVE  Flowing'
  <1> SUFFICES ASSUME Undisturbed' PROVE Chain' /\ Content'
    BY DEF Flowing
  <1>1. CASE ~tx_ready'
    BY <1>1, FreshFlowsNext
  <1>2. CASE tx_ready'
    <2>1. /\ Undisturbed /\ Kept /\ ~(drops' > 0)
          /\ ~TornCopy /\ (CopyFragment => pspc # "release")
      BY <1>2, UndisturbedStep
    <2>2. Chain /\ Content /\ Motion
      BY <2>1, MotionNext DEF Flowing
    <2>3. CASE CopyFragment
      <3>1. Arrives
        BY <2>3, MotionCopy
      <3>2. Content' /\ Follows(rcpkt, Cm', Cp')
        BY <2>1, <2>2, <2>3, ContentCopy
      <3>3. Chain'
        BY <2>1, <2>2, <3>1, <3>2, ChainArrives
      <3> QED
        BY <3>2, <3>3
    <2>4. CASE ~CopyFragment
      <3>1. ~Arrives
        BY <2>1, <2>4 DEF Arrives
      <3>2. Content' /\ Cm' = Cm /\ Cp' = Cp
        <4>1. CASE DataReady
          BY <2>2, <4>1, ContentReady
        <4>2. CASE RaiseEvent
          BY <2>2, <4>2, ContentEvent
        <4>3. CASE PserialRecv
          BY <2>2, <4>3, ContentRecv
        <4>4. CASE SerialReadData
          BY <2>2, <4>4, ContentRead
        <4>5. CASE ReleaseR
          BY <2>2, <4>5, ContentRelease
        <4>6. CASE RecvRx
          <5>1. Fitting'
            BY <2>1, <2>2, <4>6, FittingRecvRx DEF Content
          <5>2. UNCHANGED <<r_valid, r_data, req_queue, pspc, psarg, psbuf, got>>
            BY <4>6 DEF RecvRx
          <5> QED
            BY <2>1, <2>2, <5>1, <5>2, ContentFrame
        <4>7. ASSUME UNCHANGED <<r_valid, r_data, req_queue, pspc, psarg, psbuf, got>>,
                     UNCHANGED <<rcpc, rcpkt, rem_buff_size>> \/ rcpc' = "recv"
              PROVE  Content' /\ Cm' = Cm /\ Cp' = Cp
          <5>1. Fitting'
            BY <2>2, <4>7 DEF Content, Fitting
          <5> QED
            BY <2>1, <2>2, <4>7, <5>1, ContentFrame
        <4>8. CASE \/ InitEvent \/ StartWriting \/ \E len \in MsgSizes : SerialWrite(len)
                   \/ \E t \in Threads : SendPacket(t) \/ Transmit(t)
                   \/ WriteTask \/ UartRxTask \/ TakeRx \/ UNCHANGED vars
          <5>1. /\ UNCHANGED <<r_valid, r_data, req_queue, pspc, psarg, psbuf, got>>
                /\ UNCHANGED <<rcpc, rcpkt, rem_buff_size>> \/ rcpc' = "recv"
            BY <4>8 DEF InitEvent, StartWriting, SerialWrite, SendPacket, Transmit,
               CheckTransport, PutPacket, GivePacket, WriteTask, TakeToSlave, RecvToSlave,
               WritePacket, UartRxTask, UartRead, UartPut, UartGive, TakeRx, vars
          <5> QED
            BY <4>7, <5>1
        <4> QED
          BY <2>1, <2>4, <4>1, <4>2, <4>3, <4>4, <4>5, <4>6, <4>8
             DEF Next, Idle, RecvTask, PserialTask
      <3>3. Chain'
        BY <2>1, <2>2, <3>1, <3>2, ChainKept
      <3> QED
        BY <3>2, <3>3
    <2> QED
      BY <2>3, <2>4
  <1> QED
    BY <1>1, <1>2

LEMMA FlowHolds == Spec => [](WayInv /\ RxCount /\ Handover /\ Flowing)
  <1>1. Init => RxCount /\ Handover /\ Flowing
    <2> SUFFICES ASSUME Init PROVE RxCount /\ Handover /\ Flowing
      OBVIOUS
    <2>1. ~tx_ready
      BY DEF Init
    <2> QED
      BY <2>1, CountInit, HandoverInit, LinkInit, FreshInit, FreshFlows DEF Flowing
  <1>2. WayInv /\ WayInv' /\ RxCount /\ Handover /\ Flowing /\ [Next]_vars
          => RxCount' /\ Handover' /\ Flowing'
    <2> SUFFICES ASSUME WayInv, WayInv', RxCount, Handover, Flowing, [Next]_vars
                 PROVE  RxCount' /\ Handover' /\ Flowing'
      OBVIOUS
    <2>1. /\ LinkInv /\ LinkInv' /\ tx_needed /\ Lined /\ SentOK /\ Fresh /\ Fresh' /\ Ordered
          /\ TypeOK
      BY DEF WayInv, ToSlaveCount, LinkInv
    <2>2. RxCount' /\ Handover'
      BY <2>1, RxStep, HandoverStep
    <2> QED
      BY <2>1, <2>2, FlowingStep
  <1> QED
    BY <1>1, <1>2, WayHolds, PTL DEF Spec

\* Requests reach rpc_req_handler whole, once and in the order serial_ll_write took
\* them, for every number of threads and every size of queue, fragment and request,
\* as long as no packet is lost, r is not torn, and a fragment fits beside a request.
THEOREM ArriveInOrder == Spec => []RequestsInOrder
  <1>1. WayInv /\ Flowing => RequestsInOrder
    <2> SUFFICES ASSUME WayInv, Flowing, Undisturbed
                 PROVE  Len(got) <= Len(sent) /\ \A m \in DOMAIN got : got[m] = sent[m]
      BY DEF RequestsInOrder
    <2>1. Handled
      BY DEF Flowing, Content
    <2>2. DOMAIN got = 1 .. Len(got)
      BY LenProperties DEF WayInv, LinkInv, TypeOK, SlaveTypeOK
    <2> QED
      BY <2>1, <2>2 DEF Handled
  <1> QED
    BY <1>1, FlowHolds, PTL

\* When every task waits for work no packet is left in a queue, and without a fault
\* every request that was accepted has been handled.
THEOREM SettledArrived == Spec => []SettledMeansArrived
  <1>1. WayInv /\ RxCount /\ Handover /\ Flowing => SettledMeansArrived
    <2> SUFFICES ASSUME WayInv, RxCount, Handover, Flowing, Quiet
                 PROVE  /\ AllEmpty(to_slave_queue) /\ AllEmpty(uart_rx_queue)
                        /\ Undisturbed /\ ooms = 0 => Len(got) = Len(sent)
      BY DEF SettledMeansArrived
    <2>1. LinkInv /\ ToSlaveCount /\ TypeOK
      BY DEF WayInv, LinkInv
    <2>2. /\ to_slave_queue \in [Prio -> Seq(Packet)] /\ uart_rx_queue \in [Prio -> Seq(Packet)]
          /\ got \in Seq(Seq(Byte)) /\ sent \in Seq(Seq(Byte)) /\ req_queue = <<>>
          /\ Writer \in Threads
      BY <2>1 DEF TypeOK, HostTypeOK, SlaveTypeOK, Quiet, Threads
    <2>3. AllEmpty(to_slave_queue)
      <3>1. Giving = {}
        BY DEF Quiet, Giving
      <3>2. Cardinality(Giving) = 0
        BY <3>1, FS_EmptySet
      <3>3. One(txpc = "recv") = 0 /\ sem_to_slave_queue = 0
        BY DEF Quiet, One
      <3>4. Total(to_slave_queue) = 0
        BY <2>1, <3>2, <3>3 DEF ToSlaveCount
      <3> QED
        BY <2>2, <3>4, TotalType
    <2>4. AllEmpty(uart_rx_queue)
      <3>1. One(urpc = "give") = 0 /\ One(rcpc = "recv") = 0 /\ uart_rx_sem = 0
        BY DEF Quiet, One
      <3>2. Total(uart_rx_queue) = 0
        BY <3>1 DEF RxCount
      <3> QED
        BY <2>2, <3>2, TotalType
    <2>5. ASSUME Undisturbed, ooms = 0 PROVE Len(got) = Len(sent)
      <3>1. \A x : ~Flying(x)
        <4>1. /\ rcpc # "serial" /\ uart_rx_queue[1] = <<>> /\ urpc # "put" /\ wire = <<>>
              /\ txpc # "write" /\ to_slave_queue[1] = <<>> /\ tpc[Writer] # "put"
          BY <2>2, <2>3, <2>4 DEF Quiet, AllEmpty, Prio
        <4>2. Len(<<>>) = 0
          BY EmptySeq
        <4>3. \A x : ~Has(<<>>, x)
          BY <4>2 DEF Has
        <4> QED
          BY <4>1, <4>3 DEF Flying, At
      <3>2. ~Announced
        BY <2>2, EmptySeq DEF Announced
      <3>3. ~Busy
        <4>1. ~r_valid
          BY <2>5, <3>2 DEF Handover, Quiet
        <4> QED
          BY <4>1 DEF Busy, Quiet
      <3>4. Wm = Cm
        BY <2>5, <3>1 DEF Flowing, Chain, Reached
      <3>5. Wm = Len(sent) + 1 /\ Cm = Len(got) + 1
        BY <2>2, <3>3 DEF Wm, Cm, Turned, Quiet
      <3>6. Len(sent) \in Nat /\ Len(got) \in Nat
        BY <2>2, LenProperties
      <3>7. Len(sent) + 1 = Len(got) + 1
        BY <3>4, <3>5
      <3> QED
        BY <3>6, <3>7
    <2> QED
      BY <2>3, <2>4, <2>5
  <1> QED
    BY <1>1, FlowHolds, PTL
=============================================================================
