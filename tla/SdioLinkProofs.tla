--------------------------- MODULE SdioLinkProofs ---------------------------
(***************************************************************************)
(* The SDIO link, for any number of buffers and any size of the registers  *)
(* that is larger than what they have to tell apart.                       *)
(***************************************************************************)
EXTENDS SdioLink, TLAPS

-----------------------------------------------------------------------------
(* Arithmetic of the registers.                                            *)

Wrapped(a, n) == IF a < n THEN a ELSE a - n

LEMMA Wraps ==
    ASSUME NEW n \in Nat \ {0}, NEW a \in Nat, a < n + n
    PROVE  a % n = Wrapped(a, n)
<1>1. CASE a < n
  BY <1>1 DEF Wrapped
<1>2. CASE n <= a
  <2>1. a % n = a - n
    BY <1>2
  <2> QED BY <1>2, <2>1 DEF Wrapped
<1> QED BY <1>1, <1>2

LEMMA Sizes ==
    /\ TxMax \in Nat \ {0} /\ RxMax \in Nat \ {0} /\ NumBuffers \in Nat \ {0} /\ SendQueue \in Nat \ {0}
    /\ NumBuffers < TxMax /\ SendQueue < RxMax
BY SdioAssumption

-----------------------------------------------------------------------------
(* The inductive invariant.                                                *)

\* A buffer of the co-processor is free or holds a packet.  The register is ahead of the host's
\* counter by the free ones, and the host counts on no more than these, the one it is about to
\* fill included.
Buffers ==
    /\ sdio_rx_queue \in [Prios -> Nat] /\ s_free \in Nat
    /\ s_free + sdio_rx_queue["serial"] + sdio_rx_queue["others"] = NumBuffers
    /\ token \in 0..(TxMax - 1) /\ tx_buf_count \in 0..(TxMax - 1)
    /\ token = Wrapped(tx_buf_count + s_free, TxMax)
    /\ buf_available \in Nat
    /\ buf_available + (IF w = "write" THEN 1 ELSE 0) <= s_free
    /\ w \in {"lock", "buffers", "write"} => pkt \in Prios
    /\ overrun = FALSE

\* What sdio_read_task has read from the bus and not yet counted.
Uncounted == IF rd = "count" THEN len ELSE 0

\* What is loaded and still to be counted: not what a failed read has counted already.
Outstanding == IF Torn THEN 0 ELSE loaded

\* The length register is ahead of the host's counter by what is loaded and what was read but not
\* yet counted.  Between interrupt and read nothing more is loaded.
Lengths ==
    /\ s_out \in 0..SendQueue /\ loaded \in 0..SendQueue /\ loaded <= s_out
    /\ len \in 0..SendQueue
    /\ rx_byte_count \in 0..(RxMax - 1) /\ len_reg \in 0..(RxMax - 1)
    /\ len_reg = Wrapped(Wrapped(rx_byte_count + Uncounted, RxMax) + Outstanding, RxMax)
    /\ new_packet \in BOOLEAN
    /\ new_packet \/ rd \in {"clear", "read"} => loaded > 0
    /\ rd = "clear" => regs = len_reg
    /\ rd = "read" => len = loaded /\ ~new_packet
    /\ rd = "count" /\ loaded > 0 => new_packet

\* The half of the double buffer that was handed over is the one that is not written.
Halves ==
    /\ write_index \in {0, 1} /\ read_index \in {-1, 0, 1}
    /\ read_index >= 0 => write_index = 1 - read_index
    /\ copying = -1 \/ copying = read_index

-----------------------------------------------------------------------------
(* The way to the co-processor.                                            *)

LEMMA TxWraps ==
    \A a, b \in 0..(TxMax - 1) : (a + b) % TxMax = Wrapped(a + b, TxMax)
BY Sizes, Wraps

LEMMA RxWraps ==
    \A a, b \in 0..(RxMax - 1) : (a + b) % RxMax = Wrapped(a + b, RxMax)
BY Sizes, Wraps

LEMMA RxIdle == \A a \in 0..(RxMax - 1) : Wrapped(a + 0, RxMax) = a
BY Sizes DEF Wrapped

LEMMA FreshToken == NumBuffers % TxMax = NumBuffers
BY Sizes, Wraps DEF Wrapped

LEMMA InitBuffers == Init => Buffers
<1> SUFFICES ASSUME Init PROVE Buffers
  OBVIOUS
<1>1. token = NumBuffers /\ s_free = NumBuffers /\ tx_buf_count = 0 /\ buf_available = 0
  BY FreshToken DEF Init
<1>2. /\ sdio_rx_queue \in [Prios -> Nat]
      /\ sdio_rx_queue["serial"] = 0 /\ sdio_rx_queue["others"] = 0
      /\ w = "recv" /\ overrun = FALSE
  BY DEF Init, Prios
<1> QED BY <1>1, <1>2, Sizes DEF Buffers, Wrapped

\* sdio_get_tx_buffer_num finds the number of free buffers, roll-over or not.
LEMMA TxBufferNumRight ==
    ASSUME Buffers
    PROVE  TxBufferNum = s_free
<1>1. s_free <= NumBuffers
  BY Sizes DEF Buffers, Prios
<1>2. TxBufferNum = Wrapped(token + TxMax - tx_buf_count, TxMax)
  BY Sizes, Wraps DEF Buffers, TxBufferNum
<1> QED BY <1>1, <1>2, Sizes DEF Buffers, Wrapped

LEMMA NextBuffers == Buffers /\ [Next]_vars => Buffers'
<1> SUFFICES ASSUME Buffers, [Next]_vars PROVE Buffers'
  OBVIOUS
<1> USE Sizes DEF Buffers, Prios, Wrapped, host_tx, host_rx, slave_rx, slave_tx
<1>1. ASSUME NEW p \in Prios, Send(p) PROVE Buffers'
  BY <1>1 DEF Send
<1>2. CASE WRecv
  BY <1>2 DEF WRecv
<1>3. CASE WLock
  BY <1>3 DEF WLock, Writing
<1>4. CASE WBuffers
  <2>1. TxBufferNum = s_free
    BY TxBufferNumRight
  <2> QED BY <1>4, <2>1 DEF WBuffers, Writing
<1>5. CASE WWrite
  <2>1. s_free > 0 /\ s_free <= NumBuffers
    BY <1>5 DEF WWrite, Writing
  <2>2. tx_buf_count' = Wrapped(tx_buf_count + 1, TxMax)
    <3>1. tx_buf_count \in 0..(TxMax - 1) /\ 1 \in 0..(TxMax - 1)
      OBVIOUS
    <3>2. (tx_buf_count + 1) % TxMax = Wrapped(tx_buf_count + 1, TxMax)
      BY <3>1, TxWraps
    <3> QED BY <1>5, <3>2 DEF WWrite
  <2>3. /\ s_free' = s_free - 1 /\ overrun' = overrun
        /\ token' = token /\ buf_available' = buf_available /\ w' = "recv" /\ w = "write"
        /\ sdio_rx_queue' = [sdio_rx_queue EXCEPT ![pkt] = @ + 1]
    BY <1>5, <2>1 DEF WWrite, Writing
  <2>4. /\ sdio_rx_queue' \in [Prios -> Nat]
        /\ sdio_rx_queue'["serial"] + sdio_rx_queue'["others"]
             = sdio_rx_queue["serial"] + sdio_rx_queue["others"] + 1
    BY <2>3
  <2>5. token' = Wrapped(tx_buf_count' + s_free', TxMax)
    BY <2>1, <2>2, <2>3
  <2> QED BY <2>1, <2>2, <2>3, <2>4, <2>5
<1>6. CASE WWriteFails
  BY <1>6 DEF WWriteFails, Writing
<1>7. CASE RRegs
  BY <1>7 DEF RRegs, Reading
<1>8. CASE RClear
  BY <1>8 DEF RClear, Reading
<1>9. CASE RRead
  BY <1>9 DEF RRead, Reading
<1>10. CASE RCount
  BY <1>10 DEF RCount, Reading
<1>11. CASE CopyBegin
  BY <1>11 DEF CopyBegin
<1>12. CASE CopyEnd
  BY <1>12 DEF CopyEnd
<1>13. CASE SdioRead
  <2>1. PICK p \in Prios : sdio_rx_queue[p] > 0
                         /\ sdio_rx_queue' = [sdio_rx_queue EXCEPT ![p] = @ - 1]
    BY <1>13 DEF SdioRead
  <2>2. /\ sdio_rx_queue' \in [Prios -> Nat]
        /\ sdio_rx_queue'["serial"] + sdio_rx_queue'["others"]
             = sdio_rx_queue["serial"] + sdio_rx_queue["others"] - 1
    BY <2>1
  <2>3. s_free < NumBuffers
    BY <2>1
  <2>4. token' = Wrapped(token + 1, TxMax)
    <3>1. token \in 0..(TxMax - 1) /\ 1 \in 0..(TxMax - 1)
      OBVIOUS
    <3>2. (token + 1) % TxMax = Wrapped(token + 1, TxMax)
      BY <3>1, TxWraps
    <3> QED BY <1>13, <3>2 DEF SdioRead
  <2>5. /\ s_free' = s_free + 1 /\ tx_buf_count' = tx_buf_count
        /\ buf_available' = buf_available /\ w' = w /\ pkt' = pkt /\ overrun' = overrun
    BY <1>13 DEF SdioRead
  <2>6. token' = Wrapped(tx_buf_count' + s_free', TxMax)
    BY <2>3, <2>4, <2>5
  <2> QED BY <2>2, <2>3, <2>4, <2>5, <2>6
<1>14. CASE SlaveSend
  BY <1>14 DEF SlaveSend
<1>15. CASE SlaveLoad
  BY <1>15 DEF SlaveLoad
<1>16. CASE Reinit
  <2>1. /\ token' = NumBuffers /\ s_free' = NumBuffers /\ tx_buf_count' = 0
        /\ buf_available' = buf_available /\ w' = "recv" /\ overrun' = overrun
    BY <1>16, FreshToken DEF Reinit
  <2>2. /\ sdio_rx_queue' \in [Prios -> Nat]
        /\ sdio_rx_queue'["serial"] = 0 /\ sdio_rx_queue'["others"] = 0
    BY <1>16 DEF Reinit
  <2> QED BY <2>1, <2>2
<1>18. CASE RReadFails
  BY <1>18 DEF RReadFails, Reading
<1>17. CASE UNCHANGED vars
  BY <1>17 DEF vars
<1> QED
  BY <1>1, <1>2, <1>3, <1>4, <1>5, <1>6, <1>7, <1>8, <1>9, <1>10, <1>11, <1>12, <1>13,
     <1>14, <1>15, <1>16, <1>17, <1>18 DEF Next, WriteTask, ReadTask

\* The host never writes a packet for which the co-processor has no buffer, for any number of
\* buffers and any modulus above it: the cache outlives failed writes and restarts of the link, but
\* it never promises more than there is.
THEOREM NeverOverrun == Spec => []NoOverrun
<1>1. Buffers => NoOverrun
  BY DEF Buffers, NoOverrun
<1> QED BY <1>1, InitBuffers, NextBuffers, PTL DEF Spec

-----------------------------------------------------------------------------
(* The way to the host.                                                    *)

LEMMA InitLengths == Init => Lengths
<1> SUFFICES ASSUME Init PROVE Lengths
  OBVIOUS
<1>1. /\ s_out = 0 /\ loaded = 0 /\ len = 0 /\ rx_byte_count = 0 /\ len_reg = 0
      /\ rd = "wait"
  BY DEF Init
<1>2. len_reg = Wrapped(Wrapped(rx_byte_count + Uncounted, RxMax) + Outstanding, RxMax)
  BY <1>1, Sizes DEF Uncounted, Outstanding, Torn, Wrapped
<1>3. new_packet \in BOOLEAN /\ ~new_packet
  BY DEF Init
<1> QED BY <1>1, <1>2, <1>3, Sizes DEF Lengths

\* sdio_get_len_from_slave finds what is loaded, roll-over or not.
LEMMA LenFromSlaveRight ==
    ASSUME Lengths, rd = "clear"
    PROVE  LenFromSlave = loaded
<1>1. CASE regs >= rx_byte_count
  <2>1. LenFromSlave = Wrapped(regs + RxMax - rx_byte_count, RxMax)
    BY <1>1, Sizes, Wraps DEF Lengths, LenFromSlave
  <2> QED BY <1>1, <2>1, Sizes DEF Lengths, Uncounted, Outstanding, Torn, Wrapped
<1>2. CASE regs < rx_byte_count
  BY <1>2, Sizes DEF Lengths, LenFromSlave, Uncounted, Outstanding, Torn, Wrapped
<1> QED BY <1>1, <1>2, Sizes DEF Lengths

LEMMA NextLengths == Lengths /\ [Next]_vars => Lengths'
<1> SUFFICES ASSUME Lengths, [Next]_vars PROVE Lengths'
  OBVIOUS
<1> USE Sizes DEF Lengths, Uncounted, Outstanding, Torn, Prios, Wrapped, host_tx, host_rx, slave_rx, slave_tx
<1>1. ASSUME NEW p \in Prios, Send(p) PROVE Lengths'
  BY <1>1 DEF Send
<1>2. CASE WRecv
  BY <1>2 DEF WRecv
<1>3. CASE WLock
  BY <1>3 DEF WLock, Writing
<1>4. CASE WBuffers
  BY <1>4 DEF WBuffers, Writing
<1>5. CASE WWrite
  BY <1>5 DEF WWrite, Writing
<1>6. CASE WWriteFails
  BY <1>6 DEF WWriteFails, Writing
<1>7. CASE RRegs
  BY <1>7 DEF RRegs, Reading
<1>8. CASE RClear
  <2>1. LenFromSlave = loaded
    BY <1>8, LenFromSlaveRight DEF RClear, Reading
  <2> QED BY <1>8, <2>1 DEF RClear, Reading
<1>9. CASE RRead
  <2>1. /\ rd = "read" /\ rd' = "count" /\ loaded' = 0 /\ s_out' = s_out - loaded
        /\ len' = len /\ rx_byte_count' = rx_byte_count /\ len_reg' = len_reg
        /\ new_packet' = new_packet
    BY <1>9 DEF RRead, Reading
  <2> QED BY <2>1
<1>10. CASE RCount
  <2>1. /\ rd = "count" /\ rd' = "wait" /\ len' = 0
        /\ loaded' = loaded /\ s_out' = s_out /\ len_reg' = len_reg /\ new_packet' = new_packet
    BY <1>10 DEF RCount, Reading
  <2>2. rx_byte_count' = Wrapped(rx_byte_count + len, RxMax)
    <3>1. (rx_byte_count + len) % RxMax = Wrapped(rx_byte_count + len, RxMax)
      BY RxWraps
    <3> QED BY <1>10, <3>1 DEF RCount
  <2>3. Uncounted = len /\ Uncounted' = 0
    BY <2>1
  <2>4. Outstanding' = loaded /\ Outstanding = loaded
    BY <2>1
  <2>5. len_reg' = Wrapped(Wrapped(rx_byte_count' + Uncounted', RxMax) + Outstanding', RxMax)
    <3>1. rx_byte_count' \in 0..(RxMax - 1)
      BY <2>2
    <3>2. len_reg = Wrapped(rx_byte_count' + loaded, RxMax)
      BY <2>2, <2>3, <2>4
    <3> HIDE DEF Lengths, Outstanding, Uncounted, Torn, Wrapped
    <3>3. Wrapped(rx_byte_count' + 0, RxMax) = rx_byte_count'
      BY <3>1, RxIdle
    <3> QED BY <2>1, <2>3, <2>4, <3>2, <3>3
  <2>6. len' \in 0..SendQueue /\ rx_byte_count' \in 0..(RxMax - 1)
    BY <2>1, <2>2
  <2>7. ~(new_packet' \/ rd' \in {"clear", "read"}) \/ loaded' > 0
    BY <2>1
  <2> HIDE DEF Outstanding, Uncounted, Torn, Wrapped
  <2> QED BY <2>1, <2>5, <2>6, <2>7
<1>11. CASE CopyBegin
  BY <1>11 DEF CopyBegin
<1>12. CASE CopyEnd
  BY <1>12 DEF CopyEnd
<1>13. CASE SdioRead
  BY <1>13 DEF SdioRead
<1>14. CASE SlaveSend
  BY <1>14 DEF SlaveSend
<1>15. CASE SlaveLoad
  <2>1. /\ loaded = 0 /\ s_out > 0 /\ loaded' = s_out /\ s_out' = s_out /\ new_packet' = TRUE
        /\ rd' = rd /\ len' = len /\ rx_byte_count' = rx_byte_count /\ regs' = regs
    BY <1>15 DEF SlaveLoad
  <2>2. len_reg' = Wrapped(len_reg + s_out, RxMax)
    <3>1. len_reg \in 0..(RxMax - 1) /\ s_out \in 0..(RxMax - 1)
      OBVIOUS
    <3>2. (len_reg + s_out) % RxMax = Wrapped(len_reg + s_out, RxMax)
      BY <3>1, RxWraps
    <3> QED BY <1>15, <3>2 DEF SlaveLoad
  <2> QED BY <2>1, <2>2
<1>16. CASE Reinit
  <2>1. /\ s_out' = 0 /\ loaded' = 0 /\ len' = 0 /\ rx_byte_count' = 0 /\ len_reg' = 0
        /\ rd' = "wait"
    BY <1>16 DEF Reinit
  <2>2. len_reg' = Wrapped(Wrapped(rx_byte_count' + Uncounted', RxMax) + Outstanding', RxMax)
    BY <2>1
  <2>3. new_packet' \in BOOLEAN /\ ~new_packet'
    BY <1>16 DEF Reinit
  <2> QED BY <2>1, <2>2, <2>3
<1>18. CASE RReadFails
  <2>1. /\ rd = "read" /\ rd' = "wait" /\ len' = 0 /\ len = loaded /\ Torn'
        /\ loaded' = loaded /\ s_out' = s_out /\ len_reg' = len_reg /\ new_packet' = new_packet
    BY <1>18 DEF RReadFails, Reading
  <2>2. rx_byte_count' = Wrapped(rx_byte_count + len, RxMax)
    <3>1. (rx_byte_count + len) % RxMax = Wrapped(rx_byte_count + len, RxMax)
      BY RxWraps
    <3> QED BY <1>18, <3>1 DEF RReadFails
  <2> QED BY <2>1, <2>2
<1>17. CASE UNCHANGED vars
  BY <1>17 DEF vars
<1> QED
  BY <1>1, <1>2, <1>3, <1>4, <1>5, <1>6, <1>7, <1>8, <1>9, <1>10, <1>11, <1>12, <1>13,
     <1>14, <1>15, <1>16, <1>17, <1>18 DEF Next, WriteTask, ReadTask

\* The host reads exactly what the co-processor has loaded, for any modulus of the length register
\* above what the send queue holds.
THEOREM ReadsAreRight == Spec => []ReadsWhatWasLoaded
<1>1. Lengths => ReadsWhatWasLoaded
  BY DEF Lengths, ReadsWhatWasLoaded
<1> QED BY <1>1, InitLengths, NextLengths, PTL DEF Spec

-----------------------------------------------------------------------------
(* The double buffer.                                                      *)

LEMMA InitHalves == Init => Halves
BY DEF Init, Halves

LEMMA NextHalves == Halves /\ [Next]_vars => Halves'
<1> SUFFICES ASSUME Halves, [Next]_vars PROVE Halves'
  OBVIOUS
<1> USE DEF Halves, Prios, host_tx, host_rx, slave_rx, slave_tx
<1>1. ASSUME NEW p \in Prios, Send(p) PROVE Halves'
  BY <1>1 DEF Send
<1>2. CASE WRecv
  BY <1>2 DEF WRecv
<1>3. CASE WLock
  BY <1>3 DEF WLock, Writing
<1>4. CASE WBuffers
  BY <1>4 DEF WBuffers, Writing
<1>5. CASE WWrite
  BY <1>5 DEF WWrite, Writing
<1>6. CASE WWriteFails
  BY <1>6 DEF WWriteFails, Writing
<1>7. CASE RRegs
  BY <1>7 DEF RRegs, Reading
<1>8. CASE RClear
  BY <1>8 DEF RClear, Reading
<1>9. CASE RRead
  BY <1>9 DEF RRead, Reading
<1>10. CASE RCount
  BY <1>10 DEF RCount, Reading
<1>11. CASE CopyBegin
  BY <1>11 DEF CopyBegin
<1>12. CASE CopyEnd
  BY <1>12 DEF CopyEnd
<1>13. CASE SdioRead
  BY <1>13 DEF SdioRead
<1>14. CASE SlaveSend
  BY <1>14 DEF SlaveSend
<1>15. CASE SlaveLoad
  BY <1>15 DEF SlaveLoad
<1>16. CASE Reinit
  BY <1>16 DEF Reinit
<1>18. CASE RReadFails
  BY <1>18 DEF RReadFails, Reading
<1>17. CASE UNCHANGED vars
  BY <1>17 DEF vars
<1> QED
  BY <1>1, <1>2, <1>3, <1>4, <1>5, <1>6, <1>7, <1>8, <1>9, <1>10, <1>11, <1>12, <1>13,
     <1>14, <1>15, <1>16, <1>17, <1>18 DEF Next, WriteTask, ReadTask

\* sdio_read_task never reads from the bus into the half of the double buffer that is being copied.
THEOREM HalvesApart == Spec => []BuffersApart
<1>1. Halves => BuffersApart
  BY DEF Halves, BuffersApart
<1> QED BY <1>1, InitHalves, NextHalves, PTL DEF Spec

=============================================================================
