------------------------ MODULE SerialDownlinkProofs ------------------------
(***************************************************************************)
(* The way of a message from the co-processor to the RPC receive thread of *)
(* the host, for any number and length of messages, any length of the      *)
(* queue and any number of losses and closings.                            *)
(***************************************************************************)
EXTENDS SerialDownlink, Integers, SequenceTheorems, TLAPS

-----------------------------------------------------------------------------
(* The invariant, in three parts.                                          *)

Fragments == [msg : Nat, at : Nat, of : Nat]

Typed ==
    /\ sent \in Nat /\ spoiled \in Nat /\ losses \in Nat /\ sem \in Nat
    /\ left \in Seq(Fragments) /\ uart_in \in Seq(Fragments) /\ r \in Seq(Fragments)
    /\ serial_buf \in Seq(Fragments) /\ queue \in Seq(Seq(Fragments)) /\ got \in Seq(Nat)
    /\ rx \in {"read", "enqueue", "indicate"} /\ active \in BOOLEAN

\* What is queued, or about to be, has a first fragment.
Filled ==
    /\ rx = "enqueue" => serial_buf # << >>
    /\ \A i \in 1..Len(queue) : queue[i] # << >>

\* A closed interface has no thread and no messages.
Closed ==
    /\ ~active => rx = "read" /\ reader = "none" /\ queue = << >> /\ sem = 0
    /\ active => reader \in {"take", "recv"}

Counted == Typed /\ Filled /\ Closed /\ SemCountsMessages

-----------------------------------------------------------------------------
(* Types and the semaphore.                                                *)

LEMMA AppendIs ==
    ASSUME NEW S, NEW s \in Seq(S), NEW x \in S
    PROVE  /\ Append(s, x) \in Seq(S) /\ Append(s, x) # << >>
           /\ Len(s) \in Nat /\ Len(Append(s, x)) = Len(s) + 1
           /\ Append(s, x)[Len(s) + 1] = x
           /\ \A i \in 1..Len(s) : Append(s, x)[i] = s[i]
OBVIOUS

LEMMA TailIs ==
    ASSUME NEW S, NEW s \in Seq(S), s # << >>
    PROVE  /\ Head(s) = s[1] /\ s[1] \in S /\ Tail(s) \in Seq(S)
           /\ Len(s) \in Nat \ {0} /\ Len(Tail(s)) = Len(s) - 1
           /\ \A i \in 1..(Len(s) - 1) : Tail(s)[i] = s[i + 1]
BY HeadTailProperties

\* A fragment goes from the front of s to the end of t.
LEMMA MovedIs ==
    ASSUME NEW s \in Seq(Fragments), s # << >>, NEW t \in Seq(Fragments)
    PROVE  /\ Head(s) \in Fragments /\ Tail(s) \in Seq(Fragments)
           /\ Append(t, Head(s)) \in Seq(Fragments) /\ Append(t, Head(s)) # << >>
<1>1. Head(s) \in Fragments /\ Tail(s) \in Seq(Fragments)
  BY TailIs
<1> QED BY <1>1, AppendIs

LEMMA FragmentedIs ==
    ASSUME NEW m \in Nat, NEW n \in Nat
    PROVE  /\ Fragmented(m, n) \in Seq(Fragments) /\ Len(Fragmented(m, n)) = n
           /\ \A i \in 1..n : Fragmented(m, n)[i] = [msg |-> m, at |-> i, of |-> n]
BY DEF Fragmented, Fragments

\* Parsed gives the announced number of fragments from the front, or nothing.
LEMMA ParsedIs ==
    ASSUME NEW s \in Seq(Fragments), s # << >>, Parsed(s) # << >>
    PROVE  /\ s[1].at = 1 /\ s[1].of \in 1..Len(s)
           /\ Parsed(s) \in Seq(Fragments) /\ Len(Parsed(s)) = s[1].of
           /\ \A i \in 1..s[1].of : Parsed(s)[i] = s[i]
<1>1. Head(s) = s[1] /\ s[1] \in Fragments /\ Len(s) \in Nat /\ Len(s) >= 1
  OBVIOUS
<1>2. s[1].at = 1 /\ Len(s) >= s[1].of /\ Parsed(s) = SubSeq(s, 1, s[1].of)
  BY <1>1 DEF Parsed
<1>3. s[1].of \in Nat
  BY <1>1 DEF Fragments
<1>4. /\ SubSeq(s, 1, s[1].of) \in Seq(Fragments)
      /\ Len(SubSeq(s, 1, s[1].of)) = s[1].of
      /\ \A i \in 1..s[1].of : SubSeq(s, 1, s[1].of)[i] = s[i]
  BY <1>1, <1>2, <1>3
<1>5. s[1].of # 0
  BY <1>2, <1>4
<1> QED BY <1>1, <1>2, <1>3, <1>4, <1>5

LEMMA InitCounted == Init => Counted
BY DEF Init, Counted, Typed, Filled, Closed, SemCountsMessages

LEMMA NextCounted == Counted /\ [Next]_vars => Counted'
<1> SUFFICES ASSUME Counted, [Next]_vars PROVE Counted'
  OBVIOUS
<1> USE DownlinkAssumption DEF Counted, Typed, Filled, Closed, SemCountsMessages
<1>1. ASSUME NEW n \in 1..MaxFragments, SlaveBegin(n) PROVE Counted'
  <2>1. sent + 1 \in Nat /\ n \in Nat /\ Fragmented(sent + 1, n) \in Seq(Fragments)
    <3>1. sent + 1 \in Nat /\ n \in Nat
      OBVIOUS
    <3> QED BY <3>1, FragmentedIs
  <2> QED BY <1>1, <2>1 DEF SlaveBegin
<1>2. CASE SlaveSend
  <2>1. /\ left # << >> /\ left \in Seq(Fragments) /\ uart_in \in Seq(Fragments)
        /\ uart_in' = Append(uart_in, Head(left)) /\ left' = Tail(left)
        /\ UNCHANGED <<sent, r, rx, serial_buf, active, queue, sem, reader, got, spoiled, losses>>
    BY <1>2 DEF SlaveSend
  <2>2. left' \in Seq(Fragments) /\ uart_in' \in Seq(Fragments)
    <3> HIDE DEF Counted
    <3> QED BY <2>1, MovedIs
  <2> QED BY <2>1, <2>2
<1>3. CASE RxFlush
  BY <1>3 DEF RxFlush
<1>4. CASE RxDiscard
  BY <1>4 DEF RxDiscard
<1>5. CASE RxFragment
  <2>1. /\ uart_in # << >> /\ uart_in \in Seq(Fragments) /\ r \in Seq(Fragments)
        /\ r' = Append(r, Head(uart_in)) /\ uart_in' = Tail(uart_in)
        /\ UNCHANGED <<sent, left, rx, serial_buf, active, queue, sem, reader, got, spoiled, losses>>
    BY <1>5 DEF RxFragment
  <2>2. uart_in' \in Seq(Fragments) /\ r' \in Seq(Fragments)
    <3> HIDE DEF Counted
    <3> QED BY <2>1, MovedIs
  <2> QED BY <2>1, <2>2
<1>6. CASE RxLast
  <2>1. /\ uart_in # << >> /\ uart_in \in Seq(Fragments) /\ r \in Seq(Fragments)
        /\ serial_buf' = Append(r, Head(uart_in)) /\ uart_in' = Tail(uart_in) /\ r' = << >>
        /\ rx = "read" /\ rx' = "enqueue" /\ active
        /\ UNCHANGED <<sent, left, active, queue, sem, reader, got, spoiled, losses>>
    BY <1>6 DEF RxLast
  <2>2. Tail(uart_in) \in Seq(Fragments)
    <3> HIDE DEF Counted
    <3> QED BY <2>1, MovedIs
  <2>3. Append(r, Head(uart_in)) \in Seq(Fragments) /\ Append(r, Head(uart_in)) # << >>
    <3> HIDE DEF Counted
    <3> QED BY <2>1, MovedIs
  <2>4. Typed'
    BY <2>1, <2>2, <2>3
  <2>5. Filled' /\ Closed' /\ SemCountsMessages'
    BY <2>1, <2>3
  <2> QED BY <2>4, <2>5
<1>7. CASE RxEnqueue
  <2>1. /\ queue \in Seq(Seq(Fragments)) /\ serial_buf \in Seq(Fragments)
        /\ queue' = Append(queue, serial_buf) /\ rx' = "indicate"
        /\ serial_buf # << >> /\ \A i \in 1..Len(queue) : queue[i] # << >>
    BY <1>7 DEF RxEnqueue
  <2> DEFINE F == Seq(Fragments)
  <2>2. queue \in Seq(F) /\ serial_buf \in F
    BY <2>1
  <2> HIDE DEF F
  <2>3. /\ Append(queue, serial_buf) \in Seq(F) /\ Len(queue) \in Nat
        /\ Len(Append(queue, serial_buf)) = Len(queue) + 1
        /\ Append(queue, serial_buf)[Len(queue) + 1] = serial_buf
        /\ \A i \in 1..Len(queue) : Append(queue, serial_buf)[i] = queue[i]
    BY <2>2, AppendIs
  <2>4. /\ queue' \in Seq(Seq(Fragments)) /\ Len(queue') = Len(queue) + 1
        /\ Len(queue) \in Nat
        /\ queue'[Len(queue) + 1] = serial_buf
        /\ \A i \in 1..Len(queue) : queue'[i] = queue[i]
    BY <2>1, <2>3 DEF F
  <2>5. Typed' /\ Closed'
    BY <1>7, <2>4 DEF RxEnqueue
  <2>6. Filled'
    <3>1. ASSUME NEW i \in 1..Len(queue') PROVE queue'[i] # << >>
      <4>1. i \in 1..Len(queue) \/ i = Len(queue) + 1
        BY <2>4
      <4> QED BY <2>4, <2>1, <4>1
    <3> QED BY <2>1, <3>1
  <2>7. SemCountsMessages'
    BY <1>7, <2>4 DEF RxEnqueue
  <2> QED BY <2>5, <2>6, <2>7
<1>8. CASE RxIndicate
  BY <1>8 DEF RxIndicate
<1>9. CASE ReadTake
  BY <1>9 DEF ReadTake
<1>10. CASE ReadRecv
  <2>1. /\ queue # << >> /\ Head(queue) = queue[1] /\ queue[1] \in Seq(Fragments)
        /\ queue[1] # << >> /\ queue' = Tail(queue)
    BY <1>10 DEF ReadRecv
  <2>2. /\ queue' \in Seq(Seq(Fragments)) /\ Len(queue') = Len(queue) - 1
        /\ \A i \in 1..Len(queue') : i + 1 \in 1..Len(queue) /\ queue'[i] = queue[i + 1]
    BY <2>1, HeadTailProperties
  <2>3. got' \in Seq(Nat) /\ spoiled' \in Nat
    <3>1. Parsed(queue[1]) # << >> => Head(Parsed(queue[1])).msg \in Nat
      <4>1. ASSUME Parsed(queue[1]) # << >> PROVE Head(Parsed(queue[1])) \in Fragments
        BY <2>1, <4>1, ParsedIs, TailIs
      <4> QED BY <4>1 DEF Fragments
    <3> QED BY <1>10, <2>1, <3>1 DEF ReadRecv
  <2>4. Typed' /\ Closed'
    BY <1>10, <2>2, <2>3 DEF ReadRecv
  <2>5. Filled'
    BY <1>10, <2>2 DEF ReadRecv
  <2>6. SemCountsMessages'
    BY <1>10, <2>2 DEF ReadRecv
  <2> QED BY <2>4, <2>5, <2>6
<1>11. CASE Close
  <2>1. /\ active' \in BOOLEAN /\ ~active' /\ queue' = << >> /\ sem' = 0 /\ reader' = "none"
        /\ rx' = "read"
    BY <1>11 DEF Close
  <2>2. Typed' /\ Filled' /\ Closed'
    BY <1>11, <2>1 DEF Close
  <2>3. SemCountsMessages'
    BY <1>11 DEF Close
  <2> QED BY <2>2, <2>3
<1>12. CASE Open
  BY <1>12 DEF Open
<1>13. CASE UNCHANGED vars
  BY <1>13 DEF vars
<1> QED
  BY <1>1, <1>2, <1>3, <1>4, <1>5, <1>6, <1>7, <1>8, <1>9, <1>10, <1>11, <1>12, <1>13
     DEF Next, RxTask, Reader

\* read_semaphore and the queue agree at every step of the RX task, of the receive thread and of
\* closing and opening: h_control_serial_drv_read never waits for a message it was promised, and
\* none stays in the queue unannounced.
THEOREM SemaphoreRight == Spec => []SemCountsMessages
<1>1. Counted => SemCountsMessages
  BY DEF Counted
<1> QED BY <1>1, InitCounted, NextCounted, PTL DEF Spec

-----------------------------------------------------------------------------
(* The order of arrival.                                                   *)

Elems(s) == {s[i] : i \in 1..Len(s)}

\* Where a message begins in T, all of S is of earlier messages.
Before(S, T) == \A f \in S, g \in T : g.at = 1 => f.msg < g.msg

\* The same inside a sequence.
Rising(s) == \A i, j \in 1..Len(s) : i < j /\ s[j].at = 1 => s[i].msg < s[j].msg

\* What is on the way, and the part of it that is not yet queued.
Coming == Elems(r) \cup Elems(uart_in) \cup Elems(left)

OnTheWay == Coming \cup Elems(serial_buf) \cup UNION {Elems(queue[i]) : i \in 1..Len(queue)}

\* The stages of the way are in the order in which messages pass them.
Ordered ==
    /\ \A i, j \in 1..Len(queue) : i < j => Before(Elems(queue[i]), Elems(queue[j]))
    /\ \A i \in 1..Len(queue) : Before(Elems(queue[i]), Elems(serial_buf) \cup Coming)
    /\ Before(Elems(serial_buf), Coming)
    /\ Before(Elems(r), Elems(uart_in) \cup Elems(left))
    /\ Before(Elems(uart_in), Elems(left))
    /\ Rising(uart_in) /\ Rising(left)

\* What has arrived is older than every message that still begins, and nothing is newer than the
\* message the co-processor began last.
Arrived ==
    /\ \A i \in 1..Len(got) : got[i] <= sent /\ \A f \in OnTheWay : f.at = 1 => got[i] < f.msg
    /\ \A f \in OnTheWay : f.msg <= sent

Order == Counted /\ Ordered /\ Arrived /\ InOrder

LEMMA ElemsEmpty == Elems(<< >>) = {} /\ Rising(<< >>)
BY DEF Elems, Rising

LEMMA ElemsAppend ==
    ASSUME NEW s \in Seq(Fragments), NEW x \in Fragments
    PROVE  /\ Elems(Append(s, x)) = Elems(s) \cup {x}
           /\ Rising(s) /\ Before(Elems(s), {x}) => Rising(Append(s, x))
<1>1. /\ Len(s) \in Nat /\ Len(Append(s, x)) = Len(s) + 1 /\ Append(s, x)[Len(s) + 1] = x
      /\ \A i \in 1..Len(s) : Append(s, x)[i] = s[i]
  BY AppendIs
<1>2. \A i \in 1..(Len(s) + 1) : i \in 1..Len(s) \/ i = Len(s) + 1
  BY <1>1
<1>3. Elems(Append(s, x)) = Elems(s) \cup {x}
  BY <1>1, <1>2 DEF Elems
<1>4. ASSUME Rising(s), Before(Elems(s), {x}) PROVE Rising(Append(s, x))
  <2> SUFFICES ASSUME NEW i \in 1..(Len(s) + 1), NEW j \in 1..(Len(s) + 1), i < j,
                      Append(s, x)[j].at = 1
               PROVE  Append(s, x)[i].msg < Append(s, x)[j].msg
    BY <1>1 DEF Rising
  <2>1. i \in 1..Len(s) /\ Append(s, x)[i] = s[i] /\ s[i] \in Elems(s)
    BY <1>1 DEF Elems
  <2>2. CASE j \in 1..Len(s)
    BY <1>1, <1>4, <2>1, <2>2 DEF Rising
  <2>3. CASE j = Len(s) + 1
    BY <1>1, <1>4, <2>1, <2>3 DEF Before
  <2> QED BY <1>2, <2>2, <2>3
<1> QED BY <1>3, <1>4

LEMMA ElemsTail ==
    ASSUME NEW s \in Seq(Fragments), s # << >>
    PROVE  /\ Elems(s) = {Head(s)} \cup Elems(Tail(s))
           /\ Rising(s) => Rising(Tail(s)) /\ Before({Head(s)}, Elems(Tail(s)))
<1> DEFINE n == Len(s)
<1>1. /\ Head(s) = s[1] /\ n \in Nat \ {0} /\ Len(Tail(s)) = n - 1
      /\ \A i \in 1..(n - 1) : i + 1 \in 1..n /\ Tail(s)[i] = s[i + 1]
  BY TailIs
<1>2. Elems(s) = {s[i] : i \in 1..n} /\ Elems(Tail(s)) = {Tail(s)[i] : i \in 1..(n - 1)}
  BY <1>1 DEF Elems
<1>3. Rising(s) <=> \A i, j \in 1..n : i < j /\ s[j].at = 1 => s[i].msg < s[j].msg
  BY DEF Rising
<1> HIDE DEF n
<1>4. ASSUME NEW i \in 1..n PROVE s[i] = Head(s) \/ s[i] \in Elems(Tail(s))
  <2>1. i # 1 => i - 1 \in 1..(n - 1) /\ Tail(s)[i - 1] = s[i]
    BY <1>1
  <2> QED BY <2>1, <1>1, <1>2
<1>5. ASSUME Rising(s) PROVE Rising(Tail(s)) /\ Before({Head(s)}, Elems(Tail(s)))
  <2>1. ASSUME NEW i \in 1..(n - 1), NEW j \in 1..(n - 1), i < j, Tail(s)[j].at = 1
        PROVE  Tail(s)[i].msg < Tail(s)[j].msg
    <3>1. /\ i + 1 \in 1..n /\ j + 1 \in 1..n /\ i + 1 < j + 1
          /\ Tail(s)[i] = s[i + 1] /\ Tail(s)[j] = s[j + 1]
      BY <1>1, <2>1
    <3> QED BY <3>1, <2>1, <1>3, <1>5
  <2>2. ASSUME NEW j \in 1..(n - 1), Tail(s)[j].at = 1
        PROVE  Head(s).msg < Tail(s)[j].msg
    <3>1. 1 \in 1..n /\ j + 1 \in 1..n /\ 1 < j + 1 /\ Tail(s)[j] = s[j + 1]
      BY <1>1
    <3> QED BY <3>1, <2>2, <1>1, <1>3, <1>5
  <2> QED BY <2>1, <2>2, <1>1, <1>2 DEF Rising, Before
<1> QED BY <1>1, <1>2, <1>4, <1>5

\* A step by which things only disappear from the way.
LEMMA LessOnTheWay ==
    ASSUME Order, queue' = queue \/ queue' = << >>,
           Elems(serial_buf') \subseteq Elems(serial_buf), Elems(r') \subseteq Elems(r),
           Elems(uart_in') \subseteq Elems(uart_in), Elems(left') \subseteq Elems(left),
           Rising(uart_in'), Rising(left'), UNCHANGED <<sent, got>>
    PROVE  Ordered' /\ Arrived' /\ InOrder'
<1>1. Coming' \subseteq Coming
  BY DEF Coming
<1>2. OnTheWay' \subseteq OnTheWay
  BY <1>1 DEF OnTheWay
<1>3. \A S, T, S1, T1 : Before(S, T) /\ S1 \subseteq S /\ T1 \subseteq T => Before(S1, T1)
  BY DEF Before
<1>4. /\ Before(Elems(serial_buf)', Coming')
      /\ Before(Elems(r)', Elems(uart_in)' \cup Elems(left)')
      /\ Before(Elems(uart_in)', Elems(left)')
  <2>1. Elems(uart_in)' \cup Elems(left)' \subseteq Elems(uart_in) \cup Elems(left)
    OBVIOUS
  <2> QED BY <1>1, <1>3, <2>1 DEF Order, Ordered
<1>5. /\ \A i, j \in 1..Len(queue') : i < j => Before(Elems(queue'[i]), Elems(queue'[j]))
      /\ \A i \in 1..Len(queue') : Before(Elems(queue'[i]), Elems(serial_buf') \cup Coming')
  <2>1. CASE queue' = queue
    <3>1. Elems(serial_buf)' \cup Coming' \subseteq Elems(serial_buf) \cup Coming
      BY <1>1
    <3> QED BY <2>1, <3>1, <1>3 DEF Order, Ordered
  <2>2. CASE queue' = << >>
    BY <2>2
  <2> QED BY <2>1, <2>2
<1>6. Ordered'
  BY <1>4, <1>5 DEF Ordered
<1>7. Arrived' /\ InOrder'
  BY <1>2 DEF Order, Arrived, InOrder
<1> QED BY <1>6, <1>7

LEMMA SlaveBeginOrder ==
    ASSUME Order, NEW n \in 1..MaxFragments, SlaveBegin(n)
    PROVE  Ordered' /\ Arrived' /\ InOrder'
<1>1. /\ sent \in Nat /\ sent' = sent + 1 /\ left = << >> /\ left' = Fragmented(sent + 1, n)
      /\ UNCHANGED <<uart_in, r, serial_buf, queue, got>> /\ got \in Seq(Nat)
      /\ n \in Nat
  BY DownlinkAssumption DEF Order, Counted, Typed, SlaveBegin
<1>2. /\ Len(left') = n
      /\ \A i \in 1..n : left'[i] = [msg |-> sent + 1, at |-> i, of |-> n]
  BY <1>1, FragmentedIs
<1>3. Rising(left')
  BY <1>2 DEF Rising
<1>4. \A f \in Elems(left)' : f.msg = sent + 1
  BY <1>2 DEF Elems
<1>5. Coming' = Coming \cup Elems(left)' /\ OnTheWay' = OnTheWay \cup Elems(left)'
  BY <1>1, ElemsEmpty DEF Coming, OnTheWay
<1>6. \A f \in OnTheWay : f.msg < sent + 1
  <2>1. \A f \in OnTheWay : f \in Fragments
    BY DEF Order, Counted, Typed, OnTheWay, Coming, Elems
  <2> QED BY <1>1, <2>1 DEF Order, Arrived, Fragments
<1>7. Ordered'
  <2>1. \A S : S \subseteq OnTheWay => Before(S, Elems(left)')
    BY <1>4, <1>6 DEF Before
  <2>2. /\ Elems(serial_buf) \subseteq OnTheWay /\ Elems(r) \subseteq OnTheWay
        /\ Elems(uart_in) \subseteq OnTheWay
        /\ \A i \in 1..Len(queue) : Elems(queue[i]) \subseteq OnTheWay
    BY DEF OnTheWay, Coming
  <2>3. \A i \in 1..Len(queue) : Before(Elems(queue[i]), Elems(serial_buf)' \cup Coming')
    <3> SUFFICES ASSUME NEW i \in 1..Len(queue)
                 PROVE  Before(Elems(queue[i]), Elems(serial_buf)' \cup Coming')
      OBVIOUS
    <3>1. /\ Before(Elems(queue[i]), Elems(left)')
          /\ Before(Elems(queue[i]), Elems(serial_buf) \cup Coming)
      BY <2>1, <2>2 DEF Order, Ordered
    <3>2. serial_buf' = serial_buf
      BY <1>1
    <3> QED BY <3>1, <3>2, <1>5 DEF Before
  <2>4. Before(Elems(serial_buf)', Coming')
    <3>1. Before(Elems(serial_buf), Elems(left)') /\ Before(Elems(serial_buf), Coming)
      BY <2>1, <2>2 DEF Order, Ordered
    <3> QED BY <3>1, <1>1, <1>5 DEF Before
  <2>5. Before(Elems(r)', Elems(uart_in)' \cup Elems(left)')
    <3>1. Before(Elems(r), Elems(left)') /\ Before(Elems(r), Elems(uart_in))
      BY <2>1, <2>2 DEF Order, Ordered, Before
    <3> QED BY <3>1, <1>1 DEF Before
  <2>6. Before(Elems(uart_in)', Elems(left)')
    BY <2>1, <2>2, <1>1
  <2>7. /\ \A i, j \in 1..Len(queue) : i < j => Before(Elems(queue[i]), Elems(queue[j]))
        /\ Rising(uart_in)
    BY DEF Order, Ordered
  <2> QED BY <2>3, <2>4, <2>5, <2>6, <2>7, <1>1, <1>3 DEF Ordered
<1>8. Arrived'
  <2>1. ASSUME NEW i \in 1..Len(got)
        PROVE  /\ got[i] \in Nat /\ got[i] <= sent
               /\ \A f \in OnTheWay : f.at = 1 => got[i] < f.msg
    BY <1>1 DEF Order, Arrived
  <2>2. \A f \in OnTheWay' : f.msg \in Nat /\ f.msg <= sent'
    <3>1. \A f \in OnTheWay : f \in Fragments
      BY DEF Order, Counted, Typed, OnTheWay, Coming, Elems
    <3> QED BY <1>1, <1>4, <1>5, <1>6, <3>1 DEF Fragments
  <2>3. ASSUME NEW i \in 1..Len(got), NEW f \in OnTheWay', f.at = 1
        PROVE  got[i] < f.msg
    BY <2>1, <2>3, <1>1, <1>4, <1>5
  <2>4. \A i \in 1..Len(got) : got[i] <= sent'
    BY <2>1, <1>1
  <2> QED BY <2>2, <2>3, <2>4, <1>1 DEF Arrived
<1>9. InOrder'
  BY <1>1 DEF Order, InOrder
<1> QED BY <1>7, <1>8, <1>9

\* A step by which a fragment moves from one stage to the next.
LEMMA SlaveSendOrder ==
    ASSUME Order, SlaveSend
    PROVE  Ordered' /\ Arrived' /\ InOrder'
<1>1. /\ left # << >> /\ left \in Seq(Fragments) /\ uart_in \in Seq(Fragments)
      /\ uart_in' = Append(uart_in, Head(left)) /\ left' = Tail(left)
      /\ UNCHANGED <<sent, r, serial_buf, queue, got>>
      /\ Rising(left) /\ Rising(uart_in)
  BY DEF Order, Ordered, Counted, Typed, SlaveSend
<1>2. Head(left) \in Fragments
  BY <1>1, TailIs
<1>3. /\ Elems(left) = {Head(left)} \cup Elems(left') /\ Rising(left')
      /\ Before({Head(left)}, Elems(left'))
      /\ Elems(uart_in') = Elems(uart_in) \cup {Head(left)}
  BY <1>1, <1>2, ElemsTail, ElemsAppend
<1>4. Rising(uart_in')
  BY <1>1, <1>2, <1>3, ElemsAppend DEF Order, Ordered, Before
<1>5. Coming' = Coming /\ OnTheWay' = OnTheWay
  BY <1>1, <1>3 DEF Coming, OnTheWay
<1>6. /\ Before(Elems(r'), Elems(uart_in') \cup Elems(left'))
      /\ Before(Elems(uart_in'), Elems(left'))
  BY <1>1, <1>3 DEF Order, Ordered, Before
<1>7. Ordered'
  BY <1>1, <1>3, <1>4, <1>5, <1>6 DEF Order, Ordered
<1>8. Arrived' /\ InOrder'
  BY <1>1, <1>5 DEF Order, Arrived, InOrder
<1> QED BY <1>7, <1>8

LEMMA RxFragmentOrder ==
    ASSUME Order, RxFragment
    PROVE  Ordered' /\ Arrived' /\ InOrder'
<1>1. /\ uart_in # << >> /\ uart_in \in Seq(Fragments) /\ r \in Seq(Fragments)
      /\ r' = Append(r, Head(uart_in)) /\ uart_in' = Tail(uart_in)
      /\ UNCHANGED <<sent, left, serial_buf, queue, got>>
      /\ Rising(left) /\ Rising(uart_in)
  BY DEF Order, Ordered, Counted, Typed, RxFragment
<1>2. Head(uart_in) \in Fragments
  BY <1>1, TailIs
<1>3. /\ Elems(uart_in) = {Head(uart_in)} \cup Elems(uart_in') /\ Rising(uart_in')
      /\ Before({Head(uart_in)}, Elems(uart_in'))
      /\ Elems(r') = Elems(r) \cup {Head(uart_in)}
  BY <1>1, <1>2, ElemsTail, ElemsAppend
<1>4. Coming' = Coming /\ OnTheWay' = OnTheWay
  BY <1>1, <1>3 DEF Coming, OnTheWay
<1>5. /\ Before(Elems(r'), Elems(uart_in') \cup Elems(left'))
      /\ Before(Elems(uart_in'), Elems(left'))
  BY <1>1, <1>3 DEF Order, Ordered, Before
<1>6. Ordered'
  BY <1>1, <1>3, <1>4, <1>5 DEF Order, Ordered
<1>7. Arrived' /\ InOrder'
  BY <1>1, <1>4 DEF Order, Arrived, InOrder
<1> QED BY <1>6, <1>7

LEMMA RxLastOrder ==
    ASSUME Order, RxLast
    PROVE  Ordered' /\ Arrived' /\ InOrder'
<1>1. /\ uart_in # << >> /\ uart_in \in Seq(Fragments) /\ r \in Seq(Fragments)
      /\ serial_buf' = Append(r, Head(uart_in)) /\ uart_in' = Tail(uart_in) /\ r' = << >>
      /\ UNCHANGED <<sent, left, queue, got>>
      /\ Rising(left) /\ Rising(uart_in)
  BY DEF Order, Ordered, Counted, Typed, RxLast
<1>2. Head(uart_in) \in Fragments
  BY <1>1, TailIs
<1>3. /\ Elems(uart_in) = {Head(uart_in)} \cup Elems(uart_in') /\ Rising(uart_in')
      /\ Before({Head(uart_in)}, Elems(uart_in'))
      /\ Elems(serial_buf') = Elems(r) \cup {Head(uart_in)} /\ Elems(r') = {}
  BY <1>1, <1>2, ElemsTail, ElemsAppend, ElemsEmpty
<1>4. /\ Coming' = Elems(uart_in') \cup Elems(left)
      /\ Elems(serial_buf') \cup Coming' = Coming /\ OnTheWay' \subseteq OnTheWay
  BY <1>1, <1>3 DEF Coming, OnTheWay
<1>5. /\ Before(Elems(serial_buf'), Coming')
      /\ Before(Elems(r'), Elems(uart_in') \cup Elems(left'))
      /\ Before(Elems(uart_in'), Elems(left'))
  BY <1>1, <1>3, <1>4 DEF Order, Ordered, Before
<1>6. \A i \in 1..Len(queue) : Before(Elems(queue[i]), Coming)
  BY DEF Order, Ordered, Before
<1>7. Ordered'
  BY <1>1, <1>3, <1>4, <1>5, <1>6 DEF Order, Ordered
<1>8. Arrived' /\ InOrder'
  BY <1>1, <1>4 DEF Order, Arrived, InOrder
<1> QED BY <1>7, <1>8

LEMMA RxEnqueueOrder ==
    ASSUME Order, RxEnqueue
    PROVE  Ordered' /\ Arrived' /\ InOrder'
<1>1. /\ queue \in Seq(Seq(Fragments)) /\ serial_buf \in Seq(Fragments)
      /\ queue' = Append(queue, serial_buf) /\ serial_buf' = << >>
      /\ UNCHANGED <<sent, left, uart_in, r, got>>
  BY DEF Order, Counted, Typed, RxEnqueue
<1>2. /\ Len(queue) \in Nat /\ Len(queue') = Len(queue) + 1
      /\ queue'[Len(queue) + 1] = serial_buf
      /\ \A i \in 1..Len(queue) : queue'[i] = queue[i]
  BY <1>1, AppendIs
<1>3. Coming' = Coming /\ Elems(serial_buf') = {}
  BY <1>1, ElemsEmpty DEF Coming
<1>4. \A i \in 1..Len(queue') : i \in 1..Len(queue) \/ i = Len(queue) + 1
  BY <1>2
<1>5. OnTheWay' \subseteq OnTheWay
  <2> SUFFICES ASSUME NEW i \in 1..Len(queue'), NEW f \in Elems(queue'[i]) PROVE f \in OnTheWay
    BY <1>3 DEF OnTheWay
  <2> QED BY <1>2, <1>4 DEF OnTheWay
<1>6. ASSUME NEW i \in 1..Len(queue'), NEW j \in 1..Len(queue'), i < j
      PROVE  Before(Elems(queue'[i]), Elems(queue'[j]))
  <2>1. i \in 1..Len(queue) /\ queue'[i] = queue[i]
    BY <1>2, <1>6
  <2>2. CASE j \in 1..Len(queue)
    BY <1>2, <1>6, <2>1, <2>2 DEF Order, Ordered
  <2>3. CASE j = Len(queue) + 1
    <3>1. Before(Elems(queue[i]), Elems(serial_buf))
      BY <2>1 DEF Order, Ordered, Before
    <3> QED BY <1>2, <2>1, <2>3, <3>1
  <2> QED BY <1>4, <2>2, <2>3
<1>7. ASSUME NEW i \in 1..Len(queue')
      PROVE  Before(Elems(queue'[i]), Elems(serial_buf') \cup Coming')
  <2>1. Elems(serial_buf') \cup Coming' = Coming
    BY <1>3
  <2>2. CASE i \in 1..Len(queue)
    BY <1>2, <2>1, <2>2 DEF Order, Ordered, Before
  <2>3. CASE i = Len(queue) + 1
    BY <1>2, <2>1, <2>3 DEF Order, Ordered
  <2> QED BY <1>4, <2>2, <2>3
<1>8. Before(Elems(serial_buf'), Coming')
  BY <1>3 DEF Before
<1>9. Ordered'
  BY <1>1, <1>6, <1>7, <1>8 DEF Order, Ordered
<1>10. Arrived' /\ InOrder'
  BY <1>1, <1>5 DEF Order, Arrived, InOrder
<1> QED BY <1>9, <1>10

\* The thread gets the oldest message; if it is whole, it is newer than all before.
LEMMA ReadRecvOrder ==
    ASSUME Order, ReadRecv
    PROVE  Ordered' /\ Arrived' /\ InOrder'
<1>1. /\ queue # << >> /\ queue \in Seq(Seq(Fragments)) /\ queue' = Tail(queue)
      /\ got \in Seq(Nat) /\ sent \in Nat
      /\ UNCHANGED <<sent, left, uart_in, r, serial_buf>>
  BY DEF Order, Counted, Typed, ReadRecv
<1>2. /\ Head(queue) = queue[1] /\ queue[1] \in Seq(Fragments) /\ Len(queue) \in Nat \ {0}
      /\ Len(queue') = Len(queue) - 1
      /\ \A i \in 1..Len(queue') : i + 1 \in 1..Len(queue) /\ queue'[i] = queue[i + 1]
  <2>1. \A i \in 1..(Len(queue) - 1) : i + 1 \in 1..Len(queue)
    BY <1>1
  <2> QED BY <1>1, <2>1, TailIs
<1>3. queue[1] # << >> /\ queue[1][1] \in Fragments /\ queue[1][1] \in Elems(queue[1])
  <2>1. queue[1] # << >>
    BY <1>2 DEF Order, Counted, Filled
  <2> QED BY <1>2, <2>1 DEF Elems
<1>4. Coming' = Coming /\ serial_buf' = serial_buf
  BY <1>1 DEF Coming
<1>5. OnTheWay' \subseteq OnTheWay
  BY <1>2, <1>4 DEF OnTheWay
<1>6. Ordered'
  <2>1. ASSUME NEW i \in 1..Len(queue'), NEW j \in 1..Len(queue'), i < j
        PROVE  Before(Elems(queue'[i]), Elems(queue'[j]))
    <3>1. /\ i + 1 \in 1..Len(queue) /\ j + 1 \in 1..Len(queue) /\ i + 1 < j + 1
          /\ queue'[i] = queue[i + 1] /\ queue'[j] = queue[j + 1]
      BY <1>2, <2>1
    <3> QED BY <3>1 DEF Order, Ordered
  <2>2. \A i \in 1..Len(queue') : Before(Elems(queue'[i]), Elems(serial_buf) \cup Coming)
    BY <1>2 DEF Order, Ordered
  <2> QED BY <1>1, <1>4, <2>1, <2>2 DEF Order, Ordered
<1>7. got' = got \/ (got' = Append(got, queue[1][1].msg) /\ queue[1][1].at = 1)
  <2>1. CASE Parsed(queue[1]) = << >> \/ ~Whole(Parsed(queue[1]))
    BY <1>2, <2>1 DEF ReadRecv
  <2>2. CASE Parsed(queue[1]) # << >> /\ Whole(Parsed(queue[1]))
    <3>1. /\ queue[1][1].at = 1 /\ queue[1][1].of \in 1..Len(queue[1])
          /\ Parsed(queue[1]) \in Seq(Fragments)
          /\ Parsed(queue[1])[1] = queue[1][1]
      BY <1>2, <1>3, <2>2, ParsedIs
    <3>2. Head(Parsed(queue[1])) = queue[1][1]
      BY <2>2, <3>1, TailIs
    <3> QED BY <1>2, <2>2, <3>1, <3>2 DEF ReadRecv
  <2> QED BY <2>1, <2>2
<1>8. CASE got' = got
  BY <1>1, <1>5, <1>6, <1>8 DEF Order, Arrived, InOrder
<1>9. CASE got' = Append(got, queue[1][1].msg) /\ queue[1][1].at = 1
  <2> DEFINE m == queue[1][1].msg
  <2>1. /\ m \in Nat /\ queue[1][1] \in OnTheWay /\ m <= sent
        /\ \A i \in 1..Len(got) : got[i] < m
    <3>1. queue[1][1] \in OnTheWay
      BY <1>2, <1>3 DEF OnTheWay
    <3> QED BY <1>3, <1>9, <3>1 DEF Order, Arrived, Fragments
  <2>2. \A f \in OnTheWay' : f.at = 1 => m < f.msg
    <3>1. ASSUME NEW i \in 1..Len(queue'), NEW f \in Elems(queue'[i]), f.at = 1 PROVE m < f.msg
      <4>1. 1 \in 1..Len(queue) /\ i + 1 \in 1..Len(queue) /\ 1 < i + 1 /\ queue'[i] = queue[i + 1]
        BY <1>2
      <4>2. Before(Elems(queue[1]), Elems(queue[i + 1]))
        BY <4>1 DEF Order, Ordered
      <4>3. f \in Elems(queue[i + 1])
        BY <3>1, <4>1
      <4> QED BY <1>3, <3>1, <4>2, <4>3 DEF Before
    <3>2. Before(Elems(queue[1]), Elems(serial_buf) \cup Coming)
      <4>1. 1 \in 1..Len(queue)
        BY <1>2
      <4> QED BY <4>1 DEF Order, Ordered
    <3>3. \A f \in Elems(serial_buf) \cup Coming : f.at = 1 => m < f.msg
      BY <1>3, <3>2 DEF Before
    <3> QED BY <1>4, <3>1, <3>3 DEF OnTheWay
  <2> HIDE DEF m
  <2>3. /\ Len(got) \in Nat /\ Len(got') = Len(got) + 1 /\ got'[Len(got) + 1] = m
        /\ \A i \in 1..Len(got) : got'[i] = got[i] /\ got[i] \in Nat
    BY <1>1, <1>9, <2>1, AppendIs DEF m
  <2>4. \A i \in 1..Len(got') : i \in 1..Len(got) \/ i = Len(got) + 1
    BY <2>3
  <2>5. Arrived'
    <3>1. ASSUME NEW i \in 1..Len(got')
          PROVE  got'[i] <= sent /\ \A f \in OnTheWay' : f.at = 1 => got'[i] < f.msg
      <4>1. CASE i \in 1..Len(got)
        BY <1>5, <2>3, <4>1 DEF Order, Arrived
      <4>2. CASE i = Len(got) + 1
        BY <2>1, <2>2, <2>3, <4>2
      <4> QED BY <2>4, <4>1, <4>2
    <3>2. \A f \in OnTheWay' : f.msg <= sent
      BY <1>5 DEF Order, Arrived
    <3> QED BY <1>1, <3>1, <3>2 DEF Arrived
  <2>6. InOrder'
    <3> SUFFICES ASSUME NEW i \in 1..Len(got'), NEW j \in 1..Len(got'), i < j
                 PROVE  got'[i] < got'[j]
      BY DEF InOrder
    <3>1. i \in 1..Len(got)
      BY <2>3
    <3>2. CASE j \in 1..Len(got)
      BY <2>3, <3>1, <3>2 DEF Order, InOrder
    <3>3. CASE j = Len(got) + 1
      BY <2>1, <2>3, <3>1, <3>3
    <3> QED BY <2>4, <3>2, <3>3
  <2> QED BY <1>6, <2>5, <2>6
<1> QED BY <1>7, <1>8, <1>9

LEMMA InitOrder == Init => Order
<1> SUFFICES ASSUME Init PROVE Order
  OBVIOUS
<1>1. /\ queue = << >> /\ got = << >> /\ left = << >> /\ uart_in = << >> /\ r = << >>
      /\ serial_buf = << >>
  BY DEF Init
<1>2. OnTheWay = {} /\ Coming = {}
  BY <1>1, ElemsEmpty DEF OnTheWay, Coming
<1> QED BY <1>1, <1>2, InitCounted, ElemsEmpty DEF Order, Ordered, Arrived, InOrder, Before

LEMMA NextOrder == Order /\ [Next]_vars => Order'
<1> SUFFICES ASSUME Order, [Next]_vars PROVE Ordered' /\ Arrived' /\ InOrder'
  BY NextCounted DEF Order
<1>1. Rising(uart_in) /\ Rising(left) /\ uart_in \in Seq(Fragments)
  BY DEF Order, Ordered, Counted, Typed
<1>2. CASE RxFlush
  BY <1>1, <1>2, LessOnTheWay, ElemsEmpty DEF RxFlush
<1>3. CASE RxDiscard
  <2>1. uart_in # << >> /\ uart_in' = Tail(uart_in) /\ r' = << >>
    BY <1>3 DEF RxDiscard
  <2>2. Elems(uart_in') \subseteq Elems(uart_in) /\ Rising(uart_in')
    BY <1>1, <2>1, ElemsTail
  <2> QED BY <1>1, <1>3, <2>2, LessOnTheWay, ElemsEmpty DEF RxDiscard
<1>4. CASE RxIndicate \/ ReadTake \/ Open \/ UNCHANGED vars
  BY <1>1, <1>4, LessOnTheWay DEF RxIndicate, ReadTake, Open, vars
<1>5. CASE Close
  BY <1>1, <1>5, LessOnTheWay DEF Close
<1> QED
  BY <1>2, <1>3, <1>4, <1>5, SlaveBeginOrder, SlaveSendOrder, RxFragmentOrder, RxLastOrder,
     RxEnqueueOrder, ReadRecvOrder DEF Next, RxTask, Reader

\* The messages the RPC receive thread gets whole were sent in that order and each of them once,
\* whatever was lost, spliced or discarded on the way.
THEOREM ArrivalInOrder == Spec => []InOrder
<1>1. Order => InOrder
  BY DEF Order
<1> QED BY <1>1, InitOrder, NextOrder, PTL DEF Spec

-----------------------------------------------------------------------------
(* What a loss can spoil.                                                  *)

\* The fragment behind one that is not the last of its message.
Following(f) == [msg |-> f.msg, at |-> f.at + 1, of |-> f.of]

\* What the co-processor has sent and the host has not read is without a gap.
Unbroken ==
    /\ \A i \in 1..Len(left) : More(left[i]) => i < Len(left) /\ left[i + 1] = Following(left[i])
    /\ \A i \in 1..Len(uart_in) : More(uart_in[i]) =>
            IF i < Len(uart_in) THEN uart_in[i + 1] = Following(uart_in[i])
            ELSE left # << >> /\ left[1] = Following(uart_in[i])

\* The next fragment to come in is f.
Expected(f) ==
    \/ uart_in # << >> /\ uart_in[1] = f
    \/ uart_in = << >> /\ left # << >> /\ left[1] = f

\* The front of one message.
Piece(s) == \A i \in 1..Len(s) : s[i] = [msg |-> s[1].msg, at |-> i, of |-> s[1].of]

\* A message has begun in r and will not be whole.
Torn == r # << >> /\ r[1].at = 1 /\ ~(Piece(r) /\ Expected(Following(r[Len(r)])))

\* The receive thread would take this for a message, and no one has sent it.
Bad(s) == s # << >> /\ Parsed(s) # << >> /\ ~Whole(Parsed(s))

Pending == (IF Bad(serial_buf) THEN 1 ELSE 0) + (IF Torn THEN 1 ELSE 0)

\* Every bad message in the queue can be charged to a loss of its own, with k losses left over.
Charged(k) ==
    /\ spoiled + k <= losses
    /\ \E c \in [1..Len(queue) -> Nat] :
        /\ \A i \in 1..Len(queue) : Bad(queue[i]) => spoiled < c[i] /\ c[i] + k <= losses
        /\ \A i, j \in 1..Len(queue) : i < j /\ Bad(queue[i]) /\ Bad(queue[j]) => c[i] < c[j]

Spoils == Counted /\ Unbroken /\ Charged(Pending)

LEMMA InitSpoils == Init => Spoils
<1> SUFFICES ASSUME Init PROVE Spoils
  OBVIOUS
<1>1. /\ queue = << >> /\ left = << >> /\ uart_in = << >> /\ r = << >> /\ serial_buf = << >>
      /\ spoiled = 0 /\ losses = 0
  BY DEF Init
<1>2. Pending = 0
  BY <1>1 DEF Pending, Torn, Bad
<1>3. Charged(0)
  <2> DEFINE c == [i \in 1..Len(queue) |-> 0]
  <2>1. c \in [1..Len(queue) -> Nat]
    OBVIOUS
  <2>2. 1..Len(queue) = {}
    BY <1>1
  <2>3. 0 + 0 <= 0
    OBVIOUS
  <2> HIDE DEF c
  <2> QED BY <1>1, <2>1, <2>2, <2>3 DEF Charged
<1> QED BY <1>1, <1>2, <1>3, InitCounted DEF Spoils, Unbroken

LEMMA PendingNat == Pending \in {0, 1, 2}
BY DEF Pending

LEMMA Spare ==
    \A a, b, d, j, k \in Nat : a + k <= b /\ b + j <= d + k => a + j <= d
OBVIOUS

\* A step that leaves the queue alone, with at least as many losses to spare.
LEMMA ChargeKept ==
    ASSUME Counted, Counted', NEW k \in Nat, Charged(k), NEW j \in Nat,
           UNCHANGED <<queue, spoiled>>, losses + j <= losses' + k
    PROVE  Charged(j)'
<1>1. losses \in Nat /\ losses' \in Nat /\ spoiled \in Nat /\ queue' = queue /\ spoiled' = spoiled
  BY DEF Counted, Typed
<1>2. PICK c \in [1..Len(queue) -> Nat] :
        /\ \A i \in 1..Len(queue) : Bad(queue[i]) => spoiled < c[i] /\ c[i] + k <= losses
        /\ \A i, l \in 1..Len(queue) : i < l /\ Bad(queue[i]) /\ Bad(queue[l]) => c[i] < c[l]
  BY DEF Charged
<1>3. \A i \in 1..Len(queue) : c[i] \in Nat /\ (c[i] + k <= losses => c[i] + j <= losses')
  BY <1>1, Spare
<1>4. \A i \in 1..Len(queue) : Bad(queue[i]) => spoiled < c[i] /\ c[i] + j <= losses'
  BY <1>2, <1>3
<1>5. spoiled + j <= losses'
  BY <1>1, Spare DEF Charged
<1> QED BY <1>1, <1>2, <1>4, <1>5 DEF Charged

\* The stream stays without a gap.
LEMMA NextUnbroken ==
    ASSUME Counted, Unbroken, [Next]_vars
    PROVE  Unbroken'
<1>1. left \in Seq(Fragments) /\ uart_in \in Seq(Fragments) /\ sent \in Nat
  BY DEF Counted, Typed
<1>2. ASSUME NEW n \in 1..MaxFragments, SlaveBegin(n) PROVE Unbroken'
  <2>1. n \in Nat /\ left = << >> /\ left' = Fragmented(sent + 1, n) /\ uart_in' = uart_in
    BY <1>2, DownlinkAssumption DEF SlaveBegin
  <2>2. /\ Len(left') = n
        /\ \A i \in 1..n : left'[i] = [msg |-> sent + 1, at |-> i, of |-> n]
    <3>1. sent + 1 \in Nat
      BY <1>1
    <3> QED BY <2>1, <3>1, FragmentedIs
  <2>3. ASSUME NEW i \in 1..Len(left'), More(left'[i])
        PROVE  i < Len(left') /\ left'[i + 1] = Following(left'[i])
    <3>1. i < n
      <4>1. i \in 1..n /\ left'[i].at = i /\ left'[i].of = n
        BY <2>2
      <4> QED BY <2>3, <4>1 DEF More
    <3>2. i + 1 \in 1..n
      BY <2>1, <2>2, <3>1
    <3> QED BY <2>2, <3>1, <3>2 DEF Following
  <2>4. \A i \in 1..Len(uart_in) : More(uart_in[i])
           => i < Len(uart_in) /\ uart_in[i + 1] = Following(uart_in[i])
    BY <2>1 DEF Unbroken
  <2> QED BY <2>1, <2>3, <2>4 DEF Unbroken
<1>3. CASE SlaveSend
  <2>1. left # << >> /\ uart_in' = Append(uart_in, left[1]) /\ left' = Tail(left)
        /\ left[1] \in Fragments
    BY <1>1, <1>3, TailIs DEF SlaveSend
  <2>2. /\ Len(left) \in Nat \ {0} /\ Len(left') = Len(left) - 1
        /\ \A i \in 1..(Len(left) - 1) : left'[i] = left[i + 1]
    BY <1>1, <2>1, TailIs
  <2>3. /\ Len(uart_in) \in Nat /\ Len(uart_in') = Len(uart_in) + 1
        /\ uart_in'[Len(uart_in) + 1] = left[1]
        /\ \A i \in 1..Len(uart_in) : uart_in'[i] = uart_in[i]
    BY <1>1, <2>1, AppendIs
  <2>4. \A i \in 1..Len(left) : More(left[i]) => i < Len(left) /\ left[i + 1] = Following(left[i])
    BY DEF Unbroken
  <2>5. ASSUME NEW i \in 1..Len(left'), More(left'[i])
        PROVE  i < Len(left') /\ left'[i + 1] = Following(left'[i])
    <3>1. i + 1 \in 1..Len(left) /\ left'[i] = left[i + 1]
      BY <2>2
    <3>2. i + 1 < Len(left) /\ left[i + 2] = Following(left[i + 1])
      BY <2>4, <2>5, <3>1
    <3> QED BY <2>2, <3>1, <3>2
  <2>6. ASSUME NEW i \in 1..Len(uart_in'), More(uart_in'[i])
        PROVE  IF i < Len(uart_in') THEN uart_in'[i + 1] = Following(uart_in'[i])
               ELSE left' # << >> /\ left'[1] = Following(uart_in'[i])
    <3>1. CASE i = Len(uart_in) + 1
      <4>1. 1 < Len(left) /\ left[2] = Following(left[1])
        BY <2>2, <2>3, <2>4, <2>6, <3>1
      <4>2. left' # << >> /\ left'[1] = left[2]
        BY <2>2, <4>1
      <4> QED BY <2>3, <3>1, <4>1, <4>2
    <3>2. CASE i = Len(uart_in)
      <4>1. left[1] = Following(uart_in[i])
        BY <2>3, <2>6, <3>2 DEF Unbroken
      <4> QED BY <2>3, <2>6, <3>2, <4>1
    <3>3. CASE i < Len(uart_in)
      <4>1. uart_in[i + 1] = Following(uart_in[i])
        BY <2>3, <2>6, <3>3 DEF Unbroken
      <4> QED BY <2>3, <2>6, <3>3, <4>1
    <3> QED BY <2>3, <3>1, <3>2, <3>3
  <2> QED BY <2>5, <2>6 DEF Unbroken
<1>4. CASE RxFlush
  <2>1. uart_in' = << >> /\ left' = left
    BY <1>4 DEF RxFlush
  <2> QED BY <2>1 DEF Unbroken
<1>5. CASE RxDiscard \/ RxFragment \/ RxLast
  <2>1. uart_in # << >> /\ uart_in' = Tail(uart_in) /\ left' = left
    BY <1>5 DEF RxDiscard, RxFragment, RxLast
  <2>2. /\ Len(uart_in) \in Nat \ {0} /\ Len(uart_in') = Len(uart_in) - 1
        /\ \A i \in 1..(Len(uart_in) - 1) : uart_in'[i] = uart_in[i + 1]
    BY <1>1, <2>1, TailIs
  <2>3. ASSUME NEW i \in 1..Len(uart_in'), More(uart_in'[i])
        PROVE  IF i < Len(uart_in') THEN uart_in'[i + 1] = Following(uart_in'[i])
               ELSE left # << >> /\ left[1] = Following(uart_in'[i])
    <3>1. i + 1 \in 1..Len(uart_in) /\ uart_in'[i] = uart_in[i + 1]
      BY <2>2
    <3>2. IF i + 1 < Len(uart_in) THEN uart_in[i + 2] = Following(uart_in[i + 1])
          ELSE left # << >> /\ left[1] = Following(uart_in[i + 1])
      BY <2>3, <3>1 DEF Unbroken
    <3>3. CASE i < Len(uart_in')
      BY <2>2, <3>1, <3>2, <3>3
    <3>4. CASE ~(i < Len(uart_in'))
      BY <2>2, <3>1, <3>2, <3>4
    <3> QED BY <3>3, <3>4
  <2> QED BY <2>1, <2>3 DEF Unbroken
<1>6. CASE UNCHANGED <<uart_in, left>>
  BY <1>6 DEF Unbroken
<1> QED
  BY <1>2, <1>3, <1>4, <1>5, <1>6
     DEF Next, RxTask, Reader, RxEnqueue, RxIndicate, ReadTake, ReadRecv, Close, Open, vars

LEMMA PieceIsWhole ==
    ASSUME NEW s \in Seq(Fragments), s # << >>, Piece(s), Parsed(s) # << >>
    PROVE  Whole(Parsed(s))
<1> DEFINE n == s[1].of
           m == s[1].msg
           p == Parsed(s)
<1>1. /\ s[1] \in Fragments /\ n \in 1..Len(s) /\ p \in Seq(Fragments) /\ Len(p) = n
      /\ \A i \in 1..n : p[i] = s[i]
  BY ParsedIs, TailIs
<1>2. m \in Nat /\ n \in Nat
  BY <1>1 DEF Fragments
<1>3. /\ Fragmented(m, n) \in Seq(Fragments) /\ Len(Fragmented(m, n)) = n
      /\ \A i \in 1..n : Fragmented(m, n)[i] = [msg |-> m, at |-> i, of |-> n]
  BY <1>2, FragmentedIs
<1>4. \A i \in 1..Len(s) : s[i] = [msg |-> m, at |-> i, of |-> n]
  BY DEF Piece
<1>5. Head(p).msg = m
  <2>1. Head(p) = p[1] /\ 1 \in 1..n
    BY <1>1, TailIs
  <2> QED BY <1>1, <2>1
<1> HIDE DEF n, m, p
<1>6. \A i \in 1..n : i \in 1..Len(s) /\ p[i] = Fragmented(m, n)[i]
  BY <1>1, <1>3, <1>4
<1>7. p = Fragmented(m, n)
  BY <1>1, <1>2, <1>3, <1>6
<1> QED BY <1>1, <1>5, <1>7 DEF Whole, p

\* A piece and the fragment that follows it are a piece.
LEMMA PieceGrows ==
    ASSUME NEW s \in Seq(Fragments), s # << >>, Piece(s)
    PROVE  Piece(Append(s, Following(s[Len(s)])))
<1> DEFINE n == Len(s)
           x == Following(s[n])
           a == Append(s, x)
<1>1. n \in Nat \ {0} /\ s[1] \in Fragments /\ s[n] \in Fragments
  BY TailIs
<1>2. x \in Fragments
  BY <1>1 DEF Following, Fragments
<1>3. Len(a) = n + 1 /\ a[n + 1] = x /\ \A i \in 1..n : a[i] = s[i]
  BY <1>2, AppendIs
<1>4. \A i \in 1..n : s[i] = [msg |-> s[1].msg, at |-> i, of |-> s[1].of]
  BY DEF Piece
<1>5. x = [msg |-> s[1].msg, at |-> n + 1, of |-> s[1].of]
  <2>1. s[n].msg = s[1].msg /\ s[n].at = n /\ s[n].of = s[1].of
    <3>1. n \in 1..n
      BY <1>1
    <3>2. s[n] = [msg |-> s[1].msg, at |-> n, of |-> s[1].of]
      BY <1>4, <3>1
    <3> QED BY <3>2
  <2> QED BY <2>1 DEF Following
<1> HIDE DEF n, x
<1>6. a[1] = s[1]
  BY <1>1, <1>3
<1>7. \A i \in 1..(n + 1) : a[i] = [msg |-> s[1].msg, at |-> i, of |-> s[1].of]
  BY <1>1, <1>3, <1>4, <1>5
<1>8. Piece(a)
  BY <1>3, <1>6, <1>7 DEF Piece
<1> QED BY <1>8 DEF n, x

LEMMA OnePiece ==
    ASSUME NEW h \in Fragments, h.at = 1
    PROVE  Piece(Append(<< >>, h))
<1>1. << >> \in Seq(Fragments)
  OBVIOUS
<1>2. Len(Append(<< >>, h)) = 1 /\ Append(<< >>, h)[1] = h
  BY <1>1
<1>3. h = [msg |-> h.msg, at |-> 1, of |-> h.of]
  BY DEF Fragments
<1> QED BY <1>2, <1>3 DEF Piece

\* Reading a fragment tears no message: what follows it is what comes next.
LEMMA RxFragmentTorn ==
    ASSUME Counted, Unbroken, RxFragment, Torn'
    PROVE  Torn
<1> SUFFICES ASSUME ~Torn PROVE FALSE
  OBVIOUS
<1> DEFINE h == uart_in[1]
<1>1. /\ uart_in # << >> /\ uart_in \in Seq(Fragments) /\ r \in Seq(Fragments)
      /\ left \in Seq(Fragments) /\ Head(uart_in) = h /\ h \in Fragments /\ More(h)
      /\ r' = Append(r, h) /\ uart_in' = Tail(uart_in) /\ left' = left
  BY TailIs DEF Counted, Typed, RxFragment
<1>2. /\ Len(uart_in) \in Nat \ {0} /\ Len(uart_in') = Len(uart_in) - 1
      /\ \A i \in 1..(Len(uart_in) - 1) : uart_in'[i] = uart_in[i + 1]
  BY <1>1, TailIs
<1>3. IF 1 < Len(uart_in) THEN uart_in[2] = Following(h)
      ELSE left # << >> /\ left[1] = Following(h)
  BY <1>1, <1>2 DEF Unbroken
<1>4. Len(r) \in Nat /\ Len(r') = Len(r) + 1 /\ r'[Len(r')] = h
      /\ \A i \in 1..Len(r) : r'[i] = r[i]
  BY <1>1, AppendIs
<1> HIDE DEF h
<1>5. Expected(Following(r[Len(r)]))'
  <2>1. CASE 1 < Len(uart_in)
    <3>1. uart_in' # << >> /\ uart_in'[1] = Following(h)
      BY <1>2, <1>3, <2>1
    <3> QED BY <3>1, <1>4 DEF Expected
  <2>2. CASE ~(1 < Len(uart_in))
    <3>1. Len(uart_in') = 0 /\ uart_in' \in Seq(Fragments)
      BY <1>1, <1>2, <2>2, TailIs
    <3>2. uart_in' = << >>
      BY <3>1
    <3>3. left' # << >> /\ left'[1] = Following(h)
      BY <1>1, <1>3, <2>2
    <3> QED BY <3>2, <3>3, <1>4 DEF Expected
  <2> QED BY <2>1, <2>2
<1>6. r'[1].at = 1 /\ ~Piece(r')
  BY <1>5 DEF Torn
<1>7. CASE r = << >>
  <2>1. r' = Append(<< >>, h) /\ r'[1] = h
    BY <1>1, <1>4, <1>7
  <2> QED BY <1>1, <1>6, <2>1, OnePiece
<1>8. CASE r # << >>
  <2>1. r'[1] = r[1]
    BY <1>1, <1>4, <1>8
  <2>2. Piece(r) /\ Expected(Following(r[Len(r)]))
    BY <1>6, <1>8, <2>1 DEF Torn
  <2>3. h = Following(r[Len(r)])
    BY <1>1, <2>2 DEF Expected, h
  <2> QED BY <1>1, <1>6, <1>8, <2>2, <2>3, PieceGrows
<1> QED BY <1>7, <1>8

\* A message that is queued and not whole was torn before.
LEMMA RxLastBad ==
    ASSUME Counted, RxLast, Bad(serial_buf')
    PROVE  Torn
<1> SUFFICES ASSUME ~Torn PROVE FALSE
  OBVIOUS
<1> DEFINE h == uart_in[1]
<1>1. /\ uart_in # << >> /\ r \in Seq(Fragments) /\ h \in Fragments
      /\ serial_buf' = Append(r, h)
  BY TailIs DEF Counted, Typed, RxLast
<1>2. /\ serial_buf' \in Seq(Fragments) /\ serial_buf' # << >>
      /\ Parsed(serial_buf') # << >> /\ ~Whole(Parsed(serial_buf'))
      /\ Len(r) \in Nat /\ serial_buf'[Len(r) + 1] = h
      /\ \A i \in 1..Len(r) : serial_buf'[i] = r[i]
  BY <1>1, AppendIs DEF Bad
<1>3. serial_buf'[1].at = 1 /\ ~Piece(serial_buf')
  BY <1>2, ParsedIs, PieceIsWhole
<1>4. CASE r = << >>
  <2>1. serial_buf' = Append(<< >>, h) /\ serial_buf'[1] = h
    BY <1>1, <1>2, <1>4
  <2> QED BY <1>1, <1>3, <2>1, OnePiece
<1>5. CASE r # << >>
  <2>1. serial_buf'[1] = r[1]
    BY <1>1, <1>2, <1>5
  <2>2. Piece(r) /\ Expected(Following(r[Len(r)]))
    BY <1>3, <1>5, <2>1 DEF Torn
  <2>3. h = Following(r[Len(r)])
    BY <1>1, <2>2 DEF Expected
  <2> QED BY <1>1, <1>3, <1>5, <2>2, <2>3, PieceGrows
<1> QED BY <1>4, <1>5

\* Only throwing input away tears a message.
LEMMA NextTorn ==
    ASSUME Counted, Unbroken, [Next]_vars, ~RxFlush, Torn'
    PROVE  Torn
<1> USE DEF Torn
<1>1. left \in Seq(Fragments) /\ uart_in \in Seq(Fragments)
  BY DEF Counted, Typed
<1>2. ASSUME NEW n \in 1..MaxFragments, SlaveBegin(n) PROVE Torn
  <2>1. left = << >> /\ uart_in' = uart_in /\ r' = r
    BY <1>2 DEF SlaveBegin
  <2>2. ASSUME NEW f, Expected(f) PROVE Expected(f)'
    BY <2>1, <2>2 DEF Expected
  <2> QED BY <2>1, <2>2
<1>3. CASE SlaveSend
  <2>1. left # << >> /\ uart_in' = Append(uart_in, left[1]) /\ r' = r /\ left[1] \in Fragments
    BY <1>1, <1>3, TailIs DEF SlaveSend
  <2>2. /\ Len(uart_in) \in Nat /\ Len(uart_in') = Len(uart_in) + 1 /\ uart_in' # << >>
        /\ uart_in'[Len(uart_in) + 1] = left[1]
        /\ \A i \in 1..Len(uart_in) : uart_in'[i] = uart_in[i]
    BY <1>1, <2>1, AppendIs
  <2>3. ASSUME NEW f, Expected(f) PROVE Expected(f)'
    <3>1. CASE uart_in = << >>
      BY <2>2, <2>3, <3>1 DEF Expected
    <3>2. CASE uart_in # << >>
      <4>1. uart_in'[1] = uart_in[1]
        BY <1>1, <2>2, <3>2
      <4> QED BY <2>2, <2>3, <3>2, <4>1 DEF Expected
    <3> QED BY <3>1, <3>2
  <2> QED BY <2>1, <2>3
<1>4. CASE RxDiscard \/ RxLast
  BY <1>4 DEF RxDiscard, RxLast
<1>5. CASE RxFragment
  BY <1>5, RxFragmentTorn
<1>6. CASE UNCHANGED <<uart_in, left, r>>
  BY <1>6 DEF Expected
<1> QED
  BY <1>2, <1>3, <1>4, <1>5, <1>6
     DEF Next, RxTask, Reader, RxEnqueue, RxIndicate, ReadTake, ReadRecv, Close, Open, vars

\* A bad message that is queued takes the charge that was pending for it.
LEMMA RxEnqueueCharged ==
    ASSUME Counted, Charged(Pending), RxEnqueue
    PROVE  Charged(Pending)'
<1> SUFFICES ASSUME NEW k \in Nat, k = IF Torn THEN 1 ELSE 0 PROVE Charged(Pending)'
  <2>1. (IF Torn THEN 1 ELSE 0) \in Nat
    OBVIOUS
  <2> QED BY <2>1
<1>1. /\ queue \in Seq(Seq(Fragments)) /\ serial_buf \in Seq(Fragments)
      /\ queue' = Append(queue, serial_buf) /\ serial_buf' = << >>
      /\ UNCHANGED <<left, uart_in, r, spoiled, losses>> /\ spoiled \in Nat /\ losses \in Nat
  BY DEF Counted, Typed, RxEnqueue
<1>2. /\ Len(queue) \in Nat /\ Len(queue') = Len(queue) + 1
      /\ queue'[Len(queue) + 1] = serial_buf
      /\ \A i \in 1..Len(queue) : queue'[i] = queue[i]
  BY <1>1, AppendIs
<1>3. Pending' = k
  <2>1. Torn' <=> Torn
    BY <1>1 DEF Torn, Expected
  <2>2. ~Bad(serial_buf)'
    BY <1>1 DEF Bad
  <2> QED BY <2>1, <2>2 DEF Pending
<1> DEFINE n == Len(queue)
           b == IF Bad(serial_buf) THEN 1 ELSE 0
<1>4. Pending = b + k /\ b \in Nat
  BY DEF Pending
<1>5. spoiled + (b + k) <= losses
  BY <1>4 DEF Charged
<1>6. PICK c \in [1..n -> Nat] :
        /\ \A i \in 1..n : Bad(queue[i]) => spoiled < c[i] /\ c[i] + (b + k) <= losses
        /\ \A i, j \in 1..n : i < j /\ Bad(queue[i]) /\ Bad(queue[j]) => c[i] < c[j]
  BY <1>4 DEF Charged
<1> DEFINE d == [i \in 1..(n + 1) |-> IF i = n + 1 THEN losses - k ELSE c[i]]
<1>7. b = 1 <=> Bad(serial_buf)
  OBVIOUS
<1>8. n \in Nat /\ spoiled \in Nat /\ losses \in Nat /\ losses - k \in Nat
  BY <1>1, <1>2, <1>4, <1>5
<1> HIDE DEF b, n
<1>9. d \in [1..(n + 1) -> Nat]
  BY <1>8
<1>10. /\ d[n + 1] = losses - k
       /\ \A i \in 1..n : d[i] = c[i] /\ c[i] \in Nat
  BY <1>8
<1>11. \A i \in 1..(n + 1) : i \in 1..n \/ i = n + 1
  BY <1>8
<1>12. /\ queue'[n + 1] = serial_buf /\ Len(queue') = n + 1
       /\ \A i \in 1..n : queue'[i] = queue[i]
  BY <1>2 DEF n
<1> HIDE DEF d
<1>13. ASSUME NEW i \in 1..(n + 1), Bad(queue'[i])
       PROVE  spoiled < d[i] /\ d[i] + k <= losses
  <2>1. CASE i \in 1..n
    <3>1. spoiled < c[i] /\ c[i] + (b + k) <= losses
      BY <1>6, <1>12, <1>13, <2>1
    <3> QED BY <1>4, <1>8, <1>10, <2>1, <3>1
  <2>2. CASE i = n + 1
    <3>1. b = 1
      BY <1>7, <1>12, <1>13, <2>2
    <3> QED BY <1>5, <1>8, <1>10, <2>2, <3>1
  <2> QED BY <1>11, <2>1, <2>2
<1>14. ASSUME NEW i \in 1..(n + 1), NEW j \in 1..(n + 1), i < j, Bad(queue'[i]), Bad(queue'[j])
       PROVE  d[i] < d[j]
  <2>1. i \in 1..n
    BY <1>8, <1>14
  <2>2. CASE j \in 1..n
    BY <1>6, <1>10, <1>12, <1>14, <2>1, <2>2
  <2>3. CASE j = n + 1
    <3>1. b = 1 /\ c[i] + (b + k) <= losses /\ c[i] \in Nat /\ d[i] = c[i] /\ d[j] = losses - k
      BY <1>6, <1>7, <1>10, <1>12, <1>14, <2>1, <2>3
    <3> QED BY <1>8, <3>1
  <2> QED BY <1>11, <2>2, <2>3
<1>15. spoiled' + k <= losses'
  BY <1>1, <1>4, <1>5, <1>8
<1>16. Charged(k)'
  BY <1>1, <1>9, <1>12, <1>13, <1>14, <1>15 DEF Charged
<1> QED BY <1>3, <1>16 DEF Charged

\* A bad message that the thread is given is paid for by its own loss.
LEMMA ReadRecvCharged ==
    ASSUME Counted, Charged(Pending), ReadRecv
    PROVE  Charged(Pending)'
<1> SUFFICES ASSUME NEW k \in Nat, k = Pending PROVE Charged(Pending)'
  BY PendingNat
<1>1. /\ queue # << >> /\ queue \in Seq(Seq(Fragments)) /\ queue' = Tail(queue)
      /\ UNCHANGED <<left, uart_in, r, serial_buf, losses>> /\ spoiled \in Nat /\ losses \in Nat
  BY DEF Counted, Typed, ReadRecv
<1>2. Pending' = k
  BY <1>1 DEF Pending, Torn, Expected, Bad
<1> DEFINE n == Len(queue) - 1
<1>3. /\ Head(queue) = queue[1] /\ Len(queue) = n + 1 /\ n \in Nat /\ Len(queue') = n
      /\ \A i \in 1..n : queue'[i] = queue[i + 1]
  BY <1>1, TailIs
<1>4. queue[1] # << >>
  BY <1>1, <1>3 DEF Counted, Filled
<1>5. spoiled' = IF Bad(queue[1]) THEN spoiled + 1 ELSE spoiled
  BY <1>3, <1>4 DEF ReadRecv, Bad
<1> HIDE DEF n
<1>6. spoiled + k <= losses
  BY DEF Charged
<1>7. PICK c \in [1..(n + 1) -> Nat] :
        /\ \A i \in 1..(n + 1) : Bad(queue[i]) => spoiled < c[i] /\ c[i] + k <= losses
        /\ \A i, j \in 1..(n + 1) : i < j /\ Bad(queue[i]) /\ Bad(queue[j]) => c[i] < c[j]
  BY <1>3 DEF Charged
<1> DEFINE d == [i \in 1..n |-> c[i + 1]]
<1>8. \A i \in 1..n : i + 1 \in 1..(n + 1) /\ 1 \in 1..(n + 1) /\ 1 < i + 1
  BY <1>3
<1>9. d \in [1..n -> Nat] /\ \A i \in 1..n : d[i] = c[i + 1] /\ d[i] \in Nat
  BY <1>8
<1> HIDE DEF d
<1>10. 1 \in 1..(n + 1) /\ c[1] \in Nat
  BY <1>3
<1>11. ASSUME NEW i \in 1..n, Bad(queue'[i]) PROVE spoiled' < d[i] /\ d[i] + k <= losses
  <2>1. queue'[i] = queue[i + 1] /\ d[i] = c[i + 1] /\ d[i] \in Nat /\ i + 1 \in 1..(n + 1)
    BY <1>3, <1>8, <1>9
  <2>2. spoiled < d[i] /\ d[i] + k <= losses
    BY <1>7, <1>11, <2>1
  <2>3. CASE Bad(queue[1])
    <3>1. spoiled < c[1] /\ c[1] < d[i]
      BY <1>7, <1>8, <1>10, <1>11, <2>1, <2>3
    <3>2. spoiled' = spoiled + 1
      BY <1>5, <2>3
    <3> QED BY <1>1, <1>10, <2>1, <2>2, <3>1, <3>2
  <2>4. CASE ~Bad(queue[1])
    BY <1>5, <2>2, <2>4
  <2> QED BY <2>3, <2>4
<1>12. ASSUME NEW i \in 1..n, NEW j \in 1..n, i < j, Bad(queue'[i]), Bad(queue'[j])
       PROVE  d[i] < d[j]
  <2>1. /\ queue'[i] = queue[i + 1] /\ d[i] = c[i + 1] /\ i + 1 \in 1..(n + 1)
        /\ queue'[j] = queue[j + 1] /\ d[j] = c[j + 1] /\ j + 1 \in 1..(n + 1)
        /\ i + 1 < j + 1
    BY <1>3, <1>8, <1>9, <1>12
  <2> QED BY <1>7, <1>12, <2>1
<1>13. spoiled' + k <= losses
  <2>1. CASE Bad(queue[1])
    <3>1. spoiled < c[1] /\ c[1] + k <= losses /\ spoiled' = spoiled + 1
      BY <1>5, <1>7, <1>10, <2>1
    <3> QED BY <1>1, <1>10, <3>1
  <2>2. CASE ~Bad(queue[1])
    BY <1>5, <1>6, <2>2
  <2> QED BY <2>1, <2>2
<1>14. Charged(k)'
  BY <1>1, <1>3, <1>9, <1>11, <1>12, <1>13 DEF Charged
<1> QED BY <1>2, <1>14 DEF Charged

LEMMA CloseCharged ==
    ASSUME Counted, Charged(Pending), Close
    PROVE  Charged(Pending)'
<1>1. /\ queue' = << >> /\ r = << >> /\ UNCHANGED <<r, serial_buf, losses, spoiled>>
      /\ spoiled \in Nat /\ losses \in Nat
  BY DEF Counted, Typed, Close
<1>2. Pending' = IF Bad(serial_buf) THEN 1 ELSE 0
  BY <1>1 DEF Pending, Torn, Bad
<1>3. spoiled' + Pending' <= losses'
  <2>1. Pending' <= Pending /\ Pending \in Nat /\ Pending' \in Nat
    BY <1>2 DEF Pending
  <2>2. spoiled + Pending <= losses
    BY DEF Charged
  <2>3. \A a, b, d, e \in Nat : a + b <= e /\ d <= b => a + d <= e
    OBVIOUS
  <2>4. spoiled' = spoiled /\ losses' = losses
    BY <1>1
  <2> QED BY <1>1, <2>1, <2>2, <2>3, <2>4
<1> DEFINE c == [i \in 1..Len(queue') |-> 0]
<1>4. c \in [1..Len(queue') -> Nat] /\ 1..Len(queue') = {}
  BY <1>1
<1> HIDE DEF c
<1> QED BY <1>3, <1>4 DEF Charged

LEMMA NextCharged ==
    ASSUME Counted, Counted', Unbroken, Charged(Pending), [Next]_vars
    PROVE  Charged(Pending)'
<1> SUFFICES ASSUME NEW k \in Nat, k = Pending, NEW j \in Nat, j = Pending'
             PROVE  Charged(Pending)'
  <2>1. Pending \in Nat /\ Pending' \in Nat
    BY DEF Pending
  <2> QED BY <2>1
<1>1. losses \in Nat /\ losses' \in Nat
  BY DEF Counted, Typed
<1>2. Charged(j)' => Charged(Pending)'
  BY DEF Charged
<1>3. CASE RxFlush
  <2>1. UNCHANGED <<queue, spoiled, serial_buf>> /\ losses' = losses + 1
    BY <1>3 DEF RxFlush
  <2>2. j <= k + 1
    BY <2>1 DEF Pending, Bad
  <2> QED BY <1>1, <1>2, <2>1, <2>2, ChargeKept
<1>4. CASE RxLast
  <2>1. UNCHANGED <<queue, spoiled, losses>> /\ r' = << >>
    BY <1>4 DEF RxLast
  <2>2. Bad(serial_buf)' => Torn
    BY <1>4, RxLastBad
  <2>3. ~Torn'
    BY <2>1 DEF Torn
  <2>4. j <= k
    BY <2>2, <2>3 DEF Pending
  <2> QED BY <1>1, <1>2, <2>1, <2>4, ChargeKept
<1>5. CASE ~RxFlush /\ UNCHANGED <<queue, spoiled, losses, serial_buf>>
  <2>1. Torn' => Torn
    BY <1>5, NextTorn
  <2>2. Bad(serial_buf)' <=> Bad(serial_buf)
    BY <1>5 DEF Bad
  <2>3. j <= k
    BY <2>1, <2>2 DEF Pending
  <2> QED BY <1>1, <1>2, <1>5, <2>3, ChargeKept
<1> QED
  BY <1>3, <1>4, <1>5, RxEnqueueCharged, ReadRecvCharged, CloseCharged
     DEF Next, RxTask, Reader, SlaveBegin, SlaveSend, RxDiscard, RxFragment, RxIndicate, ReadTake,
         Open, vars

LEMMA NextSpoils == Spoils /\ [Next]_vars => Spoils'
BY NextCounted, NextUnbroken, NextCharged DEF Spoils

\* Each time the RX task throws its input away, the RPC receive thread is given at most one
\* message more that no one has sent: every other splice is refused from the length that its
\* first fragment announces.
THEOREM LossBounded == Spec => []LossSpoilsOne
<1>1. Spoils => LossSpoilsOne
  <2> SUFFICES ASSUME Spoils PROVE spoiled <= losses
    BY DEF LossSpoilsOne
  <2>1. spoiled \in Nat /\ losses \in Nat /\ Pending \in Nat /\ spoiled + Pending <= losses
    BY PendingNat DEF Spoils, Counted, Typed, Charged
  <2> QED BY <2>1
<1> QED BY <1>1, InitSpoils, NextSpoils, PTL DEF Spec

=============================================================================
