-------------------------- MODULE PowerSaveProofs --------------------------
(***************************************************************************)
(* Sleep and wake-up, for any number of tasks that have packets for the    *)
(* host.                                                                   *)
(***************************************************************************)
EXTENDS PowerSave, TLAPS

\* The inductive invariant: what the host is doing tells which alert tasks of the
\* co-processor may be at work, and with them power_save_on.  The OFF alert is at
\* work only after a wake-up; a host about to sleep has an ON alert at work or has
\* been heard; one that is back has an OFF alert at work unless it could not be
\* sent.
None(S) == \A s \in S : alerts[s] = 0

Known ==
    /\ host \in {"up", "told", "cleared", "asleep", "booting"} => None({"off", "give"})
    /\ host \in {"told", "cleared"} /\ None({"take", "on"}) => power_save_on = TRUE
    /\ host \in {"asleep", "booting"} => None({"take", "on"}) /\ power_save_on = TRUE
    /\ host \in {"back", "initing"} => None({"take", "on"})
    /\ host \in {"back", "initing"} /\ misled = FALSE /\ None({"off"})
         => power_save_on = FALSE
    /\ host = "up" /\ misled = FALSE => None({"take", "on"}) /\ power_save_on = FALSE

IInv ==
    /\ alerts \in [Steps -> Nat]
    /\ power_save_on \in BOOLEAN /\ misled \in BOOLEAN
    /\ Known

LEMMA NoAlertsType == NoAlerts \in [Steps -> Nat] /\ \A s \in Steps : NoAlerts[s] = 0
BY DEF NoAlerts

LEMMA InitInv == Init => IInv
BY NoAlertsType DEF Init, IInv, Known, None, Steps

LEMMA NextInv == IInv /\ [Next]_vars => IInv'
<1> SUFFICES ASSUME IInv, [Next]_vars PROVE IInv'
  OBVIOUS
<1> USE NoAlertsType DEF IInv, Known, None, More, Less, Steps, hostvars, slavevars
<1>1. CASE TimerStart
  BY <1>1 DEF TimerStart
<1>2. CASE TimerStop
  BY <1>2 DEF TimerStop
<1>3. CASE Start
  BY <1>3 DEF Start
<1>4. CASE ClearIntr
  BY <1>4 DEF ClearIntr
<1>5. CASE StartFails
  BY <1>5 DEF StartFails
<1>6. CASE Sleep
  BY <1>6 DEF Sleep
<1>7. CASE Wake
  BY <1>7 DEF Wake
<1>8. CASE PowerSaveStop
  <2>1. CASE alerts' = More("off") /\ misled' = FALSE
    <3>1. alerts' \in [Steps -> Nat] /\ alerts'["off"] # 0
      BY <2>1
    <3>2. alerts'["take"] = 0 /\ alerts'["on"] = 0
      BY <1>8, <2>1 DEF PowerSaveStop
    <3> QED
      BY <1>8, <2>1, <3>1, <3>2 DEF PowerSaveStop
  <2>2. CASE misled' = TRUE /\ UNCHANGED alerts
    BY <1>8, <2>2 DEF PowerSaveStop
  <2> QED
    BY <1>8, <2>1, <2>2 DEF PowerSaveStop
<1>9. CASE InitEvent
  BY <1>9 DEF InitEvent
<1>10. CASE PowerSaveInit
  BY <1>10 DEF PowerSaveInit
<1>11. CASE GraceOver
  BY <1>11 DEF GraceOver
<1>12. CASE Isr
  BY <1>12 DEF Isr
<1>13. CASE AlertTake
  BY <1>13 DEF AlertTake
<1>14. CASE AlertOn
  BY <1>14 DEF AlertOn
<1>15. CASE AlertOff
  <2>1. alerts' \in [Steps -> Nat]
    BY <1>15 DEF AlertOff
  <2>2. alerts'["take"] = alerts["take"] /\ alerts'["on"] = alerts["on"]
    BY <1>15 DEF AlertOff
  <2>3. host \in {"back", "initing"} \/ host \notin {"up", "told", "cleared", "asleep", "booting"}
    BY <1>15 DEF AlertOff
  <2> QED
    BY <1>15, <2>1, <2>2, <2>3 DEF AlertOff
<1>16. CASE AlertGive
  BY <1>16 DEF AlertGive
<1>17. ASSUME NEW w \in Wakers, NeedHost(w) PROVE IInv'
  BY <1>17 DEF NeedHost, Waking
<1>18. ASSUME NEW w \in Wakers, Pulse(w) PROVE IInv'
  BY <1>18 DEF Pulse, Waking
<1>19. ASSUME NEW w \in Wakers, PulseEnds(w) PROVE IInv'
  BY <1>19 DEF PulseEnds, Waking
<1>20. ASSUME NEW w \in Wakers, WaitTimeout(w) PROVE IInv'
  BY <1>20 DEF WaitTimeout, Waking
<1>21. ASSUME NEW w \in Wakers, WaitTaken(w) PROVE IInv'
  BY <1>21 DEF WaitTaken, Waking
<1>22. ASSUME NEW w \in Wakers, WaitGive(w) PROVE IInv'
  BY <1>22 DEF WaitGive, Waking
<1>23. CASE UNCHANGED vars
  BY <1>23 DEF vars
<1> QED
  BY <1>1, <1>2, <1>3, <1>4, <1>5, <1>6, <1>7, <1>8, <1>9, <1>10, <1>11, <1>12, <1>13,
     <1>14, <1>15, <1>16, <1>17, <1>18, <1>19, <1>20, <1>21, <1>22, <1>23
     DEF Next, HostRuns, Alert, WakerRuns

LEMMA InvHolds == Spec => []IInv
BY InitInv, NextInv, PTL DEF Spec

\* Whoever may take or hold the semaphore after the ON alerts have taken it was there
\* when the last of them came.
Sealed ==
    /\ wpc \in [Wakers -> {"idle", "pulse", "pulsed", "wait", "taken"}]
    /\ raced \in BOOLEAN
    /\ host \in {"told", "cleared", "asleep", "booting"} /\ None({"take"}) /\ raced = FALSE
         => sem = 0 /\ ~Held

LEMMA InitSealed == Init => Sealed
BY DEF Init, Sealed, Held

LEMMA NextSealed == IInv /\ Sealed /\ [Next]_vars => Sealed'
<1> SUFFICES ASSUME IInv, Sealed, [Next]_vars PROVE Sealed'
  OBVIOUS
<1> USE NoAlertsType
    DEF IInv, Known, Sealed, Held, None, More, Less, Steps, hostvars, slavevars
<1>1. CASE TimerStart \/ TimerStop \/ ClearIntr \/ StartFails \/ Sleep \/ Wake
  BY <1>1 DEF TimerStart, TimerStop, ClearIntr, StartFails, Sleep, Wake
<1>2. CASE Start
  <2>1. CASE alerts' = More("take")
    <3> alerts'["take"] # 0
      BY <2>1
    <3> QED
      BY <1>2, <2>1 DEF Start
  <2> QED
    BY <1>2, <2>1 DEF Start
<1>3. CASE PowerSaveStop \/ InitEvent \/ PowerSaveInit \/ GraceOver
  BY <1>3 DEF PowerSaveStop, InitEvent, PowerSaveInit, GraceOver
<1>4. CASE Isr
  BY <1>4 DEF Isr
<1>5. CASE AlertTake
  BY <1>5 DEF AlertTake
<1>6. CASE AlertOn
  BY <1>6 DEF AlertOn
<1>7. CASE AlertOff
  BY <1>7 DEF AlertOff
<1>8. CASE AlertGive
  BY <1>8 DEF AlertGive
<1>9. ASSUME NEW w \in Wakers,
             NeedHost(w) \/ Pulse(w) \/ PulseEnds(w) \/ WaitTimeout(w)
      PROVE  Sealed'
  BY <1>9 DEF NeedHost, Pulse, PulseEnds, WaitTimeout, Waking
<1>10. ASSUME NEW w \in Wakers, WaitTaken(w) PROVE Sealed'
  BY <1>10 DEF WaitTaken, Waking
<1>11. ASSUME NEW w \in Wakers, WaitGive(w) PROVE Sealed'
  BY <1>11 DEF WaitGive, Waking
<1>12. CASE UNCHANGED vars
  BY <1>12 DEF vars
<1> QED
  BY <1>1, <1>2, <1>3, <1>4, <1>5, <1>6, <1>7, <1>8, <1>9, <1>10, <1>11, <1>12
     DEF Next, HostRuns, Alert, WakerRuns

\* The co-processor knows of a sleeping host, and does not take a host that is up for
\* asleep unless a step of the host has failed since it was last told: however
\* failing starts and stops, an early INIT event, pulses, the timer, restarts and the
\* alert tasks interleave.
THEOREM SleepKnown == Spec => []SleepIsKnown
<1>1. IInv => SleepIsKnown
  BY DEF IInv, Known, SleepIsKnown
<1> QED BY <1>1, InvHolds, PTL

\* While the host sleeps or boots no task gets or holds the semaphore, unless the take
\* of the last ON alert met a task between its take and its give: no failing step,
\* timer, early INIT event or restart is another way to a false wake-up.
THEOREM WakeupsHold == Spec => []WakeupsAreTrue
<1>1. IInv /\ Sealed => WakeupsAreTrue
  BY DEF IInv, Known, Sealed, WakeupsAreTrue, None
<1>2. Spec => []Sealed
  BY InitSealed, NextSealed, InvHolds, PTL DEF Spec
<1> QED BY <1>1, <1>2, InvHolds, PTL

=============================================================================
