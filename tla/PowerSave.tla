----------------------------- MODULE PowerSave -----------------------------
(***************************************************************************)
(* The host sleeps and the co-processor wakes it                           *)
(* (src/host/drivers/power_save/power_save_drv.c,                          *)
(* src/slave/main/host_power_save.c), with the bus left loaded.  The host  *)
(* tells the co-processor that it goes to sleep and loses its memory; a    *)
(* pulse on a GPIO boots it, and it tells the co-processor that it is      *)
(* back.  For each of the two messages the co-processor starts a task,     *)
(* which keeps power_save_on and the binary semaphore wakeup_sem.  A task  *)
(* that has a packet for a sleeping host pulses the GPIO until it gets the *)
(* semaphore.  While the host is up the same GPIO means that the co-       *)
(* processor was reset, and the host restarts.  Either message may fail,   *)
(* and so may what the host does after the first.                          *)
(***************************************************************************)
EXTENDS Naturals

CONSTANTS
    Wakers,         \* the tasks of the co-processor that have packets for the host
    Faults,         \* steps of the host fail
    MaxAlerts       \* bound: ON alerts at work at a time

VARIABLES
    host,           \* what the host is doing
    timer,          \* timer_handle
    isr, grace,     \* the handler of the GPIO is set; its 500 ms after a wake-up last
    gpio,           \* the wake-up GPIO is active
    alerts,         \* the number of alert tasks, by what they do next
    power_save_on, sem,
    wpc,            \* the wakers
    raced,          \* ghost: the last ON alert met the semaphore in the hands of a waker
    misled          \* ghost: a step has failed that leaves the co-processor misinformed

hostvars == <<host, timer, isr, grace, misled>>
slavevars == <<alerts, power_save_on, sem, wpc, raced>>
vars == <<hostvars, gpio, slavevars>>
\* What host_power_save_alert does next in its task: an ON alert takes the semaphore
\* and sets the flag, an OFF alert clears it and gives the semaphore.
Steps == {"take", "on", "off", "give"}

NoAlerts == [s \in Steps |-> 0]

More(s) == [alerts EXCEPT ![s] = @ + 1]

Less(s) == [alerts EXCEPT ![s] = @ - 1]

Init ==
    /\ host = "up" /\ timer = "none" /\ isr = TRUE /\ grace = FALSE
    /\ gpio = FALSE
    /\ alerts = NoAlerts /\ power_save_on = FALSE /\ sem = 1
    /\ wpc = [w \in Wakers |-> "idle"] /\ raced = FALSE
    /\ misled = FALSE

-----------------------------------------------------------------------------
(* The host.                                                               *)

\* esp_hosted_power_save_timer_start: a timer that exists is stopped, and that is
\* all.
TimerStart ==
    /\ host = "up"
    /\ timer' = IF timer = "none" THEN "armed" ELSE "none"
    /\ UNCHANGED <<host, isr, grace, misled, gpio, slavevars>>

TimerStop ==
    /\ host = "up" /\ timer # "none"
    /\ timer' = "none"
    /\ UNCHANGED <<host, isr, grace, misled, gpio, slavevars>>

\* esp_hosted_power_save_start, by the application or by the timer: the co-
\* processor is told; if that fails nothing has happened.
Start ==
    /\ host = "up"
    /\ \/ UNCHANGED timer
       \/ timer = "armed" /\ timer' = "fired"
    /\ \/ /\ alerts["take"] + alerts["on"] < MaxAlerts
          /\ host' = "told" /\ alerts' = More("take")
       \/ UNCHANGED <<host, alerts>>
    /\ UNCHANGED <<isr, grace, misled, gpio, power_save_on, sem, wpc, raced>>

ClearIntr ==
    /\ host = "told" /\ host' = "cleared"
    /\ isr' = FALSE
    /\ UNCHANGED <<timer, grace, misled, gpio, slavevars>>

\* The reset pin is not held, or the wake-up GPIO not armed: the host stays up,
\* without its handler, and the co-processor is not told.
StartFails ==
    /\ Faults
    /\ host = "cleared" /\ host' = "up"
    /\ misled' = TRUE
    /\ UNCHANGED <<timer, isr, grace, gpio, slavevars>>

\* The reset pin is held and the wake-up GPIO armed; after h_msleep(50), in which
\* the co-processor has taken notice.
Sleep ==
    /\ host = "cleared" /\ alerts = NoAlerts
    /\ host' = "asleep"
    /\ timer' = "none" /\ grace' = FALSE
    /\ UNCHANGED <<isr, misled, gpio, slavevars>>

Wake ==
    /\ host = "asleep" /\ gpio
    /\ host' = "booting"
    /\ UNCHANGED <<timer, isr, grace, misled, gpio, slavevars>>

\* ensure_slave_bus_ready after deep sleep, stop_host_power_save: nobody looks at
\* the result when the co-processor could not be told.
PowerSaveStop ==
    /\ host = "booting" /\ host' = "back"
    /\ \/ alerts' = More("off") /\ grace' = TRUE /\ misled' = FALSE
       \/ Faults /\ misled' = TRUE /\ UNCHANGED <<alerts, grace>>
    /\ UNCHANGED <<timer, isr, gpio, power_save_on, sem, wpc, raced>>

\* The INIT event has come and starts esp_hosted_power_save_init.  host_reset_task
\* sends it when the OFF alert has ended or when the read task has opened the data
\* path, and past the queue that would hold it back: at any time.
InitEvent ==
    /\ host = "back" /\ host' = "initing"
    /\ UNCHANGED <<timer, isr, grace, misled, gpio, slavevars>>

\* A variant that does not wait.
PowerSaveInitHasty ==
    /\ host = "initing"
    /\ host' = "up"
    /\ isr' = TRUE
    /\ UNCHANGED <<timer, grace, misled, gpio, slavevars>>

\* The handler is set after h_msleep(200), in which the alert task has ended.
PowerSaveInit ==
    /\ host = "initing" /\ alerts = NoAlerts
    /\ host' = "up"
    /\ isr' = TRUE
    /\ UNCHANGED <<timer, grace, misled, gpio, slavevars>>

GraceOver ==
    /\ grace
    /\ grace' = FALSE
    /\ UNCHANGED <<host, timer, isr, misled, gpio, slavevars>>

\* wakeup_gpio_isr_handler: the host restarts, resets the co-processor and
\* waits for its INIT event.
Isr ==
    /\ gpio /\ isr /\ ~grace
    /\ host \in {"up", "told"}
    /\ host' = "back"
    /\ timer' = "none" /\ isr' = FALSE /\ misled' = FALSE
    /\ gpio' = FALSE
    /\ alerts' = NoAlerts /\ power_save_on' = FALSE /\ sem' = 1
    /\ wpc' = [w \in Wakers |-> "idle"] /\ raced' = FALSE
    /\ UNCHANGED grace

-----------------------------------------------------------------------------
(* The co-processor: host_power_save_alert in a task of its own.           *)

\* A waker has taken the semaphore and will give it.
Held == \E w \in Wakers : wpc[w] = "taken"

\* A variant that does not take the semaphore.
AlertTakeForgotten ==
    /\ alerts["take"] > 0
    /\ alerts' = [Less("take") EXCEPT !["on"] = @ + 1]
    /\ raced' = Held
    /\ UNCHANGED <<hostvars, gpio, power_save_on, sem, wpc>>

\* xSemaphoreTake with no timeout, whose result nobody looks at; then the flag.
AlertTake ==
    /\ alerts["take"] > 0
    /\ alerts' = [Less("take") EXCEPT !["on"] = @ + 1]
    /\ sem' = 0
    /\ raced' = Held
    /\ UNCHANGED <<hostvars, gpio, power_save_on, wpc>>

AlertOn ==
    /\ alerts["on"] > 0
    /\ alerts' = Less("on")
    /\ power_save_on' = TRUE
    /\ UNCHANGED <<hostvars, gpio, sem, wpc, raced>>

AlertOff ==
    /\ alerts["off"] > 0
    /\ alerts' = [Less("off") EXCEPT !["give"] = @ + 1]
    /\ power_save_on' = FALSE
    /\ UNCHANGED <<hostvars, gpio, sem, wpc, raced>>

AlertGive ==
    /\ alerts["give"] > 0
    /\ alerts' = Less("give")
    /\ sem' = 1
    /\ UNCHANGED <<hostvars, gpio, power_save_on, wpc, raced>>

-----------------------------------------------------------------------------
(* The wakers: process_tx_pkt, wakeup_host, trigger_host_wakeup with a     *)
(* timeout that never ends.                                                *)

Waking(w, from, to) ==
    /\ wpc[w] = from
    /\ wpc' = [wpc EXCEPT ![w] = to]
    /\ UNCHANGED <<hostvars, alerts, power_save_on, raced>>

\* A packet for a host that sleeps.
NeedHost(w) ==
    /\ power_save_on
    /\ Waking(w, "idle", "pulse")
    /\ UNCHANGED <<gpio, sem>>

Pulse(w) ==
    /\ Waking(w, "pulse", "pulsed")
    /\ gpio' = TRUE
    /\ UNCHANGED sem

\* clean_wakeup_gpio_timer_cb after 10 ms, whoever has set the GPIO since.
PulseEnds(w) ==
    /\ Waking(w, "pulsed", "wait")
    /\ gpio' = FALSE
    /\ UNCHANGED sem

\* A variant that waits on after the first pulse.
WaitTimeoutFinal(w) ==
    /\ sem = 0
    /\ Waking(w, "wait", "wait")
    /\ UNCHANGED <<gpio, sem>>

\* The semaphore did not come within 100 ms: once more.
WaitTimeout(w) ==
    /\ sem = 0
    /\ Waking(w, "wait", "pulse")
    /\ UNCHANGED <<gpio, sem>>

\* The host has responded, or so the waker believes.
WaitTaken(w) ==
    /\ sem = 1 /\ sem' = 0
    /\ Waking(w, "wait", "taken")
    /\ UNCHANGED gpio

\* xSemaphoreGive, in a call of its own after a log; the packet is then written.
WaitGive(w) ==
    /\ Waking(w, "taken", "idle")
    /\ sem' = 1
    /\ UNCHANGED gpio

-----------------------------------------------------------------------------
HostRuns ==
    ClearIntr \/ StartFails \/ Sleep \/ PowerSaveStop \/ InitEvent \/ PowerSaveInit

Alert == AlertTake \/ AlertOn \/ AlertOff \/ AlertGive

WakerRuns(w) ==
    Pulse(w) \/ PulseEnds(w) \/ WaitTimeout(w) \/ WaitTaken(w) \/ WaitGive(w)

Next ==
    \/ TimerStart \/ TimerStop \/ Start \/ HostRuns \/ Wake
    \/ GraceOver \/ Isr
    \/ Alert
    \/ \E w \in Wakers : NeedHost(w) \/ WakerRuns(w)

Spec == Init /\ [][Next]_vars

\* The schedulers run the tasks; the host's hardware wakes it, or runs its handler,
\* if the GPIO is pulsed often enough; a semaphore that is there often enough is
\* taken.
FairSpec ==
    /\ Spec
    /\ WF_vars(HostRuns) /\ WF_vars(AlertTake \/ AlertOff) /\ WF_vars(AlertOn \/ AlertGive)
    /\ WF_vars(GraceOver) /\ SF_vars(Wake) /\ SF_vars(Isr)
    /\ \A w \in Wakers : WF_vars(WakerRuns(w)) /\ SF_vars(WaitTaken(w))

-----------------------------------------------------------------------------
\* The co-processor knows of a host that is asleep, so that it wakes it for a
\* packet, whatever has failed before; and it does not think so of a host that is
\* up, which it would not read from any more, unless the host could not tell it.
SleepIsKnown ==
    /\ host = "asleep" => power_save_on
    /\ host = "up" /\ ~misled => ~power_save_on

\* No task is told that a sleeping host is back, and none goes on to send to it:
\* while the host sleeps or boots, the semaphore is not there, and nobody has it.
\* The one exception is the race of an ON alert with a task that had just been woken:
\* the alert's take, which does not wait, fails, and the give that follows leaves the
\* semaphore for all who come later.
WakeupsAreTrue ==
    host \in {"asleep", "booting"} /\ ~raced => sem = 0 /\ ~Held

\* The host is up and does not see the GPIO: a start has failed half-way.
Deaf == host = "up" /\ ~isr

\* A task that has a packet for a host it takes for asleep does not wait for ever,
\* whether the host is woken or, misjudged, restarted: unless the host goes back to
\* sleep again and again before the task has looked at the semaphore, or stays
\* deaf.
WakeupEnds ==
    <>[](host # "told") /\ []<>~Deaf
        => \A w \in Wakers : wpc[w] = "pulse" ~> wpc[w] = "idle"

=============================================================================
