------------------------------- MODULE SampleSync -------------------------------
(***************************************************************************)
(* What paces the estimator once it runs: the sensor's data ready pulse    *)
(* (drdy_sync), the hardware timer that stands in for a missing one        *)
(* (timer_watchdog), and the loop of gnc_task_run that either of them, or  *)
(* the timeout of its wait, wakes up.                                      *)
(*                                                                         *)
(* Time is counted in ticks.  Everything that is due happens before the    *)
(* next tick; the interrupts and the task come in any order within one.    *)
(***************************************************************************)
EXTENDS Integers

CONSTANTS
    Period,       \* ticks from one sample of the sensor to the next
    Timeout,      \* ticks of the wait's timeout, 20 ms
    MaxRead,      \* ticks a burst read takes at most
    MaxFail,      \* ticks a burst read takes at most to fail, 4 ms
    MaxErrors,    \* MAX_CONSECUTIVE_I2C_ERRORS
    MayLose,      \* whether pulses may get lost
    MayFail       \* whether reads may fail

ASSUME SyncAssumption ==
    /\ Period \in Nat /\ Period >= 2
    /\ Timeout \in Nat \ {0}
    /\ MaxRead \in Nat /\ MaxFail \in Nat /\ MaxRead <= MaxFail
    /\ MaxErrors \in Nat \ {0}
    /\ MayLose \in BOOLEAN /\ MayFail \in BOOLEAN

\* What the code's numbers keep to: the wait's 20 ms are more than one and a half of any
\* profile's periods, and a read of 14 bytes at 400 kHz takes less than half a period.
ASSUME PaceAssumption ==
    LET Slack == (Period * 3) \div 2 IN Slack < Timeout /\ Period + MaxRead < Slack

VARIABLES
    drdyOk,       \* whether drdy_sync_init succeeded: nobody looks at its result
    timerOk,      \* whether timer_watchdog_init and timer_watchdog_start did
    phase,        \* ticks since the sensor's last sample
    count,        \* the hardware timer
    fallback,     \* HEALTH_FLAG_TIMER_FALLBACK_ACTIVE
    notified,     \* the task's notification
    task,         \* "waiting" in ulTaskNotifyTake or "reading" the sensor
    spent,        \* ticks spent so
    errors,       \* consecutive failed reads
    locked,       \* g_system_state = HARD_FAULT_LOCK
    interval,     \* ticks since s_last_loop_us
    dt            \* what the last good sample was integrated over

\* History.
VARIABLES
    sincePulse,   \* ticks since the last pulse that reached the processor
    sinceStart,   \* ticks since the last read began
    unread,       \* ticks since the first pulse that no read has followed, 0 for none
    excuse        \* since the timer was last fed, a pulse was lost or a read failed

syncVars == <<drdyOk, timerOk, phase, count, fallback, notified, task, spent, errors, locked,
              interval, dt>>
vars     == <<syncVars, sincePulse, sinceStart, unread, excuse>>

\* Mutants of AlarmCount.
AlarmCountExact == Period
AlarmCountWhole == Period * 3

\* timer_watchdog_init: one and a half periods.
AlarmCount == (Period * 3) \div 2

\* Bound: no history looks back further.
Horizon == AlarmCount + Timeout + 3 * Period + 2 * MaxFail

Later(n) == IF n < Horizon THEN n + 1 ELSE n

\* drdy_sync_init configures the pin, the interrupt service and the handler; each may fail.
DrdySyncInit == drdyOk \in BOOLEAN

\* timer_watchdog_init and timer_watchdog_start: any of the calls may fail, and then the
\* timer does not run.
TimerWatchdogInit == timerOk \in BOOLEAN /\ count = 0

\* The first turn of the loop has configured everything and begins to read.
Init ==
    /\ DrdySyncInit
    /\ TimerWatchdogInit
    /\ phase \in 0..(Period - 1)
    /\ fallback = FALSE
    /\ notified = FALSE
    /\ task = "reading"
    /\ spent = 0
    /\ errors = 0
    /\ locked = FALSE
    /\ interval = 0
    /\ dt = Period
    /\ sincePulse = 0
    /\ sinceStart = 0
    /\ unread = 0
    /\ excuse = FALSE

(***************************************************************************)
(* The interrupts                                                          *)
(***************************************************************************)

\* The sensor has a sample: drdy_gpio_isr_handler.
Pulse ==
    /\ phase = Period
    /\ drdyOk
    /\ phase' = 0
    /\ fallback' = FALSE
    /\ notified' = TRUE
    /\ sincePulse' = 0
    /\ unread' = IF unread = 0 THEN 1 ELSE unread
    /\ UNCHANGED <<drdyOk, timerOk, count, task, spent, errors, locked, interval, dt,
                   sinceStart, excuse>>

\* The sensor has a sample and nobody hears of it.
LosePulse ==
    /\ phase = Period
    /\ ~ drdyOk \/ MayLose
    /\ phase' = 0
    /\ excuse' = TRUE
    /\ UNCHANGED <<drdyOk, timerOk, count, fallback, notified, task, spent, errors, locked,
                   interval, dt, sincePulse, sinceStart, unread>>

\* timer_watchdog_on_alarm_cb; the timer starts over.
Alarm ==
    /\ count = AlarmCount
    /\ count' = 0
    /\ fallback' = TRUE
    /\ notified' = TRUE
    /\ UNCHANGED <<drdyOk, timerOk, phase, task, spent, errors, locked, interval, dt,
                   sincePulse, sinceStart, unread, excuse>>

(***************************************************************************)
(* The loop of gnc_task_run                                                *)
(***************************************************************************)

\* Mutant of Awake: the wait has no timeout.
AwakeNotified == notified

\* ulTaskNotifyTake returns.
Awake == notified \/ spent = Timeout

\* Any number of notifications is taken as one, and a read begins unless the vehicle is
\* in HARD_FAULT_LOCK.
Wake ==
    /\ task = "waiting"
    /\ Awake
    /\ notified' = FALSE
    /\ spent' = 0
    /\ IF locked
       THEN UNCHANGED <<task, sinceStart, unread>>
       ELSE task' = "reading" /\ sinceStart' = 0 /\ unread' = 0
    /\ UNCHANGED <<drdyOk, timerOk, phase, count, fallback, errors, locked, interval, dt,
                   sincePulse, excuse>>

\* Mutant of Dt: any time is taken as it is.
DtUnlimited == IF interval = 0 THEN Period ELSE interval

\* Mutant of Dt: the limit is one period.
DtTight == IF interval = 0 \/ interval > Period THEN Period ELSE interval

\* An interval of nothing or of more than three periods is replaced by the nominal one.
Dt == IF interval = 0 \/ interval > 3 * Period THEN Period ELSE interval

\* Mutant of Pending: notifications that came in during the read are dropped.
PendingDropped == FALSE

\* ulTaskNotifyTake empties the notification when the wait ends, and nothing else does.
Pending == notified

\* The burst read succeeds: the timer is fed and the sample integrated.
ReadOk ==
    /\ task = "reading"
    /\ spent <= MaxRead
    /\ errors' = 0
    /\ count' = 0
    /\ excuse' = FALSE
    /\ dt' = Dt
    /\ interval' = 0
    /\ task' = "waiting"
    /\ spent' = 0
    /\ notified' = Pending
    /\ UNCHANGED <<drdyOk, timerOk, phase, fallback, locked, sincePulse, sinceStart, unread>>

\* It fails: register_i2c_error, and nothing else.
ReadFails ==
    /\ task = "reading"
    /\ MayFail
    /\ errors' = IF errors < MaxErrors THEN errors + 1 ELSE errors
    /\ locked' = (locked \/ errors' = MaxErrors)
    /\ excuse' = TRUE
    /\ task' = "waiting"
    /\ spent' = 0
    /\ UNCHANGED <<drdyOk, timerOk, phase, count, fallback, notified, interval, dt, sincePulse,
                   sinceStart, unread>>

(***************************************************************************)
(* Time                                                                    *)
(***************************************************************************)

\* A tick passes once nothing is due.  A read that has gone on for longer than MaxRead
\* is one that fails.
Tick ==
    /\ phase < Period
    /\ count < AlarmCount
    /\ IF task = "reading" THEN spent < (IF MayFail THEN MaxFail ELSE MaxRead) ELSE ~ Awake
    /\ phase' = phase + 1
    /\ count' = IF timerOk THEN count + 1 ELSE count
    /\ spent' = IF spent < Timeout + MaxFail THEN spent + 1 ELSE spent
    /\ interval' = Later(interval)
    /\ sincePulse' = Later(sincePulse)
    /\ sinceStart' = Later(sinceStart)
    /\ unread' = IF unread = 0 THEN 0 ELSE Later(unread)
    /\ UNCHANGED <<drdyOk, timerOk, fallback, notified, task, errors, locked, dt, excuse>>

Next == Pulse \/ LosePulse \/ Alarm \/ Wake \/ ReadOk \/ ReadFails \/ Tick

Spec == Init /\ [][Next]_vars

(***************************************************************************)
(* Properties                                                              *)
(***************************************************************************)

\* Every variable has its type.
TypeOK ==
    /\ drdyOk \in BOOLEAN /\ timerOk \in BOOLEAN
    /\ phase \in 0..Period
    /\ count \in 0..AlarmCount
    /\ fallback \in BOOLEAN /\ notified \in BOOLEAN
    /\ task \in {"waiting", "reading"}
    /\ spent \in 0..(Timeout + MaxFail)
    /\ errors \in 0..MaxErrors
    /\ locked \in BOOLEAN
    /\ interval \in 0..Horizon
    /\ dt \in 1..(3 * Period)
    /\ sincePulse \in 0..Horizon /\ sinceStart \in 0..Horizon /\ unread \in 0..Horizon
    /\ excuse \in BOOLEAN

\* A read that has gone on for too long to succeed.
Failing == task = "reading" /\ spent > MaxRead

\* While every pulse arrives and every read succeeds, the fallback flag does not go up,
\* however the reads jitter: one and a half periods are enough slack for a timer that is
\* only fed at the end of a read.
NoFalseAlarm ==
    [][~ fallback /\ fallback' => excuse \/ locked \/ Failing]_vars

\* When the pulses stop, the flag is up at most one and a half periods after the two reads
\* that the last pulse may have caused or hit, whatever becomes of these reads.
LossFlagged == timerOk /\ 2 * sincePulse > 3 * Period + 4 * MaxFail => fallback

\* The estimator is never starved: reads begin at the timer's pace whatever happens to
\* the pulses, and at the wait's timeout if the timer was not set up either.
SamplingContinues ==
    ~ locked => IF timerOk THEN 2 * sinceStart <= 3 * Period + 2 * MaxFail
                           ELSE sinceStart <= Timeout + MaxFail

\* A pulse that arrives during a read is not lost: another read begins when it is over.
NoLostWakeup == ~ locked => unread <= MaxFail + 1

\* With the timer running, a sample is integrated over the time that has really passed
\* since the one before it, lost pulses or not, unless a read failed in between.
TimeKept == [][ReadOk /\ timerOk /\ errors = 0 /\ interval > 0 => dt' = interval]_vars

(***************************************************************************)
(* The inductive invariant: what the clocks owe to each other while the    *)
(* loop waits, with a notification or without, and while it reads.         *)
(***************************************************************************)

Waiting == task = "waiting" /\ ~ notified
Woken   == task = "waiting" /\ notified
Reading == task = "reading"

\* A read ends before MaxFail; in a wait the timer, if it runs, is ahead of the time-out.
ReadInv ==
    /\ Reading => spent <= MaxFail /\ ~ locked
    /\ Waiting => spent <= (IF timerOk THEN count ELSE Timeout)
    /\ locked => errors # 0

\* The timer is fed at the end of a read, and a pulse leads to one.
AlarmInv ==
    ~ excuse /\ ~ locked =>
        /\ Waiting => count <= phase
        /\ Woken => count <= Period
        /\ Reading => count <= Period + spent

LossInv ==
    timerOk /\ ~ fallback =>
        /\ Waiting => sincePulse <= count + 2 * MaxFail
        /\ Woken => sincePulse <= MaxFail
        /\ Reading => sincePulse <= spent + (IF notified THEN 0 ELSE MaxFail)

StartInv ==
    ~ locked =>
        /\ Waiting => sinceStart <= MaxFail + (IF timerOk THEN count ELSE spent)
        /\ Woken => sinceStart <= MaxFail + (IF timerOk THEN AlarmCount ELSE Timeout)
        /\ Reading => sinceStart <= spent

UnreadInv ==
    ~ locked /\ unread > 0 =>
        /\ notified
        /\ unread <= MaxFail + 1
        /\ Reading => unread <= spent + 1

TimeInv ==
    timerOk /\ errors = 0 =>
        /\ Waiting => interval <= count
        /\ Woken => interval <= AlarmCount
        /\ Reading => interval <= AlarmCount + spent

SyncInv == TypeOK /\ ReadInv /\ AlarmInv /\ LossInv /\ StartInv /\ UnreadInv /\ TimeInv

================================================================================
