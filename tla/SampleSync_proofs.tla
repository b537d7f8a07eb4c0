--------------------------- MODULE SampleSync_proofs ---------------------------
(***************************************************************************)
(* SyncInv is inductive for all periods, time-outs and durations of a read *)
(* within the assumptions, with pulses lost, reads failing and either      *)
(* source of wake-ups missing.                                             *)
(***************************************************************************)
EXTENDS SampleSync, TLAPS

LEMMA AlarmFacts ==
    /\ Period \in Nat /\ Timeout \in Nat /\ MaxRead \in Nat /\ MaxFail \in Nat
    /\ MaxErrors \in Nat \ {0} /\ MaxRead <= MaxFail
    /\ AlarmCount \in Nat /\ 2 * AlarmCount <= 3 * Period
    /\ Period >= 2 /\ Period + MaxRead < AlarmCount /\ AlarmCount < Timeout
  BY SyncAssumption, PaceAssumption DEF AlarmCount

\* The histories' counters are cut off, which only makes them smaller.
LEMMA LaterFacts ==
    /\ Horizon \in Nat
    /\ \A n \in 0..Horizon : Later(n) \in 0..Horizon /\ n <= Later(n) /\ Later(n) <= n + 1
<1>1. Horizon \in Nat
  BY AlarmFacts DEF Horizon
<1> QED
  BY <1>1 DEF Later

LEMMA ZeroFacts ==
    /\ 0 \in 0..Period /\ 0 \in 0..AlarmCount /\ 0 \in 0..(Timeout + MaxFail)
    /\ 0 \in 0..MaxErrors /\ 0 \in 0..Horizon /\ 1 \in 0..Horizon
    /\ Period \in 1..(3 * Period)
<1>1. Horizon >= 1
  BY AlarmFacts DEF Horizon
<1> QED
  BY <1>1, AlarmFacts, LaterFacts

LEMMA InitInv == Init => SyncInv
<1> SUFFICES ASSUME Init PROVE SyncInv
  OBVIOUS
<1>1. TypeOK
  <2>1. phase \in 0..Period
    BY AlarmFacts DEF Init
  <2> QED
    BY <2>1, ZeroFacts DEF Init, TypeOK, DrdySyncInit, TimerWatchdogInit
<1> QED
  BY <1>1, AlarmFacts
  DEF Init, TimerWatchdogInit, SyncInv, ReadInv, AlarmInv, LossInv, StartInv, UnreadInv,
      TimeInv, Waiting, Woken, Reading

\* An interrupt wakes the loop up or is remembered until the read is over.
LEMMA PulseStep == ASSUME SyncInv, Pulse PROVE SyncInv'
<1> USE AlarmFacts, LaterFacts DEF SyncInv, Pulse, Waiting, Woken, Reading
<1>1. TypeOK'
  BY ZeroFacts DEF TypeOK
<1>2. ReadInv' /\ AlarmInv'
  BY DEF TypeOK, ReadInv, AlarmInv
<1>3. LossInv' /\ StartInv'
  BY DEF TypeOK, ReadInv, LossInv, StartInv
<1>4. UnreadInv' /\ TimeInv'
  BY DEF TypeOK, ReadInv, UnreadInv, TimeInv
<1> QED
  BY <1>1, <1>2, <1>3, <1>4

LEMMA LosePulseStep == ASSUME SyncInv, LosePulse PROVE SyncInv'
<1> USE AlarmFacts, LaterFacts DEF SyncInv, LosePulse, Waiting, Woken, Reading
<1>1. TypeOK'
  BY DEF TypeOK
<1>2. ReadInv' /\ AlarmInv' /\ LossInv'
  BY DEF ReadInv, AlarmInv, LossInv
<1>3. StartInv' /\ UnreadInv' /\ TimeInv'
  BY DEF StartInv, UnreadInv, TimeInv
<1> QED
  BY <1>1, <1>2, <1>3

LEMMA AlarmStep == ASSUME SyncInv, Alarm PROVE SyncInv'
<1> USE AlarmFacts, LaterFacts DEF SyncInv, Alarm, Waiting, Woken, Reading
<1>1. TypeOK'
  BY DEF TypeOK
<1>2. ReadInv' /\ AlarmInv' /\ LossInv'
  BY DEF TypeOK, ReadInv, AlarmInv, LossInv
<1>3. StartInv'
  BY DEF TypeOK, ReadInv, StartInv
<1>4. UnreadInv' /\ TimeInv'
  BY DEF TypeOK, UnreadInv, TimeInv
<1> QED
  BY <1>1, <1>2, <1>3, <1>4

\* A wait ends with a notification, or at the time-out where no timer runs.
LEMMA WakeStep == ASSUME SyncInv, Wake PROVE SyncInv'
<1> USE AlarmFacts, LaterFacts DEF SyncInv, Wake, Waiting, Woken, Reading
<1>1. TypeOK'
  BY ZeroFacts DEF TypeOK
<1>2. timerOk => notified
  BY DEF TypeOK, Awake, ReadInv
<1>3. ReadInv'
  BY DEF TypeOK, ReadInv
<1>4. AlarmInv'
  BY DEF TypeOK, AlarmInv
<1>5. LossInv'
  BY <1>2 DEF TypeOK, LossInv
<1>6. StartInv' /\ UnreadInv'
  BY DEF TypeOK, StartInv, UnreadInv
<1>7. TimeInv'
  BY <1>2 DEF TypeOK, ReadInv, TimeInv
<1> QED
  BY <1>1, <1>3, <1>4, <1>5, <1>6, <1>7

LEMMA ReadOkStep == ASSUME SyncInv, ReadOk PROVE SyncInv'
<1> USE AlarmFacts, LaterFacts DEF SyncInv, ReadOk, Waiting, Woken, Reading, Pending
<1>1. TypeOK'
  <2>1. dt' \in 1..(3 * Period)
    BY DEF TypeOK, Dt
  <2> QED
    BY <2>1, ZeroFacts DEF TypeOK
<1>2. ReadInv' /\ AlarmInv'
  BY DEF TypeOK, ReadInv, AlarmInv
<1>3. LossInv' /\ StartInv'
  BY DEF TypeOK, ReadInv, LossInv, StartInv
<1>4. UnreadInv' /\ TimeInv'
  BY DEF TypeOK, ReadInv, UnreadInv, TimeInv
<1> QED
  BY <1>1, <1>2, <1>3, <1>4

LEMMA ReadFailsStep == ASSUME SyncInv, ReadFails PROVE SyncInv'
<1> USE AlarmFacts, LaterFacts DEF SyncInv, ReadFails, Waiting, Woken, Reading
<1>1. TypeOK' /\ errors' > 0
  BY DEF TypeOK
<1>2. ReadInv' /\ AlarmInv'
  BY <1>1 DEF TypeOK, ReadInv, AlarmInv
<1>3. LossInv' /\ StartInv'
  BY DEF TypeOK, ReadInv, LossInv, StartInv
<1>4. UnreadInv' /\ TimeInv'
  BY <1>1 DEF TypeOK, ReadInv, UnreadInv, TimeInv
<1> QED
  BY <1>1, <1>2, <1>3, <1>4

\* Time passes only while nothing is due: all clocks advance together.
LEMMA TickStep == ASSUME SyncInv, Tick PROVE SyncInv'
<1> USE AlarmFacts DEF SyncInv, Waiting, Woken, Reading
<1>1. /\ phase < Period /\ count < AlarmCount
      /\ task = "reading" => spent < MaxFail
      /\ task # "reading" => ~ notified /\ spent # Timeout
      /\ phase' = phase + 1 /\ count' = IF timerOk THEN count + 1 ELSE count
      /\ UNCHANGED <<drdyOk, timerOk, fallback, notified, task, errors, locked, dt, excuse>>
  BY DEF Tick, Awake, TypeOK
<1>2. spent' = spent + 1
  BY <1>1 DEF Tick, TypeOK, ReadInv
<1>3. /\ interval' \in 0..Horizon /\ interval' <= interval + 1
      /\ sincePulse' \in 0..Horizon /\ sincePulse' <= sincePulse + 1
      /\ sinceStart' \in 0..Horizon /\ sinceStart' <= sinceStart + 1
      /\ unread' \in 0..Horizon /\ unread' <= unread + 1 /\ (unread = 0 => unread' = 0)
  BY LaterFacts DEF Tick, TypeOK
<1>4. TypeOK'
  BY <1>1, <1>2, <1>3 DEF TypeOK, ReadInv
<1>5. ReadInv' /\ AlarmInv'
  BY <1>1, <1>2 DEF TypeOK, ReadInv, AlarmInv
<1>6. LossInv' /\ StartInv'
  BY <1>1, <1>2, <1>3 DEF TypeOK, LossInv, StartInv
<1>7. UnreadInv' /\ TimeInv'
  BY <1>1, <1>2, <1>3 DEF TypeOK, UnreadInv, TimeInv
<1> QED
  BY <1>4, <1>5, <1>6, <1>7

LEMMA StutterStep == ASSUME SyncInv, UNCHANGED vars PROVE SyncInv'
  BY DEF SyncInv, TypeOK, ReadInv, AlarmInv, LossInv, StartInv, UnreadInv, TimeInv,
         Waiting, Woken, Reading, vars, syncVars

\* The invariant of the clocks, whatever is lost and whatever fails.
THEOREM ClocksHold == Spec => []SyncInv
<1>1. SyncInv /\ [Next]_vars => SyncInv'
  BY PulseStep, LosePulseStep, AlarmStep, WakeStep, ReadOkStep, ReadFailsStep, TickStep,
     StutterStep DEF Next
<1> QED
  BY InitInv, <1>1, PTL DEF Spec

\* The loss of the pulses is reported after one and a half periods and two reads.
THEOREM LossIsFlagged == Spec => []LossFlagged
<1>1. SyncInv => LossFlagged
  <2> SUFFICES ASSUME SyncInv, timerOk, ~ fallback
               PROVE  2 * sincePulse <= 3 * Period + 4 * MaxFail
    BY AlarmFacts DEF LossFlagged, SyncInv, TypeOK
  <2>1. sincePulse <= AlarmCount + 2 * MaxFail
    BY AlarmFacts DEF SyncInv, TypeOK, ReadInv, LossInv, Waiting, Woken, Reading
  <2> QED
    BY <2>1, AlarmFacts DEF SyncInv, TypeOK
<1> QED
  BY <1>1, ClocksHold, PTL

\* Reads go on beginning at the timer's pace, or at the time-out's.
THEOREM NeverStarved == Spec => []SamplingContinues
<1>1. SyncInv => SamplingContinues
  <2> SUFFICES ASSUME SyncInv, ~ locked PROVE SamplingContinues
    BY DEF SamplingContinues
  <2>1. timerOk => sinceStart <= MaxFail + AlarmCount
    BY AlarmFacts DEF SyncInv, TypeOK, ReadInv, StartInv, Waiting, Woken, Reading
  <2>2. ~ timerOk => sinceStart <= MaxFail + Timeout
    BY AlarmFacts DEF SyncInv, TypeOK, ReadInv, StartInv, Waiting, Woken, Reading
  <2> QED
    BY <2>1, <2>2, AlarmFacts DEF SamplingContinues, SyncInv, TypeOK
<1> QED
  BY <1>1, ClocksHold, PTL

\* A pulse during a read is followed by a read of its own.
THEOREM WakeupKept == Spec => []NoLostWakeup
<1>1. SyncInv => NoLostWakeup
  BY AlarmFacts DEF SyncInv, TypeOK, UnreadInv, NoLostWakeup
<1> QED
  BY <1>1, ClocksHold, PTL

\* Reads that take less than half a period raise no false alarm.
THEOREM FlagMeansTrouble == Spec => NoFalseAlarm
<1>1. SyncInv /\ [Next]_vars => (~ fallback /\ fallback' => excuse \/ locked \/ Failing)
  <2> SUFFICES ASSUME SyncInv, Alarm, ~ excuse, ~ locked, ~ Failing PROVE FALSE
    BY DEF Next, Pulse, LosePulse, Wake, ReadOk, ReadFails, Tick, vars, syncVars
  <2> QED
    BY AlarmFacts
    DEF SyncInv, TypeOK, AlarmInv, Alarm, Failing, Waiting, Woken, Reading
<1> QED
  BY <1>1, ClocksHold, PTL DEF Spec, NoFalseAlarm

\* The time between two good samples is never cut to the nominal period by the guard
\* against long ones, as long as the timer runs.
THEOREM IntegratesRealTime == Spec => TimeKept
<1>1. SyncInv /\ [Next]_vars => (ReadOk /\ timerOk /\ errors = 0 /\ interval > 0 => dt' = interval)
  <2> SUFFICES ASSUME SyncInv, ReadOk, timerOk, errors = 0, interval > 0
               PROVE  dt' = interval
    OBVIOUS
  <2>1. interval <= AlarmCount + MaxRead
    BY AlarmFacts DEF SyncInv, TypeOK, TimeInv, ReadOk, Reading
  <2> QED
    BY <2>1, AlarmFacts DEF SyncInv, TypeOK, ReadOk, Dt
<1> QED
  BY <1>1, ClocksHold, PTL DEF Spec, TimeKept

================================================================================
