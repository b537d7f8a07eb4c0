---------------------------------- MODULE Fdir ----------------------------------
(***************************************************************************)
(* FDIR fed with any samples at all, and a record of the newest of them:   *)
(* what the counters and the flags mean is stated over that history.  One  *)
(* action is one turn of the GNC loop with a successful transfer.          *)
(***************************************************************************)
EXTENDS FdirManager, Sequences

ASSUME FdirAssumption ==
    /\ NoReading \notin Readings
    /\ Overrange \subseteq Readings /\ HighG \subseteq Readings /\ FreeFall \subseteq Readings
    /\ MaxStuck \in Nat /\ MaxStuck >= 2
    /\ Nominal \in Nat \ {0}

VARIABLE
    window            \* history: the newest samples and their verdicts, newest first

vars == <<fdirVars, window>>

WindowSize == IF MaxStuck > Nominal THEN MaxStuck ELSE Nominal

Samples == [reading : Readings, interval : Intervals,
            ok : BOOLEAN, recovered : BOOLEAN, fused : BOOLEAN]

\* The newest sample goes in front, the oldest drops out of a full window.
Push(w, e) == [i \in 1..(IF Len(w) < WindowSize THEN Len(w) + 1 ELSE WindowSize) |->
                  IF i = 1 THEN e ELSE w[i - 1]]

Init == FdirInit /\ window = <<>>

Turn(r, interval) ==
    /\ ProcessSample(r, interval)
    /\ window' = Push(window, [reading   |-> r,
                               interval  |-> interval,
                               ok        |-> SampleOk(r),
                               recovered |-> Stuck(r),
                               fused     |-> SampleOk(r) /\ Fuse(r)])

Next == \E r \in Readings, interval \in Intervals : Turn(r, interval)

Spec == Init /\ [][Next]_vars

(***************************************************************************)
(* Properties                                                              *)
(***************************************************************************)

TypeOK ==
    /\ stuckSamples \in 0..(MaxStuck - 1)
    /\ nominalSamples \in 0..Nominal
    /\ last \in Readings \cup {NoReading}
    /\ anomaly \in BOOLEAN
    /\ highG \in BOOLEAN
    /\ window \in Seq(Samples)
    /\ Len(window) <= WindowSize

\* The newest n samples repeat one reading, and the sensor was not reset in between.
Frozen(n) ==
    /\ Len(window) >= n
    /\ \A i \in 1..n : window[i].reading = window[1].reading
    /\ \A i \in 2..n : ~ window[i].recovered

\* The counter, the sentinel and the flag together are a stuck-data watchdog: the
\* sensor is reset at the sample that completes MaxStuck identical ones since the last
\* reset, at no other, and no run of identical readings gets past it.
RecoversWhenFrozen ==
    window # <<>> => (window[1].recovered <=> Frozen(MaxStuck))

\* What process_sample counts as an anomaly: a saturated gyroscope, jitter, a sensor
\* that had to be reset.
Suspect(e) ==
    \/ e.reading \in Overrange
    \/ e.interval \in {"short", "long"}
    \/ e.recovered

\* The anomaly flag says exactly whether one of the last Nominal samples was suspect: it
\* is neither dropped early by a reset nor kept alive by samples long past.
AnomalyIsRecent ==
    anomaly <=> \E i \in 1..Len(window) : i <= Nominal /\ Suspect(window[i])

\* HIGH_G_REJECTION is the verdict on the newest sample FDIR accepted, and that sample
\* was fused exactly if the flag is down; rejected samples do not touch the flag and
\* are never fused.
HighGIsLastVerdict ==
    \A i \in 1..Len(window) :
        /\ window[i].fused => window[i].ok
        /\ (window[i].ok /\ \A j \in 1..(i - 1) : ~ window[j].ok) =>
              /\ highG <=> window[i].reading \in HighG \cup FreeFall
              /\ highG <=> ~ window[i].fused

(***************************************************************************)
(* The inductive invariant: what the two counters say of the window.       *)
(***************************************************************************)

\* The newest stuckSamples samples are what last holds; the one before them differs
\* or ended in a reset.
StuckInv ==
    /\ stuckSamples <= Len(window)
    /\ stuckSamples = 0 <=> last = NoReading
    /\ \A i \in 1..stuckSamples : window[i].reading = last /\ ~ window[i].recovered
    /\ stuckSamples < Len(window) =>
          \/ window[stuckSamples + 1].recovered
          \/ stuckSamples > 0 /\ window[stuckSamples + 1].reading # last

\* The newest nominalSamples samples are not suspect, and the one before them is.
NominalInv ==
    /\ nominalSamples <= Len(window)
    /\ \A i \in 1..nominalSamples : ~ Suspect(window[i])
    /\ nominalSamples < Nominal /\ nominalSamples < Len(window) =>
          Suspect(window[nominalSamples + 1])
    /\ anomaly <=> nominalSamples < Nominal /\ nominalSamples < Len(window)

FdirInv == /\ TypeOK
           /\ StuckInv
           /\ RecoversWhenFrozen
           /\ NominalInv
           /\ HighGIsLastVerdict

(***************************************************************************)
(* What the documentation says and the code does not do                    *)
(***************************************************************************)

\* process_sample: a sample of a frozen sensor is not safe to process.  Here the sensor
\* has returned MaxStuck identical readings in a row, resets or not.
FrozenSampleRejected ==
    (/\ Len(window) >= MaxStuck
     /\ \A i \in 1..MaxStuck : window[i].reading = window[1].reading) => ~ window[1].ok

================================================================================
