------------------------------- MODULE Fdir_proofs -------------------------------
(****************************************************************************)
(* For every set of readings and every limit: FDIR's counters implement the *)
(* stuck-data watchdog and the anomaly filter that Fdir states over the     *)
(* history of samples, and the G-gate's flag is the last verdict.           *)
(****************************************************************************)
EXTENDS Fdir, TLAPS

LEMMA WindowSizeFacts ==
    /\ WindowSize \in Nat
    /\ WindowSize >= MaxStuck
    /\ WindowSize >= Nominal
  BY FdirAssumption DEF WindowSize

\* Push puts the new sample first, shifts the others by one and bounds the length.
LEMMA PushFacts ==
    ASSUME NEW w \in Seq(Samples), Len(w) <= WindowSize, NEW e \in Samples
    PROVE  /\ Push(w, e) \in Seq(Samples)
           /\ Len(Push(w, e)) = IF Len(w) < WindowSize THEN Len(w) + 1 ELSE WindowSize
           /\ Push(w, e)[1] = e
           /\ \A i \in 2..Len(Push(w, e)) : i - 1 \in 1..Len(w) /\ Push(w, e)[i] = w[i - 1]
<1> DEFINE n == IF Len(w) < WindowSize THEN Len(w) + 1 ELSE WindowSize
<1>1. n \in Nat /\ n >= 1 /\ n <= Len(w) + 1
  BY WindowSizeFacts, FdirAssumption
<1>2. \A i \in 1..n : (IF i = 1 THEN e ELSE w[i - 1]) \in Samples
  BY <1>1
<1>3. Push(w, e) = [i \in 1..n |-> IF i = 1 THEN e ELSE w[i - 1]]
  BY DEF Push
<1> HIDE DEF n
<1>4. Push(w, e) \in Seq(Samples) /\ Len(Push(w, e)) = n
  BY <1>1, <1>2, <1>3
<1>5. Push(w, e)[1] = e
  BY <1>1, <1>3
<1>6. \A i \in 2..n : i - 1 \in 1..Len(w) /\ Push(w, e)[i] = w[i - 1]
  BY <1>1, <1>3
<1> QED
  BY <1>4, <1>5, <1>6 DEF n

\* The sample a turn of the loop records.
Sample(r, interval) ==
    [reading |-> r, interval |-> interval, ok |-> SampleOk(r), recovered |-> Stuck(r),
     fused |-> SampleOk(r) /\ Fuse(r)]

\* What one turn of the loop does to the history.
LEMMA WindowStep ==
    ASSUME TypeOK, NEW r \in Readings, NEW interval \in Intervals, Turn(r, interval)
    PROVE  /\ window' \in Seq(Samples)
           /\ Len(window') = IF Len(window) < WindowSize THEN Len(window) + 1 ELSE WindowSize
           /\ window'[1] = Sample(r, interval)
           /\ \A i \in 2..Len(window') : i - 1 \in 1..Len(window) /\ window'[i] = window[i - 1]
<1>1. Sample(r, interval) \in Samples
  BY DEF Sample, Samples, SampleOk, Stuck, Fuse, OutOfRange
<1>2. window' = Push(window, Sample(r, interval))
  BY DEF Turn, ProcessSample, Sample
<1> QED
  BY <1>1, <1>2, PushFacts DEF TypeOK

\* Its fields, whatever they are worth.
LEMMA SampleFields ==
    ASSUME NEW r \in Readings, NEW interval \in Intervals
    PROVE  /\ Sample(r, interval).reading = r
           /\ Sample(r, interval).interval = interval
           /\ Sample(r, interval).ok <=> SampleOk(r)
           /\ Sample(r, interval).recovered <=> Stuck(r)
           /\ Sample(r, interval).fused <=> SampleOk(r) /\ Fuse(r)
  BY DEF Sample

\* The empty history satisfies everything.
LEMMA InitInv == Init => FdirInv
<1> SUFFICES ASSUME Init PROVE FdirInv
  OBVIOUS
<1>1. window = <<>> /\ Len(window) = 0 /\ window \in Seq(Samples)
  BY DEF Init, FdirInit
<1>2. TypeOK
  <2>1. stuckSamples = 0 /\ nominalSamples = 0 /\ last = NoReading
    BY DEF Init, FdirInit
  <2>2. anomaly \in BOOLEAN /\ highG \in BOOLEAN
    BY Zenon DEF Init, FdirInit
  <2>3. stuckSamples \in 0..(MaxStuck - 1) /\ nominalSamples \in 0..Nominal
    BY <2>1, FdirAssumption
  <2> QED
    BY <1>1, <2>1, <2>2, <2>3, WindowSizeFacts DEF TypeOK
<1>3. StuckInv /\ NominalInv /\ RecoversWhenFrozen /\ HighGIsLastVerdict
  BY <1>1 DEF Init, FdirInit, StuckInv, NominalInv, RecoversWhenFrozen, HighGIsLastVerdict
<1> QED
  BY <1>2, <1>3 DEF FdirInv

LEMMA TypeStep ==
    ASSUME TypeOK, NEW r \in Readings, NEW interval \in Intervals, Turn(r, interval)
    PROVE  TypeOK'
<1>1. window' \in Seq(Samples) /\ Len(window') <= WindowSize
  BY WindowStep, WindowSizeFacts DEF TypeOK
<1>2. stuckSamples' \in 0..(MaxStuck - 1) /\ last' \in Readings \cup {NoReading}
  <2>1. CASE Stuck(r)
    BY <2>1, FdirAssumption DEF Turn, ProcessSample, Recover
  <2>2. CASE ~ Stuck(r)
    <3>1. StuckCount(r) \in 0..(MaxStuck - 1)
      BY <2>2, FdirAssumption DEF Stuck, StuckCount, TypeOK
    <3> QED
      BY <2>2, <3>1 DEF Turn, ProcessSample
  <2> QED
    BY <2>1, <2>2
<1>3. nominalSamples' \in 0..Nominal
  BY FdirAssumption DEF Turn, ProcessSample, CountNominal, TypeOK
<1>5. anomaly' \in BOOLEAN
  BY Zenon DEF Turn, ProcessSample, CountNominal
<1>4. highG' \in BOOLEAN
  BY DEF Turn, ProcessSample, Gate, TypeOK
<1> QED
  BY <1>1, <1>2, <1>3, <1>4, <1>5 DEF TypeOK

\* The counter goes on describing the window.
LEMMA StuckStep ==
    ASSUME TypeOK, StuckInv, NEW r \in Readings, NEW interval \in Intervals,
           Turn(r, interval)
    PROVE  StuckInv'
<1> USE FdirAssumption, WindowSizeFacts
<1>1. /\ stuckSamples \in 0..(MaxStuck - 1)
      /\ Len(window) \in Nat /\ Len(window) <= WindowSize
      /\ stuckSamples <= Len(window)
      /\ stuckSamples = 0 <=> last = NoReading
  BY DEF TypeOK, StuckInv
<1>2. /\ Len(window') = IF Len(window) < WindowSize THEN Len(window) + 1 ELSE WindowSize
      /\ window'[1].reading = r
      /\ window'[1].recovered <=> Stuck(r)
      /\ \A i \in 2..Len(window') : window'[i] = window[i - 1]
  <2>1. /\ Len(window') = IF Len(window) < WindowSize THEN Len(window) + 1 ELSE WindowSize
        /\ window'[1] = Sample(r, interval)
        /\ \A i \in 2..Len(window') : window'[i] = window[i - 1]
    BY WindowStep
  <2> QED
    BY <2>1, SampleFields
<1>3. CASE Stuck(r)
  <2>1. stuckSamples' = 0 /\ last' = NoReading
    BY <1>3 DEF Turn, ProcessSample, Recover
  <2> QED
    BY <1>1, <1>2, <1>3, <2>1 DEF StuckInv
<1>4. CASE ~ Stuck(r) /\ r = last
  <2>1. /\ stuckSamples' = stuckSamples + 1
        /\ last' = last
        /\ stuckSamples > 0
        /\ stuckSamples + 1 < MaxStuck
    BY <1>1, <1>4 DEF Turn, ProcessSample, Stuck, StuckCount
  <2>2. stuckSamples' <= Len(window')
    BY <1>1, <1>2, <2>1
  <2>3. \A i \in 1..stuckSamples' : window'[i].reading = last' /\ ~ window'[i].recovered
    <3>1. SUFFICES ASSUME NEW i \in 1..stuckSamples'
                   PROVE  window'[i].reading = last' /\ ~ window'[i].recovered
      OBVIOUS
    <3>2. CASE i = 1
      BY <1>2, <1>4, <2>1, <3>2
    <3>3. CASE i # 1
      <4>1. i - 1 \in 1..stuckSamples /\ i \in 2..Len(window')
        BY <1>1, <2>1, <2>2, <3>3
      <4>2. window[i - 1].reading = last /\ ~ window[i - 1].recovered
        BY <4>1 DEF StuckInv
      <4> QED
        BY <1>2, <2>1, <4>1, <4>2
    <3> QED
      BY <3>2, <3>3
  <2>4. ASSUME stuckSamples' < Len(window')
        PROVE  \/ window'[stuckSamples' + 1].recovered
               \/ stuckSamples' > 0 /\ window'[stuckSamples' + 1].reading # last'
    <3>1. stuckSamples' + 1 \in 2..Len(window') /\ stuckSamples < Len(window)
      BY <1>1, <1>2, <2>1, <2>4
    <3>2. window'[stuckSamples' + 1] = window[(stuckSamples' + 1) - 1]
      BY <1>2, <3>1
    <3>3. (stuckSamples' + 1) - 1 = stuckSamples + 1
      BY <1>1, <2>1
    <3> QED
      BY <2>1, <3>1, <3>2, <3>3 DEF StuckInv
  <2> QED
    BY <1>1, <1>4, <2>1, <2>2, <2>3, <2>4 DEF StuckInv
<1>5. CASE r # last
  <2>1. stuckSamples' = 1 /\ last' = r /\ ~ Stuck(r)
    BY <1>5 DEF Turn, ProcessSample, Stuck, StuckCount
  <2>2. ASSUME 1 < Len(window')
        PROVE  window'[2].recovered \/ window'[2].reading # r
    <3>1. 2 \in 2..Len(window') /\ Len(window) >= 1
      BY <1>1, <1>2, <2>2
    <3>2. window'[2] = window[1]
      BY <1>2, <3>1
    <3>3. CASE stuckSamples = 0
      BY <1>1, <3>1, <3>2, <3>3 DEF StuckInv
    <3>4. CASE stuckSamples > 0
      BY <1>1, <1>5, <3>1, <3>2, <3>4 DEF StuckInv
    <3> QED
      BY <1>1, <3>3, <3>4
  <2> QED
    BY <1>1, <1>2, <2>1, <2>2 DEF StuckInv
<1> QED
  BY <1>3, <1>4, <1>5

\* A sensor is reset at the sample that completes the run, and only there.
LEMMA RecoverStep ==
    ASSUME TypeOK, StuckInv, NEW r \in Readings, NEW interval \in Intervals,
           Turn(r, interval)
    PROVE  RecoversWhenFrozen'
<1> USE FdirAssumption, WindowSizeFacts
<1>1. /\ stuckSamples \in 0..(MaxStuck - 1)
      /\ Len(window) \in Nat /\ Len(window) <= WindowSize
      /\ stuckSamples <= Len(window)
      /\ stuckSamples = 0 <=> last = NoReading
  BY DEF TypeOK, StuckInv
<1>2. /\ Len(window') = IF Len(window) < WindowSize THEN Len(window) + 1 ELSE WindowSize
      /\ window'[1].reading = r
      /\ window'[1].recovered <=> Stuck(r)
      /\ \A i \in 2..Len(window') : i - 1 \in 1..Len(window) /\ window'[i] = window[i - 1]
  BY WindowStep, SampleFields
<1>3. ASSUME Stuck(r) PROVE Frozen(MaxStuck)'
  <2>1. r = last /\ stuckSamples = MaxStuck - 1
    BY <1>1, <1>3 DEF Stuck, StuckCount
  <2>2. \A i \in 2..MaxStuck : window[i - 1].reading = r /\ ~ window[i - 1].recovered
    BY <2>1 DEF StuckInv
  <2>3. Len(window') >= MaxStuck
    BY <1>1, <1>2, <2>1
  <2>4. \A i \in 2..MaxStuck : window'[i].reading = r /\ ~ window'[i].recovered
    <3>1. \A i \in 2..MaxStuck : i \in 2..Len(window')
      BY <1>2, <2>3
    <3> QED
      BY <1>2, <2>2, <3>1
  <2>5. ASSUME NEW i \in 1..MaxStuck PROVE window'[i].reading = window'[1].reading
    BY <1>2, <2>4
  <2> QED
    BY <2>3, <2>4, <2>5 DEF Frozen
<1>4. ASSUME Frozen(MaxStuck)' PROVE Stuck(r)
  <2>1. /\ Len(window') >= MaxStuck
        /\ \A i \in 2..MaxStuck : window'[i].reading = r /\ ~ window'[i].recovered
    BY <1>2, <1>4 DEF Frozen
  <2>2. ASSUME NEW j \in 1..(MaxStuck - 1)
        PROVE  window[j].reading = r /\ ~ window[j].recovered /\ j <= Len(window)
    <3>1. j + 1 \in 2..MaxStuck /\ j + 1 \in 2..Len(window') /\ (j + 1) - 1 = j
      BY <1>1, <2>1
    <3> QED
      BY <1>2, <2>1, <3>1
  <2>3. MaxStuck - 1 \in 1..(MaxStuck - 1) /\ 1 \in 1..(MaxStuck - 1)
    OBVIOUS
  <2>4. Len(window) >= MaxStuck - 1
    BY <1>1, <2>2, <2>3
  <2>5. stuckSamples > 0
    BY <1>1, <2>2, <2>3, <2>4 DEF StuckInv
  <2>6. last = r
    BY <1>1, <2>2, <2>3, <2>5 DEF StuckInv
  <2>7. stuckSamples = MaxStuck - 1
    <3>1. SUFFICES ASSUME stuckSamples < MaxStuck - 1 PROVE FALSE
      BY <1>1
    <3>2. stuckSamples + 1 \in 1..(MaxStuck - 1) /\ stuckSamples < Len(window)
      BY <1>1, <2>4, <3>1
    <3> QED
      BY <2>2, <2>6, <3>2 DEF StuckInv
  <2> QED
    BY <2>6, <2>7 DEF Stuck, StuckCount
<1> QED
  BY <1>2, <1>3, <1>4 DEF RecoversWhenFrozen

\* A sample is suspect exactly when process_sample counted an anomaly.
LEMMA SuspectSample ==
    ASSUME NEW r \in Readings, NEW interval \in Intervals
    PROVE  Suspect(Sample(r, interval)) <=> Anomalous(r, interval)
  BY DEF Suspect, Sample, Anomalous, OutOfRange, Jitter, ClampDt, Intervals

LEMMA NominalStep ==
    ASSUME TypeOK, NominalInv, NEW r \in Readings, NEW interval \in Intervals,
           Turn(r, interval)
    PROVE  NominalInv'
<1> USE FdirAssumption, WindowSizeFacts
<1>1. /\ nominalSamples \in 0..Nominal
      /\ Len(window) \in Nat /\ Len(window) <= WindowSize
      /\ nominalSamples <= Len(window)
      /\ anomaly <=> nominalSamples < Nominal /\ nominalSamples < Len(window)
  BY DEF TypeOK, NominalInv
<1>2. /\ Len(window') = IF Len(window) < WindowSize THEN Len(window) + 1 ELSE WindowSize
      /\ window'[1] = Sample(r, interval)
      /\ \A i \in 2..Len(window') : i - 1 \in 1..Len(window) /\ window'[i] = window[i - 1]
  BY WindowStep
<1>3. \A i \in 1..Len(window') : Suspect(window'[i]) \in BOOLEAN
  BY DEF Suspect
<1>4. CASE Anomalous(r, interval)
  <2>1. nominalSamples' = 0 /\ anomaly' = TRUE
    BY <1>4 DEF Turn, ProcessSample, CountNominal
  <2>2. Suspect(window'[1])
    BY <1>2, <1>4, SuspectSample
  <2> QED
    BY <1>1, <1>2, <2>1, <2>2 DEF NominalInv, Suspect
<1>5. CASE ~ Anomalous(r, interval)
  <2>1. /\ nominalSamples' = IF nominalSamples < Nominal THEN nominalSamples + 1 ELSE Nominal
        /\ anomaly' = (anomaly /\ nominalSamples + 1 < Nominal)
    BY <1>5 DEF Turn, ProcessSample, CountNominal
  <2>2. nominalSamples' <= Len(window') /\ nominalSamples' >= 1
    BY <1>1, <1>2, <2>1
  <2>3. \A i \in 1..nominalSamples' : ~ Suspect(window'[i])
    <3>1. SUFFICES ASSUME NEW i \in 1..nominalSamples' PROVE ~ Suspect(window'[i])
      OBVIOUS
    <3>2. CASE i = 1
      BY <1>2, <1>5, <3>2, SuspectSample
    <3>3. CASE i # 1
      <4>1. i - 1 \in 1..nominalSamples /\ i \in 2..Len(window')
        BY <1>1, <2>1, <2>2, <3>3
      <4>2. ~ Suspect(window[i - 1])
        BY <4>1 DEF NominalInv
      <4> QED
        BY <1>2, <4>1, <4>2
    <3> QED
      BY <3>2, <3>3
  <2>4. ASSUME nominalSamples' < Nominal, nominalSamples' < Len(window')
        PROVE  Suspect(window'[nominalSamples' + 1])
    <3>1. /\ nominalSamples' + 1 \in 2..Len(window')
          /\ nominalSamples' = nominalSamples + 1
          /\ nominalSamples < Nominal /\ nominalSamples < Len(window)
      BY <1>1, <1>2, <2>1, <2>2, <2>4
    <3>2. window'[nominalSamples' + 1] = window[(nominalSamples' + 1) - 1]
      BY <1>2, <3>1
    <3>3. (nominalSamples' + 1) - 1 = nominalSamples + 1
      BY <1>1, <3>1
    <3> QED
      BY <3>1, <3>2, <3>3 DEF NominalInv
  <2>5. anomaly' <=> nominalSamples' < Nominal /\ nominalSamples' < Len(window')
    <3>1. CASE anomaly
      <4>1. nominalSamples < Nominal /\ nominalSamples < Len(window)
        BY <1>1, <3>1
      <4>2. \/ nominalSamples' = nominalSamples + 1 /\ nominalSamples' < Len(window')
            \/ nominalSamples' = Nominal
        BY <1>1, <1>2, <2>1, <4>1
      <4>3. anomaly' <=> nominalSamples + 1 < Nominal
        BY <2>1, <3>1
      <4> QED
        BY <1>1, <2>1, <4>1, <4>2, <4>3
    <3>2. CASE ~ anomaly
      <4>1. nominalSamples >= Nominal \/ nominalSamples >= Len(window)
        BY <1>1, <3>2
      <4>2. ~ anomaly'
        BY <2>1, <3>2
      <4>3. nominalSamples' >= Nominal \/ nominalSamples' >= Len(window')
        BY <1>1, <1>2, <2>1, <4>1
      <4> QED
        BY <1>1, <1>2, <2>1, <4>2, <4>3
    <3> QED
      BY <3>1, <3>2
  <2> QED
    BY <2>2, <2>3, <2>4, <2>5 DEF NominalInv
<1> QED
  BY <1>4, <1>5

LEMMA HighGStep ==
    ASSUME TypeOK, HighGIsLastVerdict, NEW r \in Readings, NEW interval \in Intervals,
           Turn(r, interval)
    PROVE  HighGIsLastVerdict'
<1>1. /\ Len(window') \in Nat
      /\ window'[1].ok <=> SampleOk(r)
      /\ window'[1].reading = r
      /\ window'[1].fused <=> SampleOk(r) /\ Fuse(r)
      /\ \A i \in 2..Len(window') : i - 1 \in 1..Len(window) /\ window'[i] = window[i - 1]
  BY WindowStep, SampleFields
<1>2. SUFFICES ASSUME NEW i \in 1..Len(window')
      PROVE  /\ window'[i].fused => window'[i].ok
             /\ (window'[i].ok /\ \A j \in 1..(i - 1) : ~ window'[j].ok) =>
                   /\ highG' <=> window'[i].reading \in HighG \cup FreeFall
                   /\ highG' <=> ~ window'[i].fused
  BY DEF HighGIsLastVerdict
<1>3. CASE i = 1
  <2>1. SampleOk(r) => highG' = ~ Fuse(r)
    BY DEF Turn, ProcessSample, Gate
  <2>2. Fuse(r) <=> r \notin HighG \cup FreeFall
    BY DEF Fuse
  <2> QED
    BY <1>1, <1>3, <2>1, <2>2
<1>4. CASE i # 1
  <2>1. i \in 2..Len(window') /\ i - 1 \in 1..Len(window) /\ window'[i] = window[i - 1]
    BY <1>1, <1>4
  <2>2. window[i - 1].fused => window[i - 1].ok
    BY <2>1 DEF HighGIsLastVerdict
  <2>3. ASSUME window'[i].ok, \A j \in 1..(i - 1) : ~ window'[j].ok
        PROVE  /\ highG' <=> window'[i].reading \in HighG \cup FreeFall
               /\ highG' <=> ~ window'[i].fused
    <3>1. ~ SampleOk(r)
      BY <1>1, <2>1, <2>3
    <3>2. highG' = highG
      BY <3>1 DEF Turn, ProcessSample
    <3>3. \A j \in 1..((i - 1) - 1) : ~ window[j].ok
      <4>1. SUFFICES ASSUME NEW j \in 1..((i - 1) - 1) PROVE ~ window[j].ok
        OBVIOUS
      <4>2. j + 1 \in 1..(i - 1) /\ j + 1 \in 2..Len(window') /\ (j + 1) - 1 = j
        BY <2>1
      <4> QED
        BY <1>1, <2>3, <4>2
    <3> QED
      BY <2>1, <2>3, <3>2, <3>3 DEF HighGIsLastVerdict
  <2> QED
    BY <2>1, <2>2, <2>3
<1> QED
  BY <1>3, <1>4

\* FdirInv holds in every reachable state, for all values of the constants.
THEOREM FdirInvariance == Spec => []FdirInv
<1>1. FdirInv /\ [Next]_vars => FdirInv'
  <2> SUFFICES ASSUME FdirInv, [Next]_vars PROVE FdirInv'
    OBVIOUS
  <2>1. CASE Next
    <3>1. PICK r \in Readings, interval \in Intervals : Turn(r, interval)
      BY <2>1 DEF Next
    <3> QED
      BY <3>1, TypeStep, StuckStep, RecoverStep, NominalStep, HighGStep DEF FdirInv
  <2>2. CASE UNCHANGED vars
    BY <2>2 DEF vars, fdirVars, FdirInv, TypeOK, StuckInv, RecoversWhenFrozen, Frozen, NominalInv,
                Suspect, HighGIsLastVerdict
  <2> QED
    BY <2>1, <2>2
<1> QED
  BY InitInv, <1>1, PTL DEF Spec

\* Every variable keeps its type, and the stuck counter stays below its limit.
THEOREM FdirTypes == Spec => []TypeOK
<1>1. FdirInv => TypeOK
  BY DEF FdirInv
<1> QED
  BY FdirInvariance, <1>1, PTL

\* The sensor is reset at the sample that completes MaxStuck identical ones since the
\* last reset, and at no other.
THEOREM StuckWatchdog == Spec => []RecoversWhenFrozen
<1>1. FdirInv => RecoversWhenFrozen
  BY DEF FdirInv
<1> QED
  BY FdirInvariance, <1>1, PTL

\* The anomaly flag is up exactly while one of the last Nominal samples was suspect.
THEOREM AnomalyFilter == Spec => []AnomalyIsRecent
<1>1. FdirInv => AnomalyIsRecent
  <2> SUFFICES ASSUME FdirInv PROVE AnomalyIsRecent
    OBVIOUS
  <2>1. /\ nominalSamples \in 0..Nominal /\ Nominal \in Nat
        /\ Len(window) \in Nat
        /\ nominalSamples <= Len(window)
    BY FdirAssumption DEF FdirInv, TypeOK, NominalInv
  <2>2. ASSUME anomaly
        PROVE  \E i \in 1..Len(window) : i <= Nominal /\ Suspect(window[i])
    <3>1. nominalSamples < Nominal /\ nominalSamples < Len(window)
      BY <2>2 DEF FdirInv, NominalInv
    <3>2. /\ nominalSamples + 1 \in 1..Len(window)
          /\ nominalSamples + 1 <= Nominal
          /\ Suspect(window[nominalSamples + 1])
      BY <2>1, <3>1 DEF FdirInv, NominalInv
    <3> QED
      BY <3>2
  <2>3. ASSUME NEW i \in 1..Len(window), i <= Nominal, Suspect(window[i])
        PROVE  anomaly
    <3>1. ~ (i \in 1..nominalSamples)
      BY <2>3 DEF FdirInv, NominalInv
    <3>2. nominalSamples < Nominal /\ nominalSamples < Len(window)
      BY <2>1, <2>3, <3>1
    <3> QED
      BY <3>2 DEF FdirInv, NominalInv
  <2> QED
    BY <2>2, <2>3 DEF AnomalyIsRecent, FdirInv, TypeOK
<1> QED
  BY FdirInvariance, <1>1, PTL

\* HIGH_G_REJECTION is the verdict on the newest accepted sample.
THEOREM GateVerdict == Spec => []HighGIsLastVerdict
<1>1. FdirInv => HighGIsLastVerdict
  BY DEF FdirInv
<1> QED
  BY FdirInvariance, <1>1, PTL

================================================================================
