---------------------------- MODULE SensingSafety ----------------------------
(***************************************************************************)
(* Proofs about the sampling of a tag, at every rate and cadence, with      *)
(* buckets of any width and a window of any length:                         *)
(*                                                                          *)
(*   RateKept         samples are the tag's rate apart, also when going live*)
(*   AlarmsFollow     the latch and the PLC against what the readings say   *)
(*   SpanKept         the window that ends now is in the history            *)
(***************************************************************************)
EXTENDS Sensing, TLAPS

-----------------------------------------------------------------------------
(* When the tag is read                                                     *)

Clock ==
  /\ now \in Nat /\ nextSample \in Nat /\ now <= nextSample
  /\ interval \in {Cadence, LiveCadence} /\ tag \in Tag
  /\ lastSampled \in Nat \cup {Unset}
  /\ lastSampled # Unset => lastSampled <= now

(* The callback that is booked is where the next sample may be; it may be   *)
(* so early only if the cadence is too fast for the tag to be due then.     *)
Spaced ==
  lastSampled # Unset =>
    LET gap == nextSample - lastSampled IN
    IF tag.rate = Unset THEN gap \in {Cadence, LiveCadence}
    ELSE gap < tag.rate + Cadence /\ (tag.rate <= interval => tag.rate <= gap)

RateInv == Clock /\ Spaced

(* A callback reads the tag, or finds that it is not due; nothing else      *)
(* moves its samples, and going live only makes the cadence faster.         *)
LEMMA SamplingStep ==
  ASSUME [SamplingNext]_sensing
  PROVE  /\ UNCHANGED tag
         /\ \/ Callback /\ IsDue /\ lastSampled' = now
            \/ Callback /\ ~IsDue /\ UNCHANGED lastSampled
            \/ interval = Cadence /\ interval' = LiveCadence /\ UNCHANGED <<now, nextSample, lastSampled>>
            \/ now < nextSample /\ now' = now + 1 /\ UNCHANGED <<interval, nextSample, lastSampled>>
            \/ UNCHANGED <<now, interval, nextSample, lastSampled>>
<1> USE DEF sensing, sampling, instrument, Callback
<1>1. CASE (\E v \in Value : ReadValue(v)) \/ Stick \/ ReadStuck
  BY <1>1 DEF ReadValue, Stick, ReadStuck, Read
<1>2. CASE Pass
  BY <1>2 DEF Pass
<1>3. CASE DropOut
  BY <1>3 DEF DropOut
<1>4. CASE (\E k \in Scale : BeginStage(k)) \/ FinishStage \/ Fail \/ StartJob
              \/ CompleteJob \/ InvestigateFault
  BY <1>4 DEF BeginStage, FinishStage, Fail, StartJob, CompleteJob, InvestigateFault
<1>5. CASE GoLive \/ Wait
  BY <1>5 DEF GoLive, Wait
<1>6. CASE UNCHANGED sensing
  BY <1>6
<1> QED
  BY <1>1, <1>2, <1>3, <1>4, <1>5, <1>6 DEF SamplingNext

LEMMA RateInit == SamplingInit => RateInv
BY SensingParameters DEF SamplingInit, RateInv, Clock, Spaced

LEMMA RateStep ==
  ASSUME RateInv, [SamplingNext]_sensing
  PROVE  /\ RateInv'
         /\ LET gap == now - lastSampled IN
            lastSampled' # lastSampled /\ lastSampled # Unset =>
              IF tag.rate = Unset THEN gap \in {Cadence, LiveCadence}
              ELSE gap >= tag.rate /\ gap < tag.rate + Cadence
<1>1. /\ Cadence \in Nat \ {0} /\ LiveCadence \in Nat \ {0} /\ LiveCadence <= Cadence
      /\ tag.rate \in (Nat \ {0}) \cup {Unset} /\ Unset \notin Int
  BY SensingParameters, LiveIsDenser DEF RateInv, Clock
<1>2. Clock /\ Spaced /\ UNCHANGED tag
  BY SamplingStep DEF RateInv
<1>3. CASE Callback /\ IsDue /\ lastSampled' = now
  <2>1. /\ now = nextSample /\ nextSample' = now + interval /\ UNCHANGED <<now, interval>>
    BY <1>3 DEF Callback
  <2>2. Clock'
    BY <1>1, <1>2, <1>3, <2>1 DEF Clock
  <2>3. Spaced'
    BY <1>1, <1>2, <1>3, <2>1 DEF Clock, Spaced
  <2>4. ASSUME lastSampled # Unset, tag.rate # Unset
        PROVE  now - lastSampled >= tag.rate /\ now - lastSampled < tag.rate + Cadence
    BY <1>1, <1>2, <1>3, <2>1, <2>4 DEF Clock, Spaced, IsDue
  <2>5. ASSUME lastSampled # Unset, tag.rate = Unset
        PROVE  now - lastSampled \in {Cadence, LiveCadence}
    BY <1>2, <2>1, <2>5 DEF Spaced
  <2> QED
    BY <2>2, <2>3, <2>4, <2>5 DEF RateInv
<1>4. CASE Callback /\ ~IsDue /\ UNCHANGED lastSampled
  <2>1. /\ now = nextSample /\ nextSample' = now + interval /\ UNCHANGED <<now, interval>>
    BY <1>4 DEF Callback
  <2>2. /\ lastSampled # Unset /\ tag.rate # Unset /\ interval < tag.rate
        /\ now - lastSampled < tag.rate
    BY <1>1, <1>2, <1>4 DEF IsDue, Clock
  <2>3. Clock'
    BY <1>1, <1>2, <1>4, <2>1 DEF Clock
  <2>4. Spaced'
    BY <1>1, <1>2, <1>4, <2>1, <2>2 DEF Clock, Spaced
  <2> QED
    BY <1>4, <2>3, <2>4 DEF RateInv
<1>5. CASE interval = Cadence /\ interval' = LiveCadence /\ UNCHANGED <<now, nextSample, lastSampled>>
  BY <1>1, <1>2, <1>5 DEF RateInv, Clock, Spaced
<1>6. CASE now < nextSample /\ now' = now + 1 /\ UNCHANGED <<interval, nextSample, lastSampled>>
  BY <1>1, <1>2, <1>6 DEF RateInv, Clock, Spaced
<1>7. CASE UNCHANGED <<now, interval, nextSample, lastSampled>>
  BY <1>1, <1>2, <1>7 DEF RateInv, Clock, Spaced
<1> QED
  BY <1>3, <1>4, <1>5, <1>6, <1>7, SamplingStep

LEMMA RateHolds == SamplingSpec => []RateInv
BY RateInit, RateStep, PTL DEF SamplingSpec

(* Two samples of a tag are its rate apart and less than one cadence more,  *)
(* also around the change of cadence when a run goes live (telemetry.py:187)*)
THEOREM RateKept == SamplingSpec => SamplesKeepTheirRate
<1>1. RateInv /\ [SamplingNext]_sensing =>
        [LET gap == now - lastSampled IN
         lastSampled' # lastSampled /\ lastSampled # Unset =>
           IF tag.rate = Unset THEN gap \in {Cadence, LiveCadence}
           ELSE gap >= tag.rate /\ gap < tag.rate + Cadence]_sensing
  BY RateStep
<1> QED
  BY <1>1, RateHolds, PTL DEF SamplingSpec, SamplesKeepTheirRate

-----------------------------------------------------------------------------
(* The latch, the PLC and the readings                                      *)

AlarmInv ==
  /\ AlarmsFollowExcursions
  /\ latched \in BOOLEAN /\ serviced \in BOOLEAN
  /\ verdict \in {Unset, "within", "off"} \cup LimitAlarm

(* A reading: the verdict follows the readings, the latch and the PLC what  *)
(* _check_limits does, and they agree again.                                *)
LEMMA ReadingStep ==
  ASSUME AlarmInv, NEW v, CheckLimits(v), Judge(v), UNCHANGED state
  PROVE  AlarmInv'
<1>1. /\ Unset \notin {"within", "off", "ALARM_HIGH", "ALARM_LOW"}
      /\ Kind(v) # Unset => Kind(v) \in LimitAlarm
      /\ "FAULT" \notin LimitAlarm /\ "within" \notin LimitAlarm /\ "off" \notin LimitAlarm
      /\ Unset \notin LimitAlarm
  BY SensingParameters DEF Kind, LimitAlarm
<1>2. serviced' \in BOOLEAN /\ (serviced' => serviced)
  BY DEF Judge, AlarmInv
<1>3. CASE ~IsMeaningful
  <2>1. latched' = FALSE /\ alarms' = alarms /\ verdict' = "off"
    BY <1>3 DEF CheckLimits, Judge
  <2> QED
    BY <1>1, <1>2, <2>1 DEF AlarmInv, AlarmsFollowExcursions
<1>4. CASE IsMeaningful /\ Kind(v) = Unset
  <2>1. latched' = FALSE /\ alarms' = alarms \ LimitAlarm /\ verdict' = "within"
    BY <1>4 DEF CheckLimits, Judge
  <2> QED
    BY <1>1, <1>2, <2>1 DEF AlarmInv, AlarmsFollowExcursions
<1>5. CASE IsMeaningful /\ Kind(v) # Unset /\ latched
  <2>1. latched' = TRUE /\ alarms' = alarms /\ verdict' = verdict /\ verdict \in LimitAlarm
    BY <1>5 DEF CheckLimits, Judge, AlarmInv, AlarmsFollowExcursions
  <2>2. serviced' = serviced
    BY <2>1 DEF Judge, AlarmInv
  <2> QED
    BY <1>1, <2>1, <2>2 DEF AlarmInv, AlarmsFollowExcursions
<1>6. CASE IsMeaningful /\ Kind(v) # Unset /\ ~latched
  <2>1. verdict \notin LimitAlarm
    BY <1>6 DEF AlarmInv, AlarmsFollowExcursions
  <2>2. latched' = TRUE /\ alarms' = alarms \cup {Kind(v)} /\ verdict' = Kind(v)
    BY <1>6, <2>1 DEF CheckLimits, Judge
  <2> QED
    BY <1>1, <1>2, <1>6, <2>2 DEF AlarmInv, AlarmsFollowExcursions
<1> QED
  BY <1>3, <1>4, <1>5, <1>6

LEMMA AlarmStep ==
  ASSUME AlarmInv, [SamplingNext]_sensing
  PROVE  AlarmInv'
<1> USE DEF AlarmInv, AlarmsFollowExcursions
<1>1. CASE (\E v \in Value : ReadValue(v)) \/ Stick \/ ReadStuck
  <2>1. UNCHANGED state /\ \E v : CheckLimits(v) /\ Judge(v)
    BY <1>1 DEF ReadValue, Stick, ReadStuck, Read, Callback, machine
  <2> QED
    BY <2>1, ReadingStep
<1>2. CASE Fail
  <2>1. /\ alarms' = alarms \cup {"FAULT"} /\ "FAULT" \notin LimitAlarm
        /\ UNCHANGED <<latched, verdict, serviced>>
    BY <1>2 DEF Fail, witness, LimitAlarm
  <2> QED
    BY <2>1
<1>3. CASE CompleteJob
  <2>1. /\ alarms' = {} /\ state' = Idle /\ serviced' = (verdict \in LimitAlarm)
        /\ UNCHANGED <<latched, verdict>>
    BY <1>3 DEF CompleteJob
  <2>2. Idle # Down
    BY SensingParameters
  <2> QED
    BY <2>1, <2>2
<1>4. CASE state' # Down /\ UNCHANGED <<alarming, witness>>
  BY <1>4 DEF alarming, witness
<1>5. CASE UNCHANGED <<state, alarming, witness>>
  BY <1>5 DEF alarming, witness
<1>6. ASSUME (\E k \in Scale : BeginStage(k)) \/ StartJob
      PROVE  state' # Down /\ UNCHANGED <<alarming, witness>>
  <2>1. Running # Down /\ Service # Down
    BY SensingParameters
  <2> QED
    BY <1>6, <2>1 DEF BeginStage, StartJob
<1>7. ASSUME FinishStage
      PROVE  (state' # Down \/ UNCHANGED state) /\ UNCHANGED <<alarming, witness>>
  BY <1>7, SensingParameters DEF FinishStage
<1>8. Pass \/ DropOut \/ InvestigateFault \/ GoLive \/ Wait \/ UNCHANGED sensing
      => UNCHANGED <<state, alarming, witness>>
  BY DEF Pass, DropOut, InvestigateFault, GoLive, Wait, Callback, sensing, machine, alarming
<1> QED
  BY <1>1, <1>2, <1>3, <1>4, <1>5, <1>6, <1>7, <1>8 DEF SamplingNext

(* The latch of the sensor and the alarms of the PLC agree with what the    *)
(* readings say: set exactly during an excursion, so that the next one is   *)
(* raised again; shown throughout it, unless a job was completed meanwhile; *)
(* gone with a reading within limits; and a machine that is down shows its  *)
(* fault; whatever stops, setpoints, jobs, dropouts or stuck instruments    *)
(* come in between (telemetry.py:226-258, maintenance.py:315).              *)
THEOREM AlarmsFollow == SamplingSpec => []AlarmsFollowExcursions
<1>1. SamplingInit => AlarmInv
  <2>1. Idle # Down /\ Unset \notin LimitAlarm
    BY SensingParameters DEF LimitAlarm
  <2> QED
    BY <2>1 DEF SamplingInit, AlarmInv, AlarmsFollowExcursions
<1>2. AlarmInv => AlarmsFollowExcursions
  BY DEF AlarmInv
<1> QED
  BY <1>1, <1>2, AlarmStep, PTL DEF SamplingSpec

-----------------------------------------------------------------------------
(* What the history keeps                                                   *)

LEMMA Multiples ==
  ASSUME NEW p \in Nat, NEW q \in Nat
  PROVE  /\ p * Width \in Nat
         /\ p * Width < q * Width => p * Width + Width <= q * Width
         /\ p <= q => p * Width <= q * Width
<1>1. Width \in Nat \ {0} /\ p * Width \in Nat /\ q * Width \in Nat
  BY SensingParameters
<1>2. ASSUME NEW a \in Nat, NEW b \in Nat, a <= b PROVE a * Width <= b * Width
  <2>1. b - a \in Nat /\ b * Width = a * Width + (b - a) * Width /\ (b - a) * Width \in Nat
        /\ a * Width \in Nat
    BY <1>1, <1>2
  <2> QED
    BY <2>1
<1>3. CASE p < q
  <2>1. (p + 1) * Width = p * Width + Width /\ (p + 1) * Width <= q * Width
    BY <1>1, <1>2, <1>3
  <2> QED
    BY <1>1, <1>2, <1>3, <2>1
<1>4. CASE q <= p
  BY <1>1, <1>2, <1>4
<1> QED
  BY <1>3, <1>4

(* The slot of an instant is the last multiple of the width up to it.       *)
LEMMA SlotOf ==
  ASSUME NEW t \in Nat
  PROVE  /\ Slot(t) \in Nat /\ Slot(t) <= t
         /\ \E q \in Nat : Slot(t) = q * Width
         /\ \A q \in Nat : q * Width <= t => q * Width <= Slot(t)
<1> DEFINE k == t \div Width
<1>1. Width \in Nat \ {0} /\ k \in Nat /\ k * Width <= t /\ t < (k + 1) * Width
  BY SensingParameters
<1>2. Slot(t) = k * Width
  BY DEF Slot
<1> HIDE DEF k
<1>3. ASSUME NEW q \in Nat, q * Width <= t PROVE q * Width <= k * Width
  <2>1. CASE q <= k
    BY <1>1, <2>1, Multiples
  <2>2. CASE k + 1 <= q
    <3>1. (k + 1) * Width <= q * Width /\ q * Width \in Nat /\ (k + 1) * Width \in Nat
      BY <1>1, <2>2, Multiples
    <3> QED
      BY <1>1, <1>3, <3>1
  <2> QED
    BY <1>1, <2>1, <2>2
<1> QED
  BY <1>1, <1>2, <1>3, Multiples

(* The buckets that are kept span one width more than the window.           *)
LEMMA BucketsSpan ==
  /\ MaxBuckets \in Nat /\ MaxBuckets >= 4
  /\ MaxBuckets * Width \in Nat /\ Lookback + Width <= MaxBuckets * Width
<1> DEFINE n == Lookback + Width - 1
           k == n \div Width
<1>1. Width \in Nat \ {0} /\ Lookback \in Nat \ {0} /\ n \in Nat
  BY SensingParameters
<1>2. MaxBuckets = IF k + 1 < 4 THEN 4 ELSE k + 1
  BY DEF MaxBuckets
<1> HIDE DEF n
<1>3. k \in Nat /\ n < (k + 1) * Width
  BY <1>1
<1> HIDE DEF k
<1>4. (k + 1) * Width \in Nat /\ Lookback + Width <= (k + 1) * Width
  BY <1>1, <1>3, Multiples DEF n
<1>5. MaxBuckets \in Nat /\ MaxBuckets >= 4 /\ k + 1 <= MaxBuckets
  BY <1>2, <1>3
<1>6. (k + 1) * Width <= MaxBuckets * Width /\ MaxBuckets * Width \in Nat
  BY <1>3, <1>5, Multiples
<1> QED
  BY <1>1, <1>4, <1>5, <1>6

(* The buckets lie a width or more apart, and what has been forgotten lies  *)
(* that far before them, which takes a full history.                        *)
SpanInv ==
  /\ now \in Nat /\ buckets \in Seq(Nat) /\ Len(buckets) <= MaxBuckets
  /\ recorded \in SUBSET Nat
  /\ \A i \in 1..Len(buckets) : buckets[i] <= now /\ \E q \in Nat : buckets[i] = q * Width
  /\ \A i, j \in 1..Len(buckets) : i < j => buckets[i] + (j - i) * Width <= buckets[j]
  /\ \A r \in recorded :
       \/ \E i \in 1..Len(buckets) : buckets[i] = r
       \/ Len(buckets) = MaxBuckets /\ r + Width <= buckets[1]

LEMMA RecordKeepsSpan ==
  ASSUME SpanInv, Record, UNCHANGED now
  PROVE  SpanInv'
<1> DEFINE n == Len(buckets)
           s == Slot(now)
           longer == Append(buckets, s)
           k == IF n + 1 < MaxBuckets THEN n + 1 ELSE MaxBuckets
           m == n + 2 - k
           kept == SubSeq(longer, m, n + 1)
<1>1. /\ now \in Nat /\ buckets \in Seq(Nat) /\ n \in Nat /\ Width \in Nat \ {0}
      /\ MaxBuckets \in Nat /\ MaxBuckets >= 4 /\ n <= MaxBuckets
      /\ recorded \in SUBSET Nat /\ \A i \in 1..n : buckets[i] \in Nat
  <2>1. now \in Nat /\ buckets \in Seq(Nat) /\ n <= MaxBuckets /\ recorded \in SUBSET Nat
    BY DEF SpanInv
  <2>2. n \in Nat /\ \A i \in 1..n : buckets[i] \in Nat
    BY <2>1
  <2>3. Width \in Nat \ {0}
    BY SensingParameters
  <2> QED
    BY <2>1, <2>2, <2>3, BucketsSpan
<1>2. /\ s \in Nat /\ s <= now /\ \E q \in Nat : s = q * Width
      /\ \A i \in 1..n : buckets[i] <= s
  BY <1>1, SlotOf DEF SpanInv
<1>3. recorded' = recorded \cup {s}
  BY DEF Record
<1> HIDE DEF s
<1>4. CASE buckets # <<>> /\ buckets[n] = s
  <2>1. buckets' = buckets /\ n \in 1..n
    BY <1>1, <1>4 DEF Record, Last, s
  <2> QED
    BY <1>1, <1>2, <1>3, <1>4, <2>1 DEF SpanInv
<1>5. CASE ~ (buckets # <<>> /\ buckets[n] = s)
  <2>1. /\ longer \in Seq(Nat) /\ Len(longer) = n + 1 /\ longer[n + 1] = s
        /\ \A i \in 1..n : longer[i] = buckets[i]
    BY <1>1, <1>2
  <2> HIDE DEF longer
  <2>2. buckets' = SubSeq(longer, Len(longer) + 1 - (IF Len(longer) < MaxBuckets
                                                       THEN Len(longer) ELSE MaxBuckets),
                            Len(longer))
    BY <1>5 DEF Record, Last, longer, s
  <2>3. buckets' = kept
    <3>1. Len(longer) + 1 - (IF Len(longer) < MaxBuckets THEN Len(longer) ELSE MaxBuckets) = m
      BY <1>1, <2>1
    <3> QED
      BY <2>1, <2>2, <3>1
  <2>4. \/ m = 1 /\ k = n + 1 /\ n < MaxBuckets
        \/ m = 2 /\ k = n /\ n = MaxBuckets
    BY <1>1
  <2>5. k \in Nat /\ m \in Nat /\ k <= MaxBuckets /\ m + k = n + 2
    BY <1>1, <2>4
  <2> HIDE DEF k, m
  <2>6. /\ kept \in Seq(Nat) /\ Len(kept) = k
        /\ \A i \in 1..k : kept[i] = longer[m + i - 1] /\ m + i - 1 \in 1..(n + 1)
    BY <1>1, <2>1, <2>4, <2>5
  <2> HIDE DEF kept
  <2>7. \A i \in 1..(n + 1) : i \in 1..n \/ i = n + 1
    BY <1>1
  <2>8. \A i \in 1..(n + 1) : longer[i] \in Nat /\ longer[i] <= now /\ \E q \in Nat : longer[i] = q * Width
    BY <1>1, <1>2, <2>1, <2>7 DEF SpanInv
  <2>9. ASSUME NEW i \in 1..n PROVE buckets[i] + (n + 1 - i) * Width <= s
    <3>1. n \in 1..n /\ buckets[n] + Width <= s
      <4>1. n \in 1..n /\ buckets # <<>>
        BY <1>1, <2>9
      <4>2. buckets[n] # s /\ buckets[n] <= s
        BY <1>2, <1>5, <4>1
      <4>3. PICK p \in Nat : buckets[n] = p * Width
        BY <4>1 DEF SpanInv
      <4>4. PICK q \in Nat : s = q * Width
        BY <1>2
      <4>5. p * Width < q * Width => p * Width + Width <= q * Width
        BY Multiples
      <4> QED
        BY <1>1, <1>2, <4>1, <4>2, <4>3, <4>4, <4>5
    <3>2. CASE i = n
      BY <1>1, <1>2, <3>1, <3>2
    <3>3. CASE i # n
      <4>1. buckets[i] + (n - i) * Width <= buckets[n]
        BY <1>1, <2>9, <3>1, <3>3 DEF SpanInv
      <4>2. (n + 1 - i) * Width = (n - i) * Width + Width /\ (n - i) * Width \in Nat
        BY <1>1, <2>9
      <4> QED
        BY <1>1, <1>2, <2>9, <3>1, <4>1, <4>2
    <3> QED
      BY <3>2, <3>3
  <2>10. ASSUME NEW i \in 1..(n + 1), NEW j \in 1..(n + 1), i < j
         PROVE  longer[i] + (j - i) * Width <= longer[j]
    <3>1. i \in 1..n
      BY <1>1, <2>10
    <3>2. CASE j \in 1..n
      BY <2>1, <2>10, <3>1, <3>2 DEF SpanInv
    <3>3. CASE j = n + 1
      BY <2>1, <2>9, <3>1, <3>3
    <3> QED
      BY <2>7, <3>2, <3>3
  <2>11. ASSUME NEW i \in 1..k, NEW j \in 1..k, i < j
         PROVE  kept[i] + (j - i) * Width <= kept[j]
    <3>1. m + i - 1 < m + j - 1 /\ (m + j - 1) - (m + i - 1) = j - i
      BY <2>5, <2>11
    <3> QED
      BY <2>6, <2>10, <3>1
  <2>12. ASSUME NEW i \in 1..(n + 1)
         PROVE  \/ \E h \in 1..k : kept[h] = longer[i]
                \/ k = MaxBuckets /\ longer[i] + Width <= kept[1]
    <3>1. CASE m <= i
      <4>1. i + 1 - m \in 1..k /\ m + (i + 1 - m) - 1 = i
        BY <1>1, <2>5, <3>1
      <4> QED
        BY <2>6, <4>1
    <3>2. CASE i < m
      <4>1. i = 1 /\ m = 2 /\ k = MaxBuckets /\ 2 \in 1..(n + 1) /\ 1 \in 1..k
        BY <1>1, <2>4, <2>5, <3>2
      <4>2. longer[1] + (2 - 1) * Width <= longer[2] /\ (2 - 1) * Width = Width
        BY <1>1, <2>10, <4>1
      <4>3. kept[1] = longer[2]
        BY <2>6, <4>1
      <4> QED
        BY <4>1, <4>2, <4>3
    <3> QED
      BY <2>5, <3>1, <3>2
  <2>13. ASSUME NEW r \in recorded'
         PROVE  \/ \E h \in 1..k : kept[h] = r
                \/ k = MaxBuckets /\ r + Width <= kept[1]
    <3>1. CASE r = s
      <4>1. n + 1 \in 1..(n + 1) /\ n + 1 - m + 1 = k /\ k \in 1..k /\ m + k - 1 = n + 1
        BY <1>1, <2>4, <2>5
      <4> QED
        BY <2>1, <2>6, <3>1, <4>1
    <3>2. CASE \E i \in 1..n : buckets[i] = r
      <4>1. PICK i \in 1..n : longer[i] = r
        BY <2>1, <3>2
      <4>2. i \in 1..(n + 1)
        BY <1>1
      <4> QED
        BY <2>12, <4>1, <4>2
    <3>3. CASE n = MaxBuckets /\ r + Width <= buckets[1] /\ r \in Nat
      <4>1. m = 2 /\ k = MaxBuckets /\ 1 \in 1..k /\ 1 \in 1..n /\ 2 \in 1..n
        BY <1>1, <2>4, <3>3
      <4>2. kept[1] = buckets[2]
        BY <2>1, <2>6, <4>1
      <4>3. buckets[1] + (2 - 1) * Width <= buckets[2] /\ (2 - 1) * Width = Width
        BY <1>1, <4>1 DEF SpanInv
      <4>4. buckets[1] \in Nat /\ buckets[2] \in Nat
        BY <1>1, <4>1
      <4> QED
        BY <1>1, <3>3, <4>1, <4>2, <4>3, <4>4
    <3> QED
      BY <1>1, <1>3, <3>1, <3>2, <3>3 DEF SpanInv
  <2>14. recorded' \in SUBSET Nat
    BY <1>1, <1>2, <1>3
  <2>15. /\ now' \in Nat /\ buckets' \in Seq(Nat) /\ Len(buckets') = k
         /\ \A i \in 1..k : buckets'[i] <= now' /\ \E q \in Nat : buckets'[i] = q * Width
    BY <1>1, <2>3, <2>6, <2>8
  <2> QED
    BY <2>3, <2>5, <2>11, <2>13, <2>14, <2>15 DEF SpanInv
<1> QED
  BY <1>4, <1>5

LEMMA SpanStep ==
  ASSUME SpanInv, [SamplingNext]_sensing
  PROVE  SpanInv'
<1>1. CASE (\E v \in Value : ReadValue(v)) \/ Stick \/ ReadStuck
  <2>1. Record /\ UNCHANGED now
    BY <1>1 DEF ReadValue, Stick, ReadStuck, Read, Callback
  <2> QED
    BY <2>1, RecordKeepsSpan
<1>2. CASE Wait
  <2>1. now' = now + 1 /\ UNCHANGED <<buckets, recorded>>
    BY <1>2 DEF Wait, memory
  <2> QED
    BY <2>1 DEF SpanInv
<1>3. CASE UNCHANGED <<now, buckets, recorded>>
  BY <1>3 DEF SpanInv
<1>4. \/ Pass \/ DropOut \/ (\E k \in Scale : BeginStage(k)) \/ FinishStage \/ Fail \/ StartJob
      \/ CompleteJob \/ InvestigateFault \/ GoLive \/ UNCHANGED sensing
      => UNCHANGED <<now, buckets, recorded>>
  BY DEF Pass, DropOut, BeginStage, FinishStage, Fail, StartJob, CompleteJob, InvestigateFault, GoLive,
         Callback, sensing, memory
<1> QED
  BY <1>1, <1>2, <1>3, <1>4 DEF SamplingNext

(* A window that ends now is in the history in full, wherever in a bucket   *)
(* it ends, after any gaps and at either cadence (history.py:87).           *)
THEOREM SpanKept == SamplingSpec => []HistoryKeepsItsSpan
<1>1. SamplingInit => SpanInv
  <2> SUFFICES ASSUME SamplingInit PROVE SpanInv
    OBVIOUS
  <2>1. buckets = <<>> /\ recorded = {} /\ now = 0
    BY DEF SamplingInit
  <2>2. <<>> \in Seq(Nat) /\ Len(<<>>) = 0
    OBVIOUS
  <2> QED
    BY <2>1, <2>2, BucketsSpan DEF SpanInv
<1>2. SpanInv => HistoryKeepsItsSpan
  <2> SUFFICES ASSUME SpanInv, NEW r \in Window(recorded, now) PROVE r \in ToSet(buckets)
    BY DEF HistoryKeepsItsSpan
  <2> DEFINE n == Len(buckets)
  <2>1. /\ now \in Nat /\ n \in Nat /\ r \in Nat /\ r \in recorded /\ now - Lookback <= r
        /\ Width \in Nat \ {0} /\ Lookback \in Nat \ {0} /\ buckets \in Seq(Nat)
    BY SensingParameters DEF SpanInv, Window
  <2>2. CASE \E i \in 1..n : buckets[i] = r
    BY <2>1, <2>2 DEF ToSet
  <2>3. CASE n = MaxBuckets /\ r + Width <= buckets[1]
    <3>1. 1 \in 1..n /\ n \in 1..n /\ 1 < n
      BY <2>1, <2>3, BucketsSpan
    <3>2. buckets[1] + (n - 1) * Width <= buckets[n] /\ buckets[n] <= now
      BY <3>1 DEF SpanInv
    <3>3. n * Width = (n - 1) * Width + Width /\ (n - 1) * Width \in Nat
      BY <2>1, <3>1
    <3>4. n * Width \in Nat /\ Lookback + Width <= n * Width
      BY <2>3, BucketsSpan
    <3>5. buckets[1] \in Nat /\ buckets[n] \in Nat
      BY <2>1, <3>1
    <3> HIDE DEF n
    <3> QED
      BY <2>1, <2>3, <3>2, <3>3, <3>4, <3>5
  <2> QED
    BY <2>1, <2>2, <2>3 DEF SpanInv
<1> QED
  BY <1>1, <1>2, SpanStep, PTL DEF SamplingSpec

=============================================================================
