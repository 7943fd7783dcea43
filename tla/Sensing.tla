------------------------------- MODULE Sensing --------------------------------
(***************************************************************************)
(* One tag of one machine: when the sampler reads it, what its instrument   *)
(* does, the alarms of its PLC, and the history an investigation reads back.*)
(* TelemetrySampler, SensorModel, Plc and SensorHistory, with as much of    *)
(* the machine as they look at and the investigation of its failures.       *)
(*                                                                          *)
(* The tags of a machine are read in one loop and share nothing that is     *)
(* represented here, so one stands for all.  Values are a few numbers on    *)
(* either side of the limits; the signal model (baseline, wear, drift,      *)
(* correlation, ambient, noise) is the choice among them.  A bucket of the  *)
(* history is the start of its slot: its sums are not represented.  Events  *)
(* that change nothing here (malfunction, anomaly) and warnings are left    *)
(* out; the deviation of an alarm asks for no investigation.                *)
(***************************************************************************)
EXTENDS Integers, Sequences, SequencesExt

CONSTANTS
  Tag,          \* the tags a behaviour may be about
  Factor,       \* Factor[t][s]: state_factors of t for s: "none", "zero" or "some"
  Productive,   \* the states with role productive
  Running, Idle, Down, Service,
  Cadence,      \* sensor_sample_interval_s
  LiveCadence,  \* live_sensor_sample_interval_s
  Width,        \* bucket_minutes
  Lookback,     \* rca_lookback_hours
  Delay,        \* rca_investigation_delay_hours
  StuckFor,     \* stuck_duration_min
  Value,        \* what an instrument may read
  Scale,        \* limit_scale under the setpoints of the products
  Low, High,    \* alarm limits at the baseline
  Unset,
  MaxTime, MaxStages, MaxDropouts, MaxJobs   \* bounds of a behaviour

ASSUME SensingParameters ==
  /\ {Cadence, LiveCadence, Width, Lookback, Delay, StuckFor} \subseteq Nat \ {0}
  /\ {Idle, Down, Service} \cap Productive = {} /\ Running \in Productive
  /\ Down \notin {Idle, Service}
  /\ Unset \notin Int /\ Unset \notin {"within", "off", "ALARM_HIGH", "ALARM_LOW"}
  /\ \A t \in Tag : t.rate \in (Nat \ {0}) \cup {Unset}

(* The live feed is sampled no less often.  The program does not check it,  *)
(* and both shipped plants have it so: without it a callback booked before  *)
(* going live may be the first one a rate does not apply to.                *)
ASSUME LiveIsDenser == LiveCadence <= Cadence

VARIABLES
  now,          \* the clock
  interval,     \* TelemetrySampler._interval
  nextSample,   \* when the pending sampling callback runs
  tag,          \* SensorSpec: its rate_s (or Unset), and whether it is derived
  state,        \* Machine.state
  onBatch,      \* whether Machine.current_batch_id is set
  scale,        \* SensorModel.limit_scale
  hasMean,      \* whether Machine._stage_counts holds the tag
  lastSampled,  \* TelemetrySampler._last_sampled
  lastValue,    \* SensorModel._last_value
  stuckUntil,   \* SensorModel._stuck_until
  latched,      \* SensorModel._alarm_latched
  alarms,       \* Plc._alarms
  buckets,      \* SensorHistory._buckets of the tag
  detected,     \* when the failure was detected whose investigation is due
  report,       \* what the last investigation read
  jobs,         \* maintenance jobs in progress on the machine
  stages, dropouts,  \* counted for their bounds
  recorded,     \* history: the slots in which a reading was recorded
  verdict,      \* history: what the readings say; in an excursion, the kind it began with
  serviced      \* history: a job was completed during the excursion that is on

instrument == <<lastSampled, lastValue, stuckUntil, dropouts>>
alarming   == <<latched, alarms>>
witness    == <<verdict, serviced>>
memory     == <<buckets, recorded>>
machine    == <<state, onBatch, scale, stages, jobs>>
sampling   == <<interval, nextSample>>
sensing == <<
  now, sampling, tag, machine, hasMean, instrument, alarming, witness, memory, detected,
  report>>

(* Mutant: no bucket more.                                                  *)
MaxBucketsOfWindow ==
  LET needed == (Lookback + Width - 1) \div Width
  IN IF needed < 4 THEN 4 ELSE needed

(* SensorHistory.__init__: one bucket more than the window needs.           *)
MaxBuckets ==
  LET needed == (Lookback + Width - 1) \div Width + 1
  IN IF needed < 4 THEN 4 ELSE needed

SamplingInit ==
  /\ now = 0 /\ interval = Cadence
  /\ nextSample \in 0..(Cadence - 1)
  /\ tag \in Tag
  /\ state = Idle /\ onBatch = FALSE /\ scale = 1 /\ stages = 0 /\ jobs = 0 /\ hasMean = FALSE
  /\ lastSampled = Unset /\ lastValue = Low /\ stuckUntil = Unset /\ dropouts = 0
  /\ latched = FALSE /\ alarms = {} /\ verdict = Unset /\ serviced = FALSE
  /\ buckets = << >> /\ recorded = {}
  /\ detected = Unset /\ report = Unset

-----------------------------------------------------------------------------
(* Mutant: at the callback nearest to its rate.                             *)
IsDueNearby ==
  LET rate == IF tag.rate = Unset THEN interval ELSE tag.rate
  IN rate > interval /\ lastSampled # Unset => now - lastSampled >= rate - interval

(* _is_due: at its own rate, or with every callback when the cadence is no  *)
(* faster than that.                                                        *)
IsDue ==
  LET rate == IF tag.rate = Unset THEN interval ELSE tag.rate
  IN rate > interval /\ lastSampled # Unset => now - lastSampled >= rate

(* is_meaningful_in: limits apply where the tag has no factor, and in       *)
(* production unless its factor is zero there.                              *)
IsMeaningful ==
  \/ Factor[tag.name][state] = "none"
  \/ Factor[tag.name][state] = "some" /\ state \in Productive

(* evaluate_limits, scaled by the setpoint in force.                        *)
Kind(v) ==
  IF v > High * scale THEN "ALARM_HIGH" ELSE IF v < Low * scale THEN "ALARM_LOW" ELSE Unset

(* SensorHistory.record: a new bucket per slot, the oldest falls out.       *)
Slot(at) == (at \div Width) * Width
Record ==
  LET longer == Append(buckets, Slot(now)) IN
  /\ buckets' = IF buckets # << >> /\ Last(buckets) = Slot(now) THEN buckets
                ELSE SubSeq(longer, Len(longer) + 1 - (IF Len(longer) < MaxBuckets
                                                       THEN Len(longer) ELSE MaxBuckets),
                            Len(longer))
  /\ recorded' = recorded \cup {Slot(now)}

LimitAlarm == {"ALARM_HIGH", "ALARM_LOW"}

(* Mutant: the latch is kept across a stop.                                 *)
CheckLimitsKeepingLatch(v) ==
  IF ~IsMeaningful THEN UNCHANGED alarming
  ELSE /\ latched' = (Kind(v) # Unset)
       /\ alarms' = IF Kind(v) = Unset THEN alarms \ LimitAlarm
                    ELSE IF latched THEN alarms ELSE alarms \cup {Kind(v)}

(* _check_limits: where limits do not apply the latch is cleared, and the   *)
(* PLC is not; a reading out of limits raises an alarm when none is latched,*)
(* one within them clears both alarms of the tag.                           *)
CheckLimits(v) ==
  IF ~IsMeaningful THEN latched' = FALSE /\ UNCHANGED alarms
  ELSE /\ latched' = (Kind(v) # Unset)
       /\ alarms' = IF Kind(v) = Unset THEN alarms \ LimitAlarm
                    ELSE IF latched THEN alarms ELSE alarms \cup {Kind(v)}

(* History, from the readings alone: an excursion is a run of readings out  *)
(* of limits; one within them, or where they do not apply, ends it.         *)
Judge(v) ==
  /\ verdict' = IF ~IsMeaningful THEN "off" ELSE IF Kind(v) = Unset THEN "within"
                ELSE IF verdict \in LimitAlarm THEN verdict ELSE Kind(v)
  /\ serviced' = (serviced /\ verdict' = verdict)

(* A callback of the sampler, which books the next one.                     *)
Callback ==
  /\ now = nextSample /\ nextSample' = now + interval
  /\ UNCHANGED <<now, interval, tag, machine, detected, report>>

(* A reading: the PLC and the history get it, the stage mean does while the *)
(* machine is producing a batch, and its limits are checked.                *)
Read(v) ==
  /\ Callback /\ IsDue
  /\ lastSampled' = now
  /\ Record
  /\ hasMean' = (hasMean \/ (tag.process /\ onBatch /\ state \in Productive))
  /\ CheckLimits(v) /\ Judge(v)
  /\ UNCHANGED dropouts

IsStuck == ~tag.derived /\ stuckUntil # Unset /\ now < stuckUntil

(* The tag is not due yet.                                                  *)
Pass ==
  /\ Callback /\ ~IsDue
  /\ UNCHANGED <<instrument, alarming, witness, memory, hasMean>>

ReadValue(v) ==
  /\ ~IsStuck
  /\ Read(v)
  /\ lastValue' = v
  /\ stuckUntil' = IF tag.derived THEN stuckUntil ELSE Unset

(* The instrument sticks at what it read before; that takes time to have    *)
(* passed since.                                                            *)
Stick ==
  /\ ~tag.derived /\ ~IsStuck /\ lastSampled # Unset /\ lastSampled < now
  /\ Read(lastValue)
  /\ stuckUntil' = now + StuckFor
  /\ UNCHANGED lastValue

ReadStuck ==
  /\ IsStuck
  /\ Read(lastValue)
  /\ UNCHANGED <<lastValue, stuckUntil>>

(* The reading is lost, the tag counts as sampled.                          *)
DropOut ==
  /\ dropouts < MaxDropouts
  /\ ~tag.derived /\ ~IsStuck
  /\ Callback /\ IsDue
  /\ lastSampled' = now
  /\ dropouts' = dropouts + 1 /\ stuckUntil' = Unset
  /\ UNCHANGED <<lastValue, alarming, witness, memory, hasMean>>

-----------------------------------------------------------------------------
(* begin_stage with apply_setpoints, on an idle machine.                    *)
BeginStage(k) ==
  /\ stages < MaxStages /\ stages' = stages + 1
  /\ state = Idle /\ ~onBatch
  /\ state' = Running /\ onBatch' = TRUE /\ scale' = k /\ hasMean' = FALSE
  /\ UNCHANGED <<now, sampling, tag, jobs, instrument, alarming, witness, memory, detected, report>>

(* end_stage, with what the batch manager does to a machine that is still   *)
(* in production.                                                           *)
FinishStage ==
  /\ onBatch
  /\ onBatch' = FALSE /\ scale' = 1 /\ hasMean' = FALSE
  /\ state' = IF state = Running THEN Idle ELSE state
  /\ UNCHANGED <<now, sampling, tag, stages, jobs, instrument, alarming, witness, memory, detected,
                 report>>

(* A fault is an alarm too, also on a machine it cannot take down because   *)
(* it is not running; the deviation it opens is investigated Delay later.   *)
(* Bound: one investigation is due at a time.                               *)
Fail ==
  /\ detected = Unset
  /\ state' = IF state = Running THEN Down ELSE state
  /\ alarms' = alarms \cup {"FAULT"} /\ detected' = now
  /\ UNCHANGED <<now, sampling, tag, onBatch, scale, stages, jobs, hasMean, instrument, latched,
                 witness, memory, report>>

(* The start callback of a job, planned or corrective: maintenance can be   *)
(* reached from every state.                                                *)
StartJob ==
  /\ jobs < MaxJobs /\ jobs' = jobs + 1
  /\ state' = Service
  /\ UNCHANGED <<now, sampling, tag, onBatch, scale, stages, hasMean, instrument, alarming, witness,
                 memory, detected, report>>

(* The completion callback: clear_all_alarms, whatever is latched, and back *)
(* to idle, from wherever the machine is.                                   *)
CompleteJob ==
  /\ jobs > 0 /\ jobs' = jobs - 1
  /\ alarms' = {} /\ state' = Idle
  /\ serviced' = (verdict \in LimitAlarm)
  /\ UNCHANGED <<now, sampling, tag, onBatch, scale, stages, hasMean, instrument, latched, verdict,
                 memory, detected, report>>

Window(slots, until) == {b \in slots : until - Lookback <= b /\ b <= until}

(* _investigate: SensorHistory.stats over the window that ended when the    *)
(* deviation was detected.                                                  *)
InvestigateFault ==
  /\ detected # Unset /\ now = detected + Delay
  /\ report' = [until |-> detected, evidence |-> Window(ToSet(buckets), detected)]
  /\ detected' = Unset
  /\ UNCHANGED <<now, sampling, tag, machine, hasMean, instrument, alarming, witness, memory>>

(* _run_live: the pending callback stays where it was booked.               *)
GoLive ==
  /\ interval = Cadence /\ interval' = LiveCadence
  /\ UNCHANGED <<now, nextSample, tag, machine, hasMean, instrument, alarming, witness, memory,
                 detected, report>>

Wait ==
  /\ now < MaxTime /\ now < nextSample
  /\ detected # Unset => now < detected + Delay
  /\ now' = now + 1
  /\ UNCHANGED <<sampling, tag, machine, hasMean, instrument, alarming, witness, memory, detected,
                 report>>

SamplingNext ==
  \/ \E v \in Value : ReadValue(v)
  \/ Pass
  \/ Stick
  \/ ReadStuck
  \/ DropOut
  \/ \E k \in Scale : BeginStage(k)
  \/ FinishStage
  \/ Fail
  \/ StartJob
  \/ CompleteJob
  \/ InvestigateFault
  \/ GoLive
  \/ Wait

SamplingSpec == SamplingInit /\ [][SamplingNext]_sensing

-----------------------------------------------------------------------------
(* "A tag samples at its own rate, never faster than the global cadence":   *)
(* two samples of a tag are its rate apart, and less than one cadence more, *)
(* also around the change of cadence when a run goes live (telemetry.py:187)*)
SamplesKeepTheirRate ==
  [][LET gap == now - lastSampled IN
     lastSampled' # lastSampled /\ lastSampled # Unset =>
       IF tag.rate = Unset THEN gap \in {Cadence, LiveCadence}
       ELSE gap >= tag.rate /\ gap < tag.rate + Cadence]_sensing

(* The latch and the PLC are two memories of one excursion, and stops,      *)
(* faults, jobs, setpoints and stuck instruments change one and not the     *)
(* other.  The latch is set exactly while an excursion is on, so that the   *)
(* next one raises an alarm again.  The PLC shows the alarm the excursion   *)
(* began with, unless a job was completed meanwhile: that clears the PLC,   *)
(* and the latch keeps the alarm from being raised again.  A reading within *)
(* limits leaves no limit alarm; one where limits do not apply leaves what  *)
(* the PLC shows; and a machine that is down shows its fault                *)
(* (telemetry.py:226-258, failure_engine.py:389, maintenance.py:315).       *)
AlarmsFollowExcursions ==
  /\ latched <=> verdict \in LimitAlarm
  /\ verdict \in LimitAlarm => verdict \in alarms \/ serviced
  /\ verdict \in {Unset, "within"} => alarms \cap LimitAlarm = {}
  /\ state = Down => "FAULT" \in alarms

(* A window that ends now is in the history in full, wherever in a bucket   *)
(* it ends, after gaps and at either cadence (history.py:87).               *)
HistoryKeepsItsSpan == Window(recorded, now) \subseteq ToSet(buckets)

(* "so a full window is always available": an investigation reads every     *)
(* bucket recorded in its window.                                           *)
EvidenceIsComplete ==
  report # Unset => report.evidence = Window(recorded, report.until)
=============================================================================
