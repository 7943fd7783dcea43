---------------------------- MODULE MCInvestigation ----------------------------
(***************************************************************************)
(* An investigation, from its two sides, in one state space: the records it *)
(* leaves (QualityChain) and the evidence it has (Sensing).  The two share   *)
(* no state, and a behaviour is one of them.                                *)
(*                                                                          *)
(* Time is in quarters of an hour: a sample every half hour, or every       *)
(* quarter when live, buckets of half an hour, two hours looked back.       *)
(***************************************************************************)
EXTENDS QualityChain, Sensing

(* Until when everything may happen to the machine; what is left of the time*)
(* is for one that has had one stage, has no job and shows no fault.        *)
CONSTANT Busy

(* A process parameter with a rate of its own, which means nothing while    *)
(* the machine is idle, and a temperature that is monitored throughout.     *)
Tags ==
  {[name |-> "force", rate |-> 3, process |-> TRUE, derived |-> FALSE],
   [name |-> "temperature", rate |-> Unset, process |-> FALSE, derived |-> FALSE]}
Factors ==
  [force       |-> [RUNNING |-> "some", IDLE |-> "zero", FAULT |-> "some", MAINTENANCE |-> "zero"],
   temperature |-> [RUNNING |-> "none", IDLE |-> "none", FAULT |-> "none", MAINTENANCE |-> "none"]]

(* The side that does not take part in a behaviour.                         *)
NoSampling ==
  /\ now = Unset /\ interval = Cadence /\ nextSample = 0 /\ tag = Unset
  /\ state = Idle /\ onBatch = FALSE /\ scale = 1 /\ stages = 0 /\ jobs = 0 /\ hasMean = FALSE
  /\ lastSampled = Unset /\ lastValue = Low /\ stuckUntil = Unset /\ dropouts = 0
  /\ latched = FALSE /\ alarms = {} /\ verdict = Unset /\ serviced = FALSE
  /\ buckets = << >> /\ recorded = {} /\ detected = Unset /\ report = Unset

InvestigationInit == Init /\ (NoSampling \/ SamplingInit)

InvestigationNext ==
  \/ now = Unset /\ Next /\ UNCHANGED sensing
  \/ /\ now # Unset /\ SamplingNext /\ UNCHANGED quality
     /\ now' > Busy => stages' <= 1 /\ jobs' = 0 /\ "FAULT" \notin alarms'

InvestigationSpec ==
  /\ InvestigationInit /\ [][InvestigationNext]_<<quality, sensing>>
  /\ \A d \in Deviation : WF_quality(Investigate(d))
=============================================================================
