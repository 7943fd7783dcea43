---------------------------- MODULE FailureEngine ----------------------------
(***************************************************************************)
(* FailureEngine: an episode is born with its fault instant already fixed,  *)
(* perhaps warns on the way, and faults unless maintenance closes it first. *)
(* The callbacks it was given by the simulator (on_warning, on_fault) run   *)
(* inside the warning and the fault, so they are part of those actions.     *)
(***************************************************************************)
EXTENDS Maintenance

(* DegradationEpisode.active.  Mutant: an averted episode still faults.     *)
ActiveUntilRepaired(e) == epStatus[e] \notin {"unborn", "repaired"}

Active(e) == epStatus[e] \in {"developing", "faulted"}

(* initiate, for an episode that will (warns) or will not warn: a mode that *)
(* is not detectable, or whose warning threshold leaves no time before the  *)
(* fault, books only the fault.  Adds to what the caller schedules.         *)
Initiate(e, m) ==
  /\ IsNext(epStatus, e)
  /\ epMachine' = [epMachine EXCEPT ![e] = m]
  /\ epStatus' = [epStatus EXCEPT ![e] = "developing"]
  /\ UNCHANGED hitBatch

Onset(e, warns) == IF warns THEN {<<"warn", e>>, <<"fault", e>>} ELSE {<<"fault", e>>}

(* evaluate_all, for one machine and one mode whose draw came up: only a    *)
(* machine that is neither down nor offline, below the limit of concurrent  *)
(* modes, is exposed.  As with ScanPreventive, a tick that starts several   *)
(* episodes is a run of these steps with nothing in between.                *)
EvaluateHazard(m, e, warns) ==
  /\ control = Loop
  /\ ~IsDowntime(state[m])
  /\ ~IsOffline(state[m])
  /\ Cardinality(ActiveEpisodes(m)) < MaxModes
  /\ Initiate(e, m)
  /\ agenda' = agenda \cup Onset(e, warns)
  /\ UNCHANGED <<machineVars, jobVars, batchVars, control>>

(* inject: a scenario step or a command starts an episode on any machine,   *)
(* whatever its state and however many modes are active.                    *)
Inject(m, e, warns) ==
  /\ control = Loop
  /\ Initiate(e, m)
  /\ agenda' = agenda \cup Onset(e, warns)
  /\ UNCHANGED <<machineVars, jobVars, batchVars, control>>

(* The warning callback on an episode still developing.  The move to the    *)
(* warning state is refused silently where the table has none.              *)
WarnMachine(m) ==
  state' = IF Has("warning")
           THEN [state EXCEPT ![m] = TransitionTo(@, First["warning"])]
           ELSE state

(* consider_predictive declines: the draw said no, or the work would start  *)
(* after the fault.                                                         *)
Warn(e) ==
  /\ epStatus[e] = "developing"
  /\ Pop(<<"warn", e>>, {})
  /\ WarnMachine(epMachine[e])
  /\ UNCHANGED <<currentBatch, pending, manned, episodeVars, jobVars, batchVars, control>>

(* consider_predictive books a job that starts before the fault.            *)
WarnAndPlan(e, j) ==
  /\ epStatus[e] = "developing"
  /\ MayPlan
  /\ Pop(<<"warn", e>>, {<<"start", j>>})
  /\ WarnMachine(epMachine[e])
  /\ Schedule(j, epMachine[e], "PREDICTIVE", e)
  /\ UNCHANGED <<currentBatch, manned, episodeVars, batchVars, control>>

(* The fault instant lies after the warning, and after the start of every   *)
(* predictive job booked for the episode.                                   *)
FaultIsDue(e) ==
  /\ <<"warn", e>> \notin agenda
  /\ \A j \in Job : jobKind[j] = "PREDICTIVE" /\ jobCause[j] = e
                      => jobStatus[j] # "SCHEDULED"

(* The fault callback on an episode not yet closed: the machine is moved    *)
(* to fault where the table allows it, the failure is recorded against the  *)
(* batch on the machine, and the repair is booked.                          *)
Fault(e, j) ==
  LET m == epMachine[e]
      b == currentBatch[m] IN
  /\ FaultIsDue(e)
  /\ Active(e)
  /\ Pop(<<"fault", e>>, {<<"start", j>>})
  /\ epStatus' = [epStatus EXCEPT ![e] = "faulted"]
  /\ state' = [state EXCEPT ![m] = TransitionTo(@, First["fault"])]
  /\ hitBatch' = [hitBatch EXCEPT ![e] = b]
  /\ stageFaults' = IF b = None THEN stageFaults
                    ELSE [stageFaults EXCEPT ![b] = @ \cup {e}]
  /\ Schedule(j, m, "CORRECTIVE", e)
  /\ UNCHANGED <<currentBatch, manned, epMachine, batchStatus, stageIndex,
                 failureIds, control>>

(* A warning or fault callback whose episode was closed in the meantime     *)
(* returns at once.                                                         *)
StaleCallback(kind, e) ==
  /\ IF kind = "warn" THEN epStatus[e] # "developing"
                      ELSE ~Active(e) /\ FaultIsDue(e)
  /\ Pop(<<kind, e>>, {})
  /\ UNCHANGED <<machineVars, episodeVars, jobVars, batchVars, control>>

FailureNext ==
  \/ \E m \in Machine, e \in Episode, w \in BOOLEAN : EvaluateHazard(m, e, w)
  \/ \E m \in Machine, e \in Episode, w \in BOOLEAN : Inject(m, e, w)
  \/ \E e \in Episode : Warn(e)
  \/ \E e \in Episode, j \in Job : WarnAndPlan(e, j)
  \/ \E e \in Episode, j \in Job : Fault(e, j)
  \/ \E kind \in {"warn", "fault"}, e \in Episode : StaleCallback(kind, e)
=============================================================================
