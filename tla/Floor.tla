-------------------------------- MODULE Floor --------------------------------
(***************************************************************************)
(* The state the plant-floor components share: machines, degradation        *)
(* episodes, maintenance jobs, batches, and the agenda of callbacks they    *)
(* have handed to the scheduler.                                            *)
(*                                                                          *)
(* The program is single threaded: one scheduler pops one callback at a     *)
(* time.  The agenda holds the pending callbacks; a callback is an action   *)
(* that consumes its own entry and adds the ones it schedules.  Durations   *)
(* are configuration and random draws, so any pending callback may be the   *)
(* next to run, except where the code itself fixes an order (a warning is   *)
(* placed before its fault, predictive work is only booked when it starts   *)
(* before the fault): those orders are guards.                              *)
(*                                                                          *)
(* A callback that loops over batches takes several steps; `control` says   *)
(* where it is, and no other callback runs until it is back to Loop.        *)
(***************************************************************************)
EXTENDS MachineStates, Naturals, FiniteSets

CONSTANTS
  Machine,          \* the machines of the plant
  Unit,             \* the production units
  UnitOf,           \* machine -> its unit
  Duty,             \* machine -> "batch", "coupled" or "continuous"
  Stages,           \* number of stages in the product route
  Serves,           \* stage -> the machines that measure its parameters
  MaxModes,         \* failures.yaml max_concurrent_modes
  MaxRepairWaits,   \* _MAX_REPAIR_WAITS
  MaxActive,        \* products.yaml max_concurrent_batches
  MaxBatches,       \* bound: batches ordered in a behaviour
  MaxEpisodes,      \* bound: degradation episodes in a behaviour
  MaxPlanned,       \* bound: preventive and predictive jobs in a behaviour
  None              \* no batch, no machine, no episode

Stage   == 1..Stages
Batch   == 1..MaxBatches
Episode == 1..MaxEpisodes
Job     == 1..(MaxEpisodes + MaxPlanned)

ASSUME FloorParameters ==
  /\ Stages \in Nat \ {0}
  /\ {MaxModes, MaxRepairWaits, MaxActive} \subseteq Nat
  /\ {MaxBatches, MaxEpisodes, MaxPlanned} \subseteq Nat
  /\ UnitOf \in [Machine -> Unit]
  /\ Duty \in [Machine -> {"batch", "coupled", "continuous"}]
  /\ Serves \in [Stage -> SUBSET Machine]
  /\ None \notin Machine \cup Nat

VARIABLES
  state,         \* Machine.state
  currentBatch,  \* Machine.current_batch_id
  pending,       \* Machine._pending_maintenance
  manned,        \* Machine.assigned_operators is not empty
  epMachine,     \* the machine an episode develops on
  epStatus,      \* DegradationEpisode: which of its instants are set
  hitBatch,      \* FailureRecord.affected_batches: the batch on the machine at the fault
  jobMachine,    \* MaintenanceRecord.machine_id
  jobKind,       \* MaintenanceRecord.maintenance_type (EMERGENCY is CORRECTIVE)
  jobCause,      \* MaintenanceRecord.triggered_by: the episode warned of or faulted
  jobStatus,     \* MaintenanceRecord.status
  batchStatus,   \* not ordered yet, in BatchManager._active, or completed
  stageIndex,    \* Batch.stage_index: stages completed
  stageFaults,   \* episodes that faulted on the batch's machine since its stage began
  failureIds,    \* Batch.failure_ids
  agenda,        \* the callbacks pending in the scheduler
  control        \* where the running callback is; Loop between callbacks

machineVars == <<state, currentBatch, pending, manned>>
episodeVars == <<epMachine, epStatus, hitBatch>>
jobVars     == <<jobMachine, jobKind, jobCause, jobStatus>>
batchVars   == <<batchStatus, stageIndex, stageFaults, failureIds>>
vars        == <<machineVars, episodeVars, jobVars, batchVars, agenda, control>>

EpStatus  == {"unborn", "developing", "faulted", "averted", "repaired"}
JobKind   == {"PREVENTIVE", "PREDICTIVE", "CORRECTIVE"}
JobStatus == {"unborn", "SCHEDULED", "IN_PROGRESS", "COMPLETED"}

Task == {"warn", "fault"} \X Episode
        \cup {"start", "end"} \X Job
        \cup {"poll"} \X Batch
        \cup {"stage_end"} \X Batch \X Machine \X (0..MaxRepairWaits)
        \cup {"clean_end"} \X Machine \X Batch \X Stage

(* Between callbacks; in the loop of replenish; in _start_stage, called from *)
(* a stage callback ("loop" is where it returns to) or from that loop.      *)
Loop      == <<"loop">>
Replenish == <<"replenish">>
Control   == {Loop, Replenish} \cup {"start_stage"} \X Batch \X {Loop, Replenish}

TypeOK ==
  /\ state \in [Machine -> State]
  /\ currentBatch \in [Machine -> Batch \cup {None}]
  /\ pending \in [Machine -> BOOLEAN]
  /\ manned \in [Machine -> BOOLEAN]
  /\ epMachine \in [Episode -> Machine \cup {None}]
  /\ epStatus \in [Episode -> EpStatus]
  /\ hitBatch \in [Episode -> Batch \cup {None}]
  /\ jobMachine \in [Job -> Machine \cup {None}]
  /\ jobKind \in [Job -> JobKind]
  /\ jobCause \in [Job -> Episode \cup {None}]
  /\ jobStatus \in [Job -> JobStatus]
  /\ batchStatus \in [Batch -> {"unborn", "active", "completed"}]
  /\ stageIndex \in [Batch -> 0..Stages]
  /\ stageFaults \in [Batch -> SUBSET Episode]
  /\ failureIds \in [Batch -> SUBSET Episode]
  /\ agenda \subseteq Task
  /\ control \in Control

Init ==
  /\ state = [m \in Machine |-> Initial]
  /\ currentBatch = [m \in Machine |-> None]
  /\ pending = [m \in Machine |-> FALSE]
  /\ manned = [m \in Machine |-> FALSE]
  /\ epMachine = [e \in Episode |-> None]
  /\ epStatus = [e \in Episode |-> "unborn"]
  /\ hitBatch = [e \in Episode |-> None]
  /\ jobMachine = [j \in Job |-> None]
  /\ jobKind = [j \in Job |-> "PREVENTIVE"]
  /\ jobCause = [j \in Job |-> None]
  /\ jobStatus = [j \in Job |-> "unborn"]
  /\ batchStatus = [b \in Batch |-> "unborn"]
  /\ stageIndex = [b \in Batch |-> 0]
  /\ stageFaults = [b \in Batch |-> {}]
  /\ failureIds = [b \in Batch |-> {}]
  /\ agenda = {}
  /\ control = Loop

(* A callback starts: the scheduler is between callbacks and pops this one, *)
(* and what the callback schedules joins the agenda.                        *)
Pop(task, scheduled) ==
  /\ control = Loop
  /\ task \in agenda
  /\ agenda' = (agenda \ {task}) \cup scheduled

(* Machine.episodes, restricted to those DegradationEpisode.active.         *)
ActiveEpisodes(m) == {e \in Episode : epMachine[e] = m
                                      /\ epStatus[e] \in {"developing", "faulted"}}
OpenJobs(m) == {j \in Job : jobMachine[j] = m
                            /\ jobStatus[j] \in {"SCHEDULED", "IN_PROGRESS"}}

(* Identifiers are handed out in sequence (IdFactory, _episode_counter).    *)
IsNext(status, i) == /\ status[i] = "unborn"
                     /\ \A k \in 1..(i - 1) : status[k] # "unborn"
=============================================================================
