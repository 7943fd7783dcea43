# A verification model of pharma_sim

`pharma_sim` simulates a pharmaceutical plant: machines wear and fault, are
repaired, carry batches through a route, are staffed by shifts, and everything
that happens is published on an event bus, investigated, stored and streamed.
The dataset it produces is only as good as its causal chain, and the chain is
made of callbacks of half a dozen components that act on the same machines
hours of simulated time apart. That is what these modules model.

Paths below are relative to `src/src/pharma_sim/`.

## The system

The program is one process. The simulation runs on one thread: a scheduler
(`engine/scheduler.py`) pops one callback at a time from a heap ordered by time,
priority and sequence, and the callback calls the components directly and adds
new callbacks. Events are published synchronously: the handlers run inside
`publish`. Other threads exist at the edge only: one per streaming sink, and,
in the web service, the server and the live simulation.

| component | state | operations | acts on / is called by |
|---|---|---|---|
| state registry `registry/states.py` | states, transition table, roles (constant) | `can_transition`, `route`, role tests | everything that moves a machine |
| machine `domain/machine.py` | state, batch, pending flag, operators, episodes | `transition_to`, `force_route_to`, `begin_stage`, `end_stage`, `record_maintenance`, `resolve_episodes` | all engines |
| failure engine `domain/failure_engine.py` | episodes, failure records | hazard tick, `initiate`, `inject`, warning and fault callbacks | moves machines, books maintenance |
| maintenance engine `domain/maintenance.py` | records, technicians | preventive scan, predictive, corrective, start and completion callbacks | moves machines, closes episodes |
| batch manager `engine/batch_manager.py` | active and completed batches | `replenish`, `_start_stage`, stage end, cleaning end, `_finish_batch` | moves and occupies machines |
| shift manager `engine/shift_manager.py` | shifts, attendance | shift start and end, operator assignment | parks and wakes machines |
| duty manager `engine/duty_manager.py` | counters | production tick | starts and stops machines no batch drives |
| quality management `domain/quality_management.py` | deviations, reports, CAPAs, open CAPAs by machine | open, investigate, open CAPA, verify | event bus, batch completion |
| simulator `simulator.py` | run control, wiring | start, run, pause, stop, finish, periodic ticks | owns all of the above |
| event bus `engine/event_bus.py` | subscribers, counts | subscribe, publish | all engines |
| storage `storage/` | row buffers, stores | write, flush | event bus, engines |
| streaming `streaming/` | queues, worker threads, offline buffer | publish, dispatch, drain, stop; MQTT write and flush | event bus, telemetry |
| live service `api/` | simulation thread, browser hub | start, stop, deliver | HTTP |
| configuration and registries `config/`, `registry/` | the files, resolved sensors, evaluation order | lint, build registries, build machines | once, before a run |
| quality control `domain/qc.py` | results of a batch | evaluate the tests of a stage, evaluate what is left | batch manager |
| telemetry `engine/telemetry.py`, `domain/sensor.py`, `plc.py`, `history.py` | sampling times, latches, alarms, buckets | sample, check limits, window | scheduler; read by failures, QC, investigations |
| ground truth `domain/ground_truth.py` | the ledger of episodes | label, final rows | simulator |
| environment, scenarios, command line | ambient values; scripted actions; - | tick; fire; start, run, finish, close | |

### What is hard about it

* **Interleaving of timers.** A machine can at the same time be in a stage of a
  batch, be booked for two repairs, have a fault and a cleaning timer pending
  and be looked at by duty and shift ticks. Each was written with the others in
  mind; no test runs them in more than a few orders.
* **Stale callbacks.** Warnings, faults, cleaning ends and stage ends are placed
  hours ahead and run whatever became of the thing they were placed for.
* **Retries.** Jobs and stages that find their machine busy book themselves
  again, some without limit, some a limited number of times.
* **Configurable states.** No state is named in Python. What a component does
  to a machine depends on the route a configured table has.
* **What is read later.** Time is banked lazily, rows wait in buffers for a flush,
  alarms are latched in two places, evidence is read hours after what it is of.
* **Two programs that must agree**: a linter that checks references and registries
  that resolve them, each with its own walk over the same files.
* **Links between records.** Batches, failures, deviations and CAPAs refer to
  each other and are updated by different callbacks.
* **Real threads** at the edges: bounded queues that drop the oldest, a worker
  and a shutdown that may overlap, a run that may be finished twice.

What makes each component correct: the *floor* never lets a broken machine
produce, forgets no repair, loses or doubles no batch and puts one batch on one
machine; the *registry* finds a legal shortest route and ends; *quality*
investigates every deviation, links both ways, and closes a CAPA by released
batches of its machine; *streaming* never blocks the simulation and counts what
it drops; *storage* resolves every foreign key and keeps what it accepted, whatever
fails; *time* opens every shift, banks every instant under the right heading and files
it under the right shift; *sensing* shows the alarm of every excursion and keeps the
window it promises; *configuration* builds and dangles nowhere once the linter accepts it;
*quality control* tests a batch once, from what was measured.

## Modules

    MachineStates   state registry and the moves of a machine
      Floor           shared state of the floor, the agenda, TypeOK, Init
        Maintenance     maintenance engine
          FailureEngine   failure engine and the callbacks it was given
            BatchManager    batch manager
        Staffing        shift assignment, duty tick
            Plant           composition, properties, refinement mappings, fairness
              PlantSafety     theorems: faults, types, batches, machines (TLAPS)
                RepairSafety    theorems: repairs, downtime, utilities (TLAPS)
              MCPlant         instances for TLC
    RepairCycle     abstract specification: failures and maintenance
    BatchFlow       abstract specification: the batch manager
    ShiftCalendar   shift patterns and dates
      Timeline        heap and clock, chain of shifts, people, time accounting, run control
        MCTimeline      shift patterns for TLC
        TimelineSafety  theorems: heap and clock, shifts, time accounting, history (TLAPS)
    Schema          tables, their foreign keys, the order of a flush
      Stores          the facade, SQLite, PostgreSQL and the Parquet writers
        Recording       every handler that writes rows, through the stores
          MCRecording     instances for TLC
          StorageSafety   theorems: what a run leaves in the stores (TLAPS)
    QcRules         the linter's cycle search and the registry's order
      Configuration   the linter, the registries and the construction of the plant
      QualityControl  the tests of a batch
    StateRouting    the route search and the walk, step by step
      MCStartup       Configuration, QualityControl and StateRouting, for TLC
      StartupSafety   theorems: routes, the order of tests, what they read (TLAPS)
    QualityChain    deviations, investigations, CAPAs, verification
      QualitySafety   theorems (TLAPS)
    Sensing         sampler, instrument, PLC, history and the window of evidence
      SensingSafety   theorems (TLAPS)
      MCInvestigation QualityChain and Sensing, for TLC
    MqttSink        MQTT sink: connection, offline buffer, write and flush
      SinkRouter      bounded queue, worker thread, shutdown; properties
        SinkSafety      theorems (TLAPS)

`MCStartup` and `MCInvestigation` are not compositions: what they put into one state
space shares no variable, and a behaviour is that of one module while the others do
not move. They are the question asked at start-up, and the two sides of an
investigation, asked in one run each.

**The agenda.** `Floor!agenda` is the scheduler's heap: the pending callbacks as
tuples `<<"fault", e>>`, `<<"start", j>>`, `<<"stage_end", b, m, waits>>` and so
on. An action is one callback: it needs its entry and `control = Loop`, removes
the entry and adds what the callback schedules. Times are not represented. A
duration is configuration times a random draw, so any pending callback may be
next, except where the code fixes an order: a warning lies before its fault
(`warn_at < fault_at`), and predictive work is only booked when it starts before
the fault; both are in `FaultIsDue`. The model therefore has every order the
program has, and more; a property that holds here holds for any configuration.

**Control.** `_start_stage` is called from three callbacks. Instead of three
copies, `control` says that it is running and where it returns to; nothing else
can run in between, as in the program.

**State of the code and of the model.** `state`, `currentBatch`, `pending`,
`manned` are `Machine.state`, `current_batch_id`, `_pending_maintenance` and
whether `assigned_operators` is empty. `epStatus` sums up which of an episode's
four instants are set. `jobStatus` and `jobKind` are those of
`MaintenanceRecord`. `batchStatus`, `stageIndex`, `failureIds` are those of
`Batch`; `stageFaults` is what `_complete_stage` computes from the instants of
the machine's faults and of the start of the stage. A tick that loops over
machines with independent effects (`evaluate_all`, `scan_preventive`) is one
step per machine; the duty tick and the shift start, where one machine's state
decides about another's or operators are shared, are one step.

**Choices.** Whether a hazard fires, a warning is given, predictive work is
booked, a setup goes wrong, a shift is staffed, a material is short: all are
nondeterministic. The machine of a stage is any of the free ones the stage can
run on; the code then prefers one by tags and hours.

**State models.** States and roles are CONSTANTS. `MCPlant` gives them the two
the repository ships, `config/states.yaml` (nine states) and
`config/examples/minimal_factory/states.yaml` (five, where fault and maintenance
are one state and there is no cleaning).

**QualityChain** has its own, coarser batches and machines: which machine a batch
is on and which it has used is all that the quality components look at. Its
batches can do more than those of `Plant` (they move between stages freely), so
what holds of it holds of the composition. The failed in-process tests of a
stage are separate events before its end, the failed final tests of a batch are
part of the action that finishes it.

**Timeline** has what `Floor` leaves out: instants. The heap is a sequence ordered by
time, priority and sequence number as the scheduler's, the clock moves when a task
is popped, and `due` is the horizon of the `run_until` in progress. Shifts are begun by
the chain that `_schedule_next` continues, with one employee each whose attendance,
breaks, overtime and clock-out are placed when the shift begins. `machine` is one
machine of any of the three duties with its time accounting (lifetime and the window
of a shift) and its state history. What other components do to it is one action,
`Handler`, at any instant at which a callback of the priority of maintenance could
run. `elapsed` is a history variable that counts the same time as it passes. A run
fast-forwards, goes live, or does one after the other, may be stopped in between, and
is finished. A live turn runs the tasks of the next instant; how long it sleeps before
is left out.

**Recording** is a sequence of writes for each handler that writes rows, in the
code's order: which are made by the engine itself, whose exception ends the run, and
which under the event bus, which logs an exception and ends only that subscriber.
`Stores` is what a write does: `WriteMany` with the three buffers and their
thresholds, `FlushRelational` table by table in the order of `Schema`, a store that
refuses a row whose foreign key does not resolve, SQLite in autocommit, PostgreSQL's
transaction with its aborted state, and Parquet writers that hold a chunk. `Schema`
has the foreign keys of every table. The outage is one refused call of the relational
store, at any call of any handler, with or without the connection. How the program is used
is a constant, `Sessions`: the horizons of the successive calls of `run()`, whether the
live service makes the call, and how often the store fails meanwhile. `Finish` is the end of every `run()`; after the live service has
stopped the feed (`StopFeed`, at any moment of an hour) it finishes the run that has finished once
more (`StopService`), and closes the stores also when that failed. `Finalise` is what both of them
write, and `finishes` counts it. At the instant a fault is due a repair that ends comes first, by
its priority, and averts the fault.

**Configuration** starts from any configuration that differs from a sound one in at
most two files, lints it (one definition for each file the linter walks), builds the
registries and the machines group by group with their cache, and runs. A machine is in two
places: `held` is the lists of the units, `machines` the index of the plant under prefix and
number, where a machine takes the place of an earlier one of that identifier. `NothingDangles`
is what the engine then looks up by name. **QualityControl** takes every graph of QC
parameters through linter, order and the stages of a batch; a value is abstracted to
where it came from (the same stage, another test, another stage, nominal). `QcRules`
has the two algorithms that must agree. Its search is a recursive function and its loops are
`Through`, one step for each member of a sequence, so that it can be reasoned about.

**Sensing** is one tag of one machine. The signal model is a choice among values on
either side of the limits; what is kept is when the tag is read, what a stuck or lost
reading does, the two memories of an alarm (the latch of the sensor, the alarms of the
PLC), the buckets of the history and the window an investigation reads. A job may start in
any state, as maintenance can be reached from all of them, and two may overlap; its end clears the PLC
and not the latch. A fault raises its alarm also on a machine it cannot take down. Three variables are
history: `verdict` is what the readings alone say, whether limits apply, the tag is within them, or
which one the excursion under way began with; `serviced` whether a job was completed since it began;
`recorded` every bucket there ever was. No other variable depends on them.

**StateRouting** is the search of `StateRegistry.route` with its queue and its
`seen` set, one turn of the loop per step, and the walk of `force_route_to`. It is
what justifies `MachineStates!ForceRoute`, which takes both as one step.

**SinkRouter** is the one place with real threads: the simulation, which publishes
and stops, and the worker of a sink. `main` and `worker` are where they are; a
step is what runs between two accesses to what they share: the queue (whose own
operations are atomic), the offline buffer, the connection, the counters. `call`
holds the local variables of the `write` or `flush` a thread is in. `_buffer` is one
step, its loop adds to a buffer nobody else touches before the call is over
unless both calls overlap. A time limit that runs out is a step that is always
possible, so it covers the answer that is late as well. The client may raise at
any publish, connect or reconnect. Messages are numbers in the order of their
publication. `stats`, which may be called by any thread, is a read and a store.
`raced` records that `flush` and `write` overlapped, or that `stats` stored over a
newer count; the code takes no lock against either.

## Runs

| run | what it asks | bounds |
|---|---|---|
| `one_machine` | safety of the floor and refinement of `RepairCycle`, everything one machine can go through | 1 machine, 2 concurrent episodes, 1 planned job and the 2 repairs, 2 batches, 1 wait for repair |
| `line` | batch, coupled and continuous machines in a unit, batches competing; refinement of `BatchFlow` | 3 machines, 2 stages, 2 batches at once, 1 episode, 1 planned job |
| `recovery` | liveness of the floor, under the five-state model | 2 machines, 2 stages, 1 batch, 1 episode, 1 planned job |
| `quality` | an investigation's records and evidence, safety and liveness | 2 machines, 2 batches, 2 deviations, 2 batches to verify; 2 tags, 9 quarters of an hour, a window of 8, buckets of 2, 2 stages, 2 jobs, 1 lost reading |
| `streaming` | router and MQTT sink, safety and liveness | 4 messages, batches of 2, queue of 1, offline buffer of 2, 2 stops |
| `timeline` | shifts, callbacks at one instant, time accounting | 4 shift patterns over days of 3 units, 8 units, 2 moves by other components, all duties |
| `recording` | rows, foreign keys, a failing store, evaluation data | 2 backends, thresholds 2 and 7, 1 shift, 1 batch, 1 episode, 2 deviations, 2 hours; one `run()` with 1 failed call, a warm-up of 1 hour and a second `run()`, a live run that is stopped |
| `startup` | linter against registries, every table, every graph | up to 2 edited files of 17; 4 states: 4096 tables, 16 pairs; 3 QC parameters and a measured one, 2 routes |
| `drain_after_drop`, `then_live`, `inject_after_warmup`, `evidence_window` | see Findings | smallest instance that shows it; the last two with the instances of `recording` and `quality` |

Why the bounds are enough to be interesting: two episodes on a machine are what
it takes for repairs to overlap, for one job to close the episode of another and
for a stage to see two failures; a planned job adds the third overlapping job.
Two batches, with one machine for both stages, are what it takes for a
machine to be contended for, kept by a stale callback, or idled by the cleaning
timer of the batch before. `MaxRepairWaits` is 8 in the code; 1 reaches both the
wait and the giving up, and no property depends on the number. Four states have
tables with cycles, dead ends, several shortest routes and unreachable targets, and
three parameters every cycle up to length three and every order. Two edits of a
configuration are what it takes for one file to name what another no longer has, or for
the linter's check of one file to be passed for a reason in another. The four shift
patterns tile the day, last all of it, leave a gap and overlap; two days pass. A threshold
of 2 flushes within every handler that writes more, a threshold of 7 in the middle of some and at
the end of others; the second threshold leaves rows in the buffer when a call fails. In
`quality` the tag's rate, three, does not divide by the cadences, two and one, and the
window of eight is passed within the run. Alarms need less time and more happening: two jobs are what it
takes for one to end while the other is under way, two stages for a stop between two setpoints. All of
that may happen until `Busy`; the rest of the time is for a machine that has had one stage, has no job and
shows no fault.
In `startup` a group may have two machines, and a unit may take a prefix of another.
A queue of one batch and a
buffer of two messages overflow, separately and together, within four messages,
and leave room for a break in the middle of a batch with messages buffered before.

Deadlock is checked except in `startup`, which ends, `streaming` and `drain_after_drop`,
which stop, and `quality` and `evidence_window`, whose bounds may be used up. `MaxBatches`,
`MaxEpisodes`, `MaxPlanned`, `MaxDeviations`, `MaxMessages`, `MaxStops`, `MaxTime`, `MaxMoves`, `MaxStages`,
`MaxDropouts`, `MaxJobs`, `Busy`, `Sessions`, `Edits` and the sets of instants are the only bounds that are not
parameters of the program.

The floor's properties, and where they would break:

* `UnrepairedFaultStopsProduction` - any of five components starting a machine
  between the fault and the end of its repair.
* `FaultHasOneRepair` - a completed job closing an episode whose own job is still open,
  clearing the flag other jobs rely on, or a fault callback that runs after its episode was
  closed and books a repair for nothing.
* `NoMachineStranded` - a machine down, or withheld, with nothing booked that would end it.
* `OneContinuation`, `HeldWhileInStage` - the three places that carry a batch on.
* `ContinuousHoldsNoBatch`, `ContinuousStopsOnlyForRepair` -
  shifts, duty and batches.
* `ImplementsRepairCycle`, `ImplementsBatchFlow` - the abstract specifications. An
  episode faults at most once, is averted or repaired once, and no step starts a
  broken machine; batches respect the limit, take the stages in order, one
  machine at a time that serves the stage and no other batch is on.
* `EpisodesEnd`, `StagesEnd`, `BatchesComplete` - liveness.

The stream's properties:

* `InOrder` - a break in the middle of a batch, with a buffer from earlier ones, and
  what is put back.
* `LossesCounted` - evictions, the worker emptying the queue meanwhile, both bounds
  reached at once, `stats` read in between.
* `OrderlyStop` - nothing is left in the router by a stop, although its waits are limited.
* `SimulationNeverStalls` - with no fairness for the worker at all; `ShutdownEnds`
  needs it, since the sentinel is put without a time limit.

`InOrder` and `LossesCounted` are stated for `~raced`. Without it TLC refutes both: after
a drain that gave up, `flush` and `write` send the same messages, and a `flush` that
fails loses the rest of what it took; a `stats` may store over a drop it has not seen.

The properties of time:

* `ShiftsOpenOnTime` - the chain of shifts across gaps, overlaps, midnight and the start
  of a run in the middle of one. Two shifts of one start are outside: the second never opens.
* `NothingInThePast` - what a shift that is joined late places before its opening.
* `AccountsAreExact` - time banked late, under the duty and the work of the moment.
* `RowsAreOfTheirShift` - a shift's end and the next one's start at one instant, with
  the machine running through.
* `HistoryIsContinuous` - flushes every hour and at the end.

Those of the stores:

* `NoRowRefused` - a flush between any two writes; the event before or after its row.
* `EverythingStored` - a failed call, the count of pending rows that is then too high, the
  transaction it takes along, the next flush, the close.
* `LossesDescend` - the tables after the failed one in the order of the flush.
* `EvaluationIsConsistent` - labels written at the repair, at the label tick and at every end, and an
  episode that is averted after a first `finish()` has labelled it as open. No key is written more often
  than the run was finished, and the last row of a key is true; a reader of a run that was finished twice
  has to take the last.

Those of start-up:

* `AcceptedConfigurationsBuild`, `NothingDangles` - what the linter does not look at: the
  group's own bindings, a class's own list of failure modes, the cache of sensors, the identifiers of
  machines. The property says exactly how far the plant's index goes: a machine is found in it, or one of
  another unit is that has the same prefix.
* `ForcedByTheFirstShortest` - routes on cycles, with ties, and where there is none.
* `LintAgreesWithTheOrder` - a parameter that reads itself; a cycle off the first search.
* `InputsAsMeasured`, `EachTestOnce` - tests deferred to the end, stages that come twice.
  `InputsAsMeasured` is a property of the step that computes a test: a stage that comes back
  later may measure what a test has already read from elsewhere, and the test stands.

Those of an investigation:

* `DeviationsWalkBothWays`, `VerifiedByReleasedBatches`, `OpenIndexIsExact`,
  `EveryDeviationConcludes` - batches and investigations that end in any order.
* `AlarmsFollowExcursions` - a stop, a setpoint, a fault, the end of a job or a lost reading between
  the alarm and the reading that ends it. An excursion that outlasts a job is not raised again, as the
  latch is still set: the property names this case (`serviced`) and allows no other.
* `HistoryKeepsItsSpan`, `SamplesKeepTheirRate` - gaps, and going live with a callback
  pending at the old cadence.

**Fairness.** `run_until` pops the earliest entry, every callback is placed a
finite time ahead, and time moves on because the ticks are periodic: every
pending callback runs. Since a callback is disabled while another one runs, that
is strong fairness of each callback (`Fairness` in `Plant`). A callback that
calls `_start_stage` goes on without anything in between (weak fairness). No
fairness is given to hazards, shifts, ticks or the start of planned work, and the choice
of machine is free. `BatchesComplete` says under which condition on staffing
batches finish: with nobody there they rightly wait. In `QualityChain` the
scheduled investigation is fair, nothing else. In `SinkRouter` only the simulation's
thread is (its waits are limited but for the sentinel); `ShutdownEnds` has the
fairness of the worker as its premise.

## Findings

Each is a run TLC must find violated; the property states what the repository
says of itself.

* `drain_after_drop` - drain is to wait for queued work (`streaming/router.py:75`). A
  batch evicted from the full queue is never marked as done (`streaming/router.py:53`),
  so after one drop the queue can never be joined and every stop waits out its ten
  seconds.
* `then_live` - a run is to fast-forward and then keep streaming live (`simulator.py:781`).
  The chain of shifts ends at the horizon of the fast-forward (`engine/shift_manager.py:85`)
  and lifting the horizon does not start it again: the live feed opens no shift.
* `inject_after_warmup` - an injected failure is to go through the same chain as any other
  (`domain/failure_engine.py:311`) in the hours run after it (`__main__.py:119`). The warm-up is a
  `run()` of its own, whose `finish` marks the simulator as stopping for good
  (`simulator.py:875`), so the recurring ticks die one interval into the second run.
* `evidence_window` - a full window is always to be available (`domain/history.py:87`). It is
  for a window that ends now (`HistoryKeepsItsSpan`); an investigation reads the one that
  ended when the deviation was detected, hours ago, and its oldest buckets are gone.

Seen while modelling, without a run of its own, because the model only repeats what the
lines say:

* A job whose machine is already being repaired is to be retried later
  (`domain/maintenance.py:248`); the route from a state to itself is empty, the move
  succeeds, and two jobs run at once. `NoMachineStranded` shows that this strands nothing.
* The shift scheduler is to be refused when it tries to idle a machine in mid-repair
  (`domain/machine.py:410`); the shipped table has an edge from maintenance to the parked state.
* Of several failures in a stage only the last is linked to the batch
  (`engine/batch_manager.py:400`).
* CAPAs opened for failed final tests are filed under no machine, and no batch ever
  verifies them (`domain/quality_management.py:498`).
* A busy plant is to queue repairs (`domain/maintenance.py:346`); the pool of technicians is
  looked at when the job has started already, and delays nothing.
* The linter is to report every dangling reference (`config/linter.py:5`); a product that
  lists and overrides an undeclared QC test makes it raise KeyError (`config/linter.py:356`).
* A label's key is to be unique (`domain/ground_truth.py:32`). The files of labels and ground truth only grow, and
  every `finish()` appends every episode's ground truth, and the labels of those still open, again
  (`simulator.py:884`, `simulator.py:889`): after a warm-up, and whenever the live service is stopped
  (`api/live.py:255`). `EvaluationIsConsistent` says what is left of uniqueness.
* The linter refuses a prefix used twice in a unit because "machine ids would collide" (`config/linter.py:238`).
  They collide between units as well (`domain/plant.py:226`), which it accepts: the later machines replace the
  earlier in the plant's index, and the earlier unit keeps machines that are staffed and given batches and are never
  sampled, degraded or reported. `tests/test_domain.py:50` looks for repeated identifiers among the keys of
  the index. `AcceptedConfigurationsBuild` allows for it.
* An alarm is not to persist across a stop (`engine/telemetry.py:231`). Only the latch of the sensor is cleared;
  the PLC shows the alarm, and a failure counts it, until a reading within limits or the end of a job.
  `AlarmsFollowExcursions` says nothing of the PLC after a reading where limits do not apply.
* The end of an ambient excursion is never announced: the tick that would see it clears it
  first (`domain/environment.py:75`).
* Two shifts that start at the same instant: the second never opens
  (`engine/shift_manager.py:85`).

## Proofs

Eight modules prove, with TLAPS and for every value of the constants that meets the
assumptions, what the runs show on small instances. No theorem rests on a bound:
`MaxTime`, `MaxMessages` and the like are constants as any other.

| module | theorem | states | about |
|---|---|---|---|
| `PlantSafety` | `FaultStopsProduction` | `[]UnrepairedFaultStopsProduction` | a broken machine produces nothing |
| | `RepairCycleRefined` | `Cycle!Spec` | the floor implements the abstract repair cycle |
| | `TypesHold` | `[]TypeOK` | types of the floor |
| | `CarriedOnce` | `[]OneContinuation` | one callback carries an active batch, none any other |
| | `HeldInStage` | `[]HeldWhileInStage` | a machine holds a batch while its stage end is booked |
| | `FlowRefined` | `Flow!Spec` | the floor implements the abstract batch flow |
| `RepairSafety` | `RepairedOnce` | `[]FaultHasOneRepair` | one repair for a fault, open until the episode is closed |
| | `NothingStranded` | `[]NoMachineStranded` | what is down or withheld has work open |
| | `UtilitiesHoldNone` | `[]ContinuousHoldsNoBatch` | utilities are never handed a batch |
| | `UtilitiesKeepOn` | `ContinuousStopsOnlyForRepair` | they stop for failure and repair only (an action property) |
| `QualitySafety` | `BothWays` | `[]DeviationsWalkBothWays` | links between batches and deviations |
| | `IndexedExactly` | `[]OpenIndexIsExact` | the index of open CAPAs |
| | `VerifiedOnce` | `[]VerifiedByReleasedBatches` | verification of CAPAs |
| `TimelineSafety` | `ClockWaits` | `[]NothingInThePast` | no task is passed by the clock |
| | `ShiftsChain` | `[]ShiftsOpenOnTime` | every shift is opened at its start |
| | `AccountsBalance` | `[]AccountsAreExact` | time banked is time passed |
| | `HistoryUnbroken` | `[]HistoryIsContinuous` | state intervals without gaps |
| `StorageSafety` | `NothingRefused` | `[]NoRowRefused` | every foreign key resolves while the store works |
| | `LossesStayBelow` | `[]LossesDescend` | a loss reaches only rows that owe something to the lost ones |
| | `ClosedRunsAreComplete` | `[]EverythingStored` | a closed run left nothing in a buffer, a chunk or a transaction |
| `SinkSafety` | `StopIsOrderly` | `[]OrderlyStop` | a stop leaves nothing in the router |
| | `DeliveredInOrder` | `[]InOrder` | messages once and in order |
| | `LossesAreCounted` | `[]LossesCounted` | losses against the counters |
| `SensingSafety` | `RateKept` | `SamplesKeepTheirRate` | samples are the rate apart (an action property) |
| | `AlarmsFollow` | `[]AlarmsFollowExcursions` | the latch and the PLC against the readings |
| | `SpanKept` | `[]HistoryKeepsItsSpan` | the window that ends now is there |
| `StartupSafety` | `RoutedByTheFirstShortest` | `[]ForcedByTheFirstShortest` | the search and the walk go by the first of the shortest routes |
| | `OrderedUnlessCyclic` | a fact about `EvaluationOrder` | the registry orders the rules exactly if they have no cycle |
| | `EachTestComputedOnce` | `[]EachTestOnce` | no test of a batch is missing or repeated |
| | `TestsReadWhatWasMeasured` | `InputsAsMeasured` | a test reads results, not stand-ins (an action property) |

Those of `SensingSafety` are about `SamplingSpec`, whose steps are the ones the run
`quality` takes on that side. Those of `StartupSafety` are about `RoutingSpec` and `QcSpec`, whose
steps the run `startup` takes. All others are about the `Spec` of their component.

### Assumptions

They are the named ASSUMEs; TLC evaluates all of them. `FloorParameters`,
`QualityParameters`, `TimelineAssumption`, `DayAssumption`, `RouterAssumption`,
`OfflineBufferAssumption`, `SensingParameters`, `PlantAssumption`, `SessionAssumption`,
`OutageAssumption`, `BackendAssumption`, `ThresholdAssumption`, `NPositive` and `QcAssumption` say what kind of thing the other constants
are, and `StateModel` what configuration validation leaves true of a state model. Four are
**not checked by the program**; both shipped configurations meet them, and they are what a
plant that breaks a theorem would have to look like:

* `Stoppable`: a productive state can fault; the states a machine is stopped or parked in are
  not productive; only a productive state has a warning state next to it. Without it the theorems
  about faults and repairs of `PlantSafety` are false.
* `Recoverable`: a machine that is down can be walked to idle; the states of failing and of
  maintenance count as downtime, and no other state a callback moves a machine to does; only
  parking takes a machine offline; a machine that shows a warning still produces. For
  `NothingStranded` and `UtilitiesKeepOn`.
* `DistinctStarts`: no two shifts of a pattern start together. Of two that do, the second never
  opens. For `ShiftsChain`.
* `LiveIsDenser`: the live feed samples no less often. Otherwise the callback that is pending when
  a run goes live may read a tag before its rate. For `RateKept`.

### The arguments

**Faults stop production.** `UnrepairedFaultStopsProduction` is not inductive: a machine is
started by whoever finds it free, so one needs to know why a broken machine is
never found free. The reason is the pending flag: the fault books a job and
sets it, and while any episode is faulted it must still be set. That fails only if
a completed job clears it, and a completed job closes every episode of its machine in
the same step. `FaultInv` is therefore: types of the variables concerned, every episode
that has begun is on a machine, and each faulted episode has its machine pending,
in no productive state. The duty tick could start
a continuous machine without looking for batches; it looks at the flag. Shifts,
cleaning ends and stage ends move machines only to states that `Stoppable` says
are not productive. One lemma per component shows that its steps keep the invariant
(`FailuresKeepInv`, `MaintenanceKeepsInv`, `BatchesKeepInv`, `StaffingKeepsInv`), on top of
lemmas about the moves (`MovesStayInState`, `StoppingMoves`).

The refinement rests on the same invariant and on `CycleInv`: the fault callback of an
episode is pending at most until it has run, so that an episode faults only from
"developing". `FailuresImplement`, `MaintenanceImplements` and `BatchesImplement` map each step
to a step of the abstract specification or a stutter.

**Batches.** Type correctness and the theorems about batches hang together and rest on one
invariant. `stageIndex` stays within the route, and the callbacks booked for a stage
name a stage of the route, only because a batch whose stage ends is active with a
stage left; that, because it cannot end a stage twice; and that, because one callback
at a time carries it. `Carried` says so: two callbacks that carry a batch are the same
one, there is none while `_start_stage` runs for it, a batch is active exactly while one
of both is there, and a batch that is not completed has a stage left. `BatchInv` is the
types, `Carried` and `HeldWhileInStage`, which are inductive together: given a machine, a
batch needs no second one because no callback carries it while `_start_stage` runs, and a
machine found free holds no batch because no stage end is booked on it. It uses
`FaultInv` for one thing, that a fault happens on a machine. `CarriedKept` settles every
callback that is not a batch's own; the callbacks of the batch manager have one lemma
each (`CreateBatchCarries` to `CompleteStageCarries`). In the refinement `CreateBatch` is
`Order`, the two ways to start a stage with a machine are `Take`, `CompleteStage` is
`Finish` (its machine is the only one the batch is on, by `Carried`), and all else
stutters.

**Repairs.** Few of the floor's steps touch a job, so `RepairSteps` first shows what every step
is to the jobs: it books planned work, is the fault of an episode, the start or the end of a job,
or is `Apart` from all of that. The invariants are then kept by these five cases, not by the
thirty actions. `RepairInv` says that an episode has a repair exactly if it has faulted, one only,
which is open on its machine until the episode is closed, and that an id not handed out
is no repair; `FaultHasOneRepair` follows by counting. `NothingStranded` needs
`Recoverable`: only work that is open may take a machine down, and its end must be able to walk
the machine back. That a utility never holds a batch follows from nobody operating it:
`_start_stage` asks for an operator and shifts assign none to it. `UtilityInv` says so, and
that no cleaning is booked there. `JobCallbacks` (a job that is to end is under way, one that
is to start is not) tells `UtilitiesKeepOn` that the job whose end stops a utility was open.

**Quality.** `QualityInv` is the three properties with what makes them inductive: an id that was not
handed out carries nothing, an investigation that is to come has no CAPA yet, a batch on a
machine is in process, no CAPA has counted more than it needs.

**Shifts and the heap.** The heap is ordered (`Heaps`), which `Placed` shows of `At`, and pops its
least task; so the clock never passes one. The chain of shifts is: exactly one next shift is booked
while the chain runs, and every dated shift that started before it is begun. It steps to the
least start after the present one, so nothing lies in between, `DistinctStarts` being what makes
the step pass no other. What there is to be found lies within a day, as the search assumes;
`TimelineSafety` shows it by arithmetic on days. The installed provers cannot instantiate the
induction theorems; where an argument is by induction (the least start, the tasks placed one by
one by `AtEach`) it takes the least counterexample (`Least`), from the well-foundedness of `<`.

**Accounts.** A machine is `Sound` at an instant if what it has banked and what has passed since its last
accrual, under the heading of its present state, is what has passed; and if its intervals follow on.
`AccrueBanks`, and one lemma for each thing that happens to a machine, keep it `Sound`; because every
change of state or of work accrues first, the heading under which a stretch of time is banked is the
one it was spent under. `RowsAreOfTheirShift` does not follow from it (see below).

**Stores.** None of the three properties is inductive, because a handler is many writes, a write
many calls, and a flush may come between any two. Two arguments run side by side through every
level of that nesting, from a single row (`InsertRow`) to a handler (`Perform`).
*Nothing is forgotten* (`Kept`): a row that was handed over is stored, in the buffer of
its store, or noted as lost; a Parquet row is on file, in the chunk, or still buffered. It holds
after every step, outage or none, and `EverythingStored` is what is left of it when a close has
emptied the buffers.
*Nothing is refused* (`Sound`): a row in the buffer names only rows that are `Known`, which is to say
stored, in the buffer with it, or of a table that depends on one an outage has hit. The
tables' declared order is what makes this enough (`Ordered`): when the turn of a table comes,
no row it may name is still in the buffer, so that an upsert that fails has a failed table
above it. `LossesDescend` is the same fact read the other way.
What a handler contributes is that its writes are `Founding`: each names what was `Known` before
the handler or what one of its own earlier writes provides. This is checked for every handler of
`Recording`, against what is `Standing` when it runs: the dimensions, the open shift and episodes, the
batches, deviations and investigations begun. Here lies the strengthening, `StorageInv`: that what
is `Standing` is `Known`. It does not survive a failed PostgreSQL call, which takes the rows of its
transaction along, founding ones included; so it is claimed while a run is `Trusted`: on SQLite, which
commits each call, or before the first outage. After an outage of
PostgreSQL neither property claims anything: the transaction may have held rows of any table.
Passes over sequences (the tables of a flush, the chunks of a buffer, the calls of a write, the writes of
a handler) are reasoned about step by step, without the library's induction theorems:
`Along` says that what each step keeps, the pass keeps, and `ByPrefixes` does the same for
sequences, both from `Least`.

**Streaming.** The messages stand in a `Line`: received, held by the sink (its buffer, and what the
worker's `write` has not sent), queued, in hand, in the batch. `LineIsKept` says that each part precedes
the next, `PartsAreSorted` that each is in order. Every step moves messages on along the line, or drops some;
`LineStep` shows that none overtakes, and that what is dropped is counted: by the sink one by
one (`Counted`), or as a batch of at most `BatchLimit` (`BatchLost`). All this holds as long as
the worker's call is alone (`WriteIsAlone`), which is what `raced` is about. A consequence was not
obvious from the code: between calls there is no connection while messages wait in the offline buffer, so as
long as nothing overlaps the `flush` of a stop never finds anything it could send. For the counters,
`LossInv` also bounds what a pending `stats` is about to store. `StopIsOrderly` needs none of it, and holds
with races as well: it rests on where each thread is (`PlacesAreKept`), and on nothing being placed behind the
sentinel (`SentinelsAreLast`).

**Sensing.** `AlarmsFollowExcursions` is inductive: `ReadingStep` settles the callbacks of the sampler, where
the latch, the PLC and the verdict change together or the alarms are left alone, `AlarmStep` the faults and jobs, which
change the PLC behind the latch. `RateInv` says where the booked callback lies relative to the last sample, for either cadence.
`SpanInv`: buckets lie a width or more apart, and a bucket that was forgotten lies that far before the first one
of a full history; `MaxBuckets` widths are one more than the window (`BucketsSpan`), so what was forgotten is
outside of it.

**Routes.** Paths are compared by length and then, state by state, by name (`Earlier`). `QueueInv`: every
path in the queue is legal, passes no state twice, and comes before all other legal walks to
where it ends. `QueueOrder`: the queue is in that order, and so are the extensions its paths will be
replaced by. `SeenInv`: a state that was seen is at the end of a queued path, or all its neighbours have been
seen. A walk to a state not seen yet therefore passes the end of a queued path (`PassesTheQueue`),
and no earlier than that path does; so the first path to reach a state is the first there is (`NewPathsAreFirst`), and
when the queue is empty nothing else can be reached (`NoRouteIsNoWay`). A path that passes no state twice
is shorter than there are states (`SimpleIsShort`), which is what bounds the reference. The walk is
never refused because what is left of the route starts where the machine is (`OnTheWay`).

**Tests.** `OrderedUnlessCyclic`: a pass of the registry takes nothing back and places whatever reads
only what is placed; among those that are left of a graph without cycles there is one, so that as many
passes as parameters place them all; and of the members of a cycle the first to be placed would read one that
is not. `QcInv` carries that order along. Picking out candidates keeps the order (`ThoseAre`), twice: the
tests of the product, and those of a stage or those outstanding. So what a test reads has a result before it,
is an earlier candidate, or is not a test of this product; and a test of a stage waits (`EvaluateAdds`). The candidates have
no result yet, which is why none is computed twice. The proof does not use what the linter's
search finds: if that were wrong, `OrderRules` would stop at "unordered".

### Only model-checked

* Liveness (`EpisodesEnd`, `StagesEnd`, `BatchesComplete`, `EveryDeviationConcludes`,
  `SimulationNeverStalls`, `ShutdownEnds`): the prover does not reason about fairness here.
* `RowsAreOfTheirShift`: it holds of patterns that tile the day once round, with ticks no further
  apart than a shift is long, and of the dated shifts a fold collects; which patterns those
  are is best said by the instances.
* `EvaluationIsConsistent`: the labels and the rows of ground truth agree because an episode's end is
  recorded once for each call of `finish()`, and the last call knows all ends. The invariant it needs speaks of
  which handler has run for each episode since which finish, and is left to the run.
* `LintAgreesWithTheOrder`: what the linter's depth-first search reports of every graph needs an
  induction over its recursion (`Visit`). The other half, what the registry makes of a graph with or without
  cycles, is `OrderedUnlessCyclic`.
* `AcceptedConfigurationsBuild` and `NothingDangles`: they hold because each of the linter's checks is as strict as
  one construction, and go through `Visit` as well; a proof would repeat the two sides of each check.

## Not modelled, and why

The columns of rows, identifiers' text, costs, logging. Real-valued models: health, hazard
rates, sensor signals, ambient temperature and humidity, OEE, quantities, the scoring of
evidence in an investigation. SQL text, file formats, ClickHouse and Timescale, the JSONL
sink, HTTP handlers and the browser hub, exports. What pydantic checks of one field alone.
`PROJECT.json` lists every component with its status.

On the floor: the technician pool, the demand multiplier (the batch limit is
constant), the deferral of preventive work (nothing reads it but the scan), and
the end of a run (in `Timeline`). A failing final test for which the plant has no deviation rule
is not in `QualityChain`.

Of the live service: a `stop` after the simulation's thread has died with an exception, which finishes a run
that did not finish; and one whose wait for that thread ends too early (`api/live.py:252`), so that two calls of `finish()`
overlap. In `Recording` a repair ends in a later hour than its episode began.

In `QcRules` and `QualityControl` a tag and a parameter never have one name, as in both shipped configurations. In
`Timeline` a minute is one unit of time, so that the minute a shift is given at least (`engine/shift_manager.py:160`)
never binds.

## Plan

In order of importance; done so far: 1 to 11.

1. The floor: registry, failures, maintenance, batches, shifts, duty; `RepairCycle` and
   `BatchFlow`; the runs above. **Done.**
2. `FaultStopsProduction` and `RepairCycleRefined`; types, `CarriedOnce`, `HeldInStage` and
   `FlowRefined`. **Done.**
3. `StateRouting`. **Done.**
4. `QualityChain`. **Done.**
5. `MqttSink` and `SinkRouter`. **Done.** Left: the JSONL sink.
6. `ShiftCalendar` and `Timeline`. **Done.** Left: more than one machine under a shift, whose
   effects on each other `Staffing` has.
7. `Schema`, `Stores` and `Recording`. **Done.**
8. `QcRules`, `QualityControl` and `Configuration`. **Done.**
9. `Sensing`. **Done.**
10. Theorems of every component but start-up: `PlantSafety`, `RepairSafety`,
   `QualitySafety`, `TimelineSafety`, `StorageSafety`, `SinkSafety`, `SensingSafety`. **Done.**
11. Theorems of start-up: `StartupSafety`. **Done**, for routes and for the tests of a batch. Left: the
   linter's search for cycles.
