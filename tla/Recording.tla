------------------------------ MODULE Recording ------------------------------
(***************************************************************************)
(* What a run leaves in the stores: the handlers that write rows, in the    *)
(* order they write them, through the facade of Stores.  One machine in     *)
(* one unit; a shift, a batch, degradation episodes with their repair,      *)
(* deviations with their investigation, sensor samples, and the hourly      *)
(* label and housekeeping ticks.                                           *)
(*                                                                         *)
(* A handler is a sequence of writes.  A write the engines make themselves  *)
(* is "direct": its exception leaves the handler, the scheduler and run(),  *)
(* and nobody catches it.  A write made under the event bus is a "tap": the *)
(* bus logs the exception and drops the rest of that subscriber only.       *)
(***************************************************************************)
EXTENDS Stores, FiniteSets

CONSTANTS
    Sessions,     \* how the program is used: the horizons of the successive calls
                  \* of run(), in hours, whether the live service makes them, and
                  \* how often the relational store fails meanwhile
    Batches,      \* batches produced, one after the other
    Episodes,     \* degradation episodes of the machine, one after the other
    Fuses         \* which relational call of a handler it fails in

\* The live service calls run() once.
ASSUME SessionAssumption ==
    \A s \in Sessions :
        /\ s.horizons # <<>> /\ s.live \in BOOLEAN /\ s.outages \in Nat
        /\ s.live => Len(s.horizons) = 1
        /\ \A i \in DOMAIN s.horizons :
              s.horizons[i] \in Nat /\ (i > 1 => s.horizons[i] > s.horizons[i - 1])

VARIABLES
    session,    \* one of Sessions
    d,          \* the stores
    phase,      \* "new", "running", "finished", "closed" or "crashed"
    call,       \* how many times run() was called
    now,        \* the hour
    turn,       \* whose turn it is in this hour, by scheduler priority
    chains,     \* the periodic tasks that are still scheduled
    stopping,   \* the simulator's _stopping
    shift,      \* the shift instance: "none", "open" or "over"
    batch,      \* each batch: "none", "active" or "done"
    truth,      \* each episode's ground truth
    deviation,  \* each deviation's status, "none" before it exists
    moves,      \* transitions of the machine, and how many were persisted
    outages,    \* failures of the store so far
    finishes    \* history: how many times finish() was called

plant == <<shift, batch, truth, deviation>>
usage == <<session, call, finishes>>
vars  == <<d, phase, usage, now, turn, chains, stopping, plant, moves, outages>>

None == "none"

\* The episode of a label that belongs to none.
NO_EPISODE == 0

ASSUME PlantAssumption ==
    /\ IsFiniteSet(Batches) /\ IsFiniteSet(Episodes)
    /\ NO_EPISODE \notin Episodes

ASSUME OutageAssumption == Fuses \subseteq Nat \ {0}

Chains == {"label", "persist"}

\* A deviation is named after what triggered it.
Deviations == (Episodes \X {"MACHINE_FAILURE"}) \cup (Batches \X {"QC_FAILED"})
-----------------------------------------------------------------------------
(* Rows.  The ids a row may carry are <<table, key>> pairs. *)

Row(t, key, ver, ids) ==
    [table |-> t, key |-> key, ver |-> ver,
     refs |-> {p \in ids : t \in DOMAIN References /\ p[1] \in References[t]}]

Site == {<<"plants", "plant">>, <<"runs", "run">>, <<"config_versions", "fingerprint">>,
         <<"equipment_classes", "press">>, <<"states", "IDLE">>, <<"products", "tablet">>,
         <<"shifts", "morning">>}
There == Site \cup {<<"units", "compression">>, <<"machines", "TP-001">>}
Staff == {<<"employees", "operator">>}
Open  == {<<"shift_instances", "SI-1">>}
Of(b) == {<<"batches", b>>}

Direct(row) == [tap |-> FALSE, calls |-> <<<<row>>>>, flush |-> FALSE]
DirectMany(rows) == [tap |-> FALSE, calls |-> <<rows>>, flush |-> FALSE]
Tap(rows) == [tap |-> TRUE, calls |-> [i \in 1 .. Len(rows) |-> <<rows[i]>>], flush |-> FALSE]
FlushNow == [tap |-> FALSE, calls |-> <<>>, flush |-> TRUE]

\* The persistence tap: the event's row, and its projection when it has one.
Persist(type, subject, projection, ids) ==
    LET row(t) == Row(t, <<type, subject>>, "", ids \cup {<<"event_types", type>>})
    IN  Tap(IF projection = None THEN <<row("events")>>
            ELSE <<row("events"), row(projection)>>)

\* One write: an exception leaves a direct one, and ends only the subscriber of
\* a tap.
Write(e, w) ==
    IF e.raised THEN e
    ELSE IF w.flush THEN Flush(e)
    ELSE LET f == Through(WriteMany, e, w.calls)
         IN  IF w.tap /\ f.raised
             THEN [f EXCEPT !.raised = FALSE, !.aborted = @ \cup {w.calls[1][1].table}]
             ELSE f

\* The writes of a handler, up to the first exception no one catches.
Perform(e, writes) == Through(Write, e, writes)

\* A handler under way: it may meet a failure of the store, and an exception
\* that leaves it ends the program.
Handle(writes, next) ==
    \E fuse \in IF outages < session.outages THEN Fuses \cup {0} ELSE {0},
       cut \in IF outages < session.outages /\ d.backend = "postgres" THEN BOOLEAN ELSE {FALSE} :
        LET e == Perform([d EXCEPT !.fuse = fuse, !.cut = cut, !.aborted = {}], writes)
        IN  /\ fuse > 0 => e.fuse = 0
            /\ outages' = outages + (IF fuse > 0 THEN 1 ELSE 0)
            /\ d' = [e EXCEPT !.raised = FALSE, !.fuse = 0, !.cut = FALSE]
            /\ phase' = IF e.raised THEN "crashed" ELSE next
-----------------------------------------------------------------------------
(* Start. *)

NoTruth == [onset |-> 0, due |-> 0, faulted |-> 0, averted |-> 0, resolved |-> 0]
\* Hours start at 1, so 0 says not yet.

Init ==
    /\ session \in Sessions /\ finishes = 0
    /\ \E backend \in Backends, limit \in FlushThresholds : d = NewStores(backend, limit)
    /\ phase = "new" /\ call = 0 /\ now = 1 /\ turn = "work"
    /\ chains = {} /\ stopping = FALSE
    /\ shift = None
    /\ batch = [b \in Batches |-> None]
    /\ truth = [e \in Episodes |-> NoTruth]
    /\ deviation = [v \in Deviations |-> None]
    /\ moves = [made |-> 0, persisted |-> 0]
    /\ outages = 0

EventTypes ==
    <<"SIMULATION_STARTED", "SIMULATION_STOPPED", "SHIFT_STARTED", "SHIFT_ENDED",
     "EMPLOYEE_CLOCK_IN", "PRODUCTION_ORDER_CREATED", "BATCH_STARTED",
     "BATCH_STAGE_COMPLETED", "BATCH_COMPLETED", "QC_FAILED", "QC_TEST_COMPLETED",
     "MACHINE_FAILURE", "PRODUCTION_STOPPED", "MAINTENANCE_COMPLETED",
     "DEGRADATION_AVERTED", "DEVIATION_CREATED", "RCA_COMPLETED", "CAPA_CREATED">>

\* The dimensions, the vocabularies included, then a flush.
PersistTopology ==
    <<Direct(Row("config_versions", "fingerprint", "", Site)),
      Direct(Row("runs", "run", "started", Site)),
      Direct(Row("states", "IDLE", "", Site))>>
    \o [i \in 1 .. Len(EventTypes) |-> Direct(Row("event_types", EventTypes[i], "", Site))]
    \o <<Direct(Row("equipment_classes", "press", "", Site)),
         Direct(Row("plants", "plant", "", Site)),
         Direct(Row("units", "compression", "", There)),
         Direct(Row("employees", "operator", "", There)),
         Direct(Row("products", "tablet", "", Site)),
         Direct(Row("shifts", "morning", "", Site)),
         Direct(Row("machines", "TP-001", "", There)),
         Direct(Row("sensors", "TP-001:force", "", There)),
         Direct(Row("plc_tags", "TP-001:force", "", There)),
         FlushNow>>

\* The first run() starts the simulation: the topology, then the tick chains.
\* A later run() finds it started and only moves the horizon.
Run ==
    /\ phase \in {"new", "finished"} /\ call < Len(session.horizons)
    /\ call' = call + 1
    /\ IF call = 0
       THEN /\ Handle(PersistTopology \o <<Persist("SIMULATION_STARTED", 1, None, Site)>>, "running")
            /\ chains' = Chains
       ELSE /\ phase' = "running"
            /\ UNCHANGED <<d, outages, chains>>
    /\ UNCHANGED <<session, finishes, now, turn, stopping, plant, moves>>
-----------------------------------------------------------------------------
(* The plant at work. *)

Working == phase = "running" /\ turn = "work"

\* The instance row goes ahead of every event that names it.
BeginShift ==
    /\ Working /\ shift = None
    /\ Handle(<<Direct(Row("shift_instances", "SI-1", "", Site)),
                Persist("SHIFT_STARTED", 1, None, Site \cup Open)>>, "running")
    /\ shift' = "open"
    /\ UNCHANGED <<usage, now, turn, chains, stopping, batch, truth, deviation, moves>>

ClockIn ==
    /\ Working /\ shift = "open"
    /\ ~ \E r \in d.handed : r[1] = "events" /\ r[2] = <<"EMPLOYEE_CLOCK_IN", 1>>
    /\ Handle(<<Persist("EMPLOYEE_CLOCK_IN", 1, "employee_events", There \cup Staff \cup Open)>>,
              "running")
    /\ UNCHANGED <<usage, now, turn, chains, stopping, shift, batch, truth, deviation, moves>>

\* Production of the shift, its OEE at four scopes, attendance, then the event.
EndShift ==
    /\ Working /\ shift = "open"
    /\ Handle(<<Direct(Row("production_records", <<"TP-001", "SI-1">>, "", There \cup Open))>>
              \o [i \in 1 .. 4 |->
                     Direct(Row("oee_snapshots",
                                <<<<"MACHINE", "UNIT", "PLANT", "SHIFT">>[i], "SI-1">>, "", Site))]
              \o <<Direct(Row("employee_events", <<"ATT", 1>>, "", There \cup Staff \cup Open)),
                   Persist("SHIFT_ENDED", 1, None, Site \cup Open)>>, "running")
    /\ shift' = "over"
    /\ UNCHANGED <<usage, now, turn, chains, stopping, batch, truth, deviation, moves>>

\* The batch row goes ahead of the events of its production.
StartBatch(b) ==
    /\ Working /\ batch[b] = None /\ \A c \in Batches : batch[c] # "active"
    /\ Handle(<<Direct(Row("batches", b, "active", Site)),
                Persist("PRODUCTION_ORDER_CREATED", b, None, Site \cup Of(b)),
                Persist("BATCH_STARTED", b, None, Site \cup Of(b))>>, "running")
    /\ batch' = [batch EXCEPT ![b] = "active"]
    /\ moves' = [moves EXCEPT !.made = @ + 1]
    /\ UNCHANGED <<usage, now, turn, chains, stopping, shift, truth, deviation>>

\* A deviation subscriber runs before the persistence tap of the event that
\* triggers it: the event of the new deviation, then its row.
OpenDeviation(v, ids) ==
    <<Persist("DEVIATION_CREATED", v, None, ids),
      Tap(<<Row("deviations", v, "OPEN", ids)>>)>>

\* The deviation survives in memory when its row does not, but then the
\* subscriber ends before it schedules the investigation.
Opened(e) == IF "deviations" \in e.aborted THEN "OPEN" ELSE "INVESTIGATION"

\* The last stage ends: its row, its tests, and the batch with its final row.
EndBatch(b) ==
    /\ Working /\ batch[b] = "active"
    /\ \E failed \in BOOLEAN :
          LET v == <<b, "QC_FAILED">>
          IN /\ Handle(<<Direct(Row("batch_stages", b, "", There \cup Of(b))),
                         Persist("BATCH_STAGE_COMPLETED", b, None, There \cup Of(b)),
                         Direct(Row("qc_results", b, "", There \cup Of(b)))>>
                       \o (IF failed
                           THEN OpenDeviation(v, There \cup Of(b))
                                \o <<Persist("QC_FAILED", b, None, There \cup Of(b))>>
                           ELSE <<>>)
                       \o <<Persist("QC_TEST_COMPLETED", b, None, There \cup Of(b)),
                            Direct(Row("batches", b, "done", Site)),
                            Persist("BATCH_COMPLETED", b, None, Site \cup Of(b))>>, "running")
             /\ deviation' = IF failed THEN [deviation EXCEPT ![v] = Opened(d')] ELSE deviation
    /\ batch' = [batch EXCEPT ![b] = "done"]
    /\ moves' = [moves EXCEPT !.made = @ + 1]
    /\ UNCHANGED <<usage, now, turn, chains, stopping, shift, truth>>
-----------------------------------------------------------------------------
(* Degradation and repair. *)

Active(e) == truth[e].onset > 0 /\ truth[e].resolved = 0

\* An episode begins at the hazard tick; the ledger keeps its true story.
Onset(e) ==
    /\ Working /\ truth[e].onset = 0 /\ \A f \in Episodes : ~Active(f)
    /\ \E due \in now + 1 .. now + 2 :
          truth' = [truth EXCEPT ![e] = [NoTruth EXCEPT !.onset = now, !.due = due]]
    /\ UNCHANGED <<d, phase, usage, now, turn, chains, stopping, shift, batch, deviation,
                   moves, outages>>

\* The fault at its appointed hour: the event with its deviation, and the row.
Fault(e) ==
    /\ Working /\ Active(e) /\ truth[e].due = now /\ truth[e].faulted = 0
    /\ LET v == <<e, "MACHINE_FAILURE">>
       IN /\ Handle(OpenDeviation(v, There)
                    \o <<Persist("MACHINE_FAILURE", e, "machine_events", There),
                         Persist("PRODUCTION_STOPPED", e, "machine_events", There),
                         Direct(Row("failures", e, "open", There))>>, "running")
          /\ deviation' = [deviation EXCEPT ![v] = Opened(d')]
    /\ truth' = [truth EXCEPT ![e].faulted = now]
    /\ moves' = [moves EXCEPT !.made = @ + 1]
    /\ UNCHANGED <<usage, now, turn, chains, stopping, shift, batch>>

\* The labels of one episode up to its end, each saying whether it was averted.
Labels(e, t, until) ==
    LET end == IF t.faulted > 0 THEN t.faulted
               ELSE IF t.averted > 0 THEN t.averted
               ELSE IF t.resolved > 0 THEN t.resolved ELSE until
    IN  IF end <= t.onset THEN <<>>
        ELSE [i \in 1 .. end - t.onset + 1 |->
                 Row("prediction_labels", <<t.onset + i - 1, e>>, t.averted > 0, Site)]

\* A repair ends: predictive before the fault, corrective after it.  At the
\* instant of the fault itself a repair that ends goes first and averts it.
MaintenanceDone(e) ==
    /\ Working /\ Active(e) /\ now > truth[e].onset
    /\ LET averted == truth[e].faulted = 0
           t == [truth[e] EXCEPT !.averted = IF averted THEN now ELSE 0, !.resolved = now]
       IN /\ Handle((IF averted
                     THEN <<Persist("DEGRADATION_AVERTED", e, "machine_events", There)>>
                     ELSE <<>>)
                    \o <<Direct(Row("maintenance", e, "", There)),
                         Persist("MAINTENANCE_COMPLETED", e, None, There \cup Staff)>>
                    \o (IF averted THEN <<>> ELSE <<Direct(Row("failures", e, "resolved", There))>>)
                    \o <<DirectMany(Labels(e, t, now))>>, "running")
          /\ truth' = [truth EXCEPT ![e] = t]
    /\ moves' = [moves EXCEPT !.made = @ + 1]
    /\ UNCHANGED <<usage, now, turn, chains, stopping, shift, batch, deviation>>

\* An investigation concludes: the report with its evidence, then the CAPA,
\* whose row is only written when the run ends.
Investigate(v) ==
    /\ Working /\ deviation[v] = "INVESTIGATION"
    /\ LET rca == There \cup {<<"deviations", v>>, <<"rca", v>>}
       IN Handle(<<Direct(Row("rca", v, "", rca)),
                   Direct(Row("rca_evidence", v, "", rca)),
                   Persist("RCA_COMPLETED", v, None, There),
                   Direct(Row("deviations", v, "INVESTIGATION", There)),
                   Persist("CAPA_CREATED", v, None, There),
                   Direct(Row("deviations", v, "CAPA_PENDING", There))>>, "running")
    /\ deviation' = [deviation EXCEPT ![v] = "CAPA_PENDING"]
    /\ UNCHANGED <<usage, now, turn, chains, stopping, shift, batch, truth, moves>>
-----------------------------------------------------------------------------
(* The rest of the hour, by priority: sensors, labels, housekeeping. *)

\* One sample of the machine is one write_many.
Sample ==
    /\ Working
    /\ \A e \in Episodes : Active(e) /\ truth[e].due <= now => truth[e].faulted > 0
    /\ turn' = "label"
    /\ Handle(<<DirectMany([i \in 1 .. 2 |->
                   Row(TELEMETRY_TABLE, <<now, i>>, "", Site)])>>, "running")
    /\ UNCHANGED <<usage, now, chains, stopping, shift, batch, truth, deviation, moves>>

\* A periodic task does its work and, unless the simulator is stopping,
\* schedules itself again.
Rescheduled(chain) == IF stopping THEN chains \ {chain} ELSE chains

\* A healthy label for the machine when nothing develops in it.
HealthyLabel ==
    IF \E e \in Episodes : Active(e) THEN <<>>
    ELSE <<DirectMany(<<Row("prediction_labels", <<now, NO_EPISODE>>, FALSE, Site)>>)>>

LabelTick ==
    /\ phase = "running" /\ turn = "label"
    /\ turn' = "persist"
    /\ Handle(IF "label" \in chains THEN HealthyLabel ELSE <<>>, "running")
    /\ chains' = Rescheduled("label")
    /\ UNCHANGED <<usage, now, stopping, shift, batch, truth, deviation, moves>>

\* The completed state intervals, which the machine then forgets.
FlushStateHistory ==
    DirectMany([i \in 1 .. moves.made - moves.persisted |->
                   Row("machine_state_history", moves.persisted + i, "", There)])

\* Housekeeping ends the hour, and the next one begins while the horizon of
\* this call allows.
HousekeepingTick ==
    /\ phase = "running" /\ turn = "persist"
    /\ IF "persist" \in chains
       THEN /\ Handle(<<FlushStateHistory, FlushNow>>, "running")
            /\ moves' = [moves EXCEPT !.persisted = moves.made]
       ELSE UNCHANGED <<d, phase, outages, moves>>
    /\ chains' = Rescheduled("persist")
    /\ IF now < session.horizons[call]
       THEN now' = now + 1 /\ turn' = "work"
       ELSE turn' = "finish" /\ UNCHANGED now
    /\ UNCHANGED <<usage, stopping, shift, batch, truth, deviation>>
-----------------------------------------------------------------------------
(* The end of a run. *)

Outcome(t) ==
    IF t.averted > 0 THEN "AVERTED" ELSE IF t.faulted > 0 THEN "FAULTED" ELSE "IN_PROGRESS"

Began == {e \in Episodes : truth[e].onset > 0}

\* The episodes no repair has closed, whose labels are still to come.
\* As a mutant: every episode is labelled at the end.
StillOpenAll == Began

StillOpen == {e \in Began : truth[e].resolved = 0 /\ truth[e].averted = 0}

\* A direct write for each element of a set.
Each(S, W(_)) == [i \in 1 .. Cardinality(S) |-> W(SetToSeq(S)[i])]

\* finish: the open intervals, the labels of what still develops, the whole
\* ledger, and the final state of every record still in memory.
FinalWrites ==
    <<FlushStateHistory>>
    \o Each(StillOpen, LAMBDA e : DirectMany(Labels(e, truth[e], now)))
    \o Each(Began, LAMBDA e :
            Direct(Row("ground_truth_events", e, Outcome(truth[e]), Site)))
    \o Each({e \in Began : truth[e].resolved > 0},
            LAMBDA e : Direct(Row("maintenance", e, "", There)))
    \o Each({e \in Began : truth[e].faulted > 0},
            LAMBDA e : Direct(Row("failures", e,
                          IF truth[e].resolved > 0 THEN "resolved" ELSE "open", There)))
    \o Each({v \in Deviations : deviation[v] # None},
            LAMBDA v : Direct(Row("deviations", v, deviation[v], There)))
    \o Each({v \in Deviations : deviation[v] = "CAPA_PENDING"},
            LAMBDA v : Direct(Row("capa", v, "", There \cup {<<"deviations", v>>, <<"rca", v>>})))
    \o <<Persist("SIMULATION_STOPPED", finishes + 1, None, Site),
         Direct(Row("runs", "run", <<"ended", now>>, Site)),
         FlushNow>>

Finalise(next) ==
    /\ Handle(FinalWrites, next)
    /\ finishes' = finishes + 1
    /\ moves' = [moves EXCEPT !.persisted = moves.made]
    /\ UNCHANGED <<session, call, chains, plant>>

\* Every call of run() ends in finish.
Finish ==
    /\ phase = "running" /\ turn = "finish"
    /\ Finalise("finished")
    /\ stopping' = TRUE
    /\ IF call < Len(session.horizons)
       THEN now' = now + 1 /\ turn' = "work"
       ELSE turn' = (IF session.live THEN "stop" ELSE "close") /\ UNCHANGED now

\* The service ends the live feed, in the middle of an hour or not.
StopFeed ==
    /\ session.live /\ phase = "running" /\ turn # "finish"
    /\ stopping' = TRUE /\ turn' = "finish"
    /\ UNCHANGED <<d, phase, usage, now, chains, plant, moves, outages>>

\* The service then finishes the run that has finished, and would catch its
\* exception.
StopService ==
    /\ phase = "finished" /\ turn = "stop"
    /\ Finalise("finished")
    /\ turn' = "close"
    /\ UNCHANGED <<now, stopping>>

\* The program closes the stores and ends.
CloseStores ==
    /\ turn = "close"
    /\ phase = "finished" \/ (phase = "crashed" /\ session.live)
    /\ LET e == Close(d)
       IN d' = [e EXCEPT !.raised = FALSE] /\ phase' = IF e.raised THEN "crashed" ELSE "closed"
    /\ turn' = "closed"
    /\ UNCHANGED <<usage, now, chains, stopping, plant, moves, outages>>

Terminated ==
    /\ turn = "closed" \/ (phase = "crashed" /\ (turn = "close" => ~ session.live))
    /\ UNCHANGED vars

Next ==
    \/ Run \/ BeginShift \/ ClockIn \/ EndShift
    \/ \E b \in Batches : StartBatch(b) \/ EndBatch(b)
    \/ \E e \in Episodes : Onset(e) \/ Fault(e) \/ MaintenanceDone(e)
    \/ \E v \in Deviations : Investigate(v)
    \/ Sample \/ LabelTick \/ HousekeepingTick
    \/ Finish \/ StopFeed \/ StopService \/ CloseStores \/ Terminated

Spec == Init /\ [][Next]_vars
-----------------------------------------------------------------------------
(* Properties. *)

\* No row is refused or rolled back unless the store itself failed: at every
\* flush threshold, whatever the order of the handlers, a row reaches the store
\* together with or after every row its foreign keys name
\* (storage/schema.py:9, storage/facade.py:11).
NoRowRefused == outages = 0 => d.lost = {}

\* A run that closed its stores has put every row it handed over where it
\* belongs: the newest version of each relational row is committed unless the
\* failed call or its consequences took it, and readings, labels and ground
\* truth are in their files once each and in order.
EverythingStored ==
    phase = "closed" =>
        /\ d.handed \subseteq d.committed \cup d.lost
        /\ \A t \in EVAL_TABLES \cup {TELEMETRY_TABLE} :
              RowsOf(d.file, t) = RowsOf(d.appended, t)

\* Every table another one depends on, directly or not.
Ancestors ==
    LET f[n \in 0 .. 5] ==
            IF n = 0 THEN References
            ELSE [t \in DOMAIN References |->
                     f[n - 1][t] \cup UNION {References[p] : p \in f[n - 1][t]}]
    IN  f[5]

\* A call SQLite refuses once costs the rows of its own table and of tables that
\* depend on it, and never a row that has nothing to do with it: the tables not
\* yet flushed keep their rows for the next flush.
LossesDescend ==
    d.backend = "sqlite" =>
        \A r \in d.lost : r[1] \in d.failed \/ Ancestors[r[1]] \cap d.failed # {}

\* How often a row of this table and key was written, and whether the row at i
\* is the last of them.
Times(r) == Cardinality({i \in DOMAIN d.appended :
                            d.appended[i].table = r.table /\ d.appended[i].key = r.key})
LastWord(i) ==
    \A j \in i + 1 .. Len(d.appended) :
        <<d.appended[j].table, d.appended[j].key>> # <<d.appended[i].table, d.appended[i].key>>

\* Nothing but finish() says a thing again, and what is said last is true.  A key
\* is written at most once for every call of finish(), so once in a run that is
\* finished once, whatever order fault, repair, label tick and the end come in,
\* and again with every run() and at the stop of the live service, which append
\* what is there already under the same keys;
\* and once the stores are closed, the last row of an episode in the ground truth
\* has its outcome, and the last label of each of its hours says whether it was
\* averted, although a label of an earlier finish() did not know
\* (simulator.py:883, domain/ground_truth.py:210).
EvaluationIsConsistent ==
    /\ phase \in {"finished", "closed"} =>
          \A i \in DOMAIN d.appended : Times(d.appended[i]) <= finishes
    /\ phase = "closed" =>
          \A i \in DOMAIN d.appended, e \in Episodes :
              LET r == d.appended[i]
              IN  /\ LastWord(i) /\ r.table = "ground_truth_events" /\ r.key = e
                        => r.ver = Outcome(truth[e])
                  /\ LastWord(i) /\ r.table = "prediction_labels" /\ r.key[2] = e
                        => r.ver = (truth[e].averted > 0)

\* While the simulation runs, its hourly ticks are scheduled.
TicksKeepRunning == phase = "running" => chains = Chains
=============================================================================
