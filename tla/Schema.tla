------------------------------- MODULE Schema -------------------------------
(***************************************************************************)
(* The declared tables of the stores: which foreign keys each relational    *)
(* table carries, and the order in which the facade flushes them            *)
(* (storage/schema.py).  Columns that are not foreign keys are left out.    *)
(* A table is its name, and its foreign keys are the tables they point to:  *)
(* no table points twice to the same one.                                   *)
(***************************************************************************)
\* The run and the configuration it ran under.
ProvenanceTables == [config_versions |-> {}, runs |-> {"config_versions"}]

\* The vocabularies, which are rows like everything else.
VocabularyTables == [states |-> {}, event_types |-> {}, equipment_classes |-> {}]

\* The plant, its machines and their tags, and its people.
PlantTables ==
    [plants    |-> {},
     units     |-> {"plants"},
     machines  |-> {"units", "plants", "equipment_classes"},
     sensors   |-> {"machines", "units", "plants"},
     plc_tags  |-> {"machines"},
     employees |-> {"plants", "units"}]

\* What the plant makes and the shifts it works.
CatalogueTables ==
    [products        |-> {},
     shifts          |-> {},
     shift_instances |-> {"shifts", "plants"}]

\* What happened, and how machines spent their time.
OperationTables ==
    [events |-> {"event_types", "plants", "units", "machines", "batches",
                 "employees", "shift_instances", "runs"},
     machine_state_history |-> {"machines", "states", "runs"},
     production_records    |-> {"machines", "shift_instances", "units", "runs"},
     oee_snapshots         |-> {"runs"}]

\* Batches, their stages and tests.
BatchTables ==
    [batches      |-> {"products", "plants", "runs"},
     batch_stages |-> {"batches", "units", "machines"},
     qc_results   |-> {"batches", "products", "runs"}]

\* Failures, repairs and the quality system's documents.
QualityTables ==
    [failures     |-> {"machines", "units", "runs"},
     maintenance  |-> {"machines", "units", "runs"},
     deviations   |-> {"plants", "units", "runs"},
     rca          |-> {"deviations", "runs"},
     rca_evidence |-> {"rca"},
     capa         |-> {"deviations", "rca", "runs"}]

\* The two projections of the event table.
EventTables ==
    [employee_events |-> {"employees", "shift_instances", "units", "runs"},
     machine_events  |-> {"machines", "units", "runs"}]

\* Two functions of different domains as one.
Joined(f, g) ==
    [x \in (DOMAIN f) \cup (DOMAIN g) |-> IF x \in DOMAIN f THEN f[x] ELSE g[x]]

\* Every relational table with its foreign keys.
References ==
    Joined(ProvenanceTables, Joined(VocabularyTables, Joined(PlantTables,
        Joined(CatalogueTables, Joined(OperationTables, Joined(BatchTables,
            Joined(QualityTables, EventTables)))))))

\* As a mutant: the events go right after the shifts they name.
TABLE_ORDER_EventsEarly ==
    <<"config_versions", "runs", "states", "event_types", "equipment_classes",
      "plants", "units", "machines", "sensors", "plc_tags", "employees",
      "products", "shifts", "shift_instances", "events", "batches", "batch_stages",
      "qc_results", "failures", "maintenance", "deviations", "rca",
      "rca_evidence", "capa", "machine_state_history", "production_records",
      "oee_snapshots", "employee_events", "machine_events">>

\* The order in which one flush hands its tables to the store.
TABLE_ORDER ==
    <<"config_versions", "runs", "states", "event_types", "equipment_classes",
      "plants", "units", "machines", "sensors", "plc_tags", "employees",
      "products", "shifts", "shift_instances", "batches", "batch_stages",
      "qc_results", "failures", "maintenance", "deviations", "rca",
      "rca_evidence", "capa", "machine_state_history", "production_records",
      "oee_snapshots", "employee_events", "machine_events", "events">>

\* The tables that go to the evaluation store.
EVAL_TABLES == {"ground_truth_events", "prediction_labels"}

\* The one table of the time-series store.
TELEMETRY_TABLE == "sensor_readings"

\* Every table.
Tables == (DOMAIN References) \cup EVAL_TABLES \cup {TELEMETRY_TABLE}

=============================================================================
