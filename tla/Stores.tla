-------------------------------- MODULE Stores --------------------------------
(***************************************************************************)
(* The storage facade over its three stores (storage/facade.py), with the   *)
(* two relational stores and the Parquet writers behind it, as operators on *)
(* one record.                                                             *)
(*                                                                         *)
(* A row is [table, key, ver, refs]: its table, its primary key, what its   *)
(* other columns say, and the <<table, key>> pairs its foreign keys name.   *)
(* The record d of the stores has                                          *)
(*   buffer      relational rows waiting in the facade, oldest first       *)
(*   pending     the facade's count of them, as it believes it             *)
(*   telemetry   readings waiting in the facade                            *)
(*   evaluation  labels and ground truth waiting in the facade             *)
(*   chunks      appended rows the Parquet writers hold                    *)
(*   file        appended rows in the files, oldest first                  *)
(*   stored      rows the relational connection sees                       *)
(*   committed   rows that survive the connection                          *)
(*   backend     the relational store                                      *)
(*   limit       the facade's flush threshold                              *)
(*   broken      a PostgreSQL transaction that has failed                  *)
(*   raised      an exception on its way out of the current call           *)
(*   fuse        relational calls left until the store fails once, or 0    *)
(*   cut         whether that failure also drops the connection            *)
(*   aborted     first tables of the bus subscribers an exception ended    *)
(* and what only the properties read: lost, the rows a failed call took    *)
(* with it, failed, the tables of the calls the outage broke, and handed,  *)
(* the newest version of each relational row given to the facade, with     *)
(* appended, every other row given to it.                                  *)
(***************************************************************************)
EXTENDS Integers, SequencesExt, Schema

CONSTANTS
    Backends,            \* the relational stores to run on: "sqlite", "postgres"
    FlushThresholds,     \* how many rows the facade may hold, one per behaviour
    TelemetryThreshold,  \* how many readings it may hold
    ChunkSize            \* rows a Parquet writer holds per partition

ASSUME BackendAssumption == Backends \subseteq {"sqlite", "postgres"}
ASSUME ThresholdAssumption ==
    FlushThresholds \cup {TelemetryThreshold, ChunkSize} \subseteq Nat \ {0}

NewStores(backend, limit) ==
    [buffer |-> <<>>, pending |-> 0, telemetry |-> <<>>, evaluation |-> <<>>,
     chunks |-> <<>>, file |-> <<>>, stored |-> {}, committed |-> {},
     backend |-> backend, limit |-> limit,
     broken |-> FALSE, raised |-> FALSE, fuse |-> 0, cut |-> FALSE, aborted |-> {},
     lost |-> {}, failed |-> {}, handed |-> {}, appended |-> <<>>]

\* FoldLeft, evaluated in one pass over the sequence.
Through(op(_, _), base, s) ==
    LET f[i \in 0 .. Len(s)] == IF i = 0 THEN base ELSE op(f[i - 1], s[i])
    IN  f[Len(s)]

\* The rows of some tables, in their order.
RowsIn(rows, tables) ==
    Through(LAMBDA kept, r : IF r.table \in tables THEN Append(kept, r) ELSE kept,
            <<>>, rows)

RowsOf(rows, t) == RowsIn(rows, {t})
RowsNotOf(rows, t) == RowsIn(rows, Tables \ {t})

Content(r) == <<r.table, r.key, r.ver>>

\* INSERT OR REPLACE, and ON CONFLICT DO UPDATE: the newest row of a key stays.
Replace(S, r) == {s \in S : <<s[1], s[2]>> # <<r.table, r.key>>} \cup {Content(r)}

Resolves(S, r) == \A p \in r.refs : \E s \in S : <<s[1], s[2]>> = p
-----------------------------------------------------------------------------
(* The relational store. *)

\* Rows i onwards of a call did not get in.
Refuse(d, rows, i) ==
    [d EXCEPT !.raised = TRUE,
              !.broken = d.backend = "postgres",
              !.lost   = @ \cup {Content(rows[j]) : j \in i .. Len(rows)}]

\* Insert rows one after the other, up to the first whose foreign keys do not
\* resolve.  SQLite runs in autocommit, so the rows before it stay; PostgreSQL
\* keeps them in a transaction that can only be rolled back.
InsertRow(e, rows, i) ==
    IF e.raised THEN e
    ELSE IF ~Resolves(e.stored, rows[i]) THEN Refuse(e, rows, i)
    ELSE LET now == Replace(e.stored, rows[i])
         IN  [e EXCEPT !.stored = now,
                       !.committed = IF e.backend = "sqlite" THEN now ELSE @]

Insert(d, rows) ==
    LET f[i \in 0 .. Len(rows)] == IF i = 0 THEN d ELSE InsertRow(f[i - 1], rows, i)
    IN  f[Len(rows)]

\* A dropped PostgreSQL connection takes its transaction along, and the next
\* call connects again.
Disconnect(d) ==
    [d EXCEPT !.broken = FALSE, !.stored = d.committed,
              !.lost = @ \cup (d.stored \ d.committed)]

\* One upsert.  A store that is unreachable, locked or full refuses the call as
\* a whole; so does every call on a transaction that has failed.
Upsert(d, rows) ==
    IF d.fuse = 1
    THEN LET e == [Refuse(d, rows, 1) EXCEPT !.fuse = 0, !.failed = @ \cup {rows[1].table}]
         IN  IF d.cut THEN Disconnect(e) ELSE e
    ELSE LET e == [d EXCEPT !.fuse = IF @ = 0 THEN 0 ELSE @ - 1]
         IN  IF e.broken THEN Refuse(e, rows, 1) ELSE Insert(e, rows)

\* Committing a failed transaction rolls it back.
Commit(d) ==
    IF d.broken THEN Disconnect(d) ELSE [d EXCEPT !.committed = d.stored]

\* As a mutant: the whole buffer is emptied before the first call.
FlushAtOnce(d) ==
    IF d.buffer = <<>> THEN d
    ELSE LET upserted == Through(
                 LAMBDA e, t :
                     IF e.raised \/ RowsOf(d.buffer, t) = <<>> THEN e
                     ELSE Upsert(e, RowsOf(d.buffer, t)),
                 [d EXCEPT !.buffer = <<>>], TABLE_ORDER)
         IN  IF upserted.raised THEN upserted
             ELSE [Commit(upserted) EXCEPT !.pending = 0]

\* A table leaves the buffer before its call, and an exception leaves the
\* later ones there.
FlushTable(e, t) ==
    IF e.raised \/ \A i \in DOMAIN e.buffer : e.buffer[i].table # t THEN e
    ELSE Upsert([e EXCEPT !.buffer = RowsNotOf(@, t)], RowsOf(e.buffer, t))

\* The buffered rows, table by table in dependency order.
FlushRelational(d) ==
    IF d.buffer = <<>> THEN d
    ELSE LET upserted == Through(FlushTable, d, TABLE_ORDER)
         IN  IF upserted.raised THEN upserted
             ELSE [Commit(upserted) EXCEPT !.pending = 0]
-----------------------------------------------------------------------------
(* The Parquet writers: one partition per appended table. *)

WriteChunk(d, t) ==
    [d EXCEPT !.file = @ \o RowsOf(d.chunks, t), !.chunks = RowsNotOf(@, t)]

WriteChunks(d) ==
    WriteChunk(WriteChunk(WriteChunk(d, "ground_truth_events"), "prediction_labels"),
               TELEMETRY_TABLE)

\* A batch of readings of one partition joins the writer's rows at once, and
\* labels one at a time; a full chunk is written as a row group.
Extend(d, rows) ==
    LET e == [d EXCEPT !.chunks = @ \o rows]
        t == rows[1].table
    IN  IF Len(RowsOf(e.chunks, t)) >= ChunkSize THEN WriteChunk(e, t) ELSE e

FlushTelemetry(d) ==
    IF d.telemetry = <<>> THEN d
    ELSE [Extend(d, d.telemetry) EXCEPT !.telemetry = <<>>]

FlushEvaluation(d) ==
    [Through(LAMBDA e, r : Extend(e, <<r>>), d, d.evaluation) EXCEPT !.evaluation = <<>>]
-----------------------------------------------------------------------------
(* The facade. *)

\* As a mutant: the labels the facade holds are forgotten.
FlushTwoStores(d) ==
    LET e == FlushRelational(d)
    IN  IF e.raised THEN e ELSE WriteChunks(FlushTelemetry(e))

\* Everything the facade and the writers hold; an exception of the relational
\* store leaves the other two unflushed.
Flush(d) ==
    LET e == FlushRelational(d)
    IN  IF e.raised THEN e ELSE WriteChunks(FlushEvaluation(FlushTelemetry(e)))

WriteTelemetry(d, rows) ==
    LET e == [d EXCEPT !.telemetry = @ \o rows, !.appended = @ \o rows]
    IN  IF Len(e.telemetry) >= TelemetryThreshold THEN FlushTelemetry(e) ELSE e

WriteEvaluation(d, rows) ==
    LET e == [d EXCEPT !.evaluation = @ \o rows, !.appended = @ \o rows]
    IN  IF Len(RowsOf(e.evaluation, rows[1].table)) >= d.limit
        THEN FlushEvaluation(e) ELSE e

WriteRelational(d, rows) ==
    LET e == [d EXCEPT !.buffer = @ \o rows, !.pending = @ + Len(rows),
                       !.handed = Through(Replace, @, rows)]
    IN  IF e.pending >= d.limit THEN FlushRelational(e) ELSE e

\* One write_many: all its rows are of one table.
WriteMany(d, rows) ==
    IF rows = <<>> \/ d.raised THEN d
    ELSE IF rows[1].table = TELEMETRY_TABLE THEN WriteTelemetry(d, rows)
    ELSE IF rows[1].table \in EVAL_TABLES THEN WriteEvaluation(d, rows)
    ELSE WriteRelational(d, rows)

\* Flush, then close the connection: what it has not committed it commits.
Close(d) ==
    LET e == Flush(d) IN IF e.raised THEN e ELSE Commit(e)
=============================================================================
