----------------------------- MODULE SinkRouter -----------------------------
(***************************************************************************)
(* The sink router (streaming/router.py) with one MQTT sink behind it: the *)
(* bounded queue, its worker thread, and the thread of the simulation,     *)
(* which publishes and, at the end, stops the router.  Sinks share nothing *)
(* but the order in which they are stopped.                                *)
(***************************************************************************)
EXTENDS MqttSink

CONSTANTS
  QueueSize,     \* queue_size of the sink, in batches
  BatchSize,     \* messages that make publish dispatch
  Chunk,         \* the most messages one publish_many hands over
  MaxMessages,   \* bound: messages the simulation publishes
  MaxStops       \* bound: a live run is finished by its loop and by stop

ASSUME RouterAssumption ==
  /\ QueueSize \in Nat \ {0}
  /\ BatchSize \in Nat \ {0}
  /\ Chunk \in Nat \ {0}
  /\ MaxMessages \in Nat
  /\ MaxStops \in Nat

VARIABLES
  batch,        \* SinkRouter._batch
  submitted,    \* _submitted, and the number of the last message
  queue,        \* _queue, of batches and the sentinel
  unfinished,   \* its unfinished_tasks
  dropped,      \* _SinkWorker._dropped, in batches
  worker,       \* where the worker thread is
  main,         \* where the simulation thread is
  hand,         \* the batch submit is placing
  stops,        \* how many times the router was told to stop
  report,       \* what stats, called by any thread, is about to store
  raced         \* history: write and flush have run at the same time, or
                \* stats has stored over a drop it had not seen

routerVars == <<batch, submitted, queue, unfinished, dropped, worker, main,
                hand, stops, report, raced>>

vars == <<sinkVars, routerVars>>

Sentinel == <<>>      \* no batch is empty

NoReport == [seen |-> 0, max |-> 0, held |-> FALSE]

MainAt == {"new", "running", "evict", "retry", "drain", "flush", "sentinel",
           "join", "close", "closing", "stopped"}

stopping == stops > 0

Init ==
  /\ SinkInit
  /\ batch = <<>> /\ submitted = 0
  /\ queue = <<>> /\ unfinished = 0 /\ dropped = 0
  /\ worker = "new" /\ main = "new" /\ hand = <<>>
  /\ stops = 0 /\ report = NoReport /\ raced = FALSE

-----------------------------------------------------------------------------
\* The queue

Put(item) ==
  /\ queue' = Append(queue, item)
  /\ unfinished' = unfinished + 1

\* Where the simulation goes on once a batch is submitted.
Resume == IF stops' > 0 THEN "drain" ELSE "running"

\* Mutant of Submit: put instead of put_nowait.
SubmitWaiting(b) ==
  Len(queue) < QueueSize /\ Put(b) /\ main' = Resume /\ UNCHANGED hand

\* submit: put_nowait, or start to make room.
Submit(b) ==
  IF Len(queue) < QueueSize
    THEN Put(b) /\ main' = Resume /\ UNCHANGED hand
    ELSE main' = "evict" /\ hand' = b /\ UNCHANGED <<queue, unfinished>>

-----------------------------------------------------------------------------
\* The simulation thread

Start ==
  /\ main = "new"
  /\ Open
  /\ worker' = "get" /\ main' = "running"
  /\ UNCHANGED <<offline, sinkDropped, received, call, batch, submitted, queue,
                 unfinished, dropped, hand, stops, report, raced>>

\* publish (one message) and publish_many; a batch that is long enough is
\* dispatched.
Publish ==
  /\ main = "running"
  /\ \E n \in 1..Chunk :
       LET full == batch \o [i \in 1..n |-> submitted + i] IN
       /\ submitted + n <= MaxMessages
       /\ submitted' = submitted + n
       /\ UNCHANGED stops
       /\ IF Len(full) >= BatchSize
            THEN batch' = <<>> /\ Submit(full)
            ELSE batch' = full /\ UNCHANGED <<queue, unfinished, main, hand>>
  /\ UNCHANGED <<sinkVars, dropped, worker, report, raced>>

\* dispatch, by the tick of the simulation.
Dispatch ==
  /\ main = "running" /\ batch # <<>>
  /\ UNCHANGED stops
  /\ batch' = <<>> /\ Submit(batch)
  /\ UNCHANGED <<sinkVars, submitted, dropped, worker, report, raced>>

\* The queue was full: get_nowait.  The worker may have emptied it since, and
\* then it is the new batch that is dropped.
Evict ==
  /\ main = "evict"
  /\ dropped' = dropped + 1
  /\ UNCHANGED stops
  /\ IF queue = <<>>
       THEN main' = Resume /\ hand' = <<>> /\ UNCHANGED queue
       ELSE queue' = Tail(queue) /\ main' = "retry" /\ UNCHANGED hand
  /\ UNCHANGED <<sinkVars, batch, submitted, unfinished, worker, report, raced>>

\* The second put_nowait.
Retry ==
  /\ main = "retry"
  /\ UNCHANGED stops
  /\ hand' = <<>> /\ main' = Resume
  /\ IF Len(queue) < QueueSize
       THEN Put(hand) /\ UNCHANGED dropped
       ELSE dropped' = dropped + 1 /\ UNCHANGED <<queue, unfinished>>
  /\ UNCHANGED <<sinkVars, batch, submitted, worker, report, raced>>

\* Mutant of Stop: the batch being filled is forgotten.
StopWithoutDispatch ==
  /\ main \in {"running", "stopped"} /\ stops < MaxStops
  /\ stops' = stops + 1
  /\ main' = "drain"
  /\ UNCHANGED <<sinkVars, batch, submitted, queue, unfinished, dropped, worker, hand,
                 report, raced>>

\* stop: dispatch what is left.
Stop ==
  /\ main \in {"running", "stopped"} /\ stops < MaxStops
  /\ stops' = stops + 1
  /\ IF batch = <<>>
       THEN main' = "drain" /\ UNCHANGED <<batch, queue, unfinished, hand>>
       ELSE batch' = <<>> /\ Submit(batch)
  /\ UNCHANGED <<sinkVars, submitted, dropped, worker, report, raced>>

\* drain: the queue was joined, or ten seconds have passed.
Drained ==
  /\ main = "drain"
  /\ main' = "flush"
  /\ UNCHANGED <<sinkVars, batch, submitted, queue, unfinished, dropped, worker,
                 hand, stops, report, raced>>

\* The flush of drain and, when there is a client, that of close.
BeginFlush ==
  /\ \/ main = "flush" /\ main' = "sentinel"
     \/ main = "close" /\ client /\ main' = "closing"
  /\ IF CanFlush
       THEN StartFlush("main") /\ raced' = (raced \/ InCall("worker"))
       ELSE UNCHANGED <<sinkVars, raced>>
  /\ UNCHANGED <<batch, submitted, queue, unfinished, dropped, worker, hand, stops, report>>

\* put(_SENTINEL) waits for room, without a limit.
PutSentinel ==
  /\ main = "sentinel" /\ ~InCall("main")
  /\ Len(queue) < QueueSize
  /\ Put(Sentinel)
  /\ main' = "join"
  /\ UNCHANGED <<sinkVars, batch, submitted, dropped, worker, hand, stops, report, raced>>

\* The worker has ended, or ten seconds have passed.
Joined ==
  /\ main = "join"
  /\ main' = "close"
  /\ UNCHANGED <<sinkVars, batch, submitted, queue, unfinished, dropped, worker,
                 hand, stops, report, raced>>

\* close without a client, and the end of close with one.
Close ==
  /\ \/ main = "close" /\ ~client /\ UNCHANGED sinkVars
     \/ main = "closing" /\ ~InCall("main") /\ Disconnect
  /\ main' = "stopped"
  /\ UNCHANGED <<batch, submitted, queue, unfinished, dropped, worker, hand,
                 stops, report, raced>>

MainFlushes == SinkStep("main") /\ UNCHANGED routerVars

-----------------------------------------------------------------------------
\* The worker thread

TakeBatch ==
  /\ worker = "get" /\ queue # <<>> /\ Head(queue) # Sentinel
  /\ queue' = Tail(queue)
  /\ StartWrite("worker", Head(queue))
  /\ worker' = "writing"
  /\ raced' = (raced \/ InCall("main"))
  /\ UNCHANGED <<batch, submitted, unfinished, dropped, main, hand, stops, report>>

WorkerWrites == SinkStep("worker") /\ UNCHANGED routerVars

\* Mutant of TaskDone: a write that failed ends the thread.
TaskDoneOrExit ==
  /\ worker = "writing" /\ ~InCall("worker")
  /\ unfinished' = unfinished - 1
  /\ worker' = IF connected THEN "get" ELSE "exited"
  /\ UNCHANGED <<sinkVars, batch, submitted, queue, dropped, main, hand, stops, report,
                 raced>>

\* The write is over, with or without success.
TaskDone ==
  /\ worker = "writing" /\ ~InCall("worker")
  /\ unfinished' = unfinished - 1
  /\ worker' = "get"
  /\ UNCHANGED <<sinkVars, batch, submitted, queue, dropped, main, hand, stops, report, raced>>

TakeSentinel ==
  /\ worker = "get" /\ queue # <<>> /\ Head(queue) = Sentinel
  /\ queue' = Tail(queue)
  /\ unfinished' = unfinished - 1
  /\ worker' = "exited"
  /\ UNCHANGED <<sinkVars, batch, submitted, dropped, main, hand, stops, report, raced>>

\* stats works on the counters of the sink itself: the larger of the two counts
\* is read, and then stored, without a lock around both.
StatsRead ==
  /\ ~report.held /\ main # "new"
  /\ report' = [seen |-> sinkDropped, held |-> TRUE,
                max |-> IF dropped > sinkDropped THEN dropped ELSE sinkDropped]
  /\ UNCHANGED <<sinkVars, batch, submitted, queue, unfinished, dropped, worker,
                 main, hand, stops, raced>>

StatsStore ==
  /\ report.held
  /\ sinkDropped' = report.max
  /\ raced' = (raced \/ sinkDropped # report.seen)
  /\ report' = NoReport
  /\ UNCHANGED <<client, connected, offline, received, call, batch, submitted,
                 queue, unfinished, dropped, worker, main, hand, stops>>

-----------------------------------------------------------------------------

Main ==
  \/ Start \/ Publish \/ Dispatch \/ Evict \/ Retry
  \/ Stop \/ Drained \/ BeginFlush \/ PutSentinel \/ Joined \/ Close
  \/ MainFlushes

Worker == TakeBatch \/ WorkerWrites \/ TaskDone \/ TakeSentinel

Next == Main \/ Worker \/ StatsRead \/ StatsStore

\* Only the simulation is sure to go on; a sink may be slow or dead.
Spec == Init /\ [][Next]_vars /\ WF_vars(Main)

-----------------------------------------------------------------------------
\* Properties

BatchLimit == BatchSize - 1 + Chunk

Elements(s) == {s[i] : i \in 1..Len(s)}

\* The messages that are on their way: in the batch, the queue, or a call.
OnTheWay ==
  Elements(batch) \cup Elements(hand) \cup (UNION {Elements(b) : b \in Elements(queue)})
    \cup (UNION {Elements(call[t].pending) : t \in {u \in Threads : InCall(u)}})

Lost == (1..submitted) \ (Elements(received) \cup Elements(offline) \cup OnTheWay)

\* The broker gets every message once and in the order in which it was published,
\* through every loss of connection in the middle of a batch, every reconnect
\* and every drop (mqtt_sink.py:144-149), unless the end of the run overtook a
\* write.
InOrder ==
  ~raced => \A i, j \in 1..Len(received) : i < j => received[i] < received[j]

\* Losses are counted, "never silently" (router.py:6): what is lost is at most
\* what the two counters admit, a dropped batch counting as its messages, and
\* neither counter claims a loss that was none.
LossesCounted ==
  ~raced =>
    /\ Cardinality(Lost) <= BatchLimit * dropped + sinkDropped
    /\ dropped <= Cardinality(Lost) /\ sinkDropped <= Cardinality(Lost)

\* Whatever was dropped, retried or late: when stop returns and the worker has
\* ended, every message was received, is in the offline buffer, or is a counted
\* loss; none is left in the router (router.py:168-173).
OrderlyStop ==
  main = "stopped" /\ worker = "exited" => OnTheWay = {}

\* A slow or dead sink cannot stall the simulation (router.py:3-5): even if the
\* worker takes no step, all messages get published, or the run is stopped.
SimulationNeverStalls == <>(submitted = MaxMessages \/ stopping)

\* If the worker goes on, however often the broker fails, stop ends.
ShutdownEnds == WF_vars(Worker) => [](stopping => <>(main = "stopped"))

\* Claimed by "Wait for queued work, then flush the sink" (router.py:75): drain
\* waits for its time limit only if there is work.
DrainWaitsForWork ==
  main = "drain" /\ queue = <<>> /\ worker = "get" => unfinished = 0

=============================================================================
