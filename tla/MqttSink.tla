------------------------------ MODULE MqttSink ------------------------------
(***************************************************************************)
(* The MQTT sink (streaming/mqtt_sink.py).  Two threads call it: the       *)
(* worker of the router calls write, and the thread that stops the run     *)
(* calls flush and close.  It takes no lock, so a call is several steps;   *)
(* a step is what runs between two points at which the other thread can    *)
(* change what the call has looked at.  A message is its number in the     *)
(* order in which the simulation published it.                             *)
(***************************************************************************)
EXTENDS Naturals, Sequences, FiniteSets

CONSTANT OfflineBuffer   \* options.offline_buffer, at least one (deque maxlen)

ASSUME OfflineBufferAssumption == OfflineBuffer \in Nat \ {0}

Threads == {"worker", "main"}

VARIABLES
  client,       \* whether _client is there
  connected,    \* _stats.connected
  offline,      \* _offline
  sinkDropped,  \* _stats.dropped
  received,     \* what the broker has been handed, in order
  call          \* the call each thread is in: its operation, the step it is
                \* at, its list of pending messages, and how many it has sent

sinkVars == <<client, connected, offline, sinkDropped, received, call>>

NoCall == [op |-> "none", at |-> "idle", pending |-> <<>>, sent |-> 0]

InCall(t) == call[t].at # "idle"

Return(t) == call' = [call EXCEPT ![t] = NoCall]

SinkInit ==
  /\ client = FALSE /\ connected = FALSE
  /\ offline = <<>> /\ sinkDropped = 0 /\ received = <<>>
  /\ call = [t \in Threads |-> NoCall]

-----------------------------------------------------------------------------

\* The factory may fail (no client), connect may fail, or both succeed.
Open ==
  \E c, ok \in BOOLEAN :
    /\ ok => c
    /\ client' = c /\ connected' = ok

\* The connection after _reconnect: open when there is no client, else a
\* reconnect that keeps it.
Reconnect ==
  IF client THEN /\ connected' \in BOOLEAN
                 /\ UNCHANGED client
            ELSE Open

Newest(s, n) == IF Len(s) <= n THEN s ELSE SubSeq(s, Len(s) - n + 1, Len(s))

\* Mutant of Overflow: one loss per call, however many messages it pushes out.
OverflowOnce(s, n) == IF Len(s) <= n THEN 0 ELSE 1

Overflow(s, n) == IF Len(s) <= n THEN 0 ELSE Len(s) - n

\* _buffer: a full deque lets its oldest message go, and it is counted.
Buffer(messages) ==
  /\ offline' = Newest(offline \o messages, OfflineBuffer)
  /\ sinkDropped' = sinkDropped + Overflow(offline \o messages, OfflineBuffer)

\* Mutant of PutBack: also what was sent already.
PutBackAll(c, n) == c.pending

\* What is put back when message n of pending cannot be sent: write puts back
\* the rest, from the first message equal to it, and flush that one message.
PutBack(c, n) ==
  IF c.op = "write"
    THEN LET first == CHOOSE i \in 1..n :
                        /\ c.pending[i] = c.pending[n]
                        /\ \A j \in 1..(i - 1) : c.pending[j] # c.pending[n]
         IN  SubSeq(c.pending, first, Len(c.pending))
    ELSE <<c.pending[n]>>

Begin(t, op, messages) ==
  call' = [call EXCEPT ![t] = [op |-> op, at |-> "copy", pending |-> messages,
                               sent |-> 0]]

\* write up to its first look at the offline buffer.  Without a connection and
\* without getting one, the batch is buffered and the call is over.
StartWrite(t, messages) ==
  /\ UNCHANGED received
  /\ \/ /\ connected
        /\ Begin(t, "write", messages)
        /\ UNCHANGED <<client, connected, offline, sinkDropped>>
     \/ /\ ~connected /\ Reconnect
        /\ IF connected'
             THEN /\ Begin(t, "write", messages)
                  /\ UNCHANGED <<offline, sinkDropped>>
             ELSE /\ Buffer(messages)
                  /\ UNCHANGED call

\* flush does something only with messages to send and a connection.
CanFlush == offline # <<>> /\ connected

StartFlush(t) ==
  /\ Begin(t, "flush", <<>>)
  /\ UNCHANGED <<client, connected, offline, sinkDropped, received>>

\* pending = list(_offline); the batch of a write comes after it.
CopyBuffer(t) ==
  /\ call[t].at = "copy"
  /\ call' = [call EXCEPT ![t].pending = offline \o @, ![t].at = "clear"]
  /\ UNCHANGED <<client, connected, offline, sinkDropped, received>>

ClearBuffer(t) ==
  /\ call[t].at = "clear"
  /\ offline' = <<>>
  /\ IF call[t].pending = <<>> THEN Return(t)
                               ELSE call' = [call EXCEPT ![t].at = "publish"]
  /\ UNCHANGED <<client, connected, sinkDropped, received>>

PublishOk(t) ==
  LET c == call[t] n == c.sent + 1 IN
  /\ c.at = "publish" /\ client
  /\ received' = Append(received, c.pending[n])
  /\ IF n = Len(c.pending) THEN Return(t)
                           ELSE call' = [call EXCEPT ![t].sent = n]
  /\ UNCHANGED <<client, connected, offline, sinkDropped>>

\* The client raises, or close has taken it away meanwhile.
PublishFails(t) ==
  LET c == call[t] n == c.sent + 1 IN
  /\ c.at = "publish"
  /\ connected' = FALSE
  /\ Buffer(PutBack(c, n))
  /\ Return(t)
  /\ UNCHANGED <<client, received>>

SinkStep(t) ==
  \/ CopyBuffer(t)
  \/ ClearBuffer(t)
  \/ PublishOk(t)
  \/ PublishFails(t)

\* The end of close, after its flush: disconnect, and no client.
Disconnect ==
  /\ client' = FALSE /\ connected' = FALSE
  /\ UNCHANGED <<offline, sinkDropped, received, call>>

=============================================================================
