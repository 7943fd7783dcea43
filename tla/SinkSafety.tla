------------------------------ MODULE SinkSafety ------------------------------
(***************************************************************************)
(* Proofs about the streaming of a run, for every size of its buffers:      *)
(*                                                                          *)
(*   StopIsOrderly     nothing is left in the router when it has stopped    *)
(*   DeliveredInOrder  the broker gets the messages once and in order       *)
(*   LossesAreCounted  what is lost is what the counters admit              *)
(*                                                                          *)
(* The messages stand in a line: received, then those the sink holds, then  *)
(* the queue, the batch in hand, and the batch being filled.  Each step     *)
(* moves messages on along the line or drops some, and none overtakes.      *)
(***************************************************************************)
EXTENDS SinkRouter, FiniteSetTheorems, SequenceTheorems, WellFoundedInduction, TLAPS

CallRecords ==
  [op : {"none", "write", "flush"}, at : {"idle", "copy", "clear", "publish"},
   pending : Seq(Nat), sent : Nat]

\* A call has something left to send as long as it is publishing.
Calls ==
  {c \in CallRecords : /\ c.at \in {"copy", "clear"} => c.sent = 0
                       /\ c.at = "publish" => c.sent < Len(c.pending)}

SinkTypes ==
  /\ client \in BOOLEAN /\ connected \in BOOLEAN
  /\ offline \in Seq(Nat) /\ received \in Seq(Nat)
  /\ sinkDropped \in Nat /\ call \in [Threads -> Calls]
  /\ batch \in Seq(Nat) /\ hand \in Seq(Nat) /\ queue \in Seq(Seq(Nat))
  /\ submitted \in Nat /\ dropped \in Nat /\ stops \in Nat
  /\ worker \in {"new", "get", "writing", "exited"} /\ main \in MainAt
  /\ report \in [seen : Nat, max : Nat, held : BOOLEAN] /\ raced \in BOOLEAN

\* Where each thread is says what it holds.
PlacesAreKept ==
  /\ InCall("worker") => worker = "writing"
  /\ InCall("main") => main \in {"sentinel", "closing"}
  /\ main = "new" => worker = "new" /\ offline = <<>>
  /\ main \in {"evict", "retry"} <=> hand # <<>>
  /\ main \notin {"new", "running"} => batch = <<>>

Closing == {"drain", "flush", "sentinel", "join", "close", "closing", "stopped"}

\* Once the sentinel is placed nothing else is, and the worker ends on it.
SentinelsAreLast ==
  /\ \A i, j \in 1..Len(queue) : i < j /\ queue[i] = Sentinel => queue[j] = Sentinel
  /\ (\E i \in 1..Len(queue) : queue[i] = Sentinel) \/ worker = "exited" => main \in Closing
  /\ worker = "exited" => \A i \in 1..Len(queue) : queue[i] = Sentinel

RouterInv == SinkTypes /\ PlacesAreKept /\ SentinelsAreLast

Sorted(s) == \A i, j \in 1..Len(s) : i < j => s[i] < s[j]

Precede(S, T) == \A a \in S, b \in T : a < b

\* The messages of the worker's call that are not sent yet.
Unsent(c) == {c.pending[i] : i \in (c.sent + 1)..Len(c.pending)}

Held == Elements(offline) \cup Unsent(call["worker"])

QueuedIn(q) == UNION {Elements(b) : b \in Elements(q)}

Queued == QueuedIn(queue)

QueueSorted(q) ==
  /\ \A i \in 1..Len(q) : Sorted(q[i])
  /\ \A i, j \in 1..Len(q) : i < j => Precede(Elements(q[i]), Elements(q[j]))

Line == Elements(received) \cup Held \cup Queued \cup Elements(hand) \cup Elements(batch)

\* The line the messages stand in.
LineIsKept ==
  /\ Precede(Elements(received), Held \cup Queued \cup Elements(hand) \cup Elements(batch))
  /\ Precede(Held, Queued \cup Elements(hand) \cup Elements(batch))
  /\ Precede(Queued, Elements(hand) \cup Elements(batch))
  /\ Line \subseteq 1..submitted

\* The order within each part of it.
PartsAreSorted ==
  /\ Sorted(received) /\ Sorted(offline) /\ Sorted(hand) /\ Sorted(batch)
  /\ Sorted(call["worker"].pending)
  /\ QueueSorted(queue)

\* The call of the worker is a write that has the sink to itself; between
\* calls there is no connection while messages wait in the offline buffer.
WriteIsAlone ==
  LET c == call["worker"] IN
  /\ ~InCall("main")
  /\ ~InCall("worker") => c = NoCall /\ (connected => offline = <<>>)
  /\ InCall("worker") => c.op = "write"
  /\ c.at = "copy" => Precede(Elements(offline), Elements(c.pending))
  /\ c.at = "clear" => Elements(offline) \subseteq Elements(c.pending)
  /\ c.at = "publish" => /\ offline = <<>>
                         /\ \A i \in 1..c.sent : c.pending[i] \in Elements(received)

OrderInv == ~raced => LineIsKept /\ PartsAreSorted /\ WriteIsAlone

-----------------------------------------------------------------------------
\* Sequences, and the sets of their elements.

Preceding == OpToRel(<, Nat)

\* Every set of natural numbers has a least one.
LEMMA LeastOf ==
  ASSUME NEW S \in SUBSET Nat, S # {}
  PROVE  \E m \in S : \A n \in S : m <= n
<1>1. IsWellFoundedOn(Preceding, Nat)
  BY NatLessThanWellFounded DEF Preceding
<1>2. PICK m \in S : \A n \in S : ~ (<<n, m>> \in Preceding)
  BY <1>1, WFMin
<1>3. \A n \in S : ~ (n < m) /\ n \in Nat /\ m \in Nat
  BY <1>2 DEF Preceding, OpToRel
<1> QED
  BY <1>3

LEMMA ConcatInLine ==
  ASSUME NEW s \in Seq(Nat), NEW t \in Seq(Nat)
  PROVE  /\ s \o t \in Seq(Nat) /\ Len(s \o t) = Len(s) + Len(t)
         /\ Elements(s \o t) = Elements(s) \cup Elements(t)
         /\ Sorted(s) /\ Sorted(t) /\ Precede(Elements(s), Elements(t)) => Sorted(s \o t)
<1>1. /\ s \o t \in Seq(Nat) /\ Len(s \o t) = Len(s) + Len(t)
      /\ Len(s) \in Nat /\ Len(t) \in Nat
      /\ \A i \in 1..Len(s) : (s \o t)[i] = s[i]
      /\ \A i \in 1..Len(t) : (s \o t)[Len(s) + i] = t[i]
  OBVIOUS
<1>2. \A i \in 1..Len(s \o t) :
        \/ i \in 1..Len(s)
        \/ i - Len(s) \in 1..Len(t) /\ i = Len(s) + (i - Len(s))
  BY <1>1
<1>3. Elements(s \o t) = Elements(s) \cup Elements(t)
  <2>1. ASSUME NEW i \in 1..Len(s \o t) PROVE (s \o t)[i] \in Elements(s) \cup Elements(t)
    BY <1>1, <1>2 DEF Elements
  <2>2. ASSUME NEW i \in 1..Len(s) PROVE s[i] \in Elements(s \o t)
    BY <1>1 DEF Elements
  <2>3. ASSUME NEW i \in 1..Len(t) PROVE t[i] \in Elements(s \o t)
    <3>1. Len(s) + i \in 1..Len(s \o t)
      BY <1>1
    <3> QED
      BY <1>1, <3>1 DEF Elements
  <2> QED
    BY <2>1, <2>2, <2>3 DEF Elements
<1>4. ASSUME Sorted(s), Sorted(t), Precede(Elements(s), Elements(t)),
             NEW i \in 1..Len(s \o t), NEW j \in 1..Len(s \o t), i < j
      PROVE  (s \o t)[i] < (s \o t)[j]
  <2>1. CASE j \in 1..Len(s)
    BY <1>1, <1>4, <2>1 DEF Sorted
  <2>2. CASE i \in 1..Len(s) /\ j \notin 1..Len(s)
    BY <1>1, <1>2, <1>4, <2>2 DEF Precede, Elements
  <2>3. CASE i \notin 1..Len(s)
    <3>1. /\ i - Len(s) \in 1..Len(t) /\ j - Len(s) \in 1..Len(t)
          /\ i - Len(s) < j - Len(s)
          /\ (s \o t)[i] = t[i - Len(s)] /\ (s \o t)[j] = t[j - Len(s)]
      BY <1>1, <1>2, <1>4, <2>3
    <3> QED
      BY <1>4, <3>1 DEF Sorted
  <2> QED
    BY <1>1, <1>4, <2>1, <2>2, <2>3
<1> QED
  BY <1>1, <1>3, <1>4 DEF Sorted

\* What is taken from the front of a queue, and what is put behind it.
LEMMA TailOf ==
  ASSUME NEW S, NEW q \in Seq(S), q # <<>>
  PROVE  /\ Head(q) \in S /\ Tail(q) \in Seq(S) /\ Len(q) \in Nat \ {0}
         /\ Head(q) = q[1] /\ Len(Tail(q)) = Len(q) - 1
         /\ \A i \in 1..Len(Tail(q)) : Tail(q)[i] = q[i + 1]
         /\ Elements(q) = {Head(q)} \cup Elements(Tail(q))
<1>1. /\ Head(q) \in S /\ Tail(q) \in Seq(S) /\ Len(q) \in Nat \ {0}
      /\ Head(q) = q[1] /\ Len(Tail(q)) = Len(q) - 1
      /\ \A i \in 1..Len(Tail(q)) : Tail(q)[i] = q[i + 1]
  OBVIOUS
<1>2. ASSUME NEW i \in 1..Len(q) PROVE q[i] \in {Head(q)} \cup Elements(Tail(q))
  <2>1. CASE i = 1
    BY <1>1, <2>1
  <2>2. CASE i # 1
    <3>1. i - 1 \in 1..Len(Tail(q)) /\ Tail(q)[i - 1] = q[i]
      BY <1>1, <2>2
    <3> QED
      BY <3>1 DEF Elements
  <2> QED
    BY <2>1, <2>2
<1>3. ASSUME NEW i \in 1..Len(Tail(q)) PROVE Tail(q)[i] \in Elements(q)
  <2>1. i + 1 \in 1..Len(q)
    BY <1>1
  <2> QED
    BY <1>1, <2>1 DEF Elements
<1>4. Head(q) \in Elements(q)
  BY <1>1 DEF Elements
<1> QED
  BY <1>1, <1>2, <1>3, <1>4 DEF Elements

LEMMA AppendOf ==
  ASSUME NEW S, NEW q \in Seq(S), NEW b \in S
  PROVE  /\ Append(q, b) \in Seq(S) /\ Len(q) \in Nat /\ Len(Append(q, b)) = Len(q) + 1
         /\ Append(q, b)[Len(q) + 1] = b
         /\ \A i \in 1..Len(q) : Append(q, b)[i] = q[i]
         /\ Elements(Append(q, b)) = Elements(q) \cup {b}
<1>1. /\ Append(q, b) \in Seq(S) /\ Len(q) \in Nat /\ Len(Append(q, b)) = Len(q) + 1
      /\ Append(q, b)[Len(q) + 1] = b
      /\ \A i \in 1..Len(q) : Append(q, b)[i] = q[i]
  OBVIOUS
<1>2. 1..(Len(q) + 1) = 1..Len(q) \cup {Len(q) + 1}
  BY <1>1
<1> QED
  BY <1>1, <1>2 DEF Elements

\* What is left when a sequence is cut from one of its places on.
LEMMA SuffixOf ==
  ASSUME NEW s \in Seq(Nat), NEW m \in Nat, 1 <= m, m <= Len(s) + 1
  PROVE  /\ SubSeq(s, m, Len(s)) \in Seq(Nat)
         /\ Len(SubSeq(s, m, Len(s))) = Len(s) + 1 - m
         /\ \A i \in 1..(Len(s) + 1 - m) : SubSeq(s, m, Len(s))[i] = s[m + i - 1]
         /\ Elements(SubSeq(s, m, Len(s))) = {s[i] : i \in m..Len(s)}
         /\ Sorted(s) => Sorted(SubSeq(s, m, Len(s)))
<1> DEFINE r == SubSeq(s, m, Len(s))
<1>1. /\ r \in Seq(Nat) /\ Len(r) = Len(s) + 1 - m /\ Len(s) \in Nat
      /\ \A i \in 1..(Len(s) + 1 - m) : r[i] = s[m + i - 1]
  OBVIOUS
<1> HIDE DEF r
<1>2. ASSUME NEW i \in m..Len(s) PROVE s[i] \in Elements(r)
  <2>1. i + 1 - m \in 1..Len(r) /\ m + (i + 1 - m) - 1 = i
    BY <1>1
  <2> QED
    BY <1>1, <2>1 DEF Elements
<1>3. Elements(r) = {s[i] : i \in m..Len(s)}
  <2>1. ASSUME NEW i \in 1..Len(r) PROVE r[i] \in {s[k] : k \in m..Len(s)}
    <3>1. m + i - 1 \in m..Len(s) /\ r[i] = s[m + i - 1]
      BY <1>1
    <3> QED
      BY <3>1
  <2> QED
    BY <1>2, <2>1 DEF Elements
<1>4. ASSUME Sorted(s), NEW i \in 1..Len(r), NEW j \in 1..Len(r), i < j PROVE r[i] < r[j]
  <2>1. /\ m + i - 1 \in 1..Len(s) /\ m + j - 1 \in 1..Len(s) /\ m + i - 1 < m + j - 1
    BY <1>1, <1>4
  <2> QED
    BY <1>1, <1>4, <2>1 DEF Sorted
<1> QED
  BY <1>1, <1>3, <1>4 DEF Sorted, r

\* T is S without n of its elements.
Without(S, n, T) ==
  \E D \in SUBSET S : T = S \ D /\ IsFiniteSet(D) /\ Cardinality(D) = n

\* A sequence in order has no element twice.
LEMMA SizeOfFront ==
  ASSUME NEW s \in Seq(Nat), Sorted(s), NEW k \in 0..Len(s)
  PROVE  /\ IsFiniteSet({s[i] : i \in 1..k}) /\ Cardinality({s[i] : i \in 1..k}) = k
         /\ {s[i] : i \in (k + 1)..Len(s)} = Elements(s) \ {s[i] : i \in 1..k}
<1> DEFINE D == {s[i] : i \in 1..k}
           f == [i \in 1..k |-> s[i]]
<1>1. Len(s) \in Nat /\ k \in Nat /\ 1..k \subseteq 1..Len(s) /\ \A i \in 1..Len(s) : s[i] \in Nat
  OBVIOUS
<1>2. \A i, j \in 1..Len(s) : i # j => s[i] # s[j]
  <2> TAKE i, j \in 1..Len(s)
  <2>1. i < j => s[i] < s[j]
    BY DEF Sorted
  <2>2. j < i => s[j] < s[i]
    BY DEF Sorted
  <2> QED
    BY <1>1, <2>1, <2>2
<1>3. f \in Surjection(1..k, D)
  BY DEF Surjection
<1>4. f \in Injection(1..k, D)
  BY <1>1, <1>2 DEF Injection, IsInjective
<1>5. IsFiniteSet(1..k) /\ Cardinality(1..k) = k
  BY <1>1, FS_Interval
<1>6. IsFiniteSet(D) /\ Cardinality(D) = k
  <2> HIDE DEF D, f
  <2> QED
    BY <1>3, <1>4, <1>5, FS_Surjection
<1>7. {s[i] : i \in (k + 1)..Len(s)} = Elements(s) \ D
  <2>1. \A i \in 1..Len(s) : i \in 1..k \/ i \in (k + 1)..Len(s)
    BY <1>1
  <2>2. \A i \in (k + 1)..Len(s) : i \in 1..Len(s) /\ i \notin 1..k
    BY <1>1
  <2> QED
    BY <1>1, <1>2, <2>1, <2>2 DEF Elements
<1> QED
  BY <1>6, <1>7

\* The newest n messages of s, and what it takes to keep no more of them.
LEMMA NewestOf ==
  ASSUME NEW s \in Seq(Nat), NEW n \in Nat
  PROVE  /\ Newest(s, n) \in Seq(Nat) /\ Overflow(s, n) \in Nat
         /\ Sorted(s) => /\ Sorted(Newest(s, n))
                         /\ Without(Elements(s), Overflow(s, n), Elements(Newest(s, n)))
<1>1. Len(s) \in Nat
  OBVIOUS
<1>2. CASE Len(s) <= n
  <2>1. Newest(s, n) = s /\ Overflow(s, n) = 0
    BY <1>2 DEF Newest, Overflow
  <2>2. Without(Elements(s), 0, Elements(s))
    <3>1. {} \in SUBSET Elements(s) /\ Elements(s) = Elements(s) \ {}
      OBVIOUS
    <3> QED
      BY <3>1, FS_EmptySet DEF Without
  <2> QED
    BY <2>1, <2>2
<1>3. CASE ~ (Len(s) <= n)
  <2> DEFINE k == Overflow(s, n)
             m == k + 1
  <2>1. /\ k \in 0..Len(s) /\ k \in Nat /\ Newest(s, n) = SubSeq(s, Len(s) - n + 1, Len(s))
        /\ Len(s) - n + 1 = m
    BY <1>1, <1>3 DEF Newest, Overflow
  <2>2. m \in Nat /\ 1 <= m /\ m <= Len(s) + 1
    BY <1>1, <2>1
  <2> HIDE DEF m
  <2>3. /\ SubSeq(s, m, Len(s)) \in Seq(Nat)
        /\ Elements(SubSeq(s, m, Len(s))) = {s[i] : i \in m..Len(s)}
        /\ Sorted(s) => Sorted(SubSeq(s, m, Len(s)))
    BY <2>2, SuffixOf
  <2>4. ASSUME Sorted(s)
        PROVE  Without(Elements(s), k, Elements(SubSeq(s, m, Len(s))))
    <3> DEFINE D == {s[i] : i \in 1..k}
    <3>1. /\ IsFiniteSet(D) /\ Cardinality(D) = k
          /\ {s[i] : i \in (k + 1)..Len(s)} = Elements(s) \ D
      BY <2>1, <2>4, SizeOfFront
    <3>2. D \in SUBSET Elements(s)
      <4>1. 1..k \subseteq 1..Len(s)
        BY <1>1, <2>1
      <4> QED
        BY <4>1 DEF Elements
    <3> HIDE DEF D
    <3> QED
      BY <2>3, <3>1, <3>2 DEF Without, m
  <2> QED
    BY <2>1, <2>3, <2>4
<1> QED
  BY <1>2, <1>3

-----------------------------------------------------------------------------
\* What each step does to the router, whatever the order of the messages.

SinkParts ==
  /\ client \in BOOLEAN /\ connected \in BOOLEAN
  /\ offline \in Seq(Nat) /\ received \in Seq(Nat)
  /\ sinkDropped \in Nat /\ call \in [Threads -> Calls]

\* _buffer keeps its deque and its counter what they are.
LEMMA BufferTypes ==
  ASSUME offline \in Seq(Nat), sinkDropped \in Nat, NEW s \in Seq(Nat), Buffer(s)
  PROVE  offline' \in Seq(Nat) /\ sinkDropped' \in Nat
<1>1. offline \o s \in Seq(Nat) /\ OfflineBuffer \in Nat
  BY OfflineBufferAssumption
<1>2. /\ Newest(offline \o s, OfflineBuffer) \in Seq(Nat)
      /\ Overflow(offline \o s, OfflineBuffer) \in Nat
  BY <1>1, NewestOf
<1> QED
  BY <1>2 DEF Buffer

\* A call begins.
LEMMA BeginTypes ==
  ASSUME call \in [Threads -> Calls], NEW t \in Threads, NEW op \in {"write", "flush"},
         NEW s \in Seq(Nat), Begin(t, op, s)
  PROVE  /\ call' \in [Threads -> Calls]
         /\ call'[t] = [op |-> op, at |-> "copy", pending |-> s, sent |-> 0]
         /\ \A u \in Threads \ {t} : call'[u] = call[u]
<1>1. [op |-> op, at |-> "copy", pending |-> s, sent |-> 0] \in Calls
  BY DEF Calls, CallRecords
<1> QED
  BY <1>1 DEF Begin

\* A call ends.
LEMMA ReturnTypes ==
  ASSUME call \in [Threads -> Calls], NEW t \in Threads, Return(t)
  PROVE  /\ call' \in [Threads -> Calls] /\ call'[t] = NoCall
         /\ \A u \in Threads \ {t} : call'[u] = call[u]
<1>1. NoCall \in Calls
  <2>1. <<>> \in Seq(Nat)
    OBVIOUS
  <2> QED
    BY <2>1 DEF NoCall, Calls, CallRecords
<1> QED
  BY <1>1 DEF Return

\* What is put back is a part of what was pending.
LEMMA PutBackOf ==
  ASSUME NEW c \in Calls, NEW n \in 1..Len(c.pending)
  PROVE  /\ PutBack(c, n) \in Seq(Nat)
         /\ c.op = "write" /\ Sorted(c.pending) =>
              PutBack(c, n) = SubSeq(c.pending, n, Len(c.pending))
<1> DEFINE First(i) == /\ c.pending[i] = c.pending[n]
                       /\ \A j \in 1..(i - 1) : c.pending[j] # c.pending[n]
           first == CHOOSE i \in 1..n : First(i)
<1>1. c.pending \in Seq(Nat) /\ Len(c.pending) \in Nat
  BY DEF Calls, CallRecords
<1>2. \E i \in 1..n : First(i)
  <2> DEFINE Same == {i \in Nat : i \in 1..n /\ c.pending[i] = c.pending[n]}
  <2>1. Same # {} /\ Same \in SUBSET Nat
    BY <1>1
  <2> HIDE DEF Same
  <2>2. PICK i \in Same : \A j \in Same : i <= j
    BY <2>1, LeastOf
  <2>3. First(i) /\ i \in 1..n
    BY <1>1, <2>2 DEF Same
  <2> QED
    BY <2>3
<1>3. first \in 1..n /\ First(first)
  BY <1>2
<1> HIDE DEF first
<1>4. Sorted(c.pending) => first = n
  BY <1>1, <1>3 DEF Sorted
<1>5. PutBack(c, n) = IF c.op = "write" THEN SubSeq(c.pending, first, Len(c.pending))
                                        ELSE <<c.pending[n]>>
  BY DEF PutBack, first
<1>6. SubSeq(c.pending, first, Len(c.pending)) \in Seq(Nat) /\ <<c.pending[n]>> \in Seq(Nat)
  BY <1>1, <1>3
<1> QED
  BY <1>4, <1>5, <1>6

\* A step of a call: only the call of its thread changes.
LEMMA CallSteps ==
  ASSUME SinkParts, NEW t \in Threads, SinkStep(t)
  PROVE  /\ SinkParts' /\ InCall(t)
         /\ \A u \in Threads \ {t} : call'[u] = call[u]
<1> DEFINE c == call[t]
           n == c.sent + 1
<1>1. /\ c \in Calls /\ c.pending \in Seq(Nat) /\ c.sent \in Nat /\ offline \in Seq(Nat)
      /\ call \in [Threads -> Calls] /\ sinkDropped \in Nat /\ received \in Seq(Nat)
      /\ client \in BOOLEAN /\ connected \in BOOLEAN
  BY DEF SinkParts, Calls, CallRecords
<1>2. CASE CopyBuffer(t)
  <2>1. offline \o c.pending \in Seq(Nat)
    BY <1>1
  <2>2. call' = [call EXCEPT ![t] = [c EXCEPT !.pending = offline \o c.pending, !.at = "clear"]]
    BY <1>1, <1>2 DEF CopyBuffer
  <2>3. [c EXCEPT !.pending = offline \o c.pending, !.at = "clear"] \in Calls
    BY <1>1, <1>2, <2>1 DEF Calls, CallRecords, CopyBuffer
  <2>4. c.at = "copy" /\ UNCHANGED <<client, connected, offline, sinkDropped, received>>
    BY <1>2 DEF CopyBuffer
  <2> HIDE DEF c
  <2>5. call' \in [Threads -> Calls] /\ \A u \in Threads \ {t} : call'[u] = call[u]
    BY <1>1, <2>2, <2>3
  <2> QED
    BY <1>1, <2>4, <2>5 DEF SinkParts, InCall, c
<1>3. CASE ClearBuffer(t)
  <2>1. /\ c.at = "clear" /\ offline' = <<>>
        /\ UNCHANGED <<client, connected, sinkDropped, received>>
        /\ \/ Return(t)
           \/ c.pending # <<>> /\ call' = [call EXCEPT ![t] = [c EXCEPT !.at = "publish"]]
    BY <1>1, <1>3 DEF ClearBuffer
  <2>2. c.pending # <<>> => [c EXCEPT !.at = "publish"] \in Calls
    BY <1>1, <2>1 DEF Calls, CallRecords
  <2>3. CASE Return(t)
    BY <1>1, <2>1, <2>3, ReturnTypes DEF SinkParts, InCall
  <2>4. CASE c.pending # <<>> /\ call' = [call EXCEPT ![t] = [c EXCEPT !.at = "publish"]]
    BY <1>1, <2>1, <2>2, <2>4 DEF SinkParts, InCall
  <2> QED
    BY <2>1, <2>3, <2>4
<1>4. CASE PublishOk(t)
  <2> DEFINE later == [c EXCEPT !.sent = n]
  <2>1. /\ c.at = "publish" /\ received' = Append(received, c.pending[n])
        /\ UNCHANGED <<client, connected, offline, sinkDropped>>
        /\ \/ Return(t)
           \/ n # Len(c.pending) /\ call' = [call EXCEPT ![t] = later]
    BY <1>1, <1>4 DEF PublishOk
  <2>2. n \in 1..Len(c.pending) /\ c \in CallRecords
    BY <1>1, <2>1 DEF Calls, CallRecords
  <2>3. received' \in Seq(Nat)
    <3>1. c.pending[n] \in Nat
      BY <1>1, <2>2
    <3> QED
      BY <1>1, <2>1, <3>1
  <2>4. n # Len(c.pending) => later \in Calls
    <3>1. /\ later \in CallRecords /\ later.at = "publish" /\ later.sent = n
          /\ later.pending = c.pending
      <4>1. c.at = "publish" /\ n \in Nat
        BY <1>1, <2>1
      <4> HIDE DEF c, n
      <4> QED
        BY <2>2, <4>1 DEF CallRecords
    <3>2. n # Len(c.pending) => n < Len(c.pending)
      BY <1>1, <2>2
    <3> QED
      BY <3>1, <3>2 DEF Calls
  <2>5. CASE Return(t)
    BY <1>1, <2>1, <2>3, <2>5, ReturnTypes DEF SinkParts, InCall
  <2>6. CASE n # Len(c.pending) /\ call' = [call EXCEPT ![t] = later]
    BY <1>1, <2>1, <2>3, <2>4, <2>6 DEF SinkParts, InCall
  <2> QED
    BY <2>1, <2>5, <2>6
<1>5. CASE PublishFails(t)
  <2>1. /\ c.at = "publish" /\ connected' = FALSE /\ Buffer(PutBack(c, n)) /\ Return(t)
        /\ UNCHANGED <<client, received>>
    BY <1>5 DEF PublishFails
  <2>2. n \in 1..Len(c.pending)
    BY <1>1, <2>1 DEF Calls, CallRecords
  <2>3. PutBack(c, n) \in Seq(Nat)
    BY <1>1, <2>2, PutBackOf
  <2>4. offline' \in Seq(Nat) /\ sinkDropped' \in Nat
    BY <1>1, <2>1, <2>3, BufferTypes
  <2> QED
    BY <1>1, <2>1, <2>4, ReturnTypes DEF SinkParts, InCall
<1> QED
  BY <1>2, <1>3, <1>4, <1>5 DEF SinkStep

\* A write starts, or its batch is buffered at once.
LEMMA StartTypes ==
  ASSUME SinkParts, NEW s \in Seq(Nat), StartWrite("worker", s)
  PROVE  SinkParts' /\ call'["main"] = call["main"]
<1>1. "worker" \in Threads /\ "main" \in Threads \ {"worker"}
  BY DEF Threads
<1>2. /\ call \in [Threads -> Calls] /\ offline \in Seq(Nat) /\ sinkDropped \in Nat
      /\ received \in Seq(Nat) /\ client \in BOOLEAN /\ connected \in BOOLEAN
  BY DEF SinkParts
<1>3. UNCHANGED received /\ client' \in BOOLEAN /\ connected' \in BOOLEAN
  BY <1>2 DEF StartWrite, Reconnect, Open
<1>4. \/ Begin("worker", "write", s) /\ UNCHANGED <<offline, sinkDropped>>
      \/ Buffer(s) /\ UNCHANGED call
  BY DEF StartWrite
<1>5. CASE Begin("worker", "write", s) /\ UNCHANGED <<offline, sinkDropped>>
  <2>1. call' \in [Threads -> Calls] /\ \A u \in Threads \ {"worker"} : call'[u] = call[u]
    BY <1>1, <1>2, <1>5, BeginTypes
  <2> QED
    BY <1>1, <1>2, <1>3, <1>5, <2>1 DEF SinkParts
<1>6. CASE Buffer(s) /\ UNCHANGED call
  <2>1. offline' \in Seq(Nat) /\ sinkDropped' \in Nat
    BY <1>2, <1>6, BufferTypes
  <2> QED
    BY <1>2, <1>3, <1>6, <2>1 DEF SinkParts
<1> QED
  BY <1>4, <1>5, <1>6

\* A flush starts, or there is nothing to flush.
LEMMA FlushTypes ==
  ASSUME SinkParts, NEW t \in Threads, StartFlush(t)
  PROVE  /\ SinkParts' /\ UNCHANGED <<client, connected, offline, sinkDropped, received>>
         /\ \A u \in Threads \ {t} : call'[u] = call[u]
<1>1. <<>> \in Seq(Nat) /\ call \in [Threads -> Calls]
  BY DEF SinkParts
<1>2. call' \in [Threads -> Calls] /\ \A u \in Threads \ {t} : call'[u] = call[u]
  BY <1>1, BeginTypes DEF StartFlush
<1> QED
  BY <1>2 DEF StartFlush, SinkParts

\* A batch is placed before any sentinel is.
LEMMA SubmitKeeps ==
  ASSUME RouterInv, NEW b \in Seq(Nat), b # <<>>, Submit(b), main \notin Closing,
         batch' = <<>>, main # "new", UNCHANGED <<sinkVars, worker>>, hand = <<>>
  PROVE  /\ queue' \in Seq(Seq(Nat)) /\ hand' \in Seq(Nat) /\ main' \in MainAt
         /\ PlacesAreKept' /\ SentinelsAreLast'
<1>1. /\ queue \in Seq(Seq(Nat)) /\ worker # "exited"
      /\ \A i \in 1..Len(queue) : queue[i] # Sentinel
  BY DEF RouterInv, SinkTypes, SentinelsAreLast
<1>2. UNCHANGED <<offline, call, worker>>
  BY DEF sinkVars
<1>3. /\ InCall("worker") => worker = "writing"
      /\ ~InCall("main")
  BY DEF RouterInv, PlacesAreKept, Closing
<1>4. CASE Len(queue) < QueueSize
  <2>1. queue' = Append(queue, b) /\ main' \in {"drain", "running"} /\ hand' = <<>>
    BY <1>4 DEF Submit, Put, Resume
  <2>2. /\ queue' \in Seq(Seq(Nat)) /\ \A i \in 1..Len(queue') : queue'[i] # Sentinel
    <3>1. /\ Append(queue, b) \in Seq(Seq(Nat)) /\ Len(Append(queue, b)) = Len(queue) + 1
          /\ Append(queue, b)[Len(queue) + 1] = b /\ Len(queue) \in Nat
          /\ \A i \in 1..Len(queue) : Append(queue, b)[i] = queue[i]
      BY <1>1, AppendOf
    <3> QED
      BY <1>1, <2>1, <3>1 DEF Sentinel
  <2>3. PlacesAreKept'
    BY <1>2, <1>3, <2>1 DEF PlacesAreKept, InCall
  <2>4. SentinelsAreLast'
    BY <1>1, <1>2, <2>2 DEF SentinelsAreLast
  <2> QED
    BY <2>1, <2>2, <2>3, <2>4 DEF MainAt
<1>5. CASE ~ (Len(queue) < QueueSize)
  <2>1. main' = "evict" /\ hand' = b /\ UNCHANGED queue
    BY <1>5 DEF Submit
  <2>2. PlacesAreKept'
    BY <1>2, <1>3, <2>1 DEF PlacesAreKept, InCall
  <2>3. SentinelsAreLast'
    BY <1>1, <1>2, <2>1 DEF SentinelsAreLast
  <2> QED
    BY <1>1, <2>1, <2>2, <2>3 DEF MainAt
<1> QED
  BY <1>4, <1>5

\* The front of the queue is taken.
LEMMA TailKeepsSentinels ==
  ASSUME RouterInv, queue # <<>>, queue' = Tail(queue), main \in Closing => main' \in Closing,
         \/ worker' # "exited"
         \/ UNCHANGED worker
         \/ Head(queue) = Sentinel
  PROVE  queue' \in Seq(Seq(Nat)) /\ SentinelsAreLast'
<1>1. /\ queue \in Seq(Seq(Nat)) /\ SentinelsAreLast
  BY DEF RouterInv, SinkTypes
<1>2. /\ Tail(queue) \in Seq(Seq(Nat)) /\ Len(queue) \in Nat \ {0}
      /\ Head(queue) = queue[1] /\ Len(queue') = Len(queue) - 1
      /\ \A i \in 1..Len(queue') : queue'[i] = queue[i + 1] /\ i + 1 \in 1..Len(queue)
  BY <1>1, TailOf
<1>3. ASSUME NEW i \in 1..Len(queue'), NEW j \in 1..Len(queue'), i < j,
             queue'[i] = Sentinel
      PROVE  queue'[j] = Sentinel
  <2>1. i + 1 < j + 1 /\ queue[i + 1] = Sentinel
    BY <1>2, <1>3
  <2> QED
    BY <1>1, <1>2, <2>1 DEF SentinelsAreLast
<1>4. ASSUME Head(queue) = Sentinel PROVE \A i \in 1..Len(queue') : queue'[i] = Sentinel
  <2> TAKE i \in 1..Len(queue')
  <2>1. 1 \in 1..Len(queue) /\ i + 1 \in 1..Len(queue) /\ 1 < i + 1
    BY <1>2
  <2> QED
    BY <1>1, <1>2, <1>4, <2>1 DEF SentinelsAreLast
<1>5. worker = "exited" => \A i \in 1..Len(queue') : queue'[i] = Sentinel
  BY <1>1, <1>2 DEF SentinelsAreLast
<1>6. worker' = "exited" => \A i \in 1..Len(queue') : queue'[i] = Sentinel
  BY <1>4, <1>5
<1>7. (\E i \in 1..Len(queue') : queue'[i] = Sentinel) \/ worker' = "exited" => main' \in Closing
  <2>1. (\E i \in 1..Len(queue') : queue'[i] = Sentinel) => main \in Closing
    BY <1>1, <1>2 DEF SentinelsAreLast
  <2>2. worker' = "exited" => main \in Closing
    <3>1. Head(queue) = Sentinel => main \in Closing
      BY <1>1, <1>2 DEF SentinelsAreLast
    <3> QED
      BY <1>1, <3>1 DEF SentinelsAreLast
  <2> QED
    BY <2>1, <2>2
<1> QED
  BY <1>2, <1>3, <1>6, <1>7 DEF SentinelsAreLast

LEMMA RouterInit == Init => RouterInv
<1> SUFFICES ASSUME Init PROVE RouterInv
  OBVIOUS
<1>1. <<>> \in Seq(Nat) /\ <<>> \in Seq(Seq(Nat)) /\ Len(<<>>) = 0
  OBVIOUS
<1>2. NoCall \in Calls /\ call = [t \in Threads |-> NoCall]
  BY <1>1 DEF NoCall, Calls, CallRecords, Init, SinkInit
<1>3. SinkTypes
  BY <1>1, <1>2 DEF SinkTypes, Init, SinkInit, NoReport, MainAt
<1>4. \A t \in Threads : ~InCall(t)
  BY <1>2 DEF InCall, NoCall
<1>5. PlacesAreKept
  BY <1>4 DEF PlacesAreKept, Init, SinkInit, Threads
<1>6. SentinelsAreLast
  BY <1>1 DEF SentinelsAreLast, Init
<1> QED
  BY <1>3, <1>5, <1>6 DEF RouterInv

LEMMA RouterStep == RouterInv /\ [Next]_vars => RouterInv'
<1> SUFFICES ASSUME RouterInv, [Next]_vars PROVE RouterInv'
  OBVIOUS
<1>1. /\ SinkTypes /\ PlacesAreKept /\ SentinelsAreLast /\ SinkParts
      /\ "worker" \in Threads /\ "main" \in Threads
      /\ \A u \in Threads : u = "worker" \/ u = "main"
  BY DEF RouterInv, SinkTypes, SinkParts, Threads
<1>2. /\ batch \in Seq(Nat) /\ hand \in Seq(Nat) /\ queue \in Seq(Seq(Nat))
      /\ submitted \in Nat /\ dropped \in Nat /\ stops \in Nat
      /\ worker \in {"new", "get", "writing", "exited"} /\ main \in MainAt
      /\ report \in [seen : Nat, max : Nat, held : BOOLEAN] /\ raced \in BOOLEAN
  BY <1>1 DEF SinkTypes
<1>3. CASE Start
  <2>1. /\ main = "new" /\ client' \in BOOLEAN /\ connected' \in BOOLEAN
        /\ worker' = "get" /\ main' = "running"
        /\ UNCHANGED <<offline, sinkDropped, received, call, batch, submitted, queue,
                       unfinished, dropped, hand, stops, report, raced>>
    BY <1>3 DEF Start, Open
  <2>2. SinkTypes'
    BY <1>1, <2>1 DEF SinkTypes, MainAt
  <2>3. PlacesAreKept' /\ SentinelsAreLast'
    BY <1>1, <2>1 DEF PlacesAreKept, SentinelsAreLast, InCall, Closing
  <2> QED
    BY <2>2, <2>3 DEF RouterInv
<1>4. CASE Publish
  <2>1. PICK n \in 1..Chunk :
          LET full == batch \o [i \in 1..n |-> submitted + i] IN
            /\ submitted' = submitted + n /\ UNCHANGED stops
            /\ \/ batch' = <<>> /\ Submit(full)
               \/ batch' = full /\ UNCHANGED <<queue, unfinished, main, hand>>
    BY <1>4 DEF Publish
  <2> DEFINE full == batch \o [i \in 1..n |-> submitted + i]
  <2>2. /\ main = "running" /\ hand = <<>>
        /\ UNCHANGED <<sinkVars, dropped, worker, report, raced>>
    BY <1>1, <1>4 DEF Publish, PlacesAreKept
  <2>3. /\ n \in Nat \ {0} /\ full \in Seq(Nat) /\ full # <<>>
    <3>1. n \in Nat \ {0}
      BY RouterAssumption
    <3>2. [i \in 1..n |-> submitted + i] \in Seq(Nat) /\ Len([i \in 1..n |-> submitted + i]) = n
      BY <1>2, <3>1, LenProperties, SeqDef
    <3>3. full \in Seq(Nat) /\ Len(full) = Len(batch) + n /\ Len(batch) \in Nat
      BY <1>2, <3>2, ConcatInLine
    <3> QED
      BY <3>1, <3>3
  <2> HIDE DEF full
  <2>4. CASE batch' = <<>> /\ Submit(full)
    <3>1. /\ queue' \in Seq(Seq(Nat)) /\ hand' \in Seq(Nat) /\ main' \in MainAt
          /\ PlacesAreKept' /\ SentinelsAreLast'
      BY <2>2, <2>3, <2>4, SubmitKeeps DEF Closing
    <3>2. SinkTypes'
      BY <1>1, <2>1, <2>2, <2>3, <2>4, <3>1 DEF SinkTypes, sinkVars
    <3> QED
      BY <3>1, <3>2 DEF RouterInv
  <2>5. CASE batch' = full /\ UNCHANGED <<queue, unfinished, main, hand>>
    <3>1. SinkTypes'
      BY <1>1, <2>1, <2>2, <2>3, <2>5 DEF SinkTypes, sinkVars
    <3>2. PlacesAreKept' /\ SentinelsAreLast'
      BY <1>1, <2>2, <2>5 DEF PlacesAreKept, SentinelsAreLast, InCall, sinkVars
    <3> QED
      BY <3>1, <3>2 DEF RouterInv
  <2> QED
    BY <2>1, <2>4, <2>5 DEF full
<1>5. CASE Dispatch
  <2>1. /\ main = "running" /\ hand = <<>> /\ batch # <<>> /\ batch' = <<>> /\ Submit(batch)
        /\ UNCHANGED <<sinkVars, submitted, dropped, worker, report, raced, stops>>
    BY <1>1, <1>5 DEF Dispatch, PlacesAreKept
  <2>2. /\ queue' \in Seq(Seq(Nat)) /\ hand' \in Seq(Nat) /\ main' \in MainAt
        /\ PlacesAreKept' /\ SentinelsAreLast'
    BY <1>2, <2>1, SubmitKeeps DEF Closing
  <2>3. SinkTypes'
    BY <1>1, <2>1, <2>2 DEF SinkTypes, sinkVars
  <2> QED
    BY <2>2, <2>3 DEF RouterInv
<1>6. CASE Evict
  <2>1. /\ main = "evict" /\ dropped' = dropped + 1
        /\ \/ queue = <<>> /\ main' \in {"drain", "running"} /\ hand' = <<>> /\ UNCHANGED queue
           \/ queue # <<>> /\ queue' = Tail(queue) /\ main' = "retry" /\ UNCHANGED hand
        /\ UNCHANGED <<sinkVars, batch, submitted, stops, worker, report, raced>>
    BY <1>6 DEF Evict, Resume
  <2>2. queue' \in Seq(Seq(Nat)) /\ SentinelsAreLast'
    <3>1. CASE queue # <<>> /\ queue' = Tail(queue)
      BY <2>1, <3>1, TailKeepsSentinels DEF Closing
    <3>2. CASE UNCHANGED queue
      BY <1>1, <1>2, <2>1, <3>2 DEF SentinelsAreLast, Closing
    <3> QED
      BY <2>1, <3>1, <3>2
  <2>3. PlacesAreKept'
    BY <1>1, <2>1 DEF PlacesAreKept, InCall, sinkVars
  <2>4. SinkTypes'
    BY <1>1, <2>1, <2>2 DEF SinkTypes, sinkVars, MainAt
  <2> QED
    BY <2>2, <2>3, <2>4 DEF RouterInv
<1>7. CASE Retry
  <2>1. /\ main = "retry" /\ hand' = <<>> /\ main' \in {"drain", "running"}
        /\ \/ queue' = Append(queue, hand) /\ UNCHANGED dropped
           \/ dropped' = dropped + 1 /\ UNCHANGED queue
        /\ UNCHANGED <<sinkVars, batch, submitted, stops, worker, report, raced>>
    BY <1>7 DEF Retry, Resume, Put
  <2>2. /\ worker # "exited" /\ hand # <<>> /\ \A i \in 1..Len(queue) : queue[i] # Sentinel
    BY <1>1, <2>1 DEF SentinelsAreLast, PlacesAreKept, Closing
  <2>3. queue' \in Seq(Seq(Nat)) /\ \A i \in 1..Len(queue') : queue'[i] # Sentinel
    <3>1. /\ Append(queue, hand) \in Seq(Seq(Nat)) /\ Len(queue) \in Nat
          /\ Len(Append(queue, hand)) = Len(queue) + 1
          /\ Append(queue, hand)[Len(queue) + 1] = hand
          /\ \A i \in 1..Len(queue) : Append(queue, hand)[i] = queue[i]
      BY <1>2, AppendOf
    <3>2. CASE queue' = Append(queue, hand)
      <4>1. \A i \in 1..Len(queue') : i \in 1..Len(queue) \/ i = Len(queue) + 1
        BY <3>1, <3>2
      <4> QED
        BY <2>2, <3>1, <3>2, <4>1 DEF Sentinel
    <3>3. CASE UNCHANGED queue
      BY <1>2, <2>2, <3>3
    <3> QED
      BY <2>1, <3>2, <3>3
  <2>4. SentinelsAreLast'
    BY <2>1, <2>2, <2>3 DEF SentinelsAreLast
  <2>5. PlacesAreKept'
    BY <1>1, <2>1 DEF PlacesAreKept, InCall, sinkVars
  <2>6. SinkTypes'
    BY <1>1, <2>1, <2>3 DEF SinkTypes, sinkVars, MainAt
  <2> QED
    BY <2>4, <2>5, <2>6 DEF RouterInv
<1>8. CASE Stop
  <2>1. /\ main \in {"running", "stopped"} /\ stops' = stops + 1
        /\ UNCHANGED <<sinkVars, submitted, dropped, worker, report, raced>>
        /\ hand = <<>>
    BY <1>1, <1>8 DEF Stop, PlacesAreKept
  <2>2. CASE batch = <<>>
    <3>1. main' = "drain" /\ UNCHANGED <<batch, queue, hand>>
      BY <1>8, <2>2 DEF Stop
    <3>2. SinkTypes'
      BY <1>1, <2>1, <3>1 DEF SinkTypes, sinkVars, MainAt
    <3>3. PlacesAreKept' /\ SentinelsAreLast'
      BY <1>1, <2>1, <2>2, <3>1 DEF PlacesAreKept, SentinelsAreLast, InCall, sinkVars, Closing
    <3> QED
      BY <3>2, <3>3 DEF RouterInv
  <2>3. CASE batch # <<>>
    <3>1. batch' = <<>> /\ Submit(batch) /\ main = "running"
      BY <1>1, <1>8, <2>1, <2>3 DEF Stop, PlacesAreKept
    <3>2. /\ queue' \in Seq(Seq(Nat)) /\ hand' \in Seq(Nat) /\ main' \in MainAt
          /\ PlacesAreKept' /\ SentinelsAreLast'
      BY <1>2, <2>1, <2>3, <3>1, SubmitKeeps DEF Closing
    <3>3. SinkTypes'
      BY <1>1, <2>1, <3>1, <3>2 DEF SinkTypes, sinkVars
    <3> QED
      BY <3>2, <3>3 DEF RouterInv
  <2> QED
    BY <2>2, <2>3
<1>9. CASE Drained \/ Joined
  <2>1. /\ main \in {"drain", "join"} /\ main' \in {"flush", "close"}
        /\ UNCHANGED <<sinkVars, batch, submitted, queue, dropped, worker, hand, stops,
                       report, raced>>
    BY <1>9 DEF Drained, Joined
  <2>2. SinkTypes'
    BY <1>1, <2>1 DEF SinkTypes, sinkVars, MainAt
  <2>3. PlacesAreKept' /\ SentinelsAreLast'
    BY <1>1, <2>1 DEF PlacesAreKept, SentinelsAreLast, InCall, sinkVars, Closing
  <2> QED
    BY <2>2, <2>3 DEF RouterInv
<1>10. CASE BeginFlush
  <2>1. /\ \/ main = "flush" /\ main' = "sentinel"
           \/ main = "close" /\ main' = "closing"
        /\ \/ StartFlush("main") /\ raced' \in BOOLEAN
           \/ UNCHANGED <<sinkVars, raced>>
        /\ UNCHANGED <<batch, submitted, queue, dropped, worker, hand, stops, report>>
    BY <1>2, <1>10 DEF BeginFlush, InCall
  <2>2. /\ SinkParts' /\ raced' \in BOOLEAN /\ call'["worker"] = call["worker"]
        /\ UNCHANGED offline
    <3>1. CASE StartFlush("main") /\ raced' \in BOOLEAN
      <4>1. "worker" \in Threads \ {"main"}
        BY DEF Threads
      <4>2. SinkParts' /\ UNCHANGED offline
        BY <1>1, <3>1, FlushTypes
      <4>3. \A u \in Threads \ {"main"} : call'[u] = call[u]
        BY <1>1, <3>1, FlushTypes
      <4> QED
        BY <3>1, <4>1, <4>2, <4>3
    <3>2. CASE UNCHANGED <<sinkVars, raced>>
      BY <1>1, <1>2, <3>2 DEF SinkParts, sinkVars
    <3> QED
      BY <2>1, <3>1, <3>2
  <2>3. SinkTypes'
    BY <1>1, <2>1, <2>2 DEF SinkTypes, SinkParts, MainAt
  <2>4. PlacesAreKept' /\ SentinelsAreLast'
    BY <1>1, <2>1, <2>2 DEF PlacesAreKept, SentinelsAreLast, InCall, Closing
  <2> QED
    BY <2>3, <2>4 DEF RouterInv
<1>11. CASE PutSentinel
  <2>1. /\ main = "sentinel" /\ ~InCall("main") /\ queue' = Append(queue, Sentinel)
        /\ main' = "join"
        /\ UNCHANGED <<sinkVars, batch, submitted, dropped, worker, hand, stops, report, raced>>
    BY <1>11 DEF PutSentinel, Put
  <2>2. /\ Sentinel \in Seq(Nat) /\ queue' \in Seq(Seq(Nat)) /\ Len(queue) \in Nat
        /\ Len(queue') = Len(queue) + 1 /\ queue'[Len(queue) + 1] = Sentinel
        /\ \A i \in 1..Len(queue) : queue'[i] = queue[i]
    <3>1. Sentinel \in Seq(Nat)
      BY DEF Sentinel
    <3> QED
      BY <1>2, <2>1, <3>1, AppendOf
  <2>3. SentinelsAreLast'
    <3>1. ASSUME NEW i \in 1..Len(queue'), NEW j \in 1..Len(queue'), i < j,
                 queue'[i] = Sentinel
          PROVE  queue'[j] = Sentinel
      <4>1. CASE j = Len(queue) + 1
        BY <2>2, <4>1
      <4>2. CASE j # Len(queue) + 1
        <5>1. i \in 1..Len(queue) /\ j \in 1..Len(queue)
          BY <2>2, <3>1, <4>2
        <5>2. queue[i] = Sentinel => queue[j] = Sentinel
          BY <1>1, <3>1, <5>1 DEF SentinelsAreLast
        <5> QED
          BY <2>2, <3>1, <5>1, <5>2
      <4> QED
        BY <4>1, <4>2
    <3>2. worker' = "exited" => \A i \in 1..Len(queue') : queue'[i] = Sentinel
      BY <1>1, <2>1, <2>2 DEF SentinelsAreLast
    <3> QED
      BY <2>1, <3>1, <3>2 DEF SentinelsAreLast, Closing
  <2>4. PlacesAreKept'
    BY <1>1, <2>1 DEF PlacesAreKept, InCall, sinkVars
  <2>5. SinkTypes'
    BY <1>1, <2>1, <2>2 DEF SinkTypes, sinkVars, MainAt
  <2> QED
    BY <2>3, <2>4, <2>5 DEF RouterInv
<1>12. CASE Close
  <2>1. /\ main \in {"close", "closing"} /\ main' = "stopped"
        /\ ~InCall("main")
        /\ client' \in BOOLEAN /\ connected' \in BOOLEAN
        /\ UNCHANGED <<offline, sinkDropped, received, call>>
        /\ UNCHANGED <<batch, submitted, queue, dropped, worker, hand, stops, report, raced>>
    BY <1>1, <1>12 DEF Close, Disconnect, sinkVars, SinkTypes, PlacesAreKept
  <2>2. SinkTypes'
    BY <1>1, <2>1 DEF SinkTypes, MainAt
  <2>3. PlacesAreKept' /\ SentinelsAreLast'
    BY <1>1, <2>1 DEF PlacesAreKept, SentinelsAreLast, InCall, Closing
  <2> QED
    BY <2>2, <2>3 DEF RouterInv
<1>13. CASE MainFlushes \/ WorkerWrites
  <2>1. PICK t \in Threads : SinkStep(t) /\ UNCHANGED routerVars
    BY <1>1, <1>13 DEF MainFlushes, WorkerWrites
  <2>2. /\ SinkParts' /\ InCall(t) /\ \A u \in Threads \ {t} : call'[u] = call[u]
    BY <1>1, <2>1, CallSteps
  <2>3. \A u \in Threads : InCall(u)' => InCall(u)
    BY <2>2 DEF InCall
  <2>4. main # "new"
    BY <1>1, <2>2 DEF PlacesAreKept
  <2>5. SinkTypes'
    BY <1>1, <2>1, <2>2 DEF SinkTypes, SinkParts, routerVars
  <2>6. PlacesAreKept'
    BY <1>1, <2>1, <2>3, <2>4 DEF PlacesAreKept, routerVars
  <2>7. SentinelsAreLast'
    BY <1>1, <2>1 DEF SentinelsAreLast, routerVars
  <2> QED
    BY <2>5, <2>6, <2>7 DEF RouterInv
<1>14. CASE TakeBatch
  <2>1. /\ worker = "get" /\ queue # <<>> /\ queue' = Tail(queue)
        /\ StartWrite("worker", Head(queue)) /\ worker' = "writing" /\ raced' \in BOOLEAN
        /\ UNCHANGED <<batch, submitted, dropped, main, hand, stops, report>>
    BY <1>2, <1>14 DEF TakeBatch, InCall
  <2>2. queue' \in Seq(Seq(Nat)) /\ SentinelsAreLast'
    BY <2>1, TailKeepsSentinels
  <2>3. Head(queue) \in Seq(Nat)
    BY <1>2, <2>1
  <2>4. SinkParts' /\ call'["main"] = call["main"]
    BY <1>1, <2>1, <2>3, StartTypes
  <2>5. SinkTypes'
    BY <1>1, <2>1, <2>2, <2>4 DEF SinkTypes, SinkParts
  <2>6. PlacesAreKept'
    BY <1>1, <2>1, <2>4 DEF PlacesAreKept, InCall
  <2> QED
    BY <2>2, <2>5, <2>6 DEF RouterInv
<1>15. CASE TaskDone
  <2>1. /\ worker = "writing" /\ ~InCall("worker") /\ worker' = "get"
        /\ UNCHANGED <<sinkVars, batch, submitted, queue, dropped, main, hand, stops,
                       report, raced>>
    BY <1>15 DEF TaskDone
  <2>2. SinkTypes'
    BY <1>1, <2>1 DEF SinkTypes, sinkVars
  <2>3. PlacesAreKept' /\ SentinelsAreLast'
    BY <1>1, <2>1 DEF PlacesAreKept, SentinelsAreLast, InCall, sinkVars
  <2> QED
    BY <2>2, <2>3 DEF RouterInv
<1>16. CASE TakeSentinel
  <2>1. /\ worker = "get" /\ queue # <<>> /\ queue' = Tail(queue) /\ Head(queue) = Sentinel
        /\ worker' = "exited"
        /\ UNCHANGED <<sinkVars, batch, submitted, dropped, main, hand, stops, report, raced>>
    BY <1>16 DEF TakeSentinel
  <2>2. queue' \in Seq(Seq(Nat)) /\ SentinelsAreLast'
    BY <2>1, TailKeepsSentinels
  <2>3. SinkTypes'
    BY <1>1, <2>1, <2>2 DEF SinkTypes, sinkVars
  <2>4. PlacesAreKept'
    BY <1>1, <2>1 DEF PlacesAreKept, InCall, sinkVars
  <2> QED
    BY <2>2, <2>3, <2>4 DEF RouterInv
<1>17. CASE StatsRead \/ StatsStore
  <2>1. /\ report' \in [seen : Nat, max : Nat, held : BOOLEAN]
        /\ sinkDropped' \in Nat /\ raced' \in BOOLEAN
        /\ UNCHANGED <<client, connected, offline, received, call, batch, submitted, queue,
                       dropped, worker, main, hand, stops>>
    <3>1. sinkDropped \in Nat /\ dropped \in Nat
      BY <1>1 DEF SinkTypes
    <3>2. CASE StatsRead
      BY <1>2, <3>1, <3>2 DEF StatsRead, sinkVars
    <3>3. CASE StatsStore
      BY <1>2, <3>1, <3>3 DEF StatsStore, NoReport
    <3> QED
      BY <1>17, <3>2, <3>3
  <2>2. SinkTypes'
    BY <1>1, <2>1 DEF SinkTypes
  <2>3. PlacesAreKept' /\ SentinelsAreLast'
    BY <1>1, <2>1 DEF PlacesAreKept, SentinelsAreLast, InCall
  <2> QED
    BY <2>2, <2>3 DEF RouterInv
<1>18. CASE UNCHANGED vars
  <2>1. /\ UNCHANGED sinkVars /\ UNCHANGED routerVars
    BY <1>18 DEF vars
  <2>2. SinkTypes' /\ PlacesAreKept' /\ SentinelsAreLast'
    BY <1>1, <2>1 DEF SinkTypes, PlacesAreKept, SentinelsAreLast, InCall, sinkVars, routerVars
  <2> QED
    BY <2>2 DEF RouterInv
<1> QED
  BY <1>3, <1>4, <1>5, <1>6, <1>7, <1>8, <1>9, <1>10, <1>11, <1>12, <1>13, <1>14, <1>15,
     <1>16, <1>17, <1>18 DEF Next, Main, Worker

LEMMA RouterHolds == Spec => []RouterInv
BY RouterInit, RouterStep, PTL DEF Spec

\* However the batches were dropped, retried or late, and whatever the broker
\* did: when stop has returned and the worker has ended, no message is left in
\* the router or in a call (streaming/router.py:168).
THEOREM StopIsOrderly == Spec => []OrderlyStop
<1>1. RouterInv => OrderlyStop
  <2> SUFFICES ASSUME RouterInv, main = "stopped", worker = "exited" PROVE OnTheWay = {}
    BY DEF OrderlyStop
  <2>1. /\ ~InCall("worker") /\ ~InCall("main") /\ batch = <<>> /\ hand = <<>>
    BY DEF RouterInv, PlacesAreKept
  <2>2. \A i \in 1..Len(queue) : queue[i] = <<>>
    BY DEF RouterInv, SentinelsAreLast, Sentinel
  <2>3. Elements(<<>>) = {}
    BY DEF Elements
  <2>4. \A b \in Elements(queue) : Elements(b) = {}
    BY <2>2, <2>3 DEF Elements
  <2>5. {u \in Threads : InCall(u)} = {}
    BY <2>1 DEF Threads
  <2> QED
    BY <2>1, <2>3, <2>4, <2>5 DEF OnTheWay
<1> QED
  BY <1>1, RouterHolds, PTL

-----------------------------------------------------------------------------
\* The line the messages stand in.

\* What a batch adds to the queue, and what its front takes from it.
LEMMA QueuedOf ==
  ASSUME NEW q \in Seq(Seq(Nat))
  PROVE  /\ \A b \in Seq(Nat) : QueuedIn(Append(q, b)) = QueuedIn(q) \cup Elements(b)
         /\ q # <<>> => QueuedIn(q) = Elements(Head(q)) \cup QueuedIn(Tail(q))
         /\ \A i \in 1..Len(q) : Elements(q[i]) \subseteq QueuedIn(q)
<1>1. ASSUME NEW b \in Seq(Nat)
      PROVE  QueuedIn(Append(q, b)) = QueuedIn(q) \cup Elements(b)
  <2>1. Elements(Append(q, b)) = Elements(q) \cup {b}
    BY AppendOf
  <2> QED
    BY <2>1 DEF QueuedIn
<1>2. ASSUME q # <<>> PROVE QueuedIn(q) = Elements(Head(q)) \cup QueuedIn(Tail(q))
  <2>1. Elements(q) = {Head(q)} \cup Elements(Tail(q))
    BY <1>2, TailOf
  <2> QED
    BY <2>1 DEF QueuedIn
<1>3. \A i \in 1..Len(q) : q[i] \in Elements(q)
  BY DEF Elements
<1>4. \A i \in 1..Len(q) : Elements(q[i]) \subseteq QueuedIn(q)
  BY <1>3 DEF QueuedIn
<1> QED
  BY <1>1, <1>2, <1>4

\* A queue in order stays so when a later batch is placed in it.
LEMMA PlacedInOrder ==
  ASSUME NEW q \in Seq(Seq(Nat)), QueueSorted(q), NEW b \in Seq(Nat), Sorted(b),
         Precede(QueuedIn(q), Elements(b))
  PROVE  QueueSorted(Append(q, b))
<1> DEFINE r == Append(q, b)
<1>1. /\ r \in Seq(Seq(Nat)) /\ Len(q) \in Nat /\ Len(r) = Len(q) + 1
      /\ r[Len(q) + 1] = b /\ \A i \in 1..Len(q) : r[i] = q[i]
  BY AppendOf
<1>2. \A i \in 1..Len(r) : i \in 1..Len(q) \/ i = Len(q) + 1
  BY <1>1
<1> HIDE DEF r
<1>3. \A i \in 1..Len(r) : Sorted(r[i])
  BY <1>1, <1>2 DEF QueueSorted
<1>4. ASSUME NEW i \in 1..Len(r), NEW j \in 1..Len(r), i < j
      PROVE  Precede(Elements(r[i]), Elements(r[j]))
  <2>1. i \in 1..Len(q)
    BY <1>1, <1>2, <1>4
  <2>2. CASE j \in 1..Len(q)
    BY <1>1, <1>4, <2>1, <2>2 DEF QueueSorted
  <2>3. CASE j = Len(q) + 1
    <3>1. Elements(q[i]) \subseteq QueuedIn(q)
      BY <2>1, QueuedOf
    <3> QED
      BY <1>1, <2>1, <2>3, <3>1 DEF Precede
  <2> QED
    BY <1>2, <2>2, <2>3
<1> QED
  BY <1>3, <1>4 DEF QueueSorted, r

\* And when its front is taken, which is before all the rest.
LEMMA TakenInOrder ==
  ASSUME NEW q \in Seq(Seq(Nat)), QueueSorted(q), q # <<>>
  PROVE  /\ QueueSorted(Tail(q)) /\ Sorted(Head(q))
         /\ Precede(Elements(Head(q)), QueuedIn(Tail(q)))
<1> DEFINE r == Tail(q)
<1>1. /\ Len(q) \in Nat \ {0} /\ Head(q) = q[1] /\ Len(r) = Len(q) - 1
      /\ \A i \in 1..Len(r) : r[i] = q[i + 1]
  BY TailOf
<1>2. \A i \in 1..Len(r) : i + 1 \in 1..Len(q) /\ 1 < i + 1
  BY <1>1
<1>3. 1 \in 1..Len(q)
  BY <1>1
<1> HIDE DEF r
<1>4. \A i \in 1..Len(r) : Sorted(r[i])
  BY <1>1, <1>2 DEF QueueSorted
<1>5. ASSUME NEW i \in 1..Len(r), NEW j \in 1..Len(r), i < j
      PROVE  Precede(Elements(r[i]), Elements(r[j]))
  <2>1. i + 1 < j + 1
    BY <1>5
  <2> QED
    BY <1>1, <1>2, <2>1 DEF QueueSorted
<1>6. \A i \in 1..Len(r) : Precede(Elements(Head(q)), Elements(r[i]))
  BY <1>1, <1>2, <1>3 DEF QueueSorted
<1>7. Precede(Elements(Head(q)), QueuedIn(r))
  BY <1>6 DEF Precede, QueuedIn, Elements
<1> QED
  BY <1>1, <1>3, <1>4, <1>5, <1>7 DEF QueueSorted, r

\* What _buffer keeps is in order, and what it lets go is counted.
LEMMA BufferInOrder ==
  ASSUME offline \in Seq(Nat), sinkDropped \in Nat, Sorted(offline), NEW s \in Seq(Nat),
         Sorted(s), Precede(Elements(offline), Elements(s)), Buffer(s)
  PROVE  /\ Sorted(offline') /\ sinkDropped' \in Nat /\ sinkDropped <= sinkDropped'
         /\ Without(Elements(offline) \cup Elements(s), sinkDropped' - sinkDropped,
                    Elements(offline'))
<1>1. /\ offline \o s \in Seq(Nat) /\ Sorted(offline \o s)
      /\ Elements(offline \o s) = Elements(offline) \cup Elements(s)
  BY ConcatInLine
<1> DEFINE n == Overflow(offline \o s, OfflineBuffer)
<1>2. /\ Sorted(Newest(offline \o s, OfflineBuffer)) /\ n \in Nat
      /\ Without(Elements(offline \o s), n, Elements(Newest(offline \o s, OfflineBuffer)))
  BY <1>1, NewestOf, OfflineBufferAssumption
<1>3. /\ offline' = Newest(offline \o s, OfflineBuffer)
      /\ sinkDropped' = sinkDropped + n
  BY DEF Buffer
<1> HIDE DEF n
<1>4. sinkDropped' \in Nat /\ sinkDropped <= sinkDropped' /\ sinkDropped' - sinkDropped = n
  BY <1>2, <1>3
<1> QED
  BY <1>1, <1>2, <1>3, <1>4

\* A batch goes behind everything before it.
LEMMA SubmitInOrder ==
  ASSUME RouterInv, LineIsKept, PartsAreSorted, NEW b \in Seq(Nat), Sorted(b), hand = <<>>,
         Precede(Elements(received) \cup Held \cup Queued, Elements(b)),
         submitted' \in Nat, submitted <= submitted', Elements(b) \subseteq 1..submitted',
         Submit(b), batch' = <<>>, UNCHANGED <<offline, received, call>>
  PROVE  /\ LineIsKept' /\ PartsAreSorted'
         /\ Line' = Elements(received) \cup Held \cup Queued \cup Elements(b)
<1>1. queue \in Seq(Seq(Nat)) /\ submitted \in Nat
  BY DEF RouterInv, SinkTypes
<1>2. Elements(<<>>) = {} /\ Sorted(<<>>)
  BY DEF Elements, Sorted
<1>3. Held' = Held
  BY DEF Held, Elements
<1>4. 1..submitted \subseteq 1..submitted'
  BY <1>1
<1>5. CASE Len(queue) < QueueSize
  <2>1. queue' = Append(queue, b) /\ hand' = <<>>
    BY <1>5 DEF Submit, Put
  <2>2. Queued' = Queued \cup Elements(b)
    BY <1>1, <2>1, QueuedOf DEF Queued, QueuedIn
  <2>3. QueueSorted(queue')
    <3>1. Precede(QueuedIn(queue), Elements(b))
      BY DEF Precede, Queued
    <3> QED
      BY <1>1, <2>1, <3>1, PlacedInOrder DEF PartsAreSorted
  <2>4. LineIsKept' /\ Line' = Elements(received) \cup Held \cup Queued \cup Elements(b)
    <3>1. /\ Elements(received)' = Elements(received)
          /\ Elements(hand)' = {} /\ Elements(batch)' = {}
      BY <1>2, <2>1 DEF Elements
    <3> QED
      BY <1>3, <1>4, <2>2, <3>1 DEF LineIsKept, Line, Precede
  <2>5. PartsAreSorted'
    BY <1>2, <2>1, <2>3 DEF PartsAreSorted, QueueSorted, Sorted, Precede, Elements
  <2> QED
    BY <2>4, <2>5
<1>6. CASE ~ (Len(queue) < QueueSize)
  <2>1. hand' = b /\ UNCHANGED queue
    BY <1>6 DEF Submit
  <2>2. LineIsKept' /\ Line' = Elements(received) \cup Held \cup Queued \cup Elements(b)
    <3>1. /\ Elements(received)' = Elements(received)
          /\ Elements(hand)' = Elements(b) /\ Elements(batch)' = {}
          /\ Queued' = Queued
      BY <1>2, <2>1 DEF Elements, Queued, QueuedIn
    <3> QED
      BY <1>3, <1>4, <3>1 DEF LineIsKept, Line, Precede
  <2>3. PartsAreSorted'
    <3>1. QueueSorted(queue)'
      BY <2>1 DEF PartsAreSorted, QueueSorted, Sorted, Precede, Elements
    <3> QED
      BY <1>2, <2>1, <3>1 DEF PartsAreSorted, Sorted
  <2> QED
    BY <2>2, <2>3
<1> QED
  BY <1>5, <1>6

\* Messages move on or are lost before the batches of the simulation.
LEMMA LineAfter ==
  ASSUME LineIsKept, UNCHANGED <<batch, hand, submitted>>,
         Elements(received') \cup Held' \cup Queued' \subseteq Elements(received) \cup Held \cup Queued,
         Precede(Elements(received'), Held' \cup Queued'), Precede(Held', Queued')
  PROVE  LineIsKept'
<1>1. /\ Elements(received)' = Elements(received')
      /\ Elements(hand)' = Elements(hand) /\ Elements(batch)' = Elements(batch)
  BY DEF Elements
<1> QED
  BY <1>1 DEF LineIsKept, Line, Precede

\* Without anything lost.
LEMMA WithoutNone ==
  ASSUME NEW S PROVE Without(S, 0, S)
<1>1. {} \in SUBSET S /\ S = S \ {}
  OBVIOUS
<1> QED
  BY <1>1, FS_EmptySet DEF Without

\* The worker's write sends its messages in their order; what it cannot send it
\* puts back, and what it lets go it counts.
LEMMA WriteInOrder ==
  ASSUME RouterInv, LineIsKept, PartsAreSorted, WriteIsAlone, SinkStep("worker"),
         UNCHANGED <<queue, hand, batch, submitted>>
  PROVE  /\ LineIsKept' /\ PartsAreSorted' /\ WriteIsAlone'
         /\ sinkDropped <= sinkDropped'
         /\ Without(Elements(received) \cup Held, sinkDropped' - sinkDropped,
                    Elements(received') \cup Held')
<1> DEFINE c == call["worker"]
           d == call'["worker"]
           n == c.sent + 1
           R == Elements(received)
           O == Elements(offline)
<1>1. /\ "worker" \in Threads /\ "main" \in Threads \ {"worker"} /\ SinkParts /\ SinkTypes
      /\ queue \in Seq(Seq(Nat))
  BY DEF RouterInv, SinkTypes, SinkParts, Threads
<1>2. /\ c \in Calls /\ c \in CallRecords /\ c.pending \in Seq(Nat) /\ c.sent \in Nat
      /\ Len(c.pending) \in Nat
      /\ offline \in Seq(Nat) /\ call \in [Threads -> Calls] /\ sinkDropped \in Nat
      /\ received \in Seq(Nat)
  BY <1>1 DEF SinkParts, Calls, CallRecords
<1>3. SinkParts' /\ InCall("worker") /\ call'["main"] = call["main"]
  BY <1>1, CallSteps
<1>4. /\ c.op = "write" /\ ~InCall("main")
      /\ c.at = "copy" => Precede(O, Elements(c.pending)) /\ c.sent = 0
      /\ c.at = "clear" => O \subseteq Elements(c.pending) /\ c.sent = 0
      /\ c.at = "publish" => /\ offline = <<>> /\ n \in 1..Len(c.pending)
                             /\ \A i \in 1..c.sent : c.pending[i] \in R
      /\ Sorted(c.pending) /\ Sorted(offline) /\ Sorted(received)
  BY <1>2, <1>3 DEF WriteIsAlone, PartsAreSorted, Calls
<1>5. ~InCall("main")'
  BY <1>3, <1>4 DEF InCall
<1>6. /\ Elements(<<>>) = {} /\ Sorted(<<>>) /\ Unsent(NoCall) = {} /\ NoCall.at = "idle"
      /\ NoCall.pending = <<>>
  BY DEF Elements, Sorted, Unsent, NoCall
<1>7. c.sent = 0 => Unsent(c) = Elements(c.pending)
  BY <1>2 DEF Unsent, Elements
<1>8. Held = O \cup Unsent(c) /\ Held' = Elements(offline') \cup Unsent(d)
  BY DEF Held, Elements
<1>9. Queued' = Queued
  BY DEF Queued
<1>10. /\ Precede(R, Held \cup Queued) /\ Precede(Held, Queued)
  BY DEF LineIsKept, Line, Precede
<1>11. ASSUME Sorted(received'), Sorted(offline'), Sorted(d.pending) PROVE PartsAreSorted'
  <2>1. Sorted(received)' /\ Sorted(offline)' /\ Sorted(call["worker"].pending)'
    BY <1>11 DEF Sorted
  <2>2. Sorted(hand)' /\ Sorted(batch)' /\ QueueSorted(queue)'
    BY DEF PartsAreSorted, Sorted, QueueSorted, Precede, Elements
  <2> QED
    BY <2>1, <2>2 DEF PartsAreSorted
<1>12. ASSUME Elements(received') \cup Held' \subseteq R \cup Held,
              Precede(Elements(received'), Held')
       PROVE  LineIsKept'
  <2>1. Precede(Elements(received'), Held' \cup Queued') /\ Precede(Held', Queued')
    BY <1>9, <1>10, <1>12 DEF Precede
  <2> QED
    BY <1>9, <1>12, <2>1, LineAfter
<1>13. CASE CopyBuffer("worker")
  <2> DEFINE z == offline \o c.pending
  <2>1. /\ c.at = "copy" /\ UNCHANGED <<connected, offline, sinkDropped, received>>
        /\ d = [c EXCEPT !.pending = z, !.at = "clear"]
    BY <1>1, <1>2, <1>13 DEF CopyBuffer
  <2>2. /\ z \in Seq(Nat) /\ Sorted(z) /\ Elements(z) = O \cup Elements(c.pending)
    BY <1>2, <1>4, <2>1, ConcatInLine
  <2> HIDE DEF z, c
  <2>3. /\ d.pending = z /\ d.at = "clear" /\ d.sent = c.sent /\ d.op = c.op
    BY <1>2, <2>1 DEF CallRecords
  <2> HIDE DEF d
  <2>4. Unsent(d) = Elements(z)
    BY <1>2, <1>4, <2>1, <2>2, <2>3 DEF Unsent, Elements
  <2>5. Elements(received') = R /\ Held' = Held
    BY <1>4, <1>7, <1>8, <2>1, <2>2, <2>4
  <2>6. PartsAreSorted'
    BY <1>4, <1>11, <2>1, <2>2, <2>3
  <2>7. LineIsKept'
    BY <1>10, <1>12, <2>5 DEF Precede
  <2>8. WriteIsAlone'
    <3>1. Elements(offline)' \subseteq Elements(call["worker"].pending)'
      BY <2>1, <2>2, <2>3 DEF Elements, d
    <3>2. InCall("worker")'
      BY <2>3 DEF InCall, d
    <3> QED
      BY <1>4, <1>5, <2>3, <3>1, <3>2 DEF WriteIsAlone, d
  <2>9. Without(R \cup Held, 0, Elements(received') \cup Held')
    BY <2>5, WithoutNone
  <2> QED
    BY <1>2, <2>1, <2>6, <2>7, <2>8, <2>9
<1>14. CASE ClearBuffer("worker")
  <2>1. /\ c.at = "clear" /\ offline' = <<>> /\ UNCHANGED <<connected, sinkDropped, received>>
        /\ \/ c.pending = <<>> /\ d = NoCall
           \/ c.pending # <<>> /\ d = [c EXCEPT !.at = "publish"]
    BY <1>1, <1>2, <1>14 DEF ClearBuffer, Return
  <2> HIDE DEF c, d
  <2>2. /\ Unsent(d) = Elements(c.pending) /\ Sorted(d.pending)
        /\ \/ d = NoCall
           \/ d.at = "publish" /\ d.op = "write" /\ d.sent = 0
    <3>1. CASE c.pending = <<>> /\ d = NoCall
      BY <1>6, <3>1
    <3>2. CASE c.pending # <<>> /\ d = [c EXCEPT !.at = "publish"]
      <4>1. d.pending = c.pending /\ d.sent = 0 /\ d.op = "write" /\ d.at = "publish"
        BY <1>2, <1>4, <2>1, <3>2 DEF CallRecords
      <4> QED
        BY <1>2, <1>4, <4>1 DEF Unsent, Elements
    <3> QED
      BY <2>1, <3>1, <3>2
  <2>3. Elements(received') = R /\ Held' = Held
    BY <1>4, <1>6, <1>7, <1>8, <2>1, <2>2
  <2>4. PartsAreSorted'
    BY <1>4, <1>6, <1>11, <2>1, <2>2
  <2>5. LineIsKept'
    BY <1>10, <1>12, <2>3 DEF Precede
  <2>6. WriteIsAlone'
    BY <1>5, <1>6, <2>1, <2>2 DEF WriteIsAlone, d, InCall
  <2>7. Without(R \cup Held, 0, Elements(received') \cup Held')
    BY <2>3, WithoutNone
  <2> QED
    BY <1>2, <2>1, <2>4, <2>5, <2>6, <2>7
<1>15. CASE PublishOk("worker")
  <2> DEFINE v == c.pending[n]
  <2>1. /\ c.at = "publish" /\ received' = Append(received, v)
        /\ UNCHANGED <<connected, offline, sinkDropped>>
        /\ \/ n = Len(c.pending) /\ d = NoCall
           \/ n # Len(c.pending) /\ d = [c EXCEPT !.sent = n]
    BY <1>1, <1>2, <1>15 DEF PublishOk, Return
  <2>2. /\ n \in 1..Len(c.pending) /\ offline = <<>> /\ v \in Nat
        /\ \A i \in 1..c.sent : c.pending[i] \in R
    BY <1>2, <1>4, <2>1
  <2>3. /\ received' \in Seq(Nat) /\ Elements(received') = R \cup {v}
        /\ Len(received') = Len(received) + 1 /\ Len(received) \in Nat
        /\ received'[Len(received) + 1] = v
        /\ \A i \in 1..Len(received) : received'[i] = received[i]
    <3> HIDE DEF v
    <3>1. received \in Seq(Nat) /\ v \in Nat
      BY <1>2, <2>2
    <3> DEFINE more == Append(received, v)
    <3>2. /\ more \in Seq(Nat) /\ Elements(more) = Elements(received) \cup {v}
          /\ Len(more) = Len(received) + 1 /\ Len(received) \in Nat
          /\ more[Len(received) + 1] = v
          /\ \A i \in 1..Len(received) : more[i] = received[i]
      BY <3>1, AppendOf
    <3>3. received' = more
      BY <2>1
    <3> HIDE DEF more
    <3> QED
      BY <3>2, <3>3
  <2> DEFINE Later == {c.pending[i] : i \in (n + 1)..Len(c.pending)}
  <2>4. Unsent(c) = {v} \cup Later /\ v \in Held
    <3>1. (c.sent + 1)..Len(c.pending) = {n} \cup (n + 1)..Len(c.pending)
      BY <1>2, <2>2
    <3>2. Unsent(c) = {v} \cup Later
      BY <3>1 DEF Unsent
    <3> QED
      BY <1>8, <3>2
  <2>5. \A w \in Later : v < w
    <3>1. \A i \in (n + 1)..Len(c.pending) : i \in 1..Len(c.pending) /\ n < i
      BY <1>2, <2>2
    <3> QED
      BY <1>4, <2>2, <3>1 DEF Sorted
  <2>6. /\ Unsent(d) = Later /\ Sorted(d.pending)
        /\ \/ d = NoCall
           \/ /\ d.at = "publish" /\ d.op = "write" /\ d.sent = n /\ d.pending = c.pending
    <3>1. CASE n = Len(c.pending) /\ d = NoCall
      <4>1. (n + 1)..Len(c.pending) = {}
        BY <1>2, <3>1
      <4> QED
        BY <1>6, <3>1, <4>1
    <3>2. CASE n # Len(c.pending) /\ d = [c EXCEPT !.sent = n]
      <4>1. d.pending = c.pending /\ d.sent = n /\ d.op = "write" /\ d.at = "publish"
        BY <1>2, <1>4, <2>1, <3>2 DEF CallRecords
      <4> QED
        BY <1>4, <4>1 DEF Unsent
    <3> QED
      BY <2>1, <3>1, <3>2
  <2> HIDE DEF d
  <2>7. Sorted(received')
    <3>1. \A w \in R : w < v
      BY <1>10, <2>4 DEF Precede
    <3>2. \A i \in 1..Len(received) : received[i] \in R
      BY DEF Elements
    <3>3. \A i \in 1..Len(received') : i \in 1..Len(received) \/ i = Len(received) + 1
      BY <2>3
    <3> SUFFICES ASSUME NEW i \in 1..Len(received'), NEW j \in 1..Len(received'), i < j
                 PROVE  received'[i] < received'[j]
      BY DEF Sorted
    <3> HIDE DEF R, v
    <3>4. i \in 1..Len(received)
      BY <2>3, <3>3
    <3>5. CASE j \in 1..Len(received)
      BY <1>4, <2>3, <3>4, <3>5 DEF Sorted
    <3>6. CASE j = Len(received) + 1
      BY <2>3, <3>1, <3>2, <3>4, <3>6
    <3> QED
      BY <3>3, <3>5, <3>6
  <2>8. Held' = Later /\ Held = {v} \cup Later
    BY <1>6, <1>8, <2>1, <2>2, <2>4, <2>6
  <2>9. PartsAreSorted'
    BY <1>4, <1>11, <2>1, <2>6, <2>7
  <2>10. LineIsKept'
    <3>1. Precede(Elements(received'), Held')
      BY <1>10, <2>3, <2>5, <2>8 DEF Precede
    <3> QED
      BY <1>12, <2>3, <2>8, <3>1
  <2>11. WriteIsAlone'
    <3>1. \A i \in 1..n : c.pending[i] \in Elements(received')
      <4>1. \A i \in 1..n : i \in 1..c.sent \/ i = n
        BY <1>2
      <4> QED
        BY <2>2, <2>3, <4>1
    <3>2. Elements(received)' = Elements(received')
      BY DEF Elements
    <3> QED
      BY <1>5, <1>6, <2>1, <2>2, <2>6, <3>1, <3>2 DEF WriteIsAlone, d, InCall
  <2>12. Without(R \cup Held, 0, Elements(received') \cup Held')
    <3>1. Elements(received') \cup Held' = R \cup Held
      BY <2>3, <2>8
    <3> QED
      BY <3>1, WithoutNone
  <2> QED
    BY <1>2, <2>1, <2>9, <2>10, <2>11, <2>12
<1>16. CASE PublishFails("worker")
  <2> DEFINE s == SubSeq(c.pending, n, Len(c.pending))
             lost == sinkDropped' - sinkDropped
  <2>1. /\ c.at = "publish" /\ connected' = FALSE /\ Buffer(PutBack(c, n)) /\ d = NoCall
        /\ UNCHANGED received
    BY <1>1, <1>2, <1>16 DEF PublishFails, Return
  <2>2. n \in 1..Len(c.pending) /\ offline = <<>>
    BY <1>4, <2>1
  <2>3. PutBack(c, n) = s
    BY <1>2, <1>4, <2>2, PutBackOf
  <2>4. s \in Seq(Nat) /\ Sorted(s) /\ Elements(s) = Unsent(c)
    <3>1. n \in Nat /\ 1 <= n /\ n <= Len(c.pending) + 1
      BY <1>2, <2>2
    <3>2. Unsent(c) = {c.pending[i] : i \in n..Len(c.pending)}
      BY DEF Unsent
    <3> HIDE DEF n, c
    <3> QED
      BY <1>2, <1>4, <3>1, <3>2, SuffixOf
  <2> HIDE DEF s, d
  <2>5. /\ Sorted(offline') /\ sinkDropped' \in Nat /\ sinkDropped <= sinkDropped'
        /\ Without(O \cup Elements(s), lost, Elements(offline'))
    <3>1. Precede(O, Elements(s))
      BY <1>6, <2>2 DEF Precede
    <3> QED
      BY <1>2, <1>4, <2>1, <2>3, <2>4, <3>1, BufferInOrder
  <2> HIDE DEF lost
  <2>6. /\ Elements(received') = R /\ Held = Unsent(c) /\ Held' = Elements(offline')
    BY <1>6, <1>8, <2>1, <2>2
  <2>7. PICK D \in SUBSET Held : Held' = Held \ D /\ IsFiniteSet(D) /\ Cardinality(D) = lost
    BY <1>6, <2>2, <2>4, <2>5, <2>6 DEF Without
  <2>8. PartsAreSorted'
    BY <1>4, <1>6, <1>11, <2>1, <2>5
  <2>9. LineIsKept'
    BY <1>10, <1>12, <2>6, <2>7 DEF Precede
  <2>10. WriteIsAlone'
    BY <1>5, <1>6, <2>1 DEF WriteIsAlone, d, InCall
  <2>11. Without(R \cup Held, lost, Elements(received') \cup Held')
    <3>1. R \cap Held = {}
      <4>1. \A x \in R, y \in Held : x \in Nat /\ y \in Nat /\ x < y
        BY <1>1, <1>10 DEF LineIsKept, Line, SinkTypes, Precede
      <4> QED
        BY <4>1
    <3>2. D \in SUBSET (R \cup Held) /\ Elements(received') \cup Held' = (R \cup Held) \ D
      BY <2>6, <2>7, <3>1
    <3> QED
      BY <2>7, <3>2 DEF Without
  <2> QED
    BY <2>5, <2>8, <2>9, <2>10, <2>11 DEF lost
<1> QED
  BY <1>13, <1>14, <1>15, <1>16 DEF SinkStep

\* Apart from a set that stands for the rest.
LEMMA WithoutBeside ==
  ASSUME NEW S, NEW T, NEW n, Without(S, n, T), NEW U, S \cap U = {}
  PROVE  Without(S \cup U, n, T \cup U)
<1>1. PICK D \in SUBSET S : T = S \ D /\ IsFiniteSet(D) /\ Cardinality(D) = n
  BY DEF Without
<1>2. D \in SUBSET (S \cup U) /\ T \cup U = (S \cup U) \ D
  BY <1>1
<1> QED
  BY <1>1, <1>2 DEF Without

\* The worker takes the front of the queue, behind what the sink holds: it
\* starts to write it or, without a connection, buffers it.
LEMMA TakeInOrder ==
  ASSUME RouterInv, LineIsKept, PartsAreSorted, WriteIsAlone,
         worker = "get", queue # <<>>, queue' = Tail(queue),
         StartWrite("worker", Head(queue)), UNCHANGED <<hand, batch, submitted>>
  PROVE  /\ LineIsKept' /\ PartsAreSorted' /\ WriteIsAlone'
         /\ sinkDropped <= sinkDropped'
         /\ Without(Elements(received) \cup Held \cup Queued, sinkDropped' - sinkDropped,
                    Elements(received') \cup Held' \cup Queued')
<1> DEFINE c == call["worker"]
           d == call'["worker"]
           s == Head(queue)
           rest == QueuedIn(Tail(queue))
           R == Elements(received)
           O == Elements(offline)
           lost == sinkDropped' - sinkDropped
<1>1. /\ "worker" \in Threads /\ "main" \in Threads \ {"worker"} /\ SinkParts /\ SinkTypes
      /\ queue \in Seq(Seq(Nat)) /\ offline \in Seq(Nat) /\ call \in [Threads -> Calls]
      /\ sinkDropped \in Nat
  BY DEF RouterInv, SinkTypes, SinkParts, Threads
<1>2. /\ s \in Seq(Nat) /\ Sorted(s) /\ Queued = Elements(s) \cup rest
      /\ Precede(Elements(s), rest) /\ QueueSorted(Tail(queue))
  <2>1. s \in Seq(Nat)
    BY <1>1, TailOf
  <2>2. Queued = Elements(s) \cup rest
    BY <1>1, QueuedOf DEF Queued
  <2> QED
    BY <1>1, <2>1, <2>2, TakenInOrder DEF PartsAreSorted
<1> HIDE DEF s
<1>3. /\ ~InCall("main") /\ c = NoCall /\ Sorted(offline) /\ Sorted(received)
  BY DEF RouterInv, PlacesAreKept, WriteIsAlone, PartsAreSorted
<1>4. SinkParts' /\ call'["main"] = call["main"]
  BY <1>1, <1>2, StartTypes DEF s
<1>5. ~InCall("main")'
  BY <1>3, <1>4 DEF InCall
<1>6. /\ Elements(<<>>) = {} /\ Sorted(<<>>) /\ Unsent(NoCall) = {} /\ NoCall.at = "idle"
      /\ NoCall.pending = <<>>
  BY DEF Elements, Sorted, Unsent, NoCall
<1>7. Held = O /\ Held' = Elements(offline') \cup Unsent(d)
  BY <1>3, <1>6 DEF Held, Elements
<1>8. Queued' = rest
  BY DEF Queued, QueuedIn
<1> HIDE DEF rest
<1>9. /\ Precede(R, O \cup Elements(s) \cup rest) /\ Precede(O, Elements(s) \cup rest)
  BY <1>2, <1>7 DEF LineIsKept, Line, Precede
<1>10. ASSUME Sorted(offline'), Sorted(d.pending), UNCHANGED received PROVE PartsAreSorted'
  <2>1. Sorted(received)' /\ Sorted(offline)' /\ Sorted(call["worker"].pending)'
    BY <1>3, <1>10 DEF Sorted
  <2>2. Sorted(hand)' /\ Sorted(batch)'
    BY DEF PartsAreSorted, Sorted
  <2>3. QueueSorted(queue)'
    <3>1. QueueSorted(queue')
      BY <1>2
    <3> QED
      BY <3>1 DEF QueueSorted, Sorted, Precede, Elements
  <2> QED
    BY <2>1, <2>2, <2>3 DEF PartsAreSorted
<1>11. ASSUME UNCHANGED received, Held' \subseteq O \cup Elements(s)
       PROVE  LineIsKept'
  <2>1. /\ Elements(received') = R
        /\ Precede(Elements(received'), Held' \cup Queued') /\ Precede(Held', Queued')
    BY <1>2, <1>8, <1>9, <1>11 DEF Precede
  <2>2. Elements(received') \cup Held' \cup Queued' \subseteq R \cup Held \cup Queued
    BY <1>2, <1>7, <1>8, <1>11, <2>1
  <2> QED
    BY <2>1, <2>2, LineAfter
<1>12. UNCHANGED received
  BY DEF StartWrite
<1>13. CASE /\ Begin("worker", "write", s)
            /\ UNCHANGED <<offline, sinkDropped>>
  <2>1. d = [op |-> "write", at |-> "copy", pending |-> s, sent |-> 0]
    BY <1>1, <1>2, <1>13, BeginTypes
  <2>2. d.op = "write" /\ d.at = "copy" /\ d.pending = s /\ d.sent = 0
    BY <2>1
  <2> HIDE DEF d
  <2>3. Unsent(d) = Elements(s)
    BY <1>2, <2>2 DEF Unsent, Elements
  <2>4. Held' = O \cup Elements(s)
    BY <1>7, <1>13, <2>3
  <2>5. PartsAreSorted' /\ LineIsKept'
    BY <1>2, <1>3, <1>10, <1>11, <1>12, <1>13, <2>2, <2>4
  <2>6. WriteIsAlone'
    <3>1. Precede(Elements(offline)', Elements(call["worker"].pending)')
      BY <1>9, <1>13, <2>2 DEF Precede, Elements, d
    <3> QED
      BY <1>5, <2>2, <3>1 DEF WriteIsAlone, d, InCall
  <2>7. Without(R \cup Held \cup Queued, 0, Elements(received') \cup Held' \cup Queued')
    <3>1. Elements(received') \cup Held' \cup Queued' = R \cup Held \cup Queued
      BY <1>2, <1>7, <1>8, <1>12, <2>4
    <3> QED
      BY <3>1, WithoutNone
  <2> QED
    BY <1>1, <1>13, <2>5, <2>6, <2>7
<1>14. CASE connected' = FALSE /\ Buffer(s) /\ UNCHANGED call
  <2>1. d = NoCall
    BY <1>3, <1>14
  <2>2. /\ Sorted(offline') /\ sinkDropped' \in Nat /\ sinkDropped <= sinkDropped'
        /\ Without(O \cup Elements(s), lost, Elements(offline'))
    <3>1. Precede(O, Elements(s))
      BY <1>9 DEF Precede
    <3> QED
      BY <1>1, <1>2, <1>3, <1>14, <3>1, BufferInOrder
  <2> HIDE DEF d, lost
  <2>3. Held' = Elements(offline')
    BY <1>6, <1>7, <2>1
  <2>4. Held' \subseteq O \cup Elements(s)
    BY <2>2, <2>3 DEF Without
  <2>5. PartsAreSorted' /\ LineIsKept'
    BY <1>6, <1>10, <1>11, <1>12, <2>1, <2>2, <2>4
  <2>6. WriteIsAlone'
    BY <1>5, <1>6, <1>14, <2>1 DEF WriteIsAlone, d, InCall
  <2>7. Without(R \cup Held \cup Queued, lost, Elements(received') \cup Held' \cup Queued')
    <3> DEFINE S == O \cup Elements(s)
               T == Elements(offline')
               U == R \cup rest
    <3>1. S \cap U = {}
      <4>1. \A x \in R \cup O \cup Elements(s) \cup rest : x \in Nat
        BY <1>1, <1>2, <1>7 DEF LineIsKept, Line, SinkTypes
      <4>2. \A x \in S, y \in U : x < y \/ y < x
        BY <1>2, <1>9 DEF Precede
      <4> QED
        BY <4>1, <4>2
    <3>2. Without(S \cup U, lost, T \cup U)
      <4> HIDE DEF S, T, U
      <4> QED
        BY <2>2, <3>1, WithoutBeside DEF S, T
    <3>3. /\ S \cup U = R \cup Held \cup Queued
          /\ T \cup U = Elements(received') \cup Held' \cup Queued'
      BY <1>2, <1>7, <1>8, <1>12, <2>3
    <3> QED
      BY <3>2, <3>3
  <2> QED
    BY <2>2, <2>5, <2>6, <2>7 DEF lost
<1>15. \/ Begin("worker", "write", s) /\ UNCHANGED <<offline, sinkDropped>>
       \/ connected' = FALSE /\ Buffer(s) /\ UNCHANGED call
  <2>1. connected' \in BOOLEAN
    BY <1>4 DEF SinkParts
  <2> QED
    BY <2>1 DEF StartWrite, s
<1> HIDE DEF lost, R
<1> QED
  BY <1>13, <1>14, <1>15 DEF lost, R

\* The sizes of the batches.
BatchesAreSmall ==
  /\ Len(batch) < BatchSize
  /\ Len(hand) <= BatchLimit
  /\ \A i \in 1..Len(queue) : Len(queue[i]) <= BatchLimit

LEMMA SizesInit == Init => BatchesAreSmall
<1>1. Len(<<>>) = 0
  OBVIOUS
<1> QED
  BY <1>1, RouterAssumption DEF Init, BatchesAreSmall, BatchLimit

\* A batch is dispatched by the first chunk that makes it long enough.
LEMMA SizesStep == RouterInv /\ BatchesAreSmall /\ [Next]_vars => BatchesAreSmall'
<1> SUFFICES ASSUME RouterInv, BatchesAreSmall, [Next]_vars PROVE BatchesAreSmall'
  OBVIOUS
<1>1. /\ batch \in Seq(Nat) /\ hand \in Seq(Nat) /\ queue \in Seq(Seq(Nat))
      /\ Len(batch) \in Nat
  BY DEF RouterInv, SinkTypes
<1>2. /\ BatchSize \in Nat \ {0} /\ Chunk \in Nat \ {0} /\ BatchLimit \in Nat
      /\ \A n \in Nat : n < BatchSize => n <= BatchLimit
      /\ \A n \in Nat, m \in 1..Chunk : n < BatchSize => n + m <= BatchLimit
  BY RouterAssumption DEF BatchLimit
<1>3. Len(<<>>) = 0
  OBVIOUS
<1>4. ASSUME NEW b \in Seq(Nat), Len(b) <= BatchLimit, queue' = Append(queue, b)
      PROVE  \A i \in 1..Len(queue') : Len(queue'[i]) <= BatchLimit
  <2>1. /\ Len(queue) \in Nat /\ Len(queue') = Len(queue) + 1 /\ queue'[Len(queue) + 1] = b
        /\ \A i \in 1..Len(queue) : queue'[i] = queue[i]
    BY <1>1, <1>4, AppendOf
  <2>2. \A i \in 1..Len(queue') : i \in 1..Len(queue) \/ i = Len(queue) + 1
    BY <2>1
  <2> QED
    BY <1>4, <2>1, <2>2 DEF BatchesAreSmall
<1>5. ASSUME NEW b \in Seq(Nat), Len(b) <= BatchLimit, Submit(b), batch' = <<>>
      PROVE  BatchesAreSmall'
  <2>1. CASE queue' = Append(queue, b) /\ UNCHANGED hand
    BY <1>2, <1>3, <1>4, <1>5, <2>1 DEF BatchesAreSmall
  <2>2. CASE hand' = b /\ UNCHANGED queue
    BY <1>2, <1>3, <1>5, <2>2 DEF BatchesAreSmall
  <2> QED
    BY <1>5, <2>1, <2>2 DEF Submit, Put
<1>6. ASSUME queue # <<>>, queue' = Tail(queue)
      PROVE  \A i \in 1..Len(queue') : Len(queue'[i]) <= BatchLimit
  <2>1. /\ Len(queue) \in Nat \ {0} /\ Len(queue') = Len(queue) - 1
        /\ \A i \in 1..Len(queue') : queue'[i] = queue[i + 1] /\ i + 1 \in 1..Len(queue)
    BY <1>1, <1>6, TailOf
  <2> QED
    BY <2>1 DEF BatchesAreSmall
<1>7. CASE Publish
  <2>1. PICK n \in 1..Chunk :
          LET full == batch \o [i \in 1..n |-> submitted + i] IN
            IF Len(full) >= BatchSize
              THEN batch' = <<>> /\ Submit(full)
              ELSE batch' = full /\ UNCHANGED <<queue, hand>>
    BY <1>7 DEF Publish
  <2> DEFINE full == batch \o [i \in 1..n |-> submitted + i]
  <2>2. full \in Seq(Nat) /\ Len(full) = Len(batch) + n /\ Len(full) \in Nat
    <3>1. n \in Nat /\ submitted \in Nat
      BY <1>2 DEF RouterInv, SinkTypes
    <3>2. [i \in 1..n |-> submitted + i] \in Seq(Nat) /\ Len([i \in 1..n |-> submitted + i]) = n
      BY <3>1, LenProperties, SeqDef
    <3> QED
      BY <1>1, <3>1, <3>2, ConcatInLine
  <2>3. Len(full) <= BatchLimit
    BY <1>1, <1>2, <2>2 DEF BatchesAreSmall
  <2>4. CASE Len(full) >= BatchSize
    BY <1>5, <2>1, <2>2, <2>3, <2>4
  <2>5. CASE ~ (Len(full) >= BatchSize)
    <3>1. batch' = full /\ UNCHANGED <<queue, hand>>
      BY <2>1, <2>5
    <3> HIDE DEF full
    <3> QED
      BY <1>2, <2>2, <2>5, <3>1 DEF BatchesAreSmall
  <2> QED
    BY <2>4, <2>5
<1>8. CASE Dispatch \/ (Stop /\ batch # <<>>)
  <2>1. batch' = <<>> /\ Submit(batch) /\ Len(batch) <= BatchLimit
    BY <1>1, <1>2, <1>8 DEF Dispatch, Stop, BatchesAreSmall
  <2> QED
    BY <1>1, <1>5, <2>1
<1>9. CASE Evict
  <2>1. UNCHANGED batch /\ (hand' = <<>> \/ UNCHANGED hand)
    BY <1>9 DEF Evict
  <2>2. UNCHANGED queue \/ (queue # <<>> /\ queue' = Tail(queue))
    BY <1>9 DEF Evict
  <2>3. \A i \in 1..Len(queue') : Len(queue'[i]) <= BatchLimit
    BY <1>6, <2>2 DEF BatchesAreSmall
  <2>4. Len(hand') <= BatchLimit
    BY <1>2, <1>3, <2>1 DEF BatchesAreSmall
  <2> QED
    BY <1>2, <2>1, <2>3, <2>4 DEF BatchesAreSmall
<1>10. CASE Retry
  <2>1. UNCHANGED batch /\ hand' = <<>> /\ (UNCHANGED queue \/ queue' = Append(queue, hand))
    BY <1>10 DEF Retry, Put
  <2>2. Len(hand) <= BatchLimit
    BY DEF BatchesAreSmall
  <2>3. \A i \in 1..Len(queue') : Len(queue'[i]) <= BatchLimit
    BY <1>1, <1>4, <2>1, <2>2 DEF BatchesAreSmall
  <2> QED
    BY <1>2, <1>3, <2>1, <2>3 DEF BatchesAreSmall
<1>11. CASE PutSentinel
  <2>1. UNCHANGED <<batch, hand>> /\ queue' = Append(queue, <<>>) /\ <<>> \in Seq(Nat)
    BY <1>11 DEF PutSentinel, Put, Sentinel
  <2>2. Len(<<>>) <= BatchLimit
    BY <1>2, <1>3
  <2>3. \A i \in 1..Len(queue') : Len(queue'[i]) <= BatchLimit
    BY <1>4, <2>1, <2>2
  <2> QED
    BY <2>1, <2>3 DEF BatchesAreSmall
<1>12. CASE TakeBatch \/ TakeSentinel
  <2>1. UNCHANGED <<batch, hand>> /\ queue # <<>> /\ queue' = Tail(queue)
    BY <1>12 DEF TakeBatch, TakeSentinel
  <2> QED
    BY <1>6, <2>1 DEF BatchesAreSmall
<1>13. CASE UNCHANGED <<batch, hand, queue>>
  BY <1>13 DEF BatchesAreSmall
<1>14. Start \/ Drained \/ Joined \/ BeginFlush \/ Close \/ MainFlushes \/ WorkerWrites
         \/ TaskDone \/ StatsRead \/ StatsStore \/ UNCHANGED vars \/ (Stop /\ batch = <<>>)
       => UNCHANGED <<batch, hand, queue>>
  BY DEF Start, Drained, Joined, BeginFlush, Close, MainFlushes, WorkerWrites, TaskDone,
         StatsRead, StatsStore, Stop, vars, routerVars
<1> QED
  BY <1>7, <1>8, <1>9, <1>10, <1>11, <1>12, <1>13, <1>14 DEF Next, Main, Worker

LEMMA SizesHold == Spec => []BatchesAreSmall
BY SizesInit, SizesStep, RouterHolds, PTL DEF Spec

-----------------------------------------------------------------------------
\* The steps of the router along the line.

\* A call stays alone when nothing happens to the sink.
LEMMA AloneStays ==
  ASSUME WriteIsAlone, UNCHANGED <<offline, received, call>>,
         connected' => connected \/ offline = <<>>
  PROVE  WriteIsAlone'
<1> DEFINE c == call["worker"]
<1>1. c' = c /\ \A t \in {"main", "worker"} : InCall(t)' = InCall(t)
  BY DEF InCall
<1>2. Elements(offline)' = Elements(offline) /\ Elements(received)' = Elements(received)
  BY DEF Elements
<1>3. Elements(c.pending)' = Elements(c.pending)
  BY <1>1 DEF Elements
<1>4. Precede(Elements(offline), Elements(c.pending))'
      = Precede(Elements(offline), Elements(c.pending))
  BY <1>2, <1>3 DEF Precede
<1>5. QED
  BY <1>1, <1>2, <1>3, <1>4 DEF WriteIsAlone

LEMMA QueueStays ==
  ASSUME QueueSorted(queue') PROVE QueueSorted(queue)'
BY DEF QueueSorted, Sorted, Precede, Elements

\* What the simulation does to its batches leaves the sink alone.
LEMMA LineAhead ==
  ASSUME LineIsKept, PartsAreSorted, WriteIsAlone,
         UNCHANGED <<offline, received, call, submitted, batch>>,
         connected' => connected \/ offline = <<>>,
         QueueSorted(queue'), Sorted(hand'),
         Queued' \cup Elements(hand') \subseteq Queued \cup Elements(hand),
         Precede(Queued', Elements(hand') \cup Elements(batch))
  PROVE  /\ LineIsKept' /\ PartsAreSorted' /\ WriteIsAlone'
         /\ Line' = Elements(received) \cup Held \cup Queued'
                      \cup Elements(hand') \cup Elements(batch)
<1>1. /\ Elements(received)' = Elements(received) /\ Held' = Held
      /\ Elements(batch)' = Elements(batch) /\ Elements(hand)' = Elements(hand')
      /\ Elements(offline)' = Elements(offline)
  BY DEF Held, Elements
<1>2. Line' = Elements(received) \cup Held \cup Queued' \cup Elements(hand') \cup Elements(batch)
  BY <1>1 DEF Line
<1>3. Precede(Elements(received), Queued' \cup Elements(hand')) /\ Precede(Held, Queued' \cup Elements(hand'))
  BY DEF LineIsKept, Precede
<1>4. Line' \subseteq 1..submitted
  BY <1>2 DEF LineIsKept, Line
<1>5. LineIsKept'
  BY <1>1, <1>3, <1>4 DEF LineIsKept, Precede
<1>6. PartsAreSorted'
  <2>1. QueueSorted(queue)'
    BY QueueStays
  <2> QED
    BY <2>1 DEF PartsAreSorted, Sorted
<1>7. WriteIsAlone'
  BY AloneStays
<1> QED
  BY <1>2, <1>5, <1>6, <1>7

\* Nor does a step that leaves the batches alone as well.
LEMMA LineStays ==
  ASSUME LineIsKept, PartsAreSorted, WriteIsAlone,
         UNCHANGED <<offline, received, call, submitted, batch, hand>>,
         connected' => connected \/ offline = <<>>,
         QueueSorted(queue'), Queued' = Queued
  PROVE  LineIsKept' /\ PartsAreSorted' /\ WriteIsAlone' /\ Line' = Line
<1>1. /\ Sorted(hand') /\ Elements(hand') = Elements(hand)
      /\ Precede(Queued', Elements(hand') \cup Elements(batch))
  BY DEF PartsAreSorted, LineIsKept
<1> QED
  BY <1>1, LineAhead DEF Line

\* A batch that is dropped is at least one message and at most BatchLimit.
LEMMA BatchDropped ==
  ASSUME NEW s \in Seq(Nat), Sorted(s), s # <<>>, Len(s) <= BatchLimit,
         NEW U, Elements(s) \cap U = {}
  PROVE  \E n \in 1..BatchLimit : Without(Elements(s) \cup U, n, U)
<1>1. Len(s) \in Nat /\ 1 <= Len(s) /\ Len(s) \in 0..Len(s) /\ BatchLimit \in Nat
  BY RouterAssumption DEF BatchLimit
<1>2. IsFiniteSet(Elements(s)) /\ Cardinality(Elements(s)) = Len(s)
  <2>1. /\ IsFiniteSet({s[i] : i \in 1..Len(s)})
        /\ Cardinality({s[i] : i \in 1..Len(s)}) = Len(s)
    BY <1>1, SizeOfFront
  <2> QED
    BY <2>1 DEF Elements
<1>3. Elements(s) \in SUBSET (Elements(s) \cup U) /\ U = (Elements(s) \cup U) \ Elements(s)
  OBVIOUS
<1>4. Len(s) \in 1..BatchLimit /\ Without(Elements(s) \cup U, Len(s), U)
  BY <1>1, <1>2, <1>3 DEF Without
<1> QED
  BY <1>4

\* What becomes of the line in a step: new messages join it and the sink counts
\* what leaves it; or a batch leaves it and the worker counts one; or stats runs.
Counted ==
  /\ UNCHANGED <<dropped, report>>
  /\ submitted' \in Nat /\ submitted <= submitted'
  /\ sinkDropped' \in Nat /\ sinkDropped <= sinkDropped'
  /\ Without(Line \cup (submitted + 1)..submitted', sinkDropped' - sinkDropped, Line')

BatchLost ==
  /\ dropped' = dropped + 1 /\ UNCHANGED <<sinkDropped, submitted, report>>
  /\ \E n \in 1..BatchLimit : Without(Line, n, Line')

Reported ==
  UNCHANGED <<dropped, submitted>> /\ Line' = Line /\ (StatsRead \/ StatsStore)

LEMMA NothingLost ==
  ASSUME SinkTypes, UNCHANGED <<dropped, report, submitted, sinkDropped>>, Line' = Line
  PROVE  Counted
<1>1. /\ submitted \in Nat /\ sinkDropped \in Nat /\ (submitted + 1)..submitted = {}
      /\ sinkDropped - sinkDropped = 0
  BY DEF SinkTypes
<1> QED
  BY <1>1, WithoutNone DEF Counted

\* The simulation publishes messages, and dispatches the batch or goes on.
LEMMA PublishInOrder ==
  ASSUME RouterInv, LineIsKept, PartsAreSorted, WriteIsAlone, Publish
  PROVE  LineIsKept' /\ PartsAreSorted' /\ WriteIsAlone' /\ Counted
<1>1. PICK n \in 1..Chunk :
        LET full == batch \o [i \in 1..n |-> submitted + i] IN
          /\ submitted' = submitted + n
          /\ IF Len(full) >= BatchSize
               THEN batch' = <<>> /\ Submit(full)
               ELSE batch' = full /\ UNCHANGED <<queue, hand>>
  BY DEF Publish
<1> DEFINE new == [i \in 1..n |-> submitted + i]
           full == batch \o new
           Fresh == (submitted + 1)..submitted'
<1>2. /\ submitted \in Nat /\ n \in Nat /\ n >= 1 /\ batch \in Seq(Nat) /\ sinkDropped \in Nat
      /\ submitted' \in Nat /\ submitted <= submitted'
      /\ 1..submitted \cup Fresh = 1..submitted' /\ Sorted(batch) /\ SinkTypes
  BY <1>1, RouterAssumption DEF RouterInv, SinkTypes, PartsAreSorted
<1>3. UNCHANGED <<sinkVars, dropped, report>> /\ hand = <<>>
  BY DEF Publish, RouterInv, PlacesAreKept
<1>4. UNCHANGED <<offline, received, call, connected, sinkDropped>>
  BY <1>3 DEF sinkVars
<1>5. /\ new \in Seq(Nat) /\ Len(new) = n /\ Sorted(new) /\ Elements(new) = Fresh
  <2>1. new \in Seq(Nat) /\ Len(new) = n /\ \A i \in 1..n : new[i] = submitted + i
    BY <1>2, LenProperties, SeqDef
  <2>2. \A x \in Fresh : x - submitted \in 1..n /\ x = submitted + (x - submitted)
    BY <1>1, <1>2
  <2>3. \A i \in 1..n : submitted + i \in Fresh
    BY <1>1, <1>2
  <2> HIDE DEF new, Fresh
  <2>4. Sorted(new)
    BY <1>2, <2>1 DEF Sorted
  <2>5. \A i \in 1..n : new[i] \in Fresh
    BY <2>1, <2>3
  <2>6. \A x \in Fresh : x = new[x - submitted] /\ x - submitted \in 1..n
    BY <2>1, <2>2
  <2> QED
    BY <2>1, <2>4, <2>5, <2>6 DEF Elements
<1>6. \A x \in Line, y \in Fresh : x < y
  BY <1>2 DEF LineIsKept
<1> HIDE DEF new
<1>7. full \in Seq(Nat) /\ Sorted(full) /\ Elements(full) = Elements(batch) \cup Fresh
  <2>1. Precede(Elements(batch), Elements(new))
    BY <1>5, <1>6 DEF Precede, Line
  <2> QED
    BY <1>2, <1>5, <2>1, ConcatInLine
<1>8. /\ Precede(Elements(received) \cup Held \cup Queued, Elements(full))
      /\ Elements(full) \subseteq 1..submitted'
  BY <1>2, <1>6, <1>7 DEF LineIsKept, Line, Precede
<1>9. Elements(hand) = {}
  BY <1>3 DEF Elements
<1>10. ASSUME Line' = Line \cup Fresh PROVE Counted
  BY <1>2, <1>3, <1>4, <1>10, WithoutNone DEF Counted
<1>11. CASE batch' = <<>> /\ Submit(full)
  <2> HIDE DEF full, Fresh
  <2>1. /\ LineIsKept' /\ PartsAreSorted'
        /\ Line' = Elements(received) \cup Held \cup Queued \cup Elements(full)
    BY <1>2, <1>3, <1>4, <1>7, <1>8, <1>11, SubmitInOrder
  <2>2. Line' = Line \cup Fresh
    BY <1>7, <1>9, <2>1 DEF Line
  <2>3. WriteIsAlone'
    BY <1>4, AloneStays
  <2> QED
    BY <1>10, <2>1, <2>2, <2>3
<1>12. CASE batch' = full /\ UNCHANGED <<queue, hand>>
  <2> HIDE DEF full, Fresh
  <2>1. /\ Elements(received)' = Elements(received) /\ Held' = Held /\ Queued' = Queued
        /\ Elements(hand)' = {} /\ Elements(batch)' = Elements(batch) \cup Fresh
    BY <1>4, <1>7, <1>9, <1>12 DEF Held, Elements, Queued, QueuedIn
  <2>2. Line' = Line \cup Fresh
    BY <1>9, <2>1 DEF Line
  <2>3. Line' \subseteq 1..submitted'
    BY <1>2, <2>2 DEF LineIsKept
  <2>4. LineIsKept'
    BY <1>6, <2>1, <2>3 DEF LineIsKept, Precede, Line
  <2>5. PartsAreSorted'
    <3>1. Sorted(batch)'
      BY <1>7, <1>12 DEF Sorted
    <3>2. Sorted(received)' /\ Sorted(offline)' /\ Sorted(hand)' /\ Sorted(call["worker"].pending)'
      BY <1>4, <1>12 DEF PartsAreSorted, Sorted
    <3>3. QueueSorted(queue)'
      BY <1>12, QueueStays DEF PartsAreSorted
    <3> QED
      BY <3>1, <3>2, <3>3 DEF PartsAreSorted
  <2>6. WriteIsAlone'
    BY <1>4, AloneStays
  <2> QED
    BY <1>10, <2>2, <2>4, <2>5, <2>6
<1>13. \/ batch' = <<>> /\ Submit(full)
       \/ batch' = full /\ UNCHANGED <<queue, hand>>
  BY <1>1 DEF new
<1> QED
  BY <1>11, <1>12, <1>13

\* The batch goes to the queue by itself.
LEMMA DispatchInOrder ==
  ASSUME RouterInv, LineIsKept, PartsAreSorted, WriteIsAlone,
         main \in {"running", "stopped"}, Submit(batch), batch' = <<>>,
         UNCHANGED <<sinkVars, submitted, dropped, report>>
  PROVE  LineIsKept' /\ PartsAreSorted' /\ WriteIsAlone' /\ Counted
<1>1. /\ submitted \in Nat /\ batch \in Seq(Nat) /\ Sorted(batch) /\ SinkTypes /\ hand = <<>>
      /\ UNCHANGED <<offline, received, call, connected, sinkDropped>>
  BY DEF RouterInv, SinkTypes, PlacesAreKept, PartsAreSorted, sinkVars
<1>2. /\ Precede(Elements(received) \cup Held \cup Queued, Elements(batch))
      /\ Elements(batch) \subseteq 1..submitted
  BY DEF LineIsKept, Line, Precede
<1>3. submitted' \in Nat /\ submitted <= submitted' /\ Elements(batch) \subseteq 1..submitted'
  BY <1>1, <1>2
<1>4. /\ LineIsKept' /\ PartsAreSorted'
      /\ Line' = Elements(received) \cup Held \cup Queued \cup Elements(batch)
  BY <1>1, <1>2, <1>3, SubmitInOrder
<1>5. Line' = Line
  BY <1>1, <1>4 DEF Line, Elements
<1>6. WriteIsAlone'
  BY <1>1, AloneStays
<1> QED
  BY <1>1, <1>4, <1>5, <1>6, NothingLost

\* A full queue: its oldest batch is lost, or the new one.
LEMMA EvictInOrder ==
  ASSUME RouterInv, BatchesAreSmall, LineIsKept, PartsAreSorted, WriteIsAlone, Evict
  PROVE  LineIsKept' /\ PartsAreSorted' /\ WriteIsAlone' /\ BatchLost
<1>1. /\ hand \in Seq(Nat) /\ Sorted(hand) /\ hand # <<>> /\ Len(hand) <= BatchLimit
      /\ queue \in Seq(Seq(Nat)) /\ QueueSorted(queue)
  BY DEF RouterInv, SinkTypes, PlacesAreKept, PartsAreSorted, BatchesAreSmall, Evict
<1>2. UNCHANGED <<offline, received, call, submitted, batch, connected, sinkDropped, report>>
  BY DEF Evict, sinkVars
<1>3. /\ Elements(<<>>) = {} /\ Sorted(<<>>)
  BY DEF Elements, Sorted
<1>4. \A x, y \in Line : x \in Nat /\ y \in Nat
  BY DEF LineIsKept
<1>5. CASE queue = <<>> /\ hand' = <<>> /\ UNCHANGED queue
  <2> DEFINE U == Elements(received) \cup Held \cup Queued \cup Elements(batch)
  <2>1. QueueSorted(queue') /\ Queued' = Queued
    BY <1>1, <1>5 DEF Queued, QueuedIn
  <2>2. Queued = {}
    BY <1>3, <1>5 DEF Queued, QueuedIn
  <2>3. /\ Queued' \cup Elements(hand') \subseteq Queued \cup Elements(hand)
        /\ Precede(Queued', Elements(hand') \cup Elements(batch)) /\ Sorted(hand')
    BY <1>3, <1>5, <2>1, <2>2 DEF Precede
  <2>4. /\ LineIsKept' /\ PartsAreSorted' /\ WriteIsAlone'
        /\ Line' = Elements(received) \cup Held \cup Queued'
                     \cup Elements(hand') \cup Elements(batch)
    BY <1>2, <2>1, <2>3, LineAhead
  <2>5. Line' = U /\ Line = Elements(hand) \cup U
    BY <1>3, <1>5, <2>1, <2>4 DEF Line
  <2>6. Elements(batch) = {}
    BY <1>3 DEF RouterInv, PlacesAreKept, Evict
  <2>7. Elements(hand) \cap U = {}
    <3>1. \A x \in U, y \in Elements(hand) : x < y
      BY <2>2, <2>6 DEF LineIsKept, Precede
    <3> QED
      BY <1>4, <2>5, <3>1
  <2>8. \E n \in 1..BatchLimit : Without(Line, n, Line')
    <3> HIDE DEF U
    <3> QED
      BY <1>1, <2>5, <2>7, BatchDropped
  <2> QED
    BY <1>2, <2>4, <2>8 DEF BatchLost, Evict
<1>6. CASE queue # <<>> /\ queue' = Tail(queue) /\ UNCHANGED hand
  <2> DEFINE s == Head(queue)
             U == Elements(received) \cup Held \cup QueuedIn(Tail(queue))
                    \cup Elements(hand) \cup Elements(batch)
  <2>1. /\ s \in Seq(Nat) /\ s = queue[1] /\ 1 \in 1..Len(queue) /\ Sorted(s)
        /\ QueueSorted(queue') /\ Precede(Elements(s), QueuedIn(Tail(queue)))
    <3>1. s \in Seq(Nat) /\ s = queue[1] /\ 1 \in 1..Len(queue)
      BY <1>1, <1>6, TailOf
    <3> QED
      BY <1>1, <1>6, <3>1, TakenInOrder
  <2>2. Queued = Elements(s) \cup QueuedIn(Tail(queue)) /\ Queued' = QueuedIn(Tail(queue))
    BY <1>1, <1>6, QueuedOf DEF Queued, QueuedIn
  <2>3. s # <<>> /\ Len(s) <= BatchLimit
    BY <2>1 DEF RouterInv, SentinelsAreLast, Sentinel, Closing, Evict, BatchesAreSmall
  <2> HIDE DEF s
  <2>4. /\ Queued' \cup Elements(hand') \subseteq Queued \cup Elements(hand)
        /\ Precede(Queued', Elements(hand') \cup Elements(batch)) /\ Sorted(hand')
    BY <1>1, <1>6, <2>2 DEF Precede, LineIsKept
  <2>5. /\ LineIsKept' /\ PartsAreSorted' /\ WriteIsAlone'
        /\ Line' = Elements(received) \cup Held \cup Queued'
                     \cup Elements(hand') \cup Elements(batch)
    BY <1>2, <2>1, <2>4, LineAhead
  <2>6. Line' = U /\ Line = Elements(s) \cup U
    BY <1>6, <2>2, <2>5 DEF Line
  <2>7. Elements(s) \cap U = {}
    <3>1. \A x \in U, y \in Elements(s) : x < y \/ y < x
      BY <2>1, <2>2 DEF LineIsKept, Precede
    <3> QED
      BY <1>4, <2>6, <3>1
  <2>8. \E n \in 1..BatchLimit : Without(Line, n, Line')
    <3> HIDE DEF U
    <3> QED
      BY <2>1, <2>3, <2>6, <2>7, BatchDropped
  <2> QED
    BY <1>2, <2>5, <2>8 DEF BatchLost, Evict
<1> QED
  BY <1>5, <1>6 DEF Evict

\* The second try places the batch in hand, or loses it.
LEMMA RetryInOrder ==
  ASSUME RouterInv, BatchesAreSmall, LineIsKept, PartsAreSorted, WriteIsAlone, Retry
  PROVE  LineIsKept' /\ PartsAreSorted' /\ WriteIsAlone' /\ (Counted \/ BatchLost)
<1>1. /\ hand \in Seq(Nat) /\ Sorted(hand) /\ hand # <<>> /\ Len(hand) <= BatchLimit
      /\ queue \in Seq(Seq(Nat)) /\ QueueSorted(queue) /\ batch = <<>> /\ SinkTypes
  BY DEF RouterInv, SinkTypes, PlacesAreKept, PartsAreSorted, BatchesAreSmall, Retry
<1>2. /\ UNCHANGED <<offline, received, call, submitted, batch, connected, sinkDropped, report>>
      /\ hand' = <<>>
  BY DEF Retry, sinkVars
<1>3. /\ Elements(<<>>) = {} /\ Sorted(<<>>) /\ Elements(batch) = {} /\ Elements(hand') = {}
  BY <1>1, <1>2 DEF Elements, Sorted
<1>4. \A x, y \in Line : x \in Nat /\ y \in Nat
  BY DEF LineIsKept
<1>5. CASE queue' = Append(queue, hand) /\ UNCHANGED dropped
  <2>1. Queued' = Queued \cup Elements(hand)
    BY <1>1, <1>5, QueuedOf DEF Queued, QueuedIn
  <2>2. QueueSorted(queue')
    <3>1. Precede(QueuedIn(queue), Elements(hand))
      BY DEF Precede, Queued, LineIsKept
    <3> QED
      BY <1>1, <1>5, <3>1, PlacedInOrder
  <2>3. /\ Queued' \cup Elements(hand') \subseteq Queued \cup Elements(hand)
        /\ Precede(Queued', Elements(hand') \cup Elements(batch)) /\ Sorted(hand')
    BY <1>2, <1>3, <2>1 DEF Precede
  <2>4. /\ LineIsKept' /\ PartsAreSorted' /\ WriteIsAlone'
        /\ Line' = Elements(received) \cup Held \cup Queued'
                     \cup Elements(hand') \cup Elements(batch)
    BY <1>2, <2>2, <2>3, LineAhead
  <2>5. Line' = Line
    BY <1>3, <2>1, <2>4 DEF Line
  <2> QED
    BY <1>1, <1>2, <1>5, <2>4, <2>5, NothingLost
<1>6. CASE dropped' = dropped + 1 /\ UNCHANGED queue
  <2> DEFINE U == Elements(received) \cup Held \cup Queued
  <2>1. QueueSorted(queue') /\ Queued' = Queued
    BY <1>1, <1>6 DEF Queued, QueuedIn
  <2>2. /\ Queued' \cup Elements(hand') \subseteq Queued \cup Elements(hand)
        /\ Precede(Queued', Elements(hand') \cup Elements(batch)) /\ Sorted(hand')
    BY <1>2, <1>3, <2>1 DEF Precede
  <2>3. /\ LineIsKept' /\ PartsAreSorted' /\ WriteIsAlone'
        /\ Line' = Elements(received) \cup Held \cup Queued'
                     \cup Elements(hand') \cup Elements(batch)
    BY <1>2, <2>1, <2>2, LineAhead
  <2>4. Line' = U /\ Line = Elements(hand) \cup U
    BY <1>3, <2>1, <2>3 DEF Line
  <2>5. Elements(hand) \cap U = {}
    <3>1. \A x \in U, y \in Elements(hand) : x < y
      BY DEF LineIsKept, Precede
    <3> QED
      BY <1>4, <2>4, <3>1
  <2>6. \E n \in 1..BatchLimit : Without(Line, n, Line')
    <3> HIDE DEF U
    <3> QED
      BY <1>1, <2>4, <2>5, BatchDropped
  <2> QED
    BY <1>2, <1>6, <2>3, <2>6 DEF BatchLost
<1> QED
  BY <1>5, <1>6 DEF Retry, Put

\* The sentinel is no message.
LEMMA SentinelInOrder ==
  ASSUME RouterInv, LineIsKept, PartsAreSorted, WriteIsAlone,
         \/ queue' = Append(queue, Sentinel)
         \/ queue # <<>> /\ Head(queue) = Sentinel /\ queue' = Tail(queue),
         UNCHANGED <<sinkVars, submitted, dropped, report, batch, hand>>
  PROVE  LineIsKept' /\ PartsAreSorted' /\ WriteIsAlone' /\ Counted
<1>1. /\ queue \in Seq(Seq(Nat)) /\ QueueSorted(queue) /\ SinkTypes
      /\ UNCHANGED <<offline, received, call, submitted, batch, hand, connected, sinkDropped>>
  BY DEF RouterInv, SinkTypes, PartsAreSorted, sinkVars
<1>2. /\ Sentinel \in Seq(Nat) /\ Elements(Sentinel) = {} /\ Sorted(Sentinel)
      /\ Precede(QueuedIn(queue), Elements(Sentinel))
  BY DEF Sentinel, Elements, Sorted, Precede
<1>3. CASE queue' = Append(queue, Sentinel)
  <2>1. QueuedIn(Append(queue, Sentinel)) = QueuedIn(queue) \cup Elements(Sentinel)
    BY <1>1, <1>2, QueuedOf
  <2>2. Queued' = Queued
    BY <1>2, <1>3, <2>1 DEF Queued, QueuedIn
  <2>3. QueueSorted(queue')
    BY <1>1, <1>2, <1>3, PlacedInOrder
  <2> QED
    BY <1>1, <2>2, <2>3, LineStays, NothingLost
<1>4. CASE queue # <<>> /\ Head(queue) = Sentinel /\ queue' = Tail(queue)
  <2>1. Queued' = Queued /\ QueueSorted(queue')
    BY <1>1, <1>2, <1>4, QueuedOf, TakenInOrder DEF Queued, QueuedIn
  <2> QED
    BY <1>1, <2>1, LineStays, NothingLost
<1> QED
  BY <1>3, <1>4

\* As long as write and flush do not run at the same time, every step keeps the
\* order of the line, and what it loses is counted.
LEMMA LineStep ==
  ASSUME RouterInv, RouterInv', BatchesAreSmall, OrderInv, [Next]_vars, ~raced'
  PROVE  /\ ~raced /\ LineIsKept' /\ PartsAreSorted' /\ WriteIsAlone'
         /\ Counted \/ BatchLost \/ Reported
<1>1. ~raced
  BY DEF RouterInv, SinkTypes, Next, Main, Worker, Start, Publish, Dispatch, Evict, Retry, Stop,
         Drained, BeginFlush, PutSentinel, Joined, Close, MainFlushes, TakeBatch, WorkerWrites,
         TaskDone, TakeSentinel, StatsRead, StatsStore, vars, routerVars
<1>2. /\ LineIsKept /\ PartsAreSorted /\ WriteIsAlone /\ SinkTypes /\ QueueSorted(queue)
      /\ sinkDropped' \in Nat /\ submitted \in Nat /\ "main" \in Threads /\ "worker" \in Threads
  BY <1>1 DEF OrderInv, RouterInv, SinkTypes, PartsAreSorted, Threads
<1>3. CASE Publish
  BY <1>1, <1>2, <1>3, PublishInOrder
<1>4. CASE Dispatch \/ (Stop /\ batch # <<>>)
  <2>1. /\ main \in {"running", "stopped"} /\ Submit(batch) /\ batch' = <<>>
        /\ UNCHANGED <<sinkVars, submitted, dropped, report>>
    BY <1>4 DEF Dispatch, Stop
  <2> QED
    BY <1>1, <1>2, <2>1, DispatchInOrder
<1>5. CASE Evict
  BY <1>1, <1>2, <1>5, EvictInOrder
<1>6. CASE Retry
  BY <1>1, <1>2, <1>6, RetryInOrder
<1>7. CASE PutSentinel \/ TakeSentinel
  <2>1. /\ \/ queue' = Append(queue, Sentinel)
           \/ queue # <<>> /\ Head(queue) = Sentinel /\ queue' = Tail(queue)
        /\ UNCHANGED <<sinkVars, submitted, dropped, report, batch, hand>>
    BY <1>7 DEF PutSentinel, TakeSentinel, Put
  <2> QED
    BY <1>1, <1>2, <2>1, SentinelInOrder
<1>8. CASE TakeBatch
  <2> DEFINE S == Elements(received) \cup Held \cup Queued
             T == Elements(received') \cup Held' \cup Queued'
             U == Elements(hand) \cup Elements(batch)
             k == sinkDropped' - sinkDropped
  <2>1. /\ worker = "get" /\ queue # <<>> /\ queue' = Tail(queue)
        /\ StartWrite("worker", Head(queue))
        /\ UNCHANGED <<hand, batch, submitted, dropped, report>>
    BY <1>8 DEF TakeBatch
  <2>2. /\ LineIsKept' /\ PartsAreSorted' /\ WriteIsAlone'
        /\ sinkDropped <= sinkDropped' /\ Without(S, k, T)
    BY <1>2, <2>1, TakeInOrder
  <2>3. Line = S \cup U /\ Line' = T \cup U
    BY <2>1 DEF Line, Elements
  <2>4. S \cap U = {}
    <3>1. \A x \in S, y \in U : x < y /\ x \in Nat /\ y \in Nat
      BY <1>2 DEF LineIsKept, Precede, Line
    <3> QED
      BY <3>1
  <2> HIDE DEF S, T, U, k
  <2>5. Without(Line, k, Line')
    BY <2>2, <2>3, <2>4, WithoutBeside
  <2>6. (submitted + 1)..submitted = {} /\ submitted <= submitted
    BY <1>2
  <2> QED
    BY <1>1, <1>2, <2>1, <2>2, <2>5, <2>6 DEF Counted, k
<1>9. CASE WorkerWrites
  <2> DEFINE S == Elements(received) \cup Held
             T == Elements(received') \cup Held'
             U == Queued \cup Elements(hand) \cup Elements(batch)
             k == sinkDropped' - sinkDropped
  <2>1. /\ SinkStep("worker") /\ UNCHANGED <<queue, hand, batch, submitted, dropped, report>>
    BY <1>9 DEF WorkerWrites, routerVars
  <2>2. /\ LineIsKept' /\ PartsAreSorted' /\ WriteIsAlone'
        /\ sinkDropped <= sinkDropped' /\ Without(S, k, T)
    BY <1>2, <2>1, WriteInOrder
  <2>3. Line = S \cup U /\ Line' = T \cup U
    BY <2>1 DEF Line, Elements, Queued, QueuedIn
  <2>4. S \cap U = {}
    <3>1. \A x \in S, y \in U : x < y /\ x \in Nat /\ y \in Nat
      BY <1>2 DEF LineIsKept, Precede, Line
    <3> QED
      BY <3>1
  <2> HIDE DEF S, T, U, k
  <2>5. Without(Line, k, Line')
    BY <2>2, <2>3, <2>4, WithoutBeside
  <2>6. (submitted + 1)..submitted = {} /\ submitted <= submitted
    BY <1>2
  <2> QED
    BY <1>1, <1>2, <2>1, <2>2, <2>5, <2>6 DEF Counted, k
<1>10. CASE StatsRead \/ StatsStore
  <2>1. /\ UNCHANGED <<offline, received, call, submitted, batch, hand, connected, queue, dropped>>
        /\ Queued' = Queued
    BY <1>10 DEF StatsRead, StatsStore, sinkVars, Queued, QueuedIn
  <2>2. LineIsKept' /\ PartsAreSorted' /\ WriteIsAlone' /\ Line' = Line
    BY <1>2, <2>1, LineStays
  <2> QED
    BY <1>1, <1>10, <2>1, <2>2 DEF Reported
<1>11. CASE /\ UNCHANGED <<offline, received, call, submitted, batch, hand, queue, dropped,
                           sinkDropped, report>>
            /\ connected' => connected \/ offline = <<>>
  <2>1. Queued' = Queued /\ QueueSorted(queue')
    BY <1>2, <1>11 DEF Queued, QueuedIn
  <2>2. LineIsKept' /\ PartsAreSorted' /\ WriteIsAlone' /\ Line' = Line
    BY <1>2, <1>11, <2>1, LineStays
  <2> QED
    BY <1>1, <1>2, <1>11, <2>2, NothingLost
<1>12. CASE Start
  <2>1. offline = <<>>
    BY <1>12 DEF Start, RouterInv, PlacesAreKept
  <2> QED
    BY <1>11, <1>12, <2>1 DEF Start
<1>13. CASE BeginFlush
  <2>1. ~CanFlush
    BY <1>2, <1>13 DEF BeginFlush, CanFlush, WriteIsAlone
  <2> QED
    BY <1>11, <1>13, <2>1 DEF BeginFlush, sinkVars
<1>14. CASE Close
  BY <1>11, <1>14 DEF Close, Disconnect, sinkVars
<1>15. CASE \/ Drained \/ Joined \/ TaskDone \/ (Stop /\ batch = <<>>) \/ UNCHANGED vars
  BY <1>11, <1>15 DEF Drained, Joined, TaskDone, Stop, vars, sinkVars, routerVars
<1>16. CASE MainFlushes
  <2>1. InCall("main")
    BY <1>2, <1>16, CallSteps DEF MainFlushes, RouterInv, SinkTypes, SinkParts
  <2> QED
    BY <1>2, <2>1 DEF WriteIsAlone
<1> QED
  BY <1>3, <1>4, <1>5, <1>6, <1>7, <1>8, <1>9, <1>10, <1>12, <1>13, <1>14, <1>15, <1>16
     DEF Next, Main, Worker

LEMMA OrderInit == Init => OrderInv
<1> SUFFICES ASSUME Init PROVE OrderInv
  OBVIOUS
<1>1. /\ batch = <<>> /\ hand = <<>> /\ queue = <<>> /\ offline = <<>> /\ received = <<>>
      /\ call = [t \in Threads |-> NoCall] /\ "worker" \in Threads /\ "main" \in Threads
  BY DEF Init, SinkInit, Threads
<1>2. Elements(<<>>) = {} /\ Sorted(<<>>) /\ QueueSorted(<<>>) /\ QueuedIn(<<>>) = {}
  BY DEF Elements, Sorted, QueueSorted, QueuedIn
<1>3. /\ call["worker"] = NoCall /\ call["main"] = NoCall /\ NoCall.at = "idle"
      /\ NoCall.pending = <<>> /\ Unsent(NoCall) = {}
  BY <1>1 DEF NoCall, Unsent
<1>4. LineIsKept
  BY <1>1, <1>2, <1>3 DEF LineIsKept, Line, Held, Queued, Precede
<1>5. PartsAreSorted
  BY <1>1, <1>2, <1>3 DEF PartsAreSorted
<1>6. WriteIsAlone
  BY <1>1, <1>3 DEF WriteIsAlone, InCall
<1> QED
  BY <1>4, <1>5, <1>6 DEF OrderInv

LEMMA OrderStep == RouterInv /\ RouterInv' /\ BatchesAreSmall /\ OrderInv /\ [Next]_vars => OrderInv'
BY LineStep DEF OrderInv

LEMMA OrderHolds == Spec => []OrderInv
BY OrderInit, OrderStep, RouterHolds, SizesHold, PTL DEF Spec

\* The broker gets every message at most once and in the order in which the
\* simulation published it, through every loss of connection, reconnect and drop
\* (mqtt_sink.py:144-149), unless the end of the run overtook a write.
THEOREM DeliveredInOrder == Spec => []InOrder
<1>1. OrderInv => InOrder
  BY DEF OrderInv, InOrder, PartsAreSorted, Sorted
<1> QED
  BY <1>1, OrderHolds, PTL

-----------------------------------------------------------------------------
\* The counters.

\* The messages that have left the line unsent.
Gone == (1..submitted) \ Line

\* What stats is about to store is no more than what is lost either.
LossInv ==
  ~raced =>
    /\ Cardinality(Gone) <= BatchLimit * dropped + sinkDropped
    /\ dropped <= Cardinality(Gone) /\ sinkDropped <= Cardinality(Gone)
    /\ report.held => report.seen <= report.max /\ report.max <= Cardinality(Gone)

LEMMA GoneIsFinite ==
  ASSUME submitted \in Nat PROVE IsFiniteSet(Gone)
<1>1. IsFiniteSet(1..submitted)
  BY FS_Interval
<1>2. Gone \subseteq 1..submitted
  BY DEF Gone
<1> QED
  BY <1>1, <1>2, FS_Subset

\* New messages are not gone; those that leave the line are, for good.
LEMMA GoneAfter ==
  ASSUME submitted \in Nat, submitted' \in Nat, submitted <= submitted', NEW n \in Nat,
         Line \subseteq 1..submitted,
         Without(Line \cup (submitted + 1)..submitted', n, Line')
  PROVE  Cardinality(Gone) \in Nat /\ Cardinality(Gone') = Cardinality(Gone) + n
<1> DEFINE Fresh == (submitted + 1)..submitted'
<1>1. PICK D \in SUBSET (Line \cup Fresh) :
        Line' = (Line \cup Fresh) \ D /\ IsFiniteSet(D) /\ Cardinality(D) = n
  BY DEF Without
<1>2. 1..submitted' = 1..submitted \cup Fresh /\ (1..submitted) \cap Fresh = {}
  OBVIOUS
<1>3. Gone \cap D = {} /\ Gone' = Gone \cup D
  BY <1>1, <1>2 DEF Gone
<1>4. IsFiniteSet(Gone)
  BY GoneIsFinite
<1>5. Cardinality(Gone) \in Nat
  BY <1>4, FS_CardinalityType
<1>6. Cardinality(Gone \cup D) = Cardinality(Gone) + Cardinality(D)
  <2>1. Cardinality(Gone \cap D) = 0
    BY <1>3, FS_EmptySet
  <2>2. /\ Cardinality(D) \in Nat
        /\ Cardinality(Gone \cup D) = Cardinality(Gone) + Cardinality(D) - Cardinality(Gone \cap D)
    BY <1>1, <1>4, FS_CardinalityType, FS_Union
  <2> QED
    BY <1>5, <2>1, <2>2
<1> QED
  BY <1>1, <1>3, <1>5, <1>6

LEMMA LossInit == Init => LossInv
<1> SUFFICES ASSUME Init PROVE LossInv
  OBVIOUS
<1>1. submitted = 0 /\ dropped = 0 /\ sinkDropped = 0 /\ ~report.held
  BY DEF Init, SinkInit, NoReport
<1>2. Gone = {} /\ BatchLimit \in Nat
  BY <1>1, RouterAssumption DEF Gone, BatchLimit
<1>3. Cardinality(Gone) = 0
  BY <1>2, FS_EmptySet
<1> QED
  BY <1>1, <1>2, <1>3 DEF LossInv

LEMMA LossStep ==
  RouterInv /\ RouterInv' /\ BatchesAreSmall /\ OrderInv /\ LossInv /\ [Next]_vars => LossInv'
<1> SUFFICES ASSUME RouterInv, RouterInv', BatchesAreSmall, OrderInv, LossInv, [Next]_vars, ~raced'
             PROVE  LossInv'
  BY DEF LossInv
<1> DEFINE g == Cardinality(Gone)
           h == Cardinality(Gone')
<1>1. ~raced /\ (Counted \/ BatchLost \/ Reported)
  BY LineStep
<1>2. /\ submitted \in Nat /\ sinkDropped \in Nat /\ dropped \in Nat /\ BatchLimit \in Nat
      /\ report.seen \in Nat /\ report.max \in Nat /\ Line \subseteq 1..submitted
  BY <1>1, RouterAssumption DEF RouterInv, SinkTypes, OrderInv, LineIsKept, BatchLimit
<1>3. /\ g <= BatchLimit * dropped + sinkDropped /\ dropped <= g /\ sinkDropped <= g
      /\ report.held => report.seen <= report.max /\ report.max <= g
  BY <1>1 DEF LossInv
<1>4. SUFFICES /\ h <= BatchLimit * dropped' + sinkDropped'
               /\ dropped' <= h /\ sinkDropped' <= h
               /\ report'.held => report'.seen <= report'.max /\ report'.max <= h
  BY DEF LossInv
<1>5. BatchLimit * dropped \in Nat /\ BatchLimit * (dropped + 1) = BatchLimit * dropped + BatchLimit
  BY <1>2
<1>6. CASE Counted
  <2> DEFINE n == sinkDropped' - sinkDropped
  <2>1. /\ UNCHANGED <<dropped, report>> /\ sinkDropped' \in Nat /\ sinkDropped <= sinkDropped'
        /\ n \in Nat /\ sinkDropped' = sinkDropped + n
    <3>1. UNCHANGED <<dropped, report>> /\ sinkDropped' \in Nat /\ sinkDropped <= sinkDropped'
      BY <1>6 DEF Counted
    <3>2. \A a, b \in Nat : a <= b => b - a \in Nat /\ b = a + (b - a)
      OBVIOUS
    <3>3. sinkDropped \in Nat /\ sinkDropped' \in Nat /\ sinkDropped <= sinkDropped'
      BY <1>2, <3>1
    <3>4. n \in Nat /\ sinkDropped' = sinkDropped + n
      BY <3>2, <3>3
    <3> QED
      BY <3>1, <3>4
  <2> HIDE DEF n
  <2>2. g \in Nat /\ h = g + n
    BY <1>2, <1>6, <2>1, GoneAfter DEF Counted, n
  <2> HIDE DEF g, h
  <2> QED
    BY <1>2, <1>3, <1>5, <2>1, <2>2
<1>7. CASE BatchLost
  <2>1. PICK n \in 1..BatchLimit : Without(Line, n, Line')
    BY <1>7 DEF BatchLost
  <2>2. dropped' = dropped + 1 /\ UNCHANGED <<sinkDropped, submitted, report>>
    BY <1>7 DEF BatchLost
  <2>3. n \in Nat /\ Line \cup (submitted + 1)..submitted' = Line
    BY <1>2, <2>2
  <2>4. g \in Nat /\ h = g + n
    BY <1>2, <2>1, <2>2, <2>3, GoneAfter
  <2> HIDE DEF g, h
  <2> QED
    BY <1>2, <1>3, <1>5, <2>1, <2>2, <2>4
<1>8. CASE Reported
  <2>1. UNCHANGED <<dropped, submitted>> /\ h = g
    BY <1>8 DEF Reported, Gone
  <2>2. g \in Nat
    <3>1. IsFiniteSet(Gone)
      BY <1>2, GoneIsFinite
    <3> QED
      BY <3>1, FS_CardinalityType
  <2> HIDE DEF g, h
  <2>3. CASE StatsRead
    <3>1. /\ sinkDropped' = sinkDropped /\ report'.seen = sinkDropped
          /\ report'.max = IF dropped > sinkDropped THEN dropped ELSE sinkDropped
      BY <2>3 DEF StatsRead, sinkVars
    <3> QED
      BY <1>2, <1>3, <2>1, <2>2, <3>1
  <2>4. CASE StatsStore
    <3>1. sinkDropped' = report.max /\ sinkDropped = report.seen /\ report.held /\ ~report'.held
      BY <2>4 DEF StatsStore, NoReport
    <3> QED
      BY <1>2, <1>3, <1>5, <2>1, <2>2, <3>1
  <2> QED
    BY <1>8, <2>3, <2>4 DEF Reported
<1> QED
  BY <1>1, <1>6, <1>7, <1>8

LEMMA LossHolds == Spec => []LossInv
BY LossInit, LossStep, RouterHolds, SizesHold, OrderHolds, PTL DEF Spec

\* Losses are counted, "never silently" (router.py:6): what is lost is at most
\* what the two counters admit, a dropped batch counting as its messages, and
\* neither counter claims a loss that was none.
THEOREM LossesAreCounted == Spec => []LossesCounted
<1>1. ASSUME RouterInv, OrderInv, LossInv, ~raced PROVE Lost = Gone
  <2> DEFINE c == call["worker"]
  <2>1. /\ WriteIsAlone /\ "worker" \in Threads /\ \A u \in Threads : InCall(u) => u = "worker"
        /\ c \in Calls
    BY <1>1 DEF OrderInv, WriteIsAlone, Threads, RouterInv, SinkTypes
  <2> DEFINE P == UNION {Elements(call[t].pending) : t \in {u \in Threads : InCall(u)}}
  <2>2. CASE InCall("worker")
    <3>1. P = Elements(c.pending)
      BY <2>1, <2>2
    <3>2. c.sent \in Nat /\ Len(c.pending) \in Nat /\ c.at \in {"copy", "clear", "publish"}
      BY <2>1, <2>2 DEF Calls, CallRecords, InCall
    <3>3. \A i \in 1..Len(c.pending) : i \in 1..c.sent \/ i \in (c.sent + 1)..Len(c.pending)
      BY <3>2
    <3>4. \A i \in (c.sent + 1)..Len(c.pending) : i \in 1..Len(c.pending)
      BY <3>2
    <3>5. \A i \in 1..c.sent : c.pending[i] \in Elements(received)
      BY <2>1, <3>2 DEF WriteIsAlone, Calls
    <3> HIDE DEF c, P
    <3>6. Elements(received) \cup P = Elements(received) \cup Unsent(c)
      BY <3>1, <3>3, <3>4, <3>5 DEF Elements, Unsent
    <3> HIDE DEF Elements
    <3> QED
      BY <3>6 DEF Lost, Gone, OnTheWay, Line, Held, Queued, QueuedIn, P, c
  <2>3. CASE ~InCall("worker")
    <3>1. P = {} /\ c = NoCall /\ Unsent(NoCall) = {}
      BY <2>1, <2>3 DEF WriteIsAlone, NoCall, Unsent
    <3> HIDE DEF P
    <3> QED
      BY <3>1 DEF Lost, Gone, OnTheWay, Line, Held, Queued, QueuedIn, P
  <2> QED
    BY <2>2, <2>3
<1>2. RouterInv /\ OrderInv /\ LossInv => LossesCounted
  BY <1>1 DEF LossInv, LossesCounted
<1> QED
  BY <1>2, RouterHolds, OrderHolds, LossHolds, PTL

=============================================================================
