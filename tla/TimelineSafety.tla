---------------------------- MODULE TimelineSafety ----------------------------
(***************************************************************************)
(* Proofs about the time of a run: the clock passes no task (ClockWaits),  *)
(* every shift of the pattern is opened at its start (ShiftsChain), the    *)
(* accounts of a machine come to the time that passed (AccountsBalance),   *)
(* and its state intervals follow one another (HistoryUnbroken).           *)
(***************************************************************************)
EXTENDS Timeline, FiniteSetTheorems, SequenceTheorems, WellFoundedInduction, TLAPS

-----------------------------------------------------------------------------
\* Induction over the natural numbers: every set of them has a least one.

Preceding == OpToRel(<, Nat)

LEMMA Least ==
  ASSUME NEW T \in SUBSET Nat, T # {}
  PROVE  \E n \in T : \A k \in T : n <= k
<1>1. IsWellFoundedOn(Preceding, Nat)
  BY NatLessThanWellFounded DEF Preceding
<1>2. \A m, n \in Nat : m < n => <<m, n>> \in Preceding
  BY DEF Preceding, OpToRel
<1>3. PICK n \in T : \A k \in T : ~ (<<k, n>> \in Preceding)
  BY <1>1, WFMin
<1>4. ASSUME NEW k \in T PROVE n <= k
  <2>1. n \in Nat /\ k \in Nat
    OBVIOUS
  <2>2. ~ (k < n)
    BY <1>2, <1>3, <2>1
  <2> QED
    BY <2>1, <2>2
<1> QED
  BY <1>4

\* Min is the least of a set of natural numbers that is not empty.
LEMMA MinOfNat ==
  ASSUME NEW T \in SUBSET Nat, T # {}
  PROVE  Min(T) \in T /\ \A k \in T : Min(T) <= k
BY Least DEF Min

-----------------------------------------------------------------------------
\* The scheduler's heap: its tasks in the order they are popped, none of them
\* before the instant t.

Kinds == {"shift_start", "shift_end", "clock_in", "break_start", "break_end",
          "overtime", "clock_out", "production", "housekeeping"}

Subjects == [date : Int, index : Nat] \cup Nat \cup {None}

Tasks == [when : Nat, priority : Nat, kind : Kinds, of : Subjects]

Heaps(t) ==
  {h \in Seq(Tasks) : /\ \A i, j \in 1..Len(h) : i < j => ~ Before(h[j], h[i])
                      /\ \A i \in 1..Len(h) : t <= h[i].when}

\* Where a task is placed, and what the heap is then.
LEMMA Placed ==
  ASSUME NEW h \in Seq(Tasks), NEW u \in Tasks
  PROVE  \E k \in 1..(Len(h) + 1) :
           /\ \A i \in 1..Len(h) : i < k => ~ Before(u, h[i])
           /\ k <= Len(h) => Before(u, h[k])
           /\ At(h, u) = [i \in 1..(Len(h) + 1) |->
                            IF i < k THEN h[i] ELSE IF i = k THEN u ELSE h[i - 1]]
<1> DEFINE T == {i \in 1..Len(h) : Before(u, h[i])} \cup {Len(h) + 1}
           k == Min(T)
<1>1. T \in SUBSET Nat /\ T # {}
  OBVIOUS
<1>2. k \in T /\ \A i \in T : k <= i
  BY <1>1, MinOfNat
<1>3. k \in 1..(Len(h) + 1)
  BY <1>2
<1>4. \A i \in 1..Len(h) : i < k => ~ Before(u, h[i])
  BY <1>2, <1>3
<1>5. k <= Len(h) => Before(u, h[k])
  BY <1>2, <1>3
<1>6. At(h, u) = SubSeq(h, 1, k - 1) \o <<u>> \o SubSeq(h, k, Len(h))
  BY DEF At, InsertAt
<1> HIDE DEF k
<1>7. At(h, u) = [i \in 1..(Len(h) + 1) |->
                    IF i < k THEN h[i] ELSE IF i = k THEN u ELSE h[i - 1]]
  <2> DEFINE a == SubSeq(h, 1, k - 1)
             b == a \o <<u>>
             c == SubSeq(h, k, Len(h))
  <2>1. a \in Seq(Tasks) /\ Len(a) = k - 1 /\ \A i \in 1..(k - 1) : a[i] = h[i]
    BY <1>3
  <2>2. /\ b \in Seq(Tasks) /\ Len(b) = k
        /\ \A i \in 1..(k - 1) : b[i] = h[i]
        /\ b[k] = u
    <3> HIDE DEF a
    <3> QED
      BY <1>3, <2>1
  <2>3. /\ c \in Seq(Tasks) /\ Len(c) = Len(h) + 1 - k
        /\ \A i \in 1..(Len(h) + 1 - k) : c[i] = h[i + k - 1]
    BY <1>3
  <2>4. At(h, u) = b \o c
    BY <1>6
  <2> HIDE DEF a, b, c
  <2>5. /\ b \o c \in Seq(Tasks) /\ Len(b \o c) = Len(h) + 1
        /\ \A i \in 1..(Len(h) + 1) : (b \o c)[i] = IF i <= k THEN b[i] ELSE c[i - k]
    <3>1. Len(h) \in Nat
      OBVIOUS
    <3>2. /\ b \o c \in Seq(Tasks) /\ Len(b \o c) = Len(b) + Len(c)
          /\ \A i \in 1..(Len(b) + Len(c)) :
               (b \o c)[i] = IF i <= Len(b) THEN b[i] ELSE c[i - Len(b)]
      BY <2>2, <2>3, ConcatProperties
    <3>3. Len(b) + Len(c) = Len(h) + 1
      BY <1>3, <2>2, <2>3, <3>1
    <3> QED
      BY <2>2, <3>2, <3>3
  <2>6. \A i \in 1..(Len(h) + 1) :
          (b \o c)[i] = IF i < k THEN h[i] ELSE IF i = k THEN u ELSE h[i - 1]
    <3> SUFFICES ASSUME NEW i \in 1..(Len(h) + 1)
                 PROVE (b \o c)[i] = IF i < k THEN h[i] ELSE IF i = k THEN u ELSE h[i - 1]
      OBVIOUS
    <3>1. CASE i <= k
      BY <3>1, <2>5, <2>2, <1>3
    <3>2. CASE ~(i <= k)
      <4>1. i - k \in 1..(Len(h) + 1 - k)
        BY <3>2, <1>3
      <4>2. c[i - k] = h[(i - k) + k - 1]
        BY <4>1, <2>3
      <4>3. (i - k) + k - 1 = i - 1
        BY <1>3
      <4> QED
        BY <3>2, <4>2, <4>3, <2>5, <1>3
    <3> QED
      BY <3>1, <3>2
  <2>7. b \o c \in [1..(Len(h) + 1) -> Tasks]
    <3> HIDE DEF Tasks
    <3> QED
      BY <2>5, LenProperties
  <2>8. b \o c = [i \in 1..(Len(h) + 1) |-> (b \o c)[i]]
    <3> DEFINE g == b \o c
    <3>1. g \in [1..(Len(h) + 1) -> Tasks]
      BY <2>7
    <3> HIDE DEF g
    <3>2. g = [i \in 1..(Len(h) + 1) |-> g[i]]
      BY <3>1
    <3> QED
      BY <3>2 DEF g
  <2> QED
    BY <2>4, <2>6, <2>8
<1> QED
  BY <1>3, <1>4, <1>5, <1>7

\* at keeps the heap in order and adds the task to it.
LEMMA AtKeepsTheHeap ==
  ASSUME NEW t \in Nat, NEW h \in Heaps(t), NEW u \in Tasks, t <= u.when
  PROVE  /\ At(h, u) \in Heaps(t)
         /\ \A v : Contains(At(h, u), v) <=> v = u \/ Contains(h, v)
<1> DEFINE n == Len(h)
           g == At(h, u)
<1>1. /\ h \in Seq(Tasks) /\ n \in Nat /\ h \in [1..n -> Tasks]
      /\ \A i, j \in 1..n : i < j => ~ Before(h[j], h[i])
      /\ \A i \in 1..n : t <= h[i].when
  BY DEF Heaps
<1>2. PICK k \in 1..(n + 1) :
        /\ \A i \in 1..n : i < k => ~ Before(u, h[i])
        /\ k <= n => Before(u, h[k])
        /\ g = [i \in 1..(n + 1) |-> IF i < k THEN h[i] ELSE IF i = k THEN u ELSE h[i - 1]]
  BY <1>1, Placed
<1> HIDE DEF n, g
<1>3. \A i \in 1..(n + 1) : /\ i < k => i \in 1..n /\ g[i] = h[i]
                            /\ i = k => g[i] = u
                            /\ i > k => i - 1 \in 1..n /\ g[i] = h[i - 1]
  BY <1>1, <1>2
<1>4. g \in Seq(Tasks) /\ Len(g) = n + 1
  <2>1. g \in [1..(n + 1) -> Tasks]
    BY <1>1, <1>2
  <2> QED
    BY <2>1, <1>1
<1>5. \A i \in 1..(n + 1) : t <= g[i].when
  BY <1>1, <1>3
<1>6. \A a \in Tasks : a.when \in Nat /\ a.priority \in Nat
  BY DEF Tasks
<1>7. \A i \in 1..n : i >= k => Before(u, h[i])
  <2> SUFFICES ASSUME NEW i \in 1..n, i >= k PROVE Before(u, h[i])
    OBVIOUS
  <2>1. Before(u, h[k]) /\ k \in 1..n
    BY <1>1, <1>2
  <2>2. i = k \/ ~ Before(h[i], h[k])
    BY <1>1, <2>1
  <2>3. h[i] \in Tasks /\ h[k] \in Tasks
    BY <1>1, <2>1
  <2> QED
    BY <2>1, <2>2, <2>3, <1>6 DEF Before
<1>8. \A i, j \in 1..(n + 1) : i < j => ~ Before(g[j], g[i])
  <2> SUFFICES ASSUME NEW i \in 1..(n + 1), NEW j \in 1..(n + 1), i < j
               PROVE  ~ Before(g[j], g[i])
    OBVIOUS
  <2>1. CASE j < k
    BY <2>1, <1>1, <1>3
  <2>2. CASE j = k
    BY <2>2, <1>1, <1>2, <1>3
  <2>3. CASE j > k /\ i < k
    <3>1. /\ g[j] = h[j - 1] /\ j - 1 \in 1..n
          /\ g[i] = h[i] /\ i \in 1..n
          /\ i < j - 1
      BY <2>3, <1>3, <1>1
    <3> QED
      BY <3>1, <1>1
  <2>4. CASE j > k /\ i = k
    <3>1. g[j] = h[j - 1] /\ j - 1 \in 1..n /\ j - 1 >= k /\ g[i] = u
      BY <2>4, <1>3, <1>1
    <3>2. Before(u, h[j - 1]) /\ h[j - 1] \in Tasks
      BY <3>1, <1>1, <1>7
    <3> QED
      BY <3>1, <3>2, <1>6 DEF Before
  <2>5. CASE j > k /\ i > k
    <3>1. /\ g[j] = h[j - 1] /\ j - 1 \in 1..n
          /\ g[i] = h[i - 1] /\ i - 1 \in 1..n
          /\ i - 1 < j - 1
      BY <2>5, <1>3, <1>1
    <3> QED
      BY <3>1, <1>1
  <2> QED
    BY <2>1, <2>2, <2>3, <2>4, <2>5
<1>9. ASSUME NEW v PROVE Contains(g, v) <=> v = u \/ Contains(h, v)
  <2>1. ASSUME NEW i \in 1..n, h[i] = v PROVE \E j \in 1..(n + 1) : g[j] = v
    <3>1. CASE i < k
      BY <3>1, <2>1, <1>1, <1>3
    <3>2. CASE i >= k
      <4>1. i + 1 \in 1..(n + 1) /\ i + 1 > k /\ (i + 1) - 1 = i
        BY <3>2, <1>1
      <4>2. g[i + 1] = h[i]
        BY <4>1, <1>3
      <4> QED
        BY <4>1, <4>2, <2>1
    <3> QED
      BY <3>1, <3>2
  <2>2. ASSUME NEW i \in 1..(n + 1), g[i] = v PROVE v = u \/ \E j \in 1..n : h[j] = v
    BY <2>2, <1>1, <1>3
  <2>3. g[k] = u
    BY <1>3
  <2>4. Contains(g, v) <=> \E j \in 1..(n + 1) : g[j] = v
    BY <1>4 DEF Contains
  <2>5. Contains(h, v) <=> \E j \in 1..n : h[j] = v
    BY DEF Contains, n
  <2> QED
    BY <2>1, <2>2, <2>3, <2>4, <2>5
<1>10. g \in Heaps(t)
  BY <1>4, <1>5, <1>8 DEF Heaps
<1> QED
  BY <1>9, <1>10 DEF g

\* AtEach does what its calls of at do one after the other.
LEMMA AtEachKeepsTheHeap ==
  ASSUME NEW t \in Nat, NEW h \in Heaps(t), NEW tasks \in Seq(Tasks),
         \A i \in 1..Len(tasks) : t <= tasks[i].when
  PROVE  /\ AtEach(h, tasks) \in Heaps(t)
         /\ \A v : Contains(AtEach(h, tasks), v) <=> Contains(h, v) \/ Contains(tasks, v)
<1> DEFINE n == Len(tasks)
           Places(m, f) ==
             f = [i \in 0..m |-> IF i = 0 THEN h ELSE At(f[i - 1], tasks[i])]
           placed == CHOOSE f : Places(n, f)
           Unplaced == {m \in 0..n : ~ \E f : Places(m, f)}
           Reached(m) ==
             /\ placed[m] \in Heaps(t)
             /\ \A v : Contains(placed[m], v)
                         <=> Contains(h, v) \/ \E i \in 1..m : tasks[i] = v
           Failed == {m \in 0..n : ~ Reached(m)}
<1>1. AtEach(h, tasks) = placed[n]
  BY DEF AtEach
<1>2. n \in Nat /\ \A i \in 1..n : tasks[i] \in Tasks
  OBVIOUS
<1> HIDE DEF n
<1>3. Unplaced = {}
  <2>1. SUFFICES ASSUME Unplaced # {} PROVE FALSE
    OBVIOUS
  <2>2. PICK m \in Unplaced : \A k \in Unplaced : m <= k
    <3>1. Unplaced \in SUBSET Nat
      BY <1>2
    <3> HIDE DEF Unplaced
    <3> QED
      BY <2>1, <3>1, Least
  <2>3. m \in Nat /\ m \in 0..n
    BY <1>2, <2>2
  <2>4. m # 0
    <3> DEFINE f == [i \in 0..0 |-> h]
    <3>1. Places(0, f)
      OBVIOUS
    <3> QED
      BY <2>2, <3>1
  <2>5. m - 1 \in 0..n /\ m - 1 \notin Unplaced
    BY <1>2, <2>2, <2>3, <2>4
  <2>6. PICK f : Places(m - 1, f)
    BY <2>5
  <2> DEFINE g == [i \in 0..m |-> IF i = m THEN At(f[m - 1], tasks[m]) ELSE f[i]]
  <2>7. ASSUME NEW i \in 0..m
        PROVE  g[i] = IF i = 0 THEN h ELSE At(g[i - 1], tasks[i])
    <3>1. CASE i = m
      BY <3>1, <2>3, <2>4
    <3>2. CASE i # m
      <4>1. i \in 0..(m - 1) /\ g[i] = f[i]
        BY <3>2, <2>3
      <4>2. i # 0 => i - 1 \in 0..(m - 1) /\ i - 1 \in 0..m /\ g[i - 1] = f[i - 1]
        BY <4>1, <2>3
      <4>3. f[i] = IF i = 0 THEN h ELSE At(f[i - 1], tasks[i])
        BY <2>6, <4>1
      <4> QED
        BY <4>1, <4>2, <4>3
    <3> QED
      BY <3>1, <3>2
  <2>8. Places(m, g)
    BY <2>7
  <2> QED
    BY <2>2, <2>8
<1>4. Places(n, placed)
  <2>1. n \in 0..n
    BY <1>2
  <2>2. \E f : Places(n, f)
    BY <1>3, <2>1
  <2> HIDE DEF Places
  <2> QED
    BY <2>2
<1>5. placed[0] = h /\ \A i \in 1..n : placed[i] = At(placed[i - 1], tasks[i])
  <2> HIDE DEF placed
  <2>1. \A i \in 0..n : placed[i] = IF i = 0 THEN h ELSE At(placed[i - 1], tasks[i])
    BY <1>4
  <2> QED
    BY <1>2, <2>1
<1> HIDE DEF placed
<1>6. Failed = {}
  <2>1. SUFFICES ASSUME Failed # {} PROVE FALSE
    OBVIOUS
  <2>2. PICK m \in Failed : \A k \in Failed : m <= k
    <3>1. Failed \in SUBSET Nat
      BY <1>2
    <3> HIDE DEF Failed
    <3> QED
      BY <2>1, <3>1, Least
  <2>3. m \in Nat /\ m \in 0..n /\ ~ Reached(m)
    BY <1>2, <2>2
  <2>4. Reached(0)
    BY <1>5
  <2>5. m \in 1..n /\ m - 1 \in 0..n /\ m - 1 \notin Failed
    <3>1. m # 0
      BY <2>3, <2>4
    <3>2. m \in 1..n /\ m - 1 \in 0..n /\ ~ (m <= m - 1)
      BY <1>2, <2>3, <3>1
    <3> HIDE DEF Failed
    <3> QED
      BY <2>2, <3>2
  <2>6. Reached(m - 1)
    BY <2>5
  <2>7. tasks[m] \in Tasks /\ t <= tasks[m].when
    BY <1>2, <2>5 DEF n
  <2>8. /\ placed[m] \in Heaps(t)
        /\ \A v : Contains(placed[m], v) <=> v = tasks[m] \/ Contains(placed[m - 1], v)
    BY <1>5, <2>5, <2>6, <2>7, AtKeepsTheHeap
  <2>9. \A v : (\E i \in 1..m : tasks[i] = v)
                 <=> v = tasks[m] \/ \E i \in 1..(m - 1) : tasks[i] = v
    BY <1>2, <2>5
  <2>10. Reached(m)
    BY <2>6, <2>8, <2>9
  <2> QED
    BY <2>3, <2>10
<1>7. Reached(n)
  <2>1. n \in 0..n
    BY <1>2
  <2> HIDE DEF Reached
  <2> QED
    BY <1>6, <2>1
<1> QED
  BY <1>1, <1>7 DEF Contains, n

\* The first task of the heap is due first, and what is left is due no earlier.
LEMMA PopKeepsTheHeap ==
  ASSUME NEW t \in Nat, NEW h \in Heaps(t), h # <<>>
  PROVE  /\ Head(h) \in Tasks /\ t <= Head(h).when
         /\ Tail(h) \in Heaps(Head(h).when)
         /\ \A v : Contains(h, v) <=> v = Head(h) \/ Contains(Tail(h), v)
<1> DEFINE n == Len(h)
           g == Tail(h)
<1>1. /\ h \in Seq(Tasks) /\ n \in Nat /\ 1 \in 1..n /\ Head(h) = h[1]
      /\ \A i, j \in 1..n : i < j => ~ Before(h[j], h[i])
      /\ \A i \in 1..n : t <= h[i].when /\ h[i] \in Tasks
  BY DEF Heaps
<1>2. /\ g \in Seq(Tasks) /\ Len(g) = n - 1
      /\ \A i \in 1..(n - 1) : g[i] = h[i + 1]
  BY <1>1
<1>3. \A i \in 1..(n - 1) : i + 1 \in 1..n /\ 1 < i + 1
  BY <1>1
<1> HIDE DEF n, g
<1>4. \A a \in Tasks : a.when \in Nat /\ a.priority \in Nat
  BY DEF Tasks
<1>5. ASSUME NEW i \in 1..(n - 1) PROVE Head(h).when <= g[i].when
  <2>1. /\ g[i] = h[i + 1] /\ h[i + 1] \in Tasks /\ h[1] \in Tasks /\ Head(h) = h[1]
        /\ ~ Before(h[i + 1], h[1])
    BY <1>1, <1>2, <1>3
  <2>2. h[i + 1].when \in Nat /\ h[1].when \in Nat
    BY <2>1, <1>4
  <2> QED
    BY <2>1, <2>2 DEF Before
<1>6. \A i, j \in 1..(n - 1) : i < j => ~ Before(g[j], g[i])
  BY <1>1, <1>2, <1>3
<1>7. g \in Heaps(Head(h).when)
  BY <1>2, <1>5, <1>6 DEF Heaps
<1>8. ASSUME NEW v PROVE Contains(h, v) <=> v = Head(h) \/ Contains(g, v)
  <2>1. Contains(h, v) <=> \E i \in 1..n : h[i] = v
    BY DEF Contains, n
  <2>2. Contains(g, v) <=> \E i \in 1..(n - 1) : h[i + 1] = v
    BY <1>2 DEF Contains
  <2>3. ASSUME NEW i \in 1..n, h[i] = v PROVE v = h[1] \/ \E j \in 1..(n - 1) : h[j + 1] = v
    <3>1. CASE i = 1
      BY <3>1, <2>3
    <3>2. CASE i # 1
      <4>1. i - 1 \in 1..(n - 1) /\ (i - 1) + 1 = i
        BY <3>2, <1>1
      <4> QED
        BY <4>1, <2>3
    <3> QED
      BY <3>1, <3>2
  <2> QED
    BY <1>1, <1>3, <2>1, <2>2, <2>3
<1> QED
  BY <1>1, <1>7, <1>8 DEF g

\* Ascending lists a finite set of natural numbers.
LEMMA AscendingLists ==
  ASSUME NEW S \in SUBSET Nat, IsFiniteSet(S)
  PROVE  Ascending(S) \in [1..Cardinality(S) -> S]
<1> DEFINE Lists(f, T) ==
             /\ f \in [1..Cardinality(T) -> T]
             /\ \A i, j \in DOMAIN f : i < j => f[i] < f[j]
           Unlisted == {T \in SUBSET S : ~ \E f : Lists(f, T)}
           Sizes == {Cardinality(T) : T \in Unlisted}
<1>1. \A T \in SUBSET S : IsFiniteSet(T) /\ Cardinality(T) \in Nat
  BY FS_Subset, FS_CardinalityType
<1>2. Unlisted = {}
  <2>1. SUFFICES ASSUME Unlisted # {} PROVE FALSE
    OBVIOUS
  <2>2. Sizes \in SUBSET Nat /\ Sizes # {}
    BY <1>1, <2>1
  <2>3. PICK T \in Unlisted : \A U \in Unlisted : Cardinality(T) <= Cardinality(U)
    <3>1. PICK c \in Sizes : \A d \in Sizes : c <= d
      <4> HIDE DEF Sizes
      <4> QED
        BY <2>2, Least
    <3> QED
      BY <3>1
  <2> DEFINE n == Cardinality(T)
  <2>4. T \in SUBSET S /\ T \in SUBSET Nat /\ IsFiniteSet(T) /\ n \in Nat
    BY <1>1, <2>3
  <2>5. T # {}
    <3>1. Lists(<<>>, {})
      BY FS_EmptySet
    <3> QED
      BY <2>3, <3>1
  <2>6. PICK a \in T : \A b \in T : a <= b
    BY <2>4, <2>5, Least
  <2> DEFINE U == T \ {a}
  <2>7. Cardinality(U) = n - 1 /\ U \in SUBSET S
    BY <2>4, <2>6, FS_RemoveElement
  <2>8. U \notin Unlisted
    <3>1. ~ (n <= n - 1)
      BY <2>4
    <3> HIDE DEF Unlisted
    <3> QED
      BY <2>3, <2>7, <3>1
  <2>9. PICK f : Lists(f, U)
    BY <2>7, <2>8
  <2>10. n # 0
    BY <2>4, <2>5, FS_EmptySet
  <2> DEFINE g == [i \in 1..n |-> IF i = 1 THEN a ELSE f[i - 1]]
  <2>11. f \in [1..(n - 1) -> U] /\ \A i, j \in 1..(n - 1) : i < j => f[i] < f[j]
    BY <2>7, <2>9
  <2>12. \A i \in 1..n : i # 1 => i - 1 \in 1..(n - 1) /\ g[i] = f[i - 1] /\ g[i] \in U
    <3> HIDE DEF U
    <3> QED
      BY <2>4, <2>11
  <2>13. g \in [1..n -> T]
    BY <2>12
  <2>14. ASSUME NEW i \in 1..n, NEW j \in 1..n, i < j PROVE g[i] < g[j]
    <3>1. j # 1 /\ j - 1 \in 1..(n - 1) /\ g[j] = f[j - 1] /\ g[j] \in U
      BY <2>4, <2>12, <2>14
    <3>2. CASE i = 1
      <4>1. g[i] = a
        BY <3>2
      <4>2. g[j] \in T /\ g[j] # a
        BY <3>1
      <4>3. g[j] \in Nat /\ a \in Nat /\ a <= g[j]
        BY <4>2, <2>4, <2>6
      <4> HIDE DEF g
      <4> QED
        BY <4>1, <4>2, <4>3
    <3>3. CASE i # 1
      BY <3>1, <3>3, <2>4, <2>11, <2>12, <2>14
    <3> QED
      BY <3>2, <3>3
  <2>15. Lists(g, T)
    BY <2>13, <2>14
  <2> QED
    BY <2>3, <2>15
<1>3. \E f : Lists(f, S)
  BY <1>2
<1> QED
  BY <1>3 DEF Ascending

-----------------------------------------------------------------------------
\* The calendar.

Dated(p) == [date : Int, index : DOMAIN p]

StartOf(p, c) == ShiftStart(c.date, p[c.index])

\* An instant lies within its date.
LEMMA WithinItsDate ==
  ASSUME NEW t \in Int
  PROVE  /\ DateOf(t) \in Int
         /\ DateOf(t) * Day <= t /\ t < (DateOf(t) + 1) * Day
BY DayAssumption DEF DateOf

\* A later date begins at least a day later.
LEMMA LaterDate ==
  ASSUME NEW a \in Int, NEW b \in Int, a < b
  PROVE  a * Day \in Int /\ b * Day \in Int /\ a * Day + Day <= b * Day
<1>1. Day \in Int /\ Day > 0
  BY DayAssumption
<1>2. a * Day \in Int /\ b * Day \in Int
  BY <1>1
<1>3. b - a - 1 \in Nat
  OBVIOUS
<1>4. (b - a - 1) * Day >= 0
  BY <1>1, <1>3
<1>5. (b - a - 1) * Day = b * Day - a * Day - Day
  BY <1>1
<1> QED
  BY <1>1, <1>2, <1>4, <1>5

\* A dated shift starts within its date and ends after it has started.
LEMMA StartsAndEnds ==
  ASSUME NEW date \in Int, NEW spec \in ShiftSpec
  PROVE  /\ ShiftStart(date, spec) \in Int /\ ShiftEnd(date, spec) \in Int
         /\ date * Day <= ShiftStart(date, spec)
         /\ ShiftStart(date, spec) < (date + 1) * Day
         /\ ShiftStart(date, spec) < ShiftEnd(date, spec)
<1>1. Day \in Int /\ Day > 0
  BY DayAssumption
<1>2. /\ spec.start \in Int /\ 0 <= spec.start /\ spec.start < Day
      /\ spec.end \in Int /\ 0 <= spec.end /\ spec.end < Day
  BY <1>1 DEF ShiftSpec, TimeOfDay
<1>3. date * Day \in Int /\ (date + 1) * Day = date * Day + Day
  BY <1>1
<1> QED
  BY <1>1, <1>2, <1>3 DEF ShiftStart, ShiftEnd, CrossesMidnight

\* Where no two shifts start together, an instant starts at most one dated shift.
LEMMA OneAtATime ==
  ASSUME NEW p \in Patterns, NEW c \in Dated(p), NEW d \in Dated(p),
         StartOf(p, c) = StartOf(p, d)
  PROVE  c = d
<1>1. /\ c.date \in Int /\ d.date \in Int /\ c.index \in DOMAIN p /\ d.index \in DOMAIN p
      /\ p[c.index] \in ShiftSpec /\ p[d.index] \in ShiftSpec
  BY TimelineAssumption DEF Dated
<1>2. /\ c.date * Day <= StartOf(p, c) /\ StartOf(p, c) < (c.date + 1) * Day
      /\ d.date * Day <= StartOf(p, d) /\ StartOf(p, d) < (d.date + 1) * Day
      /\ StartOf(p, c) \in Int /\ StartOf(p, d) \in Int
  BY <1>1, StartsAndEnds DEF StartOf
<1>3. Day \in Int /\ Day > 0
  BY DayAssumption
<1>4. /\ c.date * Day \in Int /\ (c.date + 1) * Day = c.date * Day + Day
      /\ d.date * Day \in Int /\ (d.date + 1) * Day = d.date * Day + Day
  BY <1>1, <1>3
<1>5. ~ (c.date < d.date)
  BY <1>1, <1>2, <1>3, <1>4, LaterDate
<1>6. ~ (d.date < c.date)
  BY <1>1, <1>2, <1>3, <1>4, LaterDate
<1>7. c.date = d.date
  BY <1>1, <1>5, <1>6
<1>8. p[c.index].start \in Int /\ p[d.index].start \in Int
  BY <1>1, <1>3 DEF ShiftSpec, TimeOfDay
<1>9. p[c.index].start = p[d.index].start
  <2>1. c.date * Day + p[c.index].start = d.date * Day + p[d.index].start
    BY DEF StartOf, ShiftStart
  <2>2. c.date * Day = d.date * Day
    BY <1>7
  <2>3. \A x, y, z \in Int : x + y = x + z => y = z
    OBVIOUS
  <2>4. c.date * Day + p[c.index].start = c.date * Day + p[d.index].start
    BY <2>1, <2>2
  <2> QED
    BY <2>3, <2>4, <1>4, <1>8, Zenon
<1>10. c.index = d.index
  BY <1>1, <1>9, DistinctStarts
<1> QED
  BY <1>7, <1>10 DEF Dated

\* The search for the next start finds the first of all of them.
LEMMA FirstStart ==
  ASSUME NEW p \in Patterns, NEW t \in Nat
  PROVE  /\ FirstStartFrom(p, t) \in Dated(p)
         /\ t <= StartOf(p, FirstStartFrom(p, t))
         /\ \A c \in Dated(p) : t <= StartOf(p, c) =>
               StartOf(p, FirstStartFrom(p, t)) <= StartOf(p, c)
<1> DEFINE D == DateOf(t)
           S == StartsFrom(p, t)
           Starting == {StartOf(p, c) : c \in S}
<1>1. D \in Int /\ D * Day <= t /\ t < (D + 1) * Day
  BY WithinItsDate
<1>2. Day \in Int /\ Day > 0
  BY DayAssumption
<1>3. /\ p \in Seq(ShiftSpec) /\ p # <<>> /\ 1 \in DOMAIN p
      /\ DOMAIN p \in SUBSET Nat /\ \A i \in DOMAIN p : p[i] \in ShiftSpec
  BY TimelineAssumption
<1>4. \A c \in Dated(p) : /\ StartOf(p, c) \in Int
                          /\ c.date * Day <= StartOf(p, c)
                          /\ StartOf(p, c) < (c.date + 1) * Day
  BY <1>3, StartsAndEnds DEF Dated, StartOf
<1>5. S = {c \in Dated(p) : c.date \in (D - 1)..(D + 1) /\ t <= StartOf(p, c)}
  BY <1>1 DEF StartsFrom, Dated, StartOf
<1> HIDE DEF S, D
<1>6. \A i \in DOMAIN p : [date |-> D + 1, index |-> i] \in S
  <2> SUFFICES ASSUME NEW i \in DOMAIN p PROVE [date |-> D + 1, index |-> i] \in S
    OBVIOUS
  <2>1. [date |-> D + 1, index |-> i] \in Dated(p)
    BY <1>1 DEF Dated
  <2>2. (D + 1) * Day <= StartOf(p, [date |-> D + 1, index |-> i])
    BY <2>1, <1>4
  <2>3. StartOf(p, [date |-> D + 1, index |-> i]) \in Int /\ (D + 1) * Day \in Int
    BY <2>1, <1>1, <1>2, <1>4
  <2>4. t <= StartOf(p, [date |-> D + 1, index |-> i])
    BY <1>1, <2>2, <2>3
  <2>5. D + 1 \in (D - 1)..(D + 1)
    BY <1>1
  <2> QED
    BY <1>5, <2>1, <2>4, <2>5
<1>7. PICK a \in S : \A c \in S : StartOf(p, a) <= StartOf(p, c)
  <2>1. Starting \in SUBSET Nat
    <3>1. \A c \in S : StartOf(p, c) \in Nat
      BY <1>4, <1>5
    <3> QED
      BY <3>1
  <2>2. Starting # {}
    BY <1>3, <1>6
  <2>3. PICK s \in Starting : \A r \in Starting : s <= r
    <3> HIDE DEF Starting
    <3> QED
      BY <2>1, <2>2, Least
  <2> QED
    BY <2>3
<1>8. PICK f \in S : \A d \in S : \/ StartOf(p, f) < StartOf(p, d)
                                  \/ StartOf(p, f) = StartOf(p, d) /\ f.index <= d.index
  <2> DEFINE Together == {c.index : c \in {d \in S : StartOf(p, d) = StartOf(p, a)}}
  <2>1. Together \in SUBSET Nat /\ Together # {}
    BY <1>3, <1>5, <1>7 DEF Dated
  <2>2. PICK i \in Together : \A j \in Together : i <= j
    <3> HIDE DEF Together
    <3> QED
      BY <2>1, Least
  <2>3. PICK c \in S : StartOf(p, c) = StartOf(p, a) /\ c.index = i
    BY <2>2
  <2>4. ASSUME NEW d \in S
        PROVE  \/ StartOf(p, c) < StartOf(p, d)
               \/ StartOf(p, c) = StartOf(p, d) /\ c.index <= d.index
    <3>1. StartOf(p, d) = StartOf(p, a) => c.index <= d.index
      BY <2>2, <2>3
    <3>2. StartOf(p, c) \in Int /\ StartOf(p, d) \in Int /\ StartOf(p, a) \in Int
      BY <1>4, <1>5, <1>7
    <3>3. StartOf(p, a) <= StartOf(p, d)
      BY <1>7
    <3> QED
      BY <2>3, <3>1, <3>2, <3>3
  <2> QED
    BY <2>4
<1> DEFINE first == FirstStartFrom(p, t)
<1>9. /\ first \in S
      /\ \A d \in S : \/ StartOf(p, first) < StartOf(p, d)
                      \/ StartOf(p, first) = StartOf(p, d) /\ first.index <= d.index
  BY <1>8 DEF FirstStartFrom, StartOf, S
<1> HIDE DEF first
<1>10. first \in Dated(p) /\ t <= StartOf(p, first)
  BY <1>5, <1>9
<1>11. ASSUME NEW c \in Dated(p), t <= StartOf(p, c)
       PROVE  StartOf(p, first) <= StartOf(p, c)
  <2>1. c.date \in Int /\ c.index \in DOMAIN p
    BY DEF Dated
  <2>2. StartOf(p, c) \in Int /\ StartOf(p, first) \in Int
    BY <1>4, <1>10
  <2>3. CASE c \in S
    BY <2>3, <2>2, <1>9
  <2>4. CASE c \notin S
    <3>1. c.date < D - 1 \/ D + 1 < c.date
      BY <2>1, <2>4, <1>1, <1>5, <1>11
    <3>2. ~ (c.date < D - 1)
      <4>1. ASSUME c.date < D - 1 PROVE FALSE
        <5>1. c.date + 1 < D
          BY <4>1, <2>1, <1>1
        <5>2. (c.date + 1) * Day + Day <= D * Day /\ (c.date + 1) * Day \in Int /\ D * Day \in Int
          BY <5>1, <2>1, <1>1, LaterDate
        <5> QED
          BY <5>2, <1>1, <1>2, <1>4, <1>11, <2>2
      <4> QED
        BY <4>1
    <3>3. D + 1 < c.date
      BY <3>1, <3>2
    <3>4. (D + 1) * Day + Day <= c.date * Day /\ (D + 1) * Day \in Int /\ c.date * Day \in Int
      BY <3>3, <2>1, <1>1, LaterDate
    <3> DEFINE d == [date |-> D + 1, index |-> c.index]
    <3>5. d \in S /\ d \in Dated(p) /\ d.date = D + 1
      BY <2>1, <1>5, <1>6
    <3>6. StartOf(p, d) < (D + 1 + 1) * Day /\ StartOf(p, d) \in Int
      BY <3>5, <1>4
    <3>7. (D + 1 + 1) * Day = (D + 1) * Day + Day
      BY <1>1, <1>2
    <3>8. StartOf(p, first) <= StartOf(p, d)
      BY <3>5, <3>6, <2>2, <1>9
    <3>9. c.date * Day <= StartOf(p, c)
      BY <1>4
    <3> HIDE DEF d
    <3> QED
      BY <3>4, <3>6, <3>7, <3>8, <3>9, <2>2, <1>2
  <2> QED
    BY <2>3, <2>4
<1> QED
  BY <1>10, <1>11 DEF first

\* The shift a run opens with covers the instant it starts at.
LEMMA ShiftForCovers ==
  ASSUME NEW p \in Patterns, NEW t \in Int, Covering(p, t) # {}
  PROVE  /\ ShiftFor(p, t) \in Dated(p)
         /\ t < ShiftEnd(ShiftFor(p, t).date, p[ShiftFor(p, t).index])
<1> DEFINE D == DateOf(t)
           C == Covering(p, t)
           Indexes(d) == {i \in DOMAIN p : [date |-> d, index |-> i] \in C}
<1>1. D \in Int
  BY WithinItsDate
<1>2. DOMAIN p \in SUBSET Nat
  BY TimelineAssumption
<1>3. C = {c \in [date : {D, D - 1}, index : DOMAIN p] : Covers(c.date, p[c.index], t)}
  BY DEF Covering
<1> HIDE DEF D, C
<1>4. PICK d \in {D, D - 1} : Indexes(d) # {} /\ (d = D - 1 => Indexes(D) = {})
  <2>1. PICK c \in C : TRUE
    BY DEF C
  <2>2. /\ c.date \in {D, D - 1} /\ c.index \in DOMAIN p
        /\ c = [date |-> c.date, index |-> c.index]
    BY <1>3
  <2>3. Indexes(c.date) # {}
    BY <2>1, <2>2
  <2> QED
    BY <1>1, <2>2, <2>3
<1>5. PICK i \in Indexes(d) : \A j \in Indexes(d) : i <= j
  <2>1. Indexes(d) \in SUBSET Nat /\ Indexes(d) # {}
    BY <1>2, <1>4
  <2> HIDE DEF Indexes
  <2> QED
    BY <2>1, Least
<1> DEFINE c == [date |-> d, index |-> i]
<1>6. c \in C /\ \A e \in C : Sooner(c, e)
  <2>1. c \in C
    BY <1>5
  <2>2. ASSUME NEW e \in C PROVE Sooner(c, e)
    <3>1. /\ e.date \in {D, D - 1} /\ e.index \in DOMAIN p
          /\ e = [date |-> e.date, index |-> e.index]
      BY <1>3
    <3>2. e.index \in Indexes(e.date)
      BY <3>1
    <3>3. d \in Int /\ e.date \in Int /\ (d = e.date \/ d > e.date)
      BY <1>1, <1>4, <3>1, <3>2
    <3>4. d = e.date => i <= e.index
      BY <1>5, <3>2
    <3> QED
      BY <3>3, <3>4 DEF Sooner
  <2> QED
    BY <2>1, <2>2
<1>7. ShiftFor(p, t) \in C
  BY <1>6 DEF ShiftFor, C
<1>8. \A e \in C : e \in Dated(p) /\ t < ShiftEnd(e.date, p[e.index])
  BY <1>1, <1>3 DEF Dated, Covers
<1> QED
  BY <1>7, <1>8

-----------------------------------------------------------------------------
\* What the opening of a shift places in the heap.

\* Tasks that are due at t or later and open no shift.
Quiet(t) == {u \in Tasks : t <= u.when /\ u.kind # "shift_start"}

\* The breaks still ahead are announced at their starts and after them.
LEMMA BreaksAreAhead ==
  ASSUME NEW date \in Int, NEW spec \in ShiftSpec, NEW t \in Nat, NEW id \in Nat
  PROVE  BreakTasks(date, spec, t, id) \in Seq(Quiet(t))
<1> DEFINE ahead  == {b \in BreakStarts(date, spec) : t < b}
           starts == Ascending(ahead)
           n      == Cardinality(ahead)
<1>1. ShiftEnd(date, spec) \in Int
  BY StartsAndEnds
<1>2. \A b \in BreakStarts(date, spec) : b \in Int /\ b < ShiftEnd(date, spec)
  <2>1. Day \in Int
    BY DayAssumption
  <2>2. \A b \in spec.breaks : b \in Int
    BY <2>1 DEF ShiftSpec, TimeOfDay
  <2> QED
    BY <2>1, <2>2 DEF BreakStarts
<1>3. ahead \in SUBSET Nat /\ IsFiniteSet(ahead)
  <2>1. ahead \in SUBSET Nat /\ \A b \in ahead : b <= ShiftEnd(date, spec)
    BY <1>1, <1>2
  <2>2. CASE ahead = {}
    BY <2>2, FS_EmptySet
  <2>3. CASE ahead # {}
    <3>1. ShiftEnd(date, spec) \in Nat
      BY <2>1, <2>3, <1>1
    <3> HIDE DEF ahead
    <3> QED
      BY <2>1, <3>1, FS_BoundedSetOfNaturals
  <2> QED
    BY <2>1, <2>2, <2>3
<1>4. starts \in [1..n -> ahead] /\ n \in Nat
  <2> HIDE DEF ahead
  <2> QED
    BY <1>3, AscendingLists, FS_CardinalityType
<1>5. \A b \in ahead : b \in Nat /\ t <= b
  BY <1>3
<1> HIDE DEF ahead, starts, n
<1>6. ASSUME NEW b \in ahead
      PROVE  /\ Task(b, EMPLOYEE, "break_start", id) \in Quiet(t)
             /\ Task(b + 1, EMPLOYEE, "break_end", id) \in Quiet(t)
  BY <1>5 DEF Task, EMPLOYEE, Quiet, Tasks, Kinds, Subjects
<1>7. \A i \in 1..(2 * n) : /\ i % 2 = 1 => (i + 1) \div 2 \in 1..n
                            /\ i % 2 # 1 => i \div 2 \in 1..n
  BY <1>4
<1>8. BreakTasks(date, spec, t, id) =
        [i \in 1..(2 * n) |->
           IF i % 2 = 1 THEN Task(starts[(i + 1) \div 2], EMPLOYEE, "break_start", id)
                        ELSE Task(starts[i \div 2] + 1, EMPLOYEE, "break_end", id)]
  BY DEF BreakTasks, ahead, starts, n
<1>9. \A i \in 1..(2 * n) :
        /\ i % 2 = 1 => starts[(i + 1) \div 2] \in ahead
        /\ i % 2 # 1 => starts[i \div 2] \in ahead
  BY <1>4, <1>7
<1>10. BreakTasks(date, spec, t, id) \in [1..(2 * n) -> Quiet(t)]
  BY <1>6, <1>8, <1>9
<1>11. 2 * n \in Nat
  BY <1>4
<1> QED
  BY <1>10, <1>11, SeqDef

\* Everything announced for the people of a shift is announced at its opening
\* or later.
LEMMA PeopleAreAhead ==
  ASSUME NEW date \in Int, NEW spec \in ShiftSpec, NEW t \in Nat, NEW id \in Nat,
         t < ShiftEnd(date, spec), NEW jitter \in Int, NEW overtime \in Nat
  PROVE  PeopleTasks(date, spec, t, id, jitter, overtime) \in Seq(Quiet(t))
<1> DEFINE in     == Task(ClockIn(ShiftStart(date, spec), jitter, t), EMPLOYEE, "clock_in", id)
           over   == Task(ShiftEnd(date, spec), EMPLOYEE, "overtime", id)
           out    == Task(ShiftEnd(date, spec) + overtime, EMPLOYEE, "clock_out", id)
           worked == IF overtime = 0 THEN <<>> ELSE <<over>>
           breaks == BreakTasks(date, spec, t, id)
<1>1. ShiftStart(date, spec) \in Int /\ ShiftEnd(date, spec) \in Int
  BY StartsAndEnds
<1>2. in \in Quiet(t)
  BY <1>1 DEF ClockIn, Task, EMPLOYEE, Quiet, Tasks, Kinds, Subjects
<1>3. over \in Quiet(t)
  BY <1>1 DEF Task, EMPLOYEE, Quiet, Tasks, Kinds, Subjects
<1>4. out \in Quiet(t)
  BY <1>1 DEF Task, EMPLOYEE, Quiet, Tasks, Kinds, Subjects
<1>5. breaks \in Seq(Quiet(t))
  BY BreaksAreAhead
<1>6. PeopleTasks(date, spec, t, id, jitter, overtime) = <<in>> \o breaks \o worked \o <<out>>
  BY DEF PeopleTasks
<1> HIDE DEF in, over, out, breaks
<1>7. <<in>> \in Seq(Quiet(t)) /\ <<out>> \in Seq(Quiet(t)) /\ worked \in Seq(Quiet(t))
  BY <1>2, <1>3, <1>4
<1> HIDE DEF worked
<1>8. <<in>> \o breaks \in Seq(Quiet(t))
  BY <1>5, <1>7, ConcatProperties
<1>9. <<in>> \o breaks \o worked \in Seq(Quiet(t))
  BY <1>7, <1>8, ConcatProperties
<1> QED
  BY <1>6, <1>7, <1>9, ConcatProperties

-----------------------------------------------------------------------------
\* The invariant of the schedule.

Phases == {"new", "forward", "live", "ended", "finished"}

\* Up to when the chain of shifts has been followed: to the opening of the
\* shift begun last.
Followed == IF shifts = <<>> THEN request.start ELSE shifts[Len(shifts)].begun

\* The next shift of the chain, and the task that opens it.
NextShift(t) == FirstStartFrom(pattern, t + 1)
NextStart(t) == StartOf(pattern, NextShift(t))
Opening(t) == Task(NextStart(t), SHIFT, "shift_start", NextShift(t))

Instances == [date : Int, index : Nat, begun : Nat, present : BOOLEAN]

TimeTypes ==
  /\ pattern \in Patterns
  /\ request \in [start : Starts, horizon : Horizons \cup {None}, live : BOOLEAN]
  /\ phase \in Phases
  /\ now \in Nat /\ due \in Nat
  /\ shifts \in Seq(Instances)

\* The heap holds nothing of the past.
HeapIsAhead == heap \in Heaps(now)

\* Every opening that is booked is that of a dated shift, at its start.
OpeningsAreShifts ==
  \A i \in 1..Len(heap) : heap[i].kind = "shift_start" =>
    heap[i].of \in Dated(pattern) /\ heap[i].when = StartOf(pattern, heap[i].of)

\* How the clock and the heap stand to each other in each part of the run.
PhaseIsKept ==
  /\ phase = "new" => /\ heap = <<>> /\ shifts = <<>>
                      /\ now = request.start /\ horizon = None
  /\ horizon # None => horizon = request.horizon
  /\ phase = "forward" => request.horizon # None /\ due = request.horizon
  /\ phase # "new" => now <= due \/ now = request.start
  /\ phase \in {"ended", "finished"} => Drained

\* A shift the chain must open: it starts after the run does, and not after
\* the end of its fast-forward.
Awaited(c) ==
  /\ request.start < StartOf(pattern, c)
  /\ request.horizon # None => StartOf(pattern, c) <= request.horizon

\* What has been followed of the chain has been opened, and the next opening is
\* booked, unless it is past the end of the fast-forward.
ChainIsKept ==
  /\ Followed \in Nat
  /\ \A c \in Dated(pattern) :
       Awaited(c) /\ StartOf(pattern, c) <= Followed => Opened(c)
  /\ phase # "new" =>
       \/ Contains(heap, Opening(Followed))
       \/ request.horizon # None /\ request.horizon < NextStart(Followed)

ScheduleInv ==
  TimeTypes /\ HeapIsAhead /\ OpeningsAreShifts /\ PhaseIsKept /\ ChainIsKept

\* The next shift of the chain starts later, and is the first that does.
LEMMA NextShiftIsFirst ==
  ASSUME TimeTypes, NEW t \in Nat
  PROVE  /\ NextShift(t) \in Dated(pattern)
         /\ NextStart(t) \in Nat /\ t < NextStart(t)
         /\ \A c \in Dated(pattern) : t < StartOf(pattern, c) =>
               NextStart(t) <= StartOf(pattern, c)
         /\ Opening(t) \in Tasks /\ Opening(t).when = NextStart(t)
         /\ Opening(t).kind = "shift_start" /\ Opening(t).of = NextShift(t)
<1>1. pattern \in Patterns /\ t + 1 \in Nat
  BY DEF TimeTypes
<1>2. /\ NextShift(t) \in Dated(pattern)
      /\ t + 1 <= NextStart(t)
      /\ \A c \in Dated(pattern) : t + 1 <= StartOf(pattern, c) =>
            NextStart(t) <= StartOf(pattern, c)
  BY <1>1, FirstStart DEF NextShift, NextStart
<1>3. /\ DOMAIN pattern \in SUBSET Nat
      /\ \A i \in DOMAIN pattern : pattern[i] \in ShiftSpec
  BY <1>1, TimelineAssumption
<1>4. \A c \in Dated(pattern) : StartOf(pattern, c) \in Int
  BY <1>3, StartsAndEnds DEF Dated, StartOf
<1>5. NextStart(t) \in Int
  BY <1>2, <1>4 DEF NextStart
<1>6. NextShift(t) \in Subjects
  BY <1>2, <1>3 DEF Dated, Subjects
<1>7. /\ Opening(t) \in Tasks /\ Opening(t).when = NextStart(t)
      /\ Opening(t).kind = "shift_start" /\ Opening(t).of = NextShift(t)
  BY <1>2, <1>5, <1>6 DEF Opening, Task, Tasks, SHIFT, Kinds
<1>8. NextStart(t) \in Nat /\ t < NextStart(t)
  BY <1>2, <1>5
<1>9. ASSUME NEW c \in Dated(pattern), t < StartOf(pattern, c)
      PROVE  NextStart(t) <= StartOf(pattern, c)
  <2>1. t + 1 <= StartOf(pattern, c)
    BY <1>4, <1>9
  <2> QED
    BY <1>2, <2>1
<1> QED
  BY <1>2, <1>7, <1>8, <1>9

\* _schedule_next books that shift, unless it is past the horizon.
LEMMA NextIsBooked ==
  ASSUME TimeTypes, NEW t \in Nat, NEW h \in Heaps(t)
  PROVE  /\ ScheduleNext(h, t) \in Heaps(t)
         /\ \A v : Contains(h, v) => Contains(ScheduleNext(h, t), v)
         /\ \A v : Contains(ScheduleNext(h, t), v) => Contains(h, v) \/ v = Opening(t)
         /\ ~ PastHorizon(NextStart(t)) => Contains(ScheduleNext(h, t), Opening(t))
<1>1. /\ Opening(t) \in Tasks /\ Opening(t).when = NextStart(t)
      /\ NextStart(t) \in Nat /\ t < NextStart(t)
  BY NextShiftIsFirst
<1>2. ScheduleNext(h, t) = IF PastHorizon(NextStart(t)) THEN h ELSE At(h, Opening(t))
  BY DEF ScheduleNext, NextStart, NextShift, StartOf, Opening
<1>3. /\ At(h, Opening(t)) \in Heaps(t)
      /\ \A v : Contains(At(h, Opening(t)), v) <=> v = Opening(t) \/ Contains(h, v)
  BY <1>1, AtKeepsTheHeap
<1>4. CASE PastHorizon(NextStart(t))
  BY <1>2, <1>4
<1>5. CASE ~ PastHorizon(NextStart(t))
  BY <1>2, <1>3, <1>5
<1> QED
  BY <1>4, <1>5

\* What is announced at an opening is placed in the heap, and opens nothing.
LEMMA QuietPlaced ==
  ASSUME NEW t \in Nat, NEW h \in Heaps(t), NEW tasks \in Seq(Quiet(t))
  PROVE  /\ AtEach(h, tasks) \in Heaps(t)
         /\ \A v : Contains(h, v) => Contains(AtEach(h, tasks), v)
         /\ \A v : Contains(AtEach(h, tasks), v) /\ v.kind = "shift_start" => Contains(h, v)
<1>1. \A i \in 1..Len(tasks) : tasks[i] \in Quiet(t)
  OBVIOUS
<1>2. tasks \in Seq(Tasks)
  <2>1. Quiet(t) \subseteq Tasks
    BY DEF Quiet
  <2> QED
    BY <2>1, SeqMonotonic
<1>3. /\ AtEach(h, tasks) \in Heaps(t)
      /\ \A v : Contains(AtEach(h, tasks), v) <=> Contains(h, v) \/ Contains(tasks, v)
  <2>1. \A i \in 1..Len(tasks) : t <= tasks[i].when
    BY <1>1 DEF Quiet
  <2> QED
    BY <1>2, <2>1, AtEachKeepsTheHeap
<1>4. \A v : Contains(tasks, v) => v.kind # "shift_start"
  BY <1>1 DEF Contains, Quiet
<1> QED
  BY <1>3, <1>4

\* A step that opens a shift at t, and books the next of the chain in the heap h.
Opens(date, index, t, h) ==
  /\ heap' \in Heaps(t)
  /\ \A v : Contains(heap', v) /\ v.kind = "shift_start" => Contains(h, v) \/ v = Opening(t)
  /\ ~ PastHorizon(NextStart(t)) => Contains(heap', Opening(t))
  /\ \E b \in Instances : /\ b.date = date /\ b.index = index /\ b.begun = t
                          /\ shifts' = Append(shifts, b)

\* _begin and _schedule_next do so.
LEMMA ShiftBegun ==
  ASSUME TimeTypes, NEW date \in Int, NEW index \in DOMAIN pattern, NEW t \in Nat,
         t < ShiftEnd(date, pattern[index]), NEW h \in Heaps(t),
         NEW after \in Seq(Quiet(t)), Begin(date, index, t, h, after)
  PROVE  Opens(date, index, t, h)
<1>1. PICK present \in BOOLEAN, jitter \in Jitters, overtime \in Overtimes :
        LET spec   == pattern[index]
            id     == Len(shifts) + 1
            people == IF present THEN PeopleTasks(date, spec, t, id, jitter, overtime) ELSE <<>>
            end    == IF ShiftEnd(date, spec) < t + Minute THEN t + Minute
                                                           ELSE ShiftEnd(date, spec)
        IN
        /\ shifts' = Append(shifts, [date |-> date, index |-> index, begun |-> t,
                                     present |-> present])
        /\ heap' = LET opened == At(AtEach(h, people), Task(end, SHIFT, "shift_end", id))
                   IN AtEach(ScheduleNext(opened, t), after)
  BY DEF Begin
<1> DEFINE spec   == pattern[index]
           id     == Len(shifts) + 1
           people == IF present THEN PeopleTasks(date, spec, t, id, jitter, overtime) ELSE <<>>
           end    == IF ShiftEnd(date, spec) < t + Minute THEN t + Minute
                                                          ELSE ShiftEnd(date, spec)
           ending == Task(end, SHIFT, "shift_end", id)
           peopled == AtEach(h, people)
           opened == At(peopled, ending)
           booked == ScheduleNext(opened, t)
<1>2. /\ shifts' = Append(shifts, [date |-> date, index |-> index, begun |-> t,
                                   present |-> present])
      /\ heap' = AtEach(booked, after)
  BY <1>1
<1>3. spec \in ShiftSpec /\ index \in Nat /\ id \in Nat /\ jitter \in Int /\ overtime \in Nat
  BY TimelineAssumption DEF TimeTypes
<1> HIDE DEF id
<1>4. people \in Seq(Quiet(t))
  <2>1. PeopleTasks(date, spec, t, id, jitter, overtime) \in Seq(Quiet(t))
    BY <1>3, PeopleAreAhead
  <2>2. <<>> \in Seq(Quiet(t))
    BY EmptySeq
  <2> QED
    BY <2>1, <2>2
<1>5. ending \in Tasks /\ t <= ending.when /\ ending.kind # "shift_start"
  <2>1. ShiftEnd(date, spec) \in Int
    BY <1>3, StartsAndEnds
  <2>2. end \in Nat /\ t <= end
    BY <2>1, TimelineAssumption
  <2> HIDE DEF end
  <2> QED
    BY <1>3, <2>2 DEF Task, SHIFT, Tasks, Kinds, Subjects
<1> HIDE DEF people, ending
<1>6. /\ peopled \in Heaps(t)
      /\ \A v : Contains(peopled, v) /\ v.kind = "shift_start" => Contains(h, v)
  BY <1>4, QuietPlaced
<1> HIDE DEF peopled
<1>7. /\ opened \in Heaps(t)
      /\ \A v : Contains(opened, v) <=> v = ending \/ Contains(peopled, v)
  BY <1>5, <1>6, AtKeepsTheHeap
<1> HIDE DEF opened
<1>8. /\ booked \in Heaps(t)
      /\ \A v : Contains(booked, v) => Contains(opened, v) \/ v = Opening(t)
      /\ ~ PastHorizon(NextStart(t)) => Contains(booked, Opening(t))
  BY <1>7, NextIsBooked
<1> HIDE DEF booked
<1>9. /\ heap' \in Heaps(t)
      /\ \A v : Contains(booked, v) => Contains(heap', v)
      /\ \A v : Contains(heap', v) /\ v.kind = "shift_start" => Contains(booked, v)
  BY <1>2, <1>8, QuietPlaced
<1>10. \A v : Contains(heap', v) /\ v.kind = "shift_start" =>
                Contains(h, v) \/ v = Opening(t)
  BY <1>5, <1>6, <1>7, <1>8, <1>9
<1>11. \E b \in Instances : /\ b.date = date /\ b.index = index /\ b.begun = t
                            /\ shifts' = Append(shifts, b)
  BY <1>2, <1>3 DEF Instances
<1> QED
  BY <1>8, <1>9, <1>10, <1>11 DEF Opens

\* A heap is ahead of any instant its first task is ahead of.
LEMMA AheadOfTheFirst ==
  ASSUME NEW t \in Nat, NEW h \in Heaps(t), NEW u \in Nat,
         h # <<>> => u <= Head(h).when
  PROVE  h \in Heaps(u)
<1>1. CASE h = <<>>
  <2>1. h \in Seq(Tasks) /\ Len(h) = 0
    BY <1>1, EmptySeq
  <2> QED
    BY <2>1 DEF Heaps
<1>2. CASE h # <<>>
  <2>1. /\ h \in Seq(Tasks) /\ Len(h) \in Nat
        /\ \A i, j \in 1..Len(h) : i < j => ~ Before(h[j], h[i])
    BY DEF Heaps
  <2>2. 1 \in 1..Len(h) /\ Head(h) = h[1] /\ \A i \in 1..Len(h) : h[i] \in Tasks
    BY <1>2, <2>1
  <2>3. \A a \in Tasks : a.when \in Nat /\ a.priority \in Nat
    BY DEF Tasks
  <2>4. ASSUME NEW i \in 1..Len(h) PROVE u <= h[i].when
    <3>1. i = 1 \/ ~ Before(h[i], h[1])
      BY <2>1, <2>2
    <3>2. h[i].when \in Nat /\ h[1].when \in Nat /\ u <= h[1].when
      BY <1>2, <2>2, <2>3
    <3> QED
      BY <3>1, <3>2 DEF Before
  <2> QED
    BY <2>1, <2>4 DEF Heaps
<1> QED
  BY <1>1, <1>2

\* run_until brings the clock to the task it pops, which is not past the
\* horizon of the call.
LEMMA PopsAhead ==
  ASSUME ScheduleInv, NEW kinds, Popped(kinds)
  PROVE  /\ phase \in {"forward", "live"} /\ heap # <<>>
         /\ Head(heap) \in Tasks /\ Head(heap).kind \in kinds
         /\ Head(heap).when \in Nat /\ now' = Head(heap).when
         /\ now <= Head(heap).when /\ Head(heap).when <= due
         /\ Tail(heap) \in Heaps(Head(heap).when)
         /\ \A v : Contains(heap, v) <=> v = Head(heap) \/ Contains(Tail(heap), v)
         /\ UNCHANGED <<pattern, request, phase, stopping, due, horizon>>
<1>1. now \in Nat /\ due \in Nat /\ heap \in Heaps(now)
  BY DEF ScheduleInv, TimeTypes, HeapIsAhead
<1>2. /\ phase \in {"forward", "live"} /\ heap # <<>> /\ ~ (due < Head(heap).when)
      /\ Head(heap).kind \in kinds
      /\ now' = IF Head(heap).when > now THEN Head(heap).when ELSE now
      /\ UNCHANGED <<pattern, request, phase, stopping, due, horizon>>
  BY DEF Popped, Drained, Pass, Advance, runVars, phaseVars
<1>3. /\ Head(heap) \in Tasks /\ now <= Head(heap).when
      /\ Tail(heap) \in Heaps(Head(heap).when)
      /\ \A v : Contains(heap, v) <=> v = Head(heap) \/ Contains(Tail(heap), v)
  BY <1>1, <1>2, PopKeepsTheHeap
<1>4. Head(heap).when \in Nat
  BY <1>3 DEF Tasks
<1> QED
  BY <1>1, <1>2, <1>3, <1>4

\* A step that begins no shift and leaves the openings in the heap alone.
LEMMA ChainLeftAlone ==
  ASSUME ScheduleInv, UNCHANGED <<pattern, request, shifts>>, phase # "new" \/ phase' = "new",
         \A v : v.kind = "shift_start" => (Contains(heap', v) <=> Contains(heap, v))
  PROVE  OpeningsAreShifts' /\ ChainIsKept'
<1>1. OpeningsAreShifts'
  <2> SUFFICES ASSUME NEW i \in 1..Len(heap'), heap'[i].kind = "shift_start"
               PROVE  /\ heap'[i].of \in Dated(pattern)
                      /\ heap'[i].when = StartOf(pattern, heap'[i].of)
    BY DEF OpeningsAreShifts, Dated, StartOf
  <2>1. Contains(heap', heap'[i])
    BY DEF Contains
  <2>2. Contains(heap, heap'[i])
    BY <2>1
  <2> QED
    BY <2>2 DEF Contains, ScheduleInv, OpeningsAreShifts
<1>2. Followed' = Followed
  BY DEF Followed
<1>3. \A t : Opening(t)' = Opening(t) /\ NextStart(t)' = NextStart(t)
  BY DEF Opening, NextStart, NextShift
<1>4. \A c \in Dated(pattern) : Opened(c)' = Opened(c) /\ Awaited(c)' = Awaited(c)
  BY DEF Opened, Awaited, StartOf
<1>5. Dated(pattern)' = Dated(pattern)
  BY DEF Dated
<1>6. Followed \in Nat /\ (phase' # "new" =>
        \/ Contains(heap, Opening(Followed))
        \/ request.horizon # None /\ request.horizon < NextStart(Followed))
  BY DEF ScheduleInv, ChainIsKept
<1>7. Opening(Followed).kind = "shift_start"
  BY DEF Opening, Task
<1>8. phase' # "new" =>
        \/ Contains(heap', Opening(Followed))
        \/ request.horizon # None /\ request.horizon < NextStart(Followed)
  BY <1>6, <1>7
<1>9. \A c \in Dated(pattern) :
        Awaited(c) /\ StartOf(pattern, c) <= Followed => Opened(c)
  BY DEF ScheduleInv, ChainIsKept
<1>10. (phase # "new" =>
         \/ Contains(heap, Opening(Followed))
         \/ request.horizon # None /\ request.horizon < NextStart(Followed))'
  BY <1>2, <1>3, <1>8
<1>11. (\A c \in Dated(pattern) :
          Awaited(c) /\ StartOf(pattern, c) <= Followed => Opened(c))'
  BY <1>2, <1>4, <1>5, <1>9 DEF StartOf
<1> QED
  BY <1>1, <1>2, <1>6, <1>10, <1>11 DEF ChainIsKept

\* A step that begins a shift when its turn has come, and books the next.
LEMMA ChainExtended ==
  ASSUME ScheduleInv, UNCHANGED <<pattern, request>>, NEW b \in Instances,
         shifts' = Append(shifts, b),
         \A c \in Dated(pattern) :
           Awaited(c) /\ Followed < StartOf(pattern, c) /\ StartOf(pattern, c) <= b.begun =>
             c.date = b.date /\ c.index = b.index /\ StartOf(pattern, c) = b.begun,
         \A v : Contains(heap', v) /\ v.kind = "shift_start" =>
                  Contains(heap, v) \/ v = Opening(b.begun),
         \/ Contains(heap', Opening(b.begun))
         \/ request.horizon # None /\ request.horizon < NextStart(b.begun)
  PROVE  shifts' \in Seq(Instances) /\ OpeningsAreShifts' /\ ChainIsKept'
<1> DEFINE n == Len(shifts)
<1>1. /\ shifts' \in Seq(Instances) /\ n \in Nat /\ Len(shifts') = n + 1
      /\ shifts'[n + 1] = b /\ \A i \in 1..n : shifts'[i] = shifts[i]
  BY DEF ScheduleInv, TimeTypes
<1>2. b.begun \in Nat
  BY DEF Instances
<1>3. /\ NextShift(b.begun) \in Dated(pattern)
      /\ Opening(b.begun).of = NextShift(b.begun)
      /\ Opening(b.begun).when = StartOf(pattern, NextShift(b.begun))
  BY <1>2, NextShiftIsFirst DEF ScheduleInv, NextStart
<1>4. OpeningsAreShifts'
  <2> SUFFICES ASSUME NEW i \in 1..Len(heap'), heap'[i].kind = "shift_start"
               PROVE  /\ heap'[i].of \in Dated(pattern)
                      /\ heap'[i].when = StartOf(pattern, heap'[i].of)
    BY DEF OpeningsAreShifts, Dated, StartOf
  <2>1. Contains(heap', heap'[i])
    BY DEF Contains
  <2>2. Contains(heap, heap'[i]) \/ heap'[i] = Opening(b.begun)
    BY <2>1
  <2>3. CASE Contains(heap, heap'[i])
    BY <2>3 DEF Contains, ScheduleInv, OpeningsAreShifts
  <2>4. CASE heap'[i] = Opening(b.begun)
    BY <2>4, <1>3
  <2> QED
    BY <2>2, <2>3, <2>4
<1>5. Followed' = b.begun
  <2>1. shifts' # <<>>
    BY <1>1
  <2> QED
    BY <1>1, <2>1 DEF Followed
<1>6. \A t : Opening(t)' = Opening(t) /\ NextStart(t)' = NextStart(t)
  BY DEF Opening, NextStart, NextShift
<1>7. \A c \in Dated(pattern) : Awaited(c)' = Awaited(c)
  BY DEF Awaited, StartOf
<1>8. Dated(pattern)' = Dated(pattern)
  BY DEF Dated
<1>9. \A c \in Dated(pattern) : Opened(c) => Opened(c)'
  <2> SUFFICES ASSUME NEW c \in Dated(pattern), Opened(c) PROVE Opened(c)'
    OBVIOUS
  <2>1. PICK i \in DOMAIN shifts :
          /\ shifts[i].date = c.date /\ shifts[i].index = c.index
          /\ shifts[i].begun = ShiftStart(c.date, pattern[c.index])
    BY DEF Opened
  <2>2. i \in DOMAIN shifts' /\ shifts'[i] = shifts[i]
    BY <1>1 DEF ScheduleInv, TimeTypes
  <2> QED
    BY <2>1, <2>2 DEF Opened
<1>10. ASSUME NEW c \in Dated(pattern), Awaited(c), StartOf(pattern, c) <= b.begun
       PROVE  Opened(c)'
  <2>1. StartOf(pattern, c) \in Int /\ Followed \in Nat
    <3>1. pattern \in Patterns
      BY DEF ScheduleInv, TimeTypes
    <3>2. c.date \in Int /\ c.index \in DOMAIN pattern /\ pattern[c.index] \in ShiftSpec
      BY <3>1, TimelineAssumption DEF Dated
    <3> QED
      BY <3>2, StartsAndEnds DEF StartOf, ScheduleInv, ChainIsKept
  <2>2. CASE StartOf(pattern, c) <= Followed
    BY <2>2, <1>9, <1>10 DEF ScheduleInv, ChainIsKept
  <2>3. CASE Followed < StartOf(pattern, c)
    <3>1. c.date = b.date /\ c.index = b.index /\ StartOf(pattern, c) = b.begun
      BY <2>3, <1>10
    <3>2. n + 1 \in DOMAIN shifts' /\ shifts'[n + 1] = b
      BY <1>1
    <3> QED
      BY <3>1, <3>2 DEF Opened, StartOf
  <2> QED
    BY <2>1, <2>2, <2>3
<1>11. (\A c \in Dated(pattern) :
          Awaited(c) /\ StartOf(pattern, c) <= Followed => Opened(c))'
  BY <1>5, <1>7, <1>8, <1>10 DEF StartOf
<1>12. (\/ Contains(heap, Opening(Followed))
        \/ request.horizon # None /\ request.horizon < NextStart(Followed))'
  BY <1>5, <1>6
<1>13. Followed' \in Nat
  BY <1>2, <1>5
<1> QED
  BY <1>1, <1>4, <1>11, <1>12, <1>13 DEF ChainIsKept

\* The start of a run opens the shift that covers it, if one does, and books
\* the first that starts after it.
LEMMA StartKeeps ==
  ASSUME ScheduleInv, Start
  PROVE  ScheduleInv'
<1>1. /\ TimeTypes /\ HeapIsAhead /\ OpeningsAreShifts /\ PhaseIsKept /\ ChainIsKept
      /\ now \in Nat /\ pattern \in Patterns
  BY DEF ScheduleInv, TimeTypes
<1>2. /\ phase = "new" /\ heap = <<>> /\ shifts = <<>> /\ now = request.start
      /\ horizon = None /\ heap \in Heaps(now)
  BY <1>1 DEF Start, PhaseIsKept, HeapIsAhead
<1>3. /\ UNCHANGED <<pattern, request, now>>
      /\ horizon' = request.horizon
      /\ \/ request.horizon # None /\ phase' = "forward" /\ due' = request.horizon
         \/ phase' = "live" /\ UNCHANGED due
  BY DEF Start, runVars
<1>4. now = Followed /\ ~ PastHorizon(NextStart(now))
  BY <1>2 DEF Followed, PastHorizon
<1>5. Periodic(now) \in Seq(Quiet(now))
  <2>1. Tick \in Nat
    BY TimelineAssumption
  <2>2. /\ Task(now + Tick, PRODUCTION, "production", None) \in Quiet(now)
        /\ Task(now + Tick, PERSIST, "housekeeping", None) \in Quiet(now)
    BY <1>1, <2>1 DEF Task, PRODUCTION, PERSIST, Quiet, Tasks, Kinds, Subjects
  <2> QED
    BY <2>2 DEF Periodic
<1>6. due' \in Nat /\ phase' \in Phases
  <2>1. request.horizon # None => request.horizon \in Nat
    BY <1>1, TimelineAssumption DEF TimeTypes
  <2> QED
    BY <1>1, <1>3, <2>1 DEF TimeTypes, Phases
<1>7. PhaseIsKept'
  BY <1>2, <1>3 DEF PhaseIsKept
<1>8. CASE Covering(pattern, now) # {}
  <2> DEFINE c == ShiftFor(pattern, now)
  <2>1. Begin(c.date, c.index, now, heap, Periodic(now))
    BY <1>8 DEF Start
  <2>2. /\ c \in Dated(pattern) /\ now < ShiftEnd(c.date, pattern[c.index])
        /\ c.date \in Int /\ c.index \in DOMAIN pattern
    <3>1. c \in Dated(pattern) /\ now < ShiftEnd(c.date, pattern[c.index])
      BY <1>1, <1>8, ShiftForCovers
    <3> QED
      BY <3>1 DEF Dated
  <2> HIDE DEF c
  <2>3. /\ heap' \in Heaps(now)
        /\ \A v : Contains(heap', v) /\ v.kind = "shift_start" =>
                    Contains(heap, v) \/ v = Opening(now)
        /\ Contains(heap', Opening(now))
        /\ \E b \in Instances : b.begun = now /\ shifts' = Append(shifts, b)
    <3>1. Opens(c.date, c.index, now, heap)
      BY <1>1, <1>2, <1>4, <1>5, <2>1, <2>2, ShiftBegun
    <3> QED
      BY <1>4, <3>1 DEF Opens
  <2>4. PICK b \in Instances : b.begun = now /\ shifts' = Append(shifts, b)
    BY <2>3
  <2>5. \A d \in Dated(pattern) : StartOf(pattern, d) \in Int
    <3>1. \A d \in Dated(pattern) :
            d.date \in Int /\ d.index \in DOMAIN pattern /\ pattern[d.index] \in ShiftSpec
      BY <1>1, TimelineAssumption DEF Dated
    <3> QED
      BY <3>1, StartsAndEnds DEF StartOf
  <2>6. \A d \in Dated(pattern) :
          ~ (Followed < StartOf(pattern, d) /\ StartOf(pattern, d) <= b.begun)
    BY <1>1, <1>4, <2>4, <2>5
  <2>7. shifts' \in Seq(Instances) /\ OpeningsAreShifts' /\ ChainIsKept'
    BY <1>3, <2>3, <2>4, <2>6, ChainExtended
  <2>8. TimeTypes' /\ HeapIsAhead'
    BY <1>1, <1>3, <1>6, <2>3, <2>7 DEF TimeTypes, HeapIsAhead
  <2> QED
    BY <1>7, <2>7, <2>8 DEF ScheduleInv
<1>9. CASE Covering(pattern, now) = {}
  <2>1. /\ heap' = AtEach(ScheduleNext(heap, now), Periodic(now))
        /\ UNCHANGED shifts
    BY <1>9 DEF Start, shiftVars
  <2>2. /\ ScheduleNext(heap, now) \in Heaps(now)
        /\ \A v : Contains(ScheduleNext(heap, now), v) => Contains(heap, v) \/ v = Opening(now)
        /\ Contains(ScheduleNext(heap, now), Opening(now))
    BY <1>1, <1>2, <1>4, NextIsBooked
  <2>3. /\ heap' \in Heaps(now)
        /\ \A v : Contains(heap', v) /\ v.kind = "shift_start" =>
                    Contains(heap, v) \/ v = Opening(now)
        /\ Contains(heap', Opening(now))
    BY <1>1, <1>5, <2>1, <2>2, QuietPlaced
  <2>4. \A v : ~ Contains(heap, v)
    BY <1>2 DEF Contains
  <2>5. OpeningsAreShifts'
    <3> SUFFICES ASSUME NEW i \in 1..Len(heap'), heap'[i].kind = "shift_start"
                 PROVE  /\ heap'[i].of \in Dated(pattern)
                        /\ heap'[i].when = StartOf(pattern, heap'[i].of)
      BY <1>3 DEF OpeningsAreShifts, Dated, StartOf
    <3>1. heap'[i] = Opening(now)
      BY <2>3, <2>4 DEF Contains
    <3> QED
      BY <1>1, <3>1, NextShiftIsFirst DEF NextStart
  <2>6. Followed' = Followed /\ Opening(Followed)' = Opening(Followed)
    BY <1>3, <2>1 DEF Followed, Opening, NextStart, NextShift
  <2>7. (\A c \in Dated(pattern) :
           Awaited(c) /\ StartOf(pattern, c) <= Followed => Opened(c))'
    BY <1>1, <1>3, <2>1, <2>6 DEF ChainIsKept, Awaited, Opened, StartOf, Dated
  <2>8. ChainIsKept'
    <3>1. Contains(heap, Opening(Followed))'
      BY <1>4, <2>3, <2>6
    <3> QED
      BY <1>1, <1>4, <2>6, <2>7, <3>1 DEF ChainIsKept
  <2>9. TimeTypes' /\ HeapIsAhead'
    BY <1>1, <1>3, <1>6, <2>1, <2>3 DEF TimeTypes, HeapIsAhead
  <2> QED
    BY <1>7, <2>5, <2>8, <2>9 DEF ScheduleInv
<1> QED
  BY <1>8, <1>9

\* A callback of the chain opens its shift in its turn, and books the next.
LEMMA ShiftStartKeeps ==
  ASSUME ScheduleInv, OnShiftStart
  PROVE  ScheduleInv'
<1> DEFINE u == Head(heap)
<1>1. /\ TimeTypes /\ HeapIsAhead /\ OpeningsAreShifts /\ PhaseIsKept /\ ChainIsKept
      /\ pattern \in Patterns
  BY DEF ScheduleInv, TimeTypes
<1>2. Popped({"shift_start"}) /\ Begin(u.of.date, u.of.index, u.when, Tail(heap), <<>>)
  BY DEF OnShiftStart
<1>3. /\ phase \in {"forward", "live"} /\ heap # <<>>
      /\ u \in Tasks /\ u.kind \in {"shift_start"}
      /\ u.when \in Nat /\ now' = u.when /\ now <= u.when /\ u.when <= due
      /\ Tail(heap) \in Heaps(u.when)
      /\ \A v : Contains(heap, v) <=> v = u \/ Contains(Tail(heap), v)
      /\ UNCHANGED <<pattern, request, phase, stopping, due, horizon>>
  BY <1>2, PopsAhead
<1>4. /\ u.of \in Dated(pattern) /\ u.when = StartOf(pattern, u.of)
      /\ u.of.date \in Int /\ u.of.index \in DOMAIN pattern
  <2>1. Contains(heap, u)
    BY <1>3
  <2>2. u.of \in Dated(pattern) /\ u.when = StartOf(pattern, u.of)
    BY <1>1, <1>3, <2>1 DEF OpeningsAreShifts, Contains
  <2> QED
    BY <2>2 DEF Dated
<1> HIDE DEF u
<1>5. u.when < ShiftEnd(u.of.date, pattern[u.of.index])
  <2>1. pattern[u.of.index] \in ShiftSpec
    BY <1>1, <1>4, TimelineAssumption
  <2> QED
    BY <1>4, <2>1, StartsAndEnds DEF StartOf
<1>6. <<>> \in Seq(Quiet(u.when))
  BY EmptySeq
<1>7. /\ heap' \in Heaps(u.when)
      /\ \A v : Contains(heap', v) /\ v.kind = "shift_start" =>
                  Contains(Tail(heap), v) \/ v = Opening(u.when)
      /\ ~ PastHorizon(NextStart(u.when)) => Contains(heap', Opening(u.when))
      /\ \E b \in Instances : /\ b.date = u.of.date /\ b.index = u.of.index
                              /\ b.begun = u.when
                              /\ shifts' = Append(shifts, b)
  <2>1. Opens(u.of.date, u.of.index, u.when, Tail(heap))
    BY <1>1, <1>2, <1>3, <1>4, <1>5, <1>6, ShiftBegun DEF u
  <2> QED
    BY <2>1 DEF Opens
<1>8. PICK b \in Instances : /\ b.date = u.of.date /\ b.index = u.of.index
                             /\ b.begun = u.when
                             /\ shifts' = Append(shifts, b)
  BY <1>7
<1>9. \/ Contains(heap', Opening(b.begun))
      \/ request.horizon # None /\ request.horizon < NextStart(b.begun)
  <2>1. CASE PastHorizon(NextStart(u.when))
    BY <2>1, <1>1, <1>8 DEF PastHorizon, PhaseIsKept
  <2>2. CASE ~ PastHorizon(NextStart(u.when))
    BY <2>2, <1>7, <1>8
  <2> QED
    BY <2>1, <2>2
<1>10. ASSUME NEW c \in Dated(pattern), Awaited(c), Followed < StartOf(pattern, c),
              StartOf(pattern, c) <= b.begun
       PROVE  c.date = b.date /\ c.index = b.index /\ StartOf(pattern, c) = b.begun
  <2>1. StartOf(pattern, c) \in Int /\ Followed \in Nat
    <3>1. c.date \in Int /\ c.index \in DOMAIN pattern /\ pattern[c.index] \in ShiftSpec
      BY <1>1, TimelineAssumption DEF Dated
    <3> QED
      BY <1>1, <3>1, StartsAndEnds DEF StartOf, ChainIsKept
  <2>2. /\ NextStart(Followed) \in Nat /\ NextStart(Followed) <= StartOf(pattern, c)
        /\ Opening(Followed).when = NextStart(Followed)
    BY <1>1, <1>10, <2>1, NextShiftIsFirst
  <2>3. Contains(heap, Opening(Followed))
    <3>1. \/ Contains(heap, Opening(Followed))
          \/ request.horizon # None /\ request.horizon < NextStart(Followed)
      BY <1>1, <1>3 DEF ChainIsKept
    <3>2. request.horizon # None => request.horizon \in Nat
      BY <1>1, TimelineAssumption DEF TimeTypes
    <3> QED
      BY <1>10, <2>1, <2>2, <3>1, <3>2 DEF Awaited
  <2>4. u.when <= NextStart(Followed)
    <3>1. CASE Opening(Followed) = u
      BY <3>1, <1>3, <2>2
    <3>2. CASE Contains(Tail(heap), Opening(Followed))
      BY <3>2, <1>3, <2>2 DEF Contains, Heaps
    <3> QED
      BY <1>3, <2>3, <3>1, <3>2
  <2>5. StartOf(pattern, c) = u.when
    BY <1>3, <1>8, <1>10, <2>1, <2>2, <2>4
  <2>6. c = u.of
    BY <1>1, <1>4, <2>5, OneAtATime
  <2> QED
    BY <1>8, <2>5, <2>6
<1>11. \A v : Contains(heap', v) /\ v.kind = "shift_start" =>
                Contains(heap, v) \/ v = Opening(b.begun)
  BY <1>3, <1>7, <1>8
<1>12. shifts' \in Seq(Instances) /\ OpeningsAreShifts' /\ ChainIsKept'
  BY <1>3, <1>8, <1>9, <1>10, <1>11, ChainExtended
<1>13. TimeTypes' /\ HeapIsAhead'
  BY <1>1, <1>3, <1>7, <1>12 DEF TimeTypes, HeapIsAhead
<1>14. PhaseIsKept'
  BY <1>1, <1>3 DEF PhaseIsKept
<1> QED
  BY <1>12, <1>13, <1>14 DEF ScheduleInv

\* Any other callback takes its task off the heap and may place it again.
LEMMA CallbackKeeps ==
  ASSUME ScheduleInv, NEW kinds, "shift_start" \notin kinds, Popped(kinds), UNCHANGED shifts,
         heap' = Tail(heap) \/ Repeat
  PROVE  ScheduleInv'
<1> DEFINE u == Head(heap)
           again == [u EXCEPT !.when = @ + Tick]
<1>1. /\ TimeTypes /\ HeapIsAhead /\ OpeningsAreShifts /\ PhaseIsKept /\ ChainIsKept
  BY DEF ScheduleInv
<1>2. /\ phase \in {"forward", "live"} /\ heap # <<>>
      /\ u \in Tasks /\ u.kind \in kinds
      /\ u.when \in Nat /\ now' = u.when /\ now <= u.when /\ u.when <= due
      /\ Tail(heap) \in Heaps(u.when)
      /\ \A v : Contains(heap, v) <=> v = u \/ Contains(Tail(heap), v)
      /\ UNCHANGED <<pattern, request, phase, stopping, due, horizon>>
  BY PopsAhead
<1>3. heap' = Tail(heap) \/ heap' = At(Tail(heap), again)
  BY DEF Repeat
<1> HIDE DEF u
<1>4. again \in Tasks /\ u.when <= again.when /\ again.kind # "shift_start"
  <2>1. Tick \in Nat
    BY TimelineAssumption
  <2>2. again \in Tasks /\ again.when = u.when + Tick /\ again.kind = u.kind
    BY <1>2, <2>1 DEF Tasks
  <2>3. u.kind # "shift_start"
    BY <1>2
  <2> QED
    BY <1>2, <2>1, <2>2, <2>3
<1> HIDE DEF again
<1>5. /\ heap' \in Heaps(u.when)
      /\ \A v : v.kind = "shift_start" => (Contains(heap', v) <=> Contains(Tail(heap), v))
  <2>1. CASE heap' = Tail(heap)
    BY <2>1, <1>2
  <2>2. CASE heap' = At(Tail(heap), again)
    <3>1. /\ At(Tail(heap), again) \in Heaps(u.when)
          /\ \A v : Contains(At(Tail(heap), again), v) <=> v = again \/ Contains(Tail(heap), v)
      BY <1>2, <1>4, AtKeepsTheHeap
    <3> QED
      BY <2>2, <3>1, <1>4
  <2> QED
    BY <1>3, <2>1, <2>2
<1>6. \A v : v.kind = "shift_start" => (Contains(heap', v) <=> Contains(heap, v))
  BY <1>2, <1>5
<1>7. OpeningsAreShifts' /\ ChainIsKept'
  BY <1>2, <1>6, ChainLeftAlone
<1>8. TimeTypes' /\ HeapIsAhead'
  BY <1>1, <1>2, <1>5 DEF TimeTypes, HeapIsAhead
<1>9. PhaseIsKept'
  BY <1>1, <1>2 DEF PhaseIsKept
<1> QED
  BY <1>7, <1>8, <1>9 DEF ScheduleInv

\* A step that takes nothing off the heap and brings the clock to its first
\* task at most.
LEMMA ClockKeeps ==
  ASSUME ScheduleInv, UNCHANGED <<pattern, request, shifts, heap>>,
         phase # "new" \/ phase' = "new",
         phase' \in Phases, due' \in Nat, now' \in Nat,
         heap # <<>> => now' <= Head(heap).when, PhaseIsKept'
  PROVE  ScheduleInv'
<1>1. TimeTypes /\ HeapIsAhead
  BY DEF ScheduleInv
<1>2. heap \in Heaps(now')
  BY <1>1, AheadOfTheFirst DEF TimeTypes, HeapIsAhead
<1>3. OpeningsAreShifts' /\ ChainIsKept'
  BY ChainLeftAlone
<1> QED
  BY <1>1, <1>2, <1>3 DEF ScheduleInv, TimeTypes, HeapIsAhead

LEMMA ScheduleInit == Init => ScheduleInv
<1> SUFFICES ASSUME Init PROVE ScheduleInv
  OBVIOUS
<1>1. /\ pattern \in Patterns /\ phase = "new" /\ heap = <<>> /\ shifts = <<>>
      /\ request \in [start : Starts, horizon : Horizons \cup {None}, live : BOOLEAN]
      /\ now = request.start /\ due = request.start /\ horizon = None
      /\ request.start \in Nat
  BY TimelineAssumption DEF Init
<1>2. TimeTypes
  BY <1>1, EmptySeq DEF TimeTypes, Phases
<1>3. HeapIsAhead
  BY <1>1, EmptySeq DEF HeapIsAhead, Heaps
<1>4. OpeningsAreShifts /\ PhaseIsKept
  BY <1>1 DEF OpeningsAreShifts, PhaseIsKept
<1>5. ChainIsKept
  <2>1. Followed = request.start
    BY <1>1 DEF Followed
  <2>2. \A c \in Dated(pattern) : StartOf(pattern, c) \in Int
    <3>1. \A c \in Dated(pattern) :
            c.date \in Int /\ c.index \in DOMAIN pattern /\ pattern[c.index] \in ShiftSpec
      BY <1>1, TimelineAssumption DEF Dated
    <3> QED
      BY <3>1, StartsAndEnds DEF StartOf
  <2>3. \A c \in Dated(pattern) : ~ (Awaited(c) /\ StartOf(pattern, c) <= Followed)
    BY <1>1, <2>1, <2>2 DEF Awaited
  <2> QED
    BY <1>1, <2>1, <2>3 DEF ChainIsKept
<1> QED
  BY <1>2, <1>3, <1>4, <1>5 DEF ScheduleInv

LEMMA ScheduleStep == ScheduleInv /\ [Next]_vars => ScheduleInv'
<1> SUFFICES ASSUME ScheduleInv, [Next]_vars PROVE ScheduleInv'
  OBVIOUS
<1>1. /\ TimeTypes /\ HeapIsAhead /\ OpeningsAreShifts /\ PhaseIsKept /\ ChainIsKept
      /\ now \in Nat /\ due \in Nat /\ phase \in Phases
      /\ request.horizon # None => request.horizon \in Nat
  BY TimelineAssumption DEF ScheduleInv, TimeTypes
<1>2. heap # <<>> => Head(heap) \in Tasks /\ Head(heap).when \in Nat /\ now <= Head(heap).when
  <2>1. heap \in Heaps(now)
    BY <1>1 DEF HeapIsAhead
  <2>2. heap # <<>> => Head(heap) \in Tasks /\ now <= Head(heap).when
    BY <1>1, <2>1, PopKeepsTheHeap
  <2> QED
    BY <2>2 DEF Tasks
<1>3. CASE Start
  BY <1>3, StartKeeps
<1>4. CASE OnShiftStart
  BY <1>4, ShiftStartKeeps
<1>5. CASE OnShiftEnd
  <2>1. Popped({"shift_end"}) /\ heap' = Tail(heap) /\ UNCHANGED shifts
    BY <1>5 DEF OnShiftEnd, shiftVars
  <2>2. "shift_start" \notin {"shift_end"}
    OBVIOUS
  <2> QED
    BY <2>1, <2>2, CallbackKeeps
<1>6. CASE OnPeople
  <2> DEFINE kinds == {"clock_in", "break_start", "break_end", "overtime", "clock_out"}
  <2>1. Popped(kinds) /\ heap' = Tail(heap) /\ UNCHANGED shifts
    BY <1>6 DEF OnPeople, shiftVars
  <2>2. "shift_start" \notin kinds
    OBVIOUS
  <2> HIDE DEF kinds
  <2> QED
    BY <2>1, <2>2, CallbackKeeps
<1>7. CASE ProductionTick
  <2>1. Popped({"production"}) /\ Repeat /\ UNCHANGED shifts
    BY <1>7 DEF ProductionTick, shiftVars
  <2>2. "shift_start" \notin {"production"}
    OBVIOUS
  <2> QED
    BY <2>1, <2>2, CallbackKeeps
<1>8. CASE HousekeepingTick
  <2>1. Popped({"housekeeping"}) /\ Repeat /\ UNCHANGED shifts
    BY <1>8 DEF HousekeepingTick, shiftVars
  <2>2. "shift_start" \notin {"housekeeping"}
    OBVIOUS
  <2> QED
    BY <2>1, <2>2, CallbackKeeps
<1>9. CASE Handler
  <2>1. PICK t \in now..due :
          /\ heap # <<>> => Before([when |-> t, priority |-> MAINTENANCE], Head(heap))
          /\ Pass(t)
    BY <1>9 DEF Handler
  <2>2. /\ UNCHANGED <<pattern, request, phase, due, horizon, heap, shifts>>
        /\ phase \in {"forward", "live"}
    BY <1>9 DEF Handler, runVars, phaseVars, shiftVars
  <2>3. t \in Nat /\ now' = t /\ now' <= due
    BY <1>1, <2>1 DEF Pass, Advance
  <2>4. heap # <<>> => now' <= Head(heap).when
    BY <1>2, <2>1, <2>3 DEF Before
  <2>5. PhaseIsKept'
    BY <1>1, <2>2, <2>3 DEF PhaseIsKept
  <2> QED
    BY <1>1, <2>2, <2>3, <2>4, <2>5, ClockKeeps
<1>10. CASE EndForward
  <2>1. /\ phase = "forward" /\ Drained
        /\ now' = IF request.horizon > now THEN request.horizon ELSE now
        /\ \/ phase' = "live" /\ horizon' = None
           \/ phase' = "ended" /\ UNCHANGED horizon
        /\ UNCHANGED <<pattern, request, due, heap, shifts>>
    BY <1>10 DEF EndForward, Pass, Advance, runVars, shiftVars
  <2>2. /\ request.horizon # None /\ due = request.horizon
        /\ now <= due \/ now = request.start
    BY <1>1, <2>1 DEF PhaseIsKept
  <2>3. now' \in Nat /\ (now' = due \/ now' = now) /\ (now' <= due \/ now' = request.start)
    BY <1>1, <2>1, <2>2
  <2>4. heap # <<>> => now' <= Head(heap).when
    BY <1>1, <1>2, <2>1, <2>3 DEF Drained
  <2>5. PhaseIsKept'
    BY <1>1, <2>1, <2>2, <2>3 DEF PhaseIsKept, Drained
  <2>6. phase' \in Phases
    BY <2>1 DEF Phases
  <2> QED
    BY <1>1, <2>1, <2>3, <2>4, <2>5, <2>6, ClockKeeps
<1>11. CASE LiveTurn
  <2>1. /\ phase = "live" /\ heap # <<>> /\ due' = Head(heap).when
        /\ UNCHANGED <<pattern, request, phase, horizon, now, heap, shifts>>
    BY <1>11 DEF LiveTurn, runVars, shiftVars
  <2>2. PhaseIsKept'
    BY <1>1, <1>2, <2>1 DEF PhaseIsKept
  <2> QED
    BY <1>1, <1>2, <2>1, <2>2, ClockKeeps
<1>12. CASE EndLive
  <2>1. /\ phase = "live" /\ Drained /\ phase' = "ended"
        /\ UNCHANGED <<pattern, request, due, horizon, now, heap, shifts>>
    BY <1>12 DEF EndLive, runVars, shiftVars
  <2>2. PhaseIsKept'
    BY <1>1, <2>1 DEF PhaseIsKept, Drained
  <2>3. phase' \in Phases
    BY <2>1 DEF Phases
  <2> QED
    BY <1>1, <1>2, <2>1, <2>2, <2>3, ClockKeeps
<1>13. CASE Stop
  <2>1. /\ phase \in {"forward", "live"}
        /\ UNCHANGED <<pattern, request, phase, due, horizon, now, heap, shifts>>
    BY <1>13 DEF Stop, runVars, shiftVars
  <2>2. PhaseIsKept'
    BY <1>1, <2>1 DEF PhaseIsKept
  <2> QED
    BY <1>1, <1>2, <2>1, <2>2, ClockKeeps
<1>14. CASE Finish
  <2>1. /\ phase = "ended" /\ phase' = "finished"
        /\ UNCHANGED <<pattern, request, due, horizon, now, heap, shifts>>
    BY <1>14 DEF Finish, runVars, shiftVars
  <2>2. PhaseIsKept'
    BY <1>1, <2>1 DEF PhaseIsKept, Drained
  <2>3. phase' \in Phases
    BY <2>1 DEF Phases
  <2> QED
    BY <1>1, <1>2, <2>1, <2>2, <2>3, ClockKeeps
<1>15. CASE Done \/ UNCHANGED vars
  <2>1. UNCHANGED <<pattern, request, phase, due, horizon, now, heap, shifts>>
    BY <1>15 DEF Done, vars, runVars, phaseVars, shiftVars
  <2>2. PhaseIsKept'
    BY <1>1, <2>1 DEF PhaseIsKept, Drained
  <2> QED
    BY <1>1, <1>2, <2>1, <2>2, ClockKeeps
<1> QED
  BY <1>3, <1>4, <1>5, <1>6, <1>7, <1>8, <1>9, <1>10, <1>11, <1>12, <1>13, <1>14, <1>15
     DEF Next

LEMMA ScheduleHolds == Spec => []ScheduleInv
BY ScheduleInit, ScheduleStep, PTL DEF Spec

\* The clock never passes a callback that is still booked: every task of the
\* scheduler runs at its own instant (engine/scheduler.py:110).
THEOREM ClockWaits == Spec => []NothingInThePast
<1>1. ScheduleInv => NothingInThePast
  <2> SUFFICES ASSUME ScheduleInv, heap # <<>> PROVE now <= Head(heap).when
    BY DEF NothingInThePast
  <2>1. now \in Nat /\ heap \in Heaps(now)
    BY DEF ScheduleInv, TimeTypes, HeapIsAhead
  <2> QED
    BY <2>1, PopKeepsTheHeap
<1> QED
  BY <1>1, ScheduleHolds, PTL

\* Every shift that starts after the run does, and by the end of its
\* fast-forward, is opened at its start, for every pattern whose shifts start
\* apart and whatever else runs in between (engine/shift_manager.py:81).
THEOREM ShiftsChain == Spec => []ShiftsOpenOnTime
<1>1. ScheduleInv => ShiftsOpenOnTime
  <2> SUFFICES ASSUME ScheduleInv, NEW c \in StartedSince,
                      request.horizon = None \/
                        ShiftStart(c.date, pattern[c.index]) <= request.horizon
               PROVE  Opened(c)
    BY DEF ShiftsOpenOnTime
  <2>1. /\ TimeTypes /\ HeapIsAhead /\ PhaseIsKept /\ ChainIsKept
        /\ now \in Nat /\ due \in Nat /\ heap \in Heaps(now) /\ pattern \in Patterns
        /\ request.start \in Nat
    BY TimelineAssumption DEF ScheduleInv, TimeTypes, HeapIsAhead
  <2>2. /\ c.date \in 0..DateOf(MaxTime) /\ c.index \in DOMAIN pattern
        /\ c \in [date : 0..DateOf(MaxTime), index : DOMAIN pattern]
        /\ phase # "new" /\ request.start < StartOf(pattern, c)
        /\ \/ StartOf(pattern, c) < now
           \/ StartOf(pattern, c) = now /\ phase \in {"ended", "finished"}
    BY DEF StartedSince, StartOf
  <2>3. c \in Dated(pattern) /\ c.date \in Int
    <3>1. DateOf(MaxTime) \in Int
      BY WithinItsDate, TimelineAssumption
    <3> QED
      BY <2>2, <3>1 DEF Dated
  <2>4. StartOf(pattern, c) \in Int
    <3>1. pattern[c.index] \in ShiftSpec
      BY <2>1, <2>2, TimelineAssumption
    <3> QED
      BY <2>3, <3>1, StartsAndEnds DEF StartOf
  <2>5. Awaited(c)
    BY <2>2 DEF Awaited, StartOf
  <2>6. Followed \in Nat
    BY <2>1 DEF ChainIsKept
  <2>7. CASE StartOf(pattern, c) <= Followed
    BY <2>1, <2>3, <2>5, <2>7 DEF ChainIsKept
  <2>8. CASE Followed < StartOf(pattern, c)
    <3>1. /\ NextStart(Followed) \in Nat /\ NextStart(Followed) <= StartOf(pattern, c)
          /\ Opening(Followed).when = NextStart(Followed)
      BY <2>1, <2>3, <2>6, <2>8, NextShiftIsFirst
    <3>2. Contains(heap, Opening(Followed))
      <4>1. \/ Contains(heap, Opening(Followed))
            \/ request.horizon # None /\ request.horizon < NextStart(Followed)
        BY <2>1, <2>2 DEF ChainIsKept
      <4>2. request.horizon # None => request.horizon \in Nat
        BY <2>1, TimelineAssumption DEF TimeTypes
      <4> QED
        BY <2>4, <2>5, <3>1, <4>1, <4>2 DEF Awaited
    <3>3. heap # <<>> /\ Head(heap).when \in Nat /\ now <= Head(heap).when
          /\ Head(heap).when <= NextStart(Followed)
      <4>1. heap # <<>>
        BY <3>2 DEF Contains
      <4>2. /\ Head(heap) \in Tasks /\ now <= Head(heap).when
            /\ Tail(heap) \in Heaps(Head(heap).when)
            /\ Opening(Followed) = Head(heap) \/ Contains(Tail(heap), Opening(Followed))
        BY <2>1, <3>2, <4>1, PopKeepsTheHeap
      <4>3. Head(heap).when \in Nat
        BY <4>2 DEF Tasks
      <4>4. CASE Opening(Followed) = Head(heap)
        BY <4>1, <4>2, <4>3, <4>4, <3>1
      <4>5. CASE Contains(Tail(heap), Opening(Followed))
        BY <4>1, <4>2, <4>3, <4>5, <3>1 DEF Contains, Heaps
      <4> QED
        BY <4>2, <4>4, <4>5
    <3>4. StartOf(pattern, c) = now /\ phase \in {"ended", "finished"}
      BY <2>1, <2>2, <2>4, <3>1, <3>3
    <3>5. due < Head(heap).when /\ (now <= due \/ now = request.start)
      BY <2>1, <2>2, <3>3, <3>4 DEF PhaseIsKept, Drained
    <3> QED
      BY <2>1, <2>2, <2>4, <3>1, <3>3, <3>4, <3>5
  <2> QED
    BY <2>4, <2>6, <2>7, <2>8
<1> QED
  BY <1>1, ScheduleHolds, PTL

-----------------------------------------------------------------------------
(* The accounts of a machine come to the time that has passed, and the      *)
(* intervals of its states follow one another: an accrual, a transition, a  *)
(* stage, a tick and a flush each keep a machine sound, at whatever instant *)
(* of the run they come.                                                    *)

Duties == {"batch", "coupled", "continuous"}

Intervals == [sequence : Nat, state : State, entered : Nat, exited : Nat]

Machines ==
  [duty : Duties, state : State, since : Nat, lastAccrual : Nat, batch : BOOLEAN,
   lineActive : BOOLEAN, window : [Buckets -> Nat], lifetime : [Buckets -> Nat],
   history : Seq(Intervals), intervals : Nat]

\* What a machine has banked, and its bucket since, come to the time passed.
Exact(e, m, t) ==
  \A b \in Buckets :
    e[b] = m.lifetime[b] + (IF b = Bucket(m) THEN t - m.lastAccrual ELSE 0)

\* Intervals that follow one another from the start of the run to `since`.
Follow(all, since) ==
  LET EndOf(i) == IF i = 0 THEN request.start ELSE all[i].exited IN
  /\ \A i \in 1..Len(all) : all[i].sequence = i /\ all[i].entered = EndOf(i - 1)
  /\ since = EndOf(Len(all))

\* The machine m at t, when e has passed and the intervals w are in storage.
Sound(m, e, w, t) ==
  /\ m \in Machines /\ m.lastAccrual <= t
  /\ e \in [Buckets -> Nat] /\ Exact(e, m, t)
  /\ w \in Seq(Intervals)
  /\ Follow(w \o m.history, m.since) /\ m.intervals = Len(w \o m.history)

\* A machine whose accounts are banked up to t is sound whatever its bucket.
Banked(m, e, w, t) ==
  Sound(m, e, w, t) /\ m.lastAccrual = t /\ \A b \in Buckets : e[b] = m.lifetime[b]

LEMMA BucketIsOne ==
  ASSUME NEW m \in Machines
  PROVE  Bucket(m) \in Buckets
BY TimelineAssumption DEF Bucket, Buckets, Machines

\* accrue_time banks what has passed, and touches nothing but the accounts.
LEMMA AccrueBanks ==
  ASSUME NEW m, NEW e, NEW w, NEW t \in Nat, Sound(m, e, w, t)
  PROVE  /\ Banked(Accrue(m, t), e, w, t)
         /\ Accrue(m, t).state = m.state
         /\ Accrue(m, t).duty = m.duty /\ Accrue(m, t).since = m.since
         /\ Accrue(m, t).batch = m.batch /\ Accrue(m, t).lineActive = m.lineActive
         /\ Accrue(m, t).history = m.history /\ Accrue(m, t).intervals = m.intervals
<1> DEFINE a == Accrue(m, t)
           passed == t - m.lastAccrual
           k == Bucket(m)
<1>1. /\ m \in Machines /\ m.lastAccrual \in Nat /\ m.lastAccrual <= t
      /\ m.lifetime \in [Buckets -> Nat] /\ m.window \in [Buckets -> Nat]
      /\ e \in [Buckets -> Nat] /\ Exact(e, m, t)
  BY DEF Sound, Machines
<1>2. k \in Buckets /\ passed \in Nat
  BY <1>1, BucketIsOne
<1>3. CASE t <= m.lastAccrual
  <2>1. a = m /\ m.lastAccrual = t
    BY <1>1, <1>3 DEF Accrue
  <2>2. \A b \in Buckets : e[b] = m.lifetime[b]
    BY <1>1, <2>1 DEF Exact
  <2> QED
    BY <2>1, <2>2 DEF Banked
<1>4. CASE ~ (t <= m.lastAccrual)
  <2>1. a = [m EXCEPT !.lastAccrual = t, !.window[k] = @ + passed,
                      !.lifetime[k] = @ + passed]
    BY <1>4 DEF Accrue
  <2> HIDE DEF k, passed
  <2>2. /\ a \in Machines
        /\ a.lastAccrual = t
        /\ a.lifetime = [m.lifetime EXCEPT ![k] = @ + passed]
        /\ a.state = m.state /\ a.duty = m.duty /\ a.since = m.since
        /\ a.batch = m.batch /\ a.lineActive = m.lineActive
        /\ a.history = m.history /\ a.intervals = m.intervals
    <3> DEFINE window   == [m.window EXCEPT ![k] = @ + passed]
               lifetime == [m.lifetime EXCEPT ![k] = @ + passed]
    <3>1. window \in [Buckets -> Nat] /\ lifetime \in [Buckets -> Nat]
      BY <1>1, <1>2
    <3>2. a = [m EXCEPT !.lastAccrual = t, !.window = window, !.lifetime = lifetime]
      BY <1>1, <2>1 DEF Machines
    <3> HIDE DEF window, lifetime, a
    <3>3. /\ a \in Machines /\ a.lastAccrual = t /\ a.lifetime = lifetime
          /\ a.state = m.state /\ a.duty = m.duty /\ a.since = m.since
          /\ a.batch = m.batch /\ a.lineActive = m.lineActive
          /\ a.history = m.history /\ a.intervals = m.intervals
      BY <1>1, <3>1, <3>2 DEF Machines
    <3> QED
      BY <3>3 DEF lifetime
  <2> HIDE DEF a
  <2>3. \A b \in Buckets : e[b] = a.lifetime[b]
    BY <1>1, <1>2, <2>2 DEF Exact, passed, k
  <2>4. Exact(e, a, t)
    <3>1. \A b \in Buckets : a.lifetime[b] \in Nat
      BY <2>2 DEF Machines
    <3> QED
      BY <2>2, <2>3, <3>1 DEF Exact
  <2>5. Sound(a, e, w, t)
    BY <1>1, <2>2, <2>4 DEF Sound
  <2> QED
    BY <2>2, <2>3, <2>5 DEF Banked, a
<1> QED
  BY <1>3, <1>4

\* Once its accounts are banked, a machine may change its bucket.
LEMMA BankedStaysSound ==
  ASSUME NEW m, NEW e, NEW w, NEW t \in Nat, Banked(m, e, w, t), NEW n \in Machines,
         n.lastAccrual = t, n.lifetime = m.lifetime,
         Follow(w \o n.history, n.since), n.intervals = Len(w \o n.history)
  PROVE  Banked(n, e, w, t)
<1>1. Exact(e, n, t)
  BY DEF Exact, Banked, Machines
<1> QED
  BY <1>1 DEF Banked, Sound

\* One more interval, of the state that ends at t.
LEMMA FollowOn ==
  ASSUME NEW all \in Seq(Intervals), NEW since \in Nat, Follow(all, since),
         NEW interval \in Intervals, interval.sequence = Len(all) + 1,
         interval.entered = since
  PROVE  Follow(Append(all, interval), interval.exited)
<1> DEFINE n == Len(all)
           more == Append(all, interval)
<1>1. /\ n \in Nat /\ Len(more) = n + 1 /\ more[n + 1] = interval
      /\ \A i \in 1..n : more[i] = all[i]
  OBVIOUS
<1>2. /\ \A i \in 1..n : /\ all[i].sequence = i
                         /\ all[i].entered = IF i - 1 = 0 THEN request.start
                                                         ELSE all[i - 1].exited
      /\ since = IF n = 0 THEN request.start ELSE all[n].exited
  BY DEF Follow
<1> HIDE DEF n, more
<1>3. ASSUME NEW i \in 1..(n + 1)
      PROVE  /\ more[i].sequence = i
             /\ more[i].entered = IF i - 1 = 0 THEN request.start ELSE more[i - 1].exited
  <2>1. CASE i \in 1..n
    <3>1. i - 1 # 0 => i - 1 \in 1..n
      BY <1>1, <2>1
    <3> QED
      BY <1>1, <1>2, <2>1, <3>1
  <2>2. CASE i = n + 1
    <3>1. i - 1 = n /\ (n # 0 => n \in 1..n)
      BY <1>1, <2>2
    <3>2. n # 0 => more[n] = all[n]
      BY <1>1, <3>1
    <3> QED
      BY <1>1, <1>2, <2>2, <3>1, <3>2 DEF n
  <2> QED
    BY <1>1, <2>1, <2>2
<1>4. interval.exited = IF n + 1 = 0 THEN request.start ELSE more[n + 1].exited
  BY <1>1
<1> QED
  BY <1>1, <1>3, <1>4 DEF Follow, more

\* A transition banks the accounts and closes the interval of the old state.
LEMMA TransitionSound ==
  ASSUME NEW m, NEW e, NEW w, NEW t \in Nat, Sound(m, e, w, t), NEW s \in State
  PROVE  Sound(TransitionTo(m, s, t), e, w, t)
<1>1. CASE s = m.state
  BY <1>1 DEF TransitionTo
<1>2. CASE s # m.state
  <2> DEFINE a == Accrue(m, t)
             i == Interval(m, t)
             n == [a EXCEPT !.state = s, !.since = t, !.intervals = @ + 1,
                            !.history = Append(@, i)]
  <2>1. /\ m \in Machines /\ w \in Seq(Intervals)
        /\ Follow(w \o m.history, m.since) /\ m.intervals = Len(w \o m.history)
    BY DEF Sound
  <2>2. /\ Banked(a, e, w, t) /\ a \in Machines /\ a.lastAccrual = t
        /\ a.history = m.history /\ a.intervals = m.intervals
    <3>1. Banked(a, e, w, t) /\ a.history = m.history /\ a.intervals = m.intervals
      BY AccrueBanks
    <3> QED
      BY <3>1 DEF Banked, Sound
  <2>3. TransitionTo(m, s, t) = n
    BY <1>2 DEF TransitionTo
  <2>4. /\ i \in Intervals /\ i.sequence = m.intervals + 1
        /\ i.entered = m.since /\ i.exited = t
    BY <2>1 DEF Interval, Intervals, Machines
  <2> HIDE DEF a, i
  <2>5. /\ m.history \in Seq(Intervals) /\ m.since \in Nat
        /\ w \o m.history \in Seq(Intervals)
        /\ w \o Append(m.history, i) = Append(w \o m.history, i)
    <3>1. m.history \in Seq(Intervals) /\ m.since \in Nat
      BY <2>1 DEF Machines
    <3> QED
      BY <2>1, <2>4, <3>1
  <2>6. /\ n \in Machines /\ n.lastAccrual = t /\ n.lifetime = a.lifetime
        /\ n.history = Append(m.history, i) /\ n.since = t
        /\ n.intervals = m.intervals + 1
    <3> DEFINE more  == Append(m.history, i)
               count == m.intervals + 1
    <3>1. more \in Seq(Intervals) /\ count \in Nat
      BY <2>1, <2>4, <2>5 DEF Machines
    <3>2. n = [a EXCEPT !.state = s, !.since = t, !.intervals = count, !.history = more]
      BY <2>2 DEF Machines
    <3> HIDE DEF more, count, n
    <3>3. /\ n \in Machines /\ n.lastAccrual = t /\ n.lifetime = a.lifetime
          /\ n.history = more /\ n.since = t /\ n.intervals = count
      BY <2>2, <3>1, <3>2 DEF Machines
    <3> QED
      BY <3>3 DEF more, count
  <2>7. Follow(Append(w \o m.history, i), t)
    BY <2>1, <2>4, <2>5, FollowOn
  <2>8. Len(Append(w \o m.history, i)) = m.intervals + 1
    BY <2>1, <2>5
  <2> HIDE DEF n
  <2>9. Banked(n, e, w, t)
    BY <2>2, <2>5, <2>6, <2>7, <2>8, BankedStaysSound
  <2> QED
    BY <2>3, <2>9 DEF Banked
<1> QED
  BY <1>1, <1>2

\* The clock moves on, and what passes counts to the bucket the machine is in.
LEMMA TimePasses ==
  ASSUME NEW m, NEW e, NEW w, NEW t \in Nat, Sound(m, e, w, t),
         NEW u \in Nat, t <= u
  PROVE  Sound(m, [e EXCEPT ![Bucket(m)] = @ + (u - t)], w, u)
<1> DEFINE k == Bucket(m)
           passed == u - t
           f == [e EXCEPT ![k] = @ + passed]
<1>1. /\ m \in Machines /\ m.lastAccrual \in Nat /\ m.lastAccrual <= t
      /\ m.lifetime \in [Buckets -> Nat]
      /\ e \in [Buckets -> Nat] /\ Exact(e, m, t)
  BY DEF Sound, Machines
<1>2. k \in Buckets /\ passed \in Nat
  BY <1>1, BucketIsOne
<1>3. \A b \in Buckets :
        e[b] = m.lifetime[b] + (IF b = k THEN t - m.lastAccrual ELSE 0)
  BY <1>1 DEF Exact
<1> HIDE DEF k
<1>4. f \in [Buckets -> Nat]
  BY <1>1, <1>2
<1>5. \A b \in Buckets :
        f[b] = m.lifetime[b] + (IF b = k THEN u - m.lastAccrual ELSE 0)
  BY <1>1, <1>2, <1>3
<1>6. Exact(f, m, u)
  BY <1>5 DEF Exact, k
<1>7. m.lastAccrual <= u
  BY <1>1
<1> HIDE DEF f
<1>8. Sound(m, f, w, u)
  BY <1>4, <1>6, <1>7 DEF Sound
<1> QED
  BY <1>8 DEF f, k, passed

\* A stage begins or ends once the accounts are banked.
LEMMA StageSound ==
  ASSUME NEW m, NEW e, NEW w, NEW t \in Nat, Sound(m, e, w, t)
  PROVE  Sound(BeginStage(m, t), e, w, t) /\ Sound(EndStage(m, t), e, w, t)
<1> DEFINE a == Accrue(m, t)
<1>1. Banked(a, e, w, t)
  BY AccrueBanks
<1>2. /\ a \in Machines /\ a.lastAccrual = t
      /\ Follow(w \o a.history, a.since) /\ a.intervals = Len(w \o a.history)
  BY <1>1 DEF Banked, Sound
<1> HIDE DEF a
<1>3. ASSUME NEW holds \in BOOLEAN
      PROVE  Sound([a EXCEPT !.batch = holds], e, w, t)
  <2> DEFINE n == [a EXCEPT !.batch = holds]
  <2>1. /\ n \in Machines /\ n.lastAccrual = t /\ n.lifetime = a.lifetime
        /\ n.history = a.history /\ n.since = a.since /\ n.intervals = a.intervals
    BY <1>2 DEF Machines
  <2> HIDE DEF n
  <2>2. Banked(n, e, w, t)
    BY <1>1, <1>2, <2>1, BankedStaysSound
  <2> QED
    BY <2>2 DEF Banked, n
<1>4. BeginStage(m, t) = [a EXCEPT !.batch = TRUE] /\ EndStage(m, t) = [a EXCEPT !.batch = FALSE]
  BY DEF BeginStage, EndStage, a
<1> QED
  BY <1>3, <1>4

\* An operator comes to the machine, or none does.
LEMMA AssignSound ==
  ASSUME NEW m, NEW e, NEW w, NEW t \in Nat, Sound(m, e, w, t), NEW present \in BOOLEAN
  PROVE  Sound(AssignMachine(m, present, t), e, w, t)
<1>1. Sound(Accrue(m, t), e, w, t)
  BY AccrueBanks DEF Banked
<1>2. Sound(TransitionTo(m, IdleState, t), e, w, t) /\ Sound(TransitionTo(m, OfflineState, t), e, w, t)
  BY TimelineAssumption, TransitionSound
<1> QED
  BY <1>1, <1>2 DEF AssignMachine

\* A machine that is told of its line after the accrual, and then follows it.
LEMMA DutySound ==
  ASSUME NEW m, NEW e, NEW w, NEW t \in Nat, Banked(m, e, w, t), NEW active \in BOOLEAN
  PROVE  Sound(DutyTick(m, active, t), e, w, t)
<1> DEFINE told == IF m.duty = "coupled" THEN [m EXCEPT !.lineActive = active] ELSE m
<1>1. /\ m \in Machines /\ m.lastAccrual = t
      /\ Follow(w \o m.history, m.since) /\ m.intervals = Len(w \o m.history)
  BY DEF Banked, Sound
<1>2. /\ told \in Machines /\ told.lastAccrual = t /\ told.lifetime = m.lifetime
      /\ told.history = m.history /\ told.since = m.since /\ told.intervals = m.intervals
  <2>1. CASE m.duty = "coupled"
    BY <1>1, <2>1 DEF Machines
  <2>2. CASE m.duty # "coupled"
    BY <1>1, <2>2
  <2> QED
    BY <2>1, <2>2
<1>3. DutyTick(m, active, t) \in
        {told, TransitionTo(told, RunningState, t), TransitionTo(told, IdleState, t)}
  BY DEF DutyTick
<1> HIDE DEF told
<1>4. Sound(told, e, w, t)
  <2>1. Banked(told, e, w, t)
    BY <1>1, <1>2, BankedStaysSound
  <2> QED
    BY <2>1 DEF Banked
<1>5. Sound(TransitionTo(told, RunningState, t), e, w, t) /\ Sound(TransitionTo(told, IdleState, t), e, w, t)
  BY <1>4, TimelineAssumption, TransitionSound
<1> QED
  BY <1>3, <1>4, <1>5

\* A shift window is opened anew at an accrual.
LEMMA ResetSound ==
  ASSUME NEW m, NEW e, NEW w, NEW t \in Nat, Banked(m, e, w, t)
  PROVE  Sound(ResetWindow(m), e, w, t)
<1> DEFINE n == ResetWindow(m)
<1>1. /\ m \in Machines /\ m.lastAccrual = t
      /\ Follow(w \o m.history, m.since) /\ m.intervals = Len(w \o m.history)
  BY DEF Banked, Sound
<1>2. NoTime \in [Buckets -> Nat]
  BY DEF NoTime
<1>3. n = [m EXCEPT !.window = NoTime]
  BY DEF ResetWindow
<1> HIDE DEF n
<1>4. /\ n \in Machines /\ n.lastAccrual = t /\ n.lifetime = m.lifetime
      /\ n.history = m.history /\ n.since = m.since /\ n.intervals = m.intervals
  BY <1>1, <1>2, <1>3 DEF Machines
<1>5. Banked(n, e, w, t)
  BY <1>1, <1>4, BankedStaysSound
<1> QED
  BY <1>5 DEF Banked, n

\* The intervals go from the machine to storage, in their order.
LEMMA StoredSound ==
  ASSUME NEW m, NEW e, NEW w, NEW t \in Nat, Sound(m, e, w, t)
  PROVE  Sound([m EXCEPT !.history = <<>>], e, w \o m.history, t)
<1> DEFINE n == [m EXCEPT !.history = <<>>]
           all == w \o m.history
<1>1. /\ m \in Machines /\ m.lastAccrual <= t /\ e \in [Buckets -> Nat] /\ Exact(e, m, t)
      /\ w \in Seq(Intervals) /\ m.history \in Seq(Intervals)
      /\ Follow(all, m.since) /\ m.intervals = Len(all)
  BY DEF Sound, Machines
<1>2. /\ n \in Machines /\ n.lastAccrual = m.lastAccrual /\ n.lifetime = m.lifetime
      /\ n.history = <<>> /\ n.since = m.since /\ n.intervals = m.intervals
      /\ n.state = m.state /\ n.duty = m.duty /\ n.batch = m.batch
      /\ n.lineActive = m.lineActive
  <2>1. <<>> \in Seq(Intervals)
    OBVIOUS
  <2> QED
    BY <1>1, <2>1 DEF Machines
<1>3. all \in Seq(Intervals) /\ all \o <<>> = all
  BY <1>1
<1> HIDE DEF n, all
<1>4. Bucket(n) = Bucket(m)
  BY <1>2 DEF Bucket, HasWork
<1>5. Exact(e, n, t)
  BY <1>1, <1>2, <1>4 DEF Exact
<1>6. Sound(n, e, all, t)
  BY <1>1, <1>2, <1>3, <1>5 DEF Sound
<1> QED
  BY <1>6 DEF n, all

-----------------------------------------------------------------------------
\* The machine of the run is sound at every instant of it.

AccountInv ==
  /\ Sound(machine, elapsed, written.history, now)
  /\ written = [history |-> written.history, production |-> written.production,
                summaries |-> written.summaries]
  /\ phase = "finished" => machine.history = <<>>

\* A machine is sound from the start: nothing has passed and nothing is banked.
LEMMA AccountInit == Init => AccountInv
<1> SUFFICES ASSUME Init PROVE AccountInv
  OBVIOUS
<1>1. /\ request.start \in Nat /\ now = request.start /\ elapsed = NoTime
      /\ phase = "new" /\ written = [history |-> <<>>, production |-> <<>>, summaries |-> {}]
  BY TimelineAssumption DEF Init
<1>2. PICK duty \in Duties :
        machine = [duty |-> duty, state |-> OfflineState, since |-> request.start,
                   lastAccrual |-> request.start, batch |-> FALSE, lineActive |-> FALSE,
                   window |-> NoTime, lifetime |-> NoTime, history |-> <<>>, intervals |-> 0]
  BY DEF Init, Duties
<1>3. NoTime \in [Buckets -> Nat] /\ \A b \in Buckets : NoTime[b] = 0
  BY DEF NoTime
<1>4. /\ machine \in Machines /\ machine.lastAccrual = now /\ machine.lifetime = NoTime
      /\ machine.history = <<>> /\ machine.since = request.start /\ machine.intervals = 0
  <2>1. <<>> \in Seq(Intervals) /\ OfflineState \in State
    BY TimelineAssumption
  <2> QED
    BY <1>1, <1>2, <1>3, <2>1 DEF Machines
<1>5. Exact(elapsed, machine, now)
  BY <1>1, <1>3, <1>4 DEF Exact
<1>6. /\ written.history = <<>> /\ <<>> \in Seq(Intervals)
      /\ <<>> \o machine.history = <<>> /\ Len(<<>>) = 0
  BY <1>1, <1>4
<1>7. Follow(<<>>, request.start)
  BY <1>6 DEF Follow
<1>8. Sound(machine, elapsed, written.history, now)
  BY <1>1, <1>3, <1>4, <1>5, <1>6, <1>7 DEF Sound
<1> QED
  BY <1>1, <1>8 DEF AccountInv

\* The machine a callback finds when the clock has come to it.
LEMMA SoundAtTheTask ==
  ASSUME ScheduleInv, AccountInv, NEW kinds, Popped(kinds)
  PROVE  /\ Head(heap).when \in Nat /\ now' = Head(heap).when
         /\ Sound(machine, elapsed', written.history, Head(heap).when)
         /\ UNCHANGED <<request, phase>> /\ phase # "finished"
<1> DEFINE u == Head(heap).when
<1>1. /\ u \in Nat /\ now' = u /\ now <= u /\ phase \in {"forward", "live"}
      /\ UNCHANGED <<request, phase>>
  BY PopsAhead
<1>2. now \in Nat
  BY DEF ScheduleInv, TimeTypes
<1>3. elapsed' = [elapsed EXCEPT ![Bucket(machine)] = @ + (u - now)]
  BY <1>1 DEF Popped, Pass
<1> HIDE DEF u
<1>4. Sound(machine, elapsed', written.history, u)
  BY <1>1, <1>2, <1>3, TimePasses DEF AccountInv
<1> QED
  BY <1>1, <1>4 DEF u

\* What a step leaves sound of the machine is sound after it.
LEMMA SoundAfter ==
  ASSUME AccountInv, UNCHANGED request,
         Sound(machine', elapsed', written'.history, now'),
         \/ UNCHANGED written
         \/ \E rows, sums : written' = [written EXCEPT !.production = rows, !.summaries = sums]
         \/ written' = [written EXCEPT !.history = @ \o machine.history],
         phase' = "finished" => machine'.history = <<>>
  PROVE  AccountInv'
<1>1. written' = [history |-> written'.history, production |-> written'.production,
                  summaries |-> written'.summaries]
  BY DEF AccountInv
<1>2. Sound(machine, elapsed, written.history, now)'
  BY DEF Sound, Follow, Exact
<1> QED
  BY <1>1, <1>2 DEF AccountInv

\* Every step leaves the machine sound, whatever instant it comes at.
LEMMA AccountStep == ScheduleInv /\ AccountInv /\ [Next]_vars => AccountInv'
<1> SUFFICES ASSUME ScheduleInv, AccountInv, [Next]_vars PROVE AccountInv'
  OBVIOUS
<1> DEFINE w == written.history
           u == Head(heap).when
<1>1. /\ now \in Nat /\ due \in Nat /\ phase \in Phases
      /\ request.horizon # None => request.horizon \in Nat
  BY TimelineAssumption DEF ScheduleInv, TimeTypes
<1>2. /\ Sound(machine, elapsed, w, now)
      /\ written = [history |-> w, production |-> written.production,
                    summaries |-> written.summaries]
      /\ phase = "finished" => machine.history = <<>>
  BY DEF AccountInv
<1>3. CASE Start
  <2>1. /\ UNCHANGED <<request, now, written, elapsed>> /\ phase' # "finished"
        /\ machine' = machine \/ \E present \in BOOLEAN : machine' = AssignMachine(machine, present, now)
    BY <1>3 DEF Start, Begin, runVars, shiftVars
  <2>2. Sound(machine', elapsed, w, now)
    BY <1>1, <1>2, <2>1, AssignSound
  <2> QED
    BY <2>1, <2>2, SoundAfter
<1>4. CASE OnShiftStart
  <2>1. Popped({"shift_start"}) /\ UNCHANGED written
    BY <1>4 DEF OnShiftStart
  <2>2. PICK present \in BOOLEAN : machine' = AssignMachine(machine, present, u)
    BY <1>4 DEF OnShiftStart, Begin
  <2>3. /\ u \in Nat /\ now' = u /\ Sound(machine, elapsed', w, u)
        /\ UNCHANGED <<request, phase>> /\ phase # "finished"
    BY <2>1, SoundAtTheTask
  <2>4. Sound(machine', elapsed', w, u)
    BY <2>2, <2>3, AssignSound
  <2> QED
    BY <2>1, <2>3, <2>4, SoundAfter
<1>5. CASE OnShiftEnd
  <2>1. /\ Popped({"shift_end"}) /\ machine' = ResetWindow(Accrue(machine, u))
        /\ \E rows, sums : written' = [written EXCEPT !.production = rows, !.summaries = sums]
    BY <1>5 DEF OnShiftEnd, Flushed
  <2>2. /\ u \in Nat /\ now' = u /\ Sound(machine, elapsed', w, u)
        /\ UNCHANGED <<request, phase>> /\ phase # "finished"
    BY <2>1, SoundAtTheTask
  <2>3. Sound(machine', elapsed', w, u)
    <3>1. Banked(Accrue(machine, u), elapsed', w, u)
      BY <2>2, AccrueBanks
    <3> QED
      BY <2>1, <2>2, <3>1, ResetSound
  <2>4. written'.history = w
    BY <1>2, <2>1
  <2> QED
    BY <2>1, <2>2, <2>3, <2>4, SoundAfter
<1>6. CASE OnPeople
  <2> DEFINE kinds == {"clock_in", "break_start", "break_end", "overtime", "clock_out"}
  <2>1. Popped(kinds) /\ UNCHANGED <<machine, written>>
    BY <1>6 DEF OnPeople
  <2> HIDE DEF kinds
  <2>2. /\ u \in Nat /\ now' = u /\ Sound(machine, elapsed', w, u)
        /\ UNCHANGED <<request, phase>> /\ phase # "finished"
    BY <2>1, SoundAtTheTask
  <2> QED
    BY <2>1, <2>2, SoundAfter
<1>7. CASE ProductionTick
  <2>1. /\ Popped({"production"}) /\ UNCHANGED written
        /\ \/ machine' = Accrue(machine, u)
           \/ \E active \in BOOLEAN : machine' = DutyTick(Accrue(machine, u), active, u)
    BY <1>7 DEF ProductionTick
  <2>2. /\ u \in Nat /\ now' = u /\ Sound(machine, elapsed', w, u)
        /\ UNCHANGED <<request, phase>> /\ phase # "finished"
    BY <2>1, SoundAtTheTask
  <2>3. Banked(Accrue(machine, u), elapsed', w, u)
    BY <2>2, AccrueBanks
  <2>4. Sound(machine', elapsed', w, u)
    BY <2>1, <2>2, <2>3, DutySound DEF Banked
  <2> QED
    BY <2>1, <2>2, <2>4, SoundAfter
<1>8. CASE HousekeepingTick
  <2>1. /\ Popped({"housekeeping"})
        /\ written' = [written EXCEPT !.history = @ \o machine.history]
        /\ machine' = [machine EXCEPT !.history = <<>>]
    BY <1>8 DEF HousekeepingTick, FlushHistory
  <2>2. /\ u \in Nat /\ now' = u /\ Sound(machine, elapsed', w, u)
        /\ UNCHANGED <<request, phase>> /\ phase # "finished"
    BY <2>1, SoundAtTheTask
  <2>3. Sound(machine', elapsed', w \o machine.history, u)
    BY <2>1, <2>2, StoredSound
  <2>4. written'.history = w \o machine.history
    BY <1>2, <2>1
  <2> QED
    BY <2>1, <2>2, <2>3, <2>4, SoundAfter
<1>9. CASE Handler
  <2>1. PICK t \in now..due :
          /\ Pass(t)
          /\ \/ machine' = BeginStage(machine, t)
             \/ machine' = EndStage(machine, t)
             \/ \E s \in State \ {machine.state} : machine' = TransitionTo(machine, s, t)
    BY <1>9 DEF Handler
  <2>2. UNCHANGED <<request, phase, written>> /\ phase # "finished"
    BY <1>9 DEF Handler, runVars, phaseVars
  <2>3. /\ t \in Nat /\ now <= t /\ now' = t
        /\ elapsed' = [elapsed EXCEPT ![Bucket(machine)] = @ + (t - now)]
    <3>1. t \in Nat /\ now <= t /\ now' = t
      BY <1>1, <2>1 DEF Pass, Advance
    <3> QED
      BY <2>1, <3>1 DEF Pass
  <2>4. Sound(machine, elapsed', w, t)
    BY <1>1, <1>2, <2>3, TimePasses
  <2>5. Sound(machine', elapsed', w, t)
    BY <2>1, <2>3, <2>4, StageSound, TransitionSound
  <2> QED
    BY <2>2, <2>3, <2>5, SoundAfter
<1>10. CASE EndForward
  <2>1. /\ phase = "forward" /\ Pass(request.horizon)
        /\ machine' = Accrue(machine, now') /\ phase' # "finished"
        /\ UNCHANGED <<request, written>>
    BY <1>10 DEF EndForward, runVars
  <2>2. request.horizon \in Nat
    BY <1>1, <2>1 DEF ScheduleInv, PhaseIsKept
  <2>3. /\ now' \in Nat /\ now <= now'
        /\ elapsed' = [elapsed EXCEPT ![Bucket(machine)] = @ + (now' - now)]
    BY <1>1, <2>1, <2>2 DEF Pass, Advance
  <2>4. Sound(machine, elapsed', w, now')
    BY <1>1, <1>2, <2>3, TimePasses
  <2>5. Sound(machine', elapsed', w, now')
    BY <2>1, <2>3, <2>4, AccrueBanks DEF Banked
  <2> QED
    BY <2>1, <2>5, SoundAfter
<1>11. CASE LiveTurn \/ EndLive \/ Stop
  <2>1. /\ UNCHANGED <<request, now, machine, written, elapsed>> /\ phase' # "finished"
    BY <1>11 DEF LiveTurn, EndLive, Stop, runVars
  <2> QED
    BY <1>2, <2>1, SoundAfter
<1>12. CASE Finish
  <2> DEFINE a == Accrue(machine, now)
  <2>1. /\ written' = [written EXCEPT !.history = @ \o a.history]
        /\ machine' = [a EXCEPT !.history = <<>>]
        /\ UNCHANGED <<request, now, elapsed>>
    BY <1>12 DEF Finish, FlushHistory, runVars
  <2>2. Sound(a, elapsed, w, now) /\ a.history = machine.history
    BY <1>1, <1>2, AccrueBanks DEF Banked
  <2> HIDE DEF a
  <2>3. Sound(machine', elapsed, w \o machine.history, now)
    BY <1>1, <2>1, <2>2, StoredSound
  <2>4. written'.history = w \o machine.history /\ machine'.history = <<>>
    BY <1>2, <2>1, <2>2 DEF Sound, Machines
  <2> QED
    BY <2>1, <2>2, <2>3, <2>4, SoundAfter
<1>13. CASE Done \/ UNCHANGED vars
  <2>1. UNCHANGED <<request, phase, now, machine, written, elapsed>>
    BY <1>13 DEF Done, vars, runVars, phaseVars
  <2> QED
    BY <1>2, <2>1, SoundAfter
<1> QED
  BY <1>3, <1>4, <1>5, <1>6, <1>7, <1>8, <1>9, <1>10, <1>11, <1>12, <1>13 DEF Next

\* The machine is sound in every state of a run.
LEMMA AccountsHold == Spec => []AccountInv
BY ScheduleHolds, AccountInit, AccountStep, PTL DEF Spec

\* The time a machine has banked under each heading, with the time since its
\* last accrual under the heading of its present state, is the time that has
\* passed under that heading (domain/machine.py:510): no minute is lost, none
\* is counted twice and none is banked under the wrong heading.
THEOREM AccountsBalance == Spec => []AccountsAreExact
<1>1. AccountInv => AccountsAreExact
  BY DEF AccountInv, Sound, Exact, AccountsAreExact
<1> QED
  BY <1>1, AccountsHold, PTL

\* The state intervals of a machine, stored or about to be, follow one another
\* from the start of the run without a gap, and none is left behind when the
\* run is finished (simulator.py:683).
THEOREM HistoryUnbroken == Spec => []HistoryIsContinuous
<1>1. AccountInv => HistoryIsContinuous
  <2> SUFFICES ASSUME AccountInv PROVE HistoryIsContinuous
    OBVIOUS
  <2> DEFINE all == written.history \o machine.history
  <2>1. /\ written.history \in Seq(Intervals) /\ machine.history \in Seq(Intervals)
        /\ Follow(all, machine.since)
        /\ phase = "finished" => machine.history = <<>>
    BY DEF AccountInv, Sound, Machines
  <2>2. DOMAIN all = 1..Len(all)
    BY <2>1
  <2> QED
    BY <2>1, <2>2 DEF HistoryIsContinuous, Follow
<1> QED
  BY <1>1, AccountsHold, PTL

=============================================================================
