----------------------------- MODULE StorageSafety -----------------------------
(***************************************************************************)
(* Proofs about what a run leaves in the stores, for any number of batches, *)
(* episodes and outages, every flush threshold and both relational stores: *)
(*                                                                         *)
(*   NothingRefused         no row is lost while the store works            *)
(*   LossesStayBelow        a loss never reaches a row that owes nothing to *)
(*                          the table whose call failed                     *)
(*   ClosedRunsAreComplete  a closed run left nothing behind                *)
(*                                                                         *)
(* A flush goes through the tables in their declared order, a handler       *)
(* through its writes: each is a pass over a sequence, and what a pass does *)
(* follows from what one step does by going Along it.  Two arguments run    *)
(* side by side.  Nothing is forgotten (Kept): what was handed over is      *)
(* stored, buffered or lost, at every step of every call.  And nothing is   *)
(* refused (Sound): the rows in the buffer name only rows that are stored,  *)
(* buffered with them, or below a table an outage has hit; the order of the *)
(* tables then makes every foreign key resolve.  A handler keeps the second *)
(* when each of its writes names what was Known before it or what one of    *)
(* its earlier writes provides (Founding), and that is checked for every    *)
(* handler of Recording against what is Standing when it runs.              *)
(***************************************************************************)
EXTENDS Recording, FiniteSetTheorems, SequenceTheorems, WellFoundedInduction, TLAPS

-----------------------------------------------------------------------------
\* Induction over an interval.

Preceding == OpToRel(<, Nat)

\* A set of natural numbers that is not empty has a least one.
LEMMA Least ==
  ASSUME NEW T \in SUBSET Nat, T # {}
  PROVE  \E n \in T : \A k \in T : n <= k
<1>1. IsWellFoundedOn(Preceding, Nat)
  BY NatLessThanWellFounded DEF Preceding
<1>2. \A m, n \in Nat : m < n => <<m, n>> \in Preceding
  BY DEF Preceding, OpToRel
<1>3. PICK n \in T : \A k \in T : ~ (<<k, n>> \in Preceding)
  BY <1>1, WFMin
<1>4. ASSUME NEW k \in T PROVE n <= k
  <2>1. n \in Nat /\ k \in Nat
    OBVIOUS
  <2>2. ~ (k < n)
    BY <1>2, <1>3, <2>1
  <2> QED
    BY <2>1, <2>2
<1> QED
  BY <1>4

\* What holds at the start of a pass and is kept by each step holds throughout.
LEMMA Along ==
  ASSUME NEW n \in Nat, NEW T, 0 \in T,
         \A i \in 1..n : i - 1 \in T => i \in T
  PROVE  0..n \subseteq T
<1> DEFINE Missing == {i \in 0..n : i \notin T}
<1>1. SUFFICES ASSUME Missing # {} PROVE FALSE
  OBVIOUS
<1>2. PICK m \in Missing : \A k \in Missing : m <= k
  <2>1. Missing \in SUBSET Nat
    OBVIOUS
  <2> HIDE DEF Missing
  <2> QED
    BY <1>1, <2>1, Least
<1>3. m \in 1..n /\ m - 1 \in 0..n /\ ~ (m <= m - 1)
  BY <1>2
<1>4. m - 1 \in T
  BY <1>2, <1>3
<1> QED
  BY <1>2, <1>3, <1>4

-----------------------------------------------------------------------------
\* What a pass over a sequence does: it goes from step to step.
RowsInPass(g, s, W) ==
  /\ RowsIn(s, W) = g[Len(s)]
  /\ g[0] = <<>>
  /\ \A i \in 1..Len(s) :
        g[i] = IF s[i].table \in W THEN Append(g[i - 1], s[i]) ELSE g[i - 1]

\* Each of these recursive functions is such a pass.
LEMMA RowsInPassExists ==
  ASSUME NEW R, NEW s \in Seq(R), NEW W
  PROVE  \E g : RowsInPass(g, s, W)
<1> DEFINE n == Len(s)
           base == <<>>
           After(e, i) == IF s[i].table \in W THEN Append(e, s[i]) ELSE e
           Pass(f, m) == f = [i \in 0..m |-> IF i = 0 THEN base ELSE After(f[i - 1], i)]
           T == {m \in 0..n : \E f : Pass(f, m)}
           g == CHOOSE f : Pass(f, n)
<1>1. n \in Nat /\ RowsIn(s, W) = g[n]
  BY DEF RowsIn, Through
<1> HIDE DEF n, base, After
<1>2. 0 \in T
  <2> DEFINE f == [i \in 0..0 |-> base]
  <2>1. Pass(f, 0)
    OBVIOUS
  <2> HIDE DEF f
  <2> QED
    BY <1>1, <2>1
<1>3. ASSUME NEW m \in 1..n, m - 1 \in T PROVE m \in T
  <2>1. PICK f : Pass(f, m - 1)
    BY <1>3
  <2> DEFINE h == [i \in 0..m |-> IF i = m THEN After(f[m - 1], m) ELSE f[i]]
  <2>2. ASSUME NEW i \in 0..m
        PROVE  h[i] = IF i = 0 THEN base ELSE After(h[i - 1], i)
    <3>1. i # m => i \in 0..(m - 1) /\ f[i] = IF i = 0 THEN base ELSE After(f[i - 1], i)
      BY <1>1, <2>1
    <3>2. i # 0 => h[i - 1] = f[i - 1]
      BY <1>1
    <3> QED
      BY <1>1, <3>1, <3>2
  <2>3. Pass(h, m)
    BY <2>2
  <2> HIDE DEF h
  <2> QED
    BY <1>1, <2>3
<1> HIDE DEF T
<1>4. 0..n \subseteq T
  BY <1>1, <1>2, <1>3, Along
<1>5. Pass(g, n)
  <2>1. n \in T
    BY <1>1, <1>4
  <2>2. \E f : Pass(f, n)
    BY <2>1 DEF T
  <2> QED
    BY <2>2
<1> HIDE DEF g
<1>6. g[0] = base /\ \A i \in 1..n : g[i] = After(g[i - 1], i)
  BY <1>1, <1>5
<1> QED
  BY <1>1, <1>6 DEF RowsInPass, n, base, After

InsertPass(g, b, rows) ==
  /\ Insert(b, rows) = g[Len(rows)]
  /\ g[0] = b
  /\ \A i \in 1..Len(rows) : g[i] = InsertRow(g[i - 1], rows, i)

LEMMA InsertPassExists ==
  ASSUME NEW R, NEW rows \in Seq(R), NEW b
  PROVE  \E g : InsertPass(g, b, rows)
<1> DEFINE n == Len(rows)
           base == b
           After(e, i) == InsertRow(e, rows, i)
           Pass(f, m) == f = [i \in 0..m |-> IF i = 0 THEN base ELSE After(f[i - 1], i)]
           T == {m \in 0..n : \E f : Pass(f, m)}
           g == CHOOSE f : Pass(f, n)
<1>1. n \in Nat /\ Insert(b, rows) = g[n]
  BY DEF Insert
<1> HIDE DEF n, base, After
<1>2. 0 \in T
  <2> DEFINE f == [i \in 0..0 |-> base]
  <2>1. Pass(f, 0)
    OBVIOUS
  <2> HIDE DEF f
  <2> QED
    BY <1>1, <2>1
<1>3. ASSUME NEW m \in 1..n, m - 1 \in T PROVE m \in T
  <2>1. PICK f : Pass(f, m - 1)
    BY <1>3
  <2> DEFINE h == [i \in 0..m |-> IF i = m THEN After(f[m - 1], m) ELSE f[i]]
  <2>2. ASSUME NEW i \in 0..m
        PROVE  h[i] = IF i = 0 THEN base ELSE After(h[i - 1], i)
    <3>1. i # m => i \in 0..(m - 1) /\ f[i] = IF i = 0 THEN base ELSE After(f[i - 1], i)
      BY <1>1, <2>1
    <3>2. i # 0 => h[i - 1] = f[i - 1]
      BY <1>1
    <3> QED
      BY <1>1, <3>1, <3>2
  <2>3. Pass(h, m)
    BY <2>2
  <2> HIDE DEF h
  <2> QED
    BY <1>1, <2>3
<1> HIDE DEF T
<1>4. 0..n \subseteq T
  BY <1>1, <1>2, <1>3, Along
<1>5. Pass(g, n)
  <2>1. n \in T
    BY <1>1, <1>4
  <2>2. \E f : Pass(f, n)
    BY <2>1 DEF T
  <2> QED
    BY <2>2
<1> HIDE DEF g
<1>6. g[0] = base /\ \A i \in 1..n : g[i] = After(g[i - 1], i)
  BY <1>1, <1>5
<1> QED
  BY <1>1, <1>6 DEF InsertPass, n, base, After

\* What the facade has been handed, more rows included.
Newest(S, rows) == Through(Replace, S, rows)

NewestPass(g, S, rows) ==
  /\ Newest(S, rows) = g[Len(rows)]
  /\ g[0] = S
  /\ \A i \in 1..Len(rows) : g[i] = Replace(g[i - 1], rows[i])

LEMMA NewestPassExists ==
  ASSUME NEW R, NEW rows \in Seq(R), NEW S
  PROVE  \E g : NewestPass(g, S, rows)
<1> DEFINE n == Len(rows)
           base == S
           After(e, i) == Replace(e, rows[i])
           Pass(f, m) == f = [i \in 0..m |-> IF i = 0 THEN base ELSE After(f[i - 1], i)]
           T == {m \in 0..n : \E f : Pass(f, m)}
           g == CHOOSE f : Pass(f, n)
<1>1. n \in Nat /\ Newest(S, rows) = g[n]
  BY DEF Newest, Through
<1> HIDE DEF n, base, After
<1>2. 0 \in T
  <2> DEFINE f == [i \in 0..0 |-> base]
  <2>1. Pass(f, 0)
    OBVIOUS
  <2> HIDE DEF f
  <2> QED
    BY <1>1, <2>1
<1>3. ASSUME NEW m \in 1..n, m - 1 \in T PROVE m \in T
  <2>1. PICK f : Pass(f, m - 1)
    BY <1>3
  <2> DEFINE h == [i \in 0..m |-> IF i = m THEN After(f[m - 1], m) ELSE f[i]]
  <2>2. ASSUME NEW i \in 0..m
        PROVE  h[i] = IF i = 0 THEN base ELSE After(h[i - 1], i)
    <3>1. i # m => i \in 0..(m - 1) /\ f[i] = IF i = 0 THEN base ELSE After(f[i - 1], i)
      BY <1>1, <2>1
    <3>2. i # 0 => h[i - 1] = f[i - 1]
      BY <1>1
    <3> QED
      BY <1>1, <3>1, <3>2
  <2>3. Pass(h, m)
    BY <2>2
  <2> HIDE DEF h
  <2> QED
    BY <1>1, <2>3
<1> HIDE DEF T
<1>4. 0..n \subseteq T
  BY <1>1, <1>2, <1>3, Along
<1>5. Pass(g, n)
  <2>1. n \in T
    BY <1>1, <1>4
  <2>2. \E f : Pass(f, n)
    BY <2>1 DEF T
  <2> QED
    BY <2>2
<1> HIDE DEF g
<1>6. g[0] = base /\ \A i \in 1..n : g[i] = After(g[i - 1], i)
  BY <1>1, <1>5
<1> QED
  BY <1>1, <1>6 DEF NewestPass, n, base, After

\* The buffered rows of b, up to the commit.
Upserted(b) == Through(FlushTable, b, TABLE_ORDER)

UpsertedPass(g, b) ==
  /\ Upserted(b) = g[Len(TABLE_ORDER)]
  /\ g[0] = b
  /\ \A i \in 1..Len(TABLE_ORDER) : g[i] = FlushTable(g[i - 1], TABLE_ORDER[i])

LEMMA UpsertedPassExists ==
  ASSUME NEW b
  PROVE  \E g : UpsertedPass(g, b)
<1> DEFINE n == Len(TABLE_ORDER)
           base == b
           After(e, i) == FlushTable(e, TABLE_ORDER[i])
           Pass(f, m) == f = [i \in 0..m |-> IF i = 0 THEN base ELSE After(f[i - 1], i)]
           T == {m \in 0..n : \E f : Pass(f, m)}
           g == CHOOSE f : Pass(f, n)
<1>1. n \in Nat /\ Upserted(b) = g[n]
  BY DEF TABLE_ORDER, Upserted, Through
<1> HIDE DEF n, base, After
<1>2. 0 \in T
  <2> DEFINE f == [i \in 0..0 |-> base]
  <2>1. Pass(f, 0)
    OBVIOUS
  <2> HIDE DEF f
  <2> QED
    BY <1>1, <2>1
<1>3. ASSUME NEW m \in 1..n, m - 1 \in T PROVE m \in T
  <2>1. PICK f : Pass(f, m - 1)
    BY <1>3
  <2> DEFINE h == [i \in 0..m |-> IF i = m THEN After(f[m - 1], m) ELSE f[i]]
  <2>2. ASSUME NEW i \in 0..m
        PROVE  h[i] = IF i = 0 THEN base ELSE After(h[i - 1], i)
    <3>1. i # m => i \in 0..(m - 1) /\ f[i] = IF i = 0 THEN base ELSE After(f[i - 1], i)
      BY <1>1, <2>1
    <3>2. i # 0 => h[i - 1] = f[i - 1]
      BY <1>1
    <3> QED
      BY <1>1, <3>1, <3>2
  <2>3. Pass(h, m)
    BY <2>2
  <2> HIDE DEF h
  <2> QED
    BY <1>1, <2>3
<1> HIDE DEF T
<1>4. 0..n \subseteq T
  BY <1>1, <1>2, <1>3, Along
<1>5. Pass(g, n)
  <2>1. n \in T
    BY <1>1, <1>4
  <2>2. \E f : Pass(f, n)
    BY <2>1 DEF T
  <2> QED
    BY <2>2
<1> HIDE DEF g
<1>6. g[0] = base /\ \A i \in 1..n : g[i] = After(g[i - 1], i)
  BY <1>1, <1>5
<1> QED
  BY <1>1, <1>6 DEF UpsertedPass, n, base, After

\* The labels of b, in the writers.
Extended(b) == Through(LAMBDA e, r : Extend(e, <<r>>), b, b.evaluation)

ExtendedPass(g, b) ==
  /\ Extended(b) = g[Len(b.evaluation)]
  /\ g[0] = b
  /\ \A i \in 1..Len(b.evaluation) : g[i] = Extend(g[i - 1], <<b.evaluation[i]>>)

LEMMA ExtendedPassExists ==
  ASSUME NEW R, NEW b, b.evaluation \in Seq(R)
  PROVE  \E g : ExtendedPass(g, b)
<1> DEFINE n == Len(b.evaluation)
           base == b
           After(e, i) == Extend(e, <<b.evaluation[i]>>)
           Pass(f, m) == f = [i \in 0..m |-> IF i = 0 THEN base ELSE After(f[i - 1], i)]
           T == {m \in 0..n : \E f : Pass(f, m)}
           g == CHOOSE f : Pass(f, n)
<1>1. n \in Nat /\ Extended(b) = g[n]
  BY DEF Extended, Through
<1> HIDE DEF n, base, After
<1>2. 0 \in T
  <2> DEFINE f == [i \in 0..0 |-> base]
  <2>1. Pass(f, 0)
    OBVIOUS
  <2> HIDE DEF f
  <2> QED
    BY <1>1, <2>1
<1>3. ASSUME NEW m \in 1..n, m - 1 \in T PROVE m \in T
  <2>1. PICK f : Pass(f, m - 1)
    BY <1>3
  <2> DEFINE h == [i \in 0..m |-> IF i = m THEN After(f[m - 1], m) ELSE f[i]]
  <2>2. ASSUME NEW i \in 0..m
        PROVE  h[i] = IF i = 0 THEN base ELSE After(h[i - 1], i)
    <3>1. i # m => i \in 0..(m - 1) /\ f[i] = IF i = 0 THEN base ELSE After(f[i - 1], i)
      BY <1>1, <2>1
    <3>2. i # 0 => h[i - 1] = f[i - 1]
      BY <1>1
    <3> QED
      BY <1>1, <3>1, <3>2
  <2>3. Pass(h, m)
    BY <2>2
  <2> HIDE DEF h
  <2> QED
    BY <1>1, <2>3
<1> HIDE DEF T
<1>4. 0..n \subseteq T
  BY <1>1, <1>2, <1>3, Along
<1>5. Pass(g, n)
  <2>1. n \in T
    BY <1>1, <1>4
  <2>2. \E f : Pass(f, n)
    BY <2>1 DEF T
  <2> QED
    BY <2>2
<1> HIDE DEF g
<1>6. g[0] = base /\ \A i \in 1..n : g[i] = After(g[i - 1], i)
  BY <1>1, <1>5
<1> QED
  BY <1>1, <1>6 DEF ExtendedPass, n, base, After

\* The calls of one write.
Called(b, calls) == Through(WriteMany, b, calls)

CalledPass(g, b, calls) ==
  /\ Called(b, calls) = g[Len(calls)]
  /\ g[0] = b
  /\ \A i \in 1..Len(calls) : g[i] = WriteMany(g[i - 1], calls[i])

LEMMA CalledPassExists ==
  ASSUME NEW R, NEW calls \in Seq(R), NEW b
  PROVE  \E g : CalledPass(g, b, calls)
<1> DEFINE n == Len(calls)
           base == b
           After(e, i) == WriteMany(e, calls[i])
           Pass(f, m) == f = [i \in 0..m |-> IF i = 0 THEN base ELSE After(f[i - 1], i)]
           T == {m \in 0..n : \E f : Pass(f, m)}
           g == CHOOSE f : Pass(f, n)
<1>1. n \in Nat /\ Called(b, calls) = g[n]
  BY DEF Called, Through
<1> HIDE DEF n, base, After
<1>2. 0 \in T
  <2> DEFINE f == [i \in 0..0 |-> base]
  <2>1. Pass(f, 0)
    OBVIOUS
  <2> HIDE DEF f
  <2> QED
    BY <1>1, <2>1
<1>3. ASSUME NEW m \in 1..n, m - 1 \in T PROVE m \in T
  <2>1. PICK f : Pass(f, m - 1)
    BY <1>3
  <2> DEFINE h == [i \in 0..m |-> IF i = m THEN After(f[m - 1], m) ELSE f[i]]
  <2>2. ASSUME NEW i \in 0..m
        PROVE  h[i] = IF i = 0 THEN base ELSE After(h[i - 1], i)
    <3>1. i # m => i \in 0..(m - 1) /\ f[i] = IF i = 0 THEN base ELSE After(f[i - 1], i)
      BY <1>1, <2>1
    <3>2. i # 0 => h[i - 1] = f[i - 1]
      BY <1>1
    <3> QED
      BY <1>1, <3>1, <3>2
  <2>3. Pass(h, m)
    BY <2>2
  <2> HIDE DEF h
  <2> QED
    BY <1>1, <2>3
<1> HIDE DEF T
<1>4. 0..n \subseteq T
  BY <1>1, <1>2, <1>3, Along
<1>5. Pass(g, n)
  <2>1. n \in T
    BY <1>1, <1>4
  <2>2. \E f : Pass(f, n)
    BY <2>1 DEF T
  <2> QED
    BY <2>2
<1> HIDE DEF g
<1>6. g[0] = base /\ \A i \in 1..n : g[i] = After(g[i - 1], i)
  BY <1>1, <1>5
<1> QED
  BY <1>1, <1>6 DEF CalledPass, n, base, After

PerformPass(g, b, writes) ==
  /\ Perform(b, writes) = g[Len(writes)]
  /\ g[0] = b
  /\ \A i \in 1..Len(writes) : g[i] = Write(g[i - 1], writes[i])

LEMMA PerformPassExists ==
  ASSUME NEW R, NEW writes \in Seq(R), NEW b
  PROVE  \E g : PerformPass(g, b, writes)
<1> DEFINE n == Len(writes)
           base == b
           After(e, i) == Write(e, writes[i])
           Pass(f, m) == f = [i \in 0..m |-> IF i = 0 THEN base ELSE After(f[i - 1], i)]
           T == {m \in 0..n : \E f : Pass(f, m)}
           g == CHOOSE f : Pass(f, n)
<1>1. n \in Nat /\ Perform(b, writes) = g[n]
  BY DEF Perform, Through
<1> HIDE DEF n, base, After
<1>2. 0 \in T
  <2> DEFINE f == [i \in 0..0 |-> base]
  <2>1. Pass(f, 0)
    OBVIOUS
  <2> HIDE DEF f
  <2> QED
    BY <1>1, <2>1
<1>3. ASSUME NEW m \in 1..n, m - 1 \in T PROVE m \in T
  <2>1. PICK f : Pass(f, m - 1)
    BY <1>3
  <2> DEFINE h == [i \in 0..m |-> IF i = m THEN After(f[m - 1], m) ELSE f[i]]
  <2>2. ASSUME NEW i \in 0..m
        PROVE  h[i] = IF i = 0 THEN base ELSE After(h[i - 1], i)
    <3>1. i # m => i \in 0..(m - 1) /\ f[i] = IF i = 0 THEN base ELSE After(f[i - 1], i)
      BY <1>1, <2>1
    <3>2. i # 0 => h[i - 1] = f[i - 1]
      BY <1>1
    <3> QED
      BY <1>1, <3>1, <3>2
  <2>3. Pass(h, m)
    BY <2>2
  <2> HIDE DEF h
  <2> QED
    BY <1>1, <2>3
<1> HIDE DEF T
<1>4. 0..n \subseteq T
  BY <1>1, <1>2, <1>3, Along
<1>5. Pass(g, n)
  <2>1. n \in T
    BY <1>1, <1>4
  <2>2. \E f : Pass(f, n)
    BY <2>1 DEF T
  <2> QED
    BY <2>2
<1> HIDE DEF g
<1>6. g[0] = base /\ \A i \in 1..n : g[i] = After(g[i - 1], i)
  BY <1>1, <1>5
<1> QED
  BY <1>1, <1>6 DEF PerformPass, n, base, After

-----------------------------------------------------------------------------
\* The rows of some tables, in their order.
LEMMA RowsInAppend ==
  ASSUME NEW R, NEW s \in Seq(R), NEW x \in R, NEW W
  PROVE  /\ x.table \in W => RowsIn(Append(s, x), W) = Append(RowsIn(s, W), x)
         /\ x.table \notin W => RowsIn(Append(s, x), W) = RowsIn(s, W)
<1> DEFINE n == Len(s)
           u == Append(s, x)
<1>1. n \in Nat /\ u \in Seq(R) /\ Len(u) = n + 1 /\ u[n + 1] = x /\ \A i \in 1..n : u[i] = s[i]
  OBVIOUS
<1>2. PICK g : RowsInPass(g, s, W)
  BY RowsInPassExists
<1>3. PICK h : RowsInPass(h, u, W)
  BY <1>1, RowsInPassExists
<1> HIDE DEF n, u
<1> DEFINE After(q, y) == IF y.table \in W THEN Append(q, y) ELSE q
<1>4. /\ RowsIn(s, W) = g[n] /\ g[0] = <<>>
      /\ \A i \in 1..n : g[i] = After(g[i - 1], s[i])
  BY <1>2 DEF RowsInPass, n
<1>5. /\ RowsIn(u, W) = h[n + 1] /\ h[0] = <<>>
      /\ \A i \in 1..n + 1 : h[i] = After(h[i - 1], u[i])
  BY <1>1, <1>3 DEF RowsInPass
<1> HIDE DEF After
<1> DEFINE T == {i \in 0..n : h[i] = g[i]}
<1>6. 0 \in T /\ \A i \in 1..n : i - 1 \in T => i \in T
  BY <1>1, <1>4, <1>5
<1> HIDE DEF T
<1>7. 0..n \subseteq T
  BY <1>1, <1>6, Along
<1>8. h[n] = g[n]
  BY <1>1, <1>7 DEF T
<1>9. h[n + 1] = After(h[n], x)
  BY <1>1, <1>5
<1> QED
  BY <1>4, <1>5, <1>8, <1>9 DEF u, After

LEMMA RowsInNone ==
  ASSUME NEW W
  PROVE  RowsIn(<<>>, W) = <<>>
<1>1. <<>> \in Seq({}) /\ Len(<<>>) = 0
  OBVIOUS
<1>2. PICK g : RowsInPass(g, <<>>, W)
  BY <1>1, RowsInPassExists
<1> QED
  BY <1>1, <1>2 DEF RowsInPass

\* A prefix of a sequence is the one before it, and an element.
LEMMA PrefixStep ==
  ASSUME NEW R, NEW s \in Seq(R), NEW i \in 1..Len(s)
  PROVE  /\ SubSeq(s, 1, i) = Append(SubSeq(s, 1, i - 1), s[i])
         /\ SubSeq(s, 1, i - 1) \in Seq(R) /\ SubSeq(s, 1, i) \in Seq(R)
         /\ s[i] \in R
OBVIOUS

LEMMA PrefixEnds ==
  ASSUME NEW R, NEW s \in Seq(R)
  PROVE  SubSeq(s, 1, 0) = <<>> /\ SubSeq(s, 1, Len(s)) = s
OBVIOUS

\* Where an argument goes from each prefix of a sequence to the next.
LEMMA ByPrefixes ==
  ASSUME NEW R, NEW s \in Seq(R), NEW T, <<>> \in T,
         \A q \in Seq(R), x \in R : q \in T => Append(q, x) \in T
  PROVE  s \in T
<1> DEFINE n == Len(s)
           I == {i \in 0..n : SubSeq(s, 1, i) \in T}
<1>1. n \in Nat
  OBVIOUS
<1>2. 0 \in I
  <2>1. SubSeq(s, 1, 0) \in T
    BY PrefixEnds
  <2> QED
    BY <1>1, <2>1
<1>3. ASSUME NEW i \in 1..n, i - 1 \in I PROVE i \in I
  <2>1. SubSeq(s, 1, i - 1) \in Seq(R) /\ s[i] \in R /\ SubSeq(s, 1, i - 1) \in T
    BY <1>3, PrefixStep
  <2>2. SubSeq(s, 1, i) \in T
    BY <2>1, PrefixStep
  <2> QED
    BY <2>2
<1> HIDE DEF I
<1>4. 0..n \subseteq I
  BY <1>1, <1>2, <1>3, Along
<1>5. SubSeq(s, 1, n) \in T
  BY <1>1, <1>4 DEF I
<1> QED
  BY <1>5, PrefixEnds

\* Picking rows out keeps their type.
LEMMA RowsInType ==
  ASSUME NEW R, NEW s \in Seq(R), NEW W
  PROVE  RowsIn(s, W) \in Seq(R)
<1> DEFINE T == {q \in Seq(R) : RowsIn(q, W) \in Seq(R)}
<1>1. <<>> \in T
  <2>1. <<>> \in Seq(R) /\ RowsIn(<<>>, W) = <<>>
    BY RowsInNone
  <2> QED
    BY <2>1
<1>2. ASSUME NEW q \in Seq(R), NEW x \in R, q \in T PROVE Append(q, x) \in T
  <2>1. Append(q, x) \in Seq(R) /\ RowsIn(q, W) \in Seq(R) /\ Append(RowsIn(q, W), x) \in Seq(R)
    BY <1>2
  <2> QED
    BY <2>1, RowsInAppend
<1> HIDE DEF T
<1>3. s \in T
  BY <1>1, <1>2, ByPrefixes
<1> QED
  BY <1>3 DEF T

\* The elements of a sequence.
Elements(s) == {s[i] : i \in 1..Len(s)}

\* The elements of a sequence as it grows.
LEMMA ElementsAppend ==
  ASSUME NEW R, NEW s \in Seq(R), NEW x \in R
  PROVE  Elements(Append(s, x)) = Elements(s) \cup {x}
<1>1. /\ Len(s) \in Nat /\ Len(Append(s, x)) = Len(s) + 1 /\ Append(s, x)[Len(s) + 1] = x
      /\ \A i \in 1..Len(s) : Append(s, x)[i] = s[i]
  OBVIOUS
<1> QED
  BY <1>1 DEF Elements

LEMMA ElementsNone == Elements(<<>>) = {}
BY DEF Elements

LEMMA ElementsEmpty ==
  ASSUME NEW R, NEW s \in Seq(R), Elements(s) = {}
  PROVE  s = <<>>
<1>1. Len(s) \in Nat /\ \A i \in 1..Len(s) : s[i] \in Elements(s)
  BY DEF Elements
<1>2. Len(s) = 0
  BY <1>1
<1> QED
  BY <1>2

LEMMA ElementsType ==
  ASSUME NEW R, NEW s \in Seq(R)
  PROVE  Elements(s) \subseteq R
BY DEF Elements

LEMMA ElementsConcat ==
  ASSUME NEW R, NEW a \in Seq(R), NEW b \in Seq(R)
  PROVE  Elements(a \o b) = Elements(a) \cup Elements(b)
<1> DEFINE T == {q \in Seq(R) : Elements(a \o q) = Elements(a) \cup Elements(q)}
<1>1. <<>> \in T
  BY ElementsNone
<1>2. ASSUME NEW q \in Seq(R), NEW x \in R, q \in T PROVE Append(q, x) \in T
  <2>1. Append(q, x) \in Seq(R) /\ a \o q \in Seq(R) /\ a \o Append(q, x) = Append(a \o q, x)
    OBVIOUS
  <2>2. Elements(a \o q) = Elements(a) \cup Elements(q)
    BY <1>2
  <2>3. \A p \in Seq(R) : Elements(Append(p, x)) = Elements(p) \cup {x}
    BY ElementsAppend
  <2>4. Elements(a \o Append(q, x)) = Elements(a) \cup Elements(Append(q, x))
    BY <2>1, <2>2, <2>3
  <2> QED
    BY <2>1, <2>4
<1> HIDE DEF T
<1>3. b \in T
  BY <1>1, <1>2, ByPrefixes
<1> QED
  BY <1>3 DEF T

\* The rows picked out are those of the tables.
LEMMA RowsInElements ==
  ASSUME NEW R, NEW s \in Seq(R), NEW W
  PROVE  Elements(RowsIn(s, W)) = {r \in Elements(s) : r.table \in W}
<1> DEFINE T == {q \in Seq(R) : Elements(RowsIn(q, W)) = {r \in Elements(q) : r.table \in W}}
<1>1. <<>> \in T
  BY RowsInNone, ElementsNone
<1>2. ASSUME NEW q \in Seq(R), NEW x \in R, q \in T PROVE Append(q, x) \in T
  <2>1. Append(q, x) \in Seq(R) /\ RowsIn(q, W) \in Seq(R)
    BY RowsInType
  <2>2. Elements(RowsIn(q, W)) = {r \in Elements(q) : r.table \in W}
    BY <1>2
  <2>3. Elements(Append(q, x)) = Elements(q) \cup {x}
    BY ElementsAppend
  <2>4. CASE x.table \in W
    <3>1. RowsIn(Append(q, x), W) = Append(RowsIn(q, W), x)
      BY <2>4, RowsInAppend
    <3>2. Elements(Append(RowsIn(q, W), x)) = Elements(RowsIn(q, W)) \cup {x}
      BY <2>1, ElementsAppend
    <3> QED
      BY <2>1, <2>2, <2>3, <2>4, <3>1, <3>2
  <2>5. CASE x.table \notin W
    <3>1. RowsIn(Append(q, x), W) = RowsIn(q, W)
      BY <2>5, RowsInAppend
    <3> QED
      BY <2>1, <2>2, <2>3, <2>5, <3>1
  <2> QED
    BY <2>4, <2>5
<1> HIDE DEF T
<1>3. s \in T
  BY <1>1, <1>2, ByPrefixes
<1> QED
  BY <1>3 DEF T

\* Picking rows out of two sequences in turn.
LEMMA RowsInConcat ==
  ASSUME NEW R, NEW a \in Seq(R), NEW b \in Seq(R), NEW W
  PROVE  RowsIn(a \o b, W) = RowsIn(a, W) \o RowsIn(b, W)
<1> DEFINE T == {q \in Seq(R) : RowsIn(a \o q, W) = RowsIn(a, W) \o RowsIn(q, W)}
<1>0. RowsIn(a, W) \in Seq(R)
  BY RowsInType
<1>1. <<>> \in T
  BY <1>0, RowsInNone
<1>2. ASSUME NEW q \in Seq(R), NEW x \in R, q \in T PROVE Append(q, x) \in T
  <2>1. Append(q, x) \in Seq(R) /\ a \o q \in Seq(R) /\ a \o Append(q, x) = Append(a \o q, x)
    OBVIOUS
  <2>2. RowsIn(q, W) \in Seq(R)
    BY RowsInType
  <2>3. RowsIn(a, W) \o Append(RowsIn(q, W), x) = Append(RowsIn(a, W) \o RowsIn(q, W), x)
    BY <1>0, <2>2
  <2>4. RowsIn(a \o q, W) = RowsIn(a, W) \o RowsIn(q, W)
    BY <1>2
  <2>5. CASE x.table \in W
    <3>1. RowsIn(Append(q, x), W) = Append(RowsIn(q, W), x)
      BY <2>5, RowsInAppend
    <3>2. RowsIn(Append(a \o q, x), W) = Append(RowsIn(a \o q, W), x)
      BY <2>1, <2>5, RowsInAppend
    <3> QED
      BY <2>1, <2>3, <2>4, <3>1, <3>2
  <2>6. CASE x.table \notin W
    <3>1. RowsIn(Append(q, x), W) = RowsIn(q, W)
      BY <2>6, RowsInAppend
    <3>2. RowsIn(Append(a \o q, x), W) = RowsIn(a \o q, W)
      BY <2>1, <2>6, RowsInAppend
    <3> QED
      BY <2>1, <2>4, <3>1, <3>2
  <2> QED
    BY <2>5, <2>6
<1> HIDE DEF T
<1>3. b \in T
  BY <1>1, <1>2, ByPrefixes
<1> QED
  BY <1>3 DEF T

\* Picking rows out twice.
LEMMA RowsInRowsIn ==
  ASSUME NEW R, NEW s \in Seq(R), NEW V, NEW W
  PROVE  /\ W \subseteq V => RowsIn(RowsIn(s, V), W) = RowsIn(s, W)
         /\ V \cap W = {} => RowsIn(RowsIn(s, V), W) = <<>>
<1> DEFINE T == {q \in Seq(R) : /\ W \subseteq V => RowsIn(RowsIn(q, V), W) = RowsIn(q, W)
                                /\ V \cap W = {} => RowsIn(RowsIn(q, V), W) = <<>>}
<1>1. <<>> \in T
  BY RowsInNone
<1>2. ASSUME NEW q \in Seq(R), NEW x \in R, q \in T PROVE Append(q, x) \in T
  <2>1. Append(q, x) \in Seq(R) /\ RowsIn(q, V) \in Seq(R)
    BY RowsInType
  <2>2. /\ W \subseteq V => RowsIn(RowsIn(q, V), W) = RowsIn(q, W)
        /\ V \cap W = {} => RowsIn(RowsIn(q, V), W) = <<>>
    BY <1>2
  <2>3. x.table \in V => RowsIn(Append(q, x), V) = Append(RowsIn(q, V), x)
    BY RowsInAppend
  <2>4. x.table \notin V => RowsIn(Append(q, x), V) = RowsIn(q, V)
    BY RowsInAppend
  <2>5. x.table \in W => /\ RowsIn(Append(q, x), W) = Append(RowsIn(q, W), x)
                         /\ RowsIn(Append(RowsIn(q, V), x), W) = Append(RowsIn(RowsIn(q, V), W), x)
    BY <2>1, RowsInAppend
  <2>6. x.table \notin W => /\ RowsIn(Append(q, x), W) = RowsIn(q, W)
                            /\ RowsIn(Append(RowsIn(q, V), x), W) = RowsIn(RowsIn(q, V), W)
    BY <2>1, RowsInAppend
  <2> QED
    BY <2>1, <2>2, <2>3, <2>4, <2>5, <2>6
<1> HIDE DEF T
<1>3. s \in T
  BY <1>1, <1>2, ByPrefixes
<1> QED
  BY <1>3 DEF T

-----------------------------------------------------------------------------
\* The declared tables.
LEMMA ProvenanceTablesRead ==
  DOMAIN ProvenanceTables = {"config_versions", "runs"}
BY DEF ProvenanceTables

LEMMA VocabularyTablesRead ==
  DOMAIN VocabularyTables = {"states", "event_types", "equipment_classes"}
BY DEF VocabularyTables

LEMMA PlantTablesRead ==
  DOMAIN PlantTables = {"plants", "units", "machines", "sensors", "plc_tags", "employees"}
BY DEF PlantTables

LEMMA CatalogueTablesRead ==
  DOMAIN CatalogueTables = {"products", "shifts", "shift_instances"}
BY DEF CatalogueTables

LEMMA OperationTablesRead ==
  DOMAIN OperationTables = {"events", "machine_state_history", "production_records",
    "oee_snapshots"}
BY DEF OperationTables

LEMMA BatchTablesRead ==
  DOMAIN BatchTables = {"batches", "batch_stages", "qc_results"}
BY DEF BatchTables

LEMMA QualityTablesRead ==
  DOMAIN QualityTables = {"failures", "maintenance", "deviations", "rca", "rca_evidence",
    "capa"}
BY DEF QualityTables

LEMMA EventTablesRead ==
  DOMAIN EventTables = {"employee_events", "machine_events"}
BY DEF EventTables

\* The foreign keys of a table are those its group declares.
LEMMA ReferencesRead ==
  /\ DOMAIN References = (DOMAIN ProvenanceTables) \cup (DOMAIN VocabularyTables) \cup
                         (DOMAIN PlantTables) \cup (DOMAIN CatalogueTables) \cup (DOMAIN
                         OperationTables) \cup (DOMAIN BatchTables) \cup (DOMAIN
                         QualityTables) \cup (DOMAIN EventTables)
  /\ \A t \in DOMAIN ProvenanceTables : References[t] = ProvenanceTables[t]
  /\ \A t \in DOMAIN VocabularyTables : References[t] = VocabularyTables[t]
  /\ \A t \in DOMAIN PlantTables : References[t] = PlantTables[t]
  /\ \A t \in DOMAIN CatalogueTables : References[t] = CatalogueTables[t]
  /\ \A t \in DOMAIN OperationTables : References[t] = OperationTables[t]
  /\ \A t \in DOMAIN BatchTables : References[t] = BatchTables[t]
  /\ \A t \in DOMAIN QualityTables : References[t] = QualityTables[t]
  /\ \A t \in DOMAIN EventTables : References[t] = EventTables[t]
<1>1. DOMAIN References = (DOMAIN ProvenanceTables) \cup (DOMAIN VocabularyTables) \cup
                          (DOMAIN PlantTables) \cup (DOMAIN CatalogueTables) \cup (DOMAIN
                          OperationTables) \cup (DOMAIN BatchTables) \cup (DOMAIN
                          QualityTables) \cup (DOMAIN EventTables)
  BY DEF References, Joined
<1>2. \A t \in DOMAIN ProvenanceTables : References[t] = ProvenanceTables[t]
  BY ProvenanceTablesRead, Zenon DEF References, Joined
<1>3. \A t \in DOMAIN VocabularyTables : References[t] = VocabularyTables[t]
  BY ProvenanceTablesRead, VocabularyTablesRead, Zenon DEF References, Joined
<1>4. \A t \in DOMAIN PlantTables : References[t] = PlantTables[t]
  BY ProvenanceTablesRead, VocabularyTablesRead, PlantTablesRead, Zenon DEF References,
       Joined
<1>5. \A t \in DOMAIN CatalogueTables : References[t] = CatalogueTables[t]
  BY ProvenanceTablesRead, VocabularyTablesRead, PlantTablesRead, CatalogueTablesRead, Zenon
       DEF References, Joined
<1>6. \A t \in DOMAIN OperationTables : References[t] = OperationTables[t]
  BY ProvenanceTablesRead, VocabularyTablesRead, PlantTablesRead, CatalogueTablesRead,
       OperationTablesRead, Zenon DEF References, Joined
<1>7. \A t \in DOMAIN BatchTables : References[t] = BatchTables[t]
  BY ProvenanceTablesRead, VocabularyTablesRead, PlantTablesRead, CatalogueTablesRead,
       OperationTablesRead, BatchTablesRead, Zenon DEF References, Joined
<1>8. \A t \in DOMAIN QualityTables : References[t] = QualityTables[t]
  BY ProvenanceTablesRead, VocabularyTablesRead, PlantTablesRead, CatalogueTablesRead,
       OperationTablesRead, BatchTablesRead, QualityTablesRead, Zenon DEF References, Joined
<1>9. \A t \in DOMAIN EventTables : References[t] = EventTables[t]
  BY ProvenanceTablesRead, VocabularyTablesRead, PlantTablesRead, CatalogueTablesRead,
       OperationTablesRead, BatchTablesRead, QualityTablesRead, EventTablesRead, Zenon DEF
       References, Joined
<1> QED
  BY <1>1, <1>2, <1>3, <1>4, <1>5, <1>6, <1>7, <1>8, <1>9

\* Where each table comes in a flush.
LEMMA Positions ==
  /\ Len(TABLE_ORDER) = 29
  /\ TABLE_ORDER[1] = "config_versions"
  /\ TABLE_ORDER[2] = "runs"
  /\ TABLE_ORDER[3] = "states"
  /\ TABLE_ORDER[4] = "event_types"
  /\ TABLE_ORDER[5] = "equipment_classes"
  /\ TABLE_ORDER[6] = "plants"
  /\ TABLE_ORDER[7] = "units"
  /\ TABLE_ORDER[8] = "machines"
  /\ TABLE_ORDER[9] = "sensors"
  /\ TABLE_ORDER[10] = "plc_tags"
  /\ TABLE_ORDER[11] = "employees"
  /\ TABLE_ORDER[12] = "products"
  /\ TABLE_ORDER[13] = "shifts"
  /\ TABLE_ORDER[14] = "shift_instances"
  /\ TABLE_ORDER[15] = "batches"
  /\ TABLE_ORDER[16] = "batch_stages"
  /\ TABLE_ORDER[17] = "qc_results"
  /\ TABLE_ORDER[18] = "failures"
  /\ TABLE_ORDER[19] = "maintenance"
  /\ TABLE_ORDER[20] = "deviations"
  /\ TABLE_ORDER[21] = "rca"
  /\ TABLE_ORDER[22] = "rca_evidence"
  /\ TABLE_ORDER[23] = "capa"
  /\ TABLE_ORDER[24] = "machine_state_history"
  /\ TABLE_ORDER[25] = "production_records"
  /\ TABLE_ORDER[26] = "oee_snapshots"
  /\ TABLE_ORDER[27] = "employee_events"
  /\ TABLE_ORDER[28] = "machine_events"
  /\ TABLE_ORDER[29] = "events"
BY DEF TABLE_ORDER

\* A table is flushed after every table it points to.
LEMMA Ordered ==
  \A i \in 1..Len(TABLE_ORDER) :
    /\ TABLE_ORDER[i] \in DOMAIN References
    /\ \A p \in References[TABLE_ORDER[i]] : \E j \in 1..i - 1 : TABLE_ORDER[j] = p
<1> DEFINE Fits(i) == /\ TABLE_ORDER[i] \in DOMAIN References
                      /\ \A p \in References[TABLE_ORDER[i]] : \E j \in 1..i - 1 :
                             TABLE_ORDER[j] = p
<1>1. Fits(1)
  BY ReferencesRead, Positions DEF ProvenanceTables
<1>2. Fits(2)
  BY ReferencesRead, Positions DEF ProvenanceTables
<1>3. Fits(3)
  BY ReferencesRead, Positions DEF VocabularyTables
<1>4. Fits(4)
  BY ReferencesRead, Positions DEF VocabularyTables
<1>5. Fits(5)
  BY ReferencesRead, Positions DEF VocabularyTables
<1>6. Fits(6)
  BY ReferencesRead, Positions DEF PlantTables
<1>7. Fits(7)
  BY ReferencesRead, Positions DEF PlantTables
<1>8. Fits(8)
  BY ReferencesRead, Positions DEF PlantTables
<1>9. Fits(9)
  BY ReferencesRead, Positions DEF PlantTables
<1>10. Fits(10)
  BY ReferencesRead, Positions DEF PlantTables
<1>11. Fits(11)
  BY ReferencesRead, Positions DEF PlantTables
<1>12. Fits(12)
  BY ReferencesRead, Positions DEF CatalogueTables
<1>13. Fits(13)
  BY ReferencesRead, Positions DEF CatalogueTables
<1>14. Fits(14)
  BY ReferencesRead, Positions DEF CatalogueTables
<1>15. Fits(15)
  BY ReferencesRead, Positions DEF BatchTables
<1>16. Fits(16)
  BY ReferencesRead, Positions DEF BatchTables
<1>17. Fits(17)
  BY ReferencesRead, Positions DEF BatchTables
<1>18. Fits(18)
  BY ReferencesRead, Positions DEF QualityTables
<1>19. Fits(19)
  BY ReferencesRead, Positions DEF QualityTables
<1>20. Fits(20)
  BY ReferencesRead, Positions DEF QualityTables
<1>21. Fits(21)
  BY ReferencesRead, Positions DEF QualityTables
<1>22. Fits(22)
  BY ReferencesRead, Positions DEF QualityTables
<1>23. Fits(23)
  BY ReferencesRead, Positions DEF QualityTables
<1>24. Fits(24)
  BY ReferencesRead, Positions DEF OperationTables
<1>25. Fits(25)
  BY ReferencesRead, Positions DEF OperationTables
<1>26. Fits(26)
  BY ReferencesRead, Positions DEF OperationTables
<1>27. Fits(27)
  BY ReferencesRead, Positions DEF EventTables
<1>28. Fits(28)
  BY ReferencesRead, Positions DEF EventTables
<1>29. Fits(29)
  BY ReferencesRead, Positions DEF OperationTables
<1> HIDE DEF Fits
<1>30. \A i \in 1..29 : Fits(i)
  BY <1>1, <1>2, <1>3, <1>4, <1>5, <1>6, <1>7, <1>8, <1>9, <1>10, <1>11, <1>12, <1>13,
       <1>14, <1>15, <1>16, <1>17, <1>18, <1>19, <1>20, <1>21, <1>22, <1>23, <1>24, <1>25,
       <1>26, <1>27, <1>28, <1>29
<1> QED
  BY <1>30, Positions DEF Fits

\* A flush hands over every relational table.
LEMMA OnlyOrdered ==
  \A t \in DOMAIN References : \E i \in 1..Len(TABLE_ORDER) : TABLE_ORDER[i] = t
BY ReferencesRead, Positions, ProvenanceTablesRead, VocabularyTablesRead, PlantTablesRead,
     CatalogueTablesRead, OperationTablesRead, BatchTablesRead, QualityTablesRead,
     EventTablesRead

\* The tables of the three stores have nothing in common.
LEMMA Apart ==
  /\ EVAL_TABLES \cap DOMAIN References = {}
  /\ TELEMETRY_TABLE \notin DOMAIN References /\ TELEMETRY_TABLE \notin EVAL_TABLES
BY ReferencesRead, ProvenanceTablesRead, VocabularyTablesRead, PlantTablesRead,
     CatalogueTablesRead, OperationTablesRead, BatchTablesRead, QualityTablesRead,
     EventTablesRead DEF EVAL_TABLES, TELEMETRY_TABLE

\* A foreign key points to a relational table.
LEMMA ReferencesInside ==
  \A t \in DOMAIN References : References[t] \subseteq DOMAIN References
<1>1. ASSUME NEW t \in DOMAIN References, NEW p \in References[t]
      PROVE  p \in DOMAIN References
  <2>1. PICK i \in 1..Len(TABLE_ORDER) : TABLE_ORDER[i] = t
    BY OnlyOrdered
  <2>2. PICK j \in 1..i - 1 : TABLE_ORDER[j] = p
    BY <2>1, Ordered
  <2>3. j \in 1..Len(TABLE_ORDER)
    BY <2>1, Positions
  <2> QED
    BY <2>2, <2>3, Ordered
<1> QED
  BY <1>1

AncestorsPass(g) ==
  /\ Ancestors = g[5]
  /\ g[0] = References
  /\ \A i \in 1..5 : g[i] = [t \in DOMAIN References |->
                             g[i - 1][t] \cup UNION {References[p] : p \in g[i - 1][t]}]

\* Ancestors is such a pass too, one level at a time.
LEMMA AncestorsPassExists ==
  \E g : AncestorsPass(g)
<1> DEFINE n == 5
           base == References
           After(e, i) == [t \in DOMAIN References |-> e[t] \cup UNION {References[p] : p
             \in e[t]}]
           Pass(f, m) == f = [i \in 0..m |-> IF i = 0 THEN base ELSE After(f[i - 1], i)]
           T == {m \in 0..n : \E f : Pass(f, m)}
           g == CHOOSE f : Pass(f, n)
<1>1. n \in Nat /\ Ancestors = g[n]
  BY DEF Ancestors
<1> HIDE DEF n, base, After
<1>2. 0 \in T
  <2> DEFINE f == [i \in 0..0 |-> base]
  <2>1. Pass(f, 0)
    OBVIOUS
  <2> HIDE DEF f
  <2> QED
    BY <1>1, <2>1
<1>3. ASSUME NEW m \in 1..n, m - 1 \in T PROVE m \in T
  <2>1. PICK f : Pass(f, m - 1)
    BY <1>3
  <2> DEFINE h == [i \in 0..m |-> IF i = m THEN After(f[m - 1], m) ELSE f[i]]
  <2>2. ASSUME NEW i \in 0..m
        PROVE  h[i] = IF i = 0 THEN base ELSE After(h[i - 1], i)
    <3>1. i # m => i \in 0..(m - 1) /\ f[i] = IF i = 0 THEN base ELSE After(f[i - 1], i)
      BY <1>1, <2>1
    <3>2. i # 0 => h[i - 1] = f[i - 1]
      BY <1>1
    <3> QED
      BY <1>1, <3>1, <3>2
  <2>3. Pass(h, m)
    BY <2>2
  <2> HIDE DEF h
  <2> QED
    BY <1>1, <2>3
<1> HIDE DEF T
<1>4. 0..n \subseteq T
  BY <1>1, <1>2, <1>3, Along
<1>5. Pass(g, n)
  <2>1. n \in T
    BY <1>1, <1>4
  <2>2. \E f : Pass(f, n)
    BY <2>1 DEF T
  <2> QED
    BY <2>2
<1> HIDE DEF g
<1>6. g[0] = base /\ \A i \in 1..n : g[i] = After(g[i - 1], i)
  BY <1>1, <1>5
<1>7. AncestorsPass(g)
  BY <1>1, <1>6 DEF AncestorsPass, n, base, After
<1> QED
  BY <1>7

\* Tables by how deep their foreign keys go.
Level0 == {"config_versions", "states", "event_types", "equipment_classes", "plants",
  "products", "shifts"}
Level1 == Level0 \cup {"runs", "units", "shift_instances"}
Level2 == Level1 \cup {"machines", "employees", "batches", "deviations", "oee_snapshots"}
Level3 == Level2 \cup {"sensors", "plc_tags", "batch_stages", "qc_results", "failures",
  "maintenance", "rca", "machine_state_history", "production_records", "employee_events",
  "machine_events", "events"}
Level4 == Level3 \cup {"rca_evidence", "capa"}

\* A table is at most four levels above the ones that point nowhere.
LEMMA Levels ==
  /\ \A t \in DOMAIN References : t \in Level4
  /\ \A t \in Level0 : t \in DOMAIN References /\ References[t] \subseteq {}
  /\ \A t \in Level1 : t \in DOMAIN References /\ References[t] \subseteq Level0
  /\ \A t \in Level2 : t \in DOMAIN References /\ References[t] \subseteq Level1
  /\ \A t \in Level3 : t \in DOMAIN References /\ References[t] \subseteq Level2
  /\ \A t \in Level4 : t \in DOMAIN References /\ References[t] \subseteq Level3
<1>1. \A t \in DOMAIN References : t \in Level4
  BY ReferencesRead, ProvenanceTablesRead, VocabularyTablesRead, PlantTablesRead,
       CatalogueTablesRead, OperationTablesRead, BatchTablesRead, QualityTablesRead,
       EventTablesRead DEF Level0, Level1, Level2, Level3, Level4
<1>2. ASSUME NEW t \in Level0 PROVE t \in DOMAIN References /\ References[t] \subseteq {}
  <2>2. CASE t \in {"config_versions"}
    BY <2>2, ReferencesRead DEF ProvenanceTables
  <2>3. CASE t \in {"states", "event_types", "equipment_classes"}
    BY <2>3, ReferencesRead DEF VocabularyTables
  <2>4. CASE t \in {"plants"}
    BY <2>4, ReferencesRead DEF PlantTables
  <2>5. CASE t \in {"products", "shifts"}
    BY <2>5, ReferencesRead DEF CatalogueTables
  <2> QED
    BY <2>2, <2>3, <2>4, <2>5 DEF Level0
<1>3. ASSUME NEW t \in Level1 PROVE t \in DOMAIN References /\ References[t] \subseteq
              Level0
  <2>1. CASE t \in Level0
    BY <1>2, <2>1 DEF Level0
  <2>2. CASE t \in {"runs"}
    BY <2>2, ReferencesRead DEF ProvenanceTables, Level0
  <2>3. CASE t \in {"units"}
    BY <2>3, ReferencesRead DEF PlantTables, Level0
  <2>4. CASE t \in {"shift_instances"}
    BY <2>4, ReferencesRead DEF CatalogueTables, Level0
  <2> QED
    BY <2>1, <2>2, <2>3, <2>4 DEF Level1
<1>4. ASSUME NEW t \in Level2 PROVE t \in DOMAIN References /\ References[t] \subseteq
              Level1
  <2>1. CASE t \in Level1
    BY <1>3, <2>1 DEF Level1
  <2>2. CASE t \in {"machines", "employees"}
    BY <2>2, ReferencesRead DEF PlantTables, Level0, Level1
  <2>3. CASE t \in {"oee_snapshots"}
    BY <2>3, ReferencesRead DEF OperationTables, Level0, Level1
  <2>4. CASE t \in {"batches"}
    BY <2>4, ReferencesRead DEF BatchTables, Level0, Level1
  <2>5. CASE t \in {"deviations"}
    BY <2>5, ReferencesRead DEF QualityTables, Level0, Level1
  <2> QED
    BY <2>1, <2>2, <2>3, <2>4, <2>5 DEF Level2
<1>5. ASSUME NEW t \in Level3 PROVE t \in DOMAIN References /\ References[t] \subseteq
              Level2
  <2>1. CASE t \in Level2
    BY <1>4, <2>1 DEF Level2
  <2>2. CASE t \in {"sensors", "plc_tags"}
    BY <2>2, ReferencesRead DEF PlantTables, Level0, Level1, Level2
  <2>3. CASE t \in {"machine_state_history", "production_records", "events"}
    BY <2>3, ReferencesRead DEF OperationTables, Level0, Level1, Level2
  <2>4. CASE t \in {"batch_stages", "qc_results"}
    BY <2>4, ReferencesRead DEF BatchTables, Level0, Level1, Level2
  <2>5. CASE t \in {"failures", "maintenance", "rca"}
    BY <2>5, ReferencesRead DEF QualityTables, Level0, Level1, Level2
  <2>6. CASE t \in {"employee_events", "machine_events"}
    BY <2>6, ReferencesRead DEF EventTables, Level0, Level1, Level2
  <2> QED
    BY <2>1, <2>2, <2>3, <2>4, <2>5, <2>6 DEF Level3
<1>6. ASSUME NEW t \in Level4 PROVE t \in DOMAIN References /\ References[t] \subseteq
              Level3
  <2>1. CASE t \in Level3
    BY <1>5, <2>1 DEF Level3
  <2>2. CASE t \in {"rca_evidence", "capa"}
    BY <2>2, ReferencesRead DEF QualityTables, Level0, Level1, Level2, Level3
  <2> QED
    BY <2>1, <2>2 DEF Level4
<1> QED
  BY <1>1, <1>2, <1>3, <1>4, <1>5, <1>6

\* What a table refers to depends on less than the table.
LEMMA Inherited ==
  ASSUME NEW t \in DOMAIN References, NEW p \in References[t]
  PROVE  p \in Ancestors[t] /\ Ancestors[p] \subseteq Ancestors[t]
<1> DEFINE D == DOMAIN References
<1>1. PICK g : AncestorsPass(g)
  BY AncestorsPassExists
<1>2. \A u \in D : References[u] \subseteq D
  BY ReferencesInside
<1>3. /\ Ancestors = g[5] /\ \A u \in D : g[0][u] = References[u]
      /\ \A i \in 1..5 : \A u \in D :
            g[i][u] = g[i - 1][u] \cup UNION {References[q] : q \in g[i - 1][u]}
  BY <1>1 DEF AncestorsPass
<1> HIDE DEF D
<1> DEFINE Up(i) == \A u \in D : \A q \in References[u] : g[i - 1][q] \subseteq g[i][u]
           Down(i) == \A u \in D : \A x \in g[i][u] :
                        x \in References[u] \/ \E q \in References[u] : x \in g[i - 1][q]
           In(i) == \A u \in D : g[i][u] \subseteq D
<1>4. In(0)
  BY <1>2, <1>3
<1>5. ASSUME NEW i \in 1..5, In(i - 1) PROVE In(i)
  BY <1>2, <1>3, <1>5
<1>6. In(1) /\ In(2) /\ In(3) /\ In(4) /\ In(5)
  BY <1>4, <1>5
<1>7. Up(1) /\ Down(1)
  BY <1>2, <1>3
<1>8. ASSUME NEW i \in 1..4, Up(i), Down(i), In(i), In(i - 1) PROVE Up(i + 1) /\ Down(i + 1)
  <2>1. \A u \in D : g[i + 1][u] = g[i][u] \cup UNION {References[q] : q \in g[i][u]}
    BY <1>3
  <2>2. \A u \in D : g[i][u] = g[i - 1][u] \cup UNION {References[q] : q \in g[i - 1][u]}
    BY <1>3
  <2>3. ASSUME NEW u \in D, NEW q \in References[u], NEW x \in g[i][q] PROVE x \in g[i +
    1][u]
    BY <1>2, <1>8, <2>1, <2>2
  <2>4. ASSUME NEW u \in D, NEW x \in g[i + 1][u]
        PROVE  x \in References[u] \/ \E q \in References[u] : x \in g[i][q]
    <3>1. CASE x \in g[i][u]
      BY <1>2, <1>8, <2>2, <3>1
    <3>2. CASE \E y \in g[i][u] : x \in References[y]
      <4>1. PICK y \in g[i][u] : x \in References[y]
        BY <3>2
      <4>2. CASE y \in References[u]
        <5>1. References[y] \subseteq g[i][y]
          <6>1. y \in D
            BY <1>2, <4>2
          <6>2. \A k \in 1..5 : g[k - 1][y] \subseteq g[k][y]
            BY <1>3, <6>1
          <6> QED
            BY <1>3, <6>1, <6>2
        <5> QED
          BY <4>1, <4>2, <5>1
      <4>3. CASE \E q \in References[u] : y \in g[i - 1][q]
        BY <1>2, <2>2, <4>1, <4>3
      <4> QED
        BY <1>8, <4>2, <4>3
    <3> QED
      BY <2>1, <3>1, <3>2
  <2> QED
    BY <2>3, <2>4
<1> HIDE DEF Up, Down, In
<1>9. Up(2) /\ Down(2)
  BY <1>4, <1>6, <1>7, <1>8
<1>10. Up(3) /\ Down(3)
  BY <1>6, <1>8, <1>9
<1>11. Up(4) /\ Down(4)
  BY <1>6, <1>8, <1>10
<1>12. Up(5) /\ Down(5)
  BY <1>6, <1>8, <1>11
<1>13. \A u \in Level0 : g[1][u] \subseteq g[0][u]
  BY <1>7, Levels DEF D, Up, Down
<1>14. \A u \in Level1 : g[2][u] \subseteq g[1][u]
  BY <1>3, <1>7, <1>9, <1>13, Levels DEF D, Up, Down
<1>15. \A u \in Level2 : g[3][u] \subseteq g[2][u]
  BY <1>3, <1>9, <1>10, <1>14, Levels DEF D, Up, Down
<1>16. \A u \in Level3 : g[4][u] \subseteq g[3][u]
  BY <1>3, <1>10, <1>11, <1>15, Levels DEF D, Up, Down
<1>17. \A u \in Level4 : g[5][u] \subseteq g[4][u]
  BY <1>3, <1>11, <1>12, <1>16, Levels DEF D, Up, Down
<1>18. g[5][p] \subseteq g[5][t]
  BY <1>2, <1>12, <1>17, Levels DEF D, Up
<1>19. p \in g[5][t]
  BY <1>3 DEF D
<1> QED
  BY <1>3, <1>18, <1>19

-----------------------------------------------------------------------------
\* The words the rows use, and the types of a row, of the stores' contents and of
\* the stores.
Words ==
  {EventTypes[i] : i \in 1..Len(EventTypes)}
  \cup {"plant", "run", "fingerprint", "press", "IDLE", "tablet", "morning", "compression",
        "TP-001", "TP-001:force", "operator", "SI-1", "ATT", "MACHINE", "UNIT", "PLANT", "SHIFT"}
  \cup {"", "started", "ended", "active", "done", "open", "resolved", "AVERTED", "FAULTED",
        "IN_PROGRESS", "OPEN", "INVESTIGATION", "CAPA_PENDING"}
Subjects == Words \cup Nat \cup Batches \cup Episodes \cup Deviations
Keys     == Subjects \cup ((Words \cup Nat) \X Subjects)
Versions == Words \cup BOOLEAN \cup (Words \X Nat)
Ids      == Tables \X Keys

Rows ==
  {r \in [table : Tables, key : Keys, ver : Versions, refs : SUBSET Ids] :
     \A p \in r.refs : r.table \in DOMAIN References /\ p[1] \in References[r.table]}

RelationalRows == {r \in Rows : r.table \in DOMAIN References}
Samples        == {r \in Rows : r.table = TELEMETRY_TABLE}
LabelRows      == {r \in Rows : r.table \in EVAL_TABLES}
AppendedRows   == Samples \cup LabelRows

Contents == Tables \X Keys \X Versions

StoreType ==
  [buffer : Seq(RelationalRows), pending : Nat, telemetry : Seq(Samples),
   evaluation : Seq(LabelRows), chunks : Seq(AppendedRows), file : Seq(AppendedRows),
   stored : SUBSET Contents, committed : SUBSET Contents,
   backend : {"sqlite", "postgres"}, limit : Nat,
   broken : BOOLEAN, raised : BOOLEAN, fuse : Nat, cut : BOOLEAN, aborted : SUBSET Tables,
   lost : SUBSET Contents, failed : SUBSET Tables, handed : SUBSET Contents,
   appended : Seq(AppendedRows)]

\* What a row is made of.
LEMMA RowSplits ==
  ASSUME NEW r \in Rows
  PROVE  /\ r.table \in Tables /\ r.key \in Keys /\ r.ver \in Versions
         /\ r.refs \in SUBSET Ids
         /\ \A p \in r.refs : r.table \in DOMAIN References /\ p[1] \in References[r.table]
BY DEF Rows

LEMMA KindsOfRows ==
  /\ RelationalRows \subseteq Rows /\ Samples \subseteq AppendedRows
  /\ LabelRows \subseteq AppendedRows /\ AppendedRows \subseteq Rows
  /\ \A r \in RelationalRows : r.table \in DOMAIN References
BY DEF RelationalRows, Samples, LabelRows, AppendedRows

LEMMA ContentType ==
  ASSUME NEW r \in Rows
  PROVE  /\ Content(r) \in Contents
         /\ Content(r)[1] = r.table /\ Content(r)[2] = r.key /\ Content(r)[3] = r.ver
BY RowSplits DEF Content, Contents

\* The key of a row, and the keys in a set of stored rows.
RowKey(r) == <<r.table, r.key>>
KeysIn(S) == {<<c[1], c[2]>> : c \in S}

\* An upsert replaces the row of its key and no other.
LEMMA Replaced ==
  ASSUME NEW S \in SUBSET Contents, NEW r \in Rows
  PROVE  /\ Replace(S, r) \in SUBSET Contents
         /\ KeysIn(Replace(S, r)) = KeysIn(S) \cup {RowKey(r)}
         /\ \A c \in S : <<c[1], c[2]>> # RowKey(r) => c \in Replace(S, r)
         /\ Content(r) \in Replace(S, r)
         /\ \A c \in Replace(S, r) : c = Content(r) \/ (c \in S /\ <<c[1], c[2]>> # RowKey(r))
<1>1. Content(r) \in Contents /\ Content(r)[1] = r.table /\ Content(r)[2] = r.key
  BY ContentType
<1>2. \A c : c \in Replace(S, r)
             <=> (c \in S /\ <<c[1], c[2]>> # RowKey(r)) \/ c = Content(r)
  BY DEF Replace, RowKey
<1>3. ASSUME NEW k PROVE k \in KeysIn(Replace(S, r)) <=> k \in KeysIn(S) \cup {RowKey(r)}
  <2>1. ASSUME k \in KeysIn(Replace(S, r)) PROVE k \in KeysIn(S) \cup {RowKey(r)}
    BY <1>1, <1>2, <2>1 DEF KeysIn, RowKey
  <2>2. ASSUME k \in KeysIn(S) PROVE k \in KeysIn(Replace(S, r))
    <3>1. PICK c \in S : k = <<c[1], c[2]>>
      BY <2>2 DEF KeysIn
    <3>2. CASE k = RowKey(r)
      BY <1>1, <1>2, <3>2 DEF KeysIn, RowKey
    <3>3. CASE k # RowKey(r)
      BY <1>2, <3>1, <3>3 DEF KeysIn
    <3> QED
      BY <3>2, <3>3
  <2>3. RowKey(r) \in KeysIn(Replace(S, r))
    BY <1>1, <1>2 DEF KeysIn, RowKey
  <2> QED
    BY <2>1, <2>2, <2>3
<1> QED
  BY <1>1, <1>2, <1>3

\* Foreign keys resolve when the keys they name are stored.
LEMMA ResolvesWhen ==
  ASSUME NEW S, NEW r, r.refs \subseteq KeysIn(S)
  PROVE  Resolves(S, r)
BY DEF Resolves, KeysIn

\* A refusal and an insertion keep the type of the stores.
LEMMA RefuseType ==
  ASSUME NEW e \in StoreType, NEW rows \in Seq(RelationalRows), NEW i \in 1..Len(rows)
  PROVE  /\ Refuse(e, rows, i) \in StoreType
         /\ Refuse(e, rows, i).lost = e.lost \cup {Content(rows[j]) : j \in i..Len(rows)}
<1>1. \A j \in i..Len(rows) : Content(rows[j]) \in Contents
  BY ContentType, KindsOfRows
<1>2. e.lost \cup {Content(rows[j]) : j \in i..Len(rows)} \in SUBSET Contents
  BY <1>1 DEF StoreType
<1> QED
  BY <1>2 DEF Refuse, StoreType

LEMMA InsertRowType ==
  ASSUME NEW e \in StoreType, NEW rows \in Seq(RelationalRows), NEW i \in 1..Len(rows)
  PROVE  InsertRow(e, rows, i) \in StoreType
<1>1. rows[i] \in Rows /\ e.stored \in SUBSET Contents
  BY KindsOfRows DEF StoreType
<1>2. Replace(e.stored, rows[i]) \in SUBSET Contents
  BY <1>1, Replaced
<1> QED
  BY <1>2, RefuseType DEF InsertRow, StoreType

-----------------------------------------------------------------------------
\* The outages and what descends from them.

\* A table that a failed call took rows of, or that depends on one.
Hit(failed, t) == t \in failed \/ Ancestors[t] \cap failed # {}

\* What hits a table hits the tables that point to it.
LEMMA HitInherits ==
  ASSUME NEW failed, NEW t \in DOMAIN References, NEW p \in References[t], Hit(failed, p)
  PROVE  Hit(failed, t)
BY Inherited DEF Hit

LEMMA HitGrows ==
  ASSUME NEW F, NEW G, F \subseteq G, NEW t, Hit(F, t)
  PROVE  Hit(G, t)
BY DEF Hit

LEMMA NoneHit ==
  ASSUME NEW t
  PROVE  ~ Hit({}, t)
BY DEF Hit

\* What a call to the relational store leaves alone.
Untouched(e, f) ==
  /\ f.telemetry = e.telemetry /\ f.evaluation = e.evaluation
  /\ f.chunks = e.chunks /\ f.file = e.file /\ f.backend = e.backend /\ f.limit = e.limit
  /\ f.cut = e.cut /\ f.aborted = e.aborted /\ f.handed = e.handed /\ f.appended = e.appended

\* The rows of one table of a call, with their foreign keys stored or hit.
Founded(e, rows, t) ==
  /\ t \in DOMAIN References
  /\ \A r \in Elements(rows) :
        r.table = t /\ \A p \in r.refs : p \in KeysIn(e.stored) \/ Hit(e.failed, p[1])

\* What inserting a row leaves alone.
LEMMA InsertRowFrame ==
  ASSUME NEW e \in StoreType, NEW rows \in Seq(RelationalRows), NEW i \in 1..Len(rows)
  PROVE  LET f == InsertRow(e, rows, i)
         IN  /\ Untouched(e, f) /\ f.buffer = e.buffer /\ f.pending = e.pending
             /\ f.fuse = e.fuse /\ f.failed = e.failed
BY DEF InsertRow, Refuse, StoreType, Untouched

\* A row whose foreign keys are stored or hit is stored, or lost below a hit table.
LEMMA InsertRowSound ==
  ASSUME NEW e \in StoreType, NEW rows \in Seq(RelationalRows), NEW t, Founded(e, rows, t),
         NEW i \in 1..Len(rows), ~ e.raised, ~ e.broken,
         e.backend = "sqlite" \/ e.failed = {}
  PROVE  LET f == InsertRow(e, rows, i)
         IN  /\ ~ f.broken
             /\ KeysIn(e.stored) \subseteq KeysIn(f.stored)
             /\ RowKey(rows[i]) \in KeysIn(f.stored) \/ (f.raised /\ Hit(e.failed, t))
             /\ f.raised => Hit(e.failed, t)
             /\ \A c \in f.lost : c \in e.lost \/ (c[1] = t /\ Hit(e.failed, t))
<1>1. /\ rows[i] \in Rows /\ rows[i] \in RelationalRows /\ e.stored \in SUBSET Contents
      /\ rows[i] \in Elements(rows)
  BY KindsOfRows DEF StoreType, Elements
<1>2. CASE Resolves(e.stored, rows[i])
  <2>1. KeysIn(Replace(e.stored, rows[i])) = KeysIn(e.stored) \cup {RowKey(rows[i])}
    BY <1>1, Replaced
  <2> DEFINE f == InsertRow(e, rows, i)
  <2>2. f.broken = e.broken /\ f.raised = e.raised /\ f.lost = e.lost
        /\ f.stored = Replace(e.stored, rows[i])
    BY <1>2 DEF InsertRow, StoreType
  <2> QED
    BY <2>1, <2>2
<1>3. CASE ~ Resolves(e.stored, rows[i])
  <2>1. PICK p \in rows[i].refs : ~ (p \in KeysIn(e.stored))
    BY <1>3, ResolvesWhen
  <2>2. Hit(e.failed, p[1]) /\ rows[i].table = t /\ t \in DOMAIN References
    BY <1>1, <2>1 DEF Founded
  <2>3. p[1] \in References[t]
    BY <1>1, <2>1, <2>2, RowSplits
  <2>4. Hit(e.failed, t)
    BY <2>2, <2>3, HitInherits
  <2>5. e.backend = "sqlite"
    BY <2>4, NoneHit
  <2> DEFINE f == InsertRow(e, rows, i)
  <2>6. f = Refuse(e, rows, i)
    BY <1>3 DEF InsertRow
  <2>7. f.broken = FALSE /\ f.raised = TRUE /\ f.stored = e.stored
    BY <2>5, <2>6 DEF Refuse, StoreType
  <2>8. f.lost = e.lost \cup {Content(rows[j]) : j \in i..Len(rows)}
    BY <2>6, RefuseType
  <2>9. \A j \in i..Len(rows) : Content(rows[j])[1] = t
    <3>1. ASSUME NEW j \in i..Len(rows) PROVE Content(rows[j])[1] = t
      <4>1. rows[j] \in Elements(rows) /\ rows[j] \in Rows
        BY KindsOfRows DEF Elements
      <4> QED
        BY <4>1, ContentType DEF Founded
    <3> QED
      BY <3>1
  <2> HIDE DEF f
  <2>10. \A c \in f.lost : c \in e.lost \/ (c[1] = t /\ Hit(e.failed, t))
    BY <2>4, <2>8, <2>9
  <2> QED
    BY <2>4, <2>7, <2>10 DEF f
<1> QED
  BY <1>2, <1>3

\* So it is for all the rows of a call.
LEMMA InsertSound ==
  ASSUME NEW e \in StoreType, NEW rows \in Seq(RelationalRows), NEW t, Founded(e, rows, t),
         ~ e.raised, ~ e.broken, e.backend = "sqlite" \/ e.failed = {}
  PROVE  LET f == Insert(e, rows)
         IN  /\ f \in StoreType /\ Untouched(e, f) /\ f.buffer = e.buffer
             /\ f.pending = e.pending /\ f.fuse = e.fuse /\ f.failed = e.failed
             /\ ~ f.broken /\ KeysIn(e.stored) \subseteq KeysIn(f.stored)
             /\ \A r \in Elements(rows) : RowKey(r) \in KeysIn(f.stored) \/ Hit(e.failed, t)
             /\ f.raised => Hit(e.failed, t)
             /\ \A c \in f.lost : c \in e.lost \/ (c[1] = t /\ Hit(e.failed, t))
<1> DEFINE n == Len(rows)
<1>1. PICK g : InsertPass(g, e, rows)
  BY InsertPassExists
<1>2. /\ Insert(e, rows) = g[n] /\ g[0] = e
      /\ \A i \in 1..n : g[i] = InsertRow(g[i - 1], rows, i)
  BY <1>1 DEF InsertPass
<1>3. n \in Nat /\ \A i \in 1..n : rows[i] \in Elements(rows)
  BY DEF Elements
<1> DEFINE Holds(i, f) ==
             /\ f \in StoreType /\ Untouched(e, f) /\ f.buffer = e.buffer
             /\ f.pending = e.pending /\ f.fuse = e.fuse /\ f.failed = e.failed
             /\ ~ f.broken /\ KeysIn(e.stored) \subseteq KeysIn(f.stored)
             /\ \A j \in 1..i : RowKey(rows[j]) \in KeysIn(f.stored) \/ Hit(e.failed, t)
             /\ f.raised => Hit(e.failed, t)
             /\ \A c \in f.lost : c \in e.lost \/ (c[1] = t /\ Hit(e.failed, t))
           T == {i \in 0..n : Holds(i, g[i])}
<1> HIDE DEF n
<1>4. 0 \in T
  BY <1>2, <1>3 DEF Untouched
<1>5. ASSUME NEW i \in 1..n, i - 1 \in T PROVE i \in T
  <2> DEFINE f == g[i - 1]
             h == g[i]
  <2>1. Holds(i - 1, f)
    BY <1>5
  <2>2. h = InsertRow(f, rows, i)
    BY <1>2
  <2> HIDE DEF f, h
  <2>3. CASE f.raised
    <3>1. h = f /\ Hit(e.failed, t)
      BY <2>1, <2>2, <2>3 DEF InsertRow
    <3>2. Holds(i, h)
      BY <2>1, <3>1
    <3> QED
      BY <3>2 DEF h
  <2>4. CASE ~ f.raised
    <3>1. i \in 1..Len(rows)
      BY DEF n
    <3>2. Founded(f, rows, t)
      BY <2>1 DEF Founded
    <3>3. /\ h \in StoreType /\ Untouched(f, h) /\ h.buffer = f.buffer
          /\ h.pending = f.pending /\ h.fuse = f.fuse /\ h.failed = f.failed
      BY <2>1, <2>2, <3>1, InsertRowType, InsertRowFrame
    <3>4. f.backend = "sqlite" \/ f.failed = {}
      BY <2>1 DEF Untouched
    <3>5. /\ ~ h.broken
          /\ KeysIn(f.stored) \subseteq KeysIn(h.stored)
          /\ RowKey(rows[i]) \in KeysIn(h.stored) \/ (h.raised /\ Hit(f.failed, t))
          /\ h.raised => Hit(f.failed, t)
          /\ \A c \in h.lost : c \in f.lost \/ (c[1] = t /\ Hit(f.failed, t))
      BY <2>1, <2>2, <2>4, <3>1, <3>2, <3>4, InsertRowSound
    <3>6. Untouched(e, h)
      BY <2>1, <3>3 DEF Untouched
    <3>7. \A j \in 1..i : RowKey(rows[j]) \in KeysIn(h.stored) \/ Hit(e.failed, t)
      BY <1>3, <2>1, <3>5
    <3>8. Holds(i, h)
      BY <2>1, <3>3, <3>5, <3>6, <3>7
    <3> QED
      BY <3>8 DEF h
  <2> QED
    BY <2>3, <2>4
<1> HIDE DEF T
<1>6. 0..n \subseteq T
  BY <1>3, <1>4, <1>5, Along
<1>7. Holds(n, g[n])
  BY <1>3, <1>6 DEF T
<1>8. \A r \in Elements(rows) : \E j \in 1..n : r = rows[j]
  BY DEF Elements, n
<1> QED
  BY <1>2, <1>7, <1>8

-----------------------------------------------------------------------------
\* One upsert, and the flush of a buffer whose rows are founded.

\* The relational rows that are stored, waiting, or beyond saving.
Known(e) == KeysIn(e.stored) \cup {RowKey(r) : r \in Elements(e.buffer)}
              \cup {p \in Ids : p[1] \in DOMAIN References /\ Hit(e.failed, p[1])}

\* The stores an outage can hit without a transaction being lost.
Reliable(e) ==
  /\ ~ e.broken
  /\ \/ e.backend = "sqlite" /\ ~ e.cut
     \/ e.fuse = 0 /\ e.failed = {}

\* Without an outage under way nothing fails, and what failed stays so.
Steady(e, f) ==
  /\ e.failed \subseteq f.failed
  /\ e.fuse = 0 => f.fuse = 0 /\ f.failed = e.failed

\* A row is only lost to an outage of its table or of one it depends on.
LostDescend(e) == \A c \in e.lost : c[1] \in DOMAIN References /\ Hit(e.failed, c[1])

\* And for the call, whether or not the outage comes in it.
LEMMA UpsertSound ==
  ASSUME NEW e \in StoreType, NEW rows \in Seq(RelationalRows), rows # <<>>,
         NEW t, Founded(e, rows, t), ~ e.raised, Reliable(e)
  PROVE  LET f == Upsert(e, rows)
         IN  /\ f \in StoreType /\ Untouched(e, f) /\ f.buffer = e.buffer
             /\ f.pending = e.pending /\ Reliable(f) /\ Steady(e, f)
             /\ KeysIn(e.stored) \subseteq KeysIn(f.stored)
             /\ \A r \in Elements(rows) : RowKey(r) \in KeysIn(f.stored) \/ Hit(f.failed, t)
             /\ \A c \in f.lost : c \in e.lost \/ (c[1] = t /\ Hit(f.failed, t))
<1>1. 1 \in 1..Len(rows) /\ rows[1] \in Elements(rows) /\ rows[1].table = t /\ t \in Tables
  BY DEF Elements, Founded, Tables
<1>2. CASE e.fuse = 1
  <2> DEFINE h == Refuse(e, rows, 1)
             f == [h EXCEPT !.fuse = 0, !.failed = @ \cup {rows[1].table}]
  <2>1. e.backend = "sqlite" /\ ~ e.cut
    BY <1>2 DEF Reliable, StoreType
  <2>2. Upsert(e, rows) = f
    BY <1>2, <2>1 DEF Upsert
  <2>3. h \in StoreType /\ h.lost = e.lost \cup {Content(rows[j]) : j \in 1..Len(rows)}
    BY <1>1, RefuseType
  <2>4. /\ Untouched(e, h) /\ h.buffer = e.buffer /\ h.pending = e.pending
        /\ h.stored = e.stored /\ h.failed = e.failed /\ h.broken = FALSE
    BY <2>1 DEF Refuse, StoreType, Untouched
  <2> HIDE DEF h
  <2>5. /\ f \in StoreType /\ f.failed = h.failed \cup {t} /\ f.lost = h.lost
        /\ Untouched(h, f) /\ f.buffer = h.buffer /\ f.pending = h.pending
        /\ f.stored = h.stored /\ f.broken = h.broken /\ f.fuse = 0
    BY <1>1, <2>3 DEF StoreType, Untouched
  <2>6. \A c \in f.lost : c \in e.lost \/ c[1] = t
    <3>1. \A j \in 1..Len(rows) : Content(rows[j])[1] = t
      <4>1. ASSUME NEW j \in 1..Len(rows) PROVE Content(rows[j])[1] = t
        <5>1. rows[j] \in Elements(rows) /\ rows[j] \in Rows
          BY KindsOfRows DEF Elements
        <5> QED
          BY <5>1, ContentType DEF Founded
      <4> QED
        BY <4>1
    <3> QED
      BY <2>3, <2>5, <3>1
  <2> HIDE DEF f
  <2>7. Hit(f.failed, t)
    BY <2>5 DEF Hit
  <2>8. Untouched(e, f) /\ Reliable(f) /\ Steady(e, f)
    BY <1>2, <2>1, <2>4, <2>5 DEF Untouched, Reliable, Steady
  <2> QED
    BY <2>2, <2>4, <2>5, <2>6, <2>7, <2>8
<1>3. CASE e.fuse # 1
  <2> DEFINE h == [e EXCEPT !.fuse = IF @ = 0 THEN 0 ELSE @ - 1]
             f == Insert(h, rows)
  <2>1. ~ e.broken /\ (e.backend = "sqlite" \/ e.failed = {})
    BY DEF Reliable
  <2>2. /\ h \in StoreType /\ Untouched(e, h) /\ h.buffer = e.buffer /\ h.pending = e.pending
        /\ h.failed = e.failed /\ h.stored = e.stored /\ h.lost = e.lost
        /\ h.raised = e.raised /\ h.broken = e.broken /\ h.backend = e.backend
        /\ (e.fuse = 0 => h.fuse = 0)
    <3>1. e.fuse \in Nat
      BY DEF StoreType
    <3>2. (IF e.fuse = 0 THEN 0 ELSE e.fuse - 1) \in Nat
      BY <3>1
    <3> QED
      BY <3>2 DEF StoreType, Untouched
  <2>3. Upsert(e, rows) = f
    BY <1>3, <2>1, <2>2 DEF Upsert
  <2> HIDE DEF h
  <2>4. Founded(h, rows, t)
    BY <2>2 DEF Founded
  <2>5. /\ f \in StoreType /\ Untouched(h, f) /\ f.buffer = h.buffer
        /\ f.pending = h.pending /\ f.fuse = h.fuse /\ f.failed = h.failed
        /\ ~ f.broken /\ KeysIn(h.stored) \subseteq KeysIn(f.stored)
        /\ \A r \in Elements(rows) : RowKey(r) \in KeysIn(f.stored) \/ Hit(h.failed, t)
        /\ \A c \in f.lost : c \in h.lost \/ (c[1] = t /\ Hit(h.failed, t))
    BY <2>1, <2>2, <2>4, InsertSound
  <2> HIDE DEF f
  <2>6. Untouched(e, f) /\ Reliable(f) /\ Steady(e, f)
    BY <2>1, <2>2, <2>5 DEF Untouched, Reliable, Steady
  <2> QED
    BY <2>2, <2>3, <2>5, <2>6
<1> QED
  BY <1>2, <1>3

\* A founded buffer at some point of a flush: the tables done are gone from it.
Sound(e) ==
  /\ e \in StoreType /\ Reliable(e) /\ LostDescend(e)
  /\ \A r \in Elements(e.buffer) : r.refs \subseteq Known(e)

\* One table of a flush: what is left in the buffer stays founded.
LEMMA FlushTableSound ==
  ASSUME NEW e, Sound(e), ~ e.raised, NEW t \in DOMAIN References,
         \A r \in Elements(e.buffer) : r.table \notin References[t]
  PROVE  LET f == FlushTable(e, t)
         IN  /\ Sound(f) /\ Untouched(e, f) /\ f.pending = e.pending /\ Steady(e, f)
             /\ Known(e) \subseteq Known(f)
             /\ Elements(f.buffer) = {r \in Elements(e.buffer) : r.table # t}
<1> DEFINE rows == RowsOf(e.buffer, t)
           rest == RowsNotOf(e.buffer, t)
           h == [e EXCEPT !.buffer = rest]
           f == FlushTable(e, t)
<1>1. e \in StoreType /\ e.buffer \in Seq(RelationalRows)
  BY DEF Sound, StoreType
<1>2. CASE \A r \in Elements(e.buffer) : r.table # t
  <2>1. f = e
    BY <1>1, <1>2 DEF FlushTable, Elements
  <2> QED
    BY <1>2, <2>1 DEF Untouched, Steady
<1>3. CASE ~ \A r \in Elements(e.buffer) : r.table # t
  <2>1. f = Upsert(h, rows)
    BY <1>1, <1>3 DEF FlushTable, Elements
  <2>2. /\ rows \in Seq(RelationalRows) /\ rest \in Seq(RelationalRows)
        /\ Elements(rows) = {r \in Elements(e.buffer) : r.table = t}
        /\ Elements(rest) = {r \in Elements(e.buffer) : r.table # t}
    <3>1. rows \in Seq(RelationalRows) /\ rest \in Seq(RelationalRows)
      BY <1>1, RowsInType DEF RowsOf, RowsNotOf
    <3>2. /\ Elements(rows) = {r \in Elements(e.buffer) : r.table \in {t}}
          /\ Elements(rest) = {r \in Elements(e.buffer) : r.table \in Tables \ {t}}
      BY <1>1, RowsInElements DEF RowsOf, RowsNotOf
    <3>3. \A r \in Elements(e.buffer) : r.table \in Tables
      BY <1>1, ElementsType, KindsOfRows DEF Tables
    <3> QED
      BY <3>1, <3>2, <3>3
  <2>3. rows # <<>>
    BY <1>3, <2>2, ElementsNone
  <2>4. /\ h \in StoreType /\ Untouched(e, h) /\ h.pending = e.pending /\ h.raised = e.raised
        /\ h.stored = e.stored /\ h.failed = e.failed /\ h.lost = e.lost /\ h.buffer = rest
        /\ h.fuse = e.fuse /\ h.broken = e.broken /\ h.backend = e.backend /\ h.cut = e.cut
    BY <1>1, <2>2 DEF StoreType, Untouched
  <2>5. Founded(h, rows, t)
    <3>1. ASSUME NEW r \in Elements(rows), NEW p \in r.refs
          PROVE  p \in KeysIn(h.stored) \/ Hit(h.failed, p[1])
      <4>1. r \in Elements(e.buffer) /\ r.table = t /\ r \in Rows
        BY <1>1, <2>2, ElementsType, KindsOfRows
      <4>2. p[1] \in References[t] /\ p \in Known(e)
        BY <4>1, RowSplits DEF Sound
      <4>3. p \notin {RowKey(q) : q \in Elements(e.buffer)}
        BY <4>2 DEF RowKey
      <4> QED
        BY <2>4, <4>2, <4>3 DEF Known
    <3> QED
      BY <2>2, <3>1 DEF Founded
  <2> HIDE DEF h, rows, rest
  <2>6. Reliable(h)
    BY <2>4 DEF Reliable, Sound
  <2>7. /\ f \in StoreType /\ Untouched(h, f) /\ f.buffer = h.buffer
        /\ f.pending = h.pending /\ Reliable(f) /\ Steady(h, f)
        /\ KeysIn(h.stored) \subseteq KeysIn(f.stored)
        /\ \A r \in Elements(rows) : RowKey(r) \in KeysIn(f.stored) \/ Hit(f.failed, t)
        /\ \A c \in f.lost : c \in h.lost \/ (c[1] = t /\ Hit(f.failed, t))
    BY <2>1, <2>2, <2>3, <2>4, <2>5, <2>6, UpsertSound
  <2> HIDE DEF f
  <2>8. Untouched(e, f) /\ Steady(e, f) /\ f.pending = e.pending
    BY <2>4, <2>7 DEF Untouched, Steady
  <2>9. \A p : Hit(e.failed, p) => Hit(f.failed, p)
    BY <2>8, HitGrows DEF Steady
  <2>10. LostDescend(f)
    BY <2>4, <2>7, <2>9 DEF LostDescend, Sound
  <2>11. Known(e) \subseteq Known(f)
    <3>1. ASSUME NEW r \in Elements(e.buffer) PROVE RowKey(r) \in Known(f)
      <4>1. CASE r.table = t
        <5>1. RowKey(r) \in KeysIn(f.stored) \/ Hit(f.failed, t)
          BY <2>2, <2>7, <4>1
        <5>2. RowKey(r) \in Ids /\ RowKey(r)[1] = t
          <6>1. r \in RelationalRows /\ r \in Rows
            BY <1>1, ElementsType, KindsOfRows
          <6> QED
            BY <4>1, <6>1, RowSplits DEF RowKey, Ids
        <5> QED
          BY <5>1, <5>2 DEF Known
      <4>2. CASE r.table # t
        BY <2>2, <2>4, <2>7, <4>2 DEF Known
      <4> QED
        BY <4>1, <4>2
    <3>2. KeysIn(e.stored) \subseteq Known(f)
      BY <2>4, <2>7 DEF Known
    <3> QED
      BY <2>9, <3>1, <3>2 DEF Known
  <2>12. Sound(f)
    BY <2>2, <2>4, <2>7, <2>10, <2>11 DEF Sound
  <2> QED
    BY <2>2, <2>4, <2>7, <2>8, <2>11, <2>12 DEF f
<1> QED
  BY <1>2, <1>3

\* All the tables, in their order.
LEMMA UpsertedSound ==
  ASSUME NEW e, Sound(e), ~ e.raised
  PROVE  LET f == Upserted(e)
         IN  /\ Sound(f) /\ Untouched(e, f) /\ f.pending = e.pending /\ Steady(e, f)
             /\ Known(e) \subseteq Known(f)
             /\ ~ f.raised => f.buffer = <<>>
<1> DEFINE n == Len(TABLE_ORDER)
           Holds(i, f) ==
             /\ Sound(f) /\ Untouched(e, f) /\ f.pending = e.pending /\ Steady(e, f)
             /\ Known(e) \subseteq Known(f)
             /\ ~ f.raised => \A r \in Elements(f.buffer), j \in 1..i : r.table # TABLE_ORDER[j]
<1>1. PICK g : UpsertedPass(g, e)
  BY UpsertedPassExists
<1>2. /\ Upserted(e) = g[n] /\ g[0] = e
      /\ \A i \in 1..n : g[i] = FlushTable(g[i - 1], TABLE_ORDER[i])
  BY <1>1 DEF UpsertedPass
<1>3. /\ n \in Nat
      /\ \A i \in 1..n : /\ TABLE_ORDER[i] \in DOMAIN References
                         /\ \A p \in References[TABLE_ORDER[i]] :
                               \E j \in 1..i - 1 : TABLE_ORDER[j] = p
      /\ \A t \in DOMAIN References : \E i \in 1..n : TABLE_ORDER[i] = t
  BY Positions, Ordered, OnlyOrdered
<1> DEFINE T == {i \in 0..n : Holds(i, g[i])}
<1> HIDE DEF n
<1>4. 0 \in T
  BY <1>2, <1>3 DEF Untouched, Steady
<1>5. ASSUME NEW i \in 1..n, i - 1 \in T PROVE i \in T
  <2> DEFINE f == g[i - 1]
             h == g[i]
             t == TABLE_ORDER[i]
  <2>1. Holds(i - 1, f) /\ h = FlushTable(f, t)
    BY <1>2, <1>5
  <2>2. t \in DOMAIN References /\ \A p \in References[t] : \E j \in 1..i - 1 : TABLE_ORDER[j] = p
    BY <1>3
  <2> HIDE DEF f, h
  <2>3. CASE f.raised
    <3>1. h = f
      BY <2>1, <2>3 DEF FlushTable
    <3>2. Holds(i, h)
      BY <2>1, <2>3, <3>1
    <3> QED
      BY <3>2 DEF h
  <2>4. CASE ~ f.raised
    <3>1. \A r \in Elements(f.buffer) : r.table \notin References[t]
      BY <2>1, <2>2, <2>4
    <3>2. /\ Sound(h) /\ Untouched(f, h) /\ h.pending = f.pending /\ Steady(f, h)
          /\ Known(f) \subseteq Known(h)
          /\ Elements(h.buffer) = {r \in Elements(f.buffer) : r.table # t}
      BY <2>1, <2>2, <2>4, <3>1, FlushTableSound
    <3>3. Untouched(e, h) /\ Steady(e, h)
      BY <2>1, <3>2 DEF Untouched, Steady
    <3>4. \A j \in 1..i : j = i \/ j \in 1..i - 1
      BY <1>3
    <3>5. \A r \in Elements(h.buffer), j \in 1..i : r.table # TABLE_ORDER[j]
      BY <2>1, <2>4, <3>2, <3>4
    <3>6. Holds(i, h)
      BY <2>1, <3>2, <3>3, <3>5
    <3> QED
      BY <3>6 DEF h
  <2> QED
    BY <2>3, <2>4
<1> HIDE DEF T
<1>6. 0..n \subseteq T
  BY <1>3, <1>4, <1>5, Along
<1> DEFINE f == g[n]
<1>7. Holds(n, f)
  BY <1>3, <1>6 DEF T
<1> HIDE DEF f
<1>8. ASSUME ~ f.raised PROVE f.buffer = <<>>
  <2>1. f.buffer \in Seq(RelationalRows)
    BY <1>7 DEF Sound, StoreType
  <2>2. \A r \in Elements(f.buffer) : r.table \in DOMAIN References
    BY <2>1, ElementsType, KindsOfRows
  <2>3. Elements(f.buffer) = {}
    BY <1>3, <1>7, <1>8, <2>2
  <2> QED
    BY <2>1, <2>3, ElementsEmpty
<1> QED
  BY <1>2, <1>7, <1>8 DEF f

\* And the commit.
LEMMA FlushRelationalSound ==
  ASSUME NEW e, Sound(e), ~ e.raised
  PROVE  LET f == FlushRelational(e)
         IN  /\ Sound(f) /\ Untouched(e, f) /\ Steady(e, f)
             /\ Known(e) \subseteq Known(f)
             /\ ~ f.raised => f.buffer = <<>>
<1> DEFINE h == Upserted(e)
           f == FlushRelational(e)
<1>1. CASE e.buffer = <<>>
  BY <1>1 DEF FlushRelational, Untouched, Steady
<1>2. CASE e.buffer # <<>>
  <2>1. f = IF h.raised THEN h ELSE [Commit(h) EXCEPT !.pending = 0]
    BY <1>2 DEF FlushRelational, Upserted
  <2>2. /\ Sound(h) /\ Untouched(e, h) /\ Steady(e, h)
        /\ Known(e) \subseteq Known(h)
        /\ ~ h.raised => h.buffer = <<>>
    BY UpsertedSound
  <2> HIDE DEF h
  <2>3. CASE h.raised
    BY <2>1, <2>2, <2>3
  <2>4. CASE ~ h.raised
    <3>1. f = [[h EXCEPT !.committed = h.stored] EXCEPT !.pending = 0]
      BY <2>1, <2>2, <2>4 DEF Commit, Sound, Reliable
    <3> HIDE DEF f
    <3>2. /\ f \in StoreType /\ Untouched(h, f) /\ Steady(h, f) /\ f.buffer = h.buffer
          /\ f.stored = h.stored /\ f.failed = h.failed /\ f.lost = h.lost
          /\ f.broken = h.broken /\ f.fuse = h.fuse /\ f.raised = h.raised
      BY <2>2, <3>1 DEF Sound, StoreType, Untouched, Steady
    <3>3. Untouched(e, f) /\ Steady(e, f)
      BY <2>2, <3>2 DEF Untouched, Steady
    <3>4. Known(f) = Known(h)
      BY <3>2 DEF Known
    <3>5. Sound(f)
      BY <2>2, <3>2, <3>4 DEF Sound, Reliable, LostDescend, Untouched
    <3> QED
      BY <2>2, <3>2, <3>3, <3>4, <3>5 DEF f
  <2> QED
    BY <2>3, <2>4
<1> QED
  BY <1>1, <1>2

-----------------------------------------------------------------------------
\* The Parquet writers: what they hold and have written is what came, in order.

\* What a call of the writers leaves alone.
Beside(e, f) ==
  /\ f.buffer = e.buffer /\ f.pending = e.pending
  /\ f.stored = e.stored /\ f.committed = e.committed /\ f.backend = e.backend
  /\ f.limit = e.limit /\ f.broken = e.broken /\ f.raised = e.raised /\ f.fuse = e.fuse
  /\ f.cut = e.cut /\ f.aborted = e.aborted /\ f.lost = e.lost /\ f.failed = e.failed
  /\ f.handed = e.handed /\ f.appended = e.appended

\* The rows of a table that left the facade.
Passed(e, t) == RowsOf(e.file \o e.chunks, t)

\* Writing a chunk moves rows from the writer to the file and drops none.
LEMMA WriteChunkType ==
  ASSUME NEW e \in StoreType, NEW t \in Tables
  PROVE  LET f == WriteChunk(e, t)
         IN  /\ f \in StoreType /\ Beside(e, f)
             /\ f.telemetry = e.telemetry /\ f.evaluation = e.evaluation
             /\ \A u \in Tables : Passed(f, u) = Passed(e, u)
             /\ RowsOf(f.chunks, t) = <<>>
             /\ \A u \in Tables : RowsOf(e.chunks, u) = <<>> => RowsOf(f.chunks, u) = <<>>
<1> DEFINE f == WriteChunk(e, t)
           gone == RowsOf(e.chunks, t)
           rest == RowsNotOf(e.chunks, t)
<1>1. e.file \in Seq(AppendedRows) /\ e.chunks \in Seq(AppendedRows)
  BY DEF StoreType
<1>2. gone \in Seq(AppendedRows) /\ rest \in Seq(AppendedRows)
  BY <1>1, RowsInType DEF RowsOf, RowsNotOf
<1>3. f = [e EXCEPT !.file = e.file \o gone, !.chunks = rest]
  BY DEF WriteChunk
<1>4. e.file \o gone \in Seq(AppendedRows)
  BY <1>1, <1>2
<1>5. ASSUME NEW u \in Tables
      PROVE  /\ RowsOf((e.file \o gone) \o rest, u) = RowsOf(e.file \o e.chunks, u)
             /\ RowsOf(rest, u) = IF u = t THEN <<>> ELSE RowsOf(e.chunks, u)
  <2>1. /\ RowsOf((e.file \o gone) \o rest, u) = RowsOf(e.file \o gone, u) \o RowsOf(rest, u)
        /\ RowsOf(e.file \o gone, u) = RowsOf(e.file, u) \o RowsOf(gone, u)
        /\ RowsOf(e.file \o e.chunks, u) = RowsOf(e.file, u) \o RowsOf(e.chunks, u)
    <3>1. \A a \in Seq(AppendedRows), b \in Seq(AppendedRows) :
             RowsOf(a \o b, u) = RowsOf(a, u) \o RowsOf(b, u)
      BY RowsInConcat DEF RowsOf
    <3> HIDE DEF gone, rest
    <3> QED
      BY <1>1, <1>2, <1>4, <3>1
  <2>2. /\ RowsOf(e.file, u) \in Seq(AppendedRows)
        /\ RowsOf(e.chunks, u) \in Seq(AppendedRows)
    BY <1>1, RowsInType DEF RowsOf
  <2>3. CASE u = t
    <3>1. RowsOf(gone, u) = RowsOf(e.chunks, u)
      BY <1>1, <2>3, RowsInRowsIn DEF RowsOf
    <3>2. (Tables \ {t}) \cap {u} = {}
      BY <2>3
    <3>3. RowsOf(rest, u) = <<>>
      BY <1>1, <3>2, RowsInRowsIn DEF RowsOf, RowsNotOf
    <3> HIDE DEF gone, rest
    <3> QED
      BY <2>1, <2>2, <2>3, <3>1, <3>3
  <2>4. CASE u # t
    <3>1. {t} \cap {u} = {} /\ {u} \subseteq Tables \ {t}
      BY <2>4
    <3>2. RowsOf(gone, u) = <<>>
      BY <1>1, <3>1, RowsInRowsIn DEF RowsOf
    <3>3. RowsOf(rest, u) = RowsOf(e.chunks, u)
      BY <1>1, <3>1, RowsInRowsIn DEF RowsOf, RowsNotOf
    <3> HIDE DEF gone, rest
    <3> QED
      BY <2>1, <2>2, <2>4, <3>2, <3>3
  <2> QED
    BY <2>3, <2>4
<1> HIDE DEF gone, rest
<1>6. f \in StoreType /\ Beside(e, f) /\ f.telemetry = e.telemetry /\ f.evaluation = e.evaluation
  BY <1>2, <1>3, <1>4 DEF StoreType, Beside
<1>7. f.file = e.file \o gone /\ f.chunks = rest
  BY <1>3 DEF StoreType
<1>8. /\ RowsOf(f.chunks, t) = <<>>
      /\ \A u \in Tables : RowsOf(e.chunks, u) = <<>> => RowsOf(f.chunks, u) = <<>>
  BY <1>5, <1>7
<1> QED
  BY <1>5, <1>6, <1>7, <1>8 DEF Passed

\* So does adding to the writer.
LEMMA ExtendType ==
  ASSUME NEW e \in StoreType, NEW rows \in Seq(AppendedRows), rows # <<>>
  PROVE  LET f == Extend(e, rows)
         IN  /\ f \in StoreType /\ Beside(e, f)
             /\ f.telemetry = e.telemetry /\ f.evaluation = e.evaluation
             /\ \A u \in Tables : Passed(f, u) = Passed(e, u) \o RowsOf(rows, u)
<1> DEFINE h == [e EXCEPT !.chunks = @ \o rows]
           t == rows[1].table
<1>1. e.file \in Seq(AppendedRows) /\ e.chunks \in Seq(AppendedRows)
  BY DEF StoreType
<1>2. t \in Tables
  BY KindsOfRows, RowSplits
<1>3. /\ h \in StoreType /\ Beside(e, h) /\ h.file = e.file /\ h.chunks = e.chunks \o rows
      /\ h.telemetry = e.telemetry /\ h.evaluation = e.evaluation
  <2> DEFINE q == e.chunks \o rows
  <2>1. q \in Seq(AppendedRows) /\ h = [e EXCEPT !.chunks = q]
    BY <1>1
  <2> HIDE DEF q, h
  <2>2. /\ h \in StoreType /\ Beside(e, h) /\ h.file = e.file /\ h.chunks = q
        /\ h.telemetry = e.telemetry /\ h.evaluation = e.evaluation
    BY <2>1 DEF StoreType, Beside
  <2> QED
    BY <2>2 DEF q
<1>4. ASSUME NEW u \in Tables PROVE Passed(h, u) = Passed(e, u) \o RowsOf(rows, u)
  <2> DEFINE p == e.file
             q == e.chunks
  <2>1. p \in Seq(AppendedRows) /\ q \in Seq(AppendedRows)
    BY <1>1
  <2>2. h.file = p /\ h.chunks = q \o rows
    BY <1>3
  <2>3. Passed(e, u) = RowsOf(p \o q, u) /\ Passed(h, u) = RowsOf(p \o (q \o rows), u)
    BY <2>2 DEF Passed
  <2> HIDE DEF p, q, h
  <2> DEFINE a == p \o q
  <2>4. a \in Seq(AppendedRows) /\ p \o (q \o rows) = a \o rows
    BY <2>1, ConcatAssociative
  <2> HIDE DEF a
  <2>5. RowsOf(a \o rows, u) = RowsOf(a, u) \o RowsOf(rows, u)
    BY <2>4, RowsInConcat DEF RowsOf
  <2> QED
    BY <2>3, <2>4, <2>5 DEF a
<1>5. Extend(e, rows) = h \/ Extend(e, rows) = WriteChunk(h, t)
  BY DEF Extend
<1> HIDE DEF h, t
<1>6. CASE Extend(e, rows) = h
  BY <1>3, <1>4, <1>6
<1>7. CASE Extend(e, rows) = WriteChunk(h, t)
  <2> DEFINE f == WriteChunk(h, t)
  <2>1. /\ f \in StoreType /\ Beside(h, f)
        /\ f.telemetry = h.telemetry /\ f.evaluation = h.evaluation
        /\ \A u \in Tables : Passed(f, u) = Passed(h, u)
    BY <1>2, <1>3, WriteChunkType
  <2> HIDE DEF f
  <2>2. Beside(e, f)
    BY <1>3, <2>1 DEF Beside
  <2> QED
    BY <1>3, <1>4, <1>7, <2>1, <2>2 DEF f
<1> QED
  BY <1>5, <1>6, <1>7

\* After writing all the chunks the writer holds nothing.
LEMMA WriteChunksType ==
  ASSUME NEW e \in StoreType
  PROVE  LET f == WriteChunks(e)
         IN  /\ f \in StoreType /\ Beside(e, f)
             /\ f.telemetry = e.telemetry /\ f.evaluation = e.evaluation
             /\ \A u \in Tables : Passed(f, u) = Passed(e, u)
             /\ \A u \in EVAL_TABLES \cup {TELEMETRY_TABLE} : RowsOf(f.file, u) = Passed(f, u)
<1> DEFINE g == WriteChunk(e, "ground_truth_events")
           h == WriteChunk(g, "prediction_labels")
           f == WriteChunk(h, TELEMETRY_TABLE)
<1>1. EVAL_TABLES = {"ground_truth_events", "prediction_labels"}
  BY DEF EVAL_TABLES
<1>2. /\ "ground_truth_events" \in Tables /\ "prediction_labels" \in Tables
      /\ TELEMETRY_TABLE \in Tables
  BY <1>1 DEF Tables
<1>3. /\ g \in StoreType /\ Beside(e, g)
      /\ g.telemetry = e.telemetry /\ g.evaluation = e.evaluation
      /\ \A u \in Tables : Passed(g, u) = Passed(e, u)
      /\ RowsOf(g.chunks, "ground_truth_events") = <<>>
  BY <1>2, WriteChunkType
<1> HIDE DEF g
<1>4. /\ h \in StoreType /\ Beside(g, h)
      /\ h.telemetry = g.telemetry /\ h.evaluation = g.evaluation
      /\ \A u \in Tables : Passed(h, u) = Passed(g, u)
      /\ RowsOf(h.chunks, "prediction_labels") = <<>>
      /\ RowsOf(h.chunks, "ground_truth_events") = <<>>
  BY <1>2, <1>3, WriteChunkType
<1> HIDE DEF h
<1>5. /\ f \in StoreType /\ Beside(h, f)
      /\ f.telemetry = h.telemetry /\ f.evaluation = h.evaluation
      /\ \A u \in Tables : Passed(f, u) = Passed(h, u)
      /\ RowsOf(f.chunks, TELEMETRY_TABLE) = <<>>
      /\ RowsOf(f.chunks, "prediction_labels") = <<>>
      /\ RowsOf(f.chunks, "ground_truth_events") = <<>>
  BY <1>2, <1>4, WriteChunkType
<1> HIDE DEF f
<1>6. Beside(e, f)
  BY <1>3, <1>4, <1>5 DEF Beside
<1>7. ASSUME NEW u \in EVAL_TABLES \cup {TELEMETRY_TABLE} PROVE RowsOf(f.file, u) = Passed(f, u)
  <2>1. RowsOf(f.chunks, u) = <<>>
    BY <1>1, <1>5
  <2> DEFINE p == f.file
             q == f.chunks
  <2>2. p \in Seq(AppendedRows) /\ q \in Seq(AppendedRows)
    BY <1>5 DEF StoreType
  <2>3. Passed(f, u) = RowsOf(p \o q, u)
    BY DEF Passed
  <2> HIDE DEF p, q
  <2>4. RowsOf(p \o q, u) = RowsOf(p, u) \o RowsOf(q, u)
    BY <2>2, RowsInConcat DEF RowsOf
  <2>5. RowsOf(p, u) \in Seq(AppendedRows)
    BY <2>2, RowsInType DEF RowsOf
  <2> QED
    BY <2>1, <2>3, <2>4, <2>5, ConcatEmptySeq DEF p, q
<1>8. WriteChunks(e) = f
  BY DEF WriteChunks, f, g, h
<1> QED
  BY <1>3, <1>4, <1>5, <1>6, <1>7, <1>8

\* What the facade holds of the two appended stores goes to the writers, in order.
LEMMA FlushTelemetryType ==
  ASSUME NEW e \in StoreType
  PROVE  LET f == FlushTelemetry(e)
         IN  /\ f \in StoreType /\ Beside(e, f)
             /\ f.telemetry = <<>> /\ f.evaluation = e.evaluation
             /\ \A u \in Tables : Passed(f, u) = Passed(e, u) \o RowsOf(e.telemetry, u)
<1> DEFINE rows == e.telemetry
<1>1. rows \in Seq(Samples) /\ rows \in Seq(AppendedRows)
  BY KindsOfRows DEF StoreType
<1>2. CASE rows = <<>>
  <2>1. FlushTelemetry(e) = e
    BY <1>2 DEF FlushTelemetry
  <2>2. ASSUME NEW u PROVE Passed(e, u) = Passed(e, u) \o RowsOf(rows, u)
    <3>1. e.file \o e.chunks \in Seq(AppendedRows)
      BY DEF StoreType
    <3>2. Passed(e, u) \in Seq(AppendedRows)
      BY <3>1, RowsInType DEF Passed, RowsOf
    <3>3. RowsOf(rows, u) = <<>>
      BY <1>2, RowsInNone DEF RowsOf
    <3> QED
      BY <3>2, <3>3, ConcatEmptySeq
  <2> QED
    BY <1>2, <2>1, <2>2 DEF Beside
<1>3. CASE rows # <<>>
  <2> DEFINE h == Extend(e, rows)
             none == <<>>
             f == [h EXCEPT !.telemetry = none]
  <2>1. FlushTelemetry(e) = f /\ none = <<>> /\ none \in Seq(Samples)
    BY <1>3 DEF FlushTelemetry
  <2>2. /\ h \in StoreType /\ Beside(e, h) /\ h.evaluation = e.evaluation
        /\ \A u \in Tables : Passed(h, u) = Passed(e, u) \o RowsOf(rows, u)
    BY <1>1, <1>3, ExtendType
  <2> HIDE DEF h, none
  <2>3. /\ f \in StoreType /\ Beside(h, f) /\ f.evaluation = h.evaluation
        /\ f.telemetry = none /\ f.file = h.file /\ f.chunks = h.chunks
    BY <2>1, <2>2 DEF StoreType, Beside
  <2>4. Beside(e, f) /\ \A u : Passed(f, u) = Passed(h, u)
    BY <2>2, <2>3 DEF Beside, Passed
  <2> QED
    BY <2>1, <2>2, <2>3, <2>4
<1> QED
  BY <1>2, <1>3

LEMMA FlushEvaluationType ==
  ASSUME NEW e \in StoreType
  PROVE  LET f == FlushEvaluation(e)
         IN  /\ f \in StoreType /\ Beside(e, f)
             /\ f.telemetry = e.telemetry /\ f.evaluation = <<>>
             /\ \A u \in Tables : Passed(f, u) = Passed(e, u) \o RowsOf(e.evaluation, u)
<1> DEFINE rows == e.evaluation
           n == Len(rows)
           Holds(i, f) ==
             /\ f \in StoreType /\ Beside(e, f)
             /\ f.telemetry = e.telemetry /\ f.evaluation = e.evaluation
             /\ \A u \in Tables : Passed(f, u) = Passed(e, u) \o RowsOf(SubSeq(rows, 1, i), u)
<1>1. rows \in Seq(AppendedRows) /\ n \in Nat
  BY KindsOfRows DEF StoreType
<1>2. PICK g : ExtendedPass(g, e)
  BY <1>1, ExtendedPassExists
<1>3. /\ Extended(e) = g[n] /\ g[0] = e
      /\ \A i \in 1..n : g[i] = Extend(g[i - 1], <<rows[i]>>)
  BY <1>2 DEF ExtendedPass
<1> DEFINE T == {i \in 0..n : Holds(i, g[i])}
<1>4. \A u : Passed(e, u) \in Seq(AppendedRows)
  <2>1. e.file \o e.chunks \in Seq(AppendedRows)
    BY DEF StoreType
  <2> QED
    BY <2>1, RowsInType DEF Passed, RowsOf
<1>5. SubSeq(rows, 1, 0) = <<>> /\ SubSeq(rows, 1, n) = rows
  BY <1>1, PrefixEnds
<1>6. \A i \in 1..n : /\ rows[i] \in AppendedRows
                      /\ SubSeq(rows, 1, i - 1) \in Seq(AppendedRows)
                      /\ SubSeq(rows, 1, i) = SubSeq(rows, 1, i - 1) \o <<rows[i]>>
  <2>1. ASSUME NEW i \in 1..n
        PROVE  /\ rows[i] \in AppendedRows
               /\ SubSeq(rows, 1, i - 1) \in Seq(AppendedRows)
               /\ SubSeq(rows, 1, i) = Append(SubSeq(rows, 1, i - 1), rows[i])
    BY <1>1, PrefixStep
  <2> QED
    BY <2>1, AppendIsConcat
<1> HIDE DEF rows, n
<1>7. 0 \in T
  <2>1. \A u : Passed(e, u) = Passed(e, u) \o RowsOf(<<>>, u)
    BY <1>4, RowsInNone, ConcatEmptySeq DEF RowsOf
  <2>2. Holds(0, e)
    BY <1>5, <2>1 DEF Beside
  <2> QED
    BY <1>1, <1>3, <2>2
<1>8. ASSUME NEW i \in 1..n, i - 1 \in T PROVE i \in T
  <2> DEFINE f == g[i - 1]
             h == g[i]
             p == SubSeq(rows, 1, i - 1)
             x == <<rows[i]>>
  <2>1. Holds(i - 1, f) /\ h = Extend(f, x)
    BY <1>3, <1>8
  <2>2. x \in Seq(AppendedRows) /\ x # <<>> /\ p \in Seq(AppendedRows)
        /\ SubSeq(rows, 1, i) = p \o x
    BY <1>6
  <2> HIDE DEF f, h, p, x
  <2>3. /\ h \in StoreType /\ Beside(f, h)
        /\ h.telemetry = f.telemetry /\ h.evaluation = f.evaluation
        /\ \A u \in Tables : Passed(h, u) = Passed(f, u) \o RowsOf(x, u)
    BY <2>1, <2>2, ExtendType
  <2>4. Beside(e, h)
    BY <2>1, <2>3 DEF Beside
  <2>5. ASSUME NEW u \in Tables
        PROVE  Passed(h, u) = Passed(e, u) \o RowsOf(SubSeq(rows, 1, i), u)
    <3> DEFINE a == Passed(e, u)
               b == RowsOf(p, u)
               c == RowsOf(x, u)
    <3>1. a \in Seq(AppendedRows) /\ b \in Seq(AppendedRows) /\ c \in Seq(AppendedRows)
      BY <1>4, <2>2, RowsInType DEF RowsOf
    <3>2. RowsOf(p \o x, u) = b \o c
      BY <2>2, RowsInConcat DEF RowsOf
    <3>3. Passed(h, u) = Passed(f, u) \o c /\ Passed(f, u) = a \o b
      BY <2>1, <2>3 DEF p
    <3> HIDE DEF a, b, c
    <3>4. (a \o b) \o c = a \o (b \o c)
      BY <3>1, ConcatAssociative
    <3> QED
      BY <2>2, <3>2, <3>3, <3>4 DEF a
  <2>6. Holds(i, h)
    BY <2>1, <2>3, <2>4, <2>5
  <2> QED
    BY <1>1, <2>6 DEF h
<1> HIDE DEF T
<1>9. 0..n \subseteq T
  BY <1>1, <1>7, <1>8, Along
<1> DEFINE h == g[n]
           none == <<>>
           f == [h EXCEPT !.evaluation = none]
<1>10. Holds(n, h)
  BY <1>1, <1>9 DEF T
<1>11. FlushEvaluation(e) = f
  BY <1>3 DEF FlushEvaluation, Extended, rows
<1>12. none = <<>> /\ none \in Seq(LabelRows)
  OBVIOUS
<1> HIDE DEF h, none
<1>13. /\ f \in StoreType /\ Beside(h, f) /\ f.evaluation = none
       /\ f.telemetry = h.telemetry /\ f.file = h.file /\ f.chunks = h.chunks
  BY <1>10, <1>12 DEF StoreType, Beside
<1>14. Beside(e, f) /\ \A u : Passed(f, u) = Passed(h, u)
  BY <1>10, <1>13 DEF Beside, Passed
<1> QED
  BY <1>5, <1>10, <1>11, <1>13, <1>14, <1>12 DEF rows

-----------------------------------------------------------------------------
\* The newest version of each key: what the facade promises to keep.

\* The keys of rows, and the newest rows of a sequence.
KeysOf(s)   == {RowKey(r) : r \in Elements(s)}
LastRows(s) == Newest({}, s)

\* Newest, as the rows come.
LEMMA NewestNone ==
  ASSUME NEW S
  PROVE  Newest(S, <<>>) = S
<1>1. <<>> \in Seq({}) /\ Len(<<>>) = 0
  OBVIOUS
<1>2. PICK g : NewestPass(g, S, <<>>)
  BY <1>1, NewestPassExists
<1> QED
  BY <1>1, <1>2 DEF NewestPass

LEMMA NewestAppend ==
  ASSUME NEW R, NEW s \in Seq(R), NEW x \in R, NEW S
  PROVE  Newest(S, Append(s, x)) = Replace(Newest(S, s), x)
<1> DEFINE n == Len(s)
           u == Append(s, x)
<1>1. n \in Nat /\ u \in Seq(R) /\ Len(u) = n + 1 /\ u[n + 1] = x /\ \A i \in 1..n : u[i] = s[i]
  OBVIOUS
<1>2. PICK g : NewestPass(g, S, s)
  BY NewestPassExists
<1>3. PICK h : NewestPass(h, S, u)
  BY <1>1, NewestPassExists
<1> HIDE DEF n, u
<1>4. Newest(S, s) = g[n] /\ g[0] = S /\ \A i \in 1..n : g[i] = Replace(g[i - 1], s[i])
  BY <1>2 DEF NewestPass, n
<1>5. Newest(S, u) = h[n + 1] /\ h[0] = S /\ \A i \in 1..n + 1 : h[i] = Replace(h[i - 1], u[i])
  BY <1>1, <1>3 DEF NewestPass
<1> DEFINE T == {i \in 0..n : h[i] = g[i]}
<1>6. 0 \in T /\ \A i \in 1..n : i - 1 \in T => i \in T
  BY <1>1, <1>4, <1>5
<1> HIDE DEF T
<1>7. 0..n \subseteq T
  BY <1>1, <1>6, Along
<1>8. h[n] = g[n]
  BY <1>1, <1>7 DEF T
<1>9. h[n + 1] = Replace(h[n], x)
  BY <1>1, <1>5
<1> QED
  BY <1>4, <1>5, <1>8, <1>9 DEF u

LEMMA KeysOfAppend ==
  ASSUME NEW s \in Seq(Rows), NEW x \in Rows
  PROVE  KeysOf(Append(s, x)) = KeysOf(s) \cup {RowKey(x)}
<1>1. Elements(Append(s, x)) = Elements(s) \cup {x}
  BY ElementsAppend
<1> QED
  BY <1>1 DEF KeysOf

\* Older rows stay where no newer one has their key.
LEMMA NewestOf ==
  ASSUME NEW S \in SUBSET Contents, NEW s \in Seq(Rows)
  PROVE  /\ Newest(S, s) \in SUBSET Contents
         /\ \A c : c \in Newest(S, s)
                   <=> \/ c \in S /\ <<c[1], c[2]>> \notin KeysOf(s)
                       \/ c \in LastRows(s)
<1> DEFINE Holds(q) ==
             /\ Newest(S, q) \in SUBSET Contents /\ LastRows(q) \in SUBSET Contents
             /\ \A c : c \in Newest(S, q)
                       <=> \/ c \in S /\ <<c[1], c[2]>> \notin KeysOf(q)
                           \/ c \in LastRows(q)
           T == {q \in Seq(Rows) : Holds(q)}
<1>1. <<>> \in T
  <2>1. Newest(S, <<>>) = S /\ LastRows(<<>>) = {} /\ KeysOf(<<>>) = {}
    BY NewestNone, ElementsNone DEF LastRows, KeysOf
  <2> QED
    BY <2>1
<1>2. ASSUME NEW q \in Seq(Rows), NEW x \in Rows, q \in T PROVE Append(q, x) \in T
  <2> DEFINE A == Newest(S, q)
             B == LastRows(q)
             p == Append(q, x)
  <2>1. /\ A \in SUBSET Contents /\ B \in SUBSET Contents
        /\ \A c : c \in A <=> \/ c \in S /\ <<c[1], c[2]>> \notin KeysOf(q)
                              \/ c \in B
    BY <1>2
  <2>2. Newest(S, p) = Replace(A, x) /\ LastRows(p) = Replace(B, x)
    BY NewestAppend DEF LastRows
  <2>3. KeysOf(p) = KeysOf(q) \cup {RowKey(x)} /\ p \in Seq(Rows)
    BY KeysOfAppend
  <2> HIDE DEF A, B, p
  <2>4. Replace(A, x) \in SUBSET Contents /\ Replace(B, x) \in SUBSET Contents
    BY <2>1, Replaced
  <2>5. \A Q, c : c \in Replace(Q, x)
                  <=> (c \in Q /\ <<c[1], c[2]>> # RowKey(x)) \/ c = Content(x)
    BY DEF Replace, RowKey
  <2>6. ASSUME NEW c
        PROVE  c \in Newest(S, p) <=> \/ c \in S /\ <<c[1], c[2]>> \notin KeysOf(p)
                                      \/ c \in LastRows(p)
    BY <2>1, <2>2, <2>3, <2>5
  <2> QED
    BY <2>2, <2>3, <2>4, <2>6 DEF p
<1> HIDE DEF T
<1>3. s \in T
  BY <1>1, <1>2, ByPrefixes
<1> QED
  BY <1>3 DEF T

\* The newest rows are rows of the sequence, one for each of its keys.
LEMMA LastRowsOf ==
  ASSUME NEW s \in Seq(Rows)
  PROVE  /\ LastRows(s) \in SUBSET Contents
         /\ KeysIn(LastRows(s)) = KeysOf(s)
         /\ LastRows(s) \subseteq {Content(r) : r \in Elements(s)}
<1> DEFINE Holds(q) ==
             /\ LastRows(q) \in SUBSET Contents
             /\ KeysIn(LastRows(q)) = KeysOf(q)
             /\ LastRows(q) \subseteq {Content(r) : r \in Elements(q)}
           T == {q \in Seq(Rows) : Holds(q)}
<1>1. <<>> \in T
  <2>1. LastRows(<<>>) = {} /\ KeysOf(<<>>) = {}
    BY NewestNone, ElementsNone DEF LastRows, KeysOf
  <2> QED
    BY <2>1 DEF KeysIn
<1>2. ASSUME NEW q \in Seq(Rows), NEW x \in Rows, q \in T PROVE Append(q, x) \in T
  <2> DEFINE B == LastRows(q)
             p == Append(q, x)
  <2>1. /\ B \in SUBSET Contents /\ KeysIn(B) = KeysOf(q)
        /\ B \subseteq {Content(r) : r \in Elements(q)}
    BY <1>2
  <2>2. LastRows(p) = Replace(B, x)
    BY NewestAppend DEF LastRows
  <2>3. /\ KeysOf(p) = KeysOf(q) \cup {RowKey(x)} /\ p \in Seq(Rows)
        /\ Elements(p) = Elements(q) \cup {x}
    BY KeysOfAppend, ElementsAppend
  <2> HIDE DEF B, p
  <2>4. /\ Replace(B, x) \in SUBSET Contents
        /\ KeysIn(Replace(B, x)) = KeysIn(B) \cup {RowKey(x)}
        /\ \A c \in Replace(B, x) : c = Content(x) \/ c \in B
    BY <2>1, Replaced
  <2> QED
    BY <2>1, <2>2, <2>3, <2>4 DEF p
<1> HIDE DEF T
<1>3. s \in T
  BY <1>1, <1>2, ByPrefixes
<1> QED
  BY <1>3 DEF T

\* The newest rows of some tables.
LEMMA LastRowsIn ==
  ASSUME NEW s \in Seq(Rows), NEW W, NEW c, c \in LastRows(s), c[1] \in W
  PROVE  c \in LastRows(RowsIn(s, W))
<1> DEFINE Holds(q) == \A y : y \in LastRows(q) /\ y[1] \in W => y \in LastRows(RowsIn(q, W))
           T == {q \in Seq(Rows) : Holds(q)}
<1>1. <<>> \in T
  <2>1. LastRows(<<>>) = {}
    BY NewestNone DEF LastRows
  <2> QED
    BY <2>1
<1>2. ASSUME NEW q \in Seq(Rows), NEW x \in Rows, q \in T PROVE Append(q, x) \in T
  <2> DEFINE p == Append(q, x)
             w == RowsIn(q, W)
  <2>1. Holds(q) /\ p \in Seq(Rows) /\ w \in Seq(Rows)
    BY <1>2, RowsInType
  <2>2. LastRows(p) = Replace(LastRows(q), x) /\ LastRows(Append(w, x)) = Replace(LastRows(w), x)
    BY <2>1, NewestAppend DEF LastRows
  <2>3. Content(x)[1] = x.table
    BY ContentType
  <2>4. /\ x.table \in W => RowsIn(p, W) = Append(w, x)
        /\ x.table \notin W => RowsIn(p, W) = w
    BY RowsInAppend
  <2>5. \A Q, y : y \in Replace(Q, x)
                  <=> (y \in Q /\ <<y[1], y[2]>> # RowKey(x)) \/ y = Content(x)
    BY DEF Replace, RowKey
  <2> HIDE DEF p
  <2>6. ASSUME NEW y, y \in LastRows(p), y[1] \in W PROVE y \in LastRows(RowsIn(p, W))
    <3> HIDE DEF w
    <3>1. y \in LastRows(q) => y \in LastRows(w)
      BY <2>1, <2>6 DEF w
    <3>2. (y \in LastRows(q) /\ <<y[1], y[2]>> # RowKey(x)) \/ y = Content(x)
      BY <2>2, <2>5, <2>6
    <3>3. CASE x.table \in W
      <4>1. LastRows(RowsIn(p, W)) = Replace(LastRows(w), x)
        BY <2>2, <2>4, <3>3
      <4> QED
        BY <2>5, <3>1, <3>2, <4>1
    <3>4. CASE x.table \notin W
      BY <2>3, <2>4, <2>6, <3>1, <3>2, <3>4
    <3> QED
      BY <3>3, <3>4
  <2> QED
    BY <2>1, <2>6 DEF p
<1> HIDE DEF T
<1>3. s \in T
  BY <1>1, <1>2, ByPrefixes
<1> QED
  BY <1>3 DEF T

\* The newest rows of two sequences in turn.
LEMMA LastRowsTail ==
  ASSUME NEW s \in Seq(Rows), NEW k \in 0..Len(s)
  PROVE  LastRows(s) \subseteq LastRows(SubSeq(s, 1, k))
                                 \cup {Content(s[j]) : j \in k + 1..Len(s)}
<1> DEFINE n == Len(s)
           L(i) == LastRows(SubSeq(s, 1, i))
           Holds(i) == i >= k => L(i) \subseteq L(k) \cup {Content(s[j]) : j \in k + 1..i}
           T == {i \in 0..n : Holds(i)}
<1>1. n \in Nat /\ k \in 0..n
  OBVIOUS
<1>2. \A i \in 1..n : L(i) = Replace(L(i - 1), s[i])
  <2>1. ASSUME NEW i \in 1..n PROVE L(i) = Replace(L(i - 1), s[i])
    <3> DEFINE q == SubSeq(s, 1, i - 1)
               x == s[i]
    <3>1. SubSeq(s, 1, i) = Append(q, x) /\ q \in Seq(Rows) /\ x \in Rows
      BY PrefixStep
    <3> HIDE DEF q, x
    <3>2. Newest({}, Append(q, x)) = Replace(Newest({}, q), x)
      BY <3>1, NewestAppend
    <3> QED
      BY <3>1, <3>2 DEF LastRows, q, x
  <2> QED
    BY <2>1
<1>3. SubSeq(s, 1, n) = s
  BY PrefixEnds
<1> HIDE DEF n, L
<1>4. 0 \in T
  BY <1>1
<1>5. ASSUME NEW i \in 1..n, i - 1 \in T PROVE i \in T
  <2>1. CASE i - 1 >= k
    <3>1. L(i) \subseteq L(i - 1) \cup {Content(s[i])}
      BY <1>2 DEF Replace
    <3>2. L(i - 1) \subseteq L(k) \cup {Content(s[j]) : j \in k + 1..i - 1}
      BY <1>5, <2>1
    <3>3. (k + 1..i - 1) \cup {i} \subseteq k + 1..i
      BY <1>1, <2>1
    <3> QED
      BY <1>1, <3>1, <3>2, <3>3
  <2>2. CASE ~ (i - 1 >= k)
    <3>1. i >= k => i = k
      BY <1>1, <2>2
    <3> QED
      BY <1>1, <3>1
  <2> QED
    BY <2>1, <2>2
<1> HIDE DEF T
<1>6. 0..n \subseteq T
  BY <1>1, <1>4, <1>5, Along
<1>7. L(n) \subseteq L(k) \cup {Content(s[j]) : j \in k + 1..n}
  BY <1>1, <1>6 DEF T
<1> QED
  BY <1>3, <1>7 DEF L, n
-----------------------------------------------------------------------------
\* One call of a store, whatever happens to it: each row is stored or lost.

\* What a call keeps of the stored rows and of its own.
Saves(e, f, rows) ==
  /\ Untouched(e, f) /\ f.buffer = e.buffer /\ f.pending = e.pending /\ e.lost \subseteq f.lost
  /\ \A c \in e.stored : <<c[1], c[2]>> \notin KeysOf(rows) => c \in f.stored \cup f.lost
  /\ LastRows(rows) \subseteq f.stored \cup f.lost

LEMMA RelationalRowsAreRows ==
  ASSUME NEW s \in Seq(RelationalRows)
  PROVE  s \in Seq(Rows)
BY KindsOfRows

\* A row of a call is stored or lost, and the rows of other keys stay.
LEMMA InsertKeeps ==
  ASSUME NEW e \in StoreType, NEW rows \in Seq(RelationalRows), ~ e.raised
  PROVE  Insert(e, rows) \in StoreType /\ Saves(e, Insert(e, rows), rows)
<1> DEFINE n == Len(rows)
           L(i) == LastRows(SubSeq(rows, 1, i))
           Older(f) == \A c \in e.stored : <<c[1], c[2]>> \notin KeysOf(rows) => c \in f.stored
           Holds(i, f) ==
             /\ f \in StoreType /\ Untouched(e, f) /\ f.buffer = e.buffer
             /\ f.pending = e.pending /\ e.lost \subseteq f.lost /\ Older(f)
             /\ ~ f.raised => L(i) \subseteq f.stored
             /\ f.raised => L(n) \subseteq f.stored \cup f.lost
<1>1. PICK g : InsertPass(g, e, rows)
  BY InsertPassExists
<1>2. /\ Insert(e, rows) = g[n] /\ g[0] = e
      /\ \A i \in 1..n : g[i] = InsertRow(g[i - 1], rows, i)
  BY <1>1 DEF InsertPass
<1>3. n \in Nat /\ rows \in Seq(Rows) /\ SubSeq(rows, 1, n) = rows /\ SubSeq(rows, 1, 0) = <<>>
  BY RelationalRowsAreRows, PrefixEnds
<1>4. ASSUME NEW i \in 1..n
      PROVE  /\ rows[i] \in Rows /\ RowKey(rows[i]) \in KeysOf(rows)
             /\ L(i) = Replace(L(i - 1), rows[i])
             /\ L(n) \subseteq L(i - 1) \cup {Content(rows[j]) : j \in i..n}
  <2> DEFINE q == SubSeq(rows, 1, i - 1)
             x == rows[i]
  <2>1. SubSeq(rows, 1, i) = Append(q, x) /\ q \in Seq(Rows) /\ x \in Rows
    BY <1>3, PrefixStep
  <2>2. RowKey(x) \in KeysOf(rows)
    BY DEF KeysOf, Elements
  <2>3. i - 1 \in 0..Len(rows) /\ (i - 1) + 1 = i
    OBVIOUS
  <2>4. LastRows(rows) \subseteq L(i - 1) \cup {Content(rows[j]) : j \in (i - 1) + 1..Len(rows)}
    BY <1>3, <2>3, LastRowsTail
  <2> HIDE DEF q, x
  <2>5. Newest({}, Append(q, x)) = Replace(Newest({}, q), x)
    BY <2>1, NewestAppend
  <2>6. L(i) = Replace(L(i - 1), x)
    BY <2>1, <2>5 DEF LastRows, q
  <2> QED
    BY <1>3, <2>1, <2>2, <2>3, <2>4, <2>6 DEF x
<1>5. L(0) = {}
  BY <1>3, NewestNone DEF LastRows
<1> DEFINE T == {i \in 0..n : Holds(i, g[i])}
<1>6. 0 \in T
  <2>1. Holds(0, e)
    BY <1>5 DEF Untouched
  <2> QED
    BY <1>2, <1>3, <2>1
<1> HIDE DEF L
<1>7. ASSUME NEW i \in 1..n, i - 1 \in T PROVE i \in T
  <2> DEFINE f == g[i - 1]
             h == g[i]
             x == rows[i]
  <2>1. Holds(i - 1, f) /\ h = InsertRow(f, rows, i)
    BY <1>2, <1>7
  <2>2. /\ x \in Rows /\ RowKey(x) \in KeysOf(rows) /\ L(i) = Replace(L(i - 1), x)
        /\ L(n) \subseteq L(i - 1) \cup {Content(rows[j]) : j \in i..n}
    BY <1>4
  <2> HIDE DEF f
  <2>3. CASE f.raised
    <3>1. h = f
      BY <2>1, <2>3 DEF InsertRow
    <3>2. Holds(i, f)
      BY <2>1, <2>3
    <3> QED
      BY <3>1, <3>2
  <2>4. CASE ~ f.raised
    <3>1. /\ h \in StoreType /\ Untouched(f, h) /\ h.buffer = f.buffer
          /\ h.pending = f.pending
      BY <2>1, InsertRowType, InsertRowFrame
    <3>2. Untouched(e, h)
      BY <2>1, <3>1 DEF Untouched
    <3>3. CASE Resolves(f.stored, x)
      <4>1. h.stored = Replace(f.stored, x) /\ h.lost = f.lost /\ h.raised = f.raised
        BY <2>1, <2>4, <3>3 DEF InsertRow, StoreType
      <4>2. \A Q, y : y \in Replace(Q, x)
                      <=> (y \in Q /\ <<y[1], y[2]>> # RowKey(x)) \/ y = Content(x)
        BY DEF Replace, RowKey
      <4> HIDE DEF h, x
      <4>3. Older(h)
        BY <2>1, <2>2, <4>1, <4>2
      <4>4. L(i) \subseteq h.stored
        BY <2>1, <2>2, <2>4, <4>1, <4>2
      <4>5. Holds(i, h)
        BY <2>1, <2>4, <3>1, <3>2, <4>1, <4>3, <4>4
      <4> QED
        BY <4>5 DEF h
    <3>4. CASE ~ Resolves(f.stored, x)
      <4>1. h = Refuse(f, rows, i)
        BY <2>1, <2>4, <3>4 DEF InsertRow
      <4>2. h.lost = f.lost \cup {Content(rows[j]) : j \in i..n}
        BY <2>1, <4>1, RefuseType
      <4>3. h.stored = f.stored /\ h.raised = TRUE
        BY <2>1, <4>1 DEF Refuse, StoreType
      <4> HIDE DEF h, n
      <4>4. L(n) \subseteq h.stored \cup h.lost
        BY <2>1, <2>2, <2>4, <4>2, <4>3
      <4>5. Holds(i, h)
        BY <2>1, <3>1, <3>2, <4>2, <4>3, <4>4
      <4> QED
        BY <4>5 DEF h
    <3> QED
      BY <3>3, <3>4
  <2> QED
    BY <2>3, <2>4
<1> HIDE DEF T
<1>8. 0..n \subseteq T
  BY <1>3, <1>6, <1>7, Along
<1>9. Holds(n, g[n])
  BY <1>3, <1>8 DEF T
<1>10. L(n) = LastRows(rows)
  BY <1>3 DEF L
<1> QED
  BY <1>2, <1>9, <1>10 DEF Saves

\* A dropped connection loses what was stored and not committed.
LEMMA DisconnectKeeps ==
  ASSUME NEW e \in StoreType
  PROVE  LET f == Disconnect(e)
         IN  /\ f \in StoreType /\ Untouched(e, f) /\ f.buffer = e.buffer
             /\ f.pending = e.pending /\ f.raised = e.raised
             /\ f.stored = f.committed /\ e.lost \subseteq f.lost
             /\ e.stored \subseteq f.stored \cup f.lost
BY DEF Disconnect, StoreType, Untouched

\* So it is when the call fails.
LEMMA UpsertKeeps ==
  ASSUME NEW e \in StoreType, NEW rows \in Seq(RelationalRows), rows # <<>>, ~ e.raised
  PROVE  Upsert(e, rows) \in StoreType /\ Saves(e, Upsert(e, rows), rows)
<1>1. /\ 1 \in 1..Len(rows) /\ rows[1].table \in Tables /\ rows \in Seq(Rows)
  BY RelationalRowsAreRows DEF Tables, RelationalRows
<1>2. ASSUME NEW h \in StoreType, Untouched(e, h), h.buffer = e.buffer, h.pending = e.pending,
             h.lost = e.lost, h.stored = e.stored
      PROVE  LET f == Refuse(h, rows, 1) IN f \in StoreType /\ Saves(e, f, rows)
  <2> DEFINE f == Refuse(h, rows, 1)
  <2>1. f \in StoreType /\ f.lost = h.lost \cup {Content(rows[j]) : j \in 1..Len(rows)}
    BY <1>1, RefuseType
  <2>2. Untouched(h, f) /\ f.buffer = h.buffer /\ f.pending = h.pending /\ f.stored = h.stored
    BY <1>2 DEF Refuse, StoreType, Untouched
  <2>3. LastRows(rows) \subseteq {Content(rows[j]) : j \in 1..Len(rows)}
    BY <1>1, LastRowsOf DEF Elements
  <2> HIDE DEF f
  <2>4. Untouched(e, f)
    BY <1>2, <2>2 DEF Untouched
  <2> QED
    BY <1>2, <2>1, <2>2, <2>3, <2>4 DEF Saves, f
<1>3. CASE e.fuse = 1
  <2> DEFINE h == Refuse(e, rows, 1)
             f == [h EXCEPT !.fuse = 0, !.failed = @ \cup {rows[1].table}]
  <2>1. Upsert(e, rows) = IF e.cut THEN Disconnect(f) ELSE f
    BY <1>3 DEF Upsert
  <2>2. h \in StoreType /\ Saves(e, h, rows)
    BY <1>2 DEF Untouched
  <2> HIDE DEF h
  <2>3. /\ f \in StoreType /\ Untouched(h, f) /\ f.buffer = h.buffer /\ f.pending = h.pending
        /\ f.stored = h.stored /\ f.lost = h.lost
    BY <1>1, <2>2 DEF StoreType, Untouched
  <2> HIDE DEF f
  <2>4. Saves(e, f, rows)
    BY <2>2, <2>3 DEF Saves, Untouched
  <2>5. CASE ~ e.cut
    BY <2>1, <2>3, <2>4, <2>5
  <2>6. CASE e.cut
    <3> DEFINE b == Disconnect(f)
    <3>1. /\ b \in StoreType /\ Untouched(f, b) /\ b.buffer = f.buffer
          /\ b.pending = f.pending /\ f.lost \subseteq b.lost
          /\ f.stored \subseteq b.stored \cup b.lost
      BY <2>3, DisconnectKeeps
    <3> HIDE DEF b
    <3>2. Untouched(e, b)
      BY <2>4, <3>1 DEF Saves, Untouched
    <3>3. Saves(e, b, rows)
      BY <2>4, <3>1, <3>2 DEF Saves
    <3> QED
      BY <2>1, <2>6, <3>1, <3>3 DEF b
  <2> QED
    BY <2>5, <2>6
<1>4. CASE e.fuse # 1
  <2> DEFINE h == [e EXCEPT !.fuse = IF @ = 0 THEN 0 ELSE @ - 1]
  <2>1. Upsert(e, rows) = IF h.broken THEN Refuse(h, rows, 1) ELSE Insert(h, rows)
    BY <1>4 DEF Upsert
  <2>2. /\ h \in StoreType /\ Untouched(e, h) /\ h.buffer = e.buffer /\ h.pending = e.pending
        /\ h.stored = e.stored /\ h.lost = e.lost /\ h.raised = e.raised
    <3>1. e.fuse \in Nat
      BY DEF StoreType
    <3>2. (IF e.fuse = 0 THEN 0 ELSE e.fuse - 1) \in Nat
      BY <3>1
    <3> QED
      BY <3>2 DEF StoreType, Untouched
  <2> HIDE DEF h
  <2>3. CASE h.broken
    BY <1>2, <2>1, <2>2, <2>3
  <2>4. CASE ~ h.broken
    <3> DEFINE f == Insert(h, rows)
    <3>1. f \in StoreType /\ Saves(h, f, rows)
      BY <2>2, InsertKeeps
    <3> HIDE DEF f
    <3>2. Saves(e, f, rows)
      BY <2>2, <3>1 DEF Saves, Untouched
    <3> QED
      BY <2>1, <2>4, <3>1, <3>2 DEF f
  <2> QED
    BY <2>3, <2>4
<1> QED
  BY <1>3, <1>4

\* Every row handed over is the newest of its key, once the buffer is stored, or
\* it is lost.
RowsKept(e) == e.handed \subseteq Newest(e.stored, e.buffer) \cup e.lost

\* When every row that was stored or buffered still is, or is lost, none is forgotten.
LEMMA RowsKeptWhen ==
  ASSUME NEW e \in StoreType
  PROVE  RowsKept(e) <=> \A c \in e.handed :
                            \/ c \in e.stored /\ <<c[1], c[2]>> \notin KeysOf(e.buffer)
                            \/ c \in LastRows(e.buffer) \/ c \in e.lost
<1>1. e.buffer \in Seq(Rows) /\ e.stored \in SUBSET Contents
  BY RelationalRowsAreRows DEF StoreType
<1> QED
  BY <1>1, NewestOf DEF RowsKept

\* A flush forgets no row: table by table, as a whole, and with its commit.
LEMMA FlushTableKeeps ==
  ASSUME NEW e \in StoreType, ~ e.raised, RowsKept(e), NEW t \in DOMAIN References
  PROVE  LET f == FlushTable(e, t)
         IN  /\ f \in StoreType /\ RowsKept(f) /\ Untouched(e, f) /\ f.pending = e.pending
             /\ Elements(f.buffer) = {r \in Elements(e.buffer) : r.table # t}
<1> DEFINE buffer == e.buffer
           rows == RowsOf(buffer, t)
           rest == RowsNotOf(buffer, t)
           h == [e EXCEPT !.buffer = rest]
           f == FlushTable(e, t)
<1>1. buffer \in Seq(RelationalRows) /\ buffer \in Seq(Rows)
  BY RelationalRowsAreRows DEF StoreType
<1>2. CASE \A r \in Elements(buffer) : r.table # t
  <2>1. f = e
    BY <1>1, <1>2 DEF FlushTable, Elements
  <2> QED
    BY <1>2, <2>1 DEF Untouched
<1>3. CASE ~ \A r \in Elements(buffer) : r.table # t
  <2>1. f = Upsert(h, rows)
    BY <1>1, <1>3 DEF FlushTable, Elements
  <2>2. /\ rows \in Seq(RelationalRows) /\ rest \in Seq(RelationalRows)
        /\ Elements(rows) = {r \in Elements(buffer) : r.table = t}
        /\ Elements(rest) = {r \in Elements(buffer) : r.table # t}
    <3>1. rows \in Seq(RelationalRows) /\ rest \in Seq(RelationalRows)
      BY <1>1, RowsInType DEF RowsOf, RowsNotOf
    <3>2. /\ Elements(rows) = {r \in Elements(buffer) : r.table \in {t}}
          /\ Elements(rest) = {r \in Elements(buffer) : r.table \in Tables \ {t}}
      BY <1>1, RowsInElements DEF RowsOf, RowsNotOf
    <3>3. \A r \in Elements(buffer) : r.table \in Tables
      BY <1>1, ElementsType, KindsOfRows DEF Tables
    <3> QED
      BY <3>1, <3>2, <3>3
  <2>3. ASSUME NEW c \in LastRows(buffer) PROVE c \in LastRows(rows) \/ c \in LastRows(rest)
    <3>1. c[1] \in Tables
      BY <1>1, LastRowsOf DEF Contents
    <3>2. CASE c[1] = t
      <4>1. c[1] \in {t}
        BY <3>2
      <4> QED
        BY <1>1, <4>1, LastRowsIn DEF RowsOf
    <3>3. CASE c[1] # t
      <4>1. c[1] \in Tables \ {t}
        BY <3>1, <3>3
      <4> QED
        BY <1>1, <4>1, LastRowsIn DEF RowsNotOf
    <3> QED
      BY <3>2, <3>3
  <2>4. /\ KeysOf(rows) \subseteq KeysOf(buffer) /\ KeysOf(rest) \subseteq KeysOf(buffer)
        /\ \A k \in KeysOf(rest) : k[1] # t
    BY <2>2 DEF KeysOf, RowKey
  <2>5. \A c \in LastRows(rows) : c[1] = t
    <3>1. rows \in Seq(Rows)
      BY <2>2, RelationalRowsAreRows
    <3>2. \A c \in LastRows(rows) : \E r \in Elements(rows) : c = Content(r)
      BY <3>1, LastRowsOf
    <3>3. \A r \in Elements(rows) : Content(r)[1] = t
      BY <2>2 DEF Content
    <3> QED
      BY <3>2, <3>3
  <2>6. rows # <<>>
    BY <1>3, <2>2, ElementsNone
  <2>7. /\ h \in StoreType /\ Untouched(e, h) /\ h.pending = e.pending /\ h.raised = e.raised
        /\ h.stored = e.stored /\ h.lost = e.lost /\ h.buffer = rest
    BY <2>2 DEF StoreType, Untouched
  <2> HIDE DEF h, rows, rest
  <2>8. f \in StoreType /\ Saves(h, f, rows)
    BY <2>1, <2>2, <2>6, <2>7, UpsertKeeps
  <2> HIDE DEF f
  <2>9. Untouched(e, f) /\ f.pending = e.pending /\ f.buffer = rest
    BY <2>7, <2>8 DEF Saves, Untouched
  <2>10. ASSUME NEW c \in e.handed
         PROVE  \/ c \in f.stored /\ <<c[1], c[2]>> \notin KeysOf(rest)
                \/ c \in LastRows(rest) \/ c \in f.lost
    <3>1. \/ c \in e.stored /\ <<c[1], c[2]>> \notin KeysOf(buffer)
          \/ c \in LastRows(buffer) \/ c \in e.lost
      BY RowsKeptWhen
    <3>2. CASE c \in e.stored /\ <<c[1], c[2]>> \notin KeysOf(buffer)
      BY <2>4, <2>7, <2>8, <3>2 DEF Saves
    <3>3. CASE c \in LastRows(rows)
      BY <2>4, <2>5, <2>8, <3>3 DEF Saves
    <3> QED
      BY <2>3, <2>7, <2>8, <3>1, <3>2, <3>3 DEF Saves
  <2>11. RowsKept(f)
    BY <2>8, <2>9, <2>10, RowsKeptWhen DEF Untouched
  <2> QED
    BY <2>2, <2>8, <2>9, <2>11 DEF f
<1> QED
  BY <1>2, <1>3

LEMMA UpsertedKeeps ==
  ASSUME NEW e \in StoreType, ~ e.raised, RowsKept(e)
  PROVE  LET f == Upserted(e)
         IN  /\ f \in StoreType /\ RowsKept(f) /\ Untouched(e, f) /\ f.pending = e.pending
             /\ ~ f.raised => f.buffer = <<>>
<1> DEFINE n == Len(TABLE_ORDER)
           Holds(i, f) ==
             /\ f \in StoreType /\ RowsKept(f) /\ Untouched(e, f) /\ f.pending = e.pending
             /\ ~ f.raised => \A r \in Elements(f.buffer), j \in 1..i : r.table # TABLE_ORDER[j]
<1>1. PICK g : UpsertedPass(g, e)
  BY UpsertedPassExists
<1>2. /\ Upserted(e) = g[n] /\ g[0] = e
      /\ \A i \in 1..n : g[i] = FlushTable(g[i - 1], TABLE_ORDER[i])
  BY <1>1 DEF UpsertedPass
<1>3. /\ n \in Nat /\ \A i \in 1..n : TABLE_ORDER[i] \in DOMAIN References
      /\ \A t \in DOMAIN References : \E i \in 1..n : TABLE_ORDER[i] = t
  BY Positions, Ordered, OnlyOrdered
<1> DEFINE T == {i \in 0..n : Holds(i, g[i])}
<1> HIDE DEF n
<1>4. 0 \in T
  BY <1>2, <1>3 DEF Untouched
<1>5. ASSUME NEW i \in 1..n, i - 1 \in T PROVE i \in T
  <2> DEFINE f == g[i - 1]
             h == g[i]
             t == TABLE_ORDER[i]
  <2>1. Holds(i - 1, f) /\ h = FlushTable(f, t) /\ t \in DOMAIN References
    BY <1>2, <1>3, <1>5
  <2> HIDE DEF f, h
  <2>2. CASE f.raised
    <3>1. h = f
      BY <2>1, <2>2 DEF FlushTable
    <3>2. Holds(i, h)
      BY <2>1, <2>2, <3>1
    <3> QED
      BY <3>2 DEF h
  <2>3. CASE ~ f.raised
    <3>1. /\ h \in StoreType /\ RowsKept(h) /\ Untouched(f, h) /\ h.pending = f.pending
          /\ Elements(h.buffer) = {r \in Elements(f.buffer) : r.table # t}
      BY <2>1, <2>3, FlushTableKeeps
    <3>2. Untouched(e, h)
      BY <2>1, <3>1 DEF Untouched
    <3>3. \A j \in 1..i : j = i \/ j \in 1..i - 1
      BY <1>3
    <3>4. Holds(i, h)
      BY <2>1, <2>3, <3>1, <3>2, <3>3
    <3> QED
      BY <3>4 DEF h
  <2> QED
    BY <2>2, <2>3
<1> HIDE DEF T
<1>6. 0..n \subseteq T
  BY <1>3, <1>4, <1>5, Along
<1> DEFINE f == g[n]
<1>7. Holds(n, f)
  BY <1>3, <1>6 DEF T
<1> HIDE DEF f
<1>8. ASSUME ~ f.raised PROVE f.buffer = <<>>
  <2>1. f.buffer \in Seq(RelationalRows)
    BY <1>7 DEF StoreType
  <2>2. \A r \in Elements(f.buffer) : r.table \in DOMAIN References
    BY <2>1, ElementsType, KindsOfRows
  <2>3. Elements(f.buffer) = {}
    BY <1>3, <1>7, <1>8, <2>2
  <2> QED
    BY <2>1, <2>3, ElementsEmpty
<1> QED
  BY <1>2, <1>7, <1>8 DEF f

LEMMA CommitKeeps ==
  ASSUME NEW e \in StoreType, RowsKept(e)
  PROVE  LET f == Commit(e)
         IN  /\ f \in StoreType /\ RowsKept(f) /\ Untouched(e, f) /\ f.buffer = e.buffer
             /\ f.raised = e.raised /\ f.committed = f.stored
<1> DEFINE f == Commit(e)
<1>1. /\ f \in StoreType /\ Untouched(e, f) /\ f.buffer = e.buffer
      /\ f.raised = e.raised /\ f.committed = f.stored
      /\ e.lost \subseteq f.lost /\ e.stored \subseteq f.stored \cup f.lost
  <2>1. CASE e.broken
    BY <2>1, DisconnectKeeps DEF Commit
  <2>2. CASE ~ e.broken
    BY <2>2 DEF Commit, StoreType, Untouched
  <2> QED
    BY <2>1, <2>2
<1> HIDE DEF f
<1>2. RowsKept(f)
  BY <1>1, RowsKeptWhen DEF Untouched
<1> QED
  BY <1>1, <1>2 DEF f

LEMMA FlushRelationalKeeps ==
  ASSUME NEW e \in StoreType, ~ e.raised, RowsKept(e)
  PROVE  LET f == FlushRelational(e)
         IN  /\ f \in StoreType /\ RowsKept(f) /\ Untouched(e, f)
             /\ ~ f.raised => f.buffer = <<>>
<1> DEFINE h == Upserted(e)
           b == Commit(h)
           f == [b EXCEPT !.pending = 0]
<1>1. CASE e.buffer = <<>>
  BY <1>1 DEF FlushRelational, Untouched
<1>2. CASE e.buffer # <<>>
  <2>1. FlushRelational(e) = IF h.raised THEN h ELSE f
    BY <1>2 DEF FlushRelational, Upserted
  <2>2. /\ h \in StoreType /\ RowsKept(h) /\ Untouched(e, h)
        /\ ~ h.raised => h.buffer = <<>>
    BY UpsertedKeeps
  <2> HIDE DEF h
  <2>3. CASE h.raised
    BY <2>1, <2>2, <2>3
  <2>4. CASE ~ h.raised
    <3>1. /\ b \in StoreType /\ RowsKept(b) /\ Untouched(h, b) /\ b.buffer = h.buffer
          /\ b.raised = h.raised
      BY <2>2, CommitKeeps
    <3> HIDE DEF b
    <3>2. /\ f \in StoreType /\ Untouched(b, f) /\ f.buffer = b.buffer /\ f.raised = b.raised
          /\ f.stored = b.stored /\ f.lost = b.lost /\ f.handed = b.handed
      BY <3>1 DEF StoreType, Untouched
    <3>3. RowsKept(f) /\ Untouched(e, f)
      BY <2>2, <3>1, <3>2 DEF RowsKept, Untouched
    <3> QED
      BY <2>1, <2>2, <2>4, <3>1, <3>2, <3>3
  <2> QED
    BY <2>3, <2>4
<1> QED
  BY <1>1, <1>2

-----------------------------------------------------------------------------
\* The whole of the stores: no row that was handed over is forgotten.

FileTables == EVAL_TABLES \cup {TELEMETRY_TABLE}

\* The rows of a table that wait in the facade for its file.
Waiting(e, t) ==
  IF t = TELEMETRY_TABLE THEN RowsOf(e.telemetry, t) ELSE RowsOf(e.evaluation, t)

\* Every row of a file is in it or on its way there, in order.
FileKept(e, t) == Passed(e, t) \o Waiting(e, t) = RowsOf(e.appended, t)

Kept(e) == e \in StoreType /\ RowsKept(e) /\ \A t \in FileTables : FileKept(e, t)

\* Picking out the rows of tables that do not occur.
LEMMA RowsInNoneOf ==
  ASSUME NEW R, NEW s \in Seq(R), NEW W, \A r \in R : r.table \notin W
  PROVE  RowsIn(s, W) = <<>>
<1> DEFINE T == {q \in Seq(R) : RowsIn(q, W) = <<>>}
<1>1. <<>> \in T
  BY RowsInNone
<1>2. ASSUME NEW q \in Seq(R), NEW x \in R, q \in T PROVE Append(q, x) \in T
  <2>1. Append(q, x) \in Seq(R) /\ x.table \notin W /\ RowsIn(q, W) = <<>>
    BY <1>2
  <2> QED
    BY <2>1, RowsInAppend
<1> HIDE DEF T
<1>3. s \in T
  BY <1>1, <1>2, ByPrefixes
<1> QED
  BY <1>3 DEF T

\* The rows of one table in two sequences in turn, and in one of another store.
LEMMA RowsOfConcat ==
  \A x \in Seq(AppendedRows), y \in Seq(AppendedRows) : \A t :
     RowsOf(x \o y, t) = RowsOf(x, t) \o RowsOf(y, t)
BY RowsInConcat DEF RowsOf

LEMMA SamplesApart ==
  /\ \A s \in Seq(Samples), t \in EVAL_TABLES : RowsOf(s, t) = <<>>
  /\ \A s \in Seq(LabelRows) : RowsOf(s, TELEMETRY_TABLE) = <<>>
<1>1. ASSUME NEW s \in Seq(Samples), NEW t \in EVAL_TABLES PROVE RowsOf(s, t) = <<>>
  <2>1. \A r \in Samples : r.table \notin {t}
    BY Apart DEF Samples
  <2> QED
    BY <2>1, RowsInNoneOf DEF RowsOf
<1>2. ASSUME NEW s \in Seq(LabelRows) PROVE RowsOf(s, TELEMETRY_TABLE) = <<>>
  <2>1. \A r \in LabelRows : r.table \notin {TELEMETRY_TABLE}
    BY Apart DEF LabelRows
  <2> QED
    BY <2>1, RowsInNoneOf DEF RowsOf
<1> QED
  BY <1>1, <1>2

\* The rows of the appended stores, by table.
LEMMA FileTypes ==
  ASSUME NEW e \in StoreType, NEW t
  PROVE  /\ Passed(e, t) \in Seq(AppendedRows) /\ Waiting(e, t) \in Seq(AppendedRows)
         /\ RowsOf(e.appended, t) \in Seq(AppendedRows)
<1>1. /\ e.file \o e.chunks \in Seq(AppendedRows) /\ e.appended \in Seq(AppendedRows)
      /\ e.telemetry \in Seq(AppendedRows) /\ e.evaluation \in Seq(AppendedRows)
  BY KindsOfRows DEF StoreType
<1>2. \A s \in Seq(AppendedRows) : RowsOf(s, t) \in Seq(AppendedRows)
  BY RowsInType DEF RowsOf
<1> QED
  BY <1>1, <1>2 DEF Passed, Waiting

\* A call hands rows over, or what waited leaves.
LEMMA FileHanded ==
  ASSUME NEW e \in StoreType, NEW f, NEW t, NEW rows \in Seq(AppendedRows),
         FileKept(e, t), Passed(f, t) = Passed(e, t), f.appended = e.appended \o rows,
         Waiting(f, t) = Waiting(e, t) \o RowsOf(rows, t)
  PROVE  FileKept(f, t)
<1> DEFINE a == Passed(e, t)
           b == Waiting(e, t)
           c == RowsOf(rows, t)
           q == e.appended
<1>1. /\ a \in Seq(AppendedRows) /\ b \in Seq(AppendedRows) /\ q \in Seq(AppendedRows)
  BY FileTypes DEF StoreType
<1>2. c \in Seq(AppendedRows)
  BY RowsInType DEF RowsOf
<1>3. RowsOf(q \o rows, t) = RowsOf(q, t) \o c
  <2> HIDE DEF q
  <2> QED
    BY <1>1, RowsOfConcat
<1>4. a \o b = RowsOf(q, t)
  BY DEF FileKept
<1> HIDE DEF a, b, c, q
<1>5. (a \o b) \o c = a \o (b \o c)
  BY <1>1, <1>2, ConcatAssociative
<1> QED
  BY <1>3, <1>4, <1>5 DEF FileKept, a, b, c, q

\* What is in the file and what waits for it, when the facade hands rows over.
LEMMA FilePassed ==
  ASSUME NEW e \in StoreType, NEW f, NEW t, FileKept(e, t),
         Passed(f, t) = Passed(e, t) \o Waiting(e, t), f.appended = e.appended,
         Waiting(f, t) = <<>>
  PROVE  FileKept(f, t)
<1>1. RowsOf(e.appended, t) \in Seq(AppendedRows)
  BY FileTypes
<1>2. RowsOf(e.appended, t) \o <<>> = RowsOf(e.appended, t)
  BY <1>1, ConcatEmptySeq
<1> QED
  BY <1>2 DEF FileKept

\* What the relational side of the stores and its promises rest on.
Aside(e, f) ==
  /\ f.buffer = e.buffer /\ f.stored = e.stored /\ f.backend = e.backend
  /\ f.broken = e.broken /\ f.raised = e.raised /\ f.fuse = e.fuse /\ f.cut = e.cut
  /\ f.lost = e.lost /\ f.failed = e.failed /\ f.handed = e.handed

\* The flushes of the appended stores forget no row, and leave the relational store alone.
LEMMA FlushTelemetryKeeps ==
  ASSUME NEW e, Kept(e)
  PROVE  LET f == FlushTelemetry(e)
         IN  Kept(f) /\ Aside(e, f) /\ f.telemetry = <<>> /\ f.evaluation = e.evaluation
<1> DEFINE f == FlushTelemetry(e)
<1>1. e \in StoreType /\ RowsKept(e) /\ \A t \in FileTables : FileKept(e, t)
  BY DEF Kept
<1>2. /\ f \in StoreType /\ Beside(e, f)
      /\ f.telemetry = <<>> /\ f.evaluation = e.evaluation
      /\ \A u \in Tables : Passed(f, u) = Passed(e, u) \o RowsOf(e.telemetry, u)
  BY <1>1, FlushTelemetryType
<1> HIDE DEF f
<1>3. Aside(e, f) /\ f.appended = e.appended
  BY <1>2 DEF Beside, Aside
<1>4. RowsKept(f)
  BY <1>1, <1>3 DEF RowsKept, Aside
<1>5. ASSUME NEW t \in FileTables PROVE FileKept(f, t)
  <2>1. t \in Tables /\ FileKept(e, t)
    BY <1>1 DEF Tables, FileTables
  <2>2. CASE t = TELEMETRY_TABLE
    <3>1. Waiting(f, t) = <<>>
      BY <1>2, <2>2, RowsInNone DEF Waiting, RowsOf
    <3>2. Passed(f, t) = Passed(e, t) \o Waiting(e, t)
      BY <1>2, <2>1, <2>2 DEF Waiting
    <3> QED
      BY <1>1, <1>3, <2>1, <3>1, <3>2, FilePassed
  <2>3. CASE t # TELEMETRY_TABLE
    <3>1. t \in EVAL_TABLES /\ e.telemetry \in Seq(Samples)
      BY <1>1, <2>3 DEF FileTables, StoreType
    <3>2. RowsOf(e.telemetry, t) = <<>>
      BY <3>1, SamplesApart
    <3>3. Passed(e, t) \in Seq(AppendedRows)
      BY <1>1, FileTypes
    <3>4. Passed(f, t) = Passed(e, t)
      BY <1>2, <2>1, <3>2, <3>3, ConcatEmptySeq
    <3> QED
      BY <1>2, <1>3, <2>1, <2>3, <3>4 DEF FileKept, Waiting
  <2> QED
    BY <2>2, <2>3
<1> QED
  BY <1>2, <1>3, <1>4, <1>5 DEF Kept, f

LEMMA FlushEvaluationKeeps ==
  ASSUME NEW e, Kept(e)
  PROVE  LET f == FlushEvaluation(e)
         IN  Kept(f) /\ Aside(e, f) /\ f.telemetry = e.telemetry /\ f.evaluation = <<>>
<1> DEFINE f == FlushEvaluation(e)
<1>1. e \in StoreType /\ RowsKept(e) /\ \A t \in FileTables : FileKept(e, t)
  BY DEF Kept
<1>2. /\ f \in StoreType /\ Beside(e, f)
      /\ f.telemetry = e.telemetry /\ f.evaluation = <<>>
      /\ \A u \in Tables : Passed(f, u) = Passed(e, u) \o RowsOf(e.evaluation, u)
  BY <1>1, FlushEvaluationType
<1> HIDE DEF f
<1>3. Aside(e, f) /\ f.appended = e.appended
  BY <1>2 DEF Beside, Aside
<1>4. RowsKept(f)
  BY <1>1, <1>3 DEF RowsKept, Aside
<1>5. ASSUME NEW t \in FileTables PROVE FileKept(f, t)
  <2>1. t \in Tables /\ FileKept(e, t)
    BY <1>1 DEF Tables, FileTables
  <2>2. CASE t # TELEMETRY_TABLE
    <3>1. Waiting(f, t) = <<>>
      BY <1>2, <2>2, RowsInNone DEF Waiting, RowsOf
    <3>2. Passed(f, t) = Passed(e, t) \o Waiting(e, t)
      BY <1>2, <2>1, <2>2 DEF Waiting
    <3> QED
      BY <1>1, <1>3, <2>1, <3>1, <3>2, FilePassed
  <2>3. CASE t = TELEMETRY_TABLE
    <3>1. RowsOf(e.evaluation, t) = <<>>
      BY <1>1, <2>3, SamplesApart DEF StoreType
    <3>2. Passed(e, t) \in Seq(AppendedRows)
      BY <1>1, FileTypes
    <3>3. Passed(f, t) = Passed(e, t)
      BY <1>2, <2>1, <3>1, <3>2, ConcatEmptySeq
    <3> QED
      BY <1>2, <1>3, <2>1, <2>3, <3>3 DEF FileKept, Waiting
  <2> QED
    BY <2>2, <2>3
<1> QED
  BY <1>2, <1>3, <1>4, <1>5 DEF Kept, f

LEMMA WriteChunksKeeps ==
  ASSUME NEW e, Kept(e)
  PROVE  LET f == WriteChunks(e)
         IN  /\ Kept(f) /\ Aside(e, f) /\ f.telemetry = e.telemetry /\ f.evaluation = e.evaluation
             /\ \A t \in FileTables : RowsOf(f.file, t) = Passed(f, t)
<1> DEFINE f == WriteChunks(e)
<1>1. e \in StoreType /\ RowsKept(e) /\ \A t \in FileTables : FileKept(e, t)
  BY DEF Kept
<1>2. /\ f \in StoreType /\ Beside(e, f)
      /\ f.telemetry = e.telemetry /\ f.evaluation = e.evaluation
      /\ \A u \in Tables : Passed(f, u) = Passed(e, u)
      /\ \A t \in FileTables : RowsOf(f.file, t) = Passed(f, t)
  BY <1>1, WriteChunksType DEF FileTables
<1> HIDE DEF f
<1>3. Aside(e, f) /\ f.appended = e.appended
  BY <1>2 DEF Beside, Aside
<1>4. RowsKept(f)
  BY <1>1, <1>3 DEF RowsKept, Aside
<1>5. \A t \in FileTables : FileKept(f, t)
  BY <1>1, <1>2, <1>3 DEF FileKept, Waiting, FileTables, Tables
<1> QED
  BY <1>2, <1>3, <1>4, <1>5 DEF Kept, f

\* The facade flushed: nothing waits in it any more.
Flushed(f) ==
  /\ f.buffer = <<>> /\ f.telemetry = <<>> /\ f.evaluation = <<>>
  /\ \A t \in FileTables : RowsOf(f.file, t) = Passed(f, t)

\* Nor do steps of the relational store touch the files.
LEMMA KeptUntouched ==
  ASSUME NEW e, Kept(e), NEW f \in StoreType, Untouched(e, f), RowsKept(f)
  PROVE  Kept(f)
BY DEF Kept, Untouched, FileKept, Passed, Waiting

\* A whole flush forgets nothing, and leaves nothing behind unless it raises.
LEMMA FlushKeeps ==
  ASSUME NEW e, Kept(e), ~ e.raised
  PROVE  LET f == Flush(e)
         IN  Kept(f) /\ f.backend = e.backend /\ (~ f.raised => Flushed(f))
<1> DEFINE h == FlushRelational(e)
           a == FlushTelemetry(h)
           b == FlushEvaluation(a)
           c == WriteChunks(b)
<1>1. Flush(e) = IF h.raised THEN h ELSE c
  BY DEF Flush
<1>2. /\ h \in StoreType /\ RowsKept(h) /\ Untouched(e, h)
      /\ ~ h.raised => h.buffer = <<>>
  BY FlushRelationalKeeps DEF Kept
<1> HIDE DEF h
<1>3. Kept(h) /\ h.backend = e.backend
  BY <1>2, KeptUntouched DEF Untouched
<1>4. Kept(a) /\ Aside(h, a) /\ a.telemetry = <<>> /\ a.evaluation = h.evaluation
  BY <1>3, FlushTelemetryKeeps
<1> HIDE DEF a
<1>5. Kept(b) /\ Aside(a, b) /\ b.telemetry = a.telemetry /\ b.evaluation = <<>>
  BY <1>4, FlushEvaluationKeeps
<1> HIDE DEF b
<1>6. /\ Kept(c) /\ Aside(b, c) /\ c.telemetry = b.telemetry /\ c.evaluation = b.evaluation
      /\ \A t \in FileTables : RowsOf(c.file, t) = Passed(c, t)
  BY <1>5, WriteChunksKeeps
<1> HIDE DEF c
<1> QED
  BY <1>1, <1>2, <1>3, <1>4, <1>5, <1>6 DEF Aside, Flushed

-----------------------------------------------------------------------------
\* The writes of a handler keep every row.

\* The rows of one write_many, and one write.
Calls  == Seq(RelationalRows) \cup Seq(Samples) \cup Seq(LabelRows)
Writes == [tap : BOOLEAN, calls : Seq(Calls), flush : BOOLEAN]

\* One call of the facade forgets nothing, whatever it writes.
LEMMA WriteTelemetryKeeps ==
  ASSUME NEW e, Kept(e), NEW rows \in Seq(Samples)
  PROVE  LET f == WriteTelemetry(e, rows) IN Kept(f) /\ Aside(e, f)
<1> DEFINE tel == e.telemetry \o rows
           app == e.appended \o rows
           h == [e EXCEPT !.telemetry = tel, !.appended = app]
<1>1. WriteTelemetry(e, rows) = h \/ WriteTelemetry(e, rows) = FlushTelemetry(h)
  BY DEF WriteTelemetry
<1>2. e \in StoreType /\ RowsKept(e) /\ \A t \in FileTables : FileKept(e, t)
  BY DEF Kept
<1>3. /\ rows \in Seq(AppendedRows) /\ e.telemetry \in Seq(Samples)
      /\ e.appended \in Seq(AppendedRows) /\ e.telemetry \in Seq(AppendedRows)
  BY <1>2, KindsOfRows DEF StoreType
<1>4. tel \in Seq(Samples) /\ app \in Seq(AppendedRows)
  BY <1>3
<1>5. \A t : RowsOf(tel, t) = RowsOf(e.telemetry, t) \o RowsOf(rows, t)
  BY <1>3, RowsOfConcat
<1>6. app = e.appended \o rows
  OBVIOUS
<1> HIDE DEF tel, app
<1>7. /\ h \in StoreType /\ Aside(e, h) /\ h.telemetry = tel /\ h.appended = app
      /\ h.evaluation = e.evaluation /\ h.file = e.file /\ h.chunks = e.chunks
  BY <1>2, <1>4 DEF StoreType, Aside
<1> HIDE DEF h
<1>8. ASSUME NEW t \in FileTables PROVE FileKept(h, t)
  <2>1. Passed(h, t) = Passed(e, t) /\ FileKept(e, t)
    BY <1>2, <1>7 DEF Passed
  <2>2. Waiting(h, t) = Waiting(e, t) \o RowsOf(rows, t)
    <3>1. CASE t = TELEMETRY_TABLE
      BY <1>5, <1>7, <3>1 DEF Waiting
    <3>2. CASE t # TELEMETRY_TABLE
      <4>1. RowsOf(rows, t) = <<>>
        BY <3>2, SamplesApart DEF FileTables
      <4>2. Waiting(h, t) = Waiting(e, t) /\ Waiting(e, t) \in Seq(AppendedRows)
        BY <1>2, <1>7, <3>2, FileTypes DEF Waiting
      <4> QED
        BY <4>1, <4>2, ConcatEmptySeq
    <3> QED
      BY <3>1, <3>2
  <2>3. h.appended = e.appended \o rows
    BY <1>6, <1>7
  <2> QED
    BY <1>2, <1>3, <2>1, <2>2, <2>3, FileHanded
<1>9. Kept(h)
  BY <1>2, <1>7, <1>8 DEF Kept, RowsKept, Aside
<1>10. Kept(FlushTelemetry(h)) /\ Aside(h, FlushTelemetry(h))
  BY <1>9, FlushTelemetryKeeps
<1> QED
  BY <1>1, <1>7, <1>9, <1>10 DEF Aside

LEMMA WriteEvaluationKeeps ==
  ASSUME NEW e, Kept(e), NEW rows \in Seq(LabelRows)
  PROVE  LET f == WriteEvaluation(e, rows) IN Kept(f) /\ Aside(e, f)
<1> DEFINE eval == e.evaluation \o rows
           app == e.appended \o rows
           h == [e EXCEPT !.evaluation = eval, !.appended = app]
<1>1. WriteEvaluation(e, rows) = h \/ WriteEvaluation(e, rows) = FlushEvaluation(h)
  BY DEF WriteEvaluation
<1>2. e \in StoreType /\ RowsKept(e) /\ \A t \in FileTables : FileKept(e, t)
  BY DEF Kept
<1>3. /\ rows \in Seq(AppendedRows) /\ e.evaluation \in Seq(LabelRows)
      /\ e.appended \in Seq(AppendedRows) /\ e.evaluation \in Seq(AppendedRows)
  BY <1>2, KindsOfRows DEF StoreType
<1>4. eval \in Seq(LabelRows) /\ app \in Seq(AppendedRows)
  BY <1>3
<1>5. \A t : RowsOf(eval, t) = RowsOf(e.evaluation, t) \o RowsOf(rows, t)
  BY <1>3, RowsOfConcat
<1>6. app = e.appended \o rows
  OBVIOUS
<1> HIDE DEF eval, app
<1>7. /\ h \in StoreType /\ Aside(e, h) /\ h.evaluation = eval /\ h.appended = app
      /\ h.telemetry = e.telemetry /\ h.file = e.file /\ h.chunks = e.chunks
  BY <1>2, <1>4 DEF StoreType, Aside
<1> HIDE DEF h
<1>8. ASSUME NEW t \in FileTables PROVE FileKept(h, t)
  <2>1. Passed(h, t) = Passed(e, t) /\ FileKept(e, t)
    BY <1>2, <1>7 DEF Passed
  <2>2. Waiting(h, t) = Waiting(e, t) \o RowsOf(rows, t)
    <3>1. CASE t # TELEMETRY_TABLE
      BY <1>5, <1>7, <3>1 DEF Waiting
    <3>2. CASE t = TELEMETRY_TABLE
      <4>1. RowsOf(rows, t) = <<>>
        BY <3>2, SamplesApart
      <4>2. Waiting(h, t) = Waiting(e, t) /\ Waiting(e, t) \in Seq(AppendedRows)
        BY <1>2, <1>7, <3>2, FileTypes DEF Waiting
      <4> QED
        BY <4>1, <4>2, ConcatEmptySeq
    <3> QED
      BY <3>1, <3>2
  <2>3. h.appended = e.appended \o rows
    BY <1>6, <1>7
  <2> QED
    BY <1>2, <1>3, <2>1, <2>2, <2>3, FileHanded
<1>9. Kept(h)
  BY <1>2, <1>7, <1>8 DEF Kept, RowsKept, Aside
<1>10. Kept(FlushEvaluation(h)) /\ Aside(h, FlushEvaluation(h))
  BY <1>9, FlushEvaluationKeeps
<1> QED
  BY <1>1, <1>7, <1>9, <1>10 DEF Aside

\* More rows in the buffer, before it is flushed.
Buffered(e, rows) ==
  [e EXCEPT !.buffer = @ \o rows, !.pending = @ + Len(rows),
            !.handed = Through(Replace, @, rows)]

\* Rows on their way into the buffer.
LEMMA BufferedIs ==
  ASSUME NEW e \in StoreType, NEW rows \in Seq(RelationalRows)
  PROVE  LET h == Buffered(e, rows)
         IN  /\ h \in StoreType
             /\ h.buffer = e.buffer \o rows /\ h.handed = Newest(e.handed, rows)
             /\ h.telemetry = e.telemetry /\ h.evaluation = e.evaluation
             /\ h.chunks = e.chunks /\ h.file = e.file /\ h.appended = e.appended
             /\ h.stored = e.stored /\ h.backend = e.backend /\ h.broken = e.broken
             /\ h.raised = e.raised /\ h.fuse = e.fuse /\ h.cut = e.cut
             /\ h.lost = e.lost /\ h.failed = e.failed
<1> DEFINE q == e.buffer \o rows
           n == e.pending + Len(rows)
           S == Through(Replace, e.handed, rows)
           h == [e EXCEPT !.buffer = q, !.pending = n, !.handed = S]
<1>1. Buffered(e, rows) = h
  BY DEF Buffered
<1>2. q \in Seq(RelationalRows) /\ n \in Nat
  BY DEF StoreType
<1>3. S = Newest(e.handed, rows)
  BY DEF Newest
<1>4. S \in SUBSET Contents
  <2>1. e.handed \in SUBSET Contents /\ rows \in Seq(Rows)
    BY RelationalRowsAreRows DEF StoreType
  <2>2. Newest(e.handed, rows) \in SUBSET Contents
    BY <2>1, NewestOf
  <2> QED
    BY <1>3, <2>2
<1> HIDE DEF q, n, S
<1>5. /\ h \in StoreType
      /\ h.buffer = q /\ h.handed = S
      /\ h.telemetry = e.telemetry /\ h.evaluation = e.evaluation
      /\ h.chunks = e.chunks /\ h.file = e.file /\ h.appended = e.appended
      /\ h.stored = e.stored /\ h.backend = e.backend /\ h.broken = e.broken
      /\ h.raised = e.raised /\ h.fuse = e.fuse /\ h.cut = e.cut
      /\ h.lost = e.lost /\ h.failed = e.failed
  BY <1>2, <1>4 DEF StoreType
<1>6. q = e.buffer \o rows
  BY DEF q
<1> HIDE DEF h
<1> QED
  BY <1>1, <1>3, <1>5, <1>6

\* Newest of two sequences in turn.
LEMMA NewestConcat ==
  ASSUME NEW R, NEW a \in Seq(R), NEW b \in Seq(R), NEW S
  PROVE  Newest(S, a \o b) = Newest(Newest(S, a), b)
<1> DEFINE T == {q \in Seq(R) : Newest(S, a \o q) = Newest(Newest(S, a), q)}
<1>1. <<>> \in T
  <2>1. a \o <<>> = a /\ <<>> \in Seq(R)
    OBVIOUS
  <2> QED
    BY <2>1, NewestNone
<1>2. ASSUME NEW q \in Seq(R), NEW x \in R, q \in T PROVE Append(q, x) \in T
  <2> DEFINE p == a \o q
             B == Newest(S, a)
  <2>1. p \in Seq(R) /\ a \o Append(q, x) = Append(p, x) /\ Append(q, x) \in Seq(R)
    OBVIOUS
  <2>2. Newest(S, p) = Newest(B, q)
    BY <1>2
  <2>3. Newest(B, Append(q, x)) = Replace(Newest(B, q), x)
    <3> HIDE DEF B
    <3> QED
      BY NewestAppend
  <2> HIDE DEF p
  <2>4. Newest(S, Append(p, x)) = Replace(Newest(S, p), x)
    BY <2>1, NewestAppend
  <2> QED
    BY <2>1, <2>2, <2>3, <2>4
<1> HIDE DEF T
<1>3. b \in T
  BY <1>1, <1>2, ByPrefixes
<1> QED
  BY <1>3 DEF T

LEMMA BufferedKept ==
  ASSUME NEW e, Kept(e), NEW rows \in Seq(RelationalRows)
  PROVE  Kept(Buffered(e, rows))
<1> DEFINE h == Buffered(e, rows)
           A == Newest(e.stored, e.buffer)
           q == e.buffer
<1>1. e \in StoreType /\ RowsKept(e) /\ \A t \in FileTables : FileKept(e, t)
  BY DEF Kept
<1>2. /\ h \in StoreType
      /\ h.buffer = q \o rows /\ h.handed = Newest(e.handed, rows)
      /\ h.telemetry = e.telemetry /\ h.evaluation = e.evaluation
      /\ h.chunks = e.chunks /\ h.file = e.file /\ h.appended = e.appended
      /\ h.stored = e.stored /\ h.lost = e.lost
  BY <1>1, BufferedIs
<1> HIDE DEF h
<1>3. /\ q \in Seq(RelationalRows) /\ q \in Seq(Rows) /\ rows \in Seq(Rows)
      /\ e.stored \in SUBSET Contents /\ e.handed \in SUBSET Contents
  BY <1>1, RelationalRowsAreRows DEF StoreType
<1>4. Newest(e.stored, q \o rows) = Newest(A, rows)
  <2> HIDE DEF q
  <2>1. Newest(e.stored, q \o rows) = Newest(Newest(e.stored, q), rows)
    BY <1>3, NewestConcat
  <2> QED
    BY <2>1 DEF q
<1>5. A \in SUBSET Contents /\ e.handed \subseteq A \cup e.lost
  BY <1>1, <1>3, NewestOf DEF RowsKept
<1> HIDE DEF A
<1>6. Newest(e.handed, rows) \subseteq Newest(A, rows) \cup e.lost
  BY <1>3, <1>5, NewestOf
<1>7. RowsKept(h)
  BY <1>2, <1>4, <1>6 DEF RowsKept
<1>8. \A t \in FileTables : FileKept(h, t)
  BY <1>1, <1>2 DEF FileKept, Passed, Waiting
<1> QED
  BY <1>2, <1>7, <1>8 DEF Kept, h

LEMMA WriteManyKeeps ==
  ASSUME NEW e, Kept(e), NEW rows \in Calls
  PROVE  LET f == WriteMany(e, rows) IN Kept(f) /\ f.backend = e.backend
<1>1. CASE rows = <<>> \/ e.raised
  BY <1>1 DEF WriteMany
<1>2. CASE rows # <<>> /\ ~ e.raised
  <2>1. CASE rows \in Seq(Samples)
    <3>1. rows[1].table = TELEMETRY_TABLE
      BY <1>2, <2>1 DEF Samples
    <3>2. WriteMany(e, rows) = WriteTelemetry(e, rows)
      BY <1>2, <3>1 DEF WriteMany
    <3> QED
      BY <2>1, <3>2, WriteTelemetryKeeps DEF Aside
  <2>2. CASE rows \in Seq(LabelRows)
    <3>1. rows[1].table \in EVAL_TABLES
      BY <1>2, <2>2 DEF LabelRows
    <3>2. WriteMany(e, rows) = WriteEvaluation(e, rows)
      BY <1>2, <3>1, Apart DEF WriteMany
    <3> QED
      BY <2>2, <3>2, WriteEvaluationKeeps DEF Aside
  <2>3. CASE rows \in Seq(RelationalRows)
    <3> DEFINE h == Buffered(e, rows)
               f == FlushRelational(h)
    <3>1. rows[1].table \in DOMAIN References
      BY <1>2, <2>3 DEF RelationalRows
    <3>2. WriteMany(e, rows) = h \/ WriteMany(e, rows) = f
      BY <1>2, <3>1, Apart DEF WriteMany, WriteRelational, Buffered
    <3>3. Kept(h) /\ h.backend = e.backend /\ ~ h.raised
      BY <1>2, <2>3, BufferedKept, BufferedIs DEF Kept
    <3> HIDE DEF h
    <3>4. f \in StoreType /\ RowsKept(f) /\ Untouched(h, f)
      BY <3>3, FlushRelationalKeeps DEF Kept
    <3> HIDE DEF f
    <3>5. Kept(f) /\ f.backend = h.backend
      BY <3>3, <3>4, KeptUntouched DEF Untouched
    <3> QED
      BY <3>2, <3>3, <3>5
  <2> QED
    BY <2>1, <2>2, <2>3 DEF Calls
<1> QED
  BY <1>1, <1>2

\* The calls of a write, a write, and a handler: none forgets a row.
LEMMA CalledKeeps ==
  ASSUME NEW e, Kept(e), NEW calls \in Seq(Calls)
  PROVE  LET f == Called(e, calls) IN Kept(f) /\ f.backend = e.backend
<1> DEFINE n == Len(calls)
<1>1. PICK g : CalledPass(g, e, calls)
  BY CalledPassExists
<1>2. /\ Called(e, calls) = g[n] /\ g[0] = e /\ n \in Nat
      /\ \A i \in 1..n : g[i] = WriteMany(g[i - 1], calls[i]) /\ calls[i] \in Calls
  BY <1>1 DEF CalledPass
<1> DEFINE T == {i \in 0..n : Kept(g[i]) /\ g[i].backend = e.backend}
<1> HIDE DEF n
<1>3. 0 \in T
  BY <1>2
<1>4. ASSUME NEW i \in 1..n, i - 1 \in T PROVE i \in T
  <2> DEFINE f == g[i - 1]
             rows == calls[i]
             h == WriteMany(f, rows)
  <2>1. Kept(f) /\ f.backend = e.backend /\ g[i] = h /\ rows \in Calls
    BY <1>2, <1>4
  <2> HIDE DEF f, rows
  <2>2. Kept(h) /\ h.backend = f.backend
    BY <2>1, WriteManyKeeps
  <2> HIDE DEF h
  <2> QED
    BY <2>1, <2>2
<1> HIDE DEF T
<1>5. 0..n \subseteq T
  BY <1>2, <1>3, <1>4, Along
<1> QED
  BY <1>2, <1>5 DEF T

\* The tables the subscribers of a tap hand over first.
FirstTable(w) == w.calls[1][1].table

LEMMA WriteKeeps ==
  ASSUME NEW e, Kept(e), NEW w \in Writes, w.tap => FirstTable(w) \in Tables
  PROVE  LET f == Write(e, w) IN Kept(f) /\ f.backend = e.backend
<1>1. CASE e.raised
  BY <1>1 DEF Write
<1>2. CASE ~ e.raised /\ w.flush
  BY <1>2, FlushKeeps DEF Write
<1>3. CASE ~ e.raised /\ ~ w.flush
  <2> DEFINE f == Called(e, w.calls)
             h == [f EXCEPT !.raised = FALSE, !.aborted = @ \cup {FirstTable(w)}]
  <2>1. Write(e, w) = IF w.tap /\ f.raised THEN h ELSE f
    BY <1>3 DEF Write, Called, FirstTable
  <2>2. Kept(f) /\ f.backend = e.backend
    BY CalledKeeps DEF Writes
  <2> HIDE DEF f
  <2>3. ASSUME w.tap PROVE Kept(h) /\ h.backend = f.backend
    <3>1. /\ h \in StoreType /\ h.backend = f.backend
          /\ h.handed = f.handed /\ h.stored = f.stored /\ h.buffer = f.buffer
          /\ h.lost = f.lost /\ h.file = f.file /\ h.chunks = f.chunks
          /\ h.telemetry = f.telemetry /\ h.evaluation = f.evaluation
          /\ h.appended = f.appended
      BY <2>2, <2>3 DEF Kept, StoreType
    <3> QED
      BY <2>2, <3>1 DEF Kept, RowsKept, FileKept, Passed, Waiting
  <2> QED
    BY <2>1, <2>2, <2>3
<1> QED
  BY <1>1, <1>2, <1>3

\* The writes of a handler.
Handlers == {ws \in Seq(Writes) : \A i \in 1..Len(ws) : ws[i].tap => FirstTable(ws[i]) \in Tables}

LEMMA PerformKeeps ==
  ASSUME NEW e, Kept(e), NEW ws \in Handlers
  PROVE  LET f == Perform(e, ws) IN Kept(f) /\ f.backend = e.backend
<1> DEFINE n == Len(ws)
<1>1. ws \in Seq(Writes) /\ \A i \in 1..n : ws[i].tap => FirstTable(ws[i]) \in Tables
  BY DEF Handlers
<1>2. PICK g : PerformPass(g, e, ws)
  BY <1>1, PerformPassExists
<1>3. /\ Perform(e, ws) = g[n] /\ g[0] = e /\ n \in Nat
      /\ \A i \in 1..n : g[i] = Write(g[i - 1], ws[i]) /\ ws[i] \in Writes
  BY <1>1, <1>2 DEF PerformPass
<1> DEFINE T == {i \in 0..n : Kept(g[i]) /\ g[i].backend = e.backend}
<1> HIDE DEF n
<1>4. 0 \in T
  BY <1>3
<1>5. ASSUME NEW i \in 1..n, i - 1 \in T PROVE i \in T
  <2> DEFINE f == g[i - 1]
             w == ws[i]
             h == Write(f, w)
  <2>1. /\ Kept(f) /\ f.backend = e.backend /\ g[i] = h
        /\ w \in Writes /\ (w.tap => FirstTable(w) \in Tables)
    BY <1>1, <1>3, <1>5 DEF n
  <2> HIDE DEF f, w
  <2>2. Kept(h) /\ h.backend = f.backend
    BY <2>1, WriteKeeps
  <2> HIDE DEF h
  <2> QED
    BY <2>1, <2>2
<1> HIDE DEF T
<1>6. 0..n \subseteq T
  BY <1>3, <1>4, <1>5, Along
<1> QED
  BY <1>3, <1>6 DEF T

\* Closing the stores leaves nothing behind unless it raises.
LEMMA CloseKeeps ==
  ASSUME NEW e, Kept(e), ~ e.raised
  PROVE  LET f == Close(e)
         IN  /\ Kept(f) /\ f.backend = e.backend
             /\ ~ f.raised => /\ f.handed \subseteq f.committed \cup f.lost
                              /\ \A t \in FileTables : RowsOf(f.file, t) = RowsOf(f.appended, t)
<1> DEFINE h == Flush(e)
           f == Commit(h)
<1>1. Close(e) = IF h.raised THEN h ELSE f
  BY DEF Close
<1>2. Kept(h) /\ h.backend = e.backend /\ (~ h.raised => Flushed(h))
  BY FlushKeeps
<1> HIDE DEF h
<1>3. CASE h.raised
  BY <1>1, <1>2, <1>3
<1>4. CASE ~ h.raised
  <2>1. /\ f \in StoreType /\ RowsKept(f) /\ Untouched(h, f) /\ f.buffer = h.buffer
        /\ f.raised = h.raised /\ f.committed = f.stored
    BY <1>2, CommitKeeps DEF Kept
  <2> HIDE DEF f
  <2>2. Kept(f) /\ f.backend = h.backend
    BY <1>2, <2>1, KeptUntouched DEF Untouched
  <2>3. f.handed \subseteq f.committed \cup f.lost
    <3>1. Newest(f.stored, f.buffer) = f.stored
      BY <1>2, <1>4, <2>1, NewestNone DEF Flushed
    <3> QED
      BY <2>1, <3>1 DEF RowsKept
  <2>4. ASSUME NEW t \in FileTables PROVE RowsOf(f.file, t) = RowsOf(f.appended, t)
    <3>1. RowsOf(h.file, t) = Passed(h, t) /\ Waiting(h, t) = <<>>
      BY <1>2, <1>4, RowsInNone DEF Flushed, Waiting, RowsOf
    <3>2. Passed(h, t) \o Waiting(h, t) = RowsOf(h.appended, t)
          /\ Passed(h, t) \in Seq(AppendedRows)
      BY <1>2, FileTypes DEF Kept, FileKept
    <3>3. Passed(h, t) = RowsOf(h.appended, t)
      BY <3>1, <3>2, ConcatEmptySeq
    <3> QED
      BY <2>1, <3>1, <3>3 DEF Untouched
  <2> QED
    BY <1>1, <1>2, <1>4, <2>2, <2>3, <2>4
<1> QED
  BY <1>3, <1>4
-----------------------------------------------------------------------------
\* The writes of a handler whose rows are founded refuse none.

\* The stores go on soundly.
Progress(e, f) ==
  Sound(f) /\ Steady(e, f) /\ Known(e) \subseteq Known(f) /\ f.backend = e.backend

\* Steps that refuse nothing, one after the other.
LEMMA ProgressOn ==
  ASSUME NEW e, NEW f, NEW h, Progress(e, f), Progress(f, h)
  PROVE  Progress(e, h)
BY DEF Progress, Steady

\* A step that leaves the relational store alone refuses nothing.
LEMMA AsideSound ==
  ASSUME NEW e, Sound(e), NEW f \in StoreType, Aside(e, f)
  PROVE  Progress(e, f)
<1>1. Known(f) = Known(e)
  BY DEF Aside, Known
<1> QED
  BY <1>1 DEF Sound, Aside, Progress, Steady, Reliable, LostDescend

\* Nor does a flush.
LEMMA FlushRelationalProgress ==
  ASSUME NEW e, Sound(e), ~ e.raised
  PROVE  Progress(e, FlushRelational(e))
BY FlushRelationalSound DEF Progress, Untouched

LEMMA FlushProgress ==
  ASSUME NEW e, Sound(e), Kept(e), ~ e.raised
  PROVE  Progress(e, Flush(e))
<1> DEFINE h == FlushRelational(e)
           a == FlushTelemetry(h)
           b == FlushEvaluation(a)
           c == WriteChunks(b)
<1>1. Flush(e) = IF h.raised THEN h ELSE c
  BY DEF Flush
<1>2. h \in StoreType /\ RowsKept(h) /\ Untouched(e, h) /\ Progress(e, h)
  BY FlushRelationalKeeps, FlushRelationalProgress DEF Kept
<1> HIDE DEF h
<1>3. Kept(h) /\ Sound(h)
  BY <1>2, KeptUntouched DEF Progress
<1>4. Kept(a) /\ Aside(h, a)
  BY <1>3, FlushTelemetryKeeps
<1> HIDE DEF a
<1>5. Kept(b) /\ Aside(a, b)
  BY <1>4, FlushEvaluationKeeps
<1> HIDE DEF b
<1>6. Kept(c) /\ Aside(b, c)
  BY <1>5, WriteChunksKeeps
<1> HIDE DEF c
<1>7. c \in StoreType /\ Aside(h, c)
  BY <1>4, <1>5, <1>6 DEF Aside, Kept
<1>8. Progress(e, c)
  BY <1>2, <1>3, <1>7, AsideSound, ProgressOn
<1> QED
  BY <1>1, <1>2, <1>8

\* What the rows of a call name, and the rows it puts where others can name them.
Needs(rows)    == UNION {r.refs : r \in Elements(rows)}
Provides(rows) == {k \in KeysOf(rows) : k[1] \in DOMAIN References}

\* Rows that name what is known join the buffer.
LEMMA BufferedSound ==
  ASSUME NEW e, Sound(e), NEW rows \in Seq(RelationalRows), Needs(rows) \subseteq Known(e)
  PROVE  Progress(e, Buffered(e, rows)) /\ KeysOf(rows) \subseteq Known(Buffered(e, rows))
<1> DEFINE h == Buffered(e, rows)
           q == e.buffer
<1>1. e \in StoreType /\ q \in Seq(RelationalRows)
  BY DEF Sound, StoreType
<1>2. /\ h \in StoreType /\ h.buffer = q \o rows
      /\ h.stored = e.stored /\ h.backend = e.backend /\ h.broken = e.broken
      /\ h.fuse = e.fuse /\ h.cut = e.cut
      /\ h.lost = e.lost /\ h.failed = e.failed
  BY <1>1, BufferedIs
<1> HIDE DEF h
<1>3. Elements(h.buffer) = Elements(e.buffer) \cup Elements(rows)
  <2> HIDE DEF q
  <2>1. Elements(q \o rows) = Elements(q) \cup Elements(rows)
    BY <1>1, ElementsConcat
  <2> QED
    BY <1>2, <2>1 DEF q
<1>4. Known(e) \subseteq Known(h) /\ KeysOf(rows) \subseteq Known(h)
  BY <1>2, <1>3 DEF Known, KeysOf
<1>5. \A r \in Elements(h.buffer) : r.refs \subseteq Known(h)
  BY <1>3, <1>4 DEF Sound, Needs
<1>6. Sound(h) /\ Steady(e, h)
  BY <1>2, <1>5 DEF Sound, Reliable, LostDescend, Steady
<1> QED
  BY <1>2, <1>4, <1>6 DEF Progress, h

\* A call whose rows name what is known refuses nothing, and its rows become known.
LEMMA WriteManyProgress ==
  ASSUME NEW e, Sound(e), Kept(e), NEW rows \in Calls, Needs(rows) \subseteq Known(e)
  PROVE  LET f == WriteMany(e, rows)
         IN  Progress(e, f) /\ (~ e.raised => Provides(rows) \subseteq Known(f))
<1>0. Progress(e, e)
  BY DEF Progress, Steady
<1>1. CASE rows = <<>> \/ e.raised
  <2>1. WriteMany(e, rows) = e
    BY <1>1 DEF WriteMany
  <2>2. CASE e.raised
    BY <1>0, <2>1, <2>2
  <2>3. CASE rows = <<>>
    <3>1. Provides(rows) = {}
      BY <2>3, ElementsNone DEF Provides, KeysOf
    <3> QED
      BY <1>0, <2>1, <3>1
  <2> QED
    BY <1>1, <2>2, <2>3
<1>2. CASE rows # <<>> /\ ~ e.raised
  <2>1. CASE rows \in Seq(Samples)
    <3>1. rows[1].table = TELEMETRY_TABLE
      BY <1>2, <2>1 DEF Samples
    <3>2. WriteMany(e, rows) = WriteTelemetry(e, rows)
      BY <1>2, <3>1 DEF WriteMany
    <3>3. Progress(e, WriteMany(e, rows))
      BY <2>1, <3>2, WriteTelemetryKeeps, AsideSound DEF Kept
    <3>4. Provides(rows) = {}
      <4>1. \A r \in Elements(rows) : r.table \notin DOMAIN References
        BY <2>1, ElementsType, Apart DEF Samples
      <4> QED
        BY <4>1 DEF Provides, KeysOf, RowKey
    <3> QED
      BY <3>3, <3>4
  <2>2. CASE rows \in Seq(LabelRows)
    <3>1. rows[1].table \in EVAL_TABLES
      BY <1>2, <2>2 DEF LabelRows
    <3>2. WriteMany(e, rows) = WriteEvaluation(e, rows)
      BY <1>2, <3>1, Apart DEF WriteMany
    <3>3. Progress(e, WriteMany(e, rows))
      BY <2>2, <3>2, WriteEvaluationKeeps, AsideSound DEF Kept
    <3>4. Provides(rows) = {}
      <4>1. \A r \in Elements(rows) : r.table \notin DOMAIN References
        BY <2>2, ElementsType, Apart DEF LabelRows
      <4> QED
        BY <4>1 DEF Provides, KeysOf, RowKey
    <3> QED
      BY <3>3, <3>4
  <2>3. CASE rows \in Seq(RelationalRows)
    <3> DEFINE h == Buffered(e, rows)
               f == FlushRelational(h)
    <3>1. rows[1].table \in DOMAIN References
      BY <1>2, <2>3 DEF RelationalRows
    <3>2. WriteMany(e, rows) = h \/ WriteMany(e, rows) = f
      BY <1>2, <3>1, Apart DEF WriteMany, WriteRelational, Buffered
    <3>3. Progress(e, h) /\ KeysOf(rows) \subseteq Known(h) /\ ~ h.raised
      BY <1>2, <2>3, BufferedSound, BufferedIs DEF Kept
    <3> HIDE DEF h
    <3>4. Progress(h, f)
      BY <3>3, FlushRelationalProgress DEF Progress
    <3> HIDE DEF f
    <3>5. Progress(e, f) /\ Known(h) \subseteq Known(f)
      BY <3>3, <3>4, ProgressOn DEF Progress
    <3> QED
      BY <3>2, <3>3, <3>5 DEF Provides
  <2> QED
    BY <2>1, <2>2, <2>3 DEF Calls
<1> QED
  BY <1>1, <1>2

\* So it is for the calls of a write, for a write, and for a handler.
LEMMA CalledProgress ==
  ASSUME NEW e, Sound(e), Kept(e), NEW calls \in Seq(Calls),
         \A i \in 1..Len(calls) : Needs(calls[i]) \subseteq Known(e)
  PROVE  LET f == Called(e, calls)
         IN  /\ Progress(e, f)
             /\ ~ e.raised /\ calls # <<>> => Provides(calls[1]) \subseteq Known(f)
<1> DEFINE n == Len(calls)
           First(f) == ~ e.raised => Provides(calls[1]) \subseteq Known(f)
           Holds(i, f) == Kept(f) /\ Progress(e, f) /\ (i > 0 => First(f))
<1>1. PICK g : CalledPass(g, e, calls)
  BY CalledPassExists
<1>2. /\ Called(e, calls) = g[n] /\ g[0] = e /\ n \in Nat
      /\ \A i \in 1..n : /\ g[i] = WriteMany(g[i - 1], calls[i]) /\ calls[i] \in Calls
                         /\ Needs(calls[i]) \subseteq Known(e)
  BY <1>1 DEF CalledPass
<1> DEFINE T == {i \in 0..n : Holds(i, g[i])}
<1>3. calls # <<>> => n > 0
  OBVIOUS
<1> HIDE DEF n
<1>4. 0 \in T
  BY <1>2 DEF Progress, Steady
<1>5. ASSUME NEW i \in 1..n, i - 1 \in T PROVE i \in T
  <2> DEFINE f == g[i - 1]
             rows == calls[i]
             h == WriteMany(f, rows)
  <2>1. Holds(i - 1, f) /\ g[i] = h /\ rows \in Calls /\ Needs(rows) \subseteq Known(f)
    BY <1>2, <1>5 DEF Progress
  <2>2. i = 1 => f = e /\ rows = calls[1]
    BY <1>2
  <2>3. i > 1 => First(f)
    BY <1>2, <2>1
  <2> HIDE DEF f, rows
  <2>4. Progress(f, h) /\ (~ f.raised => Provides(rows) \subseteq Known(h)) /\ Kept(h)
    BY <2>1, WriteManyProgress, WriteManyKeeps DEF Progress
  <2> HIDE DEF h
  <2>5. Progress(e, h) /\ Known(f) \subseteq Known(h)
    BY <2>1, <2>4, ProgressOn DEF Progress
  <2>6. First(h)
    BY <1>2, <2>2, <2>3, <2>4, <2>5
  <2> QED
    BY <2>1, <2>4, <2>5, <2>6
<1> HIDE DEF T
<1>6. 0..n \subseteq T
  BY <1>2, <1>4, <1>5, Along
<1>7. Holds(n, g[n])
  BY <1>2, <1>6 DEF T
<1> QED
  BY <1>2, <1>3, <1>7

\* What a write names, and what it provides.
WriteNeeds(w)    == UNION {Needs(w.calls[i]) : i \in 1..Len(w.calls)}
WriteProvides(w) == IF w.flush \/ w.calls = <<>> THEN {} ELSE Provides(w.calls[1])

LEMMA WriteProgress ==
  ASSUME NEW e, Sound(e), Kept(e), NEW w \in Writes, w.tap => FirstTable(w) \in Tables,
         WriteNeeds(w) \subseteq Known(e)
  PROVE  LET f == Write(e, w)
         IN  Progress(e, f) /\ (~ e.raised => WriteProvides(w) \subseteq Known(f))
<1>1. CASE e.raised
  BY <1>1 DEF Write, Progress, Steady
<1>2. CASE ~ e.raised /\ w.flush
  BY <1>2, FlushProgress DEF Write, WriteProvides
<1>3. CASE ~ e.raised /\ ~ w.flush
  <2> DEFINE calls == w.calls
             f == Called(e, calls)
             h == [f EXCEPT !.raised = FALSE, !.aborted = @ \cup {FirstTable(w)}]
  <2>1. Write(e, w) = IF w.tap /\ f.raised THEN h ELSE f
    BY <1>3 DEF Write, Called, FirstTable
  <2>2. calls \in Seq(Calls) /\ \A i \in 1..Len(calls) : Needs(calls[i]) \subseteq Known(e)
    BY DEF Writes, WriteNeeds
  <2>3. Provides(calls[1]) \subseteq Known(f) => WriteProvides(w) \subseteq Known(f)
    BY DEF WriteProvides
  <2>4. calls = <<>> => WriteProvides(w) = {}
    BY DEF WriteProvides
  <2> HIDE DEF calls
  <2>5. /\ Kept(f) /\ Progress(e, f)
        /\ ~ e.raised /\ calls # <<>> => Provides(calls[1]) \subseteq Known(f)
    BY <2>2, CalledKeeps, CalledProgress
  <2> HIDE DEF f
  <2>6. WriteProvides(w) \subseteq Known(f)
    BY <1>3, <2>3, <2>4, <2>5
  <2>7. ASSUME w.tap PROVE Progress(f, h)
    <3>1. /\ h \in StoreType /\ h.backend = f.backend /\ h.stored = f.stored
          /\ h.buffer = f.buffer /\ h.lost = f.lost /\ h.broken = f.broken
          /\ h.fuse = f.fuse /\ h.cut = f.cut /\ h.failed = f.failed
      BY <2>5, <2>7 DEF Kept, StoreType
    <3>2. Known(h) = Known(f) /\ Sound(f)
      BY <2>5, <3>1 DEF Known, Progress
    <3> QED
      BY <3>1, <3>2 DEF Progress, Sound, Steady, Reliable, LostDescend
  <2> HIDE DEF h
  <2>8. w.tap => Progress(e, h) /\ Known(f) \subseteq Known(h)
    BY <2>5, <2>7, ProgressOn DEF Progress
  <2> QED
    BY <2>1, <2>5, <2>6, <2>8
<1> QED
  BY <1>1, <1>2, <1>3

\* Each write names what was known before the handler, or what an earlier write of
\* it provides.
Founding(known, ws) ==
  \A i \in 1..Len(ws) :
     WriteNeeds(ws[i]) \subseteq known \cup UNION {WriteProvides(ws[j]) : j \in 1..i - 1}

LEMMA PerformProgress ==
  ASSUME NEW e, Sound(e), Kept(e), ~ e.raised, NEW ws \in Handlers, Founding(Known(e), ws)
  PROVE  LET f == Perform(e, ws)
         IN  /\ Progress(e, f)
             /\ ~ f.raised => \A i \in 1..Len(ws) : WriteProvides(ws[i]) \subseteq Known(f)
<1> DEFINE n == Len(ws)
           Given(i) == UNION {WriteProvides(ws[j]) : j \in 1..i}
           Holds(i, f) == Kept(f) /\ Progress(e, f) /\ (~ f.raised => Given(i) \subseteq Known(f))
<1>1. ws \in Seq(Writes) /\ \A i \in 1..n : ws[i].tap => FirstTable(ws[i]) \in Tables
  BY DEF Handlers
<1>2. PICK g : PerformPass(g, e, ws)
  BY <1>1, PerformPassExists
<1>3. /\ Perform(e, ws) = g[n] /\ g[0] = e /\ n \in Nat
      /\ \A i \in 1..n : g[i] = Write(g[i - 1], ws[i]) /\ ws[i] \in Writes
  BY <1>1, <1>2 DEF PerformPass
<1>4. \A i \in 1..n : WriteNeeds(ws[i]) \subseteq Known(e) \cup Given(i - 1)
  BY DEF Founding
<1>5. Given(0) = {} /\ \A i \in 1..n : Given(i) = Given(i - 1) \cup WriteProvides(ws[i])
  <2>1. \A i \in 1..n : 1..i = (1..i - 1) \cup {i}
    BY <1>3
  <2> QED
    BY <2>1
<1>6. \A i \in 1..n : WriteProvides(ws[i]) \subseteq Given(n)
  BY <1>3
<1> DEFINE T == {i \in 0..n : Holds(i, g[i])}
<1> HIDE DEF n, Given
<1>7. 0 \in T
  BY <1>3, <1>5 DEF Progress, Steady
<1>8. ASSUME NEW i \in 1..n, i - 1 \in T PROVE i \in T
  <2> DEFINE f == g[i - 1]
             w == ws[i]
             h == Write(f, w)
  <2>1. /\ Holds(i - 1, f) /\ g[i] = h /\ w \in Writes
        /\ w.tap => FirstTable(w) \in Tables
        /\ WriteNeeds(w) \subseteq Known(e) \cup Given(i - 1)
        /\ Given(i) = Given(i - 1) \cup WriteProvides(w)
    BY <1>1, <1>3, <1>4, <1>5, <1>8 DEF n
  <2> HIDE DEF f, w
  <2>2. CASE f.raised
    <3>1. h = f
      BY <2>2 DEF Write
    <3>2. Holds(i, f)
      BY <2>1, <2>2
    <3> QED
      BY <2>1, <3>1, <3>2
  <2>3. CASE ~ f.raised
    <3>1. WriteNeeds(w) \subseteq Known(f) /\ Sound(f)
      BY <2>1, <2>3 DEF Progress
    <3>2. Progress(f, h) /\ WriteProvides(w) \subseteq Known(h) /\ Kept(h)
      BY <2>1, <2>3, <3>1, WriteProgress, WriteKeeps
    <3> HIDE DEF h
    <3>3. Progress(e, h) /\ Known(f) \subseteq Known(h)
      BY <2>1, <3>2, ProgressOn DEF Progress
    <3>4. Holds(i, h)
      BY <2>1, <2>3, <3>2, <3>3
    <3> QED
      BY <2>1, <3>4
  <2> QED
    BY <2>2, <2>3
<1> HIDE DEF T
<1>9. 0..n \subseteq T
  BY <1>3, <1>7, <1>8, Along
<1>10. Holds(n, g[n])
  BY <1>3, <1>9 DEF T
<1> QED
  BY <1>3, <1>6, <1>10 DEF n

-----------------------------------------------------------------------------
\* The writes the handlers are made of.

\* The writes that name nothing outside of some ids.
Within(K) == {w \in Writes : (w.tap => FirstTable(w) \in Tables) /\ WriteNeeds(w) \subseteq K}

LEMMA WithinMore ==
  ASSUME NEW K, NEW M, K \subseteq M
  PROVE  Within(K) \subseteq Within(M) /\ Seq(Within(K)) \subseteq Seq(Within(M))
<1>1. Within(K) \subseteq Within(M)
  BY DEF Within
<1> QED
  BY <1>1

\* A handler that names what is known, or what its first write provides.
LEMMA HandlerWithin ==
  ASSUME NEW K, NEW ws \in Seq(Within(K))
  PROVE  /\ ws \in Handlers
         /\ \A known : K \subseteq known => Founding(known, ws)
<1>1. ws \in Seq(Writes) /\ \A i \in 1..Len(ws) : ws[i] \in Within(K)
  BY DEF Within
<1> QED
  BY <1>1 DEF Handlers, Founding, Within

\* A handler whose first write provides what the others name.
LEMMA HandlerHeaded ==
  ASSUME NEW K, NEW ws, NEW P, ws \in Seq(Within(K \cup P)), ws # <<>>, ws[1] \in Within(K),
         P \subseteq WriteProvides(ws[1])
  PROVE  /\ ws \in Handlers
         /\ \A known : K \subseteq known => Founding(known, ws)
<1>1. ws \in Handlers
  BY HandlerWithin
<1>2. ASSUME NEW known, K \subseteq known, NEW i \in 1..Len(ws)
      PROVE  WriteNeeds(ws[i]) \subseteq known \cup UNION {WriteProvides(ws[j]) : j \in 1..i - 1}
  <2>1. CASE i = 1
    BY <1>2, <2>1 DEF Within
  <2>2. CASE i # 1
    <3>1. ws[i] \in Within(K \cup P) /\ 1 \in 1..i - 1
      BY <2>2
    <3> QED
      BY <1>2, <3>1 DEF Within
  <2> QED
    BY <2>1, <2>2
<1> QED
  BY <1>1, <1>2 DEF Founding

\* The rows and writes of the handlers, as they are built.
LEMMA RowIs ==
  ASSUME NEW t \in Tables, NEW key \in Keys, NEW ver \in Versions, NEW ids \in SUBSET Ids
  PROVE  LET r == Row(t, key, ver, ids)
         IN  /\ r \in Rows /\ r.table = t /\ r.key = key /\ RowKey(r) = <<t, key>>
             /\ r.refs \subseteq ids
             /\ t \in DOMAIN References => r \in RelationalRows
             /\ t = TELEMETRY_TABLE => r \in Samples
             /\ t \in EVAL_TABLES => r \in LabelRows
BY DEF Row, Rows, RelationalRows, Samples, LabelRows, RowKey

LEMMA CallIs ==
  ASSUME NEW r \in RelationalRows
  PROVE  /\ <<r>> \in Calls /\ Needs(<<r>>) = r.refs /\ RowKey(r) \in Provides(<<r>>)
         /\ <<r>>[1].table \in Tables
<1>1. Elements(<<r>>) = {r}
  BY DEF Elements
<1> QED
  BY <1>1, KindsOfRows DEF Calls, Needs, Provides, KeysOf, RowKey, Tables

LEMMA DirectIs ==
  ASSUME NEW K, NEW r \in RelationalRows, r.refs \subseteq K
  PROVE  Direct(r) \in Within(K) /\ RowKey(r) \in WriteProvides(Direct(r))
<1> DEFINE single == <<r>>
           calls == <<single>>
           w == Direct(r)
<1>1. single \in Calls /\ Needs(single) = r.refs /\ RowKey(r) \in Provides(single)
  BY CallIs
<1>2. w = [tap |-> FALSE, calls |-> calls, flush |-> FALSE]
  BY DEF Direct
<1> HIDE DEF single
<1>3. calls \in Seq(Calls) /\ Len(calls) = 1 /\ calls[1] = single /\ calls # <<>>
  BY <1>1
<1> HIDE DEF calls
<1>4. w \in Writes /\ ~ w.tap /\ w.calls = calls /\ ~ w.flush
  BY <1>2, <1>3 DEF Writes
<1> HIDE DEF w
<1>5. ASSUME NEW i \in 1..Len(w.calls) PROVE Needs(w.calls[i]) \subseteq K
  <2>1. w.calls = calls /\ Len(calls) = 1 /\ calls[1] = single
    BY <1>3, <1>4
  <2>2. i \in 1..1
    BY <2>1
  <2>3. w.calls[i] = single
    BY <2>1, <2>2
  <2> QED
    BY <1>1, <2>3
<1>6. WriteNeeds(w) \subseteq K
  BY <1>5 DEF WriteNeeds
<1> QED
  BY <1>1, <1>3, <1>4, <1>6 DEF Within, WriteProvides, w

LEMMA DirectManyIs ==
  ASSUME NEW K, NEW rows \in Calls, Needs(rows) \subseteq K
  PROVE  DirectMany(rows) \in Within(K)
<1> DEFINE calls == <<rows>>
           w == DirectMany(rows)
<1>1. w = [tap |-> FALSE, calls |-> calls, flush |-> FALSE]
  BY DEF DirectMany
<1>2. calls \in Seq(Calls) /\ Len(calls) = 1 /\ calls[1] = rows
  OBVIOUS
<1> HIDE DEF calls
<1>3. w \in Writes /\ ~ w.tap /\ w.calls = calls
  BY <1>1, <1>2 DEF Writes
<1> HIDE DEF w
<1>4. ASSUME NEW i \in 1..Len(w.calls) PROVE Needs(w.calls[i]) \subseteq K
  <2>1. w.calls = calls
    BY <1>3
  <2>2. Len(calls) = 1
    BY <1>2
  <2>3. i = 1
    BY <2>1, <2>2
  <2>4. calls[1] = rows
    BY <1>2
  <2>5. w.calls[i] = rows
    BY <2>1, <2>3, <2>4
  <2> QED
    BY <2>5
<1>5. WriteNeeds(w) \subseteq K
  BY <1>4 DEF WriteNeeds
<1> QED
  BY <1>3, <1>5 DEF Within, w

LEMMA TapIs ==
  ASSUME NEW K, NEW rows \in Seq(RelationalRows), rows # <<>>,
         \A i \in 1..Len(rows) : rows[i].refs \subseteq K
  PROVE  Tap(rows) \in Within(K) /\ RowKey(rows[1]) \in WriteProvides(Tap(rows))
<1> DEFINE n == Len(rows)
           calls == [i \in 1..n |-> <<rows[i]>>]
           w == Tap(rows)
<1>1. n \in Nat /\ 1 \in 1..n /\ \A i \in 1..n : rows[i] \in RelationalRows
  OBVIOUS
<1>2. w = [tap |-> TRUE, calls |-> calls, flush |-> FALSE]
  BY DEF Tap
<1> DEFINE Call(i) == <<rows[i]>>
<1>3. \A i \in 1..n : /\ Call(i) \in Calls /\ Needs(Call(i)) \subseteq K
                      /\ RowKey(rows[i]) \in Provides(Call(i)) /\ Call(i)[1].table \in Tables
  <2>1. ASSUME NEW i \in 1..n
        PROVE  /\ Call(i) \in Calls /\ Needs(Call(i)) \subseteq K
               /\ RowKey(rows[i]) \in Provides(Call(i)) /\ Call(i)[1].table \in Tables
    <3> DEFINE r == rows[i]
    <3>1. r \in RelationalRows /\ r.refs \subseteq K
      BY <1>1
    <3> HIDE DEF r
    <3>2. /\ <<r>> \in Calls /\ Needs(<<r>>) = r.refs /\ RowKey(r) \in Provides(<<r>>)
          /\ <<r>>[1].table \in Tables
      BY <3>1, CallIs
    <3> QED
      BY <3>1, <3>2 DEF r
  <2> QED
    BY <2>1
<1>4. calls = [i \in 1..n |-> Call(i)]
  OBVIOUS
<1> HIDE DEF n, Call, calls
<1>5. /\ calls \in Seq(Calls) /\ Len(calls) = n /\ calls # <<>>
      /\ \A i \in 1..n : calls[i] = Call(i)
  BY <1>1, <1>3, <1>4
<1>6. w \in Writes /\ w.calls = calls /\ ~ w.flush
  BY <1>2, <1>5 DEF Writes
<1> HIDE DEF w
<1>7. WriteNeeds(w) \subseteq K
  BY <1>3, <1>5, <1>6 DEF WriteNeeds
<1>8. FirstTable(w) \in Tables
  BY <1>1, <1>3, <1>5, <1>6 DEF FirstTable
<1> QED
  BY <1>1, <1>3, <1>5, <1>6, <1>7, <1>8 DEF Within, WriteProvides, w

LEMMA FlushNowIs ==
  ASSUME NEW K
  PROVE  FlushNow \in Within(K)
<1>1. <<>> \in Seq(Calls) /\ Len(<<>>) = 0
  OBVIOUS
<1>2. FlushNow \in Writes /\ ~ FlushNow.tap /\ FlushNow.calls = <<>>
  BY <1>1 DEF FlushNow, Writes
<1> QED
  BY <1>1, <1>2 DEF Within, WriteNeeds

\* Every relational table, named.
LEMMA Listed ==
  \A t \in {"config_versions", "runs", "states", "event_types", "equipment_classes",
            "plants", "units", "machines", "sensors", "plc_tags", "employees",
            "products", "shifts", "shift_instances", "batches", "batch_stages",
            "qc_results", "failures", "maintenance", "deviations", "rca",
            "rca_evidence", "capa", "machine_state_history", "production_records",
            "oee_snapshots", "employee_events", "machine_events", "events"} :
     t \in DOMAIN References /\ t \in Tables
BY ReferencesRead, ProvenanceTablesRead, VocabularyTablesRead, PlantTablesRead,
   CatalogueTablesRead, OperationTablesRead, BatchTablesRead, QualityTablesRead,
   EventTablesRead DEF Tables

\* A row by its name and what it may say, in one direct write.
LEMMA DirectRow ==
  ASSUME NEW K, NEW t \in DOMAIN References, NEW key \in Keys, NEW ver \in Versions,
         NEW ids \in SUBSET Ids, ids \subseteq K
  PROVE  /\ Direct(Row(t, key, ver, ids)) \in Within(K)
         /\ <<t, key>> \in WriteProvides(Direct(Row(t, key, ver, ids)))
<1> DEFINE r == Row(t, key, ver, ids)
<1>1. t \in Tables
  BY DEF Tables
<1>2. r \in RelationalRows /\ RowKey(r) = <<t, key>> /\ r.refs \subseteq K
  BY <1>1, RowIs
<1> HIDE DEF r
<1>3. Direct(r) \in Within(K) /\ RowKey(r) \in WriteProvides(Direct(r))
  BY <1>2, DirectIs
<1> QED
  BY <1>2, <1>3 DEF r

\* The same in a tap, and an event with its projection.
LEMMA TapRow ==
  ASSUME NEW K, NEW t \in DOMAIN References, NEW key \in Keys, NEW ver \in Versions,
         NEW ids \in SUBSET Ids, ids \subseteq K
  PROVE  /\ Tap(<<Row(t, key, ver, ids)>>) \in Within(K)
         /\ <<t, key>> \in WriteProvides(Tap(<<Row(t, key, ver, ids)>>))
<1> DEFINE r == Row(t, key, ver, ids)
           rows == <<r>>
<1>1. t \in Tables
  BY DEF Tables
<1>2. r \in RelationalRows /\ RowKey(r) = <<t, key>> /\ r.refs \subseteq K
  BY <1>1, RowIs
<1> HIDE DEF r
<1>3. rows \in Seq(RelationalRows) /\ rows # <<>> /\ Len(rows) = 1 /\ rows[1] = r
  BY <1>2
<1> HIDE DEF rows
<1>4. \A i \in 1..Len(rows) : rows[i].refs \subseteq K
  BY <1>2, <1>3
<1>5. Tap(rows) \in Within(K) /\ RowKey(rows[1]) \in WriteProvides(Tap(rows))
  BY <1>3, <1>4, TapIs
<1> QED
  BY <1>2, <1>3, <1>5 DEF r, rows

LEMMA PersistIs ==
  ASSUME NEW K, NEW type \in Words, NEW subject \in Subjects,
         NEW projection \in {None, "employee_events", "machine_events"},
         NEW ids \in SUBSET Ids, ids \subseteq K, <<"event_types", type>> \in K,
         <<"event_types", type>> \in Ids
  PROVE  Persist(type, subject, projection, ids) \in Within(K)
<1> DEFINE more == ids \cup {<<"event_types", type>>}
           key == <<type, subject>>
           a == Row("events", key, "", more)
           b == Row(projection, key, "", more)
           rows == IF projection = None THEN <<a>> ELSE <<a, b>>
<1>1. Persist(type, subject, projection, ids) = Tap(rows)
  BY DEF Persist
<1>2. key \in Keys /\ "" \in Versions /\ more \in SUBSET Ids /\ more \subseteq K
  <2>1. key \in Keys
    BY DEF Keys
  <2>2. "" \in Versions
    BY DEF Versions, Words
  <2> QED
    BY <2>1, <2>2
<1> HIDE DEF key, more
<1>3. a \in RelationalRows /\ a.refs \subseteq K
  <2>1. "events" \in DOMAIN References /\ "events" \in Tables
    BY Listed
  <2> QED
    BY <1>2, <2>1, RowIs
<1>4. projection # None => b \in RelationalRows /\ b.refs \subseteq K
  <2>1. ASSUME projection # None PROVE projection \in DOMAIN References /\ projection \in Tables
    BY <2>1, Listed
  <2>2. ASSUME projection # None PROVE b \in RelationalRows /\ b.refs \subseteq K
    BY <1>2, <2>1, <2>2, RowIs
  <2> QED
    BY <2>2
<1> HIDE DEF a, b
<1>5. /\ rows \in Seq(RelationalRows) /\ rows # <<>>
      /\ \A i \in 1..Len(rows) : rows[i].refs \subseteq K
  BY <1>3, <1>4
<1> HIDE DEF rows
<1> QED
  BY <1>1, <1>5, TapIs

-----------------------------------------------------------------------------
\* The ids the rows may carry, and the topology that puts them in the stores.

Types == {EventTypes[i] : i \in 1..Len(EventTypes)}

Dimensions == There \cup Staff \cup {<<"event_types", type>> : type \in Types}

\* The event types, and what they are called.
LEMMA TypesRead ==
  /\ Len(EventTypes) = 18
  /\ \A type \in {"SIMULATION_STARTED", "SIMULATION_STOPPED", "SHIFT_STARTED",
                    "SHIFT_ENDED", "EMPLOYEE_CLOCK_IN",
                    "PRODUCTION_ORDER_CREATED", "BATCH_STARTED",
                    "BATCH_STAGE_COMPLETED", "BATCH_COMPLETED", "QC_FAILED",
                    "QC_TEST_COMPLETED", "MACHINE_FAILURE", "PRODUCTION_STOPPED",
                    "MAINTENANCE_COMPLETED", "DEGRADATION_AVERTED",
                    "DEVIATION_CREATED", "RCA_COMPLETED", "CAPA_CREATED"} : type \in Types
<1>1. Len(EventTypes) = 18
  BY DEF EventTypes
<1>2. /\ EventTypes[1] = "SIMULATION_STARTED"
      /\ EventTypes[2] = "SIMULATION_STOPPED"
      /\ EventTypes[3] = "SHIFT_STARTED"
      /\ EventTypes[4] = "SHIFT_ENDED"
      /\ EventTypes[5] = "EMPLOYEE_CLOCK_IN"
      /\ EventTypes[6] = "PRODUCTION_ORDER_CREATED"
      /\ EventTypes[7] = "BATCH_STARTED"
      /\ EventTypes[8] = "BATCH_STAGE_COMPLETED"
      /\ EventTypes[9] = "BATCH_COMPLETED"
      /\ EventTypes[10] = "QC_FAILED"
      /\ EventTypes[11] = "QC_TEST_COMPLETED"
      /\ EventTypes[12] = "MACHINE_FAILURE"
      /\ EventTypes[13] = "PRODUCTION_STOPPED"
      /\ EventTypes[14] = "MAINTENANCE_COMPLETED"
      /\ EventTypes[15] = "DEGRADATION_AVERTED"
      /\ EventTypes[16] = "DEVIATION_CREATED"
      /\ EventTypes[17] = "RCA_COMPLETED"
      /\ EventTypes[18] = "CAPA_CREATED"
  BY DEF EventTypes
<1> QED
  BY <1>1, <1>2 DEF Types

\* Every id a row may name is one.
LEMMA Identities ==
  /\ Dimensions \in SUBSET Ids /\ Site \subseteq There /\ There \subseteq Dimensions
  /\ Staff \subseteq Dimensions
  /\ Site \in SUBSET Ids /\ There \in SUBSET Ids /\ Staff \in SUBSET Ids /\ Open \in SUBSET Ids
  /\ \A b \in Batches : Of(b) \in SUBSET Ids
  /\ \A v \in Deviations : <<"deviations", v>> \in Ids /\ <<"rca", v>> \in Ids
<1>1. \A w \in {"plant", "run", "fingerprint", "press", "IDLE", "tablet", "morning",
               "compression", "TP-001", "operator", "SI-1"} : w \in Keys
  BY DEF Keys, Subjects, Words
<1>2. \A type \in Types : type \in Keys
  BY DEF Keys, Subjects, Words, Types
<1>3. \A x : x \in Batches \/ x \in Deviations => x \in Keys
  BY DEF Keys, Subjects
<1>4. Site \in SUBSET Ids
  BY <1>1, Listed DEF Site, Ids
<1>5. There \in SUBSET Ids
  BY <1>1, <1>4, Listed DEF There, Ids
<1>6. Staff \in SUBSET Ids /\ Open \in SUBSET Ids
  BY <1>1, Listed DEF Staff, Open, Ids
<1>7. \A type \in Types : <<"event_types", type>> \in Ids
  BY <1>2, Listed DEF Ids
<1>8. Dimensions \in SUBSET Ids
  BY <1>5, <1>6, <1>7 DEF Dimensions
<1>9. /\ \A b \in Batches : Of(b) \in SUBSET Ids
      /\ \A v \in Deviations : <<"deviations", v>> \in Ids /\ <<"rca", v>> \in Ids
  BY <1>3, Listed DEF Of, Ids
<1>10. Site \subseteq There /\ There \subseteq Dimensions /\ Staff \subseteq Dimensions
  BY DEF There, Dimensions
<1> QED
  BY <1>4, <1>5, <1>6, <1>8, <1>9, <1>10

\* An event that names what stands.
LEMMA PersistOf ==
  ASSUME NEW K, Dimensions \subseteq K, NEW type \in Types, NEW subject \in Subjects,
         NEW projection \in {None, "employee_events", "machine_events"},
         NEW ids \in SUBSET Ids, ids \subseteq K
  PROVE  Persist(type, subject, projection, ids) \in Within(K)
<1>1. type \in Words
  BY DEF Types, Words
<1>2. <<"event_types", type>> \in K /\ <<"event_types", type>> \in Ids
  BY Identities DEF Dimensions
<1> QED
  BY <1>1, <1>2, PersistIs

\* What a row of the topology names.
LEMMA RowNames ==
  ASSUME NEW t \in DOMAIN References, NEW key \in Keys, NEW ver \in Versions,
         NEW ids \in SUBSET Ids, NEW K, \A p \in ids : p[1] \in References[t] => p \in K
  PROVE  /\ Direct(Row(t, key, ver, ids)) \in Within(K)
         /\ <<t, key>> \in WriteProvides(Direct(Row(t, key, ver, ids)))
<1> DEFINE r == Row(t, key, ver, ids)
<1>1. t \in Tables
  BY DEF Tables
<1>2. r \in RelationalRows /\ RowKey(r) = <<t, key>>
  BY <1>1, RowIs
<1>3. r.refs \subseteq K
  BY DEF Row
<1> HIDE DEF r
<1>4. Direct(r) \in Within(K) /\ RowKey(r) \in WriteProvides(Direct(r))
  BY <1>2, <1>3, DirectIs
<1> QED
  BY <1>2, <1>4 DEF r

\* One handler after another.
AllProvides(ws) == UNION {WriteProvides(ws[i]) : i \in 1..Len(ws)}

\* A handler founded on one before it.
LEMMA FoundingConcat ==
  ASSUME NEW K, NEW a \in Handlers, NEW b \in Handlers, Founding(K, a),
         Founding(K \cup AllProvides(a), b)
  PROVE  /\ a \o b \in Handlers /\ Founding(K, a \o b)
         /\ AllProvides(a \o b) = AllProvides(a) \cup AllProvides(b)
<1> DEFINE m == Len(a)
           n == Len(b)
           ws == a \o b
           Given(i) == UNION {WriteProvides(ws[j]) : j \in 1..i}
<1>1. /\ m \in Nat /\ n \in Nat /\ ws \in Seq(Writes) /\ Len(ws) = m + n
      /\ \A i \in 1..m : ws[i] = a[i]
      /\ \A i \in 1..n : ws[m + i] = b[i]
  BY DEF Handlers
<1>2. /\ \A i \in 1..m : a[i].tap => FirstTable(a[i]) \in Tables
      /\ \A i \in 1..n : b[i].tap => FirstTable(b[i]) \in Tables
  BY DEF Handlers
<1>3. /\ \A i \in 1..m : WriteNeeds(a[i]) \subseteq K \cup UNION {WriteProvides(a[j]) : j \in 1..i - 1}
      /\ \A i \in 1..n : WriteNeeds(b[i]) \subseteq (K \cup AllProvides(a))
                                 \cup UNION {WriteProvides(b[j]) : j \in 1..i - 1}
      /\ AllProvides(a) = UNION {WriteProvides(a[i]) : i \in 1..m}
      /\ AllProvides(b) = UNION {WriteProvides(b[i]) : i \in 1..n}
      /\ AllProvides(ws) = Given(m + n)
  BY <1>1 DEF Founding, AllProvides
<1> HIDE DEF m, n, ws
<1>4. \A i \in 1..m + n : i \in 1..m \/ (i - m \in 1..n /\ i = m + (i - m))
  BY <1>1
<1>5. ws \in Handlers
  <2>1. ASSUME NEW i \in 1..Len(ws) PROVE ws[i].tap => FirstTable(ws[i]) \in Tables
    <3>1. i \in 1..m \/ (i - m \in 1..n /\ i = m + (i - m))
      BY <1>1, <1>4
    <3>2. CASE i \in 1..m
      <4>1. ws[i] = a[i]
        BY <1>1, <3>2
      <4> QED
        BY <1>2, <3>2, <4>1
    <3>3. CASE i - m \in 1..n /\ i = m + (i - m)
      <4>1. ws[m + (i - m)] = b[i - m]
        BY <1>1, <3>3
      <4>2. ws[i] = b[i - m]
        BY <3>3, <4>1
      <4> QED
        BY <1>2, <3>3, <4>2
    <3> QED
      BY <3>1, <3>2, <3>3
  <2> QED
    BY <1>1, <2>1 DEF Handlers
<1>6. ASSUME NEW i \in 1..m PROVE WriteNeeds(ws[i]) \subseteq K \cup Given(i - 1)
  <2>1. \A j \in 1..i - 1 : ws[j] = a[j]
    BY <1>1
  <2> QED
    BY <1>1, <1>3, <2>1
<1>7. ASSUME NEW i \in 1..n PROVE WriteNeeds(ws[m + i]) \subseteq K \cup Given((m + i) - 1)
  <2>1. \A j \in 1..m : j \in 1..(m + i) - 1 /\ ws[j] = a[j]
    BY <1>1
  <2>2. \A j \in 1..i - 1 : m + j \in 1..(m + i) - 1 /\ ws[m + j] = b[j]
    BY <1>1
  <2>3. AllProvides(a) \subseteq Given((m + i) - 1)
    BY <1>3, <2>1
  <2>4. UNION {WriteProvides(b[j]) : j \in 1..i - 1} \subseteq Given((m + i) - 1)
    BY <2>2
  <2>5. WriteNeeds(ws[m + i]) = WriteNeeds(b[i])
    BY <1>1
  <2> HIDE DEF Given
  <2> QED
    BY <1>3, <2>3, <2>4, <2>5
<1>8. Founding(K, ws)
  <2>1. ASSUME NEW i \in 1..Len(ws) PROVE WriteNeeds(ws[i]) \subseteq K \cup Given(i - 1)
    <3> HIDE DEF Given
    <3>1. CASE i \in 1..m
      BY <1>6, <3>1
    <3>2. CASE ~ (i \in 1..m)
      <4> DEFINE k == i - m
      <4>1. k \in 1..n /\ i = m + k
        BY <1>1, <1>4, <3>2
      <4> HIDE DEF k
      <4> QED
        BY <1>7, <4>1
    <3> QED
      BY <3>1, <3>2
  <2> QED
    BY <2>1 DEF Founding
<1>9. Given(m + n) = AllProvides(a) \cup AllProvides(b)
  <2>1. ASSUME NEW p \in Given(m + n) PROVE p \in AllProvides(a) \cup AllProvides(b)
    <3>1. PICK i \in 1..m + n : p \in WriteProvides(ws[i])
      OBVIOUS
    <3>2. CASE i \in 1..m
      BY <1>1, <1>3, <3>1, <3>2
    <3>3. CASE i - m \in 1..n /\ i = m + (i - m)
      BY <1>1, <1>3, <3>1, <3>3
    <3> QED
      BY <1>4, <3>2, <3>3
  <2>2. \A i \in 1..m : i \in 1..m + n
    BY <1>1
  <2>3. \A i \in 1..n : m + i \in 1..m + n
    BY <1>1
  <2>4. AllProvides(a) \subseteq Given(m + n)
    BY <1>1, <1>3, <2>2
  <2>5. AllProvides(b) \subseteq Given(m + n)
    BY <1>1, <1>3, <2>3
  <2> QED
    BY <2>1, <2>4, <2>5
<1> QED
  BY <1>3, <1>5, <1>8, <1>9 DEF ws

\* The topology, in four parts, each founded on the ones before it.
TopologyStart ==
  <<Direct(Row("config_versions", "fingerprint", "", Site)),
    Direct(Row("runs", "run", "started", Site)),
    Direct(Row("states", "IDLE", "", Site))>>

\* The provenance and the states: rows that name nothing but them.
LEMMA TopologyStartFounded ==
  /\ TopologyStart \in Handlers /\ Founding({}, TopologyStart)
  /\ {<<"config_versions", "fingerprint">>, <<"runs", "run">>, <<"states", "IDLE">>}
       \subseteq AllProvides(TopologyStart)
<1> DEFINE a1 == Direct(Row("config_versions", "fingerprint", "", Site))
           a2 == Direct(Row("runs", "run", "started", Site))
           a3 == Direct(Row("states", "IDLE", "", Site))
           n2 == {<<"config_versions", "fingerprint">>}
           ws == <<a1, a2, a3>>
<1>1. /\ \A w \in {"fingerprint", "run", "IDLE"} : w \in Keys
      /\ \A w \in {"", "started"} : w \in Versions
  BY DEF Keys, Subjects, Versions, Words
<1>2. a1 \in Within({})
        /\ <<"config_versions", "fingerprint">> \in WriteProvides(a1)
  <2> DEFINE K == {}
  <2>1. References["config_versions"] = {}
    BY ReferencesRead DEF ProvenanceTables
  <2>2. \A p \in Site : p[1] \in References["config_versions"] => p \in K
    BY <2>1 DEF Site
  <2>3. "config_versions" \in DOMAIN References
    BY Listed
  <2> HIDE DEF K
  <2>4. a1 \in Within(K) /\ <<"config_versions", "fingerprint">> \in WriteProvides(a1)
    BY <1>1, <2>2, <2>3, Identities, RowNames
  <2> QED
    BY <2>4 DEF K
<1>3. a2 \in Within(n2)
        /\ <<"runs", "run">> \in WriteProvides(a2)
  <2> DEFINE K == n2
  <2>1. References["runs"] = {"config_versions"}
    BY ReferencesRead DEF ProvenanceTables
  <2>2. \A p \in Site : p[1] \in References["runs"] => p \in K
    BY <2>1 DEF Site, n2
  <2>3. "runs" \in DOMAIN References
    BY Listed
  <2> HIDE DEF K
  <2>4. a2 \in Within(K) /\ <<"runs", "run">> \in WriteProvides(a2)
    BY <1>1, <2>2, <2>3, Identities, RowNames
  <2> QED
    BY <2>4 DEF K
<1>4. a3 \in Within({})
        /\ <<"states", "IDLE">> \in WriteProvides(a3)
  <2> DEFINE K == {}
  <2>1. References["states"] = {}
    BY ReferencesRead DEF VocabularyTables
  <2>2. \A p \in Site : p[1] \in References["states"] => p \in K
    BY <2>1 DEF Site
  <2>3. "states" \in DOMAIN References
    BY Listed
  <2> HIDE DEF K
  <2>4. a3 \in Within(K) /\ <<"states", "IDLE">> \in WriteProvides(a3)
    BY <1>1, <2>2, <2>3, Identities, RowNames
  <2> QED
    BY <2>4 DEF K
<1> HIDE DEF a1, a2, a3, n2
<1>5. ws \in Seq(Writes) /\ Len(ws) = 3
  BY <1>2, <1>3, <1>4 DEF Within
<1>6. ws[1] = a1 /\ ws[2] = a2 /\ ws[3] = a3
  OBVIOUS
<1> HIDE DEF ws
<1> DEFINE Given(i) == UNION {WriteProvides(ws[j]) : j \in 1..i}
<1>7. /\ ws[1] \in Within(Given(0))
      /\ ws[2] \in Within(Given(1))
      /\ ws[3] \in Within(Given(2))
  <2>1. ws[1] \in Within(Given(0))
    <3> HIDE DEF Given
    <3> QED
      BY <1>2, <1>6, WithinMore
  <2>2. ws[2] \in Within(Given(1))
    <3>1. n2 \subseteq Given(1)
      <4>1. 1 \in 1..1
        OBVIOUS
      <4> QED
        BY <1>2, <1>6, <4>1 DEF n2
    <3> HIDE DEF Given
    <3> QED
      BY <1>3, <1>6, <3>1, WithinMore
  <2>3. ws[3] \in Within(Given(2))
    <3> HIDE DEF Given
    <3> QED
      BY <1>4, <1>6, WithinMore
  <2> QED
    BY <2>1, <2>2, <2>3
<1>8. TopologyStart = ws
  BY DEF TopologyStart, ws, a1, a2, a3
<1>9. Founding({}, ws) /\ ws \in Handlers
  <2>1. \A i \in 1..3 : ws[i] \in Within(Given(i - 1))
    <3> HIDE DEF Given
    <3>1. \A i \in 1..3 : i = 1 \/ i = 2 \/ i = 3
      OBVIOUS
    <3> QED
      BY <1>7, <3>1
  <2> QED
    BY <1>5, <2>1 DEF Founding, Handlers, Within
<1>10. \A i \in 1..3 : WriteProvides(ws[i]) \subseteq AllProvides(ws)
  BY <1>5 DEF AllProvides
<1> QED
  BY <1>2, <1>3, <1>4, <1>6, <1>8, <1>9, <1>10

TopologyRest ==
  <<Direct(Row("equipment_classes", "press", "", Site)),
    Direct(Row("plants", "plant", "", Site)),
    Direct(Row("units", "compression", "", There)),
    Direct(Row("employees", "operator", "", There)),
    Direct(Row("products", "tablet", "", Site)),
    Direct(Row("shifts", "morning", "", Site)),
    Direct(Row("machines", "TP-001", "", There)),
    Direct(Row("sensors", "TP-001:force", "", There)),
    Direct(Row("plc_tags", "TP-001:force", "", There)),
    FlushNow>>

\* The plant, each row after those it names.
LEMMA TopologyRestFounded ==
  /\ TopologyRest \in Handlers /\ Founding({}, TopologyRest)
  /\ {<<"equipment_classes", "press">>, <<"plants", "plant">>, <<"units",
      "compression">>, <<"employees", "operator">>, <<"products", "tablet">>,
      <<"shifts", "morning">>, <<"machines", "TP-001">>, <<"sensors", "TP-001:force">>,
      <<"plc_tags", "TP-001:force">>}
       \subseteq AllProvides(TopologyRest)
<1> DEFINE a1 == Direct(Row("equipment_classes", "press", "", Site))
           a2 == Direct(Row("plants", "plant", "", Site))
           a3 == Direct(Row("units", "compression", "", There))
           a4 == Direct(Row("employees", "operator", "", There))
           a5 == Direct(Row("products", "tablet", "", Site))
           a6 == Direct(Row("shifts", "morning", "", Site))
           a7 == Direct(Row("machines", "TP-001", "", There))
           a8 == Direct(Row("sensors", "TP-001:force", "", There))
           a9 == Direct(Row("plc_tags", "TP-001:force", "", There))
           a10 == FlushNow
           n3 == {<<"plants", "plant">>}
           n4 == {<<"plants", "plant">>, <<"units", "compression">>}
           n7 == {<<"units", "compression">>, <<"plants", "plant">>, <<"equipment_classes", "press">>}
           n8 == {<<"machines", "TP-001">>, <<"units", "compression">>, <<"plants", "plant">>}
           n9 == {<<"machines", "TP-001">>}
           ws == <<a1, a2, a3, a4, a5, a6, a7, a8, a9, a10>>
<1>1. /\ \A w \in {"press", "plant", "compression", "operator", "tablet", "morning", "TP-001",
            "TP-001:force"} : w \in Keys
      /\ \A w \in {"", "started"} : w \in Versions
  BY DEF Keys, Subjects, Versions, Words
<1>2. a1 \in Within({})
        /\ <<"equipment_classes", "press">> \in WriteProvides(a1)
  <2> DEFINE K == {}
  <2>1. References["equipment_classes"] = {}
    BY ReferencesRead DEF VocabularyTables
  <2>2. \A p \in Site : p[1] \in References["equipment_classes"] => p \in K
    BY <2>1 DEF Site
  <2>3. "equipment_classes" \in DOMAIN References
    BY Listed
  <2> HIDE DEF K
  <2>4. a1 \in Within(K) /\ <<"equipment_classes", "press">> \in WriteProvides(a1)
    BY <1>1, <2>2, <2>3, Identities, RowNames
  <2> QED
    BY <2>4 DEF K
<1>3. a2 \in Within({})
        /\ <<"plants", "plant">> \in WriteProvides(a2)
  <2> DEFINE K == {}
  <2>1. References["plants"] = {}
    BY ReferencesRead DEF PlantTables
  <2>2. \A p \in Site : p[1] \in References["plants"] => p \in K
    BY <2>1 DEF Site
  <2>3. "plants" \in DOMAIN References
    BY Listed
  <2> HIDE DEF K
  <2>4. a2 \in Within(K) /\ <<"plants", "plant">> \in WriteProvides(a2)
    BY <1>1, <2>2, <2>3, Identities, RowNames
  <2> QED
    BY <2>4 DEF K
<1>4. a3 \in Within(n3)
        /\ <<"units", "compression">> \in WriteProvides(a3)
  <2> DEFINE K == n3
  <2>1. References["units"] = {"plants"}
    BY ReferencesRead DEF PlantTables
  <2>2. \A p \in There : p[1] \in References["units"] => p \in K
    BY <2>1 DEF Site, There, n3
  <2>3. "units" \in DOMAIN References
    BY Listed
  <2> HIDE DEF K
  <2>4. a3 \in Within(K) /\ <<"units", "compression">> \in WriteProvides(a3)
    BY <1>1, <2>2, <2>3, Identities, RowNames
  <2> QED
    BY <2>4 DEF K
<1>5. a4 \in Within(n4)
        /\ <<"employees", "operator">> \in WriteProvides(a4)
  <2> DEFINE K == n4
  <2>1. References["employees"] = {"plants", "units"}
    BY ReferencesRead DEF PlantTables
  <2>2. \A p \in There : p[1] \in References["employees"] => p \in K
    BY <2>1 DEF Site, There, n4
  <2>3. "employees" \in DOMAIN References
    BY Listed
  <2> HIDE DEF K
  <2>4. a4 \in Within(K) /\ <<"employees", "operator">> \in WriteProvides(a4)
    BY <1>1, <2>2, <2>3, Identities, RowNames
  <2> QED
    BY <2>4 DEF K
<1>6. a5 \in Within({})
        /\ <<"products", "tablet">> \in WriteProvides(a5)
  <2> DEFINE K == {}
  <2>1. References["products"] = {}
    BY ReferencesRead DEF CatalogueTables
  <2>2. \A p \in Site : p[1] \in References["products"] => p \in K
    BY <2>1 DEF Site
  <2>3. "products" \in DOMAIN References
    BY Listed
  <2> HIDE DEF K
  <2>4. a5 \in Within(K) /\ <<"products", "tablet">> \in WriteProvides(a5)
    BY <1>1, <2>2, <2>3, Identities, RowNames
  <2> QED
    BY <2>4 DEF K
<1>7. a6 \in Within({})
        /\ <<"shifts", "morning">> \in WriteProvides(a6)
  <2> DEFINE K == {}
  <2>1. References["shifts"] = {}
    BY ReferencesRead DEF CatalogueTables
  <2>2. \A p \in Site : p[1] \in References["shifts"] => p \in K
    BY <2>1 DEF Site
  <2>3. "shifts" \in DOMAIN References
    BY Listed
  <2> HIDE DEF K
  <2>4. a6 \in Within(K) /\ <<"shifts", "morning">> \in WriteProvides(a6)
    BY <1>1, <2>2, <2>3, Identities, RowNames
  <2> QED
    BY <2>4 DEF K
<1>8. a7 \in Within(n7)
        /\ <<"machines", "TP-001">> \in WriteProvides(a7)
  <2> DEFINE K == n7
  <2>1. References["machines"] = {"units", "plants", "equipment_classes"}
    BY ReferencesRead DEF PlantTables
  <2>2. \A p \in There : p[1] \in References["machines"] => p \in K
    BY <2>1 DEF Site, There, n7
  <2>3. "machines" \in DOMAIN References
    BY Listed
  <2> HIDE DEF K
  <2>4. a7 \in Within(K) /\ <<"machines", "TP-001">> \in WriteProvides(a7)
    BY <1>1, <2>2, <2>3, Identities, RowNames
  <2> QED
    BY <2>4 DEF K
<1>9. a8 \in Within(n8)
        /\ <<"sensors", "TP-001:force">> \in WriteProvides(a8)
  <2> DEFINE K == n8
  <2>1. References["sensors"] = {"machines", "units", "plants"}
    BY ReferencesRead DEF PlantTables
  <2>2. \A p \in There : p[1] \in References["sensors"] => p \in K
    BY <2>1 DEF Site, There, n8
  <2>3. "sensors" \in DOMAIN References
    BY Listed
  <2> HIDE DEF K
  <2>4. a8 \in Within(K) /\ <<"sensors", "TP-001:force">> \in WriteProvides(a8)
    BY <1>1, <2>2, <2>3, Identities, RowNames
  <2> QED
    BY <2>4 DEF K
<1>10. a9 \in Within(n9)
        /\ <<"plc_tags", "TP-001:force">> \in WriteProvides(a9)
  <2> DEFINE K == n9
  <2>1. References["plc_tags"] = {"machines"}
    BY ReferencesRead DEF PlantTables
  <2>2. \A p \in There : p[1] \in References["plc_tags"] => p \in K
    BY <2>1 DEF Site, There, n9
  <2>3. "plc_tags" \in DOMAIN References
    BY Listed
  <2> HIDE DEF K
  <2>4. a9 \in Within(K) /\ <<"plc_tags", "TP-001:force">> \in WriteProvides(a9)
    BY <1>1, <2>2, <2>3, Identities, RowNames
  <2> QED
    BY <2>4 DEF K
<1>11. a10 \in Within({})
  BY FlushNowIs
<1> HIDE DEF a1, a2, a3, a4, a5, a6, a7, a8, a9, a10, n3, n4, n7, n8, n9
<1>12. ws \in Seq(Writes) /\ Len(ws) = 10
  BY <1>2, <1>3, <1>4, <1>5, <1>6, <1>7, <1>8, <1>9, <1>10, <1>11 DEF Within
<1>13. ws[1] = a1 /\ ws[2] = a2 /\ ws[3] = a3 /\ ws[4] = a4 /\ ws[5] = a5 /\ ws[6] = a6
      /\ ws[7] = a7 /\ ws[8] = a8 /\ ws[9] = a9 /\ ws[10] = a10
  OBVIOUS
<1> HIDE DEF ws
<1> DEFINE Given(i) == UNION {WriteProvides(ws[j]) : j \in 1..i}
<1>14. /\ ws[1] \in Within(Given(0))
      /\ ws[2] \in Within(Given(1))
      /\ ws[3] \in Within(Given(2))
      /\ ws[4] \in Within(Given(3))
      /\ ws[5] \in Within(Given(4))
      /\ ws[6] \in Within(Given(5))
      /\ ws[7] \in Within(Given(6))
      /\ ws[8] \in Within(Given(7))
      /\ ws[9] \in Within(Given(8))
      /\ ws[10] \in Within(Given(9))
  <2>1. ws[1] \in Within(Given(0))
    <3> HIDE DEF Given
    <3> QED
      BY <1>2, <1>13, WithinMore
  <2>2. ws[2] \in Within(Given(1))
    <3> HIDE DEF Given
    <3> QED
      BY <1>3, <1>13, WithinMore
  <2>3. ws[3] \in Within(Given(2))
    <3>1. n3 \subseteq Given(2)
      <4>1. 2 \in 1..2
        OBVIOUS
      <4> QED
        BY <1>3, <1>13, <4>1 DEF n3
    <3> HIDE DEF Given
    <3> QED
      BY <1>4, <1>13, <3>1, WithinMore
  <2>4. ws[4] \in Within(Given(3))
    <3>1. n4 \subseteq Given(3)
      <4>1. 2 \in 1..3 /\ 3 \in 1..3
        OBVIOUS
      <4> QED
        BY <1>3, <1>4, <1>13, <4>1 DEF n4
    <3> HIDE DEF Given
    <3> QED
      BY <1>5, <1>13, <3>1, WithinMore
  <2>5. ws[5] \in Within(Given(4))
    <3> HIDE DEF Given
    <3> QED
      BY <1>6, <1>13, WithinMore
  <2>6. ws[6] \in Within(Given(5))
    <3> HIDE DEF Given
    <3> QED
      BY <1>7, <1>13, WithinMore
  <2>7. ws[7] \in Within(Given(6))
    <3>1. n7 \subseteq Given(6)
      <4>1. 3 \in 1..6 /\ 2 \in 1..6 /\ 1 \in 1..6
        OBVIOUS
      <4> QED
        BY <1>4, <1>3, <1>2, <1>13, <4>1 DEF n7
    <3> HIDE DEF Given
    <3> QED
      BY <1>8, <1>13, <3>1, WithinMore
  <2>8. ws[8] \in Within(Given(7))
    <3>1. n8 \subseteq Given(7)
      <4>1. 7 \in 1..7 /\ 3 \in 1..7 /\ 2 \in 1..7
        OBVIOUS
      <4> QED
        BY <1>8, <1>4, <1>3, <1>13, <4>1 DEF n8
    <3> HIDE DEF Given
    <3> QED
      BY <1>9, <1>13, <3>1, WithinMore
  <2>9. ws[9] \in Within(Given(8))
    <3>1. n9 \subseteq Given(8)
      <4>1. 7 \in 1..8
        OBVIOUS
      <4> QED
        BY <1>8, <1>13, <4>1 DEF n9
    <3> HIDE DEF Given
    <3> QED
      BY <1>10, <1>13, <3>1, WithinMore
  <2>10. ws[10] \in Within(Given(9))
    <3> HIDE DEF Given
    <3> QED
      BY <1>11, <1>13, WithinMore
  <2> QED
    BY <2>1, <2>2, <2>3, <2>4, <2>5, <2>6, <2>7, <2>8, <2>9, <2>10
<1>15. TopologyRest = ws
  BY DEF TopologyRest, ws, a1, a2, a3, a4, a5, a6, a7, a8, a9, a10
<1>16. Founding({}, ws) /\ ws \in Handlers
  <2>1. \A i \in 1..10 : ws[i] \in Within(Given(i - 1))
    <3> HIDE DEF Given
    <3>1. \A i \in 1..10 : i = 1 \/ i = 2 \/ i = 3 \/ i = 4 \/ i = 5 \/ i = 6 \/ i = 7 \/ i = 8 \/ i = 9
          \/ i = 10
      OBVIOUS
    <3> QED
      BY <1>14, <3>1
  <2> QED
    BY <1>12, <2>1 DEF Founding, Handlers, Within
<1>17. \A i \in 1..10 : WriteProvides(ws[i]) \subseteq AllProvides(ws)
  BY <1>12 DEF AllProvides
<1> QED
  BY <1>2, <1>3, <1>4, <1>5, <1>6, <1>7, <1>8, <1>9, <1>10, <1>13, <1>15, <1>16, <1>17

TopologyTypes ==
  [i \in 1..Len(EventTypes) |-> Direct(Row("event_types", EventTypes[i], "", Site))]

\* The vocabulary of the events.
LEMMA TopologyTypesFounded ==
  /\ TopologyTypes \in Handlers /\ \A K : Founding(K, TopologyTypes)
  /\ \A type \in Types : <<"event_types", type>> \in AllProvides(TopologyTypes)
<1> DEFINE n == Len(EventTypes)
           Typed(i) == Direct(Row("event_types", EventTypes[i], "", Site))
<1>1. \A i \in 1..n : EventTypes[i] \in Keys
  BY DEF Keys, Subjects, Words
<1>2. References["event_types"] = {} /\ "" \in Versions
  BY ReferencesRead DEF VocabularyTables, Versions, Words
<1>3. \A i \in 1..n : /\ Typed(i) \in Within({})
                      /\ <<"event_types", EventTypes[i]>> \in WriteProvides(Typed(i))
  <2>1. "event_types" \in DOMAIN References
    BY Listed
  <2>2. \A p \in Site : p[1] \in References["event_types"] => p \in {}
    BY <1>2
  <2> QED
    BY <1>1, <1>2, <2>1, <2>2, Identities, RowNames
<1>4. n \in Nat
  BY TypesRead
<1>5. TopologyTypes = [i \in 1..n |-> Typed(i)]
  BY DEF TopologyTypes
<1> HIDE DEF Typed, n
<1> DEFINE W == Within({})
<1>6. \A i \in 1..n : Typed(i) \in W
  BY <1>3
<1> HIDE DEF W
<1>7. /\ TopologyTypes \in Seq(W) /\ Len(TopologyTypes) = n
      /\ \A i \in 1..n : TopologyTypes[i] = Typed(i)
  BY <1>4, <1>5, <1>6
<1>8. TopologyTypes \in Handlers /\ \A K : Founding(K, TopologyTypes)
  BY <1>7, HandlerWithin DEF W
<1>9. \A type \in Types : <<"event_types", type>> \in AllProvides(TopologyTypes)
  BY <1>3, <1>7 DEF Types, AllProvides, n
<1> QED
  BY <1>8, <1>9

\* Knowing more does no harm.
LEMMA FoundingMore ==
  ASSUME NEW K, NEW M, K \subseteq M, NEW ws, Founding(K, ws)
  PROVE  Founding(M, ws)
BY DEF Founding

\* One handler after another, from nothing.
LEMMA FoundedAfter ==
  ASSUME NEW a \in Handlers, NEW b \in Handlers, Founding({}, a), Founding(AllProvides(a), b)
  PROVE  /\ a \o b \in Handlers /\ Founding({}, a \o b)
         /\ AllProvides(a \o b) = AllProvides(a) \cup AllProvides(b)
<1> DEFINE K == {}
           M == AllProvides(a)
<1>1. Founding(K, a) /\ Founding(M, b) /\ K \cup M = M
  OBVIOUS
<1> HIDE DEF K
<1>2. Founding(K \cup AllProvides(a), b)
  BY <1>1
<1> HIDE DEF M
<1>3. /\ a \o b \in Handlers /\ Founding(K, a \o b)
      /\ AllProvides(a \o b) = AllProvides(a) \cup AllProvides(b)
  BY <1>1, <1>2, FoundingConcat
<1> QED
  BY <1>3 DEF K

\* The first run() is founded on nothing, and provides every dimension.
LEMMA RunFounded ==
  LET ws == PersistTopology \o <<Persist("SIMULATION_STARTED", 1, None, Site)>>
  IN  ws \in Handlers /\ Founding({}, ws) /\ Dimensions \subseteq AllProvides(ws)
<1> DEFINE a == TopologyStart
           b == TopologyTypes
           c == TopologyRest
           w == Persist("SIMULATION_STARTED", 1, None, Site)
           e == <<w>>
           ab == a \o b
           abc == ab \o c
<1>1. PersistTopology = abc
  BY DEF PersistTopology, TopologyStart, TopologyTypes, TopologyRest
<1>2. a \in Handlers /\ Founding({}, a) /\ b \in Handlers /\ Founding(AllProvides(a), b)
      /\ c \in Handlers /\ Founding({}, c)
  BY TopologyStartFounded, TopologyTypesFounded, TopologyRestFounded
<1>3. Founding(AllProvides(ab), c)
  BY <1>2, FoundingMore
<1>4. /\ ab \in Handlers /\ Founding({}, ab)
      /\ AllProvides(ab) = AllProvides(a) \cup AllProvides(b)
  BY <1>2, FoundedAfter
<1> HIDE DEF ab
<1>5. /\ abc \in Handlers /\ Founding({}, abc)
      /\ AllProvides(abc) = AllProvides(ab) \cup AllProvides(c)
  BY <1>2, <1>3, <1>4, FoundedAfter
<1>6. Dimensions \subseteq AllProvides(abc)
  BY <1>4, <1>5, TopologyStartFounded, TopologyTypesFounded, TopologyRestFounded
     DEF Dimensions, There, Site, Staff
<1> HIDE DEF a, b, c, abc
<1>7. e \in Seq(Within(AllProvides(abc)))
  <2> DEFINE K == AllProvides(abc)
  <2>1. Site \in SUBSET Ids /\ Site \subseteq K /\ 1 \in Subjects
    BY <1>6, Identities DEF Subjects
  <2>2. "SIMULATION_STARTED" \in Types /\ None \in {None, "employee_events", "machine_events"}
    BY TypesRead
  <2> HIDE DEF K
  <2>3. w \in Within(K)
    BY <1>6, <2>1, <2>2, PersistOf DEF K
  <2> HIDE DEF w
  <2> QED
    BY <2>3 DEF K
<1> HIDE DEF e
<1>8. e \in Handlers /\ Founding(AllProvides(abc), e)
  BY <1>7, HandlerWithin
<1>9. /\ abc \o e \in Handlers /\ Founding({}, abc \o e)
      /\ AllProvides(abc \o e) = AllProvides(abc) \cup AllProvides(e)
  BY <1>5, <1>8, FoundedAfter
<1> QED
  BY <1>1, <1>6, <1>9 DEF e, w
-----------------------------------------------------------------------------
\* The invariant.

Truths == [onset : Nat, due : Nat, faulted : Nat, averted : Nat, resolved : Nat]

PlantType ==
  /\ call \in Nat /\ finishes \in Nat /\ now \in Nat
  /\ batch \in [Batches -> {None, "active", "done"}]
  /\ truth \in [Episodes -> Truths]
  /\ deviation \in [Deviations -> {None, "OPEN", "INVESTIGATION", "CAPA_PENDING"}]
  /\ moves \in [made : Nat, persisted : Nat] /\ moves.persisted <= moves.made

\* No exception is on its way out.
Calm(e) == Kept(e) /\ ~ e.raised

\* No transaction was ever lost with an outage.
Trusted(e, n) == n = 0 \/ e.backend = "sqlite"

\* The rows that later ones may name.
Standing ==
  Dimensions
  \cup (IF shift = None THEN {} ELSE Open)
  \cup {<<"batches", b>> : b \in {c \in Batches : batch[c] # None}}
  \cup {<<"deviations", v>> : v \in {u \in Deviations : deviation[u] # None}}
  \cup {<<"rca", v>> : v \in {u \in Deviations : deviation[u] = "CAPA_PENDING"}}

\* What is true of the stores between two handlers.
StoresInv ==
  /\ Calm(d)
  /\ Trusted(d, outages) => Sound(d)
  /\ outages = 0 => d.failed = {} /\ d.fuse = 0

\* The files and tables of a closed run.
Complete(e) ==
  /\ e.handed \subseteq e.committed \cup e.lost
  /\ \A t \in FileTables : RowsOf(e.file, t) = RowsOf(e.appended, t)

StorageInv ==
  /\ PlantType /\ StoresInv /\ outages \in Nat
  /\ phase \in {"new", "running", "finished", "closed", "crashed"}
  /\ phase = "new" <=> call = 0
  /\ call = 0 => /\ shift = None
                 /\ \A b \in Batches : batch[b] = None
                 /\ \A v \in Deviations : deviation[v] = None
  /\ phase \in {"running", "finished"} /\ Trusted(d, outages) => Standing \subseteq Known(d)
  /\ phase = "closed" => Complete(d)

\* A handler under way: its stores stay sound, and what it provides is known.
LEMMA Handled ==
  ASSUME StoresInv, outages \in Nat, NEW ws \in Handlers, NEW next, Handle(ws, next), NEW K,
         Trusted(d, outages) => K \subseteq Known(d), Founding(K, ws)
  PROVE  /\ StoresInv' /\ outages' \in Nat /\ phase' \in {"crashed", next}
         /\ Trusted(d, outages)' =>
               /\ Trusted(d, outages) /\ Known(d) \subseteq Known(d')
               /\ phase' # "crashed" => AllProvides(ws) \subseteq Known(d')
<1>1. PICK fuse \in IF outages < session.outages THEN Fuses \cup {0} ELSE {0},
           cut \in IF outages < session.outages /\ d.backend = "postgres" THEN BOOLEAN ELSE {FALSE} :
              LET e == Perform([d EXCEPT !.fuse = fuse, !.cut = cut, !.aborted = {}], ws)
              IN  /\ fuse > 0 => e.fuse = 0
                  /\ outages' = outages + (IF fuse > 0 THEN 1 ELSE 0)
                  /\ d' = [e EXCEPT !.raised = FALSE, !.fuse = 0, !.cut = FALSE]
                  /\ phase' = IF e.raised THEN "crashed" ELSE next
  BY DEF Handle
<1> DEFINE b == [d EXCEPT !.fuse = fuse, !.cut = cut, !.aborted = {}]
           e == Perform(b, ws)
<1>2. fuse \in Nat /\ cut \in BOOLEAN /\ (cut => d.backend = "postgres")
  <2>1. Fuses \cup {0} \subseteq Nat
    BY OutageAssumption
  <2>2. fuse \in Nat
    BY <2>1
  <2>3. cut \in BOOLEAN
    OBVIOUS
  <2>4. cut => d.backend = "postgres"
    OBVIOUS
  <2> QED
    BY <2>2, <2>3, <2>4
<1>3. d \in StoreType /\ Kept(d) /\ ~ d.raised
  BY DEF StoresInv, Calm, Kept
<1>4. /\ b \in StoreType /\ b.raised = d.raised /\ b.fuse = fuse /\ b.cut = cut
      /\ b.buffer = d.buffer /\ b.stored = d.stored /\ b.lost = d.lost
      /\ b.failed = d.failed /\ b.broken = d.broken /\ b.backend = d.backend
      /\ b.handed = d.handed /\ b.appended = d.appended /\ b.file = d.file
      /\ b.chunks = d.chunks /\ b.telemetry = d.telemetry /\ b.evaluation = d.evaluation
  BY <1>2, <1>3 DEF StoreType
<1>5. /\ outages' = outages + (IF fuse > 0 THEN 1 ELSE 0)
      /\ d' = [e EXCEPT !.raised = FALSE, !.fuse = 0, !.cut = FALSE]
      /\ phase' = IF e.raised THEN "crashed" ELSE next
  BY <1>1
<1> HIDE DEF b
<1>6. Kept(b)
  BY <1>3, <1>4 DEF Kept, RowsKept, FileKept, Passed, Waiting
<1>7. Kept(e) /\ e.backend = b.backend
  BY <1>6, PerformKeeps
<1>8. ASSUME Trusted(d, outages)'
      PROVE  /\ Trusted(d, outages) /\ Sound(b) /\ Known(b) = Known(d)
             /\ outages' = 0 => fuse = 0 /\ b.failed = {}
  <2>1. d'.backend = e.backend
    BY <1>5, <1>7 DEF Kept, StoreType
  <2>2. Trusted(d, outages) /\ (outages' = 0 => outages = 0 /\ fuse = 0)
    BY <1>2, <1>4, <1>5, <1>7, <1>8, <2>1 DEF Trusted
  <2>3. Known(b) = Known(d)
    BY <1>4 DEF Known
  <2>4. Sound(d)
    BY <2>2 DEF StoresInv
  <2>5. outages = 0 => d.failed = {}
    BY DEF StoresInv
  <2>6. d.backend = "sqlite" \/ (fuse = 0 /\ d.failed = {})
    BY <1>4, <1>7, <1>8, <2>1, <2>2, <2>5 DEF Trusted
  <2>7. Reliable(b)
    BY <1>2, <1>4, <2>4, <2>6 DEF Sound, Reliable
  <2>8. Sound(b)
    BY <1>4, <2>3, <2>4, <2>7 DEF Sound, LostDescend
  <2> QED
    BY <1>4, <2>2, <2>3, <2>5, <2>8
<1>9. ASSUME Trusted(d, outages)'
      PROVE  /\ Progress(b, e)
             /\ ~ e.raised => AllProvides(ws) \subseteq Known(e)
  <2>1. K \subseteq Known(b) /\ Sound(b)
    BY <1>8, <1>9
  <2>2. Founding(Known(b), ws)
    BY <2>1, FoundingMore
  <2>3. /\ Progress(b, e)
        /\ ~ e.raised => \A i \in 1..Len(ws) : WriteProvides(ws[i]) \subseteq Known(e)
    BY <1>3, <1>4, <1>6, <2>1, <2>2, PerformProgress
  <2> QED
    BY <2>3 DEF AllProvides
<1> HIDE DEF e
<1> DEFINE h == [e EXCEPT !.raised = FALSE, !.fuse = 0, !.cut = FALSE]
<1>10. /\ h \in StoreType /\ ~ h.raised /\ h.fuse = 0 /\ ~ h.cut
       /\ h.buffer = e.buffer /\ h.stored = e.stored /\ h.lost = e.lost
       /\ h.failed = e.failed /\ h.broken = e.broken /\ h.backend = e.backend
       /\ h.handed = e.handed /\ h.appended = e.appended /\ h.file = e.file
       /\ h.chunks = e.chunks /\ h.telemetry = e.telemetry /\ h.evaluation = e.evaluation
  BY <1>7 DEF Kept, StoreType
<1>11. d' = h
  BY <1>5
<1> HIDE DEF h
<1>12. Calm(h)
  BY <1>7, <1>10 DEF Calm, Kept, RowsKept, FileKept, Passed, Waiting
<1>13. ASSUME Trusted(d, outages)' PROVE Sound(h) /\ Known(h) = Known(e)
  <2>1. Known(h) = Known(e)
    BY <1>10 DEF Known
  <2>2. Sound(e)
    BY <1>9, <1>13 DEF Progress
  <2>3. Reliable(h)
    BY <1>10, <2>2 DEF Sound, Reliable
  <2> QED
    BY <1>10, <2>1, <2>2, <2>3 DEF Sound, LostDescend
<1>14. outages' = 0 => h.failed = {} /\ h.fuse = 0
  <2>1. ASSUME outages' = 0 PROVE h.failed = {} /\ h.fuse = 0
    <3>1. Trusted(d, outages)'
      BY <2>1 DEF Trusted
    <3>2. fuse = 0 /\ b.failed = {}
      BY <1>8, <2>1, <3>1
    <3>3. e.failed = b.failed
      BY <1>4, <1>9, <3>1, <3>2 DEF Progress, Steady
    <3> QED
      BY <1>10, <3>2, <3>3
  <2> QED
    BY <2>1
<1>15. StoresInv'
  BY <1>11, <1>12, <1>13, <1>14 DEF StoresInv
<1>16. outages' \in Nat /\ phase' \in {"crashed", next}
  BY <1>5
<1>17. ASSUME Trusted(d, outages)'
       PROVE  /\ Trusted(d, outages) /\ Known(d) \subseteq Known(d')
              /\ phase' # "crashed" => AllProvides(ws) \subseteq Known(d')
  <2>1. Known(d) \subseteq Known(h)
    BY <1>8, <1>9, <1>13, <1>17 DEF Progress
  <2>2. phase' # "crashed" => AllProvides(ws) \subseteq Known(h)
    BY <1>5, <1>9, <1>13, <1>17
  <2> QED
    BY <1>8, <1>11, <1>17, <2>1, <2>2
<1> QED
  BY <1>15, <1>16, <1>17

-----------------------------------------------------------------------------
\* One step at a time.

\* A handler that knows K, and after which all that stands is known.
LEMMA Advance ==
  ASSUME StorageInv, NEW ws \in Handlers, NEW next \in {"running", "finished"},
         Handle(ws, next), NEW K, Founding(K, ws),
         Trusted(d, outages) => K \subseteq Known(d),
         PlantType', call' # 0, Standing' \subseteq K \cup AllProvides(ws)
  PROVE  StorageInv'
<1>1. StoresInv /\ outages \in Nat
  BY DEF StorageInv
<1>2. /\ StoresInv' /\ outages' \in Nat /\ phase' \in {"crashed", next}
      /\ Trusted(d, outages)' =>
            /\ Trusted(d, outages) /\ Known(d) \subseteq Known(d')
            /\ phase' # "crashed" => AllProvides(ws) \subseteq Known(d')
  BY <1>1, Handled
<1>3. ASSUME Trusted(d, outages)', phase' # "crashed" PROVE Standing' \subseteq Known(d')
  BY <1>2, <1>3
<1>4. (phase \in {"running", "finished"} /\ Trusted(d, outages) => Standing \subseteq Known(d))'
  BY <1>3
<1> QED
  BY <1>2, <1>4 DEF StorageInv

\* A handler of the simulation, or of a finish() after it.
LEMMA Acting ==
  ASSUME StorageInv, phase \in {"running", "finished"}, NEW ws \in Handlers,
         NEW next \in {"running", "finished"}, Handle(ws, next), Founding(Standing, ws),
         PlantType', call' = call, Standing' \subseteq Standing \cup AllProvides(ws)
  PROVE  StorageInv'
<1>1. (Trusted(d, outages) => Standing \subseteq Known(d)) /\ call' # 0
  BY DEF StorageInv
<1> DEFINE K == Standing
<1>2. /\ Trusted(d, outages) => K \subseteq Known(d)
      /\ Founding(K, ws) /\ Standing' \subseteq K \cup AllProvides(ws)
  BY <1>1
<1> HIDE DEF K
<1> QED
  BY <1>1, <1>2, Advance

\* One that adds nothing to what stands.
LEMMA Plain ==
  ASSUME StorageInv, phase \in {"running", "finished"}, NEW ws \in Seq(Within(Standing)),
         NEW next \in {"running", "finished"}, Handle(ws, next), PlantType', call' = call,
         Standing' = Standing
  PROVE  StorageInv'
<1>1. ws \in Handlers /\ Founding(Standing, ws)
  BY HandlerWithin
<1> QED
  BY <1>1, Acting

\* What stands changes with the shift, the batches and the deviations only.
LEMMA StandingKept ==
  ASSUME UNCHANGED <<shift, batch, deviation>>
  PROVE  Standing' = Standing
BY DEF Standing

\* What a handler may name while the simulation runs.
LEMMA StandingRead ==
  /\ Dimensions \subseteq Standing /\ Site \subseteq Standing /\ There \subseteq Standing
  /\ Staff \subseteq Standing
  /\ shift # None => Open \subseteq Standing
  /\ \A b \in Batches : batch[b] # None => Of(b) \subseteq Standing
  /\ \A v \in Deviations : /\ deviation[v] # None => <<"deviations", v>> \in Standing
                           /\ deviation[v] = "CAPA_PENDING" => <<"rca", v>> \in Standing
BY Identities DEF Standing, Of

\* Two lists of writes provide what either does.
LEMMA ProvidesConcat ==
  ASSUME NEW a \in Seq(Writes), NEW b \in Seq(Writes)
  PROVE  /\ a \o b \in Seq(Writes)
         /\ AllProvides(a) \subseteq AllProvides(a \o b)
         /\ AllProvides(b) \subseteq AllProvides(a \o b)
<1> DEFINE m == Len(a)
           n == Len(b)
           ws == a \o b
<1>1. /\ m \in Nat /\ n \in Nat /\ ws \in Seq(Writes) /\ Len(ws) = m + n
      /\ \A i \in 1..m : i \in 1..m + n /\ ws[i] = a[i]
      /\ \A i \in 1..n : m + i \in 1..m + n /\ ws[m + i] = b[i]
  OBVIOUS
<1>2. /\ AllProvides(a) = UNION {WriteProvides(a[i]) : i \in 1..m}
      /\ AllProvides(b) = UNION {WriteProvides(b[i]) : i \in 1..n}
      /\ AllProvides(ws) = UNION {WriteProvides(ws[i]) : i \in 1..m + n}
  BY <1>1 DEF AllProvides
<1> HIDE DEF m, n, ws
<1>3. AllProvides(a) \subseteq AllProvides(ws)
  BY <1>1, <1>2
<1>4. AllProvides(b) \subseteq AllProvides(ws)
  BY <1>1, <1>2
<1> QED
  BY <1>1, <1>3, <1>4 DEF ws

\* The stores of a new run.
LEMMA StorageInit ==
  ASSUME Init
  PROVE  StorageInv
<1>1. PICK backend \in Backends, limit \in FlushThresholds : d = NewStores(backend, limit)
  BY DEF Init
<1>2. backend \in {"sqlite", "postgres"} /\ limit \in Nat
  BY BackendAssumption, ThresholdAssumption
<1>3. /\ d \in StoreType /\ d.buffer = <<>> /\ d.telemetry = <<>> /\ d.evaluation = <<>>
      /\ d.chunks = <<>> /\ d.file = <<>> /\ d.appended = <<>> /\ d.handed = {}
      /\ d.lost = {} /\ d.failed = {} /\ d.fuse = 0 /\ ~ d.cut /\ ~ d.broken /\ ~ d.raised
  <2> DEFINE none == <<>>
             empty == {}
  <2>1. /\ none \in Seq(RelationalRows) /\ none \in Seq(Samples) /\ none \in Seq(LabelRows)
        /\ none \in Seq(AppendedRows) /\ empty \in SUBSET Contents /\ empty \in SUBSET Tables
    OBVIOUS
  <2>2. d = [buffer |-> none, pending |-> 0, telemetry |-> none, evaluation |-> none,
             chunks |-> none, file |-> none, stored |-> empty, committed |-> empty,
             backend |-> backend, limit |-> limit,
             broken |-> FALSE, raised |-> FALSE, fuse |-> 0, cut |-> FALSE, aborted |-> empty,
             lost |-> empty, failed |-> empty, handed |-> empty, appended |-> none]
    BY <1>1 DEF NewStores
  <2> HIDE DEF none, empty
  <2> QED
    BY <1>2, <2>1, <2>2 DEF StoreType, none, empty
<1>4. Kept(d)
  <2>1. RowsKept(d)
    BY <1>3 DEF RowsKept
  <2>2. ASSUME NEW t PROVE FileKept(d, t)
    <3> DEFINE none == <<>>
    <3>1. RowsOf(none, t) = none
      BY RowsInNone DEF RowsOf
    <3>2. none \o none = none
      OBVIOUS
    <3> QED
      BY <1>3, <3>1, <3>2 DEF FileKept, Passed, Waiting
  <2> QED
    BY <1>3, <2>1, <2>2 DEF Kept
<1>5. Sound(d)
  BY <1>3 DEF Sound, Reliable, LostDescend, Elements
<1>6. PlantType
  BY DEF Init, PlantType, NoTruth, Truths
<1> QED
  BY <1>3, <1>4, <1>5, <1>6 DEF Init, StorageInv, StoresInv, Calm

\* Closing refuses nothing.
LEMMA CloseProgress ==
  ASSUME NEW e, Sound(e), Kept(e), ~ e.raised
  PROVE  Progress(e, Close(e))
<1> DEFINE h == Flush(e)
           f == Commit(h)
<1>1. Progress(e, h)
  BY FlushProgress
<1>2. Close(e) = IF h.raised THEN h ELSE f
  BY DEF Close
<1> HIDE DEF h
<1>3. h \in StoreType /\ ~ h.broken
  BY <1>1 DEF Progress, Sound, Reliable
<1>4. f = [h EXCEPT !.committed = h.stored]
  BY <1>3 DEF Commit
<1>5. f \in StoreType /\ Aside(h, f)
  BY <1>3, <1>4 DEF StoreType, Aside
<1> HIDE DEF f
<1>6. Progress(h, f)
  BY <1>1, <1>5, AsideSound DEF Progress
<1>7. Progress(e, f)
  BY <1>1, <1>6, ProgressOn
<1> QED
  BY <1>1, <1>2, <1>7

\* The program closes the stores.
LEMMA StorageClose ==
  ASSUME StorageInv, CloseStores
  PROVE  StorageInv'
<1> DEFINE e == Close(d)
           h == [e EXCEPT !.raised = FALSE]
<1>1. /\ phase \in {"finished", "crashed"}
      /\ d' = h /\ phase' = IF e.raised THEN "crashed" ELSE "closed"
      /\ UNCHANGED <<call, finishes, now, shift, batch, truth, deviation, moves, outages>>
  BY DEF CloseStores, usage, plant
<1>2. Kept(d) /\ ~ d.raised /\ PlantType /\ outages \in Nat
  BY DEF StorageInv, StoresInv, Calm
<1>3. /\ Kept(e) /\ e.backend = d.backend
      /\ ~ e.raised => Complete(e)
  BY <1>2, CloseKeeps DEF Complete
<1>4. Trusted(d, outages) => Progress(d, e)
  BY <1>2, CloseProgress DEF StorageInv, StoresInv
<1> HIDE DEF e
<1>5. /\ h \in StoreType /\ ~ h.raised /\ h.fuse = e.fuse /\ h.cut = e.cut
      /\ h.buffer = e.buffer /\ h.stored = e.stored /\ h.lost = e.lost
      /\ h.committed = e.committed
      /\ h.failed = e.failed /\ h.broken = e.broken /\ h.backend = e.backend
      /\ h.handed = e.handed /\ h.appended = e.appended /\ h.file = e.file
      /\ h.chunks = e.chunks /\ h.telemetry = e.telemetry /\ h.evaluation = e.evaluation
  BY <1>3 DEF Kept, StoreType
<1> HIDE DEF h
<1>6. Calm(h)
  BY <1>3, <1>5 DEF Calm, Kept, RowsKept, FileKept, Passed, Waiting
<1>7. Trusted(d, outages)' => Trusted(d, outages)
  BY <1>1, <1>3, <1>5 DEF Trusted
<1>8. Trusted(d, outages) => Sound(h)
  <2>1. ASSUME Trusted(d, outages) PROVE Sound(h)
    <3>1. Sound(e)
      BY <1>4, <2>1 DEF Progress
    <3>2. Known(h) = Known(e)
      BY <1>5 DEF Known
    <3>3. Reliable(h)
      BY <1>5, <3>1 DEF Sound, Reliable
    <3> QED
      BY <1>5, <3>1, <3>2, <3>3 DEF Sound, LostDescend
  <2> QED
    BY <2>1
<1>9. outages = 0 => h.failed = {} /\ h.fuse = 0
  BY <1>4, <1>5 DEF StorageInv, StoresInv, Trusted, Progress, Steady
<1>10. ~ e.raised => Complete(h)
  BY <1>3, <1>5 DEF Complete
<1>11. StoresInv'
  BY <1>1, <1>6, <1>7, <1>8, <1>9 DEF StoresInv
<1>12. PlantType'
  BY <1>1, <1>2 DEF PlantType
<1>13. call # 0
  BY <1>1 DEF StorageInv
<1> QED
  BY <1>1, <1>2, <1>10, <1>11, <1>12, <1>13 DEF StorageInv

-----------------------------------------------------------------------------
\* The actions.

LEMMA Sayable ==
  /\ \A w \in Words : w \in Keys /\ w \in Versions /\ w \in Subjects
  /\ \A n \in Nat : n \in Keys /\ n \in Subjects
  /\ \A b \in Batches : b \in Keys /\ b \in Subjects
  /\ \A e \in Episodes : e \in Keys /\ e \in Subjects
  /\ \A v \in Deviations : v \in Keys /\ v \in Subjects
  /\ \A w \in {"", "started", "ended", "active", "done", "open", "resolved", "AVERTED",
               "FAULTED", "IN_PROGRESS", "OPEN", "INVESTIGATION", "CAPA_PENDING",
               "SI-1", "run", "TP-001", "ATT", "MACHINE", "UNIT", "PLANT", "SHIFT"} : w \in Words
  /\ TRUE \in Versions /\ FALSE \in Versions
  /\ None \in {None, "employee_events", "machine_events"}
BY DEF Keys, Versions, Subjects, Words

\* The first run() writes the topology; a later one finds it written.
LEMMA RunStep ==
  ASSUME StorageInv, Run
  PROVE  StorageInv'
<1>1. /\ phase \in {"new", "finished"} /\ call' = call + 1
      /\ UNCHANGED <<finishes, now, shift, batch, truth, deviation, moves>>
  BY DEF Run, plant
<1>2. PlantType' /\ call' # 0 /\ Standing' = Standing
  <2>1. PlantType
    BY DEF StorageInv
  <2>2. call \in Nat
    BY <2>1 DEF PlantType
  <2> QED
    BY <1>1, <2>1, <2>2, StandingKept DEF PlantType
<1>3. CASE call = 0
  <2> DEFINE ws == PersistTopology \o <<Persist("SIMULATION_STARTED", 1, None, Site)>>
             K == {}
             next == "running"
  <2>1. Handle(ws, next) /\ next \in {"running", "finished"}
    BY <1>3 DEF Run
  <2>2. ws \in Handlers /\ Founding(K, ws) /\ Dimensions \subseteq AllProvides(ws)
    BY RunFounded
  <2>3. Standing = Dimensions
    <3>1. shift = None /\ {c \in Batches : batch[c] # None} = {}
      BY <1>3 DEF StorageInv
    <3>2. /\ {u \in Deviations : deviation[u] # None} = {}
          /\ {u \in Deviations : deviation[u] = "CAPA_PENDING"} = {}
      BY <1>3 DEF StorageInv, None
    <3> QED
      BY <3>1, <3>2 DEF Standing
  <2>4. Standing' \subseteq K \cup AllProvides(ws) /\ K \subseteq Known(d)
    BY <1>2, <2>2, <2>3
  <2> HIDE DEF ws, K, next
  <2> QED
    BY <1>2, <2>1, <2>2, <2>4, Advance
<1>4. CASE call # 0
  <2>1. phase = "finished" /\ phase' = "running" /\ UNCHANGED <<d, outages>>
    BY <1>1, <1>4 DEF Run, StorageInv
  <2>2. StoresInv'
    BY <2>1 DEF StorageInv, StoresInv
  <2>3. Trusted(d, outages)' => Standing' \subseteq Known(d')
    BY <1>2, <2>1 DEF StorageInv
  <2> QED
    BY <1>1, <1>2, <2>1, <2>2, <2>3 DEF StorageInv
<1> QED
  BY <1>3, <1>4

\* The instance row provides what the event of the shift names.
LEMMA BeginShiftStep ==
  ASSUME StorageInv, BeginShift
  PROVE  StorageInv'
<1> DEFINE a1 == Direct(Row("shift_instances", "SI-1", "", Site))
           a2 == Persist("SHIFT_STARTED", 1, None, Site \cup Open)
           ws == <<a1, a2>>
           K == Standing
           P == Open
           M == K \cup P
           next == "running"
<1>1. /\ phase = "running" /\ Handle(ws, next) /\ shift' = "open"
      /\ UNCHANGED <<call, finishes, now, batch, truth, deviation, moves>>
  BY DEF BeginShift, Working, usage
<1>2. PlantType'
  BY <1>1 DEF StorageInv, PlantType
<1>3. Standing' \subseteq K \cup P
  BY <1>1 DEF Standing
<1>4. /\ Dimensions \subseteq K /\ Site \subseteq K /\ Site \in SUBSET Ids /\ Open \in SUBSET Ids
      /\ Dimensions \subseteq M /\ Site \cup Open \subseteq M /\ Site \cup Open \in SUBSET Ids
  BY StandingRead, Identities
<1>5. <<"shift_instances", "SI-1">> \in P /\ \A p \in P : p = <<"shift_instances", "SI-1">>
  BY DEF Open
<1>6. next \in {"running", "finished"}
  OBVIOUS
<1> HIDE DEF K, P, M, next
<1>7. a1 \in Within(K) /\ <<"shift_instances", "SI-1">> \in WriteProvides(a1)
  BY <1>4, Sayable, Listed, DirectRow
<1>8. a2 \in Within(M)
  BY <1>4, Sayable, TypesRead, PersistOf
<1> HIDE DEF a1, a2
<1>9. ws \in Seq(Within(M)) /\ ws # <<>> /\ ws[1] = a1 /\ 1 \in 1..Len(ws)
  <2>1. a1 \in Within(M)
    BY <1>7, WithinMore DEF M
  <2> QED
    BY <1>8, <2>1
<1> HIDE DEF ws
<1>10. P \subseteq WriteProvides(ws[1])
  BY <1>5, <1>7, <1>9
<1>11. ws \in Handlers /\ Founding(Standing, ws)
  BY <1>7, <1>9, <1>10, HandlerHeaded DEF K, M
<1>12. Standing' \subseteq Standing \cup AllProvides(ws)
  BY <1>3, <1>9, <1>10 DEF AllProvides, K
<1> QED
  BY <1>1, <1>2, <1>6, <1>11, <1>12, Acting

\* Attendance names a shift that is open.
LEMMA ClockInStep ==
  ASSUME StorageInv, ClockIn
  PROVE  StorageInv'
<1> DEFINE ids == There \cup Staff \cup Open
           a1 == Persist("EMPLOYEE_CLOCK_IN", 1, "employee_events", ids)
           ws == <<a1>>
           next == "running"
<1>1. /\ phase = "running" /\ Handle(ws, next) /\ shift = "open"
      /\ UNCHANGED <<call, finishes, now, shift, batch, truth, deviation, moves>>
  BY DEF ClockIn, Working, usage
<1>2. PlantType' /\ Standing' = Standing
  BY <1>1, StandingKept DEF StorageInv, PlantType
<1>3. Dimensions \subseteq Standing /\ ids \subseteq Standing /\ ids \in SUBSET Ids
  BY <1>1, StandingRead, Identities DEF None
<1>4. next \in {"running", "finished"}
  OBVIOUS
<1> DEFINE K == Standing
<1> HIDE DEF ids, next, K
<1>5. a1 \in Within(K)
  BY <1>3, Sayable, TypesRead, PersistOf DEF K
<1> HIDE DEF a1
<1>6. ws \in Seq(Within(K))
  BY <1>5
<1> HIDE DEF ws
<1> QED
  BY <1>1, <1>2, <1>4, <1>6, Plain DEF K

LEMMA EndShiftStep ==
  ASSUME StorageInv, EndShift
  PROVE  StorageInv'
<1> DEFINE Scope(i) == <<"MACHINE", "UNIT", "PLANT", "SHIFT">>[i]
           Oee(i) == Direct(Row("oee_snapshots", <<Scope(i), "SI-1">>, "", Site))
           ids == There \cup Open
           all == There \cup Staff \cup Open
           a1 == Direct(Row("production_records", <<"TP-001", "SI-1">>, "", ids))
           a3 == Direct(Row("employee_events", <<"ATT", 1>>, "", all))
           a4 == Persist("SHIFT_ENDED", 1, None, Site \cup Open)
           A == <<a1>>
           B == [i \in 1..4 |-> Oee(i)]
           C == <<a3, a4>>
           AB == A \o B
           ws == AB \o C
           next == "running"
           K == Standing
           W == Within(K)
<1>1. /\ phase = "running" /\ Handle(ws, next) /\ shift = "open" /\ shift' = "over"
      /\ UNCHANGED <<call, finishes, now, batch, truth, deviation, moves>>
  BY DEF EndShift, Working, usage
<1>2. PlantType'
  BY <1>1 DEF StorageInv, PlantType
<1>3. Standing' = K
  BY <1>1 DEF Standing, None
<1>4. /\ Dimensions \subseteq K /\ Site \subseteq K /\ Site \in SUBSET Ids
      /\ ids \subseteq K /\ ids \in SUBSET Ids /\ all \subseteq K /\ all \in SUBSET Ids
      /\ Site \cup Open \subseteq K /\ Site \cup Open \in SUBSET Ids
  BY <1>1, StandingRead, Identities DEF None
<1>5. \A i \in 1..4 : <<Scope(i), "SI-1">> \in Keys
  <2>1. \A i \in 1..4 : Scope(i) \in Words
    <3>1. \A i \in 1..4 : Scope(i) \in {"MACHINE", "UNIT", "PLANT", "SHIFT"}
      OBVIOUS
    <3> HIDE DEF Scope
    <3> QED
      BY <3>1, Sayable
  <2> HIDE DEF Scope
  <2> QED
    BY <2>1, Sayable DEF Keys
<1>6. <<"TP-001", "SI-1">> \in Keys /\ <<"ATT", 1>> \in Keys
  BY Sayable DEF Keys
<1>7. next \in {"running", "finished"}
  OBVIOUS
<1> HIDE DEF Scope, ids, all, next, K
<1>8. \A i \in 1..4 : Oee(i) \in W
  BY <1>4, <1>5, Sayable, Listed, DirectRow
<1>9. a1 \in W
  BY <1>4, <1>6, Sayable, Listed, DirectRow
<1>10. a3 \in W
  BY <1>4, <1>6, Sayable, Listed, DirectRow
<1>11. a4 \in W
  BY <1>4, Sayable, TypesRead, PersistOf
<1> HIDE DEF Oee, a1, a3, a4, W
<1>12. A \in Seq(W) /\ B \in Seq(W) /\ C \in Seq(W)
  BY <1>8, <1>9, <1>10, <1>11
<1> HIDE DEF A, B, C
<1>13. AB \in Seq(W)
  BY <1>12
<1> HIDE DEF AB
<1>14. ws \in Seq(W)
  BY <1>12, <1>13
<1> HIDE DEF ws
<1> QED
  BY <1>1, <1>2, <1>3, <1>7, <1>14, Plain DEF K, W

\* The row of the batch provides what its events name.
LEMMA StartBatchStep ==
  ASSUME StorageInv, NEW b \in Batches, StartBatch(b)
  PROVE  StorageInv'
<1> DEFINE ids == Site \cup Of(b)
           a1 == Direct(Row("batches", b, "active", Site))
           a2 == Persist("PRODUCTION_ORDER_CREATED", b, None, ids)
           a3 == Persist("BATCH_STARTED", b, None, ids)
           ws == <<a1, a2, a3>>
           K == Standing
           P == Of(b)
           M == K \cup P
           next == "running"
<1>1. /\ phase = "running" /\ Handle(ws, next)
      /\ batch' = [batch EXCEPT ![b] = "active"]
      /\ moves' = [moves EXCEPT !.made = @ + 1]
      /\ UNCHANGED <<call, finishes, now, shift, truth, deviation>>
  BY DEF StartBatch, Working, usage
<1>2. PlantType'
  BY <1>1 DEF StorageInv, PlantType
<1>3. Standing' \subseteq K \cup P
  <2>1. \A c \in Batches : c # b => batch'[c] = batch[c]
    BY <1>1 DEF StorageInv, PlantType
  <2>2. {<<"batches", c>> : c \in {x \in Batches : batch'[x] # None}}
           \subseteq {<<"batches", c>> : c \in {x \in Batches : batch[x] # None}} \cup Of(b)
    BY <2>1 DEF Of
  <2> QED
    BY <1>1, <2>2 DEF Standing
<1>4. /\ Dimensions \subseteq K /\ Site \subseteq K /\ Site \in SUBSET Ids
      /\ Dimensions \subseteq M /\ ids \subseteq M /\ ids \in SUBSET Ids
  BY StandingRead, Identities
<1>5. <<"batches", b>> \in P /\ \A p \in P : p = <<"batches", b>>
  BY DEF Of
<1>6. next \in {"running", "finished"}
  OBVIOUS
<1> HIDE DEF K, P, M, next, ids
<1>7. a1 \in Within(K) /\ <<"batches", b>> \in WriteProvides(a1)
  BY <1>4, Sayable, Listed, DirectRow
<1>8. a2 \in Within(M) /\ a3 \in Within(M)
  BY <1>4, Sayable, TypesRead, PersistOf
<1> HIDE DEF a1, a2, a3
<1>9. ws \in Seq(Within(M)) /\ ws # <<>> /\ ws[1] = a1 /\ 1 \in 1..Len(ws)
  <2>1. a1 \in Within(M)
    BY <1>7, WithinMore DEF M
  <2> QED
    BY <1>8, <2>1
<1> HIDE DEF ws
<1>10. P \subseteq WriteProvides(ws[1])
  BY <1>5, <1>7, <1>9
<1>11. ws \in Handlers /\ Founding(Standing, ws)
  BY <1>7, <1>9, <1>10, HandlerHeaded DEF K, M
<1>12. Standing' \subseteq Standing \cup AllProvides(ws)
  BY <1>3, <1>9, <1>10 DEF AllProvides, K
<1> QED
  BY <1>1, <1>2, <1>6, <1>11, <1>12, Acting

\* An onset writes nothing.
LEMMA OnsetStep ==
  ASSUME StorageInv, NEW e \in Episodes, Onset(e)
  PROVE  StorageInv'
<1>1. PICK due \in now + 1 .. now + 2 :
         truth' = [truth EXCEPT ![e] = [NoTruth EXCEPT !.onset = now, !.due = due]]
  BY DEF Onset, usage
<1>2. UNCHANGED <<d, phase, call, finishes, now, shift, batch, deviation, moves, outages>>
  BY DEF Onset, usage
<1>3. PlantType'
  <2>1. PlantType
    BY DEF StorageInv
  <2>2. now \in Nat /\ due \in Nat
    BY <2>1 DEF PlantType
  <2>3. [NoTruth EXCEPT !.onset = now, !.due = due] \in Truths
    BY <2>2 DEF NoTruth, Truths
  <2>4. truth' \in [Episodes -> Truths]
    BY <1>1, <2>1, <2>3 DEF PlantType
  <2> QED
    BY <1>2, <2>1, <2>4 DEF PlantType
<1>4. Standing' = Standing
  BY <1>2, StandingKept
<1>5. StoresInv'
  BY <1>2 DEF StorageInv, StoresInv
<1> QED
  BY <1>2, <1>3, <1>4, <1>5 DEF StorageInv

\* Readings and labels name nothing a foreign key would check.
LEMMA AppendedMany ==
  ASSUME NEW K, NEW rows, rows \in Seq(Samples) \/ rows \in Seq(LabelRows)
  PROVE  DirectMany(rows) \in Within(K)
<1>1. \A i \in 1..Len(rows) : rows[i] \in Samples \cup LabelRows
  OBVIOUS
<1>2. \A r \in Samples \cup LabelRows : r.refs = {}
  BY Apart DEF Samples, LabelRows, Rows
<1>3. Needs(rows) \subseteq K
  BY <1>1, <1>2 DEF Needs, Elements
<1>4. rows \in Calls
  BY DEF Calls
<1> QED
  BY <1>3, <1>4, DirectManyIs

LEMMA RelationalMany ==
  ASSUME NEW K, NEW rows \in Seq(RelationalRows), \A i \in 1..Len(rows) : rows[i].refs \subseteq K
  PROVE  DirectMany(rows) \in Within(K)
<1>1. Needs(rows) \subseteq K
  BY DEF Needs, Elements
<1>2. rows \in Calls
  BY DEF Calls
<1> QED
  BY <1>1, <1>2, DirectManyIs

\* The tap that opens a deviation provides its row.
LEMMA OpenDeviationIs ==
  ASSUME NEW K, Dimensions \subseteq K, NEW v \in Deviations, NEW ids \in SUBSET Ids,
         ids \subseteq K
  PROVE  /\ OpenDeviation(v, ids) \in Seq(Within(K))
         /\ <<"deviations", v>> \in AllProvides(OpenDeviation(v, ids))
<1> DEFINE a1 == Persist("DEVIATION_CREATED", v, None, ids)
           a2 == Tap(<<Row("deviations", v, "OPEN", ids)>>)
           ws == <<a1, a2>>
<1>1. a1 \in Within(K)
  BY Sayable, TypesRead, PersistOf
<1>2. a2 \in Within(K) /\ <<"deviations", v>> \in WriteProvides(a2)
  BY Sayable, Listed, TapRow
<1>3. OpenDeviation(v, ids) = ws
  BY DEF OpenDeviation
<1> HIDE DEF a1, a2
<1>4. ws \in Seq(Within(K)) /\ 2 \in 1..Len(ws) /\ ws[2] = a2
  BY <1>1, <1>2
<1> HIDE DEF ws
<1> QED
  BY <1>2, <1>3, <1>4 DEF AllProvides

\* A deviation stands as soon as it is opened.
LEMMA StandingOpened ==
  ASSUME PlantType, NEW v \in Deviations, NEW x \in {"OPEN", "INVESTIGATION"},
         deviation' = [deviation EXCEPT ![v] = x], shift' = shift,
         \A b \in Batches : batch'[b] # None => batch[b] # None
  PROVE  Standing' \subseteq Standing \cup {<<"deviations", v>>}
<1>1. /\ deviation'[v] = x /\ \A u \in Deviations : u # v => deviation'[u] = deviation[u]
      /\ x # "CAPA_PENDING"
  BY DEF PlantType
<1>2. {<<"batches", b>> : b \in {c \in Batches : batch'[c] # None}}
        \subseteq {<<"batches", b>> : b \in {c \in Batches : batch[c] # None}}
  OBVIOUS
<1>3. {<<"deviations", w>> : w \in {u \in Deviations : deviation'[u] # None}}
        \subseteq {<<"deviations", w>> : w \in {u \in Deviations : deviation[u] # None}}
                    \cup {<<"deviations", v>>}
  BY <1>1
<1>4. {<<"rca", w>> : w \in {u \in Deviations : deviation'[u] = "CAPA_PENDING"}}
        \subseteq {<<"rca", w>> : w \in {u \in Deviations : deviation[u] = "CAPA_PENDING"}}
  BY <1>1
<1> QED
  BY <1>2, <1>3, <1>4 DEF Standing

LEMMA WithinWrites ==
  ASSUME NEW K
  PROVE  Seq(Within(K)) \subseteq Seq(Writes)
<1>1. Within(K) \subseteq Writes
  BY DEF Within
<1> QED
  BY <1>1

\* The fault, and the deviation its event opens.
LEMMA FaultStep ==
  ASSUME StorageInv, NEW e \in Episodes, Fault(e)
  PROVE  StorageInv'
<1> DEFINE v == <<e, "MACHINE_FAILURE">>
           K == Standing
           W == Within(K)
           a1 == Persist("MACHINE_FAILURE", e, "machine_events", There)
           a2 == Persist("PRODUCTION_STOPPED", e, "machine_events", There)
           a3 == Direct(Row("failures", e, "open", There))
           A == OpenDeviation(v, There)
           B == <<a1, a2, a3>>
           ws == A \o B
           next == "running"
           x == Opened(d')
<1>1. /\ phase = "running" /\ Handle(ws, next)
      /\ deviation' = [deviation EXCEPT ![v] = x]
      /\ truth' = [truth EXCEPT ![e].faulted = now]
      /\ moves' = [moves EXCEPT !.made = @ + 1]
      /\ UNCHANGED <<call, finishes, now, shift, batch>>
  BY DEF Fault, Working, usage
<1>2. v \in Deviations
  BY DEF Deviations
<1>3. x \in {"OPEN", "INVESTIGATION"}
  BY DEF Opened
<1>4. next \in {"running", "finished"}
  OBVIOUS
<1>5. PlantType
  BY DEF StorageInv
<1>6. Dimensions \subseteq K /\ There \subseteq K /\ There \in SUBSET Ids
  BY StandingRead, Identities
<1> HIDE DEF v, x, next, K
<1>7. PlantType'
  <2>1. truth' \in [Episodes -> Truths]
    BY <1>1, <1>5 DEF PlantType, Truths
  <2>2. deviation' \in [Deviations -> {None, "OPEN", "INVESTIGATION", "CAPA_PENDING"}]
    BY <1>1, <1>3, <1>5 DEF PlantType
  <2>3. moves' \in [made : Nat, persisted : Nat] /\ moves'.persisted <= moves'.made
    BY <1>1, <1>5 DEF PlantType
  <2> QED
    BY <1>1, <1>5, <2>1, <2>2, <2>3 DEF PlantType
<1>8. A \in Seq(W) /\ <<"deviations", v>> \in AllProvides(A)
  BY <1>2, <1>6, OpenDeviationIs
<1>9. a1 \in W /\ a2 \in W
  BY <1>6, Sayable, TypesRead, PersistOf
<1>10. a3 \in W
  BY <1>6, Sayable, Listed, DirectRow
<1>11. Seq(W) \subseteq Seq(Writes)
  BY WithinWrites
<1> HIDE DEF A, a1, a2, a3, W
<1>12. B \in Seq(W)
  BY <1>9, <1>10
<1> HIDE DEF B
<1>13. ws \in Seq(W)
  BY <1>8, <1>12
<1>14. <<"deviations", v>> \in AllProvides(ws)
  BY <1>8, <1>11, <1>12, ProvidesConcat
<1> HIDE DEF ws
<1>15. ws \in Handlers /\ Founding(Standing, ws)
  BY <1>13, HandlerWithin DEF K, W
<1>16. Standing' \subseteq Standing \cup AllProvides(ws)
  BY <1>1, <1>2, <1>3, <1>5, <1>14, StandingOpened
<1> QED
  BY <1>1, <1>4, <1>7, <1>15, <1>16, Acting

\* The end of a batch, and the deviation a failed test opens.
LEMMA EndBatchStep ==
  ASSUME StorageInv, NEW b \in Batches, EndBatch(b)
  PROVE  StorageInv'
<1> DEFINE v == <<b, "QC_FAILED">>
           ids == There \cup Of(b)
           own == Site \cup Of(b)
           K == Standing
           W == Within(K)
           a1 == Direct(Row("batch_stages", b, "", ids))
           a2 == Persist("BATCH_STAGE_COMPLETED", b, None, ids)
           a3 == Direct(Row("qc_results", b, "", ids))
           a4 == Persist("QC_FAILED", b, None, ids)
           a5 == Persist("QC_TEST_COMPLETED", b, None, ids)
           a6 == Direct(Row("batches", b, "done", Site))
           a7 == Persist("BATCH_COMPLETED", b, None, own)
           A == <<a1, a2, a3>>
           O == OpenDeviation(v, ids)
           F == <<a4>>
           OF == O \o F
           C == <<a5, a6, a7>>
           Mid(failed) == IF failed THEN OF ELSE <<>>
           AM(failed) == A \o Mid(failed)
           Ws(failed) == AM(failed) \o C
           next == "running"
           x == Opened(d')
<1>1. PICK failed \in BOOLEAN :
         /\ Handle(Ws(failed), next)
         /\ deviation' = IF failed THEN [deviation EXCEPT ![v] = x] ELSE deviation
  BY DEF EndBatch
<1>2. /\ phase = "running" /\ batch[b] = "active"
      /\ batch' = [batch EXCEPT ![b] = "done"]
      /\ moves' = [moves EXCEPT !.made = @ + 1]
      /\ UNCHANGED <<call, finishes, now, shift, truth>>
  BY DEF EndBatch, Working, usage
<1>3. v \in Deviations
  BY DEF Deviations
<1>4. x \in {"OPEN", "INVESTIGATION"}
  BY DEF Opened
<1>5. next \in {"running", "finished"}
  OBVIOUS
<1>6. PlantType
  BY DEF StorageInv
<1>7. /\ Dimensions \subseteq K /\ Site \subseteq K /\ Site \in SUBSET Ids
      /\ ids \subseteq K /\ ids \in SUBSET Ids /\ own \subseteq K /\ own \in SUBSET Ids
  BY <1>2, StandingRead, Identities DEF None
<1> HIDE DEF v, x, next, K, ids, own
<1>8. PlantType'
  <2>1. deviation' \in [Deviations -> {None, "OPEN", "INVESTIGATION", "CAPA_PENDING"}]
    BY <1>1, <1>4, <1>6 DEF PlantType
  <2>2. moves' \in [made : Nat, persisted : Nat] /\ moves'.persisted <= moves'.made
    BY <1>2, <1>6 DEF PlantType
  <2>3. batch' \in [Batches -> {None, "active", "done"}]
    BY <1>2, <1>6 DEF PlantType
  <2> QED
    BY <1>2, <1>6, <2>1, <2>2, <2>3 DEF PlantType
<1>9. O \in Seq(W) /\ <<"deviations", v>> \in AllProvides(O)
  BY <1>3, <1>7, OpenDeviationIs
<1>10. a2 \in W /\ a4 \in W /\ a5 \in W /\ a7 \in W
  BY <1>7, Sayable, TypesRead, PersistOf
<1>11. a1 \in W /\ a3 \in W /\ a6 \in W
  BY <1>7, Sayable, Listed, DirectRow
<1>12. Seq(W) \subseteq Seq(Writes)
  BY WithinWrites
<1> HIDE DEF O, a1, a2, a3, a4, a5, a6, a7, W
<1>13. A \in Seq(W) /\ F \in Seq(W) /\ C \in Seq(W) /\ <<>> \in Seq(W)
  BY <1>10, <1>11
<1> HIDE DEF A, F, C
<1>14. OF \in Seq(W) /\ <<"deviations", v>> \in AllProvides(OF)
  BY <1>9, <1>12, <1>13, ProvidesConcat
<1> HIDE DEF OF
<1>15. /\ Mid(failed) \in Seq(W)
       /\ failed => <<"deviations", v>> \in AllProvides(Mid(failed))
  BY <1>13, <1>14
<1> HIDE DEF Mid
<1>16. /\ AM(failed) \in Seq(W)
       /\ failed => <<"deviations", v>> \in AllProvides(AM(failed))
  BY <1>12, <1>13, <1>15, ProvidesConcat
<1> HIDE DEF AM
<1> DEFINE ws == Ws(failed)
<1>17. /\ ws \in Seq(W)
       /\ failed => <<"deviations", v>> \in AllProvides(ws)
  BY <1>12, <1>13, <1>16, ProvidesConcat
<1> HIDE DEF Ws
<1>18. Handle(ws, next)
  BY <1>1
<1> HIDE DEF ws
<1>19. ws \in Handlers /\ Founding(Standing, ws)
  BY <1>17, HandlerWithin DEF K, W
<1>20. \A c \in Batches : batch'[c] # None => batch[c] # None
  BY <1>2, <1>6 DEF PlantType, None
<1>21. Standing' \subseteq Standing \cup AllProvides(ws)
  <2>1. CASE failed
    BY <1>1, <1>2, <1>3, <1>4, <1>6, <1>17, <1>20, <2>1, StandingOpened
  <2>2. CASE ~ failed
    BY <1>1, <1>2, <1>20, <2>2 DEF Standing
  <2> QED
    BY <2>1, <2>2
<1> QED
  BY <1>2, <1>5, <1>8, <1>18, <1>19, <1>21, Acting


\* The report provides what its evidence names, and stands for the CAPA.
LEMMA InvestigateStep ==
  ASSUME StorageInv, NEW v \in Deviations, Investigate(v)
  PROVE  StorageInv'
<1> DEFINE P == {<<"rca", v>>}
           K == Standing
           M == K \cup P
           ids == There \cup {<<"deviations", v>>, <<"rca", v>>}
           a1 == Direct(Row("rca", v, "", ids))
           a2 == Direct(Row("rca_evidence", v, "", ids))
           a3 == Persist("RCA_COMPLETED", v, None, There)
           a4 == Direct(Row("deviations", v, "INVESTIGATION", There))
           a5 == Persist("CAPA_CREATED", v, None, There)
           a6 == Direct(Row("deviations", v, "CAPA_PENDING", There))
           ws == <<a1, a2, a3, a4, a5, a6>>
           next == "running"
<1>1. /\ phase = "running" /\ deviation[v] = "INVESTIGATION" /\ Handle(ws, next)
      /\ deviation' = [deviation EXCEPT ![v] = "CAPA_PENDING"]
      /\ UNCHANGED <<call, finishes, now, shift, batch, truth, moves>>
  BY DEF Investigate, Working, usage
<1>2. PlantType /\ PlantType'
  <2>1. PlantType
    BY DEF StorageInv
  <2>2. deviation' \in [Deviations -> {None, "OPEN", "INVESTIGATION", "CAPA_PENDING"}]
    BY <1>1, <2>1 DEF PlantType
  <2> QED
    BY <1>1, <2>1, <2>2 DEF PlantType
<1>3. Standing' \subseteq K \cup P
  <2>1. /\ \A u \in Deviations : u # v => deviation'[u] = deviation[u]
        /\ deviation[v] # None
    BY <1>1, <1>2 DEF PlantType, None
  <2>2. {<<"deviations", w>> : w \in {u \in Deviations : deviation'[u] # None}}
          \subseteq {<<"deviations", w>> : w \in {u \in Deviations : deviation[u] # None}}
    BY <2>1
  <2>3. {<<"rca", w>> : w \in {u \in Deviations : deviation'[u] = "CAPA_PENDING"}}
          \subseteq {<<"rca", w>> : w \in {u \in Deviations : deviation[u] = "CAPA_PENDING"}}
                      \cup P
    BY <2>1
  <2> QED
    BY <1>1, <2>2, <2>3 DEF Standing
<1>4. /\ Dimensions \subseteq K /\ There \subseteq K /\ There \in SUBSET Ids
      /\ <<"deviations", v>> \in K
  BY <1>1, StandingRead, Identities DEF None
<1>5. Dimensions \subseteq M /\ There \subseteq M /\ ids \subseteq M /\ ids \in SUBSET Ids
  BY <1>4, Identities
<1>6. <<"rca", v>> \in P /\ \A p \in P : p = <<"rca", v>>
  OBVIOUS
<1>7. next \in {"running", "finished"}
  OBVIOUS
<1>8. a1 \in Within(K) /\ <<"rca", v>> \in WriteProvides(a1)
  <2>1. References["rca"] = {"deviations", "runs"}
    BY ReferencesRead, QualityTablesRead DEF QualityTables
  <2>2. \A p \in ids : p[1] \in References["rca"] => p \in K
    BY <1>4, <2>1
  <2>3. "rca" \in DOMAIN References /\ v \in Keys /\ "" \in Versions
    BY Listed, Sayable
  <2> HIDE DEF ids, K
  <2> QED
    BY <1>5, <2>2, <2>3, RowNames
<1> HIDE DEF K, P, M, next, ids
<1>9. a2 \in Within(M) /\ a4 \in Within(M) /\ a6 \in Within(M)
  BY <1>4, <1>5, Sayable, Listed, DirectRow
<1>10. a3 \in Within(M) /\ a5 \in Within(M)
  BY <1>4, <1>5, Sayable, TypesRead, PersistOf
<1> HIDE DEF a1, a2, a3, a4, a5, a6
<1>11. ws \in Seq(Within(M)) /\ ws # <<>> /\ ws[1] = a1 /\ 1 \in 1..Len(ws)
  <2>1. a1 \in Within(M)
    BY <1>8, WithinMore DEF M
  <2> QED
    BY <1>9, <1>10, <2>1
<1> HIDE DEF ws
<1>12. P \subseteq WriteProvides(ws[1])
  BY <1>6, <1>8, <1>11
<1>13. ws \in Handlers /\ Founding(Standing, ws)
  BY <1>8, <1>11, <1>12, HandlerHeaded DEF K, M
<1>14. Standing' \subseteq Standing \cup AllProvides(ws)
  BY <1>3, <1>11, <1>12 DEF AllProvides, K
<1> QED
  BY <1>1, <1>2, <1>7, <1>13, <1>14, Acting

\* A label names no other row.
LEMMA LabelIs ==
  ASSUME NEW n \in Nat, NEW e \in Subjects, NEW ver \in BOOLEAN
  PROVE  Row("prediction_labels", <<n, e>>, ver, Site) \in LabelRows
<1>1. "prediction_labels" \in EVAL_TABLES /\ "prediction_labels" \in Tables
  BY DEF EVAL_TABLES, Tables
<1>2. <<n, e>> \in Keys /\ ver \in Versions
  BY DEF Keys, Versions
<1> QED
  BY <1>1, <1>2, Identities, RowIs

\* Nor does the ground truth, nor the labels of an episode.
LEMMA GroundTruthIs ==
  ASSUME NEW K, NEW e \in Episodes, NEW ver \in Versions
  PROVE  Direct(Row("ground_truth_events", e, ver, Site)) \in Within(K)
<1> DEFINE r == Row("ground_truth_events", e, ver, Site)
           rows == <<r>>
<1>1. "ground_truth_events" \in EVAL_TABLES /\ "ground_truth_events" \in Tables
  BY DEF EVAL_TABLES, Tables
<1>2. r \in LabelRows
  BY <1>1, Sayable, Identities, RowIs
<1>3. Direct(r) = DirectMany(<<r>>)
  BY DEF Direct, DirectMany
<1> HIDE DEF r
<1>4. rows \in Seq(LabelRows)
  BY <1>2
<1>5. DirectMany(rows) \in Within(K)
  BY <1>4, AppendedMany
<1> QED
  BY <1>3, <1>5 DEF r

LEMMA LabelsWithin ==
  ASSUME NEW K, NEW e \in Episodes, NEW t \in Truths, NEW until \in Nat
  PROVE  DirectMany(Labels(e, t, until)) \in Within(K)
<1> DEFINE end == IF t.faulted > 0 THEN t.faulted
                  ELSE IF t.averted > 0 THEN t.averted
                  ELSE IF t.resolved > 0 THEN t.resolved ELSE until
           n == end - t.onset + 1
           Lab(i) == Row("prediction_labels", <<t.onset + i - 1, e>>, t.averted > 0, Site)
           rows == [i \in 1..n |-> Lab(i)]
<1>1. Labels(e, t, until) = IF end <= t.onset THEN <<>> ELSE rows
  BY DEF Labels
<1>2. end \in Nat /\ t.onset \in Nat /\ (t.averted > 0) \in BOOLEAN
  BY DEF Truths
<1> HIDE DEF end
<1>3. CASE end <= t.onset
  <2>1. Labels(e, t, until) \in Seq(LabelRows)
    BY <1>1, <1>3
  <2> QED
    BY <2>1, AppendedMany
<1>4. CASE ~ (end <= t.onset)
  <2>1. n \in Nat
    BY <1>2, <1>4
  <2>2. \A i \in 1..n : Lab(i) \in LabelRows
    <3>1. \A i \in 1..n : t.onset + i - 1 \in Nat
      BY <1>2, <2>1
    <3>2. e \in Subjects
      BY Sayable
    <3> HIDE DEF n
    <3> QED
      BY <1>2, <3>1, <3>2, LabelIs
  <2> HIDE DEF n, Lab
  <2>3. rows \in Seq(LabelRows)
    BY <2>1, <2>2
  <2>4. Labels(e, t, until) \in Seq(LabelRows)
    BY <1>1, <1>4, <2>3
  <2> QED
    BY <2>4, AppendedMany
<1> QED
  BY <1>3, <1>4

LEMMA MadeMore ==
  ASSUME PlantType, moves' = [moves EXCEPT !.made = @ + 1]
  PROVE  moves' \in [made : Nat, persisted : Nat] /\ moves'.persisted <= moves'.made
BY DEF PlantType

\* The end of a repair, predictive or corrective.
LEMMA MaintenanceStep ==
  ASSUME StorageInv, NEW e \in Episodes, MaintenanceDone(e)
  PROVE  StorageInv'
<1> DEFINE averted == truth[e].faulted = 0
           t == [truth[e] EXCEPT !.averted = IF averted THEN now ELSE 0, !.resolved = now]
           K == Standing
           W == Within(K)
           staffed == There \cup Staff
           a1 == Persist("DEGRADATION_AVERTED", e, "machine_events", There)
           a2 == Direct(Row("maintenance", e, "", There))
           a3 == Persist("MAINTENANCE_COMPLETED", e, None, staffed)
           a4 == Direct(Row("failures", e, "resolved", There))
           a5 == DirectMany(Labels(e, t, now))
           A == IF averted THEN <<a1>> ELSE <<>>
           B == <<a2, a3>>
           C == IF averted THEN <<>> ELSE <<a4>>
           D == <<a5>>
           AB == A \o B
           ABC == AB \o C
           ws == ABC \o D
           next == "running"
<1>1. /\ phase = "running" /\ Handle(ws, next)
      /\ truth' = [truth EXCEPT ![e] = t]
      /\ moves' = [moves EXCEPT !.made = @ + 1]
      /\ UNCHANGED <<call, finishes, now, shift, batch, deviation>>
  BY DEF MaintenanceDone, Working, usage
<1>2. PlantType
  BY DEF StorageInv
<1>3. t \in Truths /\ now \in Nat
  <2>1. now \in Nat /\ truth[e] \in Truths
    BY <1>2 DEF PlantType
  <2>2. (IF averted THEN now ELSE 0) \in Nat
    BY <2>1
  <2> HIDE DEF averted
  <2> QED
    BY <2>1, <2>2 DEF Truths
<1>4. /\ Dimensions \subseteq K /\ There \subseteq K /\ There \in SUBSET Ids
      /\ staffed \subseteq K /\ staffed \in SUBSET Ids
  BY StandingRead, Identities
<1>5. next \in {"running", "finished"}
  OBVIOUS
<1> HIDE DEF averted, t, K, next, staffed
<1>6. PlantType'
  <2>1. truth' \in [Episodes -> Truths]
    BY <1>1, <1>2, <1>3 DEF PlantType
  <2>2. moves' \in [made : Nat, persisted : Nat] /\ moves'.persisted <= moves'.made
    BY <1>1, <1>2, MadeMore
  <2> QED
    BY <1>1, <1>2, <2>1, <2>2 DEF PlantType
<1>7. a1 \in W /\ a3 \in W
  BY <1>4, Sayable, TypesRead, PersistOf
<1>8. a2 \in W /\ a4 \in W
  BY <1>4, Sayable, Listed, DirectRow
<1>9. a5 \in W
  BY <1>3, LabelsWithin
<1> HIDE DEF a1, a2, a3, a4, a5, W
<1>10. A \in Seq(W) /\ B \in Seq(W) /\ C \in Seq(W) /\ D \in Seq(W)
  BY <1>7, <1>8, <1>9
<1> HIDE DEF A, B, C, D
<1>11. AB \in Seq(W)
  BY <1>10
<1> HIDE DEF AB
<1>12. ABC \in Seq(W)
  BY <1>10, <1>11
<1> HIDE DEF ABC
<1>13. ws \in Seq(W)
  BY <1>10, <1>12
<1>14. Standing' = Standing
  BY <1>1, StandingKept
<1> HIDE DEF ws
<1> QED
  BY <1>1, <1>5, <1>6, <1>13, <1>14, Plain DEF K, W

\* The hourly ticks: readings, labels, and housekeeping.
LEMMA SampleStep ==
  ASSUME StorageInv, Sample
  PROVE  StorageInv'
<1> DEFINE Read(i) == Row(TELEMETRY_TABLE, <<now, i>>, "", Site)
           rows == [i \in 1..2 |-> Read(i)]
           a1 == DirectMany(rows)
           ws == <<a1>>
           K == Standing
           W == Within(K)
           next == "running"
<1>1. /\ phase = "running" /\ Handle(ws, next)
      /\ UNCHANGED <<call, finishes, now, shift, batch, truth, deviation, moves>>
  BY DEF Sample, Working, usage
<1>2. PlantType /\ PlantType' /\ Standing' = Standing /\ now \in Nat
  BY <1>1, StandingKept DEF StorageInv, PlantType
<1>3. next \in {"running", "finished"}
  OBVIOUS
<1>4. \A i \in 1..2 : Read(i) \in Samples
  <2>1. \A i \in 1..2 : <<now, i>> \in Keys
    <3>1. \A i \in 1..2 : i \in Nat /\ i \in Subjects
      BY DEF Subjects
    <3>2. now \in Words \cup Nat
      BY <1>2
    <3> QED
      BY <3>1, <3>2 DEF Keys
  <2>2. TELEMETRY_TABLE \in Tables /\ "" \in Versions
    BY Sayable DEF Tables
  <2> QED
    BY <2>1, <2>2, Identities, RowIs
<1> HIDE DEF Read, K, next
<1>5. rows \in Seq(Samples)
  BY <1>4
<1> HIDE DEF rows
<1>6. a1 \in W
  BY <1>5, AppendedMany
<1> HIDE DEF a1, W
<1>7. ws \in Seq(W)
  BY <1>6
<1> HIDE DEF ws
<1> QED
  BY <1>1, <1>2, <1>3, <1>7, Plain DEF K, W

LEMMA LabelTickStep ==
  ASSUME StorageInv, LabelTick
  PROVE  StorageInv'
<1> DEFINE r == Row("prediction_labels", <<now, NO_EPISODE>>, FALSE, Site)
           rows == <<r>>
           a1 == DirectMany(rows)
           ws == IF "label" \in chains THEN HealthyLabel ELSE <<>>
           K == Standing
           W == Within(K)
           next == "running"
<1>1. /\ phase = "running" /\ Handle(ws, next)
      /\ UNCHANGED <<call, finishes, now, shift, batch, truth, deviation, moves>>
  BY DEF LabelTick, usage
<1>2. PlantType /\ PlantType' /\ Standing' = Standing /\ now \in Nat
  BY <1>1, StandingKept DEF StorageInv, PlantType
<1>3. next \in {"running", "finished"}
  OBVIOUS
<1>4. r \in LabelRows
  BY <1>2, Sayable, LabelIs DEF NO_EPISODE
<1>5. ws = <<>> \/ ws = <<a1>>
  BY DEF HealthyLabel
<1> HIDE DEF r, ws, K, next
<1>6. rows \in Seq(LabelRows)
  BY <1>4
<1> HIDE DEF rows
<1>7. a1 \in W
  BY <1>6, AppendedMany
<1> HIDE DEF a1, W
<1>8. ws \in Seq(W)
  <2>1. <<>> \in Seq(W) /\ <<a1>> \in Seq(W)
    BY <1>7
  <2> QED
    BY <1>5, <2>1, Zenon
<1> QED
  BY <1>1, <1>2, <1>3, <1>8, Plain DEF K, W

\* The intervals a machine forgets.
LEMMA HistoryWithin ==
  ASSUME PlantType, NEW K, There \subseteq K
  PROVE  FlushStateHistory \in Within(K)
<1> DEFINE n == moves.made - moves.persisted
           Past(i) == Row("machine_state_history", moves.persisted + i, "", There)
           rows == [i \in 1..n |-> Past(i)]
<1>1. n \in Nat /\ moves.persisted \in Nat
  BY DEF PlantType
<1>2. FlushStateHistory = DirectMany(rows)
  BY DEF FlushStateHistory
<1>3. \A i \in 1..n : Past(i) \in RelationalRows /\ Past(i).refs \subseteq K
  <2>1. \A i \in 1..n : moves.persisted + i \in Keys
    <3>1. \A i \in 1..n : moves.persisted + i \in Nat
      BY <1>1
    <3> QED
      BY <3>1, Sayable
  <2>2. "machine_state_history" \in DOMAIN References /\ "machine_state_history" \in Tables
    BY Listed
  <2>3. "" \in Versions /\ There \in SUBSET Ids
    BY Sayable, Identities
  <2> HIDE DEF n
  <2> QED
    BY <2>1, <2>2, <2>3, RowIs
<1> HIDE DEF n, Past
<1>4. rows \in Seq(RelationalRows) /\ \A i \in 1..Len(rows) : rows[i].refs \subseteq K
  BY <1>1, <1>3
<1> HIDE DEF rows
<1> QED
  BY <1>2, <1>4, RelationalMany

LEMMA HousekeepingStep ==
  ASSUME StorageInv, HousekeepingTick
  PROVE  StorageInv'
<1>1. /\ phase = "running" /\ UNCHANGED <<call, finishes, shift, batch, truth, deviation>>
      /\ now' = now \/ now' = now + 1
  BY DEF HousekeepingTick, usage
<1>2. PlantType /\ Standing' = Standing
  BY <1>1, StandingKept DEF StorageInv
<1>3. CASE "persist" \in chains
  <2> DEFINE a1 == FlushStateHistory
             a2 == FlushNow
             ws == <<a1, a2>>
             K == Standing
             W == Within(K)
             next == "running"
  <2>1. Handle(ws, next) /\ moves' = [moves EXCEPT !.persisted = moves.made]
    BY <1>3 DEF HousekeepingTick
  <2>2. PlantType'
    <3>1. moves' \in [made : Nat, persisted : Nat] /\ moves'.persisted <= moves'.made
      BY <1>2, <2>1 DEF PlantType
    <3> QED
      BY <1>1, <1>2, <3>1 DEF PlantType
  <2>3. next \in {"running", "finished"}
    OBVIOUS
  <2>4. There \subseteq K
    BY StandingRead
  <2> HIDE DEF K, next
  <2>5. a1 \in W /\ a2 \in W
    BY <1>2, <2>4, HistoryWithin, FlushNowIs
  <2> HIDE DEF a1, a2, W
  <2>6. ws \in Seq(W)
    BY <2>5
  <2> HIDE DEF ws
  <2> QED
    BY <1>1, <1>2, <2>1, <2>2, <2>3, <2>6, Plain DEF K, W
<1>4. CASE "persist" \notin chains
  <2>1. UNCHANGED <<d, phase, outages, moves>>
    BY <1>4 DEF HousekeepingTick
  <2>2. PlantType' /\ StoresInv'
    BY <1>1, <1>2, <2>1 DEF PlantType, StorageInv, StoresInv
  <2> QED
    BY <1>1, <1>2, <2>1, <2>2 DEF StorageInv
<1> QED
  BY <1>3, <1>4


\* A finite set listed once each.
LEMMA ListedOnce ==
  ASSUME NEW S, IsFiniteSet(S)
  PROVE  /\ Cardinality(S) \in Nat
         /\ \A i \in 1..Cardinality(S) : SetToSeq(S)[i] \in S
<1> DEFINE n == Cardinality(S)
<1>1. n \in Nat /\ Bijection(1..n, S) # {}
  BY FS_CardinalityType DEF ExistsBijection
<1>2. \E f \in [1..n -> S] : IsInjective(f)
  BY <1>1 DEF Bijection, Injection
<1>3. SetToSeq(S) \in [1..n -> S]
  BY <1>2 DEF SetToSeq
<1> QED
  BY <1>1, <1>3

LEMMA DeviationsFinite == IsFiniteSet(Deviations)
<1>1. IsFiniteSet(Episodes) /\ IsFiniteSet(Batches)
  BY PlantAssumption
<1>2. IsFiniteSet({"MACHINE_FAILURE"}) /\ IsFiniteSet({"QC_FAILED"})
  BY FS_Singleton
<1>3. IsFiniteSet(Episodes \X {"MACHINE_FAILURE"}) /\ IsFiniteSet(Batches \X {"QC_FAILED"})
  BY <1>1, <1>2, FS_Product
<1> QED
  BY <1>3, FS_Union DEF Deviations

\* finish() writes what is still in memory, all of which names what stands.
LEMMA FinaliseStep ==
  ASSUME StorageInv, phase \in {"running", "finished"}, Finalise("finished"),
         now' = now \/ now' = now + 1
  PROVE  StorageInv'
<1> DEFINE K == Standing
           W == Within(K)
           Bs == Began
           Open1 == StillOpen
           Fixed == {e \in Began : truth[e].resolved > 0}
           Broke == {e \in Began : truth[e].faulted > 0}
           Devs == {v \in Deviations : deviation[v] # None}
           Capas == {v \in Deviations : deviation[v] = "CAPA_PENDING"}
           FixedState(e) == IF truth[e].resolved > 0 THEN "resolved" ELSE "open"
           ids(v) == There \cup {<<"deviations", v>>, <<"rca", v>>}
           W1(e) == DirectMany(Labels(e, truth[e], now))
           W2(e) == Direct(Row("ground_truth_events", e, Outcome(truth[e]), Site))
           W3(e) == Direct(Row("maintenance", e, "", There))
           W4(e) == Direct(Row("failures", e, FixedState(e), There))
           W5(v) == Direct(Row("deviations", v, deviation[v], There))
           W6(v) == Direct(Row("capa", v, "", ids(v)))
           a0 == FlushStateHistory
           a7 == Persist("SIMULATION_STOPPED", finishes + 1, None, Site)
           a8 == Direct(Row("runs", "run", <<"ended", now>>, Site))
           a9 == FlushNow
           A == <<a0>>
           A1 == [i \in 1..Cardinality(Open1) |-> W1(SetToSeq(Open1)[i])]
           A2 == [i \in 1..Cardinality(Bs) |-> W2(SetToSeq(Bs)[i])]
           A3 == [i \in 1..Cardinality(Fixed) |-> W3(SetToSeq(Fixed)[i])]
           A4 == [i \in 1..Cardinality(Broke) |-> W4(SetToSeq(Broke)[i])]
           A5 == [i \in 1..Cardinality(Devs) |-> W5(SetToSeq(Devs)[i])]
           A6 == [i \in 1..Cardinality(Capas) |-> W6(SetToSeq(Capas)[i])]
           Z == <<a7, a8, a9>>
           S1 == A \o A1
           S2 == S1 \o A2
           S3 == S2 \o A3
           S4 == S3 \o A4
           S5 == S4 \o A5
           S6 == S5 \o A6
           ws == S6 \o Z
           next == "finished"
<1>1. /\ Handle(FinalWrites, next)
      /\ moves' = [moves EXCEPT !.persisted = moves.made]
      /\ finishes' = finishes + 1
      /\ UNCHANGED <<call, shift, batch, truth, deviation>>
  BY DEF Finalise, plant
<1>2. FinalWrites = ws
  BY DEF FinalWrites, Each
<1>3. PlantType /\ PlantType' /\ Standing' = Standing
  <2>1. PlantType
    BY DEF StorageInv
  <2>2. moves' \in [made : Nat, persisted : Nat] /\ moves'.persisted <= moves'.made
    BY <1>1, <2>1 DEF PlantType
  <2>3. now' \in Nat
    BY <1>1, <2>1 DEF PlantType
  <2> QED
    BY <1>1, <2>1, <2>2, <2>3, StandingKept DEF PlantType
<1>4. /\ finishes \in Nat /\ now \in Nat
      /\ \A e \in Episodes : truth[e] \in Truths
      /\ \A v \in Deviations : deviation[v] \in {None, "OPEN", "INVESTIGATION", "CAPA_PENDING"}
  BY <1>3 DEF PlantType
<1>5. next \in {"running", "finished"}
  OBVIOUS
<1>6. /\ Dimensions \subseteq K /\ Site \subseteq K /\ Site \in SUBSET Ids
      /\ There \subseteq K /\ There \in SUBSET Ids
      /\ \A v \in Devs : <<"deviations", v>> \in K /\ <<"deviations", v>> \in Ids
      /\ \A v \in Capas : ids(v) \subseteq K /\ ids(v) \in SUBSET Ids
  <2>1. \A v \in Capas : deviation[v] # None
    BY DEF None
  <2> QED
    BY <2>1, StandingRead, Identities
<1>7. /\ IsFiniteSet(Open1) /\ Open1 \subseteq Episodes
      /\ IsFiniteSet(Bs) /\ Bs \subseteq Episodes
      /\ IsFiniteSet(Fixed) /\ Fixed \subseteq Episodes
      /\ IsFiniteSet(Broke) /\ Broke \subseteq Episodes
      /\ IsFiniteSet(Devs) /\ Devs \subseteq Deviations
      /\ IsFiniteSet(Capas) /\ Capas \subseteq Deviations
  <2>1. /\ Open1 \in SUBSET Episodes /\ Bs \in SUBSET Episodes /\ Fixed \in SUBSET Episodes
        /\ Broke \in SUBSET Episodes /\ Devs \in SUBSET Deviations /\ Capas \in SUBSET Deviations
    BY DEF StillOpen, Began
  <2> HIDE DEF Open1, Bs, Fixed, Broke, Devs, Capas
  <2>2. IsFiniteSet(Episodes)
    BY PlantAssumption
  <2>3. IsFiniteSet(Open1) /\ IsFiniteSet(Bs) /\ IsFiniteSet(Fixed) /\ IsFiniteSet(Broke)
    BY <2>1, <2>2, FS_Subset
  <2>4. IsFiniteSet(Devs) /\ IsFiniteSet(Capas)
    BY <2>1, DeviationsFinite, FS_Subset
  <2> QED
    BY <2>1, <2>3, <2>4
<1>8. \A e \in Episodes : Outcome(truth[e]) \in Versions /\ FixedState(e) \in Versions
  BY Sayable DEF Outcome
<1>9. \A v \in Devs : deviation[v] \in Versions
  BY <1>4, Sayable
<1> HIDE DEF K, next, Open1, Bs, Fixed, Broke, Devs, Capas, FixedState, ids
<1>10. ASSUME NEW e \in Episodes PROVE W1(e) \in W
  BY <1>4, LabelsWithin
<1>11. ASSUME NEW e \in Episodes PROVE W2(e) \in W
  BY <1>6, <1>8, Sayable, GroundTruthIs
<1>12. ASSUME NEW e \in Episodes PROVE W3(e) \in W
  BY <1>6, Sayable, Listed, DirectRow
<1>13. ASSUME NEW e \in Episodes PROVE W4(e) \in W
  BY <1>6, <1>8, Sayable, Listed, DirectRow
<1>14. ASSUME NEW v \in Devs PROVE W5(v) \in W
  <2>1. v \in Keys /\ deviation[v] \in Versions
    BY <1>7, <1>9, Sayable
  <2> QED
    BY <1>6, <2>1, Listed, DirectRow
<1>15. ASSUME NEW v \in Capas PROVE W6(v) \in W
  <2>1. v \in Keys /\ "" \in Versions /\ ids(v) \subseteq K /\ ids(v) \in SUBSET Ids
    BY <1>6, <1>7, Sayable
  <2> QED
    BY <2>1, Listed, DirectRow
<1>16. a0 \in W /\ a9 \in W
  BY <1>3, <1>6, HistoryWithin, FlushNowIs
<1>17. a7 \in W
  <2> DEFINE n == finishes + 1
  <2>1. n \in Nat
    BY <1>4
  <2> HIDE DEF n
  <2>2. n \in Subjects /\ None \in {None, "employee_events", "machine_events"}
    BY <2>1, Sayable
  <2>3. "SIMULATION_STOPPED" \in Types
    BY TypesRead
  <2>4. Persist("SIMULATION_STOPPED", n, None, Site) \in W
    BY <1>6, <2>2, <2>3, PersistOf
  <2> QED
    BY <2>4 DEF n
<1>18. a8 \in W
  <2>1. "run" \in Keys /\ <<"ended", now>> \in Versions
    BY <1>4, Sayable DEF Versions
  <2> QED
    BY <1>6, <2>1, Listed, DirectRow
<1> HIDE DEF W1, W2, W3, W4, W5, W6, a0, a7, a8, a9, W
<1>19. A1 \in Seq(W)
  <2>1. /\ Cardinality(Open1) \in Nat
        /\ \A i \in 1..Cardinality(Open1) : SetToSeq(Open1)[i] \in Open1
    BY <1>7, ListedOnce
  <2>2. \A i \in 1..Cardinality(Open1) : W1(SetToSeq(Open1)[i]) \in W
    BY <1>7, <1>10, <2>1
  <2> QED
    BY <2>1, <2>2
<1>20. A2 \in Seq(W)
  <2>1. /\ Cardinality(Bs) \in Nat
        /\ \A i \in 1..Cardinality(Bs) : SetToSeq(Bs)[i] \in Bs
    BY <1>7, ListedOnce
  <2>2. \A i \in 1..Cardinality(Bs) : W2(SetToSeq(Bs)[i]) \in W
    BY <1>7, <1>11, <2>1
  <2> QED
    BY <2>1, <2>2
<1>21. A3 \in Seq(W)
  <2>1. /\ Cardinality(Fixed) \in Nat
        /\ \A i \in 1..Cardinality(Fixed) : SetToSeq(Fixed)[i] \in Fixed
    BY <1>7, ListedOnce
  <2>2. \A i \in 1..Cardinality(Fixed) : W3(SetToSeq(Fixed)[i]) \in W
    BY <1>7, <1>12, <2>1
  <2> QED
    BY <2>1, <2>2
<1>22. A4 \in Seq(W)
  <2>1. /\ Cardinality(Broke) \in Nat
        /\ \A i \in 1..Cardinality(Broke) : SetToSeq(Broke)[i] \in Broke
    BY <1>7, ListedOnce
  <2>2. \A i \in 1..Cardinality(Broke) : W4(SetToSeq(Broke)[i]) \in W
    BY <1>7, <1>13, <2>1
  <2> QED
    BY <2>1, <2>2
<1>23. A5 \in Seq(W)
  <2>1. /\ Cardinality(Devs) \in Nat
        /\ \A i \in 1..Cardinality(Devs) : SetToSeq(Devs)[i] \in Devs
    BY <1>7, ListedOnce
  <2>2. \A i \in 1..Cardinality(Devs) : W5(SetToSeq(Devs)[i]) \in W
    BY <1>14, <2>1
  <2> QED
    BY <2>1, <2>2
<1>24. A6 \in Seq(W)
  <2>1. /\ Cardinality(Capas) \in Nat
        /\ \A i \in 1..Cardinality(Capas) : SetToSeq(Capas)[i] \in Capas
    BY <1>7, ListedOnce
  <2>2. \A i \in 1..Cardinality(Capas) : W6(SetToSeq(Capas)[i]) \in W
    BY <1>15, <2>1
  <2> QED
    BY <2>1, <2>2
<1>25. A \in Seq(W) /\ Z \in Seq(W)
  BY <1>16, <1>17, <1>18
<1> HIDE DEF A, A1, A2, A3, A4, A5, A6, Z
<1>26. S1 \in Seq(W)
  BY <1>19, <1>25
<1> HIDE DEF S1
<1>27. S2 \in Seq(W)
  BY <1>20, <1>26
<1> HIDE DEF S2
<1>28. S3 \in Seq(W)
  BY <1>21, <1>27
<1> HIDE DEF S3
<1>29. S4 \in Seq(W)
  BY <1>22, <1>28
<1> HIDE DEF S4
<1>30. S5 \in Seq(W)
  BY <1>23, <1>29
<1> HIDE DEF S5
<1>31. S6 \in Seq(W)
  BY <1>24, <1>30
<1> HIDE DEF S6
<1>32. ws \in Seq(W)
  BY <1>25, <1>31
<1> HIDE DEF ws
<1>33. Handle(ws, next) /\ call' = call
  BY <1>1, <1>2
<1> QED
  BY <1>1, <1>3, <1>5, <1>32, <1>33, Plain DEF K, W

LEMMA FinishStep ==
  ASSUME StorageInv, Finish
  PROVE  StorageInv'
<1>1. phase = "running" /\ Finalise("finished") /\ (now' = now \/ now' = now + 1)
  BY DEF Finish
<1> QED
  BY <1>1, FinaliseStep

LEMMA StopServiceStep ==
  ASSUME StorageInv, StopService
  PROVE  StorageInv'
<1>1. phase = "finished" /\ Finalise("finished") /\ now' = now
  BY DEF StopService
<1> QED
  BY <1>1, FinaliseStep

-----------------------------------------------------------------------------
\* Every step of the specification keeps the stores as they should be.
LEMMA StorageStep ==
  ASSUME StorageInv, [Next]_vars
  PROVE  StorageInv'
<1>1. CASE Run
  BY <1>1, RunStep
<1>2. CASE BeginShift
  BY <1>2, BeginShiftStep
<1>3. CASE ClockIn
  BY <1>3, ClockInStep
<1>4. CASE EndShift
  BY <1>4, EndShiftStep
<1>5. ASSUME NEW b \in Batches, StartBatch(b) \/ EndBatch(b) PROVE StorageInv'
  BY <1>5, StartBatchStep, EndBatchStep
<1>6. ASSUME NEW e \in Episodes, Onset(e) \/ Fault(e) \/ MaintenanceDone(e) PROVE StorageInv'
  BY <1>6, OnsetStep, FaultStep, MaintenanceStep
<1>7. ASSUME NEW v \in Deviations, Investigate(v) PROVE StorageInv'
  BY <1>7, InvestigateStep
<1>8. CASE Sample
  BY <1>8, SampleStep
<1>9. CASE LabelTick
  BY <1>9, LabelTickStep
<1>10. CASE HousekeepingTick
  BY <1>10, HousekeepingStep
<1>11. CASE Finish
  BY <1>11, FinishStep
<1>12. CASE CloseStores
  BY <1>12, StorageClose
<1>13. CASE StopService
  BY <1>13, StopServiceStep
<1>14. CASE StopFeed \/ UNCHANGED vars
  <2>1. UNCHANGED <<d, phase, call, finishes, now, shift, batch, truth, deviation, moves, outages>>
    BY <1>14 DEF StopFeed, vars, usage, plant
  <2>2. PlantType' /\ StoresInv' /\ Standing' = Standing
    BY <2>1, StandingKept DEF PlantType, StorageInv, StoresInv
  <2> QED
    BY <2>1, <2>2 DEF StorageInv
<1> QED
  BY <1>1, <1>2, <1>3, <1>4, <1>5, <1>6, <1>7, <1>8, <1>9, <1>10, <1>11, <1>12, <1>13,
     <1>14 DEF Next, Terminated

\* So the invariant holds throughout.
LEMMA StorageHolds == Spec => []StorageInv
BY StorageInit, StorageStep, PTL DEF Spec

(* As long as the store itself has not failed no row is lost: whatever the  *)
(* flush threshold and the order of the handlers, a row reaches the store   *)
(* with or after every row its foreign keys name (facade.py:141).           *)
THEOREM NothingRefused == Spec => []NoRowRefused
<1>1. StorageInv => NoRowRefused
  <2> SUFFICES ASSUME StorageInv, outages = 0 PROVE d.lost = {}
    BY DEF NoRowRefused
  <2>1. d.failed = {} /\ LostDescend(d)
    BY DEF StorageInv, StoresInv, Trusted, Sound
  <2> QED
    BY <2>1, NoneHit DEF LostDescend
<1> QED
  BY <1>1, StorageHolds, PTL

(* After any number of failures of a SQLite store, each in any call of any   *)
(* handler, a row is only missing if its own table, or one it depends on,    *)
(* was in the call that failed (facade.py:141).                              *)
THEOREM LossesStayBelow == Spec => []LossesDescend
<1>1. StorageInv => LossesDescend
  <2> SUFFICES ASSUME StorageInv, d.backend = "sqlite", NEW r \in d.lost
               PROVE  r[1] \in d.failed \/ Ancestors[r[1]] \cap d.failed # {}
    BY DEF LossesDescend
  <2>1. LostDescend(d)
    BY DEF StorageInv, StoresInv, Trusted, Sound
  <2> QED
    BY <2>1 DEF LostDescend, Hit
<1> QED
  BY <1>1, StorageHolds, PTL

(* A run that closed its stores left nothing behind in the facade or the     *)
(* writers: the newest version of every relational row is committed or was   *)
(* lost with a failed call, and every file holds what was given to it, once  *)
(* each and in order (facade.py:168).                                        *)
THEOREM ClosedRunsAreComplete == Spec => []EverythingStored
<1>1. StorageInv => EverythingStored
  BY DEF StorageInv, Complete, EverythingStored, FileTables
<1> QED
  BY <1>1, StorageHolds, PTL

=============================================================================
