----------------------------- MODULE StartupSafety -----------------------------
(***************************************************************************)
(* Proofs about what is worked out from the configuration before and while  *)
(* it is used, for every table of states and every set of QC rules:         *)
(*                                                                          *)
(*   RoutedByTheFirstShortest  the search for a route and the walk along it *)
(*   OrderedUnlessCyclic       the registry orders what has no cycle        *)
(*   EachTestComputedOnce      no test of a batch is missing or repeated    *)
(*   TestsReadWhatWasMeasured  and none reads a stand-in for a result       *)
(*                                                                          *)
(* Routes: paths are compared by length and then by state names.  Every     *)
(* path in the queue comes before all other legal ones to where it ends,    *)
(* and the queue is in that order; a way to a state not seen yet passes the *)
(* end of one of them, so that the first path to reach a state is the first *)
(* there is.                                                                *)
(*                                                                          *)
(* Tests: the order of the registry puts a parameter after all it reads,    *)
(* and picking out candidates keeps it, so that what a test reads is        *)
(* computed before the test or not at all.                                  *)
(***************************************************************************)
EXTENDS StateRouting, QualityControl, FiniteSetTheorems, SequenceTheorems,
        WellFoundedInduction, TLAPS

-----------------------------------------------------------------------------
\* Induction over an interval.

Preceding == OpToRel(<, Nat)

\* A set of natural numbers that is not empty has a least one.
LEMMA Least ==
  ASSUME NEW T \in SUBSET Nat, T # {}
  PROVE  \E n \in T : \A k \in T : n <= k
<1>1. IsWellFoundedOn(Preceding, Nat)
  BY NatLessThanWellFounded DEF Preceding
<1>2. \A m, n \in Nat : m < n => <<m, n>> \in Preceding
  BY DEF Preceding, OpToRel
<1>3. PICK n \in T : \A k \in T : ~ (<<k, n>> \in Preceding)
  BY <1>1, WFMin
<1>4. ASSUME NEW k \in T PROVE n <= k
  <2>1. n \in Nat /\ k \in Nat
    OBVIOUS
  <2>2. ~ (k < n)
    BY <1>2, <1>3, <2>1
  <2> QED
    BY <2>1, <2>2
<1> QED
  BY <1>4

\* What holds at 0 and is kept by each step up to n holds up to n.
LEMMA Along ==
  ASSUME NEW n \in Nat, NEW T, 0 \in T,
         \A i \in 1..n : i - 1 \in T => i \in T
  PROVE  0..n \subseteq T
<1> DEFINE Missing == {i \in 0..n : i \notin T}
<1>1. SUFFICES ASSUME Missing # {} PROVE FALSE
  OBVIOUS
<1>2. PICK m \in Missing : \A k \in Missing : m <= k
  <2>1. Missing \in SUBSET Nat
    OBVIOUS
  <2> HIDE DEF Missing
  <2> QED
    BY <1>1, <2>1, Least
<1>3. m \in 1..n /\ m - 1 \in 0..n /\ ~ (m <= m - 1)
  BY <1>2
<1>4. m - 1 \in T
  BY <1>2, <1>3
<1> QED
  BY <1>2, <1>3, <1>4

-----------------------------------------------------------------------------
\* The order of the neighbours.

\* s enumerates S from the least to the greatest.
Ascends(s, S) ==
  /\ s \in [1..Cardinality(S) -> S]
  /\ \A i, j \in 1..Cardinality(S) : i < j => s[i] < s[j]

\* A set of states has such an enumeration: that of its members below n + 1 is the one
\* of those below n, with n at its end if n is a member.
LEMMA AscendingExists ==
  ASSUME NEW S \in SUBSET Node
  PROVE  IsFiniteSet(S) /\ \E s : Ascends(s, S)
<1> USE NPositive
<1> DEFINE Below(n) == S \cap (1..n)
           T == {n \in 0..N : IsFiniteSet(Below(n)) /\ \E s : Ascends(s, Below(n))}
<1>1. 0 \in T
  <2>1. Below(0) = {}
    OBVIOUS
  <2>2. IsFiniteSet({}) /\ Cardinality({}) = 0
    BY FS_EmptySet
  <2>3. Ascends(<<>>, {})
    BY <2>2 DEF Ascends
  <2> QED
    BY <2>1, <2>2, <2>3
<1>2. ASSUME NEW n \in 1..N, n - 1 \in T PROVE n \in T
  <2>1. PICK s : Ascends(s, Below(n - 1))
    BY <1>2
  <2>2. IsFiniteSet(Below(n - 1))
    BY <1>2
  <2>3. CASE n \notin S
    <3>1. Below(n) = Below(n - 1)
      BY <2>3, <1>2
    <3>2. IsFiniteSet(Below(n)) /\ Ascends(s, Below(n))
      BY ONLY <3>1, <2>1, <2>2
    <3> QED
      BY <3>2
  <2>4. CASE n \in S
    <3> DEFINE B == Below(n - 1)
               k == Cardinality(B)
               r == [i \in 1..k + 1 |-> IF i = k + 1 THEN n ELSE s[i]]
    <3>1. Below(n) = B \cup {n} /\ n \notin B
      BY <2>4
    <3>2. IsFiniteSet(Below(n)) /\ Cardinality(Below(n)) = k + 1
      BY <2>2, <3>1, FS_AddElement
    <3>3. k \in Nat
      BY <2>2, FS_CardinalityType
    <3>4. \A b \in B : b \in Nat /\ b < n
      OBVIOUS
    <3>5. s \in [1..k -> B] /\ \A i, j \in 1..k : i < j => s[i] < s[j]
      BY <2>1 DEF Ascends
    <3> HIDE DEF B, k
    <3>6. r \in [1..k + 1 -> B \cup {n}]
      BY <3>3, <3>5
    <3>7. ASSUME NEW i \in 1..k + 1, NEW j \in 1..k + 1, i < j PROVE r[i] < r[j]
      <4>1. i \in 1..k /\ r[i] = s[i] /\ s[i] \in B
        BY <3>3, <3>5, <3>7
      <4>2. CASE j = k + 1
        BY <4>1, <4>2, <3>4
      <4>3. CASE j \in 1..k
        <5>1. r[j] = s[j]
          BY <4>3, <3>3
        <5> QED
          BY <4>1, <4>3, <5>1, <3>5, <3>7
      <4> QED
        BY <4>2, <4>3, <3>3
    <3> HIDE DEF r
    <3>8. Ascends(r, Below(n))
      BY <3>1, <3>2, <3>6, <3>7 DEF Ascends
    <3> QED
      BY <3>2, <3>8
  <2> QED
    BY <2>3, <2>4
<1>3. N \in T
  <2> HIDE DEF T
  <2> QED
    BY <1>1, <1>2, Along
<1>4. Below(N) = S
  BY DEF Node
<1> QED
  BY <1>3, <1>4

\* An ascending enumeration leaves none of its set out.
LEMMA AscendingCovers ==
  ASSUME NEW S \in SUBSET Nat, IsFiniteSet(S), NEW s, Ascends(s, S)
  PROVE  \A x \in S : \E i \in 1..Cardinality(S) : s[i] = x
<1> DEFINE k == Cardinality(S)
<1>1. k \in Nat /\ IsFiniteSet(1..k) /\ Cardinality(1..k) = k
  BY FS_CardinalityType, FS_Interval
<1>2. s \in [1..k -> S] /\ \A i, j \in 1..k : i < j => s[i] < s[j]
  BY DEF Ascends
<1> HIDE DEF k
<1>3. \A i, j \in 1..k : s[i] = s[j] => i = j
  <2> SUFFICES ASSUME NEW i \in 1..k, NEW j \in 1..k, s[i] = s[j], i # j PROVE FALSE
    OBVIOUS
  <2>1. s[i] \in Nat /\ s[j] \in Nat
    BY <1>2
  <2>2. i < j \/ j < i
    BY <1>1
  <2> QED
    BY <1>2, <2>1, <2>2
<1>4. s \in Injection(1..k, S)
  BY <1>2, <1>3 DEF Injection, IsInjective
<1>5. s \in Surjection(1..k, S)
  BY <1>1, <1>4, FS_Injection DEF k
<1>6. \A x \in S : \E i \in 1..k : s[i] = x
  BY <1>5 DEF Surjection
<1> QED
  BY <1>6 DEF k

\* The neighbours of a state that are new, each once, in the order of the state names.
LEMMA NeighboursAscend ==
  ASSUME NEW path, Fresh(path) \subseteq Node
  PROVE  /\ IsFiniteSet(Fresh(path)) /\ Cardinality(Fresh(path)) \in Nat
         /\ Ascends(Neighbours(path), Fresh(path))
         /\ \A x \in Fresh(path) :
               \E i \in 1..Cardinality(Fresh(path)) : Neighbours(path)[i] = x
<1> DEFINE F == Fresh(path)
<1>1. IsFiniteSet(F) /\ \E s : Ascends(s, F)
  BY AscendingExists
<1>2. Ascends(Neighbours(path), F)
  BY <1>1 DEF Ascends, Neighbours, Ordered
<1>3. Cardinality(F) \in Nat /\ F \subseteq Nat
  BY <1>1, FS_CardinalityType, NPositive DEF Node
<1>4. \A x \in F : \E i \in 1..Cardinality(F) : Neighbours(path)[i] = x
  <2> DEFINE nb == Neighbours(path)
  <2>1. Ascends(nb, F) /\ F \in SUBSET Nat /\ IsFiniteSet(F)
    BY <1>1, <1>2, <1>3
  <2> HIDE DEF F, nb
  <2>2. \A x \in F : \E i \in 1..Cardinality(F) : nb[i] = x
    BY ONLY <2>1, AscendingCovers
  <2> QED
    BY <2>2 DEF nb
<1> HIDE DEF F
<1> QED
  BY <1>1, <1>2, <1>3, <1>4 DEF F

-----------------------------------------------------------------------------
\* The order in which the search finds paths: shorter ones first, of equal ones
\* the first in the order of the state names.

Earlier(v, w) ==
  \/ Len(v) < Len(w)
  \/ Len(v) = Len(w) /\ Before(v, w)

NoLater(v, w) == v = w \/ Earlier(v, w)

\* Of three paths of one length.
LEMMA BeforeTransitive ==
  ASSUME NEW u \in Seq(Node), NEW v \in Seq(Node), NEW w \in Seq(Node),
         Len(u) = Len(v), Len(v) = Len(w), Before(u, v), Before(v, w)
  PROVE  Before(u, w)
<1>0. Node \subseteq Nat
  BY NPositive DEF Node
<1>1. PICK i \in 1..Len(u) : u[i] < v[i] /\ \A j \in 1..(i - 1) : u[j] = v[j]
  BY DEF Before
<1>2. PICK k \in 1..Len(v) : v[k] < w[k] /\ \A j \in 1..(k - 1) : v[j] = w[j]
  BY DEF Before
<1>3. \A n \in 1..Len(u) : u[n] \in Nat /\ v[n] \in Nat /\ w[n] \in Nat
  <2>1. \A n \in 1..Len(u) : u[n] \in Node /\ v[n] \in Node /\ w[n] \in Node
    OBVIOUS
  <2> QED
    BY <2>1, <1>0
<1>4. Len(u) \in Nat /\ DOMAIN u = 1..Len(u)
  OBVIOUS
<1>5. CASE i < k
  <2>1. u[i] < w[i] /\ \A j \in 1..(i - 1) : u[j] = w[j]
    BY <1>1, <1>2, <1>4, <1>5
  <2> QED
    BY <2>1, <1>4 DEF Before
<1>6. CASE i = k
  <2>1. u[i] < w[i] /\ \A j \in 1..(i - 1) : u[j] = w[j]
    BY <1>1, <1>2, <1>3, <1>4, <1>6
  <2> QED
    BY <2>1, <1>4 DEF Before
<1>7. CASE k < i
  <2>1. u[k] < w[k] /\ \A j \in 1..(k - 1) : u[j] = w[j]
    BY <1>1, <1>2, <1>4, <1>7
  <2>2. k \in DOMAIN u
    BY <1>4
  <2> QED
    BY <2>1, <2>2 DEF Before
<1> QED
  BY <1>5, <1>6, <1>7

\* The order of paths is transitive.
LEMMA EarlierTransitive ==
  ASSUME NEW u \in Seq(Node), NEW v \in Seq(Node), NEW w \in Seq(Node)
  PROVE  /\ Earlier(u, v) /\ Earlier(v, w) => Earlier(u, w)
         /\ NoLater(u, v) /\ NoLater(v, w) => NoLater(u, w)
<1>1. Len(u) \in Nat /\ Len(v) \in Nat /\ Len(w) \in Nat
  OBVIOUS
<1>2. Earlier(u, v) /\ Earlier(v, w) => Earlier(u, w)
  BY <1>1, BeforeTransitive DEF Earlier
<1> QED
  BY <1>2 DEF NoLater

\* Paths that are extended by a state each keep their order.
LEMMA AppendKeepsOrder ==
  ASSUME NEW u \in Seq(Node), NEW v \in Seq(Node), NEW a \in Node, NEW b \in Node
  PROVE  /\ Earlier(u, v) => Earlier(Append(u, a), Append(v, b))
         /\ a < b => Earlier(Append(u, a), Append(u, b))
<1>1. /\ Len(u) \in Nat /\ Len(v) \in Nat
      /\ Append(u, a) \in Seq(Node) /\ Len(Append(u, a)) = Len(u) + 1
      /\ Append(v, b) \in Seq(Node) /\ Len(Append(v, b)) = Len(v) + 1
      /\ Append(u, b) \in Seq(Node) /\ Len(Append(u, b)) = Len(u) + 1
      /\ \A i \in 1..Len(u) : Append(u, a)[i] = u[i] /\ Append(u, b)[i] = u[i]
      /\ \A i \in 1..Len(v) : Append(v, b)[i] = v[i]
      /\ Append(u, a)[Len(u) + 1] = a /\ Append(u, b)[Len(u) + 1] = b
      /\ DOMAIN Append(u, a) = 1..(Len(u) + 1)
  OBVIOUS
<1>2. ASSUME Earlier(u, v) PROVE Earlier(Append(u, a), Append(v, b))
  <2>1. CASE Len(u) < Len(v)
    BY <2>1, <1>1 DEF Earlier
  <2>2. CASE Len(u) = Len(v) /\ Before(u, v)
    <3>1. PICK i \in 1..Len(u) : u[i] < v[i] /\ \A j \in 1..(i - 1) : u[j] = v[j]
      BY <2>2 DEF Before
    <3>2. i \in 1..(Len(u) + 1) /\ Append(u, a)[i] < Append(v, b)[i]
      BY <1>1, <2>2, <3>1
    <3>3. \A j \in 1..(i - 1) : Append(u, a)[j] = Append(v, b)[j]
      BY <1>1, <2>2, <3>1
    <3>4. Before(Append(u, a), Append(v, b))
      BY <1>1, <3>2, <3>3 DEF Before
    <3> QED
      BY <1>1, <2>2, <3>4 DEF Earlier
  <2> QED
    BY <1>2, <2>1, <2>2 DEF Earlier
<1>3. ASSUME a < b PROVE Earlier(Append(u, a), Append(u, b))
  <2>1. /\ Len(u) + 1 \in 1..(Len(u) + 1)
        /\ Append(u, a)[Len(u) + 1] < Append(u, b)[Len(u) + 1]
        /\ \A j \in 1..(Len(u) + 1 - 1) : Append(u, a)[j] = Append(u, b)[j]
    BY <1>1, <1>3
  <2>2. Before(Append(u, a), Append(u, b))
    BY <1>1, <2>1 DEF Before
  <2> QED
    BY <1>1, <2>2 DEF Earlier
<1> QED
  BY <1>2, <1>3

-----------------------------------------------------------------------------
\* Legal walks.

\* Where a walk is after i moves.
At(w, i) == IF i = 0 THEN source ELSE w[i]

\* A walk every move of which the table allows.
Legal(w) == w \in Seq(Node) /\ \A i \in 1..Len(w) : w[i] \in table[At(w, i - 1)]

\* The end of a walk is where it is after its last move.
LEMMA EndIsAt ==
  ASSUME NEW w \in Seq(Node) PROVE End(w) = At(w, Len(w))
<1>1. w = << >> <=> Len(w) = 0
  BY EmptySeq
<1> QED
  BY <1>1 DEF End, At, Last

\* One more move ends where it leads.
LEMMA EndOfAppend ==
  ASSUME NEW w \in Seq(Node), NEW n \in Node
  PROVE  End(Append(w, n)) = n
<1> DEFINE u == Append(w, n)
<1>1. u \in Seq(Node) /\ Len(u) = Len(w) + 1 /\ Len(w) \in Nat /\ u[Len(w) + 1] = n
  OBVIOUS
<1> HIDE DEF u
<1>2. End(u) = At(u, Len(u)) /\ Len(u) # 0
  BY <1>1, EndIsAt
<1>3. End(u) = n
  BY <1>1, <1>2 DEF At
<1> QED
  BY <1>3 DEF u

\* The walks of the reference are the legal walks to the target.
LEMMA WalksAreLegal ==
  ASSUME NEW k \in Nat \ {0}, NEW w
  PROVE  w \in Walks(k) <=> Legal(w) /\ Len(w) = k /\ End(w) = target
<1>1. ASSUME w \in Walks(k) PROVE Legal(w) /\ Len(w) = k /\ End(w) = target
  <2>1. /\ w \in [1..k -> Node] /\ w[k] = target /\ w[1] \in table[source]
        /\ \A i \in 1..(k - 1) : w[i + 1] \in table[w[i]]
    BY <1>1 DEF Walks
  <2>2. w \in Seq(Node) /\ Len(w) = k
    BY <2>1
  <2>3. ASSUME NEW i \in 1..k PROVE w[i] \in table[At(w, i - 1)]
    <3>1. CASE i = 1
      BY <2>1, <3>1 DEF At
    <3>2. CASE i # 1
      <4>1. i - 1 \in 1..(k - 1) /\ i - 1 # 0 /\ (i - 1) + 1 = i
        BY <3>2
      <4> QED
        BY <2>1, <4>1 DEF At
    <3> QED
      BY <3>1, <3>2
  <2>4. End(w) = target
    BY <2>1, <2>2, EndIsAt DEF At
  <2> QED
    BY <2>2, <2>3, <2>4 DEF Legal
<1>2. ASSUME Legal(w), Len(w) = k, End(w) = target PROVE w \in Walks(k)
  <2>1. w \in Seq(Node) /\ \A i \in 1..k : w[i] \in table[At(w, i - 1)]
    BY <1>2 DEF Legal
  <2>2. w[k] = target
    BY <1>2, <2>1, EndIsAt DEF At
  <2>3. w[1] \in table[source]
    <3>1. 1 \in 1..k /\ 1 - 1 = 0
      OBVIOUS
    <3> QED
      BY <2>1, <3>1 DEF At
  <2>4. ASSUME NEW i \in 1..(k - 1) PROVE w[i + 1] \in table[w[i]]
    <3>1. i + 1 \in 1..k /\ (i + 1) - 1 = i /\ i # 0
      OBVIOUS
    <3> QED
      BY <2>1, <3>1 DEF At
  <2>5. w \in [1..k -> Node]
    BY <1>2, <2>1
  <2> QED
    BY <2>2, <2>3, <2>4, <2>5 DEF Walks
<1> QED
  BY <1>1, <1>2

\* The first part of a legal walk is one, and so is one with a legal move added.
LEMMA LegalPrefix ==
  ASSUME NEW w, Legal(w), NEW i \in 0..Len(w)
  PROVE  LET u == SubSeq(w, 1, i)
         IN  /\ Legal(u) /\ Len(u) = i /\ End(u) = At(w, i)
             /\ \A j \in 1..i : u[j] = w[j]
<1> DEFINE u == SubSeq(w, 1, i)
<1>1. w \in Seq(Node) /\ \A j \in 1..Len(w) : w[j] \in table[At(w, j - 1)]
  BY DEF Legal
<1>2. u \in Seq(Node) /\ Len(u) = i /\ \A j \in 1..i : u[j] = w[j]
  BY <1>1
<1> HIDE DEF u
<1>3. \A j \in 0..i : At(u, j) = At(w, j)
  BY <1>2 DEF At
<1>4. ASSUME NEW j \in 1..i PROVE u[j] \in table[At(u, j - 1)]
  <2>1. j \in 1..Len(w) /\ j - 1 \in 0..i
    BY <1>1
  <2> QED
    BY <1>1, <1>2, <1>3, <2>1
<1>5. Legal(u)
  BY <1>2, <1>4 DEF Legal
<1>6. End(u) = At(w, i)
  BY <1>2, <1>3, EndIsAt
<1> QED
  BY <1>2, <1>5, <1>6 DEF u

\* A legal move at the end.
LEMMA LegalAppend ==
  ASSUME NEW w, Legal(w), NEW n \in Node, n \in table[End(w)]
  PROVE  Legal(Append(w, n)) /\ End(Append(w, n)) = n
<1> DEFINE u == Append(w, n)
           k == Len(w)
<1>1. w \in Seq(Node) /\ \A j \in 1..k : w[j] \in table[At(w, j - 1)]
  BY DEF Legal
<1>2. /\ u \in Seq(Node) /\ Len(u) = k + 1 /\ k \in Nat
      /\ u[k + 1] = n /\ \A j \in 1..k : u[j] = w[j]
  BY <1>1
<1>3. End(w) = At(w, k)
  BY <1>1, EndIsAt
<1> HIDE DEF u, k
<1>4. \A j \in 0..k : At(u, j) = At(w, j)
  BY <1>2 DEF At
<1>5. ASSUME NEW j \in 1..(k + 1) PROVE u[j] \in table[At(u, j - 1)]
  <2>1. j - 1 \in 0..k /\ (j \in 1..k \/ j = k + 1)
    BY <1>2
  <2>2. CASE j \in 1..k
    BY <1>1, <1>2, <1>4, <2>1, <2>2
  <2>3. CASE j = k + 1
    <3>1. j - 1 = k /\ At(u, k) = At(w, k)
      BY <2>3, <1>2, <1>4
    <3> QED
      BY <1>2, <1>3, <2>3, <3>1
  <2> QED
    BY <2>1, <2>2, <2>3
<1>6. End(u) = n
  BY <1>1, EndOfAppend DEF u
<1>7. Legal(u)
  BY <1>2, <1>5 DEF Legal
<1> QED
  BY <1>6, <1>7 DEF u

-----------------------------------------------------------------------------
\* The search.

\* No state comes twice in a path, nor does the one it starts from.
Simple(p) ==
  /\ \A i \in 1..Len(p) : p[i] \in seen \ {source}
  /\ \A i, j \in 1..Len(p) : p[i] = p[j] => i = j

\* No legal walk to the end of this path comes before it.
First(p) == \A w \in Seq(Node) : Legal(w) /\ End(w) = End(p) => NoLater(p, w)

\* The paths in the queue.
QueueInv ==
  /\ queue \in Seq(Seq(Node))
  /\ \A j \in 1..Len(queue) : Legal(queue[j]) /\ Simple(queue[j]) /\ First(queue[j])

\* They are in order, and so are those the first one is about to be replaced by: a path
\* that is longer than the first extends one that came before it.
QueueOrder ==
  /\ \A i, j \in 1..Len(queue) : i < j => Earlier(queue[i], queue[j])
  /\ \A j \in 1..Len(queue) :
        \/ Len(queue[j]) = Len(queue[1])
        \/ /\ Len(queue[j]) = Len(queue[1]) + 1
           /\ Earlier(SubSeq(queue[j], 1, Len(queue[1])), queue[1])

\* A state that was seen is in the queue, or so is or was every state next to it.
SeenInv ==
  /\ seen \in SUBSET Node /\ source \in seen /\ target \notin seen
  /\ \A s \in seen : table[s] \subseteq seen \/ \E j \in 1..Len(queue) : End(queue[j]) = s

RoutingType ==
  /\ table \in Tables /\ source \in Node /\ target \in Node
  /\ pc \in {"search", "walk", "done"}

SearchInv == QueueInv /\ QueueOrder /\ SeenInv

\* A walk to a state that was not seen leaves what was seen.
LEMMA LeavesTheSeen ==
  ASSUME NEW w \in Seq(Node), End(w) \notin seen, source \in seen
  PROVE  \E i \in 1..Len(w) : At(w, i - 1) \in seen /\ At(w, i) \notin seen
<1> DEFINE T == {i \in 0..Len(w) : At(w, i) \in seen}
<1>1. SUFFICES ASSUME \A i \in 1..Len(w) : At(w, i - 1) \in seen => At(w, i) \in seen
               PROVE  FALSE
  OBVIOUS
<1>2. 0 \in T
  BY DEF At
<1>3. \A i \in 1..Len(w) : i - 1 \in T => i \in T
  BY <1>1
<1>4. Len(w) \in Nat /\ Len(w) \notin T
  BY EndIsAt
<1> HIDE DEF T
<1>5. 0..Len(w) \subseteq T
  BY <1>2, <1>3, <1>4, Along
<1> QED
  BY <1>4, <1>5

\* Where it leaves, it has come to the end of a path in the queue, and no earlier than that.
LEMMA PassesTheQueue ==
  ASSUME SearchInv, NEW w, Legal(w), End(w) \notin seen
  PROVE  \E i \in 0..(Len(w) - 1), j \in 1..Len(queue) :
            NoLater(queue[j], SubSeq(w, 1, i))
<1>1. w \in Seq(Node) /\ \A i \in 1..Len(w) : w[i] \in table[At(w, i - 1)]
  BY DEF Legal
<1>2. PICK i \in 1..Len(w) : At(w, i - 1) \in seen /\ At(w, i) \notin seen
  BY <1>1, LeavesTheSeen DEF SearchInv, SeenInv
<1> DEFINE u == SubSeq(w, 1, i - 1)
<1>3. i - 1 \in 0..Len(w) /\ i # 0
  BY <1>1
<1>4. Legal(u) /\ End(u) = At(w, i - 1)
  BY <1>3, LegalPrefix
<1>5. ~ (table[At(w, i - 1)] \subseteq seen)
  <2>1. At(w, i) = w[i]
    BY <1>3 DEF At
  <2> QED
    BY <1>1, <1>2, <2>1
<1>6. PICK j \in 1..Len(queue) : End(queue[j]) = At(w, i - 1)
  BY <1>2, <1>5 DEF SearchInv, SeenInv
<1>7. u \in Seq(Node)
  BY <1>4 DEF Legal
<1> HIDE DEF u
<1>8. NoLater(queue[j], u)
  BY <1>4, <1>6, <1>7 DEF SearchInv, QueueInv, First
<1>9. i - 1 \in 0..(Len(w) - 1)
  BY <1>1
<1> QED
  BY <1>8, <1>9 DEF u

\* The path to a new neighbour is the first to it.
LEMMA NewPathsAreFirst ==
  ASSUME SearchInv, queue # << >>, NEW n \in Node, n \notin seen
  PROVE  First(Append(queue[1], n))
<1> DEFINE h == queue[1]
           p == Append(h, n)
<1>1. queue \in Seq(Seq(Node)) /\ 1 \in 1..Len(queue) /\ h \in Seq(Node)
  <2>1. queue \in Seq(Seq(Node))
    BY DEF SearchInv, QueueInv
  <2> QED
    BY <2>1
<1>2. /\ p \in Seq(Node) /\ Len(p) = Len(h) + 1 /\ Len(h) \in Nat /\ End(p) = n
  BY <1>1, EndOfAppend
<1>3. SUFFICES ASSUME NEW w \in Seq(Node), Legal(w), End(w) = n PROVE NoLater(p, w)
  BY <1>2 DEF First
<1>4. PICK i \in 0..(Len(w) - 1), j \in 1..Len(queue) : NoLater(queue[j], SubSeq(w, 1, i))
  BY <1>3, PassesTheQueue
<1> DEFINE u == SubSeq(w, 1, i)
<1>5. u \in Seq(Node) /\ Len(u) = i /\ \A k \in 1..i : u[k] = w[k]
  BY <1>3
<1>6. queue[j] \in Seq(Node)
  BY <1>1
<1>7. NoLater(h, queue[j])
  <2>1. j = 1 \/ 1 < j
    BY <1>1
  <2> QED
    BY <1>1, <2>1 DEF SearchInv, QueueOrder, NoLater
<1> HIDE DEF u, h
<1>8. NoLater(h, u)
  BY <1>1, <1>4, <1>5, <1>6, <1>7, EarlierTransitive DEF u
<1>9. CASE Len(h) < i
  <2>1. Len(p) < Len(w)
    BY <1>2, <1>3, <1>9
  <2> QED
    BY <2>1 DEF NoLater, Earlier
<1>10. CASE Len(h) = i /\ i + 1 < Len(w)
  <2>1. Len(p) < Len(w)
    BY <1>2, <1>10
  <2> QED
    BY <2>1 DEF NoLater, Earlier
<1>11. CASE Len(h) = i /\ i + 1 = Len(w)
  <2>1. w[i + 1] = n
    <3>1. End(w) = At(w, i + 1) /\ i + 1 # 0
      BY <1>3, <1>11, EndIsAt
    <3> QED
      BY <1>3, <3>1 DEF At
  <2>2. w = Append(u, n)
    <3>1. Append(u, n) \in Seq(Node) /\ Len(Append(u, n)) = i + 1
          /\ Append(u, n)[i + 1] = n /\ \A k \in 1..i : Append(u, n)[k] = u[k]
      BY <1>5
    <3>2. \A k \in 1..(i + 1) : Append(u, n)[k] = w[k]
      <4>1. \A k \in 1..(i + 1) : k \in 1..i \/ k = i + 1
        OBVIOUS
      <4> QED
        BY <1>5, <2>1, <3>1, <4>1
    <3> QED
      BY <1>3, <1>11, <3>1, <3>2, SeqEqual
  <2>3. CASE h = u
    BY <2>2, <2>3 DEF NoLater
  <2>4. CASE Earlier(h, u)
    <3>1. Earlier(p, w)
      BY <1>1, <1>5, <2>2, <2>4, AppendKeepsOrder
    <3> QED
      BY <3>1 DEF NoLater
  <2> QED
    BY <1>8, <2>3, <2>4 DEF NoLater
<1>12. Len(h) <= i
  BY <1>2, <1>5, <1>8 DEF NoLater, Earlier
<1> QED
  BY <1>2, <1>3, <1>9, <1>10, <1>11, <1>12

-----------------------------------------------------------------------------
\* What a turn does to the queue.

\* While the table and the start stay, so does what is said about walks.
LEMMA Unmoved ==
  ASSUME table' = table, source' = source
  PROVE  /\ \A w, i : At(w, i)' = At(w, i)
         /\ \A w : End(w)' = End(w)
         /\ \A w : Legal(w)' <=> Legal(w)
         /\ \A w : First(w)' <=> First(w)
<1>1. \A w, i : At(w, i)' = At(w, i)
  BY DEF At
<1>2. \A w : End(w)' = End(w)
  BY DEF End
<1>3. \A w : Legal(w)' <=> Legal(w)
  BY DEF Legal, At
<1>4. \A w : First(w)' <=> First(w)
  BY <1>2, <1>3 DEF First
<1> QED
  BY <1>1, <1>2, <1>3, <1>4

\* The path at the head is replaced, at the end, by those to its new neighbours.
LEMMA QueueAfter ==
  ASSUME QueueInv, RoutingType, Expand
  PROVE  LET h == queue[1]
             l == Len(queue) - 1
             F == Fresh(h)
             m == Cardinality(F)
             nb == Neighbours(h)
         IN  /\ Head(queue) = h /\ h \in Seq(Node) /\ l \in Nat /\ m \in Nat
             /\ End(h) \in Node /\ F = table[End(h)] \ seen /\ F \subseteq Node
             /\ Ascends(nb, F) /\ \A x \in F : \E i \in 1..m : nb[i] = x
             /\ queue' \in Seq(Seq(Node)) /\ Len(queue') = l + m
             /\ \A j \in 1..l : queue'[j] = queue[j + 1]
             /\ \A i \in 1..m : queue'[l + i] = Append(h, nb[i])
<1> DEFINE h == queue[1]
           l == Len(queue) - 1
           F == Fresh(h)
           m == Cardinality(F)
           nb == Neighbours(h)
<1>1. queue \in Seq(Seq(Node)) /\ queue # << >>
  BY DEF QueueInv, Expand
<1>2. /\ Head(queue) = h /\ h \in Seq(Node) /\ l \in Nat
      /\ Tail(queue) \in Seq(Seq(Node)) /\ Len(Tail(queue)) = l
      /\ \A j \in 1..l : Tail(queue)[j] = queue[j + 1]
  BY <1>1
<1>3. End(h) \in Node
  <2>1. End(h) = At(h, Len(h)) /\ Len(h) \in Nat
    BY <1>2, EndIsAt
  <2>2. source \in Node
    BY DEF RoutingType
  <2>3. Len(h) # 0 => h[Len(h)] \in Node
    BY <1>2
  <2> QED
    BY <2>1, <2>2, <2>3 DEF At
<1>4. F = table[End(h)] \ seen
  BY DEF Fresh
<1>5. F \subseteq Node
  BY <1>3, <1>4 DEF RoutingType, Tables
<1>6. m \in Nat /\ Ascends(nb, F) /\ \A x \in F : \E i \in 1..m : nb[i] = x
  BY <1>5, NeighboursAscend
<1>7. nb \in [1..m -> F]
  BY <1>6 DEF Ascends
<1> DEFINE new == [i \in DOMAIN nb |-> Append(h, nb[i])]
<1>8. queue' = Tail(queue) \o new
  BY <1>2 DEF Expand
<1> HIDE DEF h, l, F, m, nb
<1>9. /\ new \in Seq(Seq(Node)) /\ Len(new) = m
      /\ \A i \in 1..m : new[i] = Append(h, nb[i])
  <2>1. DOMAIN nb = 1..m /\ \A i \in 1..m : Append(h, nb[i]) \in Seq(Node)
    BY <1>2, <1>5, <1>7
  <2> QED
    BY <1>6, <2>1
<1> HIDE DEF new
<1>10. queue' \in Seq(Seq(Node)) /\ Len(queue') = l + m
  <2>1. Tail(queue) \o new \in Seq(Seq(Node)) /\ Len(Tail(queue) \o new) = l + m
    BY <1>2, <1>9, ConcatProperties
  <2> QED
    BY <1>8, <2>1
<1>11. ASSUME NEW j \in 1..l PROVE queue'[j] = queue[j + 1]
  <2>1. queue'[j] = Tail(queue)[j]
    BY <1>2, <1>8, <1>9
  <2> QED
    BY <1>2, <2>1
<1>12. ASSUME NEW i \in 1..m PROVE queue'[l + i] = Append(h, nb[i])
  <2>1. queue'[l + i] = new[i]
    BY <1>2, <1>6, <1>8, <1>9
  <2> QED
    BY <1>9, <2>1
<1> QED
  BY <1>2, <1>3, <1>4, <1>5, <1>6, <1>10, <1>11, <1>12 DEF h, l, F, m, nb

\* A turn leaves paths in the queue that are legal, simple and first.
LEMMA ExpandKeepsQueue ==
  ASSUME SearchInv, RoutingType, Expand
  PROVE  QueueInv'
<1>1. PICK h, l, F, m, nb :
         /\ h = queue[1] /\ l = Len(queue) - 1 /\ F = Fresh(h)
         /\ m = Cardinality(F) /\ nb = Neighbours(h)
  OBVIOUS
<1>0. /\ h \in Seq(Node) /\ l \in Nat /\ m \in Nat
      /\ End(h) \in Node /\ F = table[End(h)] \ seen /\ F \subseteq Node
      /\ Ascends(nb, F)
      /\ queue' \in Seq(Seq(Node)) /\ Len(queue') = l + m
      /\ \A j \in 1..l : queue'[j] = queue[j + 1]
      /\ \A i \in 1..m : queue'[l + i] = Append(h, nb[i])
  BY <1>1, QueueAfter DEF SearchInv
<1>2. /\ \A w : End(w)' = End(w)
      /\ \A w : Legal(w)' <=> Legal(w)
      /\ \A w : First(w)' <=> First(w)
  BY Unmoved DEF Expand
<1>3. \A j \in 1..(l + 1) : Legal(queue[j]) /\ Simple(queue[j]) /\ First(queue[j])
  BY <1>1 DEF SearchInv, QueueInv
<1>4. source' = source /\ seen' = seen \cup F /\ queue # << >> /\ source \in seen
  <2>1. Head(queue) = h
    BY <1>1, QueueAfter DEF SearchInv
  <2> QED
    BY <1>1, <2>1 DEF Expand, Remember, SearchInv, SeenInv
<1>5. nb \in [1..m -> F]
  BY <1>0, <1>1 DEF Ascends
<1>6. \A j \in 1..Len(queue) : queue[j] \in Seq(Node)
  BY DEF SearchInv, QueueInv
<1>7. Legal(h) /\ Simple(h)
  <2>1. 1 \in 1..(l + 1)
    BY <1>0
  <2> QED
    BY <1>1, <1>3, <2>1
<1>8. \A n \in F : First(Append(h, n))
  BY <1>0, <1>1, <1>4, NewPathsAreFirst
<1>9. ASSUME NEW j \in 1..l
      PROVE  Legal(queue[j])' /\ Simple(queue[j])' /\ First(queue[j])'
  <2>1. queue'[j] = queue[j + 1] /\ j + 1 \in 1..(l + 1)
    BY <1>0
  <2>2. Legal(queue[j])' /\ First(queue[j])'
    BY <1>2, <1>3, <2>1
  <2>3. Simple(queue[j])'
    BY <1>3, <1>4, <2>1 DEF Simple
  <2> QED
    BY <2>2, <2>3
<1>10. ASSUME NEW i \in 1..m
       PROVE  Legal(queue[l + i])' /\ Simple(queue[l + i])' /\ First(queue[l + i])'
  <2> DEFINE n == nb[i]
             p == Append(h, n)
  <2>1. queue'[l + i] = p /\ n \in F /\ n \in Node
    BY <1>0, <1>5
  <2>2. Legal(p)
    BY <1>0, <1>7, <2>1, LegalAppend
  <2>3. Legal(queue[l + i])' /\ First(queue[l + i])'
    BY <1>2, <1>8, <2>1, <2>2
  <2>4. /\ Len(p) = Len(h) + 1 /\ Len(h) \in Nat /\ p[Len(h) + 1] = n
        /\ \A k \in 1..Len(h) : p[k] = h[k]
    BY <1>0, <2>1
  <2>5. n \notin seen /\ \A k \in 1..Len(h) : h[k] \in seen /\ h[k] # source
    BY <1>0, <1>7, <2>1 DEF Simple
  <2> HIDE DEF n, p
  <2>6. \A k \in 1..Len(p) : p[k] \in (seen \cup F) \ {source}
    BY <1>4, <2>1, <2>4, <2>5
  <2>7. \A j, k \in 1..Len(p) : p[j] = p[k] => j = k
    <3> SUFFICES ASSUME NEW j \in 1..Len(p), NEW k \in 1..Len(p), p[j] = p[k] PROVE j = k
      OBVIOUS
    <3>1. (j \in 1..Len(h) \/ j = Len(h) + 1) /\ (k \in 1..Len(h) \/ k = Len(h) + 1)
      BY <2>4
    <3>2. CASE j \in 1..Len(h) /\ k \in 1..Len(h)
      BY <1>7, <2>4, <3>2 DEF Simple
    <3>3. CASE j \in 1..Len(h) /\ k = Len(h) + 1
      BY <2>4, <2>5, <3>3
    <3>4. CASE j = Len(h) + 1 /\ k \in 1..Len(h)
      BY <2>4, <2>5, <3>4
    <3> QED
      BY <3>1, <3>2, <3>3, <3>4
  <2>8. Simple(queue[l + i])'
    BY <1>4, <2>1, <2>6, <2>7 DEF Simple
  <2> QED
    BY <2>3, <2>8
<1>11. ASSUME NEW j \in 1..(l + m)
       PROVE  Legal(queue[j])' /\ Simple(queue[j])' /\ First(queue[j])'
  <2>1. CASE j \in 1..l
    BY <1>9, <2>1
  <2>2. CASE j \notin 1..l
    <3>1. PICK i \in 1..m : j = l + i
      <4>1. j - l \in 1..m /\ j = l + (j - l)
        BY <1>0, <2>2
      <4> QED
        BY <4>1
    <3> QED
      BY <1>10, <3>1
  <2> QED
    BY <2>1, <2>2
<1> QED
  BY <1>0, <1>11 DEF QueueInv

\* A path that is about to be replaced keeps the front of those it is replaced by.
LEMMA FrontOfAppend ==
  ASSUME NEW h \in Seq(Node), NEW n \in Node
  PROVE  SubSeq(Append(h, n), 1, Len(h)) = h
<1>1. /\ Append(h, n) \in Seq(Node) /\ Len(Append(h, n)) = Len(h) + 1 /\ Len(h) \in Nat
      /\ \A k \in 1..Len(h) : Append(h, n)[k] = h[k]
  OBVIOUS
<1> DEFINE p == Append(h, n)
           q == SubSeq(p, 1, Len(h))
<1> HIDE DEF p
<1>2. q \in Seq(Node) /\ Len(q) = Len(h) /\ \A k \in 1..Len(h) : q[k] = p[k]
  BY <1>1 DEF p
<1> HIDE DEF q
<1>3. q = h
  BY <1>1, <1>2, SeqEqual DEF p
<1> QED
  BY <1>3 DEF p, q

\* And leaves them in order.
LEMMA ExpandKeepsOrder ==
  ASSUME SearchInv, RoutingType, Expand
  PROVE  QueueOrder'
<1>1. PICK h, l, F, m, nb :
         /\ h = queue[1] /\ l = Len(queue) - 1 /\ F = Fresh(h)
         /\ m = Cardinality(F) /\ nb = Neighbours(h)
  OBVIOUS
<1>2. /\ h \in Seq(Node) /\ l \in Nat /\ m \in Nat /\ F \subseteq Node
      /\ Ascends(nb, F)
      /\ queue' \in Seq(Seq(Node)) /\ Len(queue') = l + m
      /\ \A j \in 1..l : queue'[j] = queue[j + 1]
      /\ \A i \in 1..m : queue'[l + i] = Append(h, nb[i])
  BY <1>1, QueueAfter DEF SearchInv
<1>3. nb \in [1..m -> F] /\ \A i, j \in 1..m : i < j => nb[i] < nb[j]
  BY <1>1, <1>2 DEF Ascends
<1>4. /\ \A i, j \in 1..(l + 1) : i < j => Earlier(queue[i], queue[j])
      /\ \A j \in 1..(l + 1) :
            \/ Len(queue[j]) = Len(h)
            \/ /\ Len(queue[j]) = Len(h) + 1
               /\ Earlier(SubSeq(queue[j], 1, Len(h)), h)
      /\ \A j \in 1..(l + 1) : queue[j] \in Seq(Node)
  BY <1>1 DEF SearchInv, QueueInv, QueueOrder
<1> DEFINE q == queue'
<1>5. ASSUME NEW i \in 1..m
      PROVE  /\ nb[i] \in Node /\ q[l + i] = Append(h, nb[i])
             /\ q[l + i] \in Seq(Node) /\ Len(q[l + i]) = Len(h) + 1
             /\ SubSeq(q[l + i], 1, Len(h)) = h
  <2>1. PICK x \in Node : x = nb[i]
    BY <1>2, <1>3
  <2>2. q[l + i] = Append(h, x)
    BY <1>2, <2>1
  <2>3. Append(h, x) \in Seq(Node) /\ Len(Append(h, x)) = Len(h) + 1
    BY <1>2
  <2>4. SubSeq(Append(h, x), 1, Len(h)) = h
    BY <1>2, FrontOfAppend
  <2> QED
    BY <2>1, <2>2, <2>3, <2>4
<1>6. \A j \in 1..l : q[j] = queue[j + 1] /\ j + 1 \in 1..(l + 1) /\ 1 < j + 1
  BY <1>2
<1>7. \A j \in 1..(l + m) : j \in 1..l \/ \E i \in 1..m : j = l + i
  <2> SUFFICES ASSUME NEW j \in 1..(l + m), j \notin 1..l PROVE \E i \in 1..m : j = l + i
    OBVIOUS
  <2>1. j - l \in 1..m /\ j = l + (j - l)
    BY <1>2
  <2> QED
    BY <2>1
<1>8. \A j \in 1..l : Earlier(h, q[j])
  BY <1>1, <1>2, <1>4, <1>6
<1>9. \A j \in 1..l, i \in 1..m : Earlier(q[j], q[l + i])
  <2> SUFFICES ASSUME NEW j \in 1..l, NEW i \in 1..m PROVE Earlier(q[j], q[l + i])
    OBVIOUS
  <2> DEFINE p == q[j]
             r == q[l + i]
  <2> SUFFICES Earlier(p, r)
    OBVIOUS
  <2>1. p \in Seq(Node) /\ r = Append(h, nb[i]) /\ nb[i] \in Node /\ Len(r) = Len(h) + 1
    BY <1>4, <1>5, <1>6
  <2>2. \/ Len(p) = Len(h)
        \/ Len(p) = Len(h) + 1 /\ Earlier(SubSeq(p, 1, Len(h)), h)
    BY <1>4, <1>6
  <2> HIDE DEF p, r, q
  <2>3. CASE Len(p) = Len(h)
    BY <1>2, <2>1, <2>3 DEF Earlier
  <2>4. CASE Len(p) = Len(h) + 1 /\ Earlier(SubSeq(p, 1, Len(h)), h)
    <3> DEFINE f == SubSeq(p, 1, Len(h))
               k == Len(h) + 1
    <3>1. /\ f \in Seq(Node) /\ Len(f) = Len(h) /\ p[k] \in Node
          /\ \A e \in 1..Len(h) : f[e] = p[e]
      BY <1>2, <2>1, <2>4
    <3>2. p = Append(f, p[k])
      <4>1. /\ Append(f, p[k]) \in Seq(Node) /\ Len(Append(f, p[k])) = k
            /\ Append(f, p[k])[k] = p[k]
            /\ \A e \in 1..Len(h) : Append(f, p[k])[e] = f[e]
        BY <3>1
      <4>2. \A e \in 1..k : e \in 1..Len(h) \/ e = k
        <5>1. Len(h) \in Nat
          BY <1>2
        <5> QED
          BY ONLY <5>1
      <4>3. \A e \in 1..k : Append(f, p[k])[e] = p[e]
        BY <3>1, <4>1, <4>2
      <4> HIDE DEF f
      <4> QED
        BY <2>1, <2>4, <4>1, <4>3, SeqEqual
    <3>3. Earlier(f, h)
      BY <2>4
    <3> HIDE DEF f
    <3>4. Earlier(Append(f, p[k]), Append(h, nb[i]))
      BY <1>2, <2>1, <3>1, <3>3, AppendKeepsOrder
    <3> QED
      BY <2>1, <3>2, <3>4
  <2> QED
    BY <2>2, <2>3, <2>4
<1>10. \A i, j \in 1..m : i < j => Earlier(q[l + i], q[l + j])
  <2> SUFFICES ASSUME NEW i \in 1..m, NEW j \in 1..m, i < j
               PROVE  Earlier(q[l + i], q[l + j])
    OBVIOUS
  <2>1. nb[i] \in Node /\ nb[j] \in Node /\ nb[i] < nb[j]
    BY <1>3, <1>5
  <2>2. Earlier(Append(h, nb[i]), Append(h, nb[j]))
    BY <1>2, <2>1, AppendKeepsOrder
  <2> QED
    BY <1>5, <2>2
<1> HIDE DEF q
<1>11. \A i, j \in 1..(l + m) : i < j => Earlier(q[i], q[j])
  <2> SUFFICES ASSUME NEW i \in 1..(l + m), NEW j \in 1..(l + m), i < j
               PROVE  Earlier(q[i], q[j])
    OBVIOUS
  <2>1. CASE i \in 1..l /\ j \in 1..l
    <3>1. i + 1 < j + 1
      BY <2>1
    <3> QED
      BY <1>4, <1>6, <2>1, <3>1
  <2>2. CASE i \in 1..l /\ j \notin 1..l
    BY <1>7, <1>9, <2>2
  <2>3. CASE i \notin 1..l
    <3>1. PICK a \in 1..m : i = l + a
      BY <1>7, <2>3
    <3>2. PICK b \in 1..m : j = l + b
      <4>1. j \notin 1..l
        BY <1>2, <3>1
      <4> QED
        BY <1>7, <4>1
    <3>3. a < b
      BY <1>2, <3>1, <3>2
    <3> QED
      BY <1>10, <3>1, <3>2, <3>3
  <2> QED
    BY <2>1, <2>2, <2>3
<1>12. ASSUME NEW j \in 1..(l + m)
       PROVE  \/ Len(q[j]) = Len(q[1])
              \/ Len(q[j]) = Len(q[1]) + 1 /\ Earlier(SubSeq(q[j], 1, Len(q[1])), q[1])
  <2>1. CASE l = 0
    <3>1. PICK a \in 1..m : j = l + a
      BY <1>7, <2>1
    <3>2. 1 \in 1..m /\ l + 1 = 1
      BY <1>2, <2>1, <3>1
    <3> QED
      BY <1>5, <3>1, <3>2
  <2>2. CASE l # 0
    <3>1. 1 \in 1..l
      BY <1>2, <2>2
    <3>2. q[1] \in Seq(Node) /\ Earlier(h, q[1])
      BY <1>4, <1>6, <1>8, <3>1
    <3>3. Len(q[1]) = Len(h) \/ Len(q[1]) = Len(h) + 1
      BY <1>4, <1>6, <3>1
    <3>4. CASE j \in 1..l
      <4>1. /\ q[j] \in Seq(Node)
            /\ \/ Len(q[j]) = Len(h)
               \/ Len(q[j]) = Len(h) + 1 /\ Earlier(SubSeq(q[j], 1, Len(h)), h)
        BY <1>4, <1>6, <3>4
      <4>2. CASE Len(q[1]) = Len(h)
        <5>1. CASE Len(q[j]) = Len(h)
          BY <4>2, <5>1
        <5>2. CASE Len(q[j]) = Len(h) + 1 /\ Earlier(SubSeq(q[j], 1, Len(h)), h)
          <6> DEFINE f == SubSeq(q[j], 1, Len(h))
          <6>1. f \in Seq(Node)
            BY <1>2, <4>1, <5>2
          <6>2. Earlier(f, h)
            BY <5>2
          <6> HIDE DEF f
          <6>3. Earlier(f, q[1])
            BY <1>2, <3>2, <6>1, <6>2, EarlierTransitive
          <6> QED
            BY <4>2, <5>2, <6>3 DEF f
        <5> QED
          BY <4>1, <5>1, <5>2
      <4>3. CASE Len(q[1]) = Len(h) + 1
        <5>1. j = 1 \/ Earlier(q[1], q[j])
          BY <1>2, <1>11, <3>1, <3>4
        <5>2. j = 1 \/ Len(q[1]) <= Len(q[j])
          BY <3>2, <4>1, <5>1 DEF Earlier
        <5> QED
          BY <1>2, <4>1, <4>3, <5>2
      <4> QED
        BY <3>3, <4>2, <4>3
    <3>5. CASE j \notin 1..l
      <4>1. PICK a \in 1..m : j = l + a
        BY <1>7, <3>5
      <4>2. Len(q[j]) = Len(h) + 1 /\ SubSeq(q[j], 1, Len(h)) = h
        BY <1>5, <4>1
      <4> QED
        BY <3>2, <3>3, <4>2
    <3> QED
      BY <3>4, <3>5
  <2> QED
    BY <2>1, <2>2
<1>13. Len(q) = l + m
  BY <1>2 DEF q
<1> QED
  BY <1>11, <1>12, <1>13 DEF QueueOrder, q

\* The state whose path is replaced has all its neighbours seen.
LEMMA ExpandKeepsSeen ==
  ASSUME SearchInv, RoutingType, Expand
  PROVE  SeenInv'
<1>1. PICK h, l, F, m, nb :
         /\ h = queue[1] /\ l = Len(queue) - 1 /\ F = Fresh(h)
         /\ m = Cardinality(F) /\ nb = Neighbours(h)
  OBVIOUS
<1>2. /\ Head(queue) = h /\ h \in Seq(Node) /\ l \in Nat /\ m \in Nat
      /\ F = table[End(h)] \ seen /\ F \subseteq Node
      /\ \A x \in F : \E i \in 1..m : nb[i] = x
      /\ Len(queue') = l + m
      /\ \A j \in 1..l : queue'[j] = queue[j + 1]
      /\ \A i \in 1..m : queue'[l + i] = Append(h, nb[i])
  BY <1>1, QueueAfter DEF SearchInv
<1>3. /\ seen' = seen \cup F /\ table' = table /\ source' = source /\ target' = target
      /\ target \notin F
  BY <1>1, <1>2 DEF Expand, Remember
<1>4. \A w : End(w)' = End(w)
  BY <1>3, Unmoved
<1>5. /\ seen \in SUBSET Node /\ source \in seen /\ target \notin seen
      /\ \A s \in seen : table[s] \subseteq seen \/ \E j \in 1..(l + 1) : End(queue[j]) = s
  BY <1>1 DEF SearchInv, SeenInv
<1>6. ASSUME NEW s \in seen, ~ (table[s] \subseteq seen \cup F)
      PROVE  \E j \in 1..(l + m) : End(queue[j])' = s
  <2>1. PICK j \in 1..(l + 1) : End(queue[j]) = s
    BY <1>5, <1>6
  <2>2. j # 1
    BY <1>1, <1>2, <1>6, <2>1
  <2>3. j - 1 \in 1..l /\ queue'[j - 1] = queue[j]
    BY <1>2, <2>2
  <2>4. End(queue[j - 1])' = s
    BY <1>4, <2>1, <2>3
  <2> QED
    BY <1>2, <2>3, <2>4
<1>7. ASSUME NEW s \in F PROVE \E j \in 1..(l + m) : End(queue[j])' = s
  <2>1. PICK i \in 1..m : nb[i] = s
    BY <1>2
  <2>2. l + i \in 1..(l + m) /\ queue'[l + i] = Append(h, s)
    BY <1>2, <2>1
  <2>3. End(Append(h, s)) = s
    BY <1>2, EndOfAppend
  <2>4. End(queue[l + i])' = s
    BY <1>4, <2>2, <2>3
  <2> QED
    BY <2>2, <2>4
<1>8. \A s \in seen \cup F :
         table[s] \subseteq seen \cup F \/ \E j \in 1..(l + m) : End(queue[j])' = s
  BY <1>6, <1>7
<1>9. SeenInv' <=>
        /\ seen' \in SUBSET Node /\ source' \in seen' /\ target' \notin seen'
        /\ \A s \in seen' :
              table'[s] \subseteq seen' \/ \E j \in 1..Len(queue') : End(queue[j])' = s
  BY DEF SeenInv
<1> QED
  BY <1>2, <1>3, <1>5, <1>8, <1>9

-----------------------------------------------------------------------------
\* The walk.

\* The route is a shortest one and the first of those.
ByTheFirstShortest ==
  /\ route \in Walks(Len(route))
  /\ \A k \in 1..(Len(route) - 1) : Walks(k) = {}
  /\ \A w \in Walks(Len(route)) : w = route \/ Before(route, w)

\* What is left of the route leads from where the machine is to the target, and
\* not back to where it was when the call was made.
OnTheWay ==
  /\ route \in Seq(Node)
  /\ \A i \in 1..Len(route) :
        /\ route[i] \in table[IF i = 1 THEN position ELSE route[i - 1]]
        /\ route[i] # source
  /\ target = IF route = << >> THEN position ELSE route[Len(route)]

RoutingInv ==
  /\ RoutingType
  /\ pc = "search" => position = source /\ source # target /\ SearchInv
  /\ pc = "walk" => /\ IsReachable /\ OnTheWay
                    /\ position = source /\ source # target => ByTheFirstShortest
  /\ pc = "done" => position = IF IsReachable THEN target ELSE source

\* While the call stays the same, so do its walks.
LEMMA SameWalks ==
  ASSUME table' = table, source' = source, target' = target
  PROVE  (\A k : Walks(k)' = Walks(k)) /\ (IsReachable' <=> IsReachable)
<1>1. \A k : Walks(k)' = Walks(k)
  BY DEF Walks
<1> QED
  BY <1>1 DEF IsReachable

\* A path that passes no state twice is shorter than there are states.
LEMMA SimpleIsShort ==
  ASSUME NEW r \in Seq(Node), source \in Node,
         \A i \in 1..Len(r) : r[i] # source,
         \A i, j \in 1..Len(r) : r[i] = r[j] => i = j
  PROVE  Len(r) <= N - 1
<1> DEFINE S == Node \ {source}
<1>1. IsFiniteSet(Node) /\ Cardinality(Node) = N
  BY NPositive, FS_Interval DEF Node
<1>2. IsFiniteSet(S) /\ Cardinality(S) = N - 1
  BY <1>1, FS_RemoveElement
<1>3. Len(r) \in Nat /\ Cardinality(1..Len(r)) = Len(r)
  <2>1. PICK k \in Nat : k = Len(r)
    OBVIOUS
  <2>2. Cardinality(1..k) = k
    <3>1. 1 \in Int /\ k \in Int
      OBVIOUS
    <3>2. Cardinality(1..k) = IF 1 > k THEN 0 ELSE k - 1 + 1
      BY <3>1, FS_Interval
    <3> QED
      BY <3>2
  <2> QED
    BY <2>1, <2>2
<1>4. r \in [1..Len(r) -> S]
  BY <1>3
<1>5. r \in Injection(1..Len(r), S)
  BY <1>4 DEF Injection, IsInjective
<1> HIDE DEF S
<1>6. Cardinality(1..Len(r)) <= Cardinality(S)
  BY <1>2, <1>5, FS_Injection
<1> QED
  BY <1>2, <1>3, <1>6

\* When the search meets the target it has found the first of the shortest routes.
LEMMA FoundIsTheFirstShortest ==
  ASSUME RoutingInv, Found
  PROVE  RoutingInv'
<1> DEFINE h == queue[1]
           r == Append(h, target)
<1>1. /\ RoutingType /\ pc = "search" /\ position = source /\ source # target /\ SearchInv
      /\ queue \in Seq(Seq(Node)) /\ queue # << >> /\ 1 \in 1..Len(queue)
  <2>1. RoutingType /\ pc = "search" /\ position = source /\ source # target /\ SearchInv
    BY DEF RoutingInv, Found
  <2>2. queue \in Seq(Seq(Node)) /\ queue # << >>
    BY <2>1 DEF Found, SearchInv, QueueInv
  <2> QED
    BY <2>1, <2>2
<1>2. Head(queue) = h /\ h \in Seq(Node) /\ Legal(h) /\ Simple(h)
  BY <1>1 DEF SearchInv, QueueInv
<1>3. target \in Node /\ source \in Node /\ target \notin seen /\ target \in table[End(h)]
  BY <1>1, <1>2 DEF Found, Fresh, RoutingType
<1>4. Legal(r) /\ End(r) = target /\ First(r)
  BY <1>1, <1>2, <1>3, LegalAppend, NewPathsAreFirst
<1>5. /\ route' = r /\ pc' = "walk" /\ position' = position
      /\ table' = table /\ source' = source /\ target' = target
  BY <1>2 DEF Found
<1>6. /\ r \in Seq(Node) /\ Len(r) = Len(h) + 1 /\ Len(h) \in Nat /\ r[Len(h) + 1] = target
      /\ \A i \in 1..Len(h) : r[i] = h[i]
  BY <1>2, <1>3
<1>7. \A i \in 1..Len(h) : h[i] \in seen /\ h[i] # source
  BY <1>2 DEF Simple
<1>8. \A i, j \in 1..Len(h) : h[i] = h[j] => i = j
  BY <1>2 DEF Simple
<1> HIDE DEF h, r
<1>9. \A i \in 1..Len(r) : i \in 1..Len(h) \/ i = Len(h) + 1
  BY <1>6
<1>10. \A i \in 1..Len(r) : r[i] # source
  BY <1>1, <1>6, <1>7, <1>9
<1>11. \A i, j \in 1..Len(r) : r[i] = r[j] => i = j
  <2> SUFFICES ASSUME NEW i \in 1..Len(r), NEW j \in 1..Len(r), r[i] = r[j] PROVE i = j
    OBVIOUS
  <2>1. CASE i \in 1..Len(h) /\ j \in 1..Len(h)
    BY <1>6, <1>8, <2>1
  <2>2. CASE i \in 1..Len(h) /\ j = Len(h) + 1
    BY <1>3, <1>6, <1>7, <2>2
  <2>3. CASE i = Len(h) + 1 /\ j \in 1..Len(h)
    BY <1>3, <1>6, <1>7, <2>3
  <2> QED
    BY <1>9, <2>1, <2>2, <2>3
<1>12. Len(r) \in 1..(N - 1) /\ Len(r) \in Nat \ {0}
  <2>1. Len(r) <= N - 1
    BY <1>3, <1>6, <1>10, <1>11, SimpleIsShort
  <2> QED
    BY <1>6, <2>1, NPositive
<1>13. r \in Walks(Len(r))
  BY <1>4, <1>12, WalksAreLegal
<1>14. ASSUME NEW k \in Nat \ {0}, NEW w \in Walks(k) PROVE NoLater(r, w) /\ Len(w) = k
  <2>1. Legal(w) /\ Len(w) = k /\ End(w) = target
    BY WalksAreLegal
  <2> QED
    BY <1>4, <2>1 DEF First, Legal
<1>15. \A k \in 1..(Len(r) - 1) : Walks(k) = {}
  <2> SUFFICES ASSUME NEW k \in 1..(Len(r) - 1), NEW w \in Walks(k) PROVE FALSE
    OBVIOUS
  <2>1. NoLater(r, w) /\ Len(w) = k
    BY <1>14
  <2> QED
    BY <1>6, <2>1 DEF NoLater, Earlier
<1>16. \A w \in Walks(Len(r)) : w = r \/ Before(r, w)
  <2> SUFFICES ASSUME NEW w \in Walks(Len(r)) PROVE w = r \/ Before(r, w)
    OBVIOUS
  <2>1. NoLater(r, w) /\ Len(w) = Len(r)
    BY <1>12, <1>14
  <2> QED
    BY <1>12, <2>1 DEF NoLater, Earlier
<1>17. ByTheFirstShortest'
  BY <1>5, <1>13, <1>15, <1>16, SameWalks DEF ByTheFirstShortest
<1>18. IsReachable'
  <2>1. IsReachable
    BY <1>12, <1>13 DEF IsReachable
  <2> QED
    BY <1>5, <2>1, SameWalks
<1>19. ASSUME NEW i \in 1..Len(r)
       PROVE  r[i] \in table[IF i = 1 THEN source ELSE r[i - 1]]
  <2>1. r[i] \in table[At(r, i - 1)]
    BY <1>4 DEF Legal
  <2>2. At(r, i - 1) = IF i = 1 THEN source ELSE r[i - 1]
    BY <1>6 DEF At
  <2> QED
    BY <2>1, <2>2
<1>20. r # << >> /\ r[Len(r)] = target
  BY <1>6
<1>21. OnTheWay'
  BY <1>1, <1>5, <1>6, <1>10, <1>19, <1>20 DEF OnTheWay
<1>22. RoutingType'
  BY <1>1, <1>5 DEF RoutingType
<1> QED
  BY <1>5, <1>17, <1>18, <1>21, <1>22 DEF RoutingInv

\* When it does not, the target cannot be reached: what was seen is closed under moves.
LEMMA NoRouteIsNoWay ==
  ASSUME RoutingInv, NoRoute
  PROVE  RoutingInv'
<1>1. RoutingType /\ pc = "search" /\ position = source /\ source # target /\ SearchInv
  BY DEF RoutingInv, NoRoute
<1>2. Len(queue) = 0
  BY DEF NoRoute
<1>3. ASSUME NEW k \in 1..(N - 1) PROVE Walks(k) = {}
  <2> SUFFICES ASSUME NEW w \in Walks(k) PROVE FALSE
    OBVIOUS
  <2>1. Legal(w) /\ End(w) = target
    BY WalksAreLegal
  <2>2. End(w) \notin seen
    BY <1>1, <2>1 DEF SearchInv, SeenInv
  <2>3. \E i \in 0..(Len(w) - 1), j \in 1..Len(queue) : NoLater(queue[j], SubSeq(w, 1, i))
    BY <1>1, <2>1, <2>2, PassesTheQueue
  <2> QED
    BY <1>2, <2>3
<1>4. ~ IsReachable
  BY <1>1, <1>3 DEF IsReachable
<1>5. /\ table' = table /\ source' = source /\ target' = target
      /\ position' = position /\ pc' = "done"
  BY DEF NoRoute
<1>6. ~ IsReachable'
  BY <1>4, <1>5, SameWalks
<1> QED
  BY <1>1, <1>5, <1>6 DEF RoutingInv, RoutingType

\* No move of the walk is refused, and none leads back to where it began.
LEMMA WalkGoesOn ==
  ASSUME RoutingInv, Walk
  PROVE  RoutingInv'
<1>1. /\ RoutingType /\ pc = "walk" /\ IsReachable /\ OnTheWay
      /\ route \in Seq(Node) /\ route # << >> /\ Len(route) \in Nat \ {0}
  <2>1. RoutingType /\ pc = "walk" /\ IsReachable /\ OnTheWay /\ route # << >>
    BY DEF RoutingInv, Walk
  <2>2. route \in Seq(Node)
    BY <2>1 DEF OnTheWay
  <2> QED
    BY <2>1, <2>2
<1>2. /\ \A i \in 1..Len(route) :
            /\ route[i] \in table[IF i = 1 THEN position ELSE route[i - 1]]
            /\ route[i] # source
      /\ target = route[Len(route)]
  BY <1>1 DEF OnTheWay
<1>3. Head(route) = route[1] /\ route[1] \in table[position] /\ route[1] # source
  <2>1. 1 \in 1..Len(route)
    BY <1>1
  <2> QED
    BY <1>1, <1>2, <2>1
<1>4. /\ position' = route[1] /\ route' = Tail(route) /\ pc' = "walk"
      /\ table' = table /\ source' = source /\ target' = target
  BY <1>1, <1>3 DEF Walk
<1>5. /\ Tail(route) \in Seq(Node) /\ Len(Tail(route)) = Len(route) - 1
      /\ \A i \in 1..(Len(route) - 1) : Tail(route)[i] = route[i + 1]
      /\ Tail(route) = << >> <=> Len(route) = 1
  <2>1. /\ Tail(route) \in Seq(Node) /\ Len(Tail(route)) = Len(route) - 1
        /\ \A i \in 1..(Len(route) - 1) : Tail(route)[i] = route[i + 1]
    BY <1>1
  <2>2. Tail(route) = << >> <=> Len(Tail(route)) = 0
    BY <2>1, EmptySeq
  <2> QED
    BY <1>1, <2>1, <2>2
<1>6. ASSUME NEW i \in 1..(Len(route) - 1)
      PROVE  /\ Tail(route)[i] \in table[IF i = 1 THEN route[1] ELSE Tail(route)[i - 1]]
             /\ Tail(route)[i] # source
  <2>1. i + 1 \in 1..Len(route) /\ i + 1 # 1 /\ (i + 1) - 1 = i
    BY <1>1
  <2>2. Tail(route)[i] = route[i + 1] /\ route[i + 1] # source /\ route[i + 1] \in table[route[i]]
    BY <1>2, <1>5, <2>1
  <2>3. i # 1 => Tail(route)[i - 1] = route[i]
    <3> SUFFICES ASSUME i # 1 PROVE Tail(route)[i - 1] = route[i]
      OBVIOUS
    <3>1. i - 1 \in 1..(Len(route) - 1) /\ (i - 1) + 1 = i
      BY <1>1
    <3> QED
      BY <1>5, <3>1
  <2> QED
    BY <2>2, <2>3
<1>7. target = IF Tail(route) = << >> THEN route[1] ELSE Tail(route)[Len(route) - 1]
  <2>1. CASE Len(route) = 1
    BY <1>2, <1>5, <2>1
  <2>2. CASE Len(route) # 1
    <3>1. PICK k \in Nat \ {0} : k = Len(route)
      BY <1>1
    <3>2. k - 1 \in 1..(k - 1) /\ (k - 1) + 1 = k
      BY <2>2, <3>1
    <3> QED
      BY <1>2, <1>5, <2>2, <3>1, <3>2
  <2> QED
    BY <2>1, <2>2
<1>8. OnTheWay'
  BY <1>4, <1>5, <1>6, <1>7 DEF OnTheWay
<1>9. position' # source'
  BY <1>3, <1>4
<1>10. IsReachable' /\ RoutingType'
  BY <1>1, <1>4, SameWalks DEF RoutingType
<1> QED
  BY <1>4, <1>8, <1>9, <1>10 DEF RoutingInv

\* The invariant holds when the call is made.
LEMMA RoutingBegins == RoutingInit => RoutingInv
<1> SUFFICES ASSUME RoutingInit PROVE RoutingInv
  OBVIOUS
<1>1. RoutingType
  BY DEF RoutingInit, RoutingType
<1>2. CASE source = target
  <2>1. IsReachable
    BY <1>2 DEF IsReachable
  <2>2. OnTheWay
    BY <1>2 DEF RoutingInit, OnTheWay
  <2> QED
    BY <1>1, <1>2, <2>1, <2>2 DEF RoutingInit, RoutingInv
<1>3. CASE source # target
  <2> DEFINE e == << >>
  <2>1. /\ e \in Seq(Node) /\ Len(e) = 0 /\ End(e) = source
        /\ queue = << e >> /\ seen = {source}
    BY DEF RoutingInit, End
  <2>2. queue \in Seq(Seq(Node)) /\ Len(queue) = 1 /\ queue[1] = e
    BY <2>1
  <2> HIDE DEF e
  <2>3. Legal(e) /\ Simple(e)
    BY <2>1 DEF Legal, Simple
  <2>4. First(e)
    <3> SUFFICES ASSUME NEW w \in Seq(Node) PROVE NoLater(e, w)
      BY DEF First
    <3>1. Len(w) = 0 \/ 0 < Len(w)
      OBVIOUS
    <3>2. Len(w) = 0 => w = e
      BY <2>1, SeqEqual
    <3> QED
      BY <2>1, <3>1, <3>2 DEF NoLater, Earlier
  <2>5. QueueInv
    BY <2>2, <2>3, <2>4 DEF QueueInv
  <2>6. QueueOrder
    <3>1. \A i, j \in 1..1 : ~ (i < j)
      OBVIOUS
    <3>2. \A j \in 1..1 : j = 1
      OBVIOUS
    <3> QED
      BY <2>2, <3>1, <3>2 DEF QueueOrder
  <2>7. SeenInv
    <3>1. source \in Node
      BY DEF RoutingInit
    <3>2. 1 \in 1..Len(queue) /\ End(queue[1]) = source
      BY <2>1, <2>2
    <3> QED
      BY <1>3, <2>1, <3>1, <3>2 DEF SeenInv
  <2> QED
    BY <1>1, <1>3, <2>5, <2>6, <2>7 DEF RoutingInit, RoutingInv, SearchInv
<1> QED
  BY <1>2, <1>3

\* Every turn and every move keeps it.
LEMMA RoutingGoesOn == RoutingInv /\ [RoutingNext]_routing => RoutingInv'
<1> SUFFICES ASSUME RoutingInv, [RoutingNext]_routing PROVE RoutingInv'
  OBVIOUS
<1>1. CASE Expand
  <2>1. RoutingType /\ SearchInv /\ position = source /\ source # target
    BY <1>1 DEF RoutingInv, Expand
  <2>2. /\ table' = table /\ source' = source /\ target' = target
        /\ position' = position /\ pc' = "search" /\ pc = "search"
    BY <1>1 DEF Expand
  <2>3. SearchInv'
    BY <1>1, <2>1, ExpandKeepsQueue, ExpandKeepsOrder, ExpandKeepsSeen DEF SearchInv
  <2>4. RoutingType'
    BY <2>1, <2>2 DEF RoutingType
  <2> QED
    BY <2>1, <2>2, <2>3, <2>4 DEF RoutingInv
<1>2. CASE Found
  BY <1>2, FoundIsTheFirstShortest
<1>3. CASE NoRoute
  BY <1>3, NoRouteIsNoWay
<1>4. CASE Walk
  BY <1>4, WalkGoesOn
<1>5. CASE Arrive
  <2>1. /\ RoutingType /\ IsReachable /\ OnTheWay /\ route = << >> /\ pc' = "done"
        /\ table' = table /\ source' = source /\ target' = target /\ position' = position
    BY <1>5 DEF RoutingInv, Arrive
  <2>2. position = target
    BY <2>1 DEF OnTheWay
  <2>3. IsReachable' /\ RoutingType'
    BY <2>1, SameWalks DEF RoutingType
  <2> QED
    BY <2>1, <2>2, <2>3 DEF RoutingInv
<1>6. CASE UNCHANGED routing
  BY <1>6 DEF routing, RoutingInv, RoutingType, SearchInv, QueueInv, QueueOrder, SeenInv,
     OnTheWay, ByTheFirstShortest, IsReachable, Walks, Legal, Simple, First, End, At
<1> QED
  BY <1>1, <1>2, <1>3, <1>4, <1>5, <1>6 DEF RoutingNext

\* Whatever the table, the search of StateRegistry.route and the walk of
\* Machine.force_route_to end where they were asked to if there is any legal way there,
\* and stay otherwise; the route is legal, none is shorter, and of the shortest it is the
\* first in the order of the state names.
THEOREM RoutedByTheFirstShortest == RoutingSpec => []ForcedByTheFirstShortest
<1>1. RoutingInv => ForcedByTheFirstShortest
  BY DEF RoutingInv, ForcedByTheFirstShortest, ByTheFirstShortest
<1>2. RoutingSpec => []RoutingInv
  BY RoutingBegins, RoutingGoesOn, PTL DEF RoutingSpec
<1> QED
  BY <1>1, <1>2, PTL

-----------------------------------------------------------------------------
\* What a loop does: it goes from step to step.

\* g has what is kept of the first members of s.
ThosePass(g, s, W) ==
  /\ Those(s, W) = g[Len(s)]
  /\ g[0] = << >>
  /\ \A i \in 1..Len(s) : g[i] = IF s[i] \in W THEN Append(g[i - 1], s[i]) ELSE g[i - 1]

\* Each of these loops goes so.
LEMMA ThosePassExists ==
  ASSUME NEW R, NEW s \in Seq(R), NEW W
  PROVE  \E g : ThosePass(g, s, W)
<1> DEFINE n == Len(s)
           base == << >>
           After(e, i) == IF s[i] \in W THEN Append(e, s[i]) ELSE e
           Pass(f, m) == f = [i \in 0..m |-> IF i = 0 THEN base ELSE After(f[i - 1], i)]
           T == {m \in 0..n : \E f : Pass(f, m)}
           g == CHOOSE f : Pass(f, n)
<1>1. n \in Nat /\ Those(s, W) = g[n]
  BY DEF Those, Through
<1> HIDE DEF n, base, After
<1>2. 0 \in T
  <2> DEFINE f == [i \in 0..0 |-> base]
  <2>1. Pass(f, 0)
    OBVIOUS
  <2> HIDE DEF f
  <2> QED
    BY <1>1, <2>1
<1>3. ASSUME NEW m \in 1..n, m - 1 \in T PROVE m \in T
  <2>1. PICK f : Pass(f, m - 1)
    BY <1>3
  <2> DEFINE h == [i \in 0..m |-> IF i = m THEN After(f[m - 1], m) ELSE f[i]]
  <2>2. ASSUME NEW i \in 0..m
        PROVE  h[i] = IF i = 0 THEN base ELSE After(h[i - 1], i)
    <3>1. i # m => i \in 0..(m - 1) /\ f[i] = IF i = 0 THEN base ELSE After(f[i - 1], i)
      BY <1>1, <2>1
    <3>2. i # 0 => h[i - 1] = f[i - 1]
      BY <1>1
    <3> QED
      BY <1>1, <3>1, <3>2
  <2>3. Pass(h, m)
    BY <2>2
  <2> HIDE DEF h
  <2> QED
    BY <1>1, <2>3
<1> HIDE DEF T
<1>4. 0..n \subseteq T
  BY <1>1, <1>2, <1>3, Along
<1>5. Pass(g, n)
  <2>1. n \in T
    BY <1>1, <1>4
  <2>2. \E f : Pass(f, n)
    BY <2>1 DEF T
  <2> QED
    BY <2>2
<1> HIDE DEF g
<1>6. g[0] = base /\ \A i \in 1..n : g[i] = After(g[i - 1], i)
  BY <1>1, <1>5
<1> QED
  BY <1>1, <1>6 DEF ThosePass, n, base, After

\* g has what is placed after the first parameters.
PlacePass(g, graph, placed) ==
  /\ OnePass(graph, placed) = g[Params]
  /\ g[0] = placed
  /\ \A i \in 1..Params :
        g[i] = IF i \notin ToSet(g[i - 1]) /\ graph[i] \subseteq ToSet(g[i - 1])
               THEN Append(g[i - 1], i) ELSE g[i - 1]

LEMMA PlacePassExists ==
  ASSUME NEW graph \in [Param -> SUBSET Param], NEW placed
  PROVE  \E g : PlacePass(g, graph, placed)
<1> DEFINE s == Declared(graph)
           n == Len(s)
           base == placed
           After(e, i) == IF s[i] \notin ToSet(e) /\ graph[s[i]] \subseteq ToSet(e)
                          THEN Append(e, s[i]) ELSE e
           Pass(f, m) == f = [i \in 0..m |-> IF i = 0 THEN base ELSE After(f[i - 1], i)]
           T == {m \in 0..n : \E f : Pass(f, m)}
           g == CHOOSE f : Pass(f, n)
<1>0. Params \in Nat /\ n = Params /\ \A i \in 1..n : s[i] = i
  <2>1. Params \in Nat /\ s = [p \in 1..Params |-> p]
    BY QcAssumption DEF Param, Declared
  <2> HIDE DEF s
  <2> QED
    BY <2>1
<1>1. n \in Nat /\ OnePass(graph, placed) = g[n]
  <2>1. OnePass(graph, placed) = g[n]
    BY DEF OnePass, Through
  <2> QED
    BY <1>0, <2>1
<1> HIDE DEF n, base, After
<1>2. 0 \in T
  <2> DEFINE f == [i \in 0..0 |-> base]
  <2>1. Pass(f, 0)
    OBVIOUS
  <2> HIDE DEF f
  <2> QED
    BY <1>1, <2>1
<1>3. ASSUME NEW m \in 1..n, m - 1 \in T PROVE m \in T
  <2>1. PICK f : Pass(f, m - 1)
    BY <1>3
  <2> DEFINE h == [i \in 0..m |-> IF i = m THEN After(f[m - 1], m) ELSE f[i]]
  <2>2. ASSUME NEW i \in 0..m
        PROVE  h[i] = IF i = 0 THEN base ELSE After(h[i - 1], i)
    <3>1. i # m => i \in 0..(m - 1) /\ f[i] = IF i = 0 THEN base ELSE After(f[i - 1], i)
      BY <1>1, <2>1
    <3>2. i # 0 => h[i - 1] = f[i - 1]
      BY <1>1
    <3> QED
      BY <1>1, <3>1, <3>2
  <2>3. Pass(h, m)
    BY <2>2
  <2> HIDE DEF h
  <2> QED
    BY <1>1, <2>3
<1> HIDE DEF T
<1>4. 0..n \subseteq T
  BY <1>1, <1>2, <1>3, Along
<1>5. Pass(g, n)
  <2>1. n \in T
    BY <1>1, <1>4
  <2>2. \E f : Pass(f, n)
    BY <2>1 DEF T
  <2> QED
    BY <2>2
<1> HIDE DEF g
<1>6. g[0] = base /\ \A i \in 1..n : g[i] = After(g[i - 1], i)
  BY <1>1, <1>5
<1>7. ASSUME NEW i \in 1..Params
      PROVE  g[i] = IF i \notin ToSet(g[i - 1]) /\ graph[i] \subseteq ToSet(g[i - 1])
                    THEN Append(g[i - 1], i) ELSE g[i - 1]
  <2>1. i \in 1..n /\ s[i] = i
    BY <1>0 DEF n
  <2>2. g[i] = After(g[i - 1], i)
    BY <1>6, <2>1
  <2> HIDE DEF s
  <2> QED
    BY <2>1, <2>2 DEF After
<1>8. OnePass(graph, placed) = g[Params] /\ g[0] = placed
  BY <1>0, <1>1, <1>6 DEF n, base
<1> QED
  BY <1>7, <1>8 DEF PlacePass

\* g has what is placed after the first passes.
OrderPass(g, graph) ==
  /\ EvaluationOrder(graph) = g[Params]
  /\ g[0] = << >>
  /\ \A i \in 1..Params : g[i] = OnePass(graph, g[i - 1])

LEMMA OrderPassExists ==
  ASSUME NEW graph \in [Param -> SUBSET Param]
  PROVE  \E g : OrderPass(g, graph)
<1> DEFINE n == Params
           base == << >>
           After(e, i) == OnePass(graph, e)
           Pass(f, m) == f = [i \in 0..m |-> IF i = 0 THEN base ELSE After(f[i - 1], i)]
           T == {m \in 0..n : \E f : Pass(f, m)}
           g == CHOOSE f : Pass(f, n)
<1>1. n \in Nat /\ EvaluationOrder(graph) = g[n]
  <2>1. n \in Nat /\ Cardinality(DOMAIN graph) = n
    <3>1. DOMAIN graph = 1..n /\ n \in Nat \ {0}
      BY QcAssumption DEF Param
    <3> HIDE DEF n
    <3>2. Cardinality(1..n) = IF 1 > n THEN 0 ELSE n - 1 + 1
      BY <3>1, FS_Interval
    <3> QED
      BY <3>1, <3>2
  <2> QED
    BY <2>1 DEF EvaluationOrder
<1> HIDE DEF n, base, After
<1>2. 0 \in T
  <2> DEFINE f == [i \in 0..0 |-> base]
  <2>1. Pass(f, 0)
    OBVIOUS
  <2> HIDE DEF f
  <2> QED
    BY <1>1, <2>1
<1>3. ASSUME NEW m \in 1..n, m - 1 \in T PROVE m \in T
  <2>1. PICK f : Pass(f, m - 1)
    BY <1>3
  <2> DEFINE h == [i \in 0..m |-> IF i = m THEN After(f[m - 1], m) ELSE f[i]]
  <2>2. ASSUME NEW i \in 0..m
        PROVE  h[i] = IF i = 0 THEN base ELSE After(h[i - 1], i)
    <3>1. i # m => i \in 0..(m - 1) /\ f[i] = IF i = 0 THEN base ELSE After(f[i - 1], i)
      BY <1>1, <2>1
    <3>2. i # 0 => h[i - 1] = f[i - 1]
      BY <1>1
    <3> QED
      BY <1>1, <3>1, <3>2
  <2>3. Pass(h, m)
    BY <2>2
  <2> HIDE DEF h
  <2> QED
    BY <1>1, <2>3
<1> HIDE DEF T
<1>4. 0..n \subseteq T
  BY <1>1, <1>2, <1>3, Along
<1>5. Pass(g, n)
  <2>1. n \in T
    BY <1>1, <1>4
  <2>2. \E f : Pass(f, n)
    BY <2>1 DEF T
  <2> QED
    BY <2>2
<1> HIDE DEF g
<1>6. g[0] = base /\ \A i \in 1..n : g[i] = After(g[i - 1], i)
  BY <1>1, <1>5
<1> QED
  BY <1>1, <1>6 DEF OrderPass, n, base, After

\* One test of an evaluation.
Tested(done, p, measured, required) ==
  IF required /\ ~InputsReady(p, done, measured) THEN done
  ELSE Append(done, [test |-> p,
                     read |-> [n \in inputs[p] |-> Source(p, n, done, measured)]])

\* g has the results after the first candidates.
EvaluatePass(g, c, measured, required) ==
  /\ Evaluate(c, measured, required) = g[Len(c)]
  /\ g[0] = results
  /\ \A i \in 1..Len(c) : g[i] = Tested(g[i - 1], c[i], measured, required)

LEMMA EvaluatePassExists ==
  ASSUME NEW R, NEW c \in Seq(R), NEW measured, NEW required
  PROVE  \E g : EvaluatePass(g, c, measured, required)
<1> DEFINE n == Len(c)
           base == results
           After(e, i) == Tested(e, c[i], measured, required)
           Pass(f, m) == f = [i \in 0..m |-> IF i = 0 THEN base ELSE After(f[i - 1], i)]
           T == {m \in 0..n : \E f : Pass(f, m)}
           g == CHOOSE f : Pass(f, n)
<1>1. n \in Nat /\ Evaluate(c, measured, required) = g[n]
  BY DEF Evaluate, Through, Tested
<1> HIDE DEF n, base, After
<1>2. 0 \in T
  <2> DEFINE f == [i \in 0..0 |-> base]
  <2>1. Pass(f, 0)
    OBVIOUS
  <2> HIDE DEF f
  <2> QED
    BY <1>1, <2>1
<1>3. ASSUME NEW m \in 1..n, m - 1 \in T PROVE m \in T
  <2>1. PICK f : Pass(f, m - 1)
    BY <1>3
  <2> DEFINE h == [i \in 0..m |-> IF i = m THEN After(f[m - 1], m) ELSE f[i]]
  <2>2. ASSUME NEW i \in 0..m
        PROVE  h[i] = IF i = 0 THEN base ELSE After(h[i - 1], i)
    <3>1. i # m => i \in 0..(m - 1) /\ f[i] = IF i = 0 THEN base ELSE After(f[i - 1], i)
      BY <1>1, <2>1
    <3>2. i # 0 => h[i - 1] = f[i - 1]
      BY <1>1
    <3> QED
      BY <1>1, <3>1, <3>2
  <2>3. Pass(h, m)
    BY <2>2
  <2> HIDE DEF h
  <2> QED
    BY <1>1, <2>3
<1> HIDE DEF T
<1>4. 0..n \subseteq T
  BY <1>1, <1>2, <1>3, Along
<1>5. Pass(g, n)
  <2>1. n \in T
    BY <1>1, <1>4
  <2>2. \E f : Pass(f, n)
    BY <2>1 DEF T
  <2> QED
    BY <2>2
<1> HIDE DEF g
<1>6. g[0] = base /\ \A i \in 1..n : g[i] = After(g[i - 1], i)
  BY <1>1, <1>5
<1> QED
  BY <1>1, <1>6 DEF EvaluatePass, n, base, After

-----------------------------------------------------------------------------
\* Members of sequences and their order.

In(x, s) == \E i \in 1..Len(s) : s[i] = x

\* a comes before some b.
Precedes(a, b, s) == \E j \in 1..Len(s) : s[j] = b /\ \E i \in 1..(j - 1) : s[i] = a

Distinct(s) == \A i, j \in 1..Len(s) : s[i] = s[j] => i = j

\* ToSet and In say the same.
LEMMA MembersAreIn ==
  ASSUME NEW R, NEW s \in Seq(R)
  PROVE  /\ \A x : x \in ToSet(s) <=> In(x, s)
         /\ ToSet(s) \subseteq R
<1>1. DOMAIN s = 1..Len(s) /\ \A i \in 1..Len(s) : s[i] \in R
  OBVIOUS
<1> QED
  BY <1>1 DEF ToSet, In

\* What one more member does.
LEMMA AppendedIn ==
  ASSUME NEW R, NEW s \in Seq(R), NEW x \in R
  PROVE  /\ Append(s, x) \in Seq(R)
         /\ \A y : In(y, Append(s, x)) <=> In(y, s) \/ y = x
         /\ ~ In(x, s) /\ Distinct(s) => Distinct(Append(s, x))
         /\ \A a, b : Precedes(a, b, s) \/ (In(a, s) /\ b = x) => Precedes(a, b, Append(s, x))
<1> DEFINE u == Append(s, x)
           k == Len(s)
<1>1. /\ u \in Seq(R) /\ Len(u) = k + 1 /\ k \in Nat /\ u[k + 1] = x
      /\ \A i \in 1..k : u[i] = s[i]
  OBVIOUS
<1> HIDE DEF u, k
<1>2. \A i \in 1..(k + 1) : i \in 1..k \/ i = k + 1
  BY <1>1
<1>3. \A y : In(y, u) <=> In(y, s) \/ y = x
  <2>1. ASSUME NEW y, In(y, u) PROVE In(y, s) \/ y = x
    BY <1>1, <1>2, <2>1 DEF In, k
  <2>2. ASSUME NEW y, In(y, s) PROVE In(y, u)
    <3>1. PICK i \in 1..k : s[i] = y
      BY <2>2 DEF In, k
    <3>2. i \in 1..(k + 1) /\ u[i] = y
      BY <1>1, <3>1
    <3> QED
      BY <1>1, <3>2 DEF In
  <2>3. In(x, u)
    <3>1. k + 1 \in 1..(k + 1)
      BY <1>1
    <3> QED
      BY <1>1, <3>1 DEF In
  <2> QED
    BY <2>1, <2>2, <2>3
<1>4. ASSUME ~ In(x, s), Distinct(s) PROVE Distinct(u)
  <2> SUFFICES ASSUME NEW i \in 1..(k + 1), NEW j \in 1..(k + 1), u[i] = u[j] PROVE i = j
    BY <1>1 DEF Distinct
  <2>1. \A m \in 1..k : s[m] # x
    BY <1>4 DEF In, k
  <2>2. CASE i \in 1..k /\ j \in 1..k
    BY <1>1, <1>4, <2>2 DEF Distinct, k
  <2>3. CASE i \in 1..k /\ j = k + 1
    BY <1>1, <2>1, <2>3
  <2>4. CASE i = k + 1 /\ j \in 1..k
    BY <1>1, <2>1, <2>4
  <2> QED
    BY <1>2, <2>2, <2>3, <2>4
<1>5. ASSUME NEW a, NEW b, Precedes(a, b, s) PROVE Precedes(a, b, u)
  <2>1. PICK j \in 1..k : s[j] = b /\ \E i \in 1..(j - 1) : s[i] = a
    BY <1>5 DEF Precedes, k
  <2>2. PICK i \in 1..(j - 1) : s[i] = a
    BY <2>1
  <2>3. j \in 1..(k + 1) /\ i \in 1..k
    BY <1>1, <2>1, <2>2
  <2>4. u[j] = b /\ u[i] = a
    BY <1>1, <2>1, <2>2, <2>3
  <2> QED
    BY <1>1, <2>2, <2>3, <2>4 DEF Precedes
<1>6. ASSUME NEW a, In(a, s) PROVE Precedes(a, x, u)
  <2>1. PICK i \in 1..k : s[i] = a
    BY <1>6 DEF In, k
  <2>2. k + 1 \in 1..(k + 1) /\ i \in 1..((k + 1) - 1) /\ u[i] = a
    BY <1>1, <2>1
  <2> QED
    BY <1>1, <2>2 DEF Precedes
<1> QED
  BY <1>1, <1>3, <1>4, <1>5, <1>6 DEF u

\* Picking out members leaves them in their order.
LEMMA ThoseAre ==
  ASSUME NEW R, NEW s \in Seq(R), Distinct(s), NEW W
  PROVE  LET q == Those(s, W)
         IN  /\ q \in Seq(R) /\ Distinct(q)
             /\ \A x : In(x, q) <=> x \in W /\ In(x, s)
             /\ \A a \in W, b \in W : Precedes(a, b, s) => Precedes(a, b, q)
<1> DEFINE k == Len(s)
<1>1. PICK g : ThosePass(g, s, W)
  BY ThosePassExists
<1>2. /\ Those(s, W) = g[k] /\ g[0] = << >> /\ k \in Nat
      /\ \A i \in 1..k : g[i] = IF s[i] \in W THEN Append(g[i - 1], s[i]) ELSE g[i - 1]
  BY <1>1 DEF ThosePass
<1>3. \A i \in 1..k : s[i] \in R
  OBVIOUS
<1> DEFINE Good(m) ==
             /\ g[m] \in Seq(R) /\ Distinct(g[m])
             /\ \A x : In(x, g[m]) <=> x \in W /\ \E i \in 1..m : s[i] = x
             /\ \A a \in W, b \in W :
                   (\E j \in 1..m : s[j] = b /\ \E i \in 1..(j - 1) : s[i] = a)
                      => Precedes(a, b, g[m])
           T == {m \in 0..k : Good(m)}
<1>4. 0 \in T
  <2>1. << >> \in Seq(R) /\ Len(<< >>) = 0
    OBVIOUS
  <2>2. Good(0)
    BY <1>2, <2>1 DEF Distinct, In
  <2>3. 0 \in 0..k
    BY <1>2
  <2> HIDE DEF Good, k
  <2> QED
    BY <2>2, <2>3
<1>5. ASSUME NEW m \in 1..k, m - 1 \in T PROVE m \in T
  <2> DEFINE f == g[m - 1]
             x == s[m]
  <2>1. /\ f \in Seq(R) /\ Distinct(f)
        /\ \A y : In(y, f) <=> y \in W /\ \E i \in 1..(m - 1) : s[i] = y
        /\ \A a \in W, b \in W :
              (\E j \in 1..(m - 1) : s[j] = b /\ \E i \in 1..(j - 1) : s[i] = a)
                 => Precedes(a, b, f)
    BY <1>5
  <2>2. g[m] = (IF x \in W THEN Append(f, x) ELSE f) /\ x \in R
    BY <1>2, <1>3
  <2>3. \A i \in 1..m : i \in 1..(m - 1) \/ i = m
    BY <1>2
  <2>4. m \in 1..m /\ \A i \in 1..(m - 1) : i \in 1..m
    BY <1>2
  <2>5. CASE x \notin W
    <3>1. g[m] = f
      BY <2>2, <2>5
    <3>2. \A y : In(y, f) <=> y \in W /\ \E i \in 1..m : s[i] = y
      BY <2>1, <2>3, <2>4, <2>5
    <3>3. ASSUME NEW a \in W, NEW b \in W, NEW j \in 1..m, s[j] = b,
                 \E i \in 1..(j - 1) : s[i] = a
          PROVE  Precedes(a, b, f)
      <4>1. j \in 1..(m - 1)
        BY <2>3, <2>5, <3>3
      <4> QED
        BY <2>1, <3>3, <4>1
    <3>4. Good(m)
      BY <2>1, <3>1, <3>2, <3>3
    <3> QED
      BY <1>2, <3>4
  <2>6. CASE x \in W
    <3>1. g[m] = Append(f, x)
      BY <2>2, <2>6
    <3>2. ~ In(x, f)
      <4> SUFFICES ASSUME NEW i \in 1..(m - 1), s[i] = x PROVE FALSE
        BY <2>1
      <4>1. i \in 1..k /\ i # m
        BY <1>2
      <4> QED
        BY <4>1 DEF Distinct
    <3> HIDE DEF f, x
    <3>3. /\ g[m] \in Seq(R) /\ Distinct(g[m])
          /\ \A y : In(y, g[m]) <=> In(y, f) \/ y = x
          /\ \A a, b : Precedes(a, b, f) \/ (In(a, f) /\ b = x) => Precedes(a, b, g[m])
      BY <2>1, <2>2, <3>1, <3>2, AppendedIn
    <3> USE DEF x
    <3>4. \A y : In(y, g[m]) <=> y \in W /\ \E i \in 1..m : s[i] = y
      BY <2>1, <2>3, <2>4, <2>6, <3>3
    <3>5. ASSUME NEW a \in W, NEW b \in W, NEW j \in 1..m, s[j] = b,
                 \E i \in 1..(j - 1) : s[i] = a
          PROVE  Precedes(a, b, g[m])
      <4>1. CASE j \in 1..(m - 1)
        BY <2>1, <3>3, <3>5, <4>1
      <4>2. CASE j = m
        <5>1. In(a, f)
          BY <2>1, <3>5, <4>2
        <5> QED
          BY <3>3, <3>5, <4>2, <5>1
      <4> QED
        BY <2>3, <4>1, <4>2
    <3>6. Good(m)
      BY <3>3, <3>4, <3>5
    <3> QED
      BY <1>2, <3>6
  <2> QED
    BY <2>5, <2>6
<1> HIDE DEF T
<1>6. 0..k \subseteq T
  BY <1>2, <1>4, <1>5, Along
<1>7. Good(k)
  <2>1. k \in T
    BY <1>2, <1>6
  <2> QED
    BY <2>1 DEF T
<1> QED
  BY <1>2, <1>7 DEF In, Precedes

-----------------------------------------------------------------------------
\* The order of the registry.

\* Each parameter once, and after all it reads.
Placeable(graph, acc) ==
  /\ acc \in Seq(Param) /\ Distinct(acc)
  /\ \A i \in 1..Len(acc) : \A n \in graph[acc[i]] : \E k \in 1..(i - 1) : acc[k] = n

\* A pass of the registry places what reads only what has been placed.
LEMMA PassKeepsPlaceable ==
  ASSUME NEW graph \in [Param -> SUBSET Param], NEW placed, Placeable(graph, placed)
  PROVE  Placeable(graph, OnePass(graph, placed))
<1>1. PICK g : PlacePass(g, graph, placed)
  BY PlacePassExists
<1> DEFINE T == {m \in 0..Params : Placeable(graph, g[m])}
<1>2. Params \in Nat /\ 0 \in T
  BY <1>1, QcAssumption DEF PlacePass
<1>3. ASSUME NEW m \in 1..Params, m - 1 \in T PROVE m \in T
  <2> DEFINE f == g[m - 1]
  <2>1. Placeable(graph, f) /\ m \in Param /\ m \in 0..Params
    BY <1>3, <1>2 DEF Param
  <2>2. g[m] = IF m \notin ToSet(f) /\ graph[m] \subseteq ToSet(f) THEN Append(f, m) ELSE f
    BY <1>1 DEF PlacePass
  <2> HIDE DEF f
  <2>3. CASE m \notin ToSet(f) /\ graph[m] \subseteq ToSet(f)
    <3>1. g[m] = Append(f, m) /\ f \in Seq(Param) /\ Distinct(f)
      BY <2>1, <2>2, <2>3 DEF Placeable
    <3>2. ~ In(m, f) /\ \A n \in graph[m] : In(n, f)
      BY <2>3, <3>1, MembersAreIn
    <3>3. g[m] \in Seq(Param) /\ Distinct(g[m])
      BY <2>1, <3>1, <3>2, AppendedIn
    <3>4. /\ Len(g[m]) = Len(f) + 1 /\ Len(f) \in Nat /\ g[m][Len(f) + 1] = m
          /\ \A i \in 1..Len(f) : g[m][i] = f[i]
      BY <2>1, <3>1
    <3>5. ASSUME NEW i \in 1..Len(g[m]), NEW n \in graph[g[m][i]]
          PROVE  \E k \in 1..(i - 1) : g[m][k] = n
      <4>1. CASE i \in 1..Len(f)
        <5>1. PICK k \in 1..(i - 1) : f[k] = n
          BY <2>1, <3>4, <3>5, <4>1 DEF Placeable
        <5>2. k \in 1..Len(f)
          BY <4>1
        <5> QED
          BY <3>4, <5>1, <5>2
      <4>2. CASE i = Len(f) + 1
        <5>1. PICK k \in 1..Len(f) : f[k] = n
          BY <3>2, <3>4, <3>5, <4>2 DEF In
        <5>2. k \in 1..(i - 1)
          BY <3>4, <4>2
        <5> QED
          BY <3>4, <5>1, <5>2
      <4> QED
        BY <3>4, <4>1, <4>2
    <3> QED
      BY <2>1, <3>3, <3>5 DEF Placeable
  <2>4. CASE ~ (m \notin ToSet(f) /\ graph[m] \subseteq ToSet(f))
    <3>1. g[m] = f
      BY <2>2, <2>4
    <3> QED
      BY <2>1, <3>1
  <2> QED
    BY <2>3, <2>4
<1> HIDE DEF T
<1>4. 0..Params \subseteq T
  BY <1>2, <1>3, Along
<1> QED
  BY <1>1, <1>2, <1>4 DEF PlacePass, T

\* So its order has each parameter after all it reads.
LEMMA OrderIsPlaceable ==
  ASSUME NEW graph \in [Param -> SUBSET Param]
  PROVE  Placeable(graph, EvaluationOrder(graph))
<1>1. PICK g : OrderPass(g, graph)
  BY OrderPassExists
<1> DEFINE T == {m \in 0..Params : Placeable(graph, g[m])}
<1>2. Params \in Nat
  BY QcAssumption
<1>3. 0 \in T
  <2>1. << >> \in Seq(Param) /\ Len(<< >>) = 0
    OBVIOUS
  <2>2. Placeable(graph, << >>)
    BY <2>1 DEF Placeable, Distinct
  <2> QED
    BY <1>1, <1>2, <2>2 DEF OrderPass
<1>4. ASSUME NEW m \in 1..Params, m - 1 \in T PROVE m \in T
  BY <1>1, <1>4, PassKeepsPlaceable DEF OrderPass
<1> HIDE DEF T
<1>5. 0..Params \subseteq T
  BY <1>2, <1>3, <1>4, Along
<1> QED
  BY <1>1, <1>2, <1>5 DEF OrderPass, T

\* An order as long as there are parameters is short of none.
LEMMA FullOrderHasAll ==
  ASSUME NEW s \in Seq(Param), Distinct(s), Len(s) = Params
  PROVE  \A p \in Param : In(p, s)
<1> DEFINE K == 1..Len(s)
<1>1. Params \in Nat /\ Param = K
  BY QcAssumption DEF Param
<1>2. IsFiniteSet(Param)
  BY <1>1, FS_Interval
<1>3. s \in [K -> Param] /\ \A i, j \in K : s[i] = s[j] => i = j
  BY DEF Distinct
<1>4. s \in Injection(K, Param)
  BY <1>3 DEF Injection, IsInjective
<1>5. s \in Surjection(K, Param)
  <2> HIDE DEF K
  <2>1. Cardinality(K) = Cardinality(Param)
    BY <1>1
  <2> QED
    BY <1>2, <1>4, <2>1, FS_Injection
<1> QED
  BY <1>5 DEF Surjection, In

\* A sequence of distinct parameters has no more than there are, and one that
\* has them all no fewer.
LEMMA DistinctAreFew ==
  ASSUME NEW s \in Seq(Param), Distinct(s)
  PROVE  /\ Len(s) <= Params
         /\ (\A p \in Param : In(p, s)) => Len(s) = Params
<1> DEFINE k == Len(s)
           K == 1..k
<1>1. Params \in Nat /\ k \in Nat /\ Param = 1..Params
  BY QcAssumption DEF Param
<1>2. /\ IsFiniteSet(Param) /\ Cardinality(Param) = (IF 1 > Params THEN 0 ELSE Params - 1 + 1)
      /\ IsFiniteSet(K) /\ Cardinality(K) = (IF 1 > k THEN 0 ELSE k - 1 + 1)
  <2> HIDE DEF k
  <2> QED
    BY <1>1, FS_Interval
<1>3. Cardinality(Param) = Params /\ Cardinality(K) = k
  BY <1>1, <1>2
<1>4. s \in [K -> Param] /\ \A i, j \in K : s[i] = s[j] => i = j
  BY DEF Distinct
<1>5. s \in Injection(K, Param)
  BY <1>4 DEF Injection, IsInjective
<1>6. ASSUME \A p \in Param : In(p, s) PROVE s \in Surjection(K, Param)
  BY <1>4, <1>6 DEF Surjection, In
<1> HIDE DEF K
<1>7. Cardinality(K) <= Cardinality(Param)
  BY <1>2, <1>5, FS_Injection
<1>8. ASSUME \A p \in Param : In(p, s) PROVE Cardinality(Param) <= Cardinality(K)
  BY <1>2, <1>6, <1>8, FS_Surjection
<1> QED
  BY <1>1, <1>3, <1>7, <1>8

\* A pass takes nothing back, and places what reads only what is placed.
LEMMA PassPlaces ==
  ASSUME NEW graph \in [Param -> SUBSET Param], NEW placed \in Seq(Param)
  PROVE  LET after == OnePass(graph, placed)
         IN  /\ after = placed \/ Len(after) > Len(placed)
             /\ \A p \in Param : (\A n \in graph[p] : In(n, placed)) => In(p, after)
<1>1. PICK g : PlacePass(g, graph, placed)
  BY PlacePassExists
<1>2. /\ OnePass(graph, placed) = g[Params] /\ g[0] = placed
      /\ \A i \in 1..Params :
            g[i] = IF i \notin ToSet(g[i - 1]) /\ graph[i] \subseteq ToSet(g[i - 1])
                   THEN Append(g[i - 1], i) ELSE g[i - 1]
  BY <1>1 DEF PlacePass
<1> DEFINE Ready(p) == p \in Param /\ \A n \in graph[p] : In(n, placed)
           Good(m) ==
             /\ g[m] \in Seq(Param)
             /\ g[m] = placed \/ Len(g[m]) > Len(placed)
             /\ \A x : In(x, placed) => In(x, g[m])
             /\ \A p \in 1..m : Ready(p) => In(p, g[m])
           T == {m \in 0..Params : Good(m)}
<1>3. Params \in Nat /\ Param = 1..Params
  BY QcAssumption DEF Param
<1>4. 0 \in T
  <2>1. Good(0)
    BY <1>2
  <2>2. 0 \in 0..Params
    BY <1>3
  <2> HIDE DEF Good
  <2> QED
    BY <2>1, <2>2
<1>5. ASSUME NEW m \in 1..Params, m - 1 \in T PROVE m \in T
  <2> DEFINE f == g[m - 1]
  <2>1. /\ f \in Seq(Param) /\ (f = placed \/ Len(f) > Len(placed))
        /\ \A x : In(x, placed) => In(x, f)
        /\ \A p \in 1..(m - 1) : Ready(p) => In(p, f)
    BY <1>5
  <2>2. g[m] = IF m \notin ToSet(f) /\ graph[m] \subseteq ToSet(f) THEN Append(f, m) ELSE f
    BY <1>2
  <2>3. /\ m \in Param /\ m \in 0..Params /\ graph[m] \subseteq Param
        /\ \A p \in 1..m : p \in 1..(m - 1) \/ p = m
    BY <1>3
  <2> HIDE DEF f
  <2>4. \A x : x \in ToSet(f) <=> In(x, f)
    BY <2>1, MembersAreIn
  <2>5. CASE m \notin ToSet(f) /\ graph[m] \subseteq ToSet(f)
    <3>1. g[m] = Append(f, m)
      BY <2>2, <2>5
    <3>2. /\ g[m] \in Seq(Param) /\ \A y : In(y, g[m]) <=> In(y, f) \/ y = m
      BY <2>1, <2>3, <3>1, AppendedIn
    <3>3. Len(g[m]) > Len(placed)
      BY <2>1, <2>3, <3>1
    <3>4. \A p \in 1..m : Ready(p) => In(p, g[m])
      BY <2>1, <2>3, <3>2
    <3>5. Good(m)
      BY <2>1, <3>2, <3>3, <3>4
    <3> QED
      BY <2>3, <3>5
  <2>6. CASE ~ (m \notin ToSet(f) /\ graph[m] \subseteq ToSet(f))
    <3>1. g[m] = f
      BY <2>2, <2>6
    <3>2. Ready(m) => In(m, f)
      BY <2>1, <2>4, <2>6
    <3>3. \A p \in 1..m : Ready(p) => In(p, f)
      BY <2>1, <2>3, <3>2
    <3>4. Good(m)
      BY <2>1, <3>1, <3>3
    <3> QED
      BY <2>3, <3>4
  <2> QED
    BY <2>5, <2>6
<1> HIDE DEF T
<1>6. 0..Params \subseteq T
  BY <1>3, <1>4, <1>5, Along
<1>7. Good(Params)
  <2>1. Params \in T
    BY <1>3, <1>6
  <2> QED
    BY <2>1 DEF T
<1> QED
  BY <1>2, <1>3, <1>7

\* The registry orders the parameters of a graph, and does not raise
\* ValueError, exactly when they do not read each other in a circle; and then
\* each one comes after all it reads.
THEOREM OrderedUnlessCyclic ==
  ASSUME NEW graph \in [Param -> SUBSET Param]
  PROVE  /\ Len(EvaluationOrder(graph)) = Params <=> Acyclic(graph)
         /\ Placeable(graph, EvaluationOrder(graph))
<1> DEFINE s == EvaluationOrder(graph)
<1>1. Placeable(graph, s) /\ s \in Seq(Param) /\ Distinct(s)
  BY OrderIsPlaceable DEF Placeable
<1>2. Params \in Nat /\ Param \in SUBSET Nat
  BY QcAssumption DEF Param
<1>3. ASSUME Len(s) = Params, NEW S \in (SUBSET Param) \ {{}}
      PROVE  \E p \in S : graph[p] \cap S = {}
  <2> HIDE DEF s
  <2> DEFINE T == {i \in 1..Len(s) : s[i] \in S}
  <2>1. T \in SUBSET Nat
    OBVIOUS
  <2>2. T # {}
    <3>1. PICK p \in S : p \in Param
      BY <1>3
    <3>2. In(p, s)
      BY <1>1, <1>3, <3>1, FullOrderHasAll
    <3> QED
      BY <3>1, <3>2 DEF In
  <2> HIDE DEF T
  <2>3. PICK i \in T : \A k \in T : i <= k
    BY <2>1, <2>2, Least
  <2>4. i \in 1..Len(s) /\ s[i] \in S
    BY <2>3 DEF T
  <2>5. ASSUME NEW n \in graph[s[i]], n \in S PROVE FALSE
    <3>1. PICK k \in 1..(i - 1) : s[k] = n
      BY <1>1, <2>4, <2>5 DEF Placeable
    <3>2. k \in T /\ ~ (i <= k)
      BY <1>1, <2>4, <2>5, <3>1 DEF T
    <3> QED
      BY <2>3, <3>2
  <2> QED
    BY <2>4, <2>5
<1>4. ASSUME Acyclic(graph) PROVE Len(s) = Params
  <2>1. PICK g : OrderPass(g, graph)
    BY OrderPassExists
  <2> DEFINE Good(m) == Placeable(graph, g[m]) /\ Len(g[m]) >= m
             T == {m \in 0..Params : Good(m)}
  <2>2. 0 \in T
    <3>1. << >> \in Seq(Param) /\ Len(<< >>) = 0
      OBVIOUS
    <3>2. Placeable(graph, << >>)
      BY <3>1 DEF Placeable, Distinct
    <3>3. Good(0) /\ 0 \in 0..Params
      BY <1>2, <2>1, <3>1, <3>2 DEF OrderPass
    <3> HIDE DEF Good
    <3> QED
      BY <3>3
  <2>3. ASSUME NEW m \in 1..Params, m - 1 \in T PROVE m \in T
    <3> DEFINE f == g[m - 1]
               h == g[m]
    <3>1. Placeable(graph, f) /\ Len(f) >= m - 1 /\ m \in 0..Params
      BY <1>2, <2>3
    <3>2. h = OnePass(graph, f)
      BY <2>1 DEF OrderPass
    <3> HIDE DEF f, h
    <3>3. Placeable(graph, h)
      BY <3>1, <3>2, PassKeepsPlaceable
    <3>4. /\ f \in Seq(Param) /\ Distinct(f) /\ Len(f) \in Nat
          /\ h \in Seq(Param) /\ Len(h) \in Nat
      BY <3>1, <3>3 DEF Placeable
    <3>5. /\ h = f \/ Len(h) > Len(f)
          /\ \A p \in Param : (\A n \in graph[p] : In(n, f)) => In(p, h)
      BY <3>2, <3>4, PassPlaces
    <3>6. Len(h) >= m
      <4>1. CASE Len(f) >= m \/ Len(h) > Len(f)
        BY <1>2, <3>1, <3>4, <3>5, <4>1
      <4>2. CASE h = f /\ ~ (Len(f) >= m)
        <5> DEFINE S == {p \in Param : ~ In(p, f)}
        <5>1. S # {}
          <6>1. Len(f) # Params
            BY <1>2, <3>4, <4>2
          <6> QED
            BY <3>4, <6>1, DistinctAreFew
        <5>2. PICK p \in S : graph[p] \cap S = {}
          BY <1>4, <5>1 DEF Acyclic
        <5>3. \A n \in graph[p] : In(n, f)
          BY <5>2
        <5> QED
          BY <3>5, <4>2, <5>2, <5>3
      <4> QED
        BY <3>5, <4>1, <4>2
    <3> QED
      BY <3>1, <3>3, <3>6 DEF h
  <2> HIDE DEF T
  <2>4. 0..Params \subseteq T
    BY <1>2, <2>2, <2>3, Along
  <2>5. Params \in T
    BY <1>2, <2>4
  <2>6. Len(s) >= Params
    BY <2>1, <2>5 DEF T, OrderPass
  <2>7. Len(s) <= Params /\ Len(s) \in Nat
    BY <1>1, DistinctAreFew
  <2> QED
    BY <1>2, <2>6, <2>7
<1> QED
  BY <1>1, <1>3, <1>4 DEF Acyclic

-----------------------------------------------------------------------------
\* What an evaluation adds to the results.

Sources == {"own stage", "computed", "other stage", "nominal", "left out"}

Result == [test : Param, read : UNION {[I -> Sources] : I \in SUBSET (Param \cup Tag)}]

Typed ==
  /\ inputs \in [Param -> SUBSET (Param \cup Tag)]
  /\ stageOf \in [Param -> Stage]
  /\ tests \in SUBSET Param
  /\ process \in Seq(Stage)
  /\ completed \in Nat
  /\ parameters \in [Stage -> SUBSET Tag]
  /\ results \in Seq(Result)

TestedOnce(done) ==
  \A i, j \in 1..Len(done) : done[i].test = done[j].test => i = j

\* done has what was there before, and after it tests from c.
Extends(done, before, c) ==
  /\ done \in Seq(Result) /\ Len(before) <= Len(done)
  /\ \A i \in 1..Len(before) : done[i] = before[i]
  /\ \A i \in 1..Len(done) : i > Len(before) => In(done[i].test, c)

\* What one entry reads, when the tests of earlier were there to be read.
ReadsRight(entry, measured, earlier) ==
  \A n \in inputs[entry.test] :
    /\ n \in earlier => entry.read[n] = "computed"
    /\ entry.read[n] = "other stage" => n \notin measured[stageOf[entry.test]]

\* The tests an entry can count on: all of them when it had to wait for
\* what it reads, and else those before it among the candidates.
CanRead(p, before, c, required) ==
  {n \in Param : required \/ n \in Computed(before) \/ Precedes(n, p, c)}

\* What a test reads is a result if there is one, and its own stage's measurement.
LEMMA SourceIsRight ==
  ASSUME Typed, NEW p \in Param, NEW done \in Seq(Result),
         NEW measured \in [Stage -> SUBSET Tag], NEW n \in inputs[p]
  PROVE  /\ Source(p, n, done, measured) \in Sources
         /\ n \in Param /\ n \in Computed(done) => Source(p, n, done, measured) = "computed"
         /\ Source(p, n, done, measured) = "other stage" => n \notin measured[stageOf[p]]
<1>1. stageOf[p] \in Stage /\ measured[stageOf[p]] \subseteq Tag
  BY DEF Typed
<1>2. n \in Param => n \notin Tag
  BY QcAssumption DEF Param, Tag
<1> DEFINE own   == n \in measured[stageOf[p]]
           there == n \in Computed(done)
           other == \E s \in Stage : n \in measured[s]
           mine  == n \in Param
<1>3. Source(p, n, done, measured)
        = IF own THEN "own stage" ELSE IF there THEN "computed"
          ELSE IF other THEN "other stage" ELSE IF mine THEN "nominal" ELSE "left out"
  BY DEF Source
<1>4. mine => ~ own
  BY <1>1, <1>2
<1> HIDE DEF own, there, other, mine
<1>5. /\ Source(p, n, done, measured) \in Sources
      /\ mine /\ there => Source(p, n, done, measured) = "computed"
      /\ Source(p, n, done, measured) = "other stage" => ~ own
  BY <1>3, <1>4 DEF Sources
<1> QED
  BY <1>5 DEF own, there, mine

\* An evaluation keeps the results there were, adds candidates, each once, and
\* every one of them unless it waits; and what they read is what they should.
LEMMA EvaluateAdds ==
  ASSUME Typed, TestedOnce(results), NEW c \in Seq(Param), Distinct(c),
         NEW measured \in [Stage -> SUBSET Tag], NEW required \in BOOLEAN,
         \A x : In(x, c) => x \notin Computed(results)
  PROVE  LET e == Evaluate(c, measured, required)
         IN  /\ Extends(e, results, c) /\ TestedOnce(e)
             /\ ~ required => \A x : In(x, c) => x \in Computed(e)
             /\ \A i \in 1..Len(e) : i > Len(results) =>
                  ReadsRight(e[i], measured, CanRead(e[i].test, results, c, required))
<1> DEFINE k == Len(c)
           b == Len(results)
<1>1. PICK g : EvaluatePass(g, c, measured, required)
  BY EvaluatePassExists
<1>2. /\ Evaluate(c, measured, required) = g[k] /\ g[0] = results
      /\ \A i \in 1..k : g[i] = Tested(g[i - 1], c[i], measured, required)
  BY <1>1 DEF EvaluatePass
<1>3. k \in Nat /\ b \in Nat /\ results \in Seq(Result) /\ \A i \in 1..k : c[i] \in Param
  BY DEF Typed
<1> HIDE DEF k, b
<1> DEFINE Good(m) ==
             /\ g[m] \in Seq(Result) /\ b <= Len(g[m]) /\ TestedOnce(g[m])
             /\ \A i \in 1..b : g[m][i] = results[i]
             /\ \A i \in 1..Len(g[m]) : i > b => \E j \in 1..m : c[j] = g[m][i].test
             /\ ~ required => \A j \in 1..m : c[j] \in Computed(g[m])
             /\ \A i \in 1..Len(g[m]) : i > b =>
                  ReadsRight(g[m][i], measured, CanRead(g[m][i].test, results, c, required))
           T == {m \in 0..k : Good(m)}
<1>4. 0 \in T
  <2>1. Good(0)
    BY <1>2, <1>3 DEF b
  <2>2. 0 \in 0..k
    BY <1>3
  <2> HIDE DEF Good
  <2> QED
    BY <2>1, <2>2
<1>5. ASSUME NEW m \in 1..k, m - 1 \in T PROVE m \in T
  <2> DEFINE f == g[m - 1]
             p == c[m]
             l == Len(f)
             entry == [test |-> p, read |-> [n \in inputs[p] |-> Source(p, n, f, measured)]]
  <2>1. /\ f \in Seq(Result) /\ b <= l /\ TestedOnce(f) /\ l \in Nat
        /\ \A i \in 1..b : f[i] = results[i]
        /\ \A i \in 1..l : i > b => \E j \in 1..(m - 1) : c[j] = f[i].test
        /\ ~ required => \A j \in 1..(m - 1) : c[j] \in Computed(f)
        /\ \A i \in 1..l : i > b =>
             ReadsRight(f[i], measured, CanRead(f[i].test, results, c, required))
    BY <1>5
  <2>2. g[m] = (IF required /\ ~ InputsReady(p, f, measured) THEN f ELSE Append(f, entry))
    BY <1>2 DEF Tested
  <2>3. /\ m \in 0..k /\ m \in 1..m /\ p \in Param
        /\ \A j \in 1..(m - 1) : j \in 1..m /\ j \in 1..k /\ j # m
        /\ \A j \in 1..m : j \in 1..(m - 1) \/ j = m
    BY <1>3
  <2>4. CASE required /\ ~ InputsReady(p, f, measured)
    <3>1. g[m] = f
      BY <2>2, <2>4
    <3> HIDE DEF f, p, entry
    <3>2. Good(m)
      BY <2>1, <2>3, <2>4, <3>1 DEF l
    <3> HIDE DEF Good
    <3> QED
      BY <2>3, <3>2
  <2>5. CASE ~ (required /\ ~ InputsReady(p, f, measured))
    <3>1. g[m] = Append(f, entry)
      BY <2>2, <2>5
    <3>2. /\ entry.test = p /\ \A n \in inputs[p] : entry.read[n] = Source(p, n, f, measured)
          /\ entry \in Result
      <4>1. inputs[p] \in SUBSET (Param \cup Tag)
        BY <2>3 DEF Typed
      <4>2. \A n \in inputs[p] : Source(p, n, f, measured) \in Sources
        BY <2>1, <2>3, SourceIsRight
      <4>3. [n \in inputs[p] |-> Source(p, n, f, measured)] \in [inputs[p] -> Sources]
        BY <4>2
      <4>4. [n \in inputs[p] |-> Source(p, n, f, measured)]
              \in UNION {[I -> Sources] : I \in SUBSET (Param \cup Tag)}
        BY <4>1, <4>3
      <4> QED
        BY <2>3, <4>4 DEF Result
    <3>3. \A i \in 1..l : f[i].test # p
      <4> SUFFICES ASSUME NEW i \in 1..l, f[i].test = p PROVE FALSE
        OBVIOUS
      <4>1. CASE i > b
        <5>1. PICK j \in 1..(m - 1) : c[j] = p
          BY <2>1, <4>1
        <5>2. j \in 1..k /\ j # m
          BY <2>3
        <5> QED
          BY <5>1, <5>2 DEF Distinct, k
      <4>2. CASE ~ (i > b)
        <5>1. i \in 1..b /\ f[i] = results[i]
          BY <1>3, <2>1, <4>2
        <5>2. p \in Computed(results)
          BY <1>3, <5>1 DEF Computed, b
        <5>3. In(p, c)
          BY DEF In, k
        <5> QED
          BY <5>2, <5>3
      <4> QED
        BY <4>1, <4>2
    <3> HIDE DEF entry, Good
    <3>4. /\ g[m] \in Seq(Result) /\ Len(g[m]) = l + 1 /\ g[m][l + 1] = entry
          /\ \A i \in 1..l : g[m][i] = f[i]
      <4> HIDE DEF f
      <4> QED
        BY <2>1, <3>1, <3>2 DEF l
    <3> DEFINE h == g[m]
    <3>5. \A i \in 1..(l + 1) : i \in 1..l \/ i = l + 1
      BY <2>1
    <3>6. b <= Len(h) /\ \A i \in 1..b : h[i] = results[i]
      <4>1. \A i \in 1..b : i \in 1..l
        BY <1>3, <2>1
      <4> QED
        BY <1>3, <2>1, <3>4, <4>1
    <3>7. TestedOnce(h)
      <4> SUFFICES ASSUME NEW i \in 1..(l + 1), NEW j \in 1..(l + 1), h[i].test = h[j].test
                   PROVE  i = j
        BY <3>4 DEF TestedOnce
      <4>1. CASE i \in 1..l /\ j \in 1..l
        BY <2>1, <3>4, <4>1 DEF TestedOnce
      <4>2. CASE i \in 1..l /\ j = l + 1
        BY <3>2, <3>3, <3>4, <4>2
      <4>3. CASE i = l + 1 /\ j \in 1..l
        BY <3>2, <3>3, <3>4, <4>3
      <4> QED
        BY <3>5, <4>1, <4>2, <4>3
    <3>8. ASSUME NEW i \in 1..Len(h), i > b PROVE \E j \in 1..m : c[j] = h[i].test
      <4>1. CASE i \in 1..l
        <5>1. PICK j \in 1..(m - 1) : c[j] = f[i].test
          BY <2>1, <3>8, <4>1
        <5> QED
          BY <2>3, <3>4, <4>1, <5>1
      <4>2. CASE i = l + 1
        BY <2>3, <3>2, <3>4, <4>2
      <4> QED
        BY <3>4, <3>5, <3>8, <4>1, <4>2
    <3>9. ASSUME ~ required, NEW j \in 1..m PROVE c[j] \in Computed(h)
      <4>1. DOMAIN h = 1..(l + 1) /\ l + 1 \in 1..(l + 1) /\ DOMAIN f = 1..l
            /\ 1..l \subseteq 1..(l + 1)
        BY <2>1, <3>4
      <4>2. CASE j = m
        BY <3>2, <3>4, <4>1, <4>2 DEF Computed
      <4>3. CASE j \in 1..(m - 1)
        <5>1. PICK i \in 1..l : f[i].test = c[j]
          BY <2>1, <3>9, <4>1, <4>3 DEF Computed
        <5>2. h[i].test = c[j] /\ i \in DOMAIN h
          BY <3>4, <4>1, <5>1
        <5> QED
          BY <5>2 DEF Computed
      <4> QED
        BY <2>3, <4>2, <4>3
    <3>10. ReadsRight(entry, measured, CanRead(p, results, c, required))
      <4> SUFFICES ASSUME NEW n \in inputs[p]
                   PROVE  /\ n \in CanRead(p, results, c, required) => entry.read[n] = "computed"
                          /\ entry.read[n] = "other stage" => n \notin measured[stageOf[p]]
        BY <3>2 DEF ReadsRight
      <4>1. /\ n \in Param /\ n \in Computed(f) => entry.read[n] = "computed"
            /\ entry.read[n] = "other stage" => n \notin measured[stageOf[p]]
        <5>1. entry.read[n] = Source(p, n, f, measured) /\ f \in Seq(Result) /\ p \in Param
          BY <2>1, <2>3, <3>2
        <5> HIDE DEF f, p
        <5>2. /\ n \in Param /\ n \in Computed(f) => Source(p, n, f, measured) = "computed"
              /\ Source(p, n, f, measured) = "other stage" => n \notin measured[stageOf[p]]
          BY <5>1, SourceIsRight
        <5> QED
          BY <5>1, <5>2
      <4>2. DOMAIN f = 1..l /\ DOMAIN results = 1..b /\ 1..b \subseteq 1..l
        BY <1>3, <2>1 DEF b
      <4>3. Computed(results) \subseteq Computed(f)
        <5> HIDE DEF f
        <5> QED
          BY <2>1, <4>2 DEF Computed
      <4>4. ASSUME n \in Param, required PROVE n \in Computed(f)
        <5>1. InputsReady(p, f, measured)
          BY <2>5, <4>4
        <5>2. n \notin Tag
          BY <4>4, QcAssumption DEF Param, Tag
        <5>3. \A s \in Stage : n \notin measured[s]
          BY <5>2
        <5> QED
          BY <5>1, <5>3 DEF InputsReady
      <4>5. ASSUME ~ required, Precedes(n, p, c) PROVE n \in Computed(f)
        <5>1. PICK j \in 1..k : c[j] = p /\ \E i \in 1..(j - 1) : c[i] = n
          BY <4>5 DEF Precedes, k
        <5>2. j = m
          BY <5>1 DEF Distinct, k
        <5> QED
          BY <2>1, <4>5, <5>1, <5>2
      <4> QED
        BY <4>1, <4>3, <4>4, <4>5 DEF CanRead
    <3>11. ASSUME NEW i \in 1..Len(h), i > b
           PROVE  ReadsRight(h[i], measured, CanRead(h[i].test, results, c, required))
      <4>1. CASE i \in 1..l
        BY <2>1, <3>4, <3>11, <4>1
      <4>2. CASE i = l + 1
        <5>1. h[i] = entry
          BY <3>4, <4>2
        <5> QED
          BY <3>2, <3>10, <5>1
      <4> QED
        BY <3>4, <3>5, <3>11, <4>1, <4>2
    <3>12. Good(m)
      BY <3>4, <3>6, <3>7, <3>8, <3>9, <3>11 DEF Good
    <3> QED
      BY <2>3, <3>12
  <2> QED
    BY <2>4, <2>5
<1> HIDE DEF T
<1>6. 0..k \subseteq T
  BY <1>3, <1>4, <1>5, Along
<1>7. Good(k)
  <2>1. k \in T
    BY <1>3, <1>6
  <2> QED
    BY <2>1 DEF T
<1>8. Extends(g[k], results, c)
  BY <1>3, <1>7 DEF Extends, In, b, k
<1>9. ~ required => \A x : In(x, c) => x \in Computed(g[k])
  BY <1>7 DEF In, k
<1> QED
  BY <1>2, <1>7, <1>8, <1>9 DEF b

-----------------------------------------------------------------------------
\* The batch.

Planned == {"plan", "run", "done"}

\* Every parameter has its place, after all it reads.
OrderOfUse ==
  qcPhase \in Planned => Placeable(Graph, order) /\ Len(order) = Params

NothingYet == qcPhase \notin {"run", "done"} => results = << >>

TestedInv ==
  /\ TestedOnce(results)
  /\ \A i \in 1..Len(results) : results[i].test \in Applicable
  /\ qcPhase = "done" => Applicable \subseteq Computed(results)

QcInv == Typed /\ OrderOfUse /\ NothingYet /\ TestedInv

\* The graph is one of parameters.
LEMMA GraphReadsParams ==
  ASSUME Typed
  PROVE  Graph \in [Param -> SUBSET Param]
BY DEF Typed, Graph

\* The tests of the product, in the order of the registry.
LEMMA ForProductIs ==
  ASSUME Typed, OrderOfUse, qcPhase \in Planned
  PROVE  /\ ForProduct \in Seq(Param) /\ Distinct(ForProduct)
         /\ \A x : In(x, ForProduct) <=> x \in Applicable
         /\ ToSet(ForProduct) = Applicable
         /\ \A p \in Applicable, n \in Applicable :
               n \in inputs[p] => Precedes(n, p, ForProduct)
<1>1. /\ order \in Seq(Param) /\ Distinct(order) /\ Len(order) = Params
      /\ \A i \in 1..Len(order) : \A n \in Graph[order[i]] : \E k \in 1..(i - 1) : order[k] = n
  BY DEF OrderOfUse, Placeable
<1>2. \A p \in Param : In(p, order)
  BY <1>1, FullOrderHasAll
<1>3. Applicable \subseteq Param
  BY DEF Applicable, Typed
<1>4. /\ ForProduct \in Seq(Param) /\ Distinct(ForProduct)
      /\ \A x : In(x, ForProduct) <=> x \in Applicable /\ In(x, order)
      /\ \A a \in Applicable, b \in Applicable :
            Precedes(a, b, order) => Precedes(a, b, ForProduct)
  BY <1>1, ThoseAre DEF ForProduct
<1>5. \A x : In(x, ForProduct) <=> x \in Applicable
  BY <1>2, <1>3, <1>4
<1>6. ToSet(ForProduct) = Applicable
  <2>1. \A x : x \in ToSet(ForProduct) <=> In(x, ForProduct)
    BY <1>4, MembersAreIn
  <2> QED
    BY <1>5, <2>1
<1>7. ASSUME NEW p \in Applicable, NEW n \in Applicable, n \in inputs[p]
      PROVE  Precedes(n, p, ForProduct)
  <2>1. p \in Param /\ n \in Graph[p]
    BY <1>3, <1>7 DEF Graph
  <2>2. PICK i \in 1..Len(order) : order[i] = p
    BY <1>2, <2>1 DEF In
  <2>3. \E k \in 1..(i - 1) : order[k] = n
    BY <1>1, <2>1, <2>2
  <2>4. Precedes(n, p, order)
    BY <2>2, <2>3 DEF Precedes
  <2> QED
    BY <1>4, <2>4
<1> QED
  BY <1>4, <1>5, <1>6, <1>7

\* What an evaluation over some of the tests of the product, none of them
\* computed before, leaves; it waits for what they read, or takes all
\* that is outstanding.
LEMMA EvaluationKeeps ==
  ASSUME QcInv, qcPhase = "run", NEW W \in SUBSET Param, W \cap Computed(results) = {},
         NEW measured \in [Stage -> SUBSET Tag], NEW required \in BOOLEAN,
         required \/ W = Param \ Computed(results)
  PROVE  LET e == Evaluate(Those(ForProduct, W), measured, required)
         IN  /\ e \in Seq(Result) /\ TestedOnce(e)
             /\ \A i \in 1..Len(e) : e[i].test \in Applicable
             /\ ~ required => Applicable \subseteq Computed(e)
             /\ \A i \in 1..Len(e) : i > Len(results) => ReadsRight(e[i], measured, Applicable)
<1> DEFINE c == Those(ForProduct, W)
           e == Evaluate(c, measured, required)
           b == Len(results)
<1>1. /\ Typed /\ OrderOfUse /\ TestedOnce(results) /\ qcPhase \in Planned
      /\ \A i \in 1..b : results[i].test \in Applicable
  BY DEF QcInv, TestedInv, Planned
<1>2. /\ ForProduct \in Seq(Param) /\ Distinct(ForProduct)
      /\ \A x : In(x, ForProduct) <=> x \in Applicable
      /\ \A p \in Applicable, n \in Applicable : n \in inputs[p] => Precedes(n, p, ForProduct)
  BY <1>1, ForProductIs
<1>3. /\ c \in Seq(Param) /\ Distinct(c)
      /\ \A x : In(x, c) <=> x \in W /\ x \in Applicable
      /\ \A a \in W, p \in W : Precedes(a, p, ForProduct) => Precedes(a, p, c)
  BY <1>2, ThoseAre
<1> HIDE DEF c
<1>4. \A x : In(x, c) => x \notin Computed(results)
  BY <1>3
<1>5. /\ Extends(e, results, c) /\ TestedOnce(e)
      /\ ~ required => \A x : In(x, c) => x \in Computed(e)
      /\ \A i \in 1..Len(e) : i > b =>
           ReadsRight(e[i], measured, CanRead(e[i].test, results, c, required))
  BY <1>1, <1>3, <1>4, EvaluateAdds
<1> HIDE DEF e
<1>6. /\ e \in Seq(Result) /\ b \in Nat /\ b <= Len(e) /\ Len(e) \in Nat
      /\ \A i \in 1..b : e[i] = results[i]
      /\ \A i \in 1..Len(e) : i > b => In(e[i].test, c)
  BY <1>1, <1>5 DEF Extends, Typed
<1>7. ASSUME NEW i \in 1..Len(e) PROVE e[i].test \in Applicable
  <2>1. CASE i > b
    BY <1>3, <1>6, <2>1
  <2>2. CASE ~ (i > b)
    <3>1. i \in 1..b
      BY <1>6, <2>2
    <3> QED
      BY <1>1, <1>6, <3>1
  <2> QED
    BY <2>1, <2>2
<1>8. ASSUME ~ required, NEW p \in Applicable PROVE p \in Computed(e)
  <2>1. p \in Param
    BY <1>1 DEF Applicable, Typed
  <2>2. CASE p \in W
    BY <1>3, <1>5, <1>8, <2>2
  <2>3. CASE p \notin W
    <3>1. p \in Computed(results) /\ DOMAIN results = 1..b /\ DOMAIN e = 1..Len(e)
      BY <1>1, <1>6, <1>8, <2>1, <2>3 DEF Typed
    <3>2. PICK i \in 1..b : results[i].test = p
      BY <3>1 DEF Computed
    <3>3. i \in DOMAIN e /\ e[i].test = p
      BY <1>6, <3>1, <3>2
    <3> QED
      BY <3>3 DEF Computed
  <2> QED
    BY <2>2, <2>3
<1>9. ASSUME NEW i \in 1..Len(e), i > b PROVE ReadsRight(e[i], measured, Applicable)
  <2> DEFINE p == e[i].test
             can == CanRead(p, results, c, required)
  <2>1. ReadsRight(e[i], measured, can)
    BY <1>5, <1>9
  <2>2. p \in W /\ p \in Applicable
    BY <1>3, <1>6, <1>9
  <2>3. ASSUME NEW n \in inputs[p], n \in Applicable PROVE n \in can
    <3>1. n \in Param
      BY <1>1, <2>3 DEF Applicable, Typed
    <3>2. CASE required
      BY <3>1, <3>2 DEF CanRead
    <3>3. CASE n \in Computed(results)
      BY <3>1, <3>3 DEF CanRead
    <3>4. CASE ~ required /\ n \notin Computed(results)
      <4>1. n \in W
        BY <3>1, <3>4
      <4>2. Precedes(n, p, ForProduct)
        BY <1>2, <2>2, <2>3
      <4>3. Precedes(n, p, c)
        BY <1>3, <2>2, <4>1, <4>2
      <4> QED
        BY <3>1, <4>3 DEF CanRead
    <3> QED
      BY <3>2, <3>3, <3>4
  <2> HIDE DEF can
  <2> QED
    BY <2>1, <2>3 DEF ReadsRight
<1> QED
  BY <1>5, <1>6, <1>7, <1>8, <1>9 DEF e, c

\* The invariant holds before the rules are linted.
LEMMA QcBegins == QcInit => QcInv
<1> SUFFICES ASSUME QcInit PROVE QcInv
  OBVIOUS
<1>1. Routes[1][1] \in Stage
  <2>1. Routes \in Seq(Seq(Stage) \ {<< >>}) /\ Routes # << >>
    BY QcAssumption
  <2>2. Routes[1] \in Seq(Stage) \ {<< >>}
    BY <2>1
  <2> QED
    BY <2>2
<1>2. << >> \in Seq(Stage) /\ << >> \in Seq(Result) /\ Len(<< >>) = 0
  OBVIOUS
<1>3. Typed
  BY <1>1, <1>2 DEF QcInit, Typed
<1>4. TestedInv
  BY <1>2 DEF QcInit, TestedInv, TestedOnce
<1> QED
  BY <1>3, <1>4 DEF QcInit, QcInv, OrderOfUse, NothingYet, Planned

\* What the two steps that compute tests do, beside the invariant.
LEMMA StageReadsRight ==
  ASSUME QcInv, CompleteStage
  PROVE  /\ results' \in Seq(Result) /\ TestedOnce(results')
         /\ \A i \in 1..Len(results') : results'[i].test \in Applicable
         /\ \A i \in 1..Len(results') : i > Len(results) =>
              ReadsRight(results'[i], parameters', Applicable)
         /\ parameters' \in [Stage -> SUBSET Tag]
<1>1. PICK achieved \in SUBSET Tag :
        LET s == process[completed + 1]
            measured == [parameters EXCEPT ![s] = achieved]
        IN  parameters' = measured /\ results' = Evaluate(OfStage(s), measured, TRUE)
  BY DEF CompleteStage
<1> DEFINE s == process[completed + 1]
           W == {p \in Param \ final : stageOf[p] = s} \ Computed(results)
<1>2. parameters' \in [Stage -> SUBSET Tag]
  BY <1>1 DEF QcInv, Typed
<1>3. results' = Evaluate(Those(ForProduct, W), parameters', TRUE)
  BY <1>1 DEF OfStage
<1>4. qcPhase = "run" /\ W \in SUBSET Param /\ W \cap Computed(results) = {}
  BY DEF CompleteStage
<1> HIDE DEF W
<1> QED
  BY <1>2, <1>3, <1>4, EvaluationKeeps

LEMMA FinishReadsRight ==
  ASSUME QcInv, FinishBatch
  PROVE  /\ results' \in Seq(Result) /\ TestedOnce(results')
         /\ \A i \in 1..Len(results') : results'[i].test \in Applicable
         /\ \A i \in 1..Len(results') : i > Len(results) =>
              ReadsRight(results'[i], parameters', Applicable)
         /\ Applicable \subseteq Computed(results')
<1> DEFINE W == Param \ Computed(results)
<1>1. results' = Evaluate(Those(ForProduct, W), parameters, FALSE) /\ parameters' = parameters
  BY DEF FinishBatch, Outstanding
<1>2. /\ qcPhase = "run" /\ W \in SUBSET Param /\ W \cap Computed(results) = {}
      /\ parameters \in [Stage -> SUBSET Tag]
  BY DEF FinishBatch, QcInv, Typed
<1> HIDE DEF W
<1>3. W = Param \ Computed(results)
  BY DEF W
<1> QED
  BY <1>1, <1>2, <1>3, EvaluationKeeps

\* Every step keeps it.
LEMMA QcGoesOn == QcInv /\ [QcNext]_qc => QcInv'
<1> SUFFICES ASSUME QcInv, [QcNext]_qc PROVE QcInv'
  OBVIOUS
<1> USE DEF QcInv
<1>1. CASE LintRules
  <2>1. UNCHANGED <<inputs, stageOf, tests, process, completed, parameters, results, order>>
        /\ qcPhase' \in {"order", "refused"} /\ qcPhase \notin {"run", "done"}
    BY <1>1 DEF LintRules, rules
  <2> QED
    BY <2>1 DEF Typed, OrderOfUse, NothingYet, TestedInv, TestedOnce, Planned, Applicable, Computed
<1>2. CASE OrderRules
  <2>1. /\ UNCHANGED <<inputs, stageOf, tests, process, completed, parameters, results>>
        /\ order' = EvaluationOrder(Graph) /\ results = << >>
        /\ \/ qcPhase' = "plan" /\ Len(order') = Params
           \/ qcPhase' = "unordered"
    BY <1>2 DEF OrderRules, rules, NothingYet
  <2>2. Typed' /\ NothingYet'
    BY <2>1 DEF Typed, NothingYet
  <2>3. Graph' = Graph /\ Placeable(Graph, order')
    BY <2>1, GraphReadsParams, OrderIsPlaceable DEF Graph
  <2>4. OrderOfUse'
    <3>1. Placeable(Graph', order')
      BY <2>3
    <3> QED
      BY <2>1, <3>1 DEF OrderOfUse, Planned
  <2>5. TestedInv'
    BY <2>1 DEF TestedInv, TestedOnce
  <2> QED
    BY <2>2, <2>4, <2>5
<1>3. CASE Plan
  <2>1. /\ UNCHANGED <<inputs, completed, parameters, results, order>> /\ results = << >>
        /\ qcPhase' = "run" /\ qcPhase = "plan"
        /\ stageOf' \in [Param -> Stage] /\ tests' \in SUBSET Param
        /\ process' \in ToSet(Routes)
    BY <1>3 DEF Plan, NothingYet
  <2>2. process' \in Seq(Stage)
    BY <2>1, QcAssumption, MembersAreIn
  <2>3. Typed' /\ NothingYet'
    BY <2>1, <2>2 DEF Typed, NothingYet
  <2>4. OrderOfUse'
    BY <2>1 DEF OrderOfUse, Planned, Graph, Placeable
  <2>5. TestedInv'
    BY <2>1 DEF TestedInv, TestedOnce
  <2> QED
    BY <2>3, <2>4, <2>5
<1>4. CASE CompleteStage
  <2>1. /\ UNCHANGED <<inputs, stageOf, tests, process, order, qcPhase>>
        /\ qcPhase = "run" /\ completed' = completed + 1
    BY <1>4 DEF CompleteStage, rules
  <2>2. /\ results' \in Seq(Result) /\ TestedOnce(results') /\ parameters' \in [Stage -> SUBSET Tag]
        /\ \A i \in 1..Len(results') : results'[i].test \in Applicable
    BY <1>4, StageReadsRight
  <2>3. Typed' /\ NothingYet'
    BY <2>1, <2>2 DEF Typed, NothingYet
  <2>4. OrderOfUse'
    BY <2>1 DEF OrderOfUse, Planned, Graph, Placeable
  <2>5. TestedInv'
    BY <2>1, <2>2 DEF TestedInv, TestedOnce, Applicable
  <2> QED
    BY <2>3, <2>4, <2>5
<1>5. CASE FinishBatch
  <2>1. /\ UNCHANGED <<inputs, stageOf, tests, process, order, completed, parameters>>
        /\ qcPhase = "run" /\ qcPhase' = "done"
    BY <1>5 DEF FinishBatch, rules
  <2>2. /\ results' \in Seq(Result) /\ TestedOnce(results')
        /\ \A i \in 1..Len(results') : results'[i].test \in Applicable
        /\ Applicable \subseteq Computed(results')
    BY <1>5, FinishReadsRight
  <2>3. Typed' /\ NothingYet'
    BY <2>1, <2>2 DEF Typed, NothingYet
  <2>4. OrderOfUse'
    BY <2>1 DEF OrderOfUse, Planned, Graph, Placeable
  <2>5. TestedInv'
    BY <2>1, <2>2 DEF TestedInv, TestedOnce, Applicable, Computed
  <2> QED
    BY <2>3, <2>4, <2>5
<1>6. CASE UNCHANGED qc
  <2>1. UNCHANGED <<inputs, stageOf, tests, process, completed, parameters, results, order, qcPhase>>
    BY <1>6 DEF qc
  <2>2. Typed' /\ NothingYet'
    BY <2>1 DEF Typed, NothingYet
  <2>3. OrderOfUse'
    BY <2>1 DEF OrderOfUse, Graph, Placeable
  <2>4. TestedInv'
    BY <2>1 DEF TestedInv, TestedOnce, Applicable, Computed
  <2> QED
    BY <2>2, <2>3, <2>4
<1> QED
  BY <1>1, <1>2, <1>3, <1>4, <1>5, <1>6 DEF QcNext

\* It holds throughout.
LEMMA QcInvariant == QcSpec => []QcInv
<1>1. QcInit => QcInv
  BY QcBegins
<1>2. QcInv /\ [QcNext]_qc => QcInv'
  BY QcGoesOn
<1> QED
  BY <1>1, <1>2, PTL DEF QcSpec

\* No test is computed twice, although a stage may come twice and tests
\* wait for what they read, and at the end of the batch none is missing:
\* QcEngine.evaluate_stage leaves out what has a result, and evaluate_final
\* takes all that has none.
THEOREM EachTestComputedOnce == QcSpec => []EachTestOnce
<1>1. QcInv => EachTestOnce
  <2> SUFFICES ASSUME QcInv PROVE EachTestOnce
    OBVIOUS
  <2>1. Typed /\ OrderOfUse /\ TestedInv /\ DOMAIN results = 1..Len(results)
    BY DEF QcInv, Typed
  <2>2. ASSUME qcPhase = "done" PROVE Computed(results) = ToSet(ForProduct)
    <3>1. ToSet(ForProduct) = Applicable
      BY <2>1, <2>2, ForProductIs DEF Planned
    <3>2. Computed(results) = Applicable
      BY <2>1, <2>2 DEF TestedInv, Computed
    <3> QED
      BY <3>1, <3>2
  <2> QED
    BY <2>1, <2>2 DEF EachTestOnce, TestedInv, TestedOnce
<1> QED
  BY <1>1, QcInvariant, PTL

\* A test computed at the end of a stage or of the batch reads the result of
\* every other test of its product that it depends on, and its own stage's
\* measurement before another's: QcRegistry's order puts what is read first,
\* and _inputs_ready makes an in-process test wait.
THEOREM TestsReadWhatWasMeasured == QcSpec => InputsAsMeasured
<1> DEFINE Right(i) ==
             LET p == results'[i].test IN
             \A n \in inputs[p] :
               /\ n \in ToSet(ForProduct) => results'[i].read[n] = "computed"
               /\ results'[i].read[n] = "other stage" => n \notin parameters'[stageOf[p]]
           Reads == \A i \in (DOMAIN results') \ DOMAIN results : Right(i)
<1>1. QcInv /\ [QcNext]_qc => [Reads]_qc
  <2> SUFFICES ASSUME QcInv, QcNext PROVE Reads
    OBVIOUS
  <2>1. CASE CompleteStage \/ FinishBatch
    <3>1. /\ results' \in Seq(Result) /\ results \in Seq(Result) /\ stageOf' = stageOf
          /\ \A i \in 1..Len(results') : i > Len(results) =>
               ReadsRight(results'[i], parameters', Applicable)
          /\ qcPhase = "run"
      BY <2>1, StageReadsRight, FinishReadsRight
         DEF QcInv, Typed, CompleteStage, FinishBatch, rules
    <3>2. ToSet(ForProduct) = Applicable
      BY <3>1, ForProductIs DEF QcInv, Planned
    <3> SUFFICES ASSUME NEW i \in (DOMAIN results') \ DOMAIN results PROVE Right(i)
      OBVIOUS
    <3>3. i \in 1..Len(results') /\ i > Len(results)
      BY <3>1
    <3>4. ReadsRight(results'[i], parameters', Applicable)
      BY <3>1, <3>3
    <3> QED
      BY <3>2, <3>4 DEF ReadsRight
  <2>2. CASE LintRules \/ OrderRules \/ Plan
    <3>1. results' = results
      BY <2>2 DEF LintRules, OrderRules, Plan
    <3> QED
      BY <3>1
  <2> QED
    BY <2>1, <2>2 DEF QcNext
<1>2. QcSpec => [][Reads]_qc
  BY <1>1, QcInvariant, PTL DEF QcSpec
<1> QED
  BY <1>2 DEF InputsAsMeasured
=============================================================================
