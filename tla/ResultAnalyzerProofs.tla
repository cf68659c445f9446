------------------------- MODULE ResultAnalyzerProofs -------------------------
(***************************************************************************)
(* Theorems about ResultAnalyzer, for any problem that Problem builds.     *)
(***************************************************************************)
EXTENDS ResultAnalyzer, ProblemAndPoolProofs

(***************************************************************************)
(* Loops that push back and loops that sum.                                *)
(***************************************************************************)

\* The loop that pushes indices back, turn after turn.
LEMMA OrderRuns ==
  ASSUME NEW C, NEW l \in Nat
  PROVE  \E a : Unrolled(a, "order", C, <<>>, l) /\ InOrder(l, C) = a[l]
<1> DEFINE One(s, i) == IF i \in C THEN Append(s, i) ELSE s
           Fold(it) == it = [s \in SUBSET (1..l) |->
                               IF s = {} THEN <<>>
                               ELSE One(it[s \ {Max(s)}], [i \in 1..l |-> i][Max(s)])]
           it == CHOOSE it : Fold(it)
<1>1. InOrder(l, C) = it[1..l]
  BY DEF InOrder, FoldLeft, MapThenFoldSet
<1>2. ASSUME NEW h PROVE Folds(h, "order", C, <<>>, l) <=> Fold(h)
  <2>1. ASSUME NEW s \in SUBSET (1..l), s # {}
        PROVE  [i \in 1..l |-> i][Max(s)] = Max(s)
    BY <2>1, LargestIsOne
  <2>2. \A s \in SUBSET (1..l) :
          (IF s = {} THEN <<>> ELSE One(h[s \ {Max(s)}], Max(s)))
          = IF s = {} THEN <<>> ELSE One(h[s \ {Max(s)}], [i \in 1..l |-> i][Max(s)])
    BY <2>1
  <2> QED BY <2>2 DEF Folds, Turn
<1>3. Fold(it)
  <2>1. PICK h : Folds(h, "order", C, <<>>, l)
    BY FoldExists
  <2>2. Fold(h)
    BY <1>2, <2>1
  <2> HIDE DEF Fold
  <2> QED BY <2>2
<1> HIDE DEF it, Fold
<1>4. Folds(it, "order", C, <<>>, l)
  BY <1>2, <1>3
<1> QED BY <1>1, <1>4, FoldRuns

\* The loop that sums, turn after turn.
LEMMA TotalRuns ==
  ASSUME NEW s, NEW l \in Nat, DOMAIN s = 1..l
  PROVE  \E a : Unrolled(a, "total", s, 0, l) /\ Total(s) = a[l]
<1> DEFINE Fold(it) == it = [t \in SUBSET (1..l) |->
                               IF t = {} THEN 0 ELSE it[t \ {Max(t)}] + s[Max(t)]]
           it == CHOOSE it : Fold(it)
<1>1. Total(s) = it[1..l]
  BY DEF Total, FoldLeft, MapThenFoldSet
<1>2. ASSUME NEW h PROVE Folds(h, "total", s, 0, l) <=> Fold(h)
  BY DEF Folds, Turn
<1>3. Fold(it)
  <2>1. PICK h : Folds(h, "total", s, 0, l)
    BY FoldExists
  <2>2. Fold(h)
    BY <1>2, <2>1
  <2> HIDE DEF Fold
  <2> QED BY <2>2
<1> HIDE DEF it, Fold
<1>4. Folds(it, "total", s, 0, l)
  BY <1>2, <1>3
<1> QED BY <1>1, <1>4, FoldRuns

\* What is pushed back: the indices of the first k that are in C, in order.
Ordered(s, k, C) ==
  /\ s \in Seq(Nat)
  /\ \A i \in 1..Len(s) : s[i] \in 1..k /\ s[i] \in C
  /\ \A r \in 1..k : r \in C => \E i \in 1..Len(s) : s[i] = r
  /\ \A i, j \in 1..Len(s) : i < j => s[i] < s[j]

\* One index more.
LEMMA OrderOneMore ==
  ASSUME NEW C, NEW k \in Nat \ {0}, NEW s, Ordered(s, k - 1, C), NEW t,
         t = IF k \in C THEN Append(s, k) ELSE s
  PROVE  Ordered(t, k, C)
<1>1. s \in Seq(Nat) /\ Len(s) \in Nat
  BY LenProperties DEF Ordered
<1>2. CASE k \notin C
  <2>1. \A r \in 1..k : r \in C => r \in 1..k - 1
    BY <1>2
  <2>2. \A r \in 1..k - 1 : r \in 1..k
    OBVIOUS
  <2> QED BY <1>2, <2>1, <2>2 DEF Ordered
<1>3. CASE k \in C
  <2> DEFINE l == Len(s)
  <2>1. /\ t \in Seq(Nat) /\ Len(t) = l + 1
        /\ \A i \in 1..l : t[i] = s[i]
        /\ t[l + 1] = k
    <3>1. t = Append(s, k) /\ k \in Nat
      BY <1>3
    <3> QED BY <1>1, <3>1, AppendProperties
  <2>2. l \in Nat
    BY <1>1
  <2>3. /\ \A i \in 1..l : s[i] \in 1..k - 1 /\ s[i] \in C
        /\ \A r \in 1..k - 1 : r \in C => \E i \in 1..l : s[i] = r
        /\ \A i, j \in 1..l : i < j => s[i] < s[j]
    BY DEF Ordered
  <2> HIDE DEF l
  <2>4. ASSUME NEW i \in 1..l + 1
        PROVE  t[i] \in 1..k /\ t[i] \in C
    BY <1>3, <2>1, <2>2, <2>3
  <2>5. ASSUME NEW r \in 1..k, r \in C
        PROVE  \E i \in 1..l + 1 : t[i] = r
    <3>1. CASE r = k
      <4>1. l + 1 \in 1..l + 1
        BY <2>2
      <4> QED BY <2>1, <3>1, <4>1
    <3>2. CASE r # k
      <4>1. r \in 1..k - 1
        BY <3>2
      <4>2. PICK i \in 1..l : s[i] = r
        BY <2>3, <2>5, <4>1
      <4>3. i \in 1..l + 1
        BY <2>2
      <4> QED BY <2>1, <4>2, <4>3
    <3> QED BY <3>1, <3>2
  <2>6. ASSUME NEW i \in 1..l + 1, NEW j \in 1..l + 1, i < j
        PROVE  t[i] < t[j]
    <3>1. i \in 1..l /\ t[i] = s[i] /\ s[i] \in 1..k - 1
      BY <2>1, <2>2, <2>3, <2>6
    <3>2. CASE j = l + 1
      BY <2>1, <3>1, <3>2
    <3>3. CASE j # l + 1
      <4>1. j \in 1..l
        BY <2>2, <3>3
      <4> QED BY <2>1, <2>3, <2>6, <3>1, <4>1
    <3> QED BY <3>2, <3>3
  <2> QED BY <2>1, <2>4, <2>5, <2>6 DEF Ordered
<1> QED BY <1>2, <1>3

\* The loop pushes back what it is to.
LEMMA InOrderIsOrdered ==
  ASSUME NEW C, NEW l \in Nat
  PROVE  Ordered(InOrder(l, C), l, C)
<1>1. PICK a : Unrolled(a, "order", C, <<>>, l) /\ InOrder(l, C) = a[l]
  BY OrderRuns
<1> DEFINE T == {k \in 0..l : Ordered(a[k], k, C)}
<1>2. 0 \in T
  <2>1. a[0] = <<>>
    BY <1>1 DEF Unrolled
  <2>2. Ordered(<<>>, 0, C)
    BY DEF Ordered
  <2> QED BY <2>1, <2>2
<1>3. ASSUME NEW k \in 1..l, k - 1 \in T PROVE k \in T
  <2>1. a[k] = IF k \in C THEN Append(a[k - 1], k) ELSE a[k - 1]
    BY <1>1 DEF Unrolled, Turn
  <2>2. Ordered(a[k - 1], k - 1, C) /\ k \in Nat \ {0}
    BY <1>3
  <2>3. Ordered(a[k], k, C)
    <3> HIDE DEF T
    <3> QED BY <2>1, <2>2, OrderOneMore
  <2> QED BY <2>3
<1>4. l \in T
  <2> HIDE DEF T
  <2>1. l \in 0..l
    OBVIOUS
  <2> QED BY <1>2, <1>3, <2>1, Climb
<1> QED BY <1>1, <1>4

\* A list that names each element of a set once is as long as the set is large.
LEMMA EachOnce ==
  ASSUME NEW T, NEW l \in Nat, NEW f \in [1..l -> T],
         \A i, j \in 1..l : f[i] = f[j] => i = j,
         \A t \in T : \E i \in 1..l : f[i] = t
  PROVE  IsFiniteSet(T) /\ Cardinality(T) = l
<1>1. IsFiniteSet(1..l) /\ Cardinality(1..l) = l
  BY FS_Interval
<1>2. f \in Bijection(1..l, T)
  BY DEF Bijection, Injection, IsInjective, Surjection
<1>3. ExistsBijection(1..l, T)
  BY <1>2 DEF ExistsBijection
<1> QED BY <1>1, <1>3, FS_Bijection

\* There are as many indices pushed back as there are to be.
LEMMA OrderedLength ==
  ASSUME NEW l \in Nat, NEW C \in SUBSET (1..l), NEW s, Ordered(s, l, C)
  PROVE  Cardinality(C) = Len(s)
<1>1. s \in Seq(Nat) /\ Len(s) \in Nat
  BY LenProperties DEF Ordered
<1> DEFINE e == Len(s)
           f == [i \in 1..e |-> s[i]]
<1>2. f \in [1..e -> C]
  BY DEF Ordered
<1>3. ASSUME NEW i \in 1..e, NEW j \in 1..e, f[i] = f[j]
      PROVE  i = j
  <2>1. s[i] = s[j] /\ s[i] \in Int /\ s[j] \in Int
    BY <1>3 DEF Ordered
  <2>2. i < j => s[i] < s[j]
    BY DEF Ordered
  <2>3. j < i => s[j] < s[i]
    BY DEF Ordered
  <2> QED BY <1>1, <2>1, <2>2, <2>3
<1>4. \A t \in C : \E i \in 1..e : f[i] = t
  BY DEF Ordered
<1> HIDE DEF e, f
<1>5. e \in Nat
  BY <1>1 DEF e
<1>6. Cardinality(C) = e
  BY <1>2, <1>3, <1>4, <1>5, EachOnce
<1> QED BY <1>6 DEF e

\* The sums of the first k summands.
Sums(p, s, l) ==
  /\ p \in [0..l -> Int] /\ p[0] = 0
  /\ \A k \in 1..l : p[k] = p[k - 1] + s[k]

\* The loop computes such sums, and its result is the last.
LEMMA TotalIsASum ==
  ASSUME NEW l \in Nat, NEW s \in [1..l -> Int]
  PROVE  \E p : Sums(p, s, l) /\ Total(s) = p[l]
<1>1. PICK a : Unrolled(a, "total", s, 0, l) /\ Total(s) = a[l]
  <2>1. DOMAIN s = 1..l
    OBVIOUS
  <2> QED BY <2>1, TotalRuns
<1>2. a = [k \in 0..l |-> a[k]] /\ a[0] = 0 /\ \A k \in 1..l : a[k] = a[k - 1] + s[k]
  BY <1>1 DEF Unrolled, Turn
<1> DEFINE T == {k \in 0..l : a[k] \in Int}
<1>3. 0 \in T
  BY <1>2
<1>4. ASSUME NEW k \in 1..l, k - 1 \in T PROVE k \in T
  <2>1. a[k - 1] \in Int /\ s[k] \in Int /\ a[k] = a[k - 1] + s[k]
    BY <1>2, <1>4
  <2> QED BY <2>1
<1>5. \A k \in 0..l : k \in T
  <2> HIDE DEF T
  <2> QED BY <1>3, <1>4, Climb
<1>6. a \in [0..l -> Int]
  BY <1>2, <1>5
<1> QED BY <1>1, <1>2, <1>6 DEF Sums

\* There is one such function.
LEMMA SumsAreTotal ==
  ASSUME NEW l \in Nat, NEW s \in [1..l -> Int], NEW p, Sums(p, s, l)
  PROVE  Total(s) = p[l]
<1>1. PICK q : Sums(q, s, l) /\ Total(s) = q[l]
  BY TotalIsASum
<1> DEFINE T == {k \in 0..l : q[k] = p[k]}
<1>2. 0 \in T
  BY <1>1 DEF Sums
<1>3. ASSUME NEW k \in 1..l, k - 1 \in T PROVE k \in T
  <2>1. q[k] = q[k - 1] + s[k] /\ p[k] = p[k - 1] + s[k]
    BY <1>1 DEF Sums
  <2> QED BY <1>3, <2>1
<1>4. l \in T
  <2> HIDE DEF T
  <2>1. l \in 0..l
    OBVIOUS
  <2> QED BY <1>2, <1>3, <2>1, Climb
<1> QED BY <1>1, <1>4

\* A sum of nothing but zeros is zero.
LEMMA SumOfZeros ==
  ASSUME NEW l \in Nat, NEW s, DOMAIN s = 1..l, s = [i \in 1..l |-> 0]
  PROVE  Total(s) = 0
<1> DEFINE p == [k \in 0..l |-> 0]
<1>1. s \in [1..l -> Int] /\ \A k \in 1..l : s[k] = 0
  OBVIOUS
<1>2. Sums(p, s, l)
  BY <1>1 DEF Sums
<1>3. p[l] = 0
  OBVIOUS
<1> HIDE DEF p
<1> QED BY <1>1, <1>2, <1>3, SumsAreTotal

\* The blocks of a list of summands, one for each constraint.
Blocks(b, s, d, n) ==
  /\ b = [k \in 1..n |-> b[k]]
  /\ \A k \in 1..n : b[k] = [i \in 1..d[k] - d[k - 1] |-> s[d[k - 1] + i]]

\* The sum over one block is what the running sum grows by.
LEMMA SumOfBlock ==
  ASSUME NEW n \in Nat, NEW d, Ends(d, n), NEW s \in [1..d[n] -> Int],
         NEW p, Sums(p, s, d[n]), NEW k \in 1..n, NEW b,
         b = [i \in 1..d[k] - d[k - 1] |-> s[d[k - 1] + i]]
  PROVE  Total(b) = p[d[k]] - p[d[k - 1]]
<1>1. /\ d \in [0..n -> Nat] /\ k - 1 \in 0..n /\ k \in 0..n /\ n \in 0..n
      /\ d[k - 1] <= d[k]
  BY DEF Ends
<1>2. d[k] <= d[n]
  <2>1. k \in 0..n /\ n \in 0..n /\ k <= n
    OBVIOUS
  <2> QED BY <2>1, EndsIncrease
<1> DEFINE o == d[k - 1]
           e == d[k]
           m == d[n]
           w == e - o
           q == [i \in 0..w |-> p[o + i] - p[o]]
<1>3. o \in Nat /\ e \in Nat /\ m \in Nat /\ o <= e /\ e <= m
  BY <1>1, <1>2
<1>4. /\ p \in [0..m -> Int] /\ \A i \in 1..m : p[i] = p[i - 1] + s[i]
      /\ s \in [1..m -> Int] /\ b = [i \in 1..w |-> s[o + i]]
  BY DEF Sums
<1> HIDE DEF o, e, m
<1>5. w \in Nat /\ o + w = e
  BY <1>3
<1>6. \A i \in 0..w : o + i \in 0..m
  BY <1>3
<1>7. \A i \in 1..w : o + i \in 1..m /\ o + i - 1 = o + (i - 1)
  BY <1>3
<1>8. b \in [1..w -> Int]
  BY <1>4, <1>7
<1>9. Sums(q, b, w)
  <2>1. o \in 0..m
    BY <1>3
  <2>2. q \in [0..w -> Int]
    <3> HIDE DEF w
    <3>1. \A i \in 0..w : p[o + i] \in Int /\ p[o] \in Int
      BY <1>4, <1>6, <2>1
    <3> QED BY <3>1
  <2>3. q[0] = 0
    <3>1. p[o] \in Int
      BY <1>4, <2>1
    <3>2. q[0] = p[o + 0] - p[o] /\ o + 0 = o
      BY <1>3, <1>5
    <3> QED BY <3>1, <3>2
  <2>4. ASSUME NEW i \in 1..w PROVE q[i] = q[i - 1] + b[i]
    <3>1. /\ o + i \in 1..m /\ o + i - 1 = o + (i - 1)
          /\ o + i \in 0..m /\ o + (i - 1) \in 0..m
      <4>1. i - 1 \in 0..w /\ i \in 0..w
        BY <1>5
      <4> QED BY <1>6, <1>7, <4>1
    <3>2. p[o + i] = p[o + (i - 1)] + s[o + i]
      <4> DEFINE r == o + i
      <4>1. r \in 1..m /\ r - 1 = o + (i - 1)
        <5>1. o \in Int /\ i \in Int
          BY <1>3, <1>5
        <5> HIDE DEF w
        <5> QED BY <3>1, <5>1
      <4>2. p[r] = p[r - 1] + s[r]
        <5> HIDE DEF r
        <5> QED BY <1>4, <4>1
      <4> QED BY <4>1, <4>2
    <3>3. q[i] = p[o + i] - p[o] /\ q[i - 1] = p[o + (i - 1)] - p[o]
      BY <1>5
    <3>4. b[i] = s[o + i] /\ s[o + i] \in Int /\ p[o + (i - 1)] \in Int /\ p[o] \in Int
      BY <1>4, <2>1, <3>1
    <3> HIDE DEF q, w
    <3> QED BY <3>2, <3>3, <3>4
  <2> HIDE DEF q, w
  <2> QED BY <2>2, <2>3, <2>4 DEF Sums
<1>10. Total(b) = q[w]
  <2> HIDE DEF q, w
  <2> QED BY <1>5, <1>8, <1>9, SumsAreTotal
<1>11. q[w] = p[e] - p[o]
  <2>1. w \in 0..w
    BY <1>5
  <2> QED BY <1>5, <2>1
<1> QED BY <1>10, <1>11 DEF o, e

\* A sum is the sum of the sums of its blocks.
LEMMA SumOfBlocks ==
  ASSUME NEW n \in Nat, NEW d, Ends(d, n), NEW s \in [1..d[n] -> Int],
         NEW b, Blocks(b, s, d, n), NEW t, t = [k \in 1..n |-> Total(b[k])]
  PROVE  Total(s) = Total(t)
<1>1. d \in [0..n -> Nat] /\ d[0] = 0 /\ n \in 0..n
  BY DEF Ends
<1>2. d[n] \in Nat
  BY <1>1
<1>3. PICK p : Sums(p, s, d[n]) /\ Total(s) = p[d[n]]
  BY <1>2, TotalIsASum
<1> DEFINE q == [k \in 0..n |-> p[d[k]]]
<1>4. ASSUME NEW k \in 0..n PROVE d[k] \in 0..d[n] /\ p[d[k]] \in Int
  <2>1. d[k] \in Nat /\ k <= n
    BY <1>1
  <2>2. d[k] <= d[n]
    BY <1>1, <2>1, EndsIncrease
  <2>3. d[k] \in 0..d[n]
    BY <1>2, <2>1, <2>2
  <2> QED BY <1>3, <2>3 DEF Sums
<1>5. ASSUME NEW k \in 1..n
      PROVE  t[k] = p[d[k]] - p[d[k - 1]] /\ t[k] \in Int
  <2>1. b[k] = [i \in 1..d[k] - d[k - 1] |-> s[d[k - 1] + i]]
    BY DEF Blocks
  <2>2. Total(b[k]) = p[d[k]] - p[d[k - 1]]
    <3> DEFINE c == b[k]
    <3>1. c = [i \in 1..d[k] - d[k - 1] |-> s[d[k - 1] + i]]
      BY <2>1
    <3> HIDE DEF c
    <3>2. Total(c) = p[d[k]] - p[d[k - 1]]
      BY <1>3, <3>1, SumOfBlock
    <3> QED BY <3>2 DEF c
  <2>3. k \in 0..n /\ k - 1 \in 0..n
    OBVIOUS
  <2> QED BY <1>4, <2>2, <2>3
<1>6. t \in [1..n -> Int]
  BY <1>5
<1>7. Sums(q, t, n)
  <2>1. q \in [0..n -> Int]
    BY <1>4
  <2>2. q[0] = 0
    BY <1>1, <1>3 DEF Sums
  <2>3. ASSUME NEW k \in 1..n PROVE q[k] = q[k - 1] + t[k]
    <3>1. k \in 0..n /\ k - 1 \in 0..n
      OBVIOUS
    <3>2. q[k] = p[d[k]] /\ q[k - 1] = p[d[k - 1]]
      BY <3>1
    <3>3. p[d[k]] \in Int /\ p[d[k - 1]] \in Int
      BY <1>4, <3>1
    <3> HIDE DEF q
    <3> QED BY <1>5, <3>2, <3>3
  <2> HIDE DEF q
  <2> QED BY <2>1, <2>2, <2>3 DEF Sums
<1>8. Total(t) = q[n]
  <2> HIDE DEF q
  <2> QED BY <1>6, <1>7, SumsAreTotal
<1> QED BY <1>1, <1>3, <1>8

(***************************************************************************)
(* Where the outputs are.                                                  *)
(***************************************************************************)

AllDifferentiable == \A k \in DOMAIN constraints : constraints[k] \in Differentiable

\* If each constraint is differentiable, the rows of the jacobian lie where
\* the outputs do.
LEMMA DifferentiableLaid ==
  ASSUME TypeOK, AllDifferentiable, NEW d, Laid(d, Constraints)
  PROVE  Laid(d, Differentiable)
<1> DEFINE n == Len(constraints)
<1>1. PICK e : Laid(e, Differentiable)
  BY RowsAreLaid
<1>2. n \in Nat /\ DOMAIN constraints = 1..n
  BY LenProperties DEF TypeOK
<1>3. \A k \in 1..n : constraints[k] \in Constraints /\ constraints[k] \in Differentiable
  <2>1. Differentiable \subseteq Constraints
    BY ConstraintsAssumption
  <2> QED BY <1>2, <2>1 DEF AllDifferentiable
<1> HIDE DEF n
<1>4. /\ d \in [0..n -> Nat] /\ d[0] = 0 /\ e \in [0..n -> Nat] /\ e[0] = 0
      /\ \A k \in 1..n : /\ d[k] = d[k - 1] + OutOf[constraints[k]]
                         /\ e[k] = e[k - 1] + OutOf[constraints[k]]
  BY <1>1, <1>3 DEF Laid, Ends, n
<1> DEFINE T == {k \in 0..n : d[k] = e[k]}
<1>5. 0 \in T
  BY <1>2, <1>4
<1>6. ASSUME NEW k \in 1..n, k - 1 \in T PROVE k \in T
  BY <1>4, <1>6
<1>7. \A k \in 0..n : k \in T
  <2> HIDE DEF T
  <2> QED BY <1>2, <1>5, <1>6, Climb
<1>8. d = e
  <2>1. \A k \in 0..n : d[k] = e[k]
    BY <1>7
  <2>2. d = [k \in 0..n |-> d[k]] /\ e = [k \in 0..n |-> e[k]]
    BY <1>4
  <2> HIDE DEF T
  <2> QED BY <2>1, <2>2
<1> QED BY <1>1, <1>8

\* The walk over everything lists the outputs of each constraint in its place.
LEMMA WalkIsLaid ==
  ASSUME TypeOK, NEW d, Laid(d, Constraints)
  PROVE  /\ Everything \in Seq([global : Nat, local : Nat])
         /\ Len(Everything) = d[Len(constraints)]
         /\ \A k \in 1..Len(constraints) : \A i \in 1..d[k] - d[k - 1] :
              Everything[d[k - 1] + i] = [global |-> k, local |-> i]
<1> DEFINE n == Len(constraints)
           S == [global : Nat, local : Nat]
           ss == [c \in 1..n |-> [j \in 1..OutOf[constraints[c]] |-> [global |-> c, local |-> j]]]
<1>1. /\ n \in Nat /\ Ends(d, n)
      /\ \A k \in 1..n : constraints[k] \in Constraints
      /\ \A k \in 1..n : OutOf[constraints[k]] \in Nat /\ d[k] - d[k - 1] = OutOf[constraints[k]]
  <2>1. \A k \in 1..n : constraints[k] \in Constraints
    BY ElementOfSeq DEF TypeOK
  <2> QED BY <2>1 DEF Laid
<1>2. ASSUME NEW k \in 1..n
      PROVE  /\ ss[k] \in Seq(S) /\ Len(ss[k]) = d[k] - d[k - 1]
             /\ \A i \in 1..d[k] - d[k - 1] : ss[k][i] = [global |-> k, local |-> i]
  <2> DEFINE w == OutOf[constraints[k]]
  <2>1. w \in Nat /\ d[k] - d[k - 1] = w /\ k \in Nat
    BY <1>1
  <2>2. ss[k] = [j \in 1..w |-> [global |-> k, local |-> j]]
    OBVIOUS
  <2> HIDE DEF w, n, ss
  <2>3. ss[k] \in [1..w -> S]
    BY <2>1, <2>2
  <2>4. ss[k] \in Seq(S) /\ Len(ss[k]) = w
    <3> HIDE DEF S
    <3>1. ss[k] \in Seq(S) /\ DOMAIN ss[k] = 1..w
      BY <2>1, <2>3, SeqDef
    <3> QED BY <2>1, <3>1, LenProperties
  <2> QED BY <2>1, <2>2, <2>4
<1>3. ss \in [1..n -> Seq(S)]
  BY <1>2
<1>4. Everything = FlattenSeq(ss)
  BY DEF Everything, Walk
<1> HIDE DEF n, S, ss
<1>5. /\ FlattenSeq(ss) \in Seq(S) /\ Len(FlattenSeq(ss)) = d[n]
      /\ Joined(FlattenSeq(ss), ss, d, n)
  BY <1>1, <1>2, <1>3, FlattenedRows
<1>6. /\ Everything \in Seq(S) /\ Len(Everything) = d[n]
      /\ \A k \in 1..n : \A i \in 1..d[k] - d[k - 1] : Everything[d[k - 1] + i] = ss[k][i]
  BY <1>4, <1>5 DEF Joined
<1>7. \A k \in 1..n : \A i \in 1..d[k] - d[k - 1] :
        Everything[d[k - 1] + i] = [global |-> k, local |-> i]
  BY <1>2, <1>6
<1> QED BY <1>6, <1>7 DEF n, S

\* The rows of the jacobian are the gradients of the outputs, in their places.
LEMMA GradientsAreLaid ==
  ASSUME TypeOK, AllDifferentiable, NEW d, Laid(d, Constraints)
  PROVE  /\ GradientRows = [r \in 1..d[Len(constraints)] |-> GradientRows[r]]
         /\ \A k \in 1..Len(constraints) : \A i \in 1..d[k] - d[k - 1] :
              GradientRows[d[k - 1] + i] = GradientAt(<<k, i>>)
<1> DEFINE n == Len(constraints)
<1>1. Laid(d, Differentiable)
  BY DifferentiableLaid
<1>2. /\ DOMAIN Jacobian = 1..d[n]
      /\ \A k \in 1..n : \A i \in 1..d[k] - d[k - 1] : Jacobian[d[k - 1] + i] = RowOf(k, i)
  BY <1>1, JacobianRows
<1>3. n \in Nat /\ Ends(d, n)
  BY DEF Laid
<1> HIDE DEF n
<1>4. GradientRows = [r \in 1..d[n] |-> Gradients[Jacobian[r].of][Jacobian[r].output]]
  BY <1>2 DEF GradientRows
<1>5. ASSUME NEW k \in 1..n, NEW i \in 1..d[k] - d[k - 1]
      PROVE  GradientRows[d[k - 1] + i] = GradientAt(<<k, i>>)
  <2> DEFINE r == d[k - 1] + i
  <2>1. r \in 1..d[n] /\ Jacobian[r] = RowOf(k, i)
    BY <1>2, <1>3, RowsApart
  <2>2. GradientRows[r] = Gradients[Jacobian[r].of][Jacobian[r].output]
    <3> HIDE DEF r
    <3> QED BY <1>4, <2>1
  <2>3. Jacobian[r].of = constraints[k] /\ Jacobian[r].output = i
    <3> HIDE DEF r
    <3> QED BY <2>1 DEF RowOf
  <2>4. GradientAt(<<k, i>>) = Gradients[constraints[k]][i]
    BY DEF GradientAt
  <2> QED BY <2>2, <2>3, <2>4
<1>6. GradientRows = [r \in 1..d[n] |-> GradientRows[r]]
  BY <1>4
<1> QED BY <1>5, <1>6 DEF n

\* The output at a place of the walk.
OutputAt(r) == <<Everything[r].global, Everything[r].local>>
LEMMA PlaceNamed ==
  ASSUME NEW r, NEW k, NEW i, Everything[r] = [global |-> k, local |-> i]
  PROVE  OutputAt(r) = <<k, i>>
BY DEF OutputAt

\* Each output has one place.
LEMMA OutputsHavePlaces ==
  ASSUME TypeOK
  PROVE  /\ ConstraintsOutputSize \in Nat
         /\ Everything \in Seq([global : Nat, local : Nat])
         /\ Len(Everything) = ConstraintsOutputSize
         /\ \A r \in 1..ConstraintsOutputSize : OutputAt(r) \in Outputs
         /\ \A r, q \in 1..ConstraintsOutputSize : OutputAt(r) = OutputAt(q) => r = q
         /\ \A o \in Outputs : \E r \in 1..ConstraintsOutputSize : OutputAt(r) = o
<1> DEFINE n == Len(constraints)
<1>1. PICK d : Laid(d, Constraints)
  BY RowsAreLaid
<1>2. /\ n \in Nat /\ DOMAIN constraints = 1..n /\ Ends(d, n)
      /\ \A k \in 1..n : constraints[k] \in Constraints
      /\ ConstraintsOutputSize = d[n]
  <2>1. \A k \in 1..n : constraints[k] \in Constraints
    BY ElementOfSeq DEF TypeOK
  <2>2. DOMAIN constraints = 1..n
    BY LenProperties DEF TypeOK
  <2> QED BY <1>1, <2>1, <2>2 DEF Laid, ConstraintsOutputSize
<1>3. \A k \in 1..n : d[k] - d[k - 1] = OutOf[constraints[k]]
  BY <1>1, <1>2 DEF Laid
<1>4. d[n] \in Nat
  <2>1. d \in [0..n -> Nat] /\ n \in 0..n
    BY <1>2 DEF Ends
  <2> QED BY <2>1
<1>5. /\ Everything \in Seq([global : Nat, local : Nat]) /\ Len(Everything) = d[n]
      /\ \A k \in 1..n : \A i \in 1..d[k] - d[k - 1] :
           Everything[d[k - 1] + i] = [global |-> k, local |-> i]
  BY <1>1, WalkIsLaid
<1> HIDE DEF n
<1>6. ASSUME NEW k \in 1..n, NEW i \in 1..d[k] - d[k - 1]
      PROVE  OutputAt(d[k - 1] + i) = <<k, i>>
  <2> DEFINE r == d[k - 1] + i
  <2>1. Everything[r] = [global |-> k, local |-> i]
    BY <1>5
  <2> HIDE DEF r
  <2>2. OutputAt(r) = <<k, i>>
    BY <2>1, PlaceNamed
  <2> QED BY <2>2 DEF r
<1>7. \A r \in 1..d[n] : \E k \in 1..n : \E i \in 1..d[k] - d[k - 1] : r = d[k - 1] + i
  BY <1>2, EveryRow
<1>8. ASSUME NEW r \in 1..d[n] PROVE OutputAt(r) \in Outputs
  <2>1. PICK k \in 1..n : \E i \in 1..d[k] - d[k - 1] : r = d[k - 1] + i
    BY <1>7
  <2>2. PICK i \in 1..d[k] - d[k - 1] : r = d[k - 1] + i
    BY <2>1
  <2>3. OutputAt(r) = <<k, i>> /\ i \in 1..OutOf[constraints[k]]
    BY <1>3, <1>6, <2>2
  <2> QED BY <1>2, <2>3 DEF Outputs
<1>9. ASSUME NEW r \in 1..d[n], NEW q \in 1..d[n], OutputAt(r) = OutputAt(q)
      PROVE  r = q
  <2>1. PICK k \in 1..n : \E i \in 1..d[k] - d[k - 1] : r = d[k - 1] + i
    BY <1>7
  <2>2. PICK i \in 1..d[k] - d[k - 1] : r = d[k - 1] + i
    BY <2>1
  <2>3. PICK l \in 1..n : \E j \in 1..d[l] - d[l - 1] : q = d[l - 1] + j
    BY <1>7
  <2>4. PICK j \in 1..d[l] - d[l - 1] : q = d[l - 1] + j
    BY <2>3
  <2>5. <<k, i>> = <<l, j>>
    BY <1>6, <1>9, <2>2, <2>4
  <2> QED BY <2>2, <2>4, <2>5
<1>10. ASSUME NEW o \in Outputs PROVE \E r \in 1..d[n] : OutputAt(r) = o
  <2>1. PICK k \in 1..n : o \in {k} \X (1..OutOf[constraints[k]])
    BY <1>2 DEF Outputs
  <2>2. PICK i \in 1..OutOf[constraints[k]] : o = <<k, i>>
    BY <2>1
  <2>3. i \in 1..d[k] - d[k - 1]
    BY <1>3
  <2>4. d[k - 1] + i \in 1..d[n]
    BY <1>2, <2>3, RowsApart
  <2> QED BY <1>6, <2>2, <2>3, <2>4
<1> QED BY <1>2, <1>4, <1>5, <1>8, <1>9, <1>10

\* In its place is its gradient.
LEMMA GradientsHavePlaces ==
  ASSUME TypeOK, AllDifferentiable
  PROVE  /\ GradientRows = [r \in 1..ConstraintsOutputSize |-> GradientRows[r]]
         /\ \A r \in 1..ConstraintsOutputSize : GradientRows[r] = GradientAt(OutputAt(r))
<1> DEFINE n == Len(constraints)
<1>1. PICK d : Laid(d, Constraints)
  BY RowsAreLaid
<1>2. n \in Nat /\ Ends(d, n) /\ ConstraintsOutputSize = d[n]
  BY <1>1 DEF Laid, ConstraintsOutputSize
<1>3. ASSUME NEW k \in 1..n, NEW i \in 1..d[k] - d[k - 1]
      PROVE  OutputAt(d[k - 1] + i) = <<k, i>>
  <2> DEFINE r == d[k - 1] + i
  <2>1. Everything[r] = [global |-> k, local |-> i]
    BY <1>1, WalkIsLaid
  <2> HIDE DEF r
  <2>2. OutputAt(r) = <<k, i>>
    BY <2>1, PlaceNamed
  <2> QED BY <2>2 DEF r
<1>4. /\ GradientRows = [r \in 1..d[n] |-> GradientRows[r]]
      /\ \A k \in 1..n : \A i \in 1..d[k] - d[k - 1] :
           GradientRows[d[k - 1] + i] = GradientAt(<<k, i>>)
  BY <1>1, GradientsAreLaid
<1> HIDE DEF n
<1>5. ASSUME NEW r \in 1..d[n] PROVE GradientRows[r] = GradientAt(OutputAt(r))
  <2>1. PICK k \in 1..n : \E i \in 1..d[k] - d[k - 1] : r = d[k - 1] + i
    BY <1>2, EveryRow
  <2>2. PICK i \in 1..d[k] - d[k - 1] : r = d[k - 1] + i
    BY <2>1
  <2> QED BY <1>3, <1>4, <2>2
<1> QED BY <1>2, <1>4, <1>5

(***************************************************************************)
(* The active set, computed once.                                          *)
(***************************************************************************)

ActiveIndices == ActiveConstraints(Everything)

\* The places of the active outputs are pushed back, in order.
LEMMA ActiveIndicesAreOrdered ==
  ASSUME TypeOK
  PROVE  /\ Ordered(ActiveIndices, ConstraintsOutputSize, ActiveIn(Everything))
         /\ ActiveIn(Everything) \in SUBSET (1..ConstraintsOutputSize)
         /\ \A r \in 1..ConstraintsOutputSize :
              r \in ActiveIn(Everything) <=> OutputAt(r) \in ActiveOutputs
<1>1. /\ ConstraintsOutputSize \in Nat /\ Len(Everything) = ConstraintsOutputSize
      /\ Everything \in Seq([global : Nat, local : Nat])
      /\ \A r \in 1..ConstraintsOutputSize : OutputAt(r) \in Outputs
  BY OutputsHavePlaces
<1>2. DOMAIN Everything = 1..ConstraintsOutputSize
  BY <1>1, LenProperties
<1>3. Ordered(ActiveIndices, ConstraintsOutputSize, ActiveIn(Everything))
  BY <1>1, InOrderIsOrdered DEF ActiveIndices, ActiveConstraints
<1>4. ActiveIn(Everything) =
        {r \in 1..ConstraintsOutputSize : ActiveOutput(Everything[r].global, Everything[r].local)}
  BY <1>2 DEF ActiveIn
<1>5. ASSUME NEW r \in 1..ConstraintsOutputSize
      PROVE  r \in ActiveIn(Everything) <=> OutputAt(r) \in ActiveOutputs
  <2>1. OutputAt(r)[1] = Everything[r].global /\ OutputAt(r)[2] = Everything[r].local
    BY DEF OutputAt
  <2>2. OutputAt(r) \in ActiveOutputs <=> ActiveOutput(OutputAt(r)[1], OutputAt(r)[2])
    BY <1>1 DEF ActiveOutputs
  <2> QED BY <1>4, <2>1, <2>2
<1> QED BY <1>3, <1>4, <1>5

\* So are the arguments at a bound.
LEMMA ActiveBoundsAreOrdered ==
  /\ InputSize \in Nat \ {0} /\ Ordered(ActiveBounds, InputSize, ActiveArguments)
  /\ ActiveArguments \in SUBSET (1..InputSize)
<1>1. InputSize \in Nat \ {0} /\ ActiveArguments \in SUBSET (1..InputSize)
  BY ConstraintsAssumption DEF ActiveArguments
<1> QED BY <1>1, InOrderIsOrdered DEF ActiveBounds, ActiveArguments

\* What the first check keeps, whichever it is.
IndexOf(i) == [global |-> Everything[ActiveIndices[i]].global,
               local |-> Everything[ActiveIndices[i]].local, active |-> i]
OutputRows == [i \in DOMAIN ActiveIndices |-> GradientRows[ActiveIndices[i]]]
LowerBounds ==
  <<>> \o [j \in 1..InputSize |-> x[j] = argumentBounds[j].lower]
       \o [i \in DOMAIN Everything |->
             values[Everything[i].global][Everything[i].local]
               = boundsVect[Everything[i].global][Everything[i].local].lower]
ActiveCache ==
  [activeJac |-> Matrix(BoundRows \o OutputRows), jac |-> Matrix(GradientRows),
   activeCstrIndices |-> [i \in DOMAIN ActiveIndices |-> IndexOf(i)],
   ineqIndices |-> <<>>, isLowerBound |-> LowerBounds]
KKTCache == [ActiveCache EXCEPT !.ineqIndices = Ineqs]
Caches == {NoCache, ActiveCache, KKTCache}

\* The members are then what the first computation leaves.
LEMMA FirstComputation ==
  ASSUME TypeOK, cache = NoCache
  PROVE  ActiveComputed = ActiveCache
<1> DEFINE walk == Everything
           active == ActiveIndices
           new == [i \in DOMAIN active |->
                     [global |-> walk[active[i]].global, local |-> walk[active[i]].local,
                      active |-> Len(<<>>) + i]]
<1>1. Appended(Len(constraints)) =
        [NoCache EXCEPT !.activeCstrIndices = @ \o new, !.isLowerBound = LowerBounds]
  <2>1. InOrder(Len(walk), ActiveIn(walk)) = active
    BY DEF ActiveIndices, ActiveConstraints
  <2>2. cache.activeCstrIndices = <<>> /\ cache.isLowerBound = <<>>
    BY DEF NoCache
  <2> QED BY <2>1, <2>2 DEF Appended, LowerBounds, Everything, NoCache
<1>2. DOMAIN active = 1..Len(active) /\ Len(active) \in Nat
  <2>1. active \in Seq(Nat)
    BY ActiveIndicesAreOrdered DEF Ordered
  <2> HIDE DEF active
  <2> QED BY <2>1, LenProperties
<1>3. new = [i \in DOMAIN ActiveIndices |-> IndexOf(i)]
  <2>1. \A i \in DOMAIN active : Len(<<>>) + i = i
    BY <1>2
  <2> HIDE DEF walk
  <2> QED BY <2>1 DEF IndexOf, walk
<1>4. <<>> \o new = new
  <2> DEFINE S == {new[i] : i \in DOMAIN active}
  <2>1. new \in [1..Len(active) -> S]
    BY <1>2
  <2> HIDE DEF new, active
  <2>2. new \in Seq(S)
    BY <1>2, <2>1, SeqDef
  <2> QED BY <2>2
<1>5. JacobianOf(cache) = Matrix(GradientRows)
  BY DEF JacobianOf, NoCache, NoMatrix
<1>6. ActiveRows = BoundRows \o OutputRows
  BY <1>5 DEF ActiveRows, OutputRows, ActiveIndices, Matrix
<1> HIDE DEF new
<1>7. ActiveComputed = [[NoCache EXCEPT !.activeCstrIndices = @ \o new, !.isLowerBound = LowerBounds]
                          EXCEPT !.jac = Matrix(GradientRows),
                                 !.activeJac = Matrix(BoundRows \o OutputRows)]
  BY <1>1, <1>5, <1>6 DEF ActiveComputed
<1>8. NoCache.activeCstrIndices \o new = [i \in DOMAIN ActiveIndices |-> IndexOf(i)]
  BY <1>3, <1>4 DEF NoCache
<1> QED BY <1>7, <1>8 DEF ActiveCache, NoCache

\* Whichever check asks for it gets the same, and leaves the same.
LEMMA SameActiveSet ==
  ASSUME TypeOK, cache \in Caches
  PROVE  /\ Analyzed \in {ActiveCache, KKTCache} /\ WithIneqs(Analyzed) = KKTCache
         /\ Analyzed.activeJac = Matrix(BoundRows \o OutputRows)
         /\ Analyzed.jac = Matrix(GradientRows)
         /\ Analyzed.activeCstrIndices = [i \in DOMAIN ActiveIndices |-> IndexOf(i)]
         /\ cache.activeJac.made \/ cache = NoCache
<1>1. /\ ActiveCache.activeJac = Matrix(BoundRows \o OutputRows)
      /\ ActiveCache.jac = Matrix(GradientRows)
      /\ ActiveCache.activeCstrIndices = [i \in DOMAIN ActiveIndices |-> IndexOf(i)]
      /\ ActiveCache.ineqIndices = <<>>
  BY DEF ActiveCache
<1>2. /\ KKTCache.activeJac = Matrix(BoundRows \o OutputRows)
      /\ KKTCache.jac = Matrix(GradientRows)
      /\ KKTCache.activeCstrIndices = [i \in DOMAIN ActiveIndices |-> IndexOf(i)]
      /\ KKTCache.ineqIndices = Ineqs
  BY DEF ActiveCache, KKTCache
<1>3. WithIneqs(ActiveCache) = KKTCache
  <2>1. ~(Len(ActiveCache.ineqIndices) > 0)
    BY <1>1
  <2> QED BY <2>1 DEF WithIneqs, KKTCache
<1>4. WithIneqs(KKTCache) = KKTCache
  <2>1. [KKTCache EXCEPT !.ineqIndices = Ineqs] = KKTCache
    BY DEF KKTCache, ActiveCache
  <2> QED BY <2>1 DEF WithIneqs
<1>5. Matrix(BoundRows \o OutputRows).made /\ ~NoCache.activeJac.made
  BY DEF Matrix, NoCache, NoMatrix
<1>6. cache \in {ActiveCache, KKTCache} => cache.activeJac.made /\ Analyzed = cache
  BY <1>1, <1>2, <1>5 DEF Analyzed
<1>7. cache = NoCache => Analyzed = ActiveCache
  BY <1>5, FirstComputation DEF Analyzed
<1> QED BY <1>1, <1>2, <1>3, <1>4, <1>6, <1>7 DEF Caches

\* There is a row for each argument at a bound and each active output, the
\* rows of bounds first.
LEMMA ActiveRowsAre ==
  ASSUME TypeOK, AllDifferentiable
  PROVE  /\ Len(ActiveBounds) \in Nat /\ Len(ActiveIndices) \in Nat
         /\ DOMAIN ActiveIndices = 1..Len(ActiveIndices)
         /\ Len(BoundRows \o OutputRows) = Len(ActiveBounds) + Len(ActiveIndices)
         /\ DOMAIN (BoundRows \o OutputRows) = 1..Len(ActiveBounds) + Len(ActiveIndices)
         /\ \A i \in 1..Len(ActiveBounds) :
              (BoundRows \o OutputRows)[i] = Unit(ActiveBounds[i])
         /\ \A i \in 1..Len(ActiveIndices) :
              /\ OutputAt(ActiveIndices[i]) \in ActiveOutputs
              /\ (BoundRows \o OutputRows)[Len(ActiveBounds) + i]
                   = GradientAt(OutputAt(ActiveIndices[i]))
<1> DEFINE b == Len(ActiveBounds)
           a == Len(ActiveIndices)
           S == {BoundRows[i] : i \in 1..b} \cup {OutputRows[i] : i \in 1..a}
<1>1. /\ ActiveBounds \in Seq(Nat) /\ b \in Nat /\ DOMAIN ActiveBounds = 1..b
      /\ ActiveIndices \in Seq(Nat) /\ a \in Nat /\ DOMAIN ActiveIndices = 1..a
  <2>1. ActiveBounds \in Seq(Nat) /\ ActiveIndices \in Seq(Nat)
    BY ActiveBoundsAreOrdered, ActiveIndicesAreOrdered DEF Ordered
  <2> QED BY <2>1, LenProperties
<1>2. /\ BoundRows = [i \in 1..b |-> Unit(ActiveBounds[i])]
      /\ OutputRows = [i \in 1..a |-> GradientRows[ActiveIndices[i]]]
  BY <1>1 DEF BoundRows, OutputRows
<1>3. ASSUME NEW i \in 1..a
      PROVE  /\ OutputAt(ActiveIndices[i]) \in ActiveOutputs
             /\ OutputRows[i] = GradientAt(OutputAt(ActiveIndices[i]))
  <2>1. ActiveIndices[i] \in 1..ConstraintsOutputSize /\ ActiveIndices[i] \in ActiveIn(Everything)
    BY ActiveIndicesAreOrdered DEF Ordered
  <2>2. OutputAt(ActiveIndices[i]) \in ActiveOutputs
    BY <2>1, ActiveIndicesAreOrdered
  <2>3. GradientRows[ActiveIndices[i]] = GradientAt(OutputAt(ActiveIndices[i]))
    BY <2>1, GradientsHavePlaces
  <2> QED BY <1>2, <2>2, <2>3
<1>4. BoundRows \in [1..b -> S] /\ OutputRows \in [1..a -> S]
  BY <1>2
<1> HIDE DEF a, b, S
<1>5. /\ BoundRows \in Seq(S) /\ Len(BoundRows) = b
      /\ OutputRows \in Seq(S) /\ Len(OutputRows) = a
  BY <1>1, <1>4, SeqDef, LenProperties
<1> DEFINE rows == BoundRows \o OutputRows
<1>6. /\ rows \in Seq(S) /\ Len(rows) = Len(BoundRows) + Len(OutputRows)
      /\ \A i \in 1..Len(BoundRows) + Len(OutputRows) :
           rows[i] = IF i <= Len(BoundRows) THEN BoundRows[i] ELSE OutputRows[i - Len(BoundRows)]
  BY <1>5, ConcatProperties
<1>7. DOMAIN rows = 1..Len(rows)
  BY <1>6, LenProperties
<1> HIDE DEF rows
<1>8. \A i \in 1..b : rows[i] = Unit(ActiveBounds[i])
  BY <1>1, <1>2, <1>5, <1>6
<1>9. ASSUME NEW i \in 1..a PROVE rows[b + i] = OutputRows[i]
  <2> DEFINE r == b + i
  <2>1. r \in 1..b + a /\ ~(r <= b) /\ r - b = i
    BY <1>1
  <2> HIDE DEF r
  <2>2. rows[r] = OutputRows[r - b]
    BY <1>5, <1>6, <2>1
  <2> QED BY <2>1, <2>2 DEF r
<1>10. Len(rows) = b + a /\ DOMAIN rows = 1..b + a
  BY <1>5, <1>6, <1>7
<1> QED BY <1>1, <1>3, <1>8, <1>9, <1>10 DEF rows, a, b

\* No check reads a row or multiplies by a row that is not there.
LEMMA ActiveSetDefined ==
  ASSUME TypeOK, AllDifferentiable, cache \in Caches
  PROVE  /\ ActiveSetIsDefined
         /\ \A i \in DOMAIN Analyzed.activeCstrIndices :
              Analyzed.activeCstrIndices[i].active <= Len(Analyzed.activeJac.rows)
         /\ Len(Analyzed.jac.rows) = ConstraintsOutputSize
<1>1. ConstraintsOutputSize \in Nat /\ GradientRows = [r \in 1..ConstraintsOutputSize |-> GradientRows[r]]
  BY OutputsHavePlaces, GradientsHavePlaces
<1>2. Len(GradientRows) = ConstraintsOutputSize
  <2> DEFINE S == {GradientRows[r] : r \in 1..ConstraintsOutputSize}
  <2>1. GradientRows \in [1..ConstraintsOutputSize -> S]
    BY <1>1
  <2> HIDE DEF S
  <2>2. GradientRows \in Seq(S) /\ DOMAIN GradientRows = 1..ConstraintsOutputSize
    BY <1>1, <2>1, SeqDef
  <2> QED BY <1>1, <2>2, LenProperties
<1>3. ActiveSetIsDefined
  <2>1. CASE cache.activeJac.made
    BY <2>1 DEF ActiveSetIsDefined
  <2>2. CASE cache = NoCache
    <3>1. JacobianOf(cache).rows = GradientRows
      BY <2>2 DEF JacobianOf, NoCache, NoMatrix, Matrix
    <3>2. DOMAIN ActiveIndices = 1..Len(ActiveIndices)
      BY ActiveRowsAre
    <3>3. \A i \in DOMAIN ActiveIndices : ActiveIndices[i] \in 1..ConstraintsOutputSize
      BY <3>2, ActiveIndicesAreOrdered DEF Ordered
    <3>4. \A i \in DOMAIN ActiveIndices : ActiveIndices[i] <= Len(GradientRows)
      BY <1>1, <1>2, <3>3
    <3>5. RowsInRange
      BY <3>1, <3>4 DEF RowsInRange, ActiveIndices
    <3> QED BY <3>5 DEF ActiveSetIsDefined
  <2> QED BY <2>1, <2>2, SameActiveSet
<1>4. Len(Analyzed.jac.rows) = ConstraintsOutputSize
  BY <1>2, SameActiveSet DEF Matrix
<1>5. ASSUME NEW i \in DOMAIN Analyzed.activeCstrIndices
      PROVE  Analyzed.activeCstrIndices[i].active <= Len(Analyzed.activeJac.rows)
  <2>1. /\ Analyzed.activeCstrIndices = [j \in DOMAIN ActiveIndices |-> IndexOf(j)]
        /\ Analyzed.activeJac.rows = BoundRows \o OutputRows
    BY SameActiveSet DEF Matrix
  <2>2. i \in DOMAIN ActiveIndices /\ Analyzed.activeCstrIndices[i] = IndexOf(i)
    BY <2>1
  <2>3. i \in 1..Len(ActiveIndices) /\ IndexOf(i).active = i
    BY <2>2, ActiveRowsAre DEF IndexOf
  <2>4. /\ Len(ActiveBounds) \in Nat /\ Len(ActiveIndices) \in Nat
        /\ Len(Analyzed.activeJac.rows) = Len(ActiveBounds) + Len(ActiveIndices)
    BY <2>1, ActiveRowsAre
  <2> QED BY <2>2, <2>3, <2>4
<1> QED BY <1>3, <1>4, <1>5

(***************************************************************************)
(* What LICQ answers.                                                      *)
(***************************************************************************)

\* The rank of rows is the dimension of what they span.
LEMMA RankIsDimension ==
  ASSUME NEW rows, NEW S, S = {rows[i] : i \in DOMAIN rows}
  PROVE  Rank(rows) = Dimension(S)
<1>1. ~Independent(ZeroGradient, ZeroGradient)
  BY DEF Independent, ZeroGradient
<1>2. (\E i, j \in DOMAIN rows : Independent(rows[i], rows[j]))
        <=> \E u, v \in S : Independent(u, v)
  OBVIOUS
<1>3. (\E i \in DOMAIN rows : rows[i] # ZeroGradient) <=> ~(S \subseteq {ZeroGradient})
  OBVIOUS
<1>4. (\E u, v \in S : Independent(u, v)) => ~(S \subseteq {ZeroGradient})
  BY <1>1
<1> QED BY <1>2, <1>3, <1>4 DEF Rank, Dimension

\* The rows of the active set are the gradients of the active bounds and
\* outputs.
LEMMA RowsAreTheGradients ==
  ASSUME TypeOK, AllDifferentiable, NEW rows, rows = BoundRows \o OutputRows
  PROVE  ActiveGradients = {rows[i] : i \in DOMAIN rows}
<1> DEFINE b == Len(ActiveBounds)
           a == Len(ActiveIndices)
<1>1. /\ b \in Nat /\ a \in Nat /\ DOMAIN rows = 1..b + a
      /\ \A i \in 1..b : rows[i] = Unit(ActiveBounds[i])
      /\ \A i \in 1..a : /\ OutputAt(ActiveIndices[i]) \in ActiveOutputs
                         /\ rows[b + i] = GradientAt(OutputAt(ActiveIndices[i]))
  BY ActiveRowsAre
<1>2. /\ \A i \in 1..b : ActiveBounds[i] \in ActiveArguments
      /\ \A j \in ActiveArguments : \E i \in 1..b : ActiveBounds[i] = j
  BY ActiveBoundsAreOrdered DEF Ordered
<1>3. \A o \in ActiveOutputs : \E i \in 1..a : OutputAt(ActiveIndices[i]) = o
  <2>1. TAKE o \in ActiveOutputs
  <2>2. PICK r \in 1..ConstraintsOutputSize : OutputAt(r) = o
    BY OutputsHavePlaces DEF ActiveOutputs
  <2>3. PICK i \in 1..a : ActiveIndices[i] = r
    BY <2>2, ActiveIndicesAreOrdered DEF Ordered
  <2> QED BY <2>2, <2>3
<1> HIDE DEF a, b
<1>4. ASSUME NEW i \in DOMAIN rows PROVE rows[i] \in ActiveGradients
  <2>1. CASE i \in 1..b
    BY <1>1, <1>2, <2>1 DEF ActiveGradients
  <2>2. CASE i \notin 1..b
    <3> DEFINE j == i - b
    <3>1. j \in 1..a /\ b + j = i
      BY <1>1, <2>2
    <3> HIDE DEF j
    <3>2. /\ OutputAt(ActiveIndices[j]) \in ActiveOutputs
          /\ rows[b + j] = GradientAt(OutputAt(ActiveIndices[j]))
      BY <1>1, <3>1
    <3>3. rows[i] = GradientAt(OutputAt(ActiveIndices[j]))
      BY <3>1, <3>2
    <3> QED BY <3>2, <3>3 DEF ActiveGradients
  <2> QED BY <2>1, <2>2
<1>5. ASSUME NEW g \in ActiveGradients PROVE \E i \in DOMAIN rows : g = rows[i]
  <2>1. CASE \E j \in ActiveArguments : g = Unit(j)
    <3>1. PICK j \in ActiveArguments : g = Unit(j)
      BY <2>1
    <3>2. PICK i \in 1..b : ActiveBounds[i] = j
      BY <1>2
    <3>3. i \in 1..b + a
      BY <1>1
    <3> QED BY <1>1, <3>1, <3>2, <3>3
  <2>2. CASE \E o \in ActiveOutputs : g = GradientAt(o)
    <3>1. PICK o \in ActiveOutputs : g = GradientAt(o)
      BY <2>2
    <3>2. PICK i \in 1..a : OutputAt(ActiveIndices[i]) = o
      BY <1>3
    <3> DEFINE r == b + i
    <3>3. r \in 1..b + a
      BY <1>1
    <3>4. rows[r] = GradientAt(OutputAt(ActiveIndices[i]))
      BY <1>1
    <3> HIDE DEF r
    <3> QED BY <1>1, <3>1, <3>2, <3>3, <3>4
  <2> QED BY <2>1, <2>2 DEF ActiveGradients
<1> QED BY <1>4, <1>5

\* There are as many as there are active bounds and outputs.
LEMMA RowsAreCounted ==
  ASSUME TypeOK, AllDifferentiable
  PROVE  /\ Len(BoundRows \o OutputRows) = Cardinality(ActiveOutputs) + Cardinality(ActiveArguments)
         /\ Len(ActiveBounds) = Cardinality(ActiveArguments)
         /\ Cardinality(ActiveOutputs) + Cardinality(ActiveArguments) \in Nat
<1> DEFINE b == Len(ActiveBounds)
           a == Len(ActiveIndices)
           f == [i \in 1..a |-> OutputAt(ActiveIndices[i])]
<1>1. b \in Nat /\ a \in Nat /\ Len(BoundRows \o OutputRows) = b + a
  BY ActiveRowsAre
<1>2. Cardinality(ActiveArguments) = b
  BY ActiveBoundsAreOrdered, OrderedLength
<1>3. f \in [1..a -> ActiveOutputs]
  BY ActiveRowsAre
<1>4. ASSUME NEW i \in 1..a, NEW j \in 1..a, f[i] = f[j]
      PROVE  i = j
  <2>1. OutputAt(ActiveIndices[i]) = OutputAt(ActiveIndices[j])
    BY <1>4
  <2>2. /\ ActiveIndices[i] \in 1..ConstraintsOutputSize
        /\ ActiveIndices[j] \in 1..ConstraintsOutputSize
        /\ i < j => ActiveIndices[i] < ActiveIndices[j]
        /\ j < i => ActiveIndices[j] < ActiveIndices[i]
    BY ActiveIndicesAreOrdered DEF Ordered
  <2>3. ActiveIndices[i] = ActiveIndices[j]
    BY <2>1, <2>2, OutputsHavePlaces
  <2> DEFINE p == ActiveIndices[i]
             q == ActiveIndices[j]
  <2>4. p \in Int /\ q \in Int /\ p = q /\ (i < j => p < q) /\ (j < i => q < p)
    BY <2>2, <2>3
  <2> HIDE DEF p, q, f
  <2> QED BY <1>1, <2>4
<1>5. \A o \in ActiveOutputs : \E i \in 1..a : f[i] = o
  <2>1. TAKE o \in ActiveOutputs
  <2>2. PICK r \in 1..ConstraintsOutputSize : OutputAt(r) = o
    BY OutputsHavePlaces DEF ActiveOutputs
  <2>3. PICK i \in 1..a : ActiveIndices[i] = r
    BY <2>2, ActiveIndicesAreOrdered DEF Ordered
  <2> QED BY <2>2, <2>3
<1> HIDE DEF f, a, b
<1>6. Cardinality(ActiveOutputs) = a
  BY <1>1, <1>3, <1>4, <1>5, EachOnce
<1> QED BY <1>1, <1>2, <1>6 DEF b

\* So the answer is right.
RightLICQ(data) ==
  /\ data.rank = Dimension(ActiveGradients)
  /\ ActiveCount <= InputSize => (FullRank(data) <=> LinearlyIndependent)
LEMMA LICQIsRight ==
  ASSUME TypeOK, AllDifferentiable, NEW c, c.activeJac = Matrix(BoundRows \o OutputRows)
  PROVE  RightLICQ(LICQData(c))
<1> DEFINE rows == BoundRows \o OutputRows
           size == Cardinality(ActiveOutputs) + Cardinality(ActiveArguments)
<1>1. c.activeJac.rows = rows
  BY DEF Matrix
<1>2. Len(rows) = size /\ size \in Nat
  BY RowsAreCounted
<1>3. Rank(rows) = Dimension(ActiveGradients)
  <2>1. ActiveGradients = {rows[i] : i \in DOMAIN rows}
    BY RowsAreTheGradients
  <2> HIDE DEF rows
  <2> QED BY <2>1, RankIsDimension
<1> HIDE DEF rows, size
<1>4. LICQData(c).rank = Dimension(ActiveGradients) /\ LICQData(c).max_rank = Min({size, InputSize})
  BY <1>1, <1>2, <1>3 DEF LICQData
<1>5. InputSize \in Int
  BY ConstraintsAssumption
<1>6. ASSUME size <= InputSize PROVE Min({size, InputSize}) = size
  BY <1>2, <1>5, <1>6 DEF Min
<1> QED BY <1>4, <1>6 DEF RightLICQ, FullRank, LinearlyIndependent, ActiveCount, size

(***************************************************************************)
(* Which null gradients are found.                                         *)
(***************************************************************************)

RightNulls(data) ==
  ActiveArguments = {} => /\ ToSet(data.rows) = NullOutputs
                          /\ NoNullRow(data) <=> NullOutputs = {}

\* Without rows of bounds, index.active is the row of its output.
LEMMA NullsAreRight ==
  ASSUME TypeOK, AllDifferentiable, NEW c, c.activeJac = Matrix(BoundRows \o OutputRows),
         c.activeCstrIndices = [i \in DOMAIN ActiveIndices |-> IndexOf(i)]
  PROVE  RightNulls(NullGradientData(c))
<1> SUFFICES ASSUME ActiveArguments = {}
             PROVE  /\ ToSet(NullGradientData(c).rows) = NullOutputs
                    /\ NoNullRow(NullGradientData(c)) <=> NullOutputs = {}
  BY DEF RightNulls
<1> DEFINE a == Len(ActiveIndices)
           rows == BoundRows \o OutputRows
           indices == c.activeCstrIndices
           C == {i \in DOMAIN indices : rows[indices[i].active] = ZeroGradient}
           found == InOrder(Len(indices), C)
           nulls == [i \in DOMAIN found |-> <<indices[found[i]].global, indices[found[i]].local>>]
<1>1. NullGradientData(c).rows = nulls
  <2>1. c.activeJac.rows = rows
    BY DEF Matrix
  <2> HIDE DEF rows
  <2> QED BY <2>1 DEF NullGradientData
<1>2. /\ a \in Nat /\ DOMAIN ActiveIndices = 1..a
      /\ \A i \in 1..a : /\ OutputAt(ActiveIndices[i]) \in ActiveOutputs
                         /\ rows[i] = GradientAt(OutputAt(ActiveIndices[i]))
  <2>1. Len(ActiveBounds) = 0
    BY RowsAreCounted, FS_EmptySet
  <2>2. /\ a \in Nat /\ DOMAIN ActiveIndices = 1..a
        /\ \A i \in 1..a : /\ OutputAt(ActiveIndices[i]) \in ActiveOutputs
                           /\ rows[Len(ActiveBounds) + i] = GradientAt(OutputAt(ActiveIndices[i]))
    BY ActiveRowsAre
  <2>3. \A i \in 1..a : Len(ActiveBounds) + i = i
    BY <2>1, <2>2
  <2> HIDE DEF a, rows
  <2> QED BY <2>2, <2>3
<1>3. \A o \in ActiveOutputs : \E i \in 1..a : OutputAt(ActiveIndices[i]) = o
  <2>1. TAKE o \in ActiveOutputs
  <2>2. PICK r \in 1..ConstraintsOutputSize : OutputAt(r) = o
    BY OutputsHavePlaces DEF ActiveOutputs
  <2>3. PICK i \in 1..a : ActiveIndices[i] = r
    BY <2>2, ActiveIndicesAreOrdered DEF Ordered
  <2> QED BY <2>2, <2>3
<1>4. indices = [i \in 1..a |-> IndexOf(i)]
  BY <1>2
<1> HIDE DEF a, rows, indices
<1>5. DOMAIN indices = 1..a /\ Len(indices) = a
  <2> DEFINE S == {IndexOf(i) : i \in 1..a}
  <2>1. indices \in [1..a -> S]
    BY <1>4
  <2> HIDE DEF S
  <2>2. indices \in Seq(S) /\ DOMAIN indices = 1..a
    BY <1>2, <2>1, SeqDef
  <2> QED BY <1>2, <2>2, LenProperties
<1>6. ASSUME NEW i \in 1..a
      PROVE  /\ indices[i].active = i
             /\ <<indices[i].global, indices[i].local>> = OutputAt(ActiveIndices[i])
  <2>1. indices[i] = IndexOf(i)
    BY <1>4
  <2> QED BY <2>1 DEF IndexOf, OutputAt
<1>7. /\ \A i \in 1..a : i \in C <=> rows[i] = ZeroGradient
      /\ C \in SUBSET (1..a)
  BY <1>5, <1>6
<1>8. Ordered(found, a, C) /\ a \in Nat
  BY <1>2, <1>5, InOrderIsOrdered
<1> HIDE DEF C, found
<1>9. /\ found \in Seq(Nat) /\ DOMAIN found = 1..Len(found) /\ Len(found) \in Nat
      /\ \A i \in 1..Len(found) : found[i] \in 1..a /\ found[i] \in C
      /\ \A r \in 1..a : r \in C => \E i \in 1..Len(found) : found[i] = r
  BY <1>8, LenProperties DEF Ordered
<1>10. /\ DOMAIN nulls = 1..Len(found)
       /\ \A i \in 1..Len(found) : nulls[i] = OutputAt(ActiveIndices[found[i]])
  <2>1. DOMAIN nulls = 1..Len(found)
    BY <1>9
  <2>2. ASSUME NEW i \in 1..Len(found)
        PROVE  nulls[i] = OutputAt(ActiveIndices[found[i]])
    <3>1. found[i] \in 1..a
      BY <1>9
    <3>2. nulls[i] = <<indices[found[i]].global, indices[found[i]].local>>
      BY <1>9
    <3> QED BY <1>6, <3>1, <3>2
  <2> QED BY <2>1, <2>2
<1> HIDE DEF nulls
<1>11. ASSUME NEW i \in DOMAIN nulls PROVE nulls[i] \in NullOutputs
  <2>1. found[i] \in 1..a /\ found[i] \in C /\ nulls[i] = OutputAt(ActiveIndices[found[i]])
    BY <1>9, <1>10
  <2> QED BY <1>2, <1>7, <2>1 DEF NullOutputs
<1>12. ASSUME NEW o \in NullOutputs PROVE \E i \in DOMAIN nulls : nulls[i] = o
  <2>1. o \in ActiveOutputs /\ GradientAt(o) = ZeroGradient
    BY DEF NullOutputs
  <2>2. PICK r \in 1..a : OutputAt(ActiveIndices[r]) = o
    BY <1>3, <2>1
  <2>3. r \in C
    BY <1>2, <1>7, <2>1, <2>2
  <2>4. PICK i \in 1..Len(found) : found[i] = r
    BY <1>9, <2>3
  <2> QED BY <1>10, <2>2, <2>4
<1>13. ToSet(nulls) = NullOutputs
  BY <1>11, <1>12 DEF ToSet
<1>14. nulls = <<>> <=> NullOutputs = {}
  <2>1. nulls = <<>> => NullOutputs = {}
    <3>1. DOMAIN <<>> = {}
      OBVIOUS
    <3> QED BY <1>12, <3>1
  <2>2. ASSUME NullOutputs = {} PROVE nulls = <<>>
    <3>1. DOMAIN nulls = {}
      BY <1>11, <2>2
    <3>2. Len(found) = 0
      <4>1. 1..Len(found) = {}
        BY <1>10, <3>1
      <4>2. Len(found) >= 1 => 1 \in 1..Len(found)
        BY <1>9
      <4> QED BY <1>9, <4>1, <4>2
    <3>3. found = <<>>
      BY <1>9, <3>2, EmptySeq
    <3> QED BY <3>3 DEF nulls
  <2> QED BY <2>1, <2>2
<1> QED BY <1>1, <1>13, <1>14 DEF NoNullRow

(***************************************************************************)
(* What KKT answers.                                                       *)
(***************************************************************************)

\* The problem as it was built, and the result as it came.
WellPosed ==
  /\ IInv
  /\ x \in [1..InputSize -> Levels]
  /\ \A o \in Outputs : values[o[1]][o[2]] \in Levels
  /\ lambda \in Seq(Int)

\* A violation is null within the bounds only.
LEMMA ViolationNull ==
  ASSUME NEW v \in Levels, NEW b \in Intervals \cup {Free}
  PROVE  Violation(v, b) \in Int /\ (Violation(v, b) = 0 <=> Within(v, b))
<1>1. b.lower \in Int /\ b.upper \in Int /\ b.lower <= b.upper /\ v \in Int /\ Infinity \in Int
  <2>1. b.lower \in Int /\ b.upper \in Int /\ b.lower <= b.upper
    BY BoundsInOrder
  <2> QED BY <2>1, IntervalsAssumption
<1>2. SignOf(Violation(v, b)) = Expected(v, b)
  BY <1>1, SignOfViolation
<1> DEFINE l == b.lower
           u == b.upper
<1>3. Violation(v, b) \in Int
  <2>1. l \in Int /\ u \in Int
    BY <1>1
  <2> HIDE DEF l, u
  <2>2. /\ (IF l # -Infinity THEN Least(v - l, 0) ELSE 0) \in Int
        /\ (IF u # Infinity THEN Greatest(v - u, 0) ELSE 0) \in Int
    BY <1>1, <2>1 DEF Least, Greatest
  <2> QED BY <2>2 DEF Violation, l, u
<1>4. SignOf(Violation(v, b)) = 0 <=> Violation(v, b) = 0
  <2> DEFINE r == Violation(v, b)
  <2>1. r \in Int
    BY <1>3
  <2> HIDE DEF r
  <2>2. SignOf(r) = 0 <=> r = 0
    BY <2>1 DEF SignOf
  <2> QED BY <2>2 DEF r
<1>5. Expected(v, b) = 0 <=> Within(v, b)
  <2>1. l \in Int /\ u \in Int /\ l <= u
    BY <1>1
  <2> HIDE DEF l, u
  <2>2. (IF v < l THEN -1 ELSE IF v > u THEN 1 ELSE 0) = 0 <=> l <= v /\ v <= u
    BY <1>1, <2>1
  <2> QED BY <2>2 DEF Expected, Within, l, u
<1> QED BY <1>2, <1>3, <1>4, <1>5

\* So that all are null at a feasible point, and there only.
LEMMA ViolationsNull ==
  ASSUME WellPosed
  PROVE  /\ Violations \in [1..InputSize + ConstraintsOutputSize -> Int]
         /\ Feasible <=> \A r \in 1..InputSize + ConstraintsOutputSize : Violations[r] = 0
<1> DEFINE n == Len(constraints)
           l == InputSize
           v == Violations
           m == l + ConstraintsOutputSize
<1>1. TypeOK
  BY DEF WellPosed, IInv
<1>2. PICK d : Laid(d, Constraints)
  BY <1>1, RowsAreLaid
<1>3. /\ n \in Nat /\ Ends(d, n) /\ l \in Nat \ {0} /\ d[n] \in Nat
      /\ ConstraintsOutputSize = d[n] /\ DOMAIN constraints = 1..n
  <2>1. n \in Nat /\ Ends(d, n) /\ l \in Nat \ {0} /\ ConstraintsOutputSize = d[n]
    BY <1>2, ConstraintsAssumption DEF Laid, ConstraintsOutputSize
  <2>2. n \in 0..n
    BY <2>1
  <2>3. d[n] \in Nat
    BY <2>1, <2>2 DEF Ends
  <2>4. DOMAIN constraints = 1..n
    BY <1>1, LenProperties DEF TypeOK
  <2> QED BY <2>1, <2>3, <2>4
<1>4. /\ v = [r \in 1..l + d[n] |-> v[r]]
      /\ \A r \in 1..l : v[r] = Violation(x[r], argumentBounds[r])
      /\ \A k \in 1..n : \A i \in 1..d[k] - d[k - 1] :
           v[l + d[k - 1] + i]
             = Violation([o \in Outputs |-> values[o[1]][o[2]]][<<k, i>>], boundsVect[k][i])
  <2> DEFINE at == [o \in Outputs |-> values[o[1]][o[2]]]
  <2>1. v = ConstraintsViolationVector(x, at)
    BY DEF Violations
  <2> HIDE DEF v, at
  <2>2. InBlocks(v, x, at, d)
    BY <1>1, <1>2, <2>1, ViolationRows
  <2>3. /\ v = [r \in 1..l + d[n] |-> v[r]]
        /\ \A r \in 1..l : v[r] = Violation(x[r], argumentBounds[r])
        /\ \A k \in 1..n : \A i \in 1..d[k] - d[k - 1] :
             v[l + d[k - 1] + i] = Violation(at[<<k, i>>], boundsVect[k][i])
    BY <2>2 DEF InBlocks
  <2> QED BY <2>3 DEF at
<1>5. ASSUME NEW k \in 1..n, NEW i \in 1..d[k] - d[k - 1]
      PROVE  /\ <<k, i>> \in Outputs
             /\ values[k][i] \in Levels /\ boundsVect[k][i] \in Intervals
             /\ v[l + d[k - 1] + i] = Violation(values[k][i], boundsVect[k][i])
  <2>1. /\ boundsVect[k] \in Seq(Intervals) /\ Len(boundsVect[k]) = OutOf[constraints[k]]
        /\ constraints[k] \in Constraints
    <3>1. Len(given) = n
      BY DEF WellPosed, IInv, HistoryAgrees
    <3> QED BY <3>1, KthGiven DEF WellPosed
  <2>2. i \in 1..OutOf[constraints[k]]
    BY <1>2, <2>1 DEF Laid
  <2>3. boundsVect[k][i] \in Intervals
    BY <2>1, <2>2, ElementOfSeq
  <2>4. <<k, i>> \in Outputs
    BY <1>3, <2>2 DEF Outputs
  <2>5. [o \in Outputs |-> values[o[1]][o[2]]][<<k, i>>] = values[k][i]
    BY <2>4
  <2>6. values[k][i] \in Levels
    BY <2>4 DEF WellPosed
  <2> HIDE DEF v
  <2> QED BY <1>4, <2>3, <2>4, <2>5, <2>6
<1>6. ASSUME NEW r \in 1..l
      PROVE  /\ x[r] \in Levels /\ argumentBounds[r] \in Intervals \cup {Free}
             /\ v[r] = Violation(x[r], argumentBounds[r])
  BY <1>1, <1>4 DEF WellPosed, TypeOK
<1>7. ASSUME NEW r \in 1..l + d[n], r \notin 1..l
      PROVE  \E k \in 1..n : \E i \in 1..d[k] - d[k - 1] : r = l + d[k - 1] + i
  <2> DEFINE q == r - l
             e == d[n]
  <2>1. l \in Nat /\ e \in Nat
    BY <1>3
  <2>2. q \in 1..e /\ r = l + q
    <3> HIDE DEF l, e
    <3> QED BY <1>7, <2>1 DEF l, e
  <2> HIDE DEF q
  <2>3. PICK k \in 1..n : \E i \in 1..d[k] - d[k - 1] : q = d[k - 1] + i
    <3> HIDE DEF n
    <3> QED BY <1>3, <2>2, EveryRow
  <2>4. PICK i \in 1..d[k] - d[k - 1] : q = d[k - 1] + i
    BY <2>3
  <2>5. d[k - 1] \in Nat
    BY <1>2 DEF Laid
  <2>6. r = l + d[k - 1] + i
    BY <2>1, <2>2, <2>4, <2>5
  <2> QED BY <2>6
<1>8. \A r \in 1..l : v[r] \in Int /\ (v[r] = 0 <=> Within(x[r], argumentBounds[r]))
  <2> HIDE DEF v, l
  <2> QED BY <1>6, ViolationNull
<1>9. \A k \in 1..n : \A i \in 1..d[k] - d[k - 1] :
        /\ v[l + d[k - 1] + i] \in Int
        /\ v[l + d[k - 1] + i] = 0 <=> Within(values[k][i], boundsVect[k][i])
  <2> HIDE DEF v, l, n
  <2>1. TAKE k \in 1..n
  <2>2. TAKE i \in 1..d[k] - d[k - 1]
  <2> DEFINE a == values[k][i]
             b == boundsVect[k][i]
  <2>3. /\ a \in Levels /\ b \in Intervals \cup {Free}
        /\ v[l + d[k - 1] + i] = Violation(a, b)
    BY <1>5
  <2> HIDE DEF a, b
  <2>4. Violation(a, b) \in Int /\ (Violation(a, b) = 0 <=> Within(a, b))
    BY <2>3, ViolationNull
  <2>5. /\ v[l + d[k - 1] + i] \in Int
        /\ v[l + d[k - 1] + i] = 0 <=> Within(a, b)
    BY <2>3, <2>4
  <2> QED BY <2>5 DEF a, b
<1>10. \A r \in 1..l + d[n] : v[r] \in Int
  <2> HIDE DEF v, l, n
  <2> QED BY <1>7, <1>8, <1>9
<1>11. v \in [1..m -> Int]
  <2> HIDE DEF v, l, n
  <2> QED BY <1>3, <1>4, <1>10
<1>12. ASSUME Feasible, NEW r \in 1..m PROVE v[r] = 0
  <2>1. CASE r \in 1..l
    BY <1>8, <1>12, <2>1 DEF Feasible
  <2>2. CASE r \notin 1..l
    <3>1. PICK k \in 1..n : \E i \in 1..d[k] - d[k - 1] : r = l + d[k - 1] + i
      BY <1>3, <1>7, <2>2
    <3>2. PICK i \in 1..d[k] - d[k - 1] : r = l + d[k - 1] + i
      BY <3>1
    <3>3. Within(values[k][i], boundsVect[k][i])
      <4>1. <<k, i>> \in Outputs /\ <<k, i>>[1] = k /\ <<k, i>>[2] = i
        BY <1>5
      <4> QED BY <1>12, <4>1 DEF Feasible
    <3> HIDE DEF v, l, n
    <3> QED BY <1>9, <3>2, <3>3
  <2> QED BY <2>1, <2>2
<1>13. ASSUME \A r \in 1..m : v[r] = 0 PROVE Feasible
  <2>1. \A r \in 1..l : r \in 1..m
    <3> DEFINE e == d[n]
    <3>1. l \in Nat /\ e \in Nat /\ m = l + e
      BY <1>3
    <3> HIDE DEF l, e, m
    <3> QED BY <3>1
  <2>2. \A j \in 1..l : Within(x[j], argumentBounds[j])
    BY <1>8, <1>13, <2>1
  <2>3. ASSUME NEW o \in Outputs
        PROVE  Within(values[o[1]][o[2]], boundsVect[o[1]][o[2]])
    <3>1. PICK k \in 1..n : o \in {k} \X (1..OutOf[constraints[k]])
      BY <1>3 DEF Outputs
    <3>2. PICK i \in 1..OutOf[constraints[k]] : o = <<k, i>>
      BY <3>1
    <3>3. constraints[k] \in Constraints
      BY <1>1, <3>1, ElementOfSeq DEF TypeOK
    <3>4. i \in 1..d[k] - d[k - 1]
      BY <1>2, <3>3 DEF Laid
    <3> DEFINE p == d[k - 1] + i
               r == l + p
               e == d[n]
    <3>5. p \in 1..e
      <4> HIDE DEF n
      <4> QED BY <1>3, <3>4, RowsApart
    <3>6. r \in 1..m
      <4>1. l \in Nat /\ e \in Nat /\ m = l + e
        BY <1>3
      <4> HIDE DEF l, e, m, p
      <4> QED BY <3>5, <4>1
    <3>7. r = l + d[k - 1] + i
      <4>1. d[k - 1] \in Nat /\ l \in Nat
        BY <1>2, <1>3 DEF Laid
      <4> HIDE DEF l
      <4> QED BY <4>1
    <3> HIDE DEF r, v
    <3>8. v[r] = 0
      BY <1>13, <3>6
    <3>9. Within(values[k][i], boundsVect[k][i])
      <4> HIDE DEF l, n
      <4> QED BY <1>9, <3>4, <3>7, <3>8
    <3> QED BY <3>2, <3>9
  <2> QED BY <2>2, <2>3 DEF Feasible
<1> HIDE DEF v
<1> QED BY <1>11, <1>12, <1>13 DEF v

\* The largest violation is null when all are.
LEMMA LargestIsNull ==
  ASSUME NEW m \in Nat, NEW v \in [1..m -> Int]
  PROVE  Max({0} \cup {Abs(v[i]) : i \in DOMAIN v}) = 0 <=> \A i \in 1..m : v[i] = 0
<1> DEFINE Up(k) == {0} \cup {Abs(v[i]) : i \in 1..k}
           S == Up(m)
           T == {k \in 0..m : \E a \in Up(k) : \A y \in Up(k) : a >= y}
<1>1. \A i \in 1..m : /\ v[i] \in Int /\ Abs(v[i]) \in Nat
                      /\ Abs(v[i]) <= 0 => v[i] = 0
                      /\ v[i] = 0 => Abs(v[i]) = 0
  BY DEF Abs
<1>2. 0 \in T
  <2>1. 1..0 = {} /\ 0 \in 0..m
    OBVIOUS
  <2>2. Up(0) = {0}
    BY <2>1
  <2> QED BY <2>1, <2>2
<1>3. ASSUME NEW k \in 1..m, k - 1 \in T PROVE k \in T
  <2>1. PICK a \in Up(k - 1) : \A y \in Up(k - 1) : a >= y
    BY <1>3
  <2> DEFINE z == Abs(v[k])
  <2>2. Up(k) = Up(k - 1) \cup {z}
    <3>1. 1..k = 1..k - 1 \cup {k}
      OBVIOUS
    <3> QED BY <3>1
  <2>3. a \in Int /\ z \in Int /\ \A y \in Up(k - 1) : y \in Int
    <3>1. \A i \in 1..k - 1 : i \in 1..m
      OBVIOUS
    <3> QED BY <1>1, <2>1, <3>1
  <2> HIDE DEF Up, z
  <2>4. \E b \in Up(k) : \A y \in Up(k) : b >= y
    <3>1. CASE a >= z
      BY <2>1, <2>2, <3>1
    <3>2. CASE ~(a >= z)
      <4>1. \A y \in Up(k - 1) : z >= y
        BY <2>1, <2>3, <3>2
      <4>2. z >= z
        BY <2>3
      <4> QED BY <2>2, <4>1, <4>2
    <3> QED BY <3>1, <3>2
  <2> QED BY <2>4
<1>4. m \in T
  <2> HIDE DEF T
  <2>1. m \in 0..m
    OBVIOUS
  <2> QED BY <1>2, <1>3, <2>1, Climb
<1>5. Max(S) \in S /\ \A y \in S : Max(S) >= y
  <2>1. \E a \in S : \A y \in S : a >= y
    BY <1>4
  <2> HIDE DEF S
  <2> QED BY <2>1 DEF Max
<1>6. S = {0} \cup {Abs(v[i]) : i \in DOMAIN v}
  OBVIOUS
<1>7. ASSUME Max(S) = 0, NEW i \in 1..m PROVE v[i] = 0
  <2>1. Abs(v[i]) \in S
    OBVIOUS
  <2>2. 0 >= Abs(v[i])
    <3> HIDE DEF S
    <3> QED BY <1>5, <1>7, <2>1
  <2> QED BY <1>1, <2>2
<1>8. ASSUME \A i \in 1..m : v[i] = 0 PROVE Max(S) = 0
  <2>1. \A y \in S : y = 0
    BY <1>1, <1>8
  <2> HIDE DEF S
  <2> QED BY <1>5, <2>1
<1> HIDE DEF S
<1> QED BY <1>6, <1>7, <1>8

\* The inequalities are numbered among the arguments and the outputs.
LEMMA IneqsAreInRange ==
  ASSUME WellPosed
  PROVE  /\ DOMAIN Ineqs = 1..Len(Ineqs) /\ Len(Ineqs) \in Nat
         /\ \A i \in 1..Len(Ineqs) : Ineqs[i] \in 1..InputSize + ConstraintsOutputSize
<1> DEFINE n == Len(constraints)
           l == InputSize
           flat == FlattenSeq(boundsVect)
           bounds == argumentBounds \o flat
           S == Intervals \cup {Free}
           C == {i \in DOMAIN bounds : bounds[i].lower # bounds[i].upper}
<1>1. TypeOK /\ Len(boundsVect) = n /\ Len(given) = n
  BY DEF WellPosed, IInv, VectorsAgree, HistoryAgrees
<1>2. PICK d : Laid(d, Constraints)
  BY <1>1, RowsAreLaid
<1>3. n \in Nat /\ Ends(d, n) /\ l \in Nat \ {0} /\ ConstraintsOutputSize = d[n] /\ d[n] \in Nat
  <2>1. n \in Nat /\ Ends(d, n) /\ l \in Nat \ {0} /\ ConstraintsOutputSize = d[n]
    BY <1>2, ConstraintsAssumption DEF Laid, ConstraintsOutputSize
  <2>2. n \in 0..n
    BY <2>1
  <2> QED BY <2>1, <2>2 DEF Ends
<1>4. ASSUME NEW k \in 1..n
      PROVE  boundsVect[k] \in Seq(S) /\ Len(boundsVect[k]) = d[k] - d[k - 1]
  <2>1. /\ boundsVect[k] \in Seq(Intervals) /\ Len(boundsVect[k]) = OutOf[constraints[k]]
        /\ constraints[k] \in Constraints
    BY <1>1, KthGiven DEF WellPosed
  <2>2. d[k] - d[k - 1] = OutOf[constraints[k]]
    BY <1>2, <2>1 DEF Laid
  <2>3. boundsVect[k] \in Seq(S)
    <3> DEFINE b == boundsVect[k]
    <3>1. b \in Seq(Intervals)
      BY <2>1
    <3> HIDE DEF b
    <3>2. Len(b) \in Nat /\ b \in [1..Len(b) -> Intervals]
      BY <3>1, LenProperties
    <3>3. b \in [1..Len(b) -> S]
      BY <3>2
    <3> HIDE DEF S
    <3>4. b \in Seq(S)
      BY <3>2, <3>3, SeqDef
    <3> QED BY <3>4 DEF b
  <2> QED BY <2>1, <2>2, <2>3
<1>5. boundsVect \in [1..n -> Seq(S)]
  <2> DEFINE Q == Seq(Intervals)
  <2>1. boundsVect \in Seq(Q)
    BY <1>1 DEF TypeOK
  <2> HIDE DEF Q, S
  <2>2. boundsVect = [k \in 1..n |-> boundsVect[k]]
    BY <1>1, <2>1, LenProperties
  <2> QED BY <1>4, <2>2
<1>6. flat \in Seq(S) /\ Len(flat) = d[n]
  <2> HIDE DEF S, n
  <2> QED BY <1>3, <1>4, <1>5, FlattenedRows
<1>7. argumentBounds \in Seq(S) /\ Len(argumentBounds) = l
  <2>1. argumentBounds \in [1..l -> S]
    BY <1>1 DEF TypeOK
  <2> HIDE DEF S, l
  <2> QED BY <1>3, <2>1, SeqDef, LenProperties
<1>8. Len(bounds) = l + d[n]
  <2> HIDE DEF S, l, flat
  <2>1. Len(bounds) = Len(argumentBounds) + Len(flat)
    BY <1>6, <1>7, ConcatProperties
  <2> QED BY <1>6, <1>7, <2>1
<1> HIDE DEF C, flat, n
<1>9. Ineqs = InOrder(l + d[n], C) /\ l + d[n] \in Nat
  <2>1. Ineqs = InOrder(Len(bounds), C)
    BY DEF Ineqs, C, flat
  <2> HIDE DEF bounds
  <2> QED BY <1>3, <1>8, <2>1
<1>10. Ordered(Ineqs, l + d[n], C)
  <2> HIDE DEF l
  <2> QED BY <1>9, InOrderIsOrdered
<1>11. Ineqs \in Seq(Nat)
  BY <1>10 DEF Ordered
<1> QED BY <1>3, <1>10, <1>11, LenProperties DEF Ordered

\* Their products with violations that are null are.
LEMMA SlackIsNull ==
  ASSUME WellPosed, HasLambda, NEW v,
         \A r \in 1..InputSize + ConstraintsOutputSize : v[r] = 0
  PROVE  Total([i \in DOMAIN Ineqs |-> lambda[Ineqs[i]] * v[Ineqs[i]]]) = 0
<1> DEFINE m == InputSize + ConstraintsOutputSize
           s == [i \in DOMAIN Ineqs |-> lambda[Ineqs[i]] * v[Ineqs[i]]]
<1>1. m \in Nat /\ Len(lambda) = m + 1 /\ lambda \in Seq(Int)
  BY ConstraintsAssumption, OutputsHavePlaces DEF WellPosed, IInv, HasLambda
<1> DEFINE l == Len(Ineqs)
<1>2. DOMAIN Ineqs = 1..l /\ l \in Nat /\ \A i \in 1..l : Ineqs[i] \in 1..m
  BY IneqsAreInRange
<1>3. ASSUME NEW i \in 1..l PROVE lambda[Ineqs[i]] * v[Ineqs[i]] = 0
  <2> DEFINE r == Ineqs[i]
  <2>1. r \in 1..m /\ v[r] = 0
    BY <1>2
  <2> HIDE DEF r, m
  <2>2. lambda[r] \in Int
    <3>1. r \in 1..Len(lambda)
      BY <1>1, <2>1
    <3> QED BY <1>1, <3>1, ElementOfSeq
  <2>3. lambda[r] * v[r] = 0
    BY <2>1, <2>2
  <2> QED BY <2>3 DEF r
<1>4. s = [i \in 1..l |-> 0]
  BY <1>2, <1>3
<1>5. Total(s) = 0
  <2>1. DOMAIN s = 1..l
    BY <1>2
  <2> HIDE DEF s, l
  <2> QED BY <1>2, <1>4, <2>1, SumOfZeros
<1> QED BY <1>5

\* The outputs of a constraint are numbered after those before it.
LEMMA OffsetIsWhereItStarts ==
  ASSUME TypeOK, NEW d, Laid(d, Constraints), NEW k \in 1..Len(constraints)
  PROVE  Offset(k) = InputSize + d[k - 1]
<1> DEFINE l == k - 1
           s == [i \in 1..l |-> OutOf[constraints[i]]]
           p == [i \in 0..l |-> d[i]]
<1>1. l \in Nat /\ l \in 0..l /\ \A i \in 1..l : i \in 1..Len(constraints)
  BY DEF Laid
<1>2. \A i \in 1..l : constraints[i] \in Constraints
  BY <1>1, ElementOfSeq DEF TypeOK
<1>3. /\ d \in [0..Len(constraints) -> Nat] /\ d[0] = 0
      /\ \A i \in 1..l : d[i] = d[i - 1] + OutOf[constraints[i]] /\ OutOf[constraints[i]] \in Nat
  BY <1>1, <1>2 DEF Laid, Ends
<1>4. s \in [1..l -> Int]
  BY <1>3
<1>5. Sums(p, s, l)
  <2>1. \A i \in 0..l : i \in 0..Len(constraints)
    BY <1>1 DEF Laid
  <2>2. p \in [0..l -> Int]
    BY <1>3, <2>1
  <2>3. p[0] = 0
    BY <1>1, <1>3
  <2>4. ASSUME NEW i \in 1..l PROVE p[i] = p[i - 1] + s[i]
    <3>1. i \in 0..l /\ i - 1 \in 0..l
      BY <1>1
    <3> HIDE DEF l
    <3> QED BY <1>3, <3>1
  <2> HIDE DEF p, s
  <2> QED BY <2>2, <2>3, <2>4 DEF Sums
<1>6. p[l] = d[k - 1]
  BY <1>1
<1> HIDE DEF p, s
<1>7. Total(s) = d[k - 1]
  <2> HIDE DEF l
  <2> QED BY <1>1, <1>4, <1>5, <1>6, SumsAreTotal
<1> QED BY <1>7 DEF Offset, s

\* The running index of the lagrangian's gradient meets each output's own
\* multiplier.
Multiplied(k, j) ==
  Total([i \in 1..OutOf[constraints[k]] |-> lambda[Offset(k) + i] * GradientAt(<<k, i>>)[j]])
LEMMA MultipliersMeetTheirOutputs ==
  ASSUME WellPosed, HasLambda, AllDifferentiable, NEW j \in 1..InputSize
  PROVE  Total([i \in 1..ConstraintsOutputSize |-> lambda[SegmentAt(i)] * GradientRows[i][j]])
           = Total([k \in DOMAIN constraints |-> Multiplied(k, j)])
<1> DEFINE n == Len(constraints)
           l == InputSize
<1>1. TypeOK
  BY DEF WellPosed, IInv
<1>2. PICK d : Laid(d, Constraints)
  BY <1>1, RowsAreLaid
<1>3. /\ n \in Nat /\ DOMAIN constraints = 1..n /\ Ends(d, n) /\ l \in Nat
      /\ ConstraintsOutputSize = d[n] /\ d[n] \in Nat
  <2>1. n \in Nat /\ Ends(d, n) /\ l \in Nat /\ ConstraintsOutputSize = d[n]
    BY <1>2, ConstraintsAssumption DEF Laid, ConstraintsOutputSize
  <2>2. n \in 0..n
    BY <2>1
  <2> QED BY <1>1, <2>1, <2>2, LenProperties DEF TypeOK, Ends
<1>4. ASSUME NEW k \in 1..n
      PROVE  /\ OutOf[constraints[k]] \in Nat /\ d[k] - d[k - 1] = OutOf[constraints[k]]
             /\ d[k - 1] \in Nat /\ Offset(k) = l + d[k - 1]
             /\ constraints[k] \in Differentiable
  <2>1. constraints[k] \in Constraints
    BY <1>1, ElementOfSeq DEF TypeOK
  <2>2. Offset(k) = l + d[k - 1]
    BY <1>1, <1>2, OffsetIsWhereItStarts
  <2> QED BY <1>2, <1>3, <2>1, <2>2 DEF Laid, AllDifferentiable
<1>5. \A k \in 1..n : \A i \in 1..d[k] - d[k - 1] :
        GradientRows[d[k - 1] + i] = GradientAt(<<k, i>>)
  BY <1>1, <1>2, GradientsAreLaid
<1> HIDE DEF n
<1>6. ASSUME NEW k \in 1..n, NEW i \in 1..d[k] - d[k - 1]
      PROVE  GradientAt(<<k, i>>)[j] \in Int
  <2>1. Gradients[constraints[k]][i] \in [1..InputSize -> Int]
    BY <1>4, GradientsAssumption
  <2> QED BY <2>1 DEF GradientAt
<1> DEFINE s == [i \in 1..d[n] |-> lambda[l + i] * GradientRows[i][j]]
           b == [k \in 1..n |-> [i \in 1..d[k] - d[k - 1] |-> s[d[k - 1] + i]]]
           t == [k \in 1..n |-> Total(b[k])]
<1>7. s = [i \in 1..ConstraintsOutputSize |-> lambda[SegmentAt(i)] * GradientRows[i][j]]
  BY <1>3 DEF SegmentAt
<1>8. ASSUME NEW r \in 1..d[n] PROVE s[r] \in Int
  <2>1. PICK k \in 1..n : \E i \in 1..d[k] - d[k - 1] : r = d[k - 1] + i
    BY <1>3, EveryRow
  <2>2. PICK i \in 1..d[k] - d[k - 1] : r = d[k - 1] + i
    BY <2>1
  <2>3. GradientRows[r][j] \in Int
    BY <1>5, <1>6, <2>2
  <2>4. lambda[l + r] \in Int
    <3> DEFINE e == d[n]
               q == l + r
    <3>1. lambda \in Seq(Int) /\ Len(lambda) = l + e + 1 /\ l \in Nat /\ e \in Nat
      BY <1>3 DEF WellPosed, HasLambda
    <3> HIDE DEF l, e
    <3>2. q \in 1..Len(lambda)
      BY <3>1 DEF e
    <3> HIDE DEF q
    <3>3. lambda[q] \in Int
      BY <3>1, <3>2, ElementOfSeq
    <3> QED BY <3>3 DEF q
  <2>5. s[r] = lambda[l + r] * GradientRows[r][j]
    OBVIOUS
  <2> DEFINE g == GradientRows[r][j]
             h == lambda[l + r]
  <2>6. g \in Int /\ h \in Int /\ s[r] = h * g
    BY <2>3, <2>4, <2>5
  <2> HIDE DEF g, h, s
  <2> QED BY <2>6
<1>9. s \in [1..d[n] -> Int]
  BY <1>8
<1>10. Blocks(b, s, d, n)
  <2> HIDE DEF s
  <2> QED BY DEF Blocks
<1>11. Total(s) = Total(t)
  <2> HIDE DEF s, b
  <2> QED BY <1>3, <1>9, <1>10, SumOfBlocks
<1>12. ASSUME NEW k \in 1..n PROVE t[k] = Multiplied(k, j)
  <2> DEFINE w == d[k] - d[k - 1]
             f == [i \in 1..OutOf[constraints[k]] |->
                     lambda[Offset(k) + i] * GradientAt(<<k, i>>)[j]]
  <2>1. w = OutOf[constraints[k]] /\ Offset(k) = l + d[k - 1] /\ d[k - 1] \in Nat /\ w \in Nat
    BY <1>4
  <2>2. ASSUME NEW i \in 1..w
        PROVE  s[d[k - 1] + i] = lambda[Offset(k) + i] * GradientAt(<<k, i>>)[j]
    <3> DEFINE r == d[k - 1] + i
    <3>1. r \in 1..d[n]
      BY <1>3, RowsApart
    <3>2. l + r = Offset(k) + i
      <4> DEFINE e == d[k - 1]
      <4>1. l \in Nat /\ e \in Nat /\ i \in Nat /\ Offset(k) = l + e
        BY <1>3, <2>1
      <4> HIDE DEF l, e
      <4>2. l + (e + i) = l + e + i
        BY <4>1
      <4> QED BY <4>1, <4>2 DEF e
    <3>3. GradientRows[r] = GradientAt(<<k, i>>)
      BY <1>5
    <3> HIDE DEF r
    <3>4. s[r] = lambda[l + r] * GradientRows[r][j]
      BY <3>1
    <3>5. s[r] = lambda[Offset(k) + i] * GradientAt(<<k, i>>)[j]
      BY <3>2, <3>3, <3>4
    <3> QED BY <3>5 DEF r
  <2>3. b[k] = [i \in 1..w |-> s[d[k - 1] + i]]
    OBVIOUS
  <2>4. b[k] = f
    <3> HIDE DEF s, b, w
    <3> QED BY <2>1, <2>2, <2>3
  <2>5. t[k] = Total(b[k])
    OBVIOUS
  <2> HIDE DEF b, t, f
  <2>6. t[k] = Total(f)
    BY <2>4, <2>5
  <2> QED BY <2>6 DEF f, Multiplied
<1>13. t = [k \in DOMAIN constraints |-> Multiplied(k, j)]
  <2>1. t = [k \in 1..n |-> t[k]]
    OBVIOUS
  <2> HIDE DEF t
  <2> QED BY <1>3, <1>12, <2>1
<1> HIDE DEF s, t
<1> QED BY <1>7, <1>11, <1>13

\* The two agree, and the rest of what KKT looks at follows from feasibility.
RightKKT(data) == Satisfied(data) <=> HasLambda /\ Feasible /\ Stationary

LEMMA KKTIsRight ==
  ASSUME WellPosed, HasLambda, AllDifferentiable, NEW c, c.jac = Matrix(GradientRows),
         c.ineqIndices = Ineqs
  PROVE  RightKKT(KKTData(c))
<1> DEFINE m == InputSize + ConstraintsOutputSize
           data == KKTData(c)
           v == Violations
           Sum(j) == Total([i \in 1..ConstraintsOutputSize |->
                              lambda[SegmentAt(i)] * GradientRows[i][j]])
           sign(i) == IF c.isLowerBound[i] THEN -1 ELSE 1
<1>1. m \in Nat /\ v \in [1..m -> Int] /\ (Feasible <=> \A r \in 1..m : v[r] = 0)
  <2>1. InputSize \in Nat /\ ConstraintsOutputSize \in Nat
    BY ConstraintsAssumption, OutputsHavePlaces DEF WellPosed, IInv
  <2> QED BY <2>1, ViolationsNull
<1>2. c.jac.rows = GradientRows
  BY DEF Matrix
<1>3. data.has_lambda /\ data.grad_L = [j \in 1..InputSize |-> Objective[j] + lambda[j] + Sum(j)]
  <2>1. GradLagrangian(c) = [j \in 1..InputSize |-> Objective[j] + lambda[j] + Sum(j)]
    BY <1>2 DEF GradLagrangian
  <2> QED BY <2>1 DEF KKTData
<1>4. data.violation = Max({0} \cup {Abs(v[i]) : i \in DOMAIN v})
  BY DEF KKTData
<1>5. data.complementary_slackness = Total([i \in DOMAIN Ineqs |-> lambda[Ineqs[i]] * v[Ineqs[i]]])
  BY DEF KKTData
<1>6. data.dual_feasible = \A i \in DOMAIN Ineqs : v[Ineqs[i]] # 0 => sign(i) * lambda[Ineqs[i]] >= 0
  BY DEF KKTData
<1> HIDE DEF data
<1>7. data.violation = 0 <=> Feasible
  <2> HIDE DEF v, m
  <2> QED BY <1>1, <1>4, LargestIsNull
<1>8. Feasible => data.complementary_slackness = 0
  <2> HIDE DEF v
  <2> QED BY <1>1, <1>5, SlackIsNull
<1>9. Feasible => data.dual_feasible
  <2>1. \A i \in DOMAIN Ineqs : Ineqs[i] \in 1..m
    BY IneqsAreInRange
  <2> HIDE DEF v, m, sign
  <2> QED BY <1>1, <1>6, <2>1
<1>10. data.grad_L = ZeroGradient <=> Stationary
  <2>1. \A j \in 1..InputSize : Sum(j) = Total([k \in DOMAIN constraints |-> Multiplied(k, j)])
    BY MultipliersMeetTheirOutputs
  <2>2. Stationary <=> \A j \in 1..InputSize :
          0 = Objective[j] + lambda[j] + Total([k \in DOMAIN constraints |-> Multiplied(k, j)])
    BY DEF Stationary, Multiplied
  <2> HIDE DEF Sum
  <2>3. Stationary <=> \A j \in 1..InputSize : 0 = Objective[j] + lambda[j] + Sum(j)
    BY <2>1, <2>2
  <2>4. data.grad_L = ZeroGradient <=> \A j \in 1..InputSize : Objective[j] + lambda[j] + Sum(j) = 0
    <3> DEFINE f(j) == Objective[j] + lambda[j] + Sum(j)
    <3>1. data.grad_L = [j \in 1..InputSize |-> f(j)]
      BY <1>3
    <3> HIDE DEF f
    <3>2. data.grad_L = ZeroGradient <=> \A j \in 1..InputSize : f(j) = 0
      BY <3>1 DEF ZeroGradient
    <3> QED BY <3>2 DEF f
  <2>5. \A j \in 1..InputSize :
          Objective[j] + lambda[j] + Sum(j) = 0 <=> 0 = Objective[j] + lambda[j] + Sum(j)
    OBVIOUS
  <2> QED BY <2>3, <2>4, <2>5
<1> HIDE DEF v, Sum
<1>11. Satisfied(data) <=> Feasible /\ Stationary
  BY <1>3, <1>7, <1>8, <1>9, <1>10 DEF Satisfied
<1> QED BY <1>11 DEF RightKKT, data

\* Without multipliers none is.
LEMMA NoKKTIsRight == ~HasLambda => RightKKT(NoKKTData)
BY DEF RightKKT, Satisfied, NoKKTData

(***************************************************************************)
(* The problem and the result are constant copies.                         *)
(***************************************************************************)

\* What is said of the problem stays as it is.
LEMMA TheProblemStays ==
  ASSUME UNCHANGED analyzed
  PROVE  /\ ConstraintsOutputSize' = ConstraintsOutputSize /\ Outputs' = Outputs
         /\ HasLambda' = HasLambda /\ AllDifferentiable' = AllDifferentiable
         /\ Feasible' = Feasible /\ Stationary' = Stationary
<1>1. UNCHANGED <<constraints, boundsVect, argumentBounds, x, values, lambda>>
  BY DEF analyzed, vars, vectors, arguments
<1>2. ConstraintsOutputSize' = ConstraintsOutputSize
  BY <1>1 DEF ConstraintsOutputSize, OutputSizes, FoldLeft, MapThenFoldSet
<1>3. Outputs' = Outputs
  BY <1>1 DEF Outputs
<1>4. HasLambda' = HasLambda
  BY <1>1, <1>2 DEF HasLambda
<1>5. AllDifferentiable' = AllDifferentiable
  BY <1>1 DEF AllDifferentiable
<1>6. Feasible' = Feasible
  BY <1>1, <1>3 DEF Feasible
<1>7. Stationary' = Stationary
  BY <1>1 DEF Stationary, Offset, GradientAt
<1> QED BY <1>2, <1>3, <1>4, <1>5, <1>6, <1>7

\* So does the active set.
LEMMA TheActiveSetStays ==
  ASSUME UNCHANGED analyzed
  PROVE  /\ ActiveOutputs' = ActiveOutputs /\ ActiveArguments' = ActiveArguments
         /\ ActiveGradients' = ActiveGradients /\ NullOutputs' = NullOutputs
         /\ Everything' = Everything /\ ActiveIndices' = ActiveIndices
         /\ ActiveBounds' = ActiveBounds
<1>1. UNCHANGED <<constraints, boundsVect, argumentBounds, x, values>>
  BY DEF analyzed, vars, vectors, arguments
<1>2. ActiveOutputs' = ActiveOutputs
  BY <1>1, TheProblemStays DEF ActiveOutputs, ActiveOutput
<1>3. ActiveArguments' = ActiveArguments
  BY <1>1 DEF ActiveArguments, ActiveBound
<1>4. ActiveGradients' = ActiveGradients
  BY <1>1, <1>2, <1>3 DEF ActiveGradients, GradientAt
<1>5. NullOutputs' = NullOutputs
  BY <1>1, <1>2 DEF NullOutputs, GradientAt
<1>6. Everything' = Everything
  BY <1>1 DEF Everything, Walk
<1>7. ActiveIn(Everything)' = ActiveIn(Everything)
  BY <1>1, <1>6 DEF ActiveIn, ActiveOutput
<1>8. ActiveIndices' = ActiveIndices
  BY <1>6, <1>7 DEF ActiveIndices, ActiveConstraints
<1>9. ActiveBounds' = ActiveBounds
  BY <1>1 DEF ActiveBounds, ActiveBound
<1> QED BY <1>2, <1>3, <1>4, <1>5, <1>6, <1>8, <1>9

\* The jacobian is a function of the constraints alone.
CountOf(cs) ==
  FoldLeft(LAMBDA m, c : IF c \in Differentiable THEN m + OutOf[c] ELSE m, 0, cs)
JacobianFrom(cs, size) ==
  FoldLeft(LAMBDA acc, c :
             IF ~IsDifferentiable(c) THEN acc
             ELSE [row |-> acc.row + OutOf[c],
                   jac |-> [i \in DOMAIN acc.jac |->
                              IF i \in acc.row + 1..acc.row + OutOf[c]
                              THEN [of |-> c, output |-> i - acc.row, scale |-> InitialScaling]
                              ELSE acc.jac[i]]],
           [row |-> 0, jac |-> [r \in 1..size |-> ZeroRow]], cs).jac
LEMMA TheJacobianStays ==
  ASSUME UNCHANGED constraints
  PROVE  GradientRows' = GradientRows
<1>1. DifferentiableConstraintsOutputSize' = DifferentiableConstraintsOutputSize
  BY DEF DifferentiableConstraintsOutputSize, OutputSizes, FoldLeft, MapThenFoldSet
<1>2. Jacobian = JacobianFrom(constraints, DifferentiableConstraintsOutputSize)
  BY DEF Jacobian, JacobianFrom, Block, FoldLeft, MapThenFoldSet
<1>3. Jacobian' = JacobianFrom(constraints', DifferentiableConstraintsOutputSize')
  BY DEF Jacobian, JacobianFrom, Block, FoldLeft, MapThenFoldSet
<1>4. Jacobian' = Jacobian
  BY <1>1, <1>2, <1>3
<1> QED BY <1>4 DEF GradientRows

\* And what a check computes of them.
LEMMA CachesStay ==
  ASSUME UNCHANGED analyzed
  PROVE  Caches' = Caches
<1>1. UNCHANGED <<constraints, boundsVect, argumentBounds, x, values>>
  BY DEF analyzed, vars, vectors, arguments
<1>2. GradientRows' = GradientRows
  BY <1>1, TheJacobianStays
<1>3. /\ Everything' = Everything /\ ActiveIndices' = ActiveIndices
      /\ ActiveBounds' = ActiveBounds
  BY TheActiveSetStays
<1>4. BoundRows' = BoundRows /\ OutputRows' = OutputRows
  BY <1>2, <1>3 DEF BoundRows, OutputRows
<1>5. LowerBounds' = LowerBounds
  BY <1>1, <1>3 DEF LowerBounds
<1>6. Ineqs' = Ineqs
  BY <1>1 DEF Ineqs
<1>7. [i \in DOMAIN ActiveIndices |-> IndexOf(i)]' = [i \in DOMAIN ActiveIndices |-> IndexOf(i)]
  BY <1>3 DEF IndexOf
<1>8. ActiveCache' = ActiveCache
  BY <1>2, <1>4, <1>5, <1>7 DEF ActiveCache
<1>9. KKTCache' = KKTCache
  BY <1>6, <1>8 DEF KKTCache
<1> QED BY <1>8, <1>9 DEF Caches

LEMMA WellPosedStays ==
  ASSUME WellPosed, UNCHANGED analyzed
  PROVE  WellPosed'
<1>1. /\ UNCHANGED vars
      /\ UNCHANGED <<x, values, lambda>>
  BY DEF analyzed
<1>2. IInv'
  BY <1>1, NextIInv DEF WellPosed
<1> QED BY <1>1, <1>2, TheProblemStays DEF WellPosed

(***************************************************************************)
(* The inductive invariant.                                                *)
(***************************************************************************)

\* What a check answers is right, whichever it is.
RightAnswer(a) ==
  /\ a.check = "LICQ" => RightLICQ(a)
  /\ a.check = "null gradient" => RightNulls(a)
  /\ a.check = "KKT" => RightKKT(a)

\* As long as nothing threw, the members hold nothing or the whole active set,
\* and each check has answered what it is asked.
CacheIsWhole == Sound => cache \in Caches
AnswerIsRight == Sound => ending # "undefined" /\ RightAnswer(answer)
AnalyzerInv == WellPosed /\ failures \in Nat /\ CacheIsWhole /\ AnswerIsRight

\* Sequences of values and bounds of each output, taken apart.
LEMMA SituationsApart ==
  ASSUME NEW m \in Nat, NEW s \in [1..m -> Situations]
  PROVE  /\ BoundsIn(s) \in Seq(Intervals) /\ Len(BoundsIn(s)) = m
         /\ ValuesIn(s) \in [1..m -> Levels]
<1>1. \A i \in 1..m : s[i].bounds \in Intervals /\ s[i].value \in Levels
  BY SituationsAssumption
<1>2. BoundsIn(s) \in [1..m -> Intervals] /\ ValuesIn(s) \in [1..m -> Levels]
  BY <1>1 DEF BoundsIn, ValuesIn
<1> DEFINE b == BoundsIn(s)
<1>3. b \in [1..m -> Intervals]
  BY <1>2
<1> HIDE DEF b
<1>4. b \in Seq(Intervals) /\ Len(b) = m
  BY <1>3, SeqDef, LenProperties
<1> QED BY <1>2, <1>4 DEF b

\* A factor of one for each output.
LEMMA OnesAreScales ==
  ASSUME NEW m \in Nat, NEW b, DOMAIN b = 1..m
  PROVE  /\ [i \in DOMAIN b |-> 1] \in Seq(Scales)
         /\ Len([i \in DOMAIN b |-> 1]) = m
<1> DEFINE t == [i \in DOMAIN b |-> 1]
<1>1. t \in [1..m -> Scales]
  BY SituationsAssumption
<1> HIDE DEF t
<1>2. t \in Seq(Scales) /\ Len(t) = m
  BY <1>1, SeqDef, LenProperties
<1> QED BY <1>2 DEF t

\* The problem that the checks are given is one that can be built, and each
\* output has a value.
LEMMA ProblemsAreBuilt ==
  ASSUME AnalyzerInit
  PROVE  /\ IInv /\ x \in [1..InputSize -> Levels]
         /\ \A o \in Outputs : values[o[1]][o[2]] \in Levels
<1>1. PICK n \in Nat : /\ constraints \in [1..n -> Constraints]
                       /\ \A k \in 1..n : InOf[constraints[k]] = InputSize
  <2>1. PICK k \in 0..MaxConstraints :
          constraints \in [1..k -> {c \in Constraints : InOf[c] = InputSize}]
    BY DEF AnalyzerInit, Problems
  <2>2. k \in Nat
    BY BoundsAssumption
  <2> QED BY <2>1, <2>2
<1>2. constraints \in Seq(Constraints) /\ Len(constraints) = n /\ DOMAIN constraints = 1..n
  BY <1>1, SeqDef, LenProperties
<1>3. \A k \in 1..n : OutOf[constraints[k]] \in Nat
  BY <1>1, ConstraintsAssumption
<1>4. PICK s \in [1..n -> UNION {[1..k -> Situations] : k \in 0..MaxOutputs}] :
        /\ \A k \in 1..n : Len(s[k]) = OutOf[constraints[k]]
        /\ boundsVect = [k \in DOMAIN s |-> BoundsIn(s[k])]
        /\ values = [k \in DOMAIN s |-> ValuesIn(s[k])]
  BY <1>2 DEF AnalyzerInit
<1>5. ASSUME NEW k \in 1..n
      PROVE  s[k] \in [1..OutOf[constraints[k]] -> Situations]
  <2>1. PICK m \in 0..MaxOutputs : s[k] \in [1..m -> Situations]
    <3> DEFINE S == UNION {[1..m -> Situations] : m \in 0..MaxOutputs}
    <3>1. s[k] \in S
      <4>1. s \in [1..n -> S]
        OBVIOUS
      <4> HIDE DEF S
      <4> QED BY <4>1
    <3> QED BY <3>1
  <2> DEFINE t == s[k]
  <2>2. m \in Nat /\ t \in [1..m -> Situations]
    BY <2>1, BoundsAssumption
  <2> HIDE DEF t
  <2>3. Len(t) = m
    BY <2>2, SeqDef, LenProperties
  <2> QED BY <1>4, <2>2, <2>3 DEF t
<1>6. ASSUME NEW k \in 1..n
      PROVE  /\ boundsVect[k] \in Seq(Intervals) /\ Len(boundsVect[k]) = OutOf[constraints[k]]
             /\ DOMAIN boundsVect[k] = 1..OutOf[constraints[k]]
             /\ values[k] \in [1..OutOf[constraints[k]] -> Levels]
  <2> DEFINE t == s[k]
             m == OutOf[constraints[k]]
  <2>1. boundsVect[k] = BoundsIn(t) /\ values[k] = ValuesIn(t)
    BY <1>4
  <2>2. m \in Nat /\ t \in [1..m -> Situations]
    BY <1>3, <1>5
  <2> HIDE DEF t, m
  <2>3. /\ BoundsIn(t) \in Seq(Intervals) /\ Len(BoundsIn(t)) = m
        /\ ValuesIn(t) \in [1..m -> Levels]
    BY <2>2, SituationsApart
  <2>4. boundsVect[k] \in Seq(Intervals) /\ Len(boundsVect[k]) = m
    BY <2>1, <2>3
  <2>5. DOMAIN boundsVect[k] = 1..m
    BY <2>4, LenProperties
  <2> QED BY <2>1, <2>3, <2>4, <2>5 DEF m
<1>7. boundsVect \in [1..n -> Seq(Intervals)]
  <2>1. boundsVect = [k \in 1..n |-> boundsVect[k]]
    BY <1>4
  <2> QED BY <1>6, <2>1
<1>8. ASSUME NEW k \in 1..n
      PROVE  scalingVect[k] \in Seq(Scales) /\ Len(scalingVect[k]) = OutOf[constraints[k]]
  <2> DEFINE b == boundsVect[k]
             m == OutOf[constraints[k]]
  <2>1. scalingVect[k] = [i \in DOMAIN b |-> 1]
    BY <1>7 DEF AnalyzerInit
  <2>2. m \in Nat /\ DOMAIN b = 1..m
    BY <1>3, <1>6
  <2> HIDE DEF b, m
  <2>3. [i \in DOMAIN b |-> 1] \in Seq(Scales) /\ Len([i \in DOMAIN b |-> 1]) = m
    BY <2>2, OnesAreScales
  <2> QED BY <2>1, <2>3 DEF m
<1>9. scalingVect \in [1..n -> Seq(Scales)]
  <2>1. DOMAIN boundsVect = 1..n
    BY <1>7
  <2>2. scalingVect = [k \in 1..n |-> scalingVect[k]]
    BY <2>1 DEF AnalyzerInit
  <2> QED BY <1>8, <2>2
<1>10. boundsVect \in Seq(Seq(Intervals)) /\ Len(boundsVect) = n
  <2> DEFINE S == Seq(Intervals)
  <2>1. boundsVect \in [1..n -> S]
    BY <1>7
  <2> HIDE DEF S
  <2>2. boundsVect \in Seq(S) /\ Len(boundsVect) = n
    BY <2>1, SeqDef, LenProperties
  <2> QED BY <2>2 DEF S
<1>11. scalingVect \in Seq(Seq(Scales)) /\ Len(scalingVect) = n
  <2> DEFINE S == Seq(Scales)
  <2>1. scalingVect \in [1..n -> S]
    BY <1>9
  <2> HIDE DEF S
  <2>2. scalingVect \in Seq(S) /\ Len(scalingVect) = n
    BY <2>1, SeqDef, LenProperties
  <2> QED BY <2>2 DEF S
<1>12. argumentBounds \in [1..InputSize -> Intervals \cup {Free}] /\ x \in [1..InputSize -> Levels]
  <2>1. PICK a \in [1..InputSize -> ArgumentSituations] :
          argumentBounds = BoundsIn(a) /\ x = ValuesIn(a)
    BY DEF AnalyzerInit
  <2>2. \A j \in 1..InputSize : a[j].bounds \in Intervals \cup {Free} /\ a[j].value \in Levels
    BY SituationsAssumption
  <2> QED BY <2>1, <2>2 DEF BoundsIn, ValuesIn
<1>13. argumentScaling \in [1..InputSize -> Scales \cup {1}] /\ startingPoint = 0 /\ outcome = "ok"
  BY DEF AnalyzerInit, InitialScaling
<1>14. TypeOK
  BY <1>2, <1>10, <1>11, <1>12, <1>13 DEF TypeOK
<1>15. VectorsAgree
  BY <1>1, <1>2, <1>6, <1>8, <1>10, <1>11 DEF VectorsAgree
<1>16. HistoryAgrees
  <2>1. given = [k \in 1..n |-> [constraint |-> constraints[k], bounds |-> boundsVect[k],
                                 scaling |-> scalingVect[k]]]
    BY <1>2 DEF AnalyzerInit
  <2>2. given \in [1..n -> Entries]
    <3>1. ASSUME NEW k \in 1..n
          PROVE  [constraint |-> constraints[k], bounds |-> boundsVect[k],
                  scaling |-> scalingVect[k]] \in Entries
      BY <1>1, <1>6, <1>8 DEF Entries
    <3> QED BY <2>1, <3>1
  <2>3. given \in Seq(Entries) /\ Len(given) = n
    BY <2>2, SeqDef, LenProperties
  <2> QED BY <1>2, <2>1, <2>3 DEF HistoryAgrees
<1>17. ASSUME NEW o \in Outputs PROVE values[o[1]][o[2]] \in Levels
  <2>1. PICK k \in 1..n : o \in {k} \X (1..OutOf[constraints[k]])
    BY <1>2 DEF Outputs
  <2>2. PICK i \in 1..OutOf[constraints[k]] : o = <<k, i>>
    BY <2>1
  <2> QED BY <1>6, <2>2
<1> QED BY <1>12, <1>14, <1>15, <1>16, <1>17 DEF IInv

\* As it starts nothing was asked.
LEMMA InitAnalyzerInv == AnalyzerInit => AnalyzerInv
<1> SUFFICES ASSUME AnalyzerInit PROVE AnalyzerInv
  OBVIOUS
<1>1. /\ IInv /\ x \in [1..InputSize -> Levels]
      /\ \A o \in Outputs : values[o[1]][o[2]] \in Levels
  BY ProblemsAreBuilt
<1>2. lambda \in Seq(Int)
  <2>1. CASE lambda = <<>>
    BY <2>1
  <2>2. CASE lambda # <<>>
    <3> DEFINE m == InputSize + ConstraintsOutputSize
    <3>1. PICK l \in Lambdas(m) : lambda = Append(l, 1)
      BY <2>2 DEF AnalyzerInit
    <3>2. m \in Nat
      BY <1>1, OutputsHavePlaces, ConstraintsAssumption DEF IInv
    <3> HIDE DEF m
    <3>3. l \in [1..m -> Int]
      <4>1. l \in [1..m -> Multipliers \cup {0}]
        BY <3>1 DEF Lambdas
      <4>2. Multipliers \subseteq Int
        BY GradientsAssumption
      <4>3. Multipliers \cup {0} \subseteq Int
        BY <4>2
      <4> DEFINE S == Multipliers \cup {0}
      <4>4. l \in [1..m -> S] /\ S \subseteq Int
        BY <4>1, <4>3
      <4> HIDE DEF S
      <4> QED BY <4>4
    <3>4. l \in Seq(Int) /\ 1 \in Int
      BY <3>2, <3>3, SeqDef
    <3> QED BY <3>1, <3>4, AppendProperties
  <2> QED BY <2>1, <2>2
<1>3. WellPosed
  BY <1>1, <1>2 DEF WellPosed
<1>4. cache = NoCache /\ answer = [check |-> "none"] /\ ending = "ok" /\ failures = 0
  BY DEF AnalyzerInit
<1>5. CacheIsWhole
  BY <1>4 DEF CacheIsWhole, Caches
<1>6. AnswerIsRight
  <2>1. answer.check = "none"
    BY <1>4
  <2> QED BY <1>4, <2>1 DEF AnswerIsRight, RightAnswer
<1> QED BY <1>3, <1>4, <1>5, <1>6 DEF AnalyzerInv

\* What a check answers, and leaves, is right for the problem as it is.
LEMMA ChecksAnswer ==
  ASSUME AnalyzerInv, Sound
  PROVE  /\ ActiveSetIsDefined
         /\ \A i \in DOMAIN Analyzed.activeCstrIndices :
              Analyzed.activeCstrIndices[i].active <= Len(Analyzed.activeJac.rows)
         /\ Len(Analyzed.jac.rows) = ConstraintsOutputSize
         /\ Analyzed \in Caches /\ WithIneqs(Analyzed) \in Caches
         /\ RightLICQ(LICQData(Analyzed)) /\ RightNulls(NullGradientData(Analyzed))
         /\ HasLambda => RightKKT(KKTData(WithIneqs(Analyzed)))
<1>1. TypeOK /\ WellPosed /\ AllDifferentiable /\ cache \in Caches
  BY DEF AnalyzerInv, WellPosed, IInv, Sound, AllDifferentiable, CacheIsWhole
<1>2. /\ Analyzed \in {ActiveCache, KKTCache} /\ WithIneqs(Analyzed) = KKTCache
      /\ Analyzed.activeJac = Matrix(BoundRows \o OutputRows)
      /\ Analyzed.activeCstrIndices = [i \in DOMAIN ActiveIndices |-> IndexOf(i)]
  BY <1>1, SameActiveSet
<1>3. Analyzed \in Caches /\ WithIneqs(Analyzed) \in Caches
  BY <1>2 DEF Caches
<1>4. /\ ActiveSetIsDefined
      /\ \A i \in DOMAIN Analyzed.activeCstrIndices :
           Analyzed.activeCstrIndices[i].active <= Len(Analyzed.activeJac.rows)
      /\ Len(Analyzed.jac.rows) = ConstraintsOutputSize
  BY <1>1, ActiveSetDefined
<1> DEFINE c == Analyzed
<1>5. RightLICQ(LICQData(c))
  <2> HIDE DEF c
  <2>1. c.activeJac = Matrix(BoundRows \o OutputRows)
    BY <1>2 DEF c
  <2> QED BY <1>1, <2>1, LICQIsRight
<1>6. RightNulls(NullGradientData(c))
  <2> HIDE DEF c
  <2>1. /\ c.activeJac = Matrix(BoundRows \o OutputRows)
        /\ c.activeCstrIndices = [i \in DOMAIN ActiveIndices |-> IndexOf(i)]
    BY <1>2 DEF c
  <2> QED BY <1>1, <2>1, NullsAreRight
<1>7. ASSUME HasLambda PROVE RightKKT(KKTData(KKTCache))
  <2> DEFINE k == KKTCache
  <2>1. k.jac = Matrix(GradientRows) /\ k.ineqIndices = Ineqs
    BY DEF KKTCache, ActiveCache
  <2> HIDE DEF k
  <2>2. RightKKT(KKTData(k))
    BY <1>1, <1>7, <2>1, KKTIsRight
  <2> QED BY <2>2 DEF k
<1> QED BY <1>2, <1>3, <1>4, <1>5, <1>6, <1>7

\* It stays right.
LEMMA RightAnswersStay ==
  ASSUME UNCHANGED analyzed
  PROVE  RightAnswer(answer)' <=> RightAnswer(answer')
<1>1. RightLICQ(answer)' <=> RightLICQ(answer')
  BY TheActiveSetStays DEF RightLICQ, LinearlyIndependent, ActiveCount
<1>2. RightNulls(answer)' <=> RightNulls(answer')
  BY TheActiveSetStays DEF RightNulls
<1>3. RightKKT(answer)' <=> RightKKT(answer')
  BY TheProblemStays DEF RightKKT
<1> QED BY <1>1, <1>2, <1>3 DEF RightAnswer

\* A check that answers.
LEMMA AnswersInv ==
  ASSUME AnalyzerInv, NEW c, NEW data, Answers(c, data),
         Sound => c \in Caches /\ RightAnswer(data)
  PROVE  AnalyzerInv'
<1>1. /\ UNCHANGED analyzed /\ cache' = c /\ answer' = data /\ ending' = "ok"
      /\ failures' = failures
  BY DEF Answers
<1>2. WellPosed' /\ failures' \in Nat
  BY <1>1, WellPosedStays DEF AnalyzerInv
<1>3. Sound' => Sound
  BY <1>1 DEF Sound, analyzed, vars, vectors
<1>4. CacheIsWhole'
  BY <1>1, <1>3, CachesStay DEF CacheIsWhole
<1>5. AnswerIsRight'
  BY <1>1, <1>3, RightAnswersStay DEF AnswerIsRight
<1> QED BY <1>2, <1>4, <1>5 DEF AnalyzerInv

\* One that reads what is not there: the problem is not sound.
LEMMA UndefinedInv ==
  ASSUME AnalyzerInv, Undefined, ~Sound
  PROVE  AnalyzerInv'
<1>1. UNCHANGED analyzed /\ UNCHANGED failures
  BY DEF Undefined
<1>2. WellPosed' /\ failures' \in Nat
  BY <1>1, WellPosedStays DEF AnalyzerInv
<1>3. ~Sound'
  BY <1>1 DEF Sound, analyzed, vars, vectors
<1> QED BY <1>2, <1>3 DEF AnalyzerInv, CacheIsWhole, AnswerIsRight

\* One that throws.
LEMMA ThrowsInv ==
  ASSUME AnalyzerInv, NEW c, Throws(c), failures' \in Nat,
         Sound' => Sound /\ c \in Caches
  PROVE  AnalyzerInv'
<1>1. /\ UNCHANGED analyzed /\ cache' = c /\ ending' = "exception"
      /\ answer' = [check |-> "none"]
  BY DEF Throws
<1>2. WellPosed'
  BY <1>1, WellPosedStays DEF AnalyzerInv
<1>3. CacheIsWhole'
  BY <1>1, CachesStay DEF CacheIsWhole
<1>4. RightAnswer(answer')
  <2>1. answer'.check = "none"
    BY <1>1
  <2> QED BY <2>1 DEF RightAnswer
<1>5. AnswerIsRight'
  BY <1>1, <1>4, RightAnswersStay DEF AnswerIsRight
<1> QED BY <1>2, <1>3, <1>5 DEF AnalyzerInv

LEMMA CheckLICQInv ==
  ASSUME AnalyzerInv, CheckLICQ PROVE AnalyzerInv'
<1>1. CASE ActiveSetIsDefined
  <2>1. Answers(Analyzed, LICQData(Analyzed))
    BY <1>1 DEF CheckLICQ
  <2>2. Sound => Analyzed \in Caches /\ RightAnswer(LICQData(Analyzed))
    <3>1. LICQData(Analyzed).check = "LICQ"
      BY DEF LICQData
    <3> QED BY <3>1, ChecksAnswer DEF RightAnswer
  <2> QED BY <2>1, <2>2, AnswersInv
<1>2. CASE ~ActiveSetIsDefined
  <2>1. Undefined /\ ~Sound
    BY <1>2, ChecksAnswer DEF CheckLICQ
  <2> QED BY <2>1, UndefinedInv
<1> QED BY <1>1, <1>2

LEMMA CheckNullGradientInv ==
  ASSUME AnalyzerInv, CheckNullGradient PROVE AnalyzerInv'
<1> DEFINE defined ==
             /\ ActiveSetIsDefined
             /\ \A i \in DOMAIN Analyzed.activeCstrIndices :
                  Analyzed.activeCstrIndices[i].active <= Len(Analyzed.activeJac.rows)
<1>1. CASE defined
  <2>1. Answers(Analyzed, NullGradientData(Analyzed))
    BY <1>1 DEF CheckNullGradient
  <2>2. Sound => Analyzed \in Caches /\ RightAnswer(NullGradientData(Analyzed))
    <3>1. NullGradientData(Analyzed).check = "null gradient"
      BY DEF NullGradientData
    <3> QED BY <3>1, ChecksAnswer DEF RightAnswer
  <2> QED BY <2>1, <2>2, AnswersInv
<1>2. CASE ~defined
  <2>1. Undefined /\ ~Sound
    BY <1>2, ChecksAnswer DEF CheckNullGradient
  <2> QED BY <2>1, UndefinedInv
<1> QED BY <1>1, <1>2

LEMMA CheckKKTInv ==
  ASSUME AnalyzerInv, CheckKKT PROVE AnalyzerInv'
<1> DEFINE defined ==
             /\ ActiveSetIsDefined
             /\ ConstraintsOutputSize > 0 => Len(Analyzed.jac.rows) = ConstraintsOutputSize
<1>1. CASE ~HasLambda
  <2>1. Answers(cache, NoKKTData)
    BY <1>1 DEF CheckKKT
  <2>2. Sound => cache \in Caches /\ RightAnswer(NoKKTData)
    <3>1. NoKKTData.check = "KKT"
      BY DEF NoKKTData
    <3> QED BY <1>1, <3>1, NoKKTIsRight DEF RightAnswer, AnalyzerInv, CacheIsWhole
  <2> QED BY <2>1, <2>2, AnswersInv
<1>2. CASE HasLambda /\ defined
  <2>1. Answers(WithIneqs(Analyzed), KKTData(WithIneqs(Analyzed)))
    BY <1>2 DEF CheckKKT
  <2>2. Sound => WithIneqs(Analyzed) \in Caches /\ RightAnswer(KKTData(WithIneqs(Analyzed)))
    <3>1. KKTData(WithIneqs(Analyzed)).check = "KKT"
      BY DEF KKTData
    <3> QED BY <1>2, <3>1, ChecksAnswer DEF RightAnswer
  <2> QED BY <2>1, <2>2, AnswersInv
<1>3. CASE HasLambda /\ ~defined
  <2>1. Undefined /\ ~Sound
    BY <1>3, ChecksAnswer DEF CheckKKT
  <2> QED BY <2>1, UndefinedInv
<1> QED BY <1>1, <1>2, <1>3

LEMMA NextAnalyzerInv == AnalyzerInv /\ [AnalyzerNext]_analyzerVars => AnalyzerInv'
<1> SUFFICES ASSUME AnalyzerInv, [AnalyzerNext]_analyzerVars PROVE AnalyzerInv'
  OBVIOUS
<1>1. CASE CheckLICQ
  BY <1>1, CheckLICQInv
<1>2. CASE CheckNullGradient
  BY <1>2, CheckNullGradientInv
<1>3. CASE CheckKKT
  BY <1>3, CheckKKTInv
<1>4. ASSUME NEW k \in 1..MaxConstraints, ConstraintThrows(k) PROVE AnalyzerInv'
  <2>1. Throws(Appended(k - 1)) /\ failures' = failures + 1 /\ failures \in Nat
    BY <1>4 DEF ConstraintThrows, AnalyzerInv
  <2>2. failures' \in Nat /\ ~Sound'
    BY <2>1 DEF Sound
  <2> QED BY <2>1, <2>2, ThrowsInv
<1>5. CASE JacobianThrows
  <2>1. PICK c : Throws(c) /\ failures' = failures + 1 /\ failures \in Nat
    BY <1>5 DEF JacobianThrows, AnalyzerInv
  <2>2. failures' \in Nat /\ ~Sound'
    BY <2>1 DEF Sound
  <2> QED BY <2>1, <2>2, ThrowsInv
<1>6. CASE KKTThrows
  <2>1. Throws(WithIneqs(Analyzed)) /\ failures' = failures /\ failures \in Nat
    BY <1>6 DEF KKTThrows, AnalyzerInv
  <2>2. Sound' => Sound
    BY <2>1 DEF Sound, Throws, analyzed, vars, vectors
  <2>3. Sound => WithIneqs(Analyzed) \in Caches
    BY ChecksAnswer
  <2> QED BY <2>1, <2>2, <2>3, ThrowsInv
<1>7. CASE UNCHANGED analyzerVars
  <2>1. UNCHANGED analyzed /\ UNCHANGED <<cache, answer, ending, failures>>
    BY <1>7 DEF analyzerVars
  <2>2. WellPosed' /\ failures' \in Nat
    BY <2>1, WellPosedStays DEF AnalyzerInv
  <2>3. Sound' => Sound
    BY <2>1 DEF Sound, analyzed, vars, vectors
  <2>4. CacheIsWhole'
    BY <2>1, <2>3, CachesStay DEF CacheIsWhole, AnalyzerInv
  <2>5. AnswerIsRight'
    BY <2>1, <2>3, RightAnswersStay DEF AnswerIsRight, AnalyzerInv
  <2> QED BY <2>2, <2>4, <2>5 DEF AnalyzerInv
<1> QED BY <1>1, <1>2, <1>3, <1>4, <1>5, <1>6, <1>7 DEF AnalyzerNext

(***************************************************************************)
(* Theorems.                                                               *)
(***************************************************************************)

\* The members hold nothing or the whole active set, and every answer is
\* right, as long as no computation threw.
THEOREM AnalyzerInvariance == AnalyzerSpec => []AnalyzerInv
<1> QED BY InitAnalyzerInv, NextAnalyzerInv, PTL DEF AnalyzerSpec

\* No check of differentiable constraints reads a row that is not there or
\* multiplies matrices that do not fit.
THEOREM DefinedChecks == AnalyzerSpec => []ChecksAreDefined
<1>1. AnalyzerInv => ChecksAreDefined
  BY DEF AnalyzerInv, AnswerIsRight, ChecksAreDefined
<1> QED BY <1>1, AnalyzerInvariance, PTL

\* The rank is that of the gradients of exactly the active set, also when
\* another check computed it, and LICQ is then their linear independence unless
\* they are more than the arguments.
THEOREM RightRank == AnalyzerSpec => []LICQIsOfTheActiveSet
<1>1. AnalyzerInv => LICQIsOfTheActiveSet
  BY DEF AnalyzerInv, AnswerIsRight, RightAnswer, RightLICQ, LICQIsOfTheActiveSet
<1> QED BY <1>1, AnalyzerInvariance, PTL

\* Without a bound that is reached, the null gradients found are those of the
\* active outputs, under their own names.
THEOREM RightNullGradients == AnalyzerSpec => []NullGradientsAreFound
<1>1. AnalyzerInv => NullGradientsAreFound
  BY DEF AnalyzerInv, AnswerIsRight, RightAnswer, RightNulls, NullGradientsAreFound
<1> QED BY <1>1, AnalyzerInvariance, PTL

\* What KKT accepts is feasible and stationary, each output with its own
\* multiplier, and every KKT point is accepted.
THEOREM RightKKTPoints == AnalyzerSpec => []KKTPointsAreFeasibleAndStationary
<1>1. AnalyzerInv => KKTPointsAreFeasibleAndStationary
  BY DEF AnalyzerInv, AnswerIsRight, RightAnswer, RightKKT, KKTPointsAreFeasibleAndStationary
<1> QED BY <1>1, AnalyzerInvariance, PTL

=============================================================================
