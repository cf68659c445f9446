------------------------ MODULE ProblemAndPoolProofs ------------------------
(***************************************************************************)
(* Theorems about Problem, for any constraint functions, intervals and     *)
(* factors: its three vectors stay side by side, and the loops over them   *)
(* put each output's gradient and violation where they belong.             *)
(***************************************************************************)
EXTENDS Problem, FunctionPool, LRUCacheDataProofs, SequenceTheorems,
        FiniteSetTheorems, TLAPS

(***************************************************************************)
(* The inductive invariant.                                                *)
(***************************************************************************)

\* What was given to the problem is what its vectors hold.
Entries == [constraint : Constraints, bounds : Seq(Intervals), scaling : Seq(Scales)]
HistoryAgrees ==
  /\ given \in Seq(Entries) /\ Len(given) = Len(constraints)
  /\ \A k \in 1..Len(given) :
       given[k] = [constraint |-> constraints[k], bounds |-> boundsVect[k],
                   scaling |-> scalingVect[k]]

IInv == TypeOK /\ VectorsAgree /\ HistoryAgrees

\* What a call that fails, or sets something else, leaves of the vectors.
LEMMA VectorsStay ==
  ASSUME VectorsAgree, HistoryAgrees, UNCHANGED <<vectors, given>>
  PROVE  VectorsAgree' /\ HistoryAgrees'
BY DEF VectorsAgree, HistoryAgrees, vectors

\* A new problem has no constraint: its three vectors are empty.
LEMMA InitIInv == Init => IInv
<1> SUFFICES ASSUME Init PROVE IInv
  OBVIOUS
<1>1. /\ constraints \in Seq(Constraints) /\ boundsVect \in Seq(Seq(Intervals))
      /\ scalingVect \in Seq(Seq(Scales))
  BY DEF Init
<1>2. TypeOK
  BY <1>1 DEF Init, TypeOK, InitialScaling
<1>3. VectorsAgree
  <2>1. Len(<<>>) = 0 /\ DOMAIN <<>> = {}
    OBVIOUS
  <2> QED BY <2>1 DEF Init, VectorsAgree
<1>4. HistoryAgrees
  <2>1. Len(<<>>) = 0 /\ <<>> \in Seq(Entries)
    OBVIOUS
  <2> QED BY <2>1 DEF Init, HistoryAgrees
<1> QED BY <1>2, <1>3, <1>4 DEF IInv

\* A call that throws changes none of the vectors.
LEMMA FailsIInv ==
  ASSUME IInv, NEW o \in {"exception", "undefined"}, Fails(o)
  PROVE  IInv'
<1>1. TypeOK'
  BY DEF Fails, IInv, TypeOK, vectors, arguments
<1>2. UNCHANGED <<vectors, given>>
  BY DEF Fails
<1> QED BY <1>1, <1>2, VectorsStay DEF IInv

\* A constraint of the right sizes is pushed with its bounds and its factors.
LEMMA PushIInv ==
  ASSUME IInv, NEW c \in Constraints, NEW b \in Seq(Intervals), NEW s \in Seq(Scales),
         InOf[c] = InputSize, OutOf[c] = Len(b), OutOf[c] = Len(s), Push(c, b, s)
  PROVE  IInv'
<1>1. /\ constraints' = Append(constraints, c)
      /\ boundsVect' = Append(boundsVect, b)
      /\ scalingVect' = Append(scalingVect, s)
      /\ given' = Append(given, [constraint |-> c, bounds |-> b, scaling |-> s])
      /\ outcome' = "ok" /\ UNCHANGED <<arguments, startingPoint>>
  BY DEF Push
<1>2. /\ constraints \in Seq(Constraints) /\ boundsVect \in Seq(Seq(Intervals))
      /\ scalingVect \in Seq(Seq(Scales))
  BY DEF IInv, TypeOK
<1>3. TypeOK'
  <2>1. /\ constraints' \in Seq(Constraints) /\ boundsVect' \in Seq(Seq(Intervals))
        /\ scalingVect' \in Seq(Seq(Scales))
    BY <1>1, <1>2, AppendProperties
  <2> QED BY <1>1, <2>1 DEF IInv, TypeOK, arguments
<1> DEFINE n == Len(constraints)
<1>4. n \in Nat /\ Len(boundsVect) = n /\ Len(scalingVect) = n
  BY <1>2, LenProperties DEF IInv, VectorsAgree
<1>5. Len(constraints') = n + 1 /\ Len(boundsVect') = n + 1 /\ Len(scalingVect') = n + 1
  BY <1>1, <1>2, <1>4, AppendProperties
<1>6. DOMAIN constraints' = 1..n + 1 /\ DOMAIN constraints = 1..n
  BY <1>2, <1>3, <1>5, LenProperties DEF TypeOK
<1>7. ASSUME NEW k \in DOMAIN constraints'
      PROVE  /\ InOf[constraints'[k]] = InputSize
             /\ Len(boundsVect'[k]) = OutOf[constraints'[k]]
             /\ Len(scalingVect'[k]) = OutOf[constraints'[k]]
  <2>1. CASE k \in 1..n
    <3>1. /\ constraints'[k] = constraints[k] /\ boundsVect'[k] = boundsVect[k]
          /\ scalingVect'[k] = scalingVect[k]
      BY <1>1, <1>2, <1>4, <2>1, AppendProperties
    <3> QED BY <1>6, <2>1, <3>1 DEF IInv, VectorsAgree
  <2>2. CASE k = n + 1
    <3>1. constraints'[k] = c /\ boundsVect'[k] = b /\ scalingVect'[k] = s
      BY <1>1, <1>2, <1>4, <2>2, AppendProperties
    <3> QED BY <3>1
  <2> QED BY <1>4, <1>6, <2>1, <2>2
<1>8. VectorsAgree'
  BY <1>5, <1>7 DEF VectorsAgree
<1>9. HistoryAgrees'
  <2> DEFINE entry == [constraint |-> c, bounds |-> b, scaling |-> s]
  <2>1. entry \in Entries /\ given \in Seq(Entries) /\ Len(given) = n
    BY DEF Entries, IInv, HistoryAgrees
  <2>2. given' = Append(given, entry)
    BY <1>1
  <2> HIDE DEF n, entry
  <2>3. /\ given' \in Seq(Entries) /\ Len(given') = n + 1
        /\ \A k \in 1..n : given'[k] = given[k]
        /\ given'[n + 1] = entry
    BY <2>1, <2>2, AppendProperties
  <2>4. ASSUME NEW k \in 1..n + 1
        PROVE  given'[k] = [constraint |-> constraints'[k], bounds |-> boundsVect'[k],
                            scaling |-> scalingVect'[k]]
    <3>1. CASE k \in 1..n
      <4>1. /\ constraints'[k] = constraints[k] /\ boundsVect'[k] = boundsVect[k]
            /\ scalingVect'[k] = scalingVect[k]
        BY <1>1, <1>2, <1>4, <3>1, AppendProperties DEF n
      <4>2. given[k] = [constraint |-> constraints[k], bounds |-> boundsVect[k],
                        scaling |-> scalingVect[k]]
        BY <2>1, <3>1 DEF IInv, HistoryAgrees
      <4> QED BY <2>3, <3>1, <4>1, <4>2
    <3>2. CASE k = n + 1
      <4>1. constraints'[k] = c /\ boundsVect'[k] = b /\ scalingVect'[k] = s
        BY <1>1, <1>2, <1>4, <3>2, AppendProperties DEF n
      <4> QED BY <2>3, <3>2, <4>1 DEF entry
    <3> QED BY <1>4, <3>1, <3>2
  <2> QED BY <1>5, <2>3, <2>4 DEF HistoryAgrees
<1> QED BY <1>3, <1>8, <1>9 DEF IInv

\* The overload for one output pushes one interval and one factor.
LEMMA AddScalarIInv ==
  ASSUME IInv, NEW c \in Constraints \cup {Null}, NEW b \in Intervals, NEW s \in Scales,
         AddScalar(c, b, s)
  PROVE  IInv'
<1>1. CASE c = Null \/ InOf[c] # InputSize \/ OutOf[c] # 1
  BY <1>1, FailsIInv DEF AddScalar
<1>2. CASE c # Null /\ InOf[c] = InputSize /\ OutOf[c] = 1
  <2>1. Push(c, <<b>>, <<s>>) /\ c \in Constraints
    BY <1>2 DEF AddScalar
  <2>2. /\ <<b>> \in Seq(Intervals) /\ Len(<<b>>) = 1
        /\ <<s>> \in Seq(Scales) /\ Len(<<s>>) = 1
    OBVIOUS
  <2> QED BY <1>2, <2>1, <2>2, PushIInv
<1> QED BY <1>1, <1>2

\* The overload for vectors pushes only what its three checks of sizes accept.
LEMMA AddVectorIInv ==
  ASSUME IInv, NEW c \in Constraints \cup {Null}, NEW b \in BoundSeqs, NEW s \in ScaleSeqs,
         AddVector(c, b, s)
  PROVE  IInv'
<1>1. CASE c = Null \/ ~Accepts(c, b, s)
  BY <1>1, FailsIInv DEF AddVector
<1>2. CASE c # Null /\ Accepts(c, b, s)
  <2>1. Push(c, b, s) /\ c \in Constraints
    BY <1>2 DEF AddVector
  <2>2. b \in Seq(Intervals) /\ s \in Seq(Scales)
    <3>1. PICK n \in 1..2 : b \in [1..n -> Intervals]
      BY DEF BoundSeqs
    <3>2. PICK k \in 1..2 : s \in [1..k -> Scales]
      BY DEF ScaleSeqs
    <3> QED BY <3>1, <3>2, SeqDef
  <2> QED BY <1>2, <2>1, <2>2, PushIInv DEF Accepts
<1> QED BY <1>1, <1>2

\* Clearing the constraints clears the three vectors together.
LEMMA ClearIInv ==
  ASSUME IInv, ClearConstraints
  PROVE  IInv'
<1>1. /\ constraints' = <<>> /\ boundsVect' = <<>> /\ scalingVect' = <<>>
      /\ given' = <<>> /\ outcome' = "ok" /\ UNCHANGED <<arguments, startingPoint>>
  BY DEF ClearConstraints
<1>2. TypeOK'
  <2>1. /\ constraints' \in Seq(Constraints) /\ boundsVect' \in Seq(Seq(Intervals))
        /\ scalingVect' \in Seq(Seq(Scales))
    BY <1>1
  <2> QED BY <1>1, <2>1 DEF IInv, TypeOK, arguments
<1>3. VectorsAgree'
  <2>1. Len(<<>>) = 0 /\ DOMAIN <<>> = {}
    OBVIOUS
  <2> QED BY <1>1, <2>1 DEF VectorsAgree
<1>4. HistoryAgrees'
  <2>1. Len(<<>>) = 0 /\ <<>> \in Seq(Entries)
    OBVIOUS
  <2> QED BY <1>1, <2>1 DEF HistoryAgrees
<1> QED BY <1>2, <1>3, <1>4 DEF IInv

\* Bounds and factors of arguments and the starting point are kept apart.
LEMMA ArgumentsIInv ==
  ASSUME IInv,
         \/ \E j \in 1..InputSize : \/ \E b \in Intervals : BoundArgument(j, b)
                                    \/ \E s \in Scales : ScaleArgument(j, s)
         \/ \E n \in Sizes : SetStartingPoint(n)
  PROVE  IInv'
<1>1. ASSUME NEW j \in 1..InputSize, NEW b \in Intervals, BoundArgument(j, b)
      PROVE  IInv'
  <2>1. UNCHANGED <<vectors, given>>
    BY <1>1 DEF BoundArgument
  <2>2. TypeOK'
    BY <1>1 DEF BoundArgument, IInv, TypeOK, vectors
  <2> QED BY <2>1, <2>2, VectorsStay DEF IInv
<1>2. ASSUME NEW j \in 1..InputSize, NEW s \in Scales, ScaleArgument(j, s)
      PROVE  IInv'
  <2>1. UNCHANGED <<vectors, given>>
    BY <1>2 DEF ScaleArgument
  <2>2. TypeOK'
    BY <1>2 DEF ScaleArgument, IInv, TypeOK, vectors
  <2> QED BY <2>1, <2>2, VectorsStay DEF IInv
<1>3. ASSUME NEW n \in Sizes, SetStartingPoint(n)
      PROVE  IInv'
  <2>1. CASE startingPoint \notin {0, InputSize}
    BY <1>3, <2>1, FailsIInv DEF SetStartingPoint
  <2>2. CASE startingPoint \in {0, InputSize}
    <3>1. UNCHANGED <<vectors, given>>
      BY <1>3, <2>2 DEF SetStartingPoint
    <3>2. TypeOK'
      BY <1>3, <2>2 DEF SetStartingPoint, IInv, TypeOK, vectors, arguments
    <3> QED BY <3>1, <3>2, VectorsStay DEF IInv
  <2> QED BY <2>1, <2>2
<1> QED BY <1>1, <1>2, <1>3

\* The invariant is inductive.
LEMMA NextIInv == IInv /\ [Next]_vars => IInv'
<1> SUFFICES ASSUME IInv, [Next]_vars PROVE IInv'
  OBVIOUS
<1>1. ASSUME NEW c \in Constraints \cup {Null}, NEW b \in Intervals, NEW s \in Scales,
             AddScalar(c, b, s)
      PROVE  IInv'
  BY <1>1, AddScalarIInv
<1>2. ASSUME NEW c \in Constraints \cup {Null}, NEW b \in BoundSeqs, NEW s \in ScaleSeqs,
             AddVector(c, b, s)
      PROVE  IInv'
  BY <1>2, AddVectorIInv
<1>3. CASE ClearConstraints
  BY <1>3, ClearIInv
<1>4. CASE UNCHANGED vars
  <2>1. TypeOK'
    BY <1>4 DEF vars, vectors, arguments, IInv, TypeOK
  <2> QED BY <1>4, <2>1, VectorsStay DEF vars, IInv
<1> QED BY <1>1, <1>2, <1>3, <1>4, ArgumentsIInv DEF Next


(***************************************************************************)
(* Induction over data.  The loops over the constraints are folds, defined *)
(* by recursion; what they compute is shown through least counterexamples. *)
(***************************************************************************)

\* Every non-empty set of naturals has a least element: the ordering of
\* finite sets by strict inclusion is well founded, and i < j exactly if
\* 1..i is strictly included in 1..j.
LEMMA LeastNatural ==
  ASSUME NEW I \in SUBSET Nat, I # {}
  PROVE  \E m \in I : \A i \in I : m <= i
<1> DEFINE Segments == {1..i : i \in I}
<1>1. Segments \subseteq FiniteSubsetsOf(Nat) /\ Segments # {}
  <2>1. \A i \in I : 1..i \subseteq Nat /\ IsFiniteSet(1..i)
    BY FS_Interval
  <2> QED BY <2>1 DEF FiniteSubsetsOf
<1>2. PICK L \in Segments :
        \A K \in Segments : ~(<<K, L>> \in StrictSubsetOrdering(Nat))
  <2> HIDE DEF Segments
  <2> QED BY <1>1, FS_StrictSubsetOrderingWellFounded, WFMin
<1>3. PICK m \in I : L = 1..m
  BY <1>2
<1>4. ASSUME NEW i \in I, i < m
      PROVE  FALSE
  <2>1. 1..i \in SUBSET Nat /\ 1..m \in SUBSET Nat /\ 1..i \subseteq 1..m
    BY <1>4
  <2>2. m \in 1..m /\ m \notin 1..i
    BY <1>4
  <2>3. <<1..i, L>> \in StrictSubsetOrdering(Nat)
    BY <1>3, <2>1, <2>2 DEF StrictSubsetOrdering
  <2> QED BY <1>2, <2>3
<1> QED BY <1>3, <1>4

\* A set that has 0, and each k up to n whose predecessor it has, has 0..n.
LEMMA Climb ==
  ASSUME NEW n \in Nat, NEW S, 0 \in S, \A k \in 1..n : k - 1 \in S => k \in S
  PROVE  \A k \in 0..n : k \in S
<1> DEFINE I == {k \in 0..n : k \notin S}
<1> SUFFICES ASSUME I # {} PROVE FALSE
  OBVIOUS
<1>1. PICK m \in I : \A i \in I : m <= i
  <2>1. I \in SUBSET Nat
    OBVIOUS
  <2> HIDE DEF I
  <2> QED BY <2>1, LeastNatural
<1>2. m \in 1..n /\ m \notin S
  BY <1>1
<1>3. m - 1 \notin I /\ m - 1 \in 0..n
  BY <1>1, <1>2
<1> QED BY <1>2, <1>3

\* The largest of the sets that hold m and nothing larger.
LEMMA LargestIsLast ==
  ASSUME NEW m \in Nat, NEW s \in SUBSET (1..m), m \in s
  PROVE  Max(s) = m
<1>1. \A y \in s : m >= y
  OBVIOUS
<1>2. Max(s) \in s /\ \A y \in s : Max(s) >= y
  BY <1>1 DEF Max
<1>3. Max(s) \in 1..m /\ Max(s) >= m
  BY <1>2
<1> QED BY <1>3

\* Every non-empty set of the first n indices has a largest.
LEMMA LargestIsOne ==
  ASSUME NEW n \in Nat, NEW s \in SUBSET (1..n), s # {}
  PROVE  Max(s) \in s
<1> DEFINE I == {n - i : i \in s}
<1>1. PICK l \in I : \A i \in I : l <= i
  <2>1. PICK i \in s : TRUE
    OBVIOUS
  <2>2. n - i \in I
    BY <2>1
  <2>3. I \in SUBSET Nat
    OBVIOUS
  <2> HIDE DEF I
  <2> QED BY <2>2, <2>3, LeastNatural
<1>2. PICK m \in s : l = n - m
  BY <1>1
<1>3. \A y \in s : m >= y
  BY <1>1, <1>2
<1> QED BY <1>3 DEF Max

\* A fold takes the largest index off a set of indices until none is left:
\* the first k of them are k after the first k - 1.
LEMMA FirstOnes ==
  ASSUME NEW n \in Nat, NEW k \in 1..n
  PROVE  /\ 1..k \in SUBSET (1..n) /\ 1..k # {}
         /\ Max(1..k) = k /\ 1..k \ {k} = 1..k - 1
<1>1. k \in 1..k /\ 1..k \in SUBSET (1..n)
  OBVIOUS
<1>2. Max(1..k) = k
  BY <1>1, LargestIsLast
<1> QED BY <1>1, <1>2

\* How a fold over sets of the first m - 1 indices extends to one over sets of
\* the first m, those that have m given by v.
LEMMA OneIndexMore ==
  ASSUME NEW m \in Nat \ {0}, NEW h, NEW v, NEW g,
         \A t \in SUBSET (1..m) : g[t] = IF m \in t THEN v[t] ELSE h[t],
         NEW s \in SUBSET (1..m)
  PROVE  /\ m \in s => /\ Max(s) = m /\ g[s] = v[s] /\ s # {}
                       /\ g[s \ {Max(s)}] = h[s \ {m}]
         /\ m \notin s => /\ s \in SUBSET (1..m - 1) /\ g[s] = h[s]
                          /\ g[s \ {Max(s)}] = h[s \ {Max(s)}]
<1>1. CASE m \in s
  <2>1. Max(s) = m
    BY <1>1, LargestIsLast
  <2>2. s \ {Max(s)} \in SUBSET (1..m) /\ m \notin s \ {Max(s)}
    BY <2>1
  <2> QED BY <1>1, <2>1, <2>2
<1>2. CASE m \notin s
  <2>1. s \in SUBSET (1..m - 1)
    BY <1>2
  <2>2. s \ {Max(s)} \in SUBSET (1..m) /\ m \notin s \ {Max(s)}
    BY <1>2
  <2> QED BY <1>2, <2>1, <2>2
<1> QED BY <1>1, <1>2

(***************************************************************************)
(* Rows laid end to end.                                                   *)
(***************************************************************************)

\* Where the rows of the k-th of n constraints end.
Ends(d, n) ==
  /\ d \in [0..n -> Nat] /\ d[0] = 0
  /\ \A k \in 1..n : d[k - 1] <= d[k]

\* What comes later ends later.
LEMMA EndsIncrease ==
  ASSUME NEW n \in Nat, NEW d, Ends(d, n), NEW j \in 0..n, NEW k \in 0..n, j <= k
  PROVE  d[j] <= d[k]
<1> DEFINE S == {i \in 0..n : j <= i => d[j] <= d[i]}
<1>1. /\ d \in [0..n -> Nat]
      /\ \A i \in 1..n : d[i - 1] <= d[i]
  BY DEF Ends
<1>2. 0 \in S
  BY <1>1
<1>3. ASSUME NEW i \in 1..n, i - 1 \in S PROVE i \in S
  <2>1. CASE j = i
    BY <1>1, <2>1
  <2>2. CASE j # i
    <3>1. j <= i => j <= i - 1
      BY <2>2
    <3>2. i \in 0..n /\ d[j] \in Nat /\ d[i] \in Nat /\ d[i - 1] \in Nat
      BY <1>1
    <3> QED BY <1>1, <1>3, <3>1, <3>2
  <2> QED BY <2>1, <2>2
<1> HIDE DEF S
<1>4. k \in S
  BY <1>2, <1>3, Climb
<1> QED BY <1>4 DEF S

\* A row of an earlier constraint, and one of a later, are no row of this one.
LEMMA RowsApart ==
  ASSUME NEW n \in Nat, NEW d, Ends(d, n), NEW j \in 1..n, NEW k \in 1..n,
         NEW i \in 1..d[j] - d[j - 1]
  PROVE  /\ d[j - 1] + i \in 1..d[n]
         /\ d[j - 1] + i \in d[k - 1] + 1..d[k] => j = k
<1>1. /\ j - 1 \in 0..n /\ j \in 0..n /\ k - 1 \in 0..n /\ k \in 0..n /\ n \in 0..n
      /\ d \in [0..n -> Nat]
  BY DEF Ends
<1>2. d[j - 1] \in Nat /\ d[j] \in Nat /\ d[k - 1] \in Nat /\ d[k] \in Nat /\ d[n] \in Nat
  BY <1>1
<1>3. d[j] <= d[n]
  BY <1>1, EndsIncrease
<1>4. j < k => d[j] <= d[k - 1]
  <2>1. j < k => j <= k - 1
    OBVIOUS
  <2> QED BY <1>1, <2>1, EndsIncrease
<1>5. k < j => d[k] <= d[j - 1]
  <2>1. k < j => k <= j - 1
    OBVIOUS
  <2> QED BY <1>1, <2>1, EndsIncrease
<1> DEFINE a == d[j - 1]
           b == d[j]
           e == d[k - 1]
           f == d[k]
           m == d[n]
<1>6. a \in Nat /\ b \in Nat /\ e \in Nat /\ f \in Nat /\ m \in Nat /\ b <= m
      /\ (j < k => b <= e) /\ (k < j => f <= a) /\ i \in 1..b - a
  BY <1>2, <1>3, <1>4, <1>5
<1> HIDE DEF a, b, e, f, m
<1>7. a + i \in 1..m /\ (a + i \in e + 1..f => j = k)
  BY <1>6
<1> QED BY <1>7 DEF a, b, e, f, m

\* Every row is of some constraint.
LEMMA EveryRow ==
  ASSUME NEW n \in Nat, NEW d, Ends(d, n), NEW r \in 1..d[n]
  PROVE  \E k \in 1..n : \E i \in 1..d[k] - d[k - 1] : r = d[k - 1] + i
<1>1. d \in [0..n -> Nat] /\ d[0] = 0 /\ n \in 0..n
  BY DEF Ends
<1> DEFINE I == {k \in 0..n : r <= d[k]}
<1>2. PICK k \in I : \A i \in I : k <= i
  <2>1. I \in SUBSET Nat /\ n \in I
    BY <1>1
  <2> HIDE DEF I
  <2> QED BY <2>1, LeastNatural
<1>3. k \in 1..n
  BY <1>1, <1>2
<1>4. k - 1 \in 0..n /\ k - 1 \notin I
  BY <1>2, <1>3
<1>5. d[k - 1] \in Nat /\ d[k] \in Nat /\ d[k - 1] < r /\ r <= d[k]
  BY <1>1, <1>2, <1>4
<1> DEFINE i == r - d[k - 1]
<1>6. i \in 1..d[k] - d[k - 1] /\ r = d[k - 1] + i
  BY <1>5
<1> QED BY <1>3, <1>6
\* What FlattenSeq asks of its function, for the first m sequences.
Flattens(g, ss, m) ==
  g = [i \in 1..m |-> IF i = 1 THEN ss[i] ELSE g[i - 1] \o ss[i]]

\* There is one: a function for the first m sequences extends one for m - 1.
LEMMA FlattensExists ==
  ASSUME NEW ss, NEW n \in Nat
  PROVE  \A m \in 1..n : \E g : Flattens(g, ss, m)
<1> DEFINE I == {m \in 1..n : ~\E g : Flattens(g, ss, m)}
<1> SUFFICES ASSUME I # {} PROVE FALSE
  OBVIOUS
<1>1. PICK m \in I : \A i \in I : m <= i
  <2>1. I \in SUBSET Nat
    OBVIOUS
  <2> HIDE DEF I
  <2> QED BY <2>1, LeastNatural
<1>2. m \in 1..n /\ ~\E g : Flattens(g, ss, m)
  BY <1>1
<1>3. CASE m = 1
  <2> DEFINE g == [i \in 1..1 |-> ss[i]]
  <2>1. Flattens(g, ss, 1)
    BY DEF Flattens
  <2> QED BY <1>2, <1>3, <2>1
<1>4. CASE m # 1
  <2>1. m - 1 \in 1..n /\ m - 1 \notin I
    BY <1>1, <1>2, <1>4
  <2>2. PICK h : Flattens(h, ss, m - 1)
    BY <2>1
  <2> DEFINE g == [i \in 1..m |-> IF i = m THEN h[i - 1] \o ss[i] ELSE h[i]]
  <2>3. ASSUME NEW i \in 1..m
        PROVE  g[i] = IF i = 1 THEN ss[i] ELSE g[i - 1] \o ss[i]
    <3>1. CASE i = m
      <4>1. m - 1 \in 1..m /\ m - 1 # m /\ i # 1
        BY <1>2, <1>4, <3>1
      <4>2. g[i] = h[i - 1] \o ss[i] /\ g[m - 1] = h[m - 1]
        BY <3>1, <4>1
      <4> QED BY <3>1, <4>1, <4>2
    <3>2. CASE i # m
      <4>1. i \in 1..m - 1
        BY <1>2, <3>2
      <4>2. h[i] = IF i = 1 THEN ss[i] ELSE h[i - 1] \o ss[i]
        BY <2>2, <4>1 DEF Flattens
      <4>3. g[i] = h[i] /\ (i # 1 => g[i - 1] = h[i - 1])
        BY <1>2, <4>1
      <4> QED BY <4>2, <4>3
    <3> QED BY <3>1, <3>2
  <2>4. Flattens(g, ss, m)
    <3>1. g = [i \in 1..m |-> g[i]]
      OBVIOUS
    <3> HIDE DEF g
    <3> QED BY <2>3, <3>1 DEF Flattens
  <2> HIDE DEF g
  <2> QED BY <1>2, <2>4
<1> QED BY <1>3, <1>4

\* What of the first m sequences lies where d says.
Joined(t, ss, d, m) ==
  \A k \in 1..m : \A i \in 1..d[k] - d[k - 1] : t[d[k - 1] + i] = ss[k][i]

\* One more sequence is joined at the end.
LEMMA JoinOne ==
  ASSUME NEW S, NEW n \in Nat, NEW d, Ends(d, n), NEW ss \in [1..n -> Seq(S)],
         NEW m \in 1..n, Len(ss[m]) = d[m] - d[m - 1],
         NEW t \in Seq(S), Len(t) = d[m - 1], Joined(t, ss, d, m - 1)
  PROVE  /\ t \o ss[m] \in Seq(S) /\ Len(t \o ss[m]) = d[m]
         /\ Joined(t \o ss[m], ss, d, m)
<1> DEFINE c == t \o ss[m]
<1>1. d \in [0..n -> Nat] /\ m - 1 \in 0..n /\ m \in 0..n /\ ss[m] \in Seq(S)
  BY DEF Ends
<1> DEFINE a == d[m - 1]
           b == d[m]
<1>2. a \in Nat /\ b \in Nat
  BY <1>1
<1>3. /\ c \in Seq(S) /\ Len(c) = Len(t) + Len(ss[m])
      /\ \A i \in 1..Len(t) + Len(ss[m]) :
           c[i] = IF i <= Len(t) THEN t[i] ELSE ss[m][i - Len(t)]
  BY <1>1, ConcatProperties
<1>4. Len(t) + Len(ss[m]) = b
  <2> HIDE DEF a, b
  <2>1. Len(t) = a /\ Len(ss[m]) = b - a
    BY DEF a, b
  <2> QED BY <1>2, <2>1
<1>5. \A i \in 1..b : c[i] = IF i <= a THEN t[i] ELSE ss[m][i - a]
  <2> DEFINE l == Len(t)
             e == Len(t) + Len(ss[m])
  <2>1. /\ l = a /\ e = b
        /\ \A i \in 1..e : c[i] = IF i <= l THEN t[i] ELSE ss[m][i - l]
    BY <1>3, <1>4
  <2> HIDE DEF a, b, c, l, e
  <2> QED BY <2>1
<1>6. ASSUME NEW k \in 1..m, NEW i \in 1..d[k] - d[k - 1]
      PROVE  c[d[k - 1] + i] = ss[k][i]
  <2>1. k - 1 \in 0..n /\ k \in 0..n /\ d[k - 1] \in Nat /\ d[k] \in Nat
    <3>1. k - 1 \in 0..n /\ k \in 0..n
      OBVIOUS
    <3> QED BY <1>1, <3>1
  <2>2. CASE k = m
    <3>1. i \in 1..b - a
      BY <1>6, <2>2
    <3> HIDE DEF a, b
    <3>2. a + i \in 1..b /\ ~(a + i <= a) /\ a + i - a = i
      BY <1>2, <3>1
    <3>3. c[a + i] = ss[m][i]
      <4> DEFINE r == a + i
      <4>1. r \in 1..b /\ ~(r <= a) /\ r - a = i
        BY <1>2, <3>1, <3>2
      <4>2. c[r] = ss[m][r - a]
        <5> HIDE DEF c, r
        <5> QED BY <1>5, <4>1
      <4> QED BY <4>1, <4>2
    <3> QED BY <2>2, <3>3 DEF a
  <2>3. CASE k # m
    <3>1. k \in 1..m - 1 /\ k <= m - 1
      BY <2>3
    <3>2. d[k] <= a
      BY <1>1, <2>1, <3>1, EndsIncrease
    <3>3. t[d[k - 1] + i] = ss[k][i]
      BY <1>6, <3>1 DEF Joined
    <3> DEFINE p == d[k - 1]
               q == d[k]
    <3>4. p \in Nat /\ q \in Nat /\ i \in 1..q - p /\ q <= a
      BY <1>6, <2>1, <3>2
    <3>5. a <= b
      BY DEF Ends
    <3> HIDE DEF a, b, p, q, c
    <3>6. p + i \in 1..b /\ p + i <= a
      BY <1>2, <3>4, <3>5
    <3>7. c[p + i] = t[p + i]
      BY <1>5, <3>6
    <3> QED BY <3>3, <3>7 DEF p
  <2> QED BY <2>2, <2>3
<1> QED BY <1>3, <1>4, <1>6 DEF Joined

\* FlattenSeq lays its sequences end to end.
LEMMA FlattenedRows ==
  ASSUME NEW S, NEW n \in Nat, NEW d, Ends(d, n), NEW ss \in [1..n -> Seq(S)],
         \A k \in 1..n : Len(ss[k]) = d[k] - d[k - 1]
  PROVE  /\ FlattenSeq(ss) \in Seq(S) /\ Len(FlattenSeq(ss)) = d[n]
         /\ Joined(FlattenSeq(ss), ss, d, n)
<1>1. Len(ss) = n /\ d[0] = 0 /\ ss \in Seq(Seq(S))
  <2>1. ss \in Seq(Seq(S))
    BY SeqDef
  <2>2. DOMAIN ss = 1..n
    OBVIOUS
  <2> QED BY <2>1, <2>2, LenProperties DEF Ends
<1>2. CASE n = 0
  <2>1. ss = <<>>
    BY <1>1, <1>2, EmptySeq
  <2>2. FlattenSeq(ss) = <<>>
    BY <1>1, <1>2, <2>1 DEF FlattenSeq
  <2>3. Joined(FlattenSeq(ss), ss, d, n)
    BY <1>2 DEF Joined
  <2> QED BY <1>1, <1>2, <2>2, <2>3
<1>3. CASE n # 0
  <2> DEFINE g == CHOOSE g : Flattens(g, ss, n)
  <2>1. FlattenSeq(ss) = g[n]
    BY <1>1, <1>3 DEF FlattenSeq, Flattens
  <2>2. Flattens(g, ss, n)
    <3>1. n \in 1..n
      BY <1>3
    <3> QED BY <3>1, FlattensExists
  <2> HIDE DEF g
  <2> DEFINE Right(m) == /\ g[m] \in Seq(S) /\ Len(g[m]) = d[m]
                         /\ Joined(g[m], ss, d, m)
             T == {m \in 0..n : m # 0 => Right(m)}
  <2>3. 0 \in T
    OBVIOUS
  <2>4. ASSUME NEW m \in 1..n, m - 1 \in T PROVE m \in T
    <3>1. g[m] = IF m = 1 THEN ss[m] ELSE g[m - 1] \o ss[m]
      BY <2>2 DEF Flattens
    <3>2. ss[m] \in Seq(S) /\ Len(ss[m]) = d[m] - d[m - 1]
      OBVIOUS
    <3>3. CASE m = 1
      <4>1. g[m] = ss[m]
        BY <3>1, <3>3
      <4>2. /\ <<>> \in Seq(S) /\ Len(<<>>) = d[m - 1]
            /\ <<>> \o ss[m] = ss[m]
        BY <1>1, <3>2, <3>3
      <4>3. Joined(<<>>, ss, d, m - 1)
        BY <3>3 DEF Joined
      <4>4. /\ <<>> \o ss[m] \in Seq(S) /\ Len(<<>> \o ss[m]) = d[m]
            /\ Joined(<<>> \o ss[m], ss, d, m)
        <5> HIDE DEF T, Right
        <5> QED BY <3>2, <4>2, <4>3, JoinOne
      <4> QED BY <4>1, <4>2, <4>4
    <3>4. CASE m # 1
      <4>1. Right(m - 1)
        BY <2>4, <3>4
      <4>2. Right(m)
        <5>1. g[m] = g[m - 1] \o ss[m]
          BY <3>1, <3>4
        <5> DEFINE t == g[m - 1]
        <5>2. /\ t \o ss[m] \in Seq(S) /\ Len(t \o ss[m]) = d[m]
              /\ Joined(t \o ss[m], ss, d, m)
          <6>1. t \in Seq(S) /\ Len(t) = d[m - 1] /\ Joined(t, ss, d, m - 1)
            BY <4>1
          <6> HIDE DEF T, Right, t
          <6> QED BY <3>2, <6>1, JoinOne
        <5> QED BY <5>1, <5>2
      <4> QED BY <4>2
    <3> QED BY <3>3, <3>4
  <2>5. n \in T
    <3> HIDE DEF T
    <3>1. n \in 0..n
      OBVIOUS
    <3> QED BY <2>3, <2>4, <3>1, Climb
  <2> QED BY <1>3, <2>1, <2>5
<1> QED BY <1>2, <1>3

(***************************************************************************)
(* The loops over the constraints.                                         *)
(***************************************************************************)

\* One turn of each loop, for the k-th constraint.
Counts(counted, acc, k) ==
  IF constraints[k] \in counted THEN acc + OutOf[constraints[k]] ELSE acc
Writes(acc, k) ==
  IF ~IsDifferentiable(constraints[k]) THEN acc
  ELSE [row |-> acc.row + OutOf[constraints[k]],
        jac |-> Block(acc.jac, acc.row, OutOf[constraints[k]],
                      LAMBDA i : [of |-> constraints[k], output |-> i,
                                  scale |-> InitialScaling])]
ScalesRows(acc, k) ==
  IF ~IsDifferentiable(constraints[k])
  THEN [acc EXCEPT !.k = NextIndex(acc.k, constraints[k])]
  ELSE [row |-> acc.row + OutOf[constraints[k]],
        k |-> NextIndex(acc.k, constraints[k]),
        jac |-> Block(acc.jac, acc.row, OutOf[constraints[k]],
                      LAMBDA i : Times(acc.jac[acc.row + i], scalingVect[acc.k][i]))]
Fills(values, acc, k) ==
  [row |-> acc.row + OutOf[constraints[k]],
   v |-> Block(acc.v, acc.row, OutOf[constraints[k]],
               LAMBDA i : Violation(values[<<k, i>>], boundsVect[k][i]))]
Adds(acc, k) == acc + OutputsOf[Functions[k]]
Visits(call, acc, k) ==
  [idx |-> NextSegment(acc.idx, Functions[k]),
   rows |-> [i \in DOMAIN acc.rows |->
               IF i \in acc.idx + 1..acc.idx + OutputsOf[Functions[k]]
               THEN [of |-> Functions[k], output |-> i - acc.idx,
                     at |-> Answer(Functions[k], call.query, call.at, call.engine)]
               ELSE acc.rows[i]]]

Turn(loop, data, acc, k) ==
  CASE loop = "sizes" -> Counts(data, acc, k)
    [] loop = "jacobian" -> Writes(acc, k)
    [] loop = "scaled" -> ScalesRows(acc, k)
    [] loop = "violations" -> Fills(data, acc, k)
    [] loop = "outputs" -> Adds(acc, k)
    [] loop = "answers" -> Visits(data, acc, k)
    [] loop = "total" -> acc + data[k]
    [] loop = "order" -> IF k \in data THEN Append(acc, k) ELSE acc

\* The fold of a loop over sets of the first m indices.
Folds(it, loop, data, base, m) ==
  it = [s \in SUBSET (1..m) |->
          IF s = {} THEN base ELSE Turn(loop, data, it[s \ {Max(s)}], Max(s))]

\* There is one: a fold over the first m - 1 indices extends to m.
LEMMA FoldExists ==
  ASSUME NEW loop, NEW data, NEW base, NEW n \in Nat
  PROVE  \E it : Folds(it, loop, data, base, n)
<1> DEFINE T == {m \in 0..n : \E it : Folds(it, loop, data, base, m)}
<1>1. 0 \in T
  <2> DEFINE it == [s \in SUBSET (1..0) |-> base]
  <2>1. \A s \in SUBSET (1..0) : s = {}
    OBVIOUS
  <2>2. Folds(it, loop, data, base, 0)
    BY <2>1 DEF Folds
  <2> QED BY <2>2
<1>2. ASSUME NEW m \in 1..n, m - 1 \in T PROVE m \in T
  <2>1. PICK h : Folds(h, loop, data, base, m - 1)
    BY <1>2
  <2> DEFINE v == [s \in SUBSET (1..m) |-> Turn(loop, data, h[s \ {m}], m)]
             g == [t \in SUBSET (1..m) |-> IF m \in t THEN v[t] ELSE h[t]]
  <2>2. ASSUME NEW s \in SUBSET (1..m)
        PROVE  g[s] = IF s = {} THEN base
                      ELSE Turn(loop, data, g[s \ {Max(s)}], Max(s))
    <3>1. /\ m \in s => /\ Max(s) = m /\ g[s] = v[s] /\ s # {}
                        /\ g[s \ {Max(s)}] = h[s \ {m}]
          /\ m \notin s => /\ s \in SUBSET (1..m - 1) /\ g[s] = h[s]
                           /\ g[s \ {Max(s)}] = h[s \ {Max(s)}]
      <4>1. \A t \in SUBSET (1..m) : g[t] = IF m \in t THEN v[t] ELSE h[t]
        BY DEF g
      <4>2. m \in Nat \ {0}
        OBVIOUS
      <4> HIDE DEF v, g
      <4> QED BY <4>1, <4>2, OneIndexMore
    <3>2. v[s] = Turn(loop, data, h[s \ {m}], m)
      OBVIOUS
    <3>3. s \in SUBSET (1..m - 1) =>
            h[s] = IF s = {} THEN base ELSE Turn(loop, data, h[s \ {Max(s)}], Max(s))
      BY <2>1 DEF Folds
    <3> HIDE DEF g, v
    <3> QED BY <3>1, <3>2, <3>3
  <2>3. g = [s \in SUBSET (1..m) |-> g[s]]
    OBVIOUS
  <2>4. Folds(g, loop, data, base, m)
    <3> HIDE DEF g
    <3> QED BY <2>2, <2>3 DEF Folds
  <2> HIDE DEF g
  <2> QED BY <2>4
<1>3. n \in T
  <2> HIDE DEF T
  <2>1. n \in 0..n
    OBVIOUS
  <2> QED BY <1>1, <1>2, <2>1, Climb
<1> QED BY <1>3

\* What a loop has computed after each of its n turns.
Unrolled(a, loop, data, base, n) ==
  /\ a = [k \in 0..n |-> a[k]] /\ a[0] = base
  /\ \A k \in 1..n : a[k] = Turn(loop, data, a[k - 1], k)

\* A fold computes turn after turn.
LEMMA FoldRuns ==
  ASSUME NEW loop, NEW data, NEW base, NEW n \in Nat,
         NEW it, Folds(it, loop, data, base, n)
  PROVE  \E a : Unrolled(a, loop, data, base, n) /\ it[1..n] = a[n]
<1> DEFINE a == [k \in 0..n |-> it[1..k]]
<1>1. a[0] = base
  <2>1. 1..0 \in SUBSET (1..n) /\ 1..0 = {} /\ a[0] = it[1..0]
    OBVIOUS
  <2> HIDE DEF a
  <2> QED BY <2>1 DEF Folds
<1>2. ASSUME NEW k \in 1..n
      PROVE  a[k] = Turn(loop, data, a[k - 1], k)
  <2>1. /\ 1..k \in SUBSET (1..n) /\ 1..k # {}
        /\ Max(1..k) = k /\ 1..k \ {k} = 1..k - 1
    BY FirstOnes
  <2>2. it[1..k] = Turn(loop, data, it[1..k \ {Max(1..k)}], Max(1..k))
    BY <2>1 DEF Folds
  <2>3. a[k] = it[1..k] /\ a[k - 1] = it[1..k - 1]
    OBVIOUS
  <2> HIDE DEF a
  <2> QED BY <2>1, <2>2, <2>3
<1>3. a = [k \in 0..n |-> a[k]] /\ a[n] = it[1..n]
  OBVIOUS
<1> HIDE DEF a
<1> QED BY <1>1, <1>2, <1>3 DEF Unrolled

\* The loop of the sizes.
LEMMA SizesRun ==
  ASSUME TypeOK, NEW counted
  PROVE  \E a : /\ Unrolled(a, "sizes", counted, 0, Len(constraints))
               /\ OutputSizes(counted) = a[Len(constraints)]
<1> DEFINE n == Len(constraints)
           Fold(it) == it = [s \in SUBSET (1..n) |->
                               IF s = {} THEN 0
                               ELSE Counts(counted, it[s \ {Max(s)}], Max(s))]
           it == CHOOSE it : Fold(it)
<1>1. n \in Nat /\ DOMAIN constraints = 1..n
  BY LenProperties DEF TypeOK
<1>2. OutputSizes(counted) = it[1..n]
  <2> HIDE DEF n
  <2> QED BY <1>1 DEF OutputSizes, FoldLeft, MapThenFoldSet, Counts
<1> HIDE DEF n
<1>3. ASSUME NEW h PROVE Folds(h, "sizes", counted, 0, n) <=> Fold(h)
  BY DEF Folds, Turn
<1>4. Fold(it)
  <2>1. PICK h : Folds(h, "sizes", counted, 0, n)
    BY <1>1, FoldExists
  <2>2. Fold(h)
    BY <1>3, <2>1
  <2> HIDE DEF Fold
  <2> QED BY <2>2
<1> HIDE DEF it, Fold
<1>5. Folds(it, "sizes", counted, 0, n)
  BY <1>3, <1>4
<1> QED BY <1>1, <1>2, <1>5, FoldRuns DEF n

\* Where the rows of the constraints that are counted end.
EndsOf(d, counted) ==
  /\ d \in [0..Len(constraints) -> Nat] /\ d[0] = 0
  /\ \A k \in 1..Len(constraints) : d[k] = Counts(counted, d[k - 1], k)

\* There they end, and the loop computes where the last does.
LEMMA OutputsAreCounted ==
  ASSUME TypeOK, NEW counted
  PROVE  \E d : EndsOf(d, counted) /\ OutputSizes(counted) = d[Len(constraints)]
<1> DEFINE n == Len(constraints)
<1>1. n \in Nat /\ \A k \in 1..n : constraints[k] \in Constraints
  BY LenProperties, ElementOfSeq DEF TypeOK
<1>2. PICK d : Unrolled(d, "sizes", counted, 0, n) /\ OutputSizes(counted) = d[n]
  BY SizesRun
<1> HIDE DEF n
<1>3. d[0] = 0 /\ d = [k \in 0..n |-> d[k]]
  BY <1>2 DEF Unrolled
<1>4. ASSUME NEW k \in 1..n PROVE d[k] = Counts(counted, d[k - 1], k)
  BY <1>2 DEF Unrolled, Turn
<1>5. \A k \in 1..n : OutOf[constraints[k]] \in Nat
  BY <1>1, ConstraintsAssumption
<1> DEFINE T == {k \in 0..n : d[k] \in Nat}
<1>6. 0 \in T
  BY <1>1, <1>3
<1>7. ASSUME NEW k \in 1..n, k - 1 \in T PROVE k \in T
  <2>1. d[k - 1] \in Nat /\ d[k] = Counts(counted, d[k - 1], k)
    BY <1>4, <1>7
  <2> QED BY <1>1, <1>5, <2>1 DEF Counts
<1>8. \A k \in 0..n : k \in T
  <2> HIDE DEF T
  <2> QED BY <1>1, <1>6, <1>7, Climb
<1>9. d \in [0..n -> Nat]
  BY <1>3, <1>8
<1>10. EndsOf(d, counted)
  BY <1>3, <1>4, <1>9 DEF EndsOf, n
<1> QED BY <1>2, <1>10 DEF n

\* Each of them ends where its outputs do, if it is counted.
LEMMA EndsOfEnds ==
  ASSUME TypeOK, NEW counted, NEW d, EndsOf(d, counted)
  PROVE  /\ Ends(d, Len(constraints))
         /\ \A k \in 1..Len(constraints) :
              d[k] - d[k - 1] = IF constraints[k] \in counted THEN OutOf[constraints[k]]
                                ELSE 0
<1> DEFINE n == Len(constraints)
<1>1. n \in Nat /\ \A k \in 1..n : constraints[k] \in Constraints
  BY LenProperties, ElementOfSeq DEF TypeOK
<1> HIDE DEF n
<1>2. /\ d \in [0..n -> Nat] /\ d[0] = 0
      /\ \A k \in 1..n : d[k] = Counts(counted, d[k - 1], k)
  BY DEF EndsOf, n
<1>3. ASSUME NEW k \in 1..n
      PROVE  /\ d[k - 1] <= d[k]
             /\ d[k] - d[k - 1] = IF constraints[k] \in counted THEN OutOf[constraints[k]]
                                  ELSE 0
  <2>1. k - 1 \in 0..n /\ OutOf[constraints[k]] \in Nat
    BY <1>1, ConstraintsAssumption
  <2>2. d[k - 1] \in Nat /\ d[k] = Counts(counted, d[k - 1], k)
    BY <1>2, <2>1
  <2> QED BY <2>1, <2>2 DEF Counts
<1> QED BY <1>2, <1>3 DEF Ends, n

\* What the loops over the rows start with.
NoRows == [row |-> 0, jac |-> [r \in 1..DifferentiableConstraintsOutputSize |-> ZeroRow]]
Unscaled == [row |-> 0, k |-> 1, jac |-> Jacobian]
ByArguments(row) ==
  [row EXCEPT !.scale = [j \in 1..InputSize |-> @[j] * argumentScaling[j]]]

\* The loop of the jacobian starts with no row written.
LEMMA JacobianRuns ==
  ASSUME TypeOK
  PROVE  \E a : /\ Unrolled(a, "jacobian", 0, NoRows, Len(constraints))
               /\ Jacobian = a[Len(constraints)].jac
<1> DEFINE n == Len(constraints)
           base == NoRows
           Fold(it) == it = [s \in SUBSET (1..n) |->
                               IF s = {} THEN base
                               ELSE Writes(it[s \ {Max(s)}], Max(s))]
           it == CHOOSE it : Fold(it)
<1>1. n \in Nat /\ DOMAIN constraints = 1..n
  BY LenProperties DEF TypeOK
<1>2. Jacobian = it[1..n].jac
  <2> HIDE DEF n
  <2> QED BY <1>1 DEF Jacobian, FoldLeft, MapThenFoldSet, NoRows, Writes
<1> HIDE DEF n, base
<1>3. ASSUME NEW h PROVE Folds(h, "jacobian", 0, base, n) <=> Fold(h)
  BY DEF Folds, Turn
<1>4. Fold(it)
  <2>1. PICK h : Folds(h, "jacobian", 0, base, n)
    BY <1>1, FoldExists
  <2>2. Fold(h)
    BY <1>3, <2>1
  <2> HIDE DEF Fold
  <2> QED BY <2>2
<1> HIDE DEF it, Fold
<1>5. Folds(it, "jacobian", 0, base, n)
  BY <1>3, <1>4
<1>6. PICK a : Unrolled(a, "jacobian", 0, base, n) /\ it[1..n] = a[n]
  BY <1>1, <1>5, FoldRuns
<1> QED BY <1>2, <1>6 DEF n, base

\* The loop of the scaled jacobian starts with the rows of the jacobian, and
\* the factors of the arguments come last.
LEMMA ScaledRuns ==
  ASSUME TypeOK
  PROVE  \E a : /\ Unrolled(a, "scaled", 0, Unscaled, Len(constraints))
               /\ ScaledJacobian = [r \in DOMAIN a[Len(constraints)].jac |-> ByArguments(a[Len(constraints)].jac[r])]
<1> DEFINE n == Len(constraints)
           base == Unscaled
           Fold(it) == it = [s \in SUBSET (1..n) |->
                               IF s = {} THEN base
                               ELSE ScalesRows(it[s \ {Max(s)}], Max(s))]
           it == CHOOSE it : Fold(it)
<1>1. n \in Nat /\ DOMAIN constraints = 1..n
  BY LenProperties DEF TypeOK
<1>2. ScaledJacobian = [r \in DOMAIN it[1..n].jac |-> ByArguments(it[1..n].jac[r])]
  <2> HIDE DEF n
  <2> QED BY <1>1 DEF ScaledJacobian, FoldLeft, MapThenFoldSet, Unscaled, ScalesRows, ByArguments
<1> HIDE DEF n, base
<1>3. ASSUME NEW h PROVE Folds(h, "scaled", 0, base, n) <=> Fold(h)
  BY DEF Folds, Turn
<1>4. Fold(it)
  <2>1. PICK h : Folds(h, "scaled", 0, base, n)
    BY <1>1, FoldExists
  <2>2. Fold(h)
    BY <1>3, <2>1
  <2> HIDE DEF Fold
  <2> QED BY <2>2
<1> HIDE DEF it, Fold
<1>5. Folds(it, "scaled", 0, base, n)
  BY <1>3, <1>4
<1>6. PICK a : Unrolled(a, "scaled", 0, base, n) /\ it[1..n] = a[n]
  BY <1>1, <1>5, FoldRuns
<1> QED BY <1>2, <1>6 DEF n, base

\* The vector of violations starts with those of the arguments.
Violated(x) ==
  [row |-> InputSize,
   v |-> [i \in 1..InputSize + ConstraintsOutputSize |->
            IF i <= InputSize THEN Violation(x[i], argumentBounds[i]) ELSE 0]]

\* The loop of the violations.
LEMMA ViolationsRun ==
  ASSUME TypeOK, NEW x, NEW values
  PROVE  \E a : /\ Unrolled(a, "violations", values, Violated(x), Len(constraints))
               /\ ConstraintsViolationVector(x, values) = a[Len(constraints)].v
<1> DEFINE n == Len(constraints)
           base == Violated(x)
           Fold(it) == it = [s \in SUBSET (1..n) |->
                               IF s = {} THEN base
                               ELSE Fills(values, it[s \ {Max(s)}], [k \in DOMAIN constraints |-> k][Max(s)])]
           it == CHOOSE it : Fold(it)
<1>1. n \in Nat /\ DOMAIN constraints = 1..n
  BY LenProperties DEF TypeOK
<1>2. ConstraintsViolationVector(x, values) = it[1..n].v
  <2> HIDE DEF n
  <2> QED BY <1>1 DEF ConstraintsViolationVector, FoldLeft, MapThenFoldSet, Violated, Fills
<1> HIDE DEF n, base
<1>3. ASSUME NEW h PROVE Folds(h, "violations", values, base, n) <=> Fold(h)
  <2>1. ASSUME NEW s \in SUBSET (1..n), s # {}
        PROVE  [k \in DOMAIN constraints |-> k][Max(s)] = Max(s)
    BY <1>1, <2>1, LargestIsOne
  <2>2. \A s \in SUBSET (1..n) :
          (IF s = {} THEN base ELSE Fills(values, h[s \ {Max(s)}], Max(s)))
          = IF s = {} THEN base
            ELSE Fills(values, h[s \ {Max(s)}], [k \in DOMAIN constraints |-> k][Max(s)])
    BY <2>1
  <2> QED BY <2>2 DEF Folds, Turn
<1>4. Fold(it)
  <2>1. PICK h : Folds(h, "violations", values, base, n)
    BY <1>1, FoldExists
  <2>2. Fold(h)
    BY <1>3, <2>1
  <2> HIDE DEF Fold
  <2> QED BY <2>2
<1> HIDE DEF it, Fold
<1>5. Folds(it, "violations", values, base, n)
  BY <1>3, <1>4
<1>6. PICK a : Unrolled(a, "violations", values, base, n) /\ it[1..n] = a[n]
  BY <1>1, <1>5, FoldRuns
<1> QED BY <1>2, <1>6 DEF n, base

(***************************************************************************)
(* What the loops compute.                                                 *)
(***************************************************************************)

\* The block b is written over s where the rows of the k-th constraint lie, o
\* rows further down.
Placed(t, s, b, o, d, k, n) ==
  \A r \in 1..o + d[n] :
    t[r] = IF r \in o + d[k - 1] + 1..o + d[k - 1] + (d[k] - d[k - 1])
           THEN b[r - (o + d[k - 1])] ELSE s[r]

\* Row i of the block is row i of that constraint, and all others are as they
\* were.
Replaced(t, s, b, o, d, k, n) ==
  /\ \A j \in 1..n : \A i \in 1..d[j] - d[j - 1] :
       t[o + d[j - 1] + i] = IF j = k THEN b[i] ELSE s[o + d[j - 1] + i]
  /\ \A r \in 1..o : t[r] = s[r]

\* A block that is written over replaces the rows of its constraint.
LEMMA BlockPlaced ==
  ASSUME NEW n \in Nat, NEW d, Ends(d, n), NEW o \in Nat, NEW k \in 1..n,
         NEW s, NEW t, NEW b, Placed(t, s, b, o, d, k, n)
  PROVE  Replaced(t, s, b, o, d, k, n)
<1>1. d \in [0..n -> Nat] /\ k - 1 \in 0..n /\ k \in 0..n /\ n \in 0..n
  BY DEF Ends
<1> DEFINE e == d[k - 1]
           f == d[k]
           m == d[n]
<1>2. e \in Nat /\ f \in Nat /\ m \in Nat
  BY <1>1
<1>3. \A r \in 1..o + m :
        t[r] = IF r \in o + e + 1..o + e + (f - e) THEN b[r - (o + e)] ELSE s[r]
  BY DEF Placed
<1> HIDE DEF e, f, m
<1>4. ASSUME NEW r \in 1..o + m
      PROVE  t[r] = IF r \in o + e + 1..o + f THEN b[r - (o + e)] ELSE s[r]
  <2>1. o + e + (f - e) = o + f
    BY <1>2
  <2> QED BY <1>3, <2>1
<1>5. ASSUME NEW j \in 1..n, NEW i \in 1..d[j] - d[j - 1]
      PROVE  t[o + d[j - 1] + i] = IF j = k THEN b[i] ELSE s[o + d[j - 1] + i]
  <2> DEFINE a == d[j - 1]
             r == o + a + i
  <2>1. a \in Nat /\ d[j] \in Nat /\ i \in Nat
    BY <1>1
  <2>2. a + i \in 1..m /\ (a + i \in e + 1..f => j = k)
    BY RowsApart DEF e, f, m
  <2>3. j = k => a = e /\ i \in 1..f - e
    BY DEF e, f
  <2> HIDE DEF a
  <2>4. r \in 1..o + m
    BY <1>2, <2>1, <2>2
  <2>5. r \in o + e + 1..o + f => j = k
    BY <1>2, <2>1, <2>2
  <2>6. j = k => r \in o + e + 1..o + f /\ r - (o + e) = i
    BY <1>2, <2>1, <2>3
  <2>7. t[r] = IF r \in o + e + 1..o + f THEN b[r - (o + e)] ELSE s[r]
    <3> HIDE DEF r
    <3> QED BY <1>4, <2>4
  <2>8. t[r] = IF j = k THEN b[i] ELSE s[r]
    <3> HIDE DEF r
    <3> QED BY <2>5, <2>6, <2>7
  <2> QED BY <2>8 DEF a
<1>6. ASSUME NEW r \in 1..o PROVE t[r] = s[r]
  <2>1. r \in 1..o + m /\ r \notin o + e + 1..o + f
    BY <1>2
  <2> QED BY <1>4, <2>1
<1> QED BY <1>5, <1>6 DEF Replaced

\* Row i of the block of the k-th constraint.
RowOf(k, i) == [of |-> constraints[k], output |-> i, scale |-> InitialScaling]

\* What is to be known of the constraints and of where their rows end.
Laid(d, counted) ==
  /\ EndsOf(d, counted) /\ Ends(d, Len(constraints))
  /\ OutputSizes(counted) = d[Len(constraints)]
  /\ Len(constraints) \in Nat
  /\ \A k \in 1..Len(constraints) :
       /\ k - 1 \in 0..Len(constraints) /\ k \in 0..Len(constraints)
       /\ d[k - 1] \in Nat /\ d[k] \in Nat
       /\ OutOf[constraints[k]] \in Nat
       /\ constraints[k] \in counted => /\ d[k] - d[k - 1] = OutOf[constraints[k]]
                                        /\ d[k] = d[k - 1] + OutOf[constraints[k]]
       /\ constraints[k] \notin counted => d[k] - d[k - 1] = 0 /\ d[k] = d[k - 1]

\* Whatever is counted, there is such an account.
LEMMA RowsAreLaid ==
  ASSUME TypeOK, NEW counted
  PROVE  \E d : Laid(d, counted)
<1> DEFINE n == Len(constraints)
<1>1. n \in Nat /\ \A k \in 1..n : constraints[k] \in Constraints
  BY LenProperties, ElementOfSeq DEF TypeOK
<1>2. PICK d : EndsOf(d, counted) /\ OutputSizes(counted) = d[n]
  BY OutputsAreCounted
<1>3. Ends(d, n) /\ \A k \in 1..n : d[k] - d[k - 1] = IF constraints[k] \in counted
                                                      THEN OutOf[constraints[k]] ELSE 0
  BY <1>2, EndsOfEnds
<1>4. ASSUME NEW k \in 1..n
      PROVE  /\ k - 1 \in 0..n /\ k \in 0..n
             /\ d[k - 1] \in Nat /\ d[k] \in Nat
             /\ OutOf[constraints[k]] \in Nat
             /\ constraints[k] \in counted => /\ d[k] - d[k - 1] = OutOf[constraints[k]]
                                              /\ d[k] = d[k - 1] + OutOf[constraints[k]]
             /\ constraints[k] \notin counted => d[k] - d[k - 1] = 0 /\ d[k] = d[k - 1]
  <2> HIDE DEF n
  <2>1. k - 1 \in 0..n /\ k \in 0..n /\ OutOf[constraints[k]] \in Nat
    BY <1>1, ConstraintsAssumption
  <2>2. d[k - 1] \in Nat /\ d[k] \in Nat
    BY <1>3, <2>1 DEF Ends
  <2> QED BY <1>3, <2>1, <2>2
<1> QED BY <1>1, <1>2, <1>3, <1>4 DEF Laid

\* The jacobian has the rows of each differentiable constraint in its block.
LEMMA JacobianRows ==
  ASSUME TypeOK, NEW d, Laid(d, Differentiable)
  PROVE  /\ DOMAIN Jacobian = 1..d[Len(constraints)]
         /\ \A k \in 1..Len(constraints) : \A i \in 1..d[k] - d[k - 1] :
              Jacobian[d[k - 1] + i] = RowOf(k, i)
<1> DEFINE n == Len(constraints)
<1>1. PICK a : Unrolled(a, "jacobian", 0, NoRows, n) /\ Jacobian = a[n].jac
  BY JacobianRuns
<1>2. n \in Nat /\ Ends(d, n) /\ DifferentiableConstraintsOutputSize = d[n]
  BY DEF Laid, DifferentiableConstraintsOutputSize
<1> DEFINE Done(k) ==
             /\ a[k].row = d[k] /\ DOMAIN a[k].jac = 1..d[n]
             /\ \A m \in 1..k : \A i \in 1..d[m] - d[m - 1] :
                  a[k].jac[d[m - 1] + i] = RowOf(m, i)
           T == {k \in 0..n : Done(k)}
<1>3. 0 \in T
  <2>1. a[0] = NoRows /\ d[0] = 0
    BY <1>1, <1>2 DEF Unrolled, Ends
  <2>2. NoRows.row = 0 /\ DOMAIN NoRows.jac = 1..d[n]
    BY <1>2 DEF NoRows
  <2>3. 0 \in 0..n /\ 1..0 = {}
    BY <1>2
  <2> HIDE DEF n
  <2> QED BY <2>1, <2>2, <2>3
<1>4. ASSUME NEW k \in 1..n, k - 1 \in T PROVE k \in T
  <2>1. Done(k - 1) /\ k \in 0..n
    BY <1>2, <1>4
  <2> DEFINE before == a[k - 1]
             c == constraints[k]
  <2>2. a[k] = Writes(before, k)
    BY <1>1 DEF Unrolled, Turn
  <2>3. CASE c \notin Differentiable
    <3>1. a[k] = before /\ d[k] = d[k - 1] /\ d[k] - d[k - 1] = 0
      BY <2>2, <2>3 DEF Writes, IsDifferentiable, Laid
    <3>2. ASSUME NEW m \in 1..k, NEW i \in 1..d[m] - d[m - 1]
          PROVE  a[k].jac[d[m - 1] + i] = RowOf(m, i)
      <4>1. m # k
        BY <3>1, <3>2
      <4>2. m \in 1..k - 1
        BY <4>1
      <4> QED BY <2>1, <3>1, <4>2
    <3> QED BY <2>1, <3>1, <3>2
  <2>4. CASE c \in Differentiable
    <3> DEFINE e == d[k - 1]
               b == [i \in 1..OutOf[c] |-> RowOf(k, i)]
    <3>1. /\ e \in Nat /\ OutOf[c] \in Nat /\ d[k] - e = OutOf[c]
          /\ d[k] = e + OutOf[c]
      BY <2>4 DEF Laid
    <3>2. /\ a[k].row = e + OutOf[c]
          /\ a[k].jac = [r \in 1..d[n] |->
                           IF r \in e + 1..e + OutOf[c] THEN RowOf(k, r - e)
                           ELSE before.jac[r]]
      BY <2>1, <2>2, <2>4 DEF Writes, IsDifferentiable, Block, RowOf
    <3> DEFINE o == 0
    <3>3. ASSUME NEW r \in 1..o + d[n]
          PROVE  a[k].jac[r] = IF r \in o + d[k - 1] + 1..o + d[k - 1] + (d[k] - d[k - 1])
                               THEN b[r - (o + d[k - 1])] ELSE before.jac[r]
      <4>1. o + d[k - 1] = e /\ d[k] - d[k - 1] = OutOf[c]
        BY <3>1
      <4>2. r \in 1..d[n]
        BY <1>2 DEF Ends
      <4>3. r \in e + 1..e + OutOf[c] => r - e \in 1..OutOf[c]
        <5> HIDE DEF e, c
        <5> QED BY <3>1
      <4>4. r \in e + 1..e + OutOf[c] => b[r - e] = RowOf(k, r - e)
        BY <4>3
      <4> HIDE DEF b, e, c, before, o
      <4> QED BY <3>2, <4>1, <4>2, <4>4
    <3>4. \A j \in 1..n : \A i \in 1..d[j] - d[j - 1] :
            a[k].jac[o + d[j - 1] + i] = IF j = k THEN b[i] ELSE before.jac[o + d[j - 1] + i]
      <4>1. o \in Nat /\ n \in Nat /\ Ends(d, n)
        BY <1>2
      <4> DEFINE s == before.jac
                 t == a[k].jac
      <4> HIDE DEF Done, T, b, o, s, t, n
      <4>2. Placed(t, s, b, o, d, k, n)
        BY <3>3 DEF s, t, Placed
      <4>3. Replaced(t, s, b, o, d, k, n)
        BY <4>1, <4>2, BlockPlaced
      <4> QED BY <4>3 DEF Replaced, s, t
    <3>5. ASSUME NEW m \in 1..k, NEW i \in 1..d[m] - d[m - 1]
          PROVE  a[k].jac[d[m - 1] + i] = RowOf(m, i)
      <4>1. m \in 1..n /\ o + d[m - 1] = d[m - 1]
        <5>1. m \in 1..n
          BY <1>2
        <5>2. d[m - 1] \in Nat
          BY <5>1 DEF Laid
        <5> QED BY <5>1, <5>2
      <4>2. a[k].jac[d[m - 1] + i] = IF m = k THEN b[i] ELSE before.jac[d[m - 1] + i]
        BY <3>4, <4>1
      <4>3. m = k => b[i] = RowOf(m, i)
        BY <3>1
      <4>4. m # k => before.jac[d[m - 1] + i] = RowOf(m, i)
        <5>1. m # k => m \in 1..k - 1
          OBVIOUS
        <5> QED BY <2>1, <5>1
      <4> QED BY <4>2, <4>3, <4>4
    <3>6. DOMAIN a[k].jac = 1..d[n]
      BY <3>2
    <3> QED BY <2>1, <3>1, <3>2, <3>5, <3>6
  <2> QED BY <2>3, <2>4
<1>5. n \in T
  <2>1. n \in 0..n
    BY <1>2
  <2> HIDE DEF T, n
  <2> QED BY <1>2, <1>3, <1>4, <2>1, Climb
<1> QED BY <1>1, <1>5

\* Row i of the k-th constraint with its own factor.
ScaledRowOf(k, i) == Times(RowOf(k, i), scalingVect[k][i])

\* The loop over the jacobian's rows scales each with the factor of its own
\* constraint and output, also where it skips constraints, and no row twice.
LEMMA ScaledRows ==
  ASSUME TypeOK, NEW d, Laid(d, Differentiable)
  PROVE  /\ ScaledJacobian = [r \in 1..d[Len(constraints)] |-> ScaledJacobian[r]]
         /\ \A k \in 1..Len(constraints) : \A i \in 1..d[k] - d[k - 1] :
              ScaledJacobian[d[k - 1] + i] = ByArguments(ScaledRowOf(k, i))
<1> DEFINE n == Len(constraints)
<1>1. PICK a : /\ Unrolled(a, "scaled", 0, Unscaled, n)
               /\ ScaledJacobian = [r \in DOMAIN a[n].jac |-> ByArguments(a[n].jac[r])]
  BY ScaledRuns
<1>2. n \in Nat /\ Ends(d, n)
  BY DEF Laid
<1> DEFINE Done(k) ==
             /\ DOMAIN a[k] = {"row", "k", "jac"}
             /\ a[k].row = d[k] /\ a[k].k = k + 1 /\ DOMAIN a[k].jac = 1..d[n]
             /\ \A m \in 1..n : \A i \in 1..d[m] - d[m - 1] :
                  a[k].jac[d[m - 1] + i] = IF m <= k THEN ScaledRowOf(m, i)
                                           ELSE RowOf(m, i)
           T == {k \in 0..n : Done(k)}
<1>3. 0 \in T
  <2>1. a[0] = Unscaled /\ d[0] = 0
    BY <1>1, <1>2 DEF Unrolled, Ends
  <2>2. /\ Unscaled.row = 0 /\ Unscaled.k = 0 + 1 /\ Unscaled.jac = Jacobian
        /\ DOMAIN Unscaled = {"row", "k", "jac"}
    BY DEF Unscaled
  <2>3. 0 \in 0..n /\ \A m \in 1..n : ~(m <= 0)
    BY <1>2
  <2>4. /\ DOMAIN Jacobian = 1..d[n]
        /\ \A m \in 1..n : \A i \in 1..d[m] - d[m - 1] :
             Jacobian[d[m - 1] + i] = RowOf(m, i)
    BY JacobianRows
  <2> HIDE DEF n
  <2> QED BY <2>1, <2>2, <2>3, <2>4
<1>4. ASSUME NEW k \in 1..n, k - 1 \in T PROVE k \in T
  <2>1. Done(k - 1) /\ k \in 0..n
    BY <1>2, <1>4
  <2> DEFINE before == a[k - 1]
             c == constraints[k]
  <2>2. a[k] = ScalesRows(before, k)
    BY <1>1 DEF Unrolled, Turn
  <2>3. before.k = k
    BY <2>1
  <2>4. ASSUME NEW m \in 1..n PROVE m <= k <=> m <= k - 1 \/ m = k
    OBVIOUS
  <2>5. CASE c \notin Differentiable
    <3>1. d[k] = d[k - 1] /\ d[k] - d[k - 1] = 0
      BY <2>5 DEF Laid
    <3>2. a[k] = [before EXCEPT !.k = k + 1]
      BY <2>2, <2>3, <2>5 DEF ScalesRows, IsDifferentiable, NextIndex
    <3>3. /\ DOMAIN a[k] = {"row", "k", "jac"} /\ a[k].k = k + 1
          /\ a[k].row = before.row /\ a[k].jac = before.jac
      BY <2>1, <3>2
    <3>4. ASSUME NEW m \in 1..n, NEW i \in 1..d[m] - d[m - 1]
          PROVE  a[k].jac[d[m - 1] + i] = IF m <= k THEN ScaledRowOf(m, i)
                                          ELSE RowOf(m, i)
      <4>1. m # k
        BY <3>1, <3>4
      <4> QED BY <2>1, <2>4, <3>3, <4>1
    <3> QED BY <2>1, <3>1, <3>3, <3>4
  <2>6. CASE c \in Differentiable
    <3> DEFINE e == d[k - 1]
               b == [i \in 1..OutOf[c] |-> Times(before.jac[e + i], scalingVect[k][i])]
    <3>1. /\ e \in Nat /\ OutOf[c] \in Nat /\ d[k] - e = OutOf[c]
          /\ d[k] = e + OutOf[c]
      BY <2>6 DEF Laid
    <3>2. /\ a[k].row = e + OutOf[c] /\ a[k].k = k + 1
          /\ DOMAIN a[k] = {"row", "k", "jac"}
          /\ a[k].jac = [r \in 1..d[n] |->
                           IF r \in e + 1..e + OutOf[c]
                           THEN Times(before.jac[e + (r - e)], scalingVect[k][r - e])
                           ELSE before.jac[r]]
      BY <2>1, <2>2, <2>3, <2>6 DEF ScalesRows, IsDifferentiable, Block, NextIndex
    <3> DEFINE o == 0
               s == before.jac
               t == a[k].jac
    <3>3. ASSUME NEW r \in 1..o + d[n]
          PROVE  t[r] = IF r \in o + d[k - 1] + 1..o + d[k - 1] + (d[k] - d[k - 1])
                        THEN b[r - (o + d[k - 1])] ELSE s[r]
      <4>1. o + d[k - 1] = e /\ d[k] - d[k - 1] = OutOf[c]
        BY <3>1
      <4>2. r \in 1..d[n]
        BY <1>2 DEF Ends
      <4>3. r \in e + 1..e + OutOf[c] => r - e \in 1..OutOf[c]
        <5> HIDE DEF e, c
        <5> QED BY <3>1
      <4>4. r \in e + 1..e + OutOf[c] =>
              b[r - e] = Times(before.jac[e + (r - e)], scalingVect[k][r - e])
        BY <4>3
      <4> HIDE DEF b, e, c, before, o
      <4> QED BY <3>2, <4>1, <4>2, <4>4 DEF s, t
    <3>4. \A j \in 1..n : \A i \in 1..d[j] - d[j - 1] :
            t[o + d[j - 1] + i] = IF j = k THEN b[i] ELSE s[o + d[j - 1] + i]
      <4>1. o \in Nat /\ n \in Nat /\ Ends(d, n)
        BY <1>2
      <4> HIDE DEF Done, T, b, o, s, t, n
      <4>2. Placed(t, s, b, o, d, k, n)
        BY <3>3 DEF Placed
      <4>3. Replaced(t, s, b, o, d, k, n)
        BY <4>1, <4>2, BlockPlaced
      <4> QED BY <4>3 DEF Replaced
    <3>5. ASSUME NEW m \in 1..n, NEW i \in 1..d[m] - d[m - 1]
          PROVE  t[d[m - 1] + i] = IF m <= k THEN ScaledRowOf(m, i) ELSE RowOf(m, i)
      <4>1. o + d[m - 1] = d[m - 1]
        <5>1. d[m - 1] \in Nat
          BY DEF Laid
        <5> QED BY <5>1
      <4>2. t[d[m - 1] + i] = IF m = k THEN b[i] ELSE s[d[m - 1] + i]
        <5> HIDE DEF b, o, s, t
        <5> QED BY <3>4, <4>1
      <4>3. s[d[m - 1] + i] = IF m <= k - 1 THEN ScaledRowOf(m, i) ELSE RowOf(m, i)
        BY <2>1
      <4>4. m = k => b[i] = ScaledRowOf(m, i)
        <5>1. m = k => i \in 1..OutOf[c] /\ ~(m <= k - 1)
          BY <3>1
        <5>2. m = k => before.jac[e + i] = RowOf(k, i)
          BY <4>3, <5>1
        <5> QED BY <5>1, <5>2 DEF ScaledRowOf
      <4> HIDE DEF b, s, t
      <4> QED BY <2>4, <4>2, <4>3, <4>4
    <3>6. DOMAIN a[k].jac = 1..d[n]
      BY <3>2
    <3> QED BY <2>1, <3>1, <3>2, <3>5, <3>6
  <2> QED BY <2>5, <2>6
<1>5. n \in T
  <2>1. n \in 0..n
    BY <1>2
  <2> HIDE DEF T, n
  <2> QED BY <1>2, <1>3, <1>4, <2>1, Climb
<1>6. /\ DOMAIN a[n].jac = 1..d[n]
      /\ \A k \in 1..n : \A i \in 1..d[k] - d[k - 1] :
           a[n].jac[d[k - 1] + i] = ScaledRowOf(k, i)
  BY <1>5
<1>7. ASSUME NEW k \in 1..n, NEW i \in 1..d[k] - d[k - 1]
      PROVE  ScaledJacobian[d[k - 1] + i] = ByArguments(ScaledRowOf(k, i))
  <2>1. d[k - 1] + i \in 1..d[n]
    <3> HIDE DEF n
    <3> QED BY <1>2, RowsApart
  <2> QED BY <1>1, <1>6, <2>1
<1> QED BY <1>1, <1>6, <1>7

\* What the vectors hold of the k-th constraint that was given.
LEMMA KthGiven ==
  ASSUME IInv, NEW k \in 1..Len(constraints)
  PROVE  /\ constraints[k] \in Constraints /\ k \in DOMAIN constraints
         /\ boundsVect[k] \in Seq(Intervals) /\ scalingVect[k] \in Seq(Scales)
         /\ Len(boundsVect[k]) = OutOf[constraints[k]]
         /\ Len(scalingVect[k]) = OutOf[constraints[k]]
         /\ given[k].constraint = constraints[k]
         /\ given[k].bounds = boundsVect[k] /\ given[k].scaling = scalingVect[k]
<1> DEFINE n == Len(constraints)
<1>1. /\ constraints \in Seq(Constraints) /\ boundsVect \in Seq(Seq(Intervals))
      /\ scalingVect \in Seq(Seq(Scales))
      /\ Len(boundsVect) = n /\ Len(scalingVect) = n /\ Len(given) = n
  BY DEF IInv, TypeOK, VectorsAgree, HistoryAgrees
<1>2. n \in Nat /\ DOMAIN constraints = 1..n
  BY <1>1, LenProperties
<1>3. constraints[k] \in Constraints /\ k \in DOMAIN constraints
  BY <1>1, <1>2, ElementOfSeq
<1>4. boundsVect[k] \in Seq(Intervals)
  <2> DEFINE S == Seq(Intervals)
  <2>1. boundsVect \in Seq(S) /\ k \in 1..Len(boundsVect)
    BY <1>1
  <2> HIDE DEF S
  <2>2. boundsVect[k] \in S
    BY <2>1, ElementOfSeq
  <2> QED BY <2>2 DEF S
<1>5. scalingVect[k] \in Seq(Scales)
  <2> DEFINE S == Seq(Scales)
  <2>1. scalingVect \in Seq(S) /\ k \in 1..Len(scalingVect)
    BY <1>1
  <2> HIDE DEF S
  <2>2. scalingVect[k] \in S
    BY <2>1, ElementOfSeq
  <2> QED BY <2>2 DEF S
<1>6. /\ Len(boundsVect[k]) = OutOf[constraints[k]]
      /\ Len(scalingVect[k]) = OutOf[constraints[k]]
  BY <1>3 DEF IInv, VectorsAgree
<1>7. given[k] = [constraint |-> constraints[k], bounds |-> boundsVect[k],
                  scaling |-> scalingVect[k]]
  BY <1>1 DEF IInv, HistoryAgrees
<1> QED BY <1>3, <1>4, <1>5, <1>6, <1>7

\* A row scaled by its own factor and by those of the arguments is the one
\* the k-th constraint was to have.
LEMMA ScaledAsGiven ==
  ASSUME IInv, NEW k \in 1..Len(constraints), IsDifferentiable(constraints[k]),
         NEW i \in 1..OutOf[constraints[k]]
  PROVE  RowsOf(given[k])[i] = ByArguments(ScaledRowOf(k, i))
<1> DEFINE c == constraints[k]
           f == scalingVect[k][i]
<1>1. /\ c \in Constraints /\ scalingVect[k] \in Seq(Scales)
      /\ Len(scalingVect[k]) = OutOf[c]
      /\ given[k].constraint = c /\ given[k].scaling = scalingVect[k]
  BY KthGiven
<1>2. f \in Int
  <2>1. f \in Scales
    BY <1>1, ElementOfSeq
  <2> QED BY <2>1, IntervalsAssumption
<1>3. RowsOf(given[k])[i] = [of |-> c, output |-> i,
                             scale |-> [j \in 1..InputSize |-> f * argumentScaling[j]]]
  BY <1>1 DEF RowsOf
<1> HIDE DEF f
<1>4. ScaledRowOf(k, i) = [of |-> c, output |-> i,
                           scale |-> [j \in 1..InputSize |-> f * 1]]
  <2> DEFINE g == [j \in 1..InputSize |-> f * InitialScaling[j]]
  <2>1. g = [j \in 1..InputSize |-> f * 1]
    BY DEF InitialScaling
  <2>2. ScaledRowOf(k, i) = [RowOf(k, i) EXCEPT !.scale = g]
    BY DEF ScaledRowOf, Times, RowOf, f
  <2> HIDE DEF g
  <2>3. [RowOf(k, i) EXCEPT !.scale = g] = [of |-> c, output |-> i, scale |-> g]
    BY DEF RowOf
  <2> QED BY <2>1, <2>2, <2>3
<1>5. ByArguments(ScaledRowOf(k, i)) =
        [of |-> c, output |-> i,
         scale |-> [j \in 1..InputSize |-> (f * 1) * argumentScaling[j]]]
  <2> DEFINE h == [j \in 1..InputSize |-> f * 1]
             g == [j \in 1..InputSize |-> h[j] * argumentScaling[j]]
             row == ScaledRowOf(k, i)
  <2>1. g = [j \in 1..InputSize |-> (f * 1) * argumentScaling[j]]
    OBVIOUS
  <2>2. row = [of |-> c, output |-> i, scale |-> h]
    BY <1>4
  <2> HIDE DEF h, row
  <2>3. row.scale = h
    BY <2>2
  <2>4. ByArguments(row) = [row EXCEPT !.scale = g]
    BY <2>3 DEF ByArguments
  <2> HIDE DEF g
  <2>5. [row EXCEPT !.scale = g] = [of |-> c, output |-> i, scale |-> g]
    BY <2>2
  <2> QED BY <2>1, <2>4, <2>5 DEF row
<1>6. f * 1 = f
  BY <1>2
<1> QED BY <1>3, <1>5, <1>6

\* The scaled jacobian has the rows of the constraints given, one after the
\* other.
LEMMA ScalingIsKept == IInv => RowsKeepTheirScaling
<1> SUFFICES ASSUME IInv PROVE RowsKeepTheirScaling
  OBVIOUS
<1> DEFINE n == Len(constraints)
           ss == [k \in DOMAIN given |-> RowsOf(given[k])]
           S == UNION {{RowsOf(given[k])[i] : i \in 1..OutOf[constraints[k]]} : k \in 1..n}
<1>1. TypeOK /\ Len(given) = n /\ DOMAIN given = 1..n
  BY LenProperties DEF IInv, HistoryAgrees
<1>2. PICK d : Laid(d, Differentiable)
  BY <1>1, RowsAreLaid
<1>3. n \in Nat /\ Ends(d, n)
  BY <1>2 DEF Laid
<1>4. ASSUME NEW k \in 1..n
      PROVE  /\ RowsOf(given[k]) \in Seq(S)
             /\ Len(RowsOf(given[k])) = d[k] - d[k - 1]
  <2> DEFINE w == OutOf[constraints[k]]
  <2>1. w \in Nat /\ given[k].constraint = constraints[k]
    BY <1>2, KthGiven DEF Laid
  <2>2. CASE IsDifferentiable(constraints[k])
    <3>1. d[k] - d[k - 1] = w
      BY <1>2, <2>2 DEF Laid, IsDifferentiable
    <3> DEFINE t == RowsOf(given[k])
    <3>2. t = [i \in 1..w |-> t[i]]
      BY <2>1, <2>2 DEF RowsOf
    <3>3. \A i \in 1..w : t[i] \in S
      OBVIOUS
    <3> HIDE DEF t, w, S
    <3>4. t \in [1..w -> S]
      BY <3>2, <3>3
    <3>5. t \in Seq(S) /\ Len(t) = w
      BY <2>1, <3>4, SeqDef, LenProperties
    <3> QED BY <3>1, <3>5 DEF t
  <2>3. CASE ~IsDifferentiable(constraints[k])
    <3>1. d[k] - d[k - 1] = 0
      BY <1>2, <2>3 DEF Laid, IsDifferentiable
    <3>2. RowsOf(given[k]) = <<>>
      BY <2>1, <2>3 DEF RowsOf
    <3> HIDE DEF S
    <3> QED BY <3>1, <3>2
  <2> QED BY <2>2, <2>3
<1> DEFINE flat == FlattenSeq(ss)
<1>5. flat \in Seq(S) /\ Len(flat) = d[n] /\ Joined(flat, ss, d, n)
  <2>1. ss \in [1..n -> Seq(S)] /\ \A k \in 1..n : ss[k] = RowsOf(given[k])
    BY <1>1, <1>4
  <2>2. \A k \in 1..n : Len(ss[k]) = d[k] - d[k - 1]
    BY <1>4, <2>1
  <2> HIDE DEF ss, S, n
  <2> QED BY <1>3, <2>1, <2>2, FlattenedRows
<1>6. flat = [r \in 1..d[n] |-> flat[r]]
  <2> HIDE DEF flat, S
  <2> QED BY <1>5, LenProperties
<1>7. /\ ScaledJacobian = [r \in 1..d[n] |-> ScaledJacobian[r]]
      /\ \A k \in 1..n : \A i \in 1..d[k] - d[k - 1] :
           ScaledJacobian[d[k - 1] + i] = ByArguments(ScaledRowOf(k, i))
  BY <1>1, <1>2, ScaledRows
<1>8. ASSUME NEW r \in 1..d[n]
      PROVE  ScaledJacobian[r] = flat[r]
  <2>1. PICK k \in 1..n : \E i \in 1..d[k] - d[k - 1] : r = d[k - 1] + i
    BY <1>3, EveryRow
  <2>2. PICK i \in 1..d[k] - d[k - 1] : r = d[k - 1] + i
    BY <2>1
  <2>3. flat[r] = ss[k][i]
    BY <1>5, <2>2 DEF Joined
  <2>4. ss[k] = RowsOf(given[k])
    BY <1>1
  <2>5. IsDifferentiable(constraints[k]) /\ i \in 1..OutOf[constraints[k]]
    BY <1>2, <2>2 DEF Laid, IsDifferentiable
  <2>6. RowsOf(given[k])[i] = ByArguments(ScaledRowOf(k, i))
    BY <2>5, ScaledAsGiven
  <2>7. ScaledJacobian[r] = ByArguments(ScaledRowOf(k, i))
    BY <1>7, <2>2
  <2> HIDE DEF ss, flat
  <2> QED BY <2>3, <2>4, <2>6, <2>7
<1>9. ScaledJacobian = flat
  <2> HIDE DEF flat, n
  <2> QED BY <1>6, <1>7, <1>8
<1> QED BY <1>9 DEF RowsKeepTheirScaling

\* The violations of the arguments come first, then those of each constraint's
\* outputs in its block.
InBlocks(v, x, values, d) ==
  /\ v = [r \in 1..InputSize + d[Len(constraints)] |-> v[r]]
  /\ \A r \in 1..InputSize : v[r] = Violation(x[r], argumentBounds[r])
  /\ \A k \in 1..Len(constraints) : \A i \in 1..d[k] - d[k - 1] :
       v[InputSize + d[k - 1] + i] = Violation(values[<<k, i>>], boundsVect[k][i])

\* So they do in what the code computes.
LEMMA ViolationRows ==
  ASSUME TypeOK, NEW x, NEW values, NEW d, Laid(d, Constraints)
  PROVE  InBlocks(ConstraintsViolationVector(x, values), x, values, d)
<1> DEFINE n == Len(constraints)
           o == InputSize
<1>1. PICK a : /\ Unrolled(a, "violations", values, Violated(x), n)
               /\ ConstraintsViolationVector(x, values) = a[n].v
  BY ViolationsRun
<1>2. n \in Nat /\ Ends(d, n) /\ ConstraintsOutputSize = d[n] /\ o \in Nat
  BY ConstraintsAssumption DEF Laid, ConstraintsOutputSize
<1>3. /\ n \in 0..n /\ d[n] \in Nat
      /\ \A k \in 1..n : /\ constraints[k] \in Constraints /\ OutOf[constraints[k]] \in Nat
                         /\ d[k - 1] \in Nat /\ d[k] \in Nat
                         /\ d[k] - d[k - 1] = OutOf[constraints[k]]
                         /\ d[k] = d[k - 1] + OutOf[constraints[k]]
  <2>1. n \in 0..n
    BY <1>2
  <2>2. d[n] \in Nat
    BY <1>2, <2>1 DEF Ends
  <2>3. \A k \in 1..n : constraints[k] \in Constraints
    BY ElementOfSeq DEF TypeOK
  <2> QED BY <2>1, <2>2, <2>3 DEF Laid
<1> DEFINE Done(k) ==
             /\ a[k].row = o + d[k] /\ a[k].v = [r \in 1..o + d[n] |-> a[k].v[r]]
             /\ \A r \in 1..o : a[k].v[r] = Violation(x[r], argumentBounds[r])
             /\ \A m \in 1..k : \A i \in 1..d[m] - d[m - 1] :
                  a[k].v[o + d[m - 1] + i] = Violation(values[<<m, i>>], boundsVect[m][i])
           T == {k \in 0..n : Done(k)}
<1>4. 0 \in T
  <2>1. a[0] = Violated(x) /\ d[0] = 0 /\ o + 0 = o
    BY <1>1, <1>2 DEF Unrolled, Ends
  <2>2. /\ Violated(x).row = o
        /\ Violated(x).v = [i \in 1..o + d[n] |->
                              IF i <= o THEN Violation(x[i], argumentBounds[i]) ELSE 0]
    BY <1>2 DEF Violated
  <2>3. ASSUME NEW r \in 1..o
        PROVE  Violated(x).v[r] = Violation(x[r], argumentBounds[r])
    <3>1. r \in 1..o + d[n] /\ r <= o
      BY <1>2, <1>3
    <3> HIDE DEF o, n
    <3> QED BY <2>2, <3>1
  <2>4. 0 \in 0..n /\ 1..0 = {}
    BY <1>2
  <2>5. Violated(x).v = [r \in 1..o + d[n] |-> Violated(x).v[r]]
    BY <2>2
  <2> HIDE DEF n, o
  <2> QED BY <2>1, <2>2, <2>3, <2>4, <2>5
<1>5. ASSUME NEW k \in 1..n, k - 1 \in T PROVE k \in T
  <2>1. Done(k - 1) /\ k \in 0..n
    BY <1>2, <1>5
  <2> DEFINE w == OutOf[constraints[k]]
             e == o + d[k - 1]
             s == a[k - 1].v
             t == a[k].v
             b == [i \in 1..w |-> Violation(values[<<k, i>>], boundsVect[k][i])]
  <2>2. a[k] = Fills(values, a[k - 1], k)
    BY <1>1 DEF Unrolled, Turn
  <2>3. /\ w \in Nat /\ d[k - 1] \in Nat /\ d[k] \in Nat
        /\ d[k] - d[k - 1] = w /\ d[k] = d[k - 1] + w
    BY <1>3
  <2>4. DOMAIN s = 1..o + d[n] /\ a[k - 1].row = e
    BY <2>1
  <2>5. /\ a[k].row = e + w
        /\ t = [r \in 1..o + d[n] |->
                  IF r \in e + 1..e + w
                  THEN Violation(values[<<k, r - e>>], boundsVect[k][r - e])
                  ELSE s[r]]
    <3> HIDE DEF e
    <3> QED BY <2>2, <2>4 DEF Fills, Block
  <2>6. e \in Nat /\ e + w = o + d[k]
    <3> DEFINE p == d[k - 1]
               q == d[k]
    <3>1. o \in Nat /\ p \in Nat /\ w \in Nat /\ q = p + w /\ e = o + p
      BY <1>2, <2>3
    <3> HIDE DEF o, p, q, w, e
    <3>2. e \in Nat /\ e + w = o + q
      BY <3>1
    <3> QED BY <3>2 DEF q
  <2>7. Placed(t, s, b, o, d, k, n)
    <3>1. ASSUME NEW r \in 1..o + d[n]
          PROVE  t[r] = IF r \in e + 1..e + (d[k] - d[k - 1]) THEN b[r - e] ELSE s[r]
      <4>1. r \in e + 1..e + w => r - e \in 1..w
        <5> HIDE DEF e, w
        <5> QED BY <1>2, <1>3, <2>3, <2>6
      <4>2. r \in e + 1..e + w => b[r - e] = Violation(values[<<k, r - e>>], boundsVect[k][r - e])
        BY <4>1
      <4> HIDE DEF b, e, s, t, w
      <4> QED BY <2>3, <2>5, <4>2
    <3> HIDE DEF s, t, b, o, n
    <3> QED BY <3>1 DEF Placed, e
  <2>8. /\ \A j \in 1..n : \A i \in 1..d[j] - d[j - 1] :
             t[o + d[j - 1] + i] = IF j = k THEN b[i] ELSE s[o + d[j - 1] + i]
        /\ \A r \in 1..o : t[r] = s[r]
    <3>1. o \in Nat /\ n \in Nat /\ Ends(d, n)
      BY <1>2
    <3> HIDE DEF s, t, b, o, n
    <3>2. Replaced(t, s, b, o, d, k, n)
      BY <2>7, <3>1, BlockPlaced
    <3> QED BY <3>2 DEF Replaced
  <2>9. ASSUME NEW m \in 1..k, NEW i \in 1..d[m] - d[m - 1]
        PROVE  t[o + d[m - 1] + i] = Violation(values[<<m, i>>], boundsVect[m][i])
    <3>1. m \in 1..n
      BY <1>2
    <3>2. t[o + d[m - 1] + i] = IF m = k THEN b[i] ELSE s[o + d[m - 1] + i]
      BY <2>8, <3>1
    <3>3. m = k => b[i] = Violation(values[<<m, i>>], boundsVect[m][i])
      BY <2>3
    <3>4. m # k => s[o + d[m - 1] + i] = Violation(values[<<m, i>>], boundsVect[m][i])
      <4>1. m # k => m \in 1..k - 1
        OBVIOUS
      <4> QED BY <2>1, <4>1
    <3> HIDE DEF b, s, t
    <3> QED BY <3>2, <3>3, <3>4
  <2>10. \A r \in 1..o : t[r] = Violation(x[r], argumentBounds[r])
    BY <2>1, <2>8
  <2>11. t = [r \in 1..o + d[n] |-> t[r]]
    <3> HIDE DEF s, e, w
    <3> QED BY <2>5
  <2> QED BY <2>1, <2>5, <2>6, <2>9, <2>10, <2>11
<1>6. n \in T
  <2> HIDE DEF T, n
  <2> QED BY <1>2, <1>3, <1>4, <1>5, Climb
<1> QED BY <1>1, <1>6 DEF InBlocks

\* Whatever is outside of a pair of bounds violates one of them, negatively
\* below and positively above, an infinite bound none.
LEMMA SignOfViolation ==
  ASSUME NEW v \in Levels, NEW b, b.lower \in Int, b.upper \in Int, b.lower <= b.upper
  PROVE  SignOf(Violation(v, b)) = Expected(v, b)
<1>1. v \in Int /\ -Infinity < v /\ v < Infinity /\ Infinity \in Int
  BY IntervalsAssumption
<1> DEFINE l == b.lower
           u == b.upper
           inf == IF l # -Infinity THEN Least(v - l, 0) ELSE 0
           sup == IF u # Infinity THEN Greatest(v - u, 0) ELSE 0
<1>2. l \in Int /\ u \in Int /\ l <= u
  OBVIOUS
<1> HIDE DEF l, u
<1>3. Violation(v, b) = IF inf < 0 THEN inf ELSE sup
  BY DEF Violation, l, u
<1>4. CASE v < l
  <2>1. inf = v - l /\ inf < 0
    BY <1>1, <1>2, <1>4 DEF Least
  <2> HIDE DEF inf, sup
  <2> QED BY <1>1, <1>2, <1>3, <1>4, <2>1 DEF SignOf, Expected, l
<1>5. CASE ~(v < l) /\ v > u
  <2>1. inf = 0
    BY <1>1, <1>2, <1>5 DEF Least
  <2>2. sup = v - u /\ sup > 0
    BY <1>1, <1>2, <1>5 DEF Greatest
  <2> HIDE DEF inf, sup
  <2> QED BY <1>1, <1>2, <1>3, <1>5, <2>1, <2>2 DEF SignOf, Expected, l, u
<1>6. CASE ~(v < l) /\ ~(v > u)
  <2>1. inf = 0
    BY <1>1, <1>2, <1>6 DEF Least
  <2>2. sup = 0
    BY <1>1, <1>2, <1>6 DEF Greatest
  <2> HIDE DEF inf, sup
  <2> QED BY <1>3, <1>6, <2>1, <2>2 DEF SignOf, Expected, l, u
<1> QED BY <1>4, <1>5, <1>6

\* Bounds have their ends in order, also those of an argument left free.
LEMMA BoundsInOrder ==
  ASSUME NEW b \in Intervals \cup {Free}, Levels # {}
  PROVE  b.lower \in Int /\ b.upper \in Int /\ b.lower <= b.upper
<1>1. PICK v \in Levels : TRUE
  OBVIOUS
<1>2. v \in Int /\ -Infinity < v /\ v < Infinity /\ Infinity \in Int
  BY <1>1, IntervalsAssumption
<1>3. CASE b \in Intervals
  BY <1>3, IntervalsAssumption
<1>4. CASE b = Free
  <2>1. b.lower = -Infinity /\ b.upper = Infinity
    BY <1>4 DEF Free
  <2> QED BY <1>2, <2>1
<1> QED BY <1>3, <1>4

\* Each output's violation has the sign of its own bounds, at its place.
LEMMA SignsAreRight == IInv => ViolationsHaveTheirSign
<1> SUFFICES ASSUME IInv, NEW x \in [1..InputSize -> Levels], NEW values \in [Outputs -> Levels]
             PROVE  LET arguments_ == [j \in 1..InputSize |-> Expected(x[j], argumentBounds[j])]
                        outputs == [k \in DOMAIN given |->
                                      [i \in DOMAIN given[k].bounds |->
                                         Expected(values[<<k, i>>], given[k].bounds[i])]]
                    IN Signs(ConstraintsViolationVector(x, values))
                         = arguments_ \o FlattenSeq(outputs)
  BY DEF ViolationsHaveTheirSign
<1> DEFINE n == Len(constraints)
           l == InputSize
           p == [j \in 1..l |-> Expected(x[j], argumentBounds[j])]
           Row(k) == [i \in DOMAIN given[k].bounds |->
                        Expected(values[<<k, i>>], given[k].bounds[i])]
           ss == [k \in DOMAIN given |-> Row(k)]
           S == {-1, 0, 1}
           v == ConstraintsViolationVector(x, values)
<1>1. TypeOK /\ Len(given) = n /\ DOMAIN given = 1..n
  BY LenProperties DEF IInv, HistoryAgrees
<1>2. PICK d : Laid(d, Constraints)
  BY <1>1, RowsAreLaid
<1>3. n \in Nat /\ Ends(d, n) /\ l \in Nat \ {0} /\ d[n] \in Nat
  <2>1. n \in Nat /\ Ends(d, n) /\ l \in Nat \ {0}
    BY <1>2, ConstraintsAssumption DEF Laid
  <2>2. n \in 0..n
    BY <2>1
  <2> QED BY <2>1, <2>2 DEF Ends
<1>4. Levels # {}
  <2>1. 1 \in 1..l
    BY <1>3
  <2> QED BY <2>1
<1>5. ASSUME NEW k \in 1..n
      PROVE  /\ DOMAIN given[k].bounds = 1..d[k] - d[k - 1]
             /\ d[k] - d[k - 1] = OutOf[constraints[k]]
             /\ OutOf[constraints[k]] \in Nat
             /\ given[k].bounds = boundsVect[k]
             /\ \A i \in 1..d[k] - d[k - 1] : boundsVect[k][i] \in Intervals
  <2>1. /\ boundsVect[k] \in Seq(Intervals) /\ Len(boundsVect[k]) = OutOf[constraints[k]]
        /\ given[k].bounds = boundsVect[k] /\ constraints[k] \in Constraints
    BY KthGiven
  <2>2. d[k] - d[k - 1] = OutOf[constraints[k]] /\ OutOf[constraints[k]] \in Nat
    BY <1>2, <2>1 DEF Laid
  <2> HIDE DEF n
  <2> QED BY <2>1, <2>2, LenProperties, ElementOfSeq
<1>6. ASSUME NEW k \in 1..n
      PROVE  Row(k) \in Seq(S) /\ Len(Row(k)) = d[k] - d[k - 1]
  <2> DEFINE w == d[k] - d[k - 1]
             t == Row(k)
  <2>1. t = [i \in 1..w |-> t[i]] /\ w \in Nat
    BY <1>5
  <2>2. \A i \in 1..w : t[i] \in S
    BY <1>5 DEF Expected
  <2> HIDE DEF t, w, S
  <2>3. t \in [1..w -> S]
    BY <2>1, <2>2
  <2>4. t \in Seq(S) /\ Len(t) = w
    BY <2>1, <2>3, SeqDef, LenProperties
  <2> QED BY <2>4 DEF t, w
<1> DEFINE flat == FlattenSeq(ss)
<1>7. flat \in Seq(S) /\ Len(flat) = d[n] /\ Joined(flat, ss, d, n)
  <2>1. ss \in [1..n -> Seq(S)] /\ \A k \in 1..n : ss[k] = Row(k)
    BY <1>1, <1>6
  <2>2. \A k \in 1..n : Len(ss[k]) = d[k] - d[k - 1]
    BY <1>6, <2>1
  <2> HIDE DEF ss, S, n
  <2> QED BY <1>3, <2>1, <2>2, FlattenedRows
<1>8. p \in Seq(S) /\ Len(p) = l
  <2>1. p \in [1..l -> S]
    BY DEF Expected
  <2> HIDE DEF p, S, l
  <2> QED BY <1>3, <2>1, SeqDef, LenProperties
<1>9. /\ v = [r \in 1..l + d[n] |-> v[r]]
      /\ \A r \in 1..l : v[r] = Violation(x[r], argumentBounds[r])
      /\ \A k \in 1..n : \A i \in 1..d[k] - d[k - 1] :
           v[l + d[k - 1] + i] = Violation(values[<<k, i>>], boundsVect[k][i])
  <2>1. InBlocks(v, x, values, d)
    BY <1>1, <1>2, ViolationRows
  <2> HIDE DEF v
  <2> QED BY <2>1 DEF InBlocks
<1> DEFINE joined == p \o flat
<1>10. /\ joined = [r \in 1..l + d[n] |-> joined[r]]
       /\ \A r \in 1..l + d[n] : joined[r] = IF r <= l THEN p[r] ELSE flat[r - l]
  <2> HIDE DEF p, flat, S, l, n
  <2>1. /\ joined \in Seq(S) /\ Len(joined) = Len(p) + Len(flat)
        /\ \A r \in 1..Len(p) + Len(flat) :
             joined[r] = IF r <= Len(p) THEN p[r] ELSE flat[r - Len(p)]
    BY <1>7, <1>8, ConcatProperties
  <2> HIDE DEF joined
  <2> QED BY <1>7, <1>8, <2>1, LenProperties
<1>11. ASSUME NEW r \in 1..l + d[n]
       PROVE  SignOf(v[r]) = joined[r]
  <2>1. CASE r <= l
    <3>1. r \in 1..l /\ joined[r] = p[r]
      <4>1. r \in 1..l
        <5> HIDE DEF l, n
        <5> QED BY <1>3, <2>1
      <4> HIDE DEF joined, p, l
      <4> QED BY <1>10, <2>1, <4>1
    <3>2. x[r] \in Levels /\ argumentBounds[r] \in Intervals \cup {Free}
      BY <1>1, <3>1 DEF TypeOK
    <3>3. SignOf(Violation(x[r], argumentBounds[r])) = Expected(x[r], argumentBounds[r])
      BY <1>4, <3>2, BoundsInOrder, SignOfViolation
    <3>4. v[r] = Violation(x[r], argumentBounds[r])
      BY <1>9, <3>1
    <3>5. p[r] = Expected(x[r], argumentBounds[r])
      BY <3>1
    <3> HIDE DEF joined, p, v
    <3> QED BY <3>1, <3>3, <3>4, <3>5
  <2>2. CASE ~(r <= l)
    <3> DEFINE q == r - l
    <3>1. q \in 1..d[n] /\ r = l + q
      <4> HIDE DEF l, n
      <4> QED BY <1>3, <2>2
    <3>2. joined[r] = flat[q]
      <4> HIDE DEF joined, p, flat, l, n
      <4> QED BY <1>10, <2>2
    <3> HIDE DEF q, n
    <3>3. PICK k \in 1..n : \E i \in 1..d[k] - d[k - 1] : q = d[k - 1] + i
      BY <1>3, <3>1, EveryRow
    <3>4. PICK i \in 1..d[k] - d[k - 1] : q = d[k - 1] + i
      BY <3>3
    <3> USE DEF n
    <3>5. flat[q] = ss[k][i] /\ ss[k] = Row(k)
      BY <1>1, <1>7, <3>4 DEF Joined
    <3>6. /\ given[k].bounds = boundsVect[k] /\ i \in DOMAIN given[k].bounds
          /\ boundsVect[k][i] \in Intervals /\ i \in 1..OutOf[constraints[k]]
      BY <1>5
    <3>7. Row(k)[i] = Expected(values[<<k, i>>], boundsVect[k][i])
      BY <3>6
    <3>8. v[r] = Violation(values[<<k, i>>], boundsVect[k][i])
      <4>1. d[k - 1] \in Nat
        BY <1>2 DEF Laid
      <4>2. r = l + d[k - 1] + i
        <5> HIDE DEF l
        <5> QED BY <1>3, <3>1, <3>4, <4>1
      <4> HIDE DEF v, l
      <4> QED BY <1>9, <4>2
    <3>9. values[<<k, i>>] \in Levels
      <4>1. k \in DOMAIN constraints
        BY KthGiven
      <4>2. <<k, i>> \in Outputs
        BY <3>6, <4>1 DEF Outputs
      <4> QED BY <4>2
    <3>10. SignOf(Violation(values[<<k, i>>], boundsVect[k][i]))
             = Expected(values[<<k, i>>], boundsVect[k][i])
      BY <1>4, <3>6, <3>9, BoundsInOrder, SignOfViolation
    <3> HIDE DEF v, joined, flat, ss, Row
    <3> QED BY <3>2, <3>5, <3>7, <3>8, <3>10
  <2> QED BY <2>1, <2>2
<1>12. Signs(v) = joined
  <2> HIDE DEF v, joined, l, n
  <2>1. Signs(v) = [r \in 1..l + d[n] |-> SignOf(v[r])]
    BY <1>9 DEF Signs
  <2> QED BY <1>10, <1>11, <2>1
<1> QED BY <1>12

(***************************************************************************)
(* The functions of a pool, and their outputs.                             *)
(***************************************************************************)

\* The loop over the sizes of the functions.
LEMMA PoolOutputsRun ==
  \E a : /\ Unrolled(a, "outputs", 0, 0, Len(Functions))
         /\ OutputSize = a[Len(Functions)]
<1> DEFINE n == Len(Functions)
           Fold(it) == it = [s \in SUBSET (1..n) |->
                               IF s = {} THEN 0 ELSE Adds(it[s \ {Max(s)}], Max(s))]
           it == CHOOSE it : Fold(it)
<1>1. n \in Nat /\ DOMAIN Functions = 1..n
  BY PoolAssumption, LenProperties
<1>2. OutputSize = it[1..n]
  <2> HIDE DEF n
  <2> QED BY <1>1 DEF OutputSize, FoldLeft, MapThenFoldSet, Adds
<1> HIDE DEF n
<1>3. ASSUME NEW h PROVE Folds(h, "outputs", 0, 0, n) <=> Fold(h)
  BY DEF Folds, Turn
<1>4. Fold(it)
  <2>1. PICK h : Folds(h, "outputs", 0, 0, n)
    BY <1>1, FoldExists
  <2>2. Fold(h)
    BY <1>3, <2>1
  <2> HIDE DEF Fold
  <2> QED BY <2>2
<1> HIDE DEF it, Fold
<1>5. Folds(it, "outputs", 0, 0, n)
  BY <1>3, <1>4
<1> QED BY <1>1, <1>2, <1>5, FoldRuns DEF n

\* Where the outputs of each function end.
PoolLaid(d) ==
  /\ Len(Functions) \in Nat /\ DOMAIN Functions = 1..Len(Functions)
  /\ Ends(d, Len(Functions)) /\ OutputSize = d[Len(Functions)]
  /\ \A k \in 1..Len(Functions) :
       /\ Functions[k] \in Members
       /\ k - 1 \in 0..Len(Functions) /\ k \in 0..Len(Functions)
       /\ d[k - 1] \in Nat /\ d[k] \in Nat /\ OutputsOf[Functions[k]] \in Nat
       /\ d[k] - d[k - 1] = OutputsOf[Functions[k]]
       /\ d[k] = d[k - 1] + OutputsOf[Functions[k]]

\* There is such an account.
LEMMA PoolIsLaid == \E d : PoolLaid(d)
<1> DEFINE n == Len(Functions)
<1>1. n \in Nat /\ DOMAIN Functions = 1..n
  BY PoolAssumption, LenProperties
<1>2. PICK d : Unrolled(d, "outputs", 0, 0, n) /\ OutputSize = d[n]
  BY PoolOutputsRun
<1> HIDE DEF n
<1>3. ASSUME NEW k \in 1..n
      PROVE  Functions[k] \in Members /\ OutputsOf[Functions[k]] \in Nat
  <2>1. Functions[k] \in Members
    BY <1>1 DEF Members, ToSet
  <2> QED BY <2>1, PoolAssumption DEF Members
<1>4. d[0] = 0 /\ d = [k \in 0..n |-> d[k]]
  BY <1>2 DEF Unrolled
<1>5. ASSUME NEW k \in 1..n PROVE d[k] = d[k - 1] + OutputsOf[Functions[k]]
  BY <1>2 DEF Unrolled, Turn, Adds
<1> DEFINE T == {k \in 0..n : d[k] \in Nat}
<1>6. 0 \in T
  BY <1>1, <1>4
<1>7. ASSUME NEW k \in 1..n, k - 1 \in T PROVE k \in T
  BY <1>1, <1>3, <1>5, <1>7
<1>8. \A k \in 0..n : k \in T
  <2> HIDE DEF T
  <2> QED BY <1>1, <1>6, <1>7, Climb
<1>9. d \in [0..n -> Nat]
  BY <1>4, <1>8
<1>10. ASSUME NEW k \in 1..n
       PROVE  /\ k - 1 \in 0..n /\ k \in 0..n
              /\ d[k - 1] \in Nat /\ d[k] \in Nat /\ d[k - 1] <= d[k]
              /\ d[k] - d[k - 1] = OutputsOf[Functions[k]]
  <2>1. k - 1 \in 0..n /\ k \in 0..n
    BY <1>1
  <2>2. d[k - 1] \in Nat /\ d[k] \in Nat
    BY <1>9, <2>1
  <2> QED BY <1>3, <1>5, <2>1, <2>2
<1>11. Ends(d, n)
  BY <1>4, <1>9, <1>10 DEF Ends
<1> QED BY <1>1, <1>2, <1>3, <1>5, <1>10, <1>11 DEF PoolLaid, n

\* What the loop over the functions starts with.
Blanks ==
  [idx |-> 0, rows |-> [i \in 1..OutputSize |-> [of |-> "none", output |-> 0, at |-> Nowhere]]]
CallOf(q, x, e) == [query |-> q, at |-> x, engine |-> e]

\* The loop over the functions.
LEMMA PoolAnswersRun ==
  ASSUME NEW q, NEW x, NEW e
  PROVE  \E a : /\ Unrolled(a, "answers", CallOf(q, x, e), Blanks, Len(Functions))
               /\ Filled(q, x, e) = a[Len(Functions)].rows
<1> DEFINE n == Len(Functions)
           base == Blanks
           call == CallOf(q, x, e)
           Fold(it) == it = [s \in SUBSET (1..n) |->
                               IF s = {} THEN base
                               ELSE Visits(call, it[s \ {Max(s)}], Max(s))]
           it == CHOOSE it : Fold(it)
<1>1. n \in Nat /\ DOMAIN Functions = 1..n
  BY PoolAssumption, LenProperties
<1>2. Filled(q, x, e) = it[1..n].rows
  <2> HIDE DEF n
  <2> QED BY <1>1 DEF Filled, FoldLeft, MapThenFoldSet, Blanks, Visits, CallOf
<1> HIDE DEF n, base, call
<1>3. ASSUME NEW h PROVE Folds(h, "answers", call, base, n) <=> Fold(h)
  BY DEF Folds, Turn
<1>4. Fold(it)
  <2>1. PICK h : Folds(h, "answers", call, base, n)
    BY <1>1, FoldExists
  <2>2. Fold(h)
    BY <1>3, <2>1
  <2> HIDE DEF Fold
  <2> QED BY <2>2
<1> HIDE DEF it, Fold
<1>5. Folds(it, "answers", call, base, n)
  BY <1>3, <1>4
<1>6. PICK a : Unrolled(a, "answers", call, base, n) /\ it[1..n] = a[n]
  BY <1>1, <1>5, FoldRuns
<1> QED BY <1>2, <1>6 DEF n, base, call

\* Output i of the k-th function, as it answers.
OutputOf(k, i, q, x, e) ==
  [of |-> Functions[k], output |-> i, at |-> Answer(Functions[k], q, x, e)]
FilledAs(r, q, x, e, d) ==
  /\ r = [i \in 1..d[Len(Functions)] |-> r[i]]
  /\ \A k \in 1..Len(Functions) : \A i \in 1..d[k] - d[k - 1] :
       r[d[k - 1] + i] = OutputOf(k, i, q, x, e)

\* Each function's outputs are in its segment, and every row is filled.
LEMMA FilledInOrder ==
  ASSUME NEW q, NEW x, NEW e, NEW d, PoolLaid(d)
  PROVE  FilledAs(Filled(q, x, e), q, x, e, d)
<1> DEFINE n == Len(Functions)
           call == CallOf(q, x, e)
<1>1. PICK a : Unrolled(a, "answers", call, Blanks, n) /\ Filled(q, x, e) = a[n].rows
  BY PoolAnswersRun
<1>2. n \in Nat /\ Ends(d, n) /\ OutputSize = d[n]
  BY DEF PoolLaid
<1>3. call.query = q /\ call.at = x /\ call.engine = e
  BY DEF CallOf
<1> HIDE DEF call
<1> DEFINE Done(k) ==
             /\ a[k].idx = d[k] /\ a[k].rows = [r \in 1..d[n] |-> a[k].rows[r]]
             /\ \A m \in 1..k : \A i \in 1..d[m] - d[m - 1] :
                  a[k].rows[d[m - 1] + i] = OutputOf(m, i, q, x, e)
           T == {k \in 0..n : Done(k)}
<1>4. 0 \in T
  <2>1. a[0] = Blanks /\ d[0] = 0
    BY <1>1, <1>2 DEF Unrolled, Ends
  <2>2. Blanks.idx = 0 /\ Blanks.rows = [r \in 1..d[n] |-> Blanks.rows[r]]
    BY <1>2 DEF Blanks
  <2>3. 0 \in 0..n /\ 1..0 = {}
    BY <1>2
  <2> HIDE DEF n
  <2> QED BY <2>1, <2>2, <2>3
<1>5. ASSUME NEW k \in 1..n, k - 1 \in T PROVE k \in T
  <2>1. Done(k - 1) /\ k \in 0..n
    BY <1>2, <1>5
  <2> DEFINE before == a[k - 1]
             e0 == d[k - 1]
             w == OutputsOf[Functions[k]]
             b == [i \in 1..w |-> OutputOf(k, i, q, x, e)]
             o == 0
  <2>2. a[k] = Visits(call, before, k)
    BY <1>1 DEF Unrolled, Turn
  <2>3. e0 \in Nat /\ w \in Nat /\ d[k] - e0 = w /\ d[k] = e0 + w
    BY DEF PoolLaid
  <2>4. /\ a[k].idx = e0 + w
        /\ a[k].rows = [r \in 1..d[n] |->
                          IF r \in e0 + 1..e0 + w THEN OutputOf(k, r - e0, q, x, e)
                          ELSE before.rows[r]]
    <3>1. before.idx = e0 /\ DOMAIN before.rows = 1..d[n]
      BY <2>1
    <3> QED BY <1>3, <2>2, <3>1 DEF Visits, OutputOf, NextSegment
  <2> DEFINE s == before.rows
             t == a[k].rows
  <2>5. Placed(t, s, b, o, d, k, n)
    <3>1. ASSUME NEW r \in 1..o + d[n]
          PROVE  t[r] = IF r \in o + d[k - 1] + 1..o + d[k - 1] + (d[k] - d[k - 1])
                        THEN b[r - (o + d[k - 1])] ELSE s[r]
      <4>1. o + d[k - 1] = e0 /\ d[k] - d[k - 1] = w
        BY <2>3
      <4>2. r \in 1..d[n]
        BY <1>2 DEF Ends
      <4>3. r \in e0 + 1..e0 + w => r - e0 \in 1..w
        <5> HIDE DEF e0, w
        <5> QED BY <2>3
      <4>4. r \in e0 + 1..e0 + w => b[r - e0] = OutputOf(k, r - e0, q, x, e)
        BY <4>3
      <4>5. t[r] = IF r \in e0 + 1..e0 + w THEN OutputOf(k, r - e0, q, x, e) ELSE s[r]
        BY <2>4, <4>2
      <4> HIDE DEF b, e0, w, s, t, o
      <4> QED BY <4>1, <4>4, <4>5
    <3> HIDE DEF b, s, t, o, n
    <3> QED BY <3>1 DEF Placed
  <2>6. \A j \in 1..n : \A i \in 1..d[j] - d[j - 1] :
          t[o + d[j - 1] + i] = IF j = k THEN b[i] ELSE s[o + d[j - 1] + i]
    <3>1. o \in Nat /\ n \in Nat /\ Ends(d, n)
      BY <1>2
    <3> HIDE DEF Done, T, b, s, t, o, n
    <3>2. Replaced(t, s, b, o, d, k, n)
      BY <2>5, <3>1, BlockPlaced
    <3> QED BY <3>2 DEF Replaced
  <2>7. ASSUME NEW m \in 1..k, NEW i \in 1..d[m] - d[m - 1]
        PROVE  t[d[m - 1] + i] = OutputOf(m, i, q, x, e)
    <3>1. m \in 1..n /\ o + d[m - 1] = d[m - 1]
      <4>1. m \in 1..n
        BY <1>2
      <4>2. d[m - 1] \in Nat
        BY <4>1 DEF PoolLaid
      <4> QED BY <4>1, <4>2
    <3>2. t[d[m - 1] + i] = IF m = k THEN b[i] ELSE s[d[m - 1] + i]
      <4> HIDE DEF t, s, b, o, n
      <4> QED BY <2>6, <3>1
    <3>3. m = k => b[i] = OutputOf(m, i, q, x, e)
      BY <2>3
    <3>4. m # k => s[d[m - 1] + i] = OutputOf(m, i, q, x, e)
      <4>1. m # k => m \in 1..k - 1
        OBVIOUS
      <4> QED BY <2>1, <4>1
    <3> QED BY <3>2, <3>3, <3>4
  <2>8. t = [r \in 1..d[n] |-> t[r]]
    BY <2>4
  <2> QED BY <2>1, <2>3, <2>4, <2>7, <2>8
<1>6. n \in T
  <2>1. n \in 0..n
    BY <1>2
  <2> HIDE DEF T, n
  <2> QED BY <1>2, <1>4, <1>5, <2>1, Climb
<1> QED BY <1>1, <1>6 DEF FilledAs

\* Every row is an output of a function of the pool.
LEMMA FilledByMembers ==
  ASSUME NEW q, NEW x, NEW e, NEW i \in DOMAIN Filled(q, x, e)
  PROVE  \E f \in Members : /\ Filled(q, x, e)[i].of = f
                           /\ Filled(q, x, e)[i].at = Answer(f, q, x, e)
<1> DEFINE r == Filled(q, x, e)
           n == Len(Functions)
<1>1. PICK d : PoolLaid(d)
  BY PoolIsLaid
<1>2. FilledAs(r, q, x, e, d)
  BY <1>1, FilledInOrder
<1> HIDE DEF r, n
<1>3. n \in Nat /\ Ends(d, n) /\ i \in 1..d[n]
  BY <1>1, <1>2 DEF PoolLaid, FilledAs, r, n
<1>4. PICK k \in 1..n : \E j \in 1..d[k] - d[k - 1] : i = d[k - 1] + j
  BY <1>3, EveryRow
<1>5. PICK j \in 1..d[k] - d[k - 1] : i = d[k - 1] + j
  BY <1>4
<1>6. r[i] = OutputOf(k, j, q, x, e)
  BY <1>2, <1>5 DEF FilledAs, n
<1>7. Functions[k] \in Members
  BY <1>1 DEF PoolLaid, n
<1> QED BY <1>6, <1>7 DEF OutputOf, r

\* The result of a call lists every output of every function once, in order.
LEMMA FilledIsPacked ==
  ASSUME NEW q, NEW x, NEW e
  PROVE  [i \in DOMAIN Filled(q, x, e) |->
            <<Filled(q, x, e)[i].of, Filled(q, x, e)[i].output>>] =
         FlattenSeq([k \in DOMAIN Functions |->
                       [j \in 1..OutputsOf[Functions[k]] |-> <<Functions[k], j>>]])
<1> DEFINE r == Filled(q, x, e)
           n == Len(Functions)
           OutputsAt(k) == [j \in 1..OutputsOf[Functions[k]] |-> <<Functions[k], j>>]
           ss == [k \in DOMAIN Functions |-> OutputsAt(k)]
           S == Members \X Nat
           flat == FlattenSeq(ss)
           packed == [i \in DOMAIN r |-> <<r[i].of, r[i].output>>]
<1>1. PICK d : PoolLaid(d)
  BY PoolIsLaid
<1>2. FilledAs(r, q, x, e, d)
  BY <1>1, FilledInOrder
<1>3. n \in Nat /\ Ends(d, n) /\ DOMAIN Functions = 1..n
  BY <1>1 DEF PoolLaid
<1>4. ASSUME NEW k \in 1..n
      PROVE  OutputsAt(k) \in Seq(S) /\ Len(OutputsAt(k)) = d[k] - d[k - 1]
  <2> DEFINE w == OutputsOf[Functions[k]]
             t == OutputsAt(k)
  <2>1. w \in Nat /\ Functions[k] \in Members /\ d[k] - d[k - 1] = w
    BY <1>1 DEF PoolLaid
  <2>2. t \in [1..w -> S]
    BY <2>1
  <2> HIDE DEF t, w, S
  <2>3. t \in Seq(S) /\ Len(t) = w
    BY <2>1, <2>2, SeqDef, LenProperties
  <2> QED BY <2>1, <2>3 DEF t
<1>5. flat \in Seq(S) /\ Len(flat) = d[n] /\ Joined(flat, ss, d, n)
  <2>1. ss \in [1..n -> Seq(S)] /\ \A k \in 1..n : ss[k] = OutputsAt(k)
    BY <1>3, <1>4
  <2>2. \A k \in 1..n : Len(ss[k]) = d[k] - d[k - 1]
    BY <1>4, <2>1
  <2> HIDE DEF ss, S, n, OutputsAt
  <2> QED BY <1>3, <2>1, <2>2, FlattenedRows
<1>6. flat = [i \in 1..d[n] |-> flat[i]]
  <2> HIDE DEF flat, S
  <2> QED BY <1>5, LenProperties
<1>7. packed = [i \in 1..d[n] |-> packed[i]] /\ DOMAIN r = 1..d[n]
  BY <1>2 DEF FilledAs
<1>8. ASSUME NEW i \in 1..d[n]
      PROVE  packed[i] = flat[i]
  <2>1. PICK k \in 1..n : \E j \in 1..d[k] - d[k - 1] : i = d[k - 1] + j
    BY <1>3, EveryRow
  <2>2. PICK j \in 1..d[k] - d[k - 1] : i = d[k - 1] + j
    BY <2>1
  <2>3. flat[i] = ss[k][j]
    BY <1>5, <2>2 DEF Joined
  <2>4. j \in 1..OutputsOf[Functions[k]]
    BY <1>1 DEF PoolLaid
  <2>5. ss[k][j] = <<Functions[k], j>>
    BY <1>3, <2>4
  <2>6. r[i] = OutputOf(k, j, q, x, e)
    BY <1>2, <2>2 DEF FilledAs
  <2>7. packed[i] = <<r[i].of, r[i].output>>
    BY <1>7
  <2>8. packed[i] = <<Functions[k], j>>
    <3> HIDE DEF r, packed
    <3> QED BY <2>6, <2>7 DEF OutputOf
  <2> HIDE DEF packed, flat, ss
  <2> QED BY <2>3, <2>5, <2>8
<1>9. packed = flat
  <2> HIDE DEF packed, flat, n
  <2> QED BY <1>6, <1>7, <1>8
<1> QED BY <1>9

(***************************************************************************)
(* The caches of a pool.                                                   *)
(***************************************************************************)

\* A cache as the constructor makes it, or as calls leave it.
Regular(c, V) ==
  CacheOf(c, Hash, V) /\ WellFormed(c) /\ 0 < c.size /\ c.size <= Len(c.pool)
OfItsPoints(c) ==
  \A h \in Mapped(c) : ValueAt(c, h) \in Points /\ HashOf[ValueAt(c, h)] = h

\* A new cache is regular, and has no entry.
LEMMA NewIsRegular ==
  ASSUME NEW n \in Nat \ {0}, NEW V, Blank \in V
  PROVE  Regular(New(n), V) /\ OfItsPoints(New(n))
<1> DEFINE c == New(n)
<1>1. n \in Nat /\ 0 < n
  OBVIOUS
<1>2. CacheOf(c, Hash, V) /\ WellFormed(c)
  BY <1>1, NewCache
<1>3. c.size = n /\ c.pool = [s \in 1..n |-> Blank] /\ Mapped(c) = {}
  BY DEF New, Cache, Mapped, NoEntries
<1>4. Len(c.pool) \in Nat /\ DOMAIN c.pool = 1..Len(c.pool)
  BY <1>2, CacheFields
<1> HIDE DEF c
<1>5. DOMAIN c.pool = 1..n
  BY <1>3
<1>6. n \in 1..n
  BY <1>1
<1>7. n <= Len(c.pool)
  BY <1>1, <1>4, <1>5, <1>6
<1> QED BY <1>1, <1>2, <1>3, <1>7 DEF Regular, OfItsPoints, c

\* A cache that is reset is regular, and has no entry.
LEMMA ClearedIsRegular ==
  ASSUME NEW V, NEW c, Regular(c, V)
  PROVE  Regular(Cleared(c), V) /\ OfItsPoints(Cleared(c))
<1>1. CacheOf(Cleared(c), Hash, V) /\ WellFormed(Cleared(c))
  BY ClearedCache DEF Regular
<1>2. Cleared(c).size = c.size /\ Cleared(c).pool = c.pool /\ Mapped(Cleared(c)) = {}
  BY DEF Cleared, Cache, NoEntries, Mapped
<1> QED BY <1>1, <1>2 DEF Regular, OfItsPoints

\* A store keeps it so, and every entry of a point of its own hash if what is
\* stored is the point asked for.
LEMMA StoredIsRegular ==
  ASSUME NEW V, NEW c, Regular(c, V), NEW x \in Points, NEW v \in V
  PROVE  /\ Regular(Store(c, HashOf[x], v), V)
         /\ v = x /\ OfItsPoints(c) => OfItsPoints(Store(c, HashOf[x], v))
<1> DEFINE h == HashOf[x]
           d == Store(c, h, v)
<1>1. h \in Hash /\ 0 < c.size /\ c.size <= Len(c.pool)
  BY HashAssumption DEF Regular
<1>2. CacheOf(c, Hash, V) /\ WellFormed(c)
  BY DEF Regular
<1> HIDE DEF h
<1>3. ~ReserveUndefined(c, h)
  BY <1>1, <1>2, ReserveIsDefined
<1>4. d.size = c.size /\ Len(d.pool) = Len(c.pool)
  BY <1>1, <1>2, <1>3, StoredCache
<1>5. /\ CacheOf(d, Hash, V) /\ WellFormed(d) /\ ValueAt(d, h) = v
      /\ \A g \in Mapped(d) \ {h} : ValueAt(d, g) = ValueAt(c, g)
  BY <1>1, <1>2, StoredValues
<1>6. \A g \in Mapped(d) \ {h} : g \in Mapped(c)
  <2>1. Mapped(d) = Mapped(Reserve(c, h))
    BY DEF Store, Assign, Cache, Mapped
  <2> HIDE DEF d
  <2> QED BY <1>1, <1>2, <1>3, <2>1, ReservedCache
<1> HIDE DEF d
<1>7. Regular(d, V)
  BY <1>1, <1>2, <1>4, <1>5 DEF Regular
<1>8. ASSUME v = x, OfItsPoints(c) PROVE OfItsPoints(d)
  BY <1>5, <1>6, <1>8 DEF OfItsPoints, h
<1> QED BY <1>7, <1>8 DEF d, h

\* What a member's cache may hold: the engine's data may be of no point yet.
MemberContents == Points \cup {Nowhere, Blank}

\* The caches, for values and for jacobians, of one CachedFunction.
RegularCaches(m, V) == DOMAIN m = Queries /\ \A q \in Queries : Regular(m[q], V)

\* Every cache of the pool is regular, and the result is of the last call.
Calls == [query : Queries, at : Points \cup {Nowhere}, ofPool : BOOLEAN, ran : BOOLEAN]
Chosen ==
  /\ cachedEngine \in EngineKinds /\ cachedEngine \in BOOLEAN
  /\ sizes \in [Caching -> CacheSizes]
PoolShape ==
  /\ Chosen /\ disturbed \subseteq Queries
  /\ engine \in [Queries -> Points \cup {Nowhere}]
  /\ RegularCaches(engineCache, Points \cup {Blank})
  /\ DOMAIN memberCache = CachedMembers
  /\ \A f \in CachedMembers : RegularCaches(memberCache[f], MemberContents)
  /\ asked \in Calls
  /\ \A i \in DOMAIN result : result[i].at \in MemberContents

\* A regular cache hands out what it may hold.
LEMMA RegularValues ==
  ASSUME NEW V, NEW c, Regular(c, V), NEW h \in Mapped(c)
  PROVE  ValueAt(c, h) \in V
<1>1. CacheOf(c, Hash, V)
  BY DEF Regular
<1>2. c.map[h] \in DOMAIN c.pool /\ c.pool \in Seq(V)
  BY <1>1, CacheFields DEF CacheOf
<1>3. DOMAIN c.pool = 1..Len(c.pool)
  BY <1>1, CacheFields
<1> DEFINE i == c.map[h]
           p == c.pool
<1> HIDE DEF i, p
<1>4. p[i] \in V
  BY <1>2, <1>3, ElementOfSeq DEF i, p
<1> QED BY <1>4 DEF i, p, ValueAt

\* What a call of a member leaves of its cache, and what it answers.
LEMMA MemberIsRegular ==
  ASSUME PoolShape, NEW f, NEW q \in Queries, NEW x \in Points,
         NEW e \in [Queries -> Points \cup {Nowhere}]
  PROVE  /\ f \in CachedMembers => RegularCaches(CacheAfter(f, q, x, e), MemberContents)
         /\ Answer(f, q, x, e) \in MemberContents
<1>1. e[q] \in MemberContents
  BY DEF MemberContents
<1>2. CASE f \notin CachedMembers
  BY <1>1, <1>2 DEF Answer
<1>3. CASE f \in CachedMembers
  <2> DEFINE m == memberCache[f]
  <2>1. RegularCaches(m, MemberContents)
    BY <1>3 DEF PoolShape
  <2>2. Regular(Store(m[q], HashOf[x], e[q]), MemberContents)
    BY <1>1, <2>1, StoredIsRegular DEF RegularCaches
  <2>3. Has(m[q], x) => ValueAt(m[q], HashOf[x]) \in MemberContents
    BY <2>1, RegularValues DEF Has, RegularCaches
  <2> QED BY <1>1, <2>1, <2>2, <2>3 DEF CacheAfter, Answer, RegularCaches
<1> QED BY <1>2, <1>3

\* What a call of the engine leaves of it.
LEMMA EngineIsRegular ==
  ASSUME PoolShape, NEW q \in Queries, NEW x \in Points
  PROVE  /\ EngineAfter(q, x) \in [Queries -> Points \cup {Nowhere}]
         /\ RegularCaches(EngineCacheAfter(q, x), Points \cup {Blank})
<1>1. EngineAfter(q, x) \in [Queries -> Points \cup {Nowhere}]
  BY DEF EngineAfter, EngineFirst, PoolShape
<1>2. RegularCaches(engineCache, Points \cup {Blank}) /\ x \in Points \cup {Blank}
  BY DEF PoolShape
<1>3. Regular(Store(engineCache[q], HashOf[x], x), Points \cup {Blank})
  BY <1>2, StoredIsRegular DEF RegularCaches
<1> QED BY <1>1, <1>2, <1>3 DEF EngineCacheAfter, RegularCaches

\* Before the first call nothing is cached.
LEMMA InitPoolShape == PoolInit => PoolShape
<1> SUFFICES ASSUME PoolInit PROVE PoolShape
  OBVIOUS
<1>1. Chosen /\ disturbed \subseteq Queries
  BY PoolAssumption DEF PoolInit, Chosen, Queries
<1>2. engine \in [Queries -> Points \cup {Nowhere}] /\ asked \in Calls /\ DOMAIN result = {}
  BY DEF PoolInit, NoCall, Calls, Queries
<1>3. \A f \in Caching, q \in Queries : SizeOf(f, q) \in Nat \ {0}
  BY PoolAssumption DEF SizeOf, PoolInit
<1>4. \A f \in Caching, q \in Queries :
        /\ Regular(New(SizeOf(f, q)), Points \cup {Blank})
        /\ Regular(New(SizeOf(f, q)), MemberContents)
  BY <1>3, NewIsRegular DEF MemberContents
<1>5. /\ engineCache = [q \in Queries |-> New(SizeOf(Callback, q))]
      /\ memberCache = [f \in CachedMembers |-> [q \in Queries |-> New(SizeOf(f, q))]]
  BY DEF PoolInit
<1>6. Callback \in Caching /\ CachedMembers \subseteq Caching
  BY DEF Caching
<1> HIDE DEF New, SizeOf
<1>7. RegularCaches(engineCache, Points \cup {Blank})
  BY <1>4, <1>5, <1>6 DEF RegularCaches
<1>8. \A f \in CachedMembers : RegularCaches(memberCache[f], MemberContents)
  BY <1>4, <1>5, <1>6 DEF RegularCaches
<1> QED BY <1>1, <1>2, <1>5, <1>7, <1>8 DEF PoolShape

\* A call of the pool stores in the engine's cache and in those of the members.
LEMMA CallPoolShape ==
  ASSUME PoolShape, NEW q \in Queries, NEW x \in Points, Call(q, x)
  PROVE  PoolShape'
<1> DEFINE e == EngineAfter(q, x)
<1>1. engine' = e /\ engineCache' = EngineCacheAfter(q, x) /\ e \in [Queries -> Points \cup {Nowhere}]
  BY EngineIsRegular DEF Call
<1>2. RegularCaches(engineCache', Points \cup {Blank})
  BY <1>1, EngineIsRegular
<1>3. memberCache' = [f \in CachedMembers |-> CacheAfter(f, q, x, e)] /\ result' = Filled(q, x, e)
  BY <1>1 DEF Call
<1> HIDE DEF e
<1>4. \A f \in CachedMembers : RegularCaches(memberCache'[f], MemberContents)
  BY <1>1, <1>3, MemberIsRegular
<1>5. ASSUME NEW i \in DOMAIN result' PROVE result'[i].at \in MemberContents
  <2>1. PICK f \in Members : result'[i].at = Answer(f, q, x, e)
    BY <1>3, FilledByMembers
  <2>2. Answer(f, q, x, e) \in MemberContents
    BY <1>1, MemberIsRegular
  <2> QED BY <2>1, <2>2
<1>6. asked' \in Calls
  BY DEF Call, Runs, PoolShape, Chosen, Calls
<1>7. Chosen' /\ disturbed' \subseteq Queries
  BY DEF Call, Fixed, PoolShape, Chosen
<1> QED BY <1>1, <1>2, <1>3, <1>4, <1>5, <1>6, <1>7 DEF PoolShape

\* What every other step leaves of the result and of what was chosen.
LEMMA NoResultShape ==
  ASSUME PoolShape, NoResult, Fixed, disturbed' \subseteq Queries
  PROVE  /\ Chosen' /\ asked' \in Calls
         /\ \A i \in DOMAIN result' : result'[i].at \in MemberContents
BY DEF NoResult, NoCall, Fixed, PoolShape, Chosen, Calls, Queries

\* A failed run of the engine.
LEMMA EngineThrowsShape ==
  ASSUME PoolShape, NEW q \in Queries, NEW x \in Points, EngineThrows(q, x)
  PROVE  PoolShape'
<1>1. engine' \in [Queries -> Points \cup {Nowhere}] /\ disturbed' \subseteq Queries
  BY DEF EngineThrows, PoolShape
<1>2. NoResult /\ Fixed /\ UNCHANGED <<engineCache, memberCache>>
  BY DEF EngineThrows
<1> QED BY <1>1, <1>2, NoResultShape DEF PoolShape

\* A member that throws after others have stored.
LEMMA MemberThrowsShape ==
  ASSUME PoolShape, NEW q \in Queries, NEW x \in Points, NEW k, MemberThrows(q, x, k)
  PROVE  PoolShape'
<1> DEFINE e == EngineAfter(q, x)
<1>1. engine' = e /\ engineCache' = EngineCacheAfter(q, x) /\ e \in [Queries -> Points \cup {Nowhere}]
  BY EngineIsRegular DEF MemberThrows
<1>2. RegularCaches(engineCache', Points \cup {Blank})
  BY <1>1, EngineIsRegular
<1>3. memberCache' = [f \in CachedMembers |->
                        IF f \in Before(k) THEN CacheAfter(f, q, x, e) ELSE memberCache[f]]
  BY <1>1 DEF MemberThrows
<1> HIDE DEF e
<1>4. \A f \in CachedMembers : RegularCaches(memberCache'[f], MemberContents)
  BY <1>1, <1>3, MemberIsRegular DEF PoolShape
<1>5. NoResult /\ Fixed /\ disturbed' \subseteq Queries
  BY DEF MemberThrows, Disturbs, PoolShape
<1> QED BY <1>1, <1>2, <1>3, <1>4, <1>5, NoResultShape DEF PoolShape

\* The engine, and a member, called on its own.
LEMMA DirectShape ==
  ASSUME PoolShape, NEW q \in Queries, NEW x \in Points,
         CallEngine(q, x) \/ \E f \in Members : CallMember(f, q, x)
  PROVE  PoolShape'
<1>1. CASE CallEngine(q, x)
  <2>1. /\ engine' \in [Queries -> Points \cup {Nowhere}]
        /\ RegularCaches(engineCache', Points \cup {Blank})
    BY <1>1, EngineIsRegular DEF CallEngine
  <2>2. NoResult /\ Fixed /\ disturbed' \subseteq Queries /\ UNCHANGED memberCache
    BY <1>1 DEF CallEngine, Disturbs, PoolShape
  <2> QED BY <2>1, <2>2, NoResultShape DEF PoolShape
<1>2. ASSUME NEW f \in Members, CallMember(f, q, x) PROVE PoolShape'
  <2>1. NoResult /\ Fixed /\ disturbed' \subseteq Queries /\ UNCHANGED <<engine, engineCache>>
    BY <1>2 DEF CallMember, Disturbs, PoolShape
  <2>2. f \in CachedMembers => RegularCaches(CacheAfter(f, q, x, engine), MemberContents)
    BY MemberIsRegular DEF PoolShape
  <2>3. memberCache' = IF f \in CachedMembers
                       THEN [memberCache EXCEPT ![f] = CacheAfter(f, q, x, engine)]
                       ELSE memberCache
    BY <1>2 DEF CallMember
  <2>4. /\ DOMAIN memberCache' = CachedMembers
        /\ \A g \in CachedMembers : RegularCaches(memberCache'[g], MemberContents)
    BY <2>2, <2>3 DEF PoolShape
  <2> QED BY <2>1, <2>4, NoResultShape DEF PoolShape
<1> QED BY <1>1, <1>2

\* A reset of some caches, or of all.
LEMMA ResetShape ==
  ASSUME PoolShape, NEW S, ResetCaches(S)
  PROVE  PoolShape'
<1>1. ASSUME NEW m, NEW V, RegularCaches(m, V) PROVE RegularCaches(AllCleared(m), V)
  BY <1>1, ClearedIsRegular DEF RegularCaches, AllCleared
<1>2. RegularCaches(engineCache', Points \cup {Blank})
  BY <1>1 DEF ResetCaches, PoolShape
<1>3. /\ DOMAIN memberCache' = CachedMembers
      /\ \A f \in CachedMembers : RegularCaches(memberCache'[f], MemberContents)
  BY <1>1 DEF ResetCaches, PoolShape
<1>4. NoResult /\ Fixed /\ disturbed' \subseteq Queries /\ UNCHANGED engine
  BY DEF ResetCaches, PoolShape
<1> QED BY <1>2, <1>3, <1>4, NoResultShape DEF PoolShape

\* So every step keeps it.
LEMMA NextPoolShape == PoolShape /\ [PoolNext]_poolVars => PoolShape'
<1> SUFFICES ASSUME PoolShape, [PoolNext]_poolVars PROVE PoolShape'
  OBVIOUS
<1>1. CASE PoolNext
  BY <1>1, CallPoolShape, EngineThrowsShape, MemberThrowsShape, DirectShape, ResetShape
  DEF PoolNext
<1>2. CASE UNCHANGED poolVars
  BY <1>2 DEF poolVars, PoolShape, Chosen
<1> QED BY <1>1, <1>2

(***************************************************************************)
(* Whose answers they are.                                                 *)
(***************************************************************************)

\* No cache of a member holds the data of another point, and the members'
\* caches hold what the engine's does: a point the engine finds, they find.
InStep(q, member, common) ==
  \A f \in CachedMembers :
    OfItsPoints(member[f][q]) /\ (cachedEngine => member[f][q] = common[q])
Lockstep == \A q \in Queries \ disturbed : InStep(q, memberCache, engineCache)

\* A call stores in the caches it asks only.
LEMMA OtherQueries ==
  ASSUME NEW f, NEW q, NEW x, NEW e, NEW p, p # q
  PROVE  CacheAfter(f, q, x, e)[p] = memberCache[f][p] /\ EngineCacheAfter(q, x)[p] = engineCache[p]
BY DEF CacheAfter, EngineCacheAfter

\* What a call stores in one member, the engine has stored too.
LEMMA StoredTogether ==
  ASSUME PoolShape, NEW f \in CachedMembers, NEW q \in Queries, NEW x \in Points,
         NEW p \in Queries, OfItsPoints(memberCache[f][p]),
         cachedEngine => memberCache[f][p] = engineCache[p]
  PROVE  /\ cachedEngine =>
              CacheAfter(f, q, x, EngineAfter(q, x))[p] = EngineCacheAfter(q, x)[p]
         /\ OfItsPoints(CacheAfter(f, q, x, EngineAfter(q, x))[p])
<1> DEFINE m == memberCache[f]
           e == EngineAfter(q, x)
<1>1. DOMAIN m = Queries /\ DOMAIN engineCache = Queries /\ Regular(m[q], MemberContents)
  BY DEF PoolShape, RegularCaches
<1>2. CASE p # q
  BY <1>2, OtherQueries
<1>3. CASE p = q /\ Has(m[q], x)
  <2>1. CacheAfter(f, q, x, e) = m
    BY <1>3 DEF CacheAfter
  <2>2. cachedEngine => EngineCacheAfter(q, x) = engineCache
    BY <1>3 DEF EngineCacheAfter, Runs
  <2> QED BY <2>1, <2>2
<1>4. CASE p = q /\ ~Has(m[q], x)
  <2>1. Runs(q, x)
    BY <1>4 DEF Runs
  <2>2. e[q] = x
    BY <2>1 DEF EngineAfter, EngineFirst, PoolShape
  <2> DEFINE d == Store(m[q], HashOf[x], x)
  <2>3. CacheAfter(f, q, x, e) = [m EXCEPT ![q] = d]
    BY <1>4, <2>2 DEF CacheAfter
  <2>4. cachedEngine => EngineCacheAfter(q, x) = [engineCache EXCEPT ![q] = d]
    BY <1>4, <2>1 DEF EngineCacheAfter
  <2>5. OfItsPoints(d)
    <3>1. x \in MemberContents
      BY DEF MemberContents
    <3> QED BY <1>1, <1>4, <3>1, StoredIsRegular
  <2> HIDE DEF d, e, m
  <2> QED BY <1>1, <1>4, <2>3, <2>4, <2>5 DEF m, e
<1> QED BY <1>2, <1>3, <1>4

\* A call of the pool stores the point in all of them or in none.
LEMMA CallLockstep ==
  ASSUME PoolShape, Lockstep, NEW q \in Queries, NEW x \in Points, Call(q, x)
  PROVE  Lockstep'
<1> SUFFICES ASSUME NEW p \in Queries \ disturbed, NEW f \in CachedMembers
             PROVE  /\ OfItsPoints(memberCache'[f][p])
                    /\ cachedEngine => memberCache'[f][p] = engineCache'[p]
  BY DEF Lockstep, InStep, Call, Fixed, OfItsPoints, Queries
<1>1. /\ memberCache'[f] = CacheAfter(f, q, x, EngineAfter(q, x))
      /\ engineCache' = EngineCacheAfter(q, x)
  BY DEF Call
<1>2. /\ OfItsPoints(memberCache[f][p])
      /\ cachedEngine => memberCache[f][p] = engineCache[p]
  BY DEF Lockstep, InStep
<1> QED BY <1>1, <1>2, StoredTogether

\* A function that throws sets them apart only if the engine has just stored.
LEMMA MemberThrowsLockstep ==
  ASSUME PoolShape, Lockstep, NEW q \in Queries, NEW x \in Points, NEW k,
         MemberThrows(q, x, k)
  PROVE  Lockstep'
<1>1. /\ disturbed' = IF cachedEngine /\ Runs(q, x) THEN disturbed \cup {q} ELSE disturbed
      /\ cachedEngine' = cachedEngine
  BY DEF MemberThrows, Disturbs, Fixed
<1> SUFFICES ASSUME NEW p \in Queries \ disturbed, p = q => ~(cachedEngine /\ Runs(q, x)),
                    NEW f \in CachedMembers
             PROVE  /\ OfItsPoints(memberCache'[f][p])
                    /\ cachedEngine => memberCache'[f][p] = engineCache'[p]
  BY <1>1 DEF Lockstep, InStep, OfItsPoints, Queries
<1> DEFINE after == CacheAfter(f, q, x, EngineAfter(q, x))
<1>2. /\ memberCache'[f] = IF f \in Before(k) THEN after ELSE memberCache[f]
      /\ engineCache' = EngineCacheAfter(q, x)
  BY DEF MemberThrows
<1>3. /\ OfItsPoints(memberCache[f][p])
      /\ cachedEngine => memberCache[f][p] = engineCache[p]
  BY DEF Lockstep, InStep
<1>4. /\ cachedEngine => after[p] = EngineCacheAfter(q, x)[p]
      /\ OfItsPoints(after[p])
  BY <1>3, StoredTogether
<1> HIDE DEF after
<1>5. cachedEngine => EngineCacheAfter(q, x)[p] = engineCache[p]
  <2>1. p # q => EngineCacheAfter(q, x)[p] = engineCache[p]
    BY OtherQueries
  <2> QED BY <2>1 DEF EngineCacheAfter
<1> QED BY <1>2, <1>3, <1>4, <1>5

\* So does the engine, called on its own.
LEMMA CallEngineLockstep ==
  ASSUME Lockstep, NEW q \in Queries, NEW x \in Points, CallEngine(q, x)
  PROVE  Lockstep'
<1>1. /\ disturbed' = IF cachedEngine /\ Runs(q, x) THEN disturbed \cup {q} ELSE disturbed
      /\ cachedEngine' = cachedEngine /\ memberCache' = memberCache
      /\ engineCache' = EngineCacheAfter(q, x)
  BY DEF CallEngine, Disturbs, Fixed
<1>2. ASSUME NEW p \in Queries \ disturbed, p = q => ~(cachedEngine /\ Runs(q, x))
      PROVE  cachedEngine => EngineCacheAfter(q, x)[p] = engineCache[p]
  <2>1. p # q => EngineCacheAfter(q, x)[p] = engineCache[p]
    BY OtherQueries
  <2> QED BY <1>2, <2>1 DEF EngineCacheAfter
<1> QED BY <1>1, <1>2 DEF Lockstep, InStep, OfItsPoints, Queries

\* So does a function with a cache that computes.
LEMMA CallMemberLockstep ==
  ASSUME PoolShape, Lockstep, NEW q \in Queries, NEW x \in Points, NEW f, CallMember(f, q, x)
  PROVE  Lockstep'
<1> DEFINE computes == f \in CachedMembers /\ ~Has(memberCache[f][q], x)
           m == CacheAfter(f, q, x, engine)
<1>1. /\ disturbed' = IF computes THEN disturbed \cup {q} ELSE disturbed
      /\ UNCHANGED <<cachedEngine, engineCache>>
      /\ memberCache' = IF f \in CachedMembers THEN [memberCache EXCEPT ![f] = m] ELSE memberCache
  BY DEF CallMember, Disturbs, Fixed
<1>2. ASSUME NEW p \in Queries \ disturbed, p = q => ~computes
      PROVE  f \in CachedMembers => m[p] = memberCache[f][p]
  <2>1. p # q => m[p] = memberCache[f][p]
    BY OtherQueries
  <2> QED BY <1>2, <2>1 DEF CacheAfter
<1>3. DOMAIN memberCache = CachedMembers
  BY DEF PoolShape
<1> HIDE DEF computes, m
<1>4. ASSUME NEW p \in Queries \ disturbed, p = q => ~computes, NEW g \in CachedMembers
      PROVE  memberCache'[g][p] = memberCache[g][p]
  <2>1. CASE g = f
    BY <1>1, <1>2, <1>3, <1>4, <2>1
  <2>2. CASE g # f
    BY <1>1, <1>3, <2>2
  <2> QED BY <2>1, <2>2
<1> SUFFICES ASSUME NEW p \in Queries \ disturbed, p = q => ~computes, NEW g \in CachedMembers
             PROVE  /\ OfItsPoints(memberCache'[g][p])
                    /\ cachedEngine => memberCache'[g][p] = engineCache'[p]
  BY <1>1 DEF Lockstep, InStep, OfItsPoints, Queries
<1>5. /\ OfItsPoints(memberCache[g][p])
      /\ cachedEngine => memberCache[g][p] = engineCache[p]
  BY DEF Lockstep, InStep
<1> QED BY <1>1, <1>4, <1>5

\* Caches that are reset together stay in step.
LEMMA ResetLockstep ==
  ASSUME PoolShape, Lockstep, NEW S, ResetCaches(S)
  PROVE  Lockstep'
<1>1. /\ disturbed' = IF cachedEngine /\ S # Caching THEN Queries ELSE disturbed
      /\ cachedEngine' = cachedEngine
  BY DEF ResetCaches, Fixed
<1> SUFFICES ASSUME NEW p \in Queries \ disturbed, cachedEngine => S = Caching,
                    NEW f \in CachedMembers
             PROVE  /\ OfItsPoints(memberCache'[f][p])
                    /\ cachedEngine => memberCache'[f][p] = engineCache'[p]
  BY <1>1 DEF Lockstep, InStep, OfItsPoints, Queries
<1>2. f \in Caching /\ Callback \in Caching
  BY DEF Caching
<1>3. /\ OfItsPoints(memberCache[f][p])
      /\ cachedEngine => memberCache[f][p] = engineCache[p]
  BY DEF Lockstep, InStep
<1>4. OfItsPoints(Cleared(memberCache[f][p]))
  BY ClearedIsRegular DEF PoolShape, RegularCaches
<1>5. /\ memberCache'[f][p] = IF f \in S THEN Cleared(memberCache[f][p]) ELSE memberCache[f][p]
      /\ engineCache'[p] = IF Callback \in S THEN Cleared(engineCache[p]) ELSE engineCache[p]
  BY DEF ResetCaches, AllCleared
<1> QED BY <1>2, <1>3, <1>4, <1>5

\* So every step keeps them in step, or names the query.
LEMMA NextLockstep == PoolShape /\ Lockstep /\ [PoolNext]_poolVars => Lockstep'
<1> SUFFICES ASSUME PoolShape, Lockstep, [PoolNext]_poolVars PROVE Lockstep'
  OBVIOUS
<1>1. CASE UNCHANGED <<cachedEngine, engineCache, memberCache, disturbed>>
  BY <1>1 DEF Lockstep, InStep, OfItsPoints, Queries
<1>2. ASSUME NEW q \in Queries, NEW x \in Points, EngineThrows(q, x) PROVE Lockstep'
  BY <1>1, <1>2 DEF EngineThrows, Fixed
<1> QED BY <1>1, <1>2, CallLockstep, MemberThrowsLockstep, CallEngineLockstep,
          CallMemberLockstep, ResetLockstep DEF PoolNext, poolVars

\* At first no cache has an entry.
LEMMA InitLockstep == PoolInit => Lockstep
<1> SUFFICES ASSUME PoolInit, NEW q \in Queries \ disturbed, NEW f \in CachedMembers
             PROVE  /\ OfItsPoints(memberCache[f][q])
                    /\ cachedEngine => memberCache[f][q] = engineCache[q]
  BY DEF Lockstep, InStep
<1>1. f \in Caching /\ SizeOf(f, q) \in Nat \ {0}
  BY PoolAssumption DEF SizeOf, PoolInit, Caching
<1>2. OfItsPoints(New(SizeOf(f, q)))
  BY <1>1, NewIsRegular DEF MemberContents
<1>3. memberCache[f][q] = New(SizeOf(f, q)) /\ engineCache[q] = New(SizeOf(Callback, q))
  BY DEF PoolInit
<1>4. cachedEngine => SizeOf(f, q) = SizeOf(Callback, q)
  <2>1. cachedEngine /\ ~OneSize => q # "value"
    BY DEF PoolInit
  <2> QED BY <2>1 DEF SizeOf, OneSize
<1> HIDE DEF New, SizeOf
<1> QED BY <1>2, <1>3, <1>4

\* A call then fills in answers of its own argument.
LEMMA CallAnswers ==
  ASSUME \A x, y \in Points : HashOf[x] = HashOf[y] => x = y,
         PoolShape, Lockstep, NEW q \in Queries, NEW x \in Points, Call(q, x)
  PROVE  AnswersAreOfTheArgument'
<1>1. /\ asked'.at = x /\ asked'.ran = Runs(q, x) /\ asked'.query = q
      /\ result' = Filled(q, x, engine') /\ engine' = EngineAfter(q, x)
      /\ disturbed' = disturbed
  BY DEF Call
<1> SUFFICES ASSUME q \notin disturbed, NEW i \in DOMAIN result'
             PROVE  result'[i].at = x \/ (~Runs(q, x) /\ result'[i].of \notin CachedMembers)
  BY <1>1 DEF AnswersAreOfTheArgument
<1>2. PICK f \in Members : result'[i].of = f /\ result'[i].at = Answer(f, q, x, engine')
  BY <1>1, FilledByMembers
<1>3. CASE f \in CachedMembers /\ Has(memberCache[f][q], x)
  <2> DEFINE v == ValueAt(memberCache[f][q], HashOf[x])
  <2>1. v \in Points /\ HashOf[v] = HashOf[x]
    BY <1>3 DEF Lockstep, InStep, OfItsPoints, Has
  <2>2. Answer(f, q, x, engine') = v
    BY <1>3 DEF Answer
  <2> HIDE DEF v
  <2> QED BY <1>2, <2>1, <2>2
<1>4. CASE ~(f \in CachedMembers /\ Has(memberCache[f][q], x))
  <2>1. Answer(f, q, x, engine') = engine'[q]
    BY <1>4 DEF Answer
  <2>2. Runs(q, x) => engine'[q] = x
    BY <1>1 DEF EngineAfter, EngineFirst, PoolShape
  <2>3. ~Runs(q, x) => f \notin CachedMembers
    BY <1>4 DEF Runs, Lockstep, InStep
  <2> QED BY <1>2, <2>1, <2>2, <2>3
<1> QED BY <1>3, <1>4

\* A call lists every output in its place.
LEMMA CallIsPacked ==
  ASSUME NEW q, NEW x, Call(q, x)
  PROVE  OutputsArePacked'
<1>1. result' = Filled(q, x, engine')
  BY DEF Call
<1> DEFINE e == engine'
<1> HIDE DEF e
<1>2. result' = Filled(q, x, e)
  BY <1>1 DEF e
<1> QED BY <1>2, FilledIsPacked DEF OutputsArePacked

\* Only a call of the pool leaves a result, and no step shortens `disturbed`.
LEMMA OthersHaveNoResult ==
  ASSUME [PoolNext]_poolVars
  PROVE  \/ \E q \in Queries, x \in Points : Call(q, x)
         \/ asked'.ofPool = FALSE
         \/ UNCHANGED <<asked, result, disturbed>>
BY DEF PoolNext, EngineThrows, MemberThrows, CallEngine, CallMember, ResetCaches,
       NoResult, NoCall, poolVars

(***************************************************************************)
(* The theorems.                                                           *)
(***************************************************************************)

\* Type correctness, agreement of the three vectors and of what was given are
\* an invariant together, for every set of constraints, intervals and factors
\* and every bound on their number.
THEOREM ProblemInvariance == Spec => []IInv
BY InitIInv, NextIInv, PTL DEF Spec

\* Entry k of the three vectors is of one constraint, with an interval and a
\* factor for each of its outputs, after any calls, refused ones included.
THEOREM VectorAgreement == Spec => []VectorsAgree
<1>1. IInv => VectorsAgree
  BY DEF IInv
<1> QED BY <1>1, ProblemInvariance, PTL

\* scaledJacobian () has each differentiable output's gradient with its own
\* factor and those of the arguments, in order and without a gap, whatever
\* constraints that are not differentiable stand between.
THEOREM ScalingFollowsOutputs == Spec => []RowsKeepTheirScaling
BY ScalingIsKept, ProblemInvariance, PTL

\* constraintsViolationVector () has at each output's place a violation with
\* the sign of its own bounds, for every argument and every value of the
\* outputs.
THEOREM SignsFollowOutputs == Spec => []ViolationsHaveTheirSign
BY SignsAreRight, ProblemInvariance, PTL

\* The caches of a pool, of its engine and of its functions, stay regular for
\* any functions, points, hash function and sizes.
THEOREM PoolTypes == PoolSpec => []PoolTypeOK
<1>1. PoolShape => PoolTypeOK
  BY DEF PoolShape, PoolTypeOK, Chosen, Calls, RegularCaches, Regular, MemberContents
<1> QED BY <1>1, InitPoolShape, NextPoolShape, PTL DEF PoolSpec

\* Every output of every function of a pool is in its result once, in the
\* order of the list, whatever the functions and their sizes.
THEOREM PackedOutputs == PoolSpec => []OutputsArePacked
<1>1. PoolInit => OutputsArePacked
  BY DEF PoolInit, NoCall, OutputsArePacked
<1>2. OutputsArePacked /\ [PoolNext]_poolVars => OutputsArePacked'
  <2> SUFFICES ASSUME OutputsArePacked, [PoolNext]_poolVars PROVE OutputsArePacked'
    OBVIOUS
  <2>1. CASE \E q \in Queries, x \in Points : Call(q, x)
    BY <2>1, CallIsPacked
  <2>2. CASE asked'.ofPool = FALSE
    BY <2>2 DEF OutputsArePacked
  <2>3. CASE UNCHANGED <<asked, result>>
    BY <2>3 DEF OutputsArePacked
  <2> QED BY <2>1, <2>2, <2>3, OthersHaveNoResult
<1> QED BY <1>1, <1>2, PTL DEF PoolSpec

\* If the hash tells the points apart, every output of a call of the pool is of
\* its argument, whichever of the engine and the functions threw before and
\* whatever was reset: but for functions without a cache behind an engine that
\* answers from its own, and for a query of which the caches may have parted,
\* which takes one of the steps that `disturbed` records.
THEOREM AnswersBelong ==
  ASSUME \A x, y \in Points : HashOf[x] = HashOf[y] => x = y
  PROVE  PoolSpec => []AnswersAreOfTheArgument
<1> DEFINE Inv == PoolShape /\ Lockstep /\ AnswersAreOfTheArgument
<1>1. PoolInit => Inv
  BY InitPoolShape, InitLockstep DEF PoolInit, NoCall, AnswersAreOfTheArgument
<1>2. Inv /\ [PoolNext]_poolVars => Inv'
  <2> SUFFICES ASSUME Inv, [PoolNext]_poolVars PROVE AnswersAreOfTheArgument'
    BY NextPoolShape, NextLockstep
  <2>1. CASE \E q \in Queries, x \in Points : Call(q, x)
    BY <2>1, CallAnswers
  <2>2. CASE asked'.ofPool = FALSE
    BY <2>2 DEF AnswersAreOfTheArgument
  <2>3. CASE UNCHANGED <<asked, result, disturbed>>
    BY <2>3 DEF AnswersAreOfTheArgument
  <2> QED BY <2>1, <2>2, <2>3, OthersHaveNoResult
<1> QED BY <1>1, <1>2, PTL DEF PoolSpec

\* With an engine that is not a CachedFunction only a direct call of a function
\* with a cache can part them: if the tests' calls are left out, the answers
\* are of the argument without exception.
THEOREM AnswersBelongUncached ==
  ASSUME \A x, y \in Points : HashOf[x] = HashOf[y] => x = y,
         EngineKinds = {FALSE}, DirectCalls \cap CachedMembers = {}
  PROVE  PoolSpec =>
           [](asked.ofPool => \A i \in DOMAIN result : result[i].at = asked.at)
<1> DEFINE Quiet == disturbed = {} /\ cachedEngine = FALSE /\ (asked.ofPool => asked.ran)
<1>1. PoolInit => Quiet
  BY DEF PoolInit, NoCall
<1>2. Quiet /\ [PoolNext]_poolVars => Quiet'
  <2> SUFFICES ASSUME Quiet, [PoolNext]_poolVars PROVE Quiet'
    OBVIOUS
  <2>1. ASSUME NEW q, NEW x, Call(q, x) PROVE Quiet'
    <3>1. asked'.ran = Runs(q, x) /\ disturbed' = disturbed /\ cachedEngine' = cachedEngine
      BY <2>1 DEF Call, Fixed
    <3>2. Runs(q, x)
      BY DEF Runs
    <3> QED BY <3>1, <3>2
  <2>2. \A q, x : EngineThrows(q, x) => Quiet'
    BY DEF EngineThrows, NoResult, NoCall, Fixed
  <2>3. \A q, x, k : MemberThrows(q, x, k) => Quiet'
    BY DEF MemberThrows, NoResult, NoCall, Fixed, Disturbs
  <2>4. \A q, x : CallEngine(q, x) => Quiet'
    BY DEF CallEngine, NoResult, NoCall, Fixed, Disturbs
  <2>5. \A q, x, f : CallMember(f, q, x) => Quiet'
    BY DEF CallMember, NoResult, NoCall, Fixed, Disturbs
  <2>6. \A S : ResetCaches(S) => Quiet'
    BY DEF ResetCaches, NoResult, NoCall, Fixed
  <2>7. UNCHANGED poolVars => Quiet'
    BY DEF poolVars
  <2> HIDE DEF Quiet
  <2> QED BY <2>1, <2>2, <2>3, <2>4, <2>5, <2>6, <2>7 DEF PoolNext
<1>3. Quiet /\ AnswersAreOfTheArgument =>
        (asked.ofPool => \A i \in DOMAIN result : result[i].at = asked.at)
  BY DEF AnswersAreOfTheArgument
<1> QED BY <1>1, <1>2, <1>3, AnswersBelong, PTL DEF PoolSpec

=============================================================================
