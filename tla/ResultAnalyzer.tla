---------------------------- MODULE ResultAnalyzer ----------------------------
(***************************************************************************)
(* roboptim::ResultAnalyzer<T> (result-analyzer.hxx): three checks of the  *)
(* result of an optimization, LICQ, KKT and null gradients, asked for in   *)
(* any order.  They share the jacobian of the active set, computed by the  *)
(* first of them and kept in mutable members, so that what a check answers *)
(* may depend on the checks before it, and on those that failed.           *)
(*                                                                         *)
(* The problem and the result are constant copies: the variables of        *)
(* Problem.tla, and any values of its outputs at the result.  Gradients    *)
(* are given per output; eps_ being smaller than one, bounds that are      *)
(* reached, ranks and norms are decided by integers, ranks for at most two *)
(* arguments.                                                              *)
(***************************************************************************)
EXTENDS Problem, FiniteSetsExt

CONSTANTS
  Gradients,      \* of each differentiable constraint: a row per output
  Objective,      \* gradient of function () at the result
  Situations,     \* of an output at the result: [bounds, value]
  ArgumentSituations,  \* of an argument: [bounds, value]
  Multipliers,    \* the values of lambda for one argument or output
  MaxOutputs, MaxMultipliers, MaxFailures
                  \* bounds: outputs of the constraints, multipliers other
                  \* than zero, computations of the active set that throw

ASSUME GradientsAssumption ==
  /\ InputSize <= 2
  /\ \A c \in Differentiable : \A i \in 1..OutOf[c] : Gradients[c][i] \in [1..InputSize -> Int]
  /\ Objective \in [1..InputSize -> Int] /\ Multipliers \subseteq Int
ASSUME BoundsAssumption == MaxConstraints \in Nat /\ MaxOutputs \in Nat
ASSUME SituationsAssumption ==
  /\ 1 \in Scales
  /\ \A s \in Situations : s.bounds \in Intervals /\ s.value \in Levels
  /\ \A s \in ArgumentSituations : s.bounds \in Intervals \cup {Free} /\ s.value \in Levels

VARIABLES
  x,         \* res_.x
  values,    \* of the outputs of each constraint at x
  lambda,    \* res_.lambda
  cache,     \* the mutable members
  answer,    \* of the last check
  ending,    \* of the last check: "ok", "exception" or "undefined"
  failures   \* history: computations of the active set that threw

analyzed == <<vars, x, values, lambda>>
analyzerVars == <<analyzed, cache, answer, ending, failures>>

-----------------------------------------------------------------------------

NoMatrix == [made |-> FALSE, rows |-> <<>>]
Matrix(rows) == [made |-> TRUE, rows |-> rows]

Total(s) == FoldLeft(LAMBDA a, b : a + b, 0, s)
Problems ==
  {s \in UNION {[1..k -> {c \in Constraints : InOf[c] = InputSize}] : k \in 0..MaxConstraints} :
     Total([k \in DOMAIN s |-> OutOf[s[k]]]) <= MaxOutputs}
Lambdas(size) ==
  {l \in [1..size -> Multipliers \cup {0}] :
     Cardinality({i \in 1..size : l[i] # 0}) <= MaxMultipliers}
BoundsIn(s) == [i \in DOMAIN s |-> s[i].bounds]
ValuesIn(s) == [i \in DOMAIN s |-> s[i].value]

\* hasLambda: a result may come without multipliers; the last is of the
\* objective.
HasLambda == Len(lambda) = InputSize + ConstraintsOutputSize + 1

NoCache == [activeJac |-> NoMatrix, jac |-> NoMatrix, activeCstrIndices |-> <<>>,
            ineqIndices |-> <<>>, isLowerBound |-> <<>>]

\* A constraint that was added twice has the same values twice.
AnalyzerInit ==
  /\ constraints \in Problems
  /\ \E s \in [DOMAIN constraints -> UNION {[1..k -> Situations] : k \in 0..MaxOutputs}] :
       /\ \A k \in DOMAIN constraints : Len(s[k]) = OutOf[constraints[k]]
       /\ \A k, l \in DOMAIN constraints :
            constraints[k] = constraints[l] => ValuesIn(s[k]) = ValuesIn(s[l])
       /\ boundsVect = [k \in DOMAIN s |-> BoundsIn(s[k])]
       /\ values = [k \in DOMAIN s |-> ValuesIn(s[k])]
  /\ scalingVect = [k \in DOMAIN boundsVect |-> [i \in DOMAIN boundsVect[k] |-> 1]]
  /\ \E s \in [1..InputSize -> ArgumentSituations] :
       argumentBounds = BoundsIn(s) /\ x = ValuesIn(s)
  /\ argumentScaling = InitialScaling /\ startingPoint = 0 /\ outcome = "ok"
  /\ given = [k \in DOMAIN constraints |->
                [constraint |-> constraints[k], bounds |-> boundsVect[k],
                 scaling |-> scalingVect[k]]]
  /\ \/ lambda = <<>>
     \/ \E l \in Lambdas(InputSize + ConstraintsOutputSize) : lambda = Append(l, 1)
  /\ cache = NoCache /\ answer = [check |-> "none"] /\ ending = "ok" /\ failures = 0

-----------------------------------------------------------------------------
(* The active set. *)

IsActive(v, b) == v \in {b.lower, b.upper}
ActiveBound(j) == IsActive(x[j], argumentBounds[j])
ActiveOutput(k, i) == IsActive(values[k][i], boundsVect[k][i])

\* What a loop over 1..n pushes back: those that are in C, in order.
InOrder(n, C) ==
  FoldLeft(LAMBDA s, i : IF i \in C THEN Append(s, i) ELSE s, <<>>, [i \in 1..n |-> i])

ActiveBounds == InOrder(InputSize, {j \in 1..InputSize : ActiveBound(j)})

\* The outputs of the first k constraints, in the order of the loop.
Walk(k) ==
  FlattenSeq([c \in 1..k |->
    [j \in 1..OutOf[constraints[c]] |-> [global |-> c, local |-> j]]])
ActiveIn(walk) == {i \in DOMAIN walk : ActiveOutput(walk[i].global, walk[i].local)}
\* idx advances with the active outputs only
PackedActive(walk) == [i \in 1..Cardinality(ActiveIn(walk)) |-> i]
ActiveConstraints(walk) == InOrder(Len(walk), ActiveIn(walk))

\* The members the loop appends to, after the first k constraints: index.active
\* is the size of activeCstrIndices_ so far.
Appended(k) ==
  LET walk == Walk(k)
      active == InOrder(Len(walk), ActiveIn(walk))
      size == Len(cache.activeCstrIndices)
  IN [cache EXCEPT
        !.activeCstrIndices =
           @ \o [i \in DOMAIN active |->
                   [global |-> walk[active[i]].global, local |-> walk[active[i]].local,
                    active |-> size + i]],
        !.isLowerBound =
           @ \o [j \in 1..InputSize |-> x[j] = argumentBounds[j].lower]
             \o [i \in DOMAIN walk |-> values[walk[i].global][walk[i].local]
                                         = boundsVect[walk[i].global][walk[i].local].lower]]

Unit(j) == [i \in 1..InputSize |-> IF i = j THEN 1 ELSE 0]
ZeroGradient == [i \in 1..InputSize |-> 0]
BoundRows == LET from == ActiveBounds IN [i \in DOMAIN from |-> Unit(from[i])]

\* pb_.jacobian (x)
GradientRows ==
  LET rows == Jacobian IN [r \in DOMAIN rows |-> Gradients[rows[r].of][rows[r].output]]

\* computeJacobian, which keeps what it has
JacobianOf(c) == IF c.jac.made THEN c.jac ELSE Matrix(GradientRows)

\* copyRow reads row activeConstraints[i] of the jacobian, which has only
\* rows of differentiable constraints.
Everything == Walk(Len(constraints))
RowsInRange ==
  LET from == ActiveConstraints(Everything)
      rows == JacobianOf(cache).rows
  IN \A i \in DOMAIN from : from[i] <= Len(rows)
ActiveRows ==
  LET from == ActiveConstraints(Everything)
      rows == JacobianOf(cache).rows
  IN BoundRows \o [i \in DOMAIN from |-> rows[from[i]]]

\* computeActiveJacobian, with its early return
ActiveComputed ==
  [Appended(Len(constraints)) EXCEPT !.jac = JacobianOf(cache),
                                     !.activeJac = Matrix(ActiveRows)]
Analyzed == IF cache.activeJac.made THEN cache ELSE ActiveComputed

\* findIneqIndices
Ineqs ==
  LET bounds == argumentBounds \o FlattenSeq(boundsVect)
  IN InOrder(Len(bounds), {i \in DOMAIN bounds : bounds[i].lower # bounds[i].upper})
WithIneqs(c) == IF Len(c.ineqIndices) > 0 THEN c ELSE [c EXCEPT !.ineqIndices = Ineqs]

-----------------------------------------------------------------------------
(* What the checks compute from it. *)

\* Two vectors, of at most two components, that are independent.
Independent(u, v) == \E a, b \in 1..InputSize : u[a] * v[b] # u[b] * v[a]

\* computeRank
Rank(rows) ==
  IF \E i, j \in DOMAIN rows : Independent(rows[i], rows[j]) THEN 2
  ELSE IF \E i \in DOMAIN rows : rows[i] # ZeroGradient THEN 1 ELSE 0

LICQData(c) ==
  [check |-> "LICQ", rank |-> Rank(c.activeJac.rows),
   max_rank |-> Min({Len(c.activeJac.rows), InputSize})]

\* checkNullGradient, and the constraint and output of each null row
NullGradientData(c) ==
  LET indices == c.activeCstrIndices
      found == InOrder(Len(indices),
                 {i \in DOMAIN indices : c.activeJac.rows[indices[i].active] = ZeroGradient})
  IN [check |-> "null gradient",
      rows |-> [i \in DOMAIN found |-> <<indices[found[i]].global, indices[found[i]].local>>]]

\* gradLagrangian: lambda.segment (0, n) and lambda.segment (n, m)
SegmentAtStart(i) == i
SegmentAt(i) == InputSize + i
GradLagrangian(c) ==
  [j \in 1..InputSize |->
     Objective[j] + lambda[j]
       + Total([i \in 1..ConstraintsOutputSize |-> lambda[SegmentAt(i)] * c.jac.rows[i][j]])]

Abs(v) == IF v < 0 THEN -v ELSE v
Violations == ConstraintsViolationVector(x, [o \in Outputs |-> values[o[1]][o[2]]])

\* The sum over the inequalities, and the sign of the multiplier of a violated
\* one; isLowerBound_ is read at the number of the inequality.
KKTData(c) ==
  LET v == Violations
      sign(i) == IF c.isLowerBound[i] THEN -1 ELSE 1
  IN [check |-> "KKT", has_lambda |-> TRUE,
      grad_L |-> GradLagrangian(c),
      violation |-> Max({0} \cup {Abs(v[i]) : i \in DOMAIN v}),
      complementary_slackness |->
        Total([i \in DOMAIN c.ineqIndices |-> lambda[c.ineqIndices[i]] * v[c.ineqIndices[i]]]),
      dual_feasible |->
        \A i \in DOMAIN c.ineqIndices :
          v[c.ineqIndices[i]] # 0 => sign(i) * lambda[c.ineqIndices[i]] >= 0]
NoKKTData == [check |-> "KKT", has_lambda |-> FALSE]

\* isValid, of each kind of data; without multipliers the gradient is empty.
FullRank(licq) == licq.rank = licq.max_rank
NoNullRow(null_grad) == null_grad.rows = <<>>
Satisfied(kkt) ==
  /\ kkt.has_lambda
  /\ kkt.grad_L = ZeroGradient /\ kkt.violation = 0
  /\ kkt.dual_feasible /\ kkt.complementary_slackness <= 0

-----------------------------------------------------------------------------
(* The checks. *)

Ready == ending # "undefined"

\* Reading past the end of a matrix, or a product of sizes that differ.
Undefined == /\ ending' = "undefined"
             /\ UNCHANGED <<analyzed, cache, answer, failures>>
Answers(c, data) ==
  /\ cache' = c /\ answer' = data /\ ending' = "ok"
  /\ UNCHANGED <<analyzed, failures>>

ActiveSetIsDefined == cache.activeJac.made \/ RowsInRange

CheckLICQ ==
  /\ Ready
  /\ IF ActiveSetIsDefined THEN Answers(Analyzed, LICQData(Analyzed)) ELSE Undefined

CheckNullGradient ==
  /\ Ready
  /\ IF /\ ActiveSetIsDefined
        /\ \A i \in DOMAIN Analyzed.activeCstrIndices :
             Analyzed.activeCstrIndices[i].active <= Len(Analyzed.activeJac.rows)
     THEN Answers(Analyzed, NullGradientData(Analyzed)) ELSE Undefined

CheckKKT ==
  /\ Ready
  /\ IF ~HasLambda THEN Answers(cache, NoKKTData)
     ELSE IF /\ ActiveSetIsDefined
             /\ ConstraintsOutputSize > 0 => Len(Analyzed.jac.rows) = ConstraintsOutputSize
     THEN Answers(WithIneqs(Analyzed), KKTData(WithIneqs(Analyzed))) ELSE Undefined

Throws(c) == /\ cache' = c /\ ending' = "exception" /\ answer' = [check |-> "none"]
             /\ UNCHANGED analyzed

\* The k-th constraint throws as it is evaluated: nothing is resized yet, and
\* the indices of those before it stay.
ConstraintThrows(k) ==
  /\ Ready /\ ~cache.activeJac.made /\ k \in DOMAIN constraints
  /\ Throws(Appended(k - 1))
  /\ failures < MaxFailures /\ failures' = failures + 1

\* A gradient throws within jacobian (x): the rows of bounds are written.
JacobianThrows ==
  /\ Ready /\ ~cache.activeJac.made /\ ~cache.jac.made
  /\ Differentiable \cap {constraints[k] : k \in DOMAIN constraints} # {}
  /\ LET c == Appended(Len(constraints))
         rows == BoundRows \o [i \in DOMAIN ActiveConstraints(Everything) |-> ZeroGradient]
     IN Throws([c EXCEPT !.activeJac = Matrix(rows)])
  /\ failures < MaxFailures /\ failures' = failures + 1

\* The objective throws, or a constraint as violations are computed.
KKTThrows ==
  /\ Ready /\ HasLambda /\ ActiveSetIsDefined
  /\ Throws(WithIneqs(Analyzed)) /\ UNCHANGED failures

AnalyzerNext ==
  \/ CheckLICQ \/ CheckKKT \/ CheckNullGradient
  \/ \E k \in 1..MaxConstraints : ConstraintThrows(k)
  \/ JacobianThrows \/ KKTThrows

AnalyzerSpec == AnalyzerInit /\ [][AnalyzerNext]_analyzerVars

-----------------------------------------------------------------------------

Sound == /\ failures = 0
         /\ \A k \in DOMAIN constraints : constraints[k] \in Differentiable

\* The checks of a problem of differentiable constraints read no row that
\* does not exist and multiply no matrices whose sizes differ, in any order,
\* unless an exception left the active set half computed; a constraint that
\* is not differentiable shifts the rows (result-analyzer.hxx:234, :257).
ChecksAreDefined == Sound => ending # "undefined"

ActiveOutputs == {o \in Outputs : ActiveOutput(o[1], o[2])}
ActiveArguments == {j \in 1..InputSize : ActiveBound(j)}
GradientAt(o) == Gradients[constraints[o[1]]][o[2]]
ActiveGradients ==
  {Unit(j) : j \in ActiveArguments} \cup {GradientAt(o) : o \in ActiveOutputs}
\* The dimension of the span of a set of vectors of the plane.
Dimension(S) ==
  CASE S \subseteq {ZeroGradient} -> 0
    [] \E u, v \in S : Independent(u, v) -> 2
    [] OTHER -> 1

\* The rank is that of the gradients of exactly the active bounds and the
\* active outputs, however many constraints and outputs that are not active
\* stand between them, and whichever check computed them
\* (result-analyzer.hxx:187, :314); where they are not more than the arguments,
\* LICQ is reported exactly if they are linearly independent.  More of them are
\* always dependent, and the code then reports LICQ if they span the space
\* (result-analyzer.hxx:312).
ActiveCount == Cardinality(ActiveOutputs) + Cardinality(ActiveArguments)
LinearlyIndependent == Dimension(ActiveGradients) = ActiveCount
LICQIsOfTheActiveSet ==
  Sound /\ answer.check = "LICQ" =>
    /\ answer.rank = Dimension(ActiveGradients)
    /\ ActiveCount <= InputSize => (FullRank(answer) <=> LinearlyIndependent)

NullOutputs == {o \in ActiveOutputs : GradientAt(o) = ZeroGradient}

\* Where no argument is at a bound, the null gradients are those of the active
\* outputs whose gradient is null; rows of bounds come before those of outputs
\* and are not counted by index.active (result-analyzer.hxx:233, :398).
NullGradientsAreFound ==
  Sound /\ answer.check = "null gradient" /\ ActiveArguments = {} =>
    /\ ToSet(answer.rows) = NullOutputs
    /\ NoNullRow(answer) <=> NullOutputs = {}

\* Multipliers times gradients, written without a running index.
Offset(k) == InputSize + Total([i \in 1..(k - 1) |-> OutOf[constraints[i]]])
Stationary ==
  \A j \in 1..InputSize :
    0 = Objective[j] + lambda[j]
          + Total([k \in DOMAIN constraints |->
                     Total([i \in 1..OutOf[constraints[k]] |->
                              lambda[Offset(k) + i] * GradientAt(<<k, i>>)[j]])])
Within(v, b) == b.lower <= v /\ v <= b.upper
Feasible == /\ \A j \in 1..InputSize : Within(x[j], argumentBounds[j])
            /\ \A o \in Outputs : Within(values[o[1]][o[2]], boundsVect[o[1]][o[2]])

\* A multiplier of an inequality: zero unless a bound is reached, not negative
\* at the upper bound, not positive at the lower one.
Complementary(v, b, l) == b.lower # b.upper /\ l # 0 => IsActive(v, b)
DualFeasible(v, b, l) == b.lower # b.upper => /\ v = b.upper => l >= 0
                                              /\ v = b.lower => l <= 0
OfEveryMultiplier(P(_, _, _)) ==
  /\ \A j \in 1..InputSize : P(x[j], argumentBounds[j], lambda[j])
  /\ \A o \in Outputs :
       P(values[o[1]][o[2]], boundsVect[o[1]][o[2]], lambda[Offset(o[1]) + o[2]])

\* What is accepted as a KKT point has multipliers, is feasible and stationary,
\* each output multiplied by its own lambda, and no KKT point is refused
\* (result-analyzer.hxx:331, :432).
KKTPointsAreFeasibleAndStationary ==
  Sound /\ answer.check = "KKT" =>
    /\ Satisfied(answer) => HasLambda /\ Feasible /\ Stationary
    /\ /\ HasLambda /\ Feasible /\ Stationary
       /\ OfEveryMultiplier(Complementary) /\ OfEveryMultiplier(DualFeasible)
       => Satisfied(answer)

\* What is accepted as a KKT point satisfies the conditions the data are named
\* for, "complementary slackness" and "whether dual feasibility is satisfied"
\* (result-analyzer.hh:123, :126): "dual feasible if lambda >= 0 for g <= 0
\* (upper bound) or lambda <= 0 for g >= 0 (lower bound)"
\* (result-analyzer.hxx:369).  The code computes both from violations, which are
\* null at every feasible point.
KKTPointsSatisfyTheConditions ==
  Sound /\ answer.check = "KKT" /\ Satisfied(answer) =>
    OfEveryMultiplier(Complementary) /\ OfEveryMultiplier(DualFeasible)
=============================================================================
