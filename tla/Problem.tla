------------------------------- MODULE Problem -------------------------------
(***************************************************************************)
(* roboptim::Problem<T> (problem.hxx): constraints, their bounds and their *)
(* scaling are kept in three vectors side by side, filled by addConstraint *)
(* and emptied by clearConstraints; the jacobian, the scaled jacobian and  *)
(* the violation vector walk them again with running indices.              *)
(*                                                                         *)
(* A constraint is what the class asks of it: its input and output sizes   *)
(* and whether it is differentiable.  A row of a jacobian is named by its  *)
(* constraint and output, and its scaling is kept beside it.  Arguments,   *)
(* outputs and bounds are integers; Infinity stands for Function::infinity.*)
(***************************************************************************)
EXTENDS Integers, Sequences, SequencesExt

CONSTANTS
  Constraints,       \* constraint functions
  Null,              \* a null shared pointer
  InputSize,         \* function ().inputSize ()
  InOf, OutOf,       \* inputSize () and outputSize () of the constraints
  Differentiable,    \* those that are GenericDifferentiableFunctions
  Intervals,         \* the bounds given: records [lower, upper]
  Scales,            \* the scaling factors given
  Levels,            \* values of arguments and outputs
  Infinity,
  Sizes,             \* the sizes of starting points
  MaxConstraints     \* bound: constraints of the problem

ASSUME ConstraintsAssumption ==
  /\ Null \notin Constraints /\ Differentiable \subseteq Constraints
  /\ InputSize \in Nat \ {0}
  /\ InOf \in [Constraints -> Nat] /\ OutOf \in [Constraints -> Nat]
ASSUME IntervalsAssumption ==
  /\ Infinity \in Int /\ Levels \subseteq Int /\ Scales \subseteq Int
  /\ \A b \in Intervals : b.lower \in Int /\ b.upper \in Int /\ b.lower <= b.upper
  /\ \A v \in Levels : -Infinity < v /\ v < Infinity

VARIABLES
  constraints,      \* constraints_
  boundsVect,       \* boundsVect_
  scalingVect,      \* scalingVect_
  argumentBounds,   \* argumentBounds_
  argumentScaling,  \* argumentScaling_
  startingPoint,    \* the size of startingPoint_, or 0 for none
  outcome,          \* of the last call: "ok", "exception" or "undefined"
  given             \* history: what addConstraint accepted since the clear

vectors == <<constraints, boundsVect, scalingVect>>
arguments == <<argumentBounds, argumentScaling>>
vars == <<vectors, arguments, startingPoint, outcome, given>>

Free == [lower |-> -Infinity, upper |-> Infinity]

ScaledByZero == [j \in 1..InputSize |-> 0]
InitialScaling == [j \in 1..InputSize |-> 1]

\* initialize
Init ==
  /\ constraints = <<>> /\ boundsVect = <<>> /\ scalingVect = <<>>
  /\ argumentBounds = [j \in 1..InputSize |-> Free]
  /\ argumentScaling = InitialScaling
  /\ startingPoint = 0
  /\ outcome = "ok"
  /\ given = <<>>

-----------------------------------------------------------------------------
(* Building the problem. *)

Defined == outcome # "undefined"
Fails(o) ==
  outcome' = o /\ UNCHANGED <<vectors, arguments, startingPoint, given>>

Push(c, b, s) ==
  /\ constraints' = Append(constraints, c)
  /\ boundsVect' = Append(boundsVect, b)
  /\ scalingVect' = Append(scalingVect, s)
  /\ given' = Append(given, [constraint |-> c, bounds |-> b, scaling |-> s])
  /\ outcome' = "ok"
  /\ UNCHANGED <<arguments, startingPoint>>

\* addConstraint (x, interval, scale): x is dereferenced before it is
\* compared to null.
AddScalar(c, b, s) ==
  /\ Defined /\ Len(constraints) < MaxConstraints
  /\ IF c = Null THEN Fails("undefined")
     ELSE IF InOf[c] # InputSize \/ OutOf[c] # 1 THEN Fails("exception")
     ELSE Push(c, <<b>>, <<s>>)

\* addConstraint (x, intervals, scaling)
AcceptsAnything(c, b, s) == InOf[c] = InputSize
Accepts(c, b, s) ==
  InOf[c] = InputSize /\ OutOf[c] = Len(b) /\ OutOf[c] = Len(s)

AddVector(c, b, s) ==
  /\ Defined /\ Len(constraints) < MaxConstraints
  /\ IF c = Null THEN Fails("exception")
     ELSE IF ~Accepts(c, b, s) THEN Fails("exception")
     ELSE Push(c, b, s)

ClearConstraints ==
  /\ Defined
  /\ constraints' = <<>> /\ boundsVect' = <<>> /\ scalingVect' = <<>>
  /\ given' = <<>> /\ outcome' = "ok"
  /\ UNCHANGED <<arguments, startingPoint>>

\* argumentBounds ()[j] = b and argumentScaling ()[j] = s
BoundArgument(j, b) ==
  /\ Defined
  /\ argumentBounds' = [argumentBounds EXCEPT ![j] = b]
  /\ outcome' = "ok"
  /\ UNCHANGED <<vectors, argumentScaling, startingPoint, given>>

ScaleArgument(j, s) ==
  /\ Defined
  /\ argumentScaling' = [argumentScaling EXCEPT ![j] = s]
  /\ outcome' = "ok"
  /\ UNCHANGED <<vectors, argumentBounds, startingPoint, given>>

\* startingPoint () = a vector of the given size: the accessor checks the
\* point it holds already, then hands out the reference assigned to.
SetStartingPoint(size) ==
  /\ Defined
  /\ IF startingPoint \notin {0, InputSize} THEN Fails("exception")
     ELSE /\ startingPoint' = size /\ outcome' = "ok"
          /\ UNCHANGED <<vectors, arguments, given>>

-----------------------------------------------------------------------------
(* Evaluating it. *)

\* The outputs of those constraints that are counted.
OutputSizes(counted) ==
  FoldLeft(LAMBDA m, c : IF c \in counted THEN m + OutOf[c] ELSE m, 0, constraints)
IsDifferentiable(c) == c \in Differentiable

ConstraintsOutputSize == OutputSizes(Constraints)
DifferentiableConstraintsOutputSize == OutputSizes(Differentiable)

\* The entries first+1 .. first+n of s replaced by what f says.
Block(s, first, n, f(_)) ==
  [i \in DOMAIN s |-> IF i \in first + 1..first + n THEN f(i - first) ELSE s[i]]

Times(row, s) == [row EXCEPT !.scale = [j \in 1..InputSize |-> s * @[j]]]
ZeroRow == [of |-> "zero", output |-> 0, scale |-> InitialScaling]

\* jacobian (x): each differentiable constraint writes its block of rows.
Jacobian ==
  LET Write(acc, c) ==
        IF ~IsDifferentiable(c) THEN acc
        ELSE [row |-> acc.row + OutOf[c],
              jac |-> Block(acc.jac, acc.row, OutOf[c],
                            LAMBDA i : [of |-> c, output |-> i, scale |-> InitialScaling])]
      zero == [r \in 1..DifferentiableConstraintsOutputSize |-> ZeroRow]
  IN FoldLeft(Write, [row |-> 0, jac |-> zero], constraints).jac

\* The index of the next constraint's scaling: c_idx counts every constraint.
NextIndexIfDifferentiable(k, c) == IF IsDifferentiable(c) THEN k + 1 ELSE k
NextIndex(k, c) == k + 1

\* scaledJacobian (x), its rows with the product of the factors applied to
\* each of their columns.
ScaledJacobian ==
  LET Scale(acc, c) ==
        IF ~IsDifferentiable(c) THEN [acc EXCEPT !.k = NextIndex(acc.k, c)]
        ELSE [row |-> acc.row + OutOf[c],
              k |-> NextIndex(acc.k, c),
              jac |-> Block(acc.jac, acc.row, OutOf[c],
                            LAMBDA i : Times(acc.jac[acc.row + i],
                                             scalingVect[acc.k][i]))]
      rows == FoldLeft(Scale, [row |-> 0, k |-> 1, jac |-> Jacobian],
                       constraints).jac
  IN [r \in DOMAIN rows |->
        [rows[r] EXCEPT !.scale = [j \in 1..InputSize |->
                                     @[j] * argumentScaling[j]]]]

Least(a, b) == IF a < b THEN a ELSE b
Greatest(a, b) == IF a > b THEN a ELSE b

\* The violation of one bound pair, negative below and positive above.
ViolationAbs(v, b) == Greatest(Greatest(v - b.upper, b.lower - v), 0)
Violation(v, b) ==
  LET inf == IF b.lower # -Infinity THEN Least(v - b.lower, 0) ELSE 0
      sup == IF b.upper # Infinity THEN Greatest(v - b.upper, 0) ELSE 0
  IN IF inf < 0 THEN inf ELSE sup

\* constraintsViolationVector (x), when output i of the k-th constraint is
\* values[<<k, i>>]: the arguments first, then output after output.
ConstraintsViolationVector(x, values) ==
  LET Fill(acc, k) ==
        [row |-> acc.row + OutOf[constraints[k]],
         v |-> Block(acc.v, acc.row, OutOf[constraints[k]],
                     LAMBDA i : Violation(values[<<k, i>>], boundsVect[k][i]))]
      n == InputSize + ConstraintsOutputSize
      start == [i \in 1..n |-> IF i <= InputSize
                               THEN Violation(x[i], argumentBounds[i]) ELSE 0]
      order == [k \in DOMAIN constraints |-> k]
  IN FoldLeft(Fill, [row |-> InputSize, v |-> start], order).v

BoundSeqs == UNION {[1..n -> Intervals] : n \in 1..2}
ScaleSeqs == UNION {[1..n -> Scales] : n \in 1..2}

Next ==
  \/ \E c \in Constraints \cup {Null}, b \in Intervals, s \in Scales :
       AddScalar(c, b, s)
  \/ \E c \in Constraints \cup {Null}, b \in BoundSeqs, s \in ScaleSeqs :
       AddVector(c, b, s)
  \/ ClearConstraints
  \/ \E j \in 1..InputSize : \/ \E b \in Intervals : BoundArgument(j, b)
                             \/ \E s \in Scales : ScaleArgument(j, s)
  \/ \E n \in Sizes : SetStartingPoint(n)

Spec == Init /\ [][Next]_vars

-----------------------------------------------------------------------------

TypeOK ==
  /\ constraints \in Seq(Constraints)
  /\ boundsVect \in Seq(Seq(Intervals))
  /\ scalingVect \in Seq(Seq(Scales))
  /\ argumentBounds \in [1..InputSize -> Intervals \cup {Free}]
  /\ argumentScaling \in [1..InputSize -> Scales \cup {1}]
  /\ startingPoint \in Sizes \cup {0}
  /\ outcome \in {"ok", "exception", "undefined"}

\* The three vectors stay side by side, refused constraints and clears
\* included: entry k of each is of the same constraint, with one interval and
\* one factor per output, and no index of the loops below leaves them.
VectorsAgree ==
  /\ Len(boundsVect) = Len(constraints) /\ Len(scalingVect) = Len(constraints)
  /\ \A k \in DOMAIN constraints :
       /\ InOf[constraints[k]] = InputSize
       /\ Len(boundsVect[k]) = OutOf[constraints[k]]
       /\ Len(scalingVect[k]) = OutOf[constraints[k]]

\* The scaled rows of one constraint that was added.
RowsOf(entry) ==
  IF ~IsDifferentiable(entry.constraint) THEN <<>>
  ELSE [i \in 1..OutOf[entry.constraint] |->
          [of |-> entry.constraint, output |-> i,
           scale |-> [j \in 1..InputSize |->
                        entry.scaling[i] * argumentScaling[j]]]]

\* Every row of the scaled jacobian is the gradient of a differentiable
\* output scaled by its own factor, in the order of the constraints and
\* without a gap, whatever non-differentiable ones stand between them.
RowsKeepTheirScaling ==
  ScaledJacobian = FlattenSeq([k \in DOMAIN given |-> RowsOf(given[k])])

\* The outputs of all the constraints, each of which may have any value.
Outputs ==
  UNION {{k} \X (1..OutOf[constraints[k]]) : k \in DOMAIN constraints}
SignOf(n) == IF n < 0 THEN -1 ELSE IF n > 0 THEN 1 ELSE 0
Expected(v, b) == IF v < b.lower THEN -1 ELSE IF v > b.upper THEN 1 ELSE 0
Signs(s) == [i \in DOMAIN s |-> SignOf(s[i])]

\* "If the output value is lower than the lower bound, the violation is
\* negative ... higher than the upper bound ... positive ... within the
\* bounds ... null" (problem.hh:365-369), at the place of that output.
ViolationsHaveTheirSign ==
  \A x \in [1..InputSize -> Levels], values \in [Outputs -> Levels] :
    LET arguments_ == [j \in 1..InputSize |-> Expected(x[j], argumentBounds[j])]
        outputs == [k \in DOMAIN given |->
                      [i \in DOMAIN given[k].bounds |->
                         Expected(values[<<k, i>>], given[k].bounds[i])]]
    IN Signs(ConstraintsViolationVector(x, values))
         = arguments_ \o FlattenSeq(outputs)

=============================================================================
