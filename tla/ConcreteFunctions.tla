-------------------------- MODULE ConcreteFunctions --------------------------
(***************************************************************************)
(* The functions the library provides (function/, numeric-*-function):     *)
(* what their constructors keep and their four members compute.            *)
(*                                                                         *)
(* Numbers are dual: <<v, d>> is v + d*e with e*e = 0, so that the value   *)
(* at x + e in direction j carries the partial derivative beside it, and   *)
(* a gradient the second ones.  Wild is an entry nobody wrote, or one      *)
(* behind a failed assertion on sizes.  A function is a record of its      *)
(* members, its sizes and the abstract class it derives from.              *)
(***************************************************************************)
EXTENDS Integers, Sequences, FiniteSets, SequencesExt

-----------------------------------------------------------------------------
(* Numbers, rows and matrices. *)

Number(v) == <<v, 0>>
Zero == Number(0)
One == Number(1)
Wild == <<>>
Add(a, b) == IF Wild \in {a, b} THEN Wild ELSE <<a[1] + b[1], a[2] + b[2]>>
Mul(a, b) ==
  IF Wild \in {a, b} THEN Wild ELSE <<a[1] * b[1], a[1] * b[2] + a[2] * b[1]>>

Numbers(s) == [j \in DOMAIN s |-> Number(s[j])]
Sum(s) == FoldLeft(Add, Zero, s)
Sums(s, t) == [j \in DOMAIN s |-> Add(s[j], t[j])]
Scaled(a, s) == [j \in DOMAIN s |-> Mul(a, s[j])]
Products(s, t) == [j \in DOMAIN s |-> Mul(s[j], t[j])]
Dot(s, t) == Sum(Products(s, t))

WildRow(n) == [j \in 1..n |-> Wild]
WildRows(m, n) == [k \in 1..m |-> WildRow(n)]
ZeroRow(n) == [j \in 1..n |-> Zero]
ZeroRows(m, n) == [k \in 1..m |-> ZeroRow(n)]
UnitRow(n, k) == [j \in 1..n |-> IF j = k THEN One ELSE Zero]

\* row * matrix, for a matrix of n columns, and matrix * column
RowTimes(row, matrix, n) ==
  [j \in 1..n |-> Sum([m \in DOMAIN row |-> Mul(row[m], matrix[m][j])])]
TimesColumn(matrix, x) == [k \in DOMAIN matrix |-> Dot(matrix[k], x)]

\* std::cos and std::sin, of an argument counted in quarters of a turn; the
\* derivative is the formal one.
Turn == <<1, 0, -1, 0>>
Cosine(v) == Turn[(v % 4) + 1]
Sine(v) == Turn[((v + 3) % 4) + 1]
CosOf(a) == IF a = Wild THEN Wild ELSE <<Cosine(a[1]), -Sine(a[1]) * a[2]>>
SinOf(a) == IF a = Wild THEN Wild ELSE <<Sine(a[1]), Cosine(a[1]) * a[2]>>
Minus1(a) == Mul(Number(-1), a)

-----------------------------------------------------------------------------
(* Constructors. *)

\* GenericConstantFunction, of its two constructors the general one
Constant(n, offset) ==
  [op |-> "constant", type |-> "linear", in |-> n, out |-> Len(offset),
   offset |-> Numbers(offset)]

Identity(offset) ==
  [op |-> "identity", type |-> "linear", in |-> Len(offset), out |-> Len(offset),
   offset |-> Numbers(offset)]

\* a and b are of numbers
NumericLinear(a, b) ==
  [op |-> "linear", type |-> "linear", in |-> Len(a[1]), out |-> Len(a),
   a |-> a, b |-> b]

NumericQuadratic(a, b, c) ==
  [op |-> "quadratic", type |-> "quadratic", in |-> Len(a), out |-> 1,
   a |-> [i \in DOMAIN a |-> Numbers(a[i])], b |-> Numbers(b), c |-> Number(c)]
IsSymmetric(a) == \A i, j \in DOMAIN a : a[i][j] = a[j][i]

\* dCoeffs_ and dDCoeffs_, with the cases of one and two coefficients
FirstDerivative(coeffs) ==
  IF Len(coeffs) = 1 THEN <<0>>
  ELSE [i \in 1..(Len(coeffs) - 1) |-> i * coeffs[i + 1]]
SecondDerivative(coeffs) ==
  IF Len(coeffs) <= 2 THEN <<0>>
  ELSE [i \in 1..(Len(coeffs) - 2) |-> (i + 1) * i * coeffs[i + 2]]
Polynomial(coeffs) ==
  [op |-> "polynomial", type |-> "twice", in |-> 1, out |-> 1,
   coeffs |-> coeffs, dCoeffs |-> FirstDerivative(coeffs),
   dDCoeffs |-> SecondDerivative(coeffs)]

Cos == [op |-> "cos", type |-> "twice", in |-> 1, out |-> 1]
Sin == [op |-> "sin", type |-> "twice", in |-> 1, out |-> 1]

\* A function of the user: output k is constant[k] + SUM linear[k][j]*x[j]
\* + square[k][j]*x[j]^2.
UserFunction(n, m, constant, linear, square) ==
  [op |-> "leaf", type |-> "twice", in |-> n, out |-> m,
   constant |-> Numbers(constant),
   linear |-> [k \in 1..m |-> Numbers(linear[k])],
   square |-> [k \in 1..m |-> Numbers(square[k])]]

Concrete ==
  {"leaf", "constant", "identity", "linear", "quadratic", "polynomial", "cos", "sin"}
IsConcrete(f) ==
  /\ f.op \in Concrete
  /\ f.in \in Nat \ {0} /\ f.out \in Nat \ {0}
  /\ f.op = "quadratic" => IsSymmetric(f.a)

-----------------------------------------------------------------------------
(* impl_compute *)

\* Horner's method
ApplyPolynomial(coeffs, x) ==
  FoldRight(LAMBDA c, acc : Add(Number(c), Mul(acc, x[1])), coeffs, Zero)

QuadraticValue(f, x) ==
  LET buffer == TimesColumn(f.a, x)
  IN <<Add(Add(Dot(x, buffer), Dot(f.b, x)), f.c)>>
LinearValue(f, x) == Sums(TimesColumn(f.a, x), f.b)
LeafValue(f, x) ==
  [k \in 1..f.out |->
     Sum(<<f.constant[k], Dot(f.linear[k], x), Dot(f.square[k], Products(x, x))>>)]

ConcreteValue(f, x) ==
  CASE f.op = "constant" -> f.offset
    [] f.op = "identity" -> Sums(x, f.offset)
    [] f.op = "linear" -> LinearValue(f, x)
    [] f.op = "quadratic" -> QuadraticValue(f, x)
    [] f.op = "polynomial" -> <<ApplyPolynomial(f.coeffs, x)>>
    [] f.op = "cos" -> <<CosOf(x[1])>>
    [] f.op = "sin" -> <<SinOf(x[1])>>
    [] f.op = "leaf" -> LeafValue(f, x)

(* impl_gradient *)

LeafGradient(f, x, k) == Sums(f.linear[k], Scaled(Number(2), Products(f.square[k], x)))
LinearGradient(f, k) == f.a[k]
QuadraticGradient(f, x) == Sums(TimesColumn(f.a, Scaled(Number(2), x)), f.b)
CosGradient(x) == <<Minus1(SinOf(x[1]))>>
SinGradient(x) == <<CosOf(x[1])>>
PolynomialGradient(f, x) == <<ApplyPolynomial(f.dCoeffs, x)>>

ConcreteGradient(f, x, k) ==
  CASE f.op = "constant" -> ZeroRow(f.in)
    [] f.op = "identity" -> UnitRow(f.in, k)
    [] f.op = "linear" -> LinearGradient(f, k)
    [] f.op = "quadratic" -> QuadraticGradient(f, x)
    [] f.op = "polynomial" -> PolynomialGradient(f, x)
    [] f.op = "cos" -> CosGradient(x)
    [] f.op = "sin" -> SinGradient(x)
    [] f.op = "leaf" -> LeafGradient(f, x, k)

(* impl_jacobian, of which the user gives none *)

LinearJacobian(f) == f.a
QuadraticJacobian(f, x) == <<Sums(RowTimes(Scaled(Number(2), x), f.a, f.in), f.b)>>
ConcreteJacobian(f, x) ==
  CASE f.op = "constant" -> ZeroRows(f.out, f.in)
    [] f.op = "identity" -> [k \in 1..f.out |-> UnitRow(f.in, k)]
    [] f.op = "linear" -> LinearJacobian(f)
    [] f.op = "quadratic" -> QuadraticJacobian(f, x)
    [] f.op = "polynomial" -> <<PolynomialGradient(f, x)>>
    [] f.op = "cos" -> <<CosGradient(x)>>
    [] f.op = "sin" -> <<SinGradient(x)>>
    [] f.op = "leaf" -> [k \in 1..f.out |-> LeafGradient(f, x, k)]

(* impl_hessian; that of a linear function is zero *)

LinearHessian(f) == ZeroRows(f.in, f.in)
QuadraticHessian(f) == [i \in DOMAIN f.a |-> Scaled(Number(2), f.a[i])]
CosHessian(x) == << <<Minus1(CosOf(x[1]))>> >>
SinHessian(x) == << <<Minus1(SinOf(x[1]))>> >>
\* the squares of the user are separate
LeafHessian(f, k) ==
  [j \in 1..f.in |-> Scaled(Mul(Number(2), f.square[k][j]), UnitRow(f.in, j))]
ConcreteHessian(f, x, k) ==
  CASE f.op \in {"constant", "identity", "linear"} -> LinearHessian(f)
    [] f.op = "quadratic" -> QuadraticHessian(f)
    [] f.op = "polynomial" -> << <<ApplyPolynomial(f.dDCoeffs, x)>> >>
    [] f.op = "cos" -> CosHessian(x)
    [] f.op = "sin" -> SinHessian(x)
    [] f.op = "leaf" -> LeafHessian(f, k)
=============================================================================
