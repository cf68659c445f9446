-------------------------- MODULE FunctionOperators --------------------------
(***************************************************************************)
(* The operators that build functions from functions (operator/): each     *)
(* computes its value, its gradients and its jacobian by three separate    *)
(* member functions that map the indices of its operands.                  *)
(*                                                                         *)
(* A function is a node of `built`, which refers to its operands by their  *)
(* index, as the code does by shared pointers.  Evaluation is const: what  *)
(* an operator keeps in its mutable buffers is written before it is read.  *)
(* Indices start at 1, the offsets of blocks at 0 as in the code.          *)
(*                                                                         *)
(* The operands a program starts with are of the library or of the user    *)
(* (ConcreteFunctions).  The class a function derives from is static: it    *)
(* decides which operators take it, and a linear one is taken at its word.  *)
(***************************************************************************)
EXTENDS ConcreteFunctions

CONSTANTS
  Families,   \* the sequences of functions a program may start with
  Levels,     \* the coordinates of the points of evaluation
  Bounds,     \* the values arguments are bound to
  Scalars,    \* the factors given to operator*
  MaxBuilt    \* bound: functions built by operators

ASSUME FamiliesAssumption ==
  /\ \A family \in Families : \A i \in DOMAIN family : IsConcrete(family[i])
  /\ Levels \subseteq Int /\ Bounds \subseteq Int
  /\ Scalars \subseteq Int /\ MaxBuilt \in Nat

VARIABLES
  given,  \* how many functions the program starts with
  built   \* the functions of the program, each with its sizes
vars == <<given, built>>

In(i) == built[i].in
Out(i) == built[i].out
TypeOf(i) == built[i].type

-----------------------------------------------------------------------------
\* s.segment (start, size)
Segment(s, start, size) == SubSeq(s, start + 1, start + size)
\* the members of s at the indices in ids, in order
Picked(s, ids) == LET at == SetToSortSeq(ids, <) IN [k \in DOMAIN at |-> s[at[k]]]

\* GenericFunction::operator (), gradient, jacobian and hessian: operands are
\* evaluated through these.
RECURSIVE Value(_, _), Gradient(_, _, _), Jacobian(_, _), Hessian(_, _, _)

\* GenericDifferentiableFunction::impl_jacobian, where it is not overridden
DefaultJacobian(i, x) == [k \in 1..Out(i) |-> Gradient(i, x, k)]

-----------------------------------------------------------------------------
(* Selection and SelectionById: some of the outputs. *)

SelectionValue(f, x) ==
  IF f.start + f.size > Out(f.of) THEN WildRow(f.size)
  ELSE Segment(Value(f.of, x), f.start, f.size)
SelectionGradient(f, x, k) == Gradient(f.of, x, k)
SelectionJacobianWhole(f, x) == Jacobian(f.of, x)
SelectionJacobian(f, x) ==
  IF f.start + f.size > Out(f.of) THEN WildRows(f.size, f.in)
  ELSE Segment(Jacobian(f.of, x), f.start, f.size)

SelectionByIdValue(f, x) == Picked(Value(f.of, x), f.selector)
SelectionByIdGradient(f, x, k) ==
  Gradient(f.of, x, k - Cardinality({e \in f.selector : e < k}))
SelectionByIdJacobian(f, x) == Picked(DefaultJacobian(f.of, x), f.selector)

(* Concatenate: the outputs of both.  The right ones are written at the     *)
(* input size of the left, over the left ones or out of bounds.             *)
ConcatenateValue(f, x) ==
  LET start == In(f.left)
      right == Value(f.right, x)
      left == Value(f.left, x)
  IN IF start + Out(f.right) > f.out THEN WildRow(f.out)
     ELSE [k \in 1..f.out |->
             IF k - start \in DOMAIN right THEN right[k - start]
             ELSE IF k \in DOMAIN left THEN left[k] ELSE Wild]
ConcatenateGradient(f, x, k) ==
  IF k <= Out(f.left) THEN Gradient(f.left, x, k)
  ELSE Gradient(f.right, x, k - Out(f.left))
ConcatenateJacobian(f, x) == Jacobian(f.left, x) \o Jacobian(f.right, x)

(* Split: one output. *)
SplitValue(f, x) == <<Value(f.of, x)[f.id]>>
SplitGradient(f, x, k) == Gradient(f.of, x, f.id)
SplitHessian(f, x) == Hessian(f.of, x, f.id)

(* Map: the function on each of `repeat` blocks of the argument. *)
BlockOf(f, x, b) == Segment(x, (b - 1) * In(f.of), In(f.of))
MapValue(f, x) ==
  FlattenSeq([b \in 1..f.repeat |-> Value(f.of, BlockOf(f, x, b))])
MapGradient(f, x, k) ==
  FlattenSeq([b \in 1..f.repeat |-> Gradient(f.of, BlockOf(f, x, b), k)])
\* entries outside the diagonal blocks keep the zero of their allocator
MapJacobian(f, x) ==
  FlattenSeq([b \in 1..f.repeat |->
    LET J == Jacobian(f.of, BlockOf(f, x, b))
        first == (b - 1) * In(f.of)
    IN [k \in DOMAIN J |-> [j \in 1..f.in |->
          IF j - first \in 1..In(f.of) THEN J[k][j - first] ELSE Zero]]])

(* Bind: some of the arguments fixed; bound[j] is <<>> or the one value. *)
Unbound(bound) == {j \in DOMAIN bound : bound[j] = <<>>}
Filled(f, x) ==
  [j \in DOMAIN f.bound |->
     IF j \in Unbound(f.bound)
     THEN x[Cardinality({m \in Unbound(f.bound) : m <= j})]
     ELSE Number(f.bound[j][1])]
BindValue(f, x) == Value(f.of, Filled(f, x))
BindGradient(f, x, k) == Picked(Gradient(f.of, Filled(f, x), k), Unbound(f.bound))
BindJacobian(f, x) ==
  LET J == Jacobian(f.of, Filled(f, x))
  IN [k \in DOMAIN J |-> Picked(J[k], Unbound(f.bound))]

(* Chain: left (right (x)). *)
ChainValue(f, x) == Value(f.left, Value(f.right, x))
ChainGradient(f, x, k) ==
  RowTimes(Gradient(f.left, Value(f.right, x), k), Jacobian(f.right, x), f.in)
ChainJacobianStale(f, x) ==
  LET J == Jacobian(f.left, [m \in 1..Out(f.right) |-> Zero])
      K == Jacobian(f.right, x)
  IN [k \in DOMAIN J |-> RowTimes(J[k], K, f.in)]
ChainJacobian(f, x) ==
  LET J == Jacobian(f.left, Value(f.right, x))
      K == Jacobian(f.right, x)
  IN [k \in DOMAIN J |-> RowTimes(J[k], K, f.in)]

(* Plus and Minus, with sign 1 and -1. *)
PlusValue(f, x) ==
  Sums(Value(f.left, x), Scaled(Number(f.sign), Value(f.right, x)))
PlusGradient(f, x, k) ==
  Sums(Gradient(f.left, x, k), Scaled(Number(f.sign), Gradient(f.right, x, k)))
PlusJacobian(f, x) ==
  LET J == Jacobian(f.left, x)
      K == Jacobian(f.right, x)
  IN [k \in DOMAIN J |-> Sums(J[k], Scaled(Number(f.sign), K[k]))]

(* Scalar: a factor. *)
ScalarValue(f, x) == Scaled(Number(f.scalar), Value(f.of, x))
ScalarGradient(f, x, k) == Scaled(Number(f.scalar), Gradient(f.of, x, k))
ScalarJacobian(f, x) ==
  LET J == Jacobian(f.of, x) IN [k \in DOMAIN J |-> Scaled(Number(f.scalar), J[k])]
ScalarHessian(f, x, k) ==
  LET H == Hessian(f.of, x, k) IN [j \in DOMAIN H |-> Scaled(Number(f.scalar), H[j])]

(* Product, output by output.  The gradient multiplies the vector of all    *)
(* outputs with a gradient, whose sizes agree only if in = out.             *)
ProductValue(f, x) == Products(Value(f.left, x), Value(f.right, x))
RowOfProduct(u, v, rowOfU, rowOfV) ==
  IF Len(u) # Len(rowOfU) THEN WildRow(Len(rowOfU))
  ELSE Sums(Products(u, rowOfV), Products(v, rowOfU))
RowsOfProduct(u, v, J, K) ==
  [k \in DOMAIN J |-> Sums(Scaled(u[k], K[k]), Scaled(v[k], J[k]))]
ProductGradient(f, x, k) ==
  RowOfProduct(Value(f.left, x), Value(f.right, x),
               Gradient(f.left, x, k), Gradient(f.right, x, k))
ProductJacobian(f, x) ==
  RowsOfProduct(Value(f.left, x), Value(f.right, x),
                Jacobian(f.left, x), Jacobian(f.right, x))

(* Derivative: a column of the jacobian. *)
DerivativeValue(f, x) ==
  LET J == Jacobian(f.of, x) IN [k \in DOMAIN J |-> J[k][f.variable]]
DerivativeGradient(f, x, k) ==
  LET H == Hessian(f.of, x, k) IN [j \in 1..f.in |-> H[j][j]]

-----------------------------------------------------------------------------
(* The virtual calls. *)

Value(i, x) ==
  LET f == built[i]
  IN CASE f.op \in Concrete -> ConcreteValue(f, x)
       [] f.op = "selection" -> SelectionValue(f, x)
       [] f.op = "selectionById" -> SelectionByIdValue(f, x)
       [] f.op = "concatenate" -> ConcatenateValue(f, x)
       [] f.op = "split" -> SplitValue(f, x)
       [] f.op = "map" -> MapValue(f, x)
       [] f.op = "bind" -> BindValue(f, x)
       [] f.op = "chain" -> ChainValue(f, x)
       [] f.op = "plus" -> PlusValue(f, x)
       [] f.op = "scalar" -> ScalarValue(f, x)
       [] f.op = "product" -> ProductValue(f, x)
       [] f.op = "derivative" -> DerivativeValue(f, x)

\* gradient asserts functionId < outputSize ()
Gradient(i, x, k) ==
  LET f == built[i]
  IN IF k > f.out THEN WildRow(f.in) ELSE
     CASE f.op \in Concrete -> ConcreteGradient(f, x, k)
       [] f.op = "selection" -> SelectionGradient(f, x, k)
       [] f.op = "selectionById" -> SelectionByIdGradient(f, x, k)
       [] f.op = "concatenate" -> ConcatenateGradient(f, x, k)
       [] f.op = "split" -> SplitGradient(f, x, k)
       [] f.op = "map" -> MapGradient(f, x, k)
       [] f.op = "bind" -> BindGradient(f, x, k)
       [] f.op = "chain" -> ChainGradient(f, x, k)
       [] f.op = "plus" -> PlusGradient(f, x, k)
       [] f.op = "scalar" -> ScalarGradient(f, x, k)
       [] f.op = "product" -> ProductGradient(f, x, k)
       [] f.op = "derivative" -> DerivativeGradient(f, x, k)

Jacobian(i, x) ==
  LET f == built[i]
  IN CASE f.op \in Concrete -> ConcreteJacobian(f, x)
       [] f.op \in {"split", "derivative"} -> DefaultJacobian(i, x)
       [] f.op = "selection" -> SelectionJacobian(f, x)
       [] f.op = "selectionById" -> SelectionByIdJacobian(f, x)
       [] f.op = "concatenate" -> ConcatenateJacobian(f, x)
       [] f.op = "map" -> MapJacobian(f, x)
       [] f.op = "bind" -> BindJacobian(f, x)
       [] f.op = "chain" -> ChainJacobian(f, x)
       [] f.op = "plus" -> PlusJacobian(f, x)
       [] f.op = "scalar" -> ScalarJacobian(f, x)
       [] f.op = "product" -> ProductJacobian(f, x)

\* An operator without a hessian of its own has that of a linear function.
Hessian(i, x, k) ==
  LET f == built[i]
  IN CASE f.op \in Concrete -> ConcreteHessian(f, x, k)
       [] f.op = "split" -> SplitHessian(f, x)
       [] f.op = "scalar" -> ScalarHessian(f, x, k)
       [] OTHER -> LinearHessian(f)

-----------------------------------------------------------------------------
(* The abstract class an operator derives from: the less precise of those   *)
(* of its operands.  One that overrides no impl_hessian can only be         *)
(* instantiated over operands taken as differentiable or linear.            *)

Rank == [function |-> 1, differentiable |-> 2, twice |-> 3, quadratic |-> 3,
         linear |-> 4]
PromotedToBetter(s, t) == IF Rank[s] > Rank[t] THEN s ELSE t
Promoted(s, t) == IF Rank[s] > Rank[t] THEN t ELSE s
Operand(i) == IF Rank[TypeOf(i)] = 3 THEN "differentiable" ELSE TypeOf(i)
DerivativeParent(s) ==
  IF Rank[s] >= Rank["twice"] THEN "differentiable" ELSE "function"

(* The members each operator keeps, and the sizes it announces.             *)

NewSelection(o, start, size) ==
  [op |-> "selection", type |-> Operand(o), of |-> o, start |-> start, size |-> size,
   in |-> In(o), out |-> size]
NewSelectionById(o, selector) ==
  [op |-> "selectionById", type |-> Operand(o), of |-> o, selector |-> selector,
   in |-> In(o), out |-> Cardinality(selector)]
NewSplit(o, id) ==
  [op |-> "split", type |-> TypeOf(o), of |-> o, id |-> id, in |-> In(o), out |-> 1]
NewMap(o, repeat) ==
  [op |-> "map", type |-> Operand(o), of |-> o, repeat |-> repeat,
   in |-> In(o) * repeat, out |-> Out(o) * repeat]
NewBind(o, bound) ==
  [op |-> "bind", type |-> Operand(o), of |-> o, bound |-> bound,
   in |-> Cardinality(Unbound(bound)), out |-> Out(o)]
NewScalar(o, scalar) ==
  [op |-> "scalar", type |-> TypeOf(o), of |-> o, scalar |-> scalar,
   in |-> In(o), out |-> Out(o)]
NewDerivative(o, variable) ==
  [op |-> "derivative", type |-> DerivativeParent(TypeOf(o)), of |-> o,
   variable |-> variable, in |-> In(o), out |-> Out(o)]

Common(l, r) == Promoted(Operand(l), Operand(r))
NewConcatenate(l, r) ==
  [op |-> "concatenate", type |-> Common(l, r), left |-> l, right |-> r,
   in |-> In(l), out |-> Out(l) + Out(r)]
NewChain(l, r) ==
  [op |-> "chain", type |-> Common(l, r), left |-> l, right |-> r,
   in |-> In(r), out |-> Out(l)]
NewPlus(l, r) ==
  [op |-> "plus", type |-> Common(l, r), left |-> l, right |-> r, sign |-> 1,
   in |-> In(l), out |-> Out(l)]
NewMinus(l, r) == [NewPlus(l, r) EXCEPT !.sign = -1]
NewProduct(l, r) ==
  [op |-> "product", type |-> Common(l, r), left |-> l, right |-> r,
   in |-> In(l), out |-> Out(l)]

-----------------------------------------------------------------------------
(* The constructors.  One that throws leaves no function behind: what it    *)
(* checks is the guard.                                                     *)

Build(f) ==
  /\ Len(built) < given + MaxBuilt
  /\ built' = Append(built, f)
  /\ UNCHANGED given

\* start and size are compared to the input size of the origin.
Selection(o, start, size) ==
  /\ start + size <= In(o)
  /\ Build(NewSelection(o, start, size))

SelectionById(o, selector) == Build(NewSelectionById(o, selector))
Split(o, id) == Build(NewSplit(o, id))
Map(o, repeat) == Build(NewMap(o, repeat))
Bind(o, bound) == Build(NewBind(o, bound))
Scalar(o, scalar) == Build(NewScalar(o, scalar))
Derivative(o, variable) == Build(NewDerivative(o, variable))

Concatenate(l, r) == In(l) = In(r) /\ Build(NewConcatenate(l, r))
Chain(l, r) == In(l) = Out(r) /\ Build(NewChain(l, r))

SameSizes(l, r) == In(l) = In(r) /\ Out(l) = Out(r)
Plus(l, r) == SameSizes(l, r) /\ Build(NewPlus(l, r))
Minus(l, r) == SameSizes(l, r) /\ Build(NewMinus(l, r))
Product(l, r) == SameSizes(l, r) /\ Build(NewProduct(l, r))

\* GenericNumericLinearFunction (const GenericLinearFunction&): a is the
\* jacobian at ones, b the value at zero.
AffineOf(o) ==
  NumericLinear(Jacobian(o, [j \in 1..In(o) |-> One]), Value(o, ZeroRow(In(o))))
\* The evaluations stop the program where an entry is Wild.
IsDefined(f) ==
  /\ Wild \notin Range(f.b)
  /\ \A k \in DOMAIN f.a : Wild \notin Range(f.a[k])
ToNumericLinear(o) ==
  /\ TypeOf(o) = "linear" /\ IsDefined(AffineOf(o))
  /\ Build(AffineOf(o))

Init ==
  /\ built \in Families
  /\ given = Len(built)

Next ==
  \E o \in DOMAIN built :
    /\ TypeOf(o) # "function"
    /\ \/ \E start \in 0..In(o) : \E size \in 1..In(o) : Selection(o, start, size)
       \/ \E selector \in SUBSET (1..Out(o)) \ {{}} : SelectionById(o, selector)
       \/ \E id \in 1..Out(o) : Split(o, id)
       \/ \E repeat \in 1..2 : Map(o, repeat)
       \/ \E bound \in [1..In(o) -> {<<>>} \cup {<<v>> : v \in Bounds}] : Bind(o, bound)
       \/ \E scalar \in Scalars : Scalar(o, scalar)
       \/ \E variable \in 1..In(o) : Derivative(o, variable)
       \/ ToNumericLinear(o)
       \/ \E r \in DOMAIN built :
            /\ TypeOf(r) # "function"
            /\ \/ Concatenate(o, r) \/ Chain(o, r)
               \/ Plus(o, r) \/ Minus(o, r) \/ Product(o, r)

Spec == Init /\ [][Next]_vars

-----------------------------------------------------------------------------

\* A function never changes once it is built: the properties look at the last
\* one, and at the ones given before any is built.
Newest == IF Len(built) = given THEN DOMAIN built ELSE {Len(built)}
WithRank(r) == {i \in Newest : Rank[TypeOf(i)] >= r}
Differentiables == WithRank(Rank["differentiable"])
Points(n) == [1..n -> {Number(v) : v \in Levels}]
\* x moved by e in direction j
Moved(x, j) == [x EXCEPT ![j] = Add(@, <<0, 1>>)]

Operands(i) ==
  LET f == built[i]
  IN CASE f.op \in Concrete -> {}
       [] f.op \in {"concatenate", "chain", "plus", "product"} -> {f.left, f.right}
       [] OTHER -> {f.of}

\* The functions have the sizes they announce: what operator () and jacobian
\* assert of every answer, whatever the operators it went through
\* (function.hxx:187, differentiable-function.hh:160, 205).
TypeOK ==
  \A i \in Differentiables : \A x \in Points(In(i)) :
    /\ Len(Value(i, x)) = Out(i)
    /\ Len(Jacobian(i, x)) = Out(i)
    /\ \A k \in 1..Out(i) : Len(Jacobian(i, x)[k]) = In(i)
    /\ \A k \in 1..Out(i) : Len(Gradient(i, x, k)) = In(i)

\* Entry (k, j) of the jacobian is the derivative of output k along j.
JacobianAgrees(i) ==
  \A x \in Points(In(i)) : \A j \in 1..In(i), k \in 1..Out(i) :
    LET y == Value(i, Moved(x, j))[k]
    IN y # Wild /\ Jacobian(i, x)[k][j] = Number(y[2])

\* gradient (x, k) is row k of jacobian (x).
GradientAgrees(i) ==
  \A x \in Points(In(i)) : \A k \in 1..Out(i) :
    Gradient(i, x, k) = Jacobian(i, x)[k]

Agrees(i) == JacobianAgrees(i) /\ GradientAgrees(i)

\* Where the values of an operator are written and read in their place:
\* a concatenation of a left function with as many inputs as outputs, a
\* selection within the outputs.
ValuesInPlace(i) ==
  LET f == built[i]
  IN /\ f.op = "concatenate" => In(f.left) = Out(f.left)
     /\ f.op = "selection" => f.start + f.size <= Out(f.of)

\* Where its gradients are those of the output asked for.
GradientsInPlace(i) ==
  LET f == built[i]
  IN /\ f.op = "selection" => f.start = 0
     /\ f.op = "selectionById" => f.selector = {1}
     /\ f.op = "map" => f.repeat = 1
     /\ f.op = "product" => f.in = 1 /\ f.out = 1
     /\ f.op = "derivative" => f.in = 1

\* An operator over functions whose jacobian is the derivative of their value
\* is such a function itself, through any nesting of operators and functions
\* of several outputs, except in the cases above; what the tests compare for
\* one operator at one point (tests/operator-chain.cc, operator-product.cc).
\* selectionById, split and derivative take their jacobian from gradients.
JacobiansFollowValues ==
  \A i \in Differentiables :
    (/\ \A o \in Operands(i) : JacobianAgrees(o)
     /\ built[i].op \in {"selectionById", "split"} =>
          \A o \in Operands(i) : GradientAgrees(o)
     /\ built[i].op = "derivative" => GradientsInPlace(i)
     /\ ValuesInPlace(i))
    => JacobianAgrees(i)


\* Entry (m, j) of the hessian of output k is the derivative of entry m of its
\* gradient along j.
HessianAgrees(i) ==
  \A x \in Points(In(i)) : \A m, j \in 1..In(i), k \in 1..Out(i) :
    LET g == Gradient(i, Moved(x, j), k)[m]
    IN g # Wild /\ Hessian(i, x, k)[m][j] = Number(g[2])


\* What is typed linear is affine: the function a conversion to
\* GenericNumericLinearFunction makes of it has its values, however it was
\* built, products of linear functions excepted.
IsAffine(i) ==
  \A x \in Points(In(i)) : Value(i, x) = LinearValue(AffineOf(i), x)
LinearTypesAreAffine ==
  \A i \in WithRank(Rank["linear"]) :
    (/\ \A o \in Operands(i) : TypeOf(o) = "linear" => IsAffine(o)
     /\ JacobianAgrees(i) /\ built[i].op # "product")
    => IsAffine(i)

=============================================================================
