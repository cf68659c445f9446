------------------------------ MODULE Evaluation ------------------------------
(***************************************************************************)
(* The evaluation of a function, from the call of the user through the     *)
(* virtual members of the functions it is made of, and back by a return or *)
(* an exception.  Each guarded call saves the process-wide flag that lets  *)
(* Eigen allocate, clears it, and restores it on return; where the library *)
(* has to allocate within an evaluation it sets the flag the same way.     *)
(*                                                                         *)
(* The functions are polynomials with integer coefficients, for which both *)
(* policies of the finite difference decorator are exact (the forward      *)
(* difference where each variable has degree one, the five-point rule up   *)
(* to degree four), so that a wrong sample, a wrong column or a buffer     *)
(* overwritten too early is a wrong answer and rounding is not.            *)
(***************************************************************************)
EXTENDS Integers, Sequences, SequencesExt, FiniteSetsExt

CONSTANTS
  Functions,   \* function objects
  Kind,        \* of each: "polynomial", "derivable" (NTimesDerivableFunction),
               \* "simple" or "fivePoints" (finite differences by that policy),
               \* "squares" (SumOfC1Squares)
  Adaptee,     \* of the last three: the function they wrap
  Sparse,      \* those over EigenMatrixSparse
  Inputs, Outputs,  \* inputSize () and outputSize ()
  Terms,       \* of the others: per output, a sequence of monomials
  Slip,        \* what their analytical jacobian has too much, per entry
  Pattern,     \* the entries of it that are stored
  Checker,     \* of those checked: the finite differences a check makes
  Epsilon,     \* epsilon_; a multiple of 4, as halves of its half are taken
  OtherStep,   \* h_opt, the step of a second estimation
  Precision,     \* one over the threshold of checks
  Points,      \* of each function: the arguments it is called at
  MaxCalls     \* bound: calls of the user

Decorated == {f \in Functions : Kind[f] \in {"simple", "fivePoints"}}
Squares == {f \in Functions : Kind[f] = "squares"}
Given == Functions \ (Decorated \cup Squares)
Checked == DOMAIN Checker

ASSUME FunctionsAssumption ==
  /\ Sparse \subseteq Functions /\ Checked \subseteq Given
  /\ \A f \in Functions :
       /\ Kind[f] \in {"polynomial", "derivable", "simple", "fivePoints", "squares"}
       /\ Inputs[f] \in Nat \ {0} /\ Outputs[f] \in Nat \ {0}
       /\ \A x \in Points[f] : x \in [1..Inputs[f] -> Int]
  /\ \A f \in Decorated : /\ Adaptee[f] \in Given
                          /\ Inputs[Adaptee[f]] = Inputs[f]
                          /\ Outputs[Adaptee[f]] = Outputs[f]
                          /\ Adaptee[f] \in Sparse <=> f \in Sparse
  /\ \A f \in Squares : /\ Adaptee[f] \in Given
                        /\ Inputs[Adaptee[f]] = Inputs[f] /\ Outputs[f] = 1
  /\ \A f \in Given : Kind[f] = "derivable" => Inputs[f] = 1
  /\ \A f \in Checked : /\ Checker[f] \in Functions
                        /\ Kind[Checker[f]] = "fivePoints" /\ Adaptee[Checker[f]] = f
ASSUME StepsAssumption ==
  /\ Epsilon \in Nat \ {0} /\ Epsilon % 4 = 0
  /\ OtherStep \in Nat \ {0} /\ OtherStep % 2 = 0
\* Each policy is exact for functions of that degree in every variable.
Degree(f) == IF Kind[f] = "simple" THEN 1 ELSE 4
ASSUME TermsAssumption ==
  /\ \A f \in Given :
       /\ Pattern[f] \subseteq (1..Outputs[f]) \X (1..Inputs[f])
       /\ \A k \in 1..Outputs[f] :
            /\ Terms[f][k] \in Seq([c : Int, e : [1..Inputs[f] -> Nat]])
            /\ \A j \in 1..Inputs[f] : Slip[f][k][j] \in Int
  /\ \A f \in Decorated : \A k \in 1..Outputs[f] : \A i \in DOMAIN Terms[Adaptee[f]][k] :
       \A j \in 1..Inputs[f] : Terms[Adaptee[f]][k][i].e[j] <= Degree(f)
ASSUME BoundAssumption == MaxCalls \in Nat /\ Precision \in Nat \ {0}

VARIABLES
  allowed,   \* the flag of is_malloc_allowed_update
  wanted,    \* what the user set it to
  lost,      \* whether an exception has left a guarded call since then
  stack,     \* the running calls, the innermost last
  buffers,   \* what the functions that wrap another keep between calls
  answer,    \* what the last call of the user returned, or a check reports
  outcome,   \* of the last call of the user
  calls      \* calls of the user so far

vars == <<allowed, wanted, lost, stack, buffers, answer, outcome, calls>>

-----------------------------------------------------------------------------
(* The polynomials. A monomial is [c, e]: c times the product of x[j]^e[j]. *)

Total(s) == FoldLeft(LAMBDA a, b : a + b, 0, s)
Product(s) == FoldLeft(LAMBDA a, b : a * b, 1, s)
Power(v, n) == Product([i \in 1..n |-> v])
ValueOf(m, x) == m.c * Product([j \in DOMAIN x |-> Power(x[j], m.e[j])])
Along(m, j) == [c |-> m.c * m.e[j],
                e |-> [m.e EXCEPT ![j] = IF @ = 0 THEN 0 ELSE @ - 1]]

Sum(terms, x) == Total([i \in DOMAIN terms |-> ValueOf(terms[i], x)])
Derived(terms, j) == [i \in DOMAIN terms |-> Along(terms[i], j)]

Exact(f, x) == [k \in 1..Outputs[f] |-> Sum(Terms[f][k], x)]
ExactRow(f, k, x) == [j \in 1..Inputs[f] |-> Sum(Derived(Terms[f][k], j), x)]
ExactCurvature(f, k, x) == Sum(Derived(Derived(Terms[f][k], 1), 1), x)

AnalyticalRow(f, k, x) ==
  [j \in 1..Inputs[f] |->
     IF <<k, j>> \in Pattern[f] THEN ExactRow(f, k, x)[j] + Slip[f][k][j] ELSE 0]

\* What the members of a given function compute; k is the order of a
\* derivative, of which all outputs are computed.
Computed(f, what, k, x) ==
  CASE what \in {"value", "valueAt"} -> <<Exact(f, x)>>
    [] what = "gradient" -> <<AnalyticalRow(f, k, x)>>
    [] what = "hessian" -> << <<ExactCurvature(f, k, x)>> >>
    [] what = "derivative" ->
         << [o \in 1..Outputs[f] |-> IF k = 1 THEN AnalyticalRow(f, o, x)[1]
                                     ELSE ExactCurvature(f, o, x)] >>

-----------------------------------------------------------------------------
(* What an implementation does, as the steps between two nested calls.      *)

Do(what) == [do |-> what]
\* call a member of g at the same argument; the answer goes to a place in the
\* caller: a row of its result, the whole of it, a buffer or a local sample
Eval(g, what, k, into) ==
  [do |-> "eval", of |-> g, what |-> what, k |-> k, into |-> into]
\* evaluate the adaptee with argument j moved by d
Probe(j, d, into) == [do |-> "probe", j |-> j, d |-> d, into |-> into]
\* write entry (row, j) from the samples of output k taken with step h
Write(row, k, j, h) == [do |-> "write", row |-> row, k |-> k, j |-> j, h |-> h]

\* cur_malloc_allowed = is_malloc_allowed (); set_is_malloc_allowed (true);
\* ... set_is_malloc_allowed (cur_malloc_allowed);
AllowedIn(steps) == <<Do("allow")>> \o steps \o <<Do("allocate"), Do("restore")>>
OnlyIfSparse(f, steps) == IF f \in Sparse THEN AllowedIn(steps) ELSE steps

ForEach(n, steps(_)) == FlattenSeq([i \in 1..n |-> steps(i)])

\* GenericDifferentiableFunction::impl_jacobian; the sparse one collects the
\* rows first and then allocates.
GradientsAsJacobian(f) ==
  LET Gradient(k) == <<Eval(f, "gradient", k, <<"row", k>>)>>
  IN ForEach(Outputs[f], Gradient) \o OnlyIfSparse(f, <<>>)

\* NTimesDerivableFunction::impl_gradient and impl_hessian: the vector the
\* derivative is written to is local.
LocalDerivative == AllowedIn(<<>>) \o <<Do("compute")>>
HessianOfFirst == <<Do("first output")>> \o LocalDerivative

\* Simple::computeGradient, computeColumn, computeJacobian
BaseOf(f) == <<Eval(Adaptee[f], "value", 0, <<"buffer", "result">>)>>
SimpleGradient(f, k) ==
  LET Entry(j) == <<Probe(j, Epsilon, <<"buffer", "resultEps">>), Write(1, k, j, Epsilon)>>
  IN BaseOf(f) \o ForEach(Inputs[f], Entry)
Column(f, j) ==
  <<Probe(j, Epsilon, <<"buffer", "resultEps">>)>>
    \o [k \in 1..Outputs[f] |-> Write(k, k, j, Epsilon)]
\* Policy::computeJacobian, where the sparse one collects the columns
ColumnByColumn(f) ==
  LET NextColumn(j) == Column(f, j)
  IN OnlyIfSparse(f, ForEach(Inputs[f], NextColumn))
SimpleJacobian(f) == BaseOf(f) \o ColumnByColumn(f)

\* FivePointsRule::compute_deriv, then the choice of a better step, which
\* depends on rounding and is left open
Sample(name, k) == <<"sample", name, k>>
Deriv(j, k, row, h) ==
  <<Probe(j, -h, Sample("fm1", k)), Probe(j, h, Sample("fp1", k)),
    Probe(j, -(h \div 2), Sample("fmh", k)), Probe(j, h \div 2, Sample("fph", k)),
    Write(row, k, j, h)>>
Again(j, k, row) == [do |-> "again", j |-> j, k |-> k, row |-> row]
FivePointsGradient(f, k, row) ==
  LET Entry(j) == Deriv(j, k, row, Epsilon \div 2) \o <<Again(j, k, row)>>
  IN ForEach(Inputs[f], Entry)
FivePointsJacobian(f) ==
  LET Row(k) == FivePointsGradient(f, k, k)
  IN OnlyIfSparse(f, ForEach(Outputs[f], Row))

\* What compute_deriv does a second time.
RepeatedForEver(i) == Deriv(i.j, i.k, i.row, OtherStep) \o <<i>>
Repeated(i) == Deriv(i.j, i.k, i.row, OtherStep)

\* SumOfC1Squares: computeFunction, and what is made of value_
SquaresValue == <<Do("refresh"), Do("square")>>
SquaresGradient(f) ==
  LET Part(k) == <<Eval(Adaptee[f], "gradient", k, <<"buffer", "gradient">>),
                   [do |-> "accumulate", k |-> k]>>
  IN <<Do("refresh")>> \o ForEach(Outputs[Adaptee[f]], Part)

\* checkGradient, checkJacobian and their throwing forms: the analytical
\* answer and that of finite differences made for the check.
Comparison(f, what, k) ==
  <<Do("allocate"), Eval(f, what, k, <<"whole", 1>>),
    Eval(Checker[f], what, k, <<"whole", 2>>), Do("compare")>>

Body(f, what, k) ==
  CASE what = "check gradient" -> Comparison(f, "gradient", k)
    [] what = "check jacobian" -> Comparison(f, "jacobian", k)
    [] Kind[f] = "simple" /\ what = "gradient" -> SimpleGradient(f, k)
    [] Kind[f] = "simple" /\ what = "jacobian" -> SimpleJacobian(f)
    [] Kind[f] = "fivePoints" /\ what = "gradient" -> FivePointsGradient(f, k, 1)
    [] Kind[f] = "fivePoints" /\ what = "jacobian" -> FivePointsJacobian(f)
    [] f \in Decorated /\ what = "value" ->
         <<Eval(Adaptee[f], "value", 0, <<"row", 1>>)>>
    [] f \in Squares /\ what = "value" -> SquaresValue
    [] f \in Squares /\ what = "gradient" -> SquaresGradient(f)
    [] f \notin Decorated /\ what = "jacobian" -> GradientsAsJacobian(f)
    [] f \in Given /\ what = "gradient" ->
         IF Kind[f] = "derivable" THEN LocalDerivative ELSE <<Do("compute")>>
    [] what = "hessian" -> HessianOfFirst
    [] what \in {"valueAt", "derivative"} -> <<Do("compute")>>
    [] f \in Given /\ what = "value" -> <<Do("compute")>>

-----------------------------------------------------------------------------
(* Calls. *)

\* These do not touch the flag; what they allocate is up to the user's.  The
\* first two are those of a derivable function at a number: operator () of it,
\* "valueAt", and derivative ().
Unguarded == {"valueAt", "derivative", "check gradient", "check jacobian"}
Checks == {"check gradient", "check jacobian"}

ZeroMatrix(m, n) == [i \in 1..m |-> [j \in 1..n |-> 0]]
ZeroAnswer(f, what) ==
  CASE what = "jacobian" -> ZeroMatrix(Outputs[f], Inputs[f])
    [] what \in {"value", "valueAt", "derivative"} -> ZeroMatrix(1, Outputs[f])
    [] what \in {"gradient", "hessian"} -> ZeroMatrix(1, Inputs[f])
    [] what \in Checks -> << <<>>, <<>> >>

SampleNames == {"fm1", "fp1", "fmh", "fph"}

\* operator (), gradient, jacobian, hessian: an answer set to zero, and the
\* flag as it was.
Frame(f, what, k, x, into) ==
  [f |-> f, what |-> what, k |-> k, x |-> x, into |-> into,
   saved |-> allowed, site |-> allowed,
   local |-> [s \in SampleNames |-> 0],
   out |-> ZeroAnswer(f, what), todo |-> Body(f, what, k)]

Top == Last(stack)
Doing(what) == stack # <<>> /\ Top.todo # <<>> /\ Head(Top.todo).do = what
Done == [Top EXCEPT !.todo = Tail(@)]
Becomes(frame) == stack' = Append(Front(stack), frame)
Enter(caller, frame) ==
  /\ stack' = Append(Append(Front(stack), caller), frame)
  /\ allowed' = FALSE

\* The buffers of new finite differences; what they hold is read by none.
Unset == 99
BuffersOfInputs(f) ==
  LET unset == [j \in 1..Inputs[f] |-> Unset]
  IN [xEps |-> unset, result |-> unset, resultEps |-> unset, tmpResult |-> unset]
NewBuffers(f) ==
  [xEps |-> [j \in 1..Inputs[f] |-> Unset],
   result |-> [k \in 1..Outputs[f] |-> Unset],
   resultEps |-> [k \in 1..Outputs[f] |-> Unset],
   tmpResult |-> [k \in 1..Outputs[f] |-> Unset]]

\* The constructor of SumOfC1Squares evaluates the base at zero.  torn: x_ is
\* set and value_ not yet.
ZeroOf(f) == [j \in 1..Inputs[f] |-> 0]
NewSquares(f) ==
  [x |-> ZeroOf(f), value |-> Exact(Adaptee[f], ZeroOf(f)), torn |-> FALSE,
   gradient |-> [j \in 1..Inputs[f] |-> Unset]]

NoAnswer == [what |-> "none"]
Stopped == {"forbidden", "refused", "assertion"}   \* the process has ended

Init ==
  /\ allowed = TRUE /\ wanted = TRUE /\ lost = FALSE
  /\ stack = <<>> /\ calls = 0
  /\ buffers = [f \in Decorated \cup Squares |->
                   IF f \in Squares THEN NewSquares(f) ELSE NewBuffers(f)]
  /\ answer = NoAnswer /\ outcome = "none"

Idle == stack = <<>> /\ outcome \notin Stopped /\ calls < MaxCalls

\* set_is_malloc_allowed, by the user
SetAllowed(b) ==
  /\ Idle
  /\ allowed' = b /\ wanted' = b /\ lost' = FALSE
  /\ outcome' = "none" /\ answer' = NoAnswer
  /\ UNCHANGED <<stack, buffers, calls>>

Members(f) == {"value", "gradient", "jacobian"}
                \cup (IF Kind[f] = "derivable" THEN {"hessian", "valueAt", "derivative"}
                      ELSE {})
                \cup (IF f \in Checked THEN Checks ELSE {})
\* the numbers of outputs, or the orders of a derivative
Numbers(f, what) ==
  CASE what \in {"gradient", "hessian", "check gradient"} -> 1..Outputs[f]
    [] what = "derivative" -> 1..2
    [] OTHER -> {0}

\* fresh: the form of a member that returns a new vector or matrix.
Call(f, what, k, x, fresh) ==
  /\ Idle
  /\ calls' = calls + 1
  /\ answer' = NoAnswer
  /\ IF fresh /\ ~allowed
     THEN outcome' = "refused" /\ UNCHANGED <<stack, allowed>>
     ELSE /\ outcome' = "running"
          /\ stack' = <<Frame(f, what, k, x, <<"user">>)>>
          /\ allowed' = IF what \in Unguarded THEN allowed ELSE FALSE
  /\ UNCHANGED <<wanted, lost, buffers>>

-----------------------------------------------------------------------------
(* The steps of the innermost call. *)

User == <<wanted, lost, calls, answer, outcome>>

EvalStep ==
  /\ Doing("eval")
  /\ LET i == Head(Top.todo) IN Enter(Done, Frame(i.of, i.what, i.k, Top.x, i.into))
  /\ UNCHANGED <<User, buffers>>

\* xEps = argument; xEps[j] = argument[j] + d; adaptee_ (result, xEps)
MovedToo(f, x, j, d) == [buffers[f].xEps EXCEPT ![j] = x[j] + d]
MovedOnly(f, x, j, d) == [x EXCEPT ![j] = @ + d]
ProbeStep ==
  /\ Doing("probe")
  /\ LET i == Head(Top.todo)
         xEps == MovedOnly(Top.f, Top.x, i.j, i.d)
     IN /\ buffers' = [buffers EXCEPT ![Top.f].xEps = xEps]
        /\ Enter(Done, Frame(Adaptee[Top.f], "value", 0, xEps, i.into))
  /\ UNCHANGED User

\* if (x != x_) { x_ = x; (*baseFunction_) (value_, x_); }
RefreshStep ==
  /\ Doing("refresh")
  /\ IF buffers[Top.f].x = Top.x
     THEN Becomes(Done) /\ UNCHANGED <<buffers, allowed>>
     ELSE /\ buffers' = [buffers EXCEPT ![Top.f].x = Top.x, ![Top.f].torn = TRUE]
          /\ Enter(Done, Frame(Adaptee[Top.f], "value", 0, Top.x, <<"refreshed">>))
  /\ UNCHANGED User

SquareStep ==
  /\ Doing("square")
  /\ LET y == buffers[Top.f].value
     IN Becomes([Done EXCEPT !.out[1][1] = Total([k \in DOMAIN y |-> y[k] * y[k]])])
  /\ UNCHANGED <<User, allowed, buffers>>

\* gradient += 2 * y * gradient_
AccumulateStep ==
  /\ Doing("accumulate")
  /\ LET b == buffers[Top.f]
         y == b.value[Head(Top.todo).k]
     IN Becomes([Done EXCEPT !.out[1] = [j \in DOMAIN @ |-> @[j] + 2 * y * b.gradient[j]]])
  /\ UNCHANGED <<User, allowed, buffers>>

ForwardDifference(b, k, h) == (b.resultEps[k] - b.result[k]) \div h
FivePointRule(s, h) == (8 * (s.fph - s.fmh) - (s.fp1 - s.fm1)) \div (6 * h)

WriteStep ==
  /\ Doing("write")
  /\ LET i == Head(Top.todo)
         entry == IF Kind[Top.f] = "simple"
                  THEN ForwardDifference(buffers[Top.f], i.k, i.h)
                  ELSE FivePointRule(Top.local, i.h)
     IN Becomes([Done EXCEPT !.out[i.row][i.j] = entry])
  /\ UNCHANGED <<User, allowed, buffers>>

\* The error estimate asks for another step, or not; the result computed with
\* it is taken, by the last of these steps, if its own error is smaller.
AgainStep ==
  /\ Doing("again")
  /\ LET more == Repeated(Head(Top.todo))
     IN \/ Becomes(Done)
        \/ Becomes([Done EXCEPT !.todo = more \o @])
        \/ Becomes([Done EXCEPT !.todo = Front(more) \o @])
  /\ UNCHANGED <<User, allowed, buffers>>

SiteFlagKept == allowed
SiteFlag == TRUE
AllowStep ==
  /\ Doing("allow")
  /\ allowed' = SiteFlag
  /\ Becomes([Done EXCEPT !.site = allowed])
  /\ UNCHANGED <<User, buffers>>

\* Eigen asserts that the flag is set.
AllocateStep ==
  /\ Doing("allocate")
  /\ IF allowed THEN Becomes(Done) /\ UNCHANGED outcome
     ELSE /\ stack' = <<>>
          /\ outcome' = IF Top.what \in Unguarded THEN "refused" ELSE "forbidden"
  /\ UNCHANGED <<wanted, lost, calls, answer, allowed, buffers>>

SiteLeftOpen(frame) == TRUE
SiteRestored(frame) == frame.site
RestoreStep ==
  /\ Doing("restore")
  /\ allowed' = SiteRestored(Top)
  /\ Becomes(Done)
  /\ UNCHANGED <<User, buffers>>

\* NTimesDerivableFunction::impl_hessian asserts functionId == 0.
RequireStep ==
  /\ Doing("first output")
  /\ IF Top.k = 1 THEN Becomes(Done) /\ UNCHANGED outcome
     ELSE stack' = <<>> /\ outcome' = "assertion"
  /\ UNCHANGED <<wanted, lost, calls, answer, allowed, buffers>>

\* The function of the user.
ComputeStep ==
  /\ Doing("compute")
  /\ Becomes([Done EXCEPT !.out = Computed(Top.f, Top.what, Top.k, Top.x)])
  /\ UNCHANGED <<User, allowed, buffers>>

\* It throws, and nothing in an evaluation catches it; only the objects of
\* running checks are destroyed.
Destroyed(f) == \E i \in DOMAIN stack : stack[i].what \in Checks /\ Checker[stack[i].f] = f
Emptied == [f \in DOMAIN buffers |-> IF Destroyed(f) THEN NewBuffers(f) ELSE buffers[f]]
Throw ==
  /\ Doing("compute")
  /\ stack' = <<>>
  /\ outcome' = "exception"
  /\ lost' = (lost \/ \E i \in DOMAIN stack : stack[i].what \notin Unguarded)
  /\ buffers' = Emptied
  /\ UNCHANGED <<wanted, calls, answer, allowed>>

-----------------------------------------------------------------------------
(* allclose, and what BadGradient and BadJacobian report. *)

Abs(v) == IF v < 0 THEN -v ELSE v
Close(a, b) == Abs(a - b) * Precision <= 1 + Abs(b)

Entries(m) == {<<i, j>> : i \in DOMAIN m, j \in DOMAIN m[1]}
StoredIn(f, what, k) ==
  IF what = "check jacobian" THEN Pattern[f]
  ELSE {<<1, e[2]>> : e \in {e \in Pattern[f] : e[1] = k}}

\* The sparse one walks the stored entries of both matrices side by side, in
\* each column up to the end of the shorter, and asserts that they are at the
\* same place; that of finite differences has all of them.  A dense matrix
\* stores everything.
Misaligned(stored, e) ==
  Cardinality({g \in stored : g[2] = e[2] /\ g[1] <= e[1]}) # e[1]
Verdict(stored, a, b) ==
  LET Walked(e, g) == e[2] < g[2] \/ (e[2] = g[2] /\ e[1] < g[1])
      stops == {e \in stored : \/ Misaligned(stored, e)
                               \/ ~Close(a[e[1]][e[2]], b[e[1]][e[2]])}
      first == CHOOSE e \in stops : \A g \in stops \ {e} : Walked(e, g)
  IN CASE stops = {} -> "accepted"
       [] stops # {} /\ Misaligned(stored, first) -> "assertion"
       [] OTHER -> "rejected"

Delta(a, b, e) == Abs(a[e[1]][e[2]] - b[e[1]][e[2]])
RowByRow(e, g) == e[1] < g[1] \/ (e[1] = g[1] /\ e[2] < g[2])
LastLargest(a, b) ==
  CHOOSE e \in Entries(a) :
    \A g \in Entries(a) :
      Delta(a, b, g) < Delta(a, b, e) \/ (Delta(a, b, g) = Delta(a, b, e) /\ ~RowByRow(e, g))
\* maxDelta_, maxDeltaRow_, maxDeltaCol_: the first largest, row by row.
Largest(a, b) ==
  CHOOSE e \in Entries(a) :
    \A g \in Entries(a) :
      Delta(a, b, g) < Delta(a, b, e) \/ (Delta(a, b, g) = Delta(a, b, e) /\ ~RowByRow(g, e))

\* maxDelta_, maxDeltaComponent_
LargestComponent(a, b) ==
  <<1, CHOOSE j \in DOMAIN a[1] :
         \A i \in DOMAIN a[1] : \/ Delta(a, b, <<1, i>>) < Delta(a, b, <<1, j>>)
                                \/ Delta(a, b, <<1, i>>) = Delta(a, b, <<1, j>>) /\ j <= i>>

CompareStep ==
  /\ Doing("compare")
  /\ LET a == Top.out[1]
         b == Top.out[2]
     IN /\ outcome' = Verdict(StoredIn(Top.f, Top.what, Top.k), a, b)
        /\ answer' = [f |-> Top.f, what |-> Top.what, k |-> Top.k, x |-> Top.x,
                      largest |-> IF Top.what = "check gradient"
                                  THEN LargestComponent(a, b) ELSE Largest(a, b)]
  /\ stack' = <<>>
  /\ buffers' = Emptied
  /\ UNCHANGED <<wanted, lost, calls, allowed>>

-----------------------------------------------------------------------------
(* Returns. *)

RestoredToTrue(frame) == IF frame.what \in Unguarded THEN allowed ELSE TRUE
RestoredTo(frame) == IF frame.what \in Unguarded THEN allowed ELSE frame.saved

ReturnToUser ==
  /\ Len(stack) = 1 /\ Top.todo = <<>>
  /\ stack' = <<>>
  /\ answer' = [f |-> Top.f, what |-> Top.what, k |-> Top.k, x |-> Top.x, out |-> Top.out]
  /\ outcome' = "returned"
  /\ allowed' = RestoredTo(Top)
  /\ UNCHANGED <<wanted, lost, calls, buffers>>

\* The answer goes where the caller wants it; a sample by way of tmpResult_.
Stored(caller, into, out) ==
  CASE into[1] = "row" -> [caller EXCEPT !.out[into[2]] = out[1]]
    [] into[1] = "whole" -> [caller EXCEPT !.out[into[2]] = out]
    [] into[1] = "sample" -> [caller EXCEPT !.local[into[2]] = out[1][into[3]]]
    [] into[1] \in {"buffer", "refreshed"} -> caller
Buffered(f, into, out) ==
  CASE into[1] = "sample" -> [buffers EXCEPT ![f].tmpResult = out[1]]
    [] into[1] = "buffer" -> [buffers EXCEPT ![f][into[2]] = out[1]]
    [] into[1] = "refreshed" -> [buffers EXCEPT ![f].value = out[1], ![f].torn = FALSE]
    [] OTHER -> buffers

Return ==
  /\ Len(stack) > 1 /\ Top.todo = <<>>
  /\ LET caller == stack[Len(stack) - 1]
     IN /\ stack' = Append(SubSeq(stack, 1, Len(stack) - 2), Stored(caller, Top.into, Top.out))
        /\ buffers' = Buffered(caller.f, Top.into, Top.out)
  /\ allowed' = RestoredTo(Top)
  /\ UNCHANGED User

-----------------------------------------------------------------------------

Step ==
  \/ EvalStep \/ ProbeStep \/ WriteStep \/ AgainStep
  \/ RefreshStep \/ SquareStep \/ AccumulateStep
  \/ AllowStep \/ AllocateStep \/ RestoreStep
  \/ RequireStep \/ ComputeStep \/ CompareStep
  \/ ReturnToUser \/ Return

Next ==
  \/ \E b \in BOOLEAN : SetAllowed(b)
  \/ \E f \in Functions \ {Checker[g] : g \in Checked} :
       \E what \in Members(f) : \E k \in Numbers(f, what), x \in Points[f], fresh \in BOOLEAN :
         Call(f, what, k, x, fresh)
  \/ Step
  \/ Throw

\* A call that runs goes on; the user need not call, nor a function throw.
Spec == Init /\ [][Next]_vars /\ WF_vars(Step)

-----------------------------------------------------------------------------

TypeOK ==
  /\ allowed \in BOOLEAN /\ wanted \in BOOLEAN /\ lost \in BOOLEAN
  /\ calls \in 0..MaxCalls
  /\ outcome \in Stopped \cup {"none", "running", "returned", "exception", "accepted", "rejected"}
  /\ (stack # <<>>) <=> (outcome = "running")
  /\ Len(stack) <= 3
  /\ \A f \in Decorated : /\ Len(buffers[f].xEps) = Inputs[f]
                          /\ Len(buffers[f].result) = Outputs[f]
                          /\ Len(buffers[f].resultEps) = Outputs[f]
                          /\ Len(buffers[f].tmpResult) = Outputs[f]

\* The flag is what the user set it to whenever no evaluation runs, however
\* the calls were nested and whatever the library allocated within them,
\* unless an exception went through a guarded call: then it is cleared, and
\* stays so for the whole process until the user sets it again
\* (function.hxx:178, differentiable-function.hh:150).
GuardIsRestored ==
  stack = <<>> /\ outcome \notin Stopped =>
    /\ ~lost => allowed = wanted
    /\ lost => ~allowed

\* A function of the user is evaluated with the flag cleared, also where the
\* library allocated before in the same call, or allocates around it; only
\* the members of a derivable function that take a number, operator () and
\* derivative (), leave the flag alone (n-times-derivable-function.hh:100-150).
UserCodeIsGuarded == Doing("compute") /\ Top.what \notin Unguarded => ~allowed

\* The library never allocates under a flag it cleared itself: an assertion
\* of Eigen is only met by the user's own calls, when they set the flag, or
\* after an exception lost it (differentiable-function.hxx:62).
AllocationsAreAllowed ==
  /\ outcome # "forbidden"
  /\ outcome = "refused" => ~wanted \/ lost

SumOfSquares(f, x) == Total([k \in 1..Outputs[f] |-> Exact(f, x)[k] * Exact(f, x)[k]])
RowOfSquares(f, x) ==
  [j \in 1..Inputs[f] |->
     Total([k \in 1..Outputs[f] |-> 2 * Exact(f, x)[k] * AnalyticalRow(f, k, x)[j]])]
Reference(f, what, k, x) ==
  IF f \in Squares
  THEN IF what = "value" THEN << <<SumOfSquares(Adaptee[f], x)>> >>
       ELSE <<RowOfSquares(Adaptee[f], x)>>
  ELSE IF f \in Given
  THEN IF what = "jacobian" THEN [i \in 1..Outputs[f] |-> AnalyticalRow(f, i, x)]
       ELSE Computed(f, what, k, x)
  ELSE CASE what = "value" -> <<Exact(Adaptee[f], x)>>
         [] what = "gradient" -> <<ExactRow(Adaptee[f], k, x)>>
         [] what = "jacobian" -> [i \in 1..Outputs[f] |-> ExactRow(Adaptee[f], i, x)]

\* The finite differences of a polynomial of low degree are its derivatives,
\* at every entry, for both policies, dense or sparse, and whichever step was
\* taken: no sample is of another column, of another output or of an earlier
\* call, also after a call that ended by an exception
\* (finite-difference-gradient.hxx:390, :453, :532, :632).  The value a sum of
\* squares keeps is of the argument asked for, except after its base threw:
\* then the same argument, asked for again, is answered with what value_ still
\* holds of another one (sum-of-c1-squares.hxx:94).
Torn(f) == f \in Squares /\ buffers[f].torn
AnswersAreExact ==
  outcome = "returned" /\ ~Torn(answer.f) =>
    answer.out = Reference(answer.f, answer.what, answer.k, answer.x)

RowOf(e) == IF answer.what = "check gradient" THEN answer.k ELSE e[1]
IsStored(e) == <<RowOf(e), e[2]>> \in Pattern[answer.f]
TrueEntry(e) == ExactRow(answer.f, RowOf(e), answer.x)[e[2]]
Error(e) == Abs(IF IsStored(e) THEN Slip[answer.f][RowOf(e)][e[2]] ELSE TrueEntry(e))
Checkable == {<<i, j>> : i \in IF answer.what = "check gradient" THEN {1} ELSE 1..Outputs[answer.f],
                         j \in 1..Inputs[answer.f]}
Tolerated(e) == Error(e) * Precision <= 1 + Abs(TrueEntry(e))

\* A check accepts no error above the threshold in an entry that is stored
\* (one that a sparse function does not store is not compared), rejects only
\* when there is one, and reports the largest error and the first place it
\* is at (finite-difference-gradient.hxx:303, :180, util.cc:149).
ChecksFindErrors ==
  /\ outcome = "accepted" => \A e \in Checkable : IsStored(e) => Tolerated(e)
  /\ outcome = "rejected" =>
       /\ \E e \in Checkable : ~Tolerated(e)
       /\ \A e \in Checkable :
            /\ Error(e) <= Error(answer.largest)
            /\ RowByRow(e, answer.largest) => Error(e) < Error(answer.largest)

\* Every evaluation ends, in a return, an exception or an assertion: the
\* second estimation of a derivative is not estimated again
\* (finite-difference-gradient.hxx:663).
EvaluationEnds == stack # <<>> ~> stack = <<>>
=============================================================================
