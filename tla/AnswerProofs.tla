---------------------------- MODULE AnswerProofs ----------------------------
(***************************************************************************)
(* Theorems about the numbers that Evaluation computes: what the user gets *)
(* is the value or the derivative asked for, and a check finds the errors  *)
(* of the analytical derivatives; for any polynomials with integer         *)
(* coefficients whose degree the policy is exact for.                      *)
(***************************************************************************)
EXTENDS EvaluationProofs

(***************************************************************************)
(* The answers: what each running call has answered so far is right, or is *)
(* still to come.                                                          *)
(***************************************************************************)

\* The member a check compares.
Shown(what) == IF what = "check gradient" THEN "gradient" ELSE "jacobian"

Ref(fr) == Reference(fr.f, fr.what, fr.k, fr.x)
RowCount(f, what) == IF what = "jacobian" THEN Outputs[f] ELSE 1
Compared(fr, c) ==
  Reference(IF c = 1 THEN fr.f ELSE Checker[fr.f], Shown(fr.what), fr.k, fr.x)

Differencing(f, what) == f \in Decorated /\ what \in {"gradient", "jacobian"}
Forwarding(f, what) ==
  (f \in Decorated /\ what = "value") \/ (f \notin Decorated /\ what = "jacobian")
Computing(f, what) == f \in Given /\ what \in {"value", "gradient", "hessian", "valueAt", "derivative"}

Steps(f) == IF Kind[f] = "simple" THEN {Epsilon} ELSE {Epsilon \div 2, OtherStep}

\* The steps with the arguments a call of that member gives them.
MeantEval(f, what, k, i) ==
  /\ i.k \in Numbers(i.of, i.what)
  /\ \/ /\ i.into = <<"row", 1>> /\ f \in Decorated /\ what = "value"
        /\ i.of = Adaptee[f] /\ i.what = "value"
     \/ /\ i.into = <<"row", i.k>> /\ f \notin Decorated /\ what = "jacobian"
        /\ i.of = f /\ i.what = "gradient"
     \/ /\ what \in Checks /\ i.what = Shown(what) /\ i.k = k
        /\ \/ i.into = <<"whole", 1>> /\ i.of = f
           \/ i.into = <<"whole", 2>> /\ i.of = Checker[f]
     \/ /\ i.into = <<"buffer", "result">> /\ Differencing(f, what) /\ Kind[f] = "simple"
        /\ i.of = Adaptee[f] /\ i.what = "value"
     \/ /\ i.into = <<"buffer", "gradient">> /\ f \in Squares /\ what = "gradient"
        /\ i.of = Adaptee[f] /\ i.what = "gradient"
MeantEntry(f, what, k, i) ==
  /\ i.j \in 1..Inputs[f] /\ i.k \in 1..Outputs[f]
  /\ IF what = "jacobian" THEN i.row = i.k ELSE i.row = 1 /\ i.k = k
MeantSample(f, into) ==
  IF Kind[f] = "simple" THEN into = <<"buffer", "resultEps">>
  ELSE into \in {"sample"} \X SampleNames \X (1..Outputs[f])
MeantProbe(f, i) ==
  /\ i.j \in 1..Inputs[f] /\ MeantSample(f, i.into)
  /\ Kind[f] = "simple" => i.d = Epsilon

Meant(f, what, k) ==
  {i \in StepsOf(f, what) :
     /\ i.do = "eval" => MeantEval(f, what, k, i)
     /\ i.do \in {"write", "again"} => MeantEntry(f, what, k, i)
     /\ i.do = "write" => i.h \in Steps(f)
     /\ i.do = "again" => Kind[f] = "fivePoints"
     /\ i.do = "compute" => what # "jacobian"
     /\ i.do = "probe" => MeantProbe(f, i)}

\* What a call needs to know of the one above it.
Seen(fr) == [into |-> fr.into, x |-> fr.x, k |-> fr.k]
Nobody == [into |-> <<"user">>, x |-> <<>>, k |-> 0]
Above(s, i) == IF i < Len(s) THEN Seen(s[i + 1]) ELSE Nobody
Awaited(fr, above, place) ==
  \/ above.into = place
  \/ \E i \in ToSet(fr.todo) : i.do = "eval" /\ i.into = place

Moved(x, j, d) == [x EXCEPT ![j] = @ + d]
SampleAt(fr, j, d) == Exact(Adaptee[fr.f], Moved(fr.x, j, d))

ComputeRight(fr) == fr.out = Ref(fr) \/ \E i \in ToSet(fr.todo) : i.do = "compute"

RowsRight(fr, b, above) ==
  /\ Vec(fr.out, RowCount(fr.f, fr.what))
  /\ \A r \in 1..RowCount(fr.f, fr.what) :
       \/ fr.out[r] = Ref(fr)[r] \/ Awaited(fr, above, <<"row", r>>)
       \/ fr.f \in Squares /\ b[fr.f].torn

\* All but the first n of some steps are left.
Left(todo, steps, n) ==
  /\ Len(todo) = Len(steps) - n
  /\ \A p \in 1..Len(todo) : todo[p] = steps[n + p]

\* Steps 2 and 3 of a check ask for what it compares.
WholesRight(fr, above) ==
  /\ Vec(fr.out, 2)
  /\ \E n \in 0..3 :
       /\ Left(fr.todo, Comparison(fr.f, Shown(fr.what), fr.k), n)
       /\ \A c \in 1..2 : n > c =>
            fr.out[c] = Compared(fr, c) \/ (above.into = <<"whole", c>> /\ n = c + 1)

EntriesRight(fr) ==
  /\ Vec(fr.out, RowCount(fr.f, fr.what))
  /\ \A r \in 1..RowCount(fr.f, fr.what) :
       /\ Vec(fr.out[r], Inputs[fr.f])
       /\ \A j \in 1..Inputs[fr.f] :
            \/ fr.out[r][j] = Ref(fr)[r][j]
            \/ \E i \in ToSet(fr.todo) : i.do = "write" /\ i.row = r /\ i.j = j

\* The forward differences: a write follows the sample of its argument, or
\* another write of it.
SimplyPrepared(t) ==
  \A p \in DOMAIN t : p > 1 =>
    /\ t[p].do # "eval"
    /\ t[p].do = "write" => t[p - 1].do \in {"probe", "write"} /\ t[p - 1].j = t[p].j
SimplyReady(fr, b, above) ==
  /\ SimplyPrepared(fr.todo)
  /\ \/ b[fr.f].result = Exact(Adaptee[fr.f], fr.x)
     \/ above.into = <<"buffer", "result">>
     \/ fr.todo # <<>> /\ fr.todo[1].do = "eval"
  /\ fr.todo # <<>> /\ fr.todo[1].do = "write" =>
       IF above.into = <<"buffer", "resultEps">>
       THEN above.x = Moved(fr.x, fr.todo[1].j, Epsilon)
       ELSE b[fr.f].resultEps = SampleAt(fr, fr.todo[1].j, Epsilon)

\* The five points: a write follows its own four samples, those still to be
\* taken and those taken.
Name(s) == CASE s = 1 -> "fm1" [] s = 2 -> "fp1" [] s = 3 -> "fmh" [] s = 4 -> "fph"
Shift(s, h) == CASE s = 1 -> -h [] s = 2 -> h [] s = 3 -> -(h \div 2) [] s = 4 -> h \div 2
Before(i, s) == Probe(i.j, Shift(s, i.h), Sample(Name(s), i.k))
Prepared(t) ==
  \A p \in DOMAIN t : t[p].do = "write" =>
    \A s \in 1..4 : p - (5 - s) >= 1 => t[p - (5 - s)] = Before(t[p], s)
SampleRight(fr, i, s) ==
  fr.local[Name(s)] = SampleAt(fr, i.j, Shift(s, i.h))[i.k]
SampleComes(fr, above, i, s) ==
  above.into = Sample(Name(s), i.k) /\ above.x = Moved(fr.x, i.j, Shift(s, i.h))
Ready(fr, above) ==
  /\ Prepared(fr.todo)
  /\ \A p \in DOMAIN fr.todo : fr.todo[p].do = "write" =>
       \A s \in 1..4 : p - (5 - s) < 1 =>
         IF p - (5 - s) = 0 /\ above.into[1] = "sample"
         THEN SampleComes(fr, above, fr.todo[p], s)
         ELSE SampleRight(fr, fr.todo[p], s)

\* The sums of squares.
ValueRight(fr, b, above) ==
  /\ Vec(fr.out, 1) /\ Vec(fr.out[1], 1)
  /\ \/ fr.todo = SquaresValue /\ above.into # <<"refreshed">>
     \/ fr.todo = <<Do("square")>> /\ b[fr.f].x = fr.x
     \/ fr.todo = <<>> /\ above.into # <<"refreshed">> /\ (b[fr.f].torn \/ fr.out = Ref(fr))

Term(fr, k, j) ==
  2 * Exact(Adaptee[fr.f], fr.x)[k] * AnalyticalRow(Adaptee[fr.f], k, fr.x)[j]
Partly(fr, n, j) == Total([k \in 1..n |-> Term(fr, k, j)])
\* s steps are done, and n terms are summed.
SummedUp(fr, b, above, s, n) ==
  /\ (s = 0 /\ n = 0) \/ s = 2 * n + 1 \/ s = 2 * n + 2
  /\ s > 0 => b[fr.f].x = fr.x
  /\ above.into = <<"refreshed">> => s > 0 /\ n = 0
  /\ (n > 0 /\ b[fr.f].torn) \/ \A j \in 1..Inputs[fr.f] : fr.out[1][j] = Partly(fr, n, j)
  /\ s = 2 * n + 2 =>
       IF above.into = <<"buffer", "gradient">> THEN above.k = n + 1
       ELSE b[fr.f].gradient = AnalyticalRow(Adaptee[fr.f], n + 1, fr.x)
SumRight(fr, b, above) ==
  LET body == SquaresGradient(fr.f)
      m == Outputs[Adaptee[fr.f]]
  IN /\ Vec(fr.out, 1) /\ Vec(fr.out[1], Inputs[fr.f])
     /\ \E s \in 0..2 * m + 1, n \in 0..m :
          Left(fr.todo, body, s) /\ SummedUp(fr, b, above, s, n)

\* What is so of every running call: what it has answered so far is right, or
\* is still to come.
Right(fr, b, above) ==
  /\ fr.todo \in Seq(Meant(fr.f, fr.what, fr.k))
  /\ fr.k \in Numbers(fr.f, fr.what)
  /\ fr.x \in [1..Inputs[fr.f] -> Int]
  /\ Computing(fr.f, fr.what) => ComputeRight(fr)
  /\ Forwarding(fr.f, fr.what) => RowsRight(fr, b, above)
  /\ fr.what \in Checks => WholesRight(fr, above)
  /\ Differencing(fr.f, fr.what) =>
       /\ EntriesRight(fr)
       /\ DOMAIN fr.local = SampleNames
       /\ IF Kind[fr.f] = "simple" THEN SimplyReady(fr, b, above) ELSE Ready(fr, above)
  /\ fr.f \in Squares /\ fr.what = "value" => ValueRight(fr, b, above)
  /\ fr.f \in Squares /\ fr.what = "gradient" => SumRight(fr, b, above)

\* What a call within another was asked for.
Asked(c, fr) ==
  \/ MeantEval(c.f, c.what, c.k, Eval(fr.f, fr.what, fr.k, fr.into)) /\ fr.x = c.x
  \/ /\ fr.f = Adaptee[c.f] /\ fr.what = "value"
     /\ \/ Differencing(c.f, c.what) /\ MeantSample(c.f, fr.into)
        \/ c.f \in Squares /\ c.what \in {"value", "gradient"}
             /\ fr.into = <<"refreshed">> /\ fr.x = c.x

Kept(b) ==
  \A f \in Squares :
    /\ DOMAIN b[f] = {"x", "value", "torn", "gradient"} /\ b[f].torn \in BOOLEAN
    /\ b[f].torn \/ b[f].value = Exact(Adaptee[f], b[f].x)

AllRight ==
  /\ \A i \in 1..Len(stack) : Right(stack[i], buffers, Above(stack, i))
  /\ \A i \in 1..Len(stack) - 1 : Asked(stack[i], stack[i + 1])
  /\ Kept(buffers)

(***************************************************************************)
(* Sequences of steps, joined from shorter ones.                           *)
(***************************************************************************)

\* FlattenSeq is the last of what Flattens lists.
LEMMA FlattenIsLast ==
  ASSUME NEW C, NEW ss \in Seq(C), ss # <<>>
  PROVE  /\ Len(ss) \in Nat \ {0} /\ \A i \in 1..Len(ss) : ss[i] \in C
         /\ \E g : Flattens(g, ss, Len(ss)) /\ FlattenSeq(ss) = g[Len(ss)]
<1> DEFINE n == Len(ss)
           g == CHOOSE g : Flattens(g, ss, n)
<1>1. n \in Nat \ {0} /\ \A i \in 1..n : ss[i] \in C
  BY LenProperties, ElementOfSeq, EmptySeq
<1>2. FlattenSeq(ss) = g[n]
  BY DEF FlattenSeq, Flattens
<1>3. Flattens(g, ss, n)
  <2>1. n \in 1..n
    BY <1>1
  <2> QED BY <1>1, <2>1, FlattensExists
<1> HIDE DEF g
<1> QED BY <1>1, <1>2, <1>3

\* What sequences have, and their concatenations with it, FlattenSeq has.
LEMMA FlattenClosed ==
  ASSUME NEW C, <<>> \in C, \A p, q \in C : p \o q \in C, NEW ss \in Seq(C)
  PROVE  FlattenSeq(ss) \in C
<1>1. CASE ss = <<>>
  BY <1>1 DEF FlattenSeq
<1>2. CASE ss # <<>>
  <2> DEFINE n == Len(ss)
  <2>1. n \in Nat \ {0} /\ \A i \in 1..n : ss[i] \in C
    BY <1>2, FlattenIsLast
  <2>2. PICK g : Flattens(g, ss, n) /\ FlattenSeq(ss) = g[n]
    BY <1>2, FlattenIsLast
  <2> HIDE DEF n
  <2> DEFINE I == {i \in 1..n : g[i] \notin C}
  <2>3. ASSUME I # {} PROVE FALSE
    <3>1. PICK m \in I : \A i \in I : m <= i
      <4>1. I \in SUBSET Nat
        BY <2>1
      <4> HIDE DEF I
      <4> QED BY <2>3, <4>1, LeastNatural
    <3>2. m \in 1..n /\ g[m] \notin C
      BY <3>1
    <3>3. g[m] = IF m = 1 THEN ss[m] ELSE g[m - 1] \o ss[m]
      BY <2>2, <3>2 DEF Flattens
    <3>4. m # 1 => g[m - 1] \in C
      BY <2>1, <3>1, <3>2
    <3> QED BY <2>1, <3>2, <3>3, <3>4
  <2>4. n \in 1..n
    BY <2>1
  <2> QED BY <2>2, <2>3, <2>4
<1> QED BY <1>1, <1>2

\* What is in one of the sequences is in their concatenation.
LEMMA ConcatHas ==
  ASSUME NEW S, NEW p \in Seq(S), NEW q \in Seq(S), NEW e,
         e \in ToSet(p) \/ e \in ToSet(q)
  PROVE  e \in ToSet(p \o q)
<1>1. /\ Len(p) \in Nat /\ Len(q) \in Nat /\ DOMAIN p = 1..Len(p) /\ DOMAIN q = 1..Len(q)
      /\ DOMAIN (p \o q) = 1..Len(p) + Len(q)
      /\ \A i \in 1..Len(p) + Len(q) : (p \o q)[i] = IF i <= Len(p) THEN p[i] ELSE q[i - Len(p)]
  BY ConcatProperties, LenProperties
<1> DEFINE c == p \o q
           m == Len(p)
           n == Len(q)
<1>2. ASSUME NEW i \in 1..m, e = p[i] PROVE e \in ToSet(c)
  <2>1. i \in DOMAIN c /\ c[i] = e
    BY <1>1, <1>2
  <2> HIDE DEF c
  <2> QED BY <2>1 DEF ToSet
<1>3. ASSUME NEW i \in 1..n, e = q[i] PROVE e \in ToSet(c)
  <2>1. i + m \in 1..m + n /\ ~(i + m <= m) /\ i + m - m = i
    BY <1>1
  <2>2. i + m \in DOMAIN c /\ c[i + m] = e
    BY <1>1, <1>3, <2>1
  <2> HIDE DEF c
  <2> QED BY <2>2 DEF ToSet
<1>4. (\E i \in 1..m : e = p[i]) \/ (\E i \in 1..n : e = q[i])
  BY <1>1 DEF ToSet
<1> QED BY <1>2, <1>3, <1>4

\* What one of the joined sequences has, the joined one has.
LEMMA FlattenHas ==
  ASSUME NEW S, NEW ss \in Seq(Seq(S)), NEW i \in 1..Len(ss), NEW e \in ToSet(ss[i])
  PROVE  e \in ToSet(FlattenSeq(ss))
<1> DEFINE n == Len(ss)
<1>0. ss # <<>>
  <2>1. CASE ss = <<>>
    <3>1. Len(ss) = 0
      BY <2>1
    <3> QED BY <3>1
  <2> QED BY <2>1
<1>1. n \in Nat \ {0} /\ \A k \in 1..n : ss[k] \in Seq(S)
  BY <1>0, FlattenIsLast
<1>2. PICK g : Flattens(g, ss, n) /\ FlattenSeq(ss) = g[n]
  BY <1>0, FlattenIsLast
<1>3. i \in 1..n
  OBVIOUS
<1> HIDE DEF n
<1> DEFINE I == {k \in 1..n : g[k] \notin Seq(S) \/ (k >= i /\ e \notin ToSet(g[k]))}
<1>4. ASSUME I # {} PROVE FALSE
  <2>1. PICK m \in I : \A k \in I : m <= k
    <3>1. I \in SUBSET Nat
      BY <1>1
    <3> HIDE DEF I
    <3> QED BY <1>4, <3>1, LeastNatural
  <2>2. m \in 1..n /\ (g[m] \notin Seq(S) \/ (m >= i /\ e \notin ToSet(g[m])))
    BY <2>1
  <2>3. g[m] = IF m = 1 THEN ss[m] ELSE g[m - 1] \o ss[m]
    BY <1>2, <2>2 DEF Flattens
  <2>4. m # 1 => g[m - 1] \in Seq(S) /\ (m - 1 >= i => e \in ToSet(g[m - 1]))
    <3>1. m # 1 => m - 1 \in 1..n /\ ~(m <= m - 1)
      BY <1>1, <2>2
    <3>2. m # 1 => m - 1 \notin I
      BY <2>1, <3>1
    <3> QED BY <3>1, <3>2
  <2>5. ss[m] \in Seq(S)
    BY <1>1, <2>2
  <2>6. CASE m = 1
    <3>1. i = 1 \/ ~(m >= i)
      BY <1>1, <1>3, <2>6
    <3> QED BY <2>2, <2>3, <2>5, <2>6, <3>1
  <2>7. CASE m # 1
    <3>1. g[m] \in Seq(S)
      BY <2>3, <2>4, <2>5, <2>7, ConcatProperties
    <3>2. m >= i => m - 1 >= i \/ m = i
      BY <1>1, <1>3, <2>2
    <3>3. m >= i => e \in ToSet(g[m - 1]) \/ e \in ToSet(ss[m])
      BY <2>4, <2>7, <3>2
    <3>4. m >= i => e \in ToSet(g[m])
      BY <2>3, <2>4, <2>5, <2>7, <3>3, ConcatHas
    <3> QED BY <2>2, <3>1, <3>4
  <2> QED BY <2>6, <2>7
<1>5. n \in 1..n /\ n >= i
  BY <1>1, <1>3
<1> QED BY <1>2, <1>4, <1>5

\* Pairs laid end to end.
PairAt(q, k, a, b) == q[2 * k - 1] = a /\ q[2 * k] = b
Pairs(ss, n, a, b) == ss = [k \in 1..n |-> <<a[k], b[k]>>]

\* Joining pairs lays them two by two, in their order.
LEMMA FlattenPairs ==
  ASSUME NEW S, NEW n \in Nat \ {0}, NEW a \in [1..n -> S], NEW b \in [1..n -> S],
         NEW ss, Pairs(ss, n, a, b)
  PROVE  /\ Len(FlattenSeq(ss)) = 2 * n /\ FlattenSeq(ss) \in Seq(S)
         /\ \A k \in 1..n : PairAt(FlattenSeq(ss), k, a[k], b[k])
<1> USE DEF Pairs, PairAt
<1>1. \A k \in 1..n : <<a[k], b[k]>> \in Seq(S)
  OBVIOUS
<1>2. ss \in [1..n -> Seq(S)]
  BY <1>1
<1>3. ss \in Seq(Seq(S)) /\ Len(ss) = n
  BY <1>2, SeqDef, LenProperties
<1>4. ss # <<>>
  BY <1>3, EmptySeq
<1>5. PICK g : Flattens(g, ss, n) /\ FlattenSeq(ss) = g[n]
  BY ZenonT(60), <1>3, <1>4, FlattenIsLast
<1> DEFINE P(m) == /\ g[m] \in Seq(S) /\ Len(g[m]) = 2 * m
                   /\ \A k \in 1..m : g[m][2 * k - 1] = a[k] /\ g[m][2 * k] = b[k]
           I == {m \in 1..n : ~P(m)}
<1>6. ASSUME I # {} PROVE FALSE
  <2>1. PICK m \in I : \A k \in I : m <= k
    <3>1. I \in SUBSET Nat
      OBVIOUS
    <3> HIDE DEF I
    <3> QED BY <1>6, <3>1, LeastNatural
  <2>2. m \in 1..n /\ ~P(m)
    BY <2>1
  <2>3. g[m] = IF m = 1 THEN ss[m] ELSE g[m - 1] \o ss[m]
    BY <1>5, <2>2 DEF Flattens
  <2>4. ss[m] = <<a[m], b[m]>> /\ a[m] \in S /\ b[m] \in S
    BY <2>2
  <2> DEFINE c == <<a[m], b[m]>>
  <2>5. c \in Seq(S) /\ Len(c) = 2 /\ c[1] = a[m] /\ c[2] = b[m]
    BY <2>4
  <2> HIDE DEF c
  <2>6. CASE m = 1
    <3>1. g[m] = c
      BY <2>3, <2>4, <2>6 DEF c
    <3>2. P(m)
      BY <2>5, <2>6, <3>1
    <3> QED BY <2>2, <3>2
  <2>7. CASE m # 1
    <3> DEFINE h == g[m - 1]
    <3>1. m - 1 \in 1..n /\ m - 1 \notin I
      <4>1. m - 1 \in 1..n /\ ~(m <= m - 1)
        BY <2>2, <2>7
      <4> HIDE DEF P
      <4> QED BY <2>1, <4>1
    <3>2. P(m - 1)
      BY <3>1
    <3>3. /\ h \in Seq(S) /\ Len(h) = 2 * (m - 1)
          /\ \A k \in 1..m - 1 : h[2 * k - 1] = a[k] /\ h[2 * k] = b[k]
      BY <3>2
    <3> HIDE DEF h
    <3> DEFINE t == h \o c
    <3>4. /\ t \in Seq(S) /\ Len(t) = 2 * (m - 1) + 2
          /\ \A i \in 1..2 * (m - 1) + 2 :
               t[i] = IF i <= 2 * (m - 1) THEN h[i] ELSE c[i - 2 * (m - 1)]
      <4>1. /\ t \in Seq(S) /\ Len(t) = Len(h) + Len(c)
            /\ \A i \in 1..Len(h) + Len(c) :
                 t[i] = IF i <= Len(h) THEN h[i] ELSE c[i - Len(h)]
        BY ZenonT(60), <2>5, <3>3, ConcatProperties
      <4> HIDE DEF t
      <4> QED BY <2>5, <3>3, <4>1
    <3> HIDE DEF t
    <3>5. Len(t) = 2 * m
      BY <2>2, <3>4
    <3>6. ASSUME NEW k \in 1..m PROVE t[2 * k - 1] = a[k] /\ t[2 * k] = b[k]
      <4>1. CASE k = m
        <5>1. /\ 2 * k - 1 \in 1..2 * (m - 1) + 2 /\ ~(2 * k - 1 <= 2 * (m - 1))
              /\ 2 * k - 1 - 2 * (m - 1) = 1
              /\ 2 * k \in 1..2 * (m - 1) + 2 /\ ~(2 * k <= 2 * (m - 1))
              /\ 2 * k - 2 * (m - 1) = 2
          <6>1. m \in Nat /\ m >= 1
            BY <2>2
          <6> HIDE DEF P
          <6> QED BY <4>1, <6>1
        <5> QED BY <2>5, <3>4, <4>1, <5>1
      <4>2. CASE k # m
        <5>1. /\ 2 * k - 1 \in 1..2 * (m - 1) + 2 /\ 2 * k - 1 <= 2 * (m - 1)
              /\ 2 * k \in 1..2 * (m - 1) + 2 /\ 2 * k <= 2 * (m - 1)
              /\ k \in 1..m - 1
          BY <2>2, <4>2
        <5> QED BY <3>3, <3>4, <5>1
      <4> QED BY <4>1, <4>2
    <3>7. g[m] = t
      BY <2>3, <2>4, <2>7 DEF t, h, c
    <3>8. P(m)
      BY <3>4, <3>5, <3>6, <3>7
    <3> QED BY <2>2, <3>8
  <2> QED BY <2>6, <2>7
<1>7. n \in 1..n
  OBVIOUS
<1>8. P(n)
  BY <1>6, <1>7
<1> QED BY <1>5, <1>8

\* A step that is not a call, a sample or an entry means itself.
LEMMA PlainMeant ==
  ASSUME NEW f, NEW what, NEW k, NEW i \in StepsOf(f, what),
         i.do \notin {"eval", "write", "again", "probe"}, i.do = "compute" => what # "jacobian"
  PROVE  i \in Meant(f, what, k)
BY DEF Meant

\* Sequences of steps that are meant, with what the library allocates around.
LEMMA SiteMeant ==
  ASSUME NEW f \in Functions, NEW what, what \notin Unguarded, NEW k,
         NEW q \in Seq(Meant(f, what, k))
  PROVE  /\ OnlyIfSparse(f, q) \in Seq(Meant(f, what, k))
         /\ AllowedIn(q) \in Seq(Meant(f, what, k))
         /\ OnlyIfSparse(f, q) = q \/ OnlyIfSparse(f, q) = AllowedIn(q)
         /\ \A e \in ToSet(q) : e \in ToSet(AllowedIn(q)) /\ e \in ToSet(OnlyIfSparse(f, q))
<1> DEFINE M == Meant(f, what, k)
           a == <<Do("allow")>>
           r == <<Do("allocate"), Do("restore")>>
<1>1. Do("allow") \in M /\ Do("allocate") \in M /\ Do("restore") \in M
  <2>1. /\ Do("allow") \in StepsOf(f, what) /\ Do("allocate") \in StepsOf(f, what)
        /\ Do("restore") \in StepsOf(f, what)
    BY StepTypes
  <2> QED BY <2>1, PlainMeant DEF Do
<1> HIDE DEF M
<1>2. a \in Seq(M) /\ r \in Seq(M)
  BY <1>1
<1>3. AllowedIn(q) = a \o q \o r
  BY DEF AllowedIn
<1> HIDE DEF a, r
<1>4. q \in Seq(M)
  BY DEF M
<1>5. a \o q \in Seq(M) /\ AllowedIn(q) \in Seq(M)
  BY <1>2, <1>3, <1>4, ConcatProperties
<1>6. ASSUME NEW e \in ToSet(q) PROVE e \in ToSet(AllowedIn(q))
  <2>1. e \in ToSet(a \o q)
    BY <1>2, <1>4, ConcatHas
  <2> QED BY <1>2, <1>3, <1>5, <2>1, ConcatHas
<1> QED BY <1>4, <1>5, <1>6 DEF OnlyIfSparse, M

\* The forward differences: a write follows the sample of its argument, or
\* another write of it.
SimplyWhole(t) ==
  \A p \in DOMAIN t :
    /\ t[p].do # "eval"
    /\ t[p].do = "write" => /\ p > 1 /\ t[p - 1].do \in {"probe", "write"}
                            /\ t[p - 1].j = t[p].j
\* The five points: it follows its own four samples.
Whole(t) ==
  \A p \in DOMAIN t : t[p].do = "write" =>
    p >= 5 /\ \A s \in 1..4 : t[p - (5 - s)] = Before(t[p], s)

\* Sequences that prepare all their own writes may follow one another, and
\* may follow anything.
LEMMA WholeConcat ==
  ASSUME NEW S, NEW p \in Seq(S), NEW q \in Seq(S)
  PROVE  /\ SimplyWhole(p) /\ SimplyWhole(q) => SimplyWhole(p \o q)
         /\ Whole(p) /\ Whole(q) => Whole(p \o q)
         /\ Prepared(p) /\ Whole(q) => Prepared(p \o q)
         /\ SimplyPrepared(p) /\ SimplyWhole(q) => SimplyPrepared(p \o q)
<1> DEFINE m == Len(p)
           n == Len(q)
           c == p \o q
<1>1. /\ m \in Nat /\ n \in Nat /\ DOMAIN p = 1..m /\ DOMAIN q = 1..n /\ DOMAIN c = 1..m + n
      /\ \A i \in 1..m + n : c[i] = IF i <= m THEN p[i] ELSE q[i - m]
  BY ConcatProperties, LenProperties
<1> HIDE DEF m, n, c
<1>2. ASSUME NEW i \in 1..m + n, i <= m
      PROVE  /\ i \in 1..m /\ c[i] = p[i]
             /\ \A d \in 0..4 : i - d >= 1 => i - d \in 1..m + n /\ c[i - d] = p[i - d]
  BY <1>1, <1>2
<1>3. ASSUME NEW i \in 1..m + n, ~(i <= m)
      PROVE  /\ i - m \in 1..n /\ c[i] = q[i - m]
             /\ \A d \in 0..4 : i - m - d >= 1 =>
                  i - d \in 1..m + n /\ i - d >= 1 /\ c[i - d] = q[i - m - d]
  BY <1>1, <1>3
<1>4. ASSUME SimplyWhole(p), SimplyWhole(q) PROVE SimplyWhole(c)
  <2> SUFFICES ASSUME NEW i \in 1..m + n
               PROVE  /\ c[i].do # "eval"
                      /\ c[i].do = "write" => /\ i > 1 /\ c[i - 1].do \in {"probe", "write"}
                                              /\ c[i - 1].j = c[i].j
    BY <1>1 DEF SimplyWhole
  <2>1. CASE i <= m
    <3>1. i \in 1..m /\ c[i] = p[i] /\ (i > 1 => c[i - 1] = p[i - 1])
      BY <1>1, <1>2, <2>1
    <3> QED BY <1>1, <1>4, <3>1 DEF SimplyWhole
  <2>2. CASE ~(i <= m)
    <3>1. i - m \in 1..n /\ c[i] = q[i - m]
      BY <1>3, <2>2
    <3>2. i - m > 1 => i > 1 /\ c[i - 1] = q[i - m - 1]
      BY <1>1, <1>3, <2>2
    <3> QED BY <1>1, <1>4, <3>1, <3>2 DEF SimplyWhole
  <2> QED BY <2>1, <2>2
<1>5. ASSUME Whole(p), Whole(q) PROVE Whole(c)
  <2> SUFFICES ASSUME NEW i \in 1..m + n, c[i].do = "write"
               PROVE  i >= 5 /\ \A s \in 1..4 : c[i - (5 - s)] = Before(c[i], s)
    BY <1>1 DEF Whole
  <2>1. CASE i <= m
    <3>1. i \in 1..m /\ c[i] = p[i] /\ i >= 5 /\ \A s \in 1..4 : p[i - (5 - s)] = Before(p[i], s)
      BY <1>1, <1>2, <1>5, <2>1 DEF Whole
    <3>2. ASSUME NEW s \in 1..4 PROVE c[i - (5 - s)] = p[i - (5 - s)]
      <4>1. 5 - s \in 0..4 /\ i - (5 - s) >= 1
        BY <3>1
      <4> QED BY <1>2, <2>1, <4>1
    <3> QED BY <3>1, <3>2
  <2>2. CASE ~(i <= m)
    <3>1. /\ i - m \in 1..n /\ c[i] = q[i - m] /\ i - m >= 5
          /\ \A s \in 1..4 : q[i - m - (5 - s)] = Before(q[i - m], s)
      BY <1>1, <1>3, <1>5, <2>2 DEF Whole
    <3>2. ASSUME NEW s \in 1..4 PROVE c[i - (5 - s)] = q[i - m - (5 - s)]
      <4>1. 5 - s \in 0..4 /\ i - m - (5 - s) >= 1
        BY SMTT(30), <3>1
      <4> QED BY <1>3, <2>2, <4>1
    <3>3. i >= 5
      BY <1>1, <3>1
    <3> QED BY <3>1, <3>2, <3>3
  <2> QED BY <2>1, <2>2
<1>6. ASSUME Prepared(p), Whole(q) PROVE Prepared(c)
  <2> SUFFICES ASSUME NEW i \in 1..m + n, c[i].do = "write", NEW s \in 1..4, i - (5 - s) >= 1
               PROVE  c[i - (5 - s)] = Before(c[i], s)
    BY <1>1 DEF Prepared
  <2>0. 5 - s \in 0..4
    OBVIOUS
  <2>1. CASE i <= m
    <3>1. i \in 1..m /\ c[i] = p[i] /\ p[i - (5 - s)] = Before(p[i], s)
      BY <1>1, <1>2, <1>6, <2>1 DEF Prepared
    <3>2. c[i - (5 - s)] = p[i - (5 - s)]
      BY <1>2, <2>0, <2>1
    <3> QED BY <3>1, <3>2
  <2>2. CASE ~(i <= m)
    <3>1. /\ i - m \in 1..n /\ c[i] = q[i - m] /\ i - m >= 5
          /\ q[i - m - (5 - s)] = Before(q[i - m], s)
      BY <1>1, <1>3, <1>6, <2>2 DEF Whole
    <3>2. i - m - (5 - s) >= 1
      BY <3>1
    <3>3. c[i - (5 - s)] = q[i - m - (5 - s)]
      BY <1>3, <2>0, <2>2, <3>2
    <3> QED BY <3>1, <3>3
  <2> QED BY <2>1, <2>2
<1>7. ASSUME SimplyPrepared(p), SimplyWhole(q) PROVE SimplyPrepared(c)
  <2> SUFFICES ASSUME NEW i \in 1..m + n, i > 1
               PROVE  /\ c[i].do # "eval"
                      /\ c[i].do = "write" => /\ c[i - 1].do \in {"probe", "write"}
                                              /\ c[i - 1].j = c[i].j
    BY <1>1 DEF SimplyPrepared
  <2>1. CASE i <= m
    <3>1. i \in 1..m /\ c[i] = p[i] /\ c[i - 1] = p[i - 1]
      BY <1>1, <1>2, <2>1
    <3> QED BY <1>1, <1>7, <3>1 DEF SimplyPrepared
  <2>2. CASE ~(i <= m)
    <3>1. i - m \in 1..n /\ c[i] = q[i - m]
      BY <1>3, <2>2
    <3>2. i - m > 1 => c[i - 1] = q[i - m - 1]
      BY <1>1, <1>3, <2>2
    <3> QED BY <1>1, <1>7, <3>1, <3>2 DEF SimplyWhole
  <2> QED BY <2>1, <2>2
<1> QED BY <1>4, <1>5, <1>6, <1>7 DEF c

\* Sequences without samples and entries are whole.
LEMMA NoEntryIsWhole ==
  ASSUME NEW S, NEW t \in Seq(S), \A p \in DOMAIN t : t[p].do \notin {"write", "eval"}
  PROVE  SimplyWhole(t) /\ Whole(t)
BY DEF SimplyWhole, Whole

\* What the library allocates around whole steps leaves them whole.
LEMMA SiteIsWhole ==
  ASSUME NEW f \in Functions, NEW what, what \notin Unguarded, NEW k,
         NEW q \in Seq(Meant(f, what, k))
  PROVE  /\ SimplyWhole(q) => SimplyWhole(OnlyIfSparse(f, q))
         /\ Whole(q) => Whole(OnlyIfSparse(f, q))
<1> DEFINE M == Meant(f, what, k) \cup {Do("allow"), Do("allocate"), Do("restore")}
           a == <<Do("allow")>>
           r == <<Do("allocate"), Do("restore")>>
<1>1. a \in Seq(M) /\ r \in Seq(M)
  OBVIOUS
<1>2. q \in Seq(M)
  <2>1. PICK n \in Nat : q \in [1..n -> Meant(f, what, k)]
    BY SeqDef
  <2>2. q \in [1..n -> M]
    BY <2>1
  <2> HIDE DEF M
  <2> QED BY <2>2, SeqDef
<1>3. /\ \A p \in DOMAIN a : a[p].do \notin {"write", "eval"}
      /\ \A p \in DOMAIN r : r[p].do \notin {"write", "eval"}
  BY DEF Do
<1>4. AllowedIn(q) = a \o q \o r
  BY DEF AllowedIn
<1> HIDE DEF a, r, M
<1>5. SimplyWhole(a) /\ Whole(a) /\ SimplyWhole(r) /\ Whole(r)
  BY <1>1, <1>3, NoEntryIsWhole
<1>6. a \o q \in Seq(M)
  BY <1>1, <1>2, ConcatProperties
<1>7. /\ SimplyWhole(q) => SimplyWhole(AllowedIn(q))
      /\ Whole(q) => Whole(AllowedIn(q))
  BY <1>1, <1>2, <1>4, <1>5, <1>6, WholeConcat
<1> QED BY <1>7 DEF OnlyIfSparse

(***************************************************************************)
(* Sums and products.                                                      *)
(***************************************************************************)

\* A set that has 0, and each k up to n whose predecessor it has, has 0..n.
LEMMA Climb ==
  ASSUME NEW n \in Nat, NEW S, 0 \in S, \A k \in 1..n : k - 1 \in S => k \in S
  PROVE  \A k \in 0..n : k \in S
<1> DEFINE I == {k \in 0..n : k \notin S}
<1> SUFFICES ASSUME I # {} PROVE FALSE
  OBVIOUS
<1>1. PICK m \in I : \A i \in I : m <= i
  <2>1. I \in SUBSET Nat
    OBVIOUS
  <2> HIDE DEF I
  <2> QED BY <2>1, LeastNatural
<1>2. m \in 1..n /\ m \notin S
  BY <1>1
<1>3. m - 1 \notin I /\ m - 1 \in 0..n
  BY <1>1, <1>2
<1> QED BY <1>2, <1>3

\* The largest of the sets that hold m and nothing larger.
LEMMA LargestIsLast ==
  ASSUME NEW m \in Nat, NEW s \in SUBSET (1..m), m \in s
  PROVE  Max(s) = m
<1>1. \A y \in s : m >= y
  OBVIOUS
<1>2. Max(s) \in s /\ \A y \in s : Max(s) >= y
  BY <1>1 DEF Max
<1>3. Max(s) \in 1..m /\ Max(s) >= m
  BY <1>2
<1> QED BY <1>3

\* A fold takes the largest index off a set of indices until none is left:
\* the first k of them are k after the first k - 1.
LEMMA FirstOnes ==
  ASSUME NEW n \in Nat, NEW k \in 1..n
  PROVE  /\ 1..k \in SUBSET (1..n) /\ 1..k # {}
         /\ Max(1..k) = k /\ 1..k \ {k} = 1..k - 1
<1>1. k \in 1..k /\ 1..k \in SUBSET (1..n)
  OBVIOUS
<1>2. Max(1..k) = k
  BY <1>1, LargestIsLast
<1> QED BY <1>1, <1>2

\* How a fold over sets of the first m - 1 indices extends to one over sets of
\* the first m, those that have m given by v.
LEMMA OneIndexMore ==
  ASSUME NEW m \in Nat \ {0}, NEW h, NEW v, NEW g,
         \A t \in SUBSET (1..m) : g[t] = IF m \in t THEN v[t] ELSE h[t],
         NEW s \in SUBSET (1..m)
  PROVE  /\ m \in s => /\ Max(s) = m /\ g[s] = v[s] /\ s # {}
                       /\ g[s \ {Max(s)}] = h[s \ {m}]
         /\ m \notin s => /\ s \in SUBSET (1..m - 1) /\ g[s] = h[s]
                          /\ g[s \ {Max(s)}] = h[s \ {Max(s)}]
<1>1. CASE m \in s
  <2>1. Max(s) = m
    BY <1>1, LargestIsLast
  <2>2. s \ {Max(s)} \in SUBSET (1..m) /\ m \notin s \ {Max(s)}
    BY <2>1
  <2> QED BY <1>1, <2>1, <2>2
<1>2. CASE m \notin s
  <2>1. s \in SUBSET (1..m - 1)
    BY <1>2
  <2>2. s \ {Max(s)} \in SUBSET (1..m) /\ m \notin s \ {Max(s)}
    BY <1>2
  <2> QED BY <1>2, <2>1, <2>2
<1> QED BY <1>1, <1>2

\* One turn of the loop of Total, or of that of Product.
Turn(loop, s, acc, k) == IF loop = "total" THEN acc + s[k] ELSE acc * s[k]

\* The fold of a loop over sets of the first m indices.
Folds(it, loop, q, base, m) ==
  it = [s \in SUBSET (1..m) |->
          IF s = {} THEN base ELSE Turn(loop, q, it[s \ {Max(s)}], Max(s))]

\* There is one: a fold over the first m - 1 indices extends to m.
LEMMA FoldExists ==
  ASSUME NEW loop, NEW q, NEW base, NEW n \in Nat
  PROVE  \E it : Folds(it, loop, q, base, n)
<1> DEFINE T == {m \in 0..n : \E it : Folds(it, loop, q, base, m)}
<1>1. 0 \in T
  <2> DEFINE it == [s \in SUBSET (1..0) |-> base]
  <2>1. \A s \in SUBSET (1..0) : s = {}
    OBVIOUS
  <2>2. Folds(it, loop, q, base, 0)
    BY <2>1 DEF Folds
  <2> QED BY <2>2
<1>2. ASSUME NEW m \in 1..n, m - 1 \in T PROVE m \in T
  <2>1. PICK h : Folds(h, loop, q, base, m - 1)
    BY <1>2
  <2> DEFINE v == [s \in SUBSET (1..m) |-> Turn(loop, q, h[s \ {m}], m)]
             g == [t \in SUBSET (1..m) |-> IF m \in t THEN v[t] ELSE h[t]]
  <2>2. ASSUME NEW s \in SUBSET (1..m)
        PROVE  g[s] = IF s = {} THEN base
                      ELSE Turn(loop, q, g[s \ {Max(s)}], Max(s))
    <3>1. /\ m \in s => /\ Max(s) = m /\ g[s] = v[s] /\ s # {}
                        /\ g[s \ {Max(s)}] = h[s \ {m}]
          /\ m \notin s => /\ s \in SUBSET (1..m - 1) /\ g[s] = h[s]
                           /\ g[s \ {Max(s)}] = h[s \ {Max(s)}]
      <4>1. \A t \in SUBSET (1..m) : g[t] = IF m \in t THEN v[t] ELSE h[t]
        BY DEF g
      <4>2. m \in Nat \ {0}
        OBVIOUS
      <4> HIDE DEF v, g
      <4> QED BY ZenonT(60), <4>1, <4>2, OneIndexMore
    <3>2. v[s] = Turn(loop, q, h[s \ {m}], m)
      OBVIOUS
    <3>3. s \in SUBSET (1..m - 1) =>
            h[s] = IF s = {} THEN base ELSE Turn(loop, q, h[s \ {Max(s)}], Max(s))
      BY <2>1 DEF Folds
    <3> HIDE DEF g, v
    <3> QED BY <3>1, <3>2, <3>3
  <2>3. g = [s \in SUBSET (1..m) |-> g[s]]
    OBVIOUS
  <2>4. Folds(g, loop, q, base, m)
    <3> HIDE DEF g
    <3> QED BY <2>2, <2>3 DEF Folds
  <2> HIDE DEF g
  <2> QED BY <2>4
<1>3. n \in T
  <2> HIDE DEF T
  <2>1. n \in 0..n
    OBVIOUS
  <2> QED BY <1>1, <1>2, <2>1, Climb
<1> QED BY <1>3

\* What a loop has computed after each of its n turns.
Unrolled(a, loop, q, base, n) ==
  /\ a = [k \in 0..n |-> a[k]] /\ a[0] = base
  /\ \A k \in 1..n : a[k] = Turn(loop, q, a[k - 1], k)

\* A fold computes turn after turn.
LEMMA FoldRuns ==
  ASSUME NEW loop, NEW q, NEW base, NEW n \in Nat,
         NEW it, Folds(it, loop, q, base, n)
  PROVE  \E a : Unrolled(a, loop, q, base, n) /\ it[1..n] = a[n]
<1> DEFINE a == [k \in 0..n |-> it[1..k]]
<1>1. a[0] = base
  <2>1. 1..0 \in SUBSET (1..n) /\ 1..0 = {} /\ a[0] = it[1..0]
    OBVIOUS
  <2> HIDE DEF a
  <2> QED BY <2>1 DEF Folds
<1>2. ASSUME NEW k \in 1..n
      PROVE  a[k] = Turn(loop, q, a[k - 1], k)
  <2>1. /\ 1..k \in SUBSET (1..n) /\ 1..k # {}
        /\ Max(1..k) = k /\ 1..k \ {k} = 1..k - 1
    BY FirstOnes
  <2>2. it[1..k] = Turn(loop, q, it[1..k \ {Max(1..k)}], Max(1..k))
    BY <2>1 DEF Folds
  <2>3. a[k] = it[1..k] /\ a[k - 1] = it[1..k - 1]
    OBVIOUS
  <2> HIDE DEF a
  <2> QED BY <2>1, <2>2, <2>3
<1>3. a = [k \in 0..n |-> a[k]] /\ a[n] = it[1..n]
  OBVIOUS
<1> HIDE DEF a
<1> QED BY <1>1, <1>2, <1>3 DEF Unrolled

\* The results of the turns, if all they see are integers.
Runs(p, loop, s, base, l) ==
  /\ p \in [0..l -> Int] /\ p[0] = base
  /\ \A k \in 1..l : p[k] = Turn(loop, s, p[k - 1], k)

\* An unrolled loop over numbers computes a number at every turn.
LEMMA UnrolledRuns ==
  ASSUME NEW loop, NEW l \in Nat, NEW s \in [1..l -> Int], NEW base \in Int, NEW p,
         Unrolled(p, loop, s, base, l)
  PROVE  Runs(p, loop, s, base, l)
<1> DEFINE T == {k \in 0..l : p[k] \in Int}
<1>1. 0 \in T
  BY DEF Unrolled
<1>2. ASSUME NEW k \in 1..l, k - 1 \in T PROVE k \in T
  <2>1. p[k - 1] \in Int /\ s[k] \in Int /\ p[k] = Turn(loop, s, p[k - 1], k)
    BY <1>2 DEF Unrolled
  <2>2. \A a, b \in Int : a * b \in Int
    OBVIOUS
  <2>3. p[k - 1] * s[k] \in Int
    BY <2>1, <2>2
  <2> QED BY <2>1, <2>3 DEF Turn
<1>3. \A k \in 0..l : k \in T
  <2> HIDE DEF T
  <2> QED BY <1>1, <1>2, Climb
<1>4. p \in [0..l -> Int]
  BY <1>3 DEF Unrolled
<1> QED BY <1>4 DEF Unrolled, Runs

\* Total and Product are what their loops end with.
LEMMA TotalRuns ==
  ASSUME NEW l \in Nat, NEW s \in [1..l -> Int]
  PROVE  \E p : Runs(p, "total", s, 0, l) /\ Total(s) = p[l]
<1> DEFINE Fold(it) == it = [t \in SUBSET (1..l) |->
                               IF t = {} THEN 0 ELSE it[t \ {Max(t)}] + s[Max(t)]]
           it == CHOOSE it : Fold(it)
<1>0. DOMAIN s = 1..l
  OBVIOUS
<1>1. Total(s) = it[1..l]
  BY <1>0 DEF Total, FoldLeft, MapThenFoldSet
<1>2. ASSUME NEW h PROVE Folds(h, "total", s, 0, l) <=> Fold(h)
  BY DEF Folds, Turn
<1>3. Fold(it)
  <2>1. PICK h : Folds(h, "total", s, 0, l)
    BY FoldExists
  <2>2. Fold(h)
    BY <1>2, <2>1
  <2> HIDE DEF Fold
  <2> QED BY <2>2
<1> HIDE DEF it, Fold
<1>4. Folds(it, "total", s, 0, l)
  BY <1>2, <1>3
<1>5. PICK a : Unrolled(a, "total", s, 0, l) /\ it[1..l] = a[l]
  BY <1>4, FoldRuns
<1> QED BY <1>1, <1>5, UnrolledRuns

\* A product is the last value of a loop that starts at one.
LEMMA ProductRuns ==
  ASSUME NEW l \in Nat, NEW s \in [1..l -> Int]
  PROVE  \E p : Runs(p, "product", s, 1, l) /\ Product(s) = p[l]
<1> DEFINE Fold(it) == it = [t \in SUBSET (1..l) |->
                               IF t = {} THEN 1 ELSE it[t \ {Max(t)}] * s[Max(t)]]
           it == CHOOSE it : Fold(it)
<1>0. DOMAIN s = 1..l
  OBVIOUS
<1>1. Product(s) = it[1..l]
  BY <1>0 DEF Product, FoldLeft, MapThenFoldSet
<1>2. ASSUME NEW h PROVE Folds(h, "product", s, 1, l) <=> Fold(h)
  BY DEF Folds, Turn
<1>3. Fold(it)
  <2>1. PICK h : Folds(h, "product", s, 1, l)
    BY FoldExists
  <2>2. Fold(h)
    BY <1>2, <2>1
  <2> HIDE DEF Fold
  <2> QED BY <2>2
<1> HIDE DEF it, Fold
<1>4. Folds(it, "product", s, 1, l)
  BY <1>2, <1>3
<1>5. PICK a : Unrolled(a, "product", s, 1, l) /\ it[1..l] = a[l]
  BY <1>4, FoldRuns
<1> QED BY <1>1, <1>5, UnrolledRuns

\* Sums with a linear relation between their summands have it themselves.
Rule(a, b, c, d, q, e) == 8 * (a - b) - (c - d) = q * e

\* A rule that is linear in its samples goes over from terms to their sum.
LEMMA TotalIsLinear ==
  ASSUME NEW l \in Nat, NEW a \in [1..l -> Int], NEW b \in [1..l -> Int],
         NEW c \in [1..l -> Int], NEW d \in [1..l -> Int], NEW e \in [1..l -> Int],
         NEW q \in Int, \A i \in 1..l : Rule(a[i], b[i], c[i], d[i], q, e[i])
  PROVE  Rule(Total(a), Total(b), Total(c), Total(d), q, Total(e))
<1>1. PICK A : Runs(A, "total", a, 0, l) /\ Total(a) = A[l]
  BY TotalRuns
<1>2. PICK B : Runs(B, "total", b, 0, l) /\ Total(b) = B[l]
  BY TotalRuns
<1>3. PICK C : Runs(C, "total", c, 0, l) /\ Total(c) = C[l]
  BY TotalRuns
<1>4. PICK D : Runs(D, "total", d, 0, l) /\ Total(d) = D[l]
  BY TotalRuns
<1>5. PICK E : Runs(E, "total", e, 0, l) /\ Total(e) = E[l]
  BY TotalRuns
<1> DEFINE T == {k \in 0..l : 8 * (A[k] - B[k]) - (C[k] - D[k]) = q * E[k]}
<1>6. 0 \in T
  <2>1. A[0] = 0 /\ B[0] = 0 /\ C[0] = 0 /\ D[0] = 0 /\ E[0] = 0
    <3> HIDE DEF T
    <3>1. A[0] = 0 /\ B[0] = 0
      BY <1>1, <1>2 DEF Runs
    <3>2. C[0] = 0 /\ D[0] = 0
      BY <1>3, <1>4 DEF Runs
    <3>3. E[0] = 0
      BY <1>5 DEF Runs
    <3> QED BY <3>1, <3>2, <3>3
  <2>2. q * 0 = 0
    OBVIOUS
  <2> QED BY <2>1, <2>2
<1>7. ASSUME NEW k \in 1..l, k - 1 \in T PROVE k \in T
  <2>1. /\ A[k] = A[k - 1] + a[k] /\ B[k] = B[k - 1] + b[k] /\ C[k] = C[k - 1] + c[k]
        /\ D[k] = D[k - 1] + d[k] /\ E[k] = E[k - 1] + e[k]
    BY <1>1, <1>2, <1>3, <1>4, <1>5 DEF Runs, Turn
  <2>2. /\ A[k - 1] \in Int /\ B[k - 1] \in Int /\ C[k - 1] \in Int
        /\ D[k - 1] \in Int /\ E[k - 1] \in Int
    <3> HIDE DEF T
    <3>1. k - 1 \in 0..l
      OBVIOUS
    <3>2. A[k - 1] \in Int /\ B[k - 1] \in Int
      BY <1>1, <1>2, <3>1 DEF Runs
    <3>3. C[k - 1] \in Int /\ D[k - 1] \in Int
      BY <1>3, <1>4, <3>1 DEF Runs
    <3>4. E[k - 1] \in Int
      BY <1>5, <3>1 DEF Runs
    <3> QED BY <3>2, <3>3, <3>4
  <2>3. /\ a[k] \in Int /\ b[k] \in Int /\ c[k] \in Int /\ d[k] \in Int /\ e[k] \in Int
        /\ 8 * (a[k] - b[k]) - (c[k] - d[k]) = q * e[k]
        /\ 8 * (A[k - 1] - B[k - 1]) - (C[k - 1] - D[k - 1]) = q * E[k - 1]
    BY <1>7 DEF Rule
  <2>4. \A u, v \in Int : q * (u + v) = q * u + q * v
    OBVIOUS
  <2>5. q * E[k] = q * E[k - 1] + q * e[k]
    BY ZenonT(60), <2>1, <2>2, <2>3, <2>4
  <2> DEFINE u == q * E[k - 1]
             w == q * e[k]
  <2>6. u \in Int /\ w \in Int
    <3>1. \A y, z \in Int : y * z \in Int
      OBVIOUS
    <3> QED BY <2>2, <2>3, <3>1
  <2>7. /\ 8 * (a[k] - b[k]) - (c[k] - d[k]) = w
        /\ 8 * (A[k - 1] - B[k - 1]) - (C[k - 1] - D[k - 1]) = u
        /\ q * E[k] = u + w
    BY <2>3, <2>5
  <2> HIDE DEF u, w
  <2>8. 8 * (A[k] - B[k]) - (C[k] - D[k]) = u + w
    <3> DEFINE x1 == A[k - 1]
               x2 == B[k - 1]
               x3 == C[k - 1]
               x4 == D[k - 1]
               y1 == a[k]
               y2 == b[k]
               y3 == c[k]
               y4 == d[k]
               z1 == A[k]
               z2 == B[k]
               z3 == C[k]
               z4 == D[k]
    <3>1. /\ x1 \in Int /\ x2 \in Int /\ x3 \in Int /\ x4 \in Int
          /\ 8 * (x1 - x2) - (x3 - x4) = u
          /\ y1 \in Int /\ y2 \in Int /\ y3 \in Int /\ y4 \in Int
          /\ 8 * (y1 - y2) - (y3 - y4) = w
          /\ z1 = x1 + y1 /\ z2 = x2 + y2 /\ z3 = x3 + y3 /\ z4 = x4 + y4
      BY <2>1, <2>2, <2>3, <2>7
    <3> HIDE DEF x1, x2, x3, x4, y1, y2, y3, y4, z1, z2, z3, z4
    <3>2. 8 * (z1 - z2) - (z3 - z4) = u + w
      BY <2>6, <3>1
    <3> QED BY <3>2 DEF z1, z2, z3, z4
  <2> QED BY <2>7, <2>8
<1>8. l \in T
  <2> HIDE DEF T
  <2>1. l \in 0..l
    OBVIOUS
  <2> QED BY <1>6, <1>7, <2>1, Climb
<1> QED BY <1>1, <1>2, <1>3, <1>4, <1>5, <1>8 DEF Rule

\* A sum of one more.
LEMMA TotalOneMore ==
  ASSUME NEW l \in Nat, NEW s \in [1..l + 1 -> Int], NEW t,
         t = [k \in 1..l |-> s[k]]
  PROVE  Total(s) = Total(t) + s[l + 1] /\ Total(t) \in Int /\ Total(s) \in Int
<1>0. t \in [1..l -> Int] /\ l + 1 \in Nat
  OBVIOUS
<1>1. PICK P : Runs(P, "total", s, 0, l + 1) /\ Total(s) = P[l + 1]
  BY <1>0, TotalRuns
<1>2. PICK Q : Runs(Q, "total", t, 0, l) /\ Total(t) = Q[l]
  BY <1>0, TotalRuns
<1> DEFINE T == {k \in 0..l : P[k] = Q[k]}
<1>3. 0 \in T
  BY <1>1, <1>2 DEF Runs
<1>4. ASSUME NEW k \in 1..l, k - 1 \in T PROVE k \in T
  <2>1. k \in 1..l + 1 /\ t[k] = s[k]
    OBVIOUS
  <2>2. P[k] = P[k - 1] + s[k] /\ Q[k] = Q[k - 1] + t[k]
    BY <1>1, <1>2, <2>1 DEF Runs, Turn
  <2> QED BY <1>4, <2>1, <2>2
<1>5. l \in T
  <2> HIDE DEF T
  <2>1. l \in 0..l
    OBVIOUS
  <2> QED BY <1>3, <1>4, <2>1, Climb
<1>6. l + 1 \in 1..l + 1 /\ l + 1 - 1 = l
  OBVIOUS
<1>7. P[l + 1] = P[l] + s[l + 1]
  BY <1>1, <1>6 DEF Runs, Turn
<1>8. Q[l] \in Int /\ P[l + 1] \in Int
  BY <1>1, <1>2 DEF Runs
<1> QED BY <1>1, <1>2, <1>5, <1>7, <1>8

\* The sum of no terms is zero.
LEMMA TotalOfNone ==
  ASSUME NEW s, s = [k \in 1..0 |-> s[k]]
  PROVE  Total(s) = 0
<1>1. s \in [1..0 -> Int]
  OBVIOUS
<1>2. PICK p : Runs(p, "total", s, 0, 0) /\ Total(s) = p[0]
  BY <1>1, TotalRuns
<1> QED BY <1>2 DEF Runs

\* The sum of integers is one.
LEMMA TotalIsInteger ==
  ASSUME NEW l \in Nat, NEW s \in [1..l -> Int]
  PROVE  Total(s) \in Int
<1>1. PICK p : Runs(p, "total", s, 0, l) /\ Total(s) = p[l]
  BY TotalRuns
<1> QED BY <1>1 DEF Runs

\* The product of integers is one.
LEMMA ProductIsInteger ==
  ASSUME NEW l \in Nat, NEW s \in [1..l -> Int]
  PROVE  Product(s) \in Int
<1>1. PICK p : Runs(p, "product", s, 1, l) /\ Product(s) = p[l]
  BY ProductRuns
<1> QED BY <1>1 DEF Runs

\* A factor taken out of a product.
LEMMA ProductWithout ==
  ASSUME NEW l \in Nat, NEW s \in [1..l -> Int], NEW j \in 1..l, NEW t,
         t = [i \in 1..l |-> IF i = j THEN 1 ELSE s[i]]
  PROVE  Product(s) = Product(t) * s[j] /\ Product(t) \in Int
<1>0. t \in [1..l -> Int] /\ s[j] \in Int
  OBVIOUS
<1>1. PICK P : Runs(P, "product", s, 1, l) /\ Product(s) = P[l]
  BY ProductRuns
<1>2. PICK Q : Runs(Q, "product", t, 1, l) /\ Product(t) = Q[l]
  BY <1>0, ProductRuns
<1> DEFINE v == s[j]
           T == {k \in 0..l : P[k] = IF k < j THEN Q[k] ELSE Q[k] * v}
<1>3. 0 \in T
  BY <1>1, <1>2 DEF Runs
<1>4. ASSUME NEW k \in 1..l, k - 1 \in T PROVE k \in T
  <2>1. P[k] = P[k - 1] * s[k] /\ Q[k] = Q[k - 1] * t[k]
    BY <1>1, <1>2 DEF Runs, Turn
  <2>2. P[k - 1] \in Int /\ Q[k - 1] \in Int /\ s[k] \in Int
    BY <1>1, <1>2 DEF Runs
  <2>3. P[k - 1] = IF k - 1 < j THEN Q[k - 1] ELSE Q[k - 1] * v
    BY <1>4
  <2>4. \A a, b, c \in Int : (a * b) * c = (a * c) * b /\ a * 1 = a
    OBVIOUS
  <2>5. CASE k < j
    <3>1. t[k] = s[k] /\ k - 1 < j
      BY <2>5
    <3> QED BY <2>1, <2>3, <2>5, <3>1
  <2>6. CASE k = j
    <3>1. t[k] = 1 /\ k - 1 < j /\ s[k] = v
      BY <2>6
    <3> HIDE DEF v
    <3>2. Q[k] = Q[k - 1] /\ P[k] = Q[k - 1] * v
      BY <2>1, <2>2, <2>3, <2>4, <3>1
    <3> QED BY <2>6, <3>2
  <2>7. CASE k > j
    <3>1. t[k] = s[k] /\ ~(k - 1 < j) /\ ~(k < j)
      BY <2>7
    <3>2. v \in Int
      BY <1>0
    <3> HIDE DEF v
    <3>3. P[k] = (Q[k - 1] * v) * s[k] /\ Q[k] * v = (Q[k - 1] * s[k]) * v
      BY <2>1, <2>3, <3>1
    <3>4. (Q[k - 1] * v) * s[k] = (Q[k - 1] * s[k]) * v
      BY <2>2, <2>4, <3>2
    <3> QED BY <3>1, <3>3, <3>4
  <2> QED BY <2>5, <2>6, <2>7
<1>5. l \in T
  <2> HIDE DEF T
  <2>1. l \in 0..l
    OBVIOUS
  <2> QED BY <1>3, <1>4, <2>1, Climb
<1>6. P[l] = Q[l] * v
  BY <1>5
<1>7. Q[l] \in Int
  BY <1>2 DEF Runs
<1> QED BY <1>1, <1>2, <1>6, <1>7

\* Powers.
LEMMA PowerIsInteger ==
  ASSUME NEW v \in Int, NEW n \in Nat
  PROVE  Power(v, n) \in Int
<1>1. [i \in 1..n |-> v] \in [1..n -> Int]
  OBVIOUS
<1> QED BY <1>1, ProductIsInteger DEF Power

\* A power is the one before it times the base.
LEMMA PowerOneMore ==
  ASSUME NEW v \in Int, NEW n \in Nat
  PROVE  Power(v, n + 1) = Power(v, n) * v
<1> DEFINE s == [i \in 1..n + 1 |-> v]
           t == [i \in 1..n |-> v]
<1>0. s \in [1..n + 1 -> Int] /\ t \in [1..n -> Int] /\ n + 1 \in Nat
  OBVIOUS
<1>1. PICK P : Runs(P, "product", s, 1, n + 1) /\ Product(s) = P[n + 1]
  BY <1>0, ProductRuns
<1>2. PICK Q : Runs(Q, "product", t, 1, n) /\ Product(t) = Q[n]
  BY <1>0, ProductRuns
<1> DEFINE T == {k \in 0..n : P[k] = Q[k]}
<1>3. 0 \in T
  BY <1>1, <1>2 DEF Runs
<1>4. ASSUME NEW k \in 1..n, k - 1 \in T PROVE k \in T
  <2>1. k \in 1..n + 1 /\ t[k] = v /\ s[k] = v
    OBVIOUS
  <2>2. P[k] = P[k - 1] * s[k] /\ Q[k] = Q[k - 1] * t[k]
    BY <1>1, <1>2, <2>1 DEF Runs, Turn
  <2> QED BY <1>4, <2>1, <2>2
<1>5. n \in T
  <2> HIDE DEF T
  <2>1. n \in 0..n
    OBVIOUS
  <2> QED BY <1>3, <1>4, <2>1, Climb
<1>6. n + 1 \in 1..n + 1 /\ n + 1 - 1 = n /\ s[n + 1] = v
  OBVIOUS
<1>7. P[n + 1] = P[n] * v
  BY <1>1, <1>6 DEF Runs, Turn
<1> QED BY <1>1, <1>2, <1>5, <1>7 DEF Power

\* The powers that the rules are exact for, multiplied out.
LEMMA SmallPowers ==
  ASSUME NEW v \in Int
  PROVE  /\ Power(v, 0) = 1 /\ Power(v, 1) = v /\ Power(v, 2) = v * v
         /\ Power(v, 3) = v * v * v /\ Power(v, 4) = v * v * v * v
<1>1. Power(v, 0) = 1
  <2> DEFINE s == [i \in 1..0 |-> v]
  <2>1. s \in [1..0 -> Int]
    OBVIOUS
  <2>2. PICK p : Runs(p, "product", s, 1, 0) /\ Product(s) = p[0]
    BY <2>1, ProductRuns
  <2> QED BY <2>2 DEF Runs, Power
<1>2. Power(v, 0 + 1) = Power(v, 0) * v /\ Power(v, 1 + 1) = Power(v, 1) * v
  BY PowerOneMore
<1>3. Power(v, 2 + 1) = Power(v, 2) * v /\ Power(v, 3 + 1) = Power(v, 3) * v
  BY PowerOneMore
<1>4. 0 + 1 = 1 /\ 1 + 1 = 2 /\ 2 + 1 = 3 /\ 3 + 1 = 4 /\ 1 * v = v
  OBVIOUS
<1> QED BY <1>1, <1>2, <1>3, <1>4

(***************************************************************************)
(* The rules of finite differences, on polynomials.                        *)
(***************************************************************************)

Monomials(n) == [c : Int, e : [1..n -> Nat]]

\* A monomial as a function of one of its variables.
Alone(m, j, c, p) == [c |-> c, e |-> [m.e EXCEPT ![j] = p]]
At(x, j, v) == [x EXCEPT ![j] = v]
Down(p) == IF p = 0 THEN 0 ELSE p - 1
UpTo(m, j, d) == m.e[j] <= d

\* r is what the other variables contribute.
RestOf(r, m, x, j) ==
  \A c \in Int, p \in Nat, v \in Int :
    ValueOf(Alone(m, j, c, p), At(x, j, v)) = c * (r * Power(v, p))

\* A monomial is a factor that does not depend on the variable j, times a
\* power of that variable.
LEMMA MonomialSplits ==
  ASSUME NEW n \in Nat, NEW m \in Monomials(n), NEW x \in [1..n -> Int], NEW j \in 1..n
  PROVE  \E r \in Int : RestOf(r, m, x, j)
<1> DEFINE t == [i \in 1..n |-> IF i = j THEN 1 ELSE Power(x[i], m.e[i])]
           r == Product(t)
<1>1. m.e \in [1..n -> Nat]
  BY DEF Monomials
<1>2. \A i \in 1..n : Power(x[i], m.e[i]) \in Int
  BY <1>1, PowerIsInteger
<1>3. r \in Int
  <2>1. t \in [1..n -> Int]
    BY <1>2
  <2> HIDE DEF t
  <2> QED BY <2>1, ProductIsInteger
<1>4. ASSUME NEW c \in Int, NEW p \in Nat, NEW v \in Int
      PROVE  ValueOf(Alone(m, j, c, p), At(x, j, v)) = c * (r * Power(v, p))
  <2> DEFINE a == Alone(m, j, c, p)
             y == At(x, j, v)
             s == [i \in 1..n |-> Power(y[i], a.e[i])]
  <2>1. /\ a.c = c /\ a.e \in [1..n -> Nat] /\ a.e[j] = p
        /\ \A i \in 1..n : i # j => a.e[i] = m.e[i]
    BY <1>1 DEF Alone
  <2>2. /\ y \in [1..n -> Int] /\ DOMAIN y = 1..n /\ y[j] = v
        /\ \A i \in 1..n : i # j => y[i] = x[i]
    BY DEF At
  <2> HIDE DEF a, y
  <2>3. s \in [1..n -> Int]
    <3>1. \A i \in 1..n : Power(y[i], a.e[i]) \in Int
      BY <2>1, <2>2, PowerIsInteger
    <3> QED BY <3>1
  <2>4. s[j] = Power(v, p) /\ \A i \in 1..n : i # j => s[i] = Power(x[i], m.e[i])
    BY <2>1, <2>2
  <2>5. ValueOf(a, y) = c * Product(s)
    BY <2>1, <2>2 DEF ValueOf
  <2> HIDE DEF s
  <2>6. t = [i \in 1..n |-> IF i = j THEN 1 ELSE s[i]]
    BY <2>4
  <2> HIDE DEF t
  <2>7. Product(s) = r * s[j]
    BY <2>3, <2>6, ProductWithout
  <2> QED BY <2>4, <2>5, <2>7 DEF a, y
<1> HIDE DEF r
<1>5. RestOf(r, m, x, j)
  BY <1>4 DEF RestOf
<1> QED BY <1>3, <1>5

\* A monomial and its derivative are such functions.
LEMMA MonomialAlone ==
  ASSUME NEW n \in Nat, NEW m \in Monomials(n), NEW j \in 1..n
  PROVE  /\ m = Alone(m, j, m.c, m.e[j]) /\ m.c \in Int /\ m.e[j] \in Nat
         /\ Along(m, j) = Alone(m, j, m.c * m.e[j], Down(m.e[j]))
         /\ m.c * m.e[j] \in Int /\ Along(m, j) \in Monomials(n)
<1>1. /\ m.c \in Int /\ m.e \in [1..n -> Nat] /\ m.e[j] \in Nat
      /\ m = [c |-> m.c, e |-> m.e]
  BY DEF Monomials
<1>2. [m.e EXCEPT ![j] = m.e[j]] = m.e
  BY <1>1
<1>3. m = Alone(m, j, m.c, m.e[j])
  BY <1>1, <1>2 DEF Alone
<1>4. m.c * m.e[j] \in Int
  <2>1. \A a \in Int, b \in Nat : a * b \in Int
    OBVIOUS
  <2> QED BY <1>1, <2>1
<1>5. Along(m, j) = Alone(m, j, m.c * m.e[j], Down(m.e[j]))
  <2>1. [m.e EXCEPT ![j] = IF @ = 0 THEN 0 ELSE @ - 1]
          = [m.e EXCEPT ![j] = IF m.e[j] = 0 THEN 0 ELSE m.e[j] - 1]
    BY <1>1
  <2> QED BY <2>1 DEF Along, Alone, Down
<1>6. Along(m, j) \in Monomials(n)
  <2>1. [m.e EXCEPT ![j] = IF @ = 0 THEN 0 ELSE @ - 1] \in [1..n -> Nat]
    BY <1>1
  <2> QED BY <1>4, <2>1 DEF Along, Monomials
<1> QED BY <1>1, <1>3, <1>4, <1>5, <1>6

\* A point, moved in one coordinate or not, is given by that coordinate and
\* the others.
LEMMA PointsAlone ==
  ASSUME NEW n \in Nat, NEW x \in [1..n -> Int], NEW j \in 1..n
  PROVE  /\ x = At(x, j, x[j]) /\ x[j] \in Int
         /\ \A d : Moved(x, j, d) = At(x, j, x[j] + d)
BY DEF At, Moved

\* A monomial has an integer value at an integer point.
LEMMA MonomialIsInteger ==
  ASSUME NEW n \in Nat, NEW m \in Monomials(n), NEW x \in [1..n -> Int]
  PROVE  ValueOf(m, x) \in Int
<1> DEFINE s == [j \in 1..n |-> Power(x[j], m.e[j])]
<1>1. m.c \in Int /\ m.e \in [1..n -> Nat] /\ DOMAIN x = 1..n
  BY DEF Monomials
<1>2. s \in [1..n -> Int]
  <2>1. \A j \in 1..n : Power(x[j], m.e[j]) \in Int
    BY <1>1, PowerIsInteger
  <2> QED BY <2>1
<1>3. ValueOf(m, x) = m.c * Product(s)
  BY <1>1 DEF ValueOf
<1> HIDE DEF s
<1>4. Product(s) \in Int
  BY <1>2, ProductIsInteger
<1>5. \A a, b \in Int : a * b \in Int
  OBVIOUS
<1> QED BY <1>1, <1>3, <1>4, <1>5

\* The five-point rule of the powers up to four.
LEMMA RuleOfPowers ==
  ASSUME NEW v \in Int, NEW g \in Int, NEW e \in 0..4
  PROVE  8 * (Power(v + g, e) - Power(v - g, e))
           - (Power(v + 2 * g, e) - Power(v - 2 * g, e))
         = (12 * g) * (e * Power(v, IF e = 0 THEN 0 ELSE e - 1))
<1>1. v + g \in Int /\ v - g \in Int /\ v + 2 * g \in Int /\ v - 2 * g \in Int
  OBVIOUS
<1>2. CASE e = 0
  <2>1. /\ Power(v + g, 0) = 1 /\ Power(v - g, 0) = 1 /\ Power(v, 0) = 1
        /\ Power(v + 2 * g, 0) = 1 /\ Power(v - 2 * g, 0) = 1
    BY <1>1, SmallPowers
  <2>2. 8 * (1 - 1) - (1 - 1) = (12 * g) * (0 * 1)
    OBVIOUS
  <2> QED BY <1>2, <2>1, <2>2
<1>3. CASE e = 1
  <2>1. /\ Power(v + g, 1) = v + g /\ Power(v - g, 1) = v - g /\ Power(v, 0) = 1
        /\ Power(v + 2 * g, 1) = v + 2 * g /\ Power(v - 2 * g, 1) = v - 2 * g
    BY <1>1, SmallPowers
  <2>2. 8 * ((v + g) - (v - g)) - ((v + 2 * g) - (v - 2 * g)) = (12 * g) * (1 * 1)
    OBVIOUS
  <2>3. e # 0 /\ e - 1 = 0
    BY <1>3
  <2> QED BY <1>3, <2>1, <2>2, <2>3
<1>4. CASE e = 2
  <2>1. /\ Power(v + g, 2) = (v + g) * (v + g) /\ Power(v - g, 2) = (v - g) * (v - g)
        /\ Power(v + 2 * g, 2) = (v + 2 * g) * (v + 2 * g) /\ Power(v, 1) = v
        /\ Power(v - 2 * g, 2) = (v - 2 * g) * (v - 2 * g)
    BY <1>1, SmallPowers
  <2>2. 8 * ((v + g) * (v + g) - (v - g) * (v - g))
          - ((v + 2 * g) * (v + 2 * g) - (v - 2 * g) * (v - 2 * g)) = (12 * g) * (2 * v)
    OBVIOUS
  <2>3. e # 0 /\ e - 1 = 1
    BY <1>4
  <2> QED BY <1>4, <2>1, <2>2, <2>3
<1>5. CASE e = 3
  <2> DEFINE a == v + g
             b == v - g
             c == v + 2 * g
             d == v - 2 * g
  <2>1. /\ Power(a, 3) = a * a * a /\ Power(b, 3) = b * b * b
        /\ Power(c, 3) = c * c * c /\ Power(d, 3) = d * d * d /\ Power(v, 2) = v * v
    BY <1>1, SmallPowers
  <2>2. 8 * (a * a * a - b * b * b) - (c * c * c - d * d * d) = (12 * g) * (3 * (v * v))
    OBVIOUS
  <2>3. e # 0 /\ e - 1 = 2
    BY <1>5
  <2> HIDE DEF a, b, c, d
  <2>4. 8 * (Power(a, e) - Power(b, e)) - (Power(c, e) - Power(d, e))
          = (12 * g) * (e * Power(v, IF e = 0 THEN 0 ELSE e - 1))
    BY <1>5, <2>1, <2>2, <2>3
  <2> QED BY <2>4 DEF a, b, c, d
<1>6. CASE e = 4
  <2> DEFINE a == v + g
             b == v - g
             c == v + 2 * g
             d == v - 2 * g
  <2>1. /\ Power(a, 4) = a * a * a * a /\ Power(b, 4) = b * b * b * b
        /\ Power(c, 4) = c * c * c * c /\ Power(d, 4) = d * d * d * d
        /\ Power(v, 3) = v * v * v
    BY <1>1, SmallPowers
  <2>2. 8 * (a * a * a * a - b * b * b * b) - (c * c * c * c - d * d * d * d)
          = (12 * g) * (4 * (v * v * v))
    OBVIOUS
  <2>3. e # 0 /\ e - 1 = 3
    BY <1>6
  <2> HIDE DEF a, b, c, d
  <2>4. 8 * (Power(a, e) - Power(b, e)) - (Power(c, e) - Power(d, e))
          = (12 * g) * (e * Power(v, IF e = 0 THEN 0 ELSE e - 1))
    BY <1>6, <2>1, <2>2, <2>3
  <2> QED BY <2>4 DEF a, b, c, d
<1> QED BY <1>2, <1>3, <1>4, <1>5, <1>6

\* The five-point rule with step 2 g of a monomial of degree four.
LEMMA FivePointsOfMonomial ==
  ASSUME NEW n \in Nat, NEW m \in Monomials(n), NEW x \in [1..n -> Int], NEW j \in 1..n,
         UpTo(m, j, 4), NEW g \in Int
  PROVE  Rule(ValueOf(m, Moved(x, j, g)), ValueOf(m, Moved(x, j, -g)),
              ValueOf(m, Moved(x, j, 2 * g)), ValueOf(m, Moved(x, j, -(2 * g))),
              12 * g, ValueOf(Along(m, j), x))
<1> DEFINE e == m.e[j]
           v == x[j]
           c == m.c
           d == Down(e)
<1>0. PICK r \in Int : RestOf(r, m, x, j)
  BY MonomialSplits
<1>1. \A b \in Int, p \in Nat, u \in Int :
        ValueOf(Alone(m, j, b, p), At(x, j, u)) = b * (r * Power(u, p))
  BY <1>0 DEF RestOf
<1>2. /\ m = Alone(m, j, c, e) /\ c \in Int /\ e \in Nat
      /\ Along(m, j) = Alone(m, j, c * e, d)
      /\ c * e \in Int
      /\ x = At(x, j, v) /\ v \in Int
      /\ \A u : Moved(x, j, u) = At(x, j, v + u)
  <2>1. /\ m = Alone(m, j, c, e) /\ c \in Int /\ e \in Nat
        /\ Along(m, j) = Alone(m, j, c * e, d) /\ c * e \in Int
    BY MonomialAlone
  <2>2. x = At(x, j, v) /\ v \in Int
    BY PointsAlone
  <2>3. \A u : Moved(x, j, u) = At(x, j, v + u)
    BY PointsAlone
  <2> QED BY <2>1, <2>2, <2>3
<1>3. e <= 4 /\ d \in Nat /\ 2 * g \in Int /\ v + -g = v - g /\ v + -(2 * g) = v - 2 * g
  <2>1. e <= 4 /\ e \in Nat /\ v \in Int
    BY <1>2 DEF UpTo
  <2> HIDE DEF e, v
  <2> QED BY <2>1 DEF Down
<1>4. /\ v + g \in Int /\ v - g \in Int /\ v + 2 * g \in Int /\ v - 2 * g \in Int
  BY <1>2
<1> HIDE DEF e, v, c
<1>5. /\ ValueOf(m, Moved(x, j, g)) = c * (r * Power(v + g, e))
      /\ ValueOf(m, Moved(x, j, -g)) = c * (r * Power(v - g, e))
  BY <1>1, <1>2, <1>3, <1>4
<1>6. /\ ValueOf(m, Moved(x, j, 2 * g)) = c * (r * Power(v + 2 * g, e))
      /\ ValueOf(m, Moved(x, j, -(2 * g))) = c * (r * Power(v - 2 * g, e))
  BY SMTT(30), <1>1, <1>2, <1>3, <1>4
<1>7. ValueOf(Along(m, j), x) = (c * e) * (r * Power(v, d))
  <2> HIDE DEF d
  <2>1. c * e \in Int /\ d \in Nat /\ v \in Int
    BY <1>2, <1>3
  <2>2. ValueOf(Alone(m, j, c * e, d), At(x, j, v)) = (c * e) * (r * Power(v, d))
    BY <1>1, <2>1
  <2> QED BY <1>2, <2>2
<1>8. 8 * (Power(v + g, e) - Power(v - g, e)) - (Power(v + 2 * g, e) - Power(v - 2 * g, e))
        = (12 * g) * (e * Power(v, d))
  <2>1. e \in 0..4
    BY <1>2, <1>3
  <2> QED BY <1>2, <2>1, RuleOfPowers DEF Down
<1>9. /\ Power(v + g, e) \in Int /\ Power(v - g, e) \in Int /\ Power(v, d) \in Int
      /\ Power(v + 2 * g, e) \in Int /\ Power(v - 2 * g, e) \in Int
  BY <1>2, <1>3, <1>4, PowerIsInteger
<1> HIDE DEF d
<1>10. 12 * g \in Int
  OBVIOUS
<1>11. 8 * (c * (r * Power(v + g, e)) - c * (r * Power(v - g, e)))
        - (c * (r * Power(v + 2 * g, e)) - c * (r * Power(v - 2 * g, e)))
        = (12 * g) * ((c * e) * (r * Power(v, d)))
  <2> DEFINE p == Power(v + g, e)
             q == Power(v - g, e)
             s == Power(v + 2 * g, e)
             t == Power(v - 2 * g, e)
             z == 12 * g
             w == Power(v, d)
  <2>1. /\ 8 * (p - q) - (s - t) = z * (e * w)
        /\ p \in Int /\ q \in Int /\ s \in Int /\ t \in Int /\ z \in Int /\ w \in Int
        /\ e \in Int /\ c \in Int /\ r \in Int
    BY <1>2, <1>8, <1>9, <1>10
  <2> HIDE DEF p, q, s, t, z, w
  <2>2. 8 * (c * (r * p) - c * (r * q)) - (c * (r * s) - c * (r * t))
          = z * ((c * e) * (r * w))
    BY <2>1
  <2> QED BY <2>2 DEF p, q, s, t, z, w
<1> QED BY <1>5, <1>6, <1>7, <1>11 DEF Rule

\* The forward difference of a monomial that is linear in the variable.
LEMMA ForwardOfMonomial ==
  ASSUME NEW n \in Nat, NEW m \in Monomials(n), NEW x \in [1..n -> Int], NEW j \in 1..n,
         UpTo(m, j, 1), NEW h \in Int
  PROVE  ValueOf(m, Moved(x, j, h)) - ValueOf(m, x) = h * ValueOf(Along(m, j), x)
<1> DEFINE e == m.e[j]
           v == x[j]
           c == m.c
           d == Down(e)
<1>0. PICK r \in Int : RestOf(r, m, x, j)
  BY MonomialSplits
<1>1. \A b \in Int, p \in Nat, u \in Int :
        ValueOf(Alone(m, j, b, p), At(x, j, u)) = b * (r * Power(u, p))
  BY <1>0 DEF RestOf
<1>2. /\ m = Alone(m, j, c, e) /\ c \in Int /\ e \in Nat
      /\ Along(m, j) = Alone(m, j, c * e, d)
      /\ c * e \in Int
      /\ x = At(x, j, v) /\ v \in Int
      /\ \A u : Moved(x, j, u) = At(x, j, v + u)
  <2>1. /\ m = Alone(m, j, c, e) /\ c \in Int /\ e \in Nat
        /\ Along(m, j) = Alone(m, j, c * e, d) /\ c * e \in Int
    BY MonomialAlone
  <2>2. x = At(x, j, v) /\ v \in Int
    BY PointsAlone
  <2>3. \A u : Moved(x, j, u) = At(x, j, v + u)
    BY PointsAlone
  <2> QED BY <2>1, <2>2, <2>3
<1>3. e \in 0..1 /\ d = 0 /\ v + h \in Int
  <2>1. e <= 1 /\ e \in Nat /\ v \in Int
    BY <1>2 DEF UpTo
  <2> HIDE DEF e, v
  <2> QED BY <2>1 DEF Down
<1> HIDE DEF e, v, c, d
<1>4. /\ ValueOf(m, Moved(x, j, h)) = c * (r * Power(v + h, e))
      /\ ValueOf(m, x) = c * (r * Power(v, e))
      /\ ValueOf(Along(m, j), x) = (c * e) * (r * Power(v, 0))
  BY <1>1, <1>2, <1>3
<1>5. Power(v, 0) = 1 /\ Power(v + h, 0) = 1 /\ Power(v, 1) = v /\ Power(v + h, 1) = v + h
  BY <1>2, <1>3, SmallPowers
<1>6. c * (r * 1) - c * (r * 1) = h * ((c * 0) * (r * 1))
  BY <1>2
<1>7. c * (r * (v + h)) - c * (r * v) = h * ((c * 1) * (r * 1))
  BY <1>2
<1> QED
  <2>1. CASE e = 0
    BY <1>4, <1>5, <1>6, <2>1
  <2>2. CASE e = 1
    BY <1>4, <1>5, <1>7, <2>2
  <2> QED BY <1>3, <2>1, <2>2

\* So has a sum of monomials, which is the total of their values.
LEMMA SumIsInteger ==
  ASSUME NEW n \in Nat, NEW terms \in Seq(Monomials(n)), NEW x \in [1..n -> Int]
  PROVE  /\ Len(terms) \in Nat /\ DOMAIN terms = 1..Len(terms)
         /\ [i \in 1..Len(terms) |-> ValueOf(terms[i], x)] \in [1..Len(terms) -> Int]
         /\ Sum(terms, x) = Total([i \in 1..Len(terms) |-> ValueOf(terms[i], x)])
         /\ Sum(terms, x) \in Int
<1> DEFINE l == Len(terms)
           a == [i \in 1..l |-> ValueOf(terms[i], x)]
<1>1. l \in Nat /\ DOMAIN terms = 1..l /\ \A i \in 1..l : terms[i] \in Monomials(n)
  BY LenProperties, ElementOfSeq
<1>2. a \in [1..l -> Int]
  <2>1. \A i \in 1..l : ValueOf(terms[i], x) \in Int
    BY <1>1, MonomialIsInteger
  <2> QED BY <2>1
<1>3. Sum(terms, x) = Total(a)
  BY <1>1 DEF Sum
<1>4. Total(a) \in Int
  <2> HIDE DEF a, l
  <2> QED BY <1>1, <1>2, TotalIsInteger
<1> QED BY <1>1, <1>2, <1>3, <1>4

\* A sum of monomials is derived term by term.
LEMMA DerivedIsSum ==
  ASSUME NEW n \in Nat, NEW terms \in Seq(Monomials(n)), NEW j \in 1..n
  PROVE  /\ Derived(terms, j) \in Seq(Monomials(n)) /\ Len(Derived(terms, j)) = Len(terms)
         /\ \A i \in 1..Len(terms) : Derived(terms, j)[i] = Along(terms[i], j)
<1> DEFINE l == Len(terms)
           d == [i \in 1..l |-> Along(terms[i], j)]
<1>1. l \in Nat /\ DOMAIN terms = 1..l /\ \A i \in 1..l : terms[i] \in Monomials(n)
  BY LenProperties, ElementOfSeq
<1>2. Derived(terms, j) = d
  BY <1>1 DEF Derived
<1>3. d \in [1..l -> Monomials(n)]
  <2>1. \A i \in 1..l : Along(terms[i], j) \in Monomials(n)
    BY <1>1, MonomialAlone
  <2> QED BY <2>1
<1>4. \A i \in 1..l : d[i] = Along(terms[i], j)
  OBVIOUS
<1> HIDE DEF d, l
<1>5. d \in Seq(Monomials(n)) /\ Len(d) = l
  BY <1>1, <1>3, SeqDef, LenProperties
<1> QED BY <1>2, <1>4, <1>5 DEF l

\* A moved point is a point.
LEMMA PointMoves ==
  ASSUME NEW n \in Nat, NEW x \in [1..n -> Int], NEW j \in 1..n, NEW d \in Int
  PROVE  Moved(x, j, d) \in [1..n -> Int]
BY DEF Moved

\* The terms are of at most that degree in the variable.
AllUpTo(terms, j, d) == \A i \in DOMAIN terms : UpTo(terms[i], j, d)

\* The rule of five points is exact for sums of monomials of degree four or
\* less in the variable.
LEMMA FivePointsOfSum ==
  ASSUME NEW n \in Nat, NEW terms \in Seq(Monomials(n)), NEW x \in [1..n -> Int],
         NEW j \in 1..n, AllUpTo(terms, j, 4), NEW g \in Int
  PROVE  Rule(Sum(terms, Moved(x, j, g)), Sum(terms, Moved(x, j, -g)),
              Sum(terms, Moved(x, j, 2 * g)), Sum(terms, Moved(x, j, -(2 * g))),
              12 * g, Sum(Derived(terms, j), x))
<1> DEFINE l == Len(terms)
           v(y) == [i \in 1..l |-> ValueOf(terms[i], y)]
           a == v(Moved(x, j, g))
           b == v(Moved(x, j, -g))
           c == v(Moved(x, j, 2 * g))
           d == v(Moved(x, j, -(2 * g)))
           e == [i \in 1..l |-> ValueOf(Derived(terms, j)[i], x)]
           q == 12 * g
<1>1. l \in Nat /\ DOMAIN terms = 1..l /\ \A i \in 1..l : terms[i] \in Monomials(n)
  BY LenProperties, ElementOfSeq
<1>2. /\ Moved(x, j, g) \in [1..n -> Int] /\ Moved(x, j, -g) \in [1..n -> Int]
      /\ Moved(x, j, 2 * g) \in [1..n -> Int] /\ Moved(x, j, -(2 * g)) \in [1..n -> Int]
  <2>1. -g \in Int /\ 2 * g \in Int /\ -(2 * g) \in Int
    OBVIOUS
  <2> QED BY <2>1, PointMoves
<1>3. \A y \in [1..n -> Int] : v(y) \in [1..l -> Int] /\ Sum(terms, y) = Total(v(y))
  BY SumIsInteger
<1>4. e \in [1..l -> Int] /\ Sum(Derived(terms, j), x) = Total(e)
  <2>1. Derived(terms, j) \in Seq(Monomials(n)) /\ Len(Derived(terms, j)) = l
    BY DerivedIsSum
  <2> QED BY <2>1, SumIsInteger
<1>5. /\ a \in [1..l -> Int] /\ b \in [1..l -> Int] /\ c \in [1..l -> Int] /\ d \in [1..l -> Int]
      /\ Sum(terms, Moved(x, j, g)) = Total(a) /\ Sum(terms, Moved(x, j, -g)) = Total(b)
      /\ Sum(terms, Moved(x, j, 2 * g)) = Total(c)
      /\ Sum(terms, Moved(x, j, -(2 * g))) = Total(d)
  <2> HIDE DEF v
  <2> QED BY <1>2, <1>3
<1>6. ASSUME NEW i \in 1..l PROVE Rule(a[i], b[i], c[i], d[i], q, e[i])
  <2>1. /\ a[i] = ValueOf(terms[i], Moved(x, j, g)) /\ b[i] = ValueOf(terms[i], Moved(x, j, -g))
        /\ c[i] = ValueOf(terms[i], Moved(x, j, 2 * g))
        /\ d[i] = ValueOf(terms[i], Moved(x, j, -(2 * g)))
        /\ e[i] = ValueOf(Along(terms[i], j), x)
    BY DerivedIsSum
  <2>2. UpTo(terms[i], j, 4) /\ terms[i] \in Monomials(n)
    BY <1>1 DEF AllUpTo
  <2> HIDE DEF a, b, c, d, e
  <2> QED BY <2>1, <2>2, FivePointsOfMonomial DEF q
<1>7. q \in Int
  OBVIOUS
<1> HIDE DEF a, b, c, d, e, q, l
<1>8. Rule(Total(a), Total(b), Total(c), Total(d), q, Total(e))
  BY <1>1, <1>4, <1>5, <1>6, <1>7, TotalIsLinear
<1> QED BY <1>4, <1>5, <1>8 DEF q

\* The forward difference is exact for those of degree one or less.
LEMMA ForwardOfSum ==
  ASSUME NEW n \in Nat, NEW terms \in Seq(Monomials(n)), NEW x \in [1..n -> Int],
         NEW j \in 1..n, AllUpTo(terms, j, 1), NEW h \in Int
  PROVE  Sum(terms, Moved(x, j, h)) - Sum(terms, x) = h * Sum(Derived(terms, j), x)
<1> DEFINE l == Len(terms)
           v(y) == [i \in 1..l |-> ValueOf(terms[i], y)]
           a == v(Moved(x, j, h))
           b == v(x)
           z == [i \in 1..l |-> 0]
           e == [i \in 1..l |-> ValueOf(Derived(terms, j)[i], x)]
           q == 8 * h
<1>1. l \in Nat /\ DOMAIN terms = 1..l /\ \A i \in 1..l : terms[i] \in Monomials(n)
  BY LenProperties, ElementOfSeq
<1>2. Moved(x, j, h) \in [1..n -> Int]
  BY PointMoves
<1>3. \A y \in [1..n -> Int] : v(y) \in [1..l -> Int] /\ Sum(terms, y) = Total(v(y))
  BY SumIsInteger
<1>4. e \in [1..l -> Int] /\ Sum(Derived(terms, j), x) = Total(e)
  <2>1. Derived(terms, j) \in Seq(Monomials(n)) /\ Len(Derived(terms, j)) = l
    BY DerivedIsSum
  <2> QED BY ZenonT(60), <2>1, SumIsInteger
<1>5. /\ a \in [1..l -> Int] /\ b \in [1..l -> Int] /\ z \in [1..l -> Int]
      /\ Sum(terms, Moved(x, j, h)) = Total(a) /\ Sum(terms, x) = Total(b)
  <2> HIDE DEF v
  <2> QED BY <1>2, <1>3
<1>6. ASSUME NEW i \in 1..l PROVE Rule(a[i], b[i], z[i], z[i], q, e[i])
  <2>1. /\ a[i] = ValueOf(terms[i], Moved(x, j, h)) /\ b[i] = ValueOf(terms[i], x)
        /\ z[i] = 0 /\ e[i] = ValueOf(Along(terms[i], j), x)
    BY DerivedIsSum
  <2>2. UpTo(terms[i], j, 1) /\ terms[i] \in Monomials(n)
    BY <1>1 DEF AllUpTo
  <2>3. a[i] \in Int /\ b[i] \in Int /\ e[i] \in Int
    BY <1>4, <1>5
  <2> HIDE DEF a, b, e, z
  <2>4. a[i] - b[i] = h * e[i]
    BY <2>1, <2>2, ForwardOfMonomial
  <2> DEFINE A == a[i]
             B == b[i]
             E == e[i]
  <2>5. A \in Int /\ B \in Int /\ E \in Int /\ A - B = h * E
    BY <2>3, <2>4
  <2> HIDE DEF A, B, E
  <2>6. 8 * (A - B) - (0 - 0) = (8 * h) * E
    BY <2>5
  <2> QED BY <2>1, <2>6 DEF A, B, E, Rule
<1>7. q \in Int
  OBVIOUS
<1> HIDE DEF a, b, z, e, q, l
<1>8. Rule(Total(a), Total(b), Total(z), Total(z), q, Total(e))
  BY <1>1, <1>4, <1>5, <1>6, <1>7, TotalIsLinear
<1>9. Total(a) \in Int /\ Total(b) \in Int /\ Total(z) \in Int /\ Total(e) \in Int
  BY <1>1, <1>4, <1>5, TotalIsInteger
<1> DEFINE A == Total(a)
           B == Total(b)
           Z == Total(z)
           E == Total(e)
<1>10. /\ A \in Int /\ B \in Int /\ Z \in Int /\ E \in Int
       /\ 8 * (A - B) - (Z - Z) = (8 * h) * E
  BY <1>8, <1>9 DEF q, Rule
<1> HIDE DEF A, B, Z, E
<1>11. A - B = h * E
  BY <1>10
<1> QED BY <1>4, <1>5, <1>11 DEF A, B, E

(***************************************************************************)
(* What the functions answer.                                              *)
(***************************************************************************)

\* The values and derivatives of a function of the user are integers.
LEMMA GivenAreIntegers ==
  ASSUME NEW f \in Given, NEW x \in [1..Inputs[f] -> Int]
  PROVE  /\ Exact(f, x) \in [1..Outputs[f] -> Int]
         /\ \A k \in 1..Outputs[f] :
              /\ Terms[f][k] \in Seq(Monomials(Inputs[f]))
              /\ Exact(f, x)[k] = Sum(Terms[f][k], x)
              /\ ExactRow(f, k, x) \in [1..Inputs[f] -> Int]
              /\ \A j \in 1..Inputs[f] : ExactRow(f, k, x)[j] = Sum(Derived(Terms[f][k], j), x)
              /\ AnalyticalRow(f, k, x) \in [1..Inputs[f] -> Int]
<1>1. Inputs[f] \in Nat /\ Outputs[f] \in Nat /\ f \in Functions
  BY Kinds DEF Given
<1>2. \A k \in 1..Outputs[f] : Terms[f][k] \in Seq(Monomials(Inputs[f]))
  BY TermsAssumption DEF Monomials
<1>3. \A k \in 1..Outputs[f] : Sum(Terms[f][k], x) \in Int
  BY <1>1, <1>2, SumIsInteger
<1>4. \A k \in 1..Outputs[f], j \in 1..Inputs[f] : Sum(Derived(Terms[f][k], j), x) \in Int
  BY <1>1, <1>2, DerivedIsSum, SumIsInteger
<1>5. ASSUME NEW k \in 1..Outputs[f] PROVE AnalyticalRow(f, k, x) \in [1..Inputs[f] -> Int]
  <2>1. \A j \in 1..Inputs[f] : ExactRow(f, k, x)[j] \in Int /\ Slip[f][k][j] \in Int
    BY <1>4, TermsAssumption DEF ExactRow
  <2> QED BY <2>1 DEF AnalyticalRow
<1> QED BY <1>2, <1>3, <1>4, <1>5 DEF Exact, ExactRow

\* Both policies answer the derivative: the five-point rule with any even step
\* and the forward difference with any step at all.
LEMMA RuleIsExact ==
  ASSUME NEW f \in Decorated, Kind[f] = "fivePoints", NEW k \in 1..Outputs[f],
         NEW j \in 1..Inputs[f], NEW x \in [1..Inputs[f] -> Int],
         NEW h \in Nat \ {0}, h % 2 = 0, NEW s,
         s.fp1 = Exact(Adaptee[f], Moved(x, j, h))[k],
         s.fm1 = Exact(Adaptee[f], Moved(x, j, -h))[k],
         s.fph = Exact(Adaptee[f], Moved(x, j, h \div 2))[k],
         s.fmh = Exact(Adaptee[f], Moved(x, j, -(h \div 2)))[k]
  PROVE  FivePointRule(s, h) = ExactRow(Adaptee[f], k, x)[j]
<1> DEFINE A == Adaptee[f]
           n == Inputs[f]
           T == Terms[A][k]
           g == h \div 2
<1>1. /\ A \in Given /\ n \in Nat /\ Inputs[A] = n /\ k \in 1..Outputs[A]
  BY FunctionsAssumption, Kinds DEF Decorated
<1>2. T \in Seq(Monomials(n)) /\ ExactRow(A, k, x)[j] = Sum(Derived(T, j), x)
      /\ ExactRow(A, k, x)[j] \in Int
  <2>1. x \in [1..Inputs[A] -> Int] /\ j \in 1..Inputs[A]
    BY <1>1
  <2> HIDE DEF A, n
  <2>2. /\ ExactRow(A, k, x) \in [1..Inputs[A] -> Int] /\ T \in Seq(Monomials(Inputs[A]))
        /\ ExactRow(A, k, x)[j] = Sum(Derived(T, j), x)
    <3>1. A \in Given /\ k \in 1..Outputs[A] /\ j \in 1..Inputs[A]
      BY <1>1, <2>1
    <3>2. \A i \in 1..Outputs[A] :
            /\ Terms[A][i] \in Seq(Monomials(Inputs[A]))
            /\ ExactRow(A, i, x) \in [1..Inputs[A] -> Int]
            /\ \A u \in 1..Inputs[A] : ExactRow(A, i, x)[u] = Sum(Derived(Terms[A][i], u), x)
      BY <2>1, <3>1, GivenAreIntegers
    <3> QED BY <3>1, <3>2
  <2> QED BY <1>1, <2>1, <2>2
<1>3. AllUpTo(T, j, 4)
  <2>1. \A i \in DOMAIN T : T[i].e[j] <= Degree(f)
    BY TermsAssumption
  <2>2. Degree(f) = 4
    BY DEF Degree
  <2> QED BY <2>1, <2>2 DEF AllUpTo, UpTo
<1>4. g \in Int /\ h = 2 * g /\ -h = -(2 * g) /\ 6 * h = 12 * g /\ 6 * h \in Nat \ {0}
  OBVIOUS
<1> HIDE DEF g
<1>5. ASSUME NEW y \in [1..n -> Int] PROVE Exact(A, y)[k] = Sum(T, y) /\ Sum(T, y) \in Int
  <2>1. y \in [1..Inputs[A] -> Int]
    BY <1>1
  <2> HIDE DEF A, n
  <2>2. Exact(A, y) \in [1..Outputs[A] -> Int] /\ Exact(A, y)[k] = Sum(T, y)
    <3>1. A \in Given /\ k \in 1..Outputs[A]
      BY <1>1
    <3> QED BY <2>1, <3>1, GivenAreIntegers
  <2> QED BY <1>1, <2>2
<1>6. /\ Moved(x, j, g) \in [1..n -> Int] /\ Moved(x, j, -g) \in [1..n -> Int]
      /\ Moved(x, j, h) \in [1..n -> Int] /\ Moved(x, j, -h) \in [1..n -> Int]
  <2>1. -g \in Int /\ h \in Int /\ -h \in Int
    BY <1>4
  <2> QED BY <1>1, <1>4, <2>1, PointMoves
<1>7. /\ s.fp1 = Sum(T, Moved(x, j, h)) /\ s.fm1 = Sum(T, Moved(x, j, -h))
      /\ s.fph = Sum(T, Moved(x, j, g)) /\ s.fmh = Sum(T, Moved(x, j, -g))
  BY <1>5, <1>6 DEF g
<1> HIDE DEF T, A, n
<1>8. Rule(s.fph, s.fmh, s.fp1, s.fm1, 12 * g, Sum(Derived(T, j), x))
  <2>1. /\ s.fp1 = Sum(T, Moved(x, j, 2 * g)) /\ s.fm1 = Sum(T, Moved(x, j, -(2 * g)))
    BY <1>4, <1>7
  <2>2. x \in [1..n -> Int] /\ j \in 1..n
    BY DEF n
  <2>3. n \in Nat /\ T \in Seq(Monomials(n)) /\ g \in Int
    BY <1>1, <1>2, <1>4
  <2>4. Rule(Sum(T, Moved(x, j, g)), Sum(T, Moved(x, j, -g)),
             Sum(T, Moved(x, j, 2 * g)), Sum(T, Moved(x, j, -(2 * g))),
             12 * g, Sum(Derived(T, j), x))
    BY <1>3, <2>2, <2>3, FivePointsOfSum
  <2> QED BY <1>7, <2>1, <2>4
<1> DEFINE a == Sum(Derived(T, j), x)
           q == 6 * h
           z == 8 * (s.fph - s.fmh) - (s.fp1 - s.fm1)
<1>9. z = q * a /\ a \in Int /\ q \in Nat \ {0} /\ FivePointRule(s, h) = z \div q
  BY <1>2, <1>4, <1>8 DEF FivePointRule, Rule
<1> HIDE DEF a, q, z
<1>10. (q * a) \div q = a
  BY <1>9
<1> QED BY <1>2, <1>9, <1>10 DEF a, A

\* What the simple policy writes is the derivative, if its two buffers are
\* the values it means.
LEMMA DifferenceIsExact ==
  ASSUME NEW f \in Decorated, Kind[f] = "simple", NEW k \in 1..Outputs[f],
         NEW j \in 1..Inputs[f], NEW x \in [1..Inputs[f] -> Int], NEW h \in Nat \ {0}, NEW b,
         b.resultEps = Exact(Adaptee[f], Moved(x, j, h)),
         b.result = Exact(Adaptee[f], x)
  PROVE  ForwardDifference(b, k, h) = ExactRow(Adaptee[f], k, x)[j]
<1> DEFINE A == Adaptee[f]
           n == Inputs[f]
           T == Terms[A][k]
<1>1. /\ A \in Given /\ n \in Nat /\ Inputs[A] = n /\ k \in 1..Outputs[A]
  BY FunctionsAssumption, Kinds DEF Decorated
<1>2. T \in Seq(Monomials(n)) /\ ExactRow(A, k, x)[j] = Sum(Derived(T, j), x)
      /\ ExactRow(A, k, x)[j] \in Int
  <2>1. x \in [1..Inputs[A] -> Int] /\ j \in 1..Inputs[A]
    BY <1>1
  <2> HIDE DEF A, n
  <2>2. /\ ExactRow(A, k, x) \in [1..Inputs[A] -> Int] /\ T \in Seq(Monomials(Inputs[A]))
        /\ ExactRow(A, k, x)[j] = Sum(Derived(T, j), x)
    <3>1. A \in Given /\ k \in 1..Outputs[A] /\ j \in 1..Inputs[A]
      BY <1>1, <2>1
    <3>2. \A i \in 1..Outputs[A] :
            /\ Terms[A][i] \in Seq(Monomials(Inputs[A]))
            /\ ExactRow(A, i, x) \in [1..Inputs[A] -> Int]
            /\ \A u \in 1..Inputs[A] : ExactRow(A, i, x)[u] = Sum(Derived(Terms[A][i], u), x)
      BY <2>1, <3>1, GivenAreIntegers
    <3> QED BY <3>1, <3>2
  <2> QED BY <1>1, <2>1, <2>2
<1>3. AllUpTo(T, j, 1)
  <2>1. \A i \in DOMAIN T : T[i].e[j] <= Degree(f)
    BY TermsAssumption
  <2>2. Degree(f) = 1
    BY DEF Degree
  <2> QED BY <2>1, <2>2 DEF AllUpTo, UpTo
<1>5. ASSUME NEW y \in [1..n -> Int] PROVE Exact(A, y)[k] = Sum(T, y) /\ Sum(T, y) \in Int
  <2>1. y \in [1..Inputs[A] -> Int]
    BY <1>1
  <2> HIDE DEF A, n
  <2>2. Exact(A, y) \in [1..Outputs[A] -> Int] /\ Exact(A, y)[k] = Sum(T, y)
    <3>1. A \in Given /\ k \in 1..Outputs[A]
      BY <1>1
    <3> QED BY <2>1, <3>1, GivenAreIntegers
  <2> QED BY <1>1, <2>2
<1>6. Moved(x, j, h) \in [1..n -> Int]
  <2>1. h \in Int
    OBVIOUS
  <2> QED BY <1>1, <2>1, PointMoves
<1>7. b.resultEps[k] = Sum(T, Moved(x, j, h)) /\ b.result[k] = Sum(T, x)
  BY <1>5, <1>6
<1> HIDE DEF T, A
<1>8. b.resultEps[k] - b.result[k] = h * Sum(Derived(T, j), x)
  <2>1. h \in Int
    OBVIOUS
  <2> QED BY <1>1, <1>2, <1>3, <1>7, <2>1, ForwardOfSum
<1> DEFINE a == Sum(Derived(T, j), x)
           z == b.resultEps[k] - b.result[k]
<1>9. z = h * a /\ a \in Int /\ ForwardDifference(b, k, h) = z \div h
  BY <1>2, <1>8 DEF ForwardDifference
<1> HIDE DEF a, z
<1>10. (h * a) \div h = a
  BY <1>9
<1> QED BY <1>2, <1>9, <1>10 DEF a, A

(***************************************************************************)
(* What a call has still to do when it begins.                             *)
(***************************************************************************)

SimplePieces(M) == {t \in Seq(M) : SimplyWhole(t)}
WholePieces(M) == {t \in Seq(M) : Whole(t)}

\* Pieces of a simple body join to one.
LEMMA SimplePiecesFlatten ==
  ASSUME NEW M, NEW n \in Nat, NEW ss \in [1..n -> SimplePieces(M)]
  PROVE  /\ FlattenSeq(ss) \in SimplePieces(M)
         /\ \A i \in 1..n : \A e \in ToSet(ss[i]) : e \in ToSet(FlattenSeq(ss))
<1> DEFINE C == SimplePieces(M)
<1>1. <<>> \in C
  BY DEF SimplePieces, SimplyWhole
<1>2. \A p, q \in C : p \o q \in C
  BY WholeConcat, ConcatProperties DEF SimplePieces
<1>3. ss \in Seq(C) /\ Len(ss) = n
  BY SeqDef, LenProperties
<1>4. ss \in [1..n -> Seq(M)]
  BY DEF SimplePieces
<1> HIDE DEF C
<1>5. FlattenSeq(ss) \in C
  BY <1>1, <1>2, <1>3, FlattenClosed
<1>6. ss \in Seq(Seq(M))
  BY <1>4, SeqDef
<1> QED BY <1>3, <1>5, <1>6, FlattenHas DEF C

\* Pieces of a five-point body join to one.
LEMMA WholePiecesFlatten ==
  ASSUME NEW M, NEW n \in Nat, NEW ss \in [1..n -> WholePieces(M)]
  PROVE  /\ FlattenSeq(ss) \in WholePieces(M)
         /\ \A i \in 1..n : \A e \in ToSet(ss[i]) : e \in ToSet(FlattenSeq(ss))
<1> DEFINE C == WholePieces(M)
<1>1. <<>> \in C
  BY DEF WholePieces, Whole
<1>2. \A p, q \in C : p \o q \in C
  BY WholeConcat, ConcatProperties DEF WholePieces
<1>3. ss \in Seq(C) /\ Len(ss) = n
  BY SeqDef, LenProperties
<1>4. ss \in [1..n -> Seq(M)]
  BY DEF WholePieces
<1> HIDE DEF C
<1>5. FlattenSeq(ss) \in C
  BY <1>1, <1>2, <1>3, FlattenClosed
<1>6. ss \in Seq(Seq(M))
  BY <1>4, SeqDef
<1> QED BY <1>3, <1>5, <1>6, FlattenHas DEF C

\* The instructions, with the arguments that are meant.
LEMMA InstructionsMeant ==
  ASSUME NEW f \in Functions, NEW what, NEW k
  PROVE  /\ \A g, w, n, into :
              /\ Calls(f, what, g, w, into) /\ n \in Nat /\ into \in Places
              /\ MeantEval(f, what, k, Eval(g, w, n, into))
              => Eval(g, w, n, into) \in Meant(f, what, k)
         /\ f \in Decorated /\ what \in {"gradient", "jacobian"} =>
              \A j \in 1..Inputs[f], n \in 1..Outputs[f], row \in Nat :
                /\ (IF what = "jacobian" THEN row = n ELSE row = 1 /\ n = k) =>
                     /\ \A h \in Steps(f) : Write(row, n, j, h) \in Meant(f, what, k)
                     /\ Kind[f] = "fivePoints" => Again(j, n, row) \in Meant(f, what, k)
                /\ Kind[f] = "simple" =>
                     Probe(j, Epsilon, <<"buffer", "resultEps">>) \in Meant(f, what, k)
                /\ Kind[f] # "simple" => \A d \in Int : \A s \in SampleNames :
                     Probe(j, d, Sample(s, n)) \in Meant(f, what, k)
<1>1. ASSUME NEW g, NEW w, NEW n \in Nat, NEW into \in Places, Calls(f, what, g, w, into),
             MeantEval(f, what, k, Eval(g, w, n, into))
      PROVE  Eval(g, w, n, into) \in Meant(f, what, k)
  <2>1. Eval(g, w, n, into) \in StepsOf(f, what)
    BY <1>1, EvalInBody DEF Others
  <2>2. Eval(g, w, n, into).do = "eval"
    BY DEF Eval
  <2> QED BY <1>1, <2>1, <2>2 DEF Meant
<1>2. ASSUME f \in Decorated, what \in {"gradient", "jacobian"},
             NEW j \in 1..Inputs[f], NEW n \in 1..Outputs[f], NEW row \in Nat
      PROVE  /\ (IF what = "jacobian" THEN row = n ELSE row = 1 /\ n = k) =>
                  /\ \A h \in Steps(f) : Write(row, n, j, h) \in Meant(f, what, k)
                  /\ Kind[f] = "fivePoints" => Again(j, n, row) \in Meant(f, what, k)
             /\ Kind[f] = "simple" =>
                  Probe(j, Epsilon, <<"buffer", "resultEps">>) \in Meant(f, what, k)
             /\ Kind[f] # "simple" => \A d \in Int : \A s \in SampleNames :
                  Probe(j, d, Sample(s, n)) \in Meant(f, what, k)
  <2>1. /\ j \in Nat /\ n \in Nat /\ Epsilon \in Int /\ Steps(f) \subseteq Int
    BY Kinds, StepsAssumption DEF Steps
  <2>2. /\ Again(j, n, row) \in StepsOf(f, what)
        /\ \A h \in Int : Write(row, n, j, h) \in StepsOf(f, what)
        /\ \A d \in Int :
             /\ Probe(j, d, <<"buffer", "resultEps">>) \in StepsOf(f, what)
             /\ \A s \in SampleNames : Probe(j, d, Sample(s, n)) \in StepsOf(f, what)
    BY <1>2, <2>1, StepTypes DEF Others
  <2>3. ASSUME IF what = "jacobian" THEN row = n ELSE row = 1 /\ n = k
        PROVE  /\ \A h \in Steps(f) : Write(row, n, j, h) \in Meant(f, what, k)
               /\ Kind[f] = "fivePoints" => Again(j, n, row) \in Meant(f, what, k)
    <3>1. ASSUME NEW h \in Steps(f) PROVE Write(row, n, j, h) \in Meant(f, what, k)
      <4>1. Write(row, n, j, h) \in StepsOf(f, what)
        BY <2>1, <2>2
      <4>2. /\ Write(row, n, j, h).do = "write" /\ Write(row, n, j, h).h = h
            /\ MeantEntry(f, what, k, Write(row, n, j, h))
        BY <2>3 DEF Write, MeantEntry
      <4> QED BY <4>1, <4>2 DEF Meant
    <3>2. Again(j, n, row).do = "again" /\ MeantEntry(f, what, k, Again(j, n, row))
      BY <2>3 DEF Again, MeantEntry
    <3> QED BY <2>2, <3>1, <3>2 DEF Meant
  <2>4. ASSUME Kind[f] = "simple"
        PROVE  Probe(j, Epsilon, <<"buffer", "resultEps">>) \in Meant(f, what, k)
    <3> DEFINE i == Probe(j, Epsilon, <<"buffer", "resultEps">>)
    <3>1. i.do = "probe" /\ i.j = j /\ i.d = Epsilon /\ i.into = <<"buffer", "resultEps">>
      BY DEF Probe
    <3>2. i \in StepsOf(f, what)
      BY <2>1, <2>2
    <3> HIDE DEF i
    <3> QED BY <2>4, <3>1, <3>2 DEF Meant, MeantProbe, MeantSample, i
  <2>5. ASSUME Kind[f] # "simple", NEW d \in Int, NEW s \in SampleNames
        PROVE  Probe(j, d, Sample(s, n)) \in Meant(f, what, k)
    <3> DEFINE i == Probe(j, d, Sample(s, n))
    <3>1. /\ i.do = "probe" /\ i.j = j
          /\ i.into \in {"sample"} \X SampleNames \X (1..Outputs[f])
      BY DEF Probe, Sample
    <3>2. i \in StepsOf(f, what)
      BY <2>2
    <3> HIDE DEF i
    <3> QED BY <2>5, <3>1, <3>2 DEF Meant, MeantProbe, MeantSample, i
  <2> QED BY <2>3, <2>4, <2>5
<1> QED BY <1>1, <1>2

\* Sequences written out.
LEMMA WrittenOut ==
  ASSUME NEW S, NEW a \in S
  PROVE  /\ <<a>> \in Seq(S) /\ a \in ToSet(<<a>>)
         /\ \A b \in S : <<a, b>> \in Seq(S) /\ a \in ToSet(<<a, b>>) /\ b \in ToSet(<<a, b>>)
<1>1. DOMAIN <<a>> = 1..1 /\ <<a>>[1] = a
  OBVIOUS
<1>2. ASSUME NEW b \in S
      PROVE  DOMAIN <<a, b>> = 1..2 /\ <<a, b>>[1] = a /\ <<a, b>>[2] = b /\ <<a, b>> \in Seq(S)
  OBVIOUS
<1>3. <<a>> \in Seq(S) /\ a \in ToSet(<<a>>)
  BY <1>1 DEF ToSet
<1>4. ASSUME NEW b \in S PROVE a \in ToSet(<<a, b>>) /\ b \in ToSet(<<a, b>>)
  BY <1>2 DEF ToSet
<1> QED BY <1>2, <1>3, <1>4

\* The forward differences.
LEMMA BaseMeant ==
  ASSUME NEW f \in Decorated, Kind[f] = "simple", NEW what \in {"gradient", "jacobian"}, NEW k
  PROVE  /\ BaseOf(f) \in Seq(Meant(f, what, k)) /\ SimplyPrepared(BaseOf(f))
         /\ Len(BaseOf(f)) = 1 /\ BaseOf(f)[1].do = "eval"
<1> DEFINE i == Eval(Adaptee[f], "value", 0, <<"buffer", "result">>)
           M == Meant(f, what, k)
<1>1. f \in Functions /\ 0 \in Nat
  BY DEF Decorated
<1>2. Calls(f, what, Adaptee[f], "value", <<"buffer", "result">>)
  BY <1>1, CallsWithin
<1>3. /\ i.do = "eval" /\ i.of = Adaptee[f] /\ i.what = "value" /\ i.k = 0
      /\ i.into = <<"buffer", "result">>
  BY DEF Eval
<1>4. Numbers(Adaptee[f], "value") = {0}
  BY DEF Numbers
<1>5. MeantEval(f, what, k, i)
  <2> HIDE DEF i
  <2> QED BY <1>3, <1>4 DEF MeantEval, Differencing
<1>6. i \in M
  BY <1>1, <1>2, <1>5, SomePlaces, InstructionsMeant
<1>7. BaseOf(f) = <<i>>
  BY DEF BaseOf
<1> HIDE DEF i, M
<1>8. DOMAIN <<i>> = 1..1 /\ <<i>>[1] = i /\ Len(<<i>>) = 1
  OBVIOUS
<1>9. <<i>> \in Seq(M)
  BY <1>6, WrittenOut
<1>10. SimplyPrepared(<<i>>)
  BY <1>8 DEF SimplyPrepared
<1> QED BY <1>3, <1>7, <1>8, <1>9, <1>10 DEF M

\* One entry of a gradient of the simple policy: its sample, and its write.
LEMMA SimpleEntry ==
  ASSUME NEW f \in Decorated, Kind[f] = "simple", NEW k \in 1..Outputs[f], NEW j \in 1..Inputs[f]
  PROVE  LET M == Meant(f, "gradient", k)
             t == <<Probe(j, Epsilon, <<"buffer", "resultEps">>), Write(1, k, j, Epsilon)>>
         IN t \in SimplePieces(M) /\ Write(1, k, j, Epsilon) \in ToSet(t)
<1> DEFINE M == Meant(f, "gradient", k)
           a == Probe(j, Epsilon, <<"buffer", "resultEps">>)
           b == Write(1, k, j, Epsilon)
           t == <<a, b>>
<1>1. f \in Functions /\ Epsilon \in Steps(f) /\ 1 \in Nat
  BY DEF Decorated, Steps
<1>2. a \in M /\ b \in M
  BY <1>1, InstructionsMeant
<1>3. a.do = "probe" /\ a.j = j /\ b.do = "write" /\ b.j = j
  BY DEF Probe, Write
<1> HIDE DEF a, b, M
<1>4. DOMAIN t = 1..2 /\ t[1] = a /\ t[2] = b
  OBVIOUS
<1>5. t \in Seq(M) /\ b \in ToSet(t)
  BY <1>2, WrittenOut
<1>6. SimplyWhole(t)
  <2> HIDE DEF t
  <2> QED BY <1>3, <1>4 DEF SimplyWhole
<1> QED BY <1>5, <1>6 DEF SimplePieces, M, a, b

\* One column of a jacobian of the simple policy: its sample, and a write per
\* row.
LEMMA SimpleColumn ==
  ASSUME NEW f \in Decorated, Kind[f] = "simple", NEW k, NEW j \in 1..Inputs[f]
  PROVE  /\ Column(f, j) \in SimplePieces(Meant(f, "jacobian", k))
         /\ \A r \in 1..Outputs[f] : Write(r, r, j, Epsilon) \in ToSet(Column(f, j))
<1> DEFINE M == Meant(f, "jacobian", k)
           n == Outputs[f]
           a == Probe(j, Epsilon, <<"buffer", "resultEps">>)
           p == <<a>>
           w == [r \in 1..n |-> Write(r, r, j, Epsilon)]
           c == p \o w
<1>1. f \in Functions /\ Epsilon \in Steps(f) /\ n \in Nat /\ 1 \in 1..n
  BY FunctionsAssumption DEF Decorated, Steps
<1>2. a \in M
  BY <1>1, InstructionsMeant
<1>3. \A r \in 1..n : Write(r, r, j, Epsilon) \in M
  BY <1>1, InstructionsMeant
<1>4. w \in [1..n -> M] /\ \A r \in 1..n : w[r] = Write(r, r, j, Epsilon)
  BY <1>3
<1>5. Column(f, j) = c
  BY DEF Column
<1>6. /\ a.do = "probe" /\ a.j = j
      /\ \A r \in 1..n : w[r].do = "write" /\ w[r].j = j
  BY DEF Probe, Write
<1> HIDE DEF a, w, M, n
<1>7. p \in Seq(M) /\ w \in Seq(M) /\ Len(w) = n /\ DOMAIN w = 1..n
  BY <1>1, <1>2, <1>4, WrittenOut, SeqDef, LenProperties
<1>8. /\ c \in Seq(M) /\ DOMAIN c = 1..n + 1 /\ c[1] = a
      /\ \A i \in 2..n + 1 : c[i] = w[i - 1] /\ i - 1 \in 1..n
  <2>1. p \in Seq(M) /\ Len(p) = 1 /\ p[1] = a
    BY <1>7
  <2> HIDE DEF p
  <2>2. /\ c \in Seq(M) /\ Len(c) = Len(p) + Len(w)
        /\ \A i \in 1..Len(p) + Len(w) : c[i] = IF i <= Len(p) THEN p[i] ELSE w[i - Len(p)]
    BY <1>7, <2>1, ConcatProperties
  <2>3. DOMAIN c = 1..n + 1
    BY <1>1, <1>7, <2>1, <2>2, LenProperties
  <2> QED BY <1>1, <1>7, <2>1, <2>2, <2>3
<1>9. SimplyWhole(c)
  <2> HIDE DEF c
  <2> SUFFICES ASSUME NEW i \in 1..n + 1
               PROVE  /\ c[i].do # "eval"
                      /\ c[i].do = "write" => /\ i > 1 /\ c[i - 1].do \in {"probe", "write"}
                                              /\ c[i - 1].j = c[i].j
    BY <1>8 DEF SimplyWhole
  <2>1. CASE i = 1
    BY <1>6, <1>8, <2>1
  <2>2. CASE i # 1
    <3>1. i \in 2..n + 1 /\ (i - 1 = 1 \/ i - 1 \in 2..n + 1)
      BY <1>1, <2>2
    <3>2. c[i].do = "write" /\ c[i].j = j
      BY <1>6, <1>8, <3>1
    <3>3. c[i - 1].do \in {"probe", "write"} /\ c[i - 1].j = j
      BY <1>6, <1>8, <3>1
    <3> QED BY <3>1, <3>2, <3>3
  <2> QED BY <2>1, <2>2
<1>10. ASSUME NEW r \in 1..n PROVE Write(r, r, j, Epsilon) \in ToSet(c)
  <2>1. w[r] \in ToSet(w)
    BY <1>7 DEF ToSet
  <2> QED BY <1>4, <1>7, <2>1, ConcatHas
<1> QED BY <1>5, <1>8, <1>9, <1>10 DEF SimplePieces, M, n

\* What a body of finite differences has: a write for each entry of the answer.
WritesAll(t, f, what) ==
  \A r \in 1..RowCount(f, what), j \in 1..Inputs[f] :
    \E i \in ToSet(t) : i.do = "write" /\ i.row = r /\ i.j = j

\* A simple body: the value at the argument first, then pieces.
LEMMA SimplyPreparedBody ==
  ASSUME NEW f \in Decorated, Kind[f] = "simple", NEW what \in {"gradient", "jacobian"}, NEW k,
         NEW q \in SimplePieces(Meant(f, what, k)), NEW t, t = BaseOf(f) \o q
  PROVE  /\ t \in Seq(Meant(f, what, k)) /\ SimplyPrepared(t)
         /\ t # <<>> /\ t[1].do = "eval"
         /\ \A e \in ToSet(q) : e \in ToSet(t)
<1> DEFINE M == Meant(f, what, k)
           p == BaseOf(f)
<1>1. p \in Seq(M) /\ SimplyPrepared(p) /\ Len(p) = 1 /\ p[1].do = "eval"
  BY BaseMeant
<1>2. q \in Seq(M) /\ SimplyWhole(q)
  BY DEF SimplePieces
<1> HIDE DEF M, p
<1>3. t \in Seq(M) /\ Len(t) = 1 + Len(q) /\ Len(q) \in Nat
  <2>1. p \o q \in Seq(M) /\ Len(p \o q) = Len(p) + Len(q)
    BY <1>1, <1>2, ConcatProperties
  <2>2. Len(q) \in Nat
    BY <1>2, LenProperties
  <2> QED BY <1>1, <2>1, <2>2 DEF p
<1>4. t[1] = p[1]
  <2>1. \A i \in 1..Len(p) + Len(q) : (p \o q)[i] = IF i <= Len(p) THEN p[i] ELSE q[i - Len(p)]
    BY <1>1, <1>2, ConcatProperties
  <2>2. 1 \in 1..Len(p) + Len(q)
    BY <1>1, <1>3
  <2> QED BY <1>1, <2>1, <2>2 DEF p
<1>5. SimplyPrepared(t)
  BY <1>1, <1>2, WholeConcat DEF p
<1>6. \A e \in ToSet(q) : e \in ToSet(t)
  BY <1>1, <1>2, ConcatHas DEF p
<1>7. t # <<>>
  <2>1. Len(t) # 0
    BY <1>3
  <2>2. Len(<<>>) = 0
    OBVIOUS
  <2> QED BY <2>1, <2>2
<1> QED BY <1>1, <1>3, <1>4, <1>5, <1>6, <1>7 DEF M

\* The simple policy's steps prepare each write and write every entry.
LEMMA SimpleBody ==
  ASSUME NEW f \in Decorated, Kind[f] = "simple", NEW what \in {"gradient", "jacobian"},
         NEW k \in Numbers(f, what), NEW t, t = Body(f, what, k)
  PROVE  /\ t \in Seq(Meant(f, what, k)) /\ SimplyPrepared(t)
         /\ t # <<>> /\ t[1].do = "eval" /\ WritesAll(t, f, what)
<1> DEFINE M == Meant(f, what, k)
           m == Inputs[f]
           n == Outputs[f]
<1>1. f \in Functions /\ m \in Nat /\ n \in Nat /\ f \notin Squares /\ f \notin Given
  BY Kinds DEF Decorated
<1>2. CASE what = "gradient"
  <2> DEFINE ss == [j \in 1..m |-> <<Probe(j, Epsilon, <<"buffer", "resultEps">>),
                                     Write(1, k, j, Epsilon)>>]
             q == FlattenSeq(ss)
  <2>1. t = BaseOf(f) \o q
    BY <1>1, <1>2 DEF Body, SimpleGradient, ForEach, Checks
  <2>2. k \in 1..n
    BY <1>2 DEF Numbers
  <2>3. \A j \in 1..m : ss[j] \in SimplePieces(M) /\ Write(1, k, j, Epsilon) \in ToSet(ss[j])
    BY <1>2, <2>2, SimpleEntry
  <2>4. ss \in [1..m -> SimplePieces(M)]
    BY <2>3
  <2> HIDE DEF ss
  <2>5. q \in SimplePieces(M) /\ \A j \in 1..m : Write(1, k, j, Epsilon) \in ToSet(q)
    BY <1>1, <2>3, <2>4, SimplePiecesFlatten
  <2> HIDE DEF q
  <2>6. /\ t \in Seq(M) /\ SimplyPrepared(t) /\ t # <<>> /\ t[1].do = "eval"
        /\ \A e \in ToSet(q) : e \in ToSet(t)
    BY <2>1, <2>5, SimplyPreparedBody
  <2>7. WritesAll(t, f, what)
    <3> SUFFICES ASSUME NEW r \in 1..1, NEW j \in 1..m
                 PROVE  \E i \in ToSet(t) : i.do = "write" /\ i.row = r /\ i.j = j
      BY <1>2 DEF WritesAll, RowCount
    <3>1. Write(1, k, j, Epsilon) \in ToSet(t) /\ r = 1
      BY <2>5, <2>6
    <3> QED BY <3>1 DEF Write
  <2> QED BY <2>6, <2>7
<1>3. CASE what = "jacobian"
  <2> DEFINE ss == [j \in 1..m |-> Column(f, j)]
             q == FlattenSeq(ss)
             o == OnlyIfSparse(f, q)
  <2>1. t = BaseOf(f) \o o
    BY <1>3 DEF Body, SimpleJacobian, ColumnByColumn, ForEach, Checks
  <2>2. \A j \in 1..m : /\ ss[j] \in SimplePieces(M)
                        /\ \A r \in 1..n : Write(r, r, j, Epsilon) \in ToSet(ss[j])
    BY <1>3, SimpleColumn
  <2>3. ss \in [1..m -> SimplePieces(M)]
    BY <2>2
  <2> HIDE DEF ss
  <2>4. /\ q \in SimplePieces(M)
        /\ \A j \in 1..m, r \in 1..n : Write(r, r, j, Epsilon) \in ToSet(q)
    BY <1>1, <2>2, <2>3, SimplePiecesFlatten
  <2> HIDE DEF q
  <2>5. q \in Seq(M) /\ SimplyWhole(q) /\ what \notin Unguarded
    BY <1>3, <2>4 DEF SimplePieces, Unguarded
  <2>6. o \in Seq(M) /\ SimplyWhole(o) /\ \A e \in ToSet(q) : e \in ToSet(o)
    BY <1>1, <2>5, SiteMeant, SiteIsWhole
  <2> HIDE DEF o
  <2>7. o \in SimplePieces(M)
    BY <2>6 DEF SimplePieces
  <2>8. /\ t \in Seq(M) /\ SimplyPrepared(t) /\ t # <<>> /\ t[1].do = "eval"
        /\ \A j \in 1..m, r \in 1..n : Write(r, r, j, Epsilon) \in ToSet(t)
    BY <2>1, <2>4, <2>6, <2>7, SimplyPreparedBody
  <2>9. WritesAll(t, f, what)
    BY <1>3, <2>8 DEF WritesAll, RowCount, Write
  <2> QED BY <2>8, <2>9
<1> QED BY <1>2, <1>3

\* The five points.
LEMMA FivePointsMeant ==
  ASSUME NEW f \in Decorated, Kind[f] = "fivePoints", NEW what \in {"gradient", "jacobian"},
         NEW k, NEW j \in 1..Inputs[f], NEW n \in 1..Outputs[f], NEW row \in Nat,
         IF what = "jacobian" THEN row = n ELSE row = 1 /\ n = k,
         NEW h \in Steps(f)
  PROVE  /\ Deriv(j, n, row, h) \in WholePieces(Meant(f, what, k))
         /\ Front(Deriv(j, n, row, h)) \in WholePieces(Meant(f, what, k))
         /\ Write(row, n, j, h) \in ToSet(Deriv(j, n, row, h))
         /\ Again(j, n, row) \in Meant(f, what, k)
<1> DEFINE M == Meant(f, what, k)
           a == Probe(j, -h, Sample("fm1", n))
           b == Probe(j, h, Sample("fp1", n))
           c == Probe(j, -(h \div 2), Sample("fmh", n))
           d == Probe(j, h \div 2, Sample("fph", n))
           w == Write(row, n, j, h)
           t == <<a, b, c, d, w>>
<1>1. /\ f \in Functions /\ h \in Int /\ -h \in Int /\ h \div 2 \in Int /\ -(h \div 2) \in Int
  BY StepsAssumption DEF Decorated, Steps
<1>2. /\ "fm1" \in SampleNames /\ "fp1" \in SampleNames
      /\ "fmh" \in SampleNames /\ "fph" \in SampleNames
  BY DEF SampleNames
<1>3. a \in M /\ b \in M /\ c \in M /\ d \in M
  BY <1>1, <1>2, InstructionsMeant
<1>4. w \in M /\ Again(j, n, row) \in M
  BY <1>1, InstructionsMeant
<1>5. Deriv(j, n, row, h) = t
  BY DEF Deriv
<1>6. /\ w.do = "write" /\ w.j = j /\ w.k = n /\ w.h = h
      /\ a.do = "probe" /\ b.do = "probe" /\ c.do = "probe" /\ d.do = "probe"
  BY DEF Probe, Write
<1>7. a = Before(w, 1) /\ b = Before(w, 2) /\ c = Before(w, 3) /\ d = Before(w, 4)
  <2> HIDE DEF w
  <2> QED BY <1>6 DEF Before, Shift, Name
<1> HIDE DEF a, b, c, d, w, M
<1>8. /\ t \in Seq(M) /\ DOMAIN t = 1..5 /\ Len(t) = 5
      /\ t[1] = a /\ t[2] = b /\ t[3] = c /\ t[4] = d /\ t[5] = w
  BY <1>3, <1>4
<1> HIDE DEF t
<1>9. w \in ToSet(t)
  BY <1>8 DEF ToSet
<1>10. Whole(t)
  <2>1. \A p \in 1..5 : t[p].do = "write" => p = 5
    BY <1>6, <1>8
  <2>2. \A s \in 1..4 : t[5 - (5 - s)] = Before(t[5], s)
    BY <1>7, <1>8
  <2> QED BY <1>8, <2>1, <2>2 DEF Whole
<1>11. Front(t) \in Seq(M) /\ Whole(Front(t))
  <2>1. 5 - 1 = 4 /\ 4 \in Nat
    OBVIOUS
  <2>2. /\ Front(t) \in Seq(M) /\ Len(Front(t)) = 4 /\ \A p \in 1..4 : Front(t)[p] = t[p]
    <3>1. Front(t) = SubSeq(t, 1, 4)
      BY <1>8 DEF Front
    <3>2. \A p \in 1..4 : t[p] \in M
      BY <1>3, <1>8
    <3>3. SubSeq(t, 1, 4) \in Seq(M) /\ Len(SubSeq(t, 1, 4)) = 4
          /\ \A p \in 1..4 : SubSeq(t, 1, 4)[p] = t[p]
      BY <1>8, <3>2, SubSeqProperties
    <3> QED BY <3>1, <3>3
  <2>3. DOMAIN Front(t) = 1..4
    BY <2>2, LenProperties
  <2> QED BY <1>6, <1>8, <2>2, <2>3 DEF Whole
<1> QED BY <1>4, <1>5, <1>8, <1>9, <1>10, <1>11 DEF WholePieces, M, w

\* One row of them.
LEMMA FivePointsRow ==
  ASSUME NEW f \in Decorated, Kind[f] = "fivePoints", NEW what \in {"gradient", "jacobian"},
         NEW k, NEW n \in 1..Outputs[f], NEW row \in Nat,
         IF what = "jacobian" THEN row = n ELSE row = 1 /\ n = k
  PROVE  /\ FivePointsGradient(f, n, row) \in WholePieces(Meant(f, what, k))
         /\ \A j \in 1..Inputs[f] :
              Write(row, n, j, Epsilon \div 2) \in ToSet(FivePointsGradient(f, n, row))
<1> DEFINE M == Meant(f, what, k)
           m == Inputs[f]
           h == Epsilon \div 2
           ss == [j \in 1..m |-> Deriv(j, n, row, h) \o <<Again(j, n, row)>>]
<1>1. FivePointsGradient(f, n, row) = FlattenSeq(ss)
  BY DEF FivePointsGradient, ForEach
<1>2. h \in Steps(f) /\ m \in Nat
  BY Kinds DEF Steps, Decorated
<1> HIDE DEF h
<1>3. ASSUME NEW j \in 1..m
      PROVE  ss[j] \in WholePieces(M) /\ Write(row, n, j, h) \in ToSet(ss[j])
  <2> DEFINE d == Deriv(j, n, row, h)
             g == Again(j, n, row)
             a == <<g>>
  <2>1. d \in WholePieces(M) /\ Write(row, n, j, h) \in ToSet(d) /\ g \in M
    BY <1>2, FivePointsMeant
  <2>2. g.do = "again"
    BY DEF Again
  <2> HIDE DEF d, g, M
  <2>3. a \in Seq(M) /\ DOMAIN a = 1..1 /\ a[1] = g
    BY <2>1
  <2> HIDE DEF a
  <2>4. Whole(a)
    BY <2>2, <2>3 DEF Whole
  <2>5. d \in Seq(M) /\ Whole(d)
    BY <2>1 DEF WholePieces
  <2>6. d \o a \in Seq(M) /\ Whole(d \o a) /\ Write(row, n, j, h) \in ToSet(d \o a)
    BY <2>1, <2>3, <2>4, <2>5, WholeConcat, ConcatProperties, ConcatHas
  <2>7. ss[j] = d \o a
    BY DEF d, a, g
  <2> QED BY <2>6, <2>7 DEF WholePieces
<1>4. ss \in [1..m -> WholePieces(M)]
  BY <1>3
<1> HIDE DEF ss, M
<1>5. /\ FlattenSeq(ss) \in WholePieces(M)
      /\ \A j \in 1..m : Write(row, n, j, h) \in ToSet(FlattenSeq(ss))
  BY <1>2, <1>3, <1>4, WholePiecesFlatten
<1> QED BY <1>1, <1>5 DEF M, h

\* So do those of the five points.
LEMMA FivePointsBody ==
  ASSUME NEW f \in Decorated, Kind[f] = "fivePoints", NEW what \in {"gradient", "jacobian"},
         NEW k \in Numbers(f, what), NEW t, t = Body(f, what, k)
  PROVE  t \in Seq(Meant(f, what, k)) /\ Whole(t) /\ WritesAll(t, f, what)
<1> DEFINE M == Meant(f, what, k)
           m == Inputs[f]
           n == Outputs[f]
           h == Epsilon \div 2
<1>1. /\ f \in Functions /\ m \in Nat /\ n \in Nat /\ 1 \in Nat
      /\ f \notin Squares /\ f \notin Given
  BY Kinds DEF Decorated
<1>2. CASE what = "gradient"
  <2>1. t = FivePointsGradient(f, k, 1) /\ k \in 1..n
    BY <1>1, <1>2 DEF Body, Checks, Numbers
  <2>2. t \in WholePieces(M) /\ \A j \in 1..m : Write(1, k, j, h) \in ToSet(t)
    BY <1>1, <1>2, <2>1, FivePointsRow
  <2>3. WritesAll(t, f, what)
    <3> SUFFICES ASSUME NEW r \in 1..1, NEW j \in 1..m
                 PROVE  \E i \in ToSet(t) : i.do = "write" /\ i.row = r /\ i.j = j
      BY <1>2 DEF WritesAll, RowCount
    <3>1. Write(1, k, j, h) \in ToSet(t) /\ r = 1
      BY <2>2
    <3> QED BY <3>1 DEF Write
  <2> QED BY <2>2, <2>3 DEF WholePieces
<1>3. CASE what = "jacobian"
  <2> DEFINE ss == [r \in 1..n |-> FivePointsGradient(f, r, r)]
             q == FlattenSeq(ss)
             o == OnlyIfSparse(f, q)
  <2>1. t = o
    BY <1>3 DEF Body, FivePointsJacobian, ForEach, Checks
  <2>2. \A r \in 1..n : /\ ss[r] \in WholePieces(M)
                        /\ \A j \in 1..m : Write(r, r, j, h) \in ToSet(ss[r])
    <3>1. \A r \in 1..n : r \in Nat
      BY <1>1
    <3> QED BY <1>3, <3>1, FivePointsRow
  <2>3. ss \in [1..n -> WholePieces(M)]
    BY <2>2
  <2> HIDE DEF ss
  <2>4. /\ q \in WholePieces(M)
        /\ \A j \in 1..m, r \in 1..n : Write(r, r, j, h) \in ToSet(q)
    BY <1>1, <2>2, <2>3, WholePiecesFlatten
  <2> HIDE DEF q
  <2>5. q \in Seq(M) /\ Whole(q) /\ what \notin Unguarded
    BY <1>3, <2>4 DEF WholePieces, Unguarded
  <2>6. o \in Seq(M) /\ Whole(o) /\ \A e \in ToSet(q) : e \in ToSet(o)
    BY <1>1, <2>5, SiteMeant, SiteIsWhole
  <2> HIDE DEF o
  <2>7. WritesAll(t, f, what)
    <3> SUFFICES ASSUME NEW r \in 1..n, NEW j \in 1..m
                 PROVE  \E i \in ToSet(t) : i.do = "write" /\ i.row = r /\ i.j = j
      BY <1>3 DEF WritesAll, RowCount
    <3>1. Write(r, r, j, h) \in ToSet(t)
      BY <2>1, <2>4, <2>6
    <3> QED BY <3>1 DEF Write
  <2> QED BY <2>1, <2>6, <2>7
<1> QED BY <1>2, <1>3

\* The gradient of a sum of squares refreshes, then takes and adds up one
\* gradient after another.
LEMMA SquaresSteps ==
  ASSUME NEW f \in Squares, NEW k
  PROVE  LET t == SquaresGradient(f)
             m == Outputs[Adaptee[f]]
         IN /\ m \in Nat \ {0} /\ t \in Seq(Meant(f, "gradient", k)) /\ Len(t) = 2 * m + 1
            /\ t[1] = Do("refresh")
            /\ \A n \in 1..m :
                 /\ t[2 * n] = Eval(Adaptee[f], "gradient", n, <<"buffer", "gradient">>)
                 /\ t[2 * n + 1] = [do |-> "accumulate", k |-> n]
<1> DEFINE t == SquaresGradient(f)
           A == Adaptee[f]
           m == Outputs[A]
           M == Meant(f, "gradient", k)
           a == [n \in 1..m |-> Eval(A, "gradient", n, <<"buffer", "gradient">>)]
           b == [n \in 1..m |-> [do |-> "accumulate", k |-> n]]
           ss == [n \in 1..m |-> <<a[n], b[n]>>]
           p == <<Do("refresh")>>
           q == FlattenSeq(ss)
<1>1. /\ m \in Nat \ {0} /\ f \in Functions /\ A \in Functions /\ A \in Given
  BY FunctionsAssumption DEF Squares, Given
<1>2. ASSUME NEW n \in 1..m PROVE a[n] \in M
  <2> DEFINE i == Eval(A, "gradient", n, <<"buffer", "gradient">>)
  <2>1. Calls(f, "gradient", A, "gradient", <<"buffer", "gradient">>) /\ n \in Nat
    BY <1>1, CallsWithin
  <2>2. /\ i.of = A /\ i.what = "gradient" /\ i.k = n /\ i.into = <<"buffer", "gradient">>
    BY DEF Eval
  <2>3. n \in Numbers(A, "gradient")
    BY DEF Numbers
  <2>4. MeantEval(f, "gradient", k, i)
    <3> HIDE DEF i
    <3> QED BY <2>2, <2>3 DEF MeantEval
  <2>5. i \in M
    BY <1>1, <2>1, <2>4, SomePlaces, InstructionsMeant
  <2> QED BY <2>5
<1>3. ASSUME NEW n \in 1..m PROVE b[n] \in M
  <2>1. [do |-> "accumulate", k |-> n] \in StepsOf(f, "gradient")
    <3>1. n \in Nat
      BY <1>1
    <3> QED BY <1>1, <3>1, StepTypes DEF Others
  <2>2. [do |-> "accumulate", k |-> n] \in M
    BY <2>1, PlainMeant
  <2> QED BY <2>2
<1>4. Do("refresh") \in M
  <2>1. Do("refresh") \in StepsOf(f, "gradient")
    BY <1>1, StepTypes DEF Others
  <2> QED BY <2>1, PlainMeant DEF Do
<1>5. t = p \o q
  <2>1. ss = [n \in 1..m |-> <<Eval(A, "gradient", n, <<"buffer", "gradient">>),
                               [do |-> "accumulate", k |-> n]>>]
    OBVIOUS
  <2> HIDE DEF ss
  <2> QED BY <2>1 DEF SquaresGradient, ForEach
<1>6. /\ a \in [1..m -> M] /\ b \in [1..m -> M]
      /\ \A n \in 1..m : /\ a[n] = Eval(A, "gradient", n, <<"buffer", "gradient">>)
                         /\ b[n] = [do |-> "accumulate", k |-> n]
  BY <1>2, <1>3
<1> HIDE DEF a, b, M, t, m
<1>7. /\ Len(q) = 2 * m /\ q \in Seq(M)
      /\ \A n \in 1..m : q[2 * n - 1] = a[n] /\ q[2 * n] = b[n]
  <2>1. Pairs(ss, m, a, b)
    BY DEF Pairs
  <2>2. a \in [1..m -> M] /\ b \in [1..m -> M]
    BY <1>6
  <2> HIDE DEF ss
  <2>3. /\ Len(FlattenSeq(ss)) = 2 * m /\ FlattenSeq(ss) \in Seq(M)
        /\ \A n \in 1..m : FlattenSeq(ss)[2 * n - 1] = a[n] /\ FlattenSeq(ss)[2 * n] = b[n]
    <3>1. Len(FlattenSeq(ss)) = 2 * m /\ FlattenSeq(ss) \in Seq(M)
      BY <1>1, <2>1, <2>2, FlattenPairs
    <3>2. \A n \in 1..m : PairAt(FlattenSeq(ss), n, a[n], b[n])
      BY <1>1, <2>1, <2>2, FlattenPairs
    <3> QED BY <3>1, <3>2 DEF PairAt
  <2> QED BY <2>3
<1> HIDE DEF q
<1>8. p \in Seq(M) /\ Len(p) = 1 /\ p[1] = Do("refresh")
  BY <1>4
<1> HIDE DEF p
<1>9. /\ t \in Seq(M) /\ Len(t) = 2 * m + 1
      /\ \A i \in 1..2 * m + 1 : t[i] = IF i <= 1 THEN p[i] ELSE q[i - 1]
  <2>1. /\ p \o q \in Seq(M) /\ Len(p \o q) = Len(p) + Len(q)
        /\ \A i \in 1..Len(p) + Len(q) : (p \o q)[i] = IF i <= Len(p) THEN p[i] ELSE q[i - Len(p)]
    BY <1>7, <1>8, ConcatProperties
  <2>2. Len(p) + Len(q) = 2 * m + 1
    BY <1>1, <1>7, <1>8
  <2> QED BY <1>5, <1>8, <2>1, <2>2
<1>10. t[1] = Do("refresh")
  <2>1. 1 \in 1..2 * m + 1
    BY <1>1
  <2> QED BY <1>8, <1>9, <2>1
<1>11. ASSUME NEW n \in 1..m
       PROVE  t[2 * n] = a[n] /\ t[2 * n + 1] = b[n]
  <2>1. /\ 2 * n \in 1..2 * m + 1 /\ ~(2 * n <= 1)
        /\ 2 * n + 1 \in 1..2 * m + 1 /\ ~(2 * n + 1 <= 1) /\ 2 * n + 1 - 1 = 2 * n
    BY <1>1
  <2> QED BY <1>7, <1>9, <2>1
<1> QED BY <1>1, <1>6, <1>9, <1>10, <1>11 DEF t, m, M

\* The jacobian of a function, gradient by gradient.
LEMMA GradientsMeant ==
  ASSUME NEW f \in Functions \ Decorated, NEW k
  PROVE  /\ GradientsAsJacobian(f) \in Seq(Meant(f, "jacobian", k))
         /\ \A r \in 1..Outputs[f] :
              Eval(f, "gradient", r, <<"row", r>>) \in ToSet(GradientsAsJacobian(f))
<1> DEFINE M == Meant(f, "jacobian", k)
           n == Outputs[f]
           e(r) == Eval(f, "gradient", r, <<"row", r>>)
           ss == [r \in 1..n |-> <<e(r)>>]
           q == FlattenSeq(ss)
           o == OnlyIfSparse(f, <<>>)
<1>1. n \in Nat /\ "jacobian" \notin Unguarded
  BY Kinds DEF Unguarded
<1>2. ASSUME NEW r \in 1..n PROVE e(r) \in M
  <2> DEFINE i == e(r)
  <2>1. Calls(f, "jacobian", f, "gradient", <<"row", r>>) /\ r \in Nat
    BY CallsWithin
  <2>2. i.of = f /\ i.what = "gradient" /\ i.k = r /\ i.into = <<"row", r>>
    BY DEF Eval
  <2>3. r \in Numbers(f, "gradient")
    BY DEF Numbers
  <2>4. MeantEval(f, "jacobian", k, i)
    <3> HIDE DEF i
    <3> QED BY <2>2, <2>3 DEF MeantEval
  <2>5. <<"row", r>> \in Places
    BY <2>1, SomePlaces
  <2> QED BY <2>1, <2>4, <2>5, InstructionsMeant
<1>3. GradientsAsJacobian(f) = q \o o
  BY DEF GradientsAsJacobian, ForEach
<1> HIDE DEF e, M, n
<1>4. ASSUME NEW r \in 1..n PROVE ss[r] \in Seq(M) /\ e(r) \in ToSet(ss[r])
  <2>1. <<e(r)>> \in Seq(M) /\ e(r) \in ToSet(<<e(r)>>)
    BY <1>2, WrittenOut
  <2> QED BY <2>1
<1>5. ss \in [1..n -> Seq(M)]
  BY <1>4
<1> HIDE DEF ss
<1>6. ss \in Seq(Seq(M)) /\ Len(ss) = n
  BY <1>1, <1>5, SeqDef, LenProperties
<1>7. q \in Seq(M)
  <2>1. <<>> \in Seq(M) /\ \A a, b \in Seq(M) : a \o b \in Seq(M)
    BY ConcatProperties
  <2> QED BY <1>6, <2>1, FlattenClosed
<1>8. \A r \in 1..n : e(r) \in ToSet(q)
  BY <1>4, <1>6, FlattenHas
<1>9. o \in Seq(M)
  <2>1. <<>> \in Seq(M)
    OBVIOUS
  <2> QED BY <1>1, <2>1, SiteMeant DEF M
<1> HIDE DEF q, o
<1>10. q \o o \in Seq(M) /\ \A r \in 1..n : e(r) \in ToSet(q \o o)
  BY <1>7, <1>8, <1>9, ConcatProperties, ConcatHas
<1> QED BY <1>3, <1>10 DEF M, n, e

\* A function of the user computes.
LEMMA GivenBody ==
  ASSUME NEW f \in Given, NEW what \in {"value", "gradient", "hessian", "valueAt", "derivative"},
         what \in Members(f), NEW k \in Nat, NEW t, t = Body(f, what, k)
  PROVE  /\ t \in Seq(Meant(f, what, k))
         /\ \E i \in ToSet(t) : i.do = "compute"
<1> DEFINE S == StepsOf(f, what)
           c == Do("compute")
<1>1. /\ f \in Functions /\ f \notin Decorated /\ f \notin Squares
      /\ Kind[f] \notin {"simple", "fivePoints"} /\ what \notin Checks
  BY Kinds DEF Given, Checks
<1>2. t \in Seq(S)
  BY <1>1, BodyFits
<1>3. ASSUME NEW i \in S PROVE i \in Meant(f, what, k)
  <2>1. Fits(f, what, i)
    BY DEF StepsOf
  <2>2. Level(f, what) = 1
    BY <1>1 DEF Level
  <2>3. \A g, w, into : ~Calls(f, what, g, w, into)
    <3>1. \A g, w : Level(g, w) \in {1, 2, 3}
      BY DEF Level
    <3> QED BY <2>2, <3>1 DEF Calls
  <2>4. i.do \notin {"eval", "write", "again", "probe"}
    BY <1>1, <2>1, <2>3 DEF Fits
  <2> QED BY <2>4, PlainMeant
<1>4. t \in Seq(Meant(f, what, k))
  <2>1. PICK n \in Nat : t \in [1..n -> S]
    BY <1>2, SeqDef
  <2>2. t \in [1..n -> Meant(f, what, k)]
    BY <1>3, <2>1
  <2> QED BY <2>2, SeqDef
<1>5. c.do = "compute"
  BY DEF Do
<1>6. c \in ToSet(t)
  <2> DEFINE l == <<Do("allow"), Do("allocate"), Do("restore"), c>>
  <2>1. LocalDerivative = l
    BY FourSteps DEF LocalDerivative, AllowedIn
  <2>2. /\ DOMAIN l = 1..4 /\ l[4] = c /\ 4 \in 1..4
        /\ l \in Seq({Do("allow"), Do("allocate"), Do("restore"), c})
    OBVIOUS
  <2>3. c \in ToSet(l)
    <3> HIDE DEF l, c
    <3> QED BY <2>2 DEF ToSet
  <2>4. CASE what \in {"valueAt", "derivative"}
    <3>1. t = <<c>>
      BY <1>1, <2>4 DEF Body
    <3>2. c \in ToSet(<<c>>)
      <4> HIDE DEF c
      <4> QED BY WrittenOut
    <3> QED BY <3>1, <3>2
  <2>5. CASE what = "hessian"
    <3> DEFINE S2 == {Do("allow"), Do("allocate"), Do("restore"), Do("first output"), c}
               p == <<Do("first output")>>
    <3>1. t = p \o l
      BY <1>1, <2>1, <2>5 DEF Body, HessianOfFirst
    <3>2. p \in Seq(S2) /\ l \in Seq(S2)
      OBVIOUS
    <3> HIDE DEF p, l, S2
    <3> QED BY <2>3, <3>1, <3>2, ConcatHas
  <2>6. CASE what \in {"value", "gradient"}
    <3>1. t = <<c>> \/ t = l
      BY <1>1, <2>1, <2>6 DEF Body
    <3>2. c \in ToSet(<<c>>)
      <4> HIDE DEF c
      <4> QED BY WrittenOut
    <3> QED BY <2>3, <3>1, <3>2
  <2> QED BY <2>4, <2>5, <2>6
<1> QED BY <1>4, <1>5, <1>6

\* A check of a function: the four steps of a comparison.
LEMMA ComparisonMeant ==
  ASSUME NEW f \in Checked, NEW what \in Checks, NEW k \in Numbers(f, what)
  PROVE  LET t == Comparison(f, Shown(what), k)
         IN /\ Body(f, what, k) = t /\ t \in Seq(Meant(f, what, k)) /\ Len(t) = 4
            /\ t[1] = Do("allocate") /\ t[2] = Eval(f, Shown(what), k, <<"whole", 1>>)
            /\ t[3] = Eval(Checker[f], Shown(what), k, <<"whole", 2>>) /\ t[4] = Do("compare")
<1> DEFINE w == Shown(what)
           M == Meant(f, what, k)
           a == Do("allocate")
           b == Eval(f, w, k, <<"whole", 1>>)
           c == Eval(Checker[f], w, k, <<"whole", 2>>)
           d == Do("compare")
           t == Comparison(f, w, k)
<1>1. /\ f \in Functions /\ f \in Given /\ f \notin Decorated /\ Checker[f] \in Functions
      /\ Checker[f] \in Decorated /\ Outputs[Checker[f]] = Outputs[f]
      /\ w \in {"gradient", "jacobian"} /\ k \in Nat
  <2>1. f \in Functions /\ f \in Given /\ Checker[f] \in Decorated /\ Adaptee[Checker[f]] = f
    BY FunctionsAssumption, Kinds DEF Given
  <2>2. Outputs[Checker[f]] = Outputs[f] /\ Checker[f] \in Functions /\ f \notin Decorated
    BY <2>1, FunctionsAssumption DEF Decorated, Given
  <2>3. k \in Nat
    <3>1. Outputs[f] \in Nat
      BY <2>1, Kinds
    <3>2. k \in {0} \/ k \in 1..2 \/ k \in 1..Outputs[f]
      BY DEF Numbers
    <3> QED BY <3>1, <3>2
  <2> QED BY <2>1, <2>2, <2>3 DEF Shown
<1>2. Body(f, what, k) = t
  BY DEF Body, Shown, Checks
<1>3. t = <<a, b, c, d>>
  BY DEF Comparison
<1>4. a \in M /\ d \in M
  <2>1. a \in StepsOf(f, what) /\ d \in StepsOf(f, what)
    BY <1>1, StepTypes DEF Others
  <2> QED BY <2>1, PlainMeant DEF Do
<1>5. k \in Numbers(f, w) /\ k \in Numbers(Checker[f], w)
  BY <1>1 DEF Numbers, Shown, Checks
<1>6. b \in M
  <2>1. Calls(f, what, f, w, <<"whole", 1>>) /\ <<"whole", 1>> \in Places
    BY <1>1, CallsWithin, SomePlaces
  <2>2. MeantEval(f, what, k, b)
    BY <1>1, <1>5 DEF MeantEval, Eval
  <2> QED BY <1>1, <2>1, <2>2, InstructionsMeant
<1>7. c \in M
  <2>1. Calls(f, what, Checker[f], w, <<"whole", 2>>) /\ <<"whole", 2>> \in Places
    BY <1>1, CallsWithin, SomePlaces
  <2>2. MeantEval(f, what, k, c)
    BY <1>1, <1>5 DEF MeantEval, Eval
  <2> QED BY <1>1, <2>1, <2>2, InstructionsMeant
<1> HIDE DEF a, b, c, d, M, t
<1>8. <<a, b, c, d>> \in Seq(M) /\ Len(<<a, b, c, d>>) = 4
  BY <1>4, <1>6, <1>7
<1> QED BY <1>2, <1>3, <1>8 DEF a, b, c, d, M, t

\* A call begins with an answer of zeros, of the size it will have.
LEMMA ZeroMatrices ==
  ASSUME NEW m \in Nat, NEW n \in Nat
  PROVE  /\ Vec(ZeroMatrix(m, n), m)
         /\ \A i \in 1..m : /\ Vec(ZeroMatrix(m, n)[i], n)
                            /\ \A j \in 1..n : ZeroMatrix(m, n)[i][j] = 0
BY DEF Vec, ZeroMatrix

\* The calls of each member.
LEMMA Memberships ==
  ASSUME NEW f \in Functions, NEW what \in Members(f), NEW k \in Numbers(f, what)
  PROVE  /\ k \in Nat /\ Inputs[f] \in Nat /\ Outputs[f] \in Nat
         /\ what \in {"value", "gradient", "jacobian", "hessian", "valueAt", "derivative",
                      "check gradient", "check jacobian"}
         /\ what \in Checks => f \in Checked /\ f \in Given
         /\ what \in {"hessian", "valueAt", "derivative"} => f \in Given
         /\ what \in {"value", "jacobian"} => k = 0
         /\ what \in {"gradient", "hessian", "check gradient"} => k \in 1..Outputs[f]
         /\ f \in Given => f \notin Decorated /\ f \notin Squares
         /\ f \in Squares => f \notin Decorated /\ f \notin Given
         /\ f \in Decorated => f \notin Squares /\ f \notin Given
         /\ f \in Decorated \/ f \in Squares \/ f \in Given
<1>1. /\ Inputs[f] \in Nat /\ Outputs[f] \in Nat
      /\ f \in Given => f \notin Decorated /\ f \notin Squares
      /\ f \in Squares => f \notin Decorated /\ f \notin Given
      /\ f \in Decorated => f \notin Squares /\ f \notin Given
      /\ f \in Decorated \/ f \in Squares \/ f \in Given
      /\ f \in Checked => f \in Given
      /\ Kind[f] = "derivable" => f \in Given
  BY Kinds DEF Given
<1>2. what \in {"value", "gradient", "jacobian", "hessian", "valueAt", "derivative",
                "check gradient", "check jacobian"}
  BY DEF Members, Checks
<1>3. what \in Checks => f \in Checked
  BY DEF Members, Checks
<1>4. what \in {"hessian", "valueAt", "derivative"} => Kind[f] = "derivable"
  BY DEF Members, Checks
<1>5. /\ what \in {"value", "jacobian"} => k = 0
      /\ what \in {"gradient", "hessian", "check gradient"} => k \in 1..Outputs[f]
  BY DEF Numbers
<1>6. k \in Nat
  <2>1. k \in {0} \/ k \in 1..2 \/ k \in 1..Outputs[f]
    BY DEF Numbers
  <2> QED BY <1>1, <2>1
<1> QED BY <1>1, <1>2, <1>3, <1>4, <1>5, <1>6

\* A call that begins has everything still to come.
LEMMA FrameRight ==
  ASSUME NEW f \in Functions, NEW what \in Members(f), NEW k \in Numbers(f, what),
         NEW x \in [1..Inputs[f] -> Int], NEW into, NEW b
  PROVE  Right(Frame(f, what, k, x, into), b, Nobody)
<1> DEFINE fr == Frame(f, what, k, x, into)
<1>1. /\ fr.f = f /\ fr.what = what /\ fr.k = k /\ fr.x = x
      /\ fr.local = [s \in SampleNames |-> 0]
      /\ fr.out = ZeroAnswer(f, what) /\ fr.todo = Body(f, what, k)
  BY DEF Frame
<1> HIDE DEF fr
<1>2. /\ k \in Nat /\ Inputs[f] \in Nat /\ Outputs[f] \in Nat
      /\ what \in {"value", "gradient", "jacobian", "hessian", "valueAt", "derivative",
                   "check gradient", "check jacobian"}
      /\ what \in Checks => f \in Checked /\ f \in Given
      /\ what \in {"hessian", "valueAt", "derivative"} => f \in Given
      /\ what \in {"value", "jacobian"} => k = 0
      /\ what \in {"gradient", "hessian", "check gradient"} => k \in 1..Outputs[f]
      /\ f \in Given => f \notin Decorated /\ f \notin Squares
      /\ f \in Squares => f \notin Decorated /\ f \notin Given
      /\ f \in Decorated => f \notin Squares /\ f \notin Given
      /\ f \in Decorated \/ f \in Squares \/ f \in Given
  BY Memberships
<1> DEFINE M == Meant(f, what, k)
<1>3. Nobody.into = <<"user">> /\ Nobody.into[1] # "sample"
  BY DEF Nobody
<1>4. CASE what \in Checks
  <2>1. /\ fr.todo = Comparison(f, Shown(what), k) /\ fr.todo \in Seq(M) /\ Len(fr.todo) = 4
    <3>1. f \in Checked /\ what \in Checks /\ k \in Numbers(f, what)
      BY <1>2, <1>4
    <3> HIDE DEF M
    <3>2. LET t == Comparison(f, Shown(what), k)
          IN Body(f, what, k) = t /\ t \in Seq(Meant(f, what, k)) /\ Len(t) = 4
      BY <3>1, ComparisonMeant
    <3> QED BY <1>1, <3>2 DEF M
  <2>2. fr.out = << <<>>, <<>> >>
    BY <1>1, <1>4 DEF ZeroAnswer, Checks
  <2>3. Vec(fr.out, 2)
    BY <2>2 DEF Vec
  <2>4. Left(fr.todo, Comparison(f, Shown(what), k), 0)
    BY <2>1 DEF Left
  <2>5. WholesRight(fr, Nobody)
    <3>1. 0 \in 0..3 /\ \A c \in 1..2 : ~(0 > c)
      OBVIOUS
    <3> QED BY <1>1, <2>1, <2>3, <2>4, <3>1 DEF WholesRight
  <2>6. /\ ~Computing(f, what) /\ ~Forwarding(f, what) /\ ~Differencing(f, what)
        /\ what # "value" /\ what # "gradient"
    BY <1>2, <1>4 DEF Computing, Forwarding, Differencing, Checks
  <2> QED BY <1>1, <2>1, <2>5, <2>6 DEF Right, M, fr
<1>5. CASE Computing(f, what)
  <2>1. /\ fr.todo \in Seq(M) /\ \E i \in ToSet(fr.todo) : i.do = "compute"
    <3>1. f \in Given /\ what \in {"value", "gradient", "hessian", "valueAt", "derivative"} /\ k \in Nat
      BY <1>2, <1>5 DEF Computing
    <3>2. fr.todo = Body(f, what, k)
      BY <1>1
    <3> QED BY <3>1, <3>2, GivenBody
  <2>2. ~Forwarding(f, what) /\ ~Differencing(f, what) /\ what \notin Checks /\ f \notin Squares
    BY <1>2, <1>5 DEF Computing, Forwarding, Differencing, Checks
  <2> QED BY <1>1, <2>1, <2>2 DEF Right, ComputeRight, fr
<1>6. CASE Differencing(f, what)
  <2>1. what \in {"gradient", "jacobian"} /\ f \in Decorated
    BY <1>6 DEF Differencing
  <2>2. ~Forwarding(f, what) /\ ~Computing(f, what) /\ what \notin Checks /\ f \notin Squares
    BY <1>2, <2>1 DEF Computing, Forwarding, Checks
  <2>3. DOMAIN fr.local = SampleNames
    BY <1>1
  <2>4. Kind[f] # "simple" => Kind[f] = "fivePoints"
    BY <2>1 DEF Decorated
  <2>5. fr.todo \in Seq(M) /\ WritesAll(fr.todo, f, what)
    BY <1>1, <2>1, <2>4, SimpleBody, FivePointsBody
  <2>6. EntriesRight(fr)
    <3>1. fr.out = ZeroMatrix(RowCount(f, what), Inputs[f]) /\ RowCount(f, what) \in Nat
      BY <1>1, <1>2, <2>1 DEF ZeroAnswer, RowCount, Checks
    <3>2. /\ Vec(fr.out, RowCount(f, what))
          /\ \A r \in 1..RowCount(f, what) : Vec(fr.out[r], Inputs[f])
      BY <1>2, <3>1, ZeroMatrices
    <3> QED BY <1>1, <2>5, <3>2 DEF EntriesRight, WritesAll
  <2>7. CASE Kind[f] = "simple"
    <3>1. SimplyPrepared(fr.todo) /\ fr.todo # <<>> /\ fr.todo[1].do = "eval"
      BY <1>1, <2>1, <2>7, SimpleBody
    <3>2. SimplyReady(fr, b, Nobody)
      BY <3>1 DEF SimplyReady
    <3> QED BY <1>1, <2>2, <2>3, <2>5, <2>6, <2>7, <3>2 DEF Right, fr
  <2>8. CASE Kind[f] # "simple"
    <3>1. Whole(fr.todo)
      BY <1>1, <2>1, <2>4, <2>8, FivePointsBody
    <3>2. \A p \in DOMAIN fr.todo : p \in Nat
      BY <2>5, LenProperties
    <3>3. Ready(fr, Nobody)
      <4>1. Prepared(fr.todo)
        BY <3>1 DEF Whole, Prepared
      <4>2. ASSUME NEW p \in DOMAIN fr.todo, fr.todo[p].do = "write", NEW s \in 1..4
            PROVE  ~(p - (5 - s) < 1)
        BY <3>1, <3>2, <4>2 DEF Whole
      <4> QED BY <4>1, <4>2 DEF Ready
    <3> QED BY <1>1, <2>2, <2>3, <2>5, <2>6, <2>8, <3>3 DEF Right, fr
  <2> QED BY <2>7, <2>8
<1>7. CASE f \in Decorated /\ what = "value"
  <2> DEFINE i == Eval(Adaptee[f], "value", 0, <<"row", 1>>)
  <2>1. /\ ~Differencing(f, what) /\ ~Computing(f, what) /\ what \notin Checks /\ f \notin Squares
        /\ Forwarding(f, what)
    BY <1>2, <1>7 DEF Computing, Forwarding, Differencing, Checks
  <2>2. fr.todo = <<i>>
    BY <1>1, <1>2, <1>7 DEF Body, Checks
  <2>3. i.do = "eval" /\ i.into = <<"row", 1>> /\ i.of = Adaptee[f] /\ i.what = "value" /\ i.k = 0
    BY DEF Eval
  <2>4. i \in M
    <3>1. MeantEval(f, what, k, i)
      <4>1. Numbers(Adaptee[f], "value") = {0}
        BY DEF Numbers
      <4> HIDE DEF i
      <4> QED BY <1>7, <2>3, <4>1 DEF MeantEval
    <3>2. Calls(f, what, Adaptee[f], "value", <<"row", 1>>) /\ <<"row", 1>> \in Places
      BY <1>7, CallsWithin, SomePlaces
    <3> QED BY <3>1, <3>2, InstructionsMeant
  <2> HIDE DEF i, M
  <2>5. fr.todo \in Seq(M) /\ i \in ToSet(fr.todo)
    BY <2>2, <2>4, WrittenOut
  <2>6. fr.out = ZeroMatrix(1, Outputs[f]) /\ RowCount(f, what) = 1
    BY <1>1, <1>7 DEF ZeroAnswer, RowCount, Checks
  <2>7. Vec(fr.out, 1)
    BY <1>2, <2>6, ZeroMatrices
  <2>8. RowsRight(fr, b, Nobody)
    BY <1>1, <2>3, <2>5, <2>6, <2>7 DEF RowsRight, Awaited
  <2> QED BY <1>1, <2>1, <2>5, <2>8 DEF Right, M, fr
<1>8. CASE f \notin Decorated /\ what = "jacobian"
  <2>1. /\ ~Differencing(f, what) /\ ~Computing(f, what) /\ what \notin Checks
        /\ Forwarding(f, what)
    BY <1>8 DEF Computing, Forwarding, Differencing, Checks
  <2>2. fr.todo = GradientsAsJacobian(f)
    BY <1>1, <1>2, <1>8 DEF Body, Checks, Decorated
  <2>3. /\ fr.todo \in Seq(M)
        /\ \A r \in 1..Outputs[f] : Eval(f, "gradient", r, <<"row", r>>) \in ToSet(fr.todo)
    BY <1>8, <2>2, GradientsMeant
  <2>4. ASSUME NEW r \in 1..Outputs[f]
        PROVE  \E i \in ToSet(fr.todo) : i.do = "eval" /\ i.into = <<"row", r>>
    BY <2>3 DEF Eval
  <2>5. fr.out = ZeroMatrix(Outputs[f], Inputs[f]) /\ RowCount(f, what) = Outputs[f]
    BY <1>1, <1>8 DEF ZeroAnswer, RowCount, Checks
  <2>6. Vec(fr.out, Outputs[f])
    BY <1>2, <2>5, ZeroMatrices
  <2>7. RowsRight(fr, b, Nobody)
    BY <1>1, <2>4, <2>5, <2>6 DEF RowsRight, Awaited
  <2> QED BY <1>1, <1>8, <2>1, <2>3, <2>7 DEF Right, M, fr
<1>9. CASE f \in Squares /\ what = "value"
  <2>1. /\ ~Differencing(f, what) /\ ~Computing(f, what) /\ what \notin Checks
        /\ ~Forwarding(f, what)
    BY <1>2, <1>9 DEF Computing, Forwarding, Differencing, Checks
  <2>2. fr.todo = SquaresValue
    BY <1>1, <1>2, <1>9 DEF Body, Checks, Decorated, Squares
  <2>3. fr.todo \in Seq(M)
    <3>1. Do("refresh") \in StepsOf(f, what) /\ Do("square") \in StepsOf(f, what)
      BY <1>9, StepTypes DEF Others
    <3>2. Do("refresh") \in M /\ Do("square") \in M
      BY <3>1, PlainMeant DEF Do
    <3> HIDE DEF M
    <3> QED BY <2>2, <3>2, WrittenOut DEF SquaresValue
  <2>4. fr.out = ZeroMatrix(1, Outputs[f]) /\ Outputs[f] = 1
    BY <1>1, <1>9, FunctionsAssumption DEF ZeroAnswer, Checks
  <2>5. Vec(fr.out, 1) /\ Vec(fr.out[1], 1)
    <3>1. 1 \in Nat /\ 1 \in 1..1
      OBVIOUS
    <3>2. /\ Vec(ZeroMatrix(1, 1), 1)
          /\ \A i \in 1..1 : Vec(ZeroMatrix(1, 1)[i], 1)
      BY <3>1, ZeroMatrices
    <3>3. fr.out = ZeroMatrix(1, 1)
      BY <2>4
    <3> QED BY <3>1, <3>2, <3>3
  <2>6. ValueRight(fr, b, Nobody)
    BY <1>3, <2>2, <2>5 DEF ValueRight
  <2> QED BY <1>1, <1>9, <2>1, <2>3, <2>6 DEF Right, M, fr
<1>10. CASE f \in Squares /\ what = "gradient"
  <2> DEFINE m == Outputs[Adaptee[f]]
  <2>1. /\ ~Differencing(f, what) /\ ~Computing(f, what) /\ what \notin Checks
        /\ ~Forwarding(f, what)
    BY <1>2, <1>10 DEF Computing, Forwarding, Differencing, Checks
  <2>2. fr.todo = SquaresGradient(f)
    BY <1>1, <1>2, <1>10 DEF Body, Checks, Decorated, Squares
  <2>3. fr.todo \in Seq(M) /\ Len(fr.todo) = 2 * m + 1 /\ m \in Nat
    BY <1>10, <2>2, SquaresSteps
  <2>4. fr.out = ZeroMatrix(1, Inputs[f])
    BY <1>1, <1>10 DEF ZeroAnswer, Checks
  <2>5. /\ Vec(fr.out, 1) /\ Vec(fr.out[1], Inputs[f])
        /\ \A j \in 1..Inputs[f] : fr.out[1][j] = 0
    <3>1. 1 \in Nat /\ 1 \in 1..1 /\ Inputs[f] \in Nat
      <4>1. Inputs[f] \in Nat
        BY <1>2
      <4> QED BY <4>1
    <3>2. /\ Vec(ZeroMatrix(1, Inputs[f]), 1)
          /\ \A i \in 1..1 : /\ Vec(ZeroMatrix(1, Inputs[f])[i], Inputs[f])
                              /\ \A j \in 1..Inputs[f] : ZeroMatrix(1, Inputs[f])[i][j] = 0
      BY <3>1, ZeroMatrices
    <3> QED BY <2>4, <3>1, <3>2
  <2>6. \A j : Partly(fr, 0, j) = 0
    <3> TAKE j
    <3> DEFINE s == [q \in 1..0 |-> Term(fr, q, j)]
    <3>1. s = [q \in 1..0 |-> s[q]]
      OBVIOUS
    <3> HIDE DEF s
    <3>2. Total(s) = 0
      BY <3>1, TotalOfNone
    <3> QED BY <3>2 DEF Partly, s
  <2>7. SummedUp(fr, b, Nobody, 0, 0)
    BY <1>1, <1>3, <2>5, <2>6 DEF SummedUp
  <2>8. SumRight(fr, b, Nobody)
    <3>1. Left(fr.todo, SquaresGradient(f), 0)
      BY <2>2, <2>3 DEF Left
    <3>2. 0 \in 0..2 * m + 1 /\ 0 \in 0..m
      BY <2>3
    <3> HIDE DEF m
    <3> QED BY <1>1, <2>5, <2>7, <3>1, <3>2 DEF SumRight, m
  <2> QED BY <1>1, <1>10, <2>1, <2>3, <2>8 DEF Right, M, fr
<1> QED
  BY <1>2, <1>4, <1>5, <1>6, <1>7, <1>8, <1>9, <1>10 DEF Computing, Differencing, Checks

(***************************************************************************)
(* One call and the steps it does: what is right of it stays right.        *)
(***************************************************************************)

\* What is left of the steps of a call after the first of them.
LEMMA TailOfSteps ==
  ASSUME NEW S, NEW t \in Seq(S), t # <<>>
  PROVE  /\ Tail(t) \in Seq(S) /\ Len(t) \in Nat /\ Len(t) > 0 /\ Len(Tail(t)) = Len(t) - 1
         /\ DOMAIN t = 1..Len(t) /\ DOMAIN Tail(t) = 1..Len(t) - 1
         /\ Head(t) = t[1] /\ Head(t) \in S /\ Head(t) \in ToSet(t)
         /\ \A p \in 1..Len(t) - 1 : Tail(t)[p] = t[p + 1]
         /\ \A e \in ToSet(t) : e = Head(t) \/ e \in ToSet(Tail(t))
         /\ ToSet(Tail(t)) \subseteq ToSet(t)
<1>1. /\ Tail(t) \in Seq(S) /\ Len(t) \in Nat /\ Len(t) > 0 /\ Len(Tail(t)) = Len(t) - 1
      /\ DOMAIN t = 1..Len(t) /\ DOMAIN Tail(t) = 1..Len(t) - 1
      /\ Head(t) = t[1] /\ Head(t) \in S
      /\ \A p \in 1..Len(t) - 1 : Tail(t)[p] = t[p + 1]
  OBVIOUS
<1>2. ASSUME NEW e \in ToSet(t)
      PROVE  e = Head(t) \/ e \in ToSet(Tail(t))
  <2>1. PICK p \in 1..Len(t) : e = t[p]
    BY <1>1 DEF ToSet
  <2>2. CASE p = 1
    BY <1>1, <2>1, <2>2
  <2>3. CASE p # 1
    <3>1. p - 1 \in 1..Len(t) - 1 /\ (p - 1) + 1 = p
      BY <1>1, <2>3
    <3>2. Tail(t)[p - 1] = e
      BY <1>1, <2>1, <3>1
    <3> QED BY <1>1, <3>1, <3>2 DEF ToSet
  <2> QED BY <2>2, <2>3
<1>3. ASSUME NEW e \in ToSet(Tail(t))
      PROVE  e \in ToSet(t)
  <2>1. PICK p \in 1..Len(t) - 1 : e = Tail(t)[p]
    BY <1>1, <1>3 DEF ToSet
  <2>2. p + 1 \in 1..Len(t) /\ e = t[p + 1]
    BY <1>1, <2>1
  <2> QED BY <1>1, <2>2 DEF ToSet
<1>4. Head(t) \in ToSet(t)
  <2>1. 1 \in DOMAIN t /\ Head(t) = t[1]
    BY <1>1
  <2> QED BY <2>1 DEF ToSet
<1> QED BY <1>1, <1>2, <1>3, <1>4

\* What is prepared stays so when the first step is done.
LEMMA PreparedTails ==
  ASSUME NEW S, NEW t \in Seq(S), t # <<>>
  PROVE  /\ SimplyPrepared(t) =>
              /\ SimplyPrepared(Tail(t))
              /\ Tail(t) # <<>> =>
                   /\ Tail(t)[1].do # "eval"
                   /\ Tail(t)[1].do = "write" =>
                        Head(t).do \in {"probe", "write"} /\ Head(t).j = Tail(t)[1].j
         /\ Prepared(t) => Prepared(Tail(t))
<1>1. /\ Tail(t) \in Seq(S) /\ Len(t) \in Nat /\ Len(t) > 0
      /\ DOMAIN t = 1..Len(t) /\ DOMAIN Tail(t) = 1..Len(t) - 1
      /\ Head(t) = t[1]
      /\ \A p \in 1..Len(t) - 1 : Tail(t)[p] = t[p + 1]
  BY TailOfSteps
<1> DEFINE u == Tail(t)
<1>2. \A p \in DOMAIN u : p + 1 \in DOMAIN t /\ p \in Nat /\ p > 0 /\ u[p] = t[p + 1]
  BY <1>1
<1> HIDE DEF u
<1>3. ASSUME SimplyPrepared(t)
      PROVE  SimplyPrepared(u)
  <2>1. ASSUME NEW p \in DOMAIN u, p > 1
        PROVE  /\ u[p].do # "eval"
               /\ u[p].do = "write" => u[p - 1].do \in {"probe", "write"} /\ u[p - 1].j = u[p].j
    <3>1. /\ p + 1 \in DOMAIN t /\ p + 1 > 1 /\ u[p] = t[p + 1] /\ (p + 1) - 1 = p
      BY <1>2, <2>1
    <3>2. p - 1 \in DOMAIN u
      BY <1>1, <2>1 DEF u
    <3>3. u[p - 1] = t[(p - 1) + 1] /\ (p - 1) + 1 = p
      BY <1>2, <3>2
    <3> QED BY <1>3, <3>1, <3>3 DEF SimplyPrepared
  <2> QED BY <2>1 DEF SimplyPrepared
<1>4. ASSUME SimplyPrepared(t), u # <<>>
      PROVE  /\ u[1].do # "eval"
             /\ u[1].do = "write" => Head(t).do \in {"probe", "write"} /\ Head(t).j = u[1].j
  <2>1. 1 \in DOMAIN u
    BY <1>1, <1>4 DEF u
  <2>2. 2 \in DOMAIN t /\ u[1] = t[2] /\ 2 > 1 /\ 2 - 1 = 1
    BY <1>2, <2>1
  <2> QED BY ZenonT(60), <1>1, <1>4, <2>2 DEF SimplyPrepared
<1>5. ASSUME Prepared(t)
      PROVE  Prepared(u)
  <2>1. ASSUME NEW p \in DOMAIN u, u[p].do = "write", NEW s \in 1..4, p - (5 - s) >= 1
        PROVE  u[p - (5 - s)] = Before(u[p], s)
    <3>1. /\ p + 1 \in DOMAIN t /\ u[p] = t[p + 1] /\ (p + 1) - (5 - s) >= 1
      BY <1>2, <2>1
    <3>2. t[(p + 1) - (5 - s)] = Before(t[p + 1], s)
      BY <1>5, <2>1, <3>1 DEF Prepared
    <3>3. p - (5 - s) \in DOMAIN u
      BY <1>1, <2>1 DEF u
    <3>4. u[p - (5 - s)] = t[(p - (5 - s)) + 1]
      BY <1>2, <3>3
    <3>5. (p - (5 - s)) + 1 = (p + 1) - (5 - s)
      BY <1>1, <2>1
    <3> QED BY <3>1, <3>2, <3>4, <3>5
  <2> QED BY <2>1 DEF Prepared
<1> QED BY <1>3, <1>4, <1>5 DEF u

\* The same call, its first step done.
Follows(e, fr) ==
  /\ e.f = fr.f /\ e.what = fr.what /\ e.k = fr.k /\ e.x = fr.x
  /\ e.todo = Tail(fr.todo)

\* What the steps still to be made of a five points rule need.
LEMMA ReadyFollows ==
  ASSUME NEW S, NEW fr, fr.todo \in Seq(S), fr.todo # <<>>, Ready(fr, Nobody),
         NEW e, Follows(e, fr), e.local = fr.local
  PROVE  /\ Head(fr.todo).do # "probe" => Ready(e, Nobody)
         /\ \A above :
              LET i == Head(fr.todo)
              IN /\ i.do = "probe" /\ above.into = i.into /\ above.x = Moved(fr.x, i.j, i.d)
                 => Ready(e, above)
<1> DEFINE t == fr.todo
           u == Tail(t)
           i == Head(t)
<1>1. /\ u \in Seq(S) /\ Len(t) \in Nat /\ Len(t) > 0
      /\ DOMAIN t = 1..Len(t) /\ DOMAIN u = 1..Len(t) - 1
      /\ i = t[1]
      /\ \A p \in 1..Len(t) - 1 : u[p] = t[p + 1]
  BY TailOfSteps
<1>2. \A p \in DOMAIN u : p + 1 \in DOMAIN t /\ p \in Nat /\ p > 0 /\ u[p] = t[p + 1]
  BY <1>1
<1>3. Prepared(u) /\ Prepared(t)
  BY PreparedTails DEF Ready
<1>4. e.todo = u /\ e.f = fr.f /\ e.x = fr.x
  BY DEF Follows
<1>5. Nobody.into[1] # "sample"
  BY DEF Nobody
<1> HIDE DEF u, t, i
<1>6. ASSUME NEW p \in DOMAIN u, u[p].do = "write", NEW s \in 1..4, p - (5 - s) < 0
      PROVE  SampleRight(e, u[p], s)
  <2>1. /\ p + 1 \in DOMAIN t /\ u[p] = t[p + 1] /\ (p + 1) - (5 - s) < 1
    BY <1>2, <1>6
  <2>2. SampleRight(fr, t[p + 1], s)
    BY <1>5, <1>6, <2>1 DEF Ready, t
  <2> QED BY <1>4, <2>1, <2>2 DEF SampleRight, SampleAt
<1>7. ASSUME NEW p \in DOMAIN u, u[p].do = "write", NEW s \in 1..4, p - (5 - s) = 0
      PROVE  i = Before(u[p], s)
  <2>1. /\ p + 1 \in DOMAIN t /\ u[p] = t[p + 1] /\ (p + 1) - (5 - s) = 1 /\ 1 >= 1
    BY <1>2, <1>7
  <2>2. t[(p + 1) - (5 - s)] = Before(t[p + 1], s)
    BY <1>3, <1>7, <2>1 DEF Prepared
  <2> QED BY <1>1, <2>1, <2>2
<1>8. \A p \in DOMAIN u, s \in 1..4 : p - (5 - s) < 1 => p - (5 - s) < 0 \/ p - (5 - s) = 0
  BY <1>2
<1>9. ASSUME i.do # "probe"
      PROVE  Ready(e, Nobody)
  <2>1. ASSUME NEW p \in DOMAIN u, u[p].do = "write", NEW s \in 1..4, p - (5 - s) < 1
        PROVE  SampleRight(e, u[p], s)
    <3>1. i # Before(u[p], s)
      BY <1>9 DEF Before, Probe
    <3> QED BY <1>6, <1>7, <1>8, <2>1, <3>1
  <2> QED BY <1>3, <1>4, <1>5, <2>1 DEF Ready
<1>10. ASSUME NEW above, i.do = "probe", above.into = i.into, above.x = Moved(fr.x, i.j, i.d)
       PROVE  Ready(e, above)
  <2>1. ASSUME NEW p \in DOMAIN u, u[p].do = "write", NEW s \in 1..4, p - (5 - s) = 0
        PROVE  above.into[1] = "sample" /\ SampleComes(e, above, u[p], s)
    <3>1. i = Before(u[p], s)
      BY <1>7, <2>1
    <3>2. i.into = Sample(Name(s), u[p].k) /\ i.j = u[p].j /\ i.d = Shift(s, u[p].h)
      BY <3>1 DEF Before, Probe
    <3> QED BY <1>4, <1>10, <3>2 DEF SampleComes, Sample
  <2>2. ASSUME NEW p \in DOMAIN u, u[p].do = "write", NEW s \in 1..4, p - (5 - s) < 1
        PROVE  IF p - (5 - s) = 0 /\ above.into[1] = "sample"
               THEN SampleComes(e, above, u[p], s) ELSE SampleRight(e, u[p], s)
    <3>1. CASE p - (5 - s) = 0
      BY <2>1, <2>2, <3>1
    <3>2. CASE p - (5 - s) # 0
      BY <1>6, <1>8, <2>2, <3>2
    <3> QED BY <3>1, <3>2
  <2> QED BY <1>3, <1>4, <2>2 DEF Ready
<1> QED BY <1>9, <1>10 DEF i, t

\* The same call, gone on by an answer to it.
Resumes(e, fr) ==
  /\ e.f = fr.f /\ e.what = fr.what /\ e.k = fr.k /\ e.x = fr.x /\ e.todo = fr.todo

\* The innermost call awaits nothing from above.
LEMMA NobodyAbove ==
  /\ Nobody.into = <<"user">> /\ Nobody.into[1] = "user"
  /\ \A a, b : Nobody.into # <<a, b>>
<1>1. Nobody.into = <<"user">>
  BY DEF Nobody
<1>2. \A a, b : <<"user">> # <<a, b>>
  <2>1. Len(<<"user">>) = 1 /\ \A a, b : Len(<<a, b>>) = 2
    OBVIOUS
  <2> QED BY <2>1
<1> QED BY <1>1, <1>2

\* A sample arrives: the others that a write needs are of other names.
LEMMA SampleReturns ==
  ASSUME NEW S, NEW fr, fr.todo \in Seq(S), NEW above, Ready(fr, above),
         above.into[1] = "sample", DOMAIN fr.local = SampleNames,
         NEW e, Resumes(e, fr),
         e.local = [fr.local EXCEPT ![above.into[2]] =
                      Exact(Adaptee[fr.f], above.x)[above.into[3]]]
  PROVE  Ready(e, Nobody) /\ DOMAIN e.local = SampleNames
<1> DEFINE t == fr.todo
<1>1. /\ Len(t) \in Nat /\ DOMAIN t = 1..Len(t)
      /\ e.todo = t /\ e.f = fr.f /\ e.x = fr.x
  BY DEF Resumes
<1>2. \A p \in DOMAIN t : p \in Nat /\ p > 0
  BY <1>1
<1>3. Prepared(t)
  BY DEF Ready
<1> HIDE DEF t
<1>4. ASSUME NEW p \in DOMAIN t, t[p].do = "write", NEW s \in 1..4, p - (5 - s) = 0
      PROVE  above.into = Sample(Name(s), t[p].k) /\ above.x = Moved(fr.x, t[p].j, Shift(s, t[p].h))
  BY <1>2, <1>4 DEF Ready, SampleComes, t
<1>5. \A s \in 1..4 : Name(s) \in SampleNames
  BY DEF Name, SampleNames
<1>6. \A s, r \in 1..4 : s # r => Name(s) # Name(r)
  BY DEF Name
<1>7. ASSUME NEW p \in DOMAIN t, t[p].do = "write", NEW s \in 1..4, p - (5 - s) < 1
      PROVE  SampleRight(e, t[p], s)
  <2>1. CASE p - (5 - s) = 0
    <3>1. /\ above.into[2] = Name(s) /\ above.into[3] = t[p].k
          /\ above.x = Moved(fr.x, t[p].j, Shift(s, t[p].h))
      BY SMTT(30), <1>4, <1>7, <2>1 DEF Sample
    <3>2. e.local[Name(s)] = Exact(Adaptee[fr.f], Moved(fr.x, t[p].j, Shift(s, t[p].h)))[t[p].k]
      BY <1>5, <3>1
    <3> QED BY <1>1, <3>2 DEF SampleRight, SampleAt
  <2>2. CASE p - (5 - s) # 0
    <3>1. SampleRight(fr, t[p], s)
      BY <1>7, <2>2 DEF Ready, t
    <3>2. PICK r \in 1..4 : r # s /\ p - (5 - r) = 0
      <4>1. p \in Nat /\ p > 0 /\ p < 5 /\ p # 5 - s
        BY <1>2, <1>7, <2>2
      <4>2. 5 - p \in 1..4 /\ 5 - p # s /\ p - (5 - (5 - p)) = 0
        BY <4>1
      <4> QED BY <4>2
    <3>3. above.into[2] = Name(r)
      BY SMTT(30), <1>4, <1>7, <3>2 DEF Sample
    <3>4. e.local[Name(s)] = fr.local[Name(s)]
      BY <1>5, <1>6, <3>2, <3>3
    <3> QED BY <1>1, <3>1, <3>4 DEF SampleRight, SampleAt
  <2> QED BY <2>1, <2>2
<1> QED BY <1>1, <1>3, <1>7, NobodyAbove DEF Ready

\* The forward differences go on, call, and resume.
LEMMA SimplyFollows ==
  ASSUME NEW S, NEW fr, fr.todo \in Seq(S), fr.todo # <<>>, NEW b, SimplyReady(fr, b, Nobody),
         NEW e, Follows(e, fr)
  PROVE  LET i == Head(fr.todo)
         IN /\ i.do \notin {"eval", "probe"} => SimplyReady(e, b, Nobody)
            /\ \A above : /\ i.do = "eval" /\ above.into = <<"buffer", "result">>
                          => SimplyReady(e, b, above)
            /\ \A above, c :
                 /\ i.do = "probe" /\ above.into = <<"buffer", "resultEps">>
                 /\ above.x = Moved(fr.x, i.j, Epsilon) /\ c[fr.f].result = b[fr.f].result
                 => SimplyReady(e, c, above)
<1> DEFINE t == fr.todo
           u == Tail(t)
           i == Head(t)
<1>1. /\ u \in Seq(S) /\ i = t[1] /\ SimplyPrepared(u)
      /\ u # <<>> => /\ u[1].do # "eval"
                     /\ u[1].do = "write" => i.do \in {"probe", "write"} /\ i.j = u[1].j
  BY TailOfSteps, PreparedTails DEF SimplyReady
<1>2. e.todo = u /\ e.f = fr.f /\ e.x = fr.x
  BY DEF Follows
<1>3. i.do = "eval" \/ b[fr.f].result = Exact(Adaptee[fr.f], fr.x)
  BY <1>1, NobodyAbove DEF SimplyReady
<1>4. i.do = "write" => b[fr.f].resultEps = SampleAt(fr, i.j, Epsilon)
  BY <1>1, NobodyAbove DEF SimplyReady
<1> HIDE DEF u, i
<1>5. i.do \notin {"eval", "probe"} => SimplyReady(e, b, Nobody)
  <2>1. ASSUME i.do \notin {"eval", "probe"}, u # <<>>, u[1].do = "write"
        PROVE  b[e.f].resultEps = SampleAt(e, e.todo[1].j, Epsilon)
    BY <1>1, <1>2, <1>4, <2>1 DEF SampleAt
  <2> QED BY <1>1, <1>2, <1>3, <2>1, NobodyAbove DEF SimplyReady
<1>6. ASSUME NEW above, i.do = "eval", above.into = <<"buffer", "result">>
      PROVE  SimplyReady(e, b, above)
  BY <1>1, <1>2, <1>6 DEF SimplyReady
<1>7. ASSUME NEW above, NEW c, i.do = "probe", above.into = <<"buffer", "resultEps">>,
             above.x = Moved(fr.x, i.j, Epsilon), c[fr.f].result = b[fr.f].result
      PROVE  SimplyReady(e, c, above)
  BY <1>1, <1>2, <1>3, <1>7 DEF SimplyReady
<1> QED BY <1>5, <1>6, <1>7 DEF i, t

\* A simple call is ready again once a sample it waited for is in its buffer.
LEMMA SimplyResumes ==
  ASSUME NEW fr, NEW b, NEW above, SimplyReady(fr, b, above), NEW e, Resumes(e, fr), NEW c
  PROVE  /\ /\ above.into = <<"buffer", "result">>
            /\ c[fr.f].result = Exact(Adaptee[fr.f], fr.x)
            /\ c[fr.f].resultEps = b[fr.f].resultEps
            => SimplyReady(e, c, Nobody)
         /\ /\ above.into = <<"buffer", "resultEps">>
            /\ c[fr.f].result = b[fr.f].result
            /\ c[fr.f].resultEps = Exact(Adaptee[fr.f], above.x)
            => SimplyReady(e, c, Nobody)
<1>1. e.todo = fr.todo /\ e.f = fr.f /\ e.x = fr.x
  BY DEF Resumes
<1>2. "result" # "resultEps" /\ <<"buffer", "result">> # <<"buffer", "resultEps">>
  OBVIOUS
<1>3. ASSUME above.into = <<"buffer", "result">>, c[fr.f].result = Exact(Adaptee[fr.f], fr.x),
             c[fr.f].resultEps = b[fr.f].resultEps
      PROVE  SimplyReady(e, c, Nobody)
  BY <1>1, <1>2, <1>3, NobodyAbove DEF SimplyReady, SampleAt
<1>4. ASSUME above.into = <<"buffer", "resultEps">>, c[fr.f].result = b[fr.f].result,
             c[fr.f].resultEps = Exact(Adaptee[fr.f], above.x)
      PROVE  SimplyReady(e, c, Nobody)
  BY <1>1, <1>2, <1>4, NobodyAbove DEF SimplyReady, SampleAt
<1> QED BY <1>3, <1>4

\* An answer with an entry written.
Written(out, i, v) == [out EXCEPT ![i.row][i.j] = v]

\* The entries that are written, and those still to be.
LEMMA EntriesFollow ==
  ASSUME NEW S, NEW fr, fr.todo \in Seq(S), fr.todo # <<>>, EntriesRight(fr),
         NEW e, Follows(e, fr)
  PROVE  LET i == Head(fr.todo)
         IN /\ i.do # "write" /\ e.out = fr.out => EntriesRight(e)
            /\ \A v : /\ i.do = "write" /\ i.row \in 1..RowCount(fr.f, fr.what)
                      /\ i.j \in 1..Inputs[fr.f] /\ v = Ref(fr)[i.row][i.j]
                      /\ e.out = Written(fr.out, i, v)
                      => EntriesRight(e)
<1> DEFINE i == Head(fr.todo)
           R == 1..RowCount(fr.f, fr.what)
           J == 1..Inputs[fr.f]
<1>1. /\ e.f = fr.f /\ e.what = fr.what /\ e.todo = Tail(fr.todo) /\ Ref(e) = Ref(fr)
  BY DEF Follows, Ref
<1>2. \A a \in ToSet(fr.todo) : a = i \/ a \in ToSet(e.todo)
  BY <1>1, TailOfSteps
<1> HIDE DEF i
<1>3. /\ Vec(fr.out, RowCount(fr.f, fr.what)) /\ DOMAIN fr.out = R
      /\ \A r \in R : Vec(fr.out[r], Inputs[fr.f]) /\ DOMAIN fr.out[r] = J
  <2>1. Vec(fr.out, RowCount(fr.f, fr.what)) /\ \A r \in R : Vec(fr.out[r], Inputs[fr.f])
    BY DEF EntriesRight
  <2> QED BY <2>1 DEF Vec
<1>4. \A r \in R, j \in J :
        \/ fr.out[r][j] = Ref(fr)[r][j]
        \/ \E a \in ToSet(fr.todo) : a.do = "write" /\ a.row = r /\ a.j = j
  BY DEF EntriesRight
<1>5. ASSUME i.do # "write", e.out = fr.out
      PROVE  EntriesRight(e)
  BY <1>1, <1>2, <1>3, <1>4, <1>5 DEF EntriesRight
<1>6. ASSUME NEW v, i.do = "write", i.row \in R, i.j \in J, v = Ref(fr)[i.row][i.j],
             e.out = Written(fr.out, i, v)
      PROVE  EntriesRight(e)
  <2>1. /\ DOMAIN e.out = R /\ Vec(e.out, RowCount(fr.f, fr.what))
        /\ e.out[i.row] = [fr.out[i.row] EXCEPT ![i.j] = v]
        /\ \A r \in R : r # i.row => e.out[r] = fr.out[r]
    BY <1>3, <1>6 DEF Vec, Written
  <2>2. \A r \in R : Vec(e.out[r], Inputs[fr.f])
    <3>1. DOMAIN e.out[i.row] = J
      BY <1>3, <1>6, <2>1
    <3>2. Vec(e.out[i.row], Inputs[fr.f])
      <4>1. e.out[i.row] = [j \in J |-> e.out[i.row][j]]
        BY <2>1, <3>1
      <4> QED BY <4>1 DEF Vec
    <3> QED BY <1>3, <2>1, <3>2
  <2>3. /\ e.out[i.row][i.j] = v
        /\ \A j \in J : j # i.j => e.out[i.row][j] = fr.out[i.row][j]
    <3> DEFINE c == e.out[i.row]
               d == fr.out[i.row]
    <3>1. c = [d EXCEPT ![i.j] = v] /\ DOMAIN d = J /\ i.j \in J
      BY <1>3, <1>6, <2>1
    <3> HIDE DEF c, d
    <3>2. c[i.j] = v /\ \A j \in J : j # i.j => c[j] = d[j]
      BY <3>1
    <3> QED BY <3>2 DEF c, d
  <2>4. \A r \in R, j \in J :
          \/ e.out[r][j] = Ref(fr)[r][j]
          \/ \E a \in ToSet(e.todo) : a.do = "write" /\ a.row = r /\ a.j = j
    <3> SUFFICES ASSUME NEW r \in R, NEW j \in J, ~(r = i.row /\ j = i.j)
                 PROVE  \/ e.out[r][j] = Ref(fr)[r][j]
                        \/ \E a \in ToSet(e.todo) : a.do = "write" /\ a.row = r /\ a.j = j
      BY <1>6, <2>3
    <3>1. e.out[r][j] = fr.out[r][j]
      BY <2>1, <2>3
    <3> QED BY <1>2, <1>4, <3>1
  <2> QED BY <1>1, <2>1, <2>2, <2>4 DEF EntriesRight
<1> QED BY <1>5, <1>6 DEF i

\* Entries depend on the answer and on the writes left only.
LEMMA EntriesResume ==
  ASSUME NEW fr, EntriesRight(fr), NEW e, Resumes(e, fr), e.out = fr.out
  PROVE  EntriesRight(e)
BY DEF EntriesRight, Resumes, Ref

\* What an entry is to be.
LEMMA ReferenceEntries ==
  ASSUME NEW f \in Decorated, NEW what \in {"gradient", "jacobian"}, NEW k, NEW x, NEW i,
         MeantEntry(f, what, k, i)
  PROVE  /\ i.row \in 1..RowCount(f, what)
         /\ Reference(f, what, k, x)[i.row][i.j] = ExactRow(Adaptee[f], i.k, x)[i.j]
<1>1. f \notin Squares /\ f \notin Given /\ f \in Functions /\ 1 \in 1..1
  BY Kinds DEF Decorated, Given
<1>2. CASE what = "gradient"
  <2>1. i.row = 1 /\ i.k = k
    BY <1>2 DEF MeantEntry
  <2>2. Reference(f, what, k, x) = <<ExactRow(Adaptee[f], k, x)>>
    BY <1>1, <1>2 DEF Reference
  <2> QED BY <1>1, <1>2, <2>1, <2>2 DEF RowCount
<1>3. CASE what = "jacobian"
  <2>1. i.row = i.k /\ i.k \in 1..Outputs[f]
    BY <1>3 DEF MeantEntry
  <2>2. Reference(f, what, k, x) = [r \in 1..Outputs[f] |-> ExactRow(Adaptee[f], r, x)]
    BY <1>1, <1>3 DEF Reference
  <2> QED BY <1>3, <2>1, <2>2 DEF RowCount
<1> QED BY <1>2, <1>3

\* A call is of one of these sorts.
Summing(f, what) == f \in Squares /\ what \in {"value", "gradient"}

\* The member and the kind of its function tell what sort of call it is.
LEMMA Sorts ==
  ASSUME NEW f \in Functions, NEW what \in Members(f)
  PROVE  /\ \/ Computing(f, what) \/ Forwarding(f, what) \/ what \in Checks
            \/ Differencing(f, what) \/ Summing(f, what)
         /\ Computing(f, what) =>
              ~Forwarding(f, what) /\ what \notin Checks /\ ~Differencing(f, what)
                /\ f \notin Squares
         /\ Forwarding(f, what) =>
              what \notin Checks /\ ~Differencing(f, what) /\ ~Summing(f, what)
         /\ what \in Checks => f \in Checked /\ ~Differencing(f, what) /\ f \notin Squares
         /\ Differencing(f, what) => f \notin Squares
<1>1. /\ f \in Given => f \notin Decorated /\ f \notin Squares
      /\ f \in Squares => f \notin Decorated /\ f \notin Given
      /\ f \in Decorated => f \notin Squares /\ f \notin Given
      /\ f \in Decorated \/ f \in Squares \/ f \in Given
      /\ f \in Checked => f \in Given
      /\ Kind[f] = "derivable" => f \in Given
  BY Kinds DEF Given
<1>2. /\ what \in {"value", "gradient", "jacobian", "hessian", "valueAt", "derivative"} \/ what \in Checks
      /\ what \in Checks => f \in Checked
      /\ what \in {"hessian", "valueAt", "derivative"} => f \in Given
  BY <1>1 DEF Members, Checks
<1>3. "value" \notin Checks /\ "gradient" \notin Checks /\ "jacobian" \notin Checks
      /\ "hessian" \notin Checks /\ "derivative" \notin Checks
      /\ "valueAt" \notin Checks
  BY DEF Checks
<1> QED BY <1>1, <1>2, <1>3 DEF Computing, Forwarding, Differencing, Summing

\* What a call of each sort is to be.
Common(fr) ==
  /\ fr.todo \in Seq(Meant(fr.f, fr.what, fr.k)) /\ fr.k \in Numbers(fr.f, fr.what)
  /\ fr.x \in [1..Inputs[fr.f] -> Int]
DifferencesRight(fr, b, above) ==
  /\ EntriesRight(fr) /\ DOMAIN fr.local = SampleNames
  /\ IF Kind[fr.f] = "simple" THEN SimplyReady(fr, b, above) ELSE Ready(fr, above)

\* What is right of a call is what is right of its sort.
LEMMA RightBySort ==
  ASSUME NEW fr, fr.f \in Functions, fr.what \in Members(fr.f), NEW b, NEW above
  PROVE  LET f == fr.f
             what == fr.what
         IN /\ Right(fr, b, above) => Common(fr)
            /\ Computing(f, what) =>
                 (Right(fr, b, above) <=> Common(fr) /\ ComputeRight(fr))
            /\ Forwarding(f, what) =>
                 (Right(fr, b, above) <=> Common(fr) /\ RowsRight(fr, b, above))
            /\ what \in Checks =>
                 (Right(fr, b, above) <=> Common(fr) /\ WholesRight(fr, above))
            /\ Differencing(f, what) =>
                 (Right(fr, b, above) <=> Common(fr) /\ DifferencesRight(fr, b, above))
            /\ f \in Squares /\ what = "value" =>
                 (Right(fr, b, above) <=> Common(fr) /\ ValueRight(fr, b, above))
            /\ f \in Squares /\ what = "gradient" =>
                 (Right(fr, b, above) <=> Common(fr) /\ SumRight(fr, b, above))
<1> DEFINE f == fr.f
           what == fr.what
<1>1. /\ Computing(f, what) =>
           ~Forwarding(f, what) /\ what \notin Checks /\ ~Differencing(f, what)
             /\ f \notin Squares
      /\ Forwarding(f, what) =>
           what \notin Checks /\ ~Differencing(f, what) /\ ~Summing(f, what)
      /\ what \in Checks => f \in Checked /\ ~Differencing(f, what) /\ f \notin Squares
      /\ Differencing(f, what) => f \notin Squares
  BY Sorts
<1>2. "value" \notin Checks /\ "gradient" \notin Checks
  BY DEF Checks
<1> QED BY <1>1, <1>2 DEF Right, Common, DifferencesRight, Summing

\* What all sorts of calls have in common outlives a step and a return.
LEMMA CommonFollows ==
  ASSUME NEW fr, Common(fr), NEW e
  PROVE  /\ fr.todo # <<>> /\ Follows(e, fr) => Common(e)
         /\ Resumes(e, fr) => Common(e)
         /\ fr.todo # <<>> => Head(fr.todo) \in Meant(fr.f, fr.what, fr.k)
BY TailOfSteps DEF Common, Follows, Resumes

\* The first of the steps left, and those after it.
LEMMA LeftFollows ==
  ASSUME NEW S, NEW t \in Seq(S), NEW steps, Len(steps) \in Nat, NEW n \in Nat,
         Left(t, steps, n)
  PROVE  /\ n < Len(steps) => t # <<>>
         /\ t # <<>> => /\ n < Len(steps) /\ Head(t) = steps[n + 1]
                        /\ Left(Tail(t), steps, n + 1)
<1>1. Len(t) = Len(steps) - n /\ \A p \in 1..Len(t) : t[p] = steps[n + p]
  BY DEF Left
<1>2. n < Len(steps) => t # <<>>
  <2>1. t = <<>> => Len(t) = 0
    OBVIOUS
  <2> QED BY <1>1, <2>1
<1>3. ASSUME t # <<>>
      PROVE  /\ n < Len(steps) /\ Head(t) = steps[n + 1]
             /\ Left(Tail(t), steps, n + 1)
  <2> DEFINE u == Tail(t)
  <2>1. /\ Len(t) \in Nat /\ Len(t) > 0 /\ Len(u) = Len(t) - 1 /\ Head(t) = t[1]
        /\ \A p \in 1..Len(t) - 1 : u[p] = t[p + 1]
    BY <1>3, TailOfSteps
  <2> HIDE DEF u
  <2>2. n < Len(steps) /\ Len(u) = Len(steps) - (n + 1)
    BY <1>1, <2>1
  <2>3. Head(t) = steps[n + 1]
    BY <1>1, <2>1
  <2>4. ASSUME NEW p \in 1..Len(u)
        PROVE  u[p] = steps[(n + 1) + p]
    <3>1. p \in 1..Len(t) - 1 /\ p + 1 \in 1..Len(t) /\ n + (p + 1) = (n + 1) + p
      BY <2>1
    <3>2. u[p] = t[p + 1] /\ t[p + 1] = steps[n + (p + 1)]
      BY <1>1, <2>1, <3>1
    <3> QED BY <3>1, <3>2
  <2>5. Left(u, steps, n + 1)
    BY <2>2, <2>4 DEF Left
  <2> QED BY <2>2, <2>3, <2>5 DEF u
<1> QED BY <1>2, <1>3

\* The four steps of a check, by how many are done.
LEMMA ComparisonSteps ==
  ASSUME NEW f \in Checked, NEW what \in Checks, NEW k \in Numbers(f, what), NEW n \in 0..3,
         NEW S, NEW t \in Seq(S), Left(t, Comparison(f, Shown(what), k), n)
  PROVE  /\ t # <<>>
         /\ n = 0 => Head(t) = Do("allocate")
         /\ n = 1 => Head(t) = Eval(f, Shown(what), k, <<"whole", 1>>)
         /\ n = 2 => Head(t) = Eval(Checker[f], Shown(what), k, <<"whole", 2>>)
         /\ n = 3 => Head(t) = Do("compare")
         /\ Left(Tail(t), Comparison(f, Shown(what), k), n + 1)
<1> DEFINE c == Comparison(f, Shown(what), k)
           M == Meant(f, what, k)
<1>1. /\ c \in Seq(M) /\ Len(c) = 4
      /\ c[1] = Do("allocate") /\ c[2] = Eval(f, Shown(what), k, <<"whole", 1>>)
      /\ c[3] = Eval(Checker[f], Shown(what), k, <<"whole", 2>>) /\ c[4] = Do("compare")
  <2> HIDE DEF M
  <2> QED BY ComparisonMeant DEF M
<1> HIDE DEF c, M
<1>2. Left(t, c, n)
  BY DEF c
<1>3. t # <<>> /\ Head(t) = c[n + 1] /\ Left(Tail(t), c, n + 1)
  <2>1. Len(c) \in Nat /\ n \in Nat /\ n < Len(c)
    BY <1>1
  <2> QED BY <1>2, <2>1, LeftFollows
<1>4. /\ n = 0 => n + 1 = 1
      /\ n = 1 => n + 1 = 2
      /\ n = 2 => n + 1 = 3
      /\ n = 3 => n + 1 = 4
  OBVIOUS
<1> QED BY <1>1, <1>3, <1>4 DEF c

\* The steps of a gradient of a sum of squares, by how many are done.
LEMMA SumSteps ==
  ASSUME NEW f \in Squares, NEW m, m = Outputs[Adaptee[f]], NEW S, NEW t \in Seq(S), t # <<>>,
         NEW s \in 0..2 * m + 1, NEW n \in 0..m, Left(t, SquaresGradient(f), s)
  PROVE  /\ m \in Nat /\ s + 1 \in 0..2 * m + 1 /\ Left(Tail(t), SquaresGradient(f), s + 1)
         /\ s = 0 => Head(t) = Do("refresh")
         /\ s = 2 * n + 1 =>
              /\ n + 1 \in 1..m
              /\ Head(t) = Eval(Adaptee[f], "gradient", n + 1, <<"buffer", "gradient">>)
         /\ s = 2 * n + 2 => /\ n + 1 \in 1..m
                             /\ Head(t) = [do |-> "accumulate", k |-> n + 1]
<1> DEFINE b == SquaresGradient(f)
<1>1. /\ m \in Nat \ {0} /\ Len(b) = 2 * m + 1 /\ b[1] = Do("refresh")
      /\ \A i \in 1..m :
           /\ b[2 * i] = Eval(Adaptee[f], "gradient", i, <<"buffer", "gradient">>)
           /\ b[2 * i + 1] = [do |-> "accumulate", k |-> i]
  BY SquaresSteps
<1> HIDE DEF b
<1>2. Left(t, b, s)
  BY DEF b
<1>3. s < 2 * m + 1 /\ Head(t) = b[s + 1] /\ Left(Tail(t), b, s + 1)
  <2>1. Len(b) \in Nat /\ s \in Nat
    BY <1>1
  <2> QED BY <1>1, <1>2, <2>1, LeftFollows
<1>4. m \in Nat /\ s + 1 \in 0..2 * m + 1 /\ (s = 0 => s + 1 = 1)
  BY <1>1, <1>3
<1>5. ASSUME s = 2 * n + 1
      PROVE  n + 1 \in 1..m /\ b[s + 1] = b[2 * (n + 1)]
  <2>1. s + 1 = 2 * (n + 1) /\ n + 1 \in 1..m
    BY <1>1, <1>3, <1>5
  <2> QED BY <2>1
<1>6. ASSUME s = 2 * n + 2
      PROVE  n + 1 \in 1..m /\ b[s + 1] = b[2 * (n + 1) + 1]
  <2>1. s + 1 = 2 * (n + 1) + 1 /\ n + 1 \in 1..m
    BY <1>1, <1>3, <1>6
  <2> QED BY <2>1
<1> QED BY <1>1, <1>3, <1>4, <1>5, <1>6 DEF b

\* A step that answers nothing.
LEMMA RowsFollow ==
  ASSUME NEW fr, Common(fr), fr.todo # <<>>, NEW b, RowsRight(fr, b, Nobody),
         NEW e, Follows(e, fr), e.out = fr.out
  PROVE  LET i == Head(fr.todo)
         IN /\ i.do # "eval" => RowsRight(e, b, Nobody)
            /\ \A above : above.into = i.into => RowsRight(e, b, above)
<1> DEFINE i == Head(fr.todo)
           R == 1..RowCount(fr.f, fr.what)
<1>1. /\ e.f = fr.f /\ e.what = fr.what /\ e.todo = Tail(fr.todo) /\ Ref(e) = Ref(fr)
  BY DEF Follows, Ref
<1>2. \A a \in ToSet(fr.todo) : a = i \/ a \in ToSet(e.todo)
  BY <1>1, TailOfSteps DEF Common
<1> HIDE DEF i
<1>3. \A r \in R : Nobody.into # <<"row", r>>
  BY NobodyAbove
<1>4. /\ Vec(fr.out, RowCount(fr.f, fr.what))
      /\ \A r \in R : \/ fr.out[r] = Ref(fr)[r]
                      \/ \E a \in ToSet(fr.todo) : a.do = "eval" /\ a.into = <<"row", r>>
                      \/ fr.f \in Squares /\ b[fr.f].torn
  BY <1>3 DEF RowsRight, Awaited
<1>5. i.do # "eval" => RowsRight(e, b, Nobody)
  BY <1>1, <1>2, <1>4 DEF RowsRight, Awaited
<1>6. ASSUME NEW above, above.into = i.into
      PROVE  RowsRight(e, b, above)
  BY <1>1, <1>2, <1>4, <1>6 DEF RowsRight, Awaited
<1> QED BY <1>5, <1>6 DEF i

AnswersNothing(i) == i.do \in {"allow", "allocate", "restore", "first output"}

\* A step that changes the flag only leaves a call as right as it was.
LEMMA StepThatAnswersNothing ==
  ASSUME NEW fr, Well(fr), fr.todo # <<>>, NEW b, Right(fr, b, Nobody),
         AnswersNothing(Head(fr.todo)),
         NEW e, Follows(e, fr), e.out = fr.out, e.local = fr.local
  PROVE  Right(e, b, Nobody)
<1> DEFINE i == Head(fr.todo)
           f == fr.f
           what == fr.what
<1>0. i.do \notin {"eval", "write", "probe", "refresh", "square", "accumulate", "compare", "compute"}
  BY DEF AnswersNothing
<1>1. f \in Functions /\ what \in Members(f) /\ Common(fr) /\ Common(e)
  BY RightBySort, CommonFollows DEF Well
<1>2. e.f = f /\ e.what = what /\ e.k = fr.k /\ e.x = fr.x /\ e.todo = Tail(fr.todo)
  BY DEF Follows
<1>3. fr.todo \in Seq(Meant(f, what, fr.k)) /\ Ref(e) = Ref(fr) /\ fr.k \in Numbers(f, what)
  BY <1>1, <1>2 DEF Common, Ref
<1>4. CASE Computing(f, what)
  <2>1. ComputeRight(fr)
    BY <1>1, <1>4, RightBySort
  <2>2. \A a \in ToSet(fr.todo) : a = i \/ a \in ToSet(e.todo)
    BY <1>2, <1>3, TailOfSteps
  <2> HIDE DEF i
  <2>3. ComputeRight(e)
    BY <1>0, <1>3, <2>1, <2>2 DEF ComputeRight
  <2> QED BY <1>1, <1>2, <1>4, <2>3, RightBySort
<1>5. CASE Forwarding(f, what)
  <2>1. RowsRight(fr, b, Nobody)
    BY <1>1, <1>5, RightBySort
  <2>2. RowsRight(e, b, Nobody)
    BY <1>0, <1>1, <2>1, RowsFollow
  <2> QED BY <1>1, <1>2, <1>5, <2>2, RightBySort
<1>6. CASE what \in Checks
  <2>1. WholesRight(fr, Nobody) /\ f \in Checked
    BY <1>1, <1>6, RightBySort, Sorts
  <2> HIDE DEF f, what, i
  <2>2. PICK n \in 0..3 : Left(fr.todo, Comparison(f, Shown(what), fr.k), n) /\ Vec(fr.out, 2)
    BY <2>1 DEF WholesRight, f, what
  <2>3. /\ n = 1 => i = Eval(f, Shown(what), fr.k, <<"whole", 1>>)
        /\ n = 2 => i = Eval(Checker[f], Shown(what), fr.k, <<"whole", 2>>)
        /\ n = 3 => i = Do("compare")
        /\ Left(e.todo, Comparison(f, Shown(what), fr.k), n + 1)
    BY <1>2, <1>3, <1>6, <2>1, <2>2, ComparisonSteps DEF i
  <2>4. n = 0
    <3>1. n # 1 /\ n # 2 /\ n # 3
      BY <1>0, <2>3 DEF Do, Eval
    <3> QED BY <2>2, <3>1
  <2>5. WholesRight(e, Nobody)
    <3>1. 1 \in 0..3 /\ n + 1 = 1 /\ \A c \in 1..2 : ~(1 > c)
      BY <2>4
    <3> QED BY <1>2, <2>2, <2>3, <3>1 DEF WholesRight
  <2> QED BY <1>1, <1>2, <1>6, <2>5, RightBySort DEF f, what
<1>7. CASE Differencing(f, what)
  <2>1. DifferencesRight(fr, b, Nobody)
    BY <1>1, <1>7, RightBySort
  <2>2. EntriesRight(e)
    BY <1>0, <1>3, <2>1, EntriesFollow DEF DifferencesRight
  <2>3. CASE Kind[f] = "simple"
    <3>1. SimplyReady(e, b, Nobody)
      BY <1>0, <1>3, <2>1, <2>3, SimplyFollows DEF DifferencesRight
    <3>2. DifferencesRight(e, b, Nobody)
      BY <1>2, <2>1, <2>2, <2>3, <3>1 DEF DifferencesRight
    <3> QED BY <1>1, <1>2, <1>7, <3>2, RightBySort
  <2>4. CASE Kind[f] # "simple"
    <3>1. Ready(e, Nobody)
      BY <1>0, <1>3, <2>1, <2>4, ReadyFollows DEF DifferencesRight
    <3>2. DifferencesRight(e, b, Nobody)
      BY <1>2, <2>1, <2>2, <2>4, <3>1 DEF DifferencesRight
    <3> QED BY <1>1, <1>2, <1>7, <3>2, RightBySort
  <2> QED BY <2>3, <2>4
<1>8. CASE f \in Squares /\ what = "value"
  <2>1. ValueRight(fr, b, Nobody)
    BY <1>1, <1>8, RightBySort
  <2>2. fr.todo = SquaresValue \/ fr.todo = <<Do("square")>>
    BY <2>1 DEF ValueRight
  <2>3. i = Do("refresh") \/ i = Do("square")
    <3>1. Head(SquaresValue) = Do("refresh") /\ Head(<<Do("square")>>) = Do("square")
      BY DEF SquaresValue
    <3> QED BY <2>2, <3>1
  <2> HIDE DEF i
  <2>4. i.do \in {"refresh", "square"}
    BY <2>3 DEF Do
  <2> QED BY <1>0, <2>4
<1>9. CASE f \in Squares /\ what = "gradient"
  <2> DEFINE m == Outputs[Adaptee[f]]
  <2>1. SumRight(fr, b, Nobody)
    BY <1>1, <1>9, RightBySort
  <2>2. PICK s \in 0..2 * m + 1, n \in 0..m :
          /\ Left(fr.todo, SquaresGradient(f), s)
          /\ (s = 0 /\ n = 0) \/ s = 2 * n + 1 \/ s = 2 * n + 2
    BY <2>1 DEF SumRight, SummedUp
  <2> HIDE DEF f, i, m
  <2>3. /\ s = 0 => i = Do("refresh")
        /\ s = 2 * n + 1 => i = Eval(Adaptee[f], "gradient", n + 1, <<"buffer", "gradient">>)
        /\ s = 2 * n + 2 => i = [do |-> "accumulate", k |-> n + 1]
    BY SMTT(30), <1>3, <1>9, <2>2, SumSteps DEF i, m
  <2>4. i.do \in {"refresh", "eval", "accumulate"}
    BY <2>2, <2>3 DEF Do, Eval
  <2> QED BY <1>0, <2>4
<1> QED BY <1>1, <1>4, <1>5, <1>6, <1>7, <1>8, <1>9, Sorts DEF Summing

\* The steps of a call are meant by it, and stay so.
LEMMA StepIsMeant ==
  ASSUME NEW fr, Well(fr), fr.todo # <<>>, NEW b, Right(fr, b, Nobody), NEW i, i = Head(fr.todo)
  PROVE  /\ fr.f \in Functions /\ fr.what \in Members(fr.f) /\ Common(fr)
         /\ fr.todo \in Seq(Meant(fr.f, fr.what, fr.k)) /\ fr.todo[1] = i /\ 1 \in DOMAIN fr.todo
         /\ i \in Meant(fr.f, fr.what, fr.k) /\ Fits(fr.f, fr.what, i)
         /\ \A e : Follows(e, fr) =>
              /\ Common(e) /\ Ref(e) = Ref(fr)
              /\ e.f = fr.f /\ e.what = fr.what /\ e.k = fr.k /\ e.x = fr.x /\ e.todo = Tail(fr.todo)
<1>1. fr.f \in Functions /\ fr.what \in Members(fr.f) /\ Common(fr)
  BY RightBySort DEF Well
<1>2. i \in Meant(fr.f, fr.what, fr.k)
  BY <1>1, CommonFollows
<1>3. Fits(fr.f, fr.what, i)
  BY <1>2 DEF Meant, StepsOf
<1>4. /\ fr.todo \in Seq(Meant(fr.f, fr.what, fr.k)) /\ fr.todo[1] = i /\ 1 \in DOMAIN fr.todo
  <2>1. fr.todo \in Seq(Meant(fr.f, fr.what, fr.k))
    BY <1>1 DEF Common
  <2> QED BY <2>1, TailOfSteps
<1>5. ASSUME NEW e, Follows(e, fr)
      PROVE  /\ Common(e) /\ Ref(e) = Ref(fr)
             /\ e.f = fr.f /\ e.what = fr.what /\ e.k = fr.k /\ e.x = fr.x /\ e.todo = Tail(fr.todo)
  BY <1>1, <1>5, CommonFollows DEF Follows, Ref
<1> QED BY <1>1, <1>2, <1>3, <1>4, <1>5

\* The function of the user answers.
LEMMA ComputeKeepsRight ==
  ASSUME NEW fr, Well(fr), fr.todo # <<>>, NEW b, Right(fr, b, Nobody),
         NEW i, i = Head(fr.todo), i.do = "compute", NEW e, Follows(e, fr),
         e.out = Computed(fr.f, fr.what, fr.k, fr.x)
  PROVE  Right(e, b, Nobody)
<1>1. /\ fr.f \in Functions /\ fr.what \in Members(fr.f) /\ Common(e) /\ Ref(e) = Ref(fr)
      /\ e.f = fr.f /\ e.what = fr.what
      /\ i \in Meant(fr.f, fr.what, fr.k) /\ Fits(fr.f, fr.what, i)
  BY StepIsMeant
<1>2. fr.f \in Given /\ fr.what \notin Checks /\ fr.what # "jacobian"
  BY <1>1 DEF Fits, Meant
<1>3. fr.f \notin Squares
  BY <1>2 DEF Given
<1>4. fr.what \in {"value", "gradient", "hessian", "valueAt", "derivative"}
  BY <1>1, <1>2 DEF Members, Checks
<1>5. Computing(fr.f, fr.what)
  BY <1>2, <1>4 DEF Computing
<1>6. Ref(fr) = Computed(fr.f, fr.what, fr.k, fr.x)
  BY <1>2, <1>3 DEF Ref, Reference
<1>7. ComputeRight(e)
  BY <1>1, <1>6 DEF ComputeRight
<1> QED BY <1>1, <1>5, <1>7, RightBySort

EvenStep(h) == h \in Nat \ {0} /\ h % 2 = 0
Sampled(s, f, k, j, x, h) ==
  /\ s.fm1 = Exact(Adaptee[f], Moved(x, j, -h))[k]
  /\ s.fp1 = Exact(Adaptee[f], Moved(x, j, h))[k]
  /\ s.fmh = Exact(Adaptee[f], Moved(x, j, -(h \div 2)))[k]
  /\ s.fph = Exact(Adaptee[f], Moved(x, j, h \div 2))[k]

\* What the five points write is the derivative, if the four samples are the
\* values they are named for.
LEMMA RuleOfSamples ==
  ASSUME NEW f \in Decorated, Kind[f] = "fivePoints", NEW k \in 1..Outputs[f],
         NEW j \in 1..Inputs[f], NEW x \in [1..Inputs[f] -> Int], NEW h, EvenStep(h),
         NEW s, Sampled(s, f, k, j, x, h)
  PROVE  FivePointRule(s, h) = ExactRow(Adaptee[f], k, x)[j]
BY RuleIsExact DEF EvenStep, Sampled

\* An entry is written from the samples it is of.
LEMMA WriteKeepsRight ==
  ASSUME NEW fr, Well(fr), fr.todo # <<>>, NEW b, Right(fr, b, Nobody),
         NEW i, i = Head(fr.todo), i.do = "write", NEW e, Follows(e, fr), e.local = fr.local,
         NEW v, v = IF Kind[fr.f] = "simple" THEN ForwardDifference(b[fr.f], i.k, i.h)
                    ELSE FivePointRule(fr.local, i.h),
         e.out = Written(fr.out, i, v)
  PROVE  Right(e, b, Nobody)
<1> DEFINE f == fr.f
           what == fr.what
<1>1. /\ f \in Functions /\ what \in Members(f) /\ Common(fr) /\ Common(e) /\ Ref(e) = Ref(fr)
      /\ e.f = f /\ e.what = what /\ e.x = fr.x /\ e.todo = Tail(fr.todo)
      /\ fr.todo \in Seq(Meant(f, what, fr.k)) /\ fr.todo[1] = i /\ 1 \in DOMAIN fr.todo
      /\ i \in Meant(f, what, fr.k) /\ Fits(f, what, i)
  BY StepIsMeant
<1>2. f \in Decorated /\ what \in {"gradient", "jacobian"}
  BY <1>1 DEF Fits
<1>3. Differencing(f, what)
  BY <1>2 DEF Differencing
<1>4. DifferencesRight(fr, b, Nobody)
  BY <1>1, <1>3, RightBySort
<1>5. /\ MeantEntry(f, what, fr.k, i) /\ i.h \in Steps(f)
      /\ i.j \in 1..Inputs[f] /\ i.k \in 1..Outputs[f] /\ fr.x \in [1..Inputs[f] -> Int]
  BY <1>1 DEF Meant, MeantEntry, Common
<1> HIDE DEF f, what
<1>6. /\ i.row \in 1..RowCount(f, what)
      /\ Ref(fr)[i.row][i.j] = ExactRow(Adaptee[f], i.k, fr.x)[i.j]
  <2>1. Ref(fr) = Reference(f, what, fr.k, fr.x)
    BY DEF Ref, f, what
  <2>2. MeantEntry(f, what, fr.k, i)
    BY <1>5 DEF f, what
  <2>3. /\ i.row \in 1..RowCount(f, what)
        /\ Reference(f, what, fr.k, fr.x)[i.row][i.j] = ExactRow(Adaptee[f], i.k, fr.x)[i.j]
    BY SMTT(30), <1>2, <2>2, ReferenceEntries
  <2> QED BY <2>1, <2>3
<1>7. CASE Kind[f] = "simple"
  <2>1. SimplyReady(fr, b, Nobody)
    BY <1>4, <1>7 DEF DifferencesRight, f
  <2>2. /\ b[f].result = Exact(Adaptee[f], fr.x)
        /\ b[f].resultEps = Exact(Adaptee[f], Moved(fr.x, i.j, Epsilon))
    BY <1>1, <2>1, NobodyAbove DEF SimplyReady, SampleAt, f
  <2>3. i.h = Epsilon /\ Epsilon \in Nat \ {0}
    BY <1>5, <1>7, StepsAssumption DEF Steps
  <2>4. ForwardDifference(b[f], i.k, i.h) = ExactRow(Adaptee[f], i.k, fr.x)[i.j]
    <3> DEFINE d == b[f]
    <3>1. d.result = Exact(Adaptee[f], fr.x) /\ d.resultEps = Exact(Adaptee[f], Moved(fr.x, i.j, i.h))
      BY <2>2, <2>3
    <3> HIDE DEF d
    <3>2. ForwardDifference(d, i.k, i.h) = ExactRow(Adaptee[f], i.k, fr.x)[i.j]
      BY SMTT(30), <1>2, <1>5, <1>7, <2>3, <3>1, DifferenceIsExact
    <3> QED BY <3>2 DEF d
  <2>5. v = Ref(fr)[i.row][i.j]
    BY <1>6, <1>7, <2>4 DEF f
  <2>6. EntriesRight(e)
    <3>1. /\ i.row \in 1..RowCount(fr.f, fr.what) /\ i.j \in 1..Inputs[fr.f]
          /\ EntriesRight(fr) /\ v = Ref(fr)[i.row][i.j]
      BY <1>4, <1>5, <1>6, <2>5 DEF DifferencesRight, f, what
    <3> QED BY <1>1, <3>1, EntriesFollow
  <2>7. SimplyReady(e, b, Nobody)
    BY <1>1, <2>1, SimplyFollows
  <2>8. DifferencesRight(e, b, Nobody)
    BY <1>1, <1>4, <1>7, <2>6, <2>7 DEF DifferencesRight
  <2> QED BY <1>1, <1>3, <2>8, RightBySort
<1>8. CASE Kind[f] # "simple"
  <2>1. Ready(fr, Nobody) /\ Kind[f] = "fivePoints"
    BY <1>2, <1>4, <1>8 DEF DifferencesRight, Decorated, f
  <2>2. ASSUME NEW s \in 1..4
        PROVE  fr.local[Name(s)] = Exact(Adaptee[f], Moved(fr.x, i.j, Shift(s, i.h)))[i.k]
    <3>1. 1 - (5 - s) < 1
      OBVIOUS
    <3>2. SampleRight(fr, i, s)
      BY <1>1, <2>1, <3>1, NobodyAbove DEF Ready
    <3> QED BY <3>2 DEF SampleRight, SampleAt, f
  <2>3. /\ Name(1) = "fm1" /\ Name(2) = "fp1" /\ Name(3) = "fmh" /\ Name(4) = "fph"
        /\ \A h : /\ Shift(1, h) = -h /\ Shift(2, h) = h
                  /\ Shift(3, h) = -(h \div 2) /\ Shift(4, h) = h \div 2
    BY DEF Name, Shift
  <2>4. 1 \in 1..4 /\ 2 \in 1..4 /\ 3 \in 1..4 /\ 4 \in 1..4
    OBVIOUS
  <2>5. i.h \in Nat \ {0} /\ i.h % 2 = 0
    <3>1. i.h = Epsilon \div 2 \/ i.h = OtherStep
      BY <1>5, <1>8 DEF Steps
    <3>2. Epsilon \div 2 \in Nat \ {0} /\ (Epsilon \div 2) % 2 = 0
      BY StepsAssumption
    <3> QED BY <3>1, <3>2, StepsAssumption
  <2>6. FivePointRule(fr.local, i.h) = ExactRow(Adaptee[f], i.k, fr.x)[i.j]
    <3> DEFINE s == fr.local
    <3>1. Sampled(s, f, i.k, i.j, fr.x, i.h)
      BY <2>2, <2>3, <2>4 DEF Sampled
    <3>2. EvenStep(i.h)
      BY <2>5 DEF EvenStep
    <3> HIDE DEF s
    <3>3. FivePointRule(s, i.h) = ExactRow(Adaptee[f], i.k, fr.x)[i.j]
      <4>1. /\ f \in Decorated /\ Kind[f] = "fivePoints" /\ i.k \in 1..Outputs[f]
            /\ i.j \in 1..Inputs[f] /\ fr.x \in [1..Inputs[f] -> Int]
        BY <1>2, <1>5, <2>1 DEF f
      <4> QED BY <3>1, <3>2, <4>1, RuleOfSamples
    <3> QED BY <3>3 DEF s
  <2>7. v = Ref(fr)[i.row][i.j]
    BY <1>6, <1>8, <2>6 DEF f
  <2>8. EntriesRight(e)
    <3>1. /\ i.row \in 1..RowCount(fr.f, fr.what) /\ i.j \in 1..Inputs[fr.f]
          /\ EntriesRight(fr) /\ v = Ref(fr)[i.row][i.j]
      BY <1>4, <1>5, <1>6, <2>7 DEF DifferencesRight, f, what
    <3> QED BY <1>1, <3>1, EntriesFollow
  <2>9. Ready(e, Nobody)
    BY <1>1, <2>1, ReadyFollows
  <2>10. DifferencesRight(e, b, Nobody)
    BY <1>1, <1>4, <1>8, <2>8, <2>9 DEF DifferencesRight
  <2> QED BY <1>1, <1>3, <2>10, RightBySort
<1> QED BY <1>7, <1>8

\* After a rule is done, those that follow have all their samples to take.
LEMMA TailIsWhole ==
  ASSUME NEW S, NEW t \in Seq(S), t # <<>>, Prepared(t), t[1].do = "again"
  PROVE  Whole(Tail(t))
<1> DEFINE u == Tail(t)
<1>1. /\ Len(t) \in Nat /\ Len(t) > 0 /\ DOMAIN t = 1..Len(t) /\ DOMAIN u = 1..Len(t) - 1
      /\ \A p \in 1..Len(t) - 1 : u[p] = t[p + 1]
  BY TailOfSteps
<1> HIDE DEF u
<1>2. ASSUME NEW p \in DOMAIN u, u[p].do = "write"
      PROVE  p >= 5 /\ \A s \in 1..4 : u[p - (5 - s)] = Before(u[p], s)
  <2>1. p \in Nat /\ p > 0 /\ p + 1 \in DOMAIN t /\ u[p] = t[p + 1]
    BY <1>1
  <2>2. ASSUME NEW s \in 1..4, (p + 1) - (5 - s) >= 1
        PROVE  t[(p + 1) - (5 - s)] = Before(u[p], s)
    BY <1>2, <2>1, <2>2 DEF Prepared
  <2>3. p >= 5
    <3> SUFFICES ASSUME p < 5
                 PROVE  FALSE
      BY <2>1
    <3>1. 5 - p \in 1..4 /\ (p + 1) - (5 - (5 - p)) = 1
      BY <2>1
    <3>2. t[1] = Before(u[p], 5 - p)
      BY <2>2, <3>1
    <3> QED BY <3>2 DEF Before, Probe
  <2>4. ASSUME NEW s \in 1..4
        PROVE  u[p - (5 - s)] = Before(u[p], s)
    <3>1. /\ (p + 1) - (5 - s) >= 1 /\ p - (5 - s) \in 1..Len(t) - 1
          /\ (p - (5 - s)) + 1 = (p + 1) - (5 - s)
      BY <1>1, <2>1, <2>3
    <3> QED BY <1>1, <2>2, <3>1
  <2> QED BY <2>3, <2>4
<1> QED BY <1>2 DEF Whole, u

\* Nothing is expected of a call that is about to begin whole rules.
LEMMA WholeIsReady ==
  ASSUME NEW S, NEW fr, fr.todo \in Seq(S), Whole(fr.todo), NEW above
  PROVE  Ready(fr, above)
<1>1. \A p \in DOMAIN fr.todo : p \in Nat
  BY LenProperties
<1>2. Prepared(fr.todo)
  BY DEF Whole, Prepared
<1>3. ASSUME NEW p \in DOMAIN fr.todo, fr.todo[p].do = "write", NEW s \in 1..4
      PROVE  ~(p - (5 - s) < 1)
  BY SMTT(30), <1>1, <1>3 DEF Whole
<1> QED BY <1>2, <1>3 DEF Ready

\* The derivative is estimated again or not.
LEMMA AgainKeepsRight ==
  ASSUME NEW fr, Well(fr), fr.todo # <<>>, NEW b, Right(fr, b, Nobody),
         NEW i, i = Head(fr.todo), i.do = "again",
         NEW e, e.f = fr.f, e.what = fr.what, e.k = fr.k, e.x = fr.x,
         e.local = fr.local, e.out = fr.out,
         \/ e.todo = Tail(fr.todo)
         \/ e.todo = Repeated(i) \o Tail(fr.todo)
         \/ e.todo = Front(Repeated(i)) \o Tail(fr.todo)
  PROVE  Right(e, b, Nobody)
<1> DEFINE f == fr.f
           what == fr.what
           M == Meant(f, what, fr.k)
           u == Tail(fr.todo)
<1>1. /\ f \in Functions /\ what \in Members(f) /\ Common(fr) /\ Ref(e) = Ref(fr)
      /\ fr.todo \in Seq(M) /\ fr.todo[1] = i /\ i \in M /\ Fits(f, what, i)
  BY StepIsMeant DEF Ref
<1>2. /\ f \in Decorated /\ what \in {"gradient", "jacobian"} /\ Kind[f] = "fivePoints"
      /\ MeantEntry(f, what, fr.k, i)
  BY <1>1 DEF Fits, Meant
<1>3. Differencing(f, what)
  BY <1>2 DEF Differencing
<1>4. DifferencesRight(fr, b, Nobody) /\ Kind[f] # "simple"
  BY <1>1, <1>2, <1>3, RightBySort
<1>5. EntriesRight(fr) /\ DOMAIN fr.local = SampleNames /\ Ready(fr, Nobody)
  BY <1>4 DEF DifferencesRight
<1>6. u \in Seq(M) /\ \A a \in ToSet(fr.todo) : a = i \/ a \in ToSet(u)
  BY <1>1, TailOfSteps
<1>7. Whole(u)
  BY <1>1, <1>5, TailIsWhole DEF Ready
<1> DEFINE more == Repeated(i)
<1>8. more \in WholePieces(M) /\ Front(more) \in WholePieces(M)
  <2>1. i.j \in 1..Inputs[f] /\ i.k \in 1..Outputs[f] /\ OtherStep \in Steps(f)
    BY <1>2 DEF MeantEntry, Steps
  <2>2. IF what = "jacobian" THEN i.row = i.k ELSE i.row = 1 /\ i.k = fr.k
    BY <1>2 DEF MeantEntry
  <2>3. i.row \in Nat
    <3>1. Outputs[f] \in Nat
      BY <1>1, Kinds
    <3> QED BY <2>1, <2>2, <3>1
  <2>4. more = Deriv(i.j, i.k, i.row, OtherStep)
    BY DEF Repeated
  <2> HIDE DEF more, f, what, M
  <2>5. /\ Deriv(i.j, i.k, i.row, OtherStep) \in WholePieces(Meant(f, what, fr.k))
        /\ Front(Deriv(i.j, i.k, i.row, OtherStep)) \in WholePieces(Meant(f, what, fr.k))
    BY <1>2, <2>1, <2>2, <2>3, FivePointsMeant
  <2> QED BY <2>4, <2>5 DEF M
<1> HIDE DEF more, u, M
<1>9. /\ e.todo \in Seq(M) /\ Whole(e.todo)
      /\ \A a \in ToSet(u) : a \in ToSet(e.todo)
  <2>1. CASE e.todo = u
    BY <1>6, <1>7, <2>1
  <2>2. ASSUME NEW p, p \in WholePieces(M), e.todo = p \o u
        PROVE  /\ e.todo \in Seq(M) /\ Whole(e.todo)
               /\ \A a \in ToSet(u) : a \in ToSet(e.todo)
    <3>1. p \in Seq(M) /\ Whole(p)
      BY <2>2 DEF WholePieces
    <3>2. p \o u \in Seq(M)
      BY <1>6, <3>1
    <3>3. Whole(p \o u)
      BY <1>6, <1>7, <3>1, WholeConcat
    <3>4. \A a \in ToSet(u) : a \in ToSet(p \o u)
      BY <1>6, <3>1, ConcatHas
    <3> QED BY <2>2, <3>2, <3>3, <3>4
  <2> QED BY <1>8, <2>1, <2>2 DEF u, more
<1>10. Common(e)
  BY <1>1, <1>9 DEF Common, M
<1>11. EntriesRight(e)
  <2>1. \A a \in ToSet(fr.todo) : a.do = "write" => a \in ToSet(e.todo)
    BY <1>6, <1>9
  <2> QED BY <1>1, <1>5, <2>1 DEF EntriesRight
<1>12. Ready(e, Nobody)
  BY <1>9, WholeIsReady
<1>13. DifferencesRight(e, b, Nobody)
  BY <1>4, <1>5, <1>11, <1>12 DEF DifferencesRight
<1> QED BY <1>1, <1>3, <1>10, <1>13, RightBySort

KeptOne(f, b) ==
  /\ DOMAIN b[f] = {"x", "value", "torn", "gradient"} /\ b[f].torn \in BOOLEAN
  /\ b[f].torn \/ b[f].value = Exact(Adaptee[f], b[f].x)

\* The shape of a sum of squares and of its base.
LEMMA SquaresAre ==
  ASSUME NEW f \in Squares
  PROVE  /\ f \in Functions /\ Adaptee[f] \in Given /\ Adaptee[f] \in Functions
         /\ Inputs[Adaptee[f]] = Inputs[f] /\ Inputs[f] \in Nat
         /\ Outputs[Adaptee[f]] \in Nat /\ Outputs[f] = 1
<1>1. f \in Functions /\ f \in Decorated \cup Squares
  BY DEF Squares
<1> QED BY <1>1, Kinds, FunctionsAssumption

\* Where the first step is in the sum of the terms of a gradient.
LEMMA SumHead ==
  ASSUME NEW fr, Well(fr), fr.todo # <<>>, NEW b, Right(fr, b, Nobody),
         NEW i, i = Head(fr.todo), fr.f \in Squares, fr.what = "gradient"
  PROVE  LET m == Outputs[Adaptee[fr.f]]
             body == SquaresGradient(fr.f)
         IN /\ Vec(fr.out, 1) /\ Vec(fr.out[1], Inputs[fr.f])
            /\ \E s \in 0..2 * m + 1, n \in 0..m :
                 /\ s + 1 \in 0..2 * m + 1 /\ Left(Tail(fr.todo), body, s + 1)
                 /\ SummedUp(fr, b, Nobody, s, n)
                 /\ \/ i.do = "refresh" /\ s = 0 /\ n = 0
                    \/ /\ s = 2 * n + 1 /\ n + 1 \in 1..m
                       /\ i = Eval(Adaptee[fr.f], "gradient", n + 1, <<"buffer", "gradient">>)
                    \/ /\ s = 2 * n + 2 /\ n + 1 \in 1..m
                       /\ i.do = "accumulate" /\ i.k = n + 1
<1> DEFINE m == Outputs[Adaptee[fr.f]]
           body == SquaresGradient(fr.f)
<1>1. fr.todo \in Seq(Meant(fr.f, fr.what, fr.k)) /\ fr.f \in Functions /\ fr.what \in Members(fr.f)
  BY StepIsMeant
<1>2. SumRight(fr, b, Nobody)
  BY <1>1, RightBySort
<1>3. PICK s \in 0..2 * m + 1, n \in 0..m :
        Left(fr.todo, body, s) /\ SummedUp(fr, b, Nobody, s, n)
  BY <1>2 DEF SumRight
<1>4. (s = 0 /\ n = 0) \/ s = 2 * n + 1 \/ s = 2 * n + 2
  BY <1>3 DEF SummedUp
<1> HIDE DEF m
<1>5. /\ m \in Nat /\ s + 1 \in 0..2 * m + 1 /\ Left(Tail(fr.todo), body, s + 1)
      /\ s = 0 => i = Do("refresh")
      /\ s = 2 * n + 1 =>
           /\ n + 1 \in 1..m
           /\ i = Eval(Adaptee[fr.f], "gradient", n + 1, <<"buffer", "gradient">>)
      /\ s = 2 * n + 2 => /\ n + 1 \in 1..m
                          /\ i = [do |-> "accumulate", k |-> n + 1]
  <2> DEFINE t == fr.todo
             M == Meant(fr.f, fr.what, fr.k)
  <2>1. /\ t \in Seq(M) /\ t # <<>> /\ Left(t, SquaresGradient(fr.f), s)
        /\ m = Outputs[Adaptee[fr.f]] /\ i = Head(t)
    BY <1>1, <1>3 DEF m
  <2> HIDE DEF t, M, body
  <2>2. /\ m \in Nat /\ s + 1 \in 0..2 * m + 1 /\ Left(Tail(t), SquaresGradient(fr.f), s + 1)
        /\ s = 0 => i = Do("refresh")
        /\ s = 2 * n + 1 =>
             /\ n + 1 \in 1..m
             /\ i = Eval(Adaptee[fr.f], "gradient", n + 1, <<"buffer", "gradient">>)
        /\ s = 2 * n + 2 => /\ n + 1 \in 1..m
                            /\ i = [do |-> "accumulate", k |-> n + 1]
    BY SMTT(30), <1>3, <2>1, SumSteps
  <2> QED BY <2>2 DEF t, body
<1>6. Vec(fr.out, 1) /\ Vec(fr.out[1], Inputs[fr.f])
  BY <1>2 DEF SumRight
<1>7. \/ i.do = "refresh" /\ s = 0 /\ n = 0
      \/ /\ s = 2 * n + 1 /\ n + 1 \in 1..m
         /\ i = Eval(Adaptee[fr.f], "gradient", n + 1, <<"buffer", "gradient">>)
      \/ s = 2 * n + 2 /\ n + 1 \in 1..m /\ i.do = "accumulate" /\ i.k = n + 1
  <2>1. CASE s = 0 /\ n = 0
    BY <1>5, <2>1 DEF Do
  <2>2. CASE s = 2 * n + 1
    BY <1>5, <2>2
  <2>3. CASE s = 2 * n + 2
    BY <1>5, <2>3
  <2> QED BY <1>4, <2>1, <2>2, <2>3
<1> QED BY <1>3, <1>5, <1>6, <1>7 DEF m

\* The value of the base is of the argument asked for.
LEMMA RefreshKeepsRight ==
  ASSUME NEW fr, Well(fr), fr.todo # <<>>, NEW b, Right(fr, b, Nobody),
         NEW i, i = Head(fr.todo), i.do = "refresh",
         NEW e, Follows(e, fr), e.out = fr.out, NEW c, c[fr.f].x = fr.x, NEW above
  PROVE  Right(e, c, above)
<1> DEFINE f == fr.f
           what == fr.what
<1>1. /\ f \in Functions /\ what \in Members(f) /\ Common(fr) /\ Common(e) /\ Ref(e) = Ref(fr)
      /\ e.f = f /\ e.what = what /\ e.x = fr.x /\ e.todo = Tail(fr.todo)
      /\ fr.todo \in Seq(Meant(f, what, fr.k)) /\ Fits(f, what, i)
  BY StepIsMeant
<1>2. f \in Squares /\ what \in {"value", "gradient"}
  BY <1>1 DEF Fits
<1>3. CASE what = "value"
  <2>1. ValueRight(fr, b, Nobody)
    BY <1>1, <1>2, <1>3, RightBySort
  <2>2. fr.todo # <<Do("square")>>
    <3>1. Head(<<Do("square")>>) = Do("square") /\ Do("square").do = "square"
      BY DEF Do
    <3> QED BY <3>1
  <2>3. fr.todo = SquaresValue
    BY <2>1, <2>2 DEF ValueRight
  <2>4. e.todo = <<Do("square")>>
    <3>1. Tail(SquaresValue) = <<Do("square")>>
      BY DEF SquaresValue
    <3> QED BY <1>1, <2>3, <3>1
  <2>5. ValueRight(e, c, above)
    BY <1>1, <2>1, <2>4 DEF ValueRight
  <2> QED BY <1>1, <1>2, <1>3, <2>5, RightBySort
<1>4. CASE what = "gradient"
  <2> DEFINE m == Outputs[Adaptee[f]]
  <2>1. PICK s \in 0..2 * m + 1, n \in 0..m :
          /\ Vec(fr.out, 1) /\ Vec(fr.out[1], Inputs[fr.f])
          /\ s + 1 \in 0..2 * m + 1 /\ Left(Tail(fr.todo), SquaresGradient(f), s + 1)
          /\ SummedUp(fr, b, Nobody, s, n)
          /\ \/ i.do = "refresh" /\ s = 0 /\ n = 0
             \/ i = Eval(Adaptee[f], "gradient", n + 1, <<"buffer", "gradient">>)
             \/ i.do = "accumulate"
    BY <1>2, <1>4, SumHead
  <2>2. s = 0 /\ n = 0
    BY <2>1 DEF Eval
  <2>3. \A j \in 1..Inputs[f] : e.out[1][j] = Partly(e, 0, j)
    <3>1. \A j : Partly(e, 0, j) = Partly(fr, 0, j)
      BY <1>1 DEF Partly, Term
    <3> QED BY <2>1, <2>2, <3>1 DEF SummedUp
  <2>4. SummedUp(e, c, above, 1, 0)
    BY <1>1, <2>3 DEF SummedUp
  <2>5. SumRight(e, c, above)
    <3>1. 0 \in 0..m /\ 1 \in 0..2 * m + 1 /\ Left(Tail(fr.todo), SquaresGradient(f), 1)
      BY <2>1, <2>2
    <3> HIDE DEF m
    <3> QED BY <1>1, <2>1, <2>4, <3>1 DEF SumRight, m
  <2> QED BY <1>1, <1>2, <1>4, <2>5, RightBySort
<1> QED BY <1>2, <1>3, <1>4

\* The value of a sum of squares, added up from the kept values.
LEMMA SquareKeepsRight ==
  ASSUME NEW fr, Well(fr), fr.todo # <<>>, NEW b, Right(fr, b, Nobody),
         fr.f \in Squares => KeptOne(fr.f, b),
         NEW i, i = Head(fr.todo), i.do = "square",
         NEW e, Follows(e, fr), NEW y, y = b[fr.f].value,
         e.out = [fr.out EXCEPT ![1][1] = Total([k \in DOMAIN y |-> y[k] * y[k]])]
  PROVE  Right(e, b, Nobody)
<1> DEFINE f == fr.f
           what == fr.what
<1>1. /\ f \in Functions /\ what \in Members(f) /\ Common(fr) /\ Common(e) /\ Ref(e) = Ref(fr)
      /\ e.f = f /\ e.what = what /\ e.x = fr.x /\ e.todo = Tail(fr.todo)
      /\ fr.todo \in Seq(Meant(f, what, fr.k)) /\ Fits(f, what, i)
  BY StepIsMeant
<1>2. f \in Squares /\ what \in {"value", "gradient"}
  BY <1>1 DEF Fits
<1>3. what = "value"
  <2> SUFFICES ASSUME what = "gradient"
               PROVE  FALSE
    BY <1>2
  <2>1. PICK n : \/ i.do = "refresh"
                 \/ i = Eval(Adaptee[f], "gradient", n + 1, <<"buffer", "gradient">>)
                 \/ i.do = "accumulate"
    <3>1. fr.f \in Squares /\ fr.what = "gradient"
      BY <1>2
    <3>2. PICK s \in 0..2 * Outputs[Adaptee[f]] + 1, n \in 0..Outputs[Adaptee[f]] :
            \/ i.do = "refresh"
            \/ i = Eval(Adaptee[f], "gradient", n + 1, <<"buffer", "gradient">>)
            \/ i.do = "accumulate"
      BY <3>1, SumHead
    <3> QED BY <3>2
  <2> QED BY <2>1 DEF Eval
<1>4. ValueRight(fr, b, Nobody)
  BY <1>1, <1>2, <1>3, RightBySort
<1>5. fr.todo = <<Do("square")>> /\ b[f].x = fr.x
  <2>1. fr.todo # SquaresValue
    <3>1. Head(SquaresValue) = Do("refresh") /\ Do("refresh").do = "refresh"
      BY DEF SquaresValue, Do
    <3> QED BY <3>1
  <2> QED BY <1>4, <2>1 DEF ValueRight
<1>6. e.todo = <<>>
  <2>1. Tail(<<Do("square")>>) = <<>>
    OBVIOUS
  <2> QED BY <1>1, <1>5, <2>1
<1> DEFINE v == Total([k \in DOMAIN y |-> y[k] * y[k]])
<1>7. Vec(fr.out, 1) /\ Vec(fr.out[1], 1)
  BY <1>4 DEF ValueRight
<1> HIDE DEF v
<1>8. e.out = << <<v>> >>
  <2>1. e.out = [fr.out EXCEPT ![1][1] = v]
    BY DEF v
  <2>2. DOMAIN fr.out = 1..1 /\ DOMAIN fr.out[1] = 1..1 /\ 1 \in 1..1
    BY <1>7 DEF Vec
  <2>3. /\ e.out = [r \in 1..1 |-> e.out[r]] /\ e.out[1] = [fr.out[1] EXCEPT ![1] = v]
    BY <2>1, <2>2, <1>7 DEF Vec
  <2>4. e.out[1] = [r \in 1..1 |-> v]
    BY <2>2, <2>3
  <2> QED BY <2>3, <2>4
<1>9. Vec(e.out, 1) /\ Vec(e.out[1], 1)
  BY <1>8 DEF Vec
<1>10. b[f].torn \/ e.out = Ref(e)
  <2> SUFFICES ASSUME ~b[f].torn
               PROVE  e.out = Ref(e)
    OBVIOUS
  <2>1. y = Exact(Adaptee[f], fr.x)
    BY <1>2, <1>5 DEF KeptOne
  <2>2. DOMAIN y = 1..Outputs[Adaptee[f]]
    BY <2>1 DEF Exact
  <2>3. v = SumOfSquares(Adaptee[f], fr.x)
    BY <2>1, <2>2 DEF v, SumOfSquares
  <2>4. Ref(fr) = << <<SumOfSquares(Adaptee[f], fr.x)>> >>
    BY <1>2, <1>3 DEF Ref, Reference
  <2> QED BY <1>1, <1>8, <2>3, <2>4
<1>11. ValueRight(e, b, Nobody)
  <2>1. Nobody.into # <<"refreshed">>
    BY DEF Nobody
  <2> QED BY <1>1, <1>6, <1>9, <1>10, <2>1 DEF ValueRight
<1> QED BY <1>1, <1>2, <1>3, <1>11, RightBySort

\* One more term of the gradient of a sum of squares.
LEMMA PartlyOneMore ==
  ASSUME NEW fr, fr.f \in Squares, fr.x \in [1..Inputs[fr.f] -> Int],
         NEW n \in Nat, n + 1 \in 1..Outputs[Adaptee[fr.f]], NEW j \in 1..Inputs[fr.f]
  PROVE  Partly(fr, n + 1, j) = Partly(fr, n, j) + Term(fr, n + 1, j)
<1> DEFINE g == Adaptee[fr.f]
           m == Outputs[g]
           s == [k \in 1..n + 1 |-> Term(fr, k, j)]
           t == [k \in 1..n |-> Term(fr, k, j)]
<1>1. /\ g \in Given /\ fr.x \in [1..Inputs[g] -> Int] /\ m \in Nat /\ j \in 1..Inputs[g]
  BY SquaresAre
<1>2. ASSUME NEW k \in 1..m
      PROVE  Term(fr, k, j) \in Int
  <2>1. /\ Exact(g, fr.x) \in [1..m -> Int]
        /\ AnalyticalRow(g, k, fr.x) \in [1..Inputs[g] -> Int]
    BY <1>1, GivenAreIntegers
  <2>2. Exact(g, fr.x)[k] \in Int /\ AnalyticalRow(g, k, fr.x)[j] \in Int
    BY <1>1, <2>1
  <2>3. \A a, c \in Int : 2 * a * c \in Int
    OBVIOUS
  <2> QED BY <2>2, <2>3 DEF Term
<1>3. 1..n + 1 \subseteq 1..m
  BY <1>1
<1>4. s \in [1..n + 1 -> Int]
  BY <1>2, <1>3
<1>5. t = [k \in 1..n |-> s[k]] /\ s[n + 1] = Term(fr, n + 1, j)
  OBVIOUS
<1> HIDE DEF s, t
<1>6. Total(s) = Total(t) + s[n + 1]
  <2>1. t = [k \in 1..n |-> s[k]]
    BY <1>5
  <2> QED BY <1>4, <2>1, TotalOneMore
<1> QED BY <1>5, <1>6 DEF Partly, s, t

\* The gradient of a sum of squares with a term added.
Accumulated(out, y, g) ==
  [out EXCEPT ![1] = [j \in DOMAIN @ |-> @[j] + 2 * y * g[j]]]

\* A term is added.
LEMMA AccumulateKeepsRight ==
  ASSUME NEW fr, Well(fr), fr.todo # <<>>, NEW b, Right(fr, b, Nobody),
         fr.f \in Squares => KeptOne(fr.f, b),
         NEW i, i = Head(fr.todo), i.do = "accumulate",
         NEW e, Follows(e, fr), NEW y, y = b[fr.f].value[i.k],
         NEW g, g = b[fr.f].gradient,
         e.out = Accumulated(fr.out, y, g)
  PROVE  Right(e, b, Nobody)
<1> DEFINE f == fr.f
           what == fr.what
           m == Outputs[Adaptee[f]]
<1>1. /\ f \in Functions /\ what \in Members(f) /\ Common(fr) /\ Common(e) /\ Ref(e) = Ref(fr)
      /\ e.f = f /\ e.what = what /\ e.x = fr.x /\ e.todo = Tail(fr.todo)
      /\ fr.todo \in Seq(Meant(f, what, fr.k)) /\ Fits(f, what, i)
      /\ fr.x \in [1..Inputs[f] -> Int]
  BY StepIsMeant DEF Common
<1>2. f \in Squares /\ what \in {"value", "gradient"}
  BY <1>1 DEF Fits
<1>3. what = "gradient"
  <2> SUFFICES ASSUME what = "value"
               PROVE  FALSE
    BY <1>2
  <2>1. ValueRight(fr, b, Nobody)
    BY <1>1, <1>2, RightBySort
  <2>2. fr.todo = SquaresValue \/ fr.todo = <<Do("square")>>
    BY <2>1 DEF ValueRight
  <2>3. Head(SquaresValue) = Do("refresh") /\ Head(<<Do("square")>>) = Do("square")
    BY DEF SquaresValue
  <2> QED BY <2>2, <2>3 DEF Do
<1>4. PICK s \in 0..2 * m + 1, n \in 0..m :
        /\ Vec(fr.out, 1) /\ Vec(fr.out[1], Inputs[fr.f])
        /\ s + 1 \in 0..2 * m + 1 /\ Left(Tail(fr.todo), SquaresGradient(f), s + 1)
        /\ SummedUp(fr, b, Nobody, s, n)
        /\ \/ i.do = "refresh" /\ s = 0 /\ n = 0
           \/ /\ s = 2 * n + 1 /\ n + 1 \in 1..m
              /\ i = Eval(Adaptee[fr.f], "gradient", n + 1, <<"buffer", "gradient">>)
           \/ s = 2 * n + 2 /\ n + 1 \in 1..m /\ i.do = "accumulate" /\ i.k = n + 1
  BY <1>2, <1>3, SumHead
<1>5. s = 2 * n + 2 /\ n + 1 \in 1..m /\ i.k = n + 1 /\ n \in Nat
  <2>1. \A h, q, k, into : Eval(h, q, k, into).do # "accumulate"
    BY DEF Eval
  <2>2. i.do # "refresh" /\ i # Eval(Adaptee[fr.f], "gradient", n + 1, <<"buffer", "gradient">>)
    BY <2>1
  <2>3. s = 2 * n + 2 /\ n + 1 \in 1..m /\ i.k = n + 1
    BY <1>4, <2>2
  <2>4. n \in 0..m /\ m \in Nat
    BY <1>2, <1>4, SquaresAre DEF f
  <2> QED BY <2>3, <2>4
<1>6. /\ b[f].x = fr.x /\ g = AnalyticalRow(Adaptee[f], n + 1, fr.x)
  BY <1>4, <1>5, NobodyAbove DEF SummedUp
<1> HIDE DEF m, f, what
<1>7. /\ DOMAIN fr.out = 1..1 /\ DOMAIN fr.out[1] = 1..Inputs[f] /\ 1 \in 1..1
      /\ fr.out = [r \in 1..1 |-> fr.out[r]]
  BY <1>4 DEF Vec, f
<1>8. /\ e.out[1] = [j \in 1..Inputs[f] |-> fr.out[1][j] + 2 * y * g[j]]
      /\ e.out = [r \in 1..1 |-> e.out[r]]
  BY <1>7 DEF Accumulated
<1>9. /\ Vec(e.out, 1) /\ Vec(e.out[1], Inputs[f])
      /\ \A j \in 1..Inputs[f] : e.out[1][j] = fr.out[1][j] + 2 * y * g[j]
  BY <1>8 DEF Vec
<1>10. ASSUME ~b[f].torn, NEW j \in 1..Inputs[f]
       PROVE  e.out[1][j] = Partly(e, n + 1, j)
  <2>1. fr.out[1][j] = Partly(fr, n, j)
    BY <1>4, <1>10 DEF SummedUp, f
  <2>2. y = Exact(Adaptee[f], fr.x)[n + 1]
    BY <1>2, <1>5, <1>6, <1>10 DEF KeptOne, f
  <2>3. 2 * y * g[j] = Term(fr, n + 1, j)
    BY <1>6, <2>2 DEF Term, f
  <2>4. Partly(fr, n + 1, j) = Partly(fr, n, j) + Term(fr, n + 1, j)
    BY SMTT(30), <1>1, <1>2, <1>5, PartlyOneMore DEF f, m
  <2>5. Partly(e, n + 1, j) = Partly(fr, n + 1, j)
    BY <1>1 DEF Partly, Term, f
  <2> QED BY <1>9, <2>1, <2>3, <2>4, <2>5
<1>11. SummedUp(e, b, Nobody, s + 1, n + 1)
  <2>1. /\ s + 1 = 2 * (n + 1) + 1 /\ n + 1 > 0 /\ s + 1 # 2 * (n + 1) + 2
        /\ s + 1 > 0
    BY <1>5
  <2>2. Nobody.into # <<"refreshed">>
    BY DEF Nobody
  <2>3. e.f = f /\ e.x = fr.x
    BY <1>1 DEF f
  <2> QED BY <1>6, <1>10, <2>1, <2>2, <2>3 DEF SummedUp
<1>12. SumRight(e, b, Nobody)
  <2>1. n + 1 \in 0..m
    BY <1>5
  <2> QED BY <1>1, <1>4, <1>9, <1>11, <2>1 DEF SumRight, f, m
<1> QED BY <1>1, <1>2, <1>3, <1>12, RightBySort DEF f, what

\* The lowest level calls nothing.
LEMMA LevelsArePositive ==
  ASSUME NEW f, NEW what
  PROVE  /\ Level(f, what) \in {1, 2, 3}
         /\ Computing(f, what) => Level(f, what) = 1
         /\ Differencing(f, what) \/ Summing(f, what) \/ Forwarding(f, what) =>
              Level(f, what) # 1
         /\ Level(f, what) = 3 => what \in Checks \/ (f \in Squares /\ what = "jacobian")
<1>1. "value" \notin Checks /\ "gradient" \notin Checks /\ "jacobian" \notin Checks
      /\ "hessian" \notin Checks /\ "derivative" \notin Checks
      /\ "valueAt" \notin Checks
  BY DEF Checks
<1>2. /\ f \in Given => f \notin Decorated /\ f \notin Squares
  BY DEF Given
<1> QED BY <1>1, <1>2 DEF Level, Computing, Differencing, Summing, Forwarding

\* A call within.
LEMMA EvalKeepsRight ==
  ASSUME NEW fr, Well(fr), fr.todo # <<>>, NEW b, Right(fr, b, Nobody),
         NEW i, i = Head(fr.todo), i.do = "eval",
         NEW e, Follows(e, fr), e.out = fr.out, e.local = fr.local,
         NEW above, above.into = i.into, above.k = i.k
  PROVE  Right(e, b, above)
<1> DEFINE f == fr.f
           what == fr.what
<1>1. /\ f \in Functions /\ what \in Members(f) /\ Common(fr) /\ Common(e) /\ Ref(e) = Ref(fr)
      /\ e.f = f /\ e.what = what /\ e.x = fr.x /\ e.k = fr.k /\ e.todo = Tail(fr.todo)
      /\ fr.todo \in Seq(Meant(f, what, fr.k)) /\ Fits(f, what, i)
      /\ i \in Meant(f, what, fr.k)
  BY StepIsMeant
<1>2. Calls(f, what, i.of, i.what, i.into) /\ MeantEval(f, what, fr.k, i)
  BY <1>1 DEF Fits, Meant
<1>3. ~Computing(f, what)
  <2>1. Level(i.of, i.what) < Level(f, what) /\ Level(i.of, i.what) \in {1, 2, 3}
    BY <1>2, LevelsArePositive DEF Calls
  <2>2. Level(f, what) # 1
    BY <2>1
  <2> QED BY <2>2, LevelsArePositive
<1>4. CASE Forwarding(f, what)
  <2>1. RowsRight(fr, b, Nobody)
    BY <1>1, <1>4, RightBySort
  <2>2. RowsRight(e, b, above)
    BY <1>1, <2>1, RowsFollow
  <2> QED BY <1>1, <1>4, <2>2, RightBySort
<1>5. CASE what \in Checks
  <2>1. WholesRight(fr, Nobody) /\ f \in Checked /\ fr.k \in Numbers(f, what)
    BY <1>1, <1>5, RightBySort, Sorts DEF Common
  <2> HIDE DEF f, what
  <2>2. PICK n \in 0..3 :
          /\ Left(fr.todo, Comparison(f, Shown(what), fr.k), n) /\ Vec(fr.out, 2)
          /\ \A c \in 1..2 : n > c =>
               fr.out[c] = Compared(fr, c) \/ (Nobody.into = <<"whole", c>> /\ n = c + 1)
    BY <2>1 DEF WholesRight, f, what
  <2>3. /\ n = 0 => i = Do("allocate")
        /\ n = 1 => i = Eval(f, Shown(what), fr.k, <<"whole", 1>>)
        /\ n = 2 => i = Eval(Checker[f], Shown(what), fr.k, <<"whole", 2>>)
        /\ n = 3 => i = Do("compare")
        /\ Left(e.todo, Comparison(f, Shown(what), fr.k), n + 1)
    BY <1>1, <1>5, <2>1, <2>2, ComparisonSteps
  <2>4. \A c \in 1..2 : Compared(e, c) = Compared(fr, c)
    BY <1>1 DEF Compared, f, what
  <2>5. n = 1 \/ n = 2
    <3>1. n # 0 /\ n # 3
      BY <2>3 DEF Do
    <3> QED BY <2>2, <3>1
  <2>6. above.into = <<"whole", n>>
    <3>1. i.into = <<"whole", n>>
      BY <2>3, <2>5 DEF Eval
    <3> QED BY <3>1
  <2>7. ASSUME NEW c \in 1..2, n + 1 > c
        PROVE  e.out[c] = Compared(e, c) \/ (above.into = <<"whole", c>> /\ n + 1 = c + 1)
    <3>1. CASE n > c
      BY <2>2, <2>4, <3>1, NobodyAbove
    <3>2. CASE ~(n > c)
      <4>1. n = c
        BY <2>5, <2>7, <3>2
      <4> QED BY <2>6, <4>1
    <3> QED BY <3>1, <3>2
  <2>8. WholesRight(e, above)
    <3>1. n + 1 \in 0..3
      BY <2>5
    <3> QED BY <1>1, <2>2, <2>3, <2>7, <3>1 DEF WholesRight, f, what
  <2> QED BY <1>1, <1>5, <2>8, RightBySort DEF f, what
<1>6. CASE Differencing(f, what)
  <2>1. f \in Decorated /\ what \in {"gradient", "jacobian"} /\ f \notin Squares /\ what \notin Checks
    BY <1>1, <1>6, Sorts DEF Differencing, Checks
  <2>2. Kind[f] = "simple" /\ i.into = <<"buffer", "result">>
    BY <1>2, <2>1 DEF MeantEval
  <2>3. EntriesRight(fr) /\ DOMAIN fr.local = SampleNames /\ SimplyReady(fr, b, Nobody)
    BY <1>1, <1>6, <2>2, RightBySort DEF DifferencesRight
  <2>4. EntriesRight(e)
    BY <1>1, <2>3, EntriesFollow
  <2>5. SimplyReady(e, b, above)
    BY <1>1, <2>2, <2>3, SimplyFollows
  <2>6. DifferencesRight(e, b, above)
    BY <1>1, <2>2, <2>3, <2>4, <2>5 DEF DifferencesRight
  <2> QED BY <1>1, <1>6, <2>6, RightBySort
<1>7. ~(f \in Squares /\ what = "value")
  BY <1>2 DEF MeantEval, Differencing, Decorated, Squares, Checks
<1>8. CASE f \in Squares /\ what = "gradient"
  <2> DEFINE m == Outputs[Adaptee[f]]
  <2>1. PICK s \in 0..2 * m + 1, n \in 0..m :
          /\ Vec(fr.out, 1) /\ Vec(fr.out[1], Inputs[fr.f])
          /\ s + 1 \in 0..2 * m + 1 /\ Left(Tail(fr.todo), SquaresGradient(f), s + 1)
          /\ SummedUp(fr, b, Nobody, s, n)
          /\ \/ i.do = "refresh" /\ s = 0 /\ n = 0
             \/ /\ s = 2 * n + 1 /\ n + 1 \in 1..m
                /\ i = Eval(Adaptee[fr.f], "gradient", n + 1, <<"buffer", "gradient">>)
             \/ s = 2 * n + 2 /\ n + 1 \in 1..m /\ i.do = "accumulate" /\ i.k = n + 1
    BY <1>8, SumHead
  <2>2. s = 2 * n + 1 /\ i.into = <<"buffer", "gradient">> /\ i.k = n + 1
    <3>1. i.do # "refresh" /\ i.do # "accumulate"
      OBVIOUS
    <3> QED BY <2>1, <3>1 DEF Eval
  <2>3. \A j : Partly(e, n, j) = Partly(fr, n, j)
    BY <1>1 DEF Partly, Term
  <2>4. SummedUp(e, b, above, s + 1, n)
    <3>1. s + 1 = 2 * n + 2 /\ s > 0 /\ s + 1 > 0 /\ above.into # <<"refreshed">>
      BY <2>1, <2>2
    <3> QED BY <1>1, <2>1, <2>2, <2>3, <3>1 DEF SummedUp
  <2>5. SumRight(e, b, above)
    BY <1>1, <2>1, <2>4 DEF SumRight
  <2> QED BY <1>1, <1>8, <2>5, RightBySort
<1> QED BY <1>1, <1>3, <1>4, <1>5, <1>6, <1>7, <1>8, Sorts DEF Summing

\* A sample is asked for.
LEMMA ProbeKeepsRight ==
  ASSUME NEW fr, Well(fr), fr.todo # <<>>, NEW b, Right(fr, b, Nobody),
         NEW i, i = Head(fr.todo), i.do = "probe",
         NEW e, Follows(e, fr), e.out = fr.out, e.local = fr.local,
         NEW c, c[fr.f].result = b[fr.f].result,
         NEW above, above.into = i.into, above.x = Moved(fr.x, i.j, i.d)
  PROVE  Right(e, c, above)
<1> DEFINE f == fr.f
           what == fr.what
<1>1. /\ f \in Functions /\ what \in Members(f) /\ Common(fr) /\ Common(e)
      /\ e.f = f /\ e.what = what /\ fr.todo \in Seq(Meant(f, what, fr.k))
      /\ Fits(f, what, i) /\ i \in Meant(f, what, fr.k)
  BY StepIsMeant
<1>2. f \in Decorated /\ what \in {"gradient", "jacobian"} /\ MeantProbe(f, i)
  BY <1>1 DEF Fits, Meant
<1>3. Differencing(f, what)
  BY <1>2 DEF Differencing
<1>4. DifferencesRight(fr, b, Nobody)
  BY <1>1, <1>3, RightBySort
<1>5. EntriesRight(e)
  BY <1>1, <1>4, EntriesFollow DEF DifferencesRight
<1>6. CASE Kind[f] = "simple"
  <2>1. above.into = <<"buffer", "resultEps">> /\ above.x = Moved(fr.x, i.j, Epsilon)
    BY <1>2, <1>6 DEF MeantProbe, MeantSample
  <2>2. SimplyReady(e, c, above)
    BY <1>1, <1>4, <1>6, <2>1, SimplyFollows DEF DifferencesRight
  <2>3. DifferencesRight(e, c, above)
    BY <1>1, <1>4, <1>5, <1>6, <2>2 DEF DifferencesRight
  <2> QED BY <1>1, <1>3, <2>3, RightBySort
<1>7. CASE Kind[f] # "simple"
  <2>1. Ready(e, above)
    BY <1>1, <1>4, <1>7, ReadyFollows DEF DifferencesRight
  <2>2. DifferencesRight(e, c, above)
    BY <1>1, <1>4, <1>5, <1>7, <2>1 DEF DifferencesRight
  <2> QED BY <1>1, <1>3, <2>2, RightBySort
<1> QED BY <1>6, <1>7

(***************************************************************************)
(* One call and its caller: what it answers is what the caller awaits.     *)
(***************************************************************************)

\* The shape of an answer.
LEMMA ReferenceShape ==
  ASSUME NEW f \in Functions, NEW what \in Members(f), NEW k, NEW x,
         Forwarding(f, what) \/ Differencing(f, what)
  PROVE  /\ Vec(Reference(f, what, k, x), RowCount(f, what))
         /\ Differencing(f, what) =>
              \A r \in 1..RowCount(f, what) : Vec(Reference(f, what, k, x)[r], Inputs[f])
<1>1. /\ f \in Given => f \notin Decorated /\ f \notin Squares
      /\ f \in Squares => f \notin Decorated /\ f \notin Given
      /\ f \in Decorated => f \notin Squares /\ f \notin Given
      /\ f \in Decorated \/ f \in Squares \/ f \in Given
  BY Kinds DEF Given
<1>2. CASE f \in Decorated /\ what = "value"
  <2>1. Reference(f, what, k, x) = <<Exact(Adaptee[f], x)>> /\ RowCount(f, what) = 1
    BY <1>1, <1>2 DEF Reference, RowCount
  <2>2. ~Differencing(f, what)
    BY <1>2 DEF Differencing
  <2> QED BY <2>1, <2>2 DEF Vec
<1>3. CASE f \in Given /\ what = "jacobian"
  <2>1. /\ Reference(f, what, k, x) = [i \in 1..Outputs[f] |-> AnalyticalRow(f, i, x)]
        /\ RowCount(f, what) = Outputs[f]
    BY <1>1, <1>3 DEF Reference, RowCount
  <2>2. ~Differencing(f, what)
    BY <1>1, <1>3 DEF Differencing
  <2> QED BY <2>1, <2>2 DEF Vec
<1>4. CASE f \in Squares /\ what = "jacobian"
  <2>1. Reference(f, what, k, x) = <<RowOfSquares(Adaptee[f], x)>> /\ RowCount(f, what) = 1
    BY <1>4, FunctionsAssumption DEF Reference, RowCount
  <2>2. ~Differencing(f, what)
    BY <1>1, <1>4 DEF Differencing
  <2> QED BY <2>1, <2>2 DEF Vec
<1>5. CASE Differencing(f, what)
  <2>1. f \in Decorated /\ Inputs[Adaptee[f]] = Inputs[f]
    BY <1>5, Kinds DEF Differencing
  <2>2. \A i : Vec(ExactRow(Adaptee[f], i, x), Inputs[f])
    BY <2>1 DEF ExactRow, Vec
  <2>3. CASE what = "gradient"
    <3>1. Reference(f, what, k, x) = <<ExactRow(Adaptee[f], k, x)>> /\ RowCount(f, what) = 1
      BY <1>1, <2>1, <2>3 DEF Reference, RowCount
    <3> QED BY <2>2, <3>1 DEF Vec
  <2>4. CASE what = "jacobian"
    <3>1. /\ Reference(f, what, k, x) = [i \in 1..Outputs[f] |-> ExactRow(Adaptee[f], i, x)]
          /\ RowCount(f, what) = Outputs[f]
      BY <1>1, <2>1, <2>4 DEF Reference, RowCount
    <3>2. \A r \in 1..Outputs[f] : Reference(f, what, k, x)[r] = ExactRow(Adaptee[f], r, x)
      BY <3>1
    <3>3. Vec(Reference(f, what, k, x), RowCount(f, what))
      BY <3>1 DEF Vec
    <3> QED BY <2>2, <3>1, <3>2, <3>3
  <2> QED BY <1>5, <2>3, <2>4 DEF Differencing
<1> QED BY <1>1, <1>2, <1>3, <1>4, <1>5 DEF Forwarding

\* Vectors with equal entries are equal.
LEMMA SameVectors ==
  ASSUME NEW n, NEW u, NEW v, Vec(u, n), Vec(v, n), \A i \in 1..n : u[i] = v[i]
  PROVE  u = v
<1>1. [i \in 1..n |-> u[i]] = [i \in 1..n |-> v[i]]
  OBVIOUS
<1> QED BY <1>1 DEF Vec

\* A call with nothing left to do has answered, but a sum of squares whose
\* base threw before.
Answered(fr, b) == fr.out = Ref(fr) \/ (fr.f \in Squares /\ b[fr.f].torn)

\* A call that has nothing left to do has answered.
LEMMA FinishedIsAnswered ==
  ASSUME NEW fr, Well(fr), NEW b, Right(fr, b, Nobody), fr.todo = <<>>
  PROVE  fr.what \notin Checks /\ Answered(fr, b)
<1> DEFINE f == fr.f
           what == fr.what
<1>1. f \in Functions /\ what \in Members(f) /\ Common(fr)
  BY RightBySort DEF Well
<1>2. ToSet(fr.todo) = {}
  BY DEF ToSet
<1>3. CASE Computing(f, what)
  <2>1. ComputeRight(fr)
    BY <1>1, <1>3, RightBySort
  <2>2. what \notin Checks
    BY <1>1, <1>3, Sorts
  <2> QED BY <1>2, <2>1, <2>2 DEF ComputeRight, Answered
<1>4. CASE Forwarding(f, what)
  <2>1. RowsRight(fr, b, Nobody) /\ what \notin Checks
    BY <1>1, <1>4, RightBySort, Sorts
  <2>2. Vec(Ref(fr), RowCount(f, what))
    BY <1>1, <1>4, ReferenceShape DEF Ref
  <2>3. \A r \in 1..RowCount(f, what) : ~Awaited(fr, Nobody, <<"row", r>>)
    BY <1>2, NobodyAbove DEF Awaited
  <2>4. /\ Vec(fr.out, RowCount(f, what))
        /\ \A r \in 1..RowCount(f, what) :
             fr.out[r] = Ref(fr)[r] \/ (f \in Squares /\ b[f].torn)
    BY <2>1, <2>3 DEF RowsRight
  <2>5. CASE f \in Squares /\ b[f].torn
    BY <2>1, <2>5 DEF Answered
  <2>6. CASE ~(f \in Squares /\ b[f].torn)
    <3>1. \A r \in 1..RowCount(f, what) : fr.out[r] = Ref(fr)[r]
      BY <2>4, <2>6
    <3>2. fr.out = Ref(fr)
      BY <2>2, <2>4, <3>1, SameVectors
    <3> QED BY <2>1, <3>2 DEF Answered
  <2> QED BY <2>5, <2>6
<1>5. what \notin Checks
  <2> SUFFICES ASSUME what \in Checks
               PROVE  FALSE
    OBVIOUS
  <2>1. WholesRight(fr, Nobody) /\ f \in Checked /\ fr.k \in Numbers(f, what)
    BY <1>1, RightBySort, Sorts DEF Common
  <2>2. fr.todo \in Seq(Meant(f, what, fr.k))
    BY <1>1 DEF Common
  <2> HIDE DEF f, what
  <2>3. PICK n \in 0..3 : Left(fr.todo, Comparison(f, Shown(what), fr.k), n)
    BY <2>1 DEF WholesRight, f, what
  <2>4. fr.todo # <<>>
    BY <2>1, <2>2, <2>3, ComparisonSteps
  <2> QED BY <2>4
<1>6. CASE Differencing(f, what)
  <2>1. EntriesRight(fr)
    BY <1>1, <1>6, RightBySort DEF DifferencesRight
  <2>2. /\ Vec(Ref(fr), RowCount(f, what))
        /\ \A r \in 1..RowCount(f, what) : Vec(Ref(fr)[r], Inputs[f])
    BY <1>1, <1>6, ReferenceShape DEF Ref
  <2>3. /\ Vec(fr.out, RowCount(f, what))
        /\ \A r \in 1..RowCount(f, what) :
             /\ Vec(fr.out[r], Inputs[f])
             /\ \A j \in 1..Inputs[f] : fr.out[r][j] = Ref(fr)[r][j]
    BY <1>2, <2>1 DEF EntriesRight
  <2>4. \A r \in 1..RowCount(f, what) : fr.out[r] = Ref(fr)[r]
    BY <2>2, <2>3, SameVectors
  <2>5. fr.out = Ref(fr)
    BY <2>2, <2>3, <2>4, SameVectors
  <2> QED BY <1>5, <2>5 DEF Answered
<1>7. CASE f \in Squares /\ what = "value"
  <2>1. ValueRight(fr, b, Nobody)
    BY <1>1, <1>7, RightBySort
  <2>2. fr.todo # SquaresValue /\ fr.todo # <<Do("square")>>
    <3>1. Len(SquaresValue) = 2 /\ Len(<<Do("square")>>) = 1 /\ Len(<<>>) = 0
      BY DEF SquaresValue
    <3> QED BY <3>1
  <2> QED BY <1>5, <1>7, <2>1, <2>2 DEF ValueRight, Answered
<1>8. CASE f \in Squares /\ what = "gradient"
  <2> DEFINE m == Outputs[Adaptee[f]]
  <2>1. SumRight(fr, b, Nobody)
    BY <1>1, <1>8, RightBySort
  <2>2. PICK s \in 0..2 * m + 1, n \in 0..m :
          Left(fr.todo, SquaresGradient(f), s) /\ SummedUp(fr, b, Nobody, s, n)
    BY <2>1 DEF SumRight
  <2>3. m \in Nat \ {0} /\ Len(SquaresGradient(f)) = 2 * m + 1
    BY <1>8, SquaresSteps
  <2>4. s = 2 * m + 1
    <3>1. 0 = (2 * m + 1) - s
      BY <2>2, <2>3 DEF Left
    <3> QED BY <2>2, <2>3, <3>1
  <2>5. n = m /\ n > 0
    <3>1. (s = 0 /\ n = 0) \/ s = 2 * n + 1 \/ s = 2 * n + 2
      BY <2>2 DEF SummedUp
    <3> HIDE DEF m
    <3> QED BY <2>2, <2>3, <2>4, <3>1
  <2>6. CASE b[f].torn
    BY <1>5, <1>8, <2>6 DEF Answered
  <2>7. CASE ~b[f].torn
    <3>1. \A j \in 1..Inputs[f] : fr.out[1][j] = Partly(fr, m, j)
      BY <2>2, <2>5, <2>7 DEF SummedUp
    <3>2. Ref(fr) = <<RowOfSquares(Adaptee[f], fr.x)>>
      BY <1>8 DEF Ref, Reference
    <3>3. RowOfSquares(Adaptee[f], fr.x) = [j \in 1..Inputs[f] |-> Partly(fr, m, j)]
      BY <1>8, SquaresAre DEF RowOfSquares, Partly, Term
    <3>4. Vec(fr.out, 1) /\ Vec(fr.out[1], Inputs[f])
      BY <2>1 DEF SumRight
    <3>5. fr.out[1] = RowOfSquares(Adaptee[f], fr.x)
      <4>1. fr.out[1] = [j \in 1..Inputs[f] |-> fr.out[1][j]]
        BY <3>4 DEF Vec
      <4> QED BY <3>1, <3>3, <4>1
    <3>6. fr.out = <<RowOfSquares(Adaptee[f], fr.x)>>
      <4>1. fr.out = [j \in 1..1 |-> fr.out[j]]
        BY <3>4 DEF Vec
      <4> QED BY <3>5, <4>1
    <3> QED BY <1>5, <3>2, <3>6 DEF Answered
  <2> QED BY <2>6, <2>7
<1> QED BY <1>1, <1>3, <1>4, <1>5, <1>6, <1>7, <1>8, Sorts DEF Summing

\* What a call of each sort asked for, and what it is answered.
LEMMA AskedBySort ==
  ASSUME NEW c, Well(c), NEW fr, Asked(c, fr)
  PROVE  LET f == c.f
             what == c.what
         IN /\ Forwarding(f, what) =>
                 /\ fr.x = c.x
                 /\ \/ /\ f \in Decorated /\ what = "value" /\ fr.into = <<"row", 1>>
                       /\ fr.f = Adaptee[f] /\ fr.what = "value"
                    \/ /\ f \notin Decorated /\ what = "jacobian" /\ fr.into = <<"row", fr.k>>
                       /\ fr.f = f /\ fr.what = "gradient" /\ fr.k \in 1..Outputs[f]
            /\ what \in Checks =>
                 /\ fr.x = c.x /\ fr.what = Shown(what) /\ fr.k = c.k
                 /\ \/ fr.into = <<"whole", 1>> /\ fr.f = f
                    \/ fr.into = <<"whole", 2>> /\ fr.f = Checker[f]
            /\ Differencing(f, what) =>
                 /\ fr.f = Adaptee[f] /\ fr.what = "value"
                 /\ \/ Kind[f] = "simple" /\ fr.into = <<"buffer", "result">> /\ fr.x = c.x
                    \/ Kind[f] = "simple" /\ fr.into = <<"buffer", "resultEps">>
                    \/ /\ Kind[f] # "simple"
                       /\ fr.into \in {"sample"} \X SampleNames \X (1..Outputs[f])
            /\ Summing(f, what) =>
                 /\ fr.x = c.x /\ fr.f = Adaptee[f]
                 /\ \/ fr.into = <<"refreshed">> /\ fr.what = "value"
                    \/ /\ fr.into = <<"buffer", "gradient">> /\ what = "gradient"
                       /\ fr.what = "gradient"
<1> DEFINE f == c.f
           what == c.what
           i == Eval(fr.f, fr.what, fr.k, fr.into)
<1>1. i.of = fr.f /\ i.what = fr.what /\ i.k = fr.k /\ i.into = fr.into
  BY DEF Eval
<1>2. f \in Functions /\ what \in Members(f)
  BY DEF Well
<1>3. \/ MeantEval(f, what, c.k, i) /\ fr.x = c.x
      \/ /\ fr.f = Adaptee[f] /\ fr.what = "value"
         /\ \/ Differencing(f, what) /\ MeantSample(f, fr.into)
            \/ Summing(f, what) /\ fr.into = <<"refreshed">> /\ fr.x = c.x
  BY DEF Asked, Summing
<1> HIDE DEF i
<1>4. ASSUME MeantEval(f, what, c.k, i)
      PROVE  /\ fr.k \in Numbers(fr.f, fr.what)
             /\ \/ /\ fr.into = <<"row", 1>> /\ f \in Decorated /\ what = "value"
                   /\ fr.f = Adaptee[f] /\ fr.what = "value"
                \/ /\ fr.into = <<"row", fr.k>> /\ f \notin Decorated /\ what = "jacobian"
                   /\ fr.f = f /\ fr.what = "gradient"
                \/ /\ what \in Checks /\ fr.what = Shown(what) /\ fr.k = c.k
                   /\ \/ fr.into = <<"whole", 1>> /\ fr.f = f
                      \/ fr.into = <<"whole", 2>> /\ fr.f = Checker[f]
                \/ /\ fr.into = <<"buffer", "result">> /\ Differencing(f, what)
                   /\ Kind[f] = "simple" /\ fr.f = Adaptee[f] /\ fr.what = "value"
                \/ /\ fr.into = <<"buffer", "gradient">> /\ f \in Squares /\ what = "gradient"
                   /\ fr.f = Adaptee[f] /\ fr.what = "gradient"
  BY <1>1, <1>4 DEF MeantEval
<1> HIDE DEF f, what
<1>5. /\ Computing(f, what) =>
           ~Forwarding(f, what) /\ what \notin Checks /\ ~Differencing(f, what)
             /\ f \notin Squares
      /\ Forwarding(f, what) =>
           what \notin Checks /\ ~Differencing(f, what) /\ ~Summing(f, what)
      /\ what \in Checks => f \in Checked /\ ~Differencing(f, what) /\ f \notin Squares
      /\ Differencing(f, what) => f \notin Squares
  BY <1>2, Sorts DEF f, what
<1>6. Numbers(f, "gradient") = 1..Outputs[f]
  BY DEF Numbers
<1>7. ASSUME Forwarding(f, what)
      PROVE  /\ fr.x = c.x
             /\ \/ /\ f \in Decorated /\ what = "value" /\ fr.into = <<"row", 1>>
                   /\ fr.f = Adaptee[f] /\ fr.what = "value"
                \/ /\ f \notin Decorated /\ what = "jacobian" /\ fr.into = <<"row", fr.k>>
                   /\ fr.f = f /\ fr.what = "gradient" /\ fr.k \in 1..Outputs[f]
  BY <1>3, <1>4, <1>5, <1>6, <1>7 DEF Summing
<1>8. ASSUME what \in Checks
      PROVE  /\ fr.x = c.x /\ fr.what = Shown(what) /\ fr.k = c.k
             /\ \/ fr.into = <<"whole", 1>> /\ fr.f = f
                \/ fr.into = <<"whole", 2>> /\ fr.f = Checker[f]
  BY <1>3, <1>4, <1>5, <1>8 DEF Summing, Checks
<1>9. ASSUME Differencing(f, what)
      PROVE  /\ fr.f = Adaptee[f] /\ fr.what = "value"
             /\ \/ Kind[f] = "simple" /\ fr.into = <<"buffer", "result">> /\ fr.x = c.x
                \/ Kind[f] = "simple" /\ fr.into = <<"buffer", "resultEps">>
                \/ /\ Kind[f] # "simple"
                   /\ fr.into \in {"sample"} \X SampleNames \X (1..Outputs[f])
  <2>1. f \in Decorated /\ what \in {"gradient", "jacobian"}
    BY <1>9 DEF Differencing
  <2> QED BY <1>3, <1>4, <1>5, <1>9, <2>1 DEF Summing, MeantSample
<1>10. ASSUME Summing(f, what)
       PROVE  /\ fr.x = c.x /\ fr.f = Adaptee[f]
              /\ \/ fr.into = <<"refreshed">> /\ fr.what = "value"
                 \/ /\ fr.into = <<"buffer", "gradient">> /\ what = "gradient"
                    /\ fr.what = "gradient"
  <2>1. f \in Squares /\ what \in {"value", "gradient"} /\ f \notin Decorated
    BY <1>10 DEF Summing, Squares, Decorated
  <2> QED BY <1>3, <1>4, <1>5, <1>10, <2>1
<1> QED BY <1>7, <1>8, <1>9, <1>10 DEF f, what

\* The value of a given function.
LEMMA ValueIsAnswered ==
  ASSUME NEW fr, fr.f \in Given, fr.what \in {"value", "gradient"}, NEW b, Answered(fr, b)
  PROVE  /\ fr.what = "value" => fr.out = <<Exact(fr.f, fr.x)>> /\ fr.out[1] = Exact(fr.f, fr.x)
         /\ fr.what = "gradient" => fr.out[1] = AnalyticalRow(fr.f, fr.k, fr.x)
<1>1. fr.f \notin Squares
  BY DEF Given
<1>2. fr.out = Computed(fr.f, fr.what, fr.k, fr.x)
  BY <1>1 DEF Answered, Ref, Reference
<1> QED BY <1>2 DEF Computed

\* Where an answer is stored.
OthersKept(d, b, f) == \A g \in DOMAIN b : g # f => d[g] = b[g]

\* A row goes into the answer of the caller.
LEMMA RowStored ==
  ASSUME NEW c, Well(c), NEW into, NEW out,
         NEW e, NEW d, e = Stored(c, into, out), d = Buffered(c.f, into, out),
         NEW r, into = <<"row", r>>
  PROVE  e.out = [c.out EXCEPT ![r] = out[1]] /\ Resumes(e, c) /\ d = buffers
<1> DEFINE v == [c.out EXCEPT ![r] = out[1]]
<1>1. into[1] = "row" /\ into[2] = r
  OBVIOUS
<1>2. e = [c EXCEPT !.out = v]
  BY <1>1 DEF Stored
<1>3. d = buffers
  BY <1>1 DEF Buffered
<1> HIDE DEF v
<1>4. e.out = v /\ Resumes(e, c)
  BY <1>2 DEF Well, Fields, Resumes
<1> QED BY <1>3, <1>4 DEF v

\* So does a matrix that a check compares.
LEMMA WholeStored ==
  ASSUME NEW c, Well(c), NEW into, NEW out,
         NEW e, NEW d, e = Stored(c, into, out), d = Buffered(c.f, into, out),
         NEW r, into = <<"whole", r>>
  PROVE  e.out = [c.out EXCEPT ![r] = out] /\ Resumes(e, c) /\ d = buffers
<1> DEFINE v == [c.out EXCEPT ![r] = out]
<1>1. into[1] = "whole" /\ into[2] = r
  OBVIOUS
<1>2. e = [c EXCEPT !.out = v]
  BY <1>1 DEF Stored
<1>3. d = buffers
  BY <1>1 DEF Buffered
<1> HIDE DEF v
<1>4. e.out = v /\ Resumes(e, c)
  BY <1>2 DEF Well, Fields, Resumes
<1> QED BY <1>3, <1>4 DEF v

\* A sample goes into the caller's own variables.
LEMMA SampleStored ==
  ASSUME NEW c, Well(c), NEW into, NEW out,
         NEW e, NEW d, e = Stored(c, into, out), d = Buffered(c.f, into, out),
         into[1] = "sample"
  PROVE  /\ e.local = [c.local EXCEPT ![into[2]] = out[1][into[3]]]
         /\ Resumes(e, c) /\ e.out = c.out
         /\ OthersKept(d, buffers, c.f)
<1> DEFINE v == [c.local EXCEPT ![into[2]] = out[1][into[3]]]
<1>1. e = [c EXCEPT !.local = v]
  BY DEF Stored
<1>2. d = [buffers EXCEPT ![c.f].tmpResult = out[1]]
  BY DEF Buffered
<1>3. OthersKept(d, buffers, c.f)
  BY <1>2 DEF OthersKept
<1> HIDE DEF v
<1>4. e.local = v /\ Resumes(e, c) /\ e.out = c.out
  BY <1>1 DEF Well, Fields, Resumes
<1> QED BY <1>3, <1>4 DEF v

\* A buffered value goes into the buffers of the caller's function alone.
LEMMA BufferStored ==
  ASSUME NEW c, Well(c), NEW into, NEW out,
         NEW e, NEW d, e = Stored(c, into, out), d = Buffered(c.f, into, out),
         NEW r, into = <<"buffer", r>>
  PROVE  /\ e = c
         /\ c.f \in DOMAIN buffers => d[c.f] = [buffers[c.f] EXCEPT ![r] = out[1]]
         /\ OthersKept(d, buffers, c.f)
<1>1. into[1] = "buffer" /\ into[2] = r
  OBVIOUS
<1>2. e = c /\ d = [buffers EXCEPT ![c.f][r] = out[1]]
  BY <1>1 DEF Stored, Buffered
<1> QED BY <1>2 DEF OthersKept

OfSquares(r) == DOMAIN r = {"x", "value", "torn", "gradient"}
Refreshed(d, b, f, v) ==
  /\ DOMAIN d[f] = {"x", "value", "torn", "gradient"}
  /\ d[f].value = v /\ d[f].torn = FALSE
  /\ d[f].x = b[f].x /\ d[f].gradient = b[f].gradient
  /\ OthersKept(d, b, f)

\* A refreshed value is kept with the argument it is of.
LEMMA RefreshedStored ==
  ASSUME NEW c, Well(c), NEW into, NEW out, into[1] = "refreshed",
         NEW e, NEW d, e = Stored(c, into, out), d = Buffered(c.f, into, out),
         NEW f, f = c.f, f \in DOMAIN buffers, OfSquares(buffers[f])
  PROVE  e = c /\ Refreshed(d, buffers, f, out[1])
<1>1. e = c
  BY DEF Stored
<1> DEFINE w == out[1]
<1>2. d = [buffers EXCEPT ![f].value = w, ![f].torn = FALSE]
  BY DEF Buffered
<1> HIDE DEF w
<1>3. OthersKept(d, buffers, f)
  BY <1>2 DEF OthersKept
<1>4. d[f] = [buffers[f] EXCEPT !.value = w, !.torn = FALSE]
  BY <1>2
<1>5. /\ DOMAIN d[f] = {"x", "value", "torn", "gradient"}
      /\ d[f].value = w /\ d[f].torn = FALSE
      /\ d[f].x = buffers[f].x /\ d[f].gradient = buffers[f].gradient
  BY <1>4 DEF OfSquares
<1> QED BY <1>1, <1>3, <1>5 DEF w, Refreshed

\* The answer to a call is a row of what another answers.
LEMMA RowsResume ==
  ASSUME NEW c, Well(c), NEW fr, Asked(c, fr), Calls(c.f, c.what, fr.f, fr.what, fr.into),
         Forwarding(c.f, c.what), NEW b, Right(c, b, Seen(fr)), Answered(fr, b),
         NEW e, Resumes(e, c), \A r : fr.into = <<"row", r>> => e.out = [c.out EXCEPT ![r] = fr.out[1]]
  PROVE  Right(e, b, Nobody)
<1> DEFINE f == c.f
           what == c.what
<1>1. f \in Functions /\ what \in Members(f) /\ Common(c) /\ Common(e)
  BY RightBySort, CommonFollows DEF Well
<1>2. e.f = f /\ e.what = what /\ e.k = c.k /\ e.x = c.x /\ e.todo = c.todo /\ Ref(e) = Ref(c)
  BY DEF Resumes, Ref
<1>3. RowsRight(c, b, Seen(fr))
  BY <1>1, RightBySort
<1>4. PICK r : /\ r \in 1..RowCount(f, what) /\ fr.into = <<"row", r>>
               /\ fr.out[1] = Ref(c)[r] \/ (f \in Squares /\ b[f].torn)
  <2>1. CASE /\ f \in Decorated /\ what = "value" /\ fr.into = <<"row", 1>>
             /\ fr.f = Adaptee[f] /\ fr.what = "value" /\ fr.x = c.x
    <3>1. Adaptee[f] \in Given /\ f \notin Squares /\ f \notin Given
      BY <2>1, FunctionsAssumption DEF Decorated, Squares, Given
    <3>2. fr.out[1] = Exact(Adaptee[f], c.x)
      BY <2>1, <3>1, ValueIsAnswered
    <3>3. Ref(c) = <<Exact(Adaptee[f], c.x)>>
      BY <2>1, <3>1 DEF Ref, Reference
    <3>4. 1 \in 1..RowCount(f, what)
      BY <2>1 DEF RowCount
    <3> QED BY <2>1, <3>2, <3>3, <3>4
  <2>2. CASE /\ f \notin Decorated /\ what = "jacobian" /\ fr.into = <<"row", fr.k>>
             /\ fr.f = f /\ fr.what = "gradient" /\ fr.k \in 1..Outputs[f] /\ fr.x = c.x
    <3>1. fr.k \in 1..RowCount(f, what)
      BY <2>2 DEF RowCount
    <3>2. CASE f \in Given
      <4>1. fr.out[1] = AnalyticalRow(f, fr.k, c.x)
        BY <2>2, <3>2, ValueIsAnswered
      <4>2. Ref(c) = [i \in 1..Outputs[f] |-> AnalyticalRow(f, i, c.x)]
        BY <2>2, <3>2 DEF Ref, Reference, Given
      <4> QED BY <2>2, <3>1, <4>1, <4>2
    <3>3. CASE f \in Squares
      <4>1. fr.k = 1
        <5>1. Outputs[f] = 1
          BY <3>3, SquaresAre
        <5> QED BY <2>2, <5>1
      <4>2. Ref(c) = <<RowOfSquares(Adaptee[f], c.x)>> /\ Ref(fr) = Ref(c)
        BY <2>2, <3>3 DEF Ref, Reference
      <4>3. fr.out = Ref(c) \/ (f \in Squares /\ b[f].torn)
        BY <2>2, <4>2 DEF Answered
      <4> QED BY <2>2, <3>1, <4>1, <4>2, <4>3
    <3> QED BY <1>1, <2>2, <3>2, <3>3 DEF Given
  <2> QED BY <2>1, <2>2, AskedBySort
<1>5. e.out = [c.out EXCEPT ![r] = fr.out[1]]
  BY <1>4
<1>6. Vec(c.out, RowCount(f, what)) /\ DOMAIN c.out = 1..RowCount(f, what)
  <2>1. Vec(c.out, RowCount(f, what))
    BY <1>3 DEF RowsRight
  <2> QED BY <2>1 DEF Vec
<1>7. Vec(e.out, RowCount(f, what))
  BY <1>5, <1>6 DEF Vec
<1>8. ASSUME NEW q \in 1..RowCount(f, what)
      PROVE  \/ e.out[q] = Ref(e)[q] \/ Awaited(e, Nobody, <<"row", q>>)
             \/ e.f \in Squares /\ b[e.f].torn
  <2>1. CASE q = r
    BY <1>2, <1>4, <1>5, <1>6, <2>1
  <2>2. CASE q # r
    <3>1. Seen(fr).into # <<"row", q>>
      BY <1>4, <2>2 DEF Seen
    <3>2. \/ c.out[q] = Ref(c)[q] \/ Awaited(c, Seen(fr), <<"row", q>>)
          \/ f \in Squares /\ b[f].torn
      BY <1>3 DEF RowsRight
    <3> QED BY <1>2, <1>5, <1>6, <2>2, <3>1, <3>2 DEF Awaited
  <2> QED BY <2>1, <2>2
<1>9. RowsRight(e, b, Nobody)
  BY <1>2, <1>7, <1>8 DEF RowsRight
<1> QED BY <1>1, <1>2, <1>9, RightBySort

\* It is one of the two answers a check compares.
LEMMA WholesResume ==
  ASSUME NEW c, Well(c), NEW fr, Asked(c, fr),
         c.what \in Checks, NEW b, Right(c, b, Seen(fr)), Answered(fr, b),
         NEW e, Resumes(e, c), \A r : fr.into = <<"whole", r>> => e.out = [c.out EXCEPT ![r] = fr.out]
  PROVE  Right(e, b, Nobody)
<1> DEFINE f == c.f
           what == c.what
<1>1. f \in Functions /\ what \in Members(f) /\ Common(c) /\ Common(e)
  BY RightBySort, CommonFollows DEF Well
<1>2. e.f = f /\ e.what = what /\ e.k = c.k /\ e.x = c.x /\ e.todo = c.todo
  BY DEF Resumes
<1>3. WholesRight(c, Seen(fr)) /\ f \in Checked
  BY <1>1, RightBySort, Sorts
<1>4. PICK q : /\ q \in 1..2 /\ fr.into = <<"whole", q>> /\ fr.f \notin Squares
               /\ fr.f = IF q = 1 THEN f ELSE Checker[f]
  <2>1. f \notin Squares /\ Checker[f] \notin Squares
    BY <1>3, FunctionsAssumption DEF Squares, Given
  <2> QED BY <2>1, AskedBySort
<1>5. fr.out = Compared(c, q)
  <2>1. fr.x = c.x /\ fr.k = c.k /\ fr.what = Shown(what)
    BY AskedBySort
  <2> QED BY <1>4, <2>1 DEF Answered, Ref, Compared
<1>6. e.out = [c.out EXCEPT ![q] = fr.out]
  BY <1>4
<1>7. PICK n \in 0..3 :
        /\ Left(c.todo, Comparison(f, Shown(what), c.k), n) /\ Vec(c.out, 2)
        /\ \A r \in 1..2 : n > r =>
             c.out[r] = Compared(c, r) \/ (Seen(fr).into = <<"whole", r>> /\ n = r + 1)
  BY <1>3 DEF WholesRight
<1>8. DOMAIN c.out = 1..2 /\ Vec(e.out, 2)
  BY <1>6, <1>7 DEF Vec
<1>9. \A r \in 1..2 : n > r => e.out[r] = Compared(e, r)
  <2> TAKE r \in 1..2
  <2> HAVE n > r
  <2>1. Compared(e, r) = Compared(c, r)
    BY <1>2 DEF Compared
  <2>2. CASE r = q
    BY <1>5, <1>6, <1>8, <2>1, <2>2
  <2>3. CASE r # q
    <3>1. Seen(fr).into # <<"whole", r>>
      BY <1>4, <2>3 DEF Seen
    <3> QED BY <1>6, <1>7, <1>8, <2>1, <2>3, <3>1
  <2> QED BY <2>2, <2>3
<1>10. WholesRight(e, Nobody)
  BY <1>2, <1>7, <1>8, <1>9 DEF WholesRight
<1> QED BY <1>1, <1>2, <1>10, RightBySort

\* It is a sample, or what the samples are compared to.
LEMMA DifferencesResume ==
  ASSUME NEW c, Well(c), NEW fr, Asked(c, fr), Differencing(c.f, c.what),
         Right(c, buffers, Seen(fr)), NEW b, Answered(fr, b), Sized
  PROVE  Right(Stored(c, fr.into, fr.out), Buffered(c.f, fr.into, fr.out), Nobody)
<1> DEFINE f == c.f
           what == c.what
           e == Stored(c, fr.into, fr.out)
           d == Buffered(c.f, fr.into, fr.out)
<1>1. f \in Functions /\ what \in Members(f) /\ Common(c) /\ f \in Decorated
  BY RightBySort DEF Well, Differencing
<1>2. DifferencesRight(c, buffers, Seen(fr)) /\ EntriesRight(c) /\ DOMAIN c.local = SampleNames
  BY <1>1, RightBySort DEF DifferencesRight
<1>3. fr.out[1] = Exact(Adaptee[f], fr.x)
  <2>1. fr.f \in Given /\ fr.f = Adaptee[f] /\ fr.what = "value"
    BY <1>1, AskedBySort, Kinds
  <2> QED BY <2>1, ValueIsAnswered
<1>4. f \in DOMAIN buffers /\ DOMAIN buffers[f] = {"xEps", "result", "resultEps", "tmpResult"}
  BY <1>1 DEF Sized, SizedBuffers
<1>5. Resumes(c, c) /\ Seen(fr).into = fr.into /\ Seen(fr).x = fr.x
  BY DEF Resumes, Seen
<1>6. CASE Kind[f] = "simple"
  <2>1. SimplyReady(c, buffers, Seen(fr))
    BY <1>2, <1>6 DEF DifferencesRight
  <2>2. PICK r : /\ fr.into = <<"buffer", r>> /\ r \in {"result", "resultEps"}
                 /\ r = "result" => fr.x = c.x
    BY <1>6, AskedBySort
  <2>3. e = c /\ d[f] = [buffers[f] EXCEPT ![r] = fr.out[1]]
    BY <1>4, <2>2, BufferStored
  <2> HIDE DEF d, e, f, what
  <2>4. SimplyReady(c, d, Nobody)
    <3>1. CASE r = "result"
      <4>1. d[f].result = fr.out[1] /\ d[f].resultEps = buffers[f].resultEps
        BY <1>4, <2>3, <3>1
      <4>2. fr.into = <<"buffer", "result">> /\ fr.out[1] = Exact(Adaptee[f], c.x)
        BY <1>3, <2>2, <3>1
      <4> QED BY <1>5, <2>1, <4>1, <4>2, SimplyResumes DEF f
    <3>2. CASE r = "resultEps"
      <4>1. d[f].resultEps = fr.out[1] /\ d[f].result = buffers[f].result
        BY <1>4, <2>3, <3>2
      <4>2. fr.into = <<"buffer", "resultEps">>
        BY <2>2, <3>2
      <4> QED BY <1>3, <1>5, <2>1, <4>1, <4>2, SimplyResumes DEF f
    <3> QED BY <2>2, <3>1, <3>2
  <2>5. DifferencesRight(c, d, Nobody)
    BY <1>2, <1>6, <2>4 DEF DifferencesRight, f
  <2>6. Right(c, d, Nobody)
    BY <1>1, <2>5, RightBySort DEF f, what
  <2> QED BY <2>3, <2>6 DEF d, e
<1>7. CASE Kind[f] # "simple"
  <2>1. Ready(c, Seen(fr))
    BY <1>2, <1>7 DEF DifferencesRight
  <2>2. fr.into[1] = "sample"
    BY <1>7, AskedBySort
  <2>3. /\ e.local = [c.local EXCEPT ![fr.into[2]] = fr.out[1][fr.into[3]]]
        /\ Resumes(e, c) /\ e.out = c.out
    BY <2>2, SampleStored
  <2> HIDE DEF d, e
  <2>4. Ready(e, Nobody) /\ DOMAIN e.local = SampleNames
    <3>1. c.todo \in Seq(Meant(f, what, c.k))
      BY <1>1 DEF Common
    <3>2. e.local = [c.local EXCEPT ![Seen(fr).into[2]] =
                       Exact(Adaptee[c.f], Seen(fr).x)[Seen(fr).into[3]]]
      BY <1>3, <1>5, <2>3
    <3> QED BY <1>2, <1>5, <2>1, <2>2, <2>3, <3>1, <3>2, SampleReturns
  <2>5. EntriesRight(e) /\ e.f = f /\ e.what = what /\ Common(e)
    <3>1. EntriesRight(e)
      BY <1>2, <2>3, EntriesResume
    <3>2. Common(e)
      BY <1>1, <2>3, CommonFollows
    <3> QED BY <2>3, <3>1, <3>2 DEF Resumes
  <2>6. DifferencesRight(e, d, Nobody)
    BY <1>7, <2>4, <2>5 DEF DifferencesRight
  <2>7. Right(e, d, Nobody)
    BY <1>1, <2>5, <2>6, RightBySort
  <2> QED BY <2>7 DEF d, e
<1> QED BY <1>6, <1>7

\* It is what a sum of squares keeps.
LEMMA SumResumes ==
  ASSUME NEW c, Well(c), NEW fr, Asked(c, fr), Summing(c.f, c.what),
         Right(c, buffers, Seen(fr)), NEW b, Answered(fr, b), Sized, Kept(buffers)
  PROVE  LET d == Buffered(c.f, fr.into, fr.out)
         IN Stored(c, fr.into, fr.out) = c /\ Right(c, d, Nobody) /\ Kept(d)
<1> DEFINE f == c.f
           what == c.what
           d == Buffered(c.f, fr.into, fr.out)
<1>1. /\ f \in Functions /\ what \in Members(f) /\ Common(c) /\ f \in Squares
      /\ what \in {"value", "gradient"}
  BY RightBySort DEF Well, Summing
<1>2. /\ f \in DOMAIN buffers /\ OfSquares(buffers[f])
      /\ DOMAIN buffers[f] = {"x", "value", "torn", "gradient"}
  BY <1>1 DEF Sized, Kept, OfSquares
<1>3. fr.x = c.x /\ fr.f = Adaptee[f] /\ fr.f \in Given
  BY <1>1, AskedBySort, SquaresAre
<1>4. Seen(fr).into = fr.into /\ Seen(fr).k = fr.k
  BY DEF Seen
<1>5. CASE fr.into = <<"refreshed">> /\ fr.what = "value"
  <2> DEFINE e == Stored(c, fr.into, fr.out)
  <2>1. e = Stored(c, fr.into, fr.out) /\ d = Buffered(c.f, fr.into, fr.out) /\ f = c.f
        /\ fr.into[1] = "refreshed"
    BY <1>5
  <2> HIDE DEF e, d, f
  <2>2. e = c /\ Refreshed(d, buffers, f, fr.out[1])
    BY <1>2, <2>1, RefreshedStored
  <2>3. /\ e = c
        /\ d[f].x = buffers[f].x /\ d[f].value = fr.out[1] /\ d[f].torn = FALSE
        /\ d[f].gradient = buffers[f].gradient
        /\ DOMAIN d[f] = {"x", "value", "torn", "gradient"}
        /\ OthersKept(d, buffers, f)
    BY <2>2 DEF Refreshed
  <2> USE DEF f
  <2>4. fr.out[1] = Exact(Adaptee[f], c.x)
    BY <1>3, <1>5, ValueIsAnswered
  <2>5. Right(c, d, Nobody) /\ buffers[f].x = c.x
    <3>1. CASE what = "value"
      <4>1. ValueRight(c, buffers, Seen(fr))
        BY <1>1, <3>1, RightBySort
      <4>2. c.todo = <<Do("square")>> /\ buffers[f].x = c.x
        BY <1>4, <1>5, <4>1 DEF ValueRight
      <4>3. ValueRight(c, d, Nobody)
        BY <2>3, <4>1, <4>2 DEF ValueRight
      <4> QED BY <1>1, <3>1, <4>2, <4>3, RightBySort
    <3>2. CASE what = "gradient"
      <4> DEFINE m == Outputs[Adaptee[f]]
      <4>1. SumRight(c, buffers, Seen(fr))
        BY <1>1, <3>2, RightBySort
      <4>2. PICK s \in 0..2 * m + 1, n \in 0..m :
              /\ Left(c.todo, SquaresGradient(f), s)
              /\ SummedUp(c, buffers, Seen(fr), s, n)
        BY <4>1 DEF SumRight
      <4>3. s > 0 /\ n = 0 /\ buffers[f].x = c.x
        BY <1>4, <1>5, <4>2 DEF SummedUp
      <4>4. <<"refreshed">> # <<"buffer", "gradient">> /\ Nobody.into # <<"buffer", "gradient">>
        <5>1. Len(<<"refreshed">>) = 1 /\ Len(<<"buffer", "gradient">>) = 2
          OBVIOUS
        <5> QED BY <5>1, NobodyAbove
      <4>5. Nobody.into # <<"refreshed">>
        BY DEF Nobody
      <4>6. SummedUp(c, d, Nobody, s, n)
        <5>1. \A j \in 1..Inputs[f] : c.out[1][j] = Partly(c, n, j)
          BY <4>2, <4>3 DEF SummedUp
        <5>2. s = 2 * n + 2 => d[f].gradient = AnalyticalRow(Adaptee[f], n + 1, c.x)
          BY <1>4, <1>5, <2>3, <4>2, <4>4 DEF SummedUp
        <5>3. (s = 0 /\ n = 0) \/ s = 2 * n + 1 \/ s = 2 * n + 2
          BY <4>2 DEF SummedUp
        <5> HIDE DEF f
        <5> QED BY <2>3, <4>3, <4>4, <4>5, <5>1, <5>2, <5>3 DEF SummedUp, f
      <4>7. SumRight(c, d, Nobody)
        BY <4>1, <4>2, <4>6 DEF SumRight
      <4> QED BY <1>1, <3>2, <4>3, <4>7, RightBySort
    <3> QED BY <1>1, <3>1, <3>2
  <2>6. Kept(d)
    <3> SUFFICES ASSUME NEW g \in Squares
                 PROVE  /\ DOMAIN d[g] = {"x", "value", "torn", "gradient"} /\ d[g].torn \in BOOLEAN
                        /\ d[g].torn \/ d[g].value = Exact(Adaptee[g], d[g].x)
      BY DEF Kept
    <3>1. CASE g = f
      BY <2>3, <2>4, <2>5, <3>1 DEF OfSquares
    <3>2. CASE g # f
      <4>1. d[g] = buffers[g]
        BY <2>3, <3>2 DEF Sized, OthersKept
      <4> QED BY <4>1 DEF Kept
    <3> QED BY <3>1, <3>2
  <2> QED BY <2>3, <2>5, <2>6 DEF d, e
<1>6. CASE fr.into = <<"buffer", "gradient">> /\ what = "gradient" /\ fr.what = "gradient"
  <2>1. /\ Stored(c, fr.into, fr.out) = c
        /\ d[f] = [buffers[f] EXCEPT !["gradient"] = fr.out[1]]
        /\ OthersKept(d, buffers, f)
    BY <1>2, <1>6, BufferStored
  <2>2. fr.out[1] = AnalyticalRow(Adaptee[f], fr.k, c.x)
    BY <1>3, <1>6, ValueIsAnswered
  <2> HIDE DEF d
  <2>3. /\ d[f].x = buffers[f].x /\ d[f].value = buffers[f].value /\ d[f].torn = buffers[f].torn
        /\ d[f].gradient = fr.out[1]
        /\ DOMAIN d[f] = {"x", "value", "torn", "gradient"}
        /\ OthersKept(d, buffers, f)
    BY <1>2, <2>1
  <2>4. Right(c, d, Nobody)
    <3> DEFINE m == Outputs[Adaptee[f]]
    <3>1. SumRight(c, buffers, Seen(fr))
      BY <1>1, <1>6, RightBySort
    <3>2. PICK s \in 0..2 * m + 1, n \in 0..m :
            /\ Left(c.todo, SquaresGradient(f), s)
            /\ SummedUp(c, buffers, Seen(fr), s, n)
      BY <3>1 DEF SumRight
    <3>3. s = 2 * n + 2 => fr.k = n + 1
      BY <1>4, <1>6, <3>2 DEF SummedUp
    <3>4. Nobody.into # <<"refreshed">> /\ Nobody.into # <<"buffer", "gradient">>
      BY NobodyAbove DEF Nobody
    <3>5. SummedUp(c, d, Nobody, s, n)
      <4>1. s = 2 * n + 2 => d[f].gradient = AnalyticalRow(Adaptee[f], n + 1, c.x)
        BY <2>2, <2>3, <3>3
      <4>2. /\ (s = 0 /\ n = 0) \/ s = 2 * n + 1 \/ s = 2 * n + 2
            /\ s > 0 => buffers[f].x = c.x
            /\ (n > 0 /\ buffers[f].torn) \/ \A j \in 1..Inputs[f] : c.out[1][j] = Partly(c, n, j)
        BY <3>2 DEF SummedUp
      <4> HIDE DEF f
      <4> QED BY <2>3, <3>4, <4>1, <4>2 DEF SummedUp, f
    <3>6. SumRight(c, d, Nobody)
      BY <3>1, <3>2, <3>5 DEF SumRight
    <3> QED BY <1>1, <1>6, <3>6, RightBySort
  <2>5. Kept(d)
    <3> SUFFICES ASSUME NEW g \in Squares
                 PROVE  /\ DOMAIN d[g] = {"x", "value", "torn", "gradient"} /\ d[g].torn \in BOOLEAN
                        /\ d[g].torn \/ d[g].value = Exact(Adaptee[g], d[g].x)
      BY DEF Kept
    <3>1. CASE g = f
      BY <2>3, <3>1 DEF Kept
    <3>2. CASE g # f
      <4>1. d[g] = buffers[g]
        BY <2>3, <3>2 DEF Sized, OthersKept
      <4> QED BY <4>1 DEF Kept
    <3> QED BY <3>1, <3>2
  <2> QED BY <2>1, <2>4, <2>5 DEF d
<1> QED BY <1>5, <1>6, AskedBySort

\* A call that is answered goes on as it should.
LEMMA ResumeKeepsRight ==
  ASSUME NEW c, Well(c), NEW fr, Asked(c, fr), Calls(c.f, c.what, fr.f, fr.what, fr.into),
         Right(c, buffers, Seen(fr)), Answered(fr, buffers), Sized, Kept(buffers)
  PROVE  LET e == Stored(c, fr.into, fr.out)
             d == Buffered(c.f, fr.into, fr.out)
         IN /\ Resumes(e, c) /\ Right(e, d, Nobody) /\ Kept(d)
            /\ \A g \in Squares : g # c.f => d[g] = buffers[g]
<1> DEFINE f == c.f
           what == c.what
           e == Stored(c, fr.into, fr.out)
           d == Buffered(f, fr.into, fr.out)
<1>1. f \in Functions /\ what \in Members(f) /\ Resumes(c, c)
  BY DEF Well, Resumes
<1>2. ~Computing(f, what)
  <2>1. Level(fr.f, fr.what) < Level(f, what) /\ Level(fr.f, fr.what) \in {1, 2, 3}
    BY LevelsArePositive DEF Calls
  <2>2. Level(f, what) # 1
    BY <2>1
  <2> QED BY <2>2, LevelsArePositive
<1>3. e = Stored(c, fr.into, fr.out) /\ d = Buffered(c.f, fr.into, fr.out)
  OBVIOUS
<1> HIDE DEF e, d
<1>4. CASE Forwarding(f, what)
  <2>1. PICK r : fr.into = <<"row", r>>
    BY <1>4, AskedBySort
  <2>2. e.out = [c.out EXCEPT ![r] = fr.out[1]] /\ Resumes(e, c) /\ d = buffers
    BY <1>3, <2>1, RowStored
  <2>3. \A q : fr.into = <<"row", q>> => e.out = [c.out EXCEPT ![q] = fr.out[1]]
    <3>1. \A q : fr.into = <<"row", q>> => q = r
      BY <2>1
    <3> QED BY <2>2, <3>1
  <2>4. Right(e, buffers, Nobody)
    BY <1>4, <2>2, <2>3, RowsResume
  <2> QED BY <2>2, <2>4 DEF e, d
<1>5. CASE what \in Checks
  <2>1. PICK r : fr.into = <<"whole", r>>
    BY <1>5, AskedBySort
  <2>2. e.out = [c.out EXCEPT ![r] = fr.out] /\ Resumes(e, c) /\ d = buffers
    BY <1>3, <2>1, WholeStored
  <2>3. \A q : fr.into = <<"whole", q>> => e.out = [c.out EXCEPT ![q] = fr.out]
    <3>1. \A q : fr.into = <<"whole", q>> => q = r
      BY <2>1
    <3> QED BY <2>2, <3>1
  <2>4. Right(e, buffers, Nobody)
    BY <1>5, <2>2, <2>3, WholesResume
  <2> QED BY <2>2, <2>4 DEF e, d
<1>6. CASE Differencing(f, what)
  <2>1. Right(e, d, Nobody)
    BY <1>6, DifferencesResume DEF e, d
  <2>2. f \in Decorated /\ f \notin Squares
    BY <1>1, <1>6, Sorts DEF Differencing
  <2>3. Resumes(e, c) /\ OthersKept(d, buffers, f)
    <3>1. CASE fr.into[1] = "sample"
      BY <1>3, <3>1, SampleStored
    <3>2. CASE fr.into = <<"buffer", "result">> \/ fr.into = <<"buffer", "resultEps">>
      <4>1. PICK r : fr.into = <<"buffer", r>>
        BY <3>2
      <4>2. OthersKept(d, buffers, c.f)
        BY <1>3, <4>1, BufferStored
      <4>3. e = c
        <5>1. fr.into[1] = "buffer"
          BY <4>1
        <5> QED BY <5>1 DEF e, Stored
      <4> QED BY <1>1, <4>2, <4>3
    <3> QED BY <1>6, <3>1, <3>2, AskedBySort
  <2>4. \A g \in Squares : d[g] = buffers[g]
    BY <2>2, <2>3 DEF Sized, OthersKept
  <2>5. Kept(d)
    BY <2>4 DEF Kept
  <2> QED BY <2>1, <2>3, <2>4, <2>5 DEF e, d
<1>7. CASE Summing(f, what)
  <2>1. e = c /\ Right(c, d, Nobody) /\ Kept(d)
    BY <1>7, SumResumes DEF e, d
  <2>2. OthersKept(d, buffers, f)
    <3>1. CASE fr.into = <<"refreshed">>
      <4>1. fr.into[1] = "refreshed" /\ f \in DOMAIN buffers /\ OfSquares(buffers[f])
        BY <1>7, <3>1 DEF Summing, Sized, Kept, OfSquares
      <4>2. Refreshed(d, buffers, f, fr.out[1])
        BY <1>3, <4>1, RefreshedStored
      <4> QED BY <4>2 DEF Refreshed
    <3>2. CASE fr.into = <<"buffer", "gradient">>
      <4>1. PICK r : fr.into = <<"buffer", r>>
        BY <3>2
      <4>2. OthersKept(d, buffers, c.f)
        BY <1>3, <4>1, BufferStored
      <4> QED BY <4>2
    <3> QED BY <1>7, <3>1, <3>2, AskedBySort
  <2> QED BY <1>1, <2>1, <2>2 DEF e, d, Sized, OthersKept
<1> QED BY <1>1, <1>2, <1>4, <1>5, <1>6, <1>7, Sorts

(***************************************************************************)
(* The stack: every step keeps what is right of all running calls.         *)
(***************************************************************************)

\* What a call within another asked, and is seen of it, whatever it answers.
SameAsk(e, fr) ==
  /\ e.f = fr.f /\ e.what = fr.what /\ e.k = fr.k /\ e.x = fr.x /\ e.into = fr.into

\* A call that only goes on was asked for the same, and asks the same.
LEMMA SameAsked ==
  ASSUME NEW e, NEW fr, SameAsk(e, fr)
  PROVE  /\ Seen(e) = Seen(fr) /\ Level(e.f, e.what) = Level(fr.f, fr.what)
         /\ \A c : (Asked(c, e) <=> Asked(c, fr)) /\ (Asked(e, c) <=> Asked(fr, c))
<1>1. e.f = fr.f /\ e.what = fr.what /\ e.k = fr.k /\ e.x = fr.x /\ e.into = fr.into
  BY DEF SameAsk
<1>2. \A c : (Asked(c, e) <=> Asked(c, fr)) /\ (Asked(e, c) <=> Asked(fr, c))
  BY <1>1 DEF Asked
<1> QED BY <1>1, <1>2 DEF Seen

\* A call below one that calls itself depends on no buffer.
LEMMA DeepIsAside ==
  ASSUME NEW c, Well(c), NEW d, Calls(c.f, c.what, d.f, d.what, d.into), Asked(c, d),
         Level(d.f, d.what) # 1, NEW b, Right(c, b, Seen(d)), NEW e
  PROVE  Right(c, e, Seen(d))
<1> DEFINE f == c.f
           what == c.what
<1>1. f \in Functions /\ what \in Members(f) /\ Common(c)
  BY RightBySort DEF Well
<1>2. what \in Checks \/ (f \in Squares /\ what = "jacobian")
  <2>1. /\ Level(d.f, d.what) < Level(f, what) /\ Level(d.f, d.what) \in {1, 2, 3}
        /\ Level(f, what) \in {1, 2, 3}
    BY LevelsArePositive DEF Calls
  <2>2. Level(f, what) = 3
    BY <2>1
  <2> QED BY <2>2, LevelsArePositive
<1>3. CASE what \in Checks
  <2>1. WholesRight(c, Seen(d))
    BY <1>1, <1>3, RightBySort
  <2> QED BY <1>1, <1>3, <2>1, RightBySort
<1>4. CASE f \in Squares /\ what = "jacobian"
  <2>1. Forwarding(f, what) /\ RowCount(f, what) = 1 /\ Outputs[f] = 1
    BY <1>4, SquaresAre DEF Forwarding, RowCount, Squares, Decorated
  <2>2. RowsRight(c, b, Seen(d))
    BY <1>1, <2>1, RightBySort
  <2>3. d.into = <<"row", 1>>
    <3>1. d.into = <<"row", d.k>> /\ d.k \in 1..1
      BY <1>4, <2>1, AskedBySort
    <3> QED BY <3>1
  <2>4. \A r \in 1..1 : Awaited(c, Seen(d), <<"row", r>>)
    BY <2>3 DEF Awaited, Seen
  <2>5. RowsRight(c, e, Seen(d))
    BY <2>1, <2>2, <2>4 DEF RowsRight
  <2> QED BY <1>1, <2>1, <2>5, RightBySort
<1> QED BY <1>2, <1>3, <1>4

\* What the calls below the innermost one are.
LEMMA CallsBelow ==
  ASSUME IInv, AllRight, NEW i \in 1..Len(stack) - 1
  PROVE  /\ Well(stack[i]) /\ Asked(stack[i], stack[i + 1])
         /\ Calls(stack[i].f, stack[i].what, stack[i + 1].f, stack[i + 1].what, stack[i + 1].into)
         /\ Right(stack[i], buffers, Seen(stack[i + 1]))
         /\ i \in 1..Len(stack) /\ i + 1 \in 1..Len(stack) /\ Level(stack[i].f, stack[i].what) # 1
<1>1. Len(stack) \in Nat
  BY LenProperties DEF IInv, Nesting
<1>2. i \in 1..Len(stack) /\ i + 1 \in 1..Len(stack) /\ i < Len(stack)
  BY <1>1
<1>3. /\ Well(stack[i]) /\ Asked(stack[i], stack[i + 1])
      /\ Calls(stack[i].f, stack[i].what, stack[i + 1].f, stack[i + 1].what, stack[i + 1].into)
  BY <1>2 DEF IInv, Nesting, Within, AllRight
<1>4. Right(stack[i], buffers, Seen(stack[i + 1]))
  BY <1>2 DEF AllRight, Above
<1>5. Level(stack[i].f, stack[i].what) # 1
  <2>1. /\ Level(stack[i + 1].f, stack[i + 1].what) < Level(stack[i].f, stack[i].what)
        /\ Level(stack[i + 1].f, stack[i + 1].what) \in {1, 2, 3}
        /\ Level(stack[i].f, stack[i].what) \in {1, 2, 3}
    BY <1>3, LevelsArePositive DEF Calls
  <2> QED BY <2>1
<1> QED BY <1>2, <1>3, <1>4, <1>5

\* The innermost call goes on.
LEMMA TopGoesOn ==
  ASSUME IInv, AllRight, stack # <<>>, NEW e, SameAsk(e, Top), Becomes(e),
         UNCHANGED buffers, Right(e, buffers, Nobody)
  PROVE  AllRight'
<1> DEFINE n == Len(stack)
<1>1. n \in Nat /\ n > 0 /\ Top = stack[n]
  BY TopOfStack DEF IInv
<1>2. Len(stack') = n /\ stack'[n] = e /\ \A i \in 1..n - 1 : stack'[i] = stack[i]
  <2>1. stack \in Seq(ToSet(stack)) /\ stack' = Append(Front(stack), e)
    BY DEF IInv, Nesting, Becomes
  <2> QED BY <2>1, ReplaceTop
<1> HIDE DEF n
<1>3. \A i \in 1..n : SameAsk(stack'[i], stack[i])
  BY <1>1, <1>2 DEF SameAsk
<1>4. ASSUME NEW i \in 1..n - 1
      PROVE  /\ Right(stack'[i], buffers', Above(stack', i)) /\ Asked(stack'[i], stack'[i + 1])
  <2>1. /\ Asked(stack[i], stack[i + 1]) /\ Right(stack[i], buffers, Seen(stack[i + 1]))
        /\ i \in 1..n /\ i + 1 \in 1..n
    BY CallsBelow DEF n
  <2>2. Seen(stack'[i + 1]) = Seen(stack[i + 1]) /\ Asked(stack'[i], stack'[i + 1])
    <3>1. SameAsk(stack'[i + 1], stack[i + 1])
      BY <1>3, <2>1
    <3> QED BY <1>2, <2>1, <3>1, SameAsked
  <2>3. Above(stack', i) = Seen(stack'[i + 1])
    BY <1>1, <1>2 DEF Above
  <2> QED BY <1>2, <2>1, <2>2, <2>3
<1>5. Right(stack'[n], buffers', Above(stack', n))
  <2>1. Above(stack', n) = Nobody
    BY <1>1, <1>2 DEF Above
  <2> QED BY <1>2, <2>1
<1>6. \A i \in 1..n : Right(stack'[i], buffers', Above(stack', i))
  BY <1>1, <1>4, <1>5
<1>7. Kept(buffers')
  BY DEF AllRight
<1> QED BY <1>2, <1>4, <1>6, <1>7 DEF AllRight

\* It calls.
LEMMA TopCalls ==
  ASSUME IInv, AllRight, stack # <<>>, NEW e, SameAsk(e, Top), NEW fr, Enter(e, fr),
         Level(Top.f, Top.what) # 1, Asked(e, fr), Right(e, buffers', Seen(fr)),
         Right(fr, buffers', Nobody), Kept(buffers')
  PROVE  AllRight'
<1> DEFINE n == Len(stack)
<1>1. n \in Nat /\ n > 0 /\ Top = stack[n]
  BY TopOfStack DEF IInv
<1>2. /\ Len(stack') = n + 1 /\ stack'[n + 1] = fr /\ stack'[n] = e
      /\ \A i \in 1..n - 1 : stack'[i] = stack[i]
  <2>1. stack \in Seq(ToSet(stack)) /\ stack' = Append(Append(Front(stack), e), fr)
    BY DEF IInv, Nesting, Enter
  <2> QED BY <2>1, PushOnStack
<1> HIDE DEF n
<1>3. \A i \in 1..n : SameAsk(stack'[i], stack[i])
  BY <1>1, <1>2 DEF SameAsk
<1>4. ASSUME NEW i \in 1..n - 1
      PROVE  /\ Right(stack'[i], buffers', Above(stack', i)) /\ Asked(stack'[i], stack'[i + 1])
  <2>1. /\ Well(stack[i]) /\ Asked(stack[i], stack[i + 1])
        /\ Calls(stack[i].f, stack[i].what, stack[i + 1].f, stack[i + 1].what, stack[i + 1].into)
        /\ Right(stack[i], buffers, Seen(stack[i + 1]))
        /\ i \in 1..n /\ i + 1 \in 1..n
    BY CallsBelow DEF n
  <2>2. Seen(stack'[i + 1]) = Seen(stack[i + 1]) /\ Asked(stack'[i], stack'[i + 1])
    <3>1. SameAsk(stack'[i + 1], stack[i + 1])
      BY <1>3, <2>1
    <3> QED BY <1>2, <2>1, <3>1, SameAsked
  <2>3. Level(stack[i + 1].f, stack[i + 1].what) # 1
    <3>1. CASE i + 1 = n
      BY <1>1, <3>1
    <3>2. CASE i + 1 # n
      <4>1. i + 1 \in 1..n - 1
        BY <1>1, <2>1, <3>2
      <4> QED BY <4>1, CallsBelow DEF n
    <3> QED BY <3>1, <3>2
  <2>4. Right(stack[i], buffers', Seen(stack[i + 1]))
    BY <2>1, <2>3, DeepIsAside
  <2>5. Above(stack', i) = Seen(stack'[i + 1])
    BY <1>1, <1>2 DEF Above
  <2> QED BY <1>2, <2>2, <2>4, <2>5
<1>5. /\ Right(stack'[n], buffers', Above(stack', n)) /\ Asked(stack'[n], stack'[n + 1])
      /\ Right(stack'[n + 1], buffers', Above(stack', n + 1))
  <2>1. Above(stack', n) = Seen(fr) /\ Above(stack', n + 1) = Nobody
    BY <1>1, <1>2 DEF Above
  <2> QED BY <1>2, <2>1
<1>6. \A i \in 1..n + 1 : Right(stack'[i], buffers', Above(stack', i))
  <2> TAKE i \in 1..n + 1
  <2>1. i \in 1..n - 1 \/ i = n \/ i = n + 1
    BY <1>1
  <2> QED BY <1>4, <1>5, <2>1
<1>7. \A i \in 1..n : Asked(stack'[i], stack'[i + 1])
  <2> TAKE i \in 1..n
  <2>1. i \in 1..n - 1 \/ i = n
    BY <1>1
  <2> QED BY <1>4, <1>5, <2>1
<1>8. Len(stack') - 1 = n
  BY <1>1, <1>2
<1> QED BY <1>2, <1>6, <1>7, <1>8 DEF AllRight

\* The call below goes on with its answer.
LEMMA CallerGoesOn ==
  ASSUME IInv, AllRight, Len(stack) > 1, NEW e, SameAsk(e, stack[Len(stack) - 1]),
         stack' = Append(SubSeq(stack, 1, Len(stack) - 2), e),
         Right(e, buffers', Nobody), Kept(buffers')
  PROVE  AllRight'
<1> DEFINE n == Len(stack)
<1>1. n \in Nat /\ n > 1
  BY LenProperties DEF IInv, Nesting
<1>2. Len(stack') = n - 1 /\ stack'[n - 1] = e /\ \A i \in 1..n - 2 : stack'[i] = stack[i]
  <2>1. stack \in Seq(ToSet(stack))
    BY DEF IInv, Nesting
  <2> QED BY <2>1, PopStack
<1>3. SameAsk(e, stack[n - 1])
  OBVIOUS
<1> HIDE DEF n
<1>4. \A i \in 1..n - 1 : SameAsk(stack'[i], stack[i])
  BY <1>1, <1>2, <1>3 DEF SameAsk
<1>5. ASSUME NEW i \in 1..n - 2
      PROVE  /\ Right(stack'[i], buffers', Above(stack', i)) /\ Asked(stack'[i], stack'[i + 1])
  <2>0. i \in 1..n - 1 /\ i + 1 \in 1..n - 1
    BY <1>1
  <2>1. /\ Well(stack[i]) /\ Asked(stack[i], stack[i + 1])
        /\ Calls(stack[i].f, stack[i].what, stack[i + 1].f, stack[i + 1].what, stack[i + 1].into)
        /\ Right(stack[i], buffers, Seen(stack[i + 1]))
    BY <2>0, CallsBelow DEF n
  <2>2. Seen(stack'[i + 1]) = Seen(stack[i + 1]) /\ Asked(stack'[i], stack'[i + 1])
    <3>1. SameAsk(stack'[i + 1], stack[i + 1])
      BY <1>4, <2>0
    <3>2. Seen(stack'[i + 1]) = Seen(stack[i + 1])
      BY <3>1 DEF SameAsk, Seen
    <3>3. Asked(stack[i], stack'[i + 1]) <=> Asked(stack[i], stack[i + 1])
      BY <3>1, SameAsked
    <3> QED BY <1>2, <2>1, <3>2, <3>3
  <2>3. Level(stack[i + 1].f, stack[i + 1].what) # 1
    BY <2>0, CallsBelow DEF n
  <2>4. Right(stack[i], buffers', Seen(stack[i + 1]))
    BY <2>1, <2>3, DeepIsAside
  <2>5. Above(stack', i) = Seen(stack'[i + 1])
    BY <1>1, <1>2 DEF Above
  <2> QED BY <1>2, <2>2, <2>4, <2>5
<1>6. Right(stack'[n - 1], buffers', Above(stack', n - 1))
  <2>1. Above(stack', n - 1) = Nobody
    BY <1>1, <1>2 DEF Above
  <2> QED BY <1>2, <2>1
<1>7. \A i \in 1..n - 1 : Right(stack'[i], buffers', Above(stack', i))
  <2> TAKE i \in 1..n - 1
  <2>1. i \in 1..n - 2 \/ i = n - 1
    BY <1>1
  <2> QED BY <1>5, <1>6, <2>1
<1>8. Len(stack') - 1 = n - 2
  BY <1>1, <1>2
<1> QED BY <1>2, <1>5, <1>7, <1>8 DEF AllRight

\* Once no call is running, only what the sums of squares keep matters.
LEMMA AllAreEnded ==
  ASSUME stack' = <<>>, Kept(buffers')
  PROVE  AllRight'
<1>1. Len(stack') = 0
  OBVIOUS
<1>2. 1..0 = {} /\ 1..(0 - 1) = {}
  OBVIOUS
<1> QED BY <1>1, <1>2 DEF AllRight

\* The innermost call and its first step.
LEMMA TopIsRight ==
  ASSUME IInv, AllRight, stack # <<>>
  PROVE  /\ Well(Top) /\ Right(Top, buffers, Nobody) /\ Kept(buffers) /\ Sized
         /\ Top.f \in Functions /\ Common(Top)
         /\ Top.f \in Squares => KeptOne(Top.f, buffers)
<1>1. Len(stack) \in Nat /\ Len(stack) > 0 /\ Top = stack[Len(stack)] /\ Well(Top)
  BY TopOfStack DEF IInv
<1>2. Right(Top, buffers, Nobody)
  <2>1. Above(stack, Len(stack)) = Nobody /\ Len(stack) \in 1..Len(stack)
    BY <1>1 DEF Above
  <2> QED BY <1>1, <2>1 DEF AllRight
<1>3. Top.f \in Functions /\ Common(Top)
  BY <1>1, <1>2, RightBySort DEF Well
<1>4. Kept(buffers) /\ Sized
  BY DEF AllRight, IInv
<1>5. Top.f \in Squares => KeptOne(Top.f, buffers)
  BY <1>4 DEF Kept, KeptOne
<1> QED BY <1>1, <1>2, <1>3, <1>4, <1>5

\* The innermost call with its first step done.
LEMMA DoneFollows ==
  ASSUME IInv, AllRight, stack # <<>>, Top.todo # <<>>
  PROVE  /\ DOMAIN Done = Fields /\ Follows(Done, Top) /\ SameAsk(Done, Top)
         /\ Done.out = Top.out /\ Done.local = Top.local
<1>1. DOMAIN Top = Fields
  BY TopIsRight DEF Well
<1> QED BY <1>1 DEF Done, Fields, Follows, SameAsk

\* The same, with a new answer.
LEMMA DoneWithAnswer ==
  ASSUME IInv, AllRight, stack # <<>>, Top.todo # <<>>, NEW v, NEW e, e = [Done EXCEPT !.out = v]
  PROVE  Follows(e, Top) /\ SameAsk(e, Top) /\ e.out = v /\ e.local = Top.local
<1>1. DOMAIN Done = Fields /\ Follows(Done, Top) /\ SameAsk(Done, Top) /\ Done.local = Top.local
  BY DoneFollows
<1> DEFINE d == Done
<1> HIDE DEF d
<1>2. e = [d EXCEPT !.out = v] /\ DOMAIN d = Fields
  BY <1>1 DEF d
<1>3. /\ e.out = v /\ e.local = d.local /\ e.f = d.f /\ e.what = d.what /\ e.k = d.k
      /\ e.x = d.x /\ e.into = d.into /\ e.todo = d.todo
  BY <1>2 DEF Fields
<1> QED BY <1>1, <1>3 DEF Follows, SameAsk, d

\* The steps that answer nothing.
LEMMA SilentStepsKeepAll ==
  ASSUME IInv, AllRight, AllowStep \/ AllocateStep \/ RestoreStep \/ RequireStep
  PROVE  AllRight'
<1> DEFINE i == Head(Top.todo)
<1>1. stack # <<>> /\ Top.todo # <<>> /\ AnswersNothing(i) /\ UNCHANGED buffers
  BY DEF AllowStep, AllocateStep, RestoreStep, RequireStep, Doing, User, AnswersNothing
<1>2. \/ Becomes(Done) \/ Becomes([Done EXCEPT !.site = allowed])
      \/ stack' = <<>>
  BY DEF AllowStep, AllocateStep, RestoreStep, RequireStep
<1> HIDE DEF i
<1>3. /\ Well(Top) /\ Right(Top, buffers, Nobody) /\ Kept(buffers)
  BY <1>1, TopIsRight
<1>4. /\ DOMAIN Done = Fields /\ Follows(Done, Top) /\ SameAsk(Done, Top)
      /\ Done.out = Top.out /\ Done.local = Top.local
  BY <1>1, DoneFollows
<1>5. CASE Becomes(Done)
  <2>1. Right(Done, buffers, Nobody)
    BY <1>1, <1>3, <1>4, StepThatAnswersNothing DEF i
  <2> QED BY <1>1, <1>4, <1>5, <2>1, TopGoesOn
<1>6. CASE Becomes([Done EXCEPT !.site = allowed])
  <2> DEFINE d == Done
             e == [d EXCEPT !.site = allowed]
  <2>1. Becomes(e)
    BY <1>6
  <2>2. /\ DOMAIN d = Fields /\ Follows(d, Top) /\ SameAsk(d, Top)
        /\ d.out = Top.out /\ d.local = Top.local
    BY <1>4
  <2> HIDE DEF d
  <2>3. /\ e.out = d.out /\ e.local = d.local /\ e.f = d.f /\ e.what = d.what /\ e.k = d.k
        /\ e.x = d.x /\ e.into = d.into /\ e.todo = d.todo
    BY <2>2 DEF Fields
  <2> HIDE DEF e
  <2>4. Follows(e, Top) /\ SameAsk(e, Top) /\ e.out = Top.out /\ e.local = Top.local
    BY <2>2, <2>3 DEF Follows, SameAsk
  <2>5. Right(e, buffers, Nobody)
    BY <1>1, <1>3, <2>4, StepThatAnswersNothing DEF i
  <2> QED BY <1>1, <2>1, <2>4, <2>5, TopGoesOn
<1>7. CASE stack' = <<>>
  BY <1>1, <1>3, <1>7, AllAreEnded
<1> QED BY <1>2, <1>5, <1>6, <1>7

\* Those that compute.
LEMMA ComputeKeepsAll ==
  ASSUME IInv, AllRight, ComputeStep
  PROVE  AllRight'
<1> DEFINE i == Head(Top.todo)
           v == Computed(Top.f, Top.what, Top.k, Top.x)
           e == [Done EXCEPT !.out = v]
<1>1. stack # <<>> /\ Top.todo # <<>> /\ i.do = "compute" /\ UNCHANGED buffers /\ Becomes(e)
  BY DEF ComputeStep, Doing
<1>2. Well(Top) /\ Right(Top, buffers, Nobody)
  BY <1>1, TopIsRight
<1> HIDE DEF i
<1>3. Follows(e, Top) /\ SameAsk(e, Top) /\ e.out = v
  <2> HIDE DEF v
  <2>1. e = [Done EXCEPT !.out = v]
    OBVIOUS
  <2> HIDE DEF e
  <2> QED BY <1>1, <2>1, DoneWithAnswer
<1> HIDE DEF e
<1>4. Right(e, buffers, Nobody)
  BY <1>1, <1>2, <1>3, ComputeKeepsRight DEF i
<1> QED BY <1>1, <1>3, <1>4, TopGoesOn

\* An entry is written.
LEMMA WriteKeepsAll ==
  ASSUME IInv, AllRight, WriteStep
  PROVE  AllRight'
<1> DEFINE i == Head(Top.todo)
           v == IF Kind[Top.f] = "simple"
                THEN ForwardDifference(buffers[Top.f], i.k, i.h)
                ELSE FivePointRule(Top.local, i.h)
           w == [Top.out EXCEPT ![i.row][i.j] = v]
           e == [Done EXCEPT !.out = w]
<1>1. stack # <<>> /\ Top.todo # <<>> /\ i.do = "write" /\ UNCHANGED buffers
  BY DEF WriteStep, Doing
<1>2. Well(Top) /\ Right(Top, buffers, Nobody) /\ DOMAIN Done = Fields /\ Done.out = Top.out
  BY <1>1, TopIsRight, DoneFollows
<1>3. Becomes(e)
  <2>1. Becomes([Done EXCEPT !.out[i.row][i.j] = v])
    BY DEF WriteStep
  <2> HIDE DEF i, v
  <2>2. [Done EXCEPT !.out[i.row][i.j] = v] = e
    BY <1>2
  <2> QED BY <2>1, <2>2
<1>4. v = IF Kind[Top.f] = "simple"
          THEN ForwardDifference(buffers[Top.f], i.k, i.h) ELSE FivePointRule(Top.local, i.h)
  OBVIOUS
<1> HIDE DEF i, v
<1>5. Follows(e, Top) /\ SameAsk(e, Top) /\ e.out = w /\ e.local = Top.local
  <2> HIDE DEF w
  <2>1. e = [Done EXCEPT !.out = w]
    OBVIOUS
  <2> HIDE DEF e
  <2> QED BY <1>1, <2>1, DoneWithAnswer
<1> HIDE DEF e
<1>6. e.out = Written(Top.out, i, v)
  BY <1>5 DEF Written
<1> HIDE DEF w
<1>7. Right(e, buffers, Nobody)
  BY <1>1, <1>2, <1>4, <1>5, <1>6, WriteKeepsRight DEF i
<1> QED BY <1>1, <1>3, <1>5, <1>7, TopGoesOn

\* A sum of squares is added up.
LEMMA SquareKeepsAll ==
  ASSUME IInv, AllRight, SquareStep
  PROVE  AllRight'
<1> DEFINE i == Head(Top.todo)
           y == buffers[Top.f].value
           v == Total([k \in DOMAIN y |-> y[k] * y[k]])
           w == [Top.out EXCEPT ![1][1] = v]
           e == [Done EXCEPT !.out = w]
<1>1. stack # <<>> /\ Top.todo # <<>> /\ i.do = "square" /\ UNCHANGED buffers
  BY DEF SquareStep, Doing
<1>2. /\ Well(Top) /\ Right(Top, buffers, Nobody) /\ DOMAIN Done = Fields /\ Done.out = Top.out
      /\ Top.f \in Squares => KeptOne(Top.f, buffers)
  BY <1>1, TopIsRight, DoneFollows
<1>3. Becomes(e)
  <2>1. Becomes([Done EXCEPT !.out[1][1] = v])
    BY DEF SquareStep
  <2> HIDE DEF v
  <2>2. [Done EXCEPT !.out[1][1] = v] = e
    BY <1>2
  <2> QED BY <2>1, <2>2
<1> HIDE DEF i
<1>4. Follows(e, Top) /\ SameAsk(e, Top) /\ e.out = w
  <2> HIDE DEF w
  <2>1. e = [Done EXCEPT !.out = w]
    OBVIOUS
  <2> HIDE DEF e
  <2> QED BY <1>1, <2>1, DoneWithAnswer
<1> HIDE DEF e
<1>5. Right(e, buffers, Nobody)
  <2>1. y = buffers[Top.f].value /\ e.out = [Top.out EXCEPT ![1][1] = Total([k \in DOMAIN y |-> y[k] * y[k]])]
    BY <1>4
  <2> HIDE DEF y, w
  <2> QED BY <1>1, <1>2, <1>4, <2>1, SquareKeepsRight DEF i
<1> QED BY <1>1, <1>3, <1>4, <1>5, TopGoesOn

\* One term of its gradient is added.
LEMMA AccumulateKeepsAll ==
  ASSUME IInv, AllRight, AccumulateStep
  PROVE  AllRight'
<1> DEFINE i == Head(Top.todo)
           y == buffers[Top.f].value[i.k]
           g == buffers[Top.f].gradient
           a == Top.out[1]
           v == [j \in DOMAIN a |-> a[j] + 2 * y * g[j]]
           w == [Top.out EXCEPT ![1] = v]
           e == [Done EXCEPT !.out = w]
<1>1. stack # <<>> /\ Top.todo # <<>> /\ i.do = "accumulate" /\ UNCHANGED buffers
  BY DEF AccumulateStep, Doing
<1>2. /\ Well(Top) /\ Right(Top, buffers, Nobody) /\ DOMAIN Done = Fields /\ Done.out = Top.out
      /\ Top.f \in Squares => KeptOne(Top.f, buffers)
  BY <1>1, TopIsRight, DoneFollows
<1>3. Becomes(e)
  <2>1. Becomes([Done EXCEPT !.out[1] = [j \in DOMAIN @ |-> @[j] + 2 * y * g[j]]])
    BY DEF AccumulateStep
  <2> HIDE DEF y, g, i
  <2>2. [Done EXCEPT !.out[1] = [j \in DOMAIN @ |-> @[j] + 2 * y * g[j]]] = e
    BY <1>2
  <2> QED BY <2>1, <2>2
<1>4. y = buffers[Top.f].value[i.k] /\ g = buffers[Top.f].gradient
  OBVIOUS
<1> HIDE DEF i, y, g
<1>5. Follows(e, Top) /\ SameAsk(e, Top) /\ e.out = w
  <2> HIDE DEF w
  <2>1. e = [Done EXCEPT !.out = w]
    OBVIOUS
  <2> HIDE DEF e
  <2> QED BY <1>1, <2>1, DoneWithAnswer
<1> HIDE DEF e
<1>6. e.out = Accumulated(Top.out, y, g)
  BY <1>5 DEF Accumulated
<1> HIDE DEF w
<1>7. Right(e, buffers, Nobody)
  BY <1>1, <1>2, <1>4, <1>5, <1>6, AccumulateKeepsRight DEF i
<1> QED BY <1>1, <1>3, <1>5, <1>7, TopGoesOn

\* Whether or not another estimation is made.
LEMMA AgainKeepsAll ==
  ASSUME IInv, AllRight, AgainStep
  PROVE  AllRight'
<1> DEFINE i == Head(Top.todo)
<1>1. stack # <<>> /\ Top.todo # <<>> /\ i.do = "again" /\ UNCHANGED buffers
  BY DEF AgainStep, Doing
<1>2. PICK t : /\ \/ t = Tail(Top.todo)
                  \/ t = Repeated(i) \o Tail(Top.todo)
                  \/ t = Front(Repeated(i)) \o Tail(Top.todo)
               /\ Becomes([Done EXCEPT !.todo = t])
  <2>1. Done.todo = Tail(Top.todo) /\ DOMAIN Done = Fields
    BY <1>1, DoneFollows DEF Follows
  <2>2. \/ Becomes(Done)
        \/ Becomes([Done EXCEPT !.todo = Repeated(i) \o @])
        \/ Becomes([Done EXCEPT !.todo = Front(Repeated(i)) \o @])
    BY DEF AgainStep
  <2> DEFINE d == Done
  <2>3. \/ Becomes(d)
        \/ Becomes([d EXCEPT !.todo = Repeated(i) \o d.todo])
        \/ Becomes([d EXCEPT !.todo = Front(Repeated(i)) \o d.todo])
    BY <2>2
  <2>4. d.todo = Tail(Top.todo) /\ DOMAIN d = Fields
    BY <2>1
  <2>5. [d EXCEPT !.todo = d.todo] = d
    <3>1. DOMAIN Top = Fields
      BY <1>1, TopIsRight DEF Well
    <3> QED BY <3>1 DEF Done, Fields
  <2> HIDE DEF d, i
  <2>6. \/ Becomes([d EXCEPT !.todo = Tail(Top.todo)])
        \/ Becomes([d EXCEPT !.todo = Repeated(i) \o Tail(Top.todo)])
        \/ Becomes([d EXCEPT !.todo = Front(Repeated(i)) \o Tail(Top.todo)])
    BY <2>3, <2>4, <2>5
  <2> QED BY <2>6 DEF d
<1>3. Well(Top) /\ Right(Top, buffers, Nobody)
  BY <1>1, TopIsRight
<1> HIDE DEF i
<1> DEFINE d == Done
           e == [d EXCEPT !.todo = t]
<1>4. /\ DOMAIN d = Fields /\ Follows(d, Top) /\ SameAsk(d, Top)
      /\ d.out = Top.out /\ d.local = Top.local
  BY <1>1, DoneFollows
<1>5. Becomes(e)
  BY <1>2
<1> HIDE DEF d
<1>6. /\ e.out = d.out /\ e.local = d.local /\ e.f = d.f /\ e.what = d.what /\ e.k = d.k
      /\ e.x = d.x /\ e.into = d.into /\ e.todo = t
  BY <1>4 DEF Fields
<1> HIDE DEF e
<1>7. /\ e.f = Top.f /\ e.what = Top.what /\ e.k = Top.k /\ e.x = Top.x /\ SameAsk(e, Top)
      /\ e.out = Top.out /\ e.local = Top.local
  BY <1>4, <1>6 DEF Follows, SameAsk
<1>8. Right(e, buffers, Nobody)
  BY <1>1, <1>2, <1>3, <1>6, <1>7, AgainKeepsRight DEF i
<1> QED BY <1>1, <1>5, <1>7, <1>8, TopGoesOn

\* The steps that call.
LEMMA FrameAsks ==
  ASSUME NEW f, NEW what, NEW k, NEW x, NEW into, NEW fr, fr = Frame(f, what, k, x, into)
  PROVE  /\ fr.f = f /\ fr.what = what /\ fr.k = k /\ fr.x = x /\ fr.into = into
         /\ Seen(fr).into = into /\ Seen(fr).x = x /\ Seen(fr).k = k
BY DEF Frame, Seen

\* A moved point is a point, of any number of coordinates.
LEMMA MovedIsAPoint ==
  ASSUME NEW n, NEW x \in [1..n -> Int], NEW j \in 1..n, NEW d \in Int
  PROVE  Moved(x, j, d) \in [1..n -> Int]
BY DEF Moved

\* The library calls a member.
LEMMA EvalKeepsAll ==
  ASSUME IInv, AllRight, EvalStep
  PROVE  AllRight'
<1> DEFINE i == Head(Top.todo)
           fr == Frame(i.of, i.what, i.k, Top.x, i.into)
<1>1. /\ stack # <<>> /\ Top.todo # <<>> /\ i.do = "eval"
      /\ Enter(Done, fr) /\ UNCHANGED buffers
  BY DEF EvalStep, Doing
<1>2. /\ Well(Top) /\ Right(Top, buffers, Nobody) /\ Kept(buffers) /\ Common(Top)
      /\ Top.f \in Functions
  BY <1>1, TopIsRight
<1>3. /\ Follows(Done, Top) /\ SameAsk(Done, Top) /\ Done.out = Top.out /\ Done.local = Top.local
  BY <1>1, DoneFollows
<1>4. fr = Frame(i.of, i.what, i.k, Top.x, i.into)
  OBVIOUS
<1>5. i \in Meant(Top.f, Top.what, Top.k) /\ Fits(Top.f, Top.what, i)
  BY <1>1, <1>2, StepIsMeant
<1> HIDE DEF i, fr
<1>6. /\ fr.f = i.of /\ fr.what = i.what /\ fr.k = i.k /\ fr.x = Top.x /\ fr.into = i.into
      /\ Seen(fr).into = i.into /\ Seen(fr).k = i.k
  BY <1>4, FrameAsks
<1>7. Calls(Top.f, Top.what, i.of, i.what, i.into) /\ MeantEval(Top.f, Top.what, Top.k, i)
  BY <1>1, <1>5 DEF Fits, Meant
<1>8. Level(Top.f, Top.what) # 1
  <2>1. /\ Level(i.of, i.what) < Level(Top.f, Top.what) /\ Level(i.of, i.what) \in {1, 2, 3}
        /\ Level(Top.f, Top.what) \in {1, 2, 3}
    BY <1>7, LevelsArePositive DEF Calls
  <2> QED BY <2>1
<1>9. Right(Done, buffers, Seen(fr))
  BY <1>1, <1>2, <1>3, <1>6, EvalKeepsRight DEF i
<1>10. Asked(Done, fr)
  <2>1. MeantEval(Done.f, Done.what, Done.k, Eval(fr.f, fr.what, fr.k, fr.into))
    BY <1>3, <1>6, <1>7 DEF MeantEval, Eval, SameAsk
  <2> QED BY <1>3, <1>6, <2>1 DEF Asked, SameAsk
<1>11. Right(fr, buffers, Nobody)
  <2>1. i.of \in Functions /\ i.what \in Members(i.of) /\ Inputs[i.of] = Inputs[Top.f]
    BY <1>7 DEF Calls, Evaluated, Members
  <2>2. i.k \in Numbers(i.of, i.what)
    BY <1>7 DEF MeantEval
  <2>3. Top.x \in [1..Inputs[i.of] -> Int]
    BY <1>2, <2>1 DEF Common
  <2> QED BY <1>4, <2>1, <2>2, <2>3, FrameRight
<1>12. buffers' = buffers
  BY <1>1
<1> QED BY <1>1, <1>2, <1>3, <1>8, <1>9, <1>10, <1>11, <1>12, TopCalls

\* It asks for a sample.
LEMMA ProbeKeepsAll ==
  ASSUME IInv, AllRight, ProbeStep
  PROVE  AllRight'
<1> DEFINE i == Head(Top.todo)
           g == Adaptee[Top.f]
           xEps == Moved(Top.x, i.j, i.d)
           fr == Frame(g, "value", 0, xEps, i.into)
<1>1. /\ stack # <<>> /\ Top.todo # <<>> /\ i.do = "probe"
      /\ Enter(Done, fr) /\ buffers' = [buffers EXCEPT ![Top.f].xEps = xEps]
  BY DEF ProbeStep, Doing, MovedOnly, Moved
<1>2. /\ Well(Top) /\ Right(Top, buffers, Nobody) /\ Kept(buffers) /\ Common(Top)
      /\ Top.f \in Functions /\ Sized
  BY <1>1, TopIsRight
<1>3. /\ Follows(Done, Top) /\ SameAsk(Done, Top) /\ Done.out = Top.out /\ Done.local = Top.local
  BY <1>1, DoneFollows
<1>4. fr = Frame(g, "value", 0, xEps, i.into) /\ xEps = Moved(Top.x, i.j, i.d)
  OBVIOUS
<1>5. i \in Meant(Top.f, Top.what, Top.k) /\ Fits(Top.f, Top.what, i)
  BY <1>1, <1>2, StepIsMeant
<1> HIDE DEF i, fr, xEps
<1>6. /\ Top.f \in Decorated /\ Top.what \in {"gradient", "jacobian"}
      /\ MeantProbe(Top.f, i) /\ i \in Instructions
  BY <1>1, <1>5 DEF Fits, Meant, StepsOf
<1>7. i.d \in Int /\ i.j \in 1..Inputs[Top.f] /\ MeantSample(Top.f, i.into)
  <2>1. i.d \in Int
    BY <1>1, <1>6 DEF Instructions
  <2> QED BY <1>6, <2>1 DEF MeantProbe
<1>8. g \in Functions /\ g \in Given /\ Inputs[g] = Inputs[Top.f] /\ Top.f \notin Squares
  <2>1. Top.f \notin Squares
    BY <1>6 DEF Squares, Decorated
  <2> QED BY <1>2, <1>6, <2>1, Kinds
<1> HIDE DEF g
<1>9. /\ fr.f = g /\ fr.what = "value" /\ fr.k = 0 /\ fr.x = xEps /\ fr.into = i.into
      /\ Seen(fr).into = i.into /\ Seen(fr).x = xEps
  BY <1>4, FrameAsks
<1>10. Differencing(Top.f, Top.what)
  BY <1>6 DEF Differencing
<1>11. Level(Top.f, Top.what) # 1
  BY <1>10, LevelsArePositive
<1>12. buffers'[Top.f].result = buffers[Top.f].result
       /\ \A s \in Squares : buffers'[s] = buffers[s]
  <2>1. Top.f \in DOMAIN buffers /\ \A s \in Squares : s \in DOMAIN buffers
    BY <1>2, <1>6 DEF Sized
  <2>2. buffers'[Top.f] = [buffers[Top.f] EXCEPT !.xEps = xEps]
    BY <1>1, <2>1
  <2>3. DOMAIN buffers[Top.f] = {"xEps", "result", "resultEps", "tmpResult"}
    BY <1>2, <1>6 DEF Sized, SizedBuffers
  <2>4. buffers'[Top.f].result = buffers[Top.f].result
    BY <2>2, <2>3
  <2>5. \A s \in Squares : buffers'[s] = buffers[s]
    BY <1>1, <1>8, <2>1
  <2> QED BY <2>4, <2>5
<1>13. Right(Done, buffers', Seen(fr))
  <2>1. i = Head(Top.todo) /\ Top.todo # <<>> /\ i.do = "probe"
    BY <1>1 DEF i
  <2>2. Seen(fr).into = i.into /\ Seen(fr).x = Moved(Top.x, i.j, i.d)
    BY <1>4, <1>9
  <2> DEFINE c == buffers'
             above == Seen(fr)
  <2>3. c[Top.f].result = buffers[Top.f].result
    BY <1>12
  <2> HIDE DEF c, above
  <2>4. Right(Done, c, above)
    BY <1>2, <1>3, <2>1, <2>2, <2>3, ProbeKeepsRight DEF above
  <2> QED BY <2>4 DEF c, above
<1>14. Asked(Done, fr)
  BY <1>3, <1>7, <1>9, <1>10 DEF Asked, SameAsk, g
<1>15. Right(fr, buffers', Nobody)
  <2>1. "value" \in Members(g) /\ 0 \in Numbers(g, "value")
    BY DEF Members, Numbers
  <2>2. xEps \in [1..Inputs[g] -> Int]
    <3>1. Top.x \in [1..Inputs[Top.f] -> Int]
      BY <1>2 DEF Common
    <3>2. Moved(Top.x, i.j, i.d) \in [1..Inputs[Top.f] -> Int]
      BY <1>7, <3>1, MovedIsAPoint
    <3> QED BY <1>4, <1>8, <3>2
  <2> QED BY <1>4, <1>8, <2>1, <2>2, FrameRight
<1>16. Kept(buffers')
  BY <1>2, <1>12 DEF Kept
<1> QED BY <1>1, <1>3, <1>11, <1>13, <1>14, <1>15, <1>16, TopCalls

\* It asks for the values a sum of squares keeps, or finds them kept.
LEMMA RefreshKeepsAll ==
  ASSUME IInv, AllRight, RefreshStep
  PROVE  AllRight'
<1> DEFINE i == Head(Top.todo)
           f == Top.f
           g == Adaptee[f]
           fr == Frame(g, "value", 0, Top.x, <<"refreshed">>)
<1>1. stack # <<>> /\ Top.todo # <<>> /\ i.do = "refresh"
  BY DEF RefreshStep, Doing
<1>2. /\ Well(Top) /\ Right(Top, buffers, Nobody) /\ Kept(buffers) /\ Common(Top)
      /\ f \in Functions /\ Sized
  BY <1>1, TopIsRight
<1>3. /\ Follows(Done, Top) /\ SameAsk(Done, Top) /\ Done.out = Top.out
  BY <1>1, DoneFollows
<1>4. fr = Frame(g, "value", 0, Top.x, <<"refreshed">>)
  OBVIOUS
<1>5. Fits(f, Top.what, i)
  BY <1>1, <1>2, StepIsMeant
<1> HIDE DEF i, fr
<1>6. f \in Squares /\ Top.what \in {"value", "gradient"}
  BY <1>1, <1>5 DEF Fits
<1>7. CASE buffers[f].x = Top.x
  <2>1. Becomes(Done) /\ UNCHANGED buffers
    BY <1>7 DEF RefreshStep
  <2>2. Right(Done, buffers, Nobody)
    BY <1>1, <1>2, <1>3, <1>7, RefreshKeepsRight DEF i
  <2> QED BY <1>1, <1>3, <2>1, <2>2, TopGoesOn
<1>8. CASE buffers[f].x # Top.x
  <2>1. /\ Enter(Done, fr)
        /\ buffers' = [buffers EXCEPT ![f].x = Top.x, ![f].torn = TRUE]
    BY <1>8 DEF RefreshStep, fr
  <2>2. g \in Functions /\ g \in Given /\ Inputs[g] = Inputs[f]
    <3>1. f \in Squares
      BY <1>6
    <3>2. f \in Functions
      BY <1>2
    <3> HIDE DEF f
    <3> QED BY <3>1, <3>2, Kinds
  <2>3. f \in DOMAIN buffers /\ DOMAIN buffers[f] = {"x", "value", "torn", "gradient"}
    BY <1>2, <1>6 DEF Sized, Kept
  <2>4. /\ buffers'[f].x = Top.x /\ buffers'[f].torn = TRUE
        /\ DOMAIN buffers'[f] = {"x", "value", "torn", "gradient"}
        /\ \A s \in DOMAIN buffers : s # f => buffers'[s] = buffers[s]
    <3> DEFINE y == Top.x
    <3> HIDE DEF y, f
    <3>1. buffers' = [buffers EXCEPT ![f].x = y, ![f].torn = TRUE]
      BY <2>1 DEF y
    <3>2. buffers'[f] = [buffers[f] EXCEPT !.x = y, !.torn = TRUE]
      BY <2>3, <3>1
    <3>3. \A s \in DOMAIN buffers : s # f => buffers'[s] = buffers[s]
      BY <3>1
    <3> QED BY <2>3, <3>2, <3>3 DEF y
  <2> HIDE DEF g
  <2>5. /\ fr.f = g /\ fr.what = "value" /\ fr.k = 0 /\ fr.x = Top.x /\ fr.into = <<"refreshed">>
    BY <1>4, FrameAsks
  <2>6. Right(Done, buffers', Seen(fr))
    BY <1>1, <1>2, <1>3, <2>4, RefreshKeepsRight DEF i
  <2>7. Asked(Done, fr)
    BY <1>3, <1>6, <2>5 DEF Asked, SameAsk, g
  <2>8. Right(fr, buffers', Nobody)
    <3>1. "value" \in Members(g) /\ 0 \in Numbers(g, "value")
      BY DEF Members, Numbers
    <3>2. Top.x \in [1..Inputs[g] -> Int]
      BY <1>2, <2>2 DEF Common
    <3> QED BY <1>4, <2>2, <3>1, <3>2, FrameRight
  <2>9. Kept(buffers')
    <3> SUFFICES ASSUME NEW s \in Squares
                 PROVE  /\ DOMAIN buffers'[s] = {"x", "value", "torn", "gradient"}
                        /\ buffers'[s].torn \in BOOLEAN
                        /\ buffers'[s].torn \/ buffers'[s].value = Exact(Adaptee[s], buffers'[s].x)
      BY DEF Kept
    <3>1. CASE s = f
      BY <2>4, <3>1
    <3>2. CASE s # f
      <4>1. buffers'[s] = buffers[s]
        BY <1>2, <2>4, <3>2 DEF Sized
      <4> QED BY <1>2, <4>1 DEF Kept
    <3> QED BY <3>1, <3>2
  <2>10. Level(f, Top.what) # 1
    BY <1>6, LevelsArePositive DEF Summing
  <2> QED BY <1>1, <1>3, <2>1, <2>6, <2>7, <2>8, <2>9, <2>10, TopCalls
<1> QED BY <1>7, <1>8

\* The answer of a call goes to the one below it.
LEMMA ReturnKeepsAll ==
  ASSUME IInv, AllRight, Return
  PROVE  AllRight'
<1> DEFINE n == Len(stack)
           c == stack[n - 1]
           fr == Top
           e == Stored(c, fr.into, fr.out)
           d == Buffered(c.f, fr.into, fr.out)
<1>1. /\ n > 1 /\ Top.todo = <<>>
      /\ stack' = Append(SubSeq(stack, 1, n - 2), e)
      /\ buffers' = d
  BY DEF Return
<1>2. n \in Nat /\ stack # <<>>
  <2>1. n \in Nat
    BY LenProperties DEF IInv, Nesting
  <2> QED BY <1>1, <2>1
<1>3. /\ Well(fr) /\ Right(fr, buffers, Nobody) /\ Kept(buffers) /\ Sized
      /\ fr = stack[n]
  BY <1>2, TopIsRight, TopOfStack DEF IInv
<1> HIDE DEF fr
<1>4. Answered(fr, buffers)
  <2>1. fr.todo = <<>>
    BY <1>1 DEF fr
  <2> QED BY <1>3, <2>1, FinishedIsAnswered
<1>5. n - 1 \in 1..n - 1 /\ n - 1 \in 1..n /\ (n - 1) + 1 = n
  BY <1>1, <1>2
<1>6. /\ Well(c) /\ Asked(c, fr) /\ Calls(c.f, c.what, fr.f, fr.what, fr.into)
      /\ Right(c, buffers, Seen(fr))
  BY <1>3, <1>5, CallsBelow
<1>7. Cleared(c) /\ Within(c, fr)
  BY <1>3, <1>5 DEF IInv, Nesting
<1>8. e.into = c.into
  BY <1>6, <1>7, StoredAside DEF SameCall
<1> HIDE DEF c
<1>9. Resumes(e, c) /\ Right(e, d, Nobody) /\ Kept(d)
  BY <1>3, <1>4, <1>6, ResumeKeepsRight
<1> HIDE DEF e, d
<1>10. SameAsk(e, c)
  BY <1>8, <1>9 DEF Resumes, SameAsk
<1> QED BY <1>1, <1>9, <1>10, CallerGoesOn DEF c, n

\* Only the finite differences a check makes are destroyed by its end.
LEMMA EmptiedKept ==
  ASSUME IInv, Kept(buffers), buffers' = Emptied
  PROVE  Kept(buffers')
<1>1. DOMAIN buffers = Decorated \cup Squares
  BY DEF IInv, Sized
<1>2. ASSUME NEW f \in Squares
      PROVE  buffers'[f] = buffers[f]
  <2>1. ~Destroyed(f)
    <3> SUFFICES ASSUME NEW i \in DOMAIN stack, stack[i].what \in Checks,
                        Checker[stack[i].f] = f
                 PROVE  FALSE
      BY DEF Destroyed
    <3>1. Well(stack[i])
      <4>1. i \in 1..Len(stack)
        BY LenProperties DEF IInv, Nesting
      <4> QED BY <4>1 DEF IInv, Nesting
    <3>2. stack[i].f \in Functions /\ stack[i].f \in Checked
      BY <3>1 DEF Well, Members, Checks
    <3>3. Checker[stack[i].f] \in Decorated
      BY <3>2, Kinds
    <3>4. f \in Functions /\ Kind[f] = "squares" /\ Kind[f] \in {"simple", "fivePoints"}
      BY <3>3 DEF Decorated, Squares
    <3> QED BY <3>4
  <2> QED BY <1>1, <2>1 DEF Emptied
<1> QED BY <1>2 DEF Kept

\* Steps after which no call is running.
LEMMA EndsKeepAll ==
  ASSUME IInv, AllRight,
         CompareStep \/ Throw \/ ReturnToUser \/ \E b \in BOOLEAN : SetAllowed(b)
  PROVE  AllRight'
<1>1. Kept(buffers)
  BY DEF AllRight
<1>2. stack' = <<>> /\ (buffers' = Emptied \/ buffers' = buffers)
  BY DEF CompareStep, Throw, ReturnToUser, SetAllowed, Idle
<1>3. Kept(buffers')
  <2>1. CASE buffers' = Emptied
    BY <1>1, <2>1, EmptiedKept
  <2>2. CASE buffers' = buffers
    BY <1>1, <2>2
  <2> QED BY <1>2, <2>1, <2>2
<1> QED BY <1>2, <1>3, AllAreEnded

\* The user calls a member.
LEMMA CallKeepsAll ==
  ASSUME IInv, AllRight, NEW f \in Functions, NEW what \in Members(f),
         NEW k \in Numbers(f, what), NEW x \in Points[f], NEW fresh \in BOOLEAN,
         Call(f, what, k, x, fresh)
  PROVE  AllRight'
<1>1. buffers' = buffers /\ stack = <<>> /\ Kept(buffers')
  BY DEF Call, Idle, AllRight
<1>2. CASE fresh /\ ~allowed
  <2>1. stack' = <<>>
    BY <1>1, <1>2 DEF Call
  <2> QED BY <1>1, <2>1, AllAreEnded
<1>3. CASE ~(fresh /\ ~allowed)
  <2> DEFINE fr == Frame(f, what, k, x, <<"user">>)
  <2>1. stack' = <<fr>>
    BY <1>3 DEF Call
  <2>2. x \in [1..Inputs[f] -> Int]
    BY FunctionsAssumption
  <2>3. Right(fr, buffers', Nobody)
    BY <2>2, FrameRight
  <2> HIDE DEF fr
  <2>4. Len(stack') = 1 /\ stack'[1] = fr
    BY <2>1
  <2>5. \A i \in 1..Len(stack') : i = 1
    BY <2>4
  <2>6. Above(stack', 1) = Nobody
    BY <2>4 DEF Above
  <2>7. 1..Len(stack') - 1 = {}
    BY <2>4
  <2>8. \A i \in 1..Len(stack') : Right(stack'[i], buffers', Above(stack', i))
    BY <2>3, <2>4, <2>5, <2>6
  <2>9. \A i \in 1..Len(stack') - 1 : Asked(stack'[i], stack'[i + 1])
    BY <2>7
  <2> QED BY <1>1, <2>8, <2>9 DEF AllRight
<1> QED BY <1>2, <1>3

\* Nothing runs, and the sums of squares have evaluated their base at zero.
LEMMA InitAllRight == Init => AllRight
<1> SUFFICES ASSUME Init PROVE AllRight
  OBVIOUS
<1>1. Len(stack) = 0
  BY DEF Init
<1>2. 1..0 = {} /\ 1..(0 - 1) = {}
  OBVIOUS
<1>3. Kept(buffers)
  <2> SUFFICES ASSUME NEW f \in Squares
               PROVE  /\ DOMAIN buffers[f] = {"x", "value", "torn", "gradient"}
                      /\ buffers[f].torn \in BOOLEAN
                      /\ buffers[f].value = Exact(Adaptee[f], buffers[f].x)
    BY DEF Kept
  <2>1. buffers[f] = NewSquares(f)
    BY DEF Init
  <2> QED BY <2>1 DEF NewSquares
<1> QED BY <1>1, <1>2, <1>3 DEF AllRight

\* Every step keeps the running calls right.
LEMMA NextAllRight == IInv /\ AllRight /\ [Next]_vars => AllRight'
<1> SUFFICES ASSUME IInv, AllRight, [Next]_vars PROVE AllRight'
  OBVIOUS
<1>1. ASSUME NEW f \in Functions \ {Checker[g] : g \in Checked}, NEW what \in Members(f),
             NEW k \in Numbers(f, what), NEW x \in Points[f], NEW fresh \in BOOLEAN,
             Call(f, what, k, x, fresh)
      PROVE  AllRight'
  BY <1>1, CallKeepsAll
<1>2. CASE CompareStep \/ Throw \/ ReturnToUser \/ \E b \in BOOLEAN : SetAllowed(b)
  BY <1>2, EndsKeepAll
<1>3. CASE EvalStep \/ ProbeStep \/ RefreshStep
  BY <1>3, EvalKeepsAll, ProbeKeepsAll, RefreshKeepsAll
<1>4. CASE WriteStep \/ AgainStep \/ SquareStep \/ AccumulateStep \/ ComputeStep
  BY <1>4, WriteKeepsAll, AgainKeepsAll, SquareKeepsAll, AccumulateKeepsAll, ComputeKeepsAll
<1>5. CASE AllowStep \/ AllocateStep \/ RestoreStep \/ RequireStep
  BY <1>5, SilentStepsKeepAll
<1>6. CASE Return
  BY <1>6, ReturnKeepsAll
<1>7. CASE UNCHANGED vars
  BY <1>7 DEF vars, AllRight
<1> QED BY <1>1, <1>2, <1>3, <1>4, <1>5, <1>6, <1>7 DEF Next, Step

\* What every running call has answered so far is right or still to come,
\* and what a sum of squares keeps is of its argument, unless torn.
THEOREM RunningCallsAreRight == Spec => [](IInv /\ AllRight)
<1>1. Init => IInv /\ AllRight
  BY InitIInv, InitAllRight
<1>2. IInv /\ AllRight /\ [Next]_vars => (IInv /\ AllRight)'
  BY NextIInv, NextAllRight
<1> QED BY <1>1, <1>2, PTL DEF Spec

(***************************************************************************)
(* What the user gets.                                                     *)
(***************************************************************************)

\* An evaluation is answered by its return, a check by its comparison, and
\* nothing touches the answer or the buffers after.
LEMMA AnswersComeFrom ==
  ASSUME IInv, [Next]_vars
  PROVE  /\ outcome' = "returned" => ReturnToUser \/ UNCHANGED vars
         /\ outcome' \in {"accepted", "rejected"} => CompareStep \/ UNCHANGED vars
<1>1. stack # <<>> => outcome = "running"
  BY DEF IInv, Types
<1>2. \/ \E b \in BOOLEAN : SetAllowed(b)
      \/ outcome' \in {"refused", "running"}
      \/ Throw \/ AllocateStep \/ RequireStep \/ CompareStep \/ ReturnToUser \/ UNCHANGED vars
      \/ /\ stack # <<>> /\ outcome' = outcome
  <2>1. CASE EvalStep \/ ProbeStep \/ WriteStep \/ AgainStep \/ RefreshStep \/ SquareStep
             \/ AccumulateStep \/ AllowStep \/ RestoreStep \/ ComputeStep
    BY <2>1 DEF EvalStep, ProbeStep, WriteStep, AgainStep, RefreshStep, SquareStep,
                AccumulateStep, AllowStep, RestoreStep, ComputeStep, Doing, User
  <2>2. CASE Return
    <3>1. stack # <<>>
      <4>1. Len(<<>>) = 0
        OBVIOUS
      <4> QED BY <2>2, <4>1 DEF Return
    <3> QED BY <2>2, <3>1 DEF Return, User
  <2>3. ASSUME NEW f \in Functions \ {Checker[g] : g \in Checked}, NEW what \in Members(f),
               NEW k \in Numbers(f, what), NEW x \in Points[f], NEW fresh \in BOOLEAN,
               Call(f, what, k, x, fresh)
        PROVE  outcome' \in {"refused", "running"}
    BY <2>3 DEF Call
  <2> QED BY <2>1, <2>2, <2>3 DEF Next, Step
<1>3. ASSUME \E b \in BOOLEAN : SetAllowed(b)
      PROVE  outcome' = "none"
  BY <1>3 DEF SetAllowed
<1>4. ASSUME Throw
      PROVE  outcome' = "exception"
  BY <1>4 DEF Throw
<1>5. ASSUME AllocateStep \/ RequireStep
      PROVE  outcome' \in {"running", "refused", "forbidden", "assertion"}
  BY <1>1, <1>5 DEF AllocateStep, RequireStep, Doing
<1>6. ASSUME ReturnToUser
      PROVE  outcome' = "returned"
  BY <1>6 DEF ReturnToUser
<1>7. ASSUME CompareStep
      PROVE  outcome' \in {"accepted", "assertion", "rejected"}
  <2> DEFINE stored == StoredIn(Top.f, Top.what, Top.k)
  <2>1. outcome' = Verdict(stored, Top.out[1], Top.out[2])
    BY <1>7 DEF CompareStep
  <2> HIDE DEF stored
  <2>2. \A a, b : Verdict(stored, a, b) \in {"accepted", "assertion", "rejected"}
    BY DEF Verdict
  <2> QED BY <2>1, <2>2
<1> QED BY <1>1, <1>2, <1>3, <1>4, <1>5, <1>6, <1>7

\* A right call that returns to the user has answered what was asked for.
LEMMA NextAnswersAreExact ==
  ASSUME IInv, AllRight, AnswersAreExact, [Next]_vars
  PROVE  AnswersAreExact'
<1>1. CASE ReturnToUser
  <2> DEFINE fr == Top
  <2>1. /\ Len(stack) = 1 /\ fr.todo = <<>> /\ buffers' = buffers
        /\ answer' = [f |-> fr.f, what |-> fr.what, k |-> fr.k, x |-> fr.x, out |-> fr.out]
    BY <1>1 DEF ReturnToUser
  <2>2. stack # <<>>
    <3>1. Len(<<>>) = 0
      OBVIOUS
    <3>2. Len(stack) = 1
      BY <2>1
    <3> QED BY <3>1, <3>2
  <2>3. Well(fr) /\ Right(fr, buffers, Nobody)
    BY <2>2, TopIsRight
  <2> HIDE DEF fr
  <2>4. Answered(fr, buffers)
    BY <2>1, <2>3, FinishedIsAnswered
  <2>5. /\ answer'.f = fr.f /\ answer'.what = fr.what /\ answer'.k = fr.k
        /\ answer'.x = fr.x /\ answer'.out = fr.out
    BY <2>1
  <2>6. ~Torn(answer.f)' => answer'.out = Reference(answer'.f, answer'.what, answer'.k, answer'.x)
    BY <2>1, <2>4, <2>5 DEF Answered, Ref, Torn
  <2> QED BY <2>6 DEF AnswersAreExact
<1>2. CASE UNCHANGED vars
  BY <1>2 DEF vars, AnswersAreExact, Torn
<1>3. CASE outcome' # "returned"
  BY <1>3 DEF AnswersAreExact
<1> QED BY <1>1, <1>2, <1>3, AnswersComeFrom

\* The finite differences of polynomials of the degree their policy is exact
\* for are the derivatives, through every interleaving of nested calls,
\* exceptions and buffers kept between calls.
THEOREM AnswersAreRight == Spec => []AnswersAreExact
<1>1. Init => AnswersAreExact
  BY DEF Init, AnswersAreExact
<1>2. IInv /\ AllRight /\ AnswersAreExact /\ [Next]_vars => AnswersAreExact'
  BY NextAnswersAreExact
<1> QED BY <1>1, <1>2, RunningCallsAreRight, PTL DEF Spec

(***************************************************************************)
(* What a check reports.                                                   *)
(***************************************************************************)

\* A vector of integers has a first largest component.
FirstLargest(d, n, m) ==
  m \in 1..n /\ \A i \in 1..n : d[i] < d[m] \/ (d[i] = d[m] /\ m <= i)

\* Of some numbers in a row there is a first largest.
LEMMA FirstLargestExists ==
  ASSUME NEW n \in Nat \ {0}, NEW d \in [1..n -> Int]
  PROVE  \E m : FirstLargest(d, n, m)
<1> DEFINE S == {k \in 0..n : k = 0 \/ \E m : FirstLargest(d, k, m)}
<1>1. 0 \in S
  OBVIOUS
<1>2. ASSUME NEW k \in 1..n, k - 1 \in S
      PROVE  k \in S
  <2>1. CASE k - 1 = 0
    <3>1. k = 1
      BY <2>1
    <3>2. FirstLargest(d, k, 1)
      BY <3>1 DEF FirstLargest
    <3> QED BY <3>2
  <2>2. CASE k - 1 # 0
    <3>1. PICK m : FirstLargest(d, k - 1, m)
      BY <1>2, <2>2
    <3>2. m \in 1..k - 1 /\ m \in 1..n /\ \A i \in 1..k - 1 : d[i] < d[m] \/ (d[i] = d[m] /\ m <= i)
      BY <3>1 DEF FirstLargest
    <3>3. \A i \in 1..k : i = k \/ i \in 1..k - 1
      OBVIOUS
    <3>4. d[k] \in Int /\ d[m] \in Int /\ \A i \in 1..k : d[i] \in Int
      BY <3>2
    <3>5. CASE d[m] < d[k]
      <4>1. FirstLargest(d, k, k)
        BY <3>2, <3>3, <3>4, <3>5 DEF FirstLargest
      <4> QED BY <4>1
    <3>6. CASE ~(d[m] < d[k])
      <4>1. FirstLargest(d, k, m)
        BY <3>2, <3>3, <3>4, <3>6 DEF FirstLargest
      <4> QED BY <4>1
    <3> QED BY <3>5, <3>6
  <2> QED BY <2>1, <2>2
<1>3. n \in S
  <2> HIDE DEF S
  <2>1. \A k \in 0..n : k \in S
    BY <1>1, <1>2, Climb
  <2> QED BY <2>1
<1> QED BY <1>3

\* So has a matrix, row by row.
FirstEntry(D, e) ==
  /\ e \in DOMAIN D
  /\ \A g \in DOMAIN D : D[g] < D[e] \/ (D[g] = D[e] /\ ~RowByRow(g, e))

\* Of the entries of a matrix there is a first largest, row by row.
LEMMA FirstEntryExists ==
  ASSUME NEW m \in Nat \ {0}, NEW n \in Nat \ {0}, NEW D \in [(1..m) \X (1..n) -> Int]
  PROVE  \E e : FirstEntry(D, e)
<1> DEFINE row(i) == [j \in 1..n |-> D[<<i, j>>]]
           c(i) == CHOOSE j : FirstLargest(row(i), n, j)
           d == [i \in 1..m |-> D[<<i, c(i)>>]]
<1>1. ASSUME NEW i \in 1..m
      PROVE  FirstLargest(row(i), n, c(i))
  <2>1. row(i) \in [1..n -> Int]
    OBVIOUS
  <2> HIDE DEF row
  <2>2. \E j : FirstLargest(row(i), n, j)
    BY <2>1, FirstLargestExists
  <2> QED BY <2>2
<1>2. ASSUME NEW i \in 1..m
      PROVE  /\ c(i) \in 1..n
             /\ \A j \in 1..n : \/ D[<<i, j>>] < D[<<i, c(i)>>]
                                \/ D[<<i, j>>] = D[<<i, c(i)>>] /\ c(i) <= j
  <2> DEFINE j == c(i)
  <2>1. FirstLargest(row(i), n, j)
    BY <1>1
  <2> HIDE DEF j
  <2> QED BY <2>1 DEF FirstLargest, j
<1> HIDE DEF c
<1>3. d \in [1..m -> Int]
  BY <1>2
<1>4. PICK r : FirstLargest(d, m, r)
  BY <1>3, FirstLargestExists
<1>5. r \in 1..m /\ \A i \in 1..m : d[i] < d[r] \/ (d[i] = d[r] /\ r <= i)
  BY <1>4 DEF FirstLargest
<1> DEFINE e == <<r, c(r)>>
<1>6. e \in DOMAIN D /\ d[r] = D[e]
  BY <1>2, <1>5
<1>7. ASSUME NEW g \in DOMAIN D
      PROVE  D[g] < D[e] \/ (D[g] = D[e] /\ ~RowByRow(g, e))
  <2>1. PICK i \in 1..m, j \in 1..n : g = <<i, j>>
    OBVIOUS
  <2>2. /\ D[g] < d[i] \/ (D[g] = d[i] /\ c(i) <= j)
        /\ d[i] = D[<<i, c(i)>>] /\ c(i) \in 1..n
    BY <1>2, <2>1
  <2>3. d[i] < d[r] \/ (d[i] = d[r] /\ r <= i)
    BY <1>5
  <2>4. D[g] \in Int /\ d[i] \in Int /\ d[r] \in Int
    BY <1>3, <1>5
  <2>5. g[1] = i /\ g[2] = j /\ e[1] = r /\ e[2] = c(r)
    BY <2>1
  <2>6. c(r) \in 1..n
    BY <1>2, <1>5
  <2> HIDE DEF d, e
  <2>7. CASE D[g] < D[e]
    BY <2>7
  <2>8. CASE ~(D[g] < D[e])
    <3>1. D[g] = d[i] /\ c(i) <= j /\ d[i] = d[r] /\ r <= i
      BY <1>6, <2>2, <2>3, <2>4, <2>8
    <3>2. ~RowByRow(g, e)
      <4>1. CASE r = i
        BY <1>5, <2>2, <2>5, <2>6, <3>1, <4>1 DEF RowByRow
      <4>2. CASE r # i
        BY <1>5, <2>5, <3>1, <4>2 DEF RowByRow
      <4> QED BY <4>1, <4>2
    <3> QED BY <1>6, <3>1, <3>2
  <2> QED BY <2>7, <2>8
<1>8. FirstEntry(D, e)
  BY <1>6, <1>7 DEF FirstEntry
<1> QED BY <1>8

\* The walk of a sparse comparison starts at a first entry.
InColumns(e, g) == e[2] < g[2] \/ (e[2] = g[2] /\ e[1] < g[1])
\* Of some entries there is a first, column by column.
LEMMA WalkStarts ==
  ASSUME NEW s, s # {}, NEW m \in Nat, NEW n \in Nat, s \in SUBSET ((1..m) \X (1..n))
  PROVE  \E e \in s : \A g \in s \ {e} : InColumns(e, g)
<1> DEFINE C == {e[2] : e \in s}
<1>0. \A e \in s : e[1] \in 1..m /\ e[2] \in 1..n /\ e = <<e[1], e[2]>>
  OBVIOUS
<1>1. PICK c \in C : \A d \in C : c <= d
  <2>1. C \in SUBSET Nat /\ C # {}
    BY <1>0
  <2> QED BY <2>1, LeastNatural
<1> DEFINE R == {e[1] : e \in {e \in s : e[2] = c}}
<1>2. PICK r \in R : \A i \in R : r <= i
  <2>1. R \in SUBSET Nat /\ R # {}
    BY <1>0
  <2> QED BY <2>1, LeastNatural
<1>3. PICK e \in s : e[2] = c /\ e[1] = r
  OBVIOUS
<1>4. ASSUME NEW g \in s \ {e}
      PROVE  InColumns(e, g)
  <2>1. g[2] \in C /\ c <= g[2] /\ c \in Nat /\ g[2] \in Nat /\ g[1] \in Nat /\ r \in Nat
    BY <1>0, <1>1, <1>3
  <2>2. CASE c = g[2]
    <3>1. g[1] \in R /\ r <= g[1]
      BY <1>2, <2>2
    <3>2. g[1] # r
      BY <1>0, <1>3, <2>2
    <3> QED BY <1>3, <2>1, <2>2, <3>1, <3>2 DEF InColumns
  <2>3. CASE c # g[2]
    BY <1>3, <2>1, <2>3 DEF InColumns
  <2> QED BY <2>2, <2>3
<1> QED BY <1>3, <1>4

\* The walk over the stored entries accepts only if all are close, and rejects
\* only if one is not.
LEMMA VerdictTells ==
  ASSUME NEW m \in Nat, NEW n \in Nat, NEW stored \in SUBSET ((1..m) \X (1..n)), NEW a, NEW b
  PROVE  /\ Verdict(stored, a, b) = "accepted" =>
              \A e \in stored : Close(a[e[1]][e[2]], b[e[1]][e[2]])
         /\ Verdict(stored, a, b) = "rejected" =>
              \E e \in stored : ~Close(a[e[1]][e[2]], b[e[1]][e[2]])
<1> DEFINE stops == {e \in stored : \/ Misaligned(stored, e)
                                    \/ ~Close(a[e[1]][e[2]], b[e[1]][e[2]])}
           first == CHOOSE e \in stops : \A g \in stops \ {e} : InColumns(e, g)
<1>1. Verdict(stored, a, b) = CASE stops = {} -> "accepted"
                                [] stops # {} /\ Misaligned(stored, first) -> "assertion"
                                [] OTHER -> "rejected"
  BY DEF Verdict, InColumns
<1>2. CASE stops = {}
  BY <1>1, <1>2
<1>3. CASE stops # {}
  <2>1. stops \in SUBSET ((1..m) \X (1..n))
    OBVIOUS
  <2>2. stops \subseteq stored /\ \A e \in stops : ~Misaligned(stored, e) => ~Close(a[e[1]][e[2]], b[e[1]][e[2]])
    OBVIOUS
  <2> HIDE DEF stops
  <2>3. first \in stops
    BY <1>3, <2>1, WalkStarts
  <2> HIDE DEF first
  <2>4. /\ Verdict(stored, a, b) # "accepted"
        /\ Verdict(stored, a, b) = "rejected" => ~Misaligned(stored, first)
    BY <1>1, <1>3
  <2> QED BY <2>2, <2>3, <2>4
<1> QED BY <1>2, <1>3

\* Of the call an answer is of: the output an entry is of, its error and the
\* entry it should be.
OutputOf(c, i) == IF c.what = "check gradient" THEN c.k ELSE i
RowsOf(c) == IF c.what = "check gradient" THEN 1 ELSE Outputs[c.f]
KeptAt(c, e) == <<OutputOf(c, e[1]), e[2]>> \in Pattern[c.f]
TrueAt(c, e) == ExactRow(c.f, OutputOf(c, e[1]), c.x)[e[2]]
ErrorAt(c, e) ==
  Abs(IF KeptAt(c, e) THEN Slip[c.f][OutputOf(c, e[1])][e[2]] ELSE TrueAt(c, e))
ToleratedAt(c, e) == ErrorAt(c, e) * Precision <= 1 + Abs(TrueAt(c, e))
PlacesOf(c) == (1..RowsOf(c)) \X (1..Inputs[c.f])

\* The operators of the property, for the last call.
LEMMA AnswerIsOf ==
  /\ \A e : /\ Error(e) = ErrorAt(answer, e)
            /\ Tolerated(e) <=> ToleratedAt(answer, e)
            /\ IsStored(e) <=> KeptAt(answer, e)
  /\ Checkable = PlacesOf(answer)
<1>1. \A e : RowOf(e) = OutputOf(answer, e[1])
  BY DEF RowOf, OutputOf
<1>2. \A e : (IsStored(e) <=> KeptAt(answer, e)) /\ TrueEntry(e) = TrueAt(answer, e)
  BY <1>1 DEF IsStored, KeptAt, TrueEntry, TrueAt
<1>3. \A e : Error(e) = ErrorAt(answer, e)
  BY <1>1, <1>2 DEF Error, ErrorAt
<1>4. \A e : Tolerated(e) <=> ToleratedAt(answer, e)
  BY <1>2, <1>3 DEF Tolerated, ToleratedAt
<1>5. Checkable = PlacesOf(answer)
  <2> DEFINE S == IF answer.what = "check gradient" THEN {1} ELSE 1..Outputs[answer.f]
             T == 1..Inputs[answer.f]
  <2>1. S = 1..RowsOf(answer)
    <3>1. 1..1 = {1}
      OBVIOUS
    <3> QED BY <3>1 DEF RowsOf
  <2>2. Checkable = {<<i, j>> : i \in S, j \in T}
    BY DEF Checkable
  <2> HIDE DEF S, T
  <2>3. {<<i, j>> : i \in S, j \in T} = S \X T
    OBVIOUS
  <2>4. Checkable = S \X T
    BY <2>2, <2>3
  <2> QED BY <2>1, <2>4 DEF PlacesOf, T
<1> QED BY <1>2, <1>3, <1>4, <1>5

\* They depend on what was called only.
LEMMA SameCallSameErrors ==
  ASSUME NEW c, NEW d, c.f = d.f, c.what = d.what, c.k = d.k, c.x = d.x
  PROVE  /\ \A e : /\ ErrorAt(c, e) = ErrorAt(d, e)
                   /\ ToleratedAt(c, e) <=> ToleratedAt(d, e)
                   /\ KeptAt(c, e) <=> KeptAt(d, e)
         /\ PlacesOf(c) = PlacesOf(d)
<1>1. RowsOf(c) = RowsOf(d) /\ \A i : OutputOf(c, i) = OutputOf(d, i)
  BY DEF RowsOf, OutputOf
<1>2. \A e : (KeptAt(c, e) <=> KeptAt(d, e)) /\ TrueAt(c, e) = TrueAt(d, e)
  BY <1>1 DEF KeptAt, TrueAt
<1>3. \A e : ErrorAt(c, e) = ErrorAt(d, e)
  BY <1>1, <1>2 DEF ErrorAt
<1> QED BY <1>1, <1>2, <1>3 DEF ToleratedAt, PlacesOf

\* A check has a function of the user and its finite differences to compare.
LEMMA CheckedAre ==
  ASSUME NEW f \in Checked
  PROVE  /\ f \in Given /\ f \in Functions /\ f \notin Squares
         /\ Checker[f] \notin Given /\ Checker[f] \notin Squares
         /\ Adaptee[Checker[f]] = f /\ Outputs[Checker[f]] = Outputs[f]
         /\ Inputs[f] \in Nat \ {0} /\ Outputs[f] \in Nat \ {0}
<1>1. /\ f \in Given /\ f \in Functions /\ Checker[f] \in Functions
      /\ Kind[Checker[f]] = "fivePoints" /\ Adaptee[Checker[f]] = f
  BY FunctionsAssumption DEF Given
<1> DEFINE g == Checker[f]
<1> HIDE DEF g
<1>2. g \in Decorated /\ g \notin Squares
  BY <1>1 DEF Decorated, Squares, g
<1>3. Outputs[Adaptee[g]] = Outputs[g]
  BY <1>2, FunctionsAssumption
<1> QED BY <1>1, <1>2, <1>3, FunctionsAssumption DEF Given, g

\* The two matrices of a check, row by row: the analytical one and the exact.
LEMMA ComparedRows ==
  ASSUME NEW fr, fr.f \in Checked, fr.what \in Checks, fr.k \in Numbers(fr.f, fr.what),
         fr.x \in [1..Inputs[fr.f] -> Int]
  PROVE  LET a == Compared(fr, 1)
             b == Compared(fr, 2)
         IN /\ RowsOf(fr) \in Nat \ {0} /\ Inputs[fr.f] \in Nat \ {0}
            /\ DOMAIN a = 1..RowsOf(fr)
            /\ \A i \in 1..RowsOf(fr) :
                 /\ OutputOf(fr, i) \in 1..Outputs[fr.f]
                 /\ a[i] = AnalyticalRow(fr.f, OutputOf(fr, i), fr.x)
                 /\ b[i] = ExactRow(fr.f, OutputOf(fr, i), fr.x)
<1> DEFINE f == fr.f
           x == fr.x
           k == fr.k
           g == Checker[f]
<1>1. /\ f \in Given /\ f \in Functions /\ f \notin Squares
      /\ g \notin Given /\ g \notin Squares
      /\ Adaptee[g] = f /\ Outputs[g] = Outputs[f]
      /\ Inputs[f] \in Nat \ {0} /\ Outputs[f] \in Nat \ {0}
  BY CheckedAre
<1> HIDE DEF f, g, x, k
<1>2. CASE fr.what = "check gradient"
  <2>1. k \in 1..Outputs[f]
    BY <1>2 DEF Numbers, Checks, f, k
  <2>2. /\ Compared(fr, 1) = <<AnalyticalRow(f, k, x)>>
        /\ Compared(fr, 2) = <<ExactRow(f, k, x)>>
    <3>1. /\ Compared(fr, 1) = Reference(f, "gradient", k, x)
          /\ Compared(fr, 2) = Reference(g, "gradient", k, x)
      <4>1. Shown(fr.what) = "gradient"
        BY <1>2 DEF Shown
      <4>2. \A c : Compared(fr, c) = Reference(IF c = 1 THEN f ELSE g, "gradient", k, x)
        BY <4>1 DEF Compared, f, g, x, k
      <4>3. (IF 1 = 1 THEN f ELSE g) = f /\ (IF 2 = 1 THEN f ELSE g) = g
        OBVIOUS
      <4> QED BY <4>2, <4>3
    <3>2. Reference(f, "gradient", k, x) = <<AnalyticalRow(f, k, x)>>
      BY <1>1 DEF Reference, Computed
    <3>3. Reference(g, "gradient", k, x) = <<ExactRow(f, k, x)>>
      BY <1>1 DEF Reference
    <3> QED BY <3>1, <3>2, <3>3
  <2>3. RowsOf(fr) = 1 /\ \A i : OutputOf(fr, i) = k
    BY <1>2 DEF RowsOf, OutputOf, k
  <2> QED BY <1>1, <2>1, <2>2, <2>3 DEF f, x
<1>3. CASE fr.what # "check gradient"
  <2>1. /\ Compared(fr, 1) = [i \in 1..Outputs[f] |-> AnalyticalRow(f, i, x)]
        /\ Compared(fr, 2) = [i \in 1..Outputs[f] |-> ExactRow(f, i, x)]
    <3>1. /\ Compared(fr, 1) = Reference(f, "jacobian", k, x)
          /\ Compared(fr, 2) = Reference(g, "jacobian", k, x)
      <4>1. Shown(fr.what) = "jacobian"
        BY <1>3 DEF Shown
      <4>2. \A c : Compared(fr, c) = Reference(IF c = 1 THEN f ELSE g, "jacobian", k, x)
        BY <4>1 DEF Compared, f, g, x, k
      <4>3. (IF 1 = 1 THEN f ELSE g) = f /\ (IF 2 = 1 THEN f ELSE g) = g
        OBVIOUS
      <4> QED BY <4>2, <4>3
    <3>2. Reference(f, "jacobian", k, x) = [i \in 1..Outputs[f] |-> AnalyticalRow(f, i, x)]
      BY <1>1 DEF Reference
    <3>3. Reference(g, "jacobian", k, x) = [i \in 1..Outputs[f] |-> ExactRow(f, i, x)]
      BY <1>1 DEF Reference
    <3> QED BY <3>1, <3>2, <3>3
  <2>2. RowsOf(fr) = Outputs[f] /\ \A i : OutputOf(fr, i) = i
    BY <1>3 DEF RowsOf, OutputOf, f
  <2> QED BY <1>1, <2>1, <2>2 DEF f, x
<1> QED BY <1>2, <1>3

\* The two matrices differ by the error of the entry, which is stored or not.
LEMMA ComparedErrors ==
  ASSUME NEW fr, fr.f \in Checked, fr.what \in Checks, fr.k \in Numbers(fr.f, fr.what),
         fr.x \in [1..Inputs[fr.f] -> Int], NEW a, NEW b,
         a = Compared(fr, 1), b = Compared(fr, 2)
  PROVE  /\ Entries(a) = PlacesOf(fr)
         /\ \A e \in PlacesOf(fr) :
              /\ Delta(a, b, e) = ErrorAt(fr, e) /\ ErrorAt(fr, e) \in Int
              /\ Close(a[e[1]][e[2]], b[e[1]][e[2]]) <=> ToleratedAt(fr, e)
<1> DEFINE f == fr.f
           x == fr.x
<1>1. /\ RowsOf(fr) \in Nat \ {0} /\ Inputs[f] \in Nat \ {0} /\ DOMAIN a = 1..RowsOf(fr)
      /\ \A i \in 1..RowsOf(fr) :
           /\ OutputOf(fr, i) \in 1..Outputs[f]
           /\ a[i] = AnalyticalRow(f, OutputOf(fr, i), x)
           /\ b[i] = ExactRow(f, OutputOf(fr, i), x)
  BY ComparedRows
<1>2. f \in Given /\ x \in [1..Inputs[f] -> Int]
  BY CheckedAre
<1> HIDE DEF f, x
<1>3. Entries(a) = PlacesOf(fr)
  <2> DEFINE S == 1..RowsOf(fr)
             T == 1..Inputs[f]
  <2>1. DOMAIN a[1] = T
    <3>1. 1 \in 1..RowsOf(fr)
      BY <1>1
    <3>2. a[1] = AnalyticalRow(f, OutputOf(fr, 1), x)
      BY <1>1, <3>1
    <3>3. \A o : DOMAIN AnalyticalRow(f, o, x) = T
      BY DEF AnalyticalRow
    <3> QED BY <3>2, <3>3
  <2>2. Entries(a) = {<<i, j>> : i \in S, j \in T}
    BY <1>1, <2>1 DEF Entries
  <2> HIDE DEF S, T
  <2>3. {<<i, j>> : i \in S, j \in T} = S \X T
    OBVIOUS
  <2>4. Entries(a) = S \X T
    BY <2>2, <2>3
  <2> QED BY <2>4 DEF PlacesOf, S, T, f
<1>4. ASSUME NEW e \in PlacesOf(fr)
      PROVE  /\ Delta(a, b, e) = ErrorAt(fr, e) /\ ErrorAt(fr, e) \in Int
             /\ Close(a[e[1]][e[2]], b[e[1]][e[2]]) <=> ToleratedAt(fr, e)
  <2> DEFINE i == e[1]
             j == e[2]
             o == OutputOf(fr, i)
             t == ExactRow(f, o, x)[j]
             s == Slip[f][o][j]
  <2>1. i \in 1..RowsOf(fr) /\ j \in 1..Inputs[f]
    BY DEF PlacesOf, f
  <2> HIDE DEF i, j
  <2>2. o \in 1..Outputs[f] /\ a[i] = AnalyticalRow(f, o, x) /\ b[i] = ExactRow(f, o, x)
    BY <1>1, <2>1
  <2> HIDE DEF o
  <2>3. t \in Int /\ s \in Int
    <3>1. ExactRow(f, o, x) \in [1..Inputs[f] -> Int]
      BY <1>2, <2>2, GivenAreIntegers
    <3>2. s \in Int
      BY <1>2, <2>1, <2>2, TermsAssumption
    <3> QED BY <2>1, <3>1, <3>2
  <2>4. a[i][j] = (IF <<o, j>> \in Pattern[f] THEN t + s ELSE 0) /\ b[i][j] = t
    BY <2>1, <2>2 DEF AnalyticalRow
  <2>5. /\ (KeptAt(fr, e) <=> <<o, j>> \in Pattern[f]) /\ TrueAt(fr, e) = t
        /\ ErrorAt(fr, e) = Abs(IF KeptAt(fr, e) THEN s ELSE t)
    BY DEF KeptAt, TrueAt, ErrorAt, f, x, o, i, j
  <2> HIDE DEF t, s
  <2>6. Abs(a[i][j] - b[i][j]) = ErrorAt(fr, e) /\ ErrorAt(fr, e) \in Int
    BY <2>3, <2>4, <2>5 DEF Abs
  <2>7. Delta(a, b, e) = ErrorAt(fr, e)
    BY <2>6 DEF Delta, i, j
  <2>8. Close(a[i][j], b[i][j]) <=> ToleratedAt(fr, e)
    BY <2>4, <2>5, <2>6 DEF Close, ToleratedAt
  <2> QED BY <2>6, <2>7, <2>8 DEF i, j
<1> QED BY <1>3, <1>4

\* The stored entries a check compares are those of the pattern.
LEMMA ComparedAreStored ==
  ASSUME NEW fr, fr.f \in Checked, fr.what \in Checks, fr.k \in Numbers(fr.f, fr.what),
         NEW stored, stored = StoredIn(fr.f, fr.what, fr.k)
  PROVE  /\ stored \in SUBSET PlacesOf(fr)
         /\ \A e \in PlacesOf(fr) : KeptAt(fr, e) => e \in stored
<1> DEFINE f == fr.f
           P == Pattern[f]
<1>1. P \subseteq (1..Outputs[f]) \X (1..Inputs[f])
  <2>1. f \in Given
    BY CheckedAre
  <2> HIDE DEF f
  <2> QED BY <2>1, TermsAssumption
<1> HIDE DEF P
<1>2. CASE fr.what = "check gradient"
  <2>1. stored = {<<1, e[2]>> : e \in {e \in P : e[1] = fr.k}}
    BY <1>2 DEF StoredIn, P
  <2>2. PlacesOf(fr) = (1..1) \X (1..Inputs[f])
    BY <1>2 DEF PlacesOf, RowsOf
  <2>3. \A e \in PlacesOf(fr) : KeptAt(fr, e) <=> <<fr.k, e[2]>> \in P
    BY <1>2 DEF KeptAt, OutputOf, P
  <2> HIDE DEF f
  <2>4. stored \in SUBSET PlacesOf(fr)
    BY <1>1, <2>1, <2>2
  <2>5. ASSUME NEW e \in PlacesOf(fr), KeptAt(fr, e)
        PROVE  e \in stored
    <3> DEFINE g == <<fr.k, e[2]>>
    <3>1. g \in P /\ g[1] = fr.k /\ g[2] = e[2]
      BY <2>3, <2>5
    <3>2. e = <<1, g[2]>>
      BY <2>2
    <3> HIDE DEF g
    <3> QED BY <2>1, <3>1, <3>2
  <2> QED BY <2>4, <2>5
<1>3. CASE fr.what # "check gradient"
  <2>1. stored = P
    BY <1>3 DEF StoredIn, Checks, P
  <2>2. PlacesOf(fr) = (1..Outputs[f]) \X (1..Inputs[f])
    BY <1>3 DEF PlacesOf, RowsOf
  <2>3. \A e \in PlacesOf(fr) : KeptAt(fr, e) <=> <<e[1], e[2]>> \in P
    BY <1>3 DEF KeptAt, OutputOf, P
  <2> HIDE DEF f
  <2> QED BY <1>1, <2>1, <2>2, <2>3
<1> QED BY <1>2, <1>3

\* What a check reports is the first entry, row by row, of the largest error.
LEMMA LargestIsFirst ==
  ASSUME NEW fr, NEW a, NEW b, RowsOf(fr) \in Nat \ {0}, Inputs[fr.f] \in Nat \ {0},
         Entries(a) = PlacesOf(fr), \A e \in PlacesOf(fr) : Delta(a, b, e) \in Int
  PROVE  /\ Largest(a, b) \in PlacesOf(fr)
         /\ \A e \in PlacesOf(fr) :
              \/ Delta(a, b, e) < Delta(a, b, Largest(a, b))
              \/ Delta(a, b, e) = Delta(a, b, Largest(a, b)) /\ ~RowByRow(e, Largest(a, b))
<1> DEFINE D == [e \in PlacesOf(fr) |-> Delta(a, b, e)]
<1>1. D \in [(1..RowsOf(fr)) \X (1..Inputs[fr.f]) -> Int]
  BY DEF PlacesOf
<1>2. DOMAIN D = PlacesOf(fr) /\ \A e \in PlacesOf(fr) : D[e] = Delta(a, b, e)
  OBVIOUS
<1> HIDE DEF D
<1>3. PICK l : FirstEntry(D, l)
  BY <1>1, FirstEntryExists
<1>4. \E e \in Entries(a) : \A g \in Entries(a) :
        Delta(a, b, g) < Delta(a, b, e) \/ (Delta(a, b, g) = Delta(a, b, e) /\ ~RowByRow(g, e))
  BY <1>2, <1>3 DEF FirstEntry
<1> QED BY <1>4 DEF Largest

\* The places of a gradient are in one row.
LEMMA OneRow ==
  ASSUME NEW N, NEW S, S = (1..1) \X N
  PROVE  \A j \in N : <<1, j>> \in S
OBVIOUS

\* Within one row, row by row is by the column.
LEMMA InOneRow ==
  ASSUME NEW n \in Nat, NEW m \in 1..n, NEW S, S = (1..1) \X (1..n), NEW g \in S
  PROVE  \E i \in 1..n : g = <<1, i>> /\ (m <= i => ~RowByRow(g, <<1, m>>))
<1>1. 1..1 = {1}
  OBVIOUS
<1>2. PICK i \in 1..n : g = <<1, i>>
  BY <1>1
<1>3. m <= i => ~RowByRow(<<1, i>>, <<1, m>>)
  BY DEF RowByRow
<1> QED BY <1>2, <1>3

\* The component reported for a gradient is the first of the largest.
LEMMA LargestComponentIsFirst ==
  ASSUME NEW fr, NEW a, NEW b, fr.what = "check gradient", Inputs[fr.f] \in Nat \ {0},
         DOMAIN a[1] = 1..Inputs[fr.f], \A e \in PlacesOf(fr) : Delta(a, b, e) \in Int
  PROVE  /\ LargestComponent(a, b) \in PlacesOf(fr)
         /\ \A e \in PlacesOf(fr) :
              \/ Delta(a, b, e) < Delta(a, b, LargestComponent(a, b))
              \/ /\ Delta(a, b, e) = Delta(a, b, LargestComponent(a, b))
                 /\ ~RowByRow(e, LargestComponent(a, b))
<1> DEFINE n == Inputs[fr.f]
           d == [j \in 1..n |-> Delta(a, b, <<1, j>>)]
           m == CHOOSE j \in DOMAIN a[1] :
                  \A i \in DOMAIN a[1] : \/ Delta(a, b, <<1, i>>) < Delta(a, b, <<1, j>>)
                                         \/ Delta(a, b, <<1, i>>) = Delta(a, b, <<1, j>>) /\ j <= i
<1>1. PlacesOf(fr) = (1..1) \X (1..n)
  BY DEF PlacesOf, RowsOf
<1>2. d \in [1..n -> Int]
  <2>1. ASSUME NEW j \in 1..n PROVE Delta(a, b, <<1, j>>) \in Int
    <3>1. <<1, j>> \in PlacesOf(fr)
      BY <1>1, OneRow
    <3> QED BY <3>1
  <2> QED BY <2>1
<1> HIDE DEF n
<1>3. \A j \in 1..n : d[j] = Delta(a, b, <<1, j>>)
  OBVIOUS
<1> HIDE DEF d
<1>4. PICK l : FirstLargest(d, n, l)
  BY <1>2, FirstLargestExists DEF n
<1>5. \E j \in DOMAIN a[1] :
        \A i \in DOMAIN a[1] : \/ Delta(a, b, <<1, i>>) < Delta(a, b, <<1, j>>)
                               \/ Delta(a, b, <<1, i>>) = Delta(a, b, <<1, j>>) /\ j <= i
  BY <1>3, <1>4 DEF FirstLargest, n
<1>6. /\ m \in 1..n
      /\ \A i \in 1..n : \/ Delta(a, b, <<1, i>>) < Delta(a, b, <<1, m>>)
                         \/ Delta(a, b, <<1, i>>) = Delta(a, b, <<1, m>>) /\ m <= i
  BY <1>5 DEF n
<1>7. LargestComponent(a, b) = <<1, m>>
  BY DEF LargestComponent
<1> HIDE DEF m
<1>8. ASSUME NEW g \in PlacesOf(fr)
      PROVE  \/ Delta(a, b, g) < Delta(a, b, <<1, m>>)
             \/ Delta(a, b, g) = Delta(a, b, <<1, m>>) /\ ~RowByRow(g, <<1, m>>)
  <2>1. PICK i : i \in 1..n /\ g = <<1, i>> /\ (m <= i => ~RowByRow(g, <<1, m>>))
    <3>1. n \in Nat
      BY DEF n
    <3> QED BY <1>1, <1>6, <3>1, InOneRow
  <2>2. \/ Delta(a, b, <<1, i>>) < Delta(a, b, <<1, m>>)
        \/ Delta(a, b, <<1, i>>) = Delta(a, b, <<1, m>>) /\ m <= i
    BY <1>6, <2>1
  <2> QED BY <2>1, <2>2
<1>9. <<1, m>> \in PlacesOf(fr)
  BY <1>1, <1>6, OneRow
<1> QED BY <1>7, <1>8, <1>9

\* What a check finds in a call, and what it reports of it.
Found(c, verdict, largest) ==
  /\ verdict = "accepted" => \A e \in PlacesOf(c) : KeptAt(c, e) => ToleratedAt(c, e)
  /\ verdict = "rejected" =>
       /\ \E e \in PlacesOf(c) : ~ToleratedAt(c, e)
       /\ \A e \in PlacesOf(c) :
            /\ ErrorAt(c, e) <= ErrorAt(c, largest)
            /\ RowByRow(e, largest) => ErrorAt(c, e) < ErrorAt(c, largest)

\* The comparison of the two right matrices finds what the property asks for.
LEMMA CheckFinds ==
  ASSUME NEW fr, fr.f \in Checked, fr.what \in Checks, fr.k \in Numbers(fr.f, fr.what),
         fr.x \in [1..Inputs[fr.f] -> Int], NEW a, NEW b,
         a = Compared(fr, 1), b = Compared(fr, 2)
  PROVE  Found(fr, Verdict(StoredIn(fr.f, fr.what, fr.k), a, b),
               IF fr.what = "check gradient" THEN LargestComponent(a, b) ELSE Largest(a, b))
<1> DEFINE stored == StoredIn(fr.f, fr.what, fr.k)
           l == IF fr.what = "check gradient" THEN LargestComponent(a, b) ELSE Largest(a, b)
           v == Verdict(stored, a, b)
<1>1. /\ Entries(a) = PlacesOf(fr)
      /\ \A e \in PlacesOf(fr) :
           /\ Delta(a, b, e) = ErrorAt(fr, e) /\ ErrorAt(fr, e) \in Int
           /\ Close(a[e[1]][e[2]], b[e[1]][e[2]]) <=> ToleratedAt(fr, e)
  BY ComparedErrors
<1>2. /\ RowsOf(fr) \in Nat \ {0} /\ Inputs[fr.f] \in Nat \ {0}
      /\ DOMAIN a[1] = 1..Inputs[fr.f]
  <2>1. /\ RowsOf(fr) \in Nat \ {0} /\ Inputs[fr.f] \in Nat \ {0}
        /\ \A i \in 1..RowsOf(fr) : a[i] = AnalyticalRow(fr.f, OutputOf(fr, i), fr.x)
    BY ComparedRows
  <2>2. 1 \in 1..RowsOf(fr)
    BY <2>1
  <2>3. a[1] = AnalyticalRow(fr.f, OutputOf(fr, 1), fr.x)
    BY <2>1, <2>2
  <2>4. \A o : DOMAIN AnalyticalRow(fr.f, o, fr.x) = 1..Inputs[fr.f]
    BY DEF AnalyticalRow
  <2> QED BY <2>1, <2>3, <2>4
<1>3. /\ stored \in SUBSET PlacesOf(fr)
      /\ \A e \in PlacesOf(fr) : KeptAt(fr, e) => e \in stored
  BY ComparedAreStored
<1> HIDE DEF stored
<1>4. /\ v = "accepted" => \A e \in stored : Close(a[e[1]][e[2]], b[e[1]][e[2]])
      /\ v = "rejected" => \E e \in stored : ~Close(a[e[1]][e[2]], b[e[1]][e[2]])
  BY ZenonT(60), <1>2, <1>3, VerdictTells DEF PlacesOf
<1>5. /\ l \in PlacesOf(fr)
      /\ \A e \in PlacesOf(fr) :
           \/ Delta(a, b, e) < Delta(a, b, l)
           \/ Delta(a, b, e) = Delta(a, b, l) /\ ~RowByRow(e, l)
  <2>1. \A e \in PlacesOf(fr) : Delta(a, b, e) \in Int
    BY <1>1
  <2>2. CASE fr.what = "check gradient"
    BY <1>2, <2>1, <2>2, LargestComponentIsFirst
  <2>3. CASE fr.what # "check gradient"
    <3>1. Entries(a) = PlacesOf(fr)
      BY <1>1
    <3> DEFINE h == Largest(a, b)
    <3>2. /\ h \in PlacesOf(fr)
          /\ \A e \in PlacesOf(fr) :
               \/ Delta(a, b, e) < Delta(a, b, h)
               \/ Delta(a, b, e) = Delta(a, b, h) /\ ~RowByRow(e, h)
      BY <1>2, <2>1, <3>1, LargestIsFirst
    <3>3. l = h
      BY <2>3
    <3> HIDE DEF l, h
    <3> QED BY <3>2, <3>3
  <2> QED BY <2>2, <2>3
<1> HIDE DEF l, v
<1>6. v = "accepted" => \A e \in PlacesOf(fr) : KeptAt(fr, e) => ToleratedAt(fr, e)
  BY <1>1, <1>3, <1>4
<1>7. v = "rejected" => \E e \in PlacesOf(fr) : ~ToleratedAt(fr, e)
  BY <1>1, <1>3, <1>4
<1>8. \A e \in PlacesOf(fr) :
        /\ ErrorAt(fr, e) <= ErrorAt(fr, l)
        /\ RowByRow(e, l) => ErrorAt(fr, e) < ErrorAt(fr, l)
  BY <1>1, <1>5
<1>9. Found(fr, v, l)
  BY <1>6, <1>7, <1>8 DEF Found
<1> QED BY <1>9 DEF v, l, stored

\* A comparison comes when both matrices are there.
LEMMA CompareHasBoth ==
  ASSUME IInv, AllRight, CompareStep
  PROVE  /\ Top.f \in Checked /\ Top.what \in Checks /\ Top.k \in Numbers(Top.f, Top.what)
         /\ Top.x \in [1..Inputs[Top.f] -> Int]
         /\ Top.out[1] = Compared(Top, 1) /\ Top.out[2] = Compared(Top, 2)
<1> DEFINE fr == Top
           f == fr.f
           what == fr.what
           i == Head(fr.todo)
<1>1. /\ stack # <<>> /\ fr.todo # <<>> /\ i.do = "compare"
  BY DEF CompareStep, Doing
<1>2. Well(fr) /\ Right(fr, buffers, Nobody) /\ Common(fr)
  BY <1>1, TopIsRight
<1>3. Fits(f, what, i)
  BY <1>1, <1>2, StepIsMeant
<1> HIDE DEF fr, i
<1>4. what \in Checks
  BY <1>1, <1>3 DEF Fits
<1>5. f \in Functions /\ what \in Members(f)
  BY <1>2 DEF Well
<1>6. WholesRight(fr, Nobody) /\ f \in Checked /\ fr.k \in Numbers(f, what)
  BY <1>2, <1>4, <1>5, RightBySort, Sorts DEF Common
<1> HIDE DEF f, what
<1>7. PICK n \in 0..3 :
        /\ Left(fr.todo, Comparison(f, Shown(what), fr.k), n)
        /\ \A c \in 1..2 : n > c =>
             fr.out[c] = Compared(fr, c) \/ (Nobody.into = <<"whole", c>> /\ n = c + 1)
  BY <1>6 DEF WholesRight, f, what
<1>8. fr.todo \in Seq(Meant(f, what, fr.k))
  BY <1>2 DEF Common, f, what
<1>9. /\ n = 0 => i = Do("allocate")
      /\ n = 1 => i = Eval(f, Shown(what), fr.k, <<"whole", 1>>)
      /\ n = 2 => i = Eval(Checker[f], Shown(what), fr.k, <<"whole", 2>>)
  BY <1>4, <1>6, <1>7, <1>8, ComparisonSteps DEF i
<1>10. n = 3
  <2>1. n # 0 /\ n # 1 /\ n # 2
    BY <1>1, <1>9 DEF Do, Eval
  <2> QED BY <1>7, <2>1
<1>11. fr.out[1] = Compared(fr, 1) /\ fr.out[2] = Compared(fr, 2)
  BY <1>7, <1>10, NobodyAbove
<1>12. fr.x \in [1..Inputs[fr.f] -> Int]
  BY <1>2 DEF Common
<1> QED BY <1>4, <1>6, <1>11, <1>12 DEF f, what, fr

\* The property speaks of the last call.
LEMMA ChecksAre == ChecksFindErrors <=> Found(answer, outcome, answer.largest)
BY AnswerIsOf DEF ChecksFindErrors, Found

\* And after a step of the last call then.
LEMMA ChecksAreNext == (ChecksFindErrors <=> Found(answer, outcome, answer.largest))'
BY ChecksAre, PTL

\* No step breaks the property: a comparison is made of two right matrices,
\* and everything else leaves the verdict or clears it.
LEMMA NextChecksFind ==
  ASSUME IInv, AllRight, ChecksFindErrors, [Next]_vars
  PROVE  ChecksFindErrors'
<1>1. (ChecksFindErrors <=> Found(answer, outcome, answer.largest))'
  BY ChecksAreNext
<1>2. CASE CompareStep
  <2> DEFINE fr == Top
             a == fr.out[1]
             b == fr.out[2]
             l == IF fr.what = "check gradient" THEN LargestComponent(a, b) ELSE Largest(a, b)
             v == Verdict(StoredIn(fr.f, fr.what, fr.k), a, b)
  <2>1. /\ outcome' = v
        /\ answer' = [f |-> fr.f, what |-> fr.what, k |-> fr.k, x |-> fr.x, largest |-> l]
    BY <1>2 DEF CompareStep
  <2>2. /\ fr.f \in Checked /\ fr.what \in Checks /\ fr.k \in Numbers(fr.f, fr.what)
        /\ fr.x \in [1..Inputs[fr.f] -> Int] /\ a = Compared(fr, 1) /\ b = Compared(fr, 2)
    BY <1>2, CompareHasBoth
  <2> HIDE DEF fr, a, b
  <2>3. Found(fr, v, l)
    BY <2>2, CheckFinds
  <2> HIDE DEF v, l
  <2> DEFINE c == answer'
  <2>4. c.f = fr.f /\ c.what = fr.what /\ c.k = fr.k /\ c.x = fr.x /\ c.largest = l
    BY <2>1
  <2> HIDE DEF c
  <2>5. Found(c, v, c.largest)
    <3>1. /\ \A e : /\ ErrorAt(c, e) = ErrorAt(fr, e)
                    /\ ToleratedAt(c, e) <=> ToleratedAt(fr, e)
                    /\ KeptAt(c, e) <=> KeptAt(fr, e)
          /\ PlacesOf(c) = PlacesOf(fr)
      BY <2>4, SameCallSameErrors
    <3> QED BY <2>3, <2>4, <3>1 DEF Found
  <2>6. Found(answer, outcome, answer.largest)'
    BY <2>1, <2>5 DEF c
  <2> QED BY <1>1, <2>6
<1>3. CASE UNCHANGED vars
  <2>1. answer' = answer /\ outcome' = outcome
    BY <1>3 DEF vars
  <2>2. Found(answer, outcome, answer.largest)
    BY ChecksAre
  <2>3. Found(answer', outcome', answer'.largest)
    BY <2>1, <2>2
  <2> QED BY <1>1, <2>3
<1>4. CASE outcome' \notin {"accepted", "rejected"}
  BY <1>4 DEF ChecksFindErrors
<1> QED BY <1>2, <1>3, <1>4, AnswersComeFrom

\* A check finds the errors of the analytical derivatives that are stored,
\* and no others, and reports the first of the largest.
THEOREM ChecksAreRight == Spec => []ChecksFindErrors
<1>1. Init => ChecksFindErrors
  BY DEF Init, ChecksFindErrors
<1>2. IInv /\ AllRight /\ ChecksFindErrors /\ [Next]_vars => ChecksFindErrors'
  BY NextChecksFind
<1> QED BY <1>1, <1>2, RunningCallsAreRight, PTL DEF Spec

=============================================================================
