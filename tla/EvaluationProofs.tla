-------------------------- MODULE EvaluationProofs --------------------------
(***************************************************************************)
(* Theorems about Evaluation: the flag that lets Eigen allocate is cleared *)
(* and restored as the nesting of the calls asks, for any functions, any   *)
(* way they wrap each other and any arguments.                             *)
(***************************************************************************)
EXTENDS Evaluation, SequenceTheorems, FiniteSetTheorems, TLAPS

(***************************************************************************)
(* Sequences.                                                              *)
(***************************************************************************)

\* Every non-empty set of naturals has a least element: the ordering of
\* finite sets by strict inclusion is well founded, and i < j exactly if
\* 1..i is strictly included in 1..j.
LEMMA LeastNatural ==
  ASSUME NEW I \in SUBSET Nat, I # {}
  PROVE  \E m \in I : \A i \in I : m <= i
<1> DEFINE Segments == {1..i : i \in I}
<1>1. Segments \subseteq FiniteSubsetsOf(Nat) /\ Segments # {}
  <2>1. \A i \in I : 1..i \subseteq Nat /\ IsFiniteSet(1..i)
    BY FS_Interval
  <2> QED BY <2>1 DEF FiniteSubsetsOf
<1>2. PICK L \in Segments :
        \A K \in Segments : ~(<<K, L>> \in StrictSubsetOrdering(Nat))
  <2> HIDE DEF Segments
  <2> QED BY <1>1, FS_StrictSubsetOrderingWellFounded, WFMin
<1>3. PICK m \in I : L = 1..m
  BY <1>2
<1>4. ASSUME NEW i \in I, i < m
      PROVE  FALSE
  <2>1. 1..i \in SUBSET Nat /\ 1..m \in SUBSET Nat /\ 1..i \subseteq 1..m
    BY <1>4
  <2>2. m \in 1..m /\ m \notin 1..i
    BY <1>4
  <2>3. <<1..i, L>> \in StrictSubsetOrdering(Nat)
    BY <1>3, <2>1, <2>2 DEF StrictSubsetOrdering
  <2> QED BY <1>2, <2>3
<1> QED BY <1>3, <1>4

\* What FlattenSeq asks of its function, for the first m sequences.
Flattens(g, ss, m) ==
  g = [i \in 1..m |-> IF i = 1 THEN ss[i] ELSE g[i - 1] \o ss[i]]

\* There is one: a function for the first m sequences extends one for m - 1.
LEMMA FlattensExists ==
  ASSUME NEW ss, NEW n \in Nat
  PROVE  \A m \in 1..n : \E g : Flattens(g, ss, m)
<1> DEFINE I == {m \in 1..n : ~\E g : Flattens(g, ss, m)}
<1> SUFFICES ASSUME I # {} PROVE FALSE
  OBVIOUS
<1>1. PICK m \in I : \A i \in I : m <= i
  <2>1. I \in SUBSET Nat
    OBVIOUS
  <2> HIDE DEF I
  <2> QED BY <2>1, LeastNatural
<1>2. m \in 1..n /\ ~\E g : Flattens(g, ss, m)
  BY <1>1
<1>3. CASE m = 1
  <2> DEFINE g == [i \in 1..1 |-> ss[i]]
  <2>1. Flattens(g, ss, 1)
    BY DEF Flattens
  <2> QED BY <1>2, <1>3, <2>1
<1>4. CASE m # 1
  <2>1. m - 1 \in 1..n /\ m - 1 \notin I
    BY <1>1, <1>2, <1>4
  <2>2. PICK h : Flattens(h, ss, m - 1)
    BY <2>1
  <2> DEFINE g == [i \in 1..m |-> IF i = m THEN h[i - 1] \o ss[i] ELSE h[i]]
  <2>3. ASSUME NEW i \in 1..m
        PROVE  g[i] = IF i = 1 THEN ss[i] ELSE g[i - 1] \o ss[i]
    <3>1. CASE i = m
      <4>1. m - 1 \in 1..m /\ m - 1 # m /\ i # 1
        BY <1>2, <1>4, <3>1
      <4>2. g[i] = h[i - 1] \o ss[i] /\ g[m - 1] = h[m - 1]
        BY <3>1, <4>1
      <4> QED BY <3>1, <4>1, <4>2
    <3>2. CASE i # m
      <4>1. i \in 1..m - 1
        BY <1>2, <3>2
      <4>2. h[i] = IF i = 1 THEN ss[i] ELSE h[i - 1] \o ss[i]
        BY <2>2, <4>1 DEF Flattens
      <4>3. g[i] = h[i] /\ (i # 1 => g[i - 1] = h[i - 1])
        BY <1>2, <4>1
      <4> QED BY <4>2, <4>3
    <3> QED BY <3>1, <3>2
  <2>4. Flattens(g, ss, m)
    <3>1. g = [i \in 1..m |-> g[i]]
      OBVIOUS
    <3> HIDE DEF g
    <3> QED BY <2>3, <3>1 DEF Flattens
  <2> HIDE DEF g
  <2> QED BY <1>2, <2>4
<1> QED BY <1>3, <1>4

\* FlattenSeq of sequences over a set is a sequence over it.
LEMMA FlattenSeqType ==
  ASSUME NEW S, NEW ss \in Seq(Seq(S))
  PROVE  FlattenSeq(ss) \in Seq(S)
<1> DEFINE n == Len(ss)
<1>1. n \in Nat /\ \A i \in 1..n : ss[i] \in Seq(S)
  BY LenProperties, ElementOfSeq
<1>2. CASE n = 0
  <2>1. ss = <<>>
    BY <1>2, EmptySeq
  <2> QED BY <1>2, <2>1 DEF FlattenSeq
<1>3. CASE n # 0
  <2> DEFINE g == CHOOSE g : Flattens(g, ss, n)
  <2>1. FlattenSeq(ss) = g[n]
    BY <1>3 DEF FlattenSeq, Flattens
  <2>2. Flattens(g, ss, n)
    <3>1. n \in 1..n
      BY <1>1, <1>3
    <3> QED BY <1>1, <3>1, FlattensExists
  <2> HIDE DEF g
  <2> DEFINE I == {i \in 1..n : g[i] \notin Seq(S)}
  <2>3. ASSUME I # {} PROVE FALSE
    <3>1. PICK m \in I : \A i \in I : m <= i
      <4>1. I \in SUBSET Nat
        BY <1>1
      <4> HIDE DEF I
      <4> QED BY <2>3, <4>1, LeastNatural
    <3>2. m \in 1..n /\ g[m] \notin Seq(S)
      BY <3>1
    <3>3. g[m] = IF m = 1 THEN ss[m] ELSE g[m - 1] \o ss[m]
      BY <2>2, <3>2 DEF Flattens
    <3>4. m # 1 => g[m - 1] \in Seq(S)
      BY <1>1, <3>1, <3>2
    <3> QED BY <1>1, <3>2, <3>3, <3>4, ConcatProperties
  <2>4. n \in 1..n
    BY <1>1, <1>3
  <2> QED BY <2>1, <2>3, <2>4
<1> QED BY <1>2, <1>3

(***************************************************************************)
(* What is still to be done in a call.                                     *)
(***************************************************************************)

Has(t, w) == \E i \in DOMAIN t : t[i].do = w
Marks == {"allow", "allocate", "restore", "compute"}
Rank(w) ==
  CASE w = "allow" -> 1 [] w = "allocate" -> 2 [] w = "restore" -> 3 [] OTHER -> 4

\* A guarded call sets the flag, allocates, restores it and computes in this
\* order, each at most once, and it does restore the flag if it sets it.
InOrder(t) ==
  \A i, j \in DOMAIN t :
    i < j /\ t[i].do \in Marks /\ t[j].do \in Marks => Rank(t[i].do) < Rank(t[j].do)
Bracketed(t) ==
  InOrder(t) /\ (Has(t, "allow") \/ Has(t, "allocate") => Has(t, "restore"))

\* The flag was set and is still to be restored.
Open(t) == Has(t, "restore") /\ ~Has(t, "allow")

Unmarked(t) == \A i \in DOMAIN t : t[i].do \notin Marks

\* What two sequences of steps have, their concatenation has.
LEMMA HasConcat ==
  ASSUME NEW S, NEW p \in Seq(S), NEW t \in Seq(S), NEW w
  PROVE  Has(p \o t, w) <=> Has(p, w) \/ Has(t, w)
<1> DEFINE m == Len(p)
           n == Len(t)
           c == p \o t
<1>1. /\ m \in Nat /\ n \in Nat /\ DOMAIN p = 1..m /\ DOMAIN t = 1..n
      /\ c \in Seq(S) /\ Len(c) = m + n /\ DOMAIN c = 1..m + n
      /\ \A i \in 1..m + n : c[i] = IF i <= m THEN p[i] ELSE t[i - m]
  BY ConcatProperties, LenProperties
<1> HIDE DEF c, m, n
<1>2. ASSUME Has(c, w) PROVE Has(p, w) \/ Has(t, w)
  <2>1. PICK i \in 1..m + n : c[i].do = w
    BY <1>1, <1>2 DEF Has
  <2>2. CASE i <= m
    <3>1. i \in 1..m /\ p[i].do = w
      BY <1>1, <2>1, <2>2
    <3> QED BY <1>1, <3>1 DEF Has
  <2>3. CASE ~(i <= m)
    <3>1. i - m \in 1..n /\ t[i - m].do = w
      BY <1>1, <2>1, <2>3
    <3> QED BY <1>1, <3>1 DEF Has
  <2> QED BY <2>2, <2>3
<1>3. ASSUME NEW i \in 1..m, p[i].do = w PROVE Has(c, w)
  <2>1. i \in 1..m + n /\ c[i] = p[i]
    BY <1>1
  <2> QED BY <1>1, <1>3, <2>1 DEF Has
<1>4. ASSUME NEW i \in 1..n, t[i].do = w PROVE Has(c, w)
  <2>1. i + m \in 1..m + n /\ ~(i + m <= m) /\ i + m - m = i
    BY <1>1
  <2>2. c[i + m] = t[i]
    BY <1>1, <2>1
  <2> QED BY <1>1, <1>4, <2>1, <2>2 DEF Has
<1> QED BY <1>1, <1>2, <1>3, <1>4 DEF Has, c

\* Steps that leave the flag alone, put in front, keep the order.
LEMMA UnmarkedPrefix ==
  ASSUME NEW S, NEW p \in Seq(S), NEW t \in Seq(S), Unmarked(p)
  PROVE  /\ \A w \in Marks : Has(p \o t, w) <=> Has(t, w)
         /\ InOrder(t) => InOrder(p \o t)
         /\ Bracketed(t) => Bracketed(p \o t)
         /\ Open(p \o t) <=> Open(t)
<1> DEFINE m == Len(p)
           n == Len(t)
           c == p \o t
<1>1. /\ m \in Nat /\ n \in Nat /\ DOMAIN p = 1..m /\ DOMAIN t = 1..n
      /\ DOMAIN c = 1..m + n
      /\ \A i \in 1..m + n : c[i] = IF i <= m THEN p[i] ELSE t[i - m]
  BY ConcatProperties, LenProperties
<1>2. \A w \in Marks : Has(c, w) <=> Has(t, w)
  <2> SUFFICES ASSUME NEW w \in Marks PROVE Has(c, w) <=> Has(t, w)
    OBVIOUS
  <2>1. Has(c, w) <=> Has(p, w) \/ Has(t, w)
    BY HasConcat
  <2>2. ~Has(p, w)
    BY DEF Unmarked, Has
  <2> QED BY <2>1, <2>2
<1> HIDE DEF c, m, n
<1>3. ASSUME InOrder(t) PROVE InOrder(c)
  <2> SUFFICES ASSUME NEW i \in 1..m + n, NEW j \in 1..m + n, i < j,
                      c[i].do \in Marks, c[j].do \in Marks
               PROVE  Rank(c[i].do) < Rank(c[j].do)
    BY <1>1 DEF InOrder
  <2>1. ~(i <= m)
    <3>1. i <= m => i \in 1..m /\ c[i] = p[i]
      BY <1>1
    <3> QED BY <1>1, <3>1 DEF Unmarked
  <2>2. i - m \in 1..n /\ j - m \in 1..n /\ i - m < j - m /\ ~(j <= m)
    BY <1>1, <2>1
  <2>3. c[i] = t[i - m] /\ c[j] = t[j - m]
    BY <1>1, <2>1, <2>2
  <2> HIDE DEF Rank
  <2> QED BY <1>1, <1>3, <2>2, <2>3 DEF InOrder
<1>4. Bracketed(t) => Bracketed(c)
  BY <1>2, <1>3 DEF Bracketed, Marks
<1>5. Open(c) <=> Open(t)
  BY <1>2 DEF Open, Marks
<1> QED BY <1>2, <1>3, <1>4, <1>5 DEF c

\* What is left after a step keeps the order; it has what it had, but for
\* that step.
LEMMA TailKeepsOrder ==
  ASSUME NEW S, NEW t \in Seq(S), t # <<>>, Bracketed(t)
  PROVE  /\ Tail(t) \in Seq(S) /\ Bracketed(Tail(t))
         /\ \A w : Has(t, w) <=> Head(t).do = w \/ Has(Tail(t), w)
         /\ Head(t).do \in Marks =>
              \A w \in Marks : Has(Tail(t), w) => Rank(Head(t).do) < Rank(w)
<1> DEFINE n == Len(t)
           r == Tail(t)
<1>1. /\ n \in Nat /\ n > 0 /\ DOMAIN t = 1..n /\ Head(t) = t[1]
      /\ r \in Seq(S) /\ DOMAIN r = 1..n - 1
      /\ \A i \in 1..n - 1 : i + 1 \in 1..n /\ r[i] = t[i + 1]
  <2>1. n \in Nat /\ n > 0 /\ DOMAIN t = 1..n /\ Head(t) = t[1]
    BY LenProperties, EmptySeq, HeadTailProperties
  <2>2. r \in Seq(S) /\ Len(r) = n - 1 /\ \A i \in 1..n - 1 : r[i] = t[i + 1]
    BY HeadTailProperties
  <2>3. DOMAIN r = 1..n - 1
    BY <2>2, LenProperties
  <2> QED BY <2>1, <2>2, <2>3
<1> HIDE DEF n, r
<1>2. ASSUME NEW w PROVE Has(t, w) <=> Head(t).do = w \/ Has(r, w)
  <2>1. ASSUME NEW i \in 1..n, t[i].do = w PROVE Head(t).do = w \/ Has(r, w)
    <3>1. CASE i = 1
      BY <1>1, <2>1, <3>1
    <3>2. CASE i # 1
      <4>1. i - 1 \in 1..n - 1 /\ i - 1 + 1 = i
        BY <1>1, <3>2
      <4>2. r[i - 1] = t[i]
        BY <1>1, <4>1
      <4> QED BY <1>1, <2>1, <4>1, <4>2 DEF Has
    <3> QED BY <3>1, <3>2
  <2>2. 1 \in 1..n
    BY <1>1
  <2> QED BY <1>1, <2>1, <2>2 DEF Has
<1>3. InOrder(r)
  <2> SUFFICES ASSUME NEW i \in 1..n - 1, NEW j \in 1..n - 1, i < j,
                      r[i].do \in Marks, r[j].do \in Marks
               PROVE  Rank(r[i].do) < Rank(r[j].do)
    BY <1>1 DEF InOrder
  <2>1. i + 1 < j + 1 /\ r[i] = t[i + 1] /\ r[j] = t[j + 1]
    BY <1>1
  <2> HIDE DEF Rank
  <2> QED BY <1>1, <2>1 DEF Bracketed, InOrder
<1>4. ASSUME Head(t).do \in Marks, NEW w \in Marks, Has(r, w)
      PROVE  Rank(Head(t).do) < Rank(w)
  <2>1. PICK i \in 1..n - 1 : r[i].do = w
    BY <1>1, <1>4 DEF Has
  <2>2. t[i + 1].do = w /\ 1 < i + 1 /\ 1 \in 1..n /\ i + 1 \in 1..n
    BY <1>1, <2>1
  <2> HIDE DEF Rank
  <2> QED BY <1>1, <1>4, <2>2 DEF Bracketed, InOrder
<1>5. Has(r, "allow") \/ Has(r, "allocate") => Has(r, "restore")
  <2>1. Has(t, "allow") \/ Has(t, "allocate") => Has(t, "restore")
    BY DEF Bracketed
  <2>2. Head(t).do = "restore" => ~Has(r, "allow") /\ ~Has(r, "allocate")
    BY <1>4 DEF Rank, Marks
  <2> QED BY <1>2, <2>1, <2>2
<1> QED BY <1>1, <1>2, <1>3, <1>4, <1>5 DEF Bracketed, r

\* An allocation that the library brackets, perhaps after steps that leave
\* the flag alone, sets the flag before it restores it.
LEMMA SiteIsBracketed ==
  ASSUME NEW S, NEW p \in Seq(S), Unmarked(p),
         Do("allow") \in S, Do("allocate") \in S, Do("restore") \in S
  PROVE  /\ AllowedIn(p) \in Seq(S)
         /\ InOrder(AllowedIn(p))
         /\ Has(AllowedIn(p), "allow") /\ Has(AllowedIn(p), "restore")
         /\ ~Has(AllowedIn(p), "compute")
<1> DEFINE a == <<Do("allow")>>
           b == <<Do("allocate"), Do("restore")>>
           n == Len(p)
           q == p \o b
           c == AllowedIn(p)
<1>1. /\ a \in Seq(S) /\ Len(a) = 1 /\ a[1] = Do("allow")
      /\ b \in Seq(S) /\ Len(b) = 2 /\ b[1] = Do("allocate") /\ b[2] = Do("restore")
      /\ n \in Nat /\ DOMAIN p = 1..n /\ DOMAIN a = 1..1 /\ DOMAIN b = 1..2
  BY LenProperties
<1>2. c = a \o q
  <2>1. c = (a \o p) \o b
    BY DEF AllowedIn
  <2>2. (a \o p) \o b = a \o (p \o b)
    <3> HIDE DEF a, b
    <3> QED BY <1>1, ConcatAssociative
  <2> QED BY <2>1, <2>2
<1> HIDE DEF a, b, n, c
<1>3. InOrder(b)
  BY <1>1 DEF InOrder, Rank, Do
<1>4. q \in Seq(S) /\ InOrder(q) /\ \A w \in Marks : Has(q, w) <=> Has(b, w)
  BY <1>1, <1>3, UnmarkedPrefix, ConcatProperties
<1> HIDE DEF q
<1>5. /\ c \in Seq(S) /\ DOMAIN c = 1..Len(q) + 1 /\ Len(q) \in Nat /\ DOMAIN q = 1..Len(q)
      /\ \A i \in 1..Len(q) + 1 : c[i] = IF i = 1 THEN Do("allow") ELSE q[i - 1]
  <2>1. /\ a \o q \in Seq(S) /\ Len(a \o q) = Len(a) + Len(q)
        /\ \A i \in 1..Len(a) + Len(q) :
             (a \o q)[i] = IF i <= Len(a) THEN a[i] ELSE q[i - Len(a)]
    BY <1>1, <1>4, ConcatProperties
  <2>2. Len(q) \in Nat /\ DOMAIN q = 1..Len(q) /\ DOMAIN c = 1..Len(c)
    BY <1>2, <1>4, <2>1, LenProperties
  <2>3. ASSUME NEW i \in 1..Len(q) + 1
        PROVE  c[i] = IF i = 1 THEN Do("allow") ELSE q[i - 1]
    BY <1>1, <1>2, <2>1, <2>2
  <2> QED BY <1>1, <1>2, <2>1, <2>2, <2>3
<1>6. Has(b, "restore") /\ ~Has(b, "allow") /\ ~Has(b, "compute")
  BY <1>1 DEF Has, Do
<1>7. ASSUME NEW w \in Marks PROVE Has(c, w) <=> w = "allow" \/ Has(b, w)
  <2>1. Has(c, w) <=> Has(a, w) \/ Has(q, w)
    BY <1>1, <1>2, <1>4, HasConcat
  <2>2. Has(a, w) <=> w = "allow"
    BY <1>1 DEF Has, Do
  <2> QED BY <1>4, <2>1, <2>2
<1>8. InOrder(c)
  <2> SUFFICES ASSUME NEW i \in 1..Len(q) + 1, NEW j \in 1..Len(q) + 1, i < j,
                      c[i].do \in Marks, c[j].do \in Marks
               PROVE  Rank(c[i].do) < Rank(c[j].do)
    BY <1>5 DEF InOrder
  <2>1. j - 1 \in 1..Len(q) /\ j # 1 /\ c[j] = q[j - 1]
    BY <1>5
  <2>2. CASE i = 1
    <3>1. c[i].do = "allow" /\ Has(q, c[j].do)
      <4>1. c[i] = Do("allow")
        BY <1>5, <2>2
      <4>2. j - 1 \in DOMAIN q /\ q[j - 1].do = c[j].do
        BY <1>5, <2>1
      <4> QED BY <4>1, <4>2 DEF Has, Do
    <3>2. c[j].do # "allow"
      BY <1>4, <1>6, <3>1
    <3> QED BY <3>1, <3>2 DEF Rank, Marks
  <2>3. CASE i # 1
    <3>1. i - 1 \in 1..Len(q) /\ i - 1 < j - 1 /\ c[i] = q[i - 1]
      BY <1>5, <2>3
    <3> HIDE DEF Rank
    <3> QED BY <1>4, <1>5, <2>1, <3>1 DEF InOrder
  <2> QED BY <2>2, <2>3
<1> QED BY <1>5, <1>6, <1>7, <1>8 DEF Marks, c

(***************************************************************************)
(* The calls, and the steps that may occur in each.                        *)
(***************************************************************************)

\* How deep the calls a member makes may nest: a check evaluates finite
\* differences, which evaluate what they wrap.
Level(f, what) ==
  IF what \in Checks \/ (f \in Squares /\ what = "jacobian") THEN 3
  ELSE IF f \in Given /\ what # "jacobian" THEN 1 ELSE 2

\* Where f may want the answer of member what of g.
ReturnsTo(f, g, what, into) ==
  \/ into[1] \in {"row", "whole"}
  \/ /\ f \in Decorated /\ g = Adaptee[f] /\ what = "value"
     /\ \/ into \in {<<"buffer", "result">>, <<"buffer", "resultEps">>}
        \/ into[1] = "sample"
  \/ f \in Squares /\ into \in {<<"buffer", "gradient">>, <<"refreshed">>}

\* Calls within calls are guarded ones, and nest less deep.
Evaluated == {"value", "gradient", "jacobian"}
Calls(f, what, g, w, into) ==
  /\ g \in Functions /\ w \in Evaluated
  /\ Level(g, w) < Level(f, what) /\ Inputs[g] = Inputs[f]
  /\ ReturnsTo(f, g, w, into)

Places ==
  ({"row", "whole"} \X Nat)
    \cup {<<"buffer", "result">>, <<"buffer", "resultEps">>, <<"buffer", "gradient">>}
    \cup ({"sample"} \X SampleNames \X Nat)

Instructions ==
  [do : {"allow", "allocate", "restore", "compute", "first output",
         "refresh", "square", "compare"}]
    \cup [do : {"accumulate"}, k : Nat]
    \cup [do : {"eval"}, of : Functions, what : Evaluated, k : Nat, into : Places]
    \cup [do : {"probe"}, j : Nat, d : Int, into : Places]
    \cup [do : {"write"}, row : Nat, k : Nat, j : Nat, h : Int]
    \cup [do : {"again"}, j : Nat, k : Nat, row : Nat]

Fits(f, what, i) ==
  \/ i.do \in {"allow", "restore"} /\ what \notin Unguarded
  \/ i.do \in {"allocate", "first output"}
  \/ i.do = "compute" /\ f \in Given /\ what \notin Checks
  \/ i.do \in {"refresh", "square", "accumulate"} /\ f \in Squares
       /\ what \in {"value", "gradient"}
  \/ i.do \in {"write", "again"} /\ f \in Decorated /\ what \in {"gradient", "jacobian"}
  \/ i.do = "probe" /\ f \in Decorated /\ what \in {"gradient", "jacobian"}
       /\ (i.into = <<"buffer", "resultEps">> \/ i.into[1] = "sample")
  \/ i.do = "eval" /\ Calls(f, what, i.of, i.what, i.into)
  \/ i.do = "compare" /\ what \in Checks

StepsOf(f, what) == {i \in Instructions : Fits(f, what, i)}
Others(f, what) == {i \in StepsOf(f, what) : i.do \notin Marks}

\* The kinds tell the functions apart.
LEMMA Kinds ==
  ASSUME NEW f \in Functions
  PROVE  /\ f \in Decorated <=> Kind[f] \in {"simple", "fivePoints"}
         /\ f \in Squares <=> Kind[f] = "squares"
         /\ f \in Given <=> Kind[f] \in {"polynomial", "derivable"}
         /\ f \in Decorated \cup Squares =>
              /\ Adaptee[f] \in Functions /\ Adaptee[f] \in Given
              /\ Inputs[Adaptee[f]] = Inputs[f] /\ Outputs[Adaptee[f]] \in Nat
         /\ f \in Checked =>
              /\ f \in Given /\ Checker[f] \in Decorated /\ Inputs[Checker[f]] = Inputs[f]
         /\ Inputs[f] \in Nat /\ Outputs[f] \in Nat
BY FunctionsAssumption DEF Decorated, Squares, Given

\* The steps one call is made of, each in its set.
LEMMA StepTypes ==
  ASSUME NEW f \in Functions, NEW what
  PROVE  /\ what \notin Unguarded => /\ Do("allow") \in StepsOf(f, what)
                                     /\ Do("restore") \in StepsOf(f, what)
         /\ Do("allocate") \in StepsOf(f, what)
         /\ Do("first output") \in Others(f, what)
         /\ f \in Given /\ what \notin Checks => Do("compute") \in StepsOf(f, what)
         /\ what \in Checks => Do("compare") \in Others(f, what)
         /\ f \in Squares /\ what \in {"value", "gradient"} =>
              /\ Do("refresh") \in Others(f, what) /\ Do("square") \in Others(f, what)
              /\ \A k \in Nat : [do |-> "accumulate", k |-> k] \in Others(f, what)
         /\ f \in Decorated /\ what \in {"gradient", "jacobian"} =>
              \A j, k, row \in Nat :
                /\ Again(j, k, row) \in Others(f, what)
                /\ \A h \in Int : Write(row, k, j, h) \in Others(f, what)
                /\ \A d \in Int :
                     /\ Probe(j, d, <<"buffer", "resultEps">>) \in Others(f, what)
                     /\ \A n \in SampleNames :
                          Probe(j, d, Sample(n, k)) \in Others(f, what)
         /\ \A g \in Functions, w \in Evaluated, k \in Nat, into \in Places :
              Calls(f, what, g, w, into) => Eval(g, w, k, into) \in Others(f, what)
<1> DEFINE S == StepsOf(f, what)
           U == Others(f, what)
<1>1. ASSUME NEW w \in {"allow", "allocate", "restore", "compute", "first output",
                        "refresh", "square", "compare"}
      PROVE  Do(w) \in Instructions /\ Do(w).do = w
  BY DEF Do, Instructions
<1>2. /\ what \notin Unguarded => Do("allow") \in S /\ Do("restore") \in S
      /\ Do("allocate") \in S /\ Do("first output") \in S
      /\ f \in Given /\ what \notin Checks => Do("compute") \in S
      /\ what \in Checks => Do("compare") \in S
      /\ f \in Squares /\ what \in {"value", "gradient"} =>
           Do("refresh") \in S /\ Do("square") \in S
  BY <1>1 DEF StepsOf, Fits
<1>3. ASSUME f \in Squares, what \in {"value", "gradient"}, NEW k \in Nat
      PROVE  [do |-> "accumulate", k |-> k] \in U
  BY <1>3 DEF Others, StepsOf, Fits, Instructions, Marks
<1>4. ASSUME f \in Decorated, what \in {"gradient", "jacobian"},
             NEW j \in Nat, NEW k \in Nat, NEW row \in Nat
      PROVE  Again(j, k, row) \in U
  BY <1>4 DEF Again, Others, StepsOf, Fits, Instructions, Marks
<1>5. ASSUME f \in Decorated, what \in {"gradient", "jacobian"},
             NEW j \in Nat, NEW k \in Nat, NEW row \in Nat, NEW h \in Int
      PROVE  Write(row, k, j, h) \in U
  BY <1>5 DEF Write, Others, StepsOf, Fits, Instructions, Marks
<1>6. ASSUME f \in Decorated, what \in {"gradient", "jacobian"},
             NEW j \in Nat, NEW d \in Int, NEW into \in Places,
             into = <<"buffer", "resultEps">> \/ into[1] = "sample"
      PROVE  Probe(j, d, into) \in U
  BY <1>6 DEF Probe, Others, StepsOf, Fits, Instructions, Marks
<1>7. ASSUME NEW n \in SampleNames, NEW k \in Nat
      PROVE  Sample(n, k) \in Places /\ Sample(n, k)[1] = "sample"
  BY DEF Sample, Places
<1>8. <<"buffer", "resultEps">> \in Places
  BY DEF Places
<1>9. ASSUME NEW g \in Functions, NEW w \in Evaluated, NEW k \in Nat, NEW into \in Places,
             Calls(f, what, g, w, into)
      PROVE  Eval(g, w, k, into) \in U
  BY <1>9 DEF Eval, Others, StepsOf, Fits, Instructions, Marks
<1> QED BY <1>1, <1>2, <1>3, <1>4, <1>5, <1>6, <1>7, <1>8, <1>9 DEF Others, Marks

\* Steps that leave the flag alone leave it closed.
LEMMA OthersAreUnmarked ==
  ASSUME NEW f, NEW what, NEW t \in Seq(Others(f, what))
  PROVE  /\ t \in Seq(StepsOf(f, what)) /\ Unmarked(t)
         /\ Bracketed(t) /\ ~Open(t)
<1>1. \A i \in DOMAIN t : t[i] \in Others(f, what)
  BY LenProperties, ElementOfSeq
<1>2. t \in Seq(StepsOf(f, what))
  <2>1. PICK n \in Nat : t \in [1..n -> Others(f, what)]
    BY SeqDef
  <2>2. t \in [1..n -> StepsOf(f, what)]
    BY <2>1 DEF Others
  <2> QED BY <2>2, SeqDef
<1>3. Unmarked(t)
  BY <1>1 DEF Unmarked, Others
<1>4. Bracketed(t) /\ ~Open(t)
  <2> HIDE DEF Rank
  <2> QED BY <1>3 DEF Unmarked, Bracketed, InOrder, Has, Open, Marks
<1> QED BY <1>2, <1>3, <1>4

\* So do they around an allocation of the library.
LEMMA SiteInBody ==
  ASSUME NEW f \in Functions, NEW what, what \notin Unguarded,
         NEW p \in Seq(Others(f, what)), NEW q \in Seq(Others(f, what))
  PROVE  /\ p \o AllowedIn(q) \in Seq(StepsOf(f, what))
         /\ Bracketed(p \o AllowedIn(q)) /\ ~Open(p \o AllowedIn(q))
         /\ AllowedIn(q) \in Seq(StepsOf(f, what))
         /\ Bracketed(AllowedIn(q)) /\ ~Open(AllowedIn(q))
<1> DEFINE S == StepsOf(f, what)
           a == AllowedIn(q)
<1>1. /\ p \in Seq(S) /\ Unmarked(p) /\ q \in Seq(S) /\ Unmarked(q)
      /\ Do("allow") \in S /\ Do("allocate") \in S /\ Do("restore") \in S
  BY OthersAreUnmarked, StepTypes
<1> HIDE DEF S
<1>2. a \in Seq(S) /\ InOrder(a) /\ Has(a, "allow") /\ Has(a, "restore")
  BY <1>1, SiteIsBracketed
<1>3. Bracketed(a) /\ ~Open(a)
  BY <1>2 DEF Bracketed, Open
<1> HIDE DEF a
<1>4. p \o a \in Seq(S) /\ Bracketed(p \o a) /\ ~Open(p \o a)
  BY <1>1, <1>2, <1>3, UnmarkedPrefix, ConcatProperties
<1> QED BY <1>2, <1>3, <1>4 DEF S, a

\* The steps of a member that leave the flag alone, or allocate in the sparse
\* form only.
LEMMA SparseInBody ==
  ASSUME NEW f \in Functions, NEW what, what \notin Unguarded,
         NEW p \in Seq(Others(f, what)), NEW q \in Seq(Others(f, what))
  PROVE  /\ p \o OnlyIfSparse(f, q) \in Seq(StepsOf(f, what))
         /\ Bracketed(p \o OnlyIfSparse(f, q)) /\ ~Open(p \o OnlyIfSparse(f, q))
         /\ OnlyIfSparse(f, q) \in Seq(StepsOf(f, what))
         /\ Bracketed(OnlyIfSparse(f, q)) /\ ~Open(OnlyIfSparse(f, q))
<1>1. p \o q \in Seq(Others(f, what))
  BY ConcatProperties
<1>2. CASE f \in Sparse
  BY <1>2, SiteInBody DEF OnlyIfSparse
<1>3. CASE f \notin Sparse
  BY <1>1, <1>3, OthersAreUnmarked DEF OnlyIfSparse
<1> QED BY <1>2, <1>3

\* The steps that are written out.
LEMMA ShortSequences ==
  ASSUME NEW S, NEW a \in S, NEW b \in S, NEW c \in S, NEW d \in S, NEW e \in S
  PROVE  /\ <<a>> \in Seq(S) /\ <<a, b>> \in Seq(S)
         /\ <<a, b, c, d>> \in Seq(S) /\ <<a, b, c, d, e>> \in Seq(S)
OBVIOUS

\* LocalDerivative, written out.
LEMMA FourSteps ==
  ASSUME NEW a, NEW b, NEW c, NEW d
  PROVE  ((<<a>> \o <<>>) \o <<b, c>>) \o <<d>> = <<a, b, c, d>>
<1> DEFINE S == {a, b, c, d}
           p == <<a>>
           q == <<b, c>>
           r == <<d>>
           t == <<a, b, c, d>>
<1>1. p \o <<>> = p
  OBVIOUS
<1>2. /\ p \in Seq(S) /\ q \in Seq(S) /\ r \in Seq(S) /\ t \in Seq(S)
      /\ Len(p) = 1 /\ Len(q) = 2 /\ Len(r) = 1 /\ Len(t) = 4
  OBVIOUS
<1>3. /\ p[1] = a /\ q[1] = b /\ q[2] = c /\ r[1] = d
      /\ t[1] = a /\ t[2] = b /\ t[3] = c /\ t[4] = d
  OBVIOUS
<1> HIDE DEF S, p, q, r, t
<1> DEFINE u == p \o q
<1>4. u \in Seq(S) /\ Len(u) = 3 /\ u[1] = a /\ u[2] = b /\ u[3] = c
  <2>1. /\ u \in Seq(S) /\ Len(u) = Len(p) + Len(q)
        /\ \A i \in 1..Len(p) + Len(q) :
             u[i] = IF i <= Len(p) THEN p[i] ELSE q[i - Len(p)]
    BY <1>2, ConcatProperties
  <2> QED BY <1>2, <1>3, <2>1
<1> HIDE DEF u
<1>5. u \o r \in Seq(S) /\ Len(u \o r) = 4 /\ \A i \in 1..4 : (u \o r)[i] = t[i]
  <2>1. /\ u \o r \in Seq(S) /\ Len(u \o r) = Len(u) + Len(r)
        /\ \A i \in 1..Len(u) + Len(r) :
             (u \o r)[i] = IF i <= Len(u) THEN u[i] ELSE r[i - Len(u)]
    BY <1>2, <1>4, ConcatProperties
  <2> QED BY <1>2, <1>3, <1>4, <2>1
<1>6. u \o r = t
  BY <1>2, <1>5, SeqEqual
<1> QED BY <1>1, <1>6 DEF p, q, r, t, u

\* The derivative into a local vector, and the hessian that begins with it.
LEMMA LocalDerivativeInBody ==
  ASSUME NEW f \in Given, NEW what, what \notin Unguarded, what \notin Checks
  PROVE  /\ LocalDerivative \in Seq(StepsOf(f, what))
         /\ Bracketed(LocalDerivative) /\ ~Open(LocalDerivative)
         /\ HessianOfFirst \in Seq(StepsOf(f, what))
         /\ Bracketed(HessianOfFirst) /\ ~Open(HessianOfFirst)
<1> DEFINE S == StepsOf(f, what)
           t == <<Do("allow"), Do("allocate"), Do("restore"), Do("compute")>>
           p == <<Do("first output")>>
<1>1. /\ Do("allow") \in S /\ Do("allocate") \in S /\ Do("restore") \in S
      /\ Do("compute") \in S
      /\ Do("first output") \in Others(f, what)
  BY StepTypes DEF Given
<1>2. LocalDerivative = t
  BY FourSteps DEF LocalDerivative, AllowedIn
<1> HIDE DEF S
<1>3. t \in Seq(S)
  BY <1>1, ShortSequences
<1>4. /\ DOMAIN t = 1..4
      /\ t[1].do = "allow" /\ t[2].do = "allocate"
      /\ t[3].do = "restore" /\ t[4].do = "compute"
  BY DEF Do
<1> HIDE DEF t, p
<1>5. Bracketed(t) /\ ~Open(t)
  BY <1>4 DEF Bracketed, InOrder, Open, Has, Rank
<1>6. p \in Seq(Others(f, what)) /\ p \in Seq(S) /\ Unmarked(p)
  <2>1. p \in Seq(Others(f, what))
    BY <1>1, ShortSequences DEF p
  <2> QED BY <2>1, OthersAreUnmarked DEF S
<1>7. p \o t \in Seq(S) /\ Bracketed(p \o t) /\ ~Open(p \o t)
  BY <1>3, <1>5, <1>6, UnmarkedPrefix, ConcatProperties
<1> QED BY <1>2, <1>3, <1>5, <1>7 DEF HessianOfFirst, p, S

\* What the functions that wrap another ask of it, and the checks of the
\* function and of its finite differences.
LEMMA CallsWithin ==
  ASSUME NEW f \in Functions, NEW what
  PROVE  /\ f \in Decorated =>
              /\ what \in {"gradient", "jacobian"} =>
                   Calls(f, what, Adaptee[f], "value", <<"buffer", "result">>)
              /\ \A k \in Nat :
                   what = "value" => Calls(f, what, Adaptee[f], "value", <<"row", k>>)
         /\ f \in Squares /\ what = "gradient" =>
              Calls(f, what, Adaptee[f], "gradient", <<"buffer", "gradient">>)
         /\ f \notin Decorated /\ what = "jacobian" =>
              \A k \in Nat : Calls(f, what, f, "gradient", <<"row", k>>)
         /\ f \in Checked /\ what \in Checks =>
              \A w \in {"gradient", "jacobian"}, k \in Nat :
                /\ Calls(f, what, f, w, <<"whole", k>>)
                /\ Calls(f, what, Checker[f], w, <<"whole", k>>)
<1>1. /\ f \in Decorated => Adaptee[f] \in Given /\ Adaptee[f] \notin Squares
      /\ f \in Squares => Adaptee[f] \in Given /\ Adaptee[f] \notin Squares
      /\ f \in Checked => /\ f \in Given /\ Checker[f] \in Functions
                          /\ Checker[f] \notin Given /\ Checker[f] \notin Squares
                          /\ f \notin Squares
      /\ f \in Functions \ Decorated => f \in Given \/ f \in Squares
      /\ ~(f \in Given /\ f \in Squares) /\ ~(f \in Decorated /\ f \in Given)
      /\ ~(f \in Decorated /\ f \in Squares)
  BY FunctionsAssumption DEF Decorated, Squares, Given
<1>2. /\ <<"buffer", "result">>[1] = "buffer"
      /\ \A k : <<"row", k>>[1] = "row" /\ <<"whole", k>>[1] = "whole"
  OBVIOUS
<1>3. f \in Decorated \cup Squares => Adaptee[f] \in Functions /\ Inputs[Adaptee[f]] = Inputs[f]
  BY Kinds
<1>4. f \in Checked => Inputs[Checker[f]] = Inputs[f]
  BY Kinds
<1>5. /\ f \in Decorated /\ what \in {"value", "gradient", "jacobian"} =>
           Level(Adaptee[f], "value") < Level(f, what)
      /\ f \in Squares /\ what = "gradient" =>
           Level(Adaptee[f], "gradient") < Level(f, what)
      /\ f \notin Decorated /\ what = "jacobian" => Level(f, "gradient") < Level(f, what)
      /\ f \in Checked /\ what \in Checks =>
           \A w \in {"gradient", "jacobian"} :
             Level(f, w) < Level(f, what) /\ Level(Checker[f], w) < Level(f, what)
  <2>1. ASSUME f \in Decorated, what \in {"value", "gradient", "jacobian"}
        PROVE  Level(Adaptee[f], "value") = 1 /\ Level(f, what) = 2
    BY <1>1, <2>1 DEF Level, Checks
  <2>2. ASSUME f \in Squares, what = "gradient"
        PROVE  Level(Adaptee[f], "gradient") = 1 /\ Level(f, what) = 2
    BY <1>1, <2>2 DEF Level, Checks
  <2>3. ASSUME f \notin Decorated, what = "jacobian"
        PROVE  Level(f, "gradient") < Level(f, what)
    BY <1>1, <2>3 DEF Level, Checks
  <2>4. ASSUME f \in Checked, what \in Checks, NEW w \in {"gradient", "jacobian"}
        PROVE  Level(f, w) <= 2 /\ Level(Checker[f], w) = 2 /\ Level(f, what) = 3
    <3>1. Level(f, what) = 3
      BY <2>4 DEF Level
    <3>2. w \notin Checks
      BY DEF Checks
    <3> QED BY <1>1, <2>4, <3>1, <3>2 DEF Level
  <2>5. \A w \in {"gradient", "jacobian"} : Level(f, w) \in 1..3
    BY DEF Level
  <2> QED BY <2>1, <2>2, <2>3, <2>4, <2>5
<1> QED BY <1>1, <1>2, <1>3, <1>4, <1>5 DEF Calls, ReturnsTo, Evaluated

\* A step that evaluates a function within another.
LEMMA EvalInBody ==
  ASSUME NEW f \in Functions, NEW what, NEW g, NEW w, NEW k \in Nat,
         NEW into \in Places, Calls(f, what, g, w, into)
  PROVE  Eval(g, w, k, into) \in Others(f, what)
BY StepTypes DEF Calls

\* Places an answer may go to.
LEMMA SomePlaces ==
  /\ <<"buffer", "result">> \in Places /\ <<"buffer", "gradient">> \in Places
  /\ \A k \in Nat : <<"row", k>> \in Places /\ <<"whole", k>> \in Places
BY DEF Places

\* Finite differences: the value at the argument, and the samples.
LEMMA DifferencesInBody ==
  ASSUME NEW f \in Decorated, NEW what \in {"gradient", "jacobian"}
  PROVE  /\ BaseOf(f) \in Seq(Others(f, what))
         /\ \A k \in Nat : SimpleGradient(f, k) \in Seq(Others(f, what))
         /\ FlattenSeq([j \in 1..Inputs[f] |-> Column(f, j)]) \in Seq(Others(f, what))
         /\ \A j, k, row \in Nat, h \in Int : Deriv(j, k, row, h) \in Seq(Others(f, what))
         /\ \A k, row \in Nat : FivePointsGradient(f, k, row) \in Seq(Others(f, what))
         /\ FlattenSeq([k \in 1..Outputs[f] |-> FivePointsGradient(f, k, k)])
              \in Seq(Others(f, what))
<1> DEFINE U == Others(f, what)
           resultEps == <<"buffer", "resultEps">>
<1>1. /\ f \in Functions /\ Adaptee[f] \in Functions
      /\ Inputs[f] \in Nat /\ Outputs[f] \in Nat /\ Epsilon \in Int
  BY Kinds, StepsAssumption DEF Decorated
<1>2. \A j, k, row \in Nat :
        /\ Again(j, k, row) \in U
        /\ \A h \in Int : Write(row, k, j, h) \in U
        /\ \A d \in Int : /\ Probe(j, d, resultEps) \in U
                          /\ \A n \in SampleNames : Probe(j, d, Sample(n, k)) \in U
  BY <1>1, StepTypes
<1>3. Eval(Adaptee[f], "value", 0, <<"buffer", "result">>) \in U
  BY <1>1, CallsWithin, EvalInBody, SomePlaces
<1> HIDE DEF U, resultEps
<1>4. BaseOf(f) \in Seq(U)
  BY <1>3, ShortSequences DEF BaseOf
<1>5. ASSUME NEW k \in Nat PROVE SimpleGradient(f, k) \in Seq(U)
  <2> DEFINE ss == [j \in 1..Inputs[f] |->
                      <<Probe(j, Epsilon, resultEps), Write(1, k, j, Epsilon)>>]
  <2>1. SimpleGradient(f, k) = BaseOf(f) \o FlattenSeq(ss)
    BY DEF SimpleGradient, ForEach, resultEps
  <2>2. ASSUME NEW j \in 1..Inputs[f] PROVE ss[j] \in Seq(U)
    <3>1. j \in Nat /\ 1 \in Nat /\ k \in Nat /\ Epsilon \in Int
      BY <1>1, <1>5
    <3>2. Probe(j, Epsilon, resultEps) \in U /\ Write(1, k, j, Epsilon) \in U
      BY <1>2, <3>1
    <3>3. <<Probe(j, Epsilon, resultEps), Write(1, k, j, Epsilon)>> \in Seq(U)
      BY <3>2, ShortSequences
    <3> QED BY <3>3
  <2>3. ss \in Seq(Seq(U))
    <3>1. ss \in [1..Inputs[f] -> Seq(U)]
      BY <2>2
    <3> HIDE DEF ss
    <3> QED BY <1>1, <3>1, SeqDef
  <2> HIDE DEF ss
  <2> QED BY <1>4, <2>1, <2>3, FlattenSeqType, ConcatProperties
<1>6. ASSUME NEW j \in Nat PROVE Column(f, j) \in Seq(U)
  <2> DEFINE p == <<Probe(j, Epsilon, resultEps)>>
             w == [k \in 1..Outputs[f] |-> Write(k, k, j, Epsilon)]
  <2>1. Column(f, j) = p \o w
    BY DEF Column, resultEps
  <2>2. p \in Seq(U)
    BY <1>1, <1>2, <1>6, ShortSequences
  <2>3. w \in [1..Outputs[f] -> U]
    BY <1>1, <1>2, <1>6
  <2> HIDE DEF p, w
  <2>4. w \in Seq(U)
    BY <1>1, <2>3, SeqDef
  <2> QED BY <2>1, <2>2, <2>4, ConcatProperties
<1>7. FlattenSeq([j \in 1..Inputs[f] |-> Column(f, j)]) \in Seq(U)
  <2> DEFINE ss == [j \in 1..Inputs[f] |-> Column(f, j)]
  <2>1. ss \in [1..Inputs[f] -> Seq(U)]
    BY <1>1, <1>6
  <2> HIDE DEF ss
  <2>2. ss \in Seq(Seq(U))
    BY <1>1, <2>1, SeqDef
  <2>3. FlattenSeq(ss) \in Seq(U)
    BY <2>2, FlattenSeqType
  <2> QED BY <2>3 DEF ss
<1>8. ASSUME NEW j \in Nat, NEW k \in Nat, NEW row \in Nat, NEW h \in Int
      PROVE  Deriv(j, k, row, h) \in Seq(U)
  <2>1. -h \in Int /\ h \div 2 \in Int /\ -(h \div 2) \in Int
    BY <1>8
  <2>2. /\ "fm1" \in SampleNames /\ "fp1" \in SampleNames
        /\ "fmh" \in SampleNames /\ "fph" \in SampleNames
    BY DEF SampleNames
  <2>3. /\ Probe(j, -h, Sample("fm1", k)) \in U /\ Probe(j, h, Sample("fp1", k)) \in U
        /\ Probe(j, -(h \div 2), Sample("fmh", k)) \in U
        /\ Probe(j, h \div 2, Sample("fph", k)) \in U
        /\ Write(row, k, j, h) \in U
    BY <1>2, <1>8, <2>1, <2>2
  <2> QED BY <2>3, ShortSequences DEF Deriv
<1>9. ASSUME NEW k \in Nat, NEW row \in Nat PROVE FivePointsGradient(f, k, row) \in Seq(U)
  <2> DEFINE h == Epsilon \div 2
             ss == [j \in 1..Inputs[f] |-> Deriv(j, k, row, h) \o <<Again(j, k, row)>>]
  <2>1. FivePointsGradient(f, k, row) = FlattenSeq(ss)
    BY DEF FivePointsGradient, ForEach
  <2>2. h \in Int
    BY <1>1
  <2> HIDE DEF h
  <2>3. ASSUME NEW j \in 1..Inputs[f] PROVE ss[j] \in Seq(U)
    <3>1. j \in Nat /\ <<Again(j, k, row)>> \in Seq(U)
      BY <1>1, <1>2, <1>9, ShortSequences
    <3>2. Deriv(j, k, row, h) \in Seq(U)
      BY <1>8, <1>9, <2>2, <3>1
    <3>3. Deriv(j, k, row, h) \o <<Again(j, k, row)>> \in Seq(U)
      BY <3>1, <3>2, ConcatProperties
    <3> QED BY <3>3
  <2>4. ss \in [1..Inputs[f] -> Seq(U)]
    BY <2>3
  <2> HIDE DEF ss
  <2>5. ss \in Seq(Seq(U))
    BY <1>1, <2>4, SeqDef
  <2> QED BY <2>1, <2>5, FlattenSeqType
<1>10. FlattenSeq([k \in 1..Outputs[f] |-> FivePointsGradient(f, k, k)]) \in Seq(U)
  <2> DEFINE ss == [k \in 1..Outputs[f] |-> FivePointsGradient(f, k, k)]
  <2>1. ss \in [1..Outputs[f] -> Seq(U)]
    BY <1>1, <1>9
  <2> HIDE DEF ss
  <2>2. ss \in Seq(Seq(U))
    BY <1>1, <2>1, SeqDef
  <2>3. FlattenSeq(ss) \in Seq(U)
    BY <2>2, FlattenSeqType
  <2> QED BY <2>3 DEF ss
<1> QED BY <1>4, <1>5, <1>7, <1>8, <1>9, <1>10 DEF U

\* The value and the gradient of a sum of squares.
LEMMA SquaresInBody ==
  ASSUME NEW f \in Squares
  PROVE  /\ SquaresValue \in Seq(Others(f, "value"))
         /\ SquaresGradient(f) \in Seq(Others(f, "gradient"))
<1> DEFINE U == Others(f, "gradient")
           n == Outputs[Adaptee[f]]
           ss == [k \in 1..n |->
                    <<Eval(Adaptee[f], "gradient", k, <<"buffer", "gradient">>),
                      [do |-> "accumulate", k |-> k]>>]
<1>1. f \in Functions /\ Adaptee[f] \in Functions /\ n \in Nat
  BY Kinds DEF Squares
<1>2. /\ Do("refresh") \in Others(f, "value") /\ Do("square") \in Others(f, "value")
      /\ Do("refresh") \in U
      /\ \A k \in Nat : [do |-> "accumulate", k |-> k] \in U
  BY <1>1, StepTypes
<1>3. ASSUME NEW k \in Nat
      PROVE  Eval(Adaptee[f], "gradient", k, <<"buffer", "gradient">>) \in U
  BY <1>1, CallsWithin, EvalInBody, SomePlaces
<1>4. SquaresValue \in Seq(Others(f, "value"))
  BY <1>2, ShortSequences DEF SquaresValue
<1>5. SquaresGradient(f) = <<Do("refresh")>> \o FlattenSeq(ss)
  BY DEF SquaresGradient, ForEach
<1> HIDE DEF U, n
<1>6. ASSUME NEW k \in 1..n PROVE ss[k] \in Seq(U)
  <2>1. /\ Eval(Adaptee[f], "gradient", k, <<"buffer", "gradient">>) \in U
        /\ [do |-> "accumulate", k |-> k] \in U
    BY <1>1, <1>2, <1>3
  <2>2. <<Eval(Adaptee[f], "gradient", k, <<"buffer", "gradient">>),
          [do |-> "accumulate", k |-> k]>> \in Seq(U)
    BY <2>1, ShortSequences
  <2> QED BY <2>2
<1>7. ss \in [1..n -> Seq(U)]
  BY <1>6
<1> HIDE DEF ss
<1>8. FlattenSeq(ss) \in Seq(U)
  <2>1. ss \in Seq(Seq(U))
    BY <1>1, <1>7, SeqDef
  <2> QED BY <2>1, FlattenSeqType
<1>9. <<Do("refresh")>> \in Seq(U)
  BY <1>2, ShortSequences
<1> QED BY <1>4, <1>5, <1>8, <1>9, ConcatProperties DEF U

\* The jacobian of a function, gradient by gradient.
LEMMA GradientsInBody ==
  ASSUME NEW f \in Functions \ Decorated
  PROVE  /\ GradientsAsJacobian(f) \in Seq(StepsOf(f, "jacobian"))
         /\ Bracketed(GradientsAsJacobian(f)) /\ ~Open(GradientsAsJacobian(f))
<1> DEFINE U == Others(f, "jacobian")
           ss == [k \in 1..Outputs[f] |-> <<Eval(f, "gradient", k, <<"row", k>>)>>]
<1>1. Outputs[f] \in Nat
  BY Kinds
<1>2. ASSUME NEW k \in Nat PROVE Eval(f, "gradient", k, <<"row", k>>) \in U
  BY CallsWithin, EvalInBody, SomePlaces
<1> HIDE DEF U
<1>3. ASSUME NEW k \in 1..Outputs[f] PROVE ss[k] \in Seq(U)
  <2>1. Eval(f, "gradient", k, <<"row", k>>) \in U
    BY <1>1, <1>2
  <2>2. <<Eval(f, "gradient", k, <<"row", k>>)>> \in Seq(U)
    BY <2>1, ShortSequences
  <2> QED BY <2>2
<1>4. GradientsAsJacobian(f) = FlattenSeq(ss) \o OnlyIfSparse(f, <<>>)
  BY DEF GradientsAsJacobian, ForEach
<1>5. ss \in [1..Outputs[f] -> Seq(U)]
  BY <1>3
<1> HIDE DEF ss
<1>6. FlattenSeq(ss) \in Seq(U)
  <2>1. ss \in Seq(Seq(U))
    BY <1>1, <1>5, SeqDef
  <2> QED BY <2>1, FlattenSeqType
<1>7. <<>> \in Seq(U) /\ "jacobian" \notin Unguarded
  BY DEF Unguarded
<1> QED BY <1>4, <1>6, <1>7, SparseInBody DEF U

\* A check: it allocates its matrices, evaluates both and compares.
LEMMA ComparisonInBody ==
  ASSUME NEW f \in Checked, NEW what \in Checks, NEW w \in {"gradient", "jacobian"},
         NEW k \in Nat
  PROVE  Comparison(f, w, k) \in Seq(StepsOf(f, what))
<1> DEFINE S == StepsOf(f, what)
<1>1. f \in Functions /\ Checker[f] \in Functions /\ w \in Evaluated
  BY FunctionsAssumption DEF Given, Evaluated
<1>2. Do("allocate") \in S /\ Do("compare") \in S
  BY <1>1, StepTypes DEF Others
<1>3. /\ Eval(f, w, k, <<"whole", 1>>) \in S
      /\ Eval(Checker[f], w, k, <<"whole", 2>>) \in S
  <2>1. /\ Calls(f, what, f, w, <<"whole", 1>>)
        /\ Calls(f, what, Checker[f], w, <<"whole", 2>>)
    BY <1>1, CallsWithin
  <2> QED BY <1>1, <2>1, EvalInBody, SomePlaces DEF Others
<1> HIDE DEF S
<1>4. <<Do("allocate"), Eval(f, w, k, <<"whole", 1>>),
        Eval(Checker[f], w, k, <<"whole", 2>>), Do("compare")>> \in Seq(S)
  BY <1>2, <1>3, ShortSequences
<1> QED BY <1>4 DEF Comparison, S

\* What a call has still to do when it begins: its steps, and in a guarded
\* call the flag is cleared.
LEMMA BodyFits ==
  ASSUME NEW f \in Functions, NEW what \in Members(f), NEW k \in Nat
  PROVE  /\ Body(f, what, k) \in Seq(StepsOf(f, what))
         /\ what \notin Unguarded => Bracketed(Body(f, what, k)) /\ ~Open(Body(f, what, k))
<1> DEFINE B == Body(f, what, k)
           U == Others(f, what)
<1>1. /\ f \in Given => f \notin Decorated /\ f \notin Squares /\ Kind[f] \notin {"simple", "fivePoints"}
      /\ f \in Decorated => f \notin Squares /\ f \notin Given /\ Kind[f] \in {"simple", "fivePoints"}
      /\ f \in Squares => Kind[f] \notin {"simple", "fivePoints", "derivable"}
      /\ f \in Given \/ f \in Decorated \/ f \in Squares
      /\ f \in Checked \/ Kind[f] = "derivable" => f \in Given
  BY FunctionsAssumption DEF Decorated, Squares, Given
<1>2. /\ what \in {"value", "gradient", "jacobian", "hessian", "valueAt", "derivative",
                   "check gradient", "check jacobian"}
      /\ what \in Checks => f \in Checked
      /\ what \in {"hessian", "valueAt", "derivative"} => Kind[f] = "derivable"
  BY DEF Members, Checks
<1>3. ASSUME B \in Seq(U)
      PROVE  B \in Seq(StepsOf(f, what)) /\ Bracketed(B) /\ ~Open(B)
  BY <1>3, OthersAreUnmarked
<1>4. CASE what \in Checks
  <2>1. B = Comparison(f, "gradient", k) \/ B = Comparison(f, "jacobian", k)
    BY <1>4 DEF Body, Checks
  <2> QED BY <1>2, <1>4, <2>1, ComparisonInBody DEF Unguarded, Checks
<1>5. CASE f \in Decorated /\ what = "value"
  <2>1. B = <<Eval(Adaptee[f], "value", 0, <<"row", 1>>)>>
    BY <1>1, <1>5 DEF Body
  <2>2. Eval(Adaptee[f], "value", 0, <<"row", 1>>) \in U
    BY <1>1, <1>5, CallsWithin, EvalInBody, SomePlaces
  <2>3. <<Eval(Adaptee[f], "value", 0, <<"row", 1>>)>> \in Seq(U)
    <3> HIDE DEF U
    <3> QED BY <2>2, ShortSequences
  <2> QED BY <1>3, <2>1, <2>3
<1>6. CASE f \in Decorated /\ what = "gradient"
  <2>1. B = SimpleGradient(f, k) \/ B = FivePointsGradient(f, k, 1)
    BY <1>1, <1>6 DEF Body
  <2>2. SimpleGradient(f, k) \in Seq(U) /\ FivePointsGradient(f, k, 1) \in Seq(U)
    BY <1>6, DifferencesInBody
  <2> QED BY <1>3, <2>1, <2>2
<1>7. CASE f \in Decorated /\ what = "jacobian"
  <2> DEFINE columns == FlattenSeq([j \in 1..Inputs[f] |-> Column(f, j)])
             rows == FlattenSeq([i \in 1..Outputs[f] |-> FivePointsGradient(f, i, i)])
  <2>1. \/ B = BaseOf(f) \o OnlyIfSparse(f, columns)
        \/ B = OnlyIfSparse(f, rows)
    BY <1>1, <1>7 DEF Body, SimpleJacobian, ColumnByColumn, FivePointsJacobian, ForEach
  <2>2. BaseOf(f) \in Seq(U) /\ columns \in Seq(U) /\ rows \in Seq(U)
    BY <1>7, DifferencesInBody
  <2>3. what \notin Unguarded
    BY <1>7 DEF Unguarded
  <2> HIDE DEF columns, rows
  <2> QED BY <2>1, <2>2, <2>3, SparseInBody
<1>8. CASE f \in Squares /\ what \in {"value", "gradient"}
  <2>1. /\ what = "value" => B = SquaresValue
        /\ what = "gradient" => B = SquaresGradient(f)
    BY <1>1, <1>8 DEF Body
  <2> QED BY <1>3, <1>8, <2>1, SquaresInBody
<1>9. CASE f \notin Decorated /\ what = "jacobian"
  <2>1. B = GradientsAsJacobian(f)
    BY <1>1, <1>9 DEF Body
  <2> QED BY <1>9, <2>1, GradientsInBody
<1>10. CASE f \in Given /\ what \in {"value", "gradient", "hessian"}
  <2>1. B = <<Do("compute")>> \/ B = LocalDerivative \/ B = HessianOfFirst
    BY <1>1, <1>10 DEF Body
  <2>2. what \notin Unguarded /\ what \notin Checks
    BY <1>10 DEF Unguarded, Checks
  <2>3. <<Do("compute")>> \in Seq(StepsOf(f, what))
    <3>1. Do("compute") \in StepsOf(f, what)
      BY <1>10, <2>2, StepTypes
    <3> QED BY <3>1, ShortSequences
  <2>4. Bracketed(<<Do("compute")>>) /\ ~Open(<<Do("compute")>>)
    <3>1. DOMAIN <<Do("compute")>> = 1..1 /\ <<Do("compute")>>[1].do = "compute"
      BY DEF Do
    <3> HIDE DEF Rank
    <3> QED BY <3>1 DEF Bracketed, InOrder, Open, Has
  <2> QED BY <1>10, <2>1, <2>2, <2>3, <2>4, LocalDerivativeInBody
<1>11. CASE f \in Given /\ what \in {"valueAt", "derivative"}
  <2>1. B = <<Do("compute")>>
    BY <1>1, <1>11 DEF Body
  <2>2. what \in Unguarded /\ what \notin Checks
    BY <1>11 DEF Unguarded, Checks
  <2>3. Do("compute") \in StepsOf(f, what)
    BY <1>11, <2>2, StepTypes
  <2>4. <<Do("compute")>> \in Seq(StepsOf(f, what))
    BY <2>3, ShortSequences
  <2> QED BY <2>1, <2>2, <2>4
<1> QED
  <2>1. what \in Checks \/ what \in {"value", "gradient", "jacobian", "hessian", "valueAt", "derivative"}
    BY <1>2 DEF Checks
  <2>2. what \in {"hessian", "valueAt", "derivative"} => f \in Given
    BY <1>1, <1>2
  <2> QED BY <1>1, <1>4, <1>5, <1>6, <1>7, <1>8, <1>9, <1>10, <1>11, <2>1, <2>2

(***************************************************************************)
(* The running calls.                                                      *)
(***************************************************************************)

Vec(v, n) == v = [i \in 1..n |-> v[i]]
Fields == {"f", "what", "k", "x", "into", "saved", "site", "local", "out", "todo"}

Well(fr) ==
  /\ DOMAIN fr = Fields
  /\ fr.f \in Functions /\ fr.what \in Members(fr.f)
  /\ fr.saved \in BOOLEAN /\ fr.site \in BOOLEAN
  /\ Vec(fr.x, Inputs[fr.f])
  /\ fr.todo \in Seq(StepsOf(fr.f, fr.what))
  /\ fr.f \in Given /\ fr.what = "value" => Vec(fr.out[1], Outputs[fr.f])
  /\ fr.what \notin Unguarded => Bracketed(fr.todo)

\* What an open bracket restores: the flag is cleared around it.
Cleared(fr) == fr.what \notin Unguarded /\ Open(fr.todo) => ~fr.site

\* What the flag is while a call is the innermost.
Flag(fr) == IF fr.what \in Unguarded THEN fr.saved ELSE Open(fr.todo)

Within(caller, fr) ==
  /\ Calls(caller.f, caller.what, fr.f, fr.what, fr.into)
  /\ fr.saved <=> Flag(caller)

SameCall(fr, gr) ==
  fr.f = gr.f /\ fr.what = gr.what /\ fr.saved = gr.saved /\ fr.into = gr.into

\* Only a member that evaluates functions is called within another.
LEMMA CalledAreGuarded ==
  ASSUME NEW caller, NEW fr, Within(caller, fr)
  PROVE  fr.what \notin Unguarded /\ fr.what \notin Checks
BY DEF Within, Calls, Evaluated, Unguarded, Checks

\* How the first step still to be done bears on the flag.
LEMMA HeadOfFrame ==
  ASSUME NEW fr, Well(fr), fr.todo # <<>>, fr.what \notin Unguarded
  PROVE  LET w == Head(fr.todo).do
             open == Open(fr.todo)
             next == Open(Tail(fr.todo))
         IN /\ w \notin Marks => (next <=> open)
            /\ w = "allocate" => open /\ next
            /\ w = "allow" => ~open /\ next
            /\ w = "restore" => open /\ ~next
            /\ w = "compute" => ~open /\ ~next
<1> DEFINE t == fr.todo
           r == Tail(t)
           w == Head(t).do
<1>1. /\ t \in Seq(StepsOf(fr.f, fr.what)) /\ t # <<>> /\ Bracketed(t)
  BY DEF Well
<1> HIDE DEF t
<1>2. /\ \A v : Has(t, v) <=> w = v \/ Has(r, v)
      /\ w \in Marks => \A v \in Marks : Has(r, v) => Rank(w) < Rank(v)
  BY <1>1, TailKeepsOrder
<1>3. Has(t, "allow") \/ Has(t, "allocate") => Has(t, "restore")
  BY <1>1 DEF Bracketed
<1> HIDE DEF r, w
<1>4. /\ w \notin Marks => (Open(r) <=> Open(t))
      /\ w = "allocate" => Open(t) /\ Open(r)
      /\ w = "allow" => ~Open(t) /\ Open(r)
      /\ w = "restore" => Open(t) /\ ~Open(r)
      /\ w = "compute" => ~Open(t) /\ ~Open(r)
  <2>1. CASE w \notin Marks
    BY <1>2, <2>1 DEF Open, Marks
  <2>2. CASE w = "allocate"
    <3>1. ~Has(r, "allow")
      BY <1>2, <2>2 DEF Rank, Marks
    <3> QED BY <1>2, <1>3, <2>2, <3>1 DEF Open, Marks
  <2>3. CASE w = "allow"
    <3>1. ~Has(r, "allow")
      BY <1>2, <2>3 DEF Rank, Marks
    <3> QED BY <1>2, <1>3, <2>3, <3>1 DEF Open, Marks
  <2>4. CASE w = "restore"
    <3>1. ~Has(r, "restore") /\ ~Has(r, "allow")
      BY <1>2, <2>4 DEF Rank, Marks
    <3> QED BY <1>2, <2>4, <3>1 DEF Open, Marks
  <2>5. CASE w = "compute"
    <3>1. ~Has(r, "restore")
      BY <1>2, <2>5 DEF Rank, Marks
    <3> QED BY <1>2, <2>5, <3>1 DEF Open, Marks
  <2> QED BY <2>1, <2>2, <2>3, <2>4, <2>5 DEF Marks
<1> QED BY <1>4 DEF r, w, t

\* A call with its first step done is the same call.
LEMMA DoneIsWell ==
  ASSUME NEW fr, Well(fr), fr.todo # <<>>
  PROVE  LET d == [fr EXCEPT !.todo = Tail(@)]
         IN /\ Well(d) /\ SameCall(d, fr)
            /\ d.site = fr.site /\ d.x = fr.x /\ d.k = fr.k /\ d.todo = Tail(fr.todo)
            /\ Head(fr.todo) \in Instructions
            /\ Fits(fr.f, fr.what, Head(fr.todo))
<1> DEFINE d == [fr EXCEPT !.todo = Tail(@)]
           S == StepsOf(fr.f, fr.what)
<1>1. /\ DOMAIN d = Fields /\ d.todo = Tail(fr.todo)
      /\ d.f = fr.f /\ d.what = fr.what /\ d.k = fr.k /\ d.x = fr.x /\ d.into = fr.into
      /\ d.saved = fr.saved /\ d.site = fr.site /\ d.out = fr.out
  BY DEF Well, Fields
<1> HIDE DEF d
<1>2. Head(fr.todo) \in S /\ Tail(fr.todo) \in Seq(S)
  BY HeadTailProperties DEF Well
<1>3. fr.what \notin Unguarded => Bracketed(Tail(fr.todo))
  BY TailKeepsOrder DEF Well
<1>4. Well(d)
  BY <1>1, <1>2, <1>3 DEF Well
<1>5. Head(fr.todo) \in Instructions /\ Fits(fr.f, fr.what, Head(fr.todo))
  BY <1>2 DEF StepsOf
<1> QED BY <1>1, <1>4, <1>5 DEF SameCall, d

\* A call that begins is well, and has the flag cleared if it is guarded.
LEMMA FrameIsWell ==
  ASSUME NEW f \in Functions, NEW what \in Members(f), NEW k \in Nat, NEW x,
         Vec(x, Inputs[f]), NEW into, allowed \in BOOLEAN
  PROVE  LET fr == Frame(f, what, k, x, into)
         IN /\ Well(fr) /\ Cleared(fr)
            /\ fr.f = f /\ fr.what = what /\ fr.into = into /\ fr.saved = allowed
            /\ Flag(fr) <=> what \in Unguarded /\ allowed
<1> DEFINE fr == Frame(f, what, k, x, into)
<1>1. /\ DOMAIN fr = Fields
      /\ fr.f = f /\ fr.what = what /\ fr.x = x /\ fr.into = into
      /\ fr.saved = allowed /\ fr.site = allowed
      /\ fr.out = ZeroAnswer(f, what) /\ fr.todo = Body(f, what, k)
  BY DEF Frame, Fields
<1> HIDE DEF fr
<1>2. /\ fr.todo \in Seq(StepsOf(f, what))
      /\ what \notin Unguarded => Bracketed(fr.todo) /\ ~Open(fr.todo)
  BY <1>1, BodyFits
<1>3. what = "value" => Vec(fr.out[1], Outputs[f])
  <2> SUFFICES ASSUME what = "value" PROVE Vec(fr.out[1], Outputs[f])
    OBVIOUS
  <2>1. fr.out = [i \in 1..1 |-> [j \in 1..Outputs[f] |-> 0]]
    <3>1. ZeroAnswer(f, "value") = ZeroMatrix(1, Outputs[f])
      BY DEF ZeroAnswer, Checks
    <3> QED BY <1>1, <3>1 DEF ZeroMatrix
  <2>2. fr.out[1] = [j \in 1..Outputs[f] |-> 0]
    BY <2>1
  <2> QED BY <2>2 DEF Vec
<1>4. Well(fr) /\ Cleared(fr)
  BY <1>1, <1>2, <1>3 DEF Well, Cleared
<1>5. Flag(fr) <=> what \in Unguarded /\ allowed
  BY <1>1, <1>2 DEF Flag
<1> QED BY <1>1, <1>4, <1>5 DEF fr

\* The three ways the stack changes, besides being emptied.
LEMMA ReplaceTop ==
  ASSUME NEW s, s \in Seq(ToSet(s)), s # <<>>, NEW e
  PROVE  LET t == Append(Front(s), e)
         IN /\ t \in Seq(ToSet(t)) /\ Len(t) = Len(s) /\ t # <<>>
            /\ t[Len(s)] = e /\ \A i \in 1..Len(s) - 1 : t[i] = s[i]
<1> DEFINE n == Len(s)
           p == Front(s)
           t == Append(p, e)
           S == ToSet(s) \cup {e}
<1>1. n \in Nat /\ n > 0 /\ DOMAIN s = 1..n
  BY LenProperties, EmptySeq
<1>2. p \in Seq(ToSet(s)) /\ Len(p) = n - 1 /\ \A i \in 1..n - 1 : p[i] = s[i]
  BY <1>1, SubSeqProperties DEF Front
<1>3. p \in Seq(S)
  <2>1. p \in [1..n - 1 -> ToSet(s)]
    BY <1>2, LenProperties
  <2>2. p \in [1..n - 1 -> S]
    BY <2>1
  <2> QED BY <1>1, <2>2, SeqDef
<1> HIDE DEF p
<1>4. e \in S
  OBVIOUS
<1> HIDE DEF S
<1>5. /\ t \in Seq(S) /\ Len(t) = n /\ t[n] = e
      /\ \A i \in 1..n - 1 : t[i] = s[i]
  <2>1. /\ t \in Seq(S) /\ Len(t) = Len(p) + 1 /\ t[Len(p) + 1] = e
        /\ \A i \in 1..Len(p) : t[i] = p[i]
    BY <1>3, <1>4, AppendProperties
  <2> QED BY <1>1, <1>2, <2>1
<1> HIDE DEF t
<1>6. t \in Seq(ToSet(t)) /\ t # <<>>
  <2>1. t \in [1..n -> S] /\ DOMAIN t = 1..n
    BY <1>5, LenProperties
  <2>2. t \in [1..n -> ToSet(t)]
    BY <2>1 DEF ToSet
  <2> QED BY <1>1, <1>5, <2>2, SeqDef, EmptySeq
<1> QED BY <1>5, <1>6 DEF t, p

\* The second: the innermost call goes on and another is put above it.
LEMMA PushOnStack ==
  ASSUME NEW s, s \in Seq(ToSet(s)), s # <<>>, NEW c, NEW e
  PROVE  LET t == Append(Append(Front(s), c), e)
         IN /\ t \in Seq(ToSet(t)) /\ Len(t) = Len(s) + 1
            /\ t[Len(s) + 1] = e /\ t[Len(s)] = c
            /\ \A i \in 1..Len(s) - 1 : t[i] = s[i]
<1> DEFINE n == Len(s)
           p == Append(Front(s), c)
           t == Append(p, e)
           S == ToSet(p) \cup {e}
<1>1. n \in Nat /\ n > 0
  BY LenProperties, EmptySeq
<1>2. /\ p \in Seq(ToSet(p)) /\ Len(p) = n /\ p[n] = c
      /\ \A i \in 1..n - 1 : p[i] = s[i]
  BY ReplaceTop
<1> HIDE DEF p
<1>3. p \in Seq(S)
  <2>1. p \in [1..n -> ToSet(p)]
    BY <1>2, LenProperties
  <2>2. p \in [1..n -> S]
    BY <2>1
  <2> QED BY <1>1, <2>2, SeqDef
<1>4. e \in S
  OBVIOUS
<1> HIDE DEF S
<1>5. t \in Seq(S) /\ Len(t) = n + 1 /\ t[n + 1] = e /\ \A i \in 1..n : t[i] = p[i]
  BY <1>2, <1>3, <1>4, AppendProperties
<1> HIDE DEF t
<1>6. t \in Seq(ToSet(t))
  <2>1. t \in [1..n + 1 -> S] /\ DOMAIN t = 1..n + 1
    BY <1>5, LenProperties
  <2>2. t \in [1..n + 1 -> ToSet(t)]
    BY <2>1 DEF ToSet
  <2> QED BY <1>1, <2>2, SeqDef
<1>7. t[n] = c /\ \A i \in 1..n - 1 : t[i] = s[i]
  BY <1>1, <1>2, <1>5
<1> QED BY <1>5, <1>6, <1>7 DEF t, p

\* The third: the innermost call is gone and the one below goes on.
LEMMA PopStack ==
  ASSUME NEW s, s \in Seq(ToSet(s)), Len(s) > 1, NEW c
  PROVE  LET t == Append(SubSeq(s, 1, Len(s) - 2), c)
         IN /\ t \in Seq(ToSet(t)) /\ Len(t) = Len(s) - 1 /\ t # <<>>
            /\ t[Len(s) - 1] = c /\ \A i \in 1..Len(s) - 2 : t[i] = s[i]
<1> DEFINE r == SubSeq(s, 1, Len(s) - 1)
           n == Len(s)
<1>1. n \in Nat
  BY LenProperties
<1>2. /\ r \in Seq(ToSet(s)) /\ Len(r) = n - 1 /\ \A i \in 1..n - 1 : r[i] = s[i]
      /\ DOMAIN r = 1..n - 1
  BY <1>1, SubSeqProperties, LenProperties
<1>3. r \in Seq(ToSet(r)) /\ r # <<>>
  <2>1. r \in [1..n - 1 -> ToSet(s)]
    BY <1>2, LenProperties
  <2>2. r \in [1..n - 1 -> ToSet(r)]
    BY <1>2, <2>1 DEF ToSet
  <2> HIDE DEF r
  <2>3. n - 1 \in Nat
    BY <1>1
  <2> QED BY <1>2, <2>2, <2>3, SeqDef, EmptySeq
<1>4. Front(r) = SubSeq(s, 1, n - 2)
  <2> DEFINE a == Front(r)
             b == SubSeq(s, 1, n - 2)
  <2>1. /\ a \in Seq(ToSet(s)) /\ Len(a) = n - 2 /\ \A i \in 1..n - 2 : a[i] = r[i]
    <3> HIDE DEF r
    <3>1. n - 2 \in Nat /\ Len(r) - 1 = n - 2
      BY <1>1, <1>2
    <3> QED BY <1>1, <1>2, <3>1, SubSeqProperties DEF Front
  <2>2. /\ b \in Seq(ToSet(s)) /\ Len(b) = n - 2 /\ \A i \in 1..n - 2 : b[i] = s[i]
    <3>1. n - 2 \in Nat /\ n - 2 \in Int /\ 1 \in Int /\ \A i \in 1..n - 2 : s[i] \in ToSet(s)
      BY <1>1, LenProperties, ElementOfSeq
    <3>2. /\ b \in Seq(ToSet(s)) /\ Len(b) = IF 1 <= n - 2 THEN n - 2 - 1 + 1 ELSE 0
          /\ \A i \in 1..n - 2 - 1 + 1 : b[i] = s[1 + i - 1]
      BY <3>1, SubSeqProperties
    <3>3. Len(b) = n - 2 /\ n - 2 - 1 + 1 = n - 2
      <4>1. n - 2 - 1 + 1 = n - 2 /\ (1 <= n - 2 \/ n - 2 = 0)
        <5>1. n \in Nat /\ n > 1
          BY <1>1
        <5> HIDE DEF n
        <5> QED BY <5>1
      <4>2. Len(b) = IF 1 <= n - 2 THEN n - 2 - 1 + 1 ELSE 0
        BY <3>2
      <4> HIDE DEF b, n
      <4> QED BY <4>1, <4>2
    <3>4. ASSUME NEW i \in 1..n - 2 PROVE b[i] = s[i]
      <4> HIDE DEF b
      <4>1. 1 + i - 1 = i
        BY <3>1
      <4> QED BY <3>2, <3>3, <4>1
    <3> QED BY <3>2, <3>3, <3>4
  <2>3. \A i \in 1..n - 2 : r[i] = s[i]
    BY <1>1, <1>2
  <2> HIDE DEF a, b
  <2>4. a = b
    BY <2>1, <2>2, <2>3, SeqEqual
  <2> QED BY <2>4 DEF a, b
<1> HIDE DEF r
<1> DEFINE t == Append(Front(r), c)
<1>5. /\ t \in Seq(ToSet(t)) /\ Len(t) = Len(r) /\ t # <<>>
      /\ t[Len(r)] = c /\ \A i \in 1..Len(r) - 1 : t[i] = r[i]
  BY <1>3, ReplaceTop
<1>6. t = Append(SubSeq(s, 1, n - 2), c)
  BY <1>4
<1> HIDE DEF t
<1>7. \A i \in 1..n - 2 : t[i] = s[i]
  BY <1>1, <1>2, <1>5
<1> QED BY <1>1, <1>2, <1>5, <1>6, <1>7

(***************************************************************************)
(* The inductive invariant.                                                *)
(***************************************************************************)

Outcomes ==
  Stopped \cup {"none", "running", "returned", "exception", "accepted", "rejected"}

Types ==
  /\ allowed \in BOOLEAN /\ wanted \in BOOLEAN /\ lost \in BOOLEAN
  /\ calls \in 0..MaxCalls /\ outcome \in Outcomes
  /\ (stack # <<>>) <=> (outcome = "running")

\* Each running call is as it may be, and was entered within the one below
\* it: with the flag as that one had it, which its return restores.
Nesting ==
  /\ stack \in Seq(ToSet(stack))
  /\ \A i \in 1..Len(stack) : Well(stack[i]) /\ Cleared(stack[i])
  /\ \A i \in 1..Len(stack) - 1 : Within(stack[i], stack[i + 1])

\* The flag is what the innermost call makes it, and the outermost call found
\* it as the user left it.
FlagFollows ==
  /\ stack # <<>> => (stack[1].saved <=> wanted /\ ~lost) /\ (allowed <=> Flag(Top))
  /\ stack = <<>> /\ outcome \notin Stopped => (allowed <=> wanted /\ ~lost)

SizedBuffers(f, b) ==
  /\ DOMAIN b = {"xEps", "result", "resultEps", "tmpResult"}
  /\ Vec(b.xEps, Inputs[f]) /\ Vec(b.result, Outputs[f])
  /\ Vec(b.resultEps, Outputs[f]) /\ Vec(b.tmpResult, Outputs[f])
Sized ==
  /\ DOMAIN buffers = Decorated \cup Squares
  /\ \A f \in Decorated : SizedBuffers(f, buffers[f])

IInv == Types /\ Nesting /\ FlagFollows /\ Sized /\ AllocationsAreAllowed

\* The innermost call is as a running call may be, and the only one if it
\* is of a member that leaves the flag alone.
LEMMA TopOfStack ==
  ASSUME Nesting, stack # <<>>
  PROVE  /\ Len(stack) \in Nat /\ Len(stack) > 0 /\ Top = stack[Len(stack)]
         /\ Well(Top) /\ Cleared(Top)
         /\ Top.what \in Unguarded => Len(stack) = 1
<1>1. Len(stack) \in Nat /\ Len(stack) > 0
  BY LenProperties, EmptySeq DEF Nesting
<1>2. Top = stack[Len(stack)] /\ Well(Top) /\ Cleared(Top)
  BY <1>1 DEF Top, Last, Nesting
<1>3. ASSUME Len(stack) # 1 PROVE Top.what \notin Unguarded
  <2>1. Len(stack) - 1 \in 1..Len(stack) - 1 /\ Len(stack) - 1 + 1 = Len(stack)
    <3> DEFINE n == Len(stack)
    <3>1. n \in Nat /\ n > 0 /\ n # 1
      BY <1>1, <1>3
    <3> HIDE DEF n
    <3>2. n - 1 \in 1..n - 1 /\ n - 1 + 1 = n
      BY <3>1
    <3> QED BY <3>2 DEF n
  <2>2. Within(stack[Len(stack) - 1], Top)
    BY <1>2, <2>1 DEF Nesting
  <2> QED BY <2>2, CalledAreGuarded
<1> QED BY <1>1, <1>2, <1>3

\* The innermost call goes on.
LEMMA BecomesNests ==
  ASSUME Nesting, stack # <<>>, NEW fr, Well(fr), Cleared(fr), SameCall(fr, Top),
         Becomes(fr)
  PROVE  /\ Nesting' /\ stack' # <<>> /\ Top' = fr
         /\ stack'[1].saved = stack[1].saved
<1> DEFINE n == Len(stack)
<1>1. n \in Nat /\ n > 0 /\ Top = stack[n]
  BY TopOfStack
<1>2. /\ stack' \in Seq(ToSet(stack')) /\ Len(stack') = n /\ stack' # <<>>
      /\ stack'[n] = fr /\ \A i \in 1..n - 1 : stack'[i] = stack[i]
  <2>1. stack \in Seq(ToSet(stack)) /\ stack' = Append(Front(stack), fr)
    BY DEF Nesting, Becomes
  <2> QED BY <2>1, ReplaceTop
<1>3. Top' = fr /\ stack'[1].saved = stack[1].saved
  BY <1>1, <1>2 DEF Top, Last, SameCall
<1>4. ASSUME NEW i \in 1..n PROVE Well(stack'[i]) /\ Cleared(stack'[i])
  BY <1>1, <1>2 DEF Nesting
<1>5. ASSUME NEW i \in 1..n - 1 PROVE Within(stack'[i], stack'[i + 1])
  <2>1. Within(stack[i], stack[i + 1]) /\ stack'[i] = stack[i]
    BY <1>2 DEF Nesting
  <2>2. CASE i + 1 = n
    BY <1>1, <1>2, <2>1, <2>2 DEF Within, SameCall
  <2>3. CASE i + 1 # n
    <3>1. i + 1 \in 1..n - 1
      BY <1>1, <2>3
    <3> QED BY <1>2, <2>1, <3>1
  <2> QED BY <2>2, <2>3
<1> HIDE DEF n
<1> QED BY <1>2, <1>3, <1>4, <1>5 DEF Nesting, n

\* It evaluates a function.
LEMMA EnterNests ==
  ASSUME Nesting, stack # <<>>, NEW c, Well(c), Cleared(c), SameCall(c, Top),
         NEW fr, Well(fr), Cleared(fr), Within(c, fr), Enter(c, fr)
  PROVE  /\ Nesting' /\ stack' # <<>> /\ Top' = fr
         /\ stack'[1].saved = stack[1].saved
<1> DEFINE n == Len(stack)
<1>1. n \in Nat /\ n > 0 /\ Top = stack[n]
  BY TopOfStack
<1>2. /\ stack' \in Seq(ToSet(stack')) /\ Len(stack') = n + 1
      /\ stack'[n + 1] = fr /\ stack'[n] = c /\ \A i \in 1..n - 1 : stack'[i] = stack[i]
  <2>1. stack \in Seq(ToSet(stack)) /\ stack' = Append(Append(Front(stack), c), fr)
    BY DEF Nesting, Enter
  <2> QED BY <2>1, PushOnStack
<1>3. stack' # <<>> /\ Top' = fr /\ stack'[1].saved = stack[1].saved
  BY <1>1, <1>2 DEF Top, Last, SameCall
<1>4. ASSUME NEW i \in 1..n + 1 PROVE Well(stack'[i]) /\ Cleared(stack'[i])
  BY <1>1, <1>2 DEF Nesting
<1>5. ASSUME NEW i \in 1..n PROVE Within(stack'[i], stack'[i + 1])
  <2>1. CASE i = n
    BY <1>2, <2>1
  <2>2. CASE i # n
    <3>1. Within(stack[i], stack[i + 1]) /\ stack'[i] = stack[i] /\ i + 1 \in 1..n
      BY <1>1, <1>2, <2>2 DEF Nesting
    <3>2. CASE i + 1 = n
      BY <1>1, <1>2, <3>1, <3>2 DEF Within, SameCall
    <3>3. CASE i + 1 # n
      <4>1. i + 1 \in 1..n - 1
        BY <1>1, <3>1, <3>3
      <4> QED BY <1>2, <3>1, <4>1
    <3> QED BY <3>2, <3>3
  <2> QED BY <2>1, <2>2
<1> HIDE DEF n
<1> QED
  <2>1. n + 1 - 1 = n
    BY <1>1
  <2> QED BY <1>2, <1>3, <1>4, <1>5, <2>1 DEF Nesting, n

\* It returns to the call below.
LEMMA ReturnNests ==
  ASSUME Nesting, Len(stack) > 1, NEW c, Well(c), Cleared(c),
         SameCall(c, stack[Len(stack) - 1]),
         stack' = Append(SubSeq(stack, 1, Len(stack) - 2), c)
  PROVE  /\ Nesting' /\ stack' # <<>> /\ Top' = c
         /\ stack'[1].saved = stack[1].saved
<1> DEFINE n == Len(stack)
<1>1. n \in Nat /\ n > 1
  BY LenProperties DEF Nesting
<1>2. /\ stack' \in Seq(ToSet(stack')) /\ Len(stack') = n - 1 /\ stack' # <<>>
      /\ stack'[n - 1] = c /\ \A i \in 1..n - 2 : stack'[i] = stack[i]
  <2>1. stack \in Seq(ToSet(stack))
    BY DEF Nesting
  <2> QED BY <2>1, PopStack
<1>3. Top' = c /\ stack'[1].saved = stack[1].saved
  BY <1>1, <1>2 DEF Top, Last, SameCall
<1>4. ASSUME NEW i \in 1..n - 1 PROVE Well(stack'[i]) /\ Cleared(stack'[i])
  BY <1>1, <1>2 DEF Nesting
<1>5. ASSUME NEW i \in 1..n - 2 PROVE Within(stack'[i], stack'[i + 1])
  <2>1. Within(stack[i], stack[i + 1]) /\ stack'[i] = stack[i]
    BY <1>1, <1>2 DEF Nesting
  <2>2. CASE i + 1 = n - 1
    BY <1>1, <1>2, <2>1, <2>2 DEF Within, SameCall
  <2>3. CASE i + 1 # n - 1
    <3>1. i + 1 \in 1..n - 2
      BY <1>1, <2>3
    <3> QED BY <1>2, <2>1, <3>1
  <2> QED BY <2>2, <2>3
<1> HIDE DEF n
<1> QED
  <2>1. n - 1 - 1 = n - 2
    BY <1>1
  <2> QED BY <1>2, <1>3, <1>4, <1>5, <2>1 DEF Nesting, n

\* What the invariant asks of a state, when a call goes on or is entered.
LEMMA CallGoesOn ==
  ASSUME IInv, stack # <<>>, Nesting', stack' # <<>>, stack'[1].saved = stack[1].saved,
         allowed' \in BOOLEAN, allowed' <=> Flag(Top'),
         UNCHANGED <<wanted, lost, calls, outcome>>, Sized'
  PROVE  IInv'
<1>1. Types'
  BY DEF IInv, Types
<1>2. FlagFollows'
  BY DEF IInv, FlagFollows
<1>3. AllocationsAreAllowed'
  BY DEF IInv, AllocationsAreAllowed
<1> QED BY <1>1, <1>2, <1>3 DEF IInv

\* What it asks when all calls have ended.
LEMMA AllCallsEnd ==
  ASSUME IInv, stack' = <<>>, UNCHANGED <<wanted, calls>>, allowed' \in BOOLEAN,
         lost' \in BOOLEAN, outcome' \in Outcomes \ {"running", "forbidden"},
         outcome' \notin Stopped => (allowed' <=> wanted /\ ~lost'),
         outcome' = "refused" => ~wanted \/ lost', Sized'
  PROVE  IInv'
<1>1. Types'
  BY DEF IInv, Types
<1>2. Nesting'
  <2>1. Len(<<>>) = 0 /\ <<>> \in Seq(ToSet(<<>>))
    OBVIOUS
  <2> QED BY <2>1 DEF Nesting
<1>3. FlagFollows' /\ AllocationsAreAllowed'
  BY DEF FlagFollows, AllocationsAreAllowed
<1> QED BY <1>1, <1>2, <1>3 DEF IInv

\* A step done by the innermost call: which it is, and what is left.
LEMMA StepOfTop ==
  ASSUME IInv, stack # <<>>, Top.todo # <<>>
  PROVE  /\ Well(Top) /\ Cleared(Top) /\ Well(Done) /\ SameCall(Done, Top)
         /\ Done.site = Top.site /\ Done.x = Top.x /\ Done.k = Top.k
         /\ Done.todo = Tail(Top.todo)
         /\ (allowed <=> Flag(Top)) /\ allowed \in BOOLEAN
         /\ Head(Top.todo) \in Instructions /\ Fits(Top.f, Top.what, Head(Top.todo))
         /\ Head(Top.todo).do \notin Marks \/ Head(Top.todo).do = "allocate" =>
              Cleared(Done) /\ (Flag(Done) <=> Flag(Top))
<1>1. Well(Top) /\ Cleared(Top) /\ (allowed <=> Flag(Top)) /\ allowed \in BOOLEAN
  BY TopOfStack DEF IInv, FlagFollows, Types
<1>2. /\ Well(Done) /\ SameCall(Done, Top) /\ Done.site = Top.site
      /\ Done.x = Top.x /\ Done.k = Top.k /\ Done.todo = Tail(Top.todo)
      /\ Head(Top.todo) \in Instructions /\ Fits(Top.f, Top.what, Head(Top.todo))
  BY <1>1, DoneIsWell DEF Done
<1>3. ASSUME Head(Top.todo).do \notin Marks \/ Head(Top.todo).do = "allocate"
      PROVE  Cleared(Done) /\ (Flag(Done) <=> Flag(Top))
  <2>1. Top.what \notin Unguarded => (Open(Done.todo) <=> Open(Top.todo))
    BY <1>1, <1>2, <1>3, HeadOfFrame
  <2> QED BY <1>1, <1>2, <2>1 DEF Cleared, Flag, SameCall
<1> QED BY <1>1, <1>2, <1>3

\* The same call with another answer or other samples.
SameButAnswer(e, d) ==
  DOMAIN e = DOMAIN d /\ \A y \in Fields \ {"out", "local"} : e[y] = d[y]

\* The invariant says nothing of an answer, but of that of a function of the user.
LEMMA AnswerAside ==
  ASSUME NEW d, Well(d), Cleared(d), NEW e, SameButAnswer(e, d),
         d.f \in Given /\ d.what = "value" => Vec(e.out[1], Outputs[d.f])
  PROVE  Well(e) /\ Cleared(e) /\ SameCall(e, d) /\ (Flag(e) <=> Flag(d))
<1>1. /\ DOMAIN e = DOMAIN d /\ e.f = d.f /\ e.what = d.what /\ e.k = d.k /\ e.x = d.x
      /\ e.into = d.into /\ e.saved = d.saved /\ e.site = d.site /\ e.todo = d.todo
  BY DEF SameButAnswer, Fields
<1> QED BY <1>1 DEF Well, Cleared, SameCall, Flag

\* Two steps of the same call.
LEMMA SameCallTrans ==
  ASSUME NEW e, NEW d, NEW c, SameCall(e, d), SameCall(d, c)
  PROVE  SameCall(e, c)
BY DEF SameCall

\* A step that touches nothing but the answer of the innermost call.
LEMMA AnswerStepIInv ==
  ASSUME IInv, stack # <<>>, Top.todo # <<>>, Head(Top.todo).do \notin Marks,
         NEW e, SameButAnswer(e, Done), Top.f \notin Given \/ Top.what # "value",
         Becomes(e), UNCHANGED <<allowed, wanted, lost, calls, outcome, buffers>>
  PROVE  IInv'
<1>1. /\ Well(Done) /\ Cleared(Done) /\ SameCall(Done, Top)
      /\ (Flag(Done) <=> Flag(Top)) /\ (allowed <=> Flag(Top)) /\ allowed \in BOOLEAN
  BY StepOfTop
<1>2. Well(e) /\ Cleared(e) /\ SameCall(e, Done) /\ (Flag(e) <=> Flag(Done))
  <2>1. Done.f \notin Given \/ Done.what # "value"
    BY <1>1 DEF SameCall
  <2> QED BY <1>1, <2>1, AnswerAside
<1>3. SameCall(e, Top)
  BY <1>1, <1>2, SameCallTrans
<1>4. Nesting' /\ stack' # <<>> /\ Top' = e /\ stack'[1].saved = stack[1].saved
  BY <1>2, <1>3, BecomesNests DEF IInv
<1>5. Sized'
  BY DEF IInv, Sized
<1> QED BY <1>1, <1>2, <1>4, <1>5, CallGoesOn

\* A step that enters another function, called as a step of the top may call.
LEMMA EnterIInv ==
  ASSUME IInv, stack # <<>>, Top.todo # <<>>, Head(Top.todo).do \notin Marks,
         NEW g \in Functions, NEW what, NEW k \in Nat, NEW x, NEW into,
         Calls(Top.f, Top.what, g, what, into), Vec(x, Inputs[g]),
         Enter(Done, Frame(g, what, k, x, into)),
         UNCHANGED <<wanted, lost, calls, outcome>>, Sized'
  PROVE  IInv'
<1> DEFINE fr == Frame(g, what, k, x, into)
<1>1. /\ Well(Done) /\ Cleared(Done) /\ SameCall(Done, Top)
      /\ (Flag(Done) <=> Flag(Top)) /\ (allowed <=> Flag(Top)) /\ allowed \in BOOLEAN
  BY StepOfTop
<1>2. what \in Members(g) /\ what \notin Unguarded
  BY DEF Calls, Evaluated, Members, Unguarded
<1>3. /\ Well(fr) /\ Cleared(fr) /\ fr.f = g /\ fr.what = what /\ fr.into = into
      /\ fr.saved = allowed /\ (Flag(fr) <=> what \in Unguarded /\ allowed)
  BY <1>1, <1>2, FrameIsWell
<1>4. Enter(Done, fr) /\ allowed' = FALSE
  BY DEF Enter
<1> HIDE DEF fr
<1>5. Within(Done, fr)
  BY <1>1, <1>3 DEF Within, SameCall
<1>6. Nesting' /\ stack' # <<>> /\ Top' = fr /\ stack'[1].saved = stack[1].saved
  BY <1>1, <1>3, <1>4, <1>5, EnterNests DEF IInv
<1>7. allowed' \in BOOLEAN /\ (allowed' <=> Flag(fr))
  BY <1>2, <1>3, <1>4
<1> QED BY <1>6, <1>7, CallGoesOn

(***************************************************************************)
(* The steps.                                                              *)
(***************************************************************************)

\* A member of another function is called at the same argument.
LEMMA EvalIInv ==
  ASSUME IInv, EvalStep
  PROVE  IInv'
<1> DEFINE i == Head(Top.todo)
<1>1. /\ stack # <<>> /\ Top.todo # <<>> /\ i.do = "eval"
      /\ Enter(Done, Frame(i.of, i.what, i.k, Top.x, i.into))
      /\ UNCHANGED <<wanted, lost, calls, outcome, buffers>>
  BY DEF EvalStep, Doing, User
<1>2. i \in Instructions /\ Fits(Top.f, Top.what, i) /\ Well(Top)
  BY <1>1, StepOfTop
<1> HIDE DEF i
<1>3. i.of \in Functions /\ i.k \in Nat
  BY <1>1, <1>2 DEF Instructions
<1>4. Calls(Top.f, Top.what, i.of, i.what, i.into)
  BY <1>1, <1>2 DEF Fits
<1>5. Vec(Top.x, Inputs[i.of])
  BY <1>2, <1>4 DEF Calls, Well
<1>6. i.do \notin Marks
  BY <1>1 DEF Marks
<1>7. Sized'
  BY <1>1 DEF IInv, Sized
<1> QED BY <1>1, <1>3, <1>4, <1>5, <1>6, <1>7, EnterIInv DEF i

\* A sample of a decorated function is its value at a moved argument.
LEMMA ProbeIInv ==
  ASSUME IInv, ProbeStep
  PROVE  IInv'
<1> DEFINE i == Head(Top.todo)
           xEps == MovedOnly(Top.f, Top.x, i.j, i.d)
           g == Adaptee[Top.f]
<1>1. /\ stack # <<>> /\ Top.todo # <<>> /\ i.do = "probe"
      /\ buffers' = [buffers EXCEPT ![Top.f].xEps = xEps]
      /\ Enter(Done, Frame(g, "value", 0, xEps, i.into))
      /\ UNCHANGED <<wanted, lost, calls, outcome>>
  BY DEF ProbeStep, Doing, User
<1>2. Fits(Top.f, Top.what, i) /\ Well(Top)
  BY <1>1, StepOfTop
<1>3. xEps = [Top.x EXCEPT ![i.j] = @ + i.d]
  BY DEF MovedOnly
<1> HIDE DEF i
<1>4. /\ Top.f \in Decorated /\ Top.f \in Functions /\ Top.what \in {"gradient", "jacobian"}
      /\ i.into = <<"buffer", "resultEps">> \/ i.into[1] = "sample"
  BY <1>1, <1>2 DEF Fits, Decorated
<1>5. g \in Functions /\ Inputs[g] = Inputs[Top.f]
  BY <1>4, Kinds
<1>6. Calls(Top.f, Top.what, g, "value", i.into)
  <2>1. Calls(Top.f, Top.what, g, "value", <<"buffer", "result">>)
    BY <1>4, CallsWithin
  <2> QED BY <1>4, <2>1 DEF Calls, ReturnsTo
<1>7. Vec(xEps, Inputs[Top.f])
  BY <1>2, <1>3 DEF Well, Vec
<1> HIDE DEF xEps, g
<1>8. Sized'
  <2>1. Sized /\ Top.f \in DOMAIN buffers
    BY <1>4 DEF IInv, Sized
  <2>2. DOMAIN buffers' = DOMAIN buffers
    BY <1>1
  <2>3. ASSUME NEW f \in Decorated PROVE SizedBuffers(f, buffers'[f])
    <3>1. f \in DOMAIN buffers /\ SizedBuffers(f, buffers[f])
      BY <2>1 DEF Sized
    <3>2. CASE f # Top.f
      BY <1>1, <3>1, <3>2
    <3>3. CASE f = Top.f
      <4>1. buffers'[f] = [buffers[f] EXCEPT !.xEps = xEps]
        BY <1>1, <3>1, <3>3
      <4> QED BY <1>7, <3>1, <3>3, <4>1 DEF SizedBuffers
    <3> QED BY <3>2, <3>3
  <2> QED BY <2>1, <2>2, <2>3 DEF Sized
<1>9. i.do \notin Marks
  BY <1>1 DEF Marks
<1> QED BY <1>1, <1>5, <1>6, <1>7, <1>8, <1>9, EnterIInv DEF i

\* Buffers of a sum of squares are not those of a finite difference.
LEMMA SquaresBuffers ==
  ASSUME Sized, NEW f \in Squares, DOMAIN buffers' = DOMAIN buffers,
         \A g \in DOMAIN buffers \ {f} : buffers'[g] = buffers[g]
  PROVE  Sized'
<1>1. f \notin Decorated
  BY DEF Squares, Decorated
<1> QED BY <1>1 DEF Sized

\* A sum of squares evaluates its base where its argument changed.
LEMMA RefreshIInv ==
  ASSUME IInv, RefreshStep
  PROVE  IInv'
<1>1. /\ stack # <<>> /\ Top.todo # <<>> /\ Head(Top.todo).do = "refresh"
      /\ UNCHANGED <<wanted, lost, calls, outcome>>
  BY DEF RefreshStep, Doing, User
<1>2. /\ Fits(Top.f, Top.what, Head(Top.todo)) /\ Well(Top) /\ Well(Done) /\ SameCall(Done, Top)
      /\ Head(Top.todo).do \notin Marks
  BY <1>1, StepOfTop DEF Marks
<1>3. Top.f \in Squares /\ Top.f \in Functions /\ Top.what \in {"value", "gradient"}
  BY <1>1, <1>2 DEF Fits, Squares
<1>4. Top.f \notin Given
  BY <1>3 DEF Given
<1>5. CASE buffers[Top.f].x = Top.x
  <2>1. Becomes(Done) /\ UNCHANGED <<buffers, allowed>>
    BY <1>5 DEF RefreshStep
  <2>2. SameButAnswer(Done, Done)
    BY DEF SameButAnswer
  <2> QED BY <1>1, <1>2, <1>4, <2>1, <2>2, AnswerStepIInv
<1>6. CASE buffers[Top.f].x # Top.x
  <2> DEFINE g == Adaptee[Top.f]
  <2>1. /\ buffers' = [buffers EXCEPT ![Top.f].x = Top.x, ![Top.f].torn = TRUE]
        /\ Enter(Done, Frame(g, "value", 0, Top.x, <<"refreshed">>))
    BY <1>6 DEF RefreshStep
  <2>2. Sized'
    <3>1. /\ DOMAIN buffers' = DOMAIN buffers
          /\ \A f \in DOMAIN buffers \ {Top.f} : buffers'[f] = buffers[f]
      BY <2>1
    <3> QED BY <1>3, <3>1, SquaresBuffers DEF IInv
  <2>3. g \in Functions /\ g \in Given /\ Inputs[g] = Inputs[Top.f]
    BY <1>3, Kinds
  <2> HIDE DEF g
  <2>4. Calls(Top.f, Top.what, g, "value", <<"refreshed">>)
    <3>1. Level(g, "value") = 1
      BY <2>3 DEF Level, Checks, Given
    <3>2. Level(Top.f, Top.what) = 2
      BY <1>3, <1>4 DEF Level, Checks
    <3> QED BY <1>3, <2>3, <3>1, <3>2 DEF Calls, ReturnsTo, Evaluated
  <2>5. Vec(Top.x, Inputs[g])
    BY <1>2, <2>3 DEF Well
  <2> QED BY <1>1, <1>2, <2>1, <2>2, <2>3, <2>4, <2>5, EnterIInv DEF g
<1> QED BY <1>5, <1>6

\* The steps that compute entries of the answer.
LEMMA EntriesIInv ==
  ASSUME IInv, SquareStep \/ AccumulateStep \/ WriteStep
  PROVE  IInv'
<1>1. /\ stack # <<>> /\ Top.todo # <<>>
      /\ Head(Top.todo).do \in {"square", "accumulate", "write"}
      /\ UNCHANGED <<wanted, lost, calls, outcome, allowed, buffers>>
  BY DEF SquareStep, AccumulateStep, WriteStep, Doing, User
<1>2. Fits(Top.f, Top.what, Head(Top.todo)) /\ Well(Done) /\ Head(Top.todo).do \notin Marks
  BY <1>1, StepOfTop DEF Marks
<1>3. Top.f \notin Given
  <2>1. Top.f \in Squares \/ Top.f \in Decorated
    BY <1>1, <1>2 DEF Fits
  <2> QED BY <2>1 DEF Given
<1>4. DOMAIN Done = Fields
  BY <1>2 DEF Well
<1>5. \E e : Becomes(e) /\ SameButAnswer(e, Done)
  <2>1. ASSUME NEW o PROVE SameButAnswer([Done EXCEPT !.out = o], Done)
    <3> DEFINE d == Done
    <3>1. DOMAIN d = Fields
      BY <1>4
    <3> HIDE DEF d
    <3>2. SameButAnswer([d EXCEPT !.out = o], d)
      BY <3>1 DEF SameButAnswer, Fields
    <3> QED BY <3>2 DEF d
  <2>2. \E o : Becomes([Done EXCEPT !.out = o])
    <3>1. CASE SquareStep
      <4> DEFINE y == buffers[Top.f].value
                 v == Total([k \in DOMAIN y |-> y[k] * y[k]])
      <4>1. Becomes([Done EXCEPT !.out[1][1] = v])
        BY <3>1 DEF SquareStep
      <4> HIDE DEF v
      <4> QED BY <4>1
    <3>2. CASE AccumulateStep
      <4> DEFINE b == buffers[Top.f]
                 y == b.value[Head(Top.todo).k]
      <4>1. Becomes([Done EXCEPT !.out[1] = [j \in DOMAIN @ |-> @[j] + 2 * y * b.gradient[j]]])
        BY <3>2 DEF AccumulateStep
      <4> HIDE DEF b, y
      <4> QED BY <4>1
    <3>3. CASE WriteStep
      <4> DEFINE i == Head(Top.todo)
                 entry == IF Kind[Top.f] = "simple"
                          THEN ForwardDifference(buffers[Top.f], i.k, i.h)
                          ELSE FivePointRule(Top.local, i.h)
      <4>1. Becomes([Done EXCEPT !.out[i.row][i.j] = entry])
        BY <3>3 DEF WriteStep
      <4> HIDE DEF i, entry
      <4> QED BY <4>1
    <3> QED BY <1>1, <3>1, <3>2, <3>3
  <2> QED BY <2>1, <2>2
<1> QED BY <1>1, <1>2, <1>3, <1>5, AnswerStepIInv

\* A second estimation takes its samples before what was left to do.
LEMMA MoreStepsNest ==
  ASSUME IInv, stack # <<>>, Top.todo # <<>>, Head(Top.todo).do \notin Marks,
         NEW more \in Seq(Others(Top.f, Top.what)),
         Top.f \in Decorated, Top.what \in {"gradient", "jacobian"},
         Becomes([Done EXCEPT !.todo = more \o @]),
         UNCHANGED <<allowed, wanted, lost, calls, outcome, buffers>>
  PROVE  IInv'
<1> DEFINE S == StepsOf(Top.f, Top.what)
           d == Done
           e == [d EXCEPT !.todo = more \o @]
<1>1. /\ Well(d) /\ Cleared(d) /\ SameCall(d, Top) /\ DOMAIN d = Fields
      /\ (Flag(d) <=> Flag(Top)) /\ (allowed <=> Flag(Top)) /\ allowed \in BOOLEAN
  BY StepOfTop DEF Well
<1>2. d.todo \in Seq(S)
  BY <1>1 DEF Well, SameCall
<1> HIDE DEF d
<1>3. /\ DOMAIN e = Fields /\ e.f = d.f /\ e.what = d.what /\ e.x = d.x /\ e.into = d.into
      /\ e.saved = d.saved /\ e.site = d.site /\ e.out = d.out /\ e.todo = more \o d.todo
  BY <1>1 DEF Fields
<1>4. Becomes(e)
  BY DEF d
<1> HIDE DEF e
<1>5. more \in Seq(S) /\ Unmarked(more)
  BY OthersAreUnmarked
<1>6. more \o d.todo \in Seq(S)
  BY <1>2, <1>5, ConcatProperties
<1>7. /\ Bracketed(d.todo) => Bracketed(more \o d.todo)
      /\ Open(more \o d.todo) <=> Open(d.todo)
  BY <1>2, <1>5, UnmarkedPrefix
<1> HIDE DEF S
<1>8. Well(e)
  <2>1. e.f = Top.f /\ e.what = Top.what
    BY <1>1, <1>3 DEF SameCall
  <2> QED BY <1>1, <1>3, <1>6, <1>7, <2>1 DEF Well, S
<1>9. Cleared(e) /\ SameCall(e, Top) /\ (Flag(e) <=> Flag(Top))
  BY <1>1, <1>3, <1>7 DEF Cleared, SameCall, Flag
<1>10. Nesting' /\ stack' # <<>> /\ Top' = e /\ stack'[1].saved = stack[1].saved
  BY <1>4, <1>8, <1>9, BecomesNests DEF IInv
<1>11. Sized'
  BY DEF IInv, Sized
<1> QED BY <1>1, <1>9, <1>10, <1>11, CallGoesOn

\* Whether or not another estimation is made.
LEMMA AgainIInv ==
  ASSUME IInv, AgainStep
  PROVE  IInv'
<1> DEFINE i == Head(Top.todo)
           more == Repeated(i)
           U == Others(Top.f, Top.what)
<1>1. /\ stack # <<>> /\ Top.todo # <<>> /\ i.do = "again"
      /\ UNCHANGED <<allowed, wanted, lost, calls, outcome, buffers>>
      /\ \/ Becomes(Done)
         \/ Becomes([Done EXCEPT !.todo = more \o @])
         \/ Becomes([Done EXCEPT !.todo = Front(more) \o @])
  BY DEF AgainStep, Doing, User
<1>2. i \in Instructions /\ Fits(Top.f, Top.what, i) /\ i.do \notin Marks
  BY <1>1, StepOfTop DEF Marks
<1>3. /\ Top.f \in Decorated /\ Top.what \in {"gradient", "jacobian"}
      /\ i.j \in Nat /\ i.k \in Nat /\ i.row \in Nat
  <2> HIDE DEF i
  <2>1. Top.f \in Decorated /\ Top.what \in {"gradient", "jacobian"}
    BY <1>1, <1>2 DEF Fits
  <2>2. i.j \in Nat /\ i.k \in Nat /\ i.row \in Nat
    BY <1>1, <1>2 DEF Instructions
  <2> QED BY <2>1, <2>2
<1>4. more = Deriv(i.j, i.k, i.row, OtherStep)
  BY DEF Repeated
<1> HIDE DEF i
<1>5. more \in Seq(U) /\ Len(more) = 5
  <2>1. OtherStep \in Int
    BY StepsAssumption
  <2>2. Deriv(i.j, i.k, i.row, OtherStep) \in Seq(U)
    BY <1>3, <2>1, DifferencesInBody
  <2>3. Len(Deriv(i.j, i.k, i.row, OtherStep)) = 5
    BY DEF Deriv
  <2> QED BY <1>4, <2>2, <2>3
<1> HIDE DEF more
<1>6. Front(more) \in Seq(U)
  <2>1. Front(more) = SubSeq(more, 1, 4)
    BY <1>5 DEF Front
  <2> HIDE DEF U
  <2>2. \A n \in 1..4 : more[n] \in U
    BY <1>5, ElementOfSeq
  <2> QED BY <2>1, <2>2, SubSeqProperties
<1>7. CASE Becomes(Done)
  <2>1. SameButAnswer(Done, Done) /\ Top.f \notin Given
    BY <1>3 DEF SameButAnswer, Given
  <2> QED BY <1>1, <1>2, <1>7, <2>1, AnswerStepIInv DEF i
<1>8. CASE Becomes([Done EXCEPT !.todo = more \o @])
  BY <1>1, <1>2, <1>3, <1>5, <1>8, MoreStepsNest DEF i
<1>9. CASE Becomes([Done EXCEPT !.todo = Front(more) \o @])
  BY <1>1, <1>2, <1>3, <1>6, <1>9, MoreStepsNest DEF i
<1> QED BY <1>1, <1>7, <1>8, <1>9

\* The innermost call sets the flag, or restores it, and goes on.
LEMMA FlagStepIInv ==
  ASSUME IInv, stack # <<>>, Top.todo # <<>>, Top.what \notin Unguarded,
         NEW s \in BOOLEAN, Open(Done.todo) => ~s,
         Becomes([Done EXCEPT !.site = s]), allowed' = Open(Done.todo),
         UNCHANGED <<wanted, lost, calls, outcome, buffers>>
  PROVE  IInv'
<1> DEFINE d == Done
           e == [d EXCEPT !.site = s]
<1>1. Well(d) /\ SameCall(d, Top) /\ DOMAIN d = Fields
  BY StepOfTop DEF Well
<1> HIDE DEF d
<1>2. /\ DOMAIN e = Fields /\ e.f = d.f /\ e.what = d.what /\ e.x = d.x /\ e.into = d.into
      /\ e.saved = d.saved /\ e.site = s /\ e.out = d.out /\ e.todo = d.todo
  BY <1>1 DEF Fields
<1>3. Becomes(e) /\ (Open(d.todo) => ~s) /\ allowed' = Open(d.todo)
  BY DEF d
<1> HIDE DEF e
<1>4. Well(e) /\ SameCall(e, Top) /\ Cleared(e) /\ (Flag(e) <=> Open(d.todo))
  BY <1>1, <1>2, <1>3 DEF Well, SameCall, Cleared, Flag
<1>5. Nesting' /\ stack' # <<>> /\ Top' = e /\ stack'[1].saved = stack[1].saved
  BY <1>3, <1>4, BecomesNests DEF IInv
<1>6. Sized'
  BY DEF IInv, Sized
<1>7. allowed' \in BOOLEAN /\ (allowed' <=> Flag(e))
  BY <1>3, <1>4 DEF Open
<1> QED BY <1>5, <1>6, <1>7, CallGoesOn

\* The library sets the flag, which it had cleared before.
LEMMA AllowIInv ==
  ASSUME IInv, AllowStep
  PROVE  IInv'
<1>1. /\ stack # <<>> /\ Top.todo # <<>> /\ Head(Top.todo).do = "allow"
      /\ allowed' = TRUE /\ Becomes([Done EXCEPT !.site = allowed])
      /\ UNCHANGED <<wanted, lost, calls, outcome, buffers>>
  BY DEF AllowStep, Doing, User, SiteFlag
<1>2. /\ Well(Top) /\ Done.todo = Tail(Top.todo) /\ Fits(Top.f, Top.what, Head(Top.todo))
      /\ (allowed <=> Flag(Top)) /\ allowed \in BOOLEAN
  BY <1>1, StepOfTop
<1>3. Top.what \notin Unguarded
  BY <1>1, <1>2 DEF Fits
<1>4. ~Open(Top.todo) /\ Open(Done.todo)
  BY <1>1, <1>2, <1>3, HeadOfFrame
<1>5. ~allowed
  BY <1>2, <1>3, <1>4 DEF Flag
<1>6. allowed' = Open(Done.todo)
  BY <1>1, <1>4 DEF Open
<1> QED BY <1>1, <1>2, <1>3, <1>5, <1>6, FlagStepIInv

\* It restores the flag to what it had cleared it to.
LEMMA RestoreIInv ==
  ASSUME IInv, RestoreStep
  PROVE  IInv'
<1>1. /\ stack # <<>> /\ Top.todo # <<>> /\ Head(Top.todo).do = "restore"
      /\ allowed' = Top.site /\ Becomes(Done)
      /\ UNCHANGED <<wanted, lost, calls, outcome, buffers>>
  BY DEF RestoreStep, Doing, User, SiteRestored
<1>2. /\ Well(Top) /\ Cleared(Top) /\ Well(Done) /\ Done.todo = Tail(Top.todo)
      /\ Done.site = Top.site /\ Fits(Top.f, Top.what, Head(Top.todo))
  BY <1>1, StepOfTop
<1>3. Top.what \notin Unguarded
  BY <1>1, <1>2 DEF Fits
<1>4. Open(Top.todo) /\ ~Open(Done.todo)
  BY <1>1, <1>2, <1>3, HeadOfFrame
<1>5. Top.site = FALSE
  BY <1>2, <1>3, <1>4 DEF Cleared, Well
<1>6. allowed' = Open(Done.todo)
  BY <1>1, <1>4, <1>5 DEF Open
<1>7. [Done EXCEPT !.site = FALSE] = Done
  <2> DEFINE d == Done
  <2>1. DOMAIN d = Fields /\ d.site = FALSE
    BY <1>2, <1>5 DEF Well
  <2>2. d = [y \in DOMAIN d |-> d[y]]
    BY DEF Done
  <2> HIDE DEF d
  <2> QED BY <2>1, <2>2 DEF d
<1>8. Becomes([Done EXCEPT !.site = FALSE])
  BY <1>1, <1>7
<1> QED BY <1>1, <1>3, <1>6, <1>8, FlagStepIInv

\* The library allocates where it set the flag; where it did not, the flag is
\* that of the user.
LEMMA AllocateIInv ==
  ASSUME IInv, AllocateStep
  PROVE  IInv'
<1>1. /\ stack # <<>> /\ Top.todo # <<>> /\ Head(Top.todo).do = "allocate"
      /\ UNCHANGED <<wanted, lost, calls, allowed, buffers>>
  BY DEF AllocateStep, Doing
<1>2. /\ Well(Top) /\ Well(Done) /\ Cleared(Done) /\ SameCall(Done, Top)
      /\ (Flag(Done) <=> Flag(Top)) /\ (allowed <=> Flag(Top)) /\ allowed \in BOOLEAN
  BY <1>1, StepOfTop
<1>3. Sized'
  BY <1>1 DEF IInv, Sized
<1>4. CASE allowed
  <2>1. Becomes(Done) /\ UNCHANGED outcome
    BY <1>4 DEF AllocateStep
  <2>2. Nesting' /\ stack' # <<>> /\ Top' = Done /\ stack'[1].saved = stack[1].saved
    BY <1>1, <1>2, <2>1, BecomesNests DEF IInv
  <2> QED BY <1>1, <1>2, <1>3, <2>1, <2>2, CallGoesOn
<1>5. CASE ~allowed
  <2>1. stack' = <<>> /\ outcome' = IF Top.what \in Unguarded THEN "refused" ELSE "forbidden"
    BY <1>5 DEF AllocateStep
  <2>2. Top.what \in Unguarded
    <3>1. SUFFICES ASSUME Top.what \notin Unguarded PROVE Open(Top.todo)
      BY <1>2, <1>5, <3>1 DEF Flag
    <3> QED BY <1>1, <1>2, <3>1, HeadOfFrame
  <2>3. ~(wanted /\ ~lost)
    <3>1. stack[1] = Top
      BY <1>1, <2>2, TopOfStack DEF IInv
    <3> QED BY <1>1, <1>2, <1>5, <2>2, <3>1 DEF IInv, FlagFollows, Flag
  <2>4. outcome' = "refused" /\ lost' \in BOOLEAN /\ (~wanted \/ lost')
    BY <1>1, <2>1, <2>2, <2>3 DEF IInv, Types
  <2>5. outcome' \in Outcomes \ {"running", "forbidden"} /\ outcome' \in Stopped
    BY <2>4 DEF Outcomes, Stopped
  <2> QED BY <1>1, <1>2, <1>3, <2>1, <2>4, <2>5, AllCallsEnd
<1> QED BY <1>4, <1>5

\* The assertion on the number of the output ends the process.
LEMMA RequireIInv ==
  ASSUME IInv, RequireStep
  PROVE  IInv'
<1>1. /\ stack # <<>> /\ Top.todo # <<>> /\ Head(Top.todo).do = "first output"
      /\ UNCHANGED <<wanted, lost, calls, allowed, buffers>>
  BY DEF RequireStep, Doing
<1>2. /\ Well(Done) /\ Cleared(Done) /\ SameCall(Done, Top)
      /\ (Flag(Done) <=> Flag(Top)) /\ (allowed <=> Flag(Top)) /\ allowed \in BOOLEAN
  BY <1>1, StepOfTop DEF Marks
<1>3. Sized'
  BY <1>1 DEF IInv, Sized
<1>4. CASE Top.k = 1
  <2>1. Becomes(Done) /\ UNCHANGED outcome
    BY <1>4 DEF RequireStep
  <2>2. Nesting' /\ stack' # <<>> /\ Top' = Done /\ stack'[1].saved = stack[1].saved
    BY <1>1, <1>2, <2>1, BecomesNests DEF IInv
  <2> QED BY <1>1, <1>2, <1>3, <2>1, <2>2, CallGoesOn
<1>5. CASE Top.k # 1
  <2>1. stack' = <<>> /\ outcome' = "assertion"
    BY <1>5 DEF RequireStep
  <2>2. outcome' \in Outcomes \ {"running", "forbidden"} /\ outcome' \in Stopped
    BY <2>1 DEF Outcomes, Stopped
  <2> QED BY <1>1, <1>2, <1>3, <2>1, <2>2, AllCallsEnd DEF IInv, Types
<1> QED BY <1>4, <1>5

\* The function of the user gives all its outputs.
LEMMA ComputeIInv ==
  ASSUME IInv, ComputeStep
  PROVE  IInv'
<1> DEFINE o == Computed(Top.f, Top.what, Top.k, Top.x)
           d == Done
           e == [d EXCEPT !.out = o]
<1>1. /\ stack # <<>> /\ Top.todo # <<>> /\ Head(Top.todo).do = "compute"
      /\ Becomes(e)
      /\ UNCHANGED <<wanted, lost, calls, outcome, allowed, buffers>>
  BY DEF ComputeStep, Doing, User
<1>2. /\ Well(Top) /\ Well(d) /\ SameCall(d, Top) /\ d.todo = Tail(Top.todo)
      /\ (allowed <=> Flag(Top)) /\ allowed \in BOOLEAN /\ DOMAIN d = Fields
  BY <1>1, StepOfTop DEF Well
<1>3. Top.what \notin Unguarded => ~Open(Top.todo) /\ ~Open(d.todo)
  BY <1>1, <1>2, HeadOfFrame
<1>4. Cleared(d) /\ (Flag(d) <=> Flag(Top))
  BY <1>2, <1>3 DEF Cleared, Flag, SameCall
<1>5. ASSUME Top.what = "value" PROVE Vec(o[1], Outputs[Top.f])
  <2>1. o = <<Exact(Top.f, Top.x)>>
    BY <1>5 DEF Computed
  <2>2. o[1] = Exact(Top.f, Top.x)
    BY <2>1
  <2> HIDE DEF o
  <2> QED BY <2>2 DEF Exact, Vec
<1> HIDE DEF o, d
<1>6. SameButAnswer(e, d) /\ e.out = o
  BY <1>2 DEF SameButAnswer, Fields
<1> HIDE DEF e
<1>7. d.f \in Given /\ d.what = "value" => Vec(e.out[1], Outputs[d.f])
  BY <1>2, <1>5, <1>6 DEF SameCall
<1>8. Well(e) /\ Cleared(e) /\ SameCall(e, d) /\ (Flag(e) <=> Flag(d))
  BY <1>2, <1>4, <1>6, <1>7, AnswerAside
<1>9. SameCall(e, Top)
  BY <1>2, <1>8, SameCallTrans
<1>10. Nesting' /\ stack' # <<>> /\ Top' = e /\ stack'[1].saved = stack[1].saved
  BY <1>1, <1>8, <1>9, BecomesNests DEF IInv
<1>11. Sized'
  BY <1>1 DEF IInv, Sized
<1> QED BY <1>1, <1>2, <1>4, <1>8, <1>10, <1>11, CallGoesOn

\* New finite differences have buffers of the sizes of the function, whether
\* made for the whole run or for a check.
LEMMA NewBuffersSized ==
  ASSUME NEW f
  PROVE  SizedBuffers(f, NewBuffers(f))
BY DEF SizedBuffers, NewBuffers, Vec

\* The buffers left by a check that ended have the sizes they are made with.
LEMMA EmptiedSized ==
  ASSUME Sized, buffers' = Emptied
  PROVE  Sized'
<1>1. DOMAIN buffers' = DOMAIN buffers
  BY DEF Emptied
<1>2. ASSUME NEW f \in Decorated PROVE SizedBuffers(f, buffers'[f])
  <2>1. f \in DOMAIN buffers /\ SizedBuffers(f, buffers[f])
    BY DEF Sized
  <2>2. buffers'[f] = IF Destroyed(f) THEN NewBuffers(f) ELSE buffers[f]
    BY <2>1 DEF Emptied
  <2>3. CASE Destroyed(f)
    BY <2>2, <2>3, NewBuffersSized
  <2>4. CASE ~Destroyed(f)
    BY <2>1, <2>2, <2>4
  <2> QED BY <2>3, <2>4
<1> QED BY <1>1, <1>2 DEF Sized

\* A call of an unguarded member is of the user, who set the flag.
LEMMA UnguardedFlag ==
  ASSUME IInv, stack # <<>>, Top.what \in Unguarded
  PROVE  /\ DOMAIN stack = 1..1 /\ stack[1] = Top
         /\ (Flag(Top) <=> wanted /\ ~lost) /\ (allowed <=> wanted /\ ~lost)
<1>1. Len(stack) = 1 /\ stack[1] = Top
  BY TopOfStack DEF IInv
<1>2. DOMAIN stack = 1..1
  BY <1>1, LenProperties DEF IInv, Nesting
<1> QED BY <1>1, <1>2 DEF IInv, FlagFollows, Flag

\* A check ends with the flag as the user had it.
LEMMA CompareIInv ==
  ASSUME IInv, CompareStep
  PROVE  IInv'
<1> DEFINE v == Verdict(StoredIn(Top.f, Top.what, Top.k), Top.out[1], Top.out[2])
<1>1. /\ stack # <<>> /\ Top.todo # <<>> /\ Head(Top.todo).do = "compare"
      /\ outcome' = v /\ stack' = <<>> /\ buffers' = Emptied
      /\ UNCHANGED <<wanted, lost, calls, allowed>>
  BY DEF CompareStep, Doing
<1>2. Fits(Top.f, Top.what, Head(Top.todo)) /\ allowed \in BOOLEAN
  BY <1>1, StepOfTop
<1>3. Top.what \in Unguarded
  BY <1>1, <1>2 DEF Fits, Checks, Unguarded
<1>4. allowed <=> wanted /\ ~lost
  BY <1>1, <1>3, UnguardedFlag
<1>5. v \in {"accepted", "assertion", "rejected"}
  <2> DEFINE stored == StoredIn(Top.f, Top.what, Top.k)
  <2> HIDE DEF stored
  <2>1. \A a, b : Verdict(stored, a, b) \in {"accepted", "assertion", "rejected"}
    BY DEF Verdict
  <2> QED BY <2>1 DEF stored
<1> HIDE DEF v
<1>6. outcome' \in Outcomes \ {"running", "forbidden"} /\ outcome' # "refused"
  BY <1>1, <1>5 DEF Outcomes, Stopped
<1>7. Sized'
  BY <1>1, EmptiedSized DEF IInv
<1> QED BY <1>1, <1>2, <1>4, <1>6, <1>7, AllCallsEnd DEF IInv, Types

\* An exception leaves the flag as the innermost call has it: cleared, if any
\* of the calls it leaves is guarded.
LEMMA ThrowIInv ==
  ASSUME IInv, Throw
  PROVE  IInv'
<1>1. /\ stack # <<>> /\ Top.todo # <<>> /\ Head(Top.todo).do = "compute"
      /\ outcome' = "exception" /\ stack' = <<>> /\ buffers' = Emptied
      /\ lost' = (lost \/ \E i \in DOMAIN stack : stack[i].what \notin Unguarded)
      /\ UNCHANGED <<wanted, calls, allowed>>
  BY DEF Throw, Doing
<1>2. Well(Top) /\ (allowed <=> Flag(Top)) /\ allowed \in BOOLEAN
  BY <1>1, StepOfTop
<1>3. lost' \in BOOLEAN
  BY <1>1 DEF IInv, Types
<1>4. allowed <=> wanted /\ ~lost'
  <2>1. CASE Top.what \in Unguarded
    <3>1. /\ DOMAIN stack = 1..1 /\ stack[1] = Top
          /\ (allowed <=> wanted /\ ~lost)
      BY <1>1, <2>1, UnguardedFlag
    <3>2. ~\E i \in DOMAIN stack : stack[i].what \notin Unguarded
      BY <2>1, <3>1
    <3> QED BY <1>1, <3>1, <3>2
  <2>2. CASE Top.what \notin Unguarded
    <3>1. ~Open(Top.todo)
      BY <1>1, <1>2, <2>2, HeadOfFrame
    <3>2. ~allowed
      BY <1>2, <2>2, <3>1 DEF Flag
    <3>3. /\ Len(stack) \in Nat /\ Len(stack) > 0 /\ stack[Len(stack)] = Top
          /\ stack \in Seq(ToSet(stack))
      BY <1>1, TopOfStack DEF IInv, Nesting
    <3>4. Len(stack) \in DOMAIN stack
      BY <3>3, LenProperties
    <3> QED BY <1>1, <2>2, <3>2, <3>3, <3>4
  <2> QED BY <2>1, <2>2
<1>5. outcome' \in Outcomes \ {"running", "forbidden"} /\ outcome' # "refused"
  BY <1>1 DEF Outcomes, Stopped
<1>6. Sized'
  BY <1>1, EmptiedSized DEF IInv
<1> QED BY <1>1, <1>2, <1>3, <1>4, <1>5, <1>6, AllCallsEnd

\* The outermost call restores what it found.
LEMMA ReturnToUserIInv ==
  ASSUME IInv, ReturnToUser
  PROVE  IInv'
<1>1. /\ Len(stack) = 1 /\ stack' = <<>> /\ outcome' = "returned"
      /\ allowed' = RestoredTo(Top) /\ UNCHANGED <<wanted, lost, calls, buffers>>
  BY DEF ReturnToUser
<1>2. stack # <<>>
  BY <1>1, EmptySeq
<1>3. Top = stack[1] /\ Well(Top)
  BY <1>1, <1>2, TopOfStack DEF IInv
<1>4. allowed' \in BOOLEAN /\ (allowed' <=> wanted /\ ~lost)
  <2>1. CASE Top.what \in Unguarded
    BY <1>1, <1>2, <2>1, UnguardedFlag DEF RestoredTo, IInv, Types
  <2>2. CASE Top.what \notin Unguarded
    BY <1>1, <1>2, <1>3, <2>2 DEF RestoredTo, IInv, FlagFollows, Well
  <2> QED BY <2>1, <2>2
<1>5. outcome' \in Outcomes \ {"running", "forbidden"} /\ outcome' # "refused"
  BY <1>1 DEF Outcomes, Stopped
<1>6. Sized'
  BY <1>1 DEF IInv, Sized
<1> QED BY <1>1, <1>4, <1>5, <1>6, AllCallsEnd DEF IInv, Types

\* A function of the user that computes its value calls nothing; every other
\* caller may take the answer it gets.
LEMMA StoredAside ==
  ASSUME NEW caller, Well(caller), Cleared(caller), NEW fr, Within(caller, fr)
  PROVE  LET c == Stored(caller, fr.into, fr.out)
         IN Well(c) /\ Cleared(c) /\ SameCall(c, caller) /\ (Flag(c) <=> Flag(caller))
<1> DEFINE into == fr.into
           out == fr.out
           c == Stored(caller, into, out)
<1>1. /\ Level(fr.f, fr.what) < Level(caller.f, caller.what)
      /\ ReturnsTo(caller.f, fr.f, fr.what, into)
  BY DEF Within, Calls
<1>2. ~(caller.f \in Given /\ caller.what = "value")
  <2>1. SUFFICES ASSUME caller.f \in Given, caller.what = "value" PROVE FALSE
    OBVIOUS
  <2>2. Level(caller.f, caller.what) = 1
    BY <2>1 DEF Level, Checks, Given
  <2>3. Level(fr.f, fr.what) \in {1, 2, 3}
    BY DEF Level
  <2> QED BY <1>1, <2>2, <2>3
<1>3. DOMAIN caller = Fields
  BY DEF Well
<1>4. into[1] \in {"row", "whole", "sample", "buffer", "refreshed"}
  BY <1>1 DEF ReturnsTo
<1> HIDE DEF into, out
<1>5. SameButAnswer(c, caller)
  <2>1. CASE into[1] = "row"
    <3>1. c = [caller EXCEPT !.out[into[2]] = out[1]]
      BY <2>1 DEF Stored
    <3> HIDE DEF c
    <3> QED BY <1>3, <3>1 DEF SameButAnswer, Fields
  <2>2. CASE into[1] = "whole"
    <3>1. c = [caller EXCEPT !.out[into[2]] = out]
      BY <2>2 DEF Stored
    <3> HIDE DEF c
    <3> QED BY <1>3, <3>1 DEF SameButAnswer, Fields
  <2>3. CASE into[1] = "sample"
    <3>1. c = [caller EXCEPT !.local[into[2]] = out[1][into[3]]]
      BY <2>3 DEF Stored
    <3> HIDE DEF c
    <3> QED BY <1>3, <3>1 DEF SameButAnswer, Fields
  <2>4. CASE into[1] \in {"buffer", "refreshed"}
    <3>1. c = caller
      BY <2>4 DEF Stored
    <3> QED BY <3>1 DEF SameButAnswer
  <2> QED BY <1>4, <2>1, <2>2, <2>3, <2>4
<1> HIDE DEF c
<1>6. Well(c) /\ Cleared(c) /\ SameCall(c, caller) /\ (Flag(c) <=> Flag(caller))
  BY <1>2, <1>5, AnswerAside
<1> QED BY <1>6 DEF c, into, out

\* The buffers of a finite difference get values of what it wraps.
LEMMA BufferedSized ==
  ASSUME Sized, NEW caller, NEW fr, Well(fr), Within(caller, fr),
         buffers' = Buffered(caller.f, fr.into, fr.out)
  PROVE  Sized'
<1> DEFINE f == caller.f
           into == fr.into
           v == fr.out[1]
<1>1. ReturnsTo(f, fr.f, fr.what, into)
  BY DEF Within, Calls
<1>2. CASE into[1] \in {"row", "whole"}
  <2>1. buffers' = buffers
    BY <1>2 DEF Buffered
  <2> QED BY <2>1 DEF Sized
<1>3. CASE /\ f \in Decorated /\ fr.f = Adaptee[f] /\ fr.what = "value"
           /\ \/ into \in {<<"buffer", "result">>, <<"buffer", "resultEps">>}
              \/ into[1] = "sample"
  <2>1. Vec(v, Outputs[f])
    <3>1. fr.f \in Given /\ Outputs[fr.f] = Outputs[f]
      BY <1>3, FunctionsAssumption DEF Decorated
    <3> QED BY <1>3, <3>1 DEF Well
  <2>2. f \in DOMAIN buffers /\ SizedBuffers(f, buffers[f])
    BY <1>3 DEF Sized
  <2>3. \E y \in {"result", "resultEps", "tmpResult"} : buffers' = [buffers EXCEPT ![f][y] = v]
    <3>1. CASE into = <<"buffer", "result">>
      <4>1. into[1] = "buffer" /\ into[2] = "result"
        BY <3>1
      <4> HIDE DEF v, into
      <4>2. buffers' = [buffers EXCEPT ![f]["result"] = v]
        BY <4>1 DEF Buffered, v, into
      <4> QED BY <4>2
    <3>2. CASE into = <<"buffer", "resultEps">>
      <4>1. into[1] = "buffer" /\ into[2] = "resultEps"
        BY <3>2
      <4> HIDE DEF v, into
      <4>2. buffers' = [buffers EXCEPT ![f]["resultEps"] = v]
        BY <4>1 DEF Buffered, v, into
      <4> QED BY <4>2
    <3>3. CASE into[1] = "sample"
      <4>1. buffers' = [buffers EXCEPT ![f]["tmpResult"] = v]
        BY <3>3 DEF Buffered
      <4> QED BY <4>1
    <3> QED BY <1>3, <3>1, <3>2, <3>3
  <2> HIDE DEF f, v
  <2>4. DOMAIN buffers' = DOMAIN buffers
    BY <2>3
  <2>5. ASSUME NEW g \in Decorated PROVE SizedBuffers(g, buffers'[g])
    <3>1. g \in DOMAIN buffers /\ SizedBuffers(g, buffers[g])
      BY DEF Sized
    <3>2. CASE g # f
      BY <2>3, <3>1, <3>2
    <3>3. CASE g = f
      <4>1. PICK y \in {"result", "resultEps", "tmpResult"} :
                buffers' = [buffers EXCEPT ![f][y] = v]
        BY <2>3
      <4>2. buffers'[g] = [buffers[g] EXCEPT ![y] = v]
        BY <3>1, <3>3, <4>1
      <4> QED BY <2>1, <3>1, <3>3, <4>2 DEF SizedBuffers
    <3> QED BY <3>2, <3>3
  <2> QED BY <2>4, <2>5 DEF Sized
<1>4. CASE f \in Squares /\ into \in {<<"buffer", "gradient">>, <<"refreshed">>}
  <2>1. /\ DOMAIN buffers' = DOMAIN buffers
        /\ \A g \in DOMAIN buffers \ {f} : buffers'[g] = buffers[g]
    <3>1. CASE into = <<"buffer", "gradient">>
      <4>1. into[1] = "buffer"
        BY <3>1
      <4> HIDE DEF into, v
      <4>2. buffers' = [buffers EXCEPT ![f][into[2]] = v]
        BY <4>1 DEF Buffered, into, v
      <4> QED BY <4>2
    <3>2. CASE into = <<"refreshed">>
      <4>1. into[1] = "refreshed"
        BY <3>2
      <4> HIDE DEF into, v
      <4>2. buffers' = [buffers EXCEPT ![f].value = v, ![f].torn = FALSE]
        BY <4>1 DEF Buffered, into, v
      <4> QED BY <4>2
    <3> QED BY <1>4, <3>1, <3>2
  <2> QED BY <1>4, <2>1, SquaresBuffers
<1> QED BY <1>1, <1>2, <1>3, <1>4 DEF ReturnsTo

\* A call that returns restores the flag its caller had.
LEMMA ReturnIInv ==
  ASSUME IInv, Return
  PROVE  IInv'
<1> DEFINE n == Len(stack)
           caller == stack[n - 1]
           c == Stored(caller, Top.into, Top.out)
<1>1. /\ n > 1 /\ stack' = Append(SubSeq(stack, 1, n - 2), c)
      /\ buffers' = Buffered(caller.f, Top.into, Top.out)
      /\ allowed' = RestoredTo(Top)
      /\ UNCHANGED <<wanted, lost, calls, outcome>>
  BY DEF Return, User
<1>2. n \in Nat /\ stack # <<>> /\ Top = stack[n] /\ Well(Top)
  <2>1. n \in Nat /\ stack # <<>>
    BY <1>1, LenProperties, EmptySeq DEF IInv, Nesting
  <2> QED BY <2>1, TopOfStack DEF IInv
<1>3. /\ Well(caller) /\ Cleared(caller) /\ Within(caller, Top)
  <2>1. n - 1 \in 1..n /\ n - 1 \in 1..n - 1 /\ n - 1 + 1 = n
    BY <1>1, <1>2
  <2> QED BY <1>2, <2>1 DEF IInv, Nesting
<1> HIDE DEF n, caller
<1>4. Well(c) /\ Cleared(c) /\ SameCall(c, caller) /\ (Flag(c) <=> Flag(caller))
  BY <1>3, StoredAside
<1> HIDE DEF c
<1>5. Nesting' /\ stack' # <<>> /\ Top' = c /\ stack'[1].saved = stack[1].saved
  BY <1>1, <1>4, ReturnNests DEF IInv, n, caller
<1>6. Sized'
  BY <1>1, <1>2, <1>3, BufferedSized DEF IInv
<1>7. allowed' \in BOOLEAN /\ (allowed' <=> Flag(c))
  BY <1>1, <1>2, <1>3, <1>4, CalledAreGuarded DEF RestoredTo, Within, Well
<1> QED BY <1>1, <1>2, <1>5, <1>6, <1>7, CallGoesOn

\* The user sets the flag when nothing runs.
LEMMA SetAllowedIInv ==
  ASSUME IInv, NEW b \in BOOLEAN, SetAllowed(b)
  PROVE  IInv'
<1>1. /\ stack' = <<>> /\ allowed' = b /\ wanted' = b /\ lost' = FALSE
      /\ outcome' = "none" /\ UNCHANGED <<buffers, calls>>
  BY DEF SetAllowed, Idle
<1>2. Types'
  BY <1>1 DEF IInv, Types, Outcomes
<1>3. Nesting'
  <2>1. Len(<<>>) = 0 /\ <<>> \in Seq(ToSet(<<>>))
    OBVIOUS
  <2> QED BY <1>1, <2>1 DEF Nesting
<1>4. FlagFollows' /\ AllocationsAreAllowed'
  BY <1>1 DEF FlagFollows, AllocationsAreAllowed
<1>5. Sized'
  BY <1>1 DEF IInv, Sized
<1> QED BY <1>2, <1>3, <1>4, <1>5 DEF IInv

\* The user calls a member, or has its answer's allocation refused.
LEMMA CallIInv ==
  ASSUME IInv, NEW f \in Functions, NEW what \in Members(f), NEW k \in Numbers(f, what),
         NEW x \in Points[f], NEW fresh \in BOOLEAN, Call(f, what, k, x, fresh)
  PROVE  IInv'
<1>1. /\ stack = <<>> /\ outcome \notin Stopped /\ calls < MaxCalls
      /\ calls' = calls + 1 /\ UNCHANGED <<wanted, lost, buffers>>
      /\ allowed \in BOOLEAN /\ (allowed <=> wanted /\ ~lost)
  BY DEF Call, Idle, IInv, Types, FlagFollows
<1>2. calls' \in 0..MaxCalls
  BY <1>1, BoundAssumption DEF IInv, Types
<1>3. Sized'
  BY <1>1 DEF IInv, Sized
<1>4. CASE fresh /\ ~allowed
  <2>1. stack' = <<>> /\ allowed' = allowed /\ outcome' = "refused"
    BY <1>1, <1>4 DEF Call
  <2>2. Types'
    BY <1>1, <1>2, <2>1 DEF IInv, Types, Outcomes, Stopped
  <2>3. Nesting'
    <3>1. Len(<<>>) = 0 /\ <<>> \in Seq(ToSet(<<>>))
      OBVIOUS
    <3> QED BY <2>1, <3>1 DEF Nesting
  <2>4. FlagFollows' /\ AllocationsAreAllowed'
    BY <1>1, <1>4, <2>1 DEF FlagFollows, AllocationsAreAllowed, Stopped
  <2> QED BY <1>3, <2>2, <2>3, <2>4 DEF IInv
<1>5. CASE ~(fresh /\ ~allowed)
  <2> DEFINE fr == Frame(f, what, k, x, <<"user">>)
  <2>1. /\ outcome' = "running" /\ stack' = <<fr>>
        /\ allowed' = IF what \in Unguarded THEN allowed ELSE FALSE
    BY <1>5 DEF Call
  <2>2. k \in Nat
    <3>1. Outputs[f] \in Nat
      BY FunctionsAssumption
    <3>2. Numbers(f, what) \in {1..Outputs[f], 1..2, {0}}
      BY DEF Numbers
    <3>3. 1..Outputs[f] \subseteq Nat /\ 1..2 \subseteq Nat
      BY <3>1
    <3>4. {0} \subseteq Nat
      OBVIOUS
    <3>5. Numbers(f, what) \subseteq Nat
      BY <3>2, <3>3, <3>4
    <3> QED BY <3>5
  <2>3. Vec(x, Inputs[f])
    BY FunctionsAssumption DEF Vec
  <2>4. /\ Well(fr) /\ Cleared(fr) /\ fr.saved = allowed
        /\ (Flag(fr) <=> what \in Unguarded /\ allowed)
    <3>1. allowed \in BOOLEAN
      BY <1>1
    <3> QED BY <2>2, <2>3, <3>1, FrameIsWell
  <2> HIDE DEF fr
  <2>5. Types'
    BY <1>1, <1>2, <2>1 DEF IInv, Types, Outcomes
  <2>6. /\ stack' \in Seq(ToSet(stack')) /\ Len(stack') = 1 /\ stack'[1] = fr
        /\ stack' # <<>> /\ Top' = fr
    <3>1. fr \in ToSet(stack')
      BY <2>1 DEF ToSet
    <3>2. <<fr>> \in Seq(ToSet(stack')) /\ Len(<<fr>>) = 1 /\ <<fr>>[1] = fr /\ <<fr>> # <<>>
      BY <3>1
    <3>3. stack' \in Seq(ToSet(stack')) /\ Len(stack') = 1 /\ stack'[1] = fr /\ stack' # <<>>
      BY <2>1, <3>2
    <3> QED BY <3>3 DEF Top, Last
  <2>7. Nesting'
    BY <2>4, <2>6 DEF Nesting
  <2>8. FlagFollows' /\ AllocationsAreAllowed'
    BY <1>1, <2>1, <2>4, <2>6 DEF FlagFollows, AllocationsAreAllowed
  <2> QED BY <1>3, <2>5, <2>7, <2>8 DEF IInv
<1> QED BY <1>4, <1>5

\* The process starts with the flag set and nothing running.
LEMMA InitIInv == Init => IInv
<1> SUFFICES ASSUME Init PROVE IInv
  OBVIOUS
<1>1. Types
  <2>1. 0 \in 0..MaxCalls
    BY BoundAssumption
  <2>2. allowed = TRUE /\ wanted = TRUE /\ lost = FALSE /\ calls = 0 /\ stack = <<>> /\ outcome = "none"
    BY DEF Init
  <2> QED BY <2>1, <2>2 DEF Types, Outcomes
<1>2. Nesting
  <2>1. Len(<<>>) = 0 /\ <<>> \in Seq(ToSet(<<>>))
    OBVIOUS
  <2> QED BY <2>1 DEF Init, Nesting
<1>3. FlagFollows /\ AllocationsAreAllowed
  BY DEF Init, FlagFollows, AllocationsAreAllowed
<1>4. Sized
  <2>1. ASSUME NEW f \in Decorated PROVE buffers[f] = NewBuffers(f)
    BY DEF Init, Decorated, Squares
  <2> QED BY <2>1, NewBuffersSized DEF Init, Sized
<1> QED BY <1>1, <1>2, <1>3, <1>4 DEF IInv

\* Every step keeps the invariant.
LEMMA NextIInv == IInv /\ [Next]_vars => IInv'
<1> SUFFICES ASSUME IInv, [Next]_vars PROVE IInv'
  OBVIOUS
<1>1. ASSUME NEW b \in BOOLEAN, SetAllowed(b) PROVE IInv'
  BY <1>1, SetAllowedIInv
<1>2. ASSUME NEW f \in Functions \ {Checker[g] : g \in Checked}, NEW what \in Members(f),
             NEW k \in Numbers(f, what), NEW x \in Points[f], NEW fresh \in BOOLEAN,
             Call(f, what, k, x, fresh)
      PROVE  IInv'
  BY <1>2, CallIInv
<1>3. ASSUME Step PROVE IInv'
  BY <1>3, EvalIInv, ProbeIInv, EntriesIInv, AgainIInv, RefreshIInv, AllowIInv,
     AllocateIInv, RestoreIInv, RequireIInv, ComputeIInv, CompareIInv,
     ReturnToUserIInv, ReturnIInv DEF Step
<1>4. ASSUME Throw PROVE IInv'
  BY <1>4, ThrowIInv
<1>5. ASSUME UNCHANGED vars PROVE IInv'
  <2>1. Types' /\ Nesting' /\ FlagFollows' /\ AllocationsAreAllowed' /\ Sized'
    BY <1>5 DEF vars, IInv, Types, Nesting, FlagFollows, Top, AllocationsAreAllowed, Sized
  <2> QED BY <2>1 DEF IInv
<1> QED BY <1>1, <1>2, <1>3, <1>4, <1>5 DEF Next

(***************************************************************************)
(* The theorems.                                                           *)
(***************************************************************************)

\* However calls nest, return, throw or allocate, each running call has the
\* flag as its steps say and restores it as it found it.
THEOREM EvaluationInvariance == Spec => []IInv
<1>1. Init => IInv
  BY InitIInv
<1>2. IInv /\ [Next]_vars => IInv'
  BY NextIInv
<1> QED BY <1>1, <1>2, PTL DEF Spec

\* Whenever nothing runs the flag is as the user set it, or, if an exception
\* has left a guarded call since, cleared.
THEOREM FlagIsRestored == Spec => []GuardIsRestored
<1>1. IInv => GuardIsRestored
  BY DEF IInv, Types, FlagFollows, GuardIsRestored
<1> QED BY <1>1, EvaluationInvariance, PTL

\* The functions of the user run with the flag cleared, but for the members
\* that do not touch it.
THEOREM UserCodeRunsGuarded == Spec => []UserCodeIsGuarded
<1>1. IInv => UserCodeIsGuarded
  <2> SUFFICES ASSUME IInv, stack # <<>>, Top.todo # <<>>, Head(Top.todo).do = "compute",
                      Top.what \notin Unguarded
               PROVE  ~allowed
    BY DEF UserCodeIsGuarded, Doing
  <2>1. Well(Top) /\ (allowed <=> Flag(Top))
    BY StepOfTop
  <2>2. ~Open(Top.todo)
    BY <2>1, HeadOfFrame
  <2> QED BY <2>1, <2>2 DEF Flag
<1> QED BY <1>1, EvaluationInvariance, PTL

\* The library never meets the assertion of Eigen in an evaluation of its own.
THEOREM LibraryAllocatesAllowed == Spec => []AllocationsAreAllowed
<1>1. IInv => AllocationsAreAllowed
  BY DEF IInv
<1> QED BY <1>1, EvaluationInvariance, PTL

\* Each call made within another nests less deep, and three levels are all.
LEMMA NestingIsBounded ==
  ASSUME Nesting
  PROVE  Len(stack) <= 3
<1> DEFINE n == Len(stack)
           l(i) == Level(stack[i].f, stack[i].what)
<1>1. n \in Nat
  BY LenProperties DEF Nesting
<1>2. \A i \in Nat : l(i) \in {1, 2, 3}
  BY DEF Level
<1>3. \A i \in 1..n - 1 : l(i + 1) < l(i)
  BY DEF Nesting, Within, Calls
<1> HIDE DEF n, l
<1>4. SUFFICES ASSUME n > 3 PROVE FALSE
  BY <1>1 DEF n
<1>5. l(2) < l(1) /\ l(3) < l(2) /\ l(4) < l(3)
  BY <1>1, <1>3, <1>4
<1> QED BY <1>2, <1>5

\* A vector given by its entries has as many as they are.
LEMMA LenOfVec ==
  ASSUME NEW n \in Nat, NEW v, Vec(v, n)
  PROVE  Len(v) = n
<1> DEFINE S == {v[i] : i \in 1..n}
<1>1. v \in [1..n -> S]
  BY DEF Vec
<1>2. v \in Seq(S)
  BY <1>1, SeqDef
<1>3. DOMAIN v = 1..n /\ DOMAIN v = 1..Len(v) /\ Len(v) \in Nat
  BY <1>1, <1>2, LenProperties
<1> QED BY <1>3

\* Calls nest no deeper than a check, its finite differences and what they
\* wrap, and each buffer keeps the size of what it is for.
THEOREM EvaluationTypes == Spec => []TypeOK
<1>1. IInv => TypeOK
  <2> SUFFICES ASSUME IInv PROVE TypeOK
    OBVIOUS
  <2>1. Len(stack) <= 3
    BY NestingIsBounded DEF IInv
  <2>2. ASSUME NEW f \in Decorated
        PROVE  /\ Len(buffers[f].xEps) = Inputs[f]
               /\ Len(buffers[f].result) = Outputs[f]
               /\ Len(buffers[f].resultEps) = Outputs[f]
               /\ Len(buffers[f].tmpResult) = Outputs[f]
    <3>1. Inputs[f] \in Nat /\ Outputs[f] \in Nat
      BY FunctionsAssumption DEF Decorated
    <3>2. SizedBuffers(f, buffers[f])
      BY DEF IInv, Sized
    <3> QED BY <3>1, <3>2, LenOfVec DEF SizedBuffers
  <2> QED BY <2>1, <2>2 DEF IInv, Types, TypeOK, Outcomes
<1> QED BY <1>1, EvaluationInvariance, PTL
=============================================================================
