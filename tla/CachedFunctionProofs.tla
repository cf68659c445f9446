------------------------ MODULE CachedFunctionProofs ------------------------
(***************************************************************************)
(* Theorems about CachedFunction: it answers what the wrapped function     *)
(* computes for the quantity and the point asked for, never something from *)
(* before the last reset, and every call is defined; for any points,       *)
(* hash function, outputs and sizes.                                       *)
(***************************************************************************)
EXTENDS CachedFunction, LRUCacheDataProofs

Contents == Results \cup {Blank}
SizeOf(q) == IF q = Jacobian THEN DefaultSize ELSE Size

Sound ==
  /\ version \in 0..MaxVersion /\ resetAt \in 0..version
  /\ undefined \in BOOLEAN
  /\ DOMAIN caches = DOMAIN Constructed

\* Each cache is as the constructor made it, or as calls and resets leave it.
Kept(q) ==
  /\ CacheOf(caches[q], Hash, Contents) /\ WellFormed(caches[q])
  /\ caches[q].size = SizeOf(q) /\ SizeOf(q) <= Len(caches[q].pool)

\* r is the quantity q as it was computed at a point that hashes to h,
\* between the last reset and now.
IsOf(r, q, h) ==
  /\ r \in Results /\ r.of = q /\ HashOf[r.at] = h
  /\ resetAt <= r.version /\ r.version <= version

HoldsItsOwn(q) ==
  \A h \in Mapped(caches[q]) : IsOf(ValueAt(caches[q], h), q, h)

Answers ==
  [query : Queries, at : Points, value : Results, now : 0..version, since : 0..version]
AnswerIsRight ==
  answer # None =>
    /\ answer \in Answers
    /\ answer.value.of = answer.query
    /\ HashOf[answer.value.at] = HashOf[answer.at]
    /\ answer.value.version >= answer.since
    /\ answer.query \in Hessians => answer.value.version = answer.now

IInv ==
  /\ Sound
  /\ \A q \in DOMAIN caches : Kept(q) /\ HoldsItsOwn(q)
  /\ AnswerIsRight
  /\ CallsAreDefined

\* An answer stays what it was when the function changes.
LEMMA AnswerKept ==
  ASSUME AnswerIsRight, version \in Nat, version' \in Nat, version <= version',
         answer' \in {None, answer}
  PROVE  AnswerIsRight'
<1>1. 0..version \subseteq 0..version'
  OBVIOUS
<1>2. Answers \subseteq Answers'
  <2>1. 0..version' = (0..version)'
    OBVIOUS
  <2> QED BY <1>1, <2>1 DEF Answers
<1> HIDE DEF Answers
<1> QED BY <1>2 DEF AnswerIsRight

\* An answer of the quantity asked for, as it is computed now or cached since
\* the last reset.
LEMMA AnsweredIsRight ==
  ASSUME IInv, NEW q \in Queries, NEW x \in Points, NEW r, IsOf(r, q, HashOf[x]),
         q \in Hessians => r.version = version,
         answer' = Answered(q, x, r), UNCHANGED version
  PROVE  AnswerIsRight'
<1> DEFINE a == Answered(q, x, r)
<1>1. r \in Results /\ r.of = q /\ HashOf[r.at] = HashOf[x] /\ r.version >= resetAt
  <2>1. r \in Results /\ r.of = q /\ HashOf[r.at] = HashOf[x] /\ resetAt <= r.version
    BY DEF IsOf
  <2>2. r.version \in Nat /\ resetAt \in Nat
    BY <2>1, BoundAssumption DEF Results, IInv, Sound
  <2> QED BY <2>1, <2>2
<1>2. version \in 0..version /\ resetAt \in 0..version
  BY BoundAssumption DEF IInv, Sound
<1>3. a \in Answers
  BY <1>1, <1>2 DEF Answers, Answered
<1>4. /\ a.query = q /\ a.at = x /\ a.value = r /\ a.now = version /\ a.since = resetAt
  BY DEF Answered
<1> HIDE DEF a
<1>5. answer' = a /\ Answers' = Answers
  BY DEF a, Answers
<1> QED BY <1>1, <1>3, <1>4, <1>5 DEF AnswerIsRight

\* Every quantity the class of T offers has a cache, unless T is a plain
\* function.
LEMMA OfferedHasACache ==
  ASSUME DerivativeSize > 0, NEW q \in Queries
  PROVE  q \in DOMAIN Constructed
<1>1. /\ q \in Offered
      /\ DOMAIN Constructed = Gradients \cup Hessians \cup {Jacobian} \cup {Value}
  BY SizeAssumption, QueriesAssumption DEF Constructed
<1>2. Offered \subseteq Gradients \cup Hessians \cup {Jacobian} \cup {Value}
  BY DEF Offered
<1> QED BY <1>1, <1>2

\* The constructor makes empty caches, which hold nothing wrong.
LEMMA InitIInv == Init => IInv
<1> SUFFICES ASSUME Init PROVE IInv
  OBVIOUS
<1>1. Sound
  <2>1. version = 0 /\ resetAt = 0
    BY DEF Init
  <2>2. version \in 0..MaxVersion /\ resetAt \in 0..version
    BY <2>1, BoundAssumption
  <2>3. undefined \in BOOLEAN
    BY Zenon DEF Init
  <2>4. DOMAIN caches = DOMAIN Constructed
    BY Zenon DEF Init
  <2> QED BY Zenon, <2>2, <2>3, <2>4 DEF Sound
<1>2. ASSUME NEW q \in DOMAIN caches PROVE Kept(q) /\ HoldsItsOwn(q)
  <2>1. SizeOf(q) \in Nat /\ caches[q] = New(SizeOf(q))
    <3> DEFINE D == Gradients \cup Hessians \cup {Jacobian}
                      \cup (IF DerivativeSize >= 1 THEN {Value} ELSE {})
    <3>1. Constructed = [p \in D |-> New(SizeOf(p))]
      BY DEF Constructed, SizeOf
    <3> HIDE DEF D
    <3>2. caches[q] = New(SizeOf(q))
      BY <1>2, <3>1 DEF Init
    <3> QED BY <3>2, SizeAssumption DEF SizeOf, DefaultSize
  <2>2. CacheOf(caches[q], Hash, Contents) /\ WellFormed(caches[q])
    BY <2>1, NewCache DEF Contents
  <2>3. /\ caches[q].size = SizeOf(q)
        /\ caches[q].pool = [s \in 1..SizeOf(q) |-> Blank]
        /\ Mapped(caches[q]) = {}
    BY <2>1 DEF New, Cache, Mapped, NoEntries
  <2>4. SizeOf(q) <= Len(caches[q].pool)
    <3> DEFINE n == SizeOf(q)
    <3>1. Len(caches[q].pool) \in Nat /\ DOMAIN caches[q].pool = 1..Len(caches[q].pool)
      BY <2>2, CacheFields
    <3>2. DOMAIN caches[q].pool = 1..n
      BY <2>3
    <3> HIDE DEF n
    <3>3. n \in Nat /\ (n = 0 \/ n \in 1..n)
      BY <2>1 DEF n
    <3>4. n <= Len(caches[q].pool)
      BY <3>1, <3>2, <3>3
    <3> QED BY <3>4 DEF n
  <2> QED BY <2>2, <2>3, <2>4 DEF Kept, HoldsItsOwn
<1>3. AnswerIsRight /\ CallsAreDefined
  BY DEF Init, AnswerIsRight, CallsAreDefined
<1> QED BY <1>1, <1>2, <1>3 DEF IInv

\* A hit hands out what the cache holds, and changes nothing else.
LEMMA ServeIInv ==
  ASSUME IInv, NEW q \in Queries, NEW x \in Points, q \in DOMAIN caches, Serve(q, x)
  PROVE  IInv'
<1> DEFINE r == ValueAt(caches[q], HashOf[x])
<1>1. /\ q \notin Hessians /\ HashOf[x] \in Mapped(caches[q])
      /\ answer' = [query |-> q, at |-> x, value |-> r, now |-> version, since |-> resetAt]
      /\ UNCHANGED <<caches, version, undefined, resetAt>>
  BY DEF Serve, Hit, Cached, Answered
<1>2. IsOf(r, q, HashOf[x])
  BY <1>1 DEF IInv, HoldsItsOwn
<1> HIDE DEF r
<1>3. AnswerIsRight'
  BY <1>1, <1>2, AnsweredIsRight DEF Answered
<1>4. Sound' /\ CallsAreDefined'
  BY <1>1 DEF IInv, Sound, CallsAreDefined
<1>5. ASSUME NEW p \in DOMAIN caches' PROVE Kept(p)' /\ HoldsItsOwn(p)'
  BY <1>1, <1>5 DEF IInv, Kept, HoldsItsOwn, IsOf
<1> QED BY <1>3, <1>4, <1>5 DEF IInv

\* A miss computes, and stores what it answers under the hash of its point.
LEMMA ComputeIInv ==
  ASSUME IInv, NEW q \in Queries, NEW x \in Points, q \in DOMAIN caches,
         ~undefined, ComputeAndStore(q, x)
  PROVE  IInv'
<1> DEFINE c == caches[q]
           h == HashOf[x]
           r == Compute(q, x)
<1>1. /\ h \in Hash /\ CacheOf(c, Hash, Contents) /\ WellFormed(c)
      /\ c.size = SizeOf(q) /\ c.size <= Len(c.pool) /\ c.size \in Nat
  BY HashAssumption, CacheFields DEF IInv, Kept
<1>2. UNCHANGED <<version, resetAt>> /\ undefined' = ReserveUndefined(c, h)
  BY DEF ComputeAndStore
<1>3. r \in Results /\ IsOf(r, q, h) /\ r.of = q /\ r.at = x /\ r.version = version
  BY QueriesAssumption DEF Compute, Results, IsOf, IInv, Sound
<1> HIDE DEF c, h, r
<1>4. CallsAreDefined'
  <2> SUFFICES ASSUME Size > 0, DerivativeSize > 0 PROVE ~ReserveUndefined(c, h)
    BY <1>2 DEF CallsAreDefined
  <2>1. SizeOf(q) > 0
    BY DEF SizeOf, DefaultSize
  <2> QED BY <1>1, <2>1, ReserveIsDefined
<1>5. CASE ReserveUndefined(c, h)
  <2>1. UNCHANGED <<caches, answer>> /\ undefined' = TRUE
    BY <1>2, <1>5 DEF ComputeAndStore
  <2>2. Sound' /\ AnswerIsRight'
    <3>1. version \in Nat /\ version' = version
      BY <1>2, BoundAssumption DEF IInv, Sound
    <3> QED BY <1>2, <2>1, <3>1, AnswerKept DEF IInv, Sound
  <2>3. ASSUME NEW p \in DOMAIN caches' PROVE Kept(p)' /\ HoldsItsOwn(p)'
    BY <1>2, <2>1, <2>3 DEF IInv, Kept, HoldsItsOwn, IsOf
  <2> QED BY <1>4, <2>2, <2>3 DEF IInv
<1>6. CASE ~ReserveUndefined(c, h)
  <2> DEFINE d == Store(c, h, r)
  <2>1. /\ caches' = [caches EXCEPT ![q] = d]
        /\ answer' = [query |-> q, at |-> x, value |-> r, now |-> version,
                      since |-> resetAt]
        /\ undefined' = FALSE
    BY <1>2, <1>6 DEF ComputeAndStore, Answered, c, h, r
  <2>2. r \in Contents
    BY <1>3 DEF Contents
  <2>3. c.size > 0
    BY <1>1, <1>6, ReserveNeedsRoom
  <2>4. /\ CacheOf(d, Hash, Contents) /\ WellFormed(d) /\ ValueAt(d, h) = r
        /\ \A g \in Mapped(d) \ {h} : ValueAt(d, g) = ValueAt(c, g)
    BY <1>1, <2>2, <2>3, StoredValues
  <2>5. d.size = c.size /\ Len(d.pool) = Len(c.pool)
    BY <1>1, <1>6, <2>2, StoredCache
  <2>6. \A g \in Mapped(d) \ {h} : g \in Mapped(c)
    <3>1. Mapped(d) = Mapped(Reserve(c, h))
      BY DEF Store, Assign, Cache, Mapped
    <3> QED BY <1>1, <1>6, <3>1, ReservedCache
  <2> HIDE DEF d
  <2>7. Sound' /\ AnswerIsRight'
    <3>1. DOMAIN caches' = DOMAIN caches
      BY <2>1
    <3>2. Sound'
      BY <1>2, <2>1, <3>1 DEF IInv, Sound
    <3>3. AnswerIsRight'
      BY <1>2, <1>3, <2>1, AnsweredIsRight DEF Answered, h
    <3> QED BY <3>2, <3>3
  <2>8. ASSUME NEW p \in DOMAIN caches' PROVE Kept(p)' /\ HoldsItsOwn(p)'
    <3>1. CASE p # q
      <4>1. p \in DOMAIN caches /\ caches'[p] = caches[p]
        BY <2>1, <2>8, <3>1
      <4> QED BY <1>2, <4>1 DEF IInv, Kept, HoldsItsOwn, IsOf
    <3>2. CASE p = q
      <4>1. caches'[p] = d
        BY <2>1, <3>2
      <4>2. Kept(p)'
        BY <1>1, <2>4, <2>5, <3>2, <4>1 DEF Kept
      <4>3. \A g \in Mapped(c) : IsOf(ValueAt(c, g), q, g)
        BY DEF IInv, HoldsItsOwn, c
      <4>4. \A g \in Mapped(d) : IsOf(ValueAt(d, g), q, g)
        BY <1>3, <2>4, <2>6, <4>3
      <4>5. HoldsItsOwn(p)'
        BY <1>2, <3>2, <4>1, <4>4 DEF HoldsItsOwn, IsOf
      <4> QED BY <4>2, <4>5
    <3> QED BY <3>1, <3>2
  <2> QED BY <1>4, <2>7, <2>8 DEF IInv
<1> QED BY <1>5, <1>6

\* An exception of the wrapped function, or a call without a cache.
LEMMA NothingStoredIInv ==
  ASSUME IInv, NEW q \in Queries, NEW x \in Points,
         \/ ComputeAndThrow(q, x)
         \/ /\ q \notin DOMAIN caches /\ undefined' = TRUE
            /\ UNCHANGED <<caches, version, answer, resetAt>>
  PROVE  IInv'
<1>1. UNCHANGED <<caches, version, resetAt>> /\ answer' \in {None, answer}
  BY DEF ComputeAndThrow
<1>2. undefined' \in BOOLEAN
  BY DEF ComputeAndThrow, IInv, Sound
<1>3. CallsAreDefined'
  <2>1. DerivativeSize > 0 => q \in DOMAIN caches
    BY OfferedHasACache DEF IInv, Sound
  <2> QED BY <2>1 DEF ComputeAndThrow, CallsAreDefined, IInv
<1>4. Sound' /\ AnswerIsRight'
  <2>1. version \in Nat /\ version' = version
    BY <1>1, BoundAssumption DEF IInv, Sound
  <2> QED BY <1>1, <1>2, <2>1, AnswerKept DEF IInv, Sound
<1>5. ASSUME NEW p \in DOMAIN caches' PROVE Kept(p)' /\ HoldsItsOwn(p)'
  BY <1>1, <1>5 DEF IInv, Kept, HoldsItsOwn, IsOf
<1> QED BY <1>3, <1>4, <1>5 DEF IInv

\* reset empties every cache and keeps its size and its pool.
LEMMA ResetIInv ==
  ASSUME IInv, Reset
  PROVE  IInv'
<1>1. /\ caches' = [q \in DOMAIN caches |-> Cleared(caches[q])]
      /\ resetAt' = version /\ UNCHANGED <<version, answer, undefined>>
  BY DEF Reset
<1>2. Sound' /\ AnswerIsRight' /\ CallsAreDefined'
  <2>1. version \in Nat /\ version' = version
    BY <1>1, BoundAssumption DEF IInv, Sound
  <2>2. Sound' /\ CallsAreDefined'
    BY <1>1, <2>1 DEF IInv, Sound, CallsAreDefined
  <2> QED BY <1>1, <2>1, <2>2, AnswerKept DEF IInv
<1>3. ASSUME NEW q \in DOMAIN caches' PROVE Kept(q)' /\ HoldsItsOwn(q)'
  <2>1. q \in DOMAIN caches /\ caches'[q] = Cleared(caches[q])
    BY <1>1, <1>3
  <2>2. CacheOf(caches'[q], Hash, Contents) /\ WellFormed(caches'[q])
    BY <2>1, ClearedCache DEF IInv, Kept
  <2>3. /\ caches'[q].size = caches[q].size /\ caches'[q].pool = caches[q].pool
        /\ Mapped(caches'[q]) = {}
    BY <2>1 DEF Cleared, Cache, Mapped, NoEntries
  <2> QED BY <2>1, <2>2, <2>3 DEF IInv, Kept, HoldsItsOwn
<1> QED BY <1>2, <1>3 DEF IInv

\* What is cached stays as recent as the last reset when the function changes.
LEMMA ChangeIInv ==
  ASSUME IInv, Change
  PROVE  IInv'
<1>1. /\ version' = version + 1 /\ UNCHANGED <<caches, answer, undefined, resetAt>>
  BY DEF Change
<1>2. Sound' /\ AnswerIsRight' /\ CallsAreDefined'
  <2>1. version \in Nat /\ version + 1 \in 0..MaxVersion
    BY <1>1, BoundAssumption DEF IInv, Sound, Change
  <2>2. Sound' /\ CallsAreDefined'
    BY <1>1, <2>1 DEF IInv, Sound, CallsAreDefined
  <2> QED BY <1>1, <2>1, <2>2, AnswerKept DEF IInv
<1>3. ASSUME NEW q \in DOMAIN caches' PROVE Kept(q)' /\ HoldsItsOwn(q)'
  <2>1. q \in DOMAIN caches
    BY <1>1, <1>3
  <2>2. Kept(q)'
    BY <1>1, <2>1 DEF IInv, Kept
  <2>3. ASSUME NEW h \in Mapped(caches[q])
        PROVE  IsOf(ValueAt(caches[q], h), q, h)'
    <3>1. IsOf(ValueAt(caches[q], h), q, h)
      BY <2>1 DEF IInv, HoldsItsOwn
    <3> QED BY <1>1, <3>1 DEF IsOf, IInv, Sound, Results, ValueAt
  <2> QED BY <1>1, <2>2, <2>3 DEF HoldsItsOwn
<1> QED BY <1>2, <1>3 DEF IInv

\* The invariant is inductive.
LEMMA NextIInv == IInv /\ [Next]_vars => IInv'
<1> SUFFICES ASSUME IInv, [Next]_vars PROVE IInv'
  OBVIOUS
<1>1. ASSUME NEW q \in Queries, NEW x \in Points, Call(q, x) PROVE IInv'
  BY <1>1, ServeIInv, ComputeIInv, NothingStoredIInv DEF Call
<1>2. CASE Reset
  BY <1>2, ResetIInv
<1>3. CASE Change
  BY <1>3, ChangeIInv
<1>4. CASE UNCHANGED vars
  BY <1>4 DEF vars, IInv, Sound, Kept, HoldsItsOwn, IsOf, AnswerIsRight, Answers, CallsAreDefined
<1> QED BY <1>1, <1>2, <1>3, <1>4 DEF Next

\* The inductive invariant: each cache is well formed, as large as it was
\* made, and holds under every hash what was computed there since the reset.
THEOREM CachedInvariance == Spec => []IInv
BY InitIInv, NextIInv, PTL DEF Spec

\* If the hash tells the points apart, as nothing else does, every answer is
\* of the quantity and the point asked for, however often slots are recycled.
THEOREM ExactAnswers ==
  ASSUME \A x, y \in Points : HashOf[x] = HashOf[y] => x = y
  PROVE  Spec => []AnswersAreExact
<1>1. IInv => AnswersAreExact
  <2>1. \A a \in Answers : a.at \in Points /\ a.value.at \in Points
    BY DEF Answers, Results
  <2> QED BY <2>1 DEF IInv, AnswerIsRight, AnswersAreExact
<1> QED BY <1>1, CachedInvariance, PTL

\* No answer predates the last reset, and a hessian is never out of date.
THEOREM ForgottenAnswers == Spec => []ResetForgets
<1>1. IInv => ResetForgets
  BY DEF IInv, AnswerIsRight, ResetForgets
<1> QED BY <1>1, CachedInvariance, PTL

\* Whatever T offers can be asked for, in any order and any number of times,
\* if the caches can hold an entry and T is not a plain function.
THEOREM DefinedCalls == Spec => []CallsAreDefined
<1>1. IInv => CallsAreDefined
  BY DEF IInv
<1> QED BY <1>1, CachedInvariance, PTL

(***************************************************************************)
(* What was computed last is cached.                                       *)
(***************************************************************************)

Typed(histories) ==
  /\ histories \in [Queries -> Seq(Points)]
  /\ \A q \in Queries : Len(histories[q]) <= Size
Histories == Typed(computed) /\ Typed(used)

\* As many hashes were used since a point was computed as there are points
\* that were computed after it, or fewer: a hit uses none.
ComputedIsTracked ==
  \A q \in Queries : \A i \in 1..Len(computed[q]) :
    /\ q \in DOMAIN caches
    /\ UsedSince(caches[q], HashOf[computed[q][i]], Len(computed[q]) - i)

\* How the last points computed are counted from the last: those that were
\* before x, if it was among them, stay where they were.
LEMMA RecentElements ==
  ASSUME NEW s \in Seq(Points), Len(s) <= Size, NEW x \in Points
  PROVE  LET t == Recent(s, x)
         IN /\ t \in Seq(Points) /\ Len(t) <= Size
            /\ \E m \in 0..Len(s) :
                 /\ m > 0 => s[m] = x
                 /\ \A j \in 1..Len(t) :
                      \/ t[j] = x
                      \/ \E i \in 1..Len(s) :
                           /\ s[i] = t[j] /\ i # m
                           /\ i < m => Len(t) - j = Len(s) - i
                           /\ i > m => Len(t) - j = Len(s) - i + 1
<1> DEFINE l == Len(s)
           r == RemoveFirst(s, x)
           a == Append(r, x)
           k == Len(a)
           t == Recent(s, x)
<1>1. l \in Nat /\ Size \in Nat /\ l <= Size
  BY LenProperties, SizeAssumption
<1>2. \E m \in 0..l :
        /\ m > 0 => s[m] = x
        /\ a \in Seq(Points) /\ k = (IF m > 0 THEN l ELSE l + 1) /\ a[k] = x
        /\ \A j \in 1..k - 1 : a[j] = IF m > 0 /\ j >= m THEN s[j + 1] ELSE s[j]
  <2>1. CASE x \in ToSet(s)
    <3>1. PICK m \in 1..l : s[m] = x /\ r = RemoveAt(s, m)
      BY <2>1, RemoveFirstIsRemoveAt
    <3>2. /\ r \in Seq(Points) /\ Len(r) = l - 1
          /\ \A j \in 1..l - 1 : r[j] = IF j < m THEN s[j] ELSE s[j + 1]
      BY <3>1, RemoveAtProperties
    <3> HIDE DEF r
    <3>3. /\ a \in Seq(Points) /\ k = Len(r) + 1 /\ a[Len(r) + 1] = x
          /\ \A j \in 1..Len(r) : a[j] = r[j]
      BY <3>2, AppendProperties
    <3> HIDE DEF a, k, l
    <3>4. m \in 0..l /\ m > 0 /\ k = l
      BY <1>1, <3>1, <3>2, <3>3
    <3>5. ASSUME NEW j \in 1..k - 1 PROVE a[j] = IF m > 0 /\ j >= m THEN s[j + 1] ELSE s[j]
      BY <1>1, <3>1, <3>2, <3>3, <3>4
    <3> QED BY <3>1, <3>2, <3>3, <3>4, <3>5
  <2>2. CASE x \notin ToSet(s)
    <3>1. r = s
      BY <2>2, LenProperties DEF RemoveFirst, ToSet
    <3>2. /\ a \in Seq(Points) /\ k = l + 1 /\ a[l + 1] = x /\ \A j \in 1..l : a[j] = s[j]
      BY <3>1, AppendProperties
    <3> HIDE DEF a, k, l
    <3>3. 0 \in 0..l /\ k - 1 = l
      BY <1>1, <3>2
    <3> QED BY <3>2, <3>3
  <2> QED BY <2>1, <2>2
<1>3. t = IF k > Size THEN Tail(a) ELSE a
  BY DEF Recent
<1> HIDE DEF a, t, r
<1>4. PICK m \in 0..l :
        /\ m > 0 => s[m] = x
        /\ a \in Seq(Points) /\ k = (IF m > 0 THEN l ELSE l + 1) /\ a[k] = x
        /\ \A j \in 1..k - 1 : a[j] = IF m > 0 /\ j >= m THEN s[j + 1] ELSE s[j]
  BY <1>2
<1>5. PICK d \in {0, 1} :
        /\ t \in Seq(Points) /\ Len(t) = k - d /\ Len(t) <= Size
        /\ \A j \in 1..Len(t) : j + d \in 1..k /\ t[j] = a[j + d]
  <2>1. CASE k > Size
    <3>1. t = Tail(a) /\ a # <<>> /\ k \in Nat /\ k > 0
      BY <1>1, <1>3, <1>4, <2>1, EmptySeq
    <3>2. /\ t \in Seq(Points) /\ Len(t) = k - 1
          /\ \A j \in 1..k - 1 : t[j] = a[j + 1]
      BY <1>4, <3>1, HeadTailProperties
    <3> HIDE DEF k
    <3>3. k - 1 <= Size /\ \A j \in 1..k - 1 : j + 1 \in 1..k
      BY <1>1, <1>4, <3>1
    <3> QED BY <3>2, <3>3
  <2>2. CASE ~(k > Size)
    <3>1. t = a
      BY <1>3, <2>2
    <3>2. k \in Nat
      BY <1>1, <1>4
    <3> QED BY <1>1, <1>4, <2>2, <3>1, <3>2
  <2> QED BY <2>1, <2>2
<1> HIDE DEF k, l
<1>6. ASSUME NEW j \in 1..Len(t)
      PROVE  \/ t[j] = x
             \/ \E i \in 1..l :
                  /\ s[i] = t[j] /\ i # m
                  /\ i < m => Len(t) - j = l - i
                  /\ i > m => Len(t) - j = l - i + 1
  <2>1. k \in Nat /\ j + d \in 1..k /\ t[j] = a[j + d] /\ Len(t) - j = k - (j + d)
    <3>1. k \in Nat
      BY <1>1, <1>4
    <3>2. j + d \in 1..k /\ t[j] = a[j + d] /\ Len(t) = k - d /\ d \in Int
      BY <1>5
    <3>3. j \in Int
      BY <3>1, <3>2
    <3>4. k - d - j = k - (j + d)
      BY <3>1, <3>2, <3>3
    <3> QED BY <3>1, <3>2, <3>4
  <2>2. CASE j + d = k
    BY <1>4, <2>1, <2>2
  <2>3. CASE j + d # k
    <3> DEFINE e == j + d
    <3>1. e \in 1..k - 1 /\ t[j] = a[e] /\ Len(t) - j = k - e
      BY <2>1, <2>3
    <3> HIDE DEF e
    <3>2. CASE m > 0 /\ e >= m
      <4>1. e + 1 \in 1..l /\ e + 1 > m /\ k - e = l - (e + 1) + 1
        BY <1>1, <1>4, <3>1, <3>2
      <4>2. s[e + 1] = t[j]
        BY <1>4, <3>1, <3>2
      <4> QED BY <3>1, <4>1, <4>2
    <3>3. CASE m > 0 /\ e < m
      <4>1. e \in 1..l /\ k - e = l - e
        BY <1>1, <1>4, <3>1, <3>3
      <4>2. s[e] = t[j]
        BY <1>4, <3>1, <3>3
      <4> QED BY <3>1, <3>3, <4>1, <4>2
    <3>4. CASE m = 0
      <4>1. e \in 1..l /\ e > m /\ k - e = l - e + 1
        BY <1>1, <1>4, <3>1, <3>4
      <4>2. s[e] = t[j]
        BY <1>4, <3>1, <3>4
      <4> QED BY <3>1, <4>1, <4>2
    <3>5. m \in Nat /\ e \in Nat
      BY <1>1, <1>4, <2>1, <3>1
    <3>6. (m > 0 /\ e >= m) \/ (m > 0 /\ e < m) \/ m = 0
      BY <3>5
    <3> QED BY <3>2, <3>3, <3>4, <3>6
  <2> QED BY <2>2, <2>3
<1> QED BY <1>4, <1>5, <1>6 DEF t, l

\* Histories keep their types, whatever is asked for.
LEMMA HistoryTyped ==
  ASSUME NEW h, Typed(h), NEW q \in Queries, NEW x \in Points
  PROVE  Typed([h EXCEPT ![q] = Recent(@, x)])
<1>1. h[q] \in Seq(Points) /\ Len(h[q]) <= Size
  BY DEF Typed
<1>2. Recent(h[q], x) \in Seq(Points) /\ Len(Recent(h[q], x)) <= Size
  BY <1>1, RecentElements
<1> QED BY <1>2 DEF Typed

\* So they do in every step.
LEMMA NextHistories == Histories /\ [Next]_vars => Histories'
<1> SUFFICES ASSUME Histories, [Next]_vars PROVE Histories'
  OBVIOUS
<1>1. ASSUME NEW q \in Queries, NEW x \in Points, Call(q, x) PROVE Histories'
  <2>1. /\ computed' \in {computed, [computed EXCEPT ![q] = Recent(@, x)]}
        /\ used' \in {used, [used EXCEPT ![q] = Recent(@, x)]}
    BY <1>1 DEF Call, Serve, ComputeAndStore, ComputeAndThrow
  <2>2. Typed(computed') /\ Typed(used')
    BY <2>1, HistoryTyped DEF Histories
  <2> QED BY <2>2 DEF Histories, Typed
<1>2. CASE Reset
  <2>1. Len(<<>>) = 0 /\ <<>> \in Seq(Points) /\ 0 <= Size
    BY SizeAssumption
  <2> QED BY <1>2, <2>1 DEF Reset, Histories, Typed
<1>3. CASE Change \/ UNCHANGED vars
  BY <1>3 DEF Change, vars, Histories, Typed
<1> QED BY <1>1, <1>2, <1>3 DEF Next

\* A miss puts the point before all others computed, in the cache as in the
\* history; the one evicted is one that the history forgets.
LEMMA ComputeIsTracked ==
  ASSUME Size <= DefaultSize \/ Jacobian \notin Queries,
         IInv, Histories, ComputedIsTracked,
         NEW q \in Queries, NEW x \in Points, q \in DOMAIN caches,
         ComputeAndStore(q, x)
  PROVE  ComputedIsTracked'
<1> DEFINE c == caches[q]
           h == HashOf[x]
           r == Compute(q, x)
           s == computed[q]
<1>1. /\ h \in Hash /\ CacheOf(c, Hash, Contents) /\ WellFormed(c)
      /\ c.size = SizeOf(q) /\ c.size <= Len(c.pool) /\ c.size \in Nat
  BY HashAssumption, CacheFields DEF IInv, Kept
<1>2. r \in Contents
  BY QueriesAssumption DEF Compute, Results, Contents, IInv, Sound
<1>3. s \in Seq(Points) /\ Len(s) <= Size /\ Size \in Nat /\ Len(s) \in Nat
  BY SizeAssumption, LenProperties DEF Histories, Typed
<1>4. Size <= c.size
  BY <1>1 DEF SizeOf
<1>5. \A i \in 1..Len(s) : UsedSince(c, HashOf[s[i]], Len(s) - i)
  BY DEF ComputedIsTracked
<1>6. undefined' = ReserveUndefined(c, h)
  BY DEF ComputeAndStore
<1>7. CASE ReserveUndefined(c, h)
  <2>1. UNCHANGED <<caches, computed>>
    BY <1>6, <1>7 DEF ComputeAndStore
  <2> QED BY <2>1 DEF ComputedIsTracked
<1>8. CASE ~ReserveUndefined(c, h)
  <2> DEFINE d == Store(c, h, r)
             t == Recent(s, x)
  <2>1. /\ caches' = [caches EXCEPT ![q] = d] /\ computed' = [computed EXCEPT ![q] = t]
    BY <1>6, <1>8 DEF ComputeAndStore
  <2>2. c.size > 0
    BY <1>1, <1>8, ReserveNeedsRoom
  <2>3. d.tracker = Reserve(c, h).tracker
    BY <1>1, <1>2, <2>2, StoredValues
  <2> HIDE DEF c, h, r
  <2>4. /\ UsedSince(d, h, 0)
        /\ \A g : \A n \in Nat :
             UsedSince(c, g, n) /\ n + 1 < c.size => UsedSince(d, g, n + 1)
        /\ \A g : \A m, n \in Nat :
             UsedSince(c, h, m) /\ m < n /\ UsedSince(c, g, n) => UsedSince(d, g, n)
    <3> DEFINE u == Reserve(c, h)
    <3>1. /\ UsedSince(u, h, 0)
          /\ \A g : \A n \in Nat :
               UsedSince(c, g, n) /\ n + 1 < c.size => UsedSince(u, g, n + 1)
          /\ \A g : \A m, n \in Nat :
               UsedSince(c, h, m) /\ m < n /\ UsedSince(c, g, n) => UsedSince(u, g, n)
      BY <1>1, <2>2, RecencyKept
    <3>2. \A g, n : UsedSince(d, g, n) <=> UsedSince(u, g, n)
      BY <2>3 DEF UsedSince
    <3> HIDE DEF u, d
    <3> QED BY <3>1, <3>2
  <2>5. PICK m \in 0..Len(s) :
          /\ t \in Seq(Points) /\ Len(t) <= Size
          /\ m > 0 => s[m] = x
          /\ \A j \in 1..Len(t) :
               \/ t[j] = x
               \/ \E i \in 1..Len(s) :
                    /\ s[i] = t[j] /\ i # m
                    /\ i < m => Len(t) - j = Len(s) - i
                    /\ i > m => Len(t) - j = Len(s) - i + 1
    BY <1>3, RecentElements
  <2> HIDE DEF d, t, s
  <2>6. ASSUME NEW j \in 1..Len(t) PROVE UsedSince(d, HashOf[t[j]], Len(t) - j)
    <3>1. Len(t) \in Nat /\ Len(t) - j \in Nat /\ Len(t) - j < Size
      BY <1>3, <2>5, LenProperties
    <3>2. CASE t[j] = x
      <4>1. Len(d.tracker) \in Nat
        BY <1>1, <1>2, <1>8, StoredCache, CacheFields DEF d, r
      <4> QED BY <2>4, <3>1, <3>2, <4>1 DEF UsedSince, h
    <3>3. CASE t[j] # x
      <4>1. PICK i \in 1..Len(s) :
              /\ s[i] = t[j] /\ i # m
              /\ i < m => Len(t) - j = Len(s) - i
              /\ i > m => Len(t) - j = Len(s) - i + 1
        BY <2>5, <3>3
      <4>2. Len(s) - i \in Nat /\ UsedSince(c, HashOf[t[j]], Len(s) - i)
        BY <1>3, <1>5, <4>1
      <4>3. CASE i < m
        <5>1. /\ Len(t) - j = Len(s) - i /\ s[m] = x /\ m \in 1..Len(s)
              /\ Len(s) - m \in Nat /\ Len(s) - m < Len(s) - i
          BY <1>3, <2>5, <4>1, <4>3
        <5>2. UsedSince(c, h, Len(s) - m)
          BY <1>5, <5>1 DEF h
        <5> QED BY <2>4, <4>2, <5>1, <5>2
      <4>4. CASE i > m
        <5>1. Len(t) - j = Len(s) - i + 1 /\ Len(s) - i + 1 < c.size
          BY <1>1, <1>3, <1>4, <3>1, <4>1, <4>4
        <5> QED BY <2>4, <4>2, <5>1
      <4> QED BY <1>3, <4>1, <4>3, <4>4
    <3> QED BY <3>2, <3>3
  <2>7. ASSUME NEW p \in Queries, NEW i \in 1..Len(computed'[p])
        PROVE  /\ p \in DOMAIN caches'
               /\ UsedSince(caches'[p], HashOf[computed'[p][i]], Len(computed'[p]) - i)
    <3>1. q \in DOMAIN computed /\ p \in DOMAIN computed /\ DOMAIN caches' = DOMAIN caches
      BY <2>1 DEF Histories, Typed
    <3>2. CASE p = q
      <4>1. computed'[p] = t /\ caches'[p] = d /\ p \in DOMAIN caches'
        BY <2>1, <3>1, <3>2
      <4> QED BY <2>6, <2>7, <4>1
    <3>3. CASE p # q
      <4>1. computed'[p] = computed[p] /\ caches'[p] = caches[p]
        BY <2>1, <3>1, <3>3
      <4> QED BY <2>7, <3>1, <4>1 DEF ComputedIsTracked
    <3> QED BY <3>2, <3>3
  <2> QED BY <2>7 DEF ComputedIsTracked
<1> QED BY <1>7, <1>8

\* Only a miss and a reset touch the caches, and a reset forgets both.
LEMMA NextIsTracked ==
  ASSUME Size <= DefaultSize \/ Jacobian \notin Queries
  PROVE  IInv /\ Histories /\ ComputedIsTracked /\ [Next]_vars => ComputedIsTracked'
<1> SUFFICES ASSUME IInv, Histories, ComputedIsTracked, [Next]_vars PROVE ComputedIsTracked'
  OBVIOUS
<1>1. ASSUME NEW q \in Queries, NEW x \in Points, Call(q, x) PROVE ComputedIsTracked'
  <2>1. CASE q \in DOMAIN caches /\ ComputeAndStore(q, x)
    BY <2>1, ComputeIsTracked
  <2>2. CASE ~(q \in DOMAIN caches /\ ComputeAndStore(q, x))
    <3>1. UNCHANGED <<caches, computed>>
      BY <1>1, <2>2 DEF Call, Serve, ComputeAndThrow
    <3> QED BY <3>1 DEF ComputedIsTracked
  <2> QED BY <2>1, <2>2
<1>2. CASE Reset
  <2>1. \A q \in Queries : Len(computed'[q]) = 0
    BY <1>2 DEF Reset
  <2> QED BY <2>1 DEF ComputedIsTracked
<1>3. CASE Change \/ UNCHANGED vars
  BY <1>3 DEF Change, vars, ComputedIsTracked
<1> QED BY <1>1, <1>2, <1>3 DEF Next

\* Nothing is computed when the caches are made.
LEMMA InitHistories == Init => Histories /\ ComputedIsTracked
<1> SUFFICES ASSUME Init PROVE Histories /\ ComputedIsTracked
  OBVIOUS
<1>1. Len(<<>>) = 0 /\ <<>> \in Seq(Points) /\ 0 <= Size
  BY SizeAssumption
<1>2. /\ computed = [q \in Queries |-> <<>>] /\ used = [q \in Queries |-> <<>>]
  BY DEF Init
<1> QED BY <1>1, <1>2 DEF Histories, Typed, ComputedIsTracked

\* The caches, the answers and the histories are what they are meant to be.
THEOREM CachedTypes == Spec => []TypeOK
<1>1. Histories /\ IInv => TypeOK
  <2> SUFFICES ASSUME Histories, IInv PROVE TypeOK
    OBVIOUS
  <2>1. \A q \in DOMAIN caches : CacheOf(caches[q], Hash, Results \cup {Blank})
    BY DEF IInv, Kept, Contents
  <2>2. answer \in Answers \cup {None}
    BY DEF IInv, AnswerIsRight
  <2>3. computed \in [Queries -> Seq(Points)] /\ used \in [Queries -> Seq(Points)]
    BY DEF Histories, Typed
  <2> QED BY <2>1, <2>2, <2>3 DEF IInv, Sound, TypeOK, Answers
<1>2. Spec => []Histories
  <2>1. Init => Histories
    BY InitHistories
  <2> QED BY <2>1, NextHistories, PTL DEF Spec
<1> QED BY <1>1, <1>2, CachedInvariance, PTL

\* The last Size points computed are cached, whatever was asked for, hit or
\* thrown in between, and even if some of them share their hash; jacobians,
\* whose cache has ten entries whatever Size is, if Size is no more.
THEOREM ComputedStaysCached ==
  ASSUME Size <= DefaultSize \/ Jacobian \notin Queries
  PROVE  Spec => []RecentlyComputedIsCached
<1>1. IInv /\ Histories /\ ComputedIsTracked => RecentlyComputedIsCached
  <2> SUFFICES ASSUME IInv, Histories, ComputedIsTracked,
                      NEW q \in Queries, NEW i \in DOMAIN computed[q]
               PROVE  HashOf[computed[q][i]] \in Mapped(caches[q])
    BY DEF RecentlyComputedIsCached, Cached
  <2>1. i \in 1..Len(computed[q])
    BY LenProperties DEF Histories, Typed
  <2>2. q \in DOMAIN caches /\ UsedSince(caches[q], HashOf[computed[q][i]], Len(computed[q]) - i)
    BY <2>1 DEF ComputedIsTracked
  <2>3. CacheOf(caches[q], Hash, Contents) /\ TrackerListsMap(caches[q])
    BY <2>2 DEF IInv, Kept, WellFormed
  <2>4. DOMAIN caches[q].tracker = 1..Len(caches[q].tracker)
    BY <2>3, CacheFields
  <2> QED BY <2>2, <2>3, <2>4 DEF UsedSince, TrackerListsMap, ToSet
<1>2. Init => IInv /\ Histories /\ ComputedIsTracked
  BY InitIInv, InitHistories
<1>3. /\ IInv /\ Histories /\ ComputedIsTracked /\ [Next]_vars
         => IInv' /\ Histories' /\ ComputedIsTracked'
  BY NextIInv, NextHistories, NextIsTracked
<1> QED BY <1>1, <1>2, <1>3, PTL DEF Spec

=============================================================================
