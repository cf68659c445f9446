--------------------------- MODULE CachedFunction ---------------------------
(***************************************************************************)
(* roboptim::CachedFunction<T> (decorator/cached-function.hh and .hxx): a  *)
(* function that keeps what it computed in one LRU cache per quantity: the *)
(* value, the gradient of each output, the jacobian and the hessian of     *)
(* each output.                                                            *)
(*                                                                         *)
(* What the wrapped function computes is abstracted to a record saying     *)
(* which quantity of which version of the function it is, and at which     *)
(* point: two answers are equal exactly if they were computed alike.  The  *)
(* version stands for everything outside the argument that the function    *)
(* reads (a parameter of its class, the engine of a FunctionPool).         *)
(***************************************************************************)
EXTENDS LRUCacheData

CONSTANTS
  Points,        \* arguments
  Hash, HashOf,  \* Hasher, as a function from Points to Hash
  Outputs,       \* 0..outputSize () - 1
  Size,          \* the constructor's size
  DerivativeSize,\* derivativeSize<T>::value: 0, 1 or 2 with the class of T
  Queries,       \* the quantities asked for
  MaxVersion,    \* bound: how often the wrapped function changes
  None           \* no answer yet

Value == <<"value", 0>>
Jacobian == <<"jacobian", 0>>
Gradients == {"gradient"} \X Outputs
Hessians == {"hessian"} \X Outputs

\* What T can compute: CachedFunctionTypes selects an assert (0) otherwise.
Offered ==
  {Value} \cup (IF DerivativeSize >= 1 THEN Gradients \cup {Jacobian} ELSE {})
          \cup (IF DerivativeSize >= 2 THEN Hessians ELSE {})

ASSUME HashAssumption == HashOf \in [Points -> Hash]
ASSUME SizeAssumption == Size \in Nat /\ DerivativeSize \in 0..2
ASSUME QueriesAssumption == Queries \subseteq Offered
ASSUME BoundAssumption == MaxVersion \in Nat

VARIABLES
  caches,     \* cache_[0], gradientCache_, jacobianCache_, hessianCache_
  version,    \* what the wrapped function reads besides its argument
  answer,     \* the last call, or None: what was asked and what came back
  undefined,  \* the last call indexed an empty vector or an empty cache
  resetAt,    \* history: the version at the last reset, or construction
  computed,   \* history: per quantity, the last Size points computed
  used        \* history: per quantity, the last Size points asked for

vars == <<caches, version, answer, undefined, resetAt, computed, used>>

-----------------------------------------------------------------------------

\* jacobianCache_ is default constructed: LRUCache (size_t size = 10).
DefaultSize == 10

\* cache_ is a vector of derivativeSize<T>::value caches, so there is no
\* cache_[0] when T is a plain function.
Constructed ==
  [q \in Gradients \cup Hessians \cup {Jacobian}
         \cup (IF DerivativeSize >= 1 THEN {Value} ELSE {})
   |-> New(IF q = Jacobian THEN DefaultSize ELSE Size)]

Compute(q, x) == [of |-> q, at |-> x, version |-> version]

Cached(q, x) == HashOf[x] \in Mapped(caches[q])

\* The lookup of the hessian as it would be if it were compiled in.
HitOnHessian(q, x) == Cached(q, x)

\* The lookup of the hessian is compiled out (cached-function.hh:191-201).
Hit(q, x) == q \notin Hessians /\ Cached(q, x)

Answered(q, x, v) ==
  [query |-> q, at |-> x, value |-> v, now |-> version, since |-> resetAt]

\* The last Size distinct points of a history, x being the latest.
Recent(history, x) ==
  LET h == Append(RemoveFirst(history, x), x)
  IN IF Len(h) > Size THEN Tail(h) ELSE h

Init ==
  /\ caches = Constructed
  /\ version = 0
  /\ answer = None
  /\ undefined = FALSE
  /\ resetAt = 0
  /\ computed = [q \in Queries |-> <<>>]
  /\ used = [q \in Queries |-> <<>>]

-----------------------------------------------------------------------------

\* A call that finds an entry copies it; find is const, the tracker stays.
Serve(q, x) ==
  /\ Hit(q, x)
  /\ answer' = Answered(q, x, ValueAt(caches[q], HashOf[x]))
  /\ used' = [used EXCEPT ![q] = Recent(@, x)]
  /\ UNCHANGED <<caches, version, undefined, resetAt, computed>>

\* Otherwise the wrapped function computes, and the result is stored with
\* cache[argument] = result.
ComputeAndStore(q, x) ==
  /\ ~Hit(q, x)
  /\ undefined' = ReserveUndefined(caches[q], HashOf[x])
  /\ IF undefined' THEN UNCHANGED <<caches, answer, computed, used>>
     ELSE /\ caches' = [caches EXCEPT
                          ![q] = Store(@, HashOf[x], Compute(q, x))]
          /\ answer' = Answered(q, x, Compute(q, x))
          /\ computed' = [computed EXCEPT ![q] = Recent(@, x)]
          /\ used' = [used EXCEPT ![q] = Recent(@, x)]
  /\ UNCHANGED <<version, resetAt>>

\* The wrapped function throws: the exception leaves the caches alone.
ComputeAndThrow(q, x) ==
  /\ ~Hit(q, x)
  /\ answer' = None
  /\ UNCHANGED <<caches, version, undefined, resetAt, computed, used>>

\* impl_compute, impl_gradient, impl_jacobian, impl_hessian
Call(q, x) ==
  /\ ~undefined
  /\ IF q \in DOMAIN caches
     THEN Serve(q, x) \/ ComputeAndStore(q, x) \/ ComputeAndThrow(q, x)
     ELSE /\ undefined' = TRUE
          /\ UNCHANGED <<caches, version, answer, resetAt, computed, used>>

Reset ==
  /\ ~undefined
  /\ caches' = [q \in DOMAIN caches |-> Cleared(caches[q])]
  /\ resetAt' = version
  /\ computed' = [q \in Queries |-> <<>>]
  /\ used' = [q \in Queries |-> <<>>]
  /\ UNCHANGED <<version, answer, undefined>>

\* The owner of the wrapped function changes what it computes.
Change ==
  /\ version < MaxVersion
  /\ version' = version + 1
  /\ UNCHANGED <<caches, answer, undefined, resetAt, computed, used>>

Next == (\E q \in Queries, x \in Points : Call(q, x)) \/ Reset \/ Change

Spec == Init /\ [][Next]_vars

-----------------------------------------------------------------------------

Results == [of : Offered, at : Points, version : 0..MaxVersion]

TypeOK ==
  /\ DOMAIN caches = DOMAIN Constructed
  /\ \A q \in DOMAIN caches : CacheOf(caches[q], Hash, Results \cup {Blank})
  /\ version \in 0..MaxVersion /\ resetAt \in 0..version
  /\ answer \in [query : Queries, at : Points, value : Results,
                 now : 0..version, since : 0..version] \cup {None}
  /\ undefined \in BOOLEAN
  /\ computed \in [Queries -> Seq(Points)] /\ used \in [Queries -> Seq(Points)]

\* A call answers with what the wrapped function computes for the very
\* quantity and point asked for, even after slots were recycled: nothing is
\* served from another point's slot (cached-function.hxx:146-171).  It takes
\* a hash that tells the points apart, as nothing else does.
AnswersAreExact ==
  answer # None => answer.value.of = answer.query /\ answer.value.at = answer.at

\* After reset no answer predates it; a hessian is never out of date at all.
ResetForgets ==
  answer # None =>
    /\ answer.value.version >= answer.since
    /\ answer.query \in Hessians => answer.value.version = answer.now

\* "prevents useless computation": the last Size points computed since the
\* reset are all still cached, so none of them is computed again.
RecentlyComputedIsCached ==
  \A q \in Queries : \A i \in DOMAIN computed[q] : Cached(q, computed[q][i])

\* With the least recently used entry evicted, the last Size points that
\* were asked for would be (cached-function.hh:84: "size of the LRU cache").
RecentlyUsedIsCached ==
  \A q \in Queries : \A i \in DOMAIN used[q] : Cached(q, used[q][i])

\* A call of anything T offers is defined, if the caches can hold an entry
\* and T is not a plain function, for which there is no cache_[0].
CallsAreDefined == Size > 0 /\ DerivativeSize > 0 => ~undefined

=============================================================================
