---------------------------- MODULE FunctionPool ----------------------------
(***************************************************************************)
(* roboptim::FunctionPool (function-pool.hxx): functions that read what a  *)
(* common engine computed.  The pool calls the engine at x, then each of   *)
(* its functions, which look at the engine and not at x.  Any of them may  *)
(* be decorated with a CachedFunction, which then answers from its own LRU *)
(* cache, a record of LRUCacheData.                                        *)
(*                                                                         *)
(* The engine is the user's: what matters of it is the point it was last   *)
(* run at, for the values and for the jacobians.  What a function answers  *)
(* is the point its data belongs to.                                       *)
(***************************************************************************)
EXTENDS LRUCacheData

CONSTANTS
  Points, Hash, HashOf,
  Functions,      \* functions_, as a sequence
  OutputsOf,      \* outputSize () of each
  Callback,       \* the engine, callback_
  EngineKinds,    \* whether it is a CachedFunction: TRUE, FALSE, or both
  CachedMembers,  \* those of functions_ that are CachedFunctions
  DirectCalls,    \* those of all these that are also called on their own
  CacheSizes,         \* given to the constructors of CachedFunctions
  JacobianSize,   \* of jacobianCache_, whatever was given: ten in the code
  Nowhere         \* the engine was not run yet

ASSUME HashAssumption == HashOf \in [Points -> Hash] /\ Nowhere \notin Points
ASSUME PoolAssumption ==
  /\ Functions \in Seq(ToSet(Functions)) /\ Functions # <<>>
  /\ OutputsOf \in [ToSet(Functions) -> Nat]
  /\ CachedMembers \subseteq ToSet(Functions) /\ Callback \notin ToSet(Functions)
  /\ DirectCalls \subseteq ToSet(Functions) \cup {Callback}
  /\ CacheSizes \subseteq Nat \ {0} /\ JacobianSize \in Nat \ {0}
  /\ EngineKinds \subseteq BOOLEAN

VARIABLES
  cachedEngine, \* callback_ is a CachedFunction
  sizes,        \* of the caches of values: each CachedFunction has its own
  engine,       \* query -> the point the engine's data is of
  engineCache,  \* query -> the cache of the engine, if cachedEngine
  memberCache,  \* function -> query -> its cache
  result,       \* the vector or matrix the last call filled
  asked,        \* the query and the point of the last call, whether it was the
                \* pool's, and whether the engine ran for it
  disturbed     \* history: the queries for which a cache may hold what the
                \* others do not

poolVars ==
  <<cachedEngine, sizes, engine, engineCache, memberCache, result, asked, disturbed>>

Queries == {"value", "jacobian"}
Members == ToSet(Functions)
Caching == CachedMembers \cup {Callback}

NoCall == [query |-> "value", at |-> Nowhere, ofPool |-> FALSE, ran |-> FALSE]

\* cache_ (derivativeSize, size), and jacobianCache_, which is not given one
SizeOf(f, q) == IF q = "value" THEN sizes[f] ELSE JacobianSize
OneSize == \A f \in CachedMembers : sizes[f] = sizes[Callback]

PoolInit ==
  /\ cachedEngine \in EngineKinds
  /\ sizes \in [Caching -> CacheSizes]
  /\ engine = [q \in Queries |-> Nowhere]
  /\ engineCache = [q \in Queries |-> New(SizeOf(Callback, q))]
  /\ memberCache = [f \in CachedMembers |-> [q \in Queries |-> New(SizeOf(f, q))]]
  /\ result = <<>>
  /\ asked = NoCall
  /\ disturbed = IF cachedEngine /\ ~OneSize THEN {"value"} ELSE {}

-----------------------------------------------------------------------------

Has(c, x) == HashOf[x] \in Mapped(c)

\* (*callback_) (callback_res_, x) or callback_->jacobian (callback_jac_, x).
\* A CachedFunction that finds x in its cache does not run the engine.
EngineFirst(q, x) == [engine EXCEPT ![q] = x]
MembersFirst(q, x) == engine
Runs(q, x) == ~(cachedEngine /\ Has(engineCache[q], x))
EngineAfter(q, x) == IF Runs(q, x) THEN EngineFirst(q, x) ELSE engine

\* What the caches keep is the point: the engine fills no result of its own.
EngineCacheAfter(q, x) ==
  IF cachedEngine /\ Runs(q, x)
  THEN [engineCache EXCEPT ![q] = Store(@, HashOf[x], x)] ELSE engineCache

\* What f answers when the engine's data is e.
Answer(f, q, x, e) ==
  IF f \in CachedMembers /\ Has(memberCache[f][q], x)
  THEN ValueAt(memberCache[f][q], HashOf[x]) ELSE e[q]

CacheAfter(f, q, x, e) ==
  IF f \in CachedMembers /\ ~Has(memberCache[f][q], x)
  THEN [memberCache[f] EXCEPT ![q] = Store(@, HashOf[x], e[q])]
  ELSE memberCache[f]

\* PoolComputeVisitor and PoolJacobianVisitor: every function fills the
\* segment that starts at idx_, which then moves by its outputs.
SameSegment(idx, f) == idx
NextSegment(idx, f) == idx + OutputsOf[f]
OutputSize == FoldLeft(LAMBDA n, f : n + OutputsOf[f], 0, Functions)

Filled(q, x, e) ==
  LET Visit(acc, f) ==
        [idx |-> NextSegment(acc.idx, f),
         rows |-> [i \in DOMAIN acc.rows |->
                     IF i \in acc.idx + 1..acc.idx + OutputsOf[f]
                     THEN [of |-> f, output |-> i - acc.idx,
                           at |-> Answer(f, q, x, e)]
                     ELSE acc.rows[i]]]
      blank == [i \in 1..OutputSize |-> [of |-> "none", output |-> 0, at |-> Nowhere]]
  IN FoldLeft(Visit, [idx |-> 0, rows |-> blank], Functions).rows

Fixed == UNCHANGED <<cachedEngine, sizes>>

\* impl_compute and impl_jacobian
Call(q, x) ==
  /\ engine' = EngineAfter(q, x)
  /\ engineCache' = EngineCacheAfter(q, x)
  /\ memberCache' = [f \in CachedMembers |-> CacheAfter(f, q, x, engine')]
  /\ result' = Filled(q, x, engine')
  /\ asked' = [query |-> q, at |-> x, ofPool |-> TRUE, ran |-> Runs(q, x)]
  /\ Fixed /\ UNCHANGED disturbed

NoResult == result' = <<>> /\ asked' = NoCall
Disturbs(q, condition) ==
  disturbed' = IF condition THEN disturbed \cup {q} ELSE disturbed

\* The engine throws: its data may already be of x, the caches and the
\* functions of the pool are not reached.
EngineThrows(q, x) ==
  /\ Runs(q, x)
  /\ engine' \in {engine, [engine EXCEPT ![q] = x]}
  /\ NoResult /\ Fixed
  /\ UNCHANGED <<engineCache, memberCache, disturbed>>

\* The k-th function throws: the engine and the functions before it have
\* stored x by then, it and those after it have not.  A function that finds x
\* in its cache does not compute, and so does not throw.
Before(k) == {Functions[j] : j \in 1..(k - 1)}
Computes(f, q, x) == f \in CachedMembers => ~Has(memberCache[f][q], x)
MemberThrows(q, x, k) ==
  /\ Computes(Functions[k], q, x) /\ Functions[k] \notin CachedMembers \cap Before(k)
  /\ engine' = EngineAfter(q, x)
  /\ engineCache' = EngineCacheAfter(q, x)
  /\ memberCache' = [f \in CachedMembers |->
                       IF f \in Before(k) THEN CacheAfter(f, q, x, engine')
                       ELSE memberCache[f]]
  /\ NoResult /\ Fixed
  /\ Disturbs(q, cachedEngine /\ Runs(q, x))

\* The engine called on its own, and a function of the pool, as the tests do.
CallEngine(q, x) ==
  /\ Callback \in DirectCalls
  /\ engine' = EngineAfter(q, x)
  /\ engineCache' = EngineCacheAfter(q, x)
  /\ NoResult /\ Fixed /\ UNCHANGED memberCache
  /\ Disturbs(q, cachedEngine /\ Runs(q, x))

CallMember(f, q, x) ==
  /\ f \in DirectCalls
  /\ memberCache' = IF f \in CachedMembers
                    THEN [memberCache EXCEPT ![f] = CacheAfter(f, q, x, engine)]
                    ELSE memberCache
  /\ NoResult /\ Fixed /\ UNCHANGED <<engine, engineCache>>
  /\ Disturbs(q, f \in CachedMembers /\ ~Has(memberCache[f][q], x))

\* CachedFunction::reset, of some of the caches or of all.
AllCleared(caches) == [q \in Queries |-> Cleared(caches[q])]
ResetCaches(S) ==
  /\ engineCache' = IF Callback \in S THEN AllCleared(engineCache) ELSE engineCache
  /\ memberCache' = [f \in CachedMembers |->
                       IF f \in S THEN AllCleared(memberCache[f]) ELSE memberCache[f]]
  /\ NoResult /\ Fixed /\ UNCHANGED engine
  /\ disturbed' = IF cachedEngine /\ S # Caching THEN Queries ELSE disturbed

PoolNext ==
  \/ \E q \in Queries, x \in Points :
       \/ Call(q, x)
       \/ EngineThrows(q, x)
       \/ \E k \in DOMAIN Functions : MemberThrows(q, x, k)
       \/ CallEngine(q, x)
       \/ \E f \in Members : CallMember(f, q, x)
  \/ \E S \in SUBSET Caching : ResetCaches(S)

PoolSpec == PoolInit /\ [][PoolNext]_poolVars

-----------------------------------------------------------------------------

PoolTypeOK ==
  /\ engine \in [Queries -> Points \cup {Nowhere}]
  /\ \A q \in Queries : CacheOf(engineCache[q], Hash, Points \cup {Blank})
  /\ \A f \in CachedMembers, q \in Queries :
       CacheOf(memberCache[f][q], Hash, Points \cup {Nowhere, Blank})
  /\ \A i \in DOMAIN result : result[i].at \in Points \cup {Nowhere, Blank}
  /\ asked \in [query : Queries, at : Points \cup {Nowhere}, ofPool : BOOLEAN, ran : BOOLEAN]
  /\ cachedEngine \in EngineKinds /\ sizes \in [Caching -> CacheSizes]
  /\ disturbed \subseteq Queries

\* "a dummy x would work just as well since the computation should have been
\* done in the engine already" (function-pool.hxx:204-205, 239-240).  If the
\* engine has no cache that holds: every output of a pool called at x is that
\* of x, whichever of the engine and the functions threw before, whatever was
\* reset and whatever the functions' own caches still hold.  An engine that is
\* a CachedFunction does not run at a point it finds: then only the functions
\* with a cache answer for x, and they as long as their caches hold the same
\* points as its own.  What sets them apart is named in `disturbed`: caches of
\* values of different sizes, a function that threw after the engine had
\* stored x, one that was called on its own, an engine that was, and a reset
\* of some of them only.
AnswersAreOfTheArgument ==
  asked.ofPool /\ asked.query \notin disturbed =>
    \A i \in DOMAIN result :
      result[i].at = asked.at \/ (~asked.ran /\ result[i].of \notin CachedMembers)

\* Every output of every function is in the result once, in the order of the
\* list, and nothing else is.
OutputsArePacked ==
  asked.ofPool =>
    [i \in DOMAIN result |-> <<result[i].of, result[i].output>>] =
      FlattenSeq([k \in DOMAIN Functions |->
                    [j \in 1..OutputsOf[Functions[k]] |-> <<Functions[k], j>>]])

=============================================================================
