------------------------------ MODULE LRUCache ------------------------------
(***************************************************************************)
(* The life of one roboptim::LRUCache: construction with any size, then    *)
(* any sequence of calls of its public interface.                          *)
(***************************************************************************)
EXTENDS LRUCacheData

CONSTANTS
  Keys, Values,
  Hash, HashOf,   \* hasher_, as a function from Keys to Hash
  Sizes,          \* the sizes given to the constructor and to resize
  Miss            \* cend (): find's answer for a key without entry

ASSUME HashAssumption == HashOf \in [Keys -> Hash] /\ ZeroHash \in Hash
ASSUME SizesAssumption == Sizes \subseteq Nat

VARIABLES
  cache,      \* the cache, a record of LRUCacheData
  answer,     \* what the last call returned or stored
  undefined,  \* the last call ran into undefined behaviour or an assertion
  resized     \* resize was called since the last construction or clear

vars == <<cache, answer, undefined, resized>>

-----------------------------------------------------------------------------

Init ==
  /\ \E n \in Sizes : cache = New(n)
  /\ answer = Miss
  /\ undefined = FALSE
  /\ resized = FALSE

\* A call that reserves an entry for k, leaves the cache as next and
\* returns ans, unless its preconditions fail.
Reserving(k, next, ans) ==
  /\ ~undefined
  /\ undefined' = ReserveUndefined(cache, HashOf[k])
  /\ IF undefined'
     THEN UNCHANGED <<cache, answer>>
     ELSE cache' = next /\ answer' = ans
  /\ UNCHANGED resized

\* insert (key, value), and cache[key] = value
Insert(k, v) == Reserving(k, Store(cache, HashOf[k], v), v)

\* cache[key] read: on a miss it makes an entry, whose slot keeps what the
\* evicted entry, or an entry cleared before, had left there
Access(k) ==
  LET next == Reserve(cache, HashOf[k])
  IN Reserving(k, next, ValueAt(next, HashOf[k]))

\* find (key) and the value behind the iterator: a const member function,
\* so the entry is not moved to the back of the tracker
Find(k) ==
  /\ ~undefined
  /\ answer' = IF HashOf[k] \in Mapped(cache)
               THEN ValueAt(cache, HashOf[k]) ELSE Miss
  /\ UNCHANGED <<cache, undefined, resized>>

Clear ==
  /\ ~undefined
  /\ cache' = Cleared(cache)
  /\ resized' = FALSE
  /\ UNCHANGED <<answer, undefined>>

Resize(n) ==
  /\ ~undefined
  /\ n # cache.size
  /\ cache' = Resized(cache, n)
  /\ resized' = TRUE
  /\ UNCHANGED <<answer, undefined>>

Next ==
  \/ \E k \in Keys, v \in Values : Insert(k, v)
  \/ \E k \in Keys : Access(k)
  \/ \E k \in Keys : Find(k)
  \/ Clear
  \/ \E n \in Sizes : Resize(n)

Spec == Init /\ [][Next]_vars

-----------------------------------------------------------------------------

TypeOK ==
  /\ CacheOf(cache, Hash, Values \cup {Blank})
  /\ answer \in Values \cup {Blank, Miss}
  /\ undefined \in BOOLEAN
  /\ resized \in BOOLEAN

\* The states the class is written for: no resize since the entries were
\* last dropped, and no growth beyond the pool of the construction.
Regular == ~resized /\ cache.size <= Len(cache.pool)

\* tracker_, map_ and pool_ describe the same entries, whatever sequence of
\* calls led here, as long as resize is kept out; clear after a resize
\* within the pool brings a consistent cache back (cache.hxx:45-122, 192-205).
Consistent == Regular => WellFormed(cache)

\* A regular cache that can hold anything never dereferences an end iterator,
\* leaves its pool or fails the assertions of bump (cache.hxx:198, 204).
NoUndefinedBehaviour == undefined => ~Regular \/ cache.size = 0

\* Unless it is resized the cache is a bounded list of values by recency of
\* use: no entry is lost before its turn, none takes the value of another,
\* and find and operator[] answer what was last stored.
Abstract == INSTANCE LRUStore WITH
  Capacities <- Sizes,
  capacity <- cache.size,
  entries <- IF Regular
             THEN [i \in DOMAIN cache.tracker |->
                     [hash |-> cache.tracker[i],
                      value |-> ValueAt(cache, cache.tracker[i])]]
             ELSE <<>>,
  regular <- Regular
ImplementsLRUStore == Abstract!Spec

=============================================================================
