------------------------- MODULE LRUCacheDataProofs -------------------------
(***************************************************************************)
(* Lemmas about LRUCacheData: what the operations do to any record with    *)
(* the fields of a cache.  The proofs about the modules that keep caches   *)
(* rest on them.                                                           *)
(***************************************************************************)
EXTENDS LRUCacheData, SequenceTheorems, FiniteSetTheorems, TLAPS

(***************************************************************************)
(* Sequences: what splicing an element to the end of the tracker does.     *)
(***************************************************************************)

\* RemoveAt drops one element and keeps the order of the others.
LEMMA RemoveAtProperties ==
  ASSUME NEW S, NEW s \in Seq(S), NEW i \in 1..Len(s)
  PROVE  /\ RemoveAt(s, i) \in Seq(S)
         /\ Len(RemoveAt(s, i)) = Len(s) - 1
         /\ \A j \in 1..Len(s) - 1 :
              RemoveAt(s, i)[j] = IF j < i THEN s[j] ELSE s[j + 1]
<1> DEFINE front == SubSeq(s, 1, i - 1)
           back == SubSeq(s, i + 1, Len(s))
<1>1. /\ front \in Seq(S)
      /\ Len(front) = i - 1
      /\ \A j \in 1..i - 1 : front[j] = s[j]
  BY SubSeqProperties
<1>2. /\ back \in Seq(S)
      /\ Len(back) = Len(s) - i
      /\ \A j \in 1..Len(s) - i : back[j] = s[i + j]
  BY SubSeqProperties
<1>3. RemoveAt(s, i) = front \o back
  BY DEF RemoveAt
<1> HIDE DEF front, back
<1>4. /\ front \o back \in Seq(S)
      /\ Len(front \o back) = Len(front) + Len(back)
      /\ \A j \in 1..Len(front) + Len(back) :
           (front \o back)[j] = IF j <= Len(front) THEN front[j]
                                ELSE back[j - Len(front)]
  BY <1>1, <1>2, ConcatProperties
<1>5. Len(s) \in Nat /\ i \in Nat
  BY LenProperties
<1>6. ASSUME NEW j \in 1..Len(s) - 1
      PROVE  (front \o back)[j] = IF j < i THEN s[j] ELSE s[j + 1]
  <2>1. CASE j < i
    BY <1>1, <1>2, <1>4, <1>5, <2>1
  <2>2. CASE ~(j < i)
    <3>1. j - (i - 1) \in 1..Len(s) - i /\ i + (j - (i - 1)) = j + 1
      BY <1>5, <2>2
    <3>2. (front \o back)[j] = back[j - (i - 1)]
      BY <1>1, <1>2, <1>4, <1>5, <2>2
    <3> QED BY <1>2, <2>2, <3>1, <3>2
  <2> QED BY <2>1, <2>2
<1> QED BY <1>1, <1>2, <1>3, <1>4, <1>5, <1>6

\* Every non-empty set of naturals has a least element; the library states
\* this with an operator parameter, so it is derived here from the ordering
\* of finite sets by strict inclusion: i <= j iff 1..i is included in 1..j.
LEMMA LeastElement ==
  ASSUME NEW I \in SUBSET Nat, I # {}
  PROVE  \E m \in I : \A i \in I : m <= i
<1> DEFINE Segments == {1..i : i \in I}
<1>1. Segments \subseteq FiniteSubsetsOf(Nat) /\ Segments # {}
  <2>1. \A i \in I : 1..i \subseteq Nat /\ IsFiniteSet(1..i)
    BY FS_Interval
  <2> QED BY <2>1 DEF FiniteSubsetsOf
<1>2. PICK L \in Segments :
        \A K \in Segments : ~(<<K, L>> \in StrictSubsetOrdering(Nat))
  <2> HIDE DEF Segments
  <2> QED BY <1>1, FS_StrictSubsetOrderingWellFounded, WFMin
<1>3. PICK m \in I : L = 1..m
  BY <1>2
<1>4. ASSUME NEW i \in I, i < m
      PROVE  FALSE
  <2>1. 1..i \in SUBSET Nat /\ 1..m \in SUBSET Nat /\ 1..i \subseteq 1..m
    BY <1>4
  <2>2. m \in 1..m /\ m \notin 1..i
    BY <1>4
  <2>3. <<1..i, L>> \in StrictSubsetOrdering(Nat)
    BY <1>3, <2>1, <2>2 DEF StrictSubsetOrdering
  <2> QED BY <1>2, <2>3
<1> QED BY <1>3, <1>4

\* RemoveFirst removes one occurrence of an element that occurs.
LEMMA RemoveFirstIsRemoveAt ==
  ASSUME NEW S, NEW s \in Seq(S), NEW e \in ToSet(s)
  PROVE  \E i \in 1..Len(s) : s[i] = e /\ RemoveFirst(s, e) = RemoveAt(s, i)
<1> DEFINE I == {i \in 1..Len(s) : s[i] = e}
<1>1. Len(s) \in Nat /\ DOMAIN s = 1..Len(s)
  BY LenProperties
<1>2. I # {} /\ I \in SUBSET Nat
  BY <1>1 DEF ToSet
<1>3. PICK m \in I : \A j \in I : m <= j
  BY <1>2, LeastElement
<1>4. Min(I) \in I
  BY <1>3 DEF Min
<1>5. SelectInSeq(s, LAMBDA v : v = e) = Min(I)
  BY <1>2 DEF SelectInSeq
<1> QED BY <1>1, <1>2, <1>4, <1>5 DEF RemoveFirst

Distinct(s) == \A i, j \in DOMAIN s : s[i] = s[j] => i = j
Spliced(s, e) == Append(RemoveFirst(s, e), e)

\* Splicing an element to the end shifts the elements behind it.
LEMMA SplicedElements ==
  ASSUME NEW S, NEW s \in Seq(S), NEW e \in ToSet(s)
  PROVE  /\ Spliced(s, e) \in Seq(S)
         /\ Len(Spliced(s, e)) = Len(s)
         /\ \E i \in 1..Len(s) :
              /\ s[i] = e
              /\ \A j \in 1..Len(s) :
                   Spliced(s, e)[j] = IF j < i THEN s[j]
                                      ELSE IF j < Len(s) THEN s[j + 1] ELSE e
<1>1. PICK i \in 1..Len(s) : s[i] = e /\ RemoveFirst(s, e) = RemoveAt(s, i)
  BY RemoveFirstIsRemoveAt
<1> DEFINE r == RemoveAt(s, i)
<1>2. /\ r \in Seq(S)
      /\ Len(r) = Len(s) - 1
      /\ \A j \in 1..Len(s) - 1 : r[j] = IF j < i THEN s[j] ELSE s[j + 1]
  BY RemoveAtProperties
<1>3. e \in S /\ Len(s) \in Nat
  BY <1>1, ElementOfSeq, LenProperties
<1> HIDE DEF r
<1>4. /\ Append(r, e) \in Seq(S)
      /\ Len(Append(r, e)) = Len(r) + 1
      /\ \A j \in 1..Len(r) : Append(r, e)[j] = r[j]
      /\ Append(r, e)[Len(r) + 1] = e
  BY <1>2, <1>3, AppendProperties
<1>5. Spliced(s, e) = Append(r, e)
  BY <1>1 DEF Spliced, r
<1>6. ASSUME NEW j \in 1..Len(s)
      PROVE  Append(r, e)[j] = IF j < i THEN s[j]
                               ELSE IF j < Len(s) THEN s[j + 1] ELSE e
  <2>1. CASE j < Len(s)
    BY <1>2, <1>3, <1>4, <2>1
  <2>2. CASE j = Len(s)
    BY <1>2, <1>3, <1>4, <2>2
  <2>3. j < Len(s) \/ j = Len(s)
    BY <1>3
  <2> QED BY <2>1, <2>2, <2>3
<1> QED BY <1>1, <1>2, <1>3, <1>4, <1>5, <1>6

\* It neither adds nor drops an element, and creates no duplicate.
LEMMA SplicedKeepsElements ==
  ASSUME NEW S, NEW s \in Seq(S), NEW e \in ToSet(s)
  PROVE  /\ Distinct(s) => Distinct(Spliced(s, e))
         /\ ToSet(Spliced(s, e)) = ToSet(s)
<1> DEFINE t == Spliced(s, e)
<1>1. PICK i \in 1..Len(s) :
        /\ s[i] = e
        /\ \A j \in 1..Len(s) :
             t[j] = IF j < i THEN s[j] ELSE IF j < Len(s) THEN s[j + 1] ELSE e
  BY SplicedElements
<1>2. /\ Len(s) \in Nat /\ DOMAIN s = 1..Len(s)
      /\ t \in Seq(S) /\ Len(t) = Len(s) /\ DOMAIN t = 1..Len(s)
  BY SplicedElements, LenProperties
<1> HIDE DEF t
<1>3. ASSUME Distinct(s) PROVE Distinct(t)
  <2> DEFINE Source(j) == IF j < i THEN j ELSE IF j < Len(s) THEN j + 1 ELSE i
  <2>1. \A j \in 1..Len(s) : Source(j) \in 1..Len(s) /\ t[j] = s[Source(j)]
    BY <1>1, <1>2
  <2>2. \A j, k \in 1..Len(s) : Source(j) = Source(k) => j = k
    BY <1>2
  <2> HIDE DEF Source
  <2> QED BY <1>2, <1>3, <2>1, <2>2 DEF Distinct
<1>4. ToSet(t) \subseteq ToSet(s)
  BY <1>1, <1>2 DEF ToSet
<1>5. ASSUME NEW k \in 1..Len(s) PROVE s[k] \in ToSet(t)
  <2>1. CASE k < i
    BY <1>1, <1>2, <2>1 DEF ToSet
  <2>2. CASE k = i
    BY <1>1, <1>2, <2>2 DEF ToSet
  <2>3. CASE k > i
    <3>1. k - 1 \in 1..Len(s) /\ ~(k - 1 < i) /\ k - 1 < Len(s)
      BY <1>2, <2>3
    <3>2. t[k - 1] = s[k]
      BY <1>1, <1>2, <3>1
    <3> QED BY <1>2, <3>1, <3>2 DEF ToSet
  <2> QED BY <1>2, <2>1, <2>2, <2>3
<1> QED BY <1>2, <1>3, <1>4, <1>5 DEF ToSet, t

(***************************************************************************)
(* Caches: types.                                                          *)
(***************************************************************************)

\* The fields of a cache, one by one.
LEMMA CacheFields ==
  ASSUME NEW c, NEW H, NEW V, CacheOf(c, H, V)
  PROVE  /\ c = [size |-> c.size, tracker |-> c.tracker,
                 map |-> c.map, pool |-> c.pool]
         /\ c.size \in Nat
         /\ c.tracker \in Seq(H)
         /\ c.pool \in Seq(V)
         /\ Len(c.pool) \in Nat /\ DOMAIN c.pool = 1..Len(c.pool)
         /\ Len(c.tracker) \in Nat /\ DOMAIN c.tracker = 1..Len(c.tracker)
  BY LenProperties DEF CacheOf

\* A freshly constructed cache is well formed, for every size.
LEMMA NewCache ==
  ASSUME NEW n \in Nat, NEW H, NEW V, Blank \in V
  PROVE  CacheOf(New(n), H, V) /\ WellFormed(New(n))
<1>1. [s \in 1..n |-> Blank] \in Seq(V)
  BY IsASeq
<1>2. <<>> \in Seq(H) /\ Len(<<>>) = 0 /\ DOMAIN <<>> = {}
  BY EmptySeq
<1>3. CacheOf(New(n), H, V)
  BY <1>1, <1>2 DEF CacheOf, New, Cache, NoEntries, Mapped
<1>4. WellFormed(New(n))
  BY <1>2 DEF WellFormed, TrackerListsMap, SlotsArePacked, New, Cache,
         NoEntries, Mapped, ToSet
<1> QED BY <1>3, <1>4

\* clear empties the map and the tracker: a well-formed cache of the same size.
LEMMA ClearedCache ==
  ASSUME NEW c, NEW H, NEW V, CacheOf(c, H, V)
  PROVE  CacheOf(Cleared(c), H, V) /\ WellFormed(Cleared(c))
<1>1. <<>> \in Seq(H) /\ Len(<<>>) = 0 /\ DOMAIN <<>> = {}
  BY EmptySeq
<1>2. /\ Cleared(c) = [size |-> c.size, tracker |-> <<>>,
                       map |-> [h \in {} |-> 0], pool |-> c.pool]
      /\ c.size \in Nat /\ c.pool \in Seq(V)
  BY CacheFields DEF Cleared, Cache, NoEntries
<1>3. CacheOf(Cleared(c), H, V)
  BY <1>1, <1>2 DEF CacheOf, Mapped
<1>4. WellFormed(Cleared(c))
  BY <1>1, <1>2
  DEF WellFormed, TrackerListsMap, SlotsArePacked, Mapped, ToSet
<1> QED BY <1>3, <1>4

\* resize leaves a cache of the same type, though not a well-formed one.
LEMMA ResizedCache ==
  ASSUME NEW c, NEW H, NEW V, CacheOf(c, H, V), NEW n \in Nat, ZeroHash \in H
  PROVE  CacheOf(Resized(c, n), H, V)
<1> DEFINE t == [i \in 1..n |->
                   IF i <= Len(c.tracker) THEN c.tracker[i] ELSE ZeroHash]
<1>1. Resized(c, n) = [size |-> n, tracker |-> t, map |-> c.map,
                       pool |-> c.pool]
  BY CacheFields DEF Resized, Cache
<1>2. t \in Seq(H)
  <2>1. ASSUME NEW i \in 1..n PROVE t[i] \in H
    BY CacheFields, ElementOfSeq
  <2> QED BY <2>1, IsASeq
<1> HIDE DEF t
<1> QED BY <1>1, <1>2, CacheFields DEF CacheOf, Mapped

(***************************************************************************)
(* Caches: the operations keep a cache typed and well formed.              *)
(***************************************************************************)

\* In a well-formed cache the tracker is as long as the map is large.
LEMMA TrackerCountsEntries ==
  ASSUME NEW c, NEW H, NEW V, CacheOf(c, H, V), TrackerListsMap(c)
  PROVE  Cardinality(Mapped(c)) = Len(c.tracker)
<1>1. c.tracker \in [1..Len(c.tracker) -> Mapped(c)]
  BY CacheFields DEF TrackerListsMap, ToSet
<1>2. c.tracker \in Bijection(1..Len(c.tracker), Mapped(c))
  BY <1>1, CacheFields
  DEF TrackerListsMap, ToSet, Bijection, Injection, Surjection, IsInjective
<1>3. /\ IsFiniteSet(1..Len(c.tracker))
      /\ Cardinality(1..Len(c.tracker)) = Len(c.tracker)
  <2>1. Len(c.tracker) \in Nat
    BY CacheFields
  <2>2. ASSUME NEW n \in Nat PROVE IsFiniteSet(1..n) /\ Cardinality(1..n) = n
    BY FS_Interval
  <2> QED BY <2>1, <2>2
<1> QED BY <1>2, <1>3, FS_Bijection DEF ExistsBijection

\* A hit of insert, operator[] or update moves the entry to the end.
LEMMA BumpedCache ==
  ASSUME NEW c, NEW H, NEW V, CacheOf(c, H, V),
         NEW h \in Mapped(c), h \in ToSet(c.tracker)
  PROVE  /\ CacheOf(Bump(c, h), H, V)
         /\ WellFormed(c) => WellFormed(Bump(c, h))
<1> DEFINE t == Spliced(c.tracker, h)
<1>1. Bump(c, h) = [size |-> c.size, tracker |-> t, map |-> c.map,
                    pool |-> c.pool]
  BY DEF Bump, Cache, Spliced
<1>2. /\ t \in Seq(H) /\ Len(t) = Len(c.tracker)
      /\ ToSet(t) = ToSet(c.tracker)
      /\ Distinct(c.tracker) => Distinct(t)
  BY CacheFields, SplicedElements, SplicedKeepsElements
<1> HIDE DEF t
<1>3. CacheOf(Bump(c, h), H, V)
  BY <1>1, <1>2, CacheFields DEF CacheOf, Mapped
<1>4. ASSUME WellFormed(c) PROVE WellFormed(Bump(c, h))
  BY <1>1, <1>2, <1>4
  DEF WellFormed, TrackerListsMap, SlotsArePacked, Mapped, Distinct
<1> QED BY <1>3, <1>4

\* The fields of the cache an insertion of a new hash leaves.
LEMMA TrackedCache ==
  ASSUME NEW c, NEW H, NEW V, CacheOf(c, H, V),
         NEW h \in H, NEW slot \in DOMAIN c.pool
  PROVE  /\ CacheOf(Track(c, h, slot), H, V)
         /\ Track(c, h, slot).size = c.size
         /\ Track(c, h, slot).pool = c.pool
         /\ Track(c, h, slot).tracker = Append(c.tracker, h)
         /\ Mapped(Track(c, h, slot)) = Mapped(c) \cup {h}
         /\ Track(c, h, slot).map[h] = slot
         /\ \A g \in Mapped(c) \ {h} : Track(c, h, slot).map[g] = c.map[g]
<1> DEFINE m == [g \in Mapped(c) \cup {h} |-> IF g = h THEN slot ELSE c.map[g]]
           t == Append(c.tracker, h)
<1>1. Track(c, h, slot) = [size |-> c.size, tracker |-> t, map |-> m,
                           pool |-> c.pool]
  BY DEF Track, Cache
<1>2. t \in Seq(H)
  BY CacheFields, AppendProperties
<1>3. m \in [Mapped(c) \cup {h} -> DOMAIN c.pool]
  BY DEF CacheOf
<1>4. m[h] = slot /\ \A g \in Mapped(c) \ {h} : m[g] = c.map[g]
  OBVIOUS
<1> HIDE DEF m, t
<1>5. Mapped(c) \cup {h} \in SUBSET H
  BY DEF CacheOf
<1>6. CacheOf(Track(c, h, slot), H, V)
  BY <1>1, <1>2, <1>3, <1>5, CacheFields DEF CacheOf, Mapped
<1> QED BY <1>1, <1>3, <1>4, <1>6 DEF Mapped, t

\* The fields of the cache an eviction leaves.
LEMMA EvictedCache ==
  ASSUME NEW c, NEW H, NEW V, CacheOf(c, H, V), ~EvictUndefined(c)
  PROVE  /\ CacheOf(Evict(c), H, V)
         /\ Evict(c).size = c.size
         /\ Evict(c).pool = c.pool
         /\ Evict(c).tracker = Tail(c.tracker)
         /\ Mapped(Evict(c)) = Mapped(c) \ {Head(c.tracker)}
         /\ \A g \in Mapped(Evict(c)) : Evict(c).map[g] = c.map[g]
<1> DEFINE m == [g \in Mapped(c) \ {Head(c.tracker)} |-> c.map[g]]
<1>1. Evict(c) = [size |-> c.size, tracker |-> Tail(c.tracker), map |-> m,
                  pool |-> c.pool]
  BY DEF Evict, Cache
<1>2. Tail(c.tracker) \in Seq(H)
  BY CacheFields, HeadTailProperties DEF EvictUndefined
<1>3. m \in [Mapped(c) \ {Head(c.tracker)} -> DOMAIN c.pool]
  BY DEF CacheOf
<1>4. \A g \in Mapped(c) \ {Head(c.tracker)} : m[g] = c.map[g]
  OBVIOUS
<1> HIDE DEF m
<1>5. Mapped(c) \ {Head(c.tracker)} \in SUBSET H
  BY DEF CacheOf
<1>6. CacheOf(Evict(c), H, V)
  BY <1>1, <1>2, <1>3, <1>5, CacheFields DEF CacheOf, Mapped
<1> QED BY <1>1, <1>3, <1>4, <1>6 DEF Mapped

\* Whenever insert (key) is defined, it leaves a cache with an entry for the
\* key, whose slot is in the pool; it writes no value and drops at most the
\* entry at the front of the tracker.
LEMMA ReservedCache ==
  ASSUME NEW c, NEW H, NEW V, CacheOf(c, H, V),
         NEW h \in H, ~ReserveUndefined(c, h)
  PROVE  /\ CacheOf(Reserve(c, h), H, V)
         /\ h \in Mapped(Reserve(c, h))
         /\ Reserve(c, h).size = c.size
         /\ Reserve(c, h).pool = c.pool
         /\ \A g \in Mapped(Reserve(c, h)) \ {h} :
              g \in Mapped(c) /\ Reserve(c, h).map[g] = c.map[g]
<1>1. CASE h \in Mapped(c)
  <2>1. Reserve(c, h) = Bump(c, h)
    BY <1>1 DEF Reserve
  <2>2. CacheOf(Bump(c, h), H, V)
    BY <1>1, BumpedCache DEF ReserveUndefined, BumpUndefined
  <2>3. /\ Bump(c, h).size = c.size
        /\ Bump(c, h).pool = c.pool
        /\ Bump(c, h).map = c.map
    BY DEF Bump, Cache
  <2> QED BY <1>1, <2>1, <2>2, <2>3 DEF Mapped
<1>2. CASE h \notin Mapped(c) /\ Full(c)
  <2>1. Reserve(c, h) = Track(Evict(c), h, FreeSlot(c)) /\ ~EvictUndefined(c)
    BY <1>2 DEF Reserve, ReserveUndefined
  <2>2. FreeSlot(c) \in DOMAIN c.pool
    BY <1>2, <2>1 DEF FreeSlot, EvictUndefined, CacheOf
  <2>3. CacheOf(Evict(c), H, V) /\ Evict(c).pool = c.pool
    BY <2>1, EvictedCache
  <2> QED BY <2>1, <2>2, <2>3, EvictedCache, TrackedCache
<1>3. CASE h \notin Mapped(c) /\ ~Full(c)
  <2>1. Reserve(c, h) = Track(c, h, FreeSlot(c))
    BY <1>3 DEF Reserve
  <2>2. FreeSlot(c) \in DOMAIN c.pool
    BY <1>3, CacheFields DEF FreeSlot, ReserveUndefined
  <2> QED BY <1>3, <2>1, <2>2, TrackedCache
<1> QED BY <1>1, <1>2, <1>3

\* A well-formed cache with room for an entry can always take one: no end
\* iterator is dereferenced, no assertion fails, the pool is not overrun.
LEMMA ReserveIsDefined ==
  ASSUME NEW c, NEW H, NEW V, CacheOf(c, H, V), WellFormed(c),
         0 < c.size, c.size <= Len(c.pool), NEW h \in H
  PROVE  ~ReserveUndefined(c, h)
<1>1. Len(c.tracker) = Cardinality(Mapped(c))
  BY TrackerCountsEntries DEF WellFormed
<1>2. CASE h \in Mapped(c)
  BY <1>2, CacheFields
  DEF WellFormed, TrackerListsMap, ReserveUndefined, BumpUndefined
<1>3. CASE h \notin Mapped(c) /\ Full(c)
  <2>1. Len(c.tracker) >= c.size
    BY <1>1, <1>3 DEF Full
  <2>2. c.tracker # <<>>
    BY <2>1, CacheFields, EmptySeq
  <2>3. Head(c.tracker) = c.tracker[1] /\ 1 \in DOMAIN c.tracker
    BY <2>1, CacheFields
  <2>4. Head(c.tracker) \in Mapped(c)
    BY <2>3 DEF WellFormed, TrackerListsMap, ToSet
  <2> QED BY <1>3, <2>2, <2>4 DEF ReserveUndefined, EvictUndefined
<1>4. CASE h \notin Mapped(c) /\ ~Full(c)
  BY <1>1, <1>4, CacheFields DEF ReserveUndefined, Full
<1> QED BY <1>2, <1>3, <1>4

\* A well-formed cache that is not full stays so when it takes a new hash.
LEMMA TrackKeepsWellFormed ==
  ASSUME NEW c, NEW H, NEW V, CacheOf(c, H, V), WellFormed(c),
         Len(c.tracker) < c.size, c.size <= Len(c.pool),
         NEW h \in H, h \notin Mapped(c)
  PROVE  WellFormed(Track(c, h, Len(c.tracker) + 1))
<1> DEFINE n == Len(c.tracker)
           d == Track(c, h, n + 1)
<1>1. n \in Nat /\ n + 1 \in DOMAIN c.pool /\ c.size \in Nat
      /\ DOMAIN c.tracker = 1..n
  BY CacheFields
<1>2. /\ d.size = c.size
      /\ d.tracker = Append(c.tracker, h)
      /\ Mapped(d) = Mapped(c) \cup {h}
      /\ d.map[h] = n + 1
      /\ \A g \in Mapped(c) : d.map[g] = c.map[g]
  BY <1>1, TrackedCache
<1> HIDE DEF d
<1>3. /\ Len(d.tracker) = n + 1
      /\ DOMAIN d.tracker = 1..n + 1
      /\ \A i \in 1..n : d.tracker[i] = c.tracker[i]
      /\ d.tracker[n + 1] = h
  BY <1>1, <1>2, CacheFields, AppendProperties, LenProperties
<1>4. /\ \A i, j \in 1..n : c.tracker[i] = c.tracker[j] => i = j
      /\ \A i \in 1..n : c.tracker[i] \in Mapped(c)
      /\ \A g \in Mapped(c) : \E i \in 1..n : c.tracker[i] = g
  BY <1>1 DEF WellFormed, TrackerListsMap, ToSet
<1>5. TrackerListsMap(d)
  <2>1. \A i, j \in 1..n + 1 : d.tracker[i] = d.tracker[j] => i = j
    <3>1. \A i \in 1..n + 1 : i \in 1..n \/ i = n + 1
      BY <1>1
    <3> QED BY <1>3, <1>4, <3>1
  <2>2. ToSet(d.tracker) \subseteq Mapped(d)
    <3>1. \A i \in 1..n + 1 : i \in 1..n \/ i = n + 1
      BY <1>1
    <3> QED BY <1>2, <1>3, <1>4, <3>1 DEF ToSet
  <2>3. Mapped(d) \subseteq ToSet(d.tracker)
    <3>1. \A i \in 1..n : i \in 1..n + 1
      BY <1>1
    <3>2. n + 1 \in 1..n + 1
      BY <1>1
    <3> QED BY <1>2, <1>3, <1>4, <3>1, <3>2 DEF ToSet
  <2>4. Len(d.tracker) <= d.size
    BY <1>1, <1>2, <1>3
  <2> QED BY <1>3, <2>1, <2>2, <2>3, <2>4 DEF TrackerListsMap
<1>6. SlotsArePacked(d)
  <2>1. /\ \A f, g \in Mapped(c) : c.map[f] = c.map[g] => f = g
        /\ {c.map[g] : g \in Mapped(c)} = 1..n
    BY DEF WellFormed, SlotsArePacked
  <2>2. \A g \in Mapped(c) : d.map[g] \in 1..n
    BY <1>2, <2>1
  <2>3. \A f, g \in Mapped(d) : d.map[f] = d.map[g] => f = g
    <3>1. n + 1 \notin 1..n
      BY <1>1
    <3> QED BY <1>2, <2>1, <2>2, <3>1
  <2>4. {d.map[g] : g \in Mapped(d)} = (1..n) \cup {n + 1}
    BY <1>2, <2>1
  <2>5. (1..n) \cup {n + 1} = 1..n + 1
    BY <1>1
  <2> QED BY <1>3, <2>3, <2>4, <2>5 DEF SlotsArePacked
<1> QED BY <1>5, <1>6 DEF WellFormed, d

\* Nor is a well-formed cache disturbed when the least recently used entry
\* gives its slot to a new hash.
LEMMA EvictionKeepsWellFormed ==
  ASSUME NEW c, NEW H, NEW V, CacheOf(c, H, V), WellFormed(c),
         c.tracker # <<>>, NEW h \in H, h \notin Mapped(c)
  PROVE  WellFormed(Track(Evict(c), h, c.map[Head(c.tracker)]))
<1> DEFINE n == Len(c.tracker)
           old == Head(c.tracker)
           slot == c.map[old]
           d == Track(Evict(c), h, slot)
<1>1. n \in Nat \ {0} /\ c.size \in Nat /\ DOMAIN c.tracker = 1..n
  BY CacheFields, EmptySeq
<1>2. old = c.tracker[1] /\ 1 \in 1..n
  BY <1>1, CacheFields
<1>3. /\ \A i, j \in 1..n : c.tracker[i] = c.tracker[j] => i = j
      /\ \A i \in 1..n : c.tracker[i] \in Mapped(c)
      /\ \A g \in Mapped(c) : \E i \in 1..n : c.tracker[i] = g
      /\ n <= c.size
  BY <1>1 DEF WellFormed, TrackerListsMap, ToSet
<1>4. ~EvictUndefined(c) /\ slot \in DOMAIN c.pool
  BY <1>2, <1>3 DEF EvictUndefined, CacheOf
<1>5. /\ d.size = c.size
      /\ d.tracker = Append(Tail(c.tracker), h)
      /\ Mapped(d) = (Mapped(c) \ {old}) \cup {h}
      /\ d.map[h] = slot
      /\ \A g \in Mapped(c) \ {old} : d.map[g] = c.map[g]
  <2> HIDE DEF old, slot
  <2>1. /\ CacheOf(Evict(c), H, V)
        /\ Evict(c).size = c.size
        /\ Evict(c).pool = c.pool
        /\ Evict(c).tracker = Tail(c.tracker)
        /\ Mapped(Evict(c)) = Mapped(c) \ {old}
        /\ \A g \in Mapped(c) \ {old} : Evict(c).map[g] = c.map[g]
    BY <1>4, EvictedCache DEF old
  <2>2. /\ d.size = Evict(c).size
        /\ d.tracker = Append(Evict(c).tracker, h)
        /\ Mapped(d) = Mapped(Evict(c)) \cup {h}
        /\ d.map[h] = slot
        /\ \A g \in Mapped(Evict(c)) \ {h} : d.map[g] = Evict(c).map[g]
    <3>1. CacheOf(Evict(c), H, V) /\ slot \in DOMAIN Evict(c).pool
      BY <1>4, <2>1
    <3> DEFINE e == Evict(c)
    <3> HIDE DEF e
    <3>2. CacheOf(e, H, V) /\ slot \in DOMAIN e.pool
      BY <3>1 DEF e
    <3>3. /\ Track(e, h, slot).size = e.size
          /\ Track(e, h, slot).tracker = Append(e.tracker, h)
          /\ Mapped(Track(e, h, slot)) = Mapped(e) \cup {h}
          /\ Track(e, h, slot).map[h] = slot
          /\ \A g \in Mapped(e) \ {h} :
               Track(e, h, slot).map[g] = e.map[g]
      BY <3>2, TrackedCache
    <3> QED BY <3>3 DEF e
  <2>3. h \notin Mapped(c)
    OBVIOUS
  <2> HIDE DEF d
  <2> QED BY <2>1, <2>2, <2>3
<1>6. /\ Len(d.tracker) = n
      /\ DOMAIN d.tracker = 1..n
      /\ \A i \in 1..n : d.tracker[i] = IF i < n THEN c.tracker[i + 1] ELSE h
  <2>1. /\ Tail(c.tracker) \in Seq(H)
        /\ Len(Tail(c.tracker)) = n - 1
        /\ \A i \in 1..n - 1 : Tail(c.tracker)[i] = c.tracker[i + 1]
    BY CacheFields, HeadTailProperties
  <2>2. /\ d.tracker \in Seq(H)
        /\ Len(d.tracker) = n - 1 + 1
        /\ \A i \in 1..n - 1 : d.tracker[i] = Tail(c.tracker)[i]
        /\ d.tracker[n - 1 + 1] = h
    BY <1>5, <2>1, AppendProperties
  <2>3. n - 1 + 1 = n /\ \A i \in 1..n : i < n <=> i \in 1..n - 1
    BY <1>1
  <2>4. \A i \in 1..n : i < n \/ i = n
    BY <1>1
  <2> HIDE DEF n, d
  <2> QED BY <1>1, <2>1, <2>2, <2>3, <2>4, LenProperties
<1>7. /\ \A f, g \in Mapped(c) : c.map[f] = c.map[g] => f = g
      /\ {c.map[g] : g \in Mapped(c)} = 1..n
  BY DEF WellFormed, SlotsArePacked
<1>8. old \in Mapped(c) /\ h # old /\ slot = c.map[old]
  BY <1>2, <1>3
<1> HIDE DEF n, old, slot, d
<1>9. TrackerListsMap(d)
  <2>1. \A i \in 1..n : i < n \/ i = n
    BY <1>1
  <2>2. \A i \in 1..n : i < n => i + 1 \in 1..n /\ i + 1 # 1
    BY <1>1
  <2>3. \A i \in 1..n : i < n => c.tracker[i + 1] \in Mapped(c) \ {old}
    BY <1>2, <1>3, <2>2
  <2>4. \A i, j \in 1..n : d.tracker[i] = d.tracker[j] => i = j
    <3>1. ASSUME NEW i \in 1..n, NEW j \in 1..n, i < n, j < n,
                 d.tracker[i] = d.tracker[j]
          PROVE  i = j
      <4>1. c.tracker[i + 1] = c.tracker[j + 1]
        BY <1>6, <3>1
      <4>2. i + 1 = j + 1
        BY <1>3, <2>2, <3>1, <4>1
      <4> QED BY <1>1, <4>2
    <3>2. \A i \in 1..n : i < n => d.tracker[i] # h
      BY <1>6, <2>3
    <3>3. d.tracker[n] = h
      BY <1>1, <1>6
    <3> QED BY <2>1, <3>1, <3>2, <3>3
  <2>5. ToSet(d.tracker) \subseteq Mapped(d)
    BY <1>5, <1>6, <2>1, <2>3 DEF ToSet
  <2>6. Mapped(d) \subseteq ToSet(d.tracker)
    <3>1. ASSUME NEW g \in Mapped(c) \ {old} PROVE g \in ToSet(d.tracker)
      <4>1. PICK i \in 1..n : c.tracker[i] = g
        BY <1>3
      <4>2. i # 1
        BY <1>2, <4>1
      <4>3. i - 1 \in 1..n /\ i - 1 < n /\ (i - 1) + 1 = i
        BY <1>1, <4>2
      <4>4. d.tracker[i - 1] = g
        BY <1>6, <4>1, <4>3
      <4> QED BY <1>6, <4>3, <4>4 DEF ToSet
    <3>2. h \in ToSet(d.tracker)
      BY <1>1, <1>6 DEF ToSet
    <3> QED BY <1>5, <3>1, <3>2
  <2>7. Len(d.tracker) <= d.size
    BY <1>3, <1>5, <1>6
  <2> QED BY <1>6, <2>4, <2>5, <2>6, <2>7 DEF TrackerListsMap
<1>10. SlotsArePacked(d)
  <2>1. \A f, g \in Mapped(d) : d.map[f] = d.map[g] => f = g
    BY <1>5, <1>7, <1>8
  <2>2. {d.map[g] : g \in Mapped(d)} = {c.map[g] : g \in Mapped(c)}
    <3>1. \A g \in Mapped(d) : \E f \in Mapped(c) : d.map[g] = c.map[f]
      BY <1>5, <1>8
    <3>2. \A f \in Mapped(c) : \E g \in Mapped(d) : d.map[g] = c.map[f]
      BY <1>5, <1>8
    <3> QED BY <3>1, <3>2
  <2> QED BY <1>6, <1>7, <2>1, <2>2 DEF SlotsArePacked
<1> QED BY <1>9, <1>10 DEF WellFormed, d, slot, old

\* insert and operator[] keep a cache well formed, on a hit, on a miss with
\* room left and on a miss that evicts.
LEMMA ReserveKeepsWellFormed ==
  ASSUME NEW c, NEW H, NEW V, CacheOf(c, H, V), WellFormed(c),
         0 < c.size, c.size <= Len(c.pool), NEW h \in H
  PROVE  WellFormed(Reserve(c, h))
<1>1. ~ReserveUndefined(c, h)
  BY ReserveIsDefined
<1>2. Len(c.tracker) = Cardinality(Mapped(c))
  BY TrackerCountsEntries DEF WellFormed
<1>3. CASE h \in Mapped(c)
  BY <1>1, <1>3, BumpedCache DEF Reserve, ReserveUndefined, BumpUndefined
<1>4. CASE h \notin Mapped(c) /\ Full(c)
  <2>1. Reserve(c, h) = Track(Evict(c), h, c.map[Head(c.tracker)])
    BY <1>4 DEF Reserve, FreeSlot
  <2>2. c.tracker # <<>>
    BY <1>1, <1>4 DEF ReserveUndefined, EvictUndefined
  <2> QED BY <1>4, <2>1, <2>2, EvictionKeepsWellFormed
<1>5. CASE h \notin Mapped(c) /\ ~Full(c)
  <2>1. Reserve(c, h) = Track(c, h, Len(c.tracker) + 1)
    BY <1>5 DEF Reserve, FreeSlot
  <2>2. Len(c.tracker) < c.size
    BY <1>2, <1>5, CacheFields DEF Full
  <2> QED BY <1>5, <2>1, <2>2, TrackKeepsWellFormed
<1> QED BY <1>3, <1>4, <1>5

\* Storing a value keeps the cache typed, and well formed if it was.
LEMMA StoredCache ==
  ASSUME NEW c, NEW H, NEW V, CacheOf(c, H, V),
         NEW h \in H, ~ReserveUndefined(c, h), NEW v \in V
  PROVE  /\ CacheOf(Store(c, h, v), H, V)
         /\ Store(c, h, v).size = c.size
         /\ Len(Store(c, h, v).pool) = Len(c.pool)
         /\ WellFormed(Reserve(c, h)) => WellFormed(Store(c, h, v))
<1> DEFINE r == Reserve(c, h)
           p == [r.pool EXCEPT ![r.map[h]] = v]
<1>1. CacheOf(r, H, V) /\ h \in Mapped(r) /\ r.size = c.size /\ r.pool = c.pool
  BY ReservedCache
<1>2. Store(c, h, v) = [size |-> r.size, tracker |-> r.tracker, map |-> r.map,
                        pool |-> p]
  BY DEF Store, Assign, Cache
<1> HIDE DEF r
<1>3. r.map[h] \in 1..Len(r.pool) /\ r.pool \in Seq(V)
  BY <1>1, CacheFields DEF CacheOf
<1>4. p \in Seq(V) /\ Len(p) = Len(r.pool) /\ DOMAIN p = DOMAIN r.pool
  BY <1>3, ExceptSeq, LenProperties
<1> HIDE DEF p
<1>5. CacheOf(Store(c, h, v), H, V)
  BY <1>1, <1>2, <1>4, CacheFields DEF CacheOf, Mapped
<1>6. ASSUME WellFormed(r) PROVE WellFormed(Store(c, h, v))
  BY <1>2, <1>6 DEF WellFormed, TrackerListsMap, SlotsArePacked, Mapped
<1> QED BY <1>1, <1>2, <1>4, <1>5, <1>6 DEF r

\* insert and operator[] are never defined on a cache of capacity 0.
LEMMA ReserveNeedsRoom ==
  ASSUME NEW c, NEW H, NEW V, CacheOf(c, H, V), WellFormed(c), NEW h \in H,
         ~ReserveUndefined(c, h)
  PROVE  c.size # 0
<1> SUFFICES ASSUME c.size = 0 PROVE FALSE
  OBVIOUS
<1>1. Len(c.tracker) = 0 /\ c.tracker = <<>>
  BY CacheFields, EmptySeq DEF WellFormed, TrackerListsMap
<1>2. Mapped(c) = {}
  BY <1>1 DEF WellFormed, TrackerListsMap, ToSet
<1>3. Full(c)
  BY <1>1, TrackerCountsEntries DEF Full, WellFormed
<1> QED BY <1>1, <1>2, <1>3 DEF ReserveUndefined, EvictUndefined

\* Storing changes the value of one hash: no entry takes the value of another.
LEMMA StoredValues ==
  ASSUME NEW c, NEW H, NEW V, CacheOf(c, H, V), WellFormed(c),
         0 < c.size, c.size <= Len(c.pool), NEW h \in H, NEW v \in V
  PROVE  /\ CacheOf(Store(c, h, v), H, V) /\ WellFormed(Store(c, h, v))
         /\ Store(c, h, v).tracker = Reserve(c, h).tracker
         /\ ValueAt(Store(c, h, v), h) = v
         /\ \A g \in Mapped(Store(c, h, v)) \ {h} :
              ValueAt(Store(c, h, v), g) = ValueAt(c, g)
<1> DEFINE r == Reserve(c, h)
           d == Store(c, h, v)
<1>1. ~ReserveUndefined(c, h) /\ WellFormed(r)
  BY ReserveIsDefined, ReserveKeepsWellFormed
<1>2. /\ CacheOf(r, H, V) /\ h \in Mapped(r) /\ r.pool = c.pool
      /\ \A g \in Mapped(r) \ {h} : g \in Mapped(c) /\ r.map[g] = c.map[g]
  BY <1>1, ReservedCache
<1>3. CacheOf(d, H, V) /\ WellFormed(d)
  BY <1>1, StoredCache
<1>4. /\ d.tracker = r.tracker /\ d.map = r.map
      /\ d.pool = [c.pool EXCEPT ![r.map[h]] = v]
  BY <1>2 DEF Store, Assign, Cache
<1>5. r.map[h] \in DOMAIN c.pool
  BY <1>2 DEF CacheOf
<1>6. \A g \in Mapped(r) \ {h} : r.map[g] # r.map[h]
  BY <1>1, <1>2 DEF WellFormed, SlotsArePacked
<1> HIDE DEF r, d
<1>7. ASSUME NEW g \in Mapped(d) \ {h} PROVE ValueAt(d, g) = ValueAt(c, g)
  <2>1. g \in Mapped(r) \ {h}
    BY <1>4 DEF Mapped
  <2> QED BY <1>2, <1>4, <1>6, <2>1 DEF ValueAt
<1>8. ValueAt(d, h) = v
  BY <1>4, <1>5 DEF ValueAt
<1> QED BY <1>3, <1>4, <1>7, <1>8 DEF r, d

(***************************************************************************)
(* Recency: how soon an entry is evicted.                                  *)
(***************************************************************************)

\* h is tracked, and at most n hashes were used since it was.
UsedSince(c, h, n) ==
  \E p \in 1..Len(c.tracker) : c.tracker[p] = h /\ Len(c.tracker) - p <= n

\* The hash stored is the last one used.  Another stays in the cache if it
\* was not the next to be evicted, with one more hash used since, unless the
\* one stored was tracked behind it.
LEMMA RecencyKept ==
  ASSUME NEW c, NEW H, NEW V, CacheOf(c, H, V), WellFormed(c),
         0 < c.size, c.size <= Len(c.pool), NEW h \in H
  PROVE  LET r == Reserve(c, h)
         IN /\ UsedSince(r, h, 0)
            /\ \A g : \A n \in Nat :
                 UsedSince(c, g, n) /\ (h \in Mapped(c) \/ n + 1 < c.size) =>
                   UsedSince(r, g, n + 1)
            /\ \A g : \A m, n \in Nat :
                 UsedSince(c, h, m) /\ m < n /\ UsedSince(c, g, n) => UsedSince(r, g, n)
<1> DEFINE t == c.tracker
           k == Len(t)
           u == Reserve(c, h).tracker
           l == Len(u)
<1>1. /\ t \in Seq(H) /\ k \in Nat /\ DOMAIN t = 1..k /\ c.size \in Nat
      /\ Cardinality(Mapped(c)) = k /\ k <= c.size
      /\ ToSet(t) = Mapped(c) /\ Distinct(t)
      /\ ~ReserveUndefined(c, h)
  BY CacheFields, TrackerCountsEntries, ReserveIsDefined
  DEF WellFormed, TrackerListsMap, Distinct
<1>2. CASE h \in Mapped(c)
  <2>1. u = Spliced(t, h)
    BY <1>2 DEF Reserve, Bump, Cache, Spliced
  <2>2. h \in ToSet(t)
    BY <1>1, <1>2
  <2> HIDE DEF t, u
  <2>3. PICK i \in 1..k :
          /\ l = k /\ t[i] = h
          /\ \A j \in 1..k : u[j] = IF j < i THEN t[j] ELSE IF j < k THEN t[j + 1] ELSE h
    BY <1>1, <2>1, <2>2, SplicedElements
  <2>4. l = k /\ u[l] = h /\ l \in 1..l
    BY <1>1, <2>3
  <2>5. ASSUME NEW g, NEW n \in Nat, NEW p \in 1..k, t[p] = g, k - p <= n
        PROVE  \E q \in 1..l : u[q] = g /\ l - q <= n + 1
    <3>1. CASE p < i
      BY <1>1, <2>3, <2>5, <3>1
    <3>2. CASE p = i
      BY <1>1, <2>3, <2>4, <2>5, <3>2
    <3>3. CASE p > i
      <4>1. p - 1 \in 1..k /\ ~(p - 1 < i) /\ p - 1 < k /\ p - 1 + 1 = p
        BY <1>1, <3>3
      <4>2. u[p - 1] = g
        BY <2>3, <2>5, <4>1
      <4>3. l - (p - 1) <= n + 1
        BY <1>1, <2>3, <2>5
      <4> QED BY <2>3, <4>1, <4>2, <4>3
    <3> QED BY <3>1, <3>2, <3>3
  <2>6. ASSUME NEW g, NEW m \in Nat, NEW n \in Nat, m < n, NEW p \in 1..k, t[p] = g,
               k - p <= n, NEW o \in 1..k, t[o] = h, k - o <= m
        PROVE  \E q \in 1..l : u[q] = g /\ l - q <= n
    <3>1. o = i
      BY <1>1, <2>3, <2>6 DEF Distinct
    <3>2. CASE p < i
      BY <1>1, <2>3, <2>6, <3>2
    <3>3. CASE p = i
      BY <1>1, <2>3, <2>4, <2>6, <3>3
    <3>4. CASE p > i
      <4>1. p - 1 \in 1..k /\ ~(p - 1 < i) /\ p - 1 < k /\ p - 1 + 1 = p
        BY <1>1, <3>4
      <4>2. u[p - 1] = g
        BY <2>3, <2>6, <4>1
      <4>3. l - (p - 1) <= n
        BY <1>1, <2>3, <2>6, <3>1, <3>4
      <4> QED BY <2>3, <4>1, <4>2, <4>3
    <3> QED BY <3>2, <3>3, <3>4
  <2> HIDE DEF k, l
  <2>7. UsedSince(Reserve(c, h), h, 0)
    BY <1>1, <2>4 DEF UsedSince, l, u
  <2>8. ASSUME NEW g, NEW n \in Nat, UsedSince(c, g, n) PROVE UsedSince(Reserve(c, h), g, n + 1)
    <3>1. PICK p \in 1..k : t[p] = g /\ k - p <= n
      BY <2>8 DEF UsedSince, k, t
    <3>2. \E q \in 1..l : u[q] = g /\ l - q <= n + 1
      BY <2>5, <3>1
    <3> QED BY <3>2 DEF UsedSince, l, u
  <2>9. ASSUME NEW g, NEW m \in Nat, NEW n \in Nat, UsedSince(c, h, m), m < n, UsedSince(c, g, n)
        PROVE  UsedSince(Reserve(c, h), g, n)
    <3>1. PICK p \in 1..k : t[p] = g /\ k - p <= n
      BY <2>9 DEF UsedSince, k, t
    <3>2. PICK o \in 1..k : t[o] = h /\ k - o <= m
      BY <2>9 DEF UsedSince, k, t
    <3>3. \E q \in 1..l : u[q] = g /\ l - q <= n
      BY <2>6, <2>9, <3>1, <3>2
    <3> QED BY <3>3 DEF UsedSince, l, u
  <2> QED BY <2>7, <2>8, <2>9
<1>3. CASE h \notin Mapped(c)
  <2> DEFINE s == IF Full(c) THEN Tail(t) ELSE t
  <2>1. u = Append(s, h)
    BY <1>3 DEF Reserve, Track, Evict, Cache
  <2>2. Full(c) => k = c.size /\ t # <<>>
    BY <1>1, EmptySeq DEF Full
  <2>3. /\ s \in Seq(H) /\ Len(s) = IF Full(c) THEN k - 1 ELSE k
        /\ \A j \in 1..Len(s) : s[j] = IF Full(c) THEN t[j + 1] ELSE t[j]
    BY <1>1, <2>2, HeadTailProperties
  <2> HIDE DEF s, t, u
  <2>4. /\ l = Len(s) + 1 /\ u[l] = h /\ \A j \in 1..Len(s) : u[j] = s[j]
        /\ l \in 1..l
    <3>1. Len(s) \in Nat
      BY <2>3, LenProperties
    <3> QED BY <2>1, <2>3, <3>1, AppendProperties
  <2>5. ASSUME NEW g, NEW n \in Nat, NEW p \in 1..k, t[p] = g, k - p <= n, n + 1 < c.size
        PROVE  \E q \in 1..l : u[q] = g /\ l - q <= n + 1
    <3>1. CASE Full(c)
      <4>1. p - 1 \in 1..Len(s) /\ p - 1 + 1 = p
        BY <1>1, <2>2, <2>3, <2>5, <3>1
      <4>2. u[p - 1] = g
        BY <2>3, <2>4, <2>5, <3>1, <4>1
      <4>3. l - (p - 1) <= n + 1 /\ p - 1 \in 1..l
        BY <1>1, <2>3, <2>4, <2>5, <3>1, <4>1
      <4> QED BY <4>2, <4>3
    <3>2. CASE ~Full(c)
      <4>1. u[p] = g
        BY <1>1, <2>3, <2>4, <2>5, <3>2
      <4>2. p \in 1..l /\ l - p <= n + 1
        BY <1>1, <2>3, <2>4, <2>5, <3>2
      <4> QED BY <4>1, <4>2
    <3> QED BY <3>1, <3>2
  <2>6. \A p \in 1..k : t[p] # h
    BY <1>1, <1>3 DEF ToSet
  <2> HIDE DEF k, l
  <2>7. UsedSince(Reserve(c, h), h, 0)
    BY <1>1, <2>3, <2>4, LenProperties DEF UsedSince, l, u
  <2>8. ASSUME NEW g, NEW n \in Nat, UsedSince(c, g, n), n + 1 < c.size
        PROVE  UsedSince(Reserve(c, h), g, n + 1)
    <3>1. PICK p \in 1..k : t[p] = g /\ k - p <= n
      BY <2>8 DEF UsedSince, k, t
    <3>2. \E q \in 1..l : u[q] = g /\ l - q <= n + 1
      BY <2>5, <2>8, <3>1
    <3> QED BY <3>2 DEF UsedSince, l, u
  <2>9. ASSUME NEW m, UsedSince(c, h, m) PROVE FALSE
    BY <2>6, <2>9 DEF UsedSince, k, t
  <2> QED BY <1>3, <2>7, <2>8, <2>9
<1> QED BY <1>2, <1>3

=============================================================================
