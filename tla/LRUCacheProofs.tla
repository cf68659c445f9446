--------------------------- MODULE LRUCacheProofs ---------------------------
(***************************************************************************)
(* Theorems about LRUCache: its three invariants are inductive together,   *)
(* and it implements LRUStore, the cache as a list of entries by last use. *)
(***************************************************************************)
EXTENDS LRUCache, LRUCacheDataProofs

Contents == Values \cup {Blank}
IInv == TypeOK /\ Consistent /\ NoUndefinedBehaviour

\* The caches the constructor makes satisfy the invariant.
LEMMA InitIInv == Init => IInv
<1> SUFFICES ASSUME Init PROVE IInv
  OBVIOUS
<1>1. PICK n \in Sizes : cache = New(n)
  BY DEF Init
<1>2. CacheOf(cache, Hash, Contents) /\ WellFormed(cache)
  BY <1>1, NewCache, SizesAssumption DEF Contents
<1> QED BY <1>2
  DEF Init, IInv, TypeOK, Consistent, NoUndefinedBehaviour, Contents

\* A call that may reserve an entry: defined on every regular cache that can
\* hold one, and it leaves the invariant to its result.
LEMMA ReservingStep ==
  ASSUME IInv, NEW k \in Keys, NEW next, NEW ans, Reserving(k, next, ans),
         ~ReserveUndefined(cache, HashOf[k]) =>
           /\ CacheOf(next, Hash, Contents)
           /\ next.size = cache.size /\ Len(next.pool) = Len(cache.pool)
           /\ WellFormed(Reserve(cache, HashOf[k])) => WellFormed(next)
           /\ ans \in Contents
  PROVE  IInv'
<1> DEFINE h == HashOf[k]
<1>1. h \in Hash /\ CacheOf(cache, Hash, Contents)
  BY HashAssumption DEF IInv, TypeOK, Contents
<1>2. cache.size \in Nat
  BY <1>1, CacheFields
<1>3. ASSUME Regular, cache.size # 0
      PROVE  ~ReserveUndefined(cache, h) /\ WellFormed(Reserve(cache, h))
  <2>1. WellFormed(cache) /\ 0 < cache.size /\ cache.size <= Len(cache.pool)
    BY <1>2, <1>3 DEF IInv, Consistent, Regular
  <2> HIDE DEF h
  <2> QED BY <1>1, <2>1, ReserveIsDefined, ReserveKeepsWellFormed
<1>4. CASE ReserveUndefined(cache, h)
  BY <1>3, <1>4
  DEF Reserving, IInv, TypeOK, Consistent, NoUndefinedBehaviour, Regular
<1>5. CASE ~ReserveUndefined(cache, h)
  <2>1. /\ cache' = next /\ answer' = ans
        /\ undefined' = FALSE /\ resized' = resized
    BY <1>5 DEF Reserving
  <2>2. TypeOK'
    BY <1>5, <2>1 DEF TypeOK, Contents, IInv
  <2>3. ASSUME Regular' PROVE WellFormed(cache)'
    <3>1. Regular
      BY <1>5, <2>1, <2>3 DEF Regular
    <3>2. cache.size # 0
      <4>1. SUFFICES ASSUME cache.size = 0 PROVE FALSE
        OBVIOUS
      <4>2. WellFormed(cache) /\ Len(cache.tracker) \in Nat
        BY <1>1, <3>1, CacheFields DEF IInv, Consistent
      <4>3. Len(cache.tracker) = 0 /\ DOMAIN cache.tracker = {}
        BY <1>1, <4>1, <4>2, CacheFields DEF WellFormed, TrackerListsMap
      <4>4. Mapped(cache) = {} /\ cache.tracker = <<>>
        BY <1>1, <4>2, <4>3, CacheFields, EmptySeq
        DEF WellFormed, TrackerListsMap, ToSet
      <4>5. Full(cache)
        BY <4>1, <4>4, FS_EmptySet DEF Full
      <4> QED BY <1>5, <4>4, <4>5 DEF ReserveUndefined, EvictUndefined
    <3> QED BY <1>3, <1>5, <2>1, <3>1, <3>2
  <2> QED BY <2>1, <2>2, <2>3 DEF IInv, Consistent, NoUndefinedBehaviour
<1> QED BY <1>4, <1>5

\* Every operation of the public interface preserves the invariant.
LEMMA NextIInv == IInv /\ [Next]_vars => IInv'
<1> SUFFICES ASSUME IInv, [Next]_vars PROVE IInv'
  OBVIOUS
<1>1. CacheOf(cache, Hash, Contents) /\ answer \in Contents \cup {Miss}
  BY DEF IInv, TypeOK, Contents
<1>2. ASSUME NEW k \in Keys, NEW v \in Values, Insert(k, v)
      PROVE  IInv'
  <2> DEFINE next == Store(cache, HashOf[k], v)
  <2>1. HashOf[k] \in Hash /\ v \in Contents
    BY HashAssumption DEF Contents
  <2>2. Reserving(k, next, v)
    BY <1>2 DEF Insert
  <2>3. ASSUME ~ReserveUndefined(cache, HashOf[k])
        PROVE  /\ CacheOf(next, Hash, Contents)
               /\ next.size = cache.size /\ Len(next.pool) = Len(cache.pool)
               /\ WellFormed(Reserve(cache, HashOf[k])) => WellFormed(next)
    BY <1>1, <2>1, <2>3, StoredCache
  <2> HIDE DEF next
  <2> QED BY <2>1, <2>2, <2>3, ReservingStep
<1>3. ASSUME NEW k \in Keys, Access(k)
      PROVE  IInv'
  <2> DEFINE next == Reserve(cache, HashOf[k])
             ans == ValueAt(next, HashOf[k])
  <2>1. HashOf[k] \in Hash
    BY HashAssumption
  <2>2. Reserving(k, next, ans)
    BY <1>3 DEF Access
  <2>3. ASSUME ~ReserveUndefined(cache, HashOf[k])
        PROVE  /\ CacheOf(next, Hash, Contents)
               /\ next.size = cache.size /\ Len(next.pool) = Len(cache.pool)
               /\ ans \in Contents
    <3>1. /\ CacheOf(next, Hash, Contents) /\ HashOf[k] \in Mapped(next)
          /\ next.size = cache.size /\ next.pool = cache.pool
      BY <1>1, <2>1, <2>3, ReservedCache
    <3> HIDE DEF next
    <3>2. next.map[HashOf[k]] \in 1..Len(next.pool)
      BY <3>1, CacheFields DEF CacheOf
    <3>3. ans \in Contents
      BY <3>1, <3>2, CacheFields, ElementOfSeq DEF ValueAt
    <3> QED BY <3>1, <3>3
  <2>4. WellFormed(Reserve(cache, HashOf[k])) => WellFormed(next)
    OBVIOUS
  <2> HIDE DEF next, ans
  <2> QED BY <2>2, <2>3, <2>4, ReservingStep
<1>4. ASSUME NEW k \in Keys, Find(k)
      PROVE  IInv'
  <2>1. cache' = cache /\ undefined' = undefined /\ resized' = resized
    BY <1>4 DEF Find
  <2>2. answer' \in Contents \cup {Miss}
    <3>1. CASE HashOf[k] \in Mapped(cache)
      <4>1. cache.map[HashOf[k]] \in 1..Len(cache.pool)
        BY <1>1, <3>1, CacheFields DEF CacheOf
      <4>2. ValueAt(cache, HashOf[k]) \in Contents
        BY <1>1, <4>1, CacheFields, ElementOfSeq DEF ValueAt
      <4> QED BY <1>4, <3>1, <4>2 DEF Find
    <3>2. CASE HashOf[k] \notin Mapped(cache)
      BY <1>4, <3>2 DEF Find
    <3> QED BY <3>1, <3>2
  <2> QED BY <2>1, <2>2
    DEF IInv, TypeOK, Consistent, NoUndefinedBehaviour, Regular, Contents
<1>5. CASE Clear
  <2>1. /\ cache' = Cleared(cache) /\ answer' = answer
        /\ undefined' = FALSE /\ resized' = FALSE
    BY <1>5 DEF Clear, IInv, TypeOK
  <2>2. CacheOf(cache', Hash, Contents) /\ WellFormed(cache')
    BY <1>1, <2>1, ClearedCache
  <2> QED BY <1>1, <2>1, <2>2
    DEF IInv, TypeOK, Consistent, NoUndefinedBehaviour, Contents
<1>6. ASSUME NEW n \in Sizes, Resize(n)
      PROVE  IInv'
  <2>1. /\ cache' = Resized(cache, n) /\ answer' = answer
        /\ undefined' = FALSE /\ resized' = TRUE
    BY <1>6 DEF Resize, IInv, TypeOK
  <2>2. CacheOf(cache', Hash, Contents)
    BY <1>1, <2>1, ResizedCache, SizesAssumption, HashAssumption
  <2> QED BY <1>1, <2>1, <2>2
    DEF IInv, TypeOK, Consistent, NoUndefinedBehaviour, Contents, Regular
<1>7. CASE UNCHANGED vars
  BY <1>7
  DEF vars, IInv, TypeOK, Consistent, NoUndefinedBehaviour, Regular
<1> QED BY <1>2, <1>3, <1>4, <1>5, <1>6, <1>7 DEF Next

\* The invariant holds in every reachable state, for any keys, values, hash
\* function and sizes: the induction the three theorems below rest on.
THEOREM Invariance == Spec => []IInv
  BY InitIInv, NextIInv, PTL DEF Spec

\* Type correctness: in particular every entry's slot is a slot of the pool,
\* even after a resize.
THEOREM TypeCorrectness == Spec => []TypeOK
<1>1. IInv => TypeOK
  BY DEF IInv
<1> QED BY <1>1, Invariance, PTL

\* tracker_, map_ and pool_ stay consistent in a cache that is not resized,
\* whatever is inserted, read, looked up and cleared, in whatever order.
THEOREM Consistency == Spec => []Consistent
<1>1. IInv => Consistent
  BY DEF IInv
<1> QED BY <1>1, Invariance, PTL

\* Such a cache, of any size but 0, never fails an assertion, dereferences an
\* end iterator or leaves its pool.
THEOREM DefinedBehaviour == Spec => []NoUndefinedBehaviour
<1>1. IInv => NoUndefinedBehaviour
  BY DEF IInv
<1> QED BY <1>1, Invariance, PTL

-----------------------------------------------------------------------------
(* LRUCache implements LRUStore: what the list of hashes, the map and the  *)
(* pool hold together is the list of entries by last use that the abstract *)
(* specification promises, for any keys, values, hash function and sizes.  *)

\* The entries of a cache, as the refinement mapping of LRUCache reads them.
EntriesOf(c) ==
  [i \in DOMAIN c.tracker |->
     [hash |-> c.tracker[i], value |-> ValueAt(c, c.tracker[i])]]

Entry(H, V) == [hash : H, value : V]

\* The entries of a well-formed cache are a sequence as long as the tracker.
LEMMA EntriesAreASequence ==
  ASSUME NEW c, NEW H, NEW V, CacheOf(c, H, V), WellFormed(c)
  PROVE  /\ EntriesOf(c) \in Seq(Entry(H, V))
         /\ Len(EntriesOf(c)) = Len(c.tracker)
         /\ DOMAIN EntriesOf(c) = 1..Len(c.tracker)
         /\ \A i \in 1..Len(c.tracker) :
              /\ c.tracker[i] \in H
              /\ EntriesOf(c)[i] = [hash |-> c.tracker[i],
                                    value |-> ValueAt(c, c.tracker[i])]
              /\ EntriesOf(c)[i].hash = c.tracker[i]
              /\ EntriesOf(c)[i].value = ValueAt(c, c.tracker[i])
<1>1. /\ Len(c.tracker) \in Nat /\ DOMAIN c.tracker = 1..Len(c.tracker)
      /\ c.tracker \in Seq(H) /\ c.pool \in Seq(V)
      /\ DOMAIN c.pool = 1..Len(c.pool)
  BY CacheFields
<1>2. ASSUME NEW i \in 1..Len(c.tracker)
      PROVE  c.tracker[i] \in H /\ ValueAt(c, c.tracker[i]) \in V
  <2>1. c.tracker[i] \in H
    BY <1>1, ElementOfSeq
  <2>2. c.tracker[i] \in Mapped(c)
    BY <1>1 DEF WellFormed, TrackerListsMap, ToSet
  <2>3. c.map[c.tracker[i]] \in 1..Len(c.pool)
    BY <1>1, <2>2 DEF CacheOf
  <2>4. c.pool[c.map[c.tracker[i]]] \in V
    BY <1>1, <2>3, ElementOfSeq
  <2> QED BY <2>1, <2>4 DEF ValueAt
<1> DEFINE e(i) == [hash |-> c.tracker[i], value |-> ValueAt(c, c.tracker[i])]
<1>3. \A i \in 1..Len(c.tracker) : e(i) \in Entry(H, V)
  BY <1>2 DEF Entry
<1>4. EntriesOf(c) = [i \in 1..Len(c.tracker) |-> e(i)]
  BY <1>1 DEF EntriesOf
<1>5. ASSUME NEW i \in 1..Len(c.tracker)
      PROVE  /\ EntriesOf(c)[i] = e(i)
             /\ EntriesOf(c)[i].hash = c.tracker[i]
             /\ EntriesOf(c)[i].value = ValueAt(c, c.tracker[i])
  <2>1. EntriesOf(c)[i] = e(i)
    BY <1>4
  <2> QED BY <2>1
<1>6. EntriesOf(c) \in Seq(Entry(H, V))
  <2> HIDE DEF e
  <2> QED BY <1>1, <1>3, <1>4, IsASeq
<1>7. DOMAIN EntriesOf(c) = 1..Len(c.tracker)
  BY <1>4
<1>8. Len(EntriesOf(c)) = Len(c.tracker)
  BY <1>1, <1>6, <1>7, LenProperties
<1> QED BY <1>2, <1>5, <1>6, <1>7, <1>8

-----------------------------------------------------------------------------
(* The abstract store reads the same entries. *)

\* The entry the abstract store renews is the one the hash is tracked at.
LEMMA AbstractPosition ==
  ASSUME IInv, Regular, NEW h \in Hash
  PROVE  /\ Abstract!Has(h) <=> h \in Mapped(cache)
         /\ h \in Mapped(cache) =>
              /\ Abstract!Position(h) \in 1..Len(cache.tracker)
              /\ cache.tracker[Abstract!Position(h)] = h
              /\ Abstract!ValueOf(h) = ValueAt(cache, h)
<1> DEFINE es == EntriesOf(cache)
<1>1. CacheOf(cache, Hash, Contents) /\ WellFormed(cache)
  BY DEF IInv, TypeOK, Consistent, Contents
<1>2. /\ DOMAIN es = 1..Len(cache.tracker)
      /\ \A i \in 1..Len(cache.tracker) :
           es[i].hash = cache.tracker[i] /\ es[i].value = ValueAt(cache, cache.tracker[i])
  BY <1>1, EntriesAreASequence
<1>3. /\ Abstract!Has(h) <=> \E i \in DOMAIN es : es[i].hash = h
      /\ Abstract!Position(h) = CHOOSE i \in DOMAIN es : es[i].hash = h
      /\ Abstract!ValueOf(h) = es[Abstract!Position(h)].value
  BY DEF Abstract!Has, Abstract!Position, Abstract!ValueOf, EntriesOf
<1> HIDE DEF es
<1>4. h \in Mapped(cache) <=> \E i \in 1..Len(cache.tracker) : cache.tracker[i] = h
  <2>1. DOMAIN cache.tracker = 1..Len(cache.tracker) /\ ToSet(cache.tracker) = Mapped(cache)
    BY <1>1, CacheFields DEF WellFormed, TrackerListsMap
  <2> QED BY <2>1 DEF ToSet
<1>5. Abstract!Has(h) <=> h \in Mapped(cache)
  BY <1>2, <1>3, <1>4
<1>6. ASSUME h \in Mapped(cache)
      PROVE  /\ Abstract!Position(h) \in DOMAIN es
             /\ es[Abstract!Position(h)].hash = h
  BY <1>3, <1>5, <1>6
<1>7. ASSUME h \in Mapped(cache)
      PROVE  /\ Abstract!Position(h) \in 1..Len(cache.tracker)
             /\ cache.tracker[Abstract!Position(h)] = h
             /\ Abstract!ValueOf(h) = ValueAt(cache, h)
  BY <1>2, <1>3, <1>6, <1>7
<1> QED BY <1>5, <1>7

\* What the abstract store keeps when h is used, in terms of the cache.
LEMMA AbstractKept ==
  ASSUME Regular, NEW h
  PROVE  LET es == EntriesOf(cache)
             others == IF Abstract!Has(h) THEN RemoveAt(es, Abstract!Position(h)) ELSE es
         IN Abstract!Kept(h) = IF Len(others) = cache.size THEN Tail(others) ELSE others
BY DEF Abstract!Kept, Abstract!Others, Abstract!RemoveAt, RemoveAt, EntriesOf

\* Storing renews one entry of the list: it leaves its place, or else the
\* least recent one leaves a full cache, the others keep their order and their
\* values, and it comes last.
LEMMA Renewal ==
  ASSUME IInv, Regular, cache.size # 0, NEW h \in Hash, NEW v \in Contents
  PROVE  EntriesOf(Store(cache, h, v))
           = Append(Abstract!Kept(h), [hash |-> h, value |-> v])
<1> DEFINE es == EntriesOf(cache)
           t == cache.tracker
           n == Len(t)
           d == Store(cache, h, v)
           fs == EntriesOf(d)
           E == Entry(Hash, Contents)
           e == [hash |-> h, value |-> v]
           kept == Abstract!Kept(h)
<1>1. /\ CacheOf(cache, Hash, Contents) /\ WellFormed(cache)
      /\ 0 < cache.size /\ cache.size <= Len(cache.pool) /\ cache.size \in Nat
  BY CacheFields DEF IInv, TypeOK, Consistent, Contents, Regular
<1>2. /\ CacheOf(d, Hash, Contents) /\ WellFormed(d)
      /\ d.tracker = Reserve(cache, h).tracker
      /\ ValueAt(d, h) = v
      /\ \A g \in Mapped(d) \ {h} : ValueAt(d, g) = ValueAt(cache, g)
  BY <1>1, StoredValues
<1>3. /\ es \in Seq(E) /\ Len(es) = n
      /\ \A i \in 1..n : es[i] = [hash |-> t[i], value |-> ValueAt(cache, t[i])]
  BY <1>1, EntriesAreASequence
<1>4. /\ fs \in Seq(E) /\ Len(fs) = Len(d.tracker)
      /\ \A i \in 1..Len(d.tracker) :
           fs[i] = [hash |-> d.tracker[i], value |-> ValueAt(d, d.tracker[i])]
  BY <1>2, EntriesAreASequence
<1>5. /\ n \in Nat /\ t \in Seq(Hash) /\ DOMAIN t = 1..n /\ n <= cache.size
      /\ n = Cardinality(Mapped(cache))
      /\ \A i, j \in 1..n : t[i] = t[j] => i = j
      /\ ToSet(t) = Mapped(cache)
  BY <1>1, CacheFields, TrackerCountsEntries DEF WellFormed, TrackerListsMap
<1>6. e \in E
  BY DEF Entry
<1>7. /\ DOMAIN d.tracker = 1..Len(d.tracker)
      /\ \A i \in 1..Len(d.tracker) : d.tracker[i] \in Mapped(d)
  <2>1. DOMAIN d.tracker = 1..Len(d.tracker) /\ ToSet(d.tracker) = Mapped(d)
    BY <1>2, CacheFields DEF WellFormed, TrackerListsMap
  <2> QED BY <2>1 DEF ToSet
<1>8. ~ReserveUndefined(cache, h)
  BY <1>1, ReserveIsDefined
<1>9. ASSUME NEW j \in 1..Len(d.tracker), NEW k \in 1..n,
             d.tracker[j] = t[k], t[k] # h
      PROVE  fs[j] = es[k]
  <2>1. ValueAt(d, t[k]) = ValueAt(cache, t[k])
    BY <1>2, <1>7, <1>9
  <2> QED BY <1>3, <1>4, <1>9, <2>1
<1>10. ASSUME NEW j \in 1..Len(d.tracker), d.tracker[j] = h
       PROVE  fs[j] = e
  BY <1>2, <1>4, <1>10
<1>11. /\ Abstract!Has(h) <=> h \in Mapped(cache)
       /\ h \in Mapped(cache) => /\ Abstract!Position(h) \in 1..n
                                 /\ t[Abstract!Position(h)] = h
  BY AbstractPosition
<1>12. LET others == IF Abstract!Has(h) THEN RemoveAt(es, Abstract!Position(h)) ELSE es
       IN kept = IF Len(others) = cache.size THEN Tail(others) ELSE others
  BY AbstractKept
<1>13. SUFFICES /\ kept \in Seq(E) /\ Len(d.tracker) = Len(kept) + 1
                /\ d.tracker[Len(kept) + 1] = h
                /\ \A j \in 1..Len(kept) : fs[j] = kept[j]
  <2>1. ASSUME kept \in Seq(E), Len(d.tracker) = Len(kept) + 1,
               d.tracker[Len(kept) + 1] = h, \A j \in 1..Len(kept) : fs[j] = kept[j]
        PROVE  fs = Append(kept, e)
    <3> HIDE DEF fs, kept, e, E, d
    <3>1. /\ Append(kept, e) \in Seq(E) /\ Len(Append(kept, e)) = Len(kept) + 1
          /\ \A i \in 1..Len(kept) : Append(kept, e)[i] = kept[i]
          /\ Append(kept, e)[Len(kept) + 1] = e
      BY <1>6, <2>1, AppendProperties
    <3>2. Len(kept) \in Nat
      BY <2>1, LenProperties
    <3>3. fs[Len(kept) + 1] = e
      BY <1>10, <2>1, <3>2
    <3>4. ASSUME NEW i \in 1..Len(fs) PROVE fs[i] = Append(kept, e)[i]
      <4>1. i \in 1..Len(kept) \/ i = Len(kept) + 1
        BY <1>4, <2>1, <3>2
      <4> QED BY <2>1, <3>1, <3>3, <4>1
    <3> QED BY <1>4, <2>1, <3>1, <3>4, SeqEqual
  <2> QED BY <2>1
<1> HIDE DEF es, t, n, fs, e, kept, E
<1>14. CASE h \in Mapped(cache)
  <2> DEFINE i == Abstract!Position(h)
             r == RemoveAt(es, i)
  <2>1. i \in 1..n /\ t[i] = h /\ h \in ToSet(t)
    BY <1>5, <1>11, <1>14
  <2>2. /\ r \in Seq(E) /\ Len(r) = n - 1
        /\ \A j \in 1..n - 1 : r[j] = IF j < i THEN es[j] ELSE es[j + 1]
    <3> HIDE DEF i
    <3> QED BY <1>3, <2>1, RemoveAtProperties
  <2>3. kept = r
    BY <1>5, <1>11, <1>12, <1>14, <2>1, <2>2
  <2>4. d.tracker = Spliced(t, h)
    BY <1>2, <1>14 DEF Reserve, Bump, Cache, Spliced, t
  <2>5. /\ Len(d.tracker) = n
        /\ \A j \in 1..n : d.tracker[j] = IF j < i THEN t[j]
                                          ELSE IF j < n THEN t[j + 1] ELSE h
    <3> HIDE DEF i, d
    <3>1. PICK k \in 1..Len(t) :
            /\ t[k] = h
            /\ \A j \in 1..Len(t) : Spliced(t, h)[j] = IF j < k THEN t[j]
                                    ELSE IF j < Len(t) THEN t[j + 1] ELSE h
      BY <1>5, <2>1, SplicedElements
    <3>2. Len(Spliced(t, h)) = Len(t)
      BY <1>5, <2>1, SplicedElements
    <3>3. k = i
      BY <1>5, <2>1, <3>1 DEF n
    <3> QED BY <2>4, <3>1, <3>2, <3>3 DEF n
  <2> HIDE DEF i, r, d
  <2>6. ASSUME NEW j \in 1..n - 1 PROVE fs[j] = r[j]
    <3>1. CASE j < i
      <4>1. j \in 1..n /\ d.tracker[j] = t[j] /\ t[j] # h
        BY <1>5, <2>1, <2>5, <3>1
      <4> QED BY <1>9, <2>2, <2>5, <3>1, <4>1
    <3>2. CASE ~(j < i)
      <4>1. j \in 1..n /\ j + 1 \in 1..n /\ d.tracker[j] = t[j + 1] /\ t[j + 1] # h
        BY <1>5, <2>1, <2>5, <3>2
      <4> QED BY <1>9, <2>2, <2>5, <3>2, <4>1
    <3> QED BY <3>1, <3>2
  <2>7. d.tracker[n] = h
    BY <1>5, <2>1, <2>5
  <2> QED BY <1>5, <2>1, <2>2, <2>3, <2>5, <2>6, <2>7
<1>15. CASE h \notin Mapped(cache) /\ Full(cache)
  <2>1. n = cache.size /\ t # <<>>
    BY <1>1, <1>5, <1>15 DEF Full, n
  <2>2. es # <<>>
    BY <1>1, <1>3, <2>1, EmptySeq
  <2>3. kept = Tail(es)
    BY <1>3, <1>11, <1>12, <1>15, <2>1
  <2>4. /\ kept \in Seq(E) /\ Len(kept) = n - 1
        /\ \A j \in 1..n - 1 : kept[j] = es[j + 1]
    BY <1>3, <2>2, <2>3, HeadTailProperties
  <2>5. /\ Tail(t) \in Seq(Hash) /\ Len(Tail(t)) = n - 1
        /\ \A j \in 1..n - 1 : Tail(t)[j] = t[j + 1]
    BY <1>5, <2>1, HeadTailProperties DEF n
  <2>6. d.tracker = Append(Tail(t), h)
    BY <1>2, <1>15 DEF Reserve, Track, Evict, Cache, t
  <2> HIDE DEF d
  <2>7. /\ Len(d.tracker) = n /\ d.tracker[n] = h
        /\ \A j \in 1..n - 1 : d.tracker[j] = t[j + 1]
    <3>1. /\ Len(Append(Tail(t), h)) = Len(Tail(t)) + 1
          /\ \A j \in 1..Len(Tail(t)) : Append(Tail(t), h)[j] = Tail(t)[j]
          /\ Append(Tail(t), h)[Len(Tail(t)) + 1] = h
      BY <2>5, AppendProperties
    <3> QED BY <1>5, <2>5, <2>6, <3>1
  <2>8. ASSUME NEW j \in 1..n - 1 PROVE fs[j] = kept[j]
    <3>1. j \in 1..n /\ j + 1 \in 1..n
      BY <1>5
    <3>2. t[j + 1] # h
      BY <1>5, <1>15, <3>1 DEF ToSet
    <3> QED BY <1>9, <2>4, <2>7, <3>1, <3>2
  <2> QED BY <1>5, <2>4, <2>7, <2>8
<1>16. CASE h \notin Mapped(cache) /\ ~Full(cache)
  <2>1. n # cache.size
    BY <1>1, <1>5, <1>16 DEF Full
  <2>2. kept = es
    BY <1>3, <1>11, <1>12, <1>16, <2>1
  <2>3. d.tracker = Append(t, h)
    BY <1>2, <1>16 DEF Reserve, Track, Cache, t
  <2> HIDE DEF d
  <2>4. /\ Len(d.tracker) = n + 1 /\ d.tracker[n + 1] = h
        /\ \A j \in 1..n : d.tracker[j] = t[j]
    BY <1>5, <2>3, AppendProperties DEF n
  <2>5. ASSUME NEW j \in 1..n PROVE fs[j] = kept[j]
    <3>1. t[j] # h
      BY <1>5, <1>16 DEF ToSet
    <3>2. j \in 1..Len(d.tracker)
      BY <1>5, <2>4
    <3> QED BY <1>9, <2>2, <2>4, <3>1, <3>2
  <2> QED BY <1>3, <2>2, <2>4, <2>5
<1> QED BY <1>14, <1>15, <1>16

-----------------------------------------------------------------------------
(* The refinement. *)

SizeIsGiven == cache.size \in Sizes

\* The size is always one the constructor or resize was called with.
LEMMA SizeStays ==
  ASSUME IInv, SizeIsGiven, [Next]_vars
  PROVE  SizeIsGiven'
<1>1. ASSUME NEW k \in Keys, NEW v \in Values, Insert(k, v) PROVE SizeIsGiven'
  <2>1. cache' = cache \/ cache' = Store(cache, HashOf[k], v)
    BY <1>1 DEF Insert, Reserving
  <2>2. Store(cache, HashOf[k], v).size = cache.size
    BY DEF Store, Assign, Reserve, Bump, Track, Evict, Cache
  <2> QED BY <2>1, <2>2 DEF SizeIsGiven
<1>2. ASSUME NEW k \in Keys, Access(k) PROVE SizeIsGiven'
  <2>1. cache' = cache \/ cache' = Reserve(cache, HashOf[k])
    BY <1>2 DEF Access, Reserving
  <2>2. Reserve(cache, HashOf[k]).size = cache.size
    BY DEF Reserve, Bump, Track, Evict, Cache
  <2> QED BY <2>1, <2>2 DEF SizeIsGiven
<1>3. ASSUME NEW n \in Sizes, Resize(n) PROVE SizeIsGiven'
  BY <1>3 DEF Resize, Resized, Cache, SizeIsGiven
<1>4. CASE Clear
  BY <1>4 DEF Clear, Cleared, Cache, SizeIsGiven
<1> QED BY <1>1, <1>2, <1>3, <1>4 DEF Next, Find, vars, SizeIsGiven

\* The initial states map to initial states.
LEMMA InitRefines == Init => Abstract!Init /\ SizeIsGiven
<1> SUFFICES ASSUME Init PROVE Abstract!Init /\ SizeIsGiven
  OBVIOUS
<1>1. PICK n \in Sizes : cache = New(n)
  BY DEF Init
<1>2. /\ cache.size = n /\ cache.tracker = <<>> /\ DOMAIN cache.tracker = {}
      /\ n <= Len(cache.pool)
  <2>1. n \in Nat
    BY SizesAssumption
  <2>2. CacheOf(cache, Hash, Contents)
    BY <1>1, <2>1, NewCache DEF Contents
  <2>3. cache.pool = [s \in 1..n |-> Blank] /\ cache.size = n /\ cache.tracker = <<>>
    BY <1>1 DEF New, Cache
  <2>4. n <= Len(cache.pool)
    <3>1. Len(cache.pool) \in Nat /\ DOMAIN cache.pool = 1..Len(cache.pool)
      BY <2>2, CacheFields
    <3>2. DOMAIN cache.pool = 1..n
      BY <2>3
    <3>3. n = 0 \/ n \in 1..n
      BY <2>1
    <3> QED BY <2>1, <3>1, <3>2, <3>3
  <2>5. DOMAIN cache.tracker = {}
    <3>1. DOMAIN <<>> = {}
      OBVIOUS
    <3> QED BY <2>3, <3>1
  <2> QED BY <2>3, <2>4, <2>5
<1>3. Regular
  BY <1>2, SizesAssumption DEF Init, Regular
<1>4. [i \in DOMAIN cache.tracker |->
         [hash |-> cache.tracker[i], value |-> ValueAt(cache, cache.tracker[i])]] = <<>>
  BY <1>2
<1> QED BY <1>2, <1>3, <1>4 DEF Init, Abstract!Init, SizeIsGiven

\* A call that renews an entry of a cache that stays regular is a step of the
\* abstract store on its list.
LEMMA RenewingRefines ==
  ASSUME IInv, Regular, NEW h \in Hash, NEW v \in Contents,
         ~ReserveUndefined(cache, h),
         cache' = Store(cache, h, v), UNCHANGED resized
  PROVE  /\ Abstract!Renew(h, v) /\ Regular' /\ cache'.size = cache.size
         /\ cache.size > 0
<1>1. CacheOf(cache, Hash, Contents) /\ WellFormed(cache)
  BY DEF IInv, TypeOK, Consistent, Contents
<1>2. /\ cache'.size = cache.size /\ Len(cache'.pool) = Len(cache.pool)
  BY <1>1, StoredCache
<1>3. Regular'
  BY <1>2 DEF Regular
<1>4. cache.size # 0
  BY <1>1, ReserveNeedsRoom
<1>5. EntriesOf(cache') = Append(Abstract!Kept(h), [hash |-> h, value |-> v])
  BY <1>4, Renewal
<1>6. Abstract!Renew(h, v)
  BY <1>3, <1>5 DEF Abstract!Renew, EntriesOf
<1>7. cache.size > 0
  BY <1>1, <1>4, CacheFields
<1> QED BY <1>2, <1>3, <1>6, <1>7

\* Of a step that leaves the cache irregular nothing is promised.
LEMMA IrregularRefines ==
  ASSUME ~Regular'
  PROVE  Abstract!Next
BY DEF Abstract!Next

\* A cache that was resized only gets its promise back from clear.
LEMMA OnlyClearRestores ==
  ASSUME IInv, ~Regular, [Next]_vars, ~Clear
  PROVE  ~Regular'
<1>1. CacheOf(cache, Hash, Contents)
  BY DEF IInv, TypeOK, Contents
<1>2. ASSUME NEW k \in Keys, NEW v \in Values, Insert(k, v) PROVE ~Regular'
  <2>1. HashOf[k] \in Hash /\ v \in Contents
    BY HashAssumption DEF Contents
  <2>2. \/ cache' = cache
        \/ /\ ~ReserveUndefined(cache, HashOf[k])
           /\ cache' = Store(cache, HashOf[k], v)
    BY <1>2 DEF Insert, Reserving
  <2>3. cache'.size = cache.size /\ Len(cache'.pool) = Len(cache.pool)
    BY <1>1, <2>1, <2>2, StoredCache
  <2> QED BY <1>2, <2>3 DEF Insert, Reserving, Regular
<1>3. ASSUME NEW k \in Keys, Access(k) PROVE ~Regular'
  <2>1. HashOf[k] \in Hash
    BY HashAssumption
  <2>2. \/ cache' = cache
        \/ /\ ~ReserveUndefined(cache, HashOf[k])
           /\ cache' = Reserve(cache, HashOf[k])
    BY <1>3 DEF Access, Reserving
  <2>3. cache'.size = cache.size /\ cache'.pool = cache.pool
    BY <1>1, <2>1, <2>2, ReservedCache
  <2> QED BY <1>3, <2>3 DEF Access, Reserving, Regular
<1>4. ASSUME NEW n \in Sizes, Resize(n) PROVE ~Regular'
  BY <1>4 DEF Resize, Regular
<1> QED BY <1>2, <1>3, <1>4 DEF Next, Find, vars, Regular

\* Reading through operator[] stores what the slot held.
LEMMA AccessStores ==
  ASSUME IInv, NEW h \in Hash, ~ReserveUndefined(cache, h)
  PROVE  LET v == ValueAt(Reserve(cache, h), h)
         IN /\ v \in Contents
            /\ Store(cache, h, v) = Reserve(cache, h)
<1> DEFINE r == Reserve(cache, h)
           v == ValueAt(r, h)
<1>1. CacheOf(cache, Hash, Contents)
  BY DEF IInv, TypeOK, Contents
<1>2. CacheOf(r, Hash, Contents) /\ h \in Mapped(r)
  BY <1>1, ReservedCache
<1>3. r = [size |-> r.size, tracker |-> r.tracker, map |-> r.map, pool |-> r.pool]
  BY <1>2, CacheFields
<1> HIDE DEF r
<1>4. r.map[h] \in DOMAIN r.pool /\ r.pool \in Seq(Contents)
  BY <1>2, CacheFields DEF CacheOf
<1>5. r.pool[r.map[h]] \in Contents
  BY <1>2, <1>4, CacheFields, ElementOfSeq
<1>6. [r.pool EXCEPT ![r.map[h]] = r.pool[r.map[h]]] = r.pool
  BY <1>4
<1>7. Store(cache, h, v) = r
  BY <1>3, <1>6 DEF Store, Assign, Cache, ValueAt, r
<1> QED BY <1>5, <1>7 DEF r, ValueAt

\* Every step maps to a step of the abstract store, or to a stutter.
LEMMA NextRefines ==
  ASSUME IInv, SizeIsGiven, [Next]_vars
  PROVE  [Abstract!Next]_(Abstract!vars)
<1>1. CASE UNCHANGED vars
  BY <1>1 DEF vars, Abstract!vars, Regular, ValueAt
<1>2. ASSUME NEW k \in Keys, NEW v \in Values, Insert(k, v), Regular
      PROVE  [Abstract!Next]_(Abstract!vars)
  <2> DEFINE h == HashOf[k]
  <2>1. h \in Hash /\ v \in Contents
    BY HashAssumption DEF Contents
  <2>2. CASE ReserveUndefined(cache, h)
    <3>1. UNCHANGED <<cache, answer, resized>>
      BY <1>2, <2>2 DEF Insert, Reserving
    <3> QED BY <3>1 DEF Abstract!vars, Regular, ValueAt
  <2>3. CASE ~ReserveUndefined(cache, h)
    <3>1. cache' = Store(cache, h, v) /\ answer' = v /\ UNCHANGED resized
      BY <1>2, <2>3 DEF Insert, Reserving
    <3>2. /\ Abstract!Renew(h, v) /\ Regular' /\ cache'.size = cache.size
          /\ cache.size > 0
      BY <1>2, <2>1, <2>3, <3>1, RenewingRefines
    <3>3. Abstract!Put(k, v)
      BY <3>1, <3>2 DEF Abstract!Put
    <3> QED BY <1>2, <3>2, <3>3 DEF Abstract!Next, Abstract!Use
  <2> QED BY <2>2, <2>3
<1>3. ASSUME NEW k \in Keys, Access(k), Regular
      PROVE  [Abstract!Next]_(Abstract!vars)
  <2> DEFINE h == HashOf[k]
             v == ValueAt(Reserve(cache, h), h)
  <2>1. h \in Hash
    BY HashAssumption
  <2>2. CASE ReserveUndefined(cache, h)
    <3>1. UNCHANGED <<cache, answer, resized>>
      BY <1>3, <2>2 DEF Access, Reserving
    <3> QED BY <3>1 DEF Abstract!vars, Regular, ValueAt
  <2>3. CASE ~ReserveUndefined(cache, h)
    <3>1. cache' = Reserve(cache, h) /\ answer' = v /\ UNCHANGED resized
      BY <1>3, <2>3 DEF Access, Reserving
    <3>2. v \in Contents /\ cache' = Store(cache, h, v)
      BY <2>1, <2>3, <3>1, AccessStores
    <3>3. Abstract!Has(h) => v = Abstract!ValueOf(h)
      <4>1. SUFFICES ASSUME h \in Mapped(cache) PROVE v = ValueAt(cache, h)
        BY <1>3, <2>1, AbstractPosition
      <4> QED BY <4>1 DEF Reserve, Bump, Cache, ValueAt
    <3> HIDE DEF v
    <3>4. PICK w \in Contents : w = v
      BY <3>2
    <3>5. /\ Abstract!Renew(h, w) /\ Regular' /\ cache'.size = cache.size
          /\ cache.size > 0
      BY <1>3, <2>1, <2>3, <3>1, <3>2, <3>4, RenewingRefines
    <3>6. Abstract!Renew(h, answer')
      BY <3>1, <3>4, <3>5 DEF Abstract!Renew
    <3>7. Abstract!Get(k)
      BY <3>1, <3>3, <3>4, <3>5, <3>6 DEF Abstract!Get, Contents
    <3> QED BY <1>3, <3>5, <3>7 DEF Abstract!Next, Abstract!Use
  <2> QED BY <2>2, <2>3
<1>4. ASSUME NEW k \in Keys, Find(k), Regular
      PROVE  [Abstract!Next]_(Abstract!vars)
  <2>1. HashOf[k] \in Hash
    BY HashAssumption
  <2>2. /\ answer' = IF Abstract!Has(HashOf[k]) THEN Abstract!ValueOf(HashOf[k]) ELSE Miss
        /\ UNCHANGED <<cache, resized>>
    BY <1>4, <2>1, AbstractPosition DEF Find
  <2>3. Abstract!Look(k) /\ Regular'
    BY <1>4, <2>2 DEF Abstract!Look, Regular, ValueAt
  <2> QED BY <1>4, <2>2, <2>3 DEF Abstract!Next, Abstract!Use
<1>5. CASE Clear
  <2>1. /\ cache'.tracker = <<>> /\ cache'.size = cache.size
        /\ cache'.pool = cache.pool /\ UNCHANGED answer /\ resized' = FALSE
    BY <1>5 DEF Clear, Cleared, Cache
  <2>2. [i \in DOMAIN cache'.tracker |->
           [hash |-> cache'.tracker[i], value |-> ValueAt(cache', cache'.tracker[i])]]
          = <<>>
    BY <2>1
  <2>3. Abstract!Forget
    BY <2>1, <2>2 DEF Abstract!Forget
  <2>4. CASE Regular
    <3>1. Regular'
      BY <2>1, <2>4 DEF Regular
    <3> QED BY <2>1, <2>3, <2>4, <3>1 DEF Abstract!Next, Abstract!Use
  <2>5. CASE ~Regular /\ Regular'
    <3>1. cache'.size \in Sizes
      BY <2>1 DEF SizeIsGiven
    <3> QED BY <2>3, <2>5, <3>1 DEF Abstract!Next, Abstract!Restore
  <2>6. CASE ~Regular'
    BY <2>6, IrregularRefines
  <2> QED BY <2>4, <2>5, <2>6
<1>6. ASSUME NEW n \in Sizes, Resize(n)
      PROVE  [Abstract!Next]_(Abstract!vars)
  <2>1. ~Regular'
    BY <1>6 DEF Resize, Regular
  <2> QED BY <2>1, IrregularRefines
<1>7. CASE ~Regular /\ ~Clear
  BY <1>7, OnlyClearRestores, IrregularRefines
<1> QED BY <1>1, <1>2, <1>3, <1>4, <1>5, <1>6, <1>7 DEF Next

\* The cache implements the abstract store: unless it is resized, an entry is
\* neither lost before its turn nor given the value of another, and operator[]
\* and find answer what was last stored (cache.hxx:63-205).
THEOREM Refinement == Spec => ImplementsLRUStore
<1>1. Init => SizeIsGiven /\ Abstract!Init
  BY InitRefines
<1>2. IInv /\ SizeIsGiven /\ [Next]_vars => SizeIsGiven' /\ [Abstract!Next]_(Abstract!vars)
  BY SizeStays, NextRefines
<1> QED BY <1>1, <1>2, Invariance, PTL DEF Spec, Abstract!Spec, ImplementsLRUStore
=============================================================================
