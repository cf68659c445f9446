---------------------------- MODULE LRUCacheData ----------------------------
(***************************************************************************)
(* The data structure of include/roboptim/core/cache.hxx, as a record, and *)
(* the effect of its member functions on it.  A cache is                   *)
(*                                                                         *)
(*   size     size_, the capacity the code compares against                *)
(*   tracker  tracker_, the hashes from the least to the most recently     *)
(*            used (the front of the std::list is the head)                *)
(*   map      map_, from hashes to slots of the pool                       *)
(*   pool     pool_, the preallocated values; slot s is pool_.begin()+s-1  *)
(*                                                                         *)
(* Keys are not stored (cache.hh:30-31): the structure only ever sees      *)
(* hashes.  The operators named ...Undefined say when the code dereferences*)
(* an end iterator, runs off the pool or fails one of its two assertions.  *)
(* FreeSlotOffByOne, EvictKeepsMapping, EvictMostRecent and ClearedKeepsMap *)
(* are plausible mistakes, which the properties are tested against.        *)
(***************************************************************************)
EXTENDS Naturals, Sequences, SequencesExt

CONSTANTS
  Blank,      \* what a slot of pool_ holds before it is first written
  ZeroHash    \* hash_t (), the element std::list::resize pads with

-----------------------------------------------------------------------------

Cache(n, t, m, p) == [size |-> n, tracker |-> t, map |-> m, pool |-> p]

NoEntries == [h \in {} |-> 0]

New(n) == Cache(n, <<>>, NoEntries, [s \in 1..n |-> Blank])

Mapped(c) == DOMAIN c.map
Full(c) == Cardinality(Mapped(c)) >= c.size
ValueAt(c, h) == c.pool[c.map[h]]

\* findLRU, tracker_.pop_front and map_.erase
EvictUndefined(c) == c.tracker = <<>> \/ Head(c.tracker) \notin Mapped(c)
EvictKeepsMapping(c) == Cache(c.size, Tail(c.tracker), c.map, c.pool)
EvictMostRecent(c) ==
  Cache(c.size, Front(c.tracker),
        [h \in Mapped(c) \ {Last(c.tracker)} |-> c.map[h]], c.pool)
Evict(c) ==
  Cache(c.size, Tail(c.tracker),
        [h \in Mapped(c) \ {Head(c.tracker)} |-> c.map[h]], c.pool)

\* std::find then splice to the end of the list
BumpUndefined(c, h) == h \notin ToSet(c.tracker) \/ Len(c.tracker) > c.size
Bump(c, h) ==
  Cache(c.size, Append(RemoveFirst(c.tracker, h), h), c.map, c.pool)

\* The slot an insertion takes: the evicted one, else the first never used.
FreeSlotOffByOne(c) ==
  IF Full(c) THEN c.map[Head(c.tracker)] ELSE Len(c.tracker) + 2
FreeSlot(c) == IF Full(c) THEN c.map[Head(c.tracker)] ELSE Len(c.tracker) + 1

Track(c, h, slot) ==
  Cache(c.size, Append(c.tracker, h),
        [g \in Mapped(c) \cup {h} |-> IF g = h THEN slot ELSE c.map[g]],
        c.pool)

\* V& insert (key), and V& operator[] (key), which has the same effect
ReserveUndefined(c, h) ==
  IF h \in Mapped(c) THEN BumpUndefined(c, h)
  ELSE IF Full(c) THEN EvictUndefined(c)
  ELSE Len(c.tracker) >= Len(c.pool)

Reserve(c, h) ==
  IF h \in Mapped(c) THEN Bump(c, h)
  ELSE Track(IF Full(c) THEN Evict(c) ELSE c, h, FreeSlot(c))

\* The assignment through the reference insert and operator[] return.
Assign(c, h, v) ==
  Cache(c.size, c.tracker, c.map, [c.pool EXCEPT ![c.map[h]] = v])
Store(c, h, v) == Assign(Reserve(c, h), h, v)

ClearedKeepsMap(c) == Cache(c.size, <<>>, c.map, c.pool)
Cleared(c) == Cache(c.size, <<>>, NoEntries, c.pool)

\* resize (n) with n # size_, and allocate: the pool keeps its length
Resized(c, n) ==
  Cache(n, [i \in 1..n |-> IF i <= Len(c.tracker) THEN c.tracker[i]
                           ELSE ZeroHash],
        c.map, c.pool)

-----------------------------------------------------------------------------
(* What the three members of a cache have to do with each other. *)

\* c is a cache of entries hashed into H, whose slots hold elements of V.
CacheOf(c, H, V) ==
  /\ c \in [size : Nat, tracker : Seq(H), map : {c.map}, pool : Seq(V)]
  /\ Mapped(c) \in SUBSET H
  /\ c.map \in [Mapped(c) -> DOMAIN c.pool]

\* The tracker lists the mapped hashes, each once, within the capacity.
TrackerListsMap(c) ==
  /\ \A i, j \in DOMAIN c.tracker : c.tracker[i] = c.tracker[j] => i = j
  /\ ToSet(c.tracker) = Mapped(c)
  /\ Len(c.tracker) <= c.size

\* Two entries never share a slot, and the slots in use are the first
\* tracker_.size () ones: pool_.begin () + tracker_.size () is free.
SlotsArePacked(c) ==
  /\ \A g, h \in Mapped(c) : c.map[g] = c.map[h] => g = h
  /\ {c.map[h] : h \in Mapped(c)} = 1..Len(c.tracker)

WellFormed(c) == TrackerListsMap(c) /\ SlotsArePacked(c)

=============================================================================
