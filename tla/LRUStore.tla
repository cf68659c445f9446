------------------------------ MODULE LRUStore ------------------------------
(***************************************************************************)
(* What cache.hh promises of an LRUCache: a bounded list of entries in the *)
(* order of their last use.  Storing under a hash, or reading with         *)
(* operator[], makes its entry the most recent one, and drops the least    *)
(* recent one if there is no room; find only looks.  There are no slots    *)
(* here, so an entry cannot lose its value to another.                     *)
(*                                                                         *)
(* Nothing is promised of a store that was resized, until it is cleared    *)
(* with a size that its pool can hold.                                     *)
(***************************************************************************)
EXTENDS Naturals, Sequences, SequencesExt

CONSTANTS Keys, Values, HashOf, Blank, Miss, Capacities

VARIABLES
  capacity,  \* how many entries the store can hold
  entries,   \* records [hash, value], from the least to the most recent use
  answer,    \* what the last call returned or stored
  regular    \* the store keeps its promise

vars == <<capacity, entries, answer, regular>>

Has(h) == \E i \in DOMAIN entries : entries[i].hash = h
Position(h) == CHOOSE i \in DOMAIN entries : entries[i].hash = h
ValueOf(h) == entries[Position(h)].value

Others(h) == IF Has(h) THEN RemoveAt(entries, Position(h)) ELSE entries

\* The entries that stay when h is used and becomes the most recent one.
Kept(h) == IF Len(Others(h)) = capacity THEN Tail(Others(h)) ELSE Others(h)

Renew(h, v) == entries' = Append(Kept(h), [hash |-> h, value |-> v])

Init ==
  capacity \in Capacities /\ entries = <<>> /\ answer = Miss /\ regular = TRUE

Put(k, v) == capacity > 0 /\ Renew(HashOf[k], v) /\ answer' = v

\* operator[] on an absent key makes an entry whose value is left open.
Get(k) ==
  /\ capacity > 0
  /\ answer' \in IF Has(HashOf[k]) THEN {ValueOf(HashOf[k])}
                 ELSE Values \cup {Blank}
  /\ Renew(HashOf[k], answer')

Look(k) ==
  /\ answer' = IF Has(HashOf[k]) THEN ValueOf(HashOf[k]) ELSE Miss
  /\ UNCHANGED entries

Forget == entries' = <<>> /\ UNCHANGED answer

Use == \/ \E k \in Keys : Get(k) \/ Look(k) \/ \E v \in Values : Put(k, v)
       \/ Forget

Restore ==
  /\ ~regular /\ regular'
  /\ capacity' \in Capacities
  /\ Forget

Next ==
  \/ regular /\ regular' /\ Use /\ UNCHANGED capacity
  \/ ~regular'
  \/ Restore

Spec == Init /\ [][Next]_vars
=============================================================================
