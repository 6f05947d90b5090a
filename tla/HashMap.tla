------------------------------- MODULE HashMap -------------------------------
(***************************************************************************)
(* A hash table of webserver/src/core/containers/hashmap.c under any       *)
(* sequence of calls, with the loop of hashmap_rehash taken one slot at a  *)
(* time.  It implements BoundedMap.                                        *)
(***************************************************************************)
EXTENDS HashTable

VARIABLES
  entries,  \* hmap->entries
  fresh,    \* the table hashmap_rehash builds
  turn,     \* i in hashmap_rehash, or Idle
  ret       \* what the last call returned

hmvars == <<entries, fresh, turn, ret>>

Idle == -1

Returns(ok, v) == ret' = [ok |-> ok, val |-> v]

Init ==
  /\ entries = Created
  /\ fresh = Created
  /\ turn = Idle
  /\ ret = [ok |-> FALSE, val |-> None]

Set(k, v) ==
  /\ turn = Idle
  /\ entries' = SetIn(entries, k, v)
  /\ Returns(Room(entries, k), None)
  /\ UNCHANGED <<fresh, turn>>

Get(k) ==
  /\ turn = Idle
  /\ Returns(Has(entries, k), GetIn(entries, k))
  /\ UNCHANGED <<entries, fresh, turn>>

Delete(k) ==
  /\ turn = Idle
  /\ entries' = DeleteIn(entries, k)
  /\ Returns(Has(entries, k), None)
  /\ UNCHANGED <<fresh, turn>>

RehashBegin ==
  /\ turn = Idle
  /\ fresh' = Created
  /\ turn' = 0
  /\ UNCHANGED <<entries, ret>>

\* The new table after the entry e of slot s; whether hashmap_set succeeded
\* is not looked at.
BugRehashed(h, e, s) == [h EXCEPT ![s] = e]
Rehashed(h, e, s) == IF e.exists THEN SetIn(h, e.key, e.data) ELSE h

RehashStep ==
  /\ turn \in Slots
  /\ fresh' = Rehashed(fresh, entries[turn], turn)
  /\ turn' = turn + 1
  /\ UNCHANGED <<entries, ret>>

RehashEnd ==
  /\ turn = Size
  /\ entries' = fresh
  /\ fresh' = Created
  /\ turn' = Idle
  /\ UNCHANGED ret

Next ==
  \/ \E k \in Keys, v \in Vals : Set(k, v)
  \/ \E k \in Keys : Get(k) \/ Delete(k)
  \/ RehashBegin \/ RehashStep \/ RehashEnd

Spec == Init /\ [][Next]_hmvars

-----------------------------------------------------------------------------
(* Properties.                                                             *)

(* Whatever is set, deleted and rehashed, the tables hold well-formed      *)
(* entries only.                                                           *)
TypeOK ==
  /\ TableOK(entries)
  /\ TableOK(fresh)
  /\ turn \in {Idle} \cup 0..Size
  /\ ret \in [ok : BOOLEAN, val : Vals \cup {None}]

(* No key is stored twice: hashmap_set never fills a blank slot while the  *)
(* key still exists further along its probe sequence.                      *)
Unique == NoTwins(entries) /\ NoTwins(fresh)

(* No key is lost: every slot probed before the one that holds a key is in *)
(* use, by another key or by a tombstone, so the loop of hashmap_get comes *)
(* to the key and does not stop at a blank slot before it.                 *)
Reachable == NoGaps(entries) /\ NoGaps(fresh)

(* Every stored key is found, with the value stored under it: the two      *)
(* invariants together, as a caller of hashmap_get sees them.              *)
Findable ==
  \A s \in Slots : entries[s].exists => GetIn(entries, entries[s].key) = entries[s].data

(* hashmap.h:28, "creating a cleaned up version to avoid tombstone         *)
(* cluttering": the table that replaces the old one has no tombstone, and  *)
(* every key finds in it what it found before.                             *)
RehashCleans ==
  turn = Size =>
    /\ \A s \in Slots : ~fresh[s].is_tombstone
    /\ \A k \in Keys : GetIn(fresh, k) = GetIn(entries, k)

(* The table implements the bounded map: in particular hashmap_set fails   *)
(* only for an absent key when deletions have worn out every slot.         *)
BM == INSTANCE BoundedMap WITH
        map  <- [k \in Keys |-> GetIn(entries, k)],
        used <- Cardinality(Used(entries))
ImplementsBoundedMap == BM!Spec

=============================================================================
