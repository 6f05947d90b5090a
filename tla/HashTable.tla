------------------------------ MODULE HashTable ------------------------------
(***************************************************************************)
(* The operations of webserver/src/core/containers/hashmap.c, open         *)
(* addressing with linear probing and tombstones, on a table h: a function *)
(* from slots to entries.  Module HashMap is a table under any sequence of *)
(* calls; LruCache embeds one.                                             *)
(*                                                                         *)
(* Names that begin with Bug are mistakes the neighbouring definition      *)
(* could hold, not the code.                                               *)
(***************************************************************************)
EXTENDS Integers, FiniteSets

CONSTANTS
  Keys,
  Vals,
  Size,   \* hmap->size, the slots of the table
  Hash,   \* hmap->hash, a number for each key
  None

ASSUME HashTableAssumption ==
  /\ Size \in Nat \ {0}
  /\ Hash \in [Keys -> Nat]
  /\ None \notin Keys \cup Vals

Slots == 0..Size-1

Entry == [exists : BOOLEAN, is_tombstone : BOOLEAN,
          key : Keys \cup {None}, data : Vals \cup {None}]
Zeroed == [exists |-> FALSE, is_tombstone |-> FALSE, key |-> None, data |-> None]
Tombstone == [Zeroed EXCEPT !.is_tombstone = TRUE]
Table == [Slots -> Entry]
Created == [s \in Slots |-> Zeroed]

-----------------------------------------------------------------------------
(* The probe loop shared by set, get and delete.                           *)

\* The i-th slot looked at for key k.
Slot(k, i) == (Hash[k] + i) % Size

Blank(e) == ~(e.exists \/ e.is_tombstone)
Holds(e, k) == e.exists /\ e.key = k

\* The loop comes to its i-th turn, having continued on all earlier ones.
Reaches(h, k, i) ==
  \A j \in 0..i-1 : ~Blank(h[Slot(k, j)]) /\ ~Holds(h[Slot(k, j)], k)

\* The loop finds k at its i-th turn; it meets a blank slot.
FindsAt(h, k, i) == Reaches(h, k, i) /\ Holds(h[Slot(k, i)], k)
BlankAt(h, k, i) == Reaches(h, k, i) /\ Blank(h[Slot(k, i)])

Has(h, k)   == \E i \in Slots : FindsAt(h, k, i)
Room(h, k)  == \E i \in Slots : FindsAt(h, k, i) \/ BlankAt(h, k, i)

Filled(k, v) == [exists |-> TRUE, is_tombstone |-> FALSE, key |-> k, data |-> v]

(* hashmap_set, which does nothing but return FALSE without room.          *)
BugSetIn(h, k, v) ==
  IF \E s \in Slots : ~h[s].exists
    THEN LET i == CHOOSE i \in Slots : /\ ~h[Slot(k, i)].exists
                                       /\ \A j \in 0..i-1 : h[Slot(k, j)].exists
         IN [h EXCEPT ![Slot(k, i)] = Filled(k, v)]
    ELSE h
SetIn(h, k, v) ==
  IF Room(h, k)
    THEN LET i == CHOOSE i \in Slots : FindsAt(h, k, i) \/ BlankAt(h, k, i)
         IN [h EXCEPT ![Slot(k, i)] = Filled(k, v)]
    ELSE h

(* hashmap_get.                                                            *)
GetIn(h, k) ==
  IF Has(h, k) THEN h[Slot(k, CHOOSE i \in Slots : FindsAt(h, k, i))].data
               ELSE None

(* hashmap_delete leaves a tombstone, so that later probes go on past it.  *)
BugDeleteIn(h, k) ==
  IF Has(h, k)
    THEN [h EXCEPT ![Slot(k, CHOOSE i \in Slots : FindsAt(h, k, i))] = Zeroed]
    ELSE h
DeleteIn(h, k) ==
  IF Has(h, k)
    THEN [h EXCEPT ![Slot(k, CHOOSE i \in Slots : FindsAt(h, k, i))] = Tombstone]
    ELSE h

Used(h) == {s \in Slots : ~Blank(h[s])}

-----------------------------------------------------------------------------
(* What is true of the table an owner keeps, between its calls.            *)

\* An entry that exists was stored with a key and a value.
TableOK(h) ==
  /\ h \in Table
  /\ \A s \in Slots : h[s].exists =>
       h[s].key \in Keys /\ h[s].data \in Vals /\ ~h[s].is_tombstone

\* No key is stored twice.
NoTwins(h) ==
  \A r, s \in Slots : h[r].exists /\ h[s].exists /\ h[r].key = h[s].key => r = s

\* Every slot probed before the one that holds a key is in use.
NoGaps(h) ==
  \A i \in Slots, k \in Keys : Holds(h[Slot(k, i)], k) =>
    \A j \in 0..i-1 : ~Blank(h[Slot(k, j)])

=============================================================================
