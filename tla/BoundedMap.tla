----------------------------- MODULE BoundedMap ------------------------------
(***************************************************************************)
(* What the hash table of webserver/src/core/containers/hashmap.c promises *)
(* its callers: a partial map with room for Size insertions.  A deletion   *)
(* does not give its room back (the slot keeps a tombstone for good); only *)
(* hashmap_rehash does.                                                    *)
(***************************************************************************)
EXTENDS Integers, FiniteSets

CONSTANTS
  Keys,
  Vals,
  Size,   \* slots of the table
  None

VARIABLES
  map,    \* the value of each key, None for an absent one
  used,   \* room taken by the keys present and the keys once deleted
  ret     \* what the last call returned

bmvars == <<map, used, ret>>

Returns(ok, v) == ret' = [ok |-> ok, val |-> v]

Init ==
  /\ map = [k \in Keys |-> None]
  /\ used = 0
  /\ ret = [ok |-> FALSE, val |-> None]

Set(k, v) ==
  IF map[k] # None \/ used < Size
    THEN /\ map' = [map EXCEPT ![k] = v]
         /\ used' = IF map[k] = None THEN used + 1 ELSE used
         /\ Returns(TRUE, None)
    ELSE UNCHANGED <<map, used>> /\ Returns(FALSE, None)

Get(k) == Returns(map[k] # None, map[k]) /\ UNCHANGED <<map, used>>

Delete(k) ==
  /\ map' = [map EXCEPT ![k] = None]
  /\ Returns(map[k] # None, None)
  /\ UNCHANGED used

Rehash == used' = Cardinality({k \in Keys : map[k] # None}) /\ UNCHANGED <<map, ret>>

Next ==
  \/ \E k \in Keys, v \in Vals : Set(k, v)
  \/ \E k \in Keys : Get(k) \/ Delete(k)
  \/ Rehash

Spec == Init /\ [][Next]_bmvars

=============================================================================
