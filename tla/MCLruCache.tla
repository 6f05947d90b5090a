----------------------------- MODULE MCLruCache ------------------------------
(***************************************************************************)
(* Small caches.  A cache of capacity n has n / 0.67 slots in its table:   *)
(* two for two, four for three.  All keys start at the same slot.          *)
(***************************************************************************)
EXTENDS LruCache, TLC

MCMapSlots == (Cap * 100) \div 67
MCHash == [k \in Keys |-> MCMapSlots - 1]

Symmetry == Permutations(Nodes)

=============================================================================
