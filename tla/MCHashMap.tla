------------------------------ MODULE MCHashMap ------------------------------
(***************************************************************************)
(* A table of four slots and three keys: two of them start at the last     *)
(* slot, so probes collide and wrap around, and the third starts in the    *)
(* middle of their run.  Re-inserting deleted keys wears out all slots.    *)
(***************************************************************************)
EXTENDS HashMap, TLC

CONSTANTS a, b, d, x, y

MCHash == (a :> 3) @@ (b :> 7) @@ (d :> 4)

=============================================================================
