------------------------------ MODULE Allocators ------------------------------
(***************************************************************************)
(* core/memory/pool_allocator.c, over the bit array of core/util/bitwise.c *)
(* (the set of its bits that are set), and core/memory/bump_allocator.c.   *)
(*                                                                         *)
(* Names that begin with Bug are mistakes the neighbouring definition      *)
(* could hold, not the code.                                               *)
(***************************************************************************)
EXTENDS Integers

CONSTANTS
  PoolSize,   \* availability->size, the blocks of a pool
  BumpSize,   \* bytes of a bump allocator
  Base,       \* address of its first byte
  Space       \* number of addresses

Blocks == 0..PoolSize-1
End == Base + BumpSize

\* pool_allocator_create: the bit array is not cleared.
CreatedPools == SUBSET Blocks

(* pool_allocator_alloc: the first block whose bit is not set is returned  *)
(* and marked; without one it returns null.                                *)
FirstFree(marks, b) == b \in Blocks \ marks /\ \A a \in Blocks \ marks : b <= a
Marked(marks, b) == marks \cup {b}

(* pool_allocator_free of the block at index b, refused out of bounds.     *)
InBounds(b) == b >= 0 /\ b <= PoolSize - 1
Cleared(marks, b) == IF InBounds(b) THEN marks \ {b} ELSE marks

(* bump_allocator_alloc of n bytes: the address compared with the end may  *)
(* have wrapped around.                                                    *)
Next(cursor, n) == (cursor + n) % Space
BugFits(cursor, n) == cursor <= End
Fits(cursor, n) == Next(cursor, n) <= End

=============================================================================
