----------------------------- MODULE MCContainers -----------------------------
(* Instance of Containers for model checking.                              *)
EXTENDS Containers, TLC

CONSTANTS x, y, n1, n2, n3, d1, d2, d3, d4

\* Small requests, one that wraps around to the start, and one that wraps
\* to where the cursor is.
MCRequests == {1, 2, Space - 2, Space}

Symmetry == Permutations(Nodes) \cup Permutations(Cells) \cup Permutations(Items)

=============================================================================
