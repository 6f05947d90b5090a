------------------------------ MODULE MCRouter -------------------------------
(***************************************************************************)
(* Routes "/a", "/:id", "/a/f.x", "/:id/f.x" and "/a/:id", with and        *)
(* without common beginnings.  The public directory is empty, holds two    *)
(* files that are not hidden, one of them in a subdirectory, or five; the  *)
(* array has room for four.                                                *)
(***************************************************************************)
EXTENDS Router, TLC

CONSTANTS top, dot, a, file, id, h1, h2, index   \* top is the empty first segment

MCRoutes == {<<top, a>>, <<top, id>>, <<top, a, file>>, <<top, id, file>>, <<top, a, id>>}
MCBase   == <<top>>
MCSlash  == <<top, top>>
MCURIs   == {MCSlash, <<a>>} \cup {<<top, x>> : x \in {a, file, id}}
              \cup {<<top, x, y>> : x \in {a, file}, y \in {a, file, id}}
              \cup {<<top, a, file, x>> : x \in {a, file}}

\* Nothing; few enough files for the array; and too many, where the walk
\* may add to the freed array itself or leave that to router_create.
MCTrees ==
  { {},
    {<<top, file>>, <<top, a, file>>, <<top, dot>>},
    {<<top, file>>, <<top, id>>, <<top, dot, file>>} \cup {<<top, a, x>> : x \in {a, id, file}} }

Symmetry == Permutations({h1, h2})

=============================================================================
