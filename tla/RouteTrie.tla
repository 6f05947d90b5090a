------------------------------ MODULE RouteTrie ------------------------------
(***************************************************************************)
(* The trie of webserver/src/network/routing/route_trie.c for one method.  *)
(* A URI is the sequence of its segments between slashes ("/test" has two, *)
(* the first of them empty).  A node is named by the segments that lead to *)
(* it; t.nodes lists the nodes below the root in the order of creation,    *)
(* which is the order of every node's array of children.                   *)
(*                                                                         *)
(* Names that begin with Bug are mistakes the neighbouring definition      *)
(* could hold, not the code.                                               *)
(***************************************************************************)
EXTENDS SequencesExt

CONSTANTS
  Segments,   \* the text of a segment
  Dynamic,    \* those that begin with a colon
  Callbacks,
  None

Root == <<>>

Created == [nodes |-> <<>>, callback |-> [n \in {Root} |-> None]]

(* One turn of the loop of trie_add_route: the next node on the way exists *)
(* already, or is created as the last child.                               *)
BugAttached(ns, n) == Append(ns, n)
BugFirstAttached(ns, n) == IF Contains(ns, n) THEN ns ELSE <<n>> \o ns
Attached(ns, n) == IF Contains(ns, n) THEN ns ELSE Append(ns, n)

Way(s) == [i \in 1..Len(s) |-> SubSeq(s, 1, i)]
Grown(t, s) == FoldLeft(Attached, t.nodes, Way(s))

Callback(t, s, h, n) ==
  IF n = s THEN h ELSE IF n \in DOMAIN t.callback THEN t.callback[n] ELSE None

(* trie_add_route of callback h on the segments s.                         *)
AddRoute(t, s, h) ==
  [nodes    |-> Grown(t, s),
   callback |-> [n \in {Root} \cup ToSet(Grown(t, s)) |-> Callback(t, s, h, n)]]

\* Segment y of a node takes segment x of a URI.
Takes(y, x) == y = x \/ y \in Dynamic

IsChild(m, n) == Len(m) = Len(n) + 1 /\ IsPrefix(n, m)

(* One turn of the outer loop: the first child that takes x.  At a leaf    *)
(* the inner loop has no turn, and the search stays where it is.           *)
BugDescend(t, n, x) ==
  LET C == SelectSeq(t.nodes, LAMBDA m : IsChild(m, n))
      i == SelectInSeq(C, LAMBDA m : Takes(Last(m), x))
  IN IF n = None \/ C = <<>> THEN n ELSE IF i = 0 THEN Last(C) ELSE C[i]
Descend(t, n, x) ==
  LET i == SelectInSeq(t.nodes, LAMBDA m : IsChild(m, n) /\ Takes(Last(m), x))
  IN IF n = None THEN None
     ELSE IF \A m \in ToSet(t.nodes) : ~IsChild(m, n) THEN n
     ELSE IF i = 0 THEN None
     ELSE t.nodes[i]

\* Where the search for u ends: a node, or None.
Walk(t, u) == FoldLeft(LAMBDA n, x : Descend(t, n, x), Root, u)

(* trie_find_handler.                                                      *)
FindHandler(t, u) == IF Walk(t, u) = None THEN None ELSE t.callback[Walk(t, u)]

=============================================================================
