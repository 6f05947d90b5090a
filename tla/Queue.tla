-------------------------------- MODULE Queue ---------------------------------
(***************************************************************************)
(* The operations of webserver/src/core/containers/queue.c on a queue q    *)
(* whose nodes, and the memory that holds a copy of each item, are cells   *)
(* of the heap.  q.bad becomes TRUE when an operation touches or frees a   *)
(* cell that is not allocated.                                             *)
(*                                                                         *)
(* Names that begin with Bug are mistakes the neighbouring definition      *)
(* could hold, not the code.                                               *)
(***************************************************************************)
EXTENDS Integers, FiniteSets, SequencesExt

CONSTANTS Cells, Items, None

Blank == [c \in Cells |-> None]

\* queue_create: items leave at the root and enter at the head.
Created == [live |-> {}, next |-> Blank, data |-> Blank, value |-> Blank,
            root |-> None, head |-> None, bad |-> FALSE]

Touch(q, S) == [q EXCEPT !.bad = @ \/ ~(S \subseteq q.live)]
Free(q, c) ==
  [Touch(q, {c}) EXCEPT !.live = @ \ {c}, !.next[c] = None,
                        !.data[c] = None, !.value[c] = None]

(* enqueue: malloc returned n for the node and d for the copy of item x.   *)
Enqueue(q, n, d, x) ==
  LET p == IF q.head = None THEN q
           ELSE [Touch(q, {q.head}) EXCEPT !.next[q.head] = n]
  IN [p EXCEPT !.live = @ \cup {n, d}, !.data[n] = d, !.value[d] = x,
               !.root = IF q.head = None THEN n ELSE @, !.head = n]

\* dequeue frees the node; its copy of the item, q.data[q.root], goes to the
\* caller.
BugAfterDequeue(q) == [Free(q, q.root) EXCEPT !.root = q.next[q.root]]
AfterDequeue(q) ==
  LET r == q.next[q.root]
  IN [Free(Touch(q, {q.root}), q.root) EXCEPT
        !.root = r, !.head = IF r = None THEN None ELSE @]

(* queue_clear frees what it dequeues, until the root is null.             *)
Cleared(q) ==
  FoldLeft(LAMBDA p, i : IF p.root = None THEN p
                         ELSE Free(AfterDequeue(p), p.data[p.root]),
           q, [i \in 1..Cardinality(q.live) |-> i])

-----------------------------------------------------------------------------
\* The first k nodes from the root on.
Path(q, k) ==
  LET at[i \in 1..k] == IF i = 1 THEN q.root
                        ELSE IF at[i - 1] = None THEN None ELSE q.next[at[i - 1]]
  IN at

=============================================================================
