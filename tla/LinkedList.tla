----------------------------- MODULE LinkedList ------------------------------
(***************************************************************************)
(* The operations of webserver/src/core/containers/doubly_linked_list.c on *)
(* a list l with its nodes and their pointers.                             *)
(* l.bad becomes TRUE when an operation reads, writes or frees memory that *)
(* is not a node of the heap: a null pointer or a freed node.              *)
(*                                                                         *)
(* Names that begin with Bug are mistakes the neighbouring definition      *)
(* could hold, not the code.                                               *)
(***************************************************************************)
EXTENDS Integers

CONSTANTS
  Nodes,   \* addresses of nodes
  Labels,  \* the data of a node: the key of its cache entry
  None     \* the null pointer

Ptr == Nodes \cup {None}

List == [live : SUBSET Nodes, prev : [Nodes -> Ptr], next : [Nodes -> Ptr],
         data : [Nodes -> Labels \cup {None}],
         head : Ptr, tail : Ptr, length : Int, bad : BOOLEAN]

Created == [live |-> {}, prev |-> [n \in Nodes |-> None],
            next |-> [n \in Nodes |-> None], data |-> [n \in Nodes |-> None],
            head |-> None, tail |-> None, length |-> 0, bad |-> FALSE]

\* The field f of node n (None for a null n); f with the field of n set to v.
Field(f, n) == IF n \in Nodes THEN f[n] ELSE None
With(f, n, v) == [m \in Nodes |-> IF m = n THEN v ELSE f[m]]

Touch(l, S) == [l EXCEPT !.bad = @ \/ ~(S \subseteq l.live)]

\* The memory of freed nodes holds nothing; pointers to them may remain.
Free(l, S) ==
  [Touch(l, S) EXCEPT !.live = @ \ S,
     !.prev = [m \in Nodes |-> IF m \in S THEN None ELSE @[m]],
     !.next = [m \in Nodes |-> IF m \in S THEN None ELSE @[m]],
     !.data = [m \in Nodes |-> IF m \in S THEN None ELSE @[m]]]

(* doubly_linked_list_push_front of a node the allocator returned at n.    *)
BugPushFront(l, n, d) ==
  [l EXCEPT !.live = @ \cup {n}, !.data = With(@, n, d), !.next = With(@, n, l.head),
            !.head = n, !.tail = IF l.head = None THEN n ELSE @, !.length = @ + 1]
PushFront(l, n, d) ==
  LET h == l.head
  IN [Touch(l, {h} \ {None}) EXCEPT
        !.live = @ \cup {n},
        !.data = With(@, n, d),
        !.next = With(@, n, h),
        !.prev = With(With(@, h, n), n, None),
        !.head = n,
        !.tail = IF h = None THEN n ELSE @,
        !.length = @ + 1]

(* doubly_linked_list_push_back                                            *)
BugPushBack(l, n, d) ==
  [l EXCEPT !.live = @ \cup {n}, !.data = With(@, n, d), !.next = With(With(@, l.tail, n), n, None),
            !.head = IF @ = None THEN n ELSE @, !.tail = n, !.length = @ + 1]
PushBack(l, n, d) ==
  LET t == l.tail
  IN [Touch(l, {t} \ {None}) EXCEPT
        !.live = @ \cup {n},
        !.data = With(@, n, d),
        !.prev = With(@, n, t),
        !.next = With(With(@, t, n), n, None),
        !.head = IF t = None THEN n ELSE @,
        !.tail = n,
        !.length = @ + 1]

(* doubly_linked_list_pop_head frees the node before the new head.         *)
BugPopHead(l) ==
  [Free(l, {l.head}) EXCEPT !.head = l.next[l.head],
     !.prev = With(@, l.next[l.head], None), !.length = @ - 1]
PopHead(l) ==
  LET n == Field(l.next, l.head)
      o == Field(l.prev, n)
  IN IF l.length > 1
       THEN [Free(Touch(l, {l.head, n}), {o} \ {None}) EXCEPT
               !.prev = With(@, n, None), !.head = n, !.length = @ - 1]
       ELSE [Free(l, {l.head}) EXCEPT
               !.head = None, !.tail = None, !.length = @ - 1]

(* doubly_linked_list_pop_tail frees the node after the new tail, which is *)
(* the old tail as long as the list is well linked.                        *)
PopTail(l) ==
  LET p == Field(l.prev, l.tail)
      q == Field(l.next, p)
  IN IF l.length > 1
       THEN [Free(Touch(l, {l.tail, p}), {q} \ {None}) EXCEPT
               !.next = With(@, p, None), !.tail = p, !.length = @ - 1]
       ELSE [Free(Touch(l, {l.tail}), {l.head}) EXCEPT
               !.head = None, !.tail = None, !.length = @ - 1]

(* doubly_linked_list_move_to_front leaves the tail where it is, also when *)
(* it is the tail that moves.                                              *)
BugMoveToFront(l, n) ==
  [l EXCEPT !.next = With(@, n, l.head), !.prev = With(With(@, l.head, n), n, None),
            !.head = n]
BugKeepPrev(l, n) ==
  LET p == Field(l.prev, n)
      q == Field(l.next, n)
      h == l.head
  IN IF h = n THEN l
     ELSE [Touch(l, {n, p, h} \cup ({q} \ {None})) EXCEPT
             !.next = With(With(@, p, q), n, h),
             !.prev = With(With(@, q, p), h, n),
             !.head = n]
MoveToFront(l, n) ==
  LET p == Field(l.prev, n)
      q == Field(l.next, n)
      h == l.head
  IN IF h = n THEN l
     ELSE [Touch(l, {n, p, h} \cup ({q} \ {None})) EXCEPT
             !.next = With(With(@, p, q), n, h),
             !.prev = With(With(With(@, q, p), h, n), n, None),
             !.head = n]

\* The first k nodes along the pointers f, from node n.
Chain(f, n, k) ==
  LET at[i \in 1..k] == IF i = 1 THEN n ELSE Field(f, at[i - 1]) IN at

(* doubly_linked_list_get: the comparisons convert the index, an int, to   *)
(* the unsigned type of the length, of which there are word values.        *)
BugGet(l, i, word) ==
  IF i >= l.length \/ i <= -l.length - 1 THEN None
  ELSE IF i >= 0 THEN Chain(l.next, l.head, i + 1)[i + 1] ELSE l.tail
Get(l, i, word) ==
  IF i % word >= l.length \/ i % word <= (-l.length - 1) % word THEN None
  ELSE IF i >= 0 THEN Chain(l.next, l.head, i + 1)[i + 1] ELSE l.tail

-----------------------------------------------------------------------------
\* l is a list of exactly the nodes of the sequence s, linked both ways.
Linked(l, s) ==
  LET k == l.length IN
  /\ DOMAIN s = 1..k
  /\ l.live = {s[i] : i \in 1..k}
  /\ l.head = (IF k = 0 THEN None ELSE s[1])
  /\ l.tail = (IF k = 0 THEN None ELSE s[k])
  /\ \A i \in 1..k : l.next[s[i]] = (IF i = k THEN None ELSE s[i + 1])
  /\ \A i \in 1..k : l.prev[s[i]] = (IF i = 1 THEN None ELSE s[i - 1])

=============================================================================
