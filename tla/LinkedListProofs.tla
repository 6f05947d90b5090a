--------------------------- MODULE LinkedListProofs ---------------------------
(***************************************************************************)
(* What the operations of doubly_linked_list.c leave of a list, for any    *)
(* set of addresses: field by field, then for lists linked both ways, and  *)
(* for the lists LRU_cache.c makes of them by moving the tail.             *)
(***************************************************************************)
EXTENDS LinkedList, NaturalsInduction, WellFoundedInduction, TLAPS

-----------------------------------------------------------------------------
(* Field by field.                                                         *)

(* The sets of the fields, as names the provers need not look into.        *)
Links == [Nodes -> Ptr]
Data == [Nodes -> Labels \cup {None}]
Live == SUBSET Nodes
LEMMA ListFields ==
  List = [live : Live, prev : Links, next : Links, data : Data, head : Ptr, tail : Ptr,
          length : Int, bad : BOOLEAN]
  BY DEF List, Links, Data, Live

LEMMA PushFrontFields ==
  ASSUME None \notin Nodes, NEW l \in List, NEW n \in Nodes, NEW d \in Labels,
         NEW r, r = PushFront(l, n, d)
  PROVE  /\ r \in List
         /\ r.live = l.live \cup {n}
         /\ r.head = n /\ r.tail = (IF l.head = None THEN n ELSE l.tail)
         /\ r.length = l.length + 1
         /\ r.bad = (l.bad \/ ~({l.head} \ {None} \subseteq l.live))
         /\ \A m \in Nodes :
              /\ r.next[m] = IF m = n THEN l.head ELSE l.next[m]
              /\ r.prev[m] = IF m = n THEN None ELSE IF m = l.head THEN n ELSE l.prev[m]
              /\ r.data[m] = IF m = n THEN d ELSE l.data[m]
  <1> DEFINE t == Touch(l, {l.head} \ {None})
             lv == l.live \cup {n}
             nx == With(l.next, n, l.head)
             pv == With(With(l.prev, l.head, n), n, None)
             da == With(l.data, n, d)
             tl == IF l.head = None THEN n ELSE l.tail
             le == l.length + 1
  <1>1. /\ t \in List
        /\ t.bad = (l.bad \/ ~({l.head} \ {None} \subseteq l.live))
        /\ t.live = l.live /\ t.next = l.next /\ t.prev = l.prev /\ t.data = l.data
        /\ t.tail = l.tail /\ t.length = l.length
    BY DEF Touch, List
  <1> HIDE DEF t
  <1>2. r = [t EXCEPT !.live = lv, !.data = da, !.next = nx, !.prev = pv,
                      !.head = n, !.tail = tl, !.length = le]
    BY <1>1 DEF PushFront, t
  <1>3. nx \in [Nodes -> Ptr] /\ \A m \in Nodes : nx[m] = IF m = n THEN l.head ELSE l.next[m]
    BY DEF With, List, Ptr
  <1>4. /\ pv \in [Nodes -> Ptr]
        /\ \A m \in Nodes :
             pv[m] = IF m = n THEN None ELSE IF m = l.head THEN n ELSE l.prev[m]
    BY DEF With, List, Ptr
  <1>5. /\ da \in [Nodes -> Labels \cup {None}]
        /\ \A m \in Nodes : da[m] = IF m = n THEN d ELSE l.data[m]
    BY DEF With, List
  <1>6. lv \in SUBSET Nodes /\ tl \in Ptr /\ le \in Int
    BY DEF List, Ptr
  <1> HIDE DEF lv, nx, pv, da, tl, le
  <1>7. /\ r \in List /\ r.live = lv /\ r.next = nx /\ r.prev = pv /\ r.data = da
        /\ r.head = n /\ r.tail = tl /\ r.length = le /\ r.bad = t.bad
    <2>1. n \in Ptr
      BY DEF Ptr
    <2>2. lv \in Live /\ nx \in Links /\ pv \in Links /\ da \in Data
      BY <1>3, <1>4, <1>5, <1>6 DEF Live, Links, Data
    <2> QED
      BY <1>1, <1>2, <1>6, <2>1, <2>2, ListFields, ZenonT(30)
  <1> QED
    BY <1>1, <1>3, <1>4, <1>5, <1>7 DEF lv, tl, le

LEMMA PushBackFields ==
  ASSUME None \notin Nodes, NEW l \in List, NEW n \in Nodes, NEW d \in Labels,
         NEW r, r = PushBack(l, n, d)
  PROVE  /\ r \in List
         /\ r.live = l.live \cup {n}
         /\ r.tail = n /\ r.head = (IF l.tail = None THEN n ELSE l.head)
         /\ r.length = l.length + 1
         /\ r.bad = (l.bad \/ ~({l.tail} \ {None} \subseteq l.live))
         /\ \A m \in Nodes :
              /\ r.next[m] = IF m = n THEN None ELSE IF m = l.tail THEN n ELSE l.next[m]
              /\ r.prev[m] = IF m = n THEN l.tail ELSE l.prev[m]
              /\ r.data[m] = IF m = n THEN d ELSE l.data[m]
  <1> DEFINE t == Touch(l, {l.tail} \ {None})
             lv == l.live \cup {n}
             nx == With(With(l.next, l.tail, n), n, None)
             pv == With(l.prev, n, l.tail)
             da == With(l.data, n, d)
             hd == IF l.tail = None THEN n ELSE l.head
             le == l.length + 1
  <1>1. /\ t \in List
        /\ t.bad = (l.bad \/ ~({l.tail} \ {None} \subseteq l.live))
        /\ t.live = l.live /\ t.next = l.next /\ t.prev = l.prev /\ t.data = l.data
        /\ t.head = l.head /\ t.length = l.length
    BY DEF Touch, List
  <1> HIDE DEF t
  <1>2. r = [t EXCEPT !.live = lv, !.data = da, !.prev = pv, !.next = nx,
                      !.head = hd, !.tail = n, !.length = le]
    BY <1>1 DEF PushBack, t
  <1>3. /\ nx \in [Nodes -> Ptr]
        /\ \A m \in Nodes :
             nx[m] = IF m = n THEN None ELSE IF m = l.tail THEN n ELSE l.next[m]
    BY DEF With, List, Ptr
  <1>4. pv \in [Nodes -> Ptr] /\ \A m \in Nodes : pv[m] = IF m = n THEN l.tail ELSE l.prev[m]
    BY DEF With, List, Ptr
  <1>5. /\ da \in [Nodes -> Labels \cup {None}]
        /\ \A m \in Nodes : da[m] = IF m = n THEN d ELSE l.data[m]
    BY DEF With, List
  <1>6. lv \in SUBSET Nodes /\ hd \in Ptr /\ le \in Int
    BY DEF List, Ptr
  <1> HIDE DEF lv, nx, pv, da, hd, le
  <1>7. /\ r \in List /\ r.live = lv /\ r.next = nx /\ r.prev = pv /\ r.data = da
        /\ r.head = hd /\ r.tail = n /\ r.length = le /\ r.bad = t.bad
    <2>1. n \in Ptr
      BY DEF Ptr
    <2>2. lv \in Live /\ nx \in Links /\ pv \in Links /\ da \in Data
      BY <1>3, <1>4, <1>5, <1>6 DEF Live, Links, Data
    <2> QED
      BY <1>1, <1>2, <1>6, <2>1, <2>2, ListFields, ZenonT(30)
  <1> QED
    BY <1>1, <1>3, <1>4, <1>5, <1>7 DEF lv, hd, le

(* Freeing nodes.                                                          *)
LEMMA FreeFields ==
  ASSUME NEW l \in List, NEW S, NEW r, r = Free(l, S)
  PROVE  /\ r \in List
         /\ r.live = l.live \ S /\ r.bad = (l.bad \/ ~(S \subseteq l.live))
         /\ r.head = l.head /\ r.tail = l.tail /\ r.length = l.length
         /\ \A m \in Nodes :
              /\ r.next[m] = IF m \in S THEN None ELSE l.next[m]
              /\ r.prev[m] = IF m \in S THEN None ELSE l.prev[m]
              /\ r.data[m] = IF m \in S THEN None ELSE l.data[m]
  <1> DEFINE t == Touch(l, S)
             lv == l.live \ S
             Wiped(f) == [m \in Nodes |-> IF m \in S THEN None ELSE f[m]]
             pv == Wiped(l.prev)  nx == Wiped(l.next)  da == Wiped(l.data)
  <1>1. /\ t \in List /\ t.bad = (l.bad \/ ~(S \subseteq l.live))
        /\ t.live = l.live /\ t.next = l.next /\ t.prev = l.prev /\ t.data = l.data
        /\ t.head = l.head /\ t.tail = l.tail /\ t.length = l.length
    BY DEF Touch, List
  <1> HIDE DEF t
  <1>2. r = [t EXCEPT !.live = lv, !.prev = pv, !.next = nx, !.data = da]
    BY <1>1 DEF Free, t
  <1>3. /\ pv \in [Nodes -> Ptr] /\ nx \in [Nodes -> Ptr]
        /\ da \in [Nodes -> Labels \cup {None}]
        /\ \A m \in Nodes :
             /\ nx[m] = IF m \in S THEN None ELSE l.next[m]
             /\ pv[m] = IF m \in S THEN None ELSE l.prev[m]
             /\ da[m] = IF m \in S THEN None ELSE l.data[m]
    BY DEF List, Ptr
  <1>4. lv \in SUBSET Nodes
    BY DEF List
  <1> HIDE DEF lv, pv, nx, da
  <1>5. /\ r \in List /\ r.live = lv /\ r.next = nx /\ r.prev = pv /\ r.data = da
        /\ r.head = t.head /\ r.tail = t.tail /\ r.length = t.length /\ r.bad = t.bad
    BY <1>1, <1>2, <1>3, <1>4 DEF List
  <1> QED
    BY <1>1, <1>3, <1>5 DEF lv

(* doubly_linked_list_pop_tail of a list whose tail is linked to the node  *)
(* before it frees the tail.                                               *)
LEMMA PopTailFields ==
  ASSUME None \notin Nodes, NEW l \in List, l.length > 1,
         l.tail \in l.live, l.prev[l.tail] \in l.live,
         l.next[l.prev[l.tail]] = l.tail,
         NEW r, r = PopTail(l)
  PROVE  /\ r \in List
         /\ r.live = l.live \ {l.tail} /\ r.bad = l.bad
         /\ r.head = l.head /\ r.tail = l.prev[l.tail] /\ r.length = l.length - 1
         /\ \A m \in Nodes :
              /\ r.next[m] = IF m \in {l.tail, l.prev[l.tail]} THEN None ELSE l.next[m]
              /\ r.prev[m] = IF m = l.tail THEN None ELSE l.prev[m]
              /\ r.data[m] = IF m = l.tail THEN None ELSE l.data[m]
  <1> DEFINE p == Field(l.prev, l.tail)
             q == Field(l.next, p)
             t == Touch(l, {l.tail, p})
             f == Free(t, {q} \ {None})
             nx == With(f.next, p, None)
  <1>1. /\ l.tail \in Nodes /\ l.prev[l.tail] \in Nodes
        /\ l.tail # None
    BY DEF List
  <1>2. p = l.prev[l.tail] /\ q = l.tail /\ p \in Nodes /\ p \in Ptr
    BY <1>1 DEF Field, Ptr
  <1>3. r = [f EXCEPT !.next = nx, !.tail = p, !.length = @ - 1]
    BY DEF PopTail
  <1> HIDE DEF p, q
  <1>4. /\ t \in List /\ t.bad = l.bad
        /\ t.live = l.live /\ t.next = l.next /\ t.prev = l.prev /\ t.data = l.data
        /\ t.head = l.head /\ t.tail = l.tail /\ t.length = l.length
    <2>1. {l.tail, p} \subseteq l.live
      BY <1>2
    <2> QED
      BY <2>1 DEF Touch, List
  <1> HIDE DEF t
  <1>5. {q} \ {None} = {l.tail}
    BY <1>1, <1>2
  <1>6. /\ f \in List /\ f.live = l.live \ {l.tail}
        /\ f.bad = (l.bad \/ ~({l.tail} \subseteq l.live))
        /\ f.head = l.head /\ f.tail = l.tail /\ f.length = l.length
        /\ \A m \in Nodes :
              /\ f.next[m] = IF m = l.tail THEN None ELSE l.next[m]
              /\ f.prev[m] = IF m = l.tail THEN None ELSE l.prev[m]
              /\ f.data[m] = IF m = l.tail THEN None ELSE l.data[m]
    <2> DEFINE S == {l.tail}
    <2>1. f = Free(t, S)
      BY <1>5
    <2> HIDE DEF f, S
    <2>2. /\ f \in List /\ f.live = t.live \ S
          /\ f.bad = (t.bad \/ ~(S \subseteq t.live))
          /\ f.head = t.head /\ f.tail = t.tail /\ f.length = t.length
          /\ \A m \in Nodes :
               /\ f.next[m] = IF m \in S THEN None ELSE t.next[m]
               /\ f.prev[m] = IF m \in S THEN None ELSE t.prev[m]
               /\ f.data[m] = IF m \in S THEN None ELSE t.data[m]
      BY <1>4, <2>1, FreeFields
    <2> QED
      BY <1>4, <2>2 DEF S
  <1> HIDE DEF f
  <1>7. f.bad = l.bad
    BY <1>6 DEF List
  <1>8. /\ nx \in [Nodes -> Ptr]
        /\ \A m \in Nodes : nx[m] = IF m = p THEN None ELSE f.next[m]
    BY <1>6 DEF With, List, Ptr
  <1> HIDE DEF nx
  <1>9. /\ r \in List /\ r.live = f.live /\ r.next = nx /\ r.prev = f.prev /\ r.data = f.data
        /\ r.head = f.head /\ r.tail = p /\ r.length = f.length - 1 /\ r.bad = f.bad
    <2>1. f.length \in Int /\ f.length - 1 \in Int
      BY <1>6 DEF List
    <2> QED
      BY <1>2, <1>3, <1>6, <1>8, <2>1, ZenonT(30) DEF List
  <1> QED
    BY <1>2, <1>6, <1>7, <1>8, <1>9

(* doubly_linked_list_pop_head of a list whose head is linked to the node  *)
(* after it frees the head.                                                *)
LEMMA PopHeadFields ==
  ASSUME None \notin Nodes, NEW l \in List, l.length > 1,
         l.head \in l.live, l.next[l.head] \in l.live,
         l.prev[l.next[l.head]] = l.head,
         NEW r, r = PopHead(l)
  PROVE  /\ r \in List
         /\ r.live = l.live \ {l.head} /\ r.bad = l.bad
         /\ r.tail = l.tail /\ r.head = l.next[l.head] /\ r.length = l.length - 1
         /\ \A m \in Nodes :
              /\ r.prev[m] = IF m \in {l.head, l.next[l.head]} THEN None ELSE l.prev[m]
              /\ r.next[m] = IF m = l.head THEN None ELSE l.next[m]
              /\ r.data[m] = IF m = l.head THEN None ELSE l.data[m]
  <1> DEFINE n == Field(l.next, l.head)
             o == Field(l.prev, n)
             t == Touch(l, {l.head, n})
             f == Free(t, {o} \ {None})
             pv == With(f.prev, n, None)
  <1>1. /\ l.head \in Nodes /\ l.next[l.head] \in Nodes
        /\ l.head # None
    BY DEF List
  <1>2. n = l.next[l.head] /\ o = l.head /\ n \in Nodes /\ n \in Ptr
    BY <1>1 DEF Field, Ptr
  <1>3. r = [f EXCEPT !.prev = pv, !.head = n, !.length = @ - 1]
    BY DEF PopHead
  <1> HIDE DEF n, o
  <1>4. /\ t \in List /\ t.bad = l.bad
        /\ t.live = l.live /\ t.next = l.next /\ t.prev = l.prev /\ t.data = l.data
        /\ t.head = l.head /\ t.tail = l.tail /\ t.length = l.length
    <2>1. {l.head, n} \subseteq l.live
      BY <1>2
    <2> QED
      BY <2>1 DEF Touch, List
  <1> HIDE DEF t
  <1>5. {o} \ {None} = {l.head}
    BY <1>1, <1>2
  <1>6. /\ f \in List /\ f.live = l.live \ {l.head}
        /\ f.bad = (l.bad \/ ~({l.head} \subseteq l.live))
        /\ f.head = l.head /\ f.tail = l.tail /\ f.length = l.length
        /\ \A m \in Nodes :
              /\ f.next[m] = IF m = l.head THEN None ELSE l.next[m]
              /\ f.prev[m] = IF m = l.head THEN None ELSE l.prev[m]
              /\ f.data[m] = IF m = l.head THEN None ELSE l.data[m]
    <2> DEFINE S == {l.head}
    <2>1. f = Free(t, S)
      BY <1>5
    <2> HIDE DEF f, S
    <2>2. /\ f \in List /\ f.live = t.live \ S
          /\ f.bad = (t.bad \/ ~(S \subseteq t.live))
          /\ f.head = t.head /\ f.tail = t.tail /\ f.length = t.length
          /\ \A m \in Nodes :
               /\ f.next[m] = IF m \in S THEN None ELSE t.next[m]
               /\ f.prev[m] = IF m \in S THEN None ELSE t.prev[m]
               /\ f.data[m] = IF m \in S THEN None ELSE t.data[m]
      BY <1>4, <2>1, FreeFields
    <2> QED
      BY <1>4, <2>2 DEF S
  <1> HIDE DEF f
  <1>7. f.bad = l.bad
    BY <1>6 DEF List
  <1>8. /\ pv \in [Nodes -> Ptr]
        /\ \A m \in Nodes : pv[m] = IF m = n THEN None ELSE f.prev[m]
    BY <1>6 DEF With, List, Ptr
  <1> HIDE DEF pv
  <1>9. /\ r \in List /\ r.live = f.live /\ r.prev = pv /\ r.next = f.next /\ r.data = f.data
        /\ r.head = n /\ r.tail = f.tail /\ r.length = f.length - 1 /\ r.bad = f.bad
    <2>1. f.length \in Int /\ f.length - 1 \in Int
      BY <1>6 DEF List
    <2> QED
      BY <1>2, <1>3, <1>6, <1>8, <2>1, ZenonT(30) DEF List
  <1> QED
    BY <1>2, <1>6, <1>7, <1>8, <1>9

(* doubly_linked_list_move_to_front of a node that is not the head.        *)
LEMMA MoveToFrontFields ==
  ASSUME None \notin Nodes, NEW l \in List, NEW n \in Nodes, l.head \in Nodes, n # l.head,
         NEW r, r = MoveToFront(l, n)
  PROVE  /\ r \in List
         /\ r.live = l.live /\ r.data = l.data
         /\ r.head = n /\ r.tail = l.tail /\ r.length = l.length
         /\ r.bad = (l.bad \/ ~({n, l.prev[n], l.head} \cup ({l.next[n]} \ {None}) \subseteq l.live))
         /\ \A m \in Nodes :
              /\ r.next[m] = IF m = n THEN l.head
                             ELSE IF m = l.prev[n] THEN l.next[n] ELSE l.next[m]
              /\ r.prev[m] = IF m = n THEN None
                             ELSE IF m = l.head THEN n
                             ELSE IF m = l.next[n] THEN l.prev[n] ELSE l.prev[m]
  <1> DEFINE p == Field(l.prev, n)
             q == Field(l.next, n)
             h == l.head
             t == Touch(l, {n, p, h} \cup ({q} \ {None}))
             nx == With(With(l.next, p, q), n, h)
             pv == With(With(With(l.prev, q, p), h, n), n, None)
  <1>1. p = l.prev[n] /\ q = l.next[n] /\ p \in Ptr /\ q \in Ptr
    BY DEF Field, List
  <1>2. r = [t EXCEPT !.next = With(With(@, p, q), n, h),
                      !.prev = With(With(With(@, q, p), h, n), n, None), !.head = n]
    BY DEF MoveToFront
  <1> HIDE DEF p, q
  <1>3. /\ t \in List
        /\ t.bad = (l.bad \/ ~({n, p, h} \cup ({q} \ {None}) \subseteq l.live))
        /\ t.live = l.live /\ t.next = l.next /\ t.prev = l.prev /\ t.data = l.data
        /\ t.tail = l.tail /\ t.length = l.length
    BY DEF Touch, List
  <1> HIDE DEF t
  <1>4. /\ nx \in [Nodes -> Ptr]
        /\ \A m \in Nodes : nx[m] = IF m = n THEN h ELSE IF m = p THEN q ELSE l.next[m]
    BY <1>1 DEF With, List, Ptr
  <1>5. /\ pv \in [Nodes -> Ptr]
        /\ \A m \in Nodes : pv[m] = IF m = n THEN None ELSE IF m = h THEN n
                                    ELSE IF m = q THEN p ELSE l.prev[m]
    BY <1>1 DEF With, List, Ptr
  <1>6. r = [t EXCEPT !.next = nx, !.prev = pv, !.head = n]
    BY <1>2, <1>3 DEF List
  <1> HIDE DEF nx, pv
  <1>7. /\ r \in List /\ r.live = t.live /\ r.next = nx /\ r.prev = pv /\ r.data = t.data
        /\ r.head = n /\ r.tail = t.tail /\ r.length = t.length /\ r.bad = t.bad
    <2>1. nx \in Links /\ pv \in Links /\ n \in Ptr
      BY <1>4, <1>5 DEF Links, Ptr
    <2> QED
      BY <1>3, <1>6, <2>1, ListFields
  <1> QED
    BY <1>1, <1>3, <1>4, <1>5, <1>7

-----------------------------------------------------------------------------
(* Lists whose tail has been moved.  move_to_front does not give such a    *)
(* list a new tail, and the next eviction cuts it in two.  What remains    *)
(* true of its pointers needs no order of the nodes.                       *)

\* The ends of the list are nodes; the pointers between nodes are mutual.
Joined(l) ==
  /\ l.live = {} => l.head = None /\ l.tail = None
  /\ l.live # {} => l.head \in l.live /\ l.tail \in l.live /\ l.prev[l.head] = None
  /\ \A m \in l.live : l.prev[m] \in l.live => l.next[l.prev[m]] = m
  /\ \A m \in l.live : l.next[m] \in l.live => l.prev[l.next[m]] = m

\* M holds the ends, and what comes before a node of M short of the tail.
Main(l, M) ==
  l.live # {} =>
    /\ M \subseteq l.live /\ l.head \in M /\ l.tail \in M
    /\ \A m \in M \ {l.head} : l.prev[m] \in M \ {l.tail}

Shape(l) == Joined(l) /\ \E M : Main(l, M)

\* No pointer dangles.
Closed(l) ==
  \A m \in l.live : /\ m # l.head => l.prev[m] \in l.live
                    /\ l.next[m] \in l.live \cup {None}

\* Nothing comes after the tail.
Ends(l) == l.live # {} => l.next[l.tail] = None

\* No live node points to n.
Unseen(l, n) == \A m \in l.live : n # l.prev[m] /\ n # l.next[m]

LEMMA CreatedShape ==
  /\ Created \in List /\ Shape(Created) /\ Closed(Created) /\ Ends(Created)
  /\ Created.live = {} /\ Created.length = 0 /\ Created.bad = FALSE
  /\ Created.data = [n \in Nodes |-> None]
  BY DEF Created, List, Ptr, Shape, Joined, Main, Closed, Ends

(* Pushing a node that nothing points to.                                  *)
LEMMA PushShape ==
  ASSUME None \notin Nodes, NEW l \in List, Shape(l),
         NEW n \in Nodes \ l.live, Unseen(l, n), NEW d \in Labels,
         NEW r, r = PushFront(l, n, d)
  PROVE  /\ Shape(r) /\ r.bad = l.bad
         /\ Closed(l) => Closed(r)
         /\ Ends(l) => Ends(r)
         /\ l.live # {} => r.prev[r.tail] \in r.live /\ r.next[r.prev[r.tail]] = r.tail
  <1>1. /\ r \in List
        /\ r.live = l.live \cup {n}
        /\ r.head = n /\ r.tail = (IF l.head = None THEN n ELSE l.tail)
        /\ r.bad = (l.bad \/ ~({l.head} \ {None} \subseteq l.live))
        /\ \A m \in Nodes :
             /\ r.next[m] = IF m = n THEN l.head ELSE l.next[m]
             /\ r.prev[m] = IF m = n THEN None ELSE IF m = l.head THEN n ELSE l.prev[m]
    BY PushFrontFields
  <1>2. l.live \subseteq Nodes /\ l.bad \in BOOLEAN
    BY DEF List
  <1>3. Joined(l)
    BY DEF Shape
  <1>4. CASE l.live = {}
    <2>1. l.head = None /\ l.tail = None
      BY <1>3, <1>4 DEF Joined
    <2>2. r.live = {n} /\ r.tail = n /\ r.next[n] = None /\ r.prev[n] = None
      BY <1>1, <1>4, <2>1
    <2>3. Joined(r) /\ Main(r, {n}) /\ Closed(r) /\ Ends(r)
      BY <1>1, <2>2 DEF Joined, Main, Closed, Ends
    <2>4. r.bad = l.bad
      BY <1>1, <1>2, <2>1
    <2> QED
      BY <1>4, <2>3, <2>4 DEF Shape
  <1>5. CASE l.live # {}
    <2>1. l.head \in l.live /\ l.tail \in l.live /\ l.prev[l.head] = None
      BY <1>3, <1>5 DEF Joined
    <2>2. r.tail = l.tail /\ l.head # n /\ l.head # None
      BY <1>1, <1>2, <2>1
    <2>3. \A m \in l.live :
            /\ m # n /\ r.next[m] = l.next[m] /\ l.next[m] # n /\ l.prev[m] # n
            /\ r.prev[m] = IF m = l.head THEN n ELSE l.prev[m]
      BY <1>1, <1>2 DEF Unseen
    <2>4. r.next[n] = l.head /\ r.prev[n] = None
      BY <1>1
    <2>5. Joined(r)
      <3>1. \A m \in r.live : r.prev[m] \in r.live => r.next[r.prev[m]] = m
        BY <1>1, <1>2, <1>3, <2>1, <2>3, <2>4 DEF Joined
      <3>2. \A m \in r.live : r.next[m] \in r.live => r.prev[r.next[m]] = m
        BY <1>1, <1>2, <1>3, <2>1, <2>3, <2>4 DEF Joined
      <3> QED
        BY <1>1, <2>1, <2>2, <2>4, <3>1, <3>2 DEF Joined
    <2>6. PICK M : Main(l, M)
      BY DEF Shape
    <2>7. /\ M \subseteq l.live /\ l.head \in M /\ l.tail \in M
          /\ \A m \in M \ {l.head} : l.prev[m] \in M \ {l.tail}
      BY <1>5, <2>6 DEF Main
    <2>8. Main(r, M \cup {n})
      BY <1>1, <2>1, <2>2, <2>3, <2>4, <2>7 DEF Main
    <2>9. Closed(l) => Closed(r)
      BY <1>1, <2>1, <2>2, <2>3, <2>4, ZenonT(30) DEF Closed
    <2>10. Ends(l) => Ends(r)
      BY <1>1, <1>5, <2>1, <2>2, <2>3 DEF Ends
    <2>11. r.bad = l.bad
      BY <1>1, <1>2, <2>1
    <2>12. r.prev[r.tail] \in r.live /\ r.next[r.prev[r.tail]] = r.tail
      BY <1>1, <2>1, <2>2, <2>3, <2>4, <2>5, <2>7 DEF Joined
    <2> QED
      BY <2>5, <2>8, <2>9, <2>10, <2>11, <2>12 DEF Shape
  <1> QED
    BY <1>4, <1>5

(* Popping the tail of a list of two nodes or more.                        *)
LEMMA PopShape ==
  ASSUME None \notin Nodes, NEW l \in List, Shape(l), l.length > 1,
         l.live # {}, l.head # l.tail,
         l.prev[l.tail] \in l.live, l.next[l.prev[l.tail]] = l.tail,
         NEW r, r = PopTail(l)
  PROVE  /\ Shape(r) /\ r.bad = l.bad
         /\ Closed(l) /\ Ends(l) => Closed(r) /\ Ends(r)
  <1> DEFINE t == l.tail  p == l.prev[l.tail]
  <1>1. /\ l.head \in l.live /\ t \in l.live /\ l.prev[l.head] = None
        /\ l.live \subseteq Nodes /\ Joined(l)
    BY DEF Shape, Joined, List
  <1>2. /\ r \in List
        /\ r.live = l.live \ {t} /\ r.bad = l.bad
        /\ r.head = l.head /\ r.tail = p
        /\ \A m \in Nodes :
             /\ r.next[m] = IF m \in {t, p} THEN None ELSE l.next[m]
             /\ r.prev[m] = IF m = t THEN None ELSE l.prev[m]
    BY <1>1, PopTailFields
  <1>3. PICK M : Main(l, M)
    BY DEF Shape
  <1>4. /\ M \subseteq l.live /\ l.head \in M /\ t \in M
        /\ \A m \in M \ {l.head} : l.prev[m] \in M \ {t}
    BY <1>3 DEF Main
  <1>5. p \in M \ {t} /\ p \in l.live /\ l.next[p] = t /\ p # t
    BY <1>4
  <1> HIDE DEF t, p
  <1>6. \A m \in r.live : /\ m # t /\ m \in l.live /\ m \in Nodes
                          /\ r.prev[m] = l.prev[m]
                          /\ r.next[m] = IF m = p THEN None ELSE l.next[m]
    BY <1>1, <1>2
  <1>7. None \notin r.live
    BY <1>6
  <1>8. Joined(r)
    <2>1. r.live # {} /\ r.head \in r.live /\ r.tail \in r.live /\ r.prev[r.head] = None
      BY <1>1, <1>2, <1>4, <1>5, <1>6 DEF t
    <2>2. ASSUME NEW m \in r.live, r.prev[m] \in r.live PROVE r.next[r.prev[m]] = m
      <3>1. l.prev[m] \in l.live /\ l.next[l.prev[m]] = m
        BY <2>2, <1>1, <1>6 DEF Joined
      <3>2. l.prev[m] # p
        BY <3>1, <1>5, <1>6
      <3> QED
        BY <2>2, <3>1, <3>2, <1>6
    <2>3. ASSUME NEW m \in r.live, r.next[m] \in r.live PROVE r.prev[r.next[m]] = m
      BY <2>3, <1>1, <1>6, <1>7 DEF Joined
    <2> QED
      BY <2>1, <2>2, <2>3 DEF Joined
  <1>9. Main(r, M \ {t})
    <2>1. M \ {t} \subseteq r.live /\ r.head \in M \ {t} /\ r.tail \in M \ {t}
      BY <1>2, <1>4, <1>5 DEF t
    <2>2. ASSUME NEW m \in (M \ {t}) \ {r.head} PROVE r.prev[m] \in (M \ {t}) \ {r.tail}
      <3>1. l.prev[m] \in M \ {t} /\ m \in r.live /\ m # t /\ m \in l.live
        BY <2>2, <1>2, <1>4
      <3>2. l.next[l.prev[m]] = m
        BY <3>1, <1>1, <1>4 DEF Joined
      <3>3. l.prev[m] # p
        BY <3>1, <3>2, <1>5
      <3> QED
        BY <3>1, <3>3, <1>2, <1>6
    <2> QED
      BY <2>1, <2>2 DEF Main
  <1>10. ASSUME Closed(l), Ends(l) PROVE Closed(r) /\ Ends(r)
    <2>1. l.next[t] = None
      BY <1>10, <1>1 DEF Ends, t
    <2>2. ASSUME NEW m \in r.live
          PROVE  (m # r.head => r.prev[m] \in r.live) /\ r.next[m] \in r.live \cup {None}
      <3>1. /\ m # l.head => l.prev[m] \in l.live
            /\ l.next[m] \in l.live \cup {None}
        BY <2>2, <1>6, <1>10 DEF Closed
      <3>2. l.prev[m] \in l.live => l.prev[m] # t
        <4>1. l.prev[m] \in l.live => l.next[l.prev[m]] = m
          BY <2>2, <1>1, <1>6 DEF Joined
        <4> QED
          BY <4>1, <2>1, <2>2, <1>6
      <3>3. l.next[m] = t => m = p
        <4>1. l.next[m] \in l.live => l.prev[l.next[m]] = m
          BY <2>2, <1>1, <1>6 DEF Joined
        <4> QED
          BY <4>1, <1>1 DEF p, t
      <3> QED
        BY <2>2, <3>1, <3>2, <3>3, <1>2, <1>6
    <2>3. Ends(r)
      BY <1>2, <1>5, <1>6 DEF Ends
    <2> QED
      BY <2>2, <2>3 DEF Closed
  <1> QED
    BY <1>2, <1>8, <1>9, <1>10 DEF Shape

(* Moving a node whose neighbours are nodes, wherever it is.               *)
LEMMA MoveShape ==
  ASSUME None \notin Nodes, NEW l \in List, Shape(l),
         NEW n \in l.live, n # l.head,
         l.prev[n] \in l.live, l.next[n] \in l.live \cup {None},
         NEW r, r = MoveToFront(l, n)
  PROVE  /\ Shape(r) /\ r.bad = l.bad
         /\ Closed(l) => Closed(r)
         /\ Ends(l) /\ n # l.tail => Ends(r)
  <1> DEFINE h == l.head  p == l.prev[n]  q == l.next[n]
  <1>1. /\ l.live \subseteq Nodes /\ l.live # {} /\ Joined(l) /\ None \notin l.live
        /\ l.head \in l.live /\ l.tail \in l.live /\ l.prev[l.head] = None
    BY DEF Shape, Joined, List
  <1>2. /\ r \in List
        /\ r.live = l.live
        /\ r.head = n /\ r.tail = l.tail
        /\ r.bad = (l.bad \/ ~({n, p, h} \cup ({q} \ {None}) \subseteq l.live))
        /\ \A m \in Nodes :
             /\ r.next[m] = IF m = n THEN h ELSE IF m = p THEN q ELSE l.next[m]
             /\ r.prev[m] = IF m = n THEN None ELSE IF m = h THEN n
                            ELSE IF m = q THEN p ELSE l.prev[m]
    BY <1>1, MoveToFrontFields
  <1>3. r.bad = l.bad
    <2>1. {n, p, h} \cup ({q} \ {None}) \subseteq l.live /\ l.bad \in BOOLEAN
      BY <1>1 DEF List
    <2> QED
      BY <2>1, <1>2
  <1>4. PICK M : Main(l, M)
    BY DEF Shape
  <1>5. /\ M \subseteq l.live /\ l.head \in M /\ l.tail \in M
        /\ \A m \in M \ {l.head} : l.prev[m] \in M \ {l.tail}
    BY <1>1, <1>4 DEF Main
  <1>6. /\ p \in l.live /\ l.next[p] = n
        /\ q \in l.live \cup {None}
        /\ q \in l.live => l.prev[q] = n /\ q # h
        /\ p = n => q = n
        /\ q = n => p = n
    BY <1>1 DEF Joined
  <1> HIDE DEF h, p, q
  <1>7. \A m \in l.live :
          /\ m \in Nodes /\ m # None
          /\ r.next[m] = IF m = n THEN h ELSE IF m = p THEN q ELSE l.next[m]
          /\ r.prev[m] = IF m = n THEN None ELSE IF m = h THEN n
                         ELSE IF m = q THEN p ELSE l.prev[m]
    BY <1>1, <1>2
  <1>8. h \in l.live /\ h # n /\ l.prev[h] = None /\ l.next[n] = q /\ l.prev[n] = p /\ n \in l.live
    BY <1>1 DEF h, p, q
  <1>9. Joined(r)
    <2>1. ASSUME NEW m \in l.live, r.prev[m] \in l.live PROVE r.next[r.prev[m]] = m
      <3>1. m # n
        BY <2>1, <1>1, <1>7
      <3>2. CASE m = h
        BY <3>1, <3>2, <1>7, <1>8
      <3>3. CASE m # h /\ m = q
        BY <3>1, <3>3, <1>6, <1>7
      <3>4. CASE m # h /\ m # q
        <4> DEFINE y == l.prev[m]
        <4>1. r.prev[m] = y /\ y \in l.live
          BY <2>1, <3>1, <3>4, <1>7
        <4>2. l.next[y] = m
          BY <4>1, <1>1 DEF Joined
        <4> HIDE DEF y
        <4>3. y # n /\ y # p
          BY <4>2, <3>1, <3>4, <1>6, <1>8
        <4> QED
          BY <4>1, <4>2, <4>3, <1>7
      <3> QED
        BY <3>2, <3>3, <3>4
    <2>2. ASSUME NEW m \in l.live, r.next[m] \in l.live PROVE r.prev[r.next[m]] = m
      <3>1. CASE m = n
        BY <3>1, <1>7, <1>8
      <3>2. CASE m # n /\ m = p
        <4>1. r.next[m] = q /\ q \in l.live /\ q # n /\ q # h
          BY <2>2, <3>2, <1>6, <1>7
        <4> QED
          BY <3>2, <4>1, <1>7
      <3>3. CASE m # n /\ m # p
        <4> DEFINE z == l.next[m]
        <4>1. r.next[m] = z /\ z \in l.live
          BY <2>2, <3>3, <1>7
        <4>2. l.prev[z] = m
          BY <4>1, <1>1 DEF Joined
        <4> HIDE DEF z
        <4>3. z # n /\ z # h /\ z # q
          BY <4>1, <4>2, <3>3, <1>6, <1>7, <1>8
        <4> QED
          BY <4>1, <4>2, <4>3, <1>7
      <3> QED
        BY <3>1, <3>2, <3>3
    <2>3. r.prev[n] = None
      BY <1>7, <1>8
    <2> QED
      BY <1>1, <1>2, <2>1, <2>2, <2>3 DEF Joined
  <1>10. \E K : Main(r, K)
    <2>1. CASE n = l.tail
      <3>1. Main(r, {n})
        BY <2>1, <1>1, <1>2 DEF Main
      <3> QED
        BY <3>1
    <2>2. CASE n # l.tail
      <3> DEFINE K == M \cup {n}
      <3>1. K \subseteq r.live /\ r.head \in K /\ r.tail \in K
        BY <1>2, <1>5, <1>8
      <3>2. ASSUME NEW m \in K \ {r.head} PROVE r.prev[m] \in K \ {r.tail}
        <4>1. m \in M /\ m # n /\ m \in l.live
          BY <3>2, <1>2, <1>5
        <4>2. CASE m = h
          BY <4>1, <4>2, <2>2, <1>2, <1>7
        <4>3. CASE m # h
          <5>1. l.prev[m] \in M \ {l.tail}
            BY <4>1, <4>3, <1>5 DEF h
          <5>2. CASE m # q
            BY <4>1, <4>3, <5>1, <5>2, <1>2, <1>7
          <5>3. CASE m = q
            <6>1. l.prev[m] = n /\ n \in M /\ r.prev[m] = p
              BY <4>1, <4>3, <5>1, <5>3, <1>6, <1>7
            <6>2. p \in M \ {l.tail}
              BY <6>1, <1>5, <1>8 DEF h
            <6> QED
              BY <6>1, <6>2, <1>2
          <5> QED
            BY <5>2, <5>3
        <4> QED
          BY <4>2, <4>3
      <3>3. Main(r, K)
        BY <3>1, <3>2 DEF Main
      <3> QED
        BY <3>3
    <2> QED
      BY <2>1, <2>2
  <1>11. Closed(l) => Closed(r)
    <2> SUFFICES ASSUME Closed(l), NEW m \in l.live
                 PROVE  /\ m # n => r.prev[m] \in l.live
                        /\ r.next[m] \in l.live \cup {None}
      BY <1>2 DEF Closed
    <2>1. (m # h => l.prev[m] \in l.live) /\ l.next[m] \in l.live \cup {None}
      BY DEF Closed, h
    <2>2. /\ r.next[m] = IF m = n THEN h ELSE IF m = p THEN q ELSE l.next[m]
          /\ r.prev[m] = IF m = n THEN None ELSE IF m = h THEN n
                         ELSE IF m = q THEN p ELSE l.prev[m]
      BY <1>7
    <2> QED
      BY <2>1, <2>2, <1>6, <1>8
  <1>12. Ends(l) /\ n # l.tail => Ends(r)
    <2>1. Ends(l) /\ n # l.tail => l.tail # p /\ l.next[l.tail] = None
      BY <1>1, <1>6, <1>7, <1>8 DEF Ends
    <2> QED
      BY <2>1, <1>1, <1>2, <1>7 DEF Ends
  <1> QED
    BY <1>3, <1>9, <1>10, <1>11, <1>12 DEF Shape

-----------------------------------------------------------------------------
(* Lists linked both ways, with the order of their nodes.                  *)

\* s holds the nodes of l in order, each once.
Ordered(l, s) ==
  /\ l.length \in Nat /\ s \in [1..l.length -> Nodes]
  /\ \A i, j \in 1..l.length : s[i] = s[j] => i = j
  /\ Linked(l, s)

(* push_front puts the new node before the others.                        *)
LEMMA PushFrontOrders ==
  ASSUME None \notin Nodes, NEW l \in List, NEW s, Ordered(l, s),
         NEW n \in Nodes \ l.live, NEW d \in Labels,
         NEW r, r = PushFront(l, n, d),
         NEW t \in [1..l.length + 1 -> Nodes],
         \A i \in 1..l.length + 1 : t[i] = IF i = 1 THEN n ELSE s[i - 1]
  PROVE  Ordered(r, t) /\ r.length = l.length + 1 /\ r.bad = l.bad
  <1> DEFINE k == l.length  h == k + 1
  <1>0. k \in Nat /\ h \in Nat /\ h = k + 1 /\ h >= 1
    BY DEF Ordered
  <1>a. t \in [1..h -> Nodes] /\ \A i \in 1..h : t[i] = IF i = 1 THEN n ELSE s[i - 1]
    OBVIOUS
  <1>1. /\ s \in [1..k -> Nodes]
        /\ \A i, j \in 1..k : s[i] = s[j] => i = j
        /\ l.live = {s[i] : i \in 1..k}
        /\ l.head = (IF k = 0 THEN None ELSE s[1])
        /\ l.tail = (IF k = 0 THEN None ELSE s[k])
        /\ \A i \in 1..k : l.next[s[i]] = (IF i = k THEN None ELSE s[i + 1])
        /\ \A i \in 1..k : l.prev[s[i]] = (IF i = 1 THEN None ELSE s[i - 1])
    BY <1>0 DEF Ordered, Linked
  <1>2. /\ r.live = l.live \cup {n} /\ r.length = h
        /\ r.head = n /\ r.tail = (IF l.head = None THEN n ELSE l.tail)
        /\ r.bad = (l.bad \/ ~({l.head} \ {None} \subseteq l.live))
        /\ \A m \in Nodes :
             /\ r.next[m] = IF m = n THEN l.head ELSE l.next[m]
             /\ r.prev[m] = IF m = n THEN None ELSE IF m = l.head THEN n ELSE l.prev[m]
    BY PushFrontFields
  <1> HIDE DEF k, h
  <1>3. \A i \in 1..k : s[i] \in Nodes /\ s[i] \in l.live /\ s[i] # n /\ s[i] # None
    BY <1>1
  <1>4. r.bad = l.bad
    <2>1. {l.head} \ {None} \subseteq l.live /\ l.bad \in BOOLEAN
      BY <1>0, <1>1, <1>3 DEF List
    <2> QED
      BY <1>2, <2>1
  <1>5. \A i \in 2..h : i - 1 \in 1..k /\ i \in 1..h /\ t[i] = s[i - 1]
    BY <1>0, <1>a
  <1>6. 1 \in 1..h /\ t[1] = n /\ \A i \in 1..h : i = 1 \/ i \in 2..h
    BY <1>0, <1>a
  <1>7. \A i, j \in 1..h : t[i] = t[j] => i = j
    <2> SUFFICES ASSUME NEW i \in 1..h, NEW j \in 1..h, t[i] = t[j] PROVE i = j
      OBVIOUS
    <2>1. CASE i \in 2..h /\ j \in 2..h
      <3>1. i - 1 = j - 1
        BY <2>1, <1>1, <1>5
      <3> QED
        BY <3>1, <1>0
    <2>2. CASE i = 1 \/ j = 1
      BY <2>2, <1>3, <1>5, <1>6
    <2> QED
      BY <2>1, <2>2, <1>6
  <1>8. r.live = {t[i] : i \in 1..h}
    <2>1. \A i \in 1..k : i + 1 \in 2..h /\ t[i + 1] = s[i]
      BY <1>0, <1>5
    <2>2. ASSUME NEW m \in r.live PROVE \E i \in 1..h : m = t[i]
      <3>1. CASE m = n
        BY <3>1, <1>6
      <3>2. CASE m # n
        <4>1. PICK i \in 1..k : m = s[i]
          BY <3>2, <1>1, <1>2
        <4>2. i + 1 \in 1..h /\ m = t[i + 1]
          BY <4>1, <2>1, <1>5
        <4> QED
          BY <4>2
      <3> QED
        BY <3>1, <3>2
    <2>3. \A i \in 1..h : t[i] \in r.live
      BY <1>2, <1>3, <1>5, <1>6
    <2> QED
      BY <2>2, <2>3
  <1>9. r.head = t[1] /\ r.tail = t[h]
    <2>1. CASE k = 0
      BY <2>1, <1>0, <1>1, <1>2, <1>6
    <2>2. CASE k # 0
      <3>1. h \in 2..h /\ h - 1 = k /\ 1 \in 1..k
        BY <2>2, <1>0
      <3>2. l.head # None
        BY <2>2, <3>1, <1>1, <1>3
      <3> QED
        BY <2>2, <3>1, <3>2, <1>1, <1>2, <1>5, <1>6
    <2> QED
      BY <2>1, <2>2
  <1>10. ASSUME NEW i \in 1..h
         PROVE  /\ r.next[t[i]] = (IF i = h THEN None ELSE t[i + 1])
                /\ r.prev[t[i]] = (IF i = 1 THEN None ELSE t[i - 1])
    <2>1. CASE i = 1
      <3>1. r.next[t[i]] = l.head /\ r.prev[t[i]] = None
        BY <2>1, <1>2, <1>6
      <3>2. k # 0 => l.head = t[2]
        BY <1>0, <1>1, <1>5
      <3> QED
        BY <2>1, <3>1, <3>2, <1>0, <1>1
    <2>2. CASE i \in 2..h
      <3>1. /\ i - 1 \in 1..k /\ t[i] = s[i - 1]
            /\ r.next[t[i]] = l.next[s[i - 1]]
            /\ r.prev[t[i]] = IF s[i - 1] = l.head THEN n ELSE l.prev[s[i - 1]]
        BY <2>2, <1>2, <1>3, <1>5
      <3>2. r.next[t[i]] = (IF i = h THEN None ELSE t[i + 1])
        <4>1. l.next[s[i - 1]] = IF i - 1 = k THEN None ELSE s[(i - 1) + 1]
          BY <3>1, <1>1
        <4>2. i # h => i + 1 \in 2..h /\ (i - 1) + 1 = (i + 1) - 1
          BY <2>2, <1>0
        <4>3. i # h => t[i + 1] = s[(i - 1) + 1]
          BY <4>2, <1>5
        <4>4. i - 1 = k <=> i = h
          BY <2>2, <1>0
        <4> QED
          BY <3>1, <4>1, <4>3, <4>4
      <3>3. r.prev[t[i]] = t[i - 1]
        <4>1. CASE i = 2
          BY <4>1, <3>1, <1>0, <1>1, <1>6
        <4>2. CASE i # 2
          <5>1. i - 1 # 1 /\ i - 1 \in 2..h /\ 1 \in 1..k /\ k # 0
            BY <4>2, <2>2, <1>0
          <5>2. s[i - 1] # l.head
            BY <5>1, <3>1, <1>1
          <5> QED
            BY <5>1, <5>2, <3>1, <1>1, <1>5
        <4> QED
          BY <4>1, <4>2
      <3> QED
        BY <2>2, <3>2, <3>3
    <2> QED
      BY <2>1, <2>2, <1>6
  <1>11. Ordered(r, t) /\ r.length = h
    <2>1. r.length = h /\ h # 0
      BY <1>0, <1>2
    <2>2. Linked(r, t)
      BY <2>1, <1>a, <1>8, <1>9, <1>10 DEF Linked
    <2> QED
      BY <2>1, <2>2, <1>0, <1>a, <1>7 DEF Ordered
  <1> QED
    BY <1>4, <1>11, <1>0 DEF k

(* Both pops of a list of one node leave it empty.                         *)
LEMMA LastPopOrders ==
  ASSUME None \notin Nodes, NEW l \in List, NEW s, Ordered(l, s), l.length = 1,
         NEW r, r = PopHead(l) \/ r = PopTail(l),
         NEW t \in [1..0 -> Nodes]
  PROVE  r \in List /\ Ordered(r, t) /\ r.length = 0 /\ r.bad = l.bad
  <1> DEFINE x == l.head  S == {x}  f == Free(l, S)
  <1>1. /\ 1 \in 1..1 /\ \A i \in 1..1 : i = 1
        /\ s \in [1..1 -> Nodes] /\ l.live = {s[i] : i \in 1..1}
        /\ l.head = s[1] /\ l.tail = s[1]
    BY DEF Ordered, Linked
  <1>2. l.tail = x /\ x \in l.live /\ x \in Nodes /\ l.live = {x}
    BY <1>1
  <1>3. Touch(l, {l.tail}) = l
    <2>1. (l.bad \/ ~({l.tail} \subseteq l.live)) = l.bad
      BY <1>2 DEF List
    <2> QED
      BY <2>1 DEF Touch, List
  <1>4. r = [f EXCEPT !.head = None, !.tail = None, !.length = @ - 1]
    <2>1. ~(l.length > 1)
      OBVIOUS
    <2>2. CASE r = PopHead(l)
      BY <2>1, <2>2 DEF PopHead
    <2>3. CASE r = PopTail(l)
      BY <1>3, <2>1, <2>3 DEF PopTail
    <2> QED
      BY <2>2, <2>3
  <1>5. f \in List /\ f.live = {} /\ f.bad = l.bad /\ f.length = 1
    <2> HIDE DEF f, S
    <2>1. f \in List /\ f.live = l.live \ S /\ f.bad = (l.bad \/ ~(S \subseteq l.live))
          /\ f.length = l.length
      BY FreeFields DEF f
    <2>2. S \subseteq l.live /\ l.live \ S = {} /\ l.bad \in BOOLEAN
      BY <1>2 DEF S, List
    <2> QED
      BY <2>1, <2>2
  <1> HIDE DEF f, x
  <1>6. /\ r \in List /\ r.live = {} /\ r.bad = l.bad /\ r.length = 0
        /\ r.head = None /\ r.tail = None
    <2>1. None \in Ptr /\ f.length - 1 = 0 /\ 0 \in Int
      BY <1>5 DEF Ptr
    <2> QED
      BY <1>4, <1>5, <2>1, ListFields
  <1>7. Linked(r, t)
    BY <1>6 DEF Linked
  <1>8. Ordered(r, t)
    BY <1>6, <1>7 DEF Ordered
  <1> QED
    BY <1>6, <1>8

(* pop_tail takes the last node off.                                       *)
LEMMA PopTailOrders ==
  ASSUME None \notin Nodes, NEW l \in List, NEW s, Ordered(l, s), l.length > 0,
         NEW r, r = PopTail(l),
         NEW t \in [1..l.length - 1 -> Nodes],
         \A i \in 1..l.length - 1 : t[i] = s[i]
  PROVE  r \in List /\ Ordered(r, t) /\ r.length = l.length - 1 /\ r.bad = l.bad
  <1> DEFINE k == l.length  h == k - 1
  <1>0. k \in Nat /\ h \in Nat /\ h = k - 1 /\ k >= 1 /\ k \in 1..k
    BY DEF Ordered
  <1>a. t \in [1..h -> Nodes] /\ \A i \in 1..h : t[i] = s[i]
    OBVIOUS
  <1>1. /\ s \in [1..k -> Nodes]
        /\ \A i, j \in 1..k : s[i] = s[j] => i = j
        /\ l.live = {s[i] : i \in 1..k}
        /\ l.head = s[1] /\ l.tail = s[k]
        /\ \A i \in 1..k : l.next[s[i]] = (IF i = k THEN None ELSE s[i + 1])
        /\ \A i \in 1..k : l.prev[s[i]] = (IF i = 1 THEN None ELSE s[i - 1])
    BY <1>0 DEF Ordered, Linked
  <1>2. CASE k = 1
    <2>1. h = 0 /\ l.length = 1 /\ t \in [1..0 -> Nodes]
      BY <1>2, <1>0, <1>a
    <2>2. r \in List /\ Ordered(r, t) /\ r.length = 0 /\ r.bad = l.bad
      BY <2>1, LastPopOrders
    <2> QED
      BY <2>1, <2>2
  <1>3. CASE k > 1
    <2>1. h \in 1..k /\ k # 1 /\ 1 \in 1..k /\ (k - 1) = h /\ h + 1 = k
      BY <1>3, <1>0
    <2>2. /\ l.tail \in l.live /\ l.prev[l.tail] = s[h] /\ s[h] \in l.live
          /\ l.next[s[h]] = l.tail
      BY <1>0, <1>1, <2>1
    <2>3. /\ r \in List
          /\ r.live = l.live \ {l.tail} /\ r.bad = l.bad
          /\ r.head = l.head /\ r.tail = l.prev[l.tail] /\ r.length = l.length - 1
          /\ \A m \in Nodes :
               /\ r.next[m] = IF m \in {l.tail, l.prev[l.tail]} THEN None ELSE l.next[m]
               /\ r.prev[m] = IF m = l.tail THEN None ELSE l.prev[m]
      BY <1>3, <2>2, PopTailFields
    <2>4. r.length = h
      BY <2>3
    <2> HIDE DEF k, h
    <2>5. \A i \in 1..h : /\ i \in 1..k /\ i # k /\ t[i] = s[i] /\ s[i] \in Nodes
                          /\ i + 1 \in 1..k /\ i - 1 \in 0..h
      BY <1>0, <1>1, <1>a
    <2>6. \A i \in 1..h : t[i] # l.tail
      BY <1>0, <1>1, <2>5
    <2>7. \A i, j \in 1..h : t[i] = t[j] => i = j
      BY <1>1, <2>5
    <2>8. r.live = {t[i] : i \in 1..h}
      <3>1. ASSUME NEW m \in r.live PROVE \E i \in 1..h : m = t[i]
        <4>1. PICK i \in 1..k : m = s[i]
          BY <1>1, <2>3
        <4>2. i # k
          BY <4>1, <1>1, <2>3
        <4>3. i \in 1..h
          BY <4>2, <1>0
        <4> QED
          BY <4>1, <4>3, <2>5
      <3>2. \A i \in 1..h : t[i] \in r.live
        BY <1>1, <2>3, <2>5, <2>6
      <3> QED
        BY <3>1, <3>2
    <2>9. r.head = t[1] /\ r.tail = t[h]
      <3>1. 1 \in 1..h /\ h \in 1..h
        BY <1>0, <2>1
      <3> QED
        BY <3>1, <1>1, <2>2, <2>3, <2>5
    <2>10. ASSUME NEW i \in 1..h
           PROVE  /\ r.next[t[i]] = (IF i = h THEN None ELSE t[i + 1])
                  /\ r.prev[t[i]] = (IF i = 1 THEN None ELSE t[i - 1])
      <3>1. r.prev[t[i]] = l.prev[s[i]] /\ l.prev[s[i]] = (IF i = 1 THEN None ELSE s[i - 1])
        BY <1>1, <2>3, <2>5, <2>6
      <3>2. i # 1 => i - 1 \in 1..h
        BY <1>0
      <3>3. CASE i = h
        BY <3>1, <3>2, <3>3, <2>2, <2>3, <2>5
      <3>4. CASE i # h
        <4>1. s[i] # s[h] /\ i + 1 \in 1..h
          BY <3>4, <1>0, <1>1, <2>1, <2>5
        <4>2. r.next[t[i]] = l.next[s[i]] /\ l.next[s[i]] = s[i + 1]
          BY <4>1, <1>1, <2>2, <2>3, <2>5, <2>6
        <4> QED
          BY <3>1, <3>2, <3>4, <4>1, <4>2, <2>5
      <3> QED
        BY <3>3, <3>4
    <2>11. Linked(r, t)
      <3>1. h # 0
        BY <2>1, <1>0
      <3> QED
        BY <3>1, <2>4, <1>a, <2>8, <2>9, <2>10 DEF Linked
    <2>12. Ordered(r, t)
      BY <1>0, <1>a, <2>4, <2>7, <2>11 DEF Ordered
    <2> QED
      BY <2>3, <2>4, <2>12 DEF h, k
  <1> QED
    BY <1>0, <1>2, <1>3

(* move_to_front of the j-th node, short of the last, puts it before the   *)
(* others.                                                                 *)
LEMMA MoveOrders ==
  ASSUME None \notin Nodes, NEW l \in List, NEW s, Ordered(l, s),
         NEW j \in 1..l.length, j # l.length, j # 1,
         NEW r, r = MoveToFront(l, s[j]),
         NEW t \in [1..l.length -> Nodes],
         \A i \in 1..l.length : t[i] = IF i = 1 THEN s[j] ELSE IF i <= j THEN s[i - 1] ELSE s[i]
  PROVE  r \in List /\ Ordered(r, t) /\ r.length = l.length /\ r.bad = l.bad
  <1> DEFINE k == l.length  n == s[j]
  <1>0. k \in Nat /\ k >= 3 /\ j \in 2..k - 1 /\ j \in 1..k /\ j + 1 \in 1..k /\ j - 1 \in 1..k
        /\ 1 \in 1..k /\ k \in 1..k /\ k # 0 /\ j # k /\ j # 1
    BY DEF Ordered
  <1>a. t \in [1..k -> Nodes]
        /\ \A i \in 1..k : t[i] = IF i = 1 THEN n ELSE IF i <= j THEN s[i - 1] ELSE s[i]
    OBVIOUS
  <1>1. /\ s \in [1..k -> Nodes]
        /\ \A i, m \in 1..k : s[i] = s[m] => i = m
        /\ l.live = {s[i] : i \in 1..k}
        /\ l.head = s[1] /\ l.tail = s[k]
        /\ \A i \in 1..k : l.next[s[i]] = (IF i = k THEN None ELSE s[i + 1])
        /\ \A i \in 1..k : l.prev[s[i]] = (IF i = 1 THEN None ELSE s[i - 1])
    BY <1>0 DEF Ordered, Linked
  <1>2. /\ n \in Nodes /\ l.head \in Nodes /\ n # l.head
        /\ l.prev[n] = s[j - 1] /\ l.next[n] = s[j + 1]
    BY <1>0, <1>1
  <1>3. /\ r \in List
        /\ r.live = l.live /\ r.head = n /\ r.tail = l.tail /\ r.length = k
        /\ r.bad = (l.bad \/ ~({n, l.prev[n], l.head} \cup ({l.next[n]} \ {None}) \subseteq l.live))
        /\ \A m \in Nodes :
             /\ r.next[m] = IF m = n THEN l.head
                            ELSE IF m = l.prev[n] THEN l.next[n] ELSE l.next[m]
             /\ r.prev[m] = IF m = n THEN None
                            ELSE IF m = l.head THEN n
                            ELSE IF m = l.next[n] THEN l.prev[n] ELSE l.prev[m]
    BY <1>2, MoveToFrontFields
  <1> HIDE DEF k, n
  <1>4. r.bad = l.bad
    <2>1. {n, l.prev[n], l.head} \cup ({l.next[n]} \ {None}) \subseteq l.live
      BY <1>0, <1>1, <1>2 DEF n
    <2> QED
      BY <1>3, <2>1 DEF List
  \* Where the nodes go: p gives the old place of the i-th node.
  <1> DEFINE p == [i \in 1..k |-> IF i = 1 THEN j ELSE IF i <= j THEN i - 1 ELSE i]
  <1>5. \A i \in 1..k : p[i] \in 1..k /\ t[i] = s[p[i]]
    BY <1>0, <1>a DEF n
  <1>6. \A i, m \in 1..k : p[i] = p[m] => i = m
    BY <1>0
  <1>7. \A m \in 1..k : \E i \in 1..k : p[i] = m
    <2> TAKE m \in 1..k
    <2>1. CASE m = j
      BY <2>1, <1>0
    <2>2. CASE m < j
      <3>1. m + 1 \in 1..k /\ p[m + 1] = m
        BY <2>2, <1>0
      <3> QED
        BY <3>1
    <2>3. CASE m > j
      <3>1. p[m] = m
        BY <2>3, <1>0
      <3> QED
        BY <3>1
    <2> QED
      BY <2>1, <2>2, <2>3, <1>0
  <1>8. /\ p[1] = j /\ p[2] = 1 /\ p[j] = j - 1 /\ p[j + 1] = j + 1 /\ p[k] = k
        /\ 2 \in 1..k
        /\ \A i \in 1..k : i # 1 => p[i] # j
        /\ \A i \in 1..k : i # 2 => p[i] # 1
        /\ \A i \in 1..k : i # j => p[i] # j - 1
        /\ \A i \in 1..k : i # j + 1 => p[i] # j + 1
        /\ \A i \in 1..k : i # k => p[i] # k
        /\ \A i \in 1..k : i \notin {1, j, k} => i + 1 \in 1..k /\ p[i + 1] = p[i] + 1
        /\ \A i \in 1..k : i \notin {1, 2, j + 1} => i - 1 \in 1..k /\ p[i - 1] = p[i] - 1
    BY <1>0
  <1> HIDE DEF p
  <1>9. \A i, m \in 1..k : t[i] = t[m] => i = m
    <2> SUFFICES ASSUME NEW i \in 1..k, NEW m \in 1..k, t[i] = t[m] PROVE i = m
      OBVIOUS
    <2>1. p[i] = p[m]
      BY <1>1, <1>5
    <2> QED
      BY <2>1, <1>6
  <1>10. r.live = {t[i] : i \in 1..k}
    <2>1. ASSUME NEW m \in r.live PROVE \E i \in 1..k : m = t[i]
      <3>1. PICK i \in 1..k : m = s[i]
        BY <1>1, <1>3
      <3>2. PICK x \in 1..k : p[x] = i
        BY <1>7
      <3> QED
        BY <3>1, <3>2, <1>5
    <2>2. \A i \in 1..k : t[i] \in r.live
      BY <1>1, <1>3, <1>5
    <2> QED
      BY <2>1, <2>2
  <1>11. r.head = t[1] /\ r.tail = t[k]
    BY <1>0, <1>1, <1>3, <1>5, <1>8 DEF n
  <1>12. \A i \in 1..k : /\ t[i] \in Nodes
                         /\ t[i] = n <=> i = 1
                         /\ t[i] = l.head <=> i = 2
                         /\ t[i] = l.prev[n] <=> i = j
                         /\ t[i] = l.next[n] <=> i = j + 1
    <2> TAKE i \in 1..k
    <2>1. p[i] \in 1..k /\ t[i] = s[p[i]]
      BY <1>5
    <2>2. /\ p[i] = j <=> i = 1
          /\ p[i] = 1 <=> i = 2
          /\ p[i] = j - 1 <=> i = j
          /\ p[i] = j + 1 <=> i = j + 1
      BY <1>0, <1>8
    <2>3. \A m \in 1..k : t[i] = s[m] <=> p[i] = m
      BY <2>1, <1>1
    <2>4. t[i] \in Nodes
      BY <2>1, <1>1
    <2>5. l.head = s[1] /\ n = s[j]
      BY <1>1 DEF n
    <2> QED
      BY <2>2, <2>3, <2>4, <2>5, <1>0, <1>2
  <1>13. ASSUME NEW i \in 1..k PROVE r.next[t[i]] = (IF i = k THEN None ELSE t[i + 1])
    <2>1. CASE i = 1
      BY <2>1, <1>0, <1>1, <1>3, <1>5, <1>8, <1>12, SMTT(30)
    <2>2. CASE i = j
      <3>1. r.next[t[i]] = l.next[n]
        BY <2>2, <1>0, <1>3, <1>12
      <3> QED
        BY <2>2, <3>1, <1>0, <1>2, <1>5, <1>8
    <2>3. CASE i # 1 /\ i # j
      <3>1. r.next[t[i]] = l.next[s[p[i]]] /\ p[i] \in 1..k
        BY <2>3, <1>3, <1>5, <1>12
      <3>2. CASE i = k
        BY <3>1, <3>2, <1>1, <1>8
      <3>3. CASE i # k
        <4>1. p[i] # k /\ i + 1 \in 1..k /\ p[i + 1] = p[i] + 1
          BY <2>3, <3>3, <1>8
        <4>2. l.next[s[p[i]]] = s[p[i] + 1]
          BY <3>1, <4>1, <1>1
        <4> QED
          BY <3>1, <3>3, <4>1, <4>2, <1>5
      <3> QED
        BY <3>2, <3>3
    <2> QED
      BY <2>1, <2>2, <2>3
  <1>14. ASSUME NEW i \in 1..k PROVE r.prev[t[i]] = (IF i = 1 THEN None ELSE t[i - 1])
    <2>1. CASE i = 1
      BY <2>1, <1>3, <1>12
    <2>2. CASE i = 2
      <3>1. r.prev[t[i]] = n /\ i # 1 /\ i - 1 = 1
        BY <2>2, <1>0, <1>3, <1>12
      <3> QED
        BY <3>1, <1>0, <1>12
    <2>3. CASE i = j + 1
      <3>1. i # 1 /\ i # 2 /\ i - 1 = j
        BY <2>3, <1>0
      <3>2. r.prev[t[i]] = l.prev[n]
        BY <2>3, <3>1, <1>3, <1>12
      <3> QED
        BY <3>1, <3>2, <1>0, <1>12
    <2>4. CASE i \notin {1, 2, j + 1}
      <3>1. r.prev[t[i]] = l.prev[s[p[i]]] /\ p[i] \in 1..k
        BY <2>4, <1>3, <1>5, <1>12
      <3>2. p[i] # 1 /\ i - 1 \in 1..k /\ p[i - 1] = p[i] - 1
        BY <2>4, <1>8
      <3>3. l.prev[s[p[i]]] = s[p[i] - 1]
        BY <3>1, <3>2, <1>1
      <3> QED
        BY <2>4, <3>1, <3>2, <3>3, <1>5
    <2> QED
      BY <2>1, <2>2, <2>3, <2>4
  <1>15. Linked(r, t)
    BY <1>0, <1>3, <1>a, <1>10, <1>11, <1>13, <1>14 DEF Linked
  <1>16. Ordered(r, t)
    BY <1>0, <1>3, <1>a, <1>9, <1>15 DEF Ordered
  <1> QED
    BY <1>3, <1>4, <1>16 DEF k

(* pop_head takes the first node off.                                      *)
LEMMA PopHeadOrders ==
  ASSUME None \notin Nodes, NEW l \in List, NEW s, Ordered(l, s), l.length > 0,
         NEW r, r = PopHead(l),
         NEW t \in [1..l.length - 1 -> Nodes],
         \A i \in 1..l.length - 1 : t[i] = s[i + 1]
  PROVE  r \in List /\ Ordered(r, t) /\ r.length = l.length - 1 /\ r.bad = l.bad
  <1> DEFINE k == l.length  h == k - 1
  <1>0. k \in Nat /\ h \in Nat /\ h = k - 1 /\ k >= 1 /\ k \in 1..k /\ 1 \in 1..k
    BY DEF Ordered
  <1>a. t \in [1..h -> Nodes] /\ \A i \in 1..h : t[i] = s[i + 1]
    OBVIOUS
  <1>1. /\ s \in [1..k -> Nodes]
        /\ \A i, j \in 1..k : s[i] = s[j] => i = j
        /\ l.live = {s[i] : i \in 1..k}
        /\ l.head = s[1] /\ l.tail = s[k]
        /\ \A i \in 1..k : l.next[s[i]] = (IF i = k THEN None ELSE s[i + 1])
        /\ \A i \in 1..k : l.prev[s[i]] = (IF i = 1 THEN None ELSE s[i - 1])
    BY <1>0 DEF Ordered, Linked
  <1>2. CASE k = 1
    <2>1. h = 0 /\ l.length = 1 /\ t \in [1..0 -> Nodes]
      BY <1>2, <1>0, <1>a
    <2>2. r \in List /\ Ordered(r, t) /\ r.length = 0 /\ r.bad = l.bad
      BY <2>1, LastPopOrders
    <2> QED
      BY <2>1, <2>2
  <1>3. CASE k > 1
    <2>1. 2 \in 1..k /\ k # 1 /\ h # 0 /\ h + 1 = k /\ 1 \in 1..h /\ h \in 1..h
      BY <1>3, <1>0
    <2>2. /\ l.head \in l.live /\ l.next[l.head] = s[2] /\ s[2] \in l.live
          /\ l.prev[s[2]] = l.head
      BY <1>0, <1>1, <2>1
    <2>3. /\ r \in List
          /\ r.live = l.live \ {l.head} /\ r.bad = l.bad
          /\ r.tail = l.tail /\ r.head = l.next[l.head] /\ r.length = l.length - 1
          /\ \A m \in Nodes :
               /\ r.prev[m] = IF m \in {l.head, l.next[l.head]} THEN None ELSE l.prev[m]
               /\ r.next[m] = IF m = l.head THEN None ELSE l.next[m]
      BY <1>3, <2>2, PopHeadFields
    <2>4. r.length = h
      BY <2>3
    <2> HIDE DEF k, h
    <2>5. \A i \in 1..h : /\ i + 1 \in 1..k /\ i + 1 # 1 /\ t[i] = s[i + 1] /\ s[i + 1] \in Nodes
                          /\ (i + 1) - 1 = i
      BY <1>0, <1>1, <1>a
    <2>6. \A i \in 1..h : t[i] # l.head
      BY <1>0, <1>1, <2>5
    <2>7. \A i, j \in 1..h : t[i] = t[j] => i = j
      <3> SUFFICES ASSUME NEW i \in 1..h, NEW j \in 1..h, t[i] = t[j] PROVE i = j
        OBVIOUS
      <3>1. i + 1 = j + 1
        BY <1>1, <2>5
      <3> QED
        BY <3>1, <1>0
    <2>8. r.live = {t[i] : i \in 1..h}
      <3>1. ASSUME NEW m \in r.live PROVE \E i \in 1..h : m = t[i]
        <4>1. PICK i \in 1..k : m = s[i]
          BY <1>1, <2>3
        <4>2. i # 1
          BY <4>1, <1>1, <2>3
        <4>3. i - 1 \in 1..h /\ (i - 1) + 1 = i
          BY <4>2, <1>0
        <4> QED
          BY <4>1, <4>3, <2>5
      <3>2. \A i \in 1..h : t[i] \in r.live
        BY <1>1, <2>3, <2>5, <2>6
      <3> QED
        BY <3>1, <3>2
    <2>9. r.head = t[1] /\ r.tail = t[h]
      <3>1. 1 + 1 = 2
        OBVIOUS
      <3> QED
        BY <3>1, <1>1, <2>1, <2>2, <2>3, <2>5
    <2>10. ASSUME NEW i \in 1..h
           PROVE  /\ r.next[t[i]] = (IF i = h THEN None ELSE t[i + 1])
                  /\ r.prev[t[i]] = (IF i = 1 THEN None ELSE t[i - 1])
      <3>1. r.next[t[i]] = (IF i + 1 = k THEN None ELSE s[(i + 1) + 1])
        BY <1>1, <2>3, <2>5, <2>6
      <3>2. i + 1 = k <=> i = h
        BY <1>0
      <3>3. i # h => i + 1 \in 1..h
        BY <1>0
      <3>4. CASE i = 1
        <4>1. t[i] = s[2] /\ r.prev[t[i]] = None
          BY <3>4, <1>1, <2>2, <2>3, <2>5, <2>1
        <4> QED
          BY <3>1, <3>2, <3>3, <3>4, <4>1, <2>5
      <3>5. CASE i # 1
        <4>1. i - 1 \in 1..h /\ (i - 1) + 1 = i
          BY <3>5, <1>0
        <4>2. s[i + 1] # s[2]
          BY <3>5, <1>1, <2>1, <2>5
        <4>3. r.prev[t[i]] = s[(i + 1) - 1]
          BY <4>2, <1>1, <2>2, <2>3, <2>5, <2>6
        <4> QED
          BY <3>1, <3>2, <3>3, <3>5, <4>1, <4>3, <2>5
      <3> QED
        BY <3>4, <3>5
    <2>11. Linked(r, t)
      BY <2>1, <2>4, <1>a, <2>8, <2>9, <2>10 DEF Linked
    <2>12. Ordered(r, t)
      BY <1>0, <1>a, <2>4, <2>7, <2>11 DEF Ordered
    <2> QED
      BY <2>3, <2>4, <2>12 DEF h, k
  <1> QED
    BY <1>0, <1>2, <1>3

(* push_back puts the new node after the others.                           *)
LEMMA PushBackOrders ==
  ASSUME None \notin Nodes, NEW l \in List, NEW s, Ordered(l, s),
         NEW n \in Nodes \ l.live, NEW d \in Labels,
         NEW r, r = PushBack(l, n, d),
         NEW t \in [1..l.length + 1 -> Nodes],
         \A i \in 1..l.length + 1 : t[i] = IF i = l.length + 1 THEN n ELSE s[i]
  PROVE  Ordered(r, t) /\ r.length = l.length + 1 /\ r.bad = l.bad
  <1> DEFINE k == l.length  h == k + 1
  <1>0. k \in Nat /\ h \in Nat /\ h = k + 1 /\ h >= 1 /\ h - 1 = k
    BY DEF Ordered
  <1>a. t \in [1..h -> Nodes] /\ \A i \in 1..h : t[i] = IF i = h THEN n ELSE s[i]
    OBVIOUS
  <1>1. /\ s \in [1..k -> Nodes]
        /\ \A i, j \in 1..k : s[i] = s[j] => i = j
        /\ l.live = {s[i] : i \in 1..k}
        /\ l.head = (IF k = 0 THEN None ELSE s[1])
        /\ l.tail = (IF k = 0 THEN None ELSE s[k])
        /\ \A i \in 1..k : l.next[s[i]] = (IF i = k THEN None ELSE s[i + 1])
        /\ \A i \in 1..k : l.prev[s[i]] = (IF i = 1 THEN None ELSE s[i - 1])
    BY <1>0 DEF Ordered, Linked
  <1>2. /\ r.live = l.live \cup {n} /\ r.length = h
        /\ r.tail = n /\ r.head = (IF l.tail = None THEN n ELSE l.head)
        /\ r.bad = (l.bad \/ ~({l.tail} \ {None} \subseteq l.live))
        /\ \A m \in Nodes :
             /\ r.next[m] = IF m = n THEN None ELSE IF m = l.tail THEN n ELSE l.next[m]
             /\ r.prev[m] = IF m = n THEN l.tail ELSE l.prev[m]
    BY PushBackFields
  <1> HIDE DEF k, h
  <1>3. \A i \in 1..k : s[i] \in Nodes /\ s[i] \in l.live /\ s[i] # n /\ s[i] # None
    BY <1>1
  <1>4. r.bad = l.bad
    <2>1. k # 0 => k \in 1..k
      BY <1>0
    <2>2. {l.tail} \ {None} \subseteq l.live /\ l.bad \in BOOLEAN
      BY <2>1, <1>1, <1>3 DEF List
    <2> QED
      BY <1>2, <2>2
  <1>5. \A i \in 1..k : i \in 1..h /\ i # h /\ t[i] = s[i]
    BY <1>0, <1>a
  <1>6. h \in 1..h /\ t[h] = n /\ \A i \in 1..h : i = h \/ i \in 1..k
    BY <1>0, <1>a
  <1>7. \A i, j \in 1..h : t[i] = t[j] => i = j
    BY <1>1, <1>3, <1>5, <1>6
  <1>8. r.live = {t[i] : i \in 1..h}
    <2>1. ASSUME NEW m \in r.live PROVE \E i \in 1..h : m = t[i]
      <3>1. CASE m = n
        BY <3>1, <1>6
      <3>2. CASE m # n
        BY <3>2, <1>1, <1>2, <1>5
      <3> QED
        BY <3>1, <3>2
    <2>2. \A i \in 1..h : t[i] \in r.live
      BY <1>2, <1>3, <1>5, <1>6
    <2> QED
      BY <2>1, <2>2
  <1>9. r.head = t[1] /\ r.tail = t[h]
    <2>1. CASE k = 0
      <3>1. h = 1 /\ l.tail = None
        BY <2>1, <1>0, <1>1
      <3> QED
        BY <3>1, <1>2, <1>6
    <2>2. CASE k # 0
      <3>1. 1 \in 1..k /\ k \in 1..k
        BY <2>2, <1>0
      <3>2. l.tail # None
        BY <2>2, <3>1, <1>1, <1>3
      <3> QED
        BY <2>2, <3>1, <3>2, <1>1, <1>2, <1>5, <1>6
    <2> QED
      BY <2>1, <2>2
  <1>10. ASSUME NEW i \in 1..h
         PROVE  /\ r.next[t[i]] = (IF i = h THEN None ELSE t[i + 1])
                /\ r.prev[t[i]] = (IF i = 1 THEN None ELSE t[i - 1])
    <2>1. CASE i = h
      <3>1. r.next[t[i]] = None /\ r.prev[t[i]] = l.tail
        BY <2>1, <1>2, <1>6
      <3>2. i = 1 <=> k = 0
        BY <2>1, <1>0
      <3>3. k # 0 => i - 1 = k /\ k \in 1..k
        BY <2>1, <1>0
      <3>4. k # 0 => l.tail = t[i - 1]
        BY <3>3, <1>1, <1>5
      <3> QED
        BY <2>1, <3>1, <3>2, <3>4, <1>1
    <2>2. CASE i \in 1..k
      <3>1. i # h /\ t[i] = s[i] /\ k # 0 /\ k \in 1..k /\ i + 1 \in 1..h /\ (i = k <=> i + 1 = h)
        BY <2>2, <1>0, <1>5
      <3>2. r.next[t[i]] = t[i + 1]
        <4>1. CASE i = k
          <5>1. t[i] = l.tail
            BY <3>1, <4>1, <1>1
          <5>2. r.next[t[i]] = n /\ t[i + 1] = n
            BY <5>1, <3>1, <4>1, <1>2, <1>3, <1>6
          <5> QED
            BY <5>2
        <4>2. CASE i # k
          <5>1. s[i] # l.tail /\ i + 1 \in 1..k
            BY <2>2, <3>1, <4>2, <1>0, <1>1
          <5>2. r.next[t[i]] = l.next[s[i]] /\ l.next[s[i]] = s[i + 1]
            BY <2>2, <3>1, <4>2, <5>1, <1>1, <1>2, <1>3
          <5> QED
            BY <5>1, <5>2, <1>5
        <4> QED
          BY <4>1, <4>2
      <3>3. r.prev[t[i]] = (IF i = 1 THEN None ELSE t[i - 1])
        <4>1. r.prev[t[i]] = l.prev[s[i]] /\ l.prev[s[i]] = (IF i = 1 THEN None ELSE s[i - 1])
          BY <2>2, <3>1, <1>1, <1>2, <1>3
        <4>2. i # 1 => i - 1 \in 1..k
          BY <2>2, <1>0
        <4> QED
          BY <4>1, <4>2, <1>5
      <3> QED
        BY <3>1, <3>2, <3>3
    <2> QED
      BY <2>1, <2>2, <1>6
  <1>11. Ordered(r, t) /\ r.length = h
    <2>1. r.length = h /\ h # 0
      BY <1>0, <1>2
    <2>2. Linked(r, t)
      BY <2>1, <1>a, <1>8, <1>9, <1>10 DEF Linked
    <2> QED
      BY <2>1, <2>2, <1>0, <1>a, <1>7 DEF Ordered
  <1> QED
    BY <1>4, <1>11, <1>0 DEF k

(* Following the pointers from the head meets the nodes in their order.    *)
LEMMA ChainIs ==
  ASSUME None \notin Nodes, NEW l \in List, NEW s, Ordered(l, s)
  PROVE  Chain(l.next, l.head, l.length) = s
  <1> DEFINE k == l.length  x == l.head  f == l.next
             After(c) == [i \in 1..k |-> IF i = 1 THEN x ELSE Field(f, c[i - 1])]
  <1>1. /\ k \in Nat /\ s \in [1..k -> Nodes]
        /\ 1 \in 1..k => x = s[1]
        /\ \A i \in 1..k : i # 1 => i - 1 \in 1..k /\ s[i - 1] \in Nodes /\ f[s[i - 1]] = s[i]
    <2>1. /\ k \in Nat /\ s \in [1..k -> Nodes]
          /\ x = (IF k = 0 THEN None ELSE s[1])
          /\ \A i \in 1..k : f[s[i]] = (IF i = k THEN None ELSE s[i + 1])
      BY DEF Ordered, Linked
    <2> HIDE DEF k, x, f
    <2>2. ASSUME NEW i \in 1..k, i # 1 PROVE i - 1 \in 1..k /\ f[s[i - 1]] = s[i]
      <3>1. i - 1 \in 1..k /\ i - 1 # k /\ (i - 1) + 1 = i
        BY <2>1, <2>2
      <3> QED
        BY <2>1, <3>1
    <2> QED
      BY <2>1, <2>2
  <1>2. s = After(s)
    <2> HIDE DEF k, x, f
    <2>1. \A i \in 1..k : s[i] = IF i = 1 THEN x ELSE Field(f, s[i - 1])
      BY <1>1 DEF Field
    <2> QED
      BY <1>1, <2>1
  <1>3. Chain(f, x, k) = CHOOSE c : c = After(c)
    BY DEF Chain
  <1> DEFINE c == Chain(f, x, k)
  <1> HIDE DEF k, x, f
  <1>4. c = After(c)
    <2> HIDE DEF After
    <2>1. \E d : d = After(d)
      BY <1>2
    <2> QED
      BY <1>3, <2>1
  <1> HIDE DEF c
  <1>5. /\ DOMAIN c = 1..k
        /\ \A i \in 1..k : c[i] = IF i = 1 THEN x ELSE Field(f, c[i - 1])
    BY <1>4
  <1> DEFINE D == {i \in 1..k : c[i] # s[i]}
  <1>6. D = {}
    <2> SUFFICES ASSUME D # {} PROVE FALSE
      OBVIOUS
    <2>1. D \subseteq Nat
      BY <1>1
    <2>2. PICK i \in D : \A j \in D : ~(<<j, i>> \in OpToRel(<, Nat))
      <3> HIDE DEF D
      <3> QED
        BY <2>1, WFMin, NatLessThanWellFounded
    <2>3. \A j \in D : ~(j < i)
      BY <2>1, <2>2 DEF OpToRel
    <2>4. i \in 1..k /\ c[i] # s[i]
      OBVIOUS
    <2>5. i # 1
      BY <1>1, <1>5, <2>4
    <2>6. i - 1 \in 1..k /\ i - 1 < i /\ s[i - 1] \in Nodes /\ f[s[i - 1]] = s[i]
      BY <1>1, <2>4, <2>5
    <2>7. c[i - 1] = s[i - 1]
      BY <2>3, <2>6
    <2>8. c[i] = Field(f, s[i - 1])
      BY <1>5, <2>4, <2>5, <2>7
    <2> QED
      BY <2>4, <2>6, <2>8 DEF Field
  <1>7. \A i \in 1..k : c[i] = s[i]
    BY <1>6
  <1>8. c = s
    <2>1. c = [i \in 1..k |-> c[i]]
      BY <1>4, <1>5
    <2>2. s = [i \in 1..k |-> s[i]]
      BY <1>1
    <2> QED
      BY <1>7, <2>1, <2>2
  <1> QED
    BY <1>8 DEF c, k, x, f

=============================================================================
